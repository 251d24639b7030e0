-------------------------------- MODULE Sync --------------------------------
(***************************************************************************)
(* config.sync (armplat_1901.py lines 1900-1935): fetch every dependency  *)
(* into the workspace, then, when the configuration has a manifest, run   *)
(* sh.reposync (lines 1631-1665) until build-scripts/ looks complete, and *)
(* offer to wipe the workspace and sync again when it does not.           *)
(*                                                                         *)
(* One fetch is one step whose outcome is success or the end of the       *)
(* script; module Fetch models what happens inside it.  A directory of    *)
(* build-scripts/ is "missing", "empty" or "full".  The locals dirs and   *)
(* files of the loop are "unbound" until os.walk first yields, then the   *)
(* truth of the listing: "none" or "some".                                *)
(***************************************************************************)
EXTENDS Naturals, Sequences, SequencesExt
CONSTANTS
  Deps       \* config.deps, in order
VARIABLES
  pc,        \* "fetch", "reposync", "walk", "prompt", "prune", or the end:
             \* "done", "exit" or "crash"
  todo,      \* the dependencies the fetch loop has yet to fetch
  wsdeps,    \* the dependencies extracted in the workspace
  manifest,  \* config.manifest is not None
  plats,     \* build-scripts/platforms
  fss,       \* build-scripts/filesystems
  dirs,      \* the local dirs of sync
  files,     \* the local files of sync
  fresh,     \* force_fresh
  err        \* what ended the script
vars == <<pc, todo, wsdeps, manifest, plats, fss, dirs, files, fresh, err>>

Trees == {"missing", "empty", "full"}

\* What one for (_, x, _) in os.walk(p): break leaves in x: the listing of
\* p when p exists, and x unchanged when os.walk yields nothing.
Listing(tree, old) ==
  CASE tree = "missing" -> old
    [] tree = "empty"   -> "none"
    [] tree = "full"    -> "some"

Exit(e) == pc' = "exit" /\ err' = e

\* for d in config.deps: sh.fetch(d, plat=config.p.meta), then the test
\* of config.manifest.  A fetch either extracts its file or ends the script.
Fetch ==
  /\ pc = "fetch"
  /\ todo # <<>>
  /\ \/ /\ wsdeps' = wsdeps \cup {Head(todo)}
        /\ todo' = Tail(todo)
        /\ pc' = IF Tail(todo) # <<>> THEN "fetch"
                 ELSE IF manifest THEN "reposync" ELSE "done"
        /\ UNCHANGED err
     \/ Exit("fetch") /\ UNCHANGED <<todo, wsdeps>>
  /\ UNCHANGED <<manifest, plats, fss, dirs, files, fresh>>

\* sh.reposync(config.manifest, config.p.meta, force_fresh): rmdir .repo
\* when fresh, fetch dl.tool.repo, repo init (a hard abort on failure),
\* repo sync (a soft abort, which exits outside QA mode).  A sync that
\* returns 0 may still leave build-scripts/ in any state.  No platform
\* sets pihooks.
RepoSync ==
  /\ pc = "reposync"
  /\ \/ \E e \in {"repo tool", "failed to initialise repo", "failed to sync repo"} :
          Exit(e) /\ UNCHANGED <<plats, fss>>
     \/ \E t \in Trees \X Trees :
          plats' = t[1] /\ fss' = t[2] /\ pc' = "walk" /\ UNCHANGED err
  /\ UNCHANGED <<todo, wsdeps, manifest, dirs, files, fresh>>

\* The two os.walk loops and if dirs and files: Python evaluates dirs
\* first, so an unbound files is read only when dirs is true.
Walk ==
  LET d == Listing(plats, dirs)
      f == Listing(fss, files)
  IN  /\ pc = "walk"
      /\ dirs' = d /\ files' = f
      /\ pc' = CASE d = "unbound"                   -> "crash"
                 [] d = "some" /\ f = "unbound"     -> "crash"
                 [] d = "some" /\ f = "some"        -> "prune"
                 [] OTHER                           -> "prompt"
      /\ err' = IF pc' = "crash" THEN "UnboundLocalError" ELSE err
      /\ UNCHANGED <<todo, wsdeps, manifest, plats, fss, fresh>>

\* The user answers the prompt "try to sync again?".  No is sys.exit(0);
\* Yes sets force_fresh and removes every file and folder get_ws_files
\* lists: all but the script, .downloads/, .repo/ and log.txt.
Retry ==
  /\ pc = "prompt"
  /\ \/ Exit("declined") /\ UNCHANGED <<wsdeps, plats, fss, fresh>>
     \/ /\ fresh' = TRUE
        /\ wsdeps' = {}
        /\ plats' = "missing" /\ fss' = "missing"
        /\ pc' = "reposync"
        /\ UNCHANGED err
  /\ UNCHANGED <<todo, manifest, dirs, files>>

\* Lines 1927-1935: remove the other platforms' folders and the other
\* filesystems' scripts, then print "Workspace initialised.".
Prune ==
  /\ pc = "prune"
  /\ pc' = "done"
  /\ UNCHANGED <<todo, wsdeps, manifest, plats, fss, dirs, files, fresh, err>>

\* The script has ended.
Ended == pc \in {"done", "exit", "crash"} /\ UNCHANGED vars

Init ==
  /\ pc = "fetch" /\ todo = Deps /\ wsdeps = {}
  /\ manifest \in BOOLEAN
  /\ plats = "missing" /\ fss = "missing"
  /\ dirs = "unbound" /\ files = "unbound"
  /\ fresh = FALSE /\ err = ""

Next == Fetch \/ RepoSync \/ Walk \/ Retry \/ Prune \/ Ended

Spec == Init /\ [][Next]_vars

-----------------------------------------------------------------------------
\* When sync prints "Workspace initialised.", every dependency of the
\* configuration is extracted in the workspace and, for a configuration
\* with a manifest, both folders of build-scripts/ hold what repo synced.
WorkspaceInitialised ==
  pc = "done" =>
    /\ wsdeps = ToSet(Deps)
    /\ manifest => plats = "full" /\ fss = "full"

\* The loop is written for a broken sync, and "did you lose internet
\* connection during sync?" is the case it asks about: however repo left
\* build-scripts/, config.sync ends by script.abort, sys.exit or its last
\* print, never by an exception nothing catches.
SyncFailuresReported == pc # "crash"
=============================================================================
