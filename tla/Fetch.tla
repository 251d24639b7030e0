-------------------------------- MODULE Fetch --------------------------------
(***************************************************************************)
(* The downloads of one run of the script and the runs that follow a      *)
(* failed one: sh.fetch with sh.wget, sh.md5check and sh.extract_or_copy,  *)
(* and script.abort's policy in QA mode (armplat_1901.py lines 1311-1327,  *)
(* 1479-1629), called for each key of config.deps by config.sync (lines    *)
(* 1900-1903) or with force_fresh by run_qa (lines 2143-2160).             *)
(*                                                                         *)
(* A file is abstracted to "none", "good" (what the server holds) or       *)
(* "bad" (cut short).  The .downloads directory outlives a run; the        *)
(* workspace entries get_ws_files lists are deleted by check_empty_ws when *)
(* the script is run again.  Each key has its own checksum file.           *)
(***************************************************************************)
EXTENDS Naturals, Sequences, SequencesExt

CONSTANTS
  Keys,      \* the dl.* keys fetched
  Order,     \* the keys in the order a run fetches them
  Md5Keys,   \* the keys whose md5name is not None
  Archives,  \* the keys whose name extract_or_copy extracts rather than copies
  NoLength   \* the keys whose server sends no Content-Length header

VARIABLES
  dl,       \* the file of each key in .downloads
  md5,      \* the checksum file of each key in .downloads
  out,      \* what extract_or_copy left in the workspace for each key
  todo,     \* the keys this run has still to fetch; Head(todo) is fetched
  st,       \* the statement of fetch reached for Head(todo)
  aborts,   \* Len(script.aborts)
  status,   \* "run", "done" (every key fetched), "exit" or "crash"
  err,      \* what ended the run
  qa,       \* script.qa_mode; run_qa passes force_fresh = qa_mode
  flaky     \* the network and the user may still break a download off

vars == <<dl, md5, out, todo, st, aborts, status, err, qa, flaky>>

Files == {"none", "good", "bad"}

\* What can happen to one download: urlopen fails (a stale URL is an
\* HTTPError), the connection resets mid-file, the server closes it early
\* (HTTPResponse.read(amt) then returns b"" and the loop ends normally), or
\* the user interrupts the script.
Outcomes == IF flaky THEN {"ok", "refused", "reset", "short", "killed"} ELSE {"ok"}

\* sh.wget(url, name) of key k over the file cur: the file after it, what
\* it returns, and the exception that ends the script, if any.  Without a
\* Content-Length header, .strip() of None raises AttributeError and the
\* clause `except ValueError():` then raises TypeError.
Wget(k, cur, o) ==
  CASE o = "refused"  -> [f |-> cur, ok |-> FALSE, end |-> ""]
    [] k \in NoLength -> [f |-> cur, ok |-> FALSE, end |-> "TypeError"]
    [] o = "ok"       -> [f |-> "good", ok |-> TRUE, end |-> ""]
    [] o = "short"    -> [f |-> "bad", ok |-> TRUE, end |-> ""]
    [] o = "reset"    -> [f |-> "bad", ok |-> FALSE, end |-> ""]
    [] o = "killed"   -> [f |-> "bad", ok |-> FALSE, end |-> "KeyboardInterrupt"]

\* sh.md5check(dlfile, md5file) on an existing dlfile: whether it aborts
\* ("no md5 for ...") and what it returns.  A cut-short checksum file may
\* have lost the line of the file or only part of its hash.
Md5Check(f, m) ==
  IF m = "good" THEN {[abort |-> FALSE, match |-> f = "good"]}
  ELSE {[abort |-> TRUE, match |-> FALSE], [abort |-> FALSE, match |-> FALSE]}

\* The script ends.
End(e) == status' = "exit" /\ err' = e /\ UNCHANGED <<st, aborts>>
Crash(e) == status' = "crash" /\ err' = e /\ UNCHANGED <<st, aborts>>

\* n calls of script.abort(e, hard) in a row: each is appended to aborts;
\* outside QA mode the first one exits, in QA mode only a hard one does
\* (after end_qa).  Otherwise fetch goes on at statement next.
Aborts(n, hard, next) ==
  IF n = 0 THEN st' = next /\ UNCHANGED <<aborts, status, err>>
  ELSE IF qa /\ ~hard THEN aborts' = aborts + n /\ st' = next /\ UNCHANGED <<status, err>>
  ELSE /\ aborts' = aborts + 1 /\ status' = "exit" /\ UNCHANGED st
       /\ err' = IF hard THEN "hard abort" ELSE "abort"

\* The end of sh.wget with result w: a soft abort when it failed.
Fetched(w, next) ==
  IF w.end = "KeyboardInterrupt" THEN End(w.end)
  ELSE IF w.end # "" THEN Crash(w.end)
  ELSE Aborts(IF w.ok THEN 0 ELSE 1, FALSE, next)

\* Mutant of GetMd5: a checksum file already in .downloads is not fetched
\* again.
GetMd5KeepCached(o) ==
  LET k == Head(todo) IN
  /\ status = "run" /\ st = "md5"
  /\ IF k \notin Md5Keys \/ md5[k] # "none"
     THEN st' = "check" /\ UNCHANGED <<md5, aborts, status, err>>
     ELSE LET w == Wget(k, md5[k], o) IN md5' = [md5 EXCEPT ![k] = w.f] /\ Fetched(w, "check")
  /\ UNCHANGED <<dl, out, todo, qa, flaky>>

\* if md5name: sh.wget(url, md5name, silent=True)
GetMd5(o) ==
  LET k == Head(todo) IN
  /\ status = "run" /\ st = "md5"
  /\ IF k \notin Md5Keys
     THEN st' = "check" /\ UNCHANGED <<md5, aborts, status, err>>
     ELSE LET w == Wget(k, md5[k], o) IN md5' = [md5 EXCEPT ![k] = w.f] /\ Fetched(w, "check")
  /\ UNCHANGED <<dl, out, todo, qa, flaky>>

\* already_fetched: the file and its checksum file are there, force_fresh
\* is False, and md5check matches them; then the download is skipped.
Check ==
  LET k == Head(todo) IN
  /\ status = "run" /\ st = "check"
  /\ IF dl[k] # "none" /\ k \in Md5Keys /\ md5[k] # "none" /\ ~qa
     THEN \E c \in Md5Check(dl[k], md5[k]) :
            Aborts(IF c.abort THEN 1 ELSE 0, FALSE, IF c.match THEN "extract" ELSE "get")
     ELSE st' = "get" /\ UNCHANGED <<aborts, status, err>>
  /\ UNCHANGED <<dl, md5, out, todo, qa, flaky>>

\* if not already_fetched: sh.wget(url, name)
Get(o) ==
  LET k == Head(todo)
      w == Wget(k, dl[k], o)
  IN  /\ status = "run" /\ st = "get"
      /\ dl' = [dl EXCEPT ![k] = w.f]
      /\ Fetched(w, "verify")
      /\ UNCHANGED <<md5, out, todo, qa, flaky>>

\* Mutant of Verify: a fresh download is not checked.
VerifySkipped ==
  /\ status = "run" /\ st = "verify"
  /\ st' = "extract" /\ UNCHANGED <<aborts, status, err>>
  /\ UNCHANGED <<dl, md5, out, todo, qa, flaky>>

\* The checksum of a fresh download: md5sum of a missing file is a hard
\* abort (OSError); a missing line and a mismatch are soft aborts.
Verify ==
  LET k == Head(todo) IN
  /\ status = "run" /\ st = "verify"
  /\ IF k \notin Md5Keys \/ md5[k] = "none"
     THEN st' = "extract" /\ UNCHANGED <<aborts, status, err>>
     ELSE IF dl[k] = "none" THEN Aborts(1, TRUE, "extract")
     ELSE \E c \in Md5Check(dl[k], md5[k]) :
            Aborts((IF c.abort THEN 1 ELSE 0) + (IF c.match THEN 0 ELSE 1), FALSE, "extract")
  /\ UNCHANGED <<dl, md5, out, todo, qa, flaky>>

\* Mutant of Extract: the run does not end after the last key.
ExtractNoDone ==
  LET k == Head(todo) IN
  /\ status = "run" /\ st = "extract"
  /\ CASE dl[k] = "none" ->
            Aborts(1, TRUE, "md5") /\ UNCHANGED <<out, todo>>
       [] dl[k] = "bad" /\ k \in Archives ->
            Crash("EOFError") /\ UNCHANGED <<out, todo>>
       [] OTHER ->
            /\ out' = [out EXCEPT ![k] = dl[k]]
            /\ todo' = Tail(todo) /\ st' = "md5"
            /\ UNCHANGED <<aborts, err, status>>
  /\ UNCHANGED <<dl, md5, qa, flaky>>

\* sh.extract_or_copy(dlfile, dstdir): a missing file is an OSError that
\* _op, _std_extract and _bin_extract turn into a hard abort; a cut-short
\* archive raises EOFError or ReadError, which nothing catches; a copy
\* copies whatever is there.  Then the next key, or the end of the loop.
Extract ==
  LET k == Head(todo) IN
  /\ status = "run" /\ st = "extract"
  /\ CASE dl[k] = "none" ->
            Aborts(1, TRUE, "md5") /\ UNCHANGED <<out, todo>>
       [] dl[k] = "bad" /\ k \in Archives ->
            Crash("EOFError") /\ UNCHANGED <<out, todo>>
       [] OTHER ->
            /\ out' = [out EXCEPT ![k] = dl[k]]
            /\ todo' = Tail(todo) /\ st' = "md5"
            /\ IF Tail(todo) = <<>> THEN status' = "done" ELSE UNCHANGED status
            /\ UNCHANGED <<aborts, err>>
  /\ UNCHANGED <<dl, md5, qa, flaky>>

-----------------------------------------------------------------------------
(***************************************************************************)
(* The start of the next run: script.init resets script.aborts, sh.init    *)
(* makes the hidden downloads folder and calls check_empty_ws, which lists *)
(* the top of the workspace with get_ws_files and deletes what it lists.   *)
(* An entry is a file name, or a folder name with "/" appended; what a key *)
(* extracted is the entry named after the key.                             *)
(***************************************************************************)

Filename == "armplat_1901.py"   \* sh.filename, the script itself
Repod    == ".repo/"            \* sh.repod
LogTxt   == "log.txt"           \* the log script.init writes with -vvv

\* sh.mkdir(p, hidden=True) for a p without "/": rfind gives -1, so the
\* name becomes p[:0] + "." + p[0:].
Hidden(p) == "." \o p

\* sh.dld = sh.mkdir("downloads", hidden=True) + "/"
Dld == Hidden("downloads") \o "/"

\* The folders at the top of the workspace after a run.
WsDirs == {Hidden("downloads")}

\* The first entry of os.walk(sh.cwd): its files (the script and what
\* extract_or_copy left there) and its dirs, each with "/" appended.
WsEntries == {Filename} \cup {d \o "/" : d \in WsDirs} \cup {k \in Keys : out[k] # "none"}

\* get_ws_files: the entries less the script, .downloads/, .repo/ and
\* log.txt.
GetWsFiles(entries) == entries \ {Filename, Dld, Repod, LogTxt}

\* The user runs the script again after it ended early and, when
\* get_ws_files lists anything, answers Yes to "Delete these files &
\* folders and proceed?": check_empty_ws removes each listed entry.
Rerun ==
  LET del == GetWsFiles(WsEntries) IN
  /\ status \in {"exit", "crash"}
  /\ todo' = Order /\ st' = "md5" /\ aborts' = 0
  /\ status' = "run" /\ err' = ""
  /\ out' = [k \in Keys |-> IF k \in del THEN "none" ELSE out[k]]
  /\ dl' = IF Dld \in del THEN [k \in Keys |-> "none"] ELSE dl
  /\ md5' = IF Dld \in del THEN [k \in Keys |-> "none"] ELSE md5
  /\ UNCHANGED <<qa, flaky>>

\* The user answers No: sys.exit(0) before anything is fetched.
RerunDeclined ==
  /\ status \in {"exit", "crash"}
  /\ GetWsFiles(WsEntries) # {}
  /\ status' = "exit" /\ err' = "declined"
  /\ UNCHANGED <<dl, md5, out, todo, st, aborts, qa, flaky>>

\* From now on the network delivers every download whole.
Heal == flaky /\ flaky' = FALSE /\ UNCHANGED <<dl, md5, out, todo, st, aborts, status, err, qa>>

\* Every key is fetched: sync goes on to repo, or run_qa to end_qa.
Finished == status = "done" /\ UNCHANGED vars

Init ==
  /\ dl = [k \in Keys |-> "none"] /\ md5 = [k \in Keys |-> "none"]
  /\ out = [k \in Keys |-> "none"]
  /\ todo = Order /\ st = "md5" /\ aborts = 0
  /\ status = "run" /\ err = "" /\ qa \in BOOLEAN /\ flaky = TRUE

\* One statement of the script.
Step == (\E o \in Outcomes : GetMd5(o) \/ Get(o)) \/ Check \/ Verify \/ Extract

Next == Step \/ Rerun \/ RerunDeclined \/ Heal \/ Finished

\* The script runs on, the user reruns it after a failure and lets it clear
\* the workspace, and the network eventually stops failing.
Spec == Init /\ [][Next]_vars /\ WF_vars(Step) /\ WF_vars(Rerun) /\ WF_vars(Heal)
-----------------------------------------------------------------------------
Steps  == {"md5", "check", "get", "verify", "extract"}
Ends   == {"", "declined", "abort", "hard abort", "KeyboardInterrupt", "TypeError", "EOFError"}

TypeOK ==
  /\ dl \in [Keys -> Files] /\ md5 \in [Keys -> Files] /\ out \in [Keys -> Files]
  /\ todo \in Seq(Keys) /\ st \in Steps /\ aborts \in Nat
  /\ status \in {"run", "done", "exit", "crash"} /\ err \in Ends
  /\ qa \in BOOLEAN /\ flaky \in BOOLEAN
  /\ (status = "run") <=> (todo # <<>> /\ err = "")

(* fetch checks a download against its md5name file before it is used,    *)
(* also one found in .downloads from an earlier run: when sync (or a QA   *)
(* run that reports no abort) has fetched every key, each key with a      *)
(* checksum file left an intact file in the workspace.                    *)
VerifiedIntact ==
  status = "done" /\ aborts = 0 =>
    \A k \in Md5Keys \cap ToSet(Order) : out[k] = "good"

(* Once the network stops failing, rerunning the script after each failure *)
(* ends in a run that fetches every key: no file or checksum file left in *)
(* .downloads by a broken run makes every later run fail.                  *)
EventuallyFetched == <>(status = "done")

(* run_qa is meant to "attempt to fetch every download" and find the URLs *)
(* that have gone stale, which is why sh.wget's abort is soft: in QA mode  *)
(* no failed download ends the run with a hard abort.                      *)
QaSurvivesFailedDownload == qa => err # "hard abort"

(* wget is written to go on when the server "does not support             *)
(* Content-Length header": no download ends the script with TypeError.    *)
ContentLengthOptional == err # "TypeError"
=============================================================================
