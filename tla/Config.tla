------------------------------- MODULE Config -------------------------------
(***************************************************************************)
(* config.query: the dialogue in which the user chooses a platform, a      *)
(* workspace type and a software configuration, and confirms the summary   *)
(* of it (armplat_1901.py lines 1693-1788 and 1894-2134).  Every lookup is *)
(* dblu, DbLookup's Lookup on the database Root; every answer the user may *)
(* give a prompt is a choice of \E.  A step is one _choose_* call, or the *)
(* part of _choose between two of them.                                    *)
(* After the summary come the lookups of config.sync; in QA mode __main__  *)
(* runs run_qa instead, whose lookups are the QA branch.                   *)
(***************************************************************************)
EXTENDS DbLookup, ChoiceTree

CONSTANTS
  MaxIncludes   \* nested _add_includes calls that fit under the limit

VARIABLES
  pc,        \* the next step of the dialogue and sync, "done" or "aborted"
  host,      \* HOST, "Linux" or "Windows" (line 30)
  p, ws, env, kern, fs, fw, pb,  \* config.p.meta, config.ws.meta, ...
  deps,      \* config.deps, as a set
  swcs,      \* config.swcs, as a set
  manifest,  \* config.manifest
  err,       \* what ended the script, once pc = "aborted"
  qa,        \* script.qa_mode: __main__ runs run_qa instead of run
  todo,      \* the platforms of p.all run_qa has still to visit
  manifests  \* the manifests run_qa collected and has still to sync

vars == <<pc, host, p, ws, env, kern, fs, fw, pb, deps, swcs, manifest, err, qa, todo, manifests>>
choices == <<p, ws, env, kern, fs, fw, pb>>

\* dblu(key, plat, noneAllowed): Database(ARMPLATDB).lookup.
Dblu(key, plat, na) == Lookup(Root, key, plat, na, 1)

\* The errors among a set of lookup outcomes.
Failed(outs) == {o.err : o \in {x \in outs : ~x.ok}}

-----------------------------------------------------------------------------
(***************************************************************************)
(* The lookups of choice.tree, crawl and tree_prompt.                      *)
(***************************************************************************)

\* The lookups choice.tree makes: name and descr of every node but the root.
TreeLookups(kl, root, plat) ==
  UNION {{Dblu(Dot(c, "name"), plat, FALSE), Dblu(Dot(c, "descr"), plat, TRUE)} :
           c \in Nodes(kl, root) \ {root}}

\* crawl: the prebuilts of a node are dblu(meta + ".pb"), without plat.
Pbs(meta) == Dblu(Dot(meta, "pb"), NoPlat, TRUE)

\* Mutant of Disabled: a parent is not disabled when all its children are.
DisabledLeafOnly(kl, meta, h) ==
  LET pbs    == Pbs(meta)
      numPbs == IF pbs.ok /\ Truthy(pbs.v) THEN PyLen(pbs.v) ELSE 0
  IN  numPbs = 0 /\ h # "Linux"

\* crawl's verdict on a node: no enabled child, or no prebuilts on a host
\* that is not Linux.
RECURSIVE Disabled(_, _, _)
Disabled(kl, meta, h) ==
  LET ch     == ChildrenOf(kl, meta)
      numEn  == Cardinality({c \in ch : ~Disabled(kl, c, h)})
      pbs    == Pbs(meta)
      numPbs == IF pbs.ok /\ Truthy(pbs.v) THEN PyLen(pbs.v) ELSE 0
  IN  (ch # {} /\ numEn = 0) \/ (numPbs = 0 /\ h # "Linux")

\* The nodes tree_prompt can return: a node with one child passes to it,
\* one with more asks the user, who can only pick an enabled child.
RECURSIVE Picks(_, _, _)
Picks(kl, meta, dis) ==
  LET ch == ChildrenOf(kl, meta) IN
  IF ch = {} THEN {meta}
  ELSE IF Cardinality(ch) = 1 THEN UNION {Picks(kl, c, dis) : c \in ch}
  ELSE UNION {Picks(kl, c, dis) : c \in ch \ dis}

\* tree_prompt over a root with the children ch and no grandchildren.
FlatPicks(root, ch) == IF ch = {} THEN {root} ELSE ch
-----------------------------------------------------------------------------
(***************************************************************************)
(* _add_deps and _add_includes.  A result is Ok(set of keys) or the error  *)
(* that ends the script.                                                   *)
(***************************************************************************)

\* _add_deps(key): the entries of dblu(key + ".deps", p, True).
AddDeps(key, plat) ==
  LET r == Dblu(Dot(key, "deps"), plat, TRUE) IN
  IF ~r.ok THEN r ELSE Ok(IF Truthy(r.v) THEN Items(r.v) ELSE {})

\* _add_includes(key) at recursion depth n: every key of the includes list,
\* and what each of them includes in turn.
RECURSIVE AddIncludes(_, _, _), IncludesOf(_, _, _), IncludeAll(_, _, _), IncludeOne(_, _, _, _)
AddIncludes(key, plat, n) == IncludesOf(Dblu(Dot(key, "includes"), plat, TRUE), plat, n)
\* The rest of _add_includes, given r, the lookup of key + ".includes".
IncludesOf(r, plat, n) ==
  IF ~r.ok THEN r
  ELSE IF ~Truthy(r.v) THEN Ok({})
  ELSE IF n >= MaxIncludes THEN Err(ErrIncludes)
  ELSE IncludeAll(Items(r.v), plat, n + 1)
IncludeAll(keys, plat, n) ==
  IF keys = {} THEN Ok({}) ELSE IncludeOne(keys, CHOOSE x \in keys : TRUE, plat, n)
\* One key k of the list: what k includes, then the rest of the list.
Included(k, sub, rest) ==
  IF ~sub.ok THEN sub ELSE IF ~rest.ok THEN rest
  ELSE Ok({k} \cup sub.v \cup rest.v)
IncludeOne(keys, k, plat, n) ==
  Included(k, AddIncludes(k, plat, n), IncludeAll(keys \ {k}, plat, n))

\* Whether every step of a handler succeeded, and otherwise one error that
\* ends it (which one the code meets first is not told apart).
AllOk(outs) == \A o \in outs : o.ok
FirstErr(outs) == CHOOSE e \in Failed(outs) : TRUE

\* Mutant of Abort: the script ends without recording what ended it.
AbortSilent(e) == pc' = "aborted" /\ UNCHANGED <<host, qa, todo, manifests, choices, deps, swcs, manifest, err>>

\* script.abort, or an exception nothing catches: the script ends.
Abort(e) == pc' = "aborted" /\ err' = e /\ UNCHANGED <<host, qa, todo, manifests, choices, deps, swcs, manifest>>

\* A handler's lookups all succeeded: its updates, else the abort.
Guarded(outs, upd) == IF AllOk(outs) THEN upd ELSE Abort(FirstErr(outs))

-----------------------------------------------------------------------------
(***************************************************************************)
(* The steps of config.query.                                              *)
(***************************************************************************)

PAll == Dblu(Path(<<"p", "all">>), NoPlat, FALSE)

\* The platform tree, the lookups that build and crawl it, and crawl's
\* verdict on it for each host.
PlatformKeys == Items(PAll.v)
PlatformNodes == Nodes(PlatformKeys, <<"p">>)
PlatformLookups == TreeLookups(PlatformKeys, <<"p">>, NoPlat)
                   \cup {Pbs(n) : n \in PlatformNodes}
DisabledOn == [h \in {"Linux", "Windows"} |->
                {n \in PlatformNodes : Disabled(PlatformKeys, n, h)}]

\* Mutant of TakeP: _choose does not reset config.manifest.
TakePKeepManifest(leaf, inc) ==
  Guarded({inc},
    /\ p' = leaf /\ swcs' = inc.v /\ deps' = {} /\ pc' = "ws"
    /\ UNCHANGED <<host, qa, todo, manifests, ws, env, kern, fs, fw, pb, manifest, err>>)

\* The platform leaf is chosen and inc is _add_includes(leaf): the reset of
\* _choose and the end of _choose_p.
TakeP(leaf, inc) ==
  Guarded({inc},
    /\ p' = leaf /\ swcs' = inc.v /\ deps' = {}
    /\ manifest' = PyNone /\ pc' = "ws"
    /\ UNCHANGED <<host, qa, todo, manifests, ws, env, kern, fs, fw, pb, err>>)

\* _choose up to _choose_ws: reset cfg, deps, swcs and manifest, then
\* _choose_p: build the platform tree, crawl it, prompt, and add the
\* components the platform includes.
ChooseP ==
  /\ pc = "p"
  /\ IF ~PAll.ok THEN Abort(PAll.err)
     ELSE Guarded(PlatformLookups,
            \E leaf \in Picks(PlatformKeys, <<"p">>, DisabledOn[host]) :
              TakeP(leaf, AddIncludes(leaf, Plat(leaf), 0)))

\* _choose_ws: build from source (on Linux, with a kernel or a firmware)
\* and/or use a prebuilt configuration; then _choose branches on it.
ChooseWs ==
  LET plat == Plat(p)
      ks  == Dblu(Dot(p, "k"), plat, TRUE)
      fws == Dblu(Dot(p, "fw"), plat, TRUE)
      pbs == Dblu(Dot(p, "pb"), plat, TRUE)
      ch  == (IF (Truthy(ks.v) \/ Truthy(fws.v)) /\ host = "Linux"
              THEN {<<"bfs">>} ELSE {})
             \cup (IF Truthy(pbs.v) THEN {<<"pbc">>} ELSE {})
  IN  /\ pc = "ws"
      /\ Guarded({ks, fws, pbs},
           \E w \in FlatPicks(<<"ws">>, ch) :
             /\ ws' = w
             /\ pc' = CASE w = <<"bfs">> -> "bfs" [] w = <<"pbc">> -> "pb"
                        [] OTHER -> "summary"
             /\ UNCHANGED <<host, qa, todo, manifests, p, env, kern, fs, fw, pb, deps, swcs, manifest, err>>)

\* The build-from-source branch of _choose: the host checks, which abort
\* when a package, the system gcc or the git configuration is unfit, and
\* the platform's dependencies.
PrepareBfs ==
  LET d == AddDeps(p, Plat(p)) IN
  /\ pc = "bfs"
  /\ \/ Abort(ErrHost)
     \/ Guarded({d}, /\ deps' = deps \cup d.v /\ pc' = "env"
                     /\ UNCHANGED <<host, qa, todo, manifests, choices, swcs, manifest, err>>)

\* _choose_env: a kernel and userspace, or a firmware.
ChooseEnv ==
  LET plat  == Plat(p)
      ks    == Dblu(Dot(p, "k"), plat, TRUE)
      fws   == Dblu(Dot(p, "fw"), plat, TRUE)
      names == (IF Truthy(ks.v) THEN {Dblu(<<"k", DOT, "name">>, NoPlat, FALSE)} ELSE {})
               \cup (IF Truthy(fws.v) THEN {Dblu(<<"fw", DOT, "name">>, NoPlat, FALSE)} ELSE {})
      ch    == (IF Truthy(ks.v) THEN {<<"k">>} ELSE {})
               \cup (IF Truthy(fws.v) THEN {<<"fw">>} ELSE {})
  IN  /\ pc = "env"
      /\ Guarded({ks, fws},
           Guarded(names,
             \E e \in FlatPicks(<<"env">>, ch) :
               /\ env' = e
               /\ pc' = CASE e = <<"k">> -> "k" [] e = <<"fw">> -> "fw"
                          [] OTHER -> "summary"
               /\ UNCHANGED <<host, qa, todo, manifests, p, ws, kern, fs, fw, pb, deps, swcs, manifest, err>>))

\* The end of _choose_k, _choose_fs and _choose_fw once key is chosen:
\* d is _add_deps(key), inc is _add_swc(key) (which calls _add_includes(key))
\* and man the manifest lookup of _choose_k and _choose_fw.
TakeK(k, d, inc, man) ==
  Guarded({d, inc}, Guarded({man},
    /\ kern' = k /\ deps' = deps \cup d.v /\ swcs' = swcs \cup {k} \cup inc.v
    /\ manifest' = man.v /\ pc' = "fs"
    /\ UNCHANGED <<host, qa, todo, manifests, p, ws, env, fs, fw, pb, err>>))
TakeFs(f, d, inc) ==
  Guarded({d, inc},
    /\ fs' = f /\ deps' = deps \cup d.v /\ swcs' = swcs \cup {f} \cup inc.v
    /\ pc' = "summary"
    /\ UNCHANGED <<host, qa, todo, manifests, p, ws, env, kern, fw, pb, manifest, err>>)
TakeFw(f, d, inc, man) ==
  Guarded({d, inc}, Guarded({man},
    /\ fw' = f /\ deps' = deps \cup d.v /\ swcs' = swcs \cup {f} \cup inc.v
    /\ manifest' = man.v /\ pc' = "summary"
    /\ UNCHANGED <<host, qa, todo, manifests, p, ws, env, kern, fs, pb, err>>))

\* _choose_k: the kernel tree of the platform's k list, then the manifest.
ChooseK ==
  LET plat == Plat(p)
      kl   == Dblu(Dot(p, "k"), plat, FALSE)
  IN  /\ pc = "k"
      /\ Guarded({kl},
           Guarded(TreeLookups(Items(kl.v), <<"k">>, plat),
             \E k \in Picks(Items(kl.v), <<"k">>, {}) :
               TakeK(k, AddDeps(k, plat), AddIncludes(k, plat, 0),
                     Dblu(Dot(k, "manifest"), plat, FALSE))))

\* Mutant of ChooseFs: every filesystem of the kernel is offered.
ChooseFsKernelOnly ==
  LET plat == Plat(p)
      kf   == Dblu(Dot(kern, "fs"), plat, FALSE)
      fss  == Items(kf.v)
  IN  /\ pc = "fs"
      /\ Guarded({kf},
           Guarded(TreeLookups(fss, <<"fs">>, plat),
             \E f \in Picks(fss, <<"fs">>, {}) :
               TakeFs(f, AddDeps(f, plat), AddIncludes(f, plat, 0))))

\* _choose_fs: the filesystems both the platform and the kernel support.
ChooseFs ==
  LET plat == Plat(p)
      pf   == Dblu(Dot(p, "fs"), plat, FALSE)
      kf   == Dblu(Dot(kern, "fs"), plat, FALSE)
      fss  == Items(kf.v) \cap Items(pf.v)
  IN  /\ pc = "fs"
      /\ Guarded({pf, kf},
           Guarded(TreeLookups(fss, <<"fs">>, plat),
             \E f \in Picks(fss, <<"fs">>, {}) :
               TakeFs(f, AddDeps(f, plat), AddIncludes(f, plat, 0))))

\* _choose_fw: the firmware tree of the platform's fw list, then the
\* manifest.
ChooseFw ==
  LET plat == Plat(p)
      fl   == Dblu(Dot(p, "fw"), plat, FALSE)
  IN  /\ pc = "fw"
      /\ Guarded({fl},
           Guarded(TreeLookups(Items(fl.v), <<"fw">>, plat),
             \E f \in Picks(Items(fl.v), <<"fw">>, {}) :
               TakeFw(f, AddDeps(f, plat), AddIncludes(f, plat, 0),
                      Dblu(Dot(f, "manifest"), plat, FALSE))))

\* The end of _choose_pb for one prebuilt b: _add_deps(b), _add_swc(b).
TakePb(b, d, inc) ==
  Guarded({d, inc},
    /\ pb' = b /\ deps' = deps \cup d.v /\ swcs' = swcs \cup inc.v
    /\ pc' = "summary"
    /\ UNCHANGED <<host, qa, todo, manifests, p, ws, env, kern, fs, fw, manifest, err>>)

\* _choose_pb: one prebuilt is taken as it is; of several the user picks
\* one or "<< all >>", which takes the dependencies of all of them and
\* empties swcs.
ChoosePb ==
  LET plat  == Plat(p)
      pl    == Dblu(Dot(p, "pb"), plat, FALSE)
      pbl   == Items(pl.v)
      names == {Dblu(Dot(x, "name"), plat, FALSE) : x \in pbl}
      opts  == IF Cardinality(pbl) = 1 THEN pbl ELSE pbl \cup {<<"all">>}
  IN  /\ pc = "pb"
      /\ Guarded({pl},
           Guarded(names,
             \E b \in opts :
               IF b = <<"all">>
               THEN LET ds == {AddDeps(x, plat) : x \in pbl} IN
                    Guarded(ds,
                      /\ pb' = b /\ deps' = deps \cup UNION {o.v : o \in ds}
                      /\ swcs' = {} /\ pc' = "summary"
                      /\ UNCHANGED <<host, qa, todo, manifests, p, ws, env, kern, fs, fw, manifest, err>>)
               ELSE TakePb(b, AddDeps(b, plat), AddIncludes(b, plat, 0))))

\* sorted(..., key=priority) compares the priorities: ints with ints or
\* strs with strs; anything else raises TypeError.
Sortable(vals) ==
  \/ Cardinality(vals) <= 1
  \/ \A x \in vals : x.t = "int"
  \/ \A y \in vals : y.t = "str"

\* The end of _choose: sort swcs by priority, look up name, vsn and commit
\* of each with noneAllowed=True, and ask to proceed; "No" makes query run
\* _choose again.
Summary ==
  LET plat  == Plat(p)
      prios == {Dblu(Dot(c, "priority"), plat, FALSE) : c \in swcs}
      rows  == {Dblu(Dot(c, a), plat, TRUE) : c \in swcs, a \in {"name", "vsn", "commit"}}
  IN  /\ pc = "summary"
      /\ Guarded(prios,
           IF ~Sortable({o.v : o \in prios}) THEN Abort(ErrType)
           ELSE Guarded(rows,
                  /\ \E yes \in BOOLEAN : pc' = IF yes THEN "sync" ELSE "p"
                  /\ UNCHANGED <<host, qa, todo, manifests, choices, deps, swcs, manifest, err>>))

-----------------------------------------------------------------------------
(***************************************************************************)
(* config.sync, as far as the database takes part in it: each sh.fetch    *)
(* starts with the lookups of its download, and sh.reposync fetches        *)
(* dl.tool.repo without a plat.  What happens to the files is modelled in  *)
(* Fetch and Sync.                                                         *)
(***************************************************************************)

FetchAttrs == {"url", "name", "md5name", "dir"}
RepoTool   == Path(<<"dl", "tool", "repo">>)
ErrAttr    == "AttributeError"

\* Mutant of FetchInfo: sync calls fetch without the platform.
FetchInfoNoPlat(key, plat) == [a \in FetchAttrs |-> Dblu(Dot(key, a), NoPlat, TRUE)]

\* The first statements of sh.fetch(key, plat): dblum(key, [url, name,
\* md5name, dir], plat, noneAllowed=True).
FetchInfo(key, plat) == [a \in FetchAttrs |-> Dblu(Dot(key, a), plat, TRUE)]

\* The download can go ahead: every lookup succeeded, and url, name and
\* dir are strs, as url2dld(url), name.split("/") and sh.mkdir(dir) need;
\* only md5name may be None.
Downloadable(info) ==
  /\ \A a \in FetchAttrs : info[a].ok
  /\ \A a \in FetchAttrs \ {"md5name"} : info[a].v.t = "str"

\* The downloads config.sync starts: every dependency for the chosen
\* platform and, when there is a manifest, the repo tool.
SyncInfos ==
  {FetchInfo(d, Plat(p)) : d \in deps}
  \cup (IF manifest.t = "str" THEN {FetchInfo(RepoTool, NoPlat)} ELSE {})

\* config.sync up to the transfers: a failed lookup is script.abort, and a
\* None where a str is needed raises AttributeError.
SyncLookups ==
  /\ pc = "sync"
  /\ LET outs == UNION {{i[a] : a \in FetchAttrs} : i \in SyncInfos} IN
     Guarded(outs,
       IF \A i \in SyncInfos : Downloadable(i)
       THEN pc' = "done" /\ UNCHANGED <<host, qa, todo, manifests, choices, deps, swcs, manifest, err>>
       ELSE Abort(ErrAttr))

-----------------------------------------------------------------------------
(***************************************************************************)
(* run_qa (lines 2143-2163), as far as the database takes part in it: for *)
(* each platform of p.all, dblum(p, [k, fw, fs, pb], p, noneAllowed=True), *)
(* the manifest of each kernel and firmware, the deps of each filesystem   *)
(* and prebuilt and the lookups of each sh.fetch of them; then             *)
(* sh.reposync(m, "p", force_fresh=True) for each manifest collected.  A   *)
(* failed lookup is a hard abort, which ends QA mode too (script.abort).  *)
(* The transfers and repo's outcomes are modelled in Fetch and Sync.       *)
(***************************************************************************)

QaLists(q) == [a \in {"k", "fw", "fs", "pb"} |-> Dblu(Dot(q, a), Plat(q), TRUE)]

\* "if xs: for x in xs": the entries of a list that was found and is truthy.
ItemsOf(r) == IF r.ok /\ Truthy(r.v) THEN Items(r.v) ELSE {}

\* Mutant of QaManifestLookups: the firmwares' manifests are not collected.
QaManifestLookupsNoFw(q) ==
  {Dblu(Dot(k, "manifest"), Plat(q), FALSE) : k \in ItemsOf(QaLists(q)["k"])}

\* manifests.append(dblu(k + ".manifest", plat=p)) for k in ks and fws.
QaManifestLookups(q) ==
  {Dblu(Dot(k, "manifest"), Plat(q), FALSE) :
     k \in ItemsOf(QaLists(q)["k"]) \cup ItemsOf(QaLists(q)["fw"])}

\* dblu(k + ".deps", plat=p, noneAllowed=True) for k in fss + pbs.
QaDepLookups(q) ==
  {Dblu(Dot(k, "deps"), Plat(q), TRUE) :
     k \in ItemsOf(QaLists(q)["fs"]) \cup ItemsOf(QaLists(q)["pb"])}

\* sh.fetch(d, plat=p, force_fresh=True) for each of those deps.
QaFetches(q) == {FetchInfo(d, Plat(q)) : d \in UNION {ItemsOf(r) : r \in QaDepLookups(q)}}

\* The downloads every QA run fetches, each with the platform it is
\* fetched for.
QaDeps == UNION {{<<d, q>> : d \in UNION {ItemsOf(r) : r \in QaDepLookups(q)}} : q \in PlatformKeys}

\* The manifests every QA run syncs.
QaManifests == UNION {{r.v : r \in QaManifestLookups(q)} : q \in PlatformKeys}

\* run_qa up to its loop: check_empty_ws (see Fetch), start_qa and
\* dblu("p.all"), a list of platform keys.
QaStart ==
  /\ pc = "qa"
  /\ IF ~PAll.ok THEN Abort(PAll.err)
     ELSE /\ todo' = PAll.v.l /\ pc' = "qap"
          /\ UNCHANGED <<host, qa, manifests, choices, deps, swcs, manifest, err>>

\* One iteration of the platform loop of run_qa.
QaPlatform ==
  LET q  == Head(todo)
      ls == {QaLists(q)[a] : a \in {"k", "fw", "fs", "pb"}}
      fi == QaFetches(q)
  IN  /\ pc = "qap" /\ todo # <<>>
      /\ Guarded(ls, Guarded(QaManifestLookups(q), Guarded(QaDepLookups(q),
           Guarded(UNION {{i[a] : a \in FetchAttrs} : i \in fi},
             IF \A i \in fi : Downloadable(i)
             THEN /\ manifests' = manifests \cup {r.v : r \in QaManifestLookups(q)}
                  /\ todo' = Tail(todo)
                  /\ pc' = IF Tail(todo) = <<>> THEN "qasync" ELSE "qap"
                  /\ UNCHANGED <<host, qa, choices, deps, swcs, manifest, err>>
             ELSE Abort(ErrAttr)))))

\* Mutant of QaRepoLookups: reposync is called without a platform.
QaRepoLookupsNoPlat ==
  {Dblu(<<AT, DOT, a>>, NoPlat, a = "pihooks") : a \in {"manifests", "mrel", "pihooks"}}

\* The lookups of sh.reposync(m, "p"): dblu("@.manifests", p),
\* dblu("@.mrel", p) and dblu("@.pihooks", p, noneAllowed=True), with the
\* str "p" as the platform, so "@" names the p section itself.
QaRepoLookups ==
  {Dblu(<<AT, DOT, a>>, Plat(<<"p">>), a = "pihooks") : a \in {"manifests", "mrel", "pihooks"}}

\* One iteration of "for m in list(set(manifests))": sh.reposync fetches
\* dl.tool.repo, looks up the repo arguments and runs the pihooks, which
\* the empty class pihooks cannot run (KeyError).
QaReposync ==
  LET ri == FetchInfo(RepoTool, NoPlat)
      hk == Dblu(<<AT, DOT, "pihooks">>, Plat(<<"p">>), TRUE)
  IN  /\ pc = "qasync"
      /\ \E m \in manifests :
           Guarded({ri[a] : a \in FetchAttrs},
             IF ~Downloadable(ri) THEN Abort(ErrAttr)
             ELSE Guarded(QaRepoLookups,
                    IF Truthy(hk.v) THEN Abort("KeyError")
                    ELSE /\ manifests' = manifests \ {m}
                         /\ UNCHANGED <<host, qa, todo, choices, deps, swcs, manifest, err, pc>>))

\* end_qa: the loop is over.
EndQa ==
  /\ pc = "qasync" /\ manifests = {}
  /\ pc' = "qadone"
  /\ UNCHANGED <<host, qa, todo, manifests, choices, deps, swcs, manifest, err>>

\* query and the lookups of sync are over, or the script has ended.
Stop == pc \in {"done", "aborted", "qadone"} /\ UNCHANGED vars

Init ==
  /\ qa \in BOOLEAN /\ pc = IF qa THEN "qa" ELSE "p"
  /\ host \in {"Linux", "Windows"} /\ todo = <<>> /\ manifests = {}
  /\ p = <<>> /\ ws = <<>> /\ env = <<>> /\ kern = <<>> /\ fs = <<>>
  /\ fw = <<>> /\ pb = <<>>
  /\ deps = {} /\ swcs = {} /\ manifest = PyNone /\ err = ""

Next ==
  \/ ChooseP \/ ChooseWs \/ PrepareBfs \/ ChooseEnv \/ ChooseK \/ ChooseFs
  \/ ChooseFw \/ ChoosePb \/ Summary \/ SyncLookups
  \/ QaStart \/ QaPlatform \/ QaReposync \/ EndQa \/ Stop

Spec == Init /\ [][Next]_vars
-----------------------------------------------------------------------------
(***************************************************************************)
(* Properties.                                                             *)
(***************************************************************************)

Steps == {"p", "ws", "bfs", "env", "k", "fs", "fw", "pb", "summary", "sync", "done", "aborted",
           "qa", "qap", "qasync", "qadone"}
Keys  == Seq(STRING)

TypeOK ==
  /\ pc \in Steps /\ host \in {"Linux", "Windows"}
  /\ \A c \in {p, ws, env, kern, fs, fw, pb} : c \in Keys
  /\ deps \subseteq Keys /\ swcs \subseteq Keys
  /\ manifest.t \in {"str", "none"}
  /\ pc = "aborted" <=> err # ""
  /\ qa \in BOOLEAN /\ todo \in Seq(Keys) /\ \A m \in manifests : m.t = "str"

(* crawl disables the platforms this host cannot set up and tree_prompt    *)
(* walks down single children without looking: the platform the dialogue  *)
(* goes on with is never one crawl disabled.                               *)
ChosenPlatformEnabled ==
  pc \notin {"p", "aborted"} => p \notin DisabledOn[host]

(* _choose_fs offers "the intersection between what both the platform and *)
(* kernel support" (comment above ARMPLATDB["k"]): a configuration built   *)
(* from source with a kernel has a filesystem that both the platform's fs  *)
(* list and the kernel's fs list name.                                     *)
FilesystemSupported ==
  pc \in {"summary", "done"} /\ ws = <<"bfs">> /\ env = <<"k">> =>
    /\ fs \in Items(Dblu(Dot(p, "fs"), Plat(p), FALSE).v)
    /\ fs \in Items(Dblu(Dot(kern, "fs"), Plat(p), FALSE).v)

(* sync repo-syncs config.manifest when it is set: a confirmed             *)
(* configuration has a manifest exactly when it builds from source, also  *)
(* when the user answered "No" to an earlier summary and chose again.     *)
ManifestMatchesWorkspace ==
  pc = "done" => (manifest.t = "str" <=> ws = <<"bfs">>)

(* _add_includes follows the inherited "includes" key with no visited set; *)
(* fw.edkii.platforms sets it to "null" to end the chain.  No dialogue     *)
(* ends in a RecursionError of _add_includes.                              *)
IncludesTerminate == err # ErrIncludes

(* Every configuration the menus offer can be confirmed: the dialogue only *)
(* ends early when the host checks of the build-from-source branch fail.   *)
EveryConfigurationCompletes == pc = "aborted" => err = ErrHost

(* The dependencies of a configuration are keys into the dl section,     *)
(* gathered by _add_deps from the platform, kernel, filesystem, firmware  *)
(* and prebuilt and inherited along their paths; a dl entry fills its url *)
(* and name from "@" references to the platform.  For every configuration *)
(* the user confirms, each download sh.fetch starts resolves to a url, a  *)
(* name and a dir.                                                        *)
DependenciesDownloadable ==
  pc = "sync" => \A i \in SyncInfos : Downloadable(i)

(* run_qa is the bulk check of ARMPLATDB, meant to "fetch every download   *)
(* and sync every repo manifest defined in ARMPLATDB": every lookup it    *)
(* makes over all platforms, including reposync's with the literal "p" as *)
(* its platform, succeeds, so a QA run reaches end_qa.                     *)
QaCompletes == qa => pc # "aborted"

(* The manifests run_qa syncs are collected from the platforms' k and fw   *)
(* lists, while config.query takes a manifest from the leaf of the kernel  *)
(* or firmware tree the user picks: every manifest a confirmed             *)
(* configuration syncs is one that run_qa syncs too.                       *)
QaSyncsEveryManifest ==
  pc = "done" /\ manifest.t = "str" => manifest \in QaManifests

(* start_qa's comment: a QA session "attempt[s] to fetch every download"  *)
(* to find those gone stale.  Every download config.sync fetches for a    *)
(* confirmed configuration is one run_qa fetches for the same platform.   *)
QaFetchesEveryDependency ==
  pc = "done" => \A d \in deps : <<d, p>> \in QaDeps
=============================================================================
