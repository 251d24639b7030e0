# TLA+ models of the Arm Platforms workspace script

The program is `src/arm-reference-platforms/5518.armplat_1901.py`, a single
Python script. It asks the user to choose a platform and a software
configuration, then downloads, syncs and builds the software. Everything it
offers and does is driven by one nested dict, `ARMPLATDB`, which it reads
through a small key-path language (`Database.lookup`).

## The system

| Part | Lines | State | Operations |
|---|---|---|---|
| `ARMPLATDB` | 160-1151 | constant nested dict of str, int, list and dict | none; it is read only |
| `Database.lookup`, `dblu`, `dblum` | 1157-1238 | locals of each (nested) call: the aggregate `d`, `lookupLvl`, `item` | one walk over the key's segments, then post-processing of a str item |
| `script.abort`, QA mode | 1244-1323 | `script.aborts`, `qa_mode` | abort: log, record, exit (unless soft and in QA mode) |
| `choice`, `choice.tree`, `prompt`, `tree_prompt` | 1693-1788 | a tree of choices, each with `disabled` | build a tree from a key list, prompt, auto-select a single child |
| `config` | 1894-2134 | `cfg`, `deps`, `swcs`, `manifest`, the chosen `p`, `ws`, `env`, `k`, `fs`, `fw`, `pb` | `_choose_p` (with `crawl`), `_choose_ws`, `_choose_env`, `_choose_k`, `_choose_fs`, `_choose_fw`, `_choose_pb`, `_add_deps`, `_add_swc`, `_add_includes`, the summary table of `_choose`, `sync` |
| `run_qa` | 2143-2163 | manifests collected per platform | fetch the deps of every platform's filesystems and prebuilts, sync every manifest |
| `sh` | 1339-1684 | host filesystem, the `.downloads` cache | mkdir, extract, md5, wget, fetch, repo sync, subprocess |
| host checks | 1798-1892 | the installed gcc, apt packages, git config | `check_sys_gcc`, `check_apt_deps`, `check_git_config`, `check_empty_ws` |

How they interact: every menu, list of components, URL, manifest and version
is an `ARMPLATDB` lookup, mostly with `plat` set to the chosen platform key.
`@` in a reference stands for that key, so one template such as
`k.ack.commit = "{@.ack.commit}"` gives a different value on each platform.
Every error `lookup` reports goes to `script.abort`, which ends the script.
`config.query` builds its menus from lookups and collects `config.deps`;
`config.sync` hands each of them to `sh.fetch`. `run_qa` skips the dialogue
and fetches the dependencies of every platform's filesystems and prebuilts in QA mode, where a soft
abort is recorded and the run goes on.

### The lookup language (what makes it hard)

* `d` aggregates the keys of every level of the path (`d.update`), so a key
  is inherited from an outer level and overridden by an inner one.
* A value `#{X}` is replaced by the value of `X`, which may be a dict, and the
  walk continues into it.
* A str value has `{X}` tokens substituted by nested lookups until none is
  left. `@` is replaced by `plat`, `"null"` means None, and `"true"` means
  True.
* A nested lookup runs on the caller's aggregate `d` (`Database(d)`), not on
  the root, and never with `noneAllowed`.

### Hard behaviours

* Nested recursion with no depth bound (cycles, self-capturing templates).
* Inherited keys that meet a nested lookup on the caller's aggregate.
* `noneAllowed` dropped across nested lookups.
* Errors that escape as Python exceptions instead of going to `script.abort`
  (TypeError, RecursionError).
* In the menus: disabled nodes, auto-selection, a prompt that can loop
  forever, and a prefix match on key strings.
* In QA mode: soft aborts after which the code goes on to steps that hard-abort.

### What makes each part correct

* lookup:
  * a result is brace-free;
  * an inherited value is overridden by the innermost level;
  * noneAllowed is honoured;
  * every failure is reported through `script.abort`.
* menus: the selected node is enabled and is a key of the list, and a
  prompt eventually returns.
* config: every lookup the chosen configuration makes succeeds, and
  `_add_includes` terminates.
* QA: a soft failure does not turn into a hard abort.

## Modules

| Module | Models |
|---|---|
| `DbValues` | The Python values of the database, and the str operations lookup uses (`find`, `count`, slicing, `replace`, `split`, `subPlat`, `assimilate`). A string is a sequence of atoms: `{ } @ . #` are atoms of their own, and any other atom is opaque text. A dict key is one atom. |
| `DbLookup` | `Database.lookup` as a recursive definition: `Lookup(db, key, plat, na, n)` is the outcome of the call at recursion depth `n`. It covers the walk, the nested lookups on the aggregate `d`, the root retry and the post-processing. Past `MaxDepth` the outcome is `RecursionError`. |
| `Resolver` | `Database.lookup` statement group by statement group, on an explicit stack of frames, one frame per Python call of lookup. The frame's fields are the locals: `d`, `lvl` (`lookupLvl`), `segs` (what is left of the for loop), `item`, `ret` (the value a nested call returned) and `retry` (the second attempt on the root). `Abort` models `script.abort`, which always exits for lookup aborts because they are hard. |
| `MCResolver` | A database with every feature of the grammar, including the example of the `ARMPLATDB` documentation comment (lines 60-150). |
| `ArmPlatDb` | `ARMPLATDB` key for key: the sections `arm`, `linaro`, `p`, `k`, `fs`, `fw`, `pb`, `oc` and `dl`. `host` is left out because only `check_apt_deps` reads it. |
| `MCArmPlatDb` | `Resolver` on the real database, driven by the end of `config._choose` for SGM-775. For each of the six component sets the SGM-775 configurations reach (`Sgm775Configurations`), `KeyCall` is `sorted()` computing one priority (in any order, as `list(set(...))` gives them), `Sort` orders the components by priority (ties in any order), `RowCall` is the next `dblu` of `dblum(swc, [name, vsn, commit], noneAllowed=True)`, and `Ended` is the end of the script at the first abort or after the last row. |
| `ChoiceTree` | `choice.tree`: the menu tree built from a list of dotted keys. |
| `Config` | `config.query`, the whole dialogue, and the lookups with which `config.sync`'s fetches start. See below. |
| `MCConfig` | `Config` on the real `ARMPLATDB`, on both hosts. |
| `HostGcc` | `check_sys_gcc`: the parse of `gcc -dumpversion` and the range check. |
| `Fetch` | `sh.fetch` with `wget`, `md5check`/`md5sum` and `extract_or_copy`, and `script.abort`'s QA policy. It covers the runs that follow a failed run, over the `.downloads` directory they share. See below. |
| `Sync` | `config.sync`: the fetch loop over `config.deps`, `sh.reposync` by its outcomes, and the loop that checks `build-scripts/`, offers to wipe the workspace and syncs again. The locals `dirs` and `files` keep Python's binding rules. |
| `MCSync` | A configuration with a manifest or without one, and two dependencies. |
| `MCFetch` | Three downloads shaped like `dl.archive` (an archive with an MD5SUMS file), `dl.img.android.ramdisk` (a copied image with one) and `dl.tool.repo` (copied, no checksum). |

Actions of `Resolver`, and the code each one covers:
* `Call`: `dblu`.
* `Enter`: `subPlat(key).split(".")`.
* `WalkStep`: one iteration of the for loop.
* `WalkResume`: the return of a `#{X}` lookup, then entering a dict.
* `Post`: the str checks of lines 1187-1200.
* `LoopStep`: the test of the while loop and the nested lookup of the first token.
* `SubResume`: `replace` and the root retry.
* `Finish`: the None check and `return`.

`Config` has one action per `_choose_*` call: `ChooseP`, `ChooseWs`, `PrepareBfs`
(the host checks of a build-from-source workspace, one step that may abort),
`ChooseEnv`, `ChooseK`, `ChooseFsKernelOnly`, `ChooseFs`, `ChooseFw`, `ChoosePb`
and `Summary` (the table of `_choose` and its confirmation). `SyncLookups` is
the start of `config.sync`: the `dblum(key, [url, name, md5name, dir], plat,
noneAllowed=True)` of `sh.fetch` for every dependency with the chosen platform
and, with a manifest, for `dl.tool.repo` without one (`sh.reposync`). What the
fetches then do is modelled in `Fetch` and `Sync`.

When `qa` is TRUE, `__main__` runs `run_qa` instead, and `Config` takes its
branch: `QaStart` (`dblu("p.all")`), `QaPlatform` (one iteration of the
platform loop: the `dblum` of the platform's `k`, `fw`, `fs` and `pb`, the
manifest of each kernel and firmware, the deps of each filesystem and
prebuilt, and the lookups of each `sh.fetch` of them), `QaReposync` (one
`sh.reposync(m, "p")`: the repo tool's fetch and the lookups of `@.manifests`,
`@.mrel` and `@.pihooks` with the str `"p"` as platform) and `EndQa`. A failed
lookup is a hard abort, which ends QA mode too. Each action performs
every lookup the code makes in that call, with `dblu` as `DbLookup!Lookup` on the
real database. `_add_deps`, `_add_swc` and `_add_includes` are the operators
`AddDeps` and `AddIncludes`. A failed lookup is `Abort`. The menus are
`ChoiceTree`'s `Nodes` and `ChildrenOf`, `Disabled` (`crawl`) and `Picks`
(`prompt` and `tree_prompt`, which auto-select an only child). The user's answer
is `\E` over the enabled picks, and the host is a variable set once in `Init`.

`Fetch` follows one key of `config.deps` through `fetch` as four steps:
* `GetMd5`: the wget of the checksum file;
* `Check`: the `already_fetched` test;
* `Get` and `Verify`: the wget of the file and its md5 check;
* `Extract`: `extract_or_copy`.

Each wget has an outcome from `Outcomes`: ok, refused, reset, cut short or
interrupted. `Aborts` is `script.abort`: in QA mode a soft abort is recorded
and the run goes on, and any other abort ends the run. An exception nothing
catches (EOFError from a cut-short archive, the TypeError of a missing
Content-Length) is `Crash`. `Rerun` is the user running the script again after
an exit or a crash: `script.init` resets `script.aborts`, and `check_empty_ws`
deletes every entry `get_ws_files` lists (`GetWsFiles`). `WsEntries` is the
first level of `os.walk`: the script, what a key extracted, and each folder
(`.downloads`, the name `sh.mkdir(..., hidden=True)` gives it) with `/`
appended; the cache goes only if `.downloads/` is listed. `RerunDeclined` is the answer No, `sys.exit(0)`. `Heal` is the network becoming reliable.

## Runs

| Run | Expect | Shows |
|---|---|---|
| `resolver_core` (`MCResolver.cfg`) | pass | `TypeOK` (among the frame's types: `lookupLvl` is always within `d`, which holds because every dict entered is assimilated); `BracesFree` (a str lookup returns has no braces); `InheritanceOverride` (a plain value reached by a directly declared path is the one declared by the innermost level of the path). |
| `sgm775_summary` (`MCArmPlatDb.cfg`) | pass | `FailuresReported`: on the real data, the summary of every SGM-775 configuration ends in `script.abort`, never in an uncaught exception. `fs.android.bfs.commit` is a cyclic reference that would end in `RecursionError`, but `sorted()` puts `fs.*` (priority 61) after `k.*` (51), and the first `k.ack` commit aborts first (finding 2). Sorting the other way reaches the `RecursionError`. About 33,000 states. |
| `config_dialogue` (`MCConfig.cfg`) | pass | Over the whole real dialogue on both hosts: the chosen platform is never one `crawl` disabled (`ChosenPlatformEnabled`); the filesystem suits both the platform and the kernel (`FilesystemSupported`); a bfs workspace ends with a manifest and a prebuilt one without (`ManifestMatchesWorkspace`); `_add_includes` terminates (`IncludesTerminate`); every download `config.sync` starts for a confirmed configuration resolves to the url, name and dir `sh.fetch` needs, with the platform's `@` references (`DependenciesDownloadable`). In QA mode every lookup of `run_qa` succeeds and the run reaches `end_qa` (`QaCompletes`), and every manifest a confirmed configuration syncs is one `run_qa` syncs (`QaSyncsEveryManifest`). About 29,800 states. |
| `every_configuration_completes` | violation | A configuration the menus offer aborts through a lookup, not a host check: every SGM-775 configuration whose components include `k.ack` aborts at the summary table, because nested lookups drop `noneAllowed` and the platform sets `ack.commit` to `"null"`. |
| `gcc_range` | violation | A gcc 8 that prints only `8` passes `check_sys_gcc`, which should reject gcc 8.0 and later. |
| `gcc_rejection_crash` | violation | A gcc 9 that prints only `9` is rejected, but formatting the message raises `IndexError`. |
| `fetch_reruns` (`MCFetch.cfg`) | pass | `VerifiedIntact`: a run that ends without an abort extracted only intact files for every checksummed key, even over cached, cut-short files of earlier runs. `EventuallyFetched`: once the network holds, some rerun completes. |
| `qa_failed_download` | violation | In QA mode one refused download, whose file is not already cached, ends the whole QA run with a hard abort. |
| `content_length` | violation | A server without a Content-Length header makes wget die with `TypeError`. |
| `sync_retry` (`MCSync_retry.cfg`) | violation | After the user accepts a second repo sync, `config.sync` prints "Workspace initialised." with none of the fetched dependencies left. |
| `sync_unbound` (`MCSync_unbound.cfg`) | violation | When the first repo sync leaves `build-scripts/platforms` missing, `if dirs and files` raises `UnboundLocalError` instead of offering to sync again (`SyncFailuresReported`). |
| `qa_misses_deps` (`MCConfig_qadeps.cfg`) | violation | A Juno build-from-source configuration fetches the toolchain `dl.tool.gcc.a64`, which no QA run fetches (`QaFetchesEveryDependency`). |

Bounds:
* `MaxDepth` stands for Python's recursion limit: 5 in `MCResolver`, 6 in `MCArmPlatDb` and 8 in `MCConfig`. The
  deepest legitimate chain is three nested calls, so only an unbounded
  recursion reaches the bound.
* `MaxIncludes` is 6. The deepest include chain of `ARMPLATDB` is two levels.
* The `MCResolver` key sets cover every branch of lookup: a missing key, a
  scalar mid-path, `#{}` to a list and to a dict mid-path, `@` with and
  without a plat, both literals, a self-reference, a cycle, unbalanced and
  misordered braces, and a reference to `null` and to `true`.
* `MCConfig` is not bounded at all. It is the real database with every answer
  the menus accept.
* `MCFetch` has three keys, one of each kind `sh.fetch` distinguishes
  (archive or copy, checksum or none). It covers both modes and every wget
  outcome, and reruns are unbounded. The state space is finite because a file
  has three states.

Fairness: only `Fetch` states a liveness property. The script is one thread,
so while a run is going it keeps taking its next step (`WF_vars(Step)`). After
a failed run the user runs the script again and lets it clear the workspace
(`WF_vars(Rerun)`; `RerunDeclined` has no fairness), and a flaky
network eventually holds (`WF_vars(Heal)`). Both are assumptions about the
environment, and nothing would complete without them. The other modules
state safety only. Each lookup call ends because its stack is bounded by
`MaxDepth`. The dialogue is acyclic: each step moves `pc` forward, and the
prompt loop that re-asks after a bad answer is folded into the choice of a
valid answer.

## Findings

1. (Not a defect.) A path below a str continues at the last dict, so
   `arm.rel.vsn` gives `arm.vsn`; spec 4.1 gives the same example.
2. SGM-775 with an ACK kernel aborts at the configuration summary: nested
   lookups drop `noneAllowed`, and the platform sets `ack.commit` to `"null"`.
   This is every SGM-775 configuration whose components include `k.ack`:
   both build-from-source kernels and both prebuilts. Only `<< all >>`, which
   empties `swcs`, gets past the summary.
3. `fs.android.bfs.commit` for SGM-775 is a cyclic reference: the nested
   lookup of `@.android.commit` inherits the caller's own `commit` template and
   recurses until `RecursionError`, which nothing catches. The script never
   makes that lookup, because the `k.ack` commit of finding 2 comes first in
   priority order (`sgm775_summary`); fixing finding 2 alone would expose it.
4. The root-database retry of lines 1209-1217 is dead code. Nested results
   are always brace-free strings (`BracesFree`).
5. `check_sys_gcc` accepts a major-only gcc 8, and crashes with `IndexError`
   while rejecting a major-only gcc 9.
6. QA mode does not survive a stale URL. The soft abort of the failed wget is
   followed by `md5sum` or `extract_or_copy` of the missing file, which is a
   hard abort.
7. `except ValueError():` in `wget` turns a missing Content-Length header into
   a `TypeError` crash.
8. The retry loop of `config.sync` wipes the workspace, including the
   dependencies fetched before it, and fetches only the repo again. The same
   loop reads `dirs` left over from an earlier attempt when `build-scripts/platforms`
   is missing, and raises `UnboundLocalError` when it is missing on the first
   attempt.
9. `run_qa` fetches only the deps of filesystems and prebuilts. The
   platforms' own deps, the toolchains `dl.tool.gcc.a64`, `a32` and `scp.5`,
   are never fetched in QA, so a stale toolchain URL passes QA, although
   `start_qa`'s comment says QA attempts to fetch every download
   (`qa_misses_deps`).

## Not modelled

* `sh.call` and the directory helpers. They run programs and the file
  system, and only their failure would matter. `sh.reposync` appears in
  `Sync` by its outcomes and in `Config` by its lookups.
* `check_apt_deps` and `check_git_config` as probes, and `sh.init`'s choice
  between the working and the script folder. In
  `Config` the host checks are one step that may abort.
* Logging, argparse, `_add_cfg` (display rows only) and `pihooks`.
* The `host` section of `ARMPLATDB`. `MCFetch` abstracts downloads to three
  of the kinds that `dl` has; `Config` checks the real `dl` entries' lookups.
* The build scripts `sync` writes, which run outside the Python program.
