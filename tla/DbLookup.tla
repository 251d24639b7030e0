------------------------------ MODULE DbLookup ------------------------------
(***************************************************************************)
(* Database.lookup (armplat_1901.py lines 1157-1221) as a recursive        *)
(* definition: Lookup(db, key, plat, na, n) is the outcome of              *)
(* Database(db).lookup(key, plat, na) called at recursion depth n.         *)
(***************************************************************************)
EXTENDS DbValues

CONSTANTS
  Root,      \* the dict ARMPLATDB: a function from key atoms to values
  MaxDepth   \* how many nested lookups fit under the interpreter's limit

\* The operators take each intermediate result as an argument rather than
\* naming it with LET, so that every result is computed once per call.
RECURSIVE Lookup(_, _, _, _, _), Walk(_, _, _, _, _, _), Step(_, _, _, _, _, _),
          Enter(_, _, _, _, _, _), Subst(_, _, _, _), Replace(_, _, _, _, _, _),
          Replaced(_, _, _, _, _, _)

\* A nested lookup made at depth n; past MaxDepth Python raises
\* RecursionError.  Nested lookups never pass noneAllowed.
Nested(db, key, plat, n) ==
  IF n >= MaxDepth THEN Err(ErrDepth) ELSE Lookup(db, key, plat, FALSE, n + 1)

\* lookupLvl[k] if k in lookupLvl else d[k] if k in d else None
ItemAt(d, lvl, k) ==
  IF HasKey(lvl, k) THEN GetKey(lvl, k) ELSE IF HasKey(d, k) THEN GetKey(d, k) ELSE PyNone

\* The for loop over the segments of the key: d is the aggregate, lvl the
\* dict last entered, item the value of the last segment.
Walk(d, lvl, segs, item, plat, n) ==
  IF segs = <<>> THEN [ok |-> TRUE, item |-> item, d |-> d]
  ELSE Step(d, lvl, segs, ItemAt(d, lvl, Head(segs)), plat, n)

\* One iteration on the item it of the segment: break on None, and replace
\* a "#{X}" item by the value of X.
Step(d, lvl, segs, it, plat, n) ==
  IF it = PyNone THEN [ok |-> TRUE, item |-> PyNone, d |-> d]
  ELSE Enter(d, lvl, segs, IF IsStructural(it) THEN Nested(d, Inner(it.s), plat, n)
                           ELSE Ok(it), plat, n)

\* The end of an iteration: a dict item becomes the level and is
\* assimilated into d.
Enter(d, lvl, segs, r, plat, n) ==
  IF ~r.ok THEN r
  ELSE IF IsDict(r.v) THEN Walk(Assimilate(d, r.v.f), r.v.f, Tail(segs), r.v, plat, n)
  ELSE Walk(d, lvl, Tail(segs), r.v, plat, n)

\* The while loop substituting the first "{...}" token of s until none is
\* left.
Subst(d, s, plat, n) ==
  IF Find(s, LB) = 0 THEN Ok(Str(s))
  ELSE Replace(d, s, Nested(d, Inner(s), plat, n), FALSE, plat, n)

\* item.replace(replace, sub) for the outcome sub of a nested lookup; root
\* tells the second attempt, made with dblu on the root database.
Replace(d, s, sub, root, plat, n) ==
  IF ~sub.ok THEN sub
  ELSE IF ~IsStr(sub.v) THEN Err(ErrType)
  ELSE Replaced(d, s, StrReplace(s, Token(s), sub.v.s), root, plat, n)

\* The item after the replacement: unchanged, lookup retries on the root
\* and then aborts.
Replaced(d, s, new, root, plat, n) ==
  IF new # s THEN Subst(d, new, plat, n)
  ELSE IF root THEN Err(ErrRecursive)
  ELSE Replace(d, s, Nested(Root, Inner(s), plat, n), TRUE, plat, n)

\* The brace check on the item after subPlat, then the while loop.
Balanced(d, s, plat, n) ==
  IF CountOf(s, LB) # CountOf(s, RB) THEN Err(ErrBraces) ELSE Subst(d, s, plat, n)

\* The special behaviour of a str item found by the walk.
PostProcess(item, d, key, plat, n) ==
  IF ~IsStr(item) THEN Ok(item)
  ELSE IF <<LB>> \o key \o <<RB>> = item.s THEN Err(ErrSelf)
  ELSE IF item.s = NullLit THEN Ok(PyNone)
  ELSE IF item.s = TrueLit THEN Ok(PyTrue)
  ELSE IF NeedsPlat(item.s, plat) THEN Err(ErrPlat)
  ELSE Balanced(d, SubPlat(item.s, plat), plat, n)

\* The final check of lookup on what the walk and post-processing gave.
Returned(r, na) == IF r.ok /\ r.v = PyNone /\ ~na THEN Err(ErrNone) ELSE r

\* Database(db).lookup(key, plat, na), called at recursion depth n.
Lookup(db, key, plat, na, n) ==
  IF NeedsPlat(key, plat) THEN Err(ErrPlat)
  ELSE LET w == Walk(db, db, Split(SubPlat(key, plat)), PyNone, plat, n) IN
       IF ~w.ok THEN w ELSE Returned(PostProcess(w.item, w.d, key, plat, n), na)
=============================================================================
