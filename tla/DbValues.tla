------------------------------ MODULE DbValues ------------------------------
(***************************************************************************)
(* The values held by the platform database ARMPLATDB and the Python str   *)
(* operations that Database.lookup applies to them.                        *)
(*                                                                         *)
(* A Python str is a sequence of characters.  The characters the lookup    *)
(* grammar looks at are LB, RB, AT, DOT and HASH; every other element of a *)
(* model string is an opaque atom that stands for a run of ordinary text.  *)
(* A key of a dict is one atom, so a segment of a key path names a dict    *)
(* key exactly when it is that one atom.  Atoms are never split or formed  *)
(* by concatenation: str.replace only ever moves whole atoms.              *)
(***************************************************************************)
EXTENDS Naturals, Sequences, FiniteSets, SequencesExt, TLC

LB   == "{"
RB   == "}"
AT   == "@"
DOT  == "."
HASH == "#"

\* The Python values a lookup can meet or produce.  Dict(f) is a dict whose
\* keys are DOMAIN f; List(l) stands for a list (or a set) of strings.
Str(s)  == [t |-> "str", s |-> s]
Dict(f) == [t |-> "dict", f |-> f]
List(l) == [t |-> "list", l |-> l]
PyNone  == [t |-> "none"]
PyTrue  == [t |-> "bool"]
PyInt(n) == [t |-> "int", n |-> n]

IsStr(v)  == v.t = "str"
IsDict(v) == v.t = "dict"

\* The two reserved literals of the database.
NullLit == <<"null">>
TrueLit == <<"true">>

\* The plat argument of lookup: None, or a key path string.
NoPlat  == [some |-> FALSE, s |-> <<>>]
Plat(s) == [some |-> TRUE, s |-> s]

\* A key path written as its segments, joined by ".".
RECURSIVE Path(_)
Path(segs) == IF Len(segs) <= 1 THEN segs
              ELSE <<Head(segs), DOT>> \o Path(Tail(segs))

\* str.count(c) for a one-character c.
CountOf(s, c) == Cardinality({i \in DOMAIN s : s[i] = c})

\* str.find(c) + 1: the 1-based index of the first c, 0 when there is none
\* (find returns -1).
Find(s, c) == SelectInSeq(s, LAMBDA x : x = c)

\* s[a:b] for 0-based a and b, with Python's meaning of a negative bound.
Slice(s, a, b) ==
  LET Norm(x) == IF x < 0 THEN IF Len(s) + x < 0 THEN 0 ELSE Len(s) + x
                 ELSE IF x > Len(s) THEN Len(s) ELSE x
  IN  SubSeq(s, Norm(a) + 1, Norm(b))

\* s.replace(old, new): every non-overlapping occurrence, leftmost first;
\* an empty old inserts new before every character and at the end.
RECURSIVE StrReplace(_, _, _)
StrReplace(s, old, new) ==
  IF old = <<>> THEN FlattenSeq([i \in DOMAIN s |-> new \o <<s[i]>>]) \o new
  ELSE IF Len(s) < Len(old) THEN s
  ELSE IF SubSeq(s, 1, Len(old)) = old
       THEN new \o StrReplace(SubSeq(s, Len(old) + 1, Len(s)), old, new)
       ELSE <<Head(s)>> \o StrReplace(Tail(s), old, new)

\* s.split("."): never empty, "" splits into one empty part.
RECURSIVE Split(_)
Split(s) == LET i == Find(s, DOT)
            IN  IF i = 0 THEN <<s>>
                ELSE <<SubSeq(s, 1, i - 1)>> \o Split(SubSeq(s, i + 1, Len(s)))

\* subPlat(k) of lookup: "@" in k is replaced by plat.  With plat None the
\* replace raises TypeError, which lookup reports through script.abort.
NeedsPlat(s, plat) == Find(s, AT) # 0 /\ ~plat.some
SubPlat(s, plat)   == IF Find(s, AT) = 0 THEN s ELSE StrReplace(s, <<AT>>, plat.s)

\* "k in f" and f[k] for a segment k (a str) and a dict f.
HasKey(f, k) == Len(k) = 1 /\ k[1] \in DOMAIN f
GetKey(f, k) == f[k[1]]

\* Mutant of Assimilate: an update that keeps the keys d already has.
AssimilateKeepInherited(d, src) == d @@ src

\* assimilate(src): d.update({k: v}) for every item of src, so that the keys
\* of src overwrite the ones d already has.
Assimilate(d, src) == src @@ d

\* A whole-value "#{X}" reference as the walk of lookup recognises it: it
\* starts with "#" and has exactly one "{" and one "}".
IsStructural(v) ==
  /\ IsStr(v) /\ v.s # <<>> /\ v.s[1] = HASH
  /\ CountOf(v.s, LB) = 1 /\ CountOf(v.s, RB) = 1

\* item[l+1:r] with (l, r) = (item.find("{"), item.find("}")).
Inner(s) == Slice(s, Find(s, LB), Find(s, RB) - 1)
\* item[l:r+1], the token with its braces.
Token(s) == Slice(s, Find(s, LB) - 1, Find(s, RB))

\* The outcome of a call of lookup: the value it returns, or the way it ends
\* the script.  The first five are the messages lookup passes to
\* script.abort; the last two are Python exceptions nothing catches.
Ok(v)   == [ok |-> TRUE, v |-> v]
Err(e)  == [ok |-> FALSE, err |-> e]
Pending == [ok |-> FALSE, err |-> "pending"]
ErrPlat      == "invalid plat"
ErrSelf      == "recursive lookup 111"
ErrBraces    == "imbalanced braces"
ErrRecursive == "recursive lookup"
ErrNone      == "returns None"
ErrType      == "TypeError"
ErrDepth     == "RecursionError"
ErrIncludes  == "RecursionError in _add_includes"
ErrHost      == "host check"

\* A lookup request: lookup(key, plat, noneAllowed).
NoReq == [key |-> <<>>, plat |-> NoPlat, na |-> FALSE]

\* k + "." + a
Dot(k, a) == k \o <<DOT, a>>

\* Python truth and len() of a value, and what "for x in v" iterates over:
\* the keys of a list, of a dict, or the characters of a str.
Truthy(v) ==
  CASE v.t = "list" -> v.l # <<>>   [] v.t = "dict" -> DOMAIN v.f # {}
    [] v.t = "str"  -> v.s # <<>>   [] v.t = "int"  -> v.n # 0
    [] v.t = "bool" -> TRUE         [] v.t = "none" -> FALSE
PyLen(v) ==
  CASE v.t = "list" -> Len(v.l) [] v.t = "dict" -> Cardinality(DOMAIN v.f)
    [] v.t = "str" -> Len(v.s) [] OTHER -> 0
Items(v) ==
  CASE v.t = "list" -> {v.l[i] : i \in DOMAIN v.l}
    [] v.t = "dict" -> {<<x>> : x \in DOMAIN v.f}
    [] v.t = "str"  -> {<<v.s[i]>> : i \in DOMAIN v.s}
    [] OTHER -> {}
=============================================================================
