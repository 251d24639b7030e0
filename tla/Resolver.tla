------------------------------ MODULE Resolver ------------------------------
(***************************************************************************)
(* Database.lookup (armplat_1901.py lines 1157-1238), one statement group  *)
(* per step.  The Python call stack of nested lookups is the variable      *)
(* stack: each frame holds the locals of one lookup call, and a nested     *)
(* call pushes a frame whose result is written into the caller's ret when  *)
(* it returns.  script.abort ends the script, so every abort (and every    *)
(* exception nothing catches) empties the stack and sets answer.           *)
(***************************************************************************)
EXTENDS DbValues

CONSTANTS Root, Requests, MaxDepth

VARIABLES
  stack,   \* the frames of the lookup calls in progress, innermost last
  req,     \* the top-level call being served, or the last one served
  answer   \* the outcome of the last top-level call
vars == <<stack, req, answer>>

\* Where a frame is in the body of lookup.
PCs == {"enter", "walk", "walkRet", "post", "loop", "subRet", "final"}

\* A fresh frame for Database(db).lookup(key, plat, na): d starts as a
\* copy of db and lookupLvl is d itself.
NewFrame(db, key, plat, na) ==
  [key |-> key, plat |-> plat, na |-> na, pc |-> "enter", d |-> db,
   lvl |-> db, segs |-> <<>>, item |-> PyNone, retry |-> FALSE, ret |-> PyNone]

Top == stack[Len(stack)]
SetTop(f) == stack' = [stack EXCEPT ![Len(stack)] = f] /\ UNCHANGED <<req, answer>>

\* script.abort(...) or an escaping exception: the script stops.
Abort(e) == stack' = <<>> /\ answer' = Err(e) /\ UNCHANGED req

\* The caller, now f, makes the nested call child.
Push(f, child) ==
  IF Len(stack) >= MaxDepth THEN Abort(ErrDepth)
  ELSE /\ stack' = Append([stack EXCEPT ![Len(stack)] = f], child)
       /\ UNCHANGED <<req, answer>>

\* "return item": to the caller's ret, or to the top-level caller.
Return(v) ==
  /\ IF Len(stack) = 1
     THEN stack' = <<>> /\ answer' = Ok(v)
     ELSE /\ stack' = [SubSeq(stack, 1, Len(stack) - 1)
                         EXCEPT ![Len(stack) - 1].ret = v]
          /\ UNCHANGED answer
  /\ UNCHANGED req

\* A top-level dblu(key, plat, noneAllowed) call.
Call(r) ==
  /\ stack = <<>>
  /\ stack' = <<NewFrame(Root, r.key, r.plat, r.na)>>
  /\ req' = r
  /\ UNCHANGED answer

\* subPlat(key).split(".") heads the for loop.
Enter ==
  LET f == Top IN
  /\ f.pc = "enter"
  /\ IF NeedsPlat(f.key, f.plat) THEN Abort(ErrPlat)
     ELSE SetTop([f EXCEPT !.pc = "walk", !.segs = Split(SubPlat(f.key, f.plat))])

\* Mutant of Descend: the dict is not assimilated into d.
DescendNoAssimilate(f, v) ==
  LET g == IF IsDict(v) THEN [f EXCEPT !.lvl = v.f] ELSE f
  IN  [g EXCEPT !.item = v, !.pc = IF f.segs = <<>> THEN "post" ELSE "walk"]

\* The segment's value v becomes item; a dict becomes lookupLvl and is
\* assimilated into d; then the next segment, or the end of the loop.
Descend(f, v) ==
  LET g == IF IsDict(v) THEN [f EXCEPT !.lvl = v.f, !.d = Assimilate(f.d, v.f)]
           ELSE f
  IN  [g EXCEPT !.item = v, !.pc = IF f.segs = <<>> THEN "post" ELSE "walk"]

\* One iteration of the for loop: look the segment up in lookupLvl, then in
\* d; stop at a missing key; resolve a "#{X}" value by a nested lookup on d.
WalkStep ==
  LET f  == Top
      k  == Head(f.segs)
      it == IF HasKey(f.lvl, k) THEN GetKey(f.lvl, k)
            ELSE IF HasKey(f.d, k) THEN GetKey(f.d, k) ELSE PyNone
      g  == [f EXCEPT !.segs = Tail(f.segs)]
  IN  /\ f.pc = "walk"
      /\ IF it = PyNone THEN SetTop([g EXCEPT !.item = PyNone, !.pc = "post"])
         ELSE IF IsStructural(it)
              THEN Push([g EXCEPT !.pc = "walkRet"],
                        NewFrame(f.d, Inner(it.s), f.plat, FALSE))
              ELSE SetTop(Descend(g, it))

\* The structural reference returned: its value is the segment's value.
WalkResume ==
  LET f == Top IN
  /\ f.pc = "walkRet"
  /\ SetTop(Descend(f, f.ret))

\* Mutant of Post: the brace count is not checked.
PostNoBraceCount ==
  LET f == Top
      s == SubPlat(f.item.s, f.plat)
  IN  /\ f.pc = "post"
      /\ IF ~IsStr(f.item) THEN SetTop([f EXCEPT !.pc = "final"])
         ELSE IF <<LB>> \o f.key \o <<RB>> = f.item.s THEN Abort(ErrSelf)
         ELSE IF f.item.s = NullLit THEN SetTop([f EXCEPT !.item = PyNone, !.pc = "final"])
         ELSE IF f.item.s = TrueLit THEN SetTop([f EXCEPT !.item = PyTrue, !.pc = "final"])
         ELSE IF NeedsPlat(f.item.s, f.plat) THEN Abort(ErrPlat)
         ELSE SetTop([f EXCEPT !.item = Str(s), !.pc = "loop"])

\* After the loop, a str item: the self-reference check, the two reserved
\* literals, "@" substitution over the whole string and the brace count.
Post ==
  LET f == Top
      s == SubPlat(f.item.s, f.plat)
  IN  /\ f.pc = "post"
      /\ IF ~IsStr(f.item) THEN SetTop([f EXCEPT !.pc = "final"])
         ELSE IF <<LB>> \o f.key \o <<RB>> = f.item.s THEN Abort(ErrSelf)
         ELSE IF f.item.s = NullLit THEN SetTop([f EXCEPT !.item = PyNone, !.pc = "final"])
         ELSE IF f.item.s = TrueLit THEN SetTop([f EXCEPT !.item = PyTrue, !.pc = "final"])
         ELSE IF NeedsPlat(f.item.s, f.plat) THEN Abort(ErrPlat)
         ELSE IF CountOf(s, LB) # CountOf(s, RB) THEN Abort(ErrBraces)
         ELSE SetTop([f EXCEPT !.item = Str(s), !.pc = "loop"])

\* The test of the while loop, and the nested lookup of the first token's
\* key on d.
LoopStep ==
  LET f == Top IN
  /\ f.pc = "loop"
  /\ IF Find(f.item.s, LB) = 0 THEN SetTop([f EXCEPT !.pc = "final"])
     ELSE Push([f EXCEPT !.pc = "subRet"],
               NewFrame(f.d, Inner(f.item.s), f.plat, FALSE))

\* The token's value came back: replace every copy of the token; when that
\* leaves the string unchanged, look the key up once more with dblu on the
\* root database, and abort if the second attempt changes nothing either.
SubResume ==
  LET f   == Top
      s   == f.item.s
      new == StrReplace(s, Token(s), f.ret.s)
  IN  /\ f.pc = "subRet"
      /\ IF ~IsStr(f.ret) THEN Abort(ErrType)
         ELSE IF new # s
              THEN SetTop([f EXCEPT !.item = Str(new), !.retry = FALSE, !.pc = "loop"])
         ELSE IF ~f.retry
              THEN Push([f EXCEPT !.retry = TRUE], NewFrame(Root, Inner(s), f.plat, FALSE))
         ELSE Abort(ErrRecursive)

\* "if item is None and not noneAllowed: abort", else return item.
Finish ==
  LET f == Top IN
  /\ f.pc = "final"
  /\ IF f.item = PyNone /\ ~f.na THEN Abort(ErrNone) ELSE Return(f.item)

Init == stack = <<>> /\ req = NoReq /\ answer = Pending

Step == stack # <<>> /\ (Enter \/ WalkStep \/ WalkResume \/ Post \/ LoopStep
                         \/ SubResume \/ Finish)

Next == (\E r \in Requests : Call(r)) \/ Step

Spec == Init /\ [][Next]_vars
-----------------------------------------------------------------------------
(***************************************************************************)
(* Properties.                                                             *)
(***************************************************************************)

Kinds == {"str", "dict", "list", "none", "bool", "int"}
Errors == {ErrPlat, ErrSelf, ErrBraces, ErrRecursive, ErrNone, ErrType, ErrDepth}

FrameOK(f) ==
  /\ f.pc \in PCs /\ f.na \in BOOLEAN /\ f.retry \in BOOLEAN
  /\ f.key \in Seq(STRING) /\ f.segs \in Seq(Seq(STRING))
  /\ f.plat.some \in BOOLEAN /\ f.plat.s \in Seq(STRING)
  /\ DOMAIN f.d \subseteq STRING /\ DOMAIN f.lvl \subseteq DOMAIN f.d
  /\ f.item.t \in Kinds /\ f.ret.t \in Kinds
  /\ f.pc \in {"loop", "subRet"} => IsStr(f.item)

TypeOK ==
  /\ DOMAIN stack = 1..Len(stack)
  /\ \A i \in DOMAIN stack : FrameOK(stack[i])
  /\ req \in Requests \cup {NoReq}
  /\ answer = Pending \/ (answer.ok /\ answer.v.t \in Kinds)
     \/ (~answer.ok /\ answer.err \in Errors)

BraceFree(s) == Find(s, LB) = 0 /\ Find(s, RB) = 0

(* Every str that a lookup call returns, to a nested caller or at the top  *)
(* level, is fully substituted: it holds neither "{" nor "}".  The while   *)
(* loop of lookup only removes "{"; a "}" is gone too only because the     *)
(* brace count is checked before the loop and a misplaced "}" makes the    *)
(* token's nested lookup of "" fail.                                       *)
BracesFree ==
  \A i \in DOMAIN stack :
    stack[i].pc = "final" /\ IsStr(stack[i].item) => BraceFree(stack[i].item.s)

\* The dicts on the path of a key, from db down: every prefix of the path
\* names a dict declared in the dict before it; <<>> when one does not.
RECURSIVE Chain(_, _)
Chain(f, segs) ==
  IF segs = <<>> THEN <<f>>
  ELSE IF HasKey(f, Head(segs)) /\ IsDict(GetKey(f, Head(segs)))
       THEN LET rest == Chain(GetKey(f, Head(segs)).f, Tail(segs))
            IN  IF rest = <<>> THEN <<>> ELSE <<f>> \o rest
       ELSE <<>>

\* The value of the last segment of key declared by the nearest dict of the
\* chain that declares it, as the inheritance rule of ARMPLATDB states it.
Inherited(db, key) ==
  LET parts   == Split(key)
      chain   == Chain(db, Front(parts))
      holders == {i \in DOMAIN chain : HasKey(chain[i], Last(parts))}
  IN  IF chain = <<>> \/ holders = {} THEN PyNone
      ELSE GetKey(chain[Max(holders)], Last(parts))

\* Plain text: a str lookup returns as it is.
IsPlain(v) == IsStr(v) /\ BraceFree(v.s) /\ Find(v.s, AT) = 0
              /\ v.s \notin {NullLit, TrueLit}

(* Inheritance (the comment above ARMPLATDB): a top-level lookup of a key  *)
(* whose path runs through declared dicts returns, for a plain text value, *)
(* the declaration of the nearest node on the path; a child's own key      *)
(* shadows the one it inherits from any ancestor.                          *)
InheritanceOverride ==
  stack = <<>> /\ answer.ok /\ Find(req.key, AT) = 0
    /\ IsPlain(Inherited(Root, req.key))
    => answer.v = Inherited(Root, req.key)

(* Spec 7: every failure of a lookup is reported through script.abort;     *)
(* none escapes as an uncaught exception: neither the TypeError of a "{X}" *)
(* whose value is not a str nor the RecursionError of a cyclic reference.  *)
FailuresReported ==
  ~answer.ok => answer.err \notin {ErrType, ErrDepth}
=============================================================================
