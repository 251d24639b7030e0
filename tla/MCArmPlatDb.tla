---------------------------- MODULE MCArmPlatDb ----------------------------
(***************************************************************************)
(* Database.lookup on the real ARMPLATDB, driven by the end of             *)
(* config._choose for SGM-775 (lines 1979-1985): sorted() first computes   *)
(* the priority of every component of config.swcs, in the order of        *)
(* list(set(...)), then dblum looks up name, vsn and commit of each        *)
(* component in ascending priority.  The first abort ends the script.      *)
(***************************************************************************)
EXTENDS Resolver, ArmPlatDb

VARIABLES
  swcs,   \* config.swcs of the configuration being summarised
  left,   \* the components whose priority sorted() has still to compute
  got,    \* the answers of the priority lookups made so far
  queue,  \* the dblu calls of dblum still to make, in order
  phase   \* "prio" while sorted() computes its keys, then "rows"
all == <<stack, req, answer, swcs, left, got, queue, phase>>

Sgm775Plat == Plat(Path(<<"p", "fvp", "sg", "m", "775">>))

C(segs) == Path(segs)

\* config.swcs when _choose reaches its summary for SGM-775: the two bfs
\* kernels with each filesystem both kernel and platform support, and the
\* two prebuilts ("<< all >>" empties swcs and has no summary).
Sgm775Configurations ==
  LET inc == {C(<<"oc", "tfa">>), C(<<"oc", "optee", "os">>),
              C(<<"oc", "optee", "client">>), C(<<"oc", "scp">>)}
  IN  {inc \cup {C(<<"k", "ack", "sgm775", k>>), C(f)} :
         k \in {"busybox", "android"}, f \in {<<"fs", "busybox">>, <<"fs", "android", "bfs">>}}
      \cup
      {inc \cup {C(<<"oc", "uboot">>), C(<<"k", "ack">>), C(<<"fs", f>>)} :
         f \in {"busybox", "android"}}

PrioReq(c)   == [key |-> Dot(c, "priority"), plat |-> Sgm775Plat, na |-> FALSE]
RowReq(c, a) == [key |-> Dot(c, a), plat |-> Sgm775Plat, na |-> TRUE]

SummaryRequests ==
  {PrioReq(c) : c \in UNION Sgm775Configurations}
  \cup {RowReq(c, a) : c \in UNION Sgm775Configurations, a \in {"name", "vsn", "commit"}}

\* The components of cs of least priority.
Lowest(cs, prio) == {c \in cs : \A d \in cs : prio[c].n <= prio[d].n}
Highest(cs, prio) == {c \in cs : \A d \in cs : prio[c].n >= prio[d].n}

\* Mutant of SortedOrders: sorted(..., reverse=True).
RECURSIVE SortedOrdersDescending(_, _)
SortedOrdersDescending(cs, prio) ==
  IF cs = {} THEN {<<>>}
  ELSE UNION {{<<c>> \o s : s \in SortedOrdersDescending(cs \ {c}, prio)} : c \in Highest(cs, prio)}

\* The lists sorted(list(set(cs)), key=priority) can return: ascending
\* priority, components of equal priority in the order the set gave them.
RECURSIVE SortedOrders(_, _)
SortedOrders(cs, prio) ==
  IF cs = {} THEN {<<>>}
  ELSE UNION {{<<c>> \o s : s \in SortedOrders(cs \ {c}, prio)} : c \in Lowest(cs, prio)}

\* dblum(swc, ["name", "vsn", "commit"], plat, noneAllowed=True) for each
\* swc of the sorted list, in order.
Rows(s) == [i \in 1..3 * Len(s) |->
              RowReq(s[((i - 1) \div 3) + 1], <<"name", "vsn", "commit">>[((i - 1) % 3) + 1])]

\* The last answer, once its call has returned without an abort.
Returned == stack = <<>> /\ answer.ok

\* sorted() calls the key function on the next component of the set.
KeyCall ==
  /\ phase = "prio" /\ stack = <<>> /\ (answer = Pending \/ answer.ok)
  /\ \E c \in left :
       /\ Call(PrioReq(c))
       /\ left' = left \ {c}
       /\ got' = IF answer.ok THEN got @@ (req :> answer.v) ELSE got
  /\ UNCHANGED <<swcs, queue, phase>>

\* With every key computed, sorted() orders the components; priorities
\* that are not ints cannot be compared (ARMPLATDB has only int ones).
Sort ==
  LET g    == got @@ (req :> answer.v)
      prio == [c \in swcs |-> g[PrioReq(c)]]
  IN  /\ phase = "prio" /\ left = {} /\ Returned
      /\ IF \E c \in swcs : prio[c].t # "int"
         THEN Abort(ErrType) /\ UNCHANGED <<swcs, left, got, queue, phase>>
         ELSE /\ \E s \in SortedOrders(swcs, prio) : queue' = Rows(s)
              /\ phase' = "rows" /\ got' = g
              /\ UNCHANGED <<stack, req, answer, swcs, left>>

\* dblum makes its next lookup.
RowCall ==
  /\ phase = "rows" /\ Returned /\ queue # <<>>
  /\ Call(Head(queue)) /\ queue' = Tail(queue)
  /\ UNCHANGED <<swcs, left, got, phase>>

\* One statement group of the lookup in progress.
Lookup == Step /\ UNCHANGED <<swcs, left, got, queue, phase>>

\* The script ended: an abort, or every row looked up.
Ended ==
  /\ stack = <<>>
  /\ (~answer.ok /\ answer # Pending) \/ (phase = "rows" /\ queue = <<>> /\ answer.ok)
  /\ UNCHANGED all

SummaryInit ==
  /\ Init
  /\ swcs \in Sgm775Configurations /\ left = swcs
  /\ got = <<>> /\ queue = <<>> /\ phase = "prio"

SummaryNext == KeyCall \/ Sort \/ RowCall \/ Lookup \/ Ended

SummarySpec == SummaryInit /\ [][SummaryNext]_all

MCMaxDepth == 6
=============================================================================
