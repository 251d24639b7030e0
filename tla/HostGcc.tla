------------------------------ MODULE HostGcc ------------------------------
(***************************************************************************)
(* check_sys_gcc (armplat_1901.py lines 1832-1842): run gcc -dumpversion, *)
(* split its output at "." into ints, and abort unless the tuple lies in   *)
(* [(5,4,0), (8,0,0)).  A version is <<major, minor, patch>>.  A gcc built *)
(* with --with-gcc-major-version-only (the default of Debian and Ubuntu    *)
(* since gcc 7) prints only its major version.                             *)
(***************************************************************************)
EXTENDS Naturals, Sequences

CONSTANTS
  Versions,   \* the gcc versions a host may have
  MajorOnly   \* the majors whose -dumpversion prints the major alone

VARIABLES
  gcc,      \* the installed gcc
  ver,      \* the tuple check_sys_gcc parsed, <<>> before the check
  verdict   \* "unchecked", "ok", "abort" or "IndexError"
vars == <<gcc, ver, verdict>>

\* tuple([int(i) for i in out.split(".")]) of what gcc -dumpversion prints.
DumpVersion(v) == IF v[1] \in MajorOnly THEN <<v[1]>> ELSE v

\* Python's < on tuples of ints: lexicographic, a proper prefix first.
RECURSIVE TupleLess(_, _)
TupleLess(a, b) ==
  IF a = <<>> THEN b # <<>>
  ELSE IF b = <<>> THEN FALSE
  ELSE IF Head(a) # Head(b) THEN Head(a) < Head(b)
  ELSE TupleLess(Tail(a), Tail(b))

\* ver < (5,4,0) or ver >= (8,0,0).
Unfit(t) == TupleLess(t, <<5, 4, 0>>) \/ ~TupleLess(t, <<8, 0, 0>>)

Init == gcc \in Versions /\ ver = <<>> /\ verdict = "unchecked"

CheckSysGcc ==
  /\ verdict = "unchecked"
  /\ ver' = DumpVersion(gcc)
  /\ verdict' = IF ~Unfit(ver') THEN "ok"
                \* the abort message formats ver[0], ver[1] and ver[2]
                ELSE IF Len(ver') < 3 THEN "IndexError" ELSE "abort"
  /\ UNCHANGED gcc

Next == CheckSysGcc \/ (verdict # "unchecked" /\ UNCHANGED vars)

Spec == Init /\ [][Next]_vars

(* The abort message of check_sys_gcc: "please use a version later than   *)
(* 5.4 and earlier than 8.0".  A host passes the check only when its gcc  *)
(* is at least 5.4.0 and below 8.0.0.                                     *)
GccRangeEnforced ==
  verdict = "ok" => ~TupleLess(gcc, <<5, 4, 0>>) /\ TupleLess(gcc, <<8, 0, 0>>)

(* Every rejection of check_sys_gcc goes through script.abort with its     *)
(* message; none ends the script with an uncaught Python exception.        *)
RejectionReported == verdict # "IndexError"
=============================================================================
