------------------------------- MODULE MCSync -------------------------------
(***************************************************************************)
(* A build-from-source configuration with two dependencies, such as a     *)
(* toolchain (dl.tool.gcc) and a ramdisk image.                            *)
(***************************************************************************)
EXTENDS Sync
MCDeps == <<"gcc", "ramdisk">>
=============================================================================
