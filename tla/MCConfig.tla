------------------------------ MODULE MCConfig ------------------------------
(***************************************************************************)
(* The configuration dialogue over the real ARMPLATDB, on either host.     *)
(***************************************************************************)
EXTENDS ArmPlatDb, Config

MCMaxDepth    == 8
MCMaxIncludes == 6
=============================================================================
