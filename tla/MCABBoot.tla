------------------------------ MODULE MCABBoot ------------------------------
(***************************************************************************)
(* Small instances of ABBoot for TLC: the constants are given by the cfg   *)
(* files.                                                                  *)
(***************************************************************************)
EXTENDS ABBoot
=============================================================================
