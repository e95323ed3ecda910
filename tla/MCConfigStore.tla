--------------------------- MODULE MCConfigStore ---------------------------
(***************************************************************************)
(* Small instances of ConfigStore for TLC.                                 *)
(***************************************************************************)
EXTENDS ConfigStore

\* rmtree of a root without managed users is the one removal that recovery cannot
\* repeat; it has a run of its own.
TornRepeatable == Removals \ {"discRoot"}
TornDiscard == {"discRoot"}
NoTorn == {}
=============================================================================
