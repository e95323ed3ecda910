---------------------------- MODULE MCFirstBoot ----------------------------
(* FirstBoot with two configurations, one of them with required units. *)
EXTENDS FirstBoot

CONSTANTS plain, demanding, broken
=============================================================================
