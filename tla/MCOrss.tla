------------------------------- MODULE MCOrss -------------------------------
(***************************************************************************)
(* The system on small sets of flows and cores.                            *)
(***************************************************************************)
EXTENDS Orss

CONSTANT tcp

MCNoFlow == << >>
MCTcp    == <<tcp>>
=============================================================================
