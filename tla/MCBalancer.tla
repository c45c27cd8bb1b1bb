----------------------------- MODULE MCBalancer -----------------------------
(***************************************************************************)
(* Values for the model checking of Balancer.                              *)
(***************************************************************************)
EXTENDS Balancer

\* Loads around 10: three cores sit exactly at 0.9 and 1.1 times the average, or
\* far from it.  Three flows add up to as much as 33, past a WORD of 32.
MCLoads == {0, 9, 10, 11}

\* previous_key is found nowhere, in the first slot, or in the last.
MCStartAt == {-1, 0, HASHMAP_SIZE - 1}
=============================================================================
