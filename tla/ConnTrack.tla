----------------------------- MODULE ConnTrack -----------------------------
(***************************************************************************)
(* What the XDP programs promise: one record for each connection and       *)
(* protocol, in which every kind of packet that has passed in either       *)
(* direction stays marked, unless there is no room for the record.         *)
(***************************************************************************)
EXTENDS FiniteSets, Integers

CONSTANTS Remote, Local, NONE, max_entries

VARIABLE seen    \* of each connection the marks, or NONE without a record

Connection == Remote \X Local \X {"TCP", "UDP"}

Init == seen = [k \in Connection |-> NONE]

Recorded == {k \in Connection : seen[k] # NONE}

\* A packet leaves marks; it may be one that leaves none.
Pass(k, marks) ==
  \/ k \in Recorded /\ seen' = [seen EXCEPT ![k] = @ \cup marks]
  \/ /\ k \notin Recorded /\ Cardinality(Recorded) < max_entries
     /\ seen' = [seen EXCEPT ![k] = marks]
  \/ k \notin Recorded /\ Cardinality(Recorded) >= max_entries /\ UNCHANGED seen
=============================================================================
