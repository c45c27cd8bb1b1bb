------------------------------ MODULE FlowMap ------------------------------
(***************************************************************************)
(* What src/hashmap.h promises its clients: a map from five-tuples to      *)
(* the ring buffers allocated for them, of bounded capacity.  A key that   *)
(* is not in the map is mapped to NULL, as hashmap_get reports it.         *)
(***************************************************************************)
EXTENDS Integers, FiniteSets

CONSTANTS Key, Buffer, NULL,
          Capacity     \* the number of keys the map holds at most

VARIABLES contents,    \* the map
          status       \* "running", "exited" or "destroyed"

Keys == {k \in Key : contents[k] # NULL}

Init ==
  /\ contents = [k \in Key |-> NULL]
  /\ status = "running"

\* Associate k with b: a key of the map changes buffer, a new key needs room.
Put(k, b) ==
  /\ k \in Keys \/ Cardinality(Keys) < Capacity
  /\ contents' = [contents EXCEPT ![k] = b]
  /\ UNCHANGED status

\* A new key with no room left ends the program.
Overflow(k) ==
  /\ k \notin Keys
  /\ Cardinality(Keys) >= Capacity
  /\ status' = "exited"
  /\ UNCHANGED contents

\* Forget the keys of S, and them only.
Drop(S) ==
  /\ S \subseteq Keys
  /\ contents' = [k \in Key |-> IF k \in S THEN NULL ELSE contents[k]]
  /\ UNCHANGED status

Destroy ==
  /\ contents' = [k \in Key |-> NULL]
  /\ status' = "destroyed"

Next ==
  /\ status = "running"
  /\ \/ \E k \in Key, b \in Buffer : Put(k, b)
     \/ \E k \in Key : Overflow(k)
     \/ \E S \in SUBSET Key : Drop(S)
     \/ Destroy

Spec == Init /\ [][Next]_<<contents, status>>
=============================================================================
