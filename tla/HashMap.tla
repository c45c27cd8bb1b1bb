------------------------------ MODULE HashMap ------------------------------
(***************************************************************************)
(* The table of tracked flows (src/hashmap.c): an array of HASHMAP_SIZE    *)
(* slots searched linearly, each holding a five-tuple and a pointer to a   *)
(* ring buffer on the heap.  Any sequence of calls of the interface is     *)
(* explored.                                                               *)
(*                                                                         *)
(* The heap is the set live of allocated buffers: calloc may return any    *)
(* address not in use, one freed before included.  Of a ring buffer only   *)
(* is_active is kept here, which is what the table reads of it.            *)
(***************************************************************************)
EXTENDS Integers, FiniteSetsExt

CONSTANTS Key,            \* the five-tuples
          ZeroKey,        \* the five-tuple calloc leaves in a slot
          Buffer,         \* addresses calloc may return; bounds the heap
          NULL,
          HASHMAP_SIZE,   \* number of slots (env.h)
          RunOffEnd       \* what hashmap_get_next may return when it falls
                          \* off its end: {FALSE} unoptimised, BOOLEAN else

NoKey == "no key"   \* the cursor before the first call

ASSUME HashMapAssumption ==
         /\ ZeroKey \in Key /\ NoKey \notin Key
         /\ NULL \notin Buffer
         /\ HASHMAP_SIZE \in Nat \ {0}
         /\ RunOffEnd \subseteq BOOLEAN

VARIABLES map, size,      \* struct HashMap
          live,           \* the buffers allocated and not freed
          is_active,      \* struct RingBuffer
          status,         \* "running", "exited" or "destroyed"
          badFree,        \* ghost: an address not allocated has been freed
          iterating, cursor, seen   \* a client's loop over hashmap_get_next

table == <<map, size>>
heap  == <<live, is_active, badFree>>
loop  == <<iterating, cursor, seen>>
vars  == <<map, size, live, is_active, status, badFree, iterating, cursor, seen>>

Slot  == 0 .. HASHMAP_SIZE - 1
Valid == {s \in Slot : map[s].valid}
Keys  == {map[s].key : s \in Valid}
-----------------------------------------------------------------------------
\* Faulty variant, for the mutants: stops one slot early.
ExaminedShort == {s \in Slot : Cardinality({t \in Valid : t < s}) < size - 1}

\* The search stops once it has passed size valid slots, or at the key.
Examined == {s \in Slot : Cardinality({t \in Valid : t < s}) < size}

hashmap_contains(k) ==
  LET found == {s \in Examined : map[s].valid /\ map[s].key = k}
  IN  IF found = {} THEN -1 ELSE Min(found)

\* Faulty variant, for the mutants: fills the table from its end.
LastFreeSlot == IF Valid = Slot THEN -1 ELSE Max(Slot \ Valid)

hashmap_first_free_slot ==
  IF Valid = Slot THEN -1 ELSE Min(Slot \ Valid)

hashmap_insert_at_index(index, b, k) ==
  map' = [map EXCEPT ![index] = [valid |-> TRUE, key |-> k, value |-> b]]

\* Faulty variant, for the mutants: forgets to count the new key.
InsertUncounted(k, b) ==
  LET index == hashmap_contains(k)
      free  == hashmap_first_free_slot
  IN  /\ IF index >= 0 \/ free >= 0
         THEN hashmap_insert_at_index(IF index >= 0 THEN index ELSE free, b, k)
         ELSE UNCHANGED map
      /\ status' = IF index < 0 /\ free < 0 THEN "exited" ELSE status
      /\ UNCHANGED size

\* Faulty variant, for the mutants: does not look for the key first.
InsertTwice(k, b) ==
  /\ hashmap_first_free_slot >= 0
  /\ hashmap_insert_at_index(hashmap_first_free_slot, b, k)
  /\ size' = size + 1
  /\ UNCHANGED status

\* A known key gets the new value, an unknown one the first free slot.
hashmap_insert(k, b) ==
  LET index == hashmap_contains(k)
      free  == hashmap_first_free_slot
  IN  \/ /\ index >= 0
         /\ hashmap_insert_at_index(index, b, k)
         /\ UNCHANGED <<size, status>>
      \/ /\ index < 0 /\ free >= 0
         /\ hashmap_insert_at_index(free, b, k)
         /\ size' = size + 1
         /\ UNCHANGED status
      \/ /\ index < 0 /\ free < 0
         /\ status' = "exited"
         /\ UNCHANGED <<map, size>>

hashmap_get(k) ==
  IF hashmap_contains(k) >= 0 THEN map[hashmap_contains(k)].value ELSE NULL

\* ringbuffer_destroy on the value of each slot of S; free(NULL) does nothing.
FreeValues(S) ==
  LET value(s) == map[s].value
      freed    == {s \in S : value(s) # NULL}
  IN  /\ live' = live \ {value(s) : s \in freed}
      /\ badFree' = \/ badFree
                    \/ \E s \in freed : value(s) \notin live
                    \/ \E s, t \in freed : s # t /\ value(s) = value(t)
      /\ UNCHANGED is_active

\* Clear the slots of S and free their values; the pointers stay behind.
Invalidate(S) ==
  /\ map' = [s \in Slot |-> IF s \in S THEN [map[s] EXCEPT !.valid = FALSE] ELSE map[s]]
  /\ FreeValues(S)
  /\ size' = size - Cardinality(S)
-----------------------------------------------------------------------------
\* hashmap_init: calloc clears every slot.
Init ==
  /\ map = [s \in Slot |-> [valid |-> FALSE, key |-> ZeroKey, value |-> NULL]]
  /\ size = 0
  /\ live = {}
  /\ is_active = [b \in Buffer |-> FALSE]
  /\ status = "running"
  /\ badFree = FALSE
  /\ iterating = FALSE
  /\ cursor = NoKey
  /\ seen = {}

Idle == status = "running" /\ ~iterating

\* ringbuffer_init: the buffer comes cleared, so not active.
ringbuffer_init(b) ==
  /\ b \notin live
  /\ live' = live \cup {b}
  /\ is_active' = [is_active EXCEPT ![b] = FALSE]
  /\ UNCHANGED badFree

hashmap_new(k) ==
  /\ Idle
  /\ \E b \in Buffer : ringbuffer_init(b) /\ hashmap_insert(k, b)
  /\ UNCHANGED loop

\* A client gets a flow's buffer and adds a sample to it, which marks it.
Fill(k) ==
  /\ Idle
  /\ hashmap_get(k) # NULL
  /\ is_active' = [is_active EXCEPT ![hashmap_get(k)] = TRUE]
  /\ UNCHANGED <<table, loop, live, badFree, status>>

\* Faulty variant, for the mutants: frees the buffer and keeps the slot.
RemoveKeepsSlot(k) ==
  /\ Idle
  /\ hashmap_contains(k) >= 0
  /\ FreeValues({hashmap_contains(k)})
  /\ UNCHANGED <<table, status, loop>>

hashmap_remove(k) ==
  /\ Idle
  /\ hashmap_contains(k) >= 0
  /\ Invalidate({hashmap_contains(k)})
  /\ UNCHANGED <<status, loop>>

Inactive == {s \in Valid : ~is_active[map[s].value]}

\* Faulty variant, for the mutants: forgets to count down.
CleanupUncounted ==
  /\ Idle
  /\ Inactive # {}
  /\ map' = [s \in Slot |-> [map[s] EXCEPT !.valid = @ /\ s \notin Inactive]]
  /\ FreeValues(Inactive)
  /\ UNCHANGED <<size, status, loop>>

hashmap_cleanup_inactive_flows ==
  /\ Idle
  /\ Invalidate(Inactive)
  /\ UNCHANGED <<status, loop>>

\* hashmap_destroy frees the values of the first size slots, valid or not.
hashmap_destroy ==
  /\ Idle
  /\ FreeValues({s \in Slot : s < size})
  /\ status' = "destroyed"
  /\ UNCHANGED <<table, loop>>

StartLoop ==
  /\ Idle
  /\ iterating' = TRUE
  /\ UNCHANGED <<table, heap, status, cursor, seen>>

EndLoop == iterating' = FALSE /\ cursor' = NoKey /\ seen' = {}

\* Faulty variant, for the mutants: the client keeps calling with its first key.
GetNextStuck ==
  LET next == hashmap_contains(cursor) + 1
  IN  /\ iterating /\ status = "running"
      /\ \/ /\ next \in Valid
            /\ seen' = seen \cup {map[next].key}
            /\ UNCHANGED <<iterating, cursor>>
         \/ /\ next \notin Valid
            /\ EndLoop
      /\ UNCHANGED <<table, heap, status>>

\* Faulty variant, for the mutants: takes an unknown key for slot 0.
GetNextFromOne ==
  LET next == Max({hashmap_contains(cursor), 0}) + 1
  IN  /\ iterating /\ status = "running"
      /\ \/ /\ next \in Valid
            /\ cursor' = map[next].key
            /\ seen' = seen \cup {map[next].key}
            /\ UNCHANGED iterating
         \/ /\ next \notin Valid
            /\ EndLoop
      /\ UNCHANGED <<table, heap, status>>

\* The loop over the slots after the cursor returns in its first round: it
\* looks at one slot only.  After the last slot the function ends without
\* returning a value, and leaves the key as it was.
hashmap_get_next ==
  LET next == hashmap_contains(cursor) + 1
  IN  /\ iterating /\ status = "running"
      /\ \/ /\ next \in Valid
            /\ cursor' = map[next].key
            /\ seen' = seen \cup {map[next].key}
            /\ UNCHANGED iterating
         \/ /\ next \in Slot \ Valid
            /\ EndLoop
         \/ /\ next = HASHMAP_SIZE
            /\ \/ FALSE \in RunOffEnd /\ EndLoop
               \/ TRUE \in RunOffEnd /\ UNCHANGED loop
      /\ UNCHANGED <<table, heap, status>>

Next ==
  \/ \E k \in Key : hashmap_new(k) \/ Fill(k) \/ hashmap_remove(k)
  \/ hashmap_cleanup_inactive_flows
  \/ hashmap_destroy
  \/ StartLoop
  \/ hashmap_get_next

Spec == Init /\ [][Next]_vars

\* The client's loop runs to its end: it is straight-line code.
FairSpec == Spec /\ WF_vars(hashmap_get_next)
-----------------------------------------------------------------------------
TypeOK ==
  /\ map \in [Slot -> [valid : BOOLEAN, key : Key, value : Buffer \cup {NULL}]]
  /\ size \in 0 .. HASHMAP_SIZE
  /\ live \subseteq Buffer
  /\ is_active \in [Buffer -> BOOLEAN]
  /\ status \in {"running", "exited", "destroyed"}
  /\ badFree \in BOOLEAN
  /\ iterating \in BOOLEAN
  /\ cursor \in Key \cup {NoKey}
  /\ seen \subseteq Key

(***************************************************************************)
(* size counts the valid slots.  It is what stops the search: were it      *)
(* larger, hashmap_contains would read past the array for an absent key;   *)
(* were it smaller, the last flows of the table could not be found.        *)
(***************************************************************************)
SizeCountsValid == size = Cardinality(Valid)

(***************************************************************************)
(* No key occupies two slots, although slots are freed in any order and    *)
(* their stale keys stay in the array.                                     *)
(***************************************************************************)
UniqueKeys ==
  \A s, t \in Valid : map[s].key = map[t].key => s = t

(***************************************************************************)
(* As long as the table is in use every valid slot owns an allocated       *)
(* buffer of its own, even when calloc hands a freed address out again,    *)
(* and nothing has been freed twice.                                       *)
(***************************************************************************)
BuffersOwned ==
  status # "destroyed" =>
    /\ \A s \in Valid : map[s].value \in live
    /\ \A s, t \in Valid : map[s].value = map[t].value => s = t
    /\ ~badFree

(***************************************************************************)
(* The interface implements the abstract map: each call changes what       *)
(* hashmap_get reports of the keys it is about, and of no other key.       *)
(***************************************************************************)
Abstract == INSTANCE FlowMap
  WITH contents <- [k \in Key |-> IF status = "destroyed" THEN NULL ELSE hashmap_get(k)],
       Capacity <- HASHMAP_SIZE

ImplementsFlowMap == Abstract!Spec

FirstHole == Min({s \in Slot : s \notin Valid} \cup {HASHMAP_SIZE})

\* No free slot lies before a taken one.
NoHole == Valid = 0 .. FirstHole - 1

(***************************************************************************)
(* A loop over hashmap_get_next visits every key, each one once stored and *)
(* no one removed, however slots were freed and taken again before, if the *)
(* table has no hole when it runs.  With a hole it does not, against       *)
(* hashmap.h:76 ("all the keys"): it ends there.  The main loop makes none *)
(* (NoHoles in Tracker).                                                   *)
(***************************************************************************)
LoopVisitsAllKeys ==
  [][iterating /\ ~iterating' /\ NoHole => seen = Keys]_vars

(***************************************************************************)
(* A loop over hashmap_get_next, which knows its place by the key it was   *)
(* at, ends, or has been everywhere when it runs off the end.              *)
(***************************************************************************)
LoopProgresses == iterating ~> ~iterating \/ seen = Keys
=============================================================================
