--------------------------- MODULE HashMapProofs ---------------------------
(***************************************************************************)
(* Proofs about HashMap, for every number of slots, set of keys and heap.  *)
(***************************************************************************)
EXTENDS HashMap, ArithmeticProofs, FiniteSetTheorems, TLAPS
-----------------------------------------------------------------------------
(***************************************************************************)
(* The slots, and the valid ones among them, are finitely many.            *)
(***************************************************************************)
LEMMA SlotsFinite ==
  /\ IsFiniteSet(Slot) /\ Cardinality(Slot) = HASHMAP_SIZE
  /\ \A S : S \subseteq Slot =>
       IsFiniteSet(S) /\ Cardinality(S) \in 0 .. HASHMAP_SIZE
<1>1. IsFiniteSet(Slot) /\ Cardinality(Slot) = HASHMAP_SIZE
  BY FS_Interval, HashMapAssumption DEF Slot
<1>2. ASSUME NEW S, S \subseteq Slot
      PROVE  IsFiniteSet(S) /\ Cardinality(S) \in 0 .. HASHMAP_SIZE
  <2>1. S \in SUBSET Slot
    BY <1>2
  <2>2. IsFiniteSet(S) /\ Cardinality(S) <= Cardinality(Slot)
    BY <1>1, <2>1, FS_Subset
  <2>3. Cardinality(S) \in Nat
    BY <2>2, FS_CardinalityType
  <2>4. QED
    BY <1>1, <2>2, <2>3, HashMapAssumption
<1>3. QED
  BY <1>1, <1>2

(***************************************************************************)
(* hashmap_contains returns -1 or a valid slot that holds the key.         *)
(***************************************************************************)
LEMMA ContainsSound ==
  ASSUME NEW k
  PROVE  \/ hashmap_contains(k) = -1
         \/ /\ hashmap_contains(k) \in Valid
            /\ hashmap_contains(k) >= 0
            /\ map[hashmap_contains(k)].key = k
<1> DEFINE found == {s \in Examined : map[s].valid /\ map[s].key = k}
<1>1. hashmap_contains(k) = IF found = {} THEN -1 ELSE Min(found)
  BY DEF hashmap_contains
<1>2. found \subseteq Slot
  BY DEF Examined
<1>3. CASE found # {}
  <2>1. found \in SUBSET Nat
    BY <1>2, HashMapAssumption DEF Slot
  <2>2. Min(found) \in found
    BY <1>3, <2>1, MinIsLeast
  <2>3. Min(found) \in Nat
    BY <2>1, <2>2
  <2>4. QED
    BY <1>1, <1>2, <1>3, <2>2, <2>3 DEF Valid
<1>4. QED
  BY <1>1, <1>3

(***************************************************************************)
(* When size counts the valid slots, the search examines all of them.      *)
(***************************************************************************)
LEMMA ValidExamined ==
  ASSUME SizeCountsValid, NEW s \in Valid
  PROVE  s \in Examined
<1> DEFINE below == {t \in Valid : t < s}
<1>1. s \in Slot /\ s \in Int
  BY HashMapAssumption DEF Valid, Slot
<1>2. IsFiniteSet(Valid) /\ Cardinality(Valid) \in Nat
  BY SlotsFinite DEF Valid
<1>3. below \in SUBSET Valid /\ s \notin below
  BY <1>1
<1>4. /\ IsFiniteSet(below) /\ Cardinality(below) <= Cardinality(Valid)
      /\ Cardinality(Valid) = Cardinality(below) => Valid = below
  BY <1>2, <1>3, FS_Subset
<1>5. Cardinality(below) \in Nat
  BY <1>4, FS_CardinalityType
<1>6. Cardinality(below) < Cardinality(Valid)
  BY <1>2, <1>3, <1>4, <1>5
<1>7. QED
  BY <1>1, <1>6 DEF Examined, SizeCountsValid

(***************************************************************************)
(* hashmap_contains finds every key of the table, at its only slot.        *)
(***************************************************************************)
LEMMA ContainsComplete ==
  ASSUME SizeCountsValid, UniqueKeys, NEW s \in Valid
  PROVE  hashmap_contains(map[s].key) = s
<1> DEFINE k == map[s].key
           found == {t \in Examined : map[t].valid /\ map[t].key = k}
<1>1. s \in found
  BY ValidExamined DEF Valid
<1>2. hashmap_contains(k) = Min(found)
  BY <1>1 DEF hashmap_contains
<1>3. found \in SUBSET Nat /\ found \subseteq Valid
  BY HashMapAssumption DEF Slot, Examined, Valid
<1>4. Min(found) \in found
  BY <1>1, <1>3, MinIsLeast
<1>5. QED
  BY <1>2, <1>3, <1>4 DEF UniqueKeys

(***************************************************************************)
(* hashmap_first_free_slot returns -1 when the table is full, else a slot  *)
(* that is not valid.                                                      *)
(***************************************************************************)
LEMMA FirstFree ==
  \/ hashmap_first_free_slot = -1 /\ Valid = Slot
  \/ /\ hashmap_first_free_slot \in Slot \ Valid
     /\ hashmap_first_free_slot >= 0
<1>1. CASE Valid # Slot
  <2>1. Slot \ Valid \in SUBSET Nat /\ Slot \ Valid # {}
    BY <1>1, HashMapAssumption DEF Slot, Valid
  <2>2. Min(Slot \ Valid) \in Slot \ Valid
    BY <2>1, MinIsLeast
  <2>3. QED
    BY <1>1, <2>1, <2>2 DEF hashmap_first_free_slot
<1>2. QED
  BY <1>1 DEF hashmap_first_free_slot
-----------------------------------------------------------------------------
(***************************************************************************)
(* The inductive invariant: none of the last three parts is inductive      *)
(* alone.  Keys stay unique because the search finds every key, which it   *)
(* does because size counts the valid slots; and cleaning up counts down   *)
(* by the right amount because removals only touch valid slots.            *)
(***************************************************************************)
IInv == TypeOK /\ SizeCountsValid /\ UniqueKeys /\ BuffersOwned

(***************************************************************************)
(* hashmap_new keeps the invariant, for a known key, for a new one, and    *)
(* when the table is full.                                                 *)
(***************************************************************************)
LEMMA NewPreserves ==
  ASSUME IInv, NEW k \in Key, hashmap_new(k)
  PROVE  IInv'
<1> DEFINE index == hashmap_contains(k)
           free  == hashmap_first_free_slot
           entry(b) == [valid |-> TRUE, key |-> k, value |-> b]
<1>1. PICK b \in Buffer : ringbuffer_init(b) /\ hashmap_insert(k, b)
  BY DEF hashmap_new
<1>2. /\ b \notin live /\ live' = live \cup {b} /\ badFree' = badFree
      /\ is_active' \in [Buffer -> BOOLEAN]
      /\ status = "running" /\ UNCHANGED <<iterating, cursor, seen>>
  BY <1>1 DEF ringbuffer_init, hashmap_new, Idle, loop, IInv, TypeOK
<1>3. /\ index = -1 \/ (index \in Valid /\ index >= 0 /\ map[index].key = k)
      /\ index \in Int
  BY ContainsSound, HashMapAssumption DEF Valid, Slot
<1>4. /\ free = -1 \/ (free \in Slot \ Valid /\ free >= 0)
      /\ free \in Int
  BY FirstFree, HashMapAssumption DEF Slot
<1> HIDE DEF index, free
<1>5. CASE index \in Valid /\ index >= 0 /\ map[index].key = k
  <2>1. /\ map' = [map EXCEPT ![index] = entry(b)]
        /\ size' = size /\ status' = status
    BY <1>1, <1>3, <1>5 DEF hashmap_insert, hashmap_insert_at_index, index
  <2>2. index \in Slot
    BY <1>5 DEF Valid
  <2>3. map' \in [Slot -> [valid : BOOLEAN, key : Key, value : Buffer \cup {NULL}]]
    BY <2>1 DEF IInv, TypeOK
  <2>4. \A s \in Slot : map'[s] = IF s = index THEN entry(b) ELSE map[s]
    BY <2>1 DEF IInv, TypeOK
  <2>5. Valid' = Valid
    BY <1>5, <2>2, <2>4 DEF Valid
  <2>6. TypeOK'
    BY <1>2, <2>1, <2>3 DEF IInv, TypeOK
  <2>7. SizeCountsValid'
    BY <2>1, <2>5 DEF IInv, SizeCountsValid
  <2>8. \A s \in Valid : s \in Slot /\ map'[s].key = map[s].key
    BY <1>5, <2>4 DEF Valid
  <2>9. UniqueKeys'
    BY <2>5, <2>8 DEF IInv, UniqueKeys
  <2>10. \A s \in Valid : map'[s].value = IF s = index THEN b ELSE map[s].value
    BY <2>4, <2>8
  <2>11. BuffersOwned'
    BY <1>2, <2>1, <2>5, <2>10 DEF IInv, BuffersOwned
  <2>12. QED
    BY <2>6, <2>7, <2>9, <2>11 DEF IInv
<1>6. CASE index = -1 /\ free \in Slot \ Valid /\ free >= 0
  <2>1. /\ map' = [map EXCEPT ![free] = entry(b)]
        /\ size' = size + 1 /\ status' = status
    BY <1>1, <1>3, <1>4, <1>6 DEF hashmap_insert, hashmap_insert_at_index, index, free
  <2>2. map' \in [Slot -> [valid : BOOLEAN, key : Key, value : Buffer \cup {NULL}]]
    BY <2>1 DEF IInv, TypeOK
  <2>3. \A s \in Slot : map'[s] = IF s = free THEN entry(b) ELSE map[s]
    BY <2>1 DEF IInv, TypeOK
  <2>4. Valid' = Valid \cup {free}
    BY <1>6, <2>3 DEF Valid
  <2>5. SizeCountsValid'
    <3>1. IsFiniteSet(Valid)
      BY SlotsFinite DEF Valid
    <3>2. Cardinality(Valid \cup {free}) = Cardinality(Valid) + 1
      BY <1>6, <3>1, FS_AddElement
    <3>3. QED
      BY <2>1, <2>4, <3>2 DEF IInv, SizeCountsValid
  <2>6. TypeOK'
    <3>1. Valid \cup {free} \subseteq Slot
      BY <1>6 DEF Valid
    <3>2. size' \in 0 .. HASHMAP_SIZE
      BY <2>4, <2>5, <3>1, SlotsFinite DEF SizeCountsValid
    <3>3. QED
      BY <1>2, <2>1, <2>2, <3>2 DEF IInv, TypeOK
  <2>7. \A s \in Valid : s \in Slot /\ s # free /\ map'[s] = map[s]
    BY <1>6, <2>3 DEF Valid
  <2>8. map'[free].key = k /\ map'[free].value = b
    BY <1>6, <2>3
  <2>9. \A s \in Valid : map[s].key # k
    BY <1>6, ContainsComplete, HashMapAssumption DEF index, IInv, Valid, Slot
  <2>10. UniqueKeys'
    BY <2>4, <2>7, <2>8, <2>9 DEF IInv, UniqueKeys
  <2>11. BuffersOwned'
    BY <1>2, <2>1, <2>4, <2>7, <2>8 DEF IInv, BuffersOwned
  <2>12. QED
    BY <2>5, <2>6, <2>10, <2>11 DEF IInv
<1>7. CASE index = -1 /\ free = -1
  <2>1. map' = map /\ size' = size /\ status' = "exited"
    BY <1>1, <1>3, <1>4, <1>7 DEF hashmap_insert, index, free
  <2>2. Valid' = Valid
    BY <2>1 DEF Valid
  <2>3. TypeOK'
    BY <1>2, <2>1 DEF IInv, TypeOK
  <2>4. SizeCountsValid' /\ UniqueKeys'
    BY <2>1, <2>2 DEF IInv, SizeCountsValid, UniqueKeys
  <2>5. BuffersOwned'
    BY <1>2, <2>1, <2>2 DEF IInv, BuffersOwned
  <2>6. QED
    BY <2>3, <2>4, <2>5 DEF IInv
<1>8. QED
  BY <1>3, <1>4, <1>5, <1>6, <1>7

(***************************************************************************)
(* Clearing any set of valid slots, as hashmap_remove and the clean-up do, *)
(* keeps the invariant.                                                    *)
(***************************************************************************)
LEMMA InvalidatePreserves ==
  ASSUME IInv, NEW S, S \subseteq Valid, Invalidate(S),
         status = "running", UNCHANGED <<status, loop>>
  PROVE  IInv'
<1>1. \A s \in Valid : s \in Slot /\ map[s].value \in live /\ map[s].value # NULL
  BY HashMapAssumption DEF IInv, TypeOK, BuffersOwned, Valid
<1>2. \A s \in Slot :
        map'[s] = IF s \in S THEN [map[s] EXCEPT !.valid = FALSE] ELSE map[s]
  BY DEF Invalidate
<1>3. map' \in [Slot -> [valid : BOOLEAN, key : Key, value : Buffer \cup {NULL}]]
  BY DEF Invalidate, IInv, TypeOK
<1>4. Valid' = Valid \ S
  BY <1>2 DEF Valid, IInv, TypeOK
<1>5. /\ live' = live \ {map[s].value : s \in S}
      /\ badFree' = badFree
      /\ is_active' = is_active
  <2>1. {s \in S : map[s].value # NULL} = S
    BY <1>1
  <2>2. ~badFree /\ \A s, t \in S : map[s].value = map[t].value => s = t
    BY DEF IInv, BuffersOwned
  <2>3. \A s \in S : map[s].value \in live
    BY <1>1
  <2>4. FreeValues(S)
    BY DEF Invalidate
  <2>5. live' = live \ {map[s].value : s \in S} /\ is_active' = is_active
    BY <2>1, <2>4 DEF FreeValues
  <2>6. badFree' = \/ badFree
                   \/ \E s \in S : map[s].value \notin live
                   \/ \E s, t \in S : s # t /\ map[s].value = map[t].value
    BY <2>1, <2>4 DEF FreeValues
  <2>7. badFree \in BOOLEAN
    BY DEF IInv, TypeOK
  <2>8. QED
    BY <2>2, <2>3, <2>5, <2>6, <2>7
<1>6. SizeCountsValid'
  <2>1. IsFiniteSet(Valid) /\ Valid \cap S = S
    BY SlotsFinite DEF Valid
  <2>2. Cardinality(Valid \ S) = Cardinality(Valid) - Cardinality(S)
    BY <2>1, FS_Difference
  <2>3. QED
    BY <1>4, <2>2 DEF Invalidate, IInv, SizeCountsValid
<1>7. TypeOK'
  <2>1. Valid' \subseteq Slot
    BY <1>4 DEF Valid
  <2>2. size' \in 0 .. HASHMAP_SIZE
    BY <1>6, <2>1, SlotsFinite DEF SizeCountsValid
  <2>3. QED
    BY <1>3, <1>5, <2>2 DEF IInv, TypeOK, loop
<1>8. \A s \in Valid \ S : map'[s] = map[s]
  BY <1>1, <1>2
<1>9. UniqueKeys'
  BY <1>4, <1>8 DEF IInv, UniqueKeys
<1>10. BuffersOwned'
  BY <1>1, <1>4, <1>5, <1>8 DEF IInv, BuffersOwned
<1>11. QED
  BY <1>6, <1>7, <1>9, <1>10 DEF IInv

(***************************************************************************)
(* Every call of the interface keeps the invariant.                        *)
(***************************************************************************)
LEMMA StepPreserves == IInv /\ [Next]_vars => IInv'
<1> SUFFICES ASSUME IInv, [Next]_vars
             PROVE  IInv'
  OBVIOUS
<1>1. ASSUME NEW k \in Key, hashmap_new(k)
      PROVE  IInv'
  BY <1>1, NewPreserves
<1>2. ASSUME NEW k \in Key, Fill(k)
      PROVE  IInv'
  <2>1. is_active' \in [Buffer -> BOOLEAN]
    BY <1>2 DEF Fill, IInv, TypeOK
  <2>2. UNCHANGED <<map, size, live, status, badFree, iterating, cursor, seen>>
    BY <1>2 DEF Fill, table, loop
  <2>3. Valid' = Valid
    BY <2>2 DEF Valid
  <2>4. QED
    BY <2>1, <2>2, <2>3
       DEF IInv, TypeOK, SizeCountsValid, UniqueKeys, BuffersOwned
<1>3. ASSUME NEW k \in Key, hashmap_remove(k)
      PROVE  IInv'
  <2>1. hashmap_contains(k) \in Valid
    BY <1>3, ContainsSound DEF hashmap_remove
  <2>2. QED
    BY <1>3, <2>1, InvalidatePreserves DEF hashmap_remove, Idle
<1>4. CASE hashmap_cleanup_inactive_flows
  <2>1. Inactive \subseteq Valid
    BY DEF Inactive
  <2>2. QED
    BY <1>4, <2>1, InvalidatePreserves DEF hashmap_cleanup_inactive_flows, Idle
<1>5. CASE hashmap_destroy
  <2>1. /\ live' \subseteq live /\ is_active' = is_active
        /\ badFree' \in BOOLEAN
        /\ status' = "destroyed"
        /\ UNCHANGED <<map, size, iterating, cursor, seen>>
    BY <1>5 DEF hashmap_destroy, FreeValues, table, loop
  <2>2. Valid' = Valid
    BY <2>1 DEF Valid
  <2>3. QED
    BY <2>1, <2>2 DEF IInv, TypeOK, SizeCountsValid, UniqueKeys, BuffersOwned
<1>6. ASSUME UNCHANGED <<table, heap, status>>,
             iterating' \in BOOLEAN, cursor' \in Key \cup {NoKey}, seen' \subseteq Key
      PROVE  IInv'
  <2>1. UNCHANGED <<map, size, live, is_active, badFree, status>>
    BY <1>6 DEF table, heap
  <2>2. Valid' = Valid
    BY <2>1 DEF Valid
  <2>3. QED
    BY <1>6, <2>1, <2>2
       DEF IInv, TypeOK, SizeCountsValid, UniqueKeys, BuffersOwned
<1>7. CASE StartLoop
  BY <1>6, <1>7 DEF StartLoop, IInv, TypeOK
<1>8. CASE hashmap_get_next
  <2> DEFINE next == hashmap_contains(cursor) + 1
  <2>1. next \in Valid => map[next].key \in Key
    BY DEF Valid, IInv, TypeOK
  <2>2. /\ iterating' \in BOOLEAN
        /\ cursor' \in Key \cup {NoKey}
        /\ seen' \subseteq Key
    <3> HIDE DEF next
    <3>1. CASE /\ next \in Valid
               /\ cursor' = map[next].key
               /\ seen' = seen \cup {map[next].key}
               /\ UNCHANGED iterating
      BY <2>1, <3>1 DEF IInv, TypeOK
    <3>2. CASE EndLoop
      BY <3>2 DEF EndLoop
    <3>3. CASE UNCHANGED loop
      BY <3>3 DEF loop, IInv, TypeOK
    <3>4. QED
      BY <1>8, <3>1, <3>2, <3>3 DEF hashmap_get_next, next
  <2>3. QED
    BY <1>6, <1>8, <2>2 DEF hashmap_get_next
<1>9. CASE UNCHANGED vars
  BY <1>6, <1>9 DEF vars, table, heap, IInv, TypeOK
<1>10. QED
  BY <1>1, <1>2, <1>3, <1>4, <1>5, <1>7, <1>8, <1>9 DEF Next

(***************************************************************************)
(* The table starts empty.                                                 *)
(***************************************************************************)
LEMMA InitEstablishes == Init => IInv
<1> SUFFICES ASSUME Init
             PROVE  IInv
  OBVIOUS
<1>1. Valid = {}
  BY DEF Init, Valid
<1>2. TypeOK
  <2>1. size \in 0 .. HASHMAP_SIZE
    BY HashMapAssumption DEF Init
  <2>2. map \in [Slot -> [valid : BOOLEAN, key : Key, value : Buffer \cup {NULL}]]
    BY HashMapAssumption, Zenon DEF Init
  <2>3. is_active \in [Buffer -> BOOLEAN]
    BY DEF Init
  <2>4. badFree \in BOOLEAN /\ iterating \in BOOLEAN
    BY DEF Init
  <2>5. QED
    BY <2>1, <2>2, <2>3, <2>4 DEF Init, TypeOK
<1>3. SizeCountsValid
  BY <1>1, FS_EmptySet DEF Init, SizeCountsValid
<1>4. QED
  BY <1>1, <1>2, <1>3 DEF Init, IInv, UniqueKeys, BuffersOwned

(***************************************************************************)
(* The invariant holds after any sequence of calls.                        *)
(***************************************************************************)
THEOREM TableInvariant == Spec => []IInv
BY InitEstablishes, StepPreserves, PTL DEF Spec

(***************************************************************************)
(* Every field of the table keeps its type; size stays within the array.   *)
(***************************************************************************)
THEOREM TypeCorrect == Spec => []TypeOK
<1>1. IInv => TypeOK
  BY DEF IInv
<1>2. QED
  BY <1>1, TableInvariant, PTL

(***************************************************************************)
(* size, which bounds the search of hashmap_contains, counts the valid     *)
(* slots after any sequence of insertions, removals and clean-ups.         *)
(***************************************************************************)
THEOREM SizeIsCount == Spec => []SizeCountsValid
<1>1. IInv => SizeCountsValid
  BY DEF IInv
<1>2. QED
  BY <1>1, TableInvariant, PTL

(***************************************************************************)
(* hashmap_insert never stores a key twice, whichever slots were freed.    *)
(***************************************************************************)
THEOREM KeysAreUnique == Spec => []UniqueKeys
<1>1. IInv => UniqueKeys
  BY DEF IInv
<1>2. QED
  BY <1>1, TableInvariant, PTL

(***************************************************************************)
(* Until the table is destroyed each of its flows owns a ring buffer, and  *)
(* none is freed twice, even if calloc reuses addresses at once.           *)
(***************************************************************************)
THEOREM EveryFlowOwnsItsBuffer == Spec => []BuffersOwned
<1>1. IInv => BuffersOwned
  BY DEF IInv
<1>2. QED
  BY <1>1, TableInvariant, PTL
-----------------------------------------------------------------------------
(***************************************************************************)
(* The map the table stands for: hashmap_get reports the buffer of a valid *)
(* slot for its key, and NULL for a key of no valid slot.                  *)
(***************************************************************************)
Reports ==
  /\ \A s \in Valid : hashmap_get(map[s].key) = map[s].value
  /\ \A k \in Key : k \notin Keys => hashmap_get(k) = NULL

(***************************************************************************)
(* The invariant makes the two agree.                                      *)
(***************************************************************************)
LEMMA GetReports == IInv => Reports
<1> SUFFICES ASSUME IInv
             PROVE  Reports
  OBVIOUS
<1>1. ASSUME NEW s \in Valid
      PROVE  hashmap_get(map[s].key) = map[s].value
  <2>1. hashmap_contains(map[s].key) = s /\ s >= 0
    BY ContainsComplete, HashMapAssumption DEF Valid, Slot, IInv
  <2>2. QED
    BY <2>1 DEF hashmap_get
<1>2. ASSUME NEW k \in Key, k \notin Keys
      PROVE  hashmap_get(k) = NULL
  <2>1. hashmap_contains(k) = -1
    BY <1>2, ContainsSound DEF Keys
  <2>2. QED
    BY <2>1 DEF hashmap_get
<1>3. QED
  BY <1>1, <1>2 DEF Reports

(***************************************************************************)
(* There are as many keys as valid slots.                                  *)
(***************************************************************************)
LEMMA KeysCounted ==
  ASSUME UniqueKeys
  PROVE  Cardinality(Keys) = Cardinality(Valid)
<1> DEFINE keyOf == [s \in Valid |-> map[s].key]
<1>1. IsFiniteSet(Valid)
  BY SlotsFinite DEF Valid
<1>2. keyOf \in Surjection(Valid, Keys)
  BY DEF Keys, Surjection
<1>3. keyOf \in Injection(Valid, Keys)
  BY DEF Keys, UniqueKeys, Injection, IsInjective
<1>4. QED
  BY <1>1, <1>2, <1>3, FS_Surjection

(***************************************************************************)
(* The abstract map counts with the same Cardinality.                      *)
(***************************************************************************)
LEMMA SameCardinality ==
  ASSUME NEW S
  PROVE  Abstract!Cardinality(S) = Cardinality(S)
BY Zenon DEF Abstract!Cardinality, Cardinality

(***************************************************************************)
(* The keys of the abstract map are those of the valid slots.              *)
(***************************************************************************)
LEMMA AbstractKeys ==
  ASSUME IInv, status = "running"
  PROVE  Abstract!Keys = Keys
<1>1. /\ \A s \in Valid : hashmap_get(map[s].key) = map[s].value
      /\ \A k \in Key : k \notin Keys => hashmap_get(k) = NULL
  BY GetReports DEF Reports
<1>2. \A s \in Valid : map[s].key \in Key /\ map[s].value # NULL
  BY HashMapAssumption DEF IInv, TypeOK, BuffersOwned, Valid
<1>3. QED
  BY <1>1, <1>2 DEF Abstract!Keys, Keys

(***************************************************************************)
(* Inserting is an abstract Put, or an Overflow when there is no room.     *)
(***************************************************************************)
LEMMA NewRefines ==
  ASSUME IInv, IInv', NEW k \in Key, hashmap_new(k)
  PROVE  \/ \E b \in Buffer : Abstract!Put(k, b)
         \/ Abstract!Overflow(k)
<1> DEFINE index == hashmap_contains(k)
           free  == hashmap_first_free_slot
           entry(b) == [valid |-> TRUE, key |-> k, value |-> b]
<1>1. PICK b \in Buffer : hashmap_insert(k, b)
  BY DEF hashmap_new
<1>2. status = "running" /\ Abstract!Keys = Keys
  BY AbstractKeys DEF hashmap_new, Idle
<1>3. /\ index = -1 \/ (index \in Valid /\ index >= 0 /\ map[index].key = k)
      /\ index \in Int
  BY ContainsSound, HashMapAssumption DEF Valid, Slot
<1>4. /\ (free = -1 /\ Valid = Slot) \/ (free \in Slot \ Valid /\ free >= 0)
      /\ free \in Int
  BY FirstFree, HashMapAssumption DEF Slot
<1>5. \A s \in Valid : s \in Slot /\ hashmap_contains(map[s].key) = s
  BY ContainsComplete DEF IInv, Valid
<1>6. /\ \A s \in Valid : hashmap_get(map[s].key) = map[s].value
      /\ \A x \in Key : x \notin Keys => hashmap_get(x) = NULL
  BY GetReports DEF Reports
<1>7. /\ \A s \in Valid' : hashmap_get(map[s].key)' = map'[s].value
      /\ \A x \in Key : x \notin Keys' => hashmap_get(x)' = NULL
  <2>1. Reports'
    BY GetReports, PTL
  <2>2. QED
    BY <2>1 DEF Reports
<1> HIDE DEF index, free
<1>8. ASSUME NEW slot \in Slot,
             map' = [map EXCEPT ![slot] = entry(b)],
             status' = status,
             slot \in Valid => map[slot].key = k,
             slot \notin Valid => k \notin Keys
      PROVE  \A x \in Key : hashmap_get(x)' = IF x = k THEN b ELSE hashmap_get(x)
  <2>1. \A s \in Slot : map'[s] = IF s = slot THEN entry(b) ELSE map[s]
    BY <1>8 DEF IInv, TypeOK
  <2>2. Valid' = Valid \cup {slot}
    BY <2>1 DEF Valid
  <2>3. hashmap_get(k)' = b
    BY <1>7, <2>1, <2>2
  <2>4. ASSUME NEW x \in Key, x # k, x \in Keys
        PROVE  hashmap_get(x)' = hashmap_get(x)
    <3>1. PICK s \in Valid : map[s].key = x
      BY <2>4 DEF Keys
    <3>2. s # slot /\ s \in Slot /\ map'[s] = map[s]
      BY <1>8, <2>1, <2>4, <3>1, <1>5
    <3>3. QED
      BY <1>6, <1>7, <2>2, <3>1, <3>2
  <2>5. ASSUME NEW x \in Key, x # k, x \notin Keys
        PROVE  hashmap_get(x)' = hashmap_get(x)
    <3>1. x \notin Keys'
      BY <1>5, <2>1, <2>2, <2>5 DEF Keys
    <3>2. QED
      BY <1>6, <1>7, <2>5, <3>1
  <2>6. QED
    BY <2>3, <2>4, <2>5
<1>9. CASE index \in Valid /\ index >= 0 /\ map[index].key = k
  <2>1. map' = [map EXCEPT ![index] = entry(b)] /\ status' = status
    BY <1>1, <1>3, <1>9 DEF hashmap_insert, hashmap_insert_at_index, index
  <2>2. index \in Slot /\ k \in Keys
    BY <1>9 DEF Valid, Keys
  <2>3. \A x \in Key : hashmap_get(x)' = IF x = k THEN b ELSE hashmap_get(x)
    BY <1>8, <1>9, <2>1, <2>2
  <2>4. Abstract!Put(k, b)
    BY <1>2, <2>1, <2>2, <2>3, SameCardinality DEF Abstract!Put
  <2>5. QED
    BY <2>4
<1>10. ASSUME index = -1
       PROVE  k \notin Keys
  BY <1>5, <1>10, HashMapAssumption DEF Keys, index, Slot
<1>11. Cardinality(Keys) = Cardinality(Valid) /\ IsFiniteSet(Valid)
  BY KeysCounted, SlotsFinite DEF IInv, Valid
<1>12. CASE index = -1 /\ free \in Slot \ Valid /\ free >= 0
  <2>1. map' = [map EXCEPT ![free] = entry(b)] /\ status' = status
    BY <1>1, <1>3, <1>4, <1>12 DEF hashmap_insert, hashmap_insert_at_index, index, free
  <2>2. \A x \in Key : hashmap_get(x)' = IF x = k THEN b ELSE hashmap_get(x)
    BY <1>8, <1>10, <1>12, <2>1
  <2>3. Cardinality(Keys) < HASHMAP_SIZE
    <3>1. Valid \in SUBSET Slot /\ Valid # Slot
      BY <1>12 DEF Valid
    <3>2. QED
      BY <1>11, <3>1, SlotsFinite, FS_Subset, HashMapAssumption
  <2>4. Abstract!Put(k, b)
    BY <1>2, <2>1, <2>2, <2>3, SameCardinality DEF Abstract!Put
  <2>5. QED
    BY <2>4
<1>13. CASE index = -1 /\ free = -1 /\ Valid = Slot
  <2>1. map' = map /\ size' = size /\ status' = "exited"
    BY <1>1, <1>3, <1>4, <1>13 DEF hashmap_insert, index, free
  <2>2. \A x : hashmap_get(x)' = hashmap_get(x)
    BY <2>1 DEF hashmap_get, hashmap_contains, Examined, Valid
  <2>3. Cardinality(Keys) >= HASHMAP_SIZE
    BY <1>11, <1>13, SlotsFinite, HashMapAssumption
  <2>4. Abstract!Overflow(k)
    BY <1>2, <1>10, <1>13, <2>1, <2>2, <2>3, SameCardinality DEF Abstract!Overflow
  <2>5. QED
    BY <2>4
<1>14. QED
  BY <1>3, <1>4, <1>9, <1>12, <1>13

(***************************************************************************)
(* Clearing valid slots is an abstract Drop of their keys.                 *)
(***************************************************************************)
LEMMA InvalidateRefines ==
  ASSUME IInv, IInv', NEW S, S \subseteq Valid, Invalidate(S),
         status = "running", status' = status
  PROVE  Abstract!Drop({map[s].key : s \in S})
<1> DEFINE dropped == {map[s].key : s \in S}
<1>1. Abstract!Keys = Keys
  BY AbstractKeys
<1>2. \A s \in Valid : s \in Slot /\ map[s].key \in Key
  BY DEF Valid, IInv, TypeOK
<1>3. \A s \in Slot :
        map'[s] = IF s \in S THEN [map[s] EXCEPT !.valid = FALSE] ELSE map[s]
  BY DEF Invalidate
<1>4. Valid' = Valid \ S /\ \A s \in Valid \ S : map'[s] = map[s]
  BY <1>2, <1>3 DEF Valid, IInv, TypeOK
<1>5. /\ \A s \in Valid : hashmap_get(map[s].key) = map[s].value
      /\ \A x \in Key : x \notin Keys => hashmap_get(x) = NULL
  BY GetReports DEF Reports
<1>6. /\ \A s \in Valid' : hashmap_get(map[s].key)' = map'[s].value
      /\ \A x \in Key : x \notin Keys' => hashmap_get(x)' = NULL
  <2>1. Reports'
    BY GetReports, PTL
  <2>2. QED
    BY <2>1 DEF Reports
<1>7. ASSUME NEW x \in Key, x \in dropped
      PROVE  hashmap_get(x)' = NULL
  <2>1. x \notin Keys'
    BY <1>4, <1>7 DEF Keys, IInv, UniqueKeys
  <2>2. QED
    BY <1>6, <2>1
<1>8. ASSUME NEW x \in Key, x \notin dropped
      PROVE  hashmap_get(x)' = hashmap_get(x)
  <2>1. CASE x \in Keys
    <3>1. PICK s \in Valid : map[s].key = x
      BY <2>1 DEF Keys
    <3>2. s \in Valid \ S
      BY <1>8, <3>1
    <3>3. QED
      BY <1>4, <1>5, <1>6, <3>1, <3>2
  <2>2. CASE x \notin Keys
    <3>1. x \notin Keys'
      BY <1>4, <2>2 DEF Keys
    <3>2. QED
      BY <1>5, <1>6, <2>2, <3>1
  <2>3. QED
    BY <2>1, <2>2
<1>9. dropped \subseteq Keys
  BY DEF Keys
<1> HIDE DEF dropped
<1>10. \A x \in Key : hashmap_get(x)' = IF x \in dropped THEN NULL ELSE hashmap_get(x)
  BY <1>7, <1>8
<1>11. Abstract!Drop(dropped)
  BY <1>1, <1>9, <1>10 DEF Abstract!Drop
<1>12. QED
  BY <1>11 DEF dropped

(***************************************************************************)
(* Every call of the interface is a step of the abstract map, or leaves it *)
(* as it is.                                                               *)
(***************************************************************************)
Contents == [k \in Key |-> IF status = "destroyed" THEN NULL ELSE hashmap_get(k)]

LEMMA StepRefines ==
  IInv /\ IInv' /\ [Next]_vars => [Abstract!Next]_<<Contents, status>>
<1> SUFFICES ASSUME IInv, IInv', [Next]_vars
             PROVE  Abstract!Next \/ UNCHANGED <<Contents, status>>
  BY DEF Contents
<1>1. ASSUME NEW k \in Key, hashmap_new(k)
      PROVE  Abstract!Next
  <2>1. status = "running"
    BY <1>1 DEF hashmap_new, Idle
  <2>2. QED
    BY <1>1, <2>1, NewRefines DEF Abstract!Next
<1>2. ASSUME UNCHANGED <<map, size, status>>
      PROVE  UNCHANGED <<Contents, status>>
  BY <1>2 DEF Contents, hashmap_get, hashmap_contains, Examined, Valid
<1>3. ASSUME NEW k \in Key, Fill(k)
      PROVE  UNCHANGED <<Contents, status>>
  BY <1>2, <1>3 DEF Fill, table
<1>4. ASSUME NEW S, S \subseteq Valid, Invalidate(S), Idle, status' = status
      PROVE  Abstract!Next
  <2>1. status = "running" /\ {map[s].key : s \in S} \in SUBSET Key
    BY <1>4 DEF Idle, Valid, IInv, TypeOK
  <2>2. Abstract!Drop({map[s].key : s \in S})
    BY <1>4, <2>1, InvalidateRefines
  <2>3. QED
    BY <2>1, <2>2 DEF Abstract!Next
<1>5. ASSUME NEW k \in Key, hashmap_remove(k)
      PROVE  Abstract!Next
  <2>1. hashmap_contains(k) \in Valid
    BY <1>5, ContainsSound DEF hashmap_remove
  <2>2. QED
    BY <1>4, <1>5, <2>1 DEF hashmap_remove
<1>6. CASE hashmap_cleanup_inactive_flows
  BY <1>4, <1>6 DEF hashmap_cleanup_inactive_flows, Inactive
<1>7. CASE hashmap_destroy
  <2>1. status = "running" /\ status' = "destroyed"
    BY <1>7 DEF hashmap_destroy, Idle
  <2>2. Abstract!Destroy
    BY <2>1 DEF Abstract!Destroy
  <2>3. QED
    BY <2>1, <2>2 DEF Abstract!Next
<1>8. CASE StartLoop \/ hashmap_get_next
  BY <1>2, <1>8 DEF StartLoop, hashmap_get_next, table
<1>9. CASE UNCHANGED vars
  BY <1>2, <1>9 DEF vars
<1>10. QED
  BY <1>1, <1>3, <1>5, <1>6, <1>7, <1>8, <1>9 DEF Next

(***************************************************************************)
(* The table implements the abstract map: for every capacity, set of keys  *)
(* and heap, a call changes what hashmap_get reports of its own key only.  *)
(***************************************************************************)
THEOREM TableIsFlowMap == Spec => ImplementsFlowMap
<1>1. Init => Abstract!Init
  <2> SUFFICES ASSUME Init
               PROVE  Abstract!Init
    OBVIOUS
  <2>1. Valid = {}
    BY DEF Init, Valid
  <2>2. \A k \in Key : hashmap_get(k) = NULL
    BY <2>1, InitEstablishes, GetReports DEF Reports, Keys
  <2>3. QED
    BY <2>2 DEF Init, Abstract!Init
<1>2. IInv /\ IInv' /\ [Next]_vars => [Abstract!Next]_<<Contents, status>>
  BY StepRefines
<1>3. QED
  BY <1>1, <1>2, TableInvariant, PTL DEF Spec, ImplementsFlowMap, Abstract!Spec, Contents
-----------------------------------------------------------------------------
(***************************************************************************)
(* Where a client's loop is: at some slot before the first hole, having    *)
(* seen the keys of the slots up to it.                                    *)
(***************************************************************************)
LoopInv ==
  LET at == hashmap_contains(cursor)
  IN  /\ iterating  => at < FirstHole /\ seen = {map[s].key : s \in 0 .. at}
      /\ ~iterating => cursor = NoKey /\ seen = {}

(***************************************************************************)
(* FirstHole is the first slot that is not valid, or past the last slot.   *)
(***************************************************************************)
LEMMA FirstHoleIsLeast ==
  /\ FirstHole \in 0 .. HASHMAP_SIZE
  /\ FirstHole \notin Valid
  /\ \A s \in Slot \ Valid : FirstHole <= s
<1> DEFINE ends == {s \in Slot : s \notin Valid} \cup {HASHMAP_SIZE}
<1>1. ends \in SUBSET Nat /\ ends # {}
  BY HashMapAssumption DEF Slot
<1>2. FirstHole \in ends /\ \A s \in ends : FirstHole <= s
  BY <1>1, MinIsLeast DEF FirstHole
<1>3. QED
  BY <1>2, HashMapAssumption DEF Slot, Valid

(***************************************************************************)
(* The key "no key" is in no slot.                                         *)
(***************************************************************************)
LEMMA NoKeyAbsent ==
  ASSUME TypeOK
  PROVE  hashmap_contains(NoKey) = -1
BY ContainsSound, HashMapAssumption DEF TypeOK, Valid

(***************************************************************************)
(* One call of hashmap_get_next moves one slot on or ends at the hole.     *)
(***************************************************************************)
LEMMA NextAdvances ==
  ASSUME IInv, LoopInv, hashmap_get_next
  PROVE  /\ LoopInv'
         /\ ~iterating' => seen = {map[s].key : s \in 0 .. FirstHole - 1}
<1> DEFINE at == hashmap_contains(cursor)
           next == at + 1
<1>1. /\ at \in Int /\ at >= -1 /\ at < FirstHole
      /\ seen = {map[s].key : s \in 0 .. at}
  BY ContainsSound, HashMapAssumption DEF hashmap_get_next, LoopInv, Valid, Slot
<1>2. FirstHole \in Nat /\ next <= FirstHole
  BY <1>1, FirstHoleIsLeast, HashMapAssumption
<1>3. map' = map /\ size' = size /\ Valid' = Valid /\ FirstHole' = FirstHole
  BY DEF hashmap_get_next, table, Valid, FirstHole
<1>4. \A k : hashmap_contains(k)' = hashmap_contains(k)
  BY <1>3 DEF hashmap_contains, Examined
<1>5. hashmap_contains(NoKey) = -1
  BY NoKeyAbsent DEF IInv
<1>6. CASE /\ next \in Valid
           /\ cursor' = map[next].key
           /\ seen' = seen \cup {map[next].key}
           /\ UNCHANGED iterating
  <2>1. hashmap_contains(cursor') = next
    BY <1>6, ContainsComplete DEF IInv
  <2>2. next < FirstHole
    BY <1>1, <1>2, <1>6, FirstHoleIsLeast
  <2>3. seen' = {map[s].key : s \in 0 .. next}
    <3>1. 0 .. next = (0 .. at) \cup {next}
      BY <1>1
    <3>2. QED
      BY <1>1, <1>6, <3>1
  <2>4. iterating /\ iterating'
    BY <1>6 DEF hashmap_get_next
  <2>5. hashmap_contains(cursor)' = next
    BY <1>4, <2>1
  <2>6. LoopInv'
    BY <1>3, <2>2, <2>3, <2>4, <2>5 DEF LoopInv
  <2>7. QED
    BY <2>4, <2>6
<1>7. CASE EndLoop /\ (next \in Slot \ Valid \/ next = HASHMAP_SIZE)
  <2>1. FirstHole <= next
    BY <1>7, FirstHoleIsLeast, HashMapAssumption
  <2>2. at = FirstHole - 1
    BY <1>1, <1>2, <2>1
  <2>3. LoopInv'
    BY <1>7 DEF EndLoop, LoopInv
  <2>4. QED
    BY <1>1, <2>2, <2>3
<1>8. CASE UNCHANGED loop
  <2>1. iterating' /\ cursor' = cursor /\ seen' = seen
    BY <1>8 DEF loop, hashmap_get_next
  <2>2. hashmap_contains(cursor)' = at
    BY <1>4, <2>1
  <2>3. LoopInv'
    BY <1>1, <1>3, <2>1, <2>2 DEF LoopInv
  <2>4. QED
    BY <2>1, <2>3
<1>9. QED
  BY <1>6, <1>7, <1>8 DEF hashmap_get_next

(***************************************************************************)
(* What a loop over hashmap_get_next visits, holes or not: the flows of    *)
(* the slots before the first hole, each of them, and no flow that has     *)
(* been removed.                                                           *)
(***************************************************************************)
LoopReachesFirstHole ==
  [][iterating /\ ~iterating' => seen = {map[s].key : s \in 0 .. FirstHole - 1}]_vars

(***************************************************************************)
(* Whatever the size of the table and the state it has been brought to, a  *)
(* loop over hashmap_get_next sees exactly the flows before the first hole *)
(* of the array, in either build.                                          *)
(***************************************************************************)
THEOREM LoopStopsAtFirstHole == Spec => LoopReachesFirstHole
<1> DEFINE Ends == iterating /\ ~iterating'
                     => seen = {map[s].key : s \in 0 .. FirstHole - 1}
<1>1. Init => LoopInv
  BY DEF Init, LoopInv
<1>2. IInv /\ LoopInv /\ [Next]_vars => LoopInv' /\ [Ends]_vars
  <2> SUFFICES ASSUME IInv, LoopInv, [Next]_vars
               PROVE  LoopInv' /\ [Ends]_vars
    OBVIOUS
  <2>1. ASSUME ~iterating, ~iterating', UNCHANGED loop
        PROVE  LoopInv' /\ Ends
    BY <2>1 DEF LoopInv, loop
  <2>2. ASSUME NEW k \in Key, hashmap_new(k) \/ Fill(k) \/ hashmap_remove(k)
        PROVE  LoopInv' /\ Ends
    BY <2>1, <2>2 DEF hashmap_new, Fill, hashmap_remove, Idle, loop
  <2>3. CASE hashmap_cleanup_inactive_flows \/ hashmap_destroy
    BY <2>1, <2>3 DEF hashmap_cleanup_inactive_flows, hashmap_destroy, Idle, loop
  <2>4. CASE StartLoop
    <3>1. /\ ~iterating /\ iterating' /\ cursor' = NoKey /\ seen' = {}
          /\ UNCHANGED <<map, size>>
      BY <2>4 DEF StartLoop, Idle, LoopInv, table
    <3>2. hashmap_contains(cursor)' = -1
      <4>1. hashmap_contains(NoKey)' = hashmap_contains(NoKey)
        BY <3>1 DEF hashmap_contains, Examined, Valid
      <4>2. QED
        BY <3>1, <4>1, NoKeyAbsent DEF IInv
    <3>3. -1 < FirstHole'
      <4>1. FirstHole' = FirstHole
        BY <3>1 DEF FirstHole, Valid
      <4>2. QED
        BY <4>1, FirstHoleIsLeast, HashMapAssumption
    <3>4. LoopInv'
      <4>1. {map'[s].key : s \in 0 .. -1} = {}
        OBVIOUS
      <4>2. QED
        BY <3>1, <3>2, <3>3, <4>1, Zenon DEF LoopInv
    <3>5. QED
      BY <3>1, <3>4
  <2>5. CASE hashmap_get_next
    BY <2>5, NextAdvances
  <2>6. CASE UNCHANGED vars
    <3>1. LoopInv'
      <4>1. UNCHANGED <<map, size, iterating, cursor, seen>>
        BY <2>6 DEF vars
      <4>2. hashmap_contains(cursor)' = hashmap_contains(cursor)
        BY <4>1 DEF hashmap_contains, Examined, Valid
      <4>3. FirstHole' = FirstHole
        BY <4>1 DEF FirstHole, Valid
      <4>4. QED
        BY <4>1, <4>2, <4>3 DEF LoopInv
    <3>2. QED
      BY <2>6, <3>1
  <2>7. QED
    BY <2>2, <2>3, <2>4, <2>5, <2>6 DEF Next
<1>3. QED
  BY <1>1, <1>2, TableInvariant, PTL DEF Spec, LoopReachesFirstHole

(***************************************************************************)
(* Hence it sees every key of a table without holes, of any size.          *)
(***************************************************************************)
THEOREM LoopVisitsEveryKey == Spec => LoopVisitsAllKeys
<1>1. [iterating /\ ~iterating' => seen = {map[s].key : s \in 0 .. FirstHole - 1}]_vars
      => [iterating /\ ~iterating' /\ NoHole => seen = Keys]_vars
  BY DEF NoHole, Keys
<1>2. QED
  BY <1>1, LoopStopsAtFirstHole, PTL DEF LoopReachesFirstHole, LoopVisitsAllKeys
=============================================================================
