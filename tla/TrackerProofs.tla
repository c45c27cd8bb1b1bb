--------------------------- MODULE TrackerProofs ---------------------------
(***************************************************************************)
(* Proofs about Tracker: what the main loop does with the table, for every *)
(* number of slots, set of flows and heap.                                 *)
(***************************************************************************)
EXTENDS Tracker, HashMapProofs

(***************************************************************************)
(* A flow is ready to be balanced: it is in the table and has a sample.    *)
(***************************************************************************)
Filled(k) == hashmap_get(k) # NULL /\ is_active[hashmap_get(k)]

(***************************************************************************)
(* The flows of the reply the main loop is through with are filled.        *)
(***************************************************************************)
RepliesFilled ==
  /\ pc \in {"lookup", "fill", "balance"} => \A k \in reply \ todo : Filled(k)
  /\ pc = "balance" => todo = {}

(***************************************************************************)
(* Every record holds a sample, except that of the flow just looked up: so *)
(* the clean-up finds no inactive record.                                  *)
(***************************************************************************)
RecordsActive ==
  \A s \in Valid :
    is_active[map[s].value] \/ (pc = "fill" /\ map[s].key = current)

MainInv ==
  /\ IInv
  /\ MainTypeOK
  /\ NoHoles
  /\ NoLeak
  /\ RepliesFilled
  /\ RecordsActive

(***************************************************************************)
(* A flow unknown to hashmap_get is in no slot.                            *)
(***************************************************************************)
LEMMA UnknownAbsent ==
  ASSUME IInv, status = "running", NEW k, hashmap_get(k) = NULL
  PROVE  hashmap_contains(k) = -1 /\ \A s \in Valid : map[s].key # k
<1>1. hashmap_contains(k) = -1
  BY ContainsSound, HashMapAssumption DEF hashmap_get, IInv, TypeOK, BuffersOwned
<1>2. \A s \in Valid : hashmap_contains(map[s].key) = s /\ s >= 0
  BY ContainsComplete, HashMapAssumption DEF IInv, Valid, Slot
<1>3. QED
  BY <1>1, <1>2, HashMapAssumption DEF Valid, Slot

(***************************************************************************)
(* In a table without holes an unknown flow is created right behind the    *)
(* last one, or the program exits because the table is full.               *)
(***************************************************************************)
LEMMA NewAppends ==
  ASSUME IInv, NoHoles, NEW k \in Key, hashmap_get(k) = NULL, hashmap_new(k)
  PROVE  \E b \in Buffer :
           /\ b \notin live /\ live' = live \cup {b}
           /\ is_active' = [is_active EXCEPT ![b] = FALSE]
           /\ \/ /\ size \in Slot \ Valid /\ size' = size + 1
                 /\ map' = [map EXCEPT ![size] = [valid |-> TRUE, key |-> k, value |-> b]]
                 /\ status' = status
              \/ /\ UNCHANGED <<map, size>>
                 /\ status' = "exited"
<1> DEFINE index == hashmap_contains(k)
           free  == hashmap_first_free_slot
<1>1. PICK b \in Buffer : ringbuffer_init(b) /\ hashmap_insert(k, b)
  BY DEF hashmap_new
<1>2. /\ b \notin live /\ live' = live \cup {b}
      /\ is_active' = [is_active EXCEPT ![b] = FALSE]
  BY <1>1 DEF ringbuffer_init
<1>3. index = -1
  BY UnknownAbsent DEF hashmap_new, Idle
<1>4. size \in 0 .. HASHMAP_SIZE
  BY DEF IInv, TypeOK
<1>5. free \in Int /\ (free = -1 \/ (free = size /\ size \in Slot \ Valid))
  <2>1. CASE size = HASHMAP_SIZE
    <3>1. Valid = Slot
      BY <2>1, HashMapAssumption DEF NoHoles, Slot
    <3>2. QED
      BY <3>1 DEF hashmap_first_free_slot
  <2>2. CASE size # HASHMAP_SIZE
    <3>1. size \in Slot \ Valid /\ \A s \in Slot \ Valid : s \in Nat /\ size <= s
      BY <1>4, <2>2, HashMapAssumption DEF NoHoles, Slot
    <3>2. Slot \ Valid \in SUBSET Nat /\ Valid # Slot
      BY <3>1
    <3>3. Min(Slot \ Valid) \in Slot \ Valid /\ Min(Slot \ Valid) <= size
      BY <3>1, <3>2, MinIsLeast
    <3>4. Min(Slot \ Valid) = size
      <4> DEFINE m == Min(Slot \ Valid)
      <4>1. m \in Nat /\ size <= m
        BY <3>1, <3>3
      <4>2. m <= size /\ size \in Nat
        BY <1>4, <3>3, HashMapAssumption
      <4> HIDE DEF m
      <4>3. m = size
        BY <4>1, <4>2
      <4>4. QED
        BY <4>3 DEF m
    <3>5. QED
      BY <1>4, <3>1, <3>2, <3>4, HashMapAssumption DEF hashmap_first_free_slot
  <2>3. QED
    BY <2>1, <2>2
<1> HIDE DEF index, free
<1>6. \/ /\ free = size /\ size \in Slot \ Valid /\ size' = size + 1
         /\ map' = [map EXCEPT ![size] = [valid |-> TRUE, key |-> k, value |-> b]]
         /\ status' = status
      \/ /\ UNCHANGED <<map, size>>
         /\ status' = "exited"
  BY <1>1, <1>3, <1>4, <1>5, HashMapAssumption
     DEF hashmap_insert, hashmap_insert_at_index, index, free
<1>7. QED
  BY <1>2, <1>6

(***************************************************************************)
(* The table starts empty and the program at the poll.                     *)
(***************************************************************************)
LEMMA MainInitEstablishes == MainInit => MainInv
<1> SUFFICES ASSUME MainInit
             PROVE  MainInv
  OBVIOUS
<1>1. IInv
  BY InitEstablishes DEF MainInit
<1>2. Valid = {}
  BY DEF MainInit, Init, Valid
<1>3. MainTypeOK
  BY <1>1 DEF MainInit, IInv, MainTypeOK
<1>4. NoHoles
  BY <1>2, HashMapAssumption DEF MainInit, Init, NoHoles, Slot
<1>5. NoLeak
  BY <1>2 DEF MainInit, Init, NoLeak
<1>6. RepliesFilled /\ RecordsActive
  BY <1>2 DEF MainInit, RepliesFilled, RecordsActive
<1>7. QED
  BY <1>1, <1>3, <1>4, <1>5, <1>6 DEF MainInv

(***************************************************************************)
(* What hashmap_get reports depends on the slots and their number only.    *)
(***************************************************************************)
LEMMA SameTable ==
  ASSUME UNCHANGED <<map, size>>
  PROVE  /\ Valid' = Valid
         /\ \A k : hashmap_get(k)' = hashmap_get(k)
BY DEF hashmap_get, hashmap_contains, Examined, Valid

(***************************************************************************)
(* A flow hashmap_get knows is in a slot, and its buffer is allocated.     *)
(***************************************************************************)
LEMMA KnownHasSlot ==
  ASSUME IInv, status = "running", NEW x \in Key, hashmap_get(x) # NULL
  PROVE  \E s \in Valid : /\ s \in Slot
                          /\ map[s].key = x
                          /\ map[s].value = hashmap_get(x)
                          /\ map[s].value \in live
<1>1. /\ \A s \in Valid : hashmap_get(map[s].key) = map[s].value
      /\ x \in Keys
  BY GetReports DEF Reports
<1>2. PICK s \in Valid : map[s].key = x
  BY <1>1 DEF Keys
<1>3. s \in Slot /\ map[s].value \in live
  BY DEF Valid, IInv, BuffersOwned
<1>4. QED
  BY <1>1, <1>2, <1>3

(***************************************************************************)
(* Creating a flow leaves the records of the others as they are.           *)
(***************************************************************************)
LEMMA NewKeeps ==
  ASSUME IInv, IInv', NoHoles, NEW k \in Key, hashmap_get(k) = NULL, hashmap_new(k),
         NEW x \in Key, hashmap_get(x) # NULL
  PROVE  /\ hashmap_get(x)' = hashmap_get(x)
         /\ is_active'[hashmap_get(x)] = is_active[hashmap_get(x)]
<1>1. status = "running"
  BY DEF hashmap_new, Idle
<1>2. PICK s \in Valid : /\ s \in Slot
                         /\ map[s].key = x
                         /\ map[s].value = hashmap_get(x)
                         /\ map[s].value \in live
  BY <1>1, KnownHasSlot
<1>3. PICK b \in Buffer :
        /\ b \notin live
        /\ is_active' = [is_active EXCEPT ![b] = FALSE]
        /\ \/ /\ size \in Slot \ Valid
              /\ map' = [map EXCEPT ![size] = [valid |-> TRUE, key |-> k, value |-> b]]
           \/ UNCHANGED <<map, size>>
  BY NewAppends
<1>4. is_active'[hashmap_get(x)] = is_active[hashmap_get(x)]
  <2>1. hashmap_get(x) # b /\ hashmap_get(x) \in Buffer
    BY <1>2, <1>3 DEF IInv, TypeOK
  <2>2. QED
    BY <1>3, <2>1 DEF IInv, TypeOK
<1>5. hashmap_get(x)' = hashmap_get(x)
  <2>1. CASE UNCHANGED <<map, size>>
    BY <2>1, SameTable
  <2>2. CASE /\ size \in Slot \ Valid
             /\ map' = [map EXCEPT ![size] = [valid |-> TRUE, key |-> k, value |-> b]]
    <3>1. map'[s] = map[s] /\ s \in Valid'
      BY <1>2, <2>2 DEF IInv, TypeOK, Valid
    <3>2. Reports'
      BY GetReports, PTL
    <3>3. hashmap_get(map[s].key)' = map'[s].value
      BY <3>1, <3>2 DEF Reports
    <3>4. QED
      BY <1>2, <3>1, <3>3
  <2>3. QED
    BY <1>3, <2>1, <2>2
<1>6. QED
  BY <1>4, <1>5

(***************************************************************************)
(* The steps of main that leave the table alone, the reply excepted.       *)
(***************************************************************************)
LEMMA TableUntouched ==
  ASSUME IInv, NoHoles, NoLeak, UNCHANGED <<table, heap, loop>>,
         status = "running", status' \in {"running", "exited"}
  PROVE  /\ IInv' /\ NoHoles' /\ NoLeak' /\ Valid' = Valid
         /\ \A k : Filled(k)' <=> Filled(k)
<1>1. UNCHANGED <<map, size, live, is_active, badFree, iterating, cursor, seen>>
  BY DEF table, heap, loop
<1>2. Valid' = Valid /\ \A k : hashmap_get(k)' = hashmap_get(k)
  BY <1>1, SameTable
<1>3. IInv'
  BY <1>1, <1>2 DEF IInv, TypeOK, SizeCountsValid, UniqueKeys, BuffersOwned
<1>4. NoHoles' /\ NoLeak'
  BY <1>1, <1>2 DEF NoHoles, NoLeak
<1>5. \A k : Filled(k)' <=> Filled(k)
  BY <1>1, <1>2 DEF Filled
<1>6. QED
  BY <1>2, <1>3, <1>4, <1>5

(***************************************************************************)
(* Looking a flow of the reply up, and creating it if it is unknown.       *)
(***************************************************************************)
LEMMA LookupPreserves ==
  ASSUME MainInv, NEW k \in Key, Lookup(k)
  PROVE  MainInv'
<1>1. /\ status = "running" /\ pc = "lookup" /\ pc' = "fill" /\ current' = k
      /\ UNCHANGED <<reply, todo, looping, present>>
  BY DEF Lookup, Goto
<1>2. CASE UNCHANGED vars
  <2>1. UNCHANGED <<table, heap, loop>> /\ status' = "running" /\ status' = status
    BY <1>1, <1>2 DEF vars, table, heap, loop
  <2>2. /\ IInv' /\ NoHoles' /\ NoLeak' /\ Valid' = Valid
        /\ \A x : Filled(x)' <=> Filled(x)
    BY <1>1, <2>1, TableUntouched DEF MainInv
  <2>3. MainTypeOK'
    BY <1>1, <2>2 DEF MainInv, MainTypeOK, IInv
  <2>4. RepliesFilled'
    BY <1>1, <2>2 DEF MainInv, RepliesFilled
  <2>5. RecordsActive'
    BY <1>1, <1>2, <2>2 DEF MainInv, RecordsActive, vars
  <2>6. QED
    BY <2>2, <2>3, <2>4, <2>5 DEF MainInv
<1>3. CASE hashmap_get(k) = NULL /\ hashmap_new(k)
  <2>1. IInv'
    BY <1>3, NewPreserves DEF MainInv
  <2>2. PICK b \in Buffer :
           /\ b \notin live /\ live' = live \cup {b}
           /\ is_active' = [is_active EXCEPT ![b] = FALSE]
           /\ \/ /\ size \in Slot \ Valid /\ size' = size + 1
                 /\ map' = [map EXCEPT ![size] = [valid |-> TRUE, key |-> k, value |-> b]]
                 /\ status' = status
              \/ /\ UNCHANGED <<map, size>>
                 /\ status' = "exited"
    BY <1>3, NewAppends DEF MainInv
  <2>3. \A x \in Key : Filled(x) => Filled(x)'
    BY <1>3, <2>1, NewKeeps DEF MainInv, Filled
  <2>4. RepliesFilled'
    <3>1. reply \ todo \subseteq Key
      BY DEF MainInv, MainTypeOK
    <3>2. QED
      BY <1>1, <2>3, <3>1 DEF MainInv, RepliesFilled
  <2>5. MainTypeOK'
    BY <1>1, <2>1 DEF MainInv, MainTypeOK, IInv
  <2>6. \A s \in Valid : s \in Slot /\ map[s].value \in live /\ map[s].value \in Buffer
    BY <1>1 DEF MainInv, IInv, TypeOK, BuffersOwned, Valid
  <2>7. \A s \in Valid : is_active'[map[s].value] = is_active[map[s].value]
    BY <2>2, <2>6 DEF MainInv, IInv, TypeOK
  <2>8. CASE UNCHANGED <<map, size>> /\ status' = "exited"
    <3>1. Valid' = Valid
      BY <2>8, SameTable
    <3>2. NoHoles' /\ NoLeak'
      BY <2>8, <3>1 DEF MainInv, NoHoles, NoLeak
    <3>3. RecordsActive'
      BY <1>1, <2>7, <2>8, <3>1 DEF MainInv, RecordsActive
    <3>4. QED
      BY <2>1, <2>4, <2>5, <3>2, <3>3 DEF MainInv
  <2>9. CASE /\ size \in Slot \ Valid /\ size' = size + 1
             /\ map' = [map EXCEPT ![size] = [valid |-> TRUE, key |-> k, value |-> b]]
             /\ status' = status
    <3>1. \A s \in Slot : map'[s] = IF s = size
                                    THEN [valid |-> TRUE, key |-> k, value |-> b]
                                    ELSE map[s]
      BY <2>9 DEF MainInv, IInv, TypeOK
    <3>2. Valid' = Valid \cup {size}
      BY <2>9, <3>1 DEF Valid
    <3>3. /\ \A s \in Valid : map'[s] = map[s]
          /\ map'[size].value = b /\ map'[size].key = k
      BY <2>6, <2>9, <3>1
    <3>4. NoHoles'
      <4>1. \A s \in Slot : s < size + 1 <=> s < size \/ s = size
        BY <2>9, HashMapAssumption DEF Slot
      <4>2. QED
        BY <2>9, <3>2, <4>1 DEF MainInv, NoHoles
    <3>5. NoLeak'
      <4>1. live = {map[s].value : s \in Valid}
        BY <1>1 DEF MainInv, NoLeak
      <4>2. {map'[s].value : s \in Valid'} = {map[s].value : s \in Valid} \cup {b}
        BY <3>2, <3>3
      <4>3. QED
        BY <1>1, <2>2, <2>9, <4>1, <4>2 DEF NoLeak
    <3>6. RecordsActive'
      BY <1>1, <2>7, <3>2, <3>3 DEF MainInv, RecordsActive
    <3>7. QED
      BY <2>1, <2>4, <2>5, <3>4, <3>5, <3>6 DEF MainInv
  <2>10. QED
    BY <2>2, <2>8, <2>9
<1>4. QED
  BY <1>2, <1>3 DEF Lookup

(***************************************************************************)
(* Adding a sample to the flow looked up.                                  *)
(***************************************************************************)
LEMMA FillPreserves ==
  ASSUME MainInv, FillCurrent
  PROVE  MainInv'
<1>1. /\ pc = "fill" /\ pc' = IF todo = {current} THEN "balance" ELSE "lookup"
      /\ todo' = todo \ {current}
      /\ UNCHANGED <<reply, current, looping, present>>
      /\ Fill(current)
  BY DEF FillCurrent, Goto
<1>2. /\ status = "running" /\ status' = status
      /\ hashmap_get(current) # NULL
      /\ is_active' = [is_active EXCEPT ![hashmap_get(current)] = TRUE]
      /\ UNCHANGED <<map, size, live, badFree, iterating, cursor, seen>>
  BY <1>1 DEF Fill, Idle, table, loop
<1>3. Valid' = Valid /\ \A k : hashmap_get(k)' = hashmap_get(k)
  BY <1>2, SameTable
<1>4. is_active \in [Buffer -> BOOLEAN]
  BY DEF MainInv, IInv, TypeOK
<1>5. \A b \in Buffer : is_active'[b] = (is_active[b] \/ b = hashmap_get(current))
  BY <1>2, <1>4
<1>6. IInv'
  BY <1>2, <1>3, <1>4
     DEF MainInv, IInv, TypeOK, SizeCountsValid, UniqueKeys, BuffersOwned
<1>7. MainTypeOK'
  BY <1>1, <1>6 DEF MainInv, MainTypeOK, IInv
<1>8. NoHoles' /\ NoLeak'
  BY <1>2, <1>3 DEF MainInv, NoHoles, NoLeak
<1>9. \A k \in Key : hashmap_get(k) # NULL => hashmap_get(k) \in Buffer
  BY <1>2, KnownHasSlot DEF MainInv, IInv, TypeOK
<1>10. RepliesFilled'
  <2>1. ASSUME NEW k \in reply, k \notin todo \/ k = current
        PROVE  Filled(k)'
    <3>1. k \in Key
      BY DEF MainInv, MainTypeOK
    <3>2. CASE k = current
      BY <1>2, <1>3, <1>5, <1>9, <3>1, <3>2 DEF Filled
    <3>3. CASE k \notin todo
      <4>1. Filled(k)
        BY <1>1, <3>3 DEF MainInv, RepliesFilled
      <4>2. QED
        BY <1>3, <1>5, <1>9, <3>1, <4>1 DEF Filled
    <3>4. QED
      BY <2>1, <3>2, <3>3
  <2>2. QED
    BY <1>1, <2>1 DEF RepliesFilled
<1>11. RecordsActive'
  <2>1. \A s \in Valid : map[s].value \in Buffer /\ hashmap_get(map[s].key) = map[s].value
    BY <1>2, GetReports DEF Reports, MainInv, IInv, TypeOK, BuffersOwned, Valid
  <2>2. QED
    BY <1>1, <1>2, <1>3, <1>5, <2>1 DEF MainInv, RecordsActive
<1>12. QED
  BY <1>6, <1>7, <1>8, <1>10, <1>11 DEF MainInv

(***************************************************************************)
(* The clean-up of the main loop finds no inactive record: nothing changes *)
(* in the table or the heap.                                               *)
(***************************************************************************)
LEMMA CleanupIdle ==
  ASSUME MainInv, Cleanup
  PROVE  /\ status = "running"
         /\ UNCHANGED <<map, size, live, badFree, is_active, status, loop>>
<1>1. /\ pc = "cleanup" /\ status = "running" /\ Invalidate(Inactive)
      /\ UNCHANGED <<status, loop>>
  BY DEF Cleanup, Goto, hashmap_cleanup_inactive_flows, Idle
<1>2. Inactive = {}
  BY <1>1 DEF MainInv, RecordsActive, Inactive
<1>3. Invalidate({})
  BY <1>1, <1>2
<1>4. map' = [s \in Slot |-> map[s]] /\ size' = size - Cardinality({}) /\ FreeValues({})
  BY <1>3 DEF Invalidate
<1>5. map' = map /\ size' = size
  BY <1>4, FS_EmptySet DEF MainInv, IInv, TypeOK
<1>6. live' = live /\ badFree' = badFree /\ is_active' = is_active
  BY <1>4 DEF FreeValues, MainInv, IInv, TypeOK
<1>7. QED
  BY <1>1, <1>5, <1>6

(***************************************************************************)
(* Destroying the table frees every buffer, each once.                     *)
(***************************************************************************)
LEMMA DestroyPreserves ==
  ASSUME MainInv, Destroy
  PROVE  MainInv'
<1>1. /\ pc' = "done" /\ status = "running" /\ status' = "destroyed"
      /\ FreeValues({s \in Slot : s < size})
      /\ UNCHANGED <<map, size, iterating, cursor, seen>>
      /\ UNCHANGED <<reply, todo, current, looping, present>>
  BY DEF Destroy, Goto, hashmap_destroy, Idle, table, loop
<1>2. FreeValues(Valid)
  BY <1>1 DEF MainInv, NoHoles
<1>3. \A s \in Valid : map[s].value \in live /\ map[s].value # NULL
  BY <1>1, HashMapAssumption DEF MainInv, IInv, TypeOK, BuffersOwned
<1>4. {s \in Valid : map[s].value # NULL} = Valid
  BY <1>3
<1>5. /\ live' = live \ {map[s].value : s \in Valid}
      /\ is_active' = is_active
      /\ badFree' = \/ badFree
                    \/ \E s \in Valid : map[s].value \notin live
                    \/ \E s, t \in Valid : s # t /\ map[s].value = map[t].value
  BY <1>2, <1>4 DEF FreeValues
<1>6. live' = {}
  BY <1>1, <1>5 DEF MainInv, NoLeak
<1>7. badFree' = FALSE
  BY <1>1, <1>3, <1>5 DEF MainInv, IInv, TypeOK, BuffersOwned
<1>8. Valid' = Valid
  BY <1>1, SameTable
<1>9. IInv'
  BY <1>1, <1>5, <1>6, <1>7, <1>8
     DEF MainInv, IInv, TypeOK, SizeCountsValid, UniqueKeys, BuffersOwned
<1>10. MainTypeOK'
  BY <1>1, <1>9 DEF MainInv, MainTypeOK, IInv
<1>11. NoHoles' /\ NoLeak'
  BY <1>1, <1>6, <1>7, <1>8 DEF MainInv, NoHoles, NoLeak
<1>12. RepliesFilled'
  BY <1>1 DEF RepliesFilled
<1>13. RecordsActive'
  BY <1>1, <1>5, <1>8 DEF MainInv, RecordsActive, Destroy, Goto
<1>14. QED
  BY <1>9, <1>10, <1>11, <1>12, <1>13 DEF MainInv

(***************************************************************************)
(* Every step of the program and of the switch keeps the invariant.        *)
(***************************************************************************)
LEMMA MainStepPreserves == MainInv /\ [MainNext]_allVars => MainInv'
<1> SUFFICES ASSUME MainInv, [MainNext]_allVars
             PROVE  MainInv'
  OBVIOUS
<1>1. ASSUME UNCHANGED <<table, heap, loop>>,
             status = "running", status' \in {"running", "exited"},
             MainTypeOK', RepliesFilled', pc = "fill" => pc' = "fill" /\ current' = current
      PROVE  MainInv'
  <2>1. /\ IInv' /\ NoHoles' /\ NoLeak' /\ Valid' = Valid
    BY <1>1, TableUntouched DEF MainInv
  <2>2. RecordsActive'
    BY <1>1, <2>1 DEF MainInv, RecordsActive, table, heap
  <2>3. QED
    BY <1>1, <2>1, <2>2 DEF MainInv
<1>2. ASSUME UNCHANGED <<table, heap, loop>>,
             status = "running", status' \in {"running", "exited"}
      PROVE  TypeOK' /\ \A k : Filled(k)' <=> Filled(k)
  BY <1>2, TableUntouched DEF MainInv, IInv
<1>3. UNCHANGED vars => UNCHANGED <<table, heap, loop>> /\ status' = status
  BY DEF vars, table, heap, loop
<1>4. CASE Poll
  <2>1. /\ pc = "poll" /\ pc' = IF present = {} THEN "balance" ELSE "lookup"
        /\ reply' = present /\ todo' = present
        /\ status = "running" /\ UNCHANGED <<vars, current, looping, present>>
    BY <1>4 DEF Poll, Goto
  <2>2. MainTypeOK'
    BY <1>2, <1>3, <2>1 DEF MainInv, MainTypeOK
  <2>3. RepliesFilled'
    BY <2>1 DEF RepliesFilled
  <2>4. QED
    BY <1>1, <1>3, <2>1, <2>2, <2>3
<1>5. ASSUME NEW k \in Key, Lookup(k)
      PROVE  MainInv'
  BY <1>5, LookupPreserves
<1>6. CASE FillCurrent
  BY <1>6, FillPreserves
<1>7. CASE Balance
  <2>1. /\ pc = "balance" /\ pc' = "cleanup" /\ status = "running"
        /\ UNCHANGED <<vars, reply, todo, current, looping, present>>
    BY <1>7 DEF Balance, Goto
  <2>2. MainTypeOK' /\ RepliesFilled'
    BY <1>2, <1>3, <2>1 DEF MainInv, MainTypeOK, RepliesFilled
  <2>3. QED
    BY <1>1, <1>3, <2>1, <2>2
<1>8. CASE Cleanup
  <2>1. /\ pc = "cleanup" /\ pc' = "test"
        /\ UNCHANGED <<reply, todo, current, looping, present>>
    BY <1>8 DEF Cleanup, Goto
  <2>2. /\ status = "running" /\ status' = status
        /\ UNCHANGED <<table, heap, loop>>
    BY <1>8, CleanupIdle DEF table, heap
  <2>3. MainTypeOK' /\ RepliesFilled'
    BY <1>2, <2>1, <2>2 DEF MainInv, MainTypeOK, RepliesFilled
  <2>4. QED
    BY <1>1, <2>1, <2>2, <2>3
<1>9. CASE Test
  <2>1. /\ pc = "test" /\ pc' = IF looping THEN "poll" ELSE "destroy"
        /\ status = "running"
        /\ UNCHANGED <<vars, reply, todo, current, looping, present>>
    BY <1>9 DEF Test, Goto
  <2>2. MainTypeOK' /\ RepliesFilled'
    BY <1>2, <1>3, <2>1 DEF MainInv, MainTypeOK, RepliesFilled
  <2>3. QED
    BY <1>1, <1>3, <2>1, <2>2
<1>10. CASE Destroy
  BY <1>10, DestroyPreserves
<1>11. CASE Interrupt
  <2>1. /\ status = "running" /\ status' \in {"running", "exited"}
        /\ looping' \in BOOLEAN
        /\ UNCHANGED <<table, heap, loop, pc, reply, todo, current, present>>
    BY <1>11 DEF Interrupt, MainInv, MainTypeOK
  <2>2. MainTypeOK' /\ RepliesFilled'
    BY <1>2, <2>1 DEF MainInv, MainTypeOK, RepliesFilled
  <2>3. QED
    BY <1>1, <2>1, <2>2
<1>12. ASSUME NEW k \in Key, Appear(k) \/ Disappear(k)
       PROVE  MainInv'
  <2>1. /\ status = "running" /\ present' \subseteq Key
        /\ UNCHANGED <<vars, pc, reply, todo, current, looping>>
    BY <1>12 DEF Appear, Disappear, MainInv, MainTypeOK
  <2>2. MainTypeOK' /\ RepliesFilled'
    BY <1>2, <1>3, <2>1 DEF MainInv, MainTypeOK, RepliesFilled
  <2>3. QED
    BY <1>1, <1>3, <2>1, <2>2
<1>13. CASE UNCHANGED allVars
  <2>1. UNCHANGED <<map, size, live, is_active, status, badFree, iterating, cursor, seen>>
    BY <1>13 DEF allVars, vars
  <2>2. UNCHANGED <<pc, reply, todo, current, looping, present>>
    BY <1>13 DEF allVars, mainVars
  <2>3. Valid' = Valid /\ \A k : hashmap_get(k)' = hashmap_get(k)
    BY <2>1, SameTable
  <2>4. IInv' /\ NoHoles' /\ NoLeak'
    BY <2>1, <2>3 DEF MainInv, IInv, TypeOK, SizeCountsValid, UniqueKeys, BuffersOwned,
                      NoHoles, NoLeak
  <2>5. MainTypeOK' /\ RecordsActive'
    BY <2>1, <2>2, <2>3, <2>4 DEF MainInv, MainTypeOK, IInv, RecordsActive
  <2>6. RepliesFilled'
    BY <2>1, <2>2, <2>3 DEF MainInv, RepliesFilled, Filled
  <2>7. QED
    BY <2>4, <2>5, <2>6 DEF MainInv
<1>14. QED
  BY <1>4, <1>5, <1>6, <1>7, <1>8, <1>9, <1>10, <1>11, <1>12, <1>13 DEF MainNext
-----------------------------------------------------------------------------
(***************************************************************************)
(* The invariant holds at every point of the program, wherever a SIGINT    *)
(* arrives and whatever flows come and go in the switch.                   *)
(***************************************************************************)
THEOREM MainInvariant == MainSpec => []MainInv
BY MainInitEstablishes, MainStepPreserves, PTL DEF MainSpec

(***************************************************************************)
(* The program's variables keep their types, and get_migrations only has   *)
(* flows of the reply before it.                                           *)
(***************************************************************************)
THEOREM MainTypeCorrect == MainSpec => []MainTypeOK
<1>1. MainInv => MainTypeOK
  BY DEF MainInv
<1>2. QED
  BY <1>1, MainInvariant, PTL

(***************************************************************************)
(* The main loop never makes a hole in the table, although it runs the     *)
(* clean-up every round: no flow is hidden from hashmap_get_next.          *)
(***************************************************************************)
THEOREM TableHasNoHoles == MainSpec => []NoHoles
<1>1. MainInv => NoHoles
  BY DEF MainInv
<1>2. QED
  BY <1>1, MainInvariant, PTL

(***************************************************************************)
(* While the program runs every ring buffer is reachable from the table,   *)
(* and main leaves with all of them freed, each once.                      *)
(***************************************************************************)
THEOREM NothingLeaks == MainSpec => []NoLeak
<1>1. MainInv => NoLeak
  BY DEF MainInv
<1>2. QED
  BY <1>1, MainInvariant, PTL

(***************************************************************************)
(* The balancer finds every flow of the reply in the table, with a sample. *)
(***************************************************************************)
THEOREM BalancerSeesReply == MainSpec => []RepliedFlowsFilled
<1>1. MainInv => RepliedFlowsFilled
  BY DEF MainInv, RepliesFilled, RepliedFlowsFilled, Filled
<1>2. QED
  BY <1>1, MainInvariant, PTL

(***************************************************************************)
(* No step of the program gives a tracked flow another record: its core    *)
(* and its samples last as long as the table.                              *)
(***************************************************************************)
THEOREM FlowsKeepTheirRecord == MainSpec => RecordKept
<1> DEFINE Kept == \A k \in Key : hashmap_get(k) # NULL => hashmap_get(k)' = hashmap_get(k)
<1>1. MainInv /\ MainInv' /\ [MainNext]_allVars => [Kept]_allVars
  <2> SUFFICES ASSUME MainInv, MainInv', MainNext
               PROVE  Kept
    OBVIOUS
  <2>1. ASSUME UNCHANGED <<map, size>>
        PROVE  Kept
    BY <2>1, SameTable
  <2>2. ASSUME NEW k \in Key, Lookup(k)
        PROVE  Kept
    <3>1. CASE UNCHANGED vars
      BY <2>1, <3>1 DEF vars
    <3>2. CASE hashmap_get(k) = NULL /\ hashmap_new(k)
      BY <3>2, NewKeeps DEF MainInv
    <3>3. QED
      BY <2>2, <3>1, <3>2 DEF Lookup
  <2>3. CASE Poll \/ Balance \/ Test
    BY <2>1, <2>3 DEF Poll, Balance, Test, vars
  <2>4. CASE FillCurrent
    BY <2>1, <2>4 DEF FillCurrent, Fill, table
  <2>5. CASE Cleanup
    BY <2>1, <2>5, CleanupIdle
  <2>6. CASE Destroy \/ Interrupt
    BY <2>1, <2>6 DEF Destroy, hashmap_destroy, Interrupt, table
  <2>7. ASSUME NEW k \in Key, Appear(k) \/ Disappear(k)
        PROVE  Kept
    BY <2>1, <2>7 DEF Appear, Disappear, vars
  <2>8. QED
    BY <2>2, <2>3, <2>4, <2>5, <2>6, <2>7 DEF MainNext
<1>2. QED
  BY <1>1, MainInvariant, PTL DEF MainSpec, RecordKept
=============================================================================
