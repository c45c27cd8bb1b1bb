----------------------------- MODULE XdpProofs -----------------------------
(***************************************************************************)
(* Proofs about Xdp, for any number of CPUs, addresses and elements of the *)
(* map: no mark of a packet is lost, whatever the CPUs do at a time.       *)
(***************************************************************************)
EXTENDS Xdp, TLAPS

Marks == {"SYN", "SYNACK", "ACK"}
Keys  == Remote \X Local \X {"TCP", "UDP"}
Jobs  == [tuple : Tuple, state : SUBSET Marks, found : BOOLEAN]
Slots == [CPU -> SUBSET Marks]

(***************************************************************************)
(* An update under way is of a record that is kept: one it has found is    *)
(* still there, and in one that has come since, its own CPU has no marks.  *)
(***************************************************************************)
JobOK(cpu) ==
  LET t == running[cpu].tuple
  IN  /\ t \in Keys
      /\ running[cpu].found => connections[t] # NONE
      /\ ~running[cpu].found /\ connections[t] # NONE => connections[t][cpu] = {}

IInv ==
  /\ TypeOK
  /\ OneRecordPerConnection
  /\ \A cpu \in CPU : running[cpu] # NONE => JobOK(cpu)
-----------------------------------------------------------------------------
LEMMA KeysAreTuples ==
  /\ Keys \subseteq Tuple
  /\ \A t \in Tuple : t \in Keys <=> <<t[1], t[2]>> \in Remote \X Local
  BY DEF Keys, Tuple, End

LEMMA StateTyped == \A flags : State(flags) \in SUBSET Marks
  BY DEF State, Marks

(***************************************************************************)
(* A packet that is not ignored is of one of the two protocols.            *)
(***************************************************************************)
LEMMA ProtoKnown ==
  \A p \in Packets : ~Ignored(parse_headers(p)) => p.proto \in {"TCP", "UDP"}
<1> SUFFICES ASSUME NEW p \in Packets, p.proto = "other"
             PROVE  Ignored(parse_headers(p))
  BY DEF Packets
<1>1. CASE p.long
  BY <1>1 DEF parse_headers, Ignored
<1>2. CASE ~p.long
  BY <1>2 DEF parse_headers, Ignored
<1>3. QED
  BY <1>1, <1>2 DEF Packets

(***************************************************************************)
(* Either program looks up the record of the packet's connection, and      *)
(* nothing else changes.                                                   *)
(***************************************************************************)
LEMMA LooksUp ==
  ASSUME TypeOK, NEW cpu \in CPU, NEW r \in Remote, NEW l \in Local, NEW p \in Packets,
         xdp_rx(cpu, r, l, p) \/ xdp_tx(cpu, l, r, p)
  PROVE  /\ UNCHANGED connections /\ running[cpu] = NONE
         /\ \E t \in Keys, state \in SUBSET Marks : Lookup(cpu, t, state)
<1>1. p.proto \in {"TCP", "UDP"}
  BY ProtoKnown DEF xdp_rx, xdp_tx
<1>2. <<r, l, p.proto>> \in Keys
  BY <1>1 DEF Keys
<1>3. swap_tuple(<<l, r, p.proto>>) = <<r, l, p.proto>>
  BY DEF swap_tuple
<1>4. QED
  BY <1>2, <1>3, StateTyped DEF xdp_rx, xdp_tx

LEMMA LookupKeeps ==
  ASSUME IInv, NEW cpu \in CPU, running[cpu] = NONE, UNCHANGED connections,
         NEW t \in Keys, NEW state \in SUBSET Marks, Lookup(cpu, t, state)
  PROVE  IInv'
<1> DEFINE job == [tuple |-> t, state |-> state, found |-> connections[t] # NONE]
<1>1. running' = [running EXCEPT ![cpu] = job]
  BY DEF Lookup
<1>2. job \in Jobs
  <2>1. (connections[t] # NONE) \in BOOLEAN
    BY Zenon
  <2>2. t \in Tuple
    BY KeysAreTuples
  <2>3. QED
    BY <2>1, <2>2, Zenon DEF Jobs
<1>3. running \in [CPU -> Jobs \cup {NONE}]
  BY Zenon DEF IInv, TypeOK, Jobs, Marks
<1>4. running' \in [CPU -> Jobs \cup {NONE}]
  BY <1>1, <1>2, <1>3
<1>5. TypeOK'
  BY <1>4 DEF IInv, TypeOK, Jobs, Marks
<1>6. ASSUME NEW c \in CPU, running'[c] # NONE PROVE JobOK(c)'
  <2>1. CASE c = cpu
    <3>1. running'[c] = job
      BY <1>1, <1>3, <2>1
    <3>2. /\ job.tuple = t /\ (job.found <=> connections[t] # NONE)
      BY Zenon
    <3>3. QED
      BY <3>1, <3>2 DEF JobOK
  <2>2. CASE c # cpu
    <3>1. running'[c] = running[c]
      BY <1>1, <1>3, <2>2
    <3>2. JobOK(c)
      BY <1>6, <3>1 DEF IInv
    <3>3. QED
      BY <3>1, <3>2 DEF JobOK
  <2>3. QED
    BY <2>1, <2>2
<1>7. OneRecordPerConnection'
  BY DEF IInv, OneRecordPerConnection
<1>8. QED
  BY <1>5, <1>6, <1>7 DEF IInv
-----------------------------------------------------------------------------
Present == {u \in Tuple : connections[u] # NONE}

\* The record of t when its slot of cpu has got the marks.
Marked(t, cpu, marks) == [connections[t] EXCEPT ![cpu] = @ \cup marks]
Fresh(cpu, marks)     == [c \in CPU |-> IF c = cpu THEN marks ELSE {}]

(***************************************************************************)
(* What an update does: stale or not, its lookup makes no difference.      *)
(***************************************************************************)
LEMMA Updates ==
  ASSUME IInv, NEW cpu \in CPU, Update(cpu)
  PROVE  /\ running[cpu] \in Jobs /\ running[cpu] # NONE /\ running[cpu].tuple \in Keys
         /\ running' = [running EXCEPT ![cpu] = NONE]
         /\ LET t     == running[cpu].tuple
                marks == running[cpu].state
            IN  \/ /\ connections[t] # NONE
                   /\ connections' = [connections EXCEPT ![t] = Marked(t, cpu, marks)]
                \/ /\ connections[t] = NONE /\ Cardinality(Present) < max_entries
                   /\ connections' = [connections EXCEPT ![t] = Fresh(cpu, marks)]
                \/ /\ connections[t] = NONE /\ Cardinality(Present) >= max_entries
                   /\ UNCHANGED connections
<1> DEFINE t == running[cpu].tuple  marks == running[cpu].state
<1>1. /\ running[cpu] \in Jobs /\ running[cpu] # NONE /\ t \in Keys /\ JobOK(cpu)
      /\ running' = [running EXCEPT ![cpu] = NONE]
  <2>1. running[cpu] \in Jobs \cup {NONE}
    BY Zenon DEF IInv, TypeOK, Jobs, Marks
  <2>2. running[cpu] # NONE /\ running' = [running EXCEPT ![cpu] = NONE]
    BY DEF Update
  <2>3. QED
    BY <2>1, <2>2 DEF IInv, JobOK
<1>2. CASE connections[t] # NONE
  <2>1. connections' = [connections EXCEPT ![t][cpu] =
          IF running[cpu].found THEN Merge(@, marks) ELSE marks]
    BY <1>2 DEF Update
  <2>2. t \in Tuple
    BY <1>1, KeysAreTuples
  <2>3. connections[t] \in Slots
    BY <1>2, <2>2 DEF IInv, TypeOK, Slots, Marks
  <2>4. (IF running[cpu].found THEN Merge(connections[t][cpu], marks) ELSE marks)
          = connections[t][cpu] \cup marks
    BY <1>1, <1>2, <2>3 DEF JobOK, Merge, Jobs
  <2>5. QED
    BY <1>1, <1>2, <2>1, <2>4 DEF Marked
<1>3. CASE connections[t] = NONE
  BY <1>1, <1>3 DEF Update, Present, Fresh
<1>4. QED
  BY <1>1, <1>2, <1>3

LEMMA RecordsTyped ==
  ASSUME IInv, NEW cpu \in CPU, NEW t \in Tuple, NEW marks \in SUBSET Marks
  PROVE  /\ connections \in [Tuple -> Slots \cup {NONE}] /\ NONE \notin Slots
         /\ Fresh(cpu, marks) \in Slots
         /\ connections[t] # NONE => Marked(t, cpu, marks) \in Slots
<1>1. connections \in [Tuple -> Slots \cup {NONE}]
  BY DEF IInv, TypeOK, Slots, Marks
<1>2. NONE \notin Slots
  BY XdpAssumption DEF Slots, Marks
<1>3. Fresh(cpu, marks) \in Slots
  BY DEF Fresh, Slots
<1>4. ASSUME connections[t] # NONE PROVE Marked(t, cpu, marks) \in Slots
  BY <1>1, <1>4 DEF Marked, Slots
<1>5. QED
  BY <1>1, <1>2, <1>3, <1>4

LEMMA UpdateKeeps ==
  ASSUME IInv, NEW cpu \in CPU, Update(cpu)
  PROVE  IInv'
<1> DEFINE t == running[cpu].tuple  marks == running[cpu].state
<1>1. /\ t \in Keys /\ t \in Tuple /\ marks \in SUBSET Marks
      /\ running' = [running EXCEPT ![cpu] = NONE]
  BY Updates, KeysAreTuples DEF Jobs
<1>2. /\ connections \in [Tuple -> Slots \cup {NONE}] /\ NONE \notin Slots
      /\ Fresh(cpu, marks) \in Slots
      /\ connections[t] # NONE => Marked(t, cpu, marks) \in Slots
  BY <1>1, RecordsTyped
<1>3. \/ UNCHANGED connections
      \/ connections[t] # NONE /\ connections' = [connections EXCEPT ![t] = Marked(t, cpu, marks)]
      \/ connections[t] = NONE /\ connections' = [connections EXCEPT ![t] = Fresh(cpu, marks)]
  BY Updates
<1>4. connections' \in [Tuple -> Slots \cup {NONE}]
  BY <1>1, <1>2, <1>3
<1>5. \A u \in Tuple : u # t => connections'[u] = connections[u]
  BY <1>2, <1>3
<1>6. TypeOK'
  <2>1. running \in [CPU -> Jobs \cup {NONE}]
    BY Zenon DEF IInv, TypeOK, Jobs, Marks
  <2>2. running' \in [CPU -> Jobs \cup {NONE}]
    BY <1>1, <2>1
  <2>3. QED
    BY <1>4, <2>2 DEF TypeOK, Slots, Jobs, Marks
<1>7. OneRecordPerConnection'
  <2>1. ASSUME NEW u \in Tuple, connections'[u] # NONE
        PROVE  <<u[1], u[2]>> \in Remote \X Local
    <3>1. CASE u = t
      BY <1>1, <3>1, KeysAreTuples
    <3>2. CASE u # t
      BY <1>5, <2>1, <3>2 DEF IInv, OneRecordPerConnection
    <3>3. QED
      BY <3>1, <3>2
  <2>2. QED
    BY <2>1 DEF OneRecordPerConnection
<1>8. ASSUME NEW c \in CPU, running'[c] # NONE PROVE JobOK(c)'
  <2>1. c # cpu /\ running'[c] = running[c]
    BY <1>1, <1>8 DEF IInv, TypeOK
  <2>2. JobOK(c)
    BY <1>8, <2>1 DEF IInv
  <2>3. CASE running[c].tuple # t
    BY <1>5, <2>1, <2>2, <2>3, KeysAreTuples DEF JobOK
  <2>4. CASE running[c].tuple = t
    <3>1. /\ connections[t] # NONE => connections'[t] # NONE
          /\ connections[t] # NONE => connections'[t][c] = connections[t][c]
      BY <1>1, <1>2, <1>3, <2>1 DEF Marked, Slots
    <3>2. connections[t] = NONE /\ connections'[t] # NONE => connections'[t][c] = {}
      BY <1>1, <1>2, <1>3, <2>1 DEF Fresh
    <3>3. QED
      BY <2>1, <2>2, <2>4, <3>1, <3>2 DEF JobOK
  <2>5. QED
    BY <2>3, <2>4
<1>9. QED
  BY <1>6, <1>7, <1>8 DEF IInv

(***************************************************************************)
(* The invariant holds at the start and every step keeps it.               *)
(***************************************************************************)
LEMMA InitHolds == Init => IInv
  BY DEF Init, IInv, TypeOK, OneRecordPerConnection

LEMMA NextHolds == IInv /\ [Next]_vars => IInv'
<1> SUFFICES ASSUME IInv, [Next]_vars PROVE IInv'
  OBVIOUS
<1>1. CASE UNCHANGED vars
  BY <1>1 DEF vars, IInv, TypeOK, OneRecordPerConnection, JobOK
<1>2. ASSUME NEW cpu \in CPU, Update(cpu) PROVE IInv'
  BY <1>2, UpdateKeeps
<1>3. ASSUME NEW cpu \in CPU, NEW r \in Remote, NEW l \in Local, NEW p \in Packets,
             xdp_rx(cpu, r, l, p) \/ xdp_tx(cpu, l, r, p)
      PROVE  IInv'
  <2>1. /\ UNCHANGED connections /\ running[cpu] = NONE
        /\ \E t \in Keys, state \in SUBSET Marks : Lookup(cpu, t, state)
    BY <1>3, LooksUp DEF IInv
  <2>2. QED
    BY <2>1, LookupKeeps
<1>4. QED
  BY <1>1, <1>2, <1>3 DEF Next

LEMMA Invariant == Spec => []IInv
  BY InitHolds, NextHolds, PTL DEF Spec
-----------------------------------------------------------------------------
(***************************************************************************)
(* The map and the updates under way stay in their types.                  *)
(***************************************************************************)
THEOREM TypeCorrect == Spec => []TypeOK
<1>1. IInv => TypeOK
  BY DEF IInv
<1>2. QED
  BY <1>1, Invariant, PTL

(***************************************************************************)
(* Both directions of a connection share the record of the packets from    *)
(* the network (swap_tuple in xdp_tx).                                *)
(***************************************************************************)
THEOREM OneRecord == Spec => []OneRecordPerConnection
<1>1. IInv => OneRecordPerConnection
  BY DEF IInv
<1>2. QED
  BY <1>1, Invariant, PTL
-----------------------------------------------------------------------------
(***************************************************************************)
(* What user space collects shows a record exactly when there is one, and  *)
(* as many as the map holds.                                               *)
(***************************************************************************)
LEMMA CollectedShows ==
  ASSUME IInv
  PROVE  /\ \A k \in Keys : Collected[k] # NONE <=> connections[k] # NONE
         /\ Abstract!Recorded = Present
<1>1. ASSUME NEW k \in Keys PROVE Collected[k] # NONE <=> connections[k] # NONE
  <2>1. Collected[k] = IF connections[k] = NONE THEN NONE
                       ELSE UNION {connections[k][c] : c \in CPU}
    BY DEF Collected, Keys
  <2>2. CASE connections[k] # NONE
    <3>1. connections[k] \in Slots
      BY <2>2, KeysAreTuples DEF IInv, TypeOK, Slots, Marks
    <3>2. UNION {connections[k][c] : c \in CPU} \in SUBSET Marks
      BY <3>1 DEF Slots
    <3>3. QED
      BY <2>1, <2>2, <3>2, XdpAssumption DEF Marks
  <2>3. CASE connections[k] = NONE
    BY <2>1, <2>3
  <2>4. QED
    BY <2>2, <2>3
<1>2. Abstract!Recorded = Present
  <2>1. Abstract!Recorded = {k \in Keys : Collected[k] # NONE}
    BY DEF Abstract!Recorded, Abstract!Connection, Keys
  <2>2. Present \subseteq Keys
    BY KeysAreTuples DEF Present, IInv, OneRecordPerConnection
  <2>3. QED
    BY <1>1, <2>1, <2>2, KeysAreTuples DEF Present
<1>3. QED
  BY <1>1, <1>2

LEMMA SameCardinality == \A S : Abstract!Cardinality(S) = Cardinality(S)
  BY Zenon DEF Abstract!Cardinality, Cardinality

(***************************************************************************)
(* An update of the map is one packet that passes.                         *)
(***************************************************************************)
LEMMA UpdateIsPass ==
  ASSUME IInv, NEW cpu \in CPU, Update(cpu)
  PROVE  Abstract!Pass(running[cpu].tuple, running[cpu].state)
<1> DEFINE t == running[cpu].tuple  marks == running[cpu].state
<1>1. t \in Keys /\ t \in Tuple /\ marks \in SUBSET Marks
  BY Updates, KeysAreTuples DEF Jobs
<1>2. /\ connections \in [Tuple -> Slots \cup {NONE}] /\ NONE \notin Slots
      /\ Fresh(cpu, marks) \in Slots
      /\ connections[t] # NONE => Marked(t, cpu, marks) \in Slots
  BY <1>1, RecordsTyped
<1>3. /\ Collected[t] # NONE <=> connections[t] # NONE
      /\ Abstract!Recorded = Present
      /\ t \in Present <=> connections[t] # NONE
  BY <1>1, CollectedShows DEF Present
<1>4. Collected = [k \in Keys |-> IF connections[k] = NONE THEN NONE
                                  ELSE UNION {connections[k][c] : c \in CPU}]
  BY DEF Collected, Keys
<1>5. Collected' = [k \in Keys |-> IF connections'[k] = NONE THEN NONE
                                   ELSE UNION {connections'[k][c] : c \in CPU}]
  BY DEF Collected, Keys
<1>6. CASE /\ connections[t] # NONE
           /\ connections' = [connections EXCEPT ![t] = Marked(t, cpu, marks)]
  <2>1. connections'[t] = Marked(t, cpu, marks) /\ connections'[t] # NONE
    BY <1>1, <1>2, <1>6
  <2>2. \A k \in Keys : k # t => connections'[k] = connections[k]
    BY <1>2, <1>6, KeysAreTuples
  <2>3. UNION {connections'[t][c] : c \in CPU} = Collected[t] \cup marks
    <3>1. Collected[t] = UNION {connections[t][c] : c \in CPU}
      BY <1>1, <1>4, <1>6
    <3>2. connections'[t][cpu] = connections[t][cpu] \cup marks
      BY <1>1, <1>2, <1>6, <2>1 DEF Marked, Slots
    <3>3. \A c \in CPU : c # cpu => connections'[t][c] = connections[t][c]
      BY <1>1, <1>2, <1>6, <2>1 DEF Marked, Slots
    <3>4. QED
      BY <3>1, <3>2, <3>3
  <2>4. Collected' = [Collected EXCEPT ![t] = @ \cup marks]
    <3>1. ASSUME NEW k \in Keys
          PROVE  Collected'[k] = IF k = t THEN Collected[t] \cup marks ELSE Collected[k]
      <4>1. CASE k = t
        BY <1>5, <2>1, <2>3, <4>1
      <4>2. CASE k # t
        <5>1. connections'[k] = connections[k]
          BY <2>2, <4>2
        <5>2. QED
          BY <1>4, <1>5, <4>2, <5>1
      <4>3. QED
        BY <4>1, <4>2
    <3>2. QED
      BY <1>4, <1>5, <3>1
  <2>5. QED
    BY <1>3, <1>6, <2>4 DEF Abstract!Pass
<1>7. CASE /\ connections[t] = NONE /\ Cardinality(Present) < max_entries
           /\ connections' = [connections EXCEPT ![t] = Fresh(cpu, marks)]
  <2>1. connections'[t] = Fresh(cpu, marks) /\ connections'[t] # NONE
    BY <1>1, <1>2, <1>7
  <2>2. \A k \in Keys : k # t => connections'[k] = connections[k]
    BY <1>2, <1>7, KeysAreTuples
  <2>3. UNION {connections'[t][c] : c \in CPU} = marks
    BY <2>1 DEF Fresh
  <2>4. Collected' = [Collected EXCEPT ![t] = marks]
    <3>1. ASSUME NEW k \in Keys
          PROVE  Collected'[k] = IF k = t THEN marks ELSE Collected[k]
      <4>1. CASE k = t
        BY <1>5, <2>1, <2>3, <4>1
      <4>2. CASE k # t
        <5>1. connections'[k] = connections[k]
          BY <2>2, <4>2
        <5>2. QED
          BY <1>4, <1>5, <4>2, <5>1
      <4>3. QED
        BY <4>1, <4>2
    <3>2. QED
      BY <1>4, <1>5, <3>1
  <2>5. t \notin Abstract!Recorded /\ Abstract!Cardinality(Abstract!Recorded) < max_entries
    BY <1>3, <1>7, SameCardinality, Zenon
  <2>6. QED
    BY <2>4, <2>5, Zenon DEF Abstract!Pass
<1>8. CASE connections[t] = NONE /\ Cardinality(Present) >= max_entries /\ UNCHANGED connections
  <2>1. UNCHANGED Collected
    BY <1>4, <1>5, <1>8
  <2>2. t \notin Abstract!Recorded /\ Abstract!Cardinality(Abstract!Recorded) >= max_entries
    BY <1>3, <1>8, SameCardinality, Zenon
  <2>3. QED
    BY <2>1, <2>2, Zenon DEF Abstract!Pass
<1>9. QED
  BY <1>6, <1>7, <1>8, Updates

(***************************************************************************)
(* The programs of all CPUs together lose no mark: each update leaves its  *)
(* own beside those of the others, stale as its lookup may be.             *)
(***************************************************************************)
THEOREM KeepsAllMarks == Spec => ImplementsConnTrack
<1>1. Init => Abstract!Init
  <2> SUFFICES ASSUME Init PROVE Abstract!Init
    OBVIOUS
  <2>1. ASSUME NEW k \in Keys PROVE connections[k] = NONE
    BY KeysAreTuples DEF Init
  <2>2. QED
    BY <2>1 DEF Abstract!Init, Abstract!Connection, Collected, Keys
<1>2. IInv /\ [Next]_vars =>
        [\/ \E cpu \in CPU :
              Ends(cpu) /\ Abstract!Pass(running[cpu].tuple, running[cpu].state)
         \/ (\A cpu \in CPU : ~Ends(cpu)) /\ UNCHANGED Collected]_vars
  <2> SUFFICES ASSUME IInv, Next
               PROVE  \/ \E cpu \in CPU :
                           Ends(cpu) /\ Abstract!Pass(running[cpu].tuple, running[cpu].state)
                      \/ (\A cpu \in CPU : ~Ends(cpu)) /\ UNCHANGED Collected
    OBVIOUS
  <2>1. ASSUME NEW cpu \in CPU, Update(cpu)
        PROVE  Ends(cpu) /\ Abstract!Pass(running[cpu].tuple, running[cpu].state)
    <3>1. Ends(cpu)
      BY <2>1, Updates DEF IInv, TypeOK, Ends
    <3>2. QED
      BY <2>1, <3>1, UpdateIsPass
  <2>2. ASSUME NEW cpu \in CPU, NEW r \in Remote, NEW l \in Local, NEW p \in Packets,
               xdp_rx(cpu, r, l, p) \/ xdp_tx(cpu, l, r, p)
        PROVE  (\A c \in CPU : ~Ends(c)) /\ UNCHANGED Collected
    <3>1. /\ UNCHANGED connections /\ running[cpu] = NONE
          /\ \E t \in Keys, state \in SUBSET Marks : Lookup(cpu, t, state)
      BY <2>2, LooksUp DEF IInv
    <3>2. \A c \in CPU : c # cpu => running'[c] = running[c]
      BY <3>1 DEF Lookup, IInv, TypeOK
    <3>3. UNCHANGED Collected
      BY <3>1 DEF Collected
    <3>4. QED
      BY <3>1, <3>2, <3>3 DEF Ends
  <2>3. QED
    BY <2>1, <2>2 DEF Next
<1>3. QED
  BY <1>1, <1>2, Invariant, PTL DEF Spec, ImplementsConnTrack
=============================================================================
