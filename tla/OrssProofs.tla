----------------------------- MODULE OrssProofs -----------------------------
(***************************************************************************)
(* Proofs about Orss, for every set of flows and cores and every bound:    *)
(* where the program and the switch agree, whatever the interleaving of    *)
(* the program, the controller and the switch.                             *)
(***************************************************************************)
EXTENDS Orss, SequenceTheorems, TLAPS

Queues == Seq(Messages)
IsMod(m, f) == m.type = "FLOW_MOD" /\ m.flow = f

(***************************************************************************)
(* The state of one flow.  The last migration to be applied is to its core *)
(* even when an earlier one was lost, the last one on the way too unless   *)
(* one was, and nothing is under way for a flow that is not known.         *)
(***************************************************************************)
MovesLast(f) ==
  Mods(migrations, f) # {} => LastIs(migrations, f, assigned_core[f])

SentLast(f) ==
  f \notin lost /\ Mods(migrations, f) = {} /\ Mods(toSwitch, f) # {}
    => LastIs(toSwitch, f, assigned_core[f])

Obeyed(f) ==
  /\ f \notin lost \cup disturbed \cup Icmp
  /\ Mods(migrations, f) = {} /\ Mods(toSwitch, f) = {}
  => EntriesIn(f, {assigned_core[f]})

Untouched(f) ==
  /\ Mods(migrations, f) = {} /\ Mods(toSwitch, f) = {}
  /\ f \in disturbed \/ EntriesIn(f, {0})

FlowOK(f) ==
  /\ f \in Tracked => MovesLast(f) /\ SentLast(f) /\ Obeyed(f)
  /\ f \notin Tracked => Untouched(f)

(***************************************************************************)
(* The program has at most one request under way, and then nothing behind  *)
(* it; so a reply has overtaken no modification, and none is sent before   *)
(* the flows of the reply are freed or applied.                            *)
(***************************************************************************)
InOrder ==
  /\ pc = "wait" =>
       \/ answer # NONE /\ toSwitch = << >>
       \/ /\ answer = NONE /\ toSwitch # << >>
          /\ \A i \in 1 .. Len(toSwitch) :
               toSwitch[i].type = "STATS_REQUEST" <=> i = Len(toSwitch)
  /\ pc # "wait" =>
       answer = NONE /\ \A i \in 1 .. Len(toSwitch) : toSwitch[i].type = "FLOW_MOD"
  /\ pc \in {"request", "track"} /\ flows # NONE => toSwitch = << >>
  /\ pc # "apply" => migrations = << >>
  /\ \A i \in 1 .. Len(migrations) : migrations[i].type = "FLOW_MOD"

IInv ==
  /\ TypeOK
  /\ \A f \in Flow : FlowOK(f)
  /\ InOrder
-----------------------------------------------------------------------------
(***************************************************************************)
(* Nothing is under way in an empty queue.                                 *)
(***************************************************************************)
LEMMA EmptyMods == \A f : Mods(<< >>, f) = {}
  BY DEF Mods

(***************************************************************************)
(* A message put at the end of a queue becomes the last modification of    *)
(* its flow and changes nothing for the others.                            *)
(***************************************************************************)
LEMMA AppendMods ==
  ASSUME NEW q \in Queues, NEW m \in Messages, NEW f
  PROVE  /\ IsMod(m, f) => /\ Mods(Append(q, m), f) # {}
                           /\ LastIs(Append(q, m), f, m.core)
         /\ ~IsMod(m, f) => /\ Mods(Append(q, m), f) = Mods(q, f)
                            /\ \A c : LastIs(q, f, c) <=> LastIs(Append(q, m), f, c)
<1> DEFINE r == Append(q, m)
<1>1. /\ Len(r) = Len(q) + 1 /\ Len(q) \in Nat
      /\ r[Len(r)] = m
      /\ \A i \in 1 .. Len(q) : r[i] = q[i]
  BY AppendProperties, LenProperties DEF Queues
<1>2. ASSUME IsMod(m, f)
      PROVE  Mods(r, f) # {} /\ LastIs(r, f, m.core)
  <2>1. Len(r) \in Mods(r, f)
    BY <1>1, <1>2 DEF Mods, IsMod
  <2>2. \A j \in Mods(r, f) : j <= Len(r)
    BY <1>1 DEF Mods
  <2>3. QED
    BY <2>1, <2>2, <1>1 DEF LastIs
<1>3. ASSUME ~IsMod(m, f)
      PROVE  Mods(r, f) = Mods(q, f)
  BY <1>1, <1>3 DEF Mods, IsMod
<1>4. ASSUME ~IsMod(m, f)
      PROVE  \A c : LastIs(q, f, c) <=> LastIs(r, f, c)
  <2>1. \A i \in Mods(q, f) : r[i] = q[i]
    BY <1>1 DEF Mods
  <2>2. QED
    BY <1>3, <1>4, <2>1 DEF LastIs
<1>5. QED
  BY <1>2, <1>3, <1>4

(***************************************************************************)
(* Taking the first message off a queue leaves the last modification of a  *)
(* flow the last, unless it was the first message itself.                  *)
(***************************************************************************)
LEMMA TailMods ==
  ASSUME NEW q \in Queues, q # << >>, NEW f
  PROVE  /\ Mods(Tail(q), f) # {} =>
              /\ Mods(q, f) # {}
              /\ \A c : LastIs(q, f, c) => LastIs(Tail(q), f, c)
         /\ Mods(Tail(q), f) = {} /\ Mods(q, f) # {} =>
              /\ IsMod(Head(q), f)
              /\ \A c : LastIs(q, f, c) => Head(q).core = c
         /\ Mods(q, f) = {} => Mods(Tail(q), f) = {} /\ ~IsMod(Head(q), f)
<1> DEFINE r == Tail(q)
<1>1. /\ Len(q) \in Nat /\ Len(q) > 0 /\ Len(r) = Len(q) - 1
      /\ Head(q) = q[1]
      /\ \A i \in 1 .. Len(r) : r[i] = q[i + 1]
  BY HeadTailProperties, LenProperties, EmptySeq DEF Queues
<1>2. \A i \in 1 .. Len(r) : i \in Mods(r, f) <=> i + 1 \in Mods(q, f)
  BY <1>1 DEF Mods
<1>3. Mods(r, f) \subseteq 1 .. Len(r) /\ Mods(q, f) \subseteq 1 .. Len(q)
  BY DEF Mods
<1>4. 1 \in Mods(q, f) <=> IsMod(Head(q), f)
  BY <1>1 DEF Mods, IsMod
<1>5. \A j \in Mods(q, f) : j = 1 \/ (j - 1 \in Mods(r, f) /\ r[j - 1] = q[j])
  <2> SUFFICES ASSUME NEW j \in Mods(q, f), j # 1
               PROVE  j - 1 \in Mods(r, f) /\ r[j - 1] = q[j]
    OBVIOUS
  <2>1. j \in 1 .. Len(q) /\ j - 1 \in 1 .. Len(r) /\ (j - 1) + 1 = j
    BY <1>1, <1>3
  <2>2. QED
    BY <1>1, <1>2, <2>1
<1>6. ASSUME Mods(r, f) # {}
      PROVE  /\ Mods(q, f) # {}
             /\ \A c : LastIs(q, f, c) => LastIs(r, f, c)
  <2>1. PICK k \in Mods(r, f) : TRUE
    BY <1>6
  <2>2. k \in Nat /\ k >= 1 /\ k + 1 \in Mods(q, f)
    BY <1>1, <1>2, <1>3, <2>1
  <2>3. ASSUME NEW c, LastIs(q, f, c)
        PROVE  LastIs(r, f, c)
    <3>1. PICK i \in Mods(q, f) : q[i].core = c /\ \A j \in Mods(q, f) : j <= i
      BY <2>3 DEF LastIs
    <3>2. i # 1 /\ i \in Nat
      BY <1>3, <2>2, <3>1
    <3>3. i - 1 \in Mods(r, f) /\ r[i - 1].core = c
      BY <1>5, <3>1, <3>2
    <3>4. \A j \in Mods(r, f) : j <= i - 1
      <4>1. ASSUME NEW j \in Mods(r, f) PROVE j <= i - 1
        <5>1. j \in Nat /\ j + 1 \in Mods(q, f)
          BY <1>1, <1>2, <1>3
        <5>2. j + 1 <= i
          BY <5>1, <3>1
        <5>3. QED
          BY <5>1, <5>2, <3>2
      <4>2. QED
        BY <4>1
    <3>5. QED
      BY <3>3, <3>4 DEF LastIs
  <2>4. QED
    BY <2>2, <2>3
<1>7. ASSUME Mods(r, f) = {}, Mods(q, f) # {}
      PROVE  /\ IsMod(Head(q), f)
             /\ \A c : LastIs(q, f, c) => Head(q).core = c
  <2>1. \A j \in Mods(q, f) : j = 1
    BY <1>5, <1>7
  <2>2. 1 \in Mods(q, f)
    BY <2>1, <1>7
  <2>3. QED
    BY <2>1, <2>2, <1>1, <1>4 DEF LastIs
<1>8. ASSUME Mods(q, f) = {}
      PROVE  Mods(r, f) = {} /\ ~IsMod(Head(q), f)
  BY <1>2, <1>3, <1>4, <1>8
<1>9. QED
  BY <1>6, <1>7, <1>8

(***************************************************************************)
(* A flow's state does not change with the place the program is at.        *)
(***************************************************************************)
LEMMA FlowUnchanged ==
  ASSUME \A f \in Flow : FlowOK(f),
         UNCHANGED <<assigned_core, migrations, toSwitch, lost, disturbed, added, modified>>
  PROVE  (\A f \in Flow : FlowOK(f))'
  BY DEF FlowOK, MovesLast, SentLast, Obeyed, Untouched, EntriesIn, Mods, LastIs, Tracked
-----------------------------------------------------------------------------
LEMMA SetupTyped == Setup \in Seq(Commands) /\ add_flow(AnyFlow) \in Commands
<1>1. AnyFlow \in Flow
  BY SwitchAssumption DEF AnyFlow
<1>2. \A i \in 1 .. Len(Generated) : Generated[i] \in Flow
  BY ControllerAssumption, ElementOfSeq DEF NetworkFlow
<1>3. Len(Generated) \in Nat
  BY ControllerAssumption, LenProperties
<1>4. generate_flows \in Seq(Commands)
  BY <1>2, <1>3 DEF generate_flows, add_flow, Command, Commands
<1>5. QED
  BY <1>1, <1>4 DEF Setup, Command, Commands, add_flow

(***************************************************************************)
(* The switch and the controller keep their types.                         *)
(***************************************************************************)
LEMMA ModifyTyped ==
  ASSUME SwitchTypeOK, NEW f \in Flow, NEW core \in Core, Modify(f, core)
  PROVE  /\ added' \in [Flow -> Core \cup {NONE}]
         /\ modified' \in [Flow -> Core \cup {NONE}]
  BY DEF SwitchTypeOK, Modify

LEMMA ControllerTyped ==
  ASSUME ControllerTypeOK,
         Obey \/ onSwitchConnection \/ Connect
           \/ \E f \in Flow : _packet_in_handler(f) \/ Packet(f)
  PROVE  ControllerTypeOK'
<1> USE DEF ControllerTypeOK, SwitchTypeOK, table
<1>1. CASE Obey
  <2>1. Head(commands) \in Commands /\ Tail(commands) \in Seq(Commands)
    BY <1>1, HeadTailProperties DEF Obey
  <2>2. NoEntries \in [Flow -> Core \cup {NONE}]
    BY DEF NoEntries
  <2>3. CASE DeleteAll
    BY <1>1, <2>1, <2>2, <2>3 DEF Obey, DeleteAll
  <2>4. CASE Add(Head(commands).flow) /\ UNCHANGED static
    BY <1>1, <2>1, <2>4, SwitchAssumption DEF Obey, Add
  <2>5. CASE UNCHANGED table /\ static' \in SUBSET {"arp", "egress"}
    BY <1>1, <2>1, <2>5 DEF Obey
  <2>6. QED
    BY <1>1, <2>3, <2>4, <2>5 DEF Obey
<1>2. CASE onSwitchConnection
  BY <1>2, SetupTyped, ConcatProperties DEF onSwitchConnection
<1>3. CASE Connect
  BY <1>3, EmptySeq DEF Connect
<1>4. CASE \E f \in Flow : _packet_in_handler(f)
  <2>1. PICK f \in Flow : _packet_in_handler(f)
    BY <1>4
  <2>2. add_flow(f) \in Commands
    BY DEF add_flow, Command, Commands
  <2>3. QED
    BY <2>1, <2>2, AppendProperties DEF _packet_in_handler
<1>5. CASE \E f \in Flow : Packet(f)
  BY <1>5 DEF Packet
<1>6. QED
  BY <1>1, <1>2, <1>3, <1>4, <1>5

LEMMA QueuesTyped ==
  /\ STATS_REQUEST \in Messages
  /\ \A f \in Flow, core \in Core : FLOW_MOD(f, core) \in Messages
  BY SwitchAssumption DEF STATS_REQUEST, FLOW_MOD, Messages, AnyFlow
-----------------------------------------------------------------------------
(***************************************************************************)
(* Every step keeps the types.                                             *)
(***************************************************************************)
LEMMA NextTyped == TypeOK /\ [Next]_vars => TypeOK'
<1> SUFFICES ASSUME TypeOK, [Next]_vars PROVE TypeOK'
  OBVIOUS
<1> USE DEF TypeOK
<1>u. ASSUME UNCHANGED <<table, static, controller>> PROVE ControllerTypeOK'
  BY <1>u DEF ControllerTypeOK, SwitchTypeOK, table, controller
<1>1. CASE Request
  BY <1>1, <1>u, QueuesTyped, AppendProperties DEF Request
<1>2. CASE RequestFails
  BY <1>2, <1>u DEF RequestFails, AfterCall
<1>3. CASE Receive
  BY <1>3, <1>u DEF Receive, AfterCall
<1>4. CASE get_migrations
  <2>1. PICK n \in 0 .. MaxMoves :
          \E moves \in [1 .. n -> {FLOW_MOD(f, core) : f \in Known, core \in Core}] :
            migrations' = moves /\ assigned_core' \in Balanced(moves)
    BY <1>4 DEF get_migrations
  <2>2. PICK moves \in [1 .. n -> {FLOW_MOD(f, core) : f \in Known, core \in Core}] :
          migrations' = moves /\ assigned_core' \in Balanced(moves)
    BY <2>1
  <2>3. Known \subseteq Flow
    BY DEF Known, Tracked, NetworkFlow
  <2>4. \A i \in 1 .. n : moves[i] \in Messages
    BY <2>3, QueuesTyped
  <2>5. n \in Nat
    BY OrssAssumption
  <2>6. moves \in Seq(Messages)
    BY <2>4, <2>5
  <2>7. assigned_core' \in [Flow -> Core \cup {NONE}]
    BY <2>2 DEF Balanced
  <2>8. QED
    BY <1>4, <1>u, <2>2, <2>6, <2>7 DEF get_migrations
<1>5. CASE apply_migration
  <2>1. Head(migrations) \in Messages /\ Tail(migrations) \in Seq(Messages)
    BY <1>5, HeadTailProperties DEF apply_migration
  <2>2. toSwitch' \in Seq(Messages)
    BY <1>5, <2>1, AppendProperties DEF apply_migration
  <2>3. lost' \subseteq Flow
    BY <1>5, <2>1 DEF apply_migration, Messages
  <2>4. QED
    BY <1>5, <1>u, <2>1, <2>2, <2>3 DEF apply_migration
<1>6. CASE EndRound
  BY <1>6, <1>u DEF EndRound, Freed
<1>7. CASE Restart
  BY <1>7, <1>u, EmptySeq DEF Restart, NoEntries
<1>8. CASE ObeyProgram
  <2>1. Head(toSwitch) \in Messages /\ Tail(toSwitch) \in Seq(Messages)
    BY <1>8, HeadTailProperties DEF ObeyProgram
  <2>2. CASE Head(toSwitch).type = "STATS_REQUEST"
    <3>1. answer' \in (SUBSET NetworkFlow) \cup {NONE} /\ UNCHANGED <<disturbed, table>>
      BY <1>8, <2>2 DEF ObeyProgram, Stats
    <3>2. QED
      BY <1>8, <2>1, <3>1, <1>u DEF ObeyProgram
  <2>3. CASE Head(toSwitch).type = "FLOW_MOD"
    <3>1. Modify(Head(toSwitch).flow, Head(toSwitch).core)
      BY <1>8, <2>3 DEF ObeyProgram
    <3>2. added' \in [Flow -> Core \cup {NONE}] /\ modified' \in [Flow -> Core \cup {NONE}]
      BY <2>1, <3>1, ModifyTyped DEF ControllerTypeOK, Messages
    <3>3. ControllerTypeOK'
      BY <1>8, <3>2 DEF ControllerTypeOK, SwitchTypeOK, ObeyProgram, controller
    <3>4. QED
      BY <1>8, <2>1, <2>3, <3>3 DEF ObeyProgram
  <2>4. QED
    BY <2>1, <2>2, <2>3 DEF Messages
<1>9. CASE ObeyController
  <2>1. ControllerTypeOK'
    BY <1>9, ControllerTyped DEF ObeyController
  <2>2. Tracked \subseteq Flow
    BY DEF Tracked
  <2>3. disturbed' \subseteq Flow
    BY <1>9, <2>2 DEF ObeyController
  <2>4. QED
    BY <1>9, <2>1, <2>3 DEF ObeyController, program
<1>10. CASE Control \/ Reconnect \/ \E f \in Flow : Traffic(f)
  <2>1. ControllerTypeOK'
    BY <1>10, ControllerTyped DEF Control, Reconnect, Traffic
  <2>2. QED
    BY <1>10, <2>1 DEF Control, Reconnect, Traffic, program
<1>11. CASE UNCHANGED vars
  BY <1>11, <1>u DEF vars, program
<1>12. QED
  BY <1>1, <1>2, <1>3, <1>4, <1>5, <1>6, <1>7, <1>8, <1>9, <1>10, <1>11 DEF Next, Round
-----------------------------------------------------------------------------
LEMMA StatsSent == Stats # NONE
  BY SwitchAssumption DEF Stats, NetworkFlow

(***************************************************************************)
(* Every step keeps the order of requests, modifications and replies.      *)
(***************************************************************************)
LEMMA NextInOrder == TypeOK /\ InOrder /\ [Next]_vars => InOrder'
<1> SUFFICES ASSUME TypeOK, InOrder, [Next]_vars PROVE InOrder'
  OBVIOUS
<1>t. /\ migrations \in Seq(Messages) /\ toSwitch \in Seq(Messages)
      /\ Len(toSwitch) \in Nat /\ pc \in {"request", "wait", "track", "apply"}
  BY LenProperties DEF TypeOK
<1>1. CASE Request
  <2>1. /\ pc' = "wait" /\ answer' = NONE /\ migrations' = << >>
        /\ toSwitch' = Append(toSwitch, STATS_REQUEST)
        /\ \A i \in 1 .. Len(toSwitch) : toSwitch[i].type = "FLOW_MOD"
    BY <1>1 DEF Request, InOrder
  <2>2. /\ Len(toSwitch') = Len(toSwitch) + 1 /\ toSwitch' # << >>
        /\ toSwitch'[Len(toSwitch')] = STATS_REQUEST
        /\ \A i \in 1 .. Len(toSwitch) : toSwitch'[i] = toSwitch[i]
    BY <2>1, <1>t, QueuesTyped, AppendProperties
  <2>3. ASSUME NEW i \in 1 .. Len(toSwitch')
        PROVE  toSwitch'[i].type = "STATS_REQUEST" <=> i = Len(toSwitch')
    <3>1. CASE i = Len(toSwitch')
      BY <2>2, <3>1 DEF STATS_REQUEST
    <3>2. CASE i # Len(toSwitch')
      <4>1. i \in 1 .. Len(toSwitch)
        BY <3>2, <2>2, <1>t
      <4>2. QED
        BY <4>1, <3>2, <2>1, <2>2
    <3>3. QED
      BY <3>1, <3>2
  <2>4. \A i \in 1 .. Len(migrations') : migrations'[i].type = "FLOW_MOD"
    BY <2>1, EmptySeq
  <2>5. QED
    BY <2>1, <2>2, <2>3, <2>4 DEF InOrder
<1>2. CASE RequestFails
  BY <1>2 DEF RequestFails, AfterCall, InOrder
<1>3. CASE Receive
  <2>1. toSwitch = << >>
    BY <1>3 DEF Receive, InOrder
  <2>2. QED
    BY <1>3, <2>1, EmptySeq DEF Receive, AfterCall, InOrder
<1>4. CASE get_migrations
  <2>1. PICK n \in 0 .. MaxMoves :
          \E moves \in [1 .. n -> {FLOW_MOD(f, core) : f \in Known, core \in Core}] :
            migrations' = moves
    BY <1>4 DEF get_migrations
  <2>2. PICK moves \in [1 .. n -> {FLOW_MOD(f, core) : f \in Known, core \in Core}] :
          migrations' = moves
    BY <2>1
  <2>3. \A i \in 1 .. n : moves[i].type = "FLOW_MOD"
    BY DEF FLOW_MOD
  <2>4. Len(migrations') = n
    BY <2>2, OrssAssumption
  <2>5. QED
    BY <1>4, <2>2, <2>3, <2>4 DEF get_migrations, InOrder
<1>5. CASE apply_migration
  <2>1. /\ Len(migrations) \in Nat /\ Len(migrations) > 0
        /\ Head(migrations) = migrations[1] /\ Len(Tail(migrations)) = Len(migrations) - 1
        /\ \A i \in 1 .. Len(Tail(migrations)) : Tail(migrations)[i] = migrations[i + 1]
        /\ Head(migrations) \in Messages
    BY <1>5, <1>t, HeadTailProperties, LenProperties, EmptySeq DEF apply_migration
  <2>2. Head(migrations).type = "FLOW_MOD"
    BY <2>1 DEF InOrder
  <2>3. \A i \in 1 .. Len(migrations') : migrations'[i].type = "FLOW_MOD"
    <3>1. \A i \in 1 .. Len(Tail(migrations)) : i + 1 \in 1 .. Len(migrations)
      BY <2>1
    <3>2. QED
      BY <1>5, <2>1, <3>1 DEF apply_migration, InOrder
  <2>4. pc = "apply" /\ pc' = pc /\ answer' = answer
    BY <1>5 DEF apply_migration
  <2>5. \A i \in 1 .. Len(toSwitch') : toSwitch'[i].type = "FLOW_MOD"
    <3>1. CASE CanWrite
      <4>1. /\ toSwitch' = Append(toSwitch, Head(migrations))
            /\ Len(toSwitch') = Len(toSwitch) + 1
            /\ toSwitch'[Len(toSwitch) + 1] = Head(migrations)
            /\ \A i \in 1 .. Len(toSwitch) : toSwitch'[i] = toSwitch[i]
        BY <1>5, <3>1, <1>t, <2>1, AppendProperties DEF apply_migration
      <4>2. \A i \in 1 .. Len(toSwitch') : i \in 1 .. Len(toSwitch) \/ i = Len(toSwitch) + 1
        BY <4>1, <1>t
      <4>3. QED
        BY <4>1, <4>2, <2>2, <2>4 DEF InOrder
    <3>2. CASE ~CanWrite
      BY <1>5, <3>2, <2>4 DEF apply_migration, InOrder
    <3>3. QED
      BY <3>1, <3>2
  <2>6. QED
    BY <2>3, <2>4, <2>5 DEF InOrder
<1>6. CASE EndRound
  BY <1>6 DEF EndRound, Freed, InOrder
<1>7. CASE Restart
  BY <1>7, EmptySeq DEF Restart, InOrder
<1>8. CASE ObeyProgram
  <2>1. /\ Len(toSwitch) > 0
        /\ Head(toSwitch) = toSwitch[1] /\ Len(Tail(toSwitch)) = Len(toSwitch) - 1
        /\ \A i \in 1 .. Len(Tail(toSwitch)) : Tail(toSwitch)[i] = toSwitch[i + 1]
        /\ Head(toSwitch) \in Messages /\ Tail(toSwitch) \in Seq(Messages)
    BY <1>8, <1>t, HeadTailProperties, LenProperties, EmptySeq DEF ObeyProgram
  <2>2. /\ toSwitch # << >> /\ toSwitch' = Tail(toSwitch)
        /\ pc' = pc /\ flows' = flows /\ migrations' = migrations
    BY <1>8 DEF ObeyProgram
  <2>3. \A i \in 1 .. Len(Tail(toSwitch)) : i + 1 \in 1 .. Len(toSwitch)
    BY <2>1, <1>t
  <2>4. CASE pc # "wait"
    <3>1. answer = NONE /\ \A i \in 1 .. Len(toSwitch) : toSwitch[i].type = "FLOW_MOD"
      BY <2>4 DEF InOrder
    <3>2. Head(toSwitch).type = "FLOW_MOD"
      BY <2>1, <2>3, <3>1, <1>t
    <3>3. answer' = NONE
      BY <1>8, <3>1, <3>2 DEF ObeyProgram
    <3>4. \A i \in 1 .. Len(toSwitch') : toSwitch'[i].type = "FLOW_MOD"
      BY <2>1, <2>2, <2>3, <3>1
    <3>5. QED
      BY <2>2, <2>4, <3>3, <3>4 DEF InOrder
  <2>5. CASE pc = "wait"
    <3>1. answer = NONE /\ \A i \in 1 .. Len(toSwitch) :
            toSwitch[i].type = "STATS_REQUEST" <=> i = Len(toSwitch)
      BY <2>2, <2>5 DEF InOrder
    <3>2. CASE Len(toSwitch) = 1
      <4>1. Head(toSwitch).type = "STATS_REQUEST" /\ toSwitch' = << >>
        BY <2>1, <2>2, <3>1, <3>2, EmptySeq
      <4>2. answer' # NONE
        BY <1>8, <4>1, StatsSent DEF ObeyProgram
      <4>3. QED
        BY <2>2, <2>5, <4>1, <4>2 DEF InOrder
    <3>3. CASE Len(toSwitch) # 1
      <4>1. Head(toSwitch).type = "FLOW_MOD" /\ toSwitch' # << >>
        <5>1. 1 \in 1 .. Len(toSwitch) /\ Len(Tail(toSwitch)) # 0
          BY <2>1, <3>3, <1>t
        <5>2. toSwitch[1].type # "STATS_REQUEST"
          BY <3>1, <3>3, <5>1
        <5>3. toSwitch[1].type \in {"STATS_REQUEST", "FLOW_MOD"}
          BY <2>1 DEF Messages
        <5>4. QED
          BY <2>1, <2>2, <5>1, <5>2, <5>3, EmptySeq
      <4>2. answer' = NONE
        BY <1>8, <3>1, <4>1 DEF ObeyProgram
      <4>3. \A i \in 1 .. Len(toSwitch') :
              toSwitch'[i].type = "STATS_REQUEST" <=> i = Len(toSwitch')
        <5>1. ASSUME NEW i \in 1 .. Len(toSwitch')
              PROVE  toSwitch'[i].type = "STATS_REQUEST" <=> i = Len(toSwitch')
          <6>1. i + 1 \in 1 .. Len(toSwitch) /\ toSwitch'[i] = toSwitch[i + 1]
            BY <2>1, <2>2, <2>3
          <6>2. toSwitch'[i].type = "STATS_REQUEST" <=> i + 1 = Len(toSwitch)
            BY <3>1, <6>1
          <6>3. i + 1 = Len(toSwitch) <=> i = Len(toSwitch')
            BY <2>1, <2>2, <1>t
          <6>4. QED
            BY <6>2, <6>3, Zenon
        <5>2. QED
          BY <5>1
      <4>4. QED
        BY <2>2, <2>5, <4>1, <4>2, <4>3 DEF InOrder
    <3>4. QED
      BY <3>2, <3>3
  <2>6. QED
    BY <2>4, <2>5
<1>9. CASE ObeyController \/ Control \/ Reconnect \/ \E f \in Flow : Traffic(f)
  BY <1>9 DEF ObeyController, Control, Reconnect, Traffic, program, InOrder
<1>10. CASE UNCHANGED vars
  BY <1>10 DEF vars, program, InOrder
<1>11. QED
  BY <1>1, <1>2, <1>3, <1>4, <1>5, <1>6, <1>7, <1>8, <1>9, <1>10 DEF Next, Round
-----------------------------------------------------------------------------
(***************************************************************************)
(* A round of balancing keeps the state of every flow: a new flow has the  *)
(* default core, which its entry has, and a moved one that of its last     *)
(* migration.                                                              *)
(***************************************************************************)
LEMMA BalanceKeeps ==
  ASSUME IInv, get_migrations, NEW f \in Flow
  PROVE  FlowOK(f)'
<1>1. migrations = << >> /\ Mods(migrations, f) = {}
  BY EmptyMods DEF IInv, InOrder, get_migrations
<1>2. UNCHANGED <<toSwitch, lost, disturbed, added, modified>>
  BY DEF get_migrations, table
<1>3. PICK n \in 0 .. MaxMoves :
        \E moves \in [1 .. n -> {FLOW_MOD(g, core) : g \in Known, core \in Core}] :
          migrations' = moves /\ assigned_core' \in Balanced(moves)
  BY DEF get_migrations
<1>4. PICK moves \in [1 .. n -> {FLOW_MOD(g, core) : g \in Known, core \in Core}] :
        migrations' = moves /\ assigned_core' \in Balanced(moves)
  BY <1>3
<1>5. IF Mods(moves, f) # {} THEN LastIs(moves, f, assigned_core'[f])
      ELSE assigned_core'[f] = IF f \in Known \ Tracked THEN Start ELSE assigned_core[f]
  BY <1>4 DEF Balanced
<1>6. FlowOK(f)
  BY DEF IInv
<1>7. CASE Mods(moves, f) # {}
  <2>1. PICK i \in Mods(moves, f) : moves[i].core = assigned_core'[f]
    BY <1>5, <1>7 DEF LastIs
  <2>2. Len(moves) = n
    BY OrssAssumption
  <2>3. i \in 1 .. n
    BY <2>1, <2>2 DEF Mods
  <2>4. moves[i].core \in Core
    BY <2>3 DEF FLOW_MOD
  <2>5. f \in Tracked'
    BY <2>1, <2>4, SwitchAssumption DEF Tracked
  <2>6. Mods(migrations, f)' # {} /\ LastIs(migrations, f, assigned_core[f])'
    BY <1>4, <1>5, <1>7 DEF Mods, LastIs
  <2>7. QED
    BY <2>5, <2>6 DEF FlowOK, MovesLast, SentLast, Obeyed
<1>8. CASE Mods(moves, f) = {}
  <2>1. Mods(migrations, f)' = {} /\ Mods(toSwitch, f)' = Mods(toSwitch, f)
    BY <1>2, <1>4, <1>8 DEF Mods
  <2>2. CASE f \in Known \ Tracked
    <3>1. assigned_core'[f] = 0 /\ f \in Tracked'
      BY <1>5, <1>8, <2>2, SwitchAssumption DEF Start, Tracked
    <3>2. Mods(toSwitch, f) = {} /\ (f \in disturbed \/ EntriesIn(f, {0}))
      BY <1>6, <2>2 DEF FlowOK, Untouched
    <3>3. f \in disturbed' \/ EntriesIn(f, {assigned_core[f]})'
      BY <1>2, <3>1, <3>2 DEF EntriesIn
    <3>4. QED
      BY <2>1, <3>1, <3>2, <3>3 DEF FlowOK, MovesLast, SentLast, Obeyed
  <2>3. CASE f \notin Known \ Tracked
    <3>1. assigned_core'[f] = assigned_core[f] /\ (f \in Tracked' <=> f \in Tracked)
      BY <1>5, <1>8, <2>3 DEF Tracked
    <3>2. CASE f \in Tracked
      <4>1. SentLast(f) /\ Obeyed(f)
        BY <1>6, <3>2 DEF FlowOK
      <4>2. MovesLast(f)'
        BY <2>1 DEF MovesLast
      <4>3. SentLast(f)'
        BY <1>1, <1>2, <2>1, <3>1, <4>1 DEF SentLast, LastIs, Mods
      <4>4. Obeyed(f)'
        BY <1>1, <1>2, <2>1, <3>1, <4>1 DEF Obeyed, EntriesIn
      <4>5. QED
        BY <3>1, <3>2, <4>2, <4>3, <4>4 DEF FlowOK
    <3>3. CASE f \notin Tracked
      <4>1. Untouched(f)
        BY <1>6, <3>3 DEF FlowOK
      <4>2. Untouched(f)'
        BY <1>2, <2>1, <4>1 DEF Untouched, EntriesIn
      <4>3. QED
        BY <3>1, <3>3, <4>2 DEF FlowOK
    <3>4. QED
      BY <3>2, <3>3
  <2>4. QED
    BY <2>2, <2>3
<1>9. QED
  BY <1>7, <1>8

(***************************************************************************)
(* A migration applied is the last thing sent for its flow, or the flow is *)
(* lost; for any other flow, nothing changes.                              *)
(***************************************************************************)
LEMMA ApplyKeeps ==
  ASSUME IInv, apply_migration, NEW f \in Flow
  PROVE  FlowOK(f)'
<1> DEFINE h == Head(migrations)
<1>1. /\ migrations \in Queues /\ migrations # << >> /\ toSwitch \in Queues
      /\ migrations' = Tail(migrations) /\ h \in Messages
  BY HeadTailProperties DEF IInv, TypeOK, Queues, apply_migration
<1>2. UNCHANGED <<assigned_core, disturbed, added, modified>> /\ Tracked' = Tracked
  BY DEF apply_migration, table, Tracked
<1>3. FlowOK(f)
  BY DEF IInv
<1>4. CASE f \notin Tracked
  <2>1. Untouched(f)
    BY <1>3, <1>4 DEF FlowOK
  <2>2. Mods(Tail(migrations), f) = {} /\ ~IsMod(h, f)
    BY <1>1, <2>1, TailMods DEF Untouched
  <2>3. Mods(toSwitch', f) = {}
    BY <1>1, <2>1, <2>2, AppendMods DEF apply_migration, Untouched
  <2>4. Untouched(f)'
    BY <1>1, <1>2, <2>1, <2>2, <2>3 DEF Untouched, EntriesIn, Mods
  <2>5. QED
    BY <1>2, <1>4, <2>4 DEF FlowOK
<1>5. CASE f \in Tracked
  <2>1. MovesLast(f) /\ SentLast(f) /\ Obeyed(f)
    BY <1>3, <1>5 DEF FlowOK
  <2>2. MovesLast(f)'
    <3>1. Mods(Tail(migrations), f) # {} => LastIs(Tail(migrations), f, assigned_core[f])
      BY <1>1, <2>1, TailMods DEF MovesLast
    <3>2. QED
      BY <1>1, <1>2, <3>1 DEF MovesLast, Mods, LastIs
  <2>3. CASE IsMod(h, f) /\ CanWrite
    <3>1. /\ toSwitch' = Append(toSwitch, h)
          /\ Mods(toSwitch', f) # {} /\ LastIs(toSwitch', f, h.core)
      BY <1>1, <2>3, AppendMods DEF apply_migration
    <3>2. Mods(Tail(migrations), f) = {} => h.core = assigned_core[f]
      <4>1. ASSUME Mods(Tail(migrations), f) = {} PROVE h.core = assigned_core[f]
        <5>1. Mods(migrations, f) # {}
          BY <1>1, <2>3, TailMods
        <5>2. LastIs(migrations, f, assigned_core[f])
          BY <2>1, <5>1 DEF MovesLast
        <5>3. QED
          BY <1>1, <4>1, <5>1, <5>2, TailMods
      <4>2. QED
        BY <4>1
    <3>3. SentLast(f)' /\ Obeyed(f)'
      BY <1>1, <1>2, <3>1, <3>2 DEF SentLast, Obeyed, Mods, LastIs
    <3>4. QED
      BY <1>2, <1>5, <2>2, <3>3 DEF FlowOK
  <2>4. CASE IsMod(h, f) /\ ~CanWrite
    <3>1. f \in lost'
      BY <2>4 DEF apply_migration, IsMod
    <3>2. QED
      BY <1>2, <1>5, <2>2, <3>1 DEF FlowOK, SentLast, Obeyed
  <2>5. CASE ~IsMod(h, f)
    <3>1. /\ Mods(toSwitch', f) = Mods(toSwitch, f)
          /\ \A c : LastIs(toSwitch, f, c) => LastIs(toSwitch', f, c)
      BY <1>1, <2>5, AppendMods DEF apply_migration
    <3>2. Mods(Tail(migrations), f) = {} => Mods(migrations, f) = {}
      BY <1>1, <2>5, TailMods
    <3>3. f \in lost <=> f \in lost'
      <4>1. h.type = "FLOW_MOD"
        <5>1. Len(migrations) > 0 /\ h = migrations[1] /\ Len(migrations) \in Nat
          BY <1>1, HeadTailProperties, LenProperties, EmptySeq DEF Queues
        <5>2. QED
          BY <5>1 DEF IInv, InOrder
      <4>2. h.flow # f
        BY <2>5, <4>1 DEF IsMod
      <4>3. QED
        BY <4>2 DEF apply_migration
    <3>4. SentLast(f)'
      BY <1>1, <1>2, <2>1, <3>1, <3>2, <3>3 DEF SentLast, Mods, LastIs
    <3>5. Obeyed(f)'
      BY <1>1, <1>2, <2>1, <3>1, <3>2, <3>3 DEF Obeyed, Mods, EntriesIn
    <3>6. QED
      BY <1>2, <1>5, <2>2, <3>4, <3>5 DEF FlowOK
  <2>6. QED
    BY <2>3, <2>4, <2>5
<1>6. QED
  BY <1>4, <1>5

(***************************************************************************)
(* The switch obeys the program: a modification gives all the entries of   *)
(* the flow its core.                                                      *)
(***************************************************************************)
LEMMA ObeyProgramKeeps ==
  ASSUME IInv, ObeyProgram, NEW f \in Flow
  PROVE  FlowOK(f)'
<1> DEFINE h == Head(toSwitch)
<1>1. /\ toSwitch \in Queues /\ toSwitch # << >> /\ toSwitch' = Tail(toSwitch)
      /\ h \in Messages
  BY HeadTailProperties DEF IInv, TypeOK, Queues, ObeyProgram
<1>2. UNCHANGED <<assigned_core, migrations, lost>> /\ Tracked' = Tracked
  BY DEF ObeyProgram, Tracked
<1>3. FlowOK(f)
  BY DEF IInv
<1>4. MovesLast(f)' <=> MovesLast(f)
  BY <1>2 DEF MovesLast, Mods, LastIs
<1>5. CASE IsMod(h, f)
  <2>1. f \in Tracked
    BY <1>1, <1>3, <1>5, TailMods DEF FlowOK, Untouched
  <2>2. MovesLast(f) /\ SentLast(f)
    BY <1>3, <2>1 DEF FlowOK
  <2>3. Mods(toSwitch, f) # {}
    BY <1>1, <1>5, TailMods
  <2>4. SentLast(f)'
    <3>1. \A c : Mods(Tail(toSwitch), f) # {} /\ LastIs(toSwitch, f, c) => LastIs(Tail(toSwitch), f, c)
      BY <1>1, TailMods
    <3>2. QED
      BY <1>1, <1>2, <2>2, <2>3, <3>1 DEF SentLast, Mods, LastIs
  <2>5. Obeyed(f)'
    <3>1. SUFFICES ASSUME f \notin lost \cup Icmp, Mods(migrations, f) = {},
                          Mods(Tail(toSwitch), f) = {}
                   PROVE  EntriesIn(f, {assigned_core[f]})'
      BY <1>1, <1>2 DEF Obeyed, Mods
    <3>2. h.core = assigned_core[f]
      BY <1>1, <2>2, <2>3, <3>1, TailMods DEF SentLast
    <3>3. Modify(f, h.core)
      BY <1>5 DEF ObeyProgram, IsMod
    <3>4. added \in [Flow -> Core \cup {NONE}] /\ modified \in [Flow -> Core \cup {NONE}]
      BY DEF IInv, TypeOK, ControllerTypeOK, SwitchTypeOK
    <3>5. added'[f] \in {h.core, NONE} /\ modified'[f] \in {h.core, NONE}
      BY <3>1, <3>3, <3>4 DEF Modify
    <3>6. QED
      BY <1>2, <3>2, <3>5 DEF EntriesIn
  <2>6. QED
    BY <1>2, <1>4, <2>1, <2>2, <2>4, <2>5 DEF FlowOK
<1>6. CASE ~IsMod(h, f)
  <2>1. Mods(toSwitch, f) = {} <=> Mods(Tail(toSwitch), f) = {}
    BY <1>1, <1>6, TailMods
  <2>2. \A c : Mods(Tail(toSwitch), f) # {} /\ LastIs(toSwitch, f, c) => LastIs(Tail(toSwitch), f, c)
    BY <1>1, TailMods
  <2>3. added'[f] = added[f] /\ modified'[f] = modified[f] /\ (f \in disturbed' <=> f \in disturbed)
    <3>1. CASE h.type = "STATS_REQUEST"
      BY <3>1 DEF ObeyProgram, table
    <3>2. CASE h.type = "FLOW_MOD"
      <4>1. Modify(h.flow, h.core) /\ disturbed' = disturbed \ {h.flow} /\ h.flow # f
        BY <1>6, <3>2 DEF ObeyProgram, IsMod
      <4>2. added \in [Flow -> Core \cup {NONE}] /\ modified \in [Flow -> Core \cup {NONE}]
        BY DEF IInv, TypeOK, ControllerTypeOK, SwitchTypeOK
      <4>3. QED
        BY <4>1, <4>2 DEF Modify
    <3>3. QED
      BY <1>1, <3>1, <3>2 DEF Messages
  <2>4. CASE f \notin Tracked
    <3>1. Untouched(f)'
      BY <1>1, <1>2, <1>3, <2>1, <2>3, <2>4 DEF FlowOK, Untouched, Mods, EntriesIn
    <3>2. QED
      BY <1>2, <2>4, <3>1 DEF FlowOK
  <2>5. CASE f \in Tracked
    <3>1. MovesLast(f) /\ SentLast(f) /\ Obeyed(f)
      BY <1>3, <2>5 DEF FlowOK
    <3>2. SentLast(f)'
      BY <1>1, <1>2, <2>1, <2>2, <3>1 DEF SentLast, Mods, LastIs
    <3>3. Obeyed(f)'
      BY <1>1, <1>2, <2>1, <2>3, <3>1 DEF Obeyed, Mods, EntriesIn
    <3>4. QED
      BY <1>2, <1>4, <2>5, <3>1, <3>2, <3>3 DEF FlowOK
  <2>6. QED
    BY <2>4, <2>5
<1>7. QED
  BY <1>5, <1>6

(***************************************************************************)
(* The switch obeys the controller: an entry added has the default core,   *)
(* which is that of a flow the program does not know.                      *)
(***************************************************************************)
LEMMA ObeyControllerKeeps ==
  ASSUME IInv, ObeyController, NEW f \in Flow
  PROVE  FlowOK(f)'
<1>1. UNCHANGED <<assigned_core, migrations, toSwitch, lost>> /\ Tracked' = Tracked
  BY DEF ObeyController, program, Tracked
<1>2. FlowOK(f)
  BY DEF IInv
<1>3. /\ MovesLast(f)' <=> MovesLast(f)
      /\ SentLast(f)' <=> SentLast(f)
  BY <1>1 DEF MovesLast, SentLast, Mods, LastIs
<1>4. f \in disturbed => f \in disturbed'
  BY DEF ObeyController
<1>5. /\ f \in Tracked => f \in disturbed' \/ \A c : EntriesIn(f, {c}) => EntriesIn(f, {c})'
      /\ EntriesIn(f, {0}) => EntriesIn(f, {0})'
  <2>1. added \in [Flow -> Core \cup {NONE}] /\ modified \in [Flow -> Core \cup {NONE}]
    BY DEF IInv, TypeOK, ControllerTypeOK, SwitchTypeOK
  <2>2. CASE UNCHANGED table
    BY <2>2 DEF table, EntriesIn
  <2>3. CASE DeleteAll
    BY <2>3 DEF DeleteAll, NoEntries, EntriesIn
  <2>4. CASE Head(commands).op = "ADD" /\ Add(Head(commands).flow)
    <3>1. CASE f = Head(commands).flow
      <4>1. f \in Tracked => f \in disturbed'
        BY <2>4, <3>1 DEF ObeyController
      <4>2. added'[f] = 0 /\ modified'[f] = modified[f]
        BY <2>1, <2>4, <3>1 DEF Add
      <4>3. QED
        BY <4>1, <4>2 DEF EntriesIn
    <3>2. CASE f # Head(commands).flow
      <4>1. added'[f] = added[f] /\ modified'[f] = modified[f]
        BY <2>1, <2>4, <3>2 DEF Add
      <4>2. QED
        BY <4>1 DEF EntriesIn
    <3>3. QED
      BY <3>1, <3>2
  <2>5. QED
    BY <2>2, <2>3, <2>4 DEF ObeyController, Obey
<1>6. CASE f \in Tracked
  <2>1. Obeyed(f)'
    BY <1>1, <1>2, <1>4, <1>5, <1>6 DEF FlowOK, Obeyed, Mods
  <2>2. QED
    BY <1>1, <1>2, <1>3, <1>6, <2>1 DEF FlowOK
<1>7. CASE f \notin Tracked
  <2>1. Untouched(f)'
    BY <1>1, <1>2, <1>4, <1>5, <1>7 DEF FlowOK, Untouched, Mods
  <2>2. QED
    BY <1>1, <1>7, <2>1 DEF FlowOK
<1>8. QED
  BY <1>6, <1>7

(***************************************************************************)
(* A program that starts again knows no flow; those whose entry a previous *)
(* run has moved are disturbed.                                            *)
(***************************************************************************)
LEMMA RestartKeeps ==
  ASSUME IInv, Restart, NEW f \in Flow
  PROVE  FlowOK(f)'
<1>1. assigned_core'[f] = NONE /\ migrations' = << >> /\ toSwitch' = << >>
  BY DEF Restart, NoEntries
<1>2. f \notin Tracked'
  BY <1>1 DEF Tracked
<1>3. Mods(migrations, f)' = {} /\ Mods(toSwitch, f)' = {}
  BY <1>1, EmptyMods DEF Mods
<1>4. f \in disturbed' \/ EntriesIn(f, {0})'
  BY DEF Restart, table, EntriesIn
<1>5. QED
  BY <1>2, <1>3, <1>4 DEF FlowOK, Untouched

(***************************************************************************)
(* The invariant holds at the start and every step keeps it.               *)
(***************************************************************************)
LEMMA InitHolds == Init => IInv
<1> SUFFICES ASSUME Init PROVE IInv
  OBVIOUS
<1>1. TypeOK
  <2>1. ControllerTypeOK
    BY EmptySeq, SwitchAssumption
    DEF Init, ControllerInit, SwitchInit, ControllerTypeOK, SwitchTypeOK, NoEntries
  <2>2. QED
    BY <2>1, EmptySeq DEF Init, TypeOK, NoEntries
<1>2. ASSUME NEW f \in Flow PROVE FlowOK(f)
  <2>1. f \notin Tracked /\ EntriesIn(f, {0})
    BY DEF Init, ControllerInit, SwitchInit, NoEntries, Tracked, EntriesIn
  <2>2. QED
    BY <2>1, EmptyMods DEF Init, FlowOK, Untouched
<1>3. InOrder
  BY EmptySeq DEF Init, InOrder
<1>4. QED
  BY <1>1, <1>2, <1>3 DEF IInv

LEMMA NextHolds == IInv /\ [Next]_vars => IInv'
<1> SUFFICES ASSUME IInv, [Next]_vars PROVE IInv'
  OBVIOUS
<1>1. TypeOK' /\ InOrder'
  BY NextTyped, NextInOrder DEF IInv
<1>2. (\A f \in Flow : FlowOK(f))'
  <2>1. CASE get_migrations
    BY <2>1, BalanceKeeps
  <2>2. CASE apply_migration
    BY <2>2, ApplyKeeps
  <2>3. CASE ObeyProgram
    BY <2>3, ObeyProgramKeeps
  <2>4. CASE ObeyController
    BY <2>4, ObeyControllerKeeps
  <2>5. CASE Restart
    BY <2>5, RestartKeeps
  <2>6. CASE Request
    <3>1. UNCHANGED <<assigned_core, migrations, lost, disturbed, added, modified>>
      BY <2>6 DEF Request, table
    <3>2. ASSUME NEW f \in Flow
          PROVE  /\ Mods(toSwitch', f) = Mods(toSwitch, f)
                 /\ \A c : LastIs(toSwitch, f, c) => LastIs(toSwitch', f, c)
      <4>1. ~IsMod(STATS_REQUEST, f)
        BY DEF IsMod, STATS_REQUEST
      <4>2. toSwitch \in Queues /\ toSwitch' = Append(toSwitch, STATS_REQUEST)
        BY <2>6 DEF IInv, TypeOK, Queues, Request
      <4>3. QED
        BY <4>1, <4>2, QueuesTyped, AppendMods
    <3>3. ASSUME NEW f \in Flow PROVE FlowOK(f)'
      <4>1. FlowOK(f) /\ (f \in Tracked' <=> f \in Tracked)
        BY <3>1 DEF IInv, Tracked
      <4>2. MovesLast(f) => MovesLast(f)'
        BY <3>1 DEF MovesLast, Mods, LastIs
      <4>3. SentLast(f) => SentLast(f)'
        <5>1. Mods(toSwitch, f)' = Mods(toSwitch, f) /\ Mods(migrations, f)' = Mods(migrations, f)
          BY <3>1, <3>2 DEF Mods
        <5>2. \A c : LastIs(toSwitch, f, c) => LastIs(toSwitch, f, c)'
          BY <3>2 DEF LastIs, Mods
        <5>3. QED
          BY <3>1, <5>1, <5>2 DEF SentLast
      <4>4. Obeyed(f) => Obeyed(f)'
        BY <3>1, <3>2 DEF Obeyed, Mods, EntriesIn
      <4>5. Untouched(f) => Untouched(f)'
        BY <3>1, <3>2 DEF Untouched, Mods, EntriesIn
      <4>6. QED
        BY <4>1, <4>2, <4>3, <4>4, <4>5 DEF FlowOK
    <3>4. QED
      BY <3>3
  <2>7. CASE RequestFails \/ Receive \/ EndRound
    BY <2>7, FlowUnchanged DEF IInv, RequestFails, Receive, EndRound, table
  <2>8. CASE Control \/ Reconnect \/ \E f \in Flow : Traffic(f)
    <3>1. UNCHANGED table
      BY <2>8 DEF Control, Reconnect, Traffic, onSwitchConnection, _packet_in_handler,
                  Connect, Packet
    <3>2. UNCHANGED <<program, disturbed>>
      BY <2>8 DEF Control, Reconnect, Traffic
    <3>3. QED
      BY <3>1, <3>2, FlowUnchanged DEF IInv, program, table
  <2>9. CASE UNCHANGED vars
    BY <2>9, FlowUnchanged DEF IInv, vars, program, table
  <2>10. QED
    BY <2>1, <2>2, <2>3, <2>4, <2>5, <2>6, <2>7, <2>8, <2>9 DEF Next, Round
<1>3. QED
  BY <1>1, <1>2 DEF IInv

LEMMA Invariant == Spec => []IInv
  BY InitHolds, NextHolds, PTL DEF Spec
-----------------------------------------------------------------------------
(***************************************************************************)
(* Every variable stays in its type, for every set of flows and cores and  *)
(* however many messages are under way.                                    *)
(***************************************************************************)
THEOREM TypeCorrect == Spec => []TypeOK
<1>1. IInv => TypeOK
  BY DEF IInv
<1>2. QED
  BY <1>1, Invariant, PTL

(***************************************************************************)
(* The program and the switch agree on the core of every flow, up to what  *)
(* is under way, but for the exceptions the property names; the lost       *)
(* FLOW_MOD of openflow.c:381, the controller's late entry                  *)
(* (controller.py:197) and a restart are the only ways to disagree.        *)
(***************************************************************************)
THEOREM AgreementHolds == Spec => []AgreementUnlessDisturbed
<1>1. IInv => AgreementUnlessDisturbed
  <2> SUFFICES ASSUME IInv, NEW f \in Tracked \ lost
               PROVE  IF Mods(migrations, f) # {} THEN LastIs(migrations, f, assigned_core[f])
                      ELSE IF Mods(toSwitch, f) # {} THEN LastIs(toSwitch, f, assigned_core[f])
                      ELSE f \in disturbed \cup Icmp \/ EntriesIn(f, {assigned_core[f]})
    BY DEF AgreementUnlessDisturbed
  <2>1. MovesLast(f) /\ SentLast(f) /\ Obeyed(f)
    BY DEF IInv, FlowOK, Tracked
  <2>2. QED
    BY <2>1 DEF MovesLast, SentLast, Obeyed
<1>2. QED
  BY <1>1, Invariant, PTL

(***************************************************************************)
(* A round balances on what the switch does: its reply comes after every   *)
(* modification of the rounds before, however the messages are delayed.    *)
(***************************************************************************)
THEOREM BalancerSeesTheSwitch == Spec => []BalancerSeesSwitch
<1>1. IInv => BalancerSeesSwitch
  <2> SUFFICES ASSUME IInv, pc = "track", flows # NONE
               PROVE  /\ toSwitch = << >>
                      /\ \A f \in Tracked \ (lost \cup disturbed \cup Icmp) :
                           EntriesIn(f, {assigned_core[f]})
    BY DEF BalancerSeesSwitch
  <2>1. toSwitch = << >> /\ migrations = << >>
    BY DEF IInv, InOrder
  <2>2. \A f \in Tracked : Obeyed(f)
    BY DEF IInv, FlowOK, Tracked
  <2>3. QED
    BY <2>1, <2>2, EmptyMods DEF Obeyed
<1>2. QED
  BY <1>1, Invariant, PTL

(***************************************************************************)
(* Once the rule of host_egress is there, a flow of the host gets no entry *)
(* unless it was asked about before or everything is deleted.              *)
(***************************************************************************)
THEOREM HostTrafficStays == Spec => EgressClosed
<1>1. ASSUME TypeOK, [Next]_vars, NEW f \in HostFlow,
             "egress" \in static, ~Asked(f), ~UnderWay("DELETE"), added[f] = NONE
      PROVE  added'[f] = NONE /\ ~Asked(f)'
  <2>1. /\ f \in Flow /\ packet_ins \in [Flow -> Nat] /\ packet_ins[f] = 0
        /\ \A i \in 1 .. Len(commands) : commands[i] # add_flow(f) /\ commands[i].op # "DELETE"
        /\ commands \in Seq(Commands) /\ Len(commands) \in Nat
        /\ added \in [Flow -> Core \cup {NONE}]
    BY <1>1, SwitchAssumption, LenProperties
    DEF TypeOK, ControllerTypeOK, SwitchTypeOK, Asked, UnderWay
  <2>2. CASE UNCHANGED <<added, packet_ins, commands>>
    BY <1>1, <2>2 DEF Asked
  <2>3. CASE Obey
    <3>1. /\ Len(commands) > 0 /\ Head(commands) = commands[1]
          /\ Len(Tail(commands)) = Len(commands) - 1
          /\ \A i \in 1 .. Len(Tail(commands)) : Tail(commands)[i] = commands[i + 1]
          /\ Head(commands) \in Commands
      BY <2>1, <2>3, HeadTailProperties, LenProperties, EmptySeq DEF Obey
    <3>2. Head(commands).op # "DELETE" /\ Head(commands) # add_flow(f)
      BY <2>1, <3>1
    <3>3. ASSUME NEW i \in 1 .. Len(Tail(commands)) PROVE Tail(commands)[i] # add_flow(f)
      BY <2>1, <3>1
    <3>4. ~Asked(f)'
      BY <2>1, <2>3, <3>3 DEF Obey, Asked
    <3>5. Head(commands).op = "ADD" => Head(commands).flow # f
      BY <3>1, <3>2 DEF add_flow, Command, Commands
    <3>6. added'[f] = added[f]
      BY <2>1, <2>3, <3>2, <3>5 DEF Obey, Add, table
    <3>7. QED
      BY <1>1, <3>4, <3>6
  <2>4. CASE onSwitchConnection
    <3>1. Setup \in Seq(Commands) /\ \A i \in 1 .. Len(Setup) : Setup[i] # add_flow(f)
      <4>1. Len(Generated) \in Nat /\ \A i \in 1 .. Len(Generated) : Generated[i] # f
        BY <1>1, ControllerAssumption, ElementOfSeq, LenProperties DEF NetworkFlow
      <4>2. DEFINE first == <<Command("DELETE", AnyFlow), Command("ARP", AnyFlow),
                              Command("EGRESS", AnyFlow)>>
      <4>3. AnyFlow \in Flow
        BY SwitchAssumption DEF AnyFlow
      <4>4. first \in Seq(Commands) /\ Len(first) = 3
        BY <4>3 DEF Command, Commands
      <4>5. \A i \in 1 .. 3 : first[i] # add_flow(f)
        BY DEF Command, add_flow
      <4>6. /\ generate_flows \in Seq(Commands) /\ Len(generate_flows) = Len(Generated)
            /\ \A i \in 1 .. Len(Generated) : generate_flows[i] # add_flow(f)
        <5>1. \A i \in 1 .. Len(Generated) : add_flow(Generated[i]) \in Commands
          BY ControllerAssumption, ElementOfSeq DEF add_flow, Command, Commands, NetworkFlow
        <5>2. QED
          BY <4>1, <5>1 DEF generate_flows, add_flow, Command
      <4>7. /\ Len(first \o generate_flows) = 3 + Len(Generated)
            /\ \A i \in 1 .. 3 + Len(Generated) :
                 (first \o generate_flows)[i] =
                   IF i <= 3 THEN first[i] ELSE generate_flows[i - 3]
        BY <4>4, <4>6, ConcatProperties
      <4>8. Setup = first \o generate_flows
        BY DEF Setup
      <4>9. ASSUME NEW i \in 1 .. Len(Setup) PROVE Setup[i] # add_flow(f)
        <5>1. CASE i <= 3
          BY <4>1, <4>5, <4>7, <4>8, <4>9, <5>1
        <5>2. CASE ~(i <= 3)
          <6>1. i - 3 \in 1 .. Len(Generated) /\ Setup[i] = generate_flows[i - 3]
            BY <4>1, <4>7, <4>8, <4>9, <5>2
          <6>2. QED
            BY <4>6, <6>1
        <5>3. QED
          BY <5>1, <5>2
      <4>10. QED
        BY <4>9, SetupTyped
    <3>2. /\ commands' = commands \o Setup /\ Len(Setup) \in Nat
          /\ Len(commands') = Len(commands) + Len(Setup)
          /\ \A i \in 1 .. Len(commands) + Len(Setup) :
               commands'[i] = IF i <= Len(commands) THEN commands[i] ELSE Setup[i - Len(commands)]
      BY <2>1, <2>4, <3>1, ConcatProperties, LenProperties DEF onSwitchConnection
    <3>3. ASSUME NEW i \in 1 .. Len(commands') PROVE commands'[i] # add_flow(f)
      <4>1. CASE i <= Len(commands)
        BY <2>1, <3>2, <4>1
      <4>2. CASE ~(i <= Len(commands))
        <5>1. i - Len(commands) \in 1 .. Len(Setup)
          BY <2>1, <3>2, <4>2
        <5>2. QED
          BY <2>1, <3>1, <3>2, <4>2, <5>1
      <4>3. QED
        BY <4>1, <4>2
    <3>4. QED
      BY <1>1, <2>1, <2>4, <3>3 DEF onSwitchConnection, table, Asked, add_flow, Command
  <2>5. CASE \E g \in Flow : _packet_in_handler(g)
    <3>1. PICK g \in Flow : _packet_in_handler(g)
      BY <2>5
    <3>2. g # f
      BY <2>1, <3>1 DEF _packet_in_handler
    <3>3. packet_ins'[f] = 0 /\ added' = added
      BY <2>1, <3>1, <3>2 DEF _packet_in_handler, table
    <3>4. add_flow(g) # add_flow(f) /\ add_flow(g) \in Commands
      BY <3>2 DEF add_flow, Command, Commands
    <3>5. \A i \in 1 .. Len(commands') : commands'[i] # add_flow(f)
      <4>1. CASE commands' = commands
        BY <2>1, <4>1
      <4>2. CASE commands' = Append(commands, add_flow(g))
        <5>1. /\ Len(commands') = Len(commands) + 1
              /\ commands'[Len(commands) + 1] = add_flow(g)
              /\ \A i \in 1 .. Len(commands) : commands'[i] = commands[i]
          BY <2>1, <3>4, <4>2, AppendProperties
        <5>2. \A i \in 1 .. Len(commands') : i \in 1 .. Len(commands) \/ i = Len(commands) + 1
          BY <2>1, <5>1
        <5>3. QED
          BY <2>1, <3>4, <5>1, <5>2
      <4>3. QED
        BY <3>1, <4>1, <4>2 DEF _packet_in_handler
    <3>6. QED
      BY <1>1, <3>3, <3>5 DEF Asked, add_flow, Command
  <2>6. CASE \E g \in Flow : Packet(g)
    <3>1. PICK g \in Flow : Packet(g)
      BY <2>6
    <3>2. g # f
      BY <1>1, <3>1 DEF Packet, Handled, Egress
    <3>3. packet_ins'[f] = 0 /\ UNCHANGED <<added, commands>>
      BY <2>1, <3>1, <3>2 DEF Packet, table
    <3>4. QED
      BY <1>1, <2>1, <3>3 DEF Asked
  <2>7. CASE Connect
    BY <1>1, <2>1, <2>7, EmptySeq DEF Connect, table, Asked
  <2>8. CASE ObeyProgram
    <3>1. UNCHANGED controller
      BY <2>8 DEF ObeyProgram
    <3>2. ~Asked(f)'
      BY <1>1, <3>1 DEF controller, Asked
    <3>3. added'[f] = NONE
      BY <1>1, <2>1, <2>8 DEF ObeyProgram, Modify, table
    <3>4. QED
      BY <3>2, <3>3
  <2>9. QED
    <3>1. CASE Round \/ Restart \/ UNCHANGED vars
      BY <2>2, <3>1 DEF Round, Request, RequestFails, Receive, get_migrations, apply_migration,
                        EndRound, Restart, vars, table, controller
    <3>2. QED
      BY <1>1, <2>3, <2>4, <2>5, <2>6, <2>7, <2>8, <3>1
      DEF Next, ObeyController, Control, Reconnect, Traffic
<1>2. TypeOK /\ [Next]_vars =>
        [\A f \in HostFlow :
           /\ "egress" \in static /\ ~Asked(f) /\ ~UnderWay("DELETE")
           /\ added[f] = NONE
           => added'[f] = NONE /\ ~Asked(f)']_<<table, static, controller>>
  BY <1>1
<1>3. QED
  BY <1>2, TypeCorrect, PTL DEF Spec, EgressClosed
=============================================================================
