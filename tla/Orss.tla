-------------------------------- MODULE Orss --------------------------------
(***************************************************************************)
(* The whole system: the program, the controller and the switch between    *)
(* them, which both write to.  The program thinks a flow is on the core    *)
(* assigned_core says; its packets go to the core of the VLAN of the entry *)
(* they meet.  The program is reduced to what passes between its table and *)
(* the switch: Tracker has the table, Balancer the choice of the moves,    *)
(* OpenFlow the connection.                                                *)
(***************************************************************************)
EXTENDS Controller

CONSTANTS OutCap,        \* bound: messages the outgoing socket buffer holds
          MaxMoves,      \* bound: migrations of a round (10)
          MaxRestarts    \* bound: restarts of the program

ASSUME OrssAssumption == OutCap \in Nat /\ MaxMoves \in Nat /\ MaxRestarts \in Nat

VARIABLES
  pc,              \* where the program is in its round
  call,            \* which of its two openflow_get_flows
  flows,           \* the flows it has got, or NONE while it has none
  assigned_core,   \* of the flows in its table
  migrations,      \* those of the round that are not applied yet
  toSwitch,        \* what is under way to the switch
  answer,          \* the reply that is under way from it, or NONE
  restarts,
  lost,            \* ghost: the last FLOW_MOD of the flow was not written
  disturbed        \* ghost: another wrote the flow's entry, or the program forgot

program == <<pc, call, flows, assigned_core, migrations, toSwitch, answer, restarts, lost>>
vars    == <<program, disturbed, table, static, controller>>

STATS_REQUEST == [type |-> "STATS_REQUEST", flow |-> AnyFlow, core |-> 0]
FLOW_MOD(f, core) == [type |-> "FLOW_MOD", flow |-> f, core |-> core]
Messages == [type : {"STATS_REQUEST", "FLOW_MOD"}, flow : Flow, core : Core]

Tracked == {f \in Flow : assigned_core[f] # NONE}

\* The modifications of f in a queue, and whether the last is to a core.
Mods(queue, f) == {i \in 1 .. Len(queue) : queue[i].type = "FLOW_MOD" /\ queue[i].flow = f}

LastIs(queue, f, core) ==
  \E i \in Mods(queue, f) : queue[i].core = core /\ \A j \in Mods(queue, f) : j <= i

CanWrite == Len(toSwitch) < OutCap
-----------------------------------------------------------------------------
(* The round. *)

AfterCall == IF call = 1 THEN "request" ELSE "track"

\* openflow_get_flows: a request that cannot be written ends it.
Request ==
  /\ pc = "request"
  /\ CanWrite
  /\ toSwitch' = Append(toSwitch, STATS_REQUEST)
  /\ pc' = "wait"
  /\ UNCHANGED <<call, flows, assigned_core, migrations, answer, restarts, lost>>
  /\ UNCHANGED <<disturbed, table, static, controller>>

RequestFails ==
  /\ pc = "request"
  /\ ~CanWrite
  /\ pc' = AfterCall /\ call' = 2
  /\ UNCHANGED <<flows, assigned_core, migrations, toSwitch, answer, restarts, lost>>
  /\ UNCHANGED <<disturbed, table, static, controller>>

Receive ==
  /\ pc = "wait" /\ answer # NONE
  /\ flows' = answer /\ answer' = NONE
  /\ pc' = AfterCall /\ call' = 2
  /\ UNCHANGED <<assigned_core, migrations, toSwitch, restarts, lost>>
  /\ UNCHANGED <<disturbed, table, static, controller>>

\* Faulty variant, for the mutants: starts a flow on another core.
StartAnywhere == CHOOSE c \in Core : c # 0

\* ringbuffer_init clears the record.
Start == 0

\* Faulty variant, for the mutants: does not create them.
KnownOnly == Tracked

\* The flows in the table once those of the reply have been created.
Known == Tracked \cup (IF flows = NONE THEN {} ELSE flows)

\* What balancer_balance can leave: a flow is on the core of its last migration
\* (MigrationsReplay in Balancer).
Balanced(moves) ==
  {cores \in [Flow -> Core \cup {NONE}] :
     \A f \in Flow :
       IF Mods(moves, f) # {} THEN LastIs(moves, f, cores[f])
       ELSE cores[f] = IF f \in Known \ Tracked THEN Start ELSE assigned_core[f]}

\* A flow of the reply that is not in the table is created; then the balancer
\* moves whatever flows to whatever cores.
get_migrations ==
  /\ pc = "track"
  /\ pc' = "apply"
  /\ \E n \in 0 .. MaxMoves :
       \E moves \in [1 .. n -> {FLOW_MOD(f, core) : f \in Known, core \in Core}] :
         /\ migrations' = moves
         /\ assigned_core' \in Balanced(moves)
  /\ UNCHANGED <<call, flows, toSwitch, answer, restarts, lost>>
  /\ UNCHANGED <<disturbed, table, static, controller>>

\* apply_migration: a FLOW_MOD that cannot be written is reported, and forgotten.
apply_migration ==
  /\ pc = "apply" /\ migrations # << >>
  /\ migrations' = Tail(migrations)
  /\ toSwitch' = IF CanWrite THEN Append(toSwitch, Head(migrations)) ELSE toSwitch
  /\ lost' = IF CanWrite THEN lost \ {Head(migrations).flow} ELSE lost \cup {Head(migrations).flow}
  /\ UNCHANGED <<pc, call, flows, assigned_core, answer, restarts>>
  /\ UNCHANGED <<disturbed, table, static, controller>>

\* Faulty variant, for the mutants: the flows are kept.
FreedNot == flows

Freed == NONE

\* The flows are freed; after a second the next round begins, with none.
EndRound ==
  /\ pc = "apply" /\ migrations = << >>
  /\ pc' = "request" /\ call' = 1
  /\ flows' = Freed
  /\ UNCHANGED <<assigned_core, migrations, toSwitch, answer, restarts, lost>>
  /\ UNCHANGED <<disturbed, table, static, controller>>

\* The program ends, or dies, and is started again: its table is empty, what
\* was under way is lost, and the switch has the VLANs it gave.
Restart ==
  /\ restarts < MaxRestarts /\ restarts' = restarts + 1
  /\ pc' = "request" /\ call' = 1 /\ flows' = NONE
  /\ assigned_core' = NoEntries
  /\ migrations' = << >> /\ toSwitch' = << >> /\ answer' = NONE
  /\ lost' = {}
  /\ disturbed' = {f \in Flow : ~({added[f], modified[f]} \subseteq {0, NONE})}
  /\ UNCHANGED <<table, static, controller>>
-----------------------------------------------------------------------------
(* The switch and the controller. *)

ObeyProgram ==
  /\ toSwitch # << >>
  /\ toSwitch' = Tail(toSwitch)
  /\ LET m == Head(toSwitch)
     IN  \/ /\ m.type = "STATS_REQUEST"
            /\ answer' = Stats
            /\ UNCHANGED <<disturbed, table>>
         \/ /\ m.type = "FLOW_MOD"
            /\ Modify(m.flow, m.core)
            /\ disturbed' = disturbed \ {m.flow}
            /\ UNCHANGED answer
  /\ UNCHANGED <<pc, call, flows, assigned_core, migrations, restarts, lost, static, controller>>

\* An entry added anew has the default VLAN, whatever the flow's core is.
ObeyController ==
  /\ Obey
  /\ disturbed' = IF Head(commands).op = "ADD"
                  THEN disturbed \cup ({Head(commands).flow} \cap Tracked)
                  ELSE disturbed
  /\ UNCHANGED program

Traffic(f) == Packet(f) /\ UNCHANGED <<program, disturbed>>

Control ==
  /\ onSwitchConnection \/ \E f \in Flow : _packet_in_handler(f)
  /\ UNCHANGED <<program, disturbed>>

Reconnect == Connect /\ UNCHANGED <<program, disturbed>>
-----------------------------------------------------------------------------
Init ==
  /\ ControllerInit
  /\ pc = "request" /\ call = 1 /\ flows = NONE
  /\ assigned_core = NoEntries
  /\ migrations = << >> /\ toSwitch = << >> /\ answer = NONE
  /\ restarts = 0 /\ lost = {} /\ disturbed = {}

Round ==
  \/ Request \/ RequestFails \/ Receive \/ get_migrations
  \/ apply_migration \/ EndRound

Next ==
  \/ Round
  \/ Restart
  \/ ObeyProgram \/ ObeyController \/ Control \/ Reconnect
  \/ \E f \in Flow : Traffic(f)

Spec == Init /\ [][Next]_vars

\* The program, the switch and Ryu keep running, a flow goes on sending, and the
\* second between two rounds lets the socket drain.
FairSpec ==
  /\ Spec
  /\ WF_vars(Round) /\ SF_vars(Request)
  /\ WF_vars(ObeyProgram) /\ WF_vars(ObeyController)
  /\ WF_vars(Reconnect /\ connections = 0)
  /\ WF_vars(onSwitchConnection /\ UNCHANGED <<program, disturbed>>)
  /\ \A f \in Flow :
       /\ WF_vars(Traffic(f))
       /\ SF_vars(_packet_in_handler(f) /\ UNCHANGED <<program, disturbed>>)
-----------------------------------------------------------------------------
TypeOK ==
  /\ ControllerTypeOK
  /\ pc \in {"request", "wait", "track", "apply"}
  /\ call \in {1, 2}
  /\ flows \in (SUBSET NetworkFlow) \cup {NONE}
  /\ answer \in (SUBSET NetworkFlow) \cup {NONE}
  /\ assigned_core \in [Flow -> Core \cup {NONE}]
  /\ migrations \in Seq(Messages) /\ toSwitch \in Seq(Messages)
  /\ restarts \in Nat
  /\ lost \subseteq Flow /\ disturbed \subseteq Flow

EntriesIn(f, cores) == {added[f], modified[f]} \subseteq cores \cup {NONE}

(***************************************************************************)
(* A flow is on the core the program thinks, or will be once what is under *)
(* way has arrived, through any interleaving of migrations with other      *)
(* rounds, deletions and modifications that make a second entry.  The      *)
(* exceptions are exactly these: a FLOW_MOD that was not written, until    *)
(* the flow is moved again; and an entry written by the controller after   *)
(* the flow was known, or known to a program that has been restarted,      *)
(* until a FLOW_MOD arrives.  The entry of an ICMP flow is never changed.  *)
(***************************************************************************)
AgreementUnlessDisturbed ==
  \A f \in Tracked \ lost :
    IF Mods(migrations, f) # {} THEN LastIs(migrations, f, assigned_core[f])
    ELSE IF Mods(toSwitch, f) # {} THEN LastIs(toSwitch, f, assigned_core[f])
    ELSE f \in disturbed \cup Icmp \/ EntriesIn(f, {assigned_core[f]})

(***************************************************************************)
(* Migrations of a round are never decided on a table the switch has not   *)
(* caught up with: a round whose flows come from the switch starts to      *)
(* balance when every earlier FLOW_MOD has been obeyed, so that the loads  *)
(* it looks at are those of the cores it has in mind.                      *)
(***************************************************************************)
BalancerSeesSwitch ==
  pc = "track" /\ flows # NONE =>
    /\ toSwitch = << >>
    /\ \A f \in Tracked \ (lost \cup disturbed \cup Icmp) : EntriesIn(f, {assigned_core[f]})

(***************************************************************************)
(* A flow from the network that goes on sending is known to the program in *)
(* the end, through deletions, lost PACKET_INs, failed requests and        *)
(* restarts.                                                               *)
(***************************************************************************)
FlowsAreTracked ==
  \A f \in NetworkFlow \ Unsupported : f \notin Tracked ~> f \in Tracked
-----------------------------------------------------------------------------
Settled(f) ==
  ~Asked(f) /\ Mods(migrations, f) = {} /\ Mods(toSwitch, f) = {}

(***************************************************************************)
(* "ensuring Flow-to-core affinity" (README.md:9): with nothing under way  *)
(* for a flow, its packets go to the core the program has assigned to it.  *)
(* Does not hold: a second PACKET_IN of a new flow, handled after the flow *)
(* has been moved, puts the default VLAN back until it is moved again; and *)
(* the entry of an ICMP flow leaves the destination open, so that no       *)
(* migration of the flow matches it: what is added instead is met by no    *)
(* packet.                                                                 *)
(***************************************************************************)
FlowToCoreAffinity ==
  \A f \in Tracked : Settled(f) => Hit(f) \in {NONE, assigned_core[f]}
=============================================================================
