----------------------------- MODULE Controller -----------------------------
(***************************************************************************)
(* The controller (src/controller/controller.py), a Ryu application, and   *)
(* its connection to the switch.  It starts each connection over with an   *)
(* empty table and installs a flow's entry, with the default VLAN, when    *)
(* the switch asks what to do with a packet.  Ryu runs its handlers one at *)
(* a time; the switch may ask several times before the entry is there.     *)
(***************************************************************************)
EXTENDS Switch

CONSTANTS Unsupported,    \* neither TCP, UDP nor ICMP
          Generated,      \* sequence of the flows generate_flows installs
          MaxPacketIns,   \* bound: PACKET_INs of a flow under way
          MaxCommands,    \* bound: FLOW_MODs of the controller under way
          MaxConnections  \* bound: connections of the switch

ASSUME ControllerAssumption ==
         /\ Unsupported \subseteq Flow
         /\ Generated \in Seq(NetworkFlow \ (Icmp \cup Unsupported))
         /\ MaxPacketIns \in Nat /\ MaxCommands \in Nat /\ MaxConnections \in Nat

VARIABLES packet_ins,    \* PACKET_INs of each flow under way to the controller
          commands,      \* FLOW_MODs under way to the switch
          entering,      \* EventSwitchEnter not handled yet
          connections    \* connections so far

controller == <<packet_ins, commands, entering, connections>>

Command(op, f) == [op |-> op, flow |-> f]
AnyFlow == CHOOSE f \in Flow : TRUE   \* in a command that is not about a flow

\* add_flow
add_flow(f) == Command("ADD", f)

\* generate_flows
generate_flows == [i \in 1 .. Len(Generated) |-> add_flow(Generated[i])]

\* Faulty variant, for the mutants: deletes what it has just installed.
SetupDeletesLast ==
  <<Command("ARP", AnyFlow), Command("EGRESS", AnyFlow), Command("DELETE", AnyFlow)>>
    \o generate_flows

\* delete_all_flows, arp_flood, host_egress, generate_flows
Setup ==
  <<Command("DELETE", AnyFlow), Command("ARP", AnyFlow), Command("EGRESS", AnyFlow)>>
    \o generate_flows

onSwitchConnection ==
  /\ entering > 0
  /\ entering' = entering - 1
  /\ commands' = commands \o Setup
  /\ UNCHANGED <<packet_ins, connections, table, static>>

\* add_flow raises an exception for a protocol it does not know.
_packet_in_handler(f) ==
  /\ packet_ins[f] > 0
  /\ Len(commands) < MaxCommands
  /\ packet_ins' = [packet_ins EXCEPT ![f] = @ - 1]
  /\ commands' = IF f \in Unsupported THEN commands ELSE Append(commands, add_flow(f))
  /\ UNCHANGED <<entering, connections, table, static>>
-----------------------------------------------------------------------------
(* The switch, external. *)

\* host_egress: the flows of the rule, those that enter at HOST_PORT.
Egress == HostFlow

\* Is there a rule for it?
Handled(f) == Hit(f) # NONE \/ ("egress" \in static /\ f \in Egress)

\* A packet without a rule goes to the controller.
Packet(f) ==
  /\ connections > 0
  /\ ~Handled(f)
  /\ packet_ins[f] < MaxPacketIns
  /\ packet_ins' = [packet_ins EXCEPT ![f] = @ + 1]
  /\ UNCHANGED <<commands, entering, connections, table, static>>

Obey ==
  /\ commands # << >>
  /\ commands' = Tail(commands)
  /\ \/ Head(commands).op = "DELETE" /\ DeleteAll
     \/ Head(commands).op = "ARP" /\ static' = static \cup {"arp"} /\ UNCHANGED table
     \/ Head(commands).op = "EGRESS" /\ static' = static \cup {"egress"} /\ UNCHANGED table
     \/ Head(commands).op = "ADD" /\ Add(Head(commands).flow) /\ UNCHANGED static
  /\ UNCHANGED <<packet_ins, entering, connections>>

\* The switch connects, for the first time or again: what was under way is
\* lost, the table stays.
Connect ==
  /\ connections < MaxConnections
  /\ connections' = connections + 1
  /\ packet_ins' = [f \in Flow |-> 0] /\ commands' = << >>
  /\ entering' = entering + 1
  /\ UNCHANGED <<table, static>>
-----------------------------------------------------------------------------
ControllerInit ==
  /\ SwitchInit
  /\ packet_ins = [f \in Flow |-> 0] /\ commands = << >>
  /\ entering = 0 /\ connections = 0

Commands == [op : {"DELETE", "ARP", "EGRESS", "ADD"}, flow : Flow]

ControllerTypeOK ==
  /\ SwitchTypeOK
  /\ packet_ins \in [Flow -> Nat]
  /\ commands \in Seq(Commands)
  /\ entering \in Nat /\ connections \in Nat

UnderWay(op) == \E i \in 1 .. Len(commands) : commands[i].op = op
Asked(f) ==
  packet_ins[f] > 0 \/ \E i \in 1 .. Len(commands) : commands[i] = add_flow(f)

(***************************************************************************)
(* The rule for the host's traffic is there in the end, once the switch    *)
(* stays connected, whatever the handlers' order: the deletion that starts *)
(* a connection comes before the rule (controller.py:57-59).               *)
(***************************************************************************)
EgressStays == <>[]("egress" \in static)

(***************************************************************************)
(* Once that rule is there, nothing asks the controller about the host's   *)
(* flows any more, so that no entry takes one from the rule: an entry      *)
(* always sends to the host's port (controller.py:196), where it came      *)
(* from.  Only a flow asked about before is taken, or after a deletion.    *)
(***************************************************************************)
EgressClosed ==
  [][\A f \in HostFlow :
       /\ "egress" \in static /\ ~Asked(f) /\ ~UnderWay("DELETE")
       /\ added[f] = NONE
       => added'[f] = NONE /\ ~Asked(f)']_<<table, static, controller>>
=============================================================================
