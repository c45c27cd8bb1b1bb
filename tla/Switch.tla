------------------------------- MODULE Switch -------------------------------
(***************************************************************************)
(* The flow table of the switch (Open vSwitch, OpenFlow 1.0), external, as *)
(* far as the controller (src/controller/controller.py) and the program    *)
(* (src/src/openflow.c) use it.  An entry is reduced to the core its VLAN  *)
(* stands for.  A flow can have two: the one the controller adds, and one  *)
(* of lower priority that the program's modification makes when it finds   *)
(* nothing to modify.                                                      *)
(***************************************************************************)
EXTENDS Integers, Sequences

CONSTANTS Flow,
          HostFlow,    \* enter at the port of the host
          Icmp,        \* their added entry leaves the destination open
          Core,        \* VLANs; 0 is the default
          NONE

ASSUME SwitchAssumption ==
         /\ Flow # {} /\ HostFlow \subseteq Flow /\ Icmp \subseteq Flow
         /\ 0 \in Core
         /\ NONE \notin Core /\ \A reply \in SUBSET Flow : reply # NONE

VARIABLES added, modified,   \* the entries of each flow
          static             \* which of the rules for ARP and for egress exist

table == <<added, modified>>
NetworkFlow == Flow \ HostFlow

NoEntries == [f \in Flow |-> NONE]

\* What a packet of f meets.  The entry a modification makes for an ICMP flow
\* has the destination 0.0.0.0, which no packet has.
Hit(f) == IF added[f] # NONE \/ f \in Icmp THEN added[f] ELSE modified[f]

\* OFPFC_ADD takes the place of an entry with the same match and priority.
Add(f) ==
  /\ added' = [added EXCEPT ![f] = 0]
  /\ UNCHANGED modified

\* Faulty variant, for the mutants: the VLANs of the cores are counted from 1.
ModifyFromOne(f, core) ==
  /\ added' = [added EXCEPT ![f] = IF @ = NONE THEN NONE ELSE core + 1]
  /\ modified' = [modified EXCEPT ![f] = IF @ = NONE THEN NONE ELSE core + 1]

\* OFPFC_MODIFY changes the entries that are as narrow as its match, and makes
\* one if there is none.
Modify(f, core) ==
  LET wide == added[f] = NONE \/ f \in Icmp
  IN  /\ added' = IF wide THEN added ELSE [added EXCEPT ![f] = core]
      /\ modified' = IF wide \/ modified[f] # NONE
                     THEN [modified EXCEPT ![f] = core] ELSE modified

\* OFPFC_DELETE with everything wildcarded.
DeleteAll ==
  /\ added' = NoEntries /\ modified' = NoEntries
  /\ static' = {}

\* The flows of a statistics reply, which asks for those of the network's port.
Stats == {f \in NetworkFlow : added[f] # NONE \/ modified[f] # NONE}

SwitchInit == added = NoEntries /\ modified = NoEntries /\ static = {}

SwitchTypeOK ==
  /\ added \in [Flow -> Core \cup {NONE}]
  /\ modified \in [Flow -> Core \cup {NONE}]
  /\ static \subseteq {"arp", "egress"}
=============================================================================
