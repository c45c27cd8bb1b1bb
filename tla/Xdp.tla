-------------------------------- MODULE Xdp --------------------------------
(***************************************************************************)
(* The XDP programs (src/src/bpf/xdp.bpf.c), which mark in a per-CPU hash  *)
(* map what packets of a connection have passed.  Each CPU runs one        *)
(* program at a time, to its end; the map is shared, the value of an       *)
(* element has a slot for each CPU.  The map itself (the kernel's          *)
(* BPF_MAP_TYPE_PERCPU_HASH) is external.  Nobody deletes an element: the  *)
(* user-space side is commented out (main.c:47-163).                       *)
(***************************************************************************)
EXTENDS FiniteSets, Integers

CONSTANTS CPU,
          Remote, Local,   \* addresses and ports of the two sides
          NONE,
          max_entries      \* of the map (4096 * 64)

ASSUME XdpAssumption ==
         /\ Remote \cap Local = {}
         /\ max_entries \in Nat
         /\ \A state \in SUBSET {"SYN", "SYNACK", "ACK"} : state # NONE
         /\ \A slots \in [CPU -> SUBSET {"SYN", "SYNACK", "ACK"}] : slots # NONE

VARIABLES connections,   \* the map: of each tuple the slots, or NONE
          running        \* of each CPU the update it is at, or NONE

vars == <<connections, running>>

End   == Remote \cup Local
Tuple == End \X End \X {"TCP", "UDP"}
ConnectionState == {"SYN", "SYNACK", "ACK", "FIN"}

\* A packet: its protocol, its TCP flags, and whether it is long enough.
Packets == [proto : {"TCP", "UDP", "other"}, bits : SUBSET {"fin", "syn", "ack"},
            long : BOOLEAN]

\* parse_headers
parse_headers(p) ==
  CASE ~p.long                                  -> "ERROR"
    [] p.long /\ p.proto = "UDP"                -> "UDP"
    [] p.long /\ p.proto = "other"              -> "NOT_TCP"
    [] p.long /\ p.proto = "TCP"                ->
         CASE "fin" \in p.bits                            -> "FIN"
           [] p.bits = {"syn"}                            -> "SYN"
           [] p.bits = {"syn", "ack"}                     -> "SYNACK"
           [] p.bits = {"ack"}                            -> "ACK"
           [] p.bits = {}                                 -> "NO_FLAGS"

\* Faulty variant, for the mutants: with the line that is commented out.
StateWithFin(flags) ==
  IF flags = "UDP" THEN {"SYN", "SYNACK", "ACK"} ELSE {flags} \cap ConnectionState

\* What the programs mark: for UDP a whole handshake, for FIN nothing.
State(flags) ==
  IF flags = "UDP" THEN {"SYN", "SYNACK", "ACK"} ELSE {flags} \cap {"SYN", "SYNACK", "ACK"}

Ignored(flags) == flags \in {"ERROR", "NO_FLAGS", "NOT_TCP"}

\* Faulty variant, for the mutants: the tuple as it is.
SwapNot(t) == t

swap_tuple(t) == <<t[2], t[1], t[3]>>

\* update_connection_state, as far as its lookup.
Lookup(cpu, t, state) ==
  running' = [running EXCEPT
                ![cpu] = [tuple |-> t, state |-> state, found |-> connections[t] # NONE]]

\* A packet from the network.
xdp_rx(cpu, from, to, p) ==
  /\ running[cpu] = NONE
  /\ ~Ignored(parse_headers(p))
  /\ Lookup(cpu, <<from, to, p.proto>>, State(parse_headers(p)))
  /\ UNCHANGED connections

\* A packet to the network; UDP is not recorded on this side.
xdp_tx(cpu, from, to, p) ==
  /\ running[cpu] = NONE
  /\ ~Ignored(parse_headers(p)) /\ parse_headers(p) # "UDP"
  /\ Lookup(cpu, swap_tuple(<<from, to, p.proto>>), State(parse_headers(p)))
  /\ UNCHANGED connections

\* Faulty variant, for the mutants: the old marks are not taken over.
MergeForgets(old, state) == state

Merge(old, state) == old \cup state

(***************************************************************************)
(* The update.  An element that was found has its slot marked.  One that   *)
(* was not may be there by now, and has its slot overwritten; a new one    *)
(* has the other slots clear, if the map has room for it.                  *)
(***************************************************************************)
Update(cpu) ==
  LET t     == running[cpu].tuple
      state == running[cpu].state
  IN  /\ running[cpu] # NONE
      /\ running' = [running EXCEPT ![cpu] = NONE]
      /\ \/ /\ connections[t] # NONE
            /\ connections' = [connections EXCEPT
                 ![t][cpu] = IF running[cpu].found THEN Merge(@, state) ELSE state]
         \/ /\ connections[t] = NONE
            /\ Cardinality({u \in Tuple : connections[u] # NONE}) < max_entries
            /\ connections' = [connections EXCEPT
                 ![t] = [c \in CPU |-> IF c = cpu THEN state ELSE {}]]
         \/ /\ connections[t] = NONE
            /\ Cardinality({u \in Tuple : connections[u] # NONE}) >= max_entries
            /\ UNCHANGED connections

Init ==
  /\ connections = [t \in Tuple |-> NONE]
  /\ running = [c \in CPU |-> NONE]

Next ==
  \E cpu \in CPU :
    \/ \E r \in Remote, l \in Local, p \in Packets :
         xdp_rx(cpu, r, l, p) \/ xdp_tx(cpu, l, r, p)
    \/ Update(cpu)

Spec == Init /\ [][Next]_vars
-----------------------------------------------------------------------------
TypeOK ==
  /\ connections \in [Tuple -> [CPU -> SUBSET {"SYN", "SYNACK", "ACK"}] \cup {NONE}]
  /\ running \in [CPU -> [tuple : Tuple, state : SUBSET {"SYN", "SYNACK", "ACK"},
                          found : BOOLEAN] \cup {NONE}]

(***************************************************************************)
(* Both directions of a connection are in one record, that of the packets  *)
(* from the network: only xdp_tx swaps.                                    *)
(***************************************************************************)
OneRecordPerConnection ==
  \A t \in Tuple : connections[t] # NONE => <<t[1], t[2]>> \in Remote \X Local

\* What user space collects of a record (collect_map, commented out): the marks
\* of all CPUs.
Collected ==
  [k \in Remote \X Local \X {"TCP", "UDP"} |->
     IF connections[k] = NONE THEN NONE ELSE UNION {connections[k][c] : c \in CPU}]

Ends(cpu) == running[cpu] # NONE /\ running'[cpu] = NONE

Abstract == INSTANCE ConnTrack WITH seen <- Collected

(***************************************************************************)
(* No mark is lost, although two CPUs may both find no record and both     *)
(* make one, and a lookup may be stale by the time of the update: every    *)
(* update leaves its marks beside those of all the others.                 *)
(***************************************************************************)
ImplementsConnTrack ==
  /\ Abstract!Init
  /\ [][\/ \E cpu \in CPU :
             Ends(cpu) /\ Abstract!Pass(running[cpu].tuple, running[cpu].state)
        \/ (\A cpu \in CPU : ~Ends(cpu)) /\ UNCHANGED Collected]_vars
=============================================================================
