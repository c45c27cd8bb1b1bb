------------------------------ MODULE OpenFlow ------------------------------
(***************************************************************************)
(* The OpenFlow connection (src/openflow.c) and the rounds the main loop   *)
(* makes over it (src/main.c): handshake, answering of echo requests, two  *)
(* flow statistics requests a round, flow modifications, termination.      *)
(*                                                                         *)
(* The two directions of the TCP connection are queues of messages.  The   *)
(* socket is non-blocking: reading an empty queue finds nothing, writing   *)
(* to a full one fails.  The first message of the incoming queue may have  *)
(* arrived in part only.  A part of a header is taken for a message: from  *)
(* then on the stream is torn, and what the program reads are pieces of    *)
(* messages ("MISREAD") that may pass for anything.  The switch is         *)
(* external; it answers requests in order and sends echo requests and      *)
(* other messages whenever it likes.                                       *)
(***************************************************************************)
EXTENDS Integers, Sequences, FiniteSetsExt

CONSTANTS XID,               \* number of transaction ids, 2^32
          BufferSlots,       \* elements of msg_buffer (16)
          MAX_HANDLED_FLOWS,
          MAX_STATS_REPLY,
          MAX_ACTIONS,
          ActionsPerFlow,    \* of the entries installed: a VLAN and an output
          InitBuffered,      \* what nb_msg_buffered, never initialised, may be
          OutCap,            \* bound: messages the outgoing socket buffer holds
          MaxAsync,          \* bound: unsolicited messages of the switch
          MaxParts,          \* bound: messages of one statistics reply
          MaxFlows,          \* bound: flows of the switch
          MaxMods,           \* bound: migrations of a round
          MaxPieces,         \* bound: pieces of a torn stream that wait to be read
          Arrivals,          \* how much of a message may arrive at first
          MayClose           \* may the switch close the connection?

ASSUME OpenFlowAssumption ==
         /\ XID \in Nat \ {0}
         /\ {BufferSlots, MAX_HANDLED_FLOWS, MAX_STATS_REPLY} \subseteq Nat
         /\ {MAX_ACTIONS, ActionsPerFlow} \subseteq Nat
         /\ InitBuffered \subseteq Nat
         /\ {OutCap, MaxAsync, MaxFlows, MaxMods} \subseteq Nat
         /\ {MaxParts, MaxPieces} \subseteq Nat \ {0}
         /\ Arrivals \subseteq {"part", "header", "full"} /\ "full" \in Arrivals
         /\ MayClose \in BOOLEAN

ASSUME ActionsAssumption == 2 * ActionsPerFlow <= MAX_ACTIONS  \* 2 each, and room for 4

VARIABLES
  pc,              \* where the program is
  transaction_id,
  awaited,         \* the xid openflow_wait_for_message waits for
  call,            \* which of the two openflow_get_flows of the round
  parts,           \* messages of the reply received so far
  msg_buffer,      \* openflow_connection: the messages put aside
  nb_flows, nb_actions,   \* openflow_flows
  nb_mods,         \* migrations of this round sent
  looping,
  ports,           \* openflow_connection: is there an array of ports?
  serial,          \* ghost: number of the statistics request, modulo 3
  dropped,         \* ghost: answers to echo requests that could not be written
  toSwitch, fromSwitch, front, link,   \* the TCP connection
  torn,            \* has a part of a header been taken for a message?
  body,            \* is the program in safe_read, waiting for a body?
  pending, async, unanswered           \* the switch

conn     == <<transaction_id, awaited, call, parts, msg_buffer, serial>>
flows    == <<nb_flows, nb_actions>>
incoming == <<fromSwitch, front, torn, body>>
network  == <<toSwitch, link, incoming>>
switch   == <<pending, async, unanswered>>
session  == <<looping, ports, dropped>>
vars     == <<pc, conn, flows, nb_mods, session, network, switch>>

FlowIndex == 0 .. MaxFlows - 1
NoReply == [xid |-> 0, left |-> 0, for |-> 0]
NoRequest == 3     \* what a misread piece, or an answer to one, is for

\* Faulty variant, for the mutants: lets the id grow.
NextXidWide == transaction_id + 1

NextXid == (transaction_id + 1) % XID

MessageFor(type, xid, s) == [type |-> type, xid |-> xid, more |-> FALSE, for |-> s]
Message(type, xid) == MessageFor(type, xid, 0)

\* What the program reads from a torn stream.
Misread   == MessageFor("MISREAD", 0, NoRequest)
Pieces(n) == [i \in 1 .. n |-> Misread]
-----------------------------------------------------------------------------
(* Sockets. *)

\* Append a message to the incoming queue; an empty queue gets a new front.
Deliver(m) ==
  /\ fromSwitch' = IF torn THEN Pieces(MaxPieces) ELSE Append(fromSwitch, m)
  /\ IF fromSwitch = << >> THEN front' \in Arrivals ELSE UNCHANGED front
  /\ UNCHANGED <<torn, body>>

\* Writing to a full socket buffer fails; the message is lost.
WriteFails == link = "open" /\ Len(toSwitch) >= OutCap

\* Once the peer has closed, a write provokes a reset, and a write after the
\* reset raises SIGPIPE, which kills the program.
Send(m, next) ==
  /\ toSwitch' = IF link = "open" /\ ~WriteFails THEN Append(toSwitch, m) ELSE toSwitch
  /\ link' = IF link = "closed" THEN "poked" ELSE link
  /\ pc' = IF link = "reset" THEN "killed" ELSE next

Reading == pc \in {"hello", "features", "drain", "stats"}

Readable == fromSwitch # << >> /\ front = "full"

\* Nothing to read: an error and the end of the stream look the same.
NothingToRead == ~body /\ (fromSwitch = << >> \/ (torn /\ front # "full"))

\* read_openflow_message returns.  In a torn stream it has taken some pieces.
Consume ==
  /\ body' = FALSE
  /\ \/ ~torn /\ fromSwitch' = Tail(fromSwitch)
     \/ torn /\ \E n \in 0 .. Len(fromSwitch) - 1 : fromSwitch' = Pieces(n)
  /\ front' \in IF fromSwitch' = << >> THEN {"full"} ELSE Arrivals
  /\ UNCHANGED torn

\* The header is there and safe_read waits for the body.  In a torn stream
\* the length may be any, and what is there is not enough.
AwaitBody ==
  /\ Reading
  /\ \/ ~torn /\ ~body /\ fromSwitch # << >> /\ front = "header"
        /\ UNCHANGED <<fromSwitch, front>>
     \/ torn /\ Readable
        /\ fromSwitch' = << >> /\ front' = "full"
  /\ body' = TRUE
  /\ UNCHANGED <<pc, conn, flows, nb_mods, session, toSwitch, link, torn, switch>>

\* A read that finds a part of a header takes it for a message, and all that
\* follows is cut in the wrong places.
Tear ==
  /\ Reading
  /\ ~torn /\ fromSwitch # << >> /\ front = "part"
  /\ torn' = TRUE
  /\ fromSwitch' = Pieces(MaxPieces)
  /\ front' = "full"
  /\ UNCHANGED <<pc, conn, flows, nb_mods, session, toSwitch, link, body, switch>>
-----------------------------------------------------------------------------
(* Waiting for a message. *)

Matches(type) ==
  LET m == Head(fromSwitch)
  IN  m.type = type /\ (awaited = 0 \/ m.xid = awaited)

\* A misread piece may look like the message awaited, or like another one.
Wanted(type)   == torn \/ Matches(type)
Unwanted(type) == torn \/ ~Matches(type)

TypeAwaited ==
  CASE pc = "hello"    -> "HELLO"
    [] pc = "features" -> "FEATURES_REPLY"
    [] pc = "stats"    -> "STATS_REPLY"
    [] OTHER           -> "NONE"

\* Faulty variant, for the mutants: the message is dropped.
AsideDropped(m) == msg_buffer

Aside(m) == Append(msg_buffer, m.type)

\* openflow_wait_for_message puts a message of another kind aside, without
\* looking whether the array has room for it.
PutAside ==
  /\ pc \in {"hello", "features", "stats"}
  /\ Readable
  /\ Unwanted(TypeAwaited)
  /\ Consume
  /\ \/ /\ Len(msg_buffer) < BufferSlots
        /\ msg_buffer' = Aside(Head(fromSwitch))
        /\ UNCHANGED pc
     \/ /\ Len(msg_buffer) >= BufferSlots
        /\ pc' = "overran_buffer"
        /\ UNCHANGED msg_buffer
  /\ UNCHANGED <<transaction_id, awaited, call, parts, serial>>
  /\ UNCHANGED <<flows, nb_mods, session, toSwitch, link, switch>>
-----------------------------------------------------------------------------
(* openflow_create_connection. *)

\* get_socket returns with a switch connected; transaction_id = rand().
Accept ==
  /\ pc = "accept"
  /\ pc' = "hello"
  /\ link' = "open"
  /\ transaction_id' \in 0 .. XID - 1
  /\ awaited' = 0
  /\ Deliver(Message("HELLO", 0))
  /\ UNCHANGED <<call, parts, msg_buffer, serial, flows, nb_mods, session, toSwitch, switch>>

\* The switch's HELLO is answered; the next step asks for its features.
Hello ==
  /\ pc = "hello"
  /\ Readable /\ Wanted("HELLO")
  /\ Consume
  /\ Send(Message("HELLO", transaction_id), "ask")
  /\ transaction_id' = NextXid
  /\ UNCHANGED <<awaited, call, parts, msg_buffer, serial, flows, nb_mods, session, switch>>

FeaturesRequest ==
  /\ pc = "ask"
  /\ Send(Message("FEATURES_REQUEST", transaction_id), "features")
  /\ awaited' = transaction_id
  /\ transaction_id' = NextXid
  /\ UNCHANGED <<call, parts, msg_buffer, serial, flows, nb_mods, session, incoming, switch>>

\* Faulty variant, for the mutants: does not test looping.
LoopAlways == "control"

Loop == IF looping THEN "control" ELSE "terminate"

\* parse_features_reply makes an array of the ports, if there are any.  The
\* loop is entered if no SIGINT came during the handshake.  A misread piece need
\* not have the body that is parsed.
Features ==
  /\ pc = "features"
  /\ Readable /\ Wanted("FEATURES_REPLY")
  /\ Consume
  /\ ports' \in BOOLEAN
  /\ \/ pc' = Loop
     \/ torn /\ pc' = "corrupt"
  /\ UNCHANGED <<conn, flows, nb_mods, looping, dropped, toSwitch, link, switch>>
-----------------------------------------------------------------------------
(* openflow_control. *)

\* control_logic: an echo request is answered, anything else ignored.  An answer
\* that cannot be written is reported, and not tried again.  A misread piece, or
\* whatever is in a place never written to, may look like an echo request.
Answer(for, next) == Send(MessageFor("ECHO_REPLY", 0, for), next)

Handle(type, next) ==
  \/ /\ type = "ECHO_REQUEST"
     /\ Answer(0, next)
     /\ dropped' = IF WriteFails THEN dropped + 1 ELSE dropped
  \/ /\ type \in {"MISREAD", "UNSET"}
     /\ Answer(NoRequest, next)
     /\ UNCHANGED dropped
  \/ /\ type # "ECHO_REQUEST"
     /\ pc' = next
     /\ UNCHANGED <<toSwitch, link, dropped>>

\* First the messages put aside.  One that was never received is whatever the
\* stack held: freeing its body may corrupt the heap.
HandleBuffered ==
  /\ pc = "control"
  /\ \/ /\ msg_buffer # << >>
        /\ msg_buffer' = Tail(msg_buffer)
        /\ \/ Handle(Head(msg_buffer), "control")
           \/ /\ Head(msg_buffer) = "UNSET"
              /\ pc' = "corrupt"
              /\ UNCHANGED <<toSwitch, link, dropped>>
     \/ /\ msg_buffer = << >>
        /\ pc' = "drain"
        /\ UNCHANGED <<msg_buffer, toSwitch, link, dropped>>
  /\ UNCHANGED <<transaction_id, awaited, call, parts, serial>>
  /\ UNCHANGED <<flows, nb_mods, looping, ports, incoming, switch>>

\* Faulty variant, for the mutants: the counts of the last round are kept.
ClearedKept == nb_actions

Cleared == [i \in FlowIndex |-> 0]

\* Then those in the socket, until it has none; the flows start cleared.
Drain ==
  /\ pc = "drain"
  /\ \/ /\ Readable
        /\ Consume
        /\ Handle(Head(fromSwitch).type, "drain")
        /\ UNCHANGED <<call, flows, nb_mods>>
     \/ /\ NothingToRead
        /\ pc' = "request"
        /\ call' = 1
        /\ nb_flows' = 0
        /\ nb_actions' = Cleared
        /\ nb_mods' = 0
        /\ UNCHANGED <<network, dropped>>
  /\ UNCHANGED <<transaction_id, awaited, parts, msg_buffer, serial, looping, ports, switch>>
-----------------------------------------------------------------------------
(* openflow_get_flows, called twice a round on the same structure. *)

AfterCall == IF call = 1 THEN "request" ELSE "migrate"

\* A write that fails ends the call and leaves the flows as they were.
StatsRequest ==
  /\ pc = "request"
  /\ awaited' = transaction_id
  /\ transaction_id' = NextXid
  /\ parts' = << >>
  /\ \/ /\ ~WriteFails
        /\ serial' = (serial + 1) % 3
        /\ Send(MessageFor("STATS_REQUEST", transaction_id, serial'), "stats")
        /\ UNCHANGED call
     \/ /\ WriteFails
        /\ pc' = AfterCall
        /\ call' = 2
        /\ UNCHANGED <<serial, toSwitch, link>>
  /\ UNCHANGED <<msg_buffer, flows, nb_mods, session, incoming, switch>>

\* n flows are copied from the reply, each appending its k actions to those the
\* previous call left at the same index.
Parse(n, k) ==
  /\ nb_flows' = n
  /\ nb_actions' = [i \in FlowIndex |-> IF i < n THEN nb_actions[i] + k ELSE nb_actions[i]]

\* The entries of the switch have ActionsPerFlow actions; misread, any number.
ActionsRead == IF torn THEN 0 .. MAX_ACTIONS ELSE {ActionsPerFlow}

Room(n, k) == \A i \in FlowIndex : i < n => nb_actions[i] + k <= MAX_ACTIONS

\* Faulty variant, for the mutants: ignores the MORE flag.
LastAlways(m) == TRUE

Last(m) == ~m.more

\* The reply is complete with the message that has no MORE flag.  The next one
\* goes to messages[nb_messages], and the array has MAX_STATS_REPLY elements.  How
\* many flows it holds is the switch's affair; there is room for
\* MAX_HANDLED_FLOWS.  Neither is tested.
StatsReply ==
  /\ pc = "stats"
  /\ Readable /\ Wanted("STATS_REPLY")
  /\ Consume
  /\ parts' = Append(parts, Head(fromSwitch).for)
  /\ \/ /\ torn \/ ~Last(Head(fromSwitch))
        /\ pc' = IF Len(parts') < MAX_STATS_REPLY THEN "stats" ELSE "overran_messages"
        /\ UNCHANGED <<call, flows>>
     \/ /\ torn \/ Last(Head(fromSwitch))
        /\ \E n \in 0 .. MaxFlows, k \in ActionsRead :
             \/ /\ n <= MAX_HANDLED_FLOWS /\ (torn => Room(n, k))
                /\ Parse(n, k) /\ pc' = AfterCall
             \/ n > MAX_HANDLED_FLOWS /\ pc' = "overran_flows" /\ UNCHANGED flows
             \/ torn /\ pc' = "corrupt" /\ UNCHANGED flows
        /\ call' = 2
  /\ UNCHANGED <<transaction_id, awaited, msg_buffer, serial, nb_mods, session>>
  /\ UNCHANGED <<toSwitch, link, switch>>
-----------------------------------------------------------------------------
(* The end of a round. *)

\* openflow_mod_vlan for one migration; the outcome of the write is ignored.
ModVlan ==
  /\ pc = "migrate"
  /\ nb_mods < MaxMods /\ nb_mods' = nb_mods + 1
  /\ Send(Message("FLOW_MOD", transaction_id), "migrate")
  /\ transaction_id' = NextXid
  /\ UNCHANGED <<awaited, call, parts, msg_buffer, serial, flows, session, incoming, switch>>

\* openflow_free_flows frees the actions of the first nb_flows flows.
FreeFlows ==
  /\ pc = "migrate"
  /\ pc' = "test"
  /\ nb_actions' = [i \in FlowIndex |-> IF i < nb_flows THEN 0 ELSE nb_actions[i]]
  /\ nb_flows' = 0
  /\ UNCHANGED <<conn, nb_mods, session, network, switch>>

\* After the sleep.
Test ==
  /\ pc = "test"
  /\ pc' = Loop
  /\ UNCHANGED <<conn, flows, nb_mods, session, network, switch>>

\* openflow_terminate_connection frees the ports; without any it frees a pointer
\* that was never set.
Terminate ==
  /\ pc = "terminate"
  /\ pc' \in IF ports THEN {"done"} ELSE {"done", "aborted"}
  /\ UNCHANGED <<conn, flows, nb_mods, session, network, switch>>

\* The program has ended; or it has written over its memory, and nothing is said
\* of what it does then.
Ended     == pc \in {"done", "exited", "killed", "aborted"}
Corrupted == pc \in {"overran_buffer", "overran_messages", "overran_flows", "corrupt"}

\* handle_interrupt.
Interrupt ==
  /\ ~Ended /\ ~Corrupted
  /\ \/ looping /\ looping' = FALSE /\ UNCHANGED pc
     \/ ~looping /\ pc' = "exited" /\ UNCHANGED looping
  /\ UNCHANGED <<conn, ports, dropped, flows, nb_mods, network, switch>>
-----------------------------------------------------------------------------
(* The network and the switch, external. *)

Arrive ==
  /\ fromSwitch # << >> /\ front # "full" /\ link = "open"
  /\ front' = IF front = "part" THEN "header" ELSE "full"
  /\ UNCHANGED <<pc, conn, flows, nb_mods, session, toSwitch, fromSwitch, link, torn, body>>
  /\ UNCHANGED switch

SwitchReceive ==
  /\ link = "open" /\ toSwitch # << >> /\ pending = NoReply
  /\ toSwitch' = Tail(toSwitch)
  /\ LET m == Head(toSwitch)
     IN  \/ /\ m.type = "STATS_REQUEST"
            /\ \E n \in 1 .. MaxParts : pending' = [xid |-> m.xid, left |-> n, for |-> m.for]
            /\ UNCHANGED <<incoming, unanswered>>
         \/ /\ m.type = "FEATURES_REQUEST"
            /\ Deliver(Message("FEATURES_REPLY", m.xid))
            /\ UNCHANGED <<pending, unanswered>>
         \/ /\ m.type = "ECHO_REPLY"
            /\ unanswered' = IF m.for = NoRequest THEN unanswered ELSE unanswered - 1
            /\ UNCHANGED <<pending, incoming>>
         \/ /\ m.type \in {"HELLO", "FLOW_MOD"}
            /\ UNCHANGED <<pending, incoming, unanswered>>
  /\ UNCHANGED <<pc, conn, flows, nb_mods, session, link, async>>

SwitchReply ==
  /\ link = "open" /\ pending # NoReply
  /\ Deliver([type |-> "STATS_REPLY", xid |-> pending.xid,
              more |-> pending.left > 1, for |-> pending.for])
  /\ pending' = IF pending.left > 1 THEN [pending EXCEPT !.left = @ - 1] ELSE NoReply
  /\ UNCHANGED <<pc, conn, flows, nb_mods, session, toSwitch, link, async, unanswered>>

\* An echo request, or a message the program has no use for (PACKET_IN,
\* PORT_STATUS, FLOW_REMOVED).
SwitchAsync ==
  /\ link = "open" /\ async < MaxAsync /\ async' = async + 1
  /\ \/ Deliver(Message("ECHO_REQUEST", 0)) /\ unanswered' = unanswered + 1
     \/ Deliver(Message("PACKET_IN", 0)) /\ UNCHANGED unanswered
  /\ UNCHANGED <<pc, conn, flows, nb_mods, session, toSwitch, link, pending>>

\* The switch goes away; what it sent can still be read until a reset.
SwitchClose ==
  /\ MayClose /\ link = "open"
  /\ link' = "closed"
  /\ UNCHANGED <<pc, conn, flows, nb_mods, session, toSwitch, incoming, switch>>

Reset ==
  /\ link = "poked"
  /\ link' = "reset"
  /\ fromSwitch' = << >> /\ front' = "full"
  /\ UNCHANGED <<pc, conn, flows, nb_mods, session, toSwitch, torn, body, switch>>
-----------------------------------------------------------------------------
Init ==
  /\ pc = "accept"
  /\ transaction_id = 0 /\ awaited = 0 /\ serial = 0
  /\ call = 1 /\ parts = << >>
  /\ \E n \in InitBuffered : msg_buffer = [i \in 1 .. n |-> "UNSET"]
  /\ nb_flows = 0 /\ nb_actions = [i \in FlowIndex |-> 0]
  /\ nb_mods = 0
  /\ looping = TRUE /\ ports = FALSE /\ dropped = 0
  /\ toSwitch = << >> /\ fromSwitch = << >> /\ front = "full" /\ link = "none"
  /\ torn = FALSE /\ body = FALSE
  /\ pending = NoReply /\ async = 0 /\ unanswered = 0

Program ==
  \/ Tear \/ AwaitBody \/ PutAside
  \/ Accept \/ Hello \/ FeaturesRequest \/ Features
  \/ HandleBuffered \/ Drain
  \/ StatsRequest \/ StatsReply
  \/ ModVlan \/ FreeFlows \/ Test \/ Terminate

Environment == Arrive \/ SwitchReceive \/ SwitchReply \/ Reset

Next == Program \/ Environment \/ SwitchAsync \/ SwitchClose \/ Interrupt

Spec == Init /\ [][Next]_vars

\* The program keeps running; a switch that has not closed the connection
\* receives and answers what it is sent.  Nobody has to press Ctrl+C.
FairSpec ==
  /\ Spec
  /\ WF_vars(Program)
  /\ WF_vars(Arrive) /\ WF_vars(SwitchReceive) /\ WF_vars(SwitchReply)
-----------------------------------------------------------------------------
Kinds == {"HELLO", "FEATURES_REQUEST", "FEATURES_REPLY", "STATS_REQUEST", "STATS_REPLY",
          "ECHO_REQUEST", "ECHO_REPLY", "FLOW_MOD", "PACKET_IN", "MISREAD"}
Messages == [type : Kinds, xid : 0 .. XID - 1, more : BOOLEAN, for : 0 .. 3]

TypeOK ==
  /\ pc \in {"accept", "hello", "ask", "features", "control", "drain", "request", "stats",
             "migrate", "test", "terminate", "done", "exited", "killed", "aborted",
             "overran_buffer", "overran_messages", "overran_flows", "corrupt"}
  /\ transaction_id \in 0 .. XID - 1 /\ awaited \in 0 .. XID - 1
  /\ call \in {1, 2} /\ serial \in 0 .. 2
  /\ parts \in Seq(0 .. 3)
  /\ msg_buffer \in Seq(Kinds \cup {"UNSET"})
  /\ nb_flows \in 0 .. MaxFlows /\ nb_actions \in [FlowIndex -> Nat]
  /\ nb_mods \in 0 .. MaxMods
  /\ looping \in BOOLEAN /\ ports \in BOOLEAN /\ dropped \in 0 .. MaxAsync
  /\ toSwitch \in Seq(Messages) /\ fromSwitch \in Seq(Messages)
  /\ front \in {"part", "header", "full"}
  /\ torn \in BOOLEAN /\ body \in BOOLEAN
  /\ link \in {"none", "open", "closed", "poked", "reset"}
  /\ pending \in [xid : 0 .. XID - 1, left : 0 .. MaxParts, for : 0 .. 3]
  /\ async \in 0 .. MaxAsync /\ unanswered \in 0 .. MaxAsync

Sent(queue, type) == {i \in 1 .. Len(queue) : queue[i].type = type}

(***************************************************************************)
(* While the stream is whole, openflow_get_flows takes only messages of    *)
(* the reply to the request it has just sent, also when the transaction id *)
(* has wrapped around to 0, which openflow_wait_for_message takes for      *)
(* "any".                                                                  *)
(***************************************************************************)
ReplyIsOwn == ~torn => \A i \in 1 .. Len(parts) : parts[i] = serial

(***************************************************************************)
(* While the stream is whole, a reply is read to its end: outside          *)
(* openflow_get_flows no statistics request or reply is under way, nor put *)
(* aside for openflow_control.                                             *)
(***************************************************************************)
NoReplyLeftOver ==
  ~torn /\ pc \in {"control", "drain", "request", "migrate", "test"} =>
    /\ Sent(toSwitch, "STATS_REQUEST") = {} /\ pending = NoReply
    /\ Sent(fromSwitch, "STATS_REPLY") = {}
    /\ \A i \in 1 .. Len(msg_buffer) : msg_buffer[i] # "STATS_REPLY"

(***************************************************************************)
(* The actions of a flow stay within the MAX_ACTIONS elements they have,   *)
(* although the second openflow_get_flows of a round appends its actions   *)
(* to those of the first, and the replies differ in length.                *)
(***************************************************************************)
ActionsFit == \A i \in FlowIndex : nb_actions[i] <= MAX_ACTIONS


(***************************************************************************)
(* While the connection and the program last, headers arrive whole and     *)
(* the arrays suffice, every echo request is answered in the end, those    *)
(* that arrive while the program waits for something else included; only   *)
(* an answer that could not be written is missing.                         *)
(***************************************************************************)
EchoAnswered == unanswered > dropped ~> unanswered = dropped \/ Ended \/ link # "open"

(***************************************************************************)
(* After a SIGINT the program ends, wherever it is in its round, if the    *)
(* switch keeps the connection, headers arrive whole and the arrays        *)
(* suffice: every wait is for a request the switch has received; a         *)
(* statistics request that could not be written is not waited for.         *)
(***************************************************************************)
InterruptEnds == ~looping ~> Ended \/ link # "open"
-----------------------------------------------------------------------------
(* What the repository says and the program does not do. *)

(***************************************************************************)
(* "Caught interrupt signal, shutting connection..." (main.c:20): a SIGINT *)
(* ends the program.  Does not hold when the switch has gone: reading an   *)
(* ended stream is taken for having nothing to read, and the wait for a    *)
(* message does not look at looping.                                       *)
(***************************************************************************)
InterruptClosesConnection == ~looping ~> Ended
=============================================================================
