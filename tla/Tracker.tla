------------------------------ MODULE Tracker ------------------------------
(***************************************************************************)
(* The use the main loop makes of the table of flows (src/main.c): every   *)
(* round it looks each flow of the switch's reply up, creates the unknown  *)
(* ones, adds a sample to each, balances, and cleans the table up; once    *)
(* interrupted it leaves the loop and destroys the table.                  *)
(*                                                                         *)
(* The switch is external: present is the set of flows it has, and a round *)
(* polls that set.  Balancing leaves the table alone (see Balancer).       *)
(***************************************************************************)
EXTENDS HashMap

VARIABLES pc,        \* where main is
          reply,     \* the flows of this round's reply
          todo,      \* those get_migrations has not come to
          current,   \* the one it is at
          looping,   \* cleared by the first SIGINT
          present    \* external: the flows of the switch

mainVars == <<pc, reply, todo, current, looping, present>>
allVars  == <<vars, mainVars>>

MainInit ==
  /\ Init
  /\ pc = "poll"
  /\ reply = {}
  /\ todo = {}
  /\ current = NoKey
  /\ looping = TRUE
  /\ present = {}

Goto(from, to) == pc = from /\ pc' = to

\* Faulty variant, for the mutants: keeps the reply of the round before.
PollOldReply ==
  /\ status = "running"
  /\ Goto("poll", IF present = {} THEN "balance" ELSE "lookup")
  /\ todo' = present
  /\ UNCHANGED <<vars, reply, current, looping, present>>

\* openflow_get_flows, the second of the two calls: its reply is the one used.
Poll ==
  /\ status = "running"
  /\ Goto("poll", IF present = {} THEN "balance" ELSE "lookup")
  /\ reply' = present
  /\ todo' = present
  /\ UNCHANGED <<vars, current, looping, present>>

\* Faulty variant, for the mutants: creates a record without looking.
LookupUnchecked(k) ==
  /\ Goto("lookup", "fill")
  /\ k \in todo
  /\ hashmap_new(k)
  /\ current' = k
  /\ UNCHANGED <<reply, todo, looping, present>>

\* The flows of the reply come in any order; an unknown one is created.
Lookup(k) ==
  /\ status = "running"
  /\ Goto("lookup", "fill")
  /\ k \in todo
  /\ \/ hashmap_get(k) # NULL /\ UNCHANGED vars
     \/ hashmap_get(k) = NULL /\ hashmap_new(k)
  /\ current' = k
  /\ UNCHANGED <<reply, todo, looping, present>>

\* Faulty variant, for the mutants: stops after one flow of the reply.
FillDropsRest ==
  /\ Goto("fill", "balance")
  /\ Fill(current)
  /\ todo' = {}
  /\ UNCHANGED <<reply, current, looping, present>>

FillCurrent ==
  /\ Goto("fill", IF todo = {current} THEN "balance" ELSE "lookup")
  /\ Fill(current)
  /\ todo' = todo \ {current}
  /\ UNCHANGED <<reply, current, looping, present>>

Balance ==
  /\ status = "running"
  /\ Goto("balance", "cleanup")
  /\ UNCHANGED <<vars, reply, todo, current, looping, present>>

Cleanup ==
  /\ Goto("cleanup", "test")
  /\ hashmap_cleanup_inactive_flows
  /\ UNCHANGED <<reply, todo, current, looping, present>>

\* After its second of sleep the loop tests looping again.
Test ==
  /\ status = "running"
  /\ Goto("test", IF looping THEN "poll" ELSE "destroy")
  /\ UNCHANGED <<vars, reply, todo, current, looping, present>>

Destroy ==
  /\ Goto("destroy", "done")
  /\ hashmap_destroy
  /\ UNCHANGED <<reply, todo, current, looping, present>>

\* handle_interrupt: the second SIGINT exits at once.
Interrupt ==
  /\ status = "running"
  /\ \/ looping /\ looping' = FALSE /\ UNCHANGED status
     \/ ~looping /\ status' = "exited" /\ UNCHANGED looping
  /\ UNCHANGED <<table, heap, loop, pc, reply, todo, current, present>>

\* The controller installs a flow entry, or one goes away.
Appear(k) ==
  /\ status = "running" /\ k \notin present
  /\ present' = present \cup {k}
  /\ UNCHANGED <<vars, pc, reply, todo, current, looping>>

Disappear(k) ==
  /\ status = "running" /\ k \in present
  /\ present' = present \ {k}
  /\ UNCHANGED <<vars, pc, reply, todo, current, looping>>

MainNext ==
  \/ Poll
  \/ \E k \in Key : Lookup(k) \/ Appear(k) \/ Disappear(k)
  \/ FillCurrent
  \/ Balance
  \/ Cleanup
  \/ Test
  \/ Destroy
  \/ Interrupt

MainSpec == MainInit /\ [][MainNext]_allVars
-----------------------------------------------------------------------------
MainTypeOK ==
  /\ TypeOK
  /\ pc \in {"poll", "lookup", "fill", "balance", "cleanup", "test", "destroy", "done"}
  /\ reply \subseteq Key
  /\ todo \subseteq reply
  /\ current \in Key \cup {NoKey}
  /\ looping \in BOOLEAN
  /\ present \subseteq Key

(***************************************************************************)
(* The main loop only ever appends to the table: the valid slots are the   *)
(* first size ones.  hashmap_get_next, which stops at the first hole, and  *)
(* hashmap_destroy, which frees the first size slots, rely on it.          *)
(***************************************************************************)
NoHoles == Valid = {s \in Slot : s < size}

(***************************************************************************)
(* When the balancer runs, every flow of the reply is in the table and     *)
(* holds a sample.                                                         *)
(***************************************************************************)
RepliedFlowsFilled ==
  pc = "balance" =>
    \A k \in reply : hashmap_get(k) # NULL /\ is_active[hashmap_get(k)]

(***************************************************************************)
(* No buffer is leaked: as long as the program runs, each allocated buffer *)
(* is reachable from the table, and once main has destroyed the table none *)
(* is left and none was freed twice.                                       *)
(***************************************************************************)
NoLeak ==
  /\ status = "running"   => live = {map[s].value : s \in Valid}
  /\ status = "destroyed" => live = {} /\ ~badFree

(***************************************************************************)
(* A flow keeps its record, with the core assigned to it and its samples,  *)
(* for as long as the table exists: flow-to-core affinity rests on it.     *)
(***************************************************************************)
RecordKept ==
  [][\A k \in Key : hashmap_get(k) # NULL => hashmap_get(k)' = hashmap_get(k)]_allVars
-----------------------------------------------------------------------------
(***************************************************************************)
(* "Cleanup connections that haven't been filled" (main.c:213): after the  *)
(* clean-up only flows of this round's reply are left.  Does not hold:     *)
(* is_active is set by the first sample and never cleared, so the record   *)
(* of a flow that is gone stays, with its last load.                       *)
(***************************************************************************)
CleanupDropsUnfilled == pc = "test" => Keys \subseteq reply
=============================================================================
