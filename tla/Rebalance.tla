----------------------------- MODULE Rebalance -----------------------------
(***************************************************************************)
(* What a round of balancing does, told without the balancer's data        *)
(* structures: only where the flows are assigned and what they weigh.      *)
(* A round is a bounded sequence of moves, each of a heaviest flow of a    *)
(* heaviest core to a lightest core.                                       *)
(***************************************************************************)
EXTENDS Integers, Sequences, Sums

CONSTANTS Flow, Core,
          MaxMoves       \* moves a round makes at most

VARIABLES assigned,      \* the core of each flow
          weight,        \* the load of each flow in this round
          moves,         \* the moves of this round, in order
          running        \* a round is going on

CoreWeight(c) == SumOver(weight, {f \in Flow : assigned[f] = c})

Heaviest == {c \in Core : \A d \in Core : CoreWeight(d) <= CoreWeight(c)}
Lightest == {c \in Core : \A d \in Core : CoreWeight(c) <= CoreWeight(d)}

HeaviestOn(f) ==
  \A g \in Flow : assigned[g] = assigned[f] => weight[g] <= weight[f]

Init ==
  /\ moves = << >>
  /\ running = FALSE

\* No flow changes core.
NewRound ==
  /\ ~running
  /\ running' = TRUE
  /\ moves' = << >>
  /\ UNCHANGED assigned

\* The loads are read before the first move.
Weigh ==
  /\ running
  /\ moves = << >>
  /\ UNCHANGED <<assigned, moves, running>>

Move(f, d) ==
  /\ running
  /\ Len(moves) < MaxMoves
  /\ assigned[f] \in Heaviest /\ HeaviestOn(f)
  /\ d \in Lightest /\ d # assigned[f]
  /\ weight[f] > 0
  /\ assigned' = [assigned EXCEPT ![f] = d]
  /\ moves' = Append(moves, [key |-> f, destination_core |-> d])
  /\ UNCHANGED <<weight, running>>

EndRound ==
  /\ running
  /\ running' = FALSE
  /\ UNCHANGED <<assigned, weight, moves>>

Next == NewRound \/ Weigh \/ (\E f \in Flow, d \in Core : Move(f, d)) \/ EndRound

Spec == Init /\ [][Next]_<<assigned, weight, moves, running>>
=============================================================================
