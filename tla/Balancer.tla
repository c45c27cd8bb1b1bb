------------------------------ MODULE Balancer ------------------------------
(***************************************************************************)
(* The balancer (src/balancer.c).  Each round it walks the table of flows, *)
(* lists every flow under the core it is assigned to, and moves the        *)
(* biggest flow of the most loaded core to the least loaded one until the  *)
(* loads are close to their average or the round has made its quota of     *)
(* migrations.                                                             *)
(*                                                                         *)
(* The table has no holes (Tracker!NoHoles), so a flow is named by its     *)
(* slot: flow f is in the table when f < size.  Loads are what             *)
(* ringbuffer_get_last returns and do not change during a round.           *)
(***************************************************************************)
EXTENDS Integers, Sequences, FiniteSetsExt, Sums

CONSTANTS nbCores,                    \* NB_CORES (env.h)
          HASHMAP_SIZE,
          MAX_REBALANCE_ITERATIONS,
          IMBALANCE_TENTHS,           \* IMBALANCE_THRESHOLD, in tenths
          WORD,                       \* 2^64: loads are uint64_t
          Loads,                      \* the loads a flow may show in a round
          StartAt,                    \* slots the uninitialised previous_key may
                                      \* be found in; -1 when in none
          RunOffEnd                   \* see HashMap

ASSUME BalancerAssumption ==
         /\ nbCores \in Nat \ {0}
         /\ HASHMAP_SIZE \in Nat \ {0}
         /\ MAX_REBALANCE_ITERATIONS \in Nat
         /\ IMBALANCE_TENTHS \in Nat \ {0}      \* 1: the threshold is 0.1
         /\ WORD \in Nat \ {0}
         /\ 0 \in Loads /\ Loads \subseteq 0 .. WORD - 1
         /\ StartAt \subseteq -1 .. HASHMAP_SIZE - 1
         /\ RunOffEnd \subseteq BOOLEAN

Flow == 0 .. HASHMAP_SIZE - 1
Core == 0 .. nbCores - 1

VARIABLES size,            \* struct HashMap
          assigned_core,   \* struct RingBuffer, of each flow
          load,            \* ringbuffer_get_last of each flow
          core_load,       \* struct Repartition
          migrations,      \* struct Migrations
          cursor,          \* the slot of previous_key
          pc,
          start,           \* ghost: the slot the walk started at
          ranOff,          \* ghost: the walk listed the last flow again
          before           \* ghost: assigned_core when the round began

vars == <<size, assigned_core, load, core_load, migrations, cursor, pc, start, ranOff, before>>
ghosts == <<start, ranOff, before>>

InTable == {f \in Flow : f < size}
-----------------------------------------------------------------------------
Indices(flows) == 1 .. Len(flows)

LoadsOf(flows) == [j \in Indices(flows) |-> load[flows[j]]]

\* Faulty variant, for the mutants: adds up in a wider type.
SumUnbounded(flows) == SumOver(LoadsOf(flows), Indices(flows))

SumOf(flows) == SumOver(LoadsOf(flows), Indices(flows)) % WORD

\* Faulty variant, for the mutants: never finds the biggest flow.
BiggestStuck(flows) == 1

\* biggestLoad_idx, counting from 1: the first of the biggest flows, or the
\* first position when no flow has any load.
BiggestOf(flows) ==
  LET big == {j \in Indices(flows) :
                /\ load[flows[j]] > 0
                /\ \A i \in Indices(flows) : load[flows[i]] <= load[flows[j]]}
  IN  IF big = {} THEN 1 ELSE Min(big)

balancer_update_core_info(flows) ==
  [flows |-> flows, load |-> SumOf(flows), biggestLoad_idx |-> BiggestOf(flows)]

AppendTo(c, f) == core_load' = [core_load EXCEPT ![c].flows = Append(@, f)]

averageLoad == (SumOver([c \in Core |-> core_load[c].load], Core) % WORD) \div nbCores
biggestLoad  == Max({core_load[c].load : c \in Core})
smallestLoad == Min({core_load[c].load : c \in Core})
bigCore   == Min({c \in Core : core_load[c].load = biggestLoad})
smallCore == Min({c \in Core : core_load[c].load = smallestLoad})

\* The two ratios are compared as floating-point numbers: a core 1.1 times as
\* loaded as the average is still balanced, one with 0.9 times as much is not.
\* An average of 0 makes the first ratio infinite, or NaN when nothing is loaded.
Imbalanced ==
  \/ 10 * biggestLoad > (10 + IMBALANCE_TENTHS) * averageLoad
  \/ /\ averageLoad > 0
     /\ 10 * smallestLoad <= (10 - IMBALANCE_TENTHS) * averageLoad
-----------------------------------------------------------------------------
EmptyCore == [flows |-> << >>, load |-> 0, biggestLoad_idx |-> 1]

Init ==
  /\ size = 0
  /\ assigned_core = [f \in Flow |-> 0]
  /\ load = [f \in Flow |-> 0]
  /\ core_load = [c \in Core |-> EmptyCore]
  /\ migrations = << >>
  /\ cursor = -1
  /\ pc = "idle"
  /\ start = -1
  /\ ranOff = FALSE
  /\ before = assigned_core

\* A round begins with an empty list of migrations.
NewRound ==
  /\ pc = "idle"
  /\ pc' = "fill"
  /\ migrations' = << >>
  /\ before' = assigned_core
  /\ load' = [f \in Flow |-> 0]
  /\ start' = -1 /\ ranOff' = FALSE
  /\ UNCHANGED <<size, assigned_core, core_load, cursor>>

\* The loop of get_migrations has appended new flows to the table, which start
\* on core 0, and added samples to the rings; balancer_balance is called.
FillTable ==
  /\ pc = "fill"
  /\ pc' = "walk"
  /\ \E n \in size .. HASHMAP_SIZE, at \in StartAt :
       /\ at < n
       /\ size' = n
       /\ \E loads \in [0 .. n - 1 -> Loads] :
            load' = [f \in Flow |-> IF f < n THEN loads[f] ELSE 0]
       /\ cursor' = at
       /\ start' = at
  /\ UNCHANGED <<assigned_core, core_load, migrations, before, ranOff>>

\* The arrays of a core have HASHMAP_SIZE elements.
HasRoom(c) == Len(core_load[c].flows) < HASHMAP_SIZE

\* The body of the walk.  It refuses a core with more than HASHMAP_SIZE flows,
\* one too late: the flow before was written past the ends of both arrays.
Memorize(f) ==
  \/ /\ HasRoom(assigned_core[f])
     /\ AppendTo(assigned_core[f], f)
     /\ UNCHANGED pc
  \/ /\ ~HasRoom(assigned_core[f])
     /\ pc' = "corrupt"
     /\ UNCHANGED core_load

\* One call of hashmap_get_next and the body of the loop around it.  After the
\* last slot the call runs off its end: a result of true lists the last flow
\* again, and if there was none yet the program reads a wild pointer.
Walk ==
  LET next == cursor + 1
  IN  /\ pc = "walk"
      /\ \/ /\ next < size
            /\ Memorize(next)
            /\ cursor' = next
            /\ UNCHANGED ranOff
         \/ /\ next >= size /\ next < HASHMAP_SIZE
            /\ pc' = "load"
            /\ UNCHANGED <<core_load, cursor, ranOff>>
         \/ /\ next = HASHMAP_SIZE /\ FALSE \in RunOffEnd
            /\ pc' = "load"
            /\ UNCHANGED <<core_load, cursor, ranOff>>
         \/ /\ next = HASHMAP_SIZE /\ TRUE \in RunOffEnd
            /\ \/ cursor > start /\ Memorize(cursor)
               \/ cursor = start /\ pc' = "crashed" /\ UNCHANGED core_load
            /\ ranOff' = TRUE
            /\ UNCHANGED cursor
      /\ UNCHANGED <<size, assigned_core, load, migrations, start, before>>

\* The end of balancer_compute_repartition.
ComputeLoads ==
  /\ pc = "load"
  /\ core_load' = [c \in Core |-> balancer_update_core_info(core_load[c].flows)]
  /\ pc' = "balance"
  /\ UNCHANGED <<size, assigned_core, load, migrations, cursor, ghosts>>

\* Faulty variant, for the mutants: drops the last flow of the list instead.
RemoveLast(flows, i) == SubSeq(flows, 1, Len(flows) - 1)

\* The last flow of the list takes the place of the one removed.
RemoveAt(flows, i) ==
  SubSeq([flows EXCEPT ![i] = flows[Len(flows)]], 1, Len(flows) - 1)

\* Faulty variant, for the mutants: leaves the flow with its core.
AssignNothing(flow, c) == assigned_core

Assign(flow, c) == [assigned_core EXCEPT ![flow] = c]

\* Faulty variant, for the mutants: forgets to count the migration.
LogNothing(flow, c) == migrations

Log(flow, c) == Append(migrations, [key |-> flow, destination_core |-> c])

\* Faulty variant, for the mutants: forgets the receiving core.
RecomputedBig(big, small) == {big}

Recomputed(big, small) == {big, small}

\* When the sum of the loads has wrapped the two cores may be one, whose flow is
\* then removed and added again.
balancer_migrate(big, small) ==
  LET from    == core_load[big].flows
      i       == core_load[big].biggestLoad_idx
      removed == [core_load EXCEPT ![big].flows = RemoveAt(from, i)]
      added   == [removed EXCEPT ![small].flows = Append(@, from[i])]
  IN  /\ core_load' = [c \in Core |-> IF c \in Recomputed(big, small)
                                      THEN balancer_update_core_info(added[c].flows)
                                      ELSE added[c]]
      /\ assigned_core' = Assign(from[i], small)
      /\ migrations' = Log(from[i], small)

\* One turn of the balancing loop.  A receiving core whose list a walk that ran
\* off its end has filled is written past its end too.
Migrate ==
  /\ pc = "balance"
  /\ Len(migrations) < MAX_REBALANCE_ITERATIONS
  /\ Imbalanced
  /\ \E big \in {bigCore}, small \in {smallCore} :
       \/ /\ big = small \/ HasRoom(small)
          /\ balancer_migrate(big, small)
          /\ UNCHANGED pc
       \/ /\ big # small /\ ~HasRoom(small)
          /\ pc' = "corrupt"
          /\ UNCHANGED <<core_load, assigned_core, migrations>>
  /\ UNCHANGED <<size, load, cursor, ghosts>>

\* Faulty variant, for the mutants: stops before the loads are even.
FinishEarly ==
  /\ pc = "balance"
  /\ pc' = "idle"
  /\ core_load' = [c \in Core |-> EmptyCore]
  /\ cursor' = -1
  /\ UNCHANGED <<size, assigned_core, load, migrations, ghosts>>

\* The loads are close enough, or the quota is used up; balancer_free.
Finish ==
  /\ pc = "balance"
  /\ Len(migrations) >= MAX_REBALANCE_ITERATIONS \/ ~Imbalanced
  /\ pc' = "idle"
  /\ core_load' = [c \in Core |-> EmptyCore]
  /\ cursor' = -1
  /\ UNCHANGED <<size, assigned_core, load, migrations, ghosts>>

Next == NewRound \/ FillTable \/ Walk \/ ComputeLoads \/ Migrate \/ Finish

Spec == Init /\ [][Next]_vars

\* Once begun, a round is straight-line code: it is carried on.
FairSpec == Spec /\ WF_vars(FillTable \/ Walk \/ ComputeLoads \/ Migrate \/ Finish)
-----------------------------------------------------------------------------
Migration == [key : Flow, destination_core : Core]

TypeOK ==
  /\ size \in 0 .. HASHMAP_SIZE
  /\ assigned_core \in [Flow -> Core]
  /\ load \in [Flow -> 0 .. WORD - 1]
  /\ core_load \in [Core -> [flows : Seq(Flow), load : 0 .. WORD - 1,
                             biggestLoad_idx : Nat \ {0}]]
  /\ migrations \in Seq(Migration)
  /\ cursor \in -1 .. HASHMAP_SIZE - 1
  /\ pc \in {"idle", "fill", "walk", "load", "balance", "crashed", "corrupt"}
  /\ start \in -1 .. HASHMAP_SIZE - 1
  /\ ranOff \in BOOLEAN
  /\ before \in [Flow -> Core]

Counted == {f \in InTable : start < f /\ f <= cursor}
Listed(c) == {core_load[c].flows[j] : j \in Indices(core_load[c].flows)}

(***************************************************************************)
(* The lists of the cores and the assignment of the flows tell the same    *)
(* story: a core lists exactly the flows counted that are assigned to it,  *)
(* and none twice, whatever migrations shuffle the lists.  A walk that ran *)
(* off the end of hashmap_get_next has listed its last flow too often.     *)
(***************************************************************************)
ListsMatchAssignment ==
  pc \in {"walk", "load", "balance"} /\ ~ranOff =>
    \A c \in Core :
      /\ Listed(c) = {f \in Counted : assigned_core[f] = c}
      /\ \A i, j \in Indices(core_load[c].flows) :
           core_load[c].flows[i] = core_load[c].flows[j] => i = j

(***************************************************************************)
(* While cores are compared, the load and the biggest flow of every core   *)
(* are those of its current list, those of the two cores of the last       *)
(* migration included.                                                     *)
(***************************************************************************)
CoreInfoFresh ==
  pc = "balance" =>
    \A c \in Core : core_load[c] = balancer_update_core_info(core_load[c].flows)

(***************************************************************************)
(* The migrations, sent to the switch in order, lead from the assignment   *)
(* before the round to the one the balancer keeps: the last migration of a *)
(* flow is to its assigned core, and a flow without one has not moved.     *)
(***************************************************************************)
MigrationsReplay ==
  \A f \in Flow :
    LET of == {m \in 1 .. Len(migrations) : migrations[m].key = f}
    IN  assigned_core[f] = IF of = {} THEN before[f]
                           ELSE migrations[Max(of)].destination_core

\* The load of a core, from the flows alone.
LoadOf(c) == SumOver(load, {f \in InTable : assigned_core[f] = c}) % WORD

Average == (SumOver([c \in Core |-> LoadOf(c)], Core) % WORD) \div nbCores

\* The walk counted every flow once.
Complete == start = -1 /\ ~ranOff

(***************************************************************************)
(* A round that counted every flow and ends before its quota of migrations *)
(* leaves every core near the average: at most 1.1 times it, and above 0.9 *)
(* times it.                                                               *)
(***************************************************************************)
RoundBalances ==
  pc = "idle" /\ Complete /\ Len(migrations) < MAX_REBALANCE_ITERATIONS =>
    \A c \in Core :
      /\ 10 * LoadOf(c) <= (10 + IMBALANCE_TENTHS) * Average
      /\ Average > 0 => 10 * LoadOf(c) > (10 - IMBALANCE_TENTHS) * Average

\* The sum of the loads does not wrap either.
Exact == Complete /\ SumOver(load, Flow) < WORD

Abstract == INSTANCE Rebalance
  WITH assigned <- assigned_core, weight <- load, moves <- migrations,
       running <- pc # "idle", MaxMoves <- MAX_REBALANCE_ITERATIONS

(***************************************************************************)
(* In an exact round the balancer does no more than the moves the abstract *)
(* one allows, judged on the flows and their loads only.                   *)
(***************************************************************************)
ImplementsRebalance ==
  Abstract!Init /\ [][Abstract!Next \/ ~Exact']_<<assigned_core, load, migrations, pc # "idle">>

(***************************************************************************)
(* A round ends: the quota stops flows that go to and fro between cores.   *)
(* Only a walk that ran off the end of hashmap_get_next may end in         *)
(* undefined behaviour instead, after which nothing can be said.           *)
(***************************************************************************)
RoundEnds ==
  pc = "fill" ~> pc = "idle" \/ (ranOff /\ pc \in {"crashed", "corrupt"})
=============================================================================
