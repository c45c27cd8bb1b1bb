--------------------------- MODULE BalancerProofs ---------------------------
(***************************************************************************)
(* Proofs about Balancer, for any number of cores, flows and migrations,   *)
(* any loads and any word size.                                            *)
(***************************************************************************)
EXTENDS Balancer, ArithmeticProofs, SequenceTheorems, TLAPS

Record == [flows : Seq(Flow), load : 0 .. WORD - 1, biggestLoad_idx : Nat \ {0}]

(* balancer_update_core_info with the loads as an argument. *)
WeightsOf(w, flows) == [j \in Indices(flows) |-> w[flows[j]]]

BigOnes(w, flows) ==
  {j \in Indices(flows) :
     w[flows[j]] > 0 /\ \A i \in Indices(flows) : w[flows[i]] <= w[flows[j]]}

InfoOf(w, flows) ==
  [flows |-> flows,
   load |-> SumOver(WeightsOf(w, flows), Indices(flows)) % WORD,
   biggestLoad_idx |-> IF BigOnes(w, flows) = {} THEN 1 ELSE Min(BigOnes(w, flows))]

LEMMA InfoIs ==
  ASSUME NEW flows
  PROVE  balancer_update_core_info(flows) = InfoOf(load, flows)
BY Zenon DEF balancer_update_core_info, SumOf, BiggestOf, LoadsOf, InfoOf, WeightsOf, BigOnes

LEMMA InfoFlows ==
  ASSUME NEW w, NEW flows
  PROVE  InfoOf(w, flows).flows = flows
BY DEF InfoOf

LEMMA FreshIs ==
  CoreInfoFresh <=>
    (pc = "balance" => \A c \in Core : core_load[c] = InfoOf(load, core_load[c].flows))
BY Zenon DEF CoreInfoFresh, balancer_update_core_info, SumOf, BiggestOf, LoadsOf, InfoOf,
             WeightsOf, BigOnes

LEMMA FreshIsNext ==
  CoreInfoFresh' <=>
    (pc' = "balance" => \A c \in Core : core_load'[c] = InfoOf(load', core_load'[c].flows))
BY Zenon DEF CoreInfoFresh, balancer_update_core_info, SumOf, BiggestOf, LoadsOf, InfoOf,
             WeightsOf, BigOnes

(***************************************************************************)
(* The flow at biggestLoad_idx is one of the list, when the list is not    *)
(* empty, and no other flow of it has a greater load.  A core with a load  *)
(* has a flow with one.                                                    *)
(***************************************************************************)
LEMMA InfoOfList ==
  ASSUME NEW w \in [Flow -> 0 .. WORD - 1], NEW flows \in Seq(Flow)
  PROVE  LET info == InfoOf(w, flows)
             i    == info.biggestLoad_idx
         IN  /\ info \in Record /\ info.flows = flows
             /\ flows # << >> =>
                  /\ i \in Indices(flows)
                  /\ \A j \in Indices(flows) : w[flows[j]] <= w[flows[i]]
             /\ info.load > 0 => flows # << >> /\ w[flows[i]] > 0
<1> DEFINE I == Indices(flows)
           v == WeightsOf(w, flows)
           big == BigOnes(w, flows)
           idx == IF big = {} THEN 1 ELSE Min(big)
           total == SumOver(v, I)
<1>1. /\ Len(flows) \in Nat /\ I = 1 .. Len(flows)
      /\ \A j \in I : flows[j] \in Flow /\ w[flows[j]] \in Nat /\ v[j] = w[flows[j]]
      /\ IsFiniteSet(I)
  <2>1. Len(flows) \in Nat /\ I = 1 .. Len(flows)
    BY DEF Indices
  <2>2. \A j \in I : flows[j] \in Flow
    BY <2>1, ElementOfSeq
  <2>3. \A j \in I : w[flows[j]] \in Nat
    BY <2>2
  <2>4. IsFiniteSet(I)
    BY <2>1, FS_Interval
  <2>5. QED
    BY <2>1, <2>2, <2>3, <2>4 DEF WeightsOf
<1>2. total \in Nat
  <2> HIDE DEF I, v
  <2>1. QED
    BY <1>1, SumIsNat
<1>3. total % WORD \in 0 .. WORD - 1
  <2> HIDE DEF total
  <2>1. QED
    BY <1>2, ModRange, BalancerAssumption
<1>4. big # {} => idx \in big
  <2>1. big \in SUBSET Nat
    BY <1>1 DEF BigOnes
  <2> HIDE DEF big
  <2>2. QED
    BY <2>1, MinIsLeast
<1>5. (\E j \in I : w[flows[j]] > 0) => big # {}
  <2> SUFFICES ASSUME NEW k \in I, w[flows[k]] > 0
               PROVE  big # {}
    OBVIOUS
  <2> DEFINE values == {w[flows[j]] : j \in I}
  <2>1. \A x \in values : x \in Nat /\ x <= WORD
    <3>1. ASSUME NEW j \in I
          PROVE  w[flows[j]] \in Nat /\ w[flows[j]] <= WORD
      BY <1>1, BalancerAssumption
    <3>2. QED
      BY <3>1
  <2>2. w[flows[k]] \in values
    OBVIOUS
  <2> HIDE DEF values
  <2>3. Max(values) \in values /\ \A x \in values : x <= Max(values)
    BY <2>1, <2>2, MaxIsGreatest, BalancerAssumption
  <2>4. PICK j \in I : w[flows[j]] = Max(values)
    BY <2>3 DEF values
  <2>5. \A i \in I : w[flows[i]] <= w[flows[j]]
    BY <2>3, <2>4 DEF values
  <2>6. w[flows[j]] > 0
    BY <1>1, <2>5
  <2>7. QED
    BY <2>5, <2>6 DEF BigOnes
<1>6. flows # << >> => idx \in I /\ \A j \in I : w[flows[j]] <= w[flows[idx]]
  <2>1. CASE big # {}
    BY <1>4, <2>1 DEF BigOnes
  <2>2. CASE big = {}
    <3>1. \A j \in I : w[flows[j]] = 0
      BY <1>1, <1>5, <2>2
    <3>2. flows # << >> => 1 \in I
      BY <1>1, EmptySeq, LenProperties
    <3>3. QED
      BY <2>2, <3>1, <3>2
  <2>3. QED
    BY <2>1, <2>2
<1>7. total % WORD > 0 => flows # << >> /\ w[flows[idx]] > 0
  <2> SUFFICES ASSUME total % WORD > 0
               PROVE  flows # << >> /\ w[flows[idx]] > 0
    OBVIOUS
  <2>1. total > 0
    <3>1. 0 % WORD = 0
      BY SmallMod, BalancerAssumption
    <3>2. QED
      BY <1>2, <3>1
  <2>2. \E j \in I : v[j] > 0
    <3> HIDE DEF I, v
    <3>1. QED
      BY <1>1, <2>1, SumBoundsTerms
  <2>3. big # {}
    BY <1>1, <1>5, <2>2
  <2>4. idx \in I /\ w[flows[idx]] > 0
    BY <1>4, <2>3 DEF BigOnes
  <2>5. QED
    BY <1>1, <2>4
<1>8. idx \in Nat \ {0}
  <2>1. CASE big # {}
    BY <1>1, <1>4, <2>1 DEF BigOnes
  <2>2. QED
    BY <2>1
<1> HIDE DEF I, big, v
<1>9. InfoOf(w, flows) = [flows |-> flows, load |-> total % WORD, biggestLoad_idx |-> idx]
  BY DEF InfoOf, I, v, big
<1> HIDE DEF total, idx
<1>10. QED
  BY <1>3, <1>6, <1>7, <1>8, <1>9 DEF Record, I

(***************************************************************************)
(* The most and the least loaded core are cores, and are what they are     *)
(* called.  Cores to be balanced have a load.                              *)
(***************************************************************************)
LEMMA Extremes ==
  ASSUME core_load \in [Core -> Record]
  PROVE  /\ bigCore \in Core /\ smallCore \in Core
         /\ core_load[bigCore].load = biggestLoad
         /\ core_load[smallCore].load = smallestLoad
         /\ \A c \in Core : /\ core_load[c].load \in Nat
                            /\ smallestLoad <= core_load[c].load
                            /\ core_load[c].load <= biggestLoad
         /\ smallestLoad \in Nat /\ biggestLoad \in Nat
<1> DEFINE loads == {core_load[c].load : c \in Core}
           most == {c \in Core : core_load[c].load = biggestLoad}
           least == {c \in Core : core_load[c].load = smallestLoad}
<1>1. 0 \in Core /\ Core \in SUBSET Nat
  BY BalancerAssumption DEF Core
<1>2. \A c \in Core : core_load[c].load \in 0 .. WORD - 1
  BY DEF Record
<1>3. loads \in SUBSET Nat /\ loads # {} /\ \A x \in loads : x <= WORD
  <2>1. ASSUME NEW c \in Core
        PROVE  core_load[c].load \in Nat /\ core_load[c].load <= WORD
    BY <1>2, BalancerAssumption
  <2>2. QED
    BY <1>1, <2>1
<1>4. /\ Max(loads) \in loads /\ \A x \in loads : x <= Max(loads)
      /\ Min(loads) \in loads /\ \A x \in loads : Min(loads) <= x
  <2> HIDE DEF loads
  <2>1. QED
    BY <1>3, MinIsLeast, MaxIsGreatest, BalancerAssumption
<1>5. biggestLoad = Max(loads) /\ smallestLoad = Min(loads)
  BY DEF biggestLoad, smallestLoad
<1>6. most # {} /\ least # {}
  BY <1>4, <1>5
<1>7. bigCore \in most /\ smallCore \in least
  <2>1. most \in SUBSET Nat /\ least \in SUBSET Nat
    BY <1>1
  <2>2. bigCore = Min(most) /\ smallCore = Min(least)
    BY DEF bigCore, smallCore
  <2> HIDE DEF most, least
  <2>3. QED
    BY <1>6, <2>1, <2>2, MinIsLeast
<1>8. QED
  BY <1>3, <1>4, <1>5, <1>7

(***************************************************************************)
(* Cores that are to be balanced are not all without load.                 *)
(***************************************************************************)
LEMMA ImbalanceHasLoad ==
  ASSUME core_load \in [Core -> Record], Imbalanced
  PROVE  biggestLoad > 0
<1> DEFINE v == [c \in Core |-> core_load[c].load]
           total == SumOver(v, Core)
<1>1. IsFiniteSet(Core)
  BY FS_Interval, BalancerAssumption DEF Core
<1>2. \A c \in Core : v[c] \in Nat /\ v[c] <= biggestLoad
  BY Extremes
<1>3. biggestLoad \in Nat
  BY Extremes
<1> SUFFICES ASSUME biggestLoad = 0
             PROVE  FALSE
  BY <1>3
<1>4. total = 0
  <2>1. \A c \in Core : ~ v[c] > 0
    BY <1>2
  <2> HIDE DEF v
  <2>2. total \in Nat
    BY <1>1, <1>2, SumIsNat
  <2>3. ~ total > 0
    BY <1>1, <1>2, <2>1, SumBoundsTerms
  <2> HIDE DEF total
  <2>4. QED
    BY <2>2, <2>3
<1>5. averageLoad = 0
  <2>1. averageLoad = (total % WORD) \div nbCores
    BY DEF averageLoad
  <2> HIDE DEF total
  <2>2. total % WORD = 0
    BY <1>4, SmallMod, BalancerAssumption
  <2>3. 0 \div nbCores = 0
    BY BalancerAssumption
  <2>4. QED
    BY <2>1, <2>2, <2>3
<1>6. (10 + IMBALANCE_TENTHS) * averageLoad = 0
  BY <1>5, BalancerAssumption
<1>7. QED
  BY <1>5, <1>6 DEF Imbalanced
-----------------------------------------------------------------------------
(***************************************************************************)
(* Taking a flow off a list keeps every other one, once.                   *)
(***************************************************************************)
LEMMA RemoveAtProperties ==
  ASSUME NEW flows \in Seq(Flow), NEW i \in Indices(flows)
  PROVE  /\ RemoveAt(flows, i) \in Seq(Flow)
         /\ Len(RemoveAt(flows, i)) = Len(flows) - 1
         /\ \A j \in 1 .. Len(flows) - 1 :
              RemoveAt(flows, i)[j] = IF j = i THEN flows[Len(flows)] ELSE flows[j]
<1> DEFINE n == Len(flows)
           g == [flows EXCEPT ![i] = flows[n]]
<1>1. n \in Nat /\ i \in 1 .. n /\ n \in 1 .. n
  BY DEF Indices
<1>2. flows \in [1 .. n -> Flow]
  BY LenProperties
<1>3. g \in [1 .. n -> Flow]
  BY <1>1, <1>2
<1>4. g \in Seq(Flow) /\ Len(g) = n
  <2>1. g \in Seq(Flow)
    BY <1>1, <1>3 DEF Seq
  <2>2. DOMAIN g = 1 .. n
    BY <1>3
  <2>3. QED
    BY <1>1, <2>1, <2>2, LenProperties
<1>5. RemoveAt(flows, i) = [j \in 1 .. n - 1 |-> g[j]]
  <2>1. RemoveAt(flows, i) = SubSeq(g, 1, n - 1)
    BY DEF RemoveAt
  <2> HIDE DEF g
  <2>2. QED
    BY <1>1, <1>4, <2>1, SubSeqProperties
<1>6. \A j \in 1 .. n - 1 : g[j] = IF j = i THEN flows[n] ELSE flows[j]
  BY <1>1, <1>2
<1>7. \A j \in 1 .. n - 1 : g[j] \in Flow
  BY <1>1, <1>3
<1> HIDE DEF g, n
<1>8. n - 1 \in Nat
  BY <1>1
<1>9. [j \in 1 .. n - 1 |-> g[j]] \in Seq(Flow)
  BY <1>7, <1>8, IsASeq
<1>10. Len(RemoveAt(flows, i)) = n - 1
  BY <1>5, <1>8, <1>9, LenProperties
<1>11. QED
  BY <1>5, <1>6, <1>9, <1>10 DEF n
-----------------------------------------------------------------------------
(* The flow a migration moves, and the lists of the cores around it. *)

Moved == core_load[bigCore].flows[core_load[bigCore].biggestLoad_idx]

Left(c) ==
  IF c = bigCore
  THEN RemoveAt(core_load[bigCore].flows, core_load[bigCore].biggestLoad_idx)
  ELSE core_load[c].flows

After(c) == IF c = smallCore THEN Append(Left(c), Moved) ELSE Left(c)

(***************************************************************************)
(* A core to be balanced has a flow to give away, a biggest one of those   *)
(* it lists.                                                               *)
(***************************************************************************)
LEMMA MovedIsThere ==
  ASSUME TypeOK, CoreInfoFresh, pc = "balance", Imbalanced
  PROVE  LET from == core_load[bigCore].flows
         IN  /\ bigCore \in Core /\ smallCore \in Core
             /\ from \in Seq(Flow)
             /\ core_load[bigCore].biggestLoad_idx \in Indices(from)
             /\ Moved \in Flow /\ load[Moved] > 0
             /\ \A j \in Indices(from) : load[from[j]] <= load[Moved]
<1> DEFINE from == core_load[bigCore].flows
<1>1. core_load \in [Core -> Record] /\ load \in [Flow -> 0 .. WORD - 1]
  BY DEF TypeOK, Record
<1>2. bigCore \in Core /\ smallCore \in Core /\ core_load[bigCore].load > 0
  BY <1>1, Extremes, ImbalanceHasLoad
<1>3. from \in Seq(Flow)
  BY <1>1, <1>2 DEF Record
<1>4. core_load[bigCore] = InfoOf(load, from)
  BY <1>2, InfoIs DEF CoreInfoFresh
<1>5. /\ core_load[bigCore].biggestLoad_idx \in Indices(from)
      /\ \A j \in Indices(from) : load[from[j]] <= load[Moved]
      /\ load[Moved] > 0
  <2>1. from # << >> /\ load[Moved] > 0
    BY <1>1, <1>2, <1>3, <1>4, InfoOfList DEF Moved
  <2>2. QED
    BY <1>1, <1>3, <1>4, <2>1, InfoOfList DEF Moved
<1>6. Moved \in Flow
  BY <1>3, <1>5, ElementOfSeq DEF Moved, Indices
<1>7. QED
  BY <1>2, <1>3, <1>5, <1>6

(***************************************************************************)
(* What one turn of the balancing loop does, all told; or it is the end of *)
(* the program, by a write past the end of the list of the receiving core. *)
(***************************************************************************)
Overruns ==
  /\ pc' = "corrupt"
  /\ UNCHANGED <<size, assigned_core, load, core_load, migrations, cursor, ghosts>>

LEMMA MigrateDoes ==
  ASSUME TypeOK, CoreInfoFresh, Migrate, ~Overruns
  PROVE  /\ \A c \in Core : Left(c) \in Seq(Flow) /\ After(c) \in Seq(Flow)
         /\ core_load' = [c \in Core |-> InfoOf(load, After(c))]
         /\ assigned_core' = [assigned_core EXCEPT ![Moved] = smallCore]
         /\ migrations' = Append(migrations, [key |-> Moved, destination_core |-> smallCore])
         /\ pc = "balance" /\ UNCHANGED <<size, load, cursor, pc, start, ranOff, before>>
<1> DEFINE from == core_load[bigCore].flows
           i == core_load[bigCore].biggestLoad_idx
           removed == [core_load EXCEPT ![bigCore].flows = RemoveAt(from, i)]
           added == [removed EXCEPT ![smallCore].flows = Append(@, from[i])]
<1>1. /\ pc = "balance" /\ Imbalanced /\ UNCHANGED <<size, load, cursor, pc, start, ranOff, before>>
      /\ balancer_migrate(bigCore, smallCore)
  BY DEF Migrate, Overruns, ghosts
<1>2. /\ bigCore \in Core /\ smallCore \in Core
      /\ from \in Seq(Flow) /\ i \in Indices(from) /\ Moved \in Flow
  BY <1>1, MovedIsThere
<1>3. RemoveAt(from, i) \in Seq(Flow)
  BY <1>2, RemoveAtProperties
<1>4. core_load \in [Core -> Record]
  BY DEF TypeOK, Record
<1>5. \A c \in Core : core_load[c].flows \in Seq(Flow)
  BY <1>4 DEF Record
<1>6. \A c \in Core : Left(c) \in Seq(Flow) /\ After(c) \in Seq(Flow)
  BY <1>2, <1>3, <1>5, AppendProperties DEF Left, After
<1>7. from[i] = Moved
  BY DEF Moved
<1>8. \A c \in Core : added[c].flows = After(c)
  <2>1. \A c \in Core : removed[c].flows = Left(c)
    BY <1>2, <1>4 DEF Record, Left
  <2>2. \A c \in Core : added[c].flows = IF c = smallCore THEN Append(removed[c].flows, Moved)
                                         ELSE removed[c].flows
    BY <1>2, <1>4, <1>7 DEF Record
  <2>3. QED
    BY <2>1, <2>2 DEF After
<1>9. ASSUME NEW c \in Core, c \notin Recomputed(bigCore, smallCore)
      PROVE  added[c] = InfoOf(load, After(c))
  <2>1. c # bigCore /\ c # smallCore
    BY <1>9 DEF Recomputed
  <2>2. added[c] = core_load[c]
    BY <1>2, <1>4, <2>1
  <2>3. After(c) = core_load[c].flows
    BY <2>1 DEF After, Left
  <2>4. core_load[c] = InfoOf(load, core_load[c].flows)
    BY <1>1, InfoIs DEF CoreInfoFresh
  <2>5. QED
    BY <2>2, <2>3, <2>4
<1>10. core_load' = [c \in Core |-> IF c \in Recomputed(bigCore, smallCore)
                                    THEN balancer_update_core_info(added[c].flows)
                                    ELSE added[c]]
  BY <1>1 DEF balancer_migrate
<1> HIDE DEF added
<1>11. \A c \in Core : core_load'[c] = InfoOf(load, After(c))
  BY <1>8, <1>9, <1>10, InfoIs
<1>12. core_load' = [c \in Core |-> InfoOf(load, After(c))]
  BY <1>10, <1>11
<1>13. /\ assigned_core' = [assigned_core EXCEPT ![Moved] = smallCore]
       /\ migrations' = Append(migrations, [key |-> Moved, destination_core |-> smallCore])
  BY <1>1, <1>7 DEF balancer_migrate, Assign, Log
<1>14. QED
  BY <1>1, <1>6, <1>12, <1>13
-----------------------------------------------------------------------------
(***************************************************************************)
(* The loads and biggest flows compared are those of the current lists.    *)
(***************************************************************************)
LEMMA FreshStep ==
  ASSUME TypeOK, CoreInfoFresh, [Next]_vars
  PROVE  CoreInfoFresh'
<1>1. CASE ComputeLoads
  <2>1. /\ core_load' = [c \in Core |-> balancer_update_core_info(core_load[c].flows)]
        /\ load' = load
    BY <1>1 DEF ComputeLoads
  <2>2. \A c \in Core : core_load'[c] = InfoOf(load, core_load[c].flows)
    BY <2>1, InfoIs
  <2>3. \A c \in Core : core_load'[c].flows = core_load[c].flows
    BY <2>2, InfoFlows
  <2>4. QED
    BY <2>1, <2>2, <2>3, FreshIsNext
<1>2. CASE Migrate /\ ~Overruns
  <2>1. /\ \A c \in Core : core_load'[c] = InfoOf(load, After(c))
        /\ load' = load
    BY <1>2, MigrateDoes
  <2>2. \A c \in Core : core_load'[c].flows = After(c)
    BY <2>1, InfoFlows
  <2>3. QED
    BY <2>1, <2>2, FreshIsNext
<1>3. CASE UNCHANGED vars
  BY <1>3, FreshIs, FreshIsNext DEF vars
<1>4. CASE NewRound \/ FillTable \/ Walk \/ Finish \/ Overruns
  <2>1. pc' # "balance"
    BY <1>4 DEF NewRound, FillTable, Walk, Memorize, AppendTo, Finish, Overruns
  <2>2. QED
    BY <2>1, FreshIsNext
<1>5. QED
  BY <1>1, <1>2, <1>3, <1>4 DEF Next

(***************************************************************************)
(* Types are kept; a core a flow is taken from has one.                    *)
(***************************************************************************)
LEMMA TypeStep ==
  ASSUME TypeOK, CoreInfoFresh, [Next]_vars
  PROVE  TypeOK'
<1>1. CASE NewRound
  <2>1. -1 \in -1 .. HASHMAP_SIZE - 1 /\ 0 \in 0 .. WORD - 1
    BY BalancerAssumption
  <2>2. << >> \in Seq(Migration)
    OBVIOUS
  <2>3. QED
    BY <1>1, <2>1, <2>2 DEF NewRound, TypeOK
<1>2. CASE FillTable
  <2>1. PICK n \in size .. HASHMAP_SIZE, at \in StartAt :
             /\ size' = n
             /\ \E loads \in [0 .. n - 1 -> Loads] :
                  load' = [f \in Flow |-> IF f < n THEN loads[f] ELSE 0]
             /\ cursor' = at /\ start' = at
    BY <1>2 DEF FillTable
  <2>2. size' \in 0 .. HASHMAP_SIZE /\ cursor' \in -1 .. HASHMAP_SIZE - 1 /\ start' = cursor'
    BY <2>1, BalancerAssumption DEF TypeOK
  <2>3. load' \in [Flow -> 0 .. WORD - 1]
    <3>1. PICK loads \in [0 .. n - 1 -> Loads] :
               load' = [f \in Flow |-> IF f < n THEN loads[f] ELSE 0]
      BY <2>1
    <3>2. n \in Int /\ Flow \in SUBSET Nat
      BY BalancerAssumption DEF TypeOK, Flow
    <3>3. \A f \in Flow : (IF f < n THEN loads[f] ELSE 0) \in 0 .. WORD - 1
      <4> SUFFICES ASSUME NEW f \in Flow
                   PROVE  (IF f < n THEN loads[f] ELSE 0) \in 0 .. WORD - 1
        OBVIOUS
      <4>1. CASE f < n
        <5>1. f \in 0 .. n - 1
          BY <3>2, <4>1
        <5>2. QED
          BY <4>1, <5>1, BalancerAssumption
      <4>2. CASE ~ (f < n)
        BY <4>2, BalancerAssumption
      <4>3. QED
        BY <4>1, <4>2
    <3>4. QED
      BY <3>1, <3>3
  <2>4. QED
    BY <1>2, <2>2, <2>3 DEF FillTable, TypeOK
<1>3. CASE Walk
  <2>1. ASSUME NEW f \in Flow, Memorize(f)
        PROVE  /\ core_load' \in [Core -> Record]
               /\ pc' \in {"walk", "corrupt"}
    <3>1. assigned_core[f] \in Core
      BY DEF TypeOK
    <3>2. core_load \in [Core -> Record]
      BY DEF TypeOK, Record
    <3>3. core_load[assigned_core[f]].flows \in Seq(Flow)
      BY <3>1, <3>2 DEF Record
    <3>4. Append(core_load[assigned_core[f]].flows, f) \in Seq(Flow)
      BY <3>3, AppendProperties
    <3>5. pc = "walk"
      BY <1>3 DEF Walk
    <3>6. CASE AppendTo(assigned_core[f], f) /\ UNCHANGED pc
      <4> DEFINE c == assigned_core[f]
                 l == Append(core_load[c].flows, f)
      <4>1. core_load' = [core_load EXCEPT ![c] = [core_load[c] EXCEPT !.flows = l]]
        BY <3>6 DEF AppendTo
      <4>2. [core_load[c] EXCEPT !.flows = l] \in Record
        BY <3>1, <3>2, <3>4 DEF Record
      <4> HIDE DEF c, l
      <4>3. core_load' \in [Core -> Record]
        BY <3>1, <3>2, <4>1, <4>2 DEF c
      <4>4. QED
        BY <3>5, <3>6, <4>3
    <3>7. QED
      BY <2>1, <3>2, <3>6 DEF Memorize
  <2>2. cursor \in Int /\ size \in Int /\ HASHMAP_SIZE \in Int
    BY BalancerAssumption DEF TypeOK
  <2>3. cursor + 1 < size => cursor + 1 \in Flow
    BY <2>2 DEF TypeOK, Flow
  <2>4. cursor > start => cursor \in Flow
    BY <2>2 DEF TypeOK, Flow
  <2>5. core_load \in [Core -> Record]
    BY DEF TypeOK, Record
  <2>6. /\ core_load' \in [Core -> Record]
        /\ pc' \in {"walk", "load", "crashed", "corrupt"}
        /\ cursor' \in -1 .. HASHMAP_SIZE - 1 /\ ranOff' \in BOOLEAN
    <3>1. CASE cursor + 1 < size /\ Memorize(cursor + 1) /\ cursor' = cursor + 1
               /\ UNCHANGED ranOff
      <4>1. cursor' \in -1 .. HASHMAP_SIZE - 1
        BY <2>2, <3>1 DEF TypeOK
      <4>2. QED
        BY <2>1, <2>3, <3>1, <4>1 DEF TypeOK
    <3>2. CASE pc' = "load" /\ UNCHANGED <<core_load, cursor, ranOff>>
      BY <2>5, <3>2 DEF TypeOK
    <3>3. CASE /\ \/ cursor > start /\ Memorize(cursor)
                  \/ cursor = start /\ pc' = "crashed" /\ UNCHANGED core_load
               /\ ranOff' = TRUE
               /\ UNCHANGED cursor
      BY <2>1, <2>4, <2>5, <3>3 DEF TypeOK
    <3>4. QED
      BY <1>3, <3>1, <3>2, <3>3 DEF Walk
  <2>7. QED
    BY <1>3, <2>6 DEF Walk, TypeOK, Record
<1>4. CASE ComputeLoads
  <2>1. \A c \in Core : balancer_update_core_info(core_load[c].flows) \in Record
    <3>1. \A c \in Core : core_load[c].flows \in Seq(Flow)
      BY DEF TypeOK
    <3>2. QED
      BY <3>1, InfoIs, InfoOfList DEF TypeOK
  <2>2. core_load' \in [Core -> Record]
    BY <1>4, <2>1 DEF ComputeLoads
  <2>3. QED
    BY <1>4, <2>2 DEF ComputeLoads, TypeOK, Record, ghosts
<1>5. CASE Migrate /\ ~Overruns
  <2>1. /\ \A c \in Core : After(c) \in Seq(Flow)
        /\ core_load' = [c \in Core |-> InfoOf(load, After(c))]
        /\ assigned_core' = [assigned_core EXCEPT ![Moved] = smallCore]
        /\ migrations' = Append(migrations, [key |-> Moved, destination_core |-> smallCore])
        /\ UNCHANGED <<size, load, cursor, pc, start, ranOff, before>>
    BY <1>5, MigrateDoes
  <2>2. Moved \in Flow /\ smallCore \in Core
    BY <1>5, MovedIsThere DEF Migrate
  <2>3. core_load' \in [Core -> Record]
    BY <2>1, InfoOfList DEF TypeOK
  <2>4. migrations' \in Seq(Migration)
    BY <2>1, <2>2, AppendProperties DEF TypeOK, Migration
  <2>5. assigned_core' \in [Flow -> Core]
    BY <2>1, <2>2 DEF TypeOK
  <2>6. QED
    BY <2>1, <2>3, <2>4, <2>5 DEF TypeOK, Record
<1>6. CASE Finish
  <2>1. EmptyCore \in Record
    BY BalancerAssumption DEF EmptyCore, Record
  <2>2. core_load' \in [Core -> Record]
    BY <1>6, <2>1 DEF Finish
  <2>3. -1 \in -1 .. HASHMAP_SIZE - 1
    BY BalancerAssumption
  <2>4. QED
    BY <1>6, <2>2, <2>3 DEF Finish, TypeOK, Record, ghosts
<1>7. CASE UNCHANGED vars
  BY <1>7 DEF vars, TypeOK
<1>8. CASE Overruns
  BY <1>8 DEF Overruns, TypeOK, ghosts
<1>9. QED
  BY <1>1, <1>2, <1>3, <1>4, <1>5, <1>6, <1>7, <1>8 DEF Next

LEMMA InitTypes == Init => TypeOK /\ CoreInfoFresh
<1> SUFFICES ASSUME Init
             PROVE  TypeOK /\ CoreInfoFresh
  OBVIOUS
<1>1. EmptyCore \in Record /\ 0 \in Core /\ -1 \in -1 .. HASHMAP_SIZE - 1
  BY BalancerAssumption DEF EmptyCore, Record, Core
<1>2. core_load \in [Core -> Record]
  BY <1>1 DEF Init
<1>3. QED
  <2>1. << >> \in Seq(Migration) /\ 0 \in 0 .. HASHMAP_SIZE /\ 0 \in 0 .. WORD - 1
    BY BalancerAssumption
  <2>2. core_load \in [Core -> [flows : Seq(Flow), load : 0 .. WORD - 1,
                              biggestLoad_idx : Nat \ {0}]]
    BY <1>2 DEF Record
  <2>3. QED
    BY <1>1, <2>1, <2>2 DEF Init, TypeOK, CoreInfoFresh

(***************************************************************************)
(* Every variable keeps its type: the sums are uint64_t, and a core that a *)
(* flow is moved from lists one.                                           *)
(***************************************************************************)
THEOREM TypeCorrect == Spec => []TypeOK
<1>1. TypeOK /\ CoreInfoFresh /\ [Next]_vars => TypeOK' /\ CoreInfoFresh'
  BY TypeStep, FreshStep
<1>2. QED
  BY <1>1, InitTypes, PTL DEF Spec

(***************************************************************************)
(* While cores are compared, the load and the biggest flow of each are     *)
(* those of its current list.                                              *)
(***************************************************************************)
THEOREM CoresAreFresh == Spec => []CoreInfoFresh
<1>1. TypeOK /\ CoreInfoFresh /\ [Next]_vars => TypeOK' /\ CoreInfoFresh'
  BY TypeStep, FreshStep
<1>2. QED
  BY <1>1, InitTypes, PTL DEF Spec
-----------------------------------------------------------------------------
(***************************************************************************)
(* A step keeps the migrations in agreement with the assignment.           *)
(***************************************************************************)
LEMMA ReplayStep ==
  ASSUME TypeOK, CoreInfoFresh, MigrationsReplay, [Next]_vars
  PROVE  MigrationsReplay'
<1>1. CASE NewRound
  <2>1. migrations' = << >> /\ before' = assigned_core /\ assigned_core' = assigned_core
    BY <1>1 DEF NewRound
  <2>2. {m \in 1 .. Len(migrations') : TRUE} = {}
    BY <2>1
  <2>3. \A f \in Flow : {m \in 1 .. Len(migrations') : migrations'[m].key = f} = {}
    BY <2>2
  <2>4. QED
    BY <2>1, <2>3 DEF MigrationsReplay
<1>2. CASE Migrate /\ ~Overruns
  <2> DEFINE n == Len(migrations)
             last == [key |-> Moved, destination_core |-> smallCore]
             Of(f) == {m \in 1 .. n : migrations[m].key = f}
             OfNext(f) == {m \in 1 .. n + 1 : migrations'[m].key = f}
  <2>1. /\ assigned_core' = [assigned_core EXCEPT ![Moved] = smallCore]
        /\ migrations' = Append(migrations, last)
        /\ before' = before
    BY <1>2, MigrateDoes
  <2>2. /\ n \in Nat /\ Len(migrations') = n + 1
        /\ \A m \in 1 .. n : migrations'[m] = migrations[m]
        /\ migrations'[n + 1] = last
    BY <2>1, AppendProperties, LenProperties DEF TypeOK
  <2>3. Moved \in Flow
    BY <1>2, MovedIsThere DEF Migrate
  <2> HIDE DEF last
  <2>4. ASSUME NEW f \in Flow, f # Moved
        PROVE  assigned_core'[f] = IF OfNext(f) = {} THEN before'[f]
                                   ELSE migrations'[Max(OfNext(f))].destination_core
    <3>1. OfNext(f) = Of(f)
      <4>1. last.key # f
        BY <2>4 DEF last
      <4>2. QED
        BY <2>2, <4>1
    <3>2. Of(f) # {} => Max(Of(f)) \in Of(f)
      <4> DEFINE S == Of(f)
      <4>1. S \in SUBSET Nat /\ \A m \in S : m <= n
        BY <2>2
      <4> HIDE DEF S
      <4>2. S # {} => Max(S) \in S
        BY <2>2, <4>1, MaxIsGreatest
      <4>3. QED
        BY <4>2 DEF S
    <3>3. Of(f) # {} => migrations'[Max(Of(f))] = migrations[Max(Of(f))]
      BY <2>2, <3>2
    <3>4. assigned_core[f] = IF Of(f) = {} THEN before[f]
                             ELSE migrations[Max(Of(f))].destination_core
      BY DEF MigrationsReplay
    <3>5. assigned_core'[f] = assigned_core[f]
      BY <2>1, <2>4 DEF TypeOK
    <3>6. QED
      BY <2>1, <3>1, <3>3, <3>4, <3>5
  <2>5. /\ OfNext(Moved) # {}
        /\ assigned_core'[Moved] = migrations'[Max(OfNext(Moved))].destination_core
    <3>1. n + 1 \in OfNext(Moved)
      BY <2>2 DEF last
    <3>2. Max(OfNext(Moved)) = n + 1
      <4> DEFINE S == OfNext(Moved)
      <4>1. S \in SUBSET Nat /\ \A m \in S : m <= n + 1
        BY <2>2
      <4>2. n + 1 \in S
        BY <3>1
      <4> HIDE DEF S
      <4>3. n + 1 \in Nat
        BY <2>2
      <4>4. Max(S) \in S /\ \A m \in S : m <= Max(S)
        BY <4>1, <4>2, <4>3, MaxIsGreatest
      <4>5. Max(S) \in Nat /\ Max(S) <= n + 1 /\ n + 1 <= Max(S)
        BY <4>1, <4>2, <4>4
      <4>6. Max(S) = n + 1
        BY <4>3, <4>5
      <4>7. QED
        BY <4>6 DEF S
    <3>3. assigned_core'[Moved] = smallCore
      BY <2>1, <2>3 DEF TypeOK
    <3>4. migrations'[n + 1].destination_core = smallCore
      BY <2>2 DEF last
    <3>5. QED
      BY <3>1, <3>2, <3>3, <3>4
  <2>6. QED
    BY <2>2, <2>4, <2>5 DEF MigrationsReplay
<1>3. CASE FillTable \/ Walk \/ ComputeLoads \/ Finish \/ Overruns \/ UNCHANGED vars
  <2>1. UNCHANGED <<migrations, assigned_core, before>>
    BY <1>3 DEF FillTable, Walk, ComputeLoads, Finish, Overruns, vars, ghosts
  <2>2. QED
    BY <2>1 DEF MigrationsReplay
<1>4. QED
  BY <1>1, <1>2, <1>3 DEF Next

(***************************************************************************)
(* Sent to the switch in order, the migrations of a round lead from the    *)
(* assignment before it to the one the balancer keeps.                     *)
(***************************************************************************)
THEOREM MigrationsLeadThere == Spec => []MigrationsReplay
<1>1. Init => MigrationsReplay
  <2> SUFFICES ASSUME Init
               PROVE  MigrationsReplay
    OBVIOUS
  <2>1. migrations = << >> /\ before = assigned_core
    BY DEF Init
  <2>2. \A f \in Flow : {m \in 1 .. Len(migrations) : migrations[m].key = f} = {}
    BY <2>1
  <2>3. QED
    BY <2>1, <2>2 DEF MigrationsReplay
<1>2. TypeOK /\ CoreInfoFresh /\ MigrationsReplay /\ [Next]_vars => MigrationsReplay'
  BY ReplayStep
<1>3. QED
  BY <1>1, <1>2, TypeCorrect, CoresAreFresh, PTL DEF Spec
-----------------------------------------------------------------------------
(* Lists L, one for each core, tell the assignment a of the flows K. *)
Tell(L, a, K) ==
  \A c \in Core :
    /\ {L[c][j] : j \in 1 .. Len(L[c])} = {f \in K : a[f] = c}
    /\ \A i, j \in 1 .. Len(L[c]) : L[c][i] = L[c][j] => i = j

ListOf(info) == [c \in Core |-> info[c].flows]

LEMMA ListsTell ==
  ListsMatchAssignment <=>
    (pc \in {"walk", "load", "balance"} /\ ~ranOff
       => Tell(ListOf(core_load), assigned_core, Counted))
BY DEF ListsMatchAssignment, Tell, ListOf, Listed, Indices

LEMMA ListsTellNext ==
  ListsMatchAssignment' <=>
    (pc' \in {"walk", "load", "balance"} /\ ~ranOff'
       => Tell(ListOf(core_load'), assigned_core', Counted'))
BY DEF ListsMatchAssignment, Tell, ListOf, Listed, Indices

(***************************************************************************)
(* Adding a flow to the list of its core.                                  *)
(***************************************************************************)
LEMMA TellAdded ==
  ASSUME NEW L \in [Core -> Seq(Flow)], NEW a, NEW K, Tell(L, a, K),
         NEW x \in Flow, x \notin K, a[x] \in Core
  PROVE  Tell([L EXCEPT ![a[x]] = Append(L[a[x]], x)], a, K \cup {x})
<1> DEFINE d == a[x]
           l == L[d]
           M == [L EXCEPT ![d] = Append(l, x)]
<1>1. l \in Seq(Flow) /\ Len(l) \in Nat
  BY LenProperties
<1>2. /\ Len(Append(l, x)) = Len(l) + 1
      /\ \A j \in 1 .. Len(l) : Append(l, x)[j] = l[j]
      /\ Append(l, x)[Len(l) + 1] = x
  BY <1>1, AppendProperties
<1> SUFFICES ASSUME NEW c \in Core
             PROVE  /\ {M[c][j] : j \in 1 .. Len(M[c])} = {f \in K \cup {x} : a[f] = c}
                    /\ \A i, j \in 1 .. Len(M[c]) : M[c][i] = M[c][j] => i = j
  BY DEF Tell
<1>3. CASE c # d
  <2>1. M[c] = L[c]
    BY <1>3
  <2>2. {f \in K \cup {x} : a[f] = c} = {f \in K : a[f] = c}
    BY <1>3
  <2>3. QED
    BY <2>1, <2>2 DEF Tell
<1>4. CASE c = d
  <2> DEFINE m == Append(l, x)
  <2>1. M[c] = m
    BY <1>4
  <2>2. /\ {l[j] : j \in 1 .. Len(l)} = {f \in K : a[f] = d}
        /\ \A i, j \in 1 .. Len(l) : l[i] = l[j] => i = j
    BY DEF Tell
  <2>3. \A j \in 1 .. Len(l) : l[j] # x
    BY <2>2
  <2> HIDE DEF m, l, d
  <2>4. \A j \in 1 .. Len(m) : (j \in 1 .. Len(l) /\ m[j] = l[j]) \/ (j = Len(l) + 1 /\ m[j] = x)
    BY <1>1, <1>2 DEF m
  <2>5. \A j \in 1 .. Len(l) : j \in 1 .. Len(m) /\ m[j] = l[j]
    BY <1>1, <1>2 DEF m
  <2>6. Len(l) + 1 \in 1 .. Len(m) /\ m[Len(l) + 1] = x
    BY <1>1, <1>2 DEF m
  <2>7. {m[j] : j \in 1 .. Len(m)} = {l[j] : j \in 1 .. Len(l)} \cup {x}
    BY <2>4, <2>5, <2>6
  <2>8. {f \in K \cup {x} : a[f] = d} = {f \in K : a[f] = d} \cup {x}
    BY DEF d
  <2>9. \A i, j \in 1 .. Len(m) : m[i] = m[j] => i = j
    BY <2>2, <2>3, <2>4
  <2>10. QED
    BY <1>4, <2>1, <2>2, <2>7, <2>8, <2>9
<1>5. QED
  BY <1>3, <1>4

(***************************************************************************)
(* Taking the i-th flow of a core off its list.                            *)
(***************************************************************************)
LEMMA TellRemoved ==
  ASSUME NEW L \in [Core -> Seq(Flow)], NEW a, NEW K, Tell(L, a, K),
         NEW d \in Core, NEW i \in Indices(L[d])
  PROVE  /\ Tell([L EXCEPT ![d] = RemoveAt(L[d], i)], a, K \ {L[d][i]})
         /\ L[d][i] \in K
<1> DEFINE l == L[d]
           n == Len(l)
           x == l[i]
           m == RemoveAt(l, i)
           M == [L EXCEPT ![d] = m]
<1>1. l \in Seq(Flow) /\ n \in Nat /\ i \in 1 .. n
  BY LenProperties DEF Indices
<1>2. /\ Len(m) = n - 1
      /\ \A j \in 1 .. n - 1 : m[j] = IF j = i THEN l[n] ELSE l[j]
  BY <1>1, RemoveAtProperties
<1>3. /\ {l[j] : j \in 1 .. n} = {f \in K : a[f] = d}
      /\ \A j, k \in 1 .. n : l[j] = l[k] => j = k
  BY DEF Tell
<1>4. x \in K /\ a[x] = d
  BY <1>1, <1>3
<1> SUFFICES ASSUME NEW c \in Core
             PROVE  /\ {M[c][j] : j \in 1 .. Len(M[c])} = {f \in K \ {x} : a[f] = c}
                    /\ \A j, k \in 1 .. Len(M[c]) : M[c][j] = M[c][k] => j = k
  BY <1>4 DEF Tell
<1>5. CASE c # d
  <2>1. M[c] = L[c]
    BY <1>5
  <2>2. {f \in K \ {x} : a[f] = c} = {f \in K : a[f] = c}
    BY <1>4, <1>5
  <2>3. /\ {L[c][j] : j \in 1 .. Len(L[c])} = {f \in K : a[f] = c}
        /\ \A j, k \in 1 .. Len(L[c]) : L[c][j] = L[c][k] => j = k
    BY DEF Tell
  <2> HIDE DEF M, x
  <2>4. QED
    BY <2>1, <2>2, <2>3
<1>6. CASE c = d
  <2>1. M[c] = m
    BY <1>6
  <2> HIDE DEF l, m, n, M
  <2>2. \A j \in 1 .. n - 1 : /\ j \in 1 .. n /\ n \in 1 .. n
                              /\ m[j] = IF j = i THEN l[n] ELSE l[j]
    BY <1>1, <1>2
  <2>3. \A j, k \in 1 .. n - 1 : m[j] = m[k] => j = k
    <3> SUFFICES ASSUME NEW j \in 1 .. n - 1, NEW k \in 1 .. n - 1, m[j] = m[k]
                 PROVE  j = k
      OBVIOUS
    <3>1. j # n /\ k # n
      BY <1>1
    <3>2. QED
      BY <1>3, <2>2, <3>1
  <2>4. {m[j] : j \in 1 .. n - 1} = {l[j] : j \in 1 .. n} \ {x}
    <3>1. ASSUME NEW j \in 1 .. n - 1
          PROVE  m[j] \in {l[k] : k \in 1 .. n} \ {x}
      <4>1. j # n
        BY <1>1
      <4>2. PICK k \in 1 .. n : k # i /\ m[j] = l[k]
        BY <2>2, <4>1
      <4>3. QED
        BY <1>1, <1>3, <4>2
    <3>2. ASSUME NEW k \in 1 .. n, l[k] # x
          PROVE  \E j \in 1 .. n - 1 : m[j] = l[k]
      <4>1. k # i
        BY <3>2
      <4>2. CASE k = n
        <5>1. i \in 1 .. n - 1
          BY <1>1, <4>1, <4>2
        <5>2. QED
          BY <2>2, <4>2, <5>1
      <4>3. CASE k # n
        <5>1. k \in 1 .. n - 1
          BY <1>1, <4>3
        <5>2. QED
          BY <2>2, <4>1, <5>1
      <4>4. QED
        BY <4>2, <4>3
    <3>3. QED
      BY <3>1, <3>2
  <2>5. {f \in K \ {x} : a[f] = d} = {f \in K : a[f] = d} \ {x}
    OBVIOUS
  <2>6. Len(m) = n - 1
    BY <1>2
  <2>7. QED
    BY <1>3, <1>6, <2>1, <2>3, <2>4, <2>5, <2>6
<1>7. QED
  BY <1>5, <1>6

(***************************************************************************)
(* Where a round is: before the walk no core lists a flow, during it the   *)
(* cursor is in the table, and after it at the last flow.                  *)
(***************************************************************************)
RoundPlace ==
  /\ pc \in {"idle", "fill"} => \A c \in Core : core_load[c].flows = << >>
  /\ pc = "fill" => migrations = << >>
  /\ pc = "walk" => start <= cursor /\ cursor < size
  /\ pc \in {"load", "balance"} /\ ~ranOff => start <= cursor /\ cursor = size - 1

LEMMA PlaceStep ==
  ASSUME TypeOK, CoreInfoFresh, RoundPlace, [Next]_vars
  PROVE  RoundPlace'
<1>1. CASE NewRound
  BY <1>1 DEF NewRound, RoundPlace
<1>2. CASE FillTable
  <2>1. PICK n \in size .. HASHMAP_SIZE, at \in StartAt :
             at < n /\ size' = n /\ cursor' = at /\ start' = at
    BY <1>2 DEF FillTable
  <2>2. at \in Int
    BY BalancerAssumption
  <2>3. pc' = "walk"
    BY <1>2 DEF FillTable
  <2>4. QED
    BY <2>1, <2>2, <2>3 DEF RoundPlace
<1>3. CASE Walk
  <2>1. /\ pc = "walk" /\ start \in Int /\ cursor \in Int /\ size \in Int
        /\ size <= HASHMAP_SIZE /\ HASHMAP_SIZE \in Int
        /\ start <= cursor /\ cursor < size
        /\ UNCHANGED <<size, start>>
    BY <1>3, BalancerAssumption DEF Walk, TypeOK, RoundPlace
  <2>2. CASE cursor + 1 < size /\ Memorize(cursor + 1) /\ cursor' = cursor + 1
    BY <2>1, <2>2 DEF Memorize, RoundPlace
  <2>3. CASE /\ cursor + 1 >= size
             /\ pc' = "load"
             /\ UNCHANGED <<core_load, cursor, ranOff>>
    BY <2>1, <2>3 DEF RoundPlace
  <2>4. CASE /\ \/ Memorize(cursor)
                \/ pc' = "crashed"
             /\ ranOff' = TRUE
             /\ UNCHANGED cursor
    BY <2>1, <2>4 DEF Memorize, RoundPlace
  <2>5. QED
    BY <1>3, <2>1, <2>2, <2>3, <2>4 DEF Walk
<1>4. CASE ComputeLoads
  BY <1>4 DEF ComputeLoads, RoundPlace, ghosts
<1>5. CASE Migrate
  <2>1. UNCHANGED <<size, cursor, start, ranOff>> /\ pc' \in {pc, "corrupt"} /\ pc = "balance"
    BY <1>5 DEF Migrate, ghosts
  <2>2. QED
    BY <2>1 DEF RoundPlace
<1>6. CASE Finish
  BY <1>6 DEF Finish, RoundPlace, EmptyCore
<1>7. CASE UNCHANGED vars
  BY <1>7 DEF vars, RoundPlace
<1>8. QED
  BY <1>1, <1>2, <1>3, <1>4, <1>5, <1>6, <1>7 DEF Next

(***************************************************************************)
(* A step keeps the lists in agreement with the assignment.                *)
(***************************************************************************)
LEMMA ListsStep ==
  ASSUME TypeOK, CoreInfoFresh, RoundPlace, ListsMatchAssignment, [Next]_vars
  PROVE  ListsMatchAssignment'
<1> DEFINE L == ListOf(core_load)
<1>1. /\ core_load \in [Core -> Record] /\ assigned_core \in [Flow -> Core]
      /\ L \in [Core -> Seq(Flow)]
  BY DEF TypeOK, Record, ListOf
<1>2. CASE FillTable
  <2>1. PICK n \in size .. HASHMAP_SIZE, at \in StartAt :
             at < n /\ size' = n /\ cursor' = at /\ start' = at
    BY <1>2 DEF FillTable
  <2>2. at \in Int
    BY BalancerAssumption
  <2>3. Counted' = {}
    BY <2>1, <2>2 DEF Counted, InTable, Flow
  <2>4. \A c \in Core : ListOf(core_load')[c] = << >>
    BY <1>2 DEF FillTable, RoundPlace, ListOf
  <2>5. Tell(ListOf(core_load'), assigned_core', {})
    BY <2>4 DEF Tell
  <2>6. QED
    BY <2>3, <2>5, ListsTellNext
<1>3. CASE Walk
  <2>1. /\ pc = "walk" /\ start \in Int /\ cursor \in Int /\ size \in Int
        /\ start <= cursor /\ cursor < size
        /\ UNCHANGED <<size, start, assigned_core>>
    BY <1>3 DEF Walk, TypeOK, RoundPlace
  <2>2. CASE cursor + 1 < size /\ Memorize(cursor + 1) /\ cursor' = cursor + 1
               /\ UNCHANGED ranOff
    <3> DEFINE x == cursor + 1
               d == assigned_core[x]
    <3>1. CASE pc' = "corrupt"
      BY <3>1 DEF ListsMatchAssignment
    <3>2. CASE AppendTo(d, x) /\ pc' = pc /\ ~ranOff
      <4>1. x \in Flow /\ x \notin Counted /\ d \in Core
        <5>1. x \in Flow
          BY <2>1, <2>2, BalancerAssumption DEF TypeOK, Flow
        <5>2. x \notin Counted
          BY <2>1 DEF Counted
        <5>3. QED
          BY <1>1, <5>1, <5>2
      <4>2. Counted' = Counted \cup {x}
        BY <2>1, <2>2, <4>1 DEF Counted, InTable, Flow
      <4>3. Tell(L, assigned_core, Counted)
        BY <2>1, <3>2, ListsTell
      <4> HIDE DEF L, x
      <4>4. Tell([L EXCEPT ![d] = Append(L[d], x)], assigned_core, Counted \cup {x})
        BY <1>1, <4>1, <4>3, TellAdded
      <4>5. ListOf(core_load') = [L EXCEPT ![d] = Append(L[d], x)]
        BY <1>1, <3>2, <4>1 DEF AppendTo, ListOf, L, Record
      <4>6. QED
        BY <2>1, <4>2, <4>4, <4>5, ListsTellNext
    <3>3. CASE ranOff
      BY <2>2, <3>3 DEF ListsMatchAssignment
    <3>4. QED
      BY <2>2, <3>1, <3>2, <3>3 DEF Memorize
  <2>3. CASE pc' = "load" /\ UNCHANGED <<core_load, cursor, ranOff>>
    BY <2>1, <2>3 DEF ListsMatchAssignment, Listed, Counted, InTable
  <2>4. CASE ranOff' = TRUE
    BY <2>4 DEF ListsMatchAssignment
  <2>5. QED
    BY <1>3, <2>2, <2>3, <2>4 DEF Walk
<1>4. CASE ComputeLoads
  <2>1. \A c \in Core : core_load'[c] = InfoOf(load, core_load[c].flows)
    BY <1>4, InfoIs DEF ComputeLoads
  <2>2. ListOf(core_load') = L
    BY <2>1, InfoFlows DEF ListOf
  <2>3. UNCHANGED <<size, assigned_core, cursor, start, ranOff>> /\ pc = "load"
    BY <1>4 DEF ComputeLoads, ghosts
  <2>4. Counted' = Counted
    BY <2>3 DEF Counted, InTable
  <2>5. QED
    BY <2>2, <2>3, <2>4, ListsTell, ListsTellNext
<1>5. CASE Migrate /\ ~Overruns
  <2> DEFINE i == core_load[bigCore].biggestLoad_idx
             small == smallCore
             b == [assigned_core EXCEPT ![Moved] = small]
             K == Counted \ {Moved}
             R == ListOf([c \in Core |-> [flows |-> Left(c)]])
  <2>1. /\ \A c \in Core : Left(c) \in Seq(Flow) /\ After(c) \in Seq(Flow)
        /\ core_load' = [c \in Core |-> InfoOf(load, After(c))]
        /\ assigned_core' = b
        /\ pc = "balance" /\ UNCHANGED <<size, cursor, pc, start, ranOff>>
    BY <1>5, MigrateDoes
  <2>2. /\ bigCore \in Core /\ small \in Core /\ Moved \in Flow
        /\ i \in Indices(L[bigCore]) /\ Moved = L[bigCore][i]
    BY <1>5, MovedIsThere DEF Migrate, ListOf, Moved
  <2>3. Counted' = Counted
    BY <2>1 DEF Counted, InTable
  <2>4. R = [L EXCEPT ![bigCore] = RemoveAt(L[bigCore], i)] /\ R \in [Core -> Seq(Flow)]
    BY <1>1, <2>1, <2>2 DEF ListOf, Left
  <2>5. ListOf(core_load') = [R EXCEPT ![small] = Append(R[small], Moved)]
    <3>1. ListOf(core_load') = [c \in Core |-> After(c)]
      BY <2>1, InfoFlows DEF ListOf
    <3>2. R = [c \in Core |-> Left(c)]
      BY DEF ListOf
    <3> HIDE DEF R
    <3>3. [c \in Core |-> After(c)] = [R EXCEPT ![small] = Append(R[small], Moved)]
      BY <2>2, <3>2 DEF After
    <3>4. QED
      BY <3>1, <3>3
  <2>6. ranOff \/ (Moved \in Counted /\ Tell(R, b, K))
    <3> SUFFICES ASSUME ~ranOff
                 PROVE  Moved \in Counted /\ Tell(R, b, K)
      OBVIOUS
    <3>1. Tell(L, assigned_core, Counted)
      BY <2>1, ListsTell
    <3> HIDE DEF L, R
    <3>2. Tell(R, assigned_core, K) /\ Moved \in Counted
      BY <1>1, <2>2, <2>4, <3>1, TellRemoved
    <3>3. \A f \in K : b[f] = assigned_core[f]
      BY <1>1 DEF Counted, InTable
    <3>4. Tell(R, b, K)
      <4>1. \A c \in Core : {f \in K : b[f] = c} = {f \in K : assigned_core[f] = c}
        BY <3>3
      <4>2. QED
        BY <3>2, <4>1 DEF Tell
    <3>5. QED
      BY <3>2, <3>4
  <2>7. CASE ~ranOff
    <3>1. b[Moved] = small
      BY <1>1, <2>2
    <3>2. Moved \notin K /\ K \cup {Moved} = Counted
      BY <2>6, <2>7
    <3> HIDE DEF R, b, K
    <3>3. Tell([R EXCEPT ![small] = Append(R[small], Moved)], b, Counted)
      BY <2>2, <2>4, <2>6, <2>7, <3>1, <3>2, TellAdded
    <3>4. QED
      BY <2>1, <2>3, <2>5, <3>3, ListsTellNext
  <2>8. CASE ranOff
    BY <2>1, <2>8 DEF ListsMatchAssignment
  <2>9. QED
    BY <2>7, <2>8
<1>6. CASE NewRound \/ Finish \/ Overruns
  BY <1>6 DEF NewRound, Finish, Overruns, ListsMatchAssignment
<1>7. CASE UNCHANGED vars
  BY <1>7 DEF vars, ListsMatchAssignment, Listed, Counted, InTable
<1>8. QED
  BY <1>2, <1>3, <1>4, <1>5, <1>6, <1>7 DEF Next

Consistent == TypeOK /\ CoreInfoFresh /\ RoundPlace /\ ListsMatchAssignment

LEMMA InitConsistent == Init => Consistent
<1> SUFFICES ASSUME Init
             PROVE  RoundPlace /\ ListsMatchAssignment
  BY InitTypes DEF Consistent
<1>1. pc = "idle" /\ \A c \in Core : core_load[c].flows = << >>
  BY DEF Init, EmptyCore
<1>2. QED
  BY <1>1 DEF RoundPlace, ListsMatchAssignment

LEMMA ConsistentStep == Consistent /\ [Next]_vars => Consistent'
BY TypeStep, FreshStep, PlaceStep, ListsStep DEF Consistent

(***************************************************************************)
(* Whatever migrations shuffle the lists, a core lists exactly the flows   *)
(* counted that are assigned to it, each once.                             *)
(***************************************************************************)
THEOREM ListsTellAssignment == Spec => []ListsMatchAssignment
<1>1. Consistent => ListsMatchAssignment
  BY DEF Consistent
<1>2. QED
  BY <1>1, InitConsistent, ConsistentStep, PTL DEF Spec
-----------------------------------------------------------------------------
(***************************************************************************)
(* Once the walk has counted every flow, the load of a core as the         *)
(* balancer computes it, from its list, is that of the flows assigned to   *)
(* it; and so for the average.                                             *)
(***************************************************************************)
LEMMA LoadsAgree ==
  ASSUME Consistent, pc = "balance", Complete
  PROVE  /\ \A c \in Core : core_load[c].load = LoadOf(c)
         /\ averageLoad = Average
<1>1. /\ core_load \in [Core -> Record] /\ load \in [Flow -> 0 .. WORD - 1]
      /\ size \in Int /\ cursor = size - 1 /\ start = -1 /\ ~ranOff
  BY DEF Consistent, TypeOK, Record, RoundPlace, Complete
<1>2. Counted = InTable
  BY <1>1 DEF Counted, InTable, Flow
<1>3. ASSUME NEW c \in Core
      PROVE  core_load[c].load = LoadOf(c)
  <2> DEFINE l == core_load[c].flows
             I == Indices(l)
             v == WeightsOf(load, l)
  <2>1. l \in Seq(Flow) /\ core_load[c] = InfoOf(load, l)
    BY <1>1, FreshIs DEF Record, Consistent
  <2>2. core_load[c].load = SumOver(v, I) % WORD
    <3>1. InfoOf(load, l).load = SumOver(v, I) % WORD
      BY DEF InfoOf
    <3>2. QED
      BY <2>1, <3>1
  <2>3. I = 1 .. Len(l) /\ Len(l) \in Nat /\ IsFiniteSet(I)
    BY <2>1, LenProperties, FS_Interval DEF Indices
  <2>4. \A j \in I : v[j] = load[l[j]] /\ load[l[j]] \in Nat
    <3>1. \A j \in I : l[j] \in Flow
      BY <2>1, <2>3, ElementOfSeq
    <3>2. \A j \in I : load[l[j]] \in Nat
      BY <1>1, <3>1
    <3>3. QED
      BY <3>2 DEF WeightsOf
  <2>5. /\ {l[j] : j \in I} = {f \in InTable : assigned_core[f] = c}
        /\ \A i, j \in I : l[i] = l[j] => i = j
    BY <1>1, <1>2 DEF Consistent, ListsMatchAssignment, Listed
  <2> HIDE DEF I, v, l
  <2>6. SumOver(v, I) = SumOver(load, {l[j] : j \in I})
    BY <2>3, <2>4, <2>5, SumRenamed
  <2>7. QED
    BY <2>2, <2>5, <2>6 DEF LoadOf
<1>4. [c \in Core |-> core_load[c].load] = [c \in Core |-> LoadOf(c)]
  BY <1>3
<1>5. averageLoad = Average
  BY <1>4, Zenon DEF averageLoad, Average
<1>6. QED
  BY <1>3, <1>5

(***************************************************************************)
(* A step that ends a round before its quota leaves the loads even.        *)
(***************************************************************************)
LEMMA BalancesStep ==
  ASSUME Consistent, RoundBalances, [Next]_vars
  PROVE  RoundBalances'
<1>1. CASE Finish
  <2> SUFFICES ASSUME Complete, Len(migrations) < MAX_REBALANCE_ITERATIONS
               PROVE  RoundBalances'
    BY <1>1 DEF Finish, RoundBalances, Complete, ghosts
  <2>1. pc = "balance" /\ ~Imbalanced /\ UNCHANGED <<size, assigned_core, load>>
    <3>1. /\ pc = "balance" /\ UNCHANGED <<size, assigned_core, load>>
          /\ Len(migrations) >= MAX_REBALANCE_ITERATIONS \/ ~Imbalanced
      BY <1>1 DEF Finish
    <3>2. Len(migrations) \in Nat /\ MAX_REBALANCE_ITERATIONS \in Nat
      BY BalancerAssumption DEF Consistent, TypeOK
    <3>3. QED
      BY <3>1, <3>2
  <2>2. core_load \in [Core -> Record]
    BY DEF Consistent, TypeOK, Record
  <2> DEFINE upper == (10 + IMBALANCE_TENTHS) * averageLoad
             lower == (10 - IMBALANCE_TENTHS) * averageLoad
  <2>3. averageLoad \in Int /\ upper \in Int /\ lower \in Int
    <3> DEFINE v == [c \in Core |-> core_load[c].load]
               total == SumOver(v, Core)
    <3>1. total \in Nat
      <4>1. IsFiniteSet(Core)
        BY FS_Interval, BalancerAssumption DEF Core
      <4>2. \A c \in Core : v[c] \in Nat
        BY <2>2, Extremes
      <4> HIDE DEF v
      <4>3. QED
        BY <4>1, <4>2, SumIsNat
    <3>2. averageLoad = (total % WORD) \div nbCores
      BY DEF averageLoad
    <3> HIDE DEF total
    <3>3. total % WORD \in Int
      BY <3>1, BalancerAssumption
    <3>4. averageLoad \in Int
      BY <3>2, <3>3, BalancerAssumption
    <3>5. QED
      BY <3>4, BalancerAssumption
  <2> HIDE DEF upper, lower
  <2>4. 10 * biggestLoad <= upper /\ (averageLoad > 0 => 10 * smallestLoad > lower)
    <3>1. biggestLoad \in Int /\ smallestLoad \in Int
      BY <2>2, Extremes
    <3>2. ~ (10 * biggestLoad > upper)
          /\ ~ (averageLoad > 0 /\ 10 * smallestLoad <= lower)
      BY <2>1 DEF Imbalanced, upper, lower
    <3>3. QED
      BY <2>3, <3>1, <3>2
  <2>5. ASSUME NEW c \in Core
        PROVE  /\ 10 * LoadOf(c) <= upper
               /\ Average > 0 => 10 * LoadOf(c) > lower
    <3>1. /\ core_load[c].load \in Nat
          /\ smallestLoad <= core_load[c].load /\ core_load[c].load <= biggestLoad
          /\ smallestLoad \in Nat /\ biggestLoad \in Nat
      BY <2>2, Extremes
    <3>2. /\ 10 * core_load[c].load <= upper
          /\ averageLoad > 0 => 10 * core_load[c].load > lower
      BY <2>3, <2>4, <3>1
    <3>3. core_load[c].load = LoadOf(c) /\ averageLoad = Average
      BY <2>1, LoadsAgree
    <3>4. QED
      BY <3>2, <3>3
  <2>6. averageLoad = Average
    BY <2>1, LoadsAgree
  <2>7. \A c \in Core : LoadOf(c)' = LoadOf(c)
    BY <2>1 DEF LoadOf, InTable
  <2>8. Average' = Average
    BY <2>1 DEF Average, LoadOf, InTable
  <2>9. QED
    BY <2>5, <2>6, <2>7, <2>8 DEF RoundBalances, upper, lower
<1>2. CASE UNCHANGED vars
  BY <1>2 DEF vars, RoundBalances, Complete, LoadOf, Average, InTable
<1>3. CASE NewRound \/ FillTable \/ Walk \/ ComputeLoads \/ Migrate
  <2>1. pc' # "idle"
    BY <1>3 DEF NewRound, FillTable, Walk, Memorize, AppendTo, ComputeLoads, Migrate, ghosts
  <2>2. QED
    BY <2>1 DEF RoundBalances
<1>4. QED
  BY <1>1, <1>2, <1>3 DEF Next

(***************************************************************************)
(* A round that counted every flow and ends before its quota leaves each   *)
(* core near the average, whatever the loads, and also when their sum      *)
(* wraps around.                                                           *)
(***************************************************************************)
THEOREM RoundsBalance == Spec => []RoundBalances
<1>1. Init => RoundBalances
  <2> SUFFICES ASSUME Init
               PROVE  RoundBalances
    OBVIOUS
  <2>1. load = [f \in Flow |-> 0]
    BY DEF Init
  <2>2. ASSUME NEW c \in Core
        PROVE  LoadOf(c) = 0
    <3> DEFINE S == {f \in InTable : assigned_core[f] = c}
    <3>1. IsFiniteSet(S) /\ \A f \in S : load[f] = 0
      <4>1. IsFiniteSet(Flow)
        BY FS_Interval, BalancerAssumption DEF Flow
      <4>2. S \in SUBSET Flow
        BY DEF InTable
      <4>3. QED
        BY <2>1, <4>1, <4>2, FS_Subset
    <3> HIDE DEF S
    <3>2. SumOver(load, S) \in Nat /\ ~ (SumOver(load, S) > 0)
      BY <3>1, SumIsNat, SumBoundsTerms
    <3>3. SumOver(load, S) = 0
      BY <3>2
    <3>4. QED
      BY <3>3, SmallMod, BalancerAssumption DEF LoadOf, S
  <2>3. Average = 0
    <3> DEFINE v == [c \in Core |-> LoadOf(c)]
    <3>1. IsFiniteSet(Core) /\ \A c \in Core : v[c] = 0
      BY <2>2, FS_Interval, BalancerAssumption DEF Core
    <3>2. Average = (SumOver(v, Core) % WORD) \div nbCores
      BY DEF Average
    <3> HIDE DEF v
    <3>3. SumOver(v, Core) \in Nat /\ ~ (SumOver(v, Core) > 0)
      BY <3>1, SumIsNat, SumBoundsTerms
    <3>4. SumOver(v, Core) = 0
      BY <3>3
    <3>5. 0 % WORD = 0 /\ 0 \div nbCores = 0
      BY SmallMod, BalancerAssumption
    <3>6. QED
      BY <3>2, <3>4, <3>5
  <2>4. QED
    BY <2>2, <2>3, BalancerAssumption DEF RoundBalances
<1>2. Consistent /\ RoundBalances /\ [Next]_vars => RoundBalances'
  BY BalancesStep
<1>3. QED
  BY <1>1, <1>2, InitConsistent, ConsistentStep, PTL DEF Spec
-----------------------------------------------------------------------------
(* A slot without a flow has no load. *)
NoLoadOutside == \A f \in Flow : f >= size => load[f] = 0

LEMMA OutsideStep ==
  ASSUME TypeOK, CoreInfoFresh, NoLoadOutside, [Next]_vars
  PROVE  NoLoadOutside'
<1>1. CASE NewRound
  BY <1>1 DEF NewRound, NoLoadOutside
<1>2. CASE FillTable
  <2>1. PICK n \in size .. HASHMAP_SIZE : 
             /\ size' = n
             /\ \E loads \in [0 .. n - 1 -> Loads] :
                  load' = [f \in Flow |-> IF f < n THEN loads[f] ELSE 0]
    BY <1>2 DEF FillTable
  <2>2. n \in Int /\ Flow \in SUBSET Int
    BY DEF TypeOK, Flow
  <2>3. QED
    BY <2>1, <2>2 DEF NoLoadOutside
<1>3. CASE Walk \/ ComputeLoads \/ Migrate \/ Finish \/ UNCHANGED vars
  BY <1>3 DEF Walk, ComputeLoads, Migrate, Finish, vars, ghosts, NoLoadOutside
<1>4. QED
  BY <1>1, <1>2, <1>3 DEF Next

(***************************************************************************)
(* The operators of Rebalance are those of Balancer, where they share one. *)
(***************************************************************************)
LEMMA AbstractSum ==
  ASSUME NEW w, NEW S
  PROVE  Abstract!SumOver(w, S) = SumOver(w, S)
BY Zenon DEF Abstract!SumOver, SumOver, Abstract!MapThenSumSet, MapThenSumSet,
             Abstract!MapThenFoldSet, MapThenFoldSet

(***************************************************************************)
(* In an exact round, the load of a core is the weight of its flows, and   *)
(* the average is exact too.                                               *)
(***************************************************************************)
LEMMA ExactLoads ==
  ASSUME Consistent, NoLoadOutside, pc = "balance", Exact
  PROVE  /\ \A c \in Core : core_load[c].load = Abstract!CoreWeight(c)
         /\ averageLoad = SumOver([c \in Core |-> core_load[c].load], Core) \div nbCores
         /\ SumOver([c \in Core |-> core_load[c].load], Core) \in Nat
<1> DEFINE Of(c) == {f \in Flow : assigned_core[f] = c}
           total == SumOver(load, Flow)
           v == [c \in Core |-> core_load[c].load]
<1>1. IsFiniteSet(Flow) /\ IsFiniteSet(Core)
  BY FS_Interval, BalancerAssumption DEF Flow, Core
<1>2. /\ load \in [Flow -> 0 .. WORD - 1] /\ assigned_core \in [Flow -> Core]
      /\ \A f \in Flow : load[f] \in Nat
  BY DEF Consistent, TypeOK
<1>3. total \in Nat /\ total < WORD
  BY <1>1, <1>2, SumIsNat DEF Exact
<1>4. ASSUME NEW c \in Core
      PROVE  /\ core_load[c].load = SumOver(load, Of(c))
             /\ core_load[c].load \in Nat
  <2> DEFINE S == {f \in InTable : assigned_core[f] = c}
             T == Of(c)
  <2>1. S \in SUBSET T /\ T \in SUBSET Flow /\ \A f \in T \ S : load[f] = 0
    <3>1. \A f \in Flow : f < size \/ f >= size
      BY DEF Consistent, TypeOK, Flow
    <3>2. QED
      BY <3>1 DEF InTable, NoLoadOutside
  <2> HIDE DEF S, T
  <2>2. IsFiniteSet(T) /\ \A f \in T : load[f] \in Nat
    BY <1>1, <1>2, <2>1, FS_Subset
  <2>3. SumOver(load, S) = SumOver(load, T) /\ SumOver(load, T) <= total
    <3>1. SumOver(load, S) = SumOver(load, T)
      BY <2>1, <2>2, SumOfSubset
    <3>2. SumOver(load, T) <= total
      BY <1>1, <1>2, <2>1, SumOfSubset
    <3>3. QED
      BY <3>1, <3>2
  <2>4. SumOver(load, T) \in Nat
    BY <2>2, SumIsNat
  <2>5. SumOver(load, T) % WORD = SumOver(load, T)
    <3> DEFINE sum == SumOver(load, T)
    <3> HIDE DEF sum, total
    <3>1. sum \in 0 .. WORD - 1
      BY <1>3, <2>3, <2>4, BalancerAssumption DEF sum
    <3>2. QED
      BY <3>1, SmallMod, BalancerAssumption DEF sum
  <2>6. core_load[c].load = SumOver(load, S) % WORD
    BY LoadsAgree DEF LoadOf, Exact, S
  <2>7. QED
    BY <2>3, <2>4, <2>5, <2>6 DEF T
<1>5. \A c \in Core : core_load[c].load = Abstract!CoreWeight(c)
  BY <1>4, AbstractSum DEF Abstract!CoreWeight
<1>6. SumOver(v, Core) = total
  <2> DEFINE K == [c \in Core |-> Of(c)]
  <2>1. \A c \in Core : v[c] = SumOver(load, K[c])
    BY <1>4
  <2>2. /\ K \in [Core -> SUBSET Flow]
        /\ \A c \in Core, f \in Flow : f \in K[c] <=> assigned_core[f] = c
    OBVIOUS
  <2>3. \A f \in Flow : assigned_core[f] \in Core
    BY <1>2
  <2> HIDE DEF v, K
  <2>4. QED
    BY <1>1, <1>2, <2>1, <2>2, <2>3, SumOfClasses
<1>7. averageLoad = SumOver(v, Core) \div nbCores
  <2>1. averageLoad = (SumOver(v, Core) % WORD) \div nbCores
    BY DEF averageLoad
  <2> HIDE DEF total, v
  <2>2. total % WORD = total
    <3>1. total \in 0 .. WORD - 1
      BY <1>3, BalancerAssumption
    <3>2. QED
      BY <3>1, SmallMod, BalancerAssumption
  <2>3. QED
    BY <1>6, <2>1, <2>2
<1>8. QED
  BY <1>3, <1>5, <1>6, <1>7

(***************************************************************************)
(* In an exact round the core that gives and the one that receives differ. *)
(***************************************************************************)
LEMMA CoresDiffer ==
  ASSUME Consistent, NoLoadOutside, pc = "balance", Exact, Imbalanced
  PROVE  bigCore # smallCore
<1> SUFFICES ASSUME bigCore = smallCore
             PROVE  FALSE
  OBVIOUS
<1> DEFINE v == [c \in Core |-> core_load[c].load]
           k == biggestLoad
           total == SumOver(v, Core)
<1>1. /\ \A c \in Core : /\ core_load[c].load \in Nat
                         /\ smallestLoad <= core_load[c].load
                         /\ core_load[c].load <= biggestLoad
      /\ k \in Nat /\ smallestLoad = k
  BY Extremes DEF Consistent, TypeOK, Record
<1>2. \A c \in Core : v[c] = k
  BY <1>1
<1>3. IsFiniteSet(Core) /\ Cardinality(Core) = nbCores
  BY FS_Interval, BalancerAssumption DEF Core
<1>4. averageLoad = total \div nbCores
  BY ExactLoads
<1> HIDE DEF k, v
<1>5. total = nbCores * k
  BY <1>1, <1>2, <1>3, SumConstant
<1> HIDE DEF total
<1>6. (nbCores * k) \div nbCores = k
  BY <1>1, BalancerAssumption
<1>7. averageLoad = k
  BY <1>4, <1>5, <1>6
<1>8. ~ (10 * k > (10 + IMBALANCE_TENTHS) * k)
  <2>1. (10 + IMBALANCE_TENTHS) * k = 10 * k + IMBALANCE_TENTHS * k
    BY <1>1, BalancerAssumption
  <2>2. IMBALANCE_TENTHS * k \in Nat
    BY <1>1, BalancerAssumption
  <2>3. QED
    BY <1>1, <2>1, <2>2
<1>9. ~ (k > 0 /\ 10 * k <= (10 - IMBALANCE_TENTHS) * k)
  <2> SUFFICES ASSUME k > 0
               PROVE  ~ (10 * k <= (10 - IMBALANCE_TENTHS) * k)
    OBVIOUS
  <2>1. (10 - IMBALANCE_TENTHS) * k = 10 * k - IMBALANCE_TENTHS * k
    BY <1>1, BalancerAssumption
  <2>2. IMBALANCE_TENTHS * k \in Nat /\ IMBALANCE_TENTHS * k > 0
    BY <1>1, BalancerAssumption
  <2>3. QED
    BY <1>1, <2>1, <2>2
<1>10. QED
  BY <1>1, <1>7, <1>8, <1>9 DEF Imbalanced, k

(***************************************************************************)
(* A migration of an exact round is a move of the abstract balancer.       *)
(***************************************************************************)
LEMMA MigrateIsMove ==
  ASSUME Consistent, NoLoadOutside, Migrate, ~Overruns, Exact
  PROVE  Abstract!Move(Moved, smallCore)
<1> DEFINE from == core_load[bigCore].flows
           weight(c) == Abstract!CoreWeight(c)
<1>1. /\ pc = "balance" /\ Imbalanced /\ Len(migrations) < MAX_REBALANCE_ITERATIONS
      /\ TypeOK /\ CoreInfoFresh /\ ListsMatchAssignment /\ ~ranOff
      /\ core_load \in [Core -> Record]
  BY DEF Migrate, Consistent, Exact, Complete, TypeOK, Record
<1>2. /\ bigCore \in Core /\ smallCore \in Core
      /\ core_load[bigCore].biggestLoad_idx \in Indices(from)
      /\ Moved \in Flow /\ load[Moved] > 0
      /\ \A j \in Indices(from) : load[from[j]] <= load[Moved]
  BY <1>1, MovedIsThere
<1>3. Listed(bigCore) = {f \in Counted : assigned_core[f] = bigCore}
  BY <1>1, <1>2 DEF ListsMatchAssignment
<1>4. Moved \in Listed(bigCore)
  BY <1>2 DEF Listed, Moved
<1>5. assigned_core[Moved] = bigCore
  BY <1>3, <1>4
<1>6. /\ \A c \in Core : core_load[c].load = weight(c)
  BY <1>1, ExactLoads
<1>7. bigCore \in Abstract!Heaviest /\ smallCore \in Abstract!Lightest
  <2>1. /\ \A c \in Core : /\ core_load[c].load <= core_load[bigCore].load
                           /\ core_load[smallCore].load <= core_load[c].load
    BY <1>1, Extremes
  <2> HIDE DEF weight
  <2>2. \A c \in Core : weight(c) <= weight(bigCore) /\ weight(smallCore) <= weight(c)
    BY <1>2, <1>6, <2>1
  <2>3. QED
    BY <1>2, <2>2 DEF Abstract!Heaviest, Abstract!Lightest, weight
<1>8. Abstract!HeaviestOn(Moved)
  <2> SUFFICES ASSUME NEW g \in Flow, assigned_core[g] = bigCore
               PROVE  load[g] <= load[Moved]
    BY <1>5 DEF Abstract!HeaviestOn
  <2>1. CASE g < size
    <3>1. start = -1 /\ cursor = size - 1 /\ size \in Int /\ g \in Nat
      BY <1>1 DEF Exact, Complete, Consistent, RoundPlace, TypeOK, Flow
    <3>2. g \in Counted
      BY <2>1, <3>1 DEF Counted, InTable
    <3>3. g \in Listed(bigCore)
      BY <1>3, <3>2
    <3>4. QED
      BY <1>2, <3>3 DEF Listed
  <2>2. CASE ~ (g < size)
    <3>1. g >= size
      BY <1>1, <2>2 DEF TypeOK, Flow
    <3>2. load[g] = 0 /\ load[Moved] \in Nat
      BY <1>1, <1>2, <3>1 DEF NoLoadOutside, TypeOK
    <3>3. QED
      BY <3>2
  <2>3. QED
    BY <2>1, <2>2
<1>9. smallCore # bigCore
  BY <1>1, CoresDiffer
<1>10. /\ assigned_core' = [assigned_core EXCEPT ![Moved] = smallCore]
       /\ migrations' = Append(migrations, [key |-> Moved, destination_core |-> smallCore])
       /\ load' = load /\ pc' = pc
  BY <1>1, MigrateDoes
<1>11. QED
  BY <1>1, <1>2, <1>5, <1>7, <1>8, <1>9, <1>10, Zenon DEF Abstract!Move

(***************************************************************************)
(* Every step of the balancer is one of the abstract balancer, or leaves   *)
(* what that one speaks of alone, or belongs to a round that is not exact. *)
(***************************************************************************)
LEMMA RefinementStep ==
  ASSUME Consistent, NoLoadOutside, [Next]_vars
  PROVE  [Abstract!Next \/ ~Exact']_<<assigned_core, load, migrations, pc # "idle">>
<1>1. CASE NewRound
  <2>1. Abstract!NewRound
    BY <1>1 DEF NewRound, Abstract!NewRound
  <2>2. QED
    BY <2>1, Zenon DEF Abstract!Next
<1>2. CASE FillTable
  <2>1. Abstract!Weigh
    BY <1>2 DEF FillTable, Abstract!Weigh, Consistent, RoundPlace
  <2>2. QED
    BY <2>1, Zenon DEF Abstract!Next
<1>3. CASE Walk \/ ComputeLoads \/ (Migrate /\ Overruns)
  <2>1. UNCHANGED <<assigned_core, load, migrations>> /\ pc # "idle" /\ pc' # "idle"
    BY <1>3 DEF Walk, Memorize, AppendTo, ComputeLoads, Migrate, Overruns, ghosts
  <2>2. QED
    BY <2>1
<1>4. CASE Migrate /\ ~Overruns
  <2>1. Exact' => Exact
    <3>1. UNCHANGED <<load, start, ranOff>>
      BY <1>4 DEF Migrate, ghosts
    <3>2. QED
      BY <3>1 DEF Exact, Complete
  <2>2. Exact => Moved \in Flow /\ smallCore \in Core /\ Abstract!Move(Moved, smallCore)
    BY <1>4, MigrateIsMove, MovedIsThere DEF Consistent, Migrate
  <2>3. QED
    BY <2>1, <2>2, Zenon DEF Abstract!Next
<1>5. CASE Finish
  <2>1. Abstract!EndRound
    BY <1>5 DEF Finish, Abstract!EndRound
  <2>2. QED
    BY <2>1, Zenon DEF Abstract!Next
<1>6. CASE UNCHANGED vars
  BY <1>6 DEF vars
<1>7. QED
  BY <1>1, <1>2, <1>3, <1>4, <1>5, <1>6 DEF Next

(***************************************************************************)
(* In an exact round the balancer makes no other move than the abstract    *)
(* one allows: a heaviest flow of a heaviest core goes to a lightest core, *)
(* another one, within the quota.                                          *)
(***************************************************************************)
THEOREM BalancerRebalances == Spec => ImplementsRebalance
<1>1. Init => NoLoadOutside
  BY DEF Init, NoLoadOutside
<1>2. Consistent /\ NoLoadOutside /\ [Next]_vars => NoLoadOutside'
  BY OutsideStep DEF Consistent
<1>3. Init => Abstract!Init
  BY DEF Init, Abstract!Init
<1>4. Consistent /\ NoLoadOutside /\ [Next]_vars
        => [Abstract!Next \/ ~Exact']_<<assigned_core, load, migrations, pc # "idle">>
  BY RefinementStep
<1>5. QED
  BY <1>1, <1>2, <1>3, <1>4, InitConsistent, ConsistentStep, PTL
     DEF Spec, ImplementsRebalance
=============================================================================
