-------------------------- MODULE RingBufferProofs --------------------------
(***************************************************************************)
(* Proofs about RingBuffer: for every ring size, word size and sequence of *)
(* polls.                                                                  *)
(***************************************************************************)
EXTENDS RingBuffer, ArithmeticProofs, SequenceTheorems, TLAPS

(***************************************************************************)
(* Advancing a slot wraps to 0 exactly from the last one.                  *)
(***************************************************************************)
LEMMA ModStep ==
  ASSUME NEW m \in Nat \ {0}, NEW a \in 0 .. m - 1
  PROVE  (a + 1) % m = IF a = m - 1 THEN 0 ELSE a + 1
<1>1. CASE a = m - 1
  BY <1>1
<1>2. CASE a # m - 1
  <2>1. a + 1 \in 0 .. m - 1
    BY <1>2
  <2>2. QED
    BY <1>2, <2>1, SmallMod
<1>3. QED
  BY <1>1, <1>2

(***************************************************************************)
(* Going back i slots wraps past slot 0 exactly when i exceeds the slot.   *)
(***************************************************************************)
LEMMA ModBack ==
  ASSUME NEW m \in Nat \ {0}, NEW a \in 0 .. m - 1, NEW i \in 0 .. m - 1
  PROVE  (a - i) % m = IF i <= a THEN a - i ELSE a - i + m
<1>1. CASE i <= a
  BY <1>1, a - i \in 0 .. m - 1, SmallMod
<1>2. CASE i > a
  BY <1>2, SMTT(30)
<1>3. QED
  BY <1>1, <1>2

(***************************************************************************)
(* A remainder is known by its range and a quotient.                       *)
(***************************************************************************)
LEMMA ModUnique ==
  ASSUME NEW m \in Nat \ {0}, NEW q \in Int, NEW r \in 0 .. m - 1
  PROVE  (m * q + r) % m = r
OBVIOUS

(***************************************************************************)
(* Going back one slot wraps exactly from slot 0.                          *)
(***************************************************************************)
LEMMA ModPrevious ==
  ASSUME NEW m \in Nat \ {0}, NEW a \in Int
  PROVE  (a - 1) % m = IF a % m = 0 THEN m - 1 ELSE (a % m) - 1
<1> DEFINE q == a \div m
           r == a % m
<1>1. q \in Int /\ r \in 0 .. m - 1 /\ a = m * q + r
  OBVIOUS
<1> HIDE DEF q, r
<1>2. CASE r = 0
  <2>1. a - 1 = m * (q - 1) + (m - 1)
    BY <1>1, <1>2
  <2>2. m - 1 \in 0 .. m - 1 /\ q - 1 \in Int
    BY <1>1
  <2>3. QED
    BY <1>2, <2>1, <2>2, ModUnique DEF r
<1>3. CASE r # 0
  <2>1. a - 1 = m * q + (r - 1) /\ r - 1 \in 0 .. m - 1
    BY <1>1, <1>3
  <2>2. QED
    BY <1>1, <1>3, <2>1, ModUnique DEF r
<1>4. QED
  BY <1>2, <1>3

(***************************************************************************)
(* Going back no slot stays at the slot.                                   *)
(***************************************************************************)
LEMMA ModZeroBack ==
  ASSUME NEW m \in Nat \ {0}, NEW a \in 0 .. m - 1
  PROVE  (a - 0) % m = a
<1>1. a - 0 = a
  OBVIOUS
<1>2. QED
  BY <1>1, SmallMod
-----------------------------------------------------------------------------
(***************************************************************************)
(* What ringbuffer_add stores is a uint64_t.                               *)
(***************************************************************************)
LEMMA SampleIsWord ==
  ASSUME TypeOK, NEW value \in Word
  PROVE  Sample(value) \in Word
<1>1. buffer[pos] \in Word
  BY DEF TypeOK
<1>2. value - buffer[pos] \in Int
  BY <1>1, RingAssumption DEF Word
<1>3. Minus(value, buffer[pos]) \in Word
  BY <1>2, ModRange, RingAssumption DEF Word, Minus
<1>4. QED
  BY <1>3 DEF Sample

(***************************************************************************)
(* The unsigned difference is the difference when nothing is borrowed.     *)
(***************************************************************************)
LEMMA NoWrap ==
  ASSUME NEW a \in Word, NEW b \in Word, NEW c \in Word, b <= c, c <= a
  PROVE  Minus(a, b) = a - b
<1>1. a - b \in 0 .. WORD - 1
  BY RingAssumption DEF Word
<1>2. QED
  BY <1>1, SmallMod, RingAssumption DEF Minus

(***************************************************************************)
(* Every field of the ring keeps its type, whether or not the entry in the *)
(* switch is replaced.                                                     *)
(***************************************************************************)
THEOREM TypeCorrect == Spec => []TypeOK
<1>1. Init => TypeOK
  BY RingAssumption DEF Init, TypeOK, Slot, Word
<1>2. TypeOK /\ [Next]_vars => TypeOK'
  <2> SUFFICES ASSUME TypeOK, [Next]_vars
               PROVE  TypeOK'
    OBVIOUS
  <2>1. ASSUME NEW n \in Steps, Poll(n)
        PROVE  TypeOK'
    <3>1. packet_count' \in Word
      BY <2>1 DEF Poll
    <3>2. Sample(packet_count') \in Word
      BY <3>1, SampleIsWord
    <3>3. NextSlot(pos) \in Slot
      BY RingAssumption, ModStep DEF TypeOK, NextSlot, Slot
    <3>4. pos' \in Slot /\ buffer' \in [Slot -> Word]
      BY <2>1, <3>2, <3>3 DEF Poll, ringbuffer_add, TypeOK
    <3>5. size' \in 0 .. RING_SIZE /\ is_active' \in BOOLEAN
      BY <2>1, RingAssumption DEF Poll, ringbuffer_add, TypeOK
    <3>6. history' \in Seq([seen : Word, stored : Word])
      BY <2>1, <3>1, <3>2 DEF Poll, TypeOK
    <3>7. QED
      BY <3>1, <3>4, <3>5, <3>6 DEF TypeOK
  <2>2. CASE Replace
    BY <2>2, RingAssumption DEF Replace, TypeOK, Word
  <2>3. CASE UNCHANGED vars
    BY <2>3 DEF vars, TypeOK
  <2>4. QED
    BY <2>1, <2>2, <2>3 DEF Next
<1>3. QED
  BY <1>1, <1>2, PTL DEF Spec

(***************************************************************************)
(* Whatever the counter does, the ring read backwards from pos is the      *)
(* recent history of samples.                                              *)
(***************************************************************************)
THEOREM RingIsRecentHistory == Spec => []RingHoldsRecentHistory
<1>1. Init => RingHoldsRecentHistory
  BY RingAssumption DEF Init, RingHoldsRecentHistory
<1>2. TypeOK /\ RingHoldsRecentHistory /\ [Next]_vars
        => RingHoldsRecentHistory'
  <2> SUFFICES ASSUME TypeOK, RingHoldsRecentHistory, [Next]_vars
               PROVE  RingHoldsRecentHistory'
    OBVIOUS
  <2>1. ASSUME NEW n \in Steps, Poll(n)
        PROVE  RingHoldsRecentHistory'
    <3> DEFINE stored == Sample(packet_count')
    <3>1. /\ pos \in 0 .. RING_SIZE - 1
          /\ pos' = IF pos = RING_SIZE - 1 THEN 0 ELSE pos + 1
      BY <2>1, ModStep, RingAssumption
         DEF Poll, ringbuffer_add, NextSlot, TypeOK, Slot
    <3>2. pos' \in 0 .. RING_SIZE - 1
      BY <3>1, RingAssumption
    <3>3. buffer' = [buffer EXCEPT ![pos'] = stored]
      BY <2>1 DEF Poll, ringbuffer_add
    <3>4. /\ history \in Seq([seen : Word, stored : Word])
          /\ history' = Append(history, [seen |-> packet_count', stored |-> stored])
          /\ Len(history) \in Nat
          /\ Len(history') = Len(history) + 1
      BY <2>1 DEF Poll, TypeOK
    <3>5. size' = IF Len(history') < RING_SIZE THEN Len(history') ELSE RING_SIZE
      BY <2>1, <3>4, RingAssumption
         DEF Poll, ringbuffer_add, RingHoldsRecentHistory, TypeOK
    <3>6. ASSUME NEW i \in 0 .. size' - 1
          PROVE  buffer'[(pos' - i) % RING_SIZE] = history'[Len(history') - i].stored
      <4>1. i \in 0 .. RING_SIZE - 1 /\ i < Len(history')
        BY <3>4, <3>5, RingAssumption
      <4>2. CASE i = 0
        <5>1. (pos' - i) % RING_SIZE = pos'
          BY <3>2, <4>2, ModZeroBack, RingAssumption
        <5>2. buffer'[pos'] = stored
          BY <3>2, <3>3 DEF TypeOK, Slot
        <5>3. history'[Len(history')].stored = stored
          BY <3>4
        <5>4. QED
          BY <4>2, <5>1, <5>2, <5>3, <3>4
      <4>3. CASE i # 0
        <5>1. i - 1 \in 0 .. size - 1 /\ i - 1 \in 0 .. RING_SIZE - 1
          BY <4>1, <4>3, <3>4, <3>5, RingAssumption DEF RingHoldsRecentHistory
        <5>2. /\ (pos' - i) % RING_SIZE = (pos - (i - 1)) % RING_SIZE
              /\ (pos - (i - 1)) % RING_SIZE \in Slot
              /\ (pos - (i - 1)) % RING_SIZE # pos'
          <6>1. (pos' - i) % RING_SIZE = IF i <= pos' THEN pos' - i
                                         ELSE pos' - i + RING_SIZE
            BY <3>2, <4>1, ModBack, RingAssumption
          <6>2. (pos - (i - 1)) % RING_SIZE
                  = IF i - 1 <= pos THEN pos - (i - 1)
                    ELSE pos - (i - 1) + RING_SIZE
            BY <3>1, <5>1, ModBack, RingAssumption
          <6>3. QED
            BY <3>1, <3>2, <4>1, <4>3, <5>1, <6>1, <6>2, RingAssumption DEF Slot
        <5>3. buffer'[(pos' - i) % RING_SIZE] = buffer[(pos - (i - 1)) % RING_SIZE]
          BY <3>3, <5>2 DEF TypeOK
        <5>4. buffer[(pos - (i - 1)) % RING_SIZE]
                = history[Len(history) - (i - 1)].stored
          BY <5>1 DEF RingHoldsRecentHistory
        <5>5. history'[Len(history') - i] = history[Len(history) - (i - 1)]
          BY <3>4, <4>1, <4>3
        <5>6. QED
          BY <5>3, <5>4, <5>5
      <4>4. QED
        BY <4>2, <4>3
    <3>7. QED
      BY <3>5, <3>6 DEF RingHoldsRecentHistory
  <2>2. CASE Replace
    BY <2>2 DEF Replace, RingHoldsRecentHistory
  <2>3. CASE UNCHANGED vars
    BY <2>3 DEF vars, RingHoldsRecentHistory
  <2>4. QED
    BY <2>1, <2>2, <2>3 DEF Next
<1>3. QED
  BY <1>1, <1>2, TypeCorrect, PTL DEF Spec

(***************************************************************************)
(* While the counters seen do not go down, the load of a flow is at most   *)
(* the last of them: the subtraction in ringbuffer_add never wraps.        *)
(***************************************************************************)
THEOREM LoadNeverWraps == Spec => []LoadWithinCount
<1>1. Init => LoadWithinCount
  BY DEF Init, LoadWithinCount
<1>2. TypeOK /\ RingHoldsRecentHistory /\ LoadWithinCount /\ [Next]_vars
        => LoadWithinCount'
  <2> SUFFICES ASSUME TypeOK, RingHoldsRecentHistory, LoadWithinCount, [Next]_vars
               PROVE  LoadWithinCount'
    OBVIOUS
  <2>1. ASSUME NEW n \in Steps, Poll(n), NeverReset'
        PROVE  ringbuffer_get_last' <= history'[Len(history')].seen
    <3> DEFINE seen == packet_count'
               polled == [seen |-> seen, stored |-> Sample(seen)]
    <3>1. /\ seen \in Word
          /\ history \in Seq([seen : Word, stored : Word])
          /\ history' = Append(history, polled)
          /\ Len(history) \in Nat
          /\ Len(history') = Len(history) + 1
      BY <2>1 DEF Poll, TypeOK
    <3>2. history'[Len(history')].seen = seen
      BY <3>1
    <3>3. \A i \in 1 .. Len(history) : history'[i] = history[i]
      BY <3>1
    <3>4. ringbuffer_get_last' = Sample(seen)
      <4>1. NextSlot(pos) \in Slot
        BY RingAssumption, ModStep DEF TypeOK, NextSlot, Slot
      <4>2. buffer'[pos'] = Sample(seen)
        BY <2>1, <4>1 DEF Poll, ringbuffer_add, TypeOK
      <4>3. size' # 0
        BY <2>1, RingAssumption DEF Poll, ringbuffer_add, TypeOK
      <4>4. QED
        BY <4>2, <4>3 DEF ringbuffer_get_last
    <3>5. Sample(seen) <= seen
      <4>1. CASE size = 0
        BY <3>1, <4>1, RingAssumption DEF Sample, Word
      <4>2. CASE size # 0
        <5>1. Len(history) > 0 /\ history # << >>
          BY <3>1, <4>2, RingAssumption DEF RingHoldsRecentHistory
        <5>2. NeverReset
          BY <2>1, <3>1, <3>3 DEF NeverReset
        <5>3. buffer[pos] <= history[Len(history)].seen
          BY <4>2, <5>1, <5>2 DEF LoadWithinCount, ringbuffer_get_last
        <5>4. history[Len(history)].seen <= seen
          BY <2>1, <3>1, <3>2, <3>3, <5>1 DEF NeverReset
        <5>5. buffer[pos] \in Word /\ history[Len(history)].seen \in Word
          <6>1. Len(history) \in 1 .. Len(history)
            BY <3>1, <5>1
          <6>2. history[Len(history)] \in [seen : Word, stored : Word]
            BY <3>1, <6>1, ElementOfSeq
          <6>3. QED
            BY <6>2 DEF TypeOK
        <5>6. Minus(seen, buffer[pos]) = seen - buffer[pos]
          BY <3>1, <5>3, <5>4, <5>5, NoWrap
        <5>7. QED
          BY <3>1, <4>2, <5>5, <5>6, RingAssumption DEF Sample, Word
      <4>3. QED
        BY <4>1, <4>2
    <3>6. QED
      BY <3>2, <3>4, <3>5
  <2>2. CASE Replace
    BY <2>2 DEF Replace, LoadWithinCount, NeverReset, ringbuffer_get_last
  <2>3. CASE UNCHANGED vars
    BY <2>3 DEF vars, LoadWithinCount, NeverReset, ringbuffer_get_last
  <2>4. QED
    BY <2>1, <2>2, <2>3 DEF Next, LoadWithinCount
<1>3. QED
  BY <1>1, <1>2, TypeCorrect, RingIsRecentHistory, PTL DEF Spec
-----------------------------------------------------------------------------
(***************************************************************************)
(* The slots ringbuffer_get_average visits are those counted back from     *)
(* pos, around the ring.                                                   *)
(***************************************************************************)
LEMMA WalksBack ==
  ASSUME pos \in Slot
  PROVE  \A i \in Nat : WalkBack[i] = (pos - i) % RING_SIZE
<1> DEFINE Eq(g) == g = [i \in Nat |-> IF i = 0 THEN pos ELSE PrevSlot(g[i - 1])]
           back == [i \in Nat |-> (pos - i) % RING_SIZE]
<1>1. Eq(back)
  <2>1. ASSUME NEW i \in Nat
        PROVE  back[i] = IF i = 0 THEN pos ELSE PrevSlot(back[i - 1])
    <3>1. CASE i = 0
      BY <3>1, ModZeroBack, RingAssumption DEF Slot
    <3>2. CASE i # 0
      <4> DEFINE a == pos - (i - 1)
      <4>1. i - 1 \in Nat /\ a \in Int /\ pos - i = a - 1
        BY <3>2, RingAssumption DEF Slot
      <4>2. back[i - 1] = a % RING_SIZE /\ back[i] = (a - 1) % RING_SIZE
        BY <4>1
      <4> HIDE DEF a, back
      <4>3. (a - 1) % RING_SIZE = IF a % RING_SIZE = 0 THEN RING_SIZE - 1
                                  ELSE (a % RING_SIZE) - 1
        BY <4>1, ModPrevious, RingAssumption
      <4>4. QED
        BY <3>2, <4>2, <4>3 DEF PrevSlot
    <3>3. QED
      BY <3>1, <3>2
  <2>2. QED
    BY <2>1
<1>2. Eq(WalkBack)
  <2>1. WalkBack = CHOOSE g : Eq(g)
    BY Zenon DEF WalkBack
  <2> HIDE DEF Eq
  <2>2. QED
    BY <1>1, <2>1, Zenon
<1>3. \A i \in Nat : WalkBack[i] = IF i = 0 THEN pos ELSE PrevSlot(WalkBack[i - 1])
  <2> DEFINE g == WalkBack
  <2> HIDE DEF g
  <2>1. g = [i \in Nat |-> IF i = 0 THEN pos ELSE PrevSlot(g[i - 1])]
    BY <1>2 DEF g
  <2>2. \A i \in Nat : g[i] = IF i = 0 THEN pos ELSE PrevSlot(g[i - 1])
    BY <2>1
  <2>3. QED
    BY <2>2 DEF g
<1>4. \A i \in Nat : back[i] = IF i = 0 THEN pos ELSE PrevSlot(back[i - 1])
  <2> HIDE DEF back
  <2>1. QED
    BY <1>1
<1> DEFINE bad == {i \in Nat : WalkBack[i] # back[i]}
<1>5. bad = {}
  <2> SUFFICES ASSUME bad # {}
               PROVE  FALSE
    OBVIOUS
  <2> DEFINE i == Min(bad)
  <2>1. i \in bad /\ \A j \in bad : i <= j
    <3>1. bad \in SUBSET Nat
      OBVIOUS
    <3> HIDE DEF bad
    <3>2. QED
      BY <3>1, MinIsLeast
  <2> HIDE DEF i, back
  <2>2. i # 0
    BY <1>3, <1>4, <2>1
  <2>3. i - 1 \in Nat /\ i - 1 \notin bad
    <3>1. i \in Nat
      BY <2>1
    <3> HIDE DEF bad
    <3>2. QED
      BY <2>1, <2>2, <3>1
  <2>4. WalkBack[i - 1] = back[i - 1]
    BY <2>3
  <2>5. QED
    BY <1>3, <1>4, <2>1, <2>2, <2>4
<1>6. QED
  BY <1>5

(***************************************************************************)
(* A quotient is no greater than what was divided.                         *)
(***************************************************************************)
LEMMA QuotientInRange ==
  ASSUME NEW n \in Nat \ {0}, NEW a \in 0 .. n - 1, NEW c \in Nat \ {0}
  PROVE  a \div c \in 0 .. n - 1
<1> DEFINE q == a \div c
<1>1. q \in Int /\ c * q <= a /\ a < c * q + c
  OBVIOUS
<1> HIDE DEF q
<1>2. q >= 0
  <2> SUFFICES ASSUME q < 0
               PROVE  FALSE
    BY <1>1
  <2>1. c * q <= -c
    <3>1. c * (q + 1) <= 0
      BY <1>1
    <3>2. QED
      BY <1>1, <3>1
  <2>2. QED
    BY <1>1, <2>1
<1>3. q <= c * q
  BY <1>1, <1>2
<1>4. QED
  BY <1>1, <1>2, <1>3 DEF q

(***************************************************************************)
(* An average is a uint64_t.                                               *)
(***************************************************************************)
LEMMA AverageIsWord ==
  ASSUME TypeOK, NEW count \in 1 .. RING_SIZE
  PROVE  ringbuffer_get_average(count) \in Word
<1>1. CASE size = 0
  BY <1>1, RingAssumption DEF ringbuffer_get_average, Word
<1>2. CASE size # 0
  <2> DEFINE included == 0 .. Min({count, size}) - 1
             v == [i \in included |-> buffer[WalkBack[i]]]
             total == SumOver(v, included)
  <2>1. Min({count, size}) \in Nat
    <3>1. {count, size} \in SUBSET Nat /\ {count, size} # {}
      BY DEF TypeOK
    <3>2. Min({count, size}) \in {count, size}
      BY <3>1, MinIsLeast
    <3>3. QED
      BY <3>1, <3>2
  <2>2. IsFiniteSet(included) /\ included \in SUBSET Nat
    <3> DEFINE m == Min({count, size})
    <3>1. m - 1 \in Int
      BY <2>1
    <3> HIDE DEF m
    <3>2. IsFiniteSet(0 .. m - 1) /\ 0 .. m - 1 \in SUBSET Nat
      BY <3>1, FS_Interval
    <3>3. QED
      BY <3>2 DEF m
  <2>3. \A i \in included : v[i] \in Nat
    <3>1. ASSUME NEW i \in Nat
          PROVE  buffer[WalkBack[i]] \in Nat
      <4>1. pos - i \in Int
        BY RingAssumption DEF TypeOK, Slot
      <4>2. (pos - i) % RING_SIZE \in Slot
        BY <4>1, ModRange, RingAssumption DEF Slot
      <4>3. WalkBack[i] \in Slot
        BY <4>2, WalksBack DEF TypeOK
      <4>4. QED
        BY <4>3 DEF TypeOK, Word
    <3>2. QED
      BY <2>2, <3>1
  <2>4. ringbuffer_get_average(count) = (total % WORD) \div count
    BY <1>2 DEF ringbuffer_get_average
  <2> HIDE DEF included, v
  <2>5. total \in Nat
    BY <2>2, <2>3, SumIsNat
  <2> HIDE DEF total
  <2>6. total % WORD \in 0 .. WORD - 1
    BY <2>5, ModRange, RingAssumption
  <2>7. QED
    BY <2>4, <2>6, QuotientInRange, RingAssumption DEF Word
<1>3. QED
  BY <1>1, <1>2

(***************************************************************************)
(* The average of count, once the ring holds as many, is that of the last  *)
(* count samples polled.                                                   *)
(***************************************************************************)
THEOREM AverageIsOfLastSamples == Spec => []AverageOfLastSamples
<1>1. TypeOK /\ RingHoldsRecentHistory => AverageOfLastSamples
  <2> SUFFICES ASSUME TypeOK, RingHoldsRecentHistory, NEW count \in 1 .. size
               PROVE  LET last == [i \in 0 .. count - 1 |-> history[Len(history) - i].stored]
                      IN  ringbuffer_get_average(count)
                            = (SumOver(last, 0 .. count - 1) % WORD) \div count
    BY DEF AverageOfLastSamples
  <2>1. size \in Nat /\ count \in Nat /\ count <= size /\ size # 0
    BY DEF TypeOK
  <2>2. Min({count, size}) = count
    <3>1. {count, size} \in SUBSET Nat /\ {count, size} # {}
      BY <2>1
    <3>2. Min({count, size}) \in {count, size} /\ Min({count, size}) <= count
      BY <3>1, MinIsLeast
    <3>3. QED
      BY <2>1, <3>2
  <2>3. [i \in 0 .. count - 1 |-> buffer[WalkBack[i]]]
          = [i \in 0 .. count - 1 |-> history[Len(history) - i].stored]
    <3>1. ASSUME NEW i \in 0 .. count - 1
          PROVE  buffer[WalkBack[i]] = history[Len(history) - i].stored
      <4>1. WalkBack[i] = (pos - i) % RING_SIZE
        BY WalksBack DEF TypeOK
      <4>2. i \in 0 .. size - 1
        BY <2>1
      <4>3. QED
        BY <4>1, <4>2 DEF RingHoldsRecentHistory
    <3>2. QED
      BY <3>1
  <2>4. ringbuffer_get_average(count)
          = (SumOver([i \in 0 .. count - 1 |-> buffer[WalkBack[i]]], 0 .. count - 1) % WORD)
              \div count
    BY <2>1, <2>2, Zenon DEF ringbuffer_get_average
  <2>5. QED
    BY <2>3, <2>4, Zenon
<1>2. QED
  BY <1>1, TypeCorrect, RingIsRecentHistory, PTL

(***************************************************************************)
(* The prediction is the average: the difference to the last element may   *)
(* wrap, and adding that element wraps it back.                            *)
(***************************************************************************)
THEOREM PredictsTheAverage == Spec => []PredictionIsAverage
<1>1. ASSUME NEW a \in Word, NEW b \in Word
      PROVE  Plus(b, Minus(a, b)) = a
  <2>1. WORD \in Nat \ {0} /\ a \in 0 .. WORD - 1 /\ b \in 0 .. WORD - 1
    BY RingAssumption DEF Word
  <2>2. Minus(a, b) = IF b <= a THEN a - b ELSE a - b + WORD
    BY <2>1, ModBack DEF Minus
  <2>3. CASE b <= a
    BY <2>1, <2>2, <2>3, SmallMod DEF Plus
  <2>4. CASE ~ (b <= a)
    <3>1. b + Minus(a, b) = WORD * 1 + a
      BY <2>1, <2>2, <2>4
    <3>2. (WORD * 1 + a) % WORD = a
      BY <2>1, ModUnique
    <3>3. QED
      BY <3>1, <3>2 DEF Plus
  <2>5. QED
    BY <2>3, <2>4
<1>2. TypeOK => PredictionIsAverage
  <2> SUFFICES ASSUME TypeOK, NEW count \in 1 .. RING_SIZE
               PROVE  ringbuffer_predict_next(count) = ringbuffer_get_average(count)
    BY DEF PredictionIsAverage
  <2>1. CASE size = 0
    BY <2>1 DEF ringbuffer_predict_next, ringbuffer_get_average
  <2>2. CASE size # 0
    <3>1. ringbuffer_get_average(count) \in Word
      BY AverageIsWord
    <3>2. ringbuffer_get_last \in Word
      BY <2>2 DEF ringbuffer_get_last, TypeOK
    <3>3. QED
      BY <1>1, <2>2, <3>1, <3>2 DEF ringbuffer_predict_next
  <2>3. QED
    BY <2>1, <2>2
<1>3. QED
  BY <1>2, TypeCorrect, PTL
=============================================================================
