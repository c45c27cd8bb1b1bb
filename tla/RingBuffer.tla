----------------------------- MODULE RingBuffer -----------------------------
(***************************************************************************)
(* The per-flow ring of load samples (src/ringbuffer.c).  Every second the *)
(* main loop hands ringbuffer_add the packet counter the switch reports    *)
(* for the flow; the balancer reads the newest element back, with          *)
(* ringbuffer_get_last, as the load of the flow.                           *)
(*                                                                         *)
(* The elements are uint64_t, so every sum and difference is taken modulo  *)
(* WORD.  packet_count is the counter in the switch (external): it only    *)
(* grows while the flow entry lives, and restarts at 0 when the entry is   *)
(* replaced.                                                               *)
(***************************************************************************)
EXTENDS Integers, Sequences, FiniteSetsExt, Sums

CONSTANTS RING_SIZE,   \* number of elements of the ring (env.h)
          WORD,        \* 2^64: the number of values of a uint64_t
          Steps,       \* packets a flow may receive between two polls
          MaxPolls     \* bound: number of polls explored

ASSUME RingAssumption ==
         /\ RING_SIZE \in Nat \ {0}
         /\ WORD \in Nat \ {0}
         /\ Steps \subseteq Nat
         /\ MaxPolls \in Nat

VARIABLES pos, size, buffer, is_active,   \* struct RingBuffer
          packet_count,                   \* the counter kept by the switch
          history                         \* ghost: what each poll saw and stored

vars == <<pos, size, buffer, is_active, packet_count, history>>

Slot == 0 .. RING_SIZE - 1
Word == 0 .. WORD - 1

Plus(a, b)  == (a + b) % WORD
Minus(a, b) == (a - b) % WORD
-----------------------------------------------------------------------------
\* Faulty variant, for the mutants: never uses the last slot.
NextSlotShort(p) == (p + 1) % (RING_SIZE - 1)

\* Faulty variant, for the mutants: does not wrap.
NextSlotPastEnd(p) == p + 1

NextSlot(p) == (p + 1) % RING_SIZE

\* Faulty variant, for the mutants: stays at slot 0.
PrevSlotSticky(p) == IF p = 0 THEN 0 ELSE p - 1

\* The remainder of -1 is negative in C and sent to the last slot by a test.
PrevSlot(p) == IF p = 0 THEN RING_SIZE - 1 ELSE p - 1

\* Faulty variant, for the mutants: subtracts the wrong way.
SampleSwapped(value) == IF size = 0 THEN value ELSE Minus(buffer[pos], value)

\* The first value is stored as it is, a later one minus the newest element.
Sample(value) == IF size = 0 THEN value ELSE Minus(value, buffer[pos])

ringbuffer_add(value) ==
  /\ pos' = NextSlot(pos)
  /\ buffer' = [buffer EXCEPT ![NextSlot(pos)] = Sample(value)]
  /\ size' = IF size < RING_SIZE THEN size + 1 ELSE size
  /\ is_active' = TRUE

ringbuffer_get_last == IF size = 0 THEN 0 ELSE buffer[pos]

\* The slots ringbuffer_get_average visits, newest first.
WalkBack[i \in Nat] == IF i = 0 THEN pos ELSE PrevSlot(WalkBack[i - 1])

ringbuffer_get_average(count) ==
  IF size = 0 THEN 0
  ELSE LET included == 0 .. Min({count, size}) - 1
       IN  (SumOver([i \in included |-> buffer[WalkBack[i]]], included) % WORD) \div count

\* Faulty variant, for the mutants: adds in a wider type.
PredictUnwrapped(count) ==
  IF size = 0 THEN 0
  ELSE ringbuffer_get_last
         + Minus(ringbuffer_get_average(count), ringbuffer_get_last)

ringbuffer_predict_next(count) ==
  IF size = 0 THEN 0
  ELSE Plus(ringbuffer_get_last,
            Minus(ringbuffer_get_average(count), ringbuffer_get_last))
-----------------------------------------------------------------------------
\* ringbuffer_init: calloc clears every field.
Init ==
  /\ pos = 0
  /\ size = 0
  /\ buffer = [s \in Slot |-> 0]
  /\ is_active = FALSE
  /\ packet_count = 0
  /\ history = << >>

\* n packets go by, then the main loop polls the counter.
Poll(n) ==
  /\ Len(history) < MaxPolls
  /\ packet_count + n \in Word
  /\ packet_count' = packet_count + n
  /\ ringbuffer_add(packet_count')
  /\ history' = Append(history, [seen |-> packet_count', stored |-> Sample(packet_count')])

\* The flow entry is replaced in the switch: its counters restart.
Replace ==
  /\ packet_count > 0
  /\ packet_count' = 0
  /\ UNCHANGED <<pos, size, buffer, is_active, history>>

Next == (\E n \in Steps : Poll(n)) \/ Replace

Spec == Init /\ [][Next]_vars
-----------------------------------------------------------------------------
TypeOK ==
  /\ pos \in Slot
  /\ size \in 0 .. RING_SIZE
  /\ buffer \in [Slot -> Word]
  /\ is_active \in BOOLEAN
  /\ packet_count \in Word
  /\ history \in Seq([seen : Word, stored : Word])

(***************************************************************************)
(* As long as the counters seen do not go down, the load of a flow is at   *)
(* most the counter last seen: the unsigned subtraction of ringbuffer_add  *)
(* does not wrap, although it subtracts the previous element, itself a     *)
(* difference, and not the previous counter.                               *)
(***************************************************************************)
NeverReset ==
  \A i \in 1 .. Len(history) - 1 : history[i].seen <= history[i + 1].seen

LoadWithinCount ==
  NeverReset /\ history # << >> => ringbuffer_get_last <= history[Len(history)].seen

(***************************************************************************)
(* Reading the ring backwards from pos, wrapping at slot 0, yields the     *)
(* most recent samples, newest first, and size of them: no sample is lost, *)
(* repeated or read from a slot never written.                             *)
(***************************************************************************)
RingHoldsRecentHistory ==
  /\ size = IF Len(history) < RING_SIZE THEN Len(history) ELSE RING_SIZE
  /\ \A i \in 0 .. size - 1 :
       buffer[(pos - i) % RING_SIZE] = history[Len(history) - i].stored

(***************************************************************************)
(* Once the ring holds count elements, the average of count, for which the *)
(* code walks back from pos and wraps below slot 0, is that of the last    *)
(* count samples polled, each taken once.                                  *)
(***************************************************************************)
AverageOfLastSamples ==
  \A count \in 1 .. size :
    LET last  == [i \in 0 .. count - 1 |-> history[Len(history) - i].stored]
        total == SumOver(last, 0 .. count - 1)
    IN  ringbuffer_get_average(count) = (total % WORD) \div count

(***************************************************************************)
(* ringbuffer_predict_next computes last + (average - last) in unsigned    *)
(* arithmetic.  When the average is below the last element the difference  *)
(* wraps; the sum wraps back, and the prediction is the average.           *)
(***************************************************************************)
PredictionIsAverage ==
  \A count \in 1 .. RING_SIZE :
    ringbuffer_predict_next(count) = ringbuffer_get_average(count)
-----------------------------------------------------------------------------
(***************************************************************************)
(* "Keeps track of connections and count packets" (README.md:13): the load *)
(* of a flow is the number of packets counted since the previous poll.     *)
(* Does not hold: the third sample subtracts a difference.                 *)
(***************************************************************************)
LoadIsPacketsSincePoll ==
  LET n == Len(history)
  IN  n > 1 /\ NeverReset => ringbuffer_get_last = history[n].seen - history[n - 1].seen
=============================================================================
