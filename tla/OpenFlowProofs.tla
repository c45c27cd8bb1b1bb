--------------------------- MODULE OpenFlowProofs ---------------------------
(***************************************************************************)
(* Proofs about OpenFlow, for any sizes of its tables, queues and replies, *)
(* whether or not messages arrive in pieces, the stream is torn, or the    *)
(* switch goes away.                                                       *)
(***************************************************************************)
EXTENDS OpenFlow, ArithmeticProofs, SequenceTheorems, TLAPS

(***************************************************************************)
(* The elements of a queue to which one is added, and from which the first *)
(* is taken.                                                               *)
(***************************************************************************)
LEMMA Appended ==
  ASSUME NEW S, NEW q \in Seq(S), NEW m \in S
  PROVE  /\ Append(q, m) \in Seq(S)
         /\ Len(q) \in Nat /\ Len(Append(q, m)) = Len(q) + 1
         /\ \A i \in 1 .. Len(q) : Append(q, m)[i] = q[i] /\ q[i] \in S
         /\ Append(q, m)[Len(q) + 1] = m
BY AppendProperties, LenProperties, ElementOfSeq

LEMMA Taken ==
  ASSUME NEW S, NEW q \in Seq(S), q # << >>
  PROVE  /\ Tail(q) \in Seq(S) /\ Head(q) \in S
         /\ Len(q) \in Nat /\ Len(q) >= 1 /\ Len(Tail(q)) = Len(q) - 1
         /\ Head(q) = q[1]
         /\ \A i \in 1 .. Len(q) - 1 : Tail(q)[i] = q[i + 1] /\ i + 1 \in 1 .. Len(q)
<1>1. Len(q) \in Nat /\ Len(q) >= 1
  BY EmptySeq, LenProperties
<1>2. Tail(q) \in Seq(S) /\ Head(q) \in S /\ Len(Tail(q)) = Len(q) - 1
      /\ \A i \in 1 .. Len(Tail(q)) : Tail(q)[i] = q[i + 1]
  BY HeadTailProperties
<1>3. Head(q) = q[1]
  OBVIOUS
<1>4. QED
  BY <1>1, <1>2, <1>3
-----------------------------------------------------------------------------
(* Queues of messages: none of type t; those of type t are of request s,   *)
(* sent with id x; at most one of type t; all statistics replies announce  *)
(* more; one that does not is the last.                                    *)
Without(q, t) == \A i \in 1 .. Len(q) : q[i].type # t

Own(q, t, x, s) ==
  \A i \in 1 .. Len(q) : q[i].type = t => q[i].xid = x /\ q[i].for = s

AtMostOne(q, t) ==
  \A i, j \in 1 .. Len(q) : q[i].type = t /\ q[j].type = t => i = j

AllMore(q) == \A i \in 1 .. Len(q) : q[i].type = "STATS_REPLY" => q[i].more

Ends(q) ==
  \A i, j \in 1 .. Len(q) :
    q[i].type = "STATS_REPLY" /\ q[j].type = "STATS_REPLY" /\ ~ q[i].more => j <= i

LEMMA EmptyQueue ==
  ASSUME NEW t, NEW x, NEW s
  PROVE  /\ Without(<< >>, t) /\ Own(<< >>, t, x, s) /\ AtMostOne(<< >>, t)
         /\ AllMore(<< >>) /\ Ends(<< >>)
BY DEF Without, Own, AtMostOne, AllMore, Ends

LEMMA QueueAppended ==
  ASSUME NEW q \in Seq(Messages), NEW m \in Messages, NEW t, NEW x, NEW s
  PROVE  LET r == Append(q, m)
         IN  /\ Without(q, t) /\ m.type # t => Without(r, t)
             /\ Own(q, t, x, s) /\ (m.type = t => m.xid = x /\ m.for = s) => Own(r, t, x, s)
             /\ AtMostOne(q, t) /\ m.type # t => AtMostOne(r, t)
             /\ Without(q, t) => AtMostOne(r, t)
             /\ AllMore(q) /\ (m.type = "STATS_REPLY" => m.more) => AllMore(r)
             /\ AllMore(q) => Ends(r)
             /\ Ends(q) /\ m.type # "STATS_REPLY" => Ends(r)
<1> DEFINE r == Append(q, m)
           n == Len(q)
<1>1. /\ n \in Nat /\ Len(r) = n + 1
      /\ \A i \in 1 .. n : r[i] = q[i]
      /\ r[n + 1] = m
  BY Appended
<1> HIDE DEF r, n
<1>2. \A i \in 1 .. Len(r) : (i \in 1 .. n /\ r[i] = q[i]) \/ (i = n + 1 /\ r[i] = m)
  BY <1>1
<1>3. Without(q, t) /\ m.type # t => Without(r, t)
  BY <1>2 DEF Without, n
<1>4. Own(q, t, x, s) /\ (m.type = t => m.xid = x /\ m.for = s) => Own(r, t, x, s)
  BY <1>2 DEF Own, n
<1>5. AtMostOne(q, t) /\ m.type # t => AtMostOne(r, t)
  BY <1>2 DEF AtMostOne, n
<1>6. Without(q, t) => AtMostOne(r, t)
  BY <1>2 DEF AtMostOne, Without, n
<1>7. AllMore(q) /\ (m.type = "STATS_REPLY" => m.more) => AllMore(r)
  BY <1>2 DEF AllMore, n
<1>8. AllMore(q) => Ends(r)
  BY <1>1, <1>2 DEF AllMore, Ends, n
<1>9. Ends(q) /\ m.type # "STATS_REPLY" => Ends(r)
  BY <1>1, <1>2 DEF Ends, n
<1>10. QED
  BY <1>3, <1>4, <1>5, <1>6, <1>7, <1>8, <1>9 DEF r

LEMMA QueueTaken ==
  ASSUME NEW q \in Seq(Messages), q # << >>, NEW t, NEW x, NEW s
  PROVE  /\ Without(q, t) => Without(Tail(q), t) /\ Head(q).type # t
         /\ Own(q, t, x, s) => /\ Own(Tail(q), t, x, s)
                               /\ Head(q).type = t => Head(q).xid = x /\ Head(q).for = s
         /\ AtMostOne(q, t) => /\ AtMostOne(Tail(q), t)
                               /\ Head(q).type = t => Without(Tail(q), t)
         /\ AllMore(q) => /\ AllMore(Tail(q))
                          /\ Head(q).type = "STATS_REPLY" => Head(q).more
         /\ Ends(q) => /\ Ends(Tail(q))
                       /\ Head(q).type = "STATS_REPLY" /\ ~ Head(q).more
                            => Without(Tail(q), "STATS_REPLY")
<1> DEFINE r == Tail(q)
           n == Len(q)
           h == Head(q)
<1>1. /\ n \in Nat /\ n >= 1 /\ Len(r) = n - 1 /\ h = q[1]
      /\ \A i \in 1 .. n - 1 : r[i] = q[i + 1] /\ i + 1 \in 1 .. n
  BY Taken
<1> HIDE DEF r, n, h
<1>2. 1 \in 1 .. n /\ \A i \in 1 .. Len(r) : i + 1 \in 1 .. n /\ r[i] = q[i + 1] /\ i + 1 # 1
  BY <1>1
<1>3. Without(q, t) => Without(r, t) /\ h.type # t
  BY <1>1, <1>2 DEF Without, n
<1>4. Own(q, t, x, s) => Own(r, t, x, s) /\ (h.type = t => h.xid = x /\ h.for = s)
  BY <1>1, <1>2 DEF Own, n
<1>5. AtMostOne(q, t) => AtMostOne(r, t) /\ (h.type = t => Without(r, t))
  <2> SUFFICES ASSUME AtMostOne(q, t)
               PROVE  AtMostOne(r, t) /\ (h.type = t => Without(r, t))
    OBVIOUS
  <2>1. ASSUME NEW i \in 1 .. Len(r), NEW j \in 1 .. Len(r), r[i].type = t, r[j].type = t
        PROVE  i = j
    <3>1. i + 1 = j + 1
      BY <1>2, <2>1 DEF AtMostOne, n
    <3>2. QED
      BY <1>1, <3>1
  <2>2. h.type = t => Without(r, t)
    BY <1>1, <1>2 DEF AtMostOne, Without, n
  <2>3. QED
    BY <2>1, <2>2 DEF AtMostOne
<1>6. AllMore(q) => AllMore(r) /\ (h.type = "STATS_REPLY" => h.more)
  BY <1>1, <1>2 DEF AllMore, n
<1>7. Ends(q) => /\ Ends(r)
                 /\ h.type = "STATS_REPLY" /\ ~ h.more => Without(r, "STATS_REPLY")
  <2> SUFFICES ASSUME Ends(q)
               PROVE  /\ Ends(r)
                      /\ h.type = "STATS_REPLY" /\ ~ h.more => Without(r, "STATS_REPLY")
    OBVIOUS
  <2>1. ASSUME NEW i \in 1 .. Len(r), NEW j \in 1 .. Len(r),
               r[i].type = "STATS_REPLY", r[j].type = "STATS_REPLY", ~ r[i].more
        PROVE  j <= i
    <3>1. j + 1 <= i + 1
      BY <1>2, <2>1 DEF Ends, n
    <3>2. QED
      BY <1>1, <3>1
  <2>2. ASSUME h.type = "STATS_REPLY", ~ h.more, NEW i \in 1 .. Len(r), r[i].type = "STATS_REPLY"
        PROVE  FALSE
    <3>1. i + 1 <= 1
      BY <1>1, <1>2, <2>2 DEF Ends, n
    <3>2. QED
      BY <1>1, <3>1
  <2>3. QED
    BY <2>1, <2>2 DEF Ends, Without
<1>8. QED
  BY <1>3, <1>4, <1>5, <1>6, <1>7 DEF r, h
-----------------------------------------------------------------------------
(* The number of elements of q that are in K. *)
Places(q, K) == {i \in 1 .. Len(q) : q[i] \in K}
Count(q, K) == Cardinality(Places(q, K))

LEMMA CountAppended ==
  ASSUME NEW S, NEW q \in Seq(S), NEW m \in S, NEW K
  PROVE  /\ Count(q, K) \in Nat
         /\ Count(Append(q, m), K) = Count(q, K) + IF m \in K THEN 1 ELSE 0
<1> DEFINE r == Append(q, m)
           n == Len(q)
           P == Places(q, K)
<1>1. /\ n \in Nat /\ Len(r) = n + 1
      /\ \A i \in 1 .. n : r[i] = q[i]
      /\ r[n + 1] = m
  BY Appended
<1>2. IsFiniteSet(P) /\ Cardinality(P) \in Nat
  <2>1. IsFiniteSet(1 .. n)
    BY <1>1, FS_Interval
  <2>2. P \in SUBSET (1 .. n)
    BY DEF Places
  <2>3. QED
    BY <2>1, <2>2, FS_Subset, FS_CardinalityType
<1> HIDE DEF r, n
<1>3. Places(r, K) = IF m \in K THEN P \cup {n + 1} ELSE P
  BY <1>1 DEF Places, n
<1>4. n + 1 \notin P
  BY <1>1 DEF Places, n
<1> HIDE DEF P
<1>5. Cardinality(P \cup {n + 1}) = Cardinality(P) + 1
  BY <1>2, <1>4, FS_AddElement
<1>6. QED
  BY <1>2, <1>3, <1>5 DEF Count, P, r

LEMMA CountTaken ==
  ASSUME NEW S, NEW q \in Seq(S), q # << >>, NEW K
  PROVE  /\ Count(Tail(q), K) \in Nat
         /\ Count(q, K) = Count(Tail(q), K) + IF Head(q) \in K THEN 1 ELSE 0
<1> DEFINE r == Tail(q)
           n == Len(q)
           P == Places(q, K)
           R == Places(r, K)
           f == [i \in R |-> i + 1]
<1>1. /\ n \in Nat /\ n >= 1 /\ Len(r) = n - 1 /\ Head(q) = q[1]
      /\ \A i \in 1 .. n - 1 : r[i] = q[i + 1] /\ i + 1 \in 1 .. n
  BY Taken
<1>2. IsFiniteSet(P) /\ IsFiniteSet(R) /\ Cardinality(P) \in Nat /\ Cardinality(R) \in Nat
  <2>1. IsFiniteSet(1 .. n) /\ IsFiniteSet(1 .. n - 1)
    BY <1>1, FS_Interval
  <2>2. P \in SUBSET (1 .. n) /\ R \in SUBSET (1 .. n - 1)
    BY <1>1 DEF Places
  <2>3. QED
    BY <2>1, <2>2, FS_Subset, FS_CardinalityType
<1> HIDE DEF r, n
<1>3. /\ \A i \in R : i \in Int /\ i + 1 \in P \ {1}
      /\ \A j \in P \ {1} : j - 1 \in R /\ (j - 1) + 1 = j
  BY <1>1 DEF Places, n
<1>4. Cardinality(P \ {1}) = Cardinality(R)
  <2> HIDE DEF P, R
  <2>1. f \in Bijection(R, P \ {1})
    <3>1. f \in [R -> P \ {1}]
      BY <1>3
    <3>2. \A i, j \in R : f[i] = f[j] => i = j
      BY <1>3
    <3>3. \A j \in P \ {1} : \E i \in R : f[i] = j
      BY <1>3
    <3> HIDE DEF f
    <3>4. QED
      BY <3>1, <3>2, <3>3 DEF Bijection, Injection, Surjection, IsInjective
  <2>2. QED
    BY <1>2, <2>1, FS_Bijection DEF ExistsBijection
<1>5. 1 \in P <=> Head(q) \in K
  BY <1>1 DEF Places, n
<1>6. Cardinality(P \ {1}) = IF 1 \in P THEN Cardinality(P) - 1 ELSE Cardinality(P)
  BY <1>2, FS_RemoveElement
<1> HIDE DEF P, R
<1>7. Cardinality(P) = Cardinality(R) + IF Head(q) \in K THEN 1 ELSE 0
  BY <1>2, <1>4, <1>5, <1>6
<1>8. QED
  BY <1>2, <1>7 DEF Count, P, R, r

LEMMA CountEmpty ==
  ASSUME NEW K
  PROVE  Count(<< >>, K) = 0
<1>1. Places(<< >>, K) = {}
  BY DEF Places
<1>2. QED
  BY <1>1, FS_EmptySet DEF Count
-----------------------------------------------------------------------------
(***************************************************************************)
(* What sending, delivering and taking a message do to the queues.         *)
(***************************************************************************)
LEMMA MessageForIs ==
  ASSUME NEW type \in Kinds, NEW xid \in 0 .. XID - 1, NEW s \in 0 .. 3
  PROVE  LET m == MessageFor(type, xid, s)
         IN  /\ m \in Messages
             /\ m.type = type /\ m.xid = xid /\ m.for = s /\ ~ m.more
BY DEF MessageFor, Messages

LEMMA MessageIs ==
  ASSUME NEW type \in Kinds, NEW xid \in 0 .. XID - 1
  PROVE  /\ Message(type, xid) \in Messages
         /\ Message(type, xid).type = type /\ Message(type, xid).xid = xid
BY MessageForIs DEF Message

LEMMA SendDoes ==
  ASSUME TypeOK, NEW m \in Messages, NEW next, Send(m, next)
  PROVE  /\ toSwitch' \in Seq(Messages)
         /\ \/ toSwitch' = toSwitch
            \/ toSwitch' = Append(toSwitch, m) /\ link = "open" /\ ~ WriteFails
         /\ link = "open" /\ ~ WriteFails => toSwitch' = Append(toSwitch, m)
         /\ link' \in {"none", "open", "closed", "poked", "reset"}
         /\ pc' \in {next, "killed"}
BY Appended DEF TypeOK, Send

LEMMA PiecesAre ==
  ASSUME NEW n \in Nat
  PROVE  /\ Misread \in Messages /\ Misread.type = "MISREAD"
         /\ Pieces(n) \in Seq(Messages) /\ Len(Pieces(n)) = n
         /\ \A i \in 1 .. n : Pieces(n)[i] = Misread
<1>1. Misread \in Messages /\ Misread.type = "MISREAD"
  <2>1. 0 \in 0 .. XID - 1 /\ NoRequest \in 0 .. 3 /\ "MISREAD" \in Kinds
    BY OpenFlowAssumption DEF Kinds, NoRequest
  <2>2. QED
    BY <2>1, MessageForIs DEF Misread
<1>2. QED
  BY <1>1 DEF Pieces

LEMMA DeliverDoes ==
  ASSUME TypeOK, NEW m \in Messages, Deliver(m)
  PROVE  /\ fromSwitch' \in Seq(Messages)
         /\ fromSwitch' = Append(fromSwitch, m) \/ \E n \in Nat : fromSwitch' = Pieces(n)
         /\ ~ torn => fromSwitch' = Append(fromSwitch, m)
         /\ front' \in {"part", "header", "full"}
<1>1. MaxPieces \in Nat /\ Arrivals \subseteq {"part", "header", "full"}
  BY OpenFlowAssumption
<1>2. /\ fromSwitch' = Append(fromSwitch, m) \/ \E n \in Nat : fromSwitch' = Pieces(n)
      /\ ~ torn => fromSwitch' = Append(fromSwitch, m)
  BY <1>1 DEF Deliver
<1>3. fromSwitch' \in Seq(Messages)
  <2>1. Append(fromSwitch, m) \in Seq(Messages)
    BY Appended DEF TypeOK
  <2>2. QED
    BY <1>2, <2>1, PiecesAre
<1>4. front' \in {"part", "header", "full"}
  BY <1>1 DEF TypeOK, Deliver
<1>5. QED
  BY <1>2, <1>3, <1>4

LEMMA ConsumeDoes ==
  ASSUME TypeOK, Readable, Consume
  PROVE  /\ fromSwitch # << >>
         /\ fromSwitch' \in Seq(Messages)
         /\ fromSwitch' = Tail(fromSwitch) \/ \E n \in Nat : fromSwitch' = Pieces(n)
         /\ ~ torn => fromSwitch' = Tail(fromSwitch)
         /\ front' \in {"part", "header", "full"}
         /\ Head(fromSwitch) \in Messages
         /\ body' = FALSE /\ UNCHANGED torn
<1>1. fromSwitch # << >> /\ fromSwitch \in Seq(Messages)
  BY DEF TypeOK, Readable
<1>2. Tail(fromSwitch) \in Seq(Messages) /\ Head(fromSwitch) \in Messages
  BY <1>1, Taken
<1>3. /\ fromSwitch' = Tail(fromSwitch) \/ \E n \in Nat : fromSwitch' = Pieces(n)
      /\ ~ torn => fromSwitch' = Tail(fromSwitch)
  <2>1. Len(fromSwitch) \in Nat
    BY <1>1, Taken
  <2>2. \A n \in 0 .. Len(fromSwitch) - 1 : n \in Nat
    BY <2>1
  <2>3. QED
    BY <2>2 DEF Consume
<1>4. fromSwitch' \in Seq(Messages)
  BY <1>2, <1>3, PiecesAre
<1>5. front' \in {"part", "header", "full"} /\ body' = FALSE /\ UNCHANGED torn
  BY OpenFlowAssumption DEF Consume
<1>6. QED
  BY <1>1, <1>2, <1>3, <1>4, <1>5
-----------------------------------------------------------------------------
(***************************************************************************)
(* An echo request of the switch is on its way, put aside, answered, given *)
(* up or lost: no more are to be answered than it has sent, and no fewer   *)
(* than there are requests and answers under way and answers that could    *)
(* not be written.                                                         *)
(***************************************************************************)
Asked    == {m \in Messages : m.type = "ECHO_REQUEST"}
Answered == {m \in Messages : m.type = "ECHO_REPLY" /\ m.for # NoRequest}

EchoesCounted ==
  /\ Count(fromSwitch, Asked) + Count(msg_buffer, {"ECHO_REQUEST"})
       + Count(toSwitch, Answered) <= unanswered - dropped
  /\ unanswered <= async

(* The same of given queues and numbers. *)
Covers(n, from, aside, to) ==
  Count(from, Asked) + Count(aside, {"ECHO_REQUEST"}) + Count(to, Answered) <= n

LEMMA CountsAreNat ==
  ASSUME NEW S, NEW q \in Seq(S), NEW K
  PROVE  Count(q, K) \in Nat
<1>1. CASE q = << >>
  BY <1>1, CountEmpty
<1>2. CASE q # << >>
  BY <1>2, CountTaken
<1>3. QED
  BY <1>1, <1>2

(***************************************************************************)
(* Requests and answers stay covered when a message is added that is none, *)
(* when one is taken away, when a request is put aside, and when one is    *)
(* answered.                                                               *)
(***************************************************************************)
LEMMA CoversKept ==
  ASSUME NEW n \in Int, NEW from \in Seq(Messages), NEW to \in Seq(Messages),
         NEW aside \in Seq(Kinds \cup {"UNSET"}), Covers(n, from, aside, to)
  PROVE  /\ n >= 0
         /\ Covers(n, << >>, aside, to)
         /\ \A m \in Messages :
              /\ m \notin Answered => Covers(n, from, aside, Append(to, m))
              /\ Covers(n + 1, from, aside, Append(to, m))
              /\ m.type # "ECHO_REQUEST" => Covers(n, Append(from, m), aside, to)
              /\ Covers(n + 1, Append(from, m), aside, to)
         /\ from # << >> =>
              /\ Covers(n, Tail(from), aside, to)
              /\ Covers(n, Tail(from), Append(aside, Head(from).type), to)
              /\ Head(from).type = "ECHO_REQUEST" => Covers(n - 1, Tail(from), aside, to)
         /\ to # << >> =>
              /\ Covers(n, from, aside, Tail(to))
              /\ Head(to) \in Answered => Covers(n - 1, from, aside, Tail(to))
         /\ aside # << >> =>
              /\ Covers(n, from, Tail(aside), to)
              /\ Head(aside) = "ECHO_REQUEST" => Covers(n - 1, from, Tail(aside), to)
<1> DEFINE a == Count(from, Asked)
           b == Count(aside, {"ECHO_REQUEST"})
           c == Count(to, Answered)
<1>1. a \in Nat /\ b \in Nat /\ c \in Nat
  BY CountsAreNat
<1>2. a + b + c <= n
  BY DEF Covers
<1>3. Covers(n, << >>, aside, to)
  BY <1>1, <1>2, CountEmpty DEF Covers
<1>4. ASSUME NEW m \in Messages
      PROVE  /\ m \notin Answered => Covers(n, from, aside, Append(to, m))
             /\ Covers(n + 1, from, aside, Append(to, m))
             /\ m.type # "ECHO_REQUEST" => Covers(n, Append(from, m), aside, to)
             /\ Covers(n + 1, Append(from, m), aside, to)
  <2>1. Count(Append(to, m), Answered) = c + IF m \in Answered THEN 1 ELSE 0
    BY CountAppended
  <2>2. Count(Append(from, m), Asked) = a + IF m.type = "ECHO_REQUEST" THEN 1 ELSE 0
    BY CountAppended DEF Asked
  <2> HIDE DEF a, b, c
  <2>3. QED
    BY <1>1, <1>2, <2>1, <2>2 DEF Covers, a, b, c
<1>5. ASSUME from # << >>
      PROVE  /\ Covers(n, Tail(from), aside, to)
             /\ Covers(n, Tail(from), Append(aside, Head(from).type), to)
             /\ Head(from).type = "ECHO_REQUEST" => Covers(n - 1, Tail(from), aside, to)
  <2> DEFINE type == Head(from).type
             rest == Count(Tail(from), Asked)
  <2>1. Head(from) \in Messages
    BY <1>5, Taken
  <2>2. type \in Kinds \cup {"UNSET"}
    BY <2>1 DEF Messages
  <2>3. rest \in Nat /\ a = rest + IF type = "ECHO_REQUEST" THEN 1 ELSE 0
    BY <1>5, <2>1, CountTaken DEF Asked
  <2> HIDE DEF type
  <2>4. Count(Append(aside, type), {"ECHO_REQUEST"})
          = b + IF type = "ECHO_REQUEST" THEN 1 ELSE 0
    BY <2>2, CountAppended
  <2> HIDE DEF a, b, c, rest
  <2>5. QED
    BY <1>1, <1>2, <2>3, <2>4 DEF Covers, a, b, c, rest, type
<1>6. ASSUME to # << >>
      PROVE  /\ Covers(n, from, aside, Tail(to))
             /\ Head(to) \in Answered => Covers(n - 1, from, aside, Tail(to))
  <2> DEFINE rest == Count(Tail(to), Answered)
  <2>1. Head(to) \in Messages
    BY <1>6, Taken
  <2>2. rest \in Nat /\ c = rest + IF Head(to) \in Answered THEN 1 ELSE 0
    BY <1>6, <2>1, CountTaken
  <2> HIDE DEF a, b, c, rest
  <2>3. QED
    BY <1>1, <1>2, <2>2 DEF Covers, a, b, c, rest
<1>7. ASSUME aside # << >>
      PROVE  /\ Covers(n, from, Tail(aside), to)
             /\ Head(aside) = "ECHO_REQUEST" => Covers(n - 1, from, Tail(aside), to)
  <2> DEFINE rest == Count(Tail(aside), {"ECHO_REQUEST"})
  <2>1. rest \in Nat /\ b = rest + IF Head(aside) = "ECHO_REQUEST" THEN 1 ELSE 0
    BY <1>7, CountTaken
  <2> HIDE DEF a, b, c, rest
  <2>2. QED
    BY <1>1, <1>2, <2>1 DEF Covers, a, b, c, rest
<1> HIDE DEF a, b, c
<1>8. QED
  BY <1>1, <1>2, <1>3, <1>4, <1>5, <1>6, <1>7

(* Misread pieces are no requests. *)
LEMMA CoversPieces ==
  ASSUME NEW n \in Int, NEW from \in Seq(Messages), NEW to \in Seq(Messages),
         NEW aside \in Seq(Kinds \cup {"UNSET"}), Covers(n, from, aside, to), NEW k \in Nat
  PROVE  Covers(n, Pieces(k), aside, to)
<1>1. Places(Pieces(k), Asked) = {}
  BY PiecesAre DEF Places, Asked
<1>2. Count(Pieces(k), Asked) = 0
  BY <1>1, FS_EmptySet DEF Count
<1>3. /\ Count(from, Asked) \in Nat /\ Count(aside, {"ECHO_REQUEST"}) \in Nat
      /\ Count(to, Answered) \in Nat
  BY CountsAreNat
<1>4. QED
  <2> DEFINE a == Count(from, Asked)
             b == Count(aside, {"ECHO_REQUEST"})
             c == Count(to, Answered)
  <2>1. a \in Nat /\ b \in Nat /\ c \in Nat /\ a + b + c <= n
    BY <1>3 DEF Covers
  <2> HIDE DEF a, b, c
  <2>2. 0 + b + c <= n
    BY <2>1
  <2>3. QED
    BY <1>2, <2>2 DEF Covers, b, c

LEMMA HandleCovers ==
  ASSUME TypeOK, NEW from \in Seq(Messages), NEW aside \in Seq(Kinds \cup {"UNSET"}),
         NEW type, NEW next, Handle(type, next),
         Covers(unanswered - dropped, from, aside, toSwitch),
         type = "ECHO_REQUEST" => Covers(unanswered - dropped - 1, from, aside, toSwitch)
  PROVE  Covers(unanswered - dropped', from, aside, toSwitch') /\ dropped' \in Nat
<1> DEFINE n == unanswered - dropped
           m(for) == MessageFor("ECHO_REPLY", 0, for)
<1>1. /\ dropped \in Nat /\ dropped + 1 \in Nat /\ n \in Int /\ n - 1 \in Int
      /\ (n - 1) + 1 = n /\ unanswered - (dropped + 1) = n - 1
      /\ toSwitch \in Seq(Messages)
  BY DEF TypeOK
<1>2. m(0) \in Messages /\ m(NoRequest) \in Messages \ Answered
  <2>1. 0 \in 0 .. XID - 1 /\ 0 \in 0 .. 3 /\ NoRequest \in 0 .. 3 /\ "ECHO_REPLY" \in Kinds
    BY OpenFlowAssumption DEF Kinds, NoRequest
  <2>2. /\ m(0) \in Messages
        /\ m(NoRequest) \in Messages /\ m(NoRequest).for = NoRequest
    BY <2>1, MessageForIs
  <2> HIDE DEF m
  <2>3. QED
    BY <2>2 DEF Answered
<1> HIDE DEF n
<1>3. CASE type = "ECHO_REQUEST" /\ Send(m(0), next)
           /\ dropped' = IF WriteFails THEN dropped + 1 ELSE dropped
  <2>1. Covers(n, from, aside, Append(toSwitch, m(0)))
    BY <1>1, <1>2, <1>3, CoversKept DEF n
  <2> HIDE DEF m
  <2>2. toSwitch' \in {toSwitch, Append(toSwitch, m(0))} /\ (WriteFails => toSwitch' = toSwitch)
    BY <1>3 DEF Send
  <2>3. QED
    BY <1>1, <1>3, <2>1, <2>2 DEF n
<1>4. CASE Send(m(NoRequest), next) /\ dropped' = dropped
  <2>1. Covers(n, from, aside, Append(toSwitch, m(NoRequest)))
    BY <1>1, <1>2, CoversKept DEF n
  <2> HIDE DEF m
  <2>2. toSwitch' \in {toSwitch, Append(toSwitch, m(NoRequest))}
    BY <1>4 DEF Send
  <2>3. QED
    BY <1>1, <1>4, <2>1, <2>2 DEF n
<1>5. CASE toSwitch' = toSwitch /\ dropped' = dropped
  BY <1>1, <1>5
<1>6. QED
  BY <1>3, <1>4, <1>5 DEF Handle, Answer

LEMMA EchoStep ==
  ASSUME TypeOK, EchoesCounted, [Next]_vars
  PROVE  EchoesCounted' /\ unanswered' \in Int /\ dropped' \in Nat
<1> DEFINE n == unanswered - dropped
           Goal == /\ Covers(unanswered' - dropped', fromSwitch', msg_buffer', toSwitch')
                   /\ unanswered' \in Int /\ unanswered' <= async' /\ dropped' \in Nat
<1> SUFFICES Goal
  BY Zenon DEF EchoesCounted, Covers, Count, Places
<1>1. /\ unanswered \in Int /\ async \in Int /\ unanswered <= async /\ dropped \in Nat
      /\ n \in Int /\ n = unanswered - dropped
      /\ (unanswered + 1) - dropped = n + 1 /\ (unanswered - 1) - dropped = n - 1
      /\ fromSwitch \in Seq(Messages) /\ toSwitch \in Seq(Messages)
      /\ msg_buffer \in Seq(Kinds \cup {"UNSET"})
      /\ transaction_id \in 0 .. XID - 1 /\ 0 \in 0 .. XID - 1
  BY OpenFlowAssumption DEF TypeOK, EchoesCounted
<1>2. Covers(n, fromSwitch, msg_buffer, toSwitch)
  BY DEF EchoesCounted, Covers
<1> HIDE DEF n
<1>3. ASSUME UNCHANGED <<unanswered, dropped, async, fromSwitch, msg_buffer, toSwitch>>
      PROVE  Goal
  BY <1>1, <1>2, <1>3
<1>4. ASSUME \/ FreeFlows \/ Test \/ Terminate \/ Interrupt \/ Arrive
             \/ SwitchClose \/ UNCHANGED vars
      PROVE  Goal
  BY <1>3, <1>4, Zenon DEF FreeFlows, Test, Terminate, Interrupt, Arrive, SwitchClose,
       vars, conn, network, incoming, session, switch
<1>5. ASSUME NEW m \in Messages, NEW next, Send(m, next), m \notin Answered,
             fromSwitch' \in Seq(Messages), Covers(n, fromSwitch', msg_buffer, toSwitch)
      PROVE  Covers(n, fromSwitch', msg_buffer, toSwitch')
  <2>1. Covers(n, fromSwitch', msg_buffer, Append(toSwitch, m))
    BY <1>1, <1>5, CoversKept
  <2>2. QED
    BY <1>5, <2>1 DEF Send
<1>6. ASSUME Readable, Consume
      PROVE  /\ fromSwitch' \in Seq(Messages)
             /\ fromSwitch # << >>
             /\ \A k \in Int, aside \in Seq(Kinds \cup {"UNSET"}) :
                  Covers(k, Tail(fromSwitch), aside, toSwitch)
                    => Covers(k, fromSwitch', aside, toSwitch)
             /\ Covers(n, fromSwitch', msg_buffer, toSwitch)
  <2>1. /\ fromSwitch' \in Seq(Messages) /\ fromSwitch # << >>
        /\ fromSwitch' = Tail(fromSwitch) \/ \E k \in Nat : fromSwitch' = Pieces(k)
        /\ Tail(fromSwitch) \in Seq(Messages)
    BY <1>1, <1>6, ConsumeDoes, Taken
  <2>2. \A k \in Int, aside \in Seq(Kinds \cup {"UNSET"}) :
          Covers(k, Tail(fromSwitch), aside, toSwitch)
            => Covers(k, fromSwitch', aside, toSwitch)
    BY <1>1, <2>1, CoversPieces
  <2>3. Covers(n, Tail(fromSwitch), msg_buffer, toSwitch)
    BY <1>1, <1>2, <2>1, CoversKept
  <2>4. QED
    BY <1>1, <2>1, <2>2, <2>3
<1>7. ASSUME Hello
      PROVE  Goal
  <2>1. Message("HELLO", transaction_id) \in Messages
        /\ Message("HELLO", transaction_id) \notin Answered
    BY <1>1 DEF Message, MessageFor, Messages, Kinds, Answered
  <2>2. /\ Readable /\ Consume /\ Send(Message("HELLO", transaction_id), "ask")
        /\ UNCHANGED <<unanswered, dropped, async, msg_buffer>>
    BY <1>7 DEF Hello, switch, session
  <2>3. Covers(n, fromSwitch', msg_buffer, toSwitch')
    BY <1>5, <1>6, <2>1, <2>2
  <2>4. QED
    BY <1>1, <2>2, <2>3
<1>8. ASSUME Features \/ StatsReply
      PROVE  Goal
  <2>1. Readable /\ Consume /\ UNCHANGED <<unanswered, dropped, async, msg_buffer, toSwitch>>
    BY <1>8 DEF Features, StatsReply, conn, switch, session
  <2>2. QED
    BY <1>1, <1>6, <2>1
<1>9. ASSUME FeaturesRequest \/ StatsRequest \/ ModVlan
      PROVE  Goal
  <2>1. UNCHANGED <<unanswered, dropped, async, fromSwitch, msg_buffer>>
    BY <1>9, Zenon DEF FeaturesRequest, StatsRequest, ModVlan, switch, session, incoming
  <2>2. \/ UNCHANGED toSwitch
        \/ \E m \in Messages, next \in {"features", "stats", "migrate"} :
             Send(m, next) /\ m \notin Answered
    <3>1. CASE FeaturesRequest
      <4>1. Message("FEATURES_REQUEST", transaction_id) \in Messages
            /\ Message("FEATURES_REQUEST", transaction_id) \notin Answered
        BY <1>1 DEF Message, MessageFor, Messages, Kinds, Answered
      <4>2. QED
        BY <3>1, <4>1 DEF FeaturesRequest
    <3>2. CASE StatsRequest
      <4> DEFINE m == MessageFor("STATS_REQUEST", transaction_id, serial')
      <4>1. serial' \in {serial, (serial + 1) % 3} /\ serial \in 0 .. 2
        BY <3>2 DEF StatsRequest, TypeOK
      <4>7. (serial + 1) % 3 \in 0 .. 2
        BY <4>1, ModRange
      <4>2. serial' \in 0 .. 3 /\ "STATS_REQUEST" \in Kinds
        BY <4>1, <4>7 DEF Kinds
      <4>3. m \in Messages /\ m.type = "STATS_REQUEST"
        BY <1>1, <4>2, MessageForIs
      <4> HIDE DEF m
      <4>6. m \notin Answered
        BY <4>3 DEF Answered
      <4>4. UNCHANGED toSwitch \/ Send(m, "stats")
        BY <3>2 DEF StatsRequest, m
      <4>5. QED
        BY <4>3, <4>4, <4>6
    <3>3. CASE ModVlan
      <4>1. Message("FLOW_MOD", transaction_id) \in Messages
            /\ Message("FLOW_MOD", transaction_id) \notin Answered
        BY <1>1 DEF Message, MessageFor, Messages, Kinds, Answered
      <4>2. QED
        BY <3>3, <4>1 DEF ModVlan
    <3>4. QED
      BY <1>9, <3>1, <3>2, <3>3
  <2>3. fromSwitch' \in Seq(Messages) /\ Covers(n, fromSwitch', msg_buffer, toSwitch)
    BY <1>1, <1>2, <2>1
  <2>4. Covers(n, fromSwitch', msg_buffer, toSwitch')
    <3>1. CASE UNCHANGED toSwitch
      BY <2>3, <3>1
    <3>2. CASE ~ UNCHANGED toSwitch
      <4>1. PICK m \in Messages, next \in {"features", "stats", "migrate"} :
              Send(m, next) /\ m \notin Answered
        BY <2>2, <3>2
      <4>2. QED
        BY <1>5, <2>3, <4>1
    <3>3. QED
      BY <3>1, <3>2
  <2>5. QED
    BY <1>1, <2>1, <2>4
<1>10. ASSUME NEW m \in Messages, Deliver(m)
       PROVE  /\ \A to \in Seq(Messages) :
                   Covers(n, fromSwitch, msg_buffer, to) /\ m.type # "ECHO_REQUEST"
                     => Covers(n, fromSwitch', msg_buffer, to)
              /\ Covers(n + 1, fromSwitch', msg_buffer, toSwitch)
  <2>1. fromSwitch' = Append(fromSwitch, m) \/ \E k \in Nat : fromSwitch' = Pieces(k)
    BY <1>10, DeliverDoes
  <2>2. Append(fromSwitch, m) \in Seq(Messages) /\ n + 1 \in Int
    BY <1>1, Appended
  <2>3. ASSUME NEW to \in Seq(Messages), Covers(n, fromSwitch, msg_buffer, to),
               m.type # "ECHO_REQUEST"
        PROVE  Covers(n, fromSwitch', msg_buffer, to)
    <3>1. Covers(n, Append(fromSwitch, m), msg_buffer, to)
      BY <1>1, <2>3, CoversKept
    <3>2. \A k \in Nat : Covers(n, Pieces(k), msg_buffer, to)
      BY <1>1, <2>3, CoversPieces
    <3>3. QED
      BY <2>1, <3>1, <3>2
  <2>4. Covers(n + 1, fromSwitch', msg_buffer, toSwitch)
    <3>1. Covers(n + 1, Append(fromSwitch, m), msg_buffer, toSwitch)
      BY <1>1, <1>2, CoversKept
    <3>2. \A k \in Nat : Covers(n + 1, Pieces(k), msg_buffer, toSwitch)
      BY <1>1, <2>2, <3>1, CoversPieces
    <3>3. QED
      BY <2>1, <3>1, <3>2
  <2>5. QED
    BY <2>3, <2>4
<1>11. ASSUME Accept
       PROVE  Goal
  <2>1. Message("HELLO", 0) \in Messages /\ Message("HELLO", 0).type # "ECHO_REQUEST"
    BY <1>1 DEF Message, MessageFor, Messages, Kinds
  <2>2. /\ Deliver(Message("HELLO", 0))
        /\ UNCHANGED <<unanswered, dropped, async, msg_buffer, toSwitch>>
    BY <1>11 DEF Accept, switch, session
  <2>3. Covers(n, fromSwitch', msg_buffer, toSwitch)
    BY <1>1, <1>2, <1>10, <2>1, <2>2
  <2>4. QED
    BY <1>1, <2>2, <2>3
<1>12. ASSUME SwitchAsync
       PROVE  Goal
  <2>1. /\ Message("ECHO_REQUEST", 0) \in Messages /\ Message("PACKET_IN", 0) \in Messages
        /\ Message("PACKET_IN", 0).type # "ECHO_REQUEST"
    BY <1>1 DEF Message, MessageFor, Messages, Kinds
  <2>2. /\ async' = async + 1 /\ UNCHANGED <<msg_buffer, toSwitch, dropped>>
        /\ \/ Deliver(Message("ECHO_REQUEST", 0)) /\ unanswered' = unanswered + 1
           \/ Deliver(Message("PACKET_IN", 0)) /\ unanswered' = unanswered
    BY <1>12 DEF SwitchAsync, conn, session
  <2>3. \/ unanswered' = unanswered + 1 /\ Covers(n + 1, fromSwitch', msg_buffer, toSwitch)
        \/ unanswered' = unanswered /\ Covers(n, fromSwitch', msg_buffer, toSwitch)
    BY <1>1, <1>2, <1>10, <2>1, <2>2
  <2>4. CASE unanswered' = unanswered + 1 /\ Covers(n + 1, fromSwitch', msg_buffer, toSwitch)
    <3>1. unanswered' - dropped' = n + 1 /\ unanswered' \in Int /\ unanswered' <= async'
      BY <1>1, <2>2, <2>4
    <3>2. QED
      BY <1>1, <2>2, <2>4, <3>1
  <2>5. CASE unanswered' = unanswered /\ Covers(n, fromSwitch', msg_buffer, toSwitch)
    <3>1. unanswered' - dropped' = n /\ unanswered' \in Int /\ unanswered' <= async'
      BY <1>1, <2>2, <2>5
    <3>2. QED
      BY <1>1, <2>2, <2>5, <3>1
  <2>6. QED
    BY <2>3, <2>4, <2>5
<1>13. ASSUME SwitchReply
       PROVE  Goal
  <2> DEFINE m == [type |-> "STATS_REPLY", xid |-> pending.xid,
                   more |-> pending.left > 1, for |-> pending.for]
  <2>1. m \in Messages /\ m.type # "ECHO_REQUEST"
    BY DEF TypeOK, Messages, Kinds
  <2>2. Deliver(m) /\ UNCHANGED <<msg_buffer, toSwitch, unanswered, dropped, async>>
    BY <1>13 DEF SwitchReply, conn, session
  <2> HIDE DEF m
  <2>3. Covers(n, fromSwitch', msg_buffer, toSwitch)
    BY <1>1, <1>2, <1>10, <2>1, <2>2
  <2>4. QED
    BY <1>1, <2>2, <2>3
<1>14. ASSUME Reset
       PROVE  Goal
  <2>1. fromSwitch' = << >> /\ UNCHANGED <<msg_buffer, toSwitch, unanswered, dropped, async>>
    BY <1>14 DEF Reset, conn, switch, session
  <2>2. QED
    BY <1>1, <1>2, <2>1, CoversKept
<1>15. ASSUME Tear \/ AwaitBody
       PROVE  Goal
  <2>1. /\ fromSwitch' \in {fromSwitch, << >>, Pieces(MaxPieces)} /\ MaxPieces \in Nat
        /\ UNCHANGED <<msg_buffer, toSwitch, unanswered, dropped, async>>
    BY <1>15, OpenFlowAssumption DEF Tear, AwaitBody, conn, switch, session
  <2>2. Covers(n, fromSwitch', msg_buffer, toSwitch)
    <3>1. Covers(n, << >>, msg_buffer, toSwitch)
      BY <1>1, <1>2, CoversKept
    <3>2. Covers(n, Pieces(MaxPieces), msg_buffer, toSwitch)
      BY <1>1, <1>2, <2>1, CoversPieces
    <3>3. QED
      BY <1>2, <2>1, <3>1, <3>2
  <2>3. QED
    BY <1>1, <2>1, <2>2
<1>16. ASSUME PutAside
       PROVE  Goal
  <2> DEFINE longer == Append(msg_buffer, Head(fromSwitch).type)
  <2>1. /\ Readable /\ Consume /\ UNCHANGED <<unanswered, dropped, async, toSwitch>>
        /\ msg_buffer' \in {msg_buffer, longer}
    BY <1>16 DEF PutAside, Aside, switch, session
  <2>2. fromSwitch # << >> /\ Head(fromSwitch) \in Messages
    BY <2>1, ConsumeDoes
  <2>3. Head(fromSwitch).type \in Kinds \cup {"UNSET"}
    BY <2>2 DEF Messages
  <2>4. longer \in Seq(Kinds \cup {"UNSET"})
    BY <1>1, <2>3, Appended
  <2>5. Covers(n, Tail(fromSwitch), longer, toSwitch)
    BY <1>1, <1>2, <2>2, CoversKept
  <2>6. Covers(n, fromSwitch', longer, toSwitch)
    BY <1>1, <1>6, <2>1, <2>4, <2>5
  <2>7. Covers(n, fromSwitch', msg_buffer, toSwitch)
    BY <1>6, <2>1
  <2> HIDE DEF longer
  <2>8. QED
    BY <1>1, <2>1, <2>6, <2>7
<1>17. ASSUME HandleBuffered
       PROVE  Goal
  <2>1. UNCHANGED <<fromSwitch, async, unanswered>>
    BY <1>17 DEF HandleBuffered, incoming, switch
  <2>2. \/ /\ msg_buffer # << >> /\ msg_buffer' = Tail(msg_buffer)
           /\ Handle(Head(msg_buffer), "control")
        \/ /\ msg_buffer # << >> /\ msg_buffer' = Tail(msg_buffer)
           /\ UNCHANGED <<toSwitch, dropped>>
        \/ UNCHANGED <<msg_buffer, toSwitch, dropped>>
    BY <1>17 DEF HandleBuffered
  <2>3. msg_buffer # << >> =>
          /\ Tail(msg_buffer) \in Seq(Kinds \cup {"UNSET"})
          /\ Covers(n, fromSwitch, Tail(msg_buffer), toSwitch)
          /\ Head(msg_buffer) = "ECHO_REQUEST"
               => Covers(n - 1, fromSwitch, Tail(msg_buffer), toSwitch)
    BY <1>1, <1>2, Taken, CoversKept
  <2>4. CASE /\ msg_buffer # << >> /\ msg_buffer' = Tail(msg_buffer)
             /\ Handle(Head(msg_buffer), "control")
    <3>1. /\ Covers(unanswered - dropped', fromSwitch, Tail(msg_buffer), toSwitch')
          /\ dropped' \in Nat
      BY <1>1, <2>3, <2>4, HandleCovers
    <3>2. QED
      BY <1>1, <2>1, <2>4, <3>1
  <2>5. CASE /\ msg_buffer # << >> /\ msg_buffer' = Tail(msg_buffer)
             /\ UNCHANGED <<toSwitch, dropped>>
    BY <1>1, <2>1, <2>3, <2>5
  <2>6. CASE UNCHANGED <<msg_buffer, toSwitch, dropped>>
    BY <1>3, <2>1, <2>6
  <2>7. QED
    BY <2>2, <2>4, <2>5, <2>6
<1>18. ASSUME Drain
       PROVE  Goal
  <2>1. UNCHANGED <<msg_buffer, async, unanswered>>
    BY <1>18 DEF Drain, switch
  <2>2. \/ Readable /\ Consume /\ Handle(Head(fromSwitch).type, "drain")
        \/ UNCHANGED <<fromSwitch, toSwitch, dropped>>
    BY <1>18 DEF Drain, network, incoming
  <2>3. CASE Readable /\ Consume /\ Handle(Head(fromSwitch).type, "drain")
    <3>1. fromSwitch # << >> /\ n - 1 \in Int
      BY <1>1, <1>6, <2>3
    <3>2. Head(fromSwitch).type = "ECHO_REQUEST"
            => Covers(n - 1, Tail(fromSwitch), msg_buffer, toSwitch)
      BY <1>1, <1>2, <3>1, CoversKept
    <3>3. /\ fromSwitch' \in Seq(Messages)
          /\ Covers(n, fromSwitch', msg_buffer, toSwitch)
          /\ Head(fromSwitch).type = "ECHO_REQUEST"
               => Covers(n - 1, fromSwitch', msg_buffer, toSwitch)
      BY <1>1, <1>6, <2>3, <3>1, <3>2
    <3>4. /\ Covers(unanswered - dropped', fromSwitch', msg_buffer, toSwitch')
          /\ dropped' \in Nat
      BY <1>1, <2>3, <3>3, HandleCovers
    <3>5. QED
      BY <1>1, <2>1, <3>4
  <2>4. CASE UNCHANGED <<fromSwitch, toSwitch, dropped>>
    BY <1>3, <2>1, <2>4
  <2>5. QED
    BY <2>2, <2>3, <2>4
<1>19. ASSUME SwitchReceive
       PROVE  Goal
  <2> DEFINE h == Head(toSwitch)
             rest == Tail(toSwitch)
             m == Message("FEATURES_REPLY", h.xid)
  <2>1. /\ toSwitch # << >> /\ toSwitch' = rest /\ UNCHANGED <<msg_buffer, async, dropped>>
        /\ \/ UNCHANGED <<fromSwitch, unanswered>>
           \/ UNCHANGED unanswered /\ Deliver(m)
           \/ /\ h.type = "ECHO_REPLY" /\ UNCHANGED fromSwitch
              /\ unanswered' = IF h.for = NoRequest THEN unanswered ELSE unanswered - 1
    BY <1>19 DEF SwitchReceive, conn, session, incoming
  <2>2. rest \in Seq(Messages) /\ h \in Messages
    BY <1>1, <2>1, Taken
  <2>3. /\ Covers(n, fromSwitch, msg_buffer, rest)
        /\ h \in Answered => Covers(n - 1, fromSwitch, msg_buffer, rest)
    BY <1>1, <1>2, <2>1, CoversKept
  <2>4. m \in Messages /\ m.type # "ECHO_REQUEST"
    BY <2>2 DEF Message, MessageFor, Messages, Kinds
  <2>5. h.type = "ECHO_REPLY" => h \in Answered \/ h.for = NoRequest
    BY <2>2 DEF Answered
  <2> HIDE DEF h, rest, m
  <2>6. CASE UNCHANGED <<fromSwitch, unanswered>>
    BY <1>1, <2>1, <2>3, <2>6
  <2>7. CASE UNCHANGED unanswered /\ Deliver(m)
    <3>1. Covers(n, fromSwitch', msg_buffer, rest)
      BY <1>10, <2>2, <2>3, <2>4, <2>7
    <3>2. QED
      BY <1>1, <2>1, <2>7, <3>1
  <2>8. CASE UNCHANGED fromSwitch /\ unanswered' = unanswered - 1 /\ h \in Answered
    BY <1>1, <2>1, <2>3, <2>8
  <2>9. QED
    BY <2>1, <2>5, <2>6, <2>7, <2>8
<1>20. QED
  BY <1>4, <1>7, <1>8, <1>9, <1>11, <1>12, <1>13, <1>14, <1>15, <1>16, <1>17, <1>18, <1>19, Zenon
     DEF Next, Program, Environment
-----------------------------------------------------------------------------
(***************************************************************************)
(* While the stream is whole:                                              *)
(* Between two calls of openflow_get_flows no statistics request, and no   *)
(* part of a reply, is on its way.  During a call one request at most is,  *)
(* the last one sent: in the outgoing queue, or with the switch, or its    *)
(* reply in the incoming queue, the message without MORE at the end.       *)
(***************************************************************************)
Between == {"accept", "hello", "ask", "features", "control", "drain", "request", "migrate",
            "test", "terminate"}

Quiet(to, from, p) ==
  Without(to, "STATS_REQUEST") /\ p = NoReply /\ Without(from, "STATS_REPLY")

UnderWay(to, from, p, x, s) ==
  /\ Own(to, "STATS_REQUEST", x, s) /\ AtMostOne(to, "STATS_REQUEST")
  /\ Own(from, "STATS_REPLY", x, s) /\ Ends(from)
  /\ p # NoReply => /\ p.xid = x /\ p.for = s
                    /\ Without(to, "STATS_REQUEST") /\ AllMore(from)
  /\ Without(to, "STATS_REQUEST") \/ Without(from, "STATS_REPLY")

RequestsFollowed ==
  ~ torn =>
  /\ pc \in Between => Quiet(toSwitch, fromSwitch, pending)
  /\ pc = "stats" => UnderWay(toSwitch, fromSwitch, pending, awaited, serial)

(* Nothing of a reply has been put aside. *)
NoneOf(b, t) == \A i \in 1 .. Len(b) : b[i] # t
NoneAside == ~ torn => NoneOf(msg_buffer, "STATS_REPLY")

LEMMA NoneOfKept ==
  ASSUME NEW S, NEW b \in Seq(S), NEW t, NoneOf(b, t)
  PROVE  /\ \A type \in S : type # t => NoneOf(Append(b, type), t)
         /\ b # << >> => NoneOf(Tail(b), t)
<1>1. ASSUME NEW type \in S, type # t
      PROVE  NoneOf(Append(b, type), t)
  <2> DEFINE r == Append(b, type)
             n == Len(b)
  <2>1. /\ n \in Nat /\ Len(r) = n + 1
        /\ \A i \in 1 .. n : r[i] = b[i]
        /\ r[n + 1] = type
    BY Appended
  <2> HIDE DEF r, n
  <2>2. \A i \in 1 .. Len(r) : r[i] # t
    BY <1>1, <2>1 DEF NoneOf, n
  <2>3. QED
    BY <2>2 DEF NoneOf, r
<1>2. ASSUME b # << >>
      PROVE  NoneOf(Tail(b), t)
  <2> DEFINE r == Tail(b)
             n == Len(b)
  <2>1. n \in Nat /\ Len(r) = n - 1 /\ \A i \in 1 .. n - 1 : r[i] = b[i + 1] /\ i + 1 \in 1 .. n
    BY <1>2, Taken
  <2> HIDE DEF r, n
  <2>2. \A i \in 1 .. Len(r) : r[i] # t
    BY <2>1 DEF NoneOf, n
  <2>3. QED
    BY <2>2 DEF NoneOf, r
<1>3. QED
  BY <1>1, <1>2

LEMMA QuietKept ==
  ASSUME NEW to \in Seq(Messages), NEW from \in Seq(Messages), NEW p, Quiet(to, from, p)
  PROVE  /\ Quiet(to, << >>, p)
         /\ \A m \in Messages :
              /\ m.type # "STATS_REQUEST" => Quiet(Append(to, m), from, p)
              /\ m.type # "STATS_REPLY" => Quiet(to, Append(from, m), p)
         /\ to # << >> => Quiet(Tail(to), from, p) /\ Head(to).type # "STATS_REQUEST"
         /\ from # << >> => Quiet(to, Tail(from), p) /\ Head(from).type # "STATS_REPLY"
<1>1. Without(to, "STATS_REQUEST") /\ p = NoReply /\ Without(from, "STATS_REPLY")
  BY DEF Quiet
<1>2. Quiet(to, << >>, p)
  BY <1>1, EmptyQueue DEF Quiet
<1>3. ASSUME NEW m \in Messages
      PROVE  /\ m.type # "STATS_REQUEST" => Quiet(Append(to, m), from, p)
             /\ m.type # "STATS_REPLY" => Quiet(to, Append(from, m), p)
  BY <1>1, QueueAppended DEF Quiet
<1>4. ASSUME to # << >>
      PROVE  Quiet(Tail(to), from, p) /\ Head(to).type # "STATS_REQUEST"
  BY <1>1, <1>4, QueueTaken DEF Quiet
<1>5. ASSUME from # << >>
      PROVE  Quiet(to, Tail(from), p) /\ Head(from).type # "STATS_REPLY"
  BY <1>1, <1>5, QueueTaken DEF Quiet
<1>6. QED
  BY <1>2, <1>3, <1>4, <1>5

(* The request is sent, or lost because the switch has gone. *)
LEMMA RequestSent ==
  ASSUME NEW to \in Seq(Messages), NEW from \in Seq(Messages), NEW p, Quiet(to, from, p),
         NEW x, NEW s,
         NEW m \in Messages, m.type = "STATS_REQUEST", m.xid = x, m.for = s
  PROVE  UnderWay(to, from, p, x, s) /\ UnderWay(Append(to, m), from, p, x, s)
<1>1. Without(to, "STATS_REQUEST") /\ p = NoReply /\ Without(from, "STATS_REPLY")
  BY DEF Quiet
<1>2. /\ Own(to, "STATS_REQUEST", x, s) /\ AtMostOne(to, "STATS_REQUEST")
      /\ Own(from, "STATS_REPLY", x, s) /\ Ends(from)
  BY <1>1 DEF Without, Own, AtMostOne, Ends
<1>3. Own(Append(to, m), "STATS_REQUEST", x, s) /\ AtMostOne(Append(to, m), "STATS_REQUEST")
  BY <1>1, <1>2, QueueAppended
<1>4. QED
  BY <1>1, <1>2, <1>3 DEF UnderWay

(* What is not of the request, on either queue, changes nothing; a message *)
(* of the reply is taken, and the last of them leaves nothing.             *)
LEMMA UnderWayKept ==
  ASSUME NEW to \in Seq(Messages), NEW from \in Seq(Messages), NEW p, NEW x, NEW s,
         UnderWay(to, from, p, x, s)
  PROVE  /\ UnderWay(to, << >>, p, x, s)
         /\ \A m \in Messages :
              /\ m.type # "STATS_REQUEST" => UnderWay(Append(to, m), from, p, x, s)
              /\ m.type # "STATS_REPLY" => UnderWay(to, Append(from, m), p, x, s)
         /\ from # << >> =>
              /\ UnderWay(to, Tail(from), p, x, s)
              /\ Head(from).type = "STATS_REPLY" => /\ Head(from).xid = x /\ Head(from).for = s
                                                    /\ ~ Head(from).more => Quiet(to, Tail(from), p)
<1>1. /\ Own(to, "STATS_REQUEST", x, s) /\ AtMostOne(to, "STATS_REQUEST")
      /\ Own(from, "STATS_REPLY", x, s) /\ Ends(from)
      /\ p # NoReply => /\ p.xid = x /\ p.for = s
                        /\ Without(to, "STATS_REQUEST") /\ AllMore(from)
      /\ Without(to, "STATS_REQUEST") \/ Without(from, "STATS_REPLY")
  BY DEF UnderWay
<1>2. UnderWay(to, << >>, p, x, s)
  BY <1>1, EmptyQueue DEF UnderWay
<1>3. ASSUME NEW m \in Messages, m.type # "STATS_REQUEST"
      PROVE  UnderWay(Append(to, m), from, p, x, s)
  <2>1. /\ Own(Append(to, m), "STATS_REQUEST", x, s) /\ AtMostOne(Append(to, m), "STATS_REQUEST")
        /\ Without(to, "STATS_REQUEST") => Without(Append(to, m), "STATS_REQUEST")
    BY <1>1, <1>3, QueueAppended
  <2>2. QED
    BY <1>1, <2>1 DEF UnderWay
<1>4. ASSUME NEW m \in Messages, m.type # "STATS_REPLY"
      PROVE  UnderWay(to, Append(from, m), p, x, s)
  <2>1. /\ Own(Append(from, m), "STATS_REPLY", x, s) /\ Ends(Append(from, m))
        /\ AllMore(from) => AllMore(Append(from, m))
        /\ Without(from, "STATS_REPLY") => Without(Append(from, m), "STATS_REPLY")
    BY <1>1, <1>4, QueueAppended
  <2>2. QED
    BY <1>1, <2>1 DEF UnderWay
<1>5. ASSUME from # << >>
      PROVE  /\ UnderWay(to, Tail(from), p, x, s)
             /\ Head(from).type = "STATS_REPLY" => /\ Head(from).xid = x /\ Head(from).for = s
                                                   /\ ~ Head(from).more => Quiet(to, Tail(from), p)
  <2> DEFINE h == Head(from)
             r == Tail(from)
  <2>1. /\ Own(r, "STATS_REPLY", x, s) /\ Ends(r)
        /\ AllMore(from) => AllMore(r) /\ (h.type = "STATS_REPLY" => h.more)
        /\ Without(from, "STATS_REPLY") => Without(r, "STATS_REPLY") /\ h.type # "STATS_REPLY"
        /\ h.type = "STATS_REPLY" => h.xid = x /\ h.for = s
        /\ h.type = "STATS_REPLY" /\ ~ h.more => Without(r, "STATS_REPLY")
    BY <1>1, <1>5, QueueTaken
  <2> HIDE DEF h, r
  <2>2. UnderWay(to, r, p, x, s)
    BY <1>1, <2>1 DEF UnderWay
  <2>3. h.type = "STATS_REPLY" /\ ~ h.more => Quiet(to, r, p)
    BY <1>1, <2>1 DEF Quiet
  <2>4. QED
    BY <2>1, <2>2, <2>3 DEF h, r
<1>6. QED
  BY <1>2, <1>3, <1>4, <1>5

(* The switch receives a message, and answers the request it has received. *)
LEMMA UnderWayAtSwitch ==
  ASSUME NEW to \in Seq(Messages), NEW from \in Seq(Messages), NEW p, NEW x, NEW s,
         UnderWay(to, from, p, x, s)
  PROVE  /\ p = NoReply /\ to # << >> =>
              /\ Head(to).type # "STATS_REQUEST" => UnderWay(Tail(to), from, p, x, s)
              /\ Head(to).type = "STATS_REQUEST" =>
                   \A n : UnderWay(Tail(to), from,
                                   [xid |-> Head(to).xid, left |-> n, for |-> Head(to).for], x, s)
         /\ p # NoReply =>
              \A m \in Messages :
                m.type = "STATS_REPLY" /\ m.xid = p.xid /\ m.for = p.for =>
                  /\ UnderWay(to, Append(from, m), NoReply, x, s)
                  /\ m.more => UnderWay(to, Append(from, m), p, x, s)
<1>1. /\ Own(to, "STATS_REQUEST", x, s) /\ AtMostOne(to, "STATS_REQUEST")
      /\ Own(from, "STATS_REPLY", x, s) /\ Ends(from)
      /\ p # NoReply => /\ p.xid = x /\ p.for = s
                        /\ Without(to, "STATS_REQUEST") /\ AllMore(from)
      /\ Without(to, "STATS_REQUEST") \/ Without(from, "STATS_REPLY")
  BY DEF UnderWay
<1>2. ASSUME p = NoReply, to # << >>
      PROVE  /\ Head(to).type # "STATS_REQUEST" => UnderWay(Tail(to), from, p, x, s)
             /\ Head(to).type = "STATS_REQUEST" =>
                  \A n : UnderWay(Tail(to), from,
                                  [xid |-> Head(to).xid, left |-> n, for |-> Head(to).for], x, s)
  <2> DEFINE h == Head(to)
             r == Tail(to)
  <2>1. /\ Own(r, "STATS_REQUEST", x, s) /\ AtMostOne(r, "STATS_REQUEST")
        /\ Without(to, "STATS_REQUEST") => Without(r, "STATS_REQUEST") /\ h.type # "STATS_REQUEST"
        /\ h.type = "STATS_REQUEST" => h.xid = x /\ h.for = s /\ Without(r, "STATS_REQUEST")
    BY <1>1, <1>2, QueueTaken
  <2>2. Without(from, "STATS_REPLY") => AllMore(from)
    BY DEF Without, AllMore
  <2> HIDE DEF h, r
  <2>3. h.type # "STATS_REQUEST" => UnderWay(r, from, p, x, s)
    BY <1>1, <1>2, <2>1 DEF UnderWay
  <2>4. ASSUME h.type = "STATS_REQUEST", NEW n
        PROVE  UnderWay(r, from, [xid |-> h.xid, left |-> n, for |-> h.for], x, s)
    BY <1>1, <2>1, <2>2, <2>4 DEF UnderWay
  <2>5. QED
    BY <2>3, <2>4 DEF h, r
<1>3. ASSUME p # NoReply, NEW m \in Messages, m.type = "STATS_REPLY", m.xid = p.xid, m.for = p.for
      PROVE  /\ UnderWay(to, Append(from, m), NoReply, x, s)
             /\ m.more => UnderWay(to, Append(from, m), p, x, s)
  <2>1. /\ Own(Append(from, m), "STATS_REPLY", x, s) /\ Ends(Append(from, m))
        /\ m.more => AllMore(Append(from, m))
    BY <1>1, <1>3, QueueAppended
  <2>2. QED
    BY <1>1, <1>3, <2>1 DEF UnderWay
<1>4. QED
  BY <1>2, <1>3

(* A torn stream stays torn. *)
LEMMA TornStays ==
  ASSUME [Next]_vars, ~ torn'
  PROVE  ~ torn /\ ~ Tear
<1>1. ~ Tear
  BY DEF Tear
<1>2. ASSUME Readable, Consume
      PROVE  torn' = torn
  BY <1>2 DEF Consume
<1>3. ASSUME NEW m, Deliver(m)
      PROVE  torn' = torn
  BY <1>3 DEF Deliver
<1>4. ASSUME AwaitBody \/ FeaturesRequest \/ HandleBuffered \/ StatsRequest \/ ModVlan
      PROVE  torn' = torn
  BY <1>4, Zenon DEF AwaitBody, FeaturesRequest, HandleBuffered, StatsRequest, ModVlan, incoming
<1>5. ASSUME FreeFlows \/ Test \/ Terminate \/ Interrupt \/ Arrive \/ SwitchClose \/ Reset
           \/ UNCHANGED vars
      PROVE  torn' = torn
  BY <1>5, Zenon DEF FreeFlows, Test, Terminate, Interrupt, Arrive, SwitchClose, Reset, vars,
     network, incoming
<1>6. ASSUME PutAside \/ Hello \/ Features \/ StatsReply
      PROVE  torn' = torn
  BY <1>2, <1>6, Zenon DEF PutAside, Hello, Features, StatsReply
<1>7. ASSUME Drain
      PROVE  torn' = torn
  BY <1>2, <1>7, Zenon DEF Drain, network, incoming
<1>8. ASSUME Accept \/ SwitchReceive \/ SwitchReply \/ SwitchAsync
      PROVE  torn' = torn
  BY <1>3, <1>8, Zenon DEF Accept, SwitchReceive, SwitchReply, SwitchAsync, incoming
<1>9. torn' = torn
  BY <1>1, <1>4, <1>5, <1>6, <1>7, <1>8, Zenon DEF Next, Program, Environment
<1>10. QED
  BY <1>1, <1>9

LEMMA SendQuiet ==
  ASSUME TypeOK, NEW m \in Messages, NEW next, Send(m, next), m.type # "STATS_REQUEST",
         NEW from \in Seq(Messages), Quiet(toSwitch, from, pending)
  PROVE  Quiet(toSwitch', from, pending) /\ pc' \in {next, "killed"}
<1>1. toSwitch \in Seq(Messages)
  BY DEF TypeOK
<1>2. Quiet(toSwitch, from, pending) /\ Quiet(Append(toSwitch, m), from, pending)
  BY <1>1, QuietKept
<1>3. toSwitch' \in {toSwitch, Append(toSwitch, m)} /\ pc' \in {next, "killed"}
  BY DEF Send
<1>4. QED
  BY <1>2, <1>3

LEMMA HandleQuiet ==
  ASSUME TypeOK, NEW type, NEW next, Handle(type, next),
         NEW from \in Seq(Messages), Quiet(toSwitch, from, pending)
  PROVE  Quiet(toSwitch', from, pending) /\ pc' \in {next, "killed"}
<1>1. \A for \in {0, NoRequest} : /\ MessageFor("ECHO_REPLY", 0, for) \in Messages
                                   /\ MessageFor("ECHO_REPLY", 0, for).type # "STATS_REQUEST"
  BY OpenFlowAssumption DEF MessageFor, Messages, Kinds, NoRequest
<1>2. \/ \E for \in {0, NoRequest} : Send(MessageFor("ECHO_REPLY", 0, for), next)
      \/ pc' = next /\ UNCHANGED toSwitch
  BY DEF Handle, Answer
<1>3. QED
  BY <1>1, <1>2, SendQuiet

LEMMA RequestsStep ==
  ASSUME TypeOK, RequestsFollowed, NoneAside, [Next]_vars
  PROVE  RequestsFollowed' /\ NoneAside'
<1> DEFINE Over == {"overran_buffer", "overran_messages", "overran_flows", "corrupt", "killed"}
           Goal == /\ pc' \in Between => Quiet(toSwitch', fromSwitch', pending')
                   /\ pc' = "stats"
                        => UnderWay(toSwitch', fromSwitch', pending', awaited', serial')
                   /\ NoneOf(msg_buffer', "STATS_REPLY")
<1> SUFFICES ASSUME ~ torn'
             PROVE  Goal
  BY Zenon DEF RequestsFollowed, NoneAside, NoneOf, Quiet, UnderWay, Without, Own, AtMostOne, Ends,
       AllMore
<1>1. /\ fromSwitch \in Seq(Messages) /\ toSwitch \in Seq(Messages)
      /\ msg_buffer \in Seq(Kinds \cup {"UNSET"})
      /\ transaction_id \in 0 .. XID - 1 /\ 0 \in 0 .. XID - 1
      /\ "stats" \notin Between /\ \A end \in Over : end \notin Between /\ end # "stats"
  BY OpenFlowAssumption DEF TypeOK, Between
<1>22. ~ torn /\ ~ Tear
  BY TornStays
<1>2. /\ pc \in Between => Quiet(toSwitch, fromSwitch, pending)
      /\ pc = "stats" => UnderWay(toSwitch, fromSwitch, pending, awaited, serial)
      /\ NoneOf(msg_buffer, "STATS_REPLY")
  BY <1>22 DEF RequestsFollowed, NoneAside
<1>3. ASSUME UNCHANGED <<toSwitch, fromSwitch, pending, awaited, serial, msg_buffer>>,
             pc' \in Between => pc \in Between, pc' = "stats" => pc = "stats"
      PROVE  Goal
  BY <1>2, <1>3
<1>4. ASSUME \/ AwaitBody \/ FreeFlows \/ Test \/ Terminate \/ Interrupt \/ Arrive
             \/ SwitchClose \/ UNCHANGED vars
      PROVE  Goal
  <2>1. UNCHANGED <<toSwitch, fromSwitch, pending, awaited, serial, msg_buffer>>
    BY <1>4, <1>22, Zenon DEF AwaitBody, FreeFlows, Test, Terminate, Interrupt, Arrive, SwitchClose,
         vars, conn, network, incoming, switch
  <2>2. (pc' \in Between => pc \in Between) /\ (pc' = "stats" => pc = "stats")
    BY <1>4 DEF AwaitBody, FreeFlows, Test, Terminate, Interrupt, Arrive, SwitchClose,
         vars, Loop, Between
  <2>3. QED
    BY <1>3, <2>1, <2>2
<1>5. ASSUME Readable, Consume
      PROVE  fromSwitch # << >> /\ fromSwitch' = Tail(fromSwitch)
             /\ fromSwitch' \in Seq(Messages) /\ Head(fromSwitch) \in Messages
  BY <1>5, <1>22, ConsumeDoes
<1>6. ASSUME pc \in Between, pc' \in Between \cup Over,
             Quiet(toSwitch', fromSwitch', pending'), NoneOf(msg_buffer', "STATS_REPLY")
      PROVE  Goal
  BY <1>1, <1>6
<1>7. ASSUME Accept
      PROVE  Goal
  <2>1. Message("HELLO", 0) \in Messages /\ Message("HELLO", 0).type # "STATS_REPLY"
    BY <1>1 DEF Message, MessageFor, Messages, Kinds
  <2>2. /\ pc = "accept" /\ pc' = "hello" /\ Deliver(Message("HELLO", 0))
        /\ UNCHANGED <<toSwitch, pending, msg_buffer>>
    BY <1>7 DEF Accept, switch
  <2>3. Quiet(toSwitch, Append(fromSwitch, Message("HELLO", 0)), pending)
    BY <1>1, <1>2, <2>1, <2>2, QuietKept DEF Between
  <2>4. QED
    BY <1>2, <1>6, <1>22, <2>2, <2>3 DEF Deliver, Between
<1>8. ASSUME Hello
      PROVE  Goal
  <2> DEFINE m == Message("HELLO", transaction_id)
  <2>1. m \in Messages /\ m.type # "STATS_REQUEST"
    BY <1>1 DEF Message, MessageFor, Messages, Kinds
  <2>2. /\ pc = "hello" /\ Readable /\ Consume /\ Send(m, "ask")
        /\ UNCHANGED <<pending, msg_buffer>>
    BY <1>8 DEF Hello, switch
  <2> HIDE DEF m
  <2>3. Quiet(toSwitch, fromSwitch', pending)
    BY <1>1, <1>2, <1>5, <2>2, QuietKept DEF Between
  <2>4. Quiet(toSwitch', fromSwitch', pending) /\ pc' \in {"ask", "killed"}
    BY <1>5, <2>1, <2>2, <2>3, SendQuiet
  <2>5. QED
    BY <1>2, <1>6, <2>2, <2>4 DEF Between
<1>9. ASSUME Features
      PROVE  Goal
  <2>1. /\ pc = "features" /\ Readable /\ Consume /\ pc' \in {"control", "terminate"}
        /\ UNCHANGED <<pending, msg_buffer, toSwitch>>
    BY <1>9, <1>22 DEF Features, Loop, conn, switch
  <2>2. Quiet(toSwitch, fromSwitch', pending)
    BY <1>1, <1>2, <1>5, <2>1, QuietKept DEF Between
  <2>3. QED
    BY <1>2, <1>6, <2>1, <2>2 DEF Between
<1>10. ASSUME FeaturesRequest
       PROVE  Goal
  <2> DEFINE m == Message("FEATURES_REQUEST", transaction_id)
  <2>1. m \in Messages /\ m.type # "STATS_REQUEST"
    BY <1>1 DEF Message, MessageFor, Messages, Kinds
  <2>2. pc = "ask" /\ Send(m, "features") /\ UNCHANGED <<fromSwitch, pending, msg_buffer>>
    BY <1>10 DEF FeaturesRequest, incoming, switch
  <2> HIDE DEF m
  <2>3. Quiet(toSwitch', fromSwitch, pending) /\ pc' \in {"features", "killed"}
    BY <1>1, <1>2, <2>1, <2>2, SendQuiet DEF Between
  <2>4. QED
    BY <1>2, <1>6, <2>2, <2>3 DEF Between
<1>11. ASSUME ModVlan
       PROVE  Goal
  <2> DEFINE m == Message("FLOW_MOD", transaction_id)
  <2>1. m \in Messages /\ m.type # "STATS_REQUEST"
    BY <1>1 DEF Message, MessageFor, Messages, Kinds
  <2>2. pc = "migrate" /\ Send(m, "migrate") /\ UNCHANGED <<fromSwitch, pending, msg_buffer>>
    BY <1>11 DEF ModVlan, incoming, switch
  <2> HIDE DEF m
  <2>3. Quiet(toSwitch', fromSwitch, pending) /\ pc' \in {"migrate", "killed"}
    BY <1>1, <1>2, <2>1, <2>2, SendQuiet DEF Between
  <2>4. QED
    BY <1>2, <1>6, <2>2, <2>3 DEF Between
<1>12. ASSUME HandleBuffered
       PROVE  Goal
  <2>1. pc = "control" /\ UNCHANGED <<fromSwitch, pending>>
    BY <1>12 DEF HandleBuffered, incoming, switch
  <2>2. NoneOf(msg_buffer', "STATS_REPLY")
    <3>1. \/ msg_buffer' = msg_buffer
          \/ msg_buffer # << >> /\ msg_buffer' = Tail(msg_buffer)
      BY <1>12 DEF HandleBuffered
    <3>2. msg_buffer # << >> => NoneOf(Tail(msg_buffer), "STATS_REPLY")
      BY <1>1, <1>2, NoneOfKept
    <3>3. QED
      BY <1>2, <3>1, <3>2
  <2>3. Quiet(toSwitch', fromSwitch, pending) /\ pc' \in {"control", "drain", "killed", "corrupt"}
    <3>1. \/ Handle(Head(msg_buffer), "control")
          \/ pc' \in {"control", "drain", "corrupt"} /\ UNCHANGED toSwitch
      BY <1>12 DEF HandleBuffered
    <3>2. QED
      BY <1>1, <1>2, <2>1, <3>1, HandleQuiet DEF Between
  <2>4. QED
    BY <1>6, <2>1, <2>2, <2>3 DEF Between
<1>13. ASSUME Drain
       PROVE  Goal
  <2>1. pc = "drain" /\ UNCHANGED <<msg_buffer, pending>>
    BY <1>13 DEF Drain, switch
  <2>2. \/ Readable /\ Consume /\ Handle(Head(fromSwitch).type, "drain")
        \/ pc' = "request" /\ UNCHANGED <<toSwitch, fromSwitch>>
    BY <1>13 DEF Drain, network, incoming
  <2>3. CASE Readable /\ Consume /\ Handle(Head(fromSwitch).type, "drain")
    <3>1. Quiet(toSwitch, fromSwitch', pending)
      BY <1>1, <1>2, <1>5, <2>1, <2>3, QuietKept DEF Between
    <3>2. Quiet(toSwitch', fromSwitch', pending) /\ pc' \in {"drain", "killed"}
      BY <1>5, <2>3, <3>1, HandleQuiet
    <3>3. QED
      BY <1>2, <1>6, <2>1, <3>2 DEF Between
  <2>4. CASE pc' = "request" /\ UNCHANGED <<toSwitch, fromSwitch>>
    BY <1>2, <1>6, <2>1, <2>4 DEF Between
  <2>5. QED
    BY <2>2, <2>3, <2>4
<1>14. ASSUME PutAside
       PROVE  Goal
  <2> DEFINE h == Head(fromSwitch)
  <2>1. /\ pc \in {"hello", "features", "stats"} /\ Readable /\ Consume
        /\ ~ Matches(TypeAwaited)
        /\ UNCHANGED <<awaited, serial, toSwitch, pending>>
        /\ \/ msg_buffer' = Append(msg_buffer, h.type) /\ UNCHANGED pc
           \/ pc' = "overran_buffer" /\ UNCHANGED msg_buffer
    BY <1>14, <1>22 DEF PutAside, Unwanted, Aside, switch
  <2>2. /\ pc # "stats" => Quiet(toSwitch, fromSwitch', pending) /\ h.type # "STATS_REPLY"
        /\ pc = "stats" => /\ UnderWay(toSwitch, fromSwitch', pending, awaited, serial)
                           /\ h.type = "STATS_REPLY" => h.xid = awaited
    <3>1. /\ fromSwitch # << >> /\ fromSwitch' = Tail(fromSwitch)
          /\ pc # "stats" => pc \in Between
      BY <1>5, <2>1 DEF Between
    <3>2. pc # "stats" => Quiet(toSwitch, Tail(fromSwitch), pending) /\ h.type # "STATS_REPLY"
      BY <1>1, <1>2, <3>1, QuietKept
    <3>3. pc = "stats" => /\ UnderWay(toSwitch, Tail(fromSwitch), pending, awaited, serial)
                          /\ h.type = "STATS_REPLY" => h.xid = awaited
      BY <1>1, <1>2, <3>1, UnderWayKept
    <3>4. QED
      BY <3>1, <3>2, <3>3
  <2>3. h.type # "STATS_REPLY"
    BY <2>1, <2>2 DEF Matches, TypeAwaited
  <2>4. h.type \in Kinds \cup {"UNSET"}
    BY <1>5, <2>1 DEF Messages
  <2> HIDE DEF h
  <2>5. NoneOf(Append(msg_buffer, h.type), "STATS_REPLY")
    BY <1>1, <1>2, <2>3, <2>4, NoneOfKept
  <2>6. NoneOf(msg_buffer', "STATS_REPLY")
    BY <1>2, <2>1, <2>5
  <2>7. QED
    BY <1>1, <2>1, <2>2, <2>6 DEF Between
<1>15. ASSUME StatsRequest
       PROVE  Goal
  <2>1. pc = "request" /\ UNCHANGED <<fromSwitch, pending, msg_buffer>>
    BY <1>15 DEF StatsRequest, incoming, switch
  <2>2. CASE WriteFails
    <3>1. pc' \in {"request", "migrate"} /\ UNCHANGED toSwitch
      BY <1>15, <2>2 DEF StatsRequest, AfterCall
    <3>2. QED
      BY <1>2, <1>6, <2>1, <3>1 DEF Between
  <2>3. CASE ~ WriteFails
    <3> DEFINE m == MessageFor("STATS_REQUEST", transaction_id, serial')
    <3>1. /\ awaited' = transaction_id /\ serial' = (serial + 1) % 3 /\ Send(m, "stats")
      BY <1>15, <2>3 DEF StatsRequest
    <3>2. serial' \in 0 .. 2
      <4>1. serial \in 0 .. 2
        BY DEF TypeOK
      <4>2. (serial + 1) % 3 \in 0 .. 2
        BY <4>1, ModRange
      <4>3. QED
        BY <3>1, <4>2
    <3>3. m \in Messages /\ m.type = "STATS_REQUEST" /\ m.xid = awaited' /\ m.for = serial'
      <4>1. serial' \in 0 .. 3 /\ "STATS_REQUEST" \in Kinds
        BY <3>2 DEF Kinds
      <4>2. QED
        BY <1>1, <3>1, <4>1, MessageForIs
    <3> HIDE DEF m
    <3>4. /\ UnderWay(toSwitch, fromSwitch, pending, awaited', serial')
          /\ UnderWay(Append(toSwitch, m), fromSwitch, pending, awaited', serial')
      BY <1>1, <1>2, <2>1, <3>3, RequestSent DEF Between
    <3>5. toSwitch' \in {toSwitch, Append(toSwitch, m)} /\ pc' \in {"stats", "killed"}
      BY <3>1 DEF Send
    <3>6. QED
      BY <1>1, <1>2, <2>1, <3>4, <3>5
  <2>4. QED
    BY <2>2, <2>3
<1>16. ASSUME StatsReply
       PROVE  Goal
  <2> DEFINE h == Head(fromSwitch)
  <2>1. /\ pc = "stats" /\ Readable /\ Consume /\ h.type = "STATS_REPLY"
        /\ UNCHANGED <<awaited, serial, toSwitch, pending, msg_buffer>>
        /\ \/ h.more /\ pc' \in {"stats", "overran_messages"}
           \/ ~ h.more /\ pc' \in {"request", "migrate", "overran_flows"}
    <3>1. pc = "stats" /\ Readable /\ Consume /\ UNCHANGED <<awaited, serial, toSwitch, pending, msg_buffer>>
      BY <1>16 DEF StatsReply, switch
    <3>2. h.type = "STATS_REPLY"
      BY <1>16, <1>22 DEF StatsReply, Wanted, Matches
    <3>3. \/ h.more /\ pc' \in {"stats", "overran_messages"}
          \/ ~ h.more /\ pc' \in {"request", "migrate", "overran_flows"}
      BY <1>16, <1>22 DEF StatsReply, Last, AfterCall
    <3>4. QED
      BY <3>1, <3>2, <3>3
  <2>2. /\ UnderWay(toSwitch, fromSwitch', pending, awaited, serial)
        /\ ~ h.more => Quiet(toSwitch, fromSwitch', pending)
    <3>1. fromSwitch # << >> /\ fromSwitch' = Tail(fromSwitch)
          /\ UnderWay(toSwitch, fromSwitch, pending, awaited, serial)
      BY <1>2, <1>5, <2>1
    <3>2. /\ UnderWay(toSwitch, Tail(fromSwitch), pending, awaited, serial)
          /\ ~ h.more => Quiet(toSwitch, Tail(fromSwitch), pending)
      BY <1>1, <2>1, <3>1, UnderWayKept
    <3>3. QED
      BY <3>1, <3>2
  <2> HIDE DEF h
  <2>3. QED
    BY <1>1, <1>2, <2>1, <2>2 DEF Between
<1>17. ASSUME SwitchReceive
       PROVE  Goal
  <2> DEFINE h == Head(toSwitch)
             rest == Tail(toSwitch)
             m == Message("FEATURES_REPLY", h.xid)
             Taking(n) == [xid |-> h.xid, left |-> n, for |-> h.for]
  <2>1. /\ toSwitch # << >> /\ toSwitch' = rest /\ pending = NoReply
        /\ UNCHANGED <<pc, awaited, serial, msg_buffer>>
    BY <1>17 DEF SwitchReceive, conn
  <2>2. \/ h.type = "STATS_REQUEST" /\ UNCHANGED fromSwitch /\ \E n \in 1 .. MaxParts : pending' = Taking(n)
        \/ h.type # "STATS_REQUEST" /\ UNCHANGED pending /\ fromSwitch' = Append(fromSwitch, m)
        \/ h.type # "STATS_REQUEST" /\ UNCHANGED <<pending, fromSwitch>>
    BY <1>17, <1>22 DEF SwitchReceive, Deliver, incoming
  <2>3. rest \in Seq(Messages) /\ h \in Messages
    BY <1>1, <2>1, Taken
  <2>4. m \in Messages /\ m.type # "STATS_REPLY"
    BY <2>3 DEF Message, MessageFor, Messages, Kinds
  <2> HIDE DEF m, rest
  <2>5. pc \in Between => /\ h.type # "STATS_REQUEST"
                          /\ Quiet(rest, fromSwitch, pending)
                          /\ Quiet(rest, Append(fromSwitch, m), pending)
    BY <1>1, <1>2, <2>1, <2>3, <2>4, QuietKept DEF rest
  <2>6. pc = "stats" =>
          /\ h.type # "STATS_REQUEST" => /\ UnderWay(rest, fromSwitch, pending, awaited, serial)
                                         /\ UnderWay(rest, Append(fromSwitch, m), pending, awaited, serial)
          /\ h.type = "STATS_REQUEST" =>
               \A n : UnderWay(rest, fromSwitch, Taking(n), awaited, serial)
    <3> SUFFICES ASSUME pc = "stats"
                 PROVE  /\ h.type # "STATS_REQUEST" => /\ UnderWay(rest, fromSwitch, pending, awaited, serial)
                                                       /\ UnderWay(rest, Append(fromSwitch, m), pending, awaited, serial)
                        /\ h.type = "STATS_REQUEST" =>
                             \A n : UnderWay(rest, fromSwitch, Taking(n), awaited, serial)
      OBVIOUS
    <3>1. /\ h.type # "STATS_REQUEST" => UnderWay(rest, fromSwitch, pending, awaited, serial)
          /\ h.type = "STATS_REQUEST" =>
               \A n : UnderWay(rest, fromSwitch, Taking(n), awaited, serial)
      BY <1>1, <1>2, <2>1, UnderWayAtSwitch DEF rest
    <3>2. h.type # "STATS_REQUEST" => UnderWay(rest, Append(fromSwitch, m), pending, awaited, serial)
      BY <1>1, <2>3, <2>4, <3>1, UnderWayKept
    <3>3. QED
      BY <3>1, <3>2
  <2> HIDE DEF h, Taking
  <2>7. QED
    BY <1>2, <2>1, <2>2, <2>5, <2>6
<1>18. ASSUME SwitchReply
       PROVE  Goal
  <2> DEFINE m == [type |-> "STATS_REPLY", xid |-> pending.xid,
                   more |-> pending.left > 1, for |-> pending.for]
             q == [pending EXCEPT !.left = @ - 1]
  <2>1. /\ m \in Messages /\ m.type = "STATS_REPLY" /\ m.xid = pending.xid /\ m.for = pending.for
        /\ m.more <=> pending.left > 1
    <3>1. m \in Messages
      BY DEF TypeOK, Messages, Kinds
    <3>2. m.type = "STATS_REPLY" /\ m.xid = pending.xid /\ m.for = pending.for
      OBVIOUS
    <3>3. m.more <=> pending.left > 1
      BY Zenon
    <3>4. QED
      BY <3>1, <3>2, <3>3, Zenon
  <2>2. /\ pending # NoReply /\ fromSwitch' = Append(fromSwitch, m)
        /\ UNCHANGED <<pc, awaited, serial, msg_buffer, toSwitch>>
        /\ pending' = IF pending.left > 1 THEN q ELSE NoReply
    BY <1>18, <1>22 DEF SwitchReply, conn, Deliver
  <2>3. q.xid = pending.xid /\ q.for = pending.for
    BY DEF TypeOK
  <2> HIDE DEF m, q
  <2>4. pc \notin Between
    BY <1>2, <2>2 DEF Quiet
  <2>5. pc = "stats" => /\ UnderWay(toSwitch, Append(fromSwitch, m), NoReply, awaited, serial)
                        /\ m.more => UnderWay(toSwitch, Append(fromSwitch, m), pending, awaited, serial)
    BY <1>1, <1>2, <2>1, <2>2, UnderWayAtSwitch
  <2>6. pc = "stats" /\ m.more => UnderWay(toSwitch, Append(fromSwitch, m), q, awaited, serial)
    BY <2>2, <2>3, <2>5 DEF UnderWay
  <2>7. QED
    BY <1>2, <2>1, <2>2, <2>4, <2>5, <2>6
<1>19. ASSUME SwitchAsync
       PROVE  Goal
  <2>1. /\ Message("ECHO_REQUEST", 0) \in Messages /\ Message("PACKET_IN", 0) \in Messages
        /\ Message("ECHO_REQUEST", 0).type # "STATS_REPLY"
        /\ Message("PACKET_IN", 0).type # "STATS_REPLY"
    BY <1>1 DEF Message, MessageFor, Messages, Kinds
  <2>2. PICK m \in Messages : m.type # "STATS_REPLY" /\ fromSwitch' = Append(fromSwitch, m)
    BY <1>19, <1>22, <2>1 DEF SwitchAsync, Deliver
  <2>3. UNCHANGED <<pc, awaited, serial, msg_buffer, toSwitch, pending>>
    BY <1>19 DEF SwitchAsync, conn
  <2>4. /\ pc \in Between => Quiet(toSwitch, Append(fromSwitch, m), pending)
        /\ pc = "stats" => UnderWay(toSwitch, Append(fromSwitch, m), pending, awaited, serial)
    BY <1>1, <1>2, <2>2, QuietKept, UnderWayKept
  <2>5. QED
    BY <1>2, <2>2, <2>3, <2>4
<1>20. ASSUME Reset
       PROVE  Goal
  <2>1. fromSwitch' = << >> /\ UNCHANGED <<pc, awaited, serial, msg_buffer, toSwitch, pending>>
    BY <1>20 DEF Reset, conn, switch
  <2>2. /\ pc \in Between => Quiet(toSwitch, << >>, pending)
        /\ pc = "stats" => UnderWay(toSwitch, << >>, pending, awaited, serial)
    BY <1>1, <1>2, QuietKept, UnderWayKept
  <2>3. QED
    BY <1>2, <2>1, <2>2
<1>21. QED
  BY <1>4, <1>7, <1>8, <1>9, <1>10, <1>11, <1>12, <1>13, <1>14, <1>15, <1>16, <1>17, <1>18,
     <1>19, <1>20, <1>22, Zenon DEF Next, Program, Environment
-----------------------------------------------------------------------------
(***************************************************************************)
(* Type correctness.                                                       *)
(***************************************************************************)
LEMMA ArgumentsOK ==
  ASSUME TypeOK
  PROVE  /\ NextXid \in 0 .. XID - 1 /\ 0 \in 0 .. XID - 1
         /\ (serial + 1) % 3 \in 0 .. 2
         /\ \A type \in Kinds : /\ Message(type, 0) \in Messages
                                /\ Message(type, transaction_id) \in Messages
<1>1. NextXid \in 0 .. XID - 1 /\ 0 \in 0 .. XID - 1
  <2>1. XID \in Nat \ {0} /\ transaction_id + 1 \in Int /\ 0 \in 0 .. XID - 1
    BY OpenFlowAssumption DEF TypeOK
  <2>2. (transaction_id + 1) % XID \in 0 .. XID - 1
    BY <2>1, ModRange
  <2>3. QED
    BY <2>1, <2>2 DEF NextXid
<1>2. (serial + 1) % 3 \in 0 .. 2
  BY ModRange DEF TypeOK
<1>3. \A type \in Kinds : /\ Message(type, 0) \in Messages
                          /\ Message(type, transaction_id) \in Messages
  BY <1>1, MessageIs DEF TypeOK
<1>4. QED
  BY <1>1, <1>2, <1>3

PlainOK ==
  /\ pc' \in {"accept", "hello", "ask", "features", "control", "drain", "request", "stats",
              "migrate", "test", "terminate", "done", "exited", "killed", "aborted",
              "overran_buffer", "overran_messages", "overran_flows", "corrupt"}
  /\ transaction_id' \in 0 .. XID - 1 /\ awaited' \in 0 .. XID - 1
  /\ call' \in {1, 2} /\ serial' \in 0 .. 2
  /\ nb_flows' \in 0 .. MaxFlows /\ nb_actions' \in [FlowIndex -> Nat]
  /\ nb_mods' \in 0 .. MaxMods
  /\ looping' \in BOOLEAN /\ ports' \in BOOLEAN
  /\ torn' \in BOOLEAN /\ body' \in BOOLEAN
  /\ link' \in {"none", "open", "closed", "poked", "reset"}
  /\ async' \in 0 .. MaxAsync

QueuesOK ==
  /\ parts' \in Seq(0 .. 3)
  /\ msg_buffer' \in Seq(Kinds \cup {"UNSET"})
  /\ toSwitch' \in Seq(Messages) /\ fromSwitch' \in Seq(Messages)
  /\ front' \in {"part", "header", "full"}
  /\ pending' \in [xid : 0 .. XID - 1, left : 0 .. MaxParts, for : 0 .. 3]

LEMMA PlainStep ==
  ASSUME TypeOK, [Next]_vars
  PROVE  PlainOK
<1>1. NextXid \in 0 .. XID - 1 /\ 0 \in 0 .. XID - 1 /\ (serial + 1) % 3 \in 0 .. 2
  BY ArgumentsOK
<1>2. MaxFlows \in Nat /\ MaxMods \in Nat /\ MaxAsync \in Nat /\ ActionsPerFlow \in Nat
  BY OpenFlowAssumption
<1>3. CASE \/ Tear \/ AwaitBody \/ Test \/ Terminate \/ Interrupt \/ Arrive \/ SwitchClose
           \/ UNCHANGED vars
  <2>1. UNCHANGED <<transaction_id, awaited, call, serial, nb_flows, nb_actions, nb_mods, ports,
                    async>>
    BY <1>3, Zenon DEF Tear, AwaitBody, Test, Terminate, Interrupt, Arrive, SwitchClose, vars,
       conn, flows, session, switch
  <2>2. torn' \in BOOLEAN /\ body' \in BOOLEAN /\ looping' \in BOOLEAN
    <3>1. torn' = torn \/ torn' = TRUE
      BY <1>3, Zenon DEF Tear, AwaitBody, Test, Terminate, Interrupt, Arrive, SwitchClose, vars,
         network, incoming
    <3>2. body' = body \/ body' = TRUE
      BY <1>3, Zenon DEF Tear, AwaitBody, Test, Terminate, Interrupt, Arrive, SwitchClose, vars,
         network, incoming
    <3>3. looping' = looping \/ looping' = FALSE
      BY <1>3, Zenon DEF Tear, AwaitBody, Test, Terminate, Interrupt, Arrive, SwitchClose, vars,
         session
    <3>4. QED
      BY <3>1, <3>2, <3>3, Zenon DEF TypeOK
  <2>3. /\ pc' \in {pc, "control", "terminate", "done", "aborted", "exited"}
        /\ link' \in {link, "closed"}
    <3>1. CASE Tear \/ AwaitBody \/ Arrive \/ SwitchClose
      BY <3>1 DEF Tear, AwaitBody, Arrive, SwitchClose
    <3>2. CASE Test \/ Terminate
      BY <3>2 DEF Test, Loop, Terminate, network
    <3>3. CASE Interrupt \/ UNCHANGED vars
      BY <3>3 DEF Interrupt, vars, network
    <3>4. QED
      BY <1>3, <3>1, <3>2, <3>3
  <2>4. QED
    BY <2>1, <2>2, <2>3 DEF TypeOK, PlainOK
<1>6. CASE FreeFlows
  BY <1>2, <1>6 DEF TypeOK, PlainOK, FreeFlows, conn, session, network, incoming, switch
<1>7. CASE PutAside
  BY <1>7 DEF TypeOK, PlainOK, PutAside, Consume, flows, session, switch
<1>8. CASE Accept
  BY <1>1, <1>8 DEF TypeOK, PlainOK, Accept, Deliver, flows, session, switch
<1>9. CASE Hello
  BY <1>1, <1>9 DEF TypeOK, PlainOK, Hello, Consume, Send, flows, session, switch
<1>10. CASE FeaturesRequest
  BY <1>1, <1>10 DEF TypeOK, PlainOK, FeaturesRequest, Send, flows, session, incoming, switch
<1>11. CASE Features
  BY <1>11 DEF TypeOK, PlainOK, Features, Consume, Loop, conn, flows, switch
<1>12. CASE HandleBuffered
  BY <1>12 DEF TypeOK, PlainOK, HandleBuffered, Handle, Answer, Send, flows, incoming, switch
<1>13. CASE Drain
  <2>1. /\ \/ /\ Handle(Head(fromSwitch).type, "drain") /\ UNCHANGED <<call, flows, nb_mods>>
              /\ body' = FALSE /\ torn' = torn
           \/ /\ pc' = "request" /\ call' = 1 /\ nb_flows' = 0 /\ nb_actions' = Cleared
              /\ nb_mods' = 0 /\ UNCHANGED <<link, torn, body>>
        /\ UNCHANGED <<transaction_id, awaited, serial, looping, ports, async>>
    BY <1>13 DEF Drain, Consume, network, incoming, switch
  <2>2. /\ pc' \in {"drain", "request", "killed"}
        /\ link' \in {"none", "open", "closed", "poked", "reset"}
    BY <2>1 DEF TypeOK, Handle, Answer, Send
  <2>3. Cleared \in [FlowIndex -> Nat]
    BY DEF Cleared
  <2>4. /\ nb_flows' \in 0 .. MaxFlows /\ nb_actions' \in [FlowIndex -> Nat]
        /\ nb_mods' \in 0 .. MaxMods /\ call' \in {1, 2}
    BY <1>2, <2>1, <2>3 DEF TypeOK, flows
  <2>6. torn' \in BOOLEAN /\ body' \in BOOLEAN
    BY <2>1, Zenon DEF TypeOK
  <2>5. QED
    BY <2>1, <2>2, <2>4, <2>6 DEF TypeOK, PlainOK
<1>14. CASE StatsRequest
  BY <1>1, <1>14 DEF TypeOK, PlainOK, StatsRequest, AfterCall, Send, flows, session, incoming, switch
<1>15. CASE StatsReply
  <2>1. /\ pc' \in {"request", "stats", "migrate", "overran_messages", "overran_flows", "corrupt"}
        /\ call' \in {1, 2}
    BY <1>15 DEF TypeOK, StatsReply, AfterCall
  <2>2. nb_flows' \in 0 .. MaxFlows /\ nb_actions' \in [FlowIndex -> Nat]
    <3>1. \/ UNCHANGED flows
          \/ \E n \in 0 .. MaxFlows, k \in ActionsRead : Parse(n, k)
      BY <1>15 DEF StatsReply
    <3>2. ASSUME NEW n \in 0 .. MaxFlows, NEW k \in ActionsRead, Parse(n, k)
          PROVE  nb_flows' \in 0 .. MaxFlows /\ nb_actions' \in [FlowIndex -> Nat]
      <4>1. nb_flows' = n
        BY <3>2 DEF Parse
      <4>2. k \in Nat
        BY OpenFlowAssumption DEF ActionsRead
      <4>3. nb_actions' \in [FlowIndex -> Nat]
        BY <4>2, <3>2 DEF Parse, TypeOK
      <4>4. QED
        BY <4>1, <4>3
    <3>3. QED
      BY <3>1, <3>2 DEF TypeOK, flows
  <2>3. /\ UNCHANGED <<transaction_id, awaited, serial, nb_mods, looping, ports, link, async, torn>>
        /\ body' = FALSE
    BY <1>15 DEF StatsReply, Consume, session, switch
  <2>4. QED
    BY <2>1, <2>2, <2>3 DEF TypeOK, PlainOK
<1>16. CASE ModVlan
  BY <1>1, <1>2, <1>16 DEF TypeOK, PlainOK, ModVlan, Send, flows, session, incoming, switch
<1>17. CASE SwitchReceive
  BY <1>17 DEF TypeOK, PlainOK, SwitchReceive, Deliver, conn, flows, session, incoming
<1>18. CASE SwitchReply
  BY <1>18 DEF TypeOK, PlainOK, SwitchReply, Deliver, conn, flows, session
<1>19. CASE SwitchAsync
  <2>1. async' \in 0 .. MaxAsync
    BY <1>2, <1>19 DEF TypeOK, SwitchAsync
  <2>2. UNCHANGED <<pc, transaction_id, awaited, call, serial, nb_flows, nb_actions, nb_mods,
                    looping, ports, link, torn, body>>
    BY <1>19 DEF SwitchAsync, Deliver, conn, flows, session
  <2>3. QED
    BY <2>1, <2>2 DEF TypeOK, PlainOK
<1>20. CASE Reset
  BY <1>20 DEF TypeOK, PlainOK, Reset, conn, flows, session, switch
<1>21. QED
  BY <1>3, <1>6, <1>7, <1>8, <1>9, <1>10, <1>11, <1>12, <1>13, <1>14, <1>15, <1>16, <1>17,
     <1>18, <1>19, <1>20, Zenon DEF Next, Program, Environment

LEMMA HandleTyped ==
  ASSUME TypeOK, NEW type, NEW next, Handle(type, next)
  PROVE  toSwitch' \in Seq(Messages)
<1>1. \A for \in {0, NoRequest} : MessageFor("ECHO_REPLY", 0, for) \in Messages
  BY OpenFlowAssumption DEF MessageFor, Messages, Kinds, NoRequest
<1>2. \/ \E for \in {0, NoRequest} : Send(MessageFor("ECHO_REPLY", 0, for), next)
      \/ UNCHANGED toSwitch
  BY DEF Handle, Answer
<1>3. QED
  BY <1>1, <1>2, SendDoes DEF TypeOK

LEMMA QueuesStep ==
  ASSUME TypeOK, [Next]_vars
  PROVE  QueuesOK
<1>1. /\ parts \in Seq(0 .. 3)
      /\ msg_buffer \in Seq(Kinds \cup {"UNSET"})
      /\ toSwitch \in Seq(Messages) /\ fromSwitch \in Seq(Messages)
      /\ front \in {"part", "header", "full"}
      /\ pending \in [xid : 0 .. XID - 1, left : 0 .. MaxParts, for : 0 .. 3]
  BY DEF TypeOK
<1>2. /\ \A type \in {"HELLO", "FEATURES_REQUEST", "FLOW_MOD"} : Message(type, transaction_id) \in Messages
      /\ \A type \in {"HELLO", "ECHO_REQUEST", "PACKET_IN"} : Message(type, 0) \in Messages
  BY ArgumentsOK DEF Kinds
<1>3. CASE \/ FreeFlows \/ Test \/ Terminate \/ Interrupt \/ SwitchClose
           \/ UNCHANGED vars
  BY <1>1, <1>3, Zenon DEF QueuesOK, FreeFlows, Test, Terminate, Interrupt, SwitchClose,
     vars, conn, network, incoming, switch
<1>4. CASE Tear \/ AwaitBody \/ Arrive \/ Reset
  <2>1. /\ fromSwitch' \in {fromSwitch, << >>, Pieces(MaxPieces)}
        /\ front' \in {"part", "header", "full"}
        /\ UNCHANGED <<parts, msg_buffer, toSwitch, pending>>
    BY <1>1, <1>4 DEF Tear, AwaitBody, Arrive, Reset, conn, switch
  <2>2. << >> \in Seq(Messages) /\ Pieces(MaxPieces) \in Seq(Messages)
    BY PiecesAre, OpenFlowAssumption
  <2>3. QED
    BY <1>1, <2>1, <2>2 DEF QueuesOK
<1>5. CASE PutAside
  <2>1. /\ Readable /\ Consume /\ UNCHANGED <<parts, toSwitch, pending>>
        /\ msg_buffer' \in {msg_buffer, Append(msg_buffer, Head(fromSwitch).type)}
    BY <1>5 DEF PutAside, Aside, switch
  <2>2. /\ fromSwitch' \in Seq(Messages) /\ front' \in {"part", "header", "full"}
        /\ Head(fromSwitch) \in Messages
    BY <2>1, ConsumeDoes
  <2>3. Head(fromSwitch).type \in Kinds \cup {"UNSET"}
    BY <2>2 DEF Messages
  <2>4. Append(msg_buffer, Head(fromSwitch).type) \in Seq(Kinds \cup {"UNSET"})
    BY <1>1, <2>3, Appended
  <2>5. QED
    BY <1>1, <2>1, <2>2, <2>4 DEF QueuesOK
<1>6. CASE Accept
  <2>1. Deliver(Message("HELLO", 0)) /\ UNCHANGED <<parts, msg_buffer, toSwitch, pending>>
    BY <1>6 DEF Accept, switch
  <2>2. fromSwitch' \in Seq(Messages) /\ front' \in {"part", "header", "full"}
    BY <1>2, <2>1, DeliverDoes
  <2>3. QED
    BY <1>1, <2>1, <2>2 DEF QueuesOK
<1>7. CASE Hello
  <2>1. /\ Readable /\ Consume /\ Send(Message("HELLO", transaction_id), "ask")
        /\ UNCHANGED <<parts, msg_buffer, pending>>
    BY <1>7 DEF Hello, switch
  <2>2. /\ fromSwitch' \in Seq(Messages) /\ front' \in {"part", "header", "full"}
        /\ toSwitch' \in Seq(Messages)
    BY <1>2, <2>1, ConsumeDoes, SendDoes
  <2>3. QED
    BY <1>1, <2>1, <2>2 DEF QueuesOK
<1>8. CASE FeaturesRequest \/ ModVlan
  <2>1. /\ \/ Send(Message("FEATURES_REQUEST", transaction_id), "features")
           \/ Send(Message("FLOW_MOD", transaction_id), "migrate")
        /\ UNCHANGED <<parts, msg_buffer, fromSwitch, front, pending>>
    BY <1>8 DEF FeaturesRequest, ModVlan, incoming, switch
  <2>2. toSwitch' \in Seq(Messages)
    BY <1>2, <2>1, SendDoes
  <2>3. QED
    BY <1>1, <2>1, <2>2 DEF QueuesOK
<1>9. CASE Features
  <2>1. Readable /\ Consume /\ UNCHANGED <<parts, msg_buffer, toSwitch, pending>>
    BY <1>9 DEF Features, conn, switch
  <2>2. fromSwitch' \in Seq(Messages) /\ front' \in {"part", "header", "full"}
    BY <2>1, ConsumeDoes
  <2>3. QED
    BY <1>1, <2>1, <2>2 DEF QueuesOK
<1>10. CASE HandleBuffered
  <2>1. /\ UNCHANGED <<parts, fromSwitch, front, pending>>
        /\ Handle(Head(msg_buffer), "control") \/ UNCHANGED toSwitch
        /\ UNCHANGED msg_buffer \/ (msg_buffer # << >> /\ msg_buffer' = Tail(msg_buffer))
    BY <1>10 DEF HandleBuffered, incoming, switch
  <2>2. toSwitch' \in Seq(Messages)
    BY <1>1, <2>1, HandleTyped
  <2>3. msg_buffer' \in Seq(Kinds \cup {"UNSET"})
    <3>1. msg_buffer # << >> => Tail(msg_buffer) \in Seq(Kinds \cup {"UNSET"})
      BY <1>1, Taken
    <3>2. QED
      BY <1>1, <2>1, <3>1
  <2>4. QED
    BY <1>1, <2>1, <2>2, <2>3 DEF QueuesOK
<1>11. CASE Drain
  <2>1. /\ UNCHANGED <<parts, msg_buffer, pending>>
        /\ \/ Readable /\ Consume /\ Handle(Head(fromSwitch).type, "drain")
           \/ UNCHANGED <<toSwitch, fromSwitch, front>>
    BY <1>11 DEF Drain, network, incoming, switch
  <2>2. CASE Readable /\ Consume /\ Handle(Head(fromSwitch).type, "drain")
    <3>1. /\ fromSwitch' \in Seq(Messages) /\ front' \in {"part", "header", "full"}
          /\ toSwitch' \in Seq(Messages)
      BY <2>2, ConsumeDoes, HandleTyped
    <3>2. QED
      BY <1>1, <2>1, <3>1 DEF QueuesOK
  <2>3. CASE UNCHANGED <<toSwitch, fromSwitch, front>>
    BY <1>1, <2>1, <2>3 DEF QueuesOK
  <2>4. QED
    BY <2>1, <2>2, <2>3
<1>12. CASE StatsRequest
  <2> DEFINE m == MessageFor("STATS_REQUEST", transaction_id, serial')
  <2>1. /\ parts' = << >> /\ UNCHANGED <<msg_buffer, fromSwitch, front, pending>>
        /\ Send(m, "stats") \/ UNCHANGED toSwitch
    BY <1>12 DEF StatsRequest, incoming, switch
  <2>2. serial' \in 0 .. 2
    BY <1>12, PlainStep DEF PlainOK
  <2>3. m \in Messages
    BY <2>2 DEF TypeOK, MessageFor, Messages, Kinds
  <2> HIDE DEF m
  <2>4. toSwitch' \in Seq(Messages)
    BY <1>1, <2>1, <2>3, SendDoes
  <2>5. QED
    BY <1>1, <2>1, <2>4 DEF QueuesOK
<1>13. CASE StatsReply
  <2>1. /\ Readable /\ Consume /\ UNCHANGED <<msg_buffer, toSwitch, pending>>
        /\ parts' = Append(parts, Head(fromSwitch).for)
    BY <1>13 DEF StatsReply, switch
  <2>2. /\ fromSwitch' \in Seq(Messages) /\ front' \in {"part", "header", "full"}
        /\ Head(fromSwitch) \in Messages
    BY <2>1, ConsumeDoes
  <2>3. Head(fromSwitch).for \in 0 .. 3
    BY <2>2 DEF Messages
  <2>4. parts' \in Seq(0 .. 3)
    BY <1>1, <2>1, <2>3, Appended
  <2>5. QED
    BY <1>1, <2>1, <2>2, <2>4 DEF QueuesOK
<1>14. CASE SwitchReceive
  <2> DEFINE h == Head(toSwitch)
  <2>1. /\ toSwitch # << >> /\ toSwitch' = Tail(toSwitch) /\ UNCHANGED <<parts, msg_buffer>>
        /\ \/ UNCHANGED <<fromSwitch, front>>
           \/ Deliver(Message("FEATURES_REPLY", h.xid))
        /\ \/ UNCHANGED pending
           \/ \E n \in 1 .. MaxParts : pending' = [xid |-> h.xid, left |-> n, for |-> h.for]
    BY <1>14 DEF SwitchReceive, conn, incoming
  <2>2. toSwitch' \in Seq(Messages) /\ h \in Messages
    BY <1>1, <2>1, Taken
  <2>3. h.xid \in 0 .. XID - 1 /\ h.for \in 0 .. 3 /\ "FEATURES_REPLY" \in Kinds
    BY <2>2 DEF Messages, Kinds
  <2>4. Message("FEATURES_REPLY", h.xid) \in Messages
    BY <2>3, MessageIs
  <2>5. fromSwitch' \in Seq(Messages) /\ front' \in {"part", "header", "full"}
    BY <1>1, <2>1, <2>4, DeliverDoes
  <2> HIDE DEF h
  <2>6. pending' \in [xid : 0 .. XID - 1, left : 0 .. MaxParts, for : 0 .. 3]
    <3>1. \A n \in 1 .. MaxParts : n \in 0 .. MaxParts
      BY OpenFlowAssumption
    <3>2. QED
      BY <1>1, <2>1, <2>3, <3>1
  <2>7. QED
    BY <1>1, <2>1, <2>2, <2>5, <2>6 DEF QueuesOK
<1>15. CASE SwitchReply
  <2> DEFINE m == [type |-> "STATS_REPLY", xid |-> pending.xid,
                   more |-> pending.left > 1, for |-> pending.for]
             q == [pending EXCEPT !.left = @ - 1]
  <2>1. /\ Deliver(m) /\ UNCHANGED <<parts, msg_buffer, toSwitch>>
        /\ pending' = IF pending.left > 1 THEN q ELSE NoReply
    BY <1>15 DEF SwitchReply, conn
  <2>2. m \in Messages
    BY DEF TypeOK, Messages, Kinds
  <2>3. pending.left > 1 => q \in [xid : 0 .. XID - 1, left : 0 .. MaxParts, for : 0 .. 3]
    <3>1. pending.left \in 0 .. MaxParts /\ MaxParts \in Nat
      BY <1>1, OpenFlowAssumption
    <3>2. pending.left > 1 => pending.left - 1 \in 0 .. MaxParts
      BY <3>1
    <3>3. QED
      BY <1>1, <3>2
  <2>4. NoReply \in [xid : 0 .. XID - 1, left : 0 .. MaxParts, for : 0 .. 3]
    BY OpenFlowAssumption DEF NoReply
  <2> HIDE DEF m, q
  <2>5. fromSwitch' \in Seq(Messages) /\ front' \in {"part", "header", "full"}
    BY <2>1, <2>2, DeliverDoes
  <2>6. QED
    BY <1>1, <2>1, <2>3, <2>4, <2>5 DEF QueuesOK
<1>16. CASE SwitchAsync
  <2>1. /\ Deliver(Message("ECHO_REQUEST", 0)) \/ Deliver(Message("PACKET_IN", 0))
        /\ UNCHANGED <<parts, msg_buffer, toSwitch, pending>>
    BY <1>16 DEF SwitchAsync, conn
  <2>2. fromSwitch' \in Seq(Messages) /\ front' \in {"part", "header", "full"}
    BY <1>2, <2>1, DeliverDoes
  <2>3. QED
    BY <1>1, <2>1, <2>2 DEF QueuesOK
<1>17. QED
  BY <1>3, <1>4, <1>5, <1>6, <1>7, <1>8, <1>9, <1>10, <1>11, <1>12, <1>13, <1>14, <1>15, <1>16,
     Zenon DEF Next, Program, Environment

LEMMA TypeStep ==
  ASSUME TypeOK, EchoesCounted, [Next]_vars
  PROVE  TypeOK'
<1>1. PlainOK /\ QueuesOK /\ EchoesCounted' /\ unanswered' \in Int /\ dropped' \in Nat
  BY PlainStep, QueuesStep, EchoStep
<1>2. /\ Count(fromSwitch', Asked) \in Nat /\ Count(toSwitch', Answered) \in Nat
      /\ Count(msg_buffer', {"ECHO_REQUEST"}) \in Nat
  BY <1>1, CountsAreNat DEF QueuesOK
<1>3. /\ Count(fromSwitch', Asked) + Count(msg_buffer', {"ECHO_REQUEST"})
           + Count(toSwitch', Answered) <= unanswered' - dropped'
      /\ unanswered' <= async'
  BY <1>1, Zenon DEF EchoesCounted, Count, Places
<1>4. unanswered' \in 0 .. MaxAsync /\ dropped' \in 0 .. MaxAsync
  BY <1>1, <1>2, <1>3, OpenFlowAssumption DEF PlainOK
<1>5. QED
  BY <1>1, <1>4, Zenon DEF TypeOK, PlainOK, QueuesOK
-----------------------------------------------------------------------------
(***************************************************************************)
(* What openflow_get_flows takes is of its own request.                    *)
(***************************************************************************)
LEMMA OwnStep ==
  ASSUME TypeOK, RequestsFollowed, ReplyIsOwn, [Next]_vars
  PROVE  ReplyIsOwn'
<1> SUFFICES ASSUME ~ torn'
             PROVE  \A i \in 1 .. Len(parts') : parts'[i] = serial'
  BY Zenon DEF ReplyIsOwn
<1>6. ~ torn /\ ~ Tear
  BY TornStays
<1>1. /\ parts \in Seq(0 .. 3) /\ fromSwitch \in Seq(Messages) /\ toSwitch \in Seq(Messages)
      /\ \A i \in 1 .. Len(parts) : parts[i] = serial
  BY <1>6 DEF TypeOK, ReplyIsOwn
<1>2. CASE StatsRequest
  <2>1. parts' = << >>
    BY <1>2 DEF StatsRequest
  <2>2. QED
    BY <2>1
<1>3. CASE StatsReply
  <2> DEFINE m == Head(fromSwitch)
             n == Len(parts)
  <2>1. /\ pc = "stats" /\ Readable /\ Consume /\ m.type = "STATS_REPLY"
        /\ parts' = Append(parts, m.for) /\ UNCHANGED serial
    BY <1>3, <1>6 DEF StatsReply, Wanted, Matches
  <2>2. fromSwitch # << >> /\ m \in Messages
    BY <2>1, ConsumeDoes
  <2>3. UnderWay(toSwitch, fromSwitch, pending, awaited, serial)
    BY <1>6, <2>1 DEF RequestsFollowed
  <2>4. m.for = serial
    BY <1>1, <2>1, <2>2, <2>3, UnderWayKept
  <2>5. m.for \in 0 .. 3
    BY <2>2 DEF Messages
  <2> HIDE DEF m
  <2>6. /\ n \in Nat /\ Len(parts') = n + 1
        /\ \A i \in 1 .. n : parts'[i] = parts[i]
        /\ parts'[n + 1] = serial
    BY <1>1, <2>1, <2>4, <2>5, Appended
  <2>7. QED
    BY <1>1, <2>1, <2>6
<1>4. CASE ~ (StatsRequest \/ StatsReply)
  <2>1. UNCHANGED <<parts, serial>>
    BY <1>4, <1>6, Zenon DEF Next, Program, Environment, AwaitBody, PutAside, Accept, Hello,
       FeaturesRequest, Features, HandleBuffered, Drain, ModVlan, FreeFlows, Test, Terminate,
       Interrupt, Arrive, SwitchReceive, SwitchReply, SwitchAsync, SwitchClose, Reset, vars, conn
  <2>2. QED
    BY <1>1, <2>1
<1>5. QED
  BY <1>2, <1>3, <1>4
-----------------------------------------------------------------------------
(***************************************************************************)
(* The two calls of a round start from cleared flows: a flow has no action *)
(* before the first call, and at most those of one reply before the        *)
(* second.                                                                 *)
(***************************************************************************)
PerFlow(bound) == \A i \in FlowIndex : nb_actions[i] <= bound

ActionsBounded ==
  /\ ~ torn /\ pc \in {"request", "stats"} => PerFlow(IF call = 1 THEN 0 ELSE ActionsPerFlow)
  /\ PerFlow(MAX_ACTIONS)

LEMMA ActionsStep ==
  ASSUME TypeOK, ActionsBounded, [Next]_vars
  PROVE  ActionsBounded'
<1> DEFINE During == pc \in {"request", "stats"}
           First(c) == IF c = 1 THEN 0 ELSE ActionsPerFlow
           Within(bound) == \A i \in FlowIndex : nb_actions'[i] <= bound
           Goal == /\ ~ torn' /\ pc' \in {"request", "stats"} => Within(First(call'))
                   /\ Within(MAX_ACTIONS)
<1> SUFFICES Goal
  BY Zenon DEF ActionsBounded, PerFlow
<1>1. /\ {ActionsPerFlow, MAX_ACTIONS} \subseteq Nat /\ 2 * ActionsPerFlow <= MAX_ACTIONS
      /\ call \in {1, 2} /\ nb_actions \in [FlowIndex -> Nat]
      /\ \A i \in FlowIndex : nb_actions[i] <= MAX_ACTIONS
      /\ ~ torn /\ During => \A i \in FlowIndex : nb_actions[i] <= First(call)
  BY OpenFlowAssumption, ActionsAssumption DEF TypeOK, ActionsBounded, PerFlow
<1>11. ~ torn' => ~ torn
  BY TornStays
<1>2. ASSUME UNCHANGED nb_actions,
             pc' \in {"request", "stats"} => During /\ call' \in {call, 2}
      PROVE  Goal
  BY <1>1, <1>2, <1>11
<1>3. CASE \/ Tear \/ AwaitBody \/ PutAside \/ Test \/ Terminate \/ Interrupt \/ Arrive \/ SwitchClose
           \/ UNCHANGED vars
  <2>1. UNCHANGED <<nb_actions, call>>
    BY <1>3, Zenon DEF Tear, AwaitBody, PutAside, Test, Terminate, Interrupt, Arrive, SwitchClose,
       vars, conn, flows
  <2>2. pc' \in {"request", "stats"} => During
    BY <1>3 DEF Tear, AwaitBody, PutAside, Test, Loop, Terminate, Interrupt, Arrive, SwitchClose, vars
  <2>3. QED
    BY <1>2, <2>1, <2>2
<1>4. CASE Accept \/ Hello \/ FeaturesRequest \/ Features \/ HandleBuffered \/ ModVlan
  <2>1. UNCHANGED nb_actions
    BY <1>4, Zenon DEF Accept, Hello, FeaturesRequest, Features, HandleBuffered, ModVlan, flows
  <2>2. pc' \notin {"request", "stats"}
    BY <1>4 DEF Accept, Hello, FeaturesRequest, Features, Loop, HandleBuffered, Handle, Answer, ModVlan,
       Send
  <2>3. QED
    BY <1>2, <2>1, <2>2
<1>5. CASE SwitchReceive \/ SwitchReply \/ SwitchAsync \/ Reset
  <2>1. UNCHANGED <<pc, nb_actions, call>>
    BY <1>5, Zenon DEF SwitchReceive, SwitchReply, SwitchAsync, Reset, conn, flows
  <2>2. QED
    BY <1>2, <2>1
<1>6. CASE Drain
  <2>1. \/ Handle(Head(fromSwitch).type, "drain") /\ UNCHANGED nb_actions
        \/ nb_actions' = Cleared
    BY <1>6 DEF Drain, flows
  <2>2. CASE Handle(Head(fromSwitch).type, "drain") /\ UNCHANGED nb_actions
    <3>1. pc' \in {"drain", "killed"}
      BY <2>2 DEF Handle, Answer, Send
    <3>2. QED
      BY <1>2, <2>2, <3>1
  <2>3. CASE nb_actions' = Cleared
    <3>1. \A i \in FlowIndex : nb_actions'[i] = 0
      BY <2>3 DEF Cleared
    <3>2. QED
      BY <1>1, <3>1
  <2>4. QED
    BY <2>1, <2>2, <2>3
<1>7. CASE StatsRequest
  <2>1. During /\ UNCHANGED nb_actions /\ call' \in {call, 2}
    BY <1>7 DEF StatsRequest, flows
  <2>2. QED
    BY <1>2, <2>1
<1>8. CASE FreeFlows
  <2>1. /\ pc' = "test"
        /\ nb_actions' = [i \in FlowIndex |-> IF i < nb_flows THEN 0 ELSE nb_actions[i]]
    BY <1>8 DEF FreeFlows
  <2>2. \A i \in FlowIndex : nb_actions'[i] \in {0, nb_actions[i]}
    BY <2>1
  <2>3. QED
    BY <1>1, <2>1, <2>2
<1>9. CASE StatsReply
  <2>1. /\ pc = "stats"
        /\ \/ pc' \in {"stats", "overran_messages", "overran_flows", "corrupt"}
              /\ call' \in {call, 2} /\ UNCHANGED nb_actions
           \/ /\ pc' = AfterCall /\ call' = 2
              /\ \E n \in 0 .. MaxFlows, k \in ActionsRead : (torn => Room(n, k)) /\ Parse(n, k)
    BY <1>9 DEF StatsReply, flows
  <2>2. CASE /\ pc' \in {"stats", "overran_messages", "overran_flows", "corrupt"}
             /\ call' \in {call, 2} /\ UNCHANGED nb_actions
    BY <1>2, <2>1, <2>2
  <2>3. ASSUME pc' = AfterCall, call' = 2, NEW n \in 0 .. MaxFlows, NEW k \in ActionsRead,
               torn => Room(n, k), Parse(n, k)
        PROVE  Goal
    <3>1. /\ k \in Nat
          /\ \A i \in FlowIndex : /\ i < n => nb_actions'[i] = nb_actions[i] + k
                                  /\ ~(i < n) => nb_actions'[i] = nb_actions[i]
      BY <1>1, <2>3 DEF Parse, ActionsRead
    <3>2. CASE torn
      <4>1. \A i \in FlowIndex : nb_actions'[i] <= MAX_ACTIONS
        BY <1>1, <2>3, <3>1, <3>2 DEF Room
      <4>2. QED
        BY <1>11, <3>2, <4>1
    <3>3. CASE ~ torn
      <4>1. \A i \in FlowIndex : nb_actions'[i] \in {nb_actions[i], nb_actions[i] + ActionsPerFlow}
        BY <3>1, <3>3 DEF ActionsRead
      <4>2. CASE call = 1
        <5>1. \A i \in FlowIndex : nb_actions[i] \in Nat /\ nb_actions[i] <= 0
          BY <1>1, <2>1, <3>3, <4>2
        <5>2. \A i \in FlowIndex : nb_actions'[i] <= ActionsPerFlow
          BY <1>1, <4>1, <5>1
        <5>3. \A i \in FlowIndex : nb_actions'[i] <= MAX_ACTIONS
          BY <1>1, <4>1, <5>1
        <5>4. QED
          BY <2>3, <5>2, <5>3
      <4>3. CASE call = 2
        <5>1. \A i \in FlowIndex : nb_actions[i] \in Nat /\ nb_actions[i] <= ActionsPerFlow
          BY <1>1, <2>1, <3>3, <4>3
        <5>2. \A i \in FlowIndex : nb_actions'[i] <= MAX_ACTIONS
          BY <1>1, <4>1, <5>1
        <5>3. pc' = "migrate"
          BY <2>3, <4>3 DEF AfterCall
        <5>4. QED
          BY <5>2, <5>3
      <4>4. QED
        BY <1>1, <4>2, <4>3
    <3>4. QED
      BY <3>2, <3>3
  <2>4. QED
    BY <2>1, <2>2, <2>3
<1>10. QED
  BY <1>3, <1>4, <1>5, <1>6, <1>7, <1>8, <1>9, Zenon DEF Next, Program, Environment
-----------------------------------------------------------------------------
(***************************************************************************)
(* The inductive invariant.                                                *)
(***************************************************************************)
Sound ==
  /\ TypeOK
  /\ EchoesCounted
  /\ RequestsFollowed /\ NoneAside
  /\ ReplyIsOwn
  /\ ActionsBounded

LEMMA SoundFromStart == Init => Sound
<1> SUFFICES ASSUME Init
             PROVE  Sound
  OBVIOUS
<1>1. PICK n \in InitBuffered : msg_buffer = [i \in 1 .. n |-> "UNSET"]
  BY DEF Init
<1>2. n \in Nat
  BY OpenFlowAssumption
<1>4. Len(msg_buffer) = n /\ \A i \in 1 .. n : msg_buffer[i] = "UNSET"
  BY <1>1, <1>2
<1>5. TypeOK
  <2>1. msg_buffer \in Seq(Kinds \cup {"UNSET"})
    BY <1>1, <1>2
  <2>2. parts = << >> /\ toSwitch = << >> /\ fromSwitch = << >> /\ pending = NoReply
        /\ nb_actions = [i \in FlowIndex |-> 0]
    BY DEF Init
  <2>3. /\ parts \in Seq(0 .. 3) /\ toSwitch \in Seq(Messages) /\ fromSwitch \in Seq(Messages)
        /\ nb_actions \in [FlowIndex -> Nat]
    BY <2>2
  <2>4. pending \in [xid : 0 .. XID - 1, left : 0 .. MaxParts, for : 0 .. 3]
    <3>1. 0 \in 0 .. XID - 1 /\ 0 \in 0 .. MaxParts /\ 0 \in 0 .. 3
      BY OpenFlowAssumption
    <3>2. QED
      BY <2>2, <3>1 DEF NoReply
  <2>5. /\ 0 \in 0 .. XID - 1 /\ 0 \in 0 .. MaxFlows /\ 0 \in 0 .. MaxMods
        /\ 0 \in 0 .. MaxAsync
    BY OpenFlowAssumption
  <2>6. /\ pc = "accept" /\ transaction_id = 0 /\ awaited = 0 /\ serial = 0 /\ call = 1
        /\ nb_flows = 0 /\ nb_mods = 0 /\ dropped = 0
        /\ front = "full" /\ link = "none" /\ async = 0 /\ unanswered = 0
    BY DEF Init
  <2>7. looping \in BOOLEAN /\ ports \in BOOLEAN /\ torn \in BOOLEAN /\ body \in BOOLEAN
    BY DEF Init
  <2>8. QED
    BY <2>1, <2>3, <2>4, <2>5, <2>6, <2>7 DEF TypeOK
<1>6. EchoesCounted
  <2>1. Places(msg_buffer, {"ECHO_REQUEST"}) = {}
    BY <1>4 DEF Places
  <2>2. Count(msg_buffer, {"ECHO_REQUEST"}) = 0
    BY <2>1, FS_EmptySet DEF Count
  <2>3. Count(fromSwitch, Asked) = 0 /\ Count(toSwitch, Answered) = 0
    BY CountEmpty DEF Init
  <2>4. QED
    BY <2>2, <2>3 DEF Init, EchoesCounted
<1>7. RequestsFollowed /\ NoneAside
  <2>1. Quiet(toSwitch, fromSwitch, pending) /\ pc # "stats"
    BY EmptyQueue DEF Init, Quiet
  <2>2. NoneAside
    BY <1>4 DEF NoneAside, NoneOf
  <2>3. QED
    BY <2>1, <2>2 DEF RequestsFollowed
<1>8. ReplyIsOwn
  BY DEF Init, ReplyIsOwn
<1>9. ActionsBounded
  <2>1. \A i \in FlowIndex : nb_actions[i] = 0
    BY DEF Init
  <2>2. 0 <= MAX_ACTIONS /\ pc = "accept"
    BY OpenFlowAssumption DEF Init
  <2>3. QED
    BY <2>1, <2>2 DEF ActionsBounded, PerFlow
<1>10. QED
  BY <1>5, <1>6, <1>7, <1>8, <1>9 DEF Sound

LEMMA SoundKept == Sound /\ [Next]_vars => Sound'
BY TypeStep, EchoStep, RequestsStep, OwnStep, ActionsStep DEF Sound

LEMMA SoundAlways == Spec => []Sound
BY SoundFromStart, SoundKept, PTL DEF Spec

(***************************************************************************)
(* Types: the ids, the flows, the queues and the messages put aside are    *)
(* what they should be, and no more echo requests wait for their answer    *)
(* than the switch has sent (openflow_control, openflow_get_flows).        *)
(***************************************************************************)
THEOREM TypeCorrect == Spec => []TypeOK
<1>1. Sound => TypeOK
  BY DEF Sound
<1>2. QED
  BY <1>1, SoundAlways, PTL

(***************************************************************************)
(* openflow_get_flows takes only messages of the reply to the request it   *)
(* has just sent: however many transaction ids there are, an id that has   *)
(* wrapped around to 0 included, however long the replies.                 *)
(***************************************************************************)
THEOREM RepliesAreOwn == Spec => []ReplyIsOwn
<1>1. Sound => ReplyIsOwn
  BY DEF Sound
<1>2. QED
  BY <1>1, SoundAlways, PTL

(***************************************************************************)
(* Outside openflow_get_flows no statistics request or reply is under way, *)
(* and none was put aside for openflow_control.                            *)
(***************************************************************************)
THEOREM NothingLeftOver == Spec => []NoReplyLeftOver
<1>1. Sound => NoReplyLeftOver
  <2> SUFFICES ASSUME Sound, ~ torn, pc \in {"control", "drain", "request", "migrate", "test"}
               PROVE  /\ Sent(toSwitch, "STATS_REQUEST") = {} /\ pending = NoReply
                      /\ Sent(fromSwitch, "STATS_REPLY") = {}
                      /\ \A i \in 1 .. Len(msg_buffer) : msg_buffer[i] # "STATS_REPLY"
    BY DEF NoReplyLeftOver
  <2>1. Quiet(toSwitch, fromSwitch, pending)
    BY DEF Sound, RequestsFollowed, Between
  <2>2. QED
    BY <2>1 DEF Sound, NoneAside, NoneOf, Quiet, Without, Sent
<1>2. QED
  BY <1>1, SoundAlways, PTL

(***************************************************************************)
(* The actions of a flow stay within the MAX_ACTIONS elements it has, for  *)
(* any number of flows in either reply of a round: there is room for the   *)
(* actions of two replies (ActionsAssumption).                             *)
(***************************************************************************)
THEOREM ActionsStayWithin == Spec => []ActionsFit
<1>1. Sound => ActionsFit
  <2> SUFFICES ASSUME Sound, NEW i \in FlowIndex
               PROVE  nb_actions[i] <= MAX_ACTIONS
    BY DEF ActionsFit
  <2>1. QED
    BY DEF Sound, ActionsBounded, PerFlow
<1>2. QED
  BY <1>1, SoundAlways, PTL
(***************************************************************************)
(* An echo request is answered at most once, whether control_logic meets   *)
(* it put aside or in the socket: those on their way or put aside and the  *)
(* answers on their way are never more than the requests that still wait   *)
(* for an answer.                                                          *)
(***************************************************************************)
THEOREM EchoAnsweredOnce == Spec => []EchoesCounted
<1>1. Sound => EchoesCounted
  BY DEF Sound
<1>2. QED
  BY <1>1, SoundAlways, PTL
=============================================================================
