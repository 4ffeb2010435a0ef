----------------------- MODULE SessionContract_proofs -----------------------
(***************************************************************************)
(* Session implements StreamContract and NotificationContract, for any     *)
(* number of items, updates and shutdown subscribers: the initial states   *)
(* map to initial states, and every step of Session is a step of the       *)
(* contract or leaves its variables alone.                                 *)
(***************************************************************************)
EXTENDS Session_proofs

USE CountsAssumption DEF CountsAssumption
-----------------------------------------------------------------------------
(* Sequences that increase *)

Increases(q) == \A i, j \in 1..Len(q) : i < j => q[i] < q[j]

\* Every element of the first sequence is below every one of the second.
Below(a, b) == \A i \in 1..Len(a), j \in 1..Len(b) : a[i] < b[j]

LEMMA IncreasesConcat ==
  ASSUME NEW n \in Nat, NEW a \in Seq(1..n), NEW b \in Seq(1..n),
         Increases(a), Increases(b), Below(a, b)
  PROVE  Increases(a \o b)
<1>1. /\ Len(a \o b) = Len(a) + Len(b) /\ Len(a) \in Nat /\ Len(b) \in Nat
      /\ \A i \in 1..(Len(a) + Len(b)) :
           (a \o b)[i] = IF i <= Len(a) THEN a[i] ELSE b[i - Len(a)]
  BY ConcatProperties
<1>2. ASSUME NEW i \in 1..(Len(a) + Len(b)), NEW j \in 1..(Len(a) + Len(b)), i < j
      PROVE  (a \o b)[i] < (a \o b)[j]
  <2>1. CASE j <= Len(a)
    <3>1. i \in 1..Len(a) /\ j \in 1..Len(a)
      BY <1>1, <1>2, <2>1
    <3>2. (a \o b)[i] = a[i] /\ (a \o b)[j] = a[j]
      BY <1>1, <3>1
    <3>3. a[i] < a[j]
      BY <1>2, <3>1 DEF Increases
    <3> QED BY <3>2, <3>3
  <2>2. CASE i <= Len(a) /\ j > Len(a)
    <3>1. i \in 1..Len(a) /\ j - Len(a) \in 1..Len(b)
      BY <1>1, <2>2
    <3>2. (a \o b)[i] = a[i] /\ (a \o b)[j] = b[j - Len(a)]
      BY <1>1, <2>2
    <3>3. a[i] < b[j - Len(a)]
      BY <3>1 DEF Below
    <3> QED BY <3>2, <3>3
  <2>3. CASE i > Len(a)
    <3>1. /\ i - Len(a) \in 1..Len(b) /\ j - Len(a) \in 1..Len(b)
          /\ i - Len(a) < j - Len(a) /\ ~(i <= Len(a)) /\ ~(j <= Len(a))
      BY <1>1, <1>2, <2>3
    <3>2. b[i - Len(a)] < b[j - Len(a)]
      BY <3>1 DEF Increases
    <3>3. (a \o b)[i] = b[i - Len(a)] /\ (a \o b)[j] = b[j - Len(a)]
      BY <1>1, <3>1
    <3> QED BY <3>2, <3>3
  <2>4. j <= Len(a) \/ (i <= Len(a) /\ j > Len(a)) \/ i > Len(a)
    BY <1>1
  <2> QED BY <2>1, <2>2, <2>3, <2>4
<1> QED BY <1>1, <1>2 DEF Increases

\* One more element, greater than all before it.
LEMMA IncreasesAppend ==
  ASSUME NEW n \in Nat, NEW a \in Seq(1..n), NEW x \in 1..n,
         Increases(a), \A i \in 1..Len(a) : a[i] < x
  PROVE  a \o <<x>> \in Seq(1..n) /\ Increases(a \o <<x>>)
<1>1. <<x>> \in Seq(1..n) /\ Len(<<x>>) = 1 /\ <<x>>[1] = x
  OBVIOUS
<1>2. Increases(<<x>>) /\ Below(a, <<x>>)
  BY <1>1 DEF Increases, Below
<1> QED BY <1>1, <1>2, IncreasesConcat, ConcatProperties

\* A sequence is the beginning of every one that goes on from it.
LEMMA PrefixConcat ==
  ASSUME NEW S, NEW a \in Seq(S), NEW b \in Seq(S)
  PROVE  StreamPromise!IsPrefix(a, a \o b)
<1> DEFINE n == Len(a)
<1>1. /\ a \o b \in Seq(S) /\ Len(a \o b) = n + Len(b) /\ n \in Nat /\ Len(b) \in Nat
      /\ \A i \in 1..n : (a \o b)[i] = a[i]
  BY ConcatProperties
<1>2. \A i \in 1..n : (a \o b)[i] \in S
  BY <1>1
<1>3. /\ SubSeq(a \o b, 1, n) \in Seq(S)
      /\ Len(SubSeq(a \o b, 1, n)) = IF 1 <= n THEN n - 1 + 1 ELSE 0
      /\ \A i \in 1..(n - 1 + 1) : SubSeq(a \o b, 1, n)[i] = (a \o b)[1 + i - 1]
  <2> HIDE DEF n
  <2> QED BY <1>1, <1>2, SubSeqProperties
<1>4. Len(SubSeq(a \o b, 1, n)) = Len(a)
  BY <1>1, <1>3
<1>5. \A i \in 1..Len(SubSeq(a \o b, 1, n)) : SubSeq(a \o b, 1, n)[i] = a[i]
  <2>1. ASSUME NEW i \in 1..n PROVE SubSeq(a \o b, 1, n)[i] = a[i]
    <3>1. i \in 1..(n - 1 + 1) /\ 1 + i - 1 = i
      BY <1>1
    <3> QED BY <1>1, <1>3, <3>1
  <2> QED BY <1>4, <2>1
<1>6. SubSeq(a \o b, 1, n) = a
  BY <1>3, <1>4, <1>5, SeqEqual
<1>7. SubSeq(a, 1, n) = a
  BY SubSeqFull
<1> QED BY <1>1, <1>6, <1>7 DEF StreamPromise!IsPrefix
-----------------------------------------------------------------------------
(* The subscription *)

\* What got out increases, and what the buffer holds goes on from it.
IncInv == Increases(written \o frames)

\* A beginning of a sequence that increases does so too.
LEMMA IncreasesPart ==
  ASSUME NEW S, NEW a \in Seq(S), NEW b \in Seq(S), Increases(a \o b)
  PROVE  Increases(a)
<1>1. /\ Len(a \o b) = Len(a) + Len(b) /\ Len(a) \in Nat /\ Len(b) \in Nat
      /\ \A i \in 1..Len(a) : (a \o b)[i] = a[i]
  BY ConcatProperties, LenProperties
<1>2. ASSUME NEW i \in 1..Len(a), NEW j \in 1..Len(a), i < j PROVE a[i] < a[j]
  <2>1. i \in 1..Len(a \o b) /\ j \in 1..Len(a \o b)
    BY <1>1
  <2> QED BY <1>1, <1>2, <2>1 DEF Increases
<1> QED BY <1>2 DEF Increases

\* The next item comes after all that got out and all that the buffer holds.
LEMMA BufferIncreases ==
  ASSUME SubsTypes, IncInv
  PROVE  LET x == produced + 1 IN
         /\ written \in Seq(1..x) /\ frames \in Seq(1..x) /\ Append(frames, x) \in Seq(1..x)
         /\ Increases(written \o Append(frames, x))
<1> DEFINE x == produced + 1
           d == written \o frames
<1>1. /\ produced \in Nat /\ x \in 1..x /\ x \in Nat /\ 1..produced \subseteq 1..x
      /\ written \in Seq(1..produced) /\ frames \in Seq(1..produced)
  BY DEF SubsTypes
<1>2. ASSUME NEW y \in 1..produced PROVE y < x
  BY <1>1
<1> HIDE DEF x
<1>3. written \in Seq(1..x) /\ frames \in Seq(1..x) /\ <<x>> \in Seq(1..x)
  BY <1>1, SeqMonotonic
<1>4. d \in Seq(1..produced) /\ d \in Seq(1..x)
  BY <1>1, <1>3, ConcatProperties
<1>5. \A i \in 1..Len(d) : d[i] < x
  BY <1>2, <1>4, ElementOfSeq
<1>6. Increases(d \o <<x>>)
  <2>1. Increases(d)
    BY DEF IncInv
  <2> HIDE DEF d
  <2> QED BY <1>1, <1>4, <1>5, <2>1, IncreasesAppend
<1>7. Append(frames, x) = frames \o <<x>> /\ frames \o <<x>> \in Seq(1..x)
  BY <1>1, <1>3, AppendIsConcat, ConcatProperties
<1>8. d \o <<x>> = written \o (frames \o <<x>>)
  <2>1. \A a, b, c \in Seq(1..x) : (a \o b) \o c = a \o (b \o c)
    BY ConcatAssociative
  <2>2. (written \o frames) \o <<x>> = written \o (frames \o <<x>>)
    BY <1>3, <2>1
  <2> QED BY <2>2
<1>9. /\ written \in Seq(1..x) /\ frames \in Seq(1..x) /\ Append(frames, x) \in Seq(1..x)
      /\ Increases(written \o Append(frames, x))
  BY <1>3, <1>6, <1>7, <1>8
<1> QED BY <1>9 DEF x

\* A step of the sink puts out the first part of what was to be sent, and keeps
\* the rest in the buffer or loses it.
PutsOut(head, rest) ==
  /\ Increases(written \o (head \o rest))
  /\ written \in Seq(1..produced') /\ produced' \in 0..Updates
  /\ written' = written \o head
  /\ frames' \in {rest, << >>}
  /\ confirmed \subseteq confirmed'
  /\ UNCHANGED <<received, subscriber>>

LEMMA SinkPutsOut ==
  ASSUME SubsTypes, IncInv,
         Subs!SinkSend \/ Subs!SinkSendFails \/ Subs!CloseSink \/ Subs!DropSink
  PROVE  \E head, rest \in Seq(1..produced') : PutsOut(head, rest)
<1>1. /\ produced \in 0..Updates /\ frames \in Seq(1..produced) /\ written \in Seq(1..produced)
      /\ UNCHANGED <<received, subscriber>>
  BY DEF SubsTypes, Subs!SinkSend, Subs!SinkSendFails, Subs!CloseSink, Subs!DropSink
<1>2. ASSUME NEW b \in Seq(1..produced'), NEW n \in 0..Len(b), Increases(written \o b),
             written \in Seq(1..produced'), produced' \in 0..Updates,
             written' = written \o SubSeq(b, 1, n),
             frames' \in {SubSeq(b, n + 1, Len(b)), << >>}, confirmed \subseteq confirmed'
      PROVE  \E head, rest \in Seq(1..produced') : PutsOut(head, rest)
  <2> DEFINE head == SubSeq(b, 1, n)
             rest == SubSeq(b, n + 1, Len(b))
  <2>1. head \in Seq(1..produced') /\ rest \in Seq(1..produced') /\ b = head \o rest
    BY <1>2, PartsOfBuffer
  <2>2. PutsOut(head, rest)
    <3>1. Increases(written \o (head \o rest))
      BY <1>2, <2>1
    <3> QED BY <1>1, <1>2, <3>1 DEF PutsOut
  <2> HIDE DEF head, rest
  <2> QED BY <2>1, <2>2
<1>3. CASE Subs!SinkSend
  <2> DEFINE b == Append(frames, produced + 1)
  <2>1. /\ produced < Updates /\ produced' = produced + 1 /\ confirmed \subseteq confirmed'
        /\ written' = written \o SubSeq(b, 1, Len(b)) /\ frames' = << >>
    BY <1>3 DEF Subs!SinkSend, Subs!WriteOut
  <2>2. /\ b \in Seq(1..produced') /\ written \in Seq(1..produced') /\ Increases(written \o b)
        /\ produced' \in 0..Updates
    BY <1>1, <2>1, BufferIncreases
  <2> HIDE DEF b
  <2>3. Len(b) \in 0..Len(b)
    BY <2>2, LenProperties
  <2> QED BY <1>2, <2>1, <2>2, <2>3
<1>4. CASE Subs!SinkSendFails
  <2>0. PICK b \in {frames, Append(frames, produced + 1)} :
          \E n \in 0..Len(b) :
            /\ written' = written \o SubSeq(b, 1, n)
            /\ frames' = SubSeq(b, n + 1, Len(b))
    BY <1>4 DEF Subs!SinkSendFails, Subs!WriteOut
  <2>1. PICK n \in 0..Len(b) : /\ written' = written \o SubSeq(b, 1, n)
                               /\ frames' = SubSeq(b, n + 1, Len(b))
    BY <2>0
  <2>2. produced < Updates /\ produced' = produced + 1 /\ confirmed \subseteq confirmed'
    BY <1>4 DEF Subs!SinkSendFails
  <2>3. /\ written \in Seq(1..produced') /\ frames \in Seq(1..produced')
        /\ Append(frames, produced + 1) \in Seq(1..produced')
        /\ Increases(written \o Append(frames, produced + 1))
    BY <2>2, BufferIncreases
  <2>4. Increases(written \o frames) /\ produced' \in 0..Updates
    BY <1>1, <2>2 DEF IncInv
  <2>5. CASE b = frames
    BY <1>2, <2>1, <2>2, <2>3, <2>4, <2>5
  <2>6. CASE b = Append(frames, produced + 1)
    <3> DEFINE d == Append(frames, produced + 1)
    <3>1. d \in Seq(1..produced') /\ Increases(written \o d) /\ b = d
      BY <2>3, <2>6
    <3> HIDE DEF d
    <3> QED BY <1>2, <2>1, <2>2, <2>3, <2>4, <3>1
  <2> QED BY <2>0, <2>5, <2>6
<1>5. CASE Subs!CloseSink
  <2>1. /\ produced' = produced /\ confirmed \subseteq confirmed'
        /\ written' = written \o SubSeq(frames, 1, Len(frames)) /\ frames' = << >>
    BY <1>5 DEF Subs!CloseSink, Subs!WriteOut
  <2>2. Len(frames) \in 0..Len(frames)
    BY <1>1, LenProperties
  <2> QED BY <1>1, <1>2, <2>1, <2>2 DEF IncInv
<1>6. CASE Subs!DropSink
  <2>1. PICK n \in 0..Len(frames) : written' = written \o SubSeq(frames, 1, n)
    BY <1>6 DEF Subs!DropSink, Subs!WriteOut
  <2>2. produced' = produced /\ confirmed \subseteq confirmed' /\ frames' = << >>
    BY <1>6 DEF Subs!DropSink
  <2> QED BY <1>1, <1>2, <2>1, <2>2 DEF IncInv
<1> QED BY <1>3, <1>4, <1>5, <1>6

\* What that makes of what is out and of the buffer.
LEMMA OutputIncreases ==
  ASSUME NEW head \in Seq(1..produced'), NEW rest \in Seq(1..produced'), PutsOut(head, rest)
  PROVE  /\ IncInv'
         /\ written' \in Seq(1..produced') /\ Increases(written')
         /\ StreamPromise!IsPrefix(written, written')
<1>1. written \in Seq(1..produced') /\ written' = written \o head
  BY DEF PutsOut
<1>2. (written \o head) \o rest = written \o (head \o rest)
  BY <1>1, ConcatAssociative
<1>3. Increases(written' \o rest) /\ written' \in Seq(1..produced')
  BY <1>1, <1>2, ConcatProperties DEF PutsOut
<1>4. Increases(written')
  BY <1>3, IncreasesPart
<1>5. written' \o << >> = written'
  BY <1>3, ConcatEmptySeq
<1>6. IncInv'
  <2>1. frames' = rest \/ frames' = << >>
    BY DEF PutsOut
  <2> QED BY <1>3, <1>4, <1>5, <2>1 DEF IncInv
<1>7. StreamPromise!IsPrefix(written, written')
  BY <1>1, PrefixConcat
<1> QED BY <1>3, <1>4, <1>6, <1>7

LEMMA StepInc == SubsTypes /\ IncInv /\ Subs!Next => IncInv'
<1> SUFFICES ASSUME SubsTypes, IncInv, Subs!Next PROVE IncInv'
  OBVIOUS
<1>1. CASE Subs!SinkSend \/ Subs!SinkSendFails \/ Subs!CloseSink \/ Subs!DropSink
  BY <1>1, SinkPutsOut, OutputIncreases
<1>2. CASE UNCHANGED <<frames, written>>
  BY <1>2 DEF IncInv, Increases
<1> QED BY <1>1, <1>2
        DEF Subs!Next, Subs!Poll, Subs!PollMessage, Subs!PollEnd,
            Subs!Unsubscribe, Subs!pollUnchanged, Subs!sinkVars

LEMMA IncKeepsInv == SubsTypes /\ IncInv /\ [Next]_vars => IncInv'
<1>1. ASSUME IncInv, UNCHANGED subsVars PROVE IncInv'
  BY <1>1 DEF IncInv, Increases, subsVars
<1> QED BY <1>1, StepInc DEF Next, vars, LoseConnection

\* The client reads what got out, in its place.
LEMMA ReadIsNext ==
  ASSUME SubsInv, Subs!PollMessage, Head(wire) \in 1..Updates
  PROVE  Len(received) < Len(written) /\ Head(wire) = written[Len(received) + 1]
<1> DEFINE S == 0..(Updates + 1)
<1>1. /\ wire \in Seq(S) /\ Len(wire) \in Nat /\ Len(written) \in Nat /\ Len(received) \in Nat
      /\ sink \in {"none", "open", "closed", "dropped"}
      /\ Len(received) <= Len(written)
  BY DEF SubsInv, SubsTypes
<1>2. wire # << >> /\ WireInv
  BY DEF Subs!PollMessage, SubsInv
<1>3. Len(wire) >= 1 /\ Head(wire) = wire[1]
  BY <1>1, <1>2, EmptySeq
<1>4. ASSUME Len(received) = Len(written) PROVE FALSE
  <2>1. Len(wire) = 1
    BY <1>1, <1>2, <1>3, <1>4 DEF WireInv
  <2>2. wire[1] \in {0, Updates + 1}
    BY <1>1, <1>2, <1>4, <2>1 DEF WireInv
  <2> QED BY <1>3, <2>2
<1>5. Len(received) < Len(written) /\ 1 \in 1..(Len(written) - Len(received))
  BY <1>1, <1>4
<1>6. wire[1] = written[Len(received) + 1]
  BY <1>2, <1>5 DEF WireInv, Continues
<1> QED BY <1>3, <1>5, <1>6

\* The end is only reached by who has read it all.
LEMMA EndIsWhole ==
  ASSUME SubsInv' , subscriber' = "ended"
  PROVE  received' = written' /\ sink' \in {"closed", "dropped"}
<1>1. /\ received' \in Seq(1..produced') /\ written' \in Seq(1..produced')
      /\ Len(received') = Len(written')
      /\ \A i \in 1..Len(received') : received'[i] = written'[i]
  BY DEF SubsInv, SubsTypes
<1> QED BY <1>1, SeqEqual DEF SubsInv

StreamVars == <<written, confirmed, sink \in {"closed", "dropped"}, received, subscriber>>

LEMMA SubsStepSimulates ==
  ASSUME SubsInv, IncInv, SubsInv', Subs!Next
  PROVE  StreamPromise!Next \/ UNCHANGED StreamVars
<1> USE DEF StreamVars
<1>1. ASSUME Subs!SinkSend \/ Subs!SinkSendFails \/ Subs!CloseSink \/ Subs!DropSink
      PROVE  StreamPromise!PutOut
  <2>0. SubsTypes
    BY DEF SubsInv
  <2>1. PICK head, rest \in Seq(1..produced') : PutsOut(head, rest)
    BY <1>1, <2>0, SinkPutsOut
  <2>2. /\ written' \in Seq(1..produced') /\ Increases(written') /\ produced' \in 0..Updates
        /\ StreamPromise!IsPrefix(written, written')
        /\ confirmed \subseteq confirmed' /\ UNCHANGED <<received, subscriber>>
    BY <2>1, OutputIncreases DEF PutsOut
  <2>3. DOMAIN written' = 1..Len(written') /\ \A i \in 1..Len(written') : written'[i] \in 1..Updates
    <3>1. ASSUME NEW i \in 1..Len(written') PROVE written'[i] \in 1..Updates
      <4>1. written'[i] \in 1..produced'
        BY <2>2, ElementOfSeq
      <4> QED BY <2>2, <4>1
    <3> QED BY <2>2, <3>1, LenProperties
  <2>4. confirmed' \subseteq StreamPromise!Range(written')
    BY <2>3 DEF SubsInv, ElementsOf, StreamPromise!Range
  <2>5. sink = "open"
    BY <1>1 DEF Subs!SinkSend, Subs!SinkSendFails, Subs!CloseSink, Subs!DropSink
  <2> QED BY <2>2, <2>3, <2>4, <2>5 DEF StreamPromise!PutOut, StreamPromise!Increasing, Increases
<1>2. CASE Subs!SinkSend \/ Subs!SinkSendFails
  <2>1. StreamPromise!Publish
    BY <1>1, <1>2 DEF StreamPromise!Publish, Subs!SinkSend, Subs!SinkSendFails
  <2> QED BY <2>1 DEF StreamPromise!Next
<1>3. CASE Subs!CloseSink \/ Subs!DropSink
  <2>1. sink' \in {"closed", "dropped"}
    BY <1>3 DEF Subs!CloseSink, Subs!DropSink
  <2>2. StreamPromise!Finish
    BY <1>1, <1>3, <2>1 DEF StreamPromise!Finish
  <2> QED BY <2>2 DEF StreamPromise!Next
<1>4. CASE Subs!PollMessage
  <2>1. /\ subscriber = "polling" /\ UNCHANGED <<sink, written, confirmed>>
    BY <1>4 DEF Subs!PollMessage, Subs!pollUnchanged, Subs!sinkVars
  <2>2. CASE subscriber' = "ended" /\ UNCHANGED received
    <3>1. StreamPromise!End
      BY <2>1, <2>2, EndIsWhole DEF StreamPromise!End
    <3> QED BY <3>1 DEF StreamPromise!Next
  <2>3. CASE subscriber' = "failed" /\ UNCHANGED received
    <3>1. StreamPromise!Break
      BY <2>1, <2>3 DEF StreamPromise!Break
    <3> QED BY <3>1 DEF StreamPromise!Next
  <2>4. CASE Head(wire) \in 1..Updates /\ received' = Append(received, Head(wire)) /\ UNCHANGED subscriber
    <3>1. StreamPromise!Take
      BY <1>4, <2>1, <2>4, ReadIsNext DEF StreamPromise!Take
    <3> QED BY <3>1 DEF StreamPromise!Next
  <2> QED BY <1>4, <2>2, <2>3, <2>4 DEF Subs!PollMessage
<1>5. CASE Subs!PollEnd
  <2>1. /\ subscriber = "polling" /\ UNCHANGED <<sink, written, confirmed, received>>
        /\ subscriber' \in {"ended", "failed"}
    BY <1>5 DEF Subs!PollEnd, Subs!pollUnchanged, Subs!sinkVars
  <2>2. CASE subscriber' = "ended"
    <3>1. StreamPromise!End
      BY <2>1, <2>2, EndIsWhole DEF StreamPromise!End
    <3> QED BY <3>1 DEF StreamPromise!Next
  <2>3. CASE subscriber' = "failed"
    <3>1. StreamPromise!Break
      BY <2>1, <2>3 DEF StreamPromise!Break
    <3> QED BY <3>1 DEF StreamPromise!Next
  <2> QED BY <2>1, <2>2, <2>3
<1>6. CASE Subs!Unsubscribe
  <2>1. StreamPromise!Break
    BY <1>6 DEF Subs!Unsubscribe, Subs!pollUnchanged, Subs!sinkVars, StreamPromise!Break
  <2> QED BY <2>1 DEF StreamPromise!Next
<1> QED BY <1>2, <1>3, <1>4, <1>5, <1>6 DEF Subs!Next, Subs!Poll

LEMMA InitStream == Init => SubsInv /\ IncInv /\ StreamPromise!Init
<1> SUFFICES ASSUME Init PROVE SubsInv /\ IncInv /\ StreamPromise!Init
  OBVIOUS
<1>1. PICK present \in BOOLEAN : Subs!Init(present)
  BY DEF Init
<1>2. SubsInv
  BY <1>1, InitSubs
<1>3. IncInv
  BY <1>1 DEF Subs!Init, IncInv, Increases
<1>4. StreamPromise!Init
  BY <1>1 DEF Subs!Init, StreamPromise!Init
<1> QED BY <1>2, <1>3, <1>4

LEMMA StreamInvariants == Spec => [](SubsInv /\ IncInv)
<1>1. SubsInv /\ IncInv /\ [Next]_vars => SubsInv' /\ IncInv'
  BY SubsKeepsInv, IncKeepsInv DEF SubsInv
<1> QED BY <1>1, InitStream, SpecIsSafe, PTL DEF SafeSpec

\* A stream that ended, rather than failed, gave the client every item that a
\* send() or the close() after it returned Ok for, in order and once, though
\* some that no Ok told of may be among them.
THEOREM StreamsEndWhole == Spec => []Subs!EndMeansAllReceived
<1>1. SubsInv /\ IncInv => Subs!EndMeansAllReceived
  <2> SUFFICES ASSUME SubsInv, IncInv, subscriber = "ended" PROVE Subs!EndMeansAllReceived
    BY DEF Subs!EndMeansAllReceived
  <2>1. /\ received \in Seq(1..produced) /\ written \in Seq(1..produced)
        /\ frames \in Seq(1..produced)
        /\ Len(received) = Len(written) /\ \A i \in 1..Len(received) : received[i] = written[i]
    BY DEF SubsInv, SubsTypes
  <2>2. received = written
    BY <2>1, SeqEqual
  <2>3. Increases(written)
    BY <2>1, IncreasesPart DEF IncInv
  <2>4. DOMAIN received = 1..Len(received) /\ confirmed \subseteq ElementsOf(written)
    BY <2>1, LenProperties DEF SubsInv
  <2> QED BY <2>2, <2>3, <2>4 DEF Subs!EndMeansAllReceived, Increases, ElementsOf
<1> QED BY <1>1, StreamInvariants, PTL

\* A subscription keeps its contract: items are read in the order they were put
\* out and once, and the end is told of after all of them, whatever the buffer,
\* Stopped, a torn frame or the loss of the connection do.
THEOREM SubscriptionsKeepTheirContract == Spec => StreamsKeepContract
<1>1. SubsInv /\ IncInv /\ SubsInv' /\ [Next]_vars
        => [StreamPromise!Next]_(StreamPromise!contractVars)
  <2> SUFFICES ASSUME SubsInv, IncInv, SubsInv', [Next]_vars
               PROVE  StreamPromise!Next \/ UNCHANGED StreamPromise!contractVars
    OBVIOUS
  <2>1. CASE UNCHANGED subsVars
    BY <2>1 DEF subsVars, StreamPromise!contractVars
  <2>2. CASE Subs!Next
    BY <2>2, SubsStepSimulates DEF StreamVars, StreamPromise!contractVars
  <2> QED BY <2>1, <2>2 DEF Next, vars, LoseConnection
<1> QED BY <1>1, InitStream, StreamInvariants, SpecIsSafe, PTL
        DEF SafeSpec, StreamsKeepContract, StreamPromise!Spec
-----------------------------------------------------------------------------
(* The notification stream *)

\* What was handed over, or dropped by next().
Taken == ElementsOf(handed) \cup dropped

\* Some item of these is the n-th or one beyond it.
Reaches(items, n) == \E j \in items : j >= n

\* The items before this one are answered for, or their send() was abandoned.
Answered == sent - abandoned - Awaiting

\* Acknowledgements tell of as many items as there are of them, counted from the
\* last one that was answered, whether they are on the way or held back.
AnswersInv ==
  /\ handler \in {"reading", "acking"} => ending = "none"
  /\ \/ cut /\ sender # "awaiting"
     \/ /\ \A i \in 1..Len(down) : down[i] = "ack" => Reaches(Taken, Answered + i)
        /\ held > 0 => Reaches(Taken, Answered + Len(down) + held)

\* The elements of three sequences one after the other.
LEMMA ElementsInARow ==
  ASSUME NEW S, NEW d \in Seq(S), NEW a \in Seq(S), NEW x \in S
  PROVE  /\ Len(d \o a \o <<x>>) = Len(d) + Len(a) + 1
         /\ \A i \in 1..Len(d) : (d \o a \o <<x>>)[i] = d[i]
         /\ (d \o a \o <<x>>)[Len(d) + Len(a) + 1] = x
<1>1. /\ d \o a \in Seq(S) /\ Len(d \o a) = Len(d) + Len(a)
      /\ Len(d) \in Nat /\ Len(a) \in Nat
      /\ \A i \in 1..Len(d) : (d \o a)[i] = d[i]
  BY ConcatProperties, LenProperties
<1>2. d \o a \o <<x>> = Append(d \o a, x)
  BY <1>1, AppendIsConcat
<1>3. \A i \in 1..Len(d) : i \in 1..Len(d \o a)
  BY <1>1
<1> QED BY <1>1, <1>2, <1>3, AppendProperties

\* What is flushed begins with what was on the way, and its last is the answer.
LEMMA FlushedElements ==
  ASSUME NEW message \in {"ack", "error"}, NoteTypes
  PROVE  /\ Len(Note!Flushed(message)) = Len(down) + held + 1
         /\ \A i \in 1..Len(down) : Note!Flushed(message)[i] = down[i]
         /\ Note!Flushed(message)[Len(down) + held + 1] = message
<1> DEFINE S == {"ack", "error"}
           a == [i \in 1..held |-> "ack"]
<1>1. message \in S /\ down \in Seq(S) /\ held \in Nat /\ a \in Seq(S) /\ Len(a) = held
  BY DEF NoteTypes
<1> HIDE DEF S, a
<1>2. ASSUME NEW x \in S
      PROVE  /\ Len(down \o a \o <<x>>) = Len(down) + Len(a) + 1
             /\ \A i \in 1..Len(down) : (down \o a \o <<x>>)[i] = down[i]
             /\ (down \o a \o <<x>>)[Len(down) + Len(a) + 1] = x
  <2>1. down \in Seq(S) /\ a \in Seq(S)
    BY <1>1
  <2> QED BY ONLY <2>1, ElementsInARow
<1> QED BY <1>1, <1>2 DEF Note!Flushed, a

LEMMA TakenTyped == ASSUME NoteTypes PROVE Taken \subseteq Int
<1>1. dropped \subseteq Int /\ \A i \in 1..Len(handed) : handed[i] \in Int
  BY DEF NoteTypes
<1> QED BY <1>1 DEF Taken, ElementsOf

\* What has been reached stays so, as nothing is taken back.
LEMMA ReachesStays ==
  ASSUME NEW items \in SUBSET Int, NEW more, items \subseteq more,
         NEW n \in Int, NEW m \in Int, m <= n, Reaches(items, n)
  PROVE  Reaches(more, m)
  BY DEF Reaches

\* The item in hand is as far as the next answer tells of.
LEMMA InHandIsReached ==
  ASSUME NoteInv, handler = "acking", ~(cut /\ sender # "awaiting")
  PROVE  inHand \in Int /\ inHand >= Answered + Len(down) + held + 1
<1>1. PICK k \in 0..sent : TakenInv(k) /\ UpInv(k) /\ AcksInv(k)
  BY DEF NoteInv
<1>2. /\ sent \in Nat /\ held \in Nat /\ abandoned \in Nat /\ Len(down) \in Nat
      /\ Awaiting \in Nat /\ inHand = k
  BY <1>1 DEF NoteInv, NoteTypes, Awaiting, TakenInv
<1>3. Len(down) + held + (1 + (sent - k)) <= abandoned + Awaiting
  BY <1>1 DEF AcksInv, Acking
<1> QED BY <1>2, <1>3 DEF Answered

\* Where the count is the same and nothing is taken back, what was reached for
\* an answer still is.
LEMMA AnswersStay ==
  ASSUME NoteTypes, AnswersInv, Answered' = Answered, held' \in {0, held},
         UNCHANGED <<down, handed, dropped>>,
         cut /\ sender # "awaiting" => cut' /\ sender' # "awaiting",
         handler' \in {"reading", "acking"} => ending' = "none"
  PROVE  AnswersInv'
<1>1. Taken' = Taken
  BY DEF Taken, ElementsOf
<1>2. held \in Nat
  BY DEF NoteTypes
<1>3. CASE cut /\ sender # "awaiting"
  BY <1>3 DEF AnswersInv
<1>4. CASE ~(cut /\ sender # "awaiting")
  <2>1. ASSUME NEW i \in 1..Len(down'), down'[i] = "ack" PROVE Reaches(Taken', Answered' + i)
    BY <1>1, <1>4, <2>1 DEF AnswersInv
  <2>2. ASSUME held' > 0 PROVE Reaches(Taken', Answered' + Len(down') + held')
    BY <1>1, <1>2, <1>4, <2>2 DEF AnswersInv
  <2> QED BY <2>1, <2>2 DEF AnswersInv
<1> QED BY <1>3, <1>4

LEMMA AckArrivesAnswers ==
  ASSUME NoteInv, AnswersInv, Note!AckArrives PROVE AnswersInv'
<1>1. /\ sender = "awaiting" /\ down # << >> /\ sender' = "idle" /\ down' = Tail(down)
      /\ UNCHANGED <<sent, abandoned, handler, ending, held, handed, dropped, cut>>
  BY DEF Note!AckArrives, Note!receiverVars
<1>2. /\ sent \in Nat /\ held \in Nat /\ abandoned \in Nat /\ Len(down) \in Nat
      /\ Len(down') = Len(down) - 1
      /\ \A i \in 1..(Len(down) - 1) : down'[i] = down[i + 1]
  BY <1>1, HeadTailProperties DEF NoteInv, NoteTypes
<1>3. Answered' = Answered + 1 /\ Answered \in Int /\ Taken' = Taken
  BY <1>1, <1>2 DEF Answered, Awaiting, Taken, ElementsOf
<1>4. ASSUME NEW i \in 1..Len(down'), down'[i] = "ack" PROVE Reaches(Taken', Answered' + i)
  <2>1. i + 1 \in 1..Len(down) /\ down[i + 1] = "ack"
    BY <1>2, <1>4
  <2>2. Reaches(Taken, Answered + (i + 1))
    BY <1>1, <2>1 DEF AnswersInv
  <2>3. Answered' + i = Answered + (i + 1)
    BY <1>2, <1>3
  <2> QED BY <1>3, <2>2, <2>3
<1>5. ASSUME held' > 0 PROVE Reaches(Taken', Answered' + Len(down') + held')
  <2>1. Reaches(Taken, Answered + Len(down) + held)
    BY <1>1, <1>5 DEF AnswersInv
  <2>2. Answered' + Len(down') + held' = Answered + Len(down) + held
    BY <1>1, <1>2, <1>3
  <2> QED BY <1>3, <2>1, <2>2
<1> QED BY <1>1, <1>4, <1>5 DEF AnswersInv

\* The answer that is written, after what was held back.
LEMMA AnswerAnswers ==
  ASSUME NoteInv, AnswersInv, Note!Ack \/ Note!Reject PROVE AnswersInv'
<1>1. PICK message \in {"ack", "error"} :
        /\ handler = "acking" /\ handler' = "working"
        /\ down' = Note!Flushed(message) /\ held' = 0
        /\ message = "ack" => handed' = Append(handed, inHand)
        /\ handed' = handed \/ handed' = Append(handed, inHand)
        /\ UNCHANGED <<sender, sent, abandoned, dropped, cut>>
  BY DEF Note!Ack, Note!Reject, Note!receiverUnchanged, Note!senderVars
<1>2. /\ sent \in Nat /\ held \in Nat /\ abandoned \in Nat /\ Len(down) \in Nat
      /\ handed \in Seq(1..sent) /\ inHand \in 1..sent /\ NoteTypes
  <2>1. PICK k \in 0..sent : TakenInv(k)
    BY DEF NoteInv
  <2> QED BY <1>1, <2>1 DEF NoteInv, NoteTypes, TakenInv
<1>3. /\ Len(down') = Len(down) + held + 1
      /\ \A i \in 1..Len(down) : down'[i] = down[i]
      /\ down'[Len(down) + held + 1] = message
  BY <1>1, <1>2, FlushedElements
<1>4. /\ ElementsOf(Append(handed, inHand)) = ElementsOf(handed) \cup {inHand}
      /\ Taken \subseteq Taken'
  <2>1. ElementsOf(Append(handed, inHand)) = ElementsOf(handed) \cup {inHand}
    BY <1>2, HandOver
  <2>2. ElementsOf(handed') = ElementsOf(handed) \/ ElementsOf(handed') = ElementsOf(handed) \cup {inHand}
    BY <1>1, <2>1
  <2>3. dropped' = dropped
    BY <1>1
  <2> QED BY <2>1, <2>2, <2>3 DEF Taken
<1>5. Answered' = Answered /\ Answered \in Int
  BY <1>1, <1>2 DEF Answered, Awaiting
<1>6. CASE cut /\ sender # "awaiting"
  BY <1>1, <1>6 DEF AnswersInv
<1>7. CASE ~(cut /\ sender # "awaiting")
  <2>1. ASSUME NEW i \in 1..Len(down'), down'[i] = "ack" PROVE Reaches(Taken', Answered' + i)
    <3>1. CASE i <= Len(down)
      <4>1. i \in 1..Len(down) /\ down[i] = "ack"
        BY <1>2, <1>3, <2>1, <3>1
      <4>2. Reaches(Taken, Answered + i)
        BY <1>7, <4>1 DEF AnswersInv
      <4>3. Answered + i \in Int /\ Answered' + i = Answered + i
        BY <1>5
      <4> QED BY <1>2, <1>4, <4>2, <4>3, ReachesStays, TakenTyped
    <3>2. CASE i > Len(down) /\ i <= Len(down) + held
      <4>1. held > 0
        BY <1>2, <3>2
      <4>2. Reaches(Taken, Answered + Len(down) + held)
        BY <1>7, <4>1 DEF AnswersInv
      <4>3. Answered' + i <= Answered + Len(down) + held /\ Answered' + i \in Int
            /\ Answered + Len(down) + held \in Int
        BY <1>2, <1>5, <3>2
      <4> QED BY <1>2, <1>4, <4>2, <4>3, ReachesStays, TakenTyped
    <3>3. CASE i = Len(down) + held + 1
      <4>1. message = "ack"
        BY <1>3, <2>1, <3>3
      <4>2. inHand \in Taken'
        BY <1>1, <1>4, <4>1 DEF Taken
      <4>3. inHand >= Answered' + i
        BY <1>1, <1>2, <1>5, <1>7, <3>3, InHandIsReached
      <4> QED BY <4>2, <4>3 DEF Reaches
    <3> QED BY <1>2, <1>3, <3>1, <3>2, <3>3
  <2> QED BY <1>1, <2>1 DEF AnswersInv
<1> QED BY <1>6, <1>7

\* An acknowledgement that failed changes nothing for those on the way; one that
\* was abandoned is held back for the item that next() has dropped, and those held
\* before it are now on the way or still held.
LEMMA DropItemAnswers ==
  ASSUME NoteInv, AnswersInv, Note!AckFails \/ Note!AbandonNext PROVE AnswersInv'
<1>1. /\ handler = "acking" /\ handler' = "working" /\ dropped' = dropped \cup {inHand}
      /\ UNCHANGED <<sender, sent, abandoned, handed, cut>>
  BY DEF Note!AckFails, Note!AbandonNext, Note!receiverUnchanged, Note!senderVars
<1>2. /\ sent \in Nat /\ held \in Nat /\ abandoned \in Nat /\ Len(down) \in Nat /\ NoteTypes
  BY DEF NoteInv, NoteTypes
<1>3. Taken \subseteq Taken' /\ inHand \in Taken'
  BY <1>1 DEF Taken, ElementsOf
<1>4. Answered' = Answered /\ Answered \in Int
  BY <1>1, <1>2 DEF Answered, Awaiting
<1>5. CASE cut /\ sender # "awaiting"
  BY <1>1, <1>5 DEF AnswersInv
<1>6. CASE ~(cut /\ sender # "awaiting") /\ Note!AckFails
  <2>0. UNCHANGED <<down, held>>
    BY <1>6 DEF Note!AckFails
  <2>1. ASSUME NEW i \in 1..Len(down'), down'[i] = "ack" PROVE Reaches(Taken', Answered' + i)
    <3>1. Reaches(Taken, Answered + i)
      BY <1>6, <2>0, <2>1 DEF AnswersInv
    <3>2. Answered + i \in Int /\ Answered' + i = Answered + i
      BY <1>2, <1>4, <2>0
    <3> QED BY <1>2, <1>3, <3>1, <3>2, ReachesStays, TakenTyped
  <2>2. ASSUME held' > 0 PROVE Reaches(Taken', Answered' + Len(down') + held')
    <3>1. Reaches(Taken, Answered + Len(down) + held)
      BY <1>6, <2>0, <2>2 DEF AnswersInv
    <3>2. Answered + Len(down) + held \in Int /\ Answered' + Len(down') + held' = Answered + Len(down) + held
      BY <1>2, <1>4, <2>0
    <3> QED BY <1>2, <1>3, <3>1, <3>2, ReachesStays, TakenTyped
  <2> QED BY <1>1, <2>1, <2>2 DEF AnswersInv
<1>7. CASE ~(cut /\ sender # "awaiting") /\ Note!AbandonNext
  <2>1. PICK n \in 0..held : held' = held - n + 1 /\ down' = down \o [i \in 1..n |-> "ack"]
    BY <1>7 DEF Note!AbandonNext
  <2>2. Len(down') = Len(down) + n /\ \A i \in 1..Len(down) : down'[i] = down[i]
    BY <1>2, <2>1, HeldGoOut
  <2>3. ASSUME NEW i \in 1..Len(down'), down'[i] = "ack" PROVE Reaches(Taken', Answered' + i)
    <3>0. i \in Nat /\ i >= 1 /\ i <= Len(down) + n /\ n \in Nat /\ n <= held
      BY <1>2, <2>2
    <3>1. CASE i <= Len(down)
      <4>1. i \in 1..Len(down) /\ down[i] = "ack"
        BY <1>2, <2>2, <2>3, <3>0, <3>1
      <4>2. Reaches(Taken, Answered + i)
        BY <1>7, <4>1 DEF AnswersInv
      <4>3. Answered + i \in Int /\ Answered' + i = Answered + i
        BY <1>4
      <4> QED BY <1>2, <1>3, <4>2, <4>3, ReachesStays, TakenTyped
    <3>2. CASE i > Len(down)
      <4>1. held > 0
        BY <1>2, <3>0, <3>2
      <4>2. Reaches(Taken, Answered + Len(down) + held)
        BY <1>7, <4>1 DEF AnswersInv
      <4>3. Answered' + i <= Answered + Len(down) + held /\ Answered' + i \in Int
            /\ Answered + Len(down) + held \in Int
        BY <1>2, <1>4, <3>0
      <4> QED BY <1>2, <1>3, <4>2, <4>3, ReachesStays, TakenTyped
    <3> QED BY <1>2, <3>0, <3>1, <3>2
  <2>4. Reaches(Taken', Answered' + Len(down') + held')
    <3>1. inHand \in Int /\ inHand >= Answered + Len(down) + held + 1
      BY <1>1, <1>7, InHandIsReached
    <3>2. Answered' + Len(down') + held' = Answered + Len(down) + held + 1
      BY <1>2, <1>4, <2>1, <2>2
    <3> QED BY <1>3, <3>1, <3>2 DEF Reaches
  <2> QED BY <1>1, <2>3, <2>4 DEF AnswersInv
<1> QED BY <1>5, <1>6, <1>7

LEMMA StepAnswers == NoteInv /\ AnswersInv /\ Note!Next => AnswersInv'
<1> SUFFICES ASSUME NoteInv, AnswersInv, Note!Next PROVE AnswersInv'
  OBVIOUS
<1>1. NoteTypes /\ sent \in Nat /\ abandoned \in Nat
  BY DEF NoteInv, NoteTypes
<1>2. CASE Note!SendItem
  <2>1. /\ sender = "idle" /\ sender' = "awaiting" /\ sent' = sent + 1 /\ ~cut
        /\ UNCHANGED <<abandoned, handler, ending, held, down, handed, dropped>>
    BY <1>2 DEF Note!SendItem, Note!receiverVars
  <2>2. Answered' = Answered
    BY <1>1, <2>1 DEF Answered, Awaiting
  <2> QED BY <1>1, <2>1, <2>2, AnswersStay DEF AnswersInv
<1>3. CASE Note!AbandonSend
  <2>1. /\ sender = "awaiting" /\ sender' = "idle" /\ abandoned' = abandoned + 1
        /\ UNCHANGED <<sent, handler, ending, held, down, handed, dropped, cut>>
    BY <1>3 DEF Note!AbandonSend, Note!receiverVars
  <2>2. Answered' = Answered
    BY <1>1, <2>1 DEF Answered, Awaiting
  <2> QED BY <1>1, <2>1, <2>2, AnswersStay DEF AnswersInv
<1>4. CASE Note!Complete \/ Note!DropSender
  <2>1. /\ sender = "idle" /\ sender' = "gone"
        /\ UNCHANGED <<sent, abandoned, handler, ending, held, down, handed, dropped, cut>>
    BY <1>4 DEF Note!Complete, Note!DropSender, Note!receiverVars
  <2>2. Answered' = Answered
    BY <1>1, <2>1 DEF Answered, Awaiting
  <2> QED BY <1>1, <2>1, <2>2, AnswersStay DEF AnswersInv
<1>5. CASE Note!AckArrives
  BY <1>5, AckArrivesAnswers
<1>6. CASE Note!NoAckArrives
  <2>1. /\ sender = "awaiting" /\ sender' = "idle"
        /\ (handler = "over" /\ down = << >>) \/ cut
        /\ UNCHANGED <<handler, ending, held, down, cut>>
    BY <1>6 DEF Note!NoAckArrives, Note!receiverVars
  <2>2. CASE cut
    BY <2>1, <2>2 DEF AnswersInv
  <2>3. CASE handler = "over" /\ down = << >>
    <3>1. held = 0
      BY <2>3 DEF NoteInv, AcksInv
    <3> QED BY <2>1, <2>3, <3>1 DEF AnswersInv
  <2> QED BY <2>1, <2>2, <2>3
<1>7. CASE Note!CallNext \/ Note!Read \/ Note!ReadEnd \/ Note!HandlerReturns
  <2>1. /\ held' \in {0, held}
        /\ UNCHANGED <<sender, sent, abandoned, down, handed, dropped, cut>>
    BY <1>7 DEF Note!CallNext, Note!Read, Note!ReadEnd, Note!HandlerReturns,
       Note!receiverUnchanged, Note!senderVars
  <2>2. handler' \in {"reading", "acking"} => ending' = "none"
    BY <1>7 DEF AnswersInv, Note!CallNext, Note!Read, Note!ReadEnd, Note!HandlerReturns
  <2>3. Answered' = Answered
    BY <2>1 DEF Answered, Awaiting
  <2> QED BY <1>1, <2>1, <2>2, <2>3, AnswersStay
<1>8. CASE Note!Ack \/ Note!Reject
  BY <1>8, AnswerAnswers
<1>9. CASE Note!AckFails \/ Note!AbandonNext
  BY <1>9, DropItemAnswers
<1> QED BY <1>2, <1>3, <1>4, <1>5, <1>6, <1>7, <1>8, <1>9
        DEF Note!Next, Note!SenderStep, Note!HandlerStep, Note!ReceiverStep

LEMMA AnswersKeepInv == NoteInv /\ AnswersInv /\ [Next]_vars => AnswersInv'
<1> SUFFICES ASSUME NoteInv, AnswersInv, [Next]_vars PROVE AnswersInv'
  OBVIOUS
<1>1. ASSUME UNCHANGED noteVars, cut' = cut \/ cut' PROVE AnswersInv'
  <2>1. Answered' = Answered /\ NoteTypes
    BY <1>1 DEF noteVars, Answered, Awaiting, NoteInv
  <2> QED BY <1>1, <2>1, AnswersStay DEF noteVars, AnswersInv
<1>2. CASE UNCHANGED vars
  BY <1>1, <1>2 DEF vars
<1>3. CASE Next
  BY <1>1, <1>3, CutStays, StepAnswers DEF Next, LoseConnection
<1> QED BY <1>2, <1>3

LEMMA HandedIsElements == ASSUME NoteTypes PROVE NotePromise!Range(handed) = ElementsOf(handed)
<1>1. DOMAIN handed = 1..Len(handed)
  BY DEF NoteTypes
<1> QED BY <1>1 DEF NotePromise!Range, ElementsOf

\* Between two items, it is the turn of the one after those that were taken.
LEMMA TurnOfNext ==
  ASSUME NoteTypes, NEW k \in Nat, TakenInv(k), handler # "acking", ending = "none"
  PROVE  NotePromise!Turn(k + 1)
<1>1. NotePromise!Range(handed) \cup refused \cup dropped = 1..k
  BY HandedIsElements DEF TakenInv, InHandSet
<1>2. (k + 1) - 1 = k
  OBVIOUS
<1> QED BY <1>1, <1>2 DEF NotePromise!Turn

\* While an item is in hand it is its turn.
LEMMA TurnOfInHand ==
  ASSUME NoteInv, AnswersInv, handler = "acking"
  PROVE  inHand \in 1..sent /\ NotePromise!Turn(inHand)
<1>1. PICK k \in 0..sent : TakenInv(k)
  BY DEF NoteInv
<1>2. NoteTypes /\ sent \in Nat /\ ending = "none"
  BY DEF NoteInv, NoteTypes, AnswersInv
<1>3. /\ ElementsOf(handed) \cup refused \cup dropped \cup {inHand} = 1..k
      /\ inHand = k /\ k \notin ElementsOf(handed) \cup refused \cup dropped
  BY <1>1 DEF TakenInv, InHandSet
<1>4. k \in 1..sent /\ 1..(k - 1) = (1..k) \ {k}
  BY <1>2, <1>3
<1>5. ElementsOf(handed) \cup refused \cup dropped = 1..(k - 1)
  BY <1>3, <1>4
<1> QED BY <1>2, <1>3, <1>4, <1>5, HandedIsElements DEF NotePromise!Turn

\* What is read is the item after those that were taken.
LEMMA ReadsNextItem ==
  ASSUME NoteInv, Note!Read, Head(up) # 0
  PROVE  \E k \in 0..sent : TakenInv(k) /\ k + 1 \in 1..sent /\ Head(up) = k + 1
<1>1. PICK k \in 0..sent : TakenInv(k) /\ UpInv(k)
  BY DEF NoteInv
<1>2. sent \in Nat /\ up \in Seq(0..Items) /\ up # << >> /\ Len(up) \in Nat
  BY DEF NoteInv, NoteTypes, Note!Read
<1>3. Len(up) >= 1 /\ Head(up) = up[1]
  BY <1>2, EmptySeq
<1>4. ASSUME k = sent PROVE FALSE
  <2>1. Len(up) = 1 /\ up[Len(up)] = 0
    BY <1>1, <1>2, <1>3, <1>4 DEF UpInv
  <2> QED BY <1>3, <2>1
<1>5. 1 \in 1..(sent - k) /\ k + 1 \in 1..sent
  BY <1>2, <1>4
<1>6. up[1] = k + 1
  BY <1>1, <1>5 DEF UpInv
<1> QED BY <1>1, <1>3, <1>5, <1>6

\* The callback is told of the end when the client has closed its side and
\* every item has had its turn.
LEMMA EndIsTheEnd ==
  ASSUME NoteInv, NoteInv', ending = "none", ending' \in {"completed", "closed"},
         UNCHANGED <<sender, sent, handed, refused, dropped>>
  PROVE  sender = "gone" /\ NotePromise!Turn(sent + 1)
<1>1. PICK k \in 0..sent' : TakenInv(k)' /\ UpInv(k)'
  BY DEF NoteInv
<1>2. k = sent' /\ sender' = "gone" /\ handler' # "acking" /\ sent \in Nat
  BY <1>1 DEF UpInv, NoteInv, NoteTypes
<1>3. ElementsOf(handed') \cup refused' \cup dropped' = 1..k
  BY <1>1, <1>2 DEF TakenInv, InHandSet
<1>4. ElementsOf(handed) \cup refused \cup dropped = 1..sent
  BY <1>2, <1>3
<1>5. (sent + 1) - 1 = sent
  BY <1>2
<1> QED BY <1>2, <1>4, <1>5, HandedIsElements DEF NotePromise!Turn, NoteInv

NoteVars ==
  <<sent, sender = "awaiting", abandoned, oks, sender = "gone", handed, refused, dropped, ending>>

\* Ok: the head of the acknowledgements tells of an item that was taken.
LEMMA OkSimulates ==
  ASSUME NoteInv, AnswersInv, Note!AckArrives
  PROVE  NotePromise!Ok \/ NotePromise!Err
<1>1. /\ sender = "awaiting" /\ down # << >> /\ sender' = "idle"
      /\ oks' = IF Head(down) = "ack" THEN oks \cup {sent} ELSE oks
      /\ UNCHANGED <<sent, abandoned, handed, refused, dropped, ending>>
  BY DEF Note!AckArrives, Note!receiverVars
<1>2. CASE Head(down) # "ack"
  <2>1. NotePromise!Err
    BY <1>1, <1>2 DEF NotePromise!Err, NotePromise!receiverVars
  <2> QED BY <2>1
<1>3. CASE Head(down) = "ack"
  <2>1. NoteTypes /\ sent \in Nat /\ abandoned \in Nat
    BY DEF NoteInv, NoteTypes
  <2>2. 1 \in 1..Len(down) /\ down[1] = "ack"
    BY <1>1, <1>3, <2>1, EmptySeq DEF NoteTypes
  <2>3. Reaches(Taken, Answered + 1)
    BY <1>1, <2>2 DEF AnswersInv
  <2>4. PICK i \in Taken : i >= Answered + 1
    BY <2>3 DEF Reaches
  <2>5. i \in Int /\ Answered = sent - abandoned - 1
    BY <1>1, <2>1, <2>4, TakenTyped DEF Answered, Awaiting
  <2>6. sent <= i + abandoned
    BY <2>1, <2>4, <2>5
  <2>7. i \in NotePromise!Range(handed) \cup dropped
    BY <2>1, <2>4, HandedIsElements DEF Taken
  <2>8. NotePromise!Ok
    BY <1>1, <1>3, <2>6, <2>7 DEF NotePromise!Ok, NotePromise!receiverVars
  <2> QED BY <2>8
<1> QED BY <1>2, <1>3

LEMMA ReadSimulates ==
  ASSUME NoteInv, NoteInv', AnswersInv, Note!Read
  PROVE  NotePromise!Next \/ UNCHANGED NoteVars
<1>1. /\ handler = "reading" /\ ending = "none" /\ NoteTypes
      /\ UNCHANGED <<sender, sent, oks, abandoned, handed, dropped>>
  BY DEF Note!Read, Note!receiverUnchanged, Note!senderVars, NoteInv, AnswersInv
<1>2. CASE ending' = "completed" /\ UNCHANGED refused
  <2>1. NotePromise!End
    BY <1>1, <1>2, EndIsTheEnd DEF NotePromise!End, NotePromise!clientVars
  <2> QED BY <2>1 DEF NotePromise!Next
<1>3. CASE Head(up) # 0 /\ refused' = refused \cup {Head(up)} /\ UNCHANGED ending
  <2>1. PICK k \in 0..sent : TakenInv(k) /\ k + 1 \in 1..sent /\ Head(up) = k + 1
    BY <1>3, ReadsNextItem
  <2>2. NotePromise!Turn(k + 1)
    BY <1>1, <2>1, TurnOfNext
  <2>3. NotePromise!Refuse(k + 1)
    BY <1>1, <1>3, <2>1, <2>2 DEF NotePromise!Refuse, NotePromise!clientVars
  <2> QED BY <2>1, <2>3 DEF NotePromise!Next
<1>4. CASE UNCHANGED <<ending, refused>>
  BY <1>1, <1>4 DEF NoteVars
<1> QED BY <1>2, <1>3, <1>4 DEF Note!Read, Note!Completed

LEMMA NoteStepSimulates ==
  ASSUME NoteInv, NoteInv', AnswersInv, Note!Next
  PROVE  NotePromise!Next \/ UNCHANGED NoteVars
<1>1. CASE Note!SendItem
  <2>1. NotePromise!Send
    BY <1>1 DEF Note!SendItem, Note!receiverVars, NotePromise!Send, NotePromise!receiverVars
  <2> QED BY <2>1 DEF NotePromise!Next
<1>2. CASE Note!AbandonSend
  <2>1. NotePromise!GiveUp
    BY <1>2 DEF Note!AbandonSend, Note!receiverVars, NotePromise!GiveUp, NotePromise!receiverVars
  <2> QED BY <2>1 DEF NotePromise!Next
<1>3. CASE Note!Complete \/ Note!DropSender
  <2>1. NotePromise!Close
    BY <1>3 DEF Note!Complete, Note!DropSender, Note!receiverVars, NotePromise!Close,
       NotePromise!receiverVars
  <2> QED BY <2>1 DEF NotePromise!Next
<1>4. CASE Note!AckArrives
  BY <1>4, OkSimulates DEF NotePromise!Next
<1>5. CASE Note!NoAckArrives
  <2>1. NotePromise!Err
    BY <1>5 DEF Note!NoAckArrives, Note!receiverVars, NotePromise!Err, NotePromise!receiverVars
  <2> QED BY <2>1 DEF NotePromise!Next
<1>6. CASE Note!CallNext \/ Note!HandlerReturns
  BY <1>6 DEF Note!CallNext, Note!HandlerReturns, Note!receiverUnchanged, Note!senderVars, NoteVars
<1>7. CASE Note!Read
  BY <1>7, ReadSimulates
<1>8. CASE Note!ReadEnd
  <2>1. /\ ending = "none" /\ ending' \in {"closed", "error"}
        /\ UNCHANGED <<sender, sent, oks, abandoned, handed, refused, dropped>>
    BY <1>8 DEF Note!ReadEnd, Note!receiverUnchanged, Note!senderVars, AnswersInv
  <2>2. CASE ending' = "closed"
    <3>1. NotePromise!End
      BY <2>1, <2>2, EndIsTheEnd DEF NotePromise!End, NotePromise!clientVars
    <3> QED BY <3>1 DEF NotePromise!Next
  <2>3. CASE ending' = "error"
    <3>1. NotePromise!Break
      BY <2>1, <2>3 DEF NotePromise!Break, NotePromise!clientVars
    <3> QED BY <3>1 DEF NotePromise!Next
  <2> QED BY <2>1, <2>2, <2>3
<1>9. CASE Note!Ack
  <2>1. inHand \in 1..sent /\ NotePromise!Turn(inHand)
    BY <1>9, TurnOfInHand DEF Note!Ack
  <2>2. NotePromise!HandOver(inHand)
    BY <1>9, <2>1 DEF Note!Ack, Note!receiverUnchanged, Note!senderVars, NotePromise!HandOver,
       NotePromise!clientVars
  <2> QED BY <2>1, <2>2 DEF NotePromise!Next
<1>10. CASE Note!Reject
  <2>1. inHand \in 1..sent /\ NotePromise!Turn(inHand)
    BY <1>10, TurnOfInHand DEF Note!Reject
  <2>2. NotePromise!Refuse(inHand)
    BY <1>10, <2>1 DEF Note!Reject, Note!receiverUnchanged, Note!senderVars, NotePromise!Refuse,
       NotePromise!clientVars
  <2> QED BY <2>1, <2>2 DEF NotePromise!Next
<1>11. CASE Note!AckFails \/ Note!AbandonNext
  <2>1. inHand \in 1..sent /\ NotePromise!Turn(inHand)
    BY <1>11, TurnOfInHand DEF Note!AckFails, Note!AbandonNext
  <2>2. NotePromise!Lose(inHand)
    BY <1>11, <2>1 DEF Note!AckFails, Note!AbandonNext, Note!receiverUnchanged, Note!senderVars,
       NotePromise!Lose, NotePromise!clientVars
  <2> QED BY <2>1, <2>2 DEF NotePromise!Next
<1> QED BY <1>1, <1>2, <1>3, <1>4, <1>5, <1>6, <1>7, <1>8, <1>9, <1>10, <1>11
        DEF Note!Next, Note!SenderStep, Note!HandlerStep, Note!ReceiverStep

\* A notification stream keeps its contract: items are decided on in order, each
\* once, the end is told of after all of them, and an Ok, though it carries no
\* number, tells of an item at most as far behind as sends were abandoned.
THEOREM NotificationsKeepTheirContract == Spec => NotesKeepContract
<1>1. Init => NoteInv /\ AnswersInv /\ NotePromise!Init
  <2> SUFFICES ASSUME Init PROVE NoteInv /\ AnswersInv /\ NotePromise!Init
    OBVIOUS
  <2>1. PICK present \in BOOLEAN : Note!Init(present)
    BY DEF Init
  <2>2. NoteInv
    BY <2>1, InitNote
  <2>3. AnswersInv
    BY <2>1 DEF Note!Init, AnswersInv
  <2>4. NotePromise!Init
    BY <2>1 DEF Note!Init, NotePromise!Init
  <2> QED BY <2>2, <2>3, <2>4
<1>2. NoteInv /\ AnswersInv /\ [Next]_vars => NoteInv' /\ AnswersInv'
  BY NoteKeepsInv, AnswersKeepInv
<1>3. NoteInv /\ AnswersInv /\ NoteInv' /\ [Next]_vars
        => [NotePromise!Next]_(NotePromise!contractVars)
  <2> SUFFICES ASSUME NoteInv, AnswersInv, NoteInv', [Next]_vars
               PROVE  NotePromise!Next \/ UNCHANGED NotePromise!contractVars
    OBVIOUS
  <2>1. CASE UNCHANGED noteVars
    BY <2>1 DEF noteVars, NotePromise!contractVars, NotePromise!clientVars,
       NotePromise!receiverVars
  <2>2. CASE Note!Next
    BY <2>2, NoteStepSimulates DEF NoteVars, NotePromise!contractVars,
       NotePromise!clientVars, NotePromise!receiverVars
  <2> QED BY <2>1, <2>2 DEF Next, vars, LoseConnection
<1> QED BY <1>1, <1>2, <1>3, SpecIsSafe, PTL DEF SafeSpec, NotesKeepContract, NotePromise!Spec
=============================================================================
