---------------------------- MODULE QueryProofs ----------------------------
(***************************************************************************)
(* Proofs about Query, for every number of streams, values, labels and     *)
(* timestamps, every filter, limit and period: type correctness, that the  *)
(* answer is sorted and within its limit, that run-length encoding covers  *)
(* each value that passed the filter, that a peak reaches the answer of    *)
(* Max, and that streams that follow each other are merged without loss.   *)
(***************************************************************************)
EXTENDS Query, NumberFacts, SequenceTheorems

Time(a)    == Val(a).ts
PassedOf(g)  == Range(passed[g])
EmittedOf(g) == Range(emitted[g])

\* Get has a value to send, and a limit when it cuts.
HandInv ==
    /\ pc = "send" => value # Nothing
    /\ pc = "cut" => request.limit # NoLimit

\* The stored streams are sorted, and a value of Max has no string.
StreamInv ==
    /\ StreamsSorted
    /\ \A k \in DOMAIN heap[0] : heap[0][k].s = NoString

\* A group that Get has not started yet is untouched, and shares no stream with
\* the one Get works on.
TodoInv ==
    /\ pc \notin {"next", "done"} =>
          group \notin todo /\ (request.by => group # AnyLabel)
    /\ request.by => AnyLabel \notin todo
    /\ ~request.by => todo \subseteq {AnyLabel} /\ group = AnyLabel
    /\ \A g \in todo :
          /\ passed[g] = <<>> /\ emitted[g] = <<>>
          /\ \A i \in Members(g) : indexes[i] = 0

\* The channels are closed one after the other, when nothing is left to send.
ClosedInv ==
    /\ merged = Closed => Left = {}
    /\ request.duration > 0 /\ mutated = Closed => merged = Closed
    /\ ~ (request.duration > 0) => mutated = Nothing

\* The value a was made by Max, or taken from its stream.
Old(a) == a[1] \in Ids => a[2] <= indexes[a[1]]

\* Get has not handed the value a to any writer.
Fresh(a) == \A g \in Groups : a \notin PassedOf(g)

\* A value goes through the pipeline once: what is in a channel or in the
\* hands of Get was never passed, and what was passed, was passed once.
PlaceInv ==
    /\ merged \in Addresses => merged[1] \in Ids /\ Old(merged) /\ Fresh(merged)
    /\ mutated \in Addresses => mutated[1] = 0 /\ Fresh(mutated)
    /\ pc = "send" =>
          /\ Old(value) /\ Fresh(value)
          /\ value # merged /\ value # mutated
          /\ request.duration > 0 => value[1] = 0
    /\ \A g \in Groups : \A a \in PassedOf(g) :
          Old(a) /\ (request.duration > 0 => a[1] = 0)
    /\ \A g, h \in Groups : g # h => PassedOf(g) \cap PassedOf(h) = {}

\* What a writer works on was passed to it, and it writes a value once.
WriterInv ==
    \A g \in Groups :
        /\ Range(written[g]) \subseteq PassedOf(g) \ {appending[g]}
        /\ appending[g] # Nothing => appending[g] \in PassedOf(g)
        /\ before[g] # NotRead =>
              /\ appending[g] # Nothing
              /\ Range(before[g]) \subseteq PassedOf(g) \ {appending[g]}
        /\ pc = "cut" /\ g = group => Range(cut) \subseteq PassedOf(g) \ {appending[g]}

\* The values that Get has sent, or is about to send, are not after t.
NotAfter(t) ==
    /\ \A a \in PassedOf(group) : Time(a) <= t
    /\ pc = "send" => Time(value) <= t

\* Along the pipeline, the timestamps do not decrease.
OrderInv ==
    /\ pc = "send" => \A a \in PassedOf(group) : Time(a) <= Time(value)
    /\ Channel \in Addresses => NotAfter(Time(Channel))
    /\ request.duration > 0 =>
          /\ NotAfter(lastTimestamp)
          /\ mutated \in Addresses => Time(mutated) <= lastTimestamp
          /\ merged \in Addresses => lastTimestamp <= Time(merged)
          /\ \A i \in Left : lastTimestamp <= Time(HeadOf(i))
    /\ \A i \in Left :
          /\ NotAfter(Time(HeadOf(i)))
          /\ merged \in Addresses => Time(merged) <= Time(HeadOf(i))

\* A writer has the youngest of the values that were passed to it.
YoungestInv ==
    \A g \in Groups : appending[g] # Nothing =>
        \A a \in PassedOf(g) : Time(a) <= Time(appending[g])

Sorted(s) == \A j, k \in DOMAIN s : j < k => Time(s[j]) <= Time(s[k])

SortInv ==
    /\ Sorted(cut)
    /\ \A g \in Groups : Sorted(written[g]) /\ (before[g] # NotRead => Sorted(before[g]))

\* 1 if the writer of the group g is at work.
Busy(g) == IF appending[g] = Nothing THEN 0 ELSE 1

\* What is written was passed, and Get counts what it passes.
LenInv ==
    /\ \A g \in Groups :
          /\ Len(written[g]) + Busy(g) <= Len(passed[g])
          /\ before[g] # NotRead => appending[g] # Nothing /\ Len(before[g]) < Len(passed[g])
    /\ pc \in {"receive", "send"} => count = Len(passed[group])
    /\ pc = "cut" =>
          /\ Len(cut) + Busy(group) <= Len(passed[group])
          /\ request.limit # NoLimit /\ Len(passed[group]) >= request.limit
          /\ ~raced => appending[group] = Nothing

\* Without a race, what Get is done with is within the limit.
LimitInv ==
    request.limit # NoLimit /\ ~raced => \A g \in Groups :
        \/ g = group /\ pc \in {"receive", "send", "cut", "panic"}
        \/ /\ Len(written[g]) + Busy(g) <= request.limit
           /\ before[g] # NotRead => Len(before[g]) < request.limit

\* Get does not cut the values of the group g, as far as one can tell.
Uncut(g) == request.limit = NoLimit \/ Len(passed[g]) < request.limit

\* The values of the group g are numbers.
Plain(g) == \A a \in PassedOf(g) : Val(a).s = NoString

\* The value a is part of the run that w begins.
InRun(w, a) ==
    /\ Val(w).d = Val(a).d
    /\ Time(w) = Time(a) \/ (Time(w) < Time(a) /\ Time(a) <= Val(w).end)

\* The value a has been merged into the run of another.
MergedAway(g, a) == a \in PassedOf(g) /\ a # appending[g] /\ a \notin Range(written[g])

\* No value that was merged into a run ended before it began.
Right(g) == \A a \in PassedOf(g) :
    MergedAway(g, a) => Val(a).end = NoTime \/ Time(a) <= Val(a).end

\* Each value passed to a writer, but the one it works on, has its number in
\* what is written, and is in a run of it unless an end was wrong.
CoverInv ==
    \A g \in Groups : Uncut(g) =>
        /\ before[g] # NotRead => before[g] = written[g]
        /\ Plain(g) => \A a \in PassedOf(g) :
              a = appending[g] \/ \E w \in Range(written[g]) :
                  Val(w).d = Val(a).d /\ (Right(g) => InRun(w, a))

\* Once the response is encoded, no writer is at work.
DoneInv == pc = "done" /\ ~raced => \A g \in Groups : appending[g] = Nothing

\* What Max and Get have made of the values merged so far.
Shows(a) ==
    \/ \E b \in PassedOf(group) : Val(b).d >= Val(a).d
    \/ pc = "send" /\ Val(value).d >= Val(a).d
    \/ mutated \in Addresses /\ Val(mutated).d >= Val(a).d

Unfiltered == request.duration > 0 /\ request.min = NoTime /\ request.max = MaxTime

\* A peak that Max has seen is in the current period, or on its way.
Counted(a) ==
    /\ ~first
    /\ Time(a) < lastTimestamp + request.duration
    /\ (lastTimestamp <= Time(a) /\ Val(a).d <= max) \/ Shows(a)

PeriodInv ==
    Unfiltered /\ pc \in {"receive", "send"} =>
        \A a \in EmittedOf(group) : a # merged => Counted(a)

\* Of the groups that Get is done with, a peak was passed if a period has ended
\* after it.
PeakInv ==
    Unfiltered => \A g \in Groups :
        \/ g = group /\ pc \in {"receive", "send"}
        \/ \A a, b \in EmittedOf(g) : Time(b) >= Time(a) + request.duration
              => \E c \in PassedOf(g) : Val(c).d >= Val(a).d

\* Of streams that follow each other, what is taken is sent.
MergedInv ==
    Consecutive(group) => \A i \in Members(group) : \A k \in 1..indexes[i] :
        <<i, k>> \in EmittedOf(group)

-----------------------------------------------------------------------------
(***************************************************************************)
(* The heap.                                                               *)
(***************************************************************************)
\* The range of a sequence that grows, and of a part of one.
LEMMA RangeFacts ==
    ASSUME NEW S, NEW s \in Seq(S)
    PROVE  /\ \A e \in S : Range(Append(s, e)) = Range(s) \cup {e}
           /\ \A m \in 1..Len(s) : s[m] \in Range(s)
           /\ \A x \in Range(s) : \E m \in 1..Len(s) : x = s[m]
           /\ Range(s) \subseteq S
<1>1. DOMAIN s = 1..Len(s) /\ Len(s) \in Nat /\ \A m \in 1..Len(s) : s[m] \in S
  OBVIOUS
<1>2. ASSUME NEW e \in S
      PROVE  Range(Append(s, e)) = Range(s) \cup {e}
  <2>1. /\ DOMAIN Append(s, e) = 1..(Len(s) + 1)
        /\ \A m \in 1..Len(s) : Append(s, e)[m] = s[m]
        /\ Append(s, e)[Len(s) + 1] = e
    OBVIOUS
  <2>2. \A x : x \in Range(Append(s, e)) <=> \E m \in 1..(Len(s) + 1) : x = Append(s, e)[m]
    BY <2>1 DEF Range
  <2>3. \A x : x \in Range(s) <=> \E m \in 1..Len(s) : x = s[m]
    BY <1>1 DEF Range
  <2>4. \A x : x \in Range(Append(s, e)) <=> x \in Range(s) \/ x = e
    BY <1>1, <2>1, <2>2, <2>3
  <2> QED
    BY <2>4
<1> QED
  BY <1>1, <1>2 DEF Range

\* An address is a row and a place in it, and refers to a value.
LEMMA AddressFacts ==
    ASSUME NEW h \in [Rows -> Seq(Values)],
           NEW A, A = UNION {{<<i, k>> : k \in DOMAIN h[i]} : i \in Rows}
    PROVE  /\ \A a \in A : /\ a[1] \in Rows /\ a[2] \in 1..Len(h[a[1]])
                           /\ a = <<a[1], a[2]>>
                           /\ h[a[1]][a[2]] \in Values
                           /\ a # Nothing /\ a # Closed
           /\ \A i \in Rows : \A k \in 1..Len(h[i]) : <<i, k>> \in A
           /\ Nothing \notin A /\ Closed \notin A
<1>1. \A i \in Rows : h[i] \in Seq(Values)
  OBVIOUS
<1>2. \A i \in Rows : /\ DOMAIN h[i] = 1..Len(h[i]) /\ Len(h[i]) \in Nat
                      /\ \A k \in 1..Len(h[i]) : h[i][k] \in Values
  BY <1>1
<1>3. ASSUME NEW a \in A
      PROVE  /\ a[1] \in Rows /\ a[2] \in 1..Len(h[a[1]])
             /\ a = <<a[1], a[2]>>
             /\ h[a[1]][a[2]] \in Values
             /\ a # Nothing /\ a # Closed
  <2>1. PICK i \in Rows : \E k \in DOMAIN h[i] : a = <<i, k>>
    OBVIOUS
  <2>2. PICK k \in DOMAIN h[i] : a = <<i, k>>
    BY <2>1
  <2>3. k \in 1..Len(h[i]) /\ Len(h[i]) \in Nat /\ h[i][k] \in Values
    BY <1>2
  <2>4. a[1] = i /\ a[2] = k
    BY <2>2
  <2>5. k # 0
    BY <2>3
  <2> QED
    BY <2>2, <2>3, <2>4, <2>5 DEF Nothing, Closed
<1>4. ASSUME NEW i \in Rows, NEW k \in 1..Len(h[i])
      PROVE  <<i, k>> \in A
  BY <1>2
<1> QED
  BY <1>3, <1>4

\* A step extends runs and lets Max make a value, and changes nothing else of
\* the values.
HeapKept ==
    /\ heap' \in [Rows -> Seq(Values)]
    /\ \A i \in Ids : Len(heap'[i]) = Len(heap[i])
    /\ \A i \in Rows : \A k \in 1..Len(heap[i]) :
          /\ k \in 1..Len(heap'[i])
          /\ heap'[i][k].ts = heap[i][k].ts
          /\ heap'[i][k].d = heap[i][k].d
          /\ heap'[i][k].s = heap[i][k].s

\* The same of addresses.
LEMMA KeptFacts ==
    ASSUME heap \in [Rows -> Seq(Values)], HeapKept
    PROVE  \A a \in Addresses :
              /\ a \in Addresses'
              /\ heap'[a[1]][a[2]].ts = heap[a[1]][a[2]].ts
              /\ heap'[a[1]][a[2]].d = heap[a[1]][a[2]].d
              /\ heap'[a[1]][a[2]].s = heap[a[1]][a[2]].s
<1> TAKE a \in Addresses
<1>1. a[1] \in Rows /\ a[2] \in 1..Len(heap[a[1]]) /\ a = <<a[1], a[2]>>
  BY AddressFacts DEF Addresses
<1>2. /\ a[2] \in 1..Len(heap'[a[1]])
      /\ heap'[a[1]][a[2]].ts = heap[a[1]][a[2]].ts
      /\ heap'[a[1]][a[2]].d = heap[a[1]][a[2]].d
      /\ heap'[a[1]][a[2]].s = heap[a[1]][a[2]].s
  BY <1>1 DEF HeapKept
<1>3. <<a[1], a[2]>> \in Addresses'
  <2>1. heap' \in [Rows -> Seq(Values)]
    BY DEF HeapKept
  <2> QED
    BY <1>1, <1>2, <2>1, AddressFacts DEF Addresses
<1> QED
  BY <1>1, <1>2, <1>3

-----------------------------------------------------------------------------
(***************************************************************************)
(* Type correctness.                                                       *)
(***************************************************************************)
\* What the assumption says of the constants.
LEMMA ConstantFacts ==
    /\ MaxTime \in Nat /\ NumStreams \in Nat
    /\ Times \subseteq Nat \ {0}
    /\ Ids \subseteq Rows /\ Ids \subseteq 0..NumStreams /\ Ids \subseteq Nat \ {0}
    /\ 0 \in Rows /\ 0 \notin Ids
    /\ \A i \in Rows : i = 0 \/ i \in Ids
    /\ \A v \in Values : v.ts \in Nat /\ v.ts > 0 /\ v.end \in Nat /\ v.d \in Int
    /\ \A q \in Requests : /\ q.by \in BOOLEAN /\ q.min \in Nat /\ q.max \in Nat
                           /\ q.limit \in Nat \cup {NoLimit} /\ q.duration \in Nat
<1>1. /\ MaxTime \in Nat /\ NumStreams \in Nat
      /\ Times \subseteq Nat \ {0}
      /\ Ids \subseteq Rows /\ Ids \subseteq 0..NumStreams /\ Ids \subseteq Nat \ {0}
      /\ 0 \in Rows /\ 0 \notin Ids
      /\ \A i \in Rows : i = 0 \/ i \in Ids
  BY QueryAssumption DEF Times, Ids, Rows
<1>2. \A x \in Numbers \cup {0} : x \in Int
  BY QueryAssumption
<1>3. \A v \in Values : v.ts \in Nat /\ v.ts > 0 /\ v.end \in Nat /\ v.d \in Int
  <2> TAKE v \in Values
  <2>1. v.ts \in Times /\ v.end \in Times \cup {NoTime} /\ v.d \in Numbers \cup {0}
    BY Zenon DEF Values
  <2>2. v.ts \in Nat \ {0} /\ v.d \in Int
    BY <1>1, <1>2, <2>1
  <2>3. v.end \in Nat
    <3>1. \A x \in Times \cup {NoTime} : x \in Nat
      BY <1>1 DEF NoTime
    <3> QED
      BY <2>1, <3>1, Zenon
  <2> QED
    BY <2>2, <2>3
<1>4. \A q \in Requests : /\ q.by \in BOOLEAN /\ q.min \in Nat /\ q.max \in Nat
                           /\ q.limit \in Nat \cup {NoLimit} /\ q.duration \in Nat
  <2> TAKE q \in Requests
  <2>1. /\ q.by \in BOOLEAN /\ q.min \in MinTimes /\ q.max \in MaxTimes
        /\ q.limit \in Limits \cup {NoLimit} /\ q.duration \in Durations
    BY Zenon DEF Requests
  <2> QED
    BY <2>1, QueryAssumption
<1> QED
  BY <1>1, <1>3, <1>4

\* The part of the type invariant that the merge depends on.
MergeType ==
    /\ heap \in [Rows -> Seq(Values)]
    /\ indexes \in [Ids -> Nat]
    /\ \A i \in Ids : indexes[i] <= Len(heap[i])

\* A stream with values left has a next one.
LEMMA HeadFacts ==
    ASSUME MergeType, NEW i \in Left
    PROVE  /\ i \in Ids /\ i \in Members(group)
           /\ indexes[i] + 1 \in 1..Len(heap[i])
           /\ HeadOf(i) \in Addresses
           /\ HeadOf(i)[1] = i /\ HeadOf(i)[2] = indexes[i] + 1
           /\ Val(HeadOf(i)) = heap[i][indexes[i] + 1]
           /\ Val(HeadOf(i)) \in Values
           /\ Val(HeadOf(i)).ts \in Nat
<1>1. i \in Ids /\ i \in Rows /\ i \in Members(group) /\ indexes[i] < Len(heap[i])
  BY ConstantFacts DEF Left, Members
<1>2. indexes[i] \in Nat /\ heap[i] \in Seq(Values)
  BY <1>1 DEF MergeType
<1>3. Len(heap[i]) \in Nat
  BY <1>2
<1>4. indexes[i] + 1 \in 1..Len(heap[i])
  BY <1>1, <1>2, <1>3
<1>5. HeadOf(i)[1] = i /\ HeadOf(i)[2] = indexes[i] + 1
  BY DEF HeadOf
<1>6. heap[i][indexes[i] + 1] \in Values
  BY <1>2, <1>4
<1>7. HeadOf(i) \in Addresses
  BY <1>1, <1>4, AddressFacts DEF HeadOf, Addresses, MergeType
<1>8. Val(HeadOf(i)) = heap[i][indexes[i] + 1]
  BY <1>5 DEF Val
<1> QED
  BY <1>1, <1>4, <1>5, <1>6, <1>7, <1>8, ConstantFacts

\* MergeValueStreams sends the first of the streams with the least timestamp.
LEMMA SentFacts ==
    ASSUME MergeType, Left # {}
    PROVE  /\ Sent \in Taken /\ Sent \in Left
           /\ \A j \in Taken : j <= Sent
           /\ \A i \in Left : Time(HeadOf(Sent)) <= Time(HeadOf(i))
<1> DEFINE f(i) == Time(HeadOf(i))
<1> DEFINE T == {f(i) : i \in Left}
<1>1. \A i \in Left : f(i) \in Nat /\ i \in Ids /\ i \in Nat /\ i \in 0..NumStreams
  BY HeadFacts, ConstantFacts DEF Time
<1>2. Taken = {i \in Left : \A j \in Left : j < i => f(i) < f(j)}
  BY DEF Taken, Time
<1> HIDE DEF f
<1>3. PICK t \in T : \A u \in T : t <= u
  <2>1. T \in SUBSET Nat /\ T # {}
    BY <1>1
  <2> HIDE DEF T
  <2> QED
    BY <2>1, LeastNumber
<1>4. t \in Nat /\ \A i \in Left : t <= f(i)
  BY <1>1, <1>3
<1> DEFINE M == {i \in Left : f(i) = t}
<1>5. PICK m \in M : \A j \in M : m <= j
  <2>1. M \in SUBSET Nat /\ M # {}
    BY <1>1, <1>3
  <2> HIDE DEF M
  <2> QED
    BY <2>1, LeastNumber
<1>6. m \in Left /\ f(m) = t /\ m \in Nat
  BY <1>1, <1>5
<1>7. ASSUME NEW j \in Left, j < m
      PROVE  f(m) < f(j)
  <2>1. f(j) # t
    BY <1>1, <1>5, <1>6, <1>7
  <2> QED
    BY <1>1, <1>4, <1>6, <2>1
<1>8. m \in Taken
  BY <1>2, <1>6, <1>7
<1>9. PICK n \in Taken : \A j \in Taken : j <= n
  <2>1. Taken \in SUBSET (0..NumStreams) /\ Taken # {}
    BY <1>1, <1>2, <1>8
  <2> QED
    BY <2>1, ConstantFacts, GreatestNumber
<1>10. Sent \in Taken /\ \A j \in Taken : j <= Sent
  BY <1>9 DEF Sent
<1>11. Sent \in Left /\ Sent \in Nat /\ m <= Sent
  BY <1>1, <1>2, <1>8, <1>10
<1>12. Sent = m
  <2>1. SUFFICES ASSUME m < Sent
                 PROVE  FALSE
    BY <1>6, <1>11
  <2>2. f(Sent) < f(m)
    BY <1>2, <1>6, <1>10, <2>1
  <2> QED
    BY <1>1, <1>4, <1>6, <1>11, <2>2
<1> QED
  BY <1>4, <1>6, <1>10, <1>11, <1>12 DEF f

\* The sent value is the next one of a stream of the group.
LEMMA SentAddress ==
    ASSUME MergeType, Left # {}
    PROVE  /\ HeadOf(Sent) \in Addresses
           /\ HeadOf(Sent)[1] = Sent /\ HeadOf(Sent)[2] = indexes[Sent] + 1
           /\ Sent \in Ids /\ Sent \in Members(group)
BY SentFacts, HeadFacts

TypeInv == TypeOK /\ HandInv

\* A stored stream is a sequence of values.
LEMMA SeriesFacts ==
    ASSUME NEW x \in Series
    PROVE  x \in Seq(Values)
<1>1. PICK n \in 1..MaxLength : x \in [1..n -> Stored]
  BY DEF Series
<1>2. n \in Nat
  BY QueryAssumption
<1>3. Stored \subseteq Values
  <2> SUFFICES ASSUME NEW t \in Times, NEW e \in Ends, NEW y \in Contents
               PROVE  [ts |-> t, end |-> e, d |-> y.d, s |-> y.s] \in Values
    BY DEF Stored
  <2>1. e \in Times \cup {NoTime}
    BY QueryAssumption DEF Times, NoTime
  <2>2. y.d \in Numbers \cup {0} /\ y.s \in Strings \cup {NoString}
    BY DEF Contents
  <2> QED
    BY <2>1, <2>2 DEF Values
<1> QED
  BY <1>1, <1>2, <1>3

\* The invariant of types holds at first.
LEMMA TypeInit == Init => TypeInv
<1> SUFFICES ASSUME Init
             PROVE  TypeInv
  OBVIOUS
<1>1. Series \subseteq Seq(Values)
  BY SeriesFacts
<1>2. PICK ss \in [Ids -> {x \in Series : maybe_return_stream(x, request)}] :
          heap = [i \in Rows |-> IF i = 0 THEN <<>> ELSE ss[i]]
  BY DEF Init
<1>3. heap \in [Rows -> Seq(Values)]
  <2>1. \A i \in Ids : ss[i] \in Seq(Values)
    BY <1>1
  <2>2. \A i \in Rows : heap[i] \in Seq(Values)
    BY <1>2, <2>1, ConstantFacts
  <2> QED
    BY <1>2, <2>2
<1>4. \A i \in Ids : 0 <= Len(heap[i])
  BY <1>3, ConstantFacts
<1>5. label \in [Ids -> Labels \cup {NoLabel}]
  BY DEF Init
<1>6. todo \subseteq Groups /\ group \in Groups
  <2>1. ASSUME request.by
        PROVE  todo \subseteq Groups
    <3>1. todo = {label[i] : i \in Ids} \ {NoLabel}
      BY <2>1 DEF Init
    <3> QED
      BY <1>5, <3>1 DEF Groups
  <2>2. ASSUME ~request.by
        PROVE  todo \subseteq Groups
    BY <2>2 DEF Init, Groups
  <2> QED
    BY <2>1, <2>2 DEF Init, Groups
<1>7. /\ request \in Requests
      /\ indexes \in [Ids -> Nat]
      /\ \A i \in Ids : indexes[i] <= Len(heap[i])
      /\ first \in BOOLEAN /\ lastTimestamp \in Times \cup {NoTime}
      /\ max \in Numbers \cup {0} /\ count \in Nat
      /\ merged = Nothing /\ mutated = Nothing /\ value = Nothing
      /\ pc = "next" /\ raced \in BOOLEAN
  BY <1>4 DEF Init
<1>8. /\ cut \in Seq(Addresses)
      /\ written \in [Groups -> Seq(Addresses)]
      /\ appending \in [Groups -> Addresses \cup {Nothing}]
      /\ before \in [Groups -> Seq(Addresses) \cup {NotRead}]
      /\ answer \in [Groups -> Seq(Values)]
      /\ emitted \in [Groups -> Seq(Addresses)]
      /\ passed \in [Groups -> Seq(Addresses)]
  BY DEF Init
<1> QED
  BY <1>3, <1>5, <1>6, <1>7, <1>8 DEF TypeInv, TypeOK, HandInv

\* The parts of the type invariant other modules of the argument need.
LEMMA TypeFacts ==
    ASSUME TypeInv
    PROVE  /\ MergeType
           /\ heap \in [Rows -> Seq(Values)]
           /\ \A a \in Addresses :
                 /\ a[1] \in Rows /\ a[2] \in 1..Len(heap[a[1]])
                 /\ a = <<a[1], a[2]>>
                 /\ heap[a[1]][a[2]] \in Values /\ Val(a) \in Values
                 /\ Val(a).ts \in Nat /\ Val(a).ts > 0 /\ Val(a).ts \in Times
                 /\ Val(a).d \in Int /\ Val(a).end \in Nat
                 /\ a # Nothing /\ a # Closed
           /\ Nothing \notin Addresses /\ Closed \notin Addresses
           /\ NotRead \notin Seq(Addresses)
           /\ Nothing # Closed
<1>1. heap \in [Rows -> Seq(Values)]
  BY DEF TypeInv, TypeOK
<1>2. /\ \A a \in Addresses :
            /\ a[1] \in Rows /\ a[2] \in 1..Len(heap[a[1]])
            /\ a = <<a[1], a[2]>>
            /\ heap[a[1]][a[2]] \in Values
            /\ a # Nothing /\ a # Closed
      /\ Nothing \notin Addresses /\ Closed \notin Addresses
  BY <1>1, AddressFacts DEF Addresses
<1>3. NotRead \notin Seq(Addresses)
  <2>1. SUFFICES ASSUME NotRead \in Seq(Addresses)
                 PROVE  FALSE
    OBVIOUS
  <2>2. NotRead[1] = Nothing /\ Len(NotRead) = 1
    BY DEF NotRead
  <2>3. NotRead[1] \in Addresses
    BY <2>1, <2>2, ElementOfSeq
  <2> QED
    BY <1>2, <2>2, <2>3
<1>4. \A a \in Addresses : Val(a) \in Values
  BY <1>2 DEF Val
<1>5. \A v \in Values : v.ts \in Times /\ v.ts \in Nat /\ v.ts > 0
                           /\ v.end \in Nat /\ v.d \in Int
  <2>1. \A v \in Values : v.ts \in Times
    BY DEF Values
  <2> QED
    BY <2>1, ConstantFacts
<1>8. ASSUME NEW a \in Addresses
      PROVE  /\ Val(a).ts \in Nat /\ Val(a).ts > 0 /\ Val(a).ts \in Times
             /\ Val(a).d \in Int /\ Val(a).end \in Nat
  BY <1>4, <1>5
<1>6. Nothing # Closed
  BY DEF Nothing, Closed
<1>7. MergeType
  BY DEF TypeInv, TypeOK, MergeType
<1> QED
  BY <1>1, <1>2, <1>3, <1>4, <1>6, <1>7, <1>8

\* A step that leaves the heap alone keeps what is in it.
LEMMA HeapUnchanged ==
    ASSUME TypeInv, UNCHANGED heap
    PROVE  HeapKept /\ Addresses' = Addresses
<1>1. heap \in [Rows -> Seq(Values)]
  BY TypeFacts
<1>2. Addresses' = Addresses
  BY DEF Addresses
<1>3. \A i \in Rows : Len(heap[i]) \in Nat
  BY <1>1
<1> QED
  BY <1>1, <1>2, <1>3, ConstantFacts DEF HeapKept

\* Max appends a value to its row of the heap.
LEMMA HeapMax ==
    ASSUME TypeInv, NEW v \in Values, MaxNext(v)
    PROVE  /\ HeapKept
           /\ \A i \in Ids : heap'[i] = heap[i]
           /\ Len(heap'[0]) = Len(heap[0]) + 1 /\ Len(heap[0]) \in Nat
           /\ \A k \in 1..Len(heap[0]) : heap'[0][k] = heap[0][k]
           /\ heap'[0][Len(heap[0]) + 1] =
                 [ts |-> v.ts, end |-> NoTime, d |-> max, s |-> NoString]
           /\ mutated' = <<0, Len(heap[0]) + 1>> /\ mutated' \in Addresses'
           /\ mutated' \notin Addresses
           /\ \A a \in Addresses' : a \in Addresses \/ a = mutated'
           /\ \A a \in Addresses : heap'[a[1]][a[2]] = heap[a[1]][a[2]]
<1> DEFINE w == [ts |-> v.ts, end |-> NoTime, d |-> max, s |-> NoString]
<1>1. heap \in [Rows -> Seq(Values)] /\ heap[0] \in Seq(Values) /\ max \in Numbers \cup {0}
  BY TypeFacts, ConstantFacts DEF TypeInv, TypeOK
<1>2. heap' = [heap EXCEPT ![0] = Append(heap[0], w)] /\ mutated' = <<0, Len(heap[0]) + 1>>
  BY DEF MaxNext, Value
<1>3. w \in Values
  <2>1. v.ts \in Times
    BY DEF Values
  <2> QED
    BY <1>1, <2>1 DEF Values
<1> HIDE DEF w
<1>4. /\ Append(heap[0], w) \in Seq(Values)
      /\ Len(Append(heap[0], w)) = Len(heap[0]) + 1
      /\ Len(heap[0]) \in Nat
      /\ \A k \in 1..Len(heap[0]) : Append(heap[0], w)[k] = heap[0][k]
      /\ Append(heap[0], w)[Len(heap[0]) + 1] = w
  BY <1>1, <1>3
<1>5. heap'[0] = Append(heap[0], w) /\ \A i \in Ids : heap'[i] = heap[i]
  BY <1>1, <1>2, ConstantFacts
<1>6. heap' \in [Rows -> Seq(Values)]
  BY <1>1, <1>2, <1>4
<1>7. \A i \in Rows : Len(heap[i]) \in Nat
  BY <1>1
<1>8. HeapKept
  <2>1. ASSUME NEW i \in Rows, NEW k \in 1..Len(heap[i])
        PROVE  k \in 1..Len(heap'[i]) /\ heap'[i][k] = heap[i][k]
    <3>1. CASE i = 0
      BY <1>4, <1>5, <3>1
    <3>2. CASE i \in Ids
      BY <1>5, <3>2
    <3> QED
      BY <3>1, <3>2, ConstantFacts
  <2> QED
    BY <1>5, <1>6, <2>1 DEF HeapKept
<1>9. /\ \A a \in Addresses' : /\ a[1] \in Rows /\ a[2] \in 1..Len(heap'[a[1]])
                               /\ a = <<a[1], a[2]>>
      /\ \A i \in Rows : \A k \in 1..Len(heap'[i]) : <<i, k>> \in Addresses'
  BY <1>6, AddressFacts DEF Addresses
<1>10. /\ \A i \in Rows : \A k \in 1..Len(heap[i]) : <<i, k>> \in Addresses
       /\ \A a \in Addresses : /\ a[1] \in Rows /\ a[2] \in 1..Len(heap[a[1]])
                               /\ a = <<a[1], a[2]>>
  BY <1>1, AddressFacts DEF Addresses
<1>11. ASSUME NEW a \in Addresses'
       PROVE  a \in Addresses \/ a = mutated'
  <2>1. a[1] \in Rows /\ a[2] \in 1..Len(heap'[a[1]]) /\ a = <<a[1], a[2]>>
    BY <1>9
  <2>2. CASE a[1] = 0
    <3>1. a[2] \in 1..(Len(heap[0]) + 1)
      BY <1>4, <1>5, <2>1, <2>2
    <3>2. CASE a[2] = Len(heap[0]) + 1
      BY <1>2, <2>1, <2>2, <3>2
    <3>3. CASE a[2] # Len(heap[0]) + 1
      <4>1. a[2] \in 1..Len(heap[0])
        BY <1>4, <3>1, <3>3
      <4>2. <<0, a[2]>> \in Addresses
        BY <1>10, <4>1, ConstantFacts
      <4> QED
        BY <2>1, <2>2, <4>2
    <3> QED
      BY <3>2, <3>3
  <2>3. CASE a[1] \in Ids
    <3>1. heap'[a[1]] = heap[a[1]]
      BY <1>5, <2>3
    <3>2. a[2] \in 1..Len(heap[a[1]])
      BY <2>1, <3>1
    <3>3. <<a[1], a[2]>> \in Addresses
      BY <1>10, <2>1, <3>2
    <3> QED
      BY <2>1, <3>3
  <2> QED
    BY <2>1, <2>2, <2>3, ConstantFacts
<1>12. mutated' \in Addresses' /\ mutated' \notin Addresses
  <2>1. Len(heap'[0]) = Len(heap[0]) + 1
    BY <1>4, <1>5
  <2>2. Len(heap[0]) + 1 \in 1..Len(heap'[0])
    BY <1>4, <2>1
  <2>3. <<0, Len(heap[0]) + 1>> \in Addresses'
    BY <1>9, <2>2, ConstantFacts
  <2>4. ASSUME <<0, Len(heap[0]) + 1>> \in Addresses
        PROVE  FALSE
    <3>1. Len(heap[0]) + 1 \in 1..Len(heap[0])
      BY <1>10, <2>4
    <3> QED
      BY <1>4, <3>1
  <2> QED
    BY <1>2, <2>3, <2>4
<1>13. \A a \in Addresses : heap'[a[1]][a[2]] = heap[a[1]][a[2]]
  <2> TAKE a \in Addresses
  <2>1. a[1] \in Rows /\ a[2] \in 1..Len(heap[a[1]])
    BY <1>10
  <2>2. CASE a[1] = 0
    BY <1>4, <1>5, <2>1, <2>2
  <2>3. CASE a[1] \in Ids
    BY <1>5, <2>3
  <2> QED
    BY <2>1, <2>2, <2>3, ConstantFacts
<1>14. heap'[0][Len(heap[0]) + 1] = w
  BY <1>4, <1>5
<1>15. Len(heap'[0]) = Len(heap[0]) + 1 /\ \A k \in 1..Len(heap[0]) : heap'[0][k] = heap[0][k]
  BY <1>4, <1>5
<1> QED
  BY <1>2, <1>4, <1>5, <1>8, <1>11, <1>12, <1>13, <1>14, <1>15 DEF w

\* A writer that extends a run changes the end of one value.
LEMMA HeapExtend ==
    ASSUME TypeInv, NEW u \in Addresses, NEW a \in Addresses,
           heap' = [heap EXCEPT ![u[1]][u[2]] = Extend(@, Val(a))]
    PROVE  /\ HeapKept /\ Addresses' = Addresses
           /\ \A b \in Addresses : b # u => heap'[b[1]][b[2]] = heap[b[1]][b[2]]
           /\ heap'[u[1]][u[2]].end = IF Val(a).end > 0 THEN Val(a).end ELSE Val(a).ts
           /\ \A k \in DOMAIN heap[0] : heap'[0][k].s = heap[0][k].s
<1> DEFINE e == IF Val(a).end > 0 THEN Val(a).end ELSE Val(a).ts
<1>1. heap \in [Rows -> Seq(Values)]
  BY TypeFacts
<1>2. PICK i \in Rows : \E k \in 1..Len(heap[i]) : u = <<i, k>> /\ u[1] = i /\ u[2] = k
  <2>1. u[1] \in Rows /\ u[2] \in 1..Len(heap[u[1]]) /\ u = <<u[1], u[2]>>
    BY TypeFacts
  <2> QED
    BY <2>1
<1>20. PICK k \in 1..Len(heap[i]) : u = <<i, k>> /\ u[1] = i /\ u[2] = k
  BY <1>2
<1>3. e \in Times
  <2>1. Val(a) \in Values /\ Val(a).end \in Nat
    BY TypeFacts
  <2>2. Val(a).ts \in Times /\ Val(a).end \in Times \cup {NoTime}
    BY <2>1, Zenon DEF Values
  <2>3. Val(a).end > 0 => Val(a).end \in Times
    BY <2>2 DEF NoTime
  <2> QED
    BY <2>2, <2>3
<1>4. heap[i] \in Seq(Values) /\ Len(heap[i]) \in Nat
  BY <1>1
<1>5. heap[i][k] \in Values
  BY <1>4
<1> DEFINE x == [heap[i][k] EXCEPT !.end = e]
<1> DEFINE r == [heap[i] EXCEPT ![k] = x]
<1>6. heap' = [heap EXCEPT ![i] = r]
  BY <1>20, Zenon DEF Extend
<1>7. /\ x \in Values
      /\ x.ts = heap[i][k].ts /\ x.d = heap[i][k].d /\ x.s = heap[i][k].s /\ x.end = e
  <2> HIDE DEF e
  <2> QED
    BY <1>3, <1>5 DEF Values
<1> HIDE DEF x
<1>8. /\ r \in Seq(Values) /\ Len(r) = Len(heap[i])
      /\ \A j \in 1..Len(heap[i]) : r[j] = IF j = k THEN x ELSE heap[i][j]
  BY <1>4, <1>7, ExceptSeq
<1> HIDE DEF r
<1>9. heap' \in [Rows -> Seq(Values)] /\ heap'[i] = r /\ \A j \in Rows : j # i => heap'[j] = heap[j]
  BY <1>1, <1>6, <1>8
<1>10. \A j \in Rows : Len(heap'[j]) = Len(heap[j]) /\ Len(heap[j]) \in Nat
  BY <1>1, <1>8, <1>9
<1>11. ASSUME NEW j \in Rows, NEW m \in 1..Len(heap[j])
       PROVE  /\ m \in 1..Len(heap'[j])
              /\ heap'[j][m].ts = heap[j][m].ts
              /\ heap'[j][m].d = heap[j][m].d
              /\ heap'[j][m].s = heap[j][m].s
              /\ <<j, m>> # u => heap'[j][m] = heap[j][m]
  <2>1. CASE j = i /\ m = k
    BY <1>20, <1>7, <1>8, <1>9, <1>10, <2>1
  <2>2. CASE j = i /\ m # k
    BY <1>8, <1>9, <1>10, <2>2
  <2>3. CASE j # i
    BY <1>9, <1>10, <2>3
  <2> QED
    BY <2>1, <2>2, <2>3
<1>12. HeapKept
  BY <1>9, <1>10, <1>11, ConstantFacts DEF HeapKept
<1>13. \A j \in Rows : DOMAIN heap'[j] = DOMAIN heap[j]
  BY <1>1, <1>9, <1>10
<1>14. Addresses' = Addresses
  BY <1>13 DEF Addresses
<1>15. ASSUME NEW b \in Addresses, b # u
       PROVE  heap'[b[1]][b[2]] = heap[b[1]][b[2]]
  <2>1. b[1] \in Rows /\ b[2] \in 1..Len(heap[b[1]]) /\ b = <<b[1], b[2]>>
    BY TypeFacts
  <2> QED
    BY <1>11, <1>15, <2>1
<1>16. heap'[u[1]][u[2]].end = e
  BY <1>20, <1>7, <1>8, <1>9
<1>17. \A m \in DOMAIN heap[0] : heap'[0][m].s = heap[0][m].s
  <2>1. 0 \in Rows /\ DOMAIN heap[0] = 1..Len(heap[0])
    BY <1>1, ConstantFacts
  <2> QED
    BY <1>11, <2>1
<1> QED
  BY <1>12, <1>14, <1>15, <1>16, <1>17

\* The type invariant when the heap may have grown and the addresses elsewhere
\* are old ones.
LEMMA TypeGrown ==
    ASSUME TypeInv, HeapKept,
           merged' \in Addresses' \cup {Nothing, Closed},
           mutated' \in Addresses' \cup {Nothing, Closed},
           first' \in BOOLEAN,
           lastTimestamp' \in Times \cup {NoTime},
           max' \in Numbers \cup {0},
           appending' \in [Groups -> Addresses' \cup {Nothing}],
           written' \in [Groups -> Seq(Addresses')],
           before' \in [Groups -> Seq(Addresses') \cup {NotRead}],
           UNCHANGED <<dataVars, indexes, emitted, getVars, answer, raced>>
    PROVE  TypeInv'
<1>1. Addresses \subseteq Addresses'
  BY KeptFacts, TypeFacts
<1>2. /\ value' \in Addresses' \cup {Nothing}
      /\ cut' \in Seq(Addresses')
  BY <1>1, SeqMonotonic DEF TypeInv, TypeOK, getVars
<1>3. emitted' \in [Groups -> Seq(Addresses')] /\ passed' \in [Groups -> Seq(Addresses')]
  <2>1. /\ emitted \in [Groups -> Seq(Addresses)] /\ passed \in [Groups -> Seq(Addresses)]
        /\ emitted' = emitted /\ passed' = passed
    BY DEF TypeInv, TypeOK, getVars
  <2>2. \A s \in Seq(Addresses) : s \in Seq(Addresses')
    BY <1>1, SeqMonotonic
  <2> QED
    BY <2>1, <2>2
<1>4. \A i \in Ids : indexes'[i] <= Len(heap'[i])
  BY DEF TypeInv, TypeOK, HeapKept
<1>5. HandInv'
  BY DEF TypeInv, HandInv, dataVars, getVars
<1>6. heap' \in [Rows -> Seq(Values)]
  BY DEF HeapKept
<1> QED
  BY <1>2, <1>3, <1>4, <1>5, <1>6 DEF TypeInv, TypeOK, dataVars, getVars

\* MergeValueStreams keeps the types.
LEMMA TypeMerge == TypeInv /\ MergeValueStreams => TypeInv'
<1> SUFFICES ASSUME TypeInv, MergeValueStreams
             PROVE  TypeInv'
  OBVIOUS
<1>1. Addresses' = Addresses /\ UNCHANGED <<heap, dataVars, maxVars, getVars, writeVars, raced>>
  BY HeapUnchanged DEF MergeValueStreams
<1>2. MergeType
  BY TypeFacts
<1>3. merged' \in Addresses \cup {Nothing, Closed} /\ emitted' \in [Groups -> Seq(Addresses)]
  <2>1. group \in Groups /\ emitted \in [Groups -> Seq(Addresses)]
    BY DEF TypeInv, TypeOK
  <2>2. CASE /\ Left # {}
             /\ merged' = HeadOf(Sent)
             /\ emitted' = [emitted EXCEPT ![group] = Append(@, HeadOf(Sent))]
    <3>1. HeadOf(Sent) \in Addresses
      BY <1>2, <2>2, SentAddress
    <3>2. Append(emitted[group], HeadOf(Sent)) \in Seq(Addresses)
      BY <2>1, <3>1
    <3> QED
      BY <2>1, <2>2, <3>1, <3>2
  <2>3. CASE Left = {} /\ merged' = Closed /\ UNCHANGED emitted
    BY <2>1, <2>3
  <2> QED
    BY <2>2, <2>3 DEF MergeValueStreams
<1>4. indexes' \in [Ids -> Nat] /\ \A i \in Ids : indexes'[i] <= Len(heap[i])
  <2>1. indexes' = [i \in Ids |-> IF i \in Taken THEN indexes[i] + 1 ELSE indexes[i]]
    BY DEF MergeValueStreams
  <2>2. \A i \in Ids : indexes[i] \in Nat /\ indexes[i] <= Len(heap[i]) /\ Len(heap[i]) \in Nat
    BY <1>2, ConstantFacts DEF MergeType
  <2>3. \A i \in Taken : indexes[i] < Len(heap[i])
    BY DEF Taken, Left
  <2> QED
    BY <2>1, <2>2, <2>3
<1>5. HandInv'
  BY <1>1 DEF TypeInv, HandInv, dataVars, getVars
<1> QED
  BY <1>1, <1>3, <1>4, <1>5 DEF TypeInv, TypeOK, dataVars, maxVars, getVars, writeVars

\* Max keeps the types.
LEMMA TypeMax == TypeInv /\ MaxStep => TypeInv' /\ HeapKept
<1> SUFFICES ASSUME TypeInv, MaxStep
             PROVE  TypeInv' /\ HeapKept
  OBVIOUS
<1>1. UNCHANGED <<dataVars, indexes, emitted, getVars, writeVars, raced>>
  BY DEF MaxStep
<1>2. /\ merged \in Addresses \cup {Nothing, Closed}
      /\ mutated \in Addresses \cup {Nothing, Closed}
      /\ lastTimestamp \in Times \cup {NoTime} /\ max \in Numbers \cup {0}
      /\ first \in BOOLEAN
      /\ appending \in [Groups -> Addresses \cup {Nothing}]
      /\ written \in [Groups -> Seq(Addresses)]
      /\ before \in [Groups -> Seq(Addresses) \cup {NotRead}]
  BY DEF TypeInv, TypeOK
<1>3. /\ HeapKept
      /\ merged' \in Addresses' \cup {Nothing, Closed}
      /\ mutated' \in Addresses' \cup {Nothing, Closed}
      /\ lastTimestamp' \in Times \cup {NoTime} /\ max' \in Numbers \cup {0}
      /\ first' \in BOOLEAN
  <2>1. CASE merged # Closed
    <3>1. merged \in Addresses /\ merged' = Nothing
      BY <1>2, <2>1 DEF MaxStep, MaxReceives
    <3>2. Val(merged) \in Values
      BY <3>1, TypeFacts
    <3>3. PICK v \in Values : v = Val(merged) /\ v.ts \in Times /\ v.d \in Numbers \cup {0}
      BY <3>2 DEF Values
    <3>4. MaxFirst(v) \/ MaxNext(v) \/ MaxSame(v)
      BY <2>1, <3>3 DEF MaxStep
    <3>5. CASE MaxFirst(v)
      BY <1>2, <3>1, <3>3, <3>5, HeapUnchanged DEF MaxFirst
    <3>6. CASE MaxNext(v)
      <4>1. HeapKept /\ mutated' \in Addresses'
        BY <3>6, HeapMax
      <4> QED
        BY <1>2, <3>1, <3>3, <3>6, <4>1 DEF MaxNext
    <3>7. CASE MaxSame(v)
      BY <1>2, <3>1, <3>3, <3>7, HeapUnchanged DEF MaxSame
    <3> QED
      BY <3>4, <3>5, <3>6, <3>7
  <2>2. CASE merged = Closed
    BY <1>2, <2>2, HeapUnchanged DEF MaxStep
  <2> QED
    BY <2>1, <2>2
<1>4. \A a \in Addresses : a \in Addresses'
  BY <1>3, KeptFacts, TypeFacts
<1>5. \A s \in Seq(Addresses) : s \in Seq(Addresses')
  BY <1>4, SeqMonotonic
<1>6. /\ appending' \in [Groups -> Addresses' \cup {Nothing}]
      /\ written' \in [Groups -> Seq(Addresses')]
      /\ before' \in [Groups -> Seq(Addresses') \cup {NotRead}]
  <2>1. appending' = appending /\ written' = written /\ before' = before
    BY <1>1 DEF writeVars
  <2> QED
    BY <1>2, <1>4, <1>5, <2>1
<1>7. UNCHANGED answer
  BY <1>1 DEF writeVars
<1> QED
  BY <1>1, <1>3, <1>6, <1>7, TypeGrown

\* Get keeps the types.
LEMMA TypeGet == TypeInv /\ Get => TypeInv' /\ UNCHANGED heap
<1> SUFFICES ASSUME TypeInv, Get
             PROVE  TypeInv' /\ UNCHANGED heap
  OBVIOUS
<1> USE DEF TypeInv, HandInv, TypeOK
<1>1. ASSUME NEW g \in Groups, NextGroup(g)
      PROVE  TypeInv' /\ UNCHANGED heap
  <2>1. Addresses' = Addresses
    BY <1>1, HeapUnchanged DEF NextGroup
  <2> QED
    BY <1>1, <2>1 DEF NextGroup, dataVars, writeVars
<1>2. CASE Receive
  <2>1. Addresses' = Addresses
    BY <1>2, HeapUnchanged DEF Receive
  <2>2. Channel \in Addresses
    BY <1>2 DEF Receive, Channel
  <2>3. /\ merged' \in Addresses \cup {Nothing, Closed}
        /\ mutated' \in Addresses \cup {Nothing, Closed}
    BY <1>2 DEF Receive
  <2>4. (UNCHANGED <<value, pc>>) \/ (value' = Channel /\ pc' = "send")
    BY <1>2 DEF Receive
  <2>5. UNCHANGED <<heap, dataVars, indexes, emitted, first, lastTimestamp, max, todo,
                    group, count, cut, passed, writeVars, raced>>
    BY <1>2 DEF Receive
  <2>6. value' \in Addresses \cup {Nothing} /\ (pc' = "send" => value' # Nothing)
    BY <1>2, <2>2, <2>4, TypeFacts DEF Receive
  <2>7. pc' \in {"next", "receive", "send", "cut", "panic", "done"} /\ pc' # "cut"
    BY <1>2, <2>4 DEF Receive
  <2> QED
    BY <2>1, <2>3, <2>5, <2>6, <2>7 DEF dataVars, writeVars
<1>3. CASE Send
  <2>1. Addresses' = Addresses
    BY <1>3, HeapUnchanged DEF Send
  <2>2. value \in Addresses
    BY <1>3 DEF Send
  <2>3. Append(passed[group], value) \in Seq(Addresses)
    BY <2>2
  <2>4. /\ passed' \in [Groups -> Seq(Addresses)]
        /\ appending' \in [Groups -> Addresses \cup {Nothing}]
    BY <1>3, <2>2, <2>3 DEF Send
  <2> QED
    BY <1>3, <2>1, <2>4 DEF Send, dataVars, mergeVars, maxVars
<1>4. CASE Close
  <2>1. Addresses' = Addresses
    BY <1>4, HeapUnchanged DEF Close
  <2>2. cut' \in Seq(Addresses) /\ raced' \in BOOLEAN /\ (pc' = "cut" => request.limit # NoLimit)
    BY <1>4 DEF Close
  <2> QED
    BY <1>4, <2>1, <2>2 DEF Close, dataVars, mergeVars, maxVars, writeVars
<1>5. CASE Cut
  <2>1. Addresses' = Addresses
    BY <1>5, HeapUnchanged DEF Cut
  <2>2. PICK n \in Nat : n = request.limit
    <3>1. request.limit \in Nat \cup {NoLimit} /\ request.limit # NoLimit
      BY <1>5, ConstantFacts DEF Cut
    <3> QED
      BY <3>1
  <2>3. SubSeq(cut, Len(cut) - n + 1, Len(cut)) \in Seq(Addresses)
    <3>1. Len(cut) \in Nat /\ cut \in Seq(Addresses) /\ Len(cut) >= n
      BY <1>5, <2>2 DEF Cut
    <3>2. Len(cut) - n + 1 \in Int /\ Len(cut) - n + 1 >= 1
      BY <3>1
    <3>3. \A i \in (Len(cut) - n + 1)..Len(cut) : cut[i] \in Addresses
      BY <3>1, <3>2
    <3> QED
      BY <3>1, <3>2, <3>3, SubSeqProperties
  <2>4. written' \in [Groups -> Seq(Addresses)]
    BY <1>5, <2>2, <2>3 DEF Cut
  <2> QED
    BY <1>5, <2>1, <2>4 DEF Cut, dataVars, mergeVars, maxVars
<1>6. CASE CutPanic
  <2>1. Addresses' = Addresses
    BY <1>6, HeapUnchanged DEF CutPanic
  <2> QED
    BY <1>6, <2>1 DEF CutPanic, dataVars, mergeVars, maxVars, writeVars
<1>7. CASE returnResponse
  <2>1. Addresses' = Addresses
    BY <1>7, HeapUnchanged DEF returnResponse
  <2>2. \A g \in Groups : [k \in DOMAIN written[g] |-> Val(written[g][k])] \in Seq(Values)
    <3> TAKE g \in Groups
    <3>1. written[g] \in Seq(Addresses)
      OBVIOUS
    <3>2. DOMAIN written[g] = 1..Len(written[g]) /\ Len(written[g]) \in Nat
      BY <3>1
    <3>3. \A k \in 1..Len(written[g]) : written[g][k] \in Addresses
      BY <3>1, ElementOfSeq
    <3>4. \A a \in Addresses : Val(a) \in Values
      BY TypeFacts
    <3>5. \A k \in 1..Len(written[g]) : Val(written[g][k]) \in Values
      BY <3>3, <3>4
    <3> QED
      BY <3>2, <3>5
  <2>3. answer' \in [Groups -> Seq(Values)]
    BY <1>7, <2>2 DEF returnResponse
  <2> QED
    BY <1>7, <2>1, <2>3 DEF returnResponse, dataVars, mergeVars, maxVars
<1> QED
  BY <1>1, <1>2, <1>3, <1>4, <1>5, <1>6, <1>7 DEF Get

\* What ValueStreamWriter does with the value it has received.
LEMMA StoreFacts ==
    ASSUME TypeInv, NEW g \in Groups, WriterStore(g)
    PROVE  /\ appending[g] \in Addresses /\ before[g] \in Seq(Addresses) /\ before[g] # NotRead
           /\ \/ /\ before[g] # <<>> /\ Last(before[g]) \in Range(before[g])
                 /\ Last(before[g]) \in Addresses
                 /\ SameRun(Val(Last(before[g])), Val(appending[g]))
                 /\ heap' = [heap EXCEPT ![Last(before[g])[1]][Last(before[g])[2]] =
                               Extend(@, Val(appending[g]))]
                 /\ UNCHANGED written
              \/ /\ written' = [written EXCEPT ![g] = Append(before[g], appending[g])]
                 /\ UNCHANGED heap
           /\ appending' = [appending EXCEPT ![g] = Nothing]
           /\ before' = [before EXCEPT ![g] = NotRead]
           /\ UNCHANGED <<dataVars, mergeVars, maxVars, getVars, answer, raced>>
<1>1. appending[g] \in Addresses /\ before[g] \in Seq(Addresses) /\ before[g] # NotRead
  BY DEF TypeInv, TypeOK, WriterStore
<1>2. before[g] # <<>> =>
          Last(before[g]) \in Addresses /\ Last(before[g]) \in Range(before[g])
  <2>1. before[g] # <<>> => Len(before[g]) \in 1..Len(before[g])
    BY <1>1
  <2> QED
    BY <1>1, <2>1, RangeFacts, ElementOfSeq DEF Last
<1> QED
  BY <1>1, <1>2 DEF WriterStore

\* ValueStreamWriter keeps the types.
LEMMA TypeWriter ==
    ASSUME TypeInv, NEW g \in Groups, Writer(g)
    PROVE  TypeInv' /\ HeapKept
<1>1. /\ appending \in [Groups -> Addresses \cup {Nothing}]
      /\ written \in [Groups -> Seq(Addresses)]
      /\ before \in [Groups -> Seq(Addresses) \cup {NotRead}]
      /\ first \in BOOLEAN
      /\ merged \in Addresses \cup {Nothing, Closed}
      /\ mutated \in Addresses \cup {Nothing, Closed}
      /\ lastTimestamp \in Times \cup {NoTime} /\ max \in Numbers \cup {0}
  BY DEF TypeInv, TypeOK
<1>2. CASE WriterRead(g)
  <2>1. HeapKept /\ Addresses' = Addresses
    BY <1>2, HeapUnchanged DEF WriterRead
  <2>2. before' \in [Groups -> Seq(Addresses) \cup {NotRead}]
    BY <1>1, <1>2 DEF WriterRead
  <2>3. UNCHANGED <<dataVars, mergeVars, maxVars, getVars, written, appending, answer, raced>>
    BY <1>2 DEF WriterRead
  <2> QED
    BY <1>1, <2>1, <2>2, <2>3, TypeGrown DEF mergeVars, maxVars
<1>3. CASE WriterStore(g)
  <2>1. /\ appending[g] \in Addresses /\ before[g] \in Seq(Addresses)
        /\ appending' = [appending EXCEPT ![g] = Nothing]
        /\ before' = [before EXCEPT ![g] = NotRead]
        /\ UNCHANGED <<dataVars, mergeVars, maxVars, getVars, answer, raced>>
    BY <1>3, StoreFacts
  <2>2. HeapKept /\ Addresses' = Addresses /\ written' \in [Groups -> Seq(Addresses)]
    <3>1. CASE /\ Last(before[g]) \in Addresses
               /\ heap' = [heap EXCEPT ![Last(before[g])[1]][Last(before[g])[2]] =
                             Extend(@, Val(appending[g]))]
               /\ UNCHANGED written
      BY <1>1, <2>1, <3>1, HeapExtend
    <3>2. CASE /\ written' = [written EXCEPT ![g] = Append(before[g], appending[g])]
               /\ UNCHANGED heap
      <4>1. Append(before[g], appending[g]) \in Seq(Addresses)
        BY <2>1
      <4> QED
        BY <1>1, <3>2, <4>1, HeapUnchanged
    <3> QED
      BY <1>3, <3>1, <3>2, StoreFacts
  <2>3. /\ appending' \in [Groups -> Addresses \cup {Nothing}]
        /\ before' \in [Groups -> Seq(Addresses) \cup {NotRead}]
    BY <1>1, <2>1
  <2> QED
    BY <1>1, <2>1, <2>2, <2>3, TypeGrown DEF mergeVars, maxVars
<1> QED
  BY <1>2, <1>3 DEF Writer

\* Every step keeps the types and what matters of the values.
LEMMA TypeNext == TypeInv /\ [Next]_vars => TypeInv' /\ HeapKept
<1> SUFFICES ASSUME TypeInv, [Next]_vars
             PROVE  TypeInv' /\ HeapKept
  OBVIOUS
<1>1. CASE MergeValueStreams
  BY <1>1, TypeMerge, HeapUnchanged DEF MergeValueStreams
<1>2. CASE MaxStep
  BY <1>2, TypeMax
<1>3. CASE Get
  BY <1>3, TypeGet, HeapUnchanged
<1>4. CASE \E g \in Groups : Writer(g)
  BY <1>4, TypeWriter
<1>5. CASE UNCHANGED vars
  <2>1. HeapKept /\ Addresses' = Addresses
    BY <1>5, HeapUnchanged DEF vars
  <2> QED
    BY <1>5, <2>1 DEF vars, dataVars, mergeVars, maxVars, getVars, writeVars, TypeInv,
                      TypeOK, HandInv
<1> QED
  BY <1>1, <1>2, <1>3, <1>4, <1>5 DEF Next

\* Every variable holds a value of its kind, for all streams and requests.
THEOREM TypesHold == Spec => []TypeOK
<1>1. TypeInv => TypeOK
  BY DEF TypeInv
<1> QED
  BY <1>1, TypeInit, TypeNext, PTL DEF Spec

-----------------------------------------------------------------------------
(***************************************************************************)
(* The groups, the numbers of values, and the limit.                       *)
(***************************************************************************)
\* Get starts with all groups to do.
LEMMA TodoInit == Init => TodoInv
<1> SUFFICES ASSUME Init
             PROVE  TodoInv
  OBVIOUS
<1>1. TypeInv
  BY TypeInit
<1>2. label \in [Ids -> Labels \cup {NoLabel}] /\ todo \subseteq Groups
  BY <1>1 DEF TypeInv, TypeOK
<1>3. \A g \in todo : passed[g] = <<>> /\ emitted[g] = <<>>
                      /\ \A i \in Members(g) : indexes[i] = 0
  BY <1>2 DEF Init, Members
<1>4. request.by => AnyLabel \notin todo
  <2>1. AnyLabel \notin Labels
    BY QueryAssumption
  <2>2. request.by => todo = {label[i] : i \in Ids} \ {NoLabel}
    BY DEF Init
  <2> QED
    BY <1>2, <2>1, <2>2
<1>5. ~request.by => todo = {AnyLabel}
  BY DEF Init
<1> QED
  BY <1>3, <1>4, <1>5 DEF TodoInv, Init

\* A group to do shares no stream with the one that Get works on.
LEMMA OtherMembers ==
    ASSUME TypeInv, TodoInv, pc \in {"receive", "send"}, NEW g \in todo, NEW i \in Members(g)
    PROVE  i \notin Members(group) /\ g # group
<1>1. group \notin todo /\ (request.by => group # AnyLabel)
  BY DEF TodoInv
<1>2. CASE request.by
  <2>1. AnyLabel \notin todo
    BY <1>2 DEF TodoInv
  <2> QED
    BY <1>1, <1>2, <2>1 DEF Members
<1>3. CASE ~request.by
  BY <1>1, <1>3 DEF TodoInv
<1> QED
  BY <1>2, <1>3

\* Every step leaves the groups to do untouched.
LEMMA TodoNext == TypeInv /\ TodoInv /\ [Next]_vars => TodoInv'
<1> SUFFICES ASSUME TypeInv, TodoInv, [Next]_vars
             PROVE  TodoInv'
  OBVIOUS
<1> USE DEF TodoInv
<1>1. CASE MergeValueStreams
  <2>1. /\ pc \in {"receive", "send"}
        /\ UNCHANGED <<label, request, todo, group, passed, pc>>
    BY <1>1 DEF MergeValueStreams, dataVars, getVars
  <2>2. \A g \in Groups : g # group => emitted'[g] = emitted[g]
    BY <1>1 DEF MergeValueStreams, TypeInv, TypeOK
  <2>3. \A i \in Ids : i \notin Members(group) => indexes'[i] = indexes[i]
    BY <1>1 DEF MergeValueStreams, Taken, Left
  <2>4. ASSUME NEW g \in todo
        PROVE  /\ passed'[g] = <<>> /\ emitted'[g] = <<>>
               /\ \A i \in Members(g) : indexes'[i] = 0
    <3>1. g \in Groups /\ g # group
      BY <2>1 DEF TypeInv, TypeOK
    <3>2. \A i \in Members(g) : i \in Ids /\ i \notin Members(group)
      BY <2>1, OtherMembers DEF Members
    <3> QED
      BY <2>1, <2>2, <2>3, <3>1, <3>2
  <2>5. \A g : Members(g)' = Members(g)
    BY <2>1 DEF Members
  <2> QED
    BY <2>1, <2>4, <2>5
<1>2. CASE MaxStep
  BY <1>2 DEF MaxStep, dataVars, getVars, Members
<1>3. CASE Get
  <2>1. ASSUME NEW g \in Groups, NextGroup(g)
        PROVE  TodoInv'
    BY <2>1 DEF NextGroup, dataVars, Members
  <2>2. CASE Receive
    BY <2>2 DEF Receive, dataVars, Members
  <2>3. CASE Send
    <3>1. /\ group \notin todo /\ group \in Groups
          /\ \A g \in Groups : g # group => passed'[g] = passed[g]
      BY <2>3 DEF Send, TypeInv, TypeOK
    <3>2. todo \subseteq Groups
      BY DEF TypeInv, TypeOK
    <3> QED
      BY <2>3, <3>1, <3>2 DEF Send, dataVars, mergeVars, Members
  <2>4. CASE Close
    BY <2>4 DEF Close, dataVars, mergeVars, Members
  <2>5. CASE Cut
    BY <2>5 DEF Cut, dataVars, mergeVars, Members
  <2>6. CASE CutPanic
    BY <2>6 DEF CutPanic, dataVars, mergeVars, Members
  <2>7. CASE returnResponse
    BY <2>7 DEF returnResponse, dataVars, mergeVars, Members
  <2> QED
    BY <1>3, <2>1, <2>2, <2>3, <2>4, <2>5, <2>6, <2>7 DEF Get
<1>4. ASSUME NEW g \in Groups, Writer(g)
      PROVE  TodoInv'
  <2>1. UNCHANGED <<dataVars, mergeVars, getVars>>
    BY <1>4, StoreFacts DEF Writer, WriterRead
  <2> QED
    BY <2>1 DEF dataVars, mergeVars, getVars, Members
<1>5. CASE UNCHANGED vars
  BY <1>5 DEF vars, dataVars, mergeVars, getVars, Members
<1> QED
  BY <1>1, <1>2, <1>3, <1>4, <1>5 DEF Next

\* The lengths that the next lemmas compare are numbers.
LEMMA LengthFacts ==
    ASSUME TypeInv
    PROVE  /\ Len(cut) \in Nat /\ count \in Nat /\ group \in Groups
           /\ \A g \in Groups :
                 /\ Len(written[g]) \in Nat /\ Len(passed[g]) \in Nat /\ Busy(g) \in 0..1
                 /\ before[g] # NotRead => Len(before[g]) \in Nat
                 /\ appending[g] = Nothing => Busy(g) = 0
                 /\ appending[g] # Nothing => Busy(g) = 1
           /\ request.limit # NoLimit => request.limit \in Nat
<1>1. request.limit # NoLimit => request.limit \in Nat
  BY ConstantFacts DEF TypeInv, TypeOK
<1>2. Len(cut) \in Nat
  BY DEF TypeInv, TypeOK
<1>3. ASSUME NEW g \in Groups
      PROVE  /\ Len(written[g]) \in Nat /\ Len(passed[g]) \in Nat
             /\ before[g] # NotRead => Len(before[g]) \in Nat
  <2>1. /\ written[g] \in Seq(Addresses) /\ passed[g] \in Seq(Addresses)
        /\ before[g] # NotRead => before[g] \in Seq(Addresses)
    BY DEF TypeInv, TypeOK
  <2> QED
    BY <2>1
<1>4. \A g \in Groups : /\ Busy(g) \in 0..1
                        /\ appending[g] = Nothing => Busy(g) = 0
                        /\ appending[g] # Nothing => Busy(g) = 1
  BY DEF Busy
<1>5. count \in Nat /\ group \in Groups
  BY DEF TypeInv, TypeOK
<1> QED
  BY <1>1, <1>2, <1>3, <1>4, <1>5

\* Get stores the end of what it has read of newstream.
LEMMA CutFacts ==
    ASSUME TypeInv, Cut
    PROVE  \E s \in Seq(Addresses) :
              /\ written' = [written EXCEPT ![group] = s]
              /\ Len(s) = request.limit /\ request.limit \in Nat
              /\ Len(s) <= Len(cut) /\ Len(cut) \in Nat
              /\ \A i \in 1..Len(s) : s[i] = cut[Len(cut) - Len(s) + i]
              /\ Range(s) \subseteq Range(cut)
<1>1. PICK n \in Nat : n = request.limit
  <2>1. request.limit \in Nat \cup {NoLimit} /\ request.limit # NoLimit
    BY ConstantFacts DEF Cut, TypeInv, TypeOK, HandInv
  <2> QED
    BY <2>1
<1> DEFINE s == SubSeq(cut, Len(cut) - n + 1, Len(cut))
<1>2. /\ Len(cut) \in Nat /\ cut \in Seq(Addresses) /\ Len(cut) >= n
      /\ written' = [written EXCEPT ![group] = s]
  BY <1>1 DEF Cut, TypeInv, TypeOK
<1>3. /\ s \in Seq(Addresses) /\ Len(s) = n
      /\ \A i \in 1..n : s[i] = cut[Len(cut) - n + i]
  <2>1. \A i \in (Len(cut) - n + 1)..Len(cut) : cut[i] \in Addresses
    BY <1>2
  <2>2. Len(cut) - n + 1 \in Int /\ Len(cut) \in Int
    BY <1>2
  <2>3. /\ s \in Seq(Addresses)
        /\ Len(s) = IF Len(cut) - n + 1 <= Len(cut)
                      THEN Len(cut) - (Len(cut) - n + 1) + 1 ELSE 0
        /\ \A i \in 1..(Len(cut) - (Len(cut) - n + 1) + 1) :
              s[i] = cut[(Len(cut) - n + 1) + i - 1]
    BY <2>1, <2>2, SubSeqProperties
  <2> HIDE DEF s
  <2>4. Len(s) = n /\ Len(cut) - (Len(cut) - n + 1) + 1 = n
    BY <1>2, <2>3
  <2>5. \A i \in 1..n : (Len(cut) - n + 1) + i - 1 = Len(cut) - n + i
    BY <1>2
  <2> QED
    BY <2>3, <2>4, <2>5
<1> HIDE DEF s
<1>4. Range(s) \subseteq Range(cut)
  <2> SUFFICES ASSUME NEW x \in Range(s)
               PROVE  x \in Range(cut)
    OBVIOUS
  <2>1. PICK i \in 1..n : x = s[i]
    BY <1>3, RangeFacts
  <2>2. Len(cut) - n + i \in 1..Len(cut)
    BY <1>2
  <2>3. cut[Len(cut) - n + i] \in Range(cut)
    BY <1>2, <2>2, RangeFacts
  <2> QED
    BY <1>3, <2>1, <2>3
<1> QED
  BY <1>1, <1>2, <1>3, <1>4

\* Every step keeps the numbers in their relation.
LEMMA LenNext == TypeInv /\ TodoInv /\ LenInv /\ [Next]_vars => LenInv'
<1> SUFFICES ASSUME TypeInv, TodoInv, LenInv, [Next]_vars
             PROVE  LenInv'
  OBVIOUS
<1>1. /\ appending \in [Groups -> Addresses \cup {Nothing}]
      /\ written \in [Groups -> Seq(Addresses)] /\ passed \in [Groups -> Seq(Addresses)]
      /\ before \in [Groups -> Seq(Addresses) \cup {NotRead}]
      /\ group \in Groups /\ cut \in Seq(Addresses)
  BY DEF TypeInv, TypeOK
<1>2. CASE \/ MergeValueStreams \/ MaxStep \/ UNCHANGED vars
  <2>1. UNCHANGED <<dataVars, getVars, writeVars, raced>>
    BY <1>2 DEF MergeValueStreams, MaxStep, vars
  <2> QED
    BY <2>1 DEF LenInv, Busy, dataVars, getVars, writeVars
<1>3. CASE Get
  <2>1. ASSUME NEW g \in Groups, NextGroup(g)
        PROVE  LenInv'
    <3>1. Len(passed[g]) = 0
      BY <2>1 DEF NextGroup, TodoInv
    <3> QED
      BY <2>1, <3>1 DEF NextGroup, LenInv, Busy, dataVars, writeVars
  <2>2. CASE Receive
    BY <2>2 DEF Receive, LenInv, Busy, dataVars, writeVars
  <2>3. CASE Send
    <3>1. value \in Addresses
      BY <2>3 DEF TypeInv, TypeOK, HandInv, Send
    <3>2. /\ appending[group] = Nothing
          /\ appending' = [appending EXCEPT ![group] = value]
          /\ passed' = [passed EXCEPT ![group] = Append(@, value)]
          /\ count' = count + 1 /\ pc = "send" /\ pc' = "receive"
          /\ UNCHANGED <<request, group, written, before, cut, raced>>
      BY <2>3 DEF Send, dataVars
    <3>3. Len(passed'[group]) = Len(passed[group]) + 1
      BY <1>1, <3>1, <3>2
    <3>4. /\ appending'[group] = value /\ Busy(group)' = 1
          /\ \A g \in Groups : g # group => /\ passed'[g] = passed[g]
                                            /\ appending'[g] = appending[g]
                                            /\ Busy(g)' = Busy(g)
      BY <1>1, <3>1, <3>2, TypeFacts DEF Busy
    <3>5. Len(written[group]) <= Len(passed[group]) /\ before[group] = NotRead
      BY <1>1, <3>2, LengthFacts DEF LenInv
    <3>6. ASSUME NEW g \in Groups
          PROVE  /\ Len(written'[g]) + Busy(g)' <= Len(passed'[g])
                 /\ before'[g] # NotRead =>
                       appending'[g] # Nothing /\ Len(before'[g]) < Len(passed'[g])
      <4>1. CASE g = group
        BY <3>2, <3>3, <3>4, <3>5, <4>1, LengthFacts
      <4>2. CASE g # group
        BY <3>2, <3>4, <4>2 DEF LenInv
      <4> QED
        BY <4>1, <4>2
    <3>7. count' = Len(passed'[group'])
      BY <3>2, <3>3 DEF LenInv
    <3> QED
      BY <3>2, <3>6, <3>7 DEF LenInv
  <2>4. CASE Close
    <3>1. /\ pc = "receive" /\ pc' \in {"next", "cut"}
          /\ pc' = "cut" => /\ cut' = written[group] /\ count >= request.limit
                            /\ request.limit # NoLimit
                            /\ raced' = (raced \/ appending[group] # Nothing)
          /\ UNCHANGED <<request, group, written, appending, before, passed, count>>
      BY <2>4 DEF Close, dataVars, writeVars
    <3>2. \A g \in Groups : Busy(g)' = Busy(g)
      BY <3>1 DEF Busy
    <3> QED
      BY <1>1, <3>1, <3>2 DEF LenInv, Busy
  <2>5. CASE Cut
    <3>1. /\ pc = "cut" /\ pc' = "next" /\ Len(cut) >= request.limit
          /\ written' = [written EXCEPT ![group] =
                SubSeq(cut, Len(cut) - request.limit + 1, Len(cut))]
          /\ UNCHANGED <<request, group, appending, before, passed, count>>
      BY <2>5 DEF Cut, dataVars
    <3>2. request.limit \in Nat /\ Len(cut) + Busy(group) <= Len(passed[group])
      BY <3>1, LengthFacts DEF LenInv
    <3>3. Len(written'[group]) = request.limit
      BY <1>1, <2>5, CutFacts
    <3>4. \A g \in Groups : Busy(g)' = Busy(g) /\ (g # group => written'[g] = written[g])
      BY <1>1, <3>1 DEF Busy
    <3>5. Len(written'[group]) + Busy(group)' <= Len(passed[group])
      <4>1. Busy(group)' = Busy(group)
        BY <3>1 DEF Busy
      <4>2. /\ Len(cut) >= request.limit /\ Len(cut) \in Nat /\ Len(passed[group]) \in Nat
            /\ Busy(group) \in Nat
        BY <1>1, <3>1, LengthFacts DEF Busy
      <4> QED
        BY <3>2, <3>3, <4>1, <4>2
    <3> QED
      BY <3>1, <3>4, <3>5 DEF LenInv
  <2>6. CASE CutPanic
    BY <2>6 DEF CutPanic, LenInv, Busy, dataVars, writeVars
  <2>7. CASE returnResponse
    BY <2>7 DEF returnResponse, LenInv, Busy, dataVars
  <2> QED
    BY <1>3, <2>1, <2>2, <2>3, <2>4, <2>5, <2>6, <2>7 DEF Get
<1>4. ASSUME NEW g \in Groups, WriterRead(g)
      PROVE  LenInv'
  <2>1. /\ appending[g] # Nothing
        /\ before' = [before EXCEPT ![g] = written[g]]
        /\ UNCHANGED <<request, group, written, appending, passed, count, pc, cut, raced>>
    BY <1>4 DEF WriterRead, dataVars, getVars
  <2>2. \A h \in Groups : Busy(h)' = Busy(h)
    BY <2>1 DEF Busy
  <2>3. Len(written[g]) < Len(passed[g])
    BY <2>1, LengthFacts DEF LenInv
  <2>4. before'[g] = written[g] /\ \A h \in Groups : h # g => before'[h] = before[h]
    BY <1>1, <2>1
  <2>5. ASSUME NEW h \in Groups, before'[h] # NotRead
        PROVE  appending[h] # Nothing /\ Len(before'[h]) < Len(passed[h])
    BY <2>1, <2>3, <2>4, <2>5 DEF LenInv
  <2>6. Busy(group)' = Busy(group)
    BY <2>1 DEF Busy
  <2> QED
    BY <2>1, <2>2, <2>5, <2>6 DEF LenInv
<1>5. ASSUME NEW g \in Groups, WriterStore(g)
      PROVE  LenInv'
  <2>1. /\ appending[g] \in Addresses /\ before[g] \in Seq(Addresses) /\ before[g] # NotRead
        /\ appending' = [appending EXCEPT ![g] = Nothing]
        /\ before' = [before EXCEPT ![g] = NotRead]
        /\ UNCHANGED <<request, group, passed, count, pc, cut, raced>>
    BY <1>5, StoreFacts DEF dataVars, getVars
  <2>2. \/ UNCHANGED written
        \/ written' = [written EXCEPT ![g] = Append(before[g], appending[g])]
    BY <1>5, StoreFacts
  <2>3. /\ Busy(g)' = 0 /\ appending'[g] = Nothing /\ before'[g] = NotRead
        /\ \A h \in Groups : h # g => /\ Busy(h)' = Busy(h) /\ appending'[h] = appending[h]
                                      /\ before'[h] = before[h] /\ written'[h] = written[h]
    BY <1>1, <2>1, <2>2 DEF Busy
  <2>4. Len(before[g]) < Len(passed[g])
    BY <2>1 DEF LenInv
  <2>5. Len(written'[g]) <= Len(passed[g])
    <3>1. CASE UNCHANGED written
      BY <3>1, LengthFacts DEF LenInv
    <3>2. CASE written' = [written EXCEPT ![g] = Append(before[g], appending[g])]
      <4>1. Len(written'[g]) = Len(before[g]) + 1
        BY <1>1, <2>1, <3>2
      <4> QED
        BY <2>1, <2>4, <4>1, LengthFacts
    <3> QED
      BY <2>2, <3>1, <3>2
  <2>6. /\ Busy(group)' = Busy(group) \/ Busy(group)' = 0
        /\ appending'[group] = appending[group] \/ appending'[group] = Nothing
    BY <1>1, <2>1 DEF Busy
  <2>7. ASSUME NEW h \in Groups
        PROVE  /\ Len(written'[h]) + Busy(h)' <= Len(passed[h])
               /\ before'[h] # NotRead => appending'[h] # Nothing /\ Len(before'[h]) < Len(passed[h])
    <3>1. CASE h = g
      BY <2>3, <2>5, <3>1, LengthFacts, TypeNext DEF TypeInv, TypeOK
    <3>2. CASE h # g
      BY <2>3, <3>2 DEF LenInv
    <3> QED
      BY <3>1, <3>2
  <2>8. pc = "cut" => Len(cut) + Busy(group)' <= Len(passed[group])
    BY <2>6, LengthFacts DEF LenInv
  <2> QED
    BY <2>1, <2>6, <2>7, <2>8 DEF LenInv
<1> QED
  BY <1>2, <1>3, <1>4, <1>5 DEF Next, Writer

\* Every step keeps what Get is done with within the limit, unless there is a
\* race.
LEMMA LimitNext ==
    TypeInv /\ TodoInv /\ LenInv /\ LimitInv /\ [Next]_vars => LimitInv'
<1> SUFFICES ASSUME TypeInv, TodoInv, LenInv, LimitInv, [Next]_vars,
                    request'.limit # NoLimit, ~raced'
             PROVE  \A g \in Groups :
                       \/ g = group' /\ pc' \in {"receive", "send", "cut", "panic"}
                       \/ /\ Len(written'[g]) + Busy(g)' <= request'.limit
                          /\ before'[g] # NotRead => Len(before'[g]) < request'.limit
  BY DEF LimitInv
<1>1. /\ appending \in [Groups -> Addresses \cup {Nothing}]
      /\ written \in [Groups -> Seq(Addresses)] /\ passed \in [Groups -> Seq(Addresses)]
      /\ before \in [Groups -> Seq(Addresses) \cup {NotRead}]
      /\ group \in Groups /\ cut \in Seq(Addresses)
  BY DEF TypeInv, TypeOK
<1>2. CASE \/ MergeValueStreams \/ MaxStep \/ UNCHANGED vars
  <2>1. UNCHANGED <<dataVars, getVars, writeVars, raced>>
    BY <1>2 DEF MergeValueStreams, MaxStep, vars
  <2> QED
    BY <2>1 DEF LimitInv, Busy, dataVars, getVars, writeVars
<1>3. CASE Get
  <2>1. ASSUME NEW g \in Groups, NextGroup(g)
        PROVE  \A h \in Groups :
                  \/ h = group' /\ pc' \in {"receive", "send", "cut", "panic"}
                  \/ /\ Len(written'[h]) + Busy(h)' <= request'.limit
                     /\ before'[h] # NotRead => Len(before'[h]) < request'.limit
    BY <2>1 DEF NextGroup, LimitInv, Busy, dataVars, writeVars
  <2>2. CASE Receive
    BY <2>2 DEF Receive, LimitInv, Busy, dataVars, writeVars
  <2>3. CASE Send
    <3>1. /\ pc' = "receive" /\ pc = "send"
          /\ UNCHANGED <<request, group, written, before, raced>>
          /\ appending' = [appending EXCEPT ![group] = value]
      BY <2>3 DEF Send, dataVars
    <3>2. \A g \in Groups : g # group => Busy(g)' = Busy(g)
      BY <1>1, <3>1 DEF Busy
    <3> QED
      BY <3>1, <3>2 DEF LimitInv
  <2>4. CASE Close
    <3>1. /\ pc = "receive" /\ pc' \in {"next", "cut"}
          /\ pc' = "next" => count < request.limit /\ UNCHANGED raced
          /\ pc' = "cut" => raced' = (raced \/ appending[group] # Nothing)
          /\ UNCHANGED <<request, group, written, appending, before, passed, count>>
      BY <2>4 DEF Close, dataVars, writeVars
    <3>2. \A g \in Groups : Busy(g)' = Busy(g)
      BY <3>1 DEF Busy
    <3>3. ~raced
      BY <3>1 DEF TypeInv, TypeOK
    <3>4. ASSUME pc' = "next"
          PROVE  /\ Len(written[group]) + Busy(group) <= request.limit
                 /\ before[group] # NotRead => Len(before[group]) < request.limit
      <4>1. Len(passed[group]) < request.limit
        BY <3>1, <3>4 DEF LenInv
      <4>2. /\ Len(written[group]) + Busy(group) <= Len(passed[group])
            /\ before[group] # NotRead => Len(before[group]) < Len(passed[group])
        BY <1>1 DEF LenInv
      <4>3. /\ Len(written[group]) \in Nat /\ Len(passed[group]) \in Nat
            /\ Busy(group) \in Nat /\ request.limit \in Nat
            /\ before[group] # NotRead => Len(before[group]) \in Nat
        BY <1>1, <3>1, LengthFacts DEF Busy
      <4> QED
        BY <4>1, <4>2, <4>3
    <3>5. ASSUME NEW g \in Groups, g # group \/ pc' = "next"
          PROVE  /\ Len(written[g]) + Busy(g) <= request.limit
                 /\ before[g] # NotRead => Len(before[g]) < request.limit
      BY <3>1, <3>3, <3>4, <3>5 DEF LimitInv
    <3> QED
      BY <3>1, <3>2, <3>5
  <2>5. CASE Cut
    <3>1. /\ pc = "cut" /\ pc' = "next"
          /\ UNCHANGED <<request, group, appending, before, passed, count, raced>>
      BY <2>5 DEF Cut, dataVars
    <3>2. PICK s \in Seq(Addresses) : /\ written' = [written EXCEPT ![group] = s]
                                      /\ Len(s) = request.limit /\ request.limit \in Nat
      BY <2>5, CutFacts
    <3>3. appending[group] = Nothing /\ before[group] = NotRead
      BY <1>1, <3>1 DEF LenInv
    <3>4. \A g \in Groups : Busy(g)' = Busy(g) /\ (g # group => written'[g] = written[g])
      BY <1>1, <3>1, <3>2 DEF Busy
    <3>5. Len(written'[group]) + Busy(group) = request.limit
      BY <1>1, <3>2, <3>3 DEF Busy
    <3>6. ASSUME NEW g \in Groups
          PROVE  /\ Len(written'[g]) + Busy(g) <= request.limit
                 /\ before[g] # NotRead => Len(before[g]) < request.limit
      <4>1. CASE g = group
        BY <3>2, <3>3, <3>5, <4>1
      <4>2. CASE g # group
        BY <3>1, <3>4, <4>2 DEF LimitInv
      <4> QED
        BY <4>1, <4>2
    <3> QED
      BY <3>1, <3>4, <3>6
  <2>6. CASE CutPanic
    BY <2>6 DEF CutPanic, LimitInv, Busy, dataVars, writeVars
  <2>7. CASE returnResponse
    <3>1. /\ pc = "next" /\ raced' = (raced \/ \E g \in Groups : appending[g] # Nothing)
          /\ UNCHANGED <<request, group, written, appending, before>>
      BY <2>7 DEF returnResponse, dataVars
    <3>2. ~raced
      BY <3>1 DEF TypeInv, TypeOK
    <3> QED
      BY <3>1, <3>2 DEF LimitInv, Busy
  <2> QED
    BY <1>3, <2>1, <2>2, <2>3, <2>4, <2>5, <2>6, <2>7 DEF Get
<1>4. ASSUME NEW g \in Groups, WriterRead(g)
      PROVE  \A h \in Groups :
                \/ h = group' /\ pc' \in {"receive", "send", "cut", "panic"}
                \/ /\ Len(written'[h]) + Busy(h)' <= request'.limit
                   /\ before'[h] # NotRead => Len(before'[h]) < request'.limit
  <2>1. /\ appending[g] # Nothing
        /\ before' = [before EXCEPT ![g] = written[g]]
        /\ UNCHANGED <<request, group, written, appending, pc, raced>>
    BY <1>4 DEF WriterRead, dataVars, getVars
  <2>2. \A h \in Groups : Busy(h)' = Busy(h)
    BY <2>1 DEF Busy
  <2>3. before'[g] = written[g] /\ \A h \in Groups : h # g => before'[h] = before[h]
    BY <1>1, <2>1
  <2>4. ASSUME NEW h \in Groups, ~ (h = group /\ pc \in {"receive", "send", "cut", "panic"})
        PROVE  /\ Len(written[h]) + Busy(h) <= request.limit
               /\ before'[h] # NotRead => Len(before'[h]) < request.limit
    <3>1. /\ Len(written[h]) + Busy(h) <= request.limit
          /\ before[h] # NotRead => Len(before[h]) < request.limit
      BY <2>1, <2>4 DEF LimitInv
    <3>2. h = g => Len(written[h]) < request.limit
      <4>1. Busy(g) = 1 /\ Len(written[g]) \in Nat /\ request.limit \in Nat
        BY <2>1, LengthFacts
      <4> QED
        BY <3>1, <4>1
    <3> QED
      BY <2>3, <3>1, <3>2
  <2> QED
    BY <2>1, <2>2, <2>4
<1>5. ASSUME NEW g \in Groups, WriterStore(g)
      PROVE  \A h \in Groups :
                \/ h = group' /\ pc' \in {"receive", "send", "cut", "panic"}
                \/ /\ Len(written'[h]) + Busy(h)' <= request'.limit
                   /\ before'[h] # NotRead => Len(before'[h]) < request'.limit
  <2>1. /\ appending[g] \in Addresses /\ before[g] \in Seq(Addresses) /\ before[g] # NotRead
        /\ appending' = [appending EXCEPT ![g] = Nothing]
        /\ before' = [before EXCEPT ![g] = NotRead]
        /\ UNCHANGED <<request, group, passed, count, pc, cut, raced>>
    BY <1>5, StoreFacts DEF dataVars, getVars
  <2>2. \/ UNCHANGED written
        \/ written' = [written EXCEPT ![g] = Append(before[g], appending[g])]
    BY <1>5, StoreFacts
  <2>3. /\ Busy(g)' = 0 /\ before'[g] = NotRead
        /\ \A h \in Groups : h # g => /\ Busy(h)' = Busy(h)
                                      /\ before'[h] = before[h] /\ written'[h] = written[h]
    BY <1>1, <2>1, <2>2 DEF Busy
  <2>4. written'[g] = written[g] \/ Len(written'[g]) = Len(before[g]) + 1
    BY <1>1, <2>1, <2>2
  <2>5. ASSUME NEW h \in Groups, ~ (h = group /\ pc \in {"receive", "send", "cut", "panic"})
        PROVE  /\ Len(written'[h]) + Busy(h)' <= request.limit
               /\ before'[h] # NotRead => Len(before'[h]) < request.limit
    <3>1. /\ Len(written[h]) + Busy(h) <= request.limit
          /\ before[h] # NotRead => Len(before[h]) < request.limit
      BY <2>1, <2>5 DEF LimitInv
    <3>2. CASE h = g
      <4>1. Len(written[g]) \in Nat /\ request.limit \in Nat /\ Len(before[g]) \in Nat
            /\ Busy(g) \in Nat
        BY <2>1, LengthFacts
      <4>2. Len(written'[g]) <= request.limit /\ Len(written'[g]) \in Nat
        BY <2>1, <2>4, <3>1, <3>2, <4>1
      <4> QED
        BY <2>3, <3>2, <4>1, <4>2
    <3>3. CASE h # g
      BY <2>3, <3>1, <3>3
    <3> QED
      BY <3>2, <3>3
  <2> QED
    BY <2>1, <2>5
<1> QED
  BY <1>2, <1>3, <1>4, <1>5 DEF Next, Writer

\* Nothing is written or counted at first.
LEMMA LenInit == Init => LenInv /\ LimitInv
<1> SUFFICES ASSUME Init
             PROVE  LenInv /\ LimitInv
  OBVIOUS
<1>1. \A g \in Groups : /\ written[g] = <<>> /\ passed[g] = <<>> /\ appending[g] = Nothing
                        /\ before[g] = NotRead
  BY DEF Init
<1>2. request.limit # NoLimit => request.limit \in Nat
  BY TypeInit, LengthFacts
<1> QED
  BY <1>1, <1>2 DEF LenInv, LimitInv, Busy, Init

\* Once the request has been answered, only the writers are at work.
LEMMA DoneFacts ==
    ASSUME TypeInv, [Next]_vars, pc' = "done"
    PROVE  returnResponse \/ (pc = "done" /\ UNCHANGED <<label, request, answer, raced, passed,
                                                         emitted>>)
<1>1. CASE MergeValueStreams
  BY <1>1 DEF MergeValueStreams, getVars
<1>2. CASE MaxStep
  BY <1>2 DEF MaxStep, dataVars, getVars, writeVars
<1>3. CASE Get
  BY <1>3 DEF Get, NextGroup, Receive, Send, Close, Cut, CutPanic
<1>4. ASSUME NEW g \in Groups, Writer(g)
      PROVE  pc = "done" /\ UNCHANGED <<label, request, answer, raced, passed, emitted>>
  <2>1. UNCHANGED <<dataVars, mergeVars, getVars, answer, raced>>
    BY <1>4, StoreFacts DEF Writer, WriterRead
  <2> QED
    BY <2>1 DEF dataVars, mergeVars, getVars
<1>5. CASE UNCHANGED vars
  BY <1>5 DEF vars, dataVars, mergeVars, getVars, writeVars
<1> QED
  BY <1>1, <1>2, <1>3, <1>4, <1>5 DEF Next

\* What the response is made of.
LEMMA ResponseFacts ==
    ASSUME TypeInv, returnResponse, NEW g \in Groups
    PROVE  /\ DOMAIN answer'[g] = 1..Len(written[g]) /\ Len(answer'[g]) = Len(written[g])
           /\ Len(written[g]) \in Nat
           /\ \A k \in 1..Len(written[g]) : /\ answer'[g][k] = Val(written[g][k])
                                            /\ written[g][k] \in Addresses
           /\ UNCHANGED <<heap, label, request, passed, emitted>>
           /\ ~raced' => ~raced /\ appending[g] = Nothing
<1>1. written[g] \in Seq(Addresses)
  BY DEF TypeInv, TypeOK
<1>2. DOMAIN written[g] = 1..Len(written[g]) /\ Len(written[g]) \in Nat
  BY <1>1
<1>3. answer'[g] = [k \in 1..Len(written[g]) |-> Val(written[g][k])]
  BY <1>2 DEF returnResponse
<1>4. Len(answer'[g]) = Len(written[g])
  BY <1>2, <1>3
<1>5. ~raced' => ~raced /\ appending[g] = Nothing
  BY DEF returnResponse
<1>6. UNCHANGED <<heap, label, request, passed, emitted>>
  BY DEF returnResponse, dataVars, mergeVars
<1> QED
  BY <1>1, <1>2, <1>3, <1>4, <1>5, <1>6

\* Get answers with at most MaxValues values of a group, whatever the streams
\* and the filter, unless it has read newstream while its writer was at work.
THEOREM LimitHolds == Spec => []LimitKept
<1> DEFINE Inv == TypeInv /\ TodoInv /\ LenInv /\ LimitInv /\ LimitKept
<1>1. Init => Inv
  <2>1. Init => LimitKept
    BY DEF Init, LimitKept
  <2> QED
    BY <2>1, TypeInit, TodoInit, LenInit
<1>2. Inv /\ [Next]_vars => Inv'
  <2> SUFFICES ASSUME Inv, [Next]_vars
               PROVE  Inv'
    OBVIOUS
  <2>1. LimitKept'
    <3> SUFFICES ASSUME pc' = "done", ~raced', request'.limit # NoLimit, NEW g \in Groups
                 PROVE  Len(answer'[g]) <= request'.limit
      BY DEF LimitKept
    <3>1. CASE returnResponse
      <4>1. /\ Len(answer'[g]) = Len(written[g]) /\ ~raced /\ appending[g] = Nothing
            /\ UNCHANGED request
        BY <3>1, ResponseFacts
      <4>2. pc = "next"
        BY <3>1 DEF returnResponse
      <4>3. Len(written[g]) + Busy(g) <= request.limit
        BY <4>1, <4>2 DEF LimitInv
      <4>4. Busy(g) = 0 /\ Len(written[g]) \in Nat
        BY <4>1, LengthFacts
      <4> QED
        BY <4>1, <4>3, <4>4
    <3>2. CASE pc = "done" /\ UNCHANGED <<request, answer, raced>>
      BY <3>2 DEF LimitKept
    <3> QED
      BY <3>1, <3>2, DoneFacts
  <2> QED
    BY <2>1, TypeNext, TodoNext, LenNext, LimitNext
<1>3. Inv => LimitKept
  OBVIOUS
<1> HIDE DEF Inv
<1> QED
  BY <1>1, <1>2, <1>3, PTL DEF Spec

-----------------------------------------------------------------------------
(***************************************************************************)
(* The streams, the channels, and the way of a value through them.         *)
(***************************************************************************)
\* Max has made no value at first.
LEMMA StreamInit == Init /\ StreamsSorted => StreamInv
<1> SUFFICES ASSUME Init, StreamsSorted
             PROVE  StreamInv
  OBVIOUS
<1>1. PICK ss \in [Ids -> {x \in Series : maybe_return_stream(x, request)}] :
          heap = [i \in Rows |-> IF i = 0 THEN <<>> ELSE ss[i]]
  BY DEF Init
<1>2. heap[0] = <<>>
  BY <1>1, ConstantFacts
<1>3. DOMAIN heap[0] = {}
  BY <1>2
<1> QED
  BY <1>3 DEF StreamInv

\* No step puts the stored values in order.
LEMMA SortedBefore == TypeInv /\ [Next]_vars /\ StreamsSorted' => StreamsSorted
<1> SUFFICES ASSUME TypeInv, [Next]_vars, StreamsSorted',
                    NEW i \in Ids, NEW j \in DOMAIN heap[i], NEW k \in DOMAIN heap[i], j < k
             PROVE  heap[i][j].ts <= heap[i][k].ts
  BY DEF StreamsSorted
<1>1. HeapKept /\ i \in Rows
  BY TypeNext, ConstantFacts
<1>2. heap \in [Rows -> Seq(Values)] /\ heap' \in [Rows -> Seq(Values)]
  BY <1>1, TypeFacts DEF HeapKept
<1>3. /\ DOMAIN heap[i] = 1..Len(heap[i])
      /\ DOMAIN heap'[i] = 1..Len(heap'[i])
      /\ Len(heap'[i]) = Len(heap[i])
  BY <1>1, <1>2 DEF HeapKept
<1>4. heap'[i][j].ts <= heap'[i][k].ts
  BY <1>3 DEF StreamsSorted
<1>5. heap'[i][j].ts = heap[i][j].ts /\ heap'[i][k].ts = heap[i][k].ts
  BY <1>1, <1>3 DEF HeapKept
<1> QED
  BY <1>4, <1>5

\* Every step keeps the order of the stored values.
LEMMA StreamNext == TypeInv /\ StreamInv /\ [Next]_vars => StreamInv'
<1> SUFFICES ASSUME TypeInv, StreamInv, [Next]_vars
             PROVE  StreamInv'
  OBVIOUS
<1>1. HeapKept /\ TypeInv'
  BY TypeNext
<1>2. heap \in [Rows -> Seq(Values)] /\ heap' \in [Rows -> Seq(Values)]
  BY <1>1, TypeFacts DEF HeapKept
<1>3. \A i \in Rows : /\ DOMAIN heap[i] = 1..Len(heap[i])
                      /\ DOMAIN heap'[i] = 1..Len(heap'[i])
  BY <1>2
<1>4. ASSUME NEW i \in Ids, NEW j \in DOMAIN heap'[i], NEW k \in DOMAIN heap'[i], j < k
      PROVE  heap'[i][j].ts <= heap'[i][k].ts
  <2>1. i \in Rows /\ Len(heap'[i]) = Len(heap[i])
    BY <1>1, ConstantFacts DEF HeapKept
  <2>2. j \in 1..Len(heap[i]) /\ k \in 1..Len(heap[i])
    BY <1>3, <2>1
  <2>3. heap[i][j].ts <= heap[i][k].ts
    BY <1>3, <1>4, <2>1, <2>2 DEF StreamInv, StreamsSorted
  <2>4. heap'[i][j].ts = heap[i][j].ts /\ heap'[i][k].ts = heap[i][k].ts
    BY <1>1, <2>1, <2>2 DEF HeapKept
  <2> QED
    BY <2>3, <2>4
<1>5. ASSUME NEW k \in DOMAIN heap'[0]
      PROVE  heap'[0][k].s = NoString
  <2>1. 0 \in Rows
    BY ConstantFacts
  <2>2. ASSUME k \in 1..Len(heap[0])
        PROVE  heap'[0][k].s = NoString
    <3>1. heap'[0][k].s = heap[0][k].s
      BY <1>1, <2>1, <2>2 DEF HeapKept
    <3> QED
      BY <1>3, <2>1, <2>2, <3>1 DEF StreamInv
  <2>3. CASE MaxStep
    <3>1. CASE UNCHANGED heap
      BY <1>3, <2>1, <2>2, <3>1
    <3>2. CASE merged # Closed /\ MaxNext(Val(merged))
      <4>1. merged \in Addresses
        BY <2>3, <3>2 DEF MaxStep, MaxReceives, TypeInv, TypeOK
      <4>2. Val(merged) \in Values
        BY <4>1, TypeFacts
      <4>3. /\ Len(heap'[0]) = Len(heap[0]) + 1 /\ Len(heap[0]) \in Nat
            /\ heap'[0][Len(heap[0]) + 1] =
                  [ts |-> Val(merged).ts, end |-> NoTime, d |-> max, s |-> NoString]
        BY <3>2, <4>2, HeapMax
      <4>4. heap'[0][Len(heap[0]) + 1].s = NoString
        BY <4>3
      <4>5. k \in 1..Len(heap[0]) \/ k = Len(heap[0]) + 1
        BY <1>3, <2>1, <4>3
      <4> QED
        BY <2>2, <4>4, <4>5
    <3> QED
      BY <2>3, <3>1, <3>2 DEF MaxStep, MaxFirst, MaxSame
  <2>4. CASE UNCHANGED heap
    BY <1>3, <2>1, <2>2, <2>4
  <2>5. ASSUME NEW g \in Groups, WriterStore(g)
        PROVE  heap'[0][k].s = NoString
    <3>1. CASE UNCHANGED heap
      BY <2>4, <3>1
    <3>2. CASE Addresses' = Addresses
      <4>1. <<0, k>> \in Addresses'
        BY <1>2, <1>3, <2>1, AddressFacts DEF Addresses
      <4>2. k \in 1..Len(heap[0])
        BY <3>2, <4>1, TypeFacts
      <4> QED
        BY <2>2, <4>2
    <3> QED
      BY <2>5, <3>1, <3>2, StoreFacts, HeapExtend
  <2>6. MaxStep \/ UNCHANGED heap \/ \E g \in Groups : WriterStore(g)
    BY TypeGet DEF Next, vars, MergeValueStreams, Writer, WriterRead
  <2> QED
    BY <2>3, <2>4, <2>5, <2>6
<1> QED
  BY <1>4, <1>5 DEF StreamInv, StreamsSorted

\* The addresses that the histories and the writers hold.
LEMMA HeldFacts ==
    ASSUME TypeInv
    PROVE  /\ \A g \in Groups : PassedOf(g) \subseteq Addresses /\ EmittedOf(g) \subseteq Addresses
           /\ pc = "send" => value \in Addresses
           /\ request.duration \in Nat
<1>1. \A g \in Groups : passed[g] \in Seq(Addresses) /\ emitted[g] \in Seq(Addresses)
  BY DEF TypeInv, TypeOK
<1>2. \A g \in Groups : PassedOf(g) \subseteq Addresses /\ EmittedOf(g) \subseteq Addresses
  BY <1>1, RangeFacts DEF PassedOf, EmittedOf
<1> QED
  BY <1>2, ConstantFacts DEF TypeInv, TypeOK, HandInv

\* The channels are open at first, and no value is on its way.
LEMMA PlaceInit == Init => ClosedInv /\ PlaceInv
<1> SUFFICES ASSUME Init
             PROVE  ClosedInv /\ PlaceInv
  OBVIOUS
<1>1. TypeInv
  BY TypeInit
<1>2. /\ merged = Nothing /\ mutated = Nothing /\ pc = "next"
      /\ \A g \in Groups : passed[g] = <<>>
  BY DEF Init
<1>3. \A g \in Groups : PassedOf(g) = {}
  BY <1>2 DEF PassedOf, Range
<1> QED
  BY <1>1, <1>2, <1>3, TypeFacts DEF ClosedInv, PlaceInv

\* Every step closes the channels in order.
LEMMA ClosedNext == TypeInv /\ ClosedInv /\ [Next]_vars => ClosedInv'
<1> SUFFICES ASSUME TypeInv, ClosedInv, [Next]_vars
             PROVE  ClosedInv'
  OBVIOUS
<1>1. \A i \in Ids : Len(heap'[i]) = Len(heap[i])
  BY TypeNext DEF HeapKept
<1>2. UNCHANGED <<indexes, group, label>> => Left' = Left
  BY <1>1 DEF Left, Members
<1>3. Nothing # Closed
  BY TypeFacts
<1>4. CASE MergeValueStreams
  <2>1. UNCHANGED <<heap, label, request, group, mutated>> /\ merged = Nothing
    BY <1>4 DEF MergeValueStreams, dataVars, maxVars, getVars
  <2>2. CASE Left = {}
    <3>1. Taken = {}
      BY <2>2 DEF Taken
    <3>2. indexes' = [i \in Ids |-> indexes[i]]
      BY <1>4, <3>1 DEF MergeValueStreams
    <3>3. UNCHANGED indexes
      BY <3>2 DEF TypeInv, TypeOK
    <3> QED
      BY <1>2, <1>4, <2>1, <2>2, <3>3 DEF ClosedInv, MergeValueStreams
  <2>3. CASE Left # {}
    <3>1. merged' \in Addresses
      BY <1>4, <2>3, SentAddress, TypeFacts DEF MergeValueStreams
    <3>2. merged' # Closed
      BY <3>1, TypeFacts
    <3> QED
      BY <1>3, <2>1, <3>2 DEF ClosedInv
  <2> QED
    BY <2>2, <2>3
<1>5. CASE MaxStep
  <2>1. UNCHANGED <<indexes, group, label, request>> /\ request.duration > 0
    BY <1>5 DEF MaxStep, MaxReceives, dataVars, getVars
  <2>2. CASE merged = Closed
    BY <1>2, <1>5, <2>1, <2>2 DEF ClosedInv, MaxStep
  <2>3. CASE merged # Closed
    <3>1. merged' = Nothing /\ merged \in Addresses
      BY <1>5, <2>3 DEF MaxStep, MaxReceives, TypeInv, TypeOK
    <3>2. mutated' # Closed
      <4>1. Val(merged) \in Values
        BY <3>1, TypeFacts
      <4>2. MaxFirst(Val(merged)) \/ MaxNext(Val(merged)) \/ MaxSame(Val(merged))
        BY <1>5, <2>3 DEF MaxStep
      <4>3. mutated = Nothing
        BY <1>5 DEF MaxStep, MaxReceives
      <4>4. CASE MaxNext(Val(merged))
        <5>1. mutated' = <<0, Len(heap[0]) + 1>>
          BY <4>4 DEF MaxNext
        <5> QED
          BY <5>1 DEF Closed
      <4>5. CASE MaxFirst(Val(merged)) \/ MaxSame(Val(merged))
        BY <1>3, <4>3, <4>5 DEF MaxFirst, MaxSame
      <4> QED
        BY <4>2, <4>4, <4>5
    <3> QED
      BY <1>3, <2>1, <3>1, <3>2 DEF ClosedInv
  <2> QED
    BY <2>2, <2>3
<1>6. CASE Get
  <2>1. ASSUME NEW g \in Groups, NextGroup(g)
        PROVE  ClosedInv'
    BY <1>3, <2>1 DEF NextGroup, ClosedInv
  <2>2. CASE Receive
    <3>1. UNCHANGED <<indexes, group, label, request>>
      BY <2>2 DEF Receive, dataVars
    <3>2. \/ request.duration > 0 /\ mutated' = Nothing /\ UNCHANGED merged
          \/ ~ (request.duration > 0) /\ merged' = Nothing /\ UNCHANGED mutated
      BY <2>2 DEF Receive
    <3> QED
      BY <1>2, <1>3, <3>1, <3>2 DEF ClosedInv
  <2>3. CASE Send \/ Close \/ Cut \/ CutPanic \/ returnResponse
    <3>1. UNCHANGED <<indexes, group, label, request, merged, mutated>>
      BY <2>3 DEF Send, Close, Cut, CutPanic, returnResponse, dataVars, mergeVars, maxVars
    <3> QED
      BY <1>2, <3>1 DEF ClosedInv
  <2> QED
    BY <1>6, <2>1, <2>2, <2>3 DEF Get
<1>7. ASSUME NEW g \in Groups, Writer(g)
      PROVE  ClosedInv'
  <2>1. UNCHANGED <<dataVars, mergeVars, maxVars, getVars>>
    BY <1>7, StoreFacts DEF Writer, WriterRead
  <2> QED
    BY <1>2, <2>1 DEF ClosedInv, dataVars, mergeVars, maxVars, getVars
<1>8. CASE UNCHANGED vars
  BY <1>2, <1>8 DEF ClosedInv, vars, dataVars, mergeVars, maxVars, getVars
<1> QED
  BY <1>4, <1>5, <1>6, <1>7, <1>8 DEF Next

\* Every step moves a value once through the pipeline.
LEMMA PlaceNext == TypeInv /\ ClosedInv /\ PlaceInv /\ [Next]_vars => PlaceInv'
<1> SUFFICES ASSUME TypeInv, ClosedInv, PlaceInv, [Next]_vars
             PROVE  PlaceInv'
  OBVIOUS
<1>1. TypeInv' /\ HeapKept
  BY TypeNext
<1>2. /\ \A a \in Addresses : a # Nothing /\ a # Closed /\ a[2] \in Nat
      /\ Nothing \notin Addresses' /\ Closed \notin Addresses'
  <2>1. \A a \in Addresses : a[1] \in Rows /\ a[2] \in 1..Len(heap[a[1]])
    BY TypeFacts
  <2>2. \A i \in Rows : Len(heap[i]) \in Nat
    BY DEF TypeInv, TypeOK
  <2>3. heap' \in [Rows -> Seq(Values)]
    BY <1>1 DEF HeapKept
  <2>4. Nothing \notin Addresses' /\ Closed \notin Addresses'
    BY <2>3, AddressFacts DEF Addresses
  <2>5. \A a \in Addresses : a[2] \in Nat
    BY <2>1, <2>2
  <2> QED
    BY <2>4, <2>5, TypeFacts
<1>3. /\ \A g \in Groups : PassedOf(g) \subseteq Addresses
      /\ pc = "send" => value \in Addresses
      /\ request.duration \in Nat
      /\ merged \in Addresses \cup {Nothing, Closed}
      /\ mutated \in Addresses \cup {Nothing, Closed}
      /\ indexes \in [Ids -> Nat] /\ group \in Groups
  BY HeldFacts DEF TypeInv, TypeOK
<1>4. CASE MergeValueStreams
  <2>1. /\ UNCHANGED <<request, mutated, value, passed, pc>> /\ Addresses' = Addresses
        /\ merged = Nothing
        /\ indexes' = [i \in Ids |-> IF i \in Taken THEN indexes[i] + 1 ELSE indexes[i]]
    BY <1>4, HeapUnchanged DEF MergeValueStreams, dataVars, maxVars, getVars
  <2>2. \A i \in Ids : indexes[i] <= indexes'[i]
    BY <1>3, <2>1
  <2>3. \A a \in Addresses : Old(a) => Old(a)'
    <3>1. \A a \in Addresses : a[1] \in Ids /\ a[2] <= indexes[a[1]] => a[2] <= indexes'[a[1]]
      <4> TAKE a \in Addresses
      <4> SUFFICES ASSUME a[1] \in Ids, a[2] <= indexes[a[1]]
                   PROVE  a[2] <= indexes'[a[1]]
        OBVIOUS
      <4>1. indexes[a[1]] \in Nat /\ indexes'[a[1]] \in Nat /\ a[2] \in Nat
        BY <1>1, <1>2, <1>3 DEF TypeInv, TypeOK
      <4>2. indexes[a[1]] <= indexes'[a[1]]
        BY <2>2
      <4> QED
        BY <4>1, <4>2
    <3> QED
      BY <3>1 DEF Old
  <2>4. \A g \in Groups : PassedOf(g)' = PassedOf(g)
    BY <2>1 DEF PassedOf
  <2>5. ASSUME merged' \in Addresses
        PROVE  /\ merged'[1] \in Ids /\ Old(merged)'
               /\ \A g \in Groups : merged' \notin PassedOf(g)
               /\ pc = "send" => value # merged'
    <3>1. Left # {} /\ merged' = HeadOf(Sent)
      BY <1>2, <1>4, <2>1, <2>5 DEF MergeValueStreams
    <3>2. PICK i \in Ids : /\ merged' = <<i, indexes[i] + 1>> /\ i \in Taken
                           /\ merged'[1] = i /\ merged'[2] = indexes[i] + 1
      BY <3>1, SentAddress, SentFacts, TypeFacts DEF HeadOf
    <3>3. indexes'[i] = indexes[i] + 1 /\ indexes[i] \in Nat
      BY <1>3, <2>1, <3>2
    <3>4. Old(merged)'
      BY <3>2, <3>3 DEF Old
    <3>5. \A a \in Addresses : Old(a) => a # merged'
      BY <3>2, <3>3 DEF Old
    <3> QED
      BY <1>3, <3>2, <3>4, <3>5 DEF PlaceInv
  <2>6. pc = "send" => value # merged'
    BY <1>2, <1>3, <2>1, <2>5, <1>1 DEF TypeInv, TypeOK
  <2>7. pc = "send" => Old(value)'
    <3>1. pc = "send" => Old(value) /\ value \in Addresses
      BY <1>3 DEF PlaceInv
    <3>2. pc = "send" /\ value[1] \in Ids => value[2] <= indexes'[value[1]]
      BY <2>3, <3>1 DEF Old
    <3> QED
      BY <2>1, <3>2 DEF Old
  <2>8. \A a : Fresh(a) => \A g \in Groups : a \notin PassedOf(g)'
    BY <2>4 DEF Fresh
  <2>9. merged' \in Addresses => \A g \in Groups : merged' \notin PassedOf(g)'
    BY <2>4, <2>5
  <2> QED
    BY <1>3, <2>1, <2>3, <2>4, <2>5, <2>6, <2>7, <2>8, <2>9 DEF PlaceInv, Fresh
<1>5. CASE MaxStep
  <2>1. /\ UNCHANGED <<request, indexes, value, passed, pc>> /\ mutated = Nothing
        /\ merged' = Nothing \/ (merged' = Closed /\ UNCHANGED heap /\ mutated' = Closed)
    BY <1>5 DEF MaxStep, MaxReceives, dataVars, getVars
  <2>2. \/ mutated' \in {Nothing, Closed}
        \/ mutated'[1] = 0 /\ mutated' \notin Addresses
    <3>1. CASE merged = Closed
      BY <1>5, <3>1 DEF MaxStep
    <3>2. CASE merged # Closed
      <4>1. merged \in Addresses
        BY <1>3, <1>5, <3>2 DEF MaxStep, MaxReceives
      <4>2. Val(merged) \in Values
        BY <4>1, TypeFacts
      <4>3. CASE MaxNext(Val(merged))
        <5>1. mutated' = <<0, Len(heap[0]) + 1>> /\ mutated' \notin Addresses
          BY <4>2, <4>3, HeapMax
        <5> QED
          BY <5>1
      <4>4. CASE MaxFirst(Val(merged)) \/ MaxSame(Val(merged))
        BY <2>1, <4>4 DEF MaxFirst, MaxSame
      <4> QED
        BY <1>5, <3>2, <4>3, <4>4 DEF MaxStep
    <3> QED
      BY <3>1, <3>2
  <2>3. \A g \in Groups : PassedOf(g)' = PassedOf(g)
    BY <2>1 DEF PassedOf
  <2>4. \A a : Old(a)' <=> (a[1] \in Ids => a[2] <= indexes[a[1]])
    BY <2>1 DEF Old
  <2>5. merged' \notin Addresses'
    BY <1>2, <2>1
  <2>6. mutated' \in Addresses' =>
            /\ mutated'[1] = 0 /\ \A g \in Groups : mutated' \notin PassedOf(g)'
    BY <1>2, <1>3, <2>2, <2>3
  <2>7. pc = "send" => /\ Old(value)' /\ value # merged' /\ value # mutated'
                       /\ \A g \in Groups : value \notin PassedOf(g)'
    BY <1>2, <1>3, <2>1, <2>2, <2>3 DEF PlaceInv, Old, Fresh
  <2> QED
    BY <2>1, <2>3, <2>4, <2>5, <2>6, <2>7 DEF PlaceInv, Fresh, Old
<1>6. ASSUME NEW g \in Groups, NextGroup(g)
      PROVE  PlaceInv'
  <2>1. /\ UNCHANGED <<request, indexes, passed>> /\ pc' = "receive"
        /\ merged' = Nothing /\ mutated' = Nothing
    BY <1>6 DEF NextGroup, dataVars
  <2> QED
    BY <1>2, <2>1 DEF PlaceInv, Fresh, Old, PassedOf
<1>7. CASE Receive
  <2>1. /\ UNCHANGED <<heap, request, indexes, passed>> /\ pc = "receive"
        /\ (pc' = pc) \/ (value' = Channel /\ pc' = "send")
        /\ Channel \notin {Nothing, Closed}
    BY <1>7 DEF Receive, dataVars
  <2>2. \A g \in Groups : PassedOf(g)' = PassedOf(g)
    BY <2>1 DEF PassedOf
  <2>3. Addresses' = Addresses
    BY <2>1, HeapUnchanged
  <2>4. \A a : Old(a)' <=> (a[1] \in Ids => a[2] <= indexes[a[1]])
    BY <2>1 DEF Old
  <2>5. CASE request.duration > 0
    <3>1. mutated' = Nothing /\ merged' = merged /\ Channel = mutated
      BY <1>7, <2>5 DEF Receive, Channel
    <3>2. mutated \in Addresses /\ mutated[1] = 0 /\ Fresh(mutated)
      BY <1>3, <2>1, <3>1 DEF PlaceInv
    <3>3. mutated # merged
      BY <1>2, <3>2, <1>3, ConstantFacts DEF PlaceInv
    <3>4. pc' = "send" => /\ Old(value)' /\ value' # merged' /\ value' # mutated'
                          /\ \A g \in Groups : value' \notin PassedOf(g)'
                          /\ value'[1] = 0
      BY <1>2, <2>1, <2>2, <3>1, <3>2, <3>3, ConstantFacts DEF Old, Fresh
    <3>5. merged' \in Addresses' => /\ merged'[1] \in Ids /\ Old(merged)'
                                    /\ \A g \in Groups : merged' \notin PassedOf(g)'
      BY <2>1, <2>2, <2>3, <3>1 DEF PlaceInv, Old, Fresh
    <3>6. mutated' \notin Addresses'
      BY <1>2, <3>1
    <3> QED
      BY <2>1, <2>2, <2>4, <3>4, <3>5, <3>6 DEF PlaceInv, Fresh, Old
  <2>6. CASE ~ (request.duration > 0)
    <3>1. merged' = Nothing /\ mutated' = mutated /\ Channel = merged
      BY <1>7, <2>6 DEF Receive, Channel
    <3>2. merged \in Addresses /\ Old(merged) /\ Fresh(merged)
      BY <1>3, <2>1, <3>1 DEF PlaceInv
    <3>3. mutated' = Nothing
      BY <2>6, <3>1 DEF ClosedInv
    <3>4. pc' = "send" => /\ Old(value)' /\ value' # merged' /\ value' # mutated'
                          /\ \A g \in Groups : value' \notin PassedOf(g)'
      BY <1>2, <2>1, <2>2, <3>1, <3>2, <3>3 DEF Old, Fresh
    <3>5. merged' \notin Addresses' /\ mutated' \notin Addresses'
      BY <1>2, <3>1, <3>3
    <3> QED
      BY <2>1, <2>2, <2>4, <2>6, <3>4, <3>5 DEF PlaceInv, Fresh, Old
  <2> QED
    BY <2>5, <2>6
<1>8. CASE Send
  <2>1. /\ UNCHANGED <<heap, request, indexes, merged, mutated, group>>
        /\ pc = "send" /\ pc' = "receive"
        /\ passed' = [passed EXCEPT ![group] = Append(@, value)]
    BY <1>8 DEF Send, dataVars, mergeVars, maxVars
  <2>2. /\ passed'[group] = Append(passed[group], value)
        /\ \A g \in Groups : g # group => passed'[g] = passed[g]
        /\ passed[group] \in Seq(Addresses)
    BY <2>1 DEF TypeInv, TypeOK
  <2>3. Range(passed'[group]) = Range(passed[group]) \cup {value}
    BY <1>3, <2>1, <2>2, RangeFacts
  <2>4. \A g \in Groups : \A a :
            a \in PassedOf(g)' <=> a \in PassedOf(g) \/ (g = group /\ a = value)
    BY <2>2, <2>3 DEF PassedOf
  <2>5. Addresses' = Addresses
    BY <2>1, HeapUnchanged
  <2>6. \A a : Old(a)' <=> (a[1] \in Ids => a[2] <= indexes[a[1]])
    BY <2>1 DEF Old
  <2>7. /\ Old(value) /\ Fresh(value) /\ value # merged /\ value # mutated
        /\ request.duration > 0 => value[1] = 0
    BY <2>1 DEF PlaceInv
  <2>8. merged' \in Addresses' => /\ merged'[1] \in Ids /\ Old(merged)'
                                  /\ \A g \in Groups : merged' \notin PassedOf(g)'
    BY <2>1, <2>4, <2>5, <2>7 DEF PlaceInv, Old, Fresh
  <2>9. mutated' \in Addresses' => /\ mutated'[1] = 0
                                   /\ \A g \in Groups : mutated' \notin PassedOf(g)'
    BY <2>1, <2>4, <2>5, <2>7 DEF PlaceInv, Fresh
  <2>10. \A g \in Groups : \A a \in PassedOf(g)' :
            (a[1] \in Ids => a[2] <= indexes[a[1]]) /\ (request.duration > 0 => a[1] = 0)
    BY <2>4, <2>7 DEF PlaceInv, Old
  <2>11. \A g, h \in Groups : g # h => PassedOf(g)' \cap PassedOf(h)' = {}
    <3> SUFFICES ASSUME NEW g \in Groups, NEW h \in Groups, g # h,
                        NEW a \in PassedOf(g)', a \in PassedOf(h)'
                 PROVE  FALSE
      OBVIOUS
    <3>1. PassedOf(g) \cap PassedOf(h) = {}
      BY DEF PlaceInv
    <3> QED
      BY <2>4, <2>7, <3>1 DEF Fresh
  <2> QED
    BY <2>1, <2>6, <2>8, <2>9, <2>10, <2>11 DEF PlaceInv, Fresh
<1>9. CASE Close \/ Cut \/ CutPanic \/ returnResponse
  <2>1. /\ UNCHANGED <<heap, request, indexes, merged, mutated, passed>>
        /\ pc' # "send"
    BY <1>9 DEF Close, Cut, CutPanic, returnResponse, dataVars, mergeVars, maxVars
  <2>2. Addresses' = Addresses
    BY <2>1, HeapUnchanged
  <2> QED
    BY <2>1, <2>2 DEF PlaceInv, Fresh, Old, PassedOf
<1>10. ASSUME NEW g \in Groups, Writer(g)
       PROVE  PlaceInv'
  <2>1. UNCHANGED <<dataVars, mergeVars, maxVars, getVars>>
    BY <1>10, StoreFacts DEF Writer, WriterRead
  <2>2. Addresses' = Addresses
    <3>1. CASE UNCHANGED heap
      BY <3>1, HeapUnchanged
    <3>2. CASE WriterStore(g)
      BY <3>1, <3>2, StoreFacts, HeapExtend
    <3> QED
      BY <1>10, <3>1, <3>2 DEF Writer, WriterRead
  <2> QED
    BY <2>1, <2>2 DEF PlaceInv, Fresh, Old, PassedOf, dataVars, mergeVars, maxVars, getVars
<1>11. CASE UNCHANGED vars
  <2>1. Addresses' = Addresses
    BY <1>11, HeapUnchanged DEF vars
  <2> QED
    BY <1>11, <2>1 DEF PlaceInv, Fresh, Old, PassedOf, vars, dataVars, mergeVars, maxVars,
                       getVars
<1> QED
  BY <1>4, <1>5, <1>6, <1>7, <1>8, <1>9, <1>10, <1>11 DEF Next, Get

-----------------------------------------------------------------------------
(***************************************************************************)
(* The order of the timestamps.                                            *)
(***************************************************************************)
\* The timestamp of the value at the address a after the step.
TimeNext(a) == heap'[a[1]][a[2]].ts

\* The timestamp of a value does not change.
LEMMA TimeKept ==
    ASSUME TypeInv, HeapKept
    PROVE  \A a \in Addresses : TimeNext(a) = Time(a) /\ Time(a) \in Nat /\ Time(a) > 0
BY TypeFacts, KeptFacts DEF TimeNext, Time, Val

\* What is to be shown of the next state, in terms of TimeNext.
LEMMA OrderBy ==
    ASSUME NEW P, P = PassedOf(group)', NEW L, L = Left', NEW c, c = Channel',
           pc' = "send" => \A a \in P : TimeNext(a) <= TimeNext(value'),
           c \in Addresses' =>
              /\ \A a \in P : TimeNext(a) <= TimeNext(c)
              /\ pc' = "send" => TimeNext(value') <= TimeNext(c),
           request'.duration > 0 =>
              /\ \A a \in P : TimeNext(a) <= lastTimestamp'
              /\ pc' = "send" => TimeNext(value') <= lastTimestamp'
              /\ mutated' \in Addresses' => TimeNext(mutated') <= lastTimestamp'
              /\ merged' \in Addresses' => lastTimestamp' <= TimeNext(merged')
              /\ \A i \in L : lastTimestamp' <= TimeNext(<<i, indexes'[i] + 1>>),
           \A i \in L :
              /\ \A a \in P : TimeNext(a) <= TimeNext(<<i, indexes'[i] + 1>>)
              /\ pc' = "send" => TimeNext(value') <= TimeNext(<<i, indexes'[i] + 1>>)
              /\ merged' \in Addresses' => TimeNext(merged') <= TimeNext(<<i, indexes'[i] + 1>>)
    PROVE  OrderInv'
BY DEF OrderInv, NotAfter, TimeNext, Time, Val, HeadOf

\* The values are in order at first, since there are none in the pipeline.
LEMMA OrderInit == Init => OrderInv
<1> SUFFICES ASSUME Init
             PROVE  OrderInv
  OBVIOUS
<1>1. TypeInv
  BY TypeInit
<1>2. /\ merged = Nothing /\ mutated = Nothing /\ pc = "next" /\ lastTimestamp = 0
      /\ passed[group] = <<>>
  BY DEF Init, NoTime, Groups
<1>3. PassedOf(group) = {}
  BY <1>2 DEF PassedOf, Range
<1>4. \A i \in Left : 0 <= Time(HeadOf(i))
  BY <1>1, HeadFacts, TypeFacts DEF Time
<1>5. Nothing \notin Addresses
  BY <1>1, TypeFacts
<1> QED
  BY <1>2, <1>3, <1>4, <1>5 DEF OrderInv, NotAfter, Channel

\* The next value of a stream after the step, if it was not the one taken, is
\* as late as the one that MergeValueStreams has sent.
LEMMA HeadLater ==
    ASSUME TypeInv, StreamInv, MergeValueStreams, NEW i \in Left'
    PROVE  /\ Left # {}
           /\ <<i, indexes'[i] + 1>> \in Addresses
           /\ Time(HeadOf(Sent)) <= Time(<<i, indexes'[i] + 1>>)
<1>1. MergeType
  BY TypeFacts
<1>2. /\ UNCHANGED <<heap, label, group>>
      /\ indexes' = [j \in Ids |-> IF j \in Taken THEN indexes[j] + 1 ELSE indexes[j]]
  BY DEF MergeValueStreams, dataVars, getVars
<1>3. i \in Ids /\ i \in Members(group) /\ indexes'[i] < Len(heap[i])
  BY <1>2 DEF Left, Members
<1>4. /\ indexes[i] \in Nat /\ heap[i] \in Seq(Values) /\ Len(heap[i]) \in Nat /\ i \in Rows
  BY <1>1, <1>3, ConstantFacts DEF MergeType
<1>5. indexes'[i] = indexes[i] \/ (indexes'[i] = indexes[i] + 1 /\ i \in Taken)
  BY <1>2, <1>3
<1>6. i \in Left
  BY <1>3, <1>4, <1>5 DEF Left
<1>7. Time(HeadOf(Sent)) <= Time(HeadOf(i)) /\ Sent \in Left
  BY <1>1, <1>6, SentFacts
<1>8. Time(HeadOf(Sent)) \in Nat /\ Time(HeadOf(i)) \in Nat
  BY <1>1, <1>6, <1>7, HeadFacts DEF Time
<1>9. indexes'[i] + 1 \in 1..Len(heap[i])
  BY <1>3, <1>4, <1>5
<1>10. <<i, indexes'[i] + 1>> \in Addresses
  BY <1>1, <1>4, <1>9, AddressFacts DEF Addresses, MergeType
<1>11. CASE indexes'[i] = indexes[i]
  BY <1>6, <1>7, <1>10, <1>11 DEF HeadOf
<1>12. CASE indexes'[i] = indexes[i] + 1
  <2>1. heap[i][indexes[i] + 1].ts <= heap[i][indexes[i] + 2].ts
    <3>1. DOMAIN heap[i] = 1..Len(heap[i])
      BY <1>4
    <3>2. indexes[i] + 1 \in DOMAIN heap[i] /\ indexes[i] + 2 \in DOMAIN heap[i]
      BY <1>4, <1>9, <1>12, <3>1
    <3>3. indexes[i] + 1 < indexes[i] + 2
      BY <1>4
    <3> QED
      BY <1>3, <3>2, <3>3 DEF StreamInv, StreamsSorted
  <2>2. Time(HeadOf(i)) = heap[i][indexes[i] + 1].ts
    BY DEF Time, Val, HeadOf
  <2>3. Time(<<i, indexes'[i] + 1>>) = heap[i][indexes[i] + 2].ts
    <3>1. indexes'[i] + 1 = indexes[i] + 2
      BY <1>4, <1>12
    <3> QED
      BY <3>1 DEF Time, Val
  <2>4. Time(<<i, indexes'[i] + 1>>) \in Nat
    BY <1>10, TypeFacts DEF Time
  <2> QED
    BY <1>6, <1>7, <1>8, <1>10, <2>1, <2>2, <2>3, <2>4
<1> QED
  BY <1>5, <1>11, <1>12

\* What OrderInv says, with NotAfter expanded, and the numbers it compares.
LEMMA OrderFacts ==
    ASSUME TypeInv, OrderInv
    PROVE  /\ \A a \in Addresses : Time(a) \in Nat /\ Time(a) > 0
           /\ lastTimestamp \in Nat
           /\ PassedOf(group) \subseteq Addresses
           /\ pc = "send" => value \in Addresses
           /\ \A i \in Left : HeadOf(i) \in Addresses
           /\ pc = "send" => \A a \in PassedOf(group) : Time(a) <= Time(value)
           /\ Channel \in Addresses =>
                 /\ \A a \in PassedOf(group) : Time(a) <= Time(Channel)
                 /\ pc = "send" => Time(value) <= Time(Channel)
           /\ request.duration > 0 =>
                 /\ \A a \in PassedOf(group) : Time(a) <= lastTimestamp
                 /\ pc = "send" => Time(value) <= lastTimestamp
                 /\ mutated \in Addresses => Time(mutated) <= lastTimestamp
                 /\ merged \in Addresses => lastTimestamp <= Time(merged)
                 /\ \A i \in Left : lastTimestamp <= Time(HeadOf(i))
           /\ \A i \in Left :
                 /\ \A a \in PassedOf(group) : Time(a) <= Time(HeadOf(i))
                 /\ pc = "send" => Time(value) <= Time(HeadOf(i))
                 /\ merged \in Addresses => Time(merged) <= Time(HeadOf(i))
<1>1. \A a \in Addresses : Time(a) \in Nat /\ Time(a) > 0
  BY TypeFacts DEF Time
<1>2. lastTimestamp \in Nat
  <2>1. lastTimestamp \in Times \/ lastTimestamp = NoTime
    BY DEF TypeInv, TypeOK
  <2>2. \A t \in Times : t \in Nat
    BY ConstantFacts
  <2> QED
    BY <2>1, <2>2 DEF NoTime
<1>3. PassedOf(group) \subseteq Addresses /\ (pc = "send" => value \in Addresses)
  BY HeldFacts DEF TypeInv, TypeOK
<1>4. \A i \in Left : HeadOf(i) \in Addresses
  BY TypeFacts, HeadFacts
<1> QED
  BY <1>1, <1>2, <1>3, <1>4 DEF OrderInv, NotAfter

\* MergeValueStreams sends the values in order.
LEMMA OrderMerge ==
    ASSUME TypeInv, StreamInv, OrderInv, MergeValueStreams
    PROVE  OrderInv'
<1>1. /\ UNCHANGED <<heap, label, request, group, mutated, lastTimestamp, value, passed, pc>>
      /\ merged = Nothing
  BY DEF MergeValueStreams, dataVars, maxVars, getVars
<1>2. Addresses' = Addresses /\ HeapKept
  BY <1>1, HeapUnchanged
<1>3. \A a \in Addresses : TimeNext(a) = Time(a)
  BY <1>2, TimeKept
<1>4. PassedOf(group)' = PassedOf(group)
  BY <1>1 DEF PassedOf
<1>5. Nothing \notin Addresses /\ Closed \notin Addresses
  BY TypeFacts
<1>6. CASE Left = {}
  <2>1. merged' = Closed
    BY <1>6 DEF MergeValueStreams
  <2>2. Left' = {}
    BY <1>6, HeadLater
  <2>3. Channel' \in Addresses => Channel' = Channel
    BY <1>1, <1>5, <2>1 DEF Channel
  <2> QED
    BY <1>1, <1>2, <1>3, <1>4, <1>5, <2>1, <2>2, <2>3, OrderBy, OrderFacts
<1>7. CASE Left # {}
  <2>1. merged' = HeadOf(Sent) /\ merged' \in Addresses /\ Sent \in Left
    BY <1>7, SentAddress, SentFacts, TypeFacts DEF MergeValueStreams
  <2>2. \A i \in Left' : <<i, indexes'[i] + 1>> \in Addresses
                         /\ Time(merged') <= Time(<<i, indexes'[i] + 1>>)
    BY <2>1, HeadLater
  <2>3. /\ \A a \in PassedOf(group) : Time(a) <= Time(merged')
        /\ pc = "send" => Time(value) <= Time(merged')
        /\ request.duration > 0 => lastTimestamp <= Time(merged')
    BY <2>1, OrderFacts
  <2>4. ASSUME NEW i \in Left'
        PROVE  /\ \A a \in PassedOf(group) : Time(a) <= Time(<<i, indexes'[i] + 1>>)
               /\ pc = "send" => Time(value) <= Time(<<i, indexes'[i] + 1>>)
               /\ request.duration > 0 => lastTimestamp <= Time(<<i, indexes'[i] + 1>>)
    <3>1. /\ <<i, indexes'[i] + 1>> \in Addresses
          /\ Time(merged') <= Time(<<i, indexes'[i] + 1>>)
      BY <2>2
    <3>2. PICK t \in Nat : t = Time(<<i, indexes'[i] + 1>>) /\ Time(merged') <= t
      BY <3>1, OrderFacts
    <3>3. Time(merged') \in Nat
      BY <2>1, OrderFacts
    <3> QED
      BY <2>3, <3>2, <3>3, OrderFacts
  <2>5. CASE request.duration > 0
    <3>1. Channel' = mutated /\ Channel = mutated
      BY <1>1, <2>5 DEF Channel
    <3> QED
      BY <1>1, <1>2, <1>3, <1>4, <2>1, <2>2, <2>3, <2>4, <3>1, OrderBy, OrderFacts
  <2>6. CASE ~ (request.duration > 0)
    <3>1. Channel' = merged'
      BY <1>1, <2>6 DEF Channel
    <3> QED
      BY <1>1, <1>2, <1>3, <1>4, <2>1, <2>2, <2>3, <2>4, <2>6, <3>1, OrderBy, OrderFacts
  <2> QED
    BY <2>5, <2>6
<1> QED
  BY <1>6, <1>7

\* The streams and their next values after a step that takes none of them.
LEMMA HeadsKept ==
    ASSUME TypeInv, HeapKept, UNCHANGED <<label, group, indexes>>
    PROVE  /\ Left' = Left
           /\ \A i \in Left : /\ <<i, indexes'[i] + 1>> = HeadOf(i)
                              /\ HeadOf(i) \in Addresses
                              /\ TimeNext(<<i, indexes'[i] + 1>>) = Time(HeadOf(i))
<1>1. Left' = Left
  BY DEF Left, Members, HeapKept
<1>2. \A i \in Left : <<i, indexes'[i] + 1>> = HeadOf(i) /\ HeadOf(i) \in Addresses
  BY HeadFacts, TypeFacts DEF HeadOf
<1>3. \A a \in Addresses : TimeNext(a) = Time(a)
  BY TimeKept
<1> QED
  BY <1>1, <1>2, <1>3

\* Max keeps the order.
LEMMA OrderMax ==
    ASSUME TypeInv, OrderInv, MaxStep
    PROVE  OrderInv'
<1>1. /\ UNCHANGED <<label, request, group, indexes, value, passed, pc>>
      /\ mutated = Nothing /\ request.duration > 0
  BY DEF MaxStep, MaxReceives, dataVars, getVars
<1>2. HeapKept
  BY TypeMax
<1>3. \A a \in Addresses : TimeNext(a) = Time(a)
  BY <1>2, TimeKept
<1>4. PassedOf(group)' = PassedOf(group)
  BY <1>1 DEF PassedOf
<1>5. /\ Left' = Left
      /\ \A i \in Left : TimeNext(<<i, indexes'[i] + 1>>) = Time(HeadOf(i))
  BY <1>1, <1>2, HeadsKept
<1>6. Nothing \notin Addresses' /\ Closed \notin Addresses'
  BY <1>2, AddressFacts DEF Addresses, HeapKept
<1>7. Channel' = mutated'
  BY <1>1 DEF Channel
<1>8. CASE merged = Closed
  <2>1. mutated' = Closed /\ merged' = Closed /\ UNCHANGED lastTimestamp
    BY <1>8 DEF MaxStep
  <2> QED
    BY <1>1, <1>3, <1>4, <1>5, <1>6, <1>7, <2>1, OrderBy, OrderFacts
<1>9. CASE merged # Closed
  <2>1. merged \in Addresses /\ merged' = Nothing
    BY <1>9 DEF MaxStep, MaxReceives, TypeInv, TypeOK
  <2>2. Val(merged) \in Values /\ Time(merged) = Val(merged).ts
    BY <2>1, TypeFacts DEF Time
  <2>3. CASE MaxNext(Val(merged))
    <3>1. /\ heap'[0][Len(heap[0]) + 1] =
                [ts |-> Val(merged).ts, end |-> NoTime, d |-> max, s |-> NoString]
          /\ mutated' = <<0, Len(heap[0]) + 1>>
      BY <2>2, <2>3, HeapMax
    <3>2. TimeNext(mutated') = Time(merged)
      BY <2>2, <3>1 DEF TimeNext
    <3>3. lastTimestamp' = Time(merged)
      BY <2>2, <2>3 DEF MaxNext
    <3>4. /\ \A a \in PassedOf(group) : Time(a) <= Time(merged)
          /\ pc = "send" => Time(value) <= Time(merged)
      BY <1>1, <2>1, OrderFacts
    <3> QED
      BY <1>1, <1>3, <1>4, <1>5, <1>6, <1>7, <2>1, <3>2, <3>3, <3>4, OrderBy, OrderFacts
  <2>4. CASE MaxFirst(Val(merged))
    <3>1. lastTimestamp' = Time(merged) /\ mutated' = Nothing
      BY <1>1, <2>2, <2>4 DEF MaxFirst
    <3>2. /\ \A a \in PassedOf(group) : Time(a) <= Time(merged)
          /\ pc = "send" => Time(value) <= Time(merged)
      BY <1>1, <2>1, OrderFacts
    <3> QED
      BY <1>1, <1>3, <1>4, <1>5, <1>6, <1>7, <2>1, <3>1, <3>2, OrderBy, OrderFacts
  <2>5. CASE MaxSame(Val(merged))
    <3>1. lastTimestamp' = lastTimestamp /\ mutated' = Nothing
      BY <1>1, <2>5 DEF MaxSame
    <3> QED
      BY <1>1, <1>3, <1>4, <1>5, <1>6, <1>7, <2>1, <3>1, OrderBy, OrderFacts
  <2> QED
    BY <1>9, <2>3, <2>4, <2>5 DEF MaxStep
<1> QED
  BY <1>8, <1>9

\* Get and the writers keep the order.
LEMMA OrderGet ==
    ASSUME TypeInv, TodoInv, ClosedInv, OrderInv, Get
    PROVE  OrderInv'
<1>1. UNCHANGED heap
  BY TypeGet
<1>2. Addresses' = Addresses /\ HeapKept
  BY <1>1, HeapUnchanged
<1>3. \A a \in Addresses : TimeNext(a) = Time(a)
  BY <1>2, TimeKept
<1>4. Nothing \notin Addresses /\ Closed \notin Addresses
  BY TypeFacts
<1>5. ASSUME NEW g \in Groups, NextGroup(g)
      PROVE  OrderInv'
  <2>1. /\ g \in todo /\ group' = g /\ merged' = Nothing /\ mutated' = Nothing
        /\ lastTimestamp' = 0 /\ pc' = "receive" /\ UNCHANGED <<indexes, passed>>
    BY <1>5 DEF NextGroup, NoTime
  <2>2. PassedOf(group)' = {}
    BY <2>1 DEF TodoInv, PassedOf, Range
  <2>3. Channel' = Nothing
    BY <2>1 DEF Channel
  <2>4. \A i \in Left' : 0 <= TimeNext(<<i, indexes'[i] + 1>>)
    <3> TAKE i \in Left'
    <3>1. i \in Ids /\ indexes[i] < Len(heap[i])
      BY <1>1, <2>1 DEF Left, Members
    <3>2. /\ indexes[i] \in Nat /\ heap[i] \in Seq(Values) /\ Len(heap[i]) \in Nat /\ i \in Rows
      BY <3>1, ConstantFacts DEF TypeInv, TypeOK
    <3>3. indexes[i] + 1 \in 1..Len(heap[i])
      BY <3>1, <3>2
    <3>4. <<i, indexes[i] + 1>> \in Addresses
      BY <3>2, <3>3, AddressFacts DEF Addresses, TypeInv, TypeOK
    <3> QED
      BY <1>3, <2>1, <3>4, OrderFacts
  <2> QED
    BY <1>2, <1>4, <2>1, <2>2, <2>3, <2>4, OrderBy
<1>6. CASE Receive
  <2>1. /\ UNCHANGED <<label, group, indexes, request, passed, lastTimestamp>>
        /\ pc = "receive" /\ Channel \in Addresses
        /\ (pc' = "receive") \/ (value' = Channel /\ pc' = "send")
    BY <1>6 DEF Receive, dataVars, Channel, TypeInv, TypeOK
  <2>2. PassedOf(group)' = PassedOf(group)
    BY <2>1 DEF PassedOf
  <2>3. /\ Left' = Left
        /\ \A i \in Left : TimeNext(<<i, indexes'[i] + 1>>) = Time(HeadOf(i))
    BY <1>2, <2>1, HeadsKept
  <2>4. CASE request.duration > 0
    <3>1. Channel = mutated /\ mutated' = Nothing /\ merged' = merged /\ Channel' = Nothing
      BY <1>6, <2>1, <2>4 DEF Channel, Receive
    <3>2. \A i \in Left : Time(mutated) <= Time(HeadOf(i))
      BY <2>1, <2>4, <3>1, OrderFacts
    <3> QED
      BY <1>2, <1>3, <1>4, <2>1, <2>2, <2>3, <2>4, <3>1, <3>2, OrderBy, OrderFacts
  <2>5. CASE ~ (request.duration > 0)
    <3>1. Channel = merged /\ merged' = Nothing /\ Channel' = Nothing
      BY <1>6, <2>1, <2>5 DEF Channel, Receive
    <3> QED
      BY <1>2, <1>3, <1>4, <2>1, <2>2, <2>3, <2>5, <3>1, OrderBy, OrderFacts
  <2> QED
    BY <2>4, <2>5
<1>7. CASE Send
  <2>1. /\ UNCHANGED <<label, group, indexes, request, lastTimestamp, merged, mutated>>
        /\ pc = "send" /\ pc' = "receive"
        /\ passed' = [passed EXCEPT ![group] = Append(@, value)]
    BY <1>7 DEF Send, dataVars, mergeVars, maxVars
  <2>2. PassedOf(group)' = PassedOf(group) \cup {value}
    <3>1. passed'[group] = Append(passed[group], value) /\ passed[group] \in Seq(Addresses)
      BY <2>1 DEF TypeInv, TypeOK
    <3>2. value \in Addresses
      BY <2>1, OrderFacts
    <3>3. Range(passed'[group]) = Range(passed[group]) \cup {value}
      BY <3>1, <3>2, RangeFacts
    <3> QED
      BY <2>1, <3>3 DEF PassedOf
  <2>3. /\ Left' = Left
        /\ \A i \in Left : TimeNext(<<i, indexes'[i] + 1>>) = Time(HeadOf(i))
    BY <1>2, <2>1, HeadsKept
  <2>4. Channel' = Channel
    BY <2>1 DEF Channel
  <2>5. \A a \in PassedOf(group)' : a \in PassedOf(group) \/ a = value
    BY <2>2
  <2>6. \A a \in PassedOf(group)' :
            /\ TimeNext(a) = Time(a)
            /\ Channel \in Addresses => Time(a) <= Time(Channel)
            /\ request.duration > 0 => Time(a) <= lastTimestamp
            /\ \A i \in Left : Time(a) <= Time(HeadOf(i))
    BY <1>3, <2>1, <2>5, OrderFacts
  <2>7. UNCHANGED <<request, lastTimestamp, merged, mutated>> /\ pc' # "send"
    BY <2>1
  <2> QED
    BY <1>2, <1>3, <2>3, <2>4, <2>6, <2>7, OrderBy, OrderFacts
<1>8. CASE Close \/ Cut \/ CutPanic \/ returnResponse
  <2>1. /\ UNCHANGED <<label, group, indexes, request, lastTimestamp, merged, mutated, passed>>
        /\ pc' # "send"
    BY <1>8 DEF Close, Cut, CutPanic, returnResponse, dataVars, mergeVars, maxVars
  <2>2. PassedOf(group)' = PassedOf(group)
    BY <2>1 DEF PassedOf
  <2>3. /\ Left' = Left
        /\ \A i \in Left : TimeNext(<<i, indexes'[i] + 1>>) = Time(HeadOf(i))
    BY <1>2, <2>1, HeadsKept
  <2>4. Channel' = Channel
    BY <2>1 DEF Channel
  <2> QED
    BY <1>2, <1>3, <2>1, <2>2, <2>3, <2>4, OrderBy, OrderFacts
<1> QED
  BY <1>5, <1>6, <1>7, <1>8 DEF Get

\* Every step keeps the order along the pipeline.
LEMMA OrderNext ==
    TypeInv /\ StreamInv /\ TodoInv /\ ClosedInv /\ OrderInv /\ [Next]_vars => OrderInv'
<1> SUFFICES ASSUME TypeInv, StreamInv, TodoInv, ClosedInv, OrderInv, [Next]_vars
             PROVE  OrderInv'
  OBVIOUS
<1>1. CASE (\E g \in Groups : Writer(g)) \/ UNCHANGED vars
  <2>1. UNCHANGED <<dataVars, mergeVars, maxVars, getVars>>
    BY <1>1, StoreFacts DEF Writer, WriterRead, vars
  <2>2. UNCHANGED <<label, group, indexes, request, lastTimestamp, merged, mutated, passed, pc,
                    value>>
    BY <2>1 DEF dataVars, mergeVars, maxVars, getVars
  <2>3. HeapKept
    BY TypeNext
  <2>4. Addresses' = Addresses
    <3>1. CASE UNCHANGED heap
      BY <3>1, HeapUnchanged
    <3>2. ASSUME NEW g \in Groups, WriterStore(g)
          PROVE  Addresses' = Addresses
      BY <3>1, <3>2, StoreFacts, HeapExtend
    <3> QED
      BY <1>1, <3>1, <3>2 DEF Writer, WriterRead, vars
  <2>5. PassedOf(group)' = PassedOf(group) /\ Channel' = Channel
    BY <2>2 DEF PassedOf, Channel
  <2>6. /\ Left' = Left
        /\ \A i \in Left : TimeNext(<<i, indexes'[i] + 1>>) = Time(HeadOf(i))
    BY <2>2, <2>3, HeadsKept
  <2>7. \A a \in Addresses : TimeNext(a) = Time(a)
    BY <2>3, TimeKept
  <2> QED
    BY <2>2, <2>4, <2>5, <2>6, <2>7, OrderBy, OrderFacts
<1> QED
  BY <1>1, OrderMerge, OrderMax, OrderGet DEF Next

-----------------------------------------------------------------------------
(***************************************************************************)
(* The writers.                                                            *)
(***************************************************************************)
\* What was passed to a writer, after a step of Get.
LEMMA PassedNext ==
    ASSUME TypeInv, [Next]_vars, NEW g \in Groups
    PROVE  \/ passed'[g] = passed[g] /\ PassedOf(g)' = PassedOf(g)
           \/ /\ Send /\ g = group /\ pc = "send" /\ value \in Addresses
              /\ PassedOf(g)' = PassedOf(g) \cup {value}
              /\ appending[g] = Nothing
              /\ appending'[g] = value
<1>1. CASE Send
  <2>1. /\ passed' = [passed EXCEPT ![group] = Append(@, value)]
        /\ appending' = [appending EXCEPT ![group] = value]
        /\ appending[group] = Nothing /\ pc = "send"
        /\ value \in Addresses /\ group \in Groups
        /\ passed \in [Groups -> Seq(Addresses)]
        /\ appending \in [Groups -> Addresses \cup {Nothing}]
    BY <1>1 DEF Send, TypeInv, TypeOK, HandInv
  <2>2. CASE g = group
    <3>1. passed'[g] = Append(passed[g], value) /\ appending'[g] = value
      BY <2>1, <2>2
    <3>2. Range(passed'[g]) = Range(passed[g]) \cup {value}
      BY <2>1, <3>1, RangeFacts
    <3> QED
      BY <1>1, <2>1, <2>2, <3>1, <3>2 DEF PassedOf
  <2>3. CASE g # group
    <3>1. passed'[g] = passed[g]
      BY <2>1, <2>3
    <3> QED
      BY <3>1 DEF PassedOf
  <2> QED
    BY <2>2, <2>3
<1>2. CASE UNCHANGED passed
  BY <1>2 DEF PassedOf
<1>3. Send \/ UNCHANGED passed
  <2>1. ASSUME NEW h \in Groups, Writer(h)
        PROVE  UNCHANGED passed
    BY <2>1, StoreFacts DEF Writer, WriterRead, getVars
  <2> QED
    BY <2>1 DEF Next, MergeValueStreams, MaxStep, Get, NextGroup, Receive, Close, Cut, CutPanic,
                returnResponse, vars, getVars
<1> QED
  BY <1>1, <1>2, <1>3

\* Nothing was passed to a writer at first.
LEMMA WriterInit == Init => WriterInv /\ YoungestInv /\ SortInv
<1> SUFFICES ASSUME Init
             PROVE  WriterInv /\ YoungestInv /\ SortInv
  OBVIOUS
<1>1. \A g \in Groups : /\ written[g] = <<>> /\ passed[g] = <<>> /\ appending[g] = Nothing
                        /\ before[g] = NotRead
  BY DEF Init
<1>2. cut = <<>> /\ pc = "next"
  BY DEF Init
<1>3. \A g \in Groups : Range(written[g]) = {}
  BY <1>1 DEF Range
<1>4. DOMAIN <<>> = {}
  OBVIOUS
<1> QED
  BY <1>1, <1>2, <1>3, <1>4 DEF WriterInv, YoungestInv, SortInv, Sorted

\* Every step lets the writers write what was passed to them.
LEMMA WriterNext == TypeInv /\ PlaceInv /\ WriterInv /\ [Next]_vars => WriterInv'
<1> SUFFICES ASSUME TypeInv, PlaceInv, WriterInv, [Next]_vars
             PROVE  WriterInv'
  OBVIOUS
<1>1. /\ appending \in [Groups -> Addresses \cup {Nothing}]
      /\ written \in [Groups -> Seq(Addresses)]
      /\ before \in [Groups -> Seq(Addresses) \cup {NotRead}]
      /\ group \in Groups
      /\ Nothing \notin Addresses
      /\ \A g \in Groups : PassedOf(g) \subseteq Addresses
  BY HeldFacts, TypeFacts DEF TypeInv, TypeOK
<1>2. CASE MergeValueStreams \/ MaxStep \/ UNCHANGED vars
  <2>1. UNCHANGED <<getVars, writeVars>>
    BY <1>2 DEF MergeValueStreams, MaxStep, vars
  <2> QED
    BY <2>1 DEF WriterInv, PassedOf, getVars, writeVars
<1>3. CASE Send
  <2>1. /\ appending[group] = Nothing /\ pc = "send" /\ pc' = "receive"
        /\ appending' = [appending EXCEPT ![group] = value]
        /\ UNCHANGED <<written, before, group>>
    BY <1>3 DEF Send
  <2>2. Fresh(value) /\ before[group] = NotRead
    BY <1>1, <2>1 DEF PlaceInv, WriterInv
  <2>3. ASSUME NEW g \in Groups
        PROVE  /\ Range(written[g]) \subseteq PassedOf(g)' \ {appending'[g]}
               /\ appending'[g] # Nothing => appending'[g] \in PassedOf(g)'
               /\ before[g] # NotRead =>
                     /\ appending'[g] # Nothing
                     /\ Range(before[g]) \subseteq PassedOf(g)' \ {appending'[g]}
    <3>1. CASE g = group
      <4>1. PassedOf(g)' = PassedOf(g) \cup {value} /\ appending'[g] = value
        <5>1. appending'[g] = value /\ value \in Addresses
          BY <1>1, <2>1, <3>1, HeldFacts
        <5>2. PassedOf(g)' # PassedOf(g)
          <6>1. passed'[g] = Append(passed[g], value) /\ passed[g] \in Seq(Addresses)
            BY <1>3, <3>1 DEF Send, TypeInv, TypeOK
          <6>2. value \in Range(passed'[g])
            BY <5>1, <6>1, RangeFacts
          <6> QED
            BY <2>2, <6>2 DEF Fresh, PassedOf
        <5> QED
          BY <5>1, <5>2, PassedNext
      <4> QED
        BY <2>2, <3>1, <4>1 DEF WriterInv, Fresh
    <3>2. CASE g # group
      <4>1. PassedOf(g)' = PassedOf(g) /\ appending'[g] = appending[g]
        BY <1>1, <2>1, <3>2, PassedNext
      <4> QED
        BY <4>1 DEF WriterInv
    <3> QED
      BY <3>1, <3>2
  <2> QED
    BY <2>1, <2>3 DEF WriterInv
<1>4. CASE Close
  <2>1. /\ UNCHANGED <<passed, written, appending, before, group>>
        /\ pc' = "cut" => cut' = written[group]
    BY <1>4 DEF Close, writeVars
  <2> QED
    BY <1>1, <2>1 DEF WriterInv, PassedOf
<1>5. CASE Cut
  <2>1. UNCHANGED <<passed, appending, before, group>> /\ pc = "cut" /\ pc' = "next"
    BY <1>5 DEF Cut
  <2>2. PICK s \in Seq(Addresses) :
            written' = [written EXCEPT ![group] = s] /\ Range(s) \subseteq Range(cut)
    BY <1>5, CutFacts
  <2>3. /\ Range(written'[group]) \subseteq Range(cut)
        /\ \A g \in Groups : g # group => written'[g] = written[g]
    BY <1>1, <2>2
  <2> QED
    BY <1>1, <2>1, <2>3 DEF WriterInv, PassedOf
<1>6. CASE Receive \/ CutPanic \/ returnResponse \/ \E g \in Groups : NextGroup(g)
  <2>1. UNCHANGED <<passed, written, appending, before>> /\ pc' # "cut"
    BY <1>6 DEF Receive, CutPanic, returnResponse, NextGroup, writeVars
  <2> QED
    BY <2>1 DEF WriterInv, PassedOf
<1>7. ASSUME NEW g \in Groups, WriterRead(g)
      PROVE  WriterInv'
  <2>1. /\ appending[g] # Nothing
        /\ before' = [before EXCEPT ![g] = written[g]]
        /\ UNCHANGED <<passed, written, appending, group, cut, pc>>
    BY <1>7 DEF WriterRead, getVars
  <2>2. before'[g] = written[g] /\ \A h \in Groups : h # g => before'[h] = before[h]
    BY <1>1, <2>1
  <2> QED
    BY <2>1, <2>2 DEF WriterInv, PassedOf
<1>8. ASSUME NEW g \in Groups, WriterStore(g)
      PROVE  WriterInv'
  <2>1. /\ appending[g] \in Addresses /\ before[g] \in Seq(Addresses) /\ before[g] # NotRead
        /\ appending' = [appending EXCEPT ![g] = Nothing]
        /\ before' = [before EXCEPT ![g] = NotRead]
        /\ UNCHANGED <<passed, group, cut, pc>>
    BY <1>8, StoreFacts DEF getVars
  <2>2. \/ UNCHANGED written
        \/ written' = [written EXCEPT ![g] = Append(before[g], appending[g])]
    BY <1>8, StoreFacts
  <2>3. /\ appending'[g] = Nothing /\ before'[g] = NotRead
        /\ \A h \in Groups : h # g => /\ appending'[h] = appending[h]
                                      /\ before'[h] = before[h] /\ written'[h] = written[h]
    BY <1>1, <2>1, <2>2
  <2>4. /\ Range(written[g]) \subseteq PassedOf(g) /\ appending[g] \in PassedOf(g)
        /\ Range(before[g]) \subseteq PassedOf(g)
    BY <1>1, <2>1 DEF WriterInv
  <2>5. Range(written'[g]) \subseteq PassedOf(g)
    <3>1. CASE UNCHANGED written
      BY <2>4, <3>1
    <3>2. CASE written' = [written EXCEPT ![g] = Append(before[g], appending[g])]
      <4>1. Range(written'[g]) = Range(before[g]) \cup {appending[g]}
        BY <1>1, <2>1, <3>2, RangeFacts
      <4> QED
        BY <2>4, <4>1
    <3> QED
      BY <2>2, <3>1, <3>2
  <2>6. Nothing \notin PassedOf(g)
    BY <1>1
  <2>7. pc = "cut" /\ g = group => Range(cut) \subseteq PassedOf(g)
    BY DEF WriterInv
  <2>8. UNCHANGED <<group, cut, pc>> /\ \A h \in Groups : PassedOf(h)' = PassedOf(h)
    BY <2>1 DEF PassedOf
  <2>9. ASSUME NEW h \in Groups
        PROVE  /\ Range(written'[h]) \subseteq PassedOf(h) \ {appending'[h]}
               /\ appending'[h] # Nothing => appending'[h] \in PassedOf(h)
               /\ before'[h] # NotRead =>
                     /\ appending'[h] # Nothing
                     /\ Range(before'[h]) \subseteq PassedOf(h) \ {appending'[h]}
               /\ pc = "cut" /\ h = group => Range(cut) \subseteq PassedOf(h) \ {appending'[h]}
    <3>1. CASE h = g
      BY <2>3, <2>5, <2>6, <2>7, <3>1
    <3>2. CASE h # g
      <4>1. appending'[h] = appending[h] /\ before'[h] = before[h] /\ written'[h] = written[h]
        BY <2>3, <3>2
      <4> QED
        BY <4>1 DEF WriterInv
    <3> QED
      BY <3>1, <3>2
  <2> QED
    BY <2>8, <2>9 DEF WriterInv
<1> QED
  BY <1>2, <1>3, <1>4, <1>5, <1>6, <1>7, <1>8 DEF Next, Get, Writer

\* What a writer has in its hands after a step.
LEMMA AppendingNext ==
    ASSUME TypeInv, [Next]_vars, NEW g \in Groups
    PROVE  \/ /\ appending'[g] = appending[g] /\ passed'[g] = passed[g]
              /\ PassedOf(g)' = PassedOf(g)
           \/ /\ WriterStore(g) /\ appending'[g] = Nothing /\ passed'[g] = passed[g]
              /\ PassedOf(g)' = PassedOf(g)
           \/ /\ Send /\ g = group /\ pc = "send" /\ value \in Addresses
              /\ appending[g] = Nothing /\ appending'[g] = value
              /\ PassedOf(g)' = PassedOf(g) \cup {value}
<1>1. appending \in [Groups -> Addresses \cup {Nothing}]
  BY DEF TypeInv, TypeOK
<1>2. CASE Send
  <2>1. appending' = [appending EXCEPT ![group] = value]
    BY <1>2 DEF Send
  <2>2. CASE g = group
    <3>1. passed'[g] = Append(passed[g], value) /\ passed[g] \in Seq(Addresses)
          /\ value \in Addresses
      BY <1>2, <2>2 DEF Send, TypeInv, TypeOK, HandInv
    <3>2. passed'[g] # passed[g]
      <4>1. Len(passed'[g]) = Len(passed[g]) + 1 /\ Len(passed[g]) \in Nat
        BY <3>1
      <4> QED
        BY <4>1
    <3> QED
      BY <3>2, PassedNext
  <2>3. CASE g # group
    BY <1>1, <2>1, <2>3, PassedNext
  <2> QED
    BY <2>2, <2>3
<1>3. ASSUME NEW h \in Groups, WriterStore(h)
      PROVE  /\ appending' = [appending EXCEPT ![h] = Nothing]
             /\ UNCHANGED passed
  BY <1>3, StoreFacts DEF getVars
<1>4. CASE UNCHANGED <<appending, passed>>
  BY <1>4 DEF PassedOf
<1>5. \/ Send \/ (\E h \in Groups : WriterStore(h)) \/ UNCHANGED <<appending, passed>>
  BY DEF Next, MergeValueStreams, MaxStep, Get, NextGroup, Receive, Close, Cut, CutPanic,
         returnResponse, Writer, WriterRead, vars, getVars, writeVars
<1>6. CASE \E h \in Groups : WriterStore(h)
  <2>1. PICK h \in Groups : WriterStore(h)
    BY <1>6
  <2>2. appending' = [appending EXCEPT ![h] = Nothing] /\ UNCHANGED passed
    BY <1>3, <2>1
  <2>3. PassedOf(g)' = PassedOf(g)
    BY <2>2 DEF PassedOf
  <2>4. CASE h = g
    BY <1>1, <2>1, <2>2, <2>3, <2>4
  <2>5. CASE h # g
    BY <1>1, <2>2, <2>3, <2>5
  <2> QED
    BY <2>4, <2>5
<1> QED
  BY <1>2, <1>4, <1>5, <1>6

\* A writer always has the youngest of its values.
LEMMA YoungestNext ==
    TypeInv /\ WriterInv /\ OrderInv /\ YoungestInv /\ [Next]_vars => YoungestInv'
<1> SUFFICES ASSUME TypeInv, WriterInv, OrderInv, YoungestInv, [Next]_vars,
                    NEW g \in Groups, appending'[g] # Nothing, NEW a \in PassedOf(g)'
             PROVE  TimeNext(a) <= TimeNext(appending'[g])
  BY DEF YoungestInv, TimeNext, Time, Val
<1>1. \A b \in Addresses : TimeNext(b) = Time(b) /\ Time(b) \in Nat
  BY TypeNext, TimeKept
<1>2. CASE appending'[g] = appending[g] /\ PassedOf(g)' = PassedOf(g)
  <2>1. appending[g] \in Addresses /\ a \in Addresses
    BY <1>2, HeldFacts DEF WriterInv
  <2> QED
    BY <1>1, <1>2, <2>1 DEF YoungestInv
<1>3. CASE /\ g = group /\ pc = "send" /\ value \in Addresses
           /\ appending'[g] = value /\ PassedOf(g)' = PassedOf(g) \cup {value}
  <2>1. a \in Addresses /\ Time(a) <= Time(value)
    BY <1>1, <1>3, OrderFacts
  <2> QED
    BY <1>1, <1>3, <2>1
<1> QED
  BY <1>2, <1>3, AppendingNext

\* The sequence s of addresses is sorted after the step.
SortedNext(s) == \A j, k \in DOMAIN s : j < k => TimeNext(s[j]) <= TimeNext(s[k])

\* A sorted sequence of addresses remains sorted.
LEMMA SortedKept ==
    ASSUME TypeInv, HeapKept, NEW s \in Seq(Addresses), Sorted(s)
    PROVE  SortedNext(s)
<1>1. \A a \in Addresses : TimeNext(a) = Time(a)
  BY TimeKept
<1>2. \A k \in DOMAIN s : s[k] \in Addresses
  OBVIOUS
<1> QED
  BY <1>1, <1>2 DEF Sorted, SortedNext

\* What is written is sorted after every step.
LEMMA SortNext ==
    TypeInv /\ WriterInv /\ YoungestInv /\ SortInv /\ [Next]_vars => SortInv'
<1> SUFFICES ASSUME TypeInv, WriterInv, YoungestInv, SortInv, [Next]_vars
             PROVE  /\ SortedNext(cut')
                    /\ \A g \in Groups : /\ SortedNext(written'[g])
                                         /\ before'[g] # NotRead => SortedNext(before'[g])
  BY DEF SortInv, Sorted, SortedNext, TimeNext, Time, Val
<1>1. /\ written \in [Groups -> Seq(Addresses)]
      /\ before \in [Groups -> Seq(Addresses) \cup {NotRead}]
      /\ group \in Groups /\ cut \in Seq(Addresses)
  BY DEF TypeInv, TypeOK
<1>2. \A s \in Seq(Addresses) : Sorted(s) => SortedNext(s)
  BY TypeNext, SortedKept
<1>3. /\ SortedNext(cut)
      /\ \A g \in Groups : /\ SortedNext(written[g])
                           /\ before[g] # NotRead => SortedNext(before[g])
  BY <1>1, <1>2 DEF SortInv
<1>4. CASE UNCHANGED <<cut, written, before>>
  BY <1>3, <1>4
<1>5. CASE Close
  <2>1. cut' \in {cut, written[group]} /\ UNCHANGED <<written, before>>
    BY <1>5 DEF Close, writeVars
  <2> QED
    BY <1>1, <1>3, <2>1
<1>6. CASE Cut
  <2>1. PICK s \in Seq(Addresses) :
            /\ written' = [written EXCEPT ![group] = s]
            /\ Len(s) <= Len(cut) /\ Len(cut) \in Nat
            /\ \A i \in 1..Len(s) : s[i] = cut[Len(cut) - Len(s) + i]
    BY <1>6, CutFacts
  <2>2. UNCHANGED <<cut, before>>
    BY <1>6 DEF Cut
  <2>3. SortedNext(s)
    <3> SUFFICES ASSUME NEW j \in DOMAIN s, NEW k \in DOMAIN s, j < k
                 PROVE  TimeNext(s[j]) <= TimeNext(s[k])
      BY DEF SortedNext
    <3>1. j \in 1..Len(s) /\ k \in 1..Len(s) /\ Len(s) \in Nat
      OBVIOUS
    <3>2. /\ Len(cut) - Len(s) + j \in DOMAIN cut
          /\ Len(cut) - Len(s) + k \in DOMAIN cut
          /\ Len(cut) - Len(s) + j < Len(cut) - Len(s) + k
      <4>1. Len(s) <= Len(cut) /\ Len(cut) \in Nat /\ DOMAIN cut = 1..Len(cut)
        BY <1>1, <2>1
      <4> QED
        BY <3>1, <4>1
    <3>3. TimeNext(cut[Len(cut) - Len(s) + j]) <= TimeNext(cut[Len(cut) - Len(s) + k])
      BY <1>3, <3>2 DEF SortedNext
    <3>4. s[j] = cut[Len(cut) - Len(s) + j] /\ s[k] = cut[Len(cut) - Len(s) + k]
      BY <2>1, <3>1
    <3> QED
      BY <3>3, <3>4
  <2>4. \A g \in Groups : SortedNext(written'[g])
    BY <1>1, <1>3, <2>1, <2>3
  <2> QED
    BY <1>3, <2>2, <2>4
<1>7. ASSUME NEW g \in Groups, WriterRead(g)
      PROVE  /\ SortedNext(cut')
             /\ \A h \in Groups : /\ SortedNext(written'[h])
                                  /\ before'[h] # NotRead => SortedNext(before'[h])
  <2>1. before' = [before EXCEPT ![g] = written[g]] /\ UNCHANGED <<cut, written>>
    BY <1>7 DEF WriterRead, getVars
  <2> QED
    BY <1>1, <1>3, <2>1
<1>8. ASSUME NEW g \in Groups, WriterStore(g)
      PROVE  /\ SortedNext(cut')
             /\ \A h \in Groups : /\ SortedNext(written'[h])
                                  /\ before'[h] # NotRead => SortedNext(before'[h])
  <2>1. /\ appending[g] \in Addresses /\ before[g] \in Seq(Addresses) /\ before[g] # NotRead
        /\ before' = [before EXCEPT ![g] = NotRead] /\ UNCHANGED cut
    BY <1>8, StoreFacts DEF getVars
  <2>2. CASE UNCHANGED written
    BY <1>1, <1>3, <2>1, <2>2
  <2>3. CASE written' = [written EXCEPT ![g] = Append(before[g], appending[g])]
    <3> DEFINE b == before[g]
               s == Append(b, appending[g])
    <3>1. /\ DOMAIN s = 1..(Len(b) + 1) /\ Len(b) \in Nat /\ DOMAIN b = 1..Len(b)
          /\ \A k \in 1..Len(b) : s[k] = b[k]
          /\ s[Len(b) + 1] = appending[g]
      BY <2>1
    <3>2. SortedNext(b)
      BY <1>3, <2>1
    <3>3. ASSUME NEW k \in 1..Len(b)
          PROVE  TimeNext(b[k]) <= TimeNext(appending[g])
      <4>1. b[k] \in PassedOf(g) /\ b[k] \in Addresses
        BY <2>1, RangeFacts DEF WriterInv
      <4>2. Time(b[k]) <= Time(appending[g])
        BY <2>1, <4>1, TypeFacts DEF YoungestInv
      <4> QED
        BY <2>1, <4>1, <4>2, TypeNext, TimeKept
    <3> HIDE DEF b, s
    <3>4. SortedNext(s)
      <4> SUFFICES ASSUME NEW j \in DOMAIN s, NEW k \in DOMAIN s, j < k
                   PROVE  TimeNext(s[j]) <= TimeNext(s[k])
        BY DEF SortedNext
      <4>1. j \in 1..Len(b)
        BY <3>1
      <4>2. CASE k \in 1..Len(b)
        BY <3>1, <3>2, <4>1, <4>2 DEF SortedNext
      <4>3. CASE k = Len(b) + 1
        BY <3>1, <3>3, <4>1, <4>3
      <4> QED
        BY <3>1, <4>2, <4>3
    <3>5. written' = [written EXCEPT ![g] = s]
      BY <2>3 DEF b, s
    <3>6. \A h \in Groups : SortedNext(written'[h])
      BY <1>1, <1>3, <3>4, <3>5
    <3> QED
      BY <1>1, <1>3, <2>1, <3>6
  <2> QED
    BY <1>8, <2>2, <2>3, StoreFacts
<1>9. \/ UNCHANGED <<cut, written, before>> \/ Close \/ Cut
      \/ \E g \in Groups : WriterRead(g) \/ WriterStore(g)
  BY DEF Next, MergeValueStreams, MaxStep, Get, NextGroup, Receive, Send, CutPanic,
         returnResponse, Writer, vars, getVars, writeVars
<1> QED
  BY <1>4, <1>5, <1>6, <1>7, <1>8, <1>9

\* The order of the values, from the streams to what is written.
SortedInv ==
    /\ TypeInv /\ StreamInv /\ TodoInv /\ ClosedInv /\ PlaceInv
    /\ WriterInv /\ OrderInv /\ YoungestInv /\ SortInv

\* The invariant of the order holds at first, if the streams are sorted.
LEMMA SortedInit == Init /\ StreamsSorted => SortedInv
BY TypeInit, StreamInit, TodoInit, PlaceInit, WriterInit, OrderInit DEF SortedInv

\* Every step keeps the invariant of the order.
LEMMA SortedStep == SortedInv /\ [Next]_vars => SortedInv'
BY TypeNext, StreamNext, TodoNext, ClosedNext, PlaceNext, WriterNext, OrderNext, YoungestNext,
   SortNext DEF SortedInv

\* The answer is in the order of the timestamps if each stored stream is,
\* however many streams, labels and values there are, whatever the filter, the
\* mutation and the limit, even if Get is faster than a writer.
THEOREM AnswerIsSorted == Spec => []AnswerSorted
<1> DEFINE Inv == TypeInv /\ (StreamsSorted => SortedInv) /\ AnswerSorted
<1>1. Init => Inv
  <2>1. Init => \A g \in Groups : answer[g] = <<>>
    BY DEF Init
  <2>2. DOMAIN <<>> = {}
    OBVIOUS
  <2> QED
    BY <2>1, <2>2, TypeInit, SortedInit DEF AnswerSorted
<1>2. Inv /\ [Next]_vars => Inv'
  <2> SUFFICES ASSUME Inv, [Next]_vars
               PROVE  (StreamsSorted => SortedInv /\ AnswerSorted)'
    BY TypeNext DEF AnswerSorted
  <2> SUFFICES ASSUME StreamsSorted'
               PROVE  AnswerSorted'
    BY SortedBefore, SortedStep
  <2>4. StreamsSorted /\ SortedInv
    BY SortedBefore
  <2>1. CASE UNCHANGED answer
    BY <2>1, <2>4 DEF AnswerSorted
  <2>2. CASE returnResponse
    <3> SUFFICES ASSUME NEW g \in Groups, NEW j \in DOMAIN answer'[g],
                        NEW k \in DOMAIN answer'[g], j < k
                 PROVE  answer'[g][j].ts <= answer'[g][k].ts
      BY DEF AnswerSorted
    <3>1. /\ DOMAIN answer'[g] = 1..Len(written[g])
          /\ answer'[g][j] = Val(written[g][j]) /\ answer'[g][k] = Val(written[g][k])
      BY <2>2, <2>4, ResponseFacts DEF SortedInv
    <3>2. Time(written[g][j]) <= Time(written[g][k])
      <4>1. DOMAIN written[g] = 1..Len(written[g])
        BY <2>4 DEF SortedInv, TypeInv, TypeOK
      <4> QED
        BY <2>4, <3>1, <4>1 DEF SortedInv, SortInv, Sorted
    <3> QED
      BY <3>1, <3>2 DEF Time
  <2>3. UNCHANGED answer \/ returnResponse
    <3>1. ASSUME NEW g \in Groups, Writer(g)
          PROVE  UNCHANGED answer
      BY <3>1, StoreFacts DEF Writer, WriterRead, SortedInv
    <3> QED
      BY <3>1 DEF Next, MergeValueStreams, MaxStep, Get, NextGroup, Receive, Send, Close, Cut,
                  CutPanic, vars, writeVars
  <2> QED
    BY <2>1, <2>2, <2>3
<1> QED
  BY <1>1, <1>2, PTL DEF Spec

-----------------------------------------------------------------------------
(***************************************************************************)
(* Streams that follow each other are merged without loss.                 *)
(***************************************************************************)
\* Of streams that follow each other, one value is taken at a time.
LEMMA TakenOne ==
    ASSUME TypeInv, Consecutive(group), Left # {}, NEW i \in Taken
    PROVE  i = Sent
<1>1. /\ Sent \in Taken /\ Sent \in Left /\ i <= Sent
      /\ i \in Left /\ i \in Members(group) /\ Sent \in Members(group)
      /\ i \in Nat /\ Sent \in Nat
  <2>1. Sent \in Taken /\ Sent \in Left /\ i <= Sent /\ i \in Left
    BY TypeFacts, SentFacts DEF Taken
  <2> QED
    BY <2>1, TypeFacts, HeadFacts, ConstantFacts
<1>2. SUFFICES ASSUME i < Sent
               PROVE  FALSE
  BY <1>1
<1>3. \A n \in Left : /\ n \in Rows /\ indexes[n] + 1 \in 1..Len(heap[n])
                      /\ Val(HeadOf(n)) = heap[n][indexes[n] + 1]
                      /\ Time(HeadOf(n)) \in Nat
  BY TypeFacts, HeadFacts, ConstantFacts DEF Time
<1>4. \A n \in Left : indexes[n] + 1 \in DOMAIN heap[n]
  BY <1>3, TypeFacts
<1>5. Time(HeadOf(i)) <= Time(HeadOf(Sent))
  BY <1>1, <1>2, <1>3, <1>4 DEF Consecutive, Time
<1>6. Time(HeadOf(Sent)) < Time(HeadOf(i))
  BY <1>1, <1>2 DEF Taken, Time
<1> QED
  BY <1>1, <1>3, <1>5, <1>6

\* Streams that follow each other after a step have done so before.
LEMMA ConsecutiveKept ==
    ASSUME TypeInv, HeapKept, UNCHANGED <<label, group>>, Consecutive(group)'
    PROVE  Consecutive(group)
<1> SUFFICES ASSUME NEW i \in Members(group), NEW j \in Members(group), i < j,
                    NEW k \in DOMAIN heap[i], NEW l \in DOMAIN heap[j]
             PROVE  heap[i][k].ts <= heap[j][l].ts
  BY DEF Consecutive
<1>1. i \in Ids /\ j \in Ids /\ i \in Rows /\ j \in Rows
  BY ConstantFacts DEF Members
<1>2. heap \in [Rows -> Seq(Values)] /\ heap' \in [Rows -> Seq(Values)]
  BY TypeFacts DEF HeapKept
<1>3. \A n \in Rows : /\ DOMAIN heap[n] = 1..Len(heap[n])
                      /\ DOMAIN heap'[n] = 1..Len(heap'[n])
  BY <1>2
<1>4. Len(heap'[i]) = Len(heap[i]) /\ Len(heap'[j]) = Len(heap[j])
  BY <1>1 DEF HeapKept
<1>5. /\ k \in 1..Len(heap[i]) /\ l \in 1..Len(heap[j])
      /\ k \in DOMAIN heap'[i] /\ l \in DOMAIN heap'[j]
  BY <1>1, <1>3, <1>4
<1>6. i \in Members(group)' /\ j \in Members(group)'
  BY DEF Members
<1>7. heap'[i][k].ts <= heap'[j][l].ts
  BY <1>5, <1>6 DEF Consecutive
<1>8. heap'[i][k].ts = heap[i][k].ts /\ heap'[j][l].ts = heap[j][l].ts
  BY <1>1, <1>5 DEF HeapKept
<1> QED
  BY <1>7, <1>8

\* What is taken of streams that follow each other is sent, after every step.
LEMMA MergedNext ==
    TypeInv /\ TodoInv /\ MergedInv /\ [Next]_vars => MergedInv'
<1> SUFFICES ASSUME TypeInv, TodoInv, MergedInv, [Next]_vars,
                    Consecutive(group)', NEW i \in Members(group)', NEW k \in 1..indexes'[i]
             PROVE  <<i, k>> \in EmittedOf(group)'
  BY DEF MergedInv
<1>1. HeapKept /\ group \in Groups /\ i \in Ids
  BY TypeNext DEF TypeInv, TypeOK, Members
<1>2. CASE UNCHANGED <<label, group, indexes, emitted>>
  <2>1. Consecutive(group) /\ i \in Members(group)
    BY <1>1, <1>2, ConsecutiveKept DEF Members
  <2>2. EmittedOf(group)' = EmittedOf(group) /\ k \in 1..indexes[i]
    BY <1>2 DEF EmittedOf
  <2> QED
    BY <2>1, <2>2 DEF MergedInv
<1>3. CASE MergeValueStreams
  <2>1. UNCHANGED <<label, group>>
    BY <1>3 DEF MergeValueStreams, dataVars, getVars
  <2>2. Consecutive(group) /\ i \in Members(group)
    BY <1>1, <2>1, ConsecutiveKept DEF Members
  <2>3. \A m \in 1..indexes[i] : <<i, m>> \in EmittedOf(group)
    BY <2>2 DEF MergedInv
  <2>4. indexes'[i] = IF i \in Taken THEN indexes[i] + 1 ELSE indexes[i]
    BY <1>1, <1>3 DEF MergeValueStreams
  <2>5. CASE Left = {}
    <3>1. EmittedOf(group)' = EmittedOf(group) /\ Taken = {}
      BY <1>3, <2>1, <2>5 DEF MergeValueStreams, EmittedOf, Taken
    <3> QED
      BY <2>3, <2>4, <3>1
  <2>6. CASE Left # {}
    <3>1. emitted'[group] = Append(emitted[group], HeadOf(Sent))
      BY <1>1, <1>3, <2>6 DEF MergeValueStreams, TypeInv, TypeOK
    <3>2. EmittedOf(group)' = EmittedOf(group) \cup {HeadOf(Sent)}
      <4>1. emitted[group] \in Seq(Addresses) /\ HeadOf(Sent) \in Addresses
        BY <1>1, <2>6, TypeFacts, SentAddress DEF TypeInv, TypeOK
      <4> QED
        BY <2>1, <3>1, <4>1, RangeFacts DEF EmittedOf
    <3>3. CASE i \in Taken
      <4>1. HeadOf(Sent) = <<i, indexes[i] + 1>>
        BY <2>2, <2>6, <3>3, TakenOne DEF HeadOf
      <4>2. indexes[i] \in Nat
        BY <1>1 DEF TypeInv, TypeOK
      <4>3. k \in 1..indexes[i] \/ k = indexes[i] + 1
        BY <2>4, <3>3, <4>2
      <4> QED
        BY <2>3, <3>2, <4>1, <4>3
    <3> QED
      BY <2>3, <2>4, <3>2, <3>3
  <2> QED
    BY <2>5, <2>6
<1>4. ASSUME NEW g \in Groups, NextGroup(g)
      PROVE  FALSE
  <2>1. g \in todo /\ group' = g /\ indexes' = indexes /\ label' = label
    BY <1>4 DEF NextGroup, dataVars
  <2>2. i \in Members(g)
    BY <2>1 DEF Members
  <2>3. indexes[i] = 0
    BY <2>1, <2>2 DEF TodoInv
  <2> QED
    BY <2>1, <2>3
<1>5. \/ UNCHANGED <<label, group, indexes, emitted>> \/ MergeValueStreams
      \/ \E g \in Groups : NextGroup(g)
  BY DEF Next, MaxStep, Get, Receive, Send, Close, Cut, CutPanic, returnResponse,
         Writer, WriterRead, WriterStore, vars, dataVars, mergeVars, getVars
<1> QED
  BY <1>2, <1>3, <1>4, <1>5

\* What MergeValueStreams has taken, taken as a whole.
MergeInv == TypeInv /\ TodoInv /\ ClosedInv /\ MergedInv

\* However many streams there are, and in whatever order each has its values:
\* if no value of a stream is before one of an earlier stream, every value of
\* the group is sent before the channel is closed.
THEOREM ConsecutiveStreamsMerged == Spec => []ConsecutiveMerged
<1>1. Init => MergeInv
  <2>1. Init => MergedInv
    <3> SUFFICES ASSUME Init, NEW i \in Members(group), NEW k \in 1..indexes[i]
                 PROVE  FALSE
      BY DEF MergedInv
    <3>1. i \in Ids /\ indexes[i] = 0
      BY DEF Init, Members
    <3> QED
      BY <3>1
  <2> QED
    BY <2>1, TypeInit, TodoInit, PlaceInit DEF MergeInv
<1>2. MergeInv /\ [Next]_vars => MergeInv'
  BY TypeNext, TodoNext, ClosedNext, MergedNext DEF MergeInv
<1>3. MergeInv => ConsecutiveMerged
  <2> SUFFICES ASSUME MergeInv, Channel = Closed, Consecutive(group),
                      NEW i \in Members(group), NEW k \in DOMAIN heap[i]
               PROVE  <<i, k>> \in Range(emitted[group])
    BY DEF ConsecutiveMerged
  <2>1. Left = {}
    BY DEF MergeInv, ClosedInv, Channel
  <2>2. i \in Ids /\ i \in Rows
    BY ConstantFacts DEF Members
  <2>3. /\ indexes[i] \in Nat /\ indexes[i] <= Len(heap[i])
        /\ Len(heap[i]) \in Nat /\ DOMAIN heap[i] = 1..Len(heap[i])
    BY <2>2 DEF MergeInv, TypeInv, TypeOK
  <2>4. ~ (indexes[i] < Len(heap[i]))
    BY <2>1 DEF Left
  <2>5. k \in 1..indexes[i]
    BY <2>3, <2>4
  <2> QED
    BY <2>5 DEF MergeInv, MergedInv, EmittedOf
<1> QED
  BY <1>1, <1>2, <1>3, PTL DEF Spec

-----------------------------------------------------------------------------
(***************************************************************************)
(* Run-length encoding covers every value that passed the filter.          *)
(***************************************************************************)
\* The end of the run that a begins, after the step.
EndNext(a) == heap'[a[1]][a[2]].end

\* A writer either writes its value, or extends the last run.
LEMMA ExtendFacts ==
    ASSUME TypeInv, NEW g \in Groups, WriterStore(g)
    PROVE  /\ Addresses' = Addresses
           /\ \/ /\ UNCHANGED heap
                 /\ written' = [written EXCEPT ![g] = Append(before[g], appending[g])]
              \/ \E u \in Range(before[g]) :
                    /\ u \in Addresses /\ SameRun(Val(u), Val(appending[g]))
                    /\ UNCHANGED written
                    /\ \A b \in Addresses : b # u => heap'[b[1]][b[2]] = heap[b[1]][b[2]]
                    /\ EndNext(u) = IF Val(appending[g]).end > 0 THEN Val(appending[g]).end
                                                               ELSE Val(appending[g]).ts
<1>1. CASE /\ UNCHANGED heap
           /\ written' = [written EXCEPT ![g] = Append(before[g], appending[g])]
  BY <1>1, HeapUnchanged
<1>2. CASE /\ Last(before[g]) \in Range(before[g]) /\ Last(before[g]) \in Addresses
           /\ SameRun(Val(Last(before[g])), Val(appending[g]))
           /\ heap' = [heap EXCEPT ![Last(before[g])[1]][Last(before[g])[2]] =
                         Extend(@, Val(appending[g]))]
           /\ UNCHANGED written
  <2>1. PICK u \in Addresses : u = Last(before[g])
    BY <1>2
  <2>2. appending[g] \in Addresses
    BY StoreFacts
  <2>3. heap' = [heap EXCEPT ![u[1]][u[2]] = Extend(@, Val(appending[g]))]
    BY <1>2, <2>1
  <2>4. /\ Addresses' = Addresses
        /\ \A b \in Addresses : b # u => heap'[b[1]][b[2]] = heap[b[1]][b[2]]
        /\ EndNext(u) = IF Val(appending[g]).end > 0 THEN Val(appending[g]).end
                                                   ELSE Val(appending[g]).ts
    BY <2>2, <2>3, HeapExtend DEF EndNext
  <2>5. u \in Range(before[g]) /\ SameRun(Val(u), Val(appending[g])) /\ UNCHANGED written
    BY <1>2, <2>1
  <2> QED
    BY <2>4, <2>5
<1> QED
  BY <1>1, <1>2, StoreFacts

\* A value changes only when a writer extends the run that it begins.
LEMMA ValueNext ==
    ASSUME TypeInv, [Next]_vars, NEW a \in Addresses
    PROVE  \/ heap'[a[1]][a[2]] = heap[a[1]][a[2]]
           \/ \E g \in Groups : WriterStore(g) /\ a \in Range(before[g]) /\ before[g] # NotRead
<1>1. CASE UNCHANGED heap
  BY <1>1
<1>2. CASE MaxStep
  <2>1. CASE merged # Closed /\ MaxNext(Val(merged))
    <3>1. merged \in Addresses
      BY <1>2, <2>1 DEF MaxStep, MaxReceives, TypeInv, TypeOK
    <3> QED
      BY <2>1, <3>1, TypeFacts, HeapMax
  <2> QED
    BY <1>1, <1>2, <2>1 DEF MaxStep, MaxFirst, MaxSame
<1>3. ASSUME NEW g \in Groups, WriterStore(g)
      PROVE  \/ heap'[a[1]][a[2]] = heap[a[1]][a[2]]
             \/ a \in Range(before[g]) /\ before[g] # NotRead
  <2>1. before[g] # NotRead
    BY <1>3, StoreFacts
  <2> QED
    BY <1>3, <2>1, ExtendFacts
<1>4. MaxStep \/ UNCHANGED heap \/ \E g \in Groups : WriterStore(g)
  BY TypeGet DEF Next, vars, MergeValueStreams, Writer, WriterRead
<1> QED
  BY <1>1, <1>2, <1>3, <1>4

\* The value a is part of the run that w begins, after the step.
InRunNext(w, a) ==
    /\ heap'[w[1]][w[2]].d = heap'[a[1]][a[2]].d
    /\ TimeNext(w) = TimeNext(a) \/ (TimeNext(w) < TimeNext(a) /\ TimeNext(a) <= EndNext(w))

\* A value remains in a run whose end does not move back before it.
LEMMA InRunKept ==
    ASSUME TypeInv, HeapKept, NEW w \in Addresses, NEW a \in Addresses, InRun(w, a),
           EndNext(w) = Val(w).end \/ Time(a) <= EndNext(w)
    PROVE  InRunNext(w, a)
<1>1. /\ TimeNext(w) = Time(w) /\ TimeNext(a) = Time(a) /\ Time(a) \in Nat /\ Time(w) \in Nat
      /\ Val(w).end \in Nat
  BY TimeKept, TypeFacts
<1>2. heap'[w[1]][w[2]].d = Val(w).d /\ heap'[a[1]][a[2]].d = Val(a).d
  BY TypeFacts, KeptFacts DEF Val
<1> QED
  BY <1>1, <1>2 DEF InRun, InRunNext

\* What Get will not cut after the step, it did not cut before, and numbers
\* were numbers.
LEMMA UncutKept ==
    ASSUME TypeInv, [Next]_vars, NEW g \in Groups
    PROVE  /\ Uncut(g)' => Uncut(g)
           /\ Plain(g)' => Plain(g)
<1>1. UNCHANGED request
  BY DEF Next, vars, dataVars, MergeValueStreams, MaxStep, Get, NextGroup, Receive, Send, Close,
         Cut, CutPanic, returnResponse, Writer, WriterRead, WriterStore
<1>2. PassedOf(g) \subseteq PassedOf(g)' /\ PassedOf(g) \subseteq Addresses
  BY PassedNext, HeldFacts
<1>3. Plain(g)' => Plain(g)
  <2> SUFFICES ASSUME Plain(g)', NEW a \in PassedOf(g)
               PROVE  Val(a).s = NoString
    BY DEF Plain
  <2>1. heap'[a[1]][a[2]].s = NoString
    BY <1>2 DEF Plain, Val
  <2> QED
    BY <1>2, <2>1, TypeNext, TypeFacts, KeptFacts DEF Val
<1>4. Len(passed[g]) \in Nat /\ Len(passed'[g]) \in Nat /\ Len(passed[g]) <= Len(passed'[g])
  <2>1. passed[g] \in Seq(Addresses) /\ group \in Groups
    BY DEF TypeInv, TypeOK
  <2>2. CASE passed'[g] = passed[g]
    BY <2>1, <2>2
  <2>3. CASE Send /\ g = group /\ value \in Addresses
    <3>1. passed'[g] = Append(passed[g], value)
      BY <2>1, <2>3 DEF Send, TypeInv, TypeOK
    <3> QED
      BY <2>1, <2>3, <3>1
  <2> QED
    BY <2>2, <2>3, PassedNext
<1>5. Uncut(g)' => Uncut(g)
  <2>1. request.limit # NoLimit => request.limit \in Nat
    BY LengthFacts
  <2> QED
    BY <1>1, <1>4, <2>1 DEF Uncut
<1> QED
  BY <1>3, <1>5

\* Of a group that Get does not cut, only its own writer changes what is
\* written.
LEMMA WrittenNext ==
    ASSUME TypeInv, LenInv, [Next]_vars, NEW g \in Groups, Uncut(g)
    PROVE  \/ WriterStore(g)
           \/ /\ written'[g] = written[g]
              /\ before'[g] = before[g] \/ before'[g] = written[g]
<1>1. /\ written \in [Groups -> Seq(Addresses)]
      /\ before \in [Groups -> Seq(Addresses) \cup {NotRead}]
      /\ group \in Groups
  BY DEF TypeInv, TypeOK
<1>2. CASE UNCHANGED <<written, before>>
  BY <1>2
<1>3. CASE Cut
  <2>1. g # group
    <3> SUFFICES ASSUME g = group
                 PROVE  FALSE
      OBVIOUS
    <3>1. request.limit # NoLimit /\ Len(passed[g]) >= request.limit
      BY <1>3 DEF Cut, LenInv
    <3>2. Len(passed[g]) \in Nat /\ request.limit \in Nat
      BY <3>1, LengthFacts
    <3> QED
      BY <3>1, <3>2 DEF Uncut
  <2>2. /\ UNCHANGED before
        /\ \E s : written' = [written EXCEPT ![group] = s]
    BY <1>3 DEF Cut
  <2> QED
    BY <1>1, <2>1, <2>2
<1>4. ASSUME NEW h \in Groups, WriterRead(h)
      PROVE  written'[g] = written[g] /\ (before'[g] = before[g] \/ before'[g] = written[g])
  <2>1. UNCHANGED written /\ before' = [before EXCEPT ![h] = written[h]]
    BY <1>4 DEF WriterRead
  <2> QED
    BY <1>1, <2>1
<1>5. ASSUME NEW h \in Groups, WriterStore(h), h # g
      PROVE  written'[g] = written[g] /\ before'[g] = before[g]
  <2>1. /\ before' = [before EXCEPT ![h] = NotRead]
        /\ UNCHANGED written \/ \E s : written' = [written EXCEPT ![h] = s]
    BY <1>5, StoreFacts
  <2> QED
    BY <1>1, <1>5, <2>1
<1>6. \/ UNCHANGED <<written, before>> \/ Cut
      \/ \E h \in Groups : WriterRead(h) \/ WriterStore(h)
  BY DEF Next, MergeValueStreams, MaxStep, Get, NextGroup, Receive, Send, Close, CutPanic,
         returnResponse, Writer, vars, writeVars
<1> QED
  BY <1>2, <1>3, <1>4, <1>5, <1>6

\* What was merged into a run stays so, and does not change.
LEMMA MergedAwayKept ==
    ASSUME TypeInv, PlaceInv, WriterInv, LenInv, [Next]_vars, NEW g \in Groups, Uncut(g),
           before[g] # NotRead => before[g] = written[g],
           NEW a \in PassedOf(g), MergedAway(g, a)
    PROVE  MergedAway(g, a)' /\ heap'[a[1]][a[2]] = heap[a[1]][a[2]]
<1>1. /\ a \in Addresses /\ a # appending[g] /\ a \notin Range(written[g])
      /\ a # Nothing
  BY HeldFacts, TypeFacts DEF MergedAway
<1>2. a \in PassedOf(g)' /\ a # appending'[g]
  <2>1. pc = "send" => a # value
    BY DEF PlaceInv, Fresh
  <2> QED
    BY <1>1, <2>1, AppendingNext
<1>3. a \notin Range(written'[g])
  <2>1. CASE WriterStore(g)
    <3>1. /\ before[g] = written[g] /\ written[g] \in Seq(Addresses)
          /\ appending[g] \in Addresses
      BY <2>1, StoreFacts
    <3>2. CASE written' = [written EXCEPT ![g] = Append(before[g], appending[g])]
      <4>1. written'[g] = Append(written[g], appending[g])
        BY <3>1, <3>2 DEF TypeInv, TypeOK
      <4>2. Range(written'[g]) = Range(written[g]) \cup {appending[g]}
        BY <3>1, <4>1, RangeFacts
      <4> QED
        BY <1>1, <4>2
    <3> QED
      BY <1>1, <2>1, <3>2, ExtendFacts
  <2>2. CASE ~WriterStore(g)
    BY <1>1, <2>2, WrittenNext
  <2> QED
    BY <2>1, <2>2
<1>4. heap'[a[1]][a[2]] = heap[a[1]][a[2]]
  <2>1. ASSUME NEW h \in Groups, a \in Range(before[h]), before[h] # NotRead
        PROVE  FALSE
    <3>1. h # g
      BY <1>1, <2>1
    <3>2. a \in PassedOf(h)
      BY <2>1 DEF WriterInv
    <3> QED
      BY <3>1, <3>2 DEF PlaceInv
  <2> QED
    BY <1>1, <2>1, ValueNext
<1> QED
  BY <1>2, <1>3, <1>4 DEF MergedAway

\* If no end is wrong after the step, none was before.
LEMMA RightBefore ==
    ASSUME TypeInv, PlaceInv, WriterInv, LenInv, [Next]_vars, NEW g \in Groups, Uncut(g),
           before[g] # NotRead => before[g] = written[g], Right(g)'
    PROVE  Right(g)
<1> SUFFICES ASSUME NEW a \in PassedOf(g), MergedAway(g, a)
             PROVE  Val(a).end = NoTime \/ Time(a) <= Val(a).end
  BY DEF Right
<1>1. MergedAway(g, a)' /\ heap'[a[1]][a[2]] = heap[a[1]][a[2]]
  BY MergedAwayKept
<1>2. a \in PassedOf(g)'
  BY <1>1 DEF MergedAway
<1>3. EndNext(a) = NoTime \/ TimeNext(a) <= EndNext(a)
  BY <1>1, <1>2 DEF Right, EndNext, TimeNext, Time, Val
<1> QED
  BY <1>1, <1>3 DEF EndNext, TimeNext, Time, Val

\* The run w has the value a after the step, in terms of the values then.
HasNext(g, w, a) ==
    /\ heap'[w[1]][w[2]].d = heap'[a[1]][a[2]].d
    /\ Right(g)' => InRunNext(w, a)

\* A run keeps a value if its end does not move back before it.
LEMMA HasKept ==
    ASSUME TypeInv, HeapKept, NEW g \in Groups, NEW w \in Addresses, NEW a \in Addresses,
           Val(w).d = Val(a).d, Right(g)' => InRun(w, a),
           Right(g)' => EndNext(w) = Val(w).end \/ Time(a) <= EndNext(w)
    PROVE  HasNext(g, w, a)
<1>1. heap'[w[1]][w[2]].d = Val(w).d /\ heap'[a[1]][a[2]].d = Val(a).d
  BY TypeFacts, KeptFacts DEF Val
<1>2. Right(g)' => InRunNext(w, a)
  BY InRunKept
<1> QED
  BY <1>1, <1>2 DEF HasNext

\* What a writer covers after it has dealt with its value.
LEMMA CoverStore ==
    ASSUME TypeInv, PlaceInv, WriterInv, YoungestInv, LenInv, [Next]_vars,
           NEW g \in Groups, WriterStore(g), before[g] = written[g], Uncut(g), Plain(g),
           \A a \in PassedOf(g) :
              a = appending[g] \/ \E w \in Range(written[g]) :
                  Val(w).d = Val(a).d /\ (Right(g) => InRun(w, a)),
           NEW a \in PassedOf(g)
    PROVE  \E w \in Range(written'[g]) : HasNext(g, w, a)
<1> DEFINE v == appending[g]
<1>1. /\ v \in Addresses /\ before[g] # NotRead /\ written[g] \in Seq(Addresses)
      /\ v # Nothing
  BY StoreFacts, TypeFacts
<1>2. /\ PassedOf(g) \subseteq Addresses /\ a \in Addresses
      /\ Range(written[g]) \subseteq PassedOf(g) /\ v \in PassedOf(g)
      /\ v \notin Range(written[g])
  BY <1>1, HeldFacts DEF WriterInv
<1>3. HeapKept /\ (Right(g)' => Right(g))
  BY TypeNext, RightBefore
<1>4. \A b \in PassedOf(g) : Time(b) <= Time(v)
  BY <1>1 DEF YoungestInv
<1>5. CASE /\ UNCHANGED heap
           /\ written' = [written EXCEPT ![g] = Append(before[g], appending[g])]
  <2>1. written'[g] = Append(written[g], v)
    BY <1>5 DEF TypeInv, TypeOK
  <2>2. Range(written'[g]) = Range(written[g]) \cup {v}
    BY <1>1, <2>1, RangeFacts
  <2>3. \A b \in Addresses : EndNext(b) = Val(b).end
    BY <1>5 DEF EndNext, Val
  <2>4. CASE a = v
    <3>1. InRun(v, a) /\ Val(v).d = Val(a).d
      BY <2>4 DEF InRun
    <3> QED
      BY <1>1, <1>2, <1>3, <2>2, <2>3, <3>1, HasKept
  <2>5. CASE a # v
    <3>1. PICK w \in Range(written[g]) : Val(w).d = Val(a).d /\ (Right(g) => InRun(w, a))
      BY <2>5
    <3> QED
      BY <1>2, <1>3, <2>2, <2>3, <3>1, HasKept
  <2> QED
    BY <2>4, <2>5
<1>6. ASSUME NEW u \in Range(before[g]), u \in Addresses, SameRun(Val(u), Val(v)),
             UNCHANGED written,
             \A b \in Addresses : b # u => heap'[b[1]][b[2]] = heap[b[1]][b[2]],
             EndNext(u) = IF Val(v).end > 0 THEN Val(v).end ELSE Val(v).ts
      PROVE  \E w \in Range(written'[g]) : HasNext(g, w, a)
  <2>1. /\ Range(written'[g]) = Range(written[g]) /\ u \in Range(written[g])
        /\ u \in PassedOf(g) /\ u # v
    BY <1>2, <1>6
  <2>2. ASSUME Right(g)'
        PROVE  Time(v) <= EndNext(u)
    <3>1. appending'[g] = Nothing /\ PassedOf(g)' = PassedOf(g)
      BY StoreFacts DEF TypeInv, TypeOK, PassedOf, getVars
    <3>2. PICK b \in Addresses : b = v
      BY <1>1
    <3>3. EndNext(v) = NoTime \/ TimeNext(v) <= EndNext(v)
      <4>1. b \in PassedOf(g)' /\ b # appending'[g] /\ b \notin Range(written'[g])
        BY <1>1, <1>2, <2>1, <3>1, <3>2
      <4>2. MergedAway(g, b)'
        BY <4>1 DEF MergedAway
      <4>3. EndNext(b) = NoTime \/ TimeNext(b) <= EndNext(b)
        BY <2>2, <4>1, <4>2 DEF Right, EndNext, TimeNext, Time, Val
      <4> QED
        BY <3>2, <4>3
    <3>4. EndNext(v) = Val(v).end /\ TimeNext(v) = Time(v)
      BY <1>1, <1>6, <2>1 DEF EndNext, TimeNext, Time, Val
    <3>5. Time(v) \in Nat /\ Val(v).end \in Nat
      BY <1>1, TypeFacts DEF Time
    <3> QED
      BY <1>6, <3>3, <3>4, <3>5 DEF NoTime, Time
  <2>3. CASE a = v
    <3>1. Val(u).d = Val(v).d
      BY <1>6, <2>1 DEF SameRun, Plain
    <3>2. /\ TimeNext(u) = Time(u) /\ TimeNext(v) = Time(v)
          /\ Time(u) \in Nat /\ Time(v) \in Nat /\ Time(u) <= Time(v)
      BY <1>1, <1>2, <1>3, <1>4, <2>1, TimeKept
    <3>3. heap'[u[1]][u[2]].d = Val(u).d /\ heap'[v[1]][v[2]].d = Val(v).d
      BY <1>1, <1>3, <1>6, TypeFacts, KeptFacts DEF Val
    <3> HIDE DEF v
    <3>4. HasNext(g, u, v)
      BY <2>2, <3>1, <3>2, <3>3 DEF HasNext, InRunNext
    <3> QED
      BY <2>1, <2>3, <3>4
  <2>4. CASE a # v
    <3>1. PICK w \in Range(written[g]) : Val(w).d = Val(a).d /\ (Right(g) => InRun(w, a))
      BY <2>4
    <3>2. w \in Addresses
      BY <1>2
    <3>3. ASSUME Right(g)'
          PROVE  EndNext(w) = Val(w).end \/ Time(a) <= EndNext(w)
      <4>1. CASE w # u
        BY <1>6, <3>2, <4>1 DEF EndNext, Val
      <4>2. CASE w = u
        <5>1. Time(a) <= Time(v) /\ Time(v) <= EndNext(u)
          BY <1>4, <2>2, <3>3
        <5>2. Time(a) \in Nat /\ Time(v) \in Nat /\ EndNext(u) \in Nat
          BY <1>1, <1>2, <1>6, TypeFacts DEF Time
        <5> QED
          BY <4>2, <5>1, <5>2
      <4> QED
        BY <4>1, <4>2
    <3> QED
      BY <1>2, <1>3, <2>1, <3>1, <3>2, <3>3, HasKept
  <2> QED
    BY <2>3, <2>4
<1> QED
  BY <1>5, <1>6, ExtendFacts

\* After every step, what was passed is covered, except what a writer has.
LEMMA CoverNext ==
    /\ TypeInv /\ PlaceInv /\ WriterInv /\ YoungestInv /\ LenInv /\ CoverInv
    /\ [Next]_vars
    => CoverInv'
<1> SUFFICES ASSUME TypeInv, PlaceInv, WriterInv, YoungestInv, LenInv, CoverInv,
                    [Next]_vars, NEW g \in Groups, Uncut(g)'
             PROVE  /\ before'[g] # NotRead => before'[g] = written'[g]
                    /\ Plain(g)' => \A a \in PassedOf(g)' :
                          a = appending'[g] \/ \E w \in Range(written'[g]) : HasNext(g, w, a)
  BY DEF CoverInv, HasNext, InRun, InRunNext, TimeNext, EndNext, Time, Val
<1>1. Uncut(g) /\ (Plain(g)' => Plain(g)) /\ HeapKept
  BY UncutKept, TypeNext
<1>2. /\ before[g] # NotRead => before[g] = written[g]
      /\ Plain(g) => \A a \in PassedOf(g) :
            a = appending[g] \/ \E w \in Range(written[g]) :
                Val(w).d = Val(a).d /\ (Right(g) => InRun(w, a))
  BY <1>1 DEF CoverInv
<1>3. CASE WriterStore(g)
  <2>1. before'[g] = NotRead /\ before[g] # NotRead
    BY <1>3, StoreFacts DEF TypeInv, TypeOK
  <2>2. PassedOf(g)' = PassedOf(g)
    BY <1>3, StoreFacts DEF PassedOf, getVars
  <2> QED
    BY <1>1, <1>2, <1>3, <2>1, <2>2, CoverStore
<1>4. CASE ~WriterStore(g)
  <2>1. /\ written'[g] = written[g]
        /\ before'[g] = before[g] \/ before'[g] = written[g]
    BY <1>1, <1>4, WrittenNext
  <2>2. ASSUME Plain(g)', NEW a \in PassedOf(g)', a # appending'[g]
        PROVE  \E w \in Range(written'[g]) : HasNext(g, w, a)
    <3>1. a \in PassedOf(g) /\ a # appending[g] /\ a \in Addresses
      <4>1. a \in PassedOf(g) /\ a # appending[g]
        <5>1. CASE appending'[g] = appending[g] /\ PassedOf(g)' = PassedOf(g)
          BY <2>2, <5>1
        <5>2. CASE /\ appending[g] = Nothing /\ appending'[g] = value
                   /\ PassedOf(g)' = PassedOf(g) \cup {value}
          <6>1. a \in PassedOf(g)
            BY <2>2, <5>2
          <6> QED
            BY <5>2, <6>1, HeldFacts, TypeFacts
        <5> QED
          BY <1>4, <5>1, <5>2, AppendingNext
      <4> QED
        BY <4>1, HeldFacts
    <3>2. PICK w \in Range(written[g]) : Val(w).d = Val(a).d /\ (Right(g) => InRun(w, a))
      BY <1>1, <1>2, <2>2, <3>1
    <3>3. w \in PassedOf(g) /\ w \in Addresses
      BY HeldFacts DEF WriterInv
    <3>4. heap'[w[1]][w[2]] = heap[w[1]][w[2]]
      <4>1. ASSUME NEW h \in Groups, WriterStore(h), w \in Range(before[h]), before[h] # NotRead
            PROVE  FALSE
        <5>1. w \in PassedOf(h) /\ h # g
          BY <1>4, <4>1 DEF WriterInv
        <5> QED
          BY <3>3, <5>1 DEF PlaceInv
      <4> QED
        BY <3>3, <4>1, ValueNext
    <3>5. EndNext(w) = Val(w).end
      BY <3>4 DEF EndNext, Val
    <3>6. Right(g)' => Right(g)
      BY <1>1, <1>2, RightBefore
    <3> QED
      BY <1>1, <2>1, <3>1, <3>2, <3>3, <3>5, <3>6, HasKept
  <2> QED
    BY <1>2, <2>1, <2>2
<1> QED
  BY <1>3, <1>4

\* The runs of the writers.
RunInv ==
    /\ TypeInv /\ StreamInv /\ TodoInv /\ ClosedInv /\ PlaceInv /\ WriterInv
    /\ OrderInv /\ YoungestInv /\ LenInv /\ CoverInv

\* The invariant of the runs holds at first, if the streams are sorted.
LEMMA RunInit == Init /\ StreamsSorted => RunInv
<1>1. Init => CoverInv
  <2> SUFFICES ASSUME Init, NEW g \in Groups
               PROVE  before[g] = NotRead /\ PassedOf(g) = {}
    BY DEF CoverInv
  <2>1. before[g] = NotRead /\ passed[g] = <<>>
    BY DEF Init
  <2> QED
    BY <2>1 DEF PassedOf, Range
<1> QED
  BY <1>1, TypeInit, StreamInit, TodoInit, PlaceInit, WriterInit, OrderInit, LenInit DEF RunInv

\* Every step keeps the invariant of the runs.
LEMMA RunNext == RunInv /\ [Next]_vars => RunInv'
BY TypeNext, StreamNext, TodoNext, ClosedNext, PlaceNext, WriterNext, OrderNext,
   YoungestNext, LenNext, CoverNext DEF RunInv

\* When the response is encoded and no writer is at work, the answer has the
\* number of every value, and covers it unless an end was wrong.
LEMMA AnswerCovers ==
    ASSUME RunInv, returnResponse, ~raced', NEW g \in Groups, Uncut(g), Plain(g),
           NEW a \in PassedOf(g)
    PROVE  /\ \E n \in DOMAIN answer'[g] : answer'[g][n].d = Val(a).d
           /\ Right(g) => Covered(Val(a), answer'[g])
<1>1. TypeInv /\ appending[g] = Nothing /\ a # Nothing
  BY ResponseFacts, HeldFacts, TypeFacts DEF RunInv
<1>2. PICK w \in Range(written[g]) : Val(w).d = Val(a).d /\ (Right(g) => InRun(w, a))
  BY <1>1 DEF RunInv, CoverInv
<1>3. PICK m \in 1..Len(written[g]) : w = written[g][m]
  BY <1>1, RangeFacts DEF TypeInv, TypeOK
<1>4. m \in DOMAIN answer'[g] /\ answer'[g][m] = Val(w)
  BY <1>1, <1>3, ResponseFacts
<1> QED
  BY <1>2, <1>4 DEF InRun, Covered, Time

\* No writer starts once the response is encoded.
LEMMA DoneNext == TypeInv /\ DoneInv /\ [Next]_vars => DoneInv'
<1> SUFFICES ASSUME TypeInv, DoneInv, [Next]_vars, pc' = "done", ~raced', NEW g \in Groups
             PROVE  appending'[g] = Nothing
  BY DEF DoneInv
<1>1. CASE returnResponse
  <2>1. appending[g] = Nothing
    BY <1>1, ResponseFacts
  <2> QED
    BY <1>1, <2>1 DEF returnResponse
<1>2. CASE pc = "done" /\ UNCHANGED raced
  <2>1. appending[g] = Nothing /\ ~Send
    BY <1>2 DEF DoneInv, Send
  <2> QED
    BY <2>1, AppendingNext
<1> QED
  BY <1>1, <1>2, DoneFacts

\* Then the ends are right after a step only if they were before.
LEMMA EndsBefore ==
    ASSUME TypeInv, [Next]_vars, EndsRight',
           UNCHANGED heap \/ \A g \in Groups : appending[g] = Nothing
    PROVE  EndsRight
<1> SUFFICES ASSUME NEW a \in Addresses
             PROVE  Val(a).end = NoTime \/ Val(a).ts <= Val(a).end
  BY DEF EndsRight
<1>1. a \in Addresses'
  BY TypeNext, TypeFacts, KeptFacts
<1>2. heap'[a[1]][a[2]] = heap[a[1]][a[2]]
  <2>1. ASSUME NEW g \in Groups, WriterStore(g)
        PROVE  appending[g] # Nothing
    BY <2>1 DEF WriterStore
  <2> QED
    BY <2>1, ValueNext
<1>3. EndNext(a) = NoTime \/ TimeNext(a) <= EndNext(a)
  BY <1>1 DEF EndsRight, EndNext, TimeNext, Val
<1> QED
  BY <1>2, <1>3 DEF EndNext, TimeNext, Val

\* Every number that passed the filter is in a run of the answer, if the stored
\* streams are sorted, no value ends before it begins, no writer was late and
\* nothing was cut.
THEOREM RunsCover == Spec => []RunsCoverValues
<1> DEFINE Inv == TypeInv /\ DoneInv /\ (StreamsSorted => RunInv) /\ RunsCoverValues
<1>1. Init => Inv
  BY TypeInit, RunInit DEF Init, RunsCoverValues, DoneInv
<1>2. Inv /\ [Next]_vars => Inv'
  <2> SUFFICES ASSUME Inv, [Next]_vars
               PROVE  RunsCoverValues'
    BY TypeNext, DoneNext, SortedBefore, RunNext
  <2> SUFFICES ASSUME pc' = "done", ~raced', NumbersOnly', StreamsSorted', EndsRight',
                      NEW g \in Groups, NEW k \in DOMAIN passed'[g], Uncut(g)'
               PROVE  Covered(heap'[passed'[g][k][1]][passed'[g][k][2]], answer'[g])
    BY DEF RunsCoverValues, Uncut, Val
  <2>1. TypeInv /\ HeapKept /\ StreamsSorted /\ RunInv
    BY TypeNext, SortedBefore
  <2>2. passed' = passed /\ Uncut(g) /\ k \in DOMAIN passed[g]
    BY <2>1, DoneFacts, UncutKept, ResponseFacts
  <2>3. PICK a \in Addresses : a = passed[g][k] /\ a \in PassedOf(g)
    <3>1. passed[g] \in Seq(Addresses)
      BY <2>1 DEF TypeInv, TypeOK
    <3> QED
      BY <2>2, <3>1, RangeFacts DEF PassedOf
  <2>4. NumbersOnly
    <3> SUFFICES ASSUME NEW b \in Addresses
                 PROVE  Val(b).s = NoString
      BY DEF NumbersOnly
    <3>1. b \in Addresses' /\ heap'[b[1]][b[2]].s = Val(b).s
      BY <2>1, TypeFacts, KeptFacts DEF Val
    <3> QED
      BY <3>1 DEF NumbersOnly, Val
  <2>5. Covered(Val(a), answer'[g])
    <3>1. CASE returnResponse
      <4>1. Plain(g)
        BY <2>1, <2>4, HeldFacts DEF Plain, NumbersOnly
      <4>2. EndsRight
        BY <3>1, EndsBefore DEF returnResponse
      <4>3. Right(g)
        BY <2>1, <4>2, HeldFacts DEF Right, EndsRight, Time
      <4> QED
        BY <2>1, <2>2, <2>3, <3>1, <4>1, <4>3, AnswerCovers
    <3>2. CASE pc = "done" /\ UNCHANGED <<answer, raced>>
      <4>1. EndsRight
        BY <3>2, EndsBefore DEF DoneInv
      <4>2. Covered(Val(passed[g][k]), answer[g])
        BY <2>1, <2>2, <2>4, <3>2, <4>1 DEF RunsCoverValues, Uncut
      <4> QED
        BY <2>3, <3>2, <4>2
    <3> QED
      BY <2>1, <3>1, <3>2, DoneFacts
  <2>6. /\ heap'[a[1]][a[2]].ts = Val(a).ts /\ heap'[a[1]][a[2]].d = Val(a).d
    BY <2>1, TypeFacts, KeptFacts DEF Val
  <2> QED
    BY <2>2, <2>3, <2>5, <2>6 DEF Covered
<1> QED
  BY <1>1, <1>2, PTL DEF Spec

-----------------------------------------------------------------------------
(***************************************************************************)
(* A peak reaches the answer of Max.                                       *)
(***************************************************************************)
\* The number at the address a, after the step.
NumberNext(a) == heap'[a[1]][a[2]].d

\* The number at an address does not change.
LEMMA NumberKept ==
    ASSUME TypeInv, HeapKept
    PROVE  \A a \in Addresses : NumberNext(a) = Val(a).d /\ Val(a).d \in Int
BY TypeFacts, KeptFacts DEF NumberNext, Val

\* A peak is on its way after the step.
ShowsNext(a) ==
    \/ \E b \in PassedOf(group)' : NumberNext(b) >= NumberNext(a)
    \/ pc' = "send" /\ NumberNext(value') >= NumberNext(a)
    \/ mutated' \in Addresses' /\ NumberNext(mutated') >= NumberNext(a)

\* A peak on its way remains so, as Get filters no value of Max.
LEMMA ShowsKept ==
    ASSUME TypeInv, [Next]_vars, Unfiltered, pc \in {"receive", "send"},
           pc' \in {"receive", "send"}, NEW a \in Addresses, Shows(a)
    PROVE  ShowsNext(a)
<1>1. HeapKept /\ \A b \in Addresses : b \in Addresses' /\ NumberNext(b) = Val(b).d
  BY TypeNext, TypeFacts, KeptFacts, NumberKept
<1>2. group' = group /\ group \in Groups
  BY DEF Next, vars, getVars, MergeValueStreams, MaxStep, Get, NextGroup, Receive, Send, Close,
         Cut, CutPanic, returnResponse, Writer, WriterRead, WriterStore, TypeInv, TypeOK
<1>3. PassedOf(group) \subseteq PassedOf(group)' /\ PassedOf(group) \subseteq Addresses
  BY <1>2, PassedNext, HeldFacts DEF PassedOf
<1>4. CASE \E b \in PassedOf(group) : Val(b).d >= Val(a).d
  BY <1>1, <1>3, <1>4 DEF ShowsNext
<1>5. CASE pc = "send" /\ Val(value).d >= Val(a).d
  <2>1. value \in Addresses
    BY <1>5, HeldFacts
  <2>2. CASE Send
    <3>1. value \in PassedOf(group)'
      <4>1. passed'[group] = Append(passed[group], value) /\ passed[group] \in Seq(Addresses)
        BY <1>2, <2>2 DEF Send, TypeInv, TypeOK
      <4> QED
        BY <1>2, <2>1, <4>1, RangeFacts DEF PassedOf
    <3> QED
      BY <1>1, <1>5, <2>1, <3>1 DEF ShowsNext
  <2>3. CASE UNCHANGED <<pc, value>>
    BY <1>1, <1>5, <2>1, <2>3 DEF ShowsNext
  <2>4. Send \/ UNCHANGED <<pc, value>>
    BY <1>5 DEF Next, vars, getVars, MergeValueStreams, MaxStep, Get, NextGroup, Receive, Close,
                Cut, CutPanic, returnResponse, Writer, WriterRead, WriterStore
  <2> QED
    BY <2>2, <2>3, <2>4
<1>6. CASE mutated \in Addresses /\ Val(mutated).d >= Val(a).d
  <2>1. mutated # Nothing /\ mutated # Closed
    BY <1>6, TypeFacts
  <2>2. CASE UNCHANGED mutated
    BY <1>1, <1>6, <2>2 DEF ShowsNext
  <2>3. CASE Receive
    <3>1. Channel = mutated
      BY DEF Channel, Unfiltered
    <3>2. ~ (Val(mutated).ts < request.min \/ Val(mutated).ts > request.max)
      <4>1. Val(mutated).ts \in Nat /\ Val(mutated).ts \in 1..MaxTime /\ MaxTime \in Nat
        BY <1>6, TypeFacts, ConstantFacts DEF Times
      <4> QED
        BY <4>1 DEF Unfiltered, NoTime
    <3>3. value' = mutated /\ pc' = "send"
      BY <2>3, <3>1, <3>2 DEF Receive
    <3> QED
      BY <1>1, <1>6, <3>3 DEF ShowsNext
  <2>4. Receive \/ UNCHANGED mutated
    BY <2>1 DEF Next, vars, maxVars, MergeValueStreams, MaxStep, MaxReceives, Get, NextGroup, Send,
                Close, Cut, CutPanic, returnResponse, Writer, WriterRead, WriterStore
  <2> QED
    BY <2>2, <2>3, <2>4
<1> QED
  BY <1>4, <1>5, <1>6 DEF Shows

\* Max takes a value into its period, or begins the next with it.
LEMMA PeriodMax ==
    ASSUME TypeInv, OrderInv, PeriodInv, [Next]_vars, Unfiltered, MaxStep,
           pc \in {"receive", "send"}, NEW a \in EmittedOf(group), a # merged'
    PROVE  /\ ~first'
           /\ TimeNext(a) < lastTimestamp' + request.duration
           /\ (lastTimestamp' <= TimeNext(a) /\ NumberNext(a) <= max') \/ ShowsNext(a)
<1> DEFINE d == request.duration
<1>1. /\ HeapKept /\ group \in Groups /\ a \in Addresses
      /\ d \in Nat /\ d > 0
      /\ lastTimestamp \in Nat /\ max \in Int
  <2>1. \A n \in Numbers \cup {0} : n \in Int
    BY QueryAssumption
  <2>2. group \in Groups /\ max \in Int
    BY <2>1 DEF TypeInv, TypeOK
  <2> QED
    BY <2>2, TypeNext, HeldFacts, OrderFacts DEF Unfiltered
<1>2. /\ TimeNext(a) = Time(a) /\ Time(a) \in Nat
      /\ NumberNext(a) = Val(a).d /\ Val(a).d \in Int
  BY <1>1, TimeKept, NumberKept
<1>3. a # merged => Counted(a)
  BY DEF PeriodInv
<1>4. pc' = pc /\ mutated = Nothing
  BY DEF MaxStep, MaxReceives, getVars
<1>5. Shows(a) => ShowsNext(a)
  BY <1>1, <1>4, ShowsKept
<1> HIDE DEF d
<1>6. CASE merged = Closed
  <2>1. a # merged /\ UNCHANGED <<first, lastTimestamp, max>>
    BY <1>1, <1>6, TypeFacts DEF MaxStep
  <2> QED
    BY <1>2, <1>3, <1>5, <2>1 DEF Counted
<1>7. CASE merged # Closed
  <2> DEFINE v == Val(merged)
  <2>1. merged \in Addresses /\ v \in Values /\ v.ts \in Nat /\ v.d \in Int /\ v.ts = Time(merged)
    <3>1. merged \in Addresses
      BY <1>7 DEF MaxStep, MaxReceives, TypeInv, TypeOK
    <3> QED
      BY <3>1, TypeFacts DEF Time
  <2>2. lastTimestamp <= v.ts
    BY <1>1, <2>1, OrderFacts DEF d
  <2>3. CASE MaxFirst(v)
    <3>1. first /\ ~first' /\ lastTimestamp' = v.ts /\ max' = v.d
      BY <2>3 DEF MaxFirst
    <3>2. a = merged
      BY <1>3, <3>1 DEF Counted
    <3>3. TimeNext(a) = v.ts /\ NumberNext(a) = v.d
      BY <1>2, <2>1, <3>2
    <3> HIDE DEF v
    <3>4. v.ts < v.ts + d
      BY <1>1, <2>1
    <3> QED
      BY <2>1, <3>1, <3>3, <3>4 DEF d
  <2>4. CASE MaxNext(v)
    <3>1. /\ ~first /\ first' = first /\ v.ts >= lastTimestamp + d
          /\ lastTimestamp' = v.ts /\ max' = v.d
      BY <2>4 DEF MaxNext, d
    <3>2. mutated' \in Addresses' /\ NumberNext(mutated') = max
      <4>1. /\ mutated' \in Addresses' /\ mutated' = <<0, Len(heap[0]) + 1>>
            /\ heap'[0][Len(heap[0]) + 1] =
                  [ts |-> v.ts, end |-> NoTime, d |-> max, s |-> NoString]
        BY <2>1, <2>4, HeapMax
      <4> QED
        BY <4>1 DEF NumberNext
    <3>3. CASE a = merged
      <4>1. TimeNext(a) = v.ts /\ NumberNext(a) = v.d
        BY <1>2, <2>1, <3>3
      <4> HIDE DEF v
      <4>2. v.ts < v.ts + d
        BY <1>1, <2>1
      <4> QED
        BY <2>1, <3>1, <4>1, <4>2 DEF d
    <3>4. CASE a # merged
      <4>1. /\ Time(a) < lastTimestamp + d
            /\ Val(a).d <= max \/ Shows(a)
        BY <1>3, <3>4 DEF Counted, d
      <4>2. ShowsNext(a)
        BY <1>1, <1>2, <1>5, <3>2, <4>1 DEF ShowsNext
      <4> HIDE DEF v
      <4>3. Time(a) < v.ts + d
        BY <1>1, <1>2, <2>1, <3>1, <4>1
      <4> QED
        BY <1>2, <3>1, <4>2, <4>3 DEF d
    <3> QED
      BY <3>3, <3>4
  <2>5. CASE MaxSame(v)
    <3>1. /\ ~first /\ first' = first /\ v.ts < lastTimestamp + d
          /\ lastTimestamp' = lastTimestamp /\ max' = IF v.d > max THEN v.d ELSE max
      BY <2>5 DEF MaxSame, d
    <3>2. max' \in Int /\ max <= max' /\ v.d <= max'
      BY <1>1, <2>1, <3>1
    <3>3. CASE a = merged
      <4>1. TimeNext(a) = v.ts /\ NumberNext(a) = v.d
        BY <1>2, <2>1, <3>3
      <4> QED
        BY <2>2, <3>1, <3>2, <4>1 DEF d
    <3>4. CASE a # merged
      <4>1. /\ Time(a) < lastTimestamp + d
            /\ (lastTimestamp <= Time(a) /\ Val(a).d <= max) \/ Shows(a)
        BY <1>3, <3>4 DEF Counted, d
      <4>2. Val(a).d <= max => Val(a).d <= max'
        BY <1>1, <1>2, <3>2
      <4> QED
        BY <1>2, <1>5, <3>1, <4>1, <4>2 DEF d
    <3> QED
      BY <3>3, <3>4
  <2> QED
    BY <1>7, <2>3, <2>4, <2>5 DEF MaxStep
<1> QED
  BY <1>6, <1>7

\* After every step, what was merged is in the period of Max or on its way.
LEMMA PeriodNext ==
    TypeInv /\ TodoInv /\ OrderInv /\ PeriodInv /\ [Next]_vars => PeriodInv'
<1> SUFFICES ASSUME TypeInv, TodoInv, OrderInv, PeriodInv, [Next]_vars, Unfiltered',
                    pc' \in {"receive", "send"}, NEW a \in EmittedOf(group)', a # merged'
             PROVE  /\ ~first'
                    /\ TimeNext(a) < lastTimestamp' + request'.duration
                    /\ \/ lastTimestamp' <= TimeNext(a) /\ NumberNext(a) <= max'
                       \/ ShowsNext(a)
  BY DEF PeriodInv, Counted, Shows, ShowsNext, NumberNext, TimeNext, Time, Val
<1>1. HeapKept /\ request' = request /\ Unfiltered
  <2>1. UNCHANGED request
    BY DEF Next, vars, dataVars, MergeValueStreams, MaxStep, Get, NextGroup, Receive, Send, Close,
           Cut, CutPanic, returnResponse, Writer, WriterRead, WriterStore
  <2> QED
    BY <2>1, TypeNext DEF Unfiltered
<1>2. ASSUME NEW g \in Groups, NextGroup(g)
      PROVE  FALSE
  <2>1. emitted'[group'] = <<>>
    BY <1>2 DEF NextGroup, TodoInv
  <2> QED
    BY <2>1 DEF EmittedOf, Range
<1>3. CASE ~ \E g \in Groups : NextGroup(g)
  <2>1. pc \in {"receive", "send"} /\ UNCHANGED group /\ group \in Groups
    BY <1>3 DEF Next, vars, getVars, MergeValueStreams, MaxStep, Get, Receive, Send, Close,
                Cut, CutPanic, returnResponse, Writer, WriterRead, WriterStore, TypeInv, TypeOK
  <2>2. CASE MaxStep
    <3>1. a \in EmittedOf(group)
      BY <2>1, <2>2 DEF MaxStep, EmittedOf
    <3> QED
      BY <1>1, <2>1, <2>2, <3>1, PeriodMax
  <2>3. ASSUME a \in EmittedOf(group), a # merged, UNCHANGED <<first, lastTimestamp, max>>
        PROVE  /\ ~first'
               /\ TimeNext(a) < lastTimestamp' + request'.duration
               /\ \/ lastTimestamp' <= TimeNext(a) /\ NumberNext(a) <= max'
                  \/ ShowsNext(a)
    <3>1. Counted(a)
      BY <1>1, <2>1, <2>3 DEF PeriodInv
    <3>2. a \in Addresses
      BY <2>1, <2>3, HeldFacts
    <3>3. TimeNext(a) = Time(a) /\ NumberNext(a) = Val(a).d
      BY <1>1, <3>2, TimeKept, NumberKept
    <3>4. Shows(a) => ShowsNext(a)
      BY <1>1, <2>1, <3>2, ShowsKept
    <3> QED
      BY <1>1, <2>3, <3>1, <3>3, <3>4 DEF Counted
  <2>4. CASE MergeValueStreams
    <3>1. UNCHANGED <<first, lastTimestamp, max>> /\ merged = Nothing
      BY <2>4 DEF MergeValueStreams, maxVars
    <3>2. a \in EmittedOf(group)
      <4>1. CASE Left = {}
        BY <2>1, <2>4, <4>1 DEF MergeValueStreams, EmittedOf
      <4>2. CASE Left # {}
        <5>1. /\ emitted'[group] = Append(emitted[group], HeadOf(Sent))
              /\ emitted[group] \in Seq(Addresses) /\ HeadOf(Sent) \in Addresses
              /\ merged' = HeadOf(Sent)
          BY <2>1, <2>4, <4>2, TypeFacts, SentAddress DEF MergeValueStreams, TypeInv, TypeOK
        <5>2. EmittedOf(group)' = EmittedOf(group) \cup {HeadOf(Sent)}
          BY <2>1, <5>1, RangeFacts DEF EmittedOf
        <5> QED
          BY <5>1, <5>2
      <4> QED
        BY <4>1, <4>2
    <3>3. a # Nothing
      BY <2>1, <3>2, HeldFacts, TypeFacts
    <3> QED
      BY <2>3, <3>1, <3>2, <3>3
  <2>5. CASE UNCHANGED <<first, lastTimestamp, max, emitted, merged>>
    <3>1. a \in EmittedOf(group)
      BY <2>1, <2>5 DEF EmittedOf
    <3> QED
      BY <2>3, <2>5, <3>1
  <2>6. \/ MaxStep \/ MergeValueStreams \/ UNCHANGED <<first, lastTimestamp, max, emitted, merged>>
    BY <1>1, <1>3 DEF Unfiltered, Next, vars, mergeVars, maxVars, Get, Receive, Send, Close,
                Cut, CutPanic, returnResponse, Writer, WriterRead, WriterStore
  <2> QED
    BY <2>2, <2>4, <2>5, <2>6
<1> QED
  BY <1>2, <1>3

\* Max has closed its channel: a peak was passed if a period has ended after it.
LEMMA PeaksPassed ==
    ASSUME TypeInv, ClosedInv, OrderInv, PeriodInv, Unfiltered, pc = "receive",
           Channel = Closed, NEW a \in EmittedOf(group), NEW b \in EmittedOf(group),
           Time(b) >= Time(a) + request.duration
    PROVE  \E c \in PassedOf(group) : Val(c).d >= Val(a).d
<1>1. merged = Closed /\ mutated = Closed
  BY DEF Channel, Unfiltered, ClosedInv
<1>2. a \in Addresses /\ b \in Addresses /\ mutated \notin Addresses
  BY <1>1, HeldFacts, TypeFacts DEF TypeInv, TypeOK
<1>3. Counted(a) /\ Counted(b)
  BY <1>1, <1>2, TypeFacts DEF PeriodInv
<1>4. ~ (lastTimestamp <= Time(a))
  <2>1. /\ Time(a) \in Nat /\ Time(b) \in Nat /\ lastTimestamp \in Nat
        /\ request.duration \in Nat
    BY <1>2, OrderFacts, HeldFacts
  <2>2. Time(b) < lastTimestamp + request.duration
    BY <1>3 DEF Counted
  <2> QED
    BY <2>1, <2>2
<1> QED
  BY <1>2, <1>3, <1>4 DEF Counted, Shows

\* A group that Get leaves has its peaks, and keeps them.
LEMMA PeakNext ==
    TypeInv /\ ClosedInv /\ OrderInv /\ PeriodInv /\ PeakInv /\ [Next]_vars => PeakInv'
<1> SUFFICES ASSUME TypeInv, ClosedInv, OrderInv, PeriodInv, PeakInv, [Next]_vars, Unfiltered',
                    NEW g \in Groups, ~ (g = group' /\ pc' \in {"receive", "send"}),
                    NEW a \in EmittedOf(g)', NEW b \in EmittedOf(g)',
                    TimeNext(b) >= TimeNext(a) + request'.duration
             PROVE  \E c \in PassedOf(g)' : NumberNext(c) >= NumberNext(a)
  BY DEF PeakInv, NumberNext, TimeNext, Time, Val
<1>1. HeapKept /\ request' = request /\ Unfiltered
  <2>1. UNCHANGED request
    BY DEF Next, vars, dataVars, MergeValueStreams, MaxStep, Get, NextGroup, Receive, Send, Close,
           Cut, CutPanic, returnResponse, Writer, WriterRead, WriterStore
  <2> QED
    BY <2>1, TypeNext DEF Unfiltered
<1>2. emitted'[g] = emitted[g]
  <2>1. CASE MergeValueStreams
    <3>1. g # group /\ group \in Groups
      BY <2>1 DEF MergeValueStreams, getVars, TypeInv, TypeOK
    <3>2. UNCHANGED emitted \/ \E s : emitted' = [emitted EXCEPT ![group] = s]
      BY <2>1 DEF MergeValueStreams
    <3> QED
      BY <3>1, <3>2 DEF TypeInv, TypeOK
  <2>2. MergeValueStreams \/ UNCHANGED emitted
    BY DEF Next, vars, mergeVars, MaxStep, Get, NextGroup, Receive, Send, Close,
           Cut, CutPanic, returnResponse, Writer, WriterRead, WriterStore
  <2> QED
    BY <2>1, <2>2
<1>3. a \in EmittedOf(g) /\ b \in EmittedOf(g) /\ a \in Addresses /\ b \in Addresses
  BY <1>2, HeldFacts DEF EmittedOf
<1>4. Time(b) >= Time(a) + request.duration
  BY <1>1, <1>3, TimeKept
<1>5. \E c \in PassedOf(g) : Val(c).d >= Val(a).d
  <2>1. CASE g = group /\ pc \in {"receive", "send"}
    <3>1. pc = "receive" /\ Channel = Closed
      BY <2>1 DEF Next, vars, getVars, MergeValueStreams, MaxStep, Get, NextGroup, Receive, Send,
                  Close, Cut, CutPanic, returnResponse, Writer, WriterRead, WriterStore
    <3> QED
      BY <1>1, <1>3, <1>4, <2>1, <3>1, PeaksPassed
  <2>2. CASE ~ (g = group /\ pc \in {"receive", "send"})
    BY <1>1, <1>3, <1>4, <2>2 DEF PeakInv
  <2> QED
    BY <2>1, <2>2
<1>6. PICK c \in PassedOf(g) : Val(c).d >= Val(a).d
  BY <1>5
<1>7. c \in PassedOf(g)' /\ c \in Addresses
  BY PassedNext, HeldFacts
<1> QED
  BY <1>1, <1>3, <1>6, <1>7, NumberKept

\* The periods of Max and the runs of the writers.
MaxInv == RunInv /\ PeriodInv /\ PeakInv

\* With Max, Get passes only values that Max has made, and they are numbers.
LEMMA PlainMax ==
    ASSUME TypeInv, StreamInv, PlaceInv, request.duration > 0, NEW g \in Groups
    PROVE  Plain(g)
<1> SUFFICES ASSUME NEW a \in PassedOf(g)
             PROVE  Val(a).s = NoString
  BY DEF Plain
<1>1. a \in Addresses /\ a[1] = 0
  BY HeldFacts DEF PlaceInv
<1>2. a[2] \in 1..Len(heap[0]) /\ heap[0] \in Seq(Values)
  BY <1>1, TypeFacts, ConstantFacts
<1>3. a[2] \in DOMAIN heap[0]
  BY <1>2
<1> QED
  BY <1>1, <1>3 DEF StreamInv, Val

\* Whatever the period: without a filter or a limit, the answer has a value at
\* least as large as every value after which a period has ended, if the stored
\* streams are sorted and no writer was late.
THEOREM PeaksAreShown == Spec => []PeaksShown
<1> DEFINE Inv == TypeInv /\ (StreamsSorted => MaxInv) /\ PeaksShown
<1>1. Init => Inv
  <2>1. Init => PeriodInv /\ PeakInv
    <3> SUFFICES ASSUME Init
                 PROVE  pc = "next" /\ \A g \in Groups : EmittedOf(g) = {}
      BY DEF PeriodInv, PeakInv
    <3>1. pc = "next" /\ \A g \in Groups : emitted[g] = <<>>
      BY DEF Init
    <3> QED
      BY <3>1 DEF EmittedOf, Range
  <2> QED
    BY <2>1, TypeInit, RunInit DEF MaxInv, Init, PeaksShown
<1>2. Inv /\ [Next]_vars => Inv'
  <2>1. MaxInv /\ [Next]_vars => MaxInv'
    BY RunNext, PeriodNext, PeakNext DEF MaxInv, RunInv
  <2> SUFFICES ASSUME Inv, [Next]_vars
               PROVE  PeaksShown'
    BY <2>1, TypeNext, SortedBefore
  <2>2. TypeInv /\ HeapKept
    BY TypeNext
  <2>5. StreamsSorted' => StreamsSorted /\ MaxInv
    BY SortedBefore
  <2>3. ASSUME pc' = "done", ~raced', StreamsSorted', Unfiltered', request'.limit = NoLimit,
               NEW g \in Groups, NEW j \in DOMAIN emitted'[g], NEW k \in DOMAIN emitted'[g],
               TimeNext(emitted'[g][k]) >= TimeNext(emitted'[g][j]) + request'.duration
        PROVE  \E n \in DOMAIN answer'[g] : answer'[g][n].d >= NumberNext(emitted'[g][j])
    <3>1. UNCHANGED <<request, emitted>> /\ Unfiltered
      BY <2>2, <2>3, DoneFacts, ResponseFacts DEF Unfiltered
    <3>2. PICK a \in Addresses : a = emitted[g][j] /\ a \in EmittedOf(g)
      <4>1. emitted[g] \in Seq(Addresses) /\ j \in DOMAIN emitted[g]
        BY <2>2, <3>1 DEF TypeInv, TypeOK
      <4> QED
        BY <4>1, RangeFacts DEF EmittedOf
    <3>3. PICK b \in Addresses : b = emitted[g][k] /\ b \in EmittedOf(g)
      <4>1. emitted[g] \in Seq(Addresses) /\ k \in DOMAIN emitted[g]
        BY <2>2, <3>1 DEF TypeInv, TypeOK
      <4> QED
        BY <4>1, RangeFacts DEF EmittedOf
    <3>4. /\ Time(b) >= Time(a) + request.duration
          /\ NumberNext(a) = Val(a).d /\ Val(a).d \in Int
      BY <2>2, <2>3, <3>1, <3>2, <3>3, TimeKept, NumberKept
    <3>5. CASE pc = "done" /\ UNCHANGED <<answer, raced>>
      <4>1. \E n \in DOMAIN answer[g] : answer[g][n].d >= Val(emitted[g][j]).d
        <5>1. j \in DOMAIN emitted[g] /\ k \in DOMAIN emitted[g]
          BY <3>1
        <5>2. Val(emitted[g][k]).ts >= Val(emitted[g][j]).ts + request.duration
          BY <3>2, <3>3, <3>4 DEF Time
        <5> QED
          BY <2>3, <2>5, <3>1, <3>5, <5>1, <5>2 DEF PeaksShown, Unfiltered
      <4> QED
        BY <3>1, <3>2, <3>4, <3>5, <4>1
    <3>6. CASE returnResponse
      <4>1. PICK c \in PassedOf(g) : Val(c).d >= Val(a).d
        BY <2>3, <2>5, <3>1, <3>2, <3>3, <3>4, <3>6 DEF MaxInv, PeakInv, returnResponse
      <4>2. Uncut(g) /\ Plain(g)
        BY <2>2, <2>3, <2>5, <3>1, PlainMax DEF Uncut, Unfiltered, MaxInv, RunInv
      <4>4. PICK n \in DOMAIN answer'[g] : answer'[g][n].d = Val(c).d
        BY <2>3, <2>5, <3>6, <4>2, AnswerCovers DEF MaxInv
      <4> QED
        BY <3>1, <3>2, <3>4, <4>1, <4>4
    <3> QED
      BY <2>2, <2>3, <3>5, <3>6, DoneFacts
  <2> QED
    BY <2>3 DEF PeaksShown, Unfiltered, NumberNext, TimeNext, Val
<1> QED
  BY <1>1, <1>2, PTL DEF Spec
=============================================================================
