------------------------------- MODULE Query -------------------------------
(***************************************************************************)
(* A Get request of the Go store (Get in store.go) on the streams that     *)
(* Datastore.Reader has found: MergeStreamsBy groups them, and each group  *)
(* goes through MergeValueStreams, an optional mutation (Max), the filter  *)
(* of Get and ValueStreamWriter, each a goroutine that hands values to the *)
(* next over an unbuffered channel.                                        *)
(*                                                                         *)
(* Values are passed as pointers, from the stored streams to the answer:   *)
(* they are addresses in heap here. The goroutines share nothing else,     *)
(* except newstream, which ValueStreamWriter appends to while Get, once it *)
(* has closed the channel, cuts it to MaxValues and encodes it.            *)
(***************************************************************************)
EXTENDS Integers, Sequences, FiniteSets, SequencesExt

CONSTANTS
    MaxTime,      \* bound: timestamps are 1..MaxTime
    MaxLength,    \* bound: values of a stored stream
    MaxStored,    \* bound: values of all stored streams
    NumStreams,   \* how many streams Reader returns
    Ends,         \* the choices of EndTimestamp of stored values; 0: not set
    Numbers,      \* the DoubleValues of the values
    Strings,      \* their StringValues, if they have one
    Labels,       \* values of the label to aggregate by
    MinTimes,     \* the choices of MinTimestamp; 0: not set
    MaxTimes,     \* the choices of MaxTimestamp; MaxTime: not set
    Limits,       \* the choices of MaxValues
    Durations     \* the choices of SampleFrequency; 0: no mutation

Times    == 1..MaxTime
Ids      == 1..NumStreams
Rows     == 0..NumStreams \* of the heap
Nothing  == <<0, 0>>      \* no address
Closed   == <<-1, 0>>     \* instead of an address: the channel is closed
NotRead  == <<Nothing>>   \* newstream.Value has not been read
NoTime   == 0
NoLimit  == -1            \* MaxValues is not set
NoString == "no string"
NoLabel  == "no label"
AnyLabel == "any label"   \* the group of a request without aggregation
Groups   == Labels \cup {AnyLabel}

ASSUME QueryAssumption ==
    /\ MaxTime \in Nat /\ MaxLength \in Nat /\ MaxStored \in Nat
    /\ NumStreams \in Nat
    /\ Ends \subseteq 0..MaxTime
    /\ Numbers \subseteq Int
    /\ MinTimes \subseteq Nat /\ MaxTimes \subseteq Nat
    /\ Limits \subseteq Nat
    /\ Durations \subseteq Nat
    /\ AnyLabel \notin Labels /\ NoLabel \notin Labels /\ NoString \notin Strings

\* GetDoubleValue of a string is 0, and GetStringValue of a number empty.
Contents == [d : Numbers, s : {NoString}] \cup [d : {0}, s : Strings]
Value(t, x) == [ts |-> t, end |-> NoTime, d |-> x.d, s |-> x.s]

VARIABLES
    heap,      \* the values of each stream; in row 0 those that Max has made
    label,     \* the label of each stream, or NoLabel
    request,   \* by, min, max, limit and duration of the request
    todo,      \* the groups MergeStreamsBy has still to hand to Get
    group,     \* the group that Get works on
    indexes,   \* MergeValueStreams: indexes, as how many values are taken
    merged,    \* the value it is about to send, and "closed" after the last
    first, lastTimestamp, max,   \* the variables of Max
    mutated,   \* the value Max is about to send, and "closed" after the last
    value,     \* the value in the hands of Get
    count,     \* value_count
    cut,       \* newstream.Value as Get has read it in order to cut it
    written,   \* for each group, newstream.Value
    appending, \* the value its ValueStreamWriter has received
    before,    \* newstream.Value as ValueStreamWriter has read it
    answer,    \* the values of each stream of the response
    pc,        \* where Get is
    \* history
    emitted,   \* for each group, what MergeValueStreams has sent
    passed,    \* for each group, what Get has sent to ValueStreamWriter
    raced      \* Get has read newstream while a ValueStreamWriter was at work

dataVars  == <<label, request>>
mergeVars == <<indexes, merged, emitted>>
maxVars   == <<first, lastTimestamp, max, mutated>>
getVars   == <<todo, group, value, count, cut, passed, pc>>
writeVars == <<written, appending, before, answer>>
vars == <<heap, dataVars, mergeVars, maxVars, getVars, writeVars, raced>>
-----------------------------------------------------------------------------
\* A stored stream has its values in the order in which they have arrived, and
\* has them twice if a Flush was repeated, until a compaction sorts them. A
\* value may have an end: clients send what they like, and ValueStreamWriter
\* leaves ends in the values of streams in memory.
Stored == {[ts |-> t, end |-> e, d |-> x.d, s |-> x.s] :
              t \in Times, e \in Ends, x \in Contents}
Series == UNION {[1..n -> Stored] : n \in 1..MaxLength}

\* The value at the address a, which is a row of the heap and a place in it.
Val(a) == heap[a[1]][a[2]]

\* Reader returns a stream if its last value is not too old, nor its first too
\* new; the index of a block has the timestamps of these two values.
maybe_return_stream(values, q) ==
    /\ Last(values).ts >= q.min
    /\ values[1].ts <= q.max

Addresses == UNION {{<<i, k>> : k \in DOMAIN heap[i]} : i \in Rows}

Requests == [by : BOOLEAN, min : MinTimes, max : MaxTimes,
             limit : Limits \cup {NoLimit}, duration : Durations]

Init ==
    /\ request \in Requests
    /\ \E ss \in [Ids -> {x \in Series : maybe_return_stream(x, request)}] :
          heap = [i \in Rows |-> IF i = 0 THEN <<>> ELSE ss[i]]
    /\ Cardinality(Addresses) <= MaxStored
    /\ label \in IF request.by THEN [Ids -> Labels \cup {NoLabel}]
                              ELSE {[i \in Ids |-> NoLabel]}
    /\ todo = IF request.by THEN {label[i] : i \in Ids} \ {NoLabel} ELSE {AnyLabel}
    /\ group = AnyLabel
    /\ indexes = [i \in Ids |-> 0]
    /\ merged = Nothing
    /\ first = TRUE /\ lastTimestamp = NoTime /\ max = 0 /\ mutated = Nothing
    /\ value = Nothing
    /\ count = 0
    /\ cut = <<>>
    /\ written = [g \in Groups |-> <<>>]
    /\ appending = [g \in Groups |-> Nothing]
    /\ before = [g \in Groups |-> NotRead]
    /\ answer = [g \in Groups |-> <<>>]
    /\ pc = "next"
    /\ emitted = [g \in Groups |-> <<>>]
    /\ passed = [g \in Groups |-> <<>>]
    /\ raced = FALSE

\* MergeStreamsBy: without a label to aggregate by, all streams are one group;
\* with one, a stream that lacks the label is in no group.
Members(g) == {i \in Ids : g = AnyLabel \/ label[i] = g}
-----------------------------------------------------------------------------
(***************************************************************************)
(* MergeValueStreams.                                                      *)
(***************************************************************************)
HeadOf(i) == <<i, indexes[i] + 1>>
Left     == {i \in Members(group) : indexes[i] < Len(heap[i])}

\* FAULT: the comparison is not strict.
TakenLate == {i \in Left : \A j \in Left :
                 j < i => Val(HeadOf(i)).ts <= Val(HeadOf(j)).ts}
\* The loop over the streams takes the value of every stream that has a smaller
\* timestamp than all streams before it.
Taken == {i \in Left : \A j \in Left :
             j < i => Val(HeadOf(i)).ts < Val(HeadOf(j)).ts}

\* FAULT: the first stream it has taken a value of is sent, not the last.
SentFirst == CHOOSE i \in Taken : \A j \in Taken : i <= j
\* The last value it has taken is sent.
Sent == CHOOSE i \in Taken : \A j \in Taken : j <= i

\* FAULT: the channel is never closed.
MergeValueStreamsOpen ==
    /\ pc \in {"receive", "send"}
    /\ merged = Nothing
    /\ Left # {}
    /\ merged' = HeadOf(Sent)
    /\ emitted' = [emitted EXCEPT ![group] = Append(@, HeadOf(Sent))]
    /\ indexes' = [i \in Ids |-> IF i \in Taken THEN indexes[i] + 1 ELSE indexes[i]]
    /\ UNCHANGED <<heap, dataVars, maxVars, getVars, writeVars, raced>>
MergeValueStreams ==
    /\ pc \in {"receive", "send"}
    /\ merged = Nothing
    /\ \/ /\ Left # {}
          /\ merged' = HeadOf(Sent)
          /\ emitted' = [emitted EXCEPT ![group] = Append(@, HeadOf(Sent))]
       \/ /\ Left = {}
          /\ merged' = Closed
          /\ UNCHANGED emitted
    /\ indexes' = [i \in Ids |-> IF i \in Taken THEN indexes[i] + 1 ELSE indexes[i]]
    /\ UNCHANGED <<heap, dataVars, maxVars, getVars, writeVars, raced>>
-----------------------------------------------------------------------------
(***************************************************************************)
(* MutateValues with Max.                                                  *)
(***************************************************************************)
MaxReceives ==
    /\ request.duration > 0
    /\ mutated = Nothing
    /\ merged # Nothing

MaxFirst(v) ==
    /\ first
    /\ first' = FALSE
    /\ lastTimestamp' = v.ts
    /\ max' = v.d
    /\ UNCHANGED <<heap, mutated>>

\* FAULT: the new value is sent instead of the largest.
MaxNextSendsNew(v) ==
    /\ ~first /\ v.ts >= lastTimestamp + request.duration
    /\ heap' = [heap EXCEPT ![0] = Append(@, Value(v.ts, [d |-> v.d, s |-> NoString]))]
    /\ mutated' = <<0, Len(heap[0]) + 1>>
    /\ lastTimestamp' = v.ts
    /\ max' = v.d
    /\ UNCHANGED first
\* The first value of the next period: the largest of this one is sent, with
\* the timestamp of the next, in which the new value counts.
MaxNext(v) ==
    /\ ~first /\ v.ts >= lastTimestamp + request.duration
    /\ heap' = [heap EXCEPT ![0] = Append(@, Value(v.ts, [d |-> max, s |-> NoString]))]
    /\ mutated' = <<0, Len(heap[0]) + 1>>
    /\ lastTimestamp' = v.ts
    /\ max' = v.d
    /\ UNCHANGED first

MaxSame(v) ==
    /\ ~first /\ v.ts < lastTimestamp + request.duration
    /\ max' = IF v.d > max THEN v.d ELSE max
    /\ UNCHANGED <<heap, first, lastTimestamp, mutated>>

\* At the end of its input Max closes its output; the last period is not sent.
MaxStep ==
    /\ MaxReceives
    /\ \/ /\ merged # Closed
          /\ LET v == Val(merged) IN MaxFirst(v) \/ MaxNext(v) \/ MaxSame(v)
          /\ merged' = Nothing
       \/ /\ merged = Closed
          /\ mutated' = Closed
          /\ UNCHANGED <<heap, first, lastTimestamp, max, merged>>
    /\ UNCHANGED <<dataVars, indexes, emitted, getVars, writeVars, raced>>
-----------------------------------------------------------------------------
(***************************************************************************)
(* Get.                                                                    *)
(***************************************************************************)
NextGroup(g) ==
    /\ pc = "next"
    /\ g \in todo
    /\ todo' = todo \ {g}
    /\ group' = g
    /\ merged' = Nothing
    /\ first' = TRUE /\ lastTimestamp' = NoTime /\ max' = 0 /\ mutated' = Nothing
    /\ count' = 0
    /\ pc' = "receive"
    /\ UNCHANGED <<heap, dataVars, indexes, emitted, value, cut, passed, writeVars,
                   raced>>

\* The last of mutation_channels.
Channel == IF request.duration > 0 THEN mutated ELSE merged

Receive ==
    /\ pc = "receive"
    /\ Channel \notin {Nothing, Closed}
    /\ IF request.duration > 0 THEN mutated' = Nothing /\ UNCHANGED merged
                               ELSE merged' = Nothing /\ UNCHANGED mutated
    /\ IF Val(Channel).ts < request.min \/ Val(Channel).ts > request.max
         THEN UNCHANGED <<value, pc>>
         ELSE value' = Channel /\ pc' = "send"
    /\ UNCHANGED <<heap, dataVars, indexes, emitted, first, lastTimestamp, max, todo,
                   group, count, cut, passed, writeVars, raced>>

\* ValueStreamWriter takes the value when it has dealt with the one before.
Send ==
    /\ pc = "send"
    /\ appending[group] = Nothing
    /\ appending' = [appending EXCEPT ![group] = value]
    /\ passed' = [passed EXCEPT ![group] = Append(@, value)]
    /\ count' = count + 1
    /\ pc' = "receive"
    /\ UNCHANGED <<heap, dataVars, mergeVars, maxVars, todo, group, value, cut, written,
                   before, answer, raced>>

\* close(writer) does not wait for ValueStreamWriter. With enough values, their
\* number is cut to MaxValues.
Close ==
    /\ pc = "receive"
    /\ Channel = Closed
    /\ \/ /\ request.limit = NoLimit \/ count < request.limit
          /\ pc' = "next"
          /\ UNCHANGED <<cut, raced>>
       \/ /\ request.limit # NoLimit /\ count >= request.limit
          /\ cut' = written[group]
          /\ raced' = (raced \/ appending[group] # Nothing)
          /\ pc' = "cut"
    /\ UNCHANGED <<heap, dataVars, mergeVars, maxVars, todo, group, value, count, passed,
                   writeVars>>

\* FAULT: the slice is computed and not stored.
CutForgotten ==
    /\ pc = "cut"
    /\ Len(cut) >= request.limit
    /\ pc' = "next"
    /\ UNCHANGED <<heap, dataVars, mergeVars, maxVars, todo, group, value, count, cut,
                   passed, writeVars, raced>>

\* The last MaxValues values are kept.
Cut ==
    /\ pc = "cut"
    /\ Len(cut) >= request.limit
    /\ written' = [written EXCEPT ![group] =
          SubSeq(cut, Len(cut) - request.limit + 1, Len(cut))]
    /\ pc' = "next"
    /\ UNCHANGED <<heap, dataVars, mergeVars, maxVars, todo, group, value, count, cut,
                   passed, appending, before, answer, raced>>

\* Run-length encoding has left fewer values than MaxValues: the difference,
\* which is unsigned, is a slice bound far out of range. The handler panics and
\* the client gets no answer.
CutPanic ==
    /\ pc = "cut"
    /\ Len(cut) < request.limit
    /\ pc' = "panic"
    /\ UNCHANGED <<heap, dataVars, mergeVars, maxVars, todo, group, value, count, cut,
                   passed, writeVars, raced>>

\* The response is encoded as the streams are at this moment.
returnResponse ==
    /\ pc = "next"
    /\ todo = {}
    /\ answer' = [g \in Groups |-> [k \in DOMAIN written[g] |-> Val(written[g][k])]]
    /\ raced' = (raced \/ \E g \in Groups : appending[g] # Nothing)
    /\ pc' = "done"
    /\ UNCHANGED <<heap, dataVars, mergeVars, maxVars, todo, group, value, count, cut,
                   passed, written, appending, before>>
-----------------------------------------------------------------------------
(***************************************************************************)
(* ValueStreamWriter of the group g, which outlives the closing of its     *)
(* channel until it has dealt with its last value.                         *)
(***************************************************************************)
WriterRead(g) ==
    /\ appending[g] # Nothing
    /\ before[g] = NotRead
    /\ before' = [before EXCEPT ![g] = written[g]]
    /\ UNCHANGED <<heap, dataVars, mergeVars, maxVars, getVars, written, appending, answer,
                   raced>>

\* Two strings count as equal as well, because both have the number 0.
SameRun(u, v) == (u.s # NoString /\ u.s = v.s) \/ u.d = v.d

\* FAULT: a run keeps the end it had.
ExtendKeepsEnd(u, v) == u
\* FAULT: the end is one too large.
ExtendTooFar(u, v) == [u EXCEPT !.end = v.ts + 1]
\* A value equal to the last one only extends the run of the last one, which is
\* a value of a stored stream unless a mutation has made it.
Extend(u, v) == [u EXCEPT !.end = IF v.end > 0 THEN v.end ELSE v.ts]

WriterStore(g) ==
    LET a == appending[g]
        b == before[g]
        u == Last(b)
    IN
    /\ a # Nothing
    /\ b # NotRead
    /\ IF b # <<>> /\ SameRun(Val(u), Val(a))
         THEN /\ heap' = [heap EXCEPT ![u[1]][u[2]] = Extend(@, Val(a))]
              /\ UNCHANGED written
         ELSE /\ written' = [written EXCEPT ![g] = Append(b, a)]
              /\ UNCHANGED heap
    /\ appending' = [appending EXCEPT ![g] = Nothing]
    /\ before' = [before EXCEPT ![g] = NotRead]
    /\ UNCHANGED <<dataVars, mergeVars, maxVars, getVars, answer, raced>>
-----------------------------------------------------------------------------
Writer(g) == WriterRead(g) \/ WriterStore(g)

Get ==
    \/ \E g \in Groups : NextGroup(g)
    \/ Receive
    \/ Send
    \/ Close
    \/ Cut
    \/ CutPanic
    \/ returnResponse

Next == MergeValueStreams \/ MaxStep \/ Get \/ \E g \in Groups : Writer(g)

Spec == Init /\ [][Next]_vars

\* The Go scheduler runs every goroutine that can run.
FairSpec ==
    /\ Spec
    /\ WF_vars(MergeValueStreams)
    /\ WF_vars(MaxStep)
    /\ WF_vars(Get)
    /\ \A g \in Groups : WF_vars(Writer(g))
-----------------------------------------------------------------------------
(***************************************************************************)
(* Properties.                                                             *)
(***************************************************************************)
Values == [ts : Times, end : Times \cup {NoTime}, d : Numbers \cup {0},
           s : Strings \cup {NoString}]

\* Every variable holds a value of its kind.
TypeOK ==
    /\ heap \in [Rows -> Seq(Values)]
    /\ label \in [Ids -> Labels \cup {NoLabel}]
    /\ request \in Requests
    /\ todo \subseteq Groups
    /\ group \in Groups
    /\ indexes \in [Ids -> Nat]
    /\ \A i \in Ids : indexes[i] <= Len(heap[i])
    /\ merged \in Addresses \cup {Nothing, Closed}
    /\ first \in BOOLEAN
    /\ lastTimestamp \in Times \cup {NoTime}
    /\ max \in Numbers \cup {0}
    /\ mutated \in Addresses \cup {Nothing, Closed}
    /\ value \in Addresses \cup {Nothing}
    /\ count \in Nat
    /\ cut \in Seq(Addresses)
    /\ written \in [Groups -> Seq(Addresses)]
    /\ appending \in [Groups -> Addresses \cup {Nothing}]
    /\ before \in [Groups -> Seq(Addresses) \cup {NotRead}]
    /\ answer \in [Groups -> Seq(Values)]
    /\ pc \in {"next", "receive", "send", "cut", "panic", "done"}
    /\ emitted \in [Groups -> Seq(Addresses)]
    /\ passed \in [Groups -> Seq(Addresses)]
    /\ raced \in BOOLEAN

\* The stored streams are in the order of time, as a compaction leaves them and
\* as they are if their values arrive in that order.
StreamsSorted ==
    \A i \in Ids : \A j, k \in DOMAIN heap[i] :
        j < k => heap[i][j].ts <= heap[i][k].ts

\* No value ends before it begins.
EndsRight == \A a \in Addresses : Val(a).end = NoTime \/ Val(a).ts <= Val(a).end

\* "returning a channel producing sorted Values": the answer is in the order of
\* the timestamps if each stream is, although the values come from several
\* streams, through the mutation, and the writer may be cut off by Get.
AnswerSorted ==
    StreamsSorted => \A g \in Groups : \A j, k \in DOMAIN answer[g] :
        j < k => answer[g][j].ts <= answer[g][k].ts

\* The streams of a group follow each other in time.
Consecutive(g) ==
    \A i, j \in Members(g) : i < j =>
        \A k \in DOMAIN heap[i], l \in DOMAIN heap[j] :
            heap[i][k].ts <= heap[j][l].ts

\* Streams that follow each other in time, in the order in which Reader returns
\* them, are merged without loss, in whatever order each has its values.
ConsecutiveMerged ==
    Channel = Closed /\ Consecutive(group) =>
        \A i \in Members(group) : \A k \in DOMAIN heap[i] :
            <<i, k>> \in Range(emitted[group])

\* The comment of MergeValueStreams, "merges multiple ValueStreams": all values
\* of the streams come out.
AllMerged ==
    Channel = Closed =>
        \A i \in Members(group) : \A k \in DOMAIN heap[i] :
            <<i, k>> \in Range(emitted[group])

\* Value v is part of a run of the values xs.
Covered(v, xs) ==
    \E k \in DOMAIN xs :
        /\ xs[k].d = v.d
        /\ xs[k].ts = v.ts \/ (xs[k].ts < v.ts /\ v.ts <= xs[k].end)

NumbersOnly == \A a \in Addresses : Val(a).s = NoString

\* "performing run-length-encoding": the answer to a query of numbers covers
\* each value that passed the filter, if the streams are sorted and no value
\* ends before it begins, unless Get has read the stream before the writer was
\* done with it, or has cut it.
RunsCoverValues ==
    pc = "done" /\ ~raced /\ NumbersOnly /\ StreamsSorted /\ EndsRight => \A g \in Groups :
        \A k \in DOMAIN passed[g] :
            request.limit = NoLimit \/ Len(passed[g]) < request.limit
                => Covered(Val(passed[g][k]), answer[g])

\* A peak of sorted streams reaches the answer of Max if a period has ended
\* after it.
PeaksShown ==
    pc = "done" /\ ~raced /\ StreamsSorted /\ request.duration > 0 /\ request.min = NoTime
        /\ request.max = MaxTime /\ request.limit = NoLimit
      => \A g \in Groups : \A j, k \in DOMAIN emitted[g] :
            Val(emitted[g][k]).ts >= Val(emitted[g][j]).ts + request.duration
                => \E n \in DOMAIN answer[g] : answer[g][n].d >= Val(emitted[g][j]).d

\* Get answers with at most MaxValues values of a group, unless it has read the
\* stream before the writer was done with it.
LimitKept ==
    pc = "done" /\ ~raced /\ request.limit # NoLimit =>
        \A g \in Groups : Len(answer[g]) <= request.limit

\* Every request ends: no goroutine of the pipeline waits for ever.
Answered == <>(pc \in {"done", "panic"})
=============================================================================
