--------------------------- MODULE RecordLogProofs ---------------------------
(***************************************************************************)
(* Proofs about RecordLog, for every set of variables, numbers and inputs, *)
(* and every number of records, timestamps, rotations, crashes and errors: *)
(* type correctness, the completeness of a replay, and that the record log *)
(* implements DurableStore.                                                *)
(***************************************************************************)
EXTENDS RecordLog, NumberFacts, SequenceTheorems, TLAPS

\* First returns an element: the files of a directory have a first one in the
\* order of Glob.
LEMMA FirstFacts ==
    ASSUME NEW S \in SUBSET Names, S # {}
    PROVE  First(S) \in S
<1> DEFINE R == {f[1] : f \in S}
<1>1. R \in SUBSET Nat /\ R # {}
  BY DEF Names
<1>2. PICK r \in R : \A q \in R : r <= q
  <2> HIDE DEF R
  <2> QED
    BY <1>1, LeastNumber
<1> DEFINE D == {d \in Nat : <<r, d>> \in S}
<1>3. D # {}
  <2>1. PICK f \in S : f[1] = r
    BY <1>2
  <2>2. f = <<r, f[2]>> /\ f[2] \in Nat
    BY <2>1 DEF Names
  <2> QED
    BY <2>2
<1>4. PICK d \in D : \A e \in D : d <= e
  <2>1. D \in SUBSET Nat
    OBVIOUS
  <2> HIDE DEF D
  <2> QED
    BY <1>3, <2>1, LeastNumber
<1>5. ASSUME NEW g \in S
      PROVE  Before(<<r, d>>, g)
  <2>1. g = <<g[1], g[2]>> /\ g[1] \in Nat /\ g[2] \in Nat
    BY DEF Names
  <2>2. r <= g[1] /\ r \in Nat /\ d \in Nat
    BY <1>1, <1>2, <1>4
  <2>3. g[1] = r => d <= g[2]
    BY <1>4, <2>1
  <2> QED
    BY <2>1, <2>2, <2>3 DEF Before
<1>6. \E f \in S : \A g \in S : Before(f, g)
  BY <1>4, <1>5
<1> QED
  BY <1>6 DEF First

\* The names of files: appending ".new" gives another name, of one ".new" more,
\* that there may be after as many crashes and errors as there were.
LEMMA NewFacts ==
    ASSUME NEW f \in Names
    PROVE  /\ New(f) # f
           /\ New(f)[1] = f[1]
           /\ New(f)[2] = f[2] + 1
           /\ f[1] \in Nat
           /\ f[2] \in Nat
           /\ f[2] <= MaxCrashes + MaxErrors => New(f) \in Names
  BY ConstantsAssumption DEF Names, New, MaxDepth

-----------------------------------------------------------------------------
(***************************************************************************)
(* The changes in a sequence of values, and the encoding.                  *)
(***************************************************************************)

\* The changes in an empty file, in a file with one more record, in a file
\* with the records of another one behind its own.
LEMMA ChangesFacts ==
    /\ Changes(<<>>) = {}
    /\ \A S : \A s \in Seq(S), x \in S :
          Changes(Append(s, x)) = Changes(s) \cup {Change(x)}
    /\ \A S : \A s, t \in Seq(S) : Changes(s \o t) = Changes(s) \cup Changes(t)
<1>1. Changes(<<>>) = {}
  <2>1. Len(<<>>) = 0
    BY EmptySeq
  <2>2. 1..0 = {}
    OBVIOUS
  <2> QED
    BY <2>1, <2>2 DEF Changes
<1>2. ASSUME NEW S, NEW s \in Seq(S), NEW x \in S
      PROVE  Changes(Append(s, x)) = Changes(s) \cup {Change(x)}
  <2>1. /\ Len(Append(s, x)) = Len(s) + 1
        /\ \A i \in 1..Len(s) : Append(s, x)[i] = s[i]
        /\ Append(s, x)[Len(s) + 1] = x
        /\ Len(s) \in Nat
    BY AppendProperties, LenProperties
  <2>2. 1..(Len(s) + 1) = 1..Len(s) \cup {Len(s) + 1}
    BY <2>1
  <2> QED
    BY <2>1, <2>2 DEF Changes
<1>3. ASSUME NEW S, NEW s \in Seq(S), NEW t \in Seq(S)
      PROVE  Changes(s \o t) = Changes(s) \cup Changes(t)
  <2>1. /\ Len(s) \in Nat /\ Len(t) \in Nat
        /\ Len(s \o t) = Len(s) + Len(t)
        /\ \A i \in 1..(Len(s) + Len(t)) :
              (s \o t)[i] = IF i <= Len(s) THEN s[i] ELSE t[i - Len(s)]
    BY ConcatProperties, LenProperties
  <2>2. Changes(s) \subseteq Changes(s \o t)
    <3>1. \A i \in 1..Len(s) : i \in 1..Len(s \o t) /\ (s \o t)[i] = s[i]
      BY <2>1
    <3> QED
      BY <3>1 DEF Changes
  <2>3. Changes(t) \subseteq Changes(s \o t)
    <3>1. \A i \in 1..Len(t) : /\ Len(s) + i \in 1..Len(s \o t)
                              /\ (s \o t)[Len(s) + i] = t[i]
      BY <2>1
    <3> QED
      BY <3>1 DEF Changes
  <2>4. Changes(s \o t) \subseteq Changes(s) \cup Changes(t)
    <3>1. \A i \in 1..Len(s \o t) :
             \/ i \in 1..Len(s) /\ (s \o t)[i] = s[i]
             \/ i - Len(s) \in 1..Len(t) /\ (s \o t)[i] = t[i - Len(s)]
      BY <2>1
    <3> QED
      BY <3>1 DEF Changes
  <2> QED
    BY <2>2, <2>3, <2>4
<1> QED
  BY <1>1, <1>2, <1>3

\* The changes in a file of which one more record has been read.
LEMMA HeadFacts ==
    ASSUME NEW S, NEW s \in Seq(S), s # <<>>
    PROVE  /\ Head(s) \in S
           /\ Tail(s) \in Seq(S)
           /\ Changes(s) = {Change(Head(s))} \cup Changes(Tail(s))
<1>1. /\ Head(s) \in S /\ Tail(s) \in Seq(S) /\ Len(Tail(s)) = Len(s) - 1
      /\ \A i \in 1..Len(Tail(s)) : Tail(s)[i] = s[i + 1]
      /\ Len(s) \in Nat \ {0}
      /\ Head(s) = s[1]
  BY HeadTailProperties, EmptySeq
<1>2. \A i \in 1..Len(s) : i = 1 \/ (i - 1 \in 1..Len(Tail(s)) /\ Tail(s)[i - 1] = s[i])
  BY <1>1
<1>3. 1 \in 1..Len(s) /\ \A i \in 1..Len(Tail(s)) : i + 1 \in 1..Len(s)
  BY <1>1
<1>4. ASSUME NEW c \in Changes(s)
      PROVE  c = Change(Head(s)) \/ c \in Changes(Tail(s))
  <2>1. PICK i \in 1..Len(s) : c = Change(s[i])
    BY DEF Changes
  <2>2. CASE i = 1
    BY <1>1, <2>1, <2>2
  <2>3. CASE i # 1
    <3>1. i - 1 \in 1..Len(Tail(s)) /\ Change(Tail(s)[i - 1]) = c
      BY <1>2, <2>1, <2>3
    <3> QED
      BY <3>1 DEF Changes
  <2> QED
    BY <2>2, <2>3
<1>5. {Change(Head(s))} \cup Changes(Tail(s)) \subseteq Changes(s)
  BY <1>1, <1>3 DEF Changes
<1> QED
  BY <1>1, <1>4, <1>5

\* Flush erases records from the beginning of log_: what stays was there.
LEMMA EraseFacts ==
    ASSUME NEW S, NEW s \in Seq(S), NEW n \in 0..Len(s)
    PROVE  /\ SubSeq(s, n + 1, Len(s)) \in Seq(S)
           /\ Changes(SubSeq(s, n + 1, Len(s))) \subseteq Changes(s)
<1> DEFINE t == SubSeq(s, n + 1, Len(s))
<1>1. /\ Len(s) \in Nat /\ n \in Nat /\ n <= Len(s)
      /\ \A i \in 1..Len(s) : s[i] \in S
  BY LenProperties, ElementOfSeq
<1>2. n + 1 \in Int /\ Len(s) \in Int /\ \A i \in (n + 1)..Len(s) : s[i] \in S
  BY <1>1
<1>3. /\ t \in Seq(S)
      /\ Len(t) = IF n + 1 <= Len(s) THEN Len(s) - (n + 1) + 1 ELSE 0
      /\ \A i \in 1..(Len(s) - (n + 1) + 1) : t[i] = s[(n + 1) + i - 1]
  BY <1>2, SubSeqProperties
<1>4. \A i \in 1..Len(t) : n + i \in 1..Len(s) /\ t[i] = s[n + i]
  <2>1. Len(t) = Len(s) - n
    BY <1>1, <1>3
  <2> SUFFICES ASSUME NEW i \in 1..(Len(s) - n)
               PROVE  n + i \in 1..Len(s) /\ t[i] = s[n + i]
    BY <2>1
  <2>2. /\ Len(s) - (n + 1) + 1 = Len(s) - n
        /\ (n + 1) + i - 1 = n + i
        /\ n + i \in 1..Len(s)
    BY <1>1
  <2> QED
    BY <1>3, <2>2
<1>5. Changes(t) \subseteq Changes(s)
  <2> HIDE DEF t
  <2> QED
    BY <1>4 DEF Changes
<1> QED
  BY <1>3, <1>5

\* The values that say nothing but what is in P, and rows of them.
KnownIn(P) == {x \in Values : PointsOf(x) \subseteq P}
RowsIn(r, P) ==
    /\ r \in [Vars -> Seq(KnownIn(P))]
    /\ \A v \in Vars : \A i \in 1..Len(r[v]) : r[v][i].var = v

\* One step of the encoding: what it makes of a row, and that the change it is
\* given is not lost unless it splices.
LEMMA EncodeFacts ==
    ASSUME NEW P, NEW row \in Seq(KnownIn(P)), NEW x \in KnownIn(P),
           \A i \in 1..Len(row) : row[i].var = x.var
    PROVE  LET e == Encode(row, x) IN
           /\ e \in Seq(KnownIn(P))
           /\ Len(e) \in Nat \ {0}
           /\ \A i \in 1..Len(e) : e[i].var = x.var
           /\ Changes(row) \subseteq Changes(e)
           /\ Changes(e) \subseteq Changes(row) \cup {Change(x)}
           /\ ~ Splices(row, x) => Change(x) \in Changes(e)
<1> DEFINE e == Encode(row, x)
           n == Len(row)
<1>1. n \in Nat /\ \A i \in 1..n : row[i] \in KnownIn(P)
  BY LenProperties, ElementOfSeq
<1>2. CASE ~ Joins(row, x)
  <2>1. e = Append(row, x)
    BY <1>2 DEF Encode
  <2>2. /\ e \in Seq(KnownIn(P)) /\ Len(e) = n + 1
        /\ \A i \in 1..n : e[i] = row[i]
        /\ e[n + 1] = x
    BY <2>1, AppendProperties
  <2>3. Changes(e) = Changes(row) \cup {Change(x)}
    BY <2>1, ChangesFacts
  <2>4. \A i \in 1..Len(e) : e[i].var = x.var
    BY <1>1, <2>2
  <2> HIDE DEF e
  <2> QED
    BY <1>1, <2>2, <2>3, <2>4 DEF e
<1>3. CASE Joins(row, x)
  <2> DEFINE y == [row[n] EXCEPT !.end = x.ts]
  <2>1. e = [row EXCEPT ![n] = y]
    BY <1>3 DEF Encode
  <2>2. n \in 1..n /\ row[n].d = x.d /\ row[n].var = x.var
    BY <1>1, <1>3, EmptySeq DEF Joins
  <2>3. row[n] \in Values /\ x \in Values
        /\ PointsOf(row[n]) \subseteq P /\ PointsOf(x) \subseteq P
    BY <1>1, <2>2 DEF KnownIn
  <2>4. /\ y \in Values /\ y.var = x.var /\ y.ts = row[n].ts
        /\ y.d = row[n].d /\ y.end = x.ts
    BY <2>2, <2>3, ConstantsAssumption DEF Values, Times
  <2>5. Change(y) = Change(row[n])
    BY <2>2, <2>4 DEF Change
  <2>6. PointsOf(y) \subseteq P
    <3>1. Change(y) \in P /\ Change(x) \in P
      BY <2>3, <2>5 DEF PointsOf
    <3>2. <<y.var, y.end, y.d>> = Change(x)
      BY <2>2, <2>4 DEF Change
    <3> QED
      BY <3>1, <3>2 DEF PointsOf
  <2>7. y \in KnownIn(P)
    BY <2>4, <2>6 DEF KnownIn
  <2> HIDE DEF y
  <2>8. /\ e \in Seq(KnownIn(P)) /\ Len(e) = n
        /\ \A i \in 1..n : e[i] = IF i = n THEN y ELSE row[i]
    BY <2>1, <2>2, <2>7, ExceptSeq
  <2>9. \A i \in 1..n : Change(e[i]) = Change(row[i])
    BY <2>5, <2>8
  <2> HIDE DEF e
  <2>10. Changes(e) = Changes(row)
    BY <2>8, <2>9 DEF Changes
  <2>11. ~ Splices(row, x) => Change(x) \in Changes(row)
    BY <1>3, <2>2 DEF Splices, Changes
  <2>12. \A i \in 1..Len(e) : e[i].var = x.var
    BY <2>4, <2>8
  <2> QED
    BY <1>1, <2>2, <2>8, <2>10, <2>11, <2>12 DEF e
<1> QED
  BY <1>2, <1>3

\* The same for the rows of all variables.
LEMMA RowFacts ==
    ASSUME NEW P, NEW r, RowsIn(r, P), NEW x \in KnownIn(P)
    PROVE  LET q == [r EXCEPT ![x.var] = Encode(r[x.var], x)] IN
           /\ RowsIn(q, P)
           /\ RowChanges(r) \subseteq RowChanges(q)
           /\ RowChanges(q) \subseteq RowChanges(r) \cup {Change(x)}
           /\ ~ Splices(r[x.var], x) => Change(x) \in RowChanges(q)
           /\ LET e == q[x.var] IN
              /\ e[Len(e)] \in KnownIn(P)
              /\ Change(e[Len(e)]) \in RowChanges(q)
<1> DEFINE v == x.var
           e == Encode(r[v], x)
           q == [r EXCEPT ![v] = e]
<1>1. v \in Vars
  BY DEF KnownIn, Values
<1>2. r[v] \in Seq(KnownIn(P)) /\ \A i \in 1..Len(r[v]) : r[v][i].var = v
  BY <1>1 DEF RowsIn
<1>3. /\ e \in Seq(KnownIn(P))
      /\ Len(e) \in Nat \ {0}
      /\ \A i \in 1..Len(e) : e[i].var = v
      /\ Changes(r[v]) \subseteq Changes(e)
      /\ Changes(e) \subseteq Changes(r[v]) \cup {Change(x)}
      /\ ~ Splices(r[v], x) => Change(x) \in Changes(e)
  BY <1>2, EncodeFacts
<1> HIDE DEF e
<1>4. q[v] = e /\ \A w \in Vars \ {v} : q[w] = r[w]
  BY <1>1 DEF RowsIn
<1>5. RowsIn(q, P)
  BY <1>1, <1>3, <1>4 DEF RowsIn
<1>6. Len(e) \in 1..Len(e)
  BY <1>3
<1>7. e[Len(e)] \in KnownIn(P) /\ Change(e[Len(e)]) \in Changes(e)
  <2>1. e[Len(e)] \in KnownIn(P)
    BY <1>3, <1>6, ElementOfSeq
  <2> QED
    BY <1>6, <2>1 DEF Changes
<1> HIDE DEF v, q
<1>8. RowChanges(r) \subseteq RowChanges(q)
  BY <1>1, <1>3, <1>4 DEF RowChanges
<1>9. RowChanges(q) \subseteq RowChanges(r) \cup {Change(x)}
  BY <1>1, <1>3, <1>4 DEF RowChanges
<1>10. Changes(e) \subseteq RowChanges(q)
  BY <1>1, <1>4 DEF RowChanges
<1> QED
  BY <1>3, <1>4, <1>5, <1>7, <1>8, <1>9, <1>10 DEF v, e, q

\* The changes of empty rows.
LEMMA NoRowsFacts == RowChanges(NoRows) = {} /\ \A P : RowsIn(NoRows, P)
<1>1. \A v \in Vars : NoRows[v] = <<>>
  BY DEF NoRows
<1>2. RowChanges(NoRows) = {}
  BY <1>1, ChangesFacts DEF RowChanges
<1>3. ASSUME NEW P PROVE RowsIn(NoRows, P)
  <2>1. <<>> \in Seq(KnownIn(P)) /\ Len(<<>>) = 0
    BY EmptySeq
  <2>2. 1..0 = {}
    OBVIOUS
  <2> QED
    BY <1>1, <2>1, <2>2 DEF RowsIn, NoRows
<1> QED
  BY <1>2, <1>3

\* newest_timestamp is a timestamp, or 0: a datastore.<time>.bin of that name
\* can exist.
LEMMA NewestFacts ==
    ASSUME NEW P \in SUBSET Points, NEW r, RowsIn(r, P)
    PROVE  Newest(r) \in 0..MaxTime
<1> USE ConstantsAssumption
<1> DEFINE T == {s[2] : s \in RowChanges(r)}
<1>1. T \in SUBSET (0..MaxTime)
  <2>1. ASSUME NEW v \in Vars, NEW i \in 1..Len(r[v])
        PROVE  Change(r[v][i])[2] \in 0..MaxTime
    <3>1. r[v] \in Seq(KnownIn(P))
      BY DEF RowsIn
    <3>2. r[v][i] \in KnownIn(P)
      BY <3>1, ElementOfSeq
    <3> QED
      BY <3>2 DEF KnownIn, Values, Change, Times
  <2> QED
    BY <2>1 DEF RowChanges, Changes
<1>2. CASE T = {}
  BY <1>2 DEF Newest
<1>3. CASE T # {}
  <2>1. PICK t \in T : \A u \in T : u <= t
    <3> HIDE DEF T
    <3> QED
      BY <1>1, <1>3, GreatestNumber
  <2>2. Newest(r) \in T
    BY <1>3, <2>1 DEF Newest
  <2> QED
    BY <1>1, <2>2
<1> QED
  BY <1>2, <1>3
-----------------------------------------------------------------------------
(***************************************************************************)
(* The inductive invariant.                                                *)
(***************************************************************************)
Flushing   == {"flush", "erase"}
Reindexing == {"read", "index", "rename"}
Indexing   == {"index", "rename"}

\* Outside Flush nothing is counted as written; what the running Flush has
\* written is still in recordlog, which cannot be rotated before it is done.
FlushInv ==
    /\ apc \notin Flushing => done = 0 /\ wrote = {}
    /\ wrote \subseteq Changes(cur)

\* The directory: no file is from a rotation still to come; a name with more
\* ".new" than there were crashes and errors is the one being written.
DirInv ==
    /\ \A f \in exist : f[1] <= rotations
    /\ \A f \in exist : \/ f[2] <= crashes + errors
                        \/ apc \in Indexing /\ f = New(input)
    /\ \A f \in todo : f[2] <= crashes + errors
    /\ todo \subseteq exist

\* The file that is reindexed is one that Glob has listed, the output of
\* WriteIndexedFile exists and is still to be listed.
IndexInv ==
    /\ apc \in Reindexing => /\ input \in Names
                             /\ input[2] <= crashes + errors
                             /\ input \notin todo
    /\ apc \in {"read", "index"} => input \in exist
    /\ apc \in Indexing => New(input) \in exist /\ New(input) \notin todo

\* log_data has, of the changes in the file that is reindexed, all that have
\* been read, unless two values were spliced, and no others. The output has no
\* others either, and has all of the rows that are written.
DataInv ==
    /\ apc \in {"read", "index"} =>
          /\ pos <= Len(files[input])
          /\ RowChanges(data) \subseteq Changes(files[input])
          /\ damaged \/ \A i \in 1..pos : Change(files[input][i]) \in RowChanges(data)
    /\ apc = "index" =>
          /\ pos = Len(files[input])
          /\ Changes(files[New(input)]) \subseteq RowChanges(data)
          /\ \A v \in Vars \ rows : Changes(data[v]) \subseteq Changes(files[New(input)])

LogInv == TypeOK /\ FlushInv /\ DirInv /\ IndexInv

\* The values and rows that TypeOK speaks of.
LEMMA KnownFacts ==
    /\ Known = KnownIn(sent) /\ Known' = KnownIn(sent')
    /\ IsRows(live) <=> RowsIn(live, sent)
    /\ IsRows(data) <=> RowsIn(data, sent)
    /\ IsRows(live)' <=> RowsIn(live', sent')
    /\ IsRows(data)' <=> RowsIn(data', sent')
    /\ sent' = sent => Known' = Known
    /\ sent \subseteq sent' => Known \subseteq Known'
<1>1. Known = KnownIn(sent) /\ Known' = KnownIn(sent')
  BY DEF Known, KnownIn
<1>2. sent \subseteq sent' => Known \subseteq Known'
  BY <1>1 DEF KnownIn
<1> QED
  BY <1>1, <1>2 DEF IsRows, RowsIn

\* What a step preserves of the types when it records nothing.
LEMMA QuietTypes ==
    ASSUME TypeOK, UNCHANGED <<live, log, data, rest, cur, files, indexed, sent>>
    PROVE  /\ IsRows(live)' /\ IsRows(data)'
           /\ log' \in Seq(Known') /\ rest' \in Seq(Known')
           /\ cur' \in Seq(Known')
           /\ files' \in [Names -> Seq(Known')]
           /\ indexed' \in [0..MaxTime -> Seq(Known')]
<1>1. Known' = Known
  BY KnownFacts
<1>2. IsRows(live)' /\ IsRows(data)'
  BY KnownFacts DEF TypeOK
<1> QED
  BY <1>1, <1>2 DEF TypeOK

\* The inductive invariant holds in an empty directory.
LEMMA LogInit == Init => LogInv /\ DataInv
<1> SUFFICES ASSUME Init PROVE LogInv /\ DataInv
  OBVIOUS
<1> USE ConstantsAssumption DEF Init
<1>1. <<>> \in Seq(Known) /\ Len(<<>>) = 0
  BY EmptySeq
<1>2. mutex \in BOOLEAN /\ shutdown \in BOOLEAN /\ torn \in BOOLEAN
      /\ moved \in BOOLEAN /\ joined \in BOOLEAN /\ damaged \in BOOLEAN
  OBVIOUS
<1>3. IsRows(live) /\ IsRows(data)
  BY NoRowsFacts, KnownFacts
<1>4. TypeOK
  BY <1>1, <1>2, <1>3 DEF TypeOK, AdminPC
<1>5. FlushInv /\ DirInv /\ IndexInv /\ DataInv
  BY DEF FlushInv, DirInv, IndexInv, DataInv, Flushing, Indexing, Reindexing
<1> QED
  BY <1>4, <1>5 DEF LogInv

\* Record: the value it makes or prolongs says only what has been sent.
LEMMA RecordFacts ==
    ASSUME TypeOK, NEW v, NEW t, NEW d, <<v, t, d>> \in Inputs, Record(v, t, d)
    PROVE  /\ IsRows(live)'
           /\ log' \in Seq(Known')
           /\ Len(log') = Len(log) + 1
           /\ Len(log) \in Nat
           /\ sent \subseteq sent' /\ sent' \subseteq Points
           /\ RowChanges(live) \subseteq RowChanges(live')
           /\ Changes(log') \subseteq Changes(log) \cup RowChanges(live')
<1> DEFINE x == [var |-> v, ts |-> t, end |-> NoTime, d |-> d]
<1>1. v \in Vars /\ t \in Times /\ d \in Numbers
  <2>1. <<v, t, d>> \in Vars \X Times \X Numbers
    BY InputsAssumption DEF Points
  <2> QED
    BY <2>1
<1>2. sent' = sent \cup {<<v, t, d>>}
  BY DEF Record
<1>3. sent \subseteq sent' /\ sent' \subseteq Points
  BY <1>2, InputsAssumption DEF TypeOK
<1>4. x \in KnownIn(sent') /\ x.var = v
  <2>1. x \in Values
    BY <1>1, ConstantsAssumption DEF Values, NoTime
  <2>2. PointsOf(x) = {<<v, t, d>>}
    BY DEF PointsOf, Change, NoTime
  <2> QED
    BY <1>2, <2>1, <2>2 DEF KnownIn
<1>5. RowsIn(live, sent')
  <2>1. RowsIn(live, sent) /\ KnownIn(sent) \subseteq KnownIn(sent')
    BY <1>3, KnownFacts DEF TypeOK
  <2>2. \A w \in Vars : live[w] \in Seq(KnownIn(sent'))
    BY <2>1, SeqMonotonic DEF RowsIn
  <2> QED
    BY <2>1, <2>2 DEF RowsIn
<1> HIDE DEF x
<1>6. /\ live' = [live EXCEPT ![x.var] = Encode(live[x.var], x)]
      /\ log' = Append(log, live'[x.var][Len(live'[x.var])])
  <2>1. live' = [live EXCEPT ![v] = Encode(live[v], x)]
    BY DEF Record, x
  <2>2. live'[v] = Encode(live[v], x)
    BY <1>1, <1>5, <2>1 DEF RowsIn
  <2>3. log' = Append(log, Encode(live[v], x)[Len(Encode(live[v], x))])
    BY DEF Record, x
  <2> QED
    BY <1>4, <2>1, <2>2, <2>3
<1> DEFINE y == live'[x.var][Len(live'[x.var])]
<1>7. /\ RowsIn(live', sent')
      /\ RowChanges(live) \subseteq RowChanges(live')
      /\ y \in KnownIn(sent')
      /\ Change(y) \in RowChanges(live')
  BY <1>4, <1>5, <1>6, RowFacts
<1> HIDE DEF y
<1>8. log \in Seq(KnownIn(sent'))
  BY <1>3, KnownFacts, SeqMonotonic DEF TypeOK
<1>9. log' = Append(log, y)
  BY <1>6 DEF y
<1>10. /\ log' \in Seq(KnownIn(sent')) /\ Len(log') = Len(log) + 1
       /\ Len(log) \in Nat
  BY <1>7, <1>8, <1>9, AppendProperties, LenProperties
<1>11. Changes(log') = Changes(log) \cup {Change(y)}
  BY <1>7, <1>8, <1>9, ChangesFacts
<1>12. IsRows(live)' /\ Known' = KnownIn(sent')
  BY <1>7, KnownFacts
<1> QED
  BY <1>3, <1>7, <1>10, <1>11, <1>12

\* Every action keeps every variable in its type.
LEMMA TypeStep == LogInv /\ [Next]_vars => TypeOK'
<1> SUFFICES ASSUME LogInv, [Next]_vars PROVE TypeOK'
  OBVIOUS
<1>a. TypeOK /\ FlushInv /\ DirInv /\ IndexInv
  BY DEF LogInv
<1>k. sent' = sent => Known' = Known
  BY KnownFacts
<1>n. /\ <<>> \in Seq(Known) /\ Len(<<>>) = 0
      /\ Len(log) \in Nat
      /\ \A i \in 1..Len(log) : log[i] \in Known
      /\ \A P : RowsIn(NoRows, P)
  BY <1>a, EmptySeq, LenProperties, ElementOfSeq, NoRowsFacts DEF TypeOK
\* The steps that change no sequence and no row.
<1>q. ASSUME UNCHANGED <<live, log, data, rest, cur, files, indexed, sent>>
      PROVE  /\ IsRows(live)' /\ IsRows(data)'
             /\ log' \in Seq(Known') /\ rest' \in Seq(Known')
             /\ cur' \in Seq(Known')
             /\ files' \in [Names -> Seq(Known')]
             /\ indexed' \in [0..MaxTime -> Seq(Known')]
  BY <1>a, <1>q, QuietTypes
<1>r. sent' = sent => /\ live' = live => IsRows(live)'
                      /\ data' = data => IsRows(data)'
                      /\ live' = NoRows => IsRows(live)'
                      /\ data' = NoRows => IsRows(data)'
  BY <1>a, <1>n, KnownFacts DEF TypeOK
<1> USE ConstantsAssumption
        DEF TypeOK, AdminPC, memVars, flushVars, indexVars, replayVars,
            curVars, dirVars, histVars
<1>1. ASSUME NEW c \in Inputs, Record(c[1], c[2], c[3])
      PROVE  TypeOK'
  <2> DEFINE v == c[1]
             t == c[2]
             d == c[3]
  <2>1. <<v, t, d>> \in Inputs
    <3>1. c \in Vars \X Times \X Numbers
      BY InputsAssumption DEF Points
    <3>2. c = <<v, t, d>>
      BY <3>1
    <3> QED
      BY <3>2
  <2>2. /\ IsRows(live)' /\ log' \in Seq(Known')
        /\ Len(log') = Len(log) + 1 /\ Len(log) \in Nat
        /\ sent \subseteq sent' /\ sent' \subseteq Points
    BY <1>a, <1>1, <2>1, RecordFacts
  <2>3. Known \subseteq Known' /\ IsRows(data)'
    <3>1. Known \subseteq Known'
      BY <2>2, KnownFacts
    <3>2. data' = data
      BY <1>1 DEF Record
    <3>3. \A w \in Vars : data[w] \in Seq(Known')
      BY <1>a, <3>1, SeqMonotonic DEF IsRows
    <3> QED
      BY <1>a, <3>1, <3>2, <3>3 DEF IsRows
  <2>4. /\ rest' \in Seq(Known') /\ cur' \in Seq(Known')
        /\ files' \in [Names -> Seq(Known')]
        /\ indexed' \in [0..MaxTime -> Seq(Known')]
    <3>1. UNCHANGED <<rest, cur, files, indexed>>
      BY <1>1 DEF Record
    <3>2. rest \in Seq(Known') /\ cur \in Seq(Known')
      BY <1>a, <2>3, SeqMonotonic
    <3>3. \A f \in Names : files[f] \in Seq(Known')
      BY <1>a, <2>3, SeqMonotonic
    <3>4. \A u \in 0..MaxTime : indexed[u] \in Seq(Known')
      BY <1>a, <2>3, SeqMonotonic
    <3> QED
      BY <1>a, <3>1, <3>2, <3>3, <3>4
  <2>5. done' \in 0..Len(log') /\ records' \in 0..MaxRecords
    BY <1>a, <1>1, <2>2 DEF Record
  <2>6. wrote' \subseteq sent' /\ promised' \subseteq sent'
    BY <1>a, <1>1, <2>2 DEF Record
  <2> QED
    BY <1>a, <1>1, <2>2, <2>3, <2>4, <2>5, <2>6 DEF Record
<1>2. CASE AdminStep
  <2>1. CASE FlushStart
    <3>1. mutex' \in BOOLEAN
      BY <2>1 DEF FlushStart
    <3> QED
      BY <1>a, <1>q, <2>1, <3>1 DEF FlushStart
  <2>2. CASE FlushWrite
    <3>1. done + 1 \in 1..Len(log)
      BY <1>a, <1>n, <2>2 DEF FlushWrite
    <3>2. log[done + 1] \in Known /\ Change(log[done + 1]) \in sent
      BY <1>n, <3>1 DEF Known, PointsOf
    <3>3. cur' \in Seq(Known) /\ wrote' \subseteq sent
      <4>1. Append(cur, log[done + 1]) \in Seq(Known)
        BY <1>a, <3>2, AppendProperties
      <4> QED
        BY <1>a, <2>2, <3>2, <4>1 DEF FlushWrite
    <3>4. UNCHANGED <<mode, memVars, mutex, shutdown, apc, indexVars,
                      replayVars, torn, dirVars, indexed, histVars, damaged,
                      rotations, crashes, errors>> /\ done' = done + 1
      BY <2>2 DEF FlushWrite
    <3> QED
      BY <1>a, <1>k, <1>r, <3>1, <3>3, <3>4
  <2>3. CASE FlushFail
    <3>1. torn' \in BOOLEAN
      BY <2>3 DEF FlushFail
    <3> QED
      BY <1>a, <1>q, <2>3, <3>1 DEF FlushFail, Error
  <2>4. CASE FlushErase
    <3>1. log' \in Seq(Known) /\ Len(log') \in Nat
      BY <1>a, <2>4, EraseFacts, LenProperties DEF FlushErase
    <3>2. /\ promised' \subseteq sent /\ done' = 0 /\ wrote' = {}
          /\ mutex' = FALSE /\ apc' = "rotate"
      BY <1>a, <2>4 DEF FlushErase
    <3>3. UNCHANGED <<mode, live, shutdown, indexVars, replayVars, curVars,
                      dirVars, indexed, records, sent, damaged, rotations,
                      crashes, errors>>
      BY <2>4 DEF FlushErase
    <3>4. done' \in 0..Len(log')
      BY <3>1, <3>2
    <3> QED
      BY <1>a, <1>k, <1>r, <3>1, <3>2, <3>3, <3>4
  <2>5. CASE RotateNot
    BY <1>a, <1>q, <2>5 DEF RotateNot
  <2>6. CASE RotateRename
    <3>1. moved' \in BOOLEAN
      BY <2>6 DEF RotateRename
    <3>2. rotations' \in 0..MaxRotations
      BY <1>a, <2>6 DEF RotateRename, Names
    <3>3. cur' \in Seq(Known) /\ files' \in [Names -> Seq(Known)]
      BY <1>a, <1>n, <2>6 DEF RotateRename
    <3> QED
      BY <1>a, <1>k, <1>r, <2>6, <3>1, <3>2, <3>3 DEF RotateRename
  <2>7. CASE RotateRenameFail
    BY <1>a, <1>q, <2>7 DEF RotateRenameFail, Error
  <2>8. CASE RotateCreate
    <3>1. damaged' \in BOOLEAN
      BY <2>8 DEF RotateCreate
    <3> QED
      BY <1>a, <1>k, <1>n, <1>r, <2>8, <3>1 DEF RotateCreate
  <2>9. CASE ReindexRecordLog
    BY <1>a, <1>q, <2>9 DEF ReindexRecordLog
  <2>10. CASE ReindexFile
    <3> DEFINE f == First(todo)
    <3>1. f \in todo /\ f \in Names
      BY <1>a, <2>10, FirstFacts DEF ReindexFile
    <3>2. todo' = todo \ {f} /\ input' = f
      BY <2>10 DEF ReindexFile
    <3> HIDE DEF f
    <3> QED
      BY <1>a, <1>k, <1>r, <2>10, <3>1, <3>2 DEF ReindexFile
  <2>11. CASE ReindexRead
    <3> DEFINE x == files[input][pos + 1]
    <3>1. x \in Known
      <4>1. files[input] \in Seq(Known)
        BY <1>a, <2>11 DEF ReindexRead, IndexInv, Reindexing
      <4>2. pos + 1 \in 1..Len(files[input])
        BY <1>a, <2>11, <4>1, LenProperties DEF ReindexRead
      <4> QED
        BY <4>1, <4>2, ElementOfSeq
    <3>2. data' = [data EXCEPT ![x.var] = Encode(data[x.var], x)]
      BY <2>11 DEF ReindexRead
    <3> HIDE DEF x
    <3>3. RowsIn(data, sent) /\ x \in KnownIn(sent)
      BY <1>a, <3>1, KnownFacts
    <3>4. RowsIn(data', sent)
      BY <3>2, <3>3, RowFacts
    <3>5. IsRows(data)' /\ damaged' \in BOOLEAN
      BY <2>11, <3>4, KnownFacts DEF ReindexRead
    <3> QED
      BY <1>a, <1>k, <1>r, <2>11, <3>5 DEF ReindexRead
  <2>12. CASE IndexOpen
    <3>1. New(input) \in Names
      <4>1. input \in Names /\ input[2] <= crashes + errors
        BY <1>a, <2>12 DEF IndexOpen, IndexInv, Reindexing
      <4>2. input[2] <= MaxCrashes + MaxErrors
        BY <1>a, <4>1, NewFacts
      <4> QED
        BY <4>1, <4>2, NewFacts
    <3>2. /\ exist' \subseteq Names /\ files' \in [Names -> Seq(Known)]
          /\ rows' \subseteq Vars /\ apc' \in AdminPC
          /\ input' \in Names \cup {NoName} /\ pos' \in Nat
          /\ data' \in {data, NoRows}
      <4>1. CASE New(input) \in exist
        BY <1>a, <2>12, <4>1 DEF IndexOpen
      <4>2. CASE New(input) \notin exist
        <5>1. /\ exist' = exist \cup {New(input)}
              /\ files' = [files EXCEPT ![New(input)] = <<>>]
              /\ rows' = {v \in Vars : data[v] # <<>>}
              /\ apc' = "index"
              /\ UNCHANGED <<input, pos, data>>
          BY <2>12, <4>2 DEF IndexOpen
        <5> QED
          BY <1>a, <1>n, <3>1, <5>1
      <4> QED
        BY <4>1, <4>2
    <3> QED
      BY <1>a, <1>k, <1>r, <2>12, <3>2 DEF IndexOpen
  <2>13. ASSUME NEW v \in Vars, IndexWrite(v)
         PROVE  TypeOK'
    <3>1. New(input) \in Names /\ files[New(input)] \in Seq(Known)
      BY <1>a, <2>13 DEF IndexWrite, IndexInv, Indexing
    <3>2. files[New(input)] \o data[v] \in Seq(Known)
      BY <1>a, <3>1, ConcatProperties DEF IsRows
    <3>3. files' \in [Names -> Seq(Known)]
      BY <1>a, <2>13, <3>2 DEF IndexWrite
    <3> QED
      BY <1>a, <1>k, <1>r, <2>13, <3>3 DEF IndexWrite
  <2>14. CASE IndexFail
    BY <1>a, <1>k, <1>r, <2>14 DEF IndexFail, Error
  <2>15. CASE IndexUnlink
    <3>1. moved' \in BOOLEAN
      BY <2>15 DEF IndexUnlink
    <3>2. files' \in [Names -> Seq(Known)]
      BY <1>a, <1>n, <2>15 DEF IndexUnlink
    <3> QED
      BY <1>a, <1>k, <1>r, <2>15, <3>1, <3>2 DEF IndexUnlink
  <2>16. CASE IndexRename
    <3>1. moved' \in BOOLEAN /\ damaged' \in BOOLEAN
      BY <2>16 DEF IndexRename
    <3>2. files[New(input)] \in Seq(Known)
      BY <1>a, <2>16 DEF IndexRename, IndexInv, Indexing
    <3>3. indexed' \in [0..MaxTime -> Seq(Known)]
      BY <1>a, <2>16, <3>2 DEF IndexRename
    <3>4. files' \in [Names -> Seq(Known)] /\ exist' \subseteq Names
      BY <1>a, <1>n, <2>16 DEF IndexRename
    <3> QED
      BY <1>a, <1>k, <1>r, <2>16, <3>1, <3>3, <3>4 DEF IndexRename
  <2>17. CASE Sleep
    <3>1. log' \in Seq(Known) /\ done' \in 0..Len(log')
      BY <1>a, <1>n, <2>17 DEF Sleep, FlushInv, Flushing
    <3>2. live' \in {live, NoRows}
      BY <2>17 DEF Sleep
    <3> QED
      BY <1>a, <1>k, <1>r, <2>17, <3>1, <3>2 DEF Sleep
  <2> QED
    BY <1>2, <2>1, <2>2, <2>3, <2>4, <2>5, <2>6, <2>7, <2>8, <2>9, <2>10,
       <2>11, <2>12, <2>13, <2>14, <2>15, <2>16, <2>17 DEF AdminStep
<1>3. CASE ReplayStep
  <2>1. CASE ReplayGlob
    BY <1>a, <1>q, <2>1 DEF ReplayGlob
  <2>2. CASE ReplayFile
    <3> DEFINE f == First(replay)
    <3>1. \/ /\ f \in exist /\ rest' = files[f] /\ replay' = replay \ {f}
             /\ UNCHANGED <<mode, rpc>>
          \/ mode' = "up" /\ replay' = {} /\ rpc' = "glob" /\ UNCHANGED rest
      BY <2>2 DEF ReplayFile
    <3> HIDE DEF f
    <3>2. rest' \in Seq(Known)
      BY <1>a, <3>1
    <3> QED
      BY <1>a, <1>k, <1>r, <2>2, <3>1, <3>2 DEF ReplayFile
  <2>3. CASE ReplayLast
    BY <1>a, <1>k, <1>r, <2>3 DEF ReplayLast
  <2>4. CASE ReplayRead
    <3> DEFINE x == Head(rest)
    <3>1. x \in Known /\ rest' \in Seq(Known)
      BY <1>a, <2>4, HeadFacts DEF ReplayRead
    <3>2. live' = [live EXCEPT ![x.var] = Encode(live[x.var], x)]
      BY <2>4 DEF ReplayRead
    <3> HIDE DEF x
    <3>3. RowsIn(live, sent) /\ x \in KnownIn(sent)
      BY <1>a, <3>1, KnownFacts
    <3>4. RowsIn(live', sent)
      BY <3>2, <3>3, RowFacts
    <3>5. IsRows(live)' /\ joined' \in BOOLEAN
      BY <2>4, <3>4, KnownFacts DEF ReplayRead
    <3> QED
      BY <1>a, <1>k, <1>r, <2>4, <3>1, <3>5 DEF ReplayRead
  <2>5. CASE ReplayDone
    BY <1>a, <1>q, <2>5 DEF ReplayDone
  <2> QED
    BY <1>3, <2>1, <2>2, <2>3, <2>4, <2>5 DEF ReplayStep
<1>4. CASE Shutdown
  BY <1>a, <1>q, <1>4 DEF Shutdown
<1>5. CASE Crash
  <2>1. torn' \in BOOLEAN
    BY <1>5 DEF Crash
  <2>2. log' = <<>> /\ rest' = <<>> /\ done' = 0
    BY <1>5 DEF Crash
  <2>3. done' \in 0..Len(log')
    BY <1>n, <2>2
  <2>4. /\ mode' = "down" /\ live' = NoRows /\ mutex' = FALSE /\ shutdown' = FALSE
        /\ apc' = "top" /\ wrote' = {} /\ todo' = {} /\ input' = NoName
        /\ pos' = 0 /\ data' = NoRows /\ rows' = {} /\ rpc' = "glob"
        /\ replay' = {} /\ moved' = FALSE /\ joined' = FALSE
        /\ crashes' = crashes + 1 /\ crashes < MaxCrashes
        /\ UNCHANGED <<cur, dirVars, indexed, histVars, damaged, rotations,
                       errors>>
    BY <1>5 DEF Crash
  <2>5. /\ mutex' \in BOOLEAN /\ shutdown' \in BOOLEAN /\ moved' \in BOOLEAN
        /\ joined' \in BOOLEAN /\ damaged' \in BOOLEAN
    BY <1>a, <2>4
  <2>6. /\ IsRows(live)' /\ IsRows(data)'
        /\ log' \in Seq(Known') /\ rest' \in Seq(Known')
        /\ cur' \in Seq(Known')
        /\ files' \in [Names -> Seq(Known')]
        /\ indexed' \in [0..MaxTime -> Seq(Known')]
    BY <1>a, <1>k, <1>n, <1>r, <2>2, <2>4
  <2>7. crashes' \in 0..MaxCrashes
    BY <1>a, <2>4
  <2> QED
    BY <1>a, <2>1, <2>3, <2>4, <2>5, <2>6, <2>7
<1>6. CASE Start
  BY <1>a, <1>k, <1>n, <1>r, <1>6 DEF Start
<1>7. CASE UNCHANGED vars
  BY <1>a, <1>q, <1>7 DEF vars
<1> QED
  BY <1>1, <1>2, <1>3, <1>4, <1>5, <1>6, <1>7 DEF Next

\* What Flush counts and has written is in order after every step.
LEMMA FlushStep == LogInv /\ [Next]_vars => FlushInv'
<1> SUFFICES ASSUME LogInv, [Next]_vars PROVE FlushInv'
  OBVIOUS
<1>a. TypeOK /\ FlushInv
  BY DEF LogInv
<1> USE DEF FlushInv, Flushing, flushVars, curVars
<1>1. ASSUME NEW c \in Inputs, Record(c[1], c[2], c[3])
      PROVE  FlushInv'
  BY <1>a, <1>1 DEF Record
<1>2. CASE FlushWrite
  <2>1. CASE UNCHANGED <<cur, wrote>>
    BY <1>a, <1>2, <2>1 DEF FlushWrite
  <2>2. CASE /\ cur' = Append(cur, log[done + 1])
             /\ wrote' = wrote \cup {Change(log[done + 1])}
    <3>1. log[done + 1] \in Known
      <4>1. Len(log) \in Nat
        BY <1>a, LenProperties DEF TypeOK
      <4>2. done + 1 \in 1..Len(log)
        BY <1>a, <1>2, <4>1 DEF FlushWrite, TypeOK
      <4> QED
        BY <1>a, <4>2, ElementOfSeq DEF TypeOK
    <3>2. Changes(cur') = Changes(cur) \cup {Change(log[done + 1])}
      BY <1>a, <2>2, <3>1, ChangesFacts DEF TypeOK
    <3> QED
      BY <1>a, <1>2, <2>2, <3>2 DEF FlushWrite
  <2> QED
    BY <1>2, <2>1, <2>2 DEF FlushWrite
<1>3. CASE FlushErase
  BY <1>a, <1>3 DEF FlushErase
<1>4. CASE FlushStart \/ FlushFail
  BY <1>a, <1>4 DEF FlushStart, FlushFail
<1>5. ASSUME UNCHANGED flushVars, apc \notin Flushing, apc' \notin Flushing
      PROVE  FlushInv'
  BY <1>a, <1>5
<1>6. CASE AdminStep /\ ~ FlushWrite /\ ~ FlushErase /\ ~ FlushStart /\ ~ FlushFail
  BY <1>5, <1>6 DEF AdminStep, RotateNot, RotateRename, RotateRenameFail,
     RotateCreate, ReindexRecordLog, ReindexFile, ReindexRead, IndexOpen,
     IndexWrite, IndexFail, IndexUnlink, IndexRename, Sleep
<1>7. CASE ReplayStep \/ Shutdown \/ Start \/ UNCHANGED vars
  <2>1. UNCHANGED <<apc, flushVars, curVars>>
    BY <1>7 DEF ReplayStep, ReplayGlob, ReplayFile, ReplayLast, ReplayRead,
                ReplayDone, Shutdown, Start, vars
  <2> QED
    BY <1>a, <2>1
<1>8. CASE Crash
  BY <1>a, <1>8 DEF Crash
<1> QED
  BY <1>1, <1>2, <1>3, <1>4, <1>6, <1>7, <1>8 DEF Next

\* The counters and names of TypeOK.
LEMMA NumberTypes ==
    /\ TypeOK => /\ crashes \in Nat /\ errors \in Nat /\ rotations \in Nat
                 /\ crashes <= MaxCrashes /\ errors <= MaxErrors
                 /\ exist \subseteq Names /\ todo \subseteq Names
    /\ TypeOK' => crashes' \in Nat /\ errors' \in Nat
    /\ \A f \in Names : f[1] \in Nat /\ f[2] \in Nat
<1>1. TypeOK => /\ crashes \in 0..MaxCrashes /\ errors \in 0..MaxErrors
                /\ rotations \in 0..MaxRotations
                /\ exist \subseteq Names /\ todo \subseteq Names
  BY DEF TypeOK
<1>2. TypeOK' => crashes' \in 0..MaxCrashes /\ errors' \in 0..MaxErrors
  BY DEF TypeOK
<1>3. \A f \in Names : f[1] \in Nat /\ f[2] \in Nat
  BY ConstantsAssumption DEF Names
<1> QED
  BY <1>1, <1>2, <1>3, ConstantsAssumption

\* What a step preserves when it leaves the rotated files and ReindexRecordLog
\* alone.
LEMMA QuietStep ==
    ASSUME TypeOK, TypeOK', DirInv, IndexInv,
           UNCHANGED <<exist, todo, input, rotations>>,
           crashes <= crashes', errors <= errors',
           UNCHANGED apc \/ {apc, apc'} \cap Reindexing = {}
    PROVE  DirInv' /\ IndexInv'
<1>1. /\ crashes \in Nat /\ errors \in Nat
      /\ crashes' \in Nat /\ errors' \in Nat
      /\ exist \subseteq Names /\ todo \subseteq Names
      /\ \A f \in Names : f[2] \in Nat
  BY NumberTypes
<1>2. DirInv'
  <2>1. apc \in Indexing => apc' = apc
    BY DEF Indexing, Reindexing
  <2>2. \A f \in Names : f[2] <= crashes + errors => f[2] <= crashes' + errors'
    BY <1>1
  <2> QED
    BY <1>1, <2>1, <2>2 DEF DirInv
<1>3. IndexInv'
  <2>1. CASE apc' \notin Reindexing
    BY <2>1 DEF IndexInv, Indexing, Reindexing
  <2>2. CASE apc' = apc /\ apc \in Reindexing
    <3>1. input \in Names /\ input[2] <= crashes + errors
      BY <2>2 DEF IndexInv
    <3>2. input[2] <= crashes' + errors'
      BY <1>1, <3>1
    <3> QED
      BY <2>2, <3>2 DEF IndexInv
  <2> QED
    BY <2>1, <2>2
<1> QED
  BY <1>2, <1>3

\* Rotation, reindexing, crashes and restarts preserve what is said of the
\* names in the directory.
LEMMA DirStep == LogInv /\ TypeOK' /\ [Next]_vars => DirInv' /\ IndexInv'
<1> SUFFICES ASSUME LogInv, TypeOK', [Next]_vars
             PROVE  DirInv' /\ IndexInv'
  OBVIOUS
<1>a. TypeOK /\ DirInv /\ IndexInv /\ TypeOK'
  BY DEF LogInv
<1>b. /\ crashes \in Nat /\ errors \in Nat /\ rotations \in Nat
      /\ crashes <= MaxCrashes /\ errors <= MaxErrors
      /\ \A f \in Names : f[1] \in Nat /\ f[2] \in Nat
      /\ exist \subseteq Names /\ todo \subseteq Names
  BY <1>a, NumberTypes
<1> USE DEF indexVars, dirVars, Indexing, Reindexing
<1>1. ASSUME NEW c \in Inputs, Record(c[1], c[2], c[3])
      PROVE  DirInv' /\ IndexInv'
  BY <1>a, <1>b, <1>1, QuietStep DEF Record
<1>2. CASE AdminStep
  <2>1. CASE FlushStart \/ FlushWrite \/ FlushErase \/ RotateNot
             \/ RotateCreate \/ Sleep \/ FlushFail \/ RotateRenameFail
    <3>1. /\ UNCHANGED <<exist, todo, input, rotations>>
          /\ crashes' = crashes /\ errors' \in {errors, errors + 1}
          /\ UNCHANGED apc \/ {apc, apc'} \cap Reindexing = {}
      BY <2>1 DEF FlushStart, FlushWrite, FlushErase, RotateNot, RotateCreate,
                  Sleep, FlushFail, RotateRenameFail, Error
    <3>2. crashes <= crashes' /\ errors <= errors'
      BY <1>b, <3>1
    <3> QED
      BY <1>a, <3>1, <3>2, QuietStep
  \* The new file is the one of a rotation that there was not yet.
  <2>2. CASE RotateRename
    <3>1. /\ exist' = exist \cup {<<rotations + 1, 0>>}
          /\ rotations' = rotations + 1
          /\ UNCHANGED <<todo, input, crashes, errors>>
          /\ apc = "rotate" /\ apc' = "create"
      BY <2>2 DEF RotateRename
    <3> QED
      BY <1>a, <1>b, <3>1 DEF DirInv, IndexInv
  <2>3. CASE ReindexRecordLog
    BY <1>a, <1>b, <2>3 DEF ReindexRecordLog, DirInv, IndexInv
  <2>4. CASE ReindexFile
    <3> DEFINE f == First(todo)
    <3>1. f \in todo /\ f \in exist /\ f \in Names
      BY <1>a, <2>4, FirstFacts DEF ReindexFile, TypeOK, DirInv
    <3>2. /\ apc = "reindex" /\ apc' = "read" /\ todo' = todo \ {f}
          /\ input' = f /\ UNCHANGED <<exist, rotations, crashes, errors>>
      BY <2>4 DEF ReindexFile
    <3> HIDE DEF f
    <3> QED
      BY <1>a, <3>1, <3>2 DEF DirInv, IndexInv
  <2>5. CASE ReindexRead
    BY <1>a, <1>b, <2>5, QuietStep DEF ReindexRead
  \* The output of WriteIndexedFile may have one ".new" more than all others.
  <2>6. CASE IndexOpen
    <3>1. apc = "read" /\ UNCHANGED <<todo, rotations, crashes, errors>>
      BY <2>6 DEF IndexOpen
    <3>2. /\ input \in Names /\ input \in exist /\ input \notin todo
          /\ input[2] <= crashes + errors
      BY <1>a, <3>1 DEF IndexInv
    <3>3. /\ New(input) # input /\ New(input)[1] = input[1]
          /\ New(input)[2] = input[2] + 1
      BY <3>2, NewFacts
    <3>4. CASE apc' = "reindex" /\ exist' = exist
      BY <1>a, <3>1, <3>4 DEF DirInv, IndexInv
    <3>5. CASE /\ New(input) \notin exist /\ exist' = exist \cup {New(input)}
               /\ apc' = "index" /\ UNCHANGED input
      <4>1. DirInv'
        BY <1>a, <1>b, <3>1, <3>2, <3>3, <3>5 DEF DirInv
      <4>2. IndexInv'
        BY <1>a, <3>1, <3>2, <3>5 DEF IndexInv, DirInv
      <4> QED
        BY <4>1, <4>2
    <3> QED
      BY <2>6, <3>4, <3>5 DEF IndexOpen
  <2>7. ASSUME NEW v \in Vars, IndexWrite(v)
        PROVE  DirInv' /\ IndexInv'
    BY <1>a, <1>b, <2>7, QuietStep DEF IndexWrite
  \* What is left over is one of the names that an error makes possible.
  <2>8. CASE IndexFail
    <3>1. /\ input \in Names /\ New(input) \in exist /\ errors' = errors + 1
          /\ input[2] <= crashes + errors
      BY <1>a, <2>8 DEF IndexFail, IndexInv, Error
    <3>2. New(input)[2] <= crashes + errors + 1
      BY <1>b, <3>1, NewFacts
    <3>3. DirInv'
      BY <1>a, <1>b, <2>8, <3>1, <3>2 DEF IndexFail, DirInv
    <3>4. IndexInv'
      BY <2>8 DEF IndexFail, IndexInv
    <3> QED
      BY <3>3, <3>4
  <2>9. CASE IndexUnlink
    <3>1. New(input) # input /\ input \notin todo
      BY <1>a, <2>9, NewFacts DEF IndexUnlink, IndexInv
    <3> QED
      BY <1>a, <2>9, <3>1 DEF IndexUnlink, DirInv, IndexInv
  <2>10. CASE IndexRename
    <3>1. /\ exist' = exist \ {New(input)} /\ apc = "rename" /\ apc' = "reindex"
          /\ UNCHANGED <<todo, rotations, crashes, errors>>
      BY <2>10 DEF IndexRename
    <3>2. New(input) \notin todo
      BY <1>a, <3>1 DEF IndexInv
    <3> QED
      BY <1>a, <3>1, <3>2 DEF DirInv, IndexInv
  <2> QED
    BY <1>2, <2>1, <2>2, <2>3, <2>4, <2>5, <2>6, <2>7, <2>8, <2>9, <2>10
       DEF AdminStep
<1>3. CASE ReplayStep \/ Shutdown \/ Start \/ UNCHANGED vars
  <2>1. /\ UNCHANGED <<apc, exist, todo, input, rotations, errors>>
        /\ crashes' \in {crashes, crashes + 1}
    BY <1>3 DEF ReplayStep, ReplayGlob, ReplayFile, ReplayLast, ReplayRead,
                ReplayDone, Shutdown, Start, vars
  <2>2. crashes <= crashes' /\ errors <= errors'
    BY <1>b, <2>1
  <2> QED
    BY <1>a, <2>1, <2>2, QuietStep
\* As with an error, the output of WriteIndexedFile is left over.
<1>4. CASE Crash
  <2>1. IndexInv'
    BY <1>4 DEF Crash, IndexInv
  <2>2. crashes' = crashes + 1 /\ todo' = {}
        /\ UNCHANGED <<exist, rotations, errors>>
    BY <1>4 DEF Crash
  <2>3. ASSUME NEW f \in exist
        PROVE  f[2] <= crashes + 1 + errors
    <3>1. f \in Names
      BY <1>a DEF TypeOK
    <3>2. CASE f[2] <= crashes + errors
      BY <1>b, <3>1, <3>2
    <3>3. CASE apc \in Indexing /\ f = New(input)
      <4>1. input \in Names /\ input[2] <= crashes + errors
        BY <1>a, <3>3 DEF IndexInv
      <4> QED
        BY <1>b, <3>3, <4>1, NewFacts
    <3> QED
      BY <1>a, <3>2, <3>3 DEF DirInv
  <2>4. DirInv'
    BY <1>a, <2>2, <2>3 DEF DirInv
  <2> QED
    BY <2>1, <2>4
<1> QED
  BY <1>1, <1>2, <1>3, <1>4 DEF Next

\* The part of the invariant that the types and the names need is inductive.
LEMMA LogStep == LogInv /\ [Next]_vars => LogInv'
  BY TypeStep, FlushStep, DirStep DEF LogInv

\* The type invariant of RecordLog holds in every reachable state.
THEOREM TypeCorrect == Spec => []TypeOK
<1>1. Init => LogInv
  BY LogInit
<1>2. LogInv => TypeOK
  BY DEF LogInv
<1> QED
  BY <1>1, <1>2, LogStep, PTL DEF Spec

-----------------------------------------------------------------------------
(***************************************************************************)
(* Reindexing.                                                             *)
(***************************************************************************)

\* The sequences and rows of TypeOK.
LEMMA SeqTypes ==
    ASSUME TypeOK
    PROVE  /\ Known = KnownIn(sent)
           /\ log \in Seq(Known) /\ rest \in Seq(Known) /\ cur \in Seq(Known)
           /\ files \in [Names -> Seq(Known)]
           /\ indexed \in [0..MaxTime -> Seq(Known)]
           /\ RowsIn(live, sent) /\ RowsIn(data, sent)
  BY KnownFacts DEF TypeOK

\* What a step preserves when it leaves the rotated files and ReindexRecordLog
\* alone.
LEMMA QuietData ==
    ASSUME DataInv, UNCHANGED <<files, input, pos, data, rows, damaged>>,
           UNCHANGED apc \/ {apc, apc'} \cap Reindexing = {}
    PROVE  DataInv'
  BY DEF DataInv, Reindexing

\* Reading a record keeps the changes that have been read, or splices.
LEMMA ReadFacts ==
    ASSUME LogInv, ReindexRead
    PROVE  LET x == files[input][pos + 1] IN
           /\ input \in Names /\ files[input] \in Seq(Known)
           /\ pos + 1 \in 1..Len(files[input])
           /\ RowChanges(data) \subseteq RowChanges(data')
           /\ RowChanges(data') \subseteq RowChanges(data) \cup {Change(x)}
           /\ damaged' \/ Change(x) \in RowChanges(data')
<1> DEFINE x == files[input][pos + 1]
<1>1. TypeOK /\ IndexInv
  BY DEF LogInv
<1>2. input \in Names /\ files[input] \in Seq(Known) /\ Known = KnownIn(sent)
  BY <1>1, SeqTypes DEF ReindexRead, IndexInv, Reindexing
<1>3. pos + 1 \in 1..Len(files[input])
  <2>1. pos \in Nat
    BY <1>1 DEF TypeOK
  <2> QED
    BY <1>2, <2>1, LenProperties DEF ReindexRead
<1>4. x \in KnownIn(sent)
  BY <1>2, <1>3, ElementOfSeq
<1>5. RowsIn(data, sent)
  BY <1>1, SeqTypes
<1>6. /\ data' = [data EXCEPT ![x.var] = Encode(data[x.var], x)]
      /\ damaged' = (damaged \/ Splices(data[x.var], x))
  BY DEF ReindexRead
<1> HIDE DEF x
<1>7. /\ RowChanges(data) \subseteq RowChanges(data')
      /\ RowChanges(data') \subseteq RowChanges(data) \cup {Change(x)}
      /\ ~ Splices(data[x.var], x) => Change(x) \in RowChanges(data')
  BY <1>4, <1>5, <1>6, RowFacts
<1> QED
  BY <1>2, <1>3, <1>6, <1>7 DEF x

\* Writing a row puts its changes into the output.
LEMMA WriteFacts ==
    ASSUME LogInv, NEW v \in Vars, IndexWrite(v)
    PROVE  /\ input \in Names /\ New(input) \in Names /\ New(input) # input
           /\ input \in exist /\ New(input) \in exist
           /\ Changes(files'[New(input)])
                 = Changes(files[New(input)]) \cup Changes(data[v])
           /\ \A f \in Names \ {New(input)} : files'[f] = files[f]
           /\ Changes(data[v]) \subseteq RowChanges(data)
<1>1. TypeOK /\ IndexInv /\ apc = "index"
  BY DEF LogInv, IndexWrite
<1>2. /\ input \in Names /\ input \in exist /\ New(input) \in exist
  BY <1>1 DEF IndexInv, Reindexing, Indexing
<1>3. exist \subseteq Names /\ files \in [Names -> Seq(Known)]
      /\ Known = KnownIn(sent) /\ RowsIn(data, sent)
  BY <1>1, NumberTypes, SeqTypes
<1>4. data[v] \in Seq(Known) /\ files[New(input)] \in Seq(Known)
  BY <1>2, <1>3 DEF RowsIn
<1>5. files' = [files EXCEPT ![New(input)] = files[New(input)] \o data[v]]
  BY DEF IndexWrite
<1>6. files'[New(input)] = files[New(input)] \o data[v]
  BY <1>2, <1>3, <1>5
<1>7. Changes(files'[New(input)]) = Changes(files[New(input)]) \cup Changes(data[v])
  BY <1>4, <1>6, ChangesFacts
<1>8. Changes(data[v]) \subseteq RowChanges(data)
  BY DEF RowChanges
<1>9. New(input) # input
  BY <1>2, NewFacts
<1>10. \A f \in Names \ {New(input)} : files'[f] = files[f]
  BY <1>3, <1>5
<1> QED
  BY <1>2, <1>3, <1>7, <1>8, <1>9, <1>10

\* Every step preserves what is said of the file that is being reindexed.
LEMMA DataStep == LogInv /\ DataInv /\ [Next]_vars => DataInv'
<1> SUFFICES ASSUME LogInv, DataInv, [Next]_vars PROVE DataInv'
  OBVIOUS
<1>a. TypeOK /\ IndexInv
  BY DEF LogInv
<1>b. files \in [Names -> Seq(Known)] /\ exist \subseteq Names
  BY <1>a, SeqTypes, NumberTypes
<1>c. ASSUME apc' \notin {"read", "index"}
      PROVE  DataInv'
  BY <1>c DEF DataInv
<1> USE DEF indexVars, dirVars
<1>1. ASSUME NEW c \in Inputs, Record(c[1], c[2], c[3])
      PROVE  DataInv'
  BY <1>1, QuietData DEF Record
<1>2. CASE AdminStep
  <2>1. CASE FlushStart \/ FlushWrite \/ FlushFail \/ FlushErase \/ RotateNot
             \/ RotateRename \/ RotateRenameFail \/ RotateCreate
             \/ ReindexRecordLog \/ IndexFail \/ IndexUnlink \/ IndexRename
             \/ Sleep
    <3>1. apc' \notin {"read", "index"}
      BY <2>1 DEF FlushStart, FlushWrite, FlushFail, FlushErase, RotateNot,
         RotateRename, RotateRenameFail, RotateCreate, ReindexRecordLog,
         IndexFail, IndexUnlink, IndexRename, Sleep
    <3> QED
      BY <1>c, <3>1
  <2>2. CASE ReindexFile
    <3>1. apc' = "read" /\ pos' = 0 /\ data' = NoRows
      BY <2>2 DEF ReindexFile
    <3>2. RowChanges(data') = {} /\ 1..0 = {}
      BY <3>1, NoRowsFacts
    <3>3. files' = files /\ input' \in Names
      <4>1. input' = First(todo) /\ todo # {} /\ todo \subseteq Names
        BY <1>a, <2>2, NumberTypes DEF ReindexFile
      <4> QED
        BY <2>2, <4>1, FirstFacts DEF ReindexFile
    <3>4. Len(files'[input']) \in Nat
      BY <1>b, <3>3, LenProperties
    <3> QED
      BY <3>1, <3>2, <3>4 DEF DataInv
  <2>3. CASE ReindexRead
    <3> DEFINE x == files[input][pos + 1]
               n == Len(files[input])
    <3>1. /\ files[input] \in Seq(Known)
          /\ pos + 1 \in 1..n
          /\ RowChanges(data) \subseteq RowChanges(data')
          /\ RowChanges(data') \subseteq RowChanges(data) \cup {Change(x)}
          /\ damaged' \/ Change(x) \in RowChanges(data')
      BY <2>3, ReadFacts
    <3>2. /\ apc = "read" /\ apc' = "read" /\ pos' = pos + 1
          /\ UNCHANGED <<files, input>>
          /\ damaged' = (damaged \/ Splices(data[x.var], x))
      BY <2>3 DEF ReindexRead
    <3>3. /\ pos <= n /\ RowChanges(data) \subseteq Changes(files[input])
          /\ damaged \/ \A i \in 1..pos : Change(files[input][i]) \in RowChanges(data)
      BY <3>2 DEF DataInv
    <3>4. pos \in Nat /\ n \in Nat
      BY <1>a, <3>1, LenProperties DEF TypeOK
    <3>5. Change(x) \in Changes(files[input])
      BY <3>1 DEF Changes
    <3>6. damaged' \/ \A i \in 1..(pos + 1) : Change(files[input][i]) \in RowChanges(data')
      <4> SUFFICES ASSUME ~ damaged', NEW i \in 1..(pos + 1)
                   PROVE  Change(files[input][i]) \in RowChanges(data')
        OBVIOUS
      <4>1. ~ damaged
        BY <3>2
      <4>2. CASE i \in 1..pos
        BY <3>1, <3>3, <4>1, <4>2
      <4>3. CASE i = pos + 1
        BY <3>1, <4>3
      <4> QED
        BY <3>4, <4>2, <4>3
    <3>7. pos + 1 <= n
      BY <3>1, <3>4
    <3>8. RowChanges(data') \subseteq Changes(files[input])
      BY <3>1, <3>3, <3>5
    <3> HIDE DEF x, n
    <3>9. damaged' \/ \A i \in 1..pos' : Change(files'[input'][i]) \in RowChanges(data')
      BY <3>2, <3>6
    <3> QED
      BY <3>2, <3>7, <3>8, <3>9 DEF DataInv, n
  <2>4. CASE IndexOpen
    <3>1. CASE New(input) \in exist
      <4>1. apc' = "reindex"
        BY <2>4, <3>1 DEF IndexOpen
      <4> QED
        BY <1>c, <4>1
    <3>2. CASE New(input) \notin exist
      <4>1. /\ apc = "read" /\ apc' = "index" /\ pos = Len(files[input])
            /\ UNCHANGED <<input, pos, data, damaged>>
            /\ rows' = {v \in Vars : data[v] # <<>>}
            /\ files' = [files EXCEPT ![New(input)] = <<>>]
        BY <2>4, <3>2 DEF IndexOpen
      <4>2. input \in Names /\ input \in exist /\ New(input) # input
        BY <1>a, <4>1, NewFacts DEF IndexInv, Reindexing
      <4>3. files'[input] = files[input]
        BY <1>b, <4>1, <4>2
      <4>4. Changes(files'[New(input)]) = {}
        <5>1. New(input) \in Names
          <6>1. input[2] <= crashes + errors
            BY <1>a, <4>1 DEF IndexInv, Reindexing
          <6>2. input[2] <= MaxCrashes + MaxErrors
            BY <1>a, <4>2, <6>1, NumberTypes, ConstantsAssumption
          <6> QED
            BY <4>2, <6>2, NewFacts
        <5>2. files'[New(input)] = <<>>
          BY <1>b, <4>1, <5>1
        <5> QED
          BY <5>2, ChangesFacts
      <4>5. \A v \in Vars \ rows' : Changes(data[v]) = {}
        BY <4>1, ChangesFacts
      <4> QED
        BY <4>1, <4>3, <4>4, <4>5 DEF DataInv
    <3> QED
      BY <3>1, <3>2
  <2>5. ASSUME NEW v \in Vars, IndexWrite(v)
        PROVE  DataInv'
    <3>1. /\ input \in Names /\ New(input) # input
          /\ Changes(files'[New(input)])
                = Changes(files[New(input)]) \cup Changes(data[v])
          /\ \A f \in Names \ {New(input)} : files'[f] = files[f]
          /\ Changes(data[v]) \subseteq RowChanges(data)
      BY <2>5, WriteFacts
    <3>2. /\ apc = "index" /\ rows' = rows \ {v}
          /\ UNCHANGED <<apc, input, pos, data, damaged>>
      BY <2>5 DEF IndexWrite
    <3>3. files'[input] = files[input]
      BY <3>1
    <3> QED
      BY <3>1, <3>2, <3>3 DEF DataInv
  <2> QED
    BY <1>2, <2>1, <2>2, <2>3, <2>4, <2>5 DEF AdminStep
<1>3. CASE ReplayStep \/ Shutdown \/ Start \/ UNCHANGED vars
  <2>1. UNCHANGED <<apc, files, input, pos, data, rows, damaged>>
    BY <1>3 DEF ReplayStep, ReplayGlob, ReplayFile, ReplayLast, ReplayRead,
                ReplayDone, Shutdown, Start, vars
  <2> QED
    BY <2>1, QuietData
<1>4. CASE Crash
  BY <1>c, <1>4 DEF Crash
<1> QED
  BY <1>1, <1>2, <1>3, <1>4 DEF Next

-----------------------------------------------------------------------------
(***************************************************************************)
(* Replaying.                                                              *)
(***************************************************************************)

\* What is in log_ is live.
LiveLog == Changes(log) \subseteq RowChanges(live)

\* What the replay has still to read of the files it has listed.
Unread == Changes(rest) \cup UNION {Changes(files[g]) : g \in replay}

\* As long as it is not disturbed, a replay finds the files it has listed, and
\* every change in a file is live or still to be read. When the last file is
\* open, all that is still to be read is in it.
ReplayInv ==
    /\ Moves /\ ~moved => replay \subseteq exist
    /\ Moves /\ ~moved /\ ~joined =>
          \A f \in exist : Changes(files[f]) \subseteq RowChanges(live) \cup Unread
    /\ mode = "replay" /\ rpc = "last" /\ ~moved /\ ~joined =>
          NotIndexed \subseteq RowChanges(live) \cup Changes(rest)

LiveInv == LiveLog /\ ReplayInv /\ ReplayComplete

\* What a step preserves when it leaves the replay alone and puts no change
\* into a file that was neither live nor in a file before.
LEMMA QuietReplay ==
    ASSUME ReplayInv, ReplayComplete, UNCHANGED <<mode, rpc, replay, rest>>,
           moved => moved', joined => joined',
           RowChanges(live) \subseteq RowChanges(live'),
           NotIndexed' \subseteq NotIndexed \cup RowChanges(live'),
           Moves /\ ~moved' =>
              /\ exist \subseteq exist'
              /\ \A g \in exist : Changes(files[g]) \subseteq Changes(files'[g])
              /\ \A f \in exist' : Changes(files'[f]) \subseteq
                    RowChanges(live') \cup UNION {Changes(files[g]) : g \in exist}
    PROVE  ReplayInv' /\ ReplayComplete'
<1>1. Moves' <=> Moves
  BY DEF Moves
<1>2. Moves' /\ ~moved' => replay' \subseteq exist'
  BY <1>1 DEF ReplayInv
<1>3. ASSUME Moves', ~moved', ~joined', NEW f \in exist'
      PROVE  Changes(files'[f]) \subseteq RowChanges(live') \cup Unread'
  <2>1. /\ replay \subseteq exist
        /\ \A g \in exist : Changes(files[g]) \subseteq RowChanges(live) \cup Unread
    BY <1>1, <1>3 DEF ReplayInv
  <2>2. \A g \in exist : Changes(files[g]) \subseteq Changes(files'[g])
    BY <1>1, <1>3
  <2>3. Unread \subseteq Unread'
    BY <2>1, <2>2 DEF Unread
  <2>4. Changes(files'[f]) \subseteq
           RowChanges(live') \cup UNION {Changes(files[g]) : g \in exist}
    BY <1>1, <1>3
  <2> QED
    BY <2>1, <2>3, <2>4
<1>4. mode' = "replay" /\ rpc' = "last" /\ ~moved' /\ ~joined' =>
         NotIndexed' \subseteq RowChanges(live') \cup Changes(rest')
  BY DEF ReplayInv
<1>5. ReplayInv'
  BY <1>2, <1>3, <1>4 DEF ReplayInv
<1>6. ReplayComplete'
  BY DEF ReplayComplete
<1> QED
  BY <1>5, <1>6

\* The same for steps that leave the files alone, too.
LEMMA QuietFiles ==
    ASSUME LiveInv, UNCHANGED <<mode, rpc, replay, rest, moved, joined, files,
                                exist, live>>,
           Changes(log') \subseteq Changes(log),
           Changes(cur') \subseteq Changes(cur) \cup RowChanges(live)
    PROVE  LiveInv'
<1>1. NotIndexed' \subseteq NotIndexed \cup RowChanges(live')
  BY DEF NotIndexed
<1>2. ReplayInv' /\ ReplayComplete'
  BY <1>1, QuietReplay DEF LiveInv
<1> QED
  BY <1>2 DEF LiveInv, LiveLog

\* One more record of a file is live, or has been spliced.
LEMMA ReplayReadFacts ==
    ASSUME LogInv, ReplayRead
    PROVE  /\ RowChanges(live) \subseteq RowChanges(live')
           /\ joined' \/ Changes(rest) \subseteq RowChanges(live') \cup Changes(rest')
           /\ joined => joined'
<1> DEFINE x == Head(rest)
<1>1. /\ rest \in Seq(Known) /\ Known = KnownIn(sent) /\ RowsIn(live, sent)
  BY SeqTypes DEF LogInv
<1>2. /\ rest # <<>> /\ rest' = Tail(rest)
      /\ live' = [live EXCEPT ![x.var] = Encode(live[x.var], x)]
      /\ joined' = (joined \/ Splices(live[x.var], x))
  BY DEF ReplayRead
<1>3. x \in KnownIn(sent) /\ Changes(rest) = {Change(x)} \cup Changes(rest')
  BY <1>1, <1>2, HeadFacts
<1> HIDE DEF x
<1>4. /\ RowChanges(live) \subseteq RowChanges(live')
      /\ ~ Splices(live[x.var], x) => Change(x) \in RowChanges(live')
  BY <1>1, <1>2, <1>3, RowFacts
<1> QED
  BY <1>2, <1>3, <1>4

\* Every step preserves the completeness of the replay.
LEMMA ReplayStepInv ==
    LogInv /\ DataInv /\ LiveInv /\ [Next]_vars => LiveInv'
<1> SUFFICES ASSUME LogInv, DataInv, LiveInv, [Next]_vars PROVE LiveInv'
  OBVIOUS
<1>a. TypeOK /\ IndexInv /\ DirInv
  BY DEF LogInv
<1>b. /\ files \in [Names -> Seq(Known)] /\ exist \subseteq Names
      /\ cur \in Seq(Known) /\ log \in Seq(Known)
  BY <1>a, SeqTypes, NumberTypes
<1> USE DEF indexVars, dirVars, memVars, replayVars, curVars
<1>1. ASSUME NEW c \in Inputs, Record(c[1], c[2], c[3])
      PROVE  LiveInv'
  <2>1. <<c[1], c[2], c[3]>> \in Inputs
    BY InputsAssumption DEF Points
  <2>2. /\ RowChanges(live) \subseteq RowChanges(live')
        /\ Changes(log') \subseteq Changes(log) \cup RowChanges(live')
    BY <1>a, <1>1, <2>1, RecordFacts
  <2>3. UNCHANGED <<mode, rpc, replay, rest, moved, joined, exist, files, cur>>
    BY <1>1 DEF Record
  <2>4. NotIndexed' = NotIndexed
    BY <2>3 DEF NotIndexed
  <2>5. ReplayInv' /\ ReplayComplete'
    BY <2>2, <2>3, <2>4, QuietReplay DEF LiveInv
  <2> QED
    BY <2>2, <2>5 DEF LiveInv, LiveLog
<1>2. CASE AdminStep
  <2>1. CASE FlushStart \/ FlushFail \/ RotateNot \/ RotateRenameFail
             \/ ReindexRecordLog \/ ReindexFile \/ ReindexRead \/ IndexFail
    BY <2>1, QuietFiles DEF FlushStart, FlushFail, RotateNot, RotateRenameFail,
       ReindexRecordLog, ReindexFile, ReindexRead, IndexFail
  \* What is written to recordlog is in log_, and live.
  <2>2. CASE FlushWrite
    <3>1. UNCHANGED <<mode, rpc, replay, rest, moved, joined, files, exist, live, log>>
      BY <2>2 DEF FlushWrite
    <3>2. Len(log) \in Nat /\ done + 1 \in 1..Len(log)
      <4>1. Len(log) \in Nat
        BY <1>b, LenProperties
      <4> QED
        BY <1>a, <2>2, <4>1 DEF FlushWrite, TypeOK
    <3>3. log[done + 1] \in Known /\ Change(log[done + 1]) \in Changes(log)
      <4>1. log[done + 1] \in Known
        BY <1>b, <3>2, ElementOfSeq
      <4> QED
        BY <3>2, <4>1 DEF Changes
    <3>4. cur' = cur \/ cur' = Append(cur, log[done + 1])
      BY <2>2 DEF FlushWrite
    <3>5. Changes(cur') \subseteq Changes(cur) \cup {Change(log[done + 1])}
      <4>1. CASE cur' = cur
        BY <4>1
      <4>2. CASE cur' = Append(cur, log[done + 1])
        <5>1. Changes(Append(cur, log[done + 1])) = Changes(cur) \cup {Change(log[done + 1])}
          BY <1>b, <3>3, ChangesFacts
        <5> QED
          BY <4>2, <5>1
      <4> QED
        BY <3>4, <4>1, <4>2
    <3>6. Changes(cur') \subseteq Changes(cur) \cup RowChanges(live)
      BY <3>3, <3>5 DEF LiveInv, LiveLog
    <3> QED
      BY <3>1, <3>6, QuietFiles
  <2>3. CASE FlushErase
    <3>1. UNCHANGED <<mode, rpc, replay, rest, moved, joined, files, exist, live, cur>>
      BY <2>3 DEF FlushErase
    <3>2. Changes(log') \subseteq Changes(log)
      <4>1. log' = SubSeq(log, done + 1, Len(log)) /\ done \in 0..Len(log)
        BY <1>a, <2>3 DEF FlushErase, TypeOK
      <4> QED
        BY <1>b, <4>1, EraseFacts
    <3> QED
      BY <3>1, <3>2, QuietFiles
  <2>4. CASE RotateCreate
    <3>1. UNCHANGED <<mode, rpc, replay, rest, moved, joined, files, exist, live, log>>
          /\ cur' = <<>>
      BY <2>4 DEF RotateCreate
    <3>2. Changes(cur') = {}
      BY <3>1, ChangesFacts
    <3> QED
      BY <3>1, <3>2, QuietFiles
  \* What was in recordlog is in the new file.
  <2>5. CASE RotateRename
    <3> DEFINE f == <<rotations + 1, 0>>
    <3>1. /\ UNCHANGED <<mode, rpc, replay, rest, joined, live, log>>
          /\ cur' = <<>> /\ exist' = exist \cup {f} /\ f \in Names
          /\ files' = [files EXCEPT ![f] = cur]
          /\ moved' = (moved \/ Moves)
      BY <2>5 DEF RotateRename
    <3> HIDE DEF f
    <3>2. /\ files'[f] = cur
          /\ \A g \in Names \ {f} : files'[g] = files[g]
          /\ Changes(cur') = {}
      BY <1>b, <3>1, ChangesFacts
    <3>3. NotIndexed' \subseteq NotIndexed
      BY <1>b, <3>1, <3>2 DEF NotIndexed
    <3>4. ReplayInv' /\ ReplayComplete'
      BY <3>1, <3>3, QuietReplay DEF LiveInv
    <3> QED
      BY <3>1, <3>4 DEF LiveInv, LiveLog
  \* A new file is empty.
  <2>6. CASE IndexOpen
    <3>1. UNCHANGED <<mode, rpc, replay, rest, moved, joined, live, log, cur>>
      BY <2>6 DEF IndexOpen
    <3>2. CASE UNCHANGED <<exist, files>>
      BY <3>1, <3>2, QuietFiles
    <3>3. CASE /\ New(input) \notin exist /\ exist' = exist \cup {New(input)}
               /\ files' = [files EXCEPT ![New(input)] = <<>>]
      <4>1. New(input) \in Names
        <5>1. input \in Names /\ input[2] <= crashes + errors
          BY <1>a, <2>6 DEF IndexOpen, IndexInv, Reindexing
        <5>2. input[2] <= MaxCrashes + MaxErrors
          BY <1>a, <5>1, NumberTypes, ConstantsAssumption
        <5> QED
          BY <5>1, <5>2, NewFacts
      <4>2. files'[New(input)] = <<>> /\ \A g \in exist : files'[g] = files[g]
        BY <1>b, <3>3, <4>1
      <4>3. Changes(files'[New(input)]) = {}
        BY <4>2, ChangesFacts
      <4>4. NotIndexed' \subseteq NotIndexed
        BY <3>1, <3>3, <4>2, <4>3 DEF NotIndexed
      <4>5. /\ exist \subseteq exist'
            /\ \A g \in exist : Changes(files[g]) \subseteq Changes(files'[g])
            /\ \A f \in exist' : Changes(files'[f]) \subseteq
                  RowChanges(live') \cup UNION {Changes(files[g]) : g \in exist}
        BY <3>3, <4>2, <4>3
      <4>6. ReplayInv' /\ ReplayComplete'
        BY <3>1, <4>4, <4>5, QuietReplay DEF LiveInv
      <4> QED
        BY <3>1, <4>6 DEF LiveInv, LiveLog
    <3> QED
      BY <2>6, <3>2, <3>3 DEF IndexOpen
  \* What is written to the output of WriteIndexedFile is in its input.
  <2>7. ASSUME NEW v \in Vars, IndexWrite(v)
        PROVE  LiveInv'
    <3>1. /\ input \in exist /\ New(input) \in exist
          /\ Changes(files'[New(input)])
                = Changes(files[New(input)]) \cup Changes(data[v])
          /\ \A f \in Names \ {New(input)} : files'[f] = files[f]
          /\ Changes(data[v]) \subseteq RowChanges(data)
      BY <2>7, WriteFacts
    <3>2. /\ UNCHANGED <<mode, rpc, replay, rest, moved, joined, live, log, cur, exist>>
          /\ apc = "index"
      BY <2>7 DEF IndexWrite
    <3>3. Changes(data[v]) \subseteq Changes(files[input])
      BY <3>1, <3>2 DEF DataInv
    <3>4. /\ \A g \in exist : Changes(files[g]) \subseteq Changes(files'[g])
          /\ \A f \in exist : Changes(files'[f])
                \subseteq Changes(files[f]) \cup Changes(files[input])
      BY <1>b, <3>1, <3>3
    <3>5. NotIndexed' \subseteq NotIndexed
      BY <3>1, <3>2, <3>4 DEF NotIndexed
    <3>6. \A f \in exist : Changes(files'[f]) \subseteq
             RowChanges(live') \cup UNION {Changes(files[g]) : g \in exist}
      BY <3>1, <3>4
    <3>7. ReplayInv' /\ ReplayComplete'
      BY <3>2, <3>4, <3>5, <3>6, QuietReplay DEF LiveInv
    <3> QED
      BY <3>2, <3>7 DEF LiveInv, LiveLog
  <2>8. CASE IndexUnlink \/ IndexRename
    <3>1. /\ UNCHANGED <<mode, rpc, replay, rest, joined, live, log, cur>>
          /\ moved' = (moved \/ Moves)
      BY <2>8 DEF IndexUnlink, IndexRename
    <3>2. PICK f \in Names : /\ exist' = exist \ {f}
                             /\ files' = [files EXCEPT ![f] = <<>>]
      <4>1. input \in Names
        BY <1>a, <2>8 DEF IndexUnlink, IndexRename, IndexInv, Reindexing
      <4>2. New(input) \in Names
        <5>1. New(input) \in exist
          BY <1>a, <2>8 DEF IndexUnlink, IndexRename, IndexInv, Indexing
        <5> QED
          BY <1>b, <5>1
      <4>3. CASE IndexUnlink
        BY <4>1, <4>3 DEF IndexUnlink
      <4>4. CASE IndexRename
        BY <4>2, <4>4 DEF IndexRename
      <4> QED
        BY <2>8, <4>3, <4>4
    <3>3. \A g \in exist' : g \in exist /\ files'[g] = files[g]
      BY <1>b, <3>2
    <3>4. NotIndexed' \subseteq NotIndexed
      BY <3>1, <3>3 DEF NotIndexed
    <3>5. ReplayInv' /\ ReplayComplete'
      BY <3>1, <3>4, QuietReplay DEF LiveInv
    <3> QED
      BY <3>1, <3>5 DEF LiveInv, LiveLog
  <2>9. CASE Sleep
    <3>1. CASE ~ shutdown
      BY <2>9, <3>1, QuietFiles DEF Sleep
    <3>2. CASE shutdown
      <4>1. log' = <<>> /\ mode' = "down"
        BY <2>9, <3>2 DEF Sleep
      <4>2. Changes(log') = {}
        BY <4>1, ChangesFacts
      <4> QED
        BY <4>1, <4>2 DEF LiveInv, LiveLog, ReplayInv, ReplayComplete, Moves
    <3> QED
      BY <3>1, <3>2
  <2> QED
    BY <1>2, <2>1, <2>2, <2>3, <2>4, <2>5, <2>6, <2>7, <2>8, <2>9 DEF AdminStep
<1>3. CASE ReplayStep
  <2>1. CASE ReplayGlob
    <3>1. /\ mode = "replay" /\ rpc' = "next" /\ replay' = exist
          /\ UNCHANGED <<mode, live, log, exist, files>>
      BY <2>1 DEF ReplayGlob
    <3>2. \A f \in exist' : Changes(files'[f]) \subseteq Unread'
      BY <3>1 DEF Unread
    <3> QED
      BY <3>1, <3>2 DEF LiveInv, LiveLog, ReplayInv, ReplayComplete
  \* Unless it was disturbed, the replay finds every file it has listed.
  <2>2. CASE ReplayFile
    <3> DEFINE f == First(replay)
    <3>1. f \in replay
      BY <1>a, <2>2, FirstFacts DEF ReplayFile, TypeOK
    <3> HIDE DEF f
    <3>2. /\ UNCHANGED <<live, log, moved, joined, exist, files>>
          /\ Moves /\ rest = <<>> /\ mode = "replay"
      BY <2>2 DEF ReplayFile, Moves
    <3>3. CASE /\ f \in exist /\ rest' = files[f]
               /\ replay' = replay \ {f} /\ UNCHANGED <<mode, rpc>>
      <4>1. Unread \subseteq Unread'
        <5>1. Changes(rest) = {}
          BY <3>2, ChangesFacts
        <5> QED
          BY <3>1, <3>2, <3>3, <5>1 DEF Unread
      <4>2. ReplayInv'
        BY <3>2, <3>3, <4>1 DEF LiveInv, ReplayInv, Moves
      <4> QED
        BY <3>2, <3>3, <4>2 DEF LiveInv, LiveLog, ReplayComplete
    <3>4. CASE f \notin exist /\ mode' = "up"
      <4>1. moved
        BY <3>1, <3>2, <3>4 DEF LiveInv, ReplayInv
      <4> QED
        BY <3>2, <3>4, <4>1 DEF LiveInv, LiveLog, ReplayInv, ReplayComplete, Moves
    <3> QED
      BY <2>2, <3>3, <3>4 DEF ReplayFile, f
  <2>3. CASE ReplayLast
    <3>1. /\ UNCHANGED <<mode, live, log, moved, joined, exist, files, cur>>
          /\ Moves /\ rest = <<>> /\ rest' = cur /\ replay = {}
          /\ mode = "replay" /\ rpc' = "last"
      BY <2>3 DEF ReplayLast, Moves
    <3>2. Unread = {}
      BY <3>1, ChangesFacts DEF Unread
    <3>3. ~moved /\ ~joined => NotIndexed' \subseteq RowChanges(live') \cup Changes(rest')
      BY <3>1, <3>2 DEF NotIndexed, LiveInv, ReplayInv
    <3>4. ReplayInv'
      BY <3>1, <3>3 DEF ReplayInv, Moves
    <3> QED
      BY <3>1, <3>4 DEF LiveInv, LiveLog, ReplayComplete
  \* What has been read is live.
  <2>4. CASE ReplayRead
    <3>1. /\ UNCHANGED <<mode, log, rpc, replay, moved, exist, files, cur>>
          /\ mode = "replay"
      BY <2>4 DEF ReplayRead
    <3>2. /\ RowChanges(live) \subseteq RowChanges(live')
          /\ joined' \/ Changes(rest) \subseteq RowChanges(live') \cup Changes(rest')
          /\ joined => joined'
      BY <2>4, ReplayReadFacts
    <3>3. joined' \/ Unread \subseteq RowChanges(live') \cup Unread'
      BY <3>1, <3>2 DEF Unread
    <3>4. NotIndexed' = NotIndexed /\ (Moves' <=> Moves)
      BY <3>1 DEF NotIndexed, Moves
    <3>5. Moves' /\ ~moved' => replay' \subseteq exist'
      BY <3>1, <3>4 DEF LiveInv, ReplayInv
    <3>6. ASSUME Moves', ~moved', ~joined', NEW f \in exist'
          PROVE  Changes(files'[f]) \subseteq RowChanges(live') \cup Unread'
      <4>1. Changes(files[f]) \subseteq RowChanges(live) \cup Unread
        BY <3>1, <3>2, <3>4, <3>6 DEF LiveInv, ReplayInv
      <4> QED
        BY <3>1, <3>2, <3>3, <3>6, <4>1
    <3>7. mode' = "replay" /\ rpc' = "last" /\ ~moved' /\ ~joined' =>
             NotIndexed' \subseteq RowChanges(live') \cup Changes(rest')
      BY <3>1, <3>2, <3>4 DEF LiveInv, ReplayInv
    <3>8. ReplayInv'
      BY <3>5, <3>6, <3>7 DEF ReplayInv
    <3>9. LiveLog' /\ ReplayComplete'
      BY <3>1, <3>2 DEF LiveInv, LiveLog, ReplayComplete
    <3> QED
      BY <3>8, <3>9 DEF LiveInv
  <2>5. CASE ReplayDone
    <3>1. /\ UNCHANGED <<live, log, moved, joined, exist, files, cur, rest>>
          /\ mode = "replay" /\ rpc = "last" /\ rest = <<>> /\ mode' = "up"
      BY <2>5 DEF ReplayDone
    <3>2. NotIndexed' = NotIndexed /\ Changes(rest) = {}
      BY <3>1, ChangesFacts DEF NotIndexed
    <3>3. ReplayComplete'
      BY <3>1, <3>2 DEF LiveInv, ReplayInv, ReplayComplete
    <3> QED
      BY <3>1, <3>3 DEF LiveInv, LiveLog, ReplayInv, Moves
  <2> QED
    BY <1>3, <2>1, <2>2, <2>3, <2>4, <2>5 DEF ReplayStep
<1>4. CASE Shutdown \/ UNCHANGED vars
  BY <1>4, QuietFiles DEF Shutdown, vars
<1>5. CASE Crash \/ Start
  <2>1. /\ mode' # "up" /\ rpc' = "glob"
        /\ log' = <<>> \/ UNCHANGED <<log, live>>
    BY <1>5 DEF Crash, Start
  <2>2. Changes(<<>>) = {}
    BY ChangesFacts
  <2> QED
    BY <2>1, <2>2 DEF LiveInv, LiveLog, ReplayInv, ReplayComplete, Moves
<1> QED
  BY <1>1, <1>2, <1>3, <1>4, <1>5 DEF Next

\* When the constructor of DiskDatastore is done, and AdminThread has not moved
\* a file under the replay and no two values were spliced, every change in the
\* log files is live, and stays so whatever is recorded, flushed, rotated and
\* indexed later (ReplayComplete).
THEOREM ReplayIsComplete == Spec => []ReplayComplete
<1> DEFINE Inv == LogInv /\ DataInv /\ LiveInv
<1>1. Init => LiveInv
  BY ChangesFacts DEF Init, LiveInv, LiveLog, ReplayInv, ReplayComplete, Moves
<1>2. Init => Inv
  BY <1>1, LogInit
<1>3. Inv /\ [Next]_vars => Inv'
  BY LogStep, DataStep, ReplayStepInv
<1>4. Inv => ReplayComplete
  BY DEF LiveInv
<1> HIDE DEF Inv
<1> QED
  BY <1>2, <1>3, <1>4, PTL DEF Spec

-----------------------------------------------------------------------------
(***************************************************************************)
(* The refinement of DurableStore.                                         *)
(***************************************************************************)

\* The changes on disk: the part of OnDisk that no step takes away.
OnDiskChanges ==
    NotIndexed \cup UNION {Changes(indexed[t]) : t \in 0..MaxTime}

\* What Flush has promised is in some file.
PromisedInv == damaged \/ promised \subseteq OnDiskChanges

\* Where a change on disk can be.
LEMMA OnDiskFacts ==
    /\ \A c : c \in OnDiskChanges <=>
                 \/ c \in Changes(cur)
                 \/ \E f \in exist : c \in Changes(files[f])
                 \/ \E t \in 0..MaxTime : c \in Changes(indexed[t])
    /\ \A c : c \in OnDiskChanges' <=>
                 \/ c \in Changes(cur')
                 \/ \E f \in exist' : c \in Changes(files'[f])
                 \/ \E t \in 0..MaxTime : c \in Changes(indexed'[t])
  BY DEF OnDiskChanges, NotIndexed

\* A change is one of the points a value stands for.
LEMMA ChangesArePoints == \A s : Changes(s) \subseteq AllPoints(s)
  BY DEF Changes, AllPoints, PointsOf

LEMMA OnDiskPoints == OnDiskChanges \subseteq OnDisk /\ (OnDiskChanges \subseteq OnDisk)'
  BY ChangesArePoints DEF OnDiskChanges, NotIndexed, OnDisk

\* What is in a file of known values has been sent.
LEMMA KnownPoints ==
    ASSUME NEW P, NEW s \in Seq(KnownIn(P))
    PROVE  AllPoints(s) \subseteq P
<1>1. \A i \in 1..Len(s) : s[i] \in KnownIn(P)
  BY ElementOfSeq
<1>2. \A i \in 1..Len(s) : PointsOf(s[i]) \subseteq P
  BY <1>1 DEF KnownIn
<1> QED
  BY <1>2 DEF AllPoints

\* What is on disk has been recorded.
LEMMA OnDiskSent == TypeOK => OnDisk \subseteq sent
<1> SUFFICES ASSUME TypeOK PROVE OnDisk \subseteq sent
  OBVIOUS
<1>1. /\ cur \in Seq(KnownIn(sent)) /\ exist \subseteq Names
      /\ files \in [Names -> Seq(KnownIn(sent))]
      /\ indexed \in [0..MaxTime -> Seq(KnownIn(sent))]
  BY SeqTypes, NumberTypes
<1>2. AllPoints(cur) \subseteq sent
  BY <1>1, KnownPoints
<1>3. \A f \in exist : AllPoints(files[f]) \subseteq sent
  BY <1>1, KnownPoints
<1>4. \A t \in 0..MaxTime : AllPoints(indexed[t]) \subseteq sent
  BY <1>1, KnownPoints
<1> QED
  BY <1>2, <1>3, <1>4 DEF OnDisk

\* When all rows are written, all that was in the input is in the output.
LEMMA UnlinkFacts ==
    ASSUME LogInv, DataInv, IndexUnlink, ~ damaged
    PROVE  /\ input \in Names /\ New(input) \in exist /\ New(input) # input
           /\ Changes(files[input]) \subseteq Changes(files[New(input)])
<1>1. TypeOK /\ IndexInv /\ apc = "index" /\ rows = {}
  BY DEF LogInv, IndexUnlink
<1>2. input \in Names /\ New(input) \in exist /\ New(input) # input
  BY <1>1, NewFacts DEF IndexInv, Reindexing, Indexing
<1>3. /\ \A i \in 1..Len(files[input]) : Change(files[input][i]) \in RowChanges(data)
      /\ \A v \in Vars : Changes(data[v]) \subseteq Changes(files[New(input)])
  BY <1>1 DEF DataInv
<1>4. RowChanges(data) \subseteq Changes(files[New(input)])
  BY <1>3 DEF RowChanges
<1>5. Changes(files[input]) \subseteq RowChanges(data)
  BY <1>3 DEF Changes
<1> QED
  BY <1>2, <1>4, <1>5

\* Damage is never undone.
LEMMA DamageStays == [Next]_vars /\ damaged => damaged'
<1> SUFFICES ASSUME [Next]_vars, damaged, ~ damaged' PROVE FALSE
  OBVIOUS
<1>1. ~ RotateCreate /\ ~ IndexRename /\ ~ ReindexRead
  BY DEF RotateCreate, IndexRename, ReindexRead
<1>2. ~ AdminStep
  BY <1>1 DEF AdminStep, FlushStart, FlushWrite, FlushFail, FlushErase,
     RotateNot, RotateRename, RotateRenameFail, ReindexRecordLog, ReindexFile,
     IndexOpen, IndexWrite, IndexFail, IndexUnlink, Sleep
<1>3. ~ ReplayStep
  BY DEF ReplayStep, ReplayGlob, ReplayFile, ReplayLast, ReplayRead, ReplayDone
<1>4. ~ Shutdown /\ ~ Crash /\ ~ Start
      /\ ~ \E c \in Inputs : Record(c[1], c[2], c[3])
  BY DEF Shutdown, Crash, Start, Record
<1>5. ~ UNCHANGED vars
  BY DEF vars
<1> QED
  BY <1>2, <1>3, <1>4, <1>5 DEF Next

\* No step takes a change off the disk, other than a rotation that truncates
\* recordlog, an indexed file that replaces another one, and the reindexing of
\* a file in which two values are spliced.
LEMMA DiskStep ==
    LogInv /\ DataInv /\ [Next]_vars
        => damaged' \/ OnDiskChanges \subseteq OnDiskChanges'
<1> SUFFICES ASSUME LogInv, DataInv, [Next]_vars, ~ damaged'
             PROVE  OnDiskChanges \subseteq OnDiskChanges'
  OBVIOUS
<1>a. TypeOK /\ FlushInv /\ DirInv /\ IndexInv /\ ~ damaged
  BY DamageStays DEF LogInv
<1>b. /\ cur \in Seq(Known) /\ log \in Seq(Known) /\ exist \subseteq Names
      /\ files \in [Names -> Seq(Known)]
      /\ indexed \in [0..MaxTime -> Seq(Known)]
  BY <1>a, SeqTypes, NumberTypes
<1> USE DEF curVars, dirVars
\* The steps that do not touch a file of the directory.
<1>c. ASSUME UNCHANGED <<exist, files, indexed>>, Changes(cur) \subseteq Changes(cur')
      PROVE  OnDiskChanges \subseteq OnDiskChanges'
  BY <1>c, OnDiskFacts
<1>1. CASE \E c \in Inputs : Record(c[1], c[2], c[3])
  BY <1>1, <1>c DEF Record
<1>2. CASE AdminStep
  <2>1. CASE FlushStart \/ FlushFail \/ RotateNot \/ RotateRenameFail
             \/ ReindexRecordLog \/ ReindexFile \/ ReindexRead \/ IndexFail
             \/ FlushErase \/ Sleep
    BY <1>c, <2>1 DEF FlushStart, FlushFail, RotateNot, RotateRenameFail,
       ReindexRecordLog, ReindexFile, ReindexRead, IndexFail, FlushErase, Sleep
  <2>2. CASE FlushWrite
    <3>1. UNCHANGED <<exist, files, indexed>>
          /\ (cur' = cur \/ cur' = Append(cur, log[done + 1]))
      BY <2>2 DEF FlushWrite
    <3>2. log[done + 1] \in Known
      <4>1. Len(log) \in Nat
        BY <1>b, LenProperties
      <4>2. done + 1 \in 1..Len(log)
        BY <1>a, <2>2, <4>1 DEF FlushWrite, TypeOK
      <4> QED
        BY <1>b, <4>2, ElementOfSeq
    <3>3. Changes(cur) \subseteq Changes(Append(cur, log[done + 1]))
      BY <1>b, <3>2, ChangesFacts
    <3>4. Changes(cur) \subseteq Changes(cur')
      <4>1. CASE cur' = cur
        BY <4>1
      <4>2. CASE cur' = Append(cur, log[done + 1])
        BY <3>3, <4>2
      <4> QED
        BY <3>1, <4>1, <4>2
    <3> QED
      BY <1>c, <3>1, <3>4
  \* The file of a new rotation replaces none.
  <2>3. CASE RotateRename
    <3> DEFINE f == <<rotations + 1, 0>>
    <3>1. f \notin exist
      <4>1. f[1] = rotations + 1 /\ rotations \in Nat
        BY <1>a, NumberTypes
      <4> QED
        BY <1>a, <4>1 DEF DirInv
    <3>2. f \in Names /\ UNCHANGED indexed
          /\ exist' = exist \cup {f} /\ files' = [files EXCEPT ![f] = cur]
      BY <2>3 DEF RotateRename
    <3> HIDE DEF f
    <3>3. files'[f] = cur /\ \A g \in exist : files'[g] = files[g]
      BY <1>b, <3>1, <3>2
    <3> QED
      BY <3>2, <3>3, OnDiskFacts
  <2>4. CASE RotateCreate
    <3>1. cur = <<>> /\ cur' = <<>> /\ UNCHANGED <<exist, files, indexed>>
      BY <2>4 DEF RotateCreate
    <3> QED
      BY <1>c, <3>1
  <2>5. CASE IndexOpen
    <3>1. UNCHANGED <<cur, indexed>>
      BY <2>5 DEF IndexOpen
    <3>2. CASE UNCHANGED <<exist, files>>
      BY <1>c, <3>1, <3>2
    <3>3. CASE /\ New(input) \notin exist /\ exist' = exist \cup {New(input)}
               /\ files' = [files EXCEPT ![New(input)] = <<>>]
      <4>1. \A g \in exist : files'[g] = files[g]
        BY <1>b, <3>3
      <4> QED
        BY <3>1, <3>3, <4>1, OnDiskFacts
    <3> QED
      BY <2>5, <3>2, <3>3 DEF IndexOpen
  <2>6. ASSUME NEW v \in Vars, IndexWrite(v)
        PROVE  OnDiskChanges \subseteq OnDiskChanges'
    <3>1. UNCHANGED <<cur, indexed, exist>>
      BY <2>6 DEF IndexWrite
    <3>2. \A g \in exist : Changes(files[g]) \subseteq Changes(files'[g])
      BY <1>b, <2>6, WriteFacts
    <3> QED
      BY <3>1, <3>2, OnDiskFacts
  \* The input is removed when all that was in it is in the output.
  <2>7. CASE IndexUnlink
    <3>1. /\ UNCHANGED <<cur, indexed>>
          /\ exist' = exist \ {input} /\ files' = [files EXCEPT ![input] = <<>>]
      BY <2>7 DEF IndexUnlink
    <3>2. /\ New(input) \in exist /\ New(input) # input
          /\ Changes(files[input]) \subseteq Changes(files[New(input)])
      BY <1>a, <2>7, UnlinkFacts
    <3>3. \A g \in exist' : files'[g] = files[g]
      BY <1>b, <3>1
    <3>4. New(input) \in exist'
      BY <3>1, <3>2
    <3> QED
      BY <3>1, <3>2, <3>3, <3>4, OnDiskFacts
  \* The output becomes an indexed file, and replaces none that had more.
  <2>8. CASE IndexRename
    <3> DEFINE t == Newest(data)
               out == files[New(input)]
    <3>1. t \in 0..MaxTime
      <4>1. RowsIn(data, sent) /\ sent \in SUBSET Points
        BY <1>a, SeqTypes DEF TypeOK
      <4> QED
        BY <4>1, NewestFacts
    <3>2. /\ indexed' = [indexed EXCEPT ![t] = out]
          /\ exist' = exist \ {New(input)}
          /\ files' = [files EXCEPT ![New(input)] = <<>>]
          /\ UNCHANGED cur
          /\ damaged' = (damaged \/ ~(Changes(indexed[t]) \subseteq Changes(out)))
      BY <2>8 DEF IndexRename
    <3>3. Changes(indexed[t]) \subseteq Changes(out)
      BY <3>2
    <3> HIDE DEF t
    <3>4. /\ \A u \in 0..MaxTime : Changes(indexed[u]) \subseteq Changes(indexed'[u])
          /\ Changes(files[New(input)]) \subseteq Changes(indexed'[t])
      BY <1>b, <3>1, <3>2, <3>3
    <3>5. \A g \in exist' : files'[g] = files[g]
      BY <1>b, <3>2
    <3>6. ASSUME NEW c \in OnDiskChanges
          PROVE  c \in OnDiskChanges'
      <4>1. CASE c \in Changes(cur)
        BY <3>2, <4>1, OnDiskFacts
      <4>2. ASSUME NEW f \in exist, c \in Changes(files[f])
            PROVE  c \in OnDiskChanges'
        <5>1. CASE f = New(input)
          BY <3>1, <3>4, <4>2, <5>1, OnDiskFacts
        <5>2. CASE f # New(input)
          BY <3>2, <3>5, <4>2, <5>2, OnDiskFacts
        <5> QED
          BY <5>1, <5>2
      <4>3. ASSUME NEW u \in 0..MaxTime, c \in Changes(indexed[u])
            PROVE  c \in OnDiskChanges'
        BY <3>4, <4>3, OnDiskFacts
      <4> QED
        BY <4>1, <4>2, <4>3, OnDiskFacts
    <3> QED
      BY <3>6
  <2> QED
    BY <1>2, <2>1, <2>2, <2>3, <2>4, <2>5, <2>6, <2>7, <2>8 DEF AdminStep
<1>3. CASE ReplayStep \/ Shutdown \/ Crash \/ Start \/ UNCHANGED vars
  BY <1>c, <1>3 DEF ReplayStep, ReplayGlob, ReplayFile, ReplayLast, ReplayRead,
     ReplayDone, Shutdown, Crash, Start, vars
<1> QED
  BY <1>1, <1>2, <1>3 DEF Next

\* Every step of the record log is a step of DurableStore or does not concern
\* it: Record accepts, the end of a Flush promises, and everything that is
\* written, renamed or removed stores.
LEMMA EngineStep ==
    LogInv /\ LogInv' /\ DataInv /\ PromisedInv /\ [Next]_vars
        => PromisedInv' /\ [Engine!Next]_(Engine!vars)
<1> SUFFICES ASSUME LogInv, LogInv', DataInv, PromisedInv, [Next]_vars
             PROVE  PromisedInv' /\ [Engine!Next]_(Engine!vars)
  OBVIOUS
<1>a. TypeOK /\ TypeOK' /\ FlushInv
  BY DEF LogInv
<1>b. OnDisk \subseteq sent
  BY <1>a, OnDiskSent
<1>c. OnDisk' \subseteq sent'
  <2>1. (TypeOK => OnDisk \subseteq sent)'
    BY OnDiskSent, PTL
  <2> QED
    BY <1>a, <2>1
<1>d. damaged' \/ OnDiskChanges \subseteq OnDiskChanges'
  BY DiskStep
<1>e. damaged => damaged'
  BY DamageStays
<1>f. OnDiskChanges \subseteq OnDisk /\ OnDiskChanges' \subseteq OnDisk'
  BY OnDiskPoints
<1>g. ASSUME UNCHANGED <<sent, promised>>
      PROVE  PromisedInv' /\ [Engine!Next]_(Engine!vars)
  <2>1. damaged' \/ promised \subseteq OnDiskChanges'
    BY <1>d, <1>e DEF PromisedInv
  <2>2. PromisedInv'
    BY <1>g, <2>1 DEF PromisedInv
  <2>3. Engine!Next
    BY <1>c, <1>e, <1>f, <1>g, <2>1 DEF Engine!Next, Engine!Store
  <2> QED
    BY <2>2, <2>3
<1>1. ASSUME NEW c \in Inputs, Record(c[1], c[2], c[3])
      PROVE  PromisedInv' /\ [Engine!Next]_(Engine!vars)
  <2>1. UNCHANGED <<cur, exist, files, indexed, promised, damaged>>
        /\ sent \subseteq sent'
    BY <1>1 DEF Record, curVars, dirVars
  <2>2. OnDisk' = OnDisk /\ OnDiskChanges' = OnDiskChanges
    BY <2>1 DEF OnDisk, OnDiskChanges, NotIndexed
  <2>3. sent' \subseteq Points
    BY <1>a DEF TypeOK
  <2>4. PromisedInv'
    BY <2>1, <2>2 DEF PromisedInv
  <2>5. Engine!Next
    BY <2>1, <2>2, <2>3 DEF Engine!Next, Engine!Accept
  <2> QED
    BY <2>4, <2>5
<1>2. CASE FlushErase
  <2>1. /\ UNCHANGED <<cur, exist, files, indexed, sent, damaged>>
        /\ promised' = promised \cup wrote
    BY <1>2 DEF FlushErase, curVars, dirVars
  <2>2. OnDisk' = OnDisk /\ OnDiskChanges' = OnDiskChanges
    BY <2>1 DEF OnDisk, OnDiskChanges, NotIndexed
  <2>3. wrote \subseteq OnDiskChanges
    BY <1>a, OnDiskFacts DEF FlushInv
  <2>4. PromisedInv'
    BY <2>1, <2>2, <2>3 DEF PromisedInv
  <2>5. Engine!Next
    BY <1>b, <1>f, <2>1, <2>2, <2>3 DEF Engine!Next, Engine!Promise
  <2> QED
    BY <2>4, <2>5
<1>3. ASSUME AdminStep, ~ FlushErase
      PROVE  UNCHANGED <<sent, promised>>
  BY <1>3 DEF AdminStep, FlushStart, FlushWrite, FlushFail, RotateNot,
     RotateRename, RotateRenameFail, RotateCreate, ReindexRecordLog,
     ReindexFile, ReindexRead, IndexOpen, IndexWrite, IndexFail, IndexUnlink,
     IndexRename, Sleep, histVars
<1>4. ASSUME ReplayStep \/ Shutdown \/ Crash \/ Start \/ UNCHANGED vars
      PROVE  UNCHANGED <<sent, promised>>
  BY <1>4 DEF ReplayStep, ReplayGlob, ReplayFile, ReplayLast, ReplayRead,
              ReplayDone, Shutdown, Crash, Start, vars, histVars
<1> QED
  BY <1>g, <1>1, <1>2, <1>3, <1>4 DEF Next

\* The record log implements DurableStore: between Flush and the indexed file
\* a change of a variable is never without a copy on disk, whatever fails and
\* wherever the process dies, other than by the three losses named with
\* ImplementsDurableStore.
THEOREM LogImplementsDurableStore == Spec => ImplementsDurableStore
<1> DEFINE Inv == LogInv /\ DataInv /\ PromisedInv
<1>1. Init => Inv /\ Engine!Init
  <2>1. ASSUME Init PROVE OnDisk = {}
    <3>1. Len(<<>>) = 0 /\ 1..0 = {}
      BY EmptySeq
    <3>2. AllPoints(<<>>) = {}
      BY <3>1 DEF AllPoints
    <3>3. cur = <<>> /\ exist = {} /\ \A t \in 0..MaxTime : indexed[t] = <<>>
      BY <2>1 DEF Init
    <3> QED
      BY <3>2, <3>3 DEF OnDisk
  <2>2. Init => PromisedInv
    BY DEF Init, PromisedInv
  <2>3. Init => Engine!Init
    BY <2>1 DEF Init, Engine!Init
  <2> QED
    BY <2>2, <2>3, LogInit
<1>2. Inv /\ [Next]_vars => Inv' /\ [Engine!Next]_(Engine!vars)
  BY LogStep, DataStep, EngineStep
<1> HIDE DEF Inv
<1> QED
  BY <1>1, <1>2, PTL DEF Spec, ImplementsDurableStore, Engine!Spec
=============================================================================
