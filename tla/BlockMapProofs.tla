--------------------------- MODULE BlockMapProofs ---------------------------
(***************************************************************************)
(* Proofs about BlockMap, for any number of names, blocks, crashes and     *)
(* errors: type correctness, that every block can be routed to, that no    *)
(* two blocks share a file, that flushed streams stay on disk, that the    *)
(* block map implements DurableStore, and that queries between two ticks   *)
(* find every flushed stream.                                              *)
(***************************************************************************)
EXTENDS BlockMap, NumberFacts, FiniteSetTheorems, TLAPS

Splits == {"splitRead", "splitLeft", "splitRight", "splitInsert"}
Joins  == {"joinWrite", "joinRemove"}

(***************************************************************************)
(* What holds whatever races, part by part: each part is about the         *)
(* variables that one kind of step changes.                                *)
(***************************************************************************)

\* The blocks have ids that have been given out, and hold what clients sent.
MapPart ==
    /\ blocks \in [EndKeys -> Block \cup {NoBlock}]
    /\ \A k \in InMap : blocks[k].id < nextId
    /\ \A k \in EndKeys : blocks[k].log \cup blocks[k].new \subseteq sent

\* So do the files; one that does not exist has no contents.
FilePart ==
    /\ file \in [Ids -> SUBSET Streams]
    /\ header \in [Ids -> SUBSET Keys]
    /\ fileIds \subseteq 1..(nextId - 1)
    /\ tmp \in [Ids -> SUBSET Streams]
    /\ tmpIds \subseteq Ids
    /\ damaged \in BOOLEAN
    /\ \A i \in Ids : file[i] \cup tmp[i] \subseteq sent
    /\ \A i \in Ids : i \notin fileIds => file[i] = {}

\* And the logs; an id that has not been given out has none.
LogPart ==
    /\ logf \in [Ids -> SUBSET Streams]
    /\ \A i \in Ids : logf[i] \subseteq sent
    /\ \A i \in Ids : i >= nextId => logf[i] = {}

\* The ticker works on blocks of the map, with an id that has been given out,
\* and only while the server is up; findBlock knows the end keys of all blocks
\* and that of the one that joinBlocks will put into the map.
TickPart ==
    /\ mode \in {"up", "down", "files", "logs"}
    /\ blockKeys \subseteq EndKeys
    /\ InMap \subseteq blockKeys
    /\ tpc \in TickPC
    /\ tick \in [keys : SUBSET EndKeys, key : EndKeys, id : 0..MaxIds,
                 buf : SUBSET Streams]
    /\ mode # "up" => tpc = "idle"
    /\ mode = "down" => InMap = {}
    /\ tpc = "idle" => tick = NoTick
    /\ tick.keys \subseteq InMap
    /\ tpc \in Splits => \E k \in EndKeys : tick.keys = {k}
    /\ tpc \in Joins \cup (Splits \ {"splitRead"}) => tick.id \in 1..(nextId - 1)
    /\ tpc \in Joins => tick.key \in blockKeys
    /\ tick.buf \subseteq sent

\* A restart reads files and logs of ids that have been given out.
RestPart ==
    /\ pending \subseteq 1..(nextId - 1)
    /\ nextId \in 1..(MaxIds + 1)
    /\ sent \subseteq Streams
    /\ flushed \subseteq sent
    /\ raced \in BOOLEAN
    /\ clash \in BOOLEAN
    /\ crashes \in 0..MaxCrashes
    /\ errors \in 0..MaxErrors

MapInv == MapPart /\ FilePart /\ LogPart /\ TickPart /\ RestPart
-----------------------------------------------------------------------------
(***************************************************************************)
(* What holds until the ticker meets unflushed streams, a file is damaged, *)
(* or a restart finds two blocks with one end key.                         *)
(***************************************************************************)
Clean == ~raced /\ ~damaged /\ ~clash

\* What block.<i> and its log hold.
Held(i) == file[i] \cup logf[i]

\* No two blocks in the map share an id, not even while the ticker works.
OwnerInv == \A j, k \in InMap : blocks[j].id = blocks[k].id => j = k

\* LogStreams is what the log holds, once it has been read back.
LogOK(k) ==
    blocks[k].log = IF mode = "files" \/ (mode = "logs" /\ blocks[k].id \in pending)
                      THEN {} ELSE logf[blocks[k].id]

\* The block at k holds the name k and none above it; its index names nothing
\* that it does not hold.
NameOK(k) ==
    LET b == blocks[k] IN
    /\ k \in KeysOf(Held(b.id) \cup b.new)
    /\ \A n \in KeysOf(Held(b.id) \cup b.new) : n <= k
    /\ b.index \subseteq KeysOf(Held(b.id))
    /\ b.id \in fileIds => k \in header[b.id]

BlockInv == \A k \in InMap : LogOK(k) /\ NameOK(k)

\* The header of a file lists the names in it, and the log of the block holds
\* none above them: a restart puts the block where it was.
FileOK(i) ==
    /\ header[i] = KeysOf(file[i])
    /\ \E m \in header[i] : \A n \in KeysOf(Held(i)) : n <= m

FileInv == \A i \in fileIds : FileOK(i)

\* A restart finds a block for each file, and for each log that has no file.
ReadInv ==
    /\ mode = "files" =>
          /\ pending \subseteq fileIds
          /\ \A k \in InMap : blocks[k].id \in fileIds \ pending
          /\ \A i \in fileIds \ pending : \E k \in InMap : blocks[k].id = i
    /\ mode = "logs" =>
          /\ \A i \in pending : logf[i] # {}
          /\ \A i \in fileIds : \E k \in InMap : blocks[k].id = i

\* The blocks that the ticker works on have no unflushed streams.
QuietInv == \A k \in Busy : blocks[k].new = {}

\* splitBlock cuts the names of the block at k in two parts that are not empty,
\* and the id of the left block is its own.
SplitOK(k) ==
    LET i == blocks[k].id IN
    /\ tick.key < k
    /\ tpc # "splitInsert" => tick.key \in KeysOf(Held(i))
    /\ tpc \in {"splitLeft", "splitRight"} => tick.buf = Held(i)
    /\ tpc # "splitRead" => /\ \A j \in InMap : blocks[j].id # tick.id
                            /\ logf[tick.id] = {}
    /\ tpc = "splitLeft" => tick.id \notin fileIds
    /\ tpc \in {"splitRight", "splitInsert"} =>
          /\ tick.id \in fileIds
          /\ file[tick.id] = LeftPart
          /\ tick.key \in KeysOf(LeftPart)

SplitInv == tpc \in Splits => \A k \in tick.keys : SplitOK(k)

\* joinBlocks has read all that the blocks hold which it still has to remove, and
\* has written it to the file of the last one, which it removes last.
JoinOK ==
    /\ tick.key \in KeysOf(tick.buf)
    /\ \A n \in KeysOf(tick.buf) : n <= tick.key
    /\ \A k \in tick.keys : k <= tick.key /\ Held(blocks[k].id) \subseteq tick.buf
    /\ tick.key \in InMap /\ blocks[tick.key].id = tick.id
    /\ tick.keys # {} => tick.key \in tick.keys
    /\ tpc = "joinWrite" => tick.keys # {}
    /\ tpc = "joinRemove" => tick.id \in fileIds /\ file[tick.id] = tick.buf
    /\ tick.keys = {} => logf[tick.id] = {}

JoinInv == tpc \in Joins => JoinOK

Kept ==
    /\ OwnerInv
    /\ BlockInv
    /\ FileInv
    /\ ReadInv
    /\ QuietInv
    /\ SplitInv
    /\ JoinInv
    /\ flushed \subseteq OnDisk

KeptInv == Clean => Kept
-----------------------------------------------------------------------------
(***************************************************************************)
(* The operators of the model.                                             *)
(***************************************************************************)

\* The names of streams.
LEMMA KeysOfFacts ==
    /\ \A S : S \subseteq Streams => KeysOf(S) \subseteq Keys
    /\ \A S, T : S \subseteq T => KeysOf(S) \subseteq KeysOf(T)
    /\ \A S, T : KeysOf(S \cup T) = KeysOf(S) \cup KeysOf(T)
    /\ \A S : KeysOf(S) = {} <=> S = {}
    /\ \A S, s : s \in S => s[1] \in KeysOf(S)
    /\ \A S, n : n \in KeysOf(S) => \E s \in S : n = s[1]
<1>1. \A S, n : n \in KeysOf(S) <=> \E s \in S : n = s[1]
  BY DEF KeysOf
<1>2. \A s \in Streams : s[1] \in Keys
  BY DEF Streams
<1>3. \A S : S \subseteq Streams => KeysOf(S) \subseteq Keys
  BY <1>1, <1>2
<1>4. \A S, T : KeysOf(S \cup T) = KeysOf(S) \cup KeysOf(T)
  <2> TAKE S, T
  <2>1. \A n : n \in KeysOf(S \cup T) <=> n \in KeysOf(S) \cup KeysOf(T)
    BY <1>1
  <2> QED
    BY <2>1
<1>5. \A S : KeysOf(S) = {} <=> S = {}
  BY <1>1
<1>6. \A S, T : S \subseteq T => KeysOf(S) \subseteq KeysOf(T)
  BY <1>1
<1>7. \A S, s : s \in S => s[1] \in KeysOf(S)
  BY <1>1
<1>8. \A S, n : n \in KeysOf(S) => \E s \in S : n = s[1]
  BY <1>1
<1> QED
  BY <1>3, <1>4, <1>5, <1>6, <1>7, <1>8

\* The end key of a block with the names K.
LEMMA EndKeyFacts ==
    ASSUME NEW K \in SUBSET Keys
    PROVE  /\ EndKeyOf(K) \in EndKeys
           /\ K # {} => EndKeyOf(K) \in K /\ \A n \in K : n <= EndKeyOf(K)
           /\ \A m \in K : (\A n \in K : n <= m) => EndKeyOf(K) = m
<1>1. CASE K = {}
  BY <1>1, ConstantsAssumption DEF EndKeyOf, EndKeys
<1>2. CASE K # {}
  <2>1. MaxKey \in Nat /\ K \in SUBSET (0..MaxKey)
    BY ConstantsAssumption DEF Keys
  <2>2. Max(K) \in K /\ \A n \in K : n <= Max(K)
    BY <1>2, <2>1, MaxFacts
  <2>3. EndKeyOf(K) = Max(K)
    BY <1>2 DEF EndKeyOf
  <2>4. Max(K) \in EndKeys
    BY <2>1, <2>2 DEF EndKeys
  <2>5. ASSUME NEW m \in K, \A n \in K : n <= m
        PROVE  Max(K) = m
    <3>1. Max(K) <= m /\ m <= Max(K)
      BY <2>2, <2>5
    <3>2. \A x \in K : x \in Nat
      BY DEF Keys
    <3>3. Max(K) \in Nat /\ m \in Nat
      BY <2>2, <2>5, <3>2
    <3> QED
      BY <3>1, <3>3
  <2> QED
    BY <2>2, <2>3, <2>4, <2>5
<1> QED
  BY <1>1, <1>2

\* The only element of a set is its greatest.
LEMMA MaxOne ==
    ASSUME NEW k \in EndKeys
    PROVE  Max({k}) = k
<1>1. MaxKey \in Nat /\ {k} \in SUBSET (0..MaxKey) /\ {k} # {}
  BY ConstantsAssumption DEF EndKeys
<1>2. Max({k}) \in {k}
  BY <1>1, MaxFacts
<1> QED
  BY <1>2

\* The names are cut into two parts that are not empty.
LEMMA LeftKeyFacts ==
    ASSUME NEW names \in SUBSET Keys, Cardinality(names) >= 2
    PROVE  LeftKey(names) \in names /\ \E y \in names : LeftKey(names) < y
<1> DEFINE Upto(n) == {y \in names : y <= n}
           half == Cardinality(names) \div 2
           T == {n \in Nat : Cardinality(Upto(n)) >= half}
<1>1. IsFiniteSet(names)
  <2>1. MaxKey \in Int /\ 1 \in Int
    BY ConstantsAssumption
  <2>2. IsFiniteSet(1..MaxKey)
    BY <2>1, FS_Interval
  <2> QED
    BY <2>2, FS_Subset DEF Keys
<1>2. Cardinality(names) \in Nat
  BY <1>1, FS_CardinalityType
<1>3. half \in Nat /\ 1 <= half /\ half < Cardinality(names)
  <2>1. \A c \in Nat : c >= 2 => c \div 2 \in Nat /\ 1 <= c \div 2 /\ c \div 2 < c
    OBVIOUS
  <2> QED
    BY <1>2, <2>1
<1>4. \A n : IsFiniteSet(Upto(n)) /\ Cardinality(Upto(n)) \in Nat
  <2> TAKE n
  <2>1. Upto(n) \subseteq names
    OBVIOUS
  <2>2. IsFiniteSet(Upto(n))
    BY <1>1, <2>1, FS_Subset
  <2> QED
    BY <2>2, FS_CardinalityType
<1>5. PICK n \in T : \A m \in T : n <= m
  <2>0. \A y \in names : y <= MaxKey
    BY ConstantsAssumption DEF Keys
  <2>1. Upto(MaxKey) = names
    BY <2>0
  <2>4. Cardinality(names) >= half /\ MaxKey \in Nat
    <3> HIDE DEF half
    <3> QED
      BY <1>2, <1>3, ConstantsAssumption
  <2>2. MaxKey \in T
    BY <2>1, <2>4
  <2>3. T \in SUBSET Nat /\ T # {}
    BY <2>2
  <2> HIDE DEF T
  <2> QED
    BY <2>3, LeastNumber
<1>6. n \in Nat /\ Cardinality(Upto(n)) >= half
  BY <1>5
<1>7. n # 0
  <2>1. SUFFICES ASSUME n = 0 PROVE FALSE
    OBVIOUS
  <2>4. \A y \in names : ~ (y <= n)
    BY <2>1 DEF Keys
  <2>2. Upto(n) = {}
    BY <2>4
  <2>3. Cardinality(Upto(n)) = 0
    BY <2>2, FS_EmptySet
  <2> HIDE DEF half, Upto, T
  <2> QED
    BY <1>3, <1>6, <2>3
<1>8. n - 1 \in Nat /\ Cardinality(Upto(n - 1)) < half
  <2>1. n - 1 \in Nat /\ ~ (n <= n - 1)
    BY <1>6, <1>7
  <2>2. n - 1 \notin T
    BY <1>5, <2>1
  <2>3. ~ (Cardinality(Upto(n - 1)) >= half)
    BY <2>1, <2>2
  <2>4. Cardinality(Upto(n - 1)) \in Nat
    BY <1>4
  <2> HIDE DEF half, Upto, T
  <2> QED
    BY <1>3, <2>1, <2>3, <2>4
<1>9. n \in names
  <2>1. SUFFICES ASSUME n \notin names PROVE FALSE
    OBVIOUS
  <2>2. \A y \in names : y \in Nat /\ y # n
    BY <2>1 DEF Keys
  <2>3. \A y \in names : y <= n <=> y <= n - 1
    BY <1>6, <2>2
  <2>4. Upto(n) = Upto(n - 1)
    BY <2>3
  <2>5. Cardinality(Upto(n - 1)) \in Nat
    BY <1>4
  <2> HIDE DEF half, Upto, T
  <2> QED
    BY <1>3, <1>6, <1>8, <2>4, <2>5
<1>10. Cardinality(Upto(n)) = half
  <2>1. \A y \in names : y \in Nat
    BY DEF Keys
  <2>2. \A y \in names : y <= n <=> (y <= n - 1 \/ y = n)
    BY <1>6, <2>1
  <2>3. Upto(n) = Upto(n - 1) \cup {n}
    BY <1>9, <2>2
  <2>4. n \notin Upto(n - 1)
    BY <1>6
  <2>5. IsFiniteSet(Upto(n - 1)) /\ Cardinality(Upto(n - 1)) \in Nat
    BY <1>4
  <2> HIDE DEF half, Upto, T
  <2>6. Cardinality(Upto(n)) = Cardinality(Upto(n - 1)) + 1
    BY <2>3, <2>4, <2>5, FS_AddElement
  <2> QED
    BY <1>3, <1>6, <1>8, <2>5, <2>6
<1>11. LeftKey(names) \in names /\ Cardinality(Upto(LeftKey(names))) = half
  BY <1>9, <1>10 DEF LeftKey
<1>12. Upto(LeftKey(names)) # names
  <2> HIDE DEF half, Upto, T
  <2> QED
    BY <1>2, <1>3, <1>11
<1>13. PICK y \in names : ~ (y <= LeftKey(names))
  BY <1>12
<1>14. LeftKey(names) \in Nat /\ y \in Nat
  <2>1. \A x \in names : x \in Nat
    BY DEF Keys
  <2> QED
    BY <1>11, <2>1
<1> QED
  BY <1>11, <1>13, <1>14

\* One step of the definition of Joinable, from the value before.
JoinStep(before, k) ==
    IF k \notin InMap \/ before.size + NumStreams(blocks[k]) > SplitPoint
      THEN before
      ELSE [size |-> before.size + NumStreams(blocks[k]),
            keys |-> before.keys \cup {k}]

\* The equation of Joinable on the end keys up to n - 1.
JoinsUpto(g, n) ==
    g = [k \in -1..(n - 1) |-> IF k = -1 THEN [size |-> 0, keys |-> {}]
                               ELSE JoinStep(g[k - 1], k)]

\* The recursive definition of Joinable has a solution, by its least
\* counterexample, so that Joinable satisfies it.
LEMMA JoinableEquation ==
    Joinable = [k \in -1..MaxKey |-> IF k = -1 THEN [size |-> 0, keys |-> {}]
                                     ELSE JoinStep(Joinable[k - 1], k)]
<1> DEFINE Bad == {n \in Nat : ~ \E g : JoinsUpto(g, n)}
<1>1. Bad = {}
  <2>1. SUFFICES ASSUME Bad # {} PROVE FALSE
    OBVIOUS
  <2>2. PICK n \in Bad : \A m \in Bad : n <= m
    <3>1. Bad \in SUBSET Nat
      OBVIOUS
    <3> HIDE DEF Bad
    <3> QED
      BY <2>1, <3>1, LeastNumber
  <2>3. n \in Nat /\ ~ \E g : JoinsUpto(g, n)
    BY <2>2
  <2>4. CASE n = 0
    <3> DEFINE g == [k \in {-1} |-> [size |-> 0, keys |-> {}]]
    <3>1. -1..(n - 1) = {-1}
      BY <2>4
    <3>2. g = [k \in {-1} |-> IF k = -1 THEN [size |-> 0, keys |-> {}]
                              ELSE JoinStep(g[k - 1], k)]
      OBVIOUS
    <3>3. JoinsUpto(g, n)
      BY <3>1, <3>2, Zenon DEF JoinsUpto
    <3> QED
      BY <2>3, <3>3
  <2>5. CASE n # 0
    <3>1. n - 1 \in Nat /\ ~ (n <= n - 1)
      BY <2>3, <2>5
    <3>2. n - 1 \notin Bad
      BY <2>2, <3>1
    <3>3. PICK g : JoinsUpto(g, n - 1)
      BY <3>1, <3>2
    <3> DEFINE h == [k \in -1..(n - 1) |->
                        IF k = n - 1 THEN JoinStep(g[k - 1], k) ELSE g[k]]
    <3>4. ASSUME NEW k \in -1..(n - 1)
          PROVE  h[k] = IF k = -1 THEN [size |-> 0, keys |-> {}]
                        ELSE JoinStep(h[k - 1], k)
      <4>1. CASE k = n - 1
        <5>1. k # -1 /\ k - 1 \in -1..(n - 1) /\ k - 1 # n - 1
          BY <3>1, <4>1
        <5>2. h[k - 1] = g[k - 1]
          BY <5>1
        <5>3. h[k] = JoinStep(g[k - 1], k)
          BY <4>1
        <5> HIDE DEF h
        <5> QED
          BY <5>1, <5>2, <5>3
      <4>2. CASE k # n - 1
        <5>1. k \in -1..((n - 1) - 1)
          BY <2>3, <4>2
        <5>2. g[k] = IF k = -1 THEN [size |-> 0, keys |-> {}]
                     ELSE JoinStep(g[k - 1], k)
          BY <3>3, <5>1 DEF JoinsUpto
        <5>3. h[k] = g[k]
          BY <4>2
        <5>4. k # -1 => k - 1 \in -1..(n - 1) /\ k - 1 # n - 1
          BY <2>3
        <5>5. k # -1 => h[k - 1] = g[k - 1]
          BY <5>4
        <5> HIDE DEF h
        <5> QED
          BY <5>2, <5>3, <5>5
      <4> QED
        BY <4>1, <4>2
    <3>5. h = [k \in -1..(n - 1) |-> h[k]]
      OBVIOUS
    <3>6. JoinsUpto(h, n)
      <4> HIDE DEF h
      <4> QED
        BY <3>4, <3>5 DEF JoinsUpto
    <3> QED
      BY <2>3, <3>6
  <2> QED
    BY <2>4, <2>5
<1>2. \E g : JoinsUpto(g, MaxKey + 1)
  <2>1. MaxKey + 1 \in Nat
    BY ConstantsAssumption
  <2> QED
    BY <1>1, <2>1
<1>3. (MaxKey + 1) - 1 = MaxKey
  BY ConstantsAssumption
<1>4. \E g : g = [k \in -1..MaxKey |-> IF k = -1 THEN [size |-> 0, keys |-> {}]
                                        ELSE JoinStep(g[k - 1], k)]
  <2>1. PICK g : JoinsUpto(g, MaxKey + 1)
    BY <1>2
  <2>2. g = [k \in -1..MaxKey |-> IF k = -1 THEN [size |-> 0, keys |-> {}]
                                  ELSE JoinStep(g[k - 1], k)]
    <3>1. -1..((MaxKey + 1) - 1) = -1..MaxKey
      BY <1>3, Zenon
    <3> QED
      BY <2>1, <3>1, Zenon DEF JoinsUpto
  <2> QED
    BY <2>2
<1> QED
  BY <1>4, Zenon DEF Joinable, JoinStep

\* The blocks that are joined are blocks of the map.
LEMMA JoinableFacts == Joinable[MaxKey].keys \subseteq InMap
<1> DEFINE Bad == {n \in Nat : n <= MaxKey + 1 /\ ~ (Joinable[n - 1].keys \subseteq InMap)}
<1>0. MaxKey \in Nat /\ MaxKey + 1 - 1 = MaxKey
  BY ConstantsAssumption
<1>1. \A k \in -1..MaxKey : Joinable[k] = IF k = -1 THEN [size |-> 0, keys |-> {}]
                                           ELSE JoinStep(Joinable[k - 1], k)
  BY JoinableEquation
<1>2. Bad = {}
  <2>1. SUFFICES ASSUME Bad # {} PROVE FALSE
    OBVIOUS
  <2>2. PICK n \in Bad : \A m \in Bad : n <= m
    <3>1. Bad \in SUBSET Nat
      OBVIOUS
    <3> HIDE DEF Bad
    <3> QED
      BY <2>1, <3>1, LeastNumber
  <2>3. n \in Nat /\ n <= MaxKey + 1 /\ ~ (Joinable[n - 1].keys \subseteq InMap)
    BY <2>2
  <2>4. n - 1 \in -1..MaxKey
    BY <1>0, <2>3
  <2>5. CASE n = 0
    <3>1. Joinable[n - 1] = [size |-> 0, keys |-> {}]
      BY <1>1, <2>4, <2>5
    <3> QED
      BY <2>3, <3>1
  <2>6. CASE n # 0
    <3> DEFINE before == Joinable[(n - 1) - 1]
    <3>1. n - 1 \in Nat /\ n - 1 <= MaxKey + 1 /\ ~ (n <= n - 1) /\ n - 1 # -1
      BY <1>0, <2>3, <2>6
    <3>2. n - 1 \notin Bad
      BY <2>2, <3>1
    <3>3. before.keys \subseteq InMap
      BY <3>1, <3>2
    <3>4. Joinable[n - 1] = JoinStep(before, n - 1)
      BY <1>1, <2>4, <3>1
    <3> HIDE DEF before
    <3>5. JoinStep(before, n - 1).keys \subseteq InMap
      BY <3>3 DEF JoinStep
    <3> QED
      BY <2>3, <3>4, <3>5
  <2> QED
    BY <2>5, <2>6
<1>3. MaxKey + 1 \in Nat /\ MaxKey + 1 <= MaxKey + 1
  BY <1>0
<1>4. Joinable[(MaxKey + 1) - 1].keys \subseteq InMap
  BY <1>2, <1>3, Zenon
<1> QED
  BY <1>0, <1>4

-----------------------------------------------------------------------------
(***************************************************************************)
(* Type correctness and routing.                                           *)
(***************************************************************************)

\* What a block and the absence of one look like.
LEMMA BlockFacts ==
    /\ \A b \in Block : /\ b # NoBlock
                        /\ b.id \in Ids /\ b.index \subseteq Keys
                        /\ b.log \subseteq Streams /\ b.new \subseteq Streams
    /\ NoBlock.id = 0 /\ NoBlock.index = {} /\ NoBlock.log = {} /\ NoBlock.new = {}
    /\ \A i \in Ids, X \in SUBSET Keys, L \in SUBSET Streams, W \in SUBSET Streams :
          [id |-> i, index |-> X, log |-> L, new |-> W] \in Block
<1>1. \A b \in Block : /\ b.id \in Ids /\ b.index \subseteq Keys
                       /\ b.log \subseteq Streams /\ b.new \subseteq Streams
  BY DEF Block
<1>2. NoBlock.id = 0 /\ NoBlock.index = {} /\ NoBlock.log = {} /\ NoBlock.new = {}
  BY DEF NoBlock
<1>3. 0 \notin Ids
  BY ConstantsAssumption DEF Ids
<1>4. \A b \in Block : b # NoBlock
  BY <1>1, <1>2, <1>3
<1>5. \A i \in Ids, X \in SUBSET Keys, L \in SUBSET Streams, W \in SUBSET Streams :
          [id |-> i, index |-> X, log |-> L, new |-> W] \in Block
  BY DEF Block
<1> QED
  BY <1>1, <1>2, <1>4, <1>5

\* The blocks in the map are blocks.
LEMMA InMapFacts ==
    ASSUME MapPart
    PROVE  /\ \A k \in EndKeys : k \in InMap <=> blocks[k] # NoBlock
           /\ \A k \in InMap : /\ k \in EndKeys
                               /\ blocks[k] \in Block
                               /\ blocks[k].id \in Ids
                               /\ blocks[k].id < nextId
                               /\ blocks[k].index \subseteq Keys
                               /\ blocks[k].log \subseteq Streams
                               /\ blocks[k].new \subseteq Streams
<1>1. \A k \in EndKeys : k \in InMap <=> blocks[k] # NoBlock
  BY DEF InMap
<1>2. \A k \in InMap : k \in EndKeys /\ blocks[k] \in Block /\ blocks[k].id < nextId
  BY DEF InMap, MapPart
<1> QED
  BY <1>1, <1>2, BlockFacts

\* One block of the map is put there, or replaced.
LEMMA MapPut ==
    ASSUME MapPart,
           NEW k \in EndKeys, NEW b \in Block,
           blocks' = [blocks EXCEPT ![k] = b],
           b.id < nextId', b.log \cup b.new \subseteq sent',
           sent \subseteq sent',
           nextId \in Nat, nextId' \in Nat, nextId <= nextId'
    PROVE  /\ MapPart'
           /\ InMap' = InMap \cup {k}
           /\ blocks'[k] = b
           /\ \A j \in EndKeys : j # k => blocks'[j] = blocks[j]
<1>1. blocks \in [EndKeys -> Block \cup {NoBlock}]
  BY DEF MapPart
<1>2. /\ blocks' \in [EndKeys -> Block \cup {NoBlock}]
      /\ blocks'[k] = b
      /\ \A j \in EndKeys : j # k => blocks'[j] = blocks[j]
  BY <1>1
<1>3. b # NoBlock
  BY BlockFacts
<1>4. \A j : j \in InMap' <=> j \in EndKeys /\ blocks'[j] # NoBlock
  BY DEF InMap
<1>5. \A j : j \in InMap <=> j \in EndKeys /\ blocks[j] # NoBlock
  BY DEF InMap
<1>6. InMap' = InMap \cup {k}
  <2>1. \A j : j \in InMap' <=> j \in InMap \cup {k}
    BY <1>2, <1>3, <1>4, <1>5
  <2> QED
    BY <2>1
<1>7. ASSUME NEW j \in InMap'
      PROVE  blocks'[j].id < nextId'
  <2>1. CASE j = k
    BY <1>2, <2>1
  <2>2. CASE j # k
    <3>1. j \in InMap /\ blocks'[j] = blocks[j]
      BY <1>2, <1>4, <1>6, <2>2
    <3>2. blocks[j].id \in Ids /\ blocks[j].id < nextId
      BY <3>1, InMapFacts
    <3>3. blocks[j].id \in Nat
      BY <3>2 DEF Ids
    <3>4. \A i \in Nat : i < nextId => i < nextId'
      OBVIOUS
    <3> QED
      BY <3>1, <3>2, <3>3, <3>4
  <2> QED
    BY <2>1, <2>2
<1>8. ASSUME NEW j \in EndKeys
      PROVE  blocks'[j].log \cup blocks'[j].new \subseteq sent'
  <2>1. blocks[j].log \cup blocks[j].new \subseteq sent
    BY DEF MapPart
  <2>2. CASE j = k
    BY <1>2, <2>2
  <2>3. CASE j # k
    <3>1. blocks'[j] = blocks[j]
      BY <1>2, <2>3
    <3> QED
      BY <2>1, <3>1
  <2> QED
    BY <2>2, <2>3
<1> QED
  BY <1>2, <1>6, <1>7, <1>8 DEF MapPart

\* One block of the map is removed.
LEMMA MapDrop ==
    ASSUME MapPart,
           NEW k \in EndKeys,
           blocks' = [blocks EXCEPT ![k] = NoBlock],
           UNCHANGED <<sent, nextId>>
    PROVE  /\ MapPart'
           /\ InMap' = InMap \ {k}
           /\ \A j \in EndKeys : j # k => blocks'[j] = blocks[j]
<1>1. blocks \in [EndKeys -> Block \cup {NoBlock}]
  BY DEF MapPart
<1>2. /\ blocks' \in [EndKeys -> Block \cup {NoBlock}]
      /\ blocks'[k] = NoBlock
      /\ \A j \in EndKeys : j # k => blocks'[j] = blocks[j]
  BY <1>1
<1>4. \A j : j \in InMap' <=> j \in EndKeys /\ blocks'[j] # NoBlock
  BY DEF InMap
<1>5. \A j : j \in InMap <=> j \in EndKeys /\ blocks[j] # NoBlock
  BY DEF InMap
<1>6. InMap' = InMap \ {k}
  <2>1. \A j : j \in InMap' <=> j \in InMap \ {k}
    BY <1>2, <1>4, <1>5
  <2> QED
    BY <2>1
<1>7. ASSUME NEW j \in InMap'
      PROVE  blocks'[j].id < nextId'
  <2>1. j \in InMap /\ blocks'[j] = blocks[j]
    BY <1>2, <1>4, <1>6
  <2> QED
    BY <2>1, InMapFacts
<1>8. ASSUME NEW j \in EndKeys
      PROVE  blocks'[j].log \cup blocks'[j].new \subseteq sent'
  <2>1. blocks[j].log \cup blocks[j].new \subseteq sent
    BY DEF MapPart
  <2>2. CASE j = k
    BY <1>2, <2>2, BlockFacts
  <2>3. CASE j # k
    <3>1. blocks'[j] = blocks[j]
      BY <1>2, <2>3
    <3> QED
      BY <2>1, <3>1
  <2> QED
    BY <2>2, <2>3
<1> QED
  BY <1>2, <1>6, <1>7, <1>8 DEF MapPart

\* No block of the map changes.
LEMMA MapKept ==
    ASSUME MapPart, blocks' = blocks, sent \subseteq sent',
           nextId \in Nat, nextId' \in Nat, nextId <= nextId'
    PROVE  MapPart' /\ InMap' = InMap
<1>1. InMap' = InMap
  BY DEF InMap
<1>2. ASSUME NEW j \in InMap
      PROVE  blocks[j].id < nextId'
  <2>1. blocks[j].id \in Ids /\ blocks[j].id < nextId
    BY InMapFacts
  <2>2. blocks[j].id \in Nat
    BY <2>1 DEF Ids
  <2>3. \A i \in Nat : i < nextId => i < nextId'
    OBVIOUS
  <2> QED
    BY <2>1, <2>2, <2>3
<1>3. ASSUME NEW j \in EndKeys
      PROVE  blocks[j].log \cup blocks[j].new \subseteq sent'
  <2>1. blocks[j].log \cup blocks[j].new \subseteq sent
    BY DEF MapPart
  <2> QED
    BY <2>1
<1>4. blocks \in [EndKeys -> Block \cup {NoBlock}]
  BY DEF MapPart
<1> QED
  BY <1>1, <1>2, <1>3, <1>4 DEF MapPart

\* The ids that have been given out stay given out.
LEMMA NumbersBelow == \A m, n \in Nat : m <= n => 1..(m - 1) \subseteq 1..(n - 1)
OBVIOUS

\* The files stay as they are while clients write and ids are given out.
LEMMA FilesKept ==
    ASSUME FilePart, UNCHANGED fileVars, sent \subseteq sent',
           nextId \in Nat, nextId' \in Nat, nextId <= nextId'
    PROVE  FilePart'
<1>1. 1..(nextId - 1) \subseteq 1..(nextId' - 1)
  BY NumbersBelow
<1>2. \A i \in Ids : file[i] \cup tmp[i] \subseteq sent'
  BY DEF FilePart
<1> QED
  BY <1>1, <1>2 DEF FilePart, fileVars

\* So do the logs.
LEMMA LogsKept ==
    ASSUME LogPart, UNCHANGED logf, sent \subseteq sent',
           nextId \in Nat, nextId' \in Nat, nextId <= nextId'
    PROVE  LogPart'
<1>1. ASSUME NEW i \in Ids, i >= nextId'
      PROVE  logf[i] = {}
  <2>1. i \in Nat
    BY DEF Ids
  <2>2. i >= nextId
    BY <1>1, <2>1
  <2> QED
    BY <2>2 DEF LogPart
<1>2. \A i \in Ids : logf[i] \subseteq sent'
  BY DEF LogPart
<1> QED
  BY <1>1, <1>2 DEF LogPart

\* A file is written.
LEMMA FileWritten ==
    ASSUME FilePart, nextId \in Nat, UNCHANGED <<sent, nextId>>,
           NEW i \in Ids, i < nextId,
           NEW S \in SUBSET Streams, S \subseteq sent, WriteFile(i, S)
    PROVE  FilePart'
<1>1. PICK T : /\ T \in IF i \in tmpIds THEN SUBSET (tmp[i] \cup S) ELSE {S}
               /\ file' = [file EXCEPT ![i] = T]
  BY DEF WriteFile
<1>2. /\ header' = [header EXCEPT ![i] = KeysOf(S)]
      /\ fileIds' = fileIds \cup {i}
      /\ tmp' = [tmp EXCEPT ![i] = {}]
      /\ tmpIds' = tmpIds \ {i}
      /\ damaged' = (damaged \/ i \in tmpIds)
  BY DEF WriteFile
<1>3. /\ file \in [Ids -> SUBSET Streams] /\ tmp \in [Ids -> SUBSET Streams]
      /\ header \in [Ids -> SUBSET Keys]
      /\ \A j \in Ids : file[j] \cup tmp[j] \subseteq sent
      /\ \A j \in Ids : j \notin fileIds => file[j] = {}
      /\ fileIds \subseteq 1..(nextId - 1) /\ tmpIds \subseteq Ids
  BY DEF FilePart
<1>4. T \subseteq Streams /\ T \subseteq sent
  BY <1>1, <1>3
<1>5. file' \in [Ids -> SUBSET Streams] /\ tmp' \in [Ids -> SUBSET Streams]
  BY <1>1, <1>2, <1>3, <1>4
<1>6. header' \in [Ids -> SUBSET Keys]
  <2>1. KeysOf(S) \in SUBSET Keys
    BY KeysOfFacts
  <2> QED
    BY <1>2, <1>3, <2>1
<1>7. fileIds' \subseteq 1..(nextId' - 1)
  <2>1. i \in 1..(nextId - 1)
    BY DEF Ids
  <2> QED
    BY <1>2, <1>3, <2>1
<1>8. ASSUME NEW j \in Ids
      PROVE  file'[j] \cup tmp'[j] \subseteq sent' /\ (j \notin fileIds' => file'[j] = {})
  <2>1. CASE j = i
    BY <1>1, <1>2, <1>3, <1>4, <2>1
  <2>2. CASE j # i
    <3>1. file'[j] = file[j] /\ tmp'[j] = tmp[j] /\ (j \notin fileIds' => j \notin fileIds)
      BY <1>1, <1>2, <1>3, <2>2
    <3> QED
      BY <1>3, <3>1
  <2> QED
    BY <2>1, <2>2
<1>9. tmpIds' \subseteq Ids /\ damaged' \in BOOLEAN
  BY <1>2, <1>3
<1> QED
  BY <1>5, <1>6, <1>7, <1>8, <1>9 DEF FilePart

\* The rename of a file fails.
LEMMA FileNotWritten ==
    ASSUME FilePart, nextId \in Nat, UNCHANGED <<sent, nextId>>, NEW i \in Ids,
           NEW S \in SUBSET Streams, S \subseteq sent, WriteFails(i, S)
    PROVE  FilePart'
<1>1. /\ tmp' = [tmp EXCEPT ![i] = @ \cup S]
      /\ tmpIds' = tmpIds \cup {i}
      /\ UNCHANGED <<file, header, fileIds, damaged>>
  BY DEF WriteFails
<1>2. /\ tmp \in [Ids -> SUBSET Streams] /\ tmpIds \subseteq Ids
      /\ \A j \in Ids : file[j] \cup tmp[j] \subseteq sent
  BY DEF FilePart
<1>3. tmp' \in [Ids -> SUBSET Streams] /\ tmpIds' \subseteq Ids
  BY <1>1, <1>2
<1>4. ASSUME NEW j \in Ids
      PROVE  file[j] \cup tmp'[j] \subseteq sent
  <2>1. CASE j = i
    BY <1>1, <1>2, <2>1
  <2>2. CASE j # i
    BY <1>1, <1>2, <2>2
  <2> QED
    BY <2>1, <2>2
<1> QED
  BY <1>1, <1>3, <1>4 DEF FilePart

\* The log of a block is removed.
LEMMA LogRemoved ==
    ASSUME LogPart, UNCHANGED <<sent, nextId>>, NEW i \in Ids,
           logf' = [logf EXCEPT ![i] = {}]
    PROVE  LogPart'
<1>1. logf \in [Ids -> SUBSET Streams]
  BY DEF LogPart
<1>2. logf' \in [Ids -> SUBSET Streams] /\ \A j \in Ids : logf'[j] \subseteq logf[j]
  BY <1>1
<1>3. \A j \in Ids : /\ logf[j] \subseteq sent
                     /\ j >= nextId => logf[j] = {}
  BY DEF LogPart
<1>4. \A j \in Ids : /\ logf'[j] \subseteq sent'
                     /\ j >= nextId' => logf'[j] = {}
  BY <1>2, <1>3
<1> QED
  BY <1>2, <1>4 DEF LogPart

\* The ticker does nothing while blocks are added to the map.
LEMMA TickKept ==
    ASSUME TickPart, UNCHANGED <<mode, tpc, tick>>,
           blockKeys' \subseteq EndKeys, blockKeys \subseteq blockKeys',
           InMap \subseteq InMap', InMap' \subseteq blockKeys',
           mode = "down" => InMap' = {},
           sent \subseteq sent',
           nextId \in Nat, nextId' \in Nat, nextId <= nextId'
    PROVE  TickPart'
<1>1. 1..(nextId - 1) \subseteq 1..(nextId' - 1)
  BY NumbersBelow
<1>2. tpc \in Joins \cup (Splits \ {"splitRead"}) => tick.id \in 1..(nextId' - 1)
  BY <1>1 DEF TickPart
<1>3. tpc \in Joins => tick.key \in blockKeys'
  BY DEF TickPart
<1>4. tick.keys \subseteq InMap' /\ tick.buf \subseteq sent'
  BY DEF TickPart
<1> QED
  BY <1>2, <1>3, <1>4 DEF TickPart

\* The ticker has finished what it was doing.
LEMMA TickIdle ==
    ASSUME tpc' = "idle", tick' = NoTick,
           mode' \in {"up", "down", "files", "logs"},
           blockKeys' \subseteq EndKeys, InMap' \subseteq blockKeys',
           mode' = "down" => InMap' = {}
    PROVE  TickPart'
<1>1. NoTick \in [keys : SUBSET EndKeys, key : EndKeys, id : 0..MaxIds,
                  buf : SUBSET Streams]
  BY ConstantsAssumption DEF NoTick, EndKeys
<1>2. NoTick.keys = {} /\ NoTick.buf = {}
  BY DEF NoTick
<1>3. "idle" \in TickPC /\ "idle" \notin Splits /\ "idle" \notin Joins
  BY DEF TickPC, Splits, Joins
<1> QED
  BY <1>1, <1>2, <1>3 DEF TickPart

\* What a Write or a compaction puts into the place of a block.
LEMMA BlockUpdates ==
    ASSUME MapPart, NEW k \in InMap
    PROVE  LET b == blocks[k] IN
           /\ \A X : [blocks EXCEPT ![k].index = X] =
                [blocks EXCEPT ![k] = [id |-> b.id, index |-> X, log |-> b.log,
                                       new |-> b.new]]
           /\ \A X : [blocks EXCEPT ![k].index = X, ![k].log = {}] =
                [blocks EXCEPT ![k] = [id |-> b.id, index |-> X, log |-> {},
                                       new |-> b.new]]
           /\ \A X : [blocks EXCEPT ![k].log = X] =
                [blocks EXCEPT ![k] = [id |-> b.id, index |-> b.index, log |-> X,
                                       new |-> b.new]]
           /\ \A s : [blocks EXCEPT ![k].new = @ \cup {s}] =
                [blocks EXCEPT ![k] = [id |-> b.id, index |-> b.index,
                                       log |-> b.log, new |-> b.new \cup {s}]]
<1>1. blocks \in [EndKeys -> Block \cup {NoBlock}] /\ k \in EndKeys /\ blocks[k] \in Block
  BY InMapFacts DEF MapPart
<1>3. ASSUME NEW X
      PROVE  [blocks EXCEPT ![k].index = X] =
                [blocks EXCEPT ![k] = [id |-> blocks[k].id, index |-> X,
                  log |-> blocks[k].log, new |-> blocks[k].new]]
  <2>1. [blocks[k] EXCEPT !.index = X] = [id |-> blocks[k].id, index |-> X,
                  log |-> blocks[k].log, new |-> blocks[k].new]
    BY <1>1 DEF Block
  <2>2. [blocks EXCEPT ![k].index = X] = [blocks EXCEPT ![k] = [blocks[k] EXCEPT !.index = X]]
    BY <1>1
  <2> QED
    BY <2>1, <2>2, Zenon
<1>4. ASSUME NEW X
      PROVE  [blocks EXCEPT ![k].index = X, ![k].log = {}] =
                [blocks EXCEPT ![k] = [id |-> blocks[k].id, index |-> X,
                  log |-> {}, new |-> blocks[k].new]]
  <2>1. [blocks[k] EXCEPT !.index = X, !.log = {}] = [id |-> blocks[k].id, index |-> X,
                  log |-> {}, new |-> blocks[k].new]
    <3> DEFINE c == [id |-> blocks[k].id, index |-> X, log |-> blocks[k].log,
                     new |-> blocks[k].new]
    <3>2. [blocks[k] EXCEPT !.index = X] = c
      BY <1>1 DEF Block
    <3>3. [c EXCEPT !.log = {}] = [id |-> blocks[k].id, index |-> X, log |-> {},
                                   new |-> blocks[k].new]
      OBVIOUS
    <3>4. [blocks[k] EXCEPT !.index = X, !.log = {}] =
          [[blocks[k] EXCEPT !.index = X] EXCEPT !.log = {}]
      OBVIOUS
    <3> HIDE DEF c
    <3> QED
      BY <3>2, <3>3, <3>4, Zenon
  <2>2. [blocks EXCEPT ![k].index = X, ![k].log = {}] =
          [blocks EXCEPT ![k] = [blocks[k] EXCEPT !.index = X, !.log = {}]]
    BY <1>1
  <2> QED
    BY <2>1, <2>2, Zenon
<1>5. ASSUME NEW X
      PROVE  [blocks EXCEPT ![k].log = X] =
                [blocks EXCEPT ![k] = [id |-> blocks[k].id, index |-> blocks[k].index,
                  log |-> X, new |-> blocks[k].new]]
  <2>1. [blocks[k] EXCEPT !.log = X] = [id |-> blocks[k].id, index |-> blocks[k].index,
                  log |-> X, new |-> blocks[k].new]
    BY <1>1 DEF Block
  <2>2. [blocks EXCEPT ![k].log = X] = [blocks EXCEPT ![k] = [blocks[k] EXCEPT !.log = X]]
    BY <1>1
  <2> QED
    BY <2>1, <2>2, Zenon
<1>6. ASSUME NEW s
      PROVE  [blocks EXCEPT ![k].new = @ \cup {s}] =
                [blocks EXCEPT ![k] = [id |-> blocks[k].id, index |-> blocks[k].index,
                  log |-> blocks[k].log, new |-> blocks[k].new \cup {s}]]
  <2>1. [blocks[k] EXCEPT !.new = @ \cup {s}] = [id |-> blocks[k].id, index |-> blocks[k].index,
                  log |-> blocks[k].log, new |-> blocks[k].new \cup {s}]
    BY <1>1 DEF Block
  <2>2. [blocks EXCEPT ![k].new = @ \cup {s}] =
          [blocks EXCEPT ![k] = [blocks[k] EXCEPT !.new = @ \cup {s}]]
    BY <1>1
  <2> QED
    BY <2>1, <2>2, Zenon
<1> QED
  BY <1>3, <1>4, <1>5, <1>6

\* What DatastoreBlock.Read finds has been sent.
LEMMA ReadFacts ==
    ASSUME MapInv, NEW k \in InMap
    PROVE  Read(k) \in SUBSET Streams /\ Read(k) \subseteq sent /\ KeysOf(Read(k)) \in SUBSET Keys
<1>1. blocks[k].id \in Ids /\ blocks[k].log \subseteq Streams /\ k \in EndKeys
  BY InMapFacts DEF MapInv
<1>2. blocks[k].log \subseteq sent
  BY <1>1 DEF MapInv, MapPart
<1>3. file[blocks[k].id] \subseteq Streams /\ file[blocks[k].id] \subseteq sent
  BY <1>1 DEF MapInv, FilePart
<1>4. Read(k) \subseteq Streams /\ Read(k) \subseteq sent
  BY <1>1, <1>2, <1>3 DEF Read
<1> QED
  BY <1>4, KeysOfFacts

\* A compaction that succeeds, and one that fails.
LEMMA Compacted ==
    ASSUME MapInv, NEW k \in InMap, compactBlock(k) \/ compactBlockFails(k),
           UNCHANGED <<sent, nextId>>
    PROVE  MapPart' /\ FilePart' /\ LogPart' /\ InMap' = InMap
<1> DEFINE b == blocks[k]
           X == KeysOf(Read(k))
<1>1. k \in EndKeys /\ b \in Block /\ b.id \in Ids /\ b.id < nextId /\ b.new \subseteq Streams
      /\ b.log \subseteq Streams /\ b.log \cup b.new \subseteq sent
  BY InMapFacts DEF MapInv, MapPart
<1>2. X \in SUBSET Keys /\ Read(k) \in SUBSET Streams /\ Read(k) \subseteq sent
  BY ReadFacts
<1>3. nextId \in Nat /\ sent \subseteq sent' /\ nextId' \in Nat /\ nextId <= nextId'
  BY DEF MapInv, RestPart
<1>4. MapPart /\ FilePart /\ LogPart
  BY DEF MapInv
<1>5. \A L : L \in {{}, b.log} => [id |-> b.id, index |-> X, log |-> L, new |-> b.new] \in Block
  BY <1>1, <1>2, BlockFacts
<1> HIDE DEF X, b
<1>6. CASE compactBlock(k)
  <2> DEFINE c == [id |-> b.id, index |-> X, log |-> {}, new |-> b.new]
  <2>1. blocks' = [blocks EXCEPT ![k] = c]
    BY <1>4, <1>6, BlockUpdates DEF compactBlock, X, b
  <2>2. c \in Block /\ c.id < nextId' /\ c.log \cup c.new \subseteq sent'
    BY <1>1, <1>5
  <2>3. MapPart' /\ InMap' = InMap \cup {k}
    <3> HIDE DEF c
    <3> QED
      BY <1>1, <1>3, <1>4, <2>1, <2>2, MapPut
  <2>4. FilePart'
    BY <1>1, <1>2, <1>3, <1>4, <1>6, FileWritten DEF compactBlock, b
  <2>5. LogPart'
    BY <1>1, <1>4, <1>6, LogRemoved DEF compactBlock, b
  <2> QED
    BY <2>3, <2>4, <2>5
<1>7. CASE compactBlockFails(k)
  <2> DEFINE c == [id |-> b.id, index |-> X, log |-> b.log, new |-> b.new]
  <2>1. blocks' = [blocks EXCEPT ![k] = c]
    BY <1>4, <1>7, BlockUpdates DEF compactBlockFails, X, b
  <2>2. c \in Block /\ c.id < nextId' /\ c.log \cup c.new \subseteq sent'
    BY <1>1, <1>5
  <2>3. MapPart' /\ InMap' = InMap \cup {k}
    <3> HIDE DEF c
    <3> QED
      BY <1>1, <1>3, <1>4, <2>1, <2>2, MapPut
  <2>4. FilePart'
    BY <1>1, <1>2, <1>3, <1>4, <1>7, FileNotWritten DEF compactBlockFails, b
  <2>5. LogPart'
    BY <1>3, <1>4, <1>7, LogsKept DEF compactBlockFails
  <2> QED
    BY <2>3, <2>4, <2>5
<1> QED
  BY <1>6, <1>7

\* One block is removed, and one is put into the map.
LEMMA MapReplace ==
    ASSUME MapPart,
           NEW k \in EndKeys, NEW f \in EndKeys, NEW b \in Block,
           blocks' = [[blocks EXCEPT ![k] = NoBlock] EXCEPT ![f] = b],
           b.id < nextId, b.log \cup b.new \subseteq sent,
           UNCHANGED <<sent, nextId>>
    PROVE  /\ MapPart'
           /\ InMap' = (InMap \ {k}) \cup {f}
           /\ blocks'[f] = b
           /\ \A j \in EndKeys : j # k /\ j # f => blocks'[j] = blocks[j]
<1>1. blocks \in [EndKeys -> Block \cup {NoBlock}]
  BY DEF MapPart
<1>2. /\ blocks' \in [EndKeys -> Block \cup {NoBlock}]
      /\ blocks'[f] = b
      /\ k # f => blocks'[k] = NoBlock
      /\ \A j \in EndKeys : j # k /\ j # f => blocks'[j] = blocks[j]
  BY <1>1
<1>3. b # NoBlock
  BY BlockFacts
<1>4. \A j : j \in InMap' <=> j \in EndKeys /\ blocks'[j] # NoBlock
  BY DEF InMap
<1>5. \A j : j \in InMap <=> j \in EndKeys /\ blocks[j] # NoBlock
  BY DEF InMap
<1>6. InMap' = (InMap \ {k}) \cup {f}
  <2>1. \A j : j \in InMap' <=> j \in (InMap \ {k}) \cup {f}
    BY <1>2, <1>3, <1>4, <1>5
  <2> QED
    BY <2>1
<1>7. ASSUME NEW j \in InMap'
      PROVE  blocks'[j].id < nextId'
  <2>1. CASE j = f
    BY <1>2, <2>1
  <2>2. CASE j # f
    <3>1. j \in InMap /\ blocks'[j] = blocks[j]
      BY <1>2, <1>4, <1>6, <2>2
    <3> QED
      BY <3>1, InMapFacts
  <2> QED
    BY <2>1, <2>2
<1>8. ASSUME NEW j \in EndKeys
      PROVE  blocks'[j].log \cup blocks'[j].new \subseteq sent'
  <2>1. blocks[j].log \cup blocks[j].new \subseteq sent
    BY DEF MapPart
  <2>2. CASE j = f
    BY <1>2, <2>2
  <2>3. CASE j # f /\ j = k
    BY <1>2, <2>3, BlockFacts
  <2>4. CASE j # f /\ j # k
    <3>1. blocks'[j] = blocks[j]
      BY <1>2, <2>4
    <3> QED
      BY <2>1, <3>1
  <2> QED
    BY <2>2, <2>3, <2>4
<1> QED
  BY <1>2, <1>6, <1>7, <1>8 DEF MapPart

\* A file goes, and comes to nothing.
LEMMA FileRemoved ==
    ASSUME FilePart, UNCHANGED <<sent, nextId, tmp, tmpIds, damaged>>, NEW i \in Ids,
           file' = [file EXCEPT ![i] = {}],
           header' = [header EXCEPT ![i] = {}],
           fileIds' = fileIds \ {i}
    PROVE  FilePart'
<1>1. /\ file \in [Ids -> SUBSET Streams] /\ header \in [Ids -> SUBSET Keys]
      /\ \A j \in Ids : file[j] \cup tmp[j] \subseteq sent
      /\ \A j \in Ids : j \notin fileIds => file[j] = {}
  BY DEF FilePart
<1>2. file' \in [Ids -> SUBSET Streams] /\ header' \in [Ids -> SUBSET Keys]
  BY <1>1
<1>3. ASSUME NEW j \in Ids
      PROVE  file'[j] \cup tmp[j] \subseteq sent /\ (j \notin fileIds' => file'[j] = {})
  <2>1. CASE j = i
    BY <1>1, <2>1
  <2>2. CASE j # i
    <3>1. file'[j] = file[j] /\ (j \notin fileIds' => j \notin fileIds)
      BY <1>1, <2>2
    <3> QED
      BY <1>1, <3>1
  <2> QED
    BY <2>1, <2>2
<1> QED
  BY <1>2, <1>3 DEF FilePart

\* What a step does to the other variables, when it gives out no id.
LEMMA RestKept ==
    ASSUME RestPart, UNCHANGED <<pending, nextId, sent, flushed, clash, crashes>>,
           raced' \in BOOLEAN,
           errors' = errors \/ IOError
    PROVE  RestPart'
<1>1. errors' \in 0..MaxErrors
  <2>1. errors \in 0..MaxErrors /\ MaxErrors \in Nat
    BY ConstantsAssumption DEF RestPart
  <2>2. CASE errors' = errors
    BY <2>1, <2>2
  <2>3. CASE IOError
    BY <2>1, <2>3 DEF IOError
  <2> QED
    BY <2>2, <2>3
<1> QED
  BY <1>1 DEF RestPart

\* The parts hold initially.
LEMMA MapInvInit == Init => MapInv
<1> SUFFICES ASSUME Init PROVE MapInv
  OBVIOUS
<1>1. InMap = {}
  BY DEF Init, InMap
<1>2. MapPart
  BY <1>1, BlockFacts DEF Init, MapPart
<1>3. FilePart /\ LogPart
  BY DEF Init, FilePart, LogPart
<1>4. TickPart
  <2>1. NoTick \in [keys : SUBSET EndKeys, key : EndKeys, id : 0..MaxIds,
                    buf : SUBSET Streams]
    BY ConstantsAssumption DEF NoTick, EndKeys
  <2>2. NoTick.keys = {} /\ NoTick.buf = {}
    BY DEF NoTick
  <2>3. "idle" \in TickPC /\ "idle" \notin Splits /\ "idle" \notin Joins
    BY DEF TickPC, Splits, Joins
  <2> QED
    BY <1>1, <2>1, <2>2, <2>3 DEF Init, TickPart
<1>5. RestPart
  <2>1. nextId \in 1..(MaxIds + 1) /\ crashes \in 0..MaxCrashes /\ errors \in 0..MaxErrors
    BY ConstantsAssumption DEF Init
  <2> QED
    BY <2>1 DEF Init, RestPart
<1> QED
  BY <1>2, <1>3, <1>4, <1>5 DEF MapInv

\* Every step preserves the parts, whatever races it takes part in.
LEMMA MapInvStep == MapInv /\ [Next]_vars => MapInv'
<1> SUFFICES ASSUME MapInv, [Next]_vars
             PROVE  MapInv'
  OBVIOUS
<1>a. MapPart /\ FilePart /\ LogPart /\ TickPart /\ RestPart
  BY DEF MapInv
<1>b. nextId \in Nat /\ nextId <= MaxIds + 1 /\ MaxIds \in Nat
  BY ConstantsAssumption DEF MapInv, RestPart
<1>c. /\ blockKeys \subseteq EndKeys /\ InMap \subseteq blockKeys
      /\ tick.keys \subseteq InMap
      /\ tick.buf \in SUBSET Streams /\ tick.buf \subseteq sent /\ tick.key \in EndKeys
  BY DEF MapInv, TickPart
<1>d. sent \subseteq sent /\ nextId <= nextId
  BY <1>b
<1>1. ASSUME NEW s \in Streams, Write(s) PROVE MapInv'
  <2> DEFINE above == {k \in blockKeys : k >= s[1]}
             at    == Min(above)
  <2>1. /\ mode = "up"
        /\ sent' = sent \cup {s}
        /\ UNCHANGED <<mode, tpc, tick, fileVars, logf, pending, flushed, clash,
                       crashes, errors>>
    BY <1>1 DEF Write, tickVars, diskVars, boundVars
  <2>2. sent \subseteq sent' /\ s \in sent'
    BY <2>1
  <2>3. ASSUME /\ MapPart' /\ InMap \subseteq InMap' /\ InMap' \subseteq blockKeys'
               /\ blockKeys' \subseteq EndKeys /\ blockKeys \subseteq blockKeys'
               /\ nextId' \in 1..(MaxIds + 1) /\ nextId <= nextId'
               /\ raced' \in BOOLEAN
        PROVE  MapInv'
    <3>1. nextId' \in Nat
      BY <1>b, <2>3
    <3>2. FilePart' /\ LogPart'
      BY <1>a, <1>b, <2>1, <2>2, <2>3, <3>1, FilesKept, LogsKept
    <3>3. TickPart'
      BY <1>a, <1>b, <2>1, <2>2, <2>3, <3>1, TickKept
    <3>4. RestPart'
      <4>1. 1..(nextId - 1) \subseteq 1..(nextId' - 1)
        BY <1>b, <2>3, <3>1, NumbersBelow
      <4> QED
        BY <1>a, <2>1, <2>3, <4>1 DEF RestPart
    <3> QED
      BY <2>3, <3>2, <3>3, <3>4 DEF MapInv
  <2>4. CASE /\ above # {}
             /\ at \in InMap
             /\ blocks' = [blocks EXCEPT ![at].new = @ \cup {s}]
             /\ raced' = (raced \/ at \in Busy)
             /\ UNCHANGED <<blockKeys, nextId>>
    <3> HIDE DEF at, above
    <3> DEFINE b == blocks[at]
               c == [id |-> b.id, index |-> b.index, log |-> b.log, new |-> b.new \cup {s}]
    <3>1. blocks' = [blocks EXCEPT ![at] = c]
      BY <1>a, <2>4, BlockUpdates
    <3>2. /\ at \in EndKeys /\ b \in Block /\ b.id \in Ids /\ b.id < nextId
          /\ b.index \subseteq Keys /\ b.log \subseteq Streams /\ b.new \subseteq Streams
      BY <1>a, <2>4, InMapFacts
    <3>3. b.log \cup b.new \subseteq sent
      BY <1>a, <3>2 DEF MapPart
    <3>4. c \in Block
      BY <3>2, BlockFacts
    <3>5. c.id < nextId' /\ c.log \cup c.new \subseteq sent'
      BY <2>2, <2>4, <3>2, <3>3
    <3> HIDE DEF c, b
    <3>6. MapPart' /\ InMap' = InMap \cup {at}
      <4>1. nextId' = nextId
        BY <2>4
      <4>2. nextId' \in Nat /\ nextId <= nextId'
        BY <1>b, <4>1
      <4> QED
        BY <1>a, <1>b, <2>2, <3>1, <3>2, <3>4, <3>5, <4>2, MapPut
    <3>7. nextId' \in 1..(MaxIds + 1) /\ nextId <= nextId' /\ raced' \in BOOLEAN
      BY <1>a, <1>b, <2>4 DEF RestPart
    <3> QED
      BY <1>c, <2>3, <2>4, <3>6, <3>7
  <2>5. CASE UNCHANGED <<mapVars, nextId, raced>>
    <3>1. MapPart' /\ InMap' = InMap
      BY <1>a, <1>b, <1>d, <2>2, <2>5, MapKept DEF mapVars
    <3>2. nextId' \in 1..(MaxIds + 1) /\ nextId <= nextId' /\ raced' \in BOOLEAN
      BY <1>a, <1>b, <2>5 DEF RestPart
    <3> QED
      BY <1>c, <2>3, <2>5, <3>1, <3>2 DEF mapVars
  <2>6. CASE /\ nextId \in Ids
             /\ insertBlock(s[1], [newBlock(nextId) EXCEPT !.new = {s}])
             /\ nextId' = nextId + 1
             /\ UNCHANGED raced
    <3> DEFINE c == [id |-> nextId, index |-> {}, log |-> {}, new |-> {s}]
    <3>1. [newBlock(nextId) EXCEPT !.new = {s}] = c
      BY DEF newBlock
    <3>2. blocks' = [blocks EXCEPT ![s[1]] = c]
      BY <2>6, <3>1, Zenon DEF insertBlock
    <3>3. blockKeys' = blockKeys \cup (IF s[1] \in InMap THEN {} ELSE {s[1]})
      BY <2>6 DEF insertBlock
    <3>4. s[1] \in EndKeys
      BY DEF Streams, Keys, EndKeys
    <3>5. c \in Block
      BY <2>6, BlockFacts
    <3>6. nextId' \in 1..(MaxIds + 1) /\ nextId' \in Nat /\ nextId <= nextId' /\ nextId < nextId'
      BY <1>b, <2>6 DEF Ids
    <3>7. c.id < nextId' /\ c.log \cup c.new \subseteq sent'
      BY <2>2, <3>6
    <3> HIDE DEF c
    <3>8. MapPart' /\ InMap' = InMap \cup {s[1]}
      BY <1>a, <1>b, <2>2, <3>2, <3>4, <3>5, <3>6, <3>7, MapPut
    <3>9. raced' \in BOOLEAN
      BY <1>a, <2>6 DEF RestPart
    <3>10. InMap' \subseteq blockKeys' /\ blockKeys \subseteq blockKeys' /\ blockKeys' \subseteq EndKeys
      BY <1>c, <3>3, <3>4, <3>8
    <3> QED
      BY <2>3, <3>6, <3>8, <3>9, <3>10
  <2>7. \/ /\ above # {}
           /\ at \in InMap
           /\ blocks' = [blocks EXCEPT ![at].new = @ \cup {s}]
           /\ raced' = (raced \/ at \in Busy)
           /\ UNCHANGED <<blockKeys, nextId>>
        \/ UNCHANGED <<mapVars, nextId, raced>>
        \/ /\ nextId \in Ids
           /\ insertBlock(s[1], [newBlock(nextId) EXCEPT !.new = {s}])
           /\ nextId' = nextId + 1
           /\ UNCHANGED raced
    BY <1>1, Zenon DEF Write
  <2> HIDE DEF above, at
  <2> QED
    BY <2>4, <2>5, <2>6, <2>7
<1>2. ASSUME Flush PROVE MapInv'
  <2> DEFINE dirty == {k \in InMap : blocks[k].new # {}}
             done(k) == [id |-> blocks[k].id, index |-> blocks[k].index,
                         log |-> blocks[k].log \cup blocks[k].new, new |-> {}]
  <2>1. /\ blocks' = [k \in EndKeys |->
                    IF k \in dirty
                      THEN [blocks[k] EXCEPT !.log = @ \cup blocks[k].new,
                                             !.new = {}]
                      ELSE blocks[k]]
        /\ logf' = [i \in Ids |->
                  logf[i] \cup UNION {blocks[k].new :
                                        k \in {d \in dirty : blocks[d].id = i}}]
        /\ flushed' = flushed \cup UNION {blocks[k].new : k \in dirty}
        /\ UNCHANGED <<mode, blockKeys, tpc, tick, fileVars, pending, nextId, sent,
                   clash, raced, crashes, errors>>
    BY <1>2, Zenon DEF Flush, tickVars, boundVars
  <2>2. ASSUME NEW k \in dirty
        PROVE  /\ k \in EndKeys /\ blocks'[k] = done(k) /\ done(k) \in Block
               /\ blocks[k].id \in Ids /\ blocks[k].id < nextId
               /\ blocks[k].log \cup blocks[k].new \subseteq sent
               /\ blocks[k].new \subseteq sent
    <3>1. k \in InMap
      OBVIOUS
    <3>2. /\ k \in EndKeys /\ blocks[k] \in Block /\ blocks[k].id \in Ids
          /\ blocks[k].id < nextId
          /\ blocks[k].index \subseteq Keys /\ blocks[k].log \subseteq Streams
          /\ blocks[k].new \subseteq Streams
      BY <1>a, <3>1, InMapFacts
    <3>3. blocks[k].log \cup blocks[k].new \subseteq sent
      BY <1>a, <3>2 DEF MapPart
    <3>4. [blocks[k] EXCEPT !.log = @ \cup blocks[k].new, !.new = {}] = done(k)
      <4> DEFINE c == [id |-> blocks[k].id, index |-> blocks[k].index,
                       log |-> blocks[k].log \cup blocks[k].new, new |-> blocks[k].new]
      <4>1. [blocks[k] EXCEPT !.log = @ \cup blocks[k].new] = c
        BY <3>2 DEF Block
      <4>2. [c EXCEPT !.new = {}] = done(k)
        OBVIOUS
      <4>3. [blocks[k] EXCEPT !.log = @ \cup blocks[k].new, !.new = {}] =
            [[blocks[k] EXCEPT !.log = @ \cup blocks[k].new] EXCEPT !.new = {}]
        OBVIOUS
      <4> HIDE DEF c, done
      <4> QED
        BY <4>1, <4>2, <4>3, Zenon
    <3>5. done(k) \in Block
      BY <3>2, BlockFacts
    <3> HIDE DEF done
    <3>6. blocks'[k] = done(k)
      BY <2>1, <3>2, <3>4
    <3> QED
      BY <3>2, <3>3, <3>5, <3>6
  <2>3. \A k \in EndKeys : k \notin dirty => blocks'[k] = blocks[k]
    <3> HIDE DEF dirty
    <3> QED
      BY <2>1
  <2>4. InMap' = InMap
    <3>1. \A k : k \in InMap <=> k \in EndKeys /\ blocks[k] # NoBlock
      BY DEF InMap
    <3>2. \A k : k \in InMap' <=> k \in EndKeys /\ blocks'[k] # NoBlock
      BY DEF InMap
    <3>3. \A k : k \in InMap' <=> k \in InMap
      <4> HIDE DEF done
      <4> QED
        BY <2>2, <2>3, <3>1, <3>2, BlockFacts
    <3> QED
      BY <3>3
  <2>5. MapPart'
    <3>1. ASSUME NEW k \in EndKeys
          PROVE  /\ blocks'[k] \in Block \cup {NoBlock}
                 /\ blocks'[k].log \cup blocks'[k].new \subseteq sent'
                 /\ k \in InMap => blocks'[k].id < nextId'
      <4>1. CASE k \in dirty
        <5>1. done(k).log = blocks[k].log \cup blocks[k].new /\ done(k).new = {}
              /\ done(k).id = blocks[k].id
          OBVIOUS
        <5> HIDE DEF done, dirty
        <5> QED
          BY <2>1, <2>2, <4>1, <5>1
      <4>2. CASE k \notin dirty
        <5> HIDE DEF dirty
        <5> QED
          BY <1>a, <2>1, <2>3, <4>2 DEF MapPart
      <4> QED
        BY <4>1, <4>2
    <3>2. DOMAIN blocks' = EndKeys /\ blocks' = [k \in EndKeys |-> blocks'[k]]
      <4> HIDE DEF dirty
      <4> QED
        BY <2>1
    <3>3. blocks' \in [EndKeys -> Block \cup {NoBlock}]
      BY <3>1, <3>2
    <3>4. \A k \in InMap' : blocks'[k].id < nextId'
      <4>1. \A k \in InMap : k \in EndKeys
        BY DEF InMap
      <4> QED
        BY <2>4, <3>1, <4>1
    <3>5. \A k \in EndKeys : blocks'[k].log \cup blocks'[k].new \subseteq sent'
      BY <3>1
    <3> QED
      BY <3>3, <3>4, <3>5 DEF MapPart
  <2>6. LogPart'
    <3>1. logf \in [Ids -> SUBSET Streams] /\ sent \subseteq Streams
      BY <1>a DEF LogPart, RestPart
    <3>2. ASSUME NEW i \in Ids
          PROVE  logf'[i] \subseteq sent /\ (i >= nextId => logf'[i] = {})
      <4> HIDE DEF done
      <4>1. logf'[i] = logf[i] \cup UNION {blocks[k].new :
                                        k \in {d \in dirty : blocks[d].id = i}}
        <5> HIDE DEF dirty
        <5> QED
          BY <2>1
      <4>2. logf[i] \subseteq sent /\ (i >= nextId => logf[i] = {})
        BY <1>a DEF LogPart
      <4>3. \A k \in dirty : blocks[k].new \subseteq sent
        BY <2>2
      <4>4. \A k \in dirty : blocks[k].id = i => ~ (i >= nextId)
        <5>1. \A k \in dirty : blocks[k].id \in Nat /\ blocks[k].id < nextId
          BY <2>2 DEF Ids
        <5> HIDE DEF dirty
        <5> QED
          BY <1>b, <5>1
      <4> HIDE DEF dirty
      <4>5. i >= nextId => UNION {blocks[k].new : k \in {d \in dirty : blocks[d].id = i}} = {}
        BY <4>4
      <4>6. UNION {blocks[k].new : k \in {d \in dirty : blocks[d].id = i}} \subseteq sent
        BY <4>3
      <4> QED
        BY <4>1, <4>2, <4>5, <4>6
    <3>3. logf' = [i \in Ids |-> logf'[i]]
      <4> HIDE DEF dirty
      <4> QED
        BY <2>1
    <3>4. logf' \in [Ids -> SUBSET Streams]
      BY <3>1, <3>2, <3>3
    <3> QED
      BY <2>1, <3>2, <3>4 DEF LogPart
  <2>7. flushed' \subseteq sent'
    <3>1. \A k \in dirty : blocks[k].new \subseteq sent
      <4> HIDE DEF done
      <4> QED
        BY <2>2
    <3>2. flushed \subseteq sent
      BY <1>a DEF RestPart
    <3> HIDE DEF dirty
    <3> QED
      BY <2>1, <3>1, <3>2
  <2> HIDE DEF dirty, done
  <2>8. FilePart'
    BY <1>a, <1>b, <1>d, <2>1, FilesKept
  <2>9. TickPart'
    <3>1. mode = "down" => InMap' = {}
      BY <1>a, <2>4 DEF TickPart
    <3> QED
      BY <1>a, <1>b, <1>c, <1>d, <2>1, <2>4, <3>1, TickKept
  <2>10. RestPart'
    BY <1>a, <2>1, <2>7 DEF RestPart
  <2> QED
    BY <2>5, <2>6, <2>8, <2>9, <2>10 DEF MapInv
<1>3. ASSUME NEW k \in EndKeys, Compact(k) PROVE MapInv'
  <2>1. /\ k \in InMap
        /\ compactBlock(k) \/ compactBlockFails(k)
        /\ raced' = (raced \/ blocks[k].new # {})
        /\ UNCHANGED <<mode, blockKeys, tpc, tick, pending, nextId, sent, flushed,
                       clash, crashes>>
    BY <1>3 DEF Compact, tickVars, histVars
  <2>2. MapPart' /\ FilePart' /\ LogPart' /\ InMap' = InMap
    BY <2>1, Compacted
  <2>3. errors' = errors \/ IOError
    BY <2>1 DEF compactBlock, compactBlockFails, WriteFails
  <2>4. RestPart'
    <3>1. raced' \in BOOLEAN
      BY <1>a, <2>1 DEF RestPart
    <3> QED
      BY <1>a, <2>1, <2>3, <3>1, RestKept
  <2>5. TickPart'
    <3>1. mode = "down" => InMap' = {}
      BY <1>a, <2>2 DEF TickPart
    <3> QED
      BY <1>a, <1>b, <1>c, <1>d, <2>1, <2>2, <3>1, TickKept
  <2> QED
    BY <2>2, <2>4, <2>5 DEF MapInv
<1>4. ASSUME NEW k \in EndKeys, SplitCompact(k) PROVE MapInv'
  <2> DEFINE names == blocks[k].index \cup KeysOf(blocks[k].log) \cup KeysOf(blocks[k].new)
  <2>1. /\ mode = "up"
        /\ k \in InMap
        /\ Cardinality(names) >= 2
        /\ \/ compactBlock(k)
           \/ compactBlockFails(k)
           \/ IOError /\ UNCHANGED <<blocks, diskVars>>
        /\ raced' = (raced \/ blocks[k].new # {})
        /\ tick' = [NoTick EXCEPT !.keys = {k}, !.key = LeftKey(names)]
        /\ tpc' = "splitRead"
        /\ UNCHANGED <<mode, blockKeys, pending, nextId, sent, flushed, clash, crashes>>
    BY <1>4 DEF SplitCompact, histVars
  <2>2. MapPart' /\ FilePart' /\ LogPart' /\ InMap' = InMap
    <3>1. CASE compactBlock(k) \/ compactBlockFails(k)
      BY <2>1, <3>1, Compacted
    <3>2. CASE UNCHANGED <<blocks, diskVars>>
      BY <1>a, <1>b, <1>d, <2>1, <3>2, MapKept, FilesKept, LogsKept DEF diskVars
    <3> QED
      BY <2>1, <3>1, <3>2
  <2>3. errors' = errors \/ IOError
    BY <2>1 DEF compactBlock, compactBlockFails, WriteFails
  <2>4. RestPart'
    <3>1. raced' \in BOOLEAN
      BY <1>a, <2>1 DEF RestPart
    <3> QED
      BY <1>a, <2>1, <2>3, <3>1, RestKept
  <2>5. LeftKey(names) \in EndKeys
    <3>1. names \in SUBSET Keys
      BY <1>a, <2>1, InMapFacts, KeysOfFacts
    <3> HIDE DEF names
    <3>2. LeftKey(names) \in names
      BY <2>1, <3>1, LeftKeyFacts
    <3>3. Keys \subseteq EndKeys
      BY ConstantsAssumption DEF Keys, EndKeys
    <3> QED
      BY <3>1, <3>2, <3>3
  <2> HIDE DEF names
  <2>6. tick' = [keys |-> {k}, key |-> LeftKey(names), id |-> 0, buf |-> {}]
    BY <2>1 DEF NoTick
  <2>7. TickPart'
    <3>1. tick' \in [keys : SUBSET EndKeys, key : EndKeys, id : 0..MaxIds,
                     buf : SUBSET Streams]
      BY <1>b, <2>5, <2>6
    <3>2. tick'.keys = {k} /\ tick'.buf = {}
      BY <2>6
    <3>3. tick'.keys \subseteq InMap' /\ tick'.buf \subseteq sent'
      BY <2>1, <2>2, <3>2
    <3>4. "splitRead" \in TickPC /\ "splitRead" \notin Joins
      BY DEF TickPC, Joins
    <3>5. blockKeys' \subseteq EndKeys /\ InMap' \subseteq blockKeys' /\ mode' = "up"
      BY <1>c, <2>1, <2>2
    <3> QED
      BY <2>1, <3>1, <3>2, <3>3, <3>4, <3>5 DEF TickPart
  <2> QED
    BY <2>2, <2>4, <2>7 DEF MapInv
<1>5. ASSUME SplitRead PROVE MapInv'
  <2>1. PICK k \in EndKeys : tick.keys = {k}
    BY <1>a, <1>5 DEF SplitRead, TickPart, Splits
  <2>2. Max(tick.keys) = k
    BY <2>1, MaxOne
  <2>3. /\ tpc = "splitRead" /\ nextId \in Ids
        /\ tick' = [tick EXCEPT !.buf = Read(k), !.id = nextId]
        /\ nextId' = nextId + 1
        /\ tpc' = "splitLeft"
        /\ UNCHANGED <<mode, blocks, blockKeys, fileVars, logf, pending, sent, flushed,
                       clash, raced, crashes, errors>>
    BY <1>5, <2>2 DEF SplitRead, mapVars, diskVars, histVars, boundVars
  <2>4. /\ nextId' \in Nat /\ nextId <= nextId' /\ nextId' \in 1..(MaxIds + 1)
        /\ nextId \in 1..(nextId' - 1) /\ nextId \in 0..MaxIds
    BY <1>b, <2>3 DEF Ids
  <2>5. MapPart' /\ InMap' = InMap /\ FilePart' /\ LogPart'
    BY <1>a, <1>b, <1>d, <2>3, <2>4, MapKept, FilesKept, LogsKept
  <2>6. Read(k) \in SUBSET Streams /\ Read(k) \subseteq sent
    BY <1>c, <2>1, ReadFacts
  <2>7. tick \in [keys : SUBSET EndKeys, key : EndKeys, id : 0..MaxIds,
                  buf : SUBSET Streams]
    BY <1>a DEF TickPart
  <2>8. tick' = [keys |-> tick.keys, key |-> tick.key, id |-> nextId, buf |-> Read(k)]
    <3> DEFINE t == [keys |-> tick.keys, key |-> tick.key, id |-> tick.id, buf |-> Read(k)]
    <3>1. [tick EXCEPT !.buf = Read(k)] = t
      BY <2>7
    <3>2. [t EXCEPT !.id = nextId] =
            [keys |-> tick.keys, key |-> tick.key, id |-> nextId, buf |-> Read(k)]
      OBVIOUS
    <3>3. [tick EXCEPT !.buf = Read(k), !.id = nextId] =
          [[tick EXCEPT !.buf = Read(k)] EXCEPT !.id = nextId]
      OBVIOUS
    <3> HIDE DEF t
    <3> QED
      BY <2>3, <3>1, <3>2, <3>3, Zenon
  <2>9. TickPart'
    <3>1. tick' \in [keys : SUBSET EndKeys, key : EndKeys, id : 0..MaxIds,
                     buf : SUBSET Streams]
      BY <2>4, <2>6, <2>7, <2>8
    <3>2. tick'.keys = {k} /\ tick'.buf = Read(k) /\ tick'.id = nextId
      BY <2>1, <2>8
    <3>3. tick'.keys \subseteq InMap' /\ tick'.buf \subseteq sent'
          /\ tick'.id \in 1..(nextId' - 1)
      BY <1>c, <2>1, <2>3, <2>4, <2>5, <2>6, <3>2
    <3>4. "splitLeft" \in TickPC /\ "splitLeft" \notin Joins
      BY DEF TickPC, Joins
    <3>5. blockKeys' \subseteq EndKeys /\ InMap' \subseteq blockKeys' /\ mode' = "up"
      BY <1>a, <1>c, <2>3, <2>5 DEF TickPart
    <3> QED
      BY <2>3, <3>1, <3>2, <3>3, <3>4, <3>5 DEF TickPart
  <2>10. RestPart'
    <3>1. 1..(nextId - 1) \subseteq 1..(nextId' - 1)
      BY <1>b, <2>4, NumbersBelow
    <3> QED
      BY <1>a, <2>3, <2>4, <3>1 DEF RestPart
  <2> QED
    BY <2>5, <2>9, <2>10 DEF MapInv
<1>6. ASSUME SplitLeft PROVE MapInv'
  <2>1. /\ tpc = "splitLeft" /\ WriteFile(tick.id, LeftPart) /\ tpc' = "splitRight"
        /\ UNCHANGED <<mode, blocks, blockKeys, tick, logf, pending, nextId, sent,
                       flushed, clash, raced, crashes, errors>>
    BY <1>6 DEF SplitLeft, mapVars, histVars, boundVars
  <2>2. LeftPart \in SUBSET Streams /\ LeftPart \subseteq sent
    BY <1>c DEF LeftPart
  <2>3. tick.id \in Ids /\ tick.id < nextId
    <3>1. tick.id \in 1..(nextId - 1)
      BY <1>a, <2>1 DEF TickPart, Splits
    <3> QED
      BY <1>b, <3>1 DEF Ids
  <2>4. FilePart'
    BY <1>a, <1>b, <2>1, <2>2, <2>3, FileWritten
  <2>5. MapPart' /\ InMap' = InMap /\ LogPart'
    BY <1>a, <1>b, <1>d, <2>1, MapKept, LogsKept
  <2>6. TickPart'
    BY <1>a, <2>1, <2>5 DEF TickPart, Splits, Joins, TickPC
  <2>7. RestPart'
    BY <1>a, <2>1 DEF RestPart
  <2> QED
    BY <2>4, <2>5, <2>6, <2>7 DEF MapInv
<1>7. ASSUME SplitRight PROVE MapInv'
  <2>1. PICK k \in EndKeys : tick.keys = {k}
    BY <1>a, <1>7 DEF SplitRight, TickPart, Splits
  <2>2. Max(tick.keys) = k /\ k \in InMap
    BY <1>c, <2>1, MaxOne
  <2> DEFINE b == blocks[k]
             c == [id |-> b.id, index |-> KeysOf(RightPart), log |-> b.log, new |-> b.new]
  <2>3. /\ tpc = "splitRight" /\ WriteFile(b.id, RightPart) /\ tpc' = "splitInsert"
        /\ blocks' = [blocks EXCEPT ![k].index = KeysOf(RightPart)]
        /\ UNCHANGED <<mode, blockKeys, tick, logf, pending, nextId, sent,
                       flushed, clash, raced, crashes, errors>>
    BY <1>7, <2>2 DEF SplitRight, histVars, boundVars
  <2>4. RightPart \in SUBSET Streams /\ RightPart \subseteq sent
        /\ KeysOf(RightPart) \in SUBSET Keys
    BY <1>c, KeysOfFacts DEF RightPart
  <2>5. /\ b.id \in Ids /\ b.id < nextId
        /\ b.log \subseteq Streams /\ b.new \subseteq Streams
        /\ b.log \cup b.new \subseteq sent
    BY <1>a, <2>2, InMapFacts DEF MapPart
  <2>6. c \in Block /\ c.id < nextId' /\ c.log \cup c.new \subseteq sent'
    BY <2>3, <2>4, <2>5, BlockFacts
  <2>7. blocks' = [blocks EXCEPT ![k] = c]
    BY <1>a, <2>2, <2>3, BlockUpdates
  <2>8. FilePart'
    BY <1>a, <1>b, <2>3, <2>4, <2>5, FileWritten
  <2> HIDE DEF b, c
  <2>9. MapPart' /\ InMap' = InMap /\ LogPart'
    <3>1. nextId' \in Nat /\ nextId <= nextId' /\ sent \subseteq sent'
      BY <1>b, <2>3
    <3>2. MapPart' /\ InMap' = InMap \cup {k}
      BY <1>a, <1>b, <2>6, <2>7, <3>1, MapPut
    <3>3. LogPart'
      BY <1>a, <1>b, <2>3, <3>1, LogsKept
    <3> QED
      BY <2>2, <3>2, <3>3
  <2>10. TickPart'
    BY <1>a, <2>3, <2>9 DEF TickPart, Splits, Joins, TickPC
  <2>11. RestPart'
    BY <1>a, <2>3 DEF RestPart
  <2> QED
    BY <2>8, <2>9, <2>10, <2>11 DEF MapInv
<1>8. ASSUME SplitInsert PROVE MapInv'
  <2> DEFINE c == [id |-> tick.id, index |-> KeysOf(LeftPart), log |-> {}, new |-> {}]
  <2>1. [newBlock(tick.id) EXCEPT !.index = KeysOf(LeftPart)] = c
    BY DEF newBlock
  <2>2. /\ tpc = "splitInsert" /\ tpc' = "idle" /\ tick' = NoTick
        /\ blocks' = [blocks EXCEPT ![tick.key] = c]
        /\ blockKeys' = blockKeys \cup (IF tick.key \in InMap THEN {} ELSE {tick.key})
        /\ UNCHANGED <<mode, fileVars, logf, pending, nextId, sent, flushed, clash,
                       raced, crashes, errors>>
    <3> HIDE DEF c
    <3> QED
      BY <1>8, <2>1 DEF SplitInsert, insertBlock, diskVars, histVars, boundVars
  <2>3. KeysOf(LeftPart) \in SUBSET Keys
    BY <1>c, KeysOfFacts DEF LeftPart
  <2>4. tick.id \in Ids /\ tick.id < nextId
    <3>1. tick.id \in 1..(nextId - 1)
      BY <1>a, <2>2 DEF TickPart, Splits
    <3> QED
      BY <1>b, <3>1 DEF Ids
  <2>5. c \in Block /\ c.id < nextId' /\ c.log \cup c.new \subseteq sent'
    BY <2>2, <2>3, <2>4, BlockFacts
  <2> HIDE DEF c
  <2>6. nextId' \in Nat /\ nextId <= nextId' /\ sent \subseteq sent'
    BY <1>b, <2>2
  <2>7. MapPart' /\ InMap' = InMap \cup {tick.key}
    BY <1>a, <1>b, <1>c, <2>2, <2>5, <2>6, MapPut
  <2>8. FilePart' /\ LogPart'
    BY <1>a, <1>b, <2>2, <2>6, FilesKept, LogsKept
  <2>9. TickPart'
    <3>1. mode' = "up"
      BY <1>a, <2>2 DEF TickPart
    <3>2. blockKeys' \subseteq EndKeys /\ InMap' \subseteq blockKeys'
      BY <1>c, <2>2, <2>7
    <3> QED
      BY <2>2, <3>1, <3>2, TickIdle
  <2>10. RestPart'
    BY <1>a, <2>2 DEF RestPart
  <2> QED
    BY <2>7, <2>8, <2>9, <2>10 DEF MapInv
<1>9. ASSUME SplitFail PROVE MapInv'
  <2>1. tpc \in {"splitRead", "splitLeft", "splitRight"}
    BY <1>9 DEF SplitFail
  <2>2. PICK k \in EndKeys : tick.keys = {k}
    BY <1>a, <2>1 DEF TickPart, Splits
  <2>3. Max(tick.keys) = k /\ k \in InMap
    BY <1>c, <2>2, MaxOne
  <2>4. /\ \/ /\ tpc = "splitRead"
              /\ IOError
              /\ UNCHANGED <<blocks, fileVars>>
           \/ /\ tpc = "splitLeft"
              /\ WriteFails(tick.id, LeftPart)
              /\ UNCHANGED blocks
           \/ /\ tpc = "splitRight"
              /\ WriteFails(blocks[k].id, RightPart)
              /\ blocks' = [blocks EXCEPT ![k].index = KeysOf(RightPart)]
        /\ tpc' = "idle"
        /\ tick' = NoTick
        /\ UNCHANGED <<mode, blockKeys, logf, pending, nextId, sent, flushed, clash,
                       raced, crashes>>
    BY <1>9, <2>3, Zenon DEF SplitFail, histVars
  <2>5. nextId' \in Nat /\ nextId <= nextId' /\ sent \subseteq sent'
    BY <1>b, <2>4
  <2>6. MapPart' /\ FilePart' /\ InMap' = InMap /\ (errors' = errors \/ IOError)
    <3>1. CASE IOError /\ UNCHANGED <<blocks, fileVars>>
      BY <1>a, <1>b, <2>5, <3>1, MapKept, FilesKept
    <3>2. CASE tpc = "splitLeft" /\ WriteFails(tick.id, LeftPart) /\ UNCHANGED blocks
      <4>1. LeftPart \in SUBSET Streams /\ LeftPart \subseteq sent
        BY <1>c DEF LeftPart
      <4>2. tick.id \in Ids
        <5>1. tick.id \in 1..(nextId - 1)
          BY <1>a, <3>2 DEF TickPart, Splits
        <5> QED
          BY <1>b, <5>1 DEF Ids
      <4>3. FilePart'
        BY <1>a, <1>b, <2>4, <3>2, <4>1, <4>2, FileNotWritten
      <4>4. MapPart' /\ InMap' = InMap
        BY <1>a, <1>b, <2>5, <3>2, MapKept
      <4> QED
        BY <3>2, <4>3, <4>4 DEF WriteFails
    <3>3. CASE /\ WriteFails(blocks[k].id, RightPart)
               /\ blocks' = [blocks EXCEPT ![k].index = KeysOf(RightPart)]
      <4> DEFINE b == blocks[k]
                 c == [id |-> b.id, index |-> KeysOf(RightPart), log |-> b.log, new |-> b.new]
      <4>1. RightPart \in SUBSET Streams /\ RightPart \subseteq sent
            /\ KeysOf(RightPart) \in SUBSET Keys
        BY <1>c, KeysOfFacts DEF RightPart
      <4>2. /\ b.id \in Ids /\ b.id < nextId
            /\ b.log \subseteq Streams /\ b.new \subseteq Streams
            /\ b.log \cup b.new \subseteq sent
        BY <1>a, <2>3, InMapFacts DEF MapPart
      <4>3. c \in Block /\ c.id < nextId' /\ c.log \cup c.new \subseteq sent'
        BY <2>4, <4>1, <4>2, BlockFacts
      <4>4. blocks' = [blocks EXCEPT ![k] = c]
        BY <1>a, <2>3, <3>3, BlockUpdates
      <4>5. FilePart'
        BY <1>a, <1>b, <2>4, <3>3, <4>1, <4>2, FileNotWritten
      <4> HIDE DEF b, c
      <4>6. MapPart' /\ InMap' = InMap \cup {k}
        BY <1>a, <1>b, <2>5, <4>3, <4>4, MapPut
      <4> QED
        BY <2>3, <3>3, <4>5, <4>6 DEF WriteFails
    <3> QED
      BY <2>4, <3>1, <3>2, <3>3
  <2>7. LogPart'
    BY <1>a, <1>b, <2>4, <2>5, LogsKept
  <2>8. TickPart'
    <3>1. mode' = "up"
      BY <1>a, <2>1, <2>4 DEF TickPart
    <3>2. blockKeys' \subseteq EndKeys /\ InMap' \subseteq blockKeys'
      BY <1>c, <2>4, <2>6
    <3> QED
      BY <2>4, <3>1, <3>2, TickIdle
  <2>9. RestPart'
    <3>1. raced' \in BOOLEAN
      BY <1>a, <2>4 DEF RestPart
    <3> QED
      BY <1>a, <2>4, <2>6, <3>1, RestKept
  <2> QED
    BY <2>6, <2>7, <2>8, <2>9 DEF MapInv
<1>10. ASSUME JoinRead PROVE MapInv'
  <2> DEFINE keys == Joinable[MaxKey].keys
             buf == UNION {Read(k) : k \in keys}
  <2>1. /\ mode = "up" /\ tpc = "idle" /\ Cardinality(keys) > 1
        /\ tick' = [keys |-> keys, key |-> Max(keys), id |-> blocks[Max(keys)].id,
                    buf |-> buf]
        /\ raced' = (raced \/ \E k \in keys : blocks[k].new # {})
        /\ tpc' = "joinWrite"
        /\ UNCHANGED <<mode, blocks, blockKeys, fileVars, logf, pending, nextId, sent,
                       flushed, clash, crashes, errors>>
    BY <1>10 DEF JoinRead, mapVars, diskVars, histVars, boundVars
  <2>2. keys \subseteq InMap
    BY JoinableFacts
  <2>3. buf \in SUBSET Streams /\ buf \subseteq sent
    <3>1. \A k \in keys : Read(k) \subseteq Streams /\ Read(k) \subseteq sent
      <4> HIDE DEF keys
      <4> QED
        BY <2>2, ReadFacts
    <3> HIDE DEF keys
    <3> QED
      BY <3>1
  <2> HIDE DEF keys, buf
  <2>4. Max(keys) \in keys
    <3>1. keys # {}
      BY <2>1, FS_EmptySet
    <3>2. keys \in SUBSET (0..MaxKey) /\ MaxKey \in Nat
      BY <2>2, ConstantsAssumption DEF InMap, EndKeys
    <3> QED
      BY <3>1, <3>2, MaxFacts
  <2>5. blocks[Max(keys)].id \in Ids /\ blocks[Max(keys)].id < nextId /\ Max(keys) \in EndKeys
    BY <1>a, <2>2, <2>4, InMapFacts
  <2>6. /\ blocks[Max(keys)].id \in 1..(nextId - 1) /\ blocks[Max(keys)].id \in 0..MaxIds
    BY <1>b, <2>5 DEF Ids
  <2>7. MapPart' /\ InMap' = InMap /\ FilePart' /\ LogPart'
    BY <1>a, <1>b, <1>d, <2>1, MapKept, FilesKept, LogsKept
  <2>8. TickPart'
    <3>1. keys \in SUBSET EndKeys
      BY <2>2 DEF InMap
    <3>2. tick' \in [keys : SUBSET EndKeys, key : EndKeys, id : 0..MaxIds,
                     buf : SUBSET Streams]
      BY <2>1, <2>3, <2>5, <2>6, <3>1
    <3>3. tick'.keys = keys /\ tick'.buf = buf /\ tick'.key = Max(keys)
          /\ tick'.id = blocks[Max(keys)].id
      BY <2>1
    <3>4. tick'.keys \subseteq InMap' /\ tick'.buf \subseteq sent'
          /\ tick'.id \in 1..(nextId' - 1) /\ tick'.key \in blockKeys'
      BY <1>c, <2>1, <2>2, <2>3, <2>4, <2>6, <2>7, <3>3
    <3>5. "joinWrite" \in TickPC /\ "joinWrite" \notin Splits
      BY DEF TickPC, Splits
    <3>6. blockKeys' \subseteq EndKeys /\ InMap' \subseteq blockKeys' /\ mode' = "up"
      BY <1>c, <2>1, <2>7
    <3> QED
      BY <2>1, <3>2, <3>4, <3>5, <3>6 DEF TickPart
  <2>9. RestPart'
    BY <1>a, <2>1 DEF RestPart
  <2> QED
    BY <2>7, <2>8, <2>9 DEF MapInv
<1>11. ASSUME JoinWrite \/ JoinFail PROVE MapInv'
  <2>1. tpc = "joinWrite"
    BY <1>11 DEF JoinWrite, JoinFail
  <2>2. UNCHANGED <<mode, blocks, blockKeys, logf, pending, nextId, sent, flushed,
                    clash, raced, crashes>>
    BY <1>11 DEF JoinWrite, JoinFail, mapVars, histVars, boundVars
  <2>3. tick.id \in Ids /\ tick.id < nextId
    <3>1. tick.id \in 1..(nextId - 1)
      BY <1>a, <2>1 DEF TickPart, Joins
    <3> QED
      BY <1>b, <3>1 DEF Ids
  <2>4. FilePart' /\ (errors' = errors \/ IOError)
    <3>1. CASE JoinWrite
      <4>1. WriteFile(tick.id, tick.buf) /\ errors' = errors
        BY <3>1 DEF JoinWrite, boundVars
      <4> QED
        BY <1>a, <1>b, <1>c, <2>2, <2>3, <4>1, FileWritten
    <3>2. CASE JoinFail
      <4>1. WriteFails(tick.id, tick.buf)
        BY <3>2 DEF JoinFail
      <4>2. IOError
        BY <4>1 DEF WriteFails
      <4> QED
        BY <1>a, <1>b, <1>c, <2>2, <2>3, <4>1, <4>2, FileNotWritten
    <3> QED
      BY <1>11, <3>1, <3>2
  <2>5. MapPart' /\ InMap' = InMap /\ LogPart'
    BY <1>a, <1>b, <1>d, <2>2, MapKept, LogsKept
  <2>6. TickPart'
    <3>1. CASE JoinWrite
      <4>1. tpc' = "joinRemove" /\ UNCHANGED tick
        BY <3>1 DEF JoinWrite
      <4> QED
        BY <1>a, <2>1, <2>2, <2>5, <4>1 DEF TickPart, Splits, Joins, TickPC
    <3>2. CASE JoinFail
      <4>1. tpc' = "idle" /\ tick' = NoTick
        BY <3>2 DEF JoinFail
      <4>2. mode' = "up"
        BY <1>a, <2>1, <2>2 DEF TickPart
      <4> QED
        BY <1>c, <2>2, <2>5, <4>1, <4>2, TickIdle
    <3> QED
      BY <1>11, <3>1, <3>2
  <2>7. RestPart'
    <3>1. raced' \in BOOLEAN
      BY <1>a, <2>2 DEF RestPart
    <3> QED
      BY <1>a, <2>2, <2>4, <3>1, RestKept
  <2> QED
    BY <2>4, <2>5, <2>6, <2>7 DEF MapInv
<1>12. ASSUME JoinRemove PROVE MapInv'
  <2> DEFINE k == Min(tick.keys)
             found == EndKeyOf(header[tick.id])
             c == [id |-> tick.id, index |-> header[tick.id], log |-> {}, new |-> {}]
  <2>1. /\ tpc = "joinRemove" /\ tick.keys # {}
        /\ logf' = [logf EXCEPT ![blocks[k].id] = {}]
        /\ tick' = [tick EXCEPT !.keys = @ \ {k}]
        /\ UNCHANGED <<mode, tpc, tmp, tmpIds, damaged, pending, nextId, sent, flushed,
                       clash, raced, crashes, errors>>
    BY <1>12 DEF JoinRemove, histVars, boundVars
  <2>2. k \in tick.keys
    <3>1. tick.keys \in SUBSET Nat
      BY <1>c DEF InMap, EndKeys
    <3> QED
      BY <2>1, <3>1, MinFacts
  <2>3. [newBlock(tick.id) EXCEPT !.index = header[tick.id]] = c
    BY DEF newBlock
  <2>4. \/ /\ blocks' = [[blocks EXCEPT ![k] = NoBlock] EXCEPT ![found] = c]
           /\ blockKeys' = blockKeys \cup {found}
           /\ UNCHANGED <<file, header, fileIds>>
        \/ /\ blocks' = [blocks EXCEPT ![k] = NoBlock]
           /\ UNCHANGED <<file, header, fileIds, blockKeys>>
        \/ /\ blocks' = [blocks EXCEPT ![k] = NoBlock]
           /\ file' = [file EXCEPT ![blocks[k].id] = {}]
           /\ header' = [header EXCEPT ![blocks[k].id] = {}]
           /\ fileIds' = fileIds \ {blocks[k].id}
           /\ UNCHANGED blockKeys
    <3> HIDE DEF c
    <3> QED
      BY <1>12, <2>3 DEF JoinRemove
  <2> HIDE DEF k
  <2>5. k \in InMap /\ k \in EndKeys /\ blocks[k].id \in Ids
    BY <1>a, <1>c, <2>2, InMapFacts
  <2>6. tick.id \in Ids /\ tick.id < nextId
    <3>1. tick.id \in 1..(nextId - 1)
      BY <1>a, <2>1 DEF TickPart, Joins
    <3> QED
      BY <1>b, <3>1 DEF Ids
  <2>7. header[tick.id] \in SUBSET Keys
    BY <1>a, <2>6 DEF FilePart
  <2>8. found \in EndKeys
    BY <2>7, EndKeyFacts
  <2>9. c \in Block /\ c.id < nextId /\ c.log \cup c.new \subseteq sent
    BY <2>6, <2>7, BlockFacts
  <2> HIDE DEF c, found
  <2>10. LogPart'
    BY <1>a, <2>1, <2>5, LogRemoved
  <2>11. /\ MapPart' /\ FilePart' /\ InMap \ {k} \subseteq InMap' /\ InMap' \subseteq blockKeys'
         /\ blockKeys \subseteq blockKeys' /\ blockKeys' \subseteq EndKeys
    <3>1. CASE /\ blocks' = [[blocks EXCEPT ![k] = NoBlock] EXCEPT ![found] = c]
               /\ blockKeys' = blockKeys \cup {found}
               /\ UNCHANGED <<file, header, fileIds>>
      <4>1. MapPart' /\ InMap' = (InMap \ {k}) \cup {found}
        BY <1>a, <2>1, <2>5, <2>8, <2>9, <3>1, MapReplace
      <4>2. FilePart'
        BY <1>a, <1>b, <1>d, <2>1, <3>1, FilesKept DEF fileVars
      <4> QED
        BY <1>c, <2>8, <3>1, <4>1, <4>2
    <3>2. CASE /\ blocks' = [blocks EXCEPT ![k] = NoBlock]
               /\ UNCHANGED <<file, header, fileIds, blockKeys>>
      <4>1. MapPart' /\ InMap' = InMap \ {k}
        BY <1>a, <2>1, <2>5, <3>2, MapDrop
      <4>2. FilePart'
        BY <1>a, <1>b, <1>d, <2>1, <3>2, FilesKept DEF fileVars
      <4> QED
        BY <1>c, <3>2, <4>1, <4>2
    <3>3. CASE /\ blocks' = [blocks EXCEPT ![k] = NoBlock]
               /\ file' = [file EXCEPT ![blocks[k].id] = {}]
               /\ header' = [header EXCEPT ![blocks[k].id] = {}]
               /\ fileIds' = fileIds \ {blocks[k].id}
               /\ UNCHANGED blockKeys
      <4>1. MapPart' /\ InMap' = InMap \ {k}
        BY <1>a, <2>1, <2>5, <3>3, MapDrop
      <4>2. FilePart'
        BY <1>a, <2>1, <2>5, <3>3, FileRemoved
      <4> QED
        BY <1>c, <3>3, <4>1, <4>2
    <3> QED
      BY <2>4, <3>1, <3>2, <3>3
  <2>12. TickPart'
    <3>1. tick \in [keys : SUBSET EndKeys, key : EndKeys, id : 0..MaxIds,
                    buf : SUBSET Streams]
      BY <1>a DEF TickPart
    <3>2. tick' = [keys |-> tick.keys \ {k}, key |-> tick.key, id |-> tick.id,
                   buf |-> tick.buf]
      BY <2>1, <3>1
    <3>3. tick' \in [keys : SUBSET EndKeys, key : EndKeys, id : 0..MaxIds,
                     buf : SUBSET Streams]
      BY <3>1, <3>2
    <3>4. tick'.keys = tick.keys \ {k} /\ tick'.key = tick.key /\ tick'.id = tick.id
          /\ tick'.buf = tick.buf
      BY <3>2
    <3>5. tick.key \in blockKeys /\ tick.id \in 1..(nextId - 1) /\ mode = "up"
      BY <1>a, <2>1 DEF TickPart, Joins
    <3>6. /\ tick'.keys \subseteq InMap' /\ tick'.buf \subseteq sent'
          /\ tick'.id \in 1..(nextId' - 1) /\ tick'.key \in blockKeys'
      BY <1>c, <2>1, <2>11, <3>4, <3>5
    <3>7. "joinRemove" \in TickPC /\ "joinRemove" \notin Splits
      BY DEF TickPC, Splits
    <3>8. blockKeys' \subseteq EndKeys /\ InMap' \subseteq blockKeys' /\ mode' = "up"
          /\ tpc' = "joinRemove"
      BY <2>1, <2>11, <3>5
    <3> QED
      BY <3>3, <3>6, <3>7, <3>8 DEF TickPart
  <2>13. RestPart'
    BY <1>a, <2>1 DEF RestPart
  <2> QED
    BY <2>10, <2>11, <2>12, <2>13 DEF MapInv
<1>13. ASSUME JoinPublish PROVE MapInv'
  <2> DEFINE c == [id |-> tick.id, index |-> KeysOf(tick.buf), log |-> {}, new |-> {}]
  <2>1. [newBlock(tick.id) EXCEPT !.index = KeysOf(tick.buf)] = c
    BY DEF newBlock
  <2>2. /\ tpc = "joinRemove" /\ tpc' = "idle" /\ tick' = NoTick
        /\ blocks' = [blocks EXCEPT ![tick.key] = c]
        /\ UNCHANGED <<mode, blockKeys, fileVars, logf, pending, nextId, sent, flushed,
                       clash, raced, crashes, errors>>
    <3> HIDE DEF c
    <3> QED
      BY <1>13, <2>1 DEF JoinPublish, diskVars, histVars, boundVars
  <2>3. KeysOf(tick.buf) \in SUBSET Keys
    BY <1>c, KeysOfFacts
  <2>4. tick.id \in Ids /\ tick.id < nextId /\ tick.key \in blockKeys
    <3>1. tick.id \in 1..(nextId - 1) /\ tick.key \in blockKeys
      BY <1>a, <2>2 DEF TickPart, Joins
    <3> QED
      BY <1>b, <3>1 DEF Ids
  <2>5. c \in Block /\ c.id < nextId' /\ c.log \cup c.new \subseteq sent'
    BY <2>2, <2>3, <2>4, BlockFacts
  <2> HIDE DEF c
  <2>6. nextId' \in Nat /\ nextId <= nextId' /\ sent \subseteq sent'
    BY <1>b, <2>2
  <2>7. MapPart' /\ InMap' = InMap \cup {tick.key}
    BY <1>a, <1>b, <1>c, <2>2, <2>5, <2>6, MapPut
  <2>8. FilePart' /\ LogPart'
    BY <1>a, <1>b, <2>2, <2>6, FilesKept, LogsKept
  <2>9. TickPart'
    <3>1. mode' = "up"
      BY <1>a, <2>2 DEF TickPart
    <3>2. blockKeys' \subseteq EndKeys /\ InMap' \subseteq blockKeys'
      BY <1>c, <2>2, <2>4, <2>7
    <3> QED
      BY <2>2, <3>1, <3>2, TickIdle
  <2>10. RestPart'
    BY <1>a, <2>2 DEF RestPart
  <2> QED
    BY <2>7, <2>8, <2>9, <2>10 DEF MapInv
<1>14. ASSUME Crash PROVE MapInv'
  <2>1. /\ crashes < MaxCrashes /\ crashes' = crashes + 1 /\ mode' = "down"
        /\ blocks' = [k \in EndKeys |-> NoBlock] /\ blockKeys' = {}
        /\ tpc' = "idle" /\ tick' = NoTick /\ pending' = {}
        /\ tmp' = [i \in Ids |-> {}] /\ tmpIds' = {}
        /\ UNCHANGED <<file, header, fileIds, logf, damaged, nextId, sent, flushed, clash,
                       raced, errors>>
    BY <1>14 DEF Crash, histVars
  <2>2. InMap' = {}
    BY <2>1 DEF InMap
  <2>3. MapPart'
    BY <2>1, <2>2, BlockFacts DEF MapPart
  <2>4. FilePart'
    <3>1. tmp' \in [Ids -> SUBSET Streams] /\ \A i \in Ids : tmp'[i] = {}
      BY <2>1
    <3> QED
      BY <1>a, <2>1, <3>1 DEF FilePart
  <2>5. LogPart'
    BY <1>a, <1>b, <1>d, <2>1, LogsKept
  <2>6. TickPart'
    BY <2>1, <2>2, TickIdle
  <2>7. RestPart'
    <3>1. crashes' \in 0..MaxCrashes
      BY <1>a, <2>1, ConstantsAssumption DEF RestPart
    <3> QED
      BY <1>a, <2>1, <3>1 DEF RestPart
  <2> QED
    BY <2>3, <2>4, <2>5, <2>6, <2>7 DEF MapInv
<1>15. ASSUME Open \/ FilesRead \/ Opened PROVE MapInv'
  <2>1. /\ mode \in {"down", "files", "logs"} /\ mode' \in {"files", "logs", "up"}
        /\ pending' \in {fileIds, {i \in Ids : logf[i] # {}}, pending}
        /\ UNCHANGED <<blocks, blockKeys, tpc, tick, fileVars, logf, nextId, sent, flushed,
                       clash, raced, crashes, errors>>
    BY <1>15 DEF Open, FilesRead, Opened, mapVars, tickVars, diskVars, histVars, boundVars
  <2>2. MapPart' /\ InMap' = InMap /\ FilePart' /\ LogPart'
    BY <1>a, <1>b, <1>d, <2>1, MapKept, FilesKept, LogsKept
  <2>3. pending' \subseteq 1..(nextId' - 1)
    <3>1. fileIds \subseteq 1..(nextId - 1) /\ pending \subseteq 1..(nextId - 1)
      BY <1>a DEF FilePart, RestPart
    <3>2. ASSUME NEW i \in Ids, logf[i] # {} PROVE i \in 1..(nextId - 1)
      <4>1. ~ (i >= nextId)
        BY <1>a, <3>2 DEF LogPart
      <4> QED
        BY <1>b, <4>1 DEF Ids
    <3> QED
      BY <2>1, <3>1, <3>2
  <2>4. TickPart'
    <3>1. tpc = "idle" /\ tick = NoTick
      BY <1>a, <2>1 DEF TickPart
    <3>2. mode' \in {"up", "down", "files", "logs"} /\ mode' # "down"
      BY <2>1
    <3> QED
      BY <1>c, <2>1, <2>2, <3>1, <3>2, TickIdle
  <2>5. RestPart'
    BY <1>a, <2>1, <2>3 DEF RestPart
  <2> QED
    BY <2>2, <2>4, <2>5 DEF MapInv
<1>16. ASSUME NEW i \in Ids, readBlock(i) PROVE MapInv'
  <2> DEFINE end == EndKeyOf(header[i])
             c == [id |-> i, index |-> header[i], log |-> {}, new |-> {}]
  <2>1. [newBlock(i) EXCEPT !.index = header[i]] = c
    BY DEF newBlock
  <2>2. /\ mode = "files" /\ i \in pending /\ pending' = pending \ {i}
        /\ blocks' = [blocks EXCEPT ![end] = c]
        /\ blockKeys' = blockKeys \cup (IF end \in InMap THEN {} ELSE {end})
        /\ clash' = (clash \/ end \in InMap)
        /\ UNCHANGED <<mode, tpc, tick, fileVars, logf, nextId, sent, flushed, raced,
                       crashes, errors>>
    <3> HIDE DEF c
    <3> QED
      BY <1>16, <2>1 DEF readBlock, insertBlock, tickVars, diskVars, boundVars
  <2>3. header[i] \in SUBSET Keys
    BY <1>a DEF FilePart
  <2>4. end \in EndKeys
    BY <2>3, EndKeyFacts
  <2>5. i < nextId
    <3>1. i \in 1..(nextId - 1)
      BY <1>a, <2>2 DEF RestPart
    <3> QED
      BY <1>b, <3>1
  <2>6. c \in Block /\ c.id < nextId' /\ c.log \cup c.new \subseteq sent'
    BY <2>2, <2>3, <2>5, BlockFacts
  <2> HIDE DEF c, end
  <2>7. nextId' \in Nat /\ nextId <= nextId' /\ sent \subseteq sent'
    BY <1>b, <2>2
  <2>8. MapPart' /\ InMap' = InMap \cup {end}
    BY <1>a, <1>b, <2>2, <2>4, <2>6, <2>7, MapPut
  <2>9. FilePart' /\ LogPart'
    BY <1>a, <1>b, <2>2, <2>7, FilesKept, LogsKept
  <2>10. TickPart'
    <3>1. InMap \subseteq InMap' /\ InMap' \subseteq blockKeys' /\ blockKeys \subseteq blockKeys'
          /\ blockKeys' \subseteq EndKeys /\ mode # "down"
      BY <1>c, <2>2, <2>4, <2>8
    <3> QED
      BY <1>a, <1>b, <2>2, <2>7, <3>1, TickKept
  <2>11. RestPart'
    BY <1>a, <2>2 DEF RestPart
  <2> QED
    BY <2>8, <2>9, <2>10, <2>11 DEF MapInv
<1>17. ASSUME NEW i \in Ids, readBlockLog(i) PROVE MapInv'
  <2> DEFINE owners == {k \in InMap : blocks[k].id = i}
             end == EndKeyOf(KeysOf(logf[i]))
             c == [id |-> i, index |-> {}, log |-> logf[i], new |-> {}]
  <2>1. [newBlock(i) EXCEPT !.log = logf[i]] = c
    BY DEF newBlock
  <2>2. /\ mode = "logs" /\ i \in pending /\ pending' = pending \ {i}
        /\ UNCHANGED <<mode, tpc, tick, fileVars, logf, nextId, sent, flushed, raced,
                       crashes, errors>>
    BY <1>17 DEF readBlockLog, tickVars, diskVars, boundVars
  <2>3. \/ /\ \E k \in owners : blocks' = [blocks EXCEPT ![k].log = logf[i]]
           /\ UNCHANGED <<blockKeys, clash>>
        \/ /\ blocks' = [blocks EXCEPT ![end] = c]
           /\ blockKeys' = blockKeys \cup (IF end \in InMap THEN {} ELSE {end})
           /\ clash' = (clash \/ end \in InMap)
    <3> HIDE DEF c
    <3> QED
      BY <1>17, <2>1 DEF readBlockLog, insertBlock
  <2>4. logf[i] \in SUBSET Streams /\ logf[i] \subseteq sent /\ KeysOf(logf[i]) \in SUBSET Keys
    BY <1>a, KeysOfFacts DEF LogPart
  <2>5. end \in EndKeys
    BY <2>4, EndKeyFacts
  <2>6. i < nextId
    <3>1. i \in 1..(nextId - 1)
      BY <1>a, <2>2 DEF RestPart
    <3> QED
      BY <1>b, <3>1
  <2>7. nextId' \in Nat /\ nextId <= nextId' /\ sent \subseteq sent'
    BY <1>b, <2>2
  <2>8. /\ MapPart' /\ InMap \subseteq InMap' /\ InMap' \subseteq blockKeys'
        /\ blockKeys \subseteq blockKeys' /\ blockKeys' \subseteq EndKeys
        /\ clash' \in BOOLEAN
    <3>1. CASE /\ \E k \in owners : blocks' = [blocks EXCEPT ![k].log = logf[i]]
               /\ UNCHANGED <<blockKeys, clash>>
      <4>1. PICK k \in InMap : blocks' = [blocks EXCEPT ![k].log = logf[i]]
        BY <3>1
      <4> DEFINE b == blocks[k]
                 d == [id |-> b.id, index |-> b.index, log |-> logf[i], new |-> b.new]
      <4>2. blocks' = [blocks EXCEPT ![k] = d]
        BY <1>a, <4>1, BlockUpdates
      <4>3. /\ k \in EndKeys /\ b.id \in Ids /\ b.id < nextId /\ b.index \subseteq Keys
            /\ b.new \subseteq Streams /\ b.log \cup b.new \subseteq sent
        BY <1>a, InMapFacts DEF MapPart
      <4>4. d \in Block /\ d.id < nextId' /\ d.log \cup d.new \subseteq sent'
        BY <2>2, <2>4, <4>3, BlockFacts
      <4> HIDE DEF b, d
      <4>5. MapPart' /\ InMap' = InMap \cup {k}
        BY <1>a, <1>b, <2>7, <4>2, <4>3, <4>4, MapPut
      <4>6. clash' \in BOOLEAN
        BY <1>a, <3>1 DEF RestPart
      <4> QED
        BY <1>c, <3>1, <4>5, <4>6
    <3>2. CASE /\ blocks' = [blocks EXCEPT ![end] = c]
               /\ blockKeys' = blockKeys \cup (IF end \in InMap THEN {} ELSE {end})
               /\ clash' = (clash \/ end \in InMap)
      <4>1. c \in Block /\ c.id < nextId' /\ c.log \cup c.new \subseteq sent'
        BY <2>2, <2>4, <2>6, BlockFacts
      <4> HIDE DEF c, end
      <4>2. MapPart' /\ InMap' = InMap \cup {end}
        BY <1>a, <1>b, <2>5, <2>7, <3>2, <4>1, MapPut
      <4>3. clash' \in BOOLEAN
        BY <1>a, <3>2 DEF RestPart
      <4> QED
        BY <1>c, <2>5, <3>2, <4>2, <4>3
    <3> QED
      BY <2>3, <3>1, <3>2
  <2> HIDE DEF c, end
  <2>9. FilePart' /\ LogPart'
    BY <1>a, <1>b, <2>2, <2>7, FilesKept, LogsKept
  <2>10. TickPart'
    BY <1>a, <1>b, <2>2, <2>7, <2>8, TickKept
  <2>11. RestPart'
    BY <1>a, <2>2, <2>8 DEF RestPart
  <2> QED
    BY <2>8, <2>9, <2>10, <2>11 DEF MapInv
<1>18. ASSUME UNCHANGED vars PROVE MapInv'
  <2>1. UNCHANGED <<mode, blocks, blockKeys, tpc, tick, fileVars, logf, pending, nextId,
                    sent, flushed, clash, raced, crashes, errors>>
    BY <1>18 DEF vars, mapVars, tickVars, diskVars, histVars, boundVars
  <2>2. MapPart' /\ InMap' = InMap /\ FilePart' /\ LogPart'
    BY <1>a, <1>b, <1>d, <2>1, MapKept, FilesKept, LogsKept
  <2>3. TickPart'
    BY <1>a, <2>1, <2>2 DEF TickPart
  <2>4. RestPart'
    BY <1>a, <2>1 DEF RestPart
  <2> QED
    BY <2>2, <2>3, <2>4 DEF MapInv
<1> QED
  BY <1>1, <1>2, <1>3, <1>4, <1>5, <1>6, <1>7, <1>8, <1>9, <1>10, <1>11, <1>12,
     <1>13, <1>14, <1>15, <1>16, <1>17, <1>18 DEF Next

\* The parts are invariant.
LEMMA MapInvariant == Spec => []MapInv
BY MapInvInit, MapInvStep, PTL DEF Spec

\* The parts make the type invariant.
LEMMA MapInvTyped == MapInv => TypeOK /\ RoutesKnown
<1> SUFFICES ASSUME MapInv PROVE TypeOK /\ RoutesKnown
  OBVIOUS
<1>1. MapPart /\ FilePart /\ LogPart /\ TickPart /\ RestPart
  BY DEF MapInv
<1>2. pending \subseteq Ids
  <2>1. pending \subseteq 1..(nextId - 1) /\ nextId \in 1..(MaxIds + 1) /\ MaxIds \in Nat
    BY <1>1, ConstantsAssumption DEF RestPart
  <2>2. 1..(nextId - 1) \subseteq 1..MaxIds
    BY <2>1
  <2> QED
    BY <2>1, <2>2 DEF Ids
<1>3. /\ mode \in {"up", "down", "files", "logs"}
      /\ blockKeys \subseteq EndKeys
      /\ tpc \in TickPC
      /\ tick \in [keys : SUBSET EndKeys, key : EndKeys, id : 0..MaxIds,
                   buf : SUBSET Streams]
  BY <1>1 DEF TickPart
<1>4. /\ blocks \in [EndKeys -> Block \cup {NoBlock}]
      /\ \A k \in InMap : blocks[k].id < nextId
  BY <1>1 DEF MapPart
<1>5. RoutesKnown
  BY <1>1 DEF TickPart, RoutesKnown
<1> QED
  BY <1>1, <1>2, <1>3, <1>4, <1>5 DEF FilePart, LogPart, RestPart, TypeOK

\* Every variable holds a value of its kind, and no block and no file has an id
\* that has not been given out.
THEOREM TypeCorrect == Spec => []TypeOK
BY MapInvariant, MapInvTyped, PTL

\* Every block in the map is at an end key that findBlock looks through, whatever
\* the ticker, the writers and a restart do: splitBlock and readBlocks add the key,
\* and joinBlocks puts its block where the last of the joined ones was.
THEOREM AlwaysRouted == Spec => []RoutesKnown
BY MapInvariant, MapInvTyped, PTL
-----------------------------------------------------------------------------
(***************************************************************************)
(* Flushed streams stay on disk, and every file has one block.             *)
(***************************************************************************)

\* What is on disk is what the ids hold.
LEMMA DiskUnion ==
    ASSUME NEW f, NEW l, NEW I \in SUBSET Ids, \A i \in Ids : i \notin I => f[i] = {}
    PROVE  \A s : s \in (UNION {f[i] : i \in I}) \cup (UNION {l[i] : i \in Ids})
                    <=> \E i \in Ids : s \in f[i] \cup l[i]
<1> TAKE s
<1>1. ASSUME NEW i \in Ids, s \in f[i]
      PROVE  i \in I
  BY <1>1
<1>2. s \in UNION {f[i] : i \in I} <=> \E i \in Ids : s \in f[i]
  BY <1>1
<1>3. s \in UNION {l[i] : i \in Ids} <=> \E i \in Ids : s \in l[i]
  OBVIOUS
<1> QED
  BY <1>2, <1>3

\* The ids that files have been given, now and after a step.
LEMMA GivenIds ==
    /\ MapInv => fileIds \subseteq Ids
    /\ MapInv' => fileIds' \subseteq Ids
<1>1. \A n \in 1..(MaxIds + 1) : 1..(n - 1) \subseteq Ids
  BY ConstantsAssumption DEF Ids
<1>2. MapInv => fileIds \subseteq 1..(nextId - 1) /\ nextId \in 1..(MaxIds + 1)
  BY DEF MapInv, FilePart, RestPart
<1>3. MapInv' => fileIds' \subseteq 1..(nextId' - 1) /\ nextId' \in 1..(MaxIds + 1)
  BY DEF MapInv, FilePart, RestPart
<1> QED
  BY <1>1, <1>2, <1>3

\* What is on disk now is what the ids hold now.
LEMMA DiskHeld ==
    ASSUME MapInv
    PROVE  \A s : s \in OnDisk <=> \E i \in Ids : s \in file[i] \cup logf[i]
<1>1. \A i \in Ids : i \notin fileIds => file[i] = {}
  BY DEF MapInv, FilePart
<1> QED
  BY <1>1, GivenIds, DiskUnion DEF OnDisk

\* The same after a step.
LEMMA DiskHeldNext ==
    ASSUME MapInv'
    PROVE  \A s : s \in OnDisk' <=> \E i \in Ids : s \in file'[i] \cup logf'[i]
<1>1. \A i \in Ids : i \notin fileIds' => file'[i] = {}
  BY DEF MapInv, FilePart
<1> QED
  BY <1>1, GivenIds, DiskUnion DEF OnDisk

\* A step that moves what an id holds, but drops nothing, keeps all on disk.
LEMMA DiskKept ==
    ASSUME MapInv, MapInv',
           \A i \in Ids : \A s \in Held(i) : \E j \in Ids : s \in file'[j] \cup logf'[j]
    PROVE  OnDisk \subseteq OnDisk'
<1> SUFFICES ASSUME NEW s \in OnDisk PROVE s \in OnDisk'
  OBVIOUS
<1>1. PICK i \in Ids : s \in Held(i)
  BY DiskHeld DEF Held
<1>2. PICK j \in Ids : s \in file'[j] \cup logf'[j]
  BY <1>1
<1> QED
  BY <1>2, DiskHeldNext

\* The step leaves block.<i> and its log alone.
SameDisk(i) ==
    /\ file'[i] = file[i]
    /\ logf'[i] = logf[i]
    /\ header'[i] = header[i]
    /\ i \in fileIds' <=> i \in fileIds

\* A step that leaves a block and its file alone keeps what holds of them.
LEMMA BlockUntouched ==
    ASSUME NEW k, LogOK(k), NameOK(k), blocks'[k] = blocks[k],
           SameDisk(blocks[k].id), UNCHANGED <<mode, pending>>
    PROVE  LogOK(k)' /\ NameOK(k)'
<1>1. LogOK(k)'
  BY DEF LogOK, SameDisk
<1>2. Held(blocks[k].id)' = Held(blocks[k].id)
  BY DEF Held, SameDisk
<1>3. NameOK(k)'
  BY <1>2 DEF NameOK, SameDisk
<1> QED
  BY <1>1, <1>3

\* The same of a file alone.
LEMMA FileUntouched ==
    ASSUME NEW i, i \in fileIds => FileOK(i), SameDisk(i), i \in fileIds'
    PROVE  FileOK(i)'
<1>1. Held(i)' = Held(i)
  BY DEF Held, SameDisk
<1> QED
  BY <1>1 DEF FileOK, SameDisk

\* A file written where no leftover is in the way holds what was written.
LEMMA CleanWrite ==
    ASSUME MapInv, NEW i \in Ids, NEW S, WriteFile(i, S), ~damaged'
    PROVE  /\ file'[i] = S /\ header'[i] = KeysOf(S) /\ i \in fileIds'
           /\ \A j \in Ids : j # i => /\ file'[j] = file[j]
                                      /\ header'[j] = header[j]
                                      /\ j \in fileIds' <=> j \in fileIds
<1>1. i \notin tmpIds
  BY DEF WriteFile
<1>2. /\ file' = [file EXCEPT ![i] = S]
      /\ header' = [header EXCEPT ![i] = KeysOf(S)]
      /\ fileIds' = fileIds \cup {i}
  BY <1>1 DEF WriteFile
<1>3. DOMAIN file = Ids /\ DOMAIN header = Ids
  BY DEF MapInv, FilePart
<1> QED
  BY <1>2, <1>3

\* A Writer puts a stream into a block that the ticker does not work on, or into
\* a new one.
LEMMA KeptWrite ==
    ASSUME MapInv, MapInv', Kept, Clean', NEW s \in Streams, Write(s)
    PROVE  Kept'
<1> DEFINE above == {k \in blockKeys : k >= s[1]}
           at    == Min(above)
<1>1. /\ mode = "up" /\ mode' = "up"
      /\ UNCHANGED <<tpc, tick, file, header, fileIds, logf, pending, flushed>>
  BY DEF Write, tickVars, diskVars, fileVars
<1>2. /\ OwnerInv /\ BlockInv /\ FileInv /\ QuietInv /\ SplitInv /\ JoinInv
      /\ flushed \subseteq OnDisk
  BY DEF Kept
<1>3. \A i : SameDisk(i)
  BY <1>1 DEF SameDisk
<1>4. \A i : Held(i)' = Held(i)
  BY <1>1 DEF Held
<1>5. FileInv' /\ ReadInv' /\ flushed' \subseteq OnDisk'
  <2>1. FileInv'
    BY <1>1, <1>2, <1>3, FileUntouched DEF FileInv
  <2> QED
    BY <1>1, <1>2, <2>1 DEF ReadInv, OnDisk
<1>6. MapPart /\ TickPart /\ nextId \in Nat /\ MapPart' /\ InMap \subseteq blockKeys
  BY DEF MapInv, RestPart, TickPart
<1>7. Busy' = Busy
  BY <1>1 DEF Busy
<1>8. s[1] \in Keys /\ s[1] \in Nat /\ s[1] \in EndKeys
  BY ConstantsAssumption DEF Streams, Keys, EndKeys
<1>9. ASSUME /\ InMap \subseteq InMap'
             /\ \A k \in InMap : blocks'[k].id = blocks[k].id
             /\ \A j \in InMap' \ InMap : blocks'[j].id = nextId
      PROVE  SplitInv' /\ JoinInv'
  <2>1. ASSUME NEW k \in tick.keys, tpc \in Splits PROVE SplitOK(k)'
    <3>1. SplitOK(k) /\ k \in InMap
      BY <1>2, <1>6, <2>1 DEF SplitInv, TickPart
    <3>2. blocks'[k].id = blocks[k].id
      BY <1>9, <3>1
    <3>3. tpc # "splitRead" => \A j \in InMap' : blocks'[j].id # tick.id
      <4>1. SUFFICES ASSUME tpc # "splitRead", NEW j \in InMap' PROVE blocks'[j].id # tick.id
        OBVIOUS
      <4>2. CASE j \in InMap
        BY <1>9, <3>1, <4>1, <4>2 DEF SplitOK
      <4>3. CASE j \notin InMap
        <5>1. tick.id \in 1..(nextId - 1)
          BY <1>6, <2>1, <4>1 DEF TickPart
        <5> QED
          BY <1>6, <1>9, <4>3, <5>1
      <4> QED
        BY <4>2, <4>3
    <3>4. LeftPart' = LeftPart
      BY <1>1 DEF LeftPart
    <3> QED
      BY <1>1, <1>4, <3>1, <3>2, <3>3, <3>4 DEF SplitOK
  <2>2. ASSUME tpc \in Joins PROVE JoinOK'
    <3>1. JoinOK /\ tick.keys \subseteq InMap
      BY <1>2, <1>6, <2>2 DEF JoinInv, TickPart
    <3>2. \A k \in tick.keys : blocks'[k].id = blocks[k].id
      BY <1>9, <3>1
    <3>3. tick.key \in InMap' /\ blocks'[tick.key].id = tick.id
      BY <1>9, <3>1 DEF JoinOK
    <3> QED
      BY <1>1, <1>4, <3>1, <3>2, <3>3 DEF JoinOK
  <2> QED
    BY <1>1, <2>1, <2>2 DEF SplitInv, JoinInv
<1>10. CASE /\ above # {}
            /\ at \in InMap
            /\ blocks' = [blocks EXCEPT ![at].new = @ \cup {s}]
            /\ raced' = (raced \/ at \in Busy)
  <2>1. at >= s[1] /\ at \in Nat
    <3>1. above \in SUBSET Nat
      <4>1. blockKeys \subseteq EndKeys
        BY <1>6 DEF TickPart
      <4>2. EndKeys \subseteq Nat
        BY ConstantsAssumption DEF EndKeys
      <4> QED
        BY <4>1, <4>2
    <3>2. at \in above
      BY <1>10, <3>1, MinFacts
    <3> QED
      BY <3>1, <3>2
  <2> HIDE DEF at, above
  <2> DEFINE b == blocks[at]
             c == [id |-> b.id, index |-> b.index, log |-> b.log, new |-> b.new \cup {s}]
  <2>2. blocks' = [blocks EXCEPT ![at] = c]
    BY <1>6, <1>10, BlockUpdates
  <2>3. at \in EndKeys /\ DOMAIN blocks = EndKeys
    BY <1>6, <1>10, InMapFacts DEF MapPart
  <2>4. blocks'[at] = c /\ \A j \in EndKeys : j # at => blocks'[j] = blocks[j]
    BY <2>2, <2>3
  <2>5. InMap' = InMap
    <3>1. \A j : j \in InMap' <=> j \in EndKeys /\ blocks'[j] # NoBlock
      BY DEF InMap
    <3>2. \A j : j \in InMap <=> j \in EndKeys /\ blocks[j] # NoBlock
      BY DEF InMap
    <3>3. c # NoBlock
      <4>1. c.id = b.id /\ b.id \in Ids
        BY <1>6, <1>10, InMapFacts
      <4>2. NoBlock.id = 0 /\ 0 \notin Ids
        BY ConstantsAssumption DEF NoBlock, Ids
      <4> HIDE DEF c
      <4> QED
        BY <4>1, <4>2
    <3> HIDE DEF c, b
    <3>4. \A j : j \in InMap' <=> j \in InMap
      BY <1>10, <2>3, <2>4, <3>1, <3>2, <3>3
    <3> QED
      BY <3>4
  <2>6. c.id = b.id /\ c.log = b.log /\ c.index = b.index /\ c.new = b.new \cup {s}
    OBVIOUS
  <2> HIDE DEF c, b
  <2>7. \A k \in InMap : k \in EndKeys /\ blocks'[k].id = blocks[k].id
    BY <2>3, <2>4, <2>6 DEF b, InMap
  <2>8. OwnerInv'
    BY <1>2, <2>5, <2>7 DEF OwnerInv
  <2>9. BlockInv'
    <3> SUFFICES ASSUME NEW k \in InMap PROVE LogOK(k)' /\ NameOK(k)'
      BY <2>5 DEF BlockInv
    <3>1. LogOK(k) /\ NameOK(k) /\ k \in EndKeys
      BY <1>2, <2>7 DEF BlockInv
    <3>2. CASE k # at
      <4>1. blocks'[k] = blocks[k]
        BY <2>4, <3>1, <3>2
      <4> QED
        BY <1>1, <1>3, <3>1, <4>1, BlockUntouched
    <3>3. CASE k = at
      <4>1. blocks[k] = b /\ blocks'[k] = c
        BY <2>4, <3>3 DEF b
      <4>2. LogOK(k)'
        BY <1>1, <2>6, <3>1, <4>1 DEF LogOK
      <4>3. KeysOf(Held(b.id) \cup c.new) = KeysOf(Held(b.id) \cup b.new) \cup {s[1]}
        <5>1. Held(b.id) \cup c.new = (Held(b.id) \cup b.new) \cup {s}
          BY <2>6
        <5>2. KeysOf({s}) = {s[1]}
          BY DEF KeysOf
        <5> QED
          BY <5>1, <5>2, KeysOfFacts
      <4>5. NameOK(k)'
        <5>1. /\ k \in KeysOf(Held(b.id) \cup b.new)
              /\ \A n \in KeysOf(Held(b.id) \cup b.new) : n <= k
              /\ b.index \subseteq KeysOf(Held(b.id))
              /\ b.id \in fileIds => k \in header[b.id]
          BY <3>1, <4>1 DEF NameOK
        <5>2. /\ k \in KeysOf(Held(b.id) \cup c.new)
              /\ \A n \in KeysOf(Held(b.id) \cup c.new) : n <= k
          BY <2>1, <3>3, <4>3, <5>1, <1>8
        <5>3. Held(blocks[k].id)' = Held(b.id)
          BY <1>1, <2>6, <4>1 DEF Held
        <5> QED
          BY <1>1, <2>6, <4>1, <5>1, <5>2, <5>3 DEF NameOK
      <4> QED
        BY <4>2, <4>5
    <3> QED
      BY <3>2, <3>3
  <2>10. QuietInv'
    <3>1. at \notin Busy
      BY <1>10 DEF Clean
    <3>2. Busy \subseteq EndKeys
      BY <1>6 DEF TickPart, Busy
    <3> QED
      BY <1>2, <1>7, <2>4, <3>1, <3>2 DEF QuietInv
  <2>11. SplitInv' /\ JoinInv'
    BY <1>9, <2>5, <2>7
  <2> QED
    BY <1>5, <2>8, <2>9, <2>10, <2>11 DEF Kept
<1>11. CASE UNCHANGED blocks
  <2>1. InMap' = InMap
    BY <1>11 DEF InMap
  <2>2. OwnerInv' /\ QuietInv'
    BY <1>2, <1>7, <1>11, <2>1 DEF OwnerInv, QuietInv
  <2>3. BlockInv'
    BY <1>1, <1>2, <1>3, <1>11, <2>1, BlockUntouched DEF BlockInv
  <2>4. SplitInv' /\ JoinInv'
    BY <1>9, <1>11, <2>1
  <2> QED
    BY <1>5, <2>2, <2>3, <2>4 DEF Kept
<1>12. CASE /\ above = {}
            /\ nextId \in Ids
            /\ insertBlock(s[1], [newBlock(nextId) EXCEPT !.new = {s}])
  <2>1. s[1] \notin InMap
    <3>1. s[1] \notin blockKeys
      BY <1>8, <1>12
    <3> QED
      BY <1>6, <3>1
  <2> HIDE DEF above, at
  <2> DEFINE c == [id |-> nextId, index |-> {}, log |-> {}, new |-> {s}]
             k == s[1]
  <2>2. blocks' = [blocks EXCEPT ![k] = c]
    <3>1. [newBlock(nextId) EXCEPT !.new = {s}] = c
      BY DEF newBlock
    <3> HIDE DEF c
    <3> QED
      BY <1>12, <3>1, Zenon DEF insertBlock
  <2>3. DOMAIN blocks = EndKeys
    BY <1>6 DEF MapPart
  <2>4. blocks'[k] = c /\ \A j \in EndKeys : j # k => blocks'[j] = blocks[j]
    BY <1>8, <2>2, <2>3
  <2>5. c.id = nextId /\ c.log = {} /\ c.index = {} /\ c.new = {s}
    OBVIOUS
  <2> HIDE DEF c
  <2>6. c # NoBlock
    BY <1>12, <2>5, ConstantsAssumption DEF NoBlock, Ids
  <2>7. InMap' = InMap \cup {k}
    <3>1. \A j : j \in InMap' <=> j \in EndKeys /\ blocks'[j] # NoBlock
      BY DEF InMap
    <3>2. \A j : j \in InMap <=> j \in EndKeys /\ blocks[j] # NoBlock
      BY DEF InMap
    <3>3. \A j : j \in InMap' <=> j \in InMap \cup {k}
      BY <1>8, <2>4, <2>6, <3>1, <3>2
    <3> QED
      BY <3>3
  <2>8. \A j \in InMap : j \in EndKeys /\ j # k /\ blocks'[j] = blocks[j]
                         /\ blocks[j].id # nextId
    <3>1. \A j \in InMap : j \in EndKeys /\ blocks[j].id \in Ids /\ blocks[j].id < nextId
      BY <1>6, InMapFacts
    <3>2. \A i \in Ids : i < nextId => i # nextId
      BY <1>6 DEF Ids
    <3> QED
      BY <2>1, <2>4, <3>1, <3>2
  <2>9. OwnerInv'
    BY <1>2, <2>4, <2>5, <2>7, <2>8 DEF OwnerInv
  <2>10. file[nextId] = {} /\ logf[nextId] = {} /\ nextId \notin fileIds
    <3>1. nextId \notin 1..(nextId - 1) /\ nextId >= nextId
      BY <1>6
    <3>2. nextId \notin fileIds
      BY <3>1 DEF MapInv, FilePart
    <3> QED
      BY <1>12, <3>1, <3>2 DEF MapInv, FilePart, LogPart
  <2>11. LogOK(k)'
    BY <1>1, <2>4, <2>5, <2>10 DEF LogOK
  <2>12. NameOK(k)'
    <3>1. Held(blocks[k].id)' = {}
      BY <1>1, <2>4, <2>5, <2>10 DEF Held
    <3>2. KeysOf({s}) = {k}
      BY DEF KeysOf
    <3>3. k <= k
      BY <1>8
    <3>4. Held(blocks[k].id)' \cup blocks[k].new' = {s}
      BY <2>4, <2>5, <3>1
    <3> HIDE DEF k
    <3>5. /\ k \in KeysOf(Held(blocks[k].id)' \cup blocks[k].new')
          /\ \A n \in KeysOf(Held(blocks[k].id)' \cup blocks[k].new') : n <= k
      BY <3>2, <3>3, <3>4
    <3> QED
      BY <1>1, <2>4, <2>5, <2>10, <3>5 DEF NameOK
  <2>13. BlockInv'
    BY <1>1, <1>2, <1>3, <2>7, <2>8, <2>11, <2>12, BlockUntouched DEF BlockInv
  <2>14. QuietInv'
    <3>1. Busy \subseteq InMap
      BY <1>2, <1>6 DEF TickPart, Busy, JoinInv, JoinOK, Joins
    <3> QED
      BY <1>2, <1>7, <2>8, <3>1 DEF QuietInv
  <2>15. SplitInv' /\ JoinInv'
    <3>1. \A j \in InMap' \ InMap : blocks'[j].id = nextId
      BY <2>4, <2>5, <2>7
    <3> QED
      BY <1>9, <2>7, <2>8, <3>1
  <2> QED
    BY <1>5, <2>9, <2>13, <2>14, <2>15 DEF Kept
<1> QED
  BY <1>10, <1>11, <1>12 DEF Write, mapVars

\* Flush moves the unflushed streams of every block to its LogStreams and to its
\* log, and writes no other log.
LEMMA FlushFacts ==
    ASSUME MapInv, OwnerInv, Flush
    PROVE  /\ InMap' = InMap
           /\ \A k \in InMap :
                 /\ k \in EndKeys /\ blocks[k].id \in Ids
                 /\ blocks'[k].id = blocks[k].id
                 /\ blocks'[k].index = blocks[k].index
                 /\ blocks'[k].log = blocks[k].log \cup blocks[k].new
                 /\ blocks'[k].new = {}
           /\ \A k \in InMap : logf'[blocks[k].id] = logf[blocks[k].id] \cup blocks[k].new
           /\ \A i \in Ids : (\A k \in InMap : blocks[k].id # i) => logf'[i] = logf[i]
<1> DEFINE dirty == {k \in InMap : blocks[k].new # {}}
<1>1. /\ mode = "up" /\ tpc \notin {"splitRight", "splitInsert"}
      /\ blocks' = [k \in EndKeys |->
                    IF k \in dirty
                      THEN [blocks[k] EXCEPT !.log = @ \cup blocks[k].new,
                                             !.new = {}]
                      ELSE blocks[k]]
      /\ logf' = [i \in Ids |->
                  logf[i] \cup UNION {blocks[k].new :
                                        k \in {d \in dirty : blocks[d].id = i}}]
      /\ flushed' = flushed \cup UNION {blocks[k].new : k \in dirty}
      /\ UNCHANGED <<mode, tpc, tick, file, header, fileIds, pending>>
  BY Zenon DEF Flush, tickVars, fileVars
<1>2. OwnerInv
  OBVIOUS
<1>3. MapPart /\ TickPart /\ LogPart
  BY DEF MapInv
<1>4. ASSUME NEW k \in InMap
      PROVE  /\ k \in EndKeys /\ blocks[k].id \in Ids
             /\ blocks'[k].id = blocks[k].id
             /\ blocks'[k].index = blocks[k].index
             /\ blocks'[k].log = blocks[k].log \cup blocks[k].new
             /\ blocks'[k].new = {}
  <2>1. k \in EndKeys /\ blocks[k] \in Block /\ blocks[k].id \in Ids
    BY <1>3, InMapFacts
  <2>2. CASE k \in dirty
    <3>1. blocks'[k] = [blocks[k] EXCEPT !.log = @ \cup blocks[k].new, !.new = {}]
      <4> HIDE DEF dirty
      <4> QED
        BY <1>1, <2>1, <2>2
    <3> QED
      BY <2>1, <3>1 DEF Block
  <2>3. CASE k \notin dirty
    <3>1. blocks[k].new = {}
      BY <2>3
    <3> HIDE DEF dirty
    <3>2. blocks'[k] = blocks[k]
      BY <1>1, <2>1, <2>3
    <3> QED
      BY <2>1, <3>1, <3>2
  <2> QED
    BY <2>2, <2>3
<1>5. InMap' = InMap
  <2>1. \A j : j \in InMap' <=> j \in EndKeys /\ blocks'[j] # NoBlock
    BY DEF InMap
  <2>2. \A j : j \in InMap <=> j \in EndKeys /\ blocks[j] # NoBlock
    BY DEF InMap
  <2>3. ASSUME NEW j \in EndKeys, j \notin InMap PROVE blocks'[j] = blocks[j]
    <3>1. j \notin dirty
      BY <2>3
    <3> HIDE DEF dirty
    <3> QED
      BY <1>1, <3>1
  <2>4. ASSUME NEW j \in InMap PROVE blocks'[j] # NoBlock
    <3>1. blocks'[j].id \in Ids
      BY <1>4
    <3>2. NoBlock.id = 0 /\ 0 \notin Ids
      BY ConstantsAssumption DEF NoBlock, Ids
    <3> QED
      BY <3>1, <3>2
  <2>5. \A j : j \in InMap' <=> j \in InMap
    BY <2>1, <2>2, <2>3, <2>4
  <2> QED
    BY <2>5
<1>6. ASSUME NEW k \in InMap
      PROVE  logf'[blocks[k].id] = logf[blocks[k].id] \cup blocks[k].new
  <2> DEFINE mine == {d \in dirty : blocks[d].id = blocks[k].id}
  <2>1. \A d \in mine : d = k
    BY <1>2 DEF OwnerInv
  <2>2. blocks[k].new # {} => k \in mine
    OBVIOUS
  <2>3. logf'[blocks[k].id] = logf[blocks[k].id] \cup UNION {blocks[d].new : d \in mine}
    <3> HIDE DEF dirty
    <3> QED
      BY <1>1, <1>4
  <2> HIDE DEF mine
  <2>4. UNION {blocks[d].new : d \in mine} = blocks[k].new
    <3>1. CASE blocks[k].new = {}
      <4>1. \A d \in mine : blocks[d].new = {}
        BY <2>1, <3>1
      <4> QED
        BY <3>1, <4>1
    <3>2. CASE blocks[k].new # {}
      <4>1. mine = {k}
        BY <2>1, <2>2, <3>2
      <4> QED
        BY <4>1
    <3> QED
      BY <3>1, <3>2
  <2> QED
    BY <2>3, <2>4
<1>7. ASSUME NEW i \in Ids, \A k \in InMap : blocks[k].id # i
      PROVE  logf'[i] = logf[i]
  <2> DEFINE mine == {d \in dirty : blocks[d].id = i}
  <2>1. mine = {}
    BY <1>7
  <2>2. logf'[i] = logf[i] \cup UNION {blocks[d].new : d \in mine}
    <3> HIDE DEF dirty
    <3> QED
      BY <1>1
  <2> HIDE DEF mine
  <2> QED
    BY <2>1, <2>2
<1> QED
  BY <1>4, <1>5, <1>6, <1>7

\* Flush moves the unflushed streams of every block to its log.
LEMMA KeptFlush ==
    ASSUME MapInv, MapInv', Kept, Clean', Flush
    PROVE  Kept' /\ OnDisk \subseteq OnDisk'
<1> DEFINE dirty == {k \in InMap : blocks[k].new # {}}
<1>1. /\ mode = "up" /\ tpc \notin {"splitRight", "splitInsert"}
      /\ blocks' = [k \in EndKeys |->
                    IF k \in dirty
                      THEN [blocks[k] EXCEPT !.log = @ \cup blocks[k].new,
                                             !.new = {}]
                      ELSE blocks[k]]
      /\ logf' = [i \in Ids |->
                  logf[i] \cup UNION {blocks[k].new :
                                        k \in {d \in dirty : blocks[d].id = i}}]
      /\ flushed' = flushed \cup UNION {blocks[k].new : k \in dirty}
      /\ UNCHANGED <<mode, tpc, tick, file, header, fileIds, pending>>
  BY Zenon DEF Flush, tickVars, fileVars
<1>2. /\ OwnerInv /\ BlockInv /\ FileInv /\ QuietInv /\ SplitInv /\ JoinInv
      /\ flushed \subseteq OnDisk
  BY DEF Kept
<1>3. MapPart /\ TickPart /\ LogPart
  BY DEF MapInv
<1>4. ASSUME NEW k \in InMap
      PROVE  /\ k \in EndKeys /\ blocks[k].id \in Ids
             /\ blocks'[k].id = blocks[k].id
             /\ blocks'[k].index = blocks[k].index
             /\ blocks'[k].log = blocks[k].log \cup blocks[k].new
             /\ blocks'[k].new = {}
  BY <1>2, FlushFacts
<1>5. InMap' = InMap
  BY <1>2, FlushFacts
<1>6. ASSUME NEW k \in InMap
      PROVE  logf'[blocks[k].id] = logf[blocks[k].id] \cup blocks[k].new
  BY <1>2, FlushFacts
<1>7. ASSUME NEW i \in Ids, \A k \in InMap : blocks[k].id # i
      PROVE  logf'[i] = logf[i]
  BY <1>2, <1>7, FlushFacts
<1>8. \A i \in Ids : logf[i] \subseteq logf'[i]
  <2> SUFFICES ASSUME NEW i \in Ids PROVE logf[i] \subseteq logf'[i]
    OBVIOUS
  <2>1. CASE \E k \in InMap : blocks[k].id = i
    BY <1>6, <2>1
  <2>2. CASE \A k \in InMap : blocks[k].id # i
    BY <1>7, <2>2
  <2> QED
    BY <2>1, <2>2
<1>9. OnDisk \subseteq OnDisk'
  BY <1>1, <1>8, DiskKept DEF Held
<1>10. flushed' \subseteq OnDisk'
  <2>1. ASSUME NEW k \in dirty PROVE blocks[k].new \subseteq OnDisk'
    <3>1. k \in InMap
      OBVIOUS
    <3>2. blocks[k].new \subseteq logf'[blocks[k].id] /\ blocks[k].id \in Ids
      BY <1>4, <1>6, <3>1
    <3> QED
      BY <3>2, DiskHeldNext
  <2> HIDE DEF dirty
  <2>2. UNION {blocks[k].new : k \in dirty} \subseteq OnDisk'
    BY <2>1
  <2> QED
    BY <1>1, <1>2, <1>9, <2>2
<1> HIDE DEF dirty
<1>a. mode = "up" /\ mode' = "up" /\ UNCHANGED <<header, fileIds>>
  BY <1>1
<1>11. OwnerInv'
  BY <1>2, <1>4, <1>5 DEF OwnerInv
<1>12. ASSUME NEW k \in InMap
       PROVE  /\ Held(blocks[k].id)' = Held(blocks[k].id) \cup blocks[k].new
              /\ LogOK(k) /\ NameOK(k)
  <2>1. Held(blocks[k].id)' = file'[blocks'[k].id] \cup logf'[blocks'[k].id]
    BY DEF Held
  <2>2. Held(blocks[k].id) = file[blocks[k].id] \cup logf[blocks[k].id]
    BY DEF Held
  <2> QED
    BY <1>1, <1>2, <1>4, <1>6, <2>1, <2>2 DEF BlockInv
<1>13. BlockInv'
  <2> SUFFICES ASSUME NEW k \in InMap PROVE LogOK(k)' /\ NameOK(k)'
    BY <1>5 DEF BlockInv
  <2>1. LogOK(k)'
    <3>1. blocks[k].log = logf[blocks[k].id]
      BY <1>1, <1>12 DEF LogOK
    <3> QED
      BY <1>a, <1>4, <1>6, <3>1 DEF LogOK
  <2>2. NameOK(k)'
    <3>1. Held(blocks[k].id)' \cup blocks[k].new' = Held(blocks[k].id) \cup blocks[k].new
      BY <1>4, <1>12
    <3>2. /\ k \in KeysOf(Held(blocks[k].id) \cup blocks[k].new)
          /\ \A n \in KeysOf(Held(blocks[k].id) \cup blocks[k].new) : n <= k
          /\ blocks[k].index \subseteq KeysOf(Held(blocks[k].id))
          /\ blocks[k].id \in fileIds => k \in header[blocks[k].id]
      BY <1>12 DEF NameOK
    <3>3. KeysOf(Held(blocks[k].id)) \subseteq KeysOf(Held(blocks[k].id)')
      BY <1>12, KeysOfFacts
    <3> QED
      <4>1. blocks'[k].index \subseteq KeysOf(Held(blocks[k].id)')
        BY <1>4, <3>2, <3>3
      <4>2. blocks'[k].id \in fileIds' => k \in header'[blocks'[k].id]
        BY <1>a, <1>4, <3>2
      <4>3. /\ k \in KeysOf(Held(blocks[k].id)' \cup blocks[k].new')
            /\ \A n \in KeysOf(Held(blocks[k].id)' \cup blocks[k].new') : n <= k
        BY <3>1, <3>2
      <4> QED
        BY <4>1, <4>2, <4>3 DEF NameOK
  <2> QED
    BY <2>1, <2>2
<1>14. FileInv'
  <2> SUFFICES ASSUME NEW i \in fileIds PROVE FileOK(i)'
    BY <1>1 DEF FileInv
  <2>1. FileOK(i) /\ i \in Ids
    BY <1>2, GivenIds DEF FileInv
  <2>2. CASE \E k \in InMap : blocks[k].id = i
    <3>1. PICK k \in InMap : blocks[k].id = i
      BY <2>2
    <3>2. /\ \A n \in KeysOf(Held(i) \cup blocks[k].new) : n <= k
          /\ k \in header[i]
      BY <1>12, <3>1 DEF NameOK
    <3>3. Held(i)' = Held(i) \cup blocks[k].new
      BY <1>1, <1>6, <3>1 DEF Held
    <3> QED
      BY <1>1, <2>1, <3>2, <3>3 DEF FileOK
  <2>3. CASE \A k \in InMap : blocks[k].id # i
    <3>1. SameDisk(i)
      BY <1>1, <1>7, <2>1, <2>3 DEF SameDisk
    <3> QED
      BY <1>1, <2>1, <3>1, FileUntouched
  <2> QED
    BY <2>2, <2>3
<1>15. ReadInv'
  BY <1>1 DEF ReadInv
<1>16. Busy' = Busy /\ Busy \subseteq InMap
  BY <1>1, <1>2, <1>3 DEF TickPart, Busy, JoinInv, JoinOK, Joins
<1>17. QuietInv'
  BY <1>4, <1>16 DEF QuietInv
<1>18. ASSUME NEW k \in Busy
       PROVE  Held(blocks[k].id)' = Held(blocks[k].id)
              /\ logf'[blocks[k].id] = logf[blocks[k].id]
  <2>1. k \in InMap /\ blocks[k].new = {}
    BY <1>2, <1>16 DEF QuietInv
  <2> QED
    BY <1>6, <1>12, <2>1
<1>19. SplitInv'
  <2> SUFFICES ASSUME tpc \in Splits, NEW k \in tick.keys PROVE SplitOK(k)'
    BY <1>1 DEF SplitInv
  <2>1. SplitOK(k) /\ k \in Busy
    BY <1>2 DEF SplitInv, Busy
  <2>2. Held(blocks[k].id)' = Held(blocks[k].id) /\ k \in InMap
    BY <1>16, <1>18, <2>1
  <2>3. tpc # "splitRead" => /\ \A j \in InMap' : blocks'[j].id # tick.id
                             /\ logf'[tick.id] = {}
    <3> SUFFICES ASSUME tpc # "splitRead"
                 PROVE  (\A j \in InMap' : blocks'[j].id # tick.id) /\ logf'[tick.id] = {}
      OBVIOUS
    <3>1. (\A j \in InMap : blocks[j].id # tick.id) /\ logf[tick.id] = {}
      BY <2>1 DEF SplitOK
    <3>2. tick.id \in Ids
      <4>1. tick.id \in 1..(nextId - 1) /\ nextId \in 1..(MaxIds + 1) /\ MaxIds \in Nat
        BY <1>3, ConstantsAssumption DEF MapInv, TickPart, RestPart
      <4> QED
        BY <4>1 DEF Ids
    <3> QED
      BY <1>4, <1>5, <1>7, <3>1, <3>2
  <2>4. tpc \notin {"splitRight", "splitInsert"}
    BY <1>1
  <2> QED
    BY <1>1, <2>1, <2>2, <2>3, <2>4 DEF SplitOK
<1>20. JoinInv'
  <2> SUFFICES ASSUME tpc \in Joins PROVE JoinOK'
    BY <1>1 DEF JoinInv
  <2>1. JoinOK
    BY <1>2 DEF JoinInv
  <2>2. \A k \in tick.keys : Held(blocks[k].id)' = Held(blocks[k].id)
    BY <1>18 DEF Busy
  <2>3. tick.key \in InMap' /\ blocks'[tick.key].id = tick.id
    BY <1>4, <1>5, <2>1 DEF JoinOK
  <2>4. tick.keys = {} => logf'[tick.id] = {}
    <3> SUFFICES ASSUME tick.keys = {} PROVE logf'[tick.id] = {}
      OBVIOUS
    <3>1. logf[tick.id] = {} /\ blocks[tick.key].id = tick.id /\ tpc = "joinRemove"
      BY <2>1 DEF JoinOK, Joins
    <3>2. tick.key \in Busy
      BY <3>1 DEF Busy
    <3> QED
      BY <1>18, <3>1, <3>2
  <2> QED
    BY <1>1, <2>1, <2>2, <2>3, <2>4 DEF JoinOK
<1> QED
  BY <1>9, <1>10, <1>11, <1>13, <1>14, <1>15, <1>17, <1>19, <1>20 DEF Kept

\* A compaction of a block without unflushed streams moves what its log holds to
\* its file, or leaves both alone, and changes no other block.
LEMMA KeptCompacted ==
    ASSUME MapInv, MapInv', Kept, ~damaged', mode = "up", UNCHANGED <<mode, pending>>,
           NEW k \in InMap, blocks[k].new = {},
           compactBlock(k) \/ compactBlockFails(k)
    PROVE  /\ InMap' = InMap
           /\ \A j \in InMap : blocks'[j].id = blocks[j].id /\ blocks'[j].new = blocks[j].new
           /\ \A i \in Ids : Held(i)' = Held(i)
           /\ OwnerInv' /\ BlockInv' /\ FileInv'
<1>1. OwnerInv /\ BlockInv /\ FileInv
  BY DEF Kept
<1>2. MapPart /\ FilePart /\ LogPart
  BY DEF MapInv
<1>3. PICK i \in Ids : i = blocks[k].id
  BY <1>2, InMapFacts
<1>4. k \in EndKeys /\ blocks[k] \in Block /\ DOMAIN blocks = EndKeys
  BY <1>2, InMapFacts DEF MapPart
<1>5. LogOK(k) /\ NameOK(k)
  BY <1>1 DEF BlockInv
<1>6. Read(k) = Held(i)
  BY <1>3, <1>5 DEF LogOK, Read, Held
<1>7. /\ blocks'[k].id = i /\ blocks'[k].new = {} /\ blocks'[k].index = KeysOf(Held(i))
      /\ \A j \in EndKeys : j # k => blocks'[j] = blocks[j]
      /\ InMap' = InMap
      /\ file'[i] \cup logf'[i] = Held(i)
      /\ blocks'[k].log = logf'[i]
      /\ i \in fileIds' => header'[i] = KeysOf(file'[i])
      /\ i \in fileIds' /\ i \notin fileIds => file'[i] = Held(i)
      /\ i \in fileIds => KeysOf(file[i]) \subseteq KeysOf(file'[i])
      /\ \A j \in Ids : j # i => SameDisk(j)
  <2> DEFINE b == blocks[k]
             X == KeysOf(Held(i))
  <2>0. KeysOf(Read(k)) = X
    BY <1>6
  <2> HIDE DEF X, b
  <2>1. CASE compactBlock(k)
    <3> DEFINE c == [id |-> b.id, index |-> X, log |-> {}, new |-> b.new]
    <3>1. blocks' = [blocks EXCEPT ![k] = c]
      BY <1>2, <2>0, <2>1, BlockUpdates DEF compactBlock, b
    <3>2. WriteFile(i, Held(i)) /\ logf' = [logf EXCEPT ![i] = {}]
      BY <1>3, <1>6, <2>1 DEF compactBlock
    <3>3. /\ file'[i] = Held(i) /\ header'[i] = KeysOf(Held(i))
          /\ \A j \in Ids : j # i => /\ file'[j] = file[j]
                                     /\ header'[j] = header[j]
                                     /\ j \in fileIds' <=> j \in fileIds
      BY <3>2, CleanWrite
    <3>4. logf'[i] = {} /\ \A j \in Ids : j # i => logf'[j] = logf[j]
      BY <1>2, <3>2 DEF LogPart
    <3>5. \A j \in Ids : j # i => SameDisk(j)
      BY <3>3, <3>4 DEF SameDisk
    <3>6. c.id = i /\ c.new = {} /\ c.index = X /\ c.log = {}
      BY <1>3 DEF b
    <3> HIDE DEF c
    <3>7. blocks'[k] = c /\ \A j \in EndKeys : j # k => blocks'[j] = blocks[j]
      BY <1>4, <3>1
    <3>8. InMap' = InMap
      <4>2. c # NoBlock
        BY <3>6, ConstantsAssumption DEF NoBlock, Ids
      <4>3. \A j : j \in InMap' <=> j \in EndKeys /\ blocks'[j] # NoBlock
        BY DEF InMap
      <4>4. \A j : j \in InMap <=> j \in EndKeys /\ blocks[j] # NoBlock
        BY DEF InMap
      <4>5. \A j : j \in InMap' <=> j \in InMap
        BY <1>4, <3>7, <4>2, <4>3, <4>4
      <4> QED
        BY <4>5
    <3>9. KeysOf(file[i]) \subseteq KeysOf(Held(i))
      BY KeysOfFacts DEF Held
    <3> QED
      BY <3>3, <3>4, <3>5, <3>6, <3>7, <3>8, <3>9 DEF X
  <2>2. CASE compactBlockFails(k)
    <3> DEFINE c == [id |-> b.id, index |-> X, log |-> b.log, new |-> b.new]
    <3>1. blocks' = [blocks EXCEPT ![k] = c]
      BY <1>2, <2>0, <2>2, BlockUpdates DEF compactBlockFails, b
    <3>2. UNCHANGED <<file, header, fileIds, logf>>
      BY <2>2 DEF compactBlockFails, WriteFails
    <3>3. \A j : SameDisk(j)
      BY <3>2 DEF SameDisk
    <3>4. c.id = i /\ c.new = {} /\ c.index = X /\ c.log = b.log
      BY <1>3 DEF b
    <3>5. b.log = logf[i]
      BY <1>3, <1>5 DEF LogOK, b
    <3>6. i \in fileIds => header[i] = KeysOf(file[i])
      BY <1>1 DEF FileInv, FileOK
    <3> HIDE DEF c
    <3>7. blocks'[k] = c /\ \A j \in EndKeys : j # k => blocks'[j] = blocks[j]
      BY <1>4, <3>1
    <3>8. InMap' = InMap
      <4>2. c # NoBlock
        BY <3>4, ConstantsAssumption DEF NoBlock, Ids
      <4>3. \A j : j \in InMap' <=> j \in EndKeys /\ blocks'[j] # NoBlock
        BY DEF InMap
      <4>4. \A j : j \in InMap <=> j \in EndKeys /\ blocks[j] # NoBlock
        BY DEF InMap
      <4>5. \A j : j \in InMap' <=> j \in InMap
        BY <1>4, <3>7, <4>2, <4>3, <4>4
      <4> QED
        BY <4>5
    <3> QED
      BY <3>2, <3>3, <3>4, <3>5, <3>6, <3>7, <3>8 DEF X, Held
  <2> QED
    BY <2>1, <2>2
<1>8. /\ k \in KeysOf(Held(i))
      /\ \A n \in KeysOf(Held(i)) : n <= k
      /\ i \in fileIds => k \in header[i]
  <2>1. Held(i) \cup {} = Held(i)
    OBVIOUS
  <2> QED
    BY <1>3, <1>5, <2>1 DEF NameOK
<1>9. \A j \in InMap : j # k => blocks[j].id # i /\ blocks[j].id \in Ids
                                /\ blocks'[j] = blocks[j]
  BY <1>1, <1>2, <1>3, <1>7, InMapFacts DEF OwnerInv
<1>10. \A j \in Ids : Held(j)' = Held(j)
  BY <1>7 DEF Held, SameDisk
<1>11. \A j \in InMap : blocks'[j].id = blocks[j].id /\ blocks'[j].new = blocks[j].new
  BY <1>3, <1>7, <1>9
<1>12. OwnerInv'
  BY <1>1, <1>7, <1>11 DEF OwnerInv
<1>13. i \in fileIds' => k \in header'[i]
  <2>1. CASE i \in fileIds
    BY <1>1, <1>7, <1>8, <2>1 DEF FileInv, FileOK
  <2>2. CASE i \notin fileIds
    BY <1>7, <1>8, <2>2
  <2> QED
    BY <2>1, <2>2
<1>14. LogOK(k)' /\ NameOK(k)'
  <2>1. LogOK(k)'
    BY <1>7 DEF LogOK
  <2>2. Held(blocks[k].id)' = Held(i)
    BY <1>7 DEF Held
  <2>3. Held(blocks[k].id)' \cup blocks'[k].new = Held(i)
    BY <1>7, <2>2
  <2>4. NameOK(k)'
    BY <1>7, <1>8, <1>13, <2>2, <2>3 DEF NameOK
  <2> QED
    BY <2>1, <2>4
<1>15. BlockInv'
  <2> SUFFICES ASSUME NEW j \in InMap, j # k PROVE LogOK(j)' /\ NameOK(j)'
    BY <1>7, <1>14 DEF BlockInv
  <2>1. blocks'[j] = blocks[j] /\ SameDisk(blocks[j].id)
    BY <1>7, <1>9
  <2>2. LogOK(j) /\ NameOK(j)
    BY <1>1 DEF BlockInv
  <2> QED
    BY <2>1, <2>2, BlockUntouched
<1>16. FileInv'
  <2> SUFFICES ASSUME NEW j \in fileIds' PROVE FileOK(j)'
    BY DEF FileInv
  <2>1. CASE j = i
    <3>1. Held(j)' = Held(i)
      BY <1>10, <2>1
    <3> QED
      BY <1>7, <1>8, <1>13, <2>1, <3>1 DEF FileOK
  <2>2. CASE j # i
    <3>1. SameDisk(j)
      BY <1>7, <2>2, GivenIds
    <3>2. j \in fileIds => FileOK(j)
      BY <1>1 DEF FileInv
    <3> QED
      BY <3>1, <3>2, FileUntouched
  <2> QED
    BY <2>1, <2>2
<1> QED
  BY <1>7, <1>10, <1>11, <1>12, <1>15, <1>16

\* The ticker has finished: it works on no block.
LEMMA KeptIdle ==
    ASSUME tpc' = "idle", tick' = NoTick
    PROVE  QuietInv' /\ SplitInv' /\ JoinInv'
<1>1. "idle" \notin Splits /\ "idle" \notin Joins
  BY DEF Splits, Joins
<1>2. Busy' = {}
  BY DEF Busy, NoTick
<1> QED
  BY <1>1, <1>2 DEF QuietInv, SplitInv, JoinInv

\* The ticker goes on without changing a block or a file.
LEMMA KeptSame ==
    ASSUME Kept, UNCHANGED <<blocks, file, header, fileIds, logf, mode, pending, flushed>>
    PROVE  /\ InMap' = InMap /\ \A i : Held(i)' = Held(i)
           /\ OwnerInv' /\ BlockInv' /\ FileInv' /\ ReadInv' /\ flushed' \subseteq OnDisk'
<1>1. InMap' = InMap
  BY DEF InMap
<1>2. \A i : SameDisk(i) /\ Held(i)' = Held(i)
  BY DEF SameDisk, Held
<1>3. OwnerInv'
  BY <1>1 DEF Kept, OwnerInv
<1>4. BlockInv'
  BY <1>1, <1>2, BlockUntouched DEF Kept, BlockInv
<1>5. FileInv'
  BY <1>2, FileUntouched DEF Kept, FileInv
<1>6. ReadInv'
  BY <1>1 DEF Kept, ReadInv
<1>7. flushed' \subseteq OnDisk'
  BY DEF Kept, OnDisk
<1> QED
  BY <1>1, <1>2, <1>3, <1>4, <1>5, <1>6, <1>7

\* A step that drops nothing from the disk keeps the flushed streams there.
LEMMA FlushedStays ==
    ASSUME MapInv, MapInv', Kept, flushed' = flushed,
           \A i \in Ids : \A s \in Held(i) : \E j \in Ids : s \in file'[j] \cup logf'[j]
    PROVE  flushed' \subseteq OnDisk'
<1>1. OnDisk \subseteq OnDisk'
  BY DiskKept
<1> QED
  BY <1>1 DEF Kept

\* A compaction between two ticks.
LEMMA KeptCompact ==
    ASSUME MapInv, MapInv', Kept, Clean', NEW k \in EndKeys, Compact(k)
    PROVE  Kept'
<1>1. /\ mode = "up" /\ tpc = "idle" /\ k \in InMap
      /\ compactBlock(k) \/ compactBlockFails(k)
      /\ blocks[k].new = {}
      /\ UNCHANGED <<mode, tpc, tick, pending, flushed>>
  BY DEF Compact, Clean, tickVars, histVars
<1>2. ~damaged' /\ UNCHANGED <<mode, pending>>
  BY <1>1 DEF Clean
<1>3. (\A i \in Ids : Held(i)' = Held(i)) /\ OwnerInv' /\ BlockInv' /\ FileInv'
  BY <1>1, <1>2, KeptCompacted
<1>4. flushed' \subseteq OnDisk'
  BY <1>1, <1>3, FlushedStays DEF Held
<1>5. ReadInv'
  BY <1>1 DEF ReadInv
<1>6. tick = NoTick
  BY <1>1 DEF MapInv, TickPart
<1>7. QuietInv' /\ SplitInv' /\ JoinInv'
  BY <1>1, <1>6, KeptIdle
<1> QED
  BY <1>3, <1>4, <1>5, <1>7 DEF Kept

\* The start of splitBlock: the end key of the left block is a name below the end
\* key of the block.
LEMMA KeptSplitCompact ==
    ASSUME MapInv, MapInv', Kept, Clean', NEW k \in EndKeys, SplitCompact(k)
    PROVE  Kept'
<1> DEFINE names == blocks[k].index \cup KeysOf(blocks[k].log) \cup KeysOf(blocks[k].new)
<1>1. /\ mode = "up" /\ k \in InMap
      /\ Cardinality(names) >= 2
      /\ \/ compactBlock(k) \/ compactBlockFails(k)
         \/ UNCHANGED <<blocks, diskVars>>
      /\ blocks[k].new = {}
      /\ tick' = [NoTick EXCEPT !.keys = {k}, !.key = LeftKey(names)]
      /\ tpc' = "splitRead"
      /\ UNCHANGED <<mode, pending, flushed>>
  BY DEF SplitCompact, Clean, histVars
<1>2. ~damaged' /\ UNCHANGED <<mode, pending>>
  BY <1>1 DEF Clean
<1>3. /\ InMap' = InMap
      /\ \A j \in InMap : blocks'[j].id = blocks[j].id /\ blocks'[j].new = blocks[j].new
      /\ \A i \in Ids : Held(i)' = Held(i)
      /\ OwnerInv' /\ BlockInv' /\ FileInv'
  <2> HIDE DEF names
  <2>1. CASE compactBlock(k) \/ compactBlockFails(k)
    BY <1>1, <1>2, <2>1, KeptCompacted
  <2>2. CASE UNCHANGED <<blocks, diskVars>>
    BY <1>1, <2>2, KeptSame DEF diskVars, fileVars
  <2> QED
    BY <1>1, <2>1, <2>2
<1>4. PICK i \in Ids : i = blocks[k].id
  BY <1>1, InMapFacts DEF MapInv
<1>5. names \in SUBSET Keys
  BY <1>1, InMapFacts, KeysOfFacts DEF MapInv
<1>6. names \subseteq KeysOf(Held(i)) /\ \A n \in KeysOf(Held(i)) : n <= k
  <2>1. LogOK(k) /\ NameOK(k)
    BY <1>1 DEF Kept, BlockInv
  <2>2. blocks[k].log \subseteq Held(i)
    BY <1>1, <1>4, <2>1 DEF LogOK, Held
  <2>3. KeysOf(blocks[k].log) \subseteq KeysOf(Held(i)) /\ KeysOf(blocks[k].new) = {}
    BY <1>1, <2>2, KeysOfFacts
  <2>4. blocks[k].index \subseteq KeysOf(Held(i)) /\ Held(i) \cup blocks[k].new = Held(i)
    BY <1>1, <1>4, <2>1 DEF NameOK
  <2> QED
    BY <1>1, <1>4, <2>1, <2>3, <2>4 DEF NameOK
<1> HIDE DEF names
<1>7. LeftKey(names) \in KeysOf(Held(i)) /\ LeftKey(names) < k
  <2>1. LeftKey(names) \in names /\ \E y \in names : LeftKey(names) < y
    BY <1>1, <1>5, LeftKeyFacts
  <2>2. \A y \in names : y \in Nat /\ y <= k
    BY <1>5, <1>6 DEF Keys
  <2>3. k \in Nat
    BY ConstantsAssumption DEF EndKeys
  <2> QED
    BY <1>6, <2>1, <2>2, <2>3
<1>8. tick' = [keys |-> {k}, key |-> LeftKey(names), id |-> 0, buf |-> {}]
  BY <1>1 DEF NoTick
<1>9. tick'.keys = {k} /\ tick'.key = LeftKey(names)
  BY <1>8
<1>10. SplitInv'
  <2>1. Held(blocks[k].id)' = Held(i)
    <3>1. blocks'[k].id = i
      BY <1>1, <1>3, <1>4
    <3>2. Held(i)' = Held(i)
      BY <1>3
    <3> QED
      BY <3>1, <3>2 DEF Held
  <2>2. SplitOK(k)'
    BY <1>1, <1>7, <1>9, <2>1 DEF SplitOK
  <2> QED
    BY <1>9, <2>2 DEF SplitInv
<1>11. QuietInv'
  BY <1>1, <1>3, <1>9 DEF QuietInv, Busy
<1>12. JoinInv' /\ ReadInv'
  BY <1>1 DEF JoinInv, Joins, ReadInv
<1>13. flushed' \subseteq OnDisk'
  BY <1>1, <1>3, FlushedStays DEF Held
<1> QED
  BY <1>3, <1>10, <1>11, <1>12, <1>13 DEF Kept

\* splitBlock reads all that the block holds, and takes a new id.
LEMMA KeptSplitRead ==
    ASSUME MapInv, MapInv', Kept, Clean', SplitRead
    PROVE  Kept'
<1>1. PICK k \in EndKeys : tick.keys = {k}
  BY DEF SplitRead, MapInv, TickPart, Splits
<1>2. Max(tick.keys) = k /\ k \in InMap
  BY <1>1, MaxOne DEF MapInv, TickPart
<1>3. /\ tpc = "splitRead" /\ nextId \in Ids
      /\ tick' = [tick EXCEPT !.buf = Read(k), !.id = nextId]
      /\ tpc' = "splitLeft"
      /\ UNCHANGED <<mode, blocks, file, header, fileIds, logf, pending, flushed>>
  BY <1>2 DEF SplitRead, mapVars, diskVars, fileVars, histVars
<1>4. /\ InMap' = InMap /\ \A i : Held(i)' = Held(i)
      /\ OwnerInv' /\ BlockInv' /\ FileInv' /\ ReadInv' /\ flushed' \subseteq OnDisk'
  BY <1>3, KeptSame
<1>5. tick'.keys = {k} /\ tick'.key = tick.key /\ tick'.id = nextId /\ tick'.buf = Read(k)
  BY <1>1, <1>3 DEF MapInv, TickPart
<1>6. mode = "up"
  BY <1>3 DEF MapInv, TickPart
<1>7. PICK i \in Ids : i = blocks[k].id
  BY <1>2, InMapFacts DEF MapInv
<1>8. Read(k) = Held(i)
  <2>1. LogOK(k)
    BY <1>2 DEF Kept, BlockInv
  <2> QED
    BY <1>6, <1>7, <2>1 DEF LogOK, Read, Held
<1>9. SplitOK(k)
  BY <1>1, <1>3 DEF Kept, SplitInv, Splits
<1>10. (\A j \in InMap : blocks[j].id # nextId) /\ logf[nextId] = {} /\ nextId \notin fileIds
  <2>1. nextId \in Nat /\ nextId \notin 1..(nextId - 1) /\ nextId >= nextId
    BY <1>3 DEF Ids
  <2>2. \A j \in InMap : blocks[j].id \in Ids /\ blocks[j].id < nextId
    BY InMapFacts DEF MapInv
  <2>3. \A n \in Ids : n < nextId => n # nextId
    BY <2>1 DEF Ids
  <2> QED
    BY <1>3, <2>1, <2>2, <2>3 DEF MapInv, FilePart, LogPart
<1>11. SplitOK(k)'
  <2>1. Held(blocks[k].id)' = Held(i) /\ Held(blocks[k].id) = Held(i)
    BY <1>3, <1>4, <1>7 DEF Held
  <2>2. tick.key < k /\ tick.key \in KeysOf(Held(i))
    BY <1>3, <1>9, <2>1 DEF SplitOK
  <2> QED
    BY <1>3, <1>4, <1>5, <1>8, <1>10, <2>1, <2>2 DEF SplitOK
<1>12. SplitInv'
  BY <1>5, <1>11 DEF SplitInv
<1>13. QuietInv'
  <2>1. blocks[k].new = {}
    BY <1>1 DEF Kept, QuietInv, Busy
  <2> QED
    BY <1>3, <1>5, <2>1 DEF QuietInv, Busy
<1>14. JoinInv'
  BY <1>3 DEF JoinInv, Joins
<1> QED
  BY <1>4, <1>12, <1>13, <1>14 DEF Kept

\* While splitBlock works it works on one block, and the left block has an id.
LEMMA Splitting ==
    ASSUME MapInv, Kept, tpc \in Splits \ {"splitRead"}
    PROVE  \E k \in InMap : \E i \in Ids : \E t \in Ids :
              /\ tick.keys = {k} /\ Max(tick.keys) = k /\ k \in EndKeys /\ k \in Nat
              /\ i = blocks[k].id /\ t = tick.id /\ i # t
              /\ tick.key \in Nat /\ tick.key < k
              /\ mode = "up" /\ blocks[k].new = {}
              /\ SplitOK(k) /\ LogOK(k) /\ NameOK(k)
              /\ \A j \in InMap : blocks[j].id # t
              /\ logf[t] = {}
<1>1. PICK k \in EndKeys : tick.keys = {k}
  BY DEF MapInv, TickPart
<1>2. Max(tick.keys) = k /\ k \in InMap
  BY <1>1, MaxOne DEF MapInv, TickPart
<1>3. PICK i \in Ids : i = blocks[k].id
  BY <1>2, InMapFacts DEF MapInv
<1>4. tick.id \in Ids
  <2>1. tick.id \in 1..(nextId - 1) /\ nextId \in 1..(MaxIds + 1) /\ MaxIds \in Nat
    BY ConstantsAssumption DEF MapInv, TickPart, RestPart
  <2> QED
    BY <2>1 DEF Ids
<1>5. SplitOK(k)
  BY <1>1 DEF Kept, SplitInv
<1>6. tick.key < k /\ (\A j \in InMap : blocks[j].id # tick.id) /\ logf[tick.id] = {}
  BY <1>5 DEF SplitOK
<1>7. LogOK(k) /\ NameOK(k)
  BY <1>2 DEF Kept, BlockInv
<1>8. blocks[k].new = {}
  BY <1>1 DEF Kept, QuietInv, Busy
<1>9. mode = "up"
  BY DEF MapInv, TickPart, Splits
<1>10. k \in Nat /\ tick.key \in Nat
  BY ConstantsAssumption DEF MapInv, TickPart, EndKeys
<1> QED
  BY <1>1, <1>2, <1>3, <1>4, <1>5, <1>6, <1>7, <1>8, <1>9, <1>10

\* splitBlock writes the left file, which nobody has yet.
LEMMA KeptSplitLeft ==
    ASSUME MapInv, MapInv', Kept, Clean', SplitLeft
    PROVE  Kept'
<1>1. /\ tpc = "splitLeft" /\ tpc' = "splitRight" /\ WriteFile(tick.id, LeftPart)
      /\ UNCHANGED <<mode, blocks, tick, logf, pending, flushed>>
  BY DEF SplitLeft, mapVars, histVars
<1>2. PICK k \in InMap, i \in Ids, t \in Ids :
              /\ tick.keys = {k} /\ Max(tick.keys) = k /\ k \in EndKeys /\ k \in Nat
              /\ i = blocks[k].id /\ t = tick.id /\ i # t
              /\ tick.key \in Nat /\ tick.key < k
              /\ mode = "up" /\ blocks[k].new = {}
              /\ SplitOK(k) /\ LogOK(k) /\ NameOK(k)
              /\ \A j \in InMap : blocks[j].id # t
              /\ logf[t] = {}
  BY <1>1, Splitting DEF Splits
<1>3. ~damaged'
  BY DEF Clean
<1>4. /\ file'[t] = LeftPart /\ header'[t] = KeysOf(LeftPart) /\ t \in fileIds'
      /\ \A j \in Ids : j # t => /\ file'[j] = file[j]
                                 /\ header'[j] = header[j]
                                 /\ j \in fileIds' <=> j \in fileIds
  BY <1>1, <1>2, <1>3, CleanWrite
<1>5. \A j \in Ids : j # t => SameDisk(j)
  BY <1>1, <1>4 DEF SameDisk
<1>6. InMap' = InMap /\ LeftPart' = LeftPart
  BY <1>1 DEF InMap, LeftPart
<1>7. tick.key \in KeysOf(Held(i)) /\ tick.buf = Held(i) /\ t \notin fileIds
  BY <1>1, <1>2 DEF SplitOK
<1>8. tick.key \in KeysOf(LeftPart) /\ \A n \in KeysOf(LeftPart) : n <= tick.key
  <2>1. PICK s \in tick.buf : s[1] = tick.key
    BY <1>7, KeysOfFacts
  <2>2. s \in LeftPart
    BY <1>2, <2>1 DEF LeftPart
  <2>3. \A r \in LeftPart : r[1] <= tick.key
    BY DEF LeftPart
  <2> QED
    BY <2>1, <2>2, <2>3, KeysOfFacts
<1>9. Held(t)' = LeftPart
  BY <1>1, <1>2, <1>4 DEF Held
<1>10. Held(t) = {}
  BY <1>2, <1>7 DEF Held, MapInv, FilePart
<1>11. OwnerInv'
  BY <1>1, <1>6 DEF Kept, OwnerInv
<1>12. BlockInv'
  <2> SUFFICES ASSUME NEW j \in InMap PROVE LogOK(j)' /\ NameOK(j)'
    BY <1>6 DEF BlockInv
  <2>1. blocks[j].id \in Ids /\ blocks[j].id # t
    BY <1>2, InMapFacts DEF MapInv
  <2> QED
    BY <1>1, <1>5, <2>1, BlockUntouched DEF Kept, BlockInv
<1>13. FileInv'
  <2> SUFFICES ASSUME NEW j \in fileIds' PROVE FileOK(j)'
    BY DEF FileInv
  <2>1. CASE j = t
    BY <1>4, <1>8, <1>9, <2>1 DEF FileOK
  <2>2. CASE j # t
    <3>1. SameDisk(j)
      BY <1>5, <2>2, GivenIds
    <3> QED
      BY <3>1, FileUntouched DEF Kept, FileInv
  <2> QED
    BY <2>1, <2>2
<1>14. SplitInv'
  <2>1. Held(blocks[k].id)' = Held(i)
    BY <1>1, <1>2, <1>5 DEF Held, SameDisk
  <2>2. SplitOK(k)'
    BY <1>1, <1>2, <1>4, <1>6, <1>7, <1>8, <2>1 DEF SplitOK
  <2> QED
    BY <1>1, <1>2, <2>2 DEF SplitInv
<1>15. QuietInv'
  BY <1>1, <1>2 DEF QuietInv, Busy
<1>16. JoinInv' /\ ReadInv'
  BY <1>1, <1>2 DEF JoinInv, Joins, ReadInv
<1>17. flushed' \subseteq OnDisk'
  <2>1. \A j \in Ids : \A s \in Held(j) : s \in file'[j] \cup logf'[j]
    BY <1>1, <1>4, <1>10 DEF Held
  <2> QED
    BY <1>1, <2>1, FlushedStays
<1> QED
  BY <1>11, <1>12, <1>13, <1>14, <1>15, <1>16, <1>17 DEF Kept

\* splitBlock writes what is right of the split point over the file of the block:
\* the rest is in the left file.
LEMMA KeptSplitRight ==
    ASSUME MapInv, MapInv', Kept, Clean', SplitRight
    PROVE  Kept'
<1>1. tpc = "splitRight"
  BY DEF SplitRight
<1>2. PICK k \in InMap, i \in Ids, t \in Ids :
              /\ tick.keys = {k} /\ Max(tick.keys) = k /\ k \in EndKeys /\ k \in Nat
              /\ i = blocks[k].id /\ t = tick.id /\ i # t
              /\ tick.key \in Nat /\ tick.key < k
              /\ mode = "up" /\ blocks[k].new = {}
              /\ SplitOK(k) /\ LogOK(k) /\ NameOK(k)
              /\ \A j \in InMap : blocks[j].id # t
              /\ logf[t] = {}
  BY <1>1, Splitting DEF Splits
<1>3. /\ tpc' = "splitInsert" /\ WriteFile(i, RightPart)
      /\ blocks' = [blocks EXCEPT ![k].index = KeysOf(RightPart)]
      /\ UNCHANGED <<mode, tick, logf, pending, flushed>>
  BY <1>2 DEF SplitRight, histVars
<1>4. ~damaged'
  BY DEF Clean
<1>5. /\ file'[i] = RightPart /\ header'[i] = KeysOf(RightPart) /\ i \in fileIds'
      /\ \A j \in Ids : j # i => /\ file'[j] = file[j]
                                 /\ header'[j] = header[j]
                                 /\ j \in fileIds' <=> j \in fileIds
  BY <1>2, <1>3, <1>4, CleanWrite
<1>6. \A j \in Ids : j # i => SameDisk(j)
  BY <1>3, <1>5 DEF SameDisk
<1>7. /\ blocks'[k].id = i /\ blocks'[k].new = {} /\ blocks'[k].index = KeysOf(RightPart)
      /\ blocks'[k].log = blocks[k].log
      /\ \A j \in InMap : j # k => blocks'[j] = blocks[j]
      /\ InMap' = InMap
  <2> DEFINE X == KeysOf(RightPart)
             b == blocks[k]
             c == [id |-> b.id, index |-> X, log |-> b.log, new |-> b.new]
  <2>1. blocks' = [blocks EXCEPT ![k] = c]
    <3> HIDE DEF X
    <3> QED
      BY <1>2, <1>3, BlockUpdates DEF MapInv, X
  <2>2. c.id = i /\ c.new = {} /\ c.index = X /\ c.log = b.log
    BY <1>2
  <2> HIDE DEF c, X
  <2>3. blocks'[k] = c /\ \A j \in EndKeys : j # k => blocks'[j] = blocks[j]
    BY <1>2, <2>1 DEF MapInv, MapPart
  <2>4. c # NoBlock
    BY <2>2, ConstantsAssumption DEF NoBlock, Ids
  <2>5. \A j : j \in InMap' <=> j \in EndKeys /\ blocks'[j] # NoBlock
    BY DEF InMap
  <2>6. \A j : j \in InMap <=> j \in EndKeys /\ blocks[j] # NoBlock
    BY DEF InMap
  <2>7. \A j : j \in InMap' <=> j \in InMap
    BY <1>2, <2>3, <2>4, <2>5, <2>6
  <2> QED
    BY <2>2, <2>3, <2>6, <2>7 DEF X
<1>8. /\ tick.buf = Held(i) /\ t \in fileIds /\ file[t] = LeftPart
      /\ tick.key \in KeysOf(LeftPart)
  BY <1>1, <1>2 DEF SplitOK
<1>9. k \in KeysOf(RightPart) /\ RightPart \subseteq Held(i)
      /\ \A n \in KeysOf(Held(i)) : n <= k
  <2>1. Held(i) \cup {} = Held(i)
    OBVIOUS
  <2>2. k \in KeysOf(Held(i)) /\ \A n \in KeysOf(Held(i)) : n <= k
    BY <1>2, <2>1 DEF NameOK
  <2>3. PICK s \in Held(i) : s[1] = k
    BY <2>2, KeysOfFacts
  <2>4. ~ (s[1] <= tick.key)
    BY <1>2, <2>3
  <2>5. s \in RightPart
    BY <1>8, <2>3, <2>4 DEF RightPart, LeftPart
  <2>6. RightPart \subseteq Held(i)
    BY <1>8 DEF RightPart
  <2> QED
    BY <2>2, <2>3, <2>5, <2>6, KeysOfFacts
<1>10. Held(i)' = RightPart \cup logf[i] /\ Held(i)' \subseteq Held(i)
  BY <1>3, <1>5, <1>9 DEF Held
<1>11. k \in KeysOf(Held(i)') /\ (\A n \in KeysOf(Held(i)') : n <= k)
       /\ KeysOf(RightPart) \subseteq KeysOf(Held(i)')
  <2>1. RightPart \subseteq Held(i)'
    BY <1>10
  <2>2. KeysOf(RightPart) \subseteq KeysOf(Held(i)') /\ KeysOf(Held(i)') \subseteq KeysOf(Held(i))
    BY <1>10, <2>1, KeysOfFacts
  <2> QED
    BY <1>9, <2>2
<1>12. OwnerInv'
  BY <1>2, <1>7 DEF Kept, OwnerInv
<1>13. BlockInv'
  <2> SUFFICES ASSUME NEW j \in InMap PROVE LogOK(j)' /\ NameOK(j)'
    BY <1>7 DEF BlockInv
  <2>1. CASE j = k
    <3>1. LogOK(k)'
      BY <1>2, <1>3, <1>7 DEF LogOK
    <3>2. Held(blocks[k].id)' = Held(i)' /\ Held(i)' \cup blocks'[k].new = Held(i)'
      BY <1>7 DEF Held
    <3>3. NameOK(k)'
      BY <1>5, <1>7, <1>9, <1>11, <3>2 DEF NameOK
    <3> QED
      BY <2>1, <3>1, <3>3
  <2>2. CASE j # k
    <3>1. blocks[j].id \in Ids /\ blocks[j].id # i /\ blocks'[j] = blocks[j]
      BY <1>2, <1>7, <2>2, InMapFacts DEF MapInv, Kept, OwnerInv
    <3> QED
      BY <1>3, <1>6, <3>1, BlockUntouched DEF Kept, BlockInv
  <2> QED
    BY <2>1, <2>2
<1>14. FileInv'
  <2> SUFFICES ASSUME NEW j \in fileIds' PROVE FileOK(j)'
    BY DEF FileInv
  <2>1. CASE j = i
    BY <1>5, <1>9, <1>11, <2>1 DEF FileOK
  <2>2. CASE j # i
    <3>1. SameDisk(j)
      BY <1>6, <2>2, GivenIds
    <3> QED
      BY <3>1, FileUntouched DEF Kept, FileInv
  <2> QED
    BY <2>1, <2>2
<1>15. SplitInv'
  <2>1. LeftPart' = LeftPart
    BY <1>3 DEF LeftPart
  <2>2. \A j \in InMap' : blocks'[j].id # t
    BY <1>2, <1>7
  <2>3. t \in fileIds' /\ file'[t] = LeftPart
    BY <1>2, <1>5, <1>8
  <2>4. SplitOK(k)'
    BY <1>2, <1>3, <1>8, <2>1, <2>2, <2>3 DEF SplitOK
  <2> QED
    BY <1>2, <1>3, <2>4 DEF SplitInv
<1>16. QuietInv'
  BY <1>2, <1>3, <1>7 DEF QuietInv, Busy
<1>17. JoinInv' /\ ReadInv'
  BY <1>2, <1>3 DEF JoinInv, Joins, ReadInv
<1>18. flushed' \subseteq OnDisk'
  <2>1. ASSUME NEW j \in Ids, NEW s \in Held(j)
        PROVE  \E m \in Ids : s \in file'[m] \cup logf'[m]
    <3>1. CASE j # i
      BY <1>3, <1>5, <3>1 DEF Held
    <3>2. CASE j = i
      <4>1. s \in LeftPart \/ s \in RightPart
        BY <1>8, <3>2 DEF RightPart
      <4>2. file'[t] = LeftPart
        BY <1>2, <1>5, <1>8
      <4> QED
        BY <1>5, <4>1, <4>2
    <3> QED
      BY <3>1, <3>2
  <2> QED
    BY <1>3, <2>1, FlushedStays
<1> QED
  BY <1>12, <1>13, <1>14, <1>15, <1>16, <1>17, <1>18 DEF Kept

\* The left block is put into the map, at the greatest name in its file.
LEMMA KeptSplitInsert ==
    ASSUME MapInv, MapInv', Kept, Clean', SplitInsert
    PROVE  Kept'
<1>1. tpc = "splitInsert"
  BY DEF SplitInsert
<1>2. PICK k \in InMap, i \in Ids, t \in Ids :
              /\ tick.keys = {k} /\ Max(tick.keys) = k /\ k \in EndKeys /\ k \in Nat
              /\ i = blocks[k].id /\ t = tick.id /\ i # t
              /\ tick.key \in Nat /\ tick.key < k
              /\ mode = "up" /\ blocks[k].new = {}
              /\ SplitOK(k) /\ LogOK(k) /\ NameOK(k)
              /\ \A j \in InMap : blocks[j].id # t
              /\ logf[t] = {}
  BY <1>1, Splitting DEF Splits
<1> DEFINE X == KeysOf(LeftPart)
           c == [id |-> t, index |-> X, log |-> {}, new |-> {}]
<1>3. /\ tpc' = "idle" /\ tick' = NoTick
      /\ blocks' = [blocks EXCEPT ![tick.key] = c]
      /\ UNCHANGED <<mode, file, header, fileIds, logf, pending, flushed>>
  <2>1. [newBlock(t) EXCEPT !.index = X] = c
    BY DEF newBlock
  <2> HIDE DEF c
  <2> QED
    BY <1>2, <2>1 DEF SplitInsert, insertBlock, diskVars, fileVars, histVars
<1>4. t \in fileIds /\ file[t] = LeftPart /\ tick.key \in X
  BY <1>1, <1>2 DEF SplitOK
<1>5. \A n \in X : n <= tick.key
  <2>1. \A r \in LeftPart : r[1] <= tick.key
    BY DEF LeftPart
  <2> QED
    BY <2>1, KeysOfFacts
<1>6. PICK e \in EndKeys : e = tick.key
  BY DEF MapInv, TickPart
<1>7. c.id = t /\ c.index = X /\ c.log = {} /\ c.new = {}
  OBVIOUS
<1>8. Held(t) = LeftPart /\ header[t] = X
  BY <1>2, <1>4 DEF Held, Kept, FileInv, FileOK
<1> HIDE DEF c, X
<1>9. blocks'[e] = c /\ \A j \in EndKeys : j # e => blocks'[j] = blocks[j]
  BY <1>3, <1>6 DEF MapInv, MapPart
<1>10. InMap' = InMap \cup {e}
  <2>1. c # NoBlock
    BY <1>7, ConstantsAssumption DEF NoBlock, Ids
  <2>2. \A j : j \in InMap' <=> j \in EndKeys /\ blocks'[j] # NoBlock
    BY DEF InMap
  <2>3. \A j : j \in InMap <=> j \in EndKeys /\ blocks[j] # NoBlock
    BY DEF InMap
  <2>4. \A j : j \in InMap' <=> j \in InMap \cup {e}
    BY <1>6, <1>9, <2>1, <2>2, <2>3
  <2> QED
    BY <2>4
<1>11. \A j \in InMap' : j # e => j \in InMap /\ blocks'[j] = blocks[j]
  BY <1>9, <1>10 DEF InMap
<1>12. \A j : SameDisk(j) /\ Held(j)' = Held(j)
  BY <1>3 DEF SameDisk, Held
<1>13. OwnerInv'
  <2>1. blocks'[e].id = t
    BY <1>7, <1>9
  <2>2. \A j \in InMap' : j # e => blocks'[j].id # t
    BY <1>2, <1>11
  <2>3. \A j, m \in InMap : blocks[j].id = blocks[m].id => j = m
    BY DEF Kept, OwnerInv
  <2>4. \A j, m \in InMap' : j # e /\ m # e /\ blocks'[j].id = blocks'[m].id => j = m
    BY <1>11, <2>3
  <2>5. \A j, m \in InMap' : blocks'[j].id = blocks'[m].id => j = m
    BY <2>1, <2>2, <2>4
  <2> QED
    BY <2>5 DEF OwnerInv
<1>14. LogOK(e)' /\ NameOK(e)'
  <2>1. LogOK(e)'
    BY <1>2, <1>3, <1>7, <1>9 DEF LogOK
  <2>2. Held(blocks[e].id)' = LeftPart /\ LeftPart \cup {} = LeftPart
    BY <1>3, <1>7, <1>8, <1>9 DEF Held
  <2>3. NameOK(e)'
    BY <1>3, <1>4, <1>5, <1>6, <1>7, <1>8, <1>9, <2>2 DEF NameOK, X
  <2> QED
    BY <2>1, <2>3
<1>15. BlockInv'
  <2> SUFFICES ASSUME NEW j \in InMap', j # e PROVE LogOK(j)' /\ NameOK(j)'
    BY <1>14 DEF BlockInv
  <2>1. j \in InMap /\ blocks'[j] = blocks[j]
    BY <1>11
  <2> QED
    BY <1>3, <1>12, <2>1, BlockUntouched DEF Kept, BlockInv
<1>16. FileInv'
  BY <1>3, <1>12, FileUntouched DEF Kept, FileInv
<1>17. ReadInv' /\ flushed' \subseteq OnDisk'
  BY <1>2, <1>3 DEF Kept, ReadInv, OnDisk
<1> QED
  BY <1>3, <1>13, <1>15, <1>16, <1>17, KeptIdle DEF Kept

\* splitBlock gives up: both files are as they were, or the left one is new.
LEMMA KeptSplitFail ==
    ASSUME MapInv, MapInv', Kept, Clean', SplitFail
    PROVE  Kept'
<1>1. /\ tpc' = "idle" /\ tick' = NoTick
      /\ UNCHANGED <<mode, file, header, fileIds, logf, pending, flushed>>
  BY DEF SplitFail, WriteFails, fileVars, histVars
<1>2. QuietInv' /\ SplitInv' /\ JoinInv'
  BY <1>1, KeptIdle
<1>3. CASE UNCHANGED blocks
  <2>1. OwnerInv' /\ BlockInv' /\ FileInv' /\ ReadInv' /\ flushed' \subseteq OnDisk'
    BY <1>1, <1>3, KeptSame
  <2> QED
    BY <1>2, <2>1 DEF Kept
<1>4. CASE /\ tpc = "splitRight"
           /\ blocks' = [blocks EXCEPT ![Max(tick.keys)].index = KeysOf(RightPart)]
  <2>1. PICK k \in InMap, i \in Ids, t \in Ids :
              /\ tick.keys = {k} /\ Max(tick.keys) = k /\ k \in EndKeys /\ k \in Nat
              /\ i = blocks[k].id /\ t = tick.id /\ i # t
              /\ tick.key \in Nat /\ tick.key < k
              /\ mode = "up" /\ blocks[k].new = {}
              /\ SplitOK(k) /\ LogOK(k) /\ NameOK(k)
              /\ \A j \in InMap : blocks[j].id # t
              /\ logf[t] = {}
    BY <1>4, Splitting DEF Splits
  <2>2. /\ blocks'[k].id = i /\ blocks'[k].new = {} /\ blocks'[k].index = KeysOf(RightPart)
        /\ blocks'[k].log = blocks[k].log
        /\ \A j \in InMap : j # k => blocks'[j] = blocks[j]
        /\ InMap' = InMap
    <3> DEFINE X == KeysOf(RightPart)
               b == blocks[k]
               c == [id |-> b.id, index |-> X, log |-> b.log, new |-> b.new]
    <3>1. blocks' = [blocks EXCEPT ![k] = c]
      <4> HIDE DEF X
      <4> QED
        BY <1>4, <2>1, BlockUpdates DEF MapInv, X
    <3>2. c.id = i /\ c.new = {} /\ c.index = X /\ c.log = b.log
      BY <2>1
    <3> HIDE DEF c, X
    <3>3. blocks'[k] = c /\ \A j \in EndKeys : j # k => blocks'[j] = blocks[j]
      BY <2>1, <3>1 DEF MapInv, MapPart
    <3>4. c # NoBlock
      BY <3>2, ConstantsAssumption DEF NoBlock, Ids
    <3>5. \A j : j \in InMap' <=> j \in EndKeys /\ blocks'[j] # NoBlock
      BY DEF InMap
    <3>6. \A j : j \in InMap <=> j \in EndKeys /\ blocks[j] # NoBlock
      BY DEF InMap
    <3>7. \A j : j \in InMap' <=> j \in InMap
      BY <2>1, <3>3, <3>4, <3>5, <3>6
    <3> QED
      BY <3>2, <3>3, <3>6, <3>7 DEF X
  <2>3. KeysOf(RightPart) \subseteq KeysOf(Held(i))
    <3>1. tick.buf = Held(i)
      BY <1>4, <2>1 DEF SplitOK
    <3>2. RightPart \subseteq Held(i)
      BY <3>1 DEF RightPart
    <3> QED
      BY <3>2, KeysOfFacts
  <2>4. \A j : SameDisk(j) /\ Held(j)' = Held(j)
    BY <1>1 DEF SameDisk, Held
  <2>5. OwnerInv'
    BY <2>1, <2>2 DEF Kept, OwnerInv
  <2>6. LogOK(k)' /\ NameOK(k)'
    <3>1. LogOK(k)'
      BY <1>1, <2>1, <2>2 DEF LogOK
    <3>2. Held(blocks[k].id)' = Held(i) /\ Held(blocks[k].id) = Held(i)
      BY <1>1, <2>1, <2>2 DEF Held
    <3>3. NameOK(k)'
      BY <1>1, <2>1, <2>2, <2>3, <3>2 DEF NameOK
    <3> QED
      BY <3>1, <3>3
  <2>7. BlockInv'
    <3> SUFFICES ASSUME NEW j \in InMap, j # k PROVE LogOK(j)' /\ NameOK(j)'
      BY <2>2, <2>6 DEF BlockInv
    <3>1. blocks'[j] = blocks[j]
      BY <2>2
    <3> QED
      BY <1>1, <2>4, <3>1, BlockUntouched DEF Kept, BlockInv
  <2>8. FileInv'
    BY <1>1, <2>4, FileUntouched DEF Kept, FileInv
  <2>9. ReadInv' /\ flushed' \subseteq OnDisk'
    BY <1>1, <2>1 DEF Kept, ReadInv, OnDisk
  <2> QED
    BY <1>2, <2>5, <2>7, <2>8, <2>9 DEF Kept
<1>5. \/ UNCHANGED blocks
      \/ /\ tpc = "splitRight"
         /\ blocks' = [blocks EXCEPT ![Max(tick.keys)].index = KeysOf(RightPart)]
  BY Zenon DEF SplitFail
<1> QED
  BY <1>3, <1>4, <1>5

\* joinBlocks reads all that the blocks hold; the names of the last reach its key.
LEMMA KeptJoinRead ==
    ASSUME MapInv, MapInv', Kept, Clean', JoinRead
    PROVE  Kept'
<1> DEFINE keys == Joinable[MaxKey].keys
           buf == UNION {Read(k) : k \in keys}
<1>1. /\ mode = "up" /\ Cardinality(keys) > 1
      /\ tick' = [keys |-> keys, key |-> Max(keys), id |-> blocks[Max(keys)].id,
                  buf |-> buf]
      /\ \A k \in keys : blocks[k].new = {}
      /\ tpc' = "joinWrite"
      /\ UNCHANGED <<mode, blocks, file, header, fileIds, logf, pending, flushed>>
  BY DEF JoinRead, Clean, mapVars, diskVars, fileVars, histVars
<1>2. keys \subseteq InMap
  BY JoinableFacts
<1> HIDE DEF keys
<1>3. /\ InMap' = InMap /\ \A i : Held(i)' = Held(i)
      /\ OwnerInv' /\ BlockInv' /\ FileInv' /\ ReadInv' /\ flushed' \subseteq OnDisk'
  BY <1>1, KeptSame
<1>4. PICK m \in keys : m = Max(keys) /\ \A k \in keys : k <= m
  <2>1. keys # {}
    BY <1>1, FS_EmptySet
  <2>2. keys \in SUBSET (0..MaxKey) /\ MaxKey \in Nat
    BY <1>2, ConstantsAssumption DEF InMap, EndKeys
  <2> QED
    BY <2>1, <2>2, MaxFacts
<1>5. tick'.keys = keys /\ tick'.key = m /\ tick'.id = blocks[m].id /\ tick'.buf = buf
  BY <1>1, <1>4
<1>6. ASSUME NEW k \in keys
      PROVE  /\ Read(k) = Held(blocks[k].id) /\ Held(blocks[k].id) \subseteq buf
             /\ k \in KeysOf(Held(blocks[k].id))
             /\ \A n \in KeysOf(Held(blocks[k].id)) : n <= k
             /\ k \in Nat
  <2>1. LogOK(k) /\ NameOK(k)
    BY <1>2 DEF Kept, BlockInv
  <2>2. Read(k) = Held(blocks[k].id)
    BY <1>1, <2>1 DEF LogOK, Read, Held
  <2>3. Held(blocks[k].id) \cup blocks[k].new = Held(blocks[k].id)
    BY <1>1
  <2>4. k \in Nat
    BY <1>2, ConstantsAssumption DEF InMap, EndKeys
  <2> QED
    BY <2>1, <2>2, <2>3, <2>4 DEF NameOK
<1>7. m \in KeysOf(buf)
  BY <1>6, KeysOfFacts
<1>8. ASSUME NEW n \in KeysOf(buf) PROVE n <= m
  <2>1. PICK s \in buf : n = s[1]
    BY KeysOfFacts
  <2>2. PICK k \in keys : s \in Read(k)
    BY <2>1
  <2>3. n \in KeysOf(Held(blocks[k].id))
    BY <1>6, <2>1, <2>2, KeysOfFacts
  <2>4. n <= k /\ k <= m /\ k \in Nat /\ m \in Nat
    BY <1>4, <1>6, <2>3
  <2>5. n \in Nat
    <3>1. Read(k) \subseteq Streams
      BY <1>2, ReadFacts
    <3>2. s[1] \in Keys
      BY <2>2, <3>1 DEF Streams
    <3> QED
      BY <2>1, <3>2 DEF Keys
  <2> QED
    BY <2>4, <2>5
<1> HIDE DEF buf
<1>9. JoinOK'
  <2>1. \A k \in keys : Held(blocks[k].id)' = Held(blocks[k].id)
    BY <1>1 DEF Held
  <2>2. \A k \in tick'.keys : k <= tick'.key /\ Held(blocks[k].id)' \subseteq tick'.buf
    BY <1>4, <1>5, <1>6, <2>1
  <2>3. tick'.key \in InMap' /\ blocks'[tick'.key].id = tick'.id
        /\ tick'.keys # {} /\ tick'.key \in tick'.keys
    BY <1>1, <1>2, <1>3, <1>5
  <2> QED
    BY <1>1, <1>5, <1>7, <1>8, <2>2, <2>3 DEF JoinOK
<1>10. QuietInv'
  BY <1>1, <1>5 DEF QuietInv, Busy
<1>11. SplitInv' /\ JoinInv'
  BY <1>1, <1>9 DEF SplitInv, Splits, JoinInv
<1> QED
  BY <1>3, <1>10, <1>11 DEF Kept

\* What holds in joinBlocks: the last block is in the map, and has the id that
\* the new one gets.
LEMMA Joining ==
    ASSUME MapInv, Kept, tpc \in Joins
    PROVE  \E e \in InMap : \E t \in Ids :
              /\ e = tick.key /\ t = tick.id /\ blocks[e].id = t
              /\ e \in EndKeys /\ e \in Nat
              /\ tick.keys \subseteq InMap
              /\ mode = "up" /\ JoinOK /\ LogOK(e) /\ NameOK(e)
              /\ \A j \in InMap : j # e => blocks[j].id # t /\ blocks[j].id \in Ids
<1>1. JoinOK
  BY DEF Kept, JoinInv
<1>2. tick.key \in InMap /\ blocks[tick.key].id = tick.id
  BY <1>1 DEF JoinOK
<1>3. PICK e \in InMap : e = tick.key
  BY <1>2
<1>4. \A j \in InMap : j \in EndKeys /\ blocks[j].id \in Ids
  BY InMapFacts DEF MapInv
<1>5. LogOK(e) /\ NameOK(e)
  BY DEF Kept, BlockInv
<1>6. e \in Nat
  BY <1>4, ConstantsAssumption DEF EndKeys
<1>7. mode = "up" /\ tick.keys \subseteq InMap
  BY DEF MapInv, TickPart, Joins
<1>8. \A j \in InMap : j # e => blocks[j].id # blocks[e].id
  BY DEF Kept, OwnerInv
<1> QED
  BY <1>1, <1>2, <1>3, <1>4, <1>5, <1>6, <1>7, <1>8

\* joinBlocks writes all it has read over the file of the last block.
LEMMA KeptJoinWrite ==
    ASSUME MapInv, MapInv', Kept, Clean', JoinWrite
    PROVE  Kept'
<1>1. /\ tpc = "joinWrite" /\ tpc' = "joinRemove" /\ WriteFile(tick.id, tick.buf)
      /\ UNCHANGED <<mode, blocks, tick, logf, pending, flushed>>
  BY DEF JoinWrite, mapVars, histVars
<1>2. PICK e \in InMap, t \in Ids :
              /\ e = tick.key /\ t = tick.id /\ blocks[e].id = t
              /\ e \in EndKeys /\ e \in Nat
              /\ tick.keys \subseteq InMap
              /\ mode = "up" /\ JoinOK /\ LogOK(e) /\ NameOK(e)
              /\ \A j \in InMap : j # e => blocks[j].id # t /\ blocks[j].id \in Ids
  BY <1>1, Joining DEF Joins
<1>3. PICK buf : buf = tick.buf
  OBVIOUS
<1>4. ~damaged'
  BY DEF Clean
<1>5. /\ file'[t] = buf /\ header'[t] = KeysOf(buf) /\ t \in fileIds'
      /\ \A j \in Ids : j # t => /\ file'[j] = file[j]
                                 /\ header'[j] = header[j]
                                 /\ j \in fileIds' <=> j \in fileIds
  BY <1>1, <1>2, <1>3, <1>4, CleanWrite
<1>6. \A j \in Ids : j # t => SameDisk(j)
  BY <1>1, <1>5 DEF SameDisk
<1>7. InMap' = InMap
  BY <1>1 DEF InMap
<1>8. /\ e \in KeysOf(buf) /\ \A n \in KeysOf(buf) : n <= e
      /\ e \in tick.keys
      /\ \A k \in tick.keys : k <= e /\ Held(blocks[k].id) \subseteq buf
  BY <1>1, <1>2, <1>3 DEF JoinOK
<1>9. Held(t) \subseteq buf /\ blocks[e].new = {}
  BY <1>2, <1>8 DEF Kept, QuietInv, Busy
<1>10. Held(t)' = buf
  BY <1>1, <1>5, <1>9 DEF Held
<1>11. OwnerInv'
  BY <1>1, <1>7 DEF Kept, OwnerInv
<1>12. LogOK(e)'
  BY <1>1, <1>2 DEF LogOK
<1>13. NameOK(e)'
  <2>1. Held(blocks[e].id)' = buf
    BY <1>1, <1>2, <1>10 DEF Held
  <2>2. blocks[e].index \subseteq KeysOf(Held(t))
    BY <1>2 DEF NameOK
  <2>3. blocks[e].index \subseteq KeysOf(buf)
    BY <1>9, <2>2, KeysOfFacts
  <2>4. buf \cup blocks[e].new = buf
    BY <1>9
  <2> QED
    BY <1>1, <1>2, <1>5, <1>8, <2>1, <2>3, <2>4 DEF NameOK
<1>14. BlockInv'
  <2> SUFFICES ASSUME NEW j \in InMap, j # e PROVE LogOK(j)' /\ NameOK(j)'
    BY <1>7, <1>12, <1>13 DEF BlockInv
  <2>1. SameDisk(blocks[j].id)
    BY <1>2, <1>6
  <2> QED
    BY <1>1, <2>1, BlockUntouched DEF Kept, BlockInv
<1>15. FileInv'
  <2> SUFFICES ASSUME NEW j \in fileIds' PROVE FileOK(j)'
    BY DEF FileInv
  <2>1. CASE j = t
    BY <1>5, <1>8, <1>10, <2>1 DEF FileOK
  <2>2. CASE j # t
    <3>1. SameDisk(j)
      BY <1>6, <2>2, GivenIds
    <3> QED
      BY <3>1, FileUntouched DEF Kept, FileInv
  <2> QED
    BY <2>1, <2>2
<1>16. JoinOK'
  <2>1. ASSUME NEW k \in tick.keys PROVE k <= e /\ Held(blocks[k].id)' \subseteq buf
    <3>1. CASE k = e
      <4>1. Held(blocks[k].id)' = buf
        BY <1>1, <1>2, <1>10, <3>1 DEF Held
      <4> QED
        BY <1>8, <4>1
    <3>2. CASE k # e
      <4>1. SameDisk(blocks[k].id)
        BY <1>2, <1>6, <2>1, <3>2
      <4>2. Held(blocks[k].id)' = Held(blocks[k].id)
        BY <1>1, <4>1 DEF Held, SameDisk
      <4> QED
        BY <1>8, <4>2
    <3> QED
      BY <3>1, <3>2
  <2> QED
    BY <1>1, <1>2, <1>3, <1>5, <1>7, <1>8, <2>1 DEF JoinOK
<1>17. QuietInv'
  <2>1. Busy' = Busy
    BY <1>1, <1>2, <1>8 DEF Busy
  <2> QED
    BY <1>1, <2>1 DEF Kept, QuietInv
<1>18. JoinInv' /\ SplitInv' /\ ReadInv'
  BY <1>1, <1>2, <1>16 DEF JoinInv, SplitInv, Splits, ReadInv
<1>19. flushed' \subseteq OnDisk'
  <2>1. \A j \in Ids : \A s \in Held(j) : s \in file'[j] \cup logf'[j]
    BY <1>1, <1>5, <1>9 DEF Held
  <2> QED
    BY <1>1, <2>1, FlushedStays
<1> QED
  BY <1>11, <1>14, <1>15, <1>17, <1>18, <1>19 DEF Kept

\* joinBlocks gives up before it has removed anything.
LEMMA KeptJoinFail ==
    ASSUME Kept, JoinFail
    PROVE  Kept'
<1>1. /\ tpc' = "idle" /\ tick' = NoTick
      /\ UNCHANGED <<blocks, file, header, fileIds, logf, mode, pending, flushed>>
  BY DEF JoinFail, WriteFails, mapVars, histVars
<1>2. QuietInv' /\ SplitInv' /\ JoinInv'
  BY <1>1, KeptIdle
<1>3. OwnerInv' /\ BlockInv' /\ FileInv' /\ ReadInv' /\ flushed' \subseteq OnDisk'
  BY <1>1, KeptSame
<1> QED
  BY <1>2, <1>3 DEF Kept

\* joinBlocks puts the new block where the last one was.
LEMMA KeptJoinPublish ==
    ASSUME MapInv, MapInv', Kept, Clean', JoinPublish
    PROVE  Kept'
<1>1. PICK X : X = KeysOf(tick.buf)
  OBVIOUS
<1>2. /\ tpc = "joinRemove" /\ tick.keys = {} /\ tpc' = "idle" /\ tick' = NoTick
      /\ blocks' = [blocks EXCEPT ![tick.key] = [newBlock(tick.id) EXCEPT !.index = X]]
      /\ UNCHANGED <<mode, file, header, fileIds, logf, pending, flushed>>
  BY <1>1 DEF JoinPublish, diskVars, fileVars, histVars
<1>3. PICK e \in InMap, t \in Ids :
              /\ e = tick.key /\ t = tick.id /\ blocks[e].id = t
              /\ e \in EndKeys /\ e \in Nat
              /\ tick.keys \subseteq InMap
              /\ mode = "up" /\ JoinOK /\ LogOK(e) /\ NameOK(e)
              /\ \A j \in InMap : j # e => blocks[j].id # t /\ blocks[j].id \in Ids
  BY <1>2, Joining DEF Joins
<1>4. /\ e \in X /\ \A n \in X : n <= e
      /\ t \in fileIds /\ file[t] = tick.buf /\ logf[t] = {}
  BY <1>1, <1>2, <1>3 DEF JoinOK
<1>5. Held(t) = tick.buf /\ KeysOf(Held(t)) = X /\ header[t] = X
  <2>1. Held(t) = tick.buf
    BY <1>4 DEF Held
  <2>2. header[t] = KeysOf(file[t])
    BY <1>4 DEF Kept, FileInv, FileOK
  <2> QED
    BY <1>1, <1>4, <2>1, <2>2
<1> DEFINE c == [id |-> t, index |-> X, log |-> {}, new |-> {}]
<1>6. blocks' = [blocks EXCEPT ![e] = c]
  <2>1. [newBlock(t) EXCEPT !.index = X] = c
    BY DEF newBlock
  <2> HIDE DEF c
  <2> QED
    BY <1>2, <1>3, <2>1
<1>7. c.id = t /\ c.index = X /\ c.log = {} /\ c.new = {}
  OBVIOUS
<1> HIDE DEF c
<1>8. blocks'[e] = c /\ \A j \in EndKeys : j # e => blocks'[j] = blocks[j]
  BY <1>3, <1>6 DEF MapInv, MapPart
<1>9. InMap' = InMap
  <2>1. c # NoBlock
    BY <1>7, ConstantsAssumption DEF NoBlock, Ids
  <2>2. \A j : j \in InMap' <=> j \in EndKeys /\ blocks'[j] # NoBlock
    BY DEF InMap
  <2>3. \A j : j \in InMap <=> j \in EndKeys /\ blocks[j] # NoBlock
    BY DEF InMap
  <2>4. \A j : j \in InMap' <=> j \in InMap
    BY <1>3, <1>8, <2>1, <2>2, <2>3
  <2> QED
    BY <2>4
<1>10. \A j \in InMap : blocks'[j].id = blocks[j].id /\ (j # e => blocks'[j] = blocks[j])
  BY <1>3, <1>7, <1>8 DEF InMap
<1>11. \A j : SameDisk(j) /\ Held(j)' = Held(j)
  BY <1>2 DEF SameDisk, Held
<1>12. OwnerInv'
  BY <1>9, <1>10 DEF Kept, OwnerInv
<1>13. LogOK(e)'
  BY <1>2, <1>3, <1>4, <1>7, <1>8 DEF LogOK
<1>14. NameOK(e)'
  <2>1. Held(blocks[e].id)' = Held(t) /\ Held(t) \cup {} = Held(t)
    BY <1>2, <1>7, <1>8 DEF Held
  <2> QED
    BY <1>2, <1>4, <1>5, <1>7, <1>8, <2>1 DEF NameOK
<1>15. BlockInv'
  <2> SUFFICES ASSUME NEW j \in InMap, j # e PROVE LogOK(j)' /\ NameOK(j)'
    BY <1>9, <1>13, <1>14 DEF BlockInv
  <2> QED
    BY <1>2, <1>10, <1>11, BlockUntouched DEF Kept, BlockInv
<1>16. FileInv'
  BY <1>2, <1>11, FileUntouched DEF Kept, FileInv
<1>17. ReadInv' /\ flushed' \subseteq OnDisk'
  BY <1>2, <1>3 DEF Kept, ReadInv, OnDisk
<1> QED
  BY <1>2, <1>12, <1>15, <1>16, <1>17, KeptIdle DEF Kept

\* joinBlocks removes a block whose streams are in the file of the last one, or
\* finds the last one again where it was.
LEMMA KeptJoinRemove ==
    ASSUME MapInv, MapInv', Kept, Clean', JoinRemove
    PROVE  Kept'
<1>1. /\ tpc = "joinRemove" /\ tpc' = "joinRemove" /\ tick.keys # {}
      /\ logf' = [logf EXCEPT ![blocks[Min(tick.keys)].id] = {}]
      /\ tick' = [tick EXCEPT !.keys = @ \ {Min(tick.keys)}]
      /\ UNCHANGED <<mode, pending, flushed>>
  BY DEF JoinRemove, histVars
<1>2. PICK e \in InMap, t \in Ids :
              /\ e = tick.key /\ t = tick.id /\ blocks[e].id = t
              /\ e \in EndKeys /\ e \in Nat
              /\ tick.keys \subseteq InMap
              /\ mode = "up" /\ JoinOK /\ LogOK(e) /\ NameOK(e)
              /\ \A j \in InMap : j # e => blocks[j].id # t /\ blocks[j].id \in Ids
  BY <1>1, Joining DEF Joins
<1>3. PICK buf, keys : buf = tick.buf /\ keys = tick.keys
  OBVIOUS
<1>4. /\ e \in KeysOf(buf) /\ \A n \in KeysOf(buf) : n <= e
      /\ e \in keys
      /\ \A m \in keys : m <= e /\ Held(blocks[m].id) \subseteq buf
      /\ t \in fileIds /\ file[t] = buf
  BY <1>1, <1>2, <1>3 DEF JoinOK
<1>5. keys \subseteq EndKeys /\ keys \in SUBSET Nat
  <2>1. InMap \subseteq EndKeys /\ EndKeys \subseteq Nat
    BY ConstantsAssumption DEF InMap, EndKeys
  <2> QED
    BY <1>2, <1>3, <2>1
<1>6. PICK k \in keys : k = Min(tick.keys) /\ \A m \in keys : k <= m
  BY <1>1, <1>3, <1>5, MinFacts
<1>7. k \in InMap /\ k \in EndKeys
  BY <1>2, <1>3, <1>5
<1>8. PICK i \in Ids : i = blocks[k].id
  BY <1>7, InMapFacts DEF MapInv
<1>9. tick'.keys = keys \ {k} /\ tick'.key = e /\ tick'.id = t /\ tick'.buf = buf
  <2>1. tick \in [keys : SUBSET EndKeys, key : EndKeys, id : 0..MaxIds,
                  buf : SUBSET Streams]
    BY DEF MapInv, TickPart
  <2> QED
    BY <1>1, <1>2, <1>3, <1>6, <2>1
<1>10. logf'[i] = {} /\ \A j \in Ids : j # i => logf'[j] = logf[j]
  BY <1>1, <1>6, <1>8 DEF MapInv, LogPart
<1>11. SplitInv' /\ ReadInv'
  BY <1>1, <1>2 DEF SplitInv, Splits, ReadInv
<1>12. /\ header[t] = KeysOf(file[t])
       /\ blocks[e].new = {}
  BY <1>1, <1>2, <1>4 DEF Kept, FileInv, FileOK, QuietInv, Busy
<1>13. CASE k # e
  <2>1. /\ blocks' = [blocks EXCEPT ![k] = NoBlock]
        /\ file' = [file EXCEPT ![i] = {}]
        /\ header' = [header EXCEPT ![i] = {}]
        /\ fileIds' = fileIds \ {i}
    BY <1>2, <1>6, <1>8, <1>13 DEF JoinRemove
  <2>2. i # t
    BY <1>2, <1>7, <1>8, <1>13
  <2>3. \A j \in Ids : j # i => SameDisk(j)
    BY <1>10, <2>1 DEF SameDisk, MapInv, FilePart
  <2>4. InMap' = InMap \ {k} /\ \A j \in InMap' : blocks'[j] = blocks[j]
    <3>1. \A j : j \in InMap' <=> j \in EndKeys /\ blocks'[j] # NoBlock
      BY DEF InMap
    <3>2. \A j : j \in InMap <=> j \in EndKeys /\ blocks[j] # NoBlock
      BY DEF InMap
    <3>3. blocks'[k] = NoBlock /\ \A j \in EndKeys : j # k => blocks'[j] = blocks[j]
      BY <1>7, <2>1 DEF MapInv, MapPart
    <3>4. \A j : j \in InMap' <=> j \in InMap \ {k}
      BY <3>1, <3>2, <3>3
    <3> QED
      BY <3>1, <3>3, <3>4
  <2>5. OwnerInv'
    BY <2>4 DEF Kept, OwnerInv
  <2>6. \A j \in InMap' : blocks[j].id \in Ids /\ SameDisk(blocks[j].id)
    <3>1. \A j \in InMap' : j \in InMap /\ j # k
      BY <2>4
    <3>2. \A j \in InMap' : blocks[j].id # i /\ blocks[j].id \in Ids
      BY <1>7, <1>8, <3>1, InMapFacts DEF Kept, OwnerInv, MapInv
    <3> QED
      BY <2>3, <3>2
  <2>7. BlockInv'
    <3> SUFFICES ASSUME NEW j \in InMap' PROVE LogOK(j)' /\ NameOK(j)'
      BY DEF BlockInv
    <3>1. j \in InMap /\ blocks'[j] = blocks[j] /\ SameDisk(blocks[j].id)
      BY <2>4, <2>6
    <3> QED
      BY <1>1, <3>1, BlockUntouched DEF Kept, BlockInv
  <2>8. FileInv'
    <3> SUFFICES ASSUME NEW j \in fileIds' PROVE FileOK(j)'
      BY DEF FileInv
    <3>1. SameDisk(j)
      BY <2>1, <2>3, GivenIds
    <3> QED
      BY <3>1, FileUntouched DEF Kept, FileInv
  <2>9. e \in InMap' /\ blocks'[e].id = t /\ e \in tick'.keys
    BY <1>2, <1>4, <1>9, <1>13, <2>4
  <2>10. t \in fileIds' /\ file'[t] = buf
    BY <1>4, <2>2, <2>3 DEF SameDisk
  <2>11. JoinOK'
    <3>1. ASSUME NEW m \in tick'.keys PROVE m <= e /\ Held(blocks[m].id)' \subseteq buf
      <4>1. m \in keys /\ m \in InMap'
        BY <1>2, <1>3, <1>9, <2>4
      <4>2. Held(blocks[m].id)' = Held(blocks[m].id)
        BY <2>4, <2>6, <4>1 DEF Held, SameDisk
      <4> QED
        BY <1>4, <4>1, <4>2
    <3> QED
      BY <1>1, <1>4, <1>9, <2>9, <2>10, <3>1 DEF JoinOK
  <2>12. QuietInv'
    <3>1. Busy' \subseteq Busy \cap InMap'
      BY <1>1, <1>2, <1>3, <1>9, <2>4, <2>9 DEF Busy
    <3> QED
      BY <2>4, <3>1 DEF Kept, QuietInv
  <2>13. flushed' \subseteq OnDisk'
    <3> SUFFICES ASSUME NEW j \in Ids, NEW s \in Held(j)
                 PROVE  \E m \in Ids : s \in file'[m] \cup logf'[m]
      BY <1>1, FlushedStays
    <3>1. CASE j = i
      BY <1>4, <1>8, <2>10, <3>1
    <3>2. CASE j # i
      BY <2>3, <3>2 DEF Held, SameDisk
    <3> QED
      BY <3>1, <3>2
  <2> QED
    BY <1>1, <1>11, <2>5, <2>7, <2>8, <2>11, <2>12, <2>13 DEF Kept, JoinInv
<1>14. CASE k = e
  <2>1. keys = {e} /\ tick'.keys = {}
    <3>1. \A m \in keys : m = e
      BY <1>4, <1>5, <1>6, <1>14
    <3> QED
      BY <1>4, <1>9, <1>14, <3>1
  <2>2. EndKeyOf(header[t]) = e
    <3>1. header[t] \in SUBSET Keys
      BY DEF MapInv, FilePart
    <3> QED
      BY <1>4, <1>12, <3>1, EndKeyFacts
  <2>3. PICK X : X = header[t]
    OBVIOUS
  <2> DEFINE c == [id |-> t, index |-> X, log |-> {}, new |-> {}]
             d == [blocks EXCEPT ![e] = NoBlock]
  <2>4. blocks' = [d EXCEPT ![e] = c] /\ UNCHANGED <<file, header, fileIds>>
    <3>1. [newBlock(t) EXCEPT !.index = X] = c
      BY DEF newBlock
    <3>2. /\ blocks' = [d EXCEPT ![e] = [newBlock(t) EXCEPT !.index = X]]
          /\ UNCHANGED <<file, header, fileIds>>
      <4> HIDE DEF c
      <4> QED
        BY <1>2, <1>4, <1>6, <1>14, <2>2, <2>3 DEF JoinRemove
    <3> HIDE DEF c
    <3> QED
      BY <3>1, <3>2
  <2>5. c.id = t /\ c.index = X /\ c.log = {} /\ c.new = {}
    OBVIOUS
  <2> HIDE DEF c
  <2>6. blocks'[e] = c /\ \A j \in EndKeys : j # e => blocks'[j] = blocks[j]
    BY <1>2, <2>4 DEF MapInv, MapPart
  <2>7. InMap' = InMap
    <3>1. c # NoBlock
      BY <2>5, ConstantsAssumption DEF NoBlock, Ids
    <3>2. \A j : j \in InMap' <=> j \in EndKeys /\ blocks'[j] # NoBlock
      BY DEF InMap
    <3>3. \A j : j \in InMap <=> j \in EndKeys /\ blocks[j] # NoBlock
      BY DEF InMap
    <3>4. \A j : j \in InMap' <=> j \in InMap
      BY <1>2, <2>6, <3>1, <3>2, <3>3
    <3> QED
      BY <3>4
  <2>8. \A j \in InMap : blocks'[j].id = blocks[j].id /\ (j # e => blocks'[j] = blocks[j])
    BY <1>2, <2>5, <2>6 DEF InMap
  <2>9. i = t /\ \A j \in Ids : j # t => SameDisk(j)
    BY <1>2, <1>8, <1>10, <1>14, <2>4 DEF SameDisk
  <2>10. Held(t)' = buf /\ file'[t] = buf /\ logf'[t] = {} /\ t \in fileIds'
    BY <1>4, <1>10, <2>4, <2>9 DEF Held
  <2>11. OwnerInv'
    BY <2>7, <2>8 DEF Kept, OwnerInv
  <2>12. LogOK(e)'
    BY <1>1, <1>2, <2>5, <2>6, <2>10 DEF LogOK
  <2>13. NameOK(e)'
    <3>1. Held(blocks[e].id)' = buf /\ buf \cup {} = buf
      BY <2>5, <2>6, <2>10 DEF Held
    <3>2. X = KeysOf(buf) /\ header'[t] = X
      BY <1>4, <1>12, <2>3, <2>4
    <3> QED
      BY <1>4, <2>5, <2>6, <3>1, <3>2 DEF NameOK
  <2>14. BlockInv'
    <3> SUFFICES ASSUME NEW j \in InMap, j # e PROVE LogOK(j)' /\ NameOK(j)'
      BY <2>7, <2>12, <2>13 DEF BlockInv
    <3>1. SameDisk(blocks[j].id) /\ blocks'[j] = blocks[j]
      BY <1>2, <2>8, <2>9
    <3> QED
      BY <1>1, <3>1, BlockUntouched DEF Kept, BlockInv
  <2>15. FileInv'
    <3> SUFFICES ASSUME NEW j \in fileIds' PROVE FileOK(j)'
      BY DEF FileInv
    <3>1. CASE j = t
      <4>1. header'[t] = KeysOf(buf) /\ e \in header'[t]
        BY <1>4, <1>12, <2>4
      <4> QED
        BY <1>4, <2>10, <3>1, <4>1 DEF FileOK
    <3>2. CASE j # t
      <4>1. SameDisk(j)
        BY <2>9, <3>2, GivenIds
      <4> QED
        BY <4>1, FileUntouched DEF Kept, FileInv
    <3> QED
      BY <3>1, <3>2
  <2>16. JoinOK'
    BY <1>1, <1>2, <1>4, <1>9, <2>1, <2>5, <2>6, <2>7, <2>10 DEF JoinOK
  <2>17. QuietInv'
    <3>1. Busy' = {e}
      BY <1>1, <1>9, <2>1 DEF Busy
    <3> QED
      BY <2>5, <2>6, <3>1 DEF QuietInv
  <2>18. flushed' \subseteq OnDisk'
    <3> SUFFICES ASSUME NEW j \in Ids, NEW s \in Held(j)
                 PROVE  \E m \in Ids : s \in file'[m] \cup logf'[m]
      BY <1>1, FlushedStays
    <3>1. CASE j = t
      BY <1>4, <1>8, <2>9, <2>10, <3>1
    <3>2. CASE j # t
      BY <2>9, <3>2 DEF Held, SameDisk
    <3> QED
      BY <3>1, <3>2
  <2> QED
    BY <1>1, <1>11, <2>11, <2>14, <2>15, <2>16, <2>17, <2>18 DEF Kept, JoinInv
<1> QED
  BY <1>13, <1>14

\* What a restart leaves alone: the files, the logs and the history.
LEMMA KeptDisk ==
    ASSUME Kept, UNCHANGED <<file, header, fileIds, logf, flushed>>
    PROVE  FileInv' /\ flushed' \subseteq OnDisk'
<1>1. \A i : SameDisk(i)
  BY DEF SameDisk
<1> QED
  BY <1>1, FileUntouched DEF Kept, FileInv, OnDisk

\* After a crash there are no blocks.
LEMMA KeptCrash ==
    ASSUME Kept, Crash
    PROVE  Kept'
<1>1. /\ mode' = "down" /\ tpc' = "idle" /\ tick' = NoTick
      /\ blocks' = [k \in EndKeys |-> NoBlock]
      /\ UNCHANGED <<file, header, fileIds, logf, flushed>>
  BY DEF Crash, histVars
<1>2. InMap' = {}
  BY <1>1 DEF InMap
<1>3. OwnerInv' /\ BlockInv' /\ ReadInv'
  BY <1>1, <1>2 DEF OwnerInv, BlockInv, ReadInv
<1> QED
  BY <1>1, <1>3, KeptDisk, KeptIdle DEF Kept

\* A restart has still to read all files.
LEMMA KeptOpen ==
    ASSUME MapInv, Kept, Open
    PROVE  Kept'
<1>1. /\ mode = "down" /\ mode' = "files" /\ pending' = fileIds
      /\ UNCHANGED <<blocks, tpc, tick, file, header, fileIds, logf, flushed>>
  BY DEF Open, mapVars, tickVars, diskVars, fileVars, histVars
<1>2. tpc = "idle" /\ tick = NoTick /\ InMap = {}
  BY <1>1 DEF MapInv, TickPart
<1>3. InMap' = {}
  BY <1>1, <1>2 DEF InMap
<1>4. OwnerInv' /\ BlockInv' /\ ReadInv'
  BY <1>1, <1>3 DEF OwnerInv, BlockInv, ReadInv
<1> QED
  BY <1>1, <1>2, <1>4, KeptDisk, KeptIdle DEF Kept

\* The block of a file gets the end key that it had, which no other block has.
LEMMA KeptReadBlock ==
    ASSUME MapInv, MapInv', Kept, Clean', NEW i \in Ids, readBlock(i)
    PROVE  Kept'
<1>1. PICK X, e : X = header[i] /\ e = EndKeyOf(header[i])
  OBVIOUS
<1>2. /\ mode = "files" /\ mode' = "files" /\ i \in pending /\ pending' = pending \ {i}
      /\ blocks' = [blocks EXCEPT ![e] = [newBlock(i) EXCEPT !.index = X]]
      /\ clash' = (clash \/ e \in InMap)
      /\ UNCHANGED <<tpc, tick, file, header, fileIds, logf, flushed>>
  BY <1>1 DEF readBlock, insertBlock, tickVars, diskVars, fileVars
<1>3. e \notin InMap
  BY <1>2 DEF Clean
<1>4. tpc = "idle" /\ tick = NoTick
  BY <1>2 DEF MapInv, TickPart
<1>5. /\ i \in fileIds /\ pending \subseteq fileIds
      /\ \A k \in InMap : blocks[k].id \in fileIds \ pending
      /\ \A j \in fileIds \ pending : \E k \in InMap : blocks[k].id = j
  BY <1>2 DEF Kept, ReadInv
<1>6. X \subseteq KeysOf(Held(i)) /\ e \in X /\ \A n \in KeysOf(Held(i)) : n <= e
  <2>1. X = KeysOf(file[i]) /\ \E m \in X : \A n \in KeysOf(Held(i)) : n <= m
    BY <1>1, <1>5 DEF Kept, FileInv, FileOK
  <2>2. X \subseteq KeysOf(Held(i))
    BY <2>1, KeysOfFacts DEF Held
  <2>3. PICK m \in X : \A n \in KeysOf(Held(i)) : n <= m
    BY <2>1
  <2>4. X \in SUBSET Keys
    BY <1>1 DEF MapInv, FilePart
  <2>5. e = m
    BY <1>1, <2>2, <2>3, <2>4, EndKeyFacts
  <2> QED
    BY <2>2, <2>3, <2>5
<1>7. e \in EndKeys
  <2>1. header[i] \in SUBSET Keys
    BY DEF MapInv, FilePart
  <2> QED
    BY <1>1, <2>1, EndKeyFacts
<1> DEFINE c == [id |-> i, index |-> X, log |-> {}, new |-> {}]
<1>8. blocks' = [blocks EXCEPT ![e] = c]
  <2>1. [newBlock(i) EXCEPT !.index = X] = c
    BY DEF newBlock
  <2> HIDE DEF c
  <2> QED
    BY <1>2, <2>1
<1>9. c.id = i /\ c.index = X /\ c.log = {} /\ c.new = {}
  OBVIOUS
<1> HIDE DEF c
<1>10. blocks'[e] = c /\ \A j \in EndKeys : j # e => blocks'[j] = blocks[j]
  BY <1>7, <1>8 DEF MapInv, MapPart
<1>11. InMap' = InMap \cup {e}
  <2>1. c # NoBlock
    BY <1>9, ConstantsAssumption DEF NoBlock, Ids
  <2>2. \A j : j \in InMap' <=> j \in EndKeys /\ blocks'[j] # NoBlock
    BY DEF InMap
  <2>3. \A j : j \in InMap <=> j \in EndKeys /\ blocks[j] # NoBlock
    BY DEF InMap
  <2>4. \A j : j \in InMap' <=> j \in InMap \cup {e}
    BY <1>7, <1>10, <2>1, <2>2, <2>3
  <2> QED
    BY <2>4
<1>12. \A j \in InMap : j # e /\ blocks'[j] = blocks[j] /\ blocks[j].id # i
  BY <1>2, <1>3, <1>5, <1>10 DEF InMap
<1>13. OwnerInv'
  <2>1. blocks'[e].id = i
    BY <1>9, <1>10
  <2>2. \A j, m \in InMap : blocks'[j].id = blocks'[m].id => j = m
    BY <1>12 DEF Kept, OwnerInv
  <2>3. \A j \in InMap : blocks'[j].id # i
    BY <1>12
  <2>4. \A j, m \in InMap' : blocks'[j].id = blocks'[m].id => j = m
    BY <1>11, <2>1, <2>2, <2>3
  <2> QED
    BY <2>4 DEF OwnerInv
<1>14. LogOK(e)' /\ NameOK(e)'
  <2>1. LogOK(e)'
    BY <1>2, <1>9, <1>10 DEF LogOK
  <2>2. Held(blocks[e].id)' = Held(i) /\ Held(i) \cup {} = Held(i)
    BY <1>2, <1>9, <1>10 DEF Held
  <2>3. NameOK(e)'
    BY <1>1, <1>2, <1>6, <1>9, <1>10, <2>2 DEF NameOK
  <2> QED
    BY <2>1, <2>3
<1>15. ASSUME NEW j \in InMap PROVE LogOK(j)' /\ NameOK(j)'
  <2>1. LogOK(j) /\ NameOK(j) /\ blocks'[j] = blocks[j]
    BY <1>12 DEF Kept, BlockInv
  <2>2. LogOK(j)'
    BY <1>2, <2>1 DEF LogOK
  <2>3. Held(blocks[j].id)' = Held(blocks[j].id)
    BY <1>2, <2>1 DEF Held
  <2>4. UNCHANGED <<header, fileIds>>
    BY <1>2
  <2>5. NameOK(j)'
    BY <2>1, <2>3, <2>4 DEF NameOK
  <2> QED
    BY <2>2, <2>5
<1>16. BlockInv'
  BY <1>11, <1>14, <1>15 DEF BlockInv
<1>17. ReadInv'
  <2>1. pending' \subseteq fileIds'
    BY <1>2, <1>5
  <2>2. \A k \in InMap' : blocks'[k].id \in fileIds' \ pending'
    <3>1. pending' = pending \ {i} /\ fileIds' = fileIds
      BY <1>2
    <3>2. blocks'[e].id = i
      BY <1>9, <1>10
    <3>3. \A k \in InMap : blocks'[k].id \in fileIds \ pending
      BY <1>5, <1>12
    <3> QED
      BY <1>5, <1>11, <3>1, <3>2, <3>3
  <2>3. ASSUME NEW j \in fileIds' \ pending' PROVE \E k \in InMap' : blocks'[k].id = j
    <3>1. CASE j = i
      BY <1>9, <1>10, <1>11, <3>1
    <3>2. CASE j # i
      BY <1>2, <1>5, <1>11, <1>12, <3>2
    <3> QED
      BY <3>1, <3>2
  <2> QED
    BY <1>2, <2>1, <2>2, <2>3 DEF ReadInv
<1> QED
  BY <1>2, <1>4, <1>13, <1>16, <1>17, KeptDisk, KeptIdle DEF Kept

\* Once the files have been read, every log is still to be read.
LEMMA KeptFilesRead ==
    ASSUME MapInv, Kept, FilesRead
    PROVE  Kept'
<1>1. /\ mode = "files" /\ mode' = "logs" /\ pending = {}
      /\ pending' = {i \in Ids : logf[i] # {}}
      /\ UNCHANGED <<blocks, tpc, tick, file, header, fileIds, logf, flushed>>
  BY DEF FilesRead, mapVars, tickVars, diskVars, fileVars, histVars
<1>2. tpc = "idle" /\ tick = NoTick
  BY <1>1 DEF MapInv, TickPart
<1>3. InMap' = InMap
  BY <1>1 DEF InMap
<1>4. OwnerInv'
  BY <1>1, <1>3 DEF Kept, OwnerInv
<1>5. BlockInv'
  <2> SUFFICES ASSUME NEW j \in InMap PROVE LogOK(j)' /\ NameOK(j)'
    BY <1>3 DEF BlockInv
  <2>1. LogOK(j) /\ NameOK(j) /\ blocks'[j] = blocks[j] /\ blocks[j].id \in Ids
    BY <1>1, InMapFacts DEF Kept, BlockInv, MapInv
  <2>2. blocks[j].log = {}
    BY <1>1, <2>1 DEF LogOK
  <2>3. LogOK(j)'
    BY <1>1, <2>1, <2>2 DEF LogOK
  <2>4. Held(blocks[j].id)' = Held(blocks[j].id)
    BY <1>1 DEF Held
  <2>5. NameOK(j)'
    BY <1>1, <2>1, <2>4 DEF NameOK
  <2> QED
    BY <2>3, <2>5
<1>6. ReadInv'
  BY <1>1, <1>3 DEF Kept, ReadInv
<1> QED
  BY <1>1, <1>2, <1>4, <1>5, <1>6, KeptDisk, KeptIdle DEF Kept

\* A log goes to the block of its file; without one it is a block whose end key
\* no other block has.
LEMMA KeptReadBlockLog ==
    ASSUME MapInv, MapInv', Kept, Clean', NEW i \in Ids, readBlockLog(i)
    PROVE  Kept'
<1>1. /\ mode = "logs" /\ mode' = "logs" /\ i \in pending /\ pending' = pending \ {i}
      /\ UNCHANGED <<tpc, tick, file, header, fileIds, logf, flushed>>
  BY DEF readBlockLog, tickVars, diskVars, fileVars
<1>2. tpc = "idle" /\ tick = NoTick
  BY <1>1 DEF MapInv, TickPart
<1>3. /\ \A j \in pending : logf[j] # {}
      /\ \A j \in fileIds : \E k \in InMap : blocks[k].id = j
  BY <1>1 DEF Kept, ReadInv
<1>4. ASSUME NEW j \in InMap, blocks'[j] = blocks[j], blocks[j].id # i
      PROVE  LogOK(j)' /\ NameOK(j)'
  <2>1. LogOK(j) /\ NameOK(j)
    BY <1>4 DEF Kept, BlockInv
  <2>2. LogOK(j)'
    BY <1>1, <1>4, <2>1 DEF LogOK
  <2>3. Held(blocks[j].id)' = Held(blocks[j].id)
    BY <1>1, <1>4 DEF Held
  <2>4. NameOK(j)'
    BY <1>1, <1>4, <2>1, <2>3 DEF NameOK
  <2> QED
    BY <2>2, <2>4
<1>5. ASSUME \A k \in InMap : k \in InMap' /\ blocks'[k].id = blocks[k].id
      PROVE  ReadInv'
  BY <1>1, <1>3, <1>5 DEF ReadInv
<1>6. ASSUME NEW k \in InMap, blocks[k].id = i,
             blocks' = [blocks EXCEPT ![k].log = logf[i]]
      PROVE  Kept'
  <2> DEFINE b == blocks[k]
             c == [id |-> b.id, index |-> b.index, log |-> logf[i], new |-> b.new]
  <2>1. blocks' = [blocks EXCEPT ![k] = c]
    BY <1>6, BlockUpdates DEF MapInv
  <2>2. c.id = i /\ c.index = b.index /\ c.log = logf[i] /\ c.new = b.new
    BY <1>6
  <2>3. k \in EndKeys
    BY <1>6 DEF InMap
  <2> HIDE DEF c
  <2>4. blocks'[k] = c /\ \A j \in EndKeys : j # k => blocks'[j] = blocks[j]
    BY <2>1, <2>3 DEF MapInv, MapPart
  <2>5. InMap' = InMap
    <3>1. c # NoBlock
      BY <2>2, ConstantsAssumption DEF NoBlock, Ids
    <3>2. \A j : j \in InMap' <=> j \in EndKeys /\ blocks'[j] # NoBlock
      BY DEF InMap
    <3>3. \A j : j \in InMap <=> j \in EndKeys /\ blocks[j] # NoBlock
      BY DEF InMap
    <3>4. \A j : j \in InMap' <=> j \in InMap
      BY <1>6, <2>4, <3>1, <3>2, <3>3
    <3> QED
      BY <3>4
  <2>6. \A j \in InMap : blocks'[j].id = blocks[j].id /\ (j # k => blocks'[j] = blocks[j])
    BY <1>6, <2>2, <2>4 DEF InMap
  <2>7. OwnerInv'
    BY <2>5, <2>6 DEF Kept, OwnerInv
  <2>8. LogOK(k)' /\ NameOK(k)'
    <3>1. LogOK(k)'
      BY <1>1, <2>2, <2>4 DEF LogOK
    <3>2. NameOK(k) /\ Held(blocks[k].id)' = Held(blocks[k].id)
      BY <1>1, <1>6, <2>6 DEF Held, Kept, BlockInv
    <3>3. NameOK(k)'
      BY <1>1, <1>6, <2>2, <2>4, <3>2 DEF NameOK
    <3> QED
      BY <3>1, <3>3
  <2>9. BlockInv'
    <3> SUFFICES ASSUME NEW j \in InMap, j # k PROVE LogOK(j)' /\ NameOK(j)'
      BY <2>5, <2>8 DEF BlockInv
    <3>1. blocks'[j] = blocks[j] /\ blocks[j].id # i
      BY <1>6, <2>6 DEF Kept, OwnerInv
    <3> QED
      BY <1>4, <3>1
  <2>10. ReadInv'
    BY <1>5, <2>5, <2>6
  <2> QED
    BY <1>1, <1>2, <2>7, <2>9, <2>10, KeptDisk, KeptIdle DEF Kept
<1>7. ASSUME NEW e, e = EndKeyOf(KeysOf(logf[i])), \A k \in InMap : blocks[k].id # i,
             blocks' = [blocks EXCEPT ![e] = [newBlock(i) EXCEPT !.log = logf[i]]],
             e \notin InMap
      PROVE  Kept'
  <2> DEFINE c == [id |-> i, index |-> {}, log |-> logf[i], new |-> {}]
  <2>1. blocks' = [blocks EXCEPT ![e] = c]
    <3>1. [newBlock(i) EXCEPT !.log = logf[i]] = c
      BY DEF newBlock
    <3> HIDE DEF c
    <3> QED
      BY <1>7, <3>1
  <2>2. c.id = i /\ c.index = {} /\ c.log = logf[i] /\ c.new = {}
    OBVIOUS
  <2> HIDE DEF c
  <2>3. i \notin fileIds /\ Held(i) = logf[i]
    BY <1>3, <1>7 DEF Held, MapInv, FilePart
  <2>4. e \in KeysOf(Held(i)) /\ (\A n \in KeysOf(Held(i)) : n <= e) /\ e \in EndKeys
    <3>1. logf[i] # {} /\ logf[i] \subseteq Streams
      BY <1>1, <1>3 DEF MapInv, LogPart
    <3>2. KeysOf(logf[i]) \in SUBSET Keys /\ KeysOf(logf[i]) # {}
      BY <3>1, KeysOfFacts
    <3> QED
      BY <1>7, <2>3, <3>2, EndKeyFacts
  <2>5. blocks'[e] = c /\ \A j \in EndKeys : j # e => blocks'[j] = blocks[j]
    BY <2>1, <2>4 DEF MapInv, MapPart
  <2>6. InMap' = InMap \cup {e}
    <3>1. c # NoBlock
      BY <2>2, ConstantsAssumption DEF NoBlock, Ids
    <3>2. \A j : j \in InMap' <=> j \in EndKeys /\ blocks'[j] # NoBlock
      BY DEF InMap
    <3>3. \A j : j \in InMap <=> j \in EndKeys /\ blocks[j] # NoBlock
      BY DEF InMap
    <3>4. \A j : j \in InMap' <=> j \in InMap \cup {e}
      BY <2>4, <2>5, <3>1, <3>2, <3>3
    <3> QED
      BY <3>4
  <2>7. \A j \in InMap : j # e /\ blocks'[j] = blocks[j] /\ blocks[j].id # i
    BY <1>7, <2>5 DEF InMap
  <2>8. OwnerInv'
    <3>1. blocks'[e].id = i
      BY <2>2, <2>5
    <3>2. \A j, m \in InMap : blocks'[j].id = blocks'[m].id => j = m
      BY <2>7 DEF Kept, OwnerInv
    <3>3. \A j \in InMap : blocks'[j].id # i
      BY <2>7
    <3>4. \A j, m \in InMap' : blocks'[j].id = blocks'[m].id => j = m
      BY <2>6, <3>1, <3>2, <3>3
    <3> QED
      BY <3>4 DEF OwnerInv
  <2>9. LogOK(e)' /\ NameOK(e)'
    <3>1. LogOK(e)'
      BY <1>1, <2>2, <2>5 DEF LogOK
    <3>2. Held(blocks[e].id)' = Held(i) /\ Held(i) \cup {} = Held(i)
      BY <1>1, <2>2, <2>5 DEF Held
    <3>3. NameOK(e)'
      BY <1>1, <2>2, <2>3, <2>4, <2>5, <3>2 DEF NameOK
    <3> QED
      BY <3>1, <3>3
  <2>10. BlockInv'
    BY <1>4, <2>6, <2>7, <2>9 DEF BlockInv
  <2>11. ReadInv'
    BY <1>5, <2>6, <2>7
  <2> QED
    BY <1>1, <1>2, <2>8, <2>10, <2>11, KeptDisk, KeptIdle DEF Kept
<1>8. \/ \E k \in InMap : blocks[k].id = i /\ blocks' = [blocks EXCEPT ![k].log = logf[i]]
      \/ \E e : /\ e = EndKeyOf(KeysOf(logf[i])) /\ \A k \in InMap : blocks[k].id # i
                /\ blocks' = [blocks EXCEPT ![e] = [newBlock(i) EXCEPT !.log = logf[i]]]
                /\ clash' = (clash \/ e \in InMap)
  BY Zenon DEF readBlockLog, insertBlock
<1> QED
  BY <1>6, <1>7, <1>8 DEF Clean

\* Once the logs have been read, LogStreams is what they hold.
LEMMA KeptOpened ==
    ASSUME MapInv, Kept, Opened
    PROVE  Kept'
<1>1. /\ mode = "logs" /\ mode' = "up" /\ pending = {} /\ pending' = {}
      /\ UNCHANGED <<blocks, tpc, tick, file, header, fileIds, logf, flushed>>
  BY DEF Opened, mapVars, tickVars, diskVars, fileVars, histVars
<1>2. tpc = "idle" /\ tick = NoTick
  BY <1>1 DEF MapInv, TickPart
<1>3. InMap' = InMap
  BY <1>1 DEF InMap
<1>4. OwnerInv'
  BY <1>1, <1>3 DEF Kept, OwnerInv
<1>5. BlockInv'
  <2> SUFFICES ASSUME NEW j \in InMap PROVE LogOK(j)' /\ NameOK(j)'
    BY <1>3 DEF BlockInv
  <2>1. LogOK(j) /\ NameOK(j)
    BY DEF Kept, BlockInv
  <2>2. LogOK(j)'
    BY <1>1, <2>1 DEF LogOK
  <2>3. Held(blocks[j].id)' = Held(blocks[j].id)
    BY <1>1 DEF Held
  <2>4. NameOK(j)'
    BY <1>1, <2>1, <2>3 DEF NameOK
  <2> QED
    BY <2>2, <2>4
<1>6. ReadInv'
  BY <1>1 DEF ReadInv
<1> QED
  BY <1>1, <1>2, <1>4, <1>5, <1>6, KeptDisk, KeptIdle DEF Kept

\* What has raced, been damaged or clashed has done so for good.
LEMMA CleanBefore ==
    ASSUME [Next]_vars, Clean'
    PROVE  Clean
<1>1. raced => raced'
  BY DEF Next, Write, Flush, Compact, SplitCompact, SplitRead, SplitLeft, SplitRight,
         SplitInsert, SplitFail, JoinRead, JoinWrite, JoinFail, JoinRemove,
         JoinPublish, Crash, Open, readBlock, FilesRead, readBlockLog, Opened, vars
<1>2. damaged => damaged'
  BY DEF Next, Write, Flush, Compact, SplitCompact, SplitRead, SplitLeft, SplitRight,
         SplitInsert, SplitFail, JoinRead, JoinWrite, JoinFail, JoinRemove,
         JoinPublish, Crash, Open, readBlock, FilesRead, readBlockLog, Opened, vars,
         compactBlock, compactBlockFails, WriteFile, WriteFails, diskVars, fileVars
<1>3. clash => clash'
  BY DEF Next, Write, Flush, Compact, SplitCompact, SplitRead, SplitLeft, SplitRight,
         SplitInsert, SplitFail, JoinRead, JoinWrite, JoinFail, JoinRemove,
         JoinPublish, Crash, Open, readBlock, FilesRead, readBlockLog, Opened, vars,
         histVars
<1> QED
  BY <1>1, <1>2, <1>3 DEF Clean

\* Nothing is flushed at first.
LEMMA KeptInit == Init => KeptInv
<1> SUFFICES ASSUME Init PROVE Kept
  BY DEF KeptInv
<1>1. InMap = {} /\ tpc = "idle" /\ tick = NoTick /\ fileIds = {} /\ mode = "up"
  BY DEF Init, InMap
<1>2. Busy = {}
  BY <1>1 DEF Busy, NoTick
<1>3. OwnerInv /\ BlockInv /\ FileInv /\ ReadInv /\ QuietInv
  BY <1>1, <1>2 DEF OwnerInv, BlockInv, FileInv, ReadInv, QuietInv
<1>4. SplitInv /\ JoinInv
  BY <1>1 DEF SplitInv, JoinInv, Splits, Joins
<1>5. flushed \subseteq OnDisk
  BY DEF Init
<1> QED
  BY <1>3, <1>4, <1>5 DEF Kept

\* Every step keeps what holds until a race, damage or a clash.
LEMMA KeptStep == MapInv /\ MapInv' /\ KeptInv /\ [Next]_vars => KeptInv'
<1> SUFFICES ASSUME MapInv, MapInv', KeptInv, [Next]_vars, Clean'
             PROVE  Kept'
  BY DEF KeptInv
<1>1. Kept
  BY CleanBefore DEF KeptInv
<1>2. CASE \E s \in Streams : Write(s)
  BY <1>1, <1>2, KeptWrite
<1>3. CASE Flush
  BY <1>1, <1>3, KeptFlush
<1>4. CASE \E k \in EndKeys : Compact(k) \/ SplitCompact(k)
  BY <1>1, <1>4, KeptCompact, KeptSplitCompact
<1>5. CASE SplitRead \/ SplitLeft \/ SplitRight \/ SplitInsert \/ SplitFail
  BY <1>1, <1>5, KeptSplitRead, KeptSplitLeft, KeptSplitRight, KeptSplitInsert,
     KeptSplitFail
<1>6. CASE JoinRead \/ JoinWrite \/ JoinFail \/ JoinRemove \/ JoinPublish
  BY <1>1, <1>6, KeptJoinRead, KeptJoinWrite, KeptJoinFail, KeptJoinRemove,
     KeptJoinPublish
<1>7. CASE Crash \/ Open \/ FilesRead \/ Opened
  BY <1>1, <1>7, KeptCrash, KeptOpen, KeptFilesRead, KeptOpened
<1>8. CASE \E i \in Ids : readBlock(i) \/ readBlockLog(i)
  BY <1>1, <1>8, KeptReadBlock, KeptReadBlockLog
<1>9. CASE UNCHANGED vars
  <2>1. /\ UNCHANGED <<blocks, file, header, fileIds, logf, mode, pending, flushed>>
        /\ UNCHANGED <<tpc, tick>>
    BY <1>9 DEF vars, mapVars, tickVars, diskVars, fileVars, histVars
  <2>2. OwnerInv' /\ BlockInv' /\ FileInv' /\ ReadInv' /\ flushed' \subseteq OnDisk'
        /\ InMap' = InMap /\ \A i : Held(i)' = Held(i)
    BY <1>1, <2>1, KeptSame
  <2>3. QuietInv'
    BY <1>1, <2>1 DEF Kept, QuietInv, Busy
  <2>4. SplitInv'
    <3>1. \A k : SplitOK(k) => SplitOK(k)'
      BY <2>1, <2>2 DEF SplitOK, LeftPart
    <3> QED
      BY <1>1, <2>1, <3>1 DEF Kept, SplitInv
  <2>5. JoinInv'
    BY <1>1, <2>1, <2>2 DEF Kept, JoinInv, JoinOK
  <2> QED
    BY <2>2, <2>3, <2>4, <2>5 DEF Kept
<1> QED
  BY <1>2, <1>3, <1>4, <1>5, <1>6, <1>7, <1>8, <1>9 DEF Next

\* Both invariants hold in every state.
LEMMA KeptInvariant == Spec => [](MapInv /\ KeptInv)
<1> DEFINE Inv == MapInv /\ KeptInv
<1>1. Init => Inv
  BY MapInvInit, KeptInit
<1>2. Inv /\ [Next]_vars => Inv'
  BY MapInvStep, KeptStep
<1> HIDE DEF Inv
<1>3. Spec => []Inv
  BY <1>1, <1>2, PTL DEF Spec
<1> QED
  BY <1>3, PTL DEF Inv

\* As long as the ticker meets no unflushed streams, no file is damaged and no
\* restart finds two blocks with one end key, splitBlock, joinBlocks and restarts
\* never give two blocks one file (OneOwner).
THEOREM BlocksShareNoFile == Spec => []OneOwner
<1>1. KeptInv => OneOwner
  BY DEF KeptInv, Clean, Kept, OwnerInv, OneOwner
<1> QED
  BY <1>1, KeptInvariant, PTL

\* Under the same conditions a flushed stream is on disk at every moment of a
\* compaction, a split, a join, a crash and a restart (FlushedKept).
THEOREM FlushedStaysOnDisk == Spec => []FlushedKept
<1>1. KeptInv => FlushedKept
  BY DEF KeptInv, Clean, Kept, FlushedKept
<1> QED
  BY <1>1, KeptInvariant, PTL
-----------------------------------------------------------------------------
(***************************************************************************)
(* The block map implements DurableStore.                                  *)
(***************************************************************************)

\* Flush adds to the logs and takes nothing away, whatever has raced before.
LEMMA FlushGrows ==
    ASSUME MapInv, MapInv', Flush
    PROVE  /\ OnDisk \subseteq OnDisk'
           /\ flushed \subseteq flushed' /\ flushed' \ flushed \subseteq OnDisk'
           /\ UNCHANGED <<sent, damaged, raced, clash>>
<1> DEFINE dirty == {k \in InMap : blocks[k].new # {}}
<1>1. /\ logf' = [i \in Ids |->
                  logf[i] \cup UNION {blocks[k].new :
                                        k \in {d \in dirty : blocks[d].id = i}}]
      /\ flushed' = flushed \cup UNION {blocks[k].new : k \in dirty}
      /\ UNCHANGED <<file, sent, damaged, raced, clash>>
  BY Zenon DEF Flush, fileVars
<1>2. \A i \in Ids : logf[i] \subseteq logf'[i]
  BY <1>1
<1>3. OnDisk \subseteq OnDisk'
  <2>1. \A i \in Ids : \A s \in Held(i) : s \in file'[i] \cup logf'[i]
    BY <1>1, <1>2 DEF Held
  <2> QED
    BY <2>1, DiskKept
<1>4. ASSUME NEW k \in dirty, NEW s \in blocks[k].new
      PROVE  s \in OnDisk'
  <2>1. PICK i \in Ids : i = blocks[k].id
    BY InMapFacts DEF MapInv
  <2>2. s \in logf'[i]
    BY <1>1, <2>1
  <2> QED
    BY <2>2, DiskHeldNext
<1> HIDE DEF dirty
<1>5. flushed \subseteq flushed' /\ flushed' \ flushed \subseteq OnDisk'
  BY <1>1, <1>4
<1> QED
  BY <1>1, <1>3, <1>5

\* Write accepts, Flush promises, and every other step stores.
LEMMA EngineStep ==
    MapInv /\ MapInv' /\ KeptInv /\ KeptInv' /\ [Next]_vars
        => [Engine!Next]_(Engine!vars)
<1> SUFFICES ASSUME MapInv, MapInv', KeptInv', [Next]_vars
             PROVE  [Engine!Next]_(Engine!vars)
  OBVIOUS
<1>1. damaged \/ raced \/ clash => damaged' \/ raced' \/ clash'
  BY CleanBefore DEF Clean
<1>2. OnDisk' \subseteq sent'
  <2>1. \A i \in Ids : file'[i] \subseteq sent' /\ logf'[i] \subseteq sent'
    BY DEF MapInv, FilePart, LogPart
  <2> QED
    BY <2>1, DiskHeldNext
<1>3. damaged' \/ raced' \/ clash' \/ flushed' \subseteq OnDisk'
  BY DEF KeptInv, Clean, Kept
<1>4. ASSUME UNCHANGED <<sent, flushed>>
      PROVE  Engine!Next
  <2>1. Engine!Store
    BY <1>2, <1>3, <1>4 DEF Engine!Store
  <2> QED
    BY <1>1, <2>1 DEF Engine!Next
<1>5. ASSUME NEW s \in Streams, Write(s)
      PROVE  Engine!Next
  <2>1. /\ UNCHANGED <<file, fileIds, logf, flushed>> /\ sent' = sent \cup {s}
    BY <1>5 DEF Write, diskVars, fileVars
  <2>2. OnDisk' = OnDisk /\ sent' \subseteq Streams
    BY <2>1 DEF OnDisk, MapInv, RestPart
  <2>3. Engine!Accept
    BY <2>1, <2>2 DEF Engine!Accept
  <2> QED
    BY <1>1, <2>3 DEF Engine!Next
<1>6. CASE Flush
  <2>1. Engine!Promise
    BY <1>2, <1>6, FlushGrows DEF Engine!Promise
  <2> QED
    BY <1>1, <2>1 DEF Engine!Next
<1>7. ASSUME ~ Flush, ~ \E s \in Streams : Write(s)
      PROVE  UNCHANGED <<sent, flushed>>
  BY <1>7 DEF Next, Compact, SplitCompact, SplitRead, SplitLeft, SplitRight,
         SplitInsert, SplitFail, JoinRead, JoinWrite, JoinFail, JoinRemove,
         JoinPublish, Crash, Open, readBlock, FilesRead, readBlockLog, Opened, vars,
         histVars
<1> QED
  BY <1>4, <1>5, <1>6, <1>7

\* Routing, splits, joins, crashes and restarts implement DurableStore: no step
\* takes a flushed stream off the disk, and none puts a stream there that no
\* client has sent (ImplementsDurableStore).
THEOREM MapImplementsDurableStore == Spec => ImplementsDurableStore
<1>1. Init => Engine!Init
  <2> SUFFICES ASSUME Init PROVE Engine!Init
    OBVIOUS
  <2>1. OnDisk = {}
    BY DEF Init, OnDisk
  <2> QED
    BY <2>1 DEF Init, Engine!Init
<1>2. MapInv /\ KeptInv /\ [Next]_vars
          => MapInv' /\ KeptInv' /\ [Engine!Next]_(Engine!vars)
  BY MapInvStep, KeptStep, EngineStep
<1> QED
  BY <1>1, <1>2, MapInvInit, KeptInit, PTL
     DEF Spec, ImplementsDurableStore, Engine!Spec

-----------------------------------------------------------------------------
(***************************************************************************)
(* What queries find, as long as the ticker meets no unflushed streams, no *)
(* file operation fails and the process does not restart.                  *)
(***************************************************************************)
Calm == ~raced /\ crashes + errors = 0

\* The names that the block at k holds. Those that splitBlock has taken from it
\* count until the left block is in the map.
NamesOf(k) ==
    KeysOf(Held(blocks[k].id) \cup blocks[k].new) \cup
    (IF tpc = "splitInsert" /\ k \in tick.keys THEN KeysOf(LeftPart) ELSE {})

\* findBlock knows a key from the name n on, and below m.
Apart(n, m) == \E b \in blockKeys : n <= b /\ b < m

\* joinBlocks has written the names of all these blocks to one file.
Joined(k) == tpc = "joinRemove" /\ k \in Busy

\* The names of two blocks are apart, so that none is in both.
RouteInv ==
    \A j, k \in InMap : j # k /\ ~ (Joined(j) /\ Joined(k)) =>
        \A n \in NamesOf(j), m \in NamesOf(k) : n <= m => Apart(n, m)

\* What is on disk belongs to a block in the map, or to the left block of a
\* split that will be put there.
OwnedInv ==
    \A i \in Ids : Held(i) # {} =>
        \/ \E k \in InMap : blocks[k].id = i
        \/ tpc \in {"splitRight", "splitInsert"} /\ i = tick.id

\* The index of a block names all that is in its file, unless joinBlocks has
\* written the file and not yet the index.
IndexInv ==
    \A k \in InMap : \/ tpc = "joinRemove" /\ k = tick.key
                     \/ KeysOf(file[blocks[k].id]) \subseteq blocks[k].index

\* splitBlock works on a block without a log, and leaves it the names right of
\* the split point; joinBlocks works on names that it has read.
WorkInv ==
    /\ tpc \in Splits => \A k \in tick.keys : logf[blocks[k].id] = {}
    /\ tpc = "splitInsert" =>
          \A k \in tick.keys : \A n \in KeysOf(file[blocks[k].id]) : tick.key < n
    /\ tpc = "joinWrite" =>
          \A n \in KeysOf(tick.buf) : \E k \in tick.keys : n \in NamesOf(k)

Found == RouteInv /\ OwnedInv /\ IndexInv /\ WorkInv

\* No rename has left a file behind, so that none can be damaged.
Sound == mode = "up" /\ tmpIds = {} /\ ~damaged /\ ~clash

ServeInv == Calm => Sound /\ Found

\* The names of a block are numbers up to its end key, which is one of them.
LEMMA NamesFacts ==
    ASSUME MapInv, Kept
    PROVE  \A k \in InMap : /\ k \in NamesOf(k) /\ k \in Nat
                            /\ \A n \in NamesOf(k) : n \in Nat /\ n <= k
<1> SUFFICES ASSUME NEW k \in InMap
             PROVE  /\ k \in NamesOf(k) /\ k \in Nat
                    /\ \A n \in NamesOf(k) : n \in Nat /\ n <= k
  OBVIOUS
<1>1. NameOK(k)
  BY DEF Kept, BlockInv
<1> DEFINE S == Held(blocks[k].id) \cup blocks[k].new
<1>2. blocks[k].id \in Ids /\ k \in EndKeys /\ blocks[k].new \subseteq Streams
  BY InMapFacts DEF MapInv
<1>3. k \in Nat /\ Keys \subseteq Nat
  BY <1>2, ConstantsAssumption DEF EndKeys, Keys
<1>4. S \subseteq Streams
  BY <1>2 DEF Held, MapInv, FilePart, LogPart
<1>5. k \in KeysOf(S) /\ \A n \in KeysOf(S) : n <= k
  BY <1>1 DEF NameOK
<1>6. \A n \in KeysOf(S) : n \in Nat
  <2>1. KeysOf(S) \subseteq Keys
    BY <1>4, KeysOfFacts
  <2> QED
    BY <1>3, <2>1
<1>7. ASSUME tpc = "splitInsert", k \in tick.keys, NEW n \in KeysOf(LeftPart)
      PROVE  n \in Nat /\ n <= k
  <2>1. tick.key < k
    BY <1>7 DEF Kept, SplitInv, Splits, SplitOK
  <2>2. PICK s \in LeftPart : n = s[1]
    BY <1>7, KeysOfFacts
  <2>3. s[1] <= tick.key /\ s \in tick.buf
    BY <2>2 DEF LeftPart
  <2>4. tick.buf \subseteq Streams /\ tick.key \in EndKeys
    BY DEF MapInv, TickPart
  <2>5. s[1] \in Keys
    <3>1. s \in Streams
      BY <2>3, <2>4
    <3> QED
      BY <3>1 DEF Streams
  <2>6. tick.key \in Nat
    BY <2>4, ConstantsAssumption DEF EndKeys
  <2>7. n \in Nat
    BY <1>3, <2>2, <2>5
  <2> QED
    BY <1>3, <2>1, <2>2, <2>3, <2>6, <2>7
<1> HIDE DEF S
<1>8. NamesOf(k) = KeysOf(S) \cup (IF tpc = "splitInsert" /\ k \in tick.keys
                                    THEN KeysOf(LeftPart) ELSE {})
  BY DEF NamesOf, S
<1> QED
  BY <1>3, <1>5, <1>6, <1>7, <1>8

\* A step that gives a block no new streams gives it no new names.
LEMMA NamesKept ==
    ASSUME NEW k, tpc' # "splitInsert",
           Held(blocks[k].id)' \cup blocks'[k].new
               \subseteq Held(blocks[k].id) \cup blocks[k].new
    PROVE  NamesOf(k)' \subseteq NamesOf(k)
<1>1. NamesOf(k)' = KeysOf(Held(blocks[k].id)' \cup blocks'[k].new)
  BY DEF NamesOf, KeysOf
<1>2. KeysOf(Held(blocks[k].id) \cup blocks[k].new) \subseteq NamesOf(k)
  BY DEF NamesOf
<1>3. KeysOf(Held(blocks[k].id)' \cup blocks'[k].new)
          \subseteq KeysOf(Held(blocks[k].id) \cup blocks[k].new)
  BY KeysOfFacts
<1> QED
  BY <1>1, <1>2, <1>3

\* A step that gives no block of the map a new name, and that takes no key from
\* findBlock, keeps the blocks apart.
LEMMA RouteKept ==
    ASSUME RouteInv, blockKeys \subseteq blockKeys', InMap' \subseteq InMap,
           \A k \in InMap' : NamesOf(k)' \subseteq NamesOf(k),
           \A j, k \in InMap' : j # k /\ Joined(j) /\ Joined(k)
                                    => Joined(j)' /\ Joined(k)'
    PROVE  RouteInv'
<1>1. \A n, m : Apart(n, m) => Apart(n, m)'
  BY DEF Apart
<1>2. ASSUME NEW j \in InMap', NEW k \in InMap', j # k,
             ~ (Joined(j)' /\ Joined(k)'),
             NEW n \in NamesOf(j)', NEW m \in NamesOf(k)', n <= m
      PROVE  Apart(n, m)'
  <2>1. /\ j \in InMap /\ k \in InMap /\ ~ (Joined(j) /\ Joined(k))
        /\ n \in NamesOf(j) /\ m \in NamesOf(k)
    BY <1>2
  <2>2. Apart(n, m)
    BY <1>2, <2>1 DEF RouteInv
  <2> QED
    BY <1>1, <2>2
<1> QED
  BY <1>2 DEF RouteInv

\* The ticker does not remove blocks before or after this step.
LEMMA NoneJoined ==
    ASSUME tpc # "joinRemove"
    PROVE  \A k : ~ Joined(k)
BY DEF Joined

\* A Writer puts the stream into the only block whose names it lies between, or
\* into a new block above all others.
LEMMA ServeWrite ==
    ASSUME MapInv, MapInv', Kept, Found, ~raced', NEW s \in Streams, Write(s)
    PROVE  Found'
<1> DEFINE above == {k \in blockKeys : k >= s[1]}
           at    == Min(above)
<1>1. UNCHANGED <<tpc, tick, file, logf>>
  BY DEF Write, tickVars, diskVars, fileVars
<1>2. RouteInv /\ OwnedInv /\ IndexInv /\ WorkInv
  BY DEF Found
<1>3. /\ MapPart /\ TickPart /\ nextId \in Nat /\ MapPart'
      /\ InMap \subseteq blockKeys /\ tick.keys \subseteq InMap /\ blockKeys \subseteq Nat
  <2>1. MapPart /\ TickPart /\ nextId \in Nat /\ MapPart'
    BY DEF MapInv, RestPart
  <2>2. InMap \subseteq blockKeys /\ tick.keys \subseteq InMap /\ blockKeys \subseteq EndKeys
    BY <2>1 DEF TickPart
  <2> QED
    BY <2>1, <2>2, ConstantsAssumption DEF EndKeys
<1>4. s[1] \in Nat /\ s[1] \in EndKeys
  BY ConstantsAssumption DEF Streams, Keys, EndKeys
<1>5. \A k \in InMap : /\ k \in NamesOf(k) /\ k \in Nat
                       /\ \A n \in NamesOf(k) : n \in Nat /\ n <= k
  BY NamesFacts
<1>6. (\A k : Joined(k)' <=> Joined(k)) /\ LeftPart' = LeftPart /\ \A i : Held(i)' = Held(i)
  BY <1>1 DEF Joined, Busy, LeftPart, Held
<1>7. ASSUME InMap \subseteq InMap', \A k \in InMap : blocks'[k].id = blocks[k].id,
             \A k \in InMap : NamesOf(k) \subseteq NamesOf(k)'
      PROVE  OwnedInv' /\ WorkInv'
  <2>1. OwnedInv'
    BY <1>1, <1>2, <1>6, <1>7 DEF OwnedInv
  <2>2. \A k \in tick.keys : blocks'[k].id = blocks[k].id
    BY <1>3, <1>7
  <2>3. \A k \in tick.keys : \A n \in NamesOf(k) : n \in NamesOf(k)'
    BY <1>3, <1>7
  <2>4. WorkInv'
    BY <1>1, <1>2, <2>2, <2>3 DEF WorkInv
  <2> QED
    BY <2>1, <2>4
<1>8. CASE /\ above # {}
           /\ at \in InMap
           /\ blocks' = [blocks EXCEPT ![at].new = @ \cup {s}]
           /\ raced' = (raced \/ at \in Busy)
           /\ UNCHANGED <<blockKeys, nextId>>
  <2>1. PICK a \in InMap : a = at
    BY <1>8
  <2>2. a \in above /\ \A b \in above : a <= b
    <3>1. above \in SUBSET Nat
      BY <1>3
    <3> QED
      BY <1>8, <2>1, <3>1, MinFacts
  <2>3. a >= s[1] /\ a \in Nat /\ \A b \in blockKeys : b >= s[1] => a <= b
    BY <1>3, <2>2
  <2>4. ~ Joined(a)
    BY <1>8, <2>1 DEF Joined
  <2> HIDE DEF above, at
  <2>5. /\ InMap' = InMap
        /\ \A k \in InMap : /\ blocks'[k].id = blocks[k].id
                            /\ blocks'[k].index = blocks[k].index
                            /\ k # a => blocks'[k].new = blocks[k].new
        /\ blocks'[a].new = blocks[a].new \cup {s}
    <3>1. blocks[a] \in Block /\ a \in EndKeys /\ DOMAIN blocks = EndKeys
      BY <1>3, InMapFacts DEF MapPart
    <3>2. PICK c : c = [blocks[a] EXCEPT !.new = blocks[a].new \cup {s}]
      OBVIOUS
    <3>3. blocks' = [blocks EXCEPT ![a] = c]
      BY <1>8, <2>1, <3>2
    <3>4. /\ c.id = blocks[a].id /\ c.index = blocks[a].index
          /\ c.new = blocks[a].new \cup {s}
      BY <3>1, <3>2 DEF Block
    <3>5. blocks'[a] = c /\ \A k \in EndKeys : k # a => blocks'[k] = blocks[k]
      BY <3>1, <3>3
    <3>6. c # NoBlock
      <4>1. c.id \in Ids
        BY <1>3, <3>4, InMapFacts
      <4> QED
        BY <4>1, ConstantsAssumption DEF NoBlock, Ids
    <3>7. \A k : k \in InMap <=> k \in EndKeys /\ blocks[k] # NoBlock
      BY DEF InMap
    <3>8. \A k : k \in InMap' <=> k \in EndKeys /\ blocks'[k] # NoBlock
      BY DEF InMap
    <3>9. InMap' = InMap
      <4>1. \A k : k \in InMap' <=> k \in InMap
        BY <3>5, <3>6, <3>7, <3>8
      <4> QED
        BY <4>1
    <3> QED
      BY <3>4, <3>5, <3>7, <3>9
  <2>6. \A k \in InMap : k # a => NamesOf(k)' = NamesOf(k)
    BY <1>1, <1>6, <2>5 DEF NamesOf, Held
  <2>7. NamesOf(a)' = NamesOf(a) \cup {s[1]}
    <3>1. PICK L : L = IF tpc = "splitInsert" /\ a \in tick.keys
                         THEN KeysOf(LeftPart) ELSE {}
      OBVIOUS
    <3>2. NamesOf(a)' = KeysOf(Held(blocks[a].id) \cup (blocks[a].new \cup {s})) \cup L
      BY <1>1, <1>6, <2>5, <3>1 DEF NamesOf, Held
    <3>3. \A S, T : KeysOf(S \cup (T \cup {s})) = KeysOf(S \cup T) \cup {s[1]}
      BY DEF KeysOf
    <3>4. NamesOf(a) = KeysOf(Held(blocks[a].id) \cup blocks[a].new) \cup L
      BY <3>1 DEF NamesOf
    <3>5. KeysOf(Held(blocks[a].id) \cup (blocks[a].new \cup {s}))
              = KeysOf(Held(blocks[a].id) \cup blocks[a].new) \cup {s[1]}
      BY <3>3
    <3> QED
      BY <3>2, <3>4, <3>5
  <2>8. \A n, m : Apart(n, m)' <=> Apart(n, m)
    BY <1>8 DEF Apart
  <2>9. ASSUME NEW j \in InMap, j # a, NEW n \in NamesOf(j), n <= s[1]
        PROVE  Apart(n, s[1])
    <3>1. n \in Nat /\ n <= a /\ a \in NamesOf(a)
      BY <1>4, <1>5, <2>3, <2>9
    <3>2. Apart(n, a)
      BY <1>2, <2>4, <2>9, <3>1 DEF RouteInv
    <3>3. PICK b \in blockKeys : n <= b /\ b < a
      BY <3>2 DEF Apart
    <3>4. b \in Nat
      BY <1>3
    <3>5. b < s[1]
      BY <1>4, <2>3, <3>3, <3>4
    <3> QED
      BY <3>3, <3>5 DEF Apart
  <2>10. ASSUME NEW k \in InMap, k # a, NEW m \in NamesOf(k), s[1] <= m
         PROVE  Apart(s[1], m)
    <3>1. m \in Nat /\ a \in NamesOf(a) /\ a \in blockKeys
      BY <1>3, <1>5
    <3>2. ASSUME m <= a PROVE FALSE
      <4>1. Apart(m, a)
        BY <1>2, <2>4, <2>10, <3>1, <3>2 DEF RouteInv
      <4>2. PICK b \in blockKeys : m <= b /\ b < a
        BY <4>1 DEF Apart
      <4>3. b \in Nat
        BY <1>3
      <4> QED
        BY <1>4, <2>3, <2>10, <3>1, <4>2, <4>3
    <3>3. a < m
      BY <2>3, <3>1, <3>2
    <3> QED
      BY <2>3, <3>1, <3>3 DEF Apart
  <2>11. ASSUME NEW j \in InMap, NEW k \in InMap, j # k, ~ (Joined(j) /\ Joined(k)),
                NEW n \in NamesOf(j)', NEW m \in NamesOf(k)', n <= m
         PROVE  Apart(n, m)
    <3>1. CASE n \in NamesOf(j) /\ m \in NamesOf(k)
      BY <1>2, <2>11, <3>1 DEF RouteInv
    <3>2. CASE n \notin NamesOf(j)
      <4>1. j = a /\ n = s[1] /\ k # a /\ m \in NamesOf(k)
        BY <2>6, <2>7, <2>11, <3>2
      <4> QED
        BY <2>10, <2>11, <4>1
    <3>3. CASE m \notin NamesOf(k)
      <4>1. k = a /\ m = s[1] /\ j # a /\ n \in NamesOf(j)
        BY <2>6, <2>7, <2>11, <3>3
      <4> QED
        BY <2>9, <2>11, <4>1
    <3> QED
      BY <3>1, <3>2, <3>3
  <2>12. RouteInv'
    BY <1>6, <2>5, <2>8, <2>11 DEF RouteInv
  <2>13. IndexInv'
    BY <1>1, <1>2, <2>5 DEF IndexInv
  <2> QED
    BY <1>7, <2>5, <2>6, <2>7, <2>12, <2>13 DEF Found
<1>9. CASE UNCHANGED <<mapVars, nextId, raced>>
  <2>1. UNCHANGED <<blocks, blockKeys>> /\ InMap' = InMap
    BY <1>9 DEF mapVars, InMap
  <2>2. \A k : NamesOf(k)' = NamesOf(k)
    BY <1>1, <1>6, <2>1 DEF NamesOf, Held
  <2>3. RouteInv'
    BY <1>2, <1>6, <2>1, <2>2, RouteKept
  <2>4. IndexInv'
    BY <1>1, <1>2, <2>1 DEF IndexInv
  <2> QED
    BY <1>7, <2>1, <2>2, <2>3, <2>4 DEF Found
<1>10. CASE /\ above = {} /\ nextId \in Ids
            /\ insertBlock(s[1], [newBlock(nextId) EXCEPT !.new = {s}])
  <2>1. PICK c : c = [newBlock(nextId) EXCEPT !.new = {s}]
    OBVIOUS
  <2>2. c.id = nextId /\ c.new = {s} /\ c.index = {}
    BY <2>1 DEF newBlock
  <2>3. \A b \in blockKeys : b < s[1]
    BY <1>3, <1>4, <1>10
  <2>4. s[1] \notin InMap
    BY <1>3, <1>4, <2>3
  <2>5. PICK e \in EndKeys : e = s[1]
    BY <1>4
  <2>6. blocks' = [blocks EXCEPT ![e] = c] /\ blockKeys' = blockKeys \cup {e}
    BY <1>10, <2>1, <2>4, <2>5 DEF insertBlock
  <2>7. blocks'[e] = c /\ \A k \in EndKeys : k # e => blocks'[k] = blocks[k]
    BY <1>3, <2>6 DEF MapPart
  <2>8. InMap' = InMap \cup {e} /\ \A k \in InMap : k # e /\ blocks'[k] = blocks[k]
    <3>1. c # NoBlock
      BY <1>10, <2>2, ConstantsAssumption DEF NoBlock, Ids
    <3>2. \A k : k \in InMap <=> k \in EndKeys /\ blocks[k] # NoBlock
      BY DEF InMap
    <3>3. \A k : k \in InMap' <=> k \in EndKeys /\ blocks'[k] # NoBlock
      BY DEF InMap
    <3>4. \A k : k \in InMap' <=> k \in InMap \cup {e}
      BY <2>7, <3>1, <3>2, <3>3
    <3> QED
      BY <2>4, <2>5, <2>7, <3>2, <3>4
  <2>9. Held(nextId) = {} /\ file[nextId] = {}
    <3>1. nextId \notin 1..(nextId - 1) /\ nextId >= nextId
      BY <1>3
    <3> QED
      BY <1>10, <3>1 DEF Held, MapInv, FilePart, LogPart
  <2>10. NamesOf(e)' = {e}
    <3>1. e \notin tick.keys
      BY <1>3, <2>8
    <3>2. NamesOf(e)' = KeysOf(Held(nextId) \cup {s})
      BY <1>1, <1>6, <2>2, <2>7, <3>1 DEF NamesOf, Held
    <3>3. KeysOf({} \cup {s}) = {s[1]}
      BY DEF KeysOf
    <3> QED
      BY <2>5, <2>9, <3>2, <3>3
  <2>11. \A k \in InMap : NamesOf(k)' = NamesOf(k)
    BY <1>1, <1>6, <2>8 DEF NamesOf, Held
  <2>12. \A n, m : Apart(n, m) => Apart(n, m)'
    BY <2>6 DEF Apart
  <2>13. ASSUME NEW j \in InMap', NEW k \in InMap', j # k, ~ (Joined(j)' /\ Joined(k)'),
                NEW n \in NamesOf(j)', NEW m \in NamesOf(k)', n <= m
         PROVE  Apart(n, m)'
    <3>1. CASE j # e /\ k # e
      <4>1. j \in InMap /\ k \in InMap /\ n \in NamesOf(j) /\ m \in NamesOf(k)
        BY <2>8, <2>11, <2>13, <3>1
      <4>2. Apart(n, m)
        BY <1>2, <1>6, <2>13, <4>1 DEF RouteInv
      <4> QED
        BY <2>12, <4>2
    <3>2. CASE j = e
      <4>1. k \in InMap /\ m \in NamesOf(k) /\ n = s[1]
        BY <2>5, <2>8, <2>10, <2>11, <2>13, <3>2
      <4>2. m <= k /\ k < s[1] /\ m \in Nat /\ k \in Nat
        BY <1>3, <1>5, <2>3, <4>1
      <4> QED
        BY <1>4, <2>13, <4>1, <4>2
    <3>3. CASE k = e
      <4>1. j \in InMap /\ n \in NamesOf(j) /\ m = s[1]
        BY <2>5, <2>8, <2>10, <2>11, <2>13, <3>3
      <4>2. j \in blockKeys /\ n <= j /\ j < s[1]
        BY <1>3, <1>5, <2>3, <4>1
      <4>3. Apart(n, m)
        BY <4>1, <4>2 DEF Apart
      <4> QED
        BY <2>12, <4>3
    <3> QED
      BY <3>1, <3>2, <3>3
  <2>14. RouteInv'
    BY <2>13 DEF RouteInv
  <2>15. IndexInv'
    <3>1. KeysOf(file'[blocks'[e].id]) \subseteq blocks'[e].index
      BY <1>1, <2>2, <2>7, <2>9, KeysOfFacts
    <3>2. \A k \in InMap : blocks'[k] = blocks[k]
      BY <2>8
    <3> QED
      BY <1>1, <1>2, <2>8, <3>1, <3>2 DEF IndexInv
  <2> QED
    BY <1>7, <2>8, <2>11, <2>14, <2>15 DEF Found
<1> QED
  BY <1>8, <1>9, <1>10 DEF Write

\* A step after which every block has its id, and no new names, while nothing is
\* removed: the blocks stay apart, and what is on disk stays theirs.
LEMMA ServeSame ==
    ASSUME RouteInv, OwnedInv, InMap' = InMap, blockKeys' = blockKeys,
           \A k \in InMap : blocks'[k].id = blocks[k].id,
           \A k \in InMap : NamesOf(k)' \subseteq NamesOf(k),
           tpc # "joinRemove",
           \A i \in Ids : Held(i)' # {} => \/ Held(i) # {}
                                           \/ \E k \in InMap : blocks[k].id = i
                                           \/ tpc' = "splitRight" /\ i = tick'.id,
           tpc \in {"splitRight", "splitInsert"} => tpc' = "splitInsert" /\ tick' = tick
    PROVE  RouteInv' /\ OwnedInv'
<1>1. RouteInv'
  BY NoneJoined, RouteKept
<1>2. ASSUME NEW i \in Ids, Held(i)' # {}, ~ \E k \in InMap' : blocks'[k].id = i
      PROVE  tpc' \in {"splitRight", "splitInsert"} /\ i = tick'.id
  <2>1. ~ \E k \in InMap : blocks[k].id = i
    BY <1>2
  <2>2. CASE tpc' = "splitRight" /\ i = tick'.id
    BY <2>2
  <2>3. CASE Held(i) # {}
    BY <2>1, <2>3 DEF OwnedInv
  <2> QED
    BY <1>2, <2>1, <2>2, <2>3
<1> QED
  BY <1>1, <1>2 DEF OwnedInv

\* Flush moves the unflushed streams of a block to its log: its names stay.
LEMMA ServeFlush ==
    ASSUME MapInv, Kept, Found, Flush
    PROVE  Found'
<1>1. /\ tpc \notin {"splitRight", "splitInsert"}
      /\ UNCHANGED <<blockKeys, tpc, tick, file>>
  BY DEF Flush, tickVars, fileVars
<1>2. RouteInv /\ OwnedInv /\ IndexInv /\ WorkInv /\ OwnerInv /\ QuietInv
  BY DEF Found, Kept
<1>3. /\ InMap' = InMap
      /\ \A k \in InMap : /\ blocks[k].id \in Ids
                          /\ blocks'[k].id = blocks[k].id
                          /\ blocks'[k].index = blocks[k].index
                          /\ blocks'[k].new = {}
      /\ \A k \in InMap : logf'[blocks[k].id] = logf[blocks[k].id] \cup blocks[k].new
      /\ \A i \in Ids : (\A k \in InMap : blocks[k].id # i) => logf'[i] = logf[i]
  BY <1>2, FlushFacts
<1>4. ASSUME NEW k \in InMap
      PROVE  Held(blocks[k].id)' \cup blocks'[k].new = Held(blocks[k].id) \cup blocks[k].new
  BY <1>1, <1>3 DEF Held
<1>5. \A k \in InMap : NamesOf(k)' = NamesOf(k)
  BY <1>1, <1>4 DEF NamesOf
<1>6. ASSUME NEW i \in Ids, Held(i)' # {}, ~ \E k \in InMap : blocks[k].id = i
      PROVE  Held(i) # {}
  BY <1>1, <1>3, <1>6 DEF Held
<1>7. RouteInv' /\ OwnedInv'
  <2>1. CASE tpc = "joinRemove"
    <3>1. \A k : Joined(k)' <=> Joined(k)
      BY <1>1 DEF Joined, Busy
    <3>2. RouteInv'
      BY <1>1, <1>2, <1>3, <1>5, <3>1, RouteKept
    <3>3. OwnedInv'
      BY <1>1, <1>2, <1>3, <1>6 DEF OwnedInv
    <3> QED
      BY <3>2, <3>3
  <2>2. CASE tpc # "joinRemove"
    BY <1>1, <1>2, <1>3, <1>5, <1>6, <2>2, ServeSame
  <2> QED
    BY <2>1, <2>2
<1>8. IndexInv'
  BY <1>1, <1>2, <1>3 DEF IndexInv
<1>9. tick.keys \subseteq InMap
  BY DEF MapInv, TickPart
<1>10. WorkInv'
  <2>1. \A k \in tick.keys : logf[blocks[k].id] = {} => logf'[blocks'[k].id] = {}
    BY <1>2, <1>3, <1>9 DEF QuietInv, Busy
  <2>2. \A k \in tick.keys : NamesOf(k)' = NamesOf(k)
    BY <1>5, <1>9
  <2> QED
    BY <1>1, <1>2, <2>1, <2>2 DEF WorkInv
<1> QED
  BY <1>7, <1>8, <1>10 DEF Found

\* A compaction leaves a block its names, an index of its file and an empty log.
LEMMA ServeCompacted ==
    ASSUME MapInv, MapInv', Kept, Found, ~damaged', mode = "up", tpc = "idle",
           UNCHANGED <<mode, pending, blockKeys>>,
           tpc' \in {"idle", "splitRead"},
           NEW k \in InMap, blocks[k].new = {}, compactBlock(k)
    PROVE  /\ RouteInv' /\ OwnedInv' /\ IndexInv'
           /\ logf'[blocks'[k].id] = {}
<1>1. RouteInv /\ OwnedInv /\ IndexInv
  BY DEF Found
<1>2. MapPart /\ FilePart /\ LogPart
  BY DEF MapInv
<1>3. PICK i \in Ids : i = blocks[k].id
  BY <1>2, InMapFacts
<1>4. /\ InMap' = InMap
      /\ \A j \in InMap : blocks'[j].id = blocks[j].id /\ blocks'[j].new = blocks[j].new
      /\ \A j \in Ids : Held(j)' = Held(j)
  BY KeptCompacted
<1>5. \A j \in InMap : NamesOf(j)' \subseteq NamesOf(j)
  <2> SUFFICES ASSUME NEW j \in InMap PROVE NamesOf(j)' \subseteq NamesOf(j)
    OBVIOUS
  <2>1. blocks[j].id \in Ids
    BY <1>2, InMapFacts
  <2>2. Held(blocks[j].id)' = Held(blocks[j].id)
    BY <1>4, <2>1 DEF Held
  <2> QED
    BY <1>4, <2>2, NamesKept
<1>6. RouteInv' /\ OwnedInv'
  BY <1>1, <1>4, <1>5, ServeSame
<1>7. WriteFile(i, Read(k)) /\ logf' = [logf EXCEPT ![i] = {}]
  BY <1>3 DEF compactBlock
<1>8. logf'[i] = {}
  BY <1>2, <1>7 DEF LogPart
<1>9. /\ file'[i] = Read(k)
      /\ \A j \in Ids : j # i => file'[j] = file[j]
  BY <1>7, CleanWrite
<1>10. blocks'[k].index = KeysOf(Read(k)) /\ \A j \in InMap : j # k => blocks'[j] = blocks[j]
  <2>1. PICK X : X = KeysOf(Read(k))
    OBVIOUS
  <2> DEFINE b == blocks[k]
             c == [id |-> b.id, index |-> X, log |-> {}, new |-> b.new]
  <2>2. blocks' = [blocks EXCEPT ![k] = c]
    BY <1>2, <2>1, BlockUpdates DEF compactBlock
  <2>3. c.index = X
    OBVIOUS
  <2>4. k \in EndKeys /\ InMap \subseteq EndKeys /\ DOMAIN blocks = EndKeys
    BY <1>2 DEF InMap, MapPart
  <2> HIDE DEF c
  <2> QED
    BY <2>1, <2>2, <2>3, <2>4
<1>11. ASSUME NEW j \in InMap
       PROVE  KeysOf(file'[blocks'[j].id]) \subseteq blocks'[j].index
  <2>1. CASE j = k
    BY <1>3, <1>4, <1>9, <1>10, <2>1
  <2>2. CASE j # k
    <3>1. blocks[j].id \in Ids /\ blocks[j].id # i
      BY <1>2, <1>3, <2>2, InMapFacts DEF Kept, OwnerInv
    <3>2. file'[blocks'[j].id] = file[blocks[j].id] /\ blocks'[j].index = blocks[j].index
      BY <1>4, <1>9, <1>10, <2>2, <3>1
    <3> QED
      BY <1>1, <3>2 DEF IndexInv
  <2> QED
    BY <2>1, <2>2
<1>12. IndexInv'
  BY <1>4, <1>11 DEF IndexInv
<1> QED
  BY <1>3, <1>4, <1>6, <1>8, <1>12

\* A compaction between two ticks.
LEMMA ServeCompact ==
    ASSUME MapInv, MapInv', Kept, Found, Clean', errors' = errors,
           NEW k \in EndKeys, Compact(k)
    PROVE  Found'
<1>1. /\ mode = "up" /\ tpc = "idle" /\ k \in InMap /\ blocks[k].new = {}
      /\ UNCHANGED <<mode, tpc, pending, blockKeys>>
      /\ compactBlock(k) \/ compactBlockFails(k)
  BY DEF Compact, Clean, tickVars
<1>2. errors \in Nat
  BY ConstantsAssumption DEF MapInv, RestPart
<1>3. compactBlock(k)
  BY <1>1, <1>2 DEF compactBlockFails, WriteFails, IOError
<1>4. RouteInv' /\ OwnedInv' /\ IndexInv'
  BY <1>1, <1>3, ServeCompacted DEF Clean
<1>5. WorkInv'
  BY <1>1 DEF WorkInv, Splits
<1> QED
  BY <1>4, <1>5 DEF Found

\* splitBlock compacts the block it splits.
LEMMA ServeSplitCompact ==
    ASSUME MapInv, MapInv', Kept, Found, Clean', errors' = errors,
           NEW k \in EndKeys, SplitCompact(k)
    PROVE  Found'
<1>1. /\ mode = "up" /\ tpc = "idle" /\ k \in InMap /\ blocks[k].new = {}
      /\ tpc' = "splitRead" /\ tick'.keys = {k}
      /\ UNCHANGED <<mode, pending, blockKeys>>
      /\ compactBlock(k) \/ compactBlockFails(k) \/ IOError
  BY DEF SplitCompact, Clean, NoTick
<1>2. errors \in Nat
  BY ConstantsAssumption DEF MapInv, RestPart
<1>3. compactBlock(k)
  BY <1>1, <1>2 DEF compactBlockFails, WriteFails, IOError
<1>4. RouteInv' /\ OwnedInv' /\ IndexInv' /\ logf'[blocks'[k].id] = {}
  BY <1>1, <1>3, ServeCompacted DEF Clean
<1>5. WorkInv'
  BY <1>1, <1>4 DEF WorkInv
<1> QED
  BY <1>4, <1>5 DEF Found

\* splitBlock reads the block.
LEMMA ServeSplitRead ==
    ASSUME MapInv, Kept, Found, SplitRead
    PROVE  Found'
<1>1. /\ tpc = "splitRead" /\ tpc' = "splitLeft" /\ tick'.keys = tick.keys
      /\ UNCHANGED <<blocks, blockKeys, file, logf>>
  BY DEF SplitRead, mapVars, diskVars, fileVars, MapInv, TickPart
<1>2. RouteInv /\ OwnedInv /\ IndexInv /\ WorkInv
  BY DEF Found
<1>3. InMap' = InMap /\ \A i : Held(i)' = Held(i)
  BY <1>1 DEF InMap, Held
<1>4. \A k : Held(blocks[k].id)' = Held(blocks[k].id)
  BY <1>1 DEF Held
<1>5. \A k : NamesOf(k)' \subseteq NamesOf(k)
  BY <1>1, <1>4, NamesKept
<1>6. RouteInv' /\ OwnedInv'
  BY <1>1, <1>2, <1>3, <1>5, ServeSame
<1>7. IndexInv' /\ WorkInv'
  BY <1>1, <1>2, <1>3 DEF IndexInv, WorkInv, Splits
<1> QED
  BY <1>6, <1>7 DEF Found

\* splitBlock writes the left file, whose id no block of the map has.
LEMMA ServeSplitLeft ==
    ASSUME MapInv, Kept, Found, ~damaged', SplitLeft
    PROVE  Found'
<1>1. /\ tpc = "splitLeft" /\ tpc' = "splitRight" /\ WriteFile(tick.id, LeftPart)
      /\ UNCHANGED <<blocks, blockKeys, tick, logf>>
  BY DEF SplitLeft, mapVars
<1>2. PICK t \in Ids : t = tick.id /\ \A j \in InMap : blocks[j].id # t
  BY <1>1, Splitting DEF Splits
<1>3. \A j \in Ids : j # t => file'[j] = file[j]
  BY <1>1, <1>2, CleanWrite
<1>4. RouteInv /\ OwnedInv /\ IndexInv /\ WorkInv
  BY DEF Found
<1>5. InMap' = InMap /\ \A i \in Ids : i # t => Held(i)' = Held(i)
  BY <1>1, <1>3 DEF InMap, Held
<1>6. \A k \in InMap : blocks[k].id \in Ids /\ blocks[k].id # t
  BY <1>2, InMapFacts DEF MapInv
<1>7. \A k \in InMap : Held(blocks[k].id)' = Held(blocks[k].id)
  BY <1>1, <1>3, <1>6 DEF Held
<1>8. \A k \in InMap : NamesOf(k)' \subseteq NamesOf(k)
  BY <1>1, <1>7, NamesKept
<1>9. RouteInv' /\ OwnedInv'
  BY <1>1, <1>2, <1>4, <1>5, <1>8, ServeSame
<1>10. IndexInv'
  BY <1>1, <1>3, <1>4, <1>5, <1>6 DEF IndexInv
<1>11. WorkInv'
  BY <1>1, <1>4 DEF WorkInv, Splits
<1> QED
  BY <1>9, <1>10, <1>11 DEF Found

\* splitBlock leaves the block what is right of the split point; the names on the
\* left count as its own until the left block is in the map.
LEMMA ServeSplitRight ==
    ASSUME MapInv, Kept, Found, ~damaged', SplitRight
    PROVE  Found'
<1>1. tpc = "splitRight"
  BY DEF SplitRight
<1>2. PICK k \in InMap, i \in Ids :
              /\ tick.keys = {k} /\ Max(tick.keys) = k /\ k \in EndKeys
              /\ i = blocks[k].id /\ tick.key \in Nat
              /\ blocks[k].new = {} /\ SplitOK(k)
  BY <1>1, Splitting DEF Splits
<1>3. /\ tpc' = "splitInsert" /\ WriteFile(i, RightPart)
      /\ blocks' = [blocks EXCEPT ![k].index = KeysOf(RightPart)]
      /\ UNCHANGED <<blockKeys, tick, logf>>
  BY <1>2 DEF SplitRight
<1>4. RouteInv /\ OwnedInv /\ IndexInv /\ WorkInv
  BY DEF Found
<1>5. file'[i] = RightPart /\ \A j \in Ids : j # i => file'[j] = file[j]
  BY <1>2, <1>3, CleanWrite
<1>6. /\ blocks'[k].id = i /\ blocks'[k].new = {} /\ blocks'[k].index = KeysOf(RightPart)
      /\ \A j \in InMap : j # k => blocks'[j] = blocks[j]
      /\ InMap' = InMap
  <2>1. PICK X : X = KeysOf(RightPart)
    OBVIOUS
  <2> DEFINE b == blocks[k]
             c == [id |-> b.id, index |-> X, log |-> b.log, new |-> b.new]
  <2>2. blocks' = [blocks EXCEPT ![k] = c]
    BY <1>2, <1>3, <2>1, BlockUpdates DEF MapInv
  <2>3. c.id = i /\ c.new = {} /\ c.index = X
    BY <1>2
  <2> HIDE DEF c
  <2>4. blocks'[k] = c /\ \A j \in EndKeys : j # k => blocks'[j] = blocks[j]
    BY <1>2, <2>2 DEF MapInv, MapPart
  <2>5. c # NoBlock
    BY <2>3, ConstantsAssumption DEF NoBlock, Ids
  <2>6. \A j : j \in InMap' <=> j \in EndKeys /\ blocks'[j] # NoBlock
    BY DEF InMap
  <2>7. \A j : j \in InMap <=> j \in EndKeys /\ blocks[j] # NoBlock
    BY DEF InMap
  <2>8. \A j : j \in InMap' <=> j \in InMap
    BY <1>2, <2>4, <2>5, <2>6, <2>7
  <2> QED
    BY <2>1, <2>3, <2>4, <2>7, <2>8
<1>7. /\ tick.buf = Held(i) /\ logf[i] = {}
      /\ LeftPart \subseteq Held(i) /\ RightPart \subseteq Held(i)
  <2>1. tick.buf = Held(i)
    BY <1>1, <1>2 DEF SplitOK
  <2> QED
    BY <1>1, <1>2, <1>4, <2>1 DEF WorkInv, Splits, LeftPart, RightPart
<1>8. Held(i)' = RightPart /\ LeftPart' = LeftPart
  BY <1>3, <1>5, <1>7 DEF Held, LeftPart
<1>9. \A j \in InMap : j # k => blocks[j].id \in Ids /\ blocks[j].id # i
  BY <1>2, InMapFacts DEF MapInv, Kept, OwnerInv
<1>10. NamesOf(k)' \subseteq NamesOf(k)
  <2>1. Held(blocks[k].id)' \cup blocks'[k].new = RightPart
    BY <1>6, <1>8 DEF Held
  <2>2. NamesOf(k)' = KeysOf(RightPart) \cup KeysOf(LeftPart)
    BY <1>2, <1>3, <1>8, <2>1 DEF NamesOf
  <2>3. KeysOf(RightPart) \subseteq KeysOf(Held(i)) /\ KeysOf(LeftPart) \subseteq KeysOf(Held(i))
    BY <1>7, KeysOfFacts
  <2>4. KeysOf(Held(i)) \subseteq NamesOf(k)
    BY <1>2 DEF NamesOf, KeysOf
  <2> QED
    BY <2>2, <2>3, <2>4
<1>11. ASSUME NEW j \in InMap, j # k
       PROVE  NamesOf(j)' \subseteq NamesOf(j)
  <2>1. Held(blocks[j].id)' \cup blocks'[j].new = Held(blocks[j].id) \cup blocks[j].new
    BY <1>3, <1>5, <1>6, <1>9, <1>11 DEF Held
  <2>2. j \notin tick'.keys
    BY <1>2, <1>3, <1>11
  <2> QED
    BY <2>1, <2>2 DEF NamesOf
<1>12. RouteInv' /\ OwnedInv'
  <2>1. \A j \in InMap : blocks'[j].id = blocks[j].id
    BY <1>2, <1>6
  <2>2. \A j \in Ids : Held(j)' # {} => Held(j) # {} \/ \E m \in InMap : blocks[m].id = j
    BY <1>2, <1>3, <1>5 DEF Held
  <2> QED
    BY <1>1, <1>3, <1>4, <1>6, <1>10, <1>11, <2>1, <2>2, ServeSame
<1>13. IndexInv'
  <2>1. KeysOf(file'[blocks'[k].id]) = blocks'[k].index
    BY <1>5, <1>6
  <2>2. \A j \in InMap : j # k => /\ file'[blocks'[j].id] = file[blocks[j].id]
                                  /\ blocks'[j].index = blocks[j].index
    BY <1>5, <1>6, <1>9
  <2> QED
    BY <1>1, <1>4, <1>6, <2>1, <2>2 DEF IndexInv
<1>14. \A n \in KeysOf(RightPart) : tick.key < n
  <2> SUFFICES ASSUME NEW n \in KeysOf(RightPart) PROVE tick.key < n
    OBVIOUS
  <2>1. PICK s \in RightPart : n = s[1]
    BY KeysOfFacts
  <2>2. ~ (s[1] <= tick.key) /\ s \in tick.buf /\ tick.buf \subseteq Streams
    BY <2>1 DEF RightPart, LeftPart, MapInv, TickPart
  <2>3. s[1] \in Nat
    BY <2>2 DEF Streams, Keys
  <2> QED
    BY <1>2, <2>1, <2>2, <2>3
<1>15. WorkInv'
  BY <1>2, <1>3, <1>5, <1>6, <1>7, <1>14 DEF WorkInv, Splits
<1> QED
  BY <1>12, <1>13, <1>15 DEF Found

\* The left block takes over the names that splitBlock has taken from the right
\* one; its end key separates them.
LEMMA ServeSplitInsert ==
    ASSUME MapInv, Kept, Found, SplitInsert
    PROVE  Found'
<1>1. tpc = "splitInsert"
  BY DEF SplitInsert
<1>2. PICK k \in InMap, i \in Ids, t \in Ids :
              /\ tick.keys = {k} /\ k \in EndKeys /\ k \in Nat
              /\ i = blocks[k].id /\ t = tick.id /\ i # t
              /\ tick.key \in Nat /\ tick.key < k
              /\ blocks[k].new = {} /\ SplitOK(k)
              /\ logf[t] = {}
  BY <1>1, Splitting DEF Splits
<1>3. RouteInv /\ OwnedInv /\ IndexInv /\ WorkInv
  BY DEF Found
<1>4. PICK X : X = KeysOf(LeftPart)
  OBVIOUS
<1>5. PICK e \in EndKeys : e = tick.key
  BY DEF MapInv, TickPart
<1>6. file[t] = LeftPart /\ e \in X
  BY <1>1, <1>2, <1>4, <1>5 DEF SplitOK
<1>7. \A j \in InMap : /\ j \in NamesOf(j) /\ j \in Nat
                       /\ \A n \in NamesOf(j) : n \in Nat /\ n <= j
  BY NamesFacts
<1>8. X \subseteq NamesOf(k) /\ KeysOf(file[i]) \subseteq NamesOf(k)
  <2>1. KeysOf(file[i]) \subseteq KeysOf(Held(blocks[k].id) \cup blocks[k].new)
    BY <1>2, KeysOfFacts DEF Held
  <2> QED
    BY <1>1, <1>2, <1>4, <2>1 DEF NamesOf
<1>9. \A n \in X : n <= e
  <2>1. \A r \in LeftPart : r[1] <= e
    BY <1>5 DEF LeftPart
  <2> QED
    BY <1>4, <2>1, KeysOfFacts
<1>10. logf[i] = {} /\ \A n \in KeysOf(file[i]) : e < n
  BY <1>1, <1>2, <1>3, <1>5 DEF WorkInv, Splits
<1>11. \A j : ~ Joined(j)
  BY <1>1, NoneJoined
<1>12. e \notin InMap
  <2>1. SUFFICES ASSUME e \in InMap PROVE FALSE
    OBVIOUS
  <2>2. e \in NamesOf(e) /\ e \in NamesOf(k) /\ e # k /\ e \in Nat /\ e <= e
    BY <1>2, <1>5, <1>6, <1>7, <1>8, <2>1
  <2>3. Apart(e, e)
    BY <1>3, <1>11, <2>1, <2>2 DEF RouteInv
  <2>4. PICK b \in blockKeys : e <= b /\ b < e
    BY <2>3 DEF Apart
  <2>5. b \in Nat
    BY ConstantsAssumption DEF MapInv, TickPart, EndKeys
  <2> QED
    BY <2>2, <2>4, <2>5
<1> DEFINE c == [id |-> t, index |-> X, log |-> {}, new |-> {}]
<1>13. /\ tpc' = "idle" /\ tick' = NoTick
       /\ blocks' = [blocks EXCEPT ![e] = c]
       /\ blockKeys' = blockKeys \cup {e}
       /\ UNCHANGED <<file, logf>>
  <2>1. [newBlock(t) EXCEPT !.index = X] = c
    BY DEF newBlock
  <2> HIDE DEF c
  <2> QED
    BY <1>2, <1>4, <1>5, <1>12, <2>1 DEF SplitInsert, insertBlock, diskVars, fileVars
<1>14. c.id = t /\ c.index = X /\ c.new = {}
  OBVIOUS
<1> HIDE DEF c
<1>15. blocks'[e] = c /\ \A j \in EndKeys : j # e => blocks'[j] = blocks[j]
  BY <1>13 DEF MapInv, MapPart
<1>16. InMap' = InMap \cup {e} /\ \A j \in InMap : j # e /\ blocks'[j] = blocks[j]
  <2>1. c # NoBlock
    BY <1>14, ConstantsAssumption DEF NoBlock, Ids
  <2>2. \A j : j \in InMap' <=> j \in EndKeys /\ blocks'[j] # NoBlock
    BY DEF InMap
  <2>3. \A j : j \in InMap <=> j \in EndKeys /\ blocks[j] # NoBlock
    BY DEF InMap
  <2>4. \A j : j \in InMap' <=> j \in InMap \cup {e}
    BY <1>15, <2>1, <2>2, <2>3
  <2> QED
    BY <1>12, <1>15, <2>3, <2>4
<1>17. NamesOf(e)' = X
  <2>1. Held(blocks[e].id)' \cup blocks'[e].new = LeftPart
    BY <1>2, <1>6, <1>13, <1>14, <1>15 DEF Held
  <2> QED
    BY <1>4, <1>13, <2>1 DEF NamesOf, KeysOf
<1>18. NamesOf(k)' = KeysOf(file[i])
  <2>1. Held(blocks[k].id)' \cup blocks'[k].new = file[i]
    BY <1>2, <1>10, <1>13, <1>16 DEF Held
  <2> QED
    BY <1>13, <2>1 DEF NamesOf, KeysOf
<1>19. \A j \in InMap : NamesOf(j)' \subseteq NamesOf(j)
  <2> SUFFICES ASSUME NEW j \in InMap PROVE NamesOf(j)' \subseteq NamesOf(j)
    OBVIOUS
  <2>1. Held(blocks[j].id)' \cup blocks'[j].new = Held(blocks[j].id) \cup blocks[j].new
    BY <1>13, <1>16 DEF Held
  <2> QED
    BY <1>13, <2>1, NamesKept
<1>20. \A n, m : Apart(n, m) => Apart(n, m)'
  BY <1>13 DEF Apart
<1>21. \A n \in X : n \in Nat
  BY <1>7, <1>8
<1>22. ASSUME NEW j \in InMap, j # k, NEW n \in NamesOf(j), NEW m \in NamesOf(k)
       PROVE  (n <= m => Apart(n, m)') /\ (m <= n => Apart(m, n)')
  BY <1>3, <1>11, <1>20, <1>22 DEF RouteInv
<1>23. ASSUME NEW n \in X, NEW m \in KeysOf(file[i])
       PROVE  Apart(n, m)' /\ ~ (m <= n)
  <2>1. n <= e /\ e < m /\ n \in Nat /\ m \in Nat /\ e \in Nat
    BY <1>2, <1>5, <1>7, <1>8, <1>9, <1>10, <1>21
  <2>2. e \in blockKeys'
    BY <1>13
  <2> QED
    BY <2>1, <2>2 DEF Apart
<1>24. ASSUME NEW j \in InMap', NEW l \in InMap', j # l,
              NEW n \in NamesOf(j)', NEW m \in NamesOf(l)', n <= m
       PROVE  Apart(n, m)'
  <2>1. CASE j # e /\ l # e
    <3>1. j \in InMap /\ l \in InMap /\ n \in NamesOf(j) /\ m \in NamesOf(l)
      BY <1>16, <1>19, <1>24, <2>1
    <3>2. Apart(n, m)
      BY <1>3, <1>11, <1>24, <3>1 DEF RouteInv
    <3> QED
      BY <1>20, <3>2
  <2>2. CASE j = e /\ l = k
    BY <1>17, <1>18, <1>23, <1>24, <2>2
  <2>3. CASE j = k /\ l = e
    BY <1>17, <1>18, <1>23, <1>24, <2>3
  <2>4. CASE j = e /\ l # k
    <3>1. l \in InMap /\ n \in NamesOf(k) /\ m \in NamesOf(l)
      BY <1>8, <1>16, <1>17, <1>19, <1>24, <2>4
    <3> QED
      BY <1>22, <1>24, <2>4, <3>1
  <2>5. CASE l = e /\ j # k
    <3>1. j \in InMap /\ m \in NamesOf(k) /\ n \in NamesOf(j)
      BY <1>8, <1>16, <1>17, <1>19, <1>24, <2>5
    <3> QED
      BY <1>22, <1>24, <2>5, <3>1
  <2> QED
    BY <2>1, <2>2, <2>3, <2>4, <2>5
<1>25. RouteInv'
  BY <1>24 DEF RouteInv
<1>26. OwnedInv'
  <2> SUFFICES ASSUME NEW j \in Ids, Held(j)' # {}
               PROVE  \E l \in InMap' : blocks'[l].id = j
    BY DEF OwnedInv
  <2>1. Held(j) # {}
    BY <1>13 DEF Held
  <2>2. CASE j = t
    BY <1>14, <1>15, <1>16, <2>2
  <2>3. CASE j # t
    <3>1. PICK l \in InMap : blocks[l].id = j
      BY <1>2, <1>3, <2>1, <2>3 DEF OwnedInv
    <3> QED
      BY <1>16, <3>1
  <2> QED
    BY <2>2, <2>3
<1>27. IndexInv'
  <2>1. KeysOf(file'[blocks'[e].id]) = blocks'[e].index
    BY <1>4, <1>6, <1>13, <1>14, <1>15
  <2>2. \A j \in InMap : blocks'[j] = blocks[j]
    BY <1>16
  <2> QED
    BY <1>1, <1>3, <1>13, <1>16, <2>1, <2>2 DEF IndexInv
<1>28. WorkInv'
  BY <1>13 DEF WorkInv, Splits
<1> QED
  BY <1>25, <1>26, <1>27, <1>28 DEF Found

\* joinBlocks reads the blocks: what it has read has names of these blocks.
LEMMA ServeJoinRead ==
    ASSUME MapInv, Kept, Found, ~raced', JoinRead
    PROVE  Found'
<1> DEFINE keys == Joinable[MaxKey].keys
           buf == UNION {Read(k) : k \in keys}
<1>1. /\ mode = "up" /\ tpc = "idle" /\ tpc' = "joinWrite"
      /\ tick'.keys = keys /\ tick'.buf = buf
      /\ UNCHANGED <<blocks, blockKeys, file, logf>>
  BY DEF JoinRead, mapVars, diskVars, fileVars
<1>2. keys \subseteq InMap
  BY JoinableFacts
<1> HIDE DEF keys
<1>3. RouteInv /\ OwnedInv /\ IndexInv /\ WorkInv
  BY DEF Found
<1>4. InMap' = InMap /\ \A i : Held(i)' = Held(i)
  BY <1>1 DEF InMap, Held
<1>5. \A k : Held(blocks[k].id)' = Held(blocks[k].id)
  BY <1>1 DEF Held
<1>6. \A k : NamesOf(k)' \subseteq NamesOf(k)
  BY <1>1, <1>5, NamesKept
<1>7. RouteInv' /\ OwnedInv'
  BY <1>1, <1>3, <1>4, <1>6, ServeSame
<1>8. ASSUME NEW n \in KeysOf(buf)
      PROVE  \E k \in keys : n \in NamesOf(k)'
  <2>1. PICK s \in buf : n = s[1]
    BY KeysOfFacts
  <2>2. PICK k \in keys : s \in Read(k)
    BY <2>1
  <2>3. LogOK(k)
    BY <1>2 DEF Kept, BlockInv
  <2>4. s \in Held(blocks[k].id)' \cup blocks'[k].new
    BY <1>1, <1>5, <2>2, <2>3 DEF LogOK, Read, Held
  <2>5. n \in KeysOf(Held(blocks[k].id)' \cup blocks'[k].new)
    BY <2>1, <2>4, KeysOfFacts
  <2>6. n \in NamesOf(k)'
    BY <2>5 DEF NamesOf, KeysOf
  <2> QED
    BY <2>6
<1> HIDE DEF buf
<1>9. IndexInv'
  BY <1>1, <1>3, <1>4 DEF IndexInv
<1>10. WorkInv'
  BY <1>1, <1>8 DEF WorkInv, Splits
<1> QED
  BY <1>7, <1>9, <1>10 DEF Found

\* joinBlocks gives the last block the names of all that it has read.
LEMMA ServeJoinWrite ==
    ASSUME MapInv, Kept, Found, ~damaged', JoinWrite
    PROVE  Found'
<1>1. /\ tpc = "joinWrite" /\ tpc' = "joinRemove" /\ WriteFile(tick.id, tick.buf)
      /\ UNCHANGED <<blocks, blockKeys, tick, logf>>
  BY DEF JoinWrite, mapVars
<1>2. PICK e \in InMap, t \in Ids :
              /\ e = tick.key /\ t = tick.id /\ blocks[e].id = t
              /\ tick.keys \subseteq InMap /\ JoinOK
              /\ \A j \in InMap : j # e => blocks[j].id # t /\ blocks[j].id \in Ids
  BY <1>1, Joining DEF Joins
<1>3. PICK buf : buf = tick.buf
  OBVIOUS
<1>4. file'[t] = buf /\ \A j \in Ids : j # t => file'[j] = file[j]
  BY <1>1, <1>2, <1>3, CleanWrite
<1>5. RouteInv /\ OwnedInv /\ IndexInv /\ WorkInv
  BY DEF Found
<1>6. e \in tick.keys /\ Held(t) \subseteq buf /\ blocks[e].new = {}
  <2>1. e \in tick.keys
    BY <1>1, <1>2 DEF JoinOK
  <2> QED
    BY <1>2, <1>3, <2>1 DEF JoinOK, Kept, QuietInv, Busy
<1>7. InMap' = InMap /\ \A j \in Ids : j # t => Held(j)' = Held(j)
  BY <1>1, <1>4 DEF InMap, Held
<1>8. \A j \in InMap : j # e => NamesOf(j)' \subseteq NamesOf(j)
  <2> SUFFICES ASSUME NEW j \in InMap, j # e PROVE NamesOf(j)' \subseteq NamesOf(j)
    OBVIOUS
  <2>1. Held(blocks[j].id)' = Held(blocks[j].id)
    BY <1>1, <1>2, <1>4 DEF Held
  <2> QED
    BY <1>1, <2>1, NamesKept
<1>9. NamesOf(e)' = KeysOf(buf)
  <2>1. Held(blocks[e].id)' \cup blocks'[e].new = buf
    BY <1>1, <1>2, <1>4, <1>6 DEF Held
  <2> QED
    BY <1>1, <2>1 DEF NamesOf, KeysOf
<1>10. \A n \in KeysOf(buf) : \E k \in tick.keys : n \in NamesOf(k)
  BY <1>1, <1>3, <1>5 DEF WorkInv
<1>11. \A k \in tick.keys : Joined(k)'
  BY <1>1 DEF Joined, Busy
<1>12. ASSUME NEW j \in InMap', j \notin tick.keys, NEW n \in NamesOf(j)',
              NEW m \in KeysOf(buf)
       PROVE  (n <= m => Apart(n, m)') /\ (m <= n => Apart(m, n)')
  <2>1. PICK k \in tick.keys : m \in NamesOf(k)
    BY <1>10
  <2>2. j \in InMap /\ k \in InMap /\ j # k /\ n \in NamesOf(j)
    BY <1>2, <1>6, <1>7, <1>8, <1>12
  <2>3. (n <= m => Apart(n, m)) /\ (m <= n => Apart(m, n))
    BY <1>1, <1>5, <2>1, <2>2, NoneJoined DEF RouteInv
  <2> QED
    BY <1>1, <2>3 DEF Apart
<1>13. ASSUME NEW j \in InMap', NEW k \in InMap', j # k,
              ~ (Joined(j)' /\ Joined(k)'),
              NEW n \in NamesOf(j)', NEW m \in NamesOf(k)', n <= m
       PROVE  Apart(n, m)'
  <2>1. j \in InMap /\ k \in InMap
    BY <1>7
  <2>2. CASE j # e /\ k # e
    <3>1. n \in NamesOf(j) /\ m \in NamesOf(k)
      BY <1>8, <1>13, <2>1, <2>2
    <3>2. Apart(n, m)
      BY <1>1, <1>5, <1>13, <2>1, <3>1, NoneJoined DEF RouteInv
    <3> QED
      BY <1>1, <3>2 DEF Apart
  <2>3. CASE j = e
    <3>1. k \notin tick.keys
      BY <1>6, <1>11, <1>13, <2>3
    <3> QED
      BY <1>9, <1>12, <1>13, <2>3, <3>1
  <2>4. CASE k = e
    <3>1. j \notin tick.keys
      BY <1>6, <1>11, <1>13, <2>4
    <3> QED
      BY <1>9, <1>12, <1>13, <2>4, <3>1
  <2> QED
    BY <2>2, <2>3, <2>4
<1>14. RouteInv'
  BY <1>13 DEF RouteInv
<1>15. OwnedInv'
  <2> SUFFICES ASSUME NEW j \in Ids, Held(j)' # {}
               PROVE  \E k \in InMap' : blocks'[k].id = j
    BY DEF OwnedInv
  <2>1. CASE j = t
    BY <1>1, <1>2, <1>7, <2>1
  <2>2. CASE j # t
    <3>1. Held(j) # {}
      BY <1>7, <2>2
    <3> QED
      BY <1>1, <1>5, <1>7, <3>1 DEF OwnedInv
  <2> QED
    BY <2>1, <2>2
<1>16. IndexInv'
  <2>1. \A j \in InMap : j # e => file'[blocks'[j].id] = file[blocks[j].id]
    BY <1>1, <1>2, <1>4
  <2> QED
    BY <1>1, <1>2, <1>5, <1>7, <2>1 DEF IndexInv
<1>17. WorkInv'
  BY <1>1 DEF WorkInv, Splits
<1> QED
  BY <1>14, <1>15, <1>16, <1>17 DEF Found

\* joinBlocks removes a block, or puts the last one back as readBlock finds it.
LEMMA ServeJoinRemove ==
    ASSUME MapInv, Kept, Found, JoinRemove
    PROVE  Found'
<1>1. /\ tpc = "joinRemove" /\ tpc' = "joinRemove" /\ tick.keys # {}
      /\ logf' = [logf EXCEPT ![blocks[Min(tick.keys)].id] = {}]
      /\ tick' = [tick EXCEPT !.keys = @ \ {Min(tick.keys)}]
  BY DEF JoinRemove
<1>2. PICK e \in InMap, t \in Ids :
              /\ e = tick.key /\ t = tick.id /\ blocks[e].id = t
              /\ e \in EndKeys /\ tick.keys \subseteq InMap /\ JoinOK
              /\ \A j \in InMap : j # e => blocks[j].id # t /\ blocks[j].id \in Ids
  BY <1>1, Joining DEF Joins
<1>3. RouteInv /\ OwnedInv /\ IndexInv
  BY DEF Found
<1>4. /\ e \in KeysOf(tick.buf) /\ \A n \in KeysOf(tick.buf) : n <= e
      /\ e \in tick.keys /\ t \in fileIds /\ file[t] = tick.buf
      /\ \A m \in tick.keys : m <= e
  BY <1>1, <1>2 DEF JoinOK
<1>5. tick.keys \in SUBSET Nat /\ InMap \subseteq EndKeys
  <2>1. InMap \subseteq EndKeys /\ EndKeys \subseteq Nat
    BY ConstantsAssumption DEF InMap, EndKeys
  <2> QED
    BY <1>2, <2>1
<1>6. PICK k \in tick.keys : k = Min(tick.keys) /\ \A m \in tick.keys : k <= m
  BY <1>1, <1>5, MinFacts
<1>7. PICK i \in Ids : i = blocks[k].id
  BY <1>2, InMapFacts DEF MapInv
<1>8. tick'.keys = tick.keys \ {k} /\ tick'.key = e /\ tick'.id = t
  <2>1. tick \in [keys : SUBSET EndKeys, key : EndKeys, id : 0..MaxIds,
                  buf : SUBSET Streams]
    BY DEF MapInv, TickPart
  <2> QED
    BY <1>1, <1>2, <1>6, <2>1
<1>9. logf'[i] = {} /\ \A j \in Ids : j # i => logf'[j] = logf[j]
  BY <1>1, <1>6, <1>7 DEF MapInv, LogPart
<1>10. WorkInv'
  BY <1>1 DEF WorkInv, Splits
<1>11. Busy = tick.keys /\ Busy' = (tick.keys \ {k}) \cup {e}
  BY <1>1, <1>2, <1>4, <1>8 DEF Busy
<1>12. CASE k # e
  <2>1. /\ blocks' = [blocks EXCEPT ![k] = NoBlock]
        /\ file' = [file EXCEPT ![i] = {}]
        /\ UNCHANGED blockKeys
    BY <1>2, <1>6, <1>7, <1>12 DEF JoinRemove
  <2>2. file'[i] = {} /\ \A j \in Ids : j # i => file'[j] = file[j]
    BY <2>1 DEF MapInv, FilePart
  <2>3. InMap' = InMap \ {k} /\ \A j \in InMap' : blocks'[j] = blocks[j]
    <3>1. \A j : j \in InMap' <=> j \in EndKeys /\ blocks'[j] # NoBlock
      BY DEF InMap
    <3>2. \A j : j \in InMap <=> j \in EndKeys /\ blocks[j] # NoBlock
      BY DEF InMap
    <3>3. blocks'[k] = NoBlock /\ \A j \in EndKeys : j # k => blocks'[j] = blocks[j]
      BY <1>2, <1>5, <2>1 DEF MapInv, MapPart
    <3>4. \A j : j \in InMap' <=> j \in InMap \ {k}
      BY <3>1, <3>2, <3>3
    <3> QED
      BY <3>1, <3>3, <3>4
  <2>4. \A j \in InMap' : blocks[j].id \in Ids /\ blocks[j].id # i
    <3>1. \A j \in InMap' : j \in InMap /\ j # k
      BY <2>3
    <3> QED
      BY <1>2, <1>7, <3>1, InMapFacts DEF Kept, OwnerInv, MapInv
  <2>5. \A j \in InMap' : NamesOf(j)' \subseteq NamesOf(j)
    <3> SUFFICES ASSUME NEW j \in InMap' PROVE NamesOf(j)' \subseteq NamesOf(j)
      OBVIOUS
    <3>1. Held(blocks[j].id)' \cup blocks'[j].new = Held(blocks[j].id) \cup blocks[j].new
      BY <1>9, <2>2, <2>3, <2>4 DEF Held
    <3> QED
      BY <1>1, <3>1, NamesKept
  <2>6. \A j \in InMap' : Joined(j) => Joined(j)'
    BY <1>1, <1>11, <2>3 DEF Joined
  <2>7. RouteInv'
    BY <1>3, <2>1, <2>3, <2>5, <2>6, RouteKept
  <2>8. OwnedInv'
    <3> SUFFICES ASSUME NEW j \in Ids, Held(j)' # {}
                 PROVE  \E l \in InMap' : blocks'[l].id = j
      BY DEF OwnedInv
    <3>1. j # i /\ Held(j) # {}
      BY <1>9, <2>2 DEF Held
    <3>2. PICK l \in InMap : blocks[l].id = j
      BY <1>1, <1>3, <3>1 DEF OwnedInv
    <3>3. l # k
      BY <1>7, <3>1, <3>2
    <3> QED
      BY <2>3, <3>2, <3>3
  <2>9. IndexInv'
    <3>1. \A j \in InMap' : /\ file'[blocks'[j].id] = file[blocks[j].id]
                            /\ blocks'[j].index = blocks[j].index
      BY <2>2, <2>3, <2>4
    <3> QED
      BY <1>1, <1>2, <1>3, <1>8, <2>3, <3>1 DEF IndexInv
  <2> QED
    BY <1>10, <2>7, <2>8, <2>9 DEF Found
<1>13. CASE k = e
  <2>1. tick.keys = {e}
    <3>1. \A m \in tick.keys : m = e
      BY <1>4, <1>5, <1>6, <1>13
    <3> QED
      BY <1>4, <3>1
  <2>2. EndKeyOf(header[t]) = e
    <3>1. header[t] \in SUBSET Keys
      BY DEF MapInv, FilePart
    <3>2. header[t] = KeysOf(file[t])
      BY <1>4 DEF Kept, FileInv, FileOK
    <3> QED
      BY <1>4, <3>1, <3>2, EndKeyFacts
  <2>3. PICK X : X = header[t]
    OBVIOUS
  <2> DEFINE c == [id |-> t, index |-> X, log |-> {}, new |-> {}]
             d == [blocks EXCEPT ![e] = NoBlock]
  <2>4. /\ blocks' = [d EXCEPT ![e] = c] /\ UNCHANGED file
        /\ blockKeys' = blockKeys \cup {e}
    <3>1. [newBlock(t) EXCEPT !.index = X] = c
      BY DEF newBlock
    <3>2. /\ blocks' = [d EXCEPT ![e] = [newBlock(t) EXCEPT !.index = X]]
          /\ UNCHANGED file
          /\ blockKeys' = blockKeys \cup {e}
      <4> HIDE DEF c
      <4> QED
        BY <1>2, <1>4, <1>6, <1>13, <2>2, <2>3 DEF JoinRemove
    <3> HIDE DEF c
    <3> QED
      BY <3>1, <3>2
  <2>5. c.id = t /\ c.new = {}
    OBVIOUS
  <2> HIDE DEF c
  <2>6. blocks'[e] = c /\ \A j \in EndKeys : j # e => blocks'[j] = blocks[j]
    BY <1>2, <2>4 DEF MapInv, MapPart
  <2>7. InMap' = InMap /\ \A j \in InMap : j # e => blocks'[j] = blocks[j]
    <3>1. c # NoBlock
      BY <2>5, ConstantsAssumption DEF NoBlock, Ids
    <3>2. \A j : j \in InMap' <=> j \in EndKeys /\ blocks'[j] # NoBlock
      BY DEF InMap
    <3>3. \A j : j \in InMap <=> j \in EndKeys /\ blocks[j] # NoBlock
      BY DEF InMap
    <3>4. \A j : j \in InMap' <=> j \in InMap
      BY <1>2, <2>6, <3>1, <3>2, <3>3
    <3> QED
      BY <2>6, <3>3, <3>4
  <2>8. i = t
    BY <1>2, <1>7, <1>13
  <2>9. \A j \in InMap : NamesOf(j)' \subseteq NamesOf(j)
    <3> SUFFICES ASSUME NEW j \in InMap PROVE NamesOf(j)' \subseteq NamesOf(j)
      OBVIOUS
    <3>1. CASE j = e
      <4>1. Held(blocks[j].id)' \cup blocks'[j].new \subseteq Held(blocks[j].id)
        BY <1>2, <1>9, <2>4, <2>5, <2>6, <2>8, <3>1 DEF Held
      <4> QED
        BY <1>1, <4>1, NamesKept
    <3>2. CASE j # e
      <4>1. Held(blocks[j].id)' \cup blocks'[j].new = Held(blocks[j].id) \cup blocks[j].new
        BY <1>2, <1>9, <2>4, <2>7, <2>8, <3>2 DEF Held
      <4> QED
        BY <1>1, <4>1, NamesKept
    <3> QED
      BY <3>1, <3>2
  <2>10. \A j : Joined(j) => Joined(j)'
    BY <1>1, <1>11, <2>1 DEF Joined
  <2>11. RouteInv'
    BY <1>3, <2>4, <2>7, <2>9, <2>10, RouteKept
  <2>12. OwnedInv'
    <3> SUFFICES ASSUME NEW j \in Ids, Held(j)' # {}
                 PROVE  \E l \in InMap' : blocks'[l].id = j
      BY DEF OwnedInv
    <3>1. CASE j = t
      BY <1>2, <2>5, <2>6, <2>7, <3>1
    <3>2. CASE j # t
      <4>1. Held(j) # {}
        BY <1>9, <2>4, <2>8, <3>2 DEF Held
      <4>2. PICK l \in InMap : blocks[l].id = j
        BY <1>1, <1>3, <4>1 DEF OwnedInv
      <4> QED
        BY <1>2, <2>7, <3>2, <4>2
    <3> QED
      BY <3>1, <3>2
  <2>13. IndexInv'
    <3>1. \A j \in InMap : j # e => /\ file'[blocks'[j].id] = file[blocks[j].id]
                                    /\ blocks'[j].index = blocks[j].index
      BY <2>4, <2>7
    <3> QED
      BY <1>1, <1>2, <1>3, <1>8, <2>7, <3>1 DEF IndexInv
  <2> QED
    BY <1>10, <2>11, <2>12, <2>13 DEF Found
<1> QED
  BY <1>12, <1>13

\* joinBlocks puts the new block where the last one was, with its index.
LEMMA ServeJoinPublish ==
    ASSUME MapInv, Kept, Found, JoinPublish
    PROVE  Found'
<1>1. PICK X : X = KeysOf(tick.buf)
  OBVIOUS
<1>2. /\ tpc = "joinRemove" /\ tick.keys = {} /\ tpc' = "idle" /\ tick' = NoTick
      /\ blocks' = [blocks EXCEPT ![tick.key] = [newBlock(tick.id) EXCEPT !.index = X]]
      /\ UNCHANGED <<blockKeys, file, logf>>
  BY <1>1 DEF JoinPublish, diskVars, fileVars
<1>3. PICK e \in InMap, t \in Ids :
              /\ e = tick.key /\ t = tick.id /\ blocks[e].id = t
              /\ e \in EndKeys /\ JoinOK
  BY <1>2, Joining DEF Joins
<1>4. RouteInv /\ OwnedInv /\ IndexInv
  BY DEF Found
<1>5. file[t] = tick.buf
  BY <1>2, <1>3 DEF JoinOK
<1> DEFINE c == [id |-> t, index |-> X, log |-> {}, new |-> {}]
<1>6. blocks' = [blocks EXCEPT ![e] = c]
  <2>1. [newBlock(t) EXCEPT !.index = X] = c
    BY DEF newBlock
  <2> HIDE DEF c
  <2> QED
    BY <1>2, <1>3, <2>1
<1>7. c.id = t /\ c.index = X /\ c.new = {}
  OBVIOUS
<1> HIDE DEF c
<1>8. blocks'[e] = c /\ \A j \in EndKeys : j # e => blocks'[j] = blocks[j]
  BY <1>3, <1>6 DEF MapInv, MapPart
<1>9. InMap' = InMap /\ \A j \in InMap : j # e => blocks'[j] = blocks[j]
  <2>1. c # NoBlock
    BY <1>7, ConstantsAssumption DEF NoBlock, Ids
  <2>2. \A j : j \in InMap' <=> j \in EndKeys /\ blocks'[j] # NoBlock
    BY DEF InMap
  <2>3. \A j : j \in InMap <=> j \in EndKeys /\ blocks[j] # NoBlock
    BY DEF InMap
  <2>4. \A j : j \in InMap' <=> j \in InMap
    BY <1>3, <1>8, <2>1, <2>2, <2>3
  <2> QED
    BY <1>8, <2>3, <2>4
<1>10. \A j \in InMap : blocks'[j].id = blocks[j].id /\ blocks'[j].new \subseteq blocks[j].new
  BY <1>3, <1>7, <1>8, <1>9
<1>11. \A j \in InMap : NamesOf(j)' \subseteq NamesOf(j)
  <2> SUFFICES ASSUME NEW j \in InMap PROVE NamesOf(j)' \subseteq NamesOf(j)
    OBVIOUS
  <2>1. Held(blocks[j].id)' \cup blocks'[j].new \subseteq Held(blocks[j].id) \cup blocks[j].new
    BY <1>2, <1>10 DEF Held
  <2> QED
    BY <1>2, <2>1, NamesKept
<1>12. \A j : Joined(j) => j = e
  BY <1>2, <1>3 DEF Joined, Busy
<1>13. RouteInv'
  BY <1>2, <1>4, <1>9, <1>11, <1>12, RouteKept
<1>14. OwnedInv'
  BY <1>2, <1>4, <1>9, <1>10 DEF OwnedInv, Held
<1>15. IndexInv'
  <2>1. KeysOf(file'[blocks'[e].id]) = blocks'[e].index
    BY <1>1, <1>2, <1>5, <1>7, <1>8
  <2> QED
    BY <1>2, <1>3, <1>4, <1>9, <2>1 DEF IndexInv
<1>16. WorkInv'
  BY <1>2 DEF WorkInv, Splits
<1> QED
  BY <1>13, <1>14, <1>15, <1>16 DEF Found

\* Until the step nothing had failed or restarted either, and the step is none of
\* a restart and no failure.
LEMMA CalmBefore ==
    ASSUME MapInv, MapInv', Calm', [Next]_vars
    PROVE  Calm /\ crashes' = crashes /\ errors' = errors
<1>1. crashes \in Nat /\ errors \in Nat /\ crashes' \in Nat /\ errors' \in Nat
  BY ConstantsAssumption DEF MapInv, RestPart
<1>2. crashes' = crashes \/ crashes' = crashes + 1
  BY DEF Next, Write, Flush, Compact, SplitCompact, SplitRead, SplitLeft, SplitRight,
         SplitInsert, SplitFail, JoinRead, JoinWrite, JoinFail, JoinRemove,
         JoinPublish, Crash, Open, readBlock, FilesRead, readBlockLog, Opened, vars,
         boundVars
<1>3. errors' = errors \/ errors' = errors + 1
  BY DEF Next, Write, Flush, Compact, SplitCompact, SplitRead, SplitLeft, SplitRight,
         SplitInsert, SplitFail, JoinRead, JoinWrite, JoinFail, JoinRemove,
         JoinPublish, Crash, Open, readBlock, FilesRead, readBlockLog, Opened, vars,
         boundVars, compactBlock, compactBlockFails, WriteFails, IOError
<1>4. raced => raced'
  BY DEF Next, Write, Flush, Compact, SplitCompact, SplitRead, SplitLeft, SplitRight,
         SplitInsert, SplitFail, JoinRead, JoinWrite, JoinFail, JoinRemove,
         JoinPublish, Crash, Open, readBlock, FilesRead, readBlockLog, Opened, vars
<1>5. ~raced' /\ crashes' + errors' = 0
  BY DEF Calm
<1>6. crashes = 0 /\ errors = 0 /\ crashes' = 0 /\ errors' = 0
  <2>1. \A m, n \in Nat : m + n = 0 => m = 0 /\ n = 0
    OBVIOUS
  <2>2. crashes' = 0 /\ errors' = 0
    BY <1>1, <1>5, <2>1
  <2>3. \A n \in Nat : n + 1 # 0
    OBVIOUS
  <2> QED
    BY <1>1, <1>2, <1>3, <2>2, <2>3
<1> QED
  BY <1>4, <1>5, <1>6 DEF Calm

\* No restart happens, and every file is written without a leftover in the way.
LEMMA SoundStep ==
    ASSUME MapInv, Sound, [Next]_vars, crashes' = crashes, errors' = errors
    PROVE  Sound'
<1>1. crashes \in Nat /\ errors \in Nat
  BY ConstantsAssumption DEF MapInv, RestPart
<1>2. mode = "up" /\ tmpIds = {} /\ ~damaged /\ ~clash /\ ~ IOError
  BY <1>1 DEF Sound, IOError
<1>3. ~ Crash /\ ~ SplitFail /\ ~ JoinFail
  BY <1>1, <1>2 DEF Crash, SplitFail, JoinFail, WriteFails
<1>4. ~ Open /\ ~ FilesRead /\ ~ Opened /\ \A i \in Ids : ~ readBlock(i) /\ ~ readBlockLog(i)
  BY <1>2 DEF Open, FilesRead, Opened, readBlock, readBlockLog
<1>5. \A i, S : WriteFile(i, S) => tmpIds' = {} /\ ~damaged'
  BY <1>2 DEF WriteFile
<1>6. \A k : ~ compactBlockFails(k) /\ (compactBlock(k) => tmpIds' = {} /\ ~damaged')
  BY <1>2, <1>5 DEF compactBlockFails, WriteFails, compactBlock
<1>7. ASSUME \/ \E s \in Streams : Write(s)
             \/ Flush \/ SplitRead \/ SplitInsert \/ JoinRead \/ JoinRemove \/ JoinPublish
             \/ UNCHANGED vars
      PROVE  UNCHANGED <<mode, tmpIds, damaged, clash>>
  BY <1>7 DEF Write, Flush, SplitRead, SplitInsert, JoinRead, JoinRemove, JoinPublish,
              vars, diskVars, fileVars, histVars
<1>8. CASE \E k \in EndKeys : Compact(k) \/ SplitCompact(k)
  <2>1. UNCHANGED <<mode, clash>> /\ \E k \in EndKeys : compactBlock(k)
    BY <1>2, <1>6, <1>8 DEF Compact, SplitCompact, histVars
  <2> QED
    BY <1>2, <1>6, <2>1 DEF Sound
<1>9. CASE SplitLeft \/ SplitRight \/ JoinWrite
  <2>1. UNCHANGED <<mode, clash>> /\ \E i, S : WriteFile(i, S)
    BY <1>9 DEF SplitLeft, SplitRight, JoinWrite, histVars
  <2> QED
    BY <1>2, <1>5, <2>1 DEF Sound
<1> QED
  BY <1>2, <1>3, <1>4, <1>7, <1>8, <1>9 DEF Next, Sound

\* Nothing is flushed at first.
LEMMA ServeInit == Init => ServeInv
<1> SUFFICES ASSUME Init PROVE Sound /\ Found
  BY DEF ServeInv
<1>1. InMap = {} /\ tpc = "idle" /\ \A i \in Ids : Held(i) = {}
  BY DEF Init, InMap, Held
<1>2. RouteInv /\ OwnedInv /\ IndexInv /\ WorkInv
  BY <1>1 DEF RouteInv, OwnedInv, IndexInv, WorkInv, Splits
<1>3. Sound
  BY DEF Init, Sound
<1> QED
  BY <1>2, <1>3 DEF Found

\* Every step keeps what queries need.
LEMMA ServeStep ==
    MapInv /\ MapInv' /\ KeptInv /\ ServeInv /\ [Next]_vars => ServeInv'
<1> SUFFICES ASSUME MapInv, MapInv', KeptInv, ServeInv, [Next]_vars, Calm'
             PROVE  Sound' /\ Found'
  BY DEF ServeInv
<1>1. Calm /\ crashes' = crashes /\ errors' = errors
  BY CalmBefore
<1>2. Sound /\ Found
  BY <1>1 DEF ServeInv
<1>3. Sound'
  BY <1>1, <1>2, SoundStep
<1>4. Clean /\ Clean' /\ Kept /\ ~raced' /\ ~damaged'
  BY <1>1, <1>2, <1>3 DEF Calm, Sound, Clean, KeptInv
<1>5. mode = "up" /\ ~ IOError /\ ~ Crash
  <2>1. crashes \in Nat /\ errors \in Nat
    BY ConstantsAssumption DEF MapInv, RestPart
  <2> QED
    BY <1>1, <1>2, <2>1 DEF Sound, IOError, Crash
<1>6. CASE \E s \in Streams : Write(s)
  BY <1>2, <1>3, <1>4, <1>6, ServeWrite
<1>7. CASE Flush
  BY <1>2, <1>3, <1>4, <1>7, ServeFlush
<1>8. CASE \E k \in EndKeys : Compact(k) \/ SplitCompact(k)
  BY <1>1, <1>2, <1>3, <1>4, <1>8, ServeCompact, ServeSplitCompact
<1>9. CASE SplitRead \/ SplitLeft \/ SplitRight \/ SplitInsert
  BY <1>2, <1>3, <1>4, <1>9, ServeSplitRead, ServeSplitLeft, ServeSplitRight, ServeSplitInsert
<1>10. CASE JoinRead \/ JoinWrite \/ JoinRemove \/ JoinPublish
  BY <1>2, <1>3, <1>4, <1>10, ServeJoinRead, ServeJoinWrite, ServeJoinRemove, ServeJoinPublish
<1>11. CASE SplitFail \/ JoinFail
  BY <1>5, <1>11 DEF SplitFail, JoinFail, WriteFails
<1>12. ~ Open /\ ~ FilesRead /\ ~ Opened /\ \A i \in Ids : ~ readBlock(i) /\ ~ readBlockLog(i)
  BY <1>5 DEF Open, FilesRead, Opened, readBlock, readBlockLog
<1>13. CASE UNCHANGED vars
  <2>1. UNCHANGED <<blocks, blockKeys, tpc, tick, file, logf>>
    BY <1>13 DEF vars, mapVars, tickVars, diskVars, fileVars
  <2>2. InMap' = InMap /\ LeftPart' = LeftPart /\ \A k : Joined(k)' <=> Joined(k)
    BY <2>1 DEF InMap, LeftPart, Joined, Busy
  <2>3. \A k : NamesOf(k)' = NamesOf(k)
    BY <2>1, <2>2 DEF NamesOf, Held
  <2>4. RouteInv'
    BY <1>2, <2>1, <2>2, <2>3, RouteKept DEF Found
  <2>5. OwnedInv' /\ IndexInv'
    BY <1>2, <2>1, <2>2 DEF Found, OwnedInv, IndexInv, Held
  <2>6. WorkInv'
    BY <1>2, <2>1, <2>3 DEF Found, WorkInv
  <2> QED
    BY <1>3, <2>4, <2>5, <2>6 DEF Found
<1> QED
  BY <1>5, <1>6, <1>7, <1>8, <1>9, <1>10, <1>11, <1>12, <1>13 DEF Next

\* Between two ticks, a flushed stream is on disk, its id is that of a block in the
\* map, and that block has it in LogStreams or finds it through its index.
LEMMA ServedFromDisk == MapInv /\ KeptInv /\ ServeInv => FlushedServed
<1> SUFFICES ASSUME MapInv, KeptInv, ServeInv,
                    ~raced, crashes + errors = 0, tpc = "idle", NEW s \in flushed
             PROVE  Served(s)
  BY DEF FlushedServed
<1>1. Sound /\ Found
  BY DEF ServeInv, Calm
<1>2. Kept
  BY <1>1 DEF Sound, KeptInv, Clean
<1>3. s \in OnDisk
  BY <1>2 DEF Kept
<1>4. PICK i \in Ids : s \in file[i] \cup logf[i]
  BY <1>3, DiskHeld
<1>5. PICK k \in InMap : blocks[k].id = i
  BY <1>1, <1>4 DEF Found, OwnedInv, Held
<1>6. LogOK(k) /\ NameOK(k)
  BY <1>2 DEF Kept, BlockInv
<1>7. s[1] <= k
  <2>1. s \in Held(blocks[k].id) \cup blocks[k].new
    BY <1>4, <1>5 DEF Held
  <2>2. s[1] \in KeysOf(Held(blocks[k].id) \cup blocks[k].new)
    BY <2>1, KeysOfFacts
  <2> QED
    BY <1>6, <2>2 DEF NameOK
<1>8. CASE s \in logf[i]
  <2>1. s \in blocks[k].log
    BY <1>1, <1>5, <1>6, <1>8 DEF LogOK, Sound
  <2> QED
    BY <1>7, <2>1 DEF Served
<1>9. CASE s \in file[i]
  <2>1. i \in fileIds
    BY <1>9 DEF MapInv, FilePart
  <2>2. s[1] \in KeysOf(file[i])
    BY <1>9, KeysOfFacts
  <2>3. s[1] \in blocks[k].index
    BY <1>1, <1>5, <2>2 DEF Found, IndexInv
  <2> QED
    BY <1>5, <1>7, <1>9, <2>1, <2>3 DEF Served
<1> QED
  BY <1>4, <1>8, <1>9

\* As long as the ticker meets no unflushed streams, no file operation fails and
\* the process does not restart, a query between two ticks finds every stream that
\* a Flush has written, whatever has been split and joined (FlushedServed).
THEOREM FlushedIsServed == Spec => []FlushedServed
<1> DEFINE Inv == MapInv /\ KeptInv /\ ServeInv
<1>1. Init => Inv
  BY MapInvInit, KeptInit, ServeInit
<1>2. Inv /\ [Next]_vars => Inv'
  BY MapInvStep, KeptStep, ServeStep
<1>3. Inv => FlushedServed
  BY ServedFromDisk
<1> HIDE DEF Inv
<1> QED
  BY <1>1, <1>2, <1>3, PTL DEF Spec
=============================================================================
