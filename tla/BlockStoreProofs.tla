-------------------------- MODULE BlockStoreProofs --------------------------
(***************************************************************************)
(* Proofs about BlockStore, for every set of streams and of Writers and    *)
(* for every bound on crashes and errors: type correctness, the durability *)
(* of flushed streams, and that compaction never drops a stream.           *)
(***************************************************************************)
EXTENDS BlockStore, TLAPS

\* Adding slices, and adding one stream to a slice, gives a slice.
LEMMA ContentsFacts ==
    /\ Empty \in Contents
    /\ \A v \in Values : Empty[v] = 0
    /\ \A a, b \in Contents : Plus(a, b) \in Contents
    /\ \A a \in Contents, v \in Values : With(a, v) \in Contents
  BY DEF Contents, Empty, Plus, With

\* The goroutine states of a process that has just started or crashed.
LEMMA IdleFacts ==
    /\ [w \in Writers |-> "idle"] \in [Writers -> WriterPC]
    /\ [w \in Writers |-> {}] \in [Writers -> SUBSET Values]
    /\ [w \in Writers |-> Empty] \in [Writers -> Contents]
<1>1. [w \in Writers |-> "idle"] \in [Writers -> WriterPC]
  BY DEF WriterPC
<1>2. [w \in Writers |-> {}] \in [Writers -> SUBSET Values]
  OBVIOUS
<1>3. [w \in Writers |-> Empty] \in [Writers -> Contents]
  BY ContentsFacts
<1> QED
  BY <1>1, <1>2, <1>3

\* Which streams are in a slice put together from others.
LEMMA ContainsFacts ==
    /\ Has(Empty) = {}
    /\ \A a, b \in Contents : Has(Plus(a, b)) = Has(a) \cup Has(b)
    /\ \A a \in Contents, v \in Values : Has(With(a, v)) = Has(a) \cup {v}
    /\ \A a \in Contents : Has(a) \subseteq Values
<1>1. Has(Empty) = {}
  BY DEF Has, Empty
<1>2. ASSUME NEW a \in Contents, NEW b \in Contents
      PROVE  Has(Plus(a, b)) = Has(a) \cup Has(b)
  <2>1. \A u \in Values : Plus(a, b)[u] = a[u] + b[u]
    BY DEF Plus
  <2>2. \A u \in Values : a[u] \in Nat /\ b[u] \in Nat
    BY DEF Contents
  <2> QED
    BY <2>1, <2>2 DEF Has
<1>3. ASSUME NEW a \in Contents, NEW v \in Values
      PROVE  Has(With(a, v)) = Has(a) \cup {v}
  <2>1. \A u \in Values : With(a, v)[u] = IF u = v THEN a[u] + 1 ELSE a[u]
    BY DEF With, Contents
  <2>2. \A u \in Values : a[u] \in Nat
    BY DEF Contents
  <2> QED
    BY <2>1, <2>2 DEF Has
<1>4. \A a \in Contents : Has(a) \subseteq Values
  BY DEF Has
<1> QED
  BY <1>1, <1>2, <1>3, <1>4

\* Leaving streams out of a slice gives a slice; leaving out none changes
\* nothing.
LEMMA OnlyFacts ==
    /\ \A a \in Contents, S \in SUBSET Values : Only(a, S) \in Contents
    /\ \A a \in Contents : Only(a, Values) = a
  BY DEF Only, Contents

\* The file block.Write has written: a slice, which lacks nothing of cbuf if
\* there was no leftover, or one with a header of the same length.
LEMMA WrittenFacts ==
    ASSUME tmpFile \in Contents, cbuf \in Contents, NEW c \in Written
    PROVE  /\ c \in Contents
           /\ (leftover => SameHeader) => Has(cbuf) \subseteq Has(c)
<1>1. CASE ~ leftover
  BY <1>1 DEF Written
<1>2. CASE leftover
  <2>1. PICK A \in SUBSET Values, B \in SUBSET Values :
            /\ c = Plus(Only(tmpFile, A), Only(cbuf, B))
            /\ SameHeader => A = Values
    BY <1>2 DEF Written
  <2>2. Only(tmpFile, A) \in Contents /\ Only(cbuf, B) \in Contents
    BY OnlyFacts
  <2>3. c \in Contents
    BY <2>1, <2>2, ContentsFacts
  <2>4. Has(c) = Has(Only(tmpFile, A)) \cup Has(Only(cbuf, B))
    BY <2>1, <2>2, ContainsFacts
  <2>5. SameHeader => Has(Only(tmpFile, A)) = Has(cbuf)
    BY <2>1, OnlyFacts DEF SameHeader
  <2> QED
    BY <1>2, <2>3, <2>4, <2>5
<1> QED
  BY <1>1, <1>2
-----------------------------------------------------------------------------
\* A datastore opened on an empty directory is well typed.
LEMMA TypeInit == Init => TypeOK
<1> SUFFICES ASSUME Init PROVE TypeOK
  OBVIOUS
<1>1. /\ pc \in [Writers -> WriterPC]
      /\ chan \in [Writers -> SUBSET Values]
      /\ hdr \in [Writers -> Contents]
  BY IdleFacts DEF Init
<1>2. /\ up \in BOOLEAN /\ logTorn \in BOOLEAN
      /\ leftover \in BOOLEAN /\ damaged \in BOOLEAN
  BY DEF Init
<1>3. /\ crashes \in 0..MaxCrashes
      /\ ioErrors \in 0..MaxIOErrors
      /\ shortWrites \in 0..MaxShortWrites
  BY ConstantsAssumption DEF Init
<1>4. /\ sent \in SUBSET Values
      /\ logged \in SUBSET Values
      /\ flushed \in SUBSET Values
  BY DEF Init
<1> QED
  BY <1>1, <1>2, <1>3, <1>4, ContentsFacts DEF Init, TypeOK, CompactPC

\* Every action keeps every variable in its type.
LEMMA TypeStep == TypeOK /\ [Next]_vars => TypeOK'
<1> SUFFICES ASSUME TypeOK, [Next]_vars PROVE TypeOK'
  OBVIOUS
<1> USE ConstantsAssumption, ContentsFacts DEF WriterPC, CompactPC, tmpVars
<1>1. ASSUME NEW w \in Writers, NEW S \in SUBSET Values, Add(w, S)
      PROVE  TypeOK'
  BY <1>1 DEF TypeOK, Add, memVars, flushVars, compactVars, diskVars, boundVars
<1>2. ASSUME NEW w \in Writers, WriterStep(w)
      PROVE  TypeOK'
  <2>1. CASE AppendRead(w)
    BY <2>1 DEF TypeOK, AppendRead, memVars, flushVars, compactVars,
                diskVars, boundVars
  <2>2. ASSUME NEW v \in Values, AppendStore(w, v)
        PROVE  TypeOK'
    BY <2>2 DEF TypeOK, AppendStore, flushVars, compactVars, diskVars,
                boundVars
  <2>3. CASE FlushCheck(w)
    BY <2>3 DEF TypeOK, FlushCheck, memVars, flushVars, compactVars,
                diskVars, boundVars
  <2>4. CASE FlushLock(w)
    BY <2>4 DEF TypeOK, FlushLock, memVars, compactVars, diskVars, boundVars
  <2>5. ASSUME NEW v \in Values, FlushWrite(w, v)
        PROVE  TypeOK'
    <3>1. toLog' \in Contents
      BY <2>5 DEF TypeOK, FlushWrite, Contents
    <3>2. logFile' \in Contents /\ logged' \in SUBSET Values
      BY <2>5 DEF TypeOK, FlushWrite
    <3> QED
      BY <2>5, <3>1, <3>2 DEF TypeOK, FlushWrite, writerVars, memVars,
                              compactVars, boundVars
  <2>6. CASE FlushFail(w)
    BY <2>6 DEF TypeOK, FlushFail, memVars, compactVars
  <2>7. CASE FlushMerge(w)
    <3>1. {v \in logged : newStreams[v] > 0} \in SUBSET Values
      BY DEF TypeOK
    <3> QED
      BY <2>7, <3>1 DEF TypeOK, FlushMerge, flushVars, compactVars, diskVars,
                       boundVars
  <2>8. CASE FlushReset(w)
    BY <2>8 DEF TypeOK, FlushReset, flushVars, compactVars, diskVars,
                boundVars
  <2> QED
    BY <1>2, <2>1, <2>2, <2>3, <2>4, <2>5, <2>6, <2>7, <2>8 DEF WriterStep
<1>3. CASE CompactStart
  BY <1>3 DEF TypeOK, CompactStart, writerVars, memVars, flushVars, diskVars,
              boundVars
<1>4. CASE CompactStep
  <2> USE DEF TypeOK, writerVars, memVars, flushVars, diskVars, boundVars
  <2>1. CASE CompactLock
    BY <2>1 DEF CompactLock
  <2>2. CASE CompactRead
    BY <2>2 DEF CompactRead
  <2>0. \A c \in Written : c \in Contents
    BY WrittenFacts
  <2>3. CASE CompactReadFail
    BY <2>3 DEF CompactReadFail
  <2>4. CASE CompactFail
    BY <2>0, <2>4 DEF CompactFail
  <2>5. CASE CompactRename
    <3>1. damaged' \in BOOLEAN
      BY <2>5 DEF CompactRename
    <3> QED
      BY <2>0, <2>5, <3>1 DEF CompactRename
  <2>9. ASSUME NEW v \in Values, CompactShortWrite(v)
        PROVE  TypeOK'
    <3>1. PICK c \in Written : blockFile' = [c EXCEPT ![v] = 0]
      BY <2>9 DEF CompactShortWrite
    <3>2. blockFile' \in Contents
      BY <2>0, <3>1 DEF Contents
    <3>3. shortWrites' \in 0..MaxShortWrites
      BY <2>9 DEF CompactShortWrite
    <3>4. damaged' \in BOOLEAN /\ leftover' \in BOOLEAN /\ indexed' \in BOOLEAN
      BY <2>9 DEF CompactShortWrite
    <3>5. UNCHANGED <<up, writerVars, newStreams, logStreams, lock, flushVars,
                      logFile, logTorn, sent, flushed, crashes, ioErrors>>
      BY <2>9 DEF CompactShortWrite
    <3>6. tmpFile' \in Contents /\ cbuf' \in Contents /\ cpc' \in CompactPC
      BY <2>9 DEF CompactShortWrite
    <3> HIDE DEF CompactPC, WriterPC
    <3> QED
      BY <3>2, <3>3, <3>4, <3>5, <3>6
  <2>6. CASE CompactRemoveLog
    BY <2>6 DEF CompactRemoveLog
  <2>7. CASE CompactRemoveFail
    BY <2>7 DEF CompactRemoveFail
  <2>8. CASE CompactClear
    BY <2>8 DEF CompactClear
  <2> QED
    BY <1>4, <2>1, <2>2, <2>3, <2>4, <2>5, <2>6, <2>7, <2>8, <2>9
       DEF CompactStep
<1>5. CASE Crash
  <2>1. logTorn' \in BOOLEAN
    BY <1>5 DEF Crash
  <2>2. crashes' \in 0..MaxCrashes
    BY <1>5 DEF TypeOK, Crash
  <2> QED
    BY <1>5, <2>1, <2>2, IdleFacts DEF TypeOK, Crash
<1>6. CASE Open
  BY <1>6 DEF TypeOK, Open, writerVars, flushVars, compactVars, diskVars,
              boundVars
<1>7. CASE UNCHANGED vars
  BY <1>7 DEF TypeOK, vars, writerVars, memVars, flushVars, compactVars,
              diskVars, boundVars
<1> QED
  BY <1>1, <1>2, <1>3, <1>4, <1>5, <1>6, <1>7 DEF Next

\* The type invariant of BlockStore holds in every reachable state.
THEOREM TypeCorrect == Spec => []TypeOK
<1>1. Init => TypeOK
  BY TypeInit
<1> QED
  BY <1>1, TypeStep, PTL DEF Spec
-----------------------------------------------------------------------------
(***************************************************************************)
(* The inductive invariant behind Durable.                                 *)
(***************************************************************************)
CompactHolds == {"read", "rename", "remove", "clear"}
FlushHolds   == {"log", "reset"}

\* logLock is held by exactly the goroutine that is between its Lock and its
\* Unlock, and no goroutine outlives the process.
LockInv ==
    /\ lock = Compactor <=> cpc \in CompactHolds
    /\ \A w \in Writers : lock = w <=> pc[w] \in FlushHolds
    /\ ~up => cpc = "idle" /\ \A w \in Writers : pc[w] = "idle"

\* What the running Flush has logged is in the log file; when no Flush holds
\* the lock there is nothing of that kind.
LoggedInv ==
    /\ logged \subseteq Has(logFile)
    /\ lock \notin Writers => logged = {}

\* What compactBlock carries from one of its steps to the next.
CompactInv ==
    /\ cpc = "rename" => Has(cbuf) = Kept
    /\ ~damaged /\ cpc \in {"remove", "clear"}
           => Has(logStreams) \subseteq Has(blockFile)

DurableInv == TypeOK /\ LockInv /\ LoggedInv /\ CompactInv /\ Durable

\* The inductive invariant holds when nothing has been written.
LEMMA DurableInit == Init => DurableInv
<1> SUFFICES ASSUME Init PROVE DurableInv
  OBVIOUS
<1>1. TypeOK
  BY TypeInit
<1>2. LockInv
  BY ConstantsAssumption DEF Init, LockInv, CompactHolds, FlushHolds
<1>3. LoggedInv /\ CompactInv /\ Durable
  BY DEF Init, LoggedInv, CompactInv, Durable
<1> QED
  BY <1>1, <1>2, <1>3 DEF DurableInv

\* logLock is taken only when it is free and released only by its owner.
LEMMA LockStep == TypeOK /\ LockInv /\ [Next]_vars => LockInv'
<1> SUFFICES ASSUME TypeOK, LockInv, [Next]_vars PROVE LockInv'
  OBVIOUS
<1> USE ConstantsAssumption DEF LockInv, CompactHolds, FlushHolds
<1>1. ASSUME NEW w \in Writers, NEW S \in SUBSET Values, Add(w, S)
      PROVE  LockInv'
  BY <1>1 DEF TypeOK, Add, compactVars
<1>2. ASSUME NEW w \in Writers, WriterStep(w)
      PROVE  LockInv'
  <2>1. CASE AppendRead(w)
    BY <2>1 DEF TypeOK, AppendRead, compactVars
  <2>2. ASSUME NEW v \in Values, AppendStore(w, v)
        PROVE  LockInv'
    BY <2>2 DEF TypeOK, AppendStore, compactVars
  <2>3. CASE FlushCheck(w)
    BY <2>3 DEF TypeOK, FlushCheck, compactVars
  <2>4. CASE FlushLock(w)
    BY <2>4 DEF TypeOK, FlushLock, compactVars
  <2>5. ASSUME NEW v \in Values, FlushWrite(w, v)
        PROVE  LockInv'
    BY <2>5 DEF FlushWrite, writerVars, compactVars
  <2>6. CASE FlushFail(w)
    BY <2>6 DEF TypeOK, FlushFail, compactVars
  <2>7. CASE FlushMerge(w)
    BY <2>7 DEF TypeOK, FlushMerge, compactVars
  <2>8. CASE FlushReset(w)
    BY <2>8 DEF TypeOK, FlushReset, compactVars
  <2> QED
    BY <1>2, <2>1, <2>2, <2>3, <2>4, <2>5, <2>6, <2>7, <2>8 DEF WriterStep
<1>3. CASE CompactStart
  BY <1>3 DEF CompactStart, writerVars
<1>4. CASE CompactStep
  <2> USE DEF writerVars
  <2>1. CASE CompactLock
    BY <2>1 DEF CompactLock
  <2>2. CASE CompactRead
    BY <2>2 DEF CompactRead
  <2>3. CASE CompactReadFail
    BY <2>3 DEF CompactReadFail
  <2>9. CASE CompactFail
    BY <2>9 DEF CompactFail
  <2>4. CASE CompactRename
    BY <2>4 DEF CompactRename
  <2>5. ASSUME NEW v \in Values, CompactShortWrite(v)
        PROVE  LockInv'
    BY <2>5 DEF CompactShortWrite
  <2>6. CASE CompactRemoveLog
    BY <2>6 DEF CompactRemoveLog
  <2>7. CASE CompactRemoveFail
    BY <2>7 DEF CompactRemoveFail
  <2>8. CASE CompactClear
    BY <2>8 DEF CompactClear
  <2> QED
    BY <1>4, <2>1, <2>2, <2>3, <2>4, <2>5, <2>6, <2>7, <2>8, <2>9
       DEF CompactStep
<1>5. CASE Crash
  BY <1>5 DEF Crash
<1>6. CASE Open
  BY <1>6 DEF Open, writerVars, compactVars
<1>7. CASE UNCHANGED vars
  BY <1>7 DEF vars, writerVars, compactVars
<1> QED
  BY <1>1, <1>2, <1>3, <1>4, <1>5, <1>6, <1>7 DEF Next

\* What a step preserves when it leaves the disk, LogStreams and the history
\* alone and does not bring compactBlock to a step that carries something.
LEMMA QuietStep ==
    ASSUME CompactInv, Durable,
           UNCHANGED <<logStreams, logFile, blockFile, flushed, damaged>>,
           up' => up,
           UNCHANGED <<cpc, cbuf>> \/ cpc' \in {"idle", "lock", "read"}
    PROVE  CompactInv' /\ Durable'
  BY DEF CompactInv, Durable, OnDisk, Kept, Has

\* Every action of a Writer, of Flush, of compactBlock, a crash and a restart
\* preserve the inductive invariant.
LEMMA DurableStep == DurableInv /\ [Next]_vars => DurableInv'
<1> SUFFICES ASSUME DurableInv, [Next]_vars PROVE DurableInv'
  OBVIOUS
<1>a. TypeOK /\ LockInv /\ LoggedInv /\ CompactInv /\ Durable
  BY DEF DurableInv
<1>b. TypeOK' /\ LockInv'
  BY <1>a, TypeStep, LockStep
<1>c. SUFFICES LoggedInv' /\ CompactInv' /\ Durable'
  BY <1>b DEF DurableInv
<1> USE ConstantsAssumption
<1>1. ASSUME NEW w \in Writers, NEW S \in SUBSET Values, Add(w, S)
      PROVE  LoggedInv' /\ CompactInv' /\ Durable'
  <2>1. LoggedInv'
    BY <1>1, <1>a DEF Add, LoggedInv, Has, flushVars, diskVars
  <2> QED
    BY <1>1, <1>a, <2>1, QuietStep
       DEF Add, memVars, compactVars, diskVars, boundVars
<1>2. ASSUME NEW w \in Writers, WriterStep(w)
      PROVE  LoggedInv' /\ CompactInv' /\ Durable'
  <2>1. CASE AppendRead(w)
    <3>1. LoggedInv'
      BY <2>1, <1>a DEF AppendRead, LoggedInv, Has, flushVars, diskVars
    <3> QED
      BY <2>1, <1>a, <3>1, QuietStep
         DEF AppendRead, memVars, compactVars, diskVars, boundVars
  <2>2. ASSUME NEW v \in Values, AppendStore(w, v)
        PROVE  LoggedInv' /\ CompactInv' /\ Durable'
    <3>1. LoggedInv'
      BY <2>2, <1>a DEF AppendStore, LoggedInv, Has, flushVars, diskVars
    <3> QED
      BY <2>2, <1>a, <3>1, QuietStep
         DEF AppendStore, compactVars, diskVars, boundVars
  <2>3. CASE FlushCheck(w)
    <3>1. LoggedInv'
      BY <2>3, <1>a DEF FlushCheck, LoggedInv, Has, flushVars, diskVars
    <3> QED
      BY <2>3, <1>a, <3>1, QuietStep
         DEF FlushCheck, memVars, compactVars, diskVars, boundVars
  <2>4. CASE FlushLock(w)
    <3>1. LoggedInv'
      BY <2>4 DEF FlushLock, LoggedInv
    <3> QED
      BY <2>4, <1>a, <3>1, QuietStep
         DEF FlushLock, memVars, compactVars, diskVars, boundVars
  \* The log file only grows, by the record that is added to logged.
  <2>5. ASSUME NEW v \in Values, FlushWrite(w, v)
        PROVE  LoggedInv' /\ CompactInv' /\ Durable'
    <3>1. \/ Has(logFile') = Has(logFile) \cup {v} /\ logged' = logged \cup {v}
          \/ Has(logFile') = Has(logFile) /\ logged' = logged
      <4>1. logFile \in Contents
        BY <1>a DEF TypeOK
      <4>2. \/ logFile' = With(logFile, v) /\ logged' = logged \cup {v}
            \/ logFile' = logFile /\ logged' = logged
        BY <2>5 DEF FlushWrite
      <4> QED
        BY <4>1, <4>2, ContainsFacts
    <3>2. lock = w
      BY <2>5, <1>a DEF FlushWrite, LockInv, FlushHolds
    <3>3. LoggedInv'
      BY <2>5, <1>a, <3>1, <3>2 DEF FlushWrite, LoggedInv
    <3>4. CompactInv'
      BY <2>5, <1>a DEF FlushWrite, CompactInv, Kept, Has, memVars,
                        compactVars, boundVars
    <3>5. Durable'
      BY <2>5, <1>a, <3>1 DEF FlushWrite, Durable, OnDisk, Kept, Has, memVars,
                              boundVars
    <3> QED
      BY <3>3, <3>4, <3>5
  <2>6. CASE FlushFail(w)
    <3>1. LoggedInv'
      BY <2>6 DEF FlushFail, LoggedInv
    <3> QED
      BY <2>6, <1>a, <3>1, QuietStep DEF FlushFail, memVars, compactVars
  \* LogStreams only grows; what becomes flushed was logged before.
  <2>7. CASE FlushMerge(w)
    <3>1. lock = w /\ cpc \notin CompactHolds
      BY <2>7, <1>a DEF FlushMerge, LockInv, FlushHolds
    <3>2. LoggedInv'
      BY <2>7, <1>a DEF FlushMerge, LoggedInv, Has, flushVars, diskVars
    <3>3. CompactInv'
      BY <2>7, <3>1 DEF FlushMerge, CompactInv, CompactHolds, compactVars
    <3>4. Has(logStreams') = Has(logStreams) \cup Has(newStreams)
      BY <2>7, <1>a, ContainsFacts DEF FlushMerge, TypeOK
    <3>5. {v \in logged : newStreams[v] > 0} \subseteq Has(logFile) \cap Has(newStreams)
      BY <1>a DEF LoggedInv, Has
    <3>6. Durable'
      BY <2>7, <1>a, <3>4, <3>5 DEF FlushMerge, Durable, OnDisk, Kept, Has,
                                    diskVars, boundVars
    <3> QED
      BY <3>2, <3>3, <3>6
  <2>8. CASE FlushReset(w)
    <3>1. LoggedInv'
      BY <2>8 DEF FlushReset, LoggedInv
    <3> QED
      BY <2>8, <1>a, <3>1, QuietStep
         DEF FlushReset, compactVars, diskVars, boundVars
  <2> QED
    BY <1>2, <2>1, <2>2, <2>3, <2>4, <2>5, <2>6, <2>7, <2>8 DEF WriterStep
<1>3. CASE CompactStart
  <2>1. LoggedInv'
    BY <1>3, <1>a DEF CompactStart, LoggedInv, Has, flushVars, diskVars
  <2> QED
    BY <1>3, <1>a, <2>1, QuietStep
       DEF CompactStart, memVars, diskVars, boundVars
<1>4. CASE CompactStep
  \* compactBlock holds the lock in all its steps but the first, in which it
  \* takes it: no Flush has logged anything.
  <2>0. LoggedInv'
    <3>1. lock \notin Writers
      BY <1>4, <1>a DEF CompactStep, CompactLock, CompactRead,
         CompactReadFail, CompactFail, CompactRename, CompactShortWrite,
         CompactRemoveLog, CompactRemoveFail, CompactClear, LockInv, CompactHolds
    <3>2. UNCHANGED logged
      BY <1>4 DEF CompactStep, CompactLock, CompactRead,
         CompactReadFail, CompactFail, CompactRename, CompactShortWrite,
         CompactRemoveLog, CompactRemoveFail, CompactClear, flushVars
    <3> QED
      BY <1>a, <3>1, <3>2 DEF LoggedInv
  <2>1. CASE CompactLock
    BY <2>0, <2>1, <1>a, QuietStep
       DEF CompactLock, memVars, diskVars, boundVars
  <2>2. CASE CompactRead
    <3>1. Has(cbuf') = Kept
      BY <2>2, <1>a, ContainsFacts DEF CompactRead, Kept, TypeOK
    <3>2. CompactInv'
      BY <2>2, <3>1 DEF CompactRead, CompactInv, Kept, Has, memVars, diskVars
    <3>3. Durable'
      BY <2>2, <1>a DEF CompactRead, Durable, OnDisk, Kept, Has, memVars,
                        diskVars, boundVars
    <3> QED
      BY <2>0, <3>2, <3>3
  <2>3. CASE CompactReadFail
    BY <2>0, <2>3, <1>a, QuietStep DEF CompactReadFail, memVars, diskVars
  <2>9. CASE CompactFail
    BY <2>0, <2>9, <1>a, QuietStep DEF CompactFail, memVars
  \* The new block file holds all that block.Read returned.
  <2>4. CASE CompactRename
    <3>1. ~damaged' => Has(blockFile) \cup Has(logStreams) \subseteq Has(blockFile')
      BY <2>4, <1>a, WrittenFacts DEF CompactRename, CompactInv, Kept, TypeOK
    <3>2. CompactInv'
      BY <2>4, <3>1 DEF CompactRename, CompactInv, Has
    <3>3. Durable'
      BY <2>4, <1>a, <3>1 DEF CompactRename, Durable, OnDisk, Kept, Has
    <3> QED
      BY <2>0, <3>2, <3>3
  <2>5. ASSUME NEW v \in Values, CompactShortWrite(v)
        PROVE  LoggedInv' /\ CompactInv' /\ Durable'
    <3>1. damaged' /\ cpc' = "remove"
      BY <2>5 DEF CompactShortWrite
    <3> QED
      BY <2>0, <3>1 DEF CompactInv, Durable
  \* Without its log file the block is still complete: flushed streams that
  \* were only in the log are in LogStreams, hence in the new block file.
  <2>6. CASE CompactRemoveLog
    <3>1. up
      BY <2>6, <1>a DEF CompactRemoveLog, LockInv
    <3>2. CompactInv'
      BY <2>6, <1>a DEF CompactRemoveLog, CompactInv, Has, memVars, boundVars
    <3>3. Durable'
      BY <2>6, <1>a, <3>1 DEF CompactRemoveLog, CompactInv, Durable, OnDisk,
                              Kept, Has, memVars, boundVars
    <3> QED
      BY <2>0, <3>2, <3>3
  <2>7. CASE CompactRemoveFail
    <3>1. CompactInv'
      BY <2>7, <1>a DEF CompactRemoveFail, CompactInv, Has, memVars, diskVars
    <3>2. Durable'
      BY <2>7, <1>a DEF CompactRemoveFail, Durable, OnDisk, Kept, Has,
                        memVars, diskVars
    <3> QED
      BY <2>0, <3>1, <3>2
  <2>8. CASE CompactClear
    <3>1. CompactInv'
      BY <2>8 DEF CompactClear, CompactInv
    <3>2. Durable'
      BY <2>8, <1>a DEF CompactClear, CompactInv, Durable, OnDisk, Kept, Has,
                        diskVars, boundVars
    <3> QED
      BY <2>0, <3>1, <3>2
  <2> QED
    BY <1>4, <2>1, <2>2, <2>3, <2>4, <2>5, <2>6, <2>7, <2>8, <2>9
       DEF CompactStep
<1>5. CASE Crash
  <2>1. LoggedInv' /\ CompactInv'
    BY <1>5 DEF Crash, LoggedInv, CompactInv
  <2>2. Durable'
    BY <1>5, <1>a DEF Crash, Durable, OnDisk, Has
  <2> QED
    BY <2>1, <2>2
\* The new LogStreams is the log file: what is kept is what is on disk.
<1>6. CASE Open
  <2>1. LoggedInv'
    BY <1>6, <1>a DEF Open, LoggedInv, Has, flushVars, diskVars
  <2>2. cpc = "idle"
    BY <1>6, <1>a DEF Open, LockInv
  <2>3. CompactInv'
    BY <1>6, <2>2 DEF Open, CompactInv, compactVars
  <2>4. Durable'
    BY <1>6, <1>a DEF Open, Durable, OnDisk, Kept, Has, diskVars, boundVars
  <2> QED
    BY <2>1, <2>3, <2>4
<1>7. CASE UNCHANGED vars
  <2>1. LoggedInv'
    BY <1>7, <1>a DEF vars, LoggedInv, Has, flushVars, diskVars
  <2> QED
    BY <1>7, <1>a, <2>1, QuietStep
       DEF vars, memVars, compactVars, diskVars, boundVars
<1> QED
  BY <1>1, <1>2, <1>3, <1>4, <1>5, <1>6, <1>7 DEF Next

\* Whatever happens, a stream that one Flush has logged and merged stays on
\* disk, and the running process keeps it (Durable).
THEOREM FlushedIsDurable == Spec => []Durable
<1>1. DurableInv => Durable
  BY DEF DurableInv
<1> QED
  BY DurableInit, DurableStep, <1>1, PTL DEF Spec

\* No step of a running process drops a stream that block.Read would return
\* from the block file or from LogStreams (KeptStays).
THEOREM CompactionLosesNothing == Spec => KeptStays
<1> DEFINE Keeps == up /\ up' /\ ~damaged' => Kept \subseteq Kept'
<1>1. DurableInv /\ [Next]_vars => [Keeps]_vars
  <2> SUFFICES ASSUME DurableInv, Next, up, up', ~damaged'
               PROVE  Kept \subseteq Kept'
    BY DEF Keeps
  <2>a. TypeOK /\ LockInv /\ CompactInv
    BY DEF DurableInv
  <2>b. CASE UNCHANGED <<blockFile, logStreams>>
    BY <2>b DEF Kept, Has
  <2>1. ASSUME NEW w \in Writers, FlushMerge(w)
        PROVE  Kept \subseteq Kept'
    <3>1. Has(logStreams') = Has(logStreams) \cup Has(newStreams)
      BY <2>1, <2>a, ContainsFacts DEF FlushMerge, TypeOK
    <3> QED
      BY <2>1, <3>1 DEF FlushMerge, Kept, Has, diskVars
  <2>2. CASE CompactRename
    BY <2>2, <2>a, WrittenFacts DEF CompactRename, CompactInv, Kept, TypeOK
  <2>3. ASSUME NEW v \in Values, CompactShortWrite(v)
        PROVE  FALSE
    BY <2>3 DEF CompactShortWrite
  <2>4. CASE CompactClear
    BY <2>4, <2>a DEF CompactClear, CompactInv, Kept, Has, diskVars,
                      boundVars
  <2>5. ~ Crash /\ ~ Open
    BY DEF Crash, Open
  <2>6. ASSUME NEW w \in Writers, NEW S \in SUBSET Values, Add(w, S)
        PROVE  UNCHANGED <<blockFile, logStreams>>
    BY <2>6 DEF Add, memVars, diskVars
  <2>7. ASSUME NEW w \in Writers, WriterStep(w), ~ FlushMerge(w)
        PROVE  UNCHANGED <<blockFile, logStreams>>
    BY <2>7 DEF WriterStep, AppendRead, AppendStore, FlushCheck, FlushLock,
                FlushWrite, FlushFail, FlushReset, memVars, diskVars
  <2>8. CASE CompactStart
    BY <2>8, <2>b DEF CompactStart, memVars, diskVars
  <2>9. CASE CompactStep
    BY <2>9, <2>b, <2>2, <2>3, <2>4
       DEF CompactStep, CompactLock, CompactRead, CompactReadFail,
           CompactFail, CompactRemoveLog, CompactRemoveFail, memVars, diskVars
  <2> QED
    BY <2>b, <2>1, <2>5, <2>6, <2>7, <2>8, <2>9 DEF Next
<1> QED
  BY DurableInit, DurableStep, <1>1, PTL DEF Spec, KeptStays
-----------------------------------------------------------------------------
(***************************************************************************)
(* The refinement of DurableStore.                                         *)
(***************************************************************************)

\* Every copy of a stream, in a channel, in a slice, in a buffer or in a file,
\* is a copy of a stream that a client has sent.
SentInv ==
    /\ \A w \in Writers : chan[w] \subseteq sent /\ Has(hdr[w]) \subseteq sent
    /\ Has(newStreams) \subseteq sent
    /\ Has(logStreams) \subseteq sent
    /\ Has(toLog) \subseteq sent
    /\ Has(cbuf) \subseteq sent
    /\ Has(tmpFile) \subseteq sent
    /\ Has(logFile) \subseteq sent
    /\ Has(blockFile) \subseteq sent

\* block.Write writes nothing that was neither read from the old block file
\* and LogStreams nor left over from an earlier attempt.
LEMMA WrittenFrom ==
    ASSUME tmpFile \in Contents, cbuf \in Contents, NEW c \in Written
    PROVE  Has(c) \subseteq Has(tmpFile) \cup Has(cbuf)
<1>1. CASE ~ leftover
  BY <1>1 DEF Written
<1>2. CASE leftover
  <2>1. PICK A \in SUBSET Values, B \in SUBSET Values :
            c = Plus(Only(tmpFile, A), Only(cbuf, B))
    BY <1>2 DEF Written
  <2>2. Only(tmpFile, A) \in Contents /\ Only(cbuf, B) \in Contents
    BY OnlyFacts
  <2>3. Has(c) = Has(Only(tmpFile, A)) \cup Has(Only(cbuf, B))
    BY <2>1, <2>2, ContainsFacts
  <2>4. /\ Has(Only(tmpFile, A)) \subseteq Has(tmpFile)
        /\ Has(Only(cbuf, B)) \subseteq Has(cbuf)
    BY DEF Has, Only
  <2> QED
    BY <2>3, <2>4
<1> QED
  BY <1>1, <1>2

\* No action invents a stream: the append race may lose streams or double
\* them, a leftover may bring back old ones, but each has been sent.
LEMMA SentStep == TypeOK /\ SentInv /\ [Next]_vars => SentInv'
<1> SUFFICES ASSUME TypeOK, SentInv, [Next]_vars PROVE SentInv'
  OBVIOUS
<1> USE DEF tmpVars
<1>1. ASSUME NEW w \in Writers, NEW S \in SUBSET Values, Add(w, S)
      PROVE  SentInv'
  BY <1>1 DEF TypeOK, SentInv, Add, Has, memVars, flushVars, compactVars,
              diskVars
<1>2. ASSUME NEW w \in Writers, WriterStep(w)
      PROVE  SentInv'
  <2>1. CASE AppendRead(w)
    BY <2>1 DEF TypeOK, SentInv, AppendRead, Has, memVars, flushVars,
                compactVars, diskVars
  <2>2. ASSUME NEW v \in Values, AppendStore(w, v)
        PROVE  SentInv'
    <3>1. Has(newStreams') \subseteq sent
      <4>1. hdr[w] \in Contents /\ v \in sent
        BY <2>2 DEF AppendStore, TypeOK, SentInv
      <4> QED
        BY <2>2, <4>1, ContainsFacts DEF AppendStore, SentInv
    <3>2. ASSUME NEW u \in Writers
          PROVE  chan'[u] \subseteq sent /\ Has(hdr'[u]) \subseteq sent
      BY <2>2, ContainsFacts DEF AppendStore, TypeOK, SentInv
    <3> QED
      BY <2>2, <3>1, <3>2 DEF AppendStore, SentInv, Has, flushVars,
                              compactVars, diskVars
  <2>3. CASE FlushCheck(w)
    BY <2>3 DEF SentInv, FlushCheck, Has, memVars, flushVars, compactVars,
                diskVars
  <2>4. CASE FlushLock(w)
    BY <2>4 DEF SentInv, FlushLock, Has, memVars, compactVars, diskVars
  <2>5. ASSUME NEW v \in Values, FlushWrite(w, v)
        PROVE  SentInv'
    <3>1. v \in sent
      BY <2>5 DEF FlushWrite, SentInv, Has
    <3>2. Has(logFile') \subseteq sent
      BY <2>5, <3>1, ContainsFacts DEF FlushWrite, SentInv, TypeOK
    <3>3. Has(toLog') \subseteq sent
      <4>1. \A u \in Values : toLog'[u] > 0 => toLog[u] > 0
        BY <2>5 DEF FlushWrite, TypeOK, Contents
      <4> QED
        BY <4>1 DEF SentInv, Has
    <3> QED
      BY <2>5, <3>2, <3>3 DEF FlushWrite, SentInv, Has, writerVars, memVars,
                              compactVars
  <2>6. CASE FlushFail(w)
    BY <2>6, ContainsFacts DEF SentInv, FlushFail, Has, memVars, compactVars
  <2>7. CASE FlushMerge(w)
    <3>1. Has(logStreams') = Has(logStreams) \cup Has(newStreams)
      BY <2>7, ContainsFacts DEF FlushMerge, TypeOK
    <3> QED
      BY <2>7, <3>1 DEF SentInv, FlushMerge, Has, flushVars, compactVars,
                        diskVars
  <2>8. CASE FlushReset(w)
    BY <2>8, ContainsFacts DEF SentInv, FlushReset, compactVars, diskVars
  <2> QED
    BY <1>2, <2>1, <2>2, <2>3, <2>4, <2>5, <2>6, <2>7, <2>8 DEF WriterStep
<1>3. CASE CompactStart
  BY <1>3 DEF SentInv, CompactStart, writerVars, memVars, flushVars, diskVars
<1>4. CASE CompactStep
  <2> USE DEF writerVars, memVars, flushVars, diskVars
  <2>0. \A c \in Written : Has(c) \subseteq sent
    BY WrittenFrom DEF TypeOK, SentInv
  <2>1. CASE CompactLock
    BY <2>1 DEF CompactLock, SentInv
  <2>2. CASE CompactRead
    <3>1. Has(cbuf') = Has(blockFile) \cup Has(logStreams)
      BY <2>2, ContainsFacts DEF CompactRead, TypeOK
    <3> QED
      BY <2>2, <3>1 DEF CompactRead, SentInv
  <2>3. CASE CompactReadFail
    BY <2>3 DEF CompactReadFail, SentInv
  <2>4. CASE CompactFail
    BY <2>0, <2>4, ContainsFacts DEF CompactFail, SentInv
  <2>5. CASE CompactRename
    BY <2>0, <2>5, ContainsFacts DEF CompactRename, SentInv
  <2>6. ASSUME NEW v \in Values, CompactShortWrite(v)
        PROVE  SentInv'
    <3>1. PICK c \in Written : blockFile' = [c EXCEPT ![v] = 0]
      BY <2>6 DEF CompactShortWrite
    <3>2. c \in Contents
      BY WrittenFacts DEF TypeOK
    <3>3. Has(blockFile') \subseteq Has(c)
      BY <3>1, <3>2 DEF Has, Contents
    <3> QED
      BY <2>0, <2>6, <3>3, ContainsFacts DEF CompactShortWrite, SentInv
  <2>7. CASE CompactRemoveLog
    BY <2>7, ContainsFacts DEF CompactRemoveLog, SentInv
  <2>8. CASE CompactRemoveFail
    BY <2>8 DEF CompactRemoveFail, SentInv
  <2>9. CASE CompactClear
    BY <2>9, ContainsFacts DEF CompactClear, SentInv
  <2> QED
    BY <1>4, <2>1, <2>2, <2>3, <2>4, <2>5, <2>6, <2>7, <2>8, <2>9
       DEF CompactStep
<1>5. CASE Crash
  BY <1>5, ContainsFacts DEF Crash, SentInv
<1>6. CASE Open
  BY <1>6 DEF Open, SentInv, writerVars, flushVars, compactVars, diskVars
<1>7. CASE UNCHANGED vars
  BY <1>7 DEF SentInv, vars, writerVars, memVars, flushVars, compactVars,
              diskVars
<1> QED
  BY <1>1, <1>2, <1>3, <1>4, <1>5, <1>6, <1>7 DEF Next

\* The inductive invariant of the refinement.
EngineInv == DurableInv /\ SentInv

\* Every step of the block is a step of DurableStore or does not concern it:
\* a request accepts, a log write, a rename and the removal of the log store,
\* and the end of a Flush promises.
LEMMA EngineStep == EngineInv /\ EngineInv' /\ [Next]_vars => [Engine!Next]_(Engine!vars)
<1> SUFFICES ASSUME EngineInv, EngineInv', [Next]_vars
             PROVE  [Engine!Next]_(Engine!vars)
  OBVIOUS
<1>a. /\ TypeOK /\ LoggedInv /\ SentInv /\ Durable
      /\ TypeOK' /\ SentInv' /\ Durable'
  BY DEF EngineInv, DurableInv
<1>b. OnDisk \subseteq sent /\ OnDisk' \subseteq sent'
  BY <1>a DEF SentInv, OnDisk
\* A step that leaves the files and the history alone is a stutter.
<1>c. ASSUME UNCHANGED <<sent, logFile, blockFile, flushed, damaged>>
      PROVE  UNCHANGED Engine!vars
  BY <1>c DEF Engine!vars, OnDisk, Has
\* A step that changes files, and promises nothing, stores.
<1>d. ASSUME UNCHANGED <<sent, flushed>>, damaged => damaged'
      PROVE  Engine!Next
  <2>1. damaged' \/ flushed \subseteq OnDisk'
    BY <1>a, <1>d DEF Durable
  <2> QED
    BY <1>b, <1>d, <2>1 DEF Engine!Next, Engine!Store
<1>1. ASSUME NEW w \in Writers, NEW S \in SUBSET Values, Add(w, S)
      PROVE  Engine!Next
  <2>1. sent \subseteq sent' /\ sent' \subseteq Values
    BY <1>1, <1>a DEF Add, TypeOK
  <2>2. UNCHANGED <<OnDisk, flushed, damaged>>
    BY <1>1 DEF Add, OnDisk, Has, diskVars, boundVars
  <2> QED
    BY <2>1, <2>2 DEF Engine!Next, Engine!Accept
<1>2. ASSUME NEW w \in Writers, FlushMerge(w)
      PROVE  Engine!Next
  <2>1. UNCHANGED <<OnDisk, sent, damaged>>
    BY <1>2 DEF FlushMerge, OnDisk, Has, diskVars, boundVars
  <2>2. flushed \subseteq flushed' /\ flushed' \ flushed \subseteq OnDisk
    BY <1>2, <1>a DEF FlushMerge, LoggedInv, OnDisk
  <2> QED
    BY <1>b, <2>1, <2>2 DEF Engine!Next, Engine!Promise
<1>3. ASSUME NEW w \in Writers, WriterStep(w), ~ FlushMerge(w)
      PROVE  [Engine!Next]_(Engine!vars)
  <2>1. UNCHANGED <<sent, flushed, damaged>>
    BY <1>3 DEF WriterStep, AppendRead, AppendStore, FlushCheck, FlushLock,
                FlushWrite, FlushFail, FlushReset, boundVars
  <2> QED
    BY <1>d, <2>1
<1>4. CASE CompactStep
  <2>1. UNCHANGED <<sent, flushed>>
    BY <1>4 DEF CompactStep, CompactLock, CompactRead, CompactReadFail,
       CompactFail, CompactRename, CompactShortWrite, CompactRemoveLog,
       CompactRemoveFail, CompactClear
  <2>2. CASE CompactRename
    BY <1>d, <2>1, <2>2 DEF CompactRename
  <2>3. ASSUME NEW v \in Values, CompactShortWrite(v)
        PROVE  Engine!Next
    BY <1>d, <2>1, <2>3 DEF CompactShortWrite
  <2>4. ASSUME ~ CompactRename, \A v \in Values : ~ CompactShortWrite(v)
        PROVE  UNCHANGED damaged
    BY <1>4, <2>4 DEF CompactStep, CompactLock, CompactRead, CompactReadFail,
       CompactFail, CompactRemoveLog, CompactRemoveFail, CompactClear,
       boundVars
  <2> QED
    BY <1>d, <2>1, <2>2, <2>3, <2>4
<1>5. CASE CompactStart \/ Crash \/ Open
  BY <1>5, <1>c DEF CompactStart, Crash, Open, diskVars, boundVars
<1>6. CASE UNCHANGED vars
  BY <1>6, <1>c DEF vars, diskVars, boundVars
<1> QED
  BY <1>1, <1>2, <1>3, <1>4, <1>5, <1>6 DEF Next

\* The block implements DurableStore: racing Writers, Flush, compaction,
\* failing file operations, crashes and restarts only ever do to the disk
\* what the engine's clients are promised (ImplementsDurableStore).
THEOREM BlockImplementsDurableStore == Spec => ImplementsDurableStore
<1>1. Init => EngineInv
  BY DurableInit, ContainsFacts DEF Init, EngineInv, SentInv
<1>2. EngineInv /\ [Next]_vars => EngineInv'
  BY DurableStep, SentStep DEF EngineInv, DurableInv
<1>3. Init => Engine!Init
  BY ContainsFacts DEF Init, Engine!Init, OnDisk
<1> QED
  BY <1>1, <1>2, <1>3, EngineStep, PTL
     DEF Spec, ImplementsDurableStore, Engine!Spec
=============================================================================
