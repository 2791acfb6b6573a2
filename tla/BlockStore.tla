----------------------------- MODULE BlockStore -----------------------------
(***************************************************************************)
(* One block of the Go datastore (datastore/datastore.go) and everything   *)
(* that runs against it concurrently:                                      *)
(*                                                                         *)
(*  - the Writer goroutine of every /add request, which appends the        *)
(*    streams of the request to the block's NewStreams without a lock and  *)
(*    then calls Flush;                                                    *)
(*  - Flush, which copies NewStreams to the log file and to LogStreams     *)
(*    under logLock;                                                       *)
(*  - the ticker goroutine started by Open, which compacts the block       *)
(*    (compactBlock, DatastoreBlock.Read, DatastoreBlock.Write);           *)
(*  - a crash of the process and the next Open (readBlock, readBlockLog).  *)
(*                                                                         *)
(* A stream is one value of the constant set Values: what the streams      *)
(* contain does not matter here, only where each one is and how often.     *)
(* The contents of a slice, a map or a file are therefore a function       *)
(* [Values -> Nat].                                                        *)
(***************************************************************************)
EXTENDS Naturals

CONSTANTS
    Values,         \* the streams clients may send, each of them once
    Writers,        \* the Writer goroutines, each serving /add requests
    Compactor,      \* the ticker goroutine of Open, as an owner of logLock
    None,           \* logLock is not held
    MaxCrashes,     \* bound: crashes of the process
    MaxIOErrors,    \* bound: failing file operations that the code notices
    MaxShortWrites  \* bound: failing writes of a block file, never noticed

ASSUME ConstantsAssumption ==
    /\ Compactor \notin Writers
    /\ None \notin Writers \cup {Compactor}
    /\ MaxCrashes \in Nat
    /\ MaxIOErrors \in Nat
    /\ MaxShortWrites \in Nat

VARIABLES
    \* the process: its goroutines and its memory
    up,             \* the process runs
    pc,             \* where each Writer goroutine is
    chan,           \* the streams in each Writer's channel
    hdr,            \* the slice a Writer read in order to append to it
    newStreams,     \* block.NewStreams
    logStreams,     \* block.LogStreams
    indexed,        \* block.BlockHeader.Index describes the block file
    lock,           \* the owner of block.logLock
    toLog,          \* what the first loop of the running Flush has to write
    cpc,            \* where compactBlock is
    cbuf,           \* the streams compactBlock has read
    \* the disk
    logFile,        \* the records of block.<id>.log that can be read back
    logTorn,        \* block.<id>.log contains a record written in part
    blockFile,      \* the streams block.Read finds in block.<id>
    leftover,       \* block.<id>.new.<pid> is left from a failed compaction
    tmpFile,        \* the streams block.Read would find in it
    \* bounds and history
    sent,           \* the streams handed to Writers so far
    logged,         \* the readable records the running Flush has written
    flushed,        \* the streams one Flush has both logged and merged
    damaged,        \* a block file that may lack streams was put into place
    crashes, ioErrors, shortWrites

writerVars == <<pc, chan, hdr>>
memVars    == <<newStreams, logStreams, indexed>>
flushVars  == <<toLog, logged>>
compactVars == <<cpc, cbuf>>
tmpVars    == <<leftover, tmpFile>>
diskVars   == <<logFile, logTorn, blockFile, tmpVars>>
boundVars  == <<crashes, ioErrors, shortWrites, damaged>>
vars == <<up, writerVars, memVars, lock, flushVars, compactVars, diskVars,
          sent, flushed, boundVars>>
-----------------------------------------------------------------------------
Contents == [Values -> Nat]
Empty    == [v \in Values |-> 0]

Plus(a, b) == [v \in Values |-> a[v] + b[v]]
With(a, v) == [a EXCEPT ![v] = @ + 1]
Only(a, S) == [v \in Values |-> IF v \in S THEN a[v] ELSE 0]
Has(a)     == {v \in Values : a[v] > 0}

\* Streams that readBlockLog or block.Read of the next process would find.
OnDisk == Has(blockFile) \cup Has(logFile)

\* Streams block.Read returns: the next compaction writes them again.
Kept == Has(blockFile) \cup Has(logStreams)

\* Streams a query finds: Reader takes no lock. It looks at LogStreams and at
\* NewStreams and follows the index into the block file.
Served == Has(logStreams) \cup Has(newStreams)
            \cup (IF indexed THEN Has(blockFile) ELSE {})
-----------------------------------------------------------------------------
Init ==
    /\ up = TRUE
    /\ pc = [w \in Writers |-> "idle"]
    /\ chan = [w \in Writers |-> {}]
    /\ hdr = [w \in Writers |-> Empty]
    /\ newStreams = Empty
    /\ logStreams = Empty
    /\ indexed = TRUE
    /\ lock = None
    /\ toLog = Empty
    /\ cpc = "idle"
    /\ cbuf = Empty
    /\ logFile = Empty
    /\ logTorn = FALSE
    /\ blockFile = Empty
    /\ leftover = FALSE
    /\ tmpFile = Empty
    /\ sent = {}
    /\ logged = {}
    /\ flushed = {}
    /\ damaged = FALSE
    /\ crashes = 0
    /\ ioErrors = 0
    /\ shortWrites = 0
-----------------------------------------------------------------------------
(***************************************************************************)
(* The Writer goroutine.                                                   *)
(***************************************************************************)

\* The /add handler makes a Writer and fills and closes its channel.
Add(w, S) ==
    /\ up
    /\ pc[w] = "idle"
    /\ S # {}
    /\ S \subseteq Values \ sent
    /\ chan' = [chan EXCEPT ![w] = S]
    /\ pc' = [pc EXCEPT ![w] = "recv"]
    /\ sent' = sent \cup S
    /\ UNCHANGED <<up, hdr, memVars, lock, flushVars, compactVars, diskVars,
                   flushed, boundVars>>

\* block.NewStreams = append(block.NewStreams, stream) takes no lock: the
\* slice is read in one step and written back in another.
AppendRead(w) ==
    /\ pc[w] = "recv"
    /\ chan[w] # {}
    /\ hdr' = [hdr EXCEPT ![w] = newStreams]
    /\ pc' = [pc EXCEPT ![w] = "store"]
    /\ UNCHANGED <<up, chan, memVars, lock, flushVars, compactVars, diskVars,
                   sent, flushed, boundVars>>

AppendStore(w, v) ==
    /\ pc[w] = "store"
    /\ v \in chan[w]
    /\ newStreams' = With(hdr[w], v)
    /\ chan' = [chan EXCEPT ![w] = @ \ {v}]
    /\ hdr' = [hdr EXCEPT ![w] = Empty]
    /\ pc' = [pc EXCEPT ![w] = "recv"]
    /\ UNCHANGED <<up, logStreams, indexed, lock, flushVars, compactVars,
                   diskVars, sent, flushed, boundVars>>

\* The channel is closed and empty: Flush looks at len(block.NewStreams)
\* before it takes the lock.
FlushCheck(w) ==
    /\ pc[w] = "recv"
    /\ chan[w] = {}
    /\ pc' = [pc EXCEPT ![w] = IF newStreams = Empty THEN "idle" ELSE "lock"]
    /\ UNCHANGED <<up, chan, hdr, memVars, lock, flushVars, compactVars,
                   diskVars, sent, flushed, boundVars>>
-----------------------------------------------------------------------------
(***************************************************************************)
(* Flush.                                                                  *)
(***************************************************************************)

\* logLock.Lock, and the slice the first loop ranges over.
FlushLock(w) ==
    /\ pc[w] = "lock"
    /\ lock = None
    /\ lock' = w
    /\ toLog' = newStreams
    /\ logged' = {}
    /\ pc' = [pc EXCEPT ![w] = "log"]
    /\ UNCHANGED <<up, chan, hdr, memVars, compactVars, diskVars, sent,
                   flushed, boundVars>>

\* FAULT: a stream is written although the loop has written it already.
FlushWriteTwice(w, v) ==
    /\ pc[w] = "log"
    /\ toLog' = [toLog EXCEPT ![v] = @ - 1]
    /\ logFile' = With(logFile, v)
    /\ logged' = logged \cup {v}
    /\ UNCHANGED <<up, writerVars, memVars, lock, compactVars, logTorn,
                   blockFile, tmpVars, sent, flushed, boundVars>>

\* file.Write(stream) appends one record. Behind a record written in part the
\* reader has lost the record boundaries, and may or may not find this one.
FlushWrite(w, v) ==
    /\ pc[w] = "log"
    /\ toLog[v] > 0
    /\ toLog' = [toLog EXCEPT ![v] = @ - 1]
    /\ \E readable \in IF logTorn THEN BOOLEAN ELSE {TRUE} :
          /\ logFile' = IF readable THEN With(logFile, v) ELSE logFile
          /\ logged' = IF readable THEN logged \cup {v} ELSE logged
    /\ UNCHANGED <<up, writerVars, memVars, lock, compactVars, logTorn,
                   blockFile, tmpVars, sent, flushed, boundVars>>

\* FAULT: the early return of Flush does not unlock.
FlushFailKeepsLock(w) ==
    /\ pc[w] = "log"
    /\ toLog # Empty
    /\ ioErrors < MaxIOErrors
    /\ ioErrors' = ioErrors + 1
    /\ toLog' = Empty
    /\ logged' = {}
    /\ pc' = [pc EXCEPT ![w] = "idle"]
    /\ UNCHANGED <<up, chan, hdr, memVars, lock, compactVars, diskVars,
                   sent, flushed, crashes, shortWrites, damaged>>

\* Opening or writing the log file fails: Flush returns, the deferred Unlock
\* runs, NewStreams keeps all its streams. A failing write may leave part of
\* a record behind.
FlushFail(w) ==
    /\ pc[w] = "log"
    /\ toLog # Empty
    /\ ioErrors < MaxIOErrors
    /\ ioErrors' = ioErrors + 1
    /\ \E torn \in BOOLEAN : logTorn' = (logTorn \/ torn)
    /\ lock' = None
    /\ toLog' = Empty
    /\ logged' = {}
    /\ pc' = [pc EXCEPT ![w] = "idle"]
    /\ UNCHANGED <<up, chan, hdr, memVars, compactVars, logFile, blockFile,
                   tmpVars, sent, flushed, crashes, shortWrites, damaged>>

\* The second loop ranges over NewStreams again, which may have changed.
FlushMerge(w) ==
    /\ pc[w] = "log"
    /\ toLog = Empty
    /\ logStreams' = Plus(logStreams, newStreams)
    /\ flushed' = flushed \cup {v \in logged : newStreams[v] > 0}
    /\ pc' = [pc EXCEPT ![w] = "reset"]
    /\ UNCHANGED <<up, chan, hdr, newStreams, indexed, lock, flushVars,
                   compactVars, diskVars, sent, boundVars>>

FlushReset(w) ==
    /\ pc[w] = "reset"
    /\ newStreams' = Empty
    /\ lock' = None
    /\ logged' = {}
    /\ pc' = [pc EXCEPT ![w] = "idle"]
    /\ UNCHANGED <<up, chan, hdr, logStreams, indexed, toLog, compactVars,
                   diskVars, sent, flushed, boundVars>>
-----------------------------------------------------------------------------
(***************************************************************************)
(* compactBlock, called from the ticker. Each condition of shouldCompact   *)
(* implies that LogStreams is not empty; the thresholds are abstracted.    *)
(***************************************************************************)
CompactStart ==
    /\ up
    /\ cpc = "idle"
    /\ logStreams # Empty
    /\ cpc' = "lock"
    /\ UNCHANGED <<up, writerVars, memVars, lock, flushVars, cbuf, diskVars,
                   sent, flushed, boundVars>>

CompactLock ==
    /\ cpc = "lock"
    /\ lock = None
    /\ lock' = Compactor
    /\ cpc' = "read"
    /\ UNCHANGED <<up, writerVars, memVars, flushVars, cbuf, diskVars, sent,
                   flushed, boundVars>>

\* FAULT: only the block file is read, LogStreams is forgotten.
CompactReadNoLog ==
    /\ cpc = "read"
    /\ cbuf' = blockFile
    /\ indexed' = FALSE
    /\ cpc' = "rename"
    /\ UNCHANGED <<up, writerVars, newStreams, logStreams, lock, flushVars,
                   diskVars, sent, flushed, boundVars>>

\* block.Read: the streams of the block file, then LogStreams. block.Write
\* then builds BlockHeader.Index anew for block.<id>.new.<pid>, and writes that
\* file, which no reader looks at.
CompactRead ==
    /\ cpc = "read"
    /\ cbuf' = Plus(blockFile, logStreams)
    /\ indexed' = FALSE
    /\ cpc' = "rename"
    /\ UNCHANGED <<up, writerVars, newStreams, logStreams, lock, flushVars,
                   diskVars, sent, flushed, boundVars>>

\* block.Read returns an error, before anything has changed.
CompactReadFail ==
    /\ cpc = "read"
    /\ ioErrors < MaxIOErrors
    /\ ioErrors' = ioErrors + 1
    /\ lock' = None
    /\ cpc' = "idle"
    /\ UNCHANGED <<up, writerVars, memVars, flushVars, cbuf, diskVars, sent,
                   flushed, crashes, shortWrites, damaged>>

\* The leftover has the same index as the file to be written, and so a header
\* of the same length: cbuf grows from one attempt to the next.
SameHeader == Has(tmpFile) = Has(cbuf)

\* What block.Read will find in the file that was written. WriteProtoFile does
\* not truncate: the streams follow the footer of a leftover, where the reader
\* may stop, and the header is written over its beginning.
Written ==
    IF leftover
      THEN {Plus(Only(tmpFile, A), Only(cbuf, B)) :
              A \in IF SameHeader THEN {Values} ELSE SUBSET Values,
              B \in SUBSET Values}
      ELSE {cbuf}

\* FAULT: the error of block.Write is ignored and the log removed.
CompactFailGoesOn ==
    /\ cpc = "rename"
    /\ ioErrors < MaxIOErrors
    /\ ioErrors' = ioErrors + 1
    /\ leftover' = TRUE
    /\ tmpFile' \in Written
    /\ cbuf' = Empty
    /\ cpc' = "remove"
    /\ UNCHANGED <<up, writerVars, memVars, lock, flushVars, logFile, logTorn,
                   blockFile, sent, flushed, crashes, shortWrites, damaged>>

\* The rename in block.Write returns an error. The index stays the one of the
\* file that was not put into place, and that file stays too.
CompactFail ==
    /\ cpc = "rename"
    /\ ioErrors < MaxIOErrors
    /\ ioErrors' = ioErrors + 1
    /\ leftover' = TRUE
    /\ tmpFile' \in Written
    /\ lock' = None
    /\ cbuf' = Empty
    /\ cpc' = "idle"
    /\ UNCHANGED <<up, writerVars, memVars, flushVars, logFile, logTorn,
                   blockFile, sent, flushed, crashes, shortWrites, damaged>>

CompactRename ==
    /\ cpc = "rename"
    /\ blockFile' \in Written
    /\ leftover' = FALSE
    /\ tmpFile' = Empty
    /\ damaged' = (damaged \/ (leftover /\ ~SameHeader))
    /\ indexed' = TRUE
    /\ cbuf' = Empty
    /\ cpc' = "remove"
    /\ UNCHANGED <<up, writerVars, newStreams, logStreams, lock, flushVars,
                   logFile, logTorn, sent, flushed, crashes, ioErrors,
                   shortWrites>>

\* The results of newfile.Write are not looked at: a stream whose write failed
\* is missing from the file that is renamed into place.
CompactShortWrite(v) ==
    /\ cpc = "rename"
    /\ shortWrites < MaxShortWrites
    /\ shortWrites' = shortWrites + 1
    /\ \E c \in Written : blockFile' = [c EXCEPT ![v] = 0]
    /\ leftover' = FALSE
    /\ tmpFile' = Empty
    /\ damaged' = TRUE
    /\ indexed' = TRUE
    /\ cbuf' = Empty
    /\ cpc' = "remove"
    /\ UNCHANGED <<up, writerVars, newStreams, logStreams, lock, flushVars,
                   logFile, logTorn, sent, flushed, crashes, ioErrors>>

CompactRemoveLog ==
    /\ cpc = "remove"
    /\ logFile' = Empty
    /\ logTorn' = FALSE
    /\ cpc' = "clear"
    /\ UNCHANGED <<up, writerVars, memVars, lock, flushVars, cbuf, blockFile,
                   tmpVars, sent, flushed, boundVars>>

\* The result of os.Remove is not looked at.
CompactRemoveFail ==
    /\ cpc = "remove"
    /\ ioErrors < MaxIOErrors
    /\ ioErrors' = ioErrors + 1
    /\ cpc' = "clear"
    /\ UNCHANGED <<up, writerVars, memVars, lock, flushVars, cbuf, diskVars,
                   sent, flushed, crashes, shortWrites, damaged>>

CompactClear ==
    /\ cpc = "clear"
    /\ logStreams' = Empty
    /\ lock' = None
    /\ cpc' = "idle"
    /\ UNCHANGED <<up, writerVars, newStreams, indexed, flushVars, cbuf,
                   diskVars, sent, flushed, boundVars>>
-----------------------------------------------------------------------------
(***************************************************************************)
(* The process dies: its memory is gone, its files stay. A crash while a   *)
(* Flush writes the log may leave part of a record behind. The next        *)
(* process has another pid and looks at no file of block.Write left over.  *)
(***************************************************************************)
Crash ==
    /\ up
    /\ crashes < MaxCrashes
    /\ crashes' = crashes + 1
    /\ \E torn \in IF toLog = Empty THEN {FALSE} ELSE BOOLEAN :
          logTorn' = (logTorn \/ torn)
    /\ up' = FALSE
    /\ pc' = [w \in Writers |-> "idle"]
    /\ chan' = [w \in Writers |-> {}]
    /\ hdr' = [w \in Writers |-> Empty]
    /\ newStreams' = Empty
    /\ logStreams' = Empty
    /\ indexed' = TRUE
    /\ lock' = None
    /\ toLog' = Empty
    /\ logged' = {}
    /\ cpc' = "idle"
    /\ cbuf' = Empty
    /\ leftover' = FALSE
    /\ tmpFile' = Empty
    /\ UNCHANGED <<logFile, blockFile, sent, flushed, ioErrors, shortWrites,
                   damaged>>

\* readBlock takes the index of the block file, readBlockLog replaces
\* LogStreams by the records it can read from the log file.
\* FAULT: the log file is removed once it has been read.
OpenRemovesLog ==
    /\ ~up
    /\ up' = TRUE
    /\ logStreams' = logFile
    /\ logFile' = Empty
    /\ UNCHANGED <<writerVars, newStreams, indexed, lock, flushVars,
                   compactVars, logTorn, blockFile, tmpVars, sent, flushed, boundVars>>
Open ==
    /\ ~up
    /\ up' = TRUE
    /\ logStreams' = logFile
    /\ UNCHANGED <<writerVars, newStreams, indexed, lock, flushVars,
                   compactVars, diskVars, sent, flushed, boundVars>>
-----------------------------------------------------------------------------
WriterStep(w) ==
    \/ AppendRead(w)
    \/ \E v \in Values : AppendStore(w, v)
    \/ FlushCheck(w)
    \/ FlushLock(w)
    \/ \E v \in Values : FlushWrite(w, v)
    \/ FlushFail(w)
    \/ FlushMerge(w)
    \/ FlushReset(w)

CompactStep ==
    \/ CompactLock
    \/ CompactRead
    \/ CompactReadFail
    \/ CompactFail
    \/ CompactRename
    \/ \E v \in Values : CompactShortWrite(v)
    \/ CompactRemoveLog
    \/ CompactRemoveFail
    \/ CompactClear

Next ==
    \/ \E w \in Writers, S \in SUBSET Values : Add(w, S)
    \/ \E w \in Writers : WriterStep(w)
    \/ CompactStart
    \/ CompactStep
    \/ Crash
    \/ Open

Spec == Init /\ [][Next]_vars

\* Goroutines that can run are scheduled, and a goroutine waiting for a free
\* mutex gets it. Requests, ticks and crashes need not happen.
Fairness == (\A w \in Writers : WF_vars(WriterStep(w))) /\ WF_vars(CompactStep)

FairSpec == Spec /\ Fairness
-----------------------------------------------------------------------------
(***************************************************************************)
(* Properties.                                                             *)
(***************************************************************************)
WriterPC  == {"idle", "recv", "store", "lock", "log", "reset"}
CompactPC == {"idle", "lock", "read", "rename", "remove", "clear"}

\* Every variable holds a value of its kind; in particular no loop writes a
\* stream more often than the slice it ranges over holds it.
TypeOK ==
    /\ up \in BOOLEAN
    /\ pc \in [Writers -> WriterPC]
    /\ chan \in [Writers -> SUBSET Values]
    /\ hdr \in [Writers -> Contents]
    /\ newStreams \in Contents
    /\ logStreams \in Contents
    /\ indexed \in BOOLEAN
    /\ lock \in Writers \cup {Compactor, None}
    /\ toLog \in Contents
    /\ cpc \in CompactPC
    /\ cbuf \in Contents
    /\ logFile \in Contents
    /\ logTorn \in BOOLEAN
    /\ blockFile \in Contents
    /\ leftover \in BOOLEAN
    /\ tmpFile \in Contents
    /\ sent \in SUBSET Values
    /\ logged \in SUBSET Values
    /\ flushed \in SUBSET Values
    /\ crashes \in 0..MaxCrashes
    /\ ioErrors \in 0..MaxIOErrors
    /\ shortWrites \in 0..MaxShortWrites
    /\ damaged \in BOOLEAN

\* Flush: "The writes to disk are not guaranteed until Flush() is called".
\* A stream that one Flush has both logged and merged is on disk for ever,
\* and a running process reads it back for the next compaction, whatever
\* compactions, failing file operations, racing appends, crashes and restarts
\* follow. The one thing that can lose it is a block file that was written
\* short, or behind what a failed compaction left, without anybody noticing.
Durable ==
    ~damaged => /\ flushed \subseteq OnDisk
                /\ up => flushed \subseteq Kept

\* Compaction moves streams from LogStreams to the block file, where the next
\* compaction finds them. No step of a running process makes a stream that
\* block.Read would return disappear from both.
KeptStays ==
    [][up /\ up' /\ ~damaged' => Kept \subseteq Kept']_vars

\* Flush "returns once everything is written": every Writer goroutine leaves
\* its Flush, also when log writes and compactions fail on the way.
FlushReturns == \A w \in Writers : pc[w] # "idle" ~> pc[w] = "idle"

\* The comment of Writer: "Any ValueStreams written to this channel will
\* eventually be flushed to disk". When every Writer goroutine has run to its
\* end, without crash or error, all streams handed to them are on disk.
WrittenReachesDisk ==
    (\A w \in Writers : pc[w] = "idle") /\ crashes + ioErrors + shortWrites = 0
        => sent \subseteq OnDisk

\* The comment of Writer: streams "will be immediately available for use". A
\* query of a running process finds every stream that a Flush has stored.
FlushedServed == up => flushed \subseteq Served

\* The block as its clients see it: flushed streams are promised, and a block
\* file that may lack streams is damage.
Engine == INSTANCE DurableStore WITH
    Streams  <- Values,
    accepted <- sent,
    stored   <- OnDisk,
    promised <- flushed,
    damaged  <- damaged

\* Writers racing on NewStreams, Flush, compactBlock, failing file operations,
\* crashes and restarts together implement DurableStore: no step takes a
\* flushed stream off the disk, none writes a stream to disk that no client
\* has sent, and none promises a stream that is not on disk yet.
ImplementsDurableStore == Engine!Spec
=============================================================================
