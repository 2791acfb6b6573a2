----------------------------- MODULE RecordLog ------------------------------
(***************************************************************************)
(* The record log of the C++ store server (server/record_log.cc) and the   *)
(* DiskDatastore that owns it (server/disk_datastore.cc):                  *)
(*                                                                         *)
(*  - Record, called by the request handlers, which keeps a stream in      *)
(*    live_data_ and adds it to log_;                                      *)
(*  - AdminThread, which flushes log_ to the file recordlog, rotates that  *)
(*    file, and turns every rotated file into an indexed file;             *)
(*  - the constructor of DiskDatastore, which replays the log files into   *)
(*    live_data_ while AdminThread is running already;                     *)
(*  - crashes and shutdowns of the process, and its restarts.              *)
(*                                                                         *)
(* A value is a number that a variable had from a time on, and the end, if *)
(* there is one, until which it had that number: a number equal to the     *)
(* last one does not make a new value but moves the end of the last one.   *)
(* The same encoding is done again when a log is replayed and when it is   *)
(* reindexed, and there it forgets the ends it had been given. So two      *)
(* things are told apart: the start of a value, which is a change of the   *)
(* variable, and its end.                                                  *)
(*                                                                         *)
(* A file is the sequence of the values that can be read back from it:     *)
(* what comes behind a record written in part may or may not be found      *)
(* again. The rows of an indexed file are written one after the other.     *)
(***************************************************************************)
EXTENDS Naturals, Sequences, FiniteSets

CONSTANTS
    Vars,          \* the variables
    Numbers,       \* the numbers they have
    MaxTime,       \* timestamps are 1..MaxTime; 0 is none
    Inputs,        \* what clients may send: variable, timestamp and number
    MaxRecords,    \* bound: calls of Record
    MaxRotations,  \* bound: rotations of recordlog
    MaxCrashes,    \* bound: crashes and shutdowns of the process
    MaxErrors      \* bound: failing file operations

ASSUME ConstantsAssumption ==
    /\ MaxRecords \in Nat
    /\ MaxTime \in Nat
    /\ MaxRotations \in Nat
    /\ MaxCrashes \in Nat
    /\ MaxErrors \in Nat

Times  == 1..MaxTime
NoTime == 0
Values == [var : Vars, ts : Times, end : 0..MaxTime, d : Numbers]
Points == Vars \X Times \X Numbers

ASSUME InputsAssumption == Inputs \subseteq Points

\* When a value began, and all that it says for certain.
Change(x)    == <<x.var, x.ts, x.d>>
PointsOf(x) == {Change(x)} \cup
               (IF x.end = NoTime THEN {} ELSE {<<x.var, x.end, x.d>>})

Changes(s)   == {Change(s[i]) : i \in 1..Len(s)}
AllPoints(s) == UNION {PointsOf(s[i]) : i \in 1..Len(s)}

\* The values of every variable, as live_data_ and log_data have them.
NoRows        == [v \in Vars |-> <<>>]
RowChanges(r) == UNION {Changes(r[v]) : v \in Vars}

\* The files Glob("recordlog.*") can find: <<r, d>> is the one of the r-th
\* rotation, with ".new" appended d times. Every ".new" beyond the first is
\* the trace of a crash or an error. Glob sorts them in this order.
MaxDepth == MaxCrashes + MaxErrors + 1
Names    == (1..MaxRotations) \X (0..MaxDepth)
New(f)   == <<f[1], f[2] + 1>>
Before(f, g) == f[1] < g[1] \/ (f[1] = g[1] /\ f[2] <= g[2])
First(S) == CHOOSE f \in S : \A g \in S : Before(f, g)
NoName   == <<0, 0>>

VARIABLES
    \* the process
    mode,        \* "up", "replay" (in the constructor), "down"
    live,        \* live_data_: what queries find
    log,         \* log_
    mutex,       \* the admin thread holds mutex_
    shutdown,    \* shutdown_
    apc,         \* where AdminThread is
    done,        \* done_streams in Flush
    wrote,       \* the changes the running Flush has written, and readably
    todo,        \* files ReindexRecordLog has still to deal with
    input,       \* the file it is dealing with
    pos,         \* how many records of it have been read
    data,        \* log_data
    rows,        \* the variables whose row has still to be written
    rpc,         \* ReplayRecordLog: "glob", "next" file, or the "last" one
    replay,      \* replayfiles_, without recordlog, which is always the last
    rest,        \* what replay_reader_ has still to return
    \* the disk
    cur,         \* recordlog
    torn,        \* recordlog contains a record written in part
    exist,       \* the files recordlog.* that exist
    files,       \* their contents
    indexed,     \* the contents of each datastore.<time>.bin
    \* bounds and history
    records,     \* calls of Record
    sent,        \* the points recorded so far
    promised,    \* the changes a Flush has written and erased from log_
    moved,       \* a file was renamed or removed while it was to be replayed
    joined,      \* the replay has made one value out of two
    damaged,     \* recordlog was truncated, an indexed file replaced, or one
                 \* value made out of two when a file was reindexed
    rotations, crashes, errors

memVars    == <<live, log>>
flushVars  == <<done, wrote>>
indexVars  == <<todo, input, pos, data, rows>>
replayVars == <<rpc, replay, rest, moved, joined>>
curVars    == <<cur, torn>>
dirVars    == <<exist, files>>
histVars   == <<records, sent, promised>>
vars == <<mode, memVars, mutex, shutdown, apc, flushVars, indexVars,
          replayVars, curVars, dirVars, indexed, histVars, damaged, rotations,
          crashes, errors>>

OnDisk == AllPoints(cur)
              \cup (UNION {AllPoints(files[f]) : f \in exist})
              \cup (UNION {AllPoints(indexed[t]) : t \in 0..MaxTime})

\* The changes that have been recorded on disk but not yet indexed.
NotIndexed == Changes(cur) \cup UNION {Changes(files[f]) : f \in exist}
-----------------------------------------------------------------------------
Init ==
    /\ mode = "replay"
    /\ live = NoRows
    /\ log = <<>>
    /\ mutex = FALSE
    /\ shutdown = FALSE
    /\ apc = "top"
    /\ done = 0
    /\ wrote = {}
    /\ todo = {}
    /\ input = NoName
    /\ pos = 0
    /\ data = NoRows
    /\ rows = {}
    /\ rpc = "glob"
    /\ replay = {}
    /\ rest = <<>>
    /\ cur = <<>>
    /\ torn = FALSE
    /\ exist = {}
    /\ files = [f \in Names |-> <<>>]
    /\ indexed = [t \in 0..MaxTime |-> <<>>]
    /\ records = 0
    /\ sent = {}
    /\ promised = {}
    /\ moved = FALSE
    /\ joined = FALSE
    /\ damaged = FALSE
    /\ rotations = 0
    /\ crashes = 0
    /\ errors = 0
-----------------------------------------------------------------------------
\* The encoding of RecordNoLog and ReindexRecordLogFile: a number that is the
\* last one of the row sets its end to the timestamp, whatever end x has.
Joins(row, x) == row # <<>> /\ row[Len(row)].d = x.d

Encode(row, x) ==
    LET n == Len(row) IN
    IF Joins(row, x) THEN [row EXCEPT ![n] = [row[n] EXCEPT !.end = x.ts]]
                     ELSE Append(row, x)

\* The encoding makes one value out of two that were different ones when they
\* were recorded: what was between them is missing.
Splices(row, x) == Joins(row, x) /\ Change(row[Len(row)]) # Change(x)

\* Record(variable, timestamp, value): RecordNoLog, then RecordLog::Add, under
\* mutex_, of the value it returns. The request handlers are not called before
\* the constructor is done; they take any timestamp that is not in the future.
Record(v, t, d) ==
    LET row == Encode(live[v], [var |-> v, ts |-> t, end |-> NoTime, d |-> d])
    IN  /\ mode = "up"
        /\ ~mutex
        /\ ~shutdown
        /\ records < MaxRecords
        /\ live' = [live EXCEPT ![v] = row]
        /\ log' = Append(log, row[Len(row)])
        /\ records' = records + 1
        /\ sent' = sent \cup {<<v, t, d>>}
        /\ UNCHANGED <<mode, mutex, shutdown, apc, flushVars, indexVars,
                       replayVars, curVars, dirVars, indexed, promised,
                       damaged, rotations, crashes, errors>>
-----------------------------------------------------------------------------
(***************************************************************************)
(* AdminThread: Flush.                                                     *)
(***************************************************************************)
Error == errors < MaxErrors /\ errors' = errors + 1

\* Nothing to flush: on to RotateRecordLog. Otherwise Flush takes mutex_.
FlushStart ==
    /\ mode # "down"
    /\ apc = "top"
    /\ mutex' = (log # <<>>)
    /\ apc' = IF log = <<>> THEN "rotate" ELSE "flush"
    /\ UNCHANGED <<mode, memVars, shutdown, flushVars, indexVars, replayVars,
                   curVars, dirVars, indexed, histVars, damaged, rotations,
                   crashes, errors>>

\* writer.Write(stream) of the next stream.
FlushWrite ==
    /\ apc = "flush"
    /\ done < Len(log)
    /\ done' = done + 1
    /\ \E readable \in IF torn THEN BOOLEAN ELSE {TRUE} :
          /\ cur' = IF readable THEN Append(cur, log[done + 1]) ELSE cur
          /\ wrote' = IF readable THEN wrote \cup {Change(log[done + 1])}
                               ELSE wrote
    /\ UNCHANGED <<mode, memVars, mutex, shutdown, apc, indexVars, replayVars,
                   torn, dirVars, indexed, histVars, damaged, rotations,
                   crashes, errors>>

\* FAULT: the stream that could not be written is counted.
FlushFailCounted ==
    /\ apc = "flush"
    /\ done < Len(log)
    /\ Error
    /\ done' = done + 1
    /\ \E t \in BOOLEAN : torn' = (torn \/ t)
    /\ apc' = "erase"
    /\ UNCHANGED <<mode, memVars, mutex, shutdown, wrote, indexVars,
                   replayVars, cur, dirVars, indexed, histVars, damaged,
                   rotations, crashes>>

\* The file cannot be opened, or a write fails and may leave part of a record
\* behind: the loop ends. AdminThread tries again in its next round.
FlushFail ==
    /\ apc = "flush"
    /\ done < Len(log)
    /\ Error
    /\ \E t \in BOOLEAN : torn' = (torn \/ t)
    /\ apc' = "erase"
    /\ UNCHANGED <<mode, memVars, mutex, shutdown, flushVars, indexVars,
                   replayVars, cur, dirVars, indexed, histVars, damaged,
                   rotations, crashes>>

\* FAULT: done_streams keeps its value from one call to the next.
FlushEraseStale ==
    /\ apc = "erase" \/ (apc = "flush" /\ done = Len(log))
    /\ log' = SubSeq(log, done + 1, Len(log))
    /\ promised' = promised \cup wrote
    /\ wrote' = {}
    /\ mutex' = FALSE
    /\ apc' = "rotate"
    /\ UNCHANGED <<mode, live, shutdown, done, indexVars, replayVars, curVars,
                   dirVars, indexed, records, sent, damaged, rotations, crashes,
                   errors>>

\* The streams written are erased from log_, and mutex_ is given back.
FlushErase ==
    /\ apc = "erase" \/ (apc = "flush" /\ done = Len(log))
    /\ log' = SubSeq(log, done + 1, Len(log))
    /\ promised' = promised \cup wrote
    /\ done' = 0
    /\ wrote' = {}
    /\ mutex' = FALSE
    /\ apc' = "rotate"
    /\ UNCHANGED <<mode, live, shutdown, indexVars, replayVars, curVars,
                   dirVars, indexed, records, sent, damaged, rotations, crashes,
                   errors>>
-----------------------------------------------------------------------------
(***************************************************************************)
(* AdminThread: RotateRecordLog. That recordlog has reached its maximal    *)
(* size is abstracted to a choice.                                         *)
(***************************************************************************)

\* A file that ReplayRecordLog has yet to open changes its name.
Moves == mode = "replay" /\ rpc = "next"

RotateNot ==
    /\ apc = "rotate"
    /\ apc' = "glob"
    /\ UNCHANGED <<mode, memVars, mutex, shutdown, flushVars, indexVars,
                   replayVars, curVars, dirVars, indexed, histVars, damaged,
                   rotations, crashes, errors>>

RotateRename ==
    LET f == <<rotations + 1, 0>> IN
    /\ apc = "rotate"
    /\ cur # <<>>
    /\ f \in Names
    /\ rotations' = rotations + 1
    /\ exist' = exist \cup {f}
    /\ files' = [files EXCEPT ![f] = cur]
    /\ cur' = <<>>
    /\ torn' = FALSE
    /\ moved' = (moved \/ Moves)
    /\ mutex' = TRUE
    /\ apc' = "create"
    /\ UNCHANGED <<mode, memVars, shutdown, flushVars, indexVars, rpc, replay,
                   rest, joined, indexed, histVars, damaged, crashes, errors>>

\* The failing rename is only logged, and the file is truncated all the same.
RotateRenameFail ==
    /\ apc = "rotate"
    /\ cur # <<>>
    /\ Error
    /\ mutex' = TRUE
    /\ apc' = "create"
    /\ UNCHANGED <<mode, memVars, shutdown, flushVars, indexVars, replayVars,
                   curVars, dirVars, indexed, histVars, damaged, rotations,
                   crashes>>

\* File fh(filename(), "w")
RotateCreate ==
    /\ apc = "create"
    /\ damaged' = (damaged \/ cur # <<>>)
    /\ cur' = <<>>
    /\ torn' = FALSE
    /\ mutex' = FALSE
    /\ apc' = "glob"
    /\ UNCHANGED <<mode, memVars, shutdown, flushVars, indexVars, replayVars,
                   dirVars, indexed, histVars, rotations, crashes, errors>>
-----------------------------------------------------------------------------
(***************************************************************************)
(* AdminThread: ReindexRecordLog, without mutex_.                          *)
(***************************************************************************)
ReindexRecordLog ==
    /\ apc = "glob"
    /\ todo' = exist
    /\ apc' = "reindex"
    /\ UNCHANGED <<mode, memVars, mutex, shutdown, flushVars, input, pos,
                   data, rows, replayVars, curVars, dirVars, indexed, histVars, damaged,
                   rotations, crashes, errors>>

\* FAULT: left-over output files are not looked at.
ReindexFileSkipsNew ==
    LET f == First(todo) IN
    /\ apc = "reindex"
    /\ todo # {}
    /\ todo' = todo \ {f}
    /\ input' = IF f[2] = 0 THEN f ELSE input
    /\ apc' = IF f[2] = 0 THEN "read" ELSE apc
    /\ pos' = 0
    /\ data' = NoRows
    /\ UNCHANGED <<mode, memVars, mutex, shutdown, flushVars, rows, replayVars,
                   curVars, dirVars, indexed, histVars, damaged, rotations,
                   crashes, errors>>

\* ReindexRecordLogFile opens the next file. A left-over .new is itself found
\* by Glob; its header is no ValueStream and is skipped.
ReindexFile ==
    LET f == First(todo) IN
    /\ apc = "reindex"
    /\ todo # {}
    /\ todo' = todo \ {f}
    /\ input' = f
    /\ apc' = "read"
    /\ pos' = 0
    /\ data' = NoRows
    /\ UNCHANGED <<mode, memVars, mutex, shutdown, flushVars, rows, replayVars,
                   curVars, dirVars, indexed, histVars, damaged, rotations,
                   crashes, errors>>

\* reader.Next, and the encoding of the value into log_data.
ReindexRead ==
    LET x == files[input][pos + 1] IN
    /\ apc = "read"
    /\ pos < Len(files[input])
    /\ pos' = pos + 1
    /\ data' = [data EXCEPT ![x.var] = Encode(@, x)]
    /\ damaged' = (damaged \/ Splices(data[x.var], x))
    /\ UNCHANGED <<mode, memVars, mutex, shutdown, apc, flushVars, todo, input,
                   rows, replayVars, curVars, dirVars, indexed, histVars,
                   rotations, crashes, errors>>

\* WriteIndexedFile up to the point where <file>.new is open and its header
\* written. If <file>.new exists, the input is renamed to "failed-<path>", in
\* a directory that does not exist: it stays where it is.
IndexOpen ==
    /\ apc = "read"
    /\ pos = Len(files[input])
    /\ \/ /\ New(input) \in exist
          /\ apc' = "reindex"
          /\ input' = NoName
          /\ pos' = 0
          /\ data' = NoRows
          /\ UNCHANGED <<rows, dirVars>>
       \/ /\ New(input) \notin exist
          /\ exist' = exist \cup {New(input)}
          /\ files' = [files EXCEPT ![New(input)] = <<>>]
          /\ rows' = {v \in Vars : data[v] # <<>>}
          /\ apc' = "index"
          /\ UNCHANGED <<input, pos, data>>
    /\ UNCHANGED <<mode, memVars, mutex, shutdown, flushVars, todo, replayVars,
                   curVars, indexed, histVars, damaged, rotations, crashes,
                   errors>>

\* writer.Write(i->second): the row of one variable.
IndexWrite(v) ==
    /\ apc = "index"
    /\ v \in rows
    /\ rows' = rows \ {v}
    /\ files' = [files EXCEPT ![New(input)] = @ \o data[v]]
    /\ UNCHANGED <<mode, memVars, mutex, shutdown, apc, flushVars, todo, input,
                   pos, data, replayVars, curVars, exist, indexed, histVars,
                   damaged, rotations, crashes, errors>>

\* A write, the seek, the unlink or the last rename fails: what is written
\* stays under its name.
IndexFail ==
    /\ apc \in {"index", "rename"}
    /\ Error
    /\ apc' = "reindex"
    /\ input' = NoName
    /\ pos' = 0
    /\ data' = NoRows
    /\ rows' = {}
    /\ UNCHANGED <<mode, memVars, mutex, shutdown, flushVars, todo, replayVars,
                   curVars, dirVars, indexed, histVars, damaged, rotations,
                   crashes>>

\* FAULT: the original file is removed before its values are written again.
IndexUnlinkEarly ==
    /\ apc = "index"
    /\ exist' = exist \ {input}
    /\ files' = [files EXCEPT ![input] = <<>>]
    /\ moved' = (moved \/ Moves)
    /\ apc' = "rename"
    /\ UNCHANGED <<mode, memVars, mutex, shutdown, flushVars, indexVars, rpc,
                   replay, rest, joined, curVars, indexed, histVars, damaged,
                   rotations, crashes, errors>>

\* unlink(filename)
IndexUnlink ==
    /\ apc = "index"
    /\ rows = {}
    /\ exist' = exist \ {input}
    /\ files' = [files EXCEPT ![input] = <<>>]
    /\ moved' = (moved \/ Moves)
    /\ apc' = "rename"
    /\ UNCHANGED <<mode, memVars, mutex, shutdown, flushVars, indexVars, rpc,
                   replay, rest, joined, curVars, indexed, histVars, damaged,
                   rotations, crashes, errors>>

\* newest_timestamp of WriteIndexedFile, which does not look at ends.
Newest(r) ==
    LET T == {s[2] : s \in RowChanges(r)} IN
    IF T = {} THEN 0 ELSE CHOOSE t \in T : \A u \in T : u <= t

\* rename to datastore.<newest_timestamp>.bin, which replaces an older file of
\* that name.
IndexRename ==
    LET t   == Newest(data)
        out == files[New(input)]
    IN  /\ apc = "rename"
        /\ indexed' = [indexed EXCEPT ![t] = out]
        /\ damaged' = (damaged \/ ~(Changes(indexed[t]) \subseteq Changes(out)))
        /\ exist' = exist \ {New(input)}
        /\ files' = [files EXCEPT ![New(input)] = <<>>]
        /\ moved' = (moved \/ Moves)
        /\ apc' = "reindex"
        /\ input' = NoName
        /\ pos' = 0
        /\ data' = NoRows
        /\ UNCHANGED <<mode, memVars, mutex, shutdown, flushVars, todo, rows,
                       rpc, replay, rest, joined, curVars, histVars, rotations,
                       crashes, errors>>

\* sleep, and the test of shutdown_: the last round is not followed by a Flush.
\* With AdminThread joined, the process ends.
Sleep ==
    /\ apc = "reindex"
    /\ todo = {}
    /\ apc' = "top"
    /\ mode' = IF shutdown THEN "down" ELSE mode
    /\ log' = IF shutdown THEN <<>> ELSE log
    /\ live' = IF shutdown THEN NoRows ELSE live
    /\ shutdown' = FALSE
    /\ UNCHANGED <<mutex, flushVars, indexVars, replayVars, curVars, dirVars,
                   indexed, histVars, damaged, rotations, crashes, errors>>
-----------------------------------------------------------------------------
(***************************************************************************)
(* Shutdown, crash, restart and replay.                                    *)
(***************************************************************************)
Shutdown ==
    /\ mode = "up"
    /\ ~shutdown
    /\ crashes < MaxCrashes
    /\ crashes' = crashes + 1
    /\ shutdown' = TRUE
    /\ UNCHANGED <<mode, memVars, mutex, apc, flushVars, indexVars, replayVars,
                   curVars, dirVars, indexed, histVars, damaged, rotations,
                   errors>>

\* Also what becomes of a file that cannot be opened in ReindexRecordLog or
\* RotateRecordLog: the exception is caught nowhere in the thread.
Crash ==
    /\ mode # "down"
    /\ crashes < MaxCrashes
    /\ crashes' = crashes + 1
    /\ mode' = "down"
    /\ live' = NoRows
    /\ log' = <<>>
    /\ mutex' = FALSE
    /\ shutdown' = FALSE
    /\ \E t \in IF apc = "flush" /\ done < Len(log) THEN BOOLEAN ELSE {FALSE} :
          torn' = (torn \/ t)
    /\ apc' = "top"
    /\ done' = 0
    /\ wrote' = {}
    /\ todo' = {}
    /\ input' = NoName
    /\ pos' = 0
    /\ data' = NoRows
    /\ rows' = {}
    /\ rpc' = "glob"
    /\ replay' = {}
    /\ rest' = <<>>
    /\ moved' = FALSE
    /\ joined' = FALSE
    /\ UNCHANGED <<cur, dirVars, indexed, histVars, damaged, rotations, errors>>

\* The constructor of RecordLog starts AdminThread; ReplayRecordLog follows.
Start ==
    /\ mode = "down"
    /\ mode' = "replay"
    /\ rpc' = "glob"
    /\ replay' = {}
    /\ rest' = <<>>
    /\ moved' = FALSE
    /\ joined' = FALSE
    /\ UNCHANGED <<memVars, mutex, shutdown, apc, flushVars, indexVars, curVars,
                   dirVars, indexed, histVars, damaged, rotations, crashes,
                   errors>>

\* The first call of ReplayLog lists the files.
ReplayGlob ==
    /\ mode = "replay"
    /\ rpc = "glob"
    /\ ~mutex
    /\ replay' = exist
    /\ rpc' = "next"
    /\ UNCHANGED <<mode, memVars, mutex, shutdown, apc, flushVars, indexVars,
                   rest, moved, joined, curVars, dirVars, indexed, histVars,
                   damaged, rotations, crashes, errors>>

\* A call of ReplayLog opens the next file, which is mapped as it is then. If
\* it is gone, the exception ends the replay, and the process goes on with
\* what it has got.
ReplayFile ==
    LET f == First(replay) IN
    /\ mode = "replay"
    /\ rpc = "next"
    /\ rest = <<>>
    /\ ~mutex
    /\ replay # {}
    /\ IF f \in exist
         THEN /\ rest' = files[f]
              /\ replay' = replay \ {f}
              /\ UNCHANGED <<mode, rpc>>
         ELSE /\ mode' = "up"
              /\ replay' = {}
              /\ rpc' = "glob"
              /\ UNCHANGED rest
    /\ UNCHANGED <<memVars, mutex, shutdown, apc, flushVars, indexVars, moved,
                   joined, curVars, dirVars, indexed, histVars, damaged,
                   rotations, crashes, errors>>

\* FAULT: recordlog itself is not among the files to be replayed.
ReplayLastForgotten ==
    /\ mode = "replay"
    /\ rpc = "next"
    /\ rest = <<>>
    /\ ~mutex
    /\ replay = {}
    /\ rpc' = "last"
    /\ UNCHANGED <<mode, memVars, mutex, shutdown, apc, flushVars, indexVars,
                   replay, rest, moved, joined, curVars, dirVars, indexed,
                   histVars, damaged, rotations, crashes, errors>>

\* A call of ReplayLog opens the last file, recordlog.
ReplayLast ==
    /\ mode = "replay"
    /\ rpc = "next"
    /\ rest = <<>>
    /\ ~mutex
    /\ replay = {}
    /\ rest' = cur
    /\ rpc' = "last"
    /\ UNCHANGED <<mode, memVars, mutex, shutdown, apc, flushVars, indexVars,
                   replay, moved, joined, curVars, dirVars, indexed, histVars,
                   damaged, rotations, crashes, errors>>

\* ReplayLog returns the next stream of the open file, and ReplayRecordLog
\* hands its value to RecordNoLog with the timestamp of the value.
ReplayRead ==
    LET x == Head(rest) IN
    /\ mode = "replay"
    /\ ~mutex
    /\ rest # <<>>
    /\ rest' = Tail(rest)
    /\ live' = [live EXCEPT ![x.var] = Encode(@, x)]
    /\ joined' = (joined \/ Splices(live[x.var], x))
    /\ UNCHANGED <<mode, log, mutex, shutdown, apc, flushVars, indexVars, rpc,
                   replay, moved, curVars, dirVars, indexed, histVars, damaged,
                   rotations, crashes, errors>>

\* ReplayLog returns false, and the constructor is done.
ReplayDone ==
    /\ mode = "replay"
    /\ rpc = "last"
    /\ rest = <<>>
    /\ ~mutex
    /\ mode' = "up"
    /\ rpc' = "glob"
    /\ UNCHANGED <<memVars, mutex, shutdown, apc, flushVars, indexVars, replay,
                   rest, moved, joined, curVars, dirVars, indexed, histVars,
                   damaged, rotations, crashes, errors>>
-----------------------------------------------------------------------------
AdminStep ==
    \/ FlushStart
    \/ FlushWrite
    \/ FlushFail
    \/ FlushErase
    \/ RotateNot
    \/ RotateRename
    \/ RotateRenameFail
    \/ RotateCreate
    \/ ReindexRecordLog
    \/ ReindexFile
    \/ ReindexRead
    \/ IndexOpen
    \/ \E v \in Vars : IndexWrite(v)
    \/ IndexFail
    \/ IndexUnlink
    \/ IndexRename
    \/ Sleep

ReplayStep ==
    \/ ReplayGlob
    \/ ReplayFile
    \/ ReplayLast
    \/ ReplayRead
    \/ ReplayDone

Next ==
    \/ \E c \in Inputs : Record(c[1], c[2], c[3])
    \/ AdminStep
    \/ ReplayStep
    \/ Shutdown
    \/ Crash
    \/ Start

Spec == Init /\ [][Next]_vars

\* Both threads are scheduled; the admin thread keeps waking up. Nobody has to
\* restart a process that has died.
FairSpec == Spec /\ WF_vars(AdminStep) /\ WF_vars(ReplayStep)
-----------------------------------------------------------------------------
(***************************************************************************)
(* Properties.                                                             *)
(***************************************************************************)
AdminPC == {"top", "flush", "erase", "rotate", "create", "glob", "reindex",
            "read", "index", "rename"}

\* The values that say nothing that has not been recorded.
Known == {x \in Values : PointsOf(x) \subseteq sent}

\* Rows of such values, each with the values of its variable.
IsRows(r) ==
    /\ r \in [Vars -> Seq(Known)]
    /\ \A v \in Vars : \A i \in 1..Len(r[v]) : r[v][i].var = v

\* Every variable holds a value of its kind; in particular Flush never looks
\* behind the end of log_, no value in memory or on disk, and no end of one,
\* is made up, and no more .new are appended to a name than there were crashes
\* and errors, and one.
TypeOK ==
    /\ mode \in {"up", "replay", "down"}
    /\ IsRows(live)
    /\ log \in Seq(Known)
    /\ mutex \in BOOLEAN
    /\ shutdown \in BOOLEAN
    /\ apc \in AdminPC
    /\ done \in 0..Len(log)
    /\ wrote \subseteq sent
    /\ todo \subseteq Names
    /\ input \in Names \cup {NoName}
    /\ pos \in Nat
    /\ IsRows(data)
    /\ rows \subseteq Vars
    /\ rpc \in {"glob", "next", "last"}
    /\ replay \subseteq Names
    /\ rest \in Seq(Known)
    /\ cur \in Seq(Known)
    /\ torn \in BOOLEAN
    /\ exist \subseteq Names
    /\ files \in [Names -> Seq(Known)]
    /\ indexed \in [0..MaxTime -> Seq(Known)]
    /\ records \in 0..MaxRecords
    /\ sent \subseteq Points
    /\ promised \subseteq sent
    /\ moved \in BOOLEAN
    /\ joined \in BOOLEAN
    /\ damaged \in BOOLEAN
    /\ rotations \in 0..MaxRotations
    /\ crashes \in 0..MaxCrashes
    /\ errors \in 0..MaxErrors

Engine == INSTANCE DurableStore WITH
    Streams  <- Points,
    accepted <- sent,
    stored   <- OnDisk,
    damaged  <- damaged

\* Flush, rotation and reindexing implement DurableStore: a change of a
\* variable that Flush has written and erased from log_ is in some file at
\* every moment, although its file is renamed, encoded, removed and renamed
\* again, whatever fails on the way and wherever the process dies and starts
\* again. What can lose it is a rotation whose rename fails, an indexed file
\* replaced by another one with the same newest timestamp, and reindexing a
\* file where what was between two equal numbers is missing. How long the
\* variable had the number is not promised.
ImplementsDurableStore == Engine!Spec

\* "The log can be replayed at startup to load all items that have been
\* recorded by not yet indexed": when the constructor is done, every change of
\* a variable in a log file is among the live ones, unless AdminThread, which
\* runs already, has renamed or removed a file between the listing and the end
\* of the replay, or two equal numbers have come to stand side by side. The
\* live values stay complete from then on.
ReplayComplete == mode = "up" /\ ~moved /\ ~joined => NotIndexed \subseteq RowChanges(live)

\* "At some point in the future this will be flushed to disk": as long as the
\* process lives, a change in log_ is written to recordlog, also when writes
\* fail, as the next rounds of AdminThread try again, unless there is a record
\* before it in the file that was written in part.
AddedIsFlushed ==
    \A c \in Inputs :
        c \in Changes(log) ~> (c \in promised \/ torn \/ mode = "down")

\* Every rotated file, and every .new a crash or an error has left behind, is
\* indexed in the end, as long as somebody restarts the process: no file is
\* stuck because another one is in its way, and there are moments when the
\* directory has no file that waits for AdminThread.
EveryFileIndexed ==
    []<>(mode # "down") => (exist # {} ~> exist = {})
=============================================================================
