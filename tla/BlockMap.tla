------------------------------ MODULE BlockMap ------------------------------
(***************************************************************************)
(* The blocks of the Go datastore (datastore/datastore.go): how a stream   *)
(* is routed to a block (findBlock, insertBlock), how the ticker goroutine *)
(* splits and joins blocks (splitBlock, joinBlocks), and how the blocks    *)
(* are found again after a restart (readBlocks, readBlock, readBlockLog).  *)
(*                                                                         *)
(* Inside a block, Flush and compactBlock are one step each here; module   *)
(* BlockStore models their steps. splitBlock and joinBlocks are modelled   *)
(* file operation by file operation, so that Writers, Flush and crashes    *)
(* come in between.                                                        *)
(*                                                                         *)
(* Variable names are abstracted to numbers (only their order matters), a  *)
(* stream to its name and a serial number, and contents to sets: streams   *)
(* that are stored twice are not distinguished from streams stored once.   *)
(***************************************************************************)
EXTENDS Integers, FiniteSets, FiniteSetsExt

CONSTANTS
    MaxKey,      \* the variable names are 1..MaxKey; 0 is the empty string
    Copies,      \* serial numbers of the streams of one variable
    MaxIds,      \* bound: blocks ever created (their ids are UUIDs)
    SplitPoint,  \* SPLIT_POINT
    MaxCrashes,  \* bound: crashes of the process
    MaxErrors    \* bound: block files that could not be read or renamed

ASSUME ConstantsAssumption ==
    /\ MaxKey \in Nat
    /\ MaxIds \in Nat
    /\ SplitPoint \in Nat \ {0}
    /\ MaxCrashes \in Nat
    /\ MaxErrors \in Nat

Keys    == 1..MaxKey
EndKeys == 0..MaxKey
Ids     == 1..MaxIds
Streams == Keys \X Copies

KeysOf(S) == {s[1] : s \in S}
EndKeyOf(K) == IF K = {} THEN 0 ELSE Max(K)

VARIABLES
    mode,       \* "up", "down", and the two phases of readBlocks
    blocks,     \* Datastore.Blocks: the block at each end key
    blockKeys,  \* Datastore.blockKeys
    tpc,        \* where the ticker goroutine is
    tick,       \* its local variables
    file,       \* the streams DatastoreBlock.Read finds in each block.<id>
    header,     \* the names in the index of each block.<id>
    fileIds,    \* the ids whose block.<id> exists
    tmp,        \* the streams in each block.<id>.new.<pid>
    tmpIds,     \* the ids for which a failed rename has left that file
    logf,       \* the contents of each block.<id>.log
    pending,    \* the files readBlocks has still to read
    nextId,     \* the next fresh UUID
    sent,       \* history: streams written to a Writer
    flushed,    \* history: streams a Flush has written
    raced,      \* history: the ticker has worked on a block that had
                \* unflushed streams, or that got some meanwhile
    damaged,    \* history: a block file was written behind a leftover
    clash,      \* history: readBlocks has found two blocks with one end key
    crashes,
    errors

mapVars  == <<blocks, blockKeys>>
tickVars == <<tpc, tick>>
fileVars == <<file, header, fileIds, tmp, tmpIds, damaged>>
diskVars == <<fileVars, logf>>
histVars == <<sent, flushed, clash>>
boundVars == <<crashes, errors>>
vars == <<mode, mapVars, tickVars, diskVars, pending, nextId, histVars, raced,
          boundVars>>

\* A DatastoreBlock: the names in BlockHeader.Index, LogStreams, NewStreams.
Block == [id : Ids, index : SUBSET Keys, log : SUBSET Streams,
          new : SUBSET Streams]
NoBlock == [id |-> 0, index |-> {}, log |-> {}, new |-> {}]

newBlock(id) == [id |-> id, index |-> {}, log |-> {}, new |-> {}]

InMap == {k \in EndKeys : blocks[k] # NoBlock}

\* The local variables of splitBlock and joinBlocks: the end keys of the
\* blocks still to be dealt with, the end key of the left or of the new
\* block, its id, and the streams read.
NoTick == [keys |-> {}, key |-> 0, id |-> 0, buf |-> {}]
-----------------------------------------------------------------------------
Init ==
    /\ mode = "up"
    /\ blocks = [k \in EndKeys |-> NoBlock]
    /\ blockKeys = {}
    /\ tpc = "idle"
    /\ tick = NoTick
    /\ file = [i \in Ids |-> {}]
    /\ header = [i \in Ids |-> {}]
    /\ fileIds = {}
    /\ tmp = [i \in Ids |-> {}]
    /\ tmpIds = {}
    /\ logf = [i \in Ids |-> {}]
    /\ pending = {}
    /\ nextId = 1
    /\ sent = {}
    /\ flushed = {}
    /\ raced = FALSE
    /\ damaged = FALSE
    /\ clash = FALSE
    /\ crashes = 0
    /\ errors = 0
-----------------------------------------------------------------------------
(***************************************************************************)
(* Routing.                                                                *)
(***************************************************************************)

\* The end keys of the blocks the ticker is working on.
Busy == tick.keys \cup (IF tpc = "joinRemove" THEN {tick.key} ELSE {})

\* FAULT: the key of a new block is not added to blockKeys.
insertBlockNoKey(k, b) ==
    /\ blocks' = [blocks EXCEPT ![k] = b]
    /\ UNCHANGED blockKeys

\* insertBlock(block) with the end key k: a block already at k is replaced.
insertBlock(k, b) ==
    /\ blocks' = [blocks EXCEPT ![k] = b]
    /\ blockKeys' = blockKeys \cup (IF k \in InMap THEN {} ELSE {k})

\* The body of the Writer goroutine for one stream: findBlock takes the first
\* of blockKeys that is not below the name, and makes a new block if there is
\* none. If Blocks has nothing at that key the stream is dropped.
Write(s) ==
    LET above == {k \in blockKeys : k >= s[1]}
        at    == Min(above)
    IN  /\ mode = "up"
        /\ s \notin sent
        /\ sent' = sent \cup {s}
        /\ \/ /\ above # {}
              /\ at \in InMap
              /\ blocks' = [blocks EXCEPT ![at].new = @ \cup {s}]
              /\ raced' = (raced \/ at \in Busy)
              /\ UNCHANGED <<blockKeys, nextId>>
           \/ /\ above # {}
              /\ at \notin InMap
              /\ UNCHANGED <<mapVars, nextId, raced>>
           \/ /\ above = {}
              /\ nextId \in Ids
              /\ insertBlock(s[1], [newBlock(nextId) EXCEPT !.new = {s}])
              /\ nextId' = nextId + 1
              /\ UNCHANGED raced
        /\ UNCHANGED <<mode, tickVars, diskVars, pending, flushed, clash, boundVars>>

\* Flush appends the NewStreams of all blocks to their logs. It waits for
\* logLock while splitBlock holds it.
Flush ==
    LET dirty == {k \in InMap : blocks[k].new # {}} IN
    /\ mode = "up"
    /\ tpc \notin {"splitRight", "splitInsert"}
    /\ dirty # {}
    /\ blocks' = [k \in EndKeys |->
                    IF k \in dirty
                      THEN [blocks[k] EXCEPT !.log = @ \cup blocks[k].new,
                                             !.new = {}]
                      ELSE blocks[k]]
    /\ logf' = [i \in Ids |->
                  logf[i] \cup UNION {blocks[k].new :
                                        k \in {d \in dirty : blocks[d].id = i}}]
    /\ flushed' = flushed \cup UNION {blocks[k].new : k \in dirty}
    /\ UNCHANGED <<mode, blockKeys, tickVars, fileVars, pending, nextId, sent,
                   clash, raced, boundVars>>
-----------------------------------------------------------------------------
(***************************************************************************)
(* The ticker goroutine: compactBlock, splitBlock, joinBlocks. It does one *)
(* of them at a time.                                                      *)
(***************************************************************************)

\* DatastoreBlock.Read of the block at k.
Read(k) == file[blocks[k].id] \cup blocks[k].log

\* DatastoreBlock.Write of the streams S to block.<i>. The temporary file is not
\* truncated: behind a leftover any part of the streams may be unreadable.
WriteFile(i, S) ==
    /\ \E T \in IF i \in tmpIds THEN SUBSET (tmp[i] \cup S) ELSE {S} :
          file' = [file EXCEPT ![i] = T]
    /\ header' = [header EXCEPT ![i] = KeysOf(S)]
    /\ fileIds' = fileIds \cup {i}
    /\ tmp' = [tmp EXCEPT ![i] = {}]
    /\ tmpIds' = tmpIds \ {i}
    /\ damaged' = (damaged \/ i \in tmpIds)

IOError == errors < MaxErrors /\ errors' = errors + 1

\* The rename in DatastoreBlock.Write fails.
WriteFails(i, S) ==
    /\ IOError
    /\ tmp' = [tmp EXCEPT ![i] = @ \cup S]
    /\ tmpIds' = tmpIds \cup {i}
    /\ UNCHANGED <<file, header, fileIds, damaged>>

\* compactBlock of the block at k.
compactBlock(k) ==
    /\ WriteFile(blocks[k].id, Read(k))
    /\ logf' = [logf EXCEPT ![blocks[k].id] = {}]
    /\ blocks' = [blocks EXCEPT ![k].index = KeysOf(Read(k)), ![k].log = {}]
    /\ UNCHANGED errors

\* The log and LogStreams stay, but Write has built the new index already.
compactBlockFails(k) ==
    /\ WriteFails(blocks[k].id, Read(k))
    /\ blocks' = [blocks EXCEPT ![k].index = KeysOf(Read(k))]
    /\ UNCHANGED logf

Compact(k) ==
    /\ mode = "up"
    /\ tpc = "idle"
    /\ k \in InMap
    /\ blocks[k].log # {}
    /\ compactBlock(k) \/ compactBlockFails(k)
    /\ raced' = (raced \/ blocks[k].new # {})
    /\ UNCHANGED <<mode, blockKeys, tickVars, pending, nextId, histVars,
                   crashes>>

\* Of the names known before the block is compacted, sorted, the one that
\* will be the end key of the left block: sorted_keys[len/2 - 1].
LeftKey(names) ==
    CHOOSE x \in names :
        Cardinality({y \in names : y <= x}) = Cardinality(names) \div 2

\* splitBlock: the names, and the compaction, whose errors are ignored.
SplitCompact(k) ==
    LET b     == blocks[k]
        names == b.index \cup KeysOf(b.log) \cup KeysOf(b.new)
    IN  /\ mode = "up"
        /\ tpc = "idle"
        /\ k \in InMap
        /\ \/ Cardinality(b.index) > SplitPoint
           \/ Cardinality(KeysOf(b.log)) > SplitPoint
        /\ Cardinality(names) >= 2
        /\ \/ compactBlock(k)
           \/ compactBlockFails(k)
           \/ IOError /\ UNCHANGED <<blocks, diskVars>>
        /\ raced' = (raced \/ b.new # {})
        /\ tick' = [NoTick EXCEPT !.keys = {k}, !.key = LeftKey(names)]
        /\ tpc' = "splitRead"
        /\ UNCHANGED <<mode, blockKeys, pending, nextId, histVars, crashes>>

\* FAULT: the left block gets an id that is given out again later.
SplitReadSameId ==
    /\ tpc = "splitRead"
    /\ nextId \in Ids
    /\ tick' = [tick EXCEPT !.buf = Read(Max(tick.keys)), !.id = nextId]
    /\ tpc' = "splitLeft"
    /\ UNCHANGED <<mode, mapVars, diskVars, pending, nextId, histVars, raced,
                   boundVars>>

\* The block is read, without its lock; the left block gets a new id.
SplitRead ==
    /\ tpc = "splitRead"
    /\ nextId \in Ids
    /\ tick' = [tick EXCEPT !.buf = Read(Max(tick.keys)), !.id = nextId]
    /\ nextId' = nextId + 1
    /\ tpc' = "splitLeft"
    /\ UNCHANGED <<mode, mapVars, diskVars, pending, histVars, raced, boundVars>>

LeftPart  == {s \in tick.buf : s[1] <= tick.key}
RightPart == tick.buf \ LeftPart

\* logLock.Lock; leftblock.Write.
SplitLeft ==
    /\ tpc = "splitLeft"
    /\ WriteFile(tick.id, LeftPart)
    /\ tpc' = "splitRight"
    /\ UNCHANGED <<mode, mapVars, tick, logf, pending, nextId, histVars, raced,
                   boundVars>>

\* block.Write of what is right of the split point. The log stays as it is.
SplitRight ==
    LET k == Max(tick.keys) IN
    /\ tpc = "splitRight"
    /\ WriteFile(blocks[k].id, RightPart)
    /\ blocks' = [blocks EXCEPT ![k].index = KeysOf(RightPart)]
    /\ tpc' = "splitInsert"
    /\ UNCHANGED <<mode, blockKeys, tick, logf, pending, nextId, histVars, raced,
                   boundVars>>

\* The block cannot be read, or one of the two files not be renamed: splitBlock
\* returns. What it has written stays, the index of the right block too.
SplitFail ==
    LET k == Max(tick.keys) IN
    /\ \/ /\ tpc = "splitRead"
          /\ IOError
          /\ UNCHANGED <<blocks, fileVars>>
       \/ /\ tpc = "splitLeft"
          /\ WriteFails(tick.id, LeftPart)
          /\ UNCHANGED blocks
       \/ /\ tpc = "splitRight"
          /\ WriteFails(blocks[k].id, RightPart)
          /\ blocks' = [blocks EXCEPT ![k].index = KeysOf(RightPart)]
    /\ tpc' = "idle"
    /\ tick' = NoTick
    /\ UNCHANGED <<mode, blockKeys, logf, pending, nextId, histVars, raced,
                   crashes>>

\* FAULT: the left block is written but never put into the map.
SplitInsertForgotten ==
    /\ tpc = "splitInsert"
    /\ tpc' = "idle"
    /\ tick' = NoTick
    /\ UNCHANGED <<mode, mapVars, diskVars, pending, nextId, histVars, raced,
                   boundVars>>

\* FAULT: the left block is put into the map with the id of the right one.
SplitInsertOldId ==
    /\ tpc = "splitInsert"
    /\ insertBlock(tick.key, newBlock(blocks[Max(tick.keys)].id))
    /\ tpc' = "idle"
    /\ tick' = NoTick
    /\ UNCHANGED <<mode, diskVars, pending, nextId, histVars, raced, boundVars>>

SplitInsert ==
    /\ tpc = "splitInsert"
    /\ insertBlock(tick.key, [newBlock(tick.id) EXCEPT !.index = KeysOf(LeftPart)])
    /\ tpc' = "idle"
    /\ tick' = NoTick
    /\ UNCHANGED <<mode, diskVars, pending, nextId, histVars, raced, boundVars>>

NumStreams(b) ==
    Cardinality(b.index) + Cardinality(KeysOf(b.log)) + Cardinality(b.new)

\* The blocks the ticker joins: in the order of their end keys, every block
\* that still fits is taken. Joinable[k] covers the end keys up to k.
Joinable[k \in -1..MaxKey] ==
    IF k = -1 THEN [size |-> 0, keys |-> {}]
    ELSE LET before == Joinable[k - 1]
             size   == before.size + NumStreams(blocks[k])
         IN  IF k \notin InMap \/ size > SplitPoint
               THEN before
               ELSE [size |-> size, keys |-> before.keys \cup {k}]

\* FAULT: the logs of the joined blocks are not read.
JoinReadFilesOnly ==
    LET join == Joinable[MaxKey] IN
    /\ mode = "up"
    /\ tpc = "idle"
    /\ join.size > 0
    /\ Cardinality(join.keys) > 1
    /\ tick' = [keys |-> join.keys, key |-> Max(join.keys),
                id |-> blocks[Max(join.keys)].id,
                buf |-> UNION {file[blocks[k].id] : k \in join.keys}]
    /\ raced' = (raced \/ \E k \in join.keys : blocks[k].new # {})
    /\ tpc' = "joinWrite"
    /\ UNCHANGED <<mode, mapVars, diskVars, pending, nextId, histVars, boundVars>>

\* joinBlocks reads all the blocks, without taking their locks.
JoinRead ==
    LET join == Joinable[MaxKey] IN
    /\ mode = "up"
    /\ tpc = "idle"
    /\ join.size > 0
    /\ Cardinality(join.keys) > 1
    /\ tick' = [keys |-> join.keys, key |-> Max(join.keys),
                id |-> blocks[Max(join.keys)].id,
                buf |-> UNION {Read(k) : k \in join.keys}]
    /\ raced' = (raced \/ \E k \in join.keys : blocks[k].new # {})
    /\ tpc' = "joinWrite"
    /\ UNCHANGED <<mode, mapVars, diskVars, pending, nextId, histVars, boundVars>>

\* newblock.Write: the new block has the id, and the file, of the last one.
JoinWrite ==
    /\ tpc = "joinWrite"
    /\ WriteFile(tick.id, tick.buf)
    /\ tpc' = "joinRemove"
    /\ UNCHANGED <<mode, mapVars, tick, logf, pending, nextId, histVars, raced,
                   boundVars>>

\* The file of the new block cannot be put into place: joinBlocks returns.
JoinFail ==
    /\ tpc = "joinWrite"
    /\ WriteFails(tick.id, tick.buf)
    /\ tpc' = "idle"
    /\ tick' = NoTick
    /\ UNCHANGED <<mode, mapVars, logf, pending, nextId, histVars, raced,
                   crashes>>

\* One round of the last loop of joinBlocks: the log and the map entry of the
\* next block go, then its file. In the round of the last block its file,
\* which is the new one, is read back by readBlock instead.
JoinRemove ==
    LET k == Min(tick.keys) IN
    /\ tpc = "joinRemove"
    /\ tick.keys # {}
    /\ logf' = [logf EXCEPT ![blocks[k].id] = {}]
    /\ tick' = [tick EXCEPT !.keys = @ \ {k}]
    /\ IF k = tick.key
         THEN /\ LET deleted == [blocks EXCEPT ![k] = NoBlock]
                     found   == EndKeyOf(header[tick.id])
                 IN  IF tick.id \in fileIds
                       THEN /\ blocks' = [deleted EXCEPT ![found] =
                                [newBlock(tick.id) EXCEPT
                                    !.index = header[tick.id]]]
                            /\ blockKeys' = blockKeys \cup {found}
                       ELSE blocks' = deleted /\ UNCHANGED blockKeys
              /\ UNCHANGED <<file, header, fileIds>>
         ELSE /\ blocks' = [blocks EXCEPT ![k] = NoBlock]
              /\ file' = [file EXCEPT ![blocks[k].id] = {}]
              /\ header' = [header EXCEPT ![blocks[k].id] = {}]
              /\ fileIds' = fileIds \ {blocks[k].id}
              /\ UNCHANGED blockKeys
    /\ UNCHANGED <<mode, tpc, tmp, tmpIds, damaged, pending, nextId, histVars,
                   raced, boundVars>>

\* this.Blocks[newblock.EndKey] = newblock, without insertBlock.
JoinPublish ==
    /\ tpc = "joinRemove"
    /\ tick.keys = {}
    /\ blocks' = [blocks EXCEPT ![tick.key] =
                     [newBlock(tick.id) EXCEPT !.index = KeysOf(tick.buf)]]
    /\ tpc' = "idle"
    /\ tick' = NoTick
    /\ UNCHANGED <<mode, blockKeys, diskVars, pending, nextId, histVars, raced,
                   boundVars>>
-----------------------------------------------------------------------------
(***************************************************************************)
(* Crash and restart. readBlocks reads the block files in the order of the *)
(* directory, then the logs in parallel: any order. The new process has    *)
(* another pid, and no temporary file left over.                           *)
(***************************************************************************)
Crash ==
    /\ mode # "down"
    /\ crashes < MaxCrashes
    /\ crashes' = crashes + 1
    /\ mode' = "down"
    /\ blocks' = [k \in EndKeys |-> NoBlock]
    /\ blockKeys' = {}
    /\ tpc' = "idle"
    /\ tick' = NoTick
    /\ pending' = {}
    /\ tmp' = [i \in Ids |-> {}]
    /\ tmpIds' = {}
    /\ UNCHANGED <<file, header, fileIds, logf, damaged, nextId, histVars, raced,
                   errors>>

Open ==
    /\ mode = "down"
    /\ mode' = "files"
    /\ pending' = fileIds
    /\ UNCHANGED <<mapVars, tickVars, diskVars, nextId, histVars, raced, boundVars>>

readBlock(i) ==
    /\ mode = "files"
    /\ i \in pending
    /\ pending' = pending \ {i}
    /\ insertBlock(EndKeyOf(header[i]), [newBlock(i) EXCEPT !.index = header[i]])
    /\ clash' = (clash \/ EndKeyOf(header[i]) \in InMap)
    /\ UNCHANGED <<mode, tickVars, diskVars, nextId, sent, flushed, raced, boundVars>>

FilesRead ==
    /\ mode = "files"
    /\ pending = {}
    /\ mode' = "logs"
    /\ pending' = {i \in Ids : logf[i] # {}}
    /\ UNCHANGED <<mapVars, tickVars, diskVars, nextId, histVars, raced, boundVars>>

\* FAULT: the log is removed once it has been read.
readBlockLogRemoves(i) ==
    LET owners == {k \in InMap : blocks[k].id = i}
        end    == EndKeyOf(KeysOf(logf[i]))
    IN
    /\ mode = "logs"
    /\ i \in pending
    /\ pending' = pending \ {i}
    /\ IF owners # {}
         THEN /\ \E k \in owners : blocks' = [blocks EXCEPT ![k].log = logf[i]]
              /\ UNCHANGED <<blockKeys, clash>>
         ELSE /\ insertBlock(end, [newBlock(i) EXCEPT !.log = logf[i]])
              /\ clash' = (clash \/ end \in InMap)
    /\ logf' = [logf EXCEPT ![i] = {}]
    /\ UNCHANGED <<mode, tickVars, fileVars, nextId, sent, flushed, raced, boundVars>>

\* The log goes to the block with its id; without one it is a block itself.
readBlockLog(i) ==
    LET owners == {k \in InMap : blocks[k].id = i}
        end    == EndKeyOf(KeysOf(logf[i]))
    IN
    /\ mode = "logs"
    /\ i \in pending
    /\ pending' = pending \ {i}
    /\ IF owners # {}
         THEN /\ \E k \in owners : blocks' = [blocks EXCEPT ![k].log = logf[i]]
              /\ UNCHANGED <<blockKeys, clash>>
         ELSE /\ insertBlock(end, [newBlock(i) EXCEPT !.log = logf[i]])
              /\ clash' = (clash \/ end \in InMap)
    /\ UNCHANGED <<mode, tickVars, diskVars, nextId, sent, flushed, raced, boundVars>>

Opened ==
    /\ mode = "logs"
    /\ pending = {}
    /\ mode' = "up"
    /\ UNCHANGED <<mapVars, tickVars, diskVars, pending, nextId, histVars, raced,
                   boundVars>>
-----------------------------------------------------------------------------
Next ==
    \/ \E s \in Streams : Write(s)
    \/ Flush
    \/ \E k \in EndKeys : Compact(k)
    \/ \E k \in EndKeys : SplitCompact(k)
    \/ SplitRead
    \/ SplitLeft
    \/ SplitRight
    \/ SplitInsert
    \/ SplitFail
    \/ JoinRead
    \/ JoinWrite
    \/ JoinFail
    \/ JoinRemove
    \/ JoinPublish
    \/ Crash
    \/ Open
    \/ \E i \in Ids : readBlock(i)
    \/ FilesRead
    \/ \E i \in Ids : readBlockLog(i)
    \/ Opened

Spec == Init /\ [][Next]_vars
-----------------------------------------------------------------------------
(***************************************************************************)
(* Properties.                                                             *)
(***************************************************************************)
TickPC == {"idle", "splitRead", "splitLeft", "splitRight", "splitInsert",
           "joinWrite", "joinRemove"}

\* Every variable holds a value of its kind, every block in the map is backed
\* by an id that has been given out, and every id with a file too.
TypeOK ==
    /\ mode \in {"up", "down", "files", "logs"}
    /\ blocks \in [EndKeys -> Block \cup {NoBlock}]
    /\ blockKeys \subseteq EndKeys
    /\ tpc \in TickPC
    /\ tick \in [keys : SUBSET EndKeys, key : EndKeys, id : 0..MaxIds,
                 buf : SUBSET Streams]
    /\ file \in [Ids -> SUBSET Streams]
    /\ header \in [Ids -> SUBSET Keys]
    /\ fileIds \subseteq 1..(nextId - 1)
    /\ tmp \in [Ids -> SUBSET Streams]
    /\ tmpIds \subseteq Ids
    /\ logf \in [Ids -> SUBSET Streams]
    /\ pending \subseteq Ids
    /\ nextId \in 1..(MaxIds + 1)
    /\ \A k \in InMap : blocks[k].id < nextId
    /\ sent \subseteq Streams
    /\ flushed \subseteq sent
    /\ raced \in BOOLEAN
    /\ damaged \in BOOLEAN
    /\ clash \in BOOLEAN
    /\ crashes \in 0..MaxCrashes
    /\ errors \in 0..MaxErrors

OnDisk == (UNION {file[i] : i \in fileIds}) \cup (UNION {logf[i] : i \in Ids})

\* What Reader returns: it skips blocks whose end key is below the name, and
\* finds a stream in LogStreams, or through the index in the file.
Served(s) ==
    \E k \in InMap :
        /\ s[1] <= k
        /\ \/ s \in blocks[k].log
           \/ /\ s[1] \in blocks[k].index
              /\ blocks[k].id \in fileIds
              /\ s \in file[blocks[k].id]

\* "The old block files will be removed once the new block has been written":
\* as long as the ticker meets no unflushed streams, a flushed stream is in
\* some file at every moment of a split or a join, whatever crashes and
\* whichever files cannot be read or renamed, until one is written behind what
\* a failed rename has left, or a restart finds two blocks with one end key.
FlushedKept == ~raced /\ ~damaged /\ ~clash => flushed \subseteq OnDisk

\* As long as the ticker meets no unflushed streams, no file operation fails
\* and the process does not restart, queries find every flushed stream between
\* two ticks.
FlushedServed ==
    ~raced /\ crashes + errors = 0 /\ tpc = "idle" => \A s \in flushed : Served(s)

\* As long as the ticker meets no unflushed streams, no file is damaged and no
\* restart has found two blocks with one end key, no two blocks in the map share
\* an id, that is, a file: joinBlocks removes files by their id.
OneOwner ==
    ~raced /\ ~damaged /\ ~clash /\ tpc = "idle" =>
        \A j, k \in InMap : blocks[j].id = blocks[k].id => j = k

\* The comment of joinBlocks: "The old block files will be removed once the new
\* block has been written to disk". Flushed streams are always on disk.
FlushedAlwaysKept == flushed \subseteq OnDisk

\* Every block in the map can be written to: its end key is one of the keys
\* findBlock looks through, also after joinBlocks has put its new block into
\* the map without insertBlock.
RoutesKnown == InMap \subseteq blockKeys

\* The blocks as the clients see them. Streams that reached a block while the
\* ticker was working on it are not promised to survive, nor is anything after a
\* restart that has found two blocks with one end key (see FlushedKept).
Engine == INSTANCE DurableStore WITH
    accepted <- sent,
    stored   <- OnDisk,
    promised <- flushed,
    damaged  <- damaged \/ raced \/ clash

\* Routing, splitting, joining, crashes and the reading back of the blocks
\* implement DurableStore: whatever order the files of a split or a join are
\* written and removed in, no step takes a flushed stream off the disk, and
\* none writes a stream to disk that no client has sent.
ImplementsDurableStore == Engine!Spec
=============================================================================
