----------------------------- MODULE FlushLocks -----------------------------
(***************************************************************************)
(* The logLocks of several blocks, as Datastore.Flush and compactBlock use *)
(* them (datastore/datastore.go). Flush goes through the blocks in the     *)
(* order of a Go map iteration, which is any order, takes the lock of each *)
(* block with NewStreams, and releases all of them when it returns (its    *)
(* Unlocks are deferred). What it does to one block under the lock is one  *)
(* step here; module BlockStore models it.                                 *)
(***************************************************************************)
EXTENDS Naturals

CONSTANTS
    Blocks,       \* the blocks of the datastore
    Writers,      \* the Writer goroutines
    Ticker,       \* the ticker goroutine
    None,         \* nobody holds the lock; a Writer waits for no block
    MaxRequests,  \* bound: /add requests
    MaxErrors     \* bound: logs that could not be written

VARIABLES
    dirty,      \* the blocks with NewStreams
    owner,      \* the owner of each logLock
    flushing,   \* the Writers inside Flush
    visited,    \* the blocks each Flush has dealt with
    wait,       \* the block whose lock each Flush is about to take
    compacting, \* the block whose lock the ticker is about to take or holds
    requests, errors

boundVars == <<requests, errors>>
vars == <<dirty, owner, flushing, visited, wait, compacting, boundVars>>

Init ==
    /\ dirty = {}
    /\ owner = [b \in Blocks |-> None]
    /\ flushing = {}
    /\ visited = [w \in Writers |-> {}]
    /\ wait = [w \in Writers |-> None]
    /\ compacting = None
    /\ requests = 0
    /\ errors = 0
-----------------------------------------------------------------------------
\* A Writer has put the streams of its request into the blocks B.
Add(w, B) ==
    /\ w \notin flushing
    /\ requests < MaxRequests
    /\ requests' = requests + 1
    /\ dirty' = dirty \cup B
    /\ flushing' = flushing \cup {w}
    /\ UNCHANGED <<owner, visited, wait, compacting, errors>>

\* The next block of the iteration: len(block.NewStreams) > 0 is looked at
\* without the lock.
Visit(w, b) ==
    /\ w \in flushing
    /\ wait[w] = None
    /\ b \notin visited[w]
    /\ IF b \in dirty
         THEN wait' = [wait EXCEPT ![w] = b] /\ UNCHANGED visited
         ELSE visited' = [visited EXCEPT ![w] = @ \cup {b}] /\ UNCHANGED wait
    /\ UNCHANGED <<dirty, owner, flushing, compacting, boundVars>>

\* logLock.Lock returns, and the block is flushed.
FlushBlock(w) ==
    LET b == wait[w] IN
    /\ b # None
    /\ owner[b] = None
    /\ owner' = [owner EXCEPT ![b] = w]
    /\ dirty' = dirty \ {b}
    /\ visited' = [visited EXCEPT ![w] = @ \cup {b}]
    /\ wait' = [wait EXCEPT ![w] = None]
    /\ UNCHANGED <<flushing, compacting, boundVars>>

\* What the deferred Unlocks of a Flush leave.
Unlocked(w) == [b \in Blocks |-> IF owner[b] = w THEN None ELSE owner[b]]

\* The log of the block cannot be opened or written: Flush returns at once. This
\* block and the ones not visited keep their NewStreams.
FlushFail(w) ==
    LET b == wait[w] IN
    /\ b # None
    /\ owner[b] = None
    /\ errors < MaxErrors
    /\ errors' = errors + 1
    /\ owner' = Unlocked(w)
    /\ flushing' = flushing \ {w}
    /\ visited' = [visited EXCEPT ![w] = {}]
    /\ wait' = [wait EXCEPT ![w] = None]
    /\ UNCHANGED <<dirty, compacting, requests>>

\* Every block has been visited: Flush returns.
Return(w) ==
    /\ w \in flushing
    /\ visited[w] = Blocks
    /\ owner' = Unlocked(w)
    /\ flushing' = flushing \ {w}
    /\ visited' = [visited EXCEPT ![w] = {}]
    /\ UNCHANGED <<dirty, wait, compacting, boundVars>>

CompactStart(b) ==
    /\ compacting = None
    /\ compacting' = b
    /\ UNCHANGED <<dirty, owner, flushing, visited, wait, boundVars>>

CompactLock ==
    /\ compacting # None
    /\ owner[compacting] = None
    /\ owner' = [owner EXCEPT ![compacting] = Ticker]
    /\ UNCHANGED <<dirty, flushing, visited, wait, compacting, boundVars>>

CompactUnlock ==
    /\ compacting # None
    /\ owner[compacting] = Ticker
    /\ owner' = [owner EXCEPT ![compacting] = None]
    /\ compacting' = None
    /\ UNCHANGED <<dirty, flushing, visited, wait, boundVars>>
-----------------------------------------------------------------------------
FlushStep(w) ==
    \/ \E b \in Blocks : Visit(w, b)
    \/ FlushBlock(w)
    \/ FlushFail(w)
    \/ Return(w)
CompactStep == CompactLock \/ CompactUnlock

Next ==
    \/ \E w \in Writers, B \in SUBSET Blocks : Add(w, B)
    \/ \E w \in Writers : FlushStep(w)
    \/ \E b \in Blocks : CompactStart(b)
    \/ CompactStep

\* Goroutines that can run do run, and a goroutine that waits for a mutex that
\* is free again and again gets it.
Fairness ==
    /\ \A w \in Writers : /\ WF_vars(FlushStep(w))
                          /\ SF_vars(FlushBlock(w) \/ FlushFail(w))
    /\ WF_vars(CompactUnlock)
    /\ SF_vars(CompactLock)

FairSpec == Init /\ [][Next]_vars /\ Fairness
-----------------------------------------------------------------------------
\* The comment of Flush: it "Returns once everything is written". Every Flush
\* that is called returns.
FlushReturns == \A w \in Writers : w \in flushing ~> w \notin flushing
=============================================================================
