------------------------------ MODULE Cluster ------------------------------
(***************************************************************************)
(* Adding streams to a cluster of C++ store servers: HandleAdd of          *)
(* server/store.cc, the HashRing of lib/hash.h that StoreConfig rebuilds   *)
(* when its file changes, and StoreClient::Add (lib/store_client.cc) that  *)
(* forwards streams to the server they belong to.                          *)
(*                                                                         *)
(* A request occupies a thread of its server until it is answered, while   *)
(* it waits for the answers to its forwards too; a forward waits at most   *)
(* for the deadline of HttpClient. What a server has recorded is the       *)
(* business of RecordLog and is only counted here.                         *)
(*                                                                         *)
(* A server has one point on the ring instead of two replicas: GetNode     *)
(* depends only on which server comes next behind the hash of a name.      *)
(***************************************************************************)
EXTENDS Naturals, Sequences, FiniteSets, SequencesExt

CONSTANTS
    NumNodes,    \* how many servers; they are numbered in the order of the ring
    NumNames,    \* how many variable names; name k hashes to server k
    BadNames,    \* the names that HandleAdd refuses
    Dropping,    \* the names whose values the retention policy drops
    Early,       \* the names with a value in the future
    MaxClients,  \* bound: Add requests of clients
    MaxStreams,  \* bound: streams of all requests of clients
    Threads,     \* threads of a server
    Addresses,   \* how many addresses the name of a server resolves to
    Configs,     \* the sets of servers a new configuration may list
    MaxReloads   \* bound: changes of a configuration file

ASSUME ClusterAssumption ==
    /\ NumNodes \in Nat \ {0} /\ NumNames \in Nat
    /\ BadNames \cup Dropping \cup Early \subseteq 1..NumNames
    /\ MaxClients \in Nat /\ MaxStreams \in Nat /\ MaxReloads \in Nat
    /\ Configs \subseteq SUBSET (1..NumNodes)
    /\ Threads \in Nat \ {0} /\ Addresses \in Nat \ {0}

Nodes   == 1..NumNodes
Names   == 1..NumNames
Clients == 1..MaxClients
NoNode  == 0

\* The request of a client, and what it sends to a server at its address k.
Client(c)        == [client |-> c, dest |-> NoNode, try |-> 0]
Forward(c, n, k) == [client |-> c, dest |-> n, try |-> k]
Ids == {Client(c) : c \in Clients}
       \cup {Forward(c, n, k) : c \in Clients, n \in Nodes, k \in 1..Addresses}
Forwarded(r) == r.dest # NoNode

VARIABLES
    phase,     \* none, queued, running, answered
    at,        \* the server of a request
    streams,   \* the names of its streams that are still to be looked at
    ok,        \* response.success
    out,       \* forward_requests: for each server the streams to forward
    waiting,   \* the forward a request waits for, as server and address
    ring,      \* ring_ of each server
    adding,    \* the servers UpdateHashRing has still to add
    \* bounds and history
    asked,     \* the streams a client has sent
    copies,    \* how often a server has recorded a stream of a client
    failed,    \* clients with a forward that did not succeed
    late,      \* clients with a forward that was not answered in time
    reloads    \* changes of configuration files so far

reqVars  == <<phase, at, streams, ok, out, waiting>>
ringVars == <<ring, adding, reloads>>
histVars == <<asked, copies, failed, late>>
vars == <<reqVars, ringVars, histVars>>

NotWaiting == <<NoNode, 0>>
NoStreams  == [n \in Nodes |-> <<>>]

Init ==
    /\ phase = [r \in Ids |-> "none"]
    /\ at = [r \in Ids |-> NoNode]
    /\ streams = [r \in Ids |-> <<>>]
    /\ ok = [r \in Ids |-> TRUE]
    /\ out = [c \in Clients |-> NoStreams]
    /\ waiting = [c \in Clients |-> NotWaiting]
    /\ ring = [n \in Nodes |-> Nodes]
    /\ adding = [n \in Nodes |-> {}]
    /\ asked = [c \in Clients |-> {}]
    /\ copies = [n \in Nodes |-> [s \in Clients \X Names |-> 0]]
    /\ failed = {}
    /\ late = {}
    /\ reloads = 0
-----------------------------------------------------------------------------
Least(S) == CHOOSE n \in S : \A m \in S : n <= m

\* The first server of the ring at or behind the hash, or the first of all.
\* FAULT: a server at the hash itself is skipped.
GetNodeBehind(S, v) ==
    LET behind == {n \in S : n > v}
    IN  IF behind # {} THEN Least(behind) ELSE Least(S)
GetNode(S, v) ==
    LET behind == {n \in S : n >= v}
    IN  IF behind # {} THEN Least(behind) ELSE Least(S)

\* UpdateHashRing, called by the thread that watches the configuration file:
\* the ring is emptied and then filled, while HandleAdd looks names up in it.
HandleNewConfig(n, S) ==
    /\ adding[n] = {}
    /\ reloads < MaxReloads
    /\ ring' = [ring EXCEPT ![n] = {}]
    /\ adding' = [adding EXCEPT ![n] = S]
    /\ reloads' = reloads + 1
    /\ UNCHANGED <<reqVars, histVars>>

AddNode(n) ==
    /\ adding[n] # {}
    /\ \E m \in adding[n] :
          /\ ring' = [ring EXCEPT ![n] = @ \cup {m}]
          /\ adding' = [adding EXCEPT ![n] = @ \ {m}]
    /\ UNCHANGED <<reqVars, histVars, reloads>>
-----------------------------------------------------------------------------
(***************************************************************************)
(* HandleAdd.                                                              *)
(***************************************************************************)

\* A client sends streams to some server. Clients are numbered in the order in
\* which they do.
Add(c, n, ss) ==
    /\ \A b \in 1..(c - 1) : phase[Client(b)] # "none"
    /\ phase[Client(c)] = "none"
    /\ SumFunction([b \in Clients |-> Cardinality(asked[b])]) + Len(ss) <= MaxStreams
    /\ phase' = [phase EXCEPT ![Client(c)] = "queued"]
    /\ at' = [at EXCEPT ![Client(c)] = n]
    /\ streams' = [streams EXCEPT ![Client(c)] = ss]
    /\ asked' = [asked EXCEPT ![c] = Range(ss)]
    /\ UNCHANGED <<ok, out, waiting, ringVars, copies, failed, late>>

Running(n) == {r \in Ids : phase[r] = "running" /\ at[r] = n}

\* A thread of the server takes the request.
\* FAULT: it does not matter how many are at work.
BeginAnyway(r) ==
    /\ phase[r] = "queued"
    /\ phase' = [phase EXCEPT ![r] = "running"]
    /\ UNCHANGED <<at, streams, ok, out, waiting, ringVars, histVars>>
Begin(r) ==
    /\ phase[r] = "queued"
    /\ Cardinality(Running(at[r])) < Threads
    /\ phase' = [phase EXCEPT ![r] = "running"]
    /\ UNCHANGED <<at, streams, ok, out, waiting, ringVars, histVars>>

InLoop(r) == phase[r] = "running" /\ streams[r] # <<>>
Name(r)   == Head(streams[r])
Valid(r)  == Name(r) \notin BadNames /\ ring[at[r]] # {}

\* The stream belongs to another server, according to the ring of this one.
Elsewhere(r) == GetNode(ring[at[r]], Name(r)) # at[r] /\ ~Forwarded(r)

Advance(r) == streams' = [streams EXCEPT ![r] = Tail(@)]

\* An invalid name, an empty ring or a value in the future: the exception ends
\* the loop, and the streams behind are not looked at.
\* FAULT: the exception is only logged.
BreakSilently(r) ==
    /\ InLoop(r)
    /\ streams' = [streams EXCEPT ![r] = <<>>]
    /\ UNCHANGED <<phase, at, ok, out, waiting, ringVars, histVars>>
Break(r) ==
    /\ InLoop(r)
    /\ Valid(r) => ~Elsewhere(r) /\ Name(r) \in Early \ Dropping
    /\ streams' = [streams EXCEPT ![r] = <<>>]
    /\ ok' = [ok EXCEPT ![r] = FALSE]
    /\ UNCHANGED <<phase, at, out, waiting, ringVars, histVars>>

\* The stream is put aside for its server.
\* FAULT: it is recorded here too.
PutAsideAndRecord(r) ==
    /\ InLoop(r)
    /\ Valid(r) /\ Elsewhere(r)
    /\ out' = [out EXCEPT ![r.client][GetNode(ring[at[r]], Name(r))] =
                  Append(@, Name(r))]
    /\ copies' = [copies EXCEPT ![at[r]][<<r.client, Name(r)>>] = @ + 1]
    /\ Advance(r)
    /\ UNCHANGED <<phase, at, ok, waiting, ringVars, asked, failed, late>>
PutAside(r) ==
    /\ InLoop(r)
    /\ Valid(r) /\ Elsewhere(r)
    /\ out' = [out EXCEPT ![r.client][GetNode(ring[at[r]], Name(r))] =
                  Append(@, Name(r))]
    /\ Advance(r)
    /\ UNCHANGED <<phase, at, ok, waiting, ringVars, histVars>>

\* The stream is recorded, unless the retention policy says to drop it.
Record(r) ==
    /\ InLoop(r)
    /\ Valid(r) /\ ~Elsewhere(r)
    /\ IF Name(r) \in Dropping
         THEN UNCHANGED copies
         ELSE /\ Name(r) \notin Early
              /\ copies' = [copies EXCEPT ![at[r]][<<r.client, Name(r)>>] = @ + 1]
    /\ Advance(r)
    /\ UNCHANGED <<phase, at, ok, out, waiting, ringVars, asked, failed, late>>

LoopDone(r) == phase[r] = "running" /\ streams[r] = <<>>

Answer(r) ==
    /\ LoopDone(r)
    /\ ~Forwarded(r) => out[r.client] = NoStreams
    /\ phase' = [phase EXCEPT ![r] = "answered"]
    /\ UNCHANGED <<at, streams, ok, out, waiting, ringVars, histVars>>
-----------------------------------------------------------------------------
(***************************************************************************)
(* StoreClient::Add, called for one server after the other.                *)
(***************************************************************************)
Sending(c) == waiting[c] # NotWaiting
ForwardOf(c) == Forward(c, waiting[c][1], waiting[c][2])

\* SendRequestToHost at address k: the connection succeeds, or it does not and
\* the outcome is that of a forward without an answer.
Connect(c, n, k) ==
    /\ waiting' = [waiting EXCEPT ![c] = <<n, k>>]
    /\ LET r == Forward(c, n, k) IN
       \/ /\ phase' = [phase EXCEPT ![r] = "queued"]
          /\ at' = [at EXCEPT ![r] = n]
          /\ streams' = [streams EXCEPT ![r] = out[c][n]]
       \/ UNCHANGED <<phase, at, streams>>

StartForward(c, n) ==
    /\ LoopDone(Client(c))
    /\ ~Sending(c)
    /\ out[c][n] # <<>>
    /\ Connect(c, n, 1)
    /\ UNCHANGED <<ok, out, ringVars, histVars>>

\* The forward to the server is over.
EndForward(c) ==
    /\ out' = [out EXCEPT ![c][waiting[c][1]] = <<>>]
    /\ waiting' = [waiting EXCEPT ![c] = NotWaiting]
    /\ UNCHANGED <<phase, at, streams, ok, ringVars>>

\* The server has answered. An answer without success is an exception, which is
\* logged: the client that sent the streams is not told.
ForwardAnswered(c) ==
    /\ Sending(c)
    /\ phase[ForwardOf(c)] = "answered"
    /\ EndForward(c)
    /\ failed' = IF ok[ForwardOf(c)] THEN failed ELSE failed \cup {c}
    /\ UNCHANGED <<asked, copies, late>>

\* No answer before the deadline, or no connection: the request is sent again to
\* the next address, if there is one. What was sent may still be carried out.
Retry(c) ==
    /\ Sending(c)
    /\ waiting[c][2] < Addresses
    /\ Connect(c, waiting[c][1], waiting[c][2] + 1)
    /\ late' = late \cup {c}
    /\ UNCHANGED <<ok, out, ringVars, asked, copies, failed>>

\* FAULT: there is no deadline.
GiveUpNever(c) == FALSE /\ UNCHANGED vars
GiveUp(c) ==
    /\ Sending(c)
    /\ waiting[c][2] = Addresses
    /\ EndForward(c)
    /\ failed' = failed \cup {c}
    /\ late' = late \cup {c}
    /\ UNCHANGED <<asked, copies>>
-----------------------------------------------------------------------------
Requests == {ss \in UNION {[1..k -> Names] : k \in 1..MaxStreams} :
                 \A i, j \in DOMAIN ss : i # j => ss[i] # ss[j]}

ThreadStep(r) ==
    Begin(r) \/ Break(r) \/ PutAside(r) \/ Record(r) \/ Answer(r)

ServerStep(n) == \E r \in Ids : at[r] = n /\ ThreadStep(r)

ForwardStep(c) ==
    \/ \E n \in Nodes : StartForward(c, n)
    \/ ForwardAnswered(c)
    \/ Retry(c)
    \/ GiveUp(c)

Next ==
    \/ \E c \in Clients, n \in Nodes, ss \in Requests : Add(c, n, ss)
    \/ \E n \in Nodes : ServerStep(n)
    \/ \E c \in Clients : ForwardStep(c)
    \/ \E n \in Nodes, S \in Configs : HandleNewConfig(n, S)
    \/ \E n \in Nodes : AddNode(n)

Spec == Init /\ [][Next]_vars

\* A server with something to do does something: its threads at work go on, or
\* a free one takes a request. The deadline of a forward passes. Neither clients
\* nor configuration files need do anything.
FairSpec ==
    /\ Spec
    /\ \A n \in Nodes : WF_vars(ServerStep(n))
    /\ \A c \in Clients : WF_vars(ForwardStep(c))
-----------------------------------------------------------------------------
(***************************************************************************)
(* Properties.                                                             *)
(***************************************************************************)

\* Every variable holds a value of its kind, and no server works on more
\* requests than it has threads.
TypeOK ==
    /\ phase \in [Ids -> {"none", "queued", "running", "answered"}]
    /\ at \in [Ids -> Nodes \cup {NoNode}]
    /\ streams \in [Ids -> Seq(Names)]
    /\ ok \in [Ids -> BOOLEAN]
    /\ out \in [Clients -> [Nodes -> Seq(Names)]]
    /\ waiting \in [Clients -> (Nodes \cup {NoNode}) \X (0..Addresses)]
    /\ ring \in [Nodes -> SUBSET Nodes]
    /\ adding \in [Nodes -> SUBSET Nodes]
    /\ asked \in [Clients -> SUBSET Names]
    /\ copies \in [Nodes -> [Clients \X Names -> 0..Addresses]]
    /\ failed \subseteq Clients
    /\ late \subseteq Clients
    /\ reloads \in 0..MaxReloads
    /\ \A n \in Nodes : Cardinality(Running(n)) <= Threads

Recorded(s) == {n \in Nodes : copies[n][s] > 0}

\* "should not be forwarded again. This shouldn't happen but is here as a
\* failsafe": a stream is recorded by one server only, and more than once only
\* if a forward was not answered in time, even while the servers disagree on
\* the ring.
RecordedOnce ==
    \A s \in Clients \X Names :
        /\ Cardinality(Recorded(s)) <= 1
        /\ s[1] \notin late => \A n \in Nodes : copies[n][s] <= 1

\* As long as no configuration changes, whichever server gets a stream, it is
\* recorded by the server that the ring gives for its name.
RecordedByOwner ==
    reloads = 0 => \A s \in Clients \X Names :
        Recorded(s) \subseteq {IF s[2] \in Nodes THEN s[2] ELSE 1}

\* A client that is told success has all its streams recorded, except those the
\* retention policy drops, unless a forward has failed.
SuccessMeansRecorded ==
    \A c \in Clients :
        phase[Client(c)] = "answered" /\ ok[Client(c)] /\ c \notin failed =>
            \A v \in asked[c] \ Dropping : Recorded(<<c, v>>) # {}

\* Every request is answered, although servers may have all their threads
\* waiting for each other's.
AllAnswered == \A c \in Clients :
    phase[Client(c)] = "queued" ~> phase[Client(c)] = "answered"
=============================================================================
