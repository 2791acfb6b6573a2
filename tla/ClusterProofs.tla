---------------------------- MODULE ClusterProofs ----------------------------
(***************************************************************************)
(* Proofs about module Cluster, for any number of servers, names, clients, *)
(* addresses, threads and reloads: the types, and that forwarding neither  *)
(* duplicates a stream, nor takes it to a server that the ring does not    *)
(* give, nor loses it without a failure.                                   *)
(***************************************************************************)
EXTENDS Cluster, SequenceTheorems, FiniteSetTheorems, TLAPS

\* No name occurs twice in a sequence of streams.
Distinct(ss) == \A i, j \in DOMAIN ss : ss[i] = ss[j] => i = j

\* Where a request is in its life, seen from its streams.
PhaseOf(r) ==
    /\ phase[r] \in {"none", "answered"} => streams[r] = <<>>
    /\ phase[r] # "none" => at[r] \in Nodes
    /\ phase[r] # "none" /\ Forwarded(r) =>
          /\ at[r] = r.dest
          /\ phase[Client(r.client)] \in {"running", "answered"}
          /\ streams[Client(r.client)] = <<>>
    /\ Distinct(streams[r])
PhaseInv == \A r \in Ids : PhaseOf(r)

\* The streams put aside are forwarded to one server after the other, when the
\* loop of the request is done, and to one address after the other.
SendOf(c) ==
    /\ phase[Client(c)] # "running" => out[c] = NoStreams /\ ~Sending(c)
    /\ Sending(c) => /\ LoopDone(Client(c))
                     /\ waiting[c][1] \in Nodes
                     /\ waiting[c][2] \in 1..Addresses
                     /\ out[c][waiting[c][1]] # <<>>
    /\ \A n \in Nodes : Distinct(out[c][n])
    /\ \A n \in Nodes, k \in 1..Addresses :
          phase[Forward(c, n, k)] # "none" =>
              /\ out[c][n] # <<>> => waiting[c][1] = n /\ k <= waiting[c][2]
              /\ k > 1 => c \in late
SendInv == \A c \in Clients : SendOf(c)

\* The stream v of client c is put aside for server n, or on its way to it.
OnWay(c, v, n) ==
    \/ v \in Range(out[c][n])
    \/ \E k \in 1..Addresses : v \in Range(streams[Forward(c, n, k)])

\* It is on its way to the server, or has arrived there.
Site(c, v, n) == OnWay(c, v, n) \/ copies[n][<<c, v>>] > 0

\* A stream that has been looked at is at one server at most.
SiteInv ==
    \A c \in Clients, v \in Names :
        /\ \A m, n \in Nodes : Site(c, v, m) /\ Site(c, v, n) => m = n
        /\ v \in Range(streams[Client(c)]) => \A n \in Nodes : ~Site(c, v, n)
        /\ phase[Client(c)] \in {"none", "queued"} =>
              \A n \in Nodes : copies[n][<<c, v>>] = 0

\* The addresses of n at which the stream v of client c has been looked at.
Spent(c, v, n) == {k \in 1..Addresses :
                     /\ phase[Forward(c, n, k)] # "none"
                     /\ v \notin Range(streams[Forward(c, n, k)])}

\* A server records a stream once for each address, or, when it is the one
\* that the client has sent it to, once.
CopyInv ==
    \A c \in Clients, v \in Names, n \in Nodes :
        \/ copies[n][<<c, v>>] <= Cardinality(Spent(c, v, n))
        \/ copies[n][<<c, v>>] = 1 /\ ~OnWay(c, v, n)

\* The server that the ring of all servers gives for a name.
Owner(v) == IF v \in Nodes THEN v ELSE 1

\* Without a reload every stream is at its owner.
OwnerInv ==
    reloads = 0 =>
        /\ \A n \in Nodes : ring[n] = Nodes /\ adding[n] = {}
        /\ \A c \in Clients, v \in Names, n \in Nodes : Site(c, v, n) => n = Owner(v)

\* A stream that was asked for is still to be looked at, put aside, or
\* recorded, unless the client is told or a forward has failed; and what is put
\* aside is recorded when the forward is answered with success.
Accounted(c, v) ==
    \/ v \in Range(streams[Client(c)])
    \/ \E n \in Nodes : v \in Range(out[c][n])
    \/ \E n \in Nodes : copies[n][<<c, v>>] > 0
Carried(c, v, n, k) ==
    \/ v \in Range(streams[Forward(c, n, k)])
    \/ copies[n][<<c, v>>] > 0
AnswerInv ==
    \A c \in Clients :
        /\ phase[Client(c)] # "none" /\ ok[Client(c)] /\ c \notin failed =>
              \A v \in asked[c] \ Dropping : Accounted(c, v)
        /\ \A n \in Nodes, k \in 1..Addresses :
              phase[Forward(c, n, k)] # "none" /\ ok[Forward(c, n, k)] =>
                  \A v \in Range(out[c][n]) \ Dropping : Carried(c, v, n, k)

\* No server works on more requests than it has threads, which presupposes that
\* they can be counted.
CountInv == \A n \in Nodes :
    IsFiniteSet(Running(n)) /\ Cardinality(Running(n)) <= Threads

\* The kinds of the variables; how large copies grows is a matter of CopyInv.
Kinds ==
    /\ phase \in [Ids -> {"none", "queued", "running", "answered"}]
    /\ at \in [Ids -> Nodes \cup {NoNode}]
    /\ streams \in [Ids -> Seq(Names)]
    /\ ok \in [Ids -> BOOLEAN]
    /\ out \in [Clients -> [Nodes -> Seq(Names)]]
    /\ waiting \in [Clients -> (Nodes \cup {NoNode}) \X (0..Addresses)]
    /\ ring \in [Nodes -> SUBSET Nodes]
    /\ adding \in [Nodes -> SUBSET Nodes]
    /\ asked \in [Clients -> SUBSET Names]
    /\ copies \in [Nodes -> [Clients \X Names -> Nat]]
    /\ failed \subseteq Clients
    /\ late \subseteq Clients
    /\ reloads \in 0..MaxReloads

ClusterInv == Kinds /\ CountInv /\ PhaseInv /\ SendInv /\ SiteInv /\ CopyInv
-----------------------------------------------------------------------------
\* A request is the one of a client or one of its forwards.
LEMMA IdFacts ==
    /\ \A c \in Clients : /\ Client(c) \in Ids /\ Client(c).client = c
                          /\ ~ Forwarded(Client(c))
    /\ \A c \in Clients, n \in Nodes, k \in 1..Addresses :
          /\ Forward(c, n, k) \in Ids /\ Forwarded(Forward(c, n, k))
          /\ Forward(c, n, k).client = c
          /\ Forward(c, n, k).dest = n
          /\ Forward(c, n, k).try = k
    /\ \A r \in Ids :
          /\ r.client \in Clients
          /\ ~ Forwarded(r) => r = Client(r.client)
          /\ Forwarded(r) => /\ r.dest \in Nodes /\ r.try \in 1..Addresses
                             /\ r = Forward(r.client, r.dest, r.try)
<1>1. NoNode \notin Nodes
  BY ClusterAssumption DEF NoNode, Nodes
<1>2. \A c \in Clients : /\ Client(c) \in Ids /\ Client(c).client = c
                         /\ ~ Forwarded(Client(c))
  BY DEF Ids, Client, Forwarded
<1>3. \A c \in Clients, n \in Nodes, k \in 1..Addresses :
          /\ Forward(c, n, k) \in Ids /\ Forwarded(Forward(c, n, k))
          /\ Forward(c, n, k).client = c
          /\ Forward(c, n, k).dest = n
          /\ Forward(c, n, k).try = k
  BY <1>1 DEF Ids, Forward, Forwarded
<1>4. ASSUME NEW r \in Ids
      PROVE  \/ \E c \in Clients : r = Client(c)
             \/ \E c \in Clients, n \in Nodes, k \in 1..Addresses : r = Forward(c, n, k)
  BY DEF Ids
<1> QED
  BY <1>2, <1>3, <1>4

\* The names of a sequence of streams without its head.
LEMMA TailFacts ==
    ASSUME NEW ss \in Seq(Names), ss # <<>>, Distinct(ss)
    PROVE  /\ Head(ss) \in Names /\ Head(ss) \in Range(ss)
           /\ Tail(ss) \in Seq(Names) /\ Distinct(Tail(ss))
           /\ Range(Tail(ss)) = Range(ss) \ {Head(ss)}
<1>1. /\ Len(ss) \in Nat /\ Len(ss) >= 1 /\ DOMAIN ss = 1..Len(ss)
      /\ \A i \in 1..Len(ss) : ss[i] \in Names
  BY LenProperties, ElementOfSeq, EmptySeq
<1>2. /\ Head(ss) = ss[1] /\ Tail(ss) \in Seq(Names)
      /\ Len(Tail(ss)) = Len(ss) - 1 /\ DOMAIN Tail(ss) = 1..(Len(ss) - 1)
      /\ \A i \in 1..(Len(ss) - 1) : Tail(ss)[i] = ss[i + 1]
  BY <1>1, HeadTailProperties, LenProperties
<1>3. Head(ss) \in Names /\ Head(ss) \in Range(ss)
  BY <1>1, <1>2 DEF Range
<1>4. Distinct(Tail(ss))
  <2> SUFFICES ASSUME NEW i \in 1..(Len(ss) - 1), NEW j \in 1..(Len(ss) - 1),
                      ss[i + 1] = ss[j + 1]
               PROVE  i = j
    BY <1>2 DEF Distinct
  <2>1. i + 1 \in 1..Len(ss) /\ j + 1 \in 1..Len(ss)
    BY <1>1
  <2>2. i + 1 = j + 1
    BY <1>1, <2>1 DEF Distinct
  <2> QED
    BY <1>1, <2>2
<1>5. ASSUME NEW v PROVE v \in Range(Tail(ss)) <=> v \in Range(ss) /\ v # Head(ss)
  <2>1. ASSUME v \in Range(Tail(ss)) PROVE v \in Range(ss) /\ v # Head(ss)
    <3>1. PICK i \in 1..(Len(ss) - 1) : v = ss[i + 1]
      BY <1>2, <2>1 DEF Range
    <3>2. i + 1 \in 1..Len(ss) /\ i + 1 # 1 /\ 1 \in 1..Len(ss)
      BY <1>1
    <3> QED
      BY <1>1, <1>2, <3>1, <3>2 DEF Range, Distinct
  <2>2. ASSUME v \in Range(ss), v # Head(ss) PROVE v \in Range(Tail(ss))
    <3>1. PICK i \in 1..Len(ss) : v = ss[i]
      BY <1>1, <2>2 DEF Range
    <3>2. i # 1
      BY <1>2, <2>2, <3>1
    <3>3. i - 1 \in 1..(Len(ss) - 1) /\ (i - 1) + 1 = i
      BY <1>1, <3>2
    <3>4. Tail(ss)[i - 1] = v
      BY <1>2, <3>1, <3>3
    <3> QED
      BY <1>2, <3>3, <3>4 DEF Range
  <2> QED
    BY <2>1, <2>2
<1> QED
  BY <1>2, <1>3, <1>4, <1>5

\* The names of a sequence of streams with one more.
LEMMA AppendFacts ==
    ASSUME NEW ss \in Seq(Names), NEW v \in Names
    PROVE  /\ Append(ss, v) \in Seq(Names) /\ Append(ss, v) # <<>>
           /\ Range(Append(ss, v)) = Range(ss) \cup {v}
           /\ Distinct(ss) /\ v \notin Range(ss) => Distinct(Append(ss, v))
<1>1. Len(ss) \in Nat /\ DOMAIN ss = 1..Len(ss)
  BY LenProperties
<1>2. /\ Append(ss, v) \in Seq(Names) /\ DOMAIN Append(ss, v) = 1..(Len(ss) + 1)
      /\ Append(ss, v)[Len(ss) + 1] = v
      /\ \A i \in 1..Len(ss) : Append(ss, v)[i] = ss[i]
      /\ Len(Append(ss, v)) = Len(ss) + 1
  BY <1>1, AppendProperties, LenProperties
<1>3. Append(ss, v) # <<>>
  BY <1>1, <1>2, EmptySeq
<1>4. 1..(Len(ss) + 1) = 1..Len(ss) \cup {Len(ss) + 1}
  BY <1>1
<1>5. Range(Append(ss, v)) = Range(ss) \cup {v}
  BY <1>1, <1>2, <1>4 DEF Range
<1>6. ASSUME Distinct(ss), v \notin Range(ss) PROVE Distinct(Append(ss, v))
  <2>1. \A i \in 1..Len(ss) : ss[i] # v
    BY <1>1, <1>6 DEF Range
  <2>2. \A i, j \in 1..Len(ss) : ss[i] = ss[j] => i = j
    BY <1>1, <1>6 DEF Distinct
  <2> SUFFICES ASSUME NEW i \in 1..(Len(ss) + 1), NEW j \in 1..(Len(ss) + 1),
                      Append(ss, v)[i] = Append(ss, v)[j]
               PROVE  i = j
    BY <1>2 DEF Distinct
  <2>3. CASE i \in 1..Len(ss) /\ j \in 1..Len(ss)
    BY <1>2, <2>2, <2>3
  <2>4. CASE i = Len(ss) + 1 \/ j = Len(ss) + 1
    BY <1>2, <1>4, <2>1, <2>4
  <2> QED
    BY <1>4, <2>3, <2>4
<1> QED
  BY <1>2, <1>3, <1>5, <1>6

\* There is no name in an empty sequence.
LEMMA EmptyFacts ==
    /\ Range(<<>>) = {} /\ Distinct(<<>>) /\ <<>> \in Seq(Names)
    /\ \A ss \in Seq(Names) : Range(ss) \subseteq Names /\ (Range(ss) = {} => ss = <<>>)
<1>1. DOMAIN (<<>>) = {} /\ <<>> \in Seq(Names)
  BY EmptySeq
<1>2. ASSUME NEW ss \in Seq(Names)
      PROVE  Range(ss) \subseteq Names /\ (Range(ss) = {} => ss = <<>>)
  <2>1. Len(ss) \in Nat /\ DOMAIN ss = 1..Len(ss)
    BY LenProperties
  <2>2. ss # <<>> => 1 \in DOMAIN ss
    BY <2>1, EmptySeq
  <2>3. \A i \in DOMAIN ss : ss[i] \in Names
    BY <2>1, ElementOfSeq
  <2>4. Range(ss) \subseteq Names
    BY <2>3 DEF Range
  <2>5. Range(ss) = {} => ss = <<>>
    BY <2>2 DEF Range
  <2> QED
    BY <2>4, <2>5
<1> QED
  BY <1>1, <1>2 DEF Range, Distinct

\* What a client may send.
LEMMA RequestFacts ==
    ASSUME NEW ss \in Requests PROVE ss \in Seq(Names) /\ Distinct(ss)
<1>1. PICK k \in 1..MaxStreams : ss \in [1..k -> Names]
  BY DEF Requests
<1>2. ss \in Seq(Names)
  BY <1>1, ClusterAssumption, IsASeq
<1> QED
  BY <1>2 DEF Requests, Distinct

\* The step of a thread in HandleAdd's loop takes the first of the streams.
LEMMA LoopFacts ==
    ASSUME Kinds, PhaseInv, NEW r \in Ids, InLoop(r)
    PROVE  /\ Name(r) \in Names /\ Name(r) \in Range(streams[r])
           /\ at[r] \in Nodes
           /\ Tail(streams[r]) \in Seq(Names) /\ Distinct(Tail(streams[r]))
           /\ Range(Tail(streams[r])) = Range(streams[r]) \ {Name(r)}
<1>1. streams[r] \in Seq(Names) /\ streams[r] # <<>> /\ Distinct(streams[r])
  BY DEF Kinds, InLoop, PhaseInv, PhaseOf
<1>2. at[r] \in Nodes
  BY DEF PhaseInv, PhaseOf, InLoop
<1> QED
  BY <1>1, <1>2, TailFacts DEF Name

\* The server a name belongs to is one of the ring.
LEMMA NodeFacts ==
    ASSUME NEW S, S \subseteq Nodes, S # {}, NEW v \in Names
    PROVE  /\ GetNode(S, v) \in S
           /\ S = Nodes => GetNode(S, v) = Owner(v)
<1>1. ASSUME NEW T, T \subseteq Nodes, T # {}
      PROVE  Least(T) \in T /\ \A m \in T : Least(T) <= m
  <2>1. \E n \in T : \A m \in T : n <= m
    <3>1. T \subseteq Nat /\ T # {}
      BY <1>1, ClusterAssumption DEF Nodes
    <3>2. PICK n \in T : \A m \in T : <<m, n>> \notin OpToRel(<, Nat)
      BY <3>1, NatLessThanWellFounded, WFMin
    <3>3. \A m \in T : ~(m < n)
      BY <3>1, <3>2, Zenon DEF OpToRel
    <3> QED
      BY <3>1, <3>3
  <2> QED
    BY <2>1 DEF Least
<1> DEFINE behind == {n \in S : n >= v}
<1>2. behind \subseteq Nodes
  OBVIOUS
<1>3. GetNode(S, v) = IF behind # {} THEN Least(behind) ELSE Least(S)
  BY DEF GetNode
<1>4. GetNode(S, v) \in S
  BY <1>1, <1>2, <1>3
<1>5. ASSUME S = Nodes PROVE GetNode(S, v) = Owner(v)
  <2>1. v \in Nat /\ NumNodes \in Nat /\ NumNodes >= 1 /\ Nodes = 1..NumNodes /\ v >= 1
    BY ClusterAssumption DEF Names, Nodes
  <2>2. CASE v \in Nodes
    <3>1. v \in behind
      BY <1>5, <2>1, <2>2
    <3>2. Least(behind) \in behind /\ Least(behind) <= v
      BY <1>1, <1>2, <3>1
    <3>3. Least(behind) \in 1..NumNodes /\ Least(behind) >= v
      BY <1>5, <2>1, <3>2
    <3>4. Least(behind) = v
      BY <2>1, <3>2, <3>3
    <3> QED
      BY <1>3, <2>2, <3>1, <3>4 DEF Owner
  <2>3. CASE v \notin Nodes
    <3>1. behind = {}
      BY <1>5, <2>1, <2>3
    <3>2. 1 \in Nodes /\ Least(Nodes) \in Nodes /\ Least(Nodes) <= 1
      <4>1. 1 \in Nodes
        BY <2>1
      <4> QED
        BY <1>1, <4>1
    <3>3. Least(Nodes) = 1
      BY <2>1, <3>2
    <3> QED
      BY <1>3, <1>5, <2>3, <3>1, <3>3 DEF Owner
  <2> QED
    BY <2>2, <2>3
<1> QED
  BY <1>4, <1>5

\* SendRequestToHost keeps the kinds of what it changes.
LEMMA ConnectFacts ==
    ASSUME Kinds, NEW c \in Clients, NEW n \in Nodes, NEW k \in 1..Addresses,
           Connect(c, n, k)
    PROVE  /\ phase' \in [Ids -> {"none", "queued", "running", "answered"}]
           /\ at' \in [Ids -> Nodes \cup {NoNode}]
           /\ streams' \in [Ids -> Seq(Names)]
           /\ waiting' = [waiting EXCEPT ![c] = <<n, k>>]
           /\ waiting' \in [Clients -> (Nodes \cup {NoNode}) \X (0..Addresses)]
<1>1. Forward(c, n, k) \in Ids /\ out[c][n] \in Seq(Names)
  BY IdFacts DEF Kinds
<1>2. k \in 0..Addresses
  BY ClusterAssumption
<1>3. waiting' = [waiting EXCEPT ![c] = <<n, k>>]
  BY DEF Connect
<1>4. waiting' \in [Clients -> (Nodes \cup {NoNode}) \X (0..Addresses)]
  BY <1>2, <1>3 DEF Kinds
<1>5. CASE UNCHANGED <<phase, at, streams>>
  BY <1>3, <1>4, <1>5 DEF Kinds
<1>6. CASE ~ UNCHANGED <<phase, at, streams>>
  <2>1. /\ phase' = [phase EXCEPT ![Forward(c, n, k)] = "queued"]
        /\ at' = [at EXCEPT ![Forward(c, n, k)] = n]
        /\ streams' = [streams EXCEPT ![Forward(c, n, k)] = out[c][n]]
    BY <1>6 DEF Connect
  <2> QED
    BY <1>1, <1>3, <1>4, <2>1 DEF Kinds
<1> QED
  BY <1>5, <1>6

\* Every step keeps the kinds of the variables.
LEMMA KindsStep == Kinds /\ PhaseInv /\ SendInv /\ [Next]_vars => Kinds'
<1> SUFFICES ASSUME Kinds, PhaseInv, SendInv, [Next]_vars PROVE Kinds'
  OBVIOUS
<1>1. ASSUME NEW c \in Clients, NEW n \in Nodes, NEW ss \in Requests, Add(c, n, ss)
      PROVE  Kinds'
  <2>1. ss \in Seq(Names) /\ Range(ss) \subseteq Names /\ Client(c) \in Ids
    BY RequestFacts, EmptyFacts, IdFacts
  <2> QED
    BY <1>1, <2>1 DEF Add, Kinds, ringVars
<1>2. ASSUME NEW r \in Ids, Begin(r) \/ Answer(r) PROVE Kinds'
  BY <1>2 DEF Begin, Answer, Kinds, ringVars, histVars
<1>3. ASSUME NEW r \in Ids, Break(r) PROVE Kinds'
  <2>1. <<>> \in Seq(Names)
    BY EmptyFacts
  <2>2. ok' \in [Ids -> BOOLEAN]
    BY <1>3 DEF Break, Kinds
  <2> QED
    BY <1>3, <2>1, <2>2 DEF Break, Kinds, ringVars, histVars
<1>4. ASSUME NEW r \in Ids, PutAside(r) PROVE Kinds'
  <2> DEFINE g == GetNode(ring[at[r]], Name(r))
  <2>1. /\ Name(r) \in Names /\ at[r] \in Nodes /\ Tail(streams[r]) \in Seq(Names)
        /\ r.client \in Clients
    BY <1>4, LoopFacts, IdFacts DEF PutAside
  <2>2. g \in Nodes
    <3>1. ring[at[r]] \subseteq Nodes /\ ring[at[r]] # {}
      BY <1>4, <2>1 DEF PutAside, Valid, Kinds
    <3> QED
      BY <2>1, <3>1, NodeFacts
  <2>3. Append(out[r.client][g], Name(r)) \in Seq(Names)
    BY <2>1, <2>2, AppendFacts DEF Kinds
  <2>4. /\ out' = [out EXCEPT ![r.client][g] = Append(@, Name(r))]
        /\ streams' = [streams EXCEPT ![r] = Tail(@)]
        /\ UNCHANGED <<phase, at, ok, waiting, ringVars, histVars>>
    BY <1>4 DEF PutAside, Advance
  <2> HIDE DEF g
  <2>5. out' \in [Clients -> [Nodes -> Seq(Names)]]
    BY <2>1, <2>2, <2>3, <2>4 DEF Kinds
  <2>6. streams' \in [Ids -> Seq(Names)]
    BY <2>1, <2>4 DEF Kinds
  <2> QED
    BY <2>4, <2>5, <2>6 DEF Kinds, ringVars, histVars
<1>5. ASSUME NEW r \in Ids, Record(r) PROVE Kinds'
  <2>1. /\ Name(r) \in Names /\ at[r] \in Nodes /\ Tail(streams[r]) \in Seq(Names)
        /\ r.client \in Clients
    BY <1>5, LoopFacts, IdFacts DEF Record
  <2>2. streams' \in [Ids -> Seq(Names)]
    BY <1>5, <2>1 DEF Record, Advance, Kinds
  <2>3. copies' \in [Nodes -> [Clients \X Names -> Nat]]
    <3>1. copies[at[r]][<<r.client, Name(r)>>] + 1 \in Nat
      BY <2>1 DEF Kinds
    <3>2. CASE UNCHANGED copies
      BY <3>2 DEF Kinds
    <3>3. CASE ~ UNCHANGED copies
      <4> DEFINE s == <<r.client, Name(r)>>
                 f == [copies[at[r]] EXCEPT ![s] = @ + 1]
      <4>1. copies' = [copies EXCEPT ![at[r]] = f]
        BY <1>5, <3>3 DEF Record
      <4>2. copies[at[r]] \in [Clients \X Names -> Nat] /\ s \in Clients \X Names
        BY <2>1 DEF Kinds
      <4>3. f \in [Clients \X Names -> Nat]
        BY <3>1, <4>2
      <4> HIDE DEF f
      <4> QED
        BY <2>1, <4>1, <4>3 DEF Kinds
    <3> QED
      BY <3>2, <3>3
  <2> QED
    BY <1>5, <2>2, <2>3 DEF Record, Kinds, ringVars
<1>6. ASSUME NEW c \in Clients, NEW n \in Nodes, StartForward(c, n) PROVE Kinds'
  <2>1. 1 \in 1..Addresses
    BY ClusterAssumption
  <2>2. Connect(c, n, 1) /\ UNCHANGED <<ok, out, ringVars, histVars>>
    BY <1>6 DEF StartForward
  <2> QED
    BY <2>1, <2>2, ConnectFacts DEF Kinds, ringVars, histVars
<1>7. ASSUME NEW c \in Clients, Retry(c) PROVE Kinds'
  <2>1. waiting[c][1] \in Nodes /\ waiting[c][2] + 1 \in 1..Addresses
    BY <1>7, ClusterAssumption DEF Retry, SendInv, SendOf
  <2>2. /\ Connect(c, waiting[c][1], waiting[c][2] + 1)
        /\ UNCHANGED <<ok, out, ringVars, asked, copies, failed>>
        /\ late' = late \cup {c}
    BY <1>7 DEF Retry
  <2> QED
    BY <2>1, <2>2, ConnectFacts DEF Kinds, ringVars
<1>8. ASSUME NEW c \in Clients, ForwardAnswered(c) \/ GiveUp(c) PROVE Kinds'
  <2>1. /\ out' = [out EXCEPT ![c][waiting[c][1]] = <<>>]
        /\ waiting' = [waiting EXCEPT ![c] = NotWaiting]
        /\ UNCHANGED <<phase, at, streams, ok, ringVars, asked, copies>>
        /\ failed' \in {failed, failed \cup {c}} /\ late' \in {late, late \cup {c}}
    BY <1>8 DEF ForwardAnswered, GiveUp, EndForward
  <2>2. out' \in [Clients -> [Nodes -> Seq(Names)]]
    BY <2>1, EmptyFacts DEF Kinds
  <2>3. waiting' \in [Clients -> (Nodes \cup {NoNode}) \X (0..Addresses)]
    <3>1. NotWaiting \in (Nodes \cup {NoNode}) \X (0..Addresses)
      BY ClusterAssumption DEF NotWaiting
    <3> QED
      BY <2>1, <3>1 DEF Kinds
  <2> QED
    BY <2>1, <2>2, <2>3 DEF Kinds, ringVars
<1>9. ASSUME NEW n \in Nodes, NEW S \in Configs, HandleNewConfig(n, S) PROVE Kinds'
  <2>1. S \subseteq Nodes
    BY ClusterAssumption DEF Nodes
  <2>2. /\ ring' = [ring EXCEPT ![n] = {}] /\ adding' = [adding EXCEPT ![n] = S]
        /\ reloads < MaxReloads /\ reloads' = reloads + 1
        /\ UNCHANGED <<phase, at, streams, ok, out, waiting, asked, copies, failed, late>>
    BY <1>9 DEF HandleNewConfig, reqVars, histVars
  <2>3. reloads' \in 0..MaxReloads
    BY <2>2, ClusterAssumption DEF Kinds
  <2>4. ring' \in [Nodes -> SUBSET Nodes] /\ adding' \in [Nodes -> SUBSET Nodes]
    BY <2>1, <2>2 DEF Kinds
  <2> QED
    BY <2>2, <2>3, <2>4 DEF Kinds
<1>10. ASSUME NEW n \in Nodes, AddNode(n) PROVE Kinds'
  <2>1. PICK m \in adding[n] : /\ ring' = [ring EXCEPT ![n] = @ \cup {m}]
                               /\ adding' = [adding EXCEPT ![n] = @ \ {m}]
    BY <1>10 DEF AddNode
  <2>2. UNCHANGED <<phase, at, streams, ok, out, waiting, asked, copies, failed, late, reloads>>
    BY <1>10 DEF AddNode, reqVars, histVars
  <2>3. ring' \in [Nodes -> SUBSET Nodes] /\ adding' \in [Nodes -> SUBSET Nodes]
    BY <2>1 DEF Kinds
  <2> QED
    BY <2>2, <2>3 DEF Kinds
<1>11. CASE UNCHANGED vars
  BY <1>11 DEF vars, reqVars, ringVars, histVars, Kinds
<1> QED
  BY <1>1, <1>2, <1>3, <1>4, <1>5, <1>6, <1>7, <1>8, <1>9, <1>10, <1>11
     DEF Next, ServerStep, ThreadStep, ForwardStep

\* What a step of a thread changes, in terms of the names of the streams.
LEMMA ThreadFacts ==
    ASSUME Kinds, PhaseInv, NEW r \in Ids, ThreadStep(r)
    PROVE  /\ r.client \in Clients
           /\ phase[r] \in {"queued", "running"} /\ phase'[r] \in {"running", "answered"}
           /\ phase' = [phase EXCEPT ![r] = phase'[r]]
           /\ streams' = [streams EXCEPT ![r] = streams'[r]]
           /\ phase'[r] = "answered" => streams'[r] = <<>>
           /\ Distinct(streams'[r])
           /\ Range(streams'[r]) \subseteq Range(streams[r])
           /\ UNCHANGED <<at, waiting, ring, adding, reloads, asked, failed, late>>
<1>1. r.client \in Clients /\ Distinct(streams[r]) /\ Distinct(<<>>) /\ Range(<<>>) = {}
  BY IdFacts, EmptyFacts DEF PhaseInv, PhaseOf
<1> USE DEF ringVars, histVars
<1>2. CASE Begin(r)
  BY <1>1, <1>2 DEF Begin, Kinds
<1>3. CASE Answer(r)
  BY <1>1, <1>3 DEF Answer, LoopDone, Kinds
<1>4. CASE Break(r)
  <2>1. /\ phase[r] = "running" /\ streams' = [streams EXCEPT ![r] = <<>>]
        /\ UNCHANGED <<phase, at, waiting, ring, adding, reloads, asked, failed, late>>
    BY <1>4 DEF Break, InLoop
  <2> QED
    BY <1>1, <2>1 DEF Kinds
<1>5. CASE PutAside(r) \/ Record(r)
  <2>1. /\ Distinct(Tail(streams[r]))
        /\ Range(Tail(streams[r])) \subseteq Range(streams[r])
    BY <1>5, LoopFacts DEF PutAside, Record
  <2>2. /\ streams' = [streams EXCEPT ![r] = Tail(@)]
        /\ phase[r] = "running"
        /\ UNCHANGED <<phase, at, waiting, ring, adding, reloads, asked, failed, late>>
    BY <1>5 DEF PutAside, Record, Advance, InLoop
  <2> QED
    BY <1>1, <2>1, <2>2 DEF Kinds
<1> QED
  BY <1>2, <1>3, <1>4, <1>5 DEF ThreadStep

\* Every step keeps requests where their streams say they are.
LEMMA PhaseStep == Kinds /\ PhaseInv /\ SendInv /\ [Next]_vars => PhaseInv'
<1> SUFFICES ASSUME Kinds, PhaseInv, SendInv, [Next]_vars,
                    NEW r \in Ids
             PROVE  PhaseOf(r)'
  BY DEF PhaseInv
<1>a. r.client \in Clients /\ Client(r.client) \in Ids
  BY IdFacts
<1>b. /\ phase \in [Ids -> {"none", "queued", "running", "answered"}]
      /\ at \in [Ids -> Nodes \cup {NoNode}]
      /\ streams \in [Ids -> Seq(Names)]
  BY DEF Kinds
<1>c. PhaseOf(r)
  BY DEF PhaseInv
<1> USE DEF PhaseOf
<1>1. ASSUME NEW c \in Clients, NEW n \in Nodes, NEW ss \in Requests, Add(c, n, ss)
      PROVE  PhaseOf(r)'
  <2>1. /\ phase[Client(c)] = "none" /\ phase' = [phase EXCEPT ![Client(c)] = "queued"]
        /\ at' = [at EXCEPT ![Client(c)] = n]
        /\ streams' = [streams EXCEPT ![Client(c)] = ss]
    BY <1>1 DEF Add
  <2>2. Client(c) \in Ids /\ ~ Forwarded(Client(c)) /\ Distinct(ss)
    BY IdFacts, RequestFacts
  <2>3. CASE r = Client(c)
    BY <1>b, <2>1, <2>2, <2>3
  <2>4. CASE r # Client(c)
    <3>1. phase[r] # "none" /\ Forwarded(r) => Client(r.client) # Client(c)
      BY <1>c, <2>1
    <3> QED
      BY <1>a, <1>b, <1>c, <2>1, <2>2, <2>4, <3>1
  <2> QED
    BY <2>3, <2>4
<1>2. ASSUME NEW q \in Ids, ThreadStep(q) PROVE PhaseOf(r)'
  <2>1. /\ phase[q] \in {"queued", "running"} /\ phase'[q] \in {"running", "answered"}
        /\ phase' = [phase EXCEPT ![q] = phase'[q]]
        /\ streams' = [streams EXCEPT ![q] = streams'[q]]
        /\ phase'[q] = "answered" => streams'[q] = <<>>
        /\ Distinct(streams'[q])
        /\ Range(streams'[q]) \subseteq Range(streams[q])
        /\ UNCHANGED at
    BY <1>2, ThreadFacts
  <2>2. streams[q] = <<>> => streams'[q] = <<>>
    <3>1. streams'[q] \in Seq(Names)
      BY KindsStep DEF Kinds
    <3> QED
      BY <2>1, <3>1, EmptyFacts
  <2>3. CASE r = q
    <3>1. Forwarded(r) => Client(r.client) # r
      BY IdFacts
    <3> QED
      BY <1>a, <1>b, <1>c, <2>1, <2>2, <2>3, <3>1
  <2>4. CASE r # q
    BY <1>a, <1>b, <1>c, <2>1, <2>2, <2>4
  <2> QED
    BY <2>3, <2>4
<1>3. ASSUME NEW c \in Clients, NEW n \in Nodes, NEW k \in 1..Addresses,
             Connect(c, n, k), LoopDone(Client(c))
      PROVE  PhaseOf(r)'
  <2> DEFINE f == Forward(c, n, k)
  <2>1. f \in Ids /\ f.dest = n /\ f.client = c /\ Forwarded(f) /\ ~ Forwarded(Client(c))
    BY IdFacts
  <2>2. CASE UNCHANGED <<phase, at, streams>>
    BY <1>c, <2>2
  <2>3. CASE ~ UNCHANGED <<phase, at, streams>>
    <3>1. /\ phase' = [phase EXCEPT ![f] = "queued"]
          /\ at' = [at EXCEPT ![f] = n]
          /\ streams' = [streams EXCEPT ![f] = out[c][n]]
      BY <1>3, <2>3 DEF Connect
    <3>2. Distinct(out[c][n])
      BY DEF SendInv, SendOf
    <3>3. f # Client(r.client) /\ (r = f => Client(r.client) = Client(c))
      BY <1>a, <2>1, IdFacts
    <3> HIDE DEF f
    <3>4. CASE r = f
      BY <1>a, <1>b, <1>3, <2>1, <3>1, <3>2, <3>3, <3>4 DEF LoopDone
    <3>5. CASE r # f
      BY <1>a, <1>b, <1>c, <2>1, <3>1, <3>3, <3>5
    <3> QED
      BY <3>4, <3>5
  <2> QED
    BY <2>2, <2>3
<1>4. ASSUME NEW c \in Clients, \E n \in Nodes : StartForward(c, n) PROVE PhaseOf(r)'
  <2>1. 1 \in 1..Addresses
    BY ClusterAssumption
  <2> QED
    BY <1>3, <1>4, <2>1 DEF StartForward
<1>5. ASSUME NEW c \in Clients, Retry(c) PROVE PhaseOf(r)'
  <2>1. /\ waiting[c][1] \in Nodes /\ waiting[c][2] + 1 \in 1..Addresses
        /\ LoopDone(Client(c))
    BY <1>5, ClusterAssumption DEF Retry, SendInv, SendOf
  <2> QED
    BY <1>3, <1>5, <2>1 DEF Retry
<1>6. ASSUME UNCHANGED <<phase, at, streams>> PROVE PhaseOf(r)'
  BY <1>c, <1>6
<1>7. ASSUME NEW c \in Clients, ForwardAnswered(c) \/ GiveUp(c) PROVE UNCHANGED <<phase, at, streams>>
  BY <1>7 DEF ForwardAnswered, GiveUp, EndForward
<1>8. ASSUME NEW n \in Nodes, (\E S \in Configs : HandleNewConfig(n, S)) \/ AddNode(n)
      PROVE  UNCHANGED <<phase, at, streams>>
  BY <1>8 DEF HandleNewConfig, AddNode, reqVars
<1>9. CASE UNCHANGED vars
  BY <1>6, <1>9 DEF vars, reqVars
<1> QED
  BY <1>1, <1>2, <1>4, <1>5, <1>6, <1>7, <1>8, <1>9
     DEF Next, ServerStep, ForwardStep

\* Every step keeps the order in which streams are forwarded.
LEMMA SendStep ==
    Kinds /\ PhaseInv /\ SendInv /\ SiteInv /\ [Next]_vars => SendInv'
<1> SUFFICES ASSUME Kinds, PhaseInv, SendInv, SiteInv, [Next]_vars, NEW c \in Clients
             PROVE  SendOf(c)'
  BY DEF SendInv
<1>a. /\ phase \in [Ids -> {"none", "queued", "running", "answered"}]
      /\ streams \in [Ids -> Seq(Names)]
      /\ out \in [Clients -> [Nodes -> Seq(Names)]]
      /\ waiting \in [Clients -> (Nodes \cup {NoNode}) \X (0..Addresses)]
  BY DEF Kinds
<1>b. Client(c) \in Ids /\ Client(c).client = c /\ ~ Forwarded(Client(c))
  BY IdFacts
<1>c. SendOf(c)
  BY DEF SendInv
<1>d. ASSUME phase[Client(c)] \in {"none", "queued"} \/ streams[Client(c)] # <<>>
      PROVE  \A n \in Nodes, k \in 1..Addresses : phase[Forward(c, n, k)] = "none"
  BY <1>d, IdFacts DEF PhaseInv, PhaseOf
<1>e. \A n \in Nodes : NoStreams[n] = <<>> /\ Distinct(<<>>)
  BY EmptyFacts DEF NoStreams
<1>f. \A n \in Nodes, k \in 1..Addresses : Forward(c, n, k) \in Ids
  BY IdFacts
\* A step that leaves the requests of this client alone, but for their progress.
<1>q. ASSUME out'[c] = out[c], waiting'[c] = waiting[c], c \in late => c \in late',
             phase'[Client(c)] = phase[Client(c)],
             streams'[Client(c)] = streams[Client(c)],
             \A n \in Nodes, k \in 1..Addresses :
                phase[Forward(c, n, k)] = "none" => phase'[Forward(c, n, k)] = "none"
      PROVE  SendOf(c)'
  <2>1. Sending(c)' = Sending(c) /\ LoopDone(Client(c))' = LoopDone(Client(c))
    BY <1>q DEF Sending, LoopDone
  <2> QED
    BY <1>c, <1>q, <2>1 DEF SendOf
<1>1. ASSUME NEW b \in Clients, NEW n \in Nodes, NEW ss \in Requests, Add(b, n, ss)
      PROVE  SendOf(c)'
  <2>1. /\ phase[Client(b)] = "none" /\ phase' = [phase EXCEPT ![Client(b)] = "queued"]
        /\ streams' = [streams EXCEPT ![Client(b)] = ss]
        /\ UNCHANGED <<out, waiting, late>>
    BY <1>1 DEF Add
  <2>2. \A m \in Nodes, k \in 1..Addresses :
            phase'[Forward(c, m, k)] = phase[Forward(c, m, k)]
    <3>1. \A m \in Nodes, k \in 1..Addresses :
              Forward(c, m, k) \in Ids /\ Forward(c, m, k) # Client(b)
      BY IdFacts
    <3> QED
      BY <1>a, <2>1, <3>1
  <2>3. CASE b = c
    <3>1. /\ out[c] = NoStreams /\ ~ Sending(c) /\ phase'[Client(c)] = "queued"
          /\ \A m \in Nodes, k \in 1..Addresses : phase'[Forward(c, m, k)] = "none"
      BY <1>a, <1>b, <1>c, <1>d, <2>1, <2>2, <2>3 DEF SendOf
    <3>2. ~ Sending(c)' /\ out'[c] = NoStreams
      BY <2>1, <3>1 DEF Sending
    <3> QED
      BY <1>e, <3>1, <3>2 DEF SendOf
  <2>4. CASE b # c
    <3>1. Client(b) # Client(c)
      BY <2>4, IdFacts
    <3> QED
      BY <1>a, <1>b, <1>q, <2>1, <2>2, <3>1
  <2> QED
    BY <2>3, <2>4
<1>2. ASSUME NEW r \in Ids, ThreadStep(r) PROVE SendOf(c)'
  <2>1. /\ phase[r] \in {"queued", "running"} /\ phase'[r] \in {"running", "answered"}
        /\ phase' = [phase EXCEPT ![r] = phase'[r]]
        /\ streams' = [streams EXCEPT ![r] = streams'[r]]
        /\ UNCHANGED <<waiting, late>>
    BY <1>2, ThreadFacts
  <2>2. \A n \in Nodes, k \in 1..Addresses :
            phase[Forward(c, n, k)] = "none" => phase'[Forward(c, n, k)] = "none"
    BY <1>a, <1>f, <2>1
  <2>3. CASE r # Client(c)
    <3>1. out'[c] = out[c]
      <4>1. CASE PutAside(r)
        <5>1. ~ Forwarded(r) /\ r.client # c
          BY <2>3, <4>1, IdFacts DEF PutAside, Elsewhere
        <5> QED
          BY <1>a, <4>1, <5>1 DEF PutAside
      <4>2. CASE ~ PutAside(r)
        BY <1>2, <4>2 DEF ThreadStep, Begin, Break, Record, Answer
      <4> QED
        BY <4>1, <4>2
    <3> QED
      BY <1>a, <1>b, <1>q, <2>1, <2>2, <2>3, <3>1
  <2>4. CASE r = Client(c) /\ Begin(r)
    <3>1. /\ phase[Client(c)] = "queued" /\ UNCHANGED <<out, streams>>
          /\ phase'[Client(c)] = "running"
      BY <1>a, <1>b, <2>4 DEF Begin
    <3>2. out[c] = NoStreams /\ ~ Sending(c)
      BY <1>c, <3>1 DEF SendOf
    <3>3. out'[c] = NoStreams /\ ~ Sending(c)'
      BY <2>1, <3>1, <3>2 DEF Sending
    <3>4. \A n \in Nodes, k \in 1..Addresses : phase'[Forward(c, n, k)] = "none"
      BY <1>d, <2>2, <3>1
    <3> QED
      BY <1>e, <3>1, <3>3, <3>4 DEF SendOf
  <2>5. CASE r = Client(c) /\ Answer(r)
    <3>1. /\ phase[r] = "running" /\ out[c] = NoStreams
          /\ phase'[Client(c)] = "answered" /\ UNCHANGED <<out, streams>>
      BY <1>a, <1>b, <2>5 DEF Answer, LoopDone
    <3>2. ~ Sending(c)
      BY <1>c, <1>e, <3>1 DEF SendOf
    <3>3. ~ Sending(c)' /\ out'[c] = NoStreams
      BY <2>1, <3>1, <3>2 DEF Sending
    <3>4. \A n \in Nodes, k \in 1..Addresses :
             phase'[Forward(c, n, k)] # "none" => (k > 1 => c \in late')
      BY <1>c, <2>1, <2>2 DEF SendOf
    <3> QED
      BY <1>e, <3>3, <3>4 DEF SendOf
  <2>6. CASE r = Client(c) /\ (Break(r) \/ PutAside(r) \/ Record(r))
    <3>1. phase[Client(c)] = "running" /\ streams[Client(c)] # <<>> /\ UNCHANGED phase
      BY <2>6 DEF Break, PutAside, Record, InLoop
    <3>2. ~ Sending(c)
      BY <1>c, <3>1 DEF SendOf, LoopDone
    <3>3. ~ Sending(c)' /\ phase'[Client(c)] = "running"
      BY <2>1, <3>1, <3>2 DEF Sending
    <3>4. \A n \in Nodes, k \in 1..Addresses : phase'[Forward(c, n, k)] = "none"
      BY <1>d, <2>2, <3>1
    <3>5. \A n \in Nodes : Distinct(out'[c][n])
      <4>1. CASE PutAside(r)
        <5> DEFINE g == GetNode(ring[at[r]], Name(r))
        <5>1. /\ Name(r) \in Names /\ Name(r) \in Range(streams[r]) /\ at[r] \in Nodes
          BY <4>1, LoopFacts DEF PutAside
        <5>2. g \in Nodes
          <6>1. ring[at[r]] \subseteq Nodes /\ ring[at[r]] # {}
            BY <4>1, <5>1 DEF PutAside, Valid, Kinds
          <6> QED
            BY <5>1, <6>1, NodeFacts
        <5>3. out' = [out EXCEPT ![c][g] = Append(@, Name(r))]
          BY <1>b, <2>6, <4>1 DEF PutAside
        <5> HIDE DEF g
        <5>4. Name(r) \notin Range(out[c][g])
          BY <2>6, <5>1, <5>2 DEF SiteInv, Site, OnWay
        <5>5. out[c][g] \in Seq(Names) /\ Distinct(out[c][g])
          BY <1>a, <1>c, <5>2 DEF SendOf
        <5>6. Distinct(Append(out[c][g], Name(r)))
          BY <5>1, <5>4, <5>5, AppendFacts
        <5>7. \A n \in Nodes : Distinct(out[c][n])
          BY <1>c DEF SendOf
        <5>8. \A n \in Nodes : out'[c][n] = IF n = g THEN Append(out[c][g], Name(r)) ELSE out[c][n]
          BY <1>a, <5>2, <5>3
        <5> QED
          BY <5>6, <5>7, <5>8
      <4>2. CASE ~ PutAside(r)
        BY <1>c, <2>6, <4>2 DEF Break, Record, SendOf
      <4> QED
        BY <4>1, <4>2
    <3> QED
      BY <3>3, <3>4, <3>5 DEF SendOf
  <2> QED
    BY <1>2, <2>3, <2>4, <2>5, <2>6 DEF ThreadStep
\* A forward of another client, or the next of this one.
<1>3. ASSUME NEW b \in Clients, NEW n \in Nodes, NEW k \in 1..Addresses,
             Connect(b, n, k), LoopDone(Client(b)), out[b][n] # <<>>,
             UNCHANGED out, late \subseteq late', k > 1 => b \in late',
             ~ Sending(b) \/ (waiting[b][1] = n /\ waiting[b][2] < k)
      PROVE  SendOf(c)'
  <2> DEFINE f == Forward(b, n, k)
  <2>1. /\ f \in Ids /\ Forwarded(f) /\ f # Client(c)
        /\ \A m \in Nodes, j \in 1..Addresses : f = Forward(c, m, j) => b = c /\ m = n /\ j = k
    BY IdFacts
  <2>2. /\ waiting' = [waiting EXCEPT ![b] = <<n, k>>]
        /\ phase' = phase \/ phase' = [phase EXCEPT ![f] = "queued"]
        /\ streams' = streams \/ streams' = [streams EXCEPT ![f] = out[b][n]]
    BY <1>3 DEF Connect
  <2> HIDE DEF f
  <2>3. /\ phase'[Client(c)] = phase[Client(c)] /\ streams'[Client(c)] = streams[Client(c)]
        /\ \A m \in Nodes, j \in 1..Addresses :
              phase[Forward(c, m, j)] = "none" /\ phase'[Forward(c, m, j)] # "none"
                  => b = c /\ m = n /\ j = k
    BY <1>a, <1>b, <1>f, <2>1, <2>2
  <2>4. CASE b # c
    BY <1>a, <1>q, <1>3, <2>2, <2>3, <2>4
  <2>5. CASE b = c
    <3>1. waiting'[c] = <<n, k>> /\ waiting'[c][1] = n /\ waiting'[c][2] = k
      BY <1>a, <2>2, <2>5
    <3>2. Sending(c)'
      BY <3>1, ClusterAssumption DEF Sending, NotWaiting, Nodes, NoNode
    <3>3. phase'[Client(c)] = "running" /\ LoopDone(Client(c))'
      BY <1>3, <2>3, <2>5 DEF LoopDone
    <3>4. \A m \in Nodes : Distinct(out'[c][m])
      BY <1>3, <1>c DEF SendOf
    <3>5. ASSUME NEW m \in Nodes, NEW j \in 1..Addresses,
                 phase'[Forward(c, m, j)] # "none"
          PROVE  /\ out'[c][m] # <<>> => waiting'[c][1] = m /\ j <= waiting'[c][2]
                 /\ j > 1 => c \in late'
      <4>1. CASE phase[Forward(c, m, j)] = "none"
        <5>1. m = n /\ j = k
          BY <2>3, <3>5, <4>1
        <5> QED
          BY <1>3, <2>5, <3>1, <5>1, ClusterAssumption
      <4>2. CASE phase[Forward(c, m, j)] # "none"
        <5>1. /\ out[c][m] # <<>> => waiting[c][1] = m /\ j <= waiting[c][2]
              /\ j > 1 => c \in late
          BY <1>c, <4>2 DEF SendOf
        <5>2. ASSUME out[c][m] # <<>> PROVE m = n /\ j <= k
          <6>1. waiting[c][1] = m /\ j <= waiting[c][2] /\ waiting[c][2] \in 0..Addresses
            BY <1>a, <5>1, <5>2
          <6>2. Sending(c)
            BY <6>1, ClusterAssumption DEF Sending, NotWaiting, Nodes, NoNode
          <6> QED
            BY <1>3, <2>5, <6>1, <6>2, ClusterAssumption
        <5> QED
          BY <1>3, <3>1, <5>1, <5>2
      <4> QED
        BY <4>1, <4>2
    <3> QED
      BY <1>3, <2>5, <3>1, <3>2, <3>3, <3>4, <3>5 DEF SendOf
  <2> QED
    BY <2>4, <2>5
<1>4. ASSUME NEW b \in Clients, NEW n \in Nodes, StartForward(b, n) PROVE SendOf(c)'
  <2>1. 1 \in 1..Addresses /\ ~(1 > 1)
    BY ClusterAssumption
  <2>2. /\ Connect(b, n, 1) /\ LoopDone(Client(b)) /\ out[b][n] # <<>> /\ ~ Sending(b)
        /\ UNCHANGED <<out, late>>
    BY <1>4 DEF StartForward, histVars
  <2> QED
    BY <1>3, <2>1, <2>2
<1>5. ASSUME NEW b \in Clients, Retry(b) PROVE SendOf(c)'
  <2>1. /\ waiting[b][1] \in Nodes /\ waiting[b][2] + 1 \in 1..Addresses
        /\ waiting[b][2] < waiting[b][2] + 1
        /\ LoopDone(Client(b)) /\ out[b][waiting[b][1]] # <<>>
    BY <1>5, ClusterAssumption DEF Retry, SendInv, SendOf
  <2>2. /\ Connect(b, waiting[b][1], waiting[b][2] + 1) /\ UNCHANGED out
        /\ late' = late \cup {b}
    BY <1>5 DEF Retry
  <2> QED
    BY <1>3, <2>1, <2>2
<1>6. ASSUME NEW b \in Clients, ForwardAnswered(b) \/ GiveUp(b) PROVE SendOf(c)'
  <2>1. /\ out' = [out EXCEPT ![b][waiting[b][1]] = <<>>]
        /\ waiting' = [waiting EXCEPT ![b] = NotWaiting]
        /\ UNCHANGED <<phase, streams>> /\ late \subseteq late' /\ Sending(b)
    BY <1>6 DEF ForwardAnswered, GiveUp, EndForward
  <2>2. CASE b # c
    BY <1>a, <1>q, <2>1, <2>2
  <2>3. CASE b = c
    <3>1. phase[Client(c)] = "running" /\ waiting[c][1] \in Nodes
      BY <1>c, <2>1, <2>3 DEF SendOf, LoopDone
    <3>2. ~ Sending(c)'
      BY <1>a, <2>1, <2>3 DEF Sending
    <3>3. \A n \in Nodes : out'[c][n] = IF n = waiting[c][1] THEN <<>> ELSE out[c][n]
      BY <1>a, <2>1, <2>3, <3>1
    <3>4. \A n \in Nodes : Distinct(out'[c][n])
      BY <1>c, <1>e, <3>3 DEF SendOf
    <3>5. \A n \in Nodes, k \in 1..Addresses :
            phase'[Forward(c, n, k)] # "none" =>
              /\ out'[c][n] # <<>> => waiting'[c][1] = n /\ k <= waiting'[c][2]
              /\ k > 1 => c \in late'
      BY <1>c, <2>1, <3>3 DEF SendOf
    <3> QED
      BY <2>1, <3>1, <3>2, <3>4, <3>5 DEF SendOf
  <2> QED
    BY <2>2, <2>3
<1>7. ASSUME NEW n \in Nodes, (\E S \in Configs : HandleNewConfig(n, S)) \/ AddNode(n)
      PROVE  SendOf(c)'
  <2>1. UNCHANGED <<phase, streams, out, waiting, late>>
    BY <1>7 DEF HandleNewConfig, AddNode, reqVars, histVars
  <2> QED
    BY <1>q, <2>1
<1>8. CASE UNCHANGED vars
  <2>1. UNCHANGED <<phase, streams, out, waiting, late>>
    BY <1>8 DEF vars, reqVars, histVars
  <2> QED
    BY <1>q, <2>1
<1> QED
  BY <1>1, <1>2, <1>4, <1>5, <1>6, <1>7, <1>8 DEF Next, ServerStep, ForwardStep

\* The addresses at which a stream has been looked at become more.
LEMMA SpentMove ==
    ASSUME Kinds, PhaseInv, SendInv, [Next]_vars,
           NEW c \in Clients, NEW v \in Names, NEW n \in Nodes
    PROVE  Spent(c, v, n) \subseteq Spent(c, v, n)'
<1> SUFFICES ASSUME NEW k \in 1..Addresses, phase[Forward(c, n, k)] # "none",
                    v \notin Range(streams[Forward(c, n, k)])
             PROVE  /\ phase'[Forward(c, n, k)] # "none"
                    /\ v \notin Range(streams'[Forward(c, n, k)])
  BY DEF Spent
<1> DEFINE f == Forward(c, n, k)
<1>a. /\ f \in Ids /\ Forwarded(f) /\ \A b \in Clients : f # Client(b)
      /\ \A b \in Clients, m \in Nodes, j \in 1..Addresses :
            f = Forward(b, m, j) => b = c /\ m = n /\ j = k
  BY IdFacts
<1>b. /\ phase \in [Ids -> {"none", "queued", "running", "answered"}]
      /\ streams \in [Ids -> Seq(Names)]
      /\ waiting \in [Clients -> (Nodes \cup {NoNode}) \X (0..Addresses)]
  BY DEF Kinds
<1> HIDE DEF f
<1>c. phase[f] # "none" /\ v \notin Range(streams[f])
  BY DEF f
<1>d. SUFFICES phase'[f] # "none" /\ v \notin Range(streams'[f])
  BY DEF f
<1>1. ASSUME NEW b \in Clients, NEW m \in Nodes, NEW ss \in Requests, Add(b, m, ss)
      PROVE  phase'[f] # "none" /\ v \notin Range(streams'[f])
  BY <1>a, <1>b, <1>c, <1>1 DEF Add
<1>2. ASSUME NEW r \in Ids, ThreadStep(r)
      PROVE  phase'[f] # "none" /\ v \notin Range(streams'[f])
  <2>1. /\ phase'[r] \in {"running", "answered"}
        /\ phase' = [phase EXCEPT ![r] = phase'[r]]
        /\ streams' = [streams EXCEPT ![r] = streams'[r]]
        /\ Range(streams'[r]) \subseteq Range(streams[r])
    BY <1>2, ThreadFacts
  <2> QED
    BY <1>a, <1>b, <1>c, <2>1
<1>3. ASSUME NEW b \in Clients, NEW m \in Nodes, NEW j \in 1..Addresses,
             Connect(b, m, j), phase[Forward(b, m, j)] = "none"
      PROVE  phase'[f] # "none" /\ v \notin Range(streams'[f])
  BY <1>a, <1>b, <1>c, <1>3 DEF Connect
<1>4. ASSUME NEW b \in Clients, NEW m \in Nodes, StartForward(b, m)
      PROVE  phase'[f] # "none" /\ v \notin Range(streams'[f])
  <2>1. 1 \in 1..Addresses
    BY ClusterAssumption
  <2>2. waiting[b][1] # m
    BY <1>4, ClusterAssumption DEF StartForward, Sending, NotWaiting, Nodes, NoNode
  <2>3. phase[Forward(b, m, 1)] = "none"
    BY <1>4, <2>1, <2>2 DEF StartForward, SendInv, SendOf
  <2> QED
    BY <1>3, <1>4, <2>1, <2>3 DEF StartForward
<1>5. ASSUME NEW b \in Clients, Retry(b)
      PROVE  phase'[f] # "none" /\ v \notin Range(streams'[f])
  <2> DEFINE m == waiting[b][1]
             j == waiting[b][2] + 1
  <2>1. m \in Nodes /\ j \in 1..Addresses /\ ~(j <= waiting[b][2]) /\ out[b][m] # <<>>
    BY <1>5, ClusterAssumption DEF Retry, SendInv, SendOf
  <2>2. Connect(b, m, j)
    BY <1>5 DEF Retry
  <2> HIDE DEF m, j
  <2>3. phase[Forward(b, m, j)] = "none"
    BY <2>1 DEF SendInv, SendOf
  <2> QED
    BY <1>3, <2>1, <2>2, <2>3
<1>6. CASE UNCHANGED <<phase, streams>>
  BY <1>c, <1>6
<1>7. ASSUME NEW b \in Clients, ForwardAnswered(b) \/ GiveUp(b)
      PROVE  UNCHANGED <<phase, streams>>
  BY <1>7 DEF ForwardAnswered, GiveUp, EndForward
<1>8. ASSUME NEW m \in Nodes, (\E S \in Configs : HandleNewConfig(m, S)) \/ AddNode(m)
      PROVE  UNCHANGED <<phase, streams>>
  BY <1>8 DEF HandleNewConfig, AddNode, reqVars
<1>9. CASE UNCHANGED vars
  BY <1>6, <1>9 DEF vars, reqVars
<1> QED
  BY <1>1, <1>2, <1>4, <1>5, <1>6, <1>7, <1>8, <1>9
     DEF Next, ServerStep, ForwardStep

\* A stream stays at its server; or it is looked at by the server that the
\* client has asked, which gives it one; or the client has only now asked.
Stays(c, v) ==
    /\ \A n \in Nodes : /\ OnWay(c, v, n)' => OnWay(c, v, n)
                        /\ Site(c, v, n)' => Site(c, v, n)
    /\ v \in Range(streams'[Client(c)]) => v \in Range(streams[Client(c)])
Placed(c, v) ==
    /\ v \in Range(streams[Client(c)]) /\ v \notin Range(streams'[Client(c)])
    /\ \E g \in Nodes : /\ \A n \in Nodes : Site(c, v, n)' => n = g
                        /\ (\A n \in Nodes : ring[n] = Nodes) => g = Owner(v)
Asked(c, v) == \A n \in Nodes : ~ Site(c, v, n)'

\* These are all a step can do to a value of a client.
LEMMA SiteMove ==
    ASSUME Kinds, PhaseInv, SendInv, SiteInv, [Next]_vars,
           NEW c \in Clients, NEW v \in Names
    PROVE  Stays(c, v) \/ Placed(c, v) \/ Asked(c, v)
<1>a. /\ phase \in [Ids -> {"none", "queued", "running", "answered"}]
      /\ streams \in [Ids -> Seq(Names)]
      /\ out \in [Clients -> [Nodes -> Seq(Names)]]
      /\ copies \in [Nodes -> [Clients \X Names -> Nat]]
  BY DEF Kinds
<1>b. /\ Client(c) \in Ids /\ Client(c).client = c /\ ~ Forwarded(Client(c))
      /\ \A n \in Nodes, k \in 1..Addresses :
            /\ Forward(c, n, k) \in Ids /\ Forward(c, n, k).client = c
            /\ Forward(c, n, k).dest = n /\ Forwarded(Forward(c, n, k))
            /\ Forward(c, n, k) # Client(c)
  BY IdFacts
<1>q. ASSUME \A n \in Nodes : /\ Range(out'[c][n]) \subseteq Range(out[c][n])
                              /\ copies'[n][<<c, v>>] = copies[n][<<c, v>>],
             \A n \in Nodes, k \in 1..Addresses :
                 v \in Range(streams'[Forward(c, n, k)]) => OnWay(c, v, n),
             v \in Range(streams'[Client(c)]) => v \in Range(streams[Client(c)])
      PROVE  Stays(c, v)
  <2>1. \A n \in Nodes : OnWay(c, v, n)' => OnWay(c, v, n)
    BY <1>q DEF OnWay
  <2> QED
    BY <1>q, <2>1 DEF Stays, Site
<1>r. \A n \in Nodes, k \in 1..Addresses :
          v \in Range(streams[Forward(c, n, k)]) => OnWay(c, v, n)
  BY DEF OnWay
<1>1. ASSUME NEW b \in Clients, NEW m \in Nodes, NEW ss \in Requests, Add(b, m, ss)
      PROVE  Stays(c, v) \/ Asked(c, v)
  <2>1. /\ phase[Client(b)] = "none"
        /\ streams' = [streams EXCEPT ![Client(b)] = ss]
        /\ UNCHANGED <<out, copies>>
    BY <1>1 DEF Add
  <2>2. \A n \in Nodes, k \in 1..Addresses :
            streams'[Forward(c, n, k)] = streams[Forward(c, n, k)]
    <3>1. \A n \in Nodes, k \in 1..Addresses : Forward(c, n, k) # Client(b)
      BY IdFacts
    <3> QED
      BY <1>a, <1>b, <2>1, <3>1
  <2>3. CASE b # c
    <3>1. Client(b) # Client(c)
      BY <2>3, IdFacts
    <3>2. streams'[Client(c)] = streams[Client(c)]
      BY <1>a, <1>b, <2>1, <3>1
    <3> QED
      BY <1>q, <1>r, <2>1, <2>2, <3>2
  <2>4. CASE b = c
    <3>1. \A n \in Nodes : out[c][n] = <<>> /\ copies[n][<<c, v>>] = 0
      BY <2>1, <2>4 DEF SendInv, SendOf, SiteInv, NoStreams
    <3>2. \A n \in Nodes, k \in 1..Addresses : streams[Forward(c, n, k)] = <<>>
      BY <1>b, <2>1, <2>4 DEF PhaseInv, PhaseOf
    <3>3. \A n \in Nodes : ~ Site(c, v, n)'
      BY <2>1, <2>2, <3>1, <3>2, EmptyFacts DEF Site, OnWay
    <3> QED
      BY <3>3 DEF Asked
  <2> QED
    BY <2>3, <2>4
<1>2. ASSUME NEW r \in Ids, ThreadStep(r) PROVE Stays(c, v) \/ Placed(c, v)
  <2>1. /\ r.client \in Clients
        /\ streams' = [streams EXCEPT ![r] = streams'[r]]
        /\ Range(streams'[r]) \subseteq Range(streams[r])
    BY <1>2, ThreadFacts
  <2>2. \A q \in Ids : Range(streams'[q]) \subseteq Range(streams[q])
    BY <1>a, <2>1
  <2>3. /\ \A n \in Nodes, k \in 1..Addresses :
              v \in Range(streams'[Forward(c, n, k)]) => OnWay(c, v, n)
        /\ v \in Range(streams'[Client(c)]) => v \in Range(streams[Client(c)])
    BY <1>b, <1>r, <2>2
  <2>4. CASE UNCHANGED <<out, copies>>
    BY <1>q, <2>3, <2>4
  <2>5. CASE Begin(r) \/ Break(r) \/ Answer(r)
    BY <2>4, <2>5 DEF Begin, Break, Answer, histVars
  <2>6. CASE PutAside(r)
    <3> DEFINE g == GetNode(ring[at[r]], Name(r))
    <3>1. /\ Name(r) \in Names /\ Name(r) \in Range(streams[r]) /\ at[r] \in Nodes
          /\ Range(Tail(streams[r])) = Range(streams[r]) \ {Name(r)}
      BY <2>6, LoopFacts DEF PutAside
    <3>2. g \in Nodes /\ ((\A n \in Nodes : ring[n] = Nodes) => g = Owner(Name(r)))
      <4>1. ring[at[r]] \subseteq Nodes /\ ring[at[r]] # {}
        BY <2>6, <3>1 DEF PutAside, Valid, Kinds
      <4> QED
        BY <3>1, <4>1, NodeFacts
    <3>3. /\ out' = [out EXCEPT ![r.client][g] = Append(@, Name(r))]
          /\ streams' = [streams EXCEPT ![r] = Tail(@)]
          /\ UNCHANGED copies /\ r = Client(r.client)
      BY <2>6, IdFacts DEF PutAside, Advance, Elsewhere, histVars
    <3> HIDE DEF g
    <3>4. CASE r.client # c
      BY <1>a, <1>q, <2>1, <2>3, <3>3, <3>4
    <3>5. CASE r.client = c
      <4>1. \A n \in Nodes : Range(out'[c][n]) = IF n = g THEN Range(out[c][n]) \cup {Name(r)}
                                                          ELSE Range(out[c][n])
        <5>1. out[c][g] \in Seq(Names)
          BY <1>a, <3>2
        <5>2. Range(Append(out[c][g], Name(r))) = Range(out[c][g]) \cup {Name(r)}
          BY <3>1, <5>1, AppendFacts
        <5> QED
          BY <1>a, <3>2, <3>3, <3>5, <5>2
      <4>2. CASE v # Name(r)
        <5>1. \A n \in Nodes : v \in Range(out'[c][n]) => v \in Range(out[c][n])
          BY <4>1, <4>2
        <5>2. \A n \in Nodes : OnWay(c, v, n)' => OnWay(c, v, n)
          BY <2>3, <5>1 DEF OnWay
        <5> QED
          BY <2>3, <3>3, <5>2 DEF Stays, Site
      <4>3. CASE v = Name(r)
        <5>1. v \in Range(streams[Client(c)])
          BY <3>1, <3>3, <3>5, <4>3
        <5>2. v \notin Range(streams'[Client(c)])
          BY <1>a, <1>b, <3>1, <3>3, <3>5, <4>3
        <5>3. \A n \in Nodes : ~ Site(c, v, n)
          BY <5>1 DEF SiteInv
        <5>4. ASSUME NEW n \in Nodes, Site(c, v, n)' PROVE n = g
          BY <2>3, <3>3, <4>1, <5>3, <5>4 DEF Site, OnWay
        <5> QED
          BY <3>2, <4>3, <5>1, <5>2, <5>4 DEF Placed
      <4> QED
        BY <4>2, <4>3
    <3> QED
      BY <3>4, <3>5
  <2>7. CASE Record(r)
    <3>1. /\ Name(r) \in Names /\ Name(r) \in Range(streams[r]) /\ at[r] \in Nodes
          /\ Range(Tail(streams[r])) = Range(streams[r]) \ {Name(r)}
      BY <2>7, LoopFacts DEF Record
    <3>2. /\ UNCHANGED out /\ streams' = [streams EXCEPT ![r] = Tail(@)]
          /\ \/ UNCHANGED copies
             \/ copies' = [copies EXCEPT ![at[r]][<<r.client, Name(r)>>] = @ + 1]
      BY <2>7 DEF Record, Advance
    <3>3. \A n \in Nodes : copies'[n][<<c, v>>] = copies[n][<<c, v>>]
                           \/ (n = at[r] /\ c = r.client /\ v = Name(r))
      BY <1>a, <2>1, <3>1, <3>2
    <3>4. CASE r.client # c \/ v # Name(r)
      BY <1>q, <2>3, <3>2, <3>3, <3>4
    <3>5. CASE r = Client(c) /\ v = Name(r)
      <4>1. v \in Range(streams[Client(c)]) /\ v \notin Range(streams'[Client(c)])
        BY <1>a, <1>b, <3>1, <3>2, <3>5
      <4>2. \A n \in Nodes : ~ Site(c, v, n)
        BY <4>1 DEF SiteInv
      <4>3. \A n \in Nodes : Site(c, v, n)' => n = at[r]
        BY <2>3, <3>2, <3>3, <4>2 DEF Site, OnWay
      <4>4. (\A n \in Nodes : ring[n] = Nodes) => at[r] = Owner(v)
        <5>1. GetNode(ring[at[r]], v) = at[r] /\ ring[at[r]] # {}
          BY <1>b, <2>7, <3>5 DEF Record, Elsewhere, Valid
        <5> QED
          BY <3>1, <5>1, NodeFacts
      <4> QED
        BY <3>1, <4>1, <4>3, <4>4 DEF Placed
    <3>6. CASE r.client = c /\ v = Name(r) /\ Forwarded(r)
      <4>1. r = Forward(c, r.dest, r.try) /\ r.dest \in Nodes /\ r.try \in 1..Addresses
        BY <3>6, IdFacts
      <4>2. phase[r] # "none"
        BY <2>7 DEF Record, InLoop
      <4>3. at[r] = r.dest
        BY <3>6, <4>2 DEF PhaseInv, PhaseOf
      <4>4. OnWay(c, v, at[r])
        BY <1>r, <3>1, <3>6, <4>1, <4>3
      <4>5. \A n \in Nodes : OnWay(c, v, n)' => OnWay(c, v, n)
        BY <2>3, <3>2 DEF OnWay
      <4>6. \A n \in Nodes : Site(c, v, n)' => Site(c, v, n)
        BY <3>3, <4>4, <4>5 DEF Site
      <4> QED
        BY <2>3, <4>5, <4>6 DEF Stays
    <3> QED
      BY <3>4, <3>5, <3>6, IdFacts
  <2> QED
    BY <1>2, <2>5, <2>6, <2>7 DEF ThreadStep
<1>3. ASSUME NEW b \in Clients, NEW m \in Nodes, NEW j \in 1..Addresses,
             Connect(b, m, j), UNCHANGED <<out, copies>>
      PROVE  Stays(c, v)
  <2> DEFINE f == Forward(b, m, j)
  <2>1. /\ f \in Ids /\ f # Client(c)
        /\ \A n \in Nodes, k \in 1..Addresses : f = Forward(c, n, k) => b = c /\ n = m
    BY IdFacts
  <2>2. streams' = streams \/ streams' = [streams EXCEPT ![f] = out[b][m]]
    BY <1>3 DEF Connect
  <2> HIDE DEF f
  <2>3. streams'[Client(c)] = streams[Client(c)]
    BY <1>a, <1>b, <2>1, <2>2
  <2>4. ASSUME NEW n \in Nodes, NEW k \in 1..Addresses,
               v \in Range(streams'[Forward(c, n, k)])
        PROVE  OnWay(c, v, n)
    <3>1. CASE Forward(c, n, k) = f /\ streams' # streams
      <4>1. streams'[Forward(c, n, k)] = out[c][n]
        BY <1>a, <1>b, <2>1, <2>2, <3>1
      <4> QED
        BY <2>4, <4>1 DEF OnWay
    <3>2. CASE ~(Forward(c, n, k) = f /\ streams' # streams)
      <4>1. streams'[Forward(c, n, k)] = streams[Forward(c, n, k)]
        BY <1>a, <1>b, <2>2, <3>2
      <4> QED
        BY <1>r, <2>4, <4>1
    <3> QED
      BY <3>1, <3>2
  <2> QED
    BY <1>q, <1>3, <2>3, <2>4
<1>4. ASSUME NEW b \in Clients, NEW m \in Nodes, StartForward(b, m) PROVE Stays(c, v)
  <2>1. 1 \in 1..Addresses
    BY ClusterAssumption
  <2> QED
    BY <1>3, <1>4, <2>1 DEF StartForward, histVars
<1>5. ASSUME NEW b \in Clients, Retry(b) PROVE Stays(c, v)
  <2>1. waiting[b][1] \in Nodes /\ waiting[b][2] + 1 \in 1..Addresses
    BY <1>5, ClusterAssumption DEF Retry, SendInv, SendOf
  <2> QED
    BY <1>3, <1>5, <2>1 DEF Retry
<1>6. ASSUME NEW b \in Clients, ForwardAnswered(b) \/ GiveUp(b) PROVE Stays(c, v)
  <2>1. /\ out' = [out EXCEPT ![b][waiting[b][1]] = <<>>]
        /\ UNCHANGED <<streams, copies>>
    BY <1>6 DEF ForwardAnswered, GiveUp, EndForward
  <2>2. \A n \in Nodes : out'[c][n] = out[c][n] \/ out'[c][n] = <<>>
    BY <1>a, <2>1
  <2> QED
    BY <1>q, <1>r, <2>1, <2>2, EmptyFacts
<1>7. CASE UNCHANGED <<streams, out, copies>>
  BY <1>q, <1>r, <1>7
<1>8. ASSUME NEW m \in Nodes, (\E S \in Configs : HandleNewConfig(m, S)) \/ AddNode(m)
      PROVE  UNCHANGED <<streams, out, copies>>
  BY <1>8 DEF HandleNewConfig, AddNode, reqVars, histVars
<1>9. CASE UNCHANGED vars
  BY <1>7, <1>9 DEF vars, reqVars, histVars
<1> QED
  BY <1>1, <1>2, <1>4, <1>5, <1>6, <1>7, <1>8, <1>9
     DEF Next, ServerStep, ForwardStep

\* A server counts one copy more only if it records the stream.
LEMMA CopyMove ==
    ASSUME Kinds, PhaseInv, [Next]_vars,
           NEW c \in Clients, NEW v \in Names, NEW n \in Nodes,
           copies'[n][<<c, v>>] # copies[n][<<c, v>>]
    PROVE  \E r \in Ids : /\ Record(r) /\ r.client = c /\ Name(r) = v /\ at[r] = n
                          /\ phase[r] = "running" /\ UNCHANGED <<out, phase>>
                          /\ v \in Range(streams[r]) /\ v \notin Range(streams'[r])
                          /\ copies'[n][<<c, v>>] = copies[n][<<c, v>>] + 1
<1>1. PICK r \in Ids : Record(r)
  <2>1. ~ UNCHANGED copies
    OBVIOUS
  <2> QED
    BY <2>1 DEF Next, ServerStep, ThreadStep, ForwardStep, Add, Begin, Break, PutAside,
             Answer, StartForward, ForwardAnswered, Retry, GiveUp,
             HandleNewConfig, AddNode, vars, histVars
<1>2. /\ Name(r) \in Names /\ Name(r) \in Range(streams[r]) /\ at[r] \in Nodes
      /\ Range(Tail(streams[r])) = Range(streams[r]) \ {Name(r)}
      /\ r.client \in Clients
  BY <1>1, LoopFacts, IdFacts DEF Record
<1>3. /\ phase[r] = "running" /\ UNCHANGED <<out, phase>>
      /\ streams' = [streams EXCEPT ![r] = Tail(@)]
      /\ copies' = [copies EXCEPT ![at[r]][<<r.client, Name(r)>>] = @ + 1]
  BY <1>1 DEF Record, InLoop, Advance
<1>4. c = r.client /\ v = Name(r) /\ n = at[r]
  BY <1>2, <1>3 DEF Kinds
<1>5. copies'[n][<<c, v>>] = copies[n][<<c, v>>] + 1
  BY <1>2, <1>3, <1>4 DEF Kinds
<1>6. streams'[r] = Tail(streams[r])
  BY <1>3 DEF Kinds
<1> QED
  BY <1>1, <1>2, <1>3, <1>4, <1>5, <1>6

\* Every step leaves a stream at one server.
LEMMA SiteStep ==
    Kinds /\ PhaseInv /\ SendInv /\ SiteInv /\ [Next]_vars => SiteInv'
<1> SUFFICES ASSUME Kinds, PhaseInv, SendInv, SiteInv, [Next]_vars,
                    NEW c \in Clients, NEW v \in Names
             PROVE  (/\ \A m, n \in Nodes : Site(c, v, m) /\ Site(c, v, n) => m = n
                     /\ v \in Range(streams[Client(c)]) => \A n \in Nodes : ~ Site(c, v, n)
                     /\ phase[Client(c)] \in {"none", "queued"} =>
                            \A n \in Nodes : copies[n][<<c, v>>] = 0)'
  BY DEF SiteInv
<1>1. Stays(c, v) \/ Placed(c, v) \/ Asked(c, v)
  BY SiteMove
<1>2. /\ \A m, n \in Nodes : Site(c, v, m) /\ Site(c, v, n) => m = n
      /\ v \in Range(streams[Client(c)]) => \A n \in Nodes : ~ Site(c, v, n)
      /\ phase[Client(c)] \in {"none", "queued"} =>
            \A n \in Nodes : copies[n][<<c, v>>] = 0
  BY DEF SiteInv
<1>3. \A m, n \in Nodes : Site(c, v, m)' /\ Site(c, v, n)' => m = n
  BY <1>1, <1>2 DEF Stays, Placed, Asked
<1>4. v \in Range(streams'[Client(c)]) => \A n \in Nodes : ~ Site(c, v, n)'
  BY <1>1, <1>2 DEF Stays, Placed, Asked
<1>5. ASSUME phase'[Client(c)] \in {"none", "queued"}, NEW n \in Nodes
      PROVE  copies'[n][<<c, v>>] = 0
  <2>1. phase[Client(c)] \in {"none", "queued"}
    <3> SUFFICES ASSUME phase[Client(c)] \notin {"none", "queued"} PROVE FALSE
      OBVIOUS
    <3>0. /\ phase \in [Ids -> {"none", "queued", "running", "answered"}]
          /\ Client(c) \in Ids
      BY IdFacts DEF Kinds
    <3>1. ASSUME NEW b \in Clients, NEW m \in Nodes, NEW ss \in Requests, Add(b, m, ss)
          PROVE  FALSE
      <4>1. phase[Client(b)] = "none" /\ phase' = [phase EXCEPT ![Client(b)] = "queued"]
        BY <3>1 DEF Add
      <4> QED
        BY <1>5, <3>0, <4>1
    <3>2. ASSUME NEW r \in Ids, ThreadStep(r) PROVE FALSE
      <4>1. /\ phase'[r] \in {"running", "answered"}
            /\ phase' = [phase EXCEPT ![r] = phase'[r]]
        BY <3>2, ThreadFacts
      <4> QED
        BY <1>5, <3>0, <4>1
    <3>3. ASSUME NEW b \in Clients, NEW m \in Nodes, NEW k \in 1..Addresses, Connect(b, m, k)
          PROVE  FALSE
      <4>1. Forward(b, m, k) # Client(c)
        BY IdFacts
      <4> QED
        BY <1>5, <3>0, <3>3, <4>1 DEF Connect
    <3>4. ASSUME NEW b \in Clients, NEW m \in Nodes, StartForward(b, m) PROVE FALSE
      <4>1. 1 \in 1..Addresses
        BY ClusterAssumption
      <4> QED
        BY <3>3, <3>4, <4>1 DEF StartForward
    <3>5. ASSUME NEW b \in Clients, Retry(b) PROVE FALSE
      <4>1. waiting[b][1] \in Nodes /\ waiting[b][2] + 1 \in 1..Addresses
        BY <3>5, ClusterAssumption DEF Retry, SendInv, SendOf
      <4> QED
        BY <3>3, <3>5, <4>1 DEF Retry
    <3>6. CASE UNCHANGED phase
      BY <1>5, <3>6
    <3> QED
      BY <3>1, <3>2, <3>4, <3>5, <3>6
         DEF Next, ServerStep, ForwardStep, ForwardAnswered, GiveUp, EndForward,
             HandleNewConfig, AddNode, vars, reqVars
  <2>2. copies[n][<<c, v>>] = 0
    BY <1>2, <2>1
  <2>3. ASSUME copies'[n][<<c, v>>] # copies[n][<<c, v>>] PROVE FALSE
    <3>1. PICK r \in Ids : r.client = c /\ phase[r] = "running" /\ UNCHANGED phase
      BY <2>3, CopyMove
    <3>2. Forwarded(r) \/ r = Client(c)
      BY <3>1, IdFacts
    <3>3. CASE Forwarded(r)
      <4>1. phase[Client(c)] \in {"running", "answered"}
        BY <3>1, <3>3 DEF PhaseInv, PhaseOf
      <4> QED
        BY <2>1, <4>1
    <3> QED
      BY <2>1, <3>1, <3>2, <3>3
  <2> QED
    BY <2>2, <2>3
<1> QED
  BY <1>3, <1>4, <1>5

\* Every step leaves no more copies than addresses were tried.
LEMMA CopyStep ==
    Kinds /\ PhaseInv /\ SendInv /\ SiteInv /\ CopyInv /\ [Next]_vars => CopyInv'
<1> SUFFICES ASSUME Kinds, PhaseInv, SendInv, SiteInv, CopyInv, [Next]_vars,
                    NEW c \in Clients, NEW v \in Names, NEW n \in Nodes
             PROVE  (\/ copies[n][<<c, v>>] <= Cardinality(Spent(c, v, n))
                     \/ copies[n][<<c, v>>] = 1 /\ ~ OnWay(c, v, n))'
  BY DEF CopyInv
<1> DEFINE x == copies[n][<<c, v>>]
           S == Spent(c, v, n)
           T == Spent(c, v, n)'
<1>a. x \in Nat /\ x' \in Nat
  <2>1. Kinds'
    BY KindsStep
  <2>2. <<c, v>> \in Clients \X Names
    OBVIOUS
  <2> QED
    BY <2>1, <2>2 DEF Kinds
<1>b. /\ S \subseteq T /\ IsFiniteSet(T) /\ IsFiniteSet(S)
      /\ Cardinality(S) \in Nat /\ Cardinality(T) \in Nat
      /\ Cardinality(S) <= Cardinality(T)
  <2>1. S \subseteq T
    BY SpentMove
  <2>2. T \subseteq 1..Addresses
    BY DEF Spent
  <2>3. IsFiniteSet(1..Addresses)
    BY ClusterAssumption, FS_Interval
  <2>4. IsFiniteSet(T)
    BY <2>2, <2>3, FS_Subset
  <2> QED
    BY <2>1, <2>4, FS_Subset, FS_CardinalityType
<1>c. x <= Cardinality(S) \/ (x = 1 /\ ~ OnWay(c, v, n))
  BY DEF CopyInv
<1>1. CASE x' = x
  <2>1. Stays(c, v) \/ Placed(c, v) \/ Asked(c, v)
    BY SiteMove
  <2> HIDE DEF x, S, T
  <2>2. CASE Stays(c, v)
    BY <1>a, <1>b, <1>c, <1>1, <2>2 DEF Stays, x, T
  <2>3. CASE Placed(c, v)
    <3>1. ~ Site(c, v, n)
      BY <2>3 DEF Placed, SiteInv
    <3>2. x = 0
      BY <1>a, <3>1 DEF Site, x
    <3> QED
      BY <1>b, <1>1, <3>2 DEF x, T
  <2>4. CASE Asked(c, v)
    <3>1. x' = 0
      BY <1>a, <2>4 DEF Asked, Site, x
    <3> QED
      BY <1>b, <3>1 DEF x, T
  <2> QED
    BY <2>1, <2>2, <2>3, <2>4
<1>2. CASE x' # x
  <2>1. PICK r \in Ids : /\ r.client = c /\ at[r] = n
                         /\ phase[r] = "running" /\ UNCHANGED <<out, phase>>
                         /\ v \in Range(streams[r]) /\ v \notin Range(streams'[r])
                         /\ x' = x + 1 /\ Record(r)
    BY <1>2, CopyMove
  <2> HIDE DEF x
  <2>2. CASE r = Client(c)
    <3>1. ~ Site(c, v, n)
      BY <2>1, <2>2 DEF SiteInv
    <3>2. x = 0 /\ ~ OnWay(c, v, n)
      BY <1>a, <3>1 DEF Site, x
    <3>3. ~ OnWay(c, v, n)'
      <4>1. \A k \in 1..Addresses : streams'[Forward(c, n, k)] = streams[Forward(c, n, k)]
        <5>1. \A k \in 1..Addresses : Forward(c, n, k) \in Ids /\ Forward(c, n, k) # r
          BY <2>2, IdFacts
        <5> QED
          BY <2>1, <5>1 DEF Record, Advance, Kinds
      <4> QED
        BY <2>1, <3>2, <4>1 DEF OnWay
    <3> QED
      BY <2>1, <3>2, <3>3 DEF x
  <2>3. CASE Forwarded(r)
    <3>1. r = Forward(c, r.dest, r.try) /\ r.try \in 1..Addresses
      BY <2>1, <2>3, IdFacts
    <3>2. r.dest = n
      BY <2>1, <2>3 DEF PhaseInv, PhaseOf
    <3>3. OnWay(c, v, n)
      BY <2>1, <3>1, <3>2 DEF OnWay
    <3>4. r.try \notin S /\ r.try \in T
      BY <2>1, <3>1, <3>2 DEF Spent
    <3> HIDE DEF S, T
    <3>5. x <= Cardinality(S)
      BY <1>c, <3>3 DEF S
    <3>6. Cardinality(S \cup {r.try}) = Cardinality(S) + 1
      BY <1>b, <3>4, FS_AddElement
    <3>7. Cardinality(S \cup {r.try}) <= Cardinality(T)
      BY <1>b, <3>4, FS_Subset
    <3>8. x' <= Cardinality(T)
      BY <1>a, <1>b, <2>1, <3>5, <3>6, <3>7
    <3> QED
      BY <3>8 DEF x, T
  <2> QED
    BY <2>1, <2>2, <2>3, IdFacts
<1> QED
  BY <1>1, <1>2

\* A server takes a request only with a free thread.
LEMMA CountStep ==
    Kinds /\ PhaseInv /\ SendInv /\ CountInv /\ [Next]_vars => CountInv'
<1> SUFFICES ASSUME Kinds, PhaseInv, SendInv, CountInv, [Next]_vars, NEW n \in Nodes
             PROVE  IsFiniteSet(Running(n)') /\ Cardinality(Running(n)') <= Threads
  BY DEF CountInv
<1>a. /\ phase \in [Ids -> {"none", "queued", "running", "answered"}]
      /\ at \in [Ids -> Nodes \cup {NoNode}] /\ Threads \in Nat
  BY ClusterAssumption DEF Kinds
<1>b. /\ IsFiniteSet(Running(n)) /\ Cardinality(Running(n)) <= Threads
      /\ Cardinality(Running(n)) \in Nat
  BY FS_CardinalityType DEF CountInv
<1>q. ASSUME \A q \in Ids : phase'[q] = "running" => phase[q] = "running" /\ at'[q] = at[q]
      PROVE  IsFiniteSet(Running(n)') /\ Cardinality(Running(n)') <= Threads
  <2>1. Running(n)' \subseteq Running(n)
    BY <1>q DEF Running
  <2>2. /\ IsFiniteSet(Running(n)') /\ Cardinality(Running(n)') \in Nat
        /\ Cardinality(Running(n)') <= Cardinality(Running(n))
    BY <1>b, <2>1, FS_Subset, FS_CardinalityType
  <2> QED
    BY <1>a, <1>b, <2>2
<1>1. ASSUME NEW b \in Clients, NEW m \in Nodes, NEW ss \in Requests, Add(b, m, ss)
      PROVE  IsFiniteSet(Running(n)') /\ Cardinality(Running(n)') <= Threads
  <2>1. /\ phase' = [phase EXCEPT ![Client(b)] = "queued"]
        /\ at' = [at EXCEPT ![Client(b)] = m]
    BY <1>1 DEF Add
  <2> QED
    BY <1>a, <1>q, <2>1
<1>2. ASSUME NEW r \in Ids, Begin(r)
      PROVE  IsFiniteSet(Running(n)') /\ Cardinality(Running(n)') <= Threads
  <2>1. /\ phase[r] = "queued" /\ phase' = [phase EXCEPT ![r] = "running"]
        /\ UNCHANGED at /\ Cardinality(Running(at[r])) < Threads
    BY <1>2 DEF Begin
  <2>2. CASE at[r] # n
    <3>1. Running(n)' = Running(n)
      BY <1>a, <2>1, <2>2 DEF Running
    <3> QED
      BY <1>b, <3>1
  <2>3. CASE at[r] = n
    <3>1. Running(n)' = Running(n) \cup {r} /\ r \notin Running(n)
      BY <1>a, <2>1, <2>3 DEF Running
    <3>2. IsFiniteSet(Running(n)') /\ Cardinality(Running(n)') = Cardinality(Running(n)) + 1
      BY <1>b, <3>1, FS_AddElement
    <3> QED
      BY <1>a, <1>b, <2>1, <2>3, <3>2
  <2> QED
    BY <2>2, <2>3
<1>3. ASSUME NEW r \in Ids, Break(r) \/ PutAside(r) \/ Record(r) \/ Answer(r)
      PROVE  IsFiniteSet(Running(n)') /\ Cardinality(Running(n)') <= Threads
  <2>1. phase' = phase \/ phase' = [phase EXCEPT ![r] = "answered"]
    BY <1>3 DEF Break, PutAside, Record, Answer
  <2>2. UNCHANGED at
    BY <1>3 DEF Break, PutAside, Record, Answer
  <2> QED
    BY <1>a, <1>q, <2>1, <2>2
<1>4. ASSUME NEW b \in Clients, NEW m \in Nodes, NEW k \in 1..Addresses, Connect(b, m, k)
      PROVE  IsFiniteSet(Running(n)') /\ Cardinality(Running(n)') <= Threads
  <2>1. \/ UNCHANGED <<phase, at>>
        \/ /\ phase' = [phase EXCEPT ![Forward(b, m, k)] = "queued"]
           /\ at' = [at EXCEPT ![Forward(b, m, k)] = m]
    BY <1>4 DEF Connect
  <2> QED
    BY <1>a, <1>q, <2>1
<1>5. ASSUME NEW b \in Clients, NEW m \in Nodes, StartForward(b, m)
      PROVE  IsFiniteSet(Running(n)') /\ Cardinality(Running(n)') <= Threads
  <2>1. 1 \in 1..Addresses
    BY ClusterAssumption
  <2> QED
    BY <1>4, <1>5, <2>1 DEF StartForward
<1>6. ASSUME NEW b \in Clients, Retry(b)
      PROVE  IsFiniteSet(Running(n)') /\ Cardinality(Running(n)') <= Threads
  <2>1. waiting[b][1] \in Nodes /\ waiting[b][2] + 1 \in 1..Addresses
    BY <1>6, ClusterAssumption DEF Retry, SendInv, SendOf
  <2> QED
    BY <1>4, <1>6, <2>1 DEF Retry
<1>7. CASE UNCHANGED <<phase, at>>
  BY <1>q, <1>7
<1> QED
  BY <1>1, <1>2, <1>3, <1>5, <1>6, <1>7
     DEF Next, ServerStep, ThreadStep, ForwardStep, ForwardAnswered, GiveUp,
         EndForward, HandleNewConfig, AddNode, vars, reqVars

\* Nothing has been asked for and nothing is recorded.
LEMMA ClusterInit == Init => ClusterInv /\ OwnerInv /\ AnswerInv
<1> SUFFICES ASSUME Init PROVE ClusterInv /\ OwnerInv /\ AnswerInv
  OBVIOUS
<1>a. /\ \A r \in Ids : phase[r] = "none" /\ streams[r] = <<>> /\ at[r] = NoNode
      /\ \A c \in Clients : out[c] = NoStreams /\ waiting[c] = NotWaiting /\ asked[c] = {}
      /\ \A n \in Nodes : ring[n] = Nodes /\ adding[n] = {}
      /\ \A n \in Nodes, s \in Clients \X Names : copies[n][s] = 0
  BY DEF Init
<1>b. \A c \in Clients, n \in Nodes, k \in 1..Addresses :
          /\ phase[Forward(c, n, k)] = "none" /\ streams[Forward(c, n, k)] = <<>>
          /\ phase[Client(c)] = "none" /\ streams[Client(c)] = <<>>
          /\ out[c][n] = <<>>
  BY <1>a, IdFacts DEF NoStreams
<1>1. Kinds
  <2>1. NoStreams \in [Nodes -> Seq(Names)]
    BY EmptyFacts DEF NoStreams
  <2>2. NotWaiting \in (Nodes \cup {NoNode}) \X (0..Addresses)
    BY ClusterAssumption DEF NotWaiting
  <2>3. 0 \in 0..MaxReloads
    BY ClusterAssumption
  <2>4. ok \in [Ids -> BOOLEAN]
    BY DEF Init
  <2> QED
    BY <2>1, <2>2, <2>3, <2>4, EmptyFacts DEF Init, Kinds
<1>2. CountInv
  <2>1. \A n \in Nodes : Running(n) = {}
    BY <1>a DEF Running
  <2> QED
    BY <2>1, FS_EmptySet, ClusterAssumption DEF CountInv
<1>3. PhaseInv
  BY <1>a, EmptyFacts DEF PhaseInv, PhaseOf
<1>4. SendInv
  <2>1. \A c \in Clients : phase[Client(c)] = "none"
    BY <1>a, IdFacts
  <2> QED
    BY <1>a, <1>b, <2>1, EmptyFacts DEF SendInv, SendOf, Sending, NoStreams
<1>5. \A c \in Clients, v \in Names, n \in Nodes :
          copies[n][<<c, v>>] = 0 /\ ~ Site(c, v, n)
  <2>1. \A c \in Clients, v \in Names, n \in Nodes : copies[n][<<c, v>>] = 0
    BY <1>a
  <2>2. ASSUME NEW c \in Clients, NEW v \in Names, NEW n \in Nodes PROVE ~ Site(c, v, n)
    <3>1. Range(out[c][n]) = {}
      BY <1>a, EmptyFacts DEF NoStreams
    <3>2. \A k \in 1..Addresses : Range(streams[Forward(c, n, k)]) = {}
      BY <1>b, EmptyFacts
    <3>3. ~(copies[n][<<c, v>>] > 0)
      BY <2>1
    <3> QED
      BY <3>1, <3>2, <3>3 DEF Site, OnWay
  <2> QED
    BY <2>1, <2>2
<1>6. SiteInv
  BY <1>a, <1>5, IdFacts, EmptyFacts DEF SiteInv
<1>7. CopyInv
  <2>1. ASSUME NEW c \in Clients, NEW v \in Names, NEW n \in Nodes
        PROVE  copies[n][<<c, v>>] <= Cardinality(Spent(c, v, n))
    <3>1. Spent(c, v, n) = {}
      BY <1>b DEF Spent
    <3>2. Cardinality(Spent(c, v, n)) = 0
      BY <3>1, FS_EmptySet
    <3> QED
      BY <1>5, <3>2
  <2> QED
    BY <2>1 DEF CopyInv
<1>8. OwnerInv
  BY <1>a, <1>5 DEF OwnerInv
<1>9. AnswerInv
  BY <1>a, <1>b, IdFacts DEF AnswerInv
<1> QED
  BY <1>1, <1>2, <1>3, <1>4, <1>6, <1>7, <1>8, <1>9 DEF ClusterInv

\* Every step keeps what is known of the cluster.
LEMMA ClusterStep == ClusterInv /\ [Next]_vars => ClusterInv'
  BY KindsStep, CountStep, PhaseStep, SendStep, SiteStep, CopyStep DEF ClusterInv

\* A stream has no more copies than its server has addresses.
LEMMA CopyBound ==
    ASSUME ClusterInv, NEW c \in Clients, NEW v \in Names, NEW n \in Nodes
    PROVE  /\ copies[n][<<c, v>>] \in 0..Addresses
           /\ c \notin late => copies[n][<<c, v>>] <= 1
<1> DEFINE S == Spent(c, v, n)
<1>a. copies[n][<<c, v>>] \in Nat /\ Addresses \in Nat /\ Addresses >= 1
  BY ClusterAssumption DEF ClusterInv, Kinds
<1>b. copies[n][<<c, v>>] <= Cardinality(S) \/ copies[n][<<c, v>>] = 1
  BY DEF ClusterInv, CopyInv
<1>1. /\ S \subseteq 1..Addresses
      /\ c \notin late => S \subseteq {1}
  <2>1. ASSUME c \notin late, NEW k \in S PROVE k = 1
    <3>1. k \in 1..Addresses /\ phase[Forward(c, n, k)] # "none"
      BY DEF Spent
    <3>2. ~(k > 1)
      BY <2>1, <3>1 DEF ClusterInv, SendInv, SendOf
    <3> QED
      BY <1>a, <3>1, <3>2
  <2> QED
    BY <2>1 DEF Spent
<1> HIDE DEF S
<1>2. IsFiniteSet(1..Addresses) /\ Cardinality(1..Addresses) = Addresses
  <2>1. 1 \in Int /\ Addresses \in Int
    BY <1>a
  <2>2. Cardinality(1..Addresses) = IF 1 > Addresses THEN 0 ELSE Addresses - 1 + 1
    BY <2>1, FS_Interval
  <2> QED
    BY <1>a, <2>1, <2>2, FS_Interval
<1>3. /\ Cardinality(S) \in Nat /\ Cardinality(S) <= Addresses
  BY <1>1, <1>2, FS_Subset, FS_CardinalityType
<1>4. c \notin late => Cardinality(S) <= 1
  <2>1. IsFiniteSet({1}) /\ Cardinality({1}) = 1
    BY FS_Singleton
  <2> QED
    BY <1>1, <2>1, FS_Subset
<1> QED
  BY <1>a, <1>b, <1>3, <1>4

\* The types of all variables: no server works on more requests than it has
\* threads, and records no stream more often than it has addresses (TypeOK).
THEOREM TypeCorrect == Spec => []TypeOK
<1>1. Init => ClusterInv
  BY ClusterInit
<1>2. ClusterInv => TypeOK
  <2> SUFFICES ASSUME ClusterInv PROVE TypeOK
    OBVIOUS
  <2>1. Kinds /\ \A n \in Nodes : Cardinality(Running(n)) <= Threads
    BY DEF ClusterInv, CountInv
  <2>2. \A n \in Nodes, s \in Clients \X Names : copies[n][s] \in 0..Addresses
    <3>1. ASSUME NEW n \in Nodes, NEW s \in Clients \X Names
          PROVE  copies[n][s] \in 0..Addresses
      <4>1. s[1] \in Clients /\ s[2] \in Names /\ s = <<s[1], s[2]>>
        OBVIOUS
      <4>2. copies[n][<<s[1], s[2]>>] \in 0..Addresses
        BY <4>1, CopyBound
      <4> QED
        BY <4>1, <4>2
    <3> QED
      BY <3>1
  <2>3. copies \in [Nodes -> [Clients \X Names -> 0..Addresses]]
    <3>1. copies \in [Nodes -> [Clients \X Names -> Nat]]
      BY <2>1 DEF Kinds
    <3>2. \A n \in Nodes : copies[n] \in [Clients \X Names -> 0..Addresses]
      BY <2>2, <3>1
    <3> QED
      BY <3>1, <3>2
  <2> QED
    BY <2>1, <2>3 DEF Kinds, TypeOK
<1> QED
  BY <1>1, <1>2, ClusterStep, PTL DEF Spec

\* A stream is recorded by one server only, and more than once only if a
\* forward was not answered in time, whatever rings the servers use meanwhile
\* (RecordedOnce).
THEOREM ForwardedOnce == Spec => []RecordedOnce
<1>1. Init => ClusterInv
  BY ClusterInit
<1>2. ClusterInv => RecordedOnce
  <2> SUFFICES ASSUME ClusterInv, NEW s \in Clients \X Names
               PROVE  /\ Cardinality(Recorded(s)) <= 1
                      /\ s[1] \notin late => \A n \in Nodes : copies[n][s] <= 1
    BY DEF RecordedOnce
  <2>1. s[1] \in Clients /\ s[2] \in Names /\ s = <<s[1], s[2]>>
    OBVIOUS
  <2>2. \A n \in Nodes : n \in Recorded(s) => Site(s[1], s[2], n)
    BY <2>1 DEF Recorded, Site
  <2>3. \A m, n \in Recorded(s) : m = n
    BY <2>1, <2>2 DEF ClusterInv, SiteInv, Recorded
  <2>4. Cardinality(Recorded(s)) <= 1
    <3>1. CASE Recorded(s) = {}
      <4>1. Cardinality({}) = 0
        BY FS_EmptySet
      <4> QED
        BY <3>1, <4>1
    <3>2. CASE Recorded(s) # {}
      <4>1. PICK n : n \in Recorded(s)
        BY <3>2
      <4>2. Recorded(s) = {n}
        BY <2>3, <4>1
      <4> QED
        BY <4>2, FS_Singleton
    <3> QED
      BY <3>1, <3>2
  <2>5. ASSUME s[1] \notin late, NEW n \in Nodes PROVE copies[n][s] <= 1
    BY <2>1, <2>5, CopyBound
  <2> QED
    BY <2>4, <2>5
<1> QED
  BY <1>1, <1>2, ClusterStep, PTL DEF Spec

\* As long as no configuration changes, every stream is recorded by the server
\* that the ring gives for its name (RecordedByOwner).
THEOREM OwnerRecords == Spec => []RecordedByOwner
<1> DEFINE Inv == ClusterInv /\ OwnerInv
<1>1. Init => Inv
  BY ClusterInit
<1>2. Inv /\ [Next]_vars => Inv'
  <2> SUFFICES ASSUME ClusterInv, OwnerInv, [Next]_vars PROVE OwnerInv'
    BY ClusterStep
  <2> SUFFICES ASSUME reloads' = 0
               PROVE  /\ \A n \in Nodes : ring'[n] = Nodes /\ adding'[n] = {}
                      /\ \A c \in Clients, v \in Names, n \in Nodes :
                            Site(c, v, n)' => n = Owner(v)
    BY DEF OwnerInv
  <2>1. ASSUME NEW n \in Nodes, NEW S \in Configs, HandleNewConfig(n, S) PROVE FALSE
    BY <2>1 DEF HandleNewConfig, ClusterInv, Kinds
  <2>2. reloads' = reloads
    BY <2>1 DEF Next, ServerStep, ThreadStep, ForwardStep, Add, Begin, Break, PutAside,
                Record, Answer, StartForward, ForwardAnswered, Retry, GiveUp, EndForward,
                AddNode, vars, ringVars
  <2>3. /\ \A n \in Nodes : ring[n] = Nodes /\ adding[n] = {}
        /\ \A c \in Clients, v \in Names, n \in Nodes : Site(c, v, n) => n = Owner(v)
    BY <2>2 DEF OwnerInv
  <2>4. ASSUME NEW n \in Nodes, AddNode(n) PROVE FALSE
    BY <2>3, <2>4 DEF AddNode
  <2>5. UNCHANGED <<ring, adding>>
    BY <2>1, <2>4 DEF Next, ServerStep, ThreadStep, ForwardStep, Add, Begin, Break, PutAside,
                Record, Answer, StartForward, ForwardAnswered, Retry, GiveUp, EndForward,
                vars, ringVars
  <2>6. ASSUME NEW c \in Clients, NEW v \in Names, NEW n \in Nodes, Site(c, v, n)'
        PROVE  n = Owner(v)
    <3>1. Stays(c, v) \/ Placed(c, v) \/ Asked(c, v)
      BY SiteMove DEF ClusterInv
    <3> QED
      BY <2>3, <2>6, <3>1 DEF Stays, Placed, Asked
  <2> QED
    BY <2>3, <2>5, <2>6
<1>3. Inv => RecordedByOwner
  <2> SUFFICES ASSUME OwnerInv, reloads = 0, NEW s \in Clients \X Names,
                      NEW n \in Recorded(s)
               PROVE  n = IF s[2] \in Nodes THEN s[2] ELSE 1
    BY DEF RecordedByOwner
  <2>1. s[1] \in Clients /\ s[2] \in Names /\ s = <<s[1], s[2]>>
    OBVIOUS
  <2>2. n \in Nodes /\ Site(s[1], s[2], n)
    BY <2>1 DEF Recorded, Site
  <2> QED
    BY <2>1, <2>2 DEF OwnerInv, Owner
<1> HIDE DEF Inv
<1> QED
  BY <1>1, <1>2, <1>3, PTL DEF Spec

\* Copies are never taken back.
LEMMA CopiesGrow ==
    ASSUME Kinds, PhaseInv, [Next]_vars,
           NEW c \in Clients, NEW v \in Names, NEW n \in Nodes, copies[n][<<c, v>>] > 0
    PROVE  copies'[n][<<c, v>>] > 0
<1>1. copies[n][<<c, v>>] \in Nat
  BY DEF Kinds
<1>2. copies'[n][<<c, v>>] = copies[n][<<c, v>>] \/ copies'[n][<<c, v>>] = copies[n][<<c, v>>] + 1
  BY CopyMove
<1> QED
  BY <1>1, <1>2

\* What a thread does with the streams of a client: all stays, or one of them is
\* recorded, or it is put aside, or the loop ends without success.
LEMMA ThreadCases ==
    ASSUME Kinds, PhaseInv, NEW r \in Ids, ThreadStep(r)
    PROVE  /\ ok' = [ok EXCEPT ![r] = ok'[r]]
           /\ \A c \in Clients : r # Client(c) => out'[c] = out[c]
           /\ \/ UNCHANGED <<streams, out, ok>>
              \/ ok'[r] = FALSE /\ UNCHANGED <<out, phase>>
              \/ /\ InLoop(r) /\ ~ Forwarded(r) /\ UNCHANGED <<phase, ok>>
                 /\ Range(streams'[r]) = Range(streams[r]) \ {Name(r)}
                 /\ \E g \in Nodes :
                       /\ Name(r) \in Range(out'[r.client][g])
                       /\ \A n \in Nodes : Range(out[r.client][n]) \subseteq Range(out'[r.client][n])
              \/ /\ InLoop(r) /\ UNCHANGED <<phase, out, ok>>
                 /\ Range(streams'[r]) = Range(streams[r]) \ {Name(r)}
                 /\ Name(r) \notin Dropping => copies'[at[r]][<<r.client, Name(r)>>] > 0
<1>a. /\ ok \in [Ids -> BOOLEAN] /\ out \in [Clients -> [Nodes -> Seq(Names)]]
      /\ streams \in [Ids -> Seq(Names)]
      /\ copies \in [Nodes -> [Clients \X Names -> Nat]]
  BY DEF Kinds
<1>1. CASE Begin(r) \/ Answer(r)
  <2>1. UNCHANGED <<streams, out, ok>>
    BY <1>1 DEF Begin, Answer
  <2> QED
    BY <1>a, <2>1
<1>2. CASE Break(r)
  <2>1. ok' = [ok EXCEPT ![r] = FALSE] /\ UNCHANGED <<out, phase>>
    BY <1>2 DEF Break
  <2>2. ok'[r] = FALSE
    BY <1>a, <2>1
  <2> QED
    BY <1>a, <2>1, <2>2
<1>3. CASE PutAside(r)
  <2> DEFINE g == GetNode(ring[at[r]], Name(r))
  <2>1. /\ Name(r) \in Names /\ at[r] \in Nodes /\ r.client \in Clients
        /\ Range(Tail(streams[r])) = Range(streams[r]) \ {Name(r)}
    BY <1>3, LoopFacts, IdFacts DEF PutAside
  <2>2. g \in Nodes
    <3>1. ring[at[r]] \subseteq Nodes /\ ring[at[r]] # {}
      BY <1>3, <2>1 DEF PutAside, Valid, Kinds
    <3> QED
      BY <2>1, <3>1, NodeFacts
  <2>3. /\ out' = [out EXCEPT ![r.client][g] = Append(@, Name(r))]
        /\ streams' = [streams EXCEPT ![r] = Tail(@)]
        /\ UNCHANGED <<ok, phase>> /\ r = Client(r.client) /\ ~ Forwarded(r) /\ InLoop(r)
    BY <1>3, IdFacts DEF PutAside, Advance, Elsewhere
  <2> HIDE DEF g
  <2>4. Range(Append(out[r.client][g], Name(r))) = Range(out[r.client][g]) \cup {Name(r)}
    BY <1>a, <2>1, <2>2, AppendFacts
  <2>5. \A n \in Nodes : out'[r.client][n] = IF n = g THEN Append(out[r.client][g], Name(r))
                                                       ELSE out[r.client][n]
    BY <1>a, <2>1, <2>2, <2>3
  <2>6. /\ Name(r) \in Range(out'[r.client][g])
        /\ \A n \in Nodes : Range(out[r.client][n]) \subseteq Range(out'[r.client][n])
    BY <2>2, <2>4, <2>5
  <2>7. \A c \in Clients : r # Client(c) => out'[c] = out[c]
    BY <1>a, <2>3
  <2>8. Range(streams'[r]) = Range(streams[r]) \ {Name(r)}
    BY <1>a, <2>1, <2>3
  <2>9. ok' = [ok EXCEPT ![r] = ok'[r]]
    BY <1>a, <2>3
  <2> QED
    BY <2>2, <2>3, <2>6, <2>7, <2>8, <2>9
<1>4. CASE Record(r)
  <2>1. /\ Name(r) \in Names /\ at[r] \in Nodes /\ r.client \in Clients
        /\ Range(Tail(streams[r])) = Range(streams[r]) \ {Name(r)}
    BY <1>4, LoopFacts, IdFacts DEF Record
  <2>2. /\ InLoop(r) /\ UNCHANGED <<phase, out, ok>>
        /\ streams' = [streams EXCEPT ![r] = Tail(@)]
    BY <1>4 DEF Record, Advance
  <2>3. Name(r) \notin Dropping => copies'[at[r]][<<r.client, Name(r)>>] > 0
    <3> SUFFICES ASSUME Name(r) \notin Dropping
                 PROVE  copies'[at[r]][<<r.client, Name(r)>>] > 0
      OBVIOUS
    <3>1. copies' = [copies EXCEPT ![at[r]][<<r.client, Name(r)>>] = @ + 1]
      BY <1>4 DEF Record
    <3>2. copies'[at[r]][<<r.client, Name(r)>>] = copies[at[r]][<<r.client, Name(r)>>] + 1
      BY <1>a, <2>1, <3>1
    <3> QED
      BY <1>a, <2>1, <3>2
  <2>4. Range(streams'[r]) = Range(streams[r]) \ {Name(r)}
    BY <1>a, <2>1, <2>2
  <2>5. ok' = [ok EXCEPT ![r] = ok'[r]]
    BY <1>a, <2>2
  <2> QED
    BY <2>2, <2>3, <2>4, <2>5
<1> QED
  BY <1>1, <1>2, <1>3, <1>4 DEF ThreadStep

\* What is put aside stays with its forwards until it is recorded.
LEMMA CarriedStep ==
    ASSUME ClusterInv, AnswerInv, [Next]_vars,
           NEW c \in Clients, NEW n \in Nodes, NEW k \in 1..Addresses,
           phase'[Forward(c, n, k)] # "none", ok'[Forward(c, n, k)],
           NEW v \in Range(out'[c][n]) \ Dropping
    PROVE  Carried(c, v, n, k)'
<1> DEFINE f == Forward(c, n, k)
<1>a. /\ phase \in [Ids -> {"none", "queued", "running", "answered"}]
      /\ streams \in [Ids -> Seq(Names)] /\ ok \in [Ids -> BOOLEAN]
      /\ out \in [Clients -> [Nodes -> Seq(Names)]]
      /\ Kinds /\ PhaseInv /\ SendInv /\ SiteInv
  BY DEF ClusterInv, Kinds
<1>b. /\ f \in Ids /\ Forwarded(f) /\ f.client = c /\ f.dest = n
      /\ \A b \in Clients : f # Client(b)
      /\ \A b \in Clients, m \in Nodes, j \in 1..Addresses :
            f = Forward(b, m, j) => b = c /\ m = n /\ j = k
  BY IdFacts
<1>v. v \in Names
  <2>a. Kinds'
    BY <1>a, KindsStep
  <2>1. out'[c][n] \in Seq(Names)
    BY <2>a DEF Kinds
  <2> QED
    BY <2>1, EmptyFacts
<1>f. phase'[f] # "none" /\ ok'[f]
  OBVIOUS
<1>q. ASSUME phase[f] # "none", ok[f], v \in Range(out[c][n]),
             v \in Range(streams[f]) => v \in Range(streams'[f])
      PROVE  Carried(c, v, n, k)'
  <2>1. Carried(c, v, n, k)
    BY <1>q DEF AnswerInv
  <2>2. copies[n][<<c, v>>] > 0 => copies'[n][<<c, v>>] > 0
    BY <1>a, <1>v, CopiesGrow
  <2> QED
    BY <1>q, <2>1, <2>2 DEF Carried
<1>r. ASSUME v \in Range(streams'[f]) PROVE Carried(c, v, n, k)'
  BY <1>r DEF Carried
<1>w. ASSUME phase[f] # "none"
      PROVE  phase[Client(c)] \in {"running", "answered"} /\ streams[Client(c)] = <<>>
  BY <1>a, <1>b, <1>w DEF PhaseInv, PhaseOf
<1>s. ASSUME copies'[n][<<c, v>>] > 0 PROVE Carried(c, v, n, k)'
  BY <1>s DEF Carried
<1> HIDE DEF f
<1>1. ASSUME NEW b \in Clients, NEW m \in Nodes, NEW ss \in Requests, Add(b, m, ss)
      PROVE  Carried(c, v, n, k)'
  <2>1. /\ phase' = [phase EXCEPT ![Client(b)] = "queued"]
        /\ streams' = [streams EXCEPT ![Client(b)] = ss]
        /\ UNCHANGED <<out, ok>>
    BY <1>1 DEF Add
  <2>2. phase'[f] = phase[f] /\ streams'[f] = streams[f]
    BY <1>a, <1>b, <2>1
  <2> QED
    BY <1>f, <1>q, <2>1, <2>2
<1>2. ASSUME NEW r \in Ids, ThreadStep(r) PROVE Carried(c, v, n, k)'
  <2>1. /\ phase[r] \in {"queued", "running"}
        /\ phase' = [phase EXCEPT ![r] = phase'[r]]
        /\ streams' = [streams EXCEPT ![r] = streams'[r]]
    BY <1>a, <1>2, ThreadFacts
  <2>2. phase[f] # "none"
    BY <1>a, <1>b, <1>f, <2>1
  <2>3. ok' = [ok EXCEPT ![r] = ok'[r]]
    BY <1>a, <1>2, ThreadCases
  <2>4. CASE r # Client(c) /\ r # f
    <3>1. out'[c] = out[c]
      BY <1>a, <1>2, <2>4, ThreadCases
    <3>2. streams'[f] = streams[f] /\ ok'[f] = ok[f]
      BY <1>a, <1>b, <2>1, <2>3, <2>4
    <3> QED
      BY <1>f, <1>q, <2>2, <3>1, <3>2
  <2>5. CASE r = f
    <3>1. out'[c] = out[c]
      BY <1>a, <1>b, <1>2, <2>5, ThreadCases
    <3>2. \/ UNCHANGED <<streams, ok>>
          \/ /\ InLoop(f) /\ UNCHANGED ok
             /\ Range(streams'[f]) = Range(streams[f]) \ {Name(f)}
             /\ Name(f) \notin Dropping => copies'[at[f]][<<f.client, Name(f)>>] > 0
      BY <1>a, <1>b, <1>f, <1>2, <2>5, ThreadCases
    <3>3. CASE UNCHANGED <<streams, ok>>
      BY <1>f, <1>q, <2>2, <3>1, <3>3
    <3>4. CASE /\ InLoop(f) /\ UNCHANGED ok
               /\ Range(streams'[f]) = Range(streams[f]) \ {Name(f)}
               /\ Name(f) \notin Dropping => copies'[at[f]][<<f.client, Name(f)>>] > 0
      <4>1. at[f] = n
        BY <1>a, <1>b, <2>2 DEF PhaseInv, PhaseOf
      <4>2. CASE v = Name(f)
        BY <1>b, <1>s, <3>4, <4>1, <4>2
      <4>3. CASE v # Name(f)
        BY <1>f, <1>q, <2>2, <3>1, <3>4, <4>3
      <4> QED
        BY <4>2, <4>3
    <3> QED
      BY <3>2, <3>3, <3>4
  <2>6. CASE r = Client(c)
    <3>1. streams[r] = <<>>
      BY <1>w, <2>2, <2>6
    <3>2. ~ InLoop(r)
      BY <3>1 DEF InLoop
    <3>3. UNCHANGED out
      BY <1>a, <1>2, <3>2, ThreadCases
    <3>4. streams'[f] = streams[f] /\ ok'[f] = ok[f]
      BY <1>a, <1>b, <2>1, <2>3, <2>6
    <3> QED
      BY <1>f, <1>q, <2>2, <3>3, <3>4
  <2> QED
    BY <2>4, <2>5, <2>6
<1>3. ASSUME NEW b \in Clients, NEW m \in Nodes, NEW j \in 1..Addresses,
             Connect(b, m, j), UNCHANGED <<out, ok>>
      PROVE  Carried(c, v, n, k)'
  <2>1. CASE UNCHANGED <<phase, streams>>
    BY <1>f, <1>q, <1>3, <2>1
  <2>2. CASE ~ UNCHANGED <<phase, streams>>
    <3>1. /\ phase' = [phase EXCEPT ![Forward(b, m, j)] = "queued"]
          /\ streams' = [streams EXCEPT ![Forward(b, m, j)] = out[b][m]]
      BY <1>3, <2>2 DEF Connect
    <3>2. CASE f = Forward(b, m, j)
      <4>1. b = c /\ m = n
        BY <1>b, <3>2
      <4>2. streams'[f] = out[c][n]
        BY <1>a, <1>b, <3>1, <3>2, <4>1
      <4> QED
        BY <1>3, <1>r, <4>2
    <3>3. CASE f # Forward(b, m, j)
      <4>1. phase'[f] = phase[f] /\ streams'[f] = streams[f]
        BY <1>a, <1>b, <3>1, <3>3
      <4> QED
        BY <1>3, <1>f, <1>q, <4>1
    <3> QED
      BY <3>2, <3>3
  <2> QED
    BY <2>1, <2>2
<1>4. ASSUME NEW b \in Clients, NEW m \in Nodes, StartForward(b, m)
      PROVE  Carried(c, v, n, k)'
  <2>1. 1 \in 1..Addresses
    BY ClusterAssumption
  <2> QED
    BY <1>3, <1>4, <2>1 DEF StartForward
<1>5. ASSUME NEW b \in Clients, Retry(b) PROVE Carried(c, v, n, k)'
  <2>1. waiting[b][1] \in Nodes /\ waiting[b][2] + 1 \in 1..Addresses
    BY <1>a, <1>5, ClusterAssumption DEF Retry, SendInv, SendOf
  <2> QED
    BY <1>3, <1>5, <2>1 DEF Retry
<1>6. ASSUME NEW b \in Clients, ForwardAnswered(b) \/ GiveUp(b)
      PROVE  Carried(c, v, n, k)'
  <2>1. /\ out' = [out EXCEPT ![b][waiting[b][1]] = <<>>]
        /\ UNCHANGED <<phase, streams, ok>>
    BY <1>6 DEF ForwardAnswered, GiveUp, EndForward
  <2>2. out'[c][n] = out[c][n] \/ out'[c][n] = <<>>
    BY <1>a, <2>1
  <2>3. v \in Range(out[c][n])
    BY <2>2, EmptyFacts
  <2> QED
    BY <1>f, <1>q, <2>1, <2>3
<1>7. CASE UNCHANGED <<phase, streams, ok, out>>
  BY <1>f, <1>q, <1>7
<1> QED
  BY <1>1, <1>2, <1>4, <1>5, <1>6, <1>7
     DEF Next, ServerStep, ForwardStep, HandleNewConfig, AddNode, vars, reqVars

\* A stream that was asked for is lost only with a failure.
LEMMA AccountedStep ==
    ASSUME ClusterInv, AnswerInv, [Next]_vars, NEW c \in Clients,
           phase'[Client(c)] # "none", ok'[Client(c)], c \notin failed',
           NEW v \in asked'[c] \ Dropping
    PROVE  Accounted(c, v)'
<1> DEFINE q == Client(c)
<1>a. /\ phase \in [Ids -> {"none", "queued", "running", "answered"}]
      /\ streams \in [Ids -> Seq(Names)] /\ ok \in [Ids -> BOOLEAN]
      /\ out \in [Clients -> [Nodes -> Seq(Names)]]
      /\ asked \in [Clients -> SUBSET Names]
      /\ Kinds /\ PhaseInv /\ SendInv /\ SiteInv
  BY DEF ClusterInv, Kinds
<1>b. /\ q \in Ids /\ ~ Forwarded(q) /\ q.client = c
      /\ \A b \in Clients : q = Client(b) => b = c
  BY IdFacts
<1>v. v \in Names
  BY <1>a, KindsStep DEF Kinds
<1>f. phase'[q] # "none" /\ ok'[q] /\ c \notin failed'
  OBVIOUS
<1>r. ASSUME \/ v \in Range(streams'[q])
             \/ \E n \in Nodes : v \in Range(out'[c][n])
             \/ \E n \in Nodes : copies'[n][<<c, v>>] > 0
      PROVE  Accounted(c, v)'
  BY <1>r DEF Accounted
<1>q. ASSUME phase[q] # "none", ok[q], c \notin failed, v \in asked[c],
             v \in Range(streams[q]) => Accounted(c, v)',
             \A n \in Nodes : v \in Range(out[c][n]) => Accounted(c, v)'
      PROVE  Accounted(c, v)'
  <2>1. Accounted(c, v)
    BY <1>q DEF AnswerInv
  <2>2. \A n \in Nodes : copies[n][<<c, v>>] > 0 => copies'[n][<<c, v>>] > 0
    BY <1>a, <1>v, CopiesGrow
  <2> QED
    BY <1>q, <1>r, <2>1, <2>2 DEF Accounted
<1> HIDE DEF q
<1>p. ASSUME UNCHANGED <<asked, out>>, c \notin failed,
             phase'[q] = phase[q], streams'[q] = streams[q], ok'[q] = ok[q]
      PROVE  Accounted(c, v)'
  BY <1>f, <1>p, <1>q, <1>r
<1>1. ASSUME NEW b \in Clients, NEW m \in Nodes, NEW ss \in Requests, Add(b, m, ss)
      PROVE  Accounted(c, v)'
  <2>1. /\ phase' = [phase EXCEPT ![Client(b)] = "queued"]
        /\ streams' = [streams EXCEPT ![Client(b)] = ss]
        /\ asked' = [asked EXCEPT ![b] = Range(ss)]
        /\ UNCHANGED <<out, ok, failed>>
    BY <1>1 DEF Add
  <2>2. CASE b = c
    <3>1. streams'[q] = ss /\ asked'[c] = Range(ss)
      BY <1>a, <1>b, <2>1, <2>2 DEF q
    <3> QED
      BY <1>r, <3>1
  <2>3. CASE b # c
    <3>1. phase'[q] = phase[q] /\ streams'[q] = streams[q] /\ asked'[c] = asked[c]
      BY <1>a, <1>b, <2>1, <2>3
    <3> QED
      BY <1>f, <1>q, <1>r, <2>1, <3>1
  <2> QED
    BY <2>2, <2>3
<1>2. ASSUME NEW r \in Ids, ThreadStep(r) PROVE Accounted(c, v)'
  <2>1. /\ phase[r] \in {"queued", "running"}
        /\ phase' = [phase EXCEPT ![r] = phase'[r]]
        /\ streams' = [streams EXCEPT ![r] = streams'[r]]
        /\ UNCHANGED <<asked, failed>>
    BY <1>a, <1>2, ThreadFacts
  <2>2. ok' = [ok EXCEPT ![r] = ok'[r]]
    BY <1>a, <1>2, ThreadCases
  <2>3. CASE r # q
    <3>1. out'[c] = out[c]
      BY <1>a, <1>2, <2>3, ThreadCases DEF q
    <3>2. phase'[q] = phase[q] /\ streams'[q] = streams[q] /\ ok'[q] = ok[q]
      BY <1>a, <1>b, <2>1, <2>2, <2>3
    <3> QED
      BY <1>f, <1>q, <1>r, <2>1, <3>1, <3>2
  <2>4. CASE r = q
    <3>1. \/ UNCHANGED <<streams, out, ok>>
          \/ /\ InLoop(q) /\ UNCHANGED ok
             /\ Range(streams'[q]) = Range(streams[q]) \ {Name(q)}
             /\ \E g \in Nodes :
                   /\ Name(q) \in Range(out'[c][g])
                   /\ \A n \in Nodes : Range(out[c][n]) \subseteq Range(out'[c][n])
          \/ /\ InLoop(q) /\ UNCHANGED <<out, ok>>
             /\ Range(streams'[q]) = Range(streams[q]) \ {Name(q)}
             /\ Name(q) \notin Dropping => copies'[at[q]][<<c, Name(q)>>] > 0
      BY <1>a, <1>b, <1>f, <1>2, <2>4, ThreadCases
    <3>2. phase[q] # "none" /\ c \notin failed /\ v \in asked[c]
      BY <1>f, <2>1, <2>4
    <3>3. CASE UNCHANGED <<streams, out, ok>>
      BY <1>f, <1>q, <1>r, <3>2, <3>3
    <3>4. CASE /\ InLoop(q) /\ UNCHANGED ok
               /\ Range(streams'[q]) = Range(streams[q]) \ {Name(q)}
               /\ \E g \in Nodes :
                     /\ Name(q) \in Range(out'[c][g])
                     /\ \A n \in Nodes : Range(out[c][n]) \subseteq Range(out'[c][n])
      BY <1>f, <1>q, <1>r, <3>2, <3>4
    <3>5. CASE /\ InLoop(q) /\ UNCHANGED <<out, ok>>
               /\ Range(streams'[q]) = Range(streams[q]) \ {Name(q)}
               /\ Name(q) \notin Dropping => copies'[at[q]][<<c, Name(q)>>] > 0
      <4>1. at[q] \in Nodes
        BY <1>a, <1>b, <3>2 DEF PhaseInv, PhaseOf
      <4>2. CASE v = Name(q)
        BY <1>r, <3>5, <4>1, <4>2
      <4>3. CASE v # Name(q)
        BY <1>f, <1>q, <1>r, <3>2, <3>5, <4>3
      <4> QED
        BY <4>2, <4>3
    <3> QED
      BY <3>1, <3>3, <3>4, <3>5
  <2> QED
    BY <2>3, <2>4
<1>3. ASSUME NEW b \in Clients, NEW m \in Nodes, NEW j \in 1..Addresses,
             Connect(b, m, j), UNCHANGED <<out, ok, asked, failed>>
      PROVE  Accounted(c, v)'
  <2>1. Forward(b, m, j) # q
    BY IdFacts DEF q
  <2>2. phase'[q] = phase[q] /\ streams'[q] = streams[q]
    BY <1>a, <1>b, <1>3, <2>1 DEF Connect
  <2> QED
    BY <1>f, <1>p, <1>3, <2>2
<1>4. ASSUME NEW b \in Clients, NEW m \in Nodes, StartForward(b, m)
      PROVE  Accounted(c, v)'
  <2>1. 1 \in 1..Addresses
    BY ClusterAssumption
  <2> QED
    BY <1>3, <1>4, <2>1 DEF StartForward, histVars
<1>5. ASSUME NEW b \in Clients, Retry(b) PROVE Accounted(c, v)'
  <2>1. waiting[b][1] \in Nodes /\ waiting[b][2] + 1 \in 1..Addresses
    BY <1>a, <1>5, ClusterAssumption DEF Retry, SendInv, SendOf
  <2> QED
    BY <1>3, <1>5, <2>1 DEF Retry
<1>6. ASSUME NEW b \in Clients, ForwardAnswered(b) PROVE Accounted(c, v)'
  <2> DEFINE w == waiting[b][1]
             k == waiting[b][2]
             f == Forward(b, w, k)
  <2>1. /\ out' = [out EXCEPT ![b][w] = <<>>]
        /\ UNCHANGED <<phase, streams, ok, asked>> /\ Sending(b)
        /\ failed' = IF ok[f] THEN failed ELSE failed \cup {b}
        /\ phase[f] = "answered"
    BY <1>6 DEF ForwardAnswered, EndForward, ForwardOf
  <2>2. w \in Nodes /\ k \in 1..Addresses
    BY <1>a, <2>1 DEF SendInv, SendOf
  <2>3. f \in Ids
    BY <2>2, IdFacts
  <2>4. streams[f] = <<>>
    BY <1>a, <2>1, <2>3 DEF PhaseInv, PhaseOf
  <2>5. ASSUME NEW n \in Nodes, v \in Range(out[c][n]) PROVE Accounted(c, v)'
    <3>1. CASE b = c /\ n = w
      <4>1. ok[f]
        BY <1>f, <2>1, <3>1
      <4>2. Carried(c, v, w, k)
        BY <2>1, <2>2, <2>5, <3>1, <4>1 DEF AnswerInv
      <4>3. copies[w][<<c, v>>] > 0
        BY <2>4, <3>1, <4>2, EmptyFacts DEF Carried
      <4>4. copies'[w][<<c, v>>] > 0
        BY <1>a, <1>v, <2>2, <4>3, CopiesGrow
      <4> QED
        BY <1>r, <2>2, <4>4
    <3>2. CASE ~(b = c /\ n = w)
      <4>1. out'[c][n] = out[c][n]
        BY <1>a, <2>1, <2>2, <3>2
      <4> QED
        BY <1>r, <2>5, <4>1
    <3> QED
      BY <3>1, <3>2
  <2>6. c \notin failed
    BY <1>f, <2>1
  <2> HIDE DEF w, k, f
  <2> QED
    BY <1>f, <1>q, <1>r, <2>1, <2>5, <2>6
<1>7. ASSUME NEW b \in Clients, GiveUp(b) PROVE Accounted(c, v)'
  <2>1. /\ out' = [out EXCEPT ![b][waiting[b][1]] = <<>>]
        /\ UNCHANGED <<phase, streams, ok, asked>> /\ failed' = failed \cup {b}
    BY <1>7 DEF GiveUp, EndForward
  <2>2. b # c /\ c \notin failed
    BY <1>f, <2>1
  <2>3. out'[c] = out[c]
    BY <1>a, <2>1, <2>2
  <2> QED
    BY <1>f, <1>q, <1>r, <2>1, <2>2, <2>3
<1>8. CASE UNCHANGED <<phase, streams, ok, out, asked, failed>>
  BY <1>f, <1>p, <1>8
<1> QED
  BY <1>1, <1>2, <1>4, <1>5, <1>6, <1>7, <1>8
     DEF Next, ServerStep, ForwardStep, HandleNewConfig, AddNode, vars, reqVars, histVars

\* A client that is told success has all its streams recorded, but for those the
\* retention policy drops, unless a forward has failed (SuccessMeansRecorded).
THEOREM SuccessRecords == Spec => []SuccessMeansRecorded
<1> DEFINE Inv == ClusterInv /\ AnswerInv
<1>1. Init => Inv
  BY ClusterInit
<1>2. Inv /\ [Next]_vars => Inv'
  <2> SUFFICES ASSUME ClusterInv, AnswerInv, [Next]_vars, NEW c \in Clients
               PROVE  (/\ phase[Client(c)] # "none" /\ ok[Client(c)] /\ c \notin failed =>
                            \A v \in asked[c] \ Dropping : Accounted(c, v)
                       /\ \A n \in Nodes, k \in 1..Addresses :
                            phase[Forward(c, n, k)] # "none" /\ ok[Forward(c, n, k)] =>
                                \A v \in Range(out[c][n]) \ Dropping : Carried(c, v, n, k))'
    BY ClusterStep DEF AnswerInv
  <2>1. ASSUME phase'[Client(c)] # "none", ok'[Client(c)], c \notin failed',
               NEW v \in asked'[c] \ Dropping
        PROVE  Accounted(c, v)'
    BY <2>1, AccountedStep
  <2>2. ASSUME NEW n \in Nodes, NEW k \in 1..Addresses,
               phase'[Forward(c, n, k)] # "none", ok'[Forward(c, n, k)],
               NEW v \in Range(out'[c][n]) \ Dropping
        PROVE  Carried(c, v, n, k)'
    BY <2>2, CarriedStep
  <2> QED
    BY <2>1, <2>2
<1>3. Inv => SuccessMeansRecorded
  <2> SUFFICES ASSUME ClusterInv, AnswerInv, NEW c \in Clients,
                      phase[Client(c)] = "answered", ok[Client(c)], c \notin failed,
                      NEW v \in asked[c] \ Dropping
               PROVE  Recorded(<<c, v>>) # {}
    BY DEF SuccessMeansRecorded
  <2>1. Accounted(c, v)
    BY DEF AnswerInv
  <2>2. streams[Client(c)] = <<>>
    BY IdFacts DEF ClusterInv, PhaseInv, PhaseOf
  <2>3. \A n \in Nodes : out[c][n] = <<>>
    BY DEF ClusterInv, SendInv, SendOf, NoStreams
  <2> QED
    BY <2>1, <2>2, <2>3, EmptyFacts DEF Accounted, Recorded
<1> HIDE DEF Inv
<1> QED
  BY <1>1, <1>2, <1>3, PTL DEF Spec
=============================================================================
