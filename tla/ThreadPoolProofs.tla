-------------------------- MODULE ThreadPoolProofs --------------------------
(***************************************************************************)
(* Proofs about ThreadPool, for every number of connections and threads    *)
(* and every target and maximal size: type correctness, that no closure is *)
(* lost or run twice, that the pool outgrows max_size_ only through a race *)
(* in RunPolicy, and that Stop leaves no thread behind.                    *)
(***************************************************************************)
EXTENDS ThreadPool, TLAPS, FiniteSetTheorems, SequenceTheorems

\* The threads that run a closure.
Running == {w \in Workers : pc[w] = "running"}

\* A thread has a program counter from its creation on, and the counter of
\* busy threads counts those that run a closure.
ThreadInv ==
    /\ pc \in [Callers -> ListenerPC \cup WorkerPC]
    /\ \A w \in Workers : pc[w] = "unborn" <=> w > born
    /\ busy = Cardinality(Running)

\* A caller of RunPolicy that has still to create or to store a thread: it
\* needs one, what it has read of threads_ and what it has created exist, and
\* it has not created itself.
CreateInv ==
    \A c \in Callers :
        /\ seen[c] \subseteq 1..born
        /\ pc[c] \in {"create", "store"} => need[c] > 0
        /\ pc[c] = "store" => created[c] \in 1..born /\ c < created[c]

PoolInv == TypeOK /\ ThreadInv /\ CreateInv

\* Who has a closure in its hands is seen from where it is in the code.
HandInv ==
    /\ job[Listener] # NoJob
          <=> pc[Listener] \in {"policy", "create", "store", "push"}
    /\ \A w \in Workers : job[w] # NoJob <=> pc[w] \in {"popped", "running"}

\* Where a closure is before it has been run.
Held(j)   == \E c \in Callers : job[c] = j
Queued(j) == \E i \in 1..Len(queue) : queue[i] = j

\* Each closure is in one place at most, and in one if it has been accepted.
JobInv ==
    /\ \A c, d \in Callers : job[c] = job[d] /\ job[c] # NoJob => c = d
    /\ \A i, k \in 1..Len(queue) : queue[i] = queue[k] => i = k
    /\ \A j \in Jobs :
          /\ ~(Held(j) /\ Queued(j))
          /\ Held(j) \/ Queued(j) => done[j] = 0
          /\ done[j] \in {0, 1}
          /\ (Held(j) \/ Queued(j) \/ done[j] = 1) <=> j <= accepted

\* As long as RunPolicy was never run by two callers at the same time: there
\* is one caller at most in it, the threads it is going to create fit into the
\* pool, and threads_ lacks at most the thread that it has just created.
RaceInv ==
    ~raced =>
        /\ \A c, d \in InPolicy : c = d
        /\ born <= MaxSize
        /\ \A c \in Callers : pc[c] = "create" => born + need[c] <= MaxSize
        /\ \A c \in Callers : pc[c] = "store" =>
              /\ born + need[c] <= MaxSize + 1
              /\ created[c] = born
              /\ seen[c] = 1..(born - 1)
              /\ spc # "stopped" => threads = 1..(born - 1)
        /\ spc # "stopped" /\ (\A c \in Callers : pc[c] # "store")
              => threads = 1..born

\* The listen thread has ended before the pool is stopped, and the threads
\* that were joined in time are gone.
StopInv ==
    /\ spc # "run" => pc[Listener] = "accept"
    /\ ~expired => \A w \in join : pc[w] = "gone"

-----------------------------------------------------------------------------
\* The listen thread is none of the workers; the workers are numbered.
LEMMA CallerFacts ==
    /\ Listener \in Callers /\ Listener \notin Workers /\ Listener = 0
    /\ Workers \subseteq Callers
    /\ \A c \in Callers : c \in Nat /\ (c = Listener \/ c \in Workers)
    /\ \A w \in Workers : w \in 1..MaxWorkers
    /\ \A n \in 0..MaxWorkers : 1..n \subseteq Workers
    /\ NoOne \notin Workers
  BY ConstantsAssumption DEF Listener, Callers, Workers, NoOne

\* What RunPolicy wants fits into the pool.
LEMMA WantedFacts ==
    ASSUME NEW total \in Nat, NEW working \in Nat
    PROVE  /\ Wanted(total, working) \in 0..2
           /\ Wanted(total, working) > 0
                => total + Wanted(total, working) <= MaxSize
  BY ConstantsAssumption DEF Wanted

\* Counting the threads that run a closure.
LEMMA CountFacts ==
    ASSUME NEW R, R \subseteq Workers
    PROVE  /\ IsFiniteSet(R) /\ Cardinality(R) \in Nat
           /\ \A n \in 0..MaxWorkers : R \subseteq 1..n => Cardinality(R) <= n
           /\ \A w \in R : /\ Cardinality(R) > 0
                           /\ Cardinality(R \ {w}) = Cardinality(R) - 1
           /\ \A w : w \notin R => Cardinality(R \cup {w}) = Cardinality(R) + 1
<1> USE ConstantsAssumption
<1>1. IsFiniteSet(Workers)
  BY FS_Interval DEF Workers
<1>2. IsFiniteSet(R) /\ Cardinality(R) \in Nat
  BY <1>1, FS_Subset, FS_CardinalityType
<1>3. ASSUME NEW n \in 0..MaxWorkers, R \subseteq 1..n
      PROVE  Cardinality(R) <= n
  <2>1. n \in Nat /\ 1 \in Int /\ n \in Int
    OBVIOUS
  <2>2. IsFiniteSet(1..n) /\ Cardinality(1..n) = n
    <3>1. IsFiniteSet(1..n) /\ Cardinality(1..n) = IF 1 > n THEN 0 ELSE n - 1 + 1
      BY <2>1, FS_Interval
    <3> QED
      BY <2>1, <3>1
  <2> QED
    BY <1>3, <2>2, FS_Subset
<1>4. ASSUME NEW w \in R
      PROVE  Cardinality(R) > 0 /\ Cardinality(R \ {w}) = Cardinality(R) - 1
  BY <1>2, FS_RemoveElement, FS_EmptySet
<1>5. ASSUME NEW w, w \notin R
      PROVE  Cardinality(R \cup {w}) = Cardinality(R) + 1
  BY <1>2, <1>5, FS_AddElement
<1> QED
  BY <1>2, <1>3, <1>4, <1>5

\* The pool before the first connection.
LEMMA PoolInit == Init => PoolInv
<1> SUFFICES ASSUME Init PROVE PoolInv
  OBVIOUS
<1> USE ConstantsAssumption, CallerFacts
<1>1. pc \in [Callers -> ListenerPC \cup WorkerPC]
      /\ pc[Listener] = "accept" /\ \A w \in Workers : pc[w] = "unborn"
  BY DEF Init, ListenerPC, WorkerPC
<1>2. TypeOK
  <2>1. queue \in Seq(Jobs)
    BY EmptySeq DEF Init
  <2>2. mutex \in Workers \cup {NoOne} /\ threads = {} /\ join = {}
    BY DEF Init
  <2>3. shutdown \in BOOLEAN /\ raced \in BOOLEAN /\ expired \in BOOLEAN
    BY DEF Init
  <2>4. /\ need \in [Callers -> 0..2] /\ created \in [Callers -> 0..MaxWorkers]
        /\ seen \in [Callers -> SUBSET Workers]
        /\ job \in [Callers -> Jobs \cup {NoJob}]
        /\ done \in [Jobs -> Nat]
    BY DEF Init
  <2>5. born \in 0..MaxWorkers /\ busy \in 0..born /\ accepted \in 0..MaxJobs
        /\ spc \in {"run", "shutdown", "notify", "join", "stopped"}
    BY DEF Init
  <2> QED
    BY <1>1, <2>1, <2>2, <2>3, <2>4, <2>5 DEF TypeOK, ListenerPC, WorkerPC
<1>3. ThreadInv
  <2>1. Running = {}
    BY <1>1 DEF Running
  <2>2. Cardinality(Running) = 0
    BY <2>1, FS_EmptySet
  <2>3. \A w \in Workers : w > 0
    OBVIOUS
  <2> QED
    BY <1>1, <2>2, <2>3 DEF ThreadInv, Init
<1>4. CreateInv
  BY DEF Init, CreateInv
<1> QED
  BY <1>2, <1>3, <1>4 DEF PoolInv

\* A thread that moves from one place to another, neither of them inside
\* RunPolicy or a closure.
LEMMA MoveFacts ==
    ASSUME ThreadInv, CreateInv, NEW c \in Callers,
           NEW x \in {"accept", "policy", "push", "notify", "wait", "woken",
                      "tested", "waiting", "popped", "gone"},
           pc[c] \notin {"unborn", "running"},
           pc' = [pc EXCEPT ![c] = x],
           UNCHANGED <<need, created, seen, born, busy>>
    PROVE  ThreadInv' /\ CreateInv'
<1> USE CallerFacts
<1>1. pc' \in [Callers -> ListenerPC \cup WorkerPC]
  BY DEF ThreadInv, ListenerPC, WorkerPC
<1>2. \A w \in Workers : pc'[w] = "unborn" <=> w > born'
  BY DEF ThreadInv
<1>3. Running' = Running
  BY DEF ThreadInv, Running
<1>4. ThreadInv'
  BY <1>1, <1>2, <1>3 DEF ThreadInv
<1>5. CreateInv'
  BY DEF ThreadInv, CreateInv
<1> QED
  BY <1>4, <1>5

\* Steps that move no thread and create none.
LEMMA RestFacts ==
    ASSUME ThreadInv, CreateInv, UNCHANGED <<pc, need, created, seen, born, busy>>
    PROVE  ThreadInv' /\ CreateInv'
  BY DEF ThreadInv, CreateInv, Running

\* RunPolicy, by the listen thread or by a worker, keeps the types, also when
\* several callers race in it.
LEMMA PolicyFacts ==
    ASSUME PoolInv, NEW c \in Callers, PolicyStep(c)
    PROVE  PoolInv'
<1>a. TypeOK /\ ThreadInv /\ CreateInv
  BY DEF PoolInv
<1> USE ConstantsAssumption, CallerFacts
<1>d. threads \subseteq Workers /\ threads \subseteq 1..born
      /\ born \in 0..MaxWorkers /\ busy \in Nat
  <2>1. threads \subseteq 1..born /\ born \in 0..MaxWorkers /\ busy \in 0..born
    BY <1>a DEF TypeOK
  <2>2. 1..born \subseteq Workers
    BY <2>1
  <2>3. busy \in Nat
    BY <2>1
  <2> QED
    BY <2>1, <2>2, <2>3
\* The types of what RunPolicy does not touch.
<1>b. ASSUME UNCHANGED <<busy, job, queue, mutex, stopVars, histVars, expired>>,
             /\ need' \in [Callers -> 0..2]
             /\ created' \in [Callers -> 0..MaxWorkers]
             /\ seen' \in [Callers -> SUBSET Workers]
             /\ threads' \subseteq 1..born'
             /\ born' \in 0..MaxWorkers /\ born <= born'
             /\ raced' \in BOOLEAN
             /\ pc'[Listener] \in ListenerPC
             /\ \A w \in Workers : pc'[w] \in WorkerPC
      PROVE  TypeOK'
  <2>1. busy' \in 0..born'
    BY <1>a, <1>b DEF TypeOK
  <2> QED
    BY <1>a, <1>b, <2>1 DEF TypeOK, stopVars, histVars
\* A caller is in one of the places RunPolicy is called from.
<1>c. /\ \A x \in {"create", "store"} : x \in ListenerPC /\ x \in WorkerPC
      /\ After(Listener) \in ListenerPC
      /\ \A w \in Workers : After(w) \in WorkerPC
      /\ \A d \in Callers : After(d) \in {"push", "wait"}
  BY DEF After, ListenerPC, WorkerPC
<1>1. CASE RunPolicy(c)
  <2> DEFINE n == Wanted(Cardinality(threads), busy)
  <2>1. n \in 0..2
    <3>1. Cardinality(threads) \in Nat
      BY <1>d, CountFacts
    <3> QED
      BY <1>d, <3>1, WantedFacts
  <2>2. /\ pc[c] = "policy"
        /\ need' = [need EXCEPT ![c] = n]
        /\ pc' = [pc EXCEPT ![c] = IF n > 0 THEN "create" ELSE After(c)]
        /\ UNCHANGED <<created, seen, threads, born>>
        /\ UNCHANGED <<busy, job, queue, mutex, stopVars, histVars, expired>>
    BY <1>1 DEF RunPolicy
  <2>3. raced' \in BOOLEAN
    BY <1>1 DEF RunPolicy
  <2> HIDE DEF n
  <2>4. need' \in [Callers -> 0..2]
    BY <1>a, <2>1, <2>2 DEF TypeOK
  <2>5. pc'[Listener] \in ListenerPC /\ \A w \in Workers : pc'[w] \in WorkerPC
    BY <1>a, <1>c, <2>2 DEF TypeOK, ThreadInv
  <2>6. TypeOK'
    BY <1>a, <1>b, <2>2, <2>3, <2>4, <2>5 DEF TypeOK
  <2>7. ThreadInv'
    <3>1. pc' \in [Callers -> ListenerPC \cup WorkerPC]
      BY <1>a, <1>c, <2>2 DEF ThreadInv
    <3>2. \A w \in Workers : pc'[w] = "unborn" <=> w > born'
      BY <1>a, <1>c, <2>2 DEF ThreadInv
    <3>3. Running' = Running
      BY <1>a, <1>c, <2>2 DEF ThreadInv, Running
    <3> QED
      BY <1>a, <2>2, <3>1, <3>2, <3>3 DEF ThreadInv
  <2>8. CreateInv'
    BY <1>a, <1>c, <2>1, <2>2 DEF CreateInv, ThreadInv, TypeOK
  <2> QED
    BY <2>6, <2>7, <2>8 DEF PoolInv
\* The new thread is the next one.
<1>2. CASE AddThread(c)
  <2>1. born + 1 \in Workers /\ born \in Nat /\ c # born + 1
    BY <1>a, <1>2 DEF AddThread, TypeOK, ThreadInv, Workers
  <2>2. /\ pc[c] = "create"
        /\ born' = born + 1
        /\ created' = [created EXCEPT ![c] = born + 1]
        /\ seen' = [seen EXCEPT ![c] = threads]
        /\ pc' = [pc EXCEPT ![c] = "store", ![born + 1] = "policy"]
        /\ UNCHANGED <<need, threads, raced>>
        /\ UNCHANGED <<busy, job, queue, mutex, stopVars, histVars, expired>>
    BY <1>2 DEF AddThread
  <2>3. /\ pc'[c] = "store" /\ pc'[born + 1] = "policy"
        /\ \A d \in Callers \ {c, born + 1} : pc'[d] = pc[d]
        /\ pc' \in [Callers -> ListenerPC \cup WorkerPC]
    BY <1>a, <1>c, <2>1, <2>2 DEF ThreadInv, ListenerPC
  <2>4. pc'[Listener] \in ListenerPC /\ \A w \in Workers : pc'[w] \in WorkerPC
    BY <1>a, <1>c, <2>1, <2>3 DEF TypeOK, WorkerPC
  <2>5. TypeOK'
    <3>1. threads' \subseteq 1..born'
      BY <1>d, <2>1, <2>2
    <3>2. born' \in 0..MaxWorkers /\ born <= born'
      BY <1>a, <2>1, <2>2
    <3>3. /\ created' \in [Callers -> 0..MaxWorkers]
          /\ seen' \in [Callers -> SUBSET Workers]
      BY <1>a, <1>d, <2>1, <2>2 DEF TypeOK
    <3> QED
      BY <1>a, <1>b, <2>2, <2>4, <3>1, <3>2, <3>3 DEF TypeOK
  <2>6. ThreadInv'
    <3>1. ASSUME NEW w \in Workers
          PROVE  pc'[w] = "unborn" <=> w > born'
      BY <1>a, <2>1, <2>2, <2>3 DEF ThreadInv
    <3>2. pc[born + 1] = "unborn"
      BY <1>a, <2>1 DEF ThreadInv
    <3>3. Running' = Running
      BY <1>a, <2>2, <2>3, <3>2 DEF Running
    <3> QED
      BY <1>a, <2>2, <2>3, <3>1, <3>3 DEF ThreadInv
  <2>7. CreateInv'
    <3>1. threads \subseteq 1..born /\ c <= born
      BY <1>a, <2>1, <2>2 DEF TypeOK, ThreadInv
    <3>2. ASSUME NEW d \in Callers
          PROVE  /\ seen'[d] \subseteq 1..born'
                 /\ pc'[d] \in {"create", "store"} => need'[d] > 0
                 /\ pc'[d] = "store" => created'[d] \in 1..born' /\ d < created'[d]
      <4>1. CASE d = c
        <5>1. seen'[c] = threads /\ created'[c] = born + 1 /\ need'[c] = need[c]
          BY <1>a, <2>2 DEF TypeOK
        <5>2. need[c] > 0 /\ c < born + 1 /\ born' = born + 1
          BY <1>a, <2>1, <2>2, <3>1 DEF CreateInv
        <5> QED
          BY <1>d, <2>1, <4>1, <5>1, <5>2
      <4>2. CASE d = born + 1
        BY <1>a, <2>1, <2>2, <2>3, <4>2 DEF TypeOK, CreateInv
      <4>3. CASE d # c /\ d # born + 1
        BY <1>a, <2>1, <2>2, <2>3, <4>3 DEF TypeOK, CreateInv
      <4> QED
        BY <4>1, <4>2, <4>3
    <3> QED
      BY <3>2 DEF CreateInv
  <2> QED
    BY <2>5, <2>6, <2>7 DEF PoolInv
<1>3. CASE AddNoThread(c)
  <2>1. /\ pc[c] = "create"
        /\ need' = [need EXCEPT ![c] = 0]
        /\ pc' = [pc EXCEPT ![c] = After(c)]
        /\ UNCHANGED <<created, seen, threads, born, raced>>
        /\ UNCHANGED <<busy, job, queue, mutex, stopVars, histVars, expired>>
    BY <1>3 DEF AddNoThread
  <2>2. need' \in [Callers -> 0..2]
    BY <1>a, <2>1 DEF TypeOK
  <2>3. pc'[Listener] \in ListenerPC /\ \A w \in Workers : pc'[w] \in WorkerPC
    BY <1>a, <1>c, <2>1 DEF TypeOK, ThreadInv
  <2>4. TypeOK'
    BY <1>a, <1>b, <2>1, <2>2, <2>3 DEF TypeOK
  <2>5. ThreadInv'
    <3>1. pc' \in [Callers -> ListenerPC \cup WorkerPC]
      BY <1>a, <1>c, <2>1 DEF ThreadInv
    <3>2. \A w \in Workers : pc'[w] = "unborn" <=> w > born'
      BY <1>a, <1>c, <2>1 DEF ThreadInv
    <3>3. Running' = Running
      BY <1>a, <1>c, <2>1 DEF ThreadInv, Running
    <3> QED
      BY <1>a, <2>1, <3>1, <3>2, <3>3 DEF ThreadInv
  <2>6. CreateInv'
    BY <1>a, <1>c, <2>1 DEF CreateInv, ThreadInv, TypeOK
  <2> QED
    BY <2>4, <2>5, <2>6 DEF PoolInv
\* threads_ is what was read, and the new thread: both exist.
<1>4. CASE StoreThread(c)
  <2> DEFINE x == IF need[c] > 1 THEN "create" ELSE After(c)
  <2>1. /\ pc[c] = "store"
        /\ threads' = seen[c] \cup {created[c]}
        /\ created' = [created EXCEPT ![c] = 0]
        /\ seen' = [seen EXCEPT ![c] = {}]
        /\ need' = [need EXCEPT ![c] = need[c] - 1]
        /\ pc' = [pc EXCEPT ![c] = x]
        /\ UNCHANGED <<born, raced>>
        /\ UNCHANGED <<busy, job, queue, mutex, stopVars, histVars, expired>>
    BY <1>4 DEF StoreThread
  <2>2. need[c] \in 1..2 /\ created[c] \in 1..born /\ seen[c] \subseteq 1..born
    BY <1>a, <2>1 DEF TypeOK, CreateInv
  <2>3. x \in {"create", "push", "wait"}
    BY <1>c
  <2>4. x = "create" => need[c] > 1
    BY <1>c
  <2>5. pc'[Listener] \in ListenerPC /\ \A w \in Workers : pc'[w] \in WorkerPC
    BY <1>a, <1>c, <2>1 DEF TypeOK, ThreadInv
  <2> HIDE DEF x
  <2>6. TypeOK'
    <3>1. need' \in [Callers -> 0..2]
      BY <1>a, <2>1, <2>2 DEF TypeOK
    <3>2. /\ created' \in [Callers -> 0..MaxWorkers]
          /\ seen' \in [Callers -> SUBSET Workers]
      BY <1>a, <2>1 DEF TypeOK
    <3>3. threads' \subseteq 1..born'
      BY <2>1, <2>2
    <3> QED
      BY <1>a, <1>b, <2>1, <2>5, <3>1, <3>2, <3>3 DEF TypeOK
  <2>7. ThreadInv'
    <3>1. pc' \in [Callers -> ListenerPC \cup WorkerPC]
      BY <1>a, <2>1, <2>3 DEF ThreadInv, ListenerPC, WorkerPC
    <3>2. \A w \in Workers : pc'[w] = "unborn" <=> w > born'
      BY <1>a, <2>1, <2>3 DEF ThreadInv
    <3>3. Running' = Running
      BY <1>a, <2>1, <2>3 DEF ThreadInv, Running
    <3> QED
      BY <1>a, <2>1, <3>1, <3>2, <3>3 DEF ThreadInv
  <2>8. CreateInv'
    BY <1>a, <2>1, <2>2, <2>3, <2>4 DEF CreateInv, ThreadInv, TypeOK
  <2> QED
    BY <2>6, <2>7, <2>8 DEF PoolInv
<1> QED
  BY <1>1, <1>2, <1>3, <1>4 DEF PolicyStep

\* A closure is taken up and put down where the code says so.
LEMMA HandStep == PoolInv /\ HandInv /\ [Next]_vars => HandInv'
<1> SUFFICES ASSUME PoolInv, HandInv, [Next]_vars PROVE HandInv'
  OBVIOUS
<1>a. TypeOK /\ ThreadInv
  BY DEF PoolInv
<1>b. pc \in [Callers -> ListenerPC \cup WorkerPC]
      /\ job \in [Callers -> Jobs \cup {NoJob}]
  BY <1>a DEF TypeOK, ThreadInv
<1> USE CallerFacts DEF HandInv
<1>1. CASE Accept
  <2>1. accepted + 1 # NoJob
    BY <1>a DEF TypeOK, NoJob
  <2> QED
    BY <1>b, <1>1, <2>1 DEF Accept
<1>2. ASSUME NEW c \in Callers, PolicyStep(c)
      PROVE  HandInv'
  <2>1. After(Listener) = "push" /\ \A w \in Workers : After(w) = "wait"
    BY DEF After
  <2>2. CASE RunPolicy(c)
    BY <1>b, <2>1, <2>2 DEF RunPolicy
  <2>3. CASE AddThread(c)
    <3>1. born + 1 \in Workers /\ pc[born + 1] = "unborn" /\ c # born + 1
      BY <1>a, <2>3, ConstantsAssumption
         DEF AddThread, TypeOK, ThreadInv, Workers
    <3> QED
      BY <1>b, <2>3, <3>1 DEF AddThread
  <2>4. CASE AddNoThread(c)
    BY <1>b, <2>1, <2>4 DEF AddNoThread
  <2>5. CASE StoreThread(c)
    BY <1>b, <2>1, <2>5 DEF StoreThread
  <2> QED
    BY <1>2, <2>2, <2>3, <2>4, <2>5 DEF PolicyStep
<1>3. CASE Push
  BY <1>b, <1>3 DEF Push
<1>4. CASE NotifyOne
  BY <1>b, <1>4 DEF NotifyOne, Waiting
<1>5. ASSUME NEW w \in Workers, WaitTest(w) \/ Pop(w) \/ Wait(w)
      PROVE  HandInv'
  <2>1. CASE WaitTest(w)
    BY <1>b, <2>1 DEF WaitTest
  <2>2. CASE Pop(w)
    <3>1. queue # <<>> => Head(queue) \in Jobs
      BY <1>a, HeadTailProperties DEF TypeOK
    <3>2. NoJob \notin Jobs
      BY DEF NoJob, Jobs
    <3> QED
      BY <1>b, <2>2, <3>1, <3>2 DEF Pop
  <2>3. CASE Wait(w)
    BY <1>b, <2>3 DEF Wait
  <2> QED
    BY <1>5, <2>1, <2>2, <2>3
<1>6. ASSUME NEW w \in Workers, Begin(w)
      PROVE  HandInv'
  BY <1>b, <1>6 DEF Begin
<1>7. ASSUME NEW w \in Workers, Finish(w)
      PROVE  HandInv'
  BY <1>b, <1>7 DEF Finish
<1>8. CASE ShutdownNotify
  BY <1>b, <1>8 DEF ShutdownNotify, Waiting
<1>9. ASSUME UNCHANGED <<pc, job>>
      PROVE  HandInv'
  BY <1>9
<1>10. ASSUME Stop \/ ShutdownFlag \/ Stopped \/ UNCHANGED vars
              \/ \E w \in Workers : Join(w) \/ Detach(w)
       PROVE  UNCHANGED <<pc, job>>
  BY <1>10 DEF Stop, ShutdownFlag, Stopped, vars, Join, Detach
<1> QED
  BY <1>1, <1>2, <1>3, <1>4, <1>5, <1>6, <1>7, <1>8, <1>9, <1>10
     DEF Next, ListenerStep, WorkerStep, StopStep

\* Every action keeps the types and the count of busy threads.
LEMMA PoolStep == PoolInv /\ HandInv /\ [Next]_vars => PoolInv'
<1> SUFFICES ASSUME PoolInv, HandInv, [Next]_vars PROVE PoolInv'
  OBVIOUS
<1>a. TypeOK /\ ThreadInv /\ CreateInv
  BY DEF PoolInv
<1>b. ASSUME TypeOK', ThreadInv' /\ CreateInv' PROVE PoolInv'
  BY <1>b DEF PoolInv
<1>c. pc \in [Callers -> ListenerPC \cup WorkerPC]
  BY <1>a DEF ThreadInv
<1> USE ConstantsAssumption, CallerFacts
        DEF poolVars, stopVars, histVars
<1>1. CASE Accept
  <2>1. TypeOK'
    <3>1. accepted' \in 0..MaxJobs /\ accepted + 1 \in Jobs
      BY <1>a, <1>1 DEF Accept, TypeOK, Jobs
    <3>2. job' \in [Callers -> Jobs \cup {NoJob}]
      BY <1>a, <1>1, <3>1 DEF Accept, TypeOK
    <3>3. pc'[Listener] \in ListenerPC /\ \A w \in Workers : pc'[w] \in WorkerPC
      BY <1>a, <1>c, <1>1 DEF Accept, TypeOK, ListenerPC
    <3> QED
      BY <1>a, <1>1, <3>1, <3>2, <3>3 DEF Accept, TypeOK
  <2> QED
    BY <1>a, <1>b, <1>1, <2>1, MoveFacts DEF Accept
<1>2. CASE ListenerStep
  <2>1. CASE Push
    <3>1. queue' \in Seq(Jobs)
      <4>1. job[Listener] \in Jobs
        BY <1>a, <2>1 DEF Push, TypeOK, HandInv
      <4> QED
        BY <1>a, <2>1, <4>1, AppendProperties DEF Push, TypeOK
    <3>2. job' \in [Callers -> Jobs \cup {NoJob}]
      BY <1>a, <2>1 DEF Push, TypeOK
    <3>3. pc'[Listener] \in ListenerPC /\ \A w \in Workers : pc'[w] \in WorkerPC
      BY <1>a, <1>c, <2>1 DEF Push, TypeOK, ListenerPC
    <3>4. UNCHANGED <<poolVars, busy, mutex, stopVars, histVars, raced, expired>>
      BY <2>1 DEF Push
    <3>5. TypeOK'
      BY <1>a, <3>1, <3>2, <3>3, <3>4 DEF TypeOK
    <3> QED
      BY <1>a, <1>b, <2>1, <3>5, MoveFacts DEF Push
  <2>2. CASE NotifyOne
    <3>1. UNCHANGED <<poolVars, busy, job, queue, mutex, stopVars, histVars,
                      raced, expired>>
      BY <2>2 DEF NotifyOne
    <3>2. CASE pc' = [pc EXCEPT ![Listener] = "accept"]
      <4>1. pc'[Listener] \in ListenerPC /\ \A w \in Workers : pc'[w] \in WorkerPC
        BY <1>a, <1>c, <3>2 DEF TypeOK, ListenerPC
      <4>2. TypeOK'
        BY <1>a, <3>1, <4>1 DEF TypeOK
      <4> QED
        BY <1>a, <1>b, <2>2, <3>1, <3>2, <4>2, MoveFacts DEF NotifyOne
    <3>3. ASSUME NEW w \in Waiting,
                 pc' = [pc EXCEPT ![Listener] = "accept", ![w] = "woken"]
          PROVE  PoolInv'
      <4>1. w \in Workers /\ pc[w] = "waiting" /\ pc[Listener] = "notify"
        BY <2>2 DEF Waiting, NotifyOne
      <4>2. pc'[Listener] \in ListenerPC /\ \A u \in Workers : pc'[u] \in WorkerPC
        BY <1>a, <1>c, <3>3, <4>1 DEF TypeOK, ListenerPC, WorkerPC
      <4>3. TypeOK'
        BY <1>a, <3>1, <4>2 DEF TypeOK
      <4>4. pc' \in [Callers -> ListenerPC \cup WorkerPC]
        BY <1>c, <3>3, <4>1 DEF ListenerPC, WorkerPC
      <4>5. \A u \in Workers : pc'[u] = "unborn" <=> u > born'
        BY <1>a, <1>c, <3>1, <3>3, <4>1 DEF ThreadInv
      <4>6. Running' = Running
        BY <1>c, <3>3, <4>1 DEF Running
      <4>7. ThreadInv'
        BY <1>a, <3>1, <4>4, <4>5, <4>6 DEF ThreadInv
      <4>8. CreateInv'
        BY <1>a, <1>c, <3>1, <3>3, <4>1 DEF CreateInv
      <4> QED
        BY <1>b, <4>3, <4>7, <4>8
    <3> QED
      BY <2>2, <3>2, <3>3 DEF NotifyOne
  <2> QED
    BY <1>2, <2>1, <2>2, PolicyFacts DEF ListenerStep
<1>3. ASSUME NEW w \in Workers, WorkerStep(w)
      PROVE  PoolInv'
  <2>1. CASE WaitTest(w)
    <3>1. pc'[Listener] \in ListenerPC /\ \A u \in Workers : pc'[u] \in WorkerPC
      BY <1>a, <1>c, <2>1 DEF WaitTest, TypeOK, WorkerPC
    <3>2. TypeOK'
      BY <1>a, <2>1, <3>1 DEF WaitTest, TypeOK
    <3> QED
      BY <1>a, <1>b, <2>1, <3>2, MoveFacts DEF WaitTest
  <2>2. CASE Pop(w)
    <3>1. queue # <<>> => Head(queue) \in Jobs /\ Tail(queue) \in Seq(Jobs)
      BY <1>a, HeadTailProperties DEF TypeOK
    <3>2. PICK x \in {"gone", "tested", "popped"} : pc' = [pc EXCEPT ![w] = x]
      BY <2>2 DEF Pop
    <3>3. /\ job' \in [Callers -> Jobs \cup {NoJob}]
          /\ queue' \in Seq(Jobs)
          /\ mutex' \in Workers \cup {NoOne}
      <4>1. \/ UNCHANGED <<job, queue>>
            \/ /\ queue # <<>> /\ queue' = Tail(queue)
               /\ job' = [job EXCEPT ![w] = Head(queue)]
        BY <2>2 DEF Pop
      <4>2. queue \in Seq(Jobs) /\ job \in [Callers -> Jobs \cup {NoJob}]
        BY <1>a DEF TypeOK
      <4>3. mutex' \in Workers \cup {NoOne}
        BY <1>a, <2>2 DEF Pop, TypeOK
      <4>4. queue' \in Seq(Jobs)
        BY <3>1, <4>1, <4>2
      <4>5. job' \in [Callers -> Jobs \cup {NoJob}]
        BY <3>1, <4>1, <4>2
      <4> QED
        BY <4>3, <4>4, <4>5
    <3>4. pc'[Listener] \in ListenerPC /\ \A u \in Workers : pc'[u] \in WorkerPC
      BY <1>a, <1>c, <3>2 DEF TypeOK, WorkerPC
    <3>5. UNCHANGED <<poolVars, busy, stopVars, histVars, raced, expired>>
          /\ pc[w] = "woken"
      BY <2>2 DEF Pop
    <3>6. TypeOK'
      BY <1>a, <3>3, <3>4, <3>5 DEF TypeOK
    <3> QED
      BY <1>a, <1>b, <3>2, <3>5, <3>6, MoveFacts
  <2>3. CASE Wait(w)
    <3>1. pc'[Listener] \in ListenerPC /\ \A u \in Workers : pc'[u] \in WorkerPC
      BY <1>a, <1>c, <2>3 DEF Wait, TypeOK, WorkerPC
    <3>2. TypeOK'
      BY <1>a, <2>3, <3>1 DEF Wait, TypeOK
    <3> QED
      BY <1>a, <1>b, <2>3, <3>2, MoveFacts DEF Wait
  <2>4. CASE Begin(w) \/ Finish(w)
    <3>1. pc'[Listener] \in ListenerPC /\ \A u \in Workers : pc'[u] \in WorkerPC
      BY <1>a, <1>c, <2>4 DEF Begin, Finish, TypeOK, WorkerPC
    <3>2. pc' \in [Callers -> ListenerPC \cup WorkerPC]
      BY <1>c, <2>4 DEF Begin, Finish, ListenerPC, WorkerPC
    <3>3. /\ \A u \in Workers : pc'[u] = "unborn" <=> u > born'
          /\ UNCHANGED <<poolVars, queue, mutex, stopVars, accepted, raced,
                         expired>>
      BY <1>a, <1>c, <2>4 DEF Begin, Finish, ThreadInv
    <3>4. Running \subseteq Workers /\ Running' \subseteq Workers
      BY DEF Running
    <3>5. busy' = Cardinality(Running')
      <4>1. CASE Begin(w)
        <5>1. Running' = Running \cup {w} /\ w \notin Running
          BY <1>c, <4>1 DEF Begin, Running
        <5> QED
          BY <1>a, <3>4, <4>1, <5>1, CountFacts DEF Begin, ThreadInv
      <4>2. CASE Finish(w)
        <5>1. Running' = Running \ {w} /\ w \in Running
          BY <1>c, <4>2 DEF Finish, Running
        <5> QED
          BY <1>a, <3>4, <4>2, <5>1, CountFacts DEF Finish, ThreadInv
      <4> QED
        BY <2>4, <4>1, <4>2
    <3>6. busy' \in 0..born'
      <4>1. born' \in 0..MaxWorkers
        BY <1>a, <3>3 DEF TypeOK
      <4>2. ASSUME NEW u \in Running' PROVE u \in 1..born'
        <5>1. u \in Workers /\ pc'[u] # "unborn"
          BY DEF Running
        <5> QED
          BY <3>3, <4>1, <5>1
      <4>3. Cardinality(Running') <= born' /\ Cardinality(Running') \in Nat
        BY <3>4, <4>1, <4>2, CountFacts
      <4> QED
        BY <3>5, <4>1, <4>3
    <3>7. /\ job' \in [Callers -> Jobs \cup {NoJob}]
          /\ done' \in [Jobs -> Nat]
      BY <1>a, <2>4 DEF Begin, Finish, TypeOK
    <3>8. TypeOK'
      BY <1>a, <3>1, <3>3, <3>6, <3>7 DEF TypeOK
    <3>9. CreateInv'
      BY <1>a, <1>c, <2>4 DEF Begin, Finish, CreateInv
    <3> QED
      BY <1>b, <3>2, <3>3, <3>5, <3>8, <3>9 DEF ThreadInv
  <2> QED
    BY <1>3, <2>1, <2>2, <2>3, <2>4, PolicyFacts DEF WorkerStep
<1>4. CASE ShutdownNotify
  <2>1. pc'[Listener] \in ListenerPC /\ \A u \in Workers : pc'[u] \in WorkerPC
    BY <1>a, <1>4 DEF ShutdownNotify, Waiting, TypeOK, WorkerPC
  <2>2. TypeOK'
    BY <1>a, <1>4, <2>1 DEF ShutdownNotify, TypeOK
  <2>3. pc' \in [Callers -> ListenerPC \cup WorkerPC]
    BY <1>c, <1>4 DEF ShutdownNotify, ListenerPC, WorkerPC
  <2>4. \A u \in Workers : pc'[u] = "unborn" <=> u > born'
    BY <1>a, <1>4 DEF ShutdownNotify, Waiting, ThreadInv
  <2>5. Running' = Running
    BY <1>4 DEF ShutdownNotify, Waiting, Running
  <2>6. ThreadInv'
    BY <1>a, <1>4, <2>3, <2>4, <2>5 DEF ShutdownNotify, ThreadInv
  <2>7. CreateInv'
    BY <1>a, <1>4 DEF ShutdownNotify, Waiting, CreateInv
  <2> QED
    BY <1>b, <2>2, <2>6, <2>7
<1>5. CASE Stop \/ ShutdownFlag \/ (\E w \in Workers : Join(w) \/ Detach(w))
           \/ Stopped \/ UNCHANGED vars
  <2>1. TypeOK'
    BY <1>a, <1>5 DEF Stop, ShutdownFlag, Join, Detach, Stopped, vars, TypeOK
  <2>2. UNCHANGED <<pc, need, created, seen, born, busy>>
    BY <1>5 DEF Stop, ShutdownFlag, Join, Detach, Stopped, vars
  <2> QED
    BY <1>a, <1>b, <2>1, <2>2, RestFacts
<1> QED
  BY <1>1, <1>2, <1>3, <1>4, <1>5 DEF Next, StopStep

\* Nobody has a closure before the first connection.
LEMMA HandInit == Init => HandInv
  BY CallerFacts DEF Init, HandInv

\* The type invariant of ThreadPool holds in every reachable state.
THEOREM TypeCorrect == Spec => []TypeOK
<1>1. PoolInv /\ HandInv /\ [Next]_vars => PoolInv' /\ HandInv'
  BY PoolStep, HandStep
<1>2. PoolInv => TypeOK
  BY DEF PoolInv
<1> QED
  BY PoolInit, HandInit, <1>1, <1>2, PTL DEF Spec

\* Accept, Push, WaitAndPop and the end of a closure move one closure from one
\* place to the next; no other step touches one.
LEMMA JobStep ==
    PoolInv /\ HandInv /\ JobInv /\ [Next]_vars => JobInv'
<1> SUFFICES ASSUME PoolInv, HandInv, JobInv, [Next]_vars PROVE JobInv'
  OBVIOUS
<1>a. /\ job \in [Callers -> Jobs \cup {NoJob}]
      /\ queue \in Seq(Jobs) /\ Len(queue) \in Nat
      /\ accepted \in 0..MaxJobs /\ done \in [Jobs -> Nat]
  BY LenProperties DEF PoolInv, TypeOK
<1>b. Jobs = 1..MaxJobs /\ NoJob = 0 /\ NoJob \notin Jobs /\ MaxJobs \in Nat
  BY ConstantsAssumption DEF Jobs, NoJob
<1> USE CallerFacts
<1>1. ASSUME UNCHANGED <<job, queue, done, accepted>> PROVE JobInv'
  BY <1>1 DEF JobInv, Held, Queued
<1>2. CASE Accept
  <2> DEFINE j0 == accepted + 1
  <2>1. /\ job' = [job EXCEPT ![Listener] = j0] /\ accepted' = j0
        /\ UNCHANGED <<queue, done>> /\ job[Listener] = NoJob
        /\ j0 \in Jobs /\ accepted \in Nat
    BY <1>a, <1>b, <1>2 DEF Accept, HandInv, histVars
  <2>2. ~ Held(j0) /\ ~ Queued(j0) /\ done[j0] = 0
    BY <2>1 DEF JobInv
  <2>3. \A j \in Jobs : Held(j)' <=> Held(j) \/ j = j0
    BY <1>a, <1>b, <2>1 DEF Held
  <2>4. \A j \in Jobs : Queued(j)' <=> Queued(j)
    BY <2>1 DEF Queued
  <2>5. \A c, d \in Callers : job'[c] = job'[d] /\ job'[c] # NoJob => c = d
    BY <1>a, <2>1, <2>2 DEF JobInv, Held
  <2>6. \A j \in Jobs : j <= accepted' <=> j <= accepted \/ j = j0
    BY <1>b, <2>1
  <2> HIDE DEF j0
  <2> QED
    BY <2>1, <2>2, <2>3, <2>4, <2>5, <2>6 DEF JobInv
<1>3. CASE Push
  <2> DEFINE j0 == job[Listener]
  <2>1. /\ job' = [job EXCEPT ![Listener] = NoJob]
        /\ queue' = Append(queue, j0)
        /\ UNCHANGED <<done, accepted>> /\ j0 \in Jobs
    BY <1>a, <1>3 DEF Push, HandInv, histVars
  <2>2. /\ Len(queue') = Len(queue) + 1
        /\ \A i \in 1..Len(queue) : queue'[i] = queue[i]
        /\ queue'[Len(queue) + 1] = j0
    BY <1>a, <2>1, AppendProperties
  <2>3. Held(j0)
    BY DEF Held
  <2>4. \A j \in Jobs : Held(j)' <=> Held(j) /\ j # j0
    BY <1>a, <1>b, <2>1 DEF Held, JobInv
  <2>5. \A j \in Jobs : Queued(j)' <=> Queued(j) \/ j = j0
    <3>1. 1..Len(queue') = 1..Len(queue) \cup {Len(queue) + 1}
      BY <1>a, <2>2
    <3> HIDE DEF j0
    <3> QED
      BY <2>2, <3>1 DEF Queued
  <2>6. \A c, d \in Callers : job'[c] = job'[d] /\ job'[c] # NoJob => c = d
    BY <1>a, <2>1 DEF JobInv
  <2>7. \A i, k \in 1..Len(queue') : queue'[i] = queue'[k] => i = k
    <3>1. \A i \in 1..Len(queue) : queue[i] # j0
      BY <2>1, <2>3 DEF JobInv, Queued
    <3>2. \A i \in 1..Len(queue') : i \in 1..Len(queue) \/ i = Len(queue) + 1
      BY <1>a, <2>2
    <3> QED
      BY <2>2, <3>1, <3>2 DEF JobInv
  <2> HIDE DEF j0
  <2> QED
    BY <2>1, <2>3, <2>4, <2>5, <2>6, <2>7 DEF JobInv
<1>4. ASSUME NEW w \in Workers, Pop(w)
      PROVE  JobInv'
  <2>1. CASE UNCHANGED <<job, queue>>
    BY <1>1, <1>4, <2>1 DEF Pop, histVars
  <2>2. CASE queue # <<>> /\ job' = [job EXCEPT ![w] = Head(queue)]
             /\ queue' = Tail(queue)
    <3> DEFINE j0 == Head(queue)
    <3>1. /\ UNCHANGED <<done, accepted>> /\ job[w] = NoJob
      BY <1>4 DEF Pop, HandInv, histVars
    <3>2. /\ j0 \in Jobs /\ Len(queue') = Len(queue) - 1
          /\ \A i \in 1..Len(queue') : queue'[i] = queue[i + 1]
          /\ 1 \in 1..Len(queue) /\ queue[1] = j0
      BY <1>a, <2>2, HeadTailProperties, EmptySeq
    <3>3. Queued(j0)
      BY <3>2 DEF Queued
    <3>4. ~ Held(j0)
      BY <3>2, <3>3 DEF JobInv
    <3>5. \A j \in Jobs : Held(j)' <=> Held(j) \/ j = j0
      BY <1>a, <1>b, <2>2, <3>1 DEF Held
    <3>6. ASSUME NEW j \in Jobs
          PROVE  Queued(j)' <=> Queued(j) /\ j # j0
      <4>1. \A i \in 1..Len(queue') : i + 1 \in 1..Len(queue) /\ i + 1 # 1
        BY <1>a, <3>2
      <4>2. \A i \in 1..Len(queue) : i # 1 =>
                i - 1 \in 1..Len(queue') /\ (i - 1) + 1 = i
        BY <1>a, <3>2
      <4>3. Queued(j)' => Queued(j) /\ j # j0
        BY <3>2, <4>1 DEF Queued, JobInv
      <4>4. Queued(j) /\ j # j0 => Queued(j)'
        BY <3>2, <4>2 DEF Queued
      <4> QED
        BY <4>3, <4>4
    <3>7. \A c, d \in Callers : job'[c] = job'[d] /\ job'[c] # NoJob => c = d
      BY <1>a, <2>2, <3>4 DEF JobInv, Held
    <3>8. \A i, k \in 1..Len(queue') : queue'[i] = queue'[k] => i = k
      <4>1. \A i \in 1..Len(queue') : i + 1 \in 1..Len(queue) /\ i \in Nat
        BY <1>a, <3>2
      <4>2. \A i, k \in 1..Len(queue') : queue[i + 1] = queue[k + 1] => i + 1 = k + 1
        BY <4>1 DEF JobInv
      <4>3. \A i, k \in 1..Len(queue') : i + 1 = k + 1 => i = k
        OBVIOUS
      <4> QED
        BY <3>2, <4>2, <4>3
    <3> HIDE DEF j0
    <3> QED
      BY <3>1, <3>2, <3>3, <3>4, <3>5, <3>6, <3>7, <3>8 DEF JobInv
  <2> QED
    BY <1>4, <2>1, <2>2 DEF Pop
<1>5. ASSUME NEW w \in Workers, Finish(w)
      PROVE  JobInv'
  <2> DEFINE j0 == job[w]
  <2>1. /\ job' = [job EXCEPT ![w] = NoJob]
        /\ done' = [done EXCEPT ![j0] = @ + 1]
        /\ UNCHANGED <<queue, accepted>> /\ j0 \in Jobs
    BY <1>a, <1>5 DEF Finish, HandInv
  <2>2. Held(j0) /\ done[j0] = 0
    BY <2>1 DEF Held, JobInv
  <2>3. \A j \in Jobs : done'[j] = IF j = j0 THEN 1 ELSE done[j]
    BY <1>a, <2>1, <2>2
  <2>4. \A j \in Jobs : Held(j)' <=> Held(j) /\ j # j0
    BY <1>a, <1>b, <2>1 DEF Held, JobInv
  <2>5. \A j \in Jobs : Queued(j)' <=> Queued(j)
    BY <2>1 DEF Queued
  <2>6. \A c, d \in Callers : job'[c] = job'[d] /\ job'[c] # NoJob => c = d
    BY <1>a, <2>1 DEF JobInv
  <2> HIDE DEF j0
  <2> QED
    BY <2>1, <2>2, <2>3, <2>4, <2>5, <2>6 DEF JobInv
<1>6. ASSUME NEW c \in Callers, PolicyStep(c) PROVE JobInv'
  BY <1>1, <1>6 DEF PolicyStep, RunPolicy, AddThread, AddNoThread, StoreThread,
                    histVars
<1>7. CASE NotifyOne
  BY <1>1, <1>7 DEF NotifyOne, histVars
<1>8. ASSUME NEW w \in Workers, WaitTest(w) \/ Wait(w) \/ Begin(w)
      PROVE  JobInv'
  BY <1>1, <1>8 DEF WaitTest, Wait, Begin, histVars
<1>9. CASE Stop \/ StopStep \/ UNCHANGED vars
  BY <1>1, <1>9 DEF Stop, StopStep, ShutdownFlag, ShutdownNotify, Join, Detach,
                    Stopped, vars, histVars
<1> QED
  BY <1>2, <1>3, <1>4, <1>5, <1>6, <1>7, <1>8, <1>9
     DEF Next, ListenerStep, WorkerStep

\* Being in one place at most, and accepted, a closure is in one place.
LEMMA OnePlace == PoolInv /\ JobInv => EachJobOnce
<1> SUFFICES ASSUME PoolInv, JobInv, NEW j \in 1..accepted
             PROVE  Places(j) = 1
  BY DEF EachJobOnce
<1>1. j \in Jobs /\ j <= accepted /\ NoJob \notin Jobs
  BY ConstantsAssumption DEF PoolInv, TypeOK, Jobs, NoJob
<1> DEFINE H == {c \in Callers : job[c] = j}
           Q == {i \in 1..Len(queue) : queue[i] = j}
<1>2. /\ ~ Held(j) => Cardinality(H) = 0
      /\ Held(j) => Cardinality(H) = 1
  <2>1. ~ Held(j) => H = {}
    BY DEF Held
  <2>2. ASSUME Held(j) PROVE \E c : H = {c}
    BY <1>1, <2>2 DEF Held, JobInv
  <2> HIDE DEF H
  <2> QED
    BY <2>1, <2>2, FS_EmptySet, FS_Singleton
<1>3. /\ ~ Queued(j) => Cardinality(Q) = 0
      /\ Queued(j) => Cardinality(Q) = 1
  <2>1. ~ Queued(j) => Q = {}
    BY DEF Queued
  <2>2. ASSUME Queued(j) PROVE \E i : Q = {i}
    <3>1. PICK i \in 1..Len(queue) : queue[i] = j
      BY <2>2 DEF Queued
    <3>2. \A k \in 1..Len(queue) : queue[k] = j => k = i
      BY <3>1 DEF JobInv
    <3>3. Q = {i}
      BY <3>1, <3>2
    <3> QED
      BY <3>3
  <2> HIDE DEF Q
  <2> QED
    BY <2>1, <2>2, FS_EmptySet, FS_Singleton
<1>4. Places(j) = Cardinality(H) + Cardinality(Q) + done[j]
  BY DEF Places
<1>5. \/ Held(j) /\ ~ Queued(j) /\ done[j] = 0
      \/ ~ Held(j) /\ Queued(j) /\ done[j] = 0
      \/ ~ Held(j) /\ ~ Queued(j) /\ done[j] = 1
  BY <1>1 DEF JobInv
<1> HIDE DEF H, Q
<1> QED
  BY <1>2, <1>3, <1>4, <1>5

\* No closure is lost and none is run twice, however Add, WaitAndPop, Shutdown
\* and the growing of the pool interleave (EachJobOnce).
THEOREM NoClosureLost == Spec => []EachJobOnce
<1>1. Init => JobInv
  <2> SUFFICES ASSUME Init PROVE JobInv
    OBVIOUS
  <2>1. queue = <<>> /\ Len(queue) = 0 /\ accepted = 0
        /\ (\A c \in Callers : job[c] = NoJob) /\ \A j \in Jobs : done[j] = 0
    BY DEF Init
  <2>2. NoJob = 0 /\ \A j \in Jobs : j # NoJob /\ ~ (j <= 0)
    BY ConstantsAssumption DEF Jobs, NoJob
  <2> QED
    BY <2>1, <2>2 DEF JobInv, Held, Queued
<1>2. PoolInv /\ HandInv /\ JobInv /\ [Next]_vars
         => PoolInv' /\ HandInv' /\ JobInv'
  BY PoolStep, HandStep, JobStep
<1> QED
  BY PoolInit, HandInit, OnePlace, <1>1, <1>2, PTL DEF Spec

\* The listen thread rests once the server is being stopped, and a thread that
\* has ended stays so.
LEMMA StopStepInv == PoolInv /\ StopInv /\ [Next]_vars => StopInv'
<1> SUFFICES ASSUME PoolInv, StopInv, [Next]_vars PROVE StopInv'
  OBVIOUS
<1>a. /\ pc \in [Callers -> ListenerPC \cup WorkerPC]
      /\ join \subseteq Workers /\ born \in 0..MaxWorkers
      /\ \A w \in Workers : pc[w] = "unborn" <=> w > born
  BY DEF PoolInv, TypeOK, ThreadInv
<1> USE CallerFacts DEF StopInv, stopVars
<1>1. CASE Accept
  BY <1>a, <1>1 DEF Accept
<1>2. ASSUME NEW c \in Callers, PolicyStep(c) PROVE StopInv'
  <2>1. pc[c] \in {"policy", "create", "store"} /\ UNCHANGED <<stopVars, expired>>
    BY <1>2 DEF PolicyStep, RunPolicy, AddThread, AddNoThread, StoreThread
  <2>2. c = Listener => spc = "run"
    BY <2>1
  <2>3. ASSUME NEW w \in Workers, pc[w] = "gone"
        PROVE  pc'[w] = "gone"
    <3>1. w # c
      BY <2>1, <2>3
    <3>2. CASE AddThread(c)
      <4>1. w # born + 1
        BY <1>a, <2>3
      <4> QED
        BY <1>a, <2>3, <3>1, <3>2, <4>1 DEF AddThread
    <3>3. CASE ~ AddThread(c)
      BY <1>2, <1>a, <2>3, <3>1, <3>3
         DEF PolicyStep, RunPolicy, AddNoThread, StoreThread
    <3> QED
      BY <3>2, <3>3
  <2>4. c # Listener => pc'[Listener] = pc[Listener]
    <3>1. born + 1 # Listener
      BY <1>a
    <3> QED
      BY <1>2, <1>a, <3>1
         DEF PolicyStep, RunPolicy, AddThread, AddNoThread, StoreThread
  <2> QED
    BY <1>a, <2>1, <2>2, <2>3, <2>4
<1>3. CASE Push \/ NotifyOne
  BY <1>a, <1>3 DEF Push, NotifyOne, Waiting
<1>4. ASSUME NEW w \in Workers,
             WaitTest(w) \/ Pop(w) \/ Wait(w) \/ Begin(w) \/ Finish(w)
      PROVE  StopInv'
  <2>1. /\ pc[w] # "gone" /\ UNCHANGED <<stopVars, expired>>
        /\ \A c \in Callers \ {w} : pc'[c] = pc[c]
    BY <1>4, <1>a DEF WaitTest, Pop, Wait, Begin, Finish
  <2> QED
    BY <1>a, <2>1
<1>5. CASE Stop \/ ShutdownFlag \/ Stopped \/ UNCHANGED vars
  BY <1>5 DEF Stop, ShutdownFlag, Stopped, vars
<1>6. CASE ShutdownNotify
  BY <1>a, <1>6 DEF ShutdownNotify, Waiting
<1>7. ASSUME NEW w \in Workers, Join(w) \/ Detach(w) PROVE StopInv'
  BY <1>7 DEF Join, Detach
<1> QED
  BY <1>1, <1>2, <1>3, <1>4, <1>5, <1>6, <1>7
     DEF Next, ListenerStep, WorkerStep, StopStep

\* One caller at a time in RunPolicy: it sees all the threads there are, and
\* creates no more than fit into the pool.
LEMMA RaceStep ==
    PoolInv /\ StopInv /\ RaceInv /\ [Next]_vars => RaceInv'
<1> SUFFICES ASSUME PoolInv, StopInv, RaceInv, [Next]_vars, ~ raced' PROVE RaceInv'
  BY DEF RaceInv
<1>a. TypeOK /\ ThreadInv /\ CreateInv
  BY DEF PoolInv
<1>b. /\ pc \in [Callers -> ListenerPC \cup WorkerPC]
      /\ need \in [Callers -> 0..2] /\ created \in [Callers -> 0..MaxWorkers]
      /\ seen \in [Callers -> SUBSET Workers]
      /\ born \in 0..MaxWorkers /\ born \in Nat /\ busy \in Nat /\ MaxSize \in Nat
  BY <1>a, ConstantsAssumption DEF TypeOK, ThreadInv
<1> USE CallerFacts
\* What matters of RaceInv to a step that leaves RunPolicy's variables alone.
<1>c. ASSUME ~ raced, UNCHANGED <<need, created, seen, born>>,
             \A c \in Callers : pc'[c] \in {"create", "store"} => pc'[c] = pc[c],
             spc' # "stopped" => spc # "stopped" /\ UNCHANGED threads
                     /\ \A c \in Callers : pc[c] = "store" => pc'[c] = "store"
      PROVE  RaceInv'
  <2>1. InPolicy' \subseteq InPolicy
    BY <1>c DEF InPolicy
  <2> QED
    BY <1>c, <2>1 DEF RaceInv
<1>d. ASSUME NEW c \in Callers, PolicyStep(c) PROVE ~ raced
  BY <1>d DEF PolicyStep, RunPolicy, AddThread, AddNoThread, StoreThread
<1>1. ASSUME NEW c \in Callers, PolicyStep(c), spc # "stopped"
      PROVE  RaceInv'
  <2>a. ~ raced /\ UNCHANGED spc
    BY <1>d, <1>1 DEF PolicyStep, RunPolicy, AddThread, AddNoThread,
                      StoreThread, stopVars
  <2>b. After(c) \in {"push", "wait"}
    BY DEF After
  <2>1. CASE RunPolicy(c)
    <3> DEFINE n == Wanted(Cardinality(threads), busy)
    <3>1. InPolicy = {}
      BY <2>1 DEF RunPolicy
    <3>2. \A d \in Callers : pc[d] \notin {"create", "store"}
      BY <3>1 DEF InPolicy
    <3>3. threads = 1..born
      BY <1>1, <2>a, <3>2 DEF RaceInv
    <3>4. Cardinality(threads) = born
      <4>1. 1 \in Int /\ born \in Int
        BY <1>b
      <4>2. Cardinality(1..born) = IF 1 > born THEN 0 ELSE born - 1 + 1
        BY <4>1, FS_Interval
      <4> QED
        BY <1>b, <3>3, <4>2
    <3>5. n \in 0..2 /\ (n > 0 => born + n <= MaxSize)
      BY <1>b, <3>4, WantedFacts
    <3>6. /\ need' = [need EXCEPT ![c] = n]
          /\ pc' = [pc EXCEPT ![c] = IF n > 0 THEN "create" ELSE After(c)]
          /\ UNCHANGED <<created, seen, threads, born>>
      BY <2>1 DEF RunPolicy
    <3> HIDE DEF n
    <3>7. \A d \in Callers : /\ pc'[d] # "store"
                             /\ pc'[d] = "create" => d = c /\ n > 0 /\ need'[d] = n
      BY <1>b, <2>b, <3>2, <3>6
    <3>8. \A d, e \in InPolicy' : d = e
      BY <3>7 DEF InPolicy
    <3>9. born <= MaxSize
      BY <2>a DEF RaceInv
    <3> QED
      BY <3>3, <3>5, <3>6, <3>7, <3>8, <3>9 DEF RaceInv
  <2>2. CASE AddThread(c)
    <3>1. /\ pc[c] = "create"
          /\ born < MaxWorkers
          /\ born' = born + 1
          /\ created' = [created EXCEPT ![c] = born + 1]
          /\ seen' = [seen EXCEPT ![c] = threads]
          /\ pc' = [pc EXCEPT ![c] = "store", ![born + 1] = "policy"]
          /\ UNCHANGED <<need, threads>>
      BY <2>2 DEF AddThread
    <3>2. born + 1 \in Workers /\ c # born + 1 /\ need[c] > 0
      <4>1. born + 1 \in Workers
        BY <1>b, <3>1, ConstantsAssumption DEF Workers
      <4>2. pc[born + 1] = "unborn"
        BY <1>a, <1>b, <4>1 DEF ThreadInv
      <4>3. need[c] > 0
        BY <1>a, <3>1 DEF CreateInv
      <4> QED
        BY <3>1, <4>1, <4>2, <4>3
    <3>3. \A d \in Callers : d # c => pc[d] \notin {"create", "store"}
      BY <2>a, <3>1 DEF RaceInv, InPolicy
    <3>4. threads = 1..born /\ born + need[c] <= MaxSize
      BY <1>1, <2>a, <3>1, <3>3 DEF RaceInv
    <3>5. /\ pc'[c] = "store" /\ created'[c] = born + 1 /\ seen'[c] = 1..born
          /\ need'[c] = need[c]
          /\ \A d \in Callers : d # c => pc'[d] \notin {"create", "store"}
      BY <1>b, <3>1, <3>2, <3>3, <3>4
    <3>6. \A d, e \in InPolicy' : d = e
      BY <3>5 DEF InPolicy
    <3>7. born' - 1 = born /\ born' <= MaxSize /\ born' + need'[c] <= MaxSize + 1
      BY <1>b, <3>1, <3>2, <3>4, <3>5
    <3>8. \A d \in Callers : pc'[d] = "store" =>
              /\ born' + need'[d] <= MaxSize + 1
              /\ created'[d] = born' /\ seen'[d] = 1..(born' - 1)
              /\ threads' = 1..(born' - 1)
      BY <3>1, <3>4, <3>5, <3>7
    <3> QED
      BY <3>5, <3>6, <3>7, <3>8 DEF RaceInv
  <2>3. CASE AddNoThread(c)
    <3>1. /\ pc[c] = "create" /\ pc' = [pc EXCEPT ![c] = After(c)]
          /\ need' = [need EXCEPT ![c] = 0]
          /\ UNCHANGED <<created, seen, threads, born>>
      BY <2>3 DEF AddNoThread
    <3>2. \A d \in Callers : d # c => pc[d] \notin {"create", "store"}
      BY <2>a, <3>1 DEF RaceInv, InPolicy
    <3>3. \A d \in Callers : pc'[d] \notin {"create", "store"}
      BY <1>b, <2>b, <3>1, <3>2
    <3>4. threads = 1..born /\ born <= MaxSize
      BY <1>1, <2>a, <3>1, <3>2 DEF RaceInv
    <3>5. InPolicy' = {}
      BY <3>3 DEF InPolicy
    <3> QED
      BY <3>1, <3>3, <3>4, <3>5 DEF RaceInv
  <2>4. CASE StoreThread(c)
    <3>1. /\ pc[c] = "store" /\ threads' = seen[c] \cup {created[c]}
          /\ need' = [need EXCEPT ![c] = need[c] - 1]
          /\ pc' = [pc EXCEPT ![c] = IF need[c] > 1 THEN "create" ELSE After(c)]
          /\ UNCHANGED born
      BY <2>4 DEF StoreThread
    <3>2. /\ created[c] = born /\ seen[c] = 1..(born - 1) /\ born <= MaxSize
          /\ born + need[c] <= MaxSize + 1
          /\ \A d \in Callers : d # c => pc[d] \notin {"create", "store"}
      BY <2>a, <3>1 DEF RaceInv, InPolicy
    <3>3. need[c] \in 1..2 /\ born \in 1..born
      BY <1>a, <1>b, <3>1, <3>2 DEF CreateInv
    <3>4. threads' = 1..born
      <4>1. threads' = 1..(born - 1) \cup {born}
        BY <3>1, <3>2
      <4>2. born \in Nat /\ 1 <= born
        BY <1>b, <3>3
      <4>3. 1..(born - 1) \cup {born} = 1..born
        BY <4>2
      <4> QED
        BY <4>1, <4>3
    <3>5. /\ \A d \in Callers : pc'[d] # "store"
          /\ \A d \in Callers : pc'[d] = "create" => d = c
      BY <1>b, <2>b, <3>1, <3>2
    <3>6. need'[c] = need[c] - 1 /\ born' + need'[c] <= MaxSize
      BY <1>b, <3>1, <3>2, <3>3
    <3>7. \A d, e \in InPolicy' : d = e
      BY <3>5 DEF InPolicy
    <3> QED
      BY <3>1, <3>2, <3>4, <3>5, <3>6, <3>7 DEF RaceInv
  <2> QED
    BY <1>1, <2>1, <2>2, <2>3, <2>4 DEF PolicyStep
<1>2. CASE Accept \/ Push \/ NotifyOne
  <2>1. /\ ~ raced /\ UNCHANGED <<need, created, seen, born, threads, spc>>
    BY <1>2 DEF Accept, Push, NotifyOne, poolVars, stopVars
  <2>2. /\ \A c \in Callers : pc'[c] \in {"create", "store"} => pc'[c] = pc[c]
        /\ \A c \in Callers : pc[c] = "store" => pc'[c] = "store"
    BY <1>b, <1>2 DEF Accept, Push, NotifyOne, Waiting
  <2> QED
    BY <1>c, <2>1, <2>2
<1>3. ASSUME NEW w \in Workers,
             WaitTest(w) \/ Pop(w) \/ Wait(w) \/ Begin(w) \/ Finish(w)
      PROVE  RaceInv'
  <2>1. /\ ~ raced /\ UNCHANGED <<need, created, seen, born, threads, spc>>
    BY <1>3 DEF WaitTest, Pop, Wait, Begin, Finish, poolVars, stopVars
  <2>2. /\ \A c \in Callers : pc'[c] \in {"create", "store"} => pc'[c] = pc[c]
        /\ \A c \in Callers : pc[c] = "store" => pc'[c] = "store"
    BY <1>b, <1>3 DEF WaitTest, Pop, Wait, Begin, Finish
  <2> QED
    BY <1>c, <2>1, <2>2
<1>4. CASE Stop \/ StopStep \/ UNCHANGED vars
  <2>1. /\ ~ raced /\ UNCHANGED <<need, created, seen, born>>
        /\ spc' # "stopped" => spc # "stopped" /\ UNCHANGED threads
    BY <1>4 DEF Stop, StopStep, ShutdownFlag, ShutdownNotify, Join, Detach,
                Stopped, vars, poolVars, stopVars
  <2>2. \A c \in Callers : /\ pc'[c] \in {"create", "store"} => pc'[c] = pc[c]
                           /\ pc[c] = "store" => pc'[c] = "store"
    BY <1>4 DEF Stop, StopStep, ShutdownFlag, ShutdownNotify, Join, Detach,
                Stopped, vars, Waiting
  <2> QED
    BY <1>c, <2>1, <2>2
\* The listen thread is not in RunPolicy when the pool has been stopped.
<1>5. ASSUME PolicyStep(Listener) PROVE spc # "stopped"
  BY <1>5 DEF PolicyStep, RunPolicy, AddThread, AddNoThread, StoreThread, StopInv
<1> QED
  BY <1>1, <1>2, <1>3, <1>4, <1>5 DEF Next, ListenerStep, WorkerStep

\* Before the first connection nobody runs the policy and nothing is stopped.
LEMMA RaceInit == Init => RaceInv /\ StopInv
<1> SUFFICES ASSUME Init PROVE RaceInv /\ StopInv
  OBVIOUS
<1>1. \A c \in Callers : pc[c] \in {"accept", "unborn"}
  BY DEF Init
<1>2. pc[Listener] = "accept" /\ join = {} /\ born = 0 /\ threads = {}
  BY CallerFacts DEF Init
<1>3. InPolicy = {} /\ 1..born = {}
  BY <1>1, <1>2 DEF InPolicy
<1>4. RaceInv
  BY <1>1, <1>2, <1>3, ConstantsAssumption DEF RaceInv
<1> QED
  BY <1>2, <1>4 DEF StopInv

\* The pool outgrows max_size_ only if two threads have run the policy at the
\* same time (LimitKept).
THEOREM PoolLimited == Spec => []LimitKept
<1> DEFINE Inv == PoolInv /\ HandInv /\ StopInv /\ RaceInv
<1>1. Init => Inv
  BY PoolInit, HandInit, RaceInit
<1>2. Inv /\ [Next]_vars => Inv'
  BY PoolStep, HandStep, StopStepInv, RaceStep
<1>3. Inv => LimitKept
  BY DEF RaceInv, LimitKept
<1> HIDE DEF Inv
<1> QED
  BY <1>1, <1>2, <1>3, PTL DEF Spec

\* A thread that is between the creation and the storing of another one is not
\* gone, so when all the stored threads are gone there is no other.
LEMMA AllJoined ==
    ASSUME PoolInv, RaceInv, StopInv, ~ raced, spc # "stopped",
           spc = "run" => pc[Listener] = "accept",
           \A w \in threads : pc[w] = "gone"
    PROVE  Alive = {}
<1>1. TypeOK /\ ThreadInv /\ CreateInv
  BY DEF PoolInv
<1>2. born \in 0..MaxWorkers /\ pc[Listener] = "accept"
  BY <1>1 DEF TypeOK, StopInv
<1>3. ASSUME NEW c \in Callers, pc[c] = "store" PROVE FALSE
  <2>1. c \in Workers
    BY <1>2, <1>3, CallerFacts
  <2>2. c < created[c] /\ created[c] = born /\ threads = 1..(born - 1)
    BY <1>1, <1>3 DEF CreateInv, RaceInv
  <2>3. c \in Nat /\ c >= 1 /\ c < born
    BY <2>1, <2>2, CallerFacts
  <2>4. c \in threads
    BY <1>2, <2>2, <2>3
  <2> QED
    BY <1>3, <2>4
<1>4. threads = 1..born
  BY <1>3 DEF RaceInv
<1> QED
  BY <1>4 DEF Alive

\* When Stop returns the threads of the pool have ended.
LEMMA LeftStep ==
    PoolInv /\ StopInv /\ RaceInv /\ NobodyLeft /\ [Next]_vars => NobodyLeft'
<1> SUFFICES ASSUME PoolInv, StopInv, RaceInv, NobodyLeft, [Next]_vars,
                    spc' = "stopped", ~ expired', ~ raced'
             PROVE  Alive' = {}
  BY DEF NobodyLeft
<1> USE CallerFacts
\* Nobody moves in a pool that has been stopped.
<1>1. ASSUME UNCHANGED <<pc, born, spc, raced, expired>> PROVE Alive' = {}
  BY <1>1 DEF NobodyLeft, Alive
<1>2. ASSUME NEW c \in Callers, PolicyStep(c), spc # "stopped" PROVE FALSE
  BY <1>2 DEF PolicyStep, RunPolicy, AddThread, AddNoThread, StoreThread, stopVars
<1>3. ASSUME PolicyStep(Listener) \/ Push \/ NotifyOne \/ Accept PROVE FALSE
  <2>1. spc # "stopped"
    BY <1>3 DEF PolicyStep, RunPolicy, AddThread, AddNoThread, StoreThread,
                Push, NotifyOne, Accept, StopInv
  <2> QED
    BY <1>2, <1>3, <2>1 DEF Push, NotifyOne, Accept, stopVars
<1>4. ASSUME NEW w \in Workers, WorkerStep(w) PROVE FALSE
  <2>1. spc # "stopped" /\ w \in Callers
    BY <1>4 DEF WorkerStep
  <2> QED
    BY <1>2, <1>4, <2>1 DEF WorkerStep, WaitTest, Pop, Wait, Begin, Finish, stopVars
<1>5. ASSUME NEW w \in Workers,
             Join(w) \/ Detach(w) \/ ShutdownFlag \/ ShutdownNotify
      PROVE  FALSE
  BY <1>5 DEF Join, Detach, ShutdownFlag, ShutdownNotify
<1>6. ASSUME Stop \/ Stopped PROVE Alive' = {}
  <2>1. /\ UNCHANGED <<pc, born, raced, expired>> /\ spc # "stopped"
        /\ spc = "run" => pc[Listener] = "accept"
    BY <1>6 DEF Stop, Stopped, poolVars
  <2>2. \A w \in threads : pc[w] = "gone"
    BY <1>6, <2>1 DEF Stop, Stopped, StopInv
  <2>3. Alive = {}
    BY <2>1, <2>2, AllJoined
  <2> QED
    BY <2>1, <2>3 DEF Alive
<1>7. CASE UNCHANGED vars
  BY <1>1, <1>7 DEF vars, poolVars, stopVars
<1>8. 1 \in Workers
  BY ConstantsAssumption DEF Workers
<1> QED
  BY <1>3, <1>4, <1>5, <1>6, <1>7, <1>8 DEF Next, ListenerStep, StopStep

\* When Stop has returned no thread of the pool is left, unless a join has timed
\* out or racing callers of RunPolicy have lost a thread (NobodyLeft).
THEOREM NobodyOutlivesStop == Spec => []NobodyLeft
<1> DEFINE Inv == PoolInv /\ HandInv /\ StopInv /\ RaceInv /\ NobodyLeft
<1>1. Init => Inv
  <2>1. Init => NobodyLeft
    BY DEF Init, NobodyLeft
  <2> QED
    BY <2>1, PoolInit, HandInit, RaceInit
<1>2. Inv /\ [Next]_vars => Inv'
  BY PoolStep, HandStep, StopStepInv, RaceStep, LeftStep
<1>3. Inv => NobodyLeft
  OBVIOUS
<1> HIDE DEF Inv
<1> QED
  BY <1>1, <1>2, <1>3, PTL DEF Spec
=============================================================================
