----------------------------- MODULE ThreadPool -----------------------------
(***************************************************************************)
(* The thread pool of the C++ store server: ThreadPool (lib/threadpool.cc) *)
(* with its Queue (lib/common.h) and its DefaultThreadPoolPolicy           *)
(* (lib/threadpool.h), used by the listen thread of HttpServer             *)
(* (lib/http_server.cc), which adds one closure for every connection.      *)
(*                                                                         *)
(* Only the queue has a mutex. The size of threads_ and the number of busy *)
(* threads are read by Add and by every worker before it waits for work,   *)
(* and threads_ is appended to by all of them, without any lock.           *)
(*                                                                         *)
(* The exported counters other than stats_busy_threads_ steer nothing and  *)
(* are left out, as is delete_timer_: DeleteThreadCallback is empty.       *)
(***************************************************************************)
EXTENDS Naturals, Sequences, FiniteSets

CONSTANTS
    MaxJobs,     \* bound: connections accepted
    MaxWorkers,  \* bound: threads ever created
    TargetSize,  \* target_size_
    MaxSize      \* max_size_

ASSUME ConstantsAssumption ==
    /\ MaxJobs \in Nat
    /\ MaxWorkers \in Nat \ {0}
    /\ TargetSize \in Nat \ {0}
    /\ MaxSize \in Nat
    /\ TargetSize <= MaxSize

Jobs    == 1..MaxJobs
Workers == 1..MaxWorkers
Listener == 0            \* the listen thread of HttpServer
NoJob   == 0
NoOne   == MaxWorkers + 1  \* nobody holds the mutex of the queue
Callers == Workers \cup {Listener}

VARIABLES
    pc,        \* where the listen thread and every worker is
    need,      \* how many threads a caller of RunPolicy has still to create
    created,   \* the thread a caller has created and not yet stored
    seen,      \* threads_, as a caller has read it in order to append to it
    threads,   \* threads_
    born,      \* how many threads have been created; they are 1..born
    busy,      \* stats_busy_threads_
    job,       \* the closure each thread has in its hands
    queue,     \* queue_
    mutex,     \* the holder of mutex_, if a worker has it between two steps
    shutdown,  \* Queue::shutdown_
    spc,       \* where the destructor of the server is
    join,      \* the index of Stop's loop: the threads it is done with
    \* bounds and history
    accepted,  \* connections accepted so far
    done,      \* how often each closure has been run
    raced,     \* two callers were in RunPolicy at the same time
    expired    \* a timed_join has timed out

poolVars == <<need, created, seen, threads, born>>
stopVars == <<shutdown, spc, join>>
histVars == <<accepted, done>>
vars == <<pc, poolVars, busy, job, queue, mutex, stopVars, histVars, raced,
          expired>>

\* The threads that run Loop.
Alive == {w \in 1..born : pc[w] # "gone"}

\* Callers between the reading of the arguments of RunPolicy and its return.
InPolicy == {c \in Callers : pc[c] \in {"create", "store"}}
-----------------------------------------------------------------------------
Init ==
    /\ pc = [c \in Callers |-> IF c = Listener THEN "accept" ELSE "unborn"]
    /\ need = [c \in Callers |-> 0]
    /\ created = [c \in Callers |-> 0]
    /\ seen = [c \in Callers |-> {}]
    /\ threads = {}
    /\ born = 0
    /\ busy = 0
    /\ job = [c \in Callers |-> NoJob]
    /\ queue = <<>>
    /\ mutex = NoOne
    /\ shutdown = FALSE
    /\ spc = "run"
    /\ join = {}
    /\ accepted = 0
    /\ done = [j \in Jobs |-> 0]
    /\ raced = FALSE
    /\ expired = FALSE
-----------------------------------------------------------------------------
\* The listen thread accepts a connection and calls ThreadPool::Add.
Accept ==
    /\ pc[Listener] = "accept"
    /\ spc = "run"
    /\ accepted < MaxJobs
    /\ accepted' = accepted + 1
    /\ job' = [job EXCEPT ![Listener] = accepted + 1]
    /\ pc' = [pc EXCEPT ![Listener] = "policy"]
    /\ UNCHANGED <<poolVars, busy, queue, mutex, stopVars, done, raced, expired>>
-----------------------------------------------------------------------------
(***************************************************************************)
(* RunPolicy, called by Add and by Loop.                                   *)
(***************************************************************************)

\* FAULT: the maximal size is looked at too late.
WantedOneTooMany(total, working) ==
    IF total > MaxSize THEN 0
    ELSE LET more == IF working >= total THEN 1 ELSE 0
         IN  more + (IF total + more < TargetSize THEN 1 ELSE 0)

\* How many threads RunPolicy(total_threads, busy_threads) creates.
Wanted(total, working) ==
    IF total >= MaxSize THEN 0
    ELSE LET more == IF working >= total THEN 1 ELSE 0
         IN  more + (IF total + more < TargetSize THEN 1 ELSE 0)

\* Where a caller goes on after RunPolicy: Push, or WaitAndPop.
After(c) == IF c = Listener THEN "push" ELSE "wait"

\* The arguments threads_.size() and stats_busy_threads_ are read.
RunPolicy(c) ==
    LET n == Wanted(Cardinality(threads), busy) IN
    /\ pc[c] = "policy"
    /\ need' = [need EXCEPT ![c] = n]
    /\ pc' = [pc EXCEPT ![c] = IF n > 0 THEN "create" ELSE After(c)]
    /\ raced' = (raced \/ InPolicy # {})
    /\ UNCHANGED <<created, seen, threads, born, busy, job, queue, mutex,
                   stopVars, histVars, expired>>

\* AddThreadCallback: the new thread runs at once. threads_.push_back(t) reads
\* the vector here and writes it back in the next step.
AddThread(c) ==
    /\ pc[c] = "create"
    /\ born < MaxWorkers
    /\ born' = born + 1
    /\ created' = [created EXCEPT ![c] = born + 1]
    /\ seen' = [seen EXCEPT ![c] = threads]
    /\ pc' = [pc EXCEPT ![c] = "store", ![born + 1] = "policy"]
    /\ UNCHANGED <<need, threads, busy, job, queue, mutex, stopVars, histVars,
                   raced, expired>>

\* The bound on the number of threads: the caller goes on without a new one.
AddNoThread(c) ==
    /\ pc[c] = "create"
    /\ born = MaxWorkers
    /\ need' = [need EXCEPT ![c] = 0]
    /\ pc' = [pc EXCEPT ![c] = After(c)]
    /\ UNCHANGED <<created, seen, threads, born, busy, job, queue, mutex,
                   stopVars, histVars, raced, expired>>

StoreThread(c) ==
    /\ pc[c] = "store"
    /\ threads' = seen[c] \cup {created[c]}
    /\ created' = [created EXCEPT ![c] = 0]
    /\ seen' = [seen EXCEPT ![c] = {}]
    /\ need' = [need EXCEPT ![c] = @ - 1]
    /\ pc' = [pc EXCEPT ![c] = IF need[c] > 1 THEN "create" ELSE After(c)]
    /\ UNCHANGED <<born, busy, job, queue, mutex, stopVars, histVars, raced,
                   expired>>
-----------------------------------------------------------------------------
(***************************************************************************)
(* Queue::Push, by the listen thread only, which has ended when Shutdown   *)
(* is called.                                                              *)
(***************************************************************************)
Push ==
    /\ pc[Listener] = "push"
    /\ mutex = NoOne
    /\ queue' = Append(queue, job[Listener])
    /\ job' = [job EXCEPT ![Listener] = NoJob]
    /\ pc' = [pc EXCEPT ![Listener] = "notify"]
    /\ UNCHANGED <<poolVars, busy, mutex, stopVars, histVars, raced, expired>>

\* FAULT: nobody is notified.
NotifyNobody ==
    /\ pc[Listener] = "notify"
    /\ pc' = [pc EXCEPT ![Listener] = "accept"]
    /\ UNCHANGED <<poolVars, busy, job, queue, mutex, stopVars, histVars, raced,
                   expired>>

Waiting == {w \in Workers : pc[w] = "waiting"}

\* condvar_.notify_one() wakes one of the waiting threads, if there is one.
NotifyOne ==
    /\ pc[Listener] = "notify"
    /\ \/ /\ Waiting = {}
          /\ pc' = [pc EXCEPT ![Listener] = "accept"]
       \/ \E w \in Waiting :
             pc' = [pc EXCEPT ![Listener] = "accept", ![w] = "woken"]
    /\ UNCHANGED <<poolVars, busy, job, queue, mutex, stopVars, histVars, raced,
                   expired>>
-----------------------------------------------------------------------------
(***************************************************************************)
(* Loop: Queue::WaitAndPop, and the closure.                               *)
(***************************************************************************)

\* The first test of shutdown_, without the mutex.
WaitTest(w) ==
    /\ pc[w] = "wait"
    /\ pc' = [pc EXCEPT ![w] = IF shutdown THEN "gone" ELSE "woken"]
    /\ UNCHANGED <<poolVars, busy, job, queue, mutex, stopVars, histVars, raced,
                   expired>>

\* FAULT: the closure is left at the head of the queue.
PopNothing(w) ==
    /\ pc[w] = "woken"
    /\ mutex = NoOne
    /\ \/ /\ shutdown
          /\ pc' = [pc EXCEPT ![w] = "gone"]
          /\ UNCHANGED <<job, queue, mutex>>
       \/ /\ ~shutdown
          /\ queue = <<>>
          /\ mutex' = w
          /\ pc' = [pc EXCEPT ![w] = "tested"]
          /\ UNCHANGED <<job, queue>>
       \/ /\ ~shutdown
          /\ queue # <<>>
          /\ job' = [job EXCEPT ![w] = Head(queue)]
          /\ pc' = [pc EXCEPT ![w] = "popped"]
          /\ UNCHANGED <<queue, mutex>>
    /\ UNCHANGED <<poolVars, busy, stopVars, histVars, raced, expired>>

\* With the mutex: the test of the while loop, and what follows it.
Pop(w) ==
    /\ pc[w] = "woken"
    /\ mutex = NoOne
    /\ \/ /\ shutdown
          /\ pc' = [pc EXCEPT ![w] = "gone"]
          /\ UNCHANGED <<job, queue, mutex>>
       \/ /\ ~shutdown
          /\ queue = <<>>
          /\ mutex' = w
          /\ pc' = [pc EXCEPT ![w] = "tested"]
          /\ UNCHANGED <<job, queue>>
       \/ /\ ~shutdown
          /\ queue # <<>>
          /\ job' = [job EXCEPT ![w] = Head(queue)]
          /\ queue' = Tail(queue)
          /\ pc' = [pc EXCEPT ![w] = "popped"]
          /\ UNCHANGED mutex
    /\ UNCHANGED <<poolVars, busy, stopVars, histVars, raced, expired>>

\* condvar_.wait(lock): the thread is among the waiting ones and the mutex is
\* free in one step. Shutdown needs no mutex and may come before it.
Wait(w) ==
    /\ pc[w] = "tested"
    /\ mutex' = NoOne
    /\ pc' = [pc EXCEPT ![w] = "waiting"]
    /\ UNCHANGED <<poolVars, busy, job, queue, stopVars, histVars, raced, expired>>

\* FAULT: the busy thread is not counted.
BeginUncounted(w) ==
    /\ pc[w] = "popped"
    /\ pc' = [pc EXCEPT ![w] = "running"]
    /\ UNCHANGED <<poolVars, busy, job, queue, mutex, stopVars, histVars, raced,
                   expired>>

\* The busy threads are counted only after the closure has left the queue.
Begin(w) ==
    /\ pc[w] = "popped"
    /\ busy' = busy + 1
    /\ pc' = [pc EXCEPT ![w] = "running"]
    /\ UNCHANGED <<poolVars, job, queue, mutex, stopVars, histVars, raced, expired>>

\* h() returns or throws; the next round of Loop follows.
Finish(w) ==
    /\ pc[w] = "running"
    /\ busy' = busy - 1
    /\ done' = [done EXCEPT ![job[w]] = @ + 1]
    /\ job' = [job EXCEPT ![w] = NoJob]
    /\ pc' = [pc EXCEPT ![w] = "policy"]
    /\ UNCHANGED <<poolVars, queue, mutex, stopVars, accepted, raced, expired>>
-----------------------------------------------------------------------------
(***************************************************************************)
(* The destructor of the server: HttpServer::Stop joins the listen thread, *)
(* then ThreadPool::Stop.                                                  *)
(***************************************************************************)
Stop ==
    /\ spc = "run"
    /\ pc[Listener] = "accept"
    /\ spc' = IF threads = {} THEN "stopped" ELSE "shutdown"
    /\ UNCHANGED <<pc, poolVars, busy, job, queue, mutex, shutdown, join,
                   histVars, raced, expired>>

\* Queue::Shutdown sets the flag without the mutex and then notifies.
ShutdownFlag ==
    /\ spc = "shutdown"
    /\ shutdown' = TRUE
    /\ spc' = "notify"
    /\ UNCHANGED <<pc, poolVars, busy, job, queue, mutex, join, histVars, raced,
                   expired>>

ShutdownNotify ==
    /\ spc = "notify"
    /\ pc' = [c \in Callers |-> IF c \in Waiting THEN "woken" ELSE pc[c]]
    /\ spc' = "join"
    /\ UNCHANGED <<poolVars, busy, job, queue, mutex, shutdown, join, histVars,
                   raced, expired>>

\* FAULT: a thread is taken for joined while it is still running.
JoinRunning(w) ==
    /\ spc = "join"
    /\ w \in threads \ join
    /\ join' = join \cup {w}
    /\ UNCHANGED <<pc, poolVars, busy, job, queue, mutex, shutdown, spc,
                   histVars, raced, expired>>

\* timed_join of a thread that has ended.
Join(w) ==
    /\ spc = "join"
    /\ w \in threads \ join
    /\ pc[w] = "gone"
    /\ join' = join \cup {w}
    /\ UNCHANGED <<pc, poolVars, busy, job, queue, mutex, shutdown, spc,
                   histVars, raced, expired>>

\* timed_join gives up after timeout_ seconds, and the thread is detached.
Detach(w) ==
    /\ spc = "join"
    /\ w \in threads \ join
    /\ pc[w] # "gone"
    /\ join' = join \cup {w}
    /\ expired' = TRUE
    /\ UNCHANGED <<pc, poolVars, busy, job, queue, mutex, shutdown, spc,
                   histVars, raced>>

Stopped ==
    /\ spc = "join"
    /\ threads \subseteq join
    /\ threads' = {}
    /\ spc' = "stopped"
    /\ UNCHANGED <<pc, need, created, seen, born, busy, job, queue, mutex,
                   shutdown, join, histVars, raced, expired>>
-----------------------------------------------------------------------------
PolicyStep(c) ==
    RunPolicy(c) \/ AddThread(c) \/ AddNoThread(c) \/ StoreThread(c)

ListenerStep == PolicyStep(Listener) \/ Push \/ NotifyOne

\* When the destructors have run, main returns and the process ends.
WorkerStep(w) ==
    /\ spc # "stopped"
    /\ \/ PolicyStep(w)
       \/ WaitTest(w)
       \/ Pop(w)
       \/ Wait(w)
       \/ Begin(w)
       \/ Finish(w)

StopStep ==
    \/ ShutdownFlag
    \/ ShutdownNotify
    \/ \E w \in Workers : Join(w) \/ Detach(w)
    \/ Stopped

Next ==
    \/ Accept
    \/ ListenerStep
    \/ \E w \in Workers : WorkerStep(w)
    \/ Stop
    \/ StopStep

Spec == Init /\ [][Next]_vars

\* Threads are scheduled, and a thread waiting for a free mutex gets it. A
\* closure need not end: HandleClient gives each request a deadline of 30 s, but
\* makes a new one for the next request of a connection that is kept alive.
\* Connections and the end of the server need not come.
FairSpec ==
    /\ Spec
    /\ WF_vars(ListenerStep)
    /\ \A w \in Workers : WF_vars(pc[w] # "running" /\ WorkerStep(w))
    /\ WF_vars(StopStep)
-----------------------------------------------------------------------------
(***************************************************************************)
(* Properties.                                                             *)
(***************************************************************************)
ListenerPC == {"accept", "policy", "create", "store", "push", "notify"}
WorkerPC   == {"unborn", "policy", "create", "store", "wait", "woken",
               "tested", "waiting", "popped", "running", "gone"}

\* Every variable holds a value of its kind; in particular the counter of busy
\* threads never drops below zero nor exceeds the number of threads.
TypeOK ==
    /\ pc[Listener] \in ListenerPC
    /\ \A w \in Workers : pc[w] \in WorkerPC
    /\ need \in [Callers -> 0..2]
    /\ created \in [Callers -> 0..MaxWorkers]
    /\ seen \in [Callers -> SUBSET Workers]
    /\ threads \subseteq 1..born
    /\ born \in 0..MaxWorkers
    /\ busy \in 0..born
    /\ job \in [Callers -> Jobs \cup {NoJob}]
    /\ queue \in Seq(Jobs)
    /\ mutex \in Workers \cup {NoOne}
    /\ shutdown \in BOOLEAN
    /\ spc \in {"run", "shutdown", "notify", "join", "stopped"}
    /\ join \subseteq Workers
    /\ accepted \in 0..MaxJobs
    /\ done \in [Jobs -> Nat]
    /\ raced \in BOOLEAN
    /\ expired \in BOOLEAN

\* How often a closure is in the hands of a thread, queued, or has been run.
Places(j) == Cardinality({c \in Callers : job[c] = j})
           + Cardinality({i \in 1..Len(queue) : queue[i] = j})
           + done[j]

\* Every connection accepted is in exactly one place: no closure is lost, and
\* none is handed to two threads, however Push, WaitAndPop and Shutdown
\* interleave.
EachJobOnce == \A j \in 1..accepted : Places(j) = 1

\* "one will be created up until the max size is reached": the pool outgrows
\* max_size_ only if two threads have run the policy at the same time.
LimitKept == ~raced => born <= MaxSize

\* Every thread is in the hands of a connection.
AllHeld == \A w \in Alive : pc[w] = "running"

\* A connection accepted waits for ever only if the server stops, or if from
\* some moment on connections that are kept alive hold all threads: a first
\* thread exists before the first closure is queued, and no wakeup is lost
\* between Push and WaitAndPop.
AddedIsRun ==
    \A j \in Jobs :
        []<>(~AllHeld) =>
            ((\E i \in 1..Len(queue) : queue[i] = j)
                ~> (spc # "run" \/ \A i \in 1..Len(queue) : queue[i] # j))

\* When Stop returns, no thread of the pool is left that could use it, unless
\* a timed_join has timed out, or racing push_backs have lost a thread.
NobodyLeft == spc = "stopped" /\ ~expired /\ ~raced => Alive = {}
=============================================================================
