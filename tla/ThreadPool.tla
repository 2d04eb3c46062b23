----------------------------- MODULE ThreadPool -----------------------------
(***************************************************************************)
(* The thread pool of the p3 web server (thr_pool.c, task_queue.c): the    *)
(* main thread enqueues tasks, a signalling thread polls the queue and     *)
(* posts the thread assigned to the head task through a binary semaphore   *)
(* made of one mutex, one condition variable and one flag per thread, and  *)
(* the threads of the pool dequeue and execute.                            *)
(*                                                                         *)
(* Each pthread_mutex_lock is a step of its own; the statements up to the  *)
(* matching unlock or to the next lock are one step.  The linked list of   *)
(* task_queue.c is a sequence here; module TaskQueue shows that the list   *)
(* behaves as that sequence.                                               *)
(***************************************************************************)
EXTENDS Integers, Sequences, FiniteSets

CONSTANTS THR_NUM,   \* threads of the pool; also the modulus of the round robin
          MaxTasks   \* bound on the tasks enqueued in one behaviour

ASSUME ThreadPoolAssumption ==
  /\ THR_NUM \in Nat \ {0}
  /\ MaxTasks \in Nat

Workers == 0 .. THR_NUM - 1      \* thread.id, given by threadPoolInit
Main    == -1                    \* the thread running main()
Signal  == -2                    \* the thread running signalThreadFunc()
Nobody  == -3                    \* owner of a free mutex
Threads == Workers \cup {Main, Signal}

Mutexes == {"mutexQueueRW", "semMutex", "mutexThreadCnt"}

(* A task: num identifies the request it stands for, thr is the            *)
(* assignedThrId of its clientInfo.  num = 0 is the NULL task pointer.     *)
Task   == [num : 1 .. MaxTasks, thr : Workers]
NoTask == [num |-> 0, thr |-> 0]

VARIABLES pc,                 \* control point of every thread
          owner,              \* owner of every mutex
          numActiveThreads, numWorkingThreads,
          taskQ,              \* tasks from taskQ.head to taskQ.tail
          val,                \* bSem.val
          taskPtr,            \* the local taskPtr of every threadFunc
          assignedThrId,      \* of main(): the thread the next request goes to
          submitted,          \* number of requests enqueued so far
          finished            \* numbers of the tasks whose function has returned

vars == <<pc, owner, numActiveThreads, numWorkingThreads, taskQ, val, taskPtr,
          assignedThrId, submitted, finished>>

-----------------------------------------------------------------------------
(* Control points and mutexes                                              *)

WorkerPoints == {"unborn", "startLock", "startInc", "semLock", "semCheck",
                 "semSleep", "workLock", "workInc", "deqLock", "deq", "run",
                 "idleLock", "idleDec"}
MainPoints   == {"spawn", "await", "serve", "enqLock", "enq"}
SignalPoints == {"unborn", "pollLock", "poll", "postLock", "post", "pollUnlock"}

(* The control points at which a thread holds mutex m.                     *)
Inside(m) == CASE m = "mutexQueueRW"   -> {"enq", "deq", "poll", "postLock", "post", "pollUnlock"}
               [] m = "semMutex"       -> {"semCheck", "post"}
               [] m = "mutexThreadCnt" -> {"startInc", "workInc", "idleDec"}

Goto(p, from, to) ==
  /\ pc[p] = from
  /\ pc' = [pc EXCEPT ![p] = to]

Lock(p, m, from, to) ==
  /\ Goto(p, from, to)
  /\ owner[m] = Nobody
  /\ owner' = [owner EXCEPT ![m] = p]

Unlock(p, m, from, to) ==
  /\ Goto(p, from, to)
  /\ owner' = [owner EXCEPT ![m] = Nobody]

queueVars == <<taskQ, assignedThrId, submitted>>
countVars == <<numActiveThreads, numWorkingThreads>>
taskVars  == <<taskPtr, finished>>

Init ==
  /\ pc = [p \in Threads |-> IF p = Main THEN "spawn" ELSE "unborn"]
  /\ owner = [m \in Mutexes |-> Nobody]
  /\ numActiveThreads = 0
  /\ numWorkingThreads = 0
  /\ taskQ = <<>>
  /\ val = [w \in Workers |-> 0]
  /\ taskPtr = [w \in Workers |-> NoTask]
  /\ assignedThrId = 0
  /\ submitted = 0
  /\ finished = {}

-----------------------------------------------------------------------------
(* main(): threadPoolInit, then one enqueueTask per request                *)

(* threadInit creates the threads in the order of their ids.               *)
ThreadInit(w) ==
  /\ pc[Main] = "spawn"
  /\ pc[w] = "unborn"
  /\ \A v \in Workers : v < w => pc[v] # "unborn"
  /\ pc' = [pc EXCEPT ![w] = "startLock",
                      ![Main] = IF w = THR_NUM - 1 THEN "await" ELSE "spawn"]
  /\ UNCHANGED <<owner, queueVars, countVars, taskVars, val>>

(* A plausible slip: no wait for the threads to register themselves.       *)
StartSignalAtOnce ==
  /\ pc[Main] = "await"
  /\ pc' = [pc EXCEPT ![Main] = "serve", ![Signal] = "pollLock"]
  /\ UNCHANGED <<owner, queueVars, countVars, taskVars, val>>

(* The busy wait for numActiveThreads; the signalling thread comes last.   *)
AwaitActive ==
  /\ pc[Main] = "await"
  /\ numActiveThreads = THR_NUM
  /\ pc' = [pc EXCEPT ![Main] = "serve", ![Signal] = "pollLock"]
  /\ UNCHANGED <<owner, queueVars, countVars, taskVars, val>>

(* A client has sent a request.                                            *)
Request ==
  /\ submitted < MaxTasks
  /\ Goto(Main, "serve", "enqLock")
  /\ UNCHANGED <<owner, queueVars, countVars, taskVars, val>>

EnqueueLock ==
  /\ Lock(Main, "mutexQueueRW", "enqLock", "enq")
  /\ UNCHANGED <<queueVars, countVars, taskVars, val>>

NextThrId(i) == (i + 1) % THR_NUM

EnqueueTask ==
  /\ Unlock(Main, "mutexQueueRW", "enq", "serve")
  /\ taskQ' = Append(taskQ, [num |-> submitted + 1, thr |-> assignedThrId])
  /\ submitted' = submitted + 1
  /\ assignedThrId' = NextThrId(assignedThrId)
  /\ UNCHANGED <<countVars, taskVars, val>>

-----------------------------------------------------------------------------
(* signalThreadFunc()                                                      *)

PollLock ==
  /\ Lock(Signal, "mutexQueueRW", "pollLock", "poll")
  /\ UNCHANGED <<queueVars, countVars, taskVars, val>>

(* A plausible slip: the queue mutex is given up before the post.          *)
PollUnlocksEarly ==
  /\ pc[Signal] = "poll"
  /\ pc' = [pc EXCEPT ![Signal] = IF taskQ = <<>> THEN "pollUnlock" ELSE "postLock"]
  /\ owner' = [owner EXCEPT !["mutexQueueRW"] = Nobody]
  /\ UNCHANGED <<queueVars, countVars, taskVars, val>>

Poll ==
  /\ pc[Signal] = "poll"
  /\ pc' = [pc EXCEPT ![Signal] = IF taskQ = <<>> THEN "pollUnlock" ELSE "postLock"]
  /\ UNCHANGED <<owner, queueVars, countVars, taskVars, val>>

(* bSemPost takes the semaphore's mutex while the queue's is still held.   *)
PostLock ==
  /\ Lock(Signal, "semMutex", "postLock", "post")
  /\ UNCHANGED <<queueVars, countVars, taskVars, val>>

(* A plausible slip: the post only resets the flags.                       *)
PostedToNobody(u) == [w \in Workers |-> 0]

(* All flags are reset, then the flag of one thread is turned on.          *)
Posted(u) == [w \in Workers |-> IF w = u THEN 1 ELSE 0]

(* A plausible slip: pthread_cond_signal, which wakes a single waiter.     *)
WakeOne(f) ==
  LET asleep == {w \in Workers : f[w] = "semSleep"}
  IN  IF asleep = {} THEN f
      ELSE [f EXCEPT ![CHOOSE w \in asleep : \A v \in asleep : w <= v] = "semLock"]

(* pthread_cond_broadcast: every waiter goes back to take the mutex.       *)
WakeAll(f) == [p \in Threads |-> IF f[p] = "semSleep" THEN "semLock" ELSE f[p]]

Post ==
  /\ pc[Signal] = "post"
  /\ val' = Posted(Head(taskQ).thr)
  /\ pc' = [WakeAll(pc) EXCEPT ![Signal] = "pollUnlock"]
  /\ owner' = [owner EXCEPT !["semMutex"] = Nobody]
  /\ UNCHANGED <<queueVars, countVars, taskVars>>

PollUnlock ==
  /\ Unlock(Signal, "mutexQueueRW", "pollUnlock", "pollLock")
  /\ UNCHANGED <<queueVars, countVars, taskVars, val>>

-----------------------------------------------------------------------------
(* threadFunc()                                                            *)

StartLock(w) ==
  /\ Lock(w, "mutexThreadCnt", "startLock", "startInc")
  /\ UNCHANGED <<queueVars, countVars, taskVars, val>>

StartInc(w) ==
  /\ Unlock(w, "mutexThreadCnt", "startInc", "semLock")
  /\ numActiveThreads' = numActiveThreads + 1
  /\ UNCHANGED <<queueVars, numWorkingThreads, taskVars, val>>

(* bSemWait: first entry, and again after each wakeup.                     *)
SemLock(w) ==
  /\ Lock(w, "semMutex", "semLock", "semCheck")
  /\ UNCHANGED <<queueVars, countVars, taskVars, val>>

(* pthread_cond_wait gives the mutex up and puts the thread to sleep.      *)
SemSleep(w) ==
  /\ val[w] # 1
  /\ Unlock(w, "semMutex", "semCheck", "semSleep")
  /\ UNCHANGED <<queueVars, countVars, taskVars, val>>

SemPass(w) ==
  /\ val[w] = 1
  /\ Unlock(w, "semMutex", "semCheck", "workLock")
  /\ val' = [val EXCEPT ![w] = 0]
  /\ UNCHANGED <<queueVars, countVars, taskVars>>

(* pthread_cond_wait may return without a broadcast.                       *)
SpuriousWakeup(w) ==
  /\ Goto(w, "semSleep", "semLock")
  /\ UNCHANGED <<owner, queueVars, countVars, taskVars, val>>

WorkLock(w) ==
  /\ Lock(w, "mutexThreadCnt", "workLock", "workInc")
  /\ UNCHANGED <<queueVars, countVars, taskVars, val>>

WorkInc(w) ==
  /\ Unlock(w, "mutexThreadCnt", "workInc", "deqLock")
  /\ numWorkingThreads' = numWorkingThreads + 1
  /\ UNCHANGED <<queueVars, numActiveThreads, taskVars, val>>

DequeueLock(w) ==
  /\ Lock(w, "mutexQueueRW", "deqLock", "deq")
  /\ UNCHANGED <<queueVars, countVars, taskVars, val>>

(* A plausible slip: case 1 of dequeueTask forgets to clear the queue.     *)
DequeuedKeepsLast(q) == IF Len(q) = 1 THEN q ELSE Tail(q)

Dequeued(q) == Tail(q)

(* dequeueTask hands out the head whatever thread it was assigned to.      *)
DequeueTask(w) ==
  /\ taskQ # <<>>
  /\ Unlock(w, "mutexQueueRW", "deq", "run")
  /\ taskPtr' = [taskPtr EXCEPT ![w] = Head(taskQ)]
  /\ taskQ' = Dequeued(taskQ)
  /\ UNCHANGED <<assignedThrId, submitted, countVars, finished, val>>

DequeueNothing(w) ==
  /\ taskQ = <<>>
  /\ Unlock(w, "mutexQueueRW", "deq", "idleLock")
  /\ UNCHANGED <<queueVars, countVars, taskVars, val>>

(* writeLog, the task's function (httpResponse) and the two frees.         *)
Execute(w) ==
  /\ Goto(w, "run", "idleLock")
  /\ finished' = finished \cup {taskPtr[w].num}
  /\ taskPtr' = [taskPtr EXCEPT ![w] = NoTask]
  /\ UNCHANGED <<owner, queueVars, countVars, val>>

IdleLock(w) ==
  /\ Lock(w, "mutexThreadCnt", "idleLock", "idleDec")
  /\ UNCHANGED <<queueVars, countVars, taskVars, val>>

(* The signal on allThreadsIdle finds no waiter: the server never calls    *)
(* threadPoolWait.                                                         *)
IdleDec(w) ==
  /\ Unlock(w, "mutexThreadCnt", "idleDec", "semLock")
  /\ numWorkingThreads' = numWorkingThreads - 1
  /\ UNCHANGED <<queueVars, numActiveThreads, taskVars, val>>

-----------------------------------------------------------------------------

MainStep ==
  \/ \E w \in Workers : ThreadInit(w)
  \/ AwaitActive
  \/ EnqueueLock \/ EnqueueTask

SignalStep == PollLock \/ Poll \/ PostLock \/ Post \/ PollUnlock

WorkerStep(w) ==
  \/ StartLock(w) \/ StartInc(w)
  \/ SemLock(w) \/ SemSleep(w) \/ SemPass(w)
  \/ WorkLock(w) \/ WorkInc(w)
  \/ DequeueLock(w) \/ DequeueTask(w) \/ DequeueNothing(w)
  \/ Execute(w)
  \/ IdleLock(w) \/ IdleDec(w)

Next ==
  \/ MainStep
  \/ Request
  \/ SignalStep
  \/ \E w \in Workers : WorkerStep(w) \/ SpuriousWakeup(w)

(* Every thread keeps running and no thread is refused a mutex for ever    *)
(* while others take it again and again: the signalling thread releases    *)
(* mutexQueueRW only to lock it again, so weak fairness would let it       *)
(* starve the pool.  Requests and spurious wakeups may stop coming.        *)
Fairness ==
  /\ SF_vars(MainStep)
  /\ SF_vars(SignalStep)
  /\ \A w \in Workers : SF_vars(WorkerStep(w))

Spec == Init /\ [][Next]_vars

FairSpec == Spec /\ Fairness

-----------------------------------------------------------------------------
(* Properties                                                              *)

TypeOK ==
  /\ pc \in [Threads -> WorkerPoints \cup MainPoints \cup SignalPoints]
  /\ \A w \in Workers : pc[w] \in WorkerPoints
  /\ pc[Main] \in MainPoints
  /\ pc[Signal] \in SignalPoints
  /\ owner \in [Mutexes -> Threads \cup {Nobody}]
  /\ numActiveThreads \in Int
  /\ numWorkingThreads \in Int
  /\ taskQ \in Seq(Task)
  /\ val \in [Workers -> {0, 1}]
  /\ taskPtr \in [Workers -> Task \cup {NoTask}]
  /\ assignedThrId \in Workers
  /\ submitted \in 0 .. MaxTasks
  /\ finished \subseteq 1 .. MaxTasks

(* Tasks taken out of the queue.                                           *)
Started == submitted - Len(taskQ)

(* dequeueTask hands every task that threadPoolEnqueue accepted to exactly *)
(* one thread, in the order of acceptance, whatever the interleaving of    *)
(* the threads that a post, a stale flag or a late wakeup sends to the     *)
(* queue: no task is lost, executed twice or held by two threads.          *)
TasksConserved ==
  /\ \A i \in 1 .. Len(taskQ) : taskQ[i].num = Started + i
  /\ finished \subseteq 1 .. Started
  /\ \A w \in Workers : taskPtr[w].num \in (0 .. Started) \ finished
  /\ \A v, w \in Workers :
        v # w /\ taskPtr[v].num # 0 => taskPtr[v].num # taskPtr[w].num
  /\ \A n \in 1 .. Started :
        n \in finished \/ \E w \in Workers : taskPtr[w].num = n

(* signalThreadFunc dereferences taskQ->head->arg without copying the      *)
(* task: from its check of len to bSemPost the head must stay in the       *)
(* queue, and when it gives the queue up, the thread it posted for the     *)
(* head has its flag on or is already on its way to dequeueTask.           *)
HeadIsPosted ==
  /\ pc[Signal] \in {"postLock", "post"} => taskQ # <<>>
  /\ pc[Signal] = "pollUnlock" /\ taskQ # <<>> =>
        LET u == Head(taskQ).thr
        IN  val[u] = 1 \/ pc[u] \in {"workLock", "workInc", "deqLock"}

(* No lost wakeup in bSemWait and bSemPost: a thread whose flag is on is   *)
(* never asleep on the condition variable shared by all threads.           *)
NoSleepWhilePosted == \A w \in Workers : val[w] = 1 => pc[w] # "semSleep"

(* numWorkingThreads counts the threads between the increment and the      *)
(* decrement of threadFunc; threadPoolWait and the allThreadsIdle signal   *)
(* rest on it, also for a thread that woke up and found no task.           *)
Working == {w \in Workers : pc[w] \in {"deqLock", "deq", "run", "idleLock", "idleDec"}}

WorkingCount == numWorkingThreads = Cardinality(Working)

(* threadPoolInit returns, and the signalling thread runs, only when every *)
(* thread of the pool has registered itself.                               *)
Active == {w \in Workers : pc[w] \notin {"unborn", "startLock", "startInc"}}

ServesWithFullPool ==
  pc[Main] \in {"serve", "enqLock", "enq"} \/ pc[Signal] # "unborn" => Active = Workers

(* The pool is an implementation of PoolService: safety, and under the     *)
(* fairness above every accepted task is started and finished.             *)
PS == INSTANCE PoolService
        WITH accepted <- submitted,
             started  <- Started,
             running  <- [w \in Workers |-> taskPtr[w].num],
             finished <- finished

ImplementsPoolService == PS!PoolSpec

(* A mutex is owned by the thread between its lock and its unlock.         *)
MutexHeld ==
  \A m \in Mutexes, p \in Threads : owner[m] = p <=> pc[p] \in Inside(m)

(* The bound on the requests, once main() is on its way to enqueueTask.    *)
RequestInBound == pc[Main] \in {"enqLock", "enq"} => submitted < MaxTasks

(* The signalling thread is created when main() has finished waiting.      *)
SignalComesLast == pc[Main] \in {"spawn", "await"} => pc[Signal] = "unborn"

(* A thread has a task exactly while it executes it.                       *)
RunsItsTask == \A w \in Workers : pc[w] = "run" <=> taskPtr[w].num # 0

(* The inductive invariant behind the safety of the pool (ThreadPoolProofs *)
(* proves it): what the threads may rely on while they hold mutexQueueRW   *)
(* or semMutex, with the three properties above.                           *)
IndInv ==
  /\ TypeOK
  /\ MutexHeld
  /\ RequestInBound
  /\ SignalComesLast
  /\ RunsItsTask
  /\ Len(taskQ) <= submitted
  /\ TasksConserved
  /\ HeadIsPosted
  /\ NoSleepWhilePosted
=============================================================================
