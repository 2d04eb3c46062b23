-------------------------- MODULE ThreadPoolProofs --------------------------
(***************************************************************************)
(* Proofs about the thread pool, for every number of threads and of tasks, *)
(* and, at the end, about the linked list that holds its queue, for every  *)
(* set of addresses.                                                       *)
(***************************************************************************)
EXTENDS ThreadPool, TaskQueue, FiniteSetTheorems, TLAPS

USE ThreadPoolAssumption

(* The threads of the pool are neither main() nor the signalling thread,   *)
(* and nobody is no thread.                                                *)
LEMMA ThreadsDistinct ==
  /\ Main \notin Workers /\ Signal \notin Workers
  /\ Main # Signal
  /\ Nobody \notin Threads
  /\ Workers \subseteq Threads /\ Main \in Threads /\ Signal \in Threads
BY DEF Workers, Threads, Main, Signal, Nobody

(* Every variable keeps its type, whatever thread takes a step.            *)
LEMMA TypeInvariant ==
  TypeOK /\ RequestInBound /\ RunsItsTask /\ [Next]_vars => TypeOK'
<1> SUFFICES ASSUME TypeOK, RequestInBound, RunsItsTask, [Next]_vars
             PROVE  TypeOK'
  OBVIOUS
<1> USE ThreadsDistinct DEF TypeOK, Goto, Lock, Unlock, queueVars, countVars, taskVars
<1>1. CASE UNCHANGED vars
  BY <1>1 DEF vars
<1>2. CASE MainStep
  <2>1. ASSUME NEW w \in Workers, ThreadInit(w)
        PROVE  TypeOK'
    BY <2>1 DEF ThreadInit, WorkerPoints, MainPoints, SignalPoints
  <2>2. CASE AwaitActive
    BY <2>2 DEF AwaitActive, WorkerPoints, MainPoints, SignalPoints
  <2>3. CASE EnqueueLock
    BY <2>3 DEF EnqueueLock, WorkerPoints, MainPoints, SignalPoints, Mutexes
  <2>4. CASE EnqueueTask
    <3>1. NextThrId(assignedThrId) \in Workers
      BY DEF NextThrId, Workers
    <3>2. submitted + 1 \in 1 .. MaxTasks
      BY <2>4 DEF EnqueueTask, RequestInBound
    <3>3. [num |-> submitted + 1, thr |-> assignedThrId] \in Task
      BY <3>2 DEF Task
    <3>4. taskQ' \in Seq(Task)
      BY <2>4, <3>3 DEF EnqueueTask
    <3>5. pc' \in [Threads -> WorkerPoints \cup MainPoints \cup SignalPoints]
      BY <2>4 DEF EnqueueTask, MainPoints
    <3>6. QED
      BY <2>4, <3>1, <3>2, <3>4, <3>5 DEF EnqueueTask, MainPoints, Mutexes
  <2>5. QED BY <1>2, <2>1, <2>2, <2>3, <2>4 DEF MainStep
<1>3. CASE Request
  BY <1>3 DEF Request, WorkerPoints, MainPoints, SignalPoints
<1>4. CASE SignalStep
  <2>1. CASE PollLock
    BY <2>1 DEF PollLock, WorkerPoints, MainPoints, SignalPoints, Mutexes
  <2>2. CASE Poll
    BY <2>2 DEF Poll, WorkerPoints, MainPoints, SignalPoints
  <2>3. CASE PostLock
    BY <2>3 DEF PostLock, WorkerPoints, MainPoints, SignalPoints, Mutexes
  <2>4. CASE Post
    BY <2>4 DEF Post, Posted, WakeAll, WorkerPoints, MainPoints, SignalPoints, Mutexes
  <2>5. CASE PollUnlock
    BY <2>5 DEF PollUnlock, WorkerPoints, MainPoints, SignalPoints, Mutexes
  <2>6. QED BY <1>4, <2>1, <2>2, <2>3, <2>4, <2>5 DEF SignalStep
<1>5. ASSUME NEW w \in Workers, WorkerStep(w)
      PROVE  TypeOK'
  <2>1. CASE StartLock(w)
    BY <2>1 DEF StartLock, WorkerPoints, MainPoints, SignalPoints, Mutexes
  <2>2. CASE StartInc(w)
    BY <2>2 DEF StartInc, WorkerPoints, MainPoints, SignalPoints, Mutexes
  <2>3. CASE SemLock(w)
    BY <2>3 DEF SemLock, WorkerPoints, MainPoints, SignalPoints, Mutexes
  <2>4. CASE SemSleep(w)
    BY <2>4 DEF SemSleep, WorkerPoints, MainPoints, SignalPoints, Mutexes
  <2>5. CASE SemPass(w)
    BY <2>5 DEF SemPass, WorkerPoints, MainPoints, SignalPoints, Mutexes
  <2>6. CASE WorkLock(w)
    BY <2>6 DEF WorkLock, WorkerPoints, MainPoints, SignalPoints, Mutexes
  <2>7. CASE WorkInc(w)
    BY <2>7 DEF WorkInc, WorkerPoints, MainPoints, SignalPoints, Mutexes
  <2>8. CASE DequeueLock(w)
    BY <2>8 DEF DequeueLock, WorkerPoints, MainPoints, SignalPoints, Mutexes
  <2>9. CASE DequeueTask(w)
    BY <2>9 DEF DequeueTask, Dequeued, WorkerPoints, MainPoints, SignalPoints, Mutexes
  <2>10. CASE DequeueNothing(w)
    BY <2>10 DEF DequeueNothing, WorkerPoints, MainPoints, SignalPoints, Mutexes
  <2>11. CASE Execute(w)
    <3>1. taskPtr[w].num \in 1 .. MaxTasks
      BY <2>11 DEF Execute, RunsItsTask, Task, NoTask
    <3>2. QED BY <2>11, <3>1 DEF Execute, WorkerPoints, MainPoints, SignalPoints
  <2>12. CASE IdleLock(w)
    BY <2>12 DEF IdleLock, WorkerPoints, MainPoints, SignalPoints, Mutexes
  <2>13. CASE IdleDec(w)
    BY <2>13 DEF IdleDec, WorkerPoints, MainPoints, SignalPoints, Mutexes
  <2>14. QED
    BY <1>5, <2>1, <2>2, <2>3, <2>4, <2>5, <2>6, <2>7, <2>8, <2>9, <2>10,
       <2>11, <2>12, <2>13 DEF WorkerStep
<1>6. ASSUME NEW w \in Workers, SpuriousWakeup(w)
      PROVE  TypeOK'
  BY <1>6 DEF SpuriousWakeup, WorkerPoints, MainPoints, SignalPoints
<1>7. QED BY <1>1, <1>2, <1>3, <1>4, <1>5, <1>6 DEF Next

(* What the queue holds is a task: not NULL, and assigned to a thread.     *)
LEMMA HeadIsTask ==
  ASSUME taskQ \in Seq(Task), taskQ # <<>>
  PROVE  Head(taskQ) \in Task /\ Head(taskQ).num # 0 /\ Head(taskQ).thr \in Workers
<1>1. Head(taskQ) \in Task
  OBVIOUS
<1>2. QED BY <1>1 DEF Task

(* Who holds a mutex stays right when a thread takes a free mutex with it, *)
(* gives its own up, or when no control point enters or leaves the lock.   *)
LEMMA MutexTaken ==
  ASSUME TypeOK, MutexHeld, NEW p \in Threads, NEW m \in Mutexes, NEW from, NEW to,
         Lock(p, m, from, to),
         \A k \in Mutexes : to \in Inside(k) <=> k = m \/ from \in Inside(k)
  PROVE  MutexHeld'
<1>1. /\ pc[p] = from /\ pc' = [pc EXCEPT ![p] = to]
      /\ owner[m] = Nobody /\ owner' = [owner EXCEPT ![m] = p]
      /\ DOMAIN pc = Threads /\ DOMAIN owner = Mutexes
  BY DEF Lock, Goto, TypeOK
<1>2. \A q \in Threads : q # Nobody
  BY ThreadsDistinct
<1>3. SUFFICES ASSUME NEW k \in Mutexes, NEW q \in Threads
               PROVE  owner'[k] = q <=> pc'[q] \in Inside(k)
  BY DEF MutexHeld
<1>4. owner[k] = q <=> pc[q] \in Inside(k)
  BY DEF MutexHeld
<1>5. k = m => owner'[k] = p /\ owner[k] = Nobody
  BY <1>1
<1>6. k # m => owner'[k] = owner[k]
  BY <1>1
<1>7. q = p => pc'[q] = to
  BY <1>1
<1>8. q # p => pc'[q] = pc[q]
  BY <1>1
<1>9. QED BY <1>1, <1>2, <1>4, <1>5, <1>6, <1>7, <1>8

(* The same when a mutex is given up.                                      *)
LEMMA MutexGivenUp ==
  ASSUME TypeOK, MutexHeld, NEW p \in Threads, NEW m \in Mutexes, NEW from, NEW to,
         Unlock(p, m, from, to),
         \A k \in Mutexes : from \in Inside(k) <=> k = m \/ to \in Inside(k),
         to \notin Inside(m)
  PROVE  MutexHeld'
<1>1. /\ pc[p] = from /\ pc' = [pc EXCEPT ![p] = to]
      /\ owner' = [owner EXCEPT ![m] = Nobody]
      /\ DOMAIN pc = Threads /\ DOMAIN owner = Mutexes
  BY DEF Unlock, Goto, TypeOK
<1>2. \A q \in Threads : q # Nobody
  BY ThreadsDistinct
<1>3. SUFFICES ASSUME NEW k \in Mutexes, NEW q \in Threads
               PROVE  owner'[k] = q <=> pc'[q] \in Inside(k)
  BY DEF MutexHeld
<1>4. /\ owner[k] = q <=> pc[q] \in Inside(k)
      /\ owner[m] = p <=> pc[p] \in Inside(m)
  BY DEF MutexHeld
<1>5. k = m => owner'[k] = Nobody
  BY <1>1
<1>6. k # m => owner'[k] = owner[k]
  BY <1>1
<1>7. q = p => pc'[q] = to
  BY <1>1
<1>8. q # p => pc'[q] = pc[q]
  BY <1>1
<1>9. QED BY <1>1, <1>2, <1>4, <1>5, <1>6, <1>7, <1>8

(* The same when no thread enters or leaves a lock.                        *)
LEMMA MutexUntouched ==
  ASSUME MutexHeld, owner' = owner,
         \A p \in Threads : \A k \in Mutexes :
            pc'[p] \in Inside(k) <=> pc[p] \in Inside(k)
  PROVE  MutexHeld'
BY DEF MutexHeld

(* The same for a move of one thread that takes no mutex.                  *)
LEMMA MutexMoves ==
  ASSUME TypeOK, MutexHeld, NEW p \in Threads, NEW from, NEW to, Goto(p, from, to),
         owner' = owner,
         \A k \in Mutexes : to \in Inside(k) <=> from \in Inside(k)
  PROVE  MutexHeld'
<1>1. pc[p] = from /\ pc' = [pc EXCEPT ![p] = to] /\ DOMAIN pc = Threads
  BY DEF Goto, TypeOK
<1>2. QED BY <1>1, MutexUntouched

(* A mutex is taken only when it is free and given up by its owner.        *)
LEMMA MutexInvariant ==
  TypeOK /\ SignalComesLast /\ MutexHeld /\ [Next]_vars => MutexHeld'
<1> SUFFICES ASSUME TypeOK, SignalComesLast, MutexHeld, [Next]_vars
             PROVE  MutexHeld'
  OBVIOUS
<1> USE ThreadsDistinct
<1>1. CASE UNCHANGED vars
  BY <1>1, MutexUntouched DEF vars
<1>2. CASE MainStep
  <2>1. ASSUME NEW w \in Workers, ThreadInit(w)
        PROVE  MutexHeld'
    <3>1. /\ pc[Main] = "spawn" /\ pc[w] = "unborn" /\ owner' = owner
          /\ pc' = [pc EXCEPT ![w] = "startLock",
                              ![Main] = IF w = THR_NUM - 1 THEN "await" ELSE "spawn"]
          /\ DOMAIN pc = Threads /\ w # Main
      BY <2>1 DEF ThreadInit, TypeOK
    <3>2. /\ pc'[w] = "startLock" /\ pc'[Main] \in {"await", "spawn"}
          /\ \A p \in Threads \ {w, Main} : pc'[p] = pc[p]
      BY <3>1
    <3>3. \A k \in Mutexes :
             {"spawn", "await", "unborn", "startLock"} \cap Inside(k) = {}
      BY DEF Mutexes, Inside
    <3>4. QED BY <3>1, <3>2, <3>3, MutexUntouched
  <2>2. CASE AwaitActive
    <3>1. /\ pc[Main] = "await" /\ pc[Signal] = "unborn" /\ owner' = owner
          /\ pc' = [pc EXCEPT ![Main] = "serve", ![Signal] = "pollLock"]
          /\ DOMAIN pc = Threads
      BY <2>2 DEF AwaitActive, SignalComesLast, TypeOK
    <3>2. /\ pc'[Main] = "serve" /\ pc'[Signal] = "pollLock"
          /\ \A p \in Threads \ {Main, Signal} : pc'[p] = pc[p]
      BY <3>1
    <3>3. \A k \in Mutexes :
             {"await", "serve", "unborn", "pollLock"} \cap Inside(k) = {}
      BY DEF Mutexes, Inside
    <3>4. QED BY <3>1, <3>2, <3>3, MutexUntouched
  <2>3. CASE EnqueueLock
    <3>1. \A k \in Mutexes : "enq" \in Inside(k) <=> k = "mutexQueueRW" \/ "enqLock" \in Inside(k)
      BY DEF Mutexes, Inside
    <3>2. QED BY <2>3, <3>1, MutexTaken DEF EnqueueLock, Mutexes
  <2>4. CASE EnqueueTask
    <3>1. \A k \in Mutexes : "enq" \in Inside(k) <=> k = "mutexQueueRW" \/ "serve" \in Inside(k)
      BY DEF Mutexes, Inside
    <3>2. "serve" \notin Inside("mutexQueueRW")
      BY DEF Inside
    <3>3. Unlock(Main, "mutexQueueRW", "enq", "serve")
      BY <2>4 DEF EnqueueTask
    <3>4. QED BY <3>1, <3>2, <3>3, MutexGivenUp DEF Mutexes
  <2>5. QED BY <1>2, <2>1, <2>2, <2>3, <2>4 DEF MainStep
<1>3. CASE Request
  <2>1. \A k \in Mutexes : "enqLock" \in Inside(k) <=> "serve" \in Inside(k)
    BY DEF Mutexes, Inside
  <2>2. QED BY <1>3, <2>1, MutexMoves DEF Request
<1>4. CASE SignalStep
  <2>1. CASE PollLock
    <3>1. \A k \in Mutexes : "poll" \in Inside(k) <=> k = "mutexQueueRW" \/ "pollLock" \in Inside(k)
      BY DEF Mutexes, Inside
    <3>2. Lock(Signal, "mutexQueueRW", "pollLock", "poll")
      BY <2>1 DEF PollLock
    <3>3. QED BY <3>1, <3>2, MutexTaken DEF Mutexes
  <2>2. CASE Poll
    <3>1. \E to \in {"pollUnlock", "postLock"} : Goto(Signal, "poll", to)
      BY <2>2 DEF Poll, Goto
    <3>2. \A k \in Mutexes : \A to \in {"pollUnlock", "postLock"} :
             to \in Inside(k) <=> "poll" \in Inside(k)
      BY DEF Mutexes, Inside
    <3>3. owner' = owner
      BY <2>2 DEF Poll
    <3>4. QED BY <3>1, <3>2, <3>3, MutexMoves
  <2>3. CASE PostLock
    <3>1. \A k \in Mutexes : "post" \in Inside(k) <=> k = "semMutex" \/ "postLock" \in Inside(k)
      BY DEF Mutexes, Inside
    <3>2. Lock(Signal, "semMutex", "postLock", "post")
      BY <2>3 DEF PostLock
    <3>3. QED BY <3>1, <3>2, MutexTaken DEF Mutexes
  <2>4. CASE Post
    <3>1. /\ pc[Signal] = "post" /\ owner' = [owner EXCEPT !["semMutex"] = Nobody]
          /\ pc' = [WakeAll(pc) EXCEPT ![Signal] = "pollUnlock"]
          /\ DOMAIN owner = Mutexes /\ "semMutex" \in Mutexes
      BY <2>4 DEF Post, TypeOK, Mutexes
    <3>2. /\ pc'[Signal] = "pollUnlock"
          /\ \A p \in Threads \ {Signal} :
                pc'[p] = IF pc[p] = "semSleep" THEN "semLock" ELSE pc[p]
      BY <3>1 DEF WakeAll
    <3>3. /\ \A k \in Mutexes : {"semSleep", "semLock"} \cap Inside(k) = {}
          /\ \A k \in Mutexes : "pollUnlock" \in Inside(k) <=> k = "mutexQueueRW"
      BY DEF Mutexes, Inside
    <3>4. "post" \in Inside("mutexQueueRW") /\ "post" \in Inside("semMutex")
      BY DEF Inside
    <3>5. \A k \in Mutexes : "post" \in Inside(k) => k # "mutexThreadCnt"
      BY DEF Inside
    <3>6. \A k \in Mutexes : k # "semMutex" /\ k # "mutexThreadCnt" => k = "mutexQueueRW"
      BY DEF Mutexes
    <3>7. Signal \in Threads /\ "mutexQueueRW" \in Mutexes
      BY DEF Threads, Mutexes
    <3>8. owner["semMutex"] = Signal /\ owner["mutexQueueRW"] = Signal
      BY <3>1, <3>4, <3>7 DEF MutexHeld
    <3>9. owner'["semMutex"] = Nobody
          /\ \A k \in Mutexes : k # "semMutex" => owner'[k] = owner[k]
      BY <3>1
    <3>10. ASSUME NEW k \in Mutexes, NEW q \in Threads, k # "semMutex"
           PROVE  owner'[k] = q <=> pc'[q] \in Inside(k)
      <4>1. owner[k] = q <=> pc[q] \in Inside(k)
        BY DEF MutexHeld
      <4>2. owner'[k] = owner[k]
        BY <3>9, <3>10
      <4>3. CASE q = Signal
        <5>1. pc[q] \in Inside(k) <=> k = "mutexQueueRW"
          BY <3>1, <3>4, <3>5, <3>6, <3>10, <4>3
        <5>2. QED BY <3>2, <3>3, <4>1, <4>2, <4>3, <5>1
      <4>4. CASE q # Signal
        <5>1. pc'[q] = pc[q] \/ (pc[q] = "semSleep" /\ pc'[q] = "semLock")
          BY <3>2, <4>4
        <5>2. "semSleep" \notin Inside(k) /\ "semLock" \notin Inside(k)
          BY <3>3
        <5>3. QED BY <4>1, <4>2, <5>1, <5>2
      <4>5. QED BY <4>3, <4>4
    <3>11. ASSUME NEW q \in Threads
           PROVE  owner'["semMutex"] = q <=> pc'[q] \in Inside("semMutex")
      <4>1. owner["semMutex"] = q <=> pc[q] \in Inside("semMutex")
        BY <3>1 DEF MutexHeld
      <4>2. q # Nobody
        BY ThreadsDistinct
      <4>3. CASE q = Signal
        <5>1. "pollUnlock" \notin Inside("semMutex")
          BY <3>1, <3>3
        <5>2. QED BY <3>2, <3>9, <4>2, <4>3, <5>1
      <4>4. CASE q # Signal
        <5>1. pc[q] \notin Inside("semMutex")
          BY <3>8, <4>1, <4>4
        <5>2. pc'[q] = pc[q] \/ pc'[q] = "semLock"
          BY <3>2, <4>4
        <5>3. "semLock" \notin Inside("semMutex")
          BY <3>1, <3>3
        <5>4. QED BY <3>9, <4>2, <5>1, <5>2, <5>3
      <4>5. QED BY <4>3, <4>4
    <3>12. \A k \in Mutexes, q \in Threads : owner'[k] = q <=> pc'[q] \in Inside(k)
      BY <3>10, <3>11
    <3>13. QED BY <3>12 DEF MutexHeld
  <2>5. CASE PollUnlock
    <3>1. \A k \in Mutexes : "pollUnlock" \in Inside(k) <=> k = "mutexQueueRW" \/ "pollLock" \in Inside(k)
      BY DEF Mutexes, Inside
    <3>2. "pollLock" \notin Inside("mutexQueueRW")
      BY DEF Inside
    <3>3. Unlock(Signal, "mutexQueueRW", "pollUnlock", "pollLock")
      BY <2>5 DEF PollUnlock
    <3>4. QED BY <3>1, <3>2, <3>3, MutexGivenUp DEF Mutexes
  <2>6. QED BY <1>4, <2>1, <2>2, <2>3, <2>4, <2>5 DEF SignalStep
<1>5. ASSUME NEW w \in Workers, WorkerStep(w)
      PROVE  MutexHeld'
  <2>1. CASE StartLock(w)
    <3>1. \A k \in Mutexes : "startInc" \in Inside(k) <=> k = "mutexThreadCnt" \/ "startLock" \in Inside(k)
      BY DEF Mutexes, Inside
    <3>2. Lock(w, "mutexThreadCnt", "startLock", "startInc")
      BY <2>1 DEF StartLock
    <3>3. QED BY <3>1, <3>2, MutexTaken DEF Mutexes
  <2>2. CASE StartInc(w)
    <3>1. \A k \in Mutexes : "startInc" \in Inside(k) <=> k = "mutexThreadCnt" \/ "semLock" \in Inside(k)
      BY DEF Mutexes, Inside
    <3>2. "semLock" \notin Inside("mutexThreadCnt")
      BY DEF Inside
    <3>3. Unlock(w, "mutexThreadCnt", "startInc", "semLock")
      BY <2>2 DEF StartInc
    <3>4. QED BY <3>1, <3>2, <3>3, MutexGivenUp DEF Mutexes
  <2>3. CASE SemLock(w)
    <3>1. \A k \in Mutexes : "semCheck" \in Inside(k) <=> k = "semMutex" \/ "semLock" \in Inside(k)
      BY DEF Mutexes, Inside
    <3>2. Lock(w, "semMutex", "semLock", "semCheck")
      BY <2>3 DEF SemLock
    <3>3. QED BY <3>1, <3>2, MutexTaken DEF Mutexes
  <2>4. CASE SemSleep(w)
    <3>1. \A k \in Mutexes : "semCheck" \in Inside(k) <=> k = "semMutex" \/ "semSleep" \in Inside(k)
      BY DEF Mutexes, Inside
    <3>2. "semSleep" \notin Inside("semMutex")
      BY DEF Inside
    <3>3. Unlock(w, "semMutex", "semCheck", "semSleep")
      BY <2>4 DEF SemSleep
    <3>4. QED BY <3>1, <3>2, <3>3, MutexGivenUp DEF Mutexes
  <2>5. CASE SemPass(w)
    <3>1. \A k \in Mutexes : "semCheck" \in Inside(k) <=> k = "semMutex" \/ "workLock" \in Inside(k)
      BY DEF Mutexes, Inside
    <3>2. "workLock" \notin Inside("semMutex")
      BY DEF Inside
    <3>3. Unlock(w, "semMutex", "semCheck", "workLock")
      BY <2>5 DEF SemPass
    <3>4. QED BY <3>1, <3>2, <3>3, MutexGivenUp DEF Mutexes
  <2>6. CASE WorkLock(w)
    <3>1. \A k \in Mutexes : "workInc" \in Inside(k) <=> k = "mutexThreadCnt" \/ "workLock" \in Inside(k)
      BY DEF Mutexes, Inside
    <3>2. Lock(w, "mutexThreadCnt", "workLock", "workInc")
      BY <2>6 DEF WorkLock
    <3>3. QED BY <3>1, <3>2, MutexTaken DEF Mutexes
  <2>7. CASE WorkInc(w)
    <3>1. \A k \in Mutexes : "workInc" \in Inside(k) <=> k = "mutexThreadCnt" \/ "deqLock" \in Inside(k)
      BY DEF Mutexes, Inside
    <3>2. "deqLock" \notin Inside("mutexThreadCnt")
      BY DEF Inside
    <3>3. Unlock(w, "mutexThreadCnt", "workInc", "deqLock")
      BY <2>7 DEF WorkInc
    <3>4. QED BY <3>1, <3>2, <3>3, MutexGivenUp DEF Mutexes
  <2>8. CASE DequeueLock(w)
    <3>1. \A k \in Mutexes : "deq" \in Inside(k) <=> k = "mutexQueueRW" \/ "deqLock" \in Inside(k)
      BY DEF Mutexes, Inside
    <3>2. Lock(w, "mutexQueueRW", "deqLock", "deq")
      BY <2>8 DEF DequeueLock
    <3>3. QED BY <3>1, <3>2, MutexTaken DEF Mutexes
  <2>9. CASE DequeueTask(w)
    <3>1. \A k \in Mutexes : "deq" \in Inside(k) <=> k = "mutexQueueRW" \/ "run" \in Inside(k)
      BY DEF Mutexes, Inside
    <3>2. "run" \notin Inside("mutexQueueRW")
      BY DEF Inside
    <3>3. Unlock(w, "mutexQueueRW", "deq", "run")
      BY <2>9 DEF DequeueTask
    <3>4. QED BY <3>1, <3>2, <3>3, MutexGivenUp DEF Mutexes
  <2>10. CASE DequeueNothing(w)
    <3>1. \A k \in Mutexes : "deq" \in Inside(k) <=> k = "mutexQueueRW" \/ "idleLock" \in Inside(k)
      BY DEF Mutexes, Inside
    <3>2. "idleLock" \notin Inside("mutexQueueRW")
      BY DEF Inside
    <3>3. Unlock(w, "mutexQueueRW", "deq", "idleLock")
      BY <2>10 DEF DequeueNothing
    <3>4. QED BY <3>1, <3>2, <3>3, MutexGivenUp DEF Mutexes
  <2>11. CASE Execute(w)
    <3>1. \A k \in Mutexes : "idleLock" \in Inside(k) <=> "run" \in Inside(k)
      BY DEF Mutexes, Inside
    <3>2. Goto(w, "run", "idleLock") /\ owner' = owner
      BY <2>11 DEF Execute
    <3>3. QED BY <3>1, <3>2, MutexMoves
  <2>12. CASE IdleLock(w)
    <3>1. \A k \in Mutexes : "idleDec" \in Inside(k) <=> k = "mutexThreadCnt" \/ "idleLock" \in Inside(k)
      BY DEF Mutexes, Inside
    <3>2. Lock(w, "mutexThreadCnt", "idleLock", "idleDec")
      BY <2>12 DEF IdleLock
    <3>3. QED BY <3>1, <3>2, MutexTaken DEF Mutexes
  <2>13. CASE IdleDec(w)
    <3>1. \A k \in Mutexes : "idleDec" \in Inside(k) <=> k = "mutexThreadCnt" \/ "semLock" \in Inside(k)
      BY DEF Mutexes, Inside
    <3>2. "semLock" \notin Inside("mutexThreadCnt")
      BY DEF Inside
    <3>3. Unlock(w, "mutexThreadCnt", "idleDec", "semLock")
      BY <2>13 DEF IdleDec
    <3>4. QED BY <3>1, <3>2, <3>3, MutexGivenUp DEF Mutexes
  <2>14. QED
    BY <1>5, <2>1, <2>2, <2>3, <2>4, <2>5, <2>6, <2>7, <2>8, <2>9, <2>10,
       <2>11, <2>12, <2>13 DEF WorkerStep
<1>6. ASSUME NEW w \in Workers, SpuriousWakeup(w)
      PROVE  MutexHeld'
  <2>1. \A k \in Mutexes : "semLock" \in Inside(k) <=> "semSleep" \in Inside(k)
    BY DEF Mutexes, Inside
  <2>2. Goto(w, "semSleep", "semLock") /\ owner' = owner
    BY <1>6 DEF SpuriousWakeup
  <2>3. QED BY <2>1, <2>2, MutexMoves
<1>7. QED BY <1>1, <1>2, <1>3, <1>4, <1>5, <1>6 DEF Next

(* main() asks for an enqueue only below the bound, the signalling thread  *)
(* comes last, and a thread of the pool holds a task only between          *)
(* dequeueTask and the end of the task's function.                         *)
LocalInv == RequestInBound /\ SignalComesLast /\ RunsItsTask /\ Len(taskQ) <= submitted

LEMMA LocalInvariant == TypeOK /\ LocalInv /\ [Next]_vars => LocalInv'
<1> SUFFICES ASSUME TypeOK, LocalInv, [Next]_vars
             PROVE  LocalInv'
  OBVIOUS
<1> USE ThreadsDistinct DEF TypeOK, LocalInv, RequestInBound, SignalComesLast, RunsItsTask,
                            Goto, Lock, Unlock, queueVars, countVars, taskVars, Task, NoTask
<1>1. CASE UNCHANGED vars
  BY <1>1 DEF vars
<1>2. CASE MainStep
  <2>1. ASSUME NEW w \in Workers, ThreadInit(w)
        PROVE  LocalInv'
    BY <2>1 DEF ThreadInit
  <2>2. CASE AwaitActive
    BY <2>2 DEF AwaitActive
  <2>3. CASE EnqueueLock
    BY <2>3 DEF EnqueueLock
  <2>4. CASE EnqueueTask
    BY <2>4 DEF EnqueueTask
  <2>5. QED BY <1>2, <2>1, <2>2, <2>3, <2>4 DEF MainStep
<1>3. CASE Request
  BY <1>3 DEF Request
<1>4. CASE SignalStep
  <2>1. CASE PollLock
    BY <2>1 DEF PollLock
  <2>2. CASE Poll
    BY <2>2 DEF Poll
  <2>3. CASE PostLock
    BY <2>3 DEF PostLock
  <2>4. CASE Post
    BY <2>4 DEF Post, WakeAll
  <2>5. CASE PollUnlock
    BY <2>5 DEF PollUnlock
  <2>6. QED BY <1>4, <2>1, <2>2, <2>3, <2>4, <2>5 DEF SignalStep
<1>5. ASSUME NEW w \in Workers, WorkerStep(w)
      PROVE  LocalInv'
  <2>1. CASE StartLock(w)
    BY <2>1 DEF StartLock
  <2>2. CASE StartInc(w)
    BY <2>2 DEF StartInc
  <2>3. CASE SemLock(w)
    BY <2>3 DEF SemLock
  <2>4. CASE SemSleep(w)
    BY <2>4 DEF SemSleep
  <2>5. CASE SemPass(w)
    BY <2>5 DEF SemPass
  <2>6. CASE WorkLock(w)
    BY <2>6 DEF WorkLock
  <2>7. CASE WorkInc(w)
    BY <2>7 DEF WorkInc
  <2>8. CASE DequeueLock(w)
    BY <2>8 DEF DequeueLock
  <2>9. CASE DequeueTask(w)
    <3>1. Len(taskQ') <= Len(taskQ)
      BY <2>9 DEF DequeueTask, Dequeued
    <3>2. Head(taskQ).num # 0
      BY <2>9, HeadIsTask DEF DequeueTask
    <3>3. QED BY <2>9, <3>1, <3>2 DEF DequeueTask
  <2>10. CASE DequeueNothing(w)
    BY <2>10 DEF DequeueNothing
  <2>11. CASE Execute(w)
    BY <2>11 DEF Execute
  <2>12. CASE IdleLock(w)
    BY <2>12 DEF IdleLock
  <2>13. CASE IdleDec(w)
    BY <2>13 DEF IdleDec
  <2>14. QED
    BY <1>5, <2>1, <2>2, <2>3, <2>4, <2>5, <2>6, <2>7, <2>8, <2>9, <2>10,
       <2>11, <2>12, <2>13 DEF WorkerStep
<1>6. ASSUME NEW w \in Workers, SpuriousWakeup(w)
      PROVE  LocalInv'
  BY <1>6 DEF SpuriousWakeup
<1>7. QED BY <1>1, <1>2, <1>3, <1>4, <1>5, <1>6 DEF Next

-----------------------------------------------------------------------------
(* Tasks                                                                   *)

(* Only an enqueue, a dequeue and the end of a task's function change what *)
(* the pool knows about tasks.                                             *)
LEMMA TaskSteps ==
  ASSUME [Next]_vars
  PROVE  \/ EnqueueTask
         \/ \E w \in Workers : DequeueTask(w) \/ Execute(w)
         \/ UNCHANGED <<taskQ, submitted, taskPtr, finished>>
BY DEF Next, MainStep, SignalStep, WorkerStep, vars, queueVars, countVars, taskVars,
       ThreadInit, AwaitActive, EnqueueLock, Request, PollLock, Poll, PostLock, Post,
       PollUnlock, StartLock, StartInc, SemLock, SemSleep, SemPass, SpuriousWakeup,
       WorkLock, WorkInc, DequeueLock, DequeueNothing, IdleLock, IdleDec

(* No task is lost, executed twice or held by two threads.                 *)
LEMMA TasksInvariant ==
  TypeOK /\ LocalInv /\ TasksConserved /\ [Next]_vars => TasksConserved'
<1> SUFFICES ASSUME TypeOK, LocalInv, TasksConserved, [Next]_vars
             PROVE  TasksConserved'
  OBVIOUS
<1>1. Started \in Nat /\ Len(taskQ) \in Nat /\ submitted \in Nat
  BY DEF TypeOK, LocalInv, Started
<1>2. \A w \in Workers : taskPtr[w].num \in Nat /\ (pc[w] # "run" => taskPtr[w].num = 0)
  BY DEF TypeOK, LocalInv, RunsItsTask, Task, NoTask
<1>3. CASE EnqueueTask
  <2>1. /\ Len(taskQ') = Len(taskQ) + 1
        /\ \A i \in 1 .. Len(taskQ) : taskQ'[i] = taskQ[i]
        /\ taskQ'[Len(taskQ) + 1].num = submitted + 1
        /\ submitted' = submitted + 1
        /\ UNCHANGED <<taskPtr, finished>>
    BY <1>3 DEF EnqueueTask, TypeOK, taskVars
  <2>2. Started' = Started
    BY <1>1, <2>1 DEF Started
  <2>3. \A i \in 1 .. Len(taskQ') : taskQ'[i].num = Started' + i
    <3> SUFFICES ASSUME NEW i \in 1 .. Len(taskQ) + 1
                 PROVE  taskQ'[i].num = Started + i
      BY <2>1, <2>2
    <3>1. CASE i = Len(taskQ) + 1
      BY <1>1, <2>1, <3>1 DEF Started
    <3>2. CASE i \in 1 .. Len(taskQ)
      BY <2>1, <3>2 DEF TasksConserved
    <3>3. QED BY <1>1, <3>1, <3>2
  <2>4. QED BY <2>1, <2>2, <2>3 DEF TasksConserved
<1>4. ASSUME NEW w \in Workers, DequeueTask(w)
      PROVE  TasksConserved'
  <2>1. /\ Len(taskQ) > 0
        /\ Len(taskQ') = Len(taskQ) - 1
        /\ \A i \in 1 .. Len(taskQ') : taskQ'[i] = taskQ[i + 1]
        /\ taskPtr' = [taskPtr EXCEPT ![w] = taskQ[1]]
        /\ taskPtr[w].num = 0
        /\ UNCHANGED <<submitted, finished>>
    BY <1>2, <1>4 DEF DequeueTask, Dequeued, TypeOK, Unlock, Goto
  <2>2. Started' = Started + 1
    BY <1>1, <2>1 DEF Started
  <2>3. taskPtr'[w].num = Started + 1 /\ \A v \in Workers \ {w} : taskPtr'[v] = taskPtr[v]
    BY <1>1, <2>1 DEF TasksConserved, TypeOK
  <2>4. \A i \in 1 .. Len(taskQ') : taskQ'[i].num = Started' + i
    BY <1>1, <2>1, <2>2 DEF TasksConserved
  <2>5. finished' \subseteq 1 .. Started'
    BY <1>1, <2>1, <2>2 DEF TasksConserved
  <2>6. \A v \in Workers : taskPtr'[v].num \in (0 .. Started') \ finished'
    BY <1>1, <1>2, <2>1, <2>2, <2>3 DEF TasksConserved
  <2>7. \A u, v \in Workers :
           u # v /\ taskPtr'[u].num # 0 => taskPtr'[u].num # taskPtr'[v].num
    BY <1>1, <1>2, <2>2, <2>3 DEF TasksConserved
  <2>8. \A n \in 1 .. Started' :
           n \in finished' \/ \E v \in Workers : taskPtr'[v].num = n
    <3> SUFFICES ASSUME NEW n \in 1 .. Started', n \notin finished'
                 PROVE  \E v \in Workers : taskPtr'[v].num = n
      OBVIOUS
    <3>1. CASE n = Started + 1
      BY <2>3, <3>1
    <3>2. CASE n \in 1 .. Started
      <4>1. PICK v \in Workers : taskPtr[v].num = n
        BY <2>1, <3>2 DEF TasksConserved
      <4>2. v # w
        BY <2>1, <3>2, <4>1
      <4>3. QED BY <2>3, <4>1, <4>2
    <3>3. QED BY <1>1, <2>2, <3>1, <3>2
  <2>9. QED BY <2>4, <2>5, <2>6, <2>7, <2>8 DEF TasksConserved
<1>5. ASSUME NEW w \in Workers, Execute(w)
      PROVE  TasksConserved'
  <2>1. /\ UNCHANGED <<taskQ, submitted>>
        /\ finished' = finished \cup {taskPtr[w].num}
        /\ taskPtr[w].num # 0
        /\ taskPtr'[w].num = 0
        /\ \A v \in Workers \ {w} : taskPtr'[v] = taskPtr[v]
    BY <1>5 DEF Execute, TypeOK, LocalInv, RunsItsTask, Goto, queueVars, NoTask
  <2>2. Started' = Started
    BY <2>1 DEF Started
  <2>3. finished' \subseteq 1 .. Started'
    <3>1. taskPtr[w].num \in 1 .. Started
      BY <1>1, <1>2, <1>5, <2>1 DEF TasksConserved
    <3>2. QED BY <2>1, <2>2, <3>1 DEF TasksConserved
  <2>4. \A v \in Workers : taskPtr'[v].num \in (0 .. Started') \ finished'
    BY <1>1, <1>2, <2>1, <2>2 DEF TasksConserved
  <2>5. \A u, v \in Workers :
           u # v /\ taskPtr'[u].num # 0 => taskPtr'[u].num # taskPtr'[v].num
    BY <1>1, <1>2, <2>1 DEF TasksConserved
  <2>6. \A n \in 1 .. Started' :
           n \in finished' \/ \E v \in Workers : taskPtr'[v].num = n
    BY <1>1, <2>1, <2>2 DEF TasksConserved
  <2>7. QED BY <2>1, <2>2, <2>3, <2>4, <2>5, <2>6 DEF TasksConserved
<1>6. CASE UNCHANGED <<taskQ, submitted, taskPtr, finished>>
  BY <1>6 DEF TasksConserved, Started
<1>7. QED BY <1>3, <1>4, <1>5, <1>6, TaskSteps

-----------------------------------------------------------------------------
(* The post                                                                *)

(* Only a post turns flags on, and it wakes every sleeper.                 *)
LEMMA SleepInvariant ==
  TypeOK /\ NoSleepWhilePosted /\ [Next]_vars => NoSleepWhilePosted'
<1> SUFFICES ASSUME TypeOK, NoSleepWhilePosted, [Next]_vars
             PROVE  NoSleepWhilePosted'
  OBVIOUS
<1> USE ThreadsDistinct DEF TypeOK, NoSleepWhilePosted, Goto, Lock, Unlock
<1>1. CASE UNCHANGED vars
  BY <1>1 DEF vars
<1>2. CASE MainStep
  <2>1. ASSUME NEW w \in Workers, ThreadInit(w)
        PROVE  NoSleepWhilePosted'
    BY <2>1 DEF ThreadInit
  <2>2. CASE AwaitActive
    BY <2>2 DEF AwaitActive
  <2>3. CASE EnqueueLock
    BY <2>3 DEF EnqueueLock
  <2>4. CASE EnqueueTask
    BY <2>4 DEF EnqueueTask
  <2>5. QED BY <1>2, <2>1, <2>2, <2>3, <2>4 DEF MainStep
<1>3. CASE Request
  BY <1>3 DEF Request
<1>4. CASE SignalStep
  <2>1. CASE PollLock
    BY <2>1 DEF PollLock
  <2>2. CASE Poll
    BY <2>2 DEF Poll
  <2>3. CASE PostLock
    BY <2>3 DEF PostLock
  <2>4. CASE Post
    BY <2>4 DEF Post, WakeAll
  <2>5. CASE PollUnlock
    BY <2>5 DEF PollUnlock
  <2>6. QED BY <1>4, <2>1, <2>2, <2>3, <2>4, <2>5 DEF SignalStep
<1>5. ASSUME NEW w \in Workers, WorkerStep(w)
      PROVE  NoSleepWhilePosted'
  <2>1. CASE StartLock(w)
    BY <2>1 DEF StartLock
  <2>2. CASE StartInc(w)
    BY <2>2 DEF StartInc
  <2>3. CASE SemLock(w)
    BY <2>3 DEF SemLock
  <2>4. CASE SemSleep(w)
    BY <2>4 DEF SemSleep
  <2>5. CASE SemPass(w)
    BY <2>5 DEF SemPass
  <2>6. CASE WorkLock(w)
    BY <2>6 DEF WorkLock
  <2>7. CASE WorkInc(w)
    BY <2>7 DEF WorkInc
  <2>8. CASE DequeueLock(w)
    BY <2>8 DEF DequeueLock
  <2>9. CASE DequeueTask(w)
    BY <2>9 DEF DequeueTask
  <2>10. CASE DequeueNothing(w)
    BY <2>10 DEF DequeueNothing
  <2>11. CASE Execute(w)
    BY <2>11 DEF Execute
  <2>12. CASE IdleLock(w)
    BY <2>12 DEF IdleLock
  <2>13. CASE IdleDec(w)
    BY <2>13 DEF IdleDec
  <2>14. QED
    BY <1>5, <2>1, <2>2, <2>3, <2>4, <2>5, <2>6, <2>7, <2>8, <2>9, <2>10,
       <2>11, <2>12, <2>13 DEF WorkerStep
<1>6. ASSUME NEW w \in Workers, SpuriousWakeup(w)
      PROVE  NoSleepWhilePosted'
  BY <1>6 DEF SpuriousWakeup
<1>7. QED BY <1>1, <1>2, <1>3, <1>4, <1>5, <1>6 DEF Next

(* While the signalling thread holds mutexQueueRW the head stays where it  *)
(* is, and the thread posted for it cannot get past dequeueTask.           *)
LEMMA HeadInvariant ==
  TypeOK /\ MutexHeld /\ HeadIsPosted /\ [Next]_vars => HeadIsPosted'
<1> SUFFICES ASSUME TypeOK, MutexHeld, HeadIsPosted, [Next]_vars
             PROVE  HeadIsPosted'
  OBVIOUS
<1>0. /\ pc[Signal] \in {"poll", "postLock", "post", "pollUnlock"} => owner["mutexQueueRW"] = Signal
      /\ pc[Main] = "enq" => owner["mutexQueueRW"] = Main
      /\ \A w \in Workers : pc[w] = "deq" => owner["mutexQueueRW"] = w
      /\ taskQ # <<>> => Head(taskQ).thr \in Workers
  BY ThreadsDistinct, HeadIsTask DEF TypeOK, MutexHeld, Mutexes, Inside
<1> USE <1>0, ThreadsDistinct DEF TypeOK, HeadIsPosted, Goto, Lock, Unlock, queueVars
<1>1. CASE UNCHANGED vars
  BY <1>1 DEF vars
<1>2. CASE MainStep
  <2>1. ASSUME NEW w \in Workers, ThreadInit(w)
        PROVE  HeadIsPosted'
    BY <2>1 DEF ThreadInit
  <2>2. CASE AwaitActive
    BY <2>2 DEF AwaitActive
  <2>3. CASE EnqueueLock
    BY <2>3 DEF EnqueueLock
  <2>4. CASE EnqueueTask
    BY <2>4 DEF EnqueueTask
  <2>5. QED BY <1>2, <2>1, <2>2, <2>3, <2>4 DEF MainStep
<1>3. CASE Request
  BY <1>3 DEF Request
<1>4. CASE SignalStep
  <2>1. CASE PollLock
    BY <2>1 DEF PollLock
  <2>2. CASE Poll
    BY <2>2 DEF Poll
  <2>3. CASE PostLock
    BY <2>3 DEF PostLock
  <2>4. CASE Post
    BY <2>4 DEF Post, Posted, WakeAll
  <2>5. CASE PollUnlock
    BY <2>5 DEF PollUnlock
  <2>6. QED BY <1>4, <2>1, <2>2, <2>3, <2>4, <2>5 DEF SignalStep
<1>5. ASSUME NEW w \in Workers, WorkerStep(w)
      PROVE  HeadIsPosted'
  <2>1. CASE StartLock(w)
    BY <2>1 DEF StartLock
  <2>2. CASE StartInc(w)
    BY <2>2 DEF StartInc
  <2>3. CASE SemLock(w)
    BY <2>3 DEF SemLock
  <2>4. CASE SemSleep(w)
    BY <2>4 DEF SemSleep
  <2>5. CASE SemPass(w)
    BY <2>5 DEF SemPass
  <2>6. CASE WorkLock(w)
    BY <2>6 DEF WorkLock
  <2>7. CASE WorkInc(w)
    BY <2>7 DEF WorkInc
  <2>8. CASE DequeueLock(w)
    BY <2>8 DEF DequeueLock
  <2>9. CASE DequeueTask(w)
    BY <2>9 DEF DequeueTask
  <2>10. CASE DequeueNothing(w)
    BY <2>10 DEF DequeueNothing
  <2>11. CASE Execute(w)
    BY <2>11 DEF Execute
  <2>12. CASE IdleLock(w)
    BY <2>12 DEF IdleLock
  <2>13. CASE IdleDec(w)
    BY <2>13 DEF IdleDec
  <2>14. QED
    BY <1>5, <2>1, <2>2, <2>3, <2>4, <2>5, <2>6, <2>7, <2>8, <2>9, <2>10,
       <2>11, <2>12, <2>13 DEF WorkerStep
<1>6. ASSUME NEW w \in Workers, SpuriousWakeup(w)
      PROVE  HeadIsPosted'
  BY <1>6 DEF SpuriousWakeup
<1>7. QED BY <1>1, <1>2, <1>3, <1>4, <1>5, <1>6 DEF Next

-----------------------------------------------------------------------------
(* The inductive invariant                                                 *)

(* What TLC checks for three threads holds for every THR_NUM and MaxTasks: *)
(* the control invariants and the three properties of the pool.            *)
THEOREM PoolInvariant == Spec => []IndInv
<1>1. Init => IndInv
  <2> SUFFICES ASSUME Init PROVE IndInv
    OBVIOUS
  <2> USE ThreadsDistinct, ThreadPoolAssumption DEF Init
  <2>1. TypeOK
    BY DEF TypeOK, WorkerPoints, MainPoints, SignalPoints, Workers
  <2>2. MutexHeld
    BY DEF MutexHeld, Mutexes, Inside
  <2>3. RequestInBound /\ SignalComesLast /\ RunsItsTask /\ Len(taskQ) <= submitted
    BY DEF RequestInBound, SignalComesLast, RunsItsTask, NoTask
  <2>4. TasksConserved
    BY DEF TasksConserved, Started, NoTask
  <2>5. HeadIsPosted /\ NoSleepWhilePosted
    BY DEF HeadIsPosted, NoSleepWhilePosted
  <2>6. QED BY <2>1, <2>2, <2>3, <2>4, <2>5 DEF IndInv
<1>2. IndInv /\ [Next]_vars => IndInv'
  <2> SUFFICES ASSUME IndInv, [Next]_vars PROVE IndInv'
    OBVIOUS
  <2>1. TypeOK /\ LocalInv /\ SignalComesLast /\ MutexHeld
    BY DEF IndInv, LocalInv
  <2>2. TypeOK' /\ MutexHeld' /\ LocalInv'
    BY <2>1, TypeInvariant, MutexInvariant, LocalInvariant DEF LocalInv
  <2>3. TasksConserved' /\ HeadIsPosted' /\ NoSleepWhilePosted'
    BY <2>1, TasksInvariant, HeadInvariant, SleepInvariant DEF IndInv
  <2>4. QED BY <2>2, <2>3 DEF IndInv, LocalInv
<1>3. QED BY <1>1, <1>2, PTL DEF Spec

(* Every variable of the pool keeps its type.                              *)
THEOREM PoolTypes == Spec => []TypeOK
<1>1. IndInv => TypeOK
  BY DEF IndInv
<1>2. QED BY <1>1, PoolInvariant, PTL

(* Every accepted task is taken once, in order, by one thread, and is      *)
(* waiting, in the hands of that thread, or finished.                      *)
THEOREM PoolConservesTasks == Spec => []TasksConserved
<1>1. IndInv => TasksConserved
  BY DEF IndInv
<1>2. QED BY <1>1, PoolInvariant, PTL

(* The head that signalThreadFunc dereferences is in the queue, and the    *)
(* thread it is assigned to has been told when the queue is released.      *)
THEOREM PoolPostsHead == Spec => []HeadIsPosted
<1>1. IndInv => HeadIsPosted
  BY DEF IndInv
<1>2. QED BY <1>1, PoolInvariant, PTL

(* No wakeup is lost on the condition variable the threads share.          *)
THEOREM PoolLosesNoWakeup == Spec => []NoSleepWhilePosted
<1>1. IndInv => NoSleepWhilePosted
  BY DEF IndInv
<1>2. QED BY <1>1, PoolInvariant, PTL

-----------------------------------------------------------------------------
(* The counters                                                            *)

LEMMA WorkersFinite == IsFiniteSet(Workers) /\ Cardinality(Workers) = THR_NUM
BY ThreadPoolAssumption, FS_Interval DEF Workers

(* A thread enters Working with the increment and leaves it with the       *)
(* decrement, on every path through the loop of threadFunc.                *)
LEMMA WorkingSteps ==
  ASSUME TypeOK, [Next]_vars
  PROVE  \/ \E w \in Workers \ Working :
              Working' = Working \cup {w} /\ numWorkingThreads' = numWorkingThreads + 1
         \/ \E w \in Working :
              Working' = Working \ {w} /\ numWorkingThreads' = numWorkingThreads - 1
         \/ Working' = Working /\ UNCHANGED numWorkingThreads
<1> DEFINE Same == Working' = Working /\ UNCHANGED numWorkingThreads
           Goal == \/ \E w \in Workers \ Working :
                        Working' = Working \cup {w} /\ numWorkingThreads' = numWorkingThreads + 1
                   \/ \E w \in Working :
                        Working' = Working \ {w} /\ numWorkingThreads' = numWorkingThreads - 1
                   \/ Same
<1> USE ThreadsDistinct DEF TypeOK, Working, Goto, Lock, Unlock, countVars
<1>s. SUFFICES Goal
  BY Zenon
<1>1. CASE UNCHANGED vars
  BY <1>1 DEF vars
<1>2. CASE MainStep
  <2>1. ASSUME NEW w \in Workers, ThreadInit(w)
        PROVE  Goal
    BY <2>1 DEF ThreadInit
  <2>2. CASE AwaitActive
    BY <2>2 DEF AwaitActive
  <2>3. CASE EnqueueLock
    BY <2>3 DEF EnqueueLock
  <2>4. CASE EnqueueTask
    BY <2>4 DEF EnqueueTask
  <2>5. QED BY <1>2, <2>1, <2>2, <2>3, <2>4 DEF MainStep
<1>3. CASE Request
  BY <1>3 DEF Request
<1>4. CASE SignalStep
  <2>1. CASE PollLock
    BY <2>1 DEF PollLock
  <2>2. CASE Poll
    BY <2>2 DEF Poll
  <2>3. CASE PostLock
    BY <2>3 DEF PostLock
  <2>4. CASE Post
    BY <2>4 DEF Post, WakeAll
  <2>5. CASE PollUnlock
    BY <2>5 DEF PollUnlock
  <2>6. QED BY <1>4, <2>1, <2>2, <2>3, <2>4, <2>5 DEF SignalStep
<1>5. ASSUME NEW w \in Workers, WorkerStep(w)
      PROVE  Goal
  <2>1. CASE StartLock(w)
    BY <2>1 DEF StartLock
  <2>2. CASE StartInc(w)
    BY <2>2 DEF StartInc
  <2>3. CASE SemLock(w)
    BY <2>3 DEF SemLock
  <2>4. CASE SemSleep(w)
    BY <2>4 DEF SemSleep
  <2>5. CASE SemPass(w)
    BY <2>5 DEF SemPass
  <2>6. CASE WorkLock(w)
    BY <2>6 DEF WorkLock
  <2>7. CASE WorkInc(w)
    BY <2>7 DEF WorkInc
  <2>8. CASE DequeueLock(w)
    BY <2>8 DEF DequeueLock
  <2>9. CASE DequeueTask(w)
    BY <2>9 DEF DequeueTask
  <2>10. CASE DequeueNothing(w)
    BY <2>10 DEF DequeueNothing
  <2>11. CASE Execute(w)
    BY <2>11 DEF Execute
  <2>12. CASE IdleLock(w)
    BY <2>12 DEF IdleLock
  <2>13. CASE IdleDec(w)
    BY <2>13 DEF IdleDec
  <2>14. QED
    BY <1>5, <2>1, <2>2, <2>3, <2>4, <2>5, <2>6, <2>7, <2>8, <2>9, <2>10,
       <2>11, <2>12, <2>13 DEF WorkerStep
<1>6. ASSUME NEW w \in Workers, SpuriousWakeup(w)
      PROVE  Goal
  BY <1>6 DEF SpuriousWakeup
<1>7. QED BY <1>1, <1>2, <1>3, <1>4, <1>5, <1>6 DEF Next

(* numWorkingThreads is the number of threads that are past the increment  *)
(* and before the decrement.                                               *)
THEOREM PoolCountsWorking == Spec => []WorkingCount
<1>1. Init => WorkingCount
  BY FS_EmptySet, ThreadsDistinct DEF Init, WorkingCount, Working
<1>2. TypeOK /\ WorkingCount /\ [Next]_vars => WorkingCount'
  <2> SUFFICES ASSUME TypeOK, WorkingCount, [Next]_vars
               PROVE  numWorkingThreads' = Cardinality(Working')
    BY DEF WorkingCount
  <2>1. IsFiniteSet(Working) /\ numWorkingThreads = Cardinality(Working)
    BY WorkersFinite, FS_Subset DEF Working, WorkingCount
  <2>2. ASSUME NEW w \in Workers \ Working, Working' = Working \cup {w},
               numWorkingThreads' = numWorkingThreads + 1
        PROVE  numWorkingThreads' = Cardinality(Working')
    BY <2>1, <2>2, FS_AddElement
  <2>3. ASSUME NEW w \in Working, Working' = Working \ {w},
               numWorkingThreads' = numWorkingThreads - 1
        PROVE  numWorkingThreads' = Cardinality(Working')
    BY <2>1, <2>3, FS_RemoveElement
  <2>4. QED BY <2>1, <2>2, <2>3, WorkingSteps
<1>3. QED BY <1>1, <1>2, PoolTypes, PTL DEF Spec

(* A thread registers itself once.                                         *)
LEMMA ActiveSteps ==
  ASSUME TypeOK, [Next]_vars
  PROVE  \/ \E w \in Workers \ Active :
              Active' = Active \cup {w} /\ numActiveThreads' = numActiveThreads + 1
         \/ Active' = Active /\ UNCHANGED numActiveThreads
<1> DEFINE Goal == \/ \E w \in Workers \ Active :
                        Active' = Active \cup {w} /\ numActiveThreads' = numActiveThreads + 1
                   \/ Active' = Active /\ UNCHANGED numActiveThreads
<1> USE ThreadsDistinct DEF TypeOK, Active, Goto, Lock, Unlock, countVars
<1>s. SUFFICES Goal
  BY Zenon
<1>1. CASE UNCHANGED vars
  BY <1>1 DEF vars
<1>2. CASE MainStep
  <2>1. ASSUME NEW w \in Workers, ThreadInit(w)
        PROVE  Goal
    BY <2>1 DEF ThreadInit
  <2>2. CASE AwaitActive
    BY <2>2 DEF AwaitActive
  <2>3. CASE EnqueueLock
    BY <2>3 DEF EnqueueLock
  <2>4. CASE EnqueueTask
    BY <2>4 DEF EnqueueTask
  <2>5. QED BY <1>2, <2>1, <2>2, <2>3, <2>4 DEF MainStep
<1>3. CASE Request
  BY <1>3 DEF Request
<1>4. CASE SignalStep
  <2>1. CASE PollLock
    BY <2>1 DEF PollLock
  <2>2. CASE Poll
    BY <2>2 DEF Poll
  <2>3. CASE PostLock
    BY <2>3 DEF PostLock
  <2>4. CASE Post
    BY <2>4 DEF Post, WakeAll
  <2>5. CASE PollUnlock
    BY <2>5 DEF PollUnlock
  <2>6. QED BY <1>4, <2>1, <2>2, <2>3, <2>4, <2>5 DEF SignalStep
<1>5. ASSUME NEW w \in Workers, WorkerStep(w)
      PROVE  Goal
  <2>1. CASE StartLock(w)
    BY <2>1 DEF StartLock
  <2>2. CASE StartInc(w)
    BY <2>2 DEF StartInc
  <2>3. CASE SemLock(w)
    BY <2>3 DEF SemLock
  <2>4. CASE SemSleep(w)
    BY <2>4 DEF SemSleep
  <2>5. CASE SemPass(w)
    BY <2>5 DEF SemPass
  <2>6. CASE WorkLock(w)
    BY <2>6 DEF WorkLock
  <2>7. CASE WorkInc(w)
    BY <2>7 DEF WorkInc
  <2>8. CASE DequeueLock(w)
    BY <2>8 DEF DequeueLock
  <2>9. CASE DequeueTask(w)
    BY <2>9 DEF DequeueTask
  <2>10. CASE DequeueNothing(w)
    BY <2>10 DEF DequeueNothing
  <2>11. CASE Execute(w)
    BY <2>11 DEF Execute
  <2>12. CASE IdleLock(w)
    BY <2>12 DEF IdleLock
  <2>13. CASE IdleDec(w)
    BY <2>13 DEF IdleDec
  <2>14. QED
    BY <1>5, <2>1, <2>2, <2>3, <2>4, <2>5, <2>6, <2>7, <2>8, <2>9, <2>10,
       <2>11, <2>12, <2>13 DEF WorkerStep
<1>6. ASSUME NEW w \in Workers, SpuriousWakeup(w)
      PROVE  Goal
  BY <1>6 DEF SpuriousWakeup
<1>7. QED BY <1>1, <1>2, <1>3, <1>4, <1>5, <1>6 DEF Next

(* main() gets past the busy wait, and the signalling thread starts, only  *)
(* by AwaitActive.                                                         *)
LEMMA ServingSteps ==
  ASSUME TypeOK, [Next]_vars, ~AwaitActive
  PROVE  pc'[Main] \in {"serve", "enqLock", "enq"} \/ pc'[Signal] # "unborn"
           => pc[Main] \in {"serve", "enqLock", "enq"} \/ pc[Signal] # "unborn"
<1> DEFINE Served == pc[Main] \in {"serve", "enqLock", "enq"} \/ pc[Signal] # "unborn"
<1> USE ThreadsDistinct DEF TypeOK, Goto, Lock, Unlock
<1>s. SUFFICES Served' => Served
  OBVIOUS
<1>1. CASE UNCHANGED vars
  BY <1>1 DEF vars
<1>2. CASE MainStep
  <2>1. ASSUME NEW w \in Workers, ThreadInit(w)
        PROVE  Served' => Served
    BY <2>1 DEF ThreadInit
  <2>2. CASE AwaitActive
    BY <2>2
  <2>3. CASE EnqueueLock
    BY <2>3 DEF EnqueueLock
  <2>4. CASE EnqueueTask
    BY <2>4 DEF EnqueueTask
  <2>5. QED BY <1>2, <2>1, <2>2, <2>3, <2>4 DEF MainStep
<1>3. CASE Request
  BY <1>3 DEF Request
<1>4. CASE SignalStep
  <2>1. CASE PollLock
    BY <2>1 DEF PollLock
  <2>2. CASE Poll
    BY <2>2 DEF Poll
  <2>3. CASE PostLock
    BY <2>3 DEF PostLock
  <2>4. CASE Post
    BY <2>4 DEF Post, WakeAll
  <2>5. CASE PollUnlock
    BY <2>5 DEF PollUnlock
  <2>6. QED BY <1>4, <2>1, <2>2, <2>3, <2>4, <2>5 DEF SignalStep
<1>5. ASSUME NEW w \in Workers, WorkerStep(w)
      PROVE  Served' => Served
  <2>1. CASE StartLock(w)
    BY <2>1 DEF StartLock
  <2>2. CASE StartInc(w)
    BY <2>2 DEF StartInc
  <2>3. CASE SemLock(w)
    BY <2>3 DEF SemLock
  <2>4. CASE SemSleep(w)
    BY <2>4 DEF SemSleep
  <2>5. CASE SemPass(w)
    BY <2>5 DEF SemPass
  <2>6. CASE WorkLock(w)
    BY <2>6 DEF WorkLock
  <2>7. CASE WorkInc(w)
    BY <2>7 DEF WorkInc
  <2>8. CASE DequeueLock(w)
    BY <2>8 DEF DequeueLock
  <2>9. CASE DequeueTask(w)
    BY <2>9 DEF DequeueTask
  <2>10. CASE DequeueNothing(w)
    BY <2>10 DEF DequeueNothing
  <2>11. CASE Execute(w)
    BY <2>11 DEF Execute
  <2>12. CASE IdleLock(w)
    BY <2>12 DEF IdleLock
  <2>13. CASE IdleDec(w)
    BY <2>13 DEF IdleDec
  <2>14. QED
    BY <1>5, <2>1, <2>2, <2>3, <2>4, <2>5, <2>6, <2>7, <2>8, <2>9, <2>10,
       <2>11, <2>12, <2>13 DEF WorkerStep
<1>6. ASSUME NEW w \in Workers, SpuriousWakeup(w)
      PROVE  Served' => Served
  BY <1>6 DEF SpuriousWakeup
<1>7. QED BY <1>1, <1>2, <1>3, <1>4, <1>5, <1>6 DEF Next

(* The busy wait at the end of threadPoolInit is enough: once main() has   *)
(* left it, every thread of the pool waits for posts.                      *)
THEOREM PoolServesWhenFull == Spec => []ServesWithFullPool
<1> DEFINE CountInv == numActiveThreads = Cardinality(Active) /\ ServesWithFullPool
<1>1. Init => CountInv
  <2> SUFFICES ASSUME Init PROVE CountInv
    OBVIOUS
  <2>1. Active = {}
    BY ThreadsDistinct DEF Init, Active
  <2>2. pc[Main] = "spawn" /\ pc[Signal] = "unborn" /\ numActiveThreads = 0
    BY ThreadsDistinct DEF Init
  <2>3. QED BY <2>1, <2>2, FS_EmptySet DEF ServesWithFullPool
<1>2. IndInv /\ CountInv /\ [Next]_vars => CountInv'
  <2> SUFFICES ASSUME IndInv, CountInv, [Next]_vars
               PROVE  CountInv'
    OBVIOUS
  <2>1. TypeOK
    BY DEF IndInv
  <2>2. Active \subseteq Workers /\ IsFiniteSet(Active)
    BY WorkersFinite, FS_Subset DEF Active
  <2>3. numActiveThreads' = Cardinality(Active') /\ Active \subseteq Active' /\ Active' \subseteq Workers
    BY <2>1, <2>2, ActiveSteps, FS_AddElement
  <2>4. ServesWithFullPool'
    <3>1. CASE AwaitActive
      <4>1. Cardinality(Active) = Cardinality(Workers)
        BY <3>1, WorkersFinite DEF AwaitActive
      <4>2. Active = Workers
        BY <2>2, <4>1, WorkersFinite, FS_Subset
      <4>3. QED BY <2>3, <4>2 DEF ServesWithFullPool
    <3>2. CASE ~AwaitActive
      <4>1. pc'[Main] \in {"serve", "enqLock", "enq"} \/ pc'[Signal] # "unborn"
              => pc[Main] \in {"serve", "enqLock", "enq"} \/ pc[Signal] # "unborn"
        BY <2>1, <3>2, ServingSteps
      <4>2. QED BY <2>3, <4>1 DEF ServesWithFullPool
    <3>3. QED BY <3>1, <3>2
  <2>5. QED BY <2>3, <2>4
<1>3. CountInv => ServesWithFullPool
  OBVIOUS
<1>4. QED BY <1>1, <1>2, <1>3, PoolInvariant, PTL DEF Spec

-----------------------------------------------------------------------------
(* The pool implements PoolService                                         *)

(* An enqueue is an Accept, a dequeue a Start, the end of the task's       *)
(* function a Finish; every other step of the threads is a stutter.        *)
THEOREM PoolImplementsSafety == Spec => PS!PoolSafety
<1>1. Init => PS!PoolInit
  <2> SUFFICES ASSUME Init PROVE PS!PoolInit
    OBVIOUS
  <2>1. PS!Workers = Workers
    BY DEF PS!Workers, Workers
  <2>2. [w \in Workers |-> taskPtr[w].num] = [w \in Workers |-> 0]
    BY DEF Init, NoTask
  <2>3. submitted = 0 /\ taskQ = <<>> /\ finished = {}
    BY DEF Init
  <2>4. Started = 0
    <3>1. submitted \in Int /\ submitted = 0
      BY <2>3
    <3>2. Len(taskQ) \in Int /\ Len(taskQ) = 0
      BY <2>3
    <3>3. submitted - Len(taskQ) = 0
      BY <3>1, <3>2
    <3>4. QED BY <3>3 DEF Started
  <2>5. QED BY <2>1, <2>2, <2>3, <2>4 DEF PS!PoolInit
<1>2. IndInv /\ [Next]_vars => [PS!PoolNext]_(PS!poolVars)
  <2> SUFFICES ASSUME IndInv, [Next]_vars
               PROVE  [PS!PoolNext]_(PS!poolVars)
    OBVIOUS
  <2> DEFINE running == [w \in Workers |-> taskPtr[w].num]
  <2>0. PS!Workers = Workers
    BY DEF PS!Workers, Workers
  <2>1. /\ TypeOK /\ RequestInBound /\ RunsItsTask /\ TasksConserved
        /\ Started \in Nat /\ submitted \in Nat /\ Len(taskQ) \in Nat
    BY DEF IndInv, TypeOK, Started
  <2>2. CASE EnqueueTask
    <3>1. /\ submitted < MaxTasks
          /\ submitted' = submitted + 1
          /\ Len(taskQ') = Len(taskQ) + 1
          /\ UNCHANGED <<taskPtr, finished>>
      BY <2>1, <2>2 DEF EnqueueTask, RequestInBound, TypeOK, Unlock, Goto, taskVars
    <3>2. Started' = Started
      BY <2>1, <3>1 DEF Started
    <3>3. PS!Accept
      BY <3>1, <3>2 DEF PS!Accept
    <3>4. QED BY <3>3 DEF PS!PoolNext
  <2>3. ASSUME NEW w \in Workers, DequeueTask(w)
        PROVE  PS!PoolNext
    <3>1. /\ Len(taskQ) > 0
          /\ Len(taskQ') = Len(taskQ) - 1
          /\ taskPtr' = [taskPtr EXCEPT ![w] = taskQ[1]]
          /\ taskPtr[w].num = 0
          /\ UNCHANGED <<submitted, finished>>
      BY <2>1, <2>3 DEF DequeueTask, Dequeued, TypeOK, RunsItsTask, Unlock, Goto
    <3>2. Started' = Started + 1 /\ Started < submitted
      BY <2>1, <3>1 DEF Started
    <3>3. taskQ[1].num = Started + 1
      BY <2>1, <3>1 DEF TasksConserved
    <3>4. running' = [running EXCEPT ![w] = Started + 1]
      BY <2>1, <3>1, <3>3 DEF TypeOK
    <3>5. PS!Start(w)
      BY <3>1, <3>2, <3>4 DEF PS!Start
    <3>6. QED BY <2>0, <3>5 DEF PS!PoolNext
  <2>4. ASSUME NEW w \in Workers, Execute(w)
        PROVE  PS!PoolNext
    <3>1. /\ UNCHANGED <<taskQ, submitted>>
          /\ taskPtr' = [taskPtr EXCEPT ![w] = NoTask]
          /\ finished' = finished \cup {taskPtr[w].num}
          /\ taskPtr[w].num # 0
      BY <2>1, <2>4 DEF Execute, RunsItsTask, Goto, queueVars
    <3>2. running' = [running EXCEPT ![w] = 0]
      BY <2>1, <3>1 DEF TypeOK, NoTask
    <3>3. PS!Finish(w)
      BY <3>1, <3>2 DEF PS!Finish, Started
    <3>4. QED BY <2>0, <3>3 DEF PS!PoolNext
  <2>5. CASE UNCHANGED <<taskQ, submitted, taskPtr, finished>>
    BY <2>5 DEF PS!poolVars, Started
  <2>6. QED BY <2>2, <2>3, <2>4, <2>5, TaskSteps
<1>3. QED BY <1>1, <1>2, PoolInvariant, PTL DEF Spec, PS!PoolSafety

-----------------------------------------------------------------------------
(* The list of task_queue.c, which is taskQ above.                         *)

USE TaskQueueAssumption

ListInv == ListTypeOK /\ ListIsFifo /\ OwnedOnce

(* An enqueue appends, whichever case of the switch it takes.              *)
LEMMA EnqueueKeepsList ==
  ASSUME ListInv, NEW n \in Nodes, Enqueue(n)
  PROVE  ListInv'
<1>1. /\ order' = Append(order, n) /\ Len(order') = Len(order) + 1
      /\ \A i \in 1 .. Len(order) : order'[i] = order[i]
      /\ order'[Len(order) + 1] = n
      /\ order' \in Seq(Nodes) /\ Len(order) \in Nat
  BY DEF ListInv, ListTypeOK, Enqueue
<1>2. Queued' = Queued \cup {n}
  BY <1>1 DEF Queued
<1>3. /\ n \in fresh /\ n \notin Queued /\ n \notin taken /\ n # NULL
      /\ fresh' = fresh \ {n} /\ taken' = taken /\ tail' = n
      /\ head' = IF len = 0 THEN n ELSE head
      /\ len' = len + 1
  BY DEF ListInv, ListTypeOK, OwnedOnce, Enqueue
<1>4. len = Len(order) /\ (len = 0 <=> order = <<>>)
  BY <1>1 DEF ListInv, ListIsFifo, ListTypeOK
<1>5. ListTypeOK'
  BY <1>1, <1>3 DEF ListInv, ListTypeOK, Enqueue, Link, Pointers
<1>6. OwnedOnce'
  <2>1. \A i \in 1 .. Len(order) : order[i] # n
    BY <1>3 DEF Queued
  <2>2. \A i, j \in 1 .. Len(order') : order'[i] = order'[j] => i = j
    BY <1>1, <2>1 DEF ListInv, OwnedOnce
  <2>3. QED BY <1>2, <1>3, <2>2 DEF ListInv, OwnedOnce
<1>7. ListIsFifo'
  <2>1. len' = Len(order') /\ tail' = order'[Len(order')] /\ order' # <<>>
    BY <1>1, <1>3, <1>4
  <2>2. head' = order'[1]
    BY <1>1, <1>3, <1>4 DEF ListInv, ListIsFifo
  <2>3. prev'[n] = NULL
    <3>1. len # 0 => tail # n
      BY <1>1, <1>3, <1>4 DEF ListInv, ListIsFifo, Queued
    <3>2. QED BY <3>1 DEF ListInv, ListTypeOK, Enqueue, Link, Pointers
  <2>4. ASSUME NEW i \in 1 .. Len(order') - 1
        PROVE  prev'[order'[i]] = order'[i + 1]
    <3>1. i \in 1 .. Len(order) /\ len # 0 /\ order # <<>>
      BY <1>1, <1>4
    <3>2. tail \in Nodes /\ tail = order[Len(order)]
      BY <1>1, <3>1 DEF ListInv, ListIsFifo
    <3>3. prev' = [prev EXCEPT ![n] = NULL, ![tail] = n]
      BY <3>1 DEF Enqueue, Link
    <3>4. order[i] \in Nodes /\ order[i] # n
      BY <1>1, <1>3, <3>1 DEF Queued, ListInv, ListTypeOK
    <3>5. CASE i = Len(order)
      BY <1>1, <3>2, <3>3, <3>4, <3>5 DEF ListInv, ListTypeOK
    <3>6. CASE i # Len(order)
      <4>1. order[i] # tail
        BY <1>1, <3>1, <3>2, <3>6 DEF ListInv, OwnedOnce
      <4>2. prev'[order[i]] = order[i + 1]
        BY <1>1, <3>1, <3>3, <3>4, <3>6, <4>1 DEF ListInv, ListIsFifo, ListTypeOK
      <4>3. QED BY <1>1, <3>1, <3>6, <4>2
    <3>7. QED BY <3>5, <3>6
  <2>5. QED BY <1>1, <2>1, <2>2, <2>3, <2>4 DEF ListIsFifo
<1>8. QED BY <1>5, <1>6, <1>7 DEF ListInv

(* A dequeue removes the oldest task and hands it out.                     *)
LEMMA DequeueKeepsList ==
  ASSUME ListInv, DequeueLast \/ DequeueMore
  PROVE  ListInv' /\ order # <<>> /\ taken' = taken \cup {order[1]}
<1>1. /\ order # <<>> /\ order \in Seq(Nodes) /\ Len(order) \in Nat \ {0}
      /\ len = Len(order) /\ head = order[1]
  BY DEF ListInv, ListTypeOK, ListIsFifo, DequeueLast, DequeueMore
<1>2. /\ order' \in Seq(Nodes) /\ Len(order') = Len(order) - 1
      /\ \A i \in 1 .. Len(order') : order'[i] = order[i + 1]
  BY <1>1 DEF DequeueLast, DequeueMore
<1>3. /\ head \in Nodes /\ taken' = taken \cup {head} /\ fresh' = fresh /\ prev' = prev
      /\ len' = len - 1
  BY <1>1 DEF ReturnHead, DequeueLast, DequeueMore
<1>4. Queued' = Queued \ {head}
  <2>1. \A i \in 2 .. Len(order) : order[i] # head
    BY <1>1 DEF ListInv, OwnedOnce
  <2>2. Queued' = {order[i] : i \in 2 .. Len(order)}
    <3>1. \A i \in 2 .. Len(order) : i - 1 \in 1 .. Len(order') /\ order'[i - 1] = order[i]
      BY <1>1, <1>2
    <3>2. \A i \in 1 .. Len(order') : i + 1 \in 2 .. Len(order)
      BY <1>1, <1>2
    <3>3. QED BY <1>2, <3>1, <3>2 DEF Queued
  <2>3. \A i \in 1 .. Len(order) : i = 1 \/ i \in 2 .. Len(order)
    BY <1>1
  <2>4. 1 \in 1 .. Len(order) /\ \A i \in 2 .. Len(order) : i \in 1 .. Len(order)
    BY <1>1
  <2>5. Queued = {head} \cup {order[i] : i \in 2 .. Len(order)}
    BY <1>1, <2>3, <2>4 DEF Queued
  <2>6. QED BY <2>1, <2>2, <2>5
<1>5. ListIsFifo'
  <2>1. CASE DequeueLast
    <3>1. Len(order) = 1 /\ order' = <<>> /\ len' = 0 /\ head' = NULL /\ tail' = NULL
      BY <1>1, <1>2, <2>1 DEF DequeueLast
    <3>2. Len(order') = 0
      BY <1>2, <3>1
    <3>3. QED BY <3>1, <3>2 DEF ListIsFifo
  <2>2. CASE DequeueMore
    <3>0. len > 1 /\ Len(order') > 0
      BY <1>1, <1>2, <2>2 DEF DequeueMore
    <3>1. head' = prev[head] /\ tail' = tail /\ order' # <<>>
      <4>1. order' # <<>>
        BY <3>0
      <4>2. QED BY <2>2, <4>1 DEF DequeueMore
    <3>2. head' = order'[1]
      BY <1>1, <1>2, <3>0, <3>1 DEF ListInv, ListIsFifo
    <3>3. tail' = order'[Len(order')]
      <4>1. tail = order[Len(order)]
        BY <1>1 DEF ListInv, ListIsFifo
      <4>2. Len(order') \in 1 .. Len(order') /\ Len(order') + 1 = Len(order)
        BY <1>1, <1>2, <3>0
      <4>3. order'[Len(order')] = order[Len(order)]
        BY <1>2, <4>2
      <4>4. QED BY <3>1, <4>1, <4>3
    <3>4. \A i \in 1 .. Len(order') - 1 : prev'[order'[i]] = order'[i + 1]
      BY <1>1, <1>2, <1>3 DEF ListInv, ListIsFifo
    <3>5. prev'[order'[Len(order')]] = NULL
      BY <1>1, <1>2, <1>3, <3>0, <3>1 DEF ListInv, ListIsFifo
    <3>6. QED BY <1>1, <1>2, <1>3, <3>1, <3>2, <3>3, <3>4, <3>5 DEF ListIsFifo
  <2>3. QED BY <2>1, <2>2
<1>6. ListTypeOK'
  <2>1. head' \in Pointers /\ tail' \in Pointers
    BY <1>1, <1>3 DEF ListInv, ListTypeOK, Pointers, DequeueLast, DequeueMore
  <2>2. QED BY <1>1, <1>2, <1>3, <2>1 DEF ListInv, ListTypeOK
<1>7. OwnedOnce'
  <2>1. head \notin fresh /\ head \in Queued
    BY <1>1 DEF ListInv, OwnedOnce, Queued
  <2>2. \A i, j \in 1 .. Len(order') : order'[i] = order'[j] => i = j
    BY <1>1, <1>2 DEF ListInv, OwnedOnce
  <2>3. {head', tail'} \subseteq Queued' \cup {NULL}
    BY <1>1, <1>2, <1>5 DEF ListIsFifo, Queued
  <2>4. QED BY <1>3, <1>4, <2>1, <2>2, <2>3 DEF ListInv, OwnedOnce
<1>8. QED BY <1>1, <1>3, <1>5, <1>6, <1>7 DEF ListInv

(* Writing to a node that is not in the queue leaves the list as it is.    *)
LEMMA GarbageKeepsList ==
  ASSUME ListInv, NEW n \in Nodes \ Queued, NEW garbage \in Pointers,
         prev' = [prev EXCEPT ![n] = garbage], UNCHANGED <<len, head, tail, order>>
  PROVE  ListIsFifo' /\ Queued' = Queued
<1>1. \A i \in 1 .. Len(order) : order[i] \in Nodes /\ prev'[order[i]] = prev[order[i]]
  BY DEF ListInv, ListTypeOK, Queued
<1>2. \A i \in 1 .. Len(order) - 1 : prev'[order[i]] = order[i + 1]
  BY <1>1 DEF ListInv, ListTypeOK, ListIsFifo
<1>3. order # <<>> => prev'[order[Len(order)]] = NULL
  BY <1>1 DEF ListInv, ListTypeOK, ListIsFifo
<1>4. QED BY <1>2, <1>3 DEF ListInv, ListIsFifo, Queued

(* One step of a thread, and what a dequeue hands out.                     *)
LEMMA ListStep ==
  ASSUME ListInv, [ListNext]_listVars
  PROVE  ListInv' /\ \A n \in taken' \ taken : order # <<>> /\ n = order[1]
<1>1. CASE UNCHANGED listVars
  BY <1>1 DEF listVars, ListInv, ListTypeOK, ListIsFifo, OwnedOnce, Queued
<1>2. ASSUME NEW n \in Nodes, NewTask(n)
      PROVE  ListInv' /\ taken' = taken
  <2>1. PICK garbage \in Pointers : prev' = [prev EXCEPT ![n] = garbage]
    BY <1>2 DEF NewTask
  <2>2. ListIsFifo' /\ Queued' = Queued
    BY <1>2, <2>1, GarbageKeepsList DEF NewTask
  <2>3. QED BY <1>2, <2>1, <2>2 DEF NewTask, ListInv, ListTypeOK, OwnedOnce
<1>3. ASSUME NEW n \in Nodes, Enqueue(n)
      PROVE  ListInv' /\ taken' = taken
  BY <1>3, EnqueueKeepsList DEF Enqueue
<1>4. ASSUME NEW n \in Nodes, FreeTask(n)
      PROVE  ListInv' /\ taken' \subseteq taken
  <2>1. PICK garbage \in Pointers : prev' = [prev EXCEPT ![n] = garbage]
    BY <1>4 DEF FreeTask
  <2>2. n \notin Queued
    BY <1>4 DEF FreeTask, ListInv, OwnedOnce
  <2>3. ListIsFifo' /\ Queued' = Queued
    BY <1>4, <2>1, <2>2, GarbageKeepsList DEF FreeTask
  <2>4. QED BY <1>4, <2>1, <2>3 DEF FreeTask, ListInv, ListTypeOK, OwnedOnce
<1>5. CASE DequeueEmpty
  <2>1. head = NULL
    <3>1. order \in Seq(Nodes) /\ Len(order) = 0
      BY <1>5 DEF DequeueEmpty, ListInv, ListTypeOK, ListIsFifo
    <3>2. order = <<>>
      BY <3>1
    <3>3. QED BY <3>2 DEF ListInv, ListIsFifo
  <2>2. UNCHANGED listVars
    BY <1>5, <2>1 DEF DequeueEmpty, ReturnHead, listVars
  <2>3. QED BY <2>2, <1>1
<1>6. CASE DequeueLast \/ DequeueMore
  BY <1>6, DequeueKeepsList
<1>7. QED BY <1>1, <1>2, <1>3, <1>4, <1>5, <1>6 DEF ListNext

(* The list is the FIFO queue that ThreadPool takes it for, and no thread  *)
(* reaches a task that another one may free.                               *)
THEOREM ListCorrect == ListSpec => []ListInv
<1>1. ListInit => ListInv
  <2> SUFFICES ASSUME ListInit PROVE ListInv
    OBVIOUS
  <2>1. order = <<>> /\ order \in Seq(Nodes) /\ Len(order) = 0 /\ Queued = {}
    BY DEF ListInit, Queued
  <2>2. ListTypeOK /\ OwnedOnce
    BY <2>1 DEF ListInit, ListTypeOK, OwnedOnce, Pointers
  <2>3. ListIsFifo
    BY <2>1 DEF ListInit, ListIsFifo
  <2>4. QED BY <2>2, <2>3 DEF ListInv
<1>2. ListInv /\ [ListNext]_listVars => ListInv'
  BY ListStep
<1>3. QED BY <1>1, <1>2, PTL DEF ListSpec

(* The list has the order of a queue at every moment.                      *)
THEOREM ListRepresentsQueue == ListSpec => []ListIsFifo
<1>1. ListInv => ListIsFifo
  BY DEF ListInv
<1>2. ListSpec => []ListInv
  BY ListCorrect
<1>3. QED BY <1>1, <1>2, PTL

(* No task is in two hands.                                                *)
THEOREM TasksOwnedOnce == ListSpec => []OwnedOnce
<1>1. ListInv => OwnedOnce
  BY DEF ListInv
<1>2. ListSpec => []ListInv
  BY ListCorrect
<1>3. QED BY <1>1, <1>2, PTL

(* dequeueTask hands out the oldest task, and only that one.               *)
THEOREM DequeueIsFifo == ListSpec => DequeuesOldest
<1>1. ListInv /\ [ListNext]_listVars
        => [\A n \in taken' \ taken : order # <<>> /\ n = order[1]]_listVars
  BY ListStep
<1>2. ListSpec => []ListInv
  BY ListCorrect
<1>3. QED BY <1>1, <1>2, PTL DEF ListSpec, DequeuesOldest
=============================================================================
