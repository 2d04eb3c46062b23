---------------------------- MODULE PoolService ----------------------------
(***************************************************************************)
(* What the thread pool of p3 promises to the select loop that feeds it,   *)
(* without the signalling thread, the semaphore and the mutexes: tasks are *)
(* numbered in the order in which threadPoolEnqueue accepts them, started  *)
(* in that order, each by exactly one thread, and every one is finished.   *)
(* ThreadPool refines this module; WebServer is built on top of it.        *)
(***************************************************************************)
EXTENDS Integers

CONSTANTS THR_NUM,   \* number of threads in the pool
          MaxTasks   \* bound on the tasks accepted in one behaviour

ASSUME PoolAssumption ==
  /\ THR_NUM \in Nat \ {0}
  /\ MaxTasks \in Nat

VARIABLES accepted,  \* number of tasks accepted so far
          started,   \* number of tasks taken by some thread so far
          running,   \* task each thread is executing, 0 when it has none
          finished   \* tasks executed to the end

poolVars == <<accepted, started, running, finished>>

Workers == 0 .. THR_NUM - 1

PoolInit ==
  /\ accepted = 0
  /\ started = 0
  /\ running = [w \in Workers |-> 0]
  /\ finished = {}

Accept ==
  /\ accepted < MaxTasks
  /\ accepted' = accepted + 1
  /\ UNCHANGED <<started, running, finished>>

Start(w) ==
  /\ running[w] = 0
  /\ started < accepted
  /\ started' = started + 1
  /\ running' = [running EXCEPT ![w] = started + 1]
  /\ UNCHANGED <<accepted, finished>>

Finish(w) ==
  /\ running[w] # 0
  /\ running' = [running EXCEPT ![w] = 0]
  /\ finished' = finished \cup {running[w]}
  /\ UNCHANGED <<accepted, started>>

PoolNext ==
  \/ Accept
  \/ \E w \in Workers : Start(w) \/ Finish(w)

(* A waiting task is taken by some thread, not by a particular one: which  *)
(* thread it was assigned to is no promise of the pool.                    *)
PoolFairness ==
  /\ WF_poolVars(\E w \in Workers : Start(w))
  /\ \A w \in Workers : WF_poolVars(Finish(w))

PoolSafety == PoolInit /\ [][PoolNext]_poolVars

PoolSpec == PoolSafety /\ PoolFairness

-----------------------------------------------------------------------------

PoolTypeOK ==
  /\ accepted \in 0 .. MaxTasks
  /\ started \in 0 .. accepted
  /\ running \in [Workers -> 0 .. started]
  /\ finished \subseteq 1 .. started

(* Every task taken from the queue is either being executed by exactly one *)
(* thread or finished, never both and never lost (threadFunc dequeues and  *)
(* frees every task once).                                                 *)
ExactlyOnce ==
  /\ \A n \in 1 .. started : n \in finished \/ \E w \in Workers : running[w] = n
  /\ \A w \in Workers : running[w] \notin finished
  /\ \A v, w \in Workers : running[v] # 0 /\ v # w => running[v] # running[w]
=============================================================================
