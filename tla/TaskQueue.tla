----------------------------- MODULE TaskQueue -----------------------------
(***************************************************************************)
(* The linked list of task_queue.c.  Nodes are the addresses that malloc   *)
(* can return for a task; prev points from a task to the one enqueued just *)
(* after it.  enqueueTask and dequeueTask run under mutexQueueRW, so each  *)
(* is one step, in any order between the threads; malloc and free are not. *)
(* An address is used again as soon as it is freed, and a freed or fresh   *)
(* node holds garbage.                                                     *)
(***************************************************************************)
EXTENDS Integers, Sequences

CONSTANTS Nodes,   \* addresses of tasks
          NULL     \* the null pointer

ASSUME TaskQueueAssumption == NULL \notin Nodes

Pointers == Nodes \cup {NULL}

VARIABLES len, head, tail,   \* of taskQueue
          prev,              \* the field of every node
          fresh,             \* nodes allocated and not yet enqueued
          taken,             \* nodes returned by dequeueTask and not yet freed
          order              \* ghost: the enqueued nodes, oldest first

listVars == <<len, head, tail, prev, fresh, taken, order>>

Queued == {order[i] : i \in 1 .. Len(order)}

(* initTaskQueue; the nodes are unused memory, whatever it contains.       *)
ListInit ==
  /\ len = 0
  /\ head = NULL
  /\ tail = NULL
  /\ prev \in [Nodes -> Pointers]
  /\ fresh = {}
  /\ taken = {}
  /\ order = <<>>

(* The malloc of threadPoolEnqueue; when it fails nothing is enqueued.     *)
NewTask(n) ==
  /\ n \notin fresh \cup taken \cup Queued
  /\ fresh' = fresh \cup {n}
  /\ \E garbage \in Pointers : prev' = [prev EXCEPT ![n] = garbage]
  /\ UNCHANGED <<len, head, tail, taken, order>>

(* A plausible slip: the link is made after the tail has moved.            *)
LinkAfterTail(n) ==
  IF len = 0 THEN prev' = [prev EXCEPT ![n] = NULL]
             ELSE prev' = [prev EXCEPT ![n] = n]

(* newTask->prev = NULL, then the old tail, if any, points to the task.    *)
Link(n) ==
  IF len = 0 THEN prev' = [prev EXCEPT ![n] = NULL]
             ELSE prev' = [prev EXCEPT ![n] = NULL, ![tail] = n]

Enqueue(n) ==
  /\ n \in fresh
  /\ Link(n)
  /\ head' = IF len = 0 THEN n ELSE head
  /\ tail' = n
  /\ len' = len + 1
  /\ fresh' = fresh \ {n}
  /\ order' = Append(order, n)
  /\ UNCHANGED taken

(* The value returned by dequeueTask; threadFunc leaves NULL alone.        *)
ReturnHead == taken' = taken \cup ({head} \ {NULL})

DequeueEmpty ==
  /\ len = 0
  /\ ReturnHead
  /\ UNCHANGED <<len, head, tail, prev, fresh, order>>

(* A plausible slip: the tail still points to the task handed out.         *)
DequeueLastKeepsTail ==
  /\ len = 1
  /\ ReturnHead
  /\ head' = NULL
  /\ len' = 0
  /\ order' = Tail(order)
  /\ UNCHANGED <<tail, prev, fresh>>

DequeueLast ==
  /\ len = 1
  /\ ReturnHead
  /\ head' = NULL
  /\ tail' = NULL
  /\ len' = 0
  /\ order' = Tail(order)
  /\ UNCHANGED <<prev, fresh>>

DequeueMore ==
  /\ len > 1
  /\ ReturnHead
  /\ head' = prev[head]
  /\ len' = len - 1
  /\ order' = Tail(order)
  /\ UNCHANGED <<tail, prev, fresh>>

(* threadFunc frees the task after executing it.                           *)
FreeTask(n) ==
  /\ n \in taken
  /\ taken' = taken \ {n}
  /\ \E garbage \in Pointers : prev' = [prev EXCEPT ![n] = garbage]
  /\ UNCHANGED <<len, head, tail, fresh, order>>

ListNext ==
  \/ \E n \in Nodes : NewTask(n) \/ Enqueue(n) \/ FreeTask(n)
  \/ DequeueEmpty \/ DequeueLast \/ DequeueMore

ListSpec == ListInit /\ [][ListNext]_listVars

-----------------------------------------------------------------------------
(* Properties                                                              *)

ListTypeOK ==
  /\ len \in Nat
  /\ head \in Pointers /\ tail \in Pointers
  /\ prev \in [Nodes -> Pointers]
  /\ fresh \subseteq Nodes /\ taken \subseteq Nodes
  /\ order \in Seq(Nodes)

(* The list that enqueueTask and dequeueTask patch is the queue: following *)
(* prev from head visits the enqueued tasks from the oldest to the newest, *)
(* ends there, and len counts them, also when nodes are freed and their    *)
(* addresses come back from malloc with garbage in them.                   *)
ListIsFifo ==
  /\ len = Len(order)
  /\ head = IF order = <<>> THEN NULL ELSE order[1]
  /\ tail = IF order = <<>> THEN NULL ELSE order[Len(order)]
  /\ \A i \in 1 .. Len(order) - 1 : prev[order[i]] = order[i + 1]
  /\ order # <<>> => prev[order[Len(order)]] = NULL

(* A task is in the hands of one thread: it is being prepared, or once in  *)
(* the queue, or being executed, and the queue keeps no pointer to a task  *)
(* that a thread may free.                                                 *)
OwnedOnce ==
  /\ fresh \cap taken = {}
  /\ Queued \cap (fresh \cup taken) = {}
  /\ \A i, j \in 1 .. Len(order) : order[i] = order[j] => i = j
  /\ {head, tail} \subseteq Queued \cup {NULL}

(* dequeueTask returns the task that has waited longest.                   *)
DequeuesOldest ==
  [][\A n \in taken' \ taken : order # <<>> /\ n = order[1]]_listVars
=============================================================================
