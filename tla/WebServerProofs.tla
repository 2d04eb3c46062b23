--------------------------- MODULE WebServerProofs ---------------------------
(***************************************************************************)
(* Proofs about WebServer, for any number of clients, threads, slots and   *)
(* descriptors.  The first part assumes nothing; the second one that there *)
(* are as many descriptors as clients and threads need; the third one that *)
(* no client is killed.                                                    *)
(***************************************************************************)
EXTENDS WebServer, FiniteSetTheorems, FunctionTheorems, SequenceTheorems, WellFoundedInduction, TLAPS

-----------------------------------------------------------------------------
(* Types                                                                   *)

(* The types that hold whoever is killed: a client that was killed may     *)
(* leave two requests on a descriptor that is used again.                  *)
Types ==
  /\ cpc \in [Clients -> {"start", "send", "wait", "close", "closed", "killed"}]
  /\ done \in [Clients -> Nat]
  /\ backlog \in Seq(Clients)
  /\ inbox \in [Clients -> Nat]
  /\ stream \in [Clients -> Seq(Piece)]
  /\ reset \subseteq Clients
  /\ up \in BOOLEAN
  /\ fdTable \in [Fds -> Clients \cup {"free", "file"}]
  /\ mpc \in {"select", "accept", "scan"}
  /\ slot \in 0 .. FD_SETSIZE
  /\ readySet \subseteq Fds \cup {ServerSock}
  /\ nready \in 0 .. MaxFd + 1
  /\ clientfd \in [Slots -> Fds \cup {NoFd}]
  /\ maxi \in Int /\ maxfd \in Fds \cup {ServerSock}
  /\ info \in Seq([sock : Fds, for : Clients, req : Nat])
  /\ wpc \in [Workers -> {"idle", "log", "logging", "open", "header", "body", "end", "closeFile"}]
  /\ file \in [Workers -> Fds \cup {NoFd}]
  /\ PoolTypeOK

(* The thread has opened its log or index.html.                            *)
HasFile(w) == wpc[w] \in {"logging", "header", "body", "end", "closeFile"}

(* Every open file is that of one thread.                                  *)
FilesOK ==
  /\ \A w \in Workers : HasFile(w) => file[w] \in Fds /\ fdTable[file[w]] = "file"
  /\ \A v, w \in Workers : HasFile(v) /\ HasFile(w) /\ file[v] = file[w] => v = w
  /\ \A f \in Fds : fdTable[f] = "file" => \E w \in Workers : HasFile(w) /\ file[w] = f

(* A thread has a task exactly when it is not idle.                        *)
TasksOK ==
  /\ ExactlyOnce
  /\ Len(info) = accepted
  /\ \A w \in Workers : wpc[w] = "idle" <=> running[w] = 0

(* What select has returned, until accept.                                 *)
LoopOK ==
  mpc = "accept" =>
     /\ readySet # {} /\ readySet \subseteq readSet
     /\ nready = Cardinality(readySet)
     /\ ServerSock \in readySet => backlog # <<>>

(* The steps of a thread that open and close a file.                       *)
OpenStep(w)  == OpenLog(w) \/ OpenFile(w)
CloseStep(w) == CloseLog(w) \/ CloseFile(w)

(* A thread leaves alone what belongs to the clients and the select loop.  *)
LEMMA WorkerFrame ==
  ASSUME NEW w \in Workers, TakeTask(w) \/ WorkerStep(w)
  PROVE  UNCHANGED workerFrame /\ accepted' = accepted
<1>1. CASE TakeTask(w)
  BY <1>1 DEF TakeTask, Start
<1>2. CASE OpenStep(w) \/ CloseStep(w)
  BY <1>2 DEF OpenStep, CloseStep, OpenLog, OpenFile, Opens, CloseLog, CloseFile, Closes, poolVars, Finish
<1>3. CASE OutOfFds(w) \/ WriteFails(w)
  BY <1>3 DEF OutOfFds, WriteFails, Exit, poolVars
<1>4. CASE Write(w) \/ WriteUnheard(w) \/ WriteToLog(w)
  BY <1>4 DEF Write, WriteUnheard, WriteToLog, poolVars
<1>5. QED BY <1>1, <1>2, <1>3, <1>4 DEF WorkerStep, OpenStep, CloseStep

(* The lowest of some numbers.                                             *)
LEMMA LowestIsIn ==
  ASSUME NEW S \in SUBSET Nat, S # {}
  PROVE  Lowest(S) \in S /\ \A x \in S : Lowest(S) <= x
<1> DEFINE Less == OpToRel(<, Nat)
<1>1. PICK x \in S : \A y \in S : <<y, x>> \notin Less
  BY WFMin, NatLessThanWellFounded
<1>2. ASSUME NEW y \in S PROVE x <= y
  <2>1. y < x => <<y, x>> \in Less
    BY DEF OpToRel
  <2>2. ~ (y < x)
    BY <1>1, <2>1
  <2>3. QED BY <2>2
<1>3. \E y \in S : \A z \in S : y <= z
  BY <1>2
<1>4. QED BY <1>3 DEF Lowest

(* The descriptor and the slot that are taken next.                        *)
LEMMA LowestFd ==
  ASSUME Types, FreeFds # {}
  PROVE  Lowest(FreeFds) \in Fds /\ fdTable[Lowest(FreeFds)] = "free"
<1>1. FreeFds \in SUBSET Nat
  BY WebServerAssumption DEF FreeFds, Fds
<1>2. QED BY <1>1, LowestIsIn DEF FreeFds

(* The slot.                                                               *)
LEMMA LowestSlot ==
  ASSUME Types, FreeSlots # {}
  PROVE  Lowest(FreeSlots) \in Slots /\ clientfd[Lowest(FreeSlots)] = NoFd
<1>1. FreeSlots \in SUBSET Nat
  BY WebServerAssumption DEF FreeSlots, Slots
<1>2. QED BY <1>1, LowestIsIn DEF FreeSlots

(* Numbers of descriptors are not those of the server socket, or of none.  *)
LEMMA FdsDistinct ==
  /\ Fds \subseteq Nat /\ ServerSock \notin Fds /\ NoFd \notin Fds /\ NoFd # ServerSock
  /\ Slots \subseteq Nat /\ Slots \subseteq 0 .. FD_SETSIZE
BY WebServerAssumption DEF Fds, ServerSock, NoFd, Slots

(* Sets of descriptors are finite.                                         *)
LEMMA FdsFinite ==
  ASSUME NEW S \in SUBSET (Fds \cup {ServerSock})
  PROVE  IsFiniteSet(S) /\ Cardinality(S) \in 0 .. MaxFd + 1 /\ (Cardinality(S) = 0 <=> S = {})
<1>1. IsFiniteSet(0 .. MaxFd) /\ Cardinality(0 .. MaxFd) = MaxFd + 1
  BY WebServerAssumption, FS_Interval
<1>2. S \subseteq 0 .. MaxFd
  BY WebServerAssumption DEF Fds, ServerSock
<1>3. IsFiniteSet(S) /\ Cardinality(S) <= MaxFd + 1
  <2>1. IsFiniteSet(S) /\ Cardinality(S) <= Cardinality(0 .. MaxFd)
    BY <1>1, <1>2, FS_Subset
  <2>2. QED BY <1>1, <2>1
<1>4. Cardinality(S) \in Nat
  BY <1>3, FS_CardinalityType
<1>5. QED BY <1>3, <1>4, FS_EmptySet, WebServerAssumption

(* A task that was accepted has its clientInfo.                            *)
LEMMA TaskInfo ==
  ASSUME Types, TasksOK, NEW n \in 1 .. accepted
  PROVE  info[n] \in [sock : Fds, for : Clients, req : Nat]
<1>1. n \in 1 .. Len(info)
  BY DEF TasksOK
<1>2. info \in Seq([sock : Fds, for : Clients, req : Nat])
  BY DEF Types
<1>3. QED BY <1>1, <1>2, ElementOfSeq

(* The task of a thread that is not idle.                                  *)
LEMMA RunningTask ==
  ASSUME Types, TasksOK, NEW w \in Workers, wpc[w] # "idle"
  PROVE  /\ running[w] \in 1 .. accepted /\ running[w] \notin finished
         /\ info[running[w]] \in [sock : Fds, for : Clients, req : Nat]
         /\ \A v \in Workers : running[v] = running[w] => v = w
<1>1. running[w] \in 0 .. started /\ running[w] # 0 /\ started \in 0 .. accepted /\ accepted \in Nat
  BY DEF Types, PoolTypeOK, TasksOK
<1>2. running[w] \in 1 .. accepted
  BY <1>1
<1>3. QED BY <1>1, <1>2, TaskInfo DEF TasksOK, ExactlyOnce

-----------------------------------------------------------------------------
(* Types and tasks are kept                                                *)

(* The pool: what one of its steps does to the tasks.                      *)
LEMMA AcceptKeeps ==
  ASSUME PoolTypeOK, ExactlyOnce, Accept
  PROVE  PoolTypeOK' /\ ExactlyOnce'
BY PoolAssumption DEF PoolTypeOK, ExactlyOnce, Accept

(* A task is started.                                                      *)
LEMMA StartKeeps ==
  ASSUME PoolTypeOK, ExactlyOnce, NEW w \in Workers, Start(w)
  PROVE  PoolTypeOK' /\ ExactlyOnce' /\ running'[w] # 0
         /\ \A v \in Workers : v # w => running'[v] = running[v]
<1>1. PoolTypeOK' /\ running'[w] = started + 1 /\ started' = started + 1 /\ started \in Nat
      /\ \A v \in Workers : v # w => running'[v] = running[v]
  BY PoolAssumption DEF PoolTypeOK, Start
<1>2. \A n \in 1 .. started' : n \in finished' \/ \E v \in Workers : running'[v] = n
  <2>1. SUFFICES ASSUME NEW n \in 1 .. started', n \notin finished
                 PROVE  \E v \in Workers : running'[v] = n
    BY DEF Start
  <2>2. CASE n = started + 1
    BY <1>1, <2>2
  <2>3. CASE n # started + 1
    <3>1. n \in 1 .. started
      BY <1>1, <2>3
    <3>2. PICK v \in Workers : running[v] = n
      BY <2>1, <3>1 DEF ExactlyOnce
    <3>3. v # w
      BY <3>1, <3>2 DEF Start
    <3>4. QED BY <1>1, <3>2, <3>3
  <2>4. QED BY <2>2, <2>3
<1>3. finished' = finished /\ started + 1 \notin finished
      /\ \A v \in Workers : running[v] # started + 1
  BY <1>1 DEF PoolTypeOK, Start
<1>4. QED BY <1>1, <1>2, <1>3 DEF ExactlyOnce

(* A task is finished.                                                     *)
LEMMA FinishKeeps ==
  ASSUME PoolTypeOK, ExactlyOnce, NEW w \in Workers, Finish(w)
  PROVE  PoolTypeOK' /\ ExactlyOnce' /\ running'[w] = 0
         /\ \A v \in Workers : v # w => running'[v] = running[v]
<1>1. PoolTypeOK' /\ running'[w] = 0 /\ started' = started /\ finished' = finished \cup {running[w]}
      /\ \A v \in Workers : v # w => running'[v] = running[v]
  <2>1. started \in Nat /\ running[w] \in 1 .. started
    BY PoolAssumption DEF PoolTypeOK, Finish
  <2>2. finished' \subseteq 1 .. started' /\ started' = started /\ accepted' = accepted
    BY <2>1 DEF PoolTypeOK, Finish
  <2>3. running' = [running EXCEPT ![w] = 0] /\ running' \in [Workers -> 0 .. started']
    BY <2>1, <2>2 DEF PoolTypeOK, Finish
  <2>4. PoolTypeOK'
    BY <2>2, <2>3 DEF PoolTypeOK
  <2>5. QED BY <2>3, <2>4 DEF PoolTypeOK, Finish
<1>2. \A n \in 1 .. started' : n \in finished' \/ \E v \in Workers : running'[v] = n
  BY <1>1 DEF ExactlyOnce
<1>3. 0 \notin finished'
  BY DEF PoolTypeOK, Finish
<1>4. \A v \in Workers : running'[v] \notin finished'
  BY <1>1, <1>3 DEF ExactlyOnce
<1>5. QED BY <1>1, <1>2, <1>4 DEF ExactlyOnce

(* Tasks: what a thread is at agrees with the pool.                        *)
LEMMA TasksKept ==
  ASSUME Types, TasksOK, [Next]_vars
  PROVE  TasksOK' /\ PoolTypeOK'
<1> USE DEF Types, TasksOK
<1>1. CASE UNCHANGED <<info, wpc, poolVars>>
  BY <1>1 DEF poolVars, PoolTypeOK, ExactlyOnce
<1>2. ASSUME NEW c \in Clients, EnqueueRequest(c)
      PROVE  TasksOK' /\ PoolTypeOK'
  <2>1. Accept /\ accepted \in Nat /\ wpc' = wpc /\ running' = running /\ accepted' = accepted + 1
    BY <1>2 DEF EnqueueRequest, mainFrame, Accept, PoolTypeOK
  <2>2. Len(info') = Len(info) + 1
    <3> DEFINE i == [sock |-> clientfd[slot], for |-> c, req |-> done[c] + 1]
    <3>1. info' = Append(info, i) /\ info \in Seq([sock : Fds, for : Clients, req : Nat])
      BY <1>2 DEF EnqueueRequest
    <3> HIDE DEF i
    <3> DEFINE S == {i} \cup [sock : Fds, for : Clients, req : Nat]
    <3>2. i \in S /\ info \in Seq(S)
      BY <3>1, SeqMonotonic
    <3> HIDE DEF S
    <3>3. Len(Append(info, i)) = Len(info) + 1
      BY <3>2, AppendProperties
    <3>4. QED BY <3>1, <3>3
  <2>3. QED BY <2>1, <2>2, AcceptKeeps
<1>3. ASSUME NEW w \in Workers, TakeTask(w)
      PROVE  TasksOK' /\ PoolTypeOK'
  <2>1. Start(w) /\ info' = info /\ wpc' = [wpc EXCEPT ![w] = "log"] /\ accepted' = accepted
    BY <1>3 DEF TakeTask, WorkerGoto, workerFrame, Start
  <2>2. QED BY <2>1, StartKeeps
<1>4. ASSUME NEW w \in Workers, CloseFile(w)
      PROVE  TasksOK' /\ PoolTypeOK'
  <2>1. Finish(w) /\ info' = info /\ wpc' = [wpc EXCEPT ![w] = "idle"] /\ accepted' = accepted
    BY <1>4 DEF CloseFile, Closes, WorkerGoto, workerFrame, Finish
  <2>2. QED BY <2>1, FinishKeeps
<1>5. ASSUME NEW w \in Workers, NEW p \in {"logging", "open", "header", "body", "end", "closeFile"},
             wpc[w] # "idle", wpc' = [wpc EXCEPT ![w] = p], UNCHANGED <<info, poolVars>>
      PROVE  TasksOK' /\ PoolTypeOK'
  BY <1>5 DEF poolVars, PoolTypeOK, ExactlyOnce
<1>6. ASSUME NEW w \in Workers, WorkerStep(w)
      PROVE  TasksOK' /\ PoolTypeOK'
  <2>1. CASE OpenStep(w)
    BY <2>1, <1>5 DEF OpenStep, OpenLog, OpenFile, Opens, WorkerGoto, workerFrame
  <2>2. CASE CloseLog(w)
    BY <2>2, <1>5 DEF CloseLog, Closes, WorkerGoto, workerFrame
  <2>3. CASE Write(w) \/ WriteUnheard(w) \/ WriteToLog(w)
    BY <2>3, <1>5 DEF Write, WriteUnheard, WriteToLog, Writing, NextWrite, WorkerGoto, workerFrame
  <2>4. CASE OutOfFds(w) \/ WriteFails(w)
    BY <2>4, <1>1 DEF OutOfFds, WriteFails, Exit, workerFrame
  <2>5. QED BY <2>1, <2>2, <2>3, <2>4, <1>4, <1>6 DEF WorkerStep, OpenStep
<1>7. ASSUME NEW c \in Clients, ClientStep(c) \/ Kill(c)
      PROVE  UNCHANGED <<info, wpc, poolVars>>
  BY <1>7 DEF ClientStep, Connect, SendRequest, Receive, Close, Kill, serverVars, taskVars
<1>8. CASE MainStep
  <2>1. CASE Select
    BY <2>1, <1>1 DEF Select, mainFrame
  <2>2. CASE NoNewClient \/ AcceptFails \/ AcceptClient
    BY <2>2, <1>1 DEF NoNewClient, AcceptFails, AcceptClient, mainFrame
  <2>3. CASE ScanEnd \/ ScanSkip \/ ScanBeyond
    BY <2>3, <1>1 DEF ScanEnd, ScanSkip, ScanBeyond, mainFrame
  <2>4. ASSUME NEW c \in Clients, CloseClient(c)
        PROVE  TasksOK' /\ PoolTypeOK'
    BY <2>4, <1>1 DEF CloseClient, mainFrame
  <2>5. QED BY <1>2, <1>8, <2>1, <2>2, <2>3, <2>4 DEF MainStep
<1>9. QED
  BY <1>1, <1>3, <1>6, <1>7, <1>8 DEF Next, vars, taskVars

-----------------------------------------------------------------------------
(* Descriptors and slots                                                   *)

(* Only these steps open or close a descriptor.                            *)
SameFds ==
  /\ UNCHANGED <<fdTable, slotVars, file>>
  /\ \A w \in Workers : HasFile(w)' = HasFile(w)

(* All the others leave the table and the slots alone.                     *)
LEMMA FdSteps ==
  ASSUME Types, [Next]_vars
  PROVE  \/ SameFds \/ AcceptClient
         \/ \E c \in Clients : CloseClient(c)
         \/ \E w \in Workers : OpenStep(w) \/ CloseStep(w)
<1>1. ASSUME UNCHANGED <<fdTable, slotVars, file, wpc>>
      PROVE  SameFds
  BY <1>1 DEF SameFds, HasFile
<1>2. ASSUME NEW w \in Workers, NEW p \in {"log", "body", "end", "closeFile"},
             \/ wpc[w] = "idle" /\ p = "log"
             \/ Writing(w) /\ p \in {"body", "end", "closeFile"},
             wpc' = [wpc EXCEPT ![w] = p], UNCHANGED <<fdTable, slotVars, file>>
      PROVE  SameFds
  <2>1. ASSUME NEW v \in Workers PROVE HasFile(v)' = HasFile(v)
    <3>1. CASE v = w
      <4>1. wpc'[v] = p
        BY <1>2, <3>1 DEF Types
      <4>2. QED BY <1>2, <3>1, <4>1 DEF HasFile, Writing
    <3>2. CASE v # w
      BY <1>2, <3>2 DEF HasFile, Types
    <3>3. QED BY <3>1, <3>2
  <2>2. QED BY <1>2, <2>1 DEF SameFds
<1>3. ASSUME NEW c \in Clients, ClientStep(c) \/ Kill(c)
      PROVE  UNCHANGED <<fdTable, slotVars, file, wpc>>
  BY <1>3 DEF ClientStep, Connect, SendRequest, Receive, Close, Kill, serverVars, taskVars
<1>4. CASE Select \/ NoNewClient \/ AcceptFails \/ ScanEnd \/ ScanSkip \/ ScanBeyond
  BY <1>4, <1>1 DEF Select, NoNewClient, AcceptFails, ScanEnd, ScanSkip, ScanBeyond, mainFrame
<1>5. ASSUME NEW c \in Clients, EnqueueRequest(c)
      PROVE  SameFds
  BY <1>5, <1>1 DEF EnqueueRequest, mainFrame
<1>6. ASSUME NEW w \in Workers, TakeTask(w)
      PROVE  SameFds
  <2>1. wpc[w] = "idle" /\ wpc' = [wpc EXCEPT ![w] = "log"] /\ UNCHANGED <<fdTable, slotVars, file>>
    BY <1>6 DEF TakeTask, WorkerGoto, workerFrame
  <2>2. QED BY <2>1, <1>2
<1>7. ASSUME NEW w \in Workers, Write(w) \/ WriteUnheard(w) \/ WriteToLog(w)
      PROVE  SameFds
  <2>1. Writing(w) /\ wpc' = [wpc EXCEPT ![w] = NextWrite(wpc[w])] /\ UNCHANGED <<fdTable, slotVars, file>>
    BY <1>7 DEF Write, WriteUnheard, WriteToLog, WorkerGoto, workerFrame
  <2>2. NextWrite(wpc[w]) \in {"body", "end", "closeFile"}
    BY <2>1 DEF Writing, NextWrite
  <2>3. QED BY <2>1, <2>2, <1>2
<1>8. ASSUME NEW w \in Workers, OutOfFds(w) \/ WriteFails(w)
      PROVE  SameFds
  BY <1>8, <1>1 DEF OutOfFds, WriteFails, Exit, workerFrame
<1>9. CASE UNCHANGED vars
  BY <1>9, <1>1 DEF vars, taskVars
<1>10. QED
  BY <1>1, <1>3, <1>4, <1>5, <1>6, <1>7, <1>8, <1>9 DEF Next, MainStep, WorkerStep, OpenStep, CloseStep

(* The slots that hold a connection.                                       *)
UsedSlots == {i \in Slots : clientfd[i] # NoFd}

(* The slot the scan is at is one of them, when its descriptor is ready.   *)
LEMMA ReadySlot ==
  ASSUME Types, SlotsMatch, NEW i \in Slots, clientfd[i] \in readySet
  PROVE  /\ i \in UsedSlots /\ clientfd[i] \in Fds /\ clientfd[i] \in readSet
         /\ fdTable[clientfd[i]] \in Clients
BY FdsDistinct DEF Types, SlotsMatch, UsedSlots

(* A new connection takes a free descriptor.                               *)
LEMMA AcceptOpens ==
  ASSUME Types, LoopOK, AcceptClient
  PROVE  \E f \in Fds :
            /\ fdTable[f] = "free"
            /\ fdTable' = [fdTable EXCEPT ![f] = Head(backlog)]
            /\ Head(backlog) \in Clients
            /\ \/ AddClient(f) /\ Lowest(FreeSlots) \in Slots /\ clientfd[Lowest(FreeSlots)] = NoFd
               \/ NoSlot
            /\ wpc' = wpc /\ file' = file /\ readySet' = readySet
            /\ backlog' = Tail(backlog) /\ backlog # <<>>
<1>1. backlog # <<>> /\ backlog \in Seq(Clients) /\ FreeFds # {}
  BY DEF Types, LoopOK, AcceptClient
<1>2. Head(backlog) \in Clients
  BY <1>1, HeadTailProperties
<1>3. Lowest(FreeFds) \in Fds /\ fdTable[Lowest(FreeFds)] = "free"
  BY <1>1, LowestFd
<1>4. AddClient(Lowest(FreeFds)) => Lowest(FreeSlots) \in Slots /\ clientfd[Lowest(FreeSlots)] = NoFd
  BY LowestSlot DEF AddClient
<1>5. QED BY <1>1, <1>2, <1>3, <1>4 DEF AcceptClient, mainFrame

(* A thread opens its file on a free descriptor.                           *)
LEMMA OpenOpens ==
  ASSUME Types, NEW w \in Workers, OpenStep(w)
  PROVE  \E f \in Fds :
            /\ fdTable[f] = "free"
            /\ fdTable' = [fdTable EXCEPT ![f] = "file"]
            /\ file' = [file EXCEPT ![w] = f]
            /\ ~HasFile(w) /\ HasFile(w)' /\ \A v \in Workers : v # w => HasFile(v)' = HasFile(v)
            /\ UNCHANGED slotVars
<1>1. Lowest(FreeFds) \in Fds /\ fdTable[Lowest(FreeFds)] = "free"
  BY LowestFd DEF OpenStep, OpenLog, OpenFile, Opens
<1>2. \E p \in {"logging", "header"} : wpc' = [wpc EXCEPT ![w] = p] /\ wpc[w] \in {"log", "open"}
  BY DEF OpenStep, OpenLog, OpenFile, Opens, WorkerGoto
<1>3. ~HasFile(w) /\ HasFile(w)' /\ \A v \in Workers : v # w => HasFile(v)' = HasFile(v)
  BY <1>2 DEF HasFile, Types
<1>4. QED BY <1>1, <1>3 DEF OpenStep, OpenLog, OpenFile, Opens, workerFrame

(* A thread closes its own file.                                           *)
LEMMA CloseCloses ==
  ASSUME Types, NEW w \in Workers, CloseStep(w)
  PROVE  /\ HasFile(w) /\ ~HasFile(w)' /\ \A v \in Workers : v # w => HasFile(v)' = HasFile(v)
         /\ fdTable' = [fdTable EXCEPT ![file[w]] = "free"]
         /\ file' = [file EXCEPT ![w] = NoFd]
         /\ UNCHANGED slotVars
<1>1. \E p \in {"open", "idle"} : wpc' = [wpc EXCEPT ![w] = p] /\ wpc[w] \in {"logging", "closeFile"}
  BY DEF CloseStep, CloseLog, CloseFile, Closes, WorkerGoto
<1>2. HasFile(w) /\ ~HasFile(w)' /\ \A v \in Workers : v # w => HasFile(v)' = HasFile(v)
  BY <1>1 DEF HasFile, Types
<1>3. QED BY <1>2 DEF CloseStep, CloseLog, CloseFile, Closes, workerFrame

(* A connection that is closed had a slot, and its descriptor is a socket. *)
LEMMA CloseFrees ==
  ASSUME Types, SlotsMatch, NEW c \in Clients, CloseClient(c)
  PROVE  /\ slot \in UsedSlots /\ clientfd[slot] \in Fds /\ fdTable[clientfd[slot]] = c
         /\ fdTable' = [fdTable EXCEPT ![clientfd[slot]] = "free"]
         /\ readSet' = readSet \ {clientfd[slot]}
         /\ clientfd' = [clientfd EXCEPT ![slot] = NoFd]
         /\ wpc' = wpc /\ file' = file /\ maxi' = maxi /\ maxfd' = maxfd
BY ReadySlot DEF CloseClient, ScanReady, mainFrame

(* No thread loses its file, and there is no file without a thread.        *)
LEMMA FilesKept ==
  ASSUME Types, SlotsMatch, FilesOK, LoopOK, [Next]_vars
  PROVE  FilesOK'
<1> USE DEF FilesOK
<1>0. \A c \in Clients : c # "file" /\ c # "free"
  BY WebServerAssumption
<1>1. CASE SameFds
  BY <1>1 DEF SameFds
<1>2. CASE AcceptClient
  <2>1. PICK f \in Fds : /\ fdTable[f] = "free" /\ fdTable' = [fdTable EXCEPT ![f] = Head(backlog)]
                         /\ Head(backlog) \in Clients /\ wpc' = wpc /\ file' = file
    BY <1>2, AcceptOpens
  <2>2. \A w \in Workers : HasFile(w)' = HasFile(w)
    BY <2>1 DEF HasFile
  <2>3. \A g \in Fds : fdTable'[g] = "file" <=> fdTable[g] = "file"
    BY <1>0, <2>1 DEF Types
  <2>4. QED BY <2>1, <2>2, <2>3
<1>3. ASSUME NEW c \in Clients, CloseClient(c)
      PROVE  FilesOK'
  <2>1. \A w \in Workers : HasFile(w)' = HasFile(w)
    BY <1>3, CloseFrees DEF HasFile
  <2>2. \A g \in Fds : fdTable'[g] = "file" <=> fdTable[g] = "file"
    <3>1. /\ clientfd[slot] \in Fds /\ fdTable[clientfd[slot]] = c
          /\ fdTable' = [fdTable EXCEPT ![clientfd[slot]] = "free"]
      BY <1>3, CloseFrees
    <3>2. QED BY <1>0, <3>1 DEF Types
  <2>3. file' = file
    BY <1>3, CloseFrees
  <2>4. QED BY <2>1, <2>2, <2>3
<1>4. ASSUME NEW w \in Workers, OpenStep(w)
      PROVE  FilesOK'
  <2>1. PICK f \in Fds : /\ fdTable[f] = "free" /\ fdTable' = [fdTable EXCEPT ![f] = "file"]
                         /\ file' = [file EXCEPT ![w] = f]
                         /\ ~HasFile(w) /\ HasFile(w)'
                         /\ \A v \in Workers : v # w => HasFile(v)' = HasFile(v)
    BY <1>4, OpenOpens
  <2>2. /\ file'[w] = f /\ \A v \in Workers : v # w => file'[v] = file[v]
        /\ fdTable'[f] = "file" /\ \A g \in Fds : g # f => fdTable'[g] = fdTable[g]
    BY <2>1 DEF Types
  <2>3. QED BY <2>1, <2>2
<1>5. ASSUME NEW w \in Workers, CloseStep(w)
      PROVE  FilesOK'
  <2>1. /\ HasFile(w) /\ ~HasFile(w)' /\ \A v \in Workers : v # w => HasFile(v)' = HasFile(v)
        /\ fdTable' = [fdTable EXCEPT ![file[w]] = "free"]
        /\ file' = [file EXCEPT ![w] = NoFd]
    BY <1>5, CloseCloses
  <2>2. /\ \A v \in Workers : v # w => file'[v] = file[v]
        /\ fdTable'[file[w]] = "free" /\ \A g \in Fds : g # file[w] => fdTable'[g] = fdTable[g]
    BY <2>1 DEF Types
  <2>3. QED BY <2>1, <2>2
<1>6. QED BY <1>1, <1>2, <1>3, <1>4, <1>5, FdSteps

(* The pool of descriptors: a new connection.                              *)
LEMMA AddKeepsSlots ==
  ASSUME Types, SlotsMatch, NEW f \in Fds, fdTable[f] = "free", AddClient(f),
         Lowest(FreeSlots) \in Slots, clientfd[Lowest(FreeSlots)] = NoFd,
         NEW c \in Clients, fdTable' = [fdTable EXCEPT ![f] = c]
  PROVE  SlotsMatch'
<1> DEFINE s == Lowest(FreeSlots)
<1>1. /\ clientfd' = [clientfd EXCEPT ![s] = f] /\ readSet' = readSet \cup {f}
      /\ maxi' = (IF s > maxi THEN s ELSE maxi) /\ maxfd' = (IF f > maxfd THEN f ELSE maxfd)
      /\ s \in Slots /\ clientfd[s] = NoFd
  BY DEF AddClient
<1> HIDE DEF s
<1>2. s \notin UsedSlots /\ UsedSlots' = UsedSlots \cup {s} /\ clientfd'[s] = f
      /\ \A i \in UsedSlots : clientfd'[i] = clientfd[i] /\ i \in Slots
  BY <1>1, FdsDistinct DEF UsedSlots, Types
<1>3. \A i \in UsedSlots : fdTable[clientfd[i]] \in Clients /\ clientfd[i] # f /\ clientfd[i] \in Fds
  BY WebServerAssumption DEF SlotsMatch, UsedSlots, Types
<1>4. /\ fdTable'[f] \in Clients
      /\ \A i \in UsedSlots : fdTable'[clientfd[i]] \in Clients
  BY <1>3 DEF Types
<1>5. s <= maxi' /\ f <= maxfd' /\ maxi <= maxi' /\ maxfd <= maxfd' /\ maxi \in Int /\ maxfd \in Int
      /\ maxi' \in Int /\ maxfd' \in Int
  BY <1>1, FdsDistinct DEF Types, ServerSock
<1>6. \A i \in UsedSlots' : fdTable'[clientfd'[i]] \in Clients
                             /\ i <= maxi' /\ clientfd'[i] <= maxfd'
  <2>1. \A i \in UsedSlots : i <= maxi /\ clientfd[i] <= maxfd /\ i \in Int /\ clientfd[i] \in Int
    <3>1. \A i \in UsedSlots : i <= maxi /\ clientfd[i] <= maxfd
      BY DEF SlotsMatch, UsedSlots
    <3>2. \A i \in UsedSlots : i \in Slots /\ clientfd[i] \in Fds
      BY <1>2, <1>3
    <3>3. \A i \in UsedSlots : i \in Nat /\ clientfd[i] \in Nat
      BY <3>2, FdsDistinct
    <3>4. \A i \in UsedSlots : i \in Int /\ clientfd[i] \in Int
      BY <3>3
    <3>5. QED BY <3>1, <3>4
  <2>2. \A i \in UsedSlots : i <= maxi' /\ clientfd[i] <= maxfd'
    BY <1>5, <2>1
  <2>3. QED BY <1>2, <1>4, <1>5, <2>2
<1>7. \A i, j \in UsedSlots' : clientfd'[i] = clientfd'[j] => i = j
  BY <1>2, <1>3 DEF SlotsMatch, UsedSlots
<1>8. readSet' = {ServerSock} \cup {clientfd'[i] : i \in UsedSlots'}
  BY <1>1, <1>2 DEF SlotsMatch, UsedSlots
<1>9. QED BY <1>6, <1>7, <1>8 DEF SlotsMatch, UsedSlots

(* The pool of descriptors keeps its parts together.                       *)
LEMMA SlotsKept ==
  ASSUME Types, SlotsMatch, FilesOK, LoopOK, [Next]_vars
  PROVE  SlotsMatch'
<1>0. \A c \in Clients : c # "file" /\ c # "free"
  BY WebServerAssumption
<1>1. CASE SameFds
  BY <1>1 DEF SameFds, slotVars, SlotsMatch
<1>a. ASSUME UNCHANGED slotVars, \A f \in Fds : fdTable[f] \in Clients => fdTable'[f] = fdTable[f]
      PROVE  SlotsMatch'
  <2>1. \A i \in UsedSlots : clientfd[i] \in Fds /\ fdTable[clientfd[i]] \in Clients
    BY FdsDistinct DEF SlotsMatch, UsedSlots, Types
  <2>2. \A i \in UsedSlots : fdTable'[clientfd[i]] \in Clients
    BY <1>a, <2>1
  <2>3. QED BY <1>a, <2>2 DEF SlotsMatch, UsedSlots, slotVars
<1>2. CASE AcceptClient
  <2>1. PICK f \in Fds : /\ fdTable[f] = "free" /\ fdTable' = [fdTable EXCEPT ![f] = Head(backlog)]
                         /\ Head(backlog) \in Clients
                         /\ \/ /\ AddClient(f) /\ Lowest(FreeSlots) \in Slots
                               /\ clientfd[Lowest(FreeSlots)] = NoFd
                            \/ NoSlot
    BY <1>2, AcceptOpens
  <2>2. CASE NoSlot
    BY <1>0, <1>a, <2>1, <2>2 DEF NoSlot, Types
  <2>3. CASE ~NoSlot
    BY <2>1, <2>3, AddKeepsSlots
  <2>4. QED BY <2>2, <2>3
<1>3. ASSUME NEW c \in Clients, CloseClient(c)
      PROVE  SlotsMatch'
  <2>1. /\ slot \in UsedSlots /\ clientfd[slot] \in Fds
        /\ fdTable' = [fdTable EXCEPT ![clientfd[slot]] = "free"]
        /\ readSet' = readSet \ {clientfd[slot]}
        /\ clientfd' = [clientfd EXCEPT ![slot] = NoFd]
        /\ maxi' = maxi /\ maxfd' = maxfd
    BY <1>3, CloseFrees
  <2>2. UsedSlots' = UsedSlots \ {slot} /\ \A i \in UsedSlots' : clientfd'[i] = clientfd[i]
    BY <2>1 DEF UsedSlots, Types
  <2>3. \A i \in UsedSlots' : clientfd[i] \in Fds /\ clientfd[i] # clientfd[slot]
    BY <2>1, <2>2, FdsDistinct DEF UsedSlots, SlotsMatch, Types
  <2>4. \A i \in UsedSlots' : fdTable'[clientfd'[i]] \in Clients
                               /\ i <= maxi' /\ clientfd'[i] <= maxfd'
    <3>1. \A i \in UsedSlots' : fdTable'[clientfd[i]] = fdTable[clientfd[i]]
      BY <2>1, <2>3 DEF Types
    <3>2. QED BY <2>1, <2>2, <3>1 DEF UsedSlots, SlotsMatch
  <2>5. \A i, j \in UsedSlots' : clientfd'[i] = clientfd'[j] => i = j
    BY <2>2 DEF SlotsMatch, UsedSlots
  <2>6. readSet' = {ServerSock} \cup {clientfd'[i] : i \in UsedSlots'}
    <3>1. readSet = {ServerSock} \cup {clientfd[i] : i \in UsedSlots}
      BY DEF SlotsMatch, UsedSlots
    <3>2. ServerSock # clientfd[slot]
      BY <2>1, FdsDistinct
    <3>3. QED BY <2>1, <2>2, <2>3, <3>1, <3>2
  <2>7. QED BY <2>4, <2>5, <2>6 DEF SlotsMatch, UsedSlots
<1>4. ASSUME NEW w \in Workers, OpenStep(w)
      PROVE  SlotsMatch'
  <2>1. PICK f \in Fds : /\ fdTable[f] = "free" /\ fdTable' = [fdTable EXCEPT ![f] = "file"]
                         /\ UNCHANGED slotVars
    BY <1>4, OpenOpens
  <2>2. QED BY <1>0, <1>a, <2>1 DEF Types
<1>5. ASSUME NEW w \in Workers, CloseStep(w)
      PROVE  SlotsMatch'
  <2>1. /\ HasFile(w) /\ fdTable' = [fdTable EXCEPT ![file[w]] = "free"]
        /\ UNCHANGED slotVars
    BY <1>5, CloseCloses
  <2>2. file[w] \in Fds /\ fdTable[file[w]] = "file"
    BY <2>1 DEF FilesOK
  <2>3. QED BY <1>0, <1>a, <2>1, <2>2 DEF Types
<1>6. QED BY <1>1, <1>2, <1>3, <1>4, <1>5, FdSteps

(* Between select and accept nothing changes for the loop, and connections *)
(* only come.                                                              *)
LEMMA LoopKept ==
  ASSUME Types, SlotsMatch, LoopOK, [Next]_vars
  PROVE  LoopOK'
<1> USE DEF LoopOK
<1>1. CASE UNCHANGED <<mpc, readySet, readSet, nready>> /\ (backlog # <<>> => backlog' # <<>>)
  BY <1>1
<1>2. ASSUME NEW c \in Clients, ClientStep(c) \/ Kill(c)
      PROVE  LoopOK'
  <2>1. backlog' = backlog \/ backlog' = Append(backlog, c)
    BY <1>2 DEF ClientStep, Connect, SendRequest, Receive, Close, Kill, CloseSocket
  <2>2. backlog # <<>> => backlog' # <<>>
    BY <2>1, AppendProperties DEF Types
  <2>3. UNCHANGED <<mpc, readySet, readSet, nready>>
    BY <1>2 DEF ClientStep, Connect, SendRequest, Receive, Close, Kill, serverVars, loopVars, slotVars
  <2>4. QED BY <2>2, <2>3
<1>3. ASSUME NEW w \in Workers, TakeTask(w) \/ WorkerStep(w)
      PROVE  LoopOK'
  <2>1. UNCHANGED <<mpc, readySet, readSet, nready, backlog>>
    BY <1>3, WorkerFrame DEF workerFrame, loopVars, slotVars
  <2>2. QED BY <2>1
<1>4. CASE Select
  <2>1. readySet' = ReadyFds /\ nready' = Cardinality(ReadyFds) /\ ReadyFds # {}
        /\ backlog' = backlog /\ readSet' = readSet
    BY <1>4 DEF Select, netVars, slotVars
  <2>2. ReadyFds \subseteq readSet /\ (ServerSock \in ReadyFds => backlog # <<>>)
    BY DEF ReadyFds
  <2>3. QED BY <2>1, <2>2
<1>5. CASE NoNewClient \/ AcceptFails \/ AcceptClient \/ ScanEnd \/ ScanSkip \/ ScanBeyond
           \/ \E c \in Clients : CloseClient(c) \/ EnqueueRequest(c)
  <2>1. mpc' # "accept"
    BY <1>5 DEF NoNewClient, AcceptFails, AcceptClient, LeaveAccept, ScanEnd, ScanSkip, ScanBeyond, ScanReady,
                Scanning, CloseClient, EnqueueRequest, loopVars
  <2>2. QED BY <2>1
<1>6. CASE UNCHANGED vars
  BY <1>6 DEF vars, netVars, loopVars, slotVars
<1>7. QED BY <1>2, <1>3, <1>4, <1>5, <1>6 DEF Next, MainStep

(* A request that is enqueued has its descriptor and its client.           *)
LEMMA EnqueueInfo ==
  ASSUME Types, SlotsMatch, NEW c \in Clients, EnqueueRequest(c)
  PROVE  /\ slot \in UsedSlots /\ clientfd[slot] \in Fds /\ fdTable[clientfd[slot]] = c
         /\ LET i == [sock |-> clientfd[slot], for |-> c, req |-> done[c] + 1]
            IN  /\ info' = Append(info, i) /\ i \in [sock : Fds, for : Clients, req : Nat]
                /\ info' \in Seq([sock : Fds, for : Clients, req : Nat])
                /\ info'[Len(info) + 1] = i
                /\ \A n \in 1 .. Len(info) : info'[n] = info[n]
<1>1. slot \in UsedSlots /\ clientfd[slot] \in Fds /\ fdTable[clientfd[slot]] = c
  BY ReadySlot DEF EnqueueRequest, ScanReady
<1> DEFINE i == [sock |-> clientfd[slot], for |-> c, req |-> done[c] + 1]
<1>2. i \in [sock : Fds, for : Clients, req : Nat] /\ info' = Append(info, i)
  BY <1>1 DEF EnqueueRequest, Types
<1> HIDE DEF i
<1>3. info \in Seq([sock : Fds, for : Clients, req : Nat])
  BY DEF Types
<1>4. /\ info' \in Seq([sock : Fds, for : Clients, req : Nat])
      /\ info'[Len(info) + 1] = i
      /\ \A n \in 1 .. Len(info) : info'[n] = info[n]
  BY <1>2, <1>3, AppendProperties
<1>5. QED BY <1>1, <1>2, <1>4 DEF i

(* Short sequences.                                                        *)
LEMMA ShortTuples ==
  ASSUME NEW S, NEW a \in S, NEW b \in S
  PROVE  /\ <<a>> \in Seq(S) /\ Len(<<a>>) = 1 /\ <<a>>[1] = a
         /\ <<a, b>> \in Seq(S) /\ Len(<<a, b>>) = 2 /\ <<a, b>>[1] = a /\ <<a, b>>[2] = b
OBVIOUS

(* What a thread writes.                                                   *)
LEMMA PiecesType ==
  ASSUME Types, TasksOK, NEW w \in Workers, Writing(w)
  PROVE  /\ Pieces(w, wpc[w]) \in Seq(Piece)
         /\ Len(Pieces(w, wpc[w])) = IF wpc[w] = "end" THEN 2 ELSE 1
         /\ \A k \in 1 .. Len(Pieces(w, wpc[w])) :
               /\ Pieces(w, wpc[w])[k].for = info[running[w]].for
               /\ Pieces(w, wpc[w])[k].req = info[running[w]].req
               /\ Pieces(w, wpc[w])[k].part = Writes(wpc[w])[k]
<1>1. wpc[w] \in {"header", "body", "end"}
  BY DEF Writing
<1>2. Writes(wpc[w]) \in Seq(Parts) /\ Len(Writes(wpc[w])) = IF wpc[w] = "end" THEN 2 ELSE 1
  <2>1. CASE wpc[w] = "header"
    <3>1. Writes(wpc[w]) = <<"header">> /\ "header" \in Parts
      BY <2>1 DEF Writes, Parts
    <3>2. QED BY <2>1, <3>1, ShortTuples
  <2>2. CASE wpc[w] = "body"
    <3>1. Writes(wpc[w]) = <<"body">> /\ "body" \in Parts
      BY <2>2 DEF Writes, Parts
    <3>2. QED BY <2>2, <3>1, ShortTuples
  <2>3. CASE wpc[w] = "end"
    <3>1. Writes(wpc[w]) = <<"end1", "end2">> /\ "end1" \in Parts /\ "end2" \in Parts
      BY <2>3 DEF Writes, Parts
    <3>2. <<"end1", "end2">> \in Seq(Parts) /\ Len(<<"end1", "end2">>) = 2
      BY <3>1, ShortTuples
    <3>3. QED BY <2>3, <3>1, <3>2
  <2>4. QED BY <1>1, <2>1, <2>2, <2>3
<1> DEFINE i == info[running[w]]
<1>3. i.for \in Clients /\ i.req \in Nat
  BY <1>1, RunningTask
<1> HIDE DEF i
<1> DEFINE W == Writes(wpc[w])
<1>4. Pieces(w, wpc[w]) = [k \in 1 .. Len(W) |-> [for |-> i.for, req |-> i.req, part |-> W[k]]]
  BY DEF Pieces, i
<1> HIDE DEF W
<1>5. Len(W) \in Nat /\ \A k \in 1 .. Len(W) : W[k] \in Parts
  BY <1>2, ElementOfSeq, LenProperties DEF W
<1>6. \A k \in 1 .. Len(W) : [for |-> i.for, req |-> i.req, part |-> W[k]] \in Piece
  BY <1>3, <1>5 DEF Piece
<1>7. Pieces(w, wpc[w]) \in [1 .. Len(W) -> Piece]
  BY <1>4, <1>6
<1>8. Pieces(w, wpc[w]) \in Seq(Piece) /\ Len(Pieces(w, wpc[w])) = Len(W)
  BY <1>5, <1>7
<1>9. QED BY <1>2, <1>4, <1>8 DEF i, W

(* Types: the steps of the clients.                                        *)
LEMMA ClientTypes ==
  ASSUME Types, NEW c \in Clients, ClientStep(c) \/ Kill(c)
  PROVE  Types'
<1> USE DEF Types
<1>1. UNCHANGED serverVars
  BY DEF ClientStep, Connect, SendRequest, Receive, Close, Kill
<1>2. PoolTypeOK'
  BY <1>1 DEF serverVars, poolVars, PoolTypeOK
<1>3. ASSUME cpc' \in [Clients -> {"start", "send", "wait", "close", "closed", "killed"}],
             done' \in [Clients -> Nat], backlog' \in Seq(Clients), inbox' \in [Clients -> Nat],
             stream' \in [Clients -> Seq(Piece)], reset' \subseteq Clients
      PROVE  Types'
  BY <1>1, <1>2, <1>3 DEF serverVars, loopVars, slotVars, taskVars
<1>4. CASE Connect(c)
  <2>1. backlog' \in Seq(Clients)
    BY <1>4, AppendProperties DEF Connect
  <2>2. QED BY <1>3, <1>4, <2>1 DEF Connect, ClientGoto
<1>5. CASE SendRequest(c)
  <2>1. inbox' \in [Clients -> Nat] /\ UNCHANGED <<done, backlog, stream, reset>>
    BY <1>5 DEF SendRequest
  <2>2. cpc' \in [Clients -> {"start", "send", "wait", "close", "closed", "killed"}]
    BY <1>5 DEF SendRequest, ClientGoto
  <2>3. QED BY <1>3, <2>1, <2>2
<1>6. CASE Receive(c)
  <2>1. PICK n \in Readable(stream[c]) : stream' = [stream EXCEPT ![c] = SubSeq(@, n + 1, Len(@))]
    BY <1>6 DEF Receive
  <2>2. SubSeq(stream[c], n + 1, Len(stream[c])) \in Seq(Piece)
    <3>1. n \in 1 .. Len(stream[c]) /\ Len(stream[c]) \in Nat /\ stream[c] \in Seq(Piece)
      BY LenProperties DEF Readable
    <3>2. \A i \in n + 1 .. Len(stream[c]) : stream[c][i] \in Piece
      BY <3>1, ElementOfSeq
    <3>3. QED BY <3>1, <3>2, SubSeqProperties
  <2>3. stream' \in [Clients -> Seq(Piece)]
    BY <2>1, <2>2
  <2>4. cpc' \in [Clients -> {"start", "send", "wait", "close", "closed", "killed"}]
        /\ done' \in [Clients -> Nat] /\ UNCHANGED <<backlog, inbox, reset>>
    <3>1. \/ cpc' = cpc /\ done' = done
          \/ /\ done' = [done EXCEPT ![c] = @ + 1]
             /\ \E p \in {"send", "close"} : cpc' = [cpc EXCEPT ![c] = p]
      BY <1>6 DEF Receive, clientVars
    <3>2. UNCHANGED <<backlog, inbox, reset>>
      BY <1>6 DEF Receive
    <3>3. done' \in [Clients -> Nat]
      BY <3>1
    <3>4. cpc' \in [Clients -> {"start", "send", "wait", "close", "closed", "killed"}]
      <4>1. ASSUME NEW p \in {"send", "close"}, cpc' = [cpc EXCEPT ![c] = p]
            PROVE  cpc' \in [Clients -> {"start", "send", "wait", "close", "closed", "killed"}]
        BY <4>1
      <4>2. QED BY <3>1, <4>1
    <3>5. QED BY <3>2, <3>3, <3>4
  <2>5. QED BY <1>3, <2>3, <2>4
<1>7. CASE Close(c) \/ Kill(c)
  BY <1>3, <1>7 DEF Close, Kill, ClientGoto, CloseSocket
<1>8. QED BY <1>4, <1>5, <1>6, <1>7 DEF ClientStep

(* The steps of the threads.                                               *)
LEMMA WorkerTypes ==
  ASSUME Types, TasksOK, FilesOK, PoolTypeOK', NEW w \in Workers, TakeTask(w) \/ WorkerStep(w)
  PROVE  Types'
<1> USE DEF Types
<1>1. UNCHANGED workerFrame
  BY WorkerFrame
<1>2. ASSUME stream' \in [Clients -> Seq(Piece)], reset' \subseteq Clients, up' \in BOOLEAN,
             fdTable' \in [Fds -> Clients \cup {"free", "file"}],
             wpc' \in [Workers -> {"idle", "log", "logging", "open", "header", "body", "end", "closeFile"}],
             file' \in [Workers -> Fds \cup {NoFd}]
      PROVE  Types'
  BY <1>1, <1>2 DEF workerFrame, clientVars, loopVars, slotVars
<1>3. CASE TakeTask(w)
  BY <1>2, <1>3 DEF TakeTask, WorkerGoto
<1>4. CASE OpenStep(w)
  <2>1. PICK f \in Fds : fdTable' = [fdTable EXCEPT ![f] = "file"] /\ file' = [file EXCEPT ![w] = f]
    BY <1>4, OpenOpens
  <2>2. QED BY <1>2, <1>4, <2>1 DEF OpenStep, OpenLog, OpenFile, Opens, WorkerGoto
<1>5. CASE OutOfFds(w) \/ WriteFails(w)
  BY <1>2, <1>5 DEF OutOfFds, WriteFails, Exit
<1>6. NextWrite(wpc[w]) \in {"body", "end", "closeFile"} \/ ~Writing(w)
  BY DEF NextWrite, Writing
<1>7. CASE Write(w)
  <2>1. Writing(w) /\ Target(w) \in Clients
        /\ stream' = [stream EXCEPT ![Target(w)] = @ \o Pieces(w, wpc[w])]
    BY <1>7 DEF Write
  <2>2. stream[Target(w)] \o Pieces(w, wpc[w]) \in Seq(Piece)
    BY <2>1, PiecesType, ConcatProperties
  <2>3. stream' \in [Clients -> Seq(Piece)]
    BY <2>1, <2>2
  <2>4. QED BY <1>2, <1>6, <1>7, <2>1, <2>3 DEF Write, WorkerGoto
<1>8. CASE WriteUnheard(w) \/ WriteToLog(w)
  BY <1>2, <1>6, <1>8 DEF WriteUnheard, WriteToLog, WorkerGoto
<1>9. CASE CloseStep(w)
  BY <1>2, <1>9 DEF CloseStep, CloseLog, CloseFile, Closes, WorkerGoto
<1>10. QED BY <1>3, <1>4, <1>5, <1>7, <1>8, <1>9 DEF WorkerStep, OpenStep, CloseStep

(* The steps of main().                                                    *)
LEMMA MainTypes ==
  ASSUME Types, SlotsMatch, LoopOK, PoolTypeOK', MainStep
  PROVE  Types'
<1> USE DEF Types
<1>1. UNCHANGED mainFrame /\ UNCHANGED <<stream, reset>>
  BY DEF MainStep, Select, NoNewClient, AcceptFails, AcceptClient, ScanEnd, ScanSkip, ScanBeyond, CloseClient,
         EnqueueRequest, netVars, mainFrame
<1>2. ASSUME backlog' \in Seq(Clients), inbox' \in [Clients -> Nat], up' \in BOOLEAN,
             fdTable' \in [Fds -> Clients \cup {"free", "file"}],
             mpc' \in {"select", "accept", "scan"}, slot' \in 0 .. FD_SETSIZE,
             readySet' \subseteq Fds \cup {ServerSock}, nready' \in 0 .. MaxFd + 1,
             clientfd' \in [Slots -> Fds \cup {NoFd}], maxi' \in Int, maxfd' \in Fds \cup {ServerSock},
             info' \in Seq([sock : Fds, for : Clients, req : Nat])
      PROVE  Types'
  BY <1>1, <1>2 DEF mainFrame, clientVars
<1>3. 0 \in 0 .. FD_SETSIZE /\ MaxFd \in Nat /\ FD_SETSIZE \in Nat
  BY WebServerAssumption
<1>4. CASE Select
  <2>1. ReadyFds \subseteq Fds \cup {ServerSock}
    BY DEF ReadyFds, SlotsMatch
  <2>2. Cardinality(ReadyFds) \in 0 .. MaxFd + 1
    BY <2>1, FdsFinite
  <2>3. QED BY <1>2, <1>4, <2>1, <2>2 DEF Select, netVars, slotVars
<1>5. CASE NoNewClient \/ AcceptFails
  BY <1>2, <1>3, <1>5 DEF NoNewClient, AcceptFails, LeaveAccept, netVars, slotVars
<1>6. CASE AcceptClient
  <2>1. PICK f \in Fds : /\ fdTable' = [fdTable EXCEPT ![f] = Head(backlog)]
                         /\ Head(backlog) \in Clients /\ backlog' = Tail(backlog) /\ backlog # <<>>
                         /\ \/ AddClient(f) /\ Lowest(FreeSlots) \in Slots
                            \/ NoSlot
    BY <1>6, AcceptOpens
  <2>2. backlog' \in Seq(Clients)
    BY <2>1, HeadTailProperties
  <2>3. fdTable' \in [Fds -> Clients \cup {"free", "file"}]
    BY <2>1
  <2>4. clientfd' \in [Slots -> Fds \cup {NoFd}] /\ maxi' \in Int /\ maxfd' \in Fds \cup {ServerSock}
    <3>1. CASE AddClient(f) /\ Lowest(FreeSlots) \in Slots
      <4> DEFINE s == Lowest(FreeSlots)
      <4>1. /\ clientfd' = [clientfd EXCEPT ![s] = f] /\ s \in Slots
            /\ maxi' = (IF s > maxi THEN s ELSE maxi) /\ maxfd' = (IF f > maxfd THEN f ELSE maxfd)
        BY <3>1 DEF AddClient
      <4> HIDE DEF s
      <4>2. s \in Int
        BY <4>1, FdsDistinct
      <4>3. QED BY <4>1, <4>2
    <3>2. CASE NoSlot
      BY <3>2 DEF NoSlot, slotVars
    <3>3. QED BY <2>1, <3>1, <3>2
  <2>5. nready' \in 0 .. MaxFd + 1
    <3>1. nready # 0
      BY <1>6, FdsFinite DEF LoopOK, AcceptClient
    <3>2. QED BY <1>3, <1>6, <3>1 DEF AcceptClient, Handled
  <2>6. QED BY <1>2, <1>3, <1>6, <2>2, <2>3, <2>4, <2>5 DEF AcceptClient, LeaveAccept
<1>7. slot \in Slots => slot + 1 \in 0 .. FD_SETSIZE
  BY <1>3 DEF Slots
<1>8. CASE ScanEnd \/ ScanSkip \/ ScanBeyond
  BY <1>2, <1>7, <1>8 DEF ScanEnd, ScanSkip, ScanBeyond, netVars, loopVars, slotVars
<1>9. nready > 0 => nready - 1 \in 0 .. MaxFd + 1
  BY <1>3
<1>10. ASSUME NEW c \in Clients, CloseClient(c)
       PROVE  Types'
  <2>1. /\ clientfd[slot] \in Fds
        /\ fdTable' = [fdTable EXCEPT ![clientfd[slot]] = "free"]
        /\ clientfd' = [clientfd EXCEPT ![slot] = NoFd]
        /\ maxi' = maxi /\ maxfd' = maxfd
    BY <1>10, CloseFrees
  <2>2. slot' \in 0 .. FD_SETSIZE /\ nready' \in 0 .. MaxFd + 1
    BY <1>7, <1>9, <1>10 DEF CloseClient, ScanReady, Scanning
  <2>3. QED BY <1>2, <1>10, <2>1, <2>2 DEF CloseClient, netVars
<1>11. ASSUME NEW c \in Clients, EnqueueRequest(c)
       PROVE  Types'
  <2>1. info' \in Seq([sock : Fds, for : Clients, req : Nat])
    BY <1>11, EnqueueInfo
  <2>2. slot' \in 0 .. FD_SETSIZE /\ nready' \in 0 .. MaxFd + 1
    BY <1>7, <1>9, <1>11 DEF EnqueueRequest, ScanReady, Scanning
  <2>3. inbox' \in [Clients -> Nat]
    BY <1>11 DEF EnqueueRequest, InboxRead
  <2>4. QED BY <1>2, <1>11, <2>1, <2>2, <2>3 DEF EnqueueRequest, slotVars
<1>12. QED BY <1>4, <1>5, <1>6, <1>8, <1>10, <1>11 DEF MainStep

(* The four depend on each other.                                          *)
PoolOfFds == Types /\ SlotsMatch /\ FilesOK /\ TasksOK /\ LoopOK

(* All steps.                                                              *)
LEMMA PoolOfFdsKept ==
  ASSUME PoolOfFds, [Next]_vars
  PROVE  PoolOfFds'
<1> USE DEF PoolOfFds
<1>1. TasksOK' /\ PoolTypeOK' /\ FilesOK' /\ SlotsMatch' /\ LoopOK'
  BY TasksKept, FilesKept, SlotsKept, LoopKept
<1>2. Types'
  <2>1. CASE UNCHANGED vars
    BY <1>1, <2>1 DEF vars, Types, clientVars, netVars, loopVars, slotVars, taskVars
  <2>2. ASSUME NEW c \in Clients, ClientStep(c) \/ Kill(c)
        PROVE  Types'
    BY <2>2, ClientTypes
  <2>3. ASSUME NEW w \in Workers, TakeTask(w) \/ WorkerStep(w)
        PROVE  Types'
    BY <1>1, <2>3, WorkerTypes
  <2>4. CASE MainStep
    BY <1>1, <2>4, MainTypes
  <2>5. QED BY <2>1, <2>2, <2>3, <2>4 DEF Next
<1>3. QED BY <1>1, <1>2

(* The beginning.                                                          *)
LEMMA PoolOfFdsInit == Init => PoolOfFds
<1> SUFFICES ASSUME Init PROVE PoolOfFds
  OBVIOUS
<1>1. PoolTypeOK /\ ExactlyOnce
  BY PoolAssumption DEF Init, PoolInit, PoolTypeOK, ExactlyOnce
<1>2. Types
  <2>1. <<>> \in Seq(Clients) /\ <<>> \in Seq(Piece) /\ <<>> \in Seq([sock : Fds, for : Clients, req : Nat])
    OBVIOUS
  <2>2. maxi \in Int /\ slot \in 0 .. FD_SETSIZE /\ nready \in 0 .. MaxFd + 1
    BY WebServerAssumption DEF Init
  <2>3. QED BY <1>1, <2>1, <2>2 DEF Init, Types, ServerSock
<1>3. SlotsMatch
  <2>1. {i \in Slots : clientfd[i] # NoFd} = {}
    BY DEF Init
  <2>2. QED BY <2>1 DEF SlotsMatch, Init
<1>4. FilesOK
  BY DEF FilesOK, HasFile, Init
<1>5. TasksOK
  BY <1>1 DEF TasksOK, Init, PoolInit
<1>6. LoopOK
  BY DEF LoopOK, Init
<1>7. QED BY <1>2, <1>3, <1>4, <1>5, <1>6 DEF PoolOfFds

(* Types and tasks, the slots and the files are right at every moment.     *)
THEOREM WebPoolOfFds == Spec => []PoolOfFds
<1>1. PoolOfFds /\ [Next]_vars => PoolOfFds'
  BY PoolOfFdsKept
<1>2. QED BY <1>1, PoolOfFdsInit, PTL DEF Spec

(* addClient and handleClientFds keep the sets and the slots of the pool   *)
(* of descriptors together, whoever is killed and whatever fails.          *)
THEOREM WebSlotsMatch == Spec => []SlotsMatch
<1>1. PoolOfFds => SlotsMatch
  BY DEF PoolOfFds
<1>2. QED BY <1>1, WebPoolOfFds, PTL

-----------------------------------------------------------------------------
(* Enough descriptors                                                      *)

(* Every client has one connection and every thread one file.  A socket    *)
(* for which addClient has no slot is never closed, and counts too.        *)
EnoughFds == IsFiniteSet(Clients) /\ Cardinality(Clients) + THR_NUM <= MaxFd

(* A client has one descriptor at the server at most, and none before its  *)
(* connection is accepted.                                                 *)
PlacesOK ==
  /\ \A f, g \in Fds : fdTable[f] \in Clients /\ fdTable[g] = fdTable[f] => f = g
  /\ \A i, j \in DOMAIN backlog : backlog[i] = backlog[j] => i = j
  /\ \A i \in DOMAIN backlog, f \in Fds : fdTable[f] # backlog[i]
  /\ \A c \in Clients : cpc[c] = "start" =>
        (\A f \in Fds : fdTable[f] # c) /\ \A i \in DOMAIN backlog : backlog[i] # c

(* A queue without its head.                                               *)
LEMMA QueueTail ==
  ASSUME NEW S, NEW q \in Seq(S), q # <<>>
  PROVE  /\ 1 \in DOMAIN q /\ Head(q) = q[1] /\ Head(q) \in S
         /\ \A i \in DOMAIN Tail(q) : i + 1 \in DOMAIN q /\ i + 1 # 1 /\ i \in Nat /\ Tail(q)[i] = q[i + 1]
<1>1. /\ Head(q) \in S /\ Tail(q) \in Seq(S) /\ Head(q) = q[1]
      /\ Len(Tail(q)) = Len(q) - 1
      /\ \A i \in 1 .. Len(Tail(q)) : Tail(q)[i] = q[i + 1]
  BY HeadTailProperties
<1>2. DOMAIN q = 1 .. Len(q) /\ DOMAIN Tail(q) = 1 .. Len(Tail(q)) /\ Len(q) \in Nat /\ Len(q) # 0
  BY <1>1, EmptySeq, LenProperties
<1>3. 1 \in DOMAIN q /\ \A i \in DOMAIN Tail(q) : i \in Nat /\ i + 1 \in DOMAIN q /\ i + 1 # 1
  BY <1>1, <1>2
<1>4. QED BY <1>1, <1>2, <1>3

(* The places of connections that are not given another owner.             *)
LEMMA PlacesStay ==
  ASSUME PlacesOK, backlog' = backlog, \A c \in Clients : cpc'[c] = "start" => cpc[c] = "start",
         \A f \in Fds : fdTable'[f] \in Clients => fdTable'[f] = fdTable[f],
         backlog \in Seq(Clients)
  PROVE  PlacesOK'
<1>1. \A f, g \in Fds : fdTable'[f] \in Clients /\ fdTable'[g] = fdTable'[f] => f = g
  BY DEF PlacesOK
<1>2. \A i \in DOMAIN backlog : backlog[i] \in Clients
  BY LenProperties, ElementOfSeq
<1>3. \A i \in DOMAIN backlog', f \in Fds : fdTable'[f] # backlog'[i]
  BY <1>2 DEF PlacesOK
<1>4. \A c \in Clients : cpc'[c] = "start" =>
        (\A f \in Fds : fdTable'[f] # c) /\ \A i \in DOMAIN backlog' : backlog'[i] # c
  BY DEF PlacesOK
<1>5. QED BY <1>1, <1>3, <1>4 DEF PlacesOK

(* Connections keep their places.                                          *)
LEMMA PlacesKept ==
  ASSUME PoolOfFds, PlacesOK, [Next]_vars
  PROVE  PlacesOK'
<1>0. /\ \A c \in Clients : c # "file" /\ c # "free"
      /\ backlog \in Seq(Clients) /\ Types /\ SlotsMatch /\ FilesOK /\ LoopOK
  BY WebServerAssumption DEF PoolOfFds, Types
<1>1. ASSUME NEW c \in Clients, Connect(c)
      PROVE  PlacesOK'
  <2>1. cpc[c] = "start" /\ backlog' = Append(backlog, c) /\ fdTable' = fdTable
        /\ \A d \in Clients : cpc'[d] = "start" => cpc[d] = "start" /\ d # c
    BY <1>0, <1>1 DEF Connect, ClientGoto, serverVars, Types
  <2>2. /\ \A i \in DOMAIN backlog : i \in DOMAIN backlog' /\ backlog'[i] = backlog[i] /\ backlog[i] # c
        /\ \A i \in DOMAIN backlog' : i \in DOMAIN backlog \/ backlog'[i] = c
        /\ \A i, j \in DOMAIN backlog' : i \in DOMAIN backlog \/ j \in DOMAIN backlog \/ i = j
    <3>1. /\ DOMAIN backlog = 1 .. Len(backlog) /\ Len(backlog) \in Nat
          /\ Len(backlog') = Len(backlog) + 1 /\ backlog' \in Seq(Clients)
          /\ \A i \in 1 .. Len(backlog) : backlog'[i] = backlog[i]
          /\ backlog'[Len(backlog) + 1] = c
      BY <1>0, <2>1, LenProperties, AppendProperties
    <3>2. DOMAIN backlog' = 1 .. Len(backlog) + 1
      BY <3>1, LenProperties
    <3>3. \A i \in DOMAIN backlog : backlog[i] # c
      BY <2>1 DEF PlacesOK
    <3>4. QED BY <3>1, <3>2, <3>3
  <2>3. QED BY <2>1, <2>2 DEF PlacesOK
<1>2. CASE AcceptClient
  <2>1. PICK f \in Fds : /\ fdTable[f] = "free" /\ fdTable' = [fdTable EXCEPT ![f] = Head(backlog)]
                         /\ Head(backlog) \in Clients /\ backlog' = Tail(backlog) /\ backlog # <<>>
    BY <1>0, <1>2, AcceptOpens
  <2>2. cpc' = cpc
    BY <1>2 DEF AcceptClient, mainFrame, clientVars
  <2>3. /\ 1 \in DOMAIN backlog /\ Head(backlog) = backlog[1]
        /\ \A i \in DOMAIN backlog' : /\ i + 1 \in DOMAIN backlog /\ i + 1 # 1 /\ i \in Nat
                                      /\ backlog'[i] = backlog[i + 1]
    BY <1>0, <2>1, QueueTail
  <2>4. fdTable'[f] = backlog[1] /\ \A g \in Fds : g # f => fdTable'[g] = fdTable[g]
    BY <1>0, <2>1, <2>3 DEF Types
  <2>5. \A i, j \in DOMAIN backlog' : backlog'[i] = backlog'[j] => i = j
    BY <2>3 DEF PlacesOK
  <2>6. \A i \in DOMAIN backlog', g \in Fds : fdTable'[g] # backlog'[i]
    BY <2>3, <2>4 DEF PlacesOK
  <2>7. \A g, h \in Fds : fdTable'[g] \in Clients /\ fdTable'[h] = fdTable'[g] => g = h
    BY <2>3, <2>4 DEF PlacesOK
  <2>8. \A c \in Clients : cpc'[c] = "start" =>
           (\A g \in Fds : fdTable'[g] # c) /\ \A i \in DOMAIN backlog' : backlog'[i] # c
    BY <2>2, <2>3, <2>4 DEF PlacesOK
  <2>9. QED BY <2>5, <2>6, <2>7, <2>8 DEF PlacesOK
<1>3. ASSUME NEW c \in Clients, SendRequest(c) \/ Receive(c) \/ Close(c) \/ Kill(c)
      PROVE  PlacesOK'
  <2>1. \A d \in Clients : cpc'[d] = "start" => cpc[d] = "start"
    <3>1. CASE Receive(c)
      BY <1>0, <3>1 DEF Receive, clientVars, Types
    <3>2. CASE SendRequest(c) \/ Close(c) \/ Kill(c)
      BY <1>0, <3>2 DEF SendRequest, Close, Kill, ClientGoto, Types
    <3>3. QED BY <1>3, <3>1, <3>2
  <2>2. backlog' = backlog /\ fdTable' = fdTable
    BY <1>3 DEF SendRequest, Receive, Close, Kill, CloseSocket, serverVars
  <2>3. QED BY <1>0, <2>1, <2>2, PlacesStay
<1>4. ASSUME UNCHANGED <<cpc, backlog>>, \A f \in Fds : fdTable'[f] \in Clients => fdTable'[f] = fdTable[f]
      PROVE  PlacesOK'
  BY <1>0, <1>4, PlacesStay
<1>5. CASE SameFds /\ UNCHANGED <<cpc, backlog>>
  BY <1>4, <1>5 DEF SameFds
<1>6. ASSUME NEW c \in Clients, CloseClient(c)
      PROVE  PlacesOK'
  <2>1. clientfd[slot] \in Fds /\ fdTable' = [fdTable EXCEPT ![clientfd[slot]] = "free"]
    BY <1>0, <1>6, CloseFrees
  <2>2. UNCHANGED <<cpc, backlog>>
    BY <1>6 DEF CloseClient, mainFrame, clientVars, netVars
  <2>3. QED BY <1>0, <1>4, <2>1, <2>2 DEF Types
<1>7. ASSUME NEW w \in Workers, OpenStep(w) \/ CloseStep(w)
      PROVE  PlacesOK'
  <2>1. \E f \in Fds, e \in {"free", "file"} : fdTable' = [fdTable EXCEPT ![f] = e]
    BY <1>0, <1>7, OpenOpens, CloseCloses DEF FilesOK
  <2>2. UNCHANGED <<cpc, backlog>>
    BY <1>7, WorkerFrame DEF OpenStep, CloseStep, WorkerStep, workerFrame, clientVars
  <2>3. QED BY <1>0, <1>4, <2>1, <2>2 DEF Types
<1>8. CASE UNCHANGED <<cpc, backlog>>
  BY <1>0, <1>2, <1>5, <1>6, <1>7, <1>8, FdSteps
<1>9. UNCHANGED <<cpc, backlog>> \/ AcceptClient
      \/ \E c \in Clients : Connect(c) \/ SendRequest(c) \/ Receive(c) \/ Close(c) \/ Kill(c)
  <2>1. CASE UNCHANGED vars
    BY <2>1 DEF vars, clientVars, netVars
  <2>2. ASSUME NEW w \in Workers, TakeTask(w) \/ WorkerStep(w)
        PROVE  UNCHANGED <<cpc, backlog>>
    BY <2>2, WorkerFrame DEF workerFrame, clientVars
  <2>3. CASE MainStep /\ ~AcceptClient
    BY <2>3 DEF MainStep, Select, NoNewClient, AcceptFails, ScanEnd, ScanSkip, ScanBeyond, CloseClient,
                EnqueueRequest, mainFrame, clientVars, netVars
  <2>4. QED BY <2>1, <2>2, <2>3 DEF Next, ClientStep
<1>10. QED BY <1>1, <1>2, <1>3, <1>8, <1>9

(* The beginning.                                                          *)
LEMMA PlacesInit == Init => PlacesOK
<1> SUFFICES ASSUME Init PROVE PlacesOK
  OBVIOUS
<1>1. /\ \A f \in Fds : fdTable[f] = "free"
      /\ DOMAIN backlog = {} /\ \A c \in Clients : c # "free"
  BY WebServerAssumption DEF Init
<1>2. QED BY <1>1 DEF PlacesOK

(* Descriptors open on sockets, and on files.                              *)
SockFds == {f \in Fds : fdTable[f] \in Clients}
FileFds == {f \in Fds : fdTable[f] = "file"}

(* The sockets are of different clients.                                   *)
LEMMA SocketsFew ==
  ASSUME PlacesOK, NEW T \in SUBSET Clients, IsFiniteSet(T), \A f \in SockFds : fdTable[f] \in T
  PROVE  IsFiniteSet(SockFds) /\ Cardinality(SockFds) <= Cardinality(T)
<1> DEFINE g == [f \in SockFds |-> fdTable[f]]
<1>1. g \in [SockFds -> T]
  OBVIOUS
<1>2. \A a, b \in SockFds : g[a] = g[b] => a = b
  BY DEF PlacesOK, SockFds
<1> HIDE DEF g
<1>3. g \in Injection(SockFds, T)
  BY <1>1, <1>2, Fun_IsInj
<1>4. QED BY <1>3, FS_Injection

(* The files are of different threads.                                     *)
LEMMA FilesFew ==
  ASSUME FilesOK, NEW T \in SUBSET Workers, IsFiniteSet(T), \A w \in Workers : HasFile(w) => w \in T
  PROVE  IsFiniteSet(FileFds) /\ Cardinality(FileFds) <= Cardinality(T)
<1> DEFINE g == [f \in FileFds |-> CHOOSE w \in Workers : HasFile(w) /\ file[w] = f]
<1>1. \A f \in FileFds : g[f] \in Workers /\ HasFile(g[f]) /\ file[g[f]] = f
  BY DEF FilesOK, FileFds
<1>2. g \in [FileFds -> T] /\ \A a, b \in FileFds : g[a] = g[b] => a = b
  <2>1. \A f \in FileFds : g[f] \in T
    BY <1>1
  <2>2. \A a, b \in FileFds : g[a] = g[b] => a = b
    BY <1>1
  <2>3. QED BY <2>1, <2>2
<1> HIDE DEF g
<1>3. g \in Injection(FileFds, T)
  BY <1>2, Fun_IsInj
<1>4. QED BY <1>3, FS_Injection

(* The descriptors that are open are all the others.                       *)
LEMMA OpenFds ==
  ASSUME Types, FreeFds = {}, IsFiniteSet(SockFds), IsFiniteSet(FileFds)
  PROVE  MaxFd <= Cardinality(SockFds) + Cardinality(FileFds)
<1>1. Fds = SockFds \cup FileFds
  BY DEF Types, FreeFds, SockFds, FileFds
<1>2. Cardinality(Fds) = MaxFd
  BY WebServerAssumption, FS_Interval DEF Fds
<1>3. Cardinality(SockFds \cup FileFds)
         = Cardinality(SockFds) + Cardinality(FileFds) - Cardinality(SockFds \cap FileFds)
  BY FS_Union
<1>4. Cardinality(SockFds \cap FileFds) \in Nat /\ Cardinality(SockFds) \in Nat /\ Cardinality(FileFds) \in Nat
  BY FS_Intersection, FS_CardinalityType
<1>5. QED BY <1>1, <1>2, <1>3, <1>4, WebServerAssumption

(* A descriptor is left for a connection that waits to be accepted, and    *)
(* for a thread that has no file open.                                     *)
LEMMA FreeFdLeft ==
  ASSUME EnoughFds, PoolOfFds, PlacesOK, backlog # <<>> \/ \E w \in Workers : ~HasFile(w)
  PROVE  FreeFds # {}
<1>0. Types /\ FilesOK /\ THR_NUM \in Nat
  BY PoolAssumption DEF PoolOfFds
<1>1. IsFiniteSet(Workers) /\ Cardinality(Workers) = THR_NUM
  BY <1>0, PoolAssumption, FS_Interval DEF Workers
<1>2. IsFiniteSet(Clients) /\ Cardinality(Clients) \in Nat /\ Cardinality(Clients) + THR_NUM <= MaxFd
      /\ MaxFd \in Nat
  BY FS_CardinalityType, WebServerAssumption DEF EnoughFds
<1>3. /\ IsFiniteSet(SockFds) /\ Cardinality(SockFds) <= Cardinality(Clients)
      /\ IsFiniteSet(FileFds) /\ Cardinality(FileFds) <= Cardinality(Workers)
  <2>1. \A f \in SockFds : fdTable[f] \in Clients
    BY DEF SockFds
  <2>2. QED BY <1>0, <1>1, <1>2, <2>1, SocketsFew, FilesFew
<1>4. Cardinality(SockFds) \in Nat /\ Cardinality(FileFds) \in Nat
  BY <1>3, FS_CardinalityType
<1>5. SUFFICES ASSUME FreeFds = {} PROVE FALSE
  OBVIOUS
<1>6. MaxFd <= Cardinality(SockFds) + Cardinality(FileFds)
  BY <1>0, <1>3, <1>5, OpenFds
<1>7. CASE backlog # <<>>
  <2>1. Head(backlog) \in Clients /\ \A f \in Fds : fdTable[f] # Head(backlog)
    BY <1>0, <1>7, QueueTail DEF Types, PlacesOK
  <2> DEFINE T == Clients \ {Head(backlog)}
  <2>2. IsFiniteSet(T) /\ Cardinality(T) = Cardinality(Clients) - 1
    BY <1>2, <2>1, FS_RemoveElement
  <2>3. \A f \in SockFds : fdTable[f] \in T
    BY <2>1 DEF SockFds
  <2>4. Cardinality(SockFds) <= Cardinality(T)
    BY <2>2, <2>3, SocketsFew
  <2>5. QED BY <1>0, <1>1, <1>2, <1>3, <1>4, <1>6, <2>2, <2>4
<1>8. ASSUME NEW w \in Workers, ~HasFile(w)
      PROVE  FALSE
  <2> DEFINE T == Workers \ {w}
  <2>1. IsFiniteSet(T) /\ Cardinality(T) = Cardinality(Workers) - 1
    BY <1>1, FS_RemoveElement
  <2>2. Cardinality(FileFds) <= Cardinality(T)
    BY <1>0, <1>8, <2>1, FilesFew
  <2>3. QED BY <1>0, <1>1, <1>2, <1>3, <1>4, <1>6, <2>1, <2>2
<1>9. QED BY <1>7, <1>8

(* The slots the scan has still to find ready.                             *)
Left == {i \in Slots : i >= slot /\ clientfd[i] \in readySet}

(* Slots are finitely many.                                                *)
LEMMA SlotsFinite ==
  ASSUME NEW S \in SUBSET Slots
  PROVE  IsFiniteSet(S)
<1>1. IsFiniteSet(0 .. FD_SETSIZE - 1)
  BY WebServerAssumption, FS_Interval
<1>2. QED BY <1>1, FS_Subset DEF Slots

(* Every ready descriptor but that of the server is in one slot.           *)
LEMMA ReadyCount ==
  ASSUME Types, SlotsMatch, readySet \subseteq readSet
  PROVE  Cardinality({i \in Slots : clientfd[i] \in readySet}) = Cardinality(readySet \ {ServerSock})
<1> DEFINE S == {i \in Slots : clientfd[i] \in readySet}
           T == readySet \ {ServerSock}
           g == [i \in S |-> clientfd[i]]
<1>1. IsFiniteSet(S)
  BY SlotsFinite
<1>2. \A i \in S : i \in UsedSlots /\ clientfd[i] \in T
  BY ReadySlot, FdsDistinct
<1>3. g \in [S -> T]
  BY <1>2
<1>4. \A i, j \in S : g[i] = g[j] => i = j
  BY <1>2 DEF SlotsMatch, UsedSlots
<1>5. \A f \in T : \E i \in S : g[i] = f
  <2>1. SUFFICES ASSUME NEW f \in T PROVE \E i \in S : g[i] = f
    OBVIOUS
  <2>2. PICK i \in UsedSlots : clientfd[i] = f
    BY DEF SlotsMatch, UsedSlots
  <2>3. i \in S
    BY <2>2 DEF UsedSlots
  <2>4. QED BY <2>2, <2>3
<1> HIDE DEF S, T, g
<1>6. g \in Bijection(S, T)
  BY <1>3, <1>4, <1>5, Fun_IsBij
<1>7. Cardinality(T) = Cardinality(S)
  BY <1>1, <1>6, FS_Bijection DEF ExistsBijection
<1>8. QED BY <1>7 DEF S, T

(* A slot that the scan passes.                                            *)
LEMMA SlotPassed ==
  ASSUME Types, NEW S \in SUBSET Slots, Cardinality(S) = nready, slot \in S, nready' = nready - 1
  PROVE  nready' = Cardinality(S \ {slot})
<1>1. IsFiniteSet(S)
  BY SlotsFinite
<1>2. QED BY <1>1, FS_RemoveElement

(* accept gives no slot a ready descriptor.                                *)
LEMMA ReadySame ==
  ASSUME PoolOfFds, NoNewClient \/ AcceptFails \/ AcceptClient
  PROVE  \A i \in Slots : /\ clientfd'[i] \in readySet <=> clientfd[i] \in readySet
                          /\ clientfd[i] \in readySet => clientfd'[i] = clientfd[i]
<1>0. Types /\ SlotsMatch /\ LoopOK /\ readySet \subseteq readSet
  BY DEF PoolOfFds, LoopOK, NoNewClient, AcceptFails, AcceptClient
<1>1. CASE UNCHANGED clientfd
  BY <1>1
<1>2. CASE AcceptClient
  <2>1. PICK f \in Fds : /\ fdTable[f] = "free"
                         /\ \/ /\ AddClient(f) /\ Lowest(FreeSlots) \in Slots
                               /\ clientfd[Lowest(FreeSlots)] = NoFd
                            \/ NoSlot
    BY <1>0, <1>2, AcceptOpens
  <2>2. CASE NoSlot
    BY <2>2 DEF NoSlot, slotVars
  <2>3. CASE ~NoSlot
    <3> DEFINE s == Lowest(FreeSlots)
    <3>1. s \in Slots /\ clientfd[s] = NoFd /\ clientfd' = [clientfd EXCEPT ![s] = f]
      BY <2>1, <2>3 DEF AddClient
    <3> HIDE DEF s
    <3>2. NoFd \notin readySet
      BY <1>0, FdsDistinct DEF Types
    <3>3. f \notin readySet
      <4>1. \A i \in UsedSlots : fdTable[clientfd[i]] \in Clients
        BY <1>0 DEF SlotsMatch, UsedSlots
      <4>2. f # ServerSock /\ "free" \notin Clients
        BY FdsDistinct, WebServerAssumption
      <4>3. \A i \in UsedSlots : clientfd[i] # f
        BY <2>1, <4>1, <4>2
      <4>4. f \notin readSet
        BY <1>0, <4>2, <4>3 DEF SlotsMatch, UsedSlots
      <4>5. QED BY <1>0, <4>4
    <3>4. QED BY <1>0, <3>1, <3>2, <3>3 DEF Types
  <2>4. QED BY <2>2, <2>3
<1>3. QED BY <1>1, <1>2 DEF NoNewClient, AcceptFails, slotVars

(* The count when the scan begins.                                         *)
LEMMA CountBegins ==
  ASSUME PoolOfFds, NoNewClient \/ AcceptClient
  PROVE  ScanCounts'
<1>0. Types /\ SlotsMatch /\ LoopOK /\ mpc = "accept"
  BY DEF PoolOfFds, NoNewClient, AcceptClient
<1>1. slot' = 0 /\ readySet' = readySet /\ readySet \subseteq readSet /\ nready = Cardinality(readySet)
  BY <1>0 DEF NoNewClient, AcceptClient, LeaveAccept, LoopOK
<1>2. nready' = Cardinality(readySet \ {ServerSock})
  <2>1. CASE NoNewClient
    <3>1. readySet \ {ServerSock} = readySet
      BY <2>1 DEF NoNewClient
    <3>2. QED BY <1>1, <2>1, <3>1 DEF NoNewClient
  <2>2. CASE AcceptClient
    <3>1. IsFiniteSet(readySet)
      BY <1>0, FdsFinite DEF Types
    <3>2. Cardinality(readySet \ {ServerSock}) = Cardinality(readySet) - 1
      BY <2>2, <3>1, FS_RemoveElement DEF AcceptClient
    <3>3. QED BY <1>1, <2>2, <3>2 DEF AcceptClient, Handled
  <2>3. QED BY <2>1, <2>2
<1>3. \A i \in Slots : clientfd'[i] \in readySet <=> clientfd[i] \in readySet
  BY ReadySame
<1>4. {i \in Slots : i >= slot' /\ clientfd'[i] \in readySet'} = {i \in Slots : clientfd[i] \in readySet}
  <2>1. \A i \in Slots : i >= slot'
    BY <1>1, FdsDistinct
  <2>2. QED BY <1>1, <1>3, <2>1
<1>5. QED BY <1>0, <1>1, <1>2, <1>4, ReadyCount DEF ScanCounts

(* The count of ready slots that the scan has before it is right: accept   *)
(* finds a descriptor for the connection that select has seen.             *)
LEMMA CountKept ==
  ASSUME EnoughFds, PoolOfFds, PlacesOK, ScanCounts, [Next]_vars
  PROVE  ScanCounts'
<1>0. Types /\ SlotsMatch /\ LoopOK
  BY DEF PoolOfFds
<1>1. ASSUME UNCHANGED <<mpc, slot, readySet, nready, clientfd>>
      PROVE  ScanCounts'
  BY <1>1 DEF ScanCounts
<1>2. ASSUME mpc' # "scan"
      PROVE  ScanCounts'
  BY <1>2 DEF ScanCounts
<1>3. ASSUME NEW c \in Clients, ClientStep(c) \/ Kill(c)
      PROVE  ScanCounts'
  BY <1>1, <1>3 DEF ClientStep, Connect, SendRequest, Receive, Close, Kill, serverVars, loopVars, slotVars
<1>4. ASSUME NEW w \in Workers, TakeTask(w) \/ WorkerStep(w)
      PROVE  ScanCounts'
  BY <1>1, <1>4, WorkerFrame DEF workerFrame, loopVars, slotVars
<1>5. CASE Select \/ ScanEnd
  BY <1>2, <1>5 DEF Select, ScanEnd
<1>6. CASE NoNewClient \/ AcceptClient
  BY <1>6, CountBegins
<1>7. CASE AcceptFails
  <2>1. backlog # <<>>
    BY <1>0, <1>7 DEF AcceptFails, LoopOK
  <2>2. QED BY <1>7, <2>1, FreeFdLeft DEF AcceptFails
<1>8. CASE ScanBeyond
  BY <1>1, <1>8 DEF ScanBeyond, loopVars, slotVars
<1>9. mpc = "scan" => nready = Cardinality(Left) /\ Left \subseteq Slots /\ Slots \subseteq Nat /\ slot \in Nat
  BY <1>0, FdsDistinct, WebServerAssumption DEF ScanCounts, Left, Types
<1>10. CASE ScanSkip
  <2>1. slot' = slot + 1 /\ UNCHANGED <<mpc, readySet, nready, clientfd>> /\ mpc = "scan"
        /\ clientfd[slot] \notin readySet
    BY <1>10 DEF ScanSkip, Scanning, slotVars
  <2>2. Left' = Left
    BY <1>9, <2>1 DEF Left
  <2>3. QED BY <1>9, <2>1, <2>2 DEF ScanCounts, Left
<1>11. ASSUME NEW c \in Clients, ScanReady(c), readySet' = readySet, mpc' = mpc,
              clientfd' = clientfd \/ clientfd' = [clientfd EXCEPT ![slot] = NoFd]
       PROVE  ScanCounts'
  <2>1. slot \in Slots /\ clientfd[slot] \in readySet /\ nready' = nready - 1 /\ slot' = slot + 1
        /\ mpc = "scan"
    BY <1>11 DEF ScanReady, Scanning
  <2>2. \A i \in Slots : i # slot => clientfd'[i] = clientfd[i]
    BY <1>0, <1>11 DEF Types
  <2>3. slot \in Left /\ Left' = Left \ {slot}
    BY <1>9, <1>11, <2>1, <2>2 DEF Left
  <2>4. nready' = Cardinality(Left')
    BY <1>0, <1>9, <2>1, <2>3, SlotPassed
  <2>5. QED BY <2>4 DEF ScanCounts, Left
<1>12. ASSUME NEW c \in Clients, CloseClient(c) \/ EnqueueRequest(c)
       PROVE  ScanCounts'
  BY <1>11, <1>12 DEF CloseClient, EnqueueRequest, slotVars
<1>13. CASE UNCHANGED vars
  BY <1>1, <1>13 DEF vars, loopVars, slotVars
<1>14. QED
  BY <1>3, <1>4, <1>5, <1>6, <1>7, <1>8, <1>10, <1>12, <1>13 DEF Next, MainStep

(* The scan looks at slots that clientfd has.                              *)
ScanInside == Scanning => slot \in Slots

(* When there are descriptors enough, nready is exact in handleClientFds:  *)
(* the scan stops after the last ready slot, whatever maxi was at first.   *)
THEOREM WebScanCounts ==
  ASSUME EnoughFds
  PROVE  Spec => []ScanCounts /\ []ScanInside
<1>1. Init => ScanCounts /\ PlacesOK
  BY PlacesInit DEF ScanCounts, Init
<1>2. ScanCounts /\ PlacesOK /\ PoolOfFds /\ [Next]_vars => (ScanCounts /\ PlacesOK)'
  BY CountKept, PlacesKept
<1>3. Spec => []PoolOfFds
  BY WebPoolOfFds
<1>4. ScanCounts /\ PoolOfFds => ScanInside
  <2>1. SUFFICES ASSUME ScanCounts, PoolOfFds, Scanning, slot \notin Slots
                 PROVE  FALSE
    BY DEF ScanInside
  <2>2. slot = FD_SETSIZE /\ FD_SETSIZE \in Nat
    BY <2>1, WebServerAssumption DEF PoolOfFds, Types, Slots
  <2>3. \A i \in Slots : ~(i >= slot)
    BY <2>2 DEF Slots
  <2>4. {i \in Slots : i >= slot /\ clientfd[i] \in readySet} = {}
    BY <2>3
  <2>5. nready = 0
    BY <2>1, <2>4, FS_EmptySet DEF ScanCounts, Scanning
  <2>6. QED BY <2>1, <2>5 DEF Scanning
<1>5. QED BY <1>1, <1>2, <1>3, <1>4, PTL DEF Spec

-----------------------------------------------------------------------------
(* Nobody is killed                                                        *)

(* What is on its way to the client is the response it waits for.          *)
Own(c) == \A i \in 1 .. Len(stream[c]) : stream[c][i].for = c /\ stream[c][i].req = done[c] + 1

(* The request is in the socket, ...                                       *)
Asked(c) == inbox[c] = 1 /\ Pending(c) = {} /\ stream[c] = <<>>

(* ... it is a task, whose socket is that of the client, ...               *)
Served(c) ==
  /\ inbox[c] = 0
  /\ \E n \in 1 .. accepted :
        Pending(c) = {n} /\ info[n].req = done[c] + 1 /\ fdTable[info[n].sock] = c
  /\ Own(c)
  /\ \A i \in 1 .. Len(stream[c]) : stream[c][i].part \in {"header", "body"}

(* ... or the end of the response is on its way, in one piece if reads do  *)
(* not cut it.                                                             *)
Ends(s) ==
  /\ \A i \in 1 .. Len(s) - 1 : s[i].part # "end2"
  /\ \/ SplitReads
     \/ /\ Len(s) >= 2
        /\ s[Len(s) - 1].part = "end1" /\ s[Len(s)].part = "end2"
        /\ \A i \in 1 .. Len(s) - 2 : s[i].part # "end1"

Answered(c) == inbox[c] = 0 /\ Pending(c) = {} /\ Own(c) /\ Ends(stream[c])

(* A client that does not wait is owed nothing.                            *)
Quiet(c) == inbox[c] = 0 /\ Pending(c) = {} /\ stream[c] = <<>>

(* The conversation of a client and the server.                            *)
Conv(c) ==
  /\ cpc[c] # "killed"
  /\ IF cpc[c] = "wait" THEN Asked(c) \/ Served(c) \/ Answered(c) ELSE Quiet(c)
  /\ done[c] <= ReqNum[c]
  /\ cpc[c] \in {"start", "send", "wait"} => done[c] < ReqNum[c]

(* A descriptor that the scan has still to find ready is that of a client  *)
(* with a request, or of one that has closed its connection.               *)
Ahead == {i \in Slots : clientfd[i] \in readySet /\ (mpc = "scan" => i >= slot)}

HasReason(c) == inbox[c] > 0 \/ Gone(c)

ReadyOK == mpc # "select" => \A i \in Ahead : HasReason(fdTable[clientfd[i]])

(* The conversations, and no connection is closed on unread data.          *)
Talks == ReadyOK /\ reset = {} /\ \A c \in Clients : Conv(c)

(* The task n has written its end message.                                 *)
Over(n) == n \in finished \/ \E w \in Workers : running[w] = n /\ wpc[w] = "closeFile"

(* Pending in these terms.                                                 *)
LEMMA PendingIs ==
  ASSUME NEW c
  PROVE  Pending(c) = {n \in 1 .. accepted : info[n].for = c /\ ~Over(n)}
BY DEF Pending, Unfinished, Over

(* The same after a step.                                                  *)
LEMMA PendingWillBe ==
  ASSUME NEW c
  PROVE  Pending(c)' = {n \in 1 .. accepted' : info'[n].for = c /\ ~Over(n)'}
BY DEF Pending, Unfinished, Over

(* Tasks get over by the last write only.                                  *)
LEMMA OverStays ==
  ASSUME Types, TasksOK, [Next]_vars, \A w \in Workers : wpc[w] = "end" => wpc'[w] # "closeFile"
  PROVE  \A n \in 1 .. accepted : Over(n)' <=> Over(n)
<1> SUFFICES ASSUME NEW n \in 1 .. accepted PROVE Over(n)' <=> Over(n)
  OBVIOUS
<1>0. n # 0 /\ accepted \in Nat
  BY DEF Types, PoolTypeOK
<1>1. ASSUME UNCHANGED <<finished, running, wpc>>
      PROVE  Over(n)' <=> Over(n)
  BY <1>1 DEF Over
<1>2. ASSUME NEW w \in Workers, wpc[w] # "closeFile",
             NEW p \in {"log", "logging", "open", "header", "body", "end"}, wpc' = [wpc EXCEPT ![w] = p],
             finished' = finished, \A v \in Workers : v # w => running'[v] = running[v]
      PROVE  Over(n)' <=> Over(n)
  <2>1. wpc'[w] = p /\ \A v \in Workers : v # w => wpc'[v] = wpc[v]
    BY <1>2 DEF Types
  <2>2. QED BY <1>2, <2>1 DEF Over
<1>3. ASSUME NEW w \in Workers, TakeTask(w)
      PROVE  Over(n)' <=> Over(n)
  <2>1. Start(w) /\ wpc[w] = "idle" /\ wpc' = [wpc EXCEPT ![w] = "log"]
    BY <1>3 DEF TakeTask, WorkerGoto
  <2>2. finished' = finished /\ \A v \in Workers : v # w => running'[v] = running[v]
    BY <2>1 DEF Start, Types, PoolTypeOK
  <2>3. QED BY <1>2, <2>1, <2>2
<1>4. ASSUME NEW w \in Workers, OpenStep(w) \/ CloseLog(w)
      PROVE  Over(n)' <=> Over(n)
  BY <1>2, <1>4 DEF OpenStep, OpenLog, OpenFile, Opens, CloseLog, Closes, WorkerGoto, poolVars
<1>5. ASSUME NEW w \in Workers, Write(w) \/ WriteUnheard(w) \/ WriteToLog(w)
      PROVE  Over(n)' <=> Over(n)
  <2>1. Writing(w) /\ wpc' = [wpc EXCEPT ![w] = NextWrite(wpc[w])] /\ UNCHANGED <<finished, running>>
    BY <1>5 DEF Write, WriteUnheard, WriteToLog, WorkerGoto, poolVars
  <2>2. wpc[w] \in {"header", "body", "end"} /\ wpc'[w] = NextWrite(wpc[w])
    BY <2>1 DEF Writing, Types
  <2>3. wpc[w] # "end"
    BY <2>2 DEF NextWrite
  <2>4. NextWrite(wpc[w]) \in {"body", "end"}
    BY <2>2, <2>3 DEF NextWrite
  <2>5. QED BY <1>2, <2>1, <2>2, <2>4
<1>6. ASSUME NEW w \in Workers, OutOfFds(w) \/ WriteFails(w)
      PROVE  Over(n)' <=> Over(n)
  BY <1>1, <1>6 DEF OutOfFds, WriteFails, Exit, poolVars
<1>7. ASSUME NEW w \in Workers, CloseFile(w)
      PROVE  Over(n)' <=> Over(n)
  <2>1. Finish(w) /\ wpc[w] = "closeFile" /\ wpc' = [wpc EXCEPT ![w] = "idle"]
    BY <1>7 DEF CloseFile, Closes, WorkerGoto
  <2>2. wpc'[w] = "idle" /\ \A v \in Workers : v # w => wpc'[v] = wpc[v] /\ running'[v] = running[v]
    BY <2>1 DEF Types, Finish, PoolTypeOK
  <2>3. finished' = finished \cup {running[w]}
    BY <2>1 DEF Finish
  <2>4. QED BY <2>1, <2>2, <2>3 DEF Over
<1>8. ASSUME NEW c \in Clients, ClientStep(c) \/ Kill(c)
      PROVE  Over(n)' <=> Over(n)
  BY <1>1, <1>8 DEF ClientStep, Connect, SendRequest, Receive, Close, Kill, serverVars, taskVars, poolVars
<1>9. CASE MainStep
  <2>1. UNCHANGED <<finished, running, wpc>>
    BY <1>9 DEF MainStep, Select, NoNewClient, AcceptFails, AcceptClient, ScanEnd, ScanSkip, ScanBeyond,
                CloseClient, EnqueueRequest, mainFrame, poolVars, Accept
  <2>2. QED BY <1>1, <2>1
<1>10. CASE UNCHANGED vars
  BY <1>1, <1>10 DEF vars, taskVars, poolVars
<1>11. QED
  BY <1>3, <1>4, <1>5, <1>6, <1>7, <1>8, <1>9, <1>10 DEF Next, WorkerStep, OpenStep

(* The task of the thread that writes its end message is over.             *)
LEMMA OverNow ==
  ASSUME Types, NEW w \in Workers, wpc[w] = "end", wpc' = [wpc EXCEPT ![w] = "closeFile"],
         UNCHANGED poolVars
  PROVE  \A n \in 1 .. accepted : Over(n)' <=> Over(n) \/ n = running[w]
<1>1. wpc'[w] = "closeFile" /\ \A v \in Workers : v # w => wpc'[v] = wpc[v]
  BY DEF Types
<1>2. QED BY <1>1 DEF Over, poolVars

(* Main and its pool leave the tasks accepted before as they are.          *)
LEMMA InfoSteps ==
  ASSUME Types, TasksOK, SlotsMatch, [Next]_vars
  PROVE  \/ UNCHANGED <<info, accepted>>
         \/ \E c \in Clients : EnqueueRequest(c)
<1>1. ASSUME NEW c \in Clients, ClientStep(c) \/ Kill(c)
      PROVE  UNCHANGED <<info, accepted>>
  BY <1>1 DEF ClientStep, Connect, SendRequest, Receive, Close, Kill, serverVars, taskVars, poolVars
<1>2. ASSUME NEW w \in Workers, TakeTask(w) \/ WorkerStep(w)
      PROVE  UNCHANGED <<info, accepted>>
  BY <1>2, WorkerFrame DEF workerFrame
<1>3. CASE MainStep /\ ~\E c \in Clients : EnqueueRequest(c)
  BY <1>3 DEF MainStep, Select, NoNewClient, AcceptFails, AcceptClient, ScanEnd, ScanSkip, ScanBeyond,
              CloseClient, poolVars
<1>4. CASE UNCHANGED vars
  BY <1>4 DEF vars, taskVars, poolVars
<1>5. QED BY <1>1, <1>2, <1>3, <1>4 DEF Next

(* Most steps leave what is owed as it is.                                 *)
LEMMA PendingStays ==
  ASSUME Types, TasksOK, [Next]_vars, UNCHANGED <<info, accepted>>,
         \A w \in Workers : wpc[w] = "end" => wpc'[w] # "closeFile",
         NEW c
  PROVE  Pending(c)' = Pending(c)
BY OverStays, PendingIs, PendingWillBe

(* The last write of a response.                                           *)
LEMMA PendingWritten ==
  ASSUME Types, NEW w \in Workers, wpc[w] = "end", wpc' = [wpc EXCEPT ![w] = "closeFile"],
         UNCHANGED <<info, poolVars>>, NEW c
  PROVE  Pending(c)' = Pending(c) \ {running[w]}
<1>1. accepted' = accepted
  BY DEF poolVars
<1>2. QED BY <1>1, OverNow, PendingIs, PendingWillBe

(* A request becomes a task.                                               *)
LEMMA PendingEnqueued ==
  ASSUME Types, TasksOK, SlotsMatch, NEW c \in Clients, EnqueueRequest(c)
  PROVE  /\ accepted + 1 \in 1 .. accepted'
         /\ info'[accepted + 1] = [sock |-> clientfd[slot], for |-> c, req |-> done[c] + 1]
         /\ Pending(c)' = Pending(c) \cup {accepted + 1}
         /\ \A d \in Clients : d # c => Pending(d)' = Pending(d)
         /\ accepted' = accepted + 1 /\ accepted \in Nat /\ \A n \in 1 .. accepted : info'[n] = info[n]
<1>1. /\ accepted' = accepted + 1 /\ accepted \in Nat /\ Len(info) = accepted
      /\ UNCHANGED <<running, finished, wpc>>
  BY DEF EnqueueRequest, Accept, mainFrame, TasksOK, Types, PoolTypeOK
<1>2. /\ info'[accepted + 1] = [sock |-> clientfd[slot], for |-> c, req |-> done[c] + 1]
      /\ \A n \in 1 .. accepted : info'[n] = info[n]
  BY <1>1, EnqueueInfo
<1>3. \A n : Over(n)' <=> Over(n)
  BY <1>1 DEF Over
<1>4. ~Over(accepted + 1)
  <2>1. started \in 0 .. accepted /\ finished \subseteq 1 .. started /\ \A w \in Workers : running[w] \in 0 .. started
    BY DEF Types, PoolTypeOK
  <2>2. accepted + 1 \notin finished /\ \A w \in Workers : running[w] # accepted + 1
    BY <1>1, <2>1
  <2>3. QED BY <2>2 DEF Over
<1>5. 1 .. accepted' = 1 .. accepted \cup {accepted + 1} /\ accepted + 1 \notin 1 .. accepted
  BY <1>1
<1>6. info'[accepted + 1].for = c
  BY <1>2
<1>7. \A d \in Clients : Pending(d)' = {n \in 1 .. accepted : info[n].for = d /\ ~Over(n)}
                                         \cup {n \in {accepted + 1} : d = c}
  BY <1>2, <1>3, <1>4, <1>5, <1>6, PendingWillBe
<1>8. QED BY <1>1, <1>2, <1>5, <1>7, PendingIs

(* A socket stays its client's until the client's connection is closed.    *)
LEMMA SockStays ==
  ASSUME PoolOfFds, [Next]_vars, NEW f \in Fds, fdTable[f] \in Clients, ~CloseClient(fdTable[f])
  PROVE  fdTable'[f] = fdTable[f]
<1>0. /\ \A c \in Clients : c # "file" /\ c # "free"
      /\ Types /\ SlotsMatch /\ FilesOK /\ LoopOK
  BY WebServerAssumption DEF PoolOfFds
<1>1. CASE SameFds
  BY <1>1 DEF SameFds
<1>2. CASE AcceptClient
  BY <1>0, <1>2, AcceptOpens DEF Types
<1>3. ASSUME NEW c \in Clients, CloseClient(c)
      PROVE  fdTable'[f] = fdTable[f]
  <2>1. /\ clientfd[slot] \in Fds /\ fdTable[clientfd[slot]] = c
        /\ fdTable' = [fdTable EXCEPT ![clientfd[slot]] = "free"]
    BY <1>0, <1>3, CloseFrees
  <2>2. f # clientfd[slot]
    BY <1>3, <2>1
  <2>3. QED BY <1>0, <2>1, <2>2 DEF Types
<1>4. ASSUME NEW w \in Workers, OpenStep(w)
      PROVE  fdTable'[f] = fdTable[f]
  BY <1>0, <1>4, OpenOpens DEF Types
<1>5. ASSUME NEW w \in Workers, CloseStep(w)
      PROVE  fdTable'[f] = fdTable[f]
  <2>1. HasFile(w) /\ fdTable' = [fdTable EXCEPT ![file[w]] = "free"]
    BY <1>0, <1>5, CloseCloses
  <2>2. file[w] \in Fds /\ fdTable[file[w]] = "file"
    BY <1>0, <2>1 DEF FilesOK
  <2>3. QED BY <1>0, <2>1, <2>2 DEF Types
<1>6. QED BY <1>0, <1>1, <1>2, <1>3, <1>4, <1>5, FdSteps

(* A conversation that the step does not touch.                            *)
LEMMA ConvStays ==
  ASSUME PoolOfFds, NEW c \in Clients, Conv(c),
         cpc'[c] = cpc[c], done'[c] = done[c], inbox'[c] = inbox[c], stream'[c] = stream[c],
         Pending(c)' = Pending(c), accepted' \in Nat, accepted <= accepted',
         \A n \in 1 .. accepted : info'[n] = info[n],
         \A f \in Fds : fdTable[f] = c /\ Pending(c) # {} => fdTable'[f] = fdTable[f]
  PROVE  Conv(c)'
<1>0. accepted \in Nat /\ 1 .. accepted \subseteq 1 .. accepted'
  BY DEF PoolOfFds, Types, PoolTypeOK
<1>1. Asked(c) => Asked(c)'
  BY DEF Asked
<1>2. Own(c)' <=> Own(c)
  BY DEF Own
<1>3. Served(c) => Served(c)'
  <2>1. SUFFICES ASSUME Served(c) PROVE Served(c)'
    OBVIOUS
  <2>2. PICK n \in 1 .. accepted : Pending(c) = {n} /\ info[n].req = done[c] + 1 /\ fdTable[info[n].sock] = c
    BY <2>1 DEF Served
  <2>3. info[n].sock \in Fds
    BY TaskInfo DEF PoolOfFds
  <2>4. n \in 1 .. accepted' /\ fdTable'[info'[n].sock] = c /\ info'[n].req = done'[c] + 1
    BY <1>0, <2>2, <2>3
  <2>5. inbox'[c] = 0 /\ Own(c)'
    BY <1>2, <2>1 DEF Served
  <2>6. \A i \in 1 .. Len(stream'[c]) : stream'[c][i].part \in {"header", "body"}
    BY <2>1 DEF Served
  <2>7. Pending(c)' = {n}
    BY <2>2
  <2>8. QED BY <2>4, <2>5, <2>6, <2>7 DEF Served
<1>4. Answered(c) => Answered(c)'
  BY <1>2 DEF Answered
<1>5. Quiet(c) => Quiet(c)'
  BY DEF Quiet
<1>6. QED BY <1>1, <1>3, <1>4, <1>5 DEF Conv

(* The two parts of a sequence.                                            *)
LEMMA Parted ==
  ASSUME NEW S, NEW s \in Seq(S), NEW n \in 1 .. Len(s)
  PROVE  /\ Len(s) \in Nat
         /\ Len(SubSeq(s, 1, n)) = n /\ \A i \in 1 .. n : SubSeq(s, 1, n)[i] = s[i]
         /\ SubSeq(s, n + 1, Len(s)) \in Seq(S) /\ Len(SubSeq(s, n + 1, Len(s))) = Len(s) - n
         /\ \A i \in 1 .. Len(s) - n : SubSeq(s, n + 1, Len(s))[i] = s[n + i] /\ n + i \in 1 .. Len(s)
<1>1. Len(s) \in Nat /\ \A i \in 1 .. Len(s) : s[i] \in S
  BY LenProperties, ElementOfSeq
<1>2. Len(SubSeq(s, 1, n)) = n /\ \A i \in 1 .. n : SubSeq(s, 1, n)[i] = s[i]
  BY <1>1, SubSeqProperties
<1>3. SubSeq(s, n + 1, Len(s)) \in Seq(S) /\ Len(SubSeq(s, n + 1, Len(s))) = Len(s) - n
  BY <1>1, SubSeqProperties
<1>4. \A i \in 1 .. Len(s) - n : SubSeq(s, n + 1, Len(s))[i] = s[n + i] /\ n + i \in 1 .. Len(s)
  BY <1>1, SubSeqProperties
<1>5. QED BY <1>1, <1>2, <1>3, <1>4

(* A read of a response that has ended sees the end, and then nothing is   *)
(* left; or it leaves the end whole.                                       *)
LEMMA EndsRead ==
  ASSUME NEW s \in Seq(Piece), Ends(s), NEW n \in Readable(s)
  PROVE  /\ SeesEnd(SubSeq(s, 1, n)) => n = Len(s)
         /\ SeesEnd(SubSeq(s, 1, n)) \/ Ends(SubSeq(s, n + 1, Len(s)))
<1> DEFINE t == SubSeq(s, n + 1, Len(s))
           u == SubSeq(s, 1, n)
<1>1. n \in 1 .. Len(s) /\ (SplitReads \/ s[n].part # "end1")
  BY DEF Readable
<1>2. /\ Len(s) \in Nat
      /\ Len(u) = n /\ \A i \in 1 .. n : u[i] = s[i]
      /\ t \in Seq(Piece) /\ Len(t) = Len(s) - n
      /\ \A i \in 1 .. Len(t) : t[i] = s[n + i] /\ n + i \in 1 .. Len(s)
  <2>1. Len(s) \in Nat /\ Len(u) = n /\ t \in Seq(Piece) /\ Len(t) = Len(s) - n
    BY <1>1, Parted
  <2>2. \A i \in 1 .. n : u[i] = s[i]
    BY <1>1, Parted
  <2>3. \A i \in 1 .. Len(s) - n : t[i] = s[n + i] /\ n + i \in 1 .. Len(s)
    BY <1>1, Parted
  <2>4. QED BY <2>1, <2>2, <2>3
<1> HIDE DEF t, u
<1>3. SeesEnd(u) => n = Len(s)
  <2>1. SUFFICES ASSUME SeesEnd(u), n < Len(s) PROVE FALSE
    BY <1>1, <1>2
  <2>2. PICK i \in 1 .. n - 1 : u[i + 1].part = "end2"
    BY <1>2, <2>1 DEF SeesEnd, EndIn
  <2>3. i + 1 \in 1 .. n /\ i + 1 \in 1 .. Len(s) - 1
    BY <1>1, <1>2, <2>1, <2>2
  <2>4. s[i + 1].part = "end2"
    BY <1>2, <2>2, <2>3
  <2>5. QED BY <2>3, <2>4 DEF Ends
<1>4. ~SeesEnd(u) => Ends(t)
  <2>1. SUFFICES ASSUME ~SeesEnd(u) PROVE Ends(t)
    OBVIOUS
  <2>2. \A i \in 1 .. Len(t) - 1 : t[i].part # "end2"
    <3>1. \A i \in 1 .. Len(t) - 1 : i \in 1 .. Len(t) /\ n + i \in 1 .. Len(s) - 1
      BY <1>1, <1>2
    <3>2. QED BY <1>2, <3>1 DEF Ends
  <2>3. CASE SplitReads
    BY <2>2, <2>3 DEF Ends
  <2>4. CASE ~SplitReads
    <3>1. /\ Len(s) >= 2 /\ s[Len(s) - 1].part = "end1" /\ s[Len(s)].part = "end2"
          /\ \A i \in 1 .. Len(s) - 2 : s[i].part # "end1"
      BY <2>4 DEF Ends
    <3>2. n # Len(s) - 1
      BY <1>1, <2>4, <3>1
    <3>3. n # Len(s)
      <4>1. SUFFICES ASSUME n = Len(s) PROVE FALSE
        OBVIOUS
      <4>2. n - 1 \in 1 .. n /\ n - 1 + 1 = n /\ n \in 1 .. n /\ n - 1 \in 1 .. Len(u) - 1
        BY <1>1, <1>2, <3>1, <4>1
      <4>3. u[n - 1].part = "end1" /\ u[n].part = "end2"
        BY <1>2, <3>1, <4>1, <4>2
      <4>4. QED BY <2>1, <4>2, <4>3 DEF SeesEnd, EndIn
    <3>4. Len(t) >= 2 /\ Len(t) \in 1 .. Len(t) /\ Len(t) - 1 \in 1 .. Len(t) /\ n + Len(t) = Len(s)
          /\ n + (Len(t) - 1) = Len(s) - 1
          /\ \A i \in 1 .. Len(t) - 2 : i \in 1 .. Len(t) /\ n + i \in 1 .. Len(s) - 2
      BY <1>1, <1>2, <3>1, <3>2, <3>3
    <3>5. t[Len(t)].part = "end2" /\ t[Len(t) - 1].part = "end1"
      BY <1>2, <3>1, <3>4
    <3>6. \A i \in 1 .. Len(t) - 2 : t[i].part # "end1"
      BY <1>2, <3>1, <3>4
    <3>7. QED BY <2>2, <3>4, <3>5, <3>6 DEF Ends
  <2>5. QED BY <2>3, <2>4
<1>5. QED BY <1>3, <1>4 DEF t, u

(* A read of part of the response, without its end.                        *)
LEMMA ReadPart ==
  ASSUME PoolOfFds, NEW c \in Clients, Conv(c), Receive(c)
  PROVE  Conv(c)'
<1>0. Types
  BY DEF PoolOfFds
<1>1. PICK n \in Readable(stream[c]) :
         /\ cpc[c] = "wait"
         /\ stream' = [stream EXCEPT ![c] = SubSeq(@, n + 1, Len(@))]
         /\ IF SeesEnd(SubSeq(stream[c], 1, n))
            THEN /\ done' = [done EXCEPT ![c] = @ + 1]
                 /\ cpc' = [cpc EXCEPT ![c] = IF done[c] + 1 < ReqNum[c] THEN "send" ELSE "close"]
            ELSE UNCHANGED clientVars
         /\ UNCHANGED <<backlog, inbox, reset, serverVars>>
  BY DEF Receive
<1> DEFINE s == stream[c]
           t == SubSeq(s, n + 1, Len(s))
<1>2. s \in Seq(Piece) /\ stream'[c] = t /\ n \in 1 .. Len(s)
  BY <1>0, <1>1 DEF Types, Readable
<1>3. /\ Len(s) \in Nat /\ Len(SubSeq(s, 1, n)) = n /\ \A i \in 1 .. n : SubSeq(s, 1, n)[i] = s[i]
      /\ t \in Seq(Piece) /\ Len(t) = Len(s) - n
      /\ \A i \in 1 .. Len(t) : t[i] = s[n + i] /\ n + i \in 1 .. Len(s)
  <2>1. Len(s) \in Nat /\ Len(SubSeq(s, 1, n)) = n /\ t \in Seq(Piece) /\ Len(t) = Len(s) - n
    BY <1>2, Parted
  <2>2. \A i \in 1 .. n : SubSeq(s, 1, n)[i] = s[i]
    BY <1>2, Parted
  <2>3. \A i \in 1 .. Len(s) - n : t[i] = s[n + i] /\ n + i \in 1 .. Len(s)
    BY <1>2, Parted
  <2>4. QED BY <2>1, <2>2, <2>3
<1>4. /\ inbox'[c] = inbox[c] /\ Pending(c)' = Pending(c) /\ info' = info /\ accepted' = accepted
      /\ fdTable' = fdTable
  BY <1>1 DEF serverVars, taskVars, poolVars, Pending, Unfinished
<1>5. done[c] \in Nat /\ done[c] < ReqNum[c] /\ ReqNum[c] \in Nat /\ (Served(c) \/ Answered(c))
  <2>1. ~Asked(c)
    BY <1>2, <1>3, EmptySeq DEF Asked
  <2>2. QED BY <1>0, <1>1, <2>1, WebServerAssumption DEF Conv, Types
<1> HIDE DEF t
<1>6. CASE SeesEnd(SubSeq(s, 1, n))
  <2>1. ~Served(c)
    <3>1. PICK i \in 1 .. Len(SubSeq(s, 1, n)) - 1 : SubSeq(s, 1, n)[i].part = "end1"
      BY <1>6 DEF SeesEnd, EndIn
    <3>2. i \in 1 .. n /\ i \in 1 .. Len(s)
      BY <1>2, <1>3, <3>1
    <3>3. s[i].part = "end1"
      BY <1>3, <3>1, <3>2
    <3>4. QED BY <3>2, <3>3 DEF Served
  <2>2. n = Len(s) /\ inbox[c] = 0 /\ Pending(c) = {}
    BY <1>1, <1>2, <1>5, <1>6, <2>1, EndsRead DEF Answered
  <2>3. t = <<>>
    BY <1>3, <2>2, EmptySeq
  <2>4. /\ done'[c] = done[c] + 1
        /\ cpc'[c] = IF done[c] + 1 < ReqNum[c] THEN "send" ELSE "close"
    BY <1>0, <1>1, <1>6 DEF Types
  <2>5. Quiet(c)'
    BY <1>2, <1>4, <2>2, <2>3 DEF Quiet
  <2>6. QED BY <1>5, <2>4, <2>5 DEF Conv
<1>7. CASE ~SeesEnd(SubSeq(s, 1, n))
  <2>1. cpc'[c] = "wait" /\ done'[c] = done[c]
    BY <1>1, <1>7 DEF clientVars
  <2>2. Own(c) => Own(c)'
    <3>1. SUFFICES ASSUME Own(c), NEW i \in 1 .. Len(t)
                   PROVE  t[i].for = c /\ t[i].req = done[c] + 1
      BY <1>2, <2>1 DEF Own
    <3>2. t[i] = s[n + i] /\ n + i \in 1 .. Len(s)
      BY <1>3
    <3>3. QED BY <3>1, <3>2 DEF Own
  <2>3. CASE Served(c)
    <3>1. PICK m \in 1 .. accepted : Pending(c) = {m} /\ info[m].req = done[c] + 1 /\ fdTable[info[m].sock] = c
      BY <2>3 DEF Served
    <3>2. Pending(c)' = {m} /\ info'[m].req = done'[c] + 1 /\ fdTable'[info'[m].sock] = c /\ m \in 1 .. accepted'
      BY <1>4, <2>1, <3>1
    <3>3. \A i \in 1 .. Len(stream'[c]) : stream'[c][i].part \in {"header", "body"}
      BY <1>2, <1>3, <2>3 DEF Served
    <3>4. Own(c)' /\ inbox'[c] = 0
      BY <1>4, <2>2, <2>3 DEF Served
    <3>5. Served(c)'
      BY <3>2, <3>3, <3>4 DEF Served
    <3>6. QED BY <1>5, <2>1, <3>5 DEF Conv
  <2>4. CASE Answered(c)
    <3>1. Ends(t)
      BY <1>1, <1>2, <1>7, <2>4, EndsRead DEF Answered, t
    <3>2. Answered(c)'
      BY <1>2, <1>4, <2>2, <2>4, <3>1 DEF Answered
    <3>3. QED BY <1>5, <2>1, <3>2 DEF Conv
  <2>5. QED BY <1>5, <2>3, <2>4
<1>8. QED BY <1>6, <1>7

(* The steps of a client.                                                  *)
LEMMA ClientTalks ==
  ASSUME Mortal = {}, PoolOfFds, Talks, NEW c \in Clients, ClientStep(c) \/ Kill(c)
  PROVE  reset' = {} /\ \A d \in Clients : Conv(d)'
<1>0. Types /\ Conv(c) /\ reset = {} /\ ClientStep(c) /\ ReqNum[c] \in Nat \ {0} /\ done[c] \in Nat
  BY WebServerAssumption DEF PoolOfFds, Talks, Kill, Types
<1>1. UNCHANGED serverVars
  BY <1>0 DEF ClientStep, Connect, SendRequest, Receive, Close
<1>2. \A d \in Clients : Pending(d)' = Pending(d)
  BY <1>1 DEF serverVars, taskVars, poolVars, Pending, Unfinished
<1>3. ASSUME NEW d \in Clients, d # c
      PROVE  Conv(d)'
  <2>1. /\ cpc'[d] = cpc[d] /\ done'[d] = done[d] /\ inbox'[d] = inbox[d] /\ stream'[d] = stream[d]
    BY <1>0, <1>3 DEF ClientStep, Connect, SendRequest, Receive, Close, CloseSocket, ClientGoto, clientVars, Types
  <2>2. /\ accepted' = accepted /\ accepted \in Nat /\ info' = info /\ fdTable' = fdTable
    BY <1>0, <1>1 DEF serverVars, taskVars, poolVars, Types, PoolTypeOK
  <2>3. Conv(d)
    BY DEF Talks
  <2>4. QED BY <1>2, <2>1, <2>2, <2>3, ConvStays
<1>4. CASE Connect(c)
  <2>1. cpc[c] = "start" /\ cpc'[c] = "send" /\ UNCHANGED <<done, inbox, stream, reset>>
    BY <1>0, <1>4 DEF Connect, ClientGoto, Types
  <2>2. Conv(c)'
    BY <1>0, <1>2, <2>1 DEF Conv, Quiet
  <2>3. QED BY <1>0, <1>3, <2>1, <2>2
<1>5. CASE SendRequest(c)
  <2>1. cpc[c] = "send" /\ cpc'[c] = "wait" /\ inbox'[c] = inbox[c] + 1 /\ UNCHANGED <<done, stream, reset>>
    BY <1>0, <1>5 DEF SendRequest, ClientGoto, Types
  <2>2. Asked(c)'
    BY <1>0, <1>2, <2>1 DEF Conv, Quiet, Asked
  <2>3. Conv(c)'
    BY <1>0, <2>1, <2>2 DEF Conv
  <2>4. QED BY <1>0, <1>3, <2>1, <2>3
<1>6. CASE Receive(c)
  <2>1. reset' = reset
    BY <1>6 DEF Receive
  <2>2. QED BY <1>0, <1>3, <1>6, <2>1, ReadPart
<1>7. CASE Close(c)
  <2>1. cpc[c] = "close" /\ cpc'[c] = "closed"
    BY <1>0, <1>7 DEF Close, ClientGoto, Types
  <2>2. stream[c] = <<>>
    BY <1>0, <2>1 DEF Conv, Quiet
  <2>3. UNCHANGED <<done, inbox, stream, reset>>
    BY <1>7, <2>2 DEF Close, CloseSocket
  <2>4. Conv(c)'
    BY <1>0, <1>2, <2>1, <2>3 DEF Conv, Quiet
  <2>5. QED BY <1>0, <1>3, <2>3, <2>4
<1>8. QED BY <1>0, <1>4, <1>5, <1>6, <1>7 DEF ClientStep

(* A request is read and becomes a task.                                   *)
LEMMA EnqueueTalks ==
  ASSUME PoolOfFds, Talks, NEW c \in Clients, EnqueueRequest(c)
  PROVE  reset' = {} /\ \A d \in Clients : Conv(d)'
<1>0. /\ Types /\ TasksOK /\ SlotsMatch /\ Conv(c) /\ done[c] \in Nat
      /\ inbox[c] \in Nat /\ inbox[c] > 0
  BY DEF PoolOfFds, Talks, EnqueueRequest, Types
<1>1. UNCHANGED <<cpc, done, stream, reset, fdTable>> /\ inbox' = [inbox EXCEPT ![c] = 0]
  BY DEF EnqueueRequest, mainFrame, clientVars, InboxRead
<1>2. /\ accepted + 1 \in 1 .. accepted'
      /\ info'[accepted + 1] = [sock |-> clientfd[slot], for |-> c, req |-> done[c] + 1]
      /\ Pending(c)' = Pending(c) \cup {accepted + 1}
      /\ \A d \in Clients : d # c => Pending(d)' = Pending(d)
      /\ accepted' = accepted + 1 /\ accepted \in Nat /\ \A n \in 1 .. accepted : info'[n] = info[n]
  BY <1>0, PendingEnqueued
<1>3. fdTable[clientfd[slot]] = c
  BY <1>0, EnqueueInfo
<1>4. Asked(c) /\ cpc[c] = "wait"
  BY <1>0 DEF Conv, Quiet, Served, Answered
<1>5. Served(c)'
  <2>1. Len(stream'[c]) = 0
    BY <1>1, <1>4, EmptySeq DEF Asked
  <2>2. Own(c)' /\ \A i \in 1 .. Len(stream'[c]) : stream'[c][i].part \in {"header", "body"}
    BY <2>1 DEF Own
  <2>3. Pending(c)' = {accepted + 1} /\ info'[accepted + 1].req = done'[c] + 1
        /\ info'[accepted + 1].sock = clientfd[slot]
    BY <1>1, <1>2, <1>4 DEF Asked
  <2>4. inbox'[c] = 0
    BY <1>0, <1>1 DEF Types
  <2>5. QED BY <1>1, <1>2, <1>3, <2>2, <2>3, <2>4 DEF Served
<1>6. Conv(c)'
  BY <1>0, <1>1, <1>4, <1>5 DEF Conv
<1>7. ASSUME NEW d \in Clients, d # c
      PROVE  Conv(d)'
  <2>1. cpc'[d] = cpc[d] /\ done'[d] = done[d] /\ inbox'[d] = inbox[d] /\ stream'[d] = stream[d]
    BY <1>0, <1>1, <1>7 DEF Types
  <2>2. Conv(d) /\ Pending(d)' = Pending(d) /\ fdTable' = fdTable /\ accepted' \in Nat /\ accepted <= accepted'
    BY <1>1, <1>2, <1>7 DEF Talks
  <2>3. QED BY <1>2, <2>1, <2>2, ConvStays
<1>8. QED BY <1>1, <1>6, <1>7 DEF Talks

(* A thread writes to the client that asked, which waits for it.           *)
LEMMA WriterServes ==
  ASSUME PoolOfFds, Talks, NEW w \in Workers, Writing(w)
  PROVE  LET c == info[running[w]].for
         IN  /\ c \in Clients /\ Target(w) = c /\ cpc[c] = "wait" /\ Served(c) /\ c \notin reset
             /\ Pending(c) = {running[w]} /\ info[running[w]].req = done[c] + 1
<1> DEFINE n == running[w]
           c == info[n].for
<1>1. Types /\ TasksOK /\ wpc[w] # "idle" /\ wpc[w] # "closeFile"
  BY DEF PoolOfFds, Writing
<1>2. /\ n \in 1 .. accepted /\ n \notin finished /\ c \in Clients
      /\ \A v \in Workers : running[v] = n => v = w
  BY <1>1, RunningTask
<1>3. n \in Pending(c)
  BY <1>1, <1>2 DEF Pending, Unfinished
<1>4. Conv(c) /\ reset = {}
  BY <1>2 DEF Talks
<1>5. cpc[c] = "wait" /\ Served(c)
  BY <1>3, <1>4 DEF Conv, Asked, Answered, Quiet
<1>6. Pending(c) = {n} /\ info[n].req = done[c] + 1 /\ fdTable[info[n].sock] = c
  BY <1>3, <1>5 DEF Served
<1>7. QED BY <1>2, <1>4, <1>5, <1>6 DEF Target, Sock

(* So no write fails, none goes unheard and none goes into a log.          *)
LEMMA WritesArrive ==
  ASSUME PoolOfFds, Talks, NEW w \in Workers
  PROVE  ~WriteFails(w) /\ ~WriteUnheard(w) /\ ~WriteToLog(w)
<1>1. SUFFICES ASSUME Writing(w) PROVE Target(w) \in Clients /\ Target(w) \notin reset /\ ~Gone(Target(w))
  <2>1. Target(w) \in Clients => ~IsLog(Sock(w))
    BY WebServerAssumption DEF IsLog, Target, PoolOfFds, FilesOK, HasFile
  <2>2. QED BY <2>1 DEF WriteFails, WriteUnheard, WriteToLog
<1>2. QED BY <1>1, WriterServes DEF Gone

(* The stream after a write.                                               *)
LEMMA StreamWritten ==
  ASSUME PoolOfFds, NEW w \in Workers, Write(w)
  PROVE  LET c == Target(w)
             m == Len(stream[c])
             k == IF wpc[w] = "end" THEN 2 ELSE 1
         IN  /\ m \in Nat /\ Len(stream'[c]) = m + k
             /\ \A i \in 1 .. m : stream'[c][i] = stream[c][i]
             /\ \A i \in m + 1 .. m + k : /\ stream'[c][i].for = info[running[w]].for
                                          /\ stream'[c][i].req = info[running[w]].req
                                          /\ stream'[c][i].part = Writes(wpc[w])[i - m]
             /\ \A d \in Clients : d # c => stream'[d] = stream[d]
<1> DEFINE c == Target(w)
           m == Len(stream[c])
           k == IF wpc[w] = "end" THEN 2 ELSE 1
           P == Pieces(w, wpc[w])
<1>1. Types /\ TasksOK /\ Writing(w) /\ c \in Clients /\ stream' = [stream EXCEPT ![c] = @ \o P]
  BY DEF PoolOfFds, Write
<1>2. stream[c] \in Seq(Piece) /\ stream'[c] = stream[c] \o P /\ \A d \in Clients : d # c => stream'[d] = stream[d]
  BY <1>1 DEF Types
<1>3. P \in Seq(Piece) /\ Len(P) = k
      /\ \A i \in 1 .. Len(P) : P[i].for = info[running[w]].for /\ P[i].req = info[running[w]].req
                                /\ P[i].part = Writes(wpc[w])[i]
  BY <1>1, PiecesType
<1> HIDE DEF c, P
<1>4. m \in Nat /\ Len(stream'[c]) = m + Len(P)
      /\ \A i \in 1 .. m + Len(P) : stream'[c][i] = IF i <= m THEN stream[c][i] ELSE P[i - m]
  <2>1. m \in Nat
    BY <1>2, LenProperties
  <2> DEFINE s == stream[c]
  <2>a. s \in Seq(Piece) /\ P \in Seq(Piece)
    BY <1>2, <1>3
  <2> HIDE DEF s
  <2>2. Len(s \o P) = Len(s) + Len(P)
        /\ \A i \in 1 .. Len(s) + Len(P) : (s \o P)[i] = IF i <= Len(s) THEN s[i] ELSE P[i - Len(s)]
    BY <2>a, ConcatProperties
  <2> USE DEF s
  <2>3. QED BY <1>2, <2>1, <2>2
<1> HIDE DEF m
<1>5. k \in Nat
  OBVIOUS
<1> HIDE DEF k
<1>6. \A i \in m + 1 .. m + k : i - m \in 1 .. Len(P) /\ stream'[c][i] = P[i - m]
  BY <1>3, <1>4, <1>5
<1>7. \A i \in 1 .. m : stream'[c][i] = stream[c][i]
  BY <1>3, <1>4, <1>5
<1>8. \A i \in m + 1 .. m + k : /\ stream'[c][i].for = info[running[w]].for
                                /\ stream'[c][i].req = info[running[w]].req
                                /\ stream'[c][i].part = Writes(wpc[w])[i - m]
  BY <1>3, <1>6
<1>9. QED BY <1>2, <1>3, <1>4, <1>7, <1>8 DEF c, m, k

(* A thread writes to its client.                                          *)
LEMMA WriteTalks ==
  ASSUME PoolOfFds, Talks, NEW w \in Workers, Write(w), [Next]_vars
  PROVE  reset' = {} /\ \A d \in Clients : Conv(d)'
<1>a. PICK n, c, m, k : /\ n = running[w] /\ c = info[n].for /\ m = Len(stream[c])
                         /\ k = IF wpc[w] = "end" THEN 2 ELSE 1
  OBVIOUS
<1>0. Types /\ TasksOK /\ Writing(w) /\ reset = {}
  BY DEF PoolOfFds, Talks, Write
<1>1. /\ c \in Clients /\ Target(w) = c /\ cpc[c] = "wait" /\ Served(c)
      /\ Pending(c) = {n} /\ info[n].req = done[c] + 1
  BY <1>0, <1>a, WriterServes
<1>2. /\ UNCHANGED <<cpc, done, inbox, reset, fdTable, info, poolVars>>
      /\ wpc' = [wpc EXCEPT ![w] = NextWrite(wpc[w])]
  BY DEF Write, WorkerGoto, workerFrame, clientVars
<1>3. accepted' = accepted /\ accepted \in Nat
  BY <1>0, <1>2 DEF poolVars, Types, PoolTypeOK
<1>4. /\ m \in Nat /\ Len(stream'[c]) = m + k
      /\ \A i \in 1 .. m : stream'[c][i] = stream[c][i]
      /\ \A i \in m + 1 .. m + k : /\ stream'[c][i].for = c /\ stream'[c][i].req = done[c] + 1
                                   /\ stream'[c][i].part = Writes(wpc[w])[i - m]
      /\ \A d \in Clients : d # c => stream'[d] = stream[d]
  <2>1. /\ m \in Nat /\ Len(stream'[c]) = m + k
        /\ \A i \in 1 .. m : stream'[c][i] = stream[c][i]
        /\ \A d \in Clients : d # c => stream'[d] = stream[d]
    BY <1>a, <1>1, StreamWritten
  <2>2. \A i \in m + 1 .. m + k : /\ stream'[c][i].for = c /\ stream'[c][i].req = done[c] + 1
                                   /\ stream'[c][i].part = Writes(wpc[w])[i - m]
    <3>1. \A i \in m + 1 .. m + k : /\ stream'[c][i].for = info[running[w]].for
                                     /\ stream'[c][i].req = info[running[w]].req
                                     /\ stream'[c][i].part = Writes(wpc[w])[i - m]
      <4> DEFINE e == IF wpc[w] = "end" THEN 2 ELSE 1
                 l == Len(stream[Target(w)])
      <4>1. \A i \in l + 1 .. l + e : /\ stream'[Target(w)][i].for = info[running[w]].for
                                       /\ stream'[Target(w)][i].req = info[running[w]].req
                                       /\ stream'[Target(w)][i].part = Writes(wpc[w])[i - l]
        BY StreamWritten, ZenonT(60)
      <4>2. l = m /\ e = k /\ Target(w) = c
        BY <1>a, <1>1
      <4> HIDE DEF l, e
      <4>3. QED BY <4>1, <4>2
    <3>2. info[running[w]].for = c /\ info[running[w]].req = done[c] + 1
      BY <1>a, <1>1
    <3>3. QED BY <3>1, <3>2
  <2>3. QED BY <2>1, <2>2
<1>5. wpc[w] = "end" => \A d \in Clients : Pending(d)' = Pending(d) \ {n}
  <2>1. wpc[w] = "end" => wpc' = [wpc EXCEPT ![w] = "closeFile"]
    BY <1>2 DEF NextWrite
  <2>2. QED BY <1>0, <1>a, <1>2, <2>1, PendingWritten
<1>6. wpc[w] # "end" => \A d \in Clients : Pending(d)' = Pending(d)
  <2>1. wpc[w] # "end" => NextWrite(wpc[w]) # "closeFile" /\ wpc[w] # "closeFile"
    BY <1>0 DEF NextWrite, Writing
  <2>2. wpc[w] # "end" => \A v \in Workers : wpc[v] = "end" => wpc'[v] # "closeFile"
    BY <1>0, <1>2, <2>1 DEF Types
  <2>3. QED BY <1>0, <1>2, <1>3, <2>2, PendingStays
<1>7. ASSUME NEW d \in Clients, d # c
      PROVE  Conv(d)'
  <2>1. n \notin Pending(d)
    BY <1>a, <1>7 DEF Pending
  <2>2. Pending(d)' = Pending(d)
    BY <1>5, <1>6, <2>1
  <2>3. stream'[d] = stream[d] /\ Conv(d)
    BY <1>4, <1>7 DEF Talks
  <2>4. QED BY <1>2, <1>3, <2>2, <2>3, ConvStays
<1>8. Own(c)'
  <2>1. \A i \in 1 .. m : stream'[c][i].for = c /\ stream'[c][i].req = done[c] + 1
    <3>1. \A i \in 1 .. m : stream[c][i].for = c /\ stream[c][i].req = done[c] + 1
      BY <1>a, <1>1 DEF Served, Own
    <3>2. \A i \in 1 .. m : stream'[c][i] = stream[c][i]
      BY <1>4
    <3>3. QED BY <3>1, <3>2
  <2>2. \A i \in 1 .. m + k : i \in 1 .. m \/ i \in m + 1 .. m + k
    BY <1>4
  <2>3. QED BY <1>2, <1>4, <2>1, <2>2 DEF Own
<1>9. \A i \in 1 .. m : stream'[c][i].part \in {"header", "body"}
  BY <1>a, <1>1, <1>4 DEF Served
<1>10. CASE wpc[w] # "end"
  <2>1. k = 1 /\ Writes(wpc[w])[1] \in {"header", "body"}
    BY <1>0, <1>a, <1>10 DEF Writes, Writing
  <2>2. m + 1 \in m + 1 .. m + k /\ m + 1 - m = 1
    BY <1>4, <2>1
  <2>3. stream'[c][m + 1].part \in {"header", "body"}
    BY <1>4, <2>1, <2>2
  <2>4. \A i \in 1 .. Len(stream'[c]) : i \in 1 .. m \/ i = m + 1
    BY <1>4, <2>1
  <2>5. \A i \in 1 .. Len(stream'[c]) : stream'[c][i].part \in {"header", "body"}
    BY <1>9, <2>3, <2>4
  <2>6. PICK j \in 1 .. accepted : Pending(c) = {j} /\ info[j].req = done[c] + 1 /\ fdTable[info[j].sock] = c
    BY <1>1 DEF Served
  <2>7. j \in 1 .. accepted' /\ Pending(c)' = {j} /\ info'[j].req = done'[c] + 1 /\ fdTable'[info'[j].sock] = c
    BY <1>1, <1>2, <1>3, <1>6, <1>10, <2>6
  <2>8. inbox'[c] = 0
    BY <1>1, <1>2 DEF Served
  <2>9. Served(c)'
    BY <1>8, <2>5, <2>7, <2>8 DEF Served
  <2>10. Conv(c)'
    BY <1>1, <1>2, <2>9 DEF Conv, Talks
  <2>11. QED BY <1>0, <1>2, <1>7, <2>10
<1>11. CASE wpc[w] = "end"
  <2>1. k = 2 /\ Writes(wpc[w])[1] = "end1" /\ Writes(wpc[w])[2] = "end2"
    BY <1>a, <1>11 DEF Writes
  <2>2. /\ m + 1 \in m + 1 .. m + k /\ m + 2 \in m + 1 .. m + k /\ m + 1 - m = 1 /\ m + 2 - m = 2
        /\ Len(stream'[c]) = m + 2 /\ m + 2 - 1 = m + 1 /\ m + 2 - 2 = m /\ m + 2 >= 2
    BY <1>4, <2>1
  <2>3. stream'[c][m + 1].part = "end1" /\ stream'[c][m + 2].part = "end2"
    BY <1>4, <2>1, <2>2
  <2>4. \A i \in 1 .. m + 1 : i \in 1 .. m \/ i = m + 1
    BY <1>4
  <2>5. \A i \in 1 .. m + 1 : stream'[c][i].part # "end2"
    BY <1>9, <2>3, <2>4
  <2>6. \A i \in 1 .. m : stream'[c][i].part # "end1"
    BY <1>9
  <2>7. Ends(stream'[c])
    <3> DEFINE s == stream'[c]
    <3>1. /\ Len(s) = m + 2 /\ Len(s) - 1 = m + 1 /\ Len(s) - 2 = m /\ Len(s) >= 2
      BY <1>4, <2>2
    <3>2. \A i \in 1 .. Len(s) - 1 : s[i].part # "end2"
      BY <2>5, <3>1
    <3>3. \A i \in 1 .. Len(s) - 2 : s[i].part # "end1"
      BY <2>6, <3>1
    <3>4. s[Len(s) - 1].part = "end1" /\ s[Len(s)].part = "end2"
      BY <2>3, <3>1
    <3> HIDE DEF s
    <3>5. Ends(s)
      BY <3>1, <3>2, <3>3, <3>4 DEF Ends
    <3>6. QED BY <3>5 DEF s
  <2>8. inbox'[c] = 0 /\ Pending(c)' = {}
    BY <1>1, <1>2, <1>5, <1>11 DEF Served
  <2>9. Answered(c)'
    BY <1>8, <2>7, <2>8 DEF Answered
  <2>10. Conv(c)'
    BY <1>1, <1>2, <2>9 DEF Conv, Talks
  <2>11. QED BY <1>0, <1>2, <1>7, <2>10
<1>12. QED BY <1>10, <1>11

(* A request is not taken away, and a connection is not opened again.      *)
LEMMA ReasonStays ==
  ASSUME Types, [Next]_vars, NEW c \in Clients, ~EnqueueRequest(c), HasReason(c)
  PROVE  HasReason(c)'
<1>0. inbox[c] \in Nat
  BY DEF Types
<1>1. cpc'[c] = cpc[c] /\ inbox'[c] = inbox[c] => HasReason(c)'
  BY DEF HasReason, Gone
<1>2. ASSUME NEW d \in Clients, ClientStep(d) \/ Kill(d)
      PROVE  HasReason(c)'
  <2>1. CASE d # c
    BY <1>1, <1>2, <2>1 DEF ClientStep, Connect, SendRequest, Receive, Close, Kill, CloseSocket, ClientGoto,
                            clientVars, Types
  <2>2. CASE d = c
    <3>1. ~Gone(c)
      BY <1>2, <2>2 DEF ClientStep, Connect, SendRequest, Receive, Close, Kill, ClientGoto, Gone
    <3>2. inbox[c] > 0 /\ inbox'[c] >= inbox[c]
      BY <1>0, <1>2, <2>2, <3>1 DEF HasReason, ClientStep, Connect, SendRequest, Receive, Close, Kill,
                                    CloseSocket, Types
    <3>3. inbox'[c] > 0
      <4>1. inbox'[c] \in Nat
        BY <1>2, ClientTypes DEF Types
      <4>2. QED BY <1>0, <3>2, <4>1
    <3>4. QED BY <3>3 DEF HasReason
  <2>3. QED BY <2>1, <2>2
<1>3. ASSUME NEW w \in Workers, TakeTask(w) \/ WorkerStep(w)
      PROVE  HasReason(c)'
  BY <1>1, <1>3, WorkerFrame DEF workerFrame, clientVars
<1>4. CASE Select \/ NoNewClient \/ AcceptFails \/ AcceptClient \/ ScanEnd \/ ScanSkip \/ ScanBeyond
  BY <1>1, <1>4 DEF Select, NoNewClient, AcceptFails, AcceptClient, ScanEnd, ScanSkip, ScanBeyond, mainFrame,
                    netVars, clientVars
<1>5. ASSUME NEW d \in Clients, CloseClient(d)
      PROVE  HasReason(c)'
  BY <1>1, <1>5 DEF CloseClient, mainFrame, netVars, clientVars
<1>6. ASSUME NEW d \in Clients, EnqueueRequest(d)
      PROVE  HasReason(c)'
  BY <1>1, <1>6 DEF EnqueueRequest, InboxRead, mainFrame, clientVars, Types
<1>7. CASE UNCHANGED vars
  BY <1>1, <1>7 DEF vars, netVars, clientVars
<1>8. QED BY <1>2, <1>3, <1>4, <1>5, <1>6, <1>7 DEF Next, MainStep

(* Ready slots that the scan has passed are not looked at again; the       *)
(* others keep their reason.                                               *)
LEMMA ReadyStays ==
  ASSUME PoolOfFds, ReadyOK, [Next]_vars, readySet' = readySet, mpc # "select",
         \A i \in Ahead' : /\ i \in Ahead /\ clientfd'[i] = clientfd[i]
                           /\ ~CloseClient(fdTable[clientfd[i]]) /\ ~EnqueueRequest(fdTable[clientfd[i]])
  PROVE  ReadyOK'
<1>1. SUFFICES ASSUME NEW i \in Ahead', NEW c, c = fdTable'[clientfd'[i]]
               PROVE  HasReason(c)'
  BY DEF ReadyOK, HasReason, Gone
<1>2. i \in Ahead /\ i \in Slots /\ clientfd[i] \in readySet /\ clientfd'[i] = clientfd[i]
  BY <1>1 DEF Ahead
<1>3. clientfd[i] \in Fds /\ fdTable[clientfd[i]] \in Clients
  BY <1>2, ReadySlot DEF PoolOfFds
<1>4. fdTable'[clientfd[i]] = fdTable[clientfd[i]]
  BY <1>1, <1>3, SockStays
<1>5. c = fdTable[clientfd[i]]
  BY <1>1, <1>2, <1>4
<1>6. HasReason(c) /\ ~EnqueueRequest(c) /\ c \in Clients
  BY <1>1, <1>2, <1>3, <1>5 DEF ReadyOK
<1>7. QED BY <1>6, ReasonStays DEF PoolOfFds

(* The client of a slot that is looked at is not in another one.           *)
LEMMA OtherSlot ==
  ASSUME PoolOfFds, PlacesOK, NEW i \in UsedSlots, NEW j \in UsedSlots, i # j
  PROVE  fdTable[clientfd[i]] # fdTable[clientfd[j]]
<1>1. clientfd[i] # clientfd[j] /\ clientfd[i] \in Fds /\ clientfd[j] \in Fds
      /\ fdTable[clientfd[i]] \in Clients
  BY FdsDistinct DEF PoolOfFds, Types, SlotsMatch, UsedSlots
<1>2. QED BY <1>1 DEF PlacesOK

(* What select has seen stays true until the scan comes to it.             *)
LEMMA ReadyKept ==
  ASSUME PoolOfFds, PlacesOK, ReadyOK, [Next]_vars
  PROVE  ReadyOK'
<1>0. Types /\ SlotsMatch /\ LoopOK /\ slot \in Nat
  BY WebServerAssumption DEF PoolOfFds, Types
<1>1. \A i \in Ahead : clientfd[i] \in Fds /\ fdTable[clientfd[i]] \in Clients /\ i \in UsedSlots
  BY <1>0, ReadySlot DEF Ahead
<1>2. ASSUME mpc' = mpc, readySet' = readySet, slot' = slot, clientfd' = clientfd
      PROVE  ReadyOK'
  <2>1. \A c \in Clients : ~CloseClient(c) /\ ~EnqueueRequest(c)
    BY <1>0, <1>2 DEF CloseClient, EnqueueRequest, ScanReady
  <2>2. Ahead' = Ahead
    BY <1>2 DEF Ahead
  <2>3. CASE mpc = "select"
    BY <1>2, <2>3 DEF ReadyOK
  <2>4. CASE mpc # "select"
    BY <1>0, <1>1, <1>2, <2>1, <2>2, <2>4, ReadyStays
  <2>5. QED BY <2>3, <2>4
<1>3. ASSUME NEW c \in Clients, ClientStep(c) \/ Kill(c)
      PROVE  ReadyOK'
  BY <1>2, <1>3 DEF ClientStep, Connect, SendRequest, Receive, Close, Kill, serverVars, loopVars, slotVars
<1>4. ASSUME NEW w \in Workers, TakeTask(w) \/ WorkerStep(w)
      PROVE  ReadyOK'
  BY <1>2, <1>4, WorkerFrame DEF workerFrame, loopVars, slotVars
<1>5. CASE Select
  <2>1. SUFFICES ASSUME NEW i \in Ahead', NEW c, c = fdTable'[clientfd'[i]]
                 PROVE  HasReason(c)'
    BY DEF ReadyOK, HasReason, Gone
  <2>2. UNCHANGED <<clientfd, fdTable, inbox, cpc>> /\ i \in Slots /\ clientfd[i] \in ReadyFds
    BY <1>5, <2>1 DEF Select, mainFrame, clientVars, netVars, slotVars, Ahead
  <2>3. clientfd[i] # ServerSock
    BY <1>0, <2>2, FdsDistinct DEF Types
  <2>4. HasReason(c)
    BY <2>1, <2>2, <2>3 DEF ReadyFds, HasReason
  <2>5. QED BY <2>2, <2>4 DEF HasReason, Gone
<1>6. CASE NoNewClient \/ AcceptFails \/ AcceptClient
  <2>1. mpc = "accept" /\ readySet' = readySet
    BY <1>6 DEF NoNewClient, AcceptFails, AcceptClient
  <2>2. \A i \in Ahead' : i \in Ahead /\ clientfd'[i] = clientfd[i]
    BY <1>6, <2>1, ReadySame DEF Ahead
  <2>3. \A c \in Clients : ~CloseClient(c) /\ ~EnqueueRequest(c)
    BY <2>1 DEF CloseClient, EnqueueRequest, ScanReady, Scanning
  <2>4. QED BY <1>0, <1>1, <2>1, <2>2, <2>3, ReadyStays
<1>7. CASE ScanEnd
  BY <1>7 DEF ScanEnd, ReadyOK
<1>8. CASE ScanBeyond
  BY <1>2, <1>8 DEF ScanBeyond, loopVars, slotVars
<1>9. CASE ScanSkip
  <2>1. mpc = "scan" /\ mpc' = mpc /\ readySet' = readySet /\ slot' = slot + 1 /\ clientfd' = clientfd
    BY <1>9 DEF ScanSkip, Scanning, slotVars
  <2>2. \A i \in Ahead' : i \in Ahead /\ clientfd'[i] = clientfd[i]
    <3>1. \A i \in Slots : i \in Nat
      BY FdsDistinct
    <3>2. QED BY <1>0, <2>1, <3>1 DEF Ahead
  <2>3. \A c \in Clients : ~CloseClient(c) /\ ~EnqueueRequest(c)
    BY <1>9 DEF CloseClient, EnqueueRequest, ScanReady, ScanSkip
  <2>4. QED BY <1>0, <1>1, <2>1, <2>2, <2>3, ReadyStays
<1>10. ASSUME NEW c \in Clients, CloseClient(c) \/ EnqueueRequest(c)
       PROVE  ReadyOK'
  <2>1. /\ mpc = "scan" /\ mpc' = mpc /\ readySet' = readySet /\ slot' = slot + 1 /\ slot \in Ahead
        /\ c = fdTable[clientfd[slot]]
        /\ clientfd' = clientfd \/ clientfd' = [clientfd EXCEPT ![slot] = NoFd]
    BY <1>0, <1>10 DEF CloseClient, EnqueueRequest, ScanReady, Scanning, slotVars, Ahead
  <2>2. \A i \in Ahead' : i \in Ahead /\ i # slot
    <3>1. \A i \in Slots : i \in Nat
      BY FdsDistinct
    <3>2. \A i \in Ahead' : i \in Slots /\ i >= slot + 1 /\ clientfd'[i] \in readySet
      BY <2>1 DEF Ahead
    <3>3. \A i \in Ahead' : i # slot /\ i >= slot
      BY <1>0, <3>1, <3>2
    <3>4. \A i \in Ahead' : clientfd'[i] = clientfd[i]
      BY <1>0, <2>1, <3>2, <3>3 DEF Types
    <3>5. QED BY <3>2, <3>3, <3>4 DEF Ahead
  <2>3. \A i \in Ahead' : clientfd'[i] = clientfd[i]
    BY <1>0, <2>1, <2>2 DEF Types, Ahead
  <2>4. \A i \in Ahead' : fdTable[clientfd[i]] # c
    BY <1>1, <2>1, <2>2, OtherSlot
  <2>5. \A d \in Clients : CloseClient(d) \/ EnqueueRequest(d) => d = c
    BY <2>1 DEF CloseClient, EnqueueRequest, ScanReady
  <2>6. QED BY <1>0, <1>1, <2>1, <2>2, <2>3, <2>4, <2>5, ReadyStays
<1>11. CASE UNCHANGED vars
  BY <1>2, <1>11 DEF vars, loopVars, slotVars
<1>12. QED
  BY <1>3, <1>4, <1>5, <1>6, <1>7, <1>8, <1>9, <1>10, <1>11 DEF Next, MainStep

(* The steps that touch no conversation.  A connection that is closed is   *)
(* one whose client has gone.                                              *)
LEMMA CalmTalks ==
  ASSUME PoolOfFds, Talks, [Next]_vars, UNCHANGED <<cpc, done, inbox, stream, reset, info, accepted>>,
         \A w \in Workers : wpc[w] = "end" => wpc'[w] # "closeFile"
  PROVE  reset' = {} /\ \A c \in Clients : Conv(c)'
<1>0. Types /\ TasksOK /\ SlotsMatch /\ reset' = {} /\ accepted \in Nat
  BY DEF PoolOfFds, Talks, Types, PoolTypeOK
<1>1. SUFFICES ASSUME NEW c \in Clients PROVE Conv(c)'
  BY <1>0
<1>2. Pending(c)' = Pending(c) /\ Conv(c)
  BY <1>0, PendingStays DEF Talks
<1>3. ASSUME NEW f \in Fds, fdTable[f] = c, Pending(c) # {}
      PROVE  fdTable'[f] = fdTable[f]
  <2>1. SUFFICES ~CloseClient(c)
    BY <1>3, SockStays
  <2>2. SUFFICES ASSUME CloseClient(c) PROVE FALSE
    OBVIOUS
  <2>3. slot \in Ahead /\ mpc # "select" /\ fdTable[clientfd[slot]] = c /\ inbox[c] = 0
    BY <1>0, <2>2, CloseFrees DEF CloseClient, ScanReady, Scanning, Ahead, Types
  <2>4. Gone(c)
    BY <2>3 DEF Talks, ReadyOK, HasReason
  <2>5. QED BY <1>2, <1>3, <2>4 DEF Conv, Quiet, Gone
<1>4. QED BY <1>0, <1>2, <1>3, ConvStays

(* The conversations go on as they should.                                 *)
LEMMA TalksKept ==
  ASSUME Mortal = {}, PoolOfFds, PlacesOK, Talks, [Next]_vars
  PROVE  Talks'
<1>1. ReadyOK'
  BY ReadyKept DEF Talks
<1>2. SUFFICES reset' = {} /\ \A c \in Clients : Conv(c)'
  BY <1>1 DEF Talks
<1>3. Types /\ TasksOK
  BY DEF PoolOfFds
<1>4. ASSUME NEW c \in Clients, ClientStep(c) \/ Kill(c)
      PROVE  reset' = {} /\ \A d \in Clients : Conv(d)'
  BY <1>4, ClientTalks
<1>5. ASSUME NEW c \in Clients, EnqueueRequest(c)
      PROVE  reset' = {} /\ \A d \in Clients : Conv(d)'
  BY <1>5, EnqueueTalks
<1>6. CASE Select \/ NoNewClient \/ AcceptFails \/ AcceptClient \/ ScanEnd \/ ScanSkip \/ ScanBeyond
           \/ \E c \in Clients : CloseClient(c)
  <2>1. UNCHANGED <<cpc, done, inbox, stream, reset, info, accepted, wpc>>
    BY <1>6 DEF Select, NoNewClient, AcceptFails, AcceptClient, ScanEnd, ScanSkip, ScanBeyond, CloseClient,
                mainFrame, netVars, clientVars, poolVars
  <2>2. QED BY <2>1, CalmTalks
<1>7. ASSUME NEW w \in Workers, TakeTask(w) \/ OpenStep(w) \/ CloseStep(w)
      PROVE  reset' = {} /\ \A d \in Clients : Conv(d)'
  <2>1. UNCHANGED <<cpc, done, inbox, stream, reset, info, accepted>>
    <3>1. UNCHANGED workerFrame /\ accepted' = accepted
      BY <1>7, WorkerFrame DEF OpenStep, CloseStep, WorkerStep
    <3>2. UNCHANGED <<stream, reset>>
      BY <1>7 DEF TakeTask, OpenStep, OpenLog, OpenFile, Opens, CloseStep, CloseLog, CloseFile, Closes
    <3>3. QED BY <3>1, <3>2 DEF workerFrame, clientVars
  <2>2. \E p \in {"log", "logging", "open", "header", "idle"} : wpc' = [wpc EXCEPT ![w] = p]
    BY <1>7 DEF TakeTask, OpenStep, OpenLog, OpenFile, Opens, CloseStep, CloseLog, CloseFile, Closes, WorkerGoto
  <2>3. \A v \in Workers : wpc[v] = "end" => wpc'[v] # "closeFile"
    BY <1>3, <2>2 DEF Types
  <2>4. QED BY <2>1, <2>3, CalmTalks
<1>8. ASSUME NEW w \in Workers, OutOfFds(w)
      PROVE  reset' = {} /\ \A d \in Clients : Conv(d)'
  <2>1. UNCHANGED <<cpc, done, inbox, stream, reset, info, accepted, wpc>>
    BY <1>8 DEF OutOfFds, Exit, workerFrame, clientVars, poolVars
  <2>2. QED BY <2>1, CalmTalks
<1>9. ASSUME NEW w \in Workers, Write(w) \/ WriteUnheard(w) \/ WriteToLog(w) \/ WriteFails(w)
      PROVE  reset' = {} /\ \A d \in Clients : Conv(d)'
  BY <1>9, WriteTalks, WritesArrive
<1>10. CASE UNCHANGED vars
  <2>1. UNCHANGED <<cpc, done, inbox, stream, reset, info, accepted, wpc>>
    BY <1>10 DEF vars, clientVars, netVars, taskVars, poolVars
  <2>2. QED BY <2>1, CalmTalks
<1>11. QED
  BY <1>4, <1>5, <1>6, <1>7, <1>8, <1>9, <1>10 DEF Next, MainStep, WorkerStep, OpenStep, CloseStep

(* The beginning.                                                          *)
LEMMA TalksInit == Init => Talks
<1> SUFFICES ASSUME Init PROVE Talks
  OBVIOUS
<1>1. \A c \in Clients : Pending(c) = {}
  BY DEF Pending, Unfinished, Init, PoolInit
<1>2. \A c \in Clients : ReqNum[c] \in Nat \ {0}
  BY WebServerAssumption
<1>3. QED BY <1>1, <1>2 DEF Talks, ReadyOK, Conv, Quiet, Init

(* What the conversations say: of the responses ...                        *)
LEMMA TalksOwn ==
  ASSUME PoolOfFds, Talks
  PROVE  OwnResponse
<1>1. SUFFICES ASSUME NEW c \in Clients, NEW i \in 1 .. Len(stream[c])
               PROVE  stream[c][i].for = c /\ cpc[c] = "wait" /\ stream[c][i].req = done[c] + 1
  BY DEF OwnResponse
<1>2. Conv(c)
  BY DEF Talks
<1>3. stream[c] # <<>>
  BY <1>1, EmptySeq
<1>4. cpc[c] = "wait" /\ Own(c)
  BY <1>2, <1>3 DEF Conv, Quiet, Asked, Served, Answered
<1>5. QED BY <1>4 DEF Own

(* ... and of the sockets of tasks.                                        *)
LEMMA TalksSockets ==
  ASSUME PoolOfFds, Talks
  PROVE  SocketKept
<1>1. SUFFICES ASSUME NEW n \in Unfinished, ~\E w \in Workers : running[w] = n /\ wpc[w] = "closeFile"
               PROVE  fdTable[info[n].sock] = info[n].for
  BY DEF SocketKept
<1>2. n \in Pending(info[n].for) /\ info[n].for \in Clients
  BY <1>1, TaskInfo DEF Pending, PoolOfFds, Unfinished
<1>3. Conv(info[n].for)
  BY <1>2 DEF Talks
<1>4. Served(info[n].for)
  BY <1>2, <1>3 DEF Conv, Quiet, Asked, Answered
<1>5. QED BY <1>2, <1>4 DEF Served

(* The descriptors, the places and the conversations.                      *)
ServerOK == PoolOfFds /\ PlacesOK /\ Talks

(* They hold together at every moment.                                     *)
LEMMA ServerAlwaysOK ==
  ASSUME Mortal = {}
  PROVE  Spec => []ServerOK
<1>1. Init => ServerOK
  BY PoolOfFdsInit, PlacesInit, TalksInit DEF ServerOK
<1>2. ServerOK /\ [Next]_vars => ServerOK'
  BY PoolOfFdsKept, PlacesKept, TalksKept DEF ServerOK
<1>3. QED BY <1>1, <1>2, PTL DEF Spec

(* No thread of the client program reads a byte of another response than   *)
(* the one it waits for, and httpResponse writes to the socket on which    *)
(* the request came: handleClientFds closes no connection with a task, and *)
(* the number of its descriptor is not used again.                         *)
THEOREM WebOwnResponse ==
  ASSUME Mortal = {}
  PROVE  Spec => []OwnResponse /\ []SocketKept
<1>1. ServerOK => OwnResponse /\ SocketKept
  BY TalksOwn, TalksSockets DEF ServerOK
<1>2. Spec => []ServerOK
  BY ServerAlwaysOK
<1>3. QED BY <1>1, <1>2, PTL

(* One answer is due to a client that waits.                               *)
LEMMA TalksAnswer ==
  ASSUME ~SplitReads, PoolOfFds, Talks
  PROVE  OneAnswerDue
<1>1. SUFFICES ASSUME NEW c \in Clients, cpc[c] = "wait"
               PROVE  inbox[c] + Cardinality(Pending(c)) + (IF EndIn(stream[c]) THEN 1 ELSE 0) = 1
  BY DEF OneAnswerDue
<1>2. Asked(c) \/ Served(c) \/ Answered(c)
  BY <1>1 DEF Talks, Conv
<1>3. Cardinality({}) = 0 /\ \A n : Cardinality({n}) = 1
  BY FS_EmptySet, FS_Singleton
<1>4. stream[c] \in Seq(Piece) /\ Len(stream[c]) \in Nat
  BY LenProperties DEF PoolOfFds, Types
<1>5. CASE Asked(c)
  <2>1. ~EndIn(stream[c])
    BY <1>5 DEF Asked, EndIn
  <2>2. QED BY <1>3, <1>5, <2>1 DEF Asked
<1>6. CASE Served(c)
  <2>1. ~EndIn(stream[c])
    <3>1. \A i \in 1 .. Len(stream[c]) - 1 : i \in 1 .. Len(stream[c])
      BY <1>4
    <3>2. QED BY <1>6, <3>1 DEF Served, EndIn
  <2>2. PICK n : Pending(c) = {n} /\ inbox[c] = 0
    BY <1>6 DEF Served
  <2>3. Cardinality(Pending(c)) = 1
    BY <1>3, <2>2
  <2>4. QED BY <2>1, <2>2, <2>3
<1>7. CASE Answered(c)
  <2>1. EndIn(stream[c])
    <3>1. /\ Len(stream[c]) >= 2
          /\ stream[c][Len(stream[c]) - 1].part = "end1" /\ stream[c][Len(stream[c])].part = "end2"
      BY <1>7 DEF Answered, Ends
    <3>2. Len(stream[c]) - 1 \in 1 .. Len(stream[c]) - 1 /\ Len(stream[c]) - 1 + 1 = Len(stream[c])
      BY <1>4, <3>1
    <3>3. QED BY <3>1, <3>2 DEF EndIn
  <2>2. QED BY <1>3, <1>7, <2>1 DEF Answered
<1>8. QED BY <1>2, <1>5, <1>6, <1>7

(* The exact types: a socket holds one request at most.                    *)
LEMMA TalksTypes ==
  ASSUME PoolOfFds, Talks
  PROVE  TypeOK
<1>1. Types /\ SlotsMatch /\ reset = {} /\ \A c \in Clients : Conv(c)
  BY DEF PoolOfFds, Talks
<1>2. \A c \in Clients : done[c] <= ReqNum[c] /\ inbox[c] \in {0, 1}
  BY <1>1 DEF Conv, Quiet, Asked, Served, Answered
<1>3. readSet \subseteq Fds \cup {ServerSock}
  BY <1>1 DEF Types, SlotsMatch
<1>4. inbox \in [Clients -> {0, 1}]
  BY <1>1, <1>2 DEF Types
<1>5. QED BY <1>1, <1>2, <1>3, <1>4 DEF Types, TypeOK

(* The process of the server has no reason to end.                         *)
LEMMA StaysUp ==
  ASSUME EnoughFds, ServerOK, ScanInside, up, [Next]_vars
  PROVE  up'
<1>1. ASSUME NEW w \in Workers, OutOfFds(w) \/ WriteFails(w)
      PROVE  FALSE
  <2>1. CASE OutOfFds(w)
    <3>1. wpc[w] = "log" \/ wpc[w] = "open"
      BY <2>1 DEF OutOfFds, Exit
    <3>2. QED BY <2>1, <3>1, FreeFdLeft DEF OutOfFds, HasFile, ServerOK
  <2>2. QED BY <1>1, <2>1, WritesArrive DEF ServerOK
<1>2. ~ScanBeyond
  BY DEF ScanBeyond, ScanInside
<1>3. ASSUME NEW c \in Clients, ClientStep(c) \/ Kill(c)
      PROVE  up' = up
  BY <1>3 DEF ClientStep, Connect, SendRequest, Receive, Close, Kill, serverVars
<1>4. ASSUME NEW w \in Workers, TakeTask(w) \/ OpenStep(w) \/ CloseStep(w) \/ Write(w) \/ WriteUnheard(w)
                                \/ WriteToLog(w)
      PROVE  up' = up
  BY <1>4 DEF TakeTask, OpenStep, OpenLog, OpenFile, Opens, CloseStep, CloseLog, CloseFile, Closes, Write,
              WriteUnheard, WriteToLog
<1>5. CASE MainStep
  BY <1>2, <1>5 DEF MainStep, Select, NoNewClient, AcceptFails, AcceptClient, ScanEnd, ScanSkip, CloseClient,
                    EnqueueRequest
<1>6. CASE UNCHANGED vars
  BY <1>6 DEF vars
<1>7. QED BY <1>1, <1>3, <1>4, <1>5, <1>6 DEF Next, WorkerStep, OpenStep, CloseStep

(* While nobody is killed, descriptors suffice and reads do not cut the    *)
(* end message: web_server.c keeps every socket for its task, owes every   *)
(* waiting client one response, and never exits.                           *)
THEOREM WebInv ==
  ASSUME Mortal = {}, EnoughFds, ~SplitReads
  PROVE  Spec => []Inv
<1>1. Spec => []ServerOK
  BY ServerAlwaysOK
<1>2. Spec => []ScanInside
  <2>1. Spec => []ScanCounts /\ []ScanInside
    BY WebScanCounts
  <2>2. QED BY <2>1, PTL
<1>3. Init => up
  BY DEF Init
<1>4. ServerOK /\ ScanInside /\ up /\ [Next]_vars => up'
  BY StaysUp
<1>5. ServerOK /\ up => Inv
  BY TalksTypes, TalksSockets, TalksAnswer DEF ServerOK, Inv, ServerStaysUp
<1>6. QED BY <1>1, <1>2, <1>3, <1>4, <1>5, PTL DEF Spec


(* The threads and main of p3 use the pool only as PoolService says, with  *)
(* no condition on clients or descriptors: enqueuing is one Accept, taking *)
(* a task one Start, the end of httpResponse one Finish, and nothing else, *)
(* an exit included, touches the tasks.                                    *)
THEOREM WebUsesPool == Spec => PoolSafety
<1>1. Init => PoolInit
  BY DEF Init
<1>2. [Next]_vars => [PoolNext]_poolVars
  <2> SUFFICES ASSUME [Next]_vars PROVE [PoolNext]_poolVars
    OBVIOUS
  <2>1. ASSUME NEW c \in Clients, ClientStep(c) \/ Kill(c) PROVE UNCHANGED poolVars
    BY <2>1 DEF ClientStep, Connect, SendRequest, Receive, Close, Kill, serverVars
  <2>2. CASE MainStep
    <3>1. ASSUME NEW c \in Clients, EnqueueRequest(c) PROVE Accept
      BY <3>1 DEF EnqueueRequest
    <3>2. ASSUME NEW c \in Clients, CloseClient(c) PROVE UNCHANGED poolVars
      BY <3>2 DEF CloseClient
    <3>3. Select \/ NoNewClient \/ AcceptFails \/ AcceptClient \/ ScanEnd \/ ScanSkip \/ ScanBeyond
          => UNCHANGED poolVars
      BY DEF Select, NoNewClient, AcceptFails, AcceptClient, ScanEnd, ScanSkip, ScanBeyond
    <3>4. QED BY <2>2, <3>1, <3>2, <3>3 DEF MainStep, PoolNext
  <2>3. ASSUME NEW w \in Workers, TakeTask(w) PROVE Start(w)
    BY <2>3 DEF TakeTask
  <2>4. ASSUME NEW w \in Workers, CloseFile(w) PROVE Finish(w)
    BY <2>4 DEF CloseFile
  <2>5. ASSUME NEW w \in Workers,
               \/ OpenStep(w) \/ CloseLog(w) \/ OutOfFds(w)
               \/ Write(w) \/ WriteUnheard(w) \/ WriteToLog(w) \/ WriteFails(w)
        PROVE  UNCHANGED poolVars
    BY <2>5 DEF OpenStep, OpenLog, OpenFile, Opens, CloseLog, OutOfFds, Exit, Write, WriteUnheard, WriteToLog,
                WriteFails
  <2>6. CASE UNCHANGED vars
    BY <2>6 DEF vars
  <2>7. QED BY <2>1, <2>2, <2>3, <2>4, <2>5, <2>6 DEF Next, WorkerStep, OpenStep, PoolNext
<1>3. QED BY <1>1, <1>2, PTL DEF Spec, PoolSafety
=============================================================================
