----------------------------- MODULE WebServer -----------------------------
(***************************************************************************)
(* The p3 web server and its clients: the select loop of web_server.c with *)
(* its pool of descriptors (server_utilities.c), httpResponse run by the   *)
(* threads of the pool, and the threads of the client program.  The thread *)
(* pool is PoolService, which ThreadPool implements.                       *)
(*                                                                         *)
(* A system call is a step.  Descriptors, like the kernel's, are the       *)
(* lowest free ones, and a thread of the pool opens its log file and       *)
(* index.html among the sockets.                                           *)
(***************************************************************************)
EXTENDS PoolService, Sequences, FiniteSets

CONSTANTS Clients,      \* threads of client programs, one connection each
          Mortal,       \* the clients whose program may be killed
          ReqNum,       \* requests of each client
          MaxFd,        \* descriptors 1 .. MaxFd are left to sockets and files
          FD_SETSIZE,   \* slots of clientfd
          SplitReads    \* whether a read may return part of one write

ASSUME WebServerAssumption ==
  /\ Mortal \subseteq Clients
  /\ ReqNum \in [Clients -> Nat \ {0}]
  /\ MaxFd \in Nat \ {0}
  /\ FD_SETSIZE \in Nat \ {0}
  /\ SplitReads \in BOOLEAN
  /\ \A c \in Clients : c \notin {"free", "file"}

VARIABLES
  \* clients and their connections
  cpc,        \* control point of every client
  done,       \* responses each client has seen to their end
  backlog,    \* connections waiting for accept
  inbox,      \* requests sent to the server and not yet read
  stream,     \* what the server has written and the client has not yet read
  reset,      \* closed connections whose server end has been told so
  \* the process of the server
  up,         \* it has not exited
  fdTable,    \* what each descriptor is open on
  \* main() and its fdPool
  mpc, slot, readSet, readySet, nready, clientfd, maxi, maxfd,
  \* tasks
  info,       \* the clientInfo of every accepted task, with the requester
  wpc,        \* control point of every thread of the pool
  file        \* its open file: the log, then index.html

clientVars == <<cpc, done>>
netVars    == <<backlog, inbox, stream, reset>>
loopVars   == <<mpc, slot, readySet, nready>>
slotVars   == <<readSet, clientfd, maxi, maxfd>>
taskVars   == <<info, wpc, file>>
vars == <<clientVars, netVars, up, fdTable, loopVars, slotVars, taskVars, poolVars>>

ServerSock == 0
Fds        == 1 .. MaxFd
Slots      == 0 .. FD_SETSIZE - 1
NoFd       == -1

(* The response, in the order of its writes; the end message is in two     *)
(* halves so that a read can cut it.                                       *)
Parts == {"header", "body", "end1", "end2"}
Piece == [for : Clients, req : Nat, part : Parts]

Gone(c) == cpc[c] \in {"closed", "killed"}

FreeFds == {f \in Fds : fdTable[f] = "free"}
Lowest(S) == CHOOSE x \in S : \A y \in S : x <= y

(* maxi is not initialised by initPool: it starts with whatever main()'s   *)
(* stack holds, below, inside or above the range of the slots.             *)
Init ==
  /\ cpc = [c \in Clients |-> "start"]
  /\ done = [c \in Clients |-> 0]
  /\ backlog = <<>>
  /\ inbox = [c \in Clients |-> 0]
  /\ stream = [c \in Clients |-> <<>>]
  /\ reset = {}
  /\ up = TRUE
  /\ fdTable = [f \in Fds |-> "free"]
  /\ mpc = "select" /\ slot = 0
  /\ readSet = {ServerSock} /\ readySet = {} /\ nready = 0
  /\ clientfd = [i \in Slots |-> NoFd]
  /\ maxi \in {-1, FD_SETSIZE - 1, FD_SETSIZE}
  /\ maxfd = ServerSock
  /\ info = <<>>
  /\ wpc = [w \in Workers |-> "idle"]
  /\ file = [w \in Workers |-> NoFd]
  /\ PoolInit

serverVars == <<up, fdTable, loopVars, slotVars, taskVars, poolVars>>

-----------------------------------------------------------------------------
(* clientHttpRequest                                                       *)

ClientGoto(c, from, to) ==
  /\ cpc[c] = from
  /\ cpc' = [cpc EXCEPT ![c] = to]

Connect(c) ==
  /\ up
  /\ ClientGoto(c, "start", "send")
  /\ backlog' = Append(backlog, c)
  /\ UNCHANGED <<done, inbox, stream, reset, serverVars>>

SendRequest(c) ==
  /\ ClientGoto(c, "send", "wait")
  /\ inbox' = [inbox EXCEPT ![c] = @ + 1]
  /\ UNCHANGED <<done, backlog, stream, reset, serverVars>>

(* read returns some of the bytes available.                               *)
Readable(s) == {n \in 1 .. Len(s) : SplitReads \/ s[n].part # "end1"}

(* The end message counts when it is in the bytes of one read.             *)
EndIn(s) == \E i \in 1 .. Len(s) - 1 : s[i].part = "end1" /\ s[i + 1].part = "end2"

SeesEnd(s) == EndIn(s)

Receive(c) ==
  \E n \in Readable(stream[c]) :
     /\ cpc[c] = "wait"
     /\ stream' = [stream EXCEPT ![c] = SubSeq(@, n + 1, Len(@))]
     /\ IF SeesEnd(SubSeq(stream[c], 1, n))
        THEN /\ done' = [done EXCEPT ![c] = @ + 1]
             /\ cpc' = [cpc EXCEPT ![c] = IF done[c] + 1 < ReqNum[c] THEN "send" ELSE "close"]
        ELSE UNCHANGED clientVars
     /\ UNCHANGED <<backlog, inbox, reset, serverVars>>

(* A connection closed on unread data is reset at once, else by the next   *)
(* write of the other end.                                                 *)
CloseSocket(c) ==
  /\ reset' = IF stream[c] = <<>> THEN reset ELSE reset \cup {c}
  /\ UNCHANGED <<backlog, inbox, stream>>

Close(c) ==
  /\ ClientGoto(c, "close", "closed")
  /\ CloseSocket(c)
  /\ UNCHANGED <<done, serverVars>>

(* The client program is killed: the kernel closes its sockets.            *)
Kill(c) ==
  /\ c \in Mortal
  /\ cpc[c] \in {"send", "wait"}
  /\ cpc' = [cpc EXCEPT ![c] = "killed"]
  /\ CloseSocket(c)
  /\ UNCHANGED <<done, serverVars>>

-----------------------------------------------------------------------------
(* main() of web_server.c                                                  *)

mainFrame == <<clientVars, wpc, file>>

ReadyFds ==
  {f \in readSet : f <= maxfd /\ IF f = ServerSock THEN backlog # <<>>
                                 ELSE inbox[fdTable[f]] > 0 \/ Gone(fdTable[f])}

Select ==
  /\ up /\ mpc = "select"
  /\ ReadyFds # {}
  /\ readySet' = ReadyFds
  /\ nready' = Cardinality(ReadyFds)
  /\ mpc' = "accept"
  /\ UNCHANGED <<mainFrame, netVars, up, fdTable, slot, slotVars, info, poolVars>>

(* handleClientFds is called when descriptors are left to handle.          *)
LeaveAccept ==
  /\ mpc' = IF nready' = 0 THEN "select" ELSE "scan"
  /\ slot' = 0

NoNewClient ==
  /\ up /\ mpc = "accept"
  /\ ServerSock \notin readySet
  /\ UNCHANGED nready
  /\ LeaveAccept
  /\ UNCHANGED <<mainFrame, netVars, up, fdTable, readySet, slotVars, info, poolVars>>

(* accept fails when the process is out of descriptors; nready stays.      *)
AcceptFails ==
  /\ up /\ mpc = "accept"
  /\ ServerSock \in readySet
  /\ FreeFds = {}
  /\ UNCHANGED nready
  /\ LeaveAccept
  /\ UNCHANGED <<mainFrame, netVars, up, fdTable, readySet, slotVars, info, poolVars>>

FreeSlots == {i \in Slots : clientfd[i] = NoFd}

(* A plausible slip: the new descriptor does not raise maxfd.              *)
AddClientForgetsMax(f) ==
  /\ FreeSlots # {}
  /\ clientfd' = [clientfd EXCEPT ![Lowest(FreeSlots)] = f]
  /\ readSet' = readSet \cup {f}
  /\ maxi' = IF Lowest(FreeSlots) > maxi THEN Lowest(FreeSlots) ELSE maxi
  /\ UNCHANGED maxfd

(* addClient, when it finds a slot.                                        *)
AddClient(f) ==
  /\ FreeSlots # {}
  /\ clientfd' = [clientfd EXCEPT ![Lowest(FreeSlots)] = f]
  /\ readSet' = readSet \cup {f}
  /\ maxi' = IF Lowest(FreeSlots) > maxi THEN Lowest(FreeSlots) ELSE maxi
  /\ maxfd' = IF f > maxfd THEN f ELSE maxfd

(* addClient without a free slot prints an error and leaks the socket.     *)
NoSlot ==
  /\ FreeSlots = {}
  /\ UNCHANGED slotVars

(* A plausible slip: addClient does not count the server socket.           *)
HandledNone(n) == n

Handled(n) == n - 1

AcceptClient ==
  /\ up /\ mpc = "accept"
  /\ ServerSock \in readySet
  /\ FreeFds # {}
  /\ LET f == Lowest(FreeFds)
     IN  /\ fdTable' = [fdTable EXCEPT ![f] = Head(backlog)]
         /\ AddClient(f) \/ NoSlot
  /\ backlog' = Tail(backlog)
  /\ nready' = Handled(nready)
  /\ LeaveAccept
  /\ UNCHANGED <<mainFrame, inbox, stream, reset, up, readySet, info, poolVars>>

(* The loop of handleClientFds is at slot; f is ready.                     *)
Scanning == up /\ mpc = "scan" /\ slot <= maxi /\ nready > 0

ScanEnd ==
  /\ up /\ mpc = "scan"
  /\ slot > maxi \/ nready = 0
  /\ mpc' = "select"
  /\ UNCHANGED <<mainFrame, netVars, up, fdTable, slot, readySet, nready, slotVars, info, poolVars>>

ScanSkip ==
  /\ Scanning /\ slot \in Slots
  /\ clientfd[slot] \notin readySet
  /\ slot' = slot + 1
  /\ UNCHANGED <<mainFrame, netVars, up, fdTable, mpc, readySet, nready, slotVars, info, poolVars>>

(* A read of clientfd past its end is undefined; here the process dies.    *)
ScanBeyond ==
  /\ Scanning /\ slot \notin Slots
  /\ up' = FALSE
  /\ UNCHANGED <<mainFrame, netVars, fdTable, loopVars, slotVars, info, poolVars>>

ScanReady(c) ==
  /\ Scanning /\ slot \in Slots
  /\ clientfd[slot] \in readySet
  /\ c = fdTable[clientfd[slot]]
  /\ nready' = nready - 1
  /\ slot' = slot + 1

(* FIONREAD says 0: the client has closed the connection.                  *)
CloseClient(c) ==
  /\ ScanReady(c)
  /\ inbox[c] = 0
  /\ fdTable' = [fdTable EXCEPT ![clientfd[slot]] = "free"]
  /\ readSet' = readSet \ {clientfd[slot]}
  /\ clientfd' = [clientfd EXCEPT ![slot] = NoFd]
  /\ UNCHANGED <<mainFrame, netVars, up, mpc, readySet, maxi, maxfd, info, poolVars>>

(* A plausible slip: the data are left in the socket.                      *)
InboxKept(c) == inbox

InboxRead(c) == [inbox EXCEPT ![c] = 0]

(* One read, one task: handleClientRequest copies the socket.              *)
EnqueueRequest(c) ==
  /\ ScanReady(c)
  /\ inbox[c] > 0
  /\ inbox' = InboxRead(c)
  /\ Accept
  /\ info' = Append(info, [sock |-> clientfd[slot], for |-> c, req |-> done[c] + 1])
  /\ UNCHANGED <<mainFrame, backlog, stream, reset, up, fdTable, mpc, readySet, slotVars>>

-----------------------------------------------------------------------------
(* The threads of the pool: threadFunc, writeLog, httpResponse             *)

workerFrame == <<clientVars, backlog, inbox, loopVars, slotVars, info>>

WorkerGoto(w, from, to) ==
  /\ up /\ wpc[w] = from
  /\ wpc' = [wpc EXCEPT ![w] = to]

(* perror and exit(-1), or SIGPIPE, or a fault: the whole server stops.    *)
Exit(w, at) ==
  /\ up /\ wpc[w] = at
  /\ up' = FALSE
  /\ UNCHANGED <<workerFrame, stream, reset, fdTable, wpc, file, poolVars>>

TakeTask(w) ==
  /\ WorkerGoto(w, "idle", "log")
  /\ Start(w)
  /\ UNCHANGED <<workerFrame, stream, reset, up, fdTable, file>>

(* The files of a thread, its log and index.html, are open one at a time.  *)
Opens(w, from, to) ==
  /\ FreeFds # {}
  /\ WorkerGoto(w, from, to)
  /\ fdTable' = [fdTable EXCEPT ![Lowest(FreeFds)] = "file"]
  /\ file' = [file EXCEPT ![w] = Lowest(FreeFds)]
  /\ UNCHANGED <<workerFrame, stream, reset, up, poolVars>>

Closes(w, from, to) ==
  /\ WorkerGoto(w, from, to)
  /\ fdTable' = [fdTable EXCEPT ![file[w]] = "free"]
  /\ file' = [file EXCEPT ![w] = NoFd]
  /\ UNCHANGED <<workerFrame, stream, reset, up>>

OpenLog(w)  == Opens(w, "log", "logging")
CloseLog(w) == Closes(w, "logging", "open") /\ UNCHANGED poolVars
OpenFile(w) == Opens(w, "open", "header")

(* fprintf on what a failed fopen returned, or perror and exit.            *)
OutOfFds(w) ==
  /\ FreeFds = {}
  /\ Exit(w, "log") \/ Exit(w, "open")

Sock(w)   == info[running[w]].sock
Target(w) == fdTable[Sock(w)]

(* A plausible slip: the end message is sent before the file.              *)
WritesEndFirst(at) == CASE at = "header" -> <<"header">>
                        [] at = "body"   -> <<"end1", "end2">>
                        [] at = "end"    -> <<"body">>

(* The three writes; index.html fits in one buffer.                        *)
Writes(at) == CASE at = "header" -> <<"header">>
                [] at = "body"   -> <<"body">>
                [] at = "end"    -> <<"end1", "end2">>

Pieces(w, at) ==
  LET i == info[running[w]]
  IN  [k \in 1 .. Len(Writes(at)) |-> [for |-> i.for, req |-> i.req, part |-> Writes(at)[k]]]

NextWrite(at) == CASE at = "header" -> "body" [] at = "body" -> "end" [] at = "end" -> "closeFile"

Writing(w) == wpc[w] \in {"header", "body", "end"}

Write(w) ==
  /\ Writing(w)
  /\ Target(w) \in Clients /\ ~Gone(Target(w))
  /\ WorkerGoto(w, wpc[w], NextWrite(wpc[w]))
  /\ stream' = [stream EXCEPT ![Target(w)] = @ \o Pieces(w, wpc[w])]
  /\ UNCHANGED <<workerFrame, reset, up, fdTable, file, poolVars>>

(* The peer has gone: the first write is answered with a reset.            *)
WriteUnheard(w) ==
  /\ Writing(w)
  /\ Target(w) \in Clients /\ Gone(Target(w))
  /\ WorkerGoto(w, wpc[w], NextWrite(wpc[w]))
  /\ reset' = reset \cup {Target(w)}
  /\ UNCHANGED <<workerFrame, stream, up, fdTable, file, poolVars>>

(* The number of the socket is now that of a log, opened for appending.    *)
IsLog(f) == \E v \in Workers : wpc[v] = "logging" /\ file[v] = f

WriteToLog(w) ==
  /\ Writing(w)
  /\ IsLog(Sock(w))
  /\ WorkerGoto(w, wpc[w], NextWrite(wpc[w]))
  /\ UNCHANGED <<workerFrame, stream, reset, up, fdTable, file, poolVars>>

(* The socket is reset, closed, or now a file opened for reading.          *)
WriteFails(w) ==
  /\ Writing(w)
  /\ IF Target(w) \in Clients THEN Target(w) \in reset ELSE ~IsLog(Sock(w))
  /\ Exit(w, wpc[w])

(* close(fd), the return of httpResponse and the end of the task.          *)
CloseFile(w) == Closes(w, "closeFile", "idle") /\ Finish(w)

-----------------------------------------------------------------------------

ClientStep(c) == Connect(c) \/ SendRequest(c) \/ Receive(c) \/ Close(c)

MainStep ==
  \/ Select
  \/ NoNewClient \/ AcceptFails \/ AcceptClient
  \/ ScanEnd \/ ScanSkip \/ ScanBeyond
  \/ \E c \in Clients : CloseClient(c) \/ EnqueueRequest(c)

WorkerStep(w) ==
  \/ OpenLog(w) \/ CloseLog(w) \/ OpenFile(w) \/ OutOfFds(w)
  \/ Write(w) \/ WriteUnheard(w) \/ WriteToLog(w) \/ WriteFails(w)
  \/ CloseFile(w)

Next ==
  \/ \E c \in Clients : ClientStep(c) \/ Kill(c)
  \/ MainStep
  \/ \E w \in Workers : TakeTask(w) \/ WorkerStep(w)

(* The threads and the clients keep running; the pool hands every task to  *)
(* some thread (PoolFairness).  Nobody has to be killed.                   *)
Fairness ==
  /\ \A c \in Clients : WF_vars(ClientStep(c))
  /\ WF_vars(MainStep)
  /\ WF_vars(\E w \in Workers : TakeTask(w))
  /\ \A w \in Workers : WF_vars(WorkerStep(w))

Spec == Init /\ [][Next]_vars

FairSpec == Spec /\ Fairness

-----------------------------------------------------------------------------
(* Properties                                                              *)

TypeOK ==
  /\ cpc \in [Clients -> {"start", "send", "wait", "close", "closed", "killed"}]
  /\ done \in [Clients -> Nat] /\ \A c \in Clients : done[c] <= ReqNum[c]
  /\ backlog \in Seq(Clients)
  /\ inbox \in [Clients -> {0, 1}]
  /\ stream \in [Clients -> Seq(Piece)]
  /\ reset \subseteq {c \in Clients : Gone(c)}
  /\ up \in BOOLEAN
  /\ fdTable \in [Fds -> Clients \cup {"free", "file"}]
  /\ mpc \in {"select", "accept", "scan"}
  /\ slot \in 0 .. FD_SETSIZE
  /\ readSet \subseteq Fds \cup {ServerSock}
  /\ readySet \subseteq Fds \cup {ServerSock}
  /\ nready \in 0 .. MaxFd + 1
  /\ clientfd \in [Slots -> Fds \cup {NoFd}]
  /\ maxi \in Int /\ maxfd \in Fds \cup {ServerSock}
  /\ info \in Seq([sock : Fds, for : Clients, req : Nat])
  /\ wpc \in [Workers -> {"idle", "log", "logging", "open", "header", "body", "end", "closeFile"}]
  /\ file \in [Workers -> Fds \cup {NoFd}]
  /\ PoolTypeOK

(* The descriptor pool knows every connection that has a slot: select is   *)
(* told of it, the scan reaches its slot, and nothing else is in the sets. *)
(* A connection missing from one of the four is never served again.        *)
SlotsMatch ==
  LET used == {i \in Slots : clientfd[i] # NoFd}
  IN  /\ readSet = {ServerSock} \cup {clientfd[i] : i \in used}
      /\ \A i, j \in used : clientfd[i] = clientfd[j] => i = j
      /\ \A i \in used : /\ fdTable[clientfd[i]] \in Clients
                         /\ i <= maxi /\ clientfd[i] <= maxfd

(* The scan looks at a slot only while a ready descriptor is ahead of it:  *)
(* nready is what keeps it inside clientfd, as maxi is never initialised.  *)
ScanCounts ==
  mpc = "scan" =>
     nready = Cardinality({i \in Slots : i >= slot /\ clientfd[i] \in readySet})

(* The socket of a task stays open, on the connection that asked, until    *)
(* its thread has written the last byte: the select loop does not close it *)
(* under the thread, and its number is not given to another client.        *)
Unfinished == {n \in 1 .. accepted : n \notin finished}

SocketKept ==
  \A n \in Unfinished :
     (\E w \in Workers : running[w] = n /\ wpc[w] = "closeFile")
        \/ fdTable[info[n].sock] = info[n].for

(* A client reads only its own response: header, file and end message of   *)
(* the request it is waiting for, never a piece of an earlier or another   *)
(* client's response.                                                      *)
OwnResponse ==
  \A c \in Clients : \A i \in 1 .. Len(stream[c]) :
     stream[c][i].for = c
       /\ (~Gone(c) => cpc[c] = "wait" /\ stream[c][i].req = done[c] + 1)

(* A waiting client is owed one response: its request is still in the      *)
(* socket, or is one task that has not written its end message, or the     *)
(* whole end message is on its way.                                        *)
Pending(c) ==
  {n \in Unfinished : info[n].for = c
                        /\ ~\E w \in Workers : running[w] = n /\ wpc[w] = "closeFile"}

OneAnswerDue ==
  \A c \in Clients : up /\ cpc[c] = "wait" =>
     inbox[c] + Cardinality(Pending(c)) + (IF EndIn(stream[c]) THEN 1 ELSE 0) = 1

(* "After sending the responses, server continues to listen to new client  *)
(* requests": the process never exits.                                     *)
ServerStaysUp == up

(* While nobody is killed: the types, every socket kept for its task, one  *)
(* response owed to every waiting client, by a server that stays up.       *)
Inv == TypeOK /\ SocketKept /\ OneAnswerDue /\ ServerStaysUp

(* Every client that connects gets all its responses and closes.           *)
EveryClientServed == \A c \in Clients : cpc[c] = "send" ~> cpc[c] = "closed"
=============================================================================
