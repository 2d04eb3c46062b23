---------------------------- MODULE SelectServer ----------------------------
(***************************************************************************)
(* The select server of p2 (select_server.c): one process that serves all  *)
(* connections, with a slot of its pool and of the arrays buffer,          *)
(* lastSeqNum and bytes_read for each.  A step is one slot of the loop in  *)
(* handleClientFds: what is ready for a slot when select() returns is      *)
(* still there when its turn comes, whatever order they are served in.     *)
(***************************************************************************)
EXTENDS RequestClient

CONSTANT FD_SETSIZE

Slots == 0 .. FD_SETSIZE - 1

NoClient == "none"

ASSUME SlotsAssumption == FD_SETSIZE \in Nat \ {0} /\ NoClient \notin Clients

VARIABLES up,         \* "running", "killed" by SIGPIPE or "corrupt" by a use after free
          clientfd,   \* the connection of a slot
          forgotten,  \* connections for which there was no slot
          memory,     \* what buffer[i] points to
          data,       \* the bytes_read bytes there
          lastSeqNum

poolVars   == <<clientfd, memory, data, lastSeqNum>>
selectVars == <<clientVars, backlog, netVars, closed, transferVars, programVars, up, forgotten, poolVars>>

SelectInit ==
  /\ ProgramInit
  /\ up = "running"
  /\ clientfd = [i \in Slots |-> NoClient]
  /\ forgotten = {}
  /\ memory = [i \in Slots |-> "NULL"]
  /\ data = [i \in Slots |-> <<>>]
  /\ lastSeqNum = [i \in Slots |-> 0]

-----------------------------------------------------------------------------
(* accept() and addClient: the first slot that is free.                    *)
Accept ==
  /\ up = "running" /\ backlog # <<>>
  /\ backlog' = Tail(backlog)
  /\ \/ \E i \in Slots :
           /\ clientfd[i] = NoClient
           /\ \A j \in Slots : j < i => clientfd[j] # NoClient
           /\ clientfd' = [clientfd EXCEPT ![i] = Head(backlog)]
           /\ UNCHANGED forgotten
     \/ /\ \A i \in Slots : clientfd[i] # NoClient
        /\ forgotten' = forgotten \cup {Head(backlog)}
        /\ UNCHANGED clientfd
  /\ UNCHANGED <<clientVars, netVars, closed, transferVars, programVars, up, memory, data, lastSeqNum>>

(* A plausible slip: the arrays are not cleared for the next client.       *)
CloseSlotKeeps(i) ==
  LET c == clientfd[i]
  IN  /\ up = "running" /\ c # NoClient
      /\ toServer[c] = <<>> /\ Gone(c)
      /\ closed' = closed \cup {c}
      /\ clientfd' = [clientfd EXCEPT ![i] = NoClient]
      /\ UNCHANGED <<clientVars, backlog, netVars, transferVars, programVars, up, forgotten, memory, data, lastSeqNum>>

(* Nothing to read from a socket that is ready: the client is gone.        *)
CloseSlot(i) ==
  LET c == clientfd[i]
  IN  /\ up = "running" /\ c # NoClient
      /\ toServer[c] = <<>> /\ Gone(c)
      /\ closed' = closed \cup {c}
      /\ clientfd' = [clientfd EXCEPT ![i] = NoClient]
      /\ memory' = [memory EXCEPT ![i] = "NULL"]
      /\ data' = [data EXCEPT ![i] = <<>>]
      /\ lastSeqNum' = [lastSeqNum EXCEPT ![i] = 0]
      /\ UNCHANGED <<clientVars, backlog, netVars, transferVars, programVars, up, forgotten>>

-----------------------------------------------------------------------------
(* handleClientRequest: one packet                                         *)

Receive(i, cmd) ==
  LET c == clientfd[i]
  IN  /\ up = "running" /\ c # NoClient
      /\ toServer[c] # <<>> /\ Head(toServer[c]).cmd = cmd
      /\ toServer' = [toServer EXCEPT ![c] = Tail(@)]

(* sendCmdPkt; a second answer to a client that is gone raises SIGPIPE.    *)
Answer(c, cmd, s) ==
  \/ /\ ~Gone(c)
     /\ toClient' = [toClient EXCEPT ![c] = Append(@, [cmd |-> cmd, seq |-> s])]
     /\ UNCHANGED <<reset, up>>
  \/ /\ Gone(c) /\ c \notin reset
     /\ reset' = reset \cup {c}
     /\ UNCHANGED <<toClient, up>>
  \/ /\ Gone(c) /\ c \in reset
     /\ up' = "killed"
     /\ UNCHANGED <<toClient, reset>>

(* The answer of slot i has this number, which is remembered.              *)
Number(i, s) == lastSeqNum' = [lastSeqNum EXCEPT ![i] = s]

(* A plausible slip: one number for all slots.                             *)
NextNumberShared(i) ==
  ((CHOOSE s \in {lastSeqNum[j] : j \in Slots} : \A j \in Slots : lastSeqNum[j] <= s) + 1) % SEQ_SIZE

NextNumber(i) == (lastSeqNum[i] + 1) % SEQ_SIZE

ClientHello(i) ==
  /\ Receive(i, "CLIENT_HELLO")
  /\ \E s \in FirstSeqs : Number(i, s) /\ Answer(clientfd[i], "SERVER_HELLO", s)
  /\ UNCHANGED <<clientVars, backlog, closed, transferVars, programVars, forgotten, clientfd, memory, data>>

(* Using a buffer that was freed: anything may follow.                     *)
UseAfterFree(i) ==
  /\ memory[i] = "freed"
  /\ up' = "corrupt"
  /\ UNCHANGED <<toClient, reset, disk, torn, memory, data, lastSeqNum>>

(* A plausible slip: when memory is short the packet is just dropped.      *)
DataDeliverySilent(i) ==
  /\ Receive(i, "DATA_DELIVERY")
  /\ \/ UseAfterFree(i)
     \/ /\ memory[i] # "freed"
        /\ memory' = [memory EXCEPT ![i] = "allocated"]
        /\ data' = [data EXCEPT ![i] = @ \o Head(toServer[clientfd[i]]).data]
        /\ Number(i, NextNumber(i)) /\ Answer(clientfd[i], "PKT_RECEIVED", NextNumber(i))
        /\ UNCHANGED <<disk, torn>>
     \/ /\ memory[i] # "freed" /\ "memory" \in Failures
        /\ UNCHANGED <<toClient, reset, up, disk, torn, memory, data, lastSeqNum>>
  /\ UNCHANGED <<clientVars, backlog, closed, name, told, programVars, forgotten, clientfd>>

DataDelivery(i) ==
  /\ Receive(i, "DATA_DELIVERY")
  /\ \/ UseAfterFree(i)
     \/ /\ memory[i] # "freed"
        /\ memory' = [memory EXCEPT ![i] = "allocated"]
        /\ data' = [data EXCEPT ![i] = @ \o Head(toServer[clientfd[i]]).data]
        /\ Number(i, NextNumber(i)) /\ Answer(clientfd[i], "PKT_RECEIVED", NextNumber(i))
        /\ UNCHANGED <<disk, torn>>
     \/ /\ memory[i] # "freed" /\ "memory" \in Failures
        /\ memory' = [memory EXCEPT ![i] = "NULL"]
        /\ Number(i, NextNumber(i)) /\ Answer(clientfd[i], "ERROR", NextNumber(i))
        /\ UNCHANGED <<disk, torn, data>>
  /\ UNCHANGED <<clientVars, backlog, closed, name, told, programVars, forgotten, clientfd>>

(* A plausible slip: the error of write() is not looked at.                *)
StoreUnchecked(i, n) ==
  \/ UseAfterFree(i)
  \/ /\ memory[i] # "freed"
     /\ \/ disk' = [disk EXCEPT ![n] = Overwritten(@, data[i])]
        \/ "write" \in Failures /\ disk' = [disk EXCEPT ![n] = Created(@)]
     /\ memory' = [memory EXCEPT ![i] = "freed"]
     /\ Number(i, NextNumber(i)) /\ Answer(clientfd[i], "FILE_STORED", NextNumber(i))
     /\ UNCHANGED <<torn, data>>

(* open, write, free and the answer of DATA_STORE; a write that comes      *)
(* short is no error.                                                      *)
Store(i, n) ==
  \/ UseAfterFree(i)
  \/ /\ memory[i] # "freed"
     /\ disk' = [disk EXCEPT ![n] = Overwritten(@, data[i])]
     /\ memory' = [memory EXCEPT ![i] = "freed"]
     /\ Number(i, NextNumber(i)) /\ Answer(clientfd[i], "FILE_STORED", NextNumber(i))
     /\ UNCHANGED <<torn, data>>
  \/ /\ memory[i] # "freed" /\ "short" \in Failures
     /\ \E k \in 0 .. Len(data[i]) - 1 : WriteUpTo(clientfd[i], n, data[i], k)
     /\ memory' = [memory EXCEPT ![i] = "freed"]
     /\ Number(i, NextNumber(i)) /\ Answer(clientfd[i], "FILE_STORED", NextNumber(i))
     /\ UNCHANGED data
  \/ /\ "write" \in Failures
     /\ disk' = [disk EXCEPT ![n] = Created(@)]
     /\ Number(i, NextNumber(i)) /\ Answer(clientfd[i], "STORED_ERROR", NextNumber(i))
     /\ UNCHANGED <<torn, memory, data>>
  \/ /\ "open" \in Failures
     /\ Number(i, NextNumber(i)) /\ Answer(clientfd[i], "STORED_ERROR", NextNumber(i))
     /\ UNCHANGED <<disk, torn, memory, data>>

DataStore(i) ==
  /\ Receive(i, "DATA_STORE")
  /\ Store(i, Head(toServer[clientfd[i]]).data[1].of)
  /\ UNCHANGED <<clientVars, backlog, closed, name, told, programVars, forgotten, clientfd>>

-----------------------------------------------------------------------------
Serve(i) == CloseSlot(i) \/ ClientHello(i) \/ DataDelivery(i) \/ DataStore(i)

ThreadStep(c)  == Thread(c) /\ UNCHANGED <<up, forgotten, poolVars>>
ProgramStep(p) == Main(p) /\ UNCHANGED <<up, forgotten, poolVars>>

SelectNext ==
  \/ Accept
  \/ \E i \in Slots : Serve(i)
  \/ \E c \in Clients : ThreadStep(c)
  \/ \E p \in Programs : ProgramStep(p)

(* The 100 ms of main() may be any time: nothing is assumed of it.         *)
SelectFairness ==
  /\ WF_selectVars(Accept)
  /\ \A i \in Slots : WF_selectVars(Serve(i))
  /\ \A c \in Clients : WF_selectVars(ThreadStep(c))

SelectSpec == SelectInit /\ [][SelectNext]_selectVars /\ SelectFairness

-----------------------------------------------------------------------------
(* Properties                                                              *)

(* Every variable has its type.                                            *)
SelectTypeOK ==
  /\ name \in [Clients -> Names \cup {NoName}]
  /\ disk \in [Names -> Seq(Block)]
  /\ told \in [Clients -> {"nothing", "stored", "failed"}]
  /\ torn \subseteq Clients
  /\ ProgramTypeOK
  /\ up \in {"running", "killed", "corrupt"}
  /\ clientfd \in [Slots -> Clients \cup {NoClient}]
  /\ forgotten \subseteq Clients
  /\ memory \in [Slots -> {"NULL", "allocated", "freed"}]
  /\ data \in [Slots -> Seq(Block)]
  /\ lastSeqNum \in [Slots -> 0 .. SEQ_SIZE - 1]

(* A connection is queued by connect() and accepted once: it is in the     *)
(* backlog, without a slot, in one slot or closed.                         *)
Waiting == {backlog[k] : k \in DOMAIN backlog}
Slotted == {clientfd[i] : i \in Slots}

Places ==
  /\ \A k, m \in DOMAIN backlog : backlog[k] = backlog[m] => k = m
  /\ \A i, j \in Slots : clientfd[i] = clientfd[j] /\ clientfd[i] # NoClient => i = j
  /\ Waiting \cap (forgotten \cup Slotted \cup closed) = {}
  /\ forgotten \cap (Slotted \cup closed) = {} /\ Slotted \cap closed = {}
  /\ \A c \in Clients :
        /\ cpc[c] = "start" => c \notin Waiting \cup forgotten \cup Slotted \cup closed
        /\ cpc[c] = "read" => c \in Waiting \cup forgotten \cup Slotted

(* One packet or one answer is under way while the client waits.           *)
Exchange(c) ==
  \/ /\ toServer[c] # <<>> /\ toServer[c] = <<Head(toServer[c])>>
     /\ IsRequest(c, Head(toServer[c]))
     /\ toClient[c] = <<>> /\ cpc[c] \in {"read", "killed"}
  \/ toServer[c] = <<>> /\ Len(toClient[c]) = 1 /\ cpc[c] \in {"read", "killed"}
  \/ toServer[c] = <<>> /\ toClient[c] = <<>> /\ cpc[c] # "read"

Connection(c) ==
  /\ name[c] # NoName \/ cpc[c] # "start" => Index(c) <= threadNum[Program(c)]
  /\ name[c] = NoName => cpc[c] # "read" /\ toServer[c] = <<>> /\ toClient[c] = <<>>
  /\ name[c] # NoName => pos[c] <= Size[name[c]]
  /\ cpc[c] = "start" => pos[c] = 0 /\ got[c].cmd = "none"
  /\ told[c] # "nothing" => cpc[c] = "exited"
  /\ c \in closed => Gone(c)
  /\ c \in reset => Gone(c) /\ toServer[c] = <<>>
  /\ c \in Waiting \cup forgotten => toServer[c] = <<Packet("CLIENT_HELLO", <<>>)>>
  /\ toServer[c] # <<>> /\ Head(toServer[c]).cmd = "CLIENT_HELLO" => pos[c] = 0 /\ got[c].cmd = "none"
  /\ toServer[c] # <<>> /\ Head(toServer[c]).cmd = "DATA_STORE" => NoMore(c)

(* "Stored" is true from the moment the answer is written.                 *)
Promise(c) == toClient[c] # <<>> /\ Head(toClient[c]).cmd = "FILE_STORED" => StoredFor(c)

(* A slot that is free is empty.  A buffer that was freed is not used any  *)
(* more, and until then holds what was sent, unless memory was short.      *)
InFlight(c) == IF toServer[c] # <<>> /\ Head(toServer[c]).cmd = "DATA_DELIVERY"
               THEN Head(toServer[c]).data ELSE <<>>

OwnData(i, c) ==
  \/ toClient[c] # <<>> /\ Head(toClient[c]).cmd = "ERROR"
  \/ data[i] \o InFlight(c) = SubSeq(File(name[c]), 1, pos[c])

SlotOf(i, c) ==
  /\ memory[i] = "freed" => /\ toServer[c] = <<>>
                            /\ cpc[c] = "read" => toClient[c] # <<>> /\ Head(toClient[c]).cmd = "FILE_STORED"
  /\ memory[i] # "freed" /\ (cpc[c] = "read" \/ toServer[c] # <<>>) => OwnData(i, c)
  /\ cpc[c] = "read" /\ toClient[c] # <<>> =>
        /\ Head(toClient[c]).seq = lastSeqNum[i]
        /\ got[c].cmd # "none" => lastSeqNum[i] = (got[c].seq + 1) % SEQ_SIZE
  /\ cpc[c] = "read" /\ toClient[c] = <<>> /\ got[c].cmd # "none" => got[c].seq = lastSeqNum[i]

SlotOK(i) ==
  IF clientfd[i] = NoClient THEN memory[i] = "NULL" /\ data[i] = <<>> ELSE SlotOf(i, clientfd[i])

(* The types, the numbers the threads have taken from threadArgs, and what *)
(* makes these and the other properties inductive.                         *)
Inv ==
  /\ SelectTypeOK /\ NumberNotEarlier /\ Places
  /\ \A c \in Clients : Exchange(c) /\ Connection(c) /\ Promise(c)
  /\ \A i \in Slots : SlotOK(i)

(* Threads that die at any point never make the server write twice to a    *)
(* closed connection, nor use a buffer it has freed.                       *)
ServerStaysUp == up = "running"

(* A slot holds the data of its own connection only, though slots are used *)
(* again and again: while its client talks, the blocks it has sent.        *)
SlotHoldsOwnData ==
  \A i \in Slots :
     LET c == clientfd[i]
     IN  c # NoClient /\ cpc[c] = "read" /\ memory[i] # "freed" => OwnData(i, c)

(* No thread waits for ever on its connection, unless the server had no    *)
(* slot for it: however the slots are used again and whoever dies, there   *)
(* is always a later moment at which nobody waits for an answer.           *)
ConnectedEnds == []<>(\A c \in Clients : cpc[c] = "read" => c \in forgotten)

(* The transfer keeps the promises of TransferService.                     *)
ImplementsTransferService == TransferSafety
=============================================================================
