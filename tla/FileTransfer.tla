---------------------------- MODULE FileTransfer ----------------------------
(***************************************************************************)
(* The server of p1 (server.c) with its clients: it accepts one connection *)
(* and takes one file from it.  Every variable of main() is a function of  *)
(* the connection, so that MultiServer can give a process to each; the p1  *)
(* server serves one connection and turns the others away when it ends.    *)
(***************************************************************************)
EXTENDS Transfer

VARIABLES spc,      \* control point of the server of every connection
          recv,     \* serverRecvPkt: the last packet that was read
          buffer,   \* the data read so far
          seq       \* serverSendPkt.sequence

serverVars   == <<spc, recv, buffer, seq>>
transferAll  == <<clientVars, backlog, netVars, closed, transferVars, serverVars>>

NoPacket == Packet("none", <<>>)

ServerInit ==
  /\ spc = [c \in Clients |-> "none"]
  /\ recv = [c \in Clients |-> NoPacket]
  /\ buffer = [c \in Clients |-> <<>>]
  /\ seq = [c \in Clients |-> 0]

Init == TransferInit /\ ClientInit /\ ServerInit /\ name \in [Clients -> Names]

-----------------------------------------------------------------------------
(* Reading and answering                                                   *)

(* read() on the socket.  At the end of the stream it returns 0, which the *)
(* server takes for a packet: serverRecvPkt is handled once more.          *)
Receive(c, cmd) ==
  /\ spc[c] = "serve"
  /\ \/ /\ toServer[c] # <<>>
        /\ \E r \in Reads(c) : /\ r.packet.cmd = cmd
                               /\ recv' = [recv EXCEPT ![c] = r.packet]
                               /\ toServer' = [toServer EXCEPT ![c] = r.left]
     \/ /\ toServer[c] = <<>> /\ Gone(c)
        /\ recv[c].cmd = cmd
        /\ UNCHANGED <<recv, toServer>>

NextSeq(c) == (seq[c] + 1) % SEQ_SIZE

(* sendCmdPkt, after which the server is at next.  A client that is gone   *)
(* answers the first packet with a reset, the second raises SIGPIPE.       *)
Answer(c, cmd, s, next) ==
  /\ seq' = [seq EXCEPT ![c] = s]
  /\ \/ /\ ~Gone(c)
        /\ toClient' = [toClient EXCEPT ![c] = Append(@, [cmd |-> cmd, seq |-> s])]
        /\ spc' = [spc EXCEPT ![c] = next]
        /\ UNCHANGED reset
     \/ /\ Gone(c) /\ c \notin reset
        /\ reset' = reset \cup {c}
        /\ spc' = [spc EXCEPT ![c] = next]
        /\ UNCHANGED toClient
     \/ /\ Gone(c) /\ c \in reset
        /\ spc' = [spc EXCEPT ![c] = "leaving"]
        /\ UNCHANGED <<toClient, reset>>

-----------------------------------------------------------------------------
(* The loop of the server                                                  *)

ClientHello(c) ==
  /\ Receive(c, "CLIENT_HELLO")
  /\ \E s \in FirstSeqs : Answer(c, "SERVER_HELLO", s, "serve")
  /\ UNCHANGED <<clientVars, backlog, closed, buffer, transferVars>>

(* A plausible slip: only the last packet is kept.                         *)
DataDeliveryReplaces(c) ==
  /\ Receive(c, "DATA_DELIVERY")
  /\ \/ /\ buffer' = [buffer EXCEPT ![c] = recv'[c].data]
        /\ Answer(c, "PKT_RECEIVED", NextSeq(c), "serve")
     \/ /\ "memory" \in Failures
        /\ buffer' = [buffer EXCEPT ![c] = <<>>]
        /\ Answer(c, "ERROR", NextSeq(c), "leaving")
  /\ UNCHANGED <<clientVars, backlog, closed, transferVars>>

DataDelivery(c) ==
  /\ Receive(c, "DATA_DELIVERY")
  /\ \/ /\ buffer' = [buffer EXCEPT ![c] = @ \o recv'[c].data]
        /\ Answer(c, "PKT_RECEIVED", NextSeq(c), "serve")
     \/ /\ "memory" \in Failures
        /\ buffer' = [buffer EXCEPT ![c] = <<>>]
        /\ Answer(c, "ERROR", NextSeq(c), "leaving")
  /\ UNCHANGED <<clientVars, backlog, closed, transferVars>>

NameIn(c) == recv'[c].data[1].of

(* A plausible slip: the error of write() is not looked at.                *)
DataStoreUnchecked(c) ==
  /\ Receive(c, "DATA_STORE")
  /\ \/ /\ disk' = [disk EXCEPT ![NameIn(c)] = Overwritten(@, buffer[c])]
        /\ Answer(c, "FILE_STORED", NextSeq(c), "leaving")
     \/ /\ "write" \in Failures
        /\ disk' = [disk EXCEPT ![NameIn(c)] = Created(@)]
        /\ Answer(c, "FILE_STORED", NextSeq(c), "leaving")
     \/ /\ "open" \in Failures
        /\ UNCHANGED disk
        /\ Answer(c, "STORED_ERROR", NextSeq(c), "leaving")
  /\ UNCHANGED <<clientVars, backlog, closed, buffer, name, told, torn>>

(* open, write and the answer.  A write that comes short is no error.      *)
DataStore(c) ==
  /\ Receive(c, "DATA_STORE")
  /\ \/ /\ disk' = [disk EXCEPT ![NameIn(c)] = Overwritten(@, buffer[c])]
        /\ Answer(c, "FILE_STORED", NextSeq(c), "leaving")
        /\ UNCHANGED torn
     \/ /\ "short" \in Failures
        /\ \E k \in 0 .. Len(buffer[c]) - 1 : WriteUpTo(c, NameIn(c), buffer[c], k)
        /\ Answer(c, "FILE_STORED", NextSeq(c), "leaving")
     \/ /\ "write" \in Failures
        /\ disk' = [disk EXCEPT ![NameIn(c)] = Created(@)]
        /\ Answer(c, "STORED_ERROR", NextSeq(c), "leaving")
        /\ UNCHANGED torn
     \/ /\ "open" \in Failures
        /\ UNCHANGED <<disk, torn>>
        /\ Answer(c, "STORED_ERROR", NextSeq(c), "leaving")
  /\ UNCHANGED <<clientVars, backlog, closed, buffer, name, told>>

(* The server is killed between its read() and its answer: before open(),  *)
(* or when write() has taken some blocks, or all of them.                  *)
KilledInStore(c) ==
  /\ c \in Mortal
  /\ Receive(c, "DATA_STORE")
  /\ \/ UNCHANGED <<disk, torn>>
     \/ \E k \in 0 .. Len(buffer[c]) : WriteUpTo(c, NameIn(c), buffer[c], k)
  /\ spc' = [spc EXCEPT ![c] = "leaving"]
  /\ UNCHANGED <<clientVars, backlog, toClient, reset, closed, buffer, seq, name, told>>

(* A plausible slip: the error does not end the loop.                      *)
ErrorReceivedGoesOn(c) ==
  /\ Receive(c, "ERROR")
  /\ UNCHANGED <<clientVars, backlog, toClient, reset, closed, spc, buffer, seq, transferVars>>

ErrorReceived(c) ==
  /\ Receive(c, "ERROR")
  /\ spc' = [spc EXCEPT ![c] = "leaving"]
  /\ UNCHANGED <<clientVars, backlog, toClient, reset, closed, buffer, seq, transferVars>>

(* "Unrecognized command"                                                  *)
Unrecognized(c) ==
  /\ Receive(c, "rest")
  /\ UNCHANGED <<clientVars, backlog, toClient, reset, closed, spc, buffer, seq, transferVars>>

ReadFails(c) ==
  /\ spc[c] = "serve"
  /\ toServer[c] = <<>> /\ c \in reset
  /\ spc' = [spc EXCEPT ![c] = "leaving"]
  /\ UNCHANGED <<clientVars, backlog, netVars, closed, recv, buffer, seq, transferVars>>

(* The server is killed.  Before its first answer the client would find an *)
(* uninitialised packet at the end of the stream: that is left out.        *)
ServerKilled(c) ==
  /\ c \in Mortal
  /\ spc[c] = "serve"
  /\ got[c].cmd # "none"
  /\ spc' = [spc EXCEPT ![c] = "leaving"]
  /\ UNCHANGED <<clientVars, backlog, netVars, closed, recv, buffer, seq, transferVars>>

ServerStep(c) ==
  \/ ClientHello(c) \/ DataDelivery(c) \/ DataStore(c) \/ ErrorReceived(c)
  \/ Unrecognized(c) \/ ReadFails(c)

-----------------------------------------------------------------------------
(* The server of p1: one connection, then the end                          *)

Accept(c) ==
  /\ \A d \in Clients : spc[d] = "none"
  /\ backlog # <<>> /\ c = Head(backlog)
  /\ spc' = [spc EXCEPT ![c] = "serve"]
  /\ backlog' = Tail(backlog)
  /\ UNCHANGED <<clientVars, netVars, closed, recv, buffer, seq, transferVars>>

Waiting == {backlog[i] : i \in DOMAIN backlog}

(* close(clientSock), close(serverSock): connections that have not been    *)
(* accepted are reset.                                                     *)
ServerEnds(c) ==
  /\ spc[c] = "leaving"
  /\ spc' = [spc EXCEPT ![c] = "exited"]
  /\ closed' = closed \cup {c} \cup Waiting
  /\ reset' = ResetIfUnread(c, toServer[c]) \cup Waiting
  /\ backlog' = <<>>
  /\ UNCHANGED <<clientVars, toServer, toClient, recv, buffer, seq, transferVars>>

Listening == \A d \in Clients : spc[d] # "exited"

(* connect() is refused.                                                   *)
Refused(c) ==
  /\ cpc[c] = "start" /\ ~Listening
  /\ cpc' = [cpc EXCEPT ![c] = "exited"]
  /\ UNCHANGED <<got, pos, backlog, netVars, closed, transferVars, serverVars>>

Client(c) ==
  /\ ClientLoop(c) \/ (Listening /\ Connect(c))
  /\ UNCHANGED serverVars

ClientKilled(c) ==
  /\ c \in Mortal /\ cpc[c] = "read"
  /\ Kill({c})
  /\ UNCHANGED serverVars

Next ==
  \E c \in Clients :
     \/ Client(c) \/ Refused(c) \/ ClientKilled(c)
     \/ Accept(c) \/ ServerStep(c) \/ ServerKilled(c) \/ KilledInStore(c) \/ ServerEnds(c)

Fairness ==
  \A c \in Clients :
     /\ WF_transferAll(Client(c) \/ Refused(c))
     /\ WF_transferAll(Accept(c) \/ ServerStep(c) \/ ServerEnds(c))

Spec == Init /\ [][Next]_transferAll /\ Fairness

-----------------------------------------------------------------------------
(* Properties                                                              *)

(* Every variable has its type.                                            *)
TypeOK ==
  /\ name \in [Clients -> Names \cup {NoName}]
  /\ disk \in [Names -> Seq(Block)]
  /\ told \in [Clients -> {"nothing", "stored", "failed"}]
  /\ torn \subseteq Clients
  /\ ClientTypeOK
  /\ spc \in [Clients -> {"none", "serve", "leaving", "exited"}]
  /\ recv \in [Clients -> [cmd : Commands \cup {"rest", "none"}, data : Seq(Block)]]
  /\ buffer \in [Clients -> Seq(Block)]
  /\ seq \in [Clients -> 0 .. SEQ_SIZE - 1]

(* Stop and wait: while client and server talk to each other, exactly one  *)
(* packet or answer is under way between them.                             *)
OneAnswerDue ==
  \A c \in Clients \ Cut :
     cpc[c] = "read" /\ spc[c] = "serve" => Len(toServer[c]) + Len(toClient[c]) = 1

(* While the client is there, what the server has in its buffer and what   *)
(* is on the way to it are the blocks the client has read from its file,   *)
(* once each and in order.                                                 *)
InFlight(c) == IF toServer[c] # <<>> /\ toServer[c][1].cmd = "DATA_DELIVERY"
               THEN toServer[c][1].data ELSE <<>>

BufferMatches ==
  \A c \in Clients \ Cut :
     cpc[c] = "read" /\ spc[c] = "serve" =>
        buffer[c] \o InFlight(c) = SubSeq(File(name[c]), 1, pos[c])

(* What is under way on the connection of c: one packet, before it perhaps *)
(* the rest of one that was cut, or one answer.  There is nothing when the *)
(* client is not waiting, or will be left without an answer.               *)
Asked(c, p) == toServer[c] = <<p>> \/ (c \in Cut /\ toServer[c] = <<Rest, p>>)
Idle(c)     == toServer[c] = <<>> \/ (c \in Cut /\ toServer[c] = <<Rest>>)

Asking(c)   == \E i \in DOMAIN toServer[c] : /\ IsRequest(c, toServer[c][i])
                                             /\ Asked(c, toServer[c][i])

Exchange(c) ==
  \/ Asking(c) /\ toClient[c] = <<>> /\ cpc[c] \in {"read", "killed"}
  \/ Idle(c) /\ Len(toClient[c]) = 1 /\ cpc[c] \in {"read", "killed"}
  \/ /\ Idle(c) /\ toClient[c] = <<>>
     /\ cpc[c] = "read" => c \in Cut \cup closed \/ spc[c] \in {"leaving", "exited"}

(* Up to when the two programs agree on the data, what tells their control *)
(* points apart, and when the name of the file may be sent.                *)
Together(c) ==
  /\ c \notin Cut \cup closed /\ spc[c] \in {"none", "serve"}
  /\ cpc[c] \in {"start", "read"} \/ toServer[c] # <<>>

Connection(c) ==
  /\ name[c] \in Names /\ pos[c] <= Size[name[c]]
  /\ cpc[c] = "start" => /\ toServer[c] = <<>> /\ toClient[c] = <<>>
                         /\ pos[c] = 0 /\ buffer[c] = <<>>
  /\ cpc[c] \in {"start", "read"} => got[c].cmd \in {"none", "SERVER_HELLO", "PKT_RECEIVED"}
  /\ told[c] # "nothing" => cpc[c] = "exited"
  /\ spc[c] = "serve" => c \notin closed
  /\ spc[c] \in {"none", "serve"} => recv[c].cmd # "DATA_STORE"
  /\ Together(c) => buffer[c] \o InFlight(c) = SubSeq(File(name[c]), 1, pos[c])
  /\ \A i \in DOMAIN toServer[c] : toServer[c][i].cmd = "DATA_STORE" => NoMore(c)

(* "Stored" is true from the moment the answer is written.                 *)
Connections ==
  \A c \in Clients :
     /\ Exchange(c) /\ Connection(c)
     /\ \A i \in DOMAIN toClient[c] : toClient[c][i].cmd = "FILE_STORED" => StoredFor(c)

(* The server takes one connection, and closes others only when it ends.   *)
OneServed ==
  /\ \A c, d \in Clients : spc[c] # "none" /\ spc[d] # "none" => c = d
  /\ closed # {} => \E c \in Clients : spc[c] = "exited"

(* The types, and stop and wait: whatever fails or is handled once more at *)
(* the end of a stream, neither end ever has two packets to answer; with   *)
(* what makes this inductive.                                              *)
Inv == TypeOK /\ OneAnswerDue /\ Connections /\ OneServed

(* Every client that has connected comes to an end, unless the packets of  *)
(* a client were cut and its server waits for the rest.                    *)
EveryTransferEnds ==
  \A c \in Clients :
     cpc[c] = "read" ~> Gone(c) \/ \E d \in Cut : recv[d] = Rest

(* The transfer keeps the promises of TransferService.                     *)
ImplementsTransferService == TransferSafety
=============================================================================
