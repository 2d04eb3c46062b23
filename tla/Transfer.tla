------------------------------ MODULE Transfer ------------------------------
(***************************************************************************)
(* The client of p1 (client.c) and the two streams of its connection.  The *)
(* thread clientSendFile of p2 is the same loop for a file of one block.   *)
(* FileTransfer, MultiServer and SelectServer add the servers.             *)
(*                                                                         *)
(* One read and what is done with the packet is a step.  A packet is data, *)
(* and an answer a command with the sequence number of the server.         *)
(***************************************************************************)
EXTENDS TransferService, FiniteSets

CONSTANTS Mortal,      \* clients that may be killed, or their servers
          Failures,    \* the calls that may fail
          FirstSeqs,   \* what rand() may return for the sequence number
          SEQ_SIZE     \* sequence numbers are 0 .. SEQ_SIZE - 1 (2^16)

ASSUME ClientAssumption ==
  /\ Mortal \subseteq Clients
  /\ Failures \subseteq {"file", "memory", "open", "write", "short", "fork", "thread"}
  /\ SEQ_SIZE \in Nat \ {0, 1}
  /\ FirstSeqs \subseteq 0 .. SEQ_SIZE - 2 /\ FirstSeqs # {}

VARIABLES cpc,        \* control point of every client
          got,        \* clientRecvPkt: the last answer that was read
          pos,        \* blocks read from the file
          backlog,    \* connections waiting for accept
          toServer, toClient,
          closed,     \* connections whose server end is closed
          reset       \* connections with one end closed, and the other told

clientVars == <<cpc, got, pos>>
netVars    == <<toServer, toClient, reset>>

Commands == {"CLIENT_HELLO", "DATA_DELIVERY", "DATA_STORE", "ERROR"}
Answers  == {"SERVER_HELLO", "PKT_RECEIVED", "FILE_STORED", "STORED_ERROR", "ERROR"}

(* Data that was cut, and what is left of it in the stream: its first      *)
(* bytes stand where the command should be.                                *)
Garbled == [of |-> NoName, no |-> 1]
Packet(cmd, data) == [cmd |-> cmd, data |-> data]
Rest == Packet("rest", <<>>)

NoAnswer == [cmd |-> "none", seq |-> 0]

Gone(c) == cpc[c] \in {"exited", "killed"}

ClientInit ==
  /\ cpc = [c \in Clients |-> "start"]
  /\ got = [c \in Clients |-> NoAnswer]
  /\ pos = [c \in Clients |-> 0]
  /\ backlog = <<>>
  /\ toServer = [c \in Clients |-> <<>>]
  /\ toClient = [c \in Clients |-> <<>>]
  /\ closed = {} /\ reset = {}

-----------------------------------------------------------------------------
(* Sockets                                                                 *)

(* Closing an end with unread data resets the connection.                  *)
ResetIfUnread(c, stream) == IF stream = <<>> THEN reset ELSE reset \cup {c}

(* What one read of the server may return from a stream, and what it       *)
(* leaves: a packet of full size may be cut, and a read that begins with   *)
(* the rest of one goes on into the next.                                  *)
Cuttable(p) == p.cmd = "DATA_DELIVERY" /\ p.data # <<>>
LeftOf(p)   == IF Cuttable(p) THEN <<Rest>> ELSE <<>>

Reads(c) ==
  LET s == toServer[c]
  IN  IF Head(s) = Rest
      THEN {[packet |-> Rest,
             left   |-> IF Len(s) = 1 THEN <<>> ELSE LeftOf(s[2]) \o Tail(Tail(s))]}
      ELSE {[packet |-> Head(s), left |-> Tail(s)]}
           \cup {[packet |-> [Head(s) EXCEPT !.data = <<Garbled>>],
                  left   |-> <<Rest>> \o Tail(s)] : x \in {y \in {c} \cap Cut : Cuttable(Head(s))}}

(* sendDataPkt.  The first write after the server end was closed is        *)
(* answered by a reset, the next one raises SIGPIPE.                       *)
Send(c, p) ==
  \/ /\ c \notin closed
     /\ toServer' = [toServer EXCEPT ![c] = Append(@, p)]
     /\ UNCHANGED <<cpc, reset>>
  \/ /\ c \in closed \ reset
     /\ reset' = reset \cup {c}
     /\ UNCHANGED <<cpc, toServer>>
  \/ /\ c \in closed \cap reset
     /\ cpc' = [cpc EXCEPT ![c] = "killed"]
     /\ UNCHANGED <<toServer, reset>>

-----------------------------------------------------------------------------
(* The client                                                              *)

(* connect() and the CLIENT_HELLO.                                         *)
Connect(c) ==
  /\ cpc[c] = "start"
  /\ cpc' = [cpc EXCEPT ![c] = "read"]
  /\ backlog' = Append(backlog, c)
  /\ toServer' = [toServer EXCEPT ![c] = <<Packet("CLIENT_HELLO", <<>>)>>]
  /\ UNCHANGED <<got, pos, toClient, closed, reset, transferVars>>

(* read() has returned this answer.  At the end of the stream it returns 0 *)
(* and the answer that was read before is still in clientRecvPkt.          *)
Reply(c, cmd) ==
  /\ cpc[c] = "read"
  /\ \/ /\ toClient[c] # <<>>
        /\ Head(toClient[c]).cmd = cmd
        /\ got' = [got EXCEPT ![c] = Head(toClient[c])]
        /\ toClient' = [toClient EXCEPT ![c] = Tail(@)]
     \/ /\ toClient[c] = <<>> /\ c \in closed
        /\ got[c].cmd = cmd
        /\ UNCHANGED <<got, toClient>>

(* read(fd) returns the next block, or nothing at the end of the file.     *)
NextBlock(c) == SubSeq(File(name[c]), pos[c] + 1, pos[c] + 1)
NoMore(c)    == pos[c] >= Size[name[c]]

SendBlock(c) ==
  /\ Send(c, Packet("DATA_DELIVERY", IF NoMore(c) THEN <<>> ELSE NextBlock(c)))
  /\ pos' = [pos EXCEPT ![c] = IF NoMore(c) THEN @ ELSE @ + 1]

(* A plausible slip: no break, the packet is sent after the ERROR.         *)
FileErrorGoesOn(c) ==
  /\ "file" \in Failures /\ c \notin closed
  /\ toServer' = [toServer EXCEPT ![c] = @ \o <<Packet("ERROR", <<>>), Packet("DATA_DELIVERY", <<>>)>>]
  /\ UNCHANGED <<cpc, reset, pos>>

(* "Cannot read the file": break leaves the switch, not the loop.          *)
FileError(c) ==
  /\ "file" \in Failures
  /\ Send(c, Packet("ERROR", <<>>))
  /\ UNCHANGED pos

ServerHello(c) ==
  /\ Reply(c, "SERVER_HELLO")
  /\ SendBlock(c) \/ FileError(c)
  /\ UNCHANGED <<backlog, closed, transferVars>>

(* A plausible slip: -1 is taken for the end of the file.                  *)
PktReceivedLax(c) ==
  /\ Reply(c, "PKT_RECEIVED")
  /\ \/ ~NoMore(c) /\ SendBlock(c)
     \/ /\ NoMore(c) \/ "file" \in Failures
        /\ Send(c, Packet("DATA_STORE", <<[of |-> name[c], no |-> 0]>>))
        /\ UNCHANGED pos
  /\ UNCHANGED <<backlog, closed, transferVars>>

PktReceived(c) ==
  /\ Reply(c, "PKT_RECEIVED")
  /\ \/ ~NoMore(c) /\ SendBlock(c)
     \/ FileError(c)
     \/ /\ NoMore(c)
        /\ Send(c, Packet("DATA_STORE", <<[of |-> name[c], no |-> 0]>>))
        /\ UNCHANGED pos
  /\ UNCHANGED <<backlog, closed, transferVars>>

(* FILE_STORED, STORED_ERROR or ERROR: the client says so and ends.        *)
Told(c, cmd, what) ==
  /\ Reply(c, cmd)
  /\ told' = [told EXCEPT ![c] = what]
  /\ cpc' = [cpc EXCEPT ![c] = "exited"]
  /\ UNCHANGED <<pos, backlog, toServer, closed, reset, name, disk, torn>>

(* read() fails on a connection that was reset; the ERROR that the client  *)
(* then sends raises SIGPIPE.                                              *)
ReplyFails(c) ==
  /\ cpc[c] = "read"
  /\ toClient[c] = <<>> /\ c \in reset
  /\ cpc' = [cpc EXCEPT ![c] = "killed"]
  /\ UNCHANGED <<got, pos, backlog, netVars, closed, transferVars>>

ClientLoop(c) ==
  \/ ServerHello(c) \/ PktReceived(c) \/ ReplyFails(c)
  \/ Told(c, "FILE_STORED", "stored")
  \/ Told(c, "STORED_ERROR", "failed") \/ Told(c, "ERROR", "failed")

(* write() of the data of c takes only its first k blocks.                 *)
WriteUpTo(c, n, new, k) ==
  /\ disk' = [disk EXCEPT ![n] = Overwritten(@, SubSeq(new, 1, k))]
  /\ torn' = torn \cup {c}

(* The clients of S are killed; the kernel closes their sockets.           *)
Kill(S) ==
  /\ cpc' = [c \in Clients |-> IF c \in S THEN "killed" ELSE cpc[c]]
  /\ reset' = reset \cup {c \in S : toClient[c] # <<>>}
  /\ UNCHANGED <<got, pos, backlog, toServer, toClient, closed, transferVars>>

-----------------------------------------------------------------------------
(* Properties of all servers                                               *)

ClientTypeOK ==
  /\ cpc \in [Clients -> {"start", "read", "exited", "killed"}]
  /\ got \in [Clients -> [cmd : Answers \cup {"none"}, seq : 0 .. SEQ_SIZE - 1]]
  /\ pos \in [Clients -> Nat]
  /\ backlog \in Seq(Clients)
  /\ toServer \in [Clients -> Seq([cmd : Commands \cup {"rest"}, data : Seq(Block)])]
  /\ toClient \in [Clients -> Seq([cmd : Answers, seq : 0 .. SEQ_SIZE - 1])]
  /\ closed \subseteq Clients
  /\ reset \subseteq Clients

(* What a client sends.                                                    *)
IsRequest(c, p) ==
  \/ p.cmd \in {"CLIENT_HELLO", "ERROR"} /\ p.data = <<>>
  \/ p.cmd = "DATA_DELIVERY"
  \/ p = Packet("DATA_STORE", <<[of |-> name[c], no |-> 0]>>)

(* The answers a client reads are numbered one after the other.            *)
SeqConsecutive ==
  [][\A c \in Clients :
        got'[c] # got[c] /\ got[c].cmd # "none" =>
           got'[c].seq = (got[c].seq + 1) % SEQ_SIZE]_got
=============================================================================
