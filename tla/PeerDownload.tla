---------------------------- MODULE PeerDownload ----------------------------
(***************************************************************************)
(* Download and serving of files in p4.  A child is a process with two     *)
(* threads: main(), which looks up a file at its super node and gets it    *)
(* from a peer (child.c), and childServer, which serves the files of       *)
(* ./data to the peers (child_lib.c).  What a super node answers is taken  *)
(* from SuperOverlay: the info of a file that some child has registered,   *)
(* whose name is the one searched for or begins with it.  A file is a      *)
(* sequence of units, PACKET of them fill a packet.                        *)
(***************************************************************************)
EXTENDS Integers, Sequences, FiniteSets

CONSTANTS Children, Names,
          Begins,       \* <<f, g>>: the name g begins with the name f
          Dests,        \* destination_file_name of a command
          Units,        \* what files consist of
          Data,         \* ./data of every child when it registers
          Versions,     \* contents a file of a child may be changed to
          Gets,         \* commands "get" entered at each child
          Mortal,       \* children that may be killed
          Failures,     \* subset of {"open", "store"}
          Cut,          \* children whose read() may return part of a packet
          PACKET,       \* DATA_SIZE in units
          SockBuf,      \* packets that fit into the buffers of a connection
          FD_SETSIZE

Absent     == <<"absent">>
Unreadable == <<"unreadable">>     \* a directory: open() succeeds, read() fails
DirSize    == 2
Garbage    == "garbage"            \* what malloc() has left in fileBuffer

(* st_size, which is what a child registers.                               *)
SizeOf(f) == IF f = Unreadable THEN DirSize ELSE Len(f)

Files == Seq(Units) \cup {Absent, Unreadable}

Conns == UNION {{c} \X (1 .. Gets[c]) : c \in Children}

None   == "none"
NoConn == <<None, 0>>

(* Where what is in ./download is from: the first len units are meant to   *)
(* be those of file name of child peer.                                    *)
NoSource == [peer |-> None, name |-> None, len |-> 0]

(* strncmp() over the length of the name that is searched for.             *)
Matches(f, g) == f = g \/ <<f, g>> \in Begins

ASSUME DownloadAssumption ==
  /\ Data \in [Children -> [Names -> Files]]
  /\ \A c \in Children, n \in Names : Versions[c][n] \subseteq Files
  /\ {"absent", "unreadable"} \cap Units = {} /\ None \notin Children \cup Names
  /\ Gets \in [Children -> Nat] /\ PACKET \in Nat \ {0}
  /\ SockBuf \in Nat \ {0} /\ FD_SETSIZE \in Nat \ {0}
  /\ Begins \subseteq Names \X Names
  /\ Mortal \subseteq Children /\ Cut \subseteq Children
  /\ Failures \subseteq {"open", "store"}

VARIABLES
  dpc,       \* control point of main() of every child
  gets,      \* commands entered, and so the number of the current connection
  want,      \* reqFile
  dest,      \* destFile
  peer, size,   \* the answer of the super node: peerIp and peerPort, fileSize
  stored,    \* the bytes_stored units in fileBuffer
  last,      \* fileResSuccessPkt
  cut,       \* ghost: connections of which a packet was read in parts
  download,  \* ./download of every child
  from,      \* ghost: where that is from

  lpc,       \* control point of childServer of every child
  serving,   \* the connection it writes to
  rest,      \* what is left to read of the file it sends
  data,      \* ./data of every child
  changed,   \* files that are not what was registered

  backlog,   \* connections to every child that wait for accept
  place,     \* where the server end of a connection is
  at,        \* the child it was made to
  request,   \* the FILE_REQ it has not read, or None
  inbox,     \* packets on their way to the client
  reset      \* connections that were reset

mainVars   == <<dpc, gets, want, dest, peer, size, stored, last, cut, download, from>>
serverVars == <<lpc, serving, rest>>
fileVars   == <<data, changed>>
netVars    == <<backlog, place, at, request, inbox, reset>>
vars       == <<mainVars, serverVars, fileVars, netVars>>

Fail     == [type |-> "FILE_RES_FAIL", data |-> <<>>]
Success(d) == [type |-> "FILE_RES_SUCCESS", data |-> d]
NoPacket == [type |-> "uninitialised", data |-> <<>>]
BadSize  == [type |-> "FILE_RES_SUCCESS", data |-> Unreadable]   \* totalLen is 11
Rest     == [type |-> "rest", data |-> <<>>]     \* what is left of a packet
IsData(p) == p.type = "FILE_RES_SUCCESS" /\ p # BadSize

Init ==
  /\ dpc = [c \in Children |-> "register"]
  /\ gets = [c \in Children |-> 0]
  /\ want = [c \in Children |-> None]
  /\ dest = [c \in Children |-> None]
  /\ peer = [c \in Children |-> None]
  /\ size = [c \in Children |-> 0]
  /\ stored = [c \in Children |-> <<>>]
  /\ last = [c \in Children |-> NoPacket]
  /\ cut = {}
  /\ download = [c \in Children |-> [d \in Dests |-> Absent]]
  /\ from = [c \in Children |-> [d \in Dests |-> NoSource]]
  /\ lpc = [c \in Children |-> "down"]
  /\ serving = [c \in Children |-> NoConn]
  /\ rest = [c \in Children |-> <<>>]
  /\ data = Data /\ changed = {}
  /\ backlog = [c \in Children |-> <<>>]
  /\ place = [k \in Conns |-> "none"]
  /\ at = [k \in Conns |-> None]
  /\ request = [k \in Conns |-> None]
  /\ inbox = [k \in Conns |-> <<>>]
  /\ reset = {}

Dead(c) == dpc[c] = "dead"
Conn(c) == <<c, gets[c]>>

-----------------------------------------------------------------------------
(* main(): registration and the thread                                     *)

(* FILE_INFO is acknowledged: from now on the infos are given out.         *)
Register(c) ==
  /\ dpc[c] = "register"
  /\ dpc' = [dpc EXCEPT ![c] = "registered"]
  /\ UNCHANGED <<gets, want, dest, peer, size, stored, last, cut, download, from, serverVars, fileVars, netVars>>

CreateThread(c) ==
  /\ dpc[c] = "registered"
  /\ dpc' = [dpc EXCEPT ![c] = "prompt"]
  /\ lpc' = [lpc EXCEPT ![c] = "starting"]
  /\ UNCHANGED <<gets, want, dest, peer, size, stored, last, cut, download, from, serving, rest, fileVars, netVars>>

-----------------------------------------------------------------------------
(* main(): get                                                             *)

(* The user enters a command.  The answer of the super node has address    *)
(* and size of a file that matches, but not its name: it is the name that  *)
(* the user has entered that will be asked for.                            *)
Get(c) ==
  /\ dpc[c] = "prompt" /\ gets[c] < Gets[c]
  /\ gets' = [gets EXCEPT ![c] = @ + 1]
  /\ \E n, m \in Names, p \in Children :
        /\ dpc[p] # "register" /\ Matches(n, m) /\ Data[p][m] # Absent
        /\ want' = [want EXCEPT ![c] = n]
        /\ peer' = [peer EXCEPT ![c] = p]
        /\ size' = [size EXCEPT ![c] = SizeOf(Data[p][m])]
  /\ \E d \in Dests : dest' = [dest EXCEPT ![c] = d]
  /\ dpc' = [dpc EXCEPT ![c] = "connect"]
  /\ UNCHANGED <<stored, last, cut, download, from, serverVars, fileVars, netVars>>

Listening(p) == lpc[p] \in {"select", "send", "corrupt"}

(* connect, FILE_REQ.                                                      *)
ConnectPeer(c) ==
  LET p == peer[c]
  IN  /\ dpc[c] = "connect"
      /\ \/ /\ Listening(p)
            /\ dpc' = [dpc EXCEPT ![c] = "receive"]
            /\ backlog' = [backlog EXCEPT ![p] = Append(@, Conn(c))]
            /\ place' = [place EXCEPT ![Conn(c)] = "backlog"]
            /\ at' = [at EXCEPT ![Conn(c)] = p]
            /\ request' = [request EXCEPT ![Conn(c)] = want[c]]
         \/ /\ ~Listening(p)
            /\ dpc' = [dpc EXCEPT ![c] = "prompt"]
            /\ UNCHANGED <<backlog, place, at, request>>
      /\ stored' = [stored EXCEPT ![c] = <<>>]
      /\ last' = [last EXCEPT ![c] = NoPacket]
      /\ UNCHANGED <<gets, want, dest, peer, size, cut, download, from, serverVars, fileVars, inbox, reset>>

(* A packet with more than fileBuffer has room for, or of negative size,   *)
(* goes beyond the buffer: nothing can be said of this process any more.   *)
TooMuch(c, p) == p = BadSize \/ Len(stored[c]) + Len(p.data) > size[c]

(* A plausible slip: the sizes are not compared before the next read.      *)
TakeReadsOn(c, p) ==
  /\ p.type = "FILE_RES_SUCCESS" /\ ~TooMuch(c, p)
  /\ stored' = [stored EXCEPT ![c] = @ \o p.data]
  /\ UNCHANGED <<dpc, lpc>>

(* A plausible slip: FILE_RES_FAIL ends the loop like the last packet.     *)
TakeIgnoresFail(c, p) ==
  \/ /\ p.type = "FILE_RES_SUCCESS" /\ ~TooMuch(c, p)
     /\ stored' = [stored EXCEPT ![c] = @ \o p.data]
     /\ dpc' = [dpc EXCEPT ![c] = IF Len(stored'[c]) = size[c] THEN "store" ELSE @]
     /\ UNCHANGED lpc
  \/ /\ p.type # "FILE_RES_SUCCESS"
     /\ dpc' = [dpc EXCEPT ![c] = "store"]
     /\ UNCHANGED <<stored, lpc>>

(* What is done with the packet that was read, or that is still there.     *)
Take(c, p) ==
  \/ /\ p.type = "FILE_RES_SUCCESS" /\ ~TooMuch(c, p)
     /\ stored' = [stored EXCEPT ![c] = @ \o p.data]
     /\ dpc' = [dpc EXCEPT ![c] = IF Len(stored'[c]) = size[c] THEN "store" ELSE @]
     /\ UNCHANGED lpc
  \/ /\ p.type = "FILE_RES_SUCCESS" /\ TooMuch(c, p)
     /\ dpc' = [dpc EXCEPT ![c] = "corrupt"]
     /\ lpc' = [lpc EXCEPT ![c] = "corrupt"]
     /\ UNCHANGED stored
  \/ /\ p.type # "FILE_RES_SUCCESS"
     /\ dpc' = [dpc EXCEPT ![c] = "prompt"]
     /\ UNCHANGED <<stored, lpc>>

Closed(k) == place[k] = "closed"

(* What read() may leave in fileResSuccessPkt.                             *)
Noise(n) == [i \in 1 .. n |-> Garbage]
Garbled  == {NoPacket, BadSize} \cup {Success(Noise(n)) : n \in 0 .. PACKET}

(* A packet that comes as it was sent.  One of negative size lacks the     *)
(* last byte of its type, for which anything may stand in the buffer.      *)
Whole(q) ==
  [packet : IF Head(q) = BadSize THEN {BadSize, NoPacket} ELSE {Head(q)}, left : {Tail(q)}, whole : {TRUE}]

(* Only the beginning of a packet, with its header: its size is believed,  *)
(* and the data ends in whatever the buffer holds.                         *)
Beginning(q) ==
  [packet : {Success(Noise(Len(Head(q).data)))}, left : {<<Rest>> \o Tail(q)}, whole : {FALSE}]

(* The remainder of a packet has no header.  The read may go on into the   *)
(* next packet and end there.                                              *)
Remainder(q) ==
  [packet : Garbled,
   left   : {Tail(q)} \cup IF Len(q) = 1 THEN {} ELSE {<<Rest>> \o Tail(Tail(q))},
   whole  : {FALSE}]

(* What one read() may return.                                             *)
Reads(c) ==
  LET q == inbox[Conn(c)]
  IN  IF Head(q) = Rest THEN Remainder(q)
      ELSE Whole(q) \cup IF c \in Cut /\ IsData(Head(q)) THEN Beginning(q) ELSE {}

(* read() returns a packet, or what it takes for one.                      *)
ReadPacket(c) ==
  /\ dpc[c] = "receive" /\ inbox[Conn(c)] # <<>>
  /\ \E r \in Reads(c) :
        /\ last' = [last EXCEPT ![c] = r.packet]
        /\ inbox' = [inbox EXCEPT ![Conn(c)] = r.left]
        /\ cut' = IF r.whole THEN cut ELSE cut \cup {Conn(c)}
        /\ Take(c, r.packet)
  /\ UNCHANGED <<gets, want, dest, peer, size, download, from, serving, rest, fileVars, backlog, place, at, request, reset>>

(* read() returns 0, and the last packet is taken once more.               *)
ReadEnd(c) ==
  /\ dpc[c] = "receive" /\ inbox[Conn(c)] = <<>>
  /\ Closed(Conn(c)) /\ Conn(c) \notin reset
  /\ Take(c, last[c])
  /\ UNCHANGED <<gets, want, dest, peer, size, last, cut, download, from, serving, rest, fileVars, netVars>>

(* read() fails: break leaves the loop, and the file is stored.            *)
ReadFails(c) ==
  /\ dpc[c] = "receive" /\ inbox[Conn(c)] = <<>>
  /\ Conn(c) \in reset
  /\ dpc' = [dpc EXCEPT ![c] = "store"]
  /\ UNCHANGED <<gets, want, dest, peer, size, stored, last, cut, download, from, serverVars, fileVars, netVars>>

(* fileSize units of fileBuffer are written over what is in the file.      *)
Filled(c) == stored[c] \o Noise(size[c] - Len(stored[c]))
After(old, new) ==
  IF old = Absent THEN new ELSE new \o SubSeq(old, Len(new) + 1, Len(old))

(* How many units write() stores: it may fail, or come to a full disk on   *)
(* its way, which is not looked at.                                        *)
Written(c) == IF "store" \in Failures THEN 0 .. size[c] ELSE {size[c]}

Store(c) ==
  /\ dpc[c] = "store"
  /\ dpc' = [dpc EXCEPT ![c] = "prompt"]
  /\ \/ \E k \in Written(c) :
           /\ download' = [download EXCEPT ![c][dest[c]] = After(@, SubSeq(Filled(c), 1, k))]
           /\ from' = [from EXCEPT ![c][dest[c]] =
                          IF Conn(c) \in cut THEN NoSource
                          ELSE [peer |-> peer[c], name |-> want[c], len |-> k]]
     \/ "store" \in Failures /\ UNCHANGED <<download, from>>
  /\ UNCHANGED <<gets, want, dest, peer, size, stored, last, cut, serverVars, fileVars, netVars>>

-----------------------------------------------------------------------------
(* childServer                                                             *)

Listen(p) ==
  /\ lpc[p] = "starting"
  /\ lpc' = [lpc EXCEPT ![p] = "select"]
  /\ UNCHANGED <<mainVars, serving, rest, fileVars, netVars>>

InSlots(p) == {k \in Conns : at[k] = p /\ place[k] = "slot"}

Accept(p) ==
  /\ lpc[p] = "select" /\ backlog[p] # <<>>
  /\ backlog' = [backlog EXCEPT ![p] = Tail(@)]
  /\ place' = [place EXCEPT ![Head(backlog[p])] =
                  IF Cardinality(InSlots(p)) < FD_SETSIZE THEN "slot" ELSE "forgotten"]
  /\ UNCHANGED <<mainVars, serverVars, fileVars, at, request, inbox, reset>>

(* nread == 0                                                              *)
CloseSlot(p) ==
  /\ lpc[p] = "select"
  /\ \E k \in InSlots(p) :
        /\ request[k] = None /\ Dead(k[1])
        /\ place' = [place EXCEPT ![k] = "closed"]
  /\ UNCHANGED <<mainVars, serverVars, fileVars, backlog, at, request, inbox, reset>>

(* write() on a connection: it waits for room, and raises SIGPIPE when the *)
(* client has answered an earlier packet with a reset.                     *)
Write(k, pkt) ==
  /\ IF Dead(k[1]) THEN UNCHANGED inbox /\ reset' = reset \cup {k}
                   ELSE /\ Len(inbox[k]) < SockBuf
                        /\ inbox' = [inbox EXCEPT ![k] = Append(@, pkt)]
                        /\ UNCHANGED reset
SigPipe(k) == Dead(k[1]) /\ k \in reset

(* The kernel closes the sockets of a child that has died.                 *)
Dies(p) ==
  LET ends == {k \in Conns : at[k] = p /\ place[k] # "none"}
      mine == {k \in Conns : k[1] = p /\ place[k] # "none"}
  IN  /\ dpc' = [dpc EXCEPT ![p] = "dead"]
      /\ lpc' = [lpc EXCEPT ![p] = "dead"]
      /\ backlog' = [backlog EXCEPT ![p] = <<>>]
      /\ place' = [k \in Conns |-> IF k \in ends THEN "closed" ELSE place[k]]
      /\ reset' = reset \cup {k \in ends : request[k] # None} \cup {k \in mine : inbox[k] # <<>>}
      /\ UNCHANGED <<gets, want, dest, peer, size, stored, last, cut, download, from, serving, rest, fileVars, at, request, inbox>>

(* handleClientRequest: FILE_REQ                                           *)
HandleRequest(p, k) ==
  LET f == data[p][request[k]]
  IN  /\ lpc[p] = "select"
      /\ k \in InSlots(p) /\ request[k] # None
      /\ request' = [request EXCEPT ![k] = None]
      /\ \/ /\ f = Absent \/ "open" \in Failures
            /\ Write(k, Fail)
            /\ UNCHANGED serverVars
         \/ /\ f # Absent
            /\ lpc' = [lpc EXCEPT ![p] = "send"]
            /\ serving' = [serving EXCEPT ![p] = k]
            /\ rest' = [rest EXCEPT ![p] = f]
            /\ UNCHANGED <<inbox, reset>>
      /\ UNCHANGED <<mainVars, fileVars, backlog, place, at>>

Chunk(s) == SubSeq(s, 1, IF Len(s) < PACKET THEN Len(s) ELSE PACKET)

(* A plausible slip: read() fills the buffer again from the beginning.     *)
AfterChunkRepeats(s) == IF Len(s) <= PACKET THEN <<>> ELSE Chunk(s)

AfterChunk(s) == SubSeq(s, Len(Chunk(s)) + 1, Len(s))

(* read() and write(); -1 is not the end of the file, and the loop never   *)
(* ends.                                                                   *)
SendPacket(p) ==
  LET k == serving[p]
  IN  /\ lpc[p] = "send" /\ ~SigPipe(k)
      /\ rest[p] # <<>>
      /\ IF rest[p] = Unreadable
         THEN Write(k, BadSize) /\ UNCHANGED rest
         ELSE Write(k, Success(Chunk(rest[p]))) /\ rest' = [rest EXCEPT ![p] = AfterChunk(@)]
      /\ UNCHANGED <<mainVars, lpc, serving, fileVars, backlog, place, at, request>>

EndOfFile(p) ==
  /\ lpc[p] = "send" /\ rest[p] = <<>>
  /\ lpc' = [lpc EXCEPT ![p] = "select"]
  /\ serving' = [serving EXCEPT ![p] = NoConn]
  /\ UNCHANGED <<mainVars, rest, fileVars, netVars>>

KilledByPipe(p) ==
  /\ lpc[p] = "send" /\ SigPipe(serving[p]) /\ rest[p] # <<>>
  /\ Dies(p)

-----------------------------------------------------------------------------
(* The world                                                               *)

Change(p, n) ==
  /\ Data[p][n] # Absent /\ dpc[p] # "register" /\ <<p, n>> \notin changed
  /\ \E f \in Versions[p][n] : f # data[p][n] /\ data' = [data EXCEPT ![p][n] = f]
  /\ changed' = changed \cup {<<p, n>>}
  /\ UNCHANGED <<mainVars, serverVars, netVars>>

Killed(c) ==
  /\ c \in Mortal /\ ~Dead(c) /\ dpc[c] \notin {"register", "registered"}
  /\ Dies(c)

MainStep(c) ==
  \/ Register(c) \/ CreateThread(c)
  \/ ConnectPeer(c) \/ ReadPacket(c) \/ ReadEnd(c) \/ ReadFails(c) \/ Store(c)

ServerStep(p) ==
  \/ Listen(p) \/ Accept(p) \/ CloseSlot(p)
  \/ SendPacket(p) \/ EndOfFile(p) \/ KilledByPipe(p)
  \/ \E k \in Conns : HandleRequest(p, k)

Next ==
  \E c \in Children :
     \/ Get(c) \/ MainStep(c) \/ ServerStep(c) \/ Killed(c)
     \/ \E n \in Names : Change(c, n)

Fairness == \A c \in Children : WF_vars(MainStep(c)) /\ WF_vars(ServerStep(c))

Spec == Init /\ [][Next]_vars /\ Fairness

-----------------------------------------------------------------------------
(* Properties                                                              *)

(* Every variable has its type.                                            *)
TypeOK ==
  /\ dpc \in [Children -> {"register", "registered", "prompt", "connect", "receive", "store", "corrupt", "dead"}]
  /\ \A c \in Children : gets[c] \in 0 .. Gets[c]
  /\ want \in [Children -> Names \cup {None}]
  /\ dest \in [Children -> Dests \cup {None}]
  /\ peer \in [Children -> Children \cup {None}]
  /\ size \in [Children -> Nat]
  /\ \A c \in Children : dpc[c] \in {"receive", "store"} => Len(stored[c]) <= size[c]
  /\ lpc \in [Children -> {"down", "starting", "select", "send", "corrupt", "dead"}]
  /\ \A p \in Children : (lpc[p] = "send") = (serving[p] \in Conns) \/ lpc[p] \in {"corrupt", "dead"}
  /\ changed \subseteq Children \X Names
  /\ place \in [Conns -> {"none", "backlog", "slot", "forgotten", "closed"}]
  /\ at \in [Conns -> Children \cup {None}]
  /\ request \in [Conns -> Names \cup {None}]
  /\ \A k \in Conns : Len(inbox[k]) <= SockBuf
  /\ reset \subseteq Conns /\ cut \subseteq Conns

Changed(p, n) == <<p, n>> \in changed

(* What was stored under a destination is the beginning of the file that   *)
(* the peer has under the name asked for, as long as what was written,     *)
(* whatever was there before and whichever name matched: unless the file   *)
(* was changed since it was registered, the peer died, or a packet was     *)
(* read in parts.                                                          *)
DownloadRight ==
  \A c \in Children, d \in Dests :
     LET o == from[c][d]
     IN  o = NoSource \/ Changed(o.peer, o.name) \/ Dead(o.peer)
            \/ SubSeq(download[c][d], 1, o.len) = SubSeq(Data[o.peer][o.name], 1, o.len)

(* The file that is asked for, and the size of the one that matched.       *)
Requested(c)     == Data[peer[c]][want[c]]
TooLarge(c)  == Requested(c) # Absent /\ SizeOf(Requested(c)) > size[c]
TooSmall(c)  == Requested(c) # Absent /\ (SizeOf(Requested(c)) < size[c] \/ Requested(c) = <<>>)

(* A child writes beyond its buffer only if the file is not what was       *)
(* registered, cannot be read or is larger than the one that matched, or   *)
(* if a packet was read in parts or its peer has died.                     *)
NoOverrun ==
  \A c \in Children :
     dpc[c] = "corrupt" =>
        \/ Changed(peer[c], want[c]) \/ Requested(c) = Unreadable \/ TooLarge(c)
        \/ Conn(c) \in cut \/ Dead(peer[c])

(* The types, and no buffer overrun by a file that is what was registered. *)
Inv == TypeOK /\ NoOverrun

(* The thread of a child waits for a client that does not read any more.   *)
Reading(k) == dpc[k[1]] = "receive" /\ k = Conn(k[1])
Stuck(p) ==
  /\ lpc[p] = "send"
  /\ rest[p] = Unreadable \/ (Len(inbox[serving[p]]) = SockBuf /\ ~Reading(serving[p]))

(* Every get comes to an end, except for the reasons named here.           *)
Starved(c) ==
  /\ peer[c] # None
  /\ \/ TooSmall(c) \/ Changed(peer[c], want[c]) \/ Conn(c) \in cut
     \/ place[Conn(c)] = "forgotten"
     \/ dpc[peer[c]] = "corrupt" \/ Stuck(peer[c])

GetEnds ==
  \A c \in Children :
     dpc[c] \in {"connect", "receive", "store"} ~> dpc[c] \in {"prompt", "corrupt", "dead"} \/ Starved(c)
=============================================================================
