---------------------------- MODULE SuperOverlay ----------------------------
(***************************************************************************)
(* The two super nodes of p4 and the child nodes that register with them   *)
(* (super.c, super_lib.c, the registration and search of child.c).  Each   *)
(* node is one process; a super node serves one request at a time and,     *)
(* while it shares file information, blocks on the answer of the other one.*)
(*                                                                         *)
(* A connection has one client: a child with its super node, or a super    *)
(* node with the other one (HELLO, and one per FILE_INFO_SHARE).  A packet *)
(* is written and read as a whole unless the buffer of the reader is too   *)
(* small.  A node may be killed, and is not started again.  The pool of    *)
(* file descriptors is that of WebServer and is left out, and so are the   *)
(* sizes of the files.                                                     *)
(***************************************************************************)
EXTENDS Integers, Sequences, FiniteSets

CONSTANTS Children, Names,
          Home,             \* the super node of every child (--s_ip, --s_port)
          Begins,           \* <<f, g>>: the name g goes on after the name f
          FilesOf,          \* the files in the ./data of every child
          CHILD_NUMBER,     \* slots of childPorts
          HASH_TABLE_SIZE,  \* cells of the table of a super node
          RecvFiles,        \* files of a FILE_INFO that fit in recvBuff
          RecvShares,       \* infos of a FILE_INFO_SHARE that fit in recvBuff
          MaxSearches,      \* bound: searches per child
          Mortal,           \* the nodes that may be killed
          InOrder           \* children start after both super nodes are up

Supers  == {1, 2}
Clients == Supers \cup Children

ASSUME OverlayAssumption ==
  /\ Children \cap Supers = {}
  /\ IsFiniteSet(Children) /\ IsFiniteSet(Names)
  /\ Home \in [Children -> Supers]
  /\ Begins \subseteq Names \X Names
  /\ FilesOf \in [Children -> SUBSET Names]
  /\ CHILD_NUMBER \in Nat /\ HASH_TABLE_SIZE \in Nat
  /\ RecvFiles \in Nat /\ RecvShares \in Nat /\ MaxSearches \in Nat
  /\ Mortal \subseteq Supers \cup Children
  /\ InOrder \in BOOLEAN

Other(s)  == 3 - s
Server(x) == IF x \in Children THEN Home[x] ELSE Other(x)

(* The address of a client as accept() leaves it: its own, bytes that were *)
(* never written, or nothing yet.                                          *)
NoAddr    == 0
Unwritten == -1

(* What a super node stores of a file: its name, the IP address that the   *)
(* connection of the child came from, and the port the child announced.    *)
Info == [fileName : Names, ipAddr : Children \cup {Unwritten}, portNum : Children]

Msg ==
  [type : {"HELLO_FROM_CHILD", "HELLO_SUPER_TO_SUPER", "rest", "HELLO_FROM_SUPER",
           "FILE_INFO_RECV_SUCCESS", "FILE_INFO_RECV_ERROR",
           "FILE_INFO_SHARE_SUCCESS", "pointer", "SEARCH_ANS_FAIL"}]
  \cup [type : {"FILE_INFO"}, files : SUBSET Names]
  \cup [type : {"FILE_INFO_SHARE"}, infos : SUBSET Info]
  \cup [type : {"SEARCH_QUERY"}, fileName : Names]
  \cup [type : {"SEARCH_ANS_SUCCESS"}, info : Info]

VARIABLES
  superPc,     \* where each super node is
  otherSuper,  \* otherSuperIpAddr and otherSuperPortNum of each super node
  childPorts,  \* ids (the children themselves) and ports, in slot order
  table,       \* fileInfoTable of each super node
  sharePkt,    \* infos of the fileInfoSharePkt it has still to write
  accepted,    \* whether a super node has accepted a connection before
  backlog,     \* connections not yet accepted
  addr,        \* clientAddr of the accepted connection of each client
  sent,        \* packets of each client that its server has not read
  answers,     \* packets for each client that it has not read
  reset,       \* killed clients whose connection answers a write by a reset
  childPc,     \* where the main thread of each child is
  wanted,      \* reqFile of the search of each child
  searches,    \* searches each child has begun
  lost,        \* ghost: children whose infos the other super never stored
  promised     \* ghost: the file a child searches for is in the table

supers   == <<superPc, otherSuper, childPorts, table, sharePkt, accepted>>
network  == <<backlog, addr, sent, answers, reset>>
children == <<childPc, wanted, searches, promised>>
vars     == <<supers, network, children, lost>>

Init ==
  /\ superPc = [s \in Supers |-> IF s = 1 THEN "bind" ELSE "start"]
  /\ otherSuper = [s \in Supers |-> IF s = 1 THEN NoAddr ELSE 1]
  /\ childPorts = [s \in Supers |-> <<>>]
  /\ table = [s \in Supers |-> {}]
  /\ sharePkt = [s \in Supers |-> {}]
  /\ accepted = [s \in Supers |-> FALSE]
  /\ backlog = [s \in Supers |-> <<>>]
  /\ addr = [x \in Clients |-> NoAddr]
  /\ sent = [x \in Clients |-> <<>>]
  /\ answers = [x \in Clients |-> <<>>]
  /\ reset = {}
  /\ childPc = [c \in Children |-> "start"]
  /\ wanted = [c \in Children |-> "none"]
  /\ searches = [c \in Children |-> 0]
  /\ lost = {}
  /\ promised = [c \in Children |-> FALSE]

Listening(s) == superPc[s] \in {"loop", "connect", "share", "search"}

(* The process has ended: it gave up or was killed.                        *)
Dead(x) == IF x \in Supers THEN superPc[x] = "exited" ELSE childPc[x] = "exited"

-----------------------------------------------------------------------------
(* Connections                                                             *)

(* connect() and the write of the first packet.                            *)
Connect(x, m) ==
  /\ backlog' = [backlog EXCEPT ![Server(x)] = Append(@, x)]
  /\ sent' = [sent EXCEPT ![x] = Append(@, m)]

(* close() by the client.                                                  *)
Hangup(x) == addr' = [addr EXCEPT ![x] = NoAddr]

(* The answer x has been waiting for is read.                              *)
Answered(x) ==
  /\ answers[x] # <<>>
  /\ answers' = [answers EXCEPT ![x] = Tail(@)]
  /\ UNCHANGED reset

(* The server of x has died and no answer will come: read() ends.          *)
NoAnswer(x) == answers[x] = <<>> /\ superPc[Server(x)] = "exited"

(* clientAddrLen starts as the size of an int, so that the first accept()  *)
(* does not write the IP address: what was on the stack is taken for it.   *)
AcceptedAs(s, x) == IF accepted[s] THEN {x} ELSE {x, Unwritten}

Accept(s) ==
  /\ superPc[s] = "loop"
  /\ backlog[s] # <<>>
  /\ backlog' = [backlog EXCEPT ![s] = Tail(@)]
  /\ LET x == Head(backlog[s])
     IN  \E a \in AcceptedAs(s, x) : addr' = [addr EXCEPT ![x] = a]
  /\ accepted' = [accepted EXCEPT ![s] = TRUE]
  /\ UNCHANGED <<superPc, otherSuper, childPorts, table, sharePkt, sent,
                 answers, reset, children, lost>>

(* Super node s reads the next packet of x, which is of this type.         *)
Handles(s, x, type) ==
  /\ superPc[s] = "loop"
  /\ Server(x) = s
  /\ addr[x] # NoAddr
  /\ sent[x] # <<>> /\ Head(sent[x]).type = type

(* A plausible slip: what has been read in part is read again from its     *)
(* beginning.                                                              *)
ReadPartAgain(x) == UNCHANGED sent

Read(x)     == sent' = [sent EXCEPT ![x] = Tail(@)]
ReadPart(x) == sent' = [sent EXCEPT ![x] = <<[type |-> "rest"]>> \o Tail(@)]

(* A client that was killed answers the first write by a reset; the next   *)
(* one would end the super node by SIGPIPE.                                *)
Write(x, m) ==
  IF Dead(x) THEN reset' = reset \cup {x} /\ UNCHANGED answers
             ELSE answers' = [answers EXCEPT ![x] = Append(@, m)] /\ UNCHANGED reset

-----------------------------------------------------------------------------
(* Super nodes                                                             *)

(* Super node 2 says hello before it listens itself.                       *)
SayHello ==
  /\ superPc[2] = "start"
  /\ Listening(1)
  /\ Connect(2, [type |-> "HELLO_SUPER_TO_SUPER"])
  /\ superPc' = [superPc EXCEPT ![2] = "hello"]
  /\ UNCHANGED <<otherSuper, childPorts, table, sharePkt, accepted, addr,
                 answers, reset, children, lost>>

HelloRefused ==
  /\ superPc[2] = "start"
  /\ ~Listening(1)
  /\ superPc' = [superPc EXCEPT ![2] = "exited"]
  /\ UNCHANGED <<otherSuper, childPorts, table, sharePkt, accepted, network,
                 children, lost>>

HelloReturned ==
  /\ superPc[2] = "hello"
  /\ Answered(2)
  /\ Hangup(2)
  /\ superPc' = [superPc EXCEPT ![2] = "bind"]
  /\ UNCHANGED <<otherSuper, childPorts, table, sharePkt, accepted, backlog,
                 sent, children, lost>>

(* Super node 1 has died: what was read is no reply.                       *)
HelloNoAnswer ==
  /\ superPc[2] = "hello"
  /\ NoAnswer(2)
  /\ Hangup(2)
  /\ superPc' = [superPc EXCEPT ![2] = "exited"]
  /\ UNCHANGED <<otherSuper, childPorts, table, sharePkt, accepted, backlog,
                 sent, answers, reset, children, lost>>

Listen(s) ==
  /\ superPc[s] = "bind"
  /\ superPc' = [superPc EXCEPT ![s] = "loop"]
  /\ UNCHANGED <<otherSuper, childPorts, table, sharePkt, accepted, network,
                 children, lost>>

(* The other super node is known from now on, by the address of its client *)
(* connection.                                                             *)
HelloSuperToSuper(s, x) ==
  /\ Handles(s, x, "HELLO_SUPER_TO_SUPER")
  /\ Read(x)
  /\ otherSuper' = [otherSuper EXCEPT ![s] = addr[x]]
  /\ Write(x, [type |-> "HELLO_SUPER_TO_SUPER"])
  /\ UNCHANGED <<superPc, childPorts, table, sharePkt, accepted, backlog, addr,
                 children, lost>>

(* A plausible slip: a child that says hello takes the first slot.         *)
RegisteredFirst(ports, c) ==
  IF ports = <<>> THEN <<c>> ELSE <<c>> \o Tail(ports)

(* The first free slot; when there is none, the port is not stored.        *)
Registered(ports, c) ==
  IF Len(ports) < CHILD_NUMBER THEN Append(ports, c) ELSE ports

HelloFromChild(s, c) ==
  /\ Handles(s, c, "HELLO_FROM_CHILD")
  /\ Read(c)
  /\ childPorts' = [childPorts EXCEPT ![s] = Registered(@, c)]
  /\ Write(c, [type |-> "HELLO_FROM_SUPER"])
  /\ UNCHANGED <<superPc, otherSuper, table, sharePkt, accepted, backlog, addr,
                 children, lost>>

(* A plausible slip: the port of the last child is taken.                  *)
PortOfLast(ports, c) ==
  IF ports = <<>> THEN {} ELSE {ports[Len(ports)]}

(* The port stored with the id of c, if there is one.                      *)
PortOf(ports, c) == {ports[i] : i \in {j \in 1 .. Len(ports) : ports[j] = c}}

InfosOf(c, files, a, port) ==
  {[fileName |-> f, ipAddr |-> a, portNum |-> port] : f \in files}

(* A plausible slip: the loop over the infos stops one too early.          *)
InsertedShort(t, infos) ==
  IF infos = {} THEN {t} ELSE {t \cup (infos \ {i}) : i \in infos}

(* A plausible slip: an insertion takes the place of a stored info.        *)
InsertedOver(t, infos) ==
  {t2 \in SUBSET (t \cup infos) :
     infos \subseteq t2 /\ Cardinality(t2) <= HASH_TABLE_SIZE}

(* insertFileInfo for each of the infos, whose result is ignored: those    *)
(* for which there is no cell are not stored.                              *)
Inserted(t, infos) ==
  {t2 \in SUBSET (t \cup infos) :
     /\ t \subseteq t2 /\ Cardinality(t2) <= HASH_TABLE_SIZE
     /\ t2 = t \cup infos \/ Cardinality(t2) = HASH_TABLE_SIZE}

TooLong(m, room) ==
  Cardinality(IF m.type = "FILE_INFO" THEN m.files ELSE m.infos) > room

FileInfoTooLong(s, c) ==
  /\ Handles(s, c, "FILE_INFO")
  /\ TooLong(Head(sent[c]), RecvFiles)
  /\ ReadPart(c)
  /\ Write(c, [type |-> "FILE_INFO_RECV_ERROR"])
  /\ UNCHANGED <<supers, backlog, addr, children, lost>>

(* "Could not find corersponding port number": nothing is answered.        *)
FileInfoNoPort(s, c) ==
  /\ Handles(s, c, "FILE_INFO")
  /\ ~TooLong(Head(sent[c]), RecvFiles)
  /\ PortOf(childPorts[s], c) = {}
  /\ Read(c)
  /\ UNCHANGED <<supers, backlog, addr, answers, reset, children, lost>>

(* openClientSock to the other super node succeeds.                        *)
Reachable(s) == otherSuper[s] = Other(s) /\ Listening(Other(s))

(* The infos are stored and acknowledged; they are still to be shared.     *)
FileInfo(s, c) ==
  /\ Handles(s, c, "FILE_INFO")
  /\ LET m == Head(sent[c])
     IN  /\ ~TooLong(m, RecvFiles)
         /\ \E port \in PortOf(childPorts[s], c) :
              LET infos == InfosOf(c, m.files, addr[c], port)
              IN  /\ \E t \in Inserted(table[s], infos) : table' = [table EXCEPT ![s] = t]
                  /\ sharePkt' = [sharePkt EXCEPT ![s] = infos]
  /\ Read(c)
  /\ Write(c, [type |-> "FILE_INFO_RECV_SUCCESS"])
  /\ superPc' = [superPc EXCEPT ![s] = "connect"]
  /\ UNCHANGED <<otherSuper, childPorts, accepted, backlog, addr, children, lost>>

(* The children whose infos s has acknowledged and not shared.             *)
NotShared(s) == {i.portNum : i \in sharePkt[s]}

(* s connects to the other super node, sends it the infos and blocks in    *)
(* read() for its answer, or goes on without when it cannot connect.       *)
ShareConnect(s) ==
  /\ superPc[s] = "connect"
  /\ \/ /\ Reachable(s)
        /\ Connect(s, [type |-> "FILE_INFO_SHARE", infos |-> sharePkt[s]])
        /\ superPc' = [superPc EXCEPT ![s] = "share"]
        /\ UNCHANGED lost
     \/ /\ ~Reachable(s)
        /\ superPc' = [superPc EXCEPT ![s] = "loop"]
        /\ lost' = lost \cup NotShared(s)
        /\ UNCHANGED <<backlog, sent>>
  /\ sharePkt' = [sharePkt EXCEPT ![s] = {}]
  /\ UNCHANGED <<otherSuper, childPorts, table, accepted, addr, answers, reset,
                 children>>

(* The process of s ends, and with it every connection of its clients.     *)
SuperEnds(s) ==
  /\ superPc' = [superPc EXCEPT ![s] = "exited"]
  /\ sharePkt' = [sharePkt EXCEPT ![s] = {}]
  /\ backlog' = [backlog EXCEPT ![s] = <<>>]
  /\ sent' = [x \in Clients |-> IF Server(x) = s THEN <<>> ELSE sent[x]]

(* Any answer to the share, and that of an unknown type too, ends it.      *)
ShareReturned(s) ==
  /\ superPc[s] = "share"
  /\ Answered(s)
  /\ Hangup(s)
  /\ superPc' = [superPc EXCEPT ![s] = "loop"]
  /\ UNCHANGED <<otherSuper, childPorts, table, sharePkt, accepted, backlog,
                 sent, children, lost>>

(* The other super node dies.  If it had read the share, read() may return *)
(* 0, which is taken for an answer.                                        *)
ShareUnanswered(s) ==
  /\ superPc[s] = "share"
  /\ NoAnswer(s)
  /\ addr[s] # NoAddr
  /\ Hangup(s)
  /\ superPc' = [superPc EXCEPT ![s] = "loop"]
  /\ UNCHANGED <<otherSuper, childPorts, table, sharePkt, accepted, backlog,
                 sent, answers, reset, children, lost>>

(* If not, the connection is reset and read() fails: exit(-1).             *)
ShareFailed(s) ==
  /\ superPc[s] = "share"
  /\ NoAnswer(s)
  /\ SuperEnds(s)
  /\ UNCHANGED <<otherSuper, childPorts, table, accepted, addr,
                 answers, reset, children, lost>>

FileInfoShare(s, x) ==
  /\ Handles(s, x, "FILE_INFO_SHARE")
  /\ LET m == Head(sent[x])
     IN  /\ ~TooLong(m, RecvShares)
         /\ \E t \in Inserted(table[s], m.infos) : table' = [table EXCEPT ![s] = t]
  /\ Read(x)
  /\ Write(x, [type |-> "FILE_INFO_SHARE_SUCCESS"])
  /\ UNCHANGED <<superPc, otherSuper, childPorts, sharePkt, accepted, backlog,
                 addr, children, lost>>

(* The bytes of the pointer are written instead of FILE_INFO_SHARE_ERROR.  *)
FileInfoShareTooLong(s, x) ==
  /\ Handles(s, x, "FILE_INFO_SHARE")
  /\ TooLong(Head(sent[x]), RecvShares)
  /\ ReadPart(x)
  /\ Write(x, [type |-> "pointer"])
  /\ lost' = lost \cup {i.portNum : i \in Head(sent[x]).infos}
  /\ UNCHANGED <<supers, backlog, addr, children>>

(* What did not fit in the buffer is read as a packet of an unknown type,  *)
(* even when its sender has gone on.                                       *)
Rest(s, x) ==
  /\ superPc[s] = "loop" /\ Server(x) = s
  /\ sent[x] # <<>> /\ Head(sent[x]).type = "rest"
  /\ Read(x)
  /\ UNCHANGED <<supers, backlog, addr, answers, reset, children, lost>>

(* A plausible slip: the answer is about the last name that was looked at. *)
FoundOther(t, f) == t

(* strncmp over the length of f: the name that is stored may go on.        *)
Matches(f, name) == name = f \/ <<f, name>> \in Begins

(* What searchFileInfo may return of the table as a set: FileInfoTable has *)
(* the probe, and with it which of several infos is met first.             *)
Found(t, f) == {i \in t : Matches(f, i.fileName)}

(* The infos of the name itself, which its probe meets wherever they are;  *)
(* those of a longer name may be in cells that it does not come to.        *)
Named(t, f) == {i \in t : i.fileName = f}

(* A plausible slip: a file that is not found is not answered.             *)
SearchAnswersFound(s, c) ==
  /\ Handles(s, c, "SEARCH_QUERY")
  /\ LET f == Head(sent[c]).fileName
     IN  \/ \E i \in Found(table[s], f) :
               Write(c, [type |-> "SEARCH_ANS_SUCCESS", info |-> i])
         \/ Named(table[s], f) = {} /\ UNCHANGED <<answers, reset>>
  /\ Read(c)
  /\ UNCHANGED <<supers, backlog, addr, children, lost>>

SearchQuery(s, c) ==
  /\ Handles(s, c, "SEARCH_QUERY")
  /\ LET f == Head(sent[c]).fileName
     IN  \/ \E i \in Found(table[s], f) :
               Write(c, [type |-> "SEARCH_ANS_SUCCESS", info |-> i])
         \/ /\ Named(table[s], f) = {}
            /\ Cardinality(table[s]) < HASH_TABLE_SIZE
            /\ Write(c, [type |-> "SEARCH_ANS_FAIL"])
  /\ Read(c)
  /\ UNCHANGED <<supers, backlog, addr, children, lost>>

(* In a full table, whose cells are all probed, the search for a name that *)
(* no info begins with does not end.                                       *)
SearchForEver(s, c) ==
  /\ Handles(s, c, "SEARCH_QUERY")
  /\ Found(table[s], Head(sent[c]).fileName) = {}
  /\ Cardinality(table[s]) = HASH_TABLE_SIZE
  /\ Read(c)
  /\ superPc' = [superPc EXCEPT ![s] = "search"]
  /\ UNCHANGED <<otherSuper, childPorts, table, sharePkt, accepted, backlog,
                 addr, answers, reset, children, lost>>

(* What it has acknowledged and not yet shared is lost with it.            *)
SuperKilled(s) ==
  /\ s \in Mortal
  /\ superPc[s] \notin {"start", "exited"}
  /\ SuperEnds(s)
  /\ lost' = lost \cup NotShared(s)
  /\ answers' = [answers EXCEPT ![s] = <<>>]
  /\ reset' = IF answers[s] = <<>> THEN reset ELSE reset \cup {s}
  /\ UNCHANGED <<otherSuper, childPorts, table, accepted, addr,
                 children>>

Super(s) ==
  \/ Listen(s) \/ Accept(s) \/ ShareConnect(s) \/ ShareReturned(s)
  \/ ShareUnanswered(s) \/ ShareFailed(s)
  \/ s = 2 /\ (SayHello \/ HelloRefused \/ HelloReturned \/ HelloNoAnswer)
  \/ \E x \in Supers : HelloSuperToSuper(s, x) \/ FileInfoShare(s, x)
                         \/ FileInfoShareTooLong(s, x)
  \/ \E c \in Children :
       \/ HelloFromChild(s, c) \/ FileInfoTooLong(s, c) \/ FileInfoNoPort(s, c)
       \/ FileInfo(s, c) \/ SearchQuery(s, c) \/ SearchForEver(s, c)
  \/ \E x \in Clients : Rest(s, x)

-----------------------------------------------------------------------------
(* Children                                                                *)

ChildGoes(c, pc) == childPc' = [childPc EXCEPT ![c] = pc]

StartChild(c) ==
  /\ childPc[c] = "start"
  /\ InOrder => \A s \in Supers : Listening(s)
  /\ \/ /\ Listening(Home[c])
        /\ Connect(c, [type |-> "HELLO_FROM_CHILD"])
        /\ ChildGoes(c, "hello")
     \/ /\ ~Listening(Home[c])
        /\ ChildGoes(c, "exited")
        /\ UNCHANGED <<backlog, sent>>
  /\ UNCHANGED <<supers, addr, answers, reset, wanted, searches, promised, lost>>

HelloFromSuper(c) ==
  /\ childPc[c] = "hello"
  /\ Answered(c)
  /\ IF Dead(Home[c]) THEN UNCHANGED sent
     ELSE sent' = [sent EXCEPT ![c] = Append(@, [type |-> "FILE_INFO", files |-> FilesOf[c]])]
  /\ ChildGoes(c, "info")
  /\ UNCHANGED <<supers, backlog, addr, wanted, searches, promised, lost>>

FileInfoReturned(c) ==
  /\ childPc[c] = "info"
  /\ Answered(c)
  /\ Hangup(c)
  /\ ChildGoes(c, IF Head(answers[c]).type = "FILE_INFO_RECV_SUCCESS"
                  THEN "ready" ELSE "exited")
  /\ UNCHANGED <<supers, backlog, sent, wanted, searches, promised, lost>>

Full(s) == Cardinality(table[s]) = HASH_TABLE_SIZE

Served(c) == childPc[c] \in {"ready", "search"}

(* get <f>; nothing happens when the super node cannot be reached.         *)
Search(c, f) ==
  /\ childPc[c] = "ready"
  /\ searches[c] < MaxSearches
  /\ Listening(Home[c])
  /\ Connect(c, [type |-> "SEARCH_QUERY", fileName |-> f])
  /\ wanted' = [wanted EXCEPT ![c] = f]
  /\ searches' = [searches EXCEPT ![c] = @ + 1]
  /\ promised' = [promised EXCEPT ![c] =
       ~Full(Home[c]) /\ \E d \in Children :
                           Home[d] = Home[c] /\ Served(d) /\ f \in FilesOf[d]]
  /\ ChildGoes(c, "search")
  /\ UNCHANGED <<supers, addr, answers, reset, lost>>

SearchReturned(c) ==
  /\ childPc[c] = "search"
  /\ Answered(c)
  /\ Hangup(c)
  /\ wanted' = [wanted EXCEPT ![c] = "none"]
  /\ ChildGoes(c, "ready")
  /\ UNCHANGED <<supers, backlog, sent, searches, promised, lost>>

(* The super node has died: what was read is no packet that is expected.   *)
ChildNoAnswer(c) ==
  /\ childPc[c] \in {"hello", "info", "search"}
  /\ NoAnswer(c)
  /\ Hangup(c)
  /\ wanted' = [wanted EXCEPT ![c] = "none"]
  /\ ChildGoes(c, IF childPc[c] = "search" THEN "ready" ELSE "exited")
  /\ UNCHANGED <<supers, backlog, sent, answers, reset, searches, promised, lost>>

(* Its unread request stays in the stream.                                 *)
ChildKilled(c) ==
  /\ c \in Mortal
  /\ childPc[c] \notin {"start", "exited"}
  /\ ChildGoes(c, "exited")
  /\ answers' = [answers EXCEPT ![c] = <<>>]
  /\ reset' = IF answers[c] = <<>> THEN reset ELSE reset \cup {c}
  /\ wanted' = [wanted EXCEPT ![c] = "none"]
  /\ UNCHANGED <<supers, backlog, addr, sent, searches, promised, lost>>

Child(c) ==
  \/ StartChild(c) \/ HelloFromSuper(c) \/ FileInfoReturned(c) \/ SearchReturned(c)
  \/ ChildNoAnswer(c)

User(c) == \E f \in Names : Search(c, f)

Next ==
  \/ \E s \in Supers : Super(s) \/ SuperKilled(s)
  \/ \E c \in Children : Child(c) \/ User(c) \/ ChildKilled(c)

Spec == Init /\ [][Next]_vars

(* Every process that can go on does; that a super node handles what one   *)
(* client sends is due to its scan of all the ready descriptors.  A user   *)
(* need not search, a child need not be started and nobody need be killed. *)
FairSpec ==
  /\ Spec
  /\ \A s \in Supers : /\ WF_vars(Listen(s) \/ Accept(s) \/ ShareConnect(s)
                                    \/ ShareReturned(s) \/ ShareUnanswered(s) \/ ShareFailed(s))
                       /\ WF_vars(s = 2 /\ (SayHello \/ HelloReturned \/ HelloNoAnswer))
  /\ \A x \in Clients :
       SF_vars(\E s \in Supers :
                 \/ Rest(s, x)
                 \/ x \in Supers /\ (HelloSuperToSuper(s, x) \/ FileInfoShare(s, x)
                                       \/ FileInfoShareTooLong(s, x))
                 \/ x \in Children /\ (HelloFromChild(s, x) \/ FileInfoTooLong(s, x)
                                         \/ FileInfoNoPort(s, x) \/ FileInfo(s, x)
                                         \/ SearchQuery(s, x) \/ SearchForEver(s, x)))
  /\ \A c \in Children :
       WF_vars(HelloFromSuper(c) \/ FileInfoReturned(c) \/ SearchReturned(c)
                 \/ ChildNoAnswer(c))

-----------------------------------------------------------------------------
(* Properties                                                              *)

TypeOK ==
  /\ superPc \in [Supers -> {"start", "hello", "bind", "loop", "connect", "share",
                            "search", "exited"}]
  /\ otherSuper \in [Supers -> Supers \cup {NoAddr, Unwritten}]
  /\ childPorts \in [Supers -> Seq(Children)]
  /\ \A s \in Supers : Len(childPorts[s]) <= CHILD_NUMBER
  /\ table \in [Supers -> SUBSET Info]
  /\ \A s \in Supers : Cardinality(table[s]) <= HASH_TABLE_SIZE
  /\ sharePkt \in [Supers -> SUBSET Info]
  /\ accepted \in [Supers -> BOOLEAN]
  /\ backlog \in [Supers -> Seq(Clients)]
  /\ addr \in [Clients -> Clients \cup {NoAddr, Unwritten}]
  /\ sent \in [Clients -> Seq(Msg)]
  /\ answers \in [Clients -> Seq(Msg)]
  /\ reset \subseteq Clients
  /\ childPc \in [Children -> {"start", "hello", "info", "ready", "search", "exited"}]
  /\ wanted \in [Children -> Names \cup {"none"}]
  /\ searches \in [Children -> 0 .. MaxSearches]
  /\ lost \subseteq Children
  /\ promised \in [Children -> BOOLEAN]

(* Every info, in the table of either super node, has the port of a child  *)
(* that has the file, and its address if accept() has written one.         *)
InfoTrue(i) ==
  /\ i.fileName \in FilesOf[i.portNum]
  /\ i.ipAddr \in {i.portNum, Unwritten}

InfosTrue == \A s \in Supers : \A i \in table[s] : InfoTrue(i)

Knows(s, c) == \A f \in FilesOf[c] : \E i \in table[s] : i.fileName = f /\ i.portNum = c

(* What a super node has acknowledged with FILE_INFO_RECV_SUCCESS it keeps *)
(* as long as it lives, unless its table has become full.                  *)
Stored(c) == Knows(Home[c], c) \/ Full(Home[c]) \/ Dead(Home[c])

AckedStored == \A c \in Children : Served(c) => Stored(c)

(* The infos of an acknowledged child are about to be shared, on their way *)
(* to the other super node or stored there, or the share has visibly       *)
(* failed: even if a node dies in the middle of it.                        *)
SharesOf(c) == {[type |-> "FILE_INFO_SHARE", infos |-> InfosOf(c, FilesOf[c], a, c)] :
                  a \in {c, Unwritten}}

Sharing(c) ==
  LET s == Home[c]
  IN  \/ \E j \in DOMAIN sent[s] : sent[s][j] \in SharesOf(c)
      \/ superPc[s] = "connect" /\ \E m \in SharesOf(c) : m.infos = sharePkt[s]

Shared(c) ==
  \/ c \in lost \/ Sharing(c)
  \/ Knows(Other(Home[c]), c) \/ Full(Other(Home[c])) \/ Dead(Other(Home[c]))

SharedOrLost == \A c \in Children : Served(c) => Shared(c)

(* Whoever blocks in read() is owed exactly one answer, which is under way *)
(* or will be written for its unread request; nobody else is owed any.     *)
(* The exceptions are a child without a slot in childPorts, one whose      *)
(* search runs round a full table for ever, and nodes that have died.      *)
Requests(x) == {j \in DOMAIN sent[x] : sent[x][j].type # "rest"}

Waits(x) == IF x \in Supers THEN superPc[x] \in {"hello", "share"}
                            ELSE childPc[x] \in {"hello", "info", "search"}

Forgotten(x) ==
  /\ x \in Children
  /\ \/ childPc[x] = "info" /\ PortOf(childPorts[Home[x]], x) = {}
                             /\ Len(childPorts[Home[x]]) = CHILD_NUMBER
     \/ childPc[x] = "search" /\ superPc[Home[x]] = "search"

OneAnswerDue ==
  \A x \in Clients :
     LET due == Cardinality(Requests(x)) + Len(answers[x])
     IN  \/ due = 1 /\ (Waits(x) \/ Dead(x))
         \/ due = 0 /\ (Waits(x) => Forgotten(x) \/ Dead(Server(x)))

(* Nothing is left to be answered on a connection that a dead client has   *)
(* reset: its death costs the super node one write at most, not SIGPIPE.   *)
NoWriteToReset == \A x \in reset : Requests(x) = {}

(* An answer to a search is a true info, of the file the child has asked   *)
(* for or, as strncmp has it, of one whose name begins so; "not found" is  *)
(* never said of a file acknowledged before it asked.                      *)
SearchRight ==
  \A c \in Children :
     childPc[c] = "search" /\ answers[c] # <<>> =>
        LET m == Head(answers[c])
        IN  IF m.type = "SEARCH_ANS_SUCCESS"
            THEN Matches(wanted[c], m.info.fileName) /\ InfoTrue(m.info)
            ELSE m.type = "SEARCH_ANS_FAIL" /\ ~promised[c]

(* What a client may ask its super node, and the state in which it waits   *)
(* for the answer.                                                         *)
Asks(x) ==
  IF x \in Children
  THEN {[type |-> "HELLO_FROM_CHILD"], [type |-> "FILE_INFO", files |-> FilesOf[x]]}
         \cup {[type |-> "SEARCH_QUERY", fileName |-> f] : f \in Names}
  ELSE {[type |-> "HELLO_SUPER_TO_SUPER"]} \cup UNION {SharesOf(c) : c \in Children}

WaitsFor(x, m) ==
  /\ Waits(x)
  /\ m.type = "HELLO_FROM_CHILD" => childPc[x] = "hello"
  /\ m.type = "FILE_INFO" => childPc[x] = "info"
  /\ m.type = "SEARCH_QUERY" => childPc[x] = "search" /\ m.fileName = wanted[x]

(* What is not read of the connection of x: one request at most, and       *)
(* before it the rest of an earlier one.                                   *)
Leftover    == [type |-> "rest"]
Quiet(x)    == sent[x] = <<>> \/ sent[x] = <<Leftover>>
Asked(x, m) == sent[x] = <<m>> \/ sent[x] = <<Leftover, m>>

Exchange(x) ==
  \/ \E m \in Asks(x) : Asked(x, m) /\ answers[x] = <<>> /\ (Dead(x) \/ WaitsFor(x, m))
  \/ Quiet(x) /\ Len(answers[x]) = 1 /\ (Dead(x) \/ Waits(x))
  \/ Quiet(x) /\ answers[x] = <<>> /\ (Waits(x) => Forgotten(x) \/ Dead(Server(x)))

(* A child that is to send its infos has a slot, or there is none left.    *)
HasSlot(c) == \/ PortOf(childPorts[Home[c]], c) # {}
              \/ Len(childPorts[Home[c]]) = CHILD_NUMBER

Connections ==
  /\ \A x \in Clients : addr[x] \in {NoAddr, Unwritten, x} /\ Exchange(x)
  /\ \A x \in Clients : ~Listening(Server(x)) => sent[x] = <<>>
  /\ \A x \in reset : Dead(x)
  /\ \A c \in Children : childPc[c] = "start" \/ Dead(c) \/ Listening(Home[c]) \/ Dead(Home[c])
  /\ \A c \in Children :
        childPc[c] = "info" \/ (childPc[c] = "hello" /\ answers[c] # <<>>) => HasSlot(c)
  /\ \A s \in Supers :
        superPc[s] = "connect" => \E c \in Children : \E m \in SharesOf(c) : m.infos = sharePkt[s]

(* What the acknowledgement means from the moment it is written, and what  *)
(* a super node still knows while a child searches for it.                 *)
Acked(c) ==
  \/ Served(c)
  \/ /\ childPc[c] = "info"
     /\ answers[c] # <<>> /\ Head(answers[c]).type = "FILE_INFO_RECV_SUCCESS"

Promises ==
  /\ \A s \in Supers : IsFiniteSet(table[s])
  /\ \A c \in Children : Acked(c) => Stored(c) /\ Shared(c)
  /\ \A c \in Children :
        childPc[c] = "search" /\ promised[c] => Named(table[Home[c]], wanted[c]) # {}

(* The types, one answer owed to whoever waits and no SIGPIPE, with what   *)
(* makes them inductive together with the other properties.                *)
Inv == TypeOK /\ OneAnswerDue /\ NoWriteToReset /\ Connections /\ Promises

(* readme.txt: "Steps 3 and 4 are repeated as the other child nodes run,   *)
(* until all child nodes have connected to their specified super node and  *)
(* delivered their file information".  A child that has connected gets     *)
(* through its registration or gives up, whoever is killed.                *)
EveryChildRegistered ==
  \A c \in Children : childPc[c] = "hello" ~> childPc[c] \in {"ready", "exited"}

(* readme.txt: the super node replies to a SEARCH_QUERY: a search ends,    *)
(* also when the super node or other children are killed.                  *)
EverySearchAnswered ==
  \A c \in Children : childPc[c] = "search" ~> childPc[c] \in {"ready", "exited"}
=============================================================================
