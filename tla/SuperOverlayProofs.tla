------------------------- MODULE SuperOverlayProofs -------------------------
(***************************************************************************)
(* Proofs of the safety properties of SuperOverlay for any number of       *)
(* children, files, slots, cells and sizes of buffers, and for any set of  *)
(* nodes that may be killed.                                               *)
(***************************************************************************)
EXTENDS SuperOverlay, FiniteSetTheorems, SequenceTheorems, TLAPS

-----------------------------------------------------------------------------
(* Nodes, packets, sets of infos                                           *)

(* Two super nodes, each the other one's other; a child is none of them.   *)
LEMMA Nodes ==
  /\ \A s \in Supers : Other(s) \in Supers /\ Other(s) # s /\ Other(Other(s)) = s
  /\ \A s \in Supers : s \in Clients /\ s \notin Children /\ Server(s) = Other(s)
  /\ \A c \in Children : /\ c \in Clients /\ c \notin Supers
                         /\ Server(c) = Home[c] /\ Home[c] \in Supers
  /\ \A x \in Clients : Server(x) \in Supers
  /\ \A x \in Clients : x \in Supers \/ x \in Children
<1>1. \A s \in Supers : Other(s) \in Supers /\ Other(s) # s /\ Other(Other(s)) = s
  BY DEF Supers, Other
<1>2. \A s \in Supers : s \in Clients /\ s \notin Children /\ Server(s) = Other(s)
  BY OverlayAssumption DEF Clients, Server
<1>3. \A c \in Children : /\ c \in Clients /\ c \notin Supers
                          /\ Server(c) = Home[c] /\ Home[c] \in Supers
  BY OverlayAssumption DEF Clients, Server
<1>4. QED BY <1>1, <1>2, <1>3 DEF Clients

(* The parts of the packets that have any.                                 *)
LEMMA MsgParts ==
  \A m \in Msg :
    /\ m.type = "FILE_INFO" => m.files \in SUBSET Names
    /\ m.type = "FILE_INFO_SHARE" => m.infos \in SUBSET Info
    /\ m.type = "SEARCH_QUERY" => m.fileName \in Names
    /\ m.type = "SEARCH_ANS_SUCCESS" => m.info \in Info
BY DEF Msg

(* The packets without a part.                                             *)
LEMMA BareMsgs ==
  /\ [type |-> "HELLO_FROM_CHILD"] \in Msg
  /\ [type |-> "HELLO_SUPER_TO_SUPER"] \in Msg
  /\ [type |-> "rest"] \in Msg
  /\ [type |-> "HELLO_FROM_SUPER"] \in Msg
  /\ [type |-> "FILE_INFO_RECV_SUCCESS"] \in Msg
  /\ [type |-> "FILE_INFO_RECV_ERROR"] \in Msg
  /\ [type |-> "FILE_INFO_SHARE_SUCCESS"] \in Msg
  /\ [type |-> "pointer"] \in Msg
  /\ [type |-> "SEARCH_ANS_FAIL"] \in Msg
BY DEF Msg

(* The packets with a part.                                                *)
LEMMA FullMsgs ==
  /\ \A files \in SUBSET Names : [type |-> "FILE_INFO", files |-> files] \in Msg
  /\ \A infos \in SUBSET Info : [type |-> "FILE_INFO_SHARE", infos |-> infos] \in Msg
  /\ \A f \in Names : [type |-> "SEARCH_QUERY", fileName |-> f] \in Msg
  /\ \A i \in Info : [type |-> "SEARCH_ANS_SUCCESS", info |-> i] \in Msg
BY DEF Msg

(* What is stored for a file is an info when the address is one.           *)
LEMMA InfosOfType ==
  ASSUME NEW c \in Children, NEW files \in SUBSET Names,
         NEW a \in Children \cup {Unwritten}, NEW port \in Children
  PROVE  InfosOf(c, files, a, port) \in SUBSET Info
BY DEF InfosOf, Info

(* The port that PortOf finds for c is the one of c.                       *)
LEMMA PortIsOwn ==
  ASSUME NEW ports, NEW c
  PROVE  PortOf(ports, c) \subseteq {c}
BY DEF PortOf

-----------------------------------------------------------------------------
(* Types                                                                   *)

(* The address of a client is its own, unwritten or not there.             *)
AddrOK == \A x \in Clients : addr[x] \in {NoAddr, Unwritten, x}

(* The types of the variables by what they belong to.                      *)
SuperTypes ==
  /\ superPc \in [Supers -> {"start", "hello", "bind", "loop", "connect", "share", "search", "exited"}]
  /\ otherSuper \in [Supers -> Supers \cup {NoAddr, Unwritten}]
  /\ childPorts \in [Supers -> Seq(Children)]
  /\ \A s \in Supers : Len(childPorts[s]) <= CHILD_NUMBER
  /\ accepted \in [Supers -> BOOLEAN]

TableTypes ==
  /\ table \in [Supers -> SUBSET Info]
  /\ \A s \in Supers : Cardinality(table[s]) <= HASH_TABLE_SIZE

StreamTypes ==
  /\ sent \in [Clients -> Seq(Msg)]
  /\ answers \in [Clients -> Seq(Msg)]
  /\ reset \subseteq Clients

AddrTypes ==
  /\ backlog \in [Supers -> Seq(Clients)]
  /\ addr \in [Clients -> Clients \cup {NoAddr, Unwritten}]
  /\ AddrOK

ChildTypes ==
  /\ childPc \in [Children -> {"start", "hello", "info", "ready", "search", "exited"}]
  /\ wanted \in [Children -> Names \cup {"none"}]
  /\ searches \in [Children -> 0 .. MaxSearches]
  /\ lost \subseteq Children
  /\ promised \in [Children -> BOOLEAN]

Types == SuperTypes /\ TableTypes /\ StreamTypes /\ AddrTypes /\ ChildTypes

(* The share that a super node has still to write is that of one child.    *)
PktsOK ==
  /\ sharePkt \in [Supers -> SUBSET Info]
  /\ \A s \in Supers :
        superPc[s] = "connect" => \E c \in Children : \E m \in SharesOf(c) : m.infos = sharePkt[s]

(* These are the types of the module.                                      *)
LEMMA TypesAreTypeOK == Types /\ PktsOK => TypeOK /\ AddrOK
BY DEF Types, SuperTypes, TableTypes, StreamTypes, AddrTypes, ChildTypes, PktsOK, TypeOK

(* What a super node has still to share is a packet, and about children.   *)
LEMMA PktTypes ==
  ASSUME PktsOK, NEW s \in Supers
  PROVE  /\ [type |-> "FILE_INFO_SHARE", infos |-> sharePkt[s]] \in Msg
         /\ NotShared(s) \subseteq Children
<1>1. sharePkt[s] \in SUBSET Info
  BY DEF PktsOK
<1>2. NotShared(s) \subseteq Children
  BY <1>1 DEF NotShared, Info
<1>3. QED BY <1>1, <1>2, FullMsgs

(* What the operations on a connection do to the types.                    *)
LEMMA ConnectTypes ==
  ASSUME Types, NEW x \in Clients, NEW m \in Msg, Connect(x, m)
  PROVE  /\ backlog' \in [Supers -> Seq(Clients)]
         /\ sent' \in [Clients -> Seq(Msg)]
<1>1. Server(x) \in Supers
  BY Nodes
<1>2. Append(backlog[Server(x)], x) \in Seq(Clients)
  BY <1>1 DEF Types, AddrTypes
<1>3. Append(sent[x], m) \in Seq(Msg)
  BY DEF Types, StreamTypes
<1>4. QED BY <1>1, <1>2, <1>3 DEF Connect, Types, AddrTypes, StreamTypes

(* close() forgets an address.                                             *)
LEMMA HangupTypes ==
  ASSUME Types, NEW x \in Clients, Hangup(x)
  PROVE  addr' \in [Clients -> Clients \cup {NoAddr, Unwritten}] /\ AddrOK'
BY DEF Hangup, Types, AddrTypes, AddrOK

(* A packet is taken out of a stream.                                      *)
LEMMA ReadTypes ==
  ASSUME Types, NEW x \in Clients, sent[x] # <<>>, Read(x)
  PROVE  sent' \in [Clients -> Seq(Msg)]
<1>1. Tail(sent[x]) \in Seq(Msg)
  BY DEF Types, StreamTypes
<1>2. QED BY <1>1 DEF Read, Types, StreamTypes

(* The rest of a packet takes its place.                                   *)
LEMMA ReadPartTypes ==
  ASSUME Types, NEW x \in Clients, sent[x] # <<>>, ReadPart(x)
  PROVE  sent' \in [Clients -> Seq(Msg)]
<1>1. Tail(sent[x]) \in Seq(Msg)
  BY DEF Types, StreamTypes
<1>2. <<[type |-> "rest"]>> \in Seq(Msg)
  BY BareMsgs
<1>3. <<[type |-> "rest"]>> \o Tail(sent[x]) \in Seq(Msg)
  BY <1>1, <1>2
<1>4. QED BY <1>3 DEF ReadPart, Types, StreamTypes

(* A packet is written, or answered by a reset.                            *)
LEMMA WriteTypes ==
  ASSUME Types, NEW x \in Clients, NEW m \in Msg, Write(x, m)
  PROVE  answers' \in [Clients -> Seq(Msg)] /\ reset' \subseteq Clients
<1>1. Append(answers[x], m) \in Seq(Msg)
  BY DEF Types, StreamTypes
<1>2. QED BY <1>1 DEF Write, Types, StreamTypes

(* An answer is read.                                                      *)
LEMMA AnsweredTypes ==
  ASSUME Types, NEW x \in Clients, Answered(x)
  PROVE  answers' \in [Clients -> Seq(Msg)] /\ reset' = reset
<1>1. answers[x] # <<>>
  BY DEF Answered
<1>2. Tail(answers[x]) \in Seq(Msg)
  BY <1>1 DEF Types, StreamTypes
<1>3. QED BY <1>2 DEF Answered, Types, StreamTypes

(* The process of a super node ends.                                       *)
LEMMA SuperEndsTypes ==
  ASSUME Types, NEW s \in Supers, SuperEnds(s)
  PROVE  /\ superPc' \in [Supers -> {"start", "hello", "bind", "loop", "connect", "share", "search", "exited"}]
         /\ backlog' \in [Supers -> Seq(Clients)]
         /\ sent' \in [Clients -> Seq(Msg)]
<1>1. <<>> \in Seq(Clients) /\ <<>> \in Seq(Msg)
  OBVIOUS
<1>2. superPc' \in [Supers -> {"start", "hello", "bind", "loop", "connect", "share", "search", "exited"}]
  BY DEF SuperEnds, Types, SuperTypes
<1>3. backlog' \in [Supers -> Seq(Clients)]
  BY <1>1 DEF SuperEnds, Types, AddrTypes
<1>4. sent' \in [Clients -> Seq(Msg)]
  BY <1>1 DEF SuperEnds, Types, StreamTypes
<1>5. QED BY <1>2, <1>3, <1>4

(* What Inserted allows is a table.                                        *)
LEMMA InsertedTypes ==
  ASSUME Types, NEW s \in Supers, NEW infos \in SUBSET Info,
         NEW t \in Inserted(table[s], infos), table' = [table EXCEPT ![s] = t]
  PROVE  TableTypes'
<1>1. t \in SUBSET Info /\ Cardinality(t) <= HASH_TABLE_SIZE
  BY DEF Inserted, Types, TableTypes
<1>2. QED BY <1>1 DEF Types, TableTypes

(* The head of a stream is a packet.                                       *)
LEMMA HeadIsMsg ==
  ASSUME Types, NEW x \in Clients, sent[x] # <<>>
  PROVE  Head(sent[x]) \in Msg
<1>1. sent[x] \in Seq(Msg)
  BY DEF Types, StreamTypes
<1>2. QED BY <1>1

(* What FileInfo does, with the port that is found: the own one.           *)
StoresOwn(s, c) ==
  \E t \in Inserted(table[s], InfosOf(c, Head(sent[c]).files, addr[c], c)) :
     table' = [table EXCEPT ![s] = t]

PutsOwn(s, c) ==
  sharePkt' = [sharePkt EXCEPT ![s] = InfosOf(c, Head(sent[c]).files, addr[c], c)]

(* FileInfo stores by the own port of c, and has the same infos to share.  *)
LEMMA FileInfoStep ==
  ASSUME NEW s \in Supers, NEW c \in Children, FileInfo(s, c)
  PROVE  /\ Handles(s, c, "FILE_INFO") /\ Read(c)
         /\ StoresOwn(s, c) /\ PutsOwn(s, c)
         /\ Write(c, [type |-> "FILE_INFO_RECV_SUCCESS"])
         /\ superPc' = [superPc EXCEPT ![s] = "connect"]
         /\ UNCHANGED <<otherSuper, childPorts, accepted, backlog, addr, children, lost>>
<1>1. PICK port \in PortOf(childPorts[s], c) :
        LET infos == InfosOf(c, Head(sent[c]).files, addr[c], port)
        IN  /\ \E t \in Inserted(table[s], infos) : table' = [table EXCEPT ![s] = t]
            /\ sharePkt' = [sharePkt EXCEPT ![s] = infos]
  BY DEF FileInfo
<1>2. port = c
  BY PortIsOwn
<1>3. QED BY <1>1, <1>2 DEF FileInfo, StoresOwn, PutsOwn

(* What a step leaves alone keeps its types.                               *)
LEMMA SameTypes ==
  ASSUME Types
  PROVE  /\ UNCHANGED <<superPc, otherSuper, childPorts, accepted>> => SuperTypes'
         /\ UNCHANGED table => TableTypes'
         /\ UNCHANGED <<sent, answers, reset>> => StreamTypes'
         /\ UNCHANGED <<backlog, addr>> => AddrTypes'
         /\ UNCHANGED <<children, lost>> => ChildTypes'
BY DEF Types, SuperTypes, TableTypes, StreamTypes, AddrTypes, AddrOK, ChildTypes, children

(* Every step keeps the types.                                             *)
LEMMA TypesKept ==
  Types /\ PktsOK /\ [Next]_vars => Types'
<1> SUFFICES ASSUME Types, PktsOK, [Next]_vars
             PROVE  Types'
  OBVIOUS
<1> USE Nodes
<1>1. CASE UNCHANGED vars
  BY <1>1, SameTypes DEF vars, supers, network, Types
<1>2. ASSUME NEW s \in Supers, Listen(s)
      PROVE  Types'
  <2>1. SuperTypes'
    BY <1>2 DEF Listen, Types, SuperTypes
  <2>2. TableTypes'
    BY <1>2, SameTypes DEF Listen, supers, network
  <2>3. StreamTypes'
    BY <1>2, SameTypes DEF Listen, supers, network
  <2>4. AddrTypes'
    BY <1>2, SameTypes DEF Listen, supers, network
  <2>5. ChildTypes'
    BY <1>2, SameTypes DEF Listen, supers, network
  <2>6. QED BY <2>1, <2>2, <2>3, <2>4, <2>5 DEF Types
<1>3. ASSUME NEW s \in Supers, Accept(s)
      PROVE  Types'
  <2>1. SuperTypes'
    BY <1>3 DEF Accept, Types, SuperTypes
  <2>2. TableTypes'
    BY <1>3, SameTypes DEF Accept, supers, network
  <2>3. StreamTypes'
    BY <1>3, SameTypes DEF Accept, supers, network
  <2>4. AddrTypes'
    BY <1>3 DEF Accept, AcceptedAs, Types, AddrTypes, AddrOK
  <2>5. ChildTypes'
    BY <1>3, SameTypes DEF Accept, supers, network
  <2>6. QED BY <2>1, <2>2, <2>3, <2>4, <2>5 DEF Types
<1>4. ASSUME NEW s \in Supers, ShareReturned(s)
      PROVE  Types'
  <2>1. SuperTypes'
    BY <1>4 DEF ShareReturned, Types, SuperTypes
  <2>2. TableTypes'
    BY <1>4, SameTypes DEF ShareReturned, supers, network
  <2>3. StreamTypes'
    BY <1>4, AnsweredTypes DEF ShareReturned, Types, StreamTypes
  <2>4. AddrTypes'
    BY <1>4, HangupTypes DEF ShareReturned, Types, AddrTypes
  <2>5. ChildTypes'
    BY <1>4, SameTypes DEF ShareReturned, supers, network
  <2>6. QED BY <2>1, <2>2, <2>3, <2>4, <2>5 DEF Types
<1>5. ASSUME NEW s \in Supers, ShareUnanswered(s)
      PROVE  Types'
  <2>1. SuperTypes'
    BY <1>5 DEF ShareUnanswered, Types, SuperTypes
  <2>2. TableTypes'
    BY <1>5, SameTypes DEF ShareUnanswered, supers, network
  <2>3. StreamTypes'
    BY <1>5, SameTypes DEF ShareUnanswered, supers, network
  <2>4. AddrTypes'
    BY <1>5, HangupTypes DEF ShareUnanswered, Types, AddrTypes
  <2>5. ChildTypes'
    BY <1>5, SameTypes DEF ShareUnanswered, supers, network
  <2>6. QED BY <2>1, <2>2, <2>3, <2>4, <2>5 DEF Types
<1>6. ASSUME NEW s \in Supers, ShareFailed(s)
      PROVE  Types'
  <2>1. SuperTypes'
    BY <1>6, SuperEndsTypes DEF ShareFailed, Types, SuperTypes
  <2>2. TableTypes'
    BY <1>6, SameTypes DEF ShareFailed, supers, network
  <2>3. StreamTypes'
    BY <1>6, SuperEndsTypes DEF ShareFailed, Types, StreamTypes
  <2>4. AddrTypes'
    BY <1>6, SuperEndsTypes DEF ShareFailed, Types, AddrTypes, AddrOK
  <2>5. ChildTypes'
    BY <1>6, SameTypes DEF ShareFailed, supers, network
  <2>6. QED BY <2>1, <2>2, <2>3, <2>4, <2>5 DEF Types
<1>7. CASE SayHello
  <2>1. SuperTypes'
    BY <1>7 DEF SayHello, Types, SuperTypes
  <2>2. TableTypes'
    BY <1>7, SameTypes DEF SayHello, supers, network
  <2>3. StreamTypes'
    BY <1>7, BareMsgs, ConnectTypes DEF SayHello, Types, StreamTypes, Supers
  <2>4. AddrTypes'
    BY <1>7, BareMsgs, ConnectTypes DEF SayHello, Types, AddrTypes, AddrOK, Supers
  <2>5. ChildTypes'
    BY <1>7, SameTypes DEF SayHello, supers, network
  <2>6. QED BY <2>1, <2>2, <2>3, <2>4, <2>5 DEF Types
<1>8. CASE HelloRefused
  <2>1. SuperTypes'
    BY <1>8 DEF HelloRefused, Types, SuperTypes
  <2>2. TableTypes'
    BY <1>8, SameTypes DEF HelloRefused, supers, network
  <2>3. StreamTypes'
    BY <1>8, SameTypes DEF HelloRefused, supers, network
  <2>4. AddrTypes'
    BY <1>8, SameTypes DEF HelloRefused, supers, network
  <2>5. ChildTypes'
    BY <1>8, SameTypes DEF HelloRefused, supers, network
  <2>6. QED BY <2>1, <2>2, <2>3, <2>4, <2>5 DEF Types
<1>9. CASE HelloReturned
  <2>1. SuperTypes'
    BY <1>9 DEF HelloReturned, Types, SuperTypes
  <2>2. TableTypes'
    BY <1>9, SameTypes DEF HelloReturned, supers, network
  <2>3. StreamTypes'
    BY <1>9, AnsweredTypes DEF HelloReturned, Types, StreamTypes, Supers
  <2>4. AddrTypes'
    BY <1>9, HangupTypes DEF HelloReturned, Types, AddrTypes, Supers
  <2>5. ChildTypes'
    BY <1>9, SameTypes DEF HelloReturned, supers, network
  <2>6. QED BY <2>1, <2>2, <2>3, <2>4, <2>5 DEF Types
<1>10. CASE HelloNoAnswer
  <2>1. SuperTypes'
    BY <1>10 DEF HelloNoAnswer, Types, SuperTypes
  <2>2. TableTypes'
    BY <1>10, SameTypes DEF HelloNoAnswer, supers, network
  <2>3. StreamTypes'
    BY <1>10, SameTypes DEF HelloNoAnswer, supers, network
  <2>4. AddrTypes'
    BY <1>10, HangupTypes DEF HelloNoAnswer, Types, AddrTypes, Supers
  <2>5. ChildTypes'
    BY <1>10, SameTypes DEF HelloNoAnswer, supers, network
  <2>6. QED BY <2>1, <2>2, <2>3, <2>4, <2>5 DEF Types
<1>11. ASSUME NEW s \in Supers, NEW x \in Supers, HelloSuperToSuper(s, x)
       PROVE  Types'
  <2>1. SuperTypes'
    BY <1>11 DEF HelloSuperToSuper, Types, SuperTypes, AddrTypes, AddrOK
  <2>2. TableTypes'
    BY <1>11, SameTypes DEF HelloSuperToSuper, supers, network
  <2>3. StreamTypes'
    BY <1>11, BareMsgs, ReadTypes, WriteTypes DEF HelloSuperToSuper, Handles, Types, StreamTypes
  <2>4. AddrTypes'
    BY <1>11, SameTypes DEF HelloSuperToSuper, supers, network
  <2>5. ChildTypes'
    BY <1>11, SameTypes DEF HelloSuperToSuper, supers, network
  <2>6. QED BY <2>1, <2>2, <2>3, <2>4, <2>5 DEF Types
<1>12. ASSUME NEW s \in Supers, NEW x \in Supers, FileInfoShare(s, x)
       PROVE  Types'
  <2>1. Head(sent[x]).infos \in SUBSET Info
    BY <1>12, HeadIsMsg, MsgParts DEF FileInfoShare, Handles
  <2>2. SuperTypes'
    BY <1>12, SameTypes DEF FileInfoShare, supers, network
  <2>3. TableTypes'
    <3>1. PICK t \in Inserted(table[s], Head(sent[x]).infos) : table' = [table EXCEPT ![s] = t]
      BY <1>12 DEF FileInfoShare
    <3>2. QED BY <2>1, <3>1, InsertedTypes
  <2>4. StreamTypes'
    BY <1>12, BareMsgs, ReadTypes, WriteTypes DEF FileInfoShare, Handles, Types, StreamTypes
  <2>5. AddrTypes'
    BY <1>12, SameTypes DEF FileInfoShare, supers, network
  <2>6. ChildTypes'
    BY <1>12, SameTypes DEF FileInfoShare, supers, network
  <2>7. QED BY <2>1, <2>2, <2>3, <2>4, <2>5, <2>6 DEF Types
<1>13. ASSUME NEW s \in Supers, NEW x \in Supers, FileInfoShareTooLong(s, x)
       PROVE  Types'
  <2>1. Head(sent[x]).infos \in SUBSET Info
    BY <1>13, HeadIsMsg, MsgParts DEF FileInfoShareTooLong, Handles
  <2>2. SuperTypes'
    BY <1>13, SameTypes DEF FileInfoShareTooLong, supers, network
  <2>3. TableTypes'
    BY <1>13, SameTypes DEF FileInfoShareTooLong, supers, network
  <2>4. StreamTypes'
    BY <1>13, BareMsgs, ReadPartTypes, WriteTypes DEF FileInfoShareTooLong, Handles, Types, StreamTypes
  <2>5. AddrTypes'
    BY <1>13, SameTypes DEF FileInfoShareTooLong, supers, network
  <2>6. ChildTypes'
    BY <1>13, <2>1 DEF FileInfoShareTooLong, children, Info, Types, ChildTypes
  <2>7. QED BY <2>1, <2>2, <2>3, <2>4, <2>5, <2>6 DEF Types
<1>14. ASSUME NEW s \in Supers, NEW c \in Children, HelloFromChild(s, c)
       PROVE  Types'
  <2>1. SuperTypes'
    BY <1>14, OverlayAssumption DEF HelloFromChild, Registered, Types, SuperTypes
  <2>2. TableTypes'
    BY <1>14, SameTypes DEF HelloFromChild, supers, network
  <2>3. StreamTypes'
    BY <1>14, BareMsgs, ReadTypes, WriteTypes DEF HelloFromChild, Handles, Types, StreamTypes
  <2>4. AddrTypes'
    BY <1>14, SameTypes DEF HelloFromChild, supers, network
  <2>5. ChildTypes'
    BY <1>14, SameTypes DEF HelloFromChild, supers, network
  <2>6. QED BY <2>1, <2>2, <2>3, <2>4, <2>5 DEF Types
<1>15. ASSUME NEW s \in Supers, NEW c \in Children, FileInfoTooLong(s, c)
       PROVE  Types'
  <2>1. SuperTypes'
    BY <1>15, SameTypes DEF FileInfoTooLong, supers, network
  <2>2. TableTypes'
    BY <1>15, SameTypes DEF FileInfoTooLong, supers, network
  <2>3. StreamTypes'
    BY <1>15, BareMsgs, ReadPartTypes, WriteTypes DEF FileInfoTooLong, Handles, Types, StreamTypes
  <2>4. AddrTypes'
    BY <1>15, SameTypes DEF FileInfoTooLong, supers, network
  <2>5. ChildTypes'
    BY <1>15, SameTypes DEF FileInfoTooLong, supers, network
  <2>6. QED BY <2>1, <2>2, <2>3, <2>4, <2>5 DEF Types
<1>16. ASSUME NEW s \in Supers, NEW c \in Children, FileInfoNoPort(s, c)
       PROVE  Types'
  <2>1. SuperTypes'
    BY <1>16, SameTypes DEF FileInfoNoPort, supers, network
  <2>2. TableTypes'
    BY <1>16, SameTypes DEF FileInfoNoPort, supers, network
  <2>3. StreamTypes'
    BY <1>16, ReadTypes DEF FileInfoNoPort, Handles, Types, StreamTypes
  <2>4. AddrTypes'
    BY <1>16, SameTypes DEF FileInfoNoPort, supers, network
  <2>5. ChildTypes'
    BY <1>16, SameTypes DEF FileInfoNoPort, supers, network
  <2>6. QED BY <2>1, <2>2, <2>3, <2>4, <2>5 DEF Types
<1>17. ASSUME NEW s \in Supers, NEW c \in Children, FileInfo(s, c)
       PROVE  Types'
  <2> DEFINE infos == InfosOf(c, Head(sent[c]).files, addr[c], c)
  <2>1. infos \in SUBSET Info
    <3>1. Head(sent[c]).files \in SUBSET Names
      BY <1>17, FileInfoStep, HeadIsMsg, MsgParts DEF Handles
    <3>2. addr[c] \in Children \cup {Unwritten}
      BY <1>17, FileInfoStep DEF Handles, Types, AddrTypes, AddrOK
    <3>3. QED BY <3>1, <3>2, InfosOfType
  <2>2. TableTypes'
    <3>1. PICK t \in Inserted(table[s], infos) : table' = [table EXCEPT ![s] = t]
      BY <1>17, FileInfoStep DEF StoresOwn
    <3>2. QED BY <2>1, <3>1, InsertedTypes
  <2>3. answers' \in [Clients -> Seq(Msg)] /\ reset' \subseteq Clients
    BY <1>17, FileInfoStep, WriteTypes, BareMsgs
  <2>4. sent' \in [Clients -> Seq(Msg)]
    BY <1>17, FileInfoStep, ReadTypes DEF Handles
  <2>5. SuperTypes'
    <3>1. superPc' = [superPc EXCEPT ![s] = "connect"]
          /\ UNCHANGED <<otherSuper, childPorts, accepted>>
      BY <1>17, FileInfoStep
    <3>2. QED BY <3>1 DEF Types, SuperTypes
  <2>6. AddrTypes' /\ ChildTypes'
    <3>1. UNCHANGED <<backlog, addr>> /\ UNCHANGED <<children, lost>>
      BY <1>17, FileInfoStep
    <3>2. QED BY <3>1, SameTypes
  <2>7. QED BY <2>2, <2>3, <2>4, <2>5, <2>6 DEF Types, StreamTypes
<1>18. ASSUME NEW s \in Supers, NEW c \in Children, SearchQuery(s, c)
       PROVE  Types'
  <2>1. SuperTypes'
    BY <1>18, SameTypes DEF SearchQuery, supers, network
  <2>2. TableTypes'
    BY <1>18, SameTypes DEF SearchQuery, supers, network
  <2>3. StreamTypes'
    BY <1>18, BareMsgs, FullMsgs, ReadTypes, WriteTypes DEF SearchQuery, Handles, Found, Types, StreamTypes, TableTypes
  <2>4. AddrTypes'
    BY <1>18, SameTypes DEF SearchQuery, supers, network
  <2>5. ChildTypes'
    BY <1>18, SameTypes DEF SearchQuery, supers, network
  <2>6. QED BY <2>1, <2>2, <2>3, <2>4, <2>5 DEF Types
<1>19. ASSUME NEW s \in Supers, NEW c \in Children, SearchForEver(s, c)
       PROVE  Types'
  <2>1. SuperTypes'
    BY <1>19 DEF SearchForEver, Types, SuperTypes
  <2>2. TableTypes'
    BY <1>19, SameTypes DEF SearchForEver, supers, network
  <2>3. StreamTypes'
    BY <1>19, ReadTypes DEF SearchForEver, Handles, Types, StreamTypes
  <2>4. AddrTypes'
    BY <1>19, SameTypes DEF SearchForEver, supers, network
  <2>5. ChildTypes'
    BY <1>19, SameTypes DEF SearchForEver, supers, network
  <2>6. QED BY <2>1, <2>2, <2>3, <2>4, <2>5 DEF Types
<1>20. ASSUME NEW s \in Supers, ShareConnect(s)
       PROVE  Types'
  <2> DEFINE share == [type |-> "FILE_INFO_SHARE", infos |-> sharePkt[s]]
  <2>0. share \in Msg /\ NotShared(s) \subseteq Children
    BY PktTypes
  <2>1. SuperTypes'
    BY <1>20 DEF ShareConnect, Types, SuperTypes
  <2>2. TableTypes'
    BY <1>20, SameTypes DEF ShareConnect
  <2>3. sent' \in [Clients -> Seq(Msg)] /\ backlog' \in [Supers -> Seq(Clients)]
    <3>1. CASE Connect(s, share)
      BY <2>0, <3>1, ConnectTypes
    <3>2. CASE UNCHANGED <<backlog, sent>>
      BY <3>2 DEF Types, StreamTypes, AddrTypes
    <3>3. QED BY <1>20, <3>1, <3>2 DEF ShareConnect
  <2>4. StreamTypes'
    BY <1>20, <2>3 DEF ShareConnect, Types, StreamTypes
  <2>5. AddrTypes'
    BY <1>20, <2>3 DEF ShareConnect, Types, AddrTypes, AddrOK
  <2>6. ChildTypes'
    BY <1>20, <2>0 DEF ShareConnect, children, Types, ChildTypes
  <2>7. QED BY <2>1, <2>2, <2>4, <2>5, <2>6 DEF Types
<1>21. ASSUME NEW s \in Supers, NEW x \in Clients, Rest(s, x)
       PROVE  Types'
  <2>1. SuperTypes'
    BY <1>21, SameTypes DEF Rest, supers, network
  <2>2. TableTypes'
    BY <1>21, SameTypes DEF Rest, supers, network
  <2>3. StreamTypes'
    BY <1>21, ReadTypes DEF Rest, Types, StreamTypes
  <2>4. AddrTypes'
    BY <1>21, SameTypes DEF Rest, supers, network
  <2>5. ChildTypes'
    BY <1>21, SameTypes DEF Rest, supers, network
  <2>6. QED BY <2>1, <2>2, <2>3, <2>4, <2>5 DEF Types
<1>22. ASSUME NEW s \in Supers, SuperKilled(s)
       PROVE  Types'
  <2>1. SuperTypes'
    BY <1>22, SuperEndsTypes DEF SuperKilled, Types, SuperTypes
  <2>2. TableTypes'
    BY <1>22, SameTypes DEF SuperKilled, supers, network
  <2>3. StreamTypes'
    <3>1. sent' \in [Clients -> Seq(Msg)]
      BY <1>22, SuperEndsTypes DEF SuperKilled
    <3>2. answers' = [answers EXCEPT ![s] = <<>>] /\ reset' \subseteq reset \cup {s}
      BY <1>22 DEF SuperKilled
    <3>3. <<>> \in Seq(Msg)
      OBVIOUS
    <3>4. QED BY <3>1, <3>2, <3>3 DEF Types, StreamTypes
  <2>4. AddrTypes'
    BY <1>22, SuperEndsTypes DEF SuperKilled, Types, AddrTypes, AddrOK
  <2>5. ChildTypes'
    BY <1>22, PktTypes DEF SuperKilled, children, Types, ChildTypes
  <2>6. QED BY <2>1, <2>2, <2>3, <2>4, <2>5 DEF Types
<1>23. ASSUME NEW c \in Children, StartChild(c)
       PROVE  Types'
  <2>1. SuperTypes'
    BY <1>23, SameTypes DEF StartChild, supers, network
  <2>2. TableTypes'
    BY <1>23, SameTypes DEF StartChild, supers, network
  <2>3. StreamTypes'
    BY <1>23, BareMsgs, ConnectTypes DEF StartChild, Types, StreamTypes
  <2>4. AddrTypes'
    BY <1>23, BareMsgs, ConnectTypes DEF StartChild, Types, AddrTypes, AddrOK
  <2>5. ChildTypes'
    BY <1>23 DEF StartChild, ChildGoes, Types, ChildTypes
  <2>6. QED BY <2>1, <2>2, <2>3, <2>4, <2>5 DEF Types
<1>24. ASSUME NEW c \in Children, HelloFromSuper(c)
       PROVE  Types'
  <2>1. [type |-> "FILE_INFO", files |-> FilesOf[c]] \in Msg
    BY FullMsgs, OverlayAssumption
  <2>2. SuperTypes'
    BY <1>24, SameTypes DEF HelloFromSuper, supers, network
  <2>3. TableTypes'
    BY <1>24, SameTypes DEF HelloFromSuper, supers, network
  <2>4. StreamTypes'
    <3> DEFINE q == Append(sent[c], [type |-> "FILE_INFO", files |-> FilesOf[c]])
    <3>1. q \in Seq(Msg)
      BY <2>1 DEF Types, StreamTypes
    <3>2. sent' \in [Clients -> Seq(Msg)]
      <4>1. sent' = sent \/ sent' = [sent EXCEPT ![c] = q]
        BY <1>24 DEF HelloFromSuper
      <4> HIDE DEF q
      <4>2. sent \in [Clients -> Seq(Msg)]
        BY DEF Types, StreamTypes
      <4>3. CASE sent' = sent
        BY <4>2, <4>3
      <4>4. CASE sent' = [sent EXCEPT ![c] = q]
        BY <3>1, <4>2, <4>4
      <4>5. QED BY <4>1, <4>3, <4>4
    <3>3. QED BY <1>24, <3>2, AnsweredTypes DEF HelloFromSuper, Types, StreamTypes
  <2>5. AddrTypes'
    BY <1>24, SameTypes DEF HelloFromSuper, supers, network
  <2>6. ChildTypes'
    BY <1>24 DEF HelloFromSuper, ChildGoes, Types, ChildTypes
  <2>7. QED BY <2>1, <2>2, <2>3, <2>4, <2>5, <2>6 DEF Types
<1>25. ASSUME NEW c \in Children, FileInfoReturned(c)
       PROVE  Types'
  <2>1. SuperTypes'
    BY <1>25, SameTypes DEF FileInfoReturned, supers, network
  <2>2. TableTypes'
    BY <1>25, SameTypes DEF FileInfoReturned, supers, network
  <2>3. StreamTypes'
    BY <1>25, AnsweredTypes DEF FileInfoReturned, Types, StreamTypes
  <2>4. AddrTypes'
    BY <1>25, HangupTypes DEF FileInfoReturned, Types, AddrTypes
  <2>5. ChildTypes'
    BY <1>25 DEF FileInfoReturned, ChildGoes, Types, ChildTypes
  <2>6. QED BY <2>1, <2>2, <2>3, <2>4, <2>5 DEF Types
<1>26. ASSUME NEW c \in Children, SearchReturned(c)
       PROVE  Types'
  <2>1. SuperTypes'
    BY <1>26, SameTypes DEF SearchReturned, supers, network
  <2>2. TableTypes'
    BY <1>26, SameTypes DEF SearchReturned, supers, network
  <2>3. StreamTypes'
    BY <1>26, AnsweredTypes DEF SearchReturned, Types, StreamTypes
  <2>4. AddrTypes'
    BY <1>26, HangupTypes DEF SearchReturned, Types, AddrTypes
  <2>5. ChildTypes'
    BY <1>26 DEF SearchReturned, ChildGoes, Types, ChildTypes
  <2>6. QED BY <2>1, <2>2, <2>3, <2>4, <2>5 DEF Types
<1>27. ASSUME NEW c \in Children, ChildNoAnswer(c)
       PROVE  Types'
  <2>1. SuperTypes'
    BY <1>27, SameTypes DEF ChildNoAnswer, supers, network
  <2>2. TableTypes'
    BY <1>27, SameTypes DEF ChildNoAnswer, supers, network
  <2>3. StreamTypes'
    BY <1>27, SameTypes DEF ChildNoAnswer, supers, network
  <2>4. AddrTypes'
    BY <1>27, HangupTypes DEF ChildNoAnswer, Types, AddrTypes
  <2>5. ChildTypes'
    BY <1>27 DEF ChildNoAnswer, ChildGoes, Types, ChildTypes
  <2>6. QED BY <2>1, <2>2, <2>3, <2>4, <2>5 DEF Types
<1>28. ASSUME NEW c \in Children, NEW f \in Names, Search(c, f)
       PROVE  Types'
  <2>1. SuperTypes'
    BY <1>28, SameTypes DEF Search, supers, network
  <2>2. TableTypes'
    BY <1>28, SameTypes DEF Search, supers, network
  <2>3. StreamTypes'
    BY <1>28, FullMsgs, ConnectTypes DEF Search, Types, StreamTypes
  <2>4. AddrTypes'
    BY <1>28, FullMsgs, ConnectTypes DEF Search, Types, AddrTypes, AddrOK
  <2>5. ChildTypes'
    <3>1. promised' \in [Children -> BOOLEAN]
      <4> DEFINE p == ~Full(Home[c]) /\ \E d \in Children :
                        Home[d] = Home[c] /\ Served(d) /\ f \in FilesOf[d]
      <4>1. promised' = [promised EXCEPT ![c] = p] /\ p \in BOOLEAN
        BY <1>28 DEF Search
      <4> HIDE DEF p
      <4>2. QED BY <4>1 DEF Types, ChildTypes
    <3>2. searches' \in [Children -> 0 .. MaxSearches]
      BY <1>28, OverlayAssumption DEF Search, Types, ChildTypes
    <3>3. QED BY <1>28, <3>1, <3>2 DEF Search, ChildGoes, Types, ChildTypes
  <2>6. QED BY <2>1, <2>2, <2>3, <2>4, <2>5 DEF Types
<1>29. ASSUME NEW c \in Children, ChildKilled(c)
       PROVE  Types'
  <2>1. SuperTypes'
    BY <1>29, SameTypes DEF ChildKilled, supers, network
  <2>2. TableTypes'
    BY <1>29, SameTypes DEF ChildKilled, supers, network
  <2>3. StreamTypes'
    BY <1>29 DEF ChildKilled, Types, StreamTypes
  <2>4. AddrTypes'
    BY <1>29, SameTypes DEF ChildKilled, supers, network
  <2>5. ChildTypes'
    BY <1>29 DEF ChildKilled, ChildGoes, Types, ChildTypes
  <2>6. QED BY <2>1, <2>2, <2>3, <2>4, <2>5 DEF Types
<1>30. QED
  BY <1>1, <1>2, <1>3, <1>4, <1>5, <1>6, <1>7, <1>8, <1>9, <1>10, <1>11,
     <1>12, <1>13, <1>14, <1>15, <1>16, <1>17, <1>18, <1>19, <1>20, <1>21,
     <1>22, <1>23, <1>24, <1>25, <1>26, <1>27, <1>28, <1>29
  DEF Next, Super, Child, User

-----------------------------------------------------------------------------
(* What only grows                                                         *)

(* A node that has ended stays so, one that listens goes on until it ends, *)
(* a search that runs round the table ends with the process, ports are     *)
(* added while there are slots, tables and the ghost lost never shrink.    *)
PortsGrow(s) ==
  \/ childPorts'[s] = childPorts[s]
  \/ /\ Len(childPorts[s]) < CHILD_NUMBER
     /\ \E c \in Children : childPorts'[s] = Append(childPorts[s], c)

Grows ==
  /\ \A s \in Supers : \/ superPc'[s] = superPc[s] \/ superPc'[s] = "exited"
                       \/ superPc[s] \notin {"search", "exited"}
  /\ \A s \in Supers : Listening(s) => Listening(s)' \/ superPc'[s] = "exited"
  /\ \A s \in Supers : PortsGrow(s)
  /\ \A c \in Children : childPc'[c] = childPc[c] \/ childPc[c] # "exited"
  /\ \A s \in Supers : table[s] \subseteq table'[s]
  /\ lost \subseteq lost'

(* Every step grows so.                                                    *)
LEMMA StepGrows ==
  Types /\ [Next]_vars => Grows
<1> SUFFICES ASSUME Types, [Next]_vars
             PROVE  Grows
  OBVIOUS
<1> USE DEF supers, network, children, Grows, PortsGrow, Listening
<1>0. /\ DOMAIN superPc = Supers /\ DOMAIN childPorts = Supers /\ DOMAIN table = Supers
      /\ DOMAIN childPc = Children
  BY DEF Types, SuperTypes, TableTypes, ChildTypes
<1>1. CASE UNCHANGED vars
  BY <1>1 DEF vars
<1>2. ASSUME NEW s \in Supers, Listen(s) \/ Accept(s) \/ ShareReturned(s) \/ ShareUnanswered(s)
      PROVE  Grows
  BY <1>0, <1>2 DEF Listen, Accept, ShareReturned, ShareUnanswered
<1>3. ASSUME NEW s \in Supers, ShareFailed(s) \/ SuperKilled(s)
      PROVE  Grows
  BY <1>0, <1>3 DEF ShareFailed, SuperKilled, SuperEnds
<1>4. CASE SayHello \/ HelloRefused \/ HelloReturned \/ HelloNoAnswer
  BY <1>0, <1>4 DEF SayHello, HelloRefused, HelloReturned, HelloNoAnswer
<1>5. ASSUME NEW s \in Supers, NEW x \in Supers,
             HelloSuperToSuper(s, x) \/ FileInfoShareTooLong(s, x)
      PROVE  Grows
  BY <1>5 DEF HelloSuperToSuper, FileInfoShareTooLong
<1>6. ASSUME NEW s \in Supers, NEW x \in Supers, FileInfoShare(s, x)
      PROVE  Grows
  <2>1. PICK t \in Inserted(table[s], Head(sent[x]).infos) : table' = [table EXCEPT ![s] = t]
    BY <1>6 DEF FileInfoShare
  <2>2. table[s] \subseteq t
    BY DEF Inserted
  <2>3. QED BY <1>0, <1>6, <2>1, <2>2 DEF FileInfoShare
<1>7. ASSUME NEW s \in Supers, NEW c \in Children, HelloFromChild(s, c)
      PROVE  Grows
  BY <1>0, <1>7 DEF HelloFromChild, Registered
<1>8. ASSUME NEW s \in Supers, NEW c \in Children,
             FileInfoTooLong(s, c) \/ FileInfoNoPort(s, c) \/ SearchQuery(s, c)
      PROVE  Grows
  BY <1>8 DEF FileInfoTooLong, FileInfoNoPort, SearchQuery
<1>9. ASSUME NEW s \in Supers, NEW c \in Children, FileInfo(s, c)
      PROVE  Grows
  <2>1. PICK t \in Inserted(table[s], InfosOf(c, Head(sent[c]).files, addr[c], c)) :
               table' = [table EXCEPT ![s] = t]
    BY <1>9, FileInfoStep DEF StoresOwn
  <2>2. table[s] \subseteq t
    BY DEF Inserted
  <2>3. /\ superPc[s] = "loop" /\ superPc' = [superPc EXCEPT ![s] = "connect"]
        /\ UNCHANGED <<childPorts, children, lost>>
    BY <1>9, FileInfoStep DEF Handles
  <2>4. QED BY <1>0, <2>1, <2>2, <2>3
<1>10. ASSUME NEW s \in Supers, NEW c \in Children, SearchForEver(s, c)
       PROVE  Grows
  BY <1>0, <1>10 DEF SearchForEver, Handles
<1>11. ASSUME NEW s \in Supers, ShareConnect(s)
       PROVE  Grows
  BY <1>0, <1>11 DEF ShareConnect
<1>12. ASSUME NEW s \in Supers, NEW x \in Clients, Rest(s, x)
       PROVE  Grows
  BY <1>12 DEF Rest
<1>13. ASSUME NEW c \in Children, StartChild(c) \/ HelloFromSuper(c) \/ FileInfoReturned(c)
                                  \/ SearchReturned(c)
       PROVE  Grows
  BY <1>0, <1>13 DEF StartChild, HelloFromSuper, FileInfoReturned, SearchReturned, ChildGoes
<1>14. ASSUME NEW c \in Children, ChildNoAnswer(c) \/ ChildKilled(c)
       PROVE  Grows
  BY <1>0, <1>14 DEF ChildNoAnswer, ChildKilled, ChildGoes
<1>15. ASSUME NEW c \in Children, NEW f \in Names, Search(c, f)
       PROVE  Grows
  BY <1>0, <1>15 DEF Search, ChildGoes
<1>16. QED
  BY <1>1, <1>2, <1>3, <1>4, <1>5, <1>6, <1>7, <1>8, <1>9, <1>10, <1>11,
     <1>12, <1>13, <1>14, <1>15
  DEF Next, Super, Child, User

(* The dead stay dead.                                                     *)
LEMMA DeadStays ==
  ASSUME Grows, NEW x \in Clients, Dead(x)
  PROVE  Dead(x)'
BY Nodes DEF Grows, Dead

(* A child has a slot, or there is none, from its registration on.         *)
LEMMA SlotStays ==
  ASSUME Types, Grows, NEW c \in Children, HasSlot(c)
  PROVE  HasSlot(c)'
<1> DEFINE ports == childPorts[Home[c]]
<1>1. Home[c] \in Supers
  BY Nodes
<1>2. ports \in Seq(Children)
  BY <1>1 DEF Types, SuperTypes
<1>3. CASE childPorts'[Home[c]] = ports
  BY <1>3 DEF HasSlot
<1>4. ASSUME NEW d \in Children, Len(ports) < CHILD_NUMBER,
             childPorts'[Home[c]] = Append(ports, d)
      PROVE  HasSlot(c)'
  <2>1. Len(ports) # CHILD_NUMBER
    BY <1>2, <1>4, OverlayAssumption
  <2>2. PICK i \in 1 .. Len(ports) : ports[i] = c
    BY <2>1 DEF HasSlot, PortOf
  <2>3. i \in 1 .. Len(Append(ports, d)) /\ Append(ports, d)[i] = c
    BY <1>2, <2>2
  <2>4. PortOf(Append(ports, d), c) # {}
    BY <2>3 DEF PortOf
  <2>5. QED BY <1>4, <2>4 DEF HasSlot
<1>5. PortsGrow(Home[c])
  BY <1>1 DEF Grows
<1>6. QED BY <1>3, <1>4, <1>5 DEF PortsGrow

(* The point of a client in its own program, and what it searches for.     *)
OwnStays(x) ==
  IF x \in Supers THEN superPc'[x] = superPc[x]
                  ELSE childPc'[x] = childPc[x] /\ wanted'[x] = wanted[x]

(* The requests of a client by type.                                       *)
LEMMA AsksTypes ==
  /\ \A x \in Supers : \A m \in Asks(x) : m.type \in {"HELLO_SUPER_TO_SUPER", "FILE_INFO_SHARE"}
  /\ \A c \in Children : \A m \in Asks(c) : m.type \in {"HELLO_FROM_CHILD", "FILE_INFO", "SEARCH_QUERY"}
BY Nodes DEF Asks, SharesOf

(* A client that stays where it is waits as before.                        *)
LEMMA OwnStaysWaits ==
  ASSUME NEW x \in Clients, OwnStays(x)
  PROVE  /\ Dead(x)' <=> Dead(x)
         /\ Waits(x)' <=> Waits(x)
         /\ \A m \in Asks(x) : WaitsFor(x, m) => WaitsFor(x, m)'
<1>1. CASE x \in Supers
  <2>1. superPc'[x] = superPc[x]
    BY <1>1 DEF OwnStays
  <2>2. \A m \in Asks(x) : m.type \notin {"HELLO_FROM_CHILD", "FILE_INFO", "SEARCH_QUERY"}
    BY <1>1, AsksTypes
  <2>3. QED BY <1>1, <2>1, <2>2 DEF Dead, Waits, WaitsFor
<1>2. CASE x \notin Supers
  <2>1. childPc'[x] = childPc[x] /\ wanted'[x] = wanted[x]
    BY <1>2 DEF OwnStays
  <2>2. QED BY <1>2, <2>1 DEF Dead, Waits, WaitsFor
<1>3. QED BY <1>1, <1>2

(* Nobody will ever answer a client that is forgotten.                     *)
LEMMA ForgottenStays ==
  ASSUME Types, Grows, NEW x \in Clients, OwnStays(x), Forgotten(x) \/ Dead(Server(x))
  PROVE  Forgotten(x)' \/ Dead(Server(x))'
<1>1. CASE Dead(Server(x))
  BY <1>1, DeadStays, Nodes
<1>2. CASE Forgotten(x)
  <2>1. x \in Children /\ Home[x] \in Supers /\ Server(x) = Home[x]
    BY <1>2, Nodes DEF Forgotten
  <2>2. childPc'[x] = childPc[x]
    BY <2>1, Nodes DEF OwnStays
  <2>3. CASE childPc[x] = "info" /\ PortOf(childPorts[Home[x]], x) = {}
               /\ Len(childPorts[Home[x]]) = CHILD_NUMBER
    <3>1. childPorts'[Home[x]] = childPorts[Home[x]]
      BY <2>1, <2>3, OverlayAssumption DEF Grows, PortsGrow
    <3>2. QED BY <2>1, <2>2, <2>3, <3>1 DEF Forgotten
  <2>4. CASE childPc[x] = "search" /\ superPc[Home[x]] = "search"
    <3>1. superPc'[Home[x]] \in {"search", "exited"}
      BY <2>1, <2>4 DEF Grows
    <3>2. QED BY <2>1, <2>2, <2>4, <3>1 DEF Forgotten, Dead
  <2>5. QED BY <1>2, <2>3, <2>4 DEF Forgotten
<1>3. QED BY <1>1, <1>2

-----------------------------------------------------------------------------
(* Requests and answers                                                    *)

(* What a stream holds after a packet is put at its end or taken out.      *)
LEMMA StreamEnds ==
  ASSUME NEW r, NEW m
  PROVE  /\ Append(<<>>, m) = <<m>>
         /\ Append(<<r>>, m) = <<r, m>>
         /\ Head(<<m>>) = m /\ Tail(<<m>>) = <<>>
         /\ Head(<<r, m>>) = r /\ Tail(<<r, m>>) = <<m>>
         /\ <<r>> \o <<>> = <<r>>
         /\ <<m>> # <<>> /\ <<r, m>> # <<>>
         /\ Len(<<m>>) = 1
<1> DEFINE M == {r, m}
<1>2. Append(<<>>, m) = <<m>>
  OBVIOUS
<1>3. Append(<<r>>, m) = <<r, m>>
  <2>1. <<r>> \in Seq(M) /\ <<r, m>> \in Seq(M) /\ m \in M
    OBVIOUS
  <2>2. Append(<<r>>, m) \in Seq(M) /\ Len(Append(<<r>>, m)) = 2
    BY <2>1
  <2>3. Append(<<r>>, m)[1] = r /\ Append(<<r>>, m)[2] = m
    BY <2>1
  <2>4. Len(<<r, m>>) = 2 /\ <<r, m>>[1] = r /\ <<r, m>>[2] = m
    OBVIOUS
  <2>5. \A i \in 1 .. 2 : Append(<<r>>, m)[i] = <<r, m>>[i]
    <3>1. \A i \in 1 .. 2 : i = 1 \/ i = 2
      OBVIOUS
    <3>2. QED BY <2>3, <2>4, <3>1
  <2>6. QED BY <2>1, <2>2, <2>4, <2>5, SeqEqual
<1>4. Head(<<m>>) = m /\ Tail(<<m>>) = <<>>
  OBVIOUS
<1>5. Head(<<r, m>>) = r
  OBVIOUS
<1>6. Tail(<<r, m>>) = <<m>>
  OBVIOUS
<1>7. <<r>> \o <<>> = <<r>>
  OBVIOUS
<1>8. <<m>> # <<>> /\ <<r, m>> # <<>> /\ Len(<<m>>) = 1
  OBVIOUS
<1>9. QED BY <1>2, <1>3, <1>4, <1>5, <1>6, <1>7, <1>8

(* A request is no leftover, and the leftover no request.                  *)
LEMMA AskedHead ==
  ASSUME NEW x \in Clients, NEW m \in Asks(x), Asked(x, m)
  PROVE  /\ sent[x] # <<>> /\ m.type # "rest"
         /\ \/ sent[x] = <<m>> /\ Head(sent[x]) = m /\ Tail(sent[x]) = <<>>
            \/ /\ sent[x] = <<Leftover, m>> /\ Head(sent[x]).type = "rest"
               /\ Tail(sent[x]) = <<m>>
<1>1. m.type # "rest"
  BY AsksTypes, Nodes
<1>2. Leftover.type = "rest"
  BY DEF Leftover
<1>3. CASE sent[x] = <<m>>
  BY <1>1, <1>3, StreamEnds
<1>4. CASE sent[x] = <<Leftover, m>>
  <2>1. Head(sent[x]) = Leftover /\ Tail(sent[x]) = <<m>> /\ sent[x] # <<>>
    BY <1>4, StreamEnds
  <2>2. QED BY <1>1, <1>2, <1>4, <2>1
<1>5. QED BY <1>3, <1>4 DEF Asked

(* A quiet stream holds no request.                                        *)
LEMMA QuietHead ==
  ASSUME NEW x \in Clients, Quiet(x), sent[x] # <<>>
  PROVE  Head(sent[x]).type = "rest" /\ Tail(sent[x]) = <<>>
<1>1. sent[x] = <<Leftover>> /\ Leftover.type = "rest"
  BY DEF Quiet, Leftover
<1>2. QED BY <1>1, StreamEnds

(* Whoever neither waits nor is dead has nothing on its connection.        *)
LEMMA IdleIsQuiet ==
  ASSUME NEW x \in Clients, Exchange(x), ~Dead(x), ~Waits(x)
  PROVE  Quiet(x) /\ answers[x] = <<>>
BY DEF Exchange, WaitsFor

(* The clients that a step is not about.                                   *)
LEMMA ExchangeSame ==
  ASSUME Types, Grows, NEW x \in Clients, Exchange(x), OwnStays(x),
         sent'[x] = sent[x], answers'[x] = answers[x]
  PROVE  Exchange(x)'
<1>1. /\ Dead(x)' <=> Dead(x)
      /\ Waits(x)' <=> Waits(x)
      /\ \A m \in Asks(x) : WaitsFor(x, m) => WaitsFor(x, m)'
  BY OwnStaysWaits
<1>2. Forgotten(x) \/ Dead(Server(x)) => Forgotten(x)' \/ Dead(Server(x))'
  BY ForgottenStays
<1>3. (Quiet(x)' <=> Quiet(x)) /\ \A m \in Asks(x) : Asked(x, m)' <=> Asked(x, m)
  BY DEF Quiet, Asked
<1>4. QED BY <1>1, <1>2, <1>3 DEF Exchange

(* x goes on, without having asked for anything.                           *)
LEMMA ExchangeIdle ==
  ASSUME NEW x \in Clients, Exchange(x), ~Dead(x), ~Waits(x), ~Waits(x)',
         sent'[x] = sent[x], answers'[x] = answers[x]
  PROVE  Exchange(x)'
<1>1. Quiet(x) /\ answers[x] = <<>>
  BY IdleIsQuiet
<1>2. Quiet(x)'
  BY <1>1 DEF Quiet
<1>3. QED BY <1>1, <1>2 DEF Exchange

(* x asks and waits for the answer.                                        *)
LEMMA ExchangeAsk ==
  ASSUME NEW x \in Clients, Quiet(x), answers'[x] = <<>>,
         NEW m \in Asks(x), sent'[x] = Append(sent[x], m), WaitsFor(x, m)'
  PROVE  Exchange(x)'
<1>1. sent'[x] = <<m>> \/ sent'[x] = <<Leftover, m>>
  <2>1. Append(<<>>, m) = <<m>> /\ Append(<<Leftover>>, m) = <<Leftover, m>>
    BY StreamEnds
  <2>2. sent'[x] = Append(<<>>, m) \/ sent'[x] = Append(<<Leftover>>, m)
    BY DEF Quiet
  <2>3. QED BY <2>1, <2>2 DEF Quiet
<1>2. Asked(x, m)'
  BY <1>1 DEF Asked
<1>3. QED BY <1>2 DEF Exchange

(* A request of x has been read, and possibly in part.                     *)
Taken(x) == sent'[x] \in {<<>>, Tail(sent[x]), <<[type |-> "rest"]>> \o Tail(sent[x])}

(* When it is the head of the stream, it is the only request of x, and     *)
(* the one that x waits with.                                              *)
LEMMA RequestRead ==
  ASSUME NEW x \in Clients, Exchange(x), sent[x] # <<>>, Head(sent[x]).type # "rest"
  PROVE  /\ answers[x] = <<>> /\ Taken(x) => Quiet(x)'
         /\ answers[x] = <<>>
         /\ \E m \in Asks(x) : m = Head(sent[x]) /\ (Dead(x) \/ WaitsFor(x, m))
<1>1. ~Quiet(x)
  BY QuietHead
<1>2. PICK m \in Asks(x) : Asked(x, m) /\ answers[x] = <<>> /\ (Dead(x) \/ WaitsFor(x, m))
  BY <1>1 DEF Exchange
<1>3. Head(sent[x]) = m /\ Tail(sent[x]) = <<>>
  BY <1>2, AskedHead
<1>4. <<[type |-> "rest"]>> \o Tail(sent[x]) = <<Leftover>>
  BY <1>3, StreamEnds DEF Leftover
<1>5. Taken(x) => Quiet(x)'
  BY <1>3, <1>4 DEF Taken, Quiet
<1>6. QED BY <1>2, <1>3, <1>5

(* It is answered, by a reset if x is dead.                                *)
LEMMA ExchangeAnswered ==
  ASSUME NEW x \in Clients, Exchange(x), OwnStays(x),
         sent[x] # <<>>, Head(sent[x]).type # "rest", Taken(x),
         NEW a, IF Dead(x) THEN answers'[x] = answers[x]
                           ELSE answers'[x] = Append(answers[x], a)
  PROVE  Exchange(x)'
<1>1. Quiet(x)' /\ answers[x] = <<>> /\ (Dead(x) \/ Waits(x))
  BY RequestRead DEF WaitsFor
<1>2. (Dead(x)' <=> Dead(x)) /\ (Waits(x)' <=> Waits(x))
  BY OwnStaysWaits
<1>3. Dead(x) => ~Waits(x)
  BY DEF Dead, Waits
<1>4. CASE Dead(x)
  BY <1>1, <1>2, <1>3, <1>4 DEF Exchange
<1>5. CASE ~Dead(x)
  <2>1. Len(answers'[x]) = 1
    <3>1. answers'[x] = <<a>>
      BY <1>1, <1>5, StreamEnds
    <3>2. QED BY <3>1, StreamEnds
  <2>2. QED BY <1>1, <1>2, <2>1 DEF Exchange
<1>6. QED BY <1>4, <1>5

(* Nothing is answered, to one that is forgotten then.                     *)
LEMMA ExchangeIgnored ==
  ASSUME NEW x \in Clients, Exchange(x), OwnStays(x),
         sent[x] # <<>>, Head(sent[x]).type # "rest", Taken(x),
         answers'[x] = answers[x], ~Dead(x) => Forgotten(x)'
  PROVE  Exchange(x)'
<1>1. Quiet(x)' /\ answers[x] = <<>>
  BY RequestRead
<1>2. (Dead(x)' <=> Dead(x)) /\ (Waits(x)' <=> Waits(x))
  BY OwnStaysWaits
<1>3. Dead(x) => ~Waits(x)
  BY DEF Dead, Waits
<1>4. QED BY <1>1, <1>2, <1>3 DEF Exchange

(* A leftover is read.                                                     *)
LEMMA ExchangeRest ==
  ASSUME Types, Grows, NEW x \in Clients, Exchange(x), OwnStays(x),
         sent[x] # <<>>, Head(sent[x]).type = "rest",
         sent'[x] = Tail(sent[x]), answers'[x] = answers[x]
  PROVE  Exchange(x)'
<1>1. /\ Dead(x)' <=> Dead(x)
      /\ Waits(x)' <=> Waits(x)
      /\ \A m \in Asks(x) : WaitsFor(x, m) => WaitsFor(x, m)'
  BY OwnStaysWaits
<1>2. Forgotten(x) \/ Dead(Server(x)) => Forgotten(x)' \/ Dead(Server(x))'
  BY ForgottenStays
<1>3. Quiet(x) => Quiet(x)'
  BY QuietHead DEF Quiet
<1>4. \A m \in Asks(x) : Asked(x, m) => Asked(x, m)'
  BY AskedHead DEF Asked
<1>5. QED BY <1>1, <1>2, <1>3, <1>4 DEF Exchange

(* x reads its answer, which is the only one, and goes on.                 *)
LEMMA ReturnIsLast ==
  ASSUME Types, NEW x \in Clients, Exchange(x), answers[x] # <<>>,
         answers'[x] = Tail(answers[x])
  PROVE  Quiet(x) /\ answers'[x] = <<>>
<1>1. Quiet(x) /\ Len(answers[x]) = 1
  BY DEF Exchange
<1>2. answers[x] \in Seq(Msg)
  BY DEF Types, StreamTypes
<1>3. Tail(answers[x]) = <<>>
  <2>1. Tail(answers[x]) \in Seq(Msg) /\ Len(Tail(answers[x])) = 0
    BY <1>1, <1>2
  <2>2. QED BY <2>1, EmptySeq
<1>4. QED BY <1>1, <1>3

(* After it x waits no more.                                               *)
LEMMA ExchangeReturned ==
  ASSUME Types, NEW x \in Clients, Exchange(x), answers[x] # <<>>,
         sent'[x] = sent[x], answers'[x] = Tail(answers[x]), ~Waits(x)'
  PROVE  Exchange(x)'
<1>1. Quiet(x) /\ answers'[x] = <<>>
  BY ReturnIsLast
<1>2. Quiet(x)'
  BY <1>1 DEF Quiet
<1>3. QED BY <1>1, <1>2 DEF Exchange

(* x stops waiting for a server that has ended.                            *)
LEMMA ExchangeGivenUp ==
  ASSUME NEW x \in Clients, sent[x] = <<>>, answers[x] = <<>>,
         sent'[x] = sent[x], answers'[x] = answers[x], ~Waits(x)'
  PROVE  Exchange(x)'
BY DEF Exchange, Quiet

(* The server of x ends.                                                   *)
LEMMA ExchangeCut ==
  ASSUME NEW x \in Clients, Exchange(x), OwnStays(x),
         sent'[x] = <<>>, answers'[x] = answers[x], Dead(Server(x))'
  PROVE  Exchange(x)'
<1>1. (Dead(x)' <=> Dead(x)) /\ (Waits(x)' <=> Waits(x))
  BY OwnStaysWaits
<1>2. Quiet(x)'
  BY DEF Quiet
<1>3. QED BY <1>1, <1>2 DEF Exchange

(* x itself ends.                                                          *)
LEMMA ExchangeDeath ==
  ASSUME NEW x \in Clients, Exchange(x), Dead(x)',
         sent'[x] = sent[x], answers'[x] = <<>>
  PROVE  Exchange(x)'
<1>1. ~Waits(x)'
  BY DEF Dead, Waits
<1>2. (Quiet(x)' <=> Quiet(x)) /\ \A m \in Asks(x) : Asked(x, m)' <=> Asked(x, m)
  BY DEF Quiet, Asked
<1>3. QED BY <1>1, <1>2 DEF Exchange

(* The operations on a connection, connection by connection.               *)
LEMMA WriteAt ==
  ASSUME Types, NEW x \in Clients, NEW m, Write(x, m)
  PROVE  /\ IF Dead(x) THEN answers'[x] = answers[x] ELSE answers'[x] = Append(answers[x], m)
         /\ \A y \in Clients : y # x => answers'[y] = answers[y]
         /\ \A y \in reset' : y \in reset \/ Dead(y)
<1>1. DOMAIN answers = Clients
  BY DEF Types, StreamTypes
<1>2. CASE Dead(x)
  BY <1>2 DEF Write
<1>3. CASE ~Dead(x)
  BY <1>1, <1>3 DEF Write
<1>4. QED BY <1>2, <1>3

(* Reading takes the head of the stream of x, or leaves the rest of it.    *)
LEMMA ReadAt ==
  ASSUME Types, NEW x \in Clients, Read(x) \/ ReadPart(x)
  PROVE  /\ Taken(x)
         /\ Read(x) => sent'[x] = Tail(sent[x])
         /\ \A y \in Clients : y # x => sent'[y] = sent[y]
<1>1. DOMAIN sent = Clients
  BY DEF Types, StreamTypes
<1>2. CASE Read(x)
  <2>1. sent'[x] = Tail(sent[x]) /\ \A y \in Clients : y # x => sent'[y] = sent[y]
    BY <1>1, <1>2 DEF Read
  <2>2. QED BY <2>1 DEF Taken
<1>3. CASE ReadPart(x)
  <2> DEFINE r == <<[type |-> "rest"]>> \o Tail(sent[x])
  <2>1. sent' = [sent EXCEPT ![x] = r]
    BY <1>3 DEF ReadPart
  <2>2. Taken(x) <=> sent'[x] \in {<<>>, Tail(sent[x]), r}
    BY DEF Taken
  <2> HIDE DEF r
  <2>3. sent'[x] = r /\ \A y \in Clients : y # x => sent'[y] = sent[y]
    BY <1>1, <2>1
  <2>4. Read(x) => sent'[x] = Tail(sent[x])
    BY <1>1 DEF Read
  <2>5. QED BY <2>2, <2>3, <2>4
<1>4. QED BY <1>2, <1>3

(* Connecting sends the request behind what is left in the stream of x.    *)
LEMMA ConnectAt ==
  ASSUME Types, NEW x \in Clients, NEW m, Connect(x, m)
  PROVE  /\ sent'[x] = Append(sent[x], m)
         /\ \A y \in Clients : y # x => sent'[y] = sent[y]
<1>1. DOMAIN sent = Clients
  BY DEF Types, StreamTypes
<1>2. QED BY <1>1 DEF Connect

(* Reading an answer takes the first one of x.                             *)
LEMMA AnsweredAt ==
  ASSUME Types, NEW x \in Clients, Answered(x)
  PROVE  /\ answers[x] # <<>> /\ answers'[x] = Tail(answers[x])
         /\ \A y \in Clients : y # x => answers'[y] = answers[y]
<1>1. DOMAIN answers = Clients
  BY DEF Types, StreamTypes
<1>2. QED BY <1>1 DEF Answered

(* The end of a super node empties the streams of its clients.             *)
LEMMA SuperEndsAt ==
  ASSUME Types, NEW s \in Supers, SuperEnds(s)
  PROVE  /\ Dead(s)'
         /\ \A t \in Supers : t # s => superPc'[t] = superPc[t]
         /\ \A x \in Clients : sent'[x] = IF Server(x) = s THEN <<>> ELSE sent[x]
<1>1. DOMAIN superPc = Supers
  BY DEF Types, SuperTypes
<1>2. QED BY <1>1 DEF SuperEnds, Dead

(* A client that another one's step leaves where it was.                   *)
LEMMA OwnStaysAt ==
  /\ UNCHANGED <<superPc, children>> => \A x \in Clients : OwnStays(x)
  /\ \A s \in Supers : Types /\ UNCHANGED children /\ (\A t \in Supers : t # s => superPc'[t] = superPc[t])
                         => \A x \in Clients : x # s => OwnStays(x)
  /\ \A c \in Children : UNCHANGED superPc
                         /\ (\A d \in Children : d # c => childPc'[d] = childPc[d] /\ wanted'[d] = wanted[d])
                         => \A x \in Clients : x # c => OwnStays(x)
BY Nodes DEF OwnStays, children

(* A step of a super node that answers one client.                         *)
LEMMA ServedExchange ==
  ASSUME Types, Grows, \A y \in Clients : Exchange(y),
         NEW s \in Supers, NEW x \in Clients, NEW type, type # "rest", Handles(s, x, type),
         Read(x) \/ ReadPart(x), NEW a, Write(x, a), UNCHANGED <<superPc, children>>
  PROVE  \A y \in Clients : Exchange(y)'
<1> SUFFICES ASSUME NEW y \in Clients
             PROVE  Exchange(y)'
  OBVIOUS
<1>1. OwnStays(y)
  BY OwnStaysAt
<1>2. CASE y = x
  <2>1. sent[x] # <<>> /\ Head(sent[x]).type # "rest"
    BY DEF Handles
  <2>2. Taken(x) /\ IF Dead(x) THEN answers'[x] = answers[x] ELSE answers'[x] = Append(answers[x], a)
    BY ReadAt, WriteAt
  <2>3. QED BY <1>1, <1>2, <2>1, <2>2, ExchangeAnswered
<1>3. CASE y # x
  <2>1. sent'[y] = sent[y] /\ answers'[y] = answers[y]
    BY <1>3, ReadAt, WriteAt
  <2>2. QED BY <1>1, <2>1, ExchangeSame
<1>4. QED BY <1>2, <1>3

(* The parts of Connections.                                               *)
ExchangeOK == \A x \in Clients : Exchange(x)
Deaf       == \A x \in Clients : ~Listening(Server(x)) => sent[x] = <<>>

(* A step that is about the client x alone.                                *)
LEMMA ExchangeOthers ==
  ASSUME Types, Grows, ExchangeOK, NEW x \in Clients,
         \A y \in Clients : y # x => /\ OwnStays(y) /\ sent'[y] = sent[y]
                                     /\ answers'[y] = answers[y],
         Exchange(x)'
  PROVE  ExchangeOK'
<1> SUFFICES ASSUME NEW y \in Clients, y # x
             PROVE  Exchange(y)'
  BY DEF ExchangeOK
<1>1. OwnStays(y) /\ sent'[y] = sent[y] /\ answers'[y] = answers[y]
  OBVIOUS
<1>2. QED BY <1>1, ExchangeSame DEF ExchangeOK

(* The end of a super node, which may have answered one client before.     *)
LEMMA ExchangeEnds ==
  ASSUME Types, Grows, ExchangeOK, NEW s \in Supers, SuperEnds(s), UNCHANGED children,
         NEW c \in Clients, \A y \in Clients : y # c /\ y # s => answers'[y] = answers[y],
         c # s => Exchange(c)', Exchange(s)'
  PROVE  ExchangeOK'
<1> SUFFICES ASSUME NEW y \in Clients, y # c, y # s
             PROVE  Exchange(y)'
  BY Nodes DEF ExchangeOK
<1>1. OwnStays(y) /\ answers'[y] = answers[y]
  BY SuperEndsAt, OwnStaysAt
<1>2. CASE Server(y) = s
  BY <1>1, <1>2, SuperEndsAt, ExchangeCut DEF ExchangeOK
<1>3. CASE Server(y) # s
  BY <1>1, <1>3, SuperEndsAt, ExchangeSame DEF ExchangeOK
<1>4. QED BY <1>2, <1>3

(* The steps of a super node as a client of the other one.                 *)
LEMMA ExchangeSuperSteps ==
  ASSUME Types, PktsOK, Grows, ExchangeOK, Deaf, NEW s \in Supers,
         \/ Listen(s) \/ Accept(s) \/ ShareConnect(s) \/ ShareReturned(s) \/ ShareUnanswered(s)
         \/ s = 2 /\ (SayHello \/ HelloRefused \/ HelloReturned \/ HelloNoAnswer)
  PROVE  ExchangeOK'
<1>1. s \in Clients /\ DOMAIN superPc = Supers /\ Exchange(s)
  BY Nodes DEF Types, SuperTypes, ExchangeOK
<1>2. CASE Accept(s)
  <2>1. UNCHANGED <<superPc, children, sent, answers>>
    BY <1>2 DEF Accept
  <2>2. QED BY <1>1, <2>1, OwnStaysAt, ExchangeSame DEF ExchangeOK
<1>3. ASSUME superPc[s] \notin {"hello", "share", "exited"},
             superPc'[s] \notin {"hello", "share"}, sent' = sent, answers' = answers
      PROVE  Exchange(s)'
  BY <1>1, <1>3, Nodes, ExchangeIdle DEF Dead, Waits
<1>4. ASSUME superPc'[s] \notin {"hello", "share"}, sent' = sent, Answered(s)
      PROVE  Exchange(s)'
  BY <1>1, <1>4, Nodes, AnsweredAt, ExchangeReturned DEF Waits
<1>5. ASSUME superPc'[s] \notin {"hello", "share"}, sent' = sent, answers' = answers, NoAnswer(s)
      PROVE  Exchange(s)'
  <2>1. sent[s] = <<>> /\ answers[s] = <<>>
    BY <1>1, <1>5 DEF Deaf, NoAnswer, Listening
  <2>2. QED BY <1>1, <1>5, <2>1, Nodes, ExchangeGivenUp DEF Waits
<1>6. ASSUME SayHello, s = 2
      PROVE  Exchange(s)'
  <2> DEFINE m == [type |-> "HELLO_SUPER_TO_SUPER"]
  <2>1. superPc[s] = "start" /\ superPc'[s] = "hello" /\ answers' = answers /\ Connect(s, m)
    BY <1>1, <1>6 DEF SayHello
  <2>2. Quiet(s) /\ answers[s] = <<>>
    BY <1>1, <2>1, Nodes, IdleIsQuiet DEF Dead, Waits
  <2>3. m \in Asks(s) /\ WaitsFor(s, m)'
    BY <2>1, Nodes DEF Asks, WaitsFor, Waits
  <2>4. sent'[s] = Append(sent[s], m)
    BY <1>1, <2>1, ConnectAt
  <2>5. QED BY <1>1, <2>1, <2>2, <2>3, <2>4, ExchangeAsk
<1>7. ASSUME ShareConnect(s)
       PROVE  Exchange(s)'
  <2>1. superPc[s] = "connect" /\ superPc'[s] \in {"loop", "share"} /\ answers' = answers
    BY <1>1, <1>7 DEF ShareConnect
  <2>2. CASE superPc'[s] = "loop"
    <3>1. sent' = sent
      BY <1>1, <1>7, <2>2 DEF ShareConnect
    <3>2. QED BY <1>3, <2>1, <2>2, <3>1
  <2>3. CASE superPc'[s] = "share"
    <3>1. Connect(s, [type |-> "FILE_INFO_SHARE", infos |-> sharePkt[s]])
      BY <1>1, <1>7, <2>3 DEF ShareConnect
    <3>2. PICK c \in Children : \E m \in SharesOf(c) : m.infos = sharePkt[s]
      BY <2>1 DEF PktsOK
    <3>3. PICK m \in SharesOf(c) : m.infos = sharePkt[s]
      BY <3>2
    <3>4. m = [type |-> "FILE_INFO_SHARE", infos |-> sharePkt[s]]
      BY <3>3 DEF SharesOf
    <3>5. m \in Asks(s) /\ m.type = "FILE_INFO_SHARE"
      BY <3>4, Nodes DEF Asks
    <3>6. WaitsFor(s, m)'
      BY <2>3, <3>5 DEF WaitsFor, Waits
    <3>7. sent'[s] = Append(sent[s], m)
      BY <1>1, <3>1, <3>4, ConnectAt
    <3>8. Quiet(s) /\ answers'[s] = <<>>
      BY <1>1, <2>1, Nodes, IdleIsQuiet DEF Dead, Waits
    <3>9. QED BY <1>1, <3>5, <3>6, <3>7, <3>8, ExchangeAsk
  <2>4. QED BY <2>1, <2>2, <2>3
<1>8. ASSUME ~Accept(s)
      PROVE  Exchange(s)'
  <2>1. CASE Listen(s)
    BY <1>1, <1>3, <2>1 DEF Listen, network
  <2>2. CASE ShareReturned(s)
    BY <1>1, <1>4, <2>2 DEF ShareReturned
  <2>3. CASE ShareUnanswered(s)
    BY <1>1, <1>5, <2>3 DEF ShareUnanswered
  <2>4. CASE s = 2 /\ HelloRefused
    BY <1>1, <1>3, <2>4 DEF HelloRefused, network
  <2>5. CASE s = 2 /\ HelloReturned
    BY <1>1, <1>4, <2>5 DEF HelloReturned
  <2>6. CASE s = 2 /\ HelloNoAnswer
    BY <1>1, <1>5, <2>6 DEF HelloNoAnswer
  <2>7. QED BY <1>6, <1>8, <1>7, <2>1, <2>2, <2>3, <2>4, <2>5, <2>6
<1>9. ASSUME ~Accept(s)
      PROVE  /\ UNCHANGED children
             /\ \A t \in Supers : t # s => superPc'[t] = superPc[t]
             /\ \A y \in Clients : y # s => sent'[y] = sent[y] /\ answers'[y] = answers[y]
  <2>1. CASE Listen(s) \/ ShareUnanswered(s) \/ (s = 2 /\ (HelloRefused \/ HelloNoAnswer))
    BY <1>1, <2>1 DEF Listen, ShareUnanswered, HelloRefused, HelloNoAnswer, network
  <2>2. CASE ShareReturned(s) \/ (s = 2 /\ HelloReturned)
    BY <1>1, <2>2, AnsweredAt DEF ShareReturned, HelloReturned
  <2>3. CASE s = 2 /\ SayHello
    BY <1>1, <2>3, ConnectAt DEF SayHello
  <2>4. CASE ShareConnect(s)
    <3>1. /\ UNCHANGED <<children, answers>>
          /\ \A t \in Supers : t # s => superPc'[t] = superPc[t]
          /\ UNCHANGED sent \/ Connect(s, [type |-> "FILE_INFO_SHARE", infos |-> sharePkt[s]])
      BY <1>1, <2>4 DEF ShareConnect
    <3>2. QED BY <1>1, <3>1, ConnectAt
  <2>5. QED BY <1>9, <2>1, <2>2, <2>3, <2>4
<1>10. CASE ~Accept(s)
  <2>1. \A y \in Clients : y # s => OwnStays(y)
    BY <1>9, <1>10, OwnStaysAt
  <2>2. QED BY <1>1, <1>8, <1>9, <1>10, <2>1, ExchangeOthers
<1>11. QED BY <1>2, <1>10

(* A child without a slot, or one whose search never ends, is forgotten.   *)
LEMMA ExchangeForgets ==
  ASSUME Types, Grows, ExchangeOK, NEW s \in Supers, NEW c \in Children,
         childPc[c] = "info" => HasSlot(c), FileInfoNoPort(s, c)
  PROVE  ExchangeOK'
<1>1. /\ sent[c] # <<>> /\ Head(sent[c]).type = "FILE_INFO" /\ Read(c)
      /\ UNCHANGED <<superPc, childPorts, children, answers>>
      /\ Server(c) = s /\ PortOf(childPorts[s], c) = {}
  BY DEF FileInfoNoPort, Handles, supers
<1>2. c \in Clients /\ Server(c) = Home[c] /\ Exchange(c)
  BY Nodes DEF ExchangeOK
<1>3. ~Dead(c) => childPc[c] = "info"
  BY <1>1, <1>2, RequestRead DEF WaitsFor
<1>4. ~Dead(c) => Forgotten(c)'
  BY <1>1, <1>2, <1>3 DEF HasSlot, Forgotten, children
<1>5. \A y \in Clients : OwnStays(y)
  BY <1>1, OwnStaysAt
<1>6. Taken(c) /\ \A y \in Clients : y # c => sent'[y] = sent[y]
  BY <1>1, <1>2, ReadAt
<1>7. Exchange(c)'
  BY <1>1, <1>2, <1>4, <1>5, <1>6, ExchangeIgnored
<1>8. QED BY <1>1, <1>2, <1>5, <1>6, <1>7, ExchangeOthers

(* The client of a search that does not end is forgotten from then on.     *)
LEMMA ExchangeSearchesOn ==
  ASSUME Types, Grows, ExchangeOK, NEW s \in Supers, NEW c \in Children, SearchForEver(s, c)
  PROVE  ExchangeOK'
<1>1. /\ sent[c] # <<>> /\ Head(sent[c]).type = "SEARCH_QUERY" /\ Read(c)
      /\ UNCHANGED <<children, answers>> /\ superPc[s] = "loop" /\ Server(c) = s
      /\ superPc' = [superPc EXCEPT ![s] = "search"]
  BY DEF SearchForEver, Handles
<1>2. /\ c \in Clients /\ s \in Clients /\ c # s /\ Server(c) = Home[c]
      /\ Exchange(c) /\ Exchange(s) /\ DOMAIN superPc = Supers
  BY Nodes DEF ExchangeOK, Types, SuperTypes
<1>3. superPc'[s] = "search" /\ \A t \in Supers : t # s => superPc'[t] = superPc[t]
  BY <1>1, <1>2
<1>4. ~Dead(c) => Forgotten(c)'
  <2>1. ~Dead(c) => childPc[c] = "search"
    BY <1>1, <1>2, RequestRead DEF WaitsFor
  <2>2. QED BY <1>1, <1>2, <1>3, <2>1 DEF Forgotten, children
<1>5. \A y \in Clients : y # s => OwnStays(y)
  BY <1>1, <1>3, OwnStaysAt
<1>6. Taken(c) /\ \A y \in Clients : y # c => sent'[y] = sent[y]
  BY <1>1, <1>2, ReadAt
<1>7. Exchange(c)'
  BY <1>1, <1>2, <1>4, <1>5, <1>6, ExchangeIgnored
<1>8. Exchange(s)'
  <2>1. ~Dead(s) /\ ~Waits(s) /\ ~Waits(s)'
    BY <1>1, <1>3 DEF Dead, Waits
  <2>2. QED BY <1>1, <1>2, <1>6, <2>1, ExchangeIdle
<1>9. ASSUME NEW y \in Clients, y # c, y # s
      PROVE  Exchange(y)'
  BY <1>1, <1>5, <1>6, <1>9, ExchangeSame DEF ExchangeOK
<1>10. QED BY <1>7, <1>8, <1>9 DEF ExchangeOK

(* The steps that answer a request, and the one that reads a leftover.     *)
LEMMA ExchangeRequests ==
  ASSUME Types, Grows, ExchangeOK, NEW s \in Supers,
         \/ \E x \in Supers : \/ HelloSuperToSuper(s, x) \/ FileInfoShare(s, x)
                              \/ FileInfoShareTooLong(s, x)
         \/ \E c \in Children : \/ HelloFromChild(s, c) \/ FileInfoTooLong(s, c)
                                \/ SearchQuery(s, c)
  PROVE  ExchangeOK'
<1>1. ASSUME NEW x \in Supers, HelloSuperToSuper(s, x)
      PROVE  ExchangeOK'
  <2>1. UNCHANGED <<superPc, children>> /\ Handles(s, x, "HELLO_SUPER_TO_SUPER") /\ Read(x)
        /\ Write(x, [type |-> "HELLO_SUPER_TO_SUPER"])
    BY <1>1 DEF HelloSuperToSuper
  <2>2. QED BY <2>1, Nodes, ServedExchange DEF ExchangeOK
<1>2. ASSUME NEW x \in Supers, FileInfoShare(s, x)
      PROVE  ExchangeOK'
  <2>1. UNCHANGED <<superPc, children>> /\ Handles(s, x, "FILE_INFO_SHARE") /\ Read(x)
        /\ Write(x, [type |-> "FILE_INFO_SHARE_SUCCESS"])
    BY <1>2 DEF FileInfoShare
  <2>2. QED BY <2>1, Nodes, ServedExchange DEF ExchangeOK
<1>3. ASSUME NEW x \in Supers, FileInfoShareTooLong(s, x)
      PROVE  ExchangeOK'
  <2>1. UNCHANGED <<superPc, children>> /\ Handles(s, x, "FILE_INFO_SHARE") /\ ReadPart(x)
        /\ Write(x, [type |-> "pointer"])
    BY <1>3 DEF FileInfoShareTooLong, supers
  <2>2. QED BY <2>1, Nodes, ServedExchange DEF ExchangeOK
<1>4. ASSUME NEW c \in Children, HelloFromChild(s, c)
      PROVE  ExchangeOK'
  <2>1. UNCHANGED <<superPc, children>> /\ Handles(s, c, "HELLO_FROM_CHILD") /\ Read(c)
        /\ Write(c, [type |-> "HELLO_FROM_SUPER"])
    BY <1>4 DEF HelloFromChild
  <2>2. QED BY <2>1, Nodes, ServedExchange DEF ExchangeOK
<1>5. ASSUME NEW c \in Children, FileInfoTooLong(s, c)
      PROVE  ExchangeOK'
  <2>1. UNCHANGED <<superPc, children>> /\ Handles(s, c, "FILE_INFO") /\ ReadPart(c)
        /\ Write(c, [type |-> "FILE_INFO_RECV_ERROR"])
    BY <1>5 DEF FileInfoTooLong, supers
  <2>2. QED BY <2>1, Nodes, ServedExchange DEF ExchangeOK
<1>6. ASSUME NEW c \in Children, SearchQuery(s, c)
      PROVE  ExchangeOK'
  <2>1. UNCHANGED <<superPc, children>> /\ Handles(s, c, "SEARCH_QUERY") /\ Read(c)
    BY <1>6 DEF SearchQuery, supers
  <2>2. PICK a : Write(c, a)
    BY <1>6 DEF SearchQuery
  <2>3. QED BY <2>1, <2>2, Nodes, ServedExchange DEF ExchangeOK
<1>7. QED BY <1>1, <1>2, <1>3, <1>4, <1>5, <1>6

(* A leftover is read, and nothing is answered.                            *)
LEMMA ExchangeLeftovers ==
  ASSUME Types, Grows, ExchangeOK, NEW s \in Supers, NEW x \in Clients, Rest(s, x)
  PROVE  ExchangeOK'
<1>1. /\ UNCHANGED <<superPc, children>> /\ answers' = answers /\ Read(x)
      /\ sent[x] # <<>> /\ Head(sent[x]).type = "rest"
  BY DEF Rest, supers
<1>2. \A y \in Clients : OwnStays(y)
  BY <1>1, OwnStaysAt
<1>3. sent'[x] = Tail(sent[x]) /\ \A y \in Clients : y # x => sent'[y] = sent[y]
  BY <1>1, ReadAt
<1>4. Exchange(x)'
  BY <1>1, <1>2, <1>3, ExchangeRest DEF ExchangeOK
<1>5. QED BY <1>1, <1>2, <1>3, <1>4, ExchangeOthers

(* The request that FileInfo handles, and what it makes of it.             *)
LEMMA FileInfoAsked ==
  ASSUME AddrOK, NEW s \in Supers, NEW c \in Children, Exchange(c), Handles(s, c, "FILE_INFO")
  PROVE  /\ Head(sent[c]).files = FilesOf[c]
         /\ addr[c] \in {c, Unwritten}
         /\ Dead(c) \/ childPc[c] = "info"
         /\ s = Home[c]
         /\ [type |-> "FILE_INFO_SHARE",
             infos |-> InfosOf(c, Head(sent[c]).files, addr[c], c)] \in SharesOf(c)
<1>1. c \in Clients /\ Server(c) = Home[c]
  BY Nodes
<1>2. sent[c] # <<>> /\ Head(sent[c]).type = "FILE_INFO" /\ Server(c) = s /\ addr[c] # NoAddr
  BY DEF Handles
<1>3. PICK m \in Asks(c) : m = Head(sent[c]) /\ (Dead(c) \/ WaitsFor(c, m))
  BY <1>1, <1>2, RequestRead
<1>4. m.files = FilesOf[c]
  BY <1>2, <1>3 DEF Asks
<1>5. addr[c] \in {c, Unwritten}
  BY <1>1, <1>2 DEF AddrOK
<1>6. Dead(c) \/ childPc[c] = "info"
  BY <1>2, <1>3 DEF WaitsFor
<1>7. QED BY <1>1, <1>2, <1>3, <1>4, <1>5, <1>6 DEF SharesOf

(* FileInfo answers its child; the super node goes on to connect.          *)
LEMMA ExchangeFileInfo ==
  ASSUME Types, Grows, ExchangeOK, NEW s \in Supers, NEW c \in Children, FileInfo(s, c)
  PROVE  ExchangeOK'
<1>1. /\ s \in Clients /\ c \in Clients /\ c # s /\ Exchange(c) /\ Exchange(s)
      /\ DOMAIN superPc = Supers /\ DOMAIN sent = Clients
  BY Nodes DEF ExchangeOK, Types, SuperTypes, StreamTypes
<1>2. /\ Handles(s, c, "FILE_INFO") /\ Write(c, [type |-> "FILE_INFO_RECV_SUCCESS"])
      /\ Read(c) /\ UNCHANGED children /\ superPc' = [superPc EXCEPT ![s] = "connect"]
  BY FileInfoStep
<1>3. superPc'[s] = "connect" /\ \A t \in Supers : t # s => superPc'[t] = superPc[t]
  BY <1>1, <1>2
<1>4. sent'[c] = Tail(sent[c]) /\ \A y \in Clients : y # c => sent'[y] = sent[y]
  BY <1>1, <1>2, ReadAt
<1>5. \A y \in Clients : y # s => OwnStays(y)
  BY <1>2, <1>3, OwnStaysAt
<1>6. /\ IF Dead(c) THEN answers'[c] = answers[c]
                    ELSE answers'[c] = Append(answers[c], [type |-> "FILE_INFO_RECV_SUCCESS"])
      /\ \A y \in Clients : y # c => answers'[y] = answers[y]
  BY <1>1, <1>2, WriteAt
<1>7. Exchange(c)'
  <2>1. sent[c] # <<>> /\ Head(sent[c]).type # "rest" /\ Taken(c)
    BY <1>2, <1>4 DEF Handles, Taken
  <2>2. OwnStays(c)
    BY <1>1, <1>5
  <2>3. QED BY <1>1, <1>6, <2>1, <2>2, ExchangeAnswered
<1>8. Exchange(s)'
  <2>1. ~Dead(s) /\ ~Waits(s) /\ ~Waits(s)'
    BY <1>2, <1>3 DEF Handles, Dead, Waits
  <2>2. sent'[s] = sent[s] /\ answers'[s] = answers[s]
    BY <1>1, <1>4, <1>6
  <2>3. QED BY <1>1, <2>1, <2>2, ExchangeIdle
<1>9. ASSUME NEW y \in Clients, y # c, y # s
      PROVE  Exchange(y)'
  BY <1>4, <1>5, <1>6, <1>9, ExchangeSame DEF ExchangeOK
<1>10. QED BY <1>7, <1>8, <1>9 DEF ExchangeOK

(* The two ways in which a super node ends.                                *)
LEMMA ExchangeSuperDies ==
  ASSUME Types, Grows, ExchangeOK, Deaf, NEW s \in Supers,
         SuperKilled(s) \/ ShareFailed(s)
  PROVE  ExchangeOK'
<1>1. /\ s \in Clients /\ Exchange(s) /\ Server(s) # s
      /\ DOMAIN superPc = Supers /\ DOMAIN answers = Clients
  BY Nodes DEF ExchangeOK, Types, SuperTypes, StreamTypes
<1>2. ASSUME SuperEnds(s)
      PROVE  Dead(s)' /\ sent'[s] = sent[s]
  BY <1>1, <1>2, SuperEndsAt
<1>3. CASE SuperKilled(s)
  <2>1. SuperEnds(s) /\ UNCHANGED children /\ answers' = [answers EXCEPT ![s] = <<>>]
    BY <1>3 DEF SuperKilled
  <2>2. answers'[s] = <<>> /\ \A y \in Clients : y # s => answers'[y] = answers[y]
    BY <1>1, <2>1
  <2>3. Exchange(s)'
    BY <1>1, <1>2, <2>1, <2>2, ExchangeDeath
  <2>4. QED BY <1>1, <2>1, <2>2, <2>3, ExchangeEnds
<1>4. CASE ShareFailed(s)
  <2>1. SuperEnds(s) /\ UNCHANGED children /\ answers' = answers /\ NoAnswer(s)
    BY <1>4 DEF ShareFailed
  <2>2. Exchange(s)'
    <3>1. answers'[s] = <<>>
      BY <2>1 DEF NoAnswer
    <3>2. QED BY <1>1, <1>2, <2>1, <3>1, ExchangeDeath
  <2>3. QED BY <1>1, <2>1, <2>2, ExchangeEnds
<1>5. QED BY <1>3, <1>4

(* The steps of a child.                                                   *)
LEMMA ExchangeChildSteps ==
  ASSUME Types, Grows, ExchangeOK, Deaf, NEW c \in Children,
         \/ StartChild(c) \/ HelloFromSuper(c) \/ FileInfoReturned(c) \/ SearchReturned(c)
         \/ ChildNoAnswer(c) \/ ChildKilled(c) \/ \E f \in Names : Search(c, f)
  PROVE  ExchangeOK'
<1>1. /\ c \in Clients /\ c \notin Supers /\ Exchange(c)
      /\ DOMAIN childPc = Children /\ DOMAIN wanted = Children
      /\ DOMAIN sent = Clients /\ DOMAIN answers = Clients
  BY Nodes DEF ExchangeOK, Types, ChildTypes, StreamTypes
<1>2. /\ UNCHANGED superPc
      /\ \A d \in Children : d # c => childPc'[d] = childPc[d] /\ wanted'[d] = wanted[d]
  BY <1>1 DEF StartChild, HelloFromSuper, FileInfoReturned, SearchReturned, ChildNoAnswer,
              ChildKilled, Search, ChildGoes, supers
<1>3. \A y \in Clients : y # c => OwnStays(y)
  BY <1>2, OwnStaysAt
<1>4. \A y \in Clients : y # c => sent'[y] = sent[y] /\ answers'[y] = answers[y]
  <2>1. CASE StartChild(c) \/ \E f \in Names : Search(c, f)
    <3>1. answers' = answers
      BY <2>1 DEF StartChild, Search
    <3>2. sent' = sent \/ \E m : Connect(c, m)
      BY <2>1 DEF StartChild, Search
    <3>3. QED BY <1>1, <3>1, <3>2, ConnectAt
  <2>2. CASE HelloFromSuper(c)
    BY <1>1, <2>2, AnsweredAt DEF HelloFromSuper
  <2>3. CASE FileInfoReturned(c) \/ SearchReturned(c)
    BY <1>1, <2>3, AnsweredAt DEF FileInfoReturned, SearchReturned
  <2>4. CASE ChildNoAnswer(c) \/ ChildKilled(c)
    BY <1>1, <2>4 DEF ChildNoAnswer, ChildKilled
  <2>5. QED BY <2>1, <2>2, <2>3, <2>4
<1>5. ASSUME StartChild(c)
      PROVE  Exchange(c)'
  <2> DEFINE m == [type |-> "HELLO_FROM_CHILD"]
  <2>1. childPc[c] = "start" /\ ~Dead(c) /\ ~Waits(c) /\ answers' = answers
    BY <1>1, <1>5 DEF StartChild, Dead, Waits
  <2>2. Quiet(c) /\ answers[c] = <<>>
    BY <1>1, <2>1, IdleIsQuiet
  <2>3. CASE Connect(c, m) /\ ChildGoes(c, "hello")
    <3>1. sent'[c] = Append(sent[c], m) /\ childPc'[c] = "hello"
      BY <1>1, <2>3, ConnectAt DEF ChildGoes
    <3>2. m \in Asks(c) /\ WaitsFor(c, m)'
      BY <1>1, <3>1 DEF Asks, WaitsFor, Waits
    <3>3. QED BY <1>1, <2>1, <2>2, <3>1, <3>2, ExchangeAsk
  <2>4. CASE ChildGoes(c, "exited") /\ UNCHANGED sent
    <3>1. ~Waits(c)'
      BY <1>1, <2>4 DEF ChildGoes, Waits
    <3>2. QED BY <1>1, <2>1, <2>4, <3>1, ExchangeIdle
  <2>5. QED BY <1>5, <2>3, <2>4 DEF StartChild
<1>6. ASSUME HelloFromSuper(c)
      PROVE  Exchange(c)'
  <2> DEFINE m == [type |-> "FILE_INFO", files |-> FilesOf[c]]
  <2>1. /\ answers[c] # <<>> /\ answers'[c] = Tail(answers[c]) /\ childPc'[c] = "info"
        /\ IF Dead(Home[c]) THEN sent' = sent
                            ELSE sent' = [sent EXCEPT ![c] = Append(@, m)]
    BY <1>1, <1>6, AnsweredAt DEF HelloFromSuper, ChildGoes
  <2>2. Quiet(c) /\ answers'[c] = <<>>
    BY <1>1, <2>1, ReturnIsLast
  <2>3. CASE Dead(Home[c])
    <3>1. Dead(Server(c))' /\ Quiet(c)'
      BY <1>2, <2>1, <2>2, <2>3, Nodes DEF Dead, Quiet
    <3>2. QED BY <2>2, <3>1 DEF Exchange
  <2>4. CASE ~Dead(Home[c])
    <3>1. sent'[c] = Append(sent[c], m)
      BY <1>1, <2>1, <2>4
    <3>2. m \in Asks(c) /\ WaitsFor(c, m)'
      BY <1>1, <2>1 DEF Asks, WaitsFor, Waits
    <3>3. QED BY <1>1, <2>2, <3>1, <3>2, ExchangeAsk
  <2>5. QED BY <2>3, <2>4
<1>7. ASSUME FileInfoReturned(c) \/ SearchReturned(c)
      PROVE  Exchange(c)'
  <2>1. /\ answers[c] # <<>> /\ answers'[c] = Tail(answers[c]) /\ sent' = sent
        /\ childPc'[c] \in {"ready", "exited"}
    BY <1>1, <1>7, AnsweredAt DEF FileInfoReturned, SearchReturned, ChildGoes
  <2>2. ~Waits(c)'
    BY <1>1, <2>1 DEF Waits
  <2>3. QED BY <1>1, <2>1, <2>2, ExchangeReturned
<1>8. ASSUME ChildNoAnswer(c)
      PROVE  Exchange(c)'
  <2>1. /\ NoAnswer(c) /\ sent' = sent /\ answers' = answers
        /\ childPc'[c] \in {"ready", "exited"}
    BY <1>1, <1>8 DEF ChildNoAnswer, ChildGoes
  <2>2. sent[c] = <<>> /\ answers[c] = <<>>
    BY <1>1, <2>1 DEF Deaf, NoAnswer, Listening
  <2>3. ~Waits(c)'
    BY <1>1, <2>1 DEF Waits
  <2>4. QED BY <1>1, <2>1, <2>2, <2>3, ExchangeGivenUp
<1>9. ASSUME ChildKilled(c)
      PROVE  Exchange(c)'
  <2>1. Dead(c)' /\ sent' = sent /\ answers'[c] = <<>>
    BY <1>1, <1>9 DEF ChildKilled, ChildGoes, Dead
  <2>2. QED BY <1>1, <2>1, ExchangeDeath
<1>10. ASSUME NEW f \in Names, Search(c, f)
       PROVE  Exchange(c)'
  <2> DEFINE m == [type |-> "SEARCH_QUERY", fileName |-> f]
  <2>1. /\ childPc[c] = "ready" /\ ~Dead(c) /\ ~Waits(c) /\ answers' = answers
        /\ Connect(c, m) /\ childPc'[c] = "search" /\ wanted'[c] = f
    BY <1>1, <1>10 DEF Search, Dead, Waits, ChildGoes
  <2>2. Quiet(c) /\ answers[c] = <<>>
    BY <1>1, <2>1, IdleIsQuiet
  <2>3. m \in Asks(c) /\ WaitsFor(c, m)'
    BY <1>1, <2>1 DEF Asks, WaitsFor, Waits
  <2>4. sent'[c] = Append(sent[c], m)
    BY <1>1, <2>1, ConnectAt
  <2>5. QED BY <1>1, <2>1, <2>2, <2>3, <2>4, ExchangeAsk
<1>11. Exchange(c)'
  BY <1>5, <1>6, <1>7, <1>8, <1>9, <1>10
<1>12. QED BY <1>1, <1>3, <1>4, <1>11, ExchangeOthers

(* Every step leaves every connection with one request or one answer.      *)
LEMMA ExchangeKept ==
  ASSUME Types, PktsOK, ExchangeOK, Deaf,
         \A c \in Children : childPc[c] = "info" => HasSlot(c), [Next]_vars
  PROVE  ExchangeOK'
<1>1. Grows
  BY StepGrows
<1>2. CASE UNCHANGED vars
  <2>1. UNCHANGED <<superPc, children, sent, answers>>
    BY <1>2 DEF vars, supers, network
  <2>2. QED BY <1>1, <2>1, OwnStaysAt, ExchangeSame DEF ExchangeOK
<1>3. ASSUME NEW s \in Supers, Super(s)
      PROVE  ExchangeOK'
  <2>1. CASE \/ Listen(s) \/ Accept(s) \/ ShareConnect(s) \/ ShareReturned(s)
             \/ ShareUnanswered(s)
             \/ s = 2 /\ (SayHello \/ HelloRefused \/ HelloReturned \/ HelloNoAnswer)
    BY <1>1, <2>1, ExchangeSuperSteps
  <2>2. CASE ShareFailed(s)
    BY <1>1, <2>2, ExchangeSuperDies
  <2>3. ASSUME NEW x \in Supers, \/ HelloSuperToSuper(s, x) \/ FileInfoShare(s, x)
                                 \/ FileInfoShareTooLong(s, x)
        PROVE  ExchangeOK'
    BY <1>1, <2>3, ExchangeRequests
  <2>4. ASSUME NEW c \in Children, \/ HelloFromChild(s, c) \/ FileInfoTooLong(s, c)
                                   \/ SearchQuery(s, c)
        PROVE  ExchangeOK'
    BY <1>1, <2>4, ExchangeRequests
  <2>5. ASSUME NEW c \in Children, FileInfoNoPort(s, c)
        PROVE  ExchangeOK'
    BY <1>1, <2>5, ExchangeForgets
  <2>6. ASSUME NEW c \in Children, FileInfo(s, c)
        PROVE  ExchangeOK'
    BY <1>1, <2>6, ExchangeFileInfo
  <2>7. ASSUME NEW c \in Children, SearchForEver(s, c)
        PROVE  ExchangeOK'
    BY <1>1, <2>7, ExchangeSearchesOn
  <2>8. ASSUME NEW x \in Clients, Rest(s, x)
        PROVE  ExchangeOK'
    BY <1>1, <2>8, ExchangeLeftovers
  <2>9. QED
    BY <1>3, <2>1, <2>2, <2>3, <2>4, <2>5, <2>6, <2>7, <2>8 DEF Super
<1>4. ASSUME NEW s \in Supers, SuperKilled(s)
      PROVE  ExchangeOK'
  BY <1>1, <1>4, ExchangeSuperDies
<1>5. ASSUME NEW c \in Children, Child(c) \/ User(c) \/ ChildKilled(c)
      PROVE  ExchangeOK'
  BY <1>1, <1>5, ExchangeChildSteps DEF Child, User
<1>6. QED BY <1>2, <1>3, <1>4, <1>5 DEF Next

-----------------------------------------------------------------------------
(* Streams, resets, super nodes that do not listen                         *)

HomeOK == \A c \in Children : childPc[c] = "start" \/ Dead(c) \/ Listening(Home[c]) \/ Dead(Home[c])

(* A packet of x is taken by a super node that listens, or put there by x  *)
(* when it lives.                                                          *)
StreamMoves(x) ==
  \/ sent'[x] = sent[x] \/ sent'[x] = <<>>
  \/ /\ Listening(Server(x))
     /\ \/ ~Dead(x)
        \/ sent[x] # <<>> /\ sent'[x] = Tail(sent[x])
        \/ sent[x] # <<>> /\ Head(sent[x]).type # "rest" /\ Taken(x)

(* x is reset by an answer to its request, or when it dies before it has   *)
(* read the answer.                                                        *)
ResetMoves(x) ==
  x \in reset' =>
    \/ x \in reset
    \/ Dead(x) /\ sent[x] # <<>> /\ Head(sent[x]).type # "rest" /\ Taken(x)
    \/ Dead(x)' /\ answers[x] # <<>> /\ sent'[x] = sent[x]

(* A super node that ends takes the streams of its clients with it.        *)
Cuts ==
  \A s \in Supers : Listening(s) /\ superPc'[s] = "exited" =>
     \A x \in Clients : Server(x) = s => sent'[x] = <<>>

Streams == Cuts /\ \A x \in Clients : StreamMoves(x) /\ ResetMoves(x)

(* A step that takes one packet, and answers with a reset if it must.      *)
LEMMA StreamsTaken ==
  ASSUME Types, NEW s \in Supers, NEW x \in Clients, Listening(s), Server(x) = s,
         sent[x] # <<>>, UNCHANGED superPc,
         \/ Read(x) /\ UNCHANGED reset
         \/ /\ Head(sent[x]).type # "rest"
            /\ Read(x) \/ ReadPart(x)
            /\ UNCHANGED reset \/ \E a : Write(x, a)
  PROVE  Streams
<1>1. Taken(x) /\ (Read(x) => sent'[x] = Tail(sent[x]))
  BY ReadAt
<1>2. \A y \in Clients : y # x => sent'[y] = sent[y]
  BY ReadAt
<1>3. \A y \in reset' : y \in reset \/ (y = x /\ Dead(x) /\ Head(sent[x]).type # "rest")
  <2>1. CASE UNCHANGED reset
    BY <2>1
  <2>2. CASE Head(sent[x]).type # "rest" /\ \E a : Write(x, a)
    BY <2>2 DEF Write
  <2>3. QED BY <2>1, <2>2
<1>4. StreamMoves(x)
  BY <1>1 DEF StreamMoves
<1>5. \A y \in Clients : StreamMoves(y)
  BY <1>2, <1>4 DEF StreamMoves
<1>6. \A y \in Clients : ResetMoves(y)
  BY <1>1, <1>3 DEF ResetMoves
<1>7. Cuts
  BY DEF Cuts, Listening
<1>8. QED BY <1>5, <1>6, <1>7 DEF Streams

(* A step that leaves the streams and the super nodes in their loop alone, *)
(* or lets one living client write to a super node that listens.           *)
LEMMA StreamsSent ==
  ASSUME NEW x \in Clients, UNCHANGED reset,
         \A y \in Clients : y # x => sent'[y] = sent[y],
         sent'[x] = sent[x] \/ (~Dead(x) /\ Listening(Server(x))),
         \A s \in Supers : Listening(s) => superPc'[s] # "exited"
  PROVE  Streams
BY DEF Streams, Cuts, StreamMoves, ResetMoves

(* A super node ends.                                                      *)
LEMMA StreamsEnd ==
  ASSUME Types, NEW s \in Supers, SuperEnds(s),
         \A y \in Clients : ResetMoves(y)
  PROVE  Streams
<1>1. \A x \in Clients : sent'[x] = IF Server(x) = s THEN <<>> ELSE sent[x]
  BY SuperEndsAt
<1>2. \A t \in Supers : t # s => superPc'[t] = superPc[t]
  BY SuperEndsAt
<1>3. Cuts
  BY <1>1, <1>2 DEF Cuts, Listening
<1>4. \A x \in Clients : StreamMoves(x)
  BY <1>1 DEF StreamMoves
<1>5. QED BY <1>3, <1>4 DEF Streams

(* The steps of the super nodes.                                           *)
LEMMA StreamsOfSupers ==
  ASSUME Types, NEW s \in Supers, Super(s) \/ SuperKilled(s)
  PROVE  Streams
<1>0. /\ DOMAIN superPc = Supers /\ s \in Clients /\ Server(s) = Other(s) /\ Other(s) \in Supers
      /\ Other(s) # s /\ DOMAIN sent = Clients
  BY Nodes DEF Types, SuperTypes, StreamTypes
<1>1. CASE \/ Listen(s) \/ Accept(s) \/ ShareReturned(s) \/ ShareUnanswered(s)
           \/ s = 2 /\ (HelloRefused \/ HelloReturned \/ HelloNoAnswer)
  <2>1. UNCHANGED <<sent, reset>>
    BY <1>1 DEF Listen, Accept, ShareReturned, ShareUnanswered, HelloRefused, HelloReturned,
                HelloNoAnswer, Answered, network
  <2>2. \A t \in Supers : Listening(t) => superPc'[t] # "exited"
    BY <1>0, <1>1 DEF Listen, Accept, ShareReturned, ShareUnanswered, HelloRefused, HelloReturned,
                HelloNoAnswer, Listening
  <2>3. QED BY <1>0, <2>1, <2>2, StreamsSent
<1>2. CASE s = 2 /\ SayHello
  <2>1. /\ UNCHANGED reset /\ \A y \in Clients : y # s => sent'[y] = sent[y]
    BY <1>0, <1>2, ConnectAt DEF SayHello
  <2>2. ~Dead(s) /\ Listening(Server(s))
    BY <1>0, <1>2 DEF SayHello, Dead, Other
  <2>3. \A t \in Supers : Listening(t) => superPc'[t] # "exited"
    BY <1>0, <1>2 DEF SayHello, Listening
  <2>4. QED BY <1>0, <2>1, <2>2, <2>3, StreamsSent
<1>3. CASE ShareFailed(s)
  <2>1. SuperEnds(s) /\ UNCHANGED reset
    BY <1>3 DEF ShareFailed
  <2>2. QED BY <2>1, StreamsEnd DEF ResetMoves
<1>4. CASE SuperKilled(s)
  <2>1. /\ SuperEnds(s)
        /\ reset' = IF answers[s] = <<>> THEN reset ELSE reset \cup {s}
    BY <1>4 DEF SuperKilled
  <2>2. Dead(s)' /\ sent'[s] = sent[s]
    BY <1>0, <2>1, SuperEndsAt
  <2>3. \A y \in Clients : ResetMoves(y)
    BY <2>1, <2>2 DEF ResetMoves
  <2>4. QED BY <2>1, <2>3, StreamsEnd
<1>5. ASSUME NEW x \in Supers, \/ HelloSuperToSuper(s, x) \/ FileInfoShare(s, x)
                               \/ FileInfoShareTooLong(s, x)
      PROVE  Streams
  <2>1. UNCHANGED superPc /\ (Read(x) \/ ReadPart(x)) /\ \E a : Write(x, a)
    BY <1>5 DEF HelloSuperToSuper, FileInfoShare, FileInfoShareTooLong, supers
  <2>2. \E type : type # "rest" /\ Handles(s, x, type)
    BY <1>5 DEF HelloSuperToSuper, FileInfoShare, FileInfoShareTooLong
  <2>3. x \in Clients /\ Listening(s)
    BY <2>2, Nodes DEF Handles, Listening
  <2>4. QED BY <2>1, <2>2, <2>3, StreamsTaken DEF Handles
<1>6. ASSUME NEW c \in Children, \/ HelloFromChild(s, c) \/ FileInfoTooLong(s, c)
                                 \/ FileInfoNoPort(s, c) \/ SearchQuery(s, c)
      PROVE  Streams
  <2>1. UNCHANGED superPc /\ (Read(c) \/ ReadPart(c)) /\ (UNCHANGED reset \/ \E a : Write(c, a))
    BY <1>6 DEF HelloFromChild, FileInfoTooLong, FileInfoNoPort, SearchQuery, supers
  <2>2. \E type : type # "rest" /\ Handles(s, c, type)
    BY <1>6 DEF HelloFromChild, FileInfoTooLong, FileInfoNoPort, SearchQuery
  <2>3. c \in Clients /\ Listening(s)
    BY <2>2, Nodes DEF Handles, Listening
  <2>4. QED BY <2>1, <2>2, <2>3, StreamsTaken DEF Handles
<1>7. ASSUME NEW x \in Clients, Rest(s, x)
      PROVE  Streams
  BY <1>7, StreamsTaken DEF Rest, supers, Listening
<1>8. ASSUME NEW c \in Children, SearchForEver(s, c)
      PROVE  Streams
  <2>1. /\ sent[c] # <<>> /\ Head(sent[c]).type # "rest" /\ Server(c) = s /\ Listening(s)
        /\ Read(c) /\ UNCHANGED reset /\ c \in Clients
    BY <1>8, Nodes DEF SearchForEver, Handles, Listening
  <2>2. sent'[c] = Tail(sent[c]) /\ \A y \in Clients : y # c => sent'[y] = sent[y]
    BY <2>1, ReadAt
  <2>3. \A t \in Supers : Listening(t) => superPc'[t] # "exited"
    BY <1>0, <1>8 DEF SearchForEver, Listening
  <2>4. \A y \in Clients : StreamMoves(y) /\ ResetMoves(y)
    BY <2>1, <2>2 DEF StreamMoves, ResetMoves
  <2>5. QED BY <2>3, <2>4 DEF Streams, Cuts
<1>9. ASSUME NEW c \in Children, FileInfo(s, c)
      PROVE  Streams
  <2>1. /\ Handles(s, c, "FILE_INFO") /\ Write(c, [type |-> "FILE_INFO_RECV_SUCCESS"])
        /\ Read(c) /\ superPc' = [superPc EXCEPT ![s] = "connect"]
    BY <1>9, FileInfoStep
  <2>2. /\ c \in Clients /\ Listening(s) /\ Server(c) = s /\ sent[c] # <<>>
        /\ Head(sent[c]).type # "rest"
    BY <2>1, Nodes DEF Handles, Listening
  <2>3. sent'[c] = Tail(sent[c]) /\ \A y \in Clients : y # c => sent'[y] = sent[y]
    BY <2>1, <2>2, ReadAt
  <2>4. \A t \in Supers : Listening(t) => superPc'[t] # "exited"
    BY <1>0, <2>1 DEF Listening
  <2>5. \A y \in Clients : StreamMoves(y)
    BY <2>2, <2>3 DEF StreamMoves
  <2>6. \A y \in reset' : y \in reset \/ (y = c /\ Dead(c))
    BY <2>1 DEF Write
  <2>7. \A y \in Clients : ResetMoves(y)
    BY <2>2, <2>3, <2>6 DEF ResetMoves, Taken
  <2>8. QED BY <2>4, <2>5, <2>7 DEF Streams, Cuts
<1>10. CASE ShareConnect(s)
  <2>1. UNCHANGED reset /\ ~Dead(s)
    BY <1>10 DEF ShareConnect, Dead
  <2>2. \A t \in Supers : Listening(t) => superPc'[t] # "exited"
    BY <1>0, <1>10 DEF ShareConnect, Listening
  <2>3. \/ UNCHANGED sent
        \/ Reachable(s) /\ Connect(s, [type |-> "FILE_INFO_SHARE", infos |-> sharePkt[s]])
    BY <1>10 DEF ShareConnect
  <2>4. \A y \in Clients : y # s => sent'[y] = sent[y]
    BY <1>0, <2>3, ConnectAt
  <2>5. sent'[s] = sent[s] \/ (~Dead(s) /\ Listening(Server(s)))
    BY <1>0, <2>1, <2>3 DEF Reachable
  <2>6. QED BY <1>0, <2>1, <2>2, <2>4, <2>5, StreamsSent
<1>11. QED
  BY <1>1, <1>2, <1>3, <1>4, <1>5, <1>6, <1>7, <1>8, <1>9, <1>10 DEF Super

(* The steps of the children.                                              *)
LEMMA StreamsOfChildren ==
  ASSUME Types, HomeOK, NEW c \in Children, Child(c) \/ User(c) \/ ChildKilled(c)
  PROVE  Streams
<1>0. c \in Clients /\ c \notin Supers /\ Server(c) = Home[c] /\ Home[c] \in Supers
      /\ DOMAIN childPc = Children /\ DOMAIN sent = Clients
  BY Nodes DEF Types, ChildTypes, StreamTypes
<1>1. UNCHANGED superPc
  BY DEF Child, User, StartChild, HelloFromSuper, FileInfoReturned, SearchReturned, ChildNoAnswer,
         ChildKilled, Search, supers
<1>2. \A t \in Supers : Listening(t) => superPc'[t] # "exited"
  BY <1>1 DEF Listening
<1>3. CASE FileInfoReturned(c) \/ SearchReturned(c) \/ ChildNoAnswer(c)
  <2>1. UNCHANGED <<sent, reset>>
    BY <1>3 DEF FileInfoReturned, SearchReturned, ChildNoAnswer, Answered
  <2>2. QED BY <1>0, <1>2, <2>1, StreamsSent
<1>4. CASE StartChild(c) \/ \E f \in Names : Search(c, f)
  <2>1. UNCHANGED reset /\ ~Dead(c)
    BY <1>0, <1>4 DEF StartChild, Search, Dead
  <2>2. UNCHANGED sent \/ (Listening(Server(c)) /\ \E m : Connect(c, m))
    BY <1>0, <1>4 DEF StartChild, Search
  <2>3. \A y \in Clients : y # c => sent'[y] = sent[y]
    BY <1>0, <2>2, ConnectAt
  <2>4. sent'[c] = sent[c] \/ (~Dead(c) /\ Listening(Server(c)))
    BY <2>1, <2>2
  <2>5. QED BY <1>0, <1>2, <2>1, <2>3, <2>4, StreamsSent
<1>5. CASE HelloFromSuper(c)
  <2>1. UNCHANGED reset /\ childPc[c] = "hello"
    BY <1>5 DEF HelloFromSuper, Answered
  <2>2. ~Dead(c) /\ (Listening(Home[c]) \/ Dead(Home[c]))
    BY <1>0, <2>1 DEF HomeOK, Dead
  <2>3. CASE Dead(Home[c])
    <3>1. UNCHANGED sent
      BY <1>5, <2>3 DEF HelloFromSuper
    <3>2. QED BY <1>0, <1>2, <2>1, <3>1, StreamsSent
  <2>4. CASE Listening(Home[c])
    <3>1. \A y \in Clients : y # c => sent'[y] = sent[y]
      BY <1>0, <1>5 DEF HelloFromSuper
    <3>2. QED BY <1>0, <1>2, <2>1, <2>2, <2>4, <3>1, StreamsSent
  <2>5. QED BY <2>2, <2>3, <2>4
<1>6. CASE ChildKilled(c)
  <2>1. /\ UNCHANGED sent /\ Dead(c)'
        /\ reset' = IF answers[c] = <<>> THEN reset ELSE reset \cup {c}
    BY <1>0, <1>6 DEF ChildKilled, ChildGoes, Dead
  <2>2. \A y \in Clients : StreamMoves(y) /\ ResetMoves(y)
    BY <2>1 DEF StreamMoves, ResetMoves
  <2>3. QED BY <1>2, <2>2 DEF Streams, Cuts
<1>7. QED BY <1>3, <1>4, <1>5, <1>6 DEF Child, User

(* Every step moves the streams so.                                        *)
LEMMA StreamsMove ==
  ASSUME Types, HomeOK, [Next]_vars
  PROVE  Streams
<1>1. CASE UNCHANGED vars
  BY <1>1 DEF vars, supers, network, Streams, Cuts, StreamMoves, ResetMoves, Listening
<1>2. QED BY <1>1, StreamsOfSupers, StreamsOfChildren DEF Next

(* A super node that does not listen has no packet to read.                *)
LEMMA DeafKept ==
  ASSUME Types, Grows, Streams, Deaf
  PROVE  Deaf'
<1> SUFFICES ASSUME NEW x \in Clients, ~Listening(Server(x))'
             PROVE  sent'[x] = <<>>
  BY DEF Deaf, Server
<1>1. Server(x) \in Supers
  BY Nodes
<1>2. CASE Listening(Server(x))
  <2>1. superPc'[Server(x)] = "exited"
    BY <1>1, <1>2 DEF Grows, Listening
  <2>2. QED BY <1>1, <1>2, <2>1 DEF Streams, Cuts
<1>3. CASE ~Listening(Server(x))
  BY <1>3 DEF Deaf, Streams, StreamMoves
<1>4. QED BY <1>2, <1>3

(* Only the dead are reset, with nothing left to be answered.              *)
ResetQuiet == \A x \in reset : Dead(x) /\ Quiet(x)

(* Every step keeps it so: a reset client is dead and asks nothing more.   *)
LEMMA ResetKept ==
  ASSUME Types, Grows, Streams, ExchangeOK, ResetQuiet, StreamTypes'
  PROVE  ResetQuiet'
<1> SUFFICES ASSUME NEW x \in reset'
             PROVE  Dead(x)' /\ Quiet(x)'
  BY DEF ResetQuiet
<1>1. x \in Clients /\ StreamMoves(x) /\ ResetMoves(x) /\ Exchange(x)
  BY DEF StreamTypes, Streams, ExchangeOK
<1>2. CASE x \in reset
  <2>1. Dead(x) /\ Dead(x)' /\ Quiet(x)
    BY <1>1, <1>2, DeadStays DEF ResetQuiet
  <2>2. sent[x] # <<>> => Head(sent[x]).type = "rest" /\ Tail(sent[x]) = <<>>
    BY <1>1, <2>1, QuietHead
  <2>3. sent'[x] = sent[x] \/ sent'[x] = <<>>
    BY <1>1, <2>1, <2>2 DEF StreamMoves
  <2>4. QED BY <2>1, <2>3 DEF Quiet
<1>3. CASE Dead(x) /\ sent[x] # <<>> /\ Head(sent[x]).type # "rest" /\ Taken(x)
  BY <1>1, <1>3, RequestRead, DeadStays
<1>4. CASE Dead(x)' /\ answers[x] # <<>> /\ sent'[x] = sent[x]
  BY <1>1, <1>4 DEF Exchange, Quiet
<1>5. QED BY <1>1, <1>2, <1>3, <1>4 DEF ResetMoves

-----------------------------------------------------------------------------
(* The steps as one child sees them                                        *)

Untouched(c) == /\ childPc'[c] = childPc[c] /\ wanted'[c] = wanted[c]
                /\ promised'[c] = promised[c] /\ answers'[c] = answers[c]

(* Its super node answers a request of c, or ignores it.                   *)
HomeServes(c) ==
  \/ HelloFromChild(Home[c], c) \/ FileInfoTooLong(Home[c], c) \/ FileInfoNoPort(Home[c], c)
  \/ FileInfo(Home[c], c) \/ SearchQuery(Home[c], c)
  \/ SearchForEver(Home[c], c)

Moves(c) ==
  \/ StartChild(c) \/ HelloFromSuper(c) \/ FileInfoReturned(c) \/ SearchReturned(c)
  \/ ChildNoAnswer(c) \/ ChildKilled(c) \/ \E f \in Names : Search(c, f)

(* A super node that answers x touches no other child.                     *)
LEMMA OthersUntouched ==
  ASSUME Types, NEW x \in Clients, UNCHANGED children,
         UNCHANGED answers \/ \E a : Write(x, a)
  PROVE  \A c \in Children : c # x => Untouched(c)
<1>1. \A y \in Clients : y # x => answers'[y] = answers[y]
  BY WriteAt
<1>2. QED BY <1>1, Nodes DEF Untouched, children

(* A step is one of c, one of its super node for c, or touches c nowhere.  *)
LEMMA ChildSteps ==
  ASSUME Types, [Next]_vars, NEW c \in Children
  PROVE  Untouched(c) \/ HomeServes(c) \/ Moves(c)
<1>0. /\ c \in Clients /\ c \notin Supers /\ Server(c) = Home[c]
      /\ DOMAIN childPc = Children /\ DOMAIN wanted = Children /\ DOMAIN promised = Children
      /\ DOMAIN answers = Clients
  BY Nodes DEF Types, ChildTypes, StreamTypes
<1>1. CASE UNCHANGED vars
  BY <1>1 DEF vars, children, network, Untouched
<1>2. ASSUME NEW s \in Supers, Super(s) \/ SuperKilled(s)
      PROVE  Untouched(c) \/ HomeServes(c)
  <2>0. s \in Clients /\ s # c
    BY <1>0, Nodes
  <2>1. CASE \/ Listen(s) \/ Accept(s) \/ ShareConnect(s) \/ ShareUnanswered(s)
             \/ ShareFailed(s) \/ SayHello \/ HelloRefused \/ HelloNoAnswer
    <3>1. UNCHANGED <<children, answers>>
      BY <2>1 DEF Listen, Accept, ShareConnect, ShareUnanswered, ShareFailed, SayHello,
                  HelloRefused, HelloNoAnswer, network
    <3>2. QED BY <1>0, <2>0, <3>1, OthersUntouched
  <2>2. CASE ShareReturned(s) \/ SuperKilled(s) \/ (s = 2 /\ HelloReturned)
    <3>1. UNCHANGED children
      BY <2>2 DEF ShareReturned, SuperKilled, HelloReturned
    <3>2. answers'[c] = answers[c]
      BY <1>0, <2>0, <2>2 DEF ShareReturned, SuperKilled, HelloReturned, Answered
    <3>3. QED BY <3>1, <3>2 DEF Untouched, children
  <2>3. ASSUME NEW x \in Supers, \/ HelloSuperToSuper(s, x) \/ FileInfoShare(s, x)
                                 \/ FileInfoShareTooLong(s, x)
        PROVE  Untouched(c)
    <3>1. UNCHANGED children /\ \E a : Write(x, a)
      BY <2>3 DEF HelloSuperToSuper, FileInfoShare, FileInfoShareTooLong
    <3>2. x \in Clients /\ x # c
      BY <1>0, Nodes
    <3>3. QED BY <3>1, <3>2, OthersUntouched
  <2>4. ASSUME NEW d \in Children,
               \/ HelloFromChild(s, d) \/ FileInfoTooLong(s, d) \/ FileInfoNoPort(s, d)
               \/ FileInfo(s, d) \/ SearchQuery(s, d) \/ SearchForEver(s, d)
        PROVE  Untouched(c) \/ HomeServes(c)
    <3>1. Server(d) = s /\ d \in Clients /\ Server(d) = Home[d]
      BY <2>4, Nodes, FileInfoStep
      DEF HelloFromChild, FileInfoTooLong, FileInfoNoPort, SearchQuery, SearchForEver, Handles
    <3>2. UNCHANGED children /\ (UNCHANGED answers \/ \E a : Write(d, a))
      <4>1. CASE FileInfo(s, d)
        BY <4>1, FileInfoStep
      <4>2. CASE ~FileInfo(s, d)
        BY <2>4, <4>2
        DEF HelloFromChild, FileInfoTooLong, FileInfoNoPort, SearchQuery, SearchForEver
      <4>3. QED BY <4>1, <4>2
    <3>3. CASE c # d
      BY <3>1, <3>2, <3>3, OthersUntouched
    <3>4. CASE c = d
      BY <2>4, <3>1, <3>4 DEF HomeServes
    <3>5. QED BY <3>3, <3>4
  <2>5. ASSUME NEW x \in Clients, Rest(s, x)
        PROVE  Untouched(c)
    <3>1. UNCHANGED <<children, answers>>
      BY <2>5 DEF Rest
    <3>2. QED BY <1>0, <2>0, <3>1, OthersUntouched
  <2>6. QED BY <1>2, <2>1, <2>2, <2>3, <2>4, <2>5 DEF Super
<1>3. ASSUME NEW d \in Children, Child(d) \/ User(d) \/ ChildKilled(d)
      PROVE  Untouched(c) \/ Moves(c)
  <2>1. CASE c = d
    BY <1>3, <2>1 DEF Child, User, Moves
  <2>2. CASE c # d
    BY <1>0, <1>3, <2>2
    DEF Child, User, StartChild, HelloFromSuper, FileInfoReturned, SearchReturned,
        ChildNoAnswer, ChildKilled, Search, ChildGoes, Answered, Untouched
  <2>3. QED BY <2>1, <2>2
<1>4. QED BY <1>1, <1>2, <1>3 DEF Next

(* A request of c that its super node handles is the one c waits with.     *)
LEMMA ChildAsked ==
  ASSUME NEW s \in Supers, NEW c \in Children, Exchange(c),
         NEW type \in {"HELLO_FROM_CHILD", "FILE_INFO", "SEARCH_QUERY"}, Handles(s, c, type)
  PROVE  /\ s = Home[c] /\ answers[c] = <<>>
         /\ type = "HELLO_FROM_CHILD" => Dead(c) \/ childPc[c] = "hello"
         /\ type = "FILE_INFO" => Dead(c) \/ childPc[c] = "info"
         /\ type = "SEARCH_QUERY" =>
              Dead(c) \/ (childPc[c] = "search" /\ Head(sent[c]).fileName = wanted[c])
<1>1. c \in Clients /\ Server(c) = Home[c]
  BY Nodes
<1>2. sent[c] # <<>> /\ Head(sent[c]).type = type /\ type # "rest" /\ Server(c) = s
  BY DEF Handles
<1>3. answers[c] = <<>> /\ \E m \in Asks(c) : m = Head(sent[c]) /\ (Dead(c) \/ WaitsFor(c, m))
  BY <1>1, <1>2, RequestRead
<1>4. QED BY <1>1, <1>2, <1>3 DEF WaitsFor

(* The first answer of a client that has none.                             *)
LEMMA FirstAnswer ==
  ASSUME Types, NEW x \in Clients, answers[x] = <<>>, NEW a, Write(x, a), ~Dead(x)
  PROVE  answers'[x] = <<a>>
<1>1. answers'[x] = Append(answers[x], a)
  BY WriteAt
<1>2. QED BY <1>1, StreamEnds

(* What the super node of c does about its request.                        *)
RegistersFor(c) ==
  /\ childPc[c] = "hello" /\ HelloFromChild(Home[c], c)
  /\ answers'[c] = <<[type |-> "HELLO_FROM_SUPER"]>>

RefusesFor(c) ==
  /\ childPc[c] = "info"
  /\ answers'[c] \in {<<>>, <<[type |-> "FILE_INFO_RECV_ERROR"]>>}

StoresFor(c) ==
  /\ childPc[c] = "info" /\ FileInfo(Home[c], c)
  /\ answers'[c] = <<[type |-> "FILE_INFO_RECV_SUCCESS"]>>

SearchesFor(c) ==
  /\ childPc[c] = "search"
  /\ \/ answers'[c] = <<>>
     \/ \E i \in Found(table[Home[c]], wanted[c]) :
           answers'[c] = <<[type |-> "SEARCH_ANS_SUCCESS", info |-> i]>>
     \/ /\ Named(table[Home[c]], wanted[c]) = {}
        /\ answers'[c] = <<[type |-> "SEARCH_ANS_FAIL"]>>

(* It does one of these, unless c is dead.                                 *)
LEMMA HomeAnswers ==
  ASSUME Types, NEW c \in Children, Exchange(c), HomeServes(c), ~Dead(c)
  PROVE  /\ UNCHANGED children
         /\ RegistersFor(c) \/ RefusesFor(c) \/ StoresFor(c) \/ SearchesFor(c)
<1> DEFINE s == Home[c]
<1>0. c \in Clients /\ s \in Supers
  BY Nodes
<1>1. CASE HelloFromChild(s, c)
  <2>1. /\ Handles(s, c, "HELLO_FROM_CHILD") /\ Write(c, [type |-> "HELLO_FROM_SUPER"])
        /\ UNCHANGED children
    BY <1>1 DEF HelloFromChild
  <2>2. answers[c] = <<>> /\ childPc[c] = "hello"
    BY <1>0, <2>1, ChildAsked
  <2>3. QED BY <1>0, <1>1, <2>1, <2>2, FirstAnswer DEF RegistersFor
<1>2. CASE FileInfoTooLong(s, c) \/ FileInfoNoPort(s, c)
  <2>1. /\ Handles(s, c, "FILE_INFO") /\ UNCHANGED children
        /\ UNCHANGED answers \/ Write(c, [type |-> "FILE_INFO_RECV_ERROR"])
    BY <1>2 DEF FileInfoTooLong, FileInfoNoPort
  <2>2. answers[c] = <<>> /\ childPc[c] = "info"
    BY <1>0, <2>1, ChildAsked
  <2>3. QED BY <1>0, <2>1, <2>2, FirstAnswer DEF RefusesFor
<1>3. CASE FileInfo(s, c)
  <2>1. /\ Handles(s, c, "FILE_INFO") /\ UNCHANGED children
        /\ Write(c, [type |-> "FILE_INFO_RECV_SUCCESS"])
    BY <1>0, <1>3, FileInfoStep
  <2>2. answers[c] = <<>> /\ childPc[c] = "info"
    BY <1>0, <2>1, ChildAsked
  <2>3. QED BY <1>0, <1>3, <2>1, <2>2, FirstAnswer DEF StoresFor
<1>4. CASE SearchQuery(s, c) \/ SearchForEver(s, c)
  <2>1. /\ Handles(s, c, "SEARCH_QUERY") /\ UNCHANGED children
    BY <1>4 DEF SearchQuery, SearchForEver
  <2>2. answers[c] = <<>> /\ childPc[c] = "search" /\ Head(sent[c]).fileName = wanted[c]
    BY <1>0, <2>1, ChildAsked
  <2>3. \/ UNCHANGED answers
        \/ \E i \in Found(table[s], wanted[c]) :
             Write(c, [type |-> "SEARCH_ANS_SUCCESS", info |-> i])
        \/ Named(table[s], wanted[c]) = {} /\ Write(c, [type |-> "SEARCH_ANS_FAIL"])
    BY <1>4, <2>2 DEF SearchQuery, SearchForEver
  <2>4. QED BY <1>0, <2>1, <2>2, <2>3, FirstAnswer DEF SearchesFor
<1>5. QED BY <1>1, <1>2, <1>3, <1>4 DEF HomeServes

(* A child that has connected has connected to a super node that listens.  *)
LEMMA HomeKept ==
  ASSUME Types, Grows, ExchangeOK, HomeOK, [Next]_vars
  PROVE  HomeOK'
<1> SUFFICES ASSUME NEW c \in Children
             PROVE  (childPc[c] = "start" \/ Dead(c) \/ Listening(Home[c]) \/ Dead(Home[c]))'
  BY DEF HomeOK
<1>1. /\ c \in Clients /\ c \notin Supers /\ Home[c] \in Supers /\ Home[c] \in Clients
      /\ DOMAIN childPc = Children /\ Exchange(c)
  BY Nodes DEF Types, ChildTypes, ExchangeOK
<1>2. CASE Dead(c) \/ Dead(Home[c])
  BY <1>1, <1>2, DeadStays
<1>3. CASE Listening(Home[c])
  BY <1>1, <1>3 DEF Grows, Dead
<1>4. CASE childPc[c] = "start" /\ ~Listening(Home[c]) /\ ~Dead(c)
  <2>1. Untouched(c) \/ HomeServes(c) \/ Moves(c)
    BY ChildSteps
  <2>2. ~HomeServes(c)
    BY <1>1, <1>4, HomeAnswers DEF RegistersFor, RefusesFor, StoresFor, SearchesFor
  <2>3. childPc'[c] = "start" \/ childPc'[c] = "exited"
    BY <1>1, <1>4, <2>1, <2>2
    DEF Untouched, Moves, StartChild, HelloFromSuper, FileInfoReturned, SearchReturned,
        ChildNoAnswer, ChildKilled, Search, ChildGoes
  <2>4. QED BY <1>1, <2>3 DEF Dead
<1>5. QED BY <1>2, <1>3, <1>4 DEF HomeOK

(* A child that is to send its infos has a slot, or there is none left.    *)
Registers(c) == childPc[c] = "info" \/ (childPc[c] = "hello" /\ answers[c] # <<>>)

SlotOK == \A c \in Children : Registers(c) => HasSlot(c)

(* Registration is what lets a child send its infos.                       *)
LEMMA SlotKept ==
  ASSUME Types, Grows, ExchangeOK, SlotOK, [Next]_vars
  PROVE  SlotOK'
<1> SUFFICES ASSUME NEW c \in Children, Registers(c)'
             PROVE  HasSlot(c)'
  BY DEF SlotOK
<1>0. /\ c \in Clients /\ c \notin Supers /\ Home[c] \in Supers /\ Exchange(c)
      /\ DOMAIN childPc = Children /\ DOMAIN childPorts = Supers
      /\ childPorts[Home[c]] \in Seq(Children) /\ Len(childPorts[Home[c]]) <= CHILD_NUMBER
  BY Nodes DEF Types, ChildTypes, SuperTypes, ExchangeOK
<1>1. CASE Registers(c)
  BY <1>1, SlotStays DEF SlotOK
<1>2. CASE ~Registers(c)
  <2>1. ~Untouched(c)
    BY <1>2 DEF Untouched, Registers
  <2>2. ~Moves(c)
    <3>1. ASSUME StartChild(c)
          PROVE  FALSE
      <4>1. answers[c] = <<>> /\ answers' = answers
        BY <1>0, <3>1, IdleIsQuiet DEF StartChild, Dead, Waits
      <4>2. childPc'[c] # "info"
        BY <1>0, <3>1 DEF StartChild, ChildGoes
      <4>3. QED BY <4>1, <4>2 DEF Registers
    <3>2. ASSUME HelloFromSuper(c)
          PROVE  FALSE
      BY <1>2, <3>2 DEF HelloFromSuper, Answered, Registers
    <3>3. ASSUME \/ FileInfoReturned(c) \/ SearchReturned(c) \/ ChildNoAnswer(c)
                 \/ ChildKilled(c) \/ \E f \in Names : Search(c, f)
          PROVE  FALSE
      BY <1>0, <3>3 DEF FileInfoReturned, SearchReturned, ChildNoAnswer, ChildKilled, Search,
                        ChildGoes, Registers
    <3>4. QED BY <3>1, <3>2, <3>3 DEF Moves
  <2>3. HomeServes(c)
    BY <2>1, <2>2, ChildSteps
  <2>4. CASE Dead(c)
    <3>1. Dead(c)'
      BY <1>0, <2>4, DeadStays
    <3>2. QED BY <1>0, <3>1 DEF Dead, Registers
  <2>5. CASE ~Dead(c)
    <3>1. UNCHANGED children /\ (RegistersFor(c) \/ RefusesFor(c) \/ StoresFor(c) \/ SearchesFor(c))
      BY <1>0, <2>3, <2>5, HomeAnswers
    <3>2. RegistersFor(c)
      BY <1>2, <3>1 DEF RefusesFor, StoresFor, SearchesFor, Registers, children
    <3>3. childPorts'[Home[c]] = Registered(childPorts[Home[c]], c)
      BY <1>0, <3>2 DEF RegistersFor, HelloFromChild
    <3>4. CASE Len(childPorts[Home[c]]) < CHILD_NUMBER
      <4>1. childPorts'[Home[c]] = Append(childPorts[Home[c]], c)
        BY <3>3, <3>4 DEF Registered
      <4>2. Len(childPorts'[Home[c]]) \in 1 .. Len(childPorts'[Home[c]])
            /\ childPorts'[Home[c]][Len(childPorts'[Home[c]])] = c
        BY <1>0, <4>1
      <4>3. QED BY <4>2 DEF HasSlot, PortOf
    <3>5. CASE ~(Len(childPorts[Home[c]]) < CHILD_NUMBER)
      <4>1. childPorts'[Home[c]] = childPorts[Home[c]]
        BY <3>3, <3>5 DEF Registered
      <4>2. Len(childPorts[Home[c]]) = CHILD_NUMBER
        BY <1>0, <3>5, OverlayAssumption
      <4>3. QED BY <4>1, <4>2 DEF HasSlot
    <3>6. QED BY <3>4, <3>5
  <2>6. QED BY <2>4, <2>5
<1>3. QED BY <1>1, <1>2

-----------------------------------------------------------------------------
(* What is stored is true                                                  *)

(* The infos that a super node shares are those of one child, and true.    *)
LEMMA SharesTrue ==
  ASSUME NEW c \in Children, NEW m \in SharesOf(c)
  PROVE  /\ m.type = "FILE_INFO_SHARE" /\ m \in Msg
         /\ \A i \in m.infos : InfoTrue(i)
         /\ \E a \in {c, Unwritten} : m.infos = InfosOf(c, FilesOf[c], a, c)
<1>1. PICK a \in {c, Unwritten} :
        m = [type |-> "FILE_INFO_SHARE", infos |-> InfosOf(c, FilesOf[c], a, c)]
  BY DEF SharesOf
<1>2. \A i \in InfosOf(c, FilesOf[c], a, c) : InfoTrue(i)
  BY DEF InfosOf, InfoTrue
<1>3. InfosOf(c, FilesOf[c], a, c) \in SUBSET Info
  BY OverlayAssumption, InfosOfType
<1>4. m \in Msg
  BY <1>1, <1>3, FullMsgs
<1>5. QED BY <1>1, <1>2, <1>4

(* The request that FileInfoShare handles is what FileInfo has shared.     *)
LEMMA ShareAsked ==
  ASSUME NEW s \in Supers, NEW x \in Supers, Exchange(x), Handles(s, x, "FILE_INFO_SHARE")
  PROVE  \E c \in Children : Head(sent[x]) \in SharesOf(c) /\ Asked(x, Head(sent[x]))
<1>1. x \in Clients /\ x \notin Children
  BY Nodes
<1>2. sent[x] # <<>> /\ Head(sent[x]).type = "FILE_INFO_SHARE"
  BY DEF Handles
<1>3. ~Quiet(x)
  BY <1>1, <1>2, QuietHead
<1>4. PICK m \in Asks(x) : Asked(x, m)
  BY <1>3 DEF Exchange
<1>5. m = Head(sent[x])
  BY <1>1, <1>2, <1>4, AskedHead
<1>6. QED BY <1>1, <1>2, <1>4, <1>5 DEF Asks

(* A step leaves what is to be shared alone, or it is one of FileInfo,     *)
(* ShareConnect and the end of one super node.                             *)
PktMoves(s) ==
  /\ \A t \in Supers : t # s => superPc'[t] = superPc[t]
  /\ \/ \E c \in Children : FileInfo(s, c)
     \/ ShareConnect(s) \/ SuperKilled(s) \/ ShareFailed(s)

(* Every step does one or the other.                                       *)
LEMMA PktSteps ==
  ASSUME Types, [Next]_vars
  PROVE  \/ /\ UNCHANGED sharePkt
            /\ \A s \in Supers : \/ superPc'[s] = superPc[s]
                                 \/ superPc[s] # "connect" /\ superPc'[s] # "connect"
         \/ \E s \in Supers : PktMoves(s)
<1>0. DOMAIN superPc = Supers
  BY DEF Types, SuperTypes
<1>1. CASE UNCHANGED vars
  BY <1>1 DEF vars, supers
<1>2. ASSUME NEW s \in Supers, Super(s) \/ SuperKilled(s)
      PROVE  \/ /\ UNCHANGED sharePkt
                /\ \A t \in Supers : \/ superPc'[t] = superPc[t]
                                     \/ superPc[t] # "connect" /\ superPc'[t] # "connect"
             \/ PktMoves(s)
  <2>1. CASE \/ Listen(s) \/ Accept(s) \/ ShareReturned(s) \/ ShareUnanswered(s)
             \/ s = 2 /\ (SayHello \/ HelloRefused \/ HelloReturned \/ HelloNoAnswer)
    BY <1>0, <2>1 DEF Listen, Accept, ShareReturned, ShareUnanswered, SayHello, HelloRefused,
                      HelloReturned, HelloNoAnswer
  <2>2. CASE SuperKilled(s) \/ ShareFailed(s)
    <3>1. SuperEnds(s)
      BY <2>2 DEF SuperKilled, ShareFailed
    <3>2. QED BY <2>2, <3>1, SuperEndsAt DEF PktMoves
  <2>3. CASE ShareConnect(s)
    BY <1>0, <2>3 DEF ShareConnect, PktMoves
  <2>4. ASSUME NEW c \in Children, FileInfo(s, c)
        PROVE  PktMoves(s)
    <3>1. superPc' = [superPc EXCEPT ![s] = "connect"]
      BY <2>4, FileInfoStep
    <3>2. QED BY <1>0, <2>4, <3>1 DEF PktMoves
  <2>5. ASSUME NEW c \in Children, SearchForEver(s, c)
        PROVE  UNCHANGED sharePkt /\ superPc[s] = "loop"
               /\ superPc' = [superPc EXCEPT ![s] = "search"]
    BY <2>5 DEF SearchForEver, Handles
  <2>6. CASE \/ \E x \in Supers : \/ HelloSuperToSuper(s, x) \/ FileInfoShare(s, x)
                                  \/ FileInfoShareTooLong(s, x)
             \/ \E c \in Children : \/ HelloFromChild(s, c) \/ FileInfoTooLong(s, c)
                                    \/ FileInfoNoPort(s, c) \/ SearchQuery(s, c)
             \/ \E x \in Clients : Rest(s, x)
    BY <2>6 DEF HelloSuperToSuper, FileInfoShare, FileInfoShareTooLong, HelloFromChild,
                FileInfoTooLong, FileInfoNoPort, SearchQuery, Rest, supers
  <2>7. CASE \E c \in Children : SearchForEver(s, c)
    BY <1>0, <2>5, <2>7
  <2>8. QED BY <1>2, <2>1, <2>2, <2>3, <2>4, <2>6, <2>7 DEF Super
<1>3. ASSUME NEW c \in Children, Child(c) \/ User(c) \/ ChildKilled(c)
      PROVE  UNCHANGED <<superPc, sharePkt>>
  BY <1>3 DEF Child, User, StartChild, HelloFromSuper, FileInfoReturned, SearchReturned,
              ChildNoAnswer, ChildKilled, Search, supers
<1>4. QED BY <1>1, <1>2, <1>3 DEF Next

(* What is still to be shared stays the infos of one child.                *)
LEMMA PktsKept ==
  ASSUME Types, ExchangeOK, PktsOK, [Next]_vars
  PROVE  PktsOK'
<1> DEFINE Own(s) == superPc'[s] = "connect" =>
                       \E c \in Children : \E m \in SharesOf(c) : m.infos = sharePkt'[s]
<1>0. sharePkt \in [Supers -> SUBSET Info] /\ DOMAIN superPc = Supers
  BY DEF Types, SuperTypes, PktsOK
<1>1. ASSUME sharePkt' \in [Supers -> SUBSET Info], \A s \in Supers : Own(s)
      PROVE  PktsOK'
  BY <1>1 DEF PktsOK, SharesOf, InfosOf
<1>2. CASE /\ UNCHANGED sharePkt
           /\ \A s \in Supers : \/ superPc'[s] = superPc[s]
                                \/ superPc[s] # "connect" /\ superPc'[s] # "connect"
  BY <1>0, <1>1, <1>2 DEF PktsOK
<1>3. ASSUME NEW s \in Supers, PktMoves(s)
      PROVE  PktsOK'
  <2>1. \A t \in Supers : t # s => superPc'[t] = superPc[t]
    BY <1>3 DEF PktMoves
  <2>2. ASSUME NEW c \in Children, FileInfo(s, c)
        PROVE  PktsOK'
    <3> DEFINE infos == InfosOf(c, Head(sent[c]).files, addr[c], c)
    <3>1. Handles(s, c, "FILE_INFO") /\ sharePkt' = [sharePkt EXCEPT ![s] = infos]
      BY <2>2, FileInfoStep DEF PutsOwn
    <3>2. [type |-> "FILE_INFO_SHARE", infos |-> infos] \in SharesOf(c)
      BY <3>1, Nodes, FileInfoAsked DEF ExchangeOK, Types, AddrTypes
    <3> HIDE DEF infos
    <3>3. infos \in SUBSET Info
      BY <3>2, SharesTrue, MsgParts
    <3>4. Own(s)
      BY <1>0, <3>1, <3>2
    <3>5. \A t \in Supers : t # s => Own(t)
      BY <1>0, <2>1, <3>1 DEF PktsOK
    <3>6. sharePkt' \in [Supers -> SUBSET Info]
      BY <1>0, <3>1, <3>3
    <3> HIDE DEF Own
    <3>7. QED BY <1>1, <3>4, <3>5, <3>6
  <2>3. CASE ShareConnect(s) \/ SuperKilled(s) \/ ShareFailed(s)
    <3>1. sharePkt' = [sharePkt EXCEPT ![s] = {}] /\ superPc'[s] # "connect"
      BY <1>0, <2>3 DEF ShareConnect, SuperKilled, ShareFailed, SuperEnds
    <3>2. Own(s) /\ \A t \in Supers : t # s => Own(t)
      BY <1>0, <2>1, <3>1 DEF PktsOK
    <3>3. sharePkt' \in [Supers -> SUBSET Info]
      BY <1>0, <3>1
    <3> HIDE DEF Own
    <3>4. QED BY <1>1, <3>2, <3>3
  <2>4. QED BY <1>3, <2>2, <2>3 DEF PktMoves
<1>4. QED BY <1>2, <1>3, PktSteps

(* A step adds infos of one child to one table, or none.                   *)
Stores(s, c, a) ==
  \E t \in Inserted(table[s], InfosOf(c, FilesOf[c], a, c)) : table' = [table EXCEPT ![s] = t]

(* Every step is of one of these two kinds.                                *)
LEMMA TableSteps ==
  ASSUME Types, ExchangeOK, [Next]_vars
  PROVE  UNCHANGED table \/ \E s \in Supers, c \in Children : \E a \in {c, Unwritten} : Stores(s, c, a)
<1>1. CASE UNCHANGED vars
  BY <1>1 DEF vars, supers
<1>2. ASSUME NEW s \in Supers, Super(s) \/ SuperKilled(s)
      PROVE  UNCHANGED table \/ \E c \in Children : \E a \in {c, Unwritten} : Stores(s, c, a)
  <2>1. ASSUME NEW x \in Supers, FileInfoShare(s, x)
        PROVE  \E c \in Children : \E a \in {c, Unwritten} : Stores(s, c, a)
    <3>1. /\ Handles(s, x, "FILE_INFO_SHARE")
          /\ \E t \in Inserted(table[s], Head(sent[x]).infos) : table' = [table EXCEPT ![s] = t]
      BY <2>1 DEF FileInfoShare
    <3>2. PICK c \in Children : Head(sent[x]) \in SharesOf(c)
      BY <3>1, ShareAsked, Nodes DEF ExchangeOK
    <3>3. PICK a \in {c, Unwritten} : Head(sent[x]).infos = InfosOf(c, FilesOf[c], a, c)
      BY <3>2, SharesTrue
    <3>4. QED BY <3>1, <3>3 DEF Stores
  <2>2. ASSUME NEW c \in Children, FileInfo(s, c)
        PROVE  \E a \in {c, Unwritten} : Stores(s, c, a)
    <3>1. Handles(s, c, "FILE_INFO") /\ StoresOwn(s, c)
      BY <2>2, FileInfoStep
    <3>2. Head(sent[c]).files = FilesOf[c] /\ addr[c] \in {c, Unwritten}
      BY <3>1, Nodes, FileInfoAsked DEF ExchangeOK, Types, AddrTypes
    <3>3. QED BY <3>1, <3>2 DEF StoresOwn, Stores
  <2>3. QED BY <1>2, <2>1, <2>2
        DEF Super, SuperKilled, Listen, Accept, ShareConnect, ShareReturned, ShareUnanswered,
            ShareFailed, SayHello, HelloRefused, HelloReturned, HelloNoAnswer, HelloSuperToSuper,
            FileInfoShareTooLong, HelloFromChild, FileInfoTooLong, FileInfoNoPort, SearchQuery,
            SearchForEver, Rest, supers
<1>3. ASSUME NEW c \in Children, Child(c) \/ User(c) \/ ChildKilled(c)
      PROVE  UNCHANGED table
  BY <1>3 DEF Child, User, StartChild, HelloFromSuper, FileInfoReturned, SearchReturned,
              ChildNoAnswer, ChildKilled, Search, supers
<1>4. QED BY <1>1, <1>2, <1>3 DEF Next

(* The infos stay true.                                                    *)
LEMMA InfosTrueKept ==
  ASSUME Types, ExchangeOK, InfosTrue, [Next]_vars
  PROVE  InfosTrue'
<1>1. CASE UNCHANGED table
  BY <1>1 DEF InfosTrue, InfoTrue
<1>2. ASSUME NEW s \in Supers, NEW c \in Children, NEW a \in {c, Unwritten}, Stores(s, c, a)
      PROVE  InfosTrue'
  <2>1. PICK t \in Inserted(table[s], InfosOf(c, FilesOf[c], a, c)) : table' = [table EXCEPT ![s] = t]
    BY <1>2 DEF Stores
  <2>2. t \subseteq table[s] \cup InfosOf(c, FilesOf[c], a, c)
    BY DEF Inserted
  <2>3. \A i \in InfosOf(c, FilesOf[c], a, c) : InfoTrue(i)
    BY DEF InfosOf, InfoTrue
  <2>4. \A i \in t : InfoTrue(i)
    BY <2>2, <2>3 DEF InfosTrue
  <2>5. DOMAIN table = Supers
    BY DEF Types, TableTypes
  <2>6. QED BY <2>1, <2>4, <2>5 DEF InfosTrue, InfoTrue
<1>3. QED BY <1>1, <1>2, TableSteps

(* The infos of a child are as many as its files at most.                  *)
LEMMA InfosFinite ==
  ASSUME NEW c \in Children, NEW a
  PROVE  IsFiniteSet(InfosOf(c, FilesOf[c], a, c))
<1> DEFINE info == [f \in FilesOf[c] |-> [fileName |-> f, ipAddr |-> a, portNum |-> c]]
<1>1. IsFiniteSet(FilesOf[c])
  BY OverlayAssumption, FS_Subset
<1>2. info \in Surjection(FilesOf[c], InfosOf(c, FilesOf[c], a, c))
  BY DEF Surjection, InfosOf
<1>3. QED BY <1>1, <1>2, FS_Surjection

(* The tables stay finite.                                                 *)
FiniteTables == \A s \in Supers : IsFiniteSet(table[s])

(* An insertion adds a finite set to a finite one.                         *)
LEMMA FiniteKept ==
  ASSUME Types, ExchangeOK, FiniteTables, [Next]_vars
  PROVE  FiniteTables'
<1>1. CASE UNCHANGED table
  BY <1>1 DEF FiniteTables
<1>2. ASSUME NEW s \in Supers, NEW c \in Children, NEW a \in {c, Unwritten}, Stores(s, c, a)
      PROVE  FiniteTables'
  <2>1. PICK t \in Inserted(table[s], InfosOf(c, FilesOf[c], a, c)) : table' = [table EXCEPT ![s] = t]
    BY <1>2 DEF Stores
  <2>2. t \in SUBSET (table[s] \cup InfosOf(c, FilesOf[c], a, c))
    BY DEF Inserted
  <2>3. IsFiniteSet(table[s] \cup InfosOf(c, FilesOf[c], a, c))
    BY InfosFinite, FS_Union DEF FiniteTables
  <2>4. IsFiniteSet(t)
    BY <2>2, <2>3, FS_Subset
  <2>5. DOMAIN table = Supers
    BY DEF Types, TableTypes
  <2>6. QED BY <2>1, <2>4, <2>5 DEF FiniteTables
<1>3. QED BY <1>1, <1>2, TableSteps

-----------------------------------------------------------------------------
(* What is acknowledged stays stored, and is shared                        *)

(* What a super node knows it goes on knowing, and a full table is full.   *)
KnowsOrCannot(s, c) == Knows(s, c) \/ Full(s) \/ Dead(s)

(* No step makes a super node forget.                                      *)
LEMMA KnowsStays ==
  ASSUME Types, TableTypes', FiniteTables', Grows, NEW s \in Supers, NEW c \in Children,
         KnowsOrCannot(s, c)
  PROVE  KnowsOrCannot(s, c)'
<1>1. table[s] \subseteq table'[s] /\ IsFiniteSet(table'[s]) /\ s \in Clients
  BY Nodes DEF Grows, FiniteTables
<1>2. CASE Knows(s, c)
  BY <1>1, <1>2 DEF KnowsOrCannot, Knows
<1>3. CASE Full(s)
  <2>1. Cardinality(table[s]) <= Cardinality(table'[s]) /\ IsFiniteSet(table[s])
    BY <1>1, FS_Subset
  <2>2. Cardinality(table'[s]) <= HASH_TABLE_SIZE /\ Cardinality(table[s]) = HASH_TABLE_SIZE
    BY <1>3 DEF TableTypes, Full
  <2>3. Cardinality(table'[s]) \in Nat /\ HASH_TABLE_SIZE \in Nat
    BY <1>1, FS_CardinalityType, OverlayAssumption
  <2>4. Cardinality(table'[s]) = HASH_TABLE_SIZE
    BY <2>1, <2>2, <2>3
  <2>5. QED BY <2>4 DEF KnowsOrCannot, Full
<1>4. CASE Dead(s)
  BY <1>1, <1>4, DeadStays DEF KnowsOrCannot
<1>5. QED BY <1>2, <1>3, <1>4 DEF KnowsOrCannot

(* After an insertion the super node knows the infos, or its table is full.*)
LEMMA StoresKnows ==
  ASSUME Types, NEW s \in Supers, NEW c \in Children, NEW a, Stores(s, c, a)
  PROVE  KnowsOrCannot(s, c)'
<1> DEFINE infos == InfosOf(c, FilesOf[c], a, c)
<1>1. PICK t \in Inserted(table[s], infos) : table' = [table EXCEPT ![s] = t]
  BY DEF Stores
<1>2. table'[s] = t
  BY <1>1 DEF Types, TableTypes
<1>3. t = table[s] \cup infos \/ Cardinality(t) = HASH_TABLE_SIZE
  BY DEF Inserted
<1>4. \A f \in FilesOf[c] : \E i \in infos : i.fileName = f /\ i.portNum = c
  <2> SUFFICES ASSUME NEW f \in FilesOf[c]
               PROVE  \E i \in infos : i.fileName = f /\ i.portNum = c
    OBVIOUS
  <2> DEFINE i == [fileName |-> f, ipAddr |-> a, portNum |-> c]
  <2>1. i \in infos
    BY DEF InfosOf
  <2>2. i.fileName = f /\ i.portNum = c
    OBVIOUS
  <2>3. QED BY <2>1, <2>2
<1> HIDE DEF infos
<1>5. CASE t = table[s] \cup infos
  <2>1. infos \subseteq table'[s]
    BY <1>2, <1>5
  <2>2. \A f \in FilesOf[c] : \E i \in table'[s] : i.fileName = f /\ i.portNum = c
    BY <1>4, <2>1
  <2>3. QED BY <2>2 DEF KnowsOrCannot, Knows
<1>6. CASE Cardinality(t) = HASH_TABLE_SIZE
  BY <1>2, <1>6 DEF KnowsOrCannot, Full
<1>7. QED BY <1>3, <1>5, <1>6

(* The infos of c are still to be written, or on their way.                *)
ToShare(c) == superPc[Home[c]] = "connect" /\ \E m \in SharesOf(c) : m.infos = sharePkt[Home[c]]

OnItsWay(c) == \E j \in DOMAIN sent[Home[c]] : sent[Home[c]][j] \in SharesOf(c)

(* The infos of c are on their way: this is the request of its super node. *)
LEMMA SharingIsAsked ==
  ASSUME NEW c \in Children, Exchange(Home[c]), OnItsWay(c)
  PROVE  \E m \in SharesOf(c) : Asked(Home[c], m)
<1> DEFINE s == Home[c]
<1>1. PICK j \in DOMAIN sent[s] : sent[s][j] \in SharesOf(c)
  BY DEF OnItsWay
<1>2. sent[s][j] # Leftover
  BY <1>1, SharesTrue DEF Leftover
<1>3. ~Quiet(s)
  BY <1>1, <1>2 DEF Quiet
<1>4. PICK m \in Asks(s) : Asked(s, m)
  BY <1>3 DEF Exchange
<1>5. sent[s][j] = m
  <2>1. CASE sent[s] = <<m>>
    BY <1>1, <2>1
  <2>2. CASE sent[s] = <<Leftover, m>>
    <3>1. j \in 1 .. 2
      BY <1>1, <2>2
    <3>2. <<Leftover, m>>[1] = Leftover /\ <<Leftover, m>>[2] = m
      OBVIOUS
    <3>3. QED BY <1>2, <2>2, <3>1, <3>2
  <2>3. QED BY <1>4, <2>1, <2>2 DEF Asked
<1>6. QED BY <1>1, <1>4, <1>5

(* And such a request, when it has been sent, is one on its way.           *)
LEMMA AskedIsSharing ==
  ASSUME NEW c \in Children, NEW m \in SharesOf(c), Asked(Home[c], m)'
  PROVE  Sharing(c)'
<1> DEFINE q == sent'[Home[c]]
<1>1. CASE q = <<m>>
  <2>1. 1 \in DOMAIN q /\ q[1] = m
    BY <1>1
  <2>2. QED BY <2>1 DEF Sharing, SharesOf, InfosOf
<1>2. CASE q = <<Leftover, m>>
  <2>1. 2 \in DOMAIN q /\ q[2] = m
    BY <1>2
  <2>2. QED BY <2>1 DEF Sharing, SharesOf, InfosOf
<1>3. QED BY <1>1, <1>2 DEF Asked, Leftover

(* The stream of a super node as a client of the other one.                *)
LEMMA PeerSteps ==
  ASSUME Types, [Next]_vars, NEW s \in Supers
  PROVE  \/ sent'[s] = sent[s] \/ Dead(Other(s))' \/ (~Dead(s) /\ ~Waits(s))
         \/ HelloSuperToSuper(Other(s), s) \/ FileInfoShare(Other(s), s)
         \/ FileInfoShareTooLong(Other(s), s) \/ Rest(Other(s), s)
<1> DEFINE Peer == \/ sent'[s] = sent[s] \/ Dead(Other(s))' \/ (~Dead(s) /\ ~Waits(s))
                   \/ HelloSuperToSuper(Other(s), s) \/ FileInfoShare(Other(s), s)
                   \/ FileInfoShareTooLong(Other(s), s) \/ Rest(Other(s), s)
<1>0. s \in Clients /\ s \notin Children /\ Server(s) = Other(s) /\ DOMAIN sent = Clients
  BY Nodes DEF Types, StreamTypes
<1>1. CASE UNCHANGED vars
  BY <1>1 DEF vars, network
<1>2. ASSUME NEW p \in Supers, Super(p) \/ SuperKilled(p)
      PROVE  Peer
  <2>0. p \in Clients
    BY Nodes
  <2>1. CASE \/ Listen(p) \/ Accept(p) \/ ShareReturned(p) \/ ShareUnanswered(p)
             \/ HelloRefused \/ HelloReturned \/ HelloNoAnswer
    BY <2>1 DEF Listen, Accept, ShareReturned, ShareUnanswered, HelloRefused, HelloReturned,
                HelloNoAnswer, network
  <2>2. CASE p = 2 /\ SayHello
    <3>1. CASE s = p
      BY <2>2, <3>1 DEF SayHello, Dead, Waits
    <3>2. CASE s # p
      BY <1>0, <2>0, <2>2, <3>2, ConnectAt DEF SayHello
    <3>3. QED BY <3>1, <3>2
  <2>3. CASE SuperKilled(p) \/ ShareFailed(p)
    <3>1. SuperEnds(p)
      BY <2>3 DEF SuperKilled, ShareFailed
    <3>2. QED BY <1>0, <3>1, SuperEndsAt
  <2>4. ASSUME NEW x \in Supers, \/ HelloSuperToSuper(p, x) \/ FileInfoShare(p, x)
                                 \/ FileInfoShareTooLong(p, x)
        PROVE  Peer
    <3>1. Server(x) = p /\ (Read(x) \/ ReadPart(x)) /\ x \in Clients
      BY <2>4, Nodes DEF HelloSuperToSuper, FileInfoShare, FileInfoShareTooLong, Handles
    <3>2. CASE s = x
      BY <1>0, <2>4, <3>1, <3>2
    <3>3. CASE s # x
      BY <1>0, <3>1, <3>3, ReadAt
    <3>4. QED BY <3>2, <3>3
  <2>5. ASSUME NEW c \in Children, \/ HelloFromChild(p, c) \/ FileInfoTooLong(p, c)
                                   \/ FileInfoNoPort(p, c) \/ SearchQuery(p, c)
                                   \/ SearchForEver(p, c)
        PROVE  Peer
    <3>1. c \in Clients /\ c # s /\ (Read(c) \/ ReadPart(c))
      BY <2>5, Nodes DEF HelloFromChild, FileInfoTooLong, FileInfoNoPort, SearchQuery, SearchForEver
    <3>2. QED BY <1>0, <3>1, ReadAt
  <2>6. ASSUME NEW c \in Children, FileInfo(p, c)
        PROVE  Peer
    <3>1. c \in Clients /\ c # s /\ Read(c)
      BY <2>6, FileInfoStep, Nodes
    <3>2. QED BY <1>0, <3>1, ReadAt
  <2>7. CASE ShareConnect(p)
    <3>1. CASE s = p
      BY <2>7, <3>1 DEF ShareConnect, Dead, Waits
    <3>2. CASE s # p
      <4>1. \/ UNCHANGED sent
            \/ Connect(p, [type |-> "FILE_INFO_SHARE", infos |-> sharePkt[p]])
        BY <2>7 DEF ShareConnect
      <4>2. QED BY <1>0, <2>0, <3>2, <4>1, ConnectAt
    <3>3. QED BY <3>1, <3>2
  <2>8. ASSUME NEW x \in Clients, Rest(p, x)
        PROVE  Peer
    <3>1. CASE s = x
      BY <1>0, <2>8, <3>1 DEF Rest
    <3>2. CASE s # x
      BY <1>0, <2>8, <3>2, ReadAt DEF Rest
    <3>3. QED BY <3>1, <3>2
  <2>9. QED BY <1>2, <2>1, <2>2, <2>3, <2>4, <2>5, <2>6, <2>8, <2>7 DEF Super
<1>3. ASSUME NEW c \in Children, Child(c) \/ User(c) \/ ChildKilled(c)
      PROVE  sent'[s] = sent[s]
  <2>0. c \in Clients /\ c # s
    BY Nodes
  <2>1. CASE \/ FileInfoReturned(c) \/ SearchReturned(c) \/ ChildNoAnswer(c) \/ ChildKilled(c)
    BY <2>1 DEF FileInfoReturned, SearchReturned, ChildNoAnswer, ChildKilled
  <2>2. CASE StartChild(c) \/ \E f \in Names : Search(c, f)
    <3>1. UNCHANGED sent \/ \E m : Connect(c, m)
      BY <2>2 DEF StartChild, Search
    <3>2. QED BY <1>0, <2>0, <3>1, ConnectAt
  <2>3. CASE HelloFromSuper(c)
    BY <1>0, <2>0, <2>3 DEF HelloFromSuper
  <2>4. QED BY <1>3, <2>1, <2>2, <2>3 DEF Child, User
<1>4. QED BY <1>1, <1>2, <1>3 DEF Next

(* Infos that are known to be lost.                                        *)
LEMMA LostNow ==
  ASSUME NEW c \in Children, NEW m \in SharesOf(c),
         lost' = lost \cup {i.portNum : i \in m.infos}
  PROVE  Shared(c)'
<1>1. PICK a \in {c, Unwritten} : m.infos = InfosOf(c, FilesOf[c], a, c)
  BY SharesTrue
<1>2. CASE FilesOf[c] = {}
  BY <1>2 DEF Shared, Knows
<1>3. CASE FilesOf[c] # {}
  <2>1. PICK f \in FilesOf[c] : TRUE
    BY <1>3
  <2> DEFINE i == [fileName |-> f, ipAddr |-> a, portNum |-> c]
  <2>2. i \in m.infos /\ i.portNum = c
    BY <1>1 DEF InfosOf
  <2>3. QED BY <2>2 DEF Shared
<1>4. QED BY <1>2, <1>3

(* What is still to be shared stays so, is written or is known to be lost. *)
LEMMA ToShareMoves ==
  ASSUME Types, PktsOK, ExchangeOK, [Next]_vars, NEW c \in Children, ToShare(c)
  PROVE  Shared(c)'
<1> DEFINE s == Home[c]
<1>0. /\ s \in Supers /\ s \in Clients /\ s \notin Children /\ Exchange(s)
      /\ DOMAIN superPc = Supers /\ DOMAIN sharePkt = Supers
  BY Nodes DEF ExchangeOK, Types, SuperTypes, PktsOK
<1>1. superPc[s] = "connect"
  BY DEF ToShare
<1>2. PICK m \in SharesOf(c) : m.infos = sharePkt[s]
  BY DEF ToShare
<1>3. ASSUME superPc'[s] = superPc[s], sharePkt'[s] = sharePkt[s]
      PROVE  Shared(c)'
  <2>1. superPc'[s] = "connect" /\ \E n \in SharesOf(c) : n.infos = sharePkt'[s]
    BY <1>1, <1>2, <1>3
  <2>2. Sharing(c)'
    BY <2>1 DEF Sharing, SharesOf, InfosOf
  <2>3. QED BY <2>2 DEF Shared
<1>4. ASSUME NEW p \in Supers, PktMoves(p)
      PROVE  Shared(c)'
  <2>1. CASE p # s
    <3>1. superPc'[s] = superPc[s]
      BY <1>0, <1>4, <2>1 DEF PktMoves
    <3>2. sharePkt'[s] = sharePkt[s]
      <4>1. CASE ShareConnect(p) \/ SuperKilled(p) \/ ShareFailed(p)
        BY <1>0, <2>1, <4>1 DEF ShareConnect, SuperKilled, ShareFailed, SuperEnds
      <4>2. ASSUME NEW d \in Children, FileInfo(p, d)
            PROVE  sharePkt'[s] = sharePkt[s]
        <5>1. PutsOwn(p, d)
          BY <4>2, FileInfoStep
        <5>2. QED BY <1>0, <2>1, <5>1 DEF PutsOwn
      <4>3. QED BY <1>4, <4>1, <4>2 DEF PktMoves
    <3>3. QED BY <1>3, <3>1, <3>2
  <2>2. CASE p = s
    <3>1. ~ShareFailed(s)
      BY <1>1 DEF ShareFailed
    <3>2. \A d \in Children : ~FileInfo(s, d)
      BY <1>0, <1>1, FileInfoStep DEF Handles
    <3>3. ASSUME lost' = lost \cup NotShared(s)
          PROVE  Shared(c)'
      BY <1>2, <3>3, LostNow DEF NotShared
    <3>4. CASE SuperKilled(s)
      BY <3>3, <3>4 DEF SuperKilled
    <3>5. CASE ShareConnect(s)
      <4>1. CASE lost' = lost \cup NotShared(s)
        BY <3>3, <4>1
      <4>2. CASE Connect(s, [type |-> "FILE_INFO_SHARE", infos |-> sharePkt[s]])
        <5>1. m = [type |-> "FILE_INFO_SHARE", infos |-> sharePkt[s]]
          BY <1>2 DEF SharesOf
        <5>2. sent'[s] = Append(sent[s], m)
          BY <1>0, <4>2, <5>1, ConnectAt
        <5>3. Quiet(s)
          BY <1>0, <1>1, IdleIsQuiet DEF Dead, Waits
        <5>4. Append(<<>>, m) = <<m>> /\ Append(<<Leftover>>, m) = <<Leftover, m>>
          BY StreamEnds
        <5>5. Asked(s, m)'
          BY <5>2, <5>3, <5>4 DEF Quiet, Asked
        <5>6. Sharing(c)'
          BY <1>2, <5>5, AskedIsSharing
        <5>7. QED BY <5>6 DEF Shared
      <4>3. QED BY <3>5, <4>1, <4>2 DEF ShareConnect
    <3>6. QED BY <1>4, <2>2, <3>1, <3>2, <3>4, <3>5 DEF PktMoves
  <2>3. QED BY <2>1, <2>2
<1>5. QED BY <1>0, <1>1, <1>3, <1>4, PktSteps

(* What is shared is being read, stored, full, dead or lost after a step.  *)
LEMMA SharedStays ==
  ASSUME Types, Types', PktsOK, ExchangeOK, ExchangeOK', FiniteTables', Grows, [Next]_vars,
         NEW c \in Children, Shared(c)
  PROVE  Shared(c)'
<1> DEFINE s == Home[c]
           o == Other(s)
<1>0. /\ s \in Supers /\ o \in Supers /\ o # s /\ Server(s) = o
      /\ s \in Clients /\ o \in Clients /\ Exchange(s) /\ Exchange(s)' /\ DOMAIN sent = Clients
  BY Nodes DEF ExchangeOK, Types, StreamTypes
<1>1. CASE c \in lost
  BY <1>1 DEF Grows, Shared
<1>2. CASE KnowsOrCannot(o, c)
  <2>1. KnowsOrCannot(o, c)'
    BY <1>0, <1>2, KnowsStays DEF Types
  <2>2. QED BY <2>1 DEF KnowsOrCannot, Shared
<1>3. CASE ToShare(c)
  BY <1>3, ToShareMoves
<1>4. CASE OnItsWay(c)
  <2>1. PICK m \in SharesOf(c) : Asked(s, m)
    BY <1>0, <1>4, SharingIsAsked
  <2>2. m.type = "FILE_INFO_SHARE" /\ m \in Asks(s)
    BY <1>0, <2>1, SharesTrue, Nodes DEF Asks
  <2>3. ASSUME Asked(s, m)'
        PROVE  Shared(c)'
    <3>1. Sharing(c)'
      BY <2>1, <2>3, AskedIsSharing
    <3>2. QED BY <3>1 DEF Shared
  <2>4. CASE sent'[s] = sent[s]
    BY <2>1, <2>3, <2>4 DEF Asked
  <2>5. CASE Dead(o)'
    BY <2>5 DEF Shared
  <2>6. ~(~Dead(s) /\ ~Waits(s))
    <3>1. sent[s] # <<>> /\ ~Quiet(s)
      BY <1>0, <2>1, <2>2, AskedHead, QuietHead
    <3>2. QED BY <1>0, <3>1, IdleIsQuiet
  <2>7. ASSUME Head(sent[s]).type # "rest"
        PROVE  Head(sent[s]) = m
    BY <1>0, <2>1, <2>2, <2>7, AskedHead
  <2>8. ~HelloSuperToSuper(o, s)
    BY <2>2, <2>7 DEF HelloSuperToSuper, Handles
  <2>9. CASE FileInfoShare(o, s)
    <3>1. /\ Head(sent[s]) = m
          /\ \E t \in Inserted(table[o], m.infos) : table' = [table EXCEPT ![o] = t]
      BY <2>7, <2>9 DEF FileInfoShare, Handles
    <3>2. PICK a \in {c, Unwritten} : m.infos = InfosOf(c, FilesOf[c], a, c)
      BY <2>1, SharesTrue
    <3>3. Stores(o, c, a)
      BY <3>1, <3>2 DEF Stores
    <3>4. KnowsOrCannot(o, c)'
      BY <1>0, <3>3, StoresKnows
    <3>5. QED BY <3>4 DEF KnowsOrCannot, Shared
  <2>10. CASE FileInfoShareTooLong(o, s)
    <3>1. Head(sent[s]) = m /\ lost' = lost \cup {i.portNum : i \in m.infos}
      BY <2>7, <2>10 DEF FileInfoShareTooLong, Handles
    <3>2. QED BY <2>1, <3>1, LostNow
  <2>11. CASE Rest(o, s)
    <3>1. Head(sent[s]).type = "rest" /\ Read(s)
      BY <2>11 DEF Rest
    <3>2. sent'[s] = <<m>>
      BY <1>0, <2>1, <2>2, <3>1, AskedHead, ReadAt
    <3>3. QED BY <2>3, <3>2 DEF Asked
  <2>12. QED BY <1>0, <2>4, <2>5, <2>6, <2>8, <2>9, <2>10, <2>11, PeerSteps
<1>5. Sharing(c) => ToShare(c) \/ OnItsWay(c)
  BY DEF Sharing, ToShare, OnItsWay
<1>6. QED BY <1>1, <1>2, <1>4, <1>3, <1>5 DEF Shared, KnowsOrCannot

(* The acknowledgement is written when the infos are stored, and have      *)
(* still to be shared.                                                     *)
LEMMA AckedNow ==
  ASSUME Types, PktsOK, ExchangeOK, NEW c \in Children, StoresFor(c)
  PROVE  Stored(c)' /\ Shared(c)'
<1> DEFINE s == Home[c]
<1>0. /\ s \in Supers /\ c \in Clients /\ Exchange(c)
      /\ DOMAIN superPc = Supers /\ DOMAIN sharePkt = Supers
  BY Nodes DEF ExchangeOK, Types, SuperTypes, PktsOK
<1>1. /\ Handles(s, c, "FILE_INFO") /\ StoresOwn(s, c) /\ PutsOwn(s, c)
      /\ superPc' = [superPc EXCEPT ![s] = "connect"]
  BY <1>0, FileInfoStep DEF StoresFor
<1>2. /\ Head(sent[c]).files = FilesOf[c] /\ addr[c] \in {c, Unwritten}
      /\ [type |-> "FILE_INFO_SHARE",
          infos |-> InfosOf(c, Head(sent[c]).files, addr[c], c)] \in SharesOf(c)
  BY <1>0, <1>1, FileInfoAsked DEF Types, AddrTypes
<1>3. KnowsOrCannot(s, c)'
  <2>1. Stores(s, c, addr[c])
    BY <1>1, <1>2 DEF StoresOwn, Stores
  <2>2. QED BY <1>0, <2>1, StoresKnows
<1>4. Sharing(c)'
  <2>1. superPc'[s] = "connect"
        /\ sharePkt'[s] = InfosOf(c, Head(sent[c]).files, addr[c], c)
    BY <1>0, <1>1 DEF PutsOwn
  <2>2. \E m \in SharesOf(c) : m.infos = sharePkt'[s]
    BY <1>2, <2>1
  <2>3. QED BY <2>1, <2>2 DEF Sharing, SharesOf, InfosOf
<1>5. QED BY <1>3, <1>4 DEF Stored, Shared, KnowsOrCannot

(* Who is acknowledged stays so, or is acknowledged by this step.          *)
LEMMA AckedSteps ==
  ASSUME Types, ExchangeOK, [Next]_vars, NEW c \in Children, Acked(c)'
  PROVE  Acked(c) \/ StoresFor(c)
<1>0. c \in Clients /\ c \notin Supers /\ Exchange(c) /\ DOMAIN childPc = Children
  BY Nodes DEF ExchangeOK, Types, ChildTypes
<1>1. CASE Untouched(c)
  BY <1>1 DEF Untouched, Acked, Served
<1>2. CASE HomeServes(c)
  <2>1. CASE Dead(c)
    <3>1. UNCHANGED children
      BY <1>2, FileInfoStep, Nodes
      DEF HomeServes, HelloFromChild, FileInfoTooLong, FileInfoNoPort, SearchQuery,
          SearchForEver
    <3>2. QED BY <1>0, <2>1, <3>1 DEF Acked, Served, Dead, children
  <2>2. CASE ~Dead(c)
    <3>1. UNCHANGED children /\ (RegistersFor(c) \/ RefusesFor(c) \/ StoresFor(c) \/ SearchesFor(c))
      BY <1>0, <1>2, <2>2, HomeAnswers
    <3>2. CASE RegistersFor(c)
      BY <3>1, <3>2 DEF RegistersFor, Acked, Served, children
    <3>3. CASE RefusesFor(c)
      <4>1. Head(<<[type |-> "FILE_INFO_RECV_ERROR"]>>).type # "FILE_INFO_RECV_SUCCESS"
        OBVIOUS
      <4>2. QED BY <3>1, <3>3, <4>1 DEF RefusesFor, Acked, Served, children
    <3>4. CASE SearchesFor(c)
      BY <3>1, <3>4 DEF SearchesFor, Acked, Served, children
    <3>5. QED BY <3>1, <3>2, <3>3, <3>4
  <2>3. QED BY <2>1, <2>2
<1>3. CASE Moves(c)
  <2>1. CASE HelloFromSuper(c)
    <3>1. answers'[c] = <<>> /\ childPc'[c] = "info"
      BY <1>0, <2>1, AnsweredAt, ReturnIsLast DEF HelloFromSuper, ChildGoes
    <3>2. QED BY <3>1 DEF Acked, Served
  <2>2. CASE FileInfoReturned(c)
    BY <1>0, <2>2 DEF FileInfoReturned, ChildGoes, Answered, Acked, Served
  <2>3. CASE StartChild(c) \/ ChildKilled(c)
    BY <1>0, <2>3 DEF StartChild, ChildKilled, ChildGoes, Acked, Served
  <2>4. CASE SearchReturned(c) \/ ChildNoAnswer(c) \/ \E f \in Names : Search(c, f)
    BY <1>0, <2>4 DEF SearchReturned, ChildNoAnswer, Search, ChildGoes, Acked, Served
  <2>5. QED BY <1>3, <2>1, <2>2, <2>3, <2>4 DEF Moves
<1>4. QED BY <1>1, <1>2, <1>3, ChildSteps

(* What the super node knows of a search that it has been promised.        *)
Held(c) == childPc[c] = "search" /\ promised[c] => Named(table[Home[c]], wanted[c]) # {}

(* It holds what it promised: tables only grow.                            *)
LEMMA HeldKept ==
  ASSUME Types, Grows, ExchangeOK, [Next]_vars, NEW c \in Children, Held(c),
         \A d \in Children : Acked(d) => Stored(d)
  PROVE  Held(c)'
<1>0. /\ c \in Clients /\ c \notin Supers /\ Home[c] \in Supers /\ Exchange(c)
      /\ DOMAIN childPc = Children /\ DOMAIN wanted = Children /\ DOMAIN promised = Children
  BY Nodes DEF ExchangeOK, Types, ChildTypes
<1>1. table[Home[c]] \subseteq table'[Home[c]]
  BY <1>0 DEF Grows
<1>2. ASSUME childPc'[c] # "search" \/ UNCHANGED <<childPc[c], wanted[c], promised[c]>>
      PROVE  Held(c)'
  BY <1>1, <1>2 DEF Held, Named
<1>3. CASE Untouched(c)
  BY <1>2, <1>3 DEF Untouched
<1>4. CASE HomeServes(c)
  <2>1. UNCHANGED children
    BY <1>0, <1>4, FileInfoStep
    DEF HomeServes, HelloFromChild, FileInfoTooLong, FileInfoNoPort, SearchQuery,
        SearchForEver
  <2>2. QED BY <1>2, <2>1 DEF children
<1>5. ASSUME \/ StartChild(c) \/ HelloFromSuper(c) \/ FileInfoReturned(c) \/ SearchReturned(c)
             \/ ChildNoAnswer(c) \/ ChildKilled(c)
      PROVE  childPc'[c] # "search"
  BY <1>0, <1>5 DEF StartChild, HelloFromSuper, FileInfoReturned, SearchReturned, ChildNoAnswer,
                    ChildKilled, ChildGoes
<1>6. ASSUME NEW f \in Names, Search(c, f)
      PROVE  Held(c)'
  <2>1. /\ wanted'[c] = f /\ Listening(Home[c])
        /\ promised'[c] = (~Full(Home[c]) /\ \E d \in Children :
                             Home[d] = Home[c] /\ Served(d) /\ f \in FilesOf[d])
    BY <1>0, <1>6 DEF Search
  <2>2. SUFFICES ASSUME promised'[c]
                 PROVE  \E i \in table[Home[c]] : i.fileName = f
    BY <1>1, <2>1 DEF Held, Named
  <2>3. PICK d \in Children : Home[d] = Home[c] /\ Served(d) /\ f \in FilesOf[d]
    BY <2>1, <2>2
  <2>4. ~Full(Home[d]) /\ ~Dead(Home[d])
    BY <1>0, <2>1, <2>2, <2>3 DEF Listening, Dead
  <2>5. Knows(Home[d], d)
    BY <2>3, <2>4 DEF Acked, Stored
  <2>6. QED BY <2>3, <2>5 DEF Knows
<1>7. QED BY <1>2, <1>3, <1>4, <1>5, <1>6, ChildSteps DEF Moves

(* The promises are kept by every step.                                    *)
LEMMA PromisesKept ==
  ASSUME Types, Types', PktsOK, ExchangeOK, ExchangeOK', Grows, Promises, [Next]_vars
  PROVE  Promises'
<1>1. FiniteTables /\ FiniteTables'
  <2>1. FiniteTables
    BY DEF Promises, FiniteTables
  <2>2. QED BY <2>1, FiniteKept
<1>2. ASSUME NEW c \in Children, Acked(c)'
      PROVE  Stored(c)' /\ Shared(c)'
  <2>1. CASE Acked(c)
    <3>1. Home[c] \in Supers /\ KnowsOrCannot(Home[c], c) /\ Shared(c)
      BY <2>1, Nodes DEF Promises, Stored, KnowsOrCannot
    <3>2. KnowsOrCannot(Home[c], c)'
      BY <1>1, <3>1, KnowsStays DEF Types
    <3>3. Shared(c)'
      BY <1>1, <3>1, SharedStays
    <3>4. QED BY <3>2, <3>3 DEF Stored, KnowsOrCannot
  <2>2. CASE StoresFor(c)
    BY <2>2, AckedNow
  <2>3. QED BY <1>2, <2>1, <2>2, AckedSteps
<1>3. \A c \in Children : Held(c)'
  BY HeldKept DEF Promises, Held
<1>4. QED BY <1>1, <1>2, <1>3 DEF Promises, FiniteTables, Held

-----------------------------------------------------------------------------
(* Answers                                                                 *)

(* An answer to a search stays right until it is read.                     *)
LEMMA SearchRightKept ==
  ASSUME Types, ExchangeOK, InfosTrue, Promises, SearchRight, [Next]_vars
  PROVE  SearchRight'
<1> SUFFICES ASSUME NEW c \in Children, childPc'[c] = "search", answers'[c] # <<>>
             PROVE  LET m == Head(answers'[c])
                    IN  IF m.type = "SEARCH_ANS_SUCCESS"
                        THEN Matches(wanted'[c], m.info.fileName) /\ InfoTrue(m.info)
                        ELSE m.type = "SEARCH_ANS_FAIL" /\ ~promised'[c]
  BY DEF SearchRight, InfoTrue, Matches
<1>0. /\ c \in Clients /\ c \notin Supers /\ Home[c] \in Supers /\ Exchange(c)
      /\ DOMAIN childPc = Children
  BY Nodes DEF ExchangeOK, Types, ChildTypes
<1>1. CASE Untouched(c)
  BY <1>1 DEF Untouched, SearchRight, InfoTrue, Matches
<1>2. CASE HomeServes(c)
  <2>1. UNCHANGED children
    BY <1>0, <1>2, FileInfoStep
    DEF HomeServes, HelloFromChild, FileInfoTooLong, FileInfoNoPort, SearchQuery,
        SearchForEver
  <2>2. childPc[c] = "search" /\ ~Dead(c) /\ wanted'[c] = wanted[c] /\ promised'[c] = promised[c]
    BY <1>0, <2>1 DEF children, Dead
  <2>3. SearchesFor(c)
    BY <1>0, <1>2, <2>2, HomeAnswers DEF RegistersFor, RefusesFor, StoresFor
  <2>4. ASSUME NEW i \in Found(table[Home[c]], wanted[c]),
               answers'[c] = <<[type |-> "SEARCH_ANS_SUCCESS", info |-> i]>>
        PROVE  /\ Head(answers'[c]).type = "SEARCH_ANS_SUCCESS"
               /\ Matches(wanted'[c], Head(answers'[c]).info.fileName)
               /\ InfoTrue(Head(answers'[c]).info)
    <3>1. Head(answers'[c]) = [type |-> "SEARCH_ANS_SUCCESS", info |-> i]
      BY <2>4, StreamEnds
    <3>2. Head(answers'[c]).type = "SEARCH_ANS_SUCCESS" /\ Head(answers'[c]).info = i
      BY <3>1
    <3>3. Matches(wanted[c], i.fileName) /\ InfoTrue(i)
      BY <1>0 DEF Found, InfosTrue
    <3>4. QED BY <2>2, <3>2, <3>3
  <2>5. ASSUME Named(table[Home[c]], wanted[c]) = {},
               answers'[c] = <<[type |-> "SEARCH_ANS_FAIL"]>>
        PROVE  Head(answers'[c]).type = "SEARCH_ANS_FAIL" /\ ~promised'[c]
    <3>1. Head(answers'[c]) = [type |-> "SEARCH_ANS_FAIL"]
      BY <2>5, StreamEnds
    <3>2. ~promised[c]
      BY <2>2, <2>5 DEF Promises
    <3>3. QED BY <2>2, <3>1, <3>2
  <2>6. QED BY <2>3, <2>4, <2>5 DEF SearchesFor
<1>3. CASE Moves(c)
  <2>1. PICK f \in Names : Search(c, f)
    BY <1>0, <1>3
    DEF Moves, StartChild, HelloFromSuper, FileInfoReturned, SearchReturned, ChildNoAnswer,
        ChildKilled, ChildGoes
  <2>2. childPc[c] = "ready" /\ answers' = answers
    BY <2>1 DEF Search
  <2>3. answers[c] = <<>>
    BY <1>0, <2>2, IdleIsQuiet DEF Dead, Waits
  <2>4. QED BY <2>2, <2>3
<1>4. QED BY <1>1, <1>2, <1>3, ChildSteps

(* A stream holds one request, or none.                                    *)
LEMMA RequestsOf ==
  ASSUME NEW x \in Clients
  PROVE  /\ Quiet(x) => Requests(x) = {} /\ Cardinality(Requests(x)) = 0
         /\ \A m \in Asks(x) : Asked(x, m) => Cardinality(Requests(x)) = 1
<1>1. ASSUME Quiet(x)
      PROVE  Requests(x) = {}
  <2>1. CASE sent[x] = <<>>
    BY <2>1 DEF Requests
  <2>2. CASE sent[x] = <<Leftover>>
    <3>1. \A j \in DOMAIN sent[x] : sent[x][j].type = "rest"
      BY <2>2 DEF Leftover
    <3>2. QED BY <3>1 DEF Requests
  <2>3. QED BY <1>1, <2>1, <2>2 DEF Quiet
<1>2. ASSUME NEW m \in Asks(x), Asked(x, m)
      PROVE  \E j : Requests(x) = {j}
  <2>1. m.type # "rest"
    BY <1>2, AskedHead
  <2>2. CASE sent[x] = <<m>>
    <3>1. DOMAIN sent[x] = {1} /\ sent[x][1] = m
      BY <2>2
    <3>2. Requests(x) = {1}
      BY <2>1, <3>1 DEF Requests
    <3>3. QED BY <3>2
  <2>3. CASE sent[x] = <<Leftover, m>>
    <3>1. DOMAIN sent[x] = {1, 2} /\ sent[x][1].type = "rest" /\ sent[x][2] = m
      BY <2>3 DEF Leftover
    <3>2. Requests(x) = {2}
      BY <2>1, <3>1 DEF Requests
    <3>3. QED BY <3>2
  <2>4. QED BY <1>2, <2>2, <2>3 DEF Asked
<1>3. QED BY <1>1, <1>2, FS_EmptySet, FS_Singleton

(* One exchange at a time is one answer due, to whoever waits for it.      *)
LEMMA ExchangeIsDue ==
  ASSUME Types, ExchangeOK
  PROVE  OneAnswerDue
<1> SUFFICES ASSUME NEW x \in Clients
             PROVE  LET due == Cardinality(Requests(x)) + Len(answers[x])
                    IN  \/ due = 1 /\ (Waits(x) \/ Dead(x))
                        \/ due = 0 /\ (Waits(x) => Forgotten(x) \/ Dead(Server(x)))
  BY DEF OneAnswerDue
<1>0. Exchange(x) /\ Len(<<>>) = 0
  BY EmptySeq DEF ExchangeOK
<1>1. ASSUME NEW m \in Asks(x), Asked(x, m), answers[x] = <<>>, Dead(x) \/ WaitsFor(x, m)
      PROVE  Cardinality(Requests(x)) + Len(answers[x]) = 1 /\ (Waits(x) \/ Dead(x))
  BY <1>0, <1>1, RequestsOf DEF WaitsFor
<1>2. ASSUME Quiet(x), Len(answers[x]) = 1, Dead(x) \/ Waits(x)
      PROVE  Cardinality(Requests(x)) + Len(answers[x]) = 1 /\ (Waits(x) \/ Dead(x))
  BY <1>2, RequestsOf
<1>3. ASSUME Quiet(x), answers[x] = <<>>
      PROVE  Cardinality(Requests(x)) + Len(answers[x]) = 0
  BY <1>0, <1>3, RequestsOf
<1>4. QED BY <1>0, <1>1, <1>2, <1>3 DEF Exchange

-----------------------------------------------------------------------------
(* The inductive invariant                                                 *)

Inductive ==
  /\ Types /\ PktsOK /\ ExchangeOK /\ Deaf /\ ResetQuiet /\ HomeOK /\ SlotOK
  /\ InfosTrue /\ Promises /\ SearchRight

(* It says all that is checked of the overlay.                             *)
LEMMA InductiveIsAll ==
  Inductive => Inv /\ InfosTrue /\ AckedStored /\ SharedOrLost /\ SearchRight
<1> SUFFICES ASSUME Inductive
             PROVE  Inv /\ AckedStored /\ SharedOrLost
  BY DEF Inductive
<1>1. TypeOK /\ AddrOK
  BY TypesAreTypeOK DEF Inductive
<1>2. OneAnswerDue
  BY ExchangeIsDue DEF Inductive
<1>3. NoWriteToReset
  <2>1. reset \subseteq Clients
    BY DEF Inductive, Types, StreamTypes
  <2>2. QED BY <2>1, RequestsOf DEF Inductive, ResetQuiet, NoWriteToReset
<1>4. Connections
  BY <1>1 DEF Inductive, AddrOK, PktsOK, ExchangeOK, Deaf, ResetQuiet, HomeOK, SlotOK, Registers,
              Connections
<1>5. AckedStored /\ SharedOrLost
  BY DEF Inductive, Promises, Acked, AckedStored, SharedOrLost
<1>6. QED BY <1>1, <1>2, <1>3, <1>4, <1>5 DEF Inductive, Inv

(* It holds when the nodes start.                                          *)
LEMMA InductiveInit ==
  Init => Inductive
<1> SUFFICES ASSUME Init
             PROVE  Inductive
  OBVIOUS
<1> USE DEF Init
<1>0. IsFiniteSet({}) /\ Cardinality({}) = 0 /\ <<>> \in Seq(Children) /\ <<>> \in Seq(Clients)
      /\ <<>> \in Seq(Msg) /\ Len(<<>>) = 0
  BY FS_EmptySet, EmptySeq
<1>1. Types
  <2>1. SuperTypes
    BY <1>0, OverlayAssumption DEF SuperTypes, Supers
  <2>2. TableTypes
    BY <1>0, OverlayAssumption DEF TableTypes
  <2>3. StreamTypes
    BY <1>0 DEF StreamTypes
  <2>4. AddrTypes
    BY <1>0 DEF AddrTypes, AddrOK
  <2>5. ChildTypes
    BY OverlayAssumption DEF ChildTypes
  <2>6. QED BY <2>1, <2>2, <2>3, <2>4, <2>5 DEF Types
<1>2. ExchangeOK
  <2> SUFFICES ASSUME NEW x \in Clients
               PROVE  Exchange(x)
    BY DEF ExchangeOK
  <2>1. sent[x] = <<>> /\ answers[x] = <<>>
    OBVIOUS
  <2>2. ~Waits(x)
    BY Nodes DEF Waits
  <2>3. QED BY <2>1, <2>2 DEF Exchange, Quiet
<1>3. PktsOK /\ Deaf /\ ResetQuiet /\ HomeOK /\ InfosTrue
  BY DEF PktsOK, Deaf, ResetQuiet, HomeOK, InfosTrue
<1>4. SlotOK /\ SearchRight
  BY DEF SlotOK, Registers, SearchRight
<1>5. Promises
  BY <1>0 DEF Promises, Acked, Served
<1>6. QED BY <1>1, <1>2, <1>3, <1>4, <1>5 DEF Inductive

(* Every step keeps it.                                                    *)
LEMMA InductiveKept ==
  Inductive /\ [Next]_vars => Inductive'
<1> SUFFICES ASSUME Inductive, [Next]_vars
             PROVE  Inductive'
  OBVIOUS
<1>1. Types /\ PktsOK /\ ExchangeOK /\ Types' /\ PktsOK' /\ Grows /\ Streams
  BY TypesKept, PktsKept, StepGrows, StreamsMove DEF Inductive
<1>2. ExchangeOK'
  BY <1>1, ExchangeKept DEF Inductive, SlotOK, Registers
<1>3. Deaf' /\ ResetQuiet' /\ HomeOK' /\ SlotOK'
  <2>1. StreamTypes'
    BY <1>1 DEF Types
  <2>2. QED BY <1>1, <2>1, DeafKept, ResetKept, HomeKept, SlotKept DEF Inductive
<1>4. InfosTrue' /\ Promises' /\ SearchRight'
  BY <1>1, <1>2, InfosTrueKept, PromisesKept, SearchRightKept DEF Inductive
<1>5. QED BY <1>1, <1>2, <1>3, <1>4 DEF Inductive

(* It holds for ever.                                                      *)
LEMMA AlwaysInductive == Spec => []Inductive
<1>1. QED BY InductiveInit, InductiveKept, PTL DEF Spec

-----------------------------------------------------------------------------
(* The results                                                             *)

(* However many children register and search, and whoever is killed: the   *)
(* variables have their types, whoever blocks in read() is owed exactly    *)
(* one answer unless it is forgotten, no super node writes to a connection *)
(* that a dead client has reset, and promises are kept.                    *)
THEOREM OverlayInvariant == Spec => []Inv
<1>1. Inductive => Inv
  BY InductiveIsAll
<1>2. QED BY <1>1, AlwaysInductive, PTL

(* Both tables hold only what is true of the child that sent it.           *)
THEOREM OverlayInfosTrue == Spec => []InfosTrue
<1>1. Inductive => InfosTrue
  BY InductiveIsAll
<1>2. QED BY <1>1, AlwaysInductive, PTL

(* What is acknowledged is stored by the super node of the child, as long  *)
(* as it lives and its table is not full.                                  *)
THEOREM OverlayAckedStored == Spec => []AckedStored
<1>1. Inductive => AckedStored
  BY InductiveIsAll
<1>2. QED BY <1>1, AlwaysInductive, PTL

(* And it is stored by the other super node, on its way to it, or known to *)
(* be lost.                                                                *)
THEOREM OverlaySharedOrLost == Spec => []SharedOrLost
<1>1. Inductive => SharedOrLost
  BY InductiveIsAll
<1>2. QED BY <1>1, AlwaysInductive, PTL

(* A search is answered by a true info, of the file that was asked for or  *)
(* of one whose name begins with its name, and is not refused for a file   *)
(* acknowledged before.                                                    *)
THEOREM OverlaySearchRight == Spec => []SearchRight
<1>1. Inductive => SearchRight
  BY InductiveIsAll
<1>2. QED BY <1>1, AlwaysInductive, PTL
=============================================================================
