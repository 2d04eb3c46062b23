------------------------- MODULE FileTransferProofs -------------------------
(***************************************************************************)
(* Proofs about FileTransfer and MultiServer, for any number of clients,   *)
(* any files and any cuts and failures.  The agreement of the two ends of  *)
(* a connection is kept by every step of a client and the server of its    *)
(* connection, which is also how the children of MultiServer run; then     *)
(* come the steps that only the server of p1 takes, and last the parent of *)
(* MultiServer, which starts the children and shares their descriptors,    *)
(* and SIGCHLD.                                                            *)
(***************************************************************************)
EXTENDS MultiServer, TransferProofs

-----------------------------------------------------------------------------
(* Types                                                                   *)

(* The fields of what a read returns.                                      *)
LEMMA ReadFields ==
  ASSUME NEW p, NEW q, NEW r, r = [packet |-> p, left |-> q]
  PROVE  r.packet = p /\ r.left = q
OBVIOUS

(* A stream of more than one packet has a second one.                      *)
LEMMA SecondPacket ==
  ASSUME NEW S, NEW s \in Seq(S), s # <<>>, Len(s) # 1
  PROVE  s[2] \in S /\ Tail(Tail(s)) \in Seq(S)
<1>1. Len(s) \in Nat \ {0, 1}
  BY EmptySeq
<1>2. 2 \in 1 .. Len(s) /\ Tail(s) \in Seq(S) /\ Len(Tail(s)) # 0
  <2>1. Tail(s) \in Seq(S) /\ Len(Tail(s)) = Len(s) - 1
    BY HeadTailProperties
  <2>2. QED BY <1>1, <2>1
<1>3. Tail(s) # <<>>
  BY <1>2, EmptySeq
<1>4. QED BY <1>2, <1>3, ElementOfSeq, HeadTailProperties

(* A packet that was cut.                                                  *)
Beginning(p) == [p EXCEPT !.data = <<Garbled>>]

(* What a read returns: the rest of a packet, and what it leaves of the    *)
(* next one; or a whole packet, or the beginning of one.                   *)
LEMMA ReadsRest ==
  ASSUME NEW c, NEW r \in Reads(c), Head(toServer[c]) = Rest
  PROVE  /\ r.packet = Rest
         /\ r.left = IF Len(toServer[c]) = 1 THEN <<>>
                     ELSE LeftOf(toServer[c][2]) \o Tail(Tail(toServer[c]))
<1>1. r = [packet |-> Rest,
           left   |-> IF Len(toServer[c]) = 1 THEN <<>>
                      ELSE LeftOf(toServer[c][2]) \o Tail(Tail(toServer[c]))]
  BY DEF Reads
<1>2. QED BY <1>1, ReadFields

(* The other case.                                                         *)
LEMMA ReadsPacket ==
  ASSUME NEW c, NEW r \in Reads(c), Head(toServer[c]) # Rest
  PROVE  \/ r.packet = Head(toServer[c]) /\ r.left = Tail(toServer[c])
         \/ /\ c \in Cut /\ Cuttable(Head(toServer[c]))
            /\ r.packet = Beginning(Head(toServer[c])) /\ r.left = <<Rest>> \o Tail(toServer[c])
<1>1. \/ r = [packet |-> Head(toServer[c]), left |-> Tail(toServer[c])]
      \/ /\ c \in Cut /\ Cuttable(Head(toServer[c]))
         /\ r = [packet |-> Beginning(Head(toServer[c])), left |-> <<Rest>> \o Tail(toServer[c])]
  BY DEF Reads, Beginning
<1>2. CASE r = [packet |-> Head(toServer[c]), left |-> Tail(toServer[c])]
  BY <1>2, ReadFields
<1>3. CASE /\ c \in Cut /\ Cuttable(Head(toServer[c]))
           /\ r = [packet |-> Beginning(Head(toServer[c])), left |-> <<Rest>> \o Tail(toServer[c])]
  BY <1>3, ReadFields
<1>4. QED BY <1>1, <1>2, <1>3

(* A read of the server returns a packet and leaves packets.               *)
LEMMA ReadsType ==
  ASSUME TypeOK, NEW c \in Clients, toServer[c] # <<>>, NEW r \in Reads(c)
  PROVE  r.packet \in PacketType /\ r.left \in Seq(PacketType)
<1>1. PICK s \in Seq(PacketType) : s = toServer[c]
  BY DEF TypeOK, ClientTypeOK, PacketType
<1>2. s # <<>> /\ Head(s) \in PacketType /\ Tail(s) \in Seq(PacketType)
  BY <1>1
<1>3. <<>> \in Seq(PacketType) /\ <<Rest>> \in Seq(PacketType)
  BY PacketTypes
<1>4. CASE /\ r.packet = Rest
           /\ r.left = IF Len(s) = 1 THEN <<>> ELSE LeftOf(s[2]) \o Tail(Tail(s))
  <2>1. CASE Len(s) = 1
    BY <1>4, <2>1, <1>3, PacketTypes
  <2>2. CASE Len(s) # 1
    <3>1. s[2] \in PacketType /\ Tail(Tail(s)) \in Seq(PacketType)
      BY <1>2, <2>2, SecondPacket
    <3>2. LeftOf(s[2]) \in Seq(PacketType)
      BY <1>3, <3>1, PacketTypes
    <3>3. LeftOf(s[2]) \o Tail(Tail(s)) \in Seq(PacketType)
      BY <3>1, <3>2
    <3>4. QED BY <1>4, <2>2, <3>3, PacketTypes
  <2>3. QED BY <2>1, <2>2
<1>5. CASE r.packet = Head(s) /\ r.left = Tail(s)
  BY <1>2, <1>5
<1>6. CASE r.packet = Beginning(Head(s)) /\ r.left = <<Rest>> \o Tail(s)
  <2>1. <<Rest>> \o Tail(s) \in Seq(PacketType)
    BY <1>2, <1>3
  <2>2. QED BY <1>2, <1>6, <2>1, PacketTypes DEF Beginning
<1>7. \/ /\ r.packet = Rest
         /\ r.left = IF Len(s) = 1 THEN <<>> ELSE LeftOf(s[2]) \o Tail(Tail(s))
      \/ r.packet = Head(s) /\ r.left = Tail(s)
      \/ r.packet = Beginning(Head(s)) /\ r.left = <<Rest>> \o Tail(s)
  <2>1. CASE Head(s) = Rest
    BY <1>1, <2>1, ReadsRest
  <2>2. CASE Head(s) # Rest
    BY <1>1, <2>2, ReadsPacket
  <2>3. QED BY <2>1, <2>2
<1>8. QED BY <1>4, <1>5, <1>6, <1>7

(* The read of the server keeps the types.                                 *)
LEMMA ReceiveTypes ==
  ASSUME TypeOK, NEW c \in Clients, NEW cmd, Receive(c, cmd)
  PROVE  /\ recv' \in [Clients -> [cmd : Commands \cup {"rest", "none"}, data : Seq(Block)]]
         /\ toServer' \in [Clients -> Seq(PacketType)]
<1>1. toServer \in [Clients -> Seq(PacketType)]
  BY DEF TypeOK, ClientTypeOK, PacketType
<1>2. recv \in [Clients -> [cmd : Commands \cup {"rest", "none"}, data : Seq(Block)]]
  BY DEF TypeOK
<1>3. CASE toServer[c] # <<>>
  <2>1. PICK r \in Reads(c) : /\ recv' = [recv EXCEPT ![c] = r.packet]
                              /\ toServer' = [toServer EXCEPT ![c] = r.left]
    BY <1>3 DEF Receive
  <2>2. r.packet \in PacketType /\ r.left \in Seq(PacketType)
    BY <1>3, ReadsType
  <2>3. r.packet \in [cmd : Commands \cup {"rest", "none"}, data : Seq(Block)]
    BY <2>2 DEF PacketType
  <2>4. QED BY <1>1, <1>2, <2>1, <2>2, <2>3
<1>4. CASE toServer[c] = <<>>
  BY <1>1, <1>2, <1>4 DEF Receive
<1>5. QED BY <1>3, <1>4

(* So does an answer.                                                      *)
LEMMA AnswerTypes ==
  ASSUME TypeOK, NEW c \in Clients, NEW cmd \in Answers, NEW s \in 0 .. SEQ_SIZE - 1,
         NEW next \in {"serve", "leaving"}, Answer(c, cmd, s, next)
  PROVE  /\ seq' \in [Clients -> 0 .. SEQ_SIZE - 1]
         /\ toClient' \in [Clients -> Seq(AnswerType)]
         /\ spc' \in [Clients -> {"none", "serve", "leaving", "exited"}]
         /\ reset' \subseteq Clients
<1>1. toClient \in [Clients -> Seq(AnswerType)]
  BY DEF TypeOK, ClientTypeOK, AnswerType
<1>2. Append(toClient[c], [cmd |-> cmd, seq |-> s]) \in Seq(AnswerType)
  <2>1. [cmd |-> cmd, seq |-> s] \in AnswerType
    BY DEF AnswerType
  <2>2. QED BY <1>1, <2>1
<1>3. /\ seq \in [Clients -> 0 .. SEQ_SIZE - 1] /\ reset \subseteq Clients
      /\ spc \in [Clients -> {"none", "serve", "leaving", "exited"}]
  BY DEF TypeOK, ClientTypeOK
<1>4. QED BY <1>1, <1>2, <1>3 DEF Answer

(* The numbers of the answers.                                             *)
LEMMA SeqTypes ==
  ASSUME TypeOK, NEW c \in Clients
  PROVE  NextSeq(c) \in 0 .. SEQ_SIZE - 1 /\ FirstSeqs \subseteq 0 .. SEQ_SIZE - 1
<1>1. SEQ_SIZE \in Nat \ {0} /\ FirstSeqs \subseteq 0 .. SEQ_SIZE - 2
  BY ClientAssumption
<1>2. seq[c] + 1 \in Nat
  BY <1>1 DEF TypeOK
<1>3. (seq[c] + 1) % SEQ_SIZE \in 0 .. SEQ_SIZE - 1
  BY <1>1, <1>2
<1>4. FirstSeqs \subseteq 0 .. SEQ_SIZE - 1
  BY <1>1
<1>5. QED BY <1>3, <1>4 DEF NextSeq

-----------------------------------------------------------------------------
(* Every step of the two programs on a connection.                         *)

ClientPart(c) == (Connect(c) \/ ClientLoop(c)) /\ UNCHANGED serverVars
ServerPart(c) == ServerStep(c) \/ ServerKilled(c) \/ KilledInStore(c)
Steps(c)      == ClientPart(c) \/ ServerPart(c) \/ ClientKilled(c)

(* The types of what the steps of the server change.                       *)
ServerSide ==
  /\ NetTypes
  /\ disk \in [Names -> Seq(Block)]
  /\ torn \subseteq Clients
  /\ spc \in [Clients -> {"none", "serve", "leaving", "exited"}]
  /\ recv \in [Clients -> [cmd : Commands \cup {"rest", "none"}, data : Seq(Block)]]
  /\ buffer \in [Clients -> Seq(Block)]
  /\ seq \in [Clients -> 0 .. SEQ_SIZE - 1]

(* These are the types of the module.                                      *)
LEMMA TypesBySide ==
  TypeOK <=> /\ ClientSide /\ ServerSide
             /\ name \in [Clients -> Names \cup {NoName}] /\ closed \subseteq Clients
BY DEF TypeOK, ClientTypeOK, ClientSide, ServerSide, NetTypes, PacketType, AnswerType

(* The steps of the client keep the types.                                 *)
LEMMA ClientTypes ==
  ASSUME TypeOK, NEW c \in Clients, name[c] \in Names, ClientPart(c)
  PROVE  TypeOK'
<1>1. ClientTypeOK /\ told \in [Clients -> {"nothing", "stored", "failed"}]
  BY DEF TypeOK
<1>2. ClientTypeOK' /\ told' \in [Clients -> {"nothing", "stored", "failed"}] /\ UNCHANGED <<name, disk, torn>>
  BY <1>1, ClientStepTypes DEF ClientPart
<1>3. UNCHANGED <<spc, recv, buffer, seq>>
  BY DEF ClientPart, serverVars
<1>4. QED BY <1>2, <1>3 DEF TypeOK

(* The server stores a file, or is killed there.                           *)
Stores(c) == DataStore(c) \/ KilledInStore(c)

(* Whatever it stores are blocks.                                          *)
LEMMA StoreTypes ==
  ASSUME TypeOK, NEW c \in Clients, Stores(c), NameIn(c) \in Names
  PROVE  disk' \in [Names -> Seq(Block)] /\ torn' \subseteq Clients
<1>1. PICK n \in Names : n = NameIn(c)
  OBVIOUS
<1>2. disk \in [Names -> Seq(Block)] /\ buffer[c] \in Seq(Block) /\ torn \subseteq Clients
  BY DEF TypeOK
<1>3. ASSUME NEW k \in 0 .. Len(buffer[c])
      PROVE  SubSeq(buffer[c], 1, k) \in Seq(Block)
  <2>1. \A i \in 1 .. k : buffer[c][i] \in Block
    BY <1>2
  <2>2. k \in Int
    OBVIOUS
  <2>3. QED BY <2>1, <2>2, SubSeqProperties
<1>4. \A b \in Seq(Block) : Overwritten(disk[n], b) \in Seq(Block)
  BY <1>2, OverwrittenBlocks
<1>5. Created(disk[n]) \in Seq(Block)
  BY <1>2, CreatedType
<1>6. ASSUME NEW k \in 0 .. Len(buffer[c]), WriteUpTo(c, NameIn(c), buffer[c], k)
      PROVE  disk' \in [Names -> Seq(Block)] /\ torn' \subseteq Clients
  BY <1>1, <1>2, <1>3, <1>4, <1>6 DEF WriteUpTo
<1>7. \A k \in 0 .. Len(buffer[c]) - 1 : k \in 0 .. Len(buffer[c])
  BY <1>2
<1>8. CASE DataStore(c)
  <2>1. \/ disk' = [disk EXCEPT ![n] = Overwritten(@, buffer[c])] /\ torn' = torn
        \/ \E k \in 0 .. Len(buffer[c]) - 1 : WriteUpTo(c, NameIn(c), buffer[c], k)
        \/ disk' = [disk EXCEPT ![n] = Created(@)] /\ torn' = torn
        \/ disk' = disk /\ torn' = torn
    BY <1>1, <1>8 DEF DataStore
  <2>2. QED BY <1>2, <1>4, <1>5, <1>6, <1>7, <2>1
<1>9. CASE KilledInStore(c)
  BY <1>2, <1>6, <1>9 DEF KilledInStore
<1>10. QED BY <1>8, <1>9 DEF Stores

(* The steps of the server keep the types.                                 *)
LEMMA ServerTypes ==
  ASSUME TypeOK, NEW c \in Clients, ServerPart(c),
         Stores(c) => NameIn(c) \in Names
  PROVE  TypeOK'
<1>1. UNCHANGED <<name, told, cpc, got, pos, backlog, closed>>
  BY DEF ServerPart, ServerStep, ServerKilled, KilledInStore, ClientHello, DataDelivery, DataStore, ErrorReceived,
         Unrecognized, ReadFails, clientVars, transferVars
<1>2. SUFFICES ServerSide'
  BY <1>1 DEF TypeOK, ClientTypeOK, ClientSide, ServerSide, NetTypes, PacketType, AnswerType
<1>3. ServerSide
  BY TypesBySide
<1> USE DEF ServerSide, NetTypes
<1>4. ASSUME NEW read, Receive(c, read), NEW cmd \in Answers, NEW s \in 0 .. SEQ_SIZE - 1,
             NEW next \in {"serve", "leaving"}, Answer(c, cmd, s, next),
             disk' \in [Names -> Seq(Block)], torn' \subseteq Clients, buffer' \in [Clients -> Seq(Block)]
      PROVE  ServerSide'
  <2>1. /\ recv' \in [Clients -> [cmd : Commands \cup {"rest", "none"}, data : Seq(Block)]]
        /\ toServer' \in [Clients -> Seq(PacketType)]
    BY <1>4, ReceiveTypes
  <2>2. /\ seq' \in [Clients -> 0 .. SEQ_SIZE - 1]
        /\ toClient' \in [Clients -> Seq(AnswerType)]
        /\ spc' \in [Clients -> {"none", "serve", "leaving", "exited"}]
        /\ reset' \subseteq Clients
    BY <1>4, AnswerTypes
  <2>3. QED BY <1>4, <2>1, <2>2
<1>5. NextSeq(c) \in 0 .. SEQ_SIZE - 1 /\ FirstSeqs \subseteq 0 .. SEQ_SIZE - 1
  BY SeqTypes
<1>6. CASE ClientHello(c)
  <2>1. PICK s \in FirstSeqs : Answer(c, "SERVER_HELLO", s, "serve")
    BY <1>6 DEF ClientHello
  <2>2. Receive(c, "CLIENT_HELLO") /\ UNCHANGED <<buffer, disk, torn>>
    BY <1>6 DEF ClientHello, transferVars
  <2>3. "SERVER_HELLO" \in Answers
    BY DEF Answers
  <2>4. QED BY <1>3, <1>4, <1>5, <2>1, <2>2, <2>3
<1>7. CASE DataDelivery(c)
  <2>1. Receive(c, "DATA_DELIVERY") /\ UNCHANGED <<disk, torn>>
    BY <1>7 DEF DataDelivery, transferVars
  <2>2. recv'[c].data \in Seq(Block)
    BY <2>1, ReceiveTypes
  <2>3. buffer' \in [Clients -> Seq(Block)]
    <3>1. buffer[c] \o recv'[c].data \in Seq(Block) /\ <<>> \in Seq(Block)
      BY <1>3, <2>2
    <3>2. QED BY <1>3, <1>7, <3>1 DEF DataDelivery
  <2>4. {"PKT_RECEIVED", "ERROR"} \subseteq Answers
    BY DEF Answers
  <2>5. \/ Answer(c, "PKT_RECEIVED", NextSeq(c), "serve")
        \/ Answer(c, "ERROR", NextSeq(c), "leaving")
    BY <1>7 DEF DataDelivery
  <2>6. QED BY <1>3, <1>4, <1>5, <2>1, <2>3, <2>4, <2>5
<1>8. CASE DataStore(c)
  <2>1. Receive(c, "DATA_STORE") /\ buffer' = buffer /\ NameIn(c) \in Names
    BY <1>8 DEF DataStore, Stores
  <2>2. disk' \in [Names -> Seq(Block)] /\ torn' \subseteq Clients
    BY <1>8, <2>1, StoreTypes DEF Stores
  <2>3. {"FILE_STORED", "STORED_ERROR"} \subseteq Answers
    BY DEF Answers
  <2>4. \/ Answer(c, "FILE_STORED", NextSeq(c), "leaving")
        \/ Answer(c, "STORED_ERROR", NextSeq(c), "leaving")
    BY <1>8 DEF DataStore
  <2>5. QED BY <1>3, <1>4, <1>5, <2>1, <2>2, <2>3, <2>4
<1>9. ASSUME NEW read, Receive(c, read), disk' \in [Names -> Seq(Block)], torn' \subseteq Clients,
             UNCHANGED <<toClient, reset, buffer, seq>>,
             spc' = spc \/ spc' = [spc EXCEPT ![c] = "leaving"]
      PROVE  ServerSide'
  BY <1>3, <1>9, ReceiveTypes
<1>10. CASE ErrorReceived(c)
  BY <1>3, <1>9, <1>10 DEF ErrorReceived, transferVars
<1>11. CASE Unrecognized(c)
  BY <1>3, <1>9, <1>11 DEF Unrecognized, transferVars
<1>12. CASE ReadFails(c) \/ ServerKilled(c)
  BY <1>3, <1>12 DEF ReadFails, ServerKilled, netVars, transferVars
<1>13. CASE KilledInStore(c)
  <2>1. disk' \in [Names -> Seq(Block)] /\ torn' \subseteq Clients
    BY <1>13, StoreTypes DEF Stores
  <2>2. QED BY <1>9, <1>13, <2>1 DEF KilledInStore
<1>14. QED BY <1>6, <1>7, <1>8, <1>10, <1>11, <1>12, <1>13 DEF ServerPart, ServerStep

(* A client that is killed keeps the types.                                *)
LEMMA KilledTypes ==
  ASSUME TypeOK, NEW c \in Clients, ClientKilled(c)
  PROVE  TypeOK'
<1>1. UNCHANGED <<name, disk, told, torn, got, pos, backlog, toServer, toClient, closed, spc, recv, buffer, seq>>
  BY DEF ClientKilled, Kill, transferVars, serverVars
<1>2. cpc' \in [Clients -> {"start", "read", "exited", "killed"}] /\ reset' \subseteq Clients
  BY DEF ClientKilled, Kill, TypeOK, ClientTypeOK
<1>3. QED BY <1>1, <1>2 DEF TypeOK, ClientTypeOK

-----------------------------------------------------------------------------
(* A connection that a step leaves alone                                   *)

Same(d) ==
  /\ cpc'[d] = cpc[d] /\ got'[d] = got[d] /\ pos'[d] = pos[d]
  /\ toServer'[d] = toServer[d] /\ toClient'[d] = toClient[d]
  /\ d \in closed' <=> d \in closed
  /\ spc'[d] = spc[d] /\ recv'[d] = recv[d] /\ buffer'[d] = buffer[d]
  /\ name'[d] = name[d] /\ told'[d] = told[d]

(* It stays as it was.                                                     *)
LEMMA SameKept ==
  ASSUME NEW d \in Clients, Same(d)
  PROVE  /\ Exchange(d) => Exchange(d)'
         /\ Connection(d) => Connection(d)'
<1> USE DEF Same
<1>1. Exchange(d) => Exchange(d)'
  BY DEF Exchange, Asking, IsRequest, Asked, Idle
<1>2. NoMore(d)' = NoMore(d) /\ InFlight(d)' = InFlight(d) /\ Together(d)' = Together(d)
  BY DEF NoMore, InFlight, Together
<1>3. Connection(d) => Connection(d)'
  BY <1>2 DEF Connection
<1>4. QED BY <1>1, <1>3

(* The variables are functions of the connection.                          *)
Domains ==
  /\ DOMAIN cpc = Clients /\ DOMAIN got = Clients /\ DOMAIN pos = Clients
  /\ DOMAIN toServer = Clients /\ DOMAIN toClient = Clients
  /\ DOMAIN spc = Clients /\ DOMAIN recv = Clients /\ DOMAIN buffer = Clients
  /\ DOMAIN told = Clients

(* By their types.                                                         *)
LEMMA TypesDomains == TypeOK => Domains
BY DEF TypeOK, ClientTypeOK, Domains

(* A read of the server takes from its connection only.                    *)
LEMMA ReceiveOthers ==
  ASSUME Domains, NEW c \in Clients, NEW cmd, Receive(c, cmd), NEW d \in Clients, d # c
  PROVE  toServer'[d] = toServer[d] /\ recv'[d] = recv[d]
BY DEF Receive, Domains

(* And its answer goes there.                                              *)
LEMMA AnswerOthers ==
  ASSUME Domains, NEW c \in Clients, NEW cmd, NEW s, NEW next, Answer(c, cmd, s, next),
         NEW d \in Clients, d # c
  PROVE  toClient'[d] = toClient[d] /\ spc'[d] = spc[d]
BY DEF Answer, Domains

(* No step of a client or its server touches the connections of others.    *)
LEMMA StepsOthers ==
  ASSUME Domains, NEW c \in Clients, Steps(c), NEW d \in Clients, d # c
  PROVE  Same(d)
<1> USE DEF Domains
<1>1. CASE ClientPart(c)
  <2>1. UNCHANGED <<spc, recv, buffer>>
    BY <1>1 DEF ClientPart, serverVars
  <2>2. CASE Connect(c)
    BY <2>1, <2>2 DEF Connect, Same, transferVars
  <2>3. CASE ServerHello(c)
    <3>1. UNCHANGED <<closed, name, told>> /\ got'[d] = got[d] /\ toClient'[d] = toClient[d]
      BY <2>3 DEF ServerHello, Reply, transferVars
    <3>2. cpc'[d] = cpc[d] /\ toServer'[d] = toServer[d] /\ pos'[d] = pos[d]
      BY <2>3 DEF ServerHello, SendBlock, FileError, Send
    <3>3. QED BY <2>1, <3>1, <3>2 DEF Same
  <2>4. CASE PktReceived(c)
    <3>1. UNCHANGED <<closed, name, told>> /\ got'[d] = got[d] /\ toClient'[d] = toClient[d]
      BY <2>4 DEF PktReceived, Reply, transferVars
    <3>2. cpc'[d] = cpc[d] /\ toServer'[d] = toServer[d] /\ pos'[d] = pos[d]
      BY <2>4 DEF PktReceived, SendBlock, FileError, Send
    <3>3. QED BY <2>1, <3>1, <3>2 DEF Same
  <2>5. CASE ReplyFails(c)
    BY <2>1, <2>5 DEF ReplyFails, Same, netVars, transferVars
  <2>6. ASSUME NEW cmd, NEW what, Told(c, cmd, what)
        PROVE  Same(d)
    BY <2>1, <2>6 DEF Told, Reply, Same
  <2>7. QED BY <1>1, <2>2, <2>3, <2>4, <2>5, <2>6 DEF ClientPart, ClientLoop
<1>2. CASE ServerPart(c)
  <2>1. UNCHANGED <<cpc, got, pos, closed, name, told>>
    BY <1>2 DEF ServerPart, ServerStep, ServerKilled, KilledInStore, ClientHello, DataDelivery, DataStore,
                ErrorReceived, Unrecognized, ReadFails, clientVars, transferVars
  <2>2. ASSUME NEW read, Receive(c, read),
               toClient'[d] = toClient[d], spc'[d] = spc[d], buffer'[d] = buffer[d]
        PROVE  Same(d)
    BY <2>1, <2>2, ReceiveOthers DEF Same
  <2>3. CASE ClientHello(c)
    BY <2>2, <2>3, AnswerOthers DEF ClientHello
  <2>4. CASE DataDelivery(c)
    <3>1. buffer'[d] = buffer[d]
      BY <2>4 DEF DataDelivery
    <3>2. QED BY <2>2, <2>4, <3>1, AnswerOthers DEF DataDelivery
  <2>5. CASE DataStore(c)
    BY <2>2, <2>5, AnswerOthers DEF DataStore
  <2>6. CASE ErrorReceived(c) \/ Unrecognized(c) \/ KilledInStore(c)
    BY <2>2, <2>6 DEF ErrorReceived, Unrecognized, KilledInStore
  <2>7. CASE ReadFails(c) \/ ServerKilled(c)
    BY <2>1, <2>7 DEF ReadFails, ServerKilled, Same, netVars
  <2>8. QED BY <1>2, <2>3, <2>4, <2>5, <2>6, <2>7 DEF ServerPart, ServerStep
<1>3. CASE ClientKilled(c)
  BY <1>3 DEF ClientKilled, Kill, Same, serverVars, transferVars
<1>4. QED BY <1>1, <1>2, <1>3 DEF Steps

-----------------------------------------------------------------------------
(* What the server reads                                                   *)

(* A request is not what is left of a packet.                              *)
LEMMA RequestIsNotRest ==
  ASSUME NEW c \in Clients, NEW p, IsRequest(c, p)
  PROVE  p # Rest /\ p.cmd # "rest"
BY DEF IsRequest, Rest, Packet

(* One read of what is left of a packet, or of the request.                *)
ReadWhole(c, p) ==
  /\ IsRequest(c, p) /\ Asked(c, p) /\ toClient[c] = <<>> /\ cpc[c] \in {"read", "killed"}
  /\ \/ recv'[c] = p /\ toServer'[c] = <<>> /\ toServer[c] = <<p>>
     \/ /\ c \in Cut /\ Cuttable(p)
        /\ recv'[c] = Beginning(p) /\ toServer'[c] = <<Rest>>

ReadRest(c) ==
  /\ c \in Cut /\ toServer[c] # <<>> /\ recv'[c] = Rest
  /\ toServer'[c] \in {<<>>, <<Rest>>}

ReadEnd(c) ==
  /\ toServer[c] = <<>> /\ Gone(c)
  /\ recv'[c] = recv[c] /\ toServer'[c] = toServer[c]

(* These are all the ways to receive a packet.                             *)
LEMMA ReceiveCases ==
  ASSUME TypeOK, NEW c \in Clients, Exchange(c), NEW cmd, Receive(c, cmd)
  PROVE  \/ \E p \in PacketType : p.cmd = cmd /\ ReadWhole(c, p)
         \/ cmd = "rest" /\ ReadRest(c)
         \/ recv[c].cmd = cmd /\ ReadEnd(c)
<1>1. CASE toServer[c] = <<>>
  BY <1>1 DEF Receive, ReadEnd
<1>2. CASE toServer[c] # <<>>
  <2>1. PICK r \in Reads(c) : /\ r.packet.cmd = cmd
                              /\ recv' = [recv EXCEPT ![c] = r.packet]
                              /\ toServer' = [toServer EXCEPT ![c] = r.left]
    BY <1>2 DEF Receive
  <2>2. recv'[c] = r.packet /\ toServer'[c] = r.left
    BY <2>1, TypesDomains DEF Domains
  <2>3. CASE Idle(c)
    <3>1. toServer[c] = <<Rest>> /\ c \in Cut
      BY <1>2, <2>3 DEF Idle
    <3>2. r.packet = Rest /\ r.left = <<>>
      <4>1. Head(toServer[c]) = Rest /\ Len(toServer[c]) = 1
        BY <3>1, ShortStreams
      <4>2. r.packet = Rest /\ r.left = IF Len(toServer[c]) = 1 THEN <<>>
                                        ELSE LeftOf(toServer[c][2]) \o Tail(Tail(toServer[c]))
        BY <4>1, ReadsRest
      <4>3. QED BY <4>1, <4>2
    <3>3. QED BY <1>2, <2>1, <2>2, <3>1, <3>2 DEF ReadRest, Rest, Packet
  <2>4. CASE ~Idle(c)
    <3>1. PICK i \in DOMAIN toServer[c] : /\ IsRequest(c, toServer[c][i]) /\ Asked(c, toServer[c][i])
                                          /\ toClient[c] = <<>> /\ cpc[c] \in {"read", "killed"}
      BY <2>4 DEF Exchange, Asking
    <3>2. PICK p : p = toServer[c][i]
      OBVIOUS
    <3>3. p \in PacketType
      <4>1. toServer[c] \in Seq(PacketType)
        BY DEF TypeOK, ClientTypeOK, PacketType
      <4>2. i \in 1 .. Len(toServer[c])
        BY <4>1
      <4>3. QED BY <3>2, <4>1, <4>2, ElementOfSeq
    <3>4. IsRequest(c, p) /\ Asked(c, p) /\ p # Rest /\ p.cmd # "rest"
      BY <3>1, <3>2, RequestIsNotRest
    <3>5. CASE toServer[c] = <<p>>
      <4>1. \/ r.packet = p /\ r.left = <<>>
            \/ c \in Cut /\ Cuttable(p) /\ r.packet = Beginning(p) /\ r.left = <<Rest>> \o <<>>
        <5>1. /\ Head(toServer[c]) = p /\ Tail(toServer[c]) = <<>>
          BY <3>5, ShortStreams
        <5>2. \/ r.packet = Head(toServer[c]) /\ r.left = Tail(toServer[c])
              \/ /\ c \in Cut /\ Cuttable(Head(toServer[c]))
                 /\ r.packet = Beginning(Head(toServer[c])) /\ r.left = <<Rest>> \o Tail(toServer[c])
          BY <3>4, <5>1, ReadsPacket
        <5>3. QED BY <5>1, <5>2
      <4>2. r.packet.cmd = p.cmd
        <5>1. Beginning(p).cmd = p.cmd
          BY <3>3 DEF Beginning, PacketType
        <5>2. QED BY <4>1, <5>1
      <4>3. <<Rest>> \o <<>> = <<Rest>>
        BY ShortStreams
      <4>4. QED BY <2>1, <2>2, <3>1, <3>3, <3>4, <3>5, <4>1, <4>2, <4>3 DEF ReadWhole
    <3>6. CASE c \in Cut /\ toServer[c] = <<Rest, p>>
      <4>1. r.packet = Rest /\ r.left = LeftOf(p) \o <<>>
        <5>1. /\ Head(toServer[c]) = Rest /\ Len(toServer[c]) = 2
              /\ toServer[c][2] = p /\ Tail(Tail(toServer[c])) = <<>>
          BY <3>6, ShortStreams
        <5>2. /\ r.packet = Rest
              /\ r.left = IF Len(toServer[c]) = 1 THEN <<>>
                          ELSE LeftOf(toServer[c][2]) \o Tail(Tail(toServer[c]))
          BY <5>1, ReadsRest
        <5>3. Len(toServer[c]) # 1
          BY <5>1
        <5>4. QED BY <5>1, <5>2, <5>3
      <4>2. LeftOf(p) \o <<>> \in {<<>>, <<Rest>>}
        BY <3>3, PacketTypes, ShortStreams
      <4>3. QED BY <1>2, <2>1, <2>2, <3>6, <4>1, <4>2 DEF ReadRest, Rest, Packet
    <3>7. QED BY <3>4, <3>5, <3>6 DEF Asked
  <2>5. QED BY <2>3, <2>4
<1>3. QED BY <1>1, <1>2

(* In all of them nothing is left but perhaps the rest of a packet.        *)
LEMMA ReceiveLeaves ==
  ASSUME TypeOK, NEW c \in Clients, Exchange(c), NEW cmd, Receive(c, cmd)
  PROVE  Idle(c)'
<1>1. ASSUME NEW p \in PacketType, ReadWhole(c, p)
      PROVE  Idle(c)'
  BY <1>1 DEF ReadWhole, Idle
<1>2. CASE ReadRest(c)
  BY <1>2 DEF ReadRest, Idle
<1>3. CASE ReadEnd(c)
  BY <1>3 DEF ReadEnd, Idle
<1>4. QED BY <1>1, <1>2, <1>3, ReceiveCases

(* Who receives a command has not been answered yet, or is not there.      *)
LEMMA ReceiveUnanswered ==
  ASSUME TypeOK, NEW c \in Clients, Exchange(c), NEW cmd, cmd # "rest", Receive(c, cmd)
  PROVE  (toClient[c] = <<>> /\ cpc[c] \in {"read", "killed"}) \/ Gone(c)
<1>1. QED BY ReceiveCases DEF ReadWhole, ReadEnd

-----------------------------------------------------------------------------
(* The steps of the server                                                 *)

(* An answer to a packet ends the exchange, or starts its second half.     *)
LEMMA AnswerExchange ==
  ASSUME TypeOK, NEW c \in Clients, Exchange(c), NEW read, read # "rest", Receive(c, read),
         NEW cmd, NEW s, NEW next \in {"serve", "leaving"}, Answer(c, cmd, s, next),
         UNCHANGED <<cpc, closed>>
  PROVE  Exchange(c)' /\ spc'[c] \in {next, "leaving"}
<1>1. Idle(c)'
  BY ReceiveLeaves
<1>2. \/ toClient[c] = <<>> /\ cpc[c] \in {"read", "killed"}
      \/ Gone(c)
  BY ReceiveUnanswered
<1>3. spc'[c] \in {next, "leaving"}
  BY TypesDomains DEF Domains, Answer
<1>4. CASE Gone(c)
  <2>1. toClient' = toClient
    BY <1>4 DEF Answer
  <2>2. CASE cpc[c] = "killed"
    <3>1. toClient[c] = <<>> \/ Len(toClient[c]) = 1
      BY DEF Exchange
    <3>2. (toClient'[c] = <<>> \/ Len(toClient'[c]) = 1) /\ cpc'[c] = "killed"
      BY <2>1, <2>2, <3>1
    <3>3. QED BY <1>1, <1>3, <3>2 DEF Exchange
  <2>3. CASE cpc[c] = "exited"
    <3>1. toClient[c] = <<>>
      BY <2>3 DEF Exchange
    <3>2. toClient'[c] = <<>> /\ cpc'[c] = "exited"
      BY <2>1, <2>3, <3>1
    <3>3. QED BY <1>1, <1>3, <3>2 DEF Exchange
  <2>4. QED BY <1>3, <1>4, <2>2, <2>3 DEF Gone
<1>5. CASE ~Gone(c)
  <2>1. toClient'[c] = Append(toClient[c], [cmd |-> cmd, seq |-> s])
    BY <1>5, TypesDomains DEF Domains, Answer
  <2>2. toClient'[c] = <<[cmd |-> cmd, seq |-> s]>>
    BY <1>2, <1>5, <2>1, ShortStreams
  <2>3. Len(toClient'[c]) = 1
    BY <2>2, ShortStreams
  <2>4. QED BY <1>1, <1>2, <1>3, <1>5, <2>3 DEF Exchange
<1>6. QED BY <1>4, <1>5

(* Nothing but a request is received before the client has connected.      *)
LEMMA ReceiveStarted ==
  ASSUME TypeOK, NEW c \in Clients, Exchange(c), Connection(c), NEW cmd, Receive(c, cmd)
  PROVE  cpc[c] # "start"
<1>1. ASSUME NEW p \in PacketType, ReadWhole(c, p)
      PROVE  cpc[c] # "start"
  BY <1>1 DEF ReadWhole
<1>2. CASE ReadRest(c)
  BY <1>2 DEF ReadRest, Connection
<1>3. CASE ReadEnd(c)
  BY <1>3 DEF ReadEnd, Gone
<1>4. QED BY <1>1, <1>2, <1>3, ReceiveCases

(* The part of Connection that a server can disturb: the data it has, its  *)
(* last packet and its control point.                                      *)
LEMMA ServerConnection ==
  ASSUME TypeOK, NEW c \in Clients, Exchange(c), Connection(c), NEW cmd, Receive(c, cmd),
         UNCHANGED <<cpc, got, pos, closed, name, told>>,
         spc'[c] \in {"serve", "leaving"},
         spc'[c] = "serve" => /\ cmd # "DATA_STORE"
                              /\ Together(c)' => buffer'[c] = SubSeq(File(name[c]), 1, pos[c])
  PROVE  Connection(c)'
<1>1. Idle(c)' /\ cpc[c] # "start"
  BY ReceiveLeaves, ReceiveStarted
<1>2. InFlight(c)' = <<>> /\ \A i \in DOMAIN toServer'[c] : toServer'[c][i].cmd # "DATA_STORE"
  <2>1. CASE toServer'[c] = <<>>
    BY <2>1, ShortStreams DEF InFlight
  <2>2. CASE toServer'[c] = <<Rest>>
    <3>1. toServer'[c][1] = Rest /\ DOMAIN toServer'[c] = {1} /\ Rest.cmd = "rest"
      BY <2>2, ShortStreams DEF Rest, Packet
    <3>2. QED BY <3>1 DEF InFlight
  <2>3. QED BY <1>1, <2>1, <2>2 DEF Idle
<1>3. spc[c] = "serve"
  BY DEF Receive
<1>4. recv'[c].cmd = cmd
  <2>1. ASSUME NEW p \in PacketType, p.cmd = cmd, ReadWhole(c, p)
        PROVE  recv'[c].cmd = cmd
    <3>1. Beginning(p).cmd = p.cmd
      BY DEF Beginning, PacketType
    <3>2. QED BY <2>1, <3>1 DEF ReadWhole
  <2>2. CASE cmd = "rest" /\ ReadRest(c)
    BY <2>2 DEF ReadRest, Rest, Packet
  <2>3. CASE recv[c].cmd = cmd /\ ReadEnd(c)
    BY <2>3 DEF ReadEnd
  <2>4. QED BY <2>1, <2>2, <2>3, ReceiveCases
<1>5. Together(c)' => buffer'[c] \o InFlight(c)' = SubSeq(File(name[c]), 1, pos[c])
  <2>1. SUFFICES ASSUME Together(c)'
                 PROVE  buffer'[c] \o <<>> = SubSeq(File(name[c]), 1, pos[c])
    BY <1>2
  <2>2. buffer'[c] = SubSeq(File(name[c]), 1, pos[c])
    BY <2>1 DEF Together
  <2>3. SubSeq(File(name[c]), 1, pos[c]) \in Seq(Block)
    BY PrefixType DEF TypeOK, ClientTypeOK, Connection
  <2>4. QED BY <2>2, <2>3, ConcatEmptySeq
<1>6. QED BY <1>1, <1>2, <1>3, <1>4, <1>5 DEF Connection, NoMore
(* A packet that is not answered leaves the client waiting for nothing.    *)
LEMMA UnansweredExchange ==
  ASSUME TypeOK, NEW c \in Clients, Exchange(c), NEW cmd, Receive(c, cmd),
         UNCHANGED <<cpc, closed, toClient>>,
         spc'[c] = "leaving" \/ (cmd = "rest" /\ spc'[c] = spc[c])
  PROVE  Exchange(c)'
<1>1. Idle(c)'
  BY ReceiveLeaves
<1>2. \/ toClient[c] = <<>>
      \/ Len(toClient[c]) = 1 /\ cpc[c] \in {"read", "killed"}
  BY DEF Exchange
<1>3. cpc[c] = "read" => c \in Cut \/ spc'[c] = "leaving"
  <2>1. SUFFICES ASSUME cpc[c] = "read", cmd = "rest"
                 PROVE  c \in Cut
    OBVIOUS
  <2>2. ~ReadEnd(c)
    BY <2>1 DEF ReadEnd, Gone
  <2>3. ASSUME NEW p \in PacketType, p.cmd = cmd, ReadWhole(c, p) PROVE FALSE
    BY <2>1, <2>3, RequestIsNotRest DEF ReadWhole
  <2>4. QED BY <2>2, <2>3, ReceiveCases DEF ReadRest
<1>4. CASE toClient[c] = <<>>
  BY <1>1, <1>3, <1>4 DEF Exchange
<1>5. CASE Len(toClient[c]) = 1 /\ cpc[c] \in {"read", "killed"}
  BY <1>1, <1>5 DEF Exchange
<1>6. QED BY <1>2, <1>4, <1>5

(* An answered packet, as far as the data is concerned: what was on its    *)
(* way to the server has arrived.                                          *)
LEMMA DataArrives ==
  ASSUME TypeOK, NEW c \in Clients, Exchange(c), Connection(c), NEW cmd, Receive(c, cmd),
         UNCHANGED <<cpc, got, pos, closed, name, told>>, Together(c)'
  PROVE  \E p \in PacketType :
           /\ p.cmd = cmd /\ recv'[c] = p
           /\ cmd = "DATA_DELIVERY" => buffer[c] \o p.data = SubSeq(File(name[c]), 1, pos[c])
           /\ cmd # "DATA_DELIVERY" => buffer[c] \o <<>> = SubSeq(File(name[c]), 1, pos[c])
<1>1. /\ c \notin Cut \cup closed /\ spc[c] = "serve"
      /\ cpc[c] \in {"start", "read"} \/ toServer'[c] # <<>>
  BY DEF Together, Receive
<1>2. ~ReadRest(c)
  BY <1>1 DEF ReadRest
<1>3. ~ReadEnd(c)
  BY <1>1 DEF ReadEnd, Gone
<1>4. PICK p \in PacketType : p.cmd = cmd /\ ReadWhole(c, p)
  BY <1>2, <1>3, ReceiveCases
<1>5. recv'[c] = p /\ toServer[c] = <<p>>
  BY <1>1, <1>4 DEF ReadWhole
<1>6. Together(c)
  BY <1>1, <1>5, ShortStreams DEF Together
<1>7. InFlight(c) = IF cmd = "DATA_DELIVERY" THEN p.data ELSE <<>>
  BY <1>4, <1>5, ShortStreams DEF InFlight
<1>8. buffer[c] \o InFlight(c) = SubSeq(File(name[c]), 1, pos[c])
  BY <1>6 DEF Connection
<1>9. QED BY <1>4, <1>5, <1>7, <1>8

(* Every step of the server keeps the exchange and the connection.         *)
LEMMA ServerKeeps ==
  ASSUME TypeOK, NEW c \in Clients, Exchange(c), Connection(c), ServerPart(c)
  PROVE  Exchange(c)' /\ Connection(c)'
<1>1. UNCHANGED <<cpc, got, pos, closed, name, told>>
  BY DEF ServerPart, ServerStep, ServerKilled, KilledInStore, ClientHello, DataDelivery, DataStore,
         ErrorReceived, Unrecognized, ReadFails, clientVars, transferVars
<1>2. buffer \in [Clients -> Seq(Block)]
  BY DEF TypeOK
<1>3. CASE ClientHello(c)
  <2>1. Receive(c, "CLIENT_HELLO") /\ buffer' = buffer
    BY <1>3 DEF ClientHello
  <2>2. PICK s \in FirstSeqs : Answer(c, "SERVER_HELLO", s, "serve")
    BY <1>3 DEF ClientHello
  <2>3. Exchange(c)' /\ spc'[c] \in {"serve", "leaving"}
    BY <1>1, <2>1, <2>2, AnswerExchange
  <2>4. Together(c)' => buffer'[c] = SubSeq(File(name[c]), 1, pos[c])
    <3>1. buffer[c] \o <<>> = buffer[c]
      BY <1>2, ConcatEmptySeq
    <3>2. "CLIENT_HELLO" # "DATA_DELIVERY"
      OBVIOUS
    <3>3. Together(c)' => buffer[c] \o <<>> = SubSeq(File(name[c]), 1, pos[c])
      BY <1>1, <2>1, <3>2, DataArrives
    <3>4. QED BY <2>1, <3>1, <3>3
  <2>5. QED BY <1>1, <2>1, <2>3, <2>4, ServerConnection
<1>4. CASE DataDelivery(c)
  <2>1. Receive(c, "DATA_DELIVERY")
    BY <1>4 DEF DataDelivery
  <2>2. CASE /\ buffer' = [buffer EXCEPT ![c] = @ \o recv'[c].data]
             /\ Answer(c, "PKT_RECEIVED", NextSeq(c), "serve")
    <3>1. Exchange(c)' /\ spc'[c] \in {"serve", "leaving"}
      BY <1>1, <2>1, <2>2, AnswerExchange
    <3>2. buffer'[c] = buffer[c] \o recv'[c].data
      BY <1>2, <2>2
    <3>3. Together(c)' => buffer'[c] = SubSeq(File(name[c]), 1, pos[c])
      BY <1>1, <2>1, <3>2, DataArrives
    <3>4. QED BY <1>1, <2>1, <3>1, <3>3, ServerConnection
  <2>3. CASE Answer(c, "ERROR", NextSeq(c), "leaving")
    <3>1. Exchange(c)' /\ spc'[c] = "leaving"
      BY <1>1, <2>1, <2>3, AnswerExchange
    <3>2. QED BY <1>1, <2>1, <3>1, ServerConnection
  <2>4. QED BY <1>4, <2>2, <2>3 DEF DataDelivery
<1>5. CASE DataStore(c)
  <2>1. Receive(c, "DATA_STORE")
    BY <1>5 DEF DataStore
  <2>2. \/ Answer(c, "FILE_STORED", NextSeq(c), "leaving")
        \/ Answer(c, "STORED_ERROR", NextSeq(c), "leaving")
    BY <1>5 DEF DataStore
  <2>3. Exchange(c)' /\ spc'[c] = "leaving"
    BY <1>1, <2>1, <2>2, AnswerExchange
  <2>4. QED BY <1>1, <2>1, <2>3, ServerConnection
<1>6. CASE ErrorReceived(c)
  <2>1. Receive(c, "ERROR") /\ spc'[c] = "leaving" /\ toClient' = toClient
    BY <1>6, TypesDomains DEF Domains, ErrorReceived
  <2>2. Exchange(c)'
    BY <1>1, <2>1, UnansweredExchange
  <2>3. QED BY <1>1, <2>1, <2>2, ServerConnection
<1>7. CASE Unrecognized(c)
  <2>1. Receive(c, "rest") /\ UNCHANGED <<spc, toClient, buffer>>
    BY <1>7 DEF Unrecognized
  <2>2. spc[c] = "serve" /\ ~Together(c)'
    <3>1. ASSUME Together(c)' PROVE FALSE
      <4>1. PICK p \in PacketType : /\ p.cmd = "rest" /\ recv'[c] = p
        BY <1>1, <2>1, <3>1, DataArrives
      <4>2. ~ReadRest(c) /\ ~ReadEnd(c)
        BY <1>1, <2>1, <3>1 DEF Together, ReadRest, ReadEnd, Gone
      <4>3. PICK q \in PacketType : q.cmd = "rest" /\ ReadWhole(c, q)
        BY <2>1, <4>2, ReceiveCases
      <4>4. QED BY <4>3, RequestIsNotRest DEF ReadWhole
    <3>2. QED BY <2>1, <3>1 DEF Receive
  <2>3. Exchange(c)'
    BY <1>1, <2>1, <2>2, UnansweredExchange
  <2>4. QED BY <1>1, <2>1, <2>2, <2>3, ServerConnection
<1>8. CASE ReadFails(c) \/ ServerKilled(c)
  <2>1. /\ UNCHANGED <<recv, buffer, toServer, toClient>> /\ spc'[c] = "leaving" /\ spc[c] = "serve"
    BY <1>8, TypesDomains DEF Domains, ReadFails, ServerKilled, netVars
  <2>2. Exchange(c)'
    BY <1>1, <2>1 DEF Exchange, Asking, Idle, IsRequest, Asked
  <2>3. ~Together(c)' /\ NoMore(c)' = NoMore(c)
    BY <1>1, <2>1 DEF Together, NoMore
  <2>4. Connection(c)'
    BY <1>1, <2>1, <2>3 DEF Connection
  <2>5. QED BY <2>2, <2>4
<1>9. CASE KilledInStore(c)
  <2>1. Receive(c, "DATA_STORE") /\ spc'[c] = "leaving" /\ toClient' = toClient
    BY <1>9, TypesDomains DEF Domains, KilledInStore
  <2>2. Exchange(c)'
    BY <1>1, <2>1, UnansweredExchange
  <2>3. QED BY <1>1, <2>1, <2>2, ServerConnection
<1>10. QED BY <1>3, <1>4, <1>5, <1>6, <1>7, <1>8, <1>9 DEF ServerPart, ServerStep

-----------------------------------------------------------------------------
(* The steps of the client                                                 *)

(* The client goes on with the answer that was on its way, or once more    *)
(* with the last one.                                                      *)
Answered(c) == Idle(c) /\ toClient[c] # <<>> /\ toClient'[c] = <<>>
Again(c)    == c \in closed /\ toClient[c] = <<>> /\ toClient'[c] = <<>> /\ got'[c] = got[c]

(* These are the ways to read an answer.                                   *)
LEMMA ReplyCases ==
  ASSUME TypeOK, NEW c \in Clients, Exchange(c), NEW cmd, Reply(c, cmd)
  PROVE  /\ cpc[c] = "read" /\ got'[c].cmd = cmd
         /\ Answered(c) \/ Again(c)
<1>1. toClient[c] \in Seq(AnswerType) /\ c \in DOMAIN toClient /\ c \in DOMAIN got
  BY DEF TypeOK, ClientTypeOK, AnswerType
<1>2. CASE toClient[c] # <<>>
  <2>1. Idle(c) /\ Len(toClient[c]) = 1
    BY <1>2 DEF Exchange
  <2>2. Tail(toClient[c]) \in Seq(AnswerType) /\ Len(Tail(toClient[c])) = Len(toClient[c]) - 1
    BY <1>1, <1>2, HeadTailProperties
  <2>3. Tail(toClient[c]) = <<>>
    <3>1. Len(Tail(toClient[c])) = 0
      BY <2>1, <2>2
    <3>2. QED BY <2>2, <3>1, EmptySeq
  <2>4. QED BY <1>1, <1>2, <2>1, <2>3 DEF Reply, Answered
<1>3. CASE toClient[c] = <<>>
  BY <1>3 DEF Reply, Again
<1>4. QED BY <1>2, <1>3

(* What a client sends goes to the server, or nowhere.                     *)
LEMMA SendCases ==
  ASSUME TypeOK, NEW c \in Clients, NEW p, Send(c, p), cpc[c] = "read"
  PROVE  \/ c \notin closed /\ toServer'[c] = Append(toServer[c], p) /\ cpc'[c] = "read"
         \/ c \in closed /\ toServer'[c] = toServer[c] /\ cpc'[c] \in {"read", "killed"}
BY TypesDomains DEF Domains, Send

(* A request that is sent when nothing is under way is there alone.        *)
LEMMA SentAsked ==
  ASSUME NEW c \in Clients, Idle(c), NEW p, IsRequest(c, p), name'[c] = name[c],
         toServer'[c] = Append(toServer[c], p)
  PROVE  /\ Asking(c)'
         /\ c \notin Cut => toServer'[c] = <<p>>
         /\ \A i \in DOMAIN toServer'[c] : toServer'[c][i] \in {Rest, p}
<1>1. CASE toServer[c] = <<>>
  <2>1. toServer'[c] = <<p>>
    BY <1>1, ShortStreams
  <2>2. 1 \in DOMAIN toServer'[c] /\ toServer'[c][1] = p /\ DOMAIN toServer'[c] = {1}
    BY <2>1, ShortStreams
  <2>3. Asking(c)'
    BY <2>1, <2>2 DEF Asking, Asked, IsRequest
  <2>4. QED BY <2>1, <2>2, <2>3
<1>2. CASE c \in Cut /\ toServer[c] = <<Rest>>
  <2>1. toServer'[c] = <<Rest, p>>
    BY <1>2, ShortStreams
  <2>2. /\ 2 \in DOMAIN toServer'[c] /\ toServer'[c][2] = p
        /\ DOMAIN toServer'[c] = {1, 2} /\ toServer'[c][1] = Rest
    BY <2>1, ShortStreams
  <2>3. Asking(c)'
    BY <1>2, <2>1, <2>2 DEF Asking, Asked, IsRequest
  <2>4. QED BY <1>2, <2>2, <2>3
<1>3. QED BY <1>1, <1>2 DEF Idle

(* A client that has been answered sends its next request.                 *)
LEMMA SendExchange ==
  ASSUME TypeOK, NEW c \in Clients, Exchange(c), NEW cmd, Reply(c, cmd),
         NEW p, IsRequest(c, p), Send(c, p), UNCHANGED <<closed, spc, name>>
  PROVE  Exchange(c)'
<1>1. cpc[c] = "read" /\ (Answered(c) \/ Again(c))
  BY ReplyCases
<1>2. CASE c \notin closed
  <2>1. Answered(c)
    BY <1>1, <1>2 DEF Again
  <2>2. toServer'[c] = Append(toServer[c], p) /\ cpc'[c] = "read"
    BY <1>1, <1>2, SendCases
  <2>3. Asking(c)'
    BY <2>1, <2>2, SentAsked DEF Answered
  <2>4. QED BY <2>1, <2>2, <2>3 DEF Exchange, Answered
<1>3. CASE c \in closed
  <2>1. toServer'[c] = toServer[c] /\ cpc'[c] \in {"read", "killed"} /\ c \in closed'
    BY <1>1, <1>3, SendCases
  <2>2. toClient'[c] = <<>>
    BY <1>1 DEF Answered, Again
  <2>3. CASE Idle(c)
    <3>1. Idle(c)'
      BY <2>1, <2>3 DEF Idle
    <3>2. QED BY <2>1, <2>2, <3>1 DEF Exchange
  <2>4. CASE ~Idle(c)
    <3>1. Asking(c)
      BY <2>4 DEF Exchange
    <3>2. Asking(c)'
      BY <2>1, <3>1 DEF Asking, IsRequest, Asked
    <3>3. QED BY <2>1, <2>2, <3>2 DEF Exchange
  <2>5. QED BY <2>3, <2>4
<1>4. QED BY <1>2, <1>3

(* And the two ends agree.                                                 *)
LEMMA SendConnection ==
  ASSUME TypeOK, NEW c \in Clients, Exchange(c), Connection(c),
         NEW cmd \in {"SERVER_HELLO", "PKT_RECEIVED"}, Reply(c, cmd),
         NEW p, IsRequest(c, p), Send(c, p), GoesOn(c, p),
         UNCHANGED <<closed, spc, name, told, recv, buffer>>
  PROVE  Connection(c)'
<1>1. cpc[c] = "read" /\ got'[c].cmd = cmd /\ (Answered(c) \/ Again(c))
  BY ReplyCases
<1>2. cpc'[c] \in {"read", "killed"}
  BY <1>1, SendCases
<1>3. pos[c] \in Nat /\ Size[name[c]] \in Nat /\ name[c] \in Names
  BY TransferAssumption DEF TypeOK, ClientTypeOK, Connection
<1>4. NoMore(c) => NoMore(c)'
  BY <1>3 DEF NoMore, GoesOn
<1>5. \A i \in DOMAIN toServer'[c] : toServer'[c][i].cmd = "DATA_STORE" => NoMore(c)'
  <2>1. CASE toServer'[c] = toServer[c]
    BY <1>4, <2>1 DEF Connection
  <2>2. CASE Answered(c) /\ toServer'[c] = Append(toServer[c], p)
    <3>1. \A i \in DOMAIN toServer'[c] : toServer'[c][i] \in {Rest, p}
      BY <2>2, SentAsked DEF Answered
    <3>2. Rest.cmd # "DATA_STORE"
      BY DEF Rest, Packet
    <3>3. QED BY <1>4, <3>1, <3>2 DEF GoesOn
  <2>3. QED BY <1>1, <2>1, <2>2, SendCases DEF Again
<1>6. ASSUME Together(c)'
      PROVE  buffer'[c] \o InFlight(c)' = SubSeq(File(name[c]), 1, pos'[c])
  <2>1. c \notin Cut \cup closed /\ spc[c] \in {"none", "serve"}
    BY <1>6 DEF Together
  <2>2. Answered(c) /\ toServer[c] = <<>>
    BY <1>1, <2>1 DEF Again, Answered, Idle
  <2>3. Together(c) /\ InFlight(c) = <<>>
    BY <1>1, <2>1, <2>2 DEF Together, InFlight
  <2>4. buffer[c] = SubSeq(File(name[c]), 1, pos[c])
    <3>1. buffer[c] \in Seq(Block)
      BY DEF TypeOK
    <3>2. buffer[c] \o <<>> = SubSeq(File(name[c]), 1, pos[c])
      BY <2>3 DEF Connection
    <3>3. QED BY <3>1, <3>2, ConcatEmptySeq
  <2>5. toServer'[c] = <<p>>
    BY <1>1, <2>1, <2>2, SendCases, SentAsked DEF Answered
  <2>6. CASE p.cmd = "DATA_DELIVERY"
    <3>1. InFlight(c)' = p.data
      BY <2>5, <2>6, ShortStreams DEF InFlight
    <3>2. QED BY <2>4, <2>6, <3>1 DEF GoesOn
  <2>7. CASE p.cmd # "DATA_DELIVERY"
    <3>1. InFlight(c)' = <<>> /\ pos'[c] = pos[c]
      BY <2>5, <2>7, ShortStreams DEF InFlight, GoesOn
    <3>2. buffer[c] \o <<>> = SubSeq(File(name[c]), 1, pos[c])
      BY <2>3 DEF Connection
    <3>3. QED BY <3>1, <3>2
  <2>8. QED BY <2>6, <2>7
<1>7. QED BY <1>1, <1>2, <1>3, <1>5, <1>6 DEF Connection, GoesOn

(* Every step of the client keeps the exchange and the connection.         *)
LEMMA ClientKeeps ==
  ASSUME TypeOK, NEW c \in Clients, Exchange(c), Connection(c), ClientPart(c)
  PROVE  Exchange(c)' /\ Connection(c)'
<1>0. ClientTypeOK /\ name[c] \in Names /\ pos[c] <= Size[name[c]]
  BY DEF TypeOK, Connection
<1>1. UNCHANGED <<spc, recv, buffer, name, closed>>
  BY DEF ClientPart, Connect, ClientLoop, ServerHello, PktReceived, ReplyFails, Told,
         serverVars, transferVars
<1>2. CASE Connect(c)
  <2>1. /\ toServer'[c] = <<Packet("CLIENT_HELLO", <<>>)>> /\ cpc'[c] = "read" /\ cpc[c] = "start"
        /\ UNCHANGED <<got, pos, toClient, told>>
    BY <1>2, TypesDomains DEF Domains, Connect, transferVars
  <2>2. PICK p : p = Packet("CLIENT_HELLO", <<>>)
    OBVIOUS
  <2>3. /\ toServer'[c] = <<p>> /\ p.cmd = "CLIENT_HELLO"
        /\ 1 \in DOMAIN toServer'[c] /\ toServer'[c][1] = p /\ DOMAIN toServer'[c] = {1}
    BY <2>1, <2>2, ShortStreams DEF Packet
  <2>4. Asking(c)'
    BY <2>2, <2>3 DEF Asking, Asked, IsRequest, Packet
  <2>5. Exchange(c)'
    BY <2>1, <2>4 DEF Exchange, Connection
  <2>6. pos[c] = 0 /\ buffer[c] = <<>> /\ InFlight(c)' = <<>>
    BY <2>1, <2>3 DEF Connection, InFlight
  <2>7. SubSeq(File(name[c]), 1, 0) = <<>> /\ <<>> \o <<>> = <<>>
    BY SubSeqEmpty, EmptySeq, ConcatEmptySeq
  <2>8. buffer'[c] \o InFlight(c)' = SubSeq(File(name[c]), 1, pos'[c])
    BY <1>1, <2>1, <2>6, <2>7
  <2>9. Connection(c)'
    BY <1>1, <2>1, <2>3, <2>8 DEF Connection
  <2>10. QED BY <2>5, <2>9
<1>3. ASSUME NEW cmd \in {"SERVER_HELLO", "PKT_RECEIVED"}, Reply(c, cmd), told' = told,
             NEW p, IsRequest(c, p), Send(c, p), GoesOn(c, p)
      PROVE  Exchange(c)' /\ Connection(c)'
  BY <1>1, <1>3, SendExchange, SendConnection
<1>4. CASE ServerHello(c)
  <2>1. Reply(c, "SERVER_HELLO") /\ told' = told
    BY <1>4 DEF ServerHello, transferVars
  <2>2. CASE SendBlock(c)
    BY <1>0, <1>3, <2>1, <2>2, SendBlockGoesOn
  <2>3. CASE FileError(c)
    BY <1>0, <1>3, <2>1, <2>3, SendOtherGoesOn DEF FileError
  <2>4. QED BY <1>4, <2>2, <2>3 DEF ServerHello
<1>5. CASE PktReceived(c)
  <2>1. Reply(c, "PKT_RECEIVED") /\ told' = told
    BY <1>5 DEF PktReceived, transferVars
  <2>2. CASE SendBlock(c)
    BY <1>0, <1>3, <2>1, <2>2, SendBlockGoesOn
  <2>3. CASE FileError(c)
    BY <1>0, <1>3, <2>1, <2>3, SendOtherGoesOn DEF FileError
  <2>4. CASE /\ NoMore(c) /\ UNCHANGED pos
             /\ Send(c, Packet("DATA_STORE", <<[of |-> name[c], no |-> 0]>>))
    BY <1>0, <1>3, <2>1, <2>4, SendOtherGoesOn
  <2>5. QED BY <1>5, <2>2, <2>3, <2>4 DEF PktReceived
<1>6. ASSUME cpc[c] = "read", cpc'[c] \in {"exited", "killed"},
             UNCHANGED <<pos, toServer>>, toClient'[c] = <<>>, Idle(c) \/ cpc'[c] = "killed",
             toClient[c] = <<>> \/ Idle(c),
             told'[c] # "nothing" => cpc'[c] = "exited",
             cpc'[c] = "exited" => Idle(c)
      PROVE  Exchange(c)' /\ Connection(c)'
  <2>1. Exchange(c)'
    <3>1. CASE Idle(c)
      <4>1. Idle(c)'
        BY <1>6, <3>1 DEF Idle
      <4>2. QED BY <1>6, <4>1 DEF Exchange
    <3>2. CASE ~Idle(c)
      <4>1. Asking(c)'
        BY <1>1, <1>6, <3>2 DEF Exchange, Asking, Asked, IsRequest
      <4>2. QED BY <1>6, <3>2, <4>1 DEF Exchange
    <3>3. QED BY <3>1, <3>2
  <2>2. NoMore(c)' = NoMore(c) /\ InFlight(c)' = InFlight(c) /\ (Together(c)' => Together(c))
    BY <1>1, <1>6 DEF NoMore, InFlight, Together
  <2>3. Connection(c)'
    BY <1>1, <1>6, <2>2 DEF Connection
  <2>4. QED BY <2>1, <2>3
<1>7. CASE ReplyFails(c)
  <2>1. /\ cpc[c] = "read" /\ cpc'[c] = "killed" /\ toClient[c] = <<>>
        /\ UNCHANGED <<pos, toServer, toClient, told>>
    BY <1>7, TypesDomains DEF Domains, ReplyFails, netVars, transferVars
  <2>2. told[c] = "nothing"
    BY <2>1 DEF Connection
  <2>3. QED BY <1>6, <2>1, <2>2
<1>8. ASSUME NEW cmd \in {"FILE_STORED", "STORED_ERROR", "ERROR"}, NEW what, Told(c, cmd, what)
      PROVE  Exchange(c)' /\ Connection(c)'
  <2>1. Reply(c, cmd) /\ cpc'[c] = "exited" /\ UNCHANGED <<pos, toServer>>
    BY <1>8, TypesDomains DEF Domains, Told
  <2>2. cpc[c] = "read" /\ got'[c].cmd = cmd /\ (Answered(c) \/ Again(c))
    BY <2>1, ReplyCases
  <2>3. ~Again(c)
    BY <2>2 DEF Again, Connection
  <2>4. Idle(c) /\ toClient'[c] = <<>>
    BY <2>2, <2>3 DEF Answered
  <2>5. QED BY <1>6, <2>1, <2>2, <2>4
<1>9. QED BY <1>2, <1>4, <1>5, <1>7, <1>8 DEF ClientPart, ClientLoop

(* So does the end of a client that is killed.                             *)
LEMMA KilledKeeps ==
  ASSUME TypeOK, NEW c \in Clients, Exchange(c), Connection(c), ClientKilled(c)
  PROVE  Exchange(c)' /\ Connection(c)'
<1>1. /\ UNCHANGED <<name, told, got, pos, toServer, toClient, closed, spc, recv, buffer>>
      /\ cpc[c] = "read" /\ cpc'[c] = "killed"
  BY DEF ClientKilled, Kill, transferVars, serverVars
<1>2. Exchange(c)'
  BY <1>1 DEF Exchange, Asking, Asked, Idle, IsRequest
<1>3. NoMore(c)' = NoMore(c) /\ InFlight(c)' = InFlight(c) /\ (Together(c)' => Together(c))
  BY <1>1 DEF NoMore, InFlight, Together
<1>4. told[c] = "nothing"
  BY <1>1 DEF Connection
<1>5. Connection(c)'
  BY <1>1, <1>3, <1>4 DEF Connection
<1>6. QED BY <1>2, <1>5

-----------------------------------------------------------------------------
(* The steps of both programs, and the promises of TransferService         *)

(* The file that is stored is that of the client, under its name.          *)
LEMMA StoreOutcome ==
  ASSUME TypeOK, NEW c \in Clients, Exchange(c), Connection(c), Stores(c)
  PROVE  /\ NameIn(c) = name[c] /\ name[c] \in Names
         /\ told[c] = "nothing"
         /\ c \notin Cut => buffer[c] = File(name[c])
<1>1. Receive(c, "DATA_STORE") /\ spc[c] = "serve"
  BY DEF Stores, DataStore, KilledInStore, Receive
<1>2. recv[c].cmd # "DATA_STORE" /\ c \notin closed /\ name[c] \in Names
  BY <1>1 DEF Connection
<1>3. PICK p \in PacketType : p.cmd = "DATA_STORE" /\ ReadWhole(c, p)
  BY <1>1, <1>2, ReceiveCases
<1>4. p = Packet("DATA_STORE", <<[of |-> name[c], no |-> 0]>>)
  BY <1>3 DEF ReadWhole, IsRequest
<1>5. recv'[c] = p /\ toServer[c] = <<p>>
  BY <1>3 DEF ReadWhole, Cuttable
<1>6. NameIn(c) = name[c]
  <2>1. p.data = <<[of |-> name[c], no |-> 0]>>
    BY <1>4 DEF Packet
  <2>2. p.data[1] = [of |-> name[c], no |-> 0]
    BY <2>1, ShortStreams
  <2>3. p.data[1].of = name[c]
    BY <2>2
  <2>4. QED BY <1>5, <2>3 DEF NameIn
<1>7. told[c] = "nothing"
  BY <1>3 DEF ReadWhole, Connection
<1>8. ASSUME c \notin Cut PROVE buffer[c] = File(name[c])
  <2>1. Together(c)
    BY <1>1, <1>2, <1>5, <1>8, ShortStreams DEF Together
  <2>2. InFlight(c) = <<>> /\ 1 \in DOMAIN toServer[c] /\ toServer[c][1].cmd = "DATA_STORE"
    BY <1>3, <1>5, ShortStreams DEF InFlight
  <2>3. /\ buffer[c] \o <<>> = SubSeq(File(name[c]), 1, pos[c])
        /\ NoMore(c) /\ pos[c] <= Size[name[c]] /\ pos[c] \in Nat /\ buffer[c] \in Seq(Block)
    BY <2>1, <2>2 DEF Connection, TypeOK, ClientTypeOK
  <2>4. SubSeq(File(name[c]), 1, pos[c]) = File(name[c])
    BY <1>2, <2>3, PrefixWhole DEF NoMore
  <2>5. QED BY <2>3, <2>4, ConcatEmptySeq
<1>9. QED BY <1>2, <1>6, <1>7, <1>8

(* A write that stops anywhere in the file, or at its end, is allowed by   *)
(* the service.                                                            *)
LEMMA WriteRefines ==
  ASSUME TypeOK, NEW c \in Clients, name[c] \in Names, told[c] = "nothing",
         c \notin Cut => buffer[c] = File(name[c]),
         UNCHANGED <<name, told>>, disk' \in [Names -> Seq(Block)],
         NEW k \in 0 .. Len(buffer[c]),
         disk' = [disk EXCEPT ![name[c]] = Overwritten(@, SubSeq(buffer[c], 1, k))],
         torn' = torn \cup {c} \/ (torn' = torn /\ k = Len(buffer[c]))
  PROVE  Keep(c)
<1>1. name[c] # NoName /\ disk \in [Names -> Seq(Block)]
  BY TransferAssumption DEF TypeOK
<1>2. \A n \in Names \ {name[c]} : disk'[n] = disk[n]
  BY <1>1
<1>3. torn' \in {torn, torn \cup {c}}
  OBVIOUS
<1>4. ASSUME c \notin Cut
      PROVE  \E j \in 0 .. Size[name[c]] :
                /\ c \in torn' \/ j = Size[name[c]]
                /\ disk'[name[c]] = Overwritten(disk[name[c]], Part(name[c], j))
  <2>1. buffer[c] = File(name[c]) /\ Len(buffer[c]) = Size[name[c]]
    BY <1>4, FileType
  <2>2. disk'[name[c]] = Overwritten(disk[name[c]], Part(name[c], k))
    BY <1>1, <2>1 DEF Part
  <2>3. QED BY <2>1, <2>2
<1>5. QED BY <1>1, <1>2, <1>3, <1>4 DEF Keep

(* Whatever the server does with the file is allowed by the service.       *)
LEMMA StoreRefines ==
  ASSUME TypeOK, NEW c \in Clients, Exchange(c), Connection(c), Stores(c)
  PROVE  /\ UNCHANGED <<name, told>>
         /\ Keep(c) \/ Create(c) \/ UNCHANGED <<disk, torn>>
<1>1. /\ NameIn(c) = name[c] /\ name[c] \in Names /\ told[c] = "nothing"
      /\ c \notin Cut => buffer[c] = File(name[c])
  BY StoreOutcome
<1>2. UNCHANGED <<name, told>> /\ name[c] # NoName
  BY <1>1, TransferAssumption DEF Stores, DataStore, KilledInStore
<1>3. disk' \in [Names -> Seq(Block)] /\ buffer[c] \in Seq(Block) /\ Len(buffer[c]) \in Nat
  BY <1>1, StoreTypes DEF TypeOK
<1>4. ASSUME NEW k \in 0 .. Len(buffer[c]), WriteUpTo(c, NameIn(c), buffer[c], k)
      PROVE  Keep(c)
  BY <1>1, <1>2, <1>3, <1>4, WriteRefines DEF WriteUpTo
<1>5. CASE disk' = [disk EXCEPT ![NameIn(c)] = Overwritten(@, buffer[c])] /\ torn' = torn
  <2>1. Len(buffer[c]) \in 0 .. Len(buffer[c]) /\ SubSeq(buffer[c], 1, Len(buffer[c])) = buffer[c]
    BY <1>3, SubSeqFull
  <2>2. QED BY <1>1, <1>2, <1>3, <1>5, <2>1, WriteRefines
<1>6. CASE disk' = [disk EXCEPT ![NameIn(c)] = Created(@)] /\ torn' = torn
  BY <1>1, <1>2, <1>6 DEF Create
<1>7. \A k \in 0 .. Len(buffer[c]) - 1 : k \in 0 .. Len(buffer[c])
  BY <1>3
<1>8. CASE DataStore(c)
  <2>1. \/ disk' = [disk EXCEPT ![NameIn(c)] = Overwritten(@, buffer[c])] /\ torn' = torn
        \/ \E k \in 0 .. Len(buffer[c]) - 1 : WriteUpTo(c, NameIn(c), buffer[c], k)
        \/ disk' = [disk EXCEPT ![NameIn(c)] = Created(@)] /\ torn' = torn
        \/ UNCHANGED <<disk, torn>>
    BY <1>8 DEF DataStore
  <2>2. QED BY <1>2, <1>4, <1>5, <1>6, <1>7, <2>1
<1>9. CASE KilledInStore(c)
  BY <1>2, <1>4, <1>9 DEF KilledInStore
<1>10. QED BY <1>8, <1>9 DEF Stores

(* And it is true when it is promised.                                     *)
LEMMA StoreIsTrue ==
  ASSUME TypeOK, FilesWhole, NEW c \in Clients, Exchange(c), Connection(c), DataStore(c),
         disk' = [disk EXCEPT ![NameIn(c)] = Overwritten(@, buffer[c])]
  PROVE  StoredFor(c)'
<1>1. /\ NameIn(c) = name[c] /\ name[c] \in Names /\ name' = name
      /\ c \notin Cut => buffer[c] = File(name[c])
  BY StoreOutcome DEF DataStore, Stores
<1>2. CASE c \in Cut
  BY <1>1, <1>2 DEF StoredFor
<1>3. CASE c \notin Cut
  <2>1. ServiceTypeOK
    BY <1>1 DEF TypeOK, ServiceTypeOK
  <2>2. disk'[name[c]] = Overwritten(disk[name[c]], File(name[c]))
    BY <1>1, <1>3 DEF TypeOK
  <2>3. QED BY <1>1, <2>1, <2>2, WrittenIsStored
<1>4. QED BY <1>2, <1>3

-----------------------------------------------------------------------------
(* What clients are told                                                   *)

(* An answer that says "stored" is true.                                   *)
PromiseTrue(c) ==
  \A i \in DOMAIN toClient[c] : toClient[c][i].cmd = "FILE_STORED" => StoredFor(c)

(* A client is told that its file is stored when it is, and changes        *)
(* nothing else of the service.                                            *)
LEMMA ClientRefines ==
  ASSUME TypeOK, NEW c \in Clients, Exchange(c), Connection(c), PromiseTrue(c), ClientPart(c)
  PROVE  /\ UNCHANGED <<name, disk, torn>>
         /\ TellStored(c) \/ TellFailed(c) \/ UNCHANGED told
<1>1. CASE UNCHANGED transferVars
  BY <1>1 DEF transferVars
<1>2. ASSUME NEW cmd \in {"FILE_STORED", "STORED_ERROR", "ERROR"}, NEW what, Told(c, cmd, what)
      PROVE  /\ UNCHANGED <<name, disk, torn>> /\ told[c] = "nothing" /\ name[c] # NoName
             /\ told' = [told EXCEPT ![c] = what]
             /\ cmd = "FILE_STORED" => StoredFor(c)
  <2>1. Reply(c, cmd) /\ UNCHANGED <<name, disk, torn>> /\ told' = [told EXCEPT ![c] = what]
    BY <1>2 DEF Told
  <2>2. cpc[c] = "read" /\ got'[c].cmd = cmd /\ (Answered(c) \/ Again(c))
    BY <2>1, ReplyCases
  <2>3. Answered(c)
    BY <2>2 DEF Again, Connection
  <2>4. toClient[c] # <<>> /\ Head(toClient[c]).cmd = cmd
    BY <2>1, <2>3 DEF Answered, Reply
  <2>5. toClient[c] \in Seq(AnswerType)
    BY DEF TypeOK, ClientTypeOK, AnswerType
  <2>6. 1 \in DOMAIN toClient[c] /\ toClient[c][1].cmd = cmd
    BY <2>4, <2>5, EmptySeq
  <2>7. cmd = "FILE_STORED" => StoredFor(c)
    BY <2>6 DEF PromiseTrue
  <2>8. told[c] = "nothing" /\ name[c] # NoName
    BY <2>2, TransferAssumption DEF Connection
  <2>9. QED BY <2>1, <2>7, <2>8
<1>3. CASE Told(c, "FILE_STORED", "stored")
  BY <1>2, <1>3 DEF TellStored, StoredFor
<1>4. CASE Told(c, "STORED_ERROR", "failed") \/ Told(c, "ERROR", "failed")
  BY <1>2, <1>4 DEF TellFailed
<1>5. QED BY <1>1, <1>3, <1>4 DEF ClientPart, ClientLoop, Connect, ServerHello, PktReceived, ReplyFails

(* What an answer adds to a stream.                                        *)
LEMMA AnswerStream ==
  ASSUME TypeOK, NEW c \in Clients, Exchange(c), NEW read, read # "rest", Receive(c, read),
         NEW cmd, NEW s, NEW next, Answer(c, cmd, s, next)
  PROVE  toClient'[c] = toClient[c] \/ toClient'[c] = <<[cmd |-> cmd, seq |-> s]>>
<1>1. CASE Gone(c)
  BY <1>1 DEF Answer
<1>2. CASE ~Gone(c)
  <2>1. toClient'[c] = Append(toClient[c], [cmd |-> cmd, seq |-> s])
    BY <1>2, TypesDomains DEF Domains, Answer
  <2>2. toClient[c] = <<>>
    BY <1>2, ReceiveUnanswered
  <2>3. QED BY <2>1, <2>2, ShortStreams
<1>3. QED BY <1>1, <1>2

(* What the server promises is true when the file is.                      *)
LEMMA ServerPromise ==
  ASSUME TypeOK, NEW c \in Clients, Exchange(c), Connection(c), FilesWhole, ServerPart(c)
  PROVE  \/ toClient'[c] = toClient[c]
         \/ \E a : /\ toClient'[c] = <<a>>
                   /\ a.cmd = "FILE_STORED" => StoredFor(c)'
<1>1. ASSUME NEW read, read # "rest", Receive(c, read), NEW cmd, NEW s, NEW next,
             Answer(c, cmd, s, next), cmd = "FILE_STORED" => StoredFor(c)'
      PROVE  \/ toClient'[c] = toClient[c]
             \/ \E a : /\ toClient'[c] = <<a>>
                       /\ a.cmd = "FILE_STORED" => StoredFor(c)'
  <2>1. toClient'[c] = toClient[c] \/ toClient'[c] = <<[cmd |-> cmd, seq |-> s]>>
    BY <1>1, AnswerStream
  <2>2. [cmd |-> cmd, seq |-> s].cmd = cmd
    OBVIOUS
  <2>3. QED BY <1>1, <2>1, <2>2
<1>2. CASE ClientHello(c)
  BY <1>1, <1>2 DEF ClientHello
<1>3. CASE DataDelivery(c)
  BY <1>1, <1>3 DEF DataDelivery
<1>4. CASE DataStore(c)
  <2>1. Receive(c, "DATA_STORE")
    BY <1>4 DEF DataStore
  <2>2. CASE /\ disk' = [disk EXCEPT ![NameIn(c)] = Overwritten(@, buffer[c])]
             /\ Answer(c, "FILE_STORED", NextSeq(c), "leaving")
    BY <1>1, <1>4, <2>1, <2>2, StoreIsTrue
  <2>3. CASE torn' = torn \cup {c} /\ Answer(c, "FILE_STORED", NextSeq(c), "leaving")
    <3>1. StoredFor(c)'
      BY <2>3 DEF StoredFor
    <3>2. QED BY <1>1, <2>1, <2>3, <3>1
  <2>4. CASE Answer(c, "STORED_ERROR", NextSeq(c), "leaving")
    BY <1>1, <2>1, <2>4
  <2>5. QED BY <1>4, <2>2, <2>3, <2>4 DEF DataStore, WriteUpTo
<1>5. CASE ErrorReceived(c) \/ Unrecognized(c) \/ ReadFails(c) \/ ServerKilled(c) \/ KilledInStore(c)
  BY <1>5 DEF ErrorReceived, Unrecognized, ReadFails, ServerKilled, KilledInStore, netVars
<1>6. QED BY <1>2, <1>3, <1>4, <1>5 DEF ServerPart, ServerStep

(* A client only takes from its stream.                                    *)
LEMMA ClientPromise ==
  ASSUME TypeOK, NEW c \in Clients, Exchange(c), ClientPart(c)
  PROVE  toClient'[c] \in {toClient[c], <<>>}
<1>1. ASSUME NEW cmd, Reply(c, cmd) PROVE toClient'[c] = <<>>
  BY <1>1, ReplyCases DEF Answered, Again
<1>2. QED
  BY <1>1 DEF ClientPart, ClientLoop, Connect, ServerHello, PktReceived, ReplyFails, Told, netVars

(* What was promised to others is kept.                                    *)
LEMMA PromiseKept ==
  ASSUME TypeOK, [TransferNext]_transferVars, NEW d \in Clients, Connection(d), PromiseTrue(d),
         \/ toClient'[d] \in {toClient[d], <<>>}
         \/ \E a : /\ toClient'[d] = <<a>>
                   /\ a.cmd = "FILE_STORED" => StoredFor(d)'
  PROVE  PromiseTrue(d)'
<1>1. name[d] \in Names /\ ServiceTypeOK
  BY DEF Connection, TypeOK, ServiceTypeOK
<1>2. CASE toClient'[d] = toClient[d]
  <2>1. SUFFICES ASSUME NEW i \in DOMAIN toClient[d], toClient[d][i].cmd = "FILE_STORED"
                 PROVE  StoredFor(d)'
    BY <1>2 DEF PromiseTrue
  <2>2. StoredFor(d)
    BY <2>1 DEF PromiseTrue
  <2>3. QED BY <1>1, <2>2, StoredForStays
<1>3. CASE toClient'[d] = <<>>
  BY <1>3, ShortStreams DEF PromiseTrue
<1>4. CASE \E a : /\ toClient'[d] = <<a>>
                  /\ a.cmd = "FILE_STORED" => StoredFor(d)'
  BY <1>4, ShortStreams DEF PromiseTrue
<1>5. QED BY <1>2, <1>3, <1>4

-----------------------------------------------------------------------------
(* What the steps of all keep                                              *)

Agreement == TypeOK /\ Connections /\ FilesWhole

(* The service sees every step as one of its own, or as none.              *)
LEMMA StepsRefine ==
  ASSUME Agreement, NEW c \in Clients, Steps(c)
  PROVE  /\ name' = name
         /\ Keep(c) \/ Create(c) \/ UNCHANGED <<disk, torn>>
         /\ [TransferNext]_transferVars
<1>1. TypeOK /\ Exchange(c) /\ Connection(c) /\ PromiseTrue(c)
  BY DEF Agreement, Connections, PromiseTrue
<1>2. CASE ClientPart(c)
  BY <1>1, <1>2, ClientRefines DEF TransferNext, transferVars
<1>3. CASE ServerPart(c)
  <2>1. CASE Stores(c)
    BY <1>1, <2>1, StoreRefines DEF TransferNext, transferVars
  <2>2. CASE ~Stores(c)
    <3>1. UNCHANGED transferVars
      BY <1>3, <2>2 DEF Stores, ServerPart, ServerStep, ServerKilled, ClientHello, DataDelivery,
                        ErrorReceived, Unrecognized, ReadFails
    <3>2. QED BY <3>1 DEF transferVars
  <2>3. QED BY <2>1, <2>2
<1>4. CASE ClientKilled(c)
  BY <1>4 DEF ClientKilled, Kill, transferVars
<1>5. QED BY <1>2, <1>3, <1>4 DEF Steps

(* Every step of a client and its server keeps the agreement.              *)
LEMMA StepsKeep ==
  ASSUME Agreement, NEW c \in Clients, Steps(c)
  PROVE  Agreement' /\ [TransferNext]_transferVars
<1>1. /\ name' = name
      /\ Keep(c) \/ Create(c) \/ UNCHANGED <<disk, torn>>
      /\ [TransferNext]_transferVars
  BY StepsRefine
<1>2. /\ TypeOK /\ FilesWhole
      /\ \A d \in Clients : Exchange(d) /\ Connection(d) /\ PromiseTrue(d)
  BY DEF Agreement, Connections, PromiseTrue
<1>3. TypeOK'
  <2>1. name[c] \in Names
    BY <1>2 DEF Connection
  <2>2. Stores(c) => NameIn(c) \in Names
    BY <1>2, StoreOutcome
  <2>3. QED BY <1>2, <2>1, <2>2, ClientTypes, ServerTypes, KilledTypes DEF Steps
<1>4. FilesWhole'
  <2>1. ServiceTypeOK
    BY <1>2 DEF TypeOK, ServiceTypeOK
  <2>2. QED BY <1>1, <1>2, <2>1, FilesWholeStep
<1>5. ASSUME NEW d \in Clients, d # c
      PROVE  Exchange(d)' /\ Connection(d)' /\ PromiseTrue(d)'
  <2>1. Same(d)
    BY <1>2, <1>5, TypesDomains, StepsOthers
  <2>2. toClient'[d] = toClient[d]
    BY <2>1 DEF Same
  <2>3. PromiseTrue(d)'
    BY <1>1, <1>2, <2>2, PromiseKept
  <2>4. QED BY <1>2, <2>1, <2>3, SameKept
<1>6. Exchange(c)' /\ Connection(c)'
  BY <1>2, ClientKeeps, ServerKeeps, KilledKeeps DEF Steps
<1>7. PromiseTrue(c)'
  <2>1. CASE ClientPart(c)
    BY <1>1, <1>2, <2>1, ClientPromise, PromiseKept
  <2>2. CASE ServerPart(c)
    BY <1>1, <1>2, <2>2, ServerPromise, PromiseKept
  <2>3. CASE ClientKilled(c)
    <3>1. toClient'[c] = toClient[c]
      BY <2>3 DEF ClientKilled, Kill
    <3>2. QED BY <1>1, <1>2, <3>1, PromiseKept
  <2>4. QED BY <2>1, <2>2, <2>3 DEF Steps
<1>8. Connections'
  BY <1>5, <1>6, <1>7 DEF Connections, PromiseTrue
<1>9. QED BY <1>1, <1>3, <1>4, <1>8 DEF Agreement

(* The steps of a client and its server neither start a server nor close a *)
(* connection, and the client connects once.                               *)
LEMMA StepsControl ==
  ASSUME TypeOK, NEW c \in Clients, Steps(c)
  PROVE  /\ closed' = closed
         /\ \A d \in Clients : /\ spc'[d] = "none" <=> spc[d] = "none"
                               /\ spc[d] = "exited" => spc'[d] = "exited"
         /\ \/ /\ backlog' = backlog
               /\ \A d \in Clients : cpc'[d] = "start" => cpc[d] = "start"
            \/ /\ backlog' = Append(backlog, c) /\ cpc[c] = "start" /\ cpc'[c] = "read"
               /\ \A d \in Clients : d # c => cpc'[d] = cpc[d]
<1>1. \A d \in Clients : /\ spc'[d] = "none" <=> spc[d] = "none"
                         /\ spc[d] = "exited" => spc'[d] = "exited"
  <2>1. CASE ClientPart(c) \/ ClientKilled(c)
    BY <2>1 DEF ClientPart, ClientKilled, serverVars
  <2>2. CASE ServerPart(c)
    <3>1. spc[c] = "serve"
      BY <2>2 DEF ServerPart, ServerStep, ServerKilled, KilledInStore, ClientHello, DataDelivery, DataStore,
                  ErrorReceived, Unrecognized, ReadFails, Receive
    <3>2. ASSUME NEW cmd, NEW s, NEW next \in {"serve", "leaving"}, Answer(c, cmd, s, next)
          PROVE  \E q \in {"serve", "leaving"} : spc' = [spc EXCEPT ![c] = q]
      BY <3>2 DEF Answer
    <3>3. spc' = spc \/ \E q \in {"serve", "leaving"} : spc' = [spc EXCEPT ![c] = q]
      BY <2>2, <3>2 DEF ServerPart, ServerStep, ServerKilled, KilledInStore, ClientHello, DataDelivery, DataStore,
                        ErrorReceived, Unrecognized, ReadFails
    <3>4. spc \in [Clients -> {"none", "serve", "leaving", "exited"}]
      BY DEF TypeOK
    <3>5. QED BY <3>1, <3>3, <3>4
  <2>3. QED BY <2>1, <2>2 DEF Steps
<1>2. closed' = closed
  BY DEF Steps, ClientPart, Connect, ClientLoop, ServerHello, PktReceived, ReplyFails, Told,
         ServerPart, ServerStep, ServerKilled, KilledInStore, ClientHello, DataDelivery, DataStore,
         ErrorReceived, Unrecognized, ReadFails, ClientKilled, Kill
<1>3. \/ /\ backlog' = backlog
         /\ \A d \in Clients : cpc'[d] = "start" => cpc[d] = "start"
      \/ /\ backlog' = Append(backlog, c) /\ cpc[c] = "start" /\ cpc'[c] = "read"
         /\ \A d \in Clients : d # c => cpc'[d] = cpc[d]
  <2>1. CASE Connect(c)
    BY <2>1, TypesDomains DEF Domains, Connect
  <2>2. CASE ~Connect(c)
    <3>1. backlog' = backlog
      BY <2>2 DEF Steps, ClientPart, ClientLoop, ServerHello, PktReceived, ReplyFails, Told,
           ServerPart, ServerStep, ServerKilled, KilledInStore, ClientHello, DataDelivery, DataStore,
           ErrorReceived, Unrecognized, ReadFails, ClientKilled, Kill
    <3>2. CASE ClientPart(c)
      <4>1. \A p : Send(c, p) => \A d \in Clients : cpc'[d] = "start" => cpc[d] = "start"
        BY TypesDomains DEF Domains, Send
      <4>2. \A d \in Clients : cpc'[d] = "start" => cpc[d] = "start"
        BY <2>2, <3>2, <4>1, TypesDomains DEF Domains, ClientPart, ClientLoop, ServerHello, PktReceived,
           ReplyFails, Told, SendBlock, FileError
      <4>3. QED BY <3>1, <4>2
    <3>3. CASE ServerPart(c)
      <4>1. cpc' = cpc
        BY <3>3 DEF ServerPart, ServerStep, ServerKilled, KilledInStore, ClientHello, DataDelivery, DataStore,
           ErrorReceived, Unrecognized, ReadFails, clientVars
      <4>2. QED BY <3>1, <4>1
    <3>4. CASE ClientKilled(c)
      BY <3>1, <3>4 DEF ClientKilled, Kill
    <3>5. QED BY <3>2, <3>3, <3>4 DEF Steps
  <2>3. QED BY <2>1, <2>2
<1>4. QED BY <1>1, <1>2, <1>3

(* A step that touches neither the streams nor what is done with them      *)
(* changes nothing of the agreement: a connection may be accepted, closed  *)
(* when it has no server, or closed by a server that has left its loop.    *)
LEMMA AgreementStays ==
  ASSUME Agreement,
         UNCHANGED <<got, pos, toServer, toClient, recv, buffer, seq, name, disk, told, torn>>,
         TypeOK', closed \subseteq closed',
         \A d \in Clients :
            /\ cpc'[d] = cpc[d] \/ (cpc[d] = "start" /\ cpc'[d] = "exited")
            /\ \/ spc'[d] = spc[d]
               \/ spc[d] = "none" /\ spc'[d] = "serve"
               \/ spc'[d] = "exited"
            /\ spc'[d] = "serve" => d \notin closed'
  PROVE  Agreement'
<1>1. ASSUME NEW d \in Clients
      PROVE  Exchange(d)' /\ Connection(d)' /\ PromiseTrue(d)'
  <2>1. Exchange(d) /\ Connection(d) /\ PromiseTrue(d)
    BY DEF Agreement, Connections, PromiseTrue
  <2>2. UNCHANGED <<got, pos, toServer, toClient, recv, buffer, seq, name, disk, told, torn>>
    OBVIOUS
  <2>3. /\ cpc'[d] = cpc[d] \/ (cpc[d] = "start" /\ cpc'[d] = "exited")
        /\ \/ spc'[d] = spc[d]
           \/ spc[d] = "none" /\ spc'[d] = "serve"
           \/ spc'[d] = "exited"
        /\ spc'[d] = "serve" => d \notin closed'
        /\ d \in closed => d \in closed'
    OBVIOUS
  <2>4. Asking(d)' = Asking(d) /\ Idle(d)' = Idle(d)
    BY <2>2 DEF Asking, Idle, IsRequest, Asked
  <2>5. Exchange(d)'
    <3>1. cpc[d] = "start" => Idle(d) /\ toClient[d] = <<>>
      BY <2>1 DEF Connection, Idle
    <3>2. QED BY <2>1, <2>2, <2>3, <2>4, <3>1 DEF Exchange
  <2>6. /\ NoMore(d)' = NoMore(d) /\ InFlight(d)' = InFlight(d)
        /\ Together(d)' => Together(d)
    <3>1. NoMore(d)' = NoMore(d) /\ InFlight(d)' = InFlight(d)
      BY <2>2 DEF NoMore, InFlight
    <3>2. Together(d)' => Together(d)
      BY <2>2, <2>3 DEF Together
    <3>3. QED BY <3>1, <3>2
  <2>7. Connection(d)'
    BY <2>1, <2>2, <2>3, <2>6 DEF Connection
  <2>8. PromiseTrue(d)'
    BY <2>1, <2>2 DEF PromiseTrue, StoredFor, Stored
  <2>9. QED BY <2>5, <2>7, <2>8
<1>2. Connections'
  BY <1>1 DEF Connections, PromiseTrue
<1>3. FilesWhole'
  BY DEF Agreement, FilesWhole, Stored
<1>4. QED BY <1>2, <1>3 DEF Agreement

-----------------------------------------------------------------------------
(* The server of p1                                                        *)

(* What the server of p1 adds to it.                                       *)
FileInv == Agreement /\ OneServed

(* The connection that is accepted is the first one.                       *)
LEMMA AcceptKeeps ==
  ASSUME FileInv, NEW c \in Clients, Accept(c)
  PROVE  FileInv' /\ UNCHANGED transferVars
<1>1. /\ UNCHANGED <<cpc, got, pos, toServer, toClient, reset, closed, recv, buffer, seq, name, disk, told, torn>>
      /\ spc' = [spc EXCEPT ![c] = "serve"] /\ backlog' = Tail(backlog) /\ backlog # <<>>
      /\ \A d \in Clients : spc[d] = "none"
  BY DEF Accept, clientVars, netVars, transferVars
<1>2. closed = {}
  BY <1>1 DEF FileInv, OneServed
<1>3. TypeOK /\ spc \in [Clients -> {"none", "serve", "leaving", "exited"}]
  BY DEF FileInv, Agreement, TypeOK
<1>4. TypeOK'
  <2>1. backlog' \in Seq(Clients)
    BY <1>1, <1>3 DEF TypeOK, ClientTypeOK
  <2>2. spc' \in [Clients -> {"none", "serve", "leaving", "exited"}]
    BY <1>1, <1>3
  <2>3. QED BY <1>1, <1>3, <2>1, <2>2 DEF TypeOK, ClientTypeOK
<1>5. Agreement'
  <2>1. \A d \in Clients : /\ cpc'[d] = cpc[d]
                           /\ spc'[d] = spc[d] \/ (spc[d] = "none" /\ spc'[d] = "serve")
    BY <1>1, <1>3
  <2>2. closed' = {}
    BY <1>1, <1>2
  <2>3. QED BY <1>1, <1>2, <1>4, <2>1, <2>2, AgreementStays DEF FileInv
<1>6. OneServed'
  BY <1>1, <1>2, <1>3 DEF OneServed
<1>7. QED BY <1>1, <1>5, <1>6 DEF FileInv, transferVars

(* The server ends with its connection, and resets the others.             *)
LEMMA ServerEndsKeeps ==
  ASSUME FileInv, NEW c \in Clients, ServerEnds(c)
  PROVE  FileInv' /\ UNCHANGED transferVars
<1>1. /\ UNCHANGED <<cpc, got, pos, toServer, toClient, recv, buffer, seq, name, disk, told, torn>>
      /\ spc[c] = "leaving" /\ spc' = [spc EXCEPT ![c] = "exited"] /\ backlog' = <<>>
      /\ closed' = closed \cup {c} \cup Waiting
      /\ reset' = ResetIfUnread(c, toServer[c]) \cup Waiting
  BY DEF ServerEnds, clientVars, transferVars
<1>2. TypeOK /\ spc \in [Clients -> {"none", "serve", "leaving", "exited"}]
  BY DEF FileInv, Agreement, TypeOK
<1>3. \A d \in Clients : d # c => spc[d] = "none"
  <2>1. SUFFICES ASSUME NEW d \in Clients, spc[d] # "none" PROVE d = c
    OBVIOUS
  <2>2. spc[c] # "none"
    BY <1>1
  <2>3. QED BY <2>1, <2>2 DEF FileInv, OneServed
<1>4. TypeOK'
  <2>1. Waiting \subseteq Clients
    <3>1. backlog \in Seq(Clients)
      BY <1>2 DEF TypeOK, ClientTypeOK
    <3>2. QED BY <3>1, ElementOfSeq DEF Waiting
  <2>2. spc' \in [Clients -> {"none", "serve", "leaving", "exited"}]
    BY <1>1, <1>2
  <2>3. closed' \subseteq Clients /\ reset' \subseteq Clients
    BY <1>1, <1>2, <2>1 DEF TypeOK, ClientTypeOK, ResetIfUnread
  <2>4. backlog' \in Seq(Clients)
    BY <1>1, EmptySeq
  <2>5. QED BY <1>1, <1>2, <2>2, <2>3, <2>4 DEF TypeOK, ClientTypeOK
<1>5. Agreement'
  <2>1. ASSUME NEW d \in Clients
        PROVE  /\ cpc'[d] = cpc[d] /\ spc'[d] # "serve"
               /\ spc'[d] = spc[d] \/ (spc[d] = "leaving" /\ spc'[d] = "exited")
    <3>1. CASE d = c
      BY <1>1, <1>2, <3>1
    <3>2. CASE d # c
      BY <1>1, <1>2, <1>3, <3>2
    <3>3. QED BY <3>1, <3>2
  <2>2. closed \subseteq closed'
    BY <1>1
  <2>3. QED BY <1>1, <1>4, <2>1, <2>2, AgreementStays DEF FileInv
<1>6. OneServed'
  <2>1. spc'[c] = "exited" /\ \A d \in Clients : d # c => spc'[d] = "none"
    BY <1>1, <1>2, <1>3
  <2>2. QED BY <2>1 DEF OneServed
<1>7. QED BY <1>1, <1>5, <1>6 DEF FileInv, transferVars

(* A client that is refused had sent nothing.                              *)
LEMMA RefusedKeeps ==
  ASSUME FileInv, NEW c \in Clients, Refused(c)
  PROVE  FileInv' /\ UNCHANGED transferVars
<1>1. /\ UNCHANGED <<got, pos, backlog, toServer, toClient, reset, closed>>
      /\ UNCHANGED <<spc, recv, buffer, seq, name, disk, told, torn>>
      /\ cpc[c] = "start" /\ cpc' = [cpc EXCEPT ![c] = "exited"]
  BY DEF Refused, netVars, transferVars, serverVars
<1>2. TypeOK /\ cpc \in [Clients -> {"start", "read", "exited", "killed"}]
  BY DEF FileInv, Agreement, TypeOK, ClientTypeOK
<1>3. TypeOK'
  <2>1. cpc' \in [Clients -> {"start", "read", "exited", "killed"}]
    BY <1>1, <1>2
  <2>2. QED BY <1>1, <1>2, <2>1 DEF TypeOK, ClientTypeOK
<1>4. Agreement'
  <2>1. \A d \in Clients : cpc'[d] = cpc[d] \/ (cpc[d] = "start" /\ cpc'[d] = "exited")
    BY <1>1, <1>2
  <2>2. \A d \in Clients : spc[d] = "serve" => d \notin closed
    BY DEF FileInv, Agreement, Connections, Connection
  <2>3. QED BY <1>1, <1>3, <2>1, <2>2, AgreementStays DEF FileInv
<1>5. OneServed'
  BY <1>1 DEF FileInv, OneServed
<1>6. QED BY <1>1, <1>4, <1>5 DEF FileInv, transferVars

(* The other steps are those of a client and its server.                   *)
LEMMA StepsServed ==
  ASSUME TypeOK, OneServed, NEW c \in Clients, Steps(c)
  PROVE  OneServed'
BY StepsControl DEF OneServed

(* Every step of FileTransfer keeps the invariant, and is a step of the    *)
(* service or none.                                                        *)
LEMMA FileStep ==
  ASSUME FileInv, [Next]_transferAll
  PROVE  FileInv' /\ [TransferNext]_transferVars
<1>1. CASE UNCHANGED transferAll
  <2>1. UNCHANGED <<cpc, got, pos, backlog, toServer, toClient, reset, closed, spc, recv, buffer, seq,
                    name, disk, told, torn>>
    BY <1>1 DEF transferAll, clientVars, netVars, transferVars, serverVars
  <2>2. TypeOK' /\ OneServed'
    BY <2>1 DEF FileInv, Agreement, TypeOK, ClientTypeOK, OneServed
  <2>3. \A d \in Clients : spc[d] = "serve" => d \notin closed
    BY DEF FileInv, Agreement, Connections, Connection
  <2>4. Agreement'
    BY <2>1, <2>2, <2>3, AgreementStays DEF FileInv
  <2>5. QED BY <2>1, <2>2, <2>4 DEF FileInv, transferVars
<1>2. ASSUME NEW c \in Clients, Steps(c)
      PROVE  FileInv' /\ [TransferNext]_transferVars
  <2>1. TypeOK
    BY DEF FileInv, Agreement
  <2>2. QED BY <1>2, <2>1, StepsKeep, StepsServed DEF FileInv
<1>3. ASSUME NEW c \in Clients, Accept(c) \/ ServerEnds(c) \/ Refused(c)
      PROVE  FileInv' /\ [TransferNext]_transferVars
  BY <1>3, AcceptKeeps, ServerEndsKeeps, RefusedKeeps
<1>4. ASSUME NEW c \in Clients, Client(c)
      PROVE  ClientPart(c)
  BY <1>4 DEF Client, ClientPart
<1>5. QED BY <1>1, <1>2, <1>3, <1>4 DEF Next, Steps, ServerPart

(* In the beginning nobody has connected.                                  *)
LEMMA FileInit == Init => FileInv
<1> SUFFICES ASSUME Init PROVE FileInv
  OBVIOUS
<1> USE DEF Init, TransferInit, ClientInit, ServerInit
<1>1. TypeOK
  <2>1. 0 \in 0 .. SEQ_SIZE - 1
    BY ClientAssumption
  <2>2. NoAnswer \in [cmd : Answers \cup {"none"}, seq : 0 .. SEQ_SIZE - 1]
    BY <2>1 DEF NoAnswer
  <2>3. NoPacket \in [cmd : Commands \cup {"rest", "none"}, data : Seq(Block)]
    BY EmptySeq DEF NoPacket, Packet
  <2>4. ClientTypeOK
    BY <2>2, EmptySeq DEF ClientTypeOK
  <2>5. QED BY <2>1, <2>3, <2>4, TransferAssumption, EmptySeq DEF TypeOK
<1>2. FilesWhole
  BY ServiceInit
<1>3. ASSUME NEW c \in Clients
      PROVE  Exchange(c) /\ Connection(c) /\ PromiseTrue(c)
  <2>1. name[c] \in Names /\ Size[name[c]] \in Nat
    BY TransferAssumption
  <2>2. /\ cpc[c] = "start" /\ toServer[c] = <<>> /\ toClient[c] = <<>> /\ pos[c] = 0
        /\ buffer[c] = <<>> /\ got[c].cmd = "none" /\ told[c] = "nothing" /\ spc[c] = "none"
        /\ recv[c].cmd = "none"
    BY DEF NoAnswer, NoPacket, Packet
  <2>3. Exchange(c)
    BY <2>2 DEF Exchange, Idle
  <2>4. PromiseTrue(c)
    BY <2>2, ShortStreams DEF PromiseTrue
  <2>5. buffer[c] \o InFlight(c) = SubSeq(File(name[c]), 1, pos[c])
    <3>1. InFlight(c) = <<>>
      BY <2>2 DEF InFlight
    <3>2. SubSeq(File(name[c]), 1, 0) = <<>>
      BY SubSeqEmpty
    <3>3. <<>> \o <<>> = <<>>
      BY EmptySeq, ConcatEmptySeq
    <3>4. QED BY <2>2, <3>1, <3>2, <3>3
  <2>6. Connection(c)
    BY <2>1, <2>2, <2>5, ShortStreams DEF Connection
  <2>7. QED BY <2>3, <2>4, <2>6
<1>4. OneServed
  BY DEF OneServed
<1>5. QED BY <1>1, <1>2, <1>3, <1>4 DEF FileInv, Agreement, Connections, PromiseTrue

-----------------------------------------------------------------------------
(* The theorems                                                            *)

(* What the properties say follows from the invariant.                     *)
LEMMA FileInvImplies ==
  ASSUME FileInv
  PROVE  Inv /\ BufferMatches
<1>1. TypeOK /\ Connections /\ OneServed
  BY DEF FileInv, Agreement
<1>2. ASSUME NEW c \in Clients \ Cut, cpc[c] = "read", spc[c] = "serve"
      PROVE  buffer[c] \o InFlight(c) = SubSeq(File(name[c]), 1, pos[c])
  BY <1>1, <1>2 DEF Connections, Connection, Together
<1>3. ASSUME NEW c \in Clients \ Cut, cpc[c] = "read", spc[c] = "serve"
      PROVE  Len(toServer[c]) + Len(toClient[c]) = 1
  <2>1. Exchange(c) /\ Connection(c) /\ c \notin Cut /\ c \notin closed
    BY <1>1, <1>3 DEF Connections, Connection
  <2>2. CASE Asking(c) /\ toClient[c] = <<>>
    <3>1. Len(toServer[c]) = 1
      BY <2>1, <2>2, ShortStreams DEF Asking, Asked
    <3>2. QED BY <1>3, <2>2, <3>1, ShortStreams
  <2>3. CASE Idle(c) /\ Len(toClient[c]) = 1
    <3>1. Len(toServer[c]) = 0
      BY <2>1, <2>3, ShortStreams DEF Idle
    <3>2. QED BY <1>3, <2>3, <3>1
  <2>4. QED BY <1>3, <2>1, <2>2, <2>3 DEF Exchange
<1>4. OneAnswerDue /\ BufferMatches
  BY <1>2, <1>3 DEF OneAnswerDue, BufferMatches
<1>5. QED BY <1>1, <1>4 DEF Inv

(* Every behaviour of the server of p1 and its clients keeps the types,    *)
(* the one packet or answer of stop and wait, and what makes it inductive. *)
THEOREM FileTransferInv == Spec => []Inv
<1>1. FileInv /\ [Next]_transferAll => FileInv'
  BY FileStep
<1>2. FileInv => Inv
  BY FileInvImplies
<1>3. QED BY FileInit, <1>1, <1>2, PTL DEF Spec

(* While a client whose packets are not cut is there, its server has every *)
(* block it has read from its file, once and in order, whatever other      *)
(* clients and their ends do.                                              *)
THEOREM FileTransferBuffer == Spec => []BufferMatches
<1>1. FileInv /\ [Next]_transferAll => FileInv'
  BY FileStep
<1>2. FileInv => BufferMatches
  BY FileInvImplies
<1>3. QED BY FileInit, <1>1, <1>2, PTL DEF Spec

(* The server of p1 implements the service: what it does to its files and  *)
(* tells its clients are steps of TransferService, also when write() comes *)
(* short without an error or the server is killed in the middle of it.     *)
THEOREM FileTransferRefines == Spec => ImplementsTransferService
<1>1. Init => FileInv /\ TransferInit
  BY FileInit DEF Init
<1>2. FileInv /\ [Next]_transferAll => FileInv' /\ [TransferNext]_transferVars
  BY FileStep
<1>3. QED BY <1>1, <1>2, PTL DEF Spec, ImplementsTransferService, TransferSafety

(* So a client of it that is told "stored" has its whole file there, unless*)
(* the write of this file came short, which the server does not notice, or *)
(* the packets of a client that sends the same file may be cut.            *)
THEOREM FileTransferStored == Spec => []StoredIsSent
<1>1. Spec => TransferSafety
  BY FileTransferRefines DEF ImplementsTransferService
<1>2. QED BY <1>1, ServiceStoredIsSent, PTL

(* And a transfer that is given up before write() leaves nothing of a file *)
(* but its name; one whose write() is short or killed leaves a beginning   *)
(* of it over the old file, never a part from elsewhere or out of order.   *)
THEOREM FileTransferWhole == Spec => []FilesWhole
<1>1. Spec => TransferSafety
  BY FileTransferRefines DEF ImplementsTransferService
<1>2. QED BY <1>1, ServiceFilesWhole, PTL

-----------------------------------------------------------------------------
(* The parent of MultiServer                                               *)

(* The parent has taken its connection off the queue and not yet started   *)
(* a child for it, or has; the queue holds the others that have connected, *)
(* once each; a connection is closed when its child has exited.            *)
ParentInv ==
  /\ ppc \in {"accept", "fork", "close"}
  /\ ppc # "accept" => cur \in Clients
  /\ ppc = "fork" => spc[cur] = "none" /\ cpc[cur] # "start" /\ cur \notin Waiting
  /\ \A c \in Waiting : spc[c] = "none" /\ cpc[c] # "start"
  /\ \A i, j \in DOMAIN backlog : backlog[i] = backlog[j] => i = j
  /\ \A c \in Clients : cpc[c] = "start" => spc[c] = "none"
  /\ \A c \in closed : spc[c] = "exited"

MultiInv == Agreement /\ ParentInv

(* The head of a queue, and the rest.                                      *)
LEMMA QueueHead ==
  ASSUME NEW S, NEW q \in Seq(S), q # <<>>, \A i, j \in DOMAIN q : q[i] = q[j] => i = j
  PROVE  /\ Head(q) \in S /\ Tail(q) \in Seq(S) /\ 1 \in DOMAIN q /\ Head(q) = q[1]
         /\ \A i, j \in DOMAIN Tail(q) : Tail(q)[i] = Tail(q)[j] => i = j
         /\ \A i \in DOMAIN Tail(q) : /\ i + 1 \in DOMAIN q
                                      /\ Tail(q)[i] = q[i + 1] /\ Tail(q)[i] # Head(q)
<1>1. /\ Head(q) \in S /\ Tail(q) \in Seq(S) /\ Head(q) = q[1]
      /\ Len(Tail(q)) = Len(q) - 1
      /\ \A i \in 1 .. Len(Tail(q)) : Tail(q)[i] = q[i + 1]
  BY HeadTailProperties
<1>2. DOMAIN q = 1 .. Len(q) /\ DOMAIN Tail(q) = 1 .. Len(Tail(q)) /\ Len(q) \in Nat /\ Len(q) # 0
  BY <1>1, EmptySeq
<1>3. 1 \in DOMAIN q /\ \A i \in DOMAIN Tail(q) : i \in Nat /\ i + 1 \in DOMAIN q /\ i + 1 # 1
  BY <1>1, <1>2
<1>4. \A i \in DOMAIN Tail(q) : Tail(q)[i] = q[i + 1]
  BY <1>1, <1>2
<1>5. \A i \in DOMAIN Tail(q) : Tail(q)[i] # Head(q)
  BY <1>1, <1>3, <1>4
<1>6. \A i, j \in DOMAIN Tail(q) : Tail(q)[i] = Tail(q)[j] => i = j
  <2>1. SUFFICES ASSUME NEW i \in DOMAIN Tail(q), NEW j \in DOMAIN Tail(q), Tail(q)[i] = Tail(q)[j]
                 PROVE  i = j
    OBVIOUS
  <2>2. i + 1 = j + 1
    BY <1>3, <1>4, <2>1
  <2>3. QED BY <1>3, <2>2
<1>7. QED BY <1>1, <1>3, <1>4, <1>5, <1>6

(* The types of a step of the parent or of the end of a child.             *)
LEMMA ParentTypes ==
  ASSUME TypeOK,
         UNCHANGED <<cpc, got, pos, toServer, toClient, recv, buffer, seq, name, disk, told, torn>>,
         spc' = spc \/ \E c \in Clients, p \in {"serve", "exited"} : spc' = [spc EXCEPT ![c] = p],
         backlog' \in Seq(Clients), closed' \subseteq Clients, reset' \subseteq Clients
  PROVE  TypeOK'
<1>1. spc' \in [Clients -> {"none", "serve", "leaving", "exited"}]
  BY DEF TypeOK
<1>2. QED BY <1>1 DEF TypeOK, ClientTypeOK

(* accept() takes the first connection of the queue.                       *)
LEMMA ParentAcceptKeeps ==
  ASSUME MultiInv, ParentAccept
  PROVE  MultiInv' /\ UNCHANGED transferVars
<1>1. /\ UNCHANGED <<cpc, got, pos, toServer, toClient, reset, closed>>
      /\ UNCHANGED <<spc, recv, buffer, seq, name, disk, told, torn>>
      /\ backlog # <<>> /\ backlog' = Tail(backlog) /\ cur' = Head(backlog) /\ ppc' = "fork"
  BY DEF ParentAccept, clientVars, netVars, transferVars, serverVars
<1>2. TypeOK /\ backlog \in Seq(Clients) /\ closed \subseteq Clients /\ reset \subseteq Clients
  BY DEF MultiInv, Agreement, TypeOK, ClientTypeOK
<1>3. /\ Head(backlog) \in Clients /\ Tail(backlog) \in Seq(Clients)
      /\ 1 \in DOMAIN backlog /\ Head(backlog) = backlog[1]
      /\ \A i, j \in DOMAIN Tail(backlog) : Tail(backlog)[i] = Tail(backlog)[j] => i = j
      /\ \A i \in DOMAIN Tail(backlog) :
            /\ i + 1 \in DOMAIN backlog
            /\ Tail(backlog)[i] = backlog[i + 1] /\ Tail(backlog)[i] # Head(backlog)
  BY <1>1, <1>2, QueueHead DEF MultiInv, ParentInv
<1>4. TypeOK'
  BY <1>1, <1>2, <1>3, ParentTypes
<1>5. \A d \in Clients : spc[d] = "serve" => d \notin closed
  BY DEF MultiInv, Agreement, Connections, Connection
<1>6. Agreement'
  BY <1>1, <1>4, <1>5, AgreementStays DEF MultiInv
<1>7. Waiting' = {Tail(backlog)[i] : i \in DOMAIN Tail(backlog)}
  BY <1>1 DEF Waiting
<1>8. Waiting' \subseteq Waiting /\ Head(backlog) \in Waiting /\ Head(backlog) \notin Waiting'
  <2>1. \A i \in DOMAIN backlog : backlog[i] \in Waiting
    BY DEF Waiting
  <2>2. \A i \in DOMAIN Tail(backlog) : Tail(backlog)[i] \in Waiting /\ Tail(backlog)[i] # Head(backlog)
    BY <1>3, <2>1
  <2>3. QED BY <1>3, <1>7, <2>1, <2>2
<1>9. ParentInv'
  BY <1>1, <1>3, <1>8 DEF MultiInv, ParentInv
<1>10. QED BY <1>1, <1>6, <1>9 DEF MultiInv, transferVars

(* A child is started for it, or could not be.                             *)
LEMMA ForkKeeps ==
  ASSUME MultiInv, Fork
  PROVE  MultiInv' /\ UNCHANGED transferVars
<1>1. /\ UNCHANGED <<cpc, got, pos, toServer, toClient, reset, closed, backlog>>
      /\ UNCHANGED <<recv, buffer, seq, name, disk, told, torn, cur>>
      /\ ppc = "fork" /\ ppc' = "close"
  BY DEF Fork, clientVars, netVars, transferVars
<1>2. PICK p \in {"serve", "exited"} : spc' = [spc EXCEPT ![cur] = p]
  BY DEF Fork
<1>3. /\ TypeOK /\ backlog \in Seq(Clients) /\ closed \subseteq Clients /\ reset \subseteq Clients
      /\ spc \in [Clients -> {"none", "serve", "leaving", "exited"}]
  BY DEF MultiInv, Agreement, TypeOK, ClientTypeOK
<1>4. cur \in Clients /\ spc[cur] = "none" /\ cpc[cur] # "start" /\ cur \notin Waiting /\ cur \notin closed
  BY <1>1 DEF MultiInv, ParentInv
<1>5. TypeOK'
  BY <1>1, <1>2, <1>3, <1>4, ParentTypes
<1>6. spc'[cur] = p /\ \A d \in Clients : d # cur => spc'[d] = spc[d]
  BY <1>2, <1>3, <1>4
<1>7. Agreement'
  <2>1. \A d \in Clients : spc[d] = "serve" => d \notin closed
    BY DEF MultiInv, Agreement, Connections, Connection
  <2>2. ASSUME NEW d \in Clients
        PROVE  /\ \/ spc'[d] = spc[d]
                  \/ spc[d] = "none" /\ spc'[d] = "serve"
                  \/ spc'[d] = "exited"
               /\ spc'[d] = "serve" => d \notin closed
    BY <1>4, <1>6, <2>1
  <2>3. QED BY <1>1, <1>5, <2>2, AgreementStays DEF MultiInv
<1>8. ParentInv'
  <2>1. Waiting' = Waiting /\ Waiting \subseteq Clients
    BY <1>1, <1>3, ElementOfSeq DEF Waiting
  <2>2. QED BY <1>1, <1>3, <1>4, <1>6, <2>1 DEF MultiInv, ParentInv
<1>9. QED BY <1>1, <1>7, <1>8 DEF MultiInv, transferVars

(* The types of a hangup.                                                  *)
LEMMA HangupTypes ==
  ASSUME TypeOK, NEW c \in Clients, Hangup(c)
  PROVE  closed' \subseteq Clients /\ reset' \subseteq Clients
BY DEF Hangup, ResetIfUnread, TypeOK, ClientTypeOK

(* The last descriptor is closed when the child has exited.                *)
LEMMA ParentClosesKeeps ==
  ASSUME MultiInv, ParentCloses
  PROVE  MultiInv' /\ UNCHANGED transferVars
<1>1. /\ UNCHANGED <<cpc, got, pos, toServer, toClient, backlog, spc, recv, buffer, seq, name, disk, told, torn>>
      /\ ppc = "close" /\ ppc' = "accept"
      /\ \/ spc[cur] = "exited" /\ Hangup(cur)
         \/ UNCHANGED <<closed, reset>>
  BY DEF ParentCloses, clientVars, transferVars, serverVars
<1>2. /\ TypeOK /\ backlog \in Seq(Clients) /\ closed \subseteq Clients /\ reset \subseteq Clients
      /\ cur \in Clients
  BY <1>1 DEF MultiInv, Agreement, TypeOK, ClientTypeOK, ParentInv
<1>3. closed' \subseteq Clients /\ reset' \subseteq Clients
  BY <1>1, <1>2, HangupTypes
<1>4. TypeOK'
  BY <1>1, <1>2, <1>3, ParentTypes
<1>5. closed \subseteq closed' /\ \A d \in closed' : spc[d] = "exited"
  BY <1>1 DEF Hangup, MultiInv, ParentInv
<1>6. Agreement'
  <2>1. \A d \in Clients : spc[d] = "serve" => d \notin closed'
    BY <1>5
  <2>2. QED BY <1>1, <1>4, <1>5, <2>1, AgreementStays DEF MultiInv
<1>7. ParentInv'
  <2>1. Waiting' = Waiting
    BY <1>1 DEF Waiting
  <2>2. QED BY <1>1, <1>5, <2>1 DEF MultiInv, ParentInv
<1>8. QED BY <1>1, <1>6, <1>7 DEF MultiInv, transferVars

(* A child exits.                                                          *)
LEMMA ChildExitsKeeps ==
  ASSUME MultiInv, NEW c \in Clients, ChildExits(c)
  PROVE  MultiInv' /\ UNCHANGED transferVars
<1>1. /\ UNCHANGED <<cpc, got, pos, toServer, toClient, backlog>>
      /\ UNCHANGED <<recv, buffer, seq, name, disk, told, torn, ppc, cur>>
      /\ spc[c] = "leaving" /\ spc' = [spc EXCEPT ![c] = "exited"]
      /\ Hangup(c) \/ UNCHANGED <<closed, reset>>
  BY DEF ChildExits, clientVars, transferVars, parentVars
<1>2. /\ TypeOK /\ backlog \in Seq(Clients) /\ closed \subseteq Clients /\ reset \subseteq Clients
      /\ spc \in [Clients -> {"none", "serve", "leaving", "exited"}]
  BY <1>1 DEF MultiInv, Agreement, TypeOK, ClientTypeOK
<1>3. closed' \subseteq Clients /\ reset' \subseteq Clients
  BY <1>1, <1>2, HangupTypes
<1>4. TypeOK'
  BY <1>1, <1>2, <1>3, ParentTypes
<1>5. spc'[c] = "exited" /\ \A d \in Clients : d # c => spc'[d] = spc[d]
  BY <1>1, <1>2
<1>6. closed \subseteq closed' /\ \A d \in closed' : spc'[d] = "exited"
  <2>1. \A d \in closed : spc[d] = "exited"
    BY DEF MultiInv, ParentInv
  <2>2. closed' = closed \cup {c} \/ closed' = closed
    BY <1>1 DEF Hangup
  <2>3. QED BY <1>2, <1>5, <2>1, <2>2
<1>7. Agreement'
  <2>1. \A d \in Clients : /\ spc'[d] = spc[d] \/ spc'[d] = "exited"
                           /\ spc'[d] = "serve" => d \notin closed'
    BY <1>5, <1>6
  <2>2. QED BY <1>1, <1>4, <1>6, <2>1, AgreementStays DEF MultiInv
<1>8. ParentInv'
  <2>1. Waiting' = Waiting /\ c \notin Waiting /\ cpc[c] # "start" /\ (ppc = "fork" => cur # c)
    BY <1>1 DEF Waiting, MultiInv, ParentInv
  <2>2. Waiting \subseteq Clients
    BY <1>2, ElementOfSeq DEF Waiting
  <2>3. QED BY <1>1, <1>5, <1>6, <2>1, <2>2 DEF MultiInv, ParentInv
<1>9. QED BY <1>1, <1>7, <1>8 DEF MultiInv, transferVars

(* The steps of a client and of the child that serves it leave the parent  *)
(* alone; one that connects comes last in the queue.                       *)
LEMMA StepsParent ==
  ASSUME MultiInv, NEW c \in Clients, Steps(c), UNCHANGED parentVars
  PROVE  ParentInv'
<1>1. TypeOK /\ backlog \in Seq(Clients) /\ closed \subseteq Clients
  BY DEF MultiInv, Agreement, TypeOK, ClientTypeOK
<1>2. /\ closed' = closed
      /\ \A d \in Clients : /\ spc'[d] = "none" <=> spc[d] = "none"
                            /\ spc[d] = "exited" => spc'[d] = "exited"
  BY <1>1, StepsControl
<1>3. UNCHANGED <<ppc, cur>>
  BY DEF parentVars
<1>4. Waiting \subseteq Clients
  BY <1>1, ElementOfSeq DEF Waiting
<1>5. CASE /\ backlog' = backlog
           /\ \A d \in Clients : cpc'[d] = "start" => cpc[d] = "start"
  <2>1. Waiting' = Waiting
    BY <1>5 DEF Waiting
  <2>2. QED BY <1>1, <1>2, <1>3, <1>4, <1>5, <2>1 DEF MultiInv, ParentInv
<1>6. CASE /\ backlog' = Append(backlog, c) /\ cpc[c] = "start" /\ cpc'[c] = "read"
           /\ \A d \in Clients : d # c => cpc'[d] = cpc[d]
  <2>1. c \notin Waiting /\ spc[c] = "none" /\ (ppc = "fork" => cur # c)
    BY <1>6 DEF MultiInv, ParentInv
  <2>2. /\ DOMAIN backlog' = DOMAIN backlog \cup {Len(backlog) + 1}
        /\ backlog'[Len(backlog) + 1] = c
        /\ \A i \in DOMAIN backlog : backlog'[i] = backlog[i]
    BY <1>1, <1>6
  <2>3. \A i \in DOMAIN backlog : backlog[i] # c
    BY <2>1 DEF Waiting
  <2>4. Waiting' = Waiting \cup {c}
    BY <2>2 DEF Waiting
  <2>5. \A i, j \in DOMAIN backlog' : backlog'[i] = backlog'[j] => i = j
    BY <2>2, <2>3 DEF MultiInv, ParentInv
  <2>6. \A d \in Clients : cpc'[d] = "start" => cpc[d] = "start"
    BY <1>6
  <2>7. QED BY <1>1, <1>2, <1>3, <1>4, <1>6, <2>1, <2>4, <2>5, <2>6 DEF MultiInv, ParentInv
<1>7. QED BY <1>1, <1>5, <1>6, StepsControl

(* Every step of MultiServer keeps the invariant, and is a step of the     *)
(* service or none.                                                        *)
LEMMA MultiStep ==
  ASSUME MultiInv, [MultiNext]_multiVars
  PROVE  MultiInv' /\ [TransferNext]_transferVars
<1>1. CASE UNCHANGED <<transferAll, parentVars>>
  <2>1. /\ UNCHANGED <<cpc, got, pos, backlog, toServer, toClient, reset, closed>>
        /\ UNCHANGED <<spc, recv, buffer, seq, name, disk, told, torn, ppc, cur>>
    BY <1>1 DEF transferAll, clientVars, netVars, transferVars, serverVars, parentVars
  <2>2. TypeOK' /\ ParentInv'
    <3>1. TypeOK'
      BY <2>1 DEF MultiInv, Agreement, TypeOK, ClientTypeOK
    <3>2. Waiting' = Waiting
      BY <2>1 DEF Waiting
    <3>3. QED BY <2>1, <3>1, <3>2 DEF MultiInv, ParentInv
  <2>3. \A d \in Clients : spc[d] = "serve" => d \notin closed
    BY DEF MultiInv, Agreement, Connections, Connection
  <2>4. Agreement'
    BY <2>1, <2>2, <2>3, AgreementStays DEF MultiInv
  <2>5. QED BY <2>1, <2>2, <2>4 DEF MultiInv, transferVars
<1>2. ASSUME NEW c \in Clients, Steps(c), UNCHANGED parentVars
      PROVE  MultiInv' /\ [TransferNext]_transferVars
  <2>1. Agreement
    BY DEF MultiInv
  <2>2. QED BY <1>2, <2>1, StepsKeep, StepsParent DEF MultiInv
<1>3. CASE Parent
  BY <1>3, ParentAcceptKeeps, ForkKeeps, ParentClosesKeeps DEF Parent
<1>4. ASSUME NEW c \in Clients, ChildExits(c)
      PROVE  MultiInv' /\ [TransferNext]_transferVars
  BY <1>4, ChildExitsKeeps
<1>5. ASSUME NEW c \in Clients, MultiClient(c) \/ Faults(c) \/ Child(c), ~ChildExits(c)
      PROVE  Steps(c) /\ UNCHANGED parentVars
  BY <1>5 DEF MultiClient, Faults, Child, Steps, ClientPart, ServerPart
<1>6. CASE Handler
  BY <1>1, <1>6 DEF Handler, HandlerStarts, Reap, HandlerReturns, handlerVars
<1>7. CASE UNCHANGED multiVars
  BY <1>1, <1>7 DEF multiVars
<1>8. QED BY <1>2, <1>3, <1>4, <1>5, <1>6, <1>7 DEF MultiNext

(* In the beginning nobody has connected.                                  *)
LEMMA MultiInitInv == MultiInit => MultiInv /\ TransferInit
<1> SUFFICES ASSUME MultiInit PROVE MultiInv /\ TransferInit
  OBVIOUS
<1>1. Init
  BY DEF MultiInit
<1>2. Agreement /\ TransferInit
  BY <1>1, FileInit DEF FileInv, Init
<1>3. ParentInv
  <2>1. backlog = <<>> /\ closed = {} /\ \A c \in Clients : spc[c] = "none"
    BY <1>1 DEF Init, ClientInit, ServerInit
  <2>2. DOMAIN backlog = {} /\ Waiting = {}
    BY <2>1 DEF Waiting
  <2>3. QED BY <2>1, <2>2 DEF MultiInit, ParentInv
<1>4. QED BY <1>2, <1>3 DEF MultiInv

(* The multi-process server of p2 implements the service, for any number   *)
(* of children at once: they write the files of the service as if there    *)
(* were no parent, no signals and no other children.                       *)
THEOREM MultiServerRefines == MultiSpec => ImplementsTransferService
<1>1. MultiInv /\ [MultiNext]_multiVars => MultiInv' /\ [TransferNext]_transferVars
  BY MultiStep
<1>2. QED BY MultiInitInv, <1>1, PTL DEF MultiSpec, ImplementsTransferService, TransferSafety

(* So the clients of all children that are told "stored" have their files, *)
(* and no file is left in part, unless the write of it came short or was   *)
(* killed, whatever happens to the writes of other clients.                *)
THEOREM MultiServerFiles == MultiSpec => [](StoredIsSent /\ FilesWhole)
<1>1. MultiSpec => TransferSafety
  BY MultiServerRefines DEF ImplementsTransferService
<1>2. QED BY <1>1, ServiceStoredIsSent, ServiceFilesWhole, PTL

-----------------------------------------------------------------------------
(* The children that have exited                                           *)

(* A child that has exited is never left a zombie: the handler of SIGCHLD  *)
(* is running or is still to run.  One signal may stand for many children, *)
(* which the loop around waitpid makes up for.                             *)
THEOREM ChildrenAreReaped == MultiSpec => []NoZombieForgotten
<1>1. MultiInit => NoZombieForgotten
  BY DEF MultiInit, NoZombieForgotten
<1>2. NoZombieForgotten /\ [MultiNext]_multiVars => NoZombieForgotten'
  <2> SUFFICES ASSUME NoZombieForgotten, [MultiNext]_multiVars
               PROVE  NoZombieForgotten'
    OBVIOUS
  <2> USE DEF NoZombieForgotten
  <2>1. CASE UNCHANGED multiVars
    BY <2>1 DEF multiVars, handlerVars
  <2>2. CASE Parent
    BY <2>2 DEF Parent, ParentAccept, Fork, ParentCloses, handlerVars
  <2>3. CASE HandlerStarts
    BY <2>3 DEF HandlerStarts
  <2>4. CASE Reap
    BY <2>4 DEF Reap, handlerVars
  <2>5. CASE HandlerReturns
    BY <2>5 DEF HandlerReturns
  <2>6. ASSUME NEW c \in Clients, MultiClient(c) \/ Faults(c)
        PROVE  NoZombieForgotten'
    BY <2>6 DEF MultiClient, Faults, handlerVars
  <2>7. ASSUME NEW c \in Clients, Child(c)
        PROVE  NoZombieForgotten'
    BY <2>7 DEF Child, ChildExits, handlerVars
  <2>8. QED BY <2>1, <2>2, <2>3, <2>4, <2>5, <2>6, <2>7 DEF MultiNext, Handler
<1>3. QED BY <1>1, <1>2, PTL DEF MultiSpec
=============================================================================
