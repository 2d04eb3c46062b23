------------------------- MODULE SelectServerProofs -------------------------
(***************************************************************************)
(* Proofs about SelectServer, for any number of client programs, threads   *)
(* and slots, any files and any failures.  What a step of the server does  *)
(* to the connection of its slot, and a step of a thread to its own, is    *)
(* shown first; all other connections and slots stay as they were.         *)
(***************************************************************************)
EXTENDS SelectServer, TransferProofs

-----------------------------------------------------------------------------
(* The threads of a program                                                *)

(* A client is a thread of its program.                                    *)
LEMMA ProgramOf ==
  ASSUME NEW c \in Clients
  PROVE  /\ Program(c) \in Programs
         /\ Index(c) \in DOMAIN Threads[Program(c)]
         /\ Threads[Program(c)][Index(c)] = c
<1>1. \E p \in Programs : \E i \in DOMAIN Threads[p] : Threads[p][i] = c
  BY ProgramAssumption
<1>2. Program(c) \in Programs /\ \E i \in DOMAIN Threads[Program(c)] : Threads[Program(c)][i] = c
  BY <1>1 DEF Program
<1>3. QED BY <1>2 DEF Index

(* The number of a thread is at least one.                                 *)
LEMMA IndexType ==
  ASSUME NEW c \in Clients
  PROVE  Index(c) \in 1 .. Len(Threads[Program(c)]) /\ Len(Threads[Program(c)]) \in Nat
<1>1. Threads[Program(c)] \in Seq(Clients)
  BY ProgramOf, ProgramAssumption
<1>2. QED BY <1>1, ProgramOf

(* And a thread has one place in one program.                              *)
LEMMA IndexOf ==
  ASSUME NEW p \in Programs, NEW i \in 1 .. Len(Threads[p])
  PROVE  /\ Threads[p][i] \in Clients
         /\ Program(Threads[p][i]) = p /\ Index(Threads[p][i]) = i
<1>1. Threads[p] \in Seq(Clients) /\ i \in DOMAIN Threads[p]
  BY ProgramAssumption
<1>2. Threads[p][i] \in Clients
  BY <1>1, ElementOfSeq
<1>3. QED BY <1>1, <1>2, ProgramOf, ProgramAssumption

(* The number that a thread takes is that of a file.                       *)
LEMMA NumberType ==
  ASSUME ProgramTypeOK, NEW c \in Clients, MayRun(c)
  PROVE  /\ threadNum[Program(c)] \in Names
         /\ threadNum[Program(c)] \in Index(c) .. threadNum[Program(c)]
<1>1. Program(c) \in Programs /\ Index(c) \in 1 .. Len(Threads[Program(c)]) /\ Len(Threads[Program(c)]) \in Nat
  BY ProgramOf, IndexType
<1>2. threadNum[Program(c)] \in 0 .. Len(Threads[Program(c)])
  BY <1>1 DEF ProgramTypeOK
<1>3. Index(c) <= threadNum[Program(c)]
  BY DEF MayRun
<1>4. threadNum[Program(c)] \in 1 .. Len(Threads[Program(c)])
  BY <1>1, <1>2, <1>3
<1>5. QED BY <1>1, <1>2, <1>3, <1>4, ProgramAssumption

-----------------------------------------------------------------------------
(* The invariant, and what a step leaves alone                             *)

SelectInv == Inv /\ ServerStaysUp /\ FilesWhole

(* What holds of every connection.                                         *)
Local(c) == Exchange(c) /\ Connection(c)

(* The invariant of one connection, and of the one a slot is used for.     *)
LEMMA InvParts ==
  ASSUME SelectInv
  PROVE  /\ SelectTypeOK /\ ProgramTypeOK /\ ClientTypeOK /\ ServiceTypeOK
         /\ NumberNotEarlier /\ Places /\ FilesWhole /\ up = "running"
         /\ \A c \in Clients : Exchange(c) /\ Connection(c) /\ Promise(c)
         /\ \A i \in Slots : SlotOK(i)
BY DEF SelectInv, Inv, ServerStaysUp, SelectTypeOK, ProgramTypeOK, ServiceTypeOK

(* It holds when all its parts do.                                         *)
LEMMA InvMade ==
  ASSUME SelectInv, [TransferNext]_transferVars,
         SelectTypeOK', NumberNotEarlier', Places', up' = "running",
         \A c \in Clients : Exchange(c)' /\ Connection(c)' /\ Promise(c)',
         \A i \in Slots : SlotOK(i)'
  PROVE  SelectInv'
<1>1. FilesWhole'
  BY InvParts, FilesWholeStep
<1>2. Inv'
  BY DEF Inv
<1>3. QED BY <1>1, <1>2 DEF SelectInv, ServerStaysUp

Same(d) ==
  /\ cpc'[d] = cpc[d] /\ got'[d] = got[d] /\ pos'[d] = pos[d]
  /\ toServer'[d] = toServer[d] /\ toClient'[d] = toClient[d]
  /\ d \in closed' <=> d \in closed
  /\ d \in reset' <=> d \in reset
  /\ name'[d] = name[d] /\ told'[d] = told[d]

(* The threads that have been created stay so.                             *)
MoreThreads(d) == Index(d) <= threadNum[Program(d)] => Index(d) <= threadNum'[Program(d)]

(* A connection that a step leaves alone.                                  *)
LEMMA SameLocal ==
  ASSUME NEW d \in Clients, Local(d), Same(d), MoreThreads(d),
         d \in (Waiting \cup forgotten)' => d \in Waiting \cup forgotten
  PROVE  Local(d)'
<1> USE DEF Same
<1>1. Exchange(d)'
  BY DEF Local, Exchange, IsRequest
<1>2. Gone(d)' = Gone(d) /\ NoMore(d)' = NoMore(d)
  BY DEF Gone, NoMore
<1>3. Connection(d)'
  BY <1>2 DEF Local, Connection, MoreThreads
<1>4. QED BY <1>1, <1>3 DEF Local

(* A slot that a step leaves alone.                                        *)
SameSlot(j) ==
  /\ clientfd'[j] = clientfd[j] /\ memory'[j] = memory[j]
  /\ data'[j] = data[j] /\ lastSeqNum'[j] = lastSeqNum[j]

(* It stays as it was.                                                     *)
LEMMA SameSlotOK ==
  ASSUME NEW j \in Slots, SlotOK(j), SameSlot(j),
         clientfd[j] # NoClient => Same(clientfd[j])
  PROVE  SlotOK(j)'
<1> USE DEF SameSlot
<1>1. CASE clientfd[j] = NoClient
  BY <1>1 DEF SlotOK
<1>2. ASSUME NEW d, clientfd[j] = d, d # NoClient
      PROVE  SlotOK(j)'
  <2>1. SlotOf(j, d) /\ Same(d) /\ clientfd'[j] = d
    BY <1>2 DEF SlotOK
  <2>2. OwnData(j, d)' = OwnData(j, d)
    BY <2>1 DEF Same, OwnData, InFlight
  <2>3. SlotOf(j, d)'
    BY <2>1, <2>2 DEF SlotOf, Same
  <2>4. QED BY <1>2, <2>1, <2>3 DEF SlotOK
<1>3. QED BY <1>1, <1>2

(* A step that moves no connection.                                        *)
LEMMA SamePlaces ==
  ASSUME Places, UNCHANGED <<backlog, clientfd, forgotten, closed>>,
         \A d \in Clients : /\ cpc'[d] = "start" => cpc[d] = "start"
                            /\ cpc'[d] = "read" => cpc[d] = "read"
  PROVE  Places' /\ Waiting' = Waiting
<1>1. Waiting' = Waiting /\ Slotted' = Slotted
  BY DEF Waiting, Slotted
<1>2. QED BY <1>1 DEF Places

(* The variables are functions of the connection or the slot.              *)
Domains ==
  /\ DOMAIN cpc = Clients /\ DOMAIN got = Clients /\ DOMAIN pos = Clients
  /\ DOMAIN toServer = Clients /\ DOMAIN toClient = Clients
  /\ DOMAIN name = Clients /\ DOMAIN told = Clients
  /\ DOMAIN clientfd = Slots /\ DOMAIN memory = Slots
  /\ DOMAIN data = Slots /\ DOMAIN lastSeqNum = Slots
  /\ DOMAIN threadNum = Programs

(* By their types.                                                         *)
LEMMA TypesDomains == SelectTypeOK => Domains
BY DEF SelectTypeOK, ProgramTypeOK, ClientTypeOK, Domains

-----------------------------------------------------------------------------
(* A packet and its answer                                                 *)

(* The server has read a packet of this command from the connection of     *)
(* slot i, and gives this answer.                                          *)
Serves(i, c, cmd, ans, s) ==
  /\ clientfd[i] = c
  /\ toServer[c] # <<>> /\ Head(toServer[c]).cmd = cmd
  /\ toServer' = [toServer EXCEPT ![c] = Tail(@)]
  /\ Number(i, s) /\ Answer(c, ans, s)
  /\ UNCHANGED <<cpc, got, pos, backlog, closed, name, told, mpc, threadNum, forgotten, clientfd>>

(* What comes of it.                                                       *)
Answered(c, ans, s) ==
  \/ /\ cpc[c] = "read" /\ reset' = reset
     /\ toClient' = [toClient EXCEPT ![c] = <<[cmd |-> ans, seq |-> s]>>]
  \/ cpc[c] = "killed" /\ reset' = reset \cup {c} /\ UNCHANGED toClient

(* The client of a slot from which there is a packet has sent only this    *)
(* packet, and waits or is gone.                                           *)
LEMMA PacketOfSlot ==
  ASSUME SelectInv, NEW i \in Slots, NEW c \in Clients, clientfd[i] = c, toServer[c] # <<>>
  PROVE  /\ toServer[c] = <<Head(toServer[c])>> /\ Tail(toServer[c]) = <<>>
         /\ Head(toServer[c]) \in PacketType /\ IsRequest(c, Head(toServer[c]))
         /\ toClient[c] = <<>> /\ cpc[c] \in {"read", "killed"}
         /\ c \notin reset \cup closed \cup Waiting \cup forgotten
         /\ name[c] \in Names /\ told[c] = "nothing" /\ pos[c] \in Nat /\ pos[c] <= Size[name[c]]
         /\ memory[i] # "freed" /\ SlotOf(i, c) /\ OwnData(i, c)
<1>1. /\ SelectTypeOK /\ ClientTypeOK /\ Exchange(c) /\ Connection(c) /\ SlotOK(i) /\ Places
  BY InvParts
<1>2. toServer[c] = <<Head(toServer[c])>> /\ Tail(toServer[c]) = <<>>
  <2>1. PICK p : p = Head(toServer[c])
    OBVIOUS
  <2>2. toServer[c] = <<p>>
    BY <1>1, <2>1 DEF Exchange
  <2>3. QED BY <2>1, <2>2, ShortStreams
<1>3. /\ IsRequest(c, Head(toServer[c]))
      /\ toClient[c] = <<>> /\ cpc[c] \in {"read", "killed"}
  BY <1>1 DEF Exchange
<1>4. Head(toServer[c]) \in PacketType
  BY <1>1, HeadTailProperties DEF ClientTypeOK, PacketType
<1>5. name[c] \in Names
  BY <1>1 DEF SelectTypeOK, Connection
<1>6. /\ name[c] # NoName /\ told[c] = "nothing" /\ pos[c] \in Nat /\ pos[c] <= Size[name[c]] /\ c \notin reset
  BY <1>1, <1>3, <1>5, TransferAssumption DEF Connection, ClientTypeOK
<1>7. c \notin closed \cup Waiting \cup forgotten
  BY <1>1 DEF Places, Slotted
<1>8. SlotOf(i, c) /\ memory[i] # "freed" /\ OwnData(i, c)
  BY <1>1, SlotsAssumption DEF SlotOK, SlotOf
<1>9. QED BY <1>2, <1>3, <1>4, <1>5, <1>6, <1>7, <1>8

(* So the answer is read, or is the first that is sent to it in vain.      *)
LEMMA ServesAnswered ==
  ASSUME SelectInv, NEW i \in Slots, NEW c \in Clients, NEW cmd, NEW ans, NEW s,
         Serves(i, c, cmd, ans, s)
  PROVE  /\ Answered(c, ans, s) /\ up' = "running"
         /\ toServer' = [toServer EXCEPT ![c] = <<>>]
<1>1. /\ toClient[c] = <<>> /\ cpc[c] \in {"read", "killed"} /\ c \notin reset
      /\ Tail(toServer[c]) = <<>> /\ up = "running"
  BY PacketOfSlot, InvParts DEF Serves
<1>2. Append(toClient[c], [cmd |-> ans, seq |-> s]) = <<[cmd |-> ans, seq |-> s]>>
  BY <1>1, ShortStreams
<1>3. toServer' = [toServer EXCEPT ![c] = <<>>]
  BY <1>1 DEF Serves
<1>4. CASE cpc[c] = "read"
  <2>1. ~Gone(c)
    BY <1>4 DEF Gone
  <2>2. toClient' = [toClient EXCEPT ![c] = Append(toClient[c], [cmd |-> ans, seq |-> s])] /\ UNCHANGED <<reset, up>>
    BY <2>1 DEF Serves, Answer
  <2>3. QED BY <1>1, <1>2, <1>3, <1>4, <2>2 DEF Answered
<1>5. CASE cpc[c] = "killed"
  <2>1. Gone(c)
    BY <1>5 DEF Gone
  <2>2. QED BY <1>1, <1>3, <1>5, <2>1 DEF Serves, Answer, Answered
<1>6. QED BY <1>1, <1>4, <1>5

(* The types of a step that serves a packet.                               *)
LEMMA ServesTypes ==
  ASSUME SelectInv, NEW i \in Slots, NEW c \in Clients, NEW cmd, NEW ans \in Answers,
         NEW s \in 0 .. SEQ_SIZE - 1, Serves(i, c, cmd, ans, s),
         disk' \in [Names -> Seq(Block)], torn' \subseteq Clients, data' \in [Slots -> Seq(Block)],
         memory' \in [Slots -> {"NULL", "allocated", "freed"}]
  PROVE  SelectTypeOK'
<1>1. SelectTypeOK /\ ClientTypeOK /\ ProgramTypeOK
  BY InvParts
<1>2. /\ Answered(c, ans, s) /\ up' = "running"
      /\ toServer' = [toServer EXCEPT ![c] = <<>>]
  BY ServesAnswered
<1>3. UNCHANGED <<cpc, got, pos, backlog, closed, name, told, mpc, threadNum, forgotten, clientfd>>
  BY DEF Serves
<1>4. toServer' \in [Clients -> Seq(PacketType)]
  BY <1>1, <1>2, EmptySeq DEF ClientTypeOK, PacketType
<1>5. toClient' \in [Clients -> Seq(AnswerType)] /\ reset' \subseteq Clients
  <2>1. toClient \in [Clients -> Seq(AnswerType)] /\ reset \subseteq Clients
    BY <1>1 DEF ClientTypeOK, AnswerType
  <2>2. <<[cmd |-> ans, seq |-> s]>> \in Seq(AnswerType)
    BY DEF AnswerType
  <2>3. QED BY <1>2, <2>1, <2>2 DEF Answered
<1>6. lastSeqNum' \in [Slots -> 0 .. SEQ_SIZE - 1]
  BY <1>1 DEF Serves, Number, SelectTypeOK
<1>7. ClientTypeOK'
  BY <1>1, <1>3, <1>4, <1>5 DEF ClientTypeOK, PacketType, AnswerType
<1>8. QED BY <1>1, <1>2, <1>3, <1>6, <1>7 DEF SelectTypeOK, ProgramTypeOK

(* It leaves the other connections alone.                                  *)
LEMMA ServesOthers ==
  ASSUME SelectInv, NEW i \in Slots, NEW c \in Clients, NEW cmd, NEW ans, NEW s,
         Serves(i, c, cmd, ans, s), NEW d \in Clients, d # c
  PROVE  Same(d)
<1>1. Domains
  BY InvParts, TypesDomains
<1>2. Answered(c, ans, s) /\ toServer' = [toServer EXCEPT ![c] = <<>>]
  BY ServesAnswered
<1>3. toServer'[d] = toServer[d] /\ toClient'[d] = toClient[d] /\ (d \in reset' <=> d \in reset)
  BY <1>1, <1>2 DEF Domains, Answered
<1>4. QED BY <1>3 DEF Same, Serves

(* The connection that is served.                                          *)
LEMMA ServesLocal ==
  ASSUME SelectInv, NEW i \in Slots, NEW c \in Clients, NEW cmd, NEW ans, NEW s,
         Serves(i, c, cmd, ans, s)
  PROVE  Local(c)' /\ toServer'[c] = <<>>
<1>1. Domains /\ Exchange(c) /\ Connection(c)
  BY InvParts, TypesDomains
<1>2. Answered(c, ans, s) /\ toServer'[c] = <<>>
  BY <1>1, ServesAnswered DEF Domains
<1>3. /\ toClient[c] = <<>> /\ cpc[c] \in {"read", "killed"}
      /\ c \notin reset \cup closed \cup Waiting \cup forgotten
      /\ name[c] \in Names /\ name[c] # NoName /\ told[c] = "nothing" /\ pos[c] <= Size[name[c]]
  BY PacketOfSlot, TransferAssumption DEF Serves
<1>4. UNCHANGED <<cpc, got, pos, backlog, closed, name, told, mpc, threadNum, forgotten, clientfd>>
  BY DEF Serves
<1>5. c \in reset' => cpc[c] = "killed"
  BY <1>2, <1>3 DEF Answered
<1>6. cpc[c] = "read" => Len(toClient'[c]) = 1
  BY <1>1, <1>2, ShortStreams DEF Answered, Domains
<1>7. cpc[c] = "killed" => toClient'[c] = <<>>
  BY <1>2, <1>3 DEF Answered
<1>8. Exchange(c)'
  BY <1>2, <1>3, <1>4, <1>6, <1>7 DEF Exchange
<1>9. c \notin (Waiting \cup forgotten)'
  BY <1>3, <1>4 DEF Waiting
<1>10. Connection(c)'
  BY <1>1, <1>2, <1>3, <1>4, <1>5, <1>9 DEF Connection, Gone, NoMore
<1>11. QED BY <1>2, <1>8, <1>10 DEF Local

(* The slot that serves it.                                                *)
LEMMA ServesSlot ==
  ASSUME SelectInv, NEW i \in Slots, NEW c \in Clients, NEW cmd, NEW ans, NEW s,
         Serves(i, c, cmd, ans, s),
         s = NextNumber(i) \/ got[c].cmd = "none",
         memory'[i] = "freed" => ans = "FILE_STORED",
         memory'[i] # "freed" => ans = "ERROR" \/ data'[i] = SubSeq(File(name[c]), 1, pos[c])
  PROVE  SlotOK(i)'
<1>1. Domains /\ Exchange(c) /\ Connection(c)
  BY InvParts, TypesDomains
<1>2. Answered(c, ans, s) /\ toServer'[c] = <<>>
  BY <1>1, ServesAnswered DEF Domains
<1>3. /\ toClient[c] = <<>> /\ cpc[c] \in {"read", "killed"} /\ SlotOf(i, c)
      /\ name[c] \in Names /\ pos[c] \in Nat /\ pos[c] <= Size[name[c]]
  BY PacketOfSlot DEF Serves
<1>4. UNCHANGED <<cpc, got, pos, name, clientfd>> /\ clientfd[i] = c /\ lastSeqNum'[i] = s
  BY <1>1 DEF Serves, Number, Domains
<1>5. PICK a : a = [cmd |-> ans, seq |-> s]
  OBVIOUS
<1>6. a.cmd = ans /\ a.seq = s
  BY <1>5
<1>7. cpc[c] = "read" => toClient'[c] # <<>> /\ Head(toClient'[c]) = a
  <2>1. SUFFICES ASSUME cpc[c] = "read" PROVE toClient'[c] # <<>> /\ Head(toClient'[c]) = a
    OBVIOUS
  <2>2. toClient'[c] = <<a>>
    BY <1>1, <1>2, <1>5, <2>1 DEF Answered, Domains
  <2>3. QED BY <2>2, ShortStreams
<1>8. memory'[i] # "freed" /\ cpc[c] = "read" => OwnData(i, c)'
  <2>1. SUFFICES ASSUME memory'[i] # "freed", cpc[c] = "read" PROVE OwnData(i, c)'
    OBVIOUS
  <2>2. CASE ans = "ERROR"
    BY <1>6, <1>7, <2>1, <2>2 DEF OwnData
  <2>3. CASE data'[i] = SubSeq(File(name[c]), 1, pos[c])
    <3>1. InFlight(c)' = <<>>
      BY <1>2 DEF InFlight
    <3>2. data'[i] \o <<>> = data'[i]
      BY <1>3, <2>3, PrefixType, ConcatEmptySeq
    <3>3. QED BY <1>4, <2>3, <3>1, <3>2 DEF OwnData
  <2>4. QED BY <2>1, <2>2, <2>3
<1>9. got[c].cmd # "none" /\ cpc[c] = "read" => s = (got[c].seq + 1) % SEQ_SIZE
  BY <1>3 DEF SlotOf, NextNumber
<1>10. SlotOf(i, c)'
  <2>1. memory'[i] = "freed" => /\ toServer'[c] = <<>>
                                /\ cpc[c] = "read" => toClient'[c] # <<>> /\ Head(toClient'[c]).cmd = "FILE_STORED"
    BY <1>2, <1>6, <1>7
  <2>2. cpc[c] = "read" /\ toClient'[c] # <<>> =>
          /\ Head(toClient'[c]).seq = lastSeqNum'[i]
          /\ got[c].cmd # "none" => lastSeqNum'[i] = (got[c].seq + 1) % SEQ_SIZE
    BY <1>4, <1>6, <1>7, <1>9
  <2>3. QED BY <1>2, <1>4, <1>7, <1>8, <2>1, <2>2 DEF SlotOf
<1>11. c # NoClient
  BY SlotsAssumption
<1>12. QED BY <1>4, <1>10, <1>11 DEF SlotOK

(* Together: everything but the types and the promises.                    *)
LEMMA ServesKeeps ==
  ASSUME SelectInv, NEW i \in Slots, NEW c \in Clients, NEW cmd, NEW ans, NEW s,
         Serves(i, c, cmd, ans, s),
         s = NextNumber(i) \/ got[c].cmd = "none",
         memory'[i] = "freed" => ans = "FILE_STORED",
         memory'[i] # "freed" => ans = "ERROR" \/ data'[i] = SubSeq(File(name[c]), 1, pos[c]),
         \A j \in Slots \ {i} : memory'[j] = memory[j] /\ data'[j] = data[j]
  PROVE  /\ NumberNotEarlier' /\ Places'
         /\ \A d \in Clients : Exchange(d)' /\ Connection(d)'
         /\ \A j \in Slots : SlotOK(j)'
<1>1. /\ UNCHANGED <<cpc, got, pos, backlog, closed, name, told, mpc, threadNum, forgotten, clientfd>>
      /\ clientfd[i] = c
  BY DEF Serves
<1>2. Domains /\ Places /\ NumberNotEarlier
  BY InvParts, TypesDomains
<1>3. Places' /\ Waiting' = Waiting
  BY <1>1, <1>2, SamePlaces
<1>4. NumberNotEarlier'
  BY <1>1, <1>2 DEF NumberNotEarlier
<1>5. ASSUME NEW d \in Clients PROVE Exchange(d)' /\ Connection(d)'
  <2>1. CASE d = c
    BY <2>1, ServesLocal DEF Local
  <2>2. CASE d # c
    <3>1. Local(d) /\ Same(d)
      BY <2>2, InvParts, ServesOthers DEF Local
    <3>2. MoreThreads(d) /\ (d \in (Waiting \cup forgotten)' => d \in Waiting \cup forgotten)
      BY <1>1, <1>3 DEF MoreThreads
    <3>3. QED BY <3>1, <3>2, SameLocal DEF Local
  <2>3. QED BY <2>1, <2>2
<1>6. ASSUME NEW j \in Slots PROVE SlotOK(j)'
  <2>1. CASE j = i
    BY <2>1, ServesSlot
  <2>2. CASE j # i
    <3>1. SameSlot(j)
      BY <1>1, <1>2, <2>2 DEF SameSlot, Serves, Number, Domains
    <3>2. clientfd[j] # NoClient => clientfd[j] \in Clients /\ clientfd[j] # c
      BY <1>1, <1>2, <2>2, InvParts DEF Places, SelectTypeOK
    <3>3. clientfd[j] # NoClient => Same(clientfd[j])
      BY <3>2, ServesOthers
    <3>4. SlotOK(j)
      BY InvParts
    <3>5. QED BY <3>1, <3>3, <3>4, SameSlotOK
  <2>3. QED BY <2>1, <2>2
<1>7. QED BY <1>3, <1>4, <1>5, <1>6

(* What was promised is kept, and what is promised now is true.            *)
LEMMA PromiseKept ==
  ASSUME SelectInv, [TransferNext]_transferVars, NEW d \in Clients,
         \/ toClient'[d] \in {toClient[d], <<>>}
         \/ \E a : toClient'[d] = <<a>> /\ (a.cmd = "FILE_STORED" => StoredFor(d)')
  PROVE  Promise(d)'
<1>1. CASE toClient'[d] = <<>>
  BY <1>1 DEF Promise
<1>2. CASE \E a : toClient'[d] = <<a>> /\ (a.cmd = "FILE_STORED" => StoredFor(d)')
  BY <1>2, ShortStreams DEF Promise
<1>3. CASE toClient'[d] = toClient[d]
  <2>1. SUFFICES ASSUME toClient[d] # <<>>, Head(toClient[d]).cmd = "FILE_STORED"
                 PROVE  StoredFor(d)'
    BY <1>3 DEF Promise
  <2>2. name[d] \in Names /\ ServiceTypeOK /\ StoredFor(d)
    BY <2>1, InvParts DEF Promise, Connection, SelectTypeOK
  <2>3. QED BY <2>2, StoredForStays
<1>4. QED BY <1>1, <1>2, <1>3

(* The promises of a step that serves a packet.                            *)
LEMMA ServesPromise ==
  ASSUME SelectInv, [TransferNext]_transferVars, NEW i \in Slots, NEW c \in Clients, NEW cmd, NEW ans, NEW s,
         Serves(i, c, cmd, ans, s), ans = "FILE_STORED" => StoredFor(c)', NEW d \in Clients
  PROVE  Promise(d)'
<1>1. Domains /\ Answered(c, ans, s)
  BY InvParts, TypesDomains, ServesAnswered
<1>2. CASE toClient'[d] = toClient[d]
  BY <1>2, PromiseKept
<1>3. CASE d = c /\ toClient'[c] = <<[cmd |-> ans, seq |-> s]>>
  <2>1. [cmd |-> ans, seq |-> s].cmd = ans
    OBVIOUS
  <2>2. QED BY <1>3, <2>1, PromiseKept
<1>4. QED BY <1>1, <1>2, <1>3 DEF Answered, Domains

-----------------------------------------------------------------------------
(* The steps of the server                                                 *)

(* The numbers of the answers.                                             *)
LEMMA NumberTypes ==
  ASSUME SelectTypeOK, NEW i \in Slots
  PROVE  NextNumber(i) \in 0 .. SEQ_SIZE - 1 /\ FirstSeqs \subseteq 0 .. SEQ_SIZE - 1
<1>1. SEQ_SIZE \in Nat \ {0} /\ FirstSeqs \subseteq 0 .. SEQ_SIZE - 2
  BY ClientAssumption
<1>2. lastSeqNum[i] + 1 \in Nat
  BY <1>1 DEF SelectTypeOK
<1>3. (lastSeqNum[i] + 1) % SEQ_SIZE \in 0 .. SEQ_SIZE - 1
  BY <1>1, <1>2
<1>4. FirstSeqs \subseteq 0 .. SEQ_SIZE - 1
  BY <1>1
<1>5. QED BY <1>3, <1>4 DEF NextNumber

(* What serves a packet keeps the invariant.                               *)
LEMMA ServesInv ==
  ASSUME SelectInv, NEW i \in Slots, NEW c \in Clients, NEW cmd, NEW ans \in Answers,
         NEW s \in 0 .. SEQ_SIZE - 1, Serves(i, c, cmd, ans, s),
         s = NextNumber(i) \/ got[c].cmd = "none",
         [TransferNext]_transferVars, disk' \in [Names -> Seq(Block)], torn' \subseteq Clients,
         ans = "FILE_STORED" => StoredFor(c)',
         NEW m \in {"NULL", "allocated", "freed"}, memory' = [memory EXCEPT ![i] = m],
         m = "freed" => ans = "FILE_STORED",
         NEW b \in Seq(Block), data' = [data EXCEPT ![i] = b],
         m # "freed" => ans = "ERROR" \/ b = SubSeq(File(name[c]), 1, pos[c])
  PROVE  SelectInv'
<1>1. Domains /\ SelectTypeOK
  BY InvParts, TypesDomains
<1>2. memory' \in [Slots -> {"NULL", "allocated", "freed"}] /\ data' \in [Slots -> Seq(Block)]
  BY <1>1 DEF SelectTypeOK
<1>3. /\ memory'[i] = m /\ data'[i] = b
      /\ \A j \in Slots \ {i} : memory'[j] = memory[j] /\ data'[j] = data[j]
  BY <1>1 DEF Domains
<1>4. SelectTypeOK' /\ up' = "running"
  BY <1>2, ServesTypes, ServesAnswered
<1>5. /\ NumberNotEarlier' /\ Places'
      /\ \A d \in Clients : Exchange(d)' /\ Connection(d)'
      /\ \A j \in Slots : SlotOK(j)'
  BY <1>3, ServesKeeps
<1>6. \A d \in Clients : Promise(d)'
  BY ServesPromise
<1>7. QED BY <1>4, <1>5, <1>6, InvMade

(* The first packet of a client.                                           *)
LEMMA HelloKeeps ==
  ASSUME SelectInv, NEW i \in Slots, ClientHello(i)
  PROVE  SelectInv' /\ UNCHANGED transferVars
<1>1. PICK c \in Clients : c = clientfd[i]
  BY InvParts DEF ClientHello, Receive, SelectTypeOK
<1>2. PICK s \in FirstSeqs : Number(i, s) /\ Answer(c, "SERVER_HELLO", s)
  BY <1>1 DEF ClientHello
<1>3. Serves(i, c, "CLIENT_HELLO", "SERVER_HELLO", s)
  BY <1>1, <1>2 DEF ClientHello, Receive, Serves, clientVars, transferVars, programVars
<1>4. UNCHANGED transferVars
  BY DEF ClientHello
<1>5. s \in 0 .. SEQ_SIZE - 1 /\ "SERVER_HELLO" \in Answers
  BY InvParts, NumberTypes DEF Answers
<1>6. toServer[c] # <<>> /\ Head(toServer[c]).cmd = "CLIENT_HELLO"
  BY <1>3 DEF Serves
<1>7. /\ got[c].cmd = "none" /\ memory[i] # "freed" /\ toClient[c] = <<>>
      /\ OwnData(i, c) /\ InFlight(c) = <<>>
  BY <1>1, <1>6, InvParts, PacketOfSlot DEF Connection, InFlight
<1>8. /\ disk' \in [Names -> Seq(Block)] /\ torn' \subseteq Clients /\ data[i] \in Seq(Block)
      /\ memory[i] \in {"NULL", "allocated", "freed"}
      /\ memory' = [memory EXCEPT ![i] = memory[i]] /\ data' = [data EXCEPT ![i] = data[i]]
  BY <1>4, InvParts DEF SelectTypeOK, ClientHello, transferVars
<1>9. data[i] = SubSeq(File(name[c]), 1, pos[c])
  BY <1>7, <1>8, ConcatEmptySeq DEF OwnData
<1>10. QED BY <1>3, <1>4, <1>5, <1>7, <1>8, <1>9, ServesInv

(* A packet of data.                                                       *)
LEMMA DeliveryKeeps ==
  ASSUME SelectInv, NEW i \in Slots, DataDelivery(i)
  PROVE  SelectInv' /\ UNCHANGED transferVars
<1>1. PICK c \in Clients : c = clientfd[i]
  BY InvParts DEF DataDelivery, Receive, SelectTypeOK
<1>2. toServer[c] # <<>> /\ Head(toServer[c]).cmd = "DATA_DELIVERY"
  BY <1>1 DEF DataDelivery, Receive
<1>3. /\ Head(toServer[c]) \in PacketType /\ toClient[c] = <<>>
      /\ memory[i] # "freed" /\ OwnData(i, c)
  BY <1>1, <1>2, PacketOfSlot
<1>4. PICK b \in Seq(Block) : b = Head(toServer[c]).data
  BY <1>3 DEF PacketType
<1>5. data[i] \o b = SubSeq(File(name[c]), 1, pos[c])
  BY <1>2, <1>3, <1>4 DEF OwnData, InFlight
<1>6. /\ SelectTypeOK /\ data[i] \in Seq(Block) /\ data[i] \o b \in Seq(Block)
      /\ data \in [Slots -> Seq(Block)]
  BY <1>4, InvParts DEF SelectTypeOK
<1>7. PICK s \in 0 .. SEQ_SIZE - 1 : s = NextNumber(i)
  BY <1>6, NumberTypes
<1>8. \/ /\ memory' = [memory EXCEPT ![i] = "allocated"]
         /\ data' = [data EXCEPT ![i] = data[i] \o b]
         /\ Number(i, s) /\ Answer(c, "PKT_RECEIVED", s) /\ UNCHANGED <<disk, torn>>
      \/ /\ memory' = [memory EXCEPT ![i] = "NULL"]
         /\ data' = [data EXCEPT ![i] = data[i]]
         /\ Number(i, s) /\ Answer(c, "ERROR", s) /\ UNCHANGED <<disk, torn>>
  BY <1>1, <1>3, <1>4, <1>6, <1>7 DEF DataDelivery, UseAfterFree
<1>9. ASSUME NEW ans, Number(i, s), Answer(c, ans, s)
      PROVE  Serves(i, c, "DATA_DELIVERY", ans, s)
  BY <1>1, <1>9 DEF DataDelivery, Receive, Serves, clientVars, programVars
<1>10. UNCHANGED transferVars /\ disk' \in [Names -> Seq(Block)] /\ torn' \subseteq Clients
  BY <1>6, <1>8 DEF DataDelivery, transferVars, SelectTypeOK
<1>11. "PKT_RECEIVED" \in Answers /\ "ERROR" \in Answers
  BY DEF Answers
<1>12. CASE /\ memory' = [memory EXCEPT ![i] = "allocated"]
            /\ data' = [data EXCEPT ![i] = data[i] \o b]
            /\ Number(i, s) /\ Answer(c, "PKT_RECEIVED", s)
  <2>1. Serves(i, c, "DATA_DELIVERY", "PKT_RECEIVED", s)
    BY <1>9, <1>12
  <2>2. "PKT_RECEIVED" # "FILE_STORED" /\ "allocated" # "freed"
    OBVIOUS
  <2>3. QED BY <1>5, <1>6, <1>7, <1>10, <1>11, <1>12, <2>1, <2>2, ServesInv
<1>13. CASE /\ memory' = [memory EXCEPT ![i] = "NULL"]
            /\ data' = [data EXCEPT ![i] = data[i]]
            /\ Number(i, s) /\ Answer(c, "ERROR", s)
  <2>1. Serves(i, c, "DATA_DELIVERY", "ERROR", s)
    BY <1>9, <1>13
  <2>2. "ERROR" # "FILE_STORED" /\ "NULL" # "freed"
    OBVIOUS
  <2>3. QED BY <1>6, <1>7, <1>10, <1>11, <1>13, <2>1, <2>2, ServesInv
<1>14. QED BY <1>8, <1>10, <1>12, <1>13

(* The name of the file: what is stored is the file of the client, which   *)
(* the service allows.                                                     *)
LEMMA StoreKeeps ==
  ASSUME SelectInv, NEW i \in Slots, DataStore(i)
  PROVE  SelectInv' /\ [TransferNext]_transferVars
<1>1. PICK c \in Clients : c = clientfd[i]
  BY InvParts DEF DataStore, Receive, SelectTypeOK
<1>2. toServer[c] # <<>> /\ Head(toServer[c]).cmd = "DATA_STORE"
  BY <1>1 DEF DataStore, Receive
<1>3. /\ IsRequest(c, Head(toServer[c])) /\ toClient[c] = <<>> /\ told[c] = "nothing"
      /\ memory[i] # "freed" /\ OwnData(i, c)
      /\ name[c] \in Names /\ pos[c] \in Nat /\ pos[c] <= Size[name[c]]
  BY <1>1, <1>2, PacketOfSlot
<1>4. /\ SelectTypeOK /\ ServiceTypeOK /\ FilesWhole /\ Connection(c)
      /\ disk \in [Names -> Seq(Block)] /\ data \in [Slots -> Seq(Block)]
      /\ memory[i] \in {"NULL", "allocated", "freed"}
  BY InvParts DEF SelectTypeOK
<1>5. PICK n \in Names : n = name[c]
  BY <1>3
<1>6. Head(toServer[c]).data[1].of = n
  <2>1. Head(toServer[c]) = Packet("DATA_STORE", <<[of |-> n, no |-> 0]>>)
    BY <1>2, <1>3, <1>5 DEF IsRequest
  <2>2. Head(toServer[c]).data = <<[of |-> n, no |-> 0]>>
    BY <2>1 DEF Packet
  <2>3. Head(toServer[c]).data[1] = [of |-> n, no |-> 0]
    BY <2>2, ShortStreams
  <2>4. QED BY <2>3
<1>7. data[i] = SubSeq(File(name[c]), 1, pos[c]) /\ data[i] = File(n)
  <2>1. data[i] = SubSeq(File(name[c]), 1, pos[c])
    BY <1>2, <1>3, <1>4, ConcatEmptySeq DEF OwnData, InFlight
  <2>2. pos[c] >= Size[n]
    BY <1>2, <1>4, <1>5 DEF Connection, NoMore
  <2>3. QED BY <1>3, <1>5, <2>1, <2>2, PrefixWhole
<1>8. PICK s \in 0 .. SEQ_SIZE - 1 : s = NextNumber(i)
  BY <1>4, NumberTypes
<1>9. \/ /\ \E k \in 0 .. Size[n] :
               /\ disk' = [disk EXCEPT ![n] = Overwritten(@, Part(n, k))]
               /\ torn' = torn \cup {c} \/ (torn' = torn /\ k = Size[n])
         /\ memory' = [memory EXCEPT ![i] = "freed"]
         /\ Number(i, s) /\ Answer(c, "FILE_STORED", s) /\ data' = data
      \/ /\ disk' = [disk EXCEPT ![n] = Created(@)] \/ disk' = disk
         /\ Number(i, s) /\ Answer(c, "STORED_ERROR", s) /\ UNCHANGED <<torn, memory, data>>
  <2>1. Store(i, n)
    BY <1>1, <1>6 DEF DataStore
  <2>2. Len(data[i]) = Size[n] /\ Size[n] \in Nat /\ Size[n] \in 0 .. Size[n] /\ data[i] = Part(n, Size[n])
    <3>1. Len(File(n)) = Size[n] /\ Part(n, Size[n]) = File(n)
      BY FileType, PartEnds
    <3>2. Size[n] \in Nat
      BY TransferAssumption
    <3>3. Size[n] \in 0 .. Size[n]
      BY <3>2
    <3>4. Len(data[i]) = Size[n] /\ data[i] = Part(n, Size[n])
      <4>1. data[i] = File(n)
        BY <1>7
      <4>2. QED BY <3>1, <4>1
    <3>5. QED BY <3>2, <3>3, <3>4
  <2>3. ASSUME NEW k \in 0 .. Len(data[i]) - 1, WriteUpTo(c, n, data[i], k)
        PROVE  /\ k \in 0 .. Size[n] /\ torn' = torn \cup {c}
               /\ disk' = [disk EXCEPT ![n] = Overwritten(@, Part(n, k))]
    <3>1. SubSeq(data[i], 1, k) = Part(n, k)
      <4>1. data[i] = File(n)
        BY <1>7
      <4>2. QED BY <4>1 DEF Part
    <3>2. k \in 0 .. Size[n]
      BY <2>2
    <3>3. QED BY <2>3, <3>1, <3>2 DEF WriteUpTo
  <2>4. CASE /\ disk' = [disk EXCEPT ![n] = Overwritten(@, data[i])]
             /\ memory' = [memory EXCEPT ![i] = "freed"]
             /\ Number(i, s) /\ Answer(c, "FILE_STORED", s) /\ UNCHANGED <<torn, data>>
    <3>1. disk' = [disk EXCEPT ![n] = Overwritten(@, Part(n, Size[n]))]
      BY <2>2, <2>4
    <3>2. QED BY <2>2, <2>4, <3>1
  <2>5. CASE /\ \E k \in 0 .. Len(data[i]) - 1 : WriteUpTo(c, n, data[i], k)
             /\ memory' = [memory EXCEPT ![i] = "freed"]
             /\ Number(i, s) /\ Answer(c, "FILE_STORED", s) /\ UNCHANGED data
    BY <2>3, <2>5
  <2>6. QED BY <1>1, <1>3, <1>8, <2>1, <2>4, <2>5 DEF Store, UseAfterFree
<1>10. ASSUME NEW ans, Number(i, s), Answer(c, ans, s)
       PROVE  Serves(i, c, "DATA_STORE", ans, s)
  BY <1>1, <1>10 DEF DataStore, Receive, Serves, clientVars, programVars
<1>11. UNCHANGED <<name, told>> /\ name[c] # NoName
  BY <1>3, TransferAssumption DEF DataStore
<1>12. data' = data => data' = [data EXCEPT ![i] = data[i]]
  BY <1>4
<1>13. data[i] \in Seq(Block) /\ "FILE_STORED" \in Answers /\ "STORED_ERROR" \in Answers
  BY <1>4 DEF Answers
<1>14. ASSUME NEW k \in 0 .. Size[n],
              disk' = [disk EXCEPT ![n] = Overwritten(@, Part(n, k))],
              torn' = torn \cup {c} \/ (torn' = torn /\ k = Size[n]),
              memory' = [memory EXCEPT ![i] = "freed"],
              Number(i, s), Answer(c, "FILE_STORED", s), data' = data
       PROVE  SelectInv' /\ [TransferNext]_transferVars
  <2>1. Overwritten(disk[n], Part(n, k)) \in Seq(Block)
    BY <1>4, PartType, OverwrittenBlocks
  <2>2. disk' = [disk EXCEPT ![n] = Overwritten(disk[n], Part(n, k))]
    BY <1>14
  <2>3. /\ disk' \in [Names -> Seq(Block)] /\ disk'[n] = Overwritten(disk[n], Part(n, k))
        /\ torn' \subseteq Clients
    BY <1>4, <1>14, <2>1, <2>2 DEF SelectTypeOK
  <2>4. Keep(c)
    <3>1. \A m \in Names \ {name[c]} : disk'[m] = disk[m]
      BY <1>4, <1>5, <2>2
    <3>2. torn' \in {torn, torn \cup {c}} /\ (c \in torn' \/ k = Size[n])
      BY <1>14
    <3>3. QED BY <1>3, <1>5, <1>11, <2>3, <3>1, <3>2 DEF Keep
  <2>5. [TransferNext]_transferVars
    BY <2>4 DEF TransferNext
  <2>6. StoredFor(c)'
    <3>1. CASE c \in torn'
      BY <3>1 DEF StoredFor
    <3>2. CASE k = Size[n]
      <4>1. disk'[n] = Overwritten(disk[n], File(n))
        BY <2>3, <3>2, PartEnds
      <4>2. QED BY <1>3, <1>4, <1>5, <1>11, <4>1, WrittenIsStored
    <3>3. QED BY <1>14, <3>1, <3>2
  <2>7. Serves(i, c, "DATA_STORE", "FILE_STORED", s)
    BY <1>10, <1>14
  <2>8. SelectInv'
    BY <1>7, <1>8, <1>12, <1>13, <1>14, <2>3, <2>5, <2>6, <2>7, ServesInv
  <2>9. QED BY <2>5, <2>8
<1>15. CASE /\ disk' = [disk EXCEPT ![n] = Created(@)] \/ disk' = disk
            /\ Number(i, s) /\ Answer(c, "STORED_ERROR", s) /\ UNCHANGED <<torn, memory, data>>
  <2>1. Created(disk[n]) \in Seq(Block)
    BY <1>4, CreatedType
  <2>2. disk' \in [Names -> Seq(Block)] /\ torn' \subseteq Clients
    BY <1>4, <1>15, <2>1 DEF SelectTypeOK
  <2>3. [TransferNext]_transferVars
    BY <1>5, <1>11, <1>15 DEF TransferNext, Create, transferVars
  <2>4. Serves(i, c, "DATA_STORE", "STORED_ERROR", s)
    BY <1>10, <1>15
  <2>5. memory' = [memory EXCEPT ![i] = memory[i]] /\ data' = [data EXCEPT ![i] = data[i]]
    BY <1>4, <1>12, <1>15 DEF SelectTypeOK
  <2>6. "STORED_ERROR" # "FILE_STORED"
    OBVIOUS
  <2>7. SelectInv'
    BY <1>3, <1>4, <1>7, <1>8, <1>13, <2>2, <2>3, <2>4, <2>5, <2>6, ServesInv
  <2>8. QED BY <2>3, <2>7
<1>16. QED BY <1>9, <1>14, <1>15

(* What is in a queue without its first element.                           *)
LEMMA TailFacts ==
  ASSUME NEW S, NEW s \in Seq(S), s # <<>>
  PROVE  /\ Head(s) \in S /\ Head(s) = s[1] /\ 1 \in DOMAIN s /\ Tail(s) \in Seq(S)
         /\ \A k \in DOMAIN Tail(s) : k + 1 \in DOMAIN s /\ Tail(s)[k] = s[k + 1] /\ k + 1 # 1
         /\ \A k \in DOMAIN s : k = 1 \/ (k - 1 \in DOMAIN Tail(s) /\ Tail(s)[k - 1] = s[k])
         /\ \A k, m \in DOMAIN Tail(s) : k + 1 = m + 1 => k = m
<1>1. /\ Head(s) \in S /\ Tail(s) \in Seq(S) /\ Len(Tail(s)) = Len(s) - 1 /\ Head(s) = s[1]
      /\ \A k \in 1 .. Len(Tail(s)) : Tail(s)[k] = s[k + 1]
  BY HeadTailProperties
<1>2. Len(s) \in Nat \ {0} /\ DOMAIN s = 1 .. Len(s)
  BY EmptySeq
<1>3. DOMAIN Tail(s) = 1 .. Len(s) - 1
  BY <1>1
<1>4. QED BY <1>1, <1>2, <1>3

(* The connections that wait when the first is accepted.                   *)
LEMMA AcceptWaiting ==
  ASSUME SelectInv, Accept
  PROVE  /\ Head(backlog) \in Waiting \cap Clients /\ backlog' \in Seq(Clients)
         /\ Waiting' = Waiting \ {Head(backlog)}
         /\ \A k, m \in DOMAIN backlog' : backlog'[k] = backlog'[m] => k = m
<1>1. PICK q \in Seq(Clients) : q = backlog
  BY InvParts DEF ClientTypeOK
<1>2. q # <<>> /\ backlog' = Tail(q)
  BY <1>1 DEF Accept
<1>3. /\ Head(q) \in Clients /\ Head(q) = q[1] /\ 1 \in DOMAIN q /\ Tail(q) \in Seq(Clients)
      /\ \A k \in DOMAIN Tail(q) : k + 1 \in DOMAIN q /\ Tail(q)[k] = q[k + 1] /\ k + 1 # 1
      /\ \A k \in DOMAIN q : k = 1 \/ (k - 1 \in DOMAIN Tail(q) /\ Tail(q)[k - 1] = q[k])
      /\ \A k, m \in DOMAIN Tail(q) : k + 1 = m + 1 => k = m
  BY <1>2, TailFacts
<1>4. \A k, m \in DOMAIN q : q[k] = q[m] => k = m
  BY <1>1, InvParts DEF Places
<1>5. Waiting = {q[k] : k \in DOMAIN q} /\ Waiting' = {Tail(q)[k] : k \in DOMAIN Tail(q)}
  BY <1>1, <1>2 DEF Waiting
<1>6. Waiting' \subseteq Waiting \ {q[1]}
  BY <1>3, <1>4, <1>5
<1>7. Waiting \ {q[1]} \subseteq Waiting'
  <2>1. SUFFICES ASSUME NEW k \in DOMAIN q, q[k] # q[1] PROVE q[k] \in Waiting'
    BY <1>5
  <2>2. k # 1
    BY <2>1
  <2>3. k - 1 \in DOMAIN Tail(q) /\ Tail(q)[k - 1] = q[k]
    BY <1>3, <2>2
  <2>4. QED BY <1>5, <2>3
<1>8. ASSUME NEW k \in DOMAIN Tail(q), NEW m \in DOMAIN Tail(q), Tail(q)[k] = Tail(q)[m]
      PROVE  k = m
  BY <1>3, <1>4, <1>8
<1>9. Waiting' = Waiting \ {q[1]} /\ q[1] \in Waiting
  BY <1>3, <1>5, <1>6, <1>7
<1>10. QED BY <1>1, <1>2, <1>3, <1>8, <1>9

(* Moving a connection to a slot, or to those without one.                 *)
LEMMA AcceptPlaces ==
  ASSUME SelectInv, Accept
  PROVE  Places'
<1>1. PICK c \in Clients : c = Head(backlog)
  BY AcceptWaiting
<1>2. /\ c \in Waiting /\ Waiting' = Waiting \ {c}
      /\ \A k, m \in DOMAIN backlog' : backlog'[k] = backlog'[m] => k = m
  BY <1>1, AcceptWaiting
<1>3. Places /\ SelectTypeOK /\ UNCHANGED <<cpc, closed>>
  BY InvParts DEF Accept, clientVars
<1>4. c \notin forgotten \cup Slotted \cup closed /\ cpc[c] # "start" /\ c # NoClient
  BY <1>2, <1>3, SlotsAssumption DEF Places
<1>5. CASE forgotten' = forgotten \cup {c} /\ clientfd' = clientfd
  <2>1. Slotted' = Slotted
    BY <1>5 DEF Slotted
  <2>2. QED BY <1>2, <1>3, <1>4, <1>5, <2>1 DEF Places
<1>6. ASSUME NEW i \in Slots, clientfd[i] = NoClient, clientfd' = [clientfd EXCEPT ![i] = c],
             forgotten' = forgotten
      PROVE  Places'
  <2>1. /\ clientfd'[i] = c
        /\ \A j \in Slots \ {i} : clientfd'[j] = clientfd[j] /\ clientfd[j] # c
    BY <1>3, <1>4, <1>6 DEF SelectTypeOK, Slotted
  <2>2. /\ Slotted' \subseteq Slotted \cup {c} /\ c \in Slotted'
        /\ \A d \in Clients : d \in Slotted => d \in Slotted'
    BY <1>6, <2>1, SlotsAssumption DEF Slotted
  <2>3. \A j, k \in Slots : clientfd'[j] = clientfd'[k] /\ clientfd'[j] # NoClient => j = k
    BY <1>3, <2>1 DEF Places
  <2>4. QED BY <1>2, <1>3, <1>4, <1>6, <2>2, <2>3 DEF Places
<1>7. QED BY <1>1, <1>5, <1>6 DEF Accept

(* The slot of a connection that is accepted.                              *)
LEMMA AcceptSlot ==
  ASSUME SelectInv, NEW i \in Slots, NEW c \in Clients, clientfd[i] = NoClient, c \in Waiting,
         clientfd'[i] = c,
         UNCHANGED <<clientVars, netVars, transferVars, memory, data, lastSeqNum>>
  PROVE  SlotOK(i)'
<1> USE DEF clientVars, netVars, transferVars
<1>1. /\ toServer[c] = <<Packet("CLIENT_HELLO", <<>>)>> /\ Exchange(c) /\ Connection(c)
      /\ memory[i] = "NULL" /\ data[i] = <<>> /\ c # NoClient
  BY InvParts, SlotsAssumption DEF Connection, SlotOK
<1>2. PICK p : p = Packet("CLIENT_HELLO", <<>>)
  OBVIOUS
<1>3. toServer[c] # <<>> /\ Head(toServer[c]) = p /\ p.cmd = "CLIENT_HELLO"
  BY <1>1, <1>2, ShortStreams DEF Packet
<1>4. toClient[c] = <<>> /\ pos[c] = 0 /\ got[c].cmd = "none" /\ InFlight(c) = <<>>
  BY <1>1, <1>3 DEF Exchange, Connection, InFlight
<1>5. SubSeq(File(name[c]), 1, 0) = <<>> /\ <<>> \o <<>> = <<>>
  BY SubSeqEmpty, EmptySeq, ConcatEmptySeq
<1>6. OwnData(i, c)'
  <2>1. InFlight(c)' = <<>>
    BY <1>4 DEF InFlight
  <2>2. QED BY <1>1, <1>4, <1>5, <2>1 DEF OwnData
<1>7. SlotOf(i, c)'
  BY <1>1, <1>4, <1>6 DEF SlotOf
<1>8. QED BY <1>1, <1>7 DEF SlotOK

(* A connection that is accepted.                                          *)
LEMMA AcceptKeeps ==
  ASSUME SelectInv, Accept
  PROVE  SelectInv' /\ UNCHANGED transferVars
<1>1. /\ SelectTypeOK /\ ProgramTypeOK /\ ClientTypeOK /\ NumberNotEarlier
      /\ Domains /\ up = "running"
  BY InvParts, TypesDomains
<1>2. /\ UNCHANGED <<clientVars, netVars, transferVars, memory, data, lastSeqNum>>
      /\ UNCHANGED <<cpc, got, pos, toServer, toClient, reset, closed, name, disk, told, torn, mpc, threadNum, up>>
  BY DEF Accept, clientVars, netVars, transferVars, programVars
<1>3. PICK c \in Clients : c = Head(backlog)
  BY AcceptWaiting
<1>4. c \in Waiting /\ Waiting' = Waiting \ {c} /\ backlog' \in Seq(Clients)
  BY <1>3, AcceptWaiting
<1>5. \/ forgotten' = forgotten \cup {c} /\ clientfd' = clientfd
      \/ \E i \in Slots : /\ clientfd[i] = NoClient /\ forgotten' = forgotten
                          /\ clientfd' = [clientfd EXCEPT ![i] = c]
  BY <1>3 DEF Accept
<1>6. SelectTypeOK'
  <2>1. clientfd' \in [Slots -> Clients \cup {NoClient}] /\ forgotten' \subseteq Clients
    BY <1>1, <1>5 DEF SelectTypeOK
  <2>2. QED BY <1>1, <1>2, <1>4, <2>1 DEF SelectTypeOK, ProgramTypeOK, ClientTypeOK
<1>7. NumberNotEarlier'
  BY <1>1, <1>2 DEF NumberNotEarlier
<1>8. ASSUME NEW d \in Clients PROVE Exchange(d)' /\ Connection(d)' /\ Promise(d)'
  <2>1. Same(d) /\ MoreThreads(d) /\ Local(d)
    BY <1>2, InvParts DEF Same, MoreThreads, Local
  <2>2. d \in (Waiting \cup forgotten)' => d \in Waiting \cup forgotten
    BY <1>4, <1>5
  <2>3. Local(d)'
    BY <2>1, <2>2, SameLocal
  <2>4. [TransferNext]_transferVars /\ toClient'[d] = toClient[d]
    BY <1>2
  <2>5. QED BY <2>3, <2>4, PromiseKept DEF Local
<1>9. ASSUME NEW i \in Slots PROVE SlotOK(i)'
  <2>1. CASE clientfd'[i] = clientfd[i]
    <3>1. SameSlot(i) /\ SlotOK(i)
      BY <1>2, <2>1, InvParts DEF SameSlot
    <3>2. Same(clientfd[i])
      BY <1>2 DEF Same
    <3>3. QED BY <3>1, <3>2, SameSlotOK
  <2>2. CASE clientfd[i] = NoClient /\ clientfd'[i] = c
    BY <1>2, <1>4, <2>2, AcceptSlot
  <2>3. QED BY <1>1, <1>5, <2>1, <2>2 DEF Domains
<1>10. up' = "running" /\ UNCHANGED transferVars
  BY <1>1, <1>2
<1>11. QED BY <1>6, <1>7, <1>8, <1>9, <1>10, AcceptPlaces, InvMade

(* A connection that is closed.                                            *)
LEMMA CloseKeeps ==
  ASSUME SelectInv, NEW i \in Slots, CloseSlot(i)
  PROVE  SelectInv' /\ UNCHANGED transferVars
<1>1. /\ SelectTypeOK /\ ProgramTypeOK /\ ClientTypeOK /\ NumberNotEarlier
      /\ Domains /\ up = "running" /\ Places
  BY InvParts, TypesDomains
<1>2. UNCHANGED <<cpc, got, pos, backlog, toServer, toClient, reset, name, disk, told, torn, mpc, threadNum, up, forgotten>>
  BY DEF CloseSlot, clientVars, netVars, transferVars, programVars
<1>3. PICK c \in Clients : c = clientfd[i]
  BY <1>1 DEF CloseSlot, SelectTypeOK
<1>4. /\ Gone(c) /\ toServer[c] = <<>> /\ closed' = closed \cup {c} /\ c # NoClient
      /\ clientfd' = [clientfd EXCEPT ![i] = NoClient] /\ memory' = [memory EXCEPT ![i] = "NULL"]
      /\ data' = [data EXCEPT ![i] = <<>>] /\ lastSeqNum' = [lastSeqNum EXCEPT ![i] = 0]
  BY <1>3 DEF CloseSlot
<1>5. SelectTypeOK'
  <2>1. 0 \in 0 .. SEQ_SIZE - 1 /\ <<>> \in Seq(Block)
    BY ClientAssumption, EmptySeq
  <2>2. /\ clientfd' \in [Slots -> Clients \cup {NoClient}] /\ closed' \subseteq Clients
        /\ memory' \in [Slots -> {"NULL", "allocated", "freed"}]
        /\ data' \in [Slots -> Seq(Block)] /\ lastSeqNum' \in [Slots -> 0 .. SEQ_SIZE - 1]
    BY <1>1, <1>4, <2>1 DEF SelectTypeOK, ClientTypeOK
  <2>3. QED BY <1>1, <1>2, <2>2 DEF SelectTypeOK, ProgramTypeOK, ClientTypeOK
<1>6. NumberNotEarlier' /\ Waiting' = Waiting
  BY <1>1, <1>2 DEF NumberNotEarlier, Waiting
<1>7. /\ clientfd'[i] = NoClient /\ memory'[i] = "NULL" /\ data'[i] = <<>>
      /\ \A j \in Slots \ {i} : SameSlot(j) /\ clientfd[j] # c
  BY <1>1, <1>3, <1>4 DEF Domains, SameSlot, Places
<1>8. Places'
  <2>1. /\ Slotted' \subseteq (Slotted \ {c}) \cup {NoClient}
        /\ \A d \in Clients \ {c} : d \in Slotted => d \in Slotted'
    BY <1>3, <1>4, <1>7 DEF Slotted, SameSlot
  <2>2. c \in Slotted /\ cpc[c] \notin {"start", "read"}
    BY <1>3, <1>4 DEF Slotted, Gone
  <2>3. /\ NoClient \notin Waiting \cup forgotten \cup closed \cup {c}
        /\ Waiting \subseteq Clients
    <3>1. backlog \in Seq(Clients) /\ forgotten \subseteq Clients /\ closed \subseteq Clients
      BY <1>1 DEF SelectTypeOK, ClientTypeOK
    <3>2. Waiting \subseteq Clients
      BY <3>1, ElementOfSeq DEF Waiting
    <3>3. QED BY <3>1, <3>2, SlotsAssumption
  <2>4. \A j, k \in Slots : clientfd'[j] = clientfd'[k] /\ clientfd'[j] # NoClient => j = k
    BY <1>1, <1>7 DEF Places, SameSlot
  <2>5. \A k, m \in DOMAIN backlog' : backlog'[k] = backlog'[m] => k = m
    BY <1>1, <1>2 DEF Places
  <2>6. /\ Waiting \cap (forgotten \cup Slotted' \cup closed') = {}
        /\ forgotten \cap (Slotted' \cup closed') = {} /\ Slotted' \cap closed' = {}
    BY <1>1, <1>4, <2>1, <2>2, <2>3 DEF Places
  <2>7. \A d \in Clients :
          /\ cpc[d] = "start" => d \notin Waiting \cup forgotten \cup Slotted' \cup closed'
          /\ cpc[d] = "read" => d \in Waiting \cup forgotten \cup Slotted'
    BY <1>1, <1>4, <2>1, <2>2, SlotsAssumption DEF Places
  <2>8. QED BY <1>2, <1>6, <2>4, <2>5, <2>6, <2>7 DEF Places
<1>9. ASSUME NEW d \in Clients PROVE Exchange(d)' /\ Connection(d)' /\ Promise(d)'
  <2>1. Exchange(d)'
    BY <1>2, InvParts DEF Exchange, IsRequest
  <2>2. Connection(d)'
    <3>1. Gone(d)' = Gone(d) /\ NoMore(d)' = NoMore(d)
      BY <1>2 DEF Gone, NoMore
    <3>2. QED BY <1>2, <1>4, <1>6, <3>1, InvParts DEF Connection
  <2>3. toClient'[d] = toClient[d] /\ [TransferNext]_transferVars
    BY <1>2 DEF transferVars
  <2>4. QED BY <2>1, <2>2, <2>3, PromiseKept
<1>10. ASSUME NEW j \in Slots PROVE SlotOK(j)'
  <2>1. CASE j = i
    BY <1>7, <2>1 DEF SlotOK
  <2>2. CASE j # i
    <3>1. clientfd[j] # c /\ SameSlot(j) /\ SlotOK(j)
      BY <1>7, <2>2, InvParts
    <3>2. Same(clientfd[j])
      BY <1>2, <1>4, <3>1 DEF Same
    <3>3. QED BY <3>1, <3>2, SameSlotOK
  <2>3. QED BY <2>1, <2>2
<1>11. up' = "running" /\ UNCHANGED transferVars
  BY <1>1, <1>2 DEF transferVars
<1>12. QED BY <1>5, <1>6, <1>8, <1>9, <1>10, <1>11, InvMade

-----------------------------------------------------------------------------
(* The steps of a thread                                                   *)

(* A thread reads the one answer it waits for, from its slot.              *)
LEMMA ReplyFacts ==
  ASSUME SelectInv, NEW c \in Clients, NEW cmd, Reply(c, cmd)
  PROVE  /\ cpc[c] = "read" /\ toServer[c] = <<>> /\ toClient[c] # <<>>
         /\ Head(toClient[c]).cmd = cmd /\ Head(toClient[c]) \in AnswerType
         /\ got' = [got EXCEPT ![c] = Head(toClient[c])]
         /\ toClient' = [toClient EXCEPT ![c] = <<>>]
         /\ c \notin closed \cup reset \cup Waiting \cup forgotten
         /\ told[c] = "nothing" /\ name[c] \in Names /\ pos[c] \in Nat /\ pos[c] <= Size[name[c]]
         /\ \E i \in Slots : clientfd[i] = c
<1>1. /\ SelectTypeOK /\ ClientTypeOK /\ Exchange(c) /\ Connection(c) /\ Places
  BY InvParts
<1>2. cpc[c] = "read" /\ ~Gone(c)
  BY DEF Reply, Gone
<1>3. c \notin closed \cup reset
  BY <1>1, <1>2 DEF Connection
<1>4. /\ toClient[c] # <<>> /\ Head(toClient[c]).cmd = cmd
      /\ got' = [got EXCEPT ![c] = Head(toClient[c])]
      /\ toClient' = [toClient EXCEPT ![c] = Tail(@)]
  BY <1>3 DEF Reply
<1>5. toServer[c] = <<>> /\ Len(toClient[c]) = 1
  BY <1>1, <1>4 DEF Exchange
<1>6. toClient[c] \in Seq(AnswerType)
  BY <1>1 DEF ClientTypeOK, AnswerType
<1>7. Head(toClient[c]) \in AnswerType /\ Tail(toClient[c]) = <<>>
  <2>1. /\ Head(toClient[c]) \in AnswerType /\ Tail(toClient[c]) \in Seq(AnswerType)
        /\ Len(Tail(toClient[c])) = Len(toClient[c]) - 1
    BY <1>4, <1>6, HeadTailProperties
  <2>2. Len(Tail(toClient[c])) = 0
    BY <1>5, <2>1
  <2>3. QED BY <2>1, <2>2, EmptySeq
<1>8. c \notin Waiting \cup forgotten
  <2>1. <<Packet("CLIENT_HELLO", <<>>)>> # <<>>
    BY ShortStreams
  <2>2. QED BY <1>1, <1>5, <2>1 DEF Connection
<1>9. \E i \in Slots : clientfd[i] = c
  BY <1>1, <1>2, <1>8 DEF Places, Slotted
<1>10. told[c] = "nothing" /\ name[c] \in Names /\ name[c] # NoName
  BY <1>1, <1>2 DEF Connection, SelectTypeOK
<1>11. pos[c] \in Nat /\ pos[c] <= Size[name[c]]
  BY <1>1, <1>10 DEF Connection, ClientTypeOK
<1>12. QED BY <1>2, <1>3, <1>4, <1>5, <1>7, <1>8, <1>9, <1>10, <1>11

(* What SeqConsecutive says of a step.                                     *)
SeqStep ==
  \A c \in Clients :
     got'[c] # got[c] /\ got[c].cmd # "none" =>
        got'[c].seq = (got[c].seq + 1) % SEQ_SIZE

(* The answer has the next number.                                         *)
LEMMA ReplySeq ==
  ASSUME SelectInv, NEW c \in Clients, NEW cmd, Reply(c, cmd)
  PROVE  SeqStep
<1>1. /\ cpc[c] = "read" /\ toClient[c] # <<>>
      /\ got' = [got EXCEPT ![c] = Head(toClient[c])]
  BY ReplyFacts
<1>2. PICK i \in Slots : clientfd[i] = c
  BY ReplyFacts
<1>3. SlotOf(i, c) /\ Domains
  BY <1>2, InvParts, TypesDomains, SlotsAssumption DEF SlotOK
<1>4. got[c].cmd # "none" => Head(toClient[c]).seq = (got[c].seq + 1) % SEQ_SIZE
  BY <1>1, <1>3 DEF SlotOf
<1>5. got'[c] = Head(toClient[c]) /\ \A d \in Clients : d # c => got'[d] = got[d]
  BY <1>1, <1>3 DEF Domains
<1>6. QED BY <1>4, <1>5 DEF SeqStep

(* Steps of the clients that leave the server and its queue alone.         *)
ServerAlone ==
  UNCHANGED <<backlog, closed, name, mpc, threadNum, up, forgotten, clientfd, memory, data, lastSeqNum>>

(* Of these only the step of thread c has to be looked at.                 *)
LEMMA ThreadInv ==
  ASSUME SelectInv, [TransferNext]_transferVars, ServerAlone, NEW c \in Clients,
         ClientTypeOK', UNCHANGED <<disk, torn>>, told' \in [Clients -> {"nothing", "stored", "failed"}],
         cpc[c] = "read", cpc'[c] # "start", toClient'[c] = <<>>,
         \A d \in Clients \ {c} : Same(d),
         Local(c)', \A i \in Slots : clientfd[i] = c => SlotOK(i)'
  PROVE  SelectInv'
<1>1. /\ SelectTypeOK /\ ProgramTypeOK /\ NumberNotEarlier /\ Places /\ up = "running"
  BY InvParts
<1>2. SelectTypeOK' /\ NumberNotEarlier' /\ up' = "running"
  BY <1>1 DEF SelectTypeOK, ProgramTypeOK, NumberNotEarlier, ServerAlone
<1>3. Places' /\ Waiting' = Waiting
  <2>1. \A d \in Clients : /\ cpc'[d] = "start" => cpc[d] = "start"
                           /\ cpc'[d] = "read" => cpc[d] = "read"
    BY DEF Same
  <2>2. QED BY <1>1, <2>1, SamePlaces DEF ServerAlone
<1>4. ASSUME NEW d \in Clients PROVE Exchange(d)' /\ Connection(d)' /\ Promise(d)'
  <2>1. CASE d = c
    BY <2>1, PromiseKept DEF Local
  <2>2. CASE d # c
    <3>1. Same(d) /\ Local(d) /\ MoreThreads(d)
      BY <2>2, InvParts DEF Local, MoreThreads, ServerAlone
    <3>2. d \in (Waiting \cup forgotten)' => d \in Waiting \cup forgotten
      BY <1>3 DEF ServerAlone
    <3>3. Local(d)'
      BY <3>1, <3>2, SameLocal
    <3>4. toClient'[d] = toClient[d]
      BY <3>1 DEF Same
    <3>5. QED BY <3>3, <3>4, PromiseKept DEF Local
  <2>3. QED BY <2>1, <2>2
<1>5. ASSUME NEW i \in Slots, clientfd[i] # c PROVE SlotOK(i)'
  <2>1. SameSlot(i) /\ SlotOK(i)
    BY InvParts DEF SameSlot, ServerAlone
  <2>2. clientfd[i] # NoClient => Same(clientfd[i])
    BY <1>1, <1>5 DEF SelectTypeOK
  <2>3. QED BY <2>1, <2>2, SameSlotOK
<1>6. QED BY <1>2, <1>3, <1>4, <1>5, InvMade

(* The next request of a client, and what its slot makes of it.            *)
LEMMA SendSlot ==
  ASSUME SelectInv, ServerAlone, NEW c \in Clients, NEW cmd \in {"SERVER_HELLO", "PKT_RECEIVED"},
         Reply(c, cmd), NEW p \in PacketType, Send(c, p), GoesOn(c, p),
         NEW i \in Slots, clientfd[i] = c
  PROVE  SlotOK(i)'
<1>1. /\ cpc[c] = "read" /\ toServer[c] = <<>> /\ toClient[c] # <<>>
      /\ Head(toClient[c]).cmd = cmd
      /\ got' = [got EXCEPT ![c] = Head(toClient[c])]
      /\ toClient' = [toClient EXCEPT ![c] = <<>>]
      /\ c \notin closed /\ name[c] \in Names /\ pos[c] \in Nat /\ pos[c] <= Size[name[c]]
  BY ReplyFacts
<1>2. SlotOf(i, c) /\ Domains /\ c # NoClient /\ data[i] \in Seq(Block)
  BY InvParts, TypesDomains, SlotsAssumption DEF SlotOK, SelectTypeOK
<1>3. /\ cpc' = cpc /\ toServer' = [toServer EXCEPT ![c] = Append(@, p)]
  BY <1>1 DEF Send
<1>4. /\ got'[c] = Head(toClient[c]) /\ toClient'[c] = <<>> /\ toServer'[c] = <<p>>
      /\ toServer'[c] # <<>> /\ Head(toServer'[c]) = p
  <2>1. toServer'[c] = <<p>>
    BY <1>1, <1>2, <1>3, ShortStreams DEF Domains
  <2>2. QED BY <1>1, <1>2, <2>1, ShortStreams DEF Domains
<1>5. /\ memory[i] # "freed" /\ got'[c].seq = lastSeqNum[i]
      /\ data[i] \o InFlight(c) = SubSeq(File(name[c]), 1, pos[c])
  <2>1. cmd \notin {"FILE_STORED", "ERROR"}
    OBVIOUS
  <2>2. memory[i] # "freed"
    BY <1>1, <1>2, <2>1 DEF SlotOf
  <2>3. QED BY <1>1, <1>2, <1>4, <2>1, <2>2 DEF SlotOf, OwnData
<1>6. data[i] = SubSeq(File(name[c]), 1, pos[c])
  BY <1>1, <1>2, <1>5, ConcatEmptySeq DEF InFlight
<1>7. data[i] \o InFlight(c)' = SubSeq(File(name[c]), 1, pos'[c])
  <2>1. CASE p.cmd = "DATA_DELIVERY"
    <3>1. InFlight(c)' = p.data
      BY <1>4, <2>1 DEF InFlight
    <3>2. QED BY <1>6, <2>1, <3>1 DEF GoesOn
  <2>2. CASE p.cmd # "DATA_DELIVERY"
    <3>1. InFlight(c)' = <<>> /\ pos'[c] = pos[c]
      BY <1>4, <2>2 DEF InFlight, GoesOn
    <3>2. data[i] \o <<>> = data[i]
      BY <1>2, ConcatEmptySeq
    <3>3. QED BY <1>6, <3>1, <3>2
  <2>3. QED BY <2>1, <2>2
<1>8. OwnData(i, c)'
  BY <1>7 DEF OwnData, ServerAlone
<1>9. SlotOf(i, c)'
  BY <1>4, <1>5, <1>8 DEF SlotOf, ServerAlone
<1>10. QED BY <1>2, <1>9 DEF SlotOK, ServerAlone

(* The connection of the client that sends it.                             *)
LEMMA SendLocal ==
  ASSUME SelectInv, ServerAlone, NEW c \in Clients, NEW cmd, Reply(c, cmd), told' = told,
         NEW p \in PacketType, IsRequest(c, p), Send(c, p), GoesOn(c, p)
  PROVE  Local(c)' /\ cpc' = cpc /\ reset' = reset /\ toClient'[c] = <<>>
<1>1. /\ cpc[c] = "read" /\ toServer[c] = <<>>
      /\ got' = [got EXCEPT ![c] = Head(toClient[c])]
      /\ toClient' = [toClient EXCEPT ![c] = <<>>]
      /\ c \notin closed \cup reset \cup Waiting \cup forgotten
      /\ told[c] = "nothing" /\ name[c] \in Names /\ name[c] # NoName /\ pos[c] \in Nat
  BY ReplyFacts, TransferAssumption
<1>2. Domains /\ Connection(c)
  BY InvParts, TypesDomains
<1>3. cpc' = cpc /\ reset' = reset /\ toServer' = [toServer EXCEPT ![c] = Append(@, p)]
  BY <1>1 DEF Send
<1>4. /\ toServer'[c] = <<p>> /\ toServer'[c] # <<>> /\ Head(toServer'[c]) = p
      /\ toClient'[c] = <<>>
  <2>1. toServer'[c] = <<p>> /\ toClient'[c] = <<>>
    BY <1>1, <1>2, <1>3, ShortStreams DEF Domains
  <2>2. QED BY <2>1, ShortStreams
<1>5. name' = name /\ IsRequest(c, p)'
  BY DEF IsRequest, ServerAlone
<1>6. Exchange(c)'
  BY <1>1, <1>3, <1>4, <1>5 DEF Exchange
<1>7. c \notin (Waiting \cup forgotten)'
  BY <1>1 DEF Waiting, ServerAlone
<1>8. p.cmd = "DATA_STORE" => NoMore(c)'
  BY <1>1, TransferAssumption DEF GoesOn, NoMore, ServerAlone
<1>9. /\ pos'[c] <= Size[name[c]] /\ p.cmd # "CLIENT_HELLO"
  BY DEF GoesOn
<1>10. Connection(c)'
  BY <1>1, <1>2, <1>3, <1>4, <1>5, <1>7, <1>8, <1>9 DEF Connection, ServerAlone
<1>11. QED BY <1>3, <1>4, <1>6, <1>10 DEF Local

(* A client that goes on.                                                  *)
LEMMA SendInv ==
  ASSUME SelectInv, ServerAlone, NEW c \in Clients, NEW cmd \in {"SERVER_HELLO", "PKT_RECEIVED"},
         Reply(c, cmd), UNCHANGED transferVars, ClientTypeOK',
         NEW p \in PacketType, IsRequest(c, p), Send(c, p), GoesOn(c, p),
         \A d \in Clients \ {c} : pos'[d] = pos[d]
  PROVE  SelectInv'
<1>1. Domains /\ SelectTypeOK
  BY InvParts, TypesDomains
<1>2. UNCHANGED <<name, disk, told, torn>> /\ told' \in [Clients -> {"nothing", "stored", "failed"}]
  BY <1>1 DEF transferVars, SelectTypeOK
<1>3. Local(c)' /\ cpc' = cpc /\ reset' = reset /\ toClient'[c] = <<>>
  BY <1>2, SendLocal
<1>4. /\ cpc[c] = "read" /\ c \notin closed
      /\ got' = [got EXCEPT ![c] = Head(toClient[c])]
      /\ toClient' = [toClient EXCEPT ![c] = <<>>]
  BY ReplyFacts
<1>5. toServer' = [toServer EXCEPT ![c] = Append(@, p)]
  BY <1>4 DEF Send
<1>6. ASSUME NEW d \in Clients \ {c} PROVE Same(d)
  BY <1>1, <1>2, <1>3, <1>4, <1>5 DEF Same, Domains, ServerAlone
<1>7. \A i \in Slots : clientfd[i] = c => SlotOK(i)'
  BY SendSlot
<1>8. cpc'[c] # "start"
  BY <1>3, <1>4
<1>9. QED BY <1>2, <1>3, <1>4, <1>6, <1>7, <1>8, ThreadInv

(* A client that is told how its transfer has ended.                       *)
LEMMA ToldInv ==
  ASSUME SelectInv, ServerAlone, ClientTypeOK', NEW c \in Clients,
         NEW cmd, NEW what \in {"stored", "failed"}, Told(c, cmd, what),
         what = "stored" => cmd = "FILE_STORED"
  PROVE  SelectInv' /\ [TransferNext]_transferVars
<1>1. Reply(c, cmd)
  BY DEF Told
<1>2. /\ cpc[c] = "read" /\ toServer[c] = <<>> /\ toClient[c] # <<>>
      /\ Head(toClient[c]).cmd = cmd
      /\ got' = [got EXCEPT ![c] = Head(toClient[c])]
      /\ toClient' = [toClient EXCEPT ![c] = <<>>]
      /\ c \notin closed \cup reset \cup Waiting \cup forgotten
      /\ told[c] = "nothing" /\ name[c] \in Names /\ name[c] # NoName
  BY <1>1, ReplyFacts, TransferAssumption
<1>3. Domains /\ Connection(c) /\ Promise(c) /\ SelectTypeOK
  BY InvParts, TypesDomains
<1>4. /\ told' = [told EXCEPT ![c] = what] /\ cpc' = [cpc EXCEPT ![c] = "exited"]
      /\ UNCHANGED <<pos, toServer, reset, name, disk, torn>>
  BY DEF Told
<1>5. /\ toClient'[c] = <<>> /\ cpc'[c] = "exited" /\ told'[c] = what /\ toServer'[c] = <<>>
      /\ got'[c] = Head(toClient[c])
  BY <1>2, <1>3, <1>4 DEF Domains
<1>6. [TransferNext]_transferVars
  <2>1. CASE what = "stored"
    <3>1. StoredFor(c)
      BY <1>2, <1>3, <2>1 DEF Promise
    <3>2. TellStored(c)
      BY <1>2, <1>4, <2>1, <3>1 DEF TellStored, StoredFor
    <3>3. QED BY <3>2 DEF TransferNext
  <2>2. CASE what = "failed"
    <3>1. TellFailed(c)
      BY <1>2, <1>4, <2>2 DEF TellFailed
    <3>2. QED BY <3>1 DEF TransferNext
  <2>3. QED BY <2>1, <2>2
<1>7. ASSUME NEW d \in Clients \ {c} PROVE Same(d)
  BY <1>2, <1>3, <1>4 DEF Same, Domains, ServerAlone
<1>8. Exchange(c)'
  BY <1>5 DEF Exchange
<1>9. Connection(c)'
  <2>1. c \notin (Waiting \cup forgotten)'
    BY <1>2 DEF Waiting, ServerAlone
  <2>2. QED BY <1>2, <1>3, <1>4, <1>5, <2>1 DEF Connection, Gone, ServerAlone
<1>10. ASSUME NEW i \in Slots, clientfd[i] = c PROVE SlotOK(i)'
  <2>1. clientfd'[i] = c /\ c # NoClient
    BY <1>10, SlotsAssumption DEF ServerAlone
  <2>2. SlotOf(i, c)'
    BY <1>5 DEF SlotOf
  <2>3. QED BY <2>1, <2>2 DEF SlotOK
<1>11. told' \in [Clients -> {"nothing", "stored", "failed"}]
  BY <1>3, <1>4 DEF SelectTypeOK
<1>12. cpc'[c] # "start"
  BY <1>5
<1>13. QED BY <1>2, <1>4, <1>5, <1>6, <1>7, <1>8, <1>9, <1>10, <1>11, <1>12, ThreadInv DEF Local

(* A read never fails: who has reset the connection is gone.               *)
LEMMA NoReplyFails ==
  ASSUME SelectInv, NEW c \in Clients
  PROVE  ~ReplyFails(c)
<1>1. c \in reset => Gone(c)
  BY InvParts DEF Connection
<1>2. QED BY <1>1 DEF ReplyFails, Gone

(* What a client sends of its file.                                        *)
LEMMA BlockInv ==
  ASSUME SelectInv, ServerAlone, NEW c \in Clients, NEW cmd \in {"SERVER_HELLO", "PKT_RECEIVED"},
         Reply(c, cmd), UNCHANGED transferVars, ClientTypeOK',
         \/ SendBlock(c) \/ FileError(c)
         \/ /\ NoMore(c) /\ UNCHANGED pos
            /\ Send(c, Packet("DATA_STORE", <<[of |-> name[c], no |-> 0]>>))
  PROVE  SelectInv'
<1>1. /\ ClientTypeOK /\ Domains /\ name[c] \in Names /\ pos[c] <= Size[name[c]]
  BY ReplyFacts, InvParts, TypesDomains
<1>2. \A d \in Clients \ {c} : pos'[d] = pos[d]
  BY <1>1 DEF SendBlock, FileError, Domains
<1>3. \E p \in PacketType : IsRequest(c, p) /\ Send(c, p) /\ GoesOn(c, p)
  <2>1. CASE SendBlock(c)
    BY <1>1, <2>1, SendBlockGoesOn
  <2>2. CASE FileError(c)
    <3>1. Packet("ERROR", <<>>) \in PacketType
      BY PacketTypes DEF Commands
    <3>2. Send(c, Packet("ERROR", <<>>)) /\ pos' = pos
      BY <2>2 DEF FileError
    <3>3. QED BY <1>1, <3>1, <3>2, SendOtherGoesOn
  <2>3. CASE /\ NoMore(c) /\ UNCHANGED pos
             /\ Send(c, Packet("DATA_STORE", <<[of |-> name[c], no |-> 0]>>))
    <3>1. Packet("DATA_STORE", <<[of |-> name[c], no |-> 0]>>) \in PacketType
      BY <1>1, PacketTypes
    <3>2. QED BY <1>1, <2>3, <3>1, SendOtherGoesOn
  <2>4. QED BY <2>1, <2>2, <2>3
<1>4. QED BY <1>2, <1>3, SendInv

(* The step of a thread that has been answered.                            *)
LEMMA LoopKeeps ==
  ASSUME SelectInv, NEW c \in Clients, ClientLoop(c), name[c] # NoName,
         UNCHANGED <<programVars, up, forgotten, poolVars>>
  PROVE  SelectInv' /\ [TransferNext]_transferVars /\ SeqStep
<1>1. ServerAlone
  BY DEF ClientLoop, ServerHello, PktReceived, ReplyFails, Told, transferVars, programVars, poolVars,
         ServerAlone
<1>2. ClientTypeOK'
  <2>1. ClientTypeOK /\ name[c] \in Names /\ told \in [Clients -> {"nothing", "stored", "failed"}]
    BY InvParts DEF SelectTypeOK
  <2>2. QED BY <2>1, ClientStepTypes
<1>3. ~ReplyFails(c)
  BY NoReplyFails
<1>4. CASE ServerHello(c)
  <2>1. Reply(c, "SERVER_HELLO") /\ UNCHANGED transferVars /\ (SendBlock(c) \/ FileError(c))
    BY <1>4 DEF ServerHello
  <2>2. QED BY <1>1, <1>2, <2>1, BlockInv, ReplySeq
<1>5. CASE PktReceived(c)
  <2>1. Reply(c, "PKT_RECEIVED") /\ UNCHANGED transferVars
    BY <1>5 DEF PktReceived
  <2>2. SelectInv'
    BY <1>1, <1>2, <1>5, <2>1, BlockInv DEF PktReceived
  <2>3. QED BY <2>1, <2>2, ReplySeq
<1>6. ASSUME NEW cmd, NEW what \in {"stored", "failed"}, Told(c, cmd, what),
             what = "stored" => cmd = "FILE_STORED"
      PROVE  SelectInv' /\ [TransferNext]_transferVars /\ SeqStep
  <2>1. Reply(c, cmd)
    BY <1>6 DEF Told
  <2>2. QED BY <1>1, <1>2, <1>6, <2>1, ToldInv, ReplySeq
<1>7. "failed" # "stored"
  OBVIOUS
<1>8. QED BY <1>3, <1>4, <1>5, <1>6, <1>7 DEF ClientLoop

(* A thread takes the number that is in threadArgs.                        *)
LEMMA CopyKeeps ==
  ASSUME SelectInv, NEW c \in Clients, CopyArgs(c), UNCHANGED <<up, forgotten, poolVars>>
  PROVE  SelectInv' /\ [TransferNext]_transferVars
<1>1. /\ SelectTypeOK /\ ProgramTypeOK /\ ClientTypeOK /\ NumberNotEarlier /\ Places /\ Domains
      /\ Exchange(c) /\ Connection(c) /\ up = "running"
  BY InvParts, TypesDomains
<1>2. /\ UNCHANGED <<cpc, got, pos, backlog, toServer, toClient, reset, closed, disk, told, torn, mpc, threadNum,
                     up, forgotten, clientfd, memory, data, lastSeqNum>>
      /\ cpc[c] = "start" /\ name[c] = NoName
  BY DEF CopyArgs, clientVars, netVars, programVars, poolVars
<1>3. PICK n \in Names : n = threadNum[Program(c)] /\ n \in Index(c) .. threadNum[Program(c)]
  BY <1>1, NumberType DEF CopyArgs
<1>4. name' = [name EXCEPT ![c] = n]
  BY <1>3 DEF CopyArgs
<1>5. name'[c] = n /\ \A d \in Clients \ {c} : name'[d] = name[d]
  BY <1>1, <1>4 DEF Domains
<1>6. [TransferNext]_transferVars
  BY <1>2, <1>4 DEF TransferNext, Choose
<1>7. SelectTypeOK' /\ up' = "running"
  <2>1. name' \in [Clients -> Names \cup {NoName}]
    BY <1>1, <1>4 DEF SelectTypeOK
  <2>2. QED BY <1>1, <1>2, <2>1 DEF SelectTypeOK, ProgramTypeOK, ClientTypeOK
<1>8. NumberNotEarlier'
  BY <1>1, <1>2, <1>3, <1>5 DEF NumberNotEarlier
<1>9. Places' /\ Waiting' = Waiting
  BY <1>1, <1>2, SamePlaces
<1>10. toServer[c] = <<>> /\ toClient[c] = <<>> /\ pos[c] = 0
  BY <1>1, <1>2 DEF Connection
<1>11. Exchange(c)'
  BY <1>2, <1>10 DEF Exchange
<1>12. Connection(c)'
  <2>1. Index(c) <= threadNum[Program(c)] /\ Size[n] \in Nat /\ c \notin Waiting \cup forgotten
    BY <1>1, <1>2, TransferAssumption DEF CopyArgs, MayRun, Places
  <2>2. pos'[c] <= Size[name'[c]]
    BY <1>2, <1>5, <1>10, <2>1
  <2>3. QED BY <1>1, <1>2, <1>9, <1>10, <2>1, <2>2 DEF Connection, Gone
<1>13. ASSUME NEW d \in Clients PROVE Exchange(d)' /\ Connection(d)' /\ Promise(d)'
  <2>1. Promise(d)'
    BY <1>2, <1>6, PromiseKept
  <2>2. CASE d = c
    BY <1>11, <1>12, <2>1, <2>2
  <2>3. CASE d # c
    <3>1. Same(d) /\ MoreThreads(d) /\ Local(d)
      BY <1>2, <1>5, <2>3, InvParts DEF Same, MoreThreads, Local
    <3>2. Local(d)'
      BY <1>2, <1>9, <3>1, SameLocal
    <3>3. QED BY <2>1, <3>2 DEF Local
  <2>4. QED BY <2>2, <2>3
<1>14. ASSUME NEW i \in Slots PROVE SlotOK(i)'
  <2>1. SameSlot(i) /\ SlotOK(i)
    BY <1>2, InvParts DEF SameSlot
  <2>2. clientfd[i] # NoClient => clientfd[i] \in Clients /\ clientfd[i] # c
    BY <1>1, <1>2 DEF SelectTypeOK, Places, Slotted
  <2>3. clientfd[i] # NoClient => Same(clientfd[i])
    BY <1>2, <1>5, <2>2 DEF Same
  <2>4. QED BY <2>1, <2>3, SameSlotOK
<1>15. QED BY <1>6, <1>7, <1>8, <1>9, <1>13, <1>14, InvMade

(* A thread connects.                                                      *)
LEMMA ConnectKeeps ==
  ASSUME SelectInv, NEW c \in Clients, Connect(c), name[c] # NoName,
         UNCHANGED <<programVars, up, forgotten, poolVars>>
  PROVE  SelectInv' /\ UNCHANGED transferVars
<1>1. /\ SelectTypeOK /\ ProgramTypeOK /\ ClientTypeOK /\ NumberNotEarlier /\ Places /\ Domains
      /\ Exchange(c) /\ Connection(c) /\ up = "running" /\ name[c] \in Names
  BY InvParts, TypesDomains DEF SelectTypeOK
<1>2. PICK p : p = Packet("CLIENT_HELLO", <<>>)
  OBVIOUS
<1>3. /\ UNCHANGED <<got, pos, toClient, reset, closed, name, disk, told, torn, mpc, threadNum,
                     up, forgotten, clientfd, memory, data, lastSeqNum>>
      /\ cpc[c] = "start" /\ cpc' = [cpc EXCEPT ![c] = "read"]
      /\ backlog' = Append(backlog, c) /\ toServer' = [toServer EXCEPT ![c] = <<p>>]
  BY <1>2 DEF Connect, transferVars, programVars, poolVars
<1>4. SelectTypeOK' /\ up' = "running"
  <2>1. ClientTypeOK'
    BY <1>1, ClientStepTypes DEF SelectTypeOK
  <2>2. QED BY <1>1, <1>3, <2>1 DEF SelectTypeOK, ProgramTypeOK
<1>5. NumberNotEarlier'
  BY <1>1, <1>3 DEF NumberNotEarlier
<1>6. PICK q \in Seq(Clients) : q = backlog
  BY <1>1 DEF ClientTypeOK
<1>7. /\ Append(q, c) \in Seq(Clients) /\ DOMAIN q = 1 .. Len(q) /\ Len(q) \in Nat
      /\ DOMAIN Append(q, c) = 1 .. Len(q) + 1 /\ Append(q, c)[Len(q) + 1] = c
      /\ \A k \in 1 .. Len(q) : Append(q, c)[k] = q[k]
  BY <1>6
<1>8. Waiting' = Waiting \cup {c}
  <2>1. Waiting = {q[k] : k \in 1 .. Len(q)} /\ Waiting' = {Append(q, c)[k] : k \in 1 .. Len(q) + 1}
    BY <1>3, <1>6, <1>7 DEF Waiting
  <2>2. Waiting' \subseteq Waiting \cup {c}
    BY <1>7, <2>1
  <2>3. c \in Waiting'
    <3>1. Len(q) + 1 \in 1 .. Len(q) + 1
      BY <1>7
    <3>2. QED BY <1>7, <2>1, <3>1
  <2>4. Waiting \subseteq Waiting'
    <3>1. \A k \in 1 .. Len(q) : k \in 1 .. Len(q) + 1
      BY <1>7
    <3>2. QED BY <1>7, <2>1, <3>1
  <2>5. QED BY <2>2, <2>3, <2>4
<1>9. c \notin Waiting \cup forgotten \cup Slotted \cup closed
  BY <1>1, <1>3 DEF Places
<1>10. Places'
  <2>1. \A k, m \in 1 .. Len(q) + 1 : Append(q, c)[k] = Append(q, c)[m] => k = m
    <3>1. \A k \in 1 .. Len(q) : q[k] # c
      BY <1>6, <1>7, <1>9 DEF Waiting
    <3>2. \A k, m \in 1 .. Len(q) : q[k] = q[m] => k = m
      BY <1>1, <1>6, <1>7 DEF Places
    <3>3. \A k \in 1 .. Len(q) + 1 : k \in 1 .. Len(q) \/ k = Len(q) + 1
      BY <1>7
    <3>4. QED BY <1>7, <3>1, <3>2, <3>3
  <2>2. \A k, m \in DOMAIN backlog' : backlog'[k] = backlog'[m] => k = m
    BY <1>3, <1>6, <1>7, <2>1
  <2>3. Slotted' = Slotted
    BY <1>3 DEF Slotted
  <2>4. cpc'[c] = "read" /\ \A d \in Clients \ {c} : cpc'[d] = cpc[d]
    BY <1>1, <1>3 DEF Domains
  <2>5. \A d \in Clients :
          /\ cpc'[d] = "start" => d \notin Waiting' \cup forgotten \cup Slotted \cup closed
          /\ cpc'[d] = "read" => d \in Waiting' \cup forgotten \cup Slotted
    BY <1>1, <1>8, <2>4 DEF Places
  <2>6. Waiting' \cap (forgotten \cup Slotted \cup closed) = {}
    BY <1>1, <1>8, <1>9 DEF Places
  <2>7. QED BY <1>1, <1>3, <2>2, <2>3, <2>5, <2>6 DEF Places
<1>11. /\ toServer'[c] = <<p>> /\ toServer'[c] # <<>> /\ Head(toServer'[c]) = p
       /\ p.cmd = "CLIENT_HELLO" /\ p.data = <<>> /\ cpc'[c] = "read"
  <2>1. toServer'[c] = <<p>> /\ cpc'[c] = "read"
    BY <1>1, <1>3 DEF Domains
  <2>2. QED BY <1>2, <2>1, ShortStreams DEF Packet
<1>12. Exchange(c)'
  <2>1. toClient'[c] = <<>>
    BY <1>1, <1>3 DEF Connection, Exchange
  <2>2. IsRequest(c, p)'
    BY <1>11 DEF IsRequest
  <2>3. QED BY <1>11, <2>1, <2>2 DEF Exchange
<1>13. Connection(c)'
  <2>1. c \notin closed \cup reset /\ told[c] = "nothing"
    BY <1>1, <1>3 DEF Connection, Gone
  <2>2. QED BY <1>1, <1>2, <1>3, <1>11, <2>1 DEF Connection
<1>14. ASSUME NEW d \in Clients \ {c} PROVE Same(d)
  BY <1>1, <1>3 DEF Same, Domains
<1>15. UNCHANGED transferVars
  BY <1>3 DEF transferVars
<1>16. ASSUME NEW d \in Clients PROVE Exchange(d)' /\ Connection(d)' /\ Promise(d)'
  <2>1. Promise(d)'
    BY <1>3, <1>15, PromiseKept
  <2>2. CASE d = c
    BY <1>12, <1>13, <2>1, <2>2
  <2>3. CASE d # c
    <3>1. Same(d) /\ MoreThreads(d) /\ Local(d)
      BY <1>3, <1>14, <2>3, InvParts DEF MoreThreads, Local
    <3>2. Local(d)'
      BY <1>3, <1>8, <2>3, <3>1, SameLocal
    <3>3. QED BY <2>1, <3>2 DEF Local
  <2>4. QED BY <2>2, <2>3
<1>17. ASSUME NEW i \in Slots PROVE SlotOK(i)'
  <2>1. SameSlot(i) /\ SlotOK(i)
    BY <1>3, InvParts DEF SameSlot
  <2>2. clientfd[i] # NoClient => clientfd[i] \in Clients \ {c}
    BY <1>1, <1>9 DEF SelectTypeOK, Slotted
  <2>3. QED BY <1>14, <2>1, <2>2, SameSlotOK
<1>18. QED BY <1>4, <1>5, <1>10, <1>15, <1>16, <1>17, InvMade

-----------------------------------------------------------------------------
(* The steps of main()                                                     *)

(* Threads may be created, and may end, without a word to the server.      *)
Ends(d) ==
  \/ cpc'[d] = cpc[d]
  \/ cpc'[d] = "killed" /\ cpc[d] \in {"start", "read"}
  \/ cpc'[d] = "exited" /\ cpc[d] = "start"

(* That keeps the invariant.                                               *)
LEMMA EndsInv ==
  ASSUME SelectInv, SelectTypeOK',
         UNCHANGED <<got, pos, backlog, toServer, toClient, closed, name, disk, told, torn,
                     up, forgotten, clientfd, memory, data, lastSeqNum>>,
         \A p \in Programs : threadNum[p] <= threadNum'[p],
         \A d \in Clients : /\ Ends(d)
                            /\ cpc'[d] # cpc[d] => Index(d) <= threadNum'[Program(d)]
                            /\ d \in reset' \ reset => cpc'[d] = "killed" /\ toClient[d] # <<>>
  PROVE  SelectInv' /\ UNCHANGED transferVars
<1>1. /\ SelectTypeOK /\ ProgramTypeOK /\ ClientTypeOK /\ NumberNotEarlier /\ Places /\ up = "running"
  BY InvParts
<1>2. UNCHANGED transferVars /\ up' = "running"
  BY <1>1 DEF transferVars
<1>3. ASSUME NEW d \in Clients
      PROVE  /\ Index(d) \in Nat /\ threadNum[Program(d)] \in Nat /\ threadNum'[Program(d)] \in Nat
             /\ threadNum[Program(d)] <= threadNum'[Program(d)]
  <2>1. Program(d) \in Programs /\ Index(d) \in Nat
    BY ProgramOf, IndexType
  <2>2. threadNum \in [Programs -> Nat] /\ threadNum' \in [Programs -> Nat]
    BY <1>1 DEF SelectTypeOK, ProgramTypeOK
  <2>3. QED BY <2>1, <2>2
<1>4. NumberNotEarlier'
  <2>1. SUFFICES ASSUME NEW d \in Clients, name[d] # NoName
                 PROVE  name[d] \in Index(d) .. threadNum'[Program(d)]
    BY DEF NumberNotEarlier
  <2>2. name[d] \in Index(d) .. threadNum[Program(d)]
    BY <1>1, <2>1 DEF NumberNotEarlier
  <2>3. QED BY <1>3, <2>2
<1>5. Places' /\ Waiting' = Waiting
  <2>1. \A d \in Clients : /\ cpc'[d] = "start" => cpc[d] = "start"
                           /\ cpc'[d] = "read" => cpc[d] = "read"
    BY DEF Ends
  <2>2. QED BY <1>1, <2>1, SamePlaces
<1>6. ASSUME NEW d \in Clients PROVE Exchange(d)' /\ Connection(d)' /\ Promise(d)'
  <2>1. Exchange(d) /\ Connection(d) /\ Ends(d) /\ NoMore(d)' = NoMore(d)
    BY InvParts DEF NoMore
  <2>2. Exchange(d)'
    <3>1. IsRequest(d, Head(toServer[d])) => IsRequest(d, Head(toServer[d]))'
      BY DEF IsRequest
    <3>2. QED BY <2>1, <3>1 DEF Exchange, Ends
  <2>3. Gone(d) => Gone(d)'
    BY <2>1 DEF Gone, Ends
  <2>4. d \in reset' => Gone(d)' /\ toServer[d] = <<>>
    <3>1. CASE d \in reset
      BY <2>1, <2>3, <3>1 DEF Connection
    <3>2. CASE d \in reset' \ reset
      <4>1. cpc'[d] = "killed" /\ toClient[d] # <<>>
        BY <3>2
      <4>2. QED BY <2>1, <4>1 DEF Exchange, Gone
    <3>3. QED BY <3>1, <3>2
  <2>5. name[d] # NoName \/ cpc'[d] # "start" => Index(d) <= threadNum'[Program(d)]
    <3>1. CASE cpc'[d] = cpc[d]
      BY <1>3, <2>1, <3>1 DEF Connection
    <3>2. CASE cpc'[d] # cpc[d]
      BY <3>2
    <3>3. QED BY <3>1, <3>2
  <2>6. told[d] # "nothing" => cpc'[d] = "exited"
    BY <2>1 DEF Connection, Ends
  <2>7. /\ cpc'[d] = "start" => cpc[d] = "start"
        /\ cpc'[d] = "read" => cpc[d] = "read"
    BY <2>1 DEF Ends
  <2>8. Connection(d)'
    BY <1>5, <2>1, <2>3, <2>4, <2>5, <2>6, <2>7 DEF Connection
  <2>9. Promise(d)'
    BY <1>2, PromiseKept
  <2>10. QED BY <2>2, <2>8, <2>9
<1>7. ASSUME NEW i \in Slots PROVE SlotOK(i)'
  <2>1. SlotOK(i)
    BY InvParts
  <2>2. CASE clientfd[i] = NoClient
    BY <2>1, <2>2 DEF SlotOK
  <2>3. ASSUME NEW d \in Clients, clientfd[i] = d, d # NoClient
        PROVE  SlotOK(i)'
    <3>1. SlotOf(i, d) /\ Ends(d)
      BY <2>1, <2>3 DEF SlotOK
    <3>2. OwnData(i, d)' = OwnData(i, d)
      BY DEF OwnData, InFlight
    <3>3. cpc'[d] = "read" => cpc[d] = "read"
      BY <3>1 DEF Ends
    <3>4. SlotOf(i, d)'
      BY <3>1, <3>2, <3>3 DEF SlotOf
    <3>5. QED BY <2>3, <3>4 DEF SlotOK
  <2>4. QED BY <1>1, <2>2, <2>3 DEF SelectTypeOK
<1>8. QED BY <1>2, <1>4, <1>5, <1>6, <1>7, InvMade

(* A thread that could not be created has not been heard of.               *)
LEMMA CreateKeeps ==
  ASSUME SelectInv, NEW p \in Programs, CreateThread(p), UNCHANGED <<up, forgotten, poolVars>>
  PROVE  SelectInv' /\ UNCHANGED transferVars
<1>1. /\ SelectTypeOK /\ ProgramTypeOK /\ ClientTypeOK /\ Domains
  BY InvParts, TypesDomains
<1>2. UNCHANGED <<got, pos, backlog, toServer, toClient, reset, closed, name, disk, told, torn,
                  up, forgotten, clientfd, memory, data, lastSeqNum>>
  BY DEF CreateThread, netVars, transferVars, poolVars
<1>3. PICK n \in Nat : n = threadNum[p]
  BY <1>1 DEF ProgramTypeOK
<1>4. /\ threadNum' = [threadNum EXCEPT ![p] = n + 1] /\ n < Len(Threads[p])
      /\ Len(Threads[p]) \in Nat
  BY <1>3, ProgramAssumption DEF CreateThread
<1>5. n + 1 \in 1 .. Len(Threads[p])
  BY <1>4
<1>6. PICK e \in Clients : /\ e = Threads[p][n + 1] /\ Program(e) = p /\ Index(e) = n + 1
  BY <1>5, IndexOf
<1>7. cpc[e] = "start"
  <2>1. ~(n + 1 <= n)
    OBVIOUS
  <2>2. QED BY <1>3, <1>6, <2>1, InvParts DEF Connection
<1>8. mpc' \in [Programs -> {"loop", "sleep", "ended"}] /\ (cpc' = cpc \/ cpc' = [cpc EXCEPT ![e] = "exited"])
  BY <1>1, <1>3, <1>6 DEF CreateThread, ProgramTypeOK
<1>9. /\ threadNum' \in [Programs -> Nat]
      /\ \A q \in Programs : threadNum[q] <= threadNum'[q] /\ threadNum'[q] <= Len(Threads[q])
  <2>1. threadNum'[p] = n + 1 /\ \A q \in Programs \ {p} : threadNum'[q] = threadNum[q]
    BY <1>1, <1>4 DEF Domains
  <2>2. threadNum' \in [Programs -> Nat]
    BY <1>1, <1>4 DEF ProgramTypeOK
  <2>3. \A q \in Programs : threadNum[q] \in Nat /\ threadNum[q] <= Len(Threads[q])
    BY <1>1 DEF ProgramTypeOK
  <2>4. ASSUME NEW q \in Programs
        PROVE  threadNum[q] <= threadNum'[q] /\ threadNum'[q] <= Len(Threads[q])
    <3>1. CASE q = p
      BY <1>3, <1>4, <1>5, <2>1, <3>1
    <3>2. CASE q # p
      BY <2>1, <2>3, <3>2
    <3>3. QED BY <3>1, <3>2
  <2>5. QED BY <2>2, <2>4
<1>10. SelectTypeOK'
  <2>1. cpc' \in [Clients -> {"start", "read", "exited", "killed"}]
    BY <1>1, <1>8 DEF ClientTypeOK
  <2>2. QED BY <1>1, <1>2, <1>8, <1>9, <2>1 DEF SelectTypeOK, ProgramTypeOK, ClientTypeOK
<1>11. ASSUME NEW d \in Clients
       PROVE  Ends(d) /\ (cpc'[d] # cpc[d] => Index(d) <= threadNum'[Program(d)])
  <2>1. CASE d = e
    <3>1. threadNum'[p] = n + 1 /\ n + 1 <= n + 1
      BY <1>1, <1>4 DEF Domains
    <3>2. cpc'[e] \in {cpc[e], "exited"}
      BY <1>1, <1>8 DEF Domains
    <3>3. QED BY <1>6, <1>7, <2>1, <3>1, <3>2 DEF Ends
  <2>2. CASE d # e
    BY <1>1, <1>8, <2>2 DEF Domains, Ends
  <2>3. QED BY <2>1, <2>2
<1>12. QED BY <1>2, <1>9, <1>10, <1>11, EndsInv

(* The end of the sleep.                                                   *)
LEMMA WakeUpKeeps ==
  ASSUME SelectInv, NEW p \in Programs, WakeUp(p), UNCHANGED <<up, forgotten, poolVars>>
  PROVE  SelectInv' /\ UNCHANGED transferVars
<1>1. SelectTypeOK /\ ProgramTypeOK /\ ClientTypeOK
  BY InvParts
<1>2. UNCHANGED <<cpc, got, pos, backlog, toServer, toClient, reset, closed, name, disk, told, torn, threadNum,
                  up, forgotten, clientfd, memory, data, lastSeqNum>>
  BY DEF WakeUp, clientVars, netVars, transferVars, poolVars
<1>3. mpc' \in [Programs -> {"loop", "sleep", "ended"}]
  BY <1>1 DEF WakeUp, ProgramTypeOK
<1>4. SelectTypeOK'
  BY <1>1, <1>2, <1>3 DEF SelectTypeOK, ProgramTypeOK, ClientTypeOK
<1>5. \A q \in Programs : threadNum[q] <= threadNum'[q]
  BY <1>1, <1>2 DEF ProgramTypeOK
<1>6. \A d \in Clients : Ends(d) /\ cpc'[d] = cpc[d]
  BY <1>2 DEF Ends
<1>7. QED BY <1>2, <1>4, <1>5, <1>6, EndsInv

(* The process ends, and takes its threads with it.                        *)
LEMMA ReturnKeeps ==
  ASSUME SelectInv, NEW p \in Programs, MainReturns(p), UNCHANGED <<up, forgotten, poolVars>>
  PROVE  SelectInv' /\ UNCHANGED transferVars
<1>1. SelectTypeOK /\ ProgramTypeOK /\ ClientTypeOK
  BY InvParts
<1>2. UNCHANGED <<got, pos, backlog, toServer, toClient, closed, name, disk, told, torn, threadNum,
                  up, forgotten, clientfd, memory, data, lastSeqNum>>
  BY DEF MainReturns, Kill, transferVars, poolVars
<1>3. ASSUME NEW d \in Clients
      PROVE  \/ cpc'[d] = cpc[d]
             \/ cpc'[d] = "killed" /\ Program(d) = p /\ ~Gone(d)
  BY DEF MainReturns, Kill
<1>4. /\ cpc' \in [Clients -> {"start", "read", "exited", "killed"}]
      /\ mpc' \in [Programs -> {"loop", "sleep", "ended"}]
  BY <1>1 DEF MainReturns, Kill, ProgramTypeOK, ClientTypeOK
<1>5. \A d \in reset' \ reset : d \in Clients /\ cpc'[d] = "killed" /\ toClient[d] # <<>>
  BY DEF MainReturns, Kill
<1>6. SelectTypeOK'
  <2>1. reset' \subseteq Clients
    BY <1>1, <1>5 DEF ClientTypeOK
  <2>2. QED BY <1>1, <1>2, <1>4, <2>1 DEF SelectTypeOK, ProgramTypeOK, ClientTypeOK
<1>7. \A q \in Programs : threadNum[q] <= threadNum'[q]
  BY <1>1, <1>2 DEF ProgramTypeOK
<1>8. ASSUME NEW d \in Clients
      PROVE  Ends(d) /\ (cpc'[d] # cpc[d] => Index(d) <= threadNum'[Program(d)])
  <2>1. ~Gone(d) => cpc[d] \in {"start", "read"}
    BY <1>1 DEF ClientTypeOK, Gone
  <2>2. Program(d) = p => Index(d) <= threadNum[p]
    BY IndexType DEF MainReturns
  <2>3. QED BY <1>2, <1>3, <2>1, <2>2 DEF Ends
<1>9. QED BY <1>2, <1>5, <1>6, <1>7, <1>8, EndsInv


-----------------------------------------------------------------------------
(* All steps                                                               *)

(* No step at all.                                                         *)
LEMMA IdleKeeps ==
  ASSUME SelectInv, UNCHANGED selectVars
  PROVE  SelectInv' /\ UNCHANGED transferVars
<1>1. UNCHANGED <<cpc, got, pos, backlog, toServer, toClient, reset, closed, name, disk, told, torn, mpc, threadNum,
                  up, forgotten, clientfd, memory, data, lastSeqNum>>
  BY DEF selectVars, clientVars, netVars, transferVars, programVars, poolVars
<1>2. SelectTypeOK /\ ProgramTypeOK /\ ClientTypeOK
  BY InvParts
<1>3. SelectTypeOK'
  BY <1>1, <1>2 DEF SelectTypeOK, ProgramTypeOK, ClientTypeOK
<1>4. \A q \in Programs : threadNum[q] <= threadNum'[q]
  BY <1>1, <1>2 DEF ProgramTypeOK
<1>5. \A d \in Clients : Ends(d) /\ cpc'[d] = cpc[d]
  BY <1>1 DEF Ends
<1>6. QED BY <1>1, <1>3, <1>4, <1>5, EndsInv

(* Every step of SelectServer keeps the invariant, is a step of the        *)
(* service or none, and numbers the answers one after the other.           *)
LEMMA SelectStep ==
  ASSUME SelectInv, [SelectNext]_selectVars
  PROVE  SelectInv' /\ [TransferNext]_transferVars /\ (SeqStep \/ UNCHANGED got)
<1>1. CASE Accept
  BY <1>1, AcceptKeeps DEF Accept, clientVars
<1>2. ASSUME NEW i \in Slots, Serve(i)
      PROVE  SelectInv' /\ [TransferNext]_transferVars /\ UNCHANGED got
  <2>1. CASE CloseSlot(i)
    BY <2>1, CloseKeeps DEF CloseSlot, clientVars
  <2>2. CASE ClientHello(i)
    BY <2>2, HelloKeeps DEF ClientHello, clientVars
  <2>3. CASE DataDelivery(i)
    BY <2>3, DeliveryKeeps DEF DataDelivery, clientVars
  <2>4. CASE DataStore(i)
    BY <2>4, StoreKeeps DEF DataStore, clientVars
  <2>5. QED BY <1>2, <2>1, <2>2, <2>3, <2>4 DEF Serve
<1>3. ASSUME NEW c \in Clients, ThreadStep(c)
      PROVE  SelectInv' /\ [TransferNext]_transferVars /\ (SeqStep \/ UNCHANGED got)
  <2>1. CASE CopyArgs(c)
    BY <1>3, <2>1, CopyKeeps DEF ThreadStep, CopyArgs, clientVars
  <2>2. CASE Connect(c) /\ name[c] # NoName /\ UNCHANGED programVars
    BY <1>3, <2>2, ConnectKeeps DEF ThreadStep, Connect
  <2>3. CASE ClientLoop(c) /\ name[c] # NoName /\ UNCHANGED programVars
    BY <1>3, <2>3, LoopKeeps DEF ThreadStep
  <2>4. QED BY <1>3, <2>1, <2>2, <2>3 DEF ThreadStep, Thread
<1>4. ASSUME NEW p \in Programs, ProgramStep(p)
      PROVE  SelectInv' /\ UNCHANGED transferVars /\ UNCHANGED got
  <2>1. CASE CreateThread(p)
    BY <1>4, <2>1, CreateKeeps DEF ProgramStep, CreateThread
  <2>2. CASE WakeUp(p)
    BY <1>4, <2>2, WakeUpKeeps DEF ProgramStep, WakeUp, clientVars
  <2>3. CASE MainReturns(p)
    BY <1>4, <2>3, ReturnKeeps DEF ProgramStep, MainReturns, Kill
  <2>4. QED BY <1>4, <2>1, <2>2, <2>3 DEF ProgramStep, Main
<1>5. CASE UNCHANGED selectVars
  BY <1>5, IdleKeeps DEF selectVars, clientVars
<1>6. QED BY <1>1, <1>2, <1>3, <1>4, <1>5 DEF SelectNext

(* In the beginning no thread has been created and no slot is used.        *)
LEMMA SelectInitInv == SelectInit => SelectInv /\ TransferInit
<1> SUFFICES ASSUME SelectInit PROVE SelectInv /\ TransferInit
  OBVIOUS
<1>1. /\ TransferInit /\ ClientInit /\ name = [c \in Clients |-> NoName]
      /\ mpc = [p \in Programs |-> "loop"] /\ threadNum = [p \in Programs |-> 0]
      /\ up = "running" /\ forgotten = {}
      /\ clientfd = [i \in Slots |-> NoClient] /\ memory = [i \in Slots |-> "NULL"]
      /\ data = [i \in Slots |-> <<>>] /\ lastSeqNum = [i \in Slots |-> 0]
  BY DEF SelectInit, ProgramInit
<1>2. ServiceInv /\ FilesWhole
  BY <1>1, ServiceInit
<1>3. /\ backlog = <<>> /\ closed = {} /\ reset = {}
      /\ \A c \in Clients : /\ cpc[c] = "start" /\ got[c] = NoAnswer /\ pos[c] = 0
                            /\ toServer[c] = <<>> /\ toClient[c] = <<>>
                            /\ name[c] = NoName /\ told[c] = "nothing"
  BY <1>1 DEF ClientInit, TransferInit
<1>4. SelectTypeOK
  <2>1. 0 \in 0 .. SEQ_SIZE - 1
    BY ClientAssumption
  <2>2. ClientTypeOK
    BY <1>1, <2>1, EmptySeq DEF ClientInit, ClientTypeOK, NoAnswer
  <2>3. \A p \in Programs : Len(Threads[p]) \in Nat /\ 0 <= Len(Threads[p])
    BY ProgramAssumption
  <2>4. ProgramTypeOK
    BY <1>1, <2>2, <2>3 DEF ProgramTypeOK
  <2>5. ServiceTypeOK
    BY <1>2 DEF ServiceInv
  <2>6. QED BY <1>1, <2>1, <2>4, <2>5, EmptySeq DEF SelectTypeOK, ServiceTypeOK
<1>5. NumberNotEarlier
  BY <1>3 DEF NumberNotEarlier
<1>6. Waiting = {} /\ Slotted \subseteq {NoClient}
  BY <1>1, <1>3 DEF Waiting, Slotted
<1>7. Places
  BY <1>1, <1>3, <1>6, SlotsAssumption DEF Places
<1>8. ASSUME NEW c \in Clients PROVE Exchange(c) /\ Connection(c) /\ Promise(c)
  <2>1. Exchange(c) /\ Promise(c)
    BY <1>3 DEF Exchange, Promise
  <2>2. Connection(c)
    BY <1>1, <1>3, <1>6 DEF Connection, NoAnswer
  <2>3. QED BY <2>1, <2>2
<1>9. ASSUME NEW i \in Slots PROVE SlotOK(i)
  BY <1>1 DEF SlotOK
<1>10. QED BY <1>1, <1>2, <1>4, <1>5, <1>7, <1>8, <1>9 DEF SelectInv, Inv, ServerStaysUp

(* So the invariant always holds.                                          *)
LEMMA AlwaysSelectInv == SelectSpec => []SelectInv
<1>1. SelectInv /\ [SelectNext]_selectVars => SelectInv'
  BY SelectStep
<1>2. QED BY SelectInitInv, <1>1, PTL DEF SelectSpec

(* A connection is in one place, its client and the server take turns,     *)
(* and a slot that is used again starts empty (select_server.c: addClient, *)
(* handleClientFds), for any number of threads, files and slots.           *)
THEOREM SelectServerInv == SelectSpec => []Inv
BY AlwaysSelectInv, PTL DEF SelectInv

(* Clients that die at any point never make the server write twice to a    *)
(* closed connection, and buffer[i] is never used after its free().        *)
THEOREM SelectServerUp == SelectSpec => []ServerStaysUp
BY AlwaysSelectInv, PTL DEF SelectInv

(* The blocks in buffer[i] are those the client of the slot has sent, and  *)
(* never those of a client that had the slot before.                       *)
THEOREM SelectServerOwnData == SelectSpec => []SlotHoldsOwnData
<1>1. SelectInv => SlotHoldsOwnData
  BY InvParts DEF SlotHoldsOwnData, SlotOK, SlotOf
<1>2. QED BY AlwaysSelectInv, <1>1, PTL

(* The numbers of the answers that a client reads follow each other,       *)
(* though lastSeqNum is an array that all connections share.               *)
THEOREM SelectServerSeq == SelectSpec => SeqConsecutive
<1>1. SelectInv /\ [SelectNext]_selectVars => [SeqStep]_got
  BY SelectStep
<1>2. QED BY AlwaysSelectInv, <1>1, PTL DEF SelectSpec, SeqConsecutive, SeqStep

(* The select server writes the files of the service, as if every client   *)
(* had a server of its own.                                                *)
THEOREM SelectServerRefines == SelectSpec => ImplementsTransferService
<1>1. SelectInv /\ [SelectNext]_selectVars => [TransferNext]_transferVars
  BY SelectStep
<1>2. QED BY AlwaysSelectInv, SelectInitInv, <1>1, PTL DEF SelectSpec, ImplementsTransferService, TransferSafety

(* So a thread that is told "stored" has its file, and no file is left in  *)
(* part, unless the write of it came short, whatever threads and processes *)
(* die and whoever has the slot next.                                      *)
THEOREM SelectServerFiles == SelectSpec => [](StoredIsSent /\ FilesWhole)
<1>1. SelectSpec => TransferSafety
  BY SelectServerRefines DEF ImplementsTransferService
<1>2. QED BY <1>1, ServiceStoredIsSent, ServiceFilesWhole, PTL
=============================================================================
