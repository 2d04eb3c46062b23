-------------------------- MODULE TransferService --------------------------
(***************************************************************************)
(* What the transfer of a file in p1 and p2 promises.  A file is written   *)
(* by one write(), whose result is compared with -1 only: it may come      *)
(* short, or be killed on its way.  A client to which that happens is      *)
(* torn.  Otherwise a file that arrives is on the disk of the server as a  *)
(* whole or not at all, a client that is told "stored" has its file there, *)
(* and no other client takes it away.  FileTransfer, MultiServer and       *)
(* SelectServer refine this module.                                        *)
(***************************************************************************)
EXTENDS Integers, Sequences

CONSTANTS Clients,   \* threads of client programs, one transfer each
          Names,     \* names of files
          Size,      \* blocks of every file
          Old,       \* what the disk of the server holds before
          Cut        \* the clients whose packets the network may cut in two

NoName  == 0
Block   == [of : Names \cup {NoName}, no : Nat]
Absent  == <<[of |-> NoName, no |-> 0]>>      \* no file of this name
File(n) == [k \in 1 .. Size[n] |-> [of |-> n, no |-> k]]

(* The first blocks of a file.                                             *)
Part(n, k) == SubSeq(File(n), 1, k)

ASSUME TransferAssumption ==
  /\ NoName \notin Names
  /\ Size \in [Names -> Nat]
  /\ Old \in [Names -> Seq(Block)]
  /\ Cut \subseteq Clients

VARIABLES name,   \* the file each client sends
          disk,   \* the files of the server
          told,   \* what each client has been told of its file
          torn    \* ghost: the clients of whose file the server may have
                  \* written only the beginning

transferVars == <<name, disk, told, torn>>

(* open(O_WRONLY | O_CREAT) and a write from the beginning: a longer file  *)
(* that was there before keeps its end.                                    *)
Created(old) == IF old = Absent THEN <<>> ELSE old

Overwritten(old, new) ==
  new \o SubSeq(Created(old), Len(new) + 1, Len(Created(old)))

TransferInit ==
  /\ name \in [Clients -> Names \cup {NoName}]
  /\ disk = Old
  /\ told = [c \in Clients |-> "nothing"]
  /\ torn = {}

(* A client learns which file it is to send.                               *)
Choose(c) ==
  /\ name[c] = NoName
  /\ \E n \in Names : name' = [name EXCEPT ![c] = n]
  /\ UNCHANGED <<disk, told, torn>>

(* write() stores the file of a client, or only a part of it, and then the *)
(* client is torn.  If its packets were cut, there may be anything in it.  *)
Keep(c) ==
  /\ name[c] # NoName
  /\ told[c] = "nothing"
  /\ disk' \in [Names -> Seq(Block)]
  /\ \A n \in Names \ {name[c]} : disk'[n] = disk[n]
  /\ torn' \in {torn, torn \cup {c}}
  /\ c \notin Cut =>
        \E k \in 0 .. Size[name[c]] :
           /\ c \in torn' \/ k = Size[name[c]]
           /\ disk'[name[c]] = Overwritten(disk[name[c]], Part(name[c], k))
  /\ UNCHANGED <<name, told>>

(* The file has been created and could not be written.                     *)
Create(c) ==
  /\ name[c] # NoName
  /\ disk' = [disk EXCEPT ![name[c]] = Created(@)]
  /\ UNCHANGED <<name, told, torn>>

Stored(n) == disk[n] = Overwritten(Old[n], File(n))

(* What a client that is told "stored" may count on.                       *)
StoredFor(c) == Stored(name[c]) \/ c \in torn \/ \E d \in Cut : name[d] = name[c]

TellStored(c) ==
  /\ name[c] # NoName
  /\ told[c] = "nothing"
  /\ StoredFor(c)
  /\ told' = [told EXCEPT ![c] = "stored"]
  /\ UNCHANGED <<name, disk, torn>>

TellFailed(c) ==
  /\ told[c] = "nothing"
  /\ told' = [told EXCEPT ![c] = "failed"]
  /\ UNCHANGED <<name, disk, torn>>

TransferNext ==
  \E c \in Clients :
     Choose(c) \/ Keep(c) \/ Create(c) \/ TellStored(c) \/ TellFailed(c)

TransferSafety == TransferInit /\ [][TransferNext]_transferVars

-----------------------------------------------------------------------------
(* What follows from it                                                    *)

(* A client that was told "stored" has its whole file on the disk of the   *)
(* server, whatever else was killed, failed or came short, unless that is  *)
(* what happened to the write of its own file.                             *)
StoredIsSent == \A c \in Clients : told[c] = "stored" => StoredFor(c)

(* A file is what was there, possibly just created, or the whole of what a *)
(* client has sent is written over it: a part only if the write of one of  *)
(* its clients was torn, and then blocks from its beginning, with the end  *)
(* of the old file behind them.                                            *)
FilesWhole ==
  \A n \in Names :
     \/ disk[n] = Old[n]
     \/ \E k \in 0 .. Size[n] :
           /\ disk[n] = Overwritten(Old[n], Part(n, k))
           /\ k \in {0, Size[n]} \/ \E c \in torn : name[c] = n
     \/ \E c \in Cut : name[c] = n
=============================================================================
