--------------------------- MODULE RequestClient ---------------------------
(***************************************************************************)
(* The client program of p2 (client.c): main() creates a thread every      *)
(* 100 ms and hands all of them a pointer to the same threadArgs.  A       *)
(* thread is a client of Transfer whose file, "<number>.txt", has one      *)
(* block.  Nothing is assumed of the 100 ms: a thread may copy its number  *)
(* late, and main() returns, which ends the process, whether or not the    *)
(* last threads have come to an end.                                       *)
(***************************************************************************)
EXTENDS Transfer

CONSTANTS Programs,
          Threads     \* the threads of a program, in the order of creation

ASSUME ProgramAssumption ==
  /\ Threads \in [Programs -> Seq(Clients)]
  /\ \A p \in Programs : 1 .. Len(Threads[p]) \subseteq Names
  /\ \A c \in Clients : \E p \in Programs : \E i \in DOMAIN Threads[p] : Threads[p][i] = c
  /\ \A p, q \in Programs : \A i \in DOMAIN Threads[p], j \in DOMAIN Threads[q] :
        Threads[p][i] = Threads[q][j] => p = q /\ i = j

VARIABLES mpc,         \* control point of main()
          threadNum    \* threadArgs.threadNum

programVars == <<mpc, threadNum>>

Program(c) == CHOOSE p \in Programs : \E i \in DOMAIN Threads[p] : Threads[p][i] = c
Index(c)   == CHOOSE i \in DOMAIN Threads[Program(c)] : Threads[Program(c)][i] = c

(* The thread has been created and main() has not returned.                *)
MayRun(c) == mpc[Program(c)] # "ended" /\ Index(c) <= threadNum[Program(c)]

ProgramInit ==
  /\ TransferInit /\ ClientInit
  /\ name = [c \in Clients |-> NoName]
  /\ mpc = [p \in Programs |-> "loop"]
  /\ threadNum = [p \in Programs |-> 0]

(* pthread_create; when it fails main() does not wait.                     *)
CreateThread(p) ==
  /\ mpc[p] = "loop" /\ threadNum[p] < Len(Threads[p])
  /\ threadNum' = [threadNum EXCEPT ![p] = @ + 1]
  /\ \/ /\ mpc' = [mpc EXCEPT ![p] = "sleep"]
        /\ UNCHANGED cpc
     \/ /\ "thread" \in Failures
        /\ cpc' = [cpc EXCEPT ![Threads[p][threadNum[p] + 1]] = "exited"]
        /\ UNCHANGED mpc
  /\ UNCHANGED <<got, pos, backlog, netVars, closed, transferVars>>

WakeUp(p) ==
  /\ mpc[p] = "sleep"
  /\ mpc' = [mpc EXCEPT ![p] = "loop"]
  /\ UNCHANGED <<threadNum, clientVars, backlog, netVars, closed, transferVars>>

(* The threads that have not ended die with the process.                   *)
MainReturns(p) ==
  /\ mpc[p] = "loop" /\ threadNum[p] = Len(Threads[p])
  /\ mpc' = [mpc EXCEPT ![p] = "ended"]
  /\ Kill({c \in Clients : Program(c) = p /\ ~Gone(c)})
  /\ UNCHANGED threadNum

(* A plausible slip: the number is set after the thread was created.       *)
CopyArgsEarly(c) ==
  /\ cpc[c] = "start" /\ MayRun(c)
  /\ name[c] = NoName
  /\ \E n \in {threadNum[Program(c)], threadNum[Program(c)] - 1} \ {0} : name' = [name EXCEPT ![c] = n]
  /\ UNCHANGED <<clientVars, backlog, netVars, closed, disk, told, torn, programVars>>

(* threadArg = *arg, in the thread                                         *)
CopyArgs(c) ==
  /\ cpc[c] = "start" /\ MayRun(c)
  /\ name[c] = NoName
  /\ name' = [name EXCEPT ![c] = threadNum[Program(c)]]
  /\ UNCHANGED <<clientVars, backlog, netVars, closed, disk, told, torn, programVars>>

Thread(c) ==
  \/ CopyArgs(c)
  \/ /\ Connect(c) \/ ClientLoop(c)
     /\ name[c] # NoName
     /\ UNCHANGED programVars

Main(p) == CreateThread(p) \/ WakeUp(p) \/ MainReturns(p)

ProgramTypeOK ==
  /\ ClientTypeOK
  /\ mpc \in [Programs -> {"loop", "sleep", "ended"}]
  /\ threadNum \in [Programs -> Nat]
  /\ \A p \in Programs : threadNum[p] <= Len(Threads[p])

(* A thread may send the file of a later thread, when it starts late, but  *)
(* never that of an earlier one or one main() has not come to.             *)
NumberNotEarlier ==
  \A c \in Clients : name[c] # NoName => name[c] \in Index(c) .. threadNum[Program(c)]
=============================================================================
