---------------------------- MODULE MultiServer ----------------------------
(***************************************************************************)
(* The multi-process server of p2 (multi_server.c): a parent that accepts  *)
(* connections and forks, a child for each connection that runs the loop   *)
(* of FileTransfer, and the handler of SIGCHLD, which interrupts the       *)
(* parent and reaps the children.                                          *)
(***************************************************************************)
EXTENDS FileTransfer

VARIABLES ppc,       \* control point of the parent
          cur,       \* clientSock of the parent
          held,      \* the connections of which the parent has a descriptor
          zombies,   \* children that have exited and are not reaped
          pending,   \* is a SIGCHLD pending?
          hpc        \* control point of the handler, which masks the parent

parentVars  == <<ppc, cur, held>>
handlerVars == <<pending, hpc>>
multiVars   == <<transferAll, parentVars, zombies, handlerVars>>

NoOne == "no one"

MultiInit ==
  /\ Init
  /\ ppc = "accept" /\ cur = NoOne /\ held = {}
  /\ zombies = {} /\ pending = FALSE /\ hpc = "none"

-----------------------------------------------------------------------------
(* The parent                                                              *)

ParentAccept ==
  /\ hpc = "none" /\ ppc = "accept"
  /\ backlog # <<>>
  /\ cur' = Head(backlog)
  /\ backlog' = Tail(backlog)
  /\ held' = held \cup {Head(backlog)}
  /\ ppc' = "fork"
  /\ UNCHANGED <<clientVars, netVars, closed, transferVars, serverVars, zombies, handlerVars>>

(* The child starts with a descriptor of its own.  If fork fails, its -1   *)
(* is not 0, and the parent goes on as after a fork.                       *)
Fork ==
  /\ hpc = "none" /\ ppc = "fork"
  /\ \/ spc' = [spc EXCEPT ![cur] = "serve"]
     \/ "fork" \in Failures /\ spc' = [spc EXCEPT ![cur] = "exited"]
  /\ ppc' = "close"
  /\ UNCHANGED <<clientVars, backlog, netVars, closed, transferVars, recv, buffer, seq,
                 cur, held, zombies, handlerVars>>

(* The last descriptor of a connection is closed.                          *)
Hangup(c) ==
  /\ closed' = closed \cup {c}
  /\ reset' = ResetIfUnread(c, toServer[c])

(* A plausible slip: the parent keeps its descriptor.                      *)
ParentKeeps ==
  /\ hpc = "none" /\ ppc = "close"
  /\ ppc' = "accept"
  /\ cur' = NoOne
  /\ UNCHANGED <<clientVars, backlog, netVars, closed, transferVars, serverVars, held, zombies, handlerVars>>

ParentCloses ==
  /\ hpc = "none" /\ ppc = "close"
  /\ held' = held \ {cur}
  /\ IF spc[cur] = "exited" THEN Hangup(cur) ELSE UNCHANGED <<closed, reset>>
  /\ ppc' = "accept"
  /\ cur' = NoOne
  /\ UNCHANGED <<clientVars, backlog, toServer, toClient, transferVars, serverVars, zombies, handlerVars>>

-----------------------------------------------------------------------------
(* The children and SIGCHLD                                                *)

ChildExits(c) ==
  /\ spc[c] = "leaving"
  /\ spc' = [spc EXCEPT ![c] = "exited"]
  /\ IF c \in held THEN UNCHANGED <<closed, reset>> ELSE Hangup(c)
  /\ zombies' = zombies \cup {c}
  /\ pending' = TRUE
  /\ UNCHANGED <<clientVars, backlog, toServer, toClient, transferVars, recv, buffer, seq, parentVars, hpc>>

HandlerStarts ==
  /\ pending /\ hpc = "none"
  /\ hpc' = "wait"
  /\ pending' = FALSE
  /\ UNCHANGED <<transferAll, parentVars, zombies>>

(* A plausible slip: waitpid is called once for every signal.              *)
ReapOnce ==
  /\ hpc = "wait" /\ zombies # {}
  /\ \E c \in zombies : zombies' = zombies \ {c}
  /\ hpc' = "none"
  /\ UNCHANGED <<transferAll, parentVars, pending>>

(* waitpid(-1, 0, WNOHANG) > 0                                             *)
Reap ==
  /\ hpc = "wait" /\ zombies # {}
  /\ \E c \in zombies : zombies' = zombies \ {c}
  /\ UNCHANGED <<transferAll, parentVars, handlerVars>>

HandlerReturns ==
  /\ hpc = "wait" /\ zombies = {}
  /\ hpc' = "none"
  /\ UNCHANGED <<transferAll, parentVars, zombies, pending>>

-----------------------------------------------------------------------------
Parent  == ParentAccept \/ Fork \/ ParentCloses
Handler == HandlerStarts \/ Reap \/ HandlerReturns

MultiClient(c) ==
  /\ Connect(c) \/ ClientLoop(c)
  /\ UNCHANGED <<serverVars, parentVars, zombies, handlerVars>>

Child(c) ==
  \/ ServerStep(c) /\ UNCHANGED <<parentVars, zombies, handlerVars>>
  \/ ChildExits(c)

Faults(c) ==
  /\ ClientKilled(c) \/ ServerKilled(c) \/ KilledInStore(c)
  /\ UNCHANGED <<parentVars, zombies, handlerVars>>

MultiNext ==
  \/ Parent \/ Handler
  \/ \E c \in Clients : MultiClient(c) \/ Child(c) \/ Faults(c)

MultiFairness ==
  /\ WF_multiVars(Parent) /\ WF_multiVars(Handler)
  /\ \A c \in Clients : WF_multiVars(MultiClient(c)) /\ WF_multiVars(Child(c))

MultiSpec == MultiInit /\ [][MultiNext]_multiVars /\ MultiFairness

-----------------------------------------------------------------------------
(* Properties                                                              *)

(* SIGCHLD is not queued: several children may exit for one signal.  All   *)
(* the same a zombie is about to be reaped at any time.                    *)
NoZombieForgotten == zombies # {} => pending \/ hpc = "wait"

(* Every client that has connected comes to an end, whatever the others    *)
(* do, unless its own packets were cut.                                    *)
TransferEndsAlone ==
  \A c \in Clients :
     cpc[c] = "read" ~> Gone(c) \/ (c \in Cut /\ recv[c] = Rest)
=============================================================================
