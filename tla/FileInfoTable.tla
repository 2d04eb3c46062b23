--------------------------- MODULE FileInfoTable ---------------------------
(***************************************************************************)
(* The table in which a super node of p4 keeps what it knows about files   *)
(* (super_lib.c): open addressing with linear probing, nothing is ever     *)
(* removed.  A name is a value with the sum of its chars, which are signed *)
(* on the machines the program is built for, and the names it begins.      *)
(* SuperOverlay has the table of each super node as a set of infos.        *)
(***************************************************************************)
EXTENDS Integers, FiniteSets

CONSTANTS HASH_TABLE_SIZE,
          Names,       \* file names
          Owners,      \* addresses (IP and port) of the nodes that have files
          CharSum,     \* the sum of the chars of every name
          Begins       \* pairs <<p, q>> of names such that q goes on after p

Cells  == 0 .. HASH_TABLE_SIZE - 1
Info   == [fileName : Names, owner : Owners]
NoInfo == [fileName |-> "NULL", owner |-> "NULL"]
Loops  == [fileName |-> "loops", owner |-> "loops"]

ASSUME TableAssumption ==
  /\ HASH_TABLE_SIZE \in Nat \ {0}
  /\ CharSum \in [Names -> Int]
  /\ Begins \subseteq Names \X Names
  /\ NoInfo \notin Info

(* The % of C has the sign of the dividend.                                *)
hashFunction(key) ==
  IF CharSum[key] >= 0 THEN CharSum[key] % HASH_TABLE_SIZE
                       ELSE -((-CharSum[key]) % HASH_TABLE_SIZE)

(* The d-th cell that the probe for a name looks at.                       *)
Probe(key, d) == (hashFunction(key) + d) % HASH_TABLE_SIZE

EmptyTable == [i \in Cells |-> NoInfo]
Used(list) == {i \in Cells : list[i] # NoInfo}

(* A plausible slip: the scan for an empty cell skips the first one.       *)
FreeProbesAfterFirst(list, key) ==
  {d \in Cells : d > 0 /\ list[Probe(key, d)] = NoInfo}

(* How far the probe for a name may go to find an empty cell.              *)
FreeProbes(list, key) == {d \in Cells : list[Probe(key, d)] = NoInfo}

Nearest(S) == CHOOSE d \in S : \A e \in S : d <= e

(* The while loop of insertFileInfo and the store after it.                *)
Stored(list, info) ==
  [list EXCEPT ![Probe(info.fileName, Nearest(FreeProbes(list, info.fileName)))] = info]

(* strncmp over the length of the name searched for: a stored name that    *)
(* only begins with it matches, too.                                       *)
Matches(key, name) == name = key \/ <<key, name>> \in Begins

(* A plausible slip: the loop does not look for an empty cell.             *)
StopProbesAtMatch(list, key) ==
  {d \in Cells : Matches(key, list[Probe(key, d)].fileName)}

(* The probe of searchFileInfo stops at an empty cell or a match.          *)
StopProbes(list, key) ==
  {d \in Cells : LET cell == list[Probe(key, d)]
                 IN  cell = NoInfo \/ Matches(key, cell.fileName)}

(* searchFileInfo: NoInfo is its NULL, Loops means that it never returns.  *)
searchFileInfo(key, list) ==
  IF StopProbes(list, key) = {} THEN Loops
  ELSE list[Probe(key, Nearest(StopProbes(list, key)))]

-----------------------------------------------------------------------------

VARIABLES len, fileInfoList,
          inserted,   \* ghost: the infos insertFileInfo has accepted
          fault       \* a cell outside of the table has been touched

vars == <<len, fileInfoList, inserted, fault>>

Init ==
  /\ len = 0
  /\ fileInfoList = EmptyTable
  /\ inserted = {}
  /\ fault = FALSE

Counted(n) == n + 1

insertFileInfo(info) ==
  /\ ~fault
  /\ len < HASH_TABLE_SIZE
  /\ hashFunction(info.fileName) \in Cells
  /\ fileInfoList' = Stored(fileInfoList, info)
  /\ len' = Counted(len)
  /\ inserted' = inserted \cup {info}
  /\ UNCHANGED fault

(* "There is no available space to add info".                              *)
InsertRefused ==
  /\ ~fault
  /\ len = HASH_TABLE_SIZE
  /\ UNCHANGED vars

(* A negative index reads and writes before the array.                     *)
InsertOutside(info) ==
  /\ ~fault
  /\ len < HASH_TABLE_SIZE
  /\ hashFunction(info.fileName) \notin Cells
  /\ fault' = TRUE
  /\ UNCHANGED <<len, fileInfoList, inserted>>

Next ==
  \/ \E info \in Info : insertFileInfo(info) \/ InsertOutside(info)
  \/ InsertRefused

Spec == Init /\ [][Next]_vars

-----------------------------------------------------------------------------
(* Properties                                                              *)

TypeOK ==
  /\ len \in 0 .. HASH_TABLE_SIZE
  /\ fileInfoList \in [Cells -> Info \cup {NoInfo}]
  /\ inserted \subseteq Info
  /\ fault \in BOOLEAN

(* len counts the occupied cells, so that the check of insertFileInfo for  *)
(* a full table keeps its loop from running round for ever.                *)
LenCounts == len = Cardinality(Used(fileInfoList))

(* Every accepted info is in the table, and the probe for its name reaches *)
(* it over occupied cells, round the end of the array if need be.          *)
Reached(info) ==
  \E d \in Cells :
     /\ fileInfoList[Probe(info.fileName, d)] = info
     /\ \A e \in 0 .. d : fileInfoList[Probe(info.fileName, e)] # NoInfo

ChainsIntact == \A info \in inserted : Reached(info)

(* A search for a stored name never says "not found" and always ends, with *)
(* an info whose name at least begins with the one searched for.           *)
SearchFindsStored ==
  \A info \in inserted :
     LET answer == searchFileInfo(info.fileName, fileInfoList)
     IN  answer \in inserted /\ Matches(info.fileName, answer.fileName)

(* super_lib.c: "Not found".  As long as insertFileInfo would accept an     *)
(* info, a search ends, for whatever name: the probe meets an empty cell   *)
(* or a match.  It need not once the table has been filled to the brim.    *)
SearchEnds ==
  \A key \in Names :
     len < HASH_TABLE_SIZE /\ hashFunction(key) \in Cells =>
        StopProbes(fileInfoList, key) # {}
=============================================================================
