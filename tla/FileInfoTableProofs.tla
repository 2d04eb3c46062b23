------------------------ MODULE FileInfoTableProofs ------------------------
(***************************************************************************)
(* Proofs about the table of file information, for every size of the       *)
(* table, every set of names and every sum of their chars.                 *)
(***************************************************************************)
EXTENDS FileInfoTable, FiniteSetTheorems, WellFoundedInduction, TLAPS

USE TableAssumption

(* What is in the table has been inserted under a name with an index.      *)
FromInserts ==
  /\ \A i \in Cells : fileInfoList[i] # NoInfo => fileInfoList[i] \in inserted
  /\ \A info \in inserted : hashFunction(info.fileName) \in Cells

TableInv == TypeOK /\ LenCounts /\ FromInserts /\ ChainsIntact

-----------------------------------------------------------------------------
(* The probe of a name goes through every cell of the table.               *)
LEMMA ProbeCovers ==
  ASSUME NEW key, hashFunction(key) \in Cells
  PROVE  /\ \A d \in Cells : Probe(key, d) \in Cells
         /\ \A c \in Cells : \E d \in Cells : Probe(key, d) = c
<1> DEFINE h == hashFunction(key)
<1> HIDE DEF h
<1>1. h \in Cells /\ \A d : Probe(key, d) = (h + d) % HASH_TABLE_SIZE
  BY DEF h, Probe
<1>2. ASSUME NEW d \in Cells PROVE (h + d) % HASH_TABLE_SIZE \in Cells
  BY <1>1 DEF Cells
<1>3. ASSUME NEW c \in Cells
      PROVE  \E d \in Cells : (h + d) % HASH_TABLE_SIZE = c
  <2>1. CASE c >= h
    <3>1. c - h \in Cells /\ h + (c - h) = c
      BY <1>1, <2>1 DEF Cells
    <3>2. c % HASH_TABLE_SIZE = c
      BY DEF Cells
    <3>3. QED BY <3>1, <3>2
  <2>2. CASE c < h
    <3>1. /\ c - h + HASH_TABLE_SIZE \in Cells
          /\ h + (c - h + HASH_TABLE_SIZE) = c + HASH_TABLE_SIZE
      BY <1>1, <2>2 DEF Cells
    <3>2. (c + HASH_TABLE_SIZE) % HASH_TABLE_SIZE = c
      BY DEF Cells
    <3>3. QED BY <3>1, <3>2
  <2>3. QED BY <1>1, <2>1, <2>2 DEF Cells
<1>4. QED BY <1>1, <1>2, <1>3

(* Of some distances, the probe meets the nearest one first.               *)
LEMMA NearestFirst ==
  ASSUME NEW S \in SUBSET Cells, S # {}
  PROVE  Nearest(S) \in S /\ \A e \in S : Nearest(S) <= e
<1>1. S \subseteq Nat
  BY DEF Cells
<1> DEFINE Less == OpToRel(<, Nat)
<1>2. PICK x \in S : \A y \in S : <<y, x>> \notin Less
  BY <1>1, WFMin, NatLessThanWellFounded
<1>3. ASSUME NEW y \in S PROVE x <= y
  <2>1. y < x => <<y, x>> \in Less
    BY <1>1 DEF OpToRel
  <2>2. ~ (y < x)
    BY <1>2, <2>1
  <2>3. QED BY <1>1, <2>2
<1>4. QED BY <1>3 DEF Nearest

(* As long as len has not reached the size, every probe meets an empty     *)
(* cell.                                                                   *)
LEMMA FreeCellReached ==
  ASSUME TypeOK, LenCounts, len < HASH_TABLE_SIZE,
         NEW key, hashFunction(key) \in Cells
  PROVE  FreeProbes(fileInfoList, key) # {}
<1>1. IsFiniteSet(Cells) /\ Cardinality(Cells) = HASH_TABLE_SIZE
  BY FS_Interval DEF Cells
<1>2. Used(fileInfoList) # Cells
  BY <1>1 DEF LenCounts, TypeOK
<1>3. PICK c \in Cells : fileInfoList[c] = NoInfo
  BY <1>2 DEF Used
<1>4. QED
  BY <1>3, ProbeCovers DEF FreeProbes

(* As long as len has not reached the size, the loop of an insertion ends, *)
(* in an empty cell that the probe reaches over occupied ones.             *)
LEMMA InsertEnds ==
  ASSUME TypeOK, LenCounts, len < HASH_TABLE_SIZE,
         NEW key, hashFunction(key) \in Cells
  PROVE  LET d == Nearest(FreeProbes(fileInfoList, key))
         IN  /\ d \in Cells /\ Probe(key, d) \in Cells
             /\ fileInfoList[Probe(key, d)] = NoInfo
             /\ \A e \in Cells : e < d => fileInfoList[Probe(key, e)] # NoInfo
<1>4. FreeProbes(fileInfoList, key) # {}
  BY FreeCellReached
<1>5. FreeProbes(fileInfoList, key) \in SUBSET Cells
  BY DEF FreeProbes
<1> DEFINE d == Nearest(FreeProbes(fileInfoList, key))
<1>6. /\ d \in FreeProbes(fileInfoList, key)
      /\ \A e \in FreeProbes(fileInfoList, key) : d <= e
  BY <1>4, <1>5, NearestFirst
<1>7. d \in Cells /\ fileInfoList[Probe(key, d)] = NoInfo
  BY <1>6 DEF FreeProbes
<1>8. ASSUME NEW e \in Cells, e < d PROVE fileInfoList[Probe(key, e)] # NoInfo
  <2>1. e \notin FreeProbes(fileInfoList, key)
    BY <1>6, <1>7, <1>8 DEF Cells
  <2>2. QED BY <2>1 DEF FreeProbes
<1>9. QED BY <1>7, <1>8, ProbeCovers

-----------------------------------------------------------------------------
LEMMA InsertKeepsTable ==
  ASSUME TableInv, NEW info \in Info, insertFileInfo(info)
  PROVE  TableInv'
<1> DEFINE key == info.fileName
           d   == Nearest(FreeProbes(fileInfoList, key))
           c   == Probe(key, d)
<1>1. /\ d \in Cells /\ c \in Cells /\ fileInfoList[c] = NoInfo
      /\ \A e \in Cells : e < d => fileInfoList[Probe(key, e)] # NoInfo
  BY InsertEnds DEF TableInv, insertFileInfo
<1>2. fileInfoList' = [fileInfoList EXCEPT ![c] = info]
  BY DEF insertFileInfo, Stored
<1> HIDE DEF d, c
<1>3. /\ info # NoInfo /\ fileInfoList'[c] = info
      /\ \A i \in Cells : i # c => fileInfoList'[i] = fileInfoList[i]
  BY <1>1, <1>2 DEF TableInv, TypeOK
<1>4. TypeOK'
  BY <1>1, <1>2 DEF TableInv, TypeOK, insertFileInfo, Counted
<1>5. LenCounts'
  <2>1. Used(fileInfoList') = Used(fileInfoList) \cup {c}
    BY <1>1, <1>3 DEF Used
  <2>2. c \notin Used(fileInfoList)
    BY <1>1 DEF Used
  <2>3. IsFiniteSet(Used(fileInfoList))
    <3>1. IsFiniteSet(Cells)
      BY FS_Interval DEF Cells
    <3>2. Used(fileInfoList) \in SUBSET Cells
      BY DEF Used
    <3>3. QED BY <3>1, <3>2, FS_Subset
  <2>4. Cardinality(Used(fileInfoList')) = Cardinality(Used(fileInfoList)) + 1
    BY <2>1, <2>2, <2>3, FS_AddElement
  <2>5. QED BY <2>4 DEF TableInv, LenCounts, insertFileInfo, Counted
<1>6. FromInserts'
  BY <1>3 DEF TableInv, FromInserts, insertFileInfo
<1>7. ChainsIntact'
  <2>1. ASSUME NEW old \in inserted PROVE Reached(old)'
    <3>1. hashFunction(old.fileName) \in Cells /\ old # NoInfo
      BY DEF TableInv, FromInserts, TypeOK
    <3>2. PICK n \in Cells :
            /\ fileInfoList[Probe(old.fileName, n)] = old
            /\ \A e \in 0 .. n : fileInfoList[Probe(old.fileName, e)] # NoInfo
      BY DEF TableInv, ChainsIntact, Reached
    <3>3. \A e \in Cells : fileInfoList[Probe(old.fileName, e)] # NoInfo
              => fileInfoList'[Probe(old.fileName, e)]
                   = fileInfoList[Probe(old.fileName, e)]
      BY <1>1, <1>3, <3>1, ProbeCovers
    <3>4. \A e \in 0 .. n : e \in Cells
      BY DEF Cells
    <3>5. n \in 0 .. n
      BY DEF Cells
    <3>6. /\ fileInfoList'[Probe(old.fileName, n)] = old
          /\ \A e \in 0 .. n : fileInfoList'[Probe(old.fileName, e)] # NoInfo
      BY <3>1, <3>2, <3>3, <3>4
    <3>7. QED BY <3>6 DEF Reached
  <2>2. Reached(info)'
    <3>1. hashFunction(key) \in Cells
      BY DEF insertFileInfo
    <3>2. ASSUME NEW e \in 0 .. d PROVE fileInfoList'[Probe(key, e)] # NoInfo
      <4>1. CASE e = d
        BY <1>3, <4>1 DEF c
      <4>2. CASE e # d
        <5>1. e \in Cells /\ e < d
          BY <1>1, <4>2 DEF Cells
        <5>2. fileInfoList[Probe(key, e)] # NoInfo /\ Probe(key, e) \in Cells
          BY <1>1, <3>1, <5>1, ProbeCovers
        <5>3. QED BY <1>1, <1>3, <5>2
      <4>3. QED BY <4>1, <4>2
    <3>3. fileInfoList'[Probe(key, d)] = info
      BY <1>3 DEF c
    <3>4. QED BY <1>1, <3>2, <3>3 DEF Reached
  <2>3. QED BY <2>1, <2>2 DEF ChainsIntact, insertFileInfo
<1>8. QED BY <1>4, <1>5, <1>6, <1>7 DEF TableInv

(* The table, its counter and its probe chains are sound in every state.   *)
THEOREM TableCorrect == Spec => []TableInv
<1>1. Init => TableInv
  <2> SUFFICES ASSUME Init PROVE TableInv
    OBVIOUS
  <2>1. Used(fileInfoList) = {}
    BY DEF Init, EmptyTable, Used
  <2>2. LenCounts
    BY <2>1, FS_EmptySet DEF Init, LenCounts
  <2>3. TypeOK
    <3>1. len \in 0 .. HASH_TABLE_SIZE
      BY DEF Init
    <3>2. fileInfoList \in [Cells -> Info \cup {NoInfo}]
      BY DEF Init, EmptyTable
    <3>3. QED BY <3>1, <3>2 DEF Init, TypeOK
  <2>4. FromInserts /\ ChainsIntact
    BY DEF Init, EmptyTable, FromInserts, ChainsIntact
  <2>5. QED BY <2>2, <2>3, <2>4 DEF TableInv
<1>2. TableInv /\ [Next]_vars => TableInv'
  <2> SUFFICES ASSUME TableInv, [Next]_vars PROVE TableInv'
    OBVIOUS
  <2>1. ASSUME NEW info \in Info, insertFileInfo(info) PROVE TableInv'
    BY <2>1, InsertKeepsTable
  <2>2. ASSUME NEW info \in Info, InsertOutside(info) PROVE TableInv'
    BY <2>2 DEF InsertOutside, TableInv, TypeOK, LenCounts, FromInserts,
                ChainsIntact, Reached, Used
  <2>3. ASSUME UNCHANGED vars PROVE TableInv'
    BY <2>3 DEF vars, TableInv, TypeOK, LenCounts, FromInserts,
                ChainsIntact, Reached, Used
  <2>4. QED BY <2>1, <2>2, <2>3 DEF Next, InsertRefused
<1>3. QED BY <1>1, <1>2, PTL DEF Spec

(* len counts the occupied cells: insertFileInfo refuses a full table and  *)
(* only that one, and its loop ends (super_lib.c:24-34).                   *)
THEOREM TableCounts == Spec => []LenCounts
<1>1. TableInv => LenCounts
  BY DEF TableInv
<1>2. QED BY <1>1, TableCorrect, PTL

(* No insertion hides an info that an earlier one has stored               *)
(* (super_lib.c:30-37).                                                    *)
THEOREM TableKeepsChains == Spec => []ChainsIntact
<1>1. TableInv => ChainsIntact
  BY DEF TableInv
<1>2. QED BY <1>1, TableCorrect, PTL

(* A search for a stored name ends with an info that matches it            *)
(* (super_lib.c:47-53).                                                    *)
THEOREM TableFindsStored == Spec => []SearchFindsStored
<1>1. TableInv => SearchFindsStored
  <2> SUFFICES ASSUME TableInv, NEW info \in inserted
               PROVE  LET answer == searchFileInfo(info.fileName, fileInfoList)
                      IN  answer \in inserted /\ Matches(info.fileName, answer.fileName)
    BY DEF SearchFindsStored
  <2> DEFINE key   == info.fileName
             stops == StopProbes(fileInfoList, key)
             n     == Nearest(stops)
  <2>1. hashFunction(key) \in Cells
    BY DEF TableInv, FromInserts
  <2>2. PICK d \in Cells :
          /\ fileInfoList[Probe(key, d)] = info
          /\ \A e \in 0 .. d : fileInfoList[Probe(key, e)] # NoInfo
    BY DEF TableInv, ChainsIntact, Reached
  <2>3. d \in stops /\ stops \in SUBSET Cells
    BY <2>2 DEF StopProbes, Matches
  <2>4. n \in stops /\ n <= d
    BY <2>3, NearestFirst
  <2>5. n \in Cells /\ n \in 0 .. d
    BY <2>3, <2>4 DEF Cells
  <2>6. fileInfoList[Probe(key, n)] # NoInfo
    BY <2>2, <2>5
  <2>7. Matches(key, fileInfoList[Probe(key, n)].fileName)
    BY <2>4, <2>6 DEF StopProbes
  <2>8. fileInfoList[Probe(key, n)] \in inserted
    BY <2>1, <2>5, <2>6, ProbeCovers DEF TableInv, FromInserts
  <2>9. searchFileInfo(key, fileInfoList) = fileInfoList[Probe(key, n)]
    BY <2>3 DEF searchFileInfo
  <2>10. QED BY <2>7, <2>8, <2>9
<1>2. QED BY <1>1, TableCorrect, PTL

(* A search ends, whatever it searches for, while there is room for one    *)
(* more info (super_lib.c:47-55).                                          *)
THEOREM TableSearchEnds == Spec => []SearchEnds
<1>1. TableInv => SearchEnds
  <2> SUFFICES ASSUME TableInv, NEW key \in Names,
                      len < HASH_TABLE_SIZE, hashFunction(key) \in Cells
               PROVE  StopProbes(fileInfoList, key) # {}
    BY DEF SearchEnds
  <2>1. FreeProbes(fileInfoList, key) # {}
    BY FreeCellReached DEF TableInv
  <2>2. FreeProbes(fileInfoList, key) \subseteq StopProbes(fileInfoList, key)
    BY DEF FreeProbes, StopProbes
  <2>3. QED BY <2>1, <2>2
<1>2. QED BY <1>1, TableCorrect, PTL
=============================================================================
