--------------------------- MODULE TransferProofs ---------------------------
(***************************************************************************)
(* Proofs about TransferService, for all clients, names and sizes, which   *)
(* hold for every server that refines it; and about the client of Transfer *)
(* and its streams, which the proofs of these servers share.               *)
(***************************************************************************)
EXTENDS Transfer, SequenceTheorems, TLAPS

USE TransferAssumption

ServiceTypeOK ==
  /\ name \in [Clients -> Names \cup {NoName}]
  /\ disk \in [Names -> Seq(Block)]
  /\ told \in [Clients -> {"nothing", "stored", "failed"}]
  /\ torn \subseteq Clients

(* Nobody is told of a file that has no name.                              *)
StoredHasName == \A c \in Clients : told[c] = "stored" => name[c] \in Names

ServiceInv == ServiceTypeOK /\ StoredHasName /\ StoredIsSent

-----------------------------------------------------------------------------
(* What open() and write() leave of a file                                 *)

(* A file has the blocks of its name, as many as Size says.                *)
LEMMA FileType ==
  ASSUME NEW n \in Names
  PROVE  /\ File(n) \in Seq(Block)
         /\ Len(File(n)) = Size[n]
         /\ \A k \in 1 .. Size[n] : File(n)[k].of = n
<1>1. Size[n] \in Nat
  OBVIOUS
<1>2. \A k \in 1 .. Size[n] : [of |-> n, no |-> k] \in Block
  BY DEF Block
<1>3. QED BY <1>1, <1>2 DEF File

(* A file that open() has created is there, and open() does not create it  *)
(* again.                                                                  *)
LEMMA CreatedType ==
  ASSUME NEW old \in Seq(Block)
  PROVE  /\ Created(old) \in Seq(Block)
         /\ Created(old) # Absent
         /\ Created(Created(old)) = Created(old)
<1>1. <<>> # Absent
  <2>1. 1 \in DOMAIN Absent
    BY DEF Absent
  <2>2. DOMAIN <<>> = {}
    OBVIOUS
  <2>3. QED BY <2>1, <2>2
<1>2. QED BY <1>1 DEF Created

(* The length and the blocks of a file that was written.                   *)
LEMMA OverwrittenBlocks ==
  ASSUME NEW old \in Seq(Block), NEW new \in Seq(Block)
  PROVE  LET o == Created(old)
             w == Overwritten(old, new)
         IN  /\ w \in Seq(Block)
             /\ Len(w) = IF Len(new) < Len(o) THEN Len(o) ELSE Len(new)
             /\ \A k \in 1 .. Len(w) : w[k] = IF k <= Len(new) THEN new[k] ELSE o[k]
<1> DEFINE o == Created(old)
           rest == SubSeq(o, Len(new) + 1, Len(o))
           w == Overwritten(old, new)
<1>1. o \in Seq(Block) /\ Len(o) \in Nat /\ Len(new) \in Nat
  BY CreatedType
<1>2. \A k \in Len(new) + 1 .. Len(o) : o[k] \in Block
  BY <1>1
<1> HIDE DEF o
<1>3. /\ rest \in Seq(Block)
      /\ Len(rest) = IF Len(new) + 1 <= Len(o) THEN Len(o) - Len(new) ELSE 0
      /\ \A i \in 1 .. Len(o) - Len(new) : rest[i] = o[Len(new) + i]
  <2>1. Len(new) + 1 \in Int /\ Len(o) \in Int
    BY <1>1
  <2>2. /\ SubSeq(o, Len(new) + 1, Len(o)) \in Seq(Block)
        /\ Len(SubSeq(o, Len(new) + 1, Len(o))) =
             IF Len(new) + 1 <= Len(o) THEN Len(o) - (Len(new) + 1) + 1 ELSE 0
        /\ \A i \in 1 .. Len(o) - (Len(new) + 1) + 1 :
              SubSeq(o, Len(new) + 1, Len(o))[i] = o[(Len(new) + 1) + i - 1]
    BY <1>2, <2>1, SubSeqProperties
  <2>3. Len(o) - (Len(new) + 1) + 1 = Len(o) - Len(new)
    BY <1>1
  <2>4. \A i \in 1 .. Len(o) - Len(new) : (Len(new) + 1) + i - 1 = Len(new) + i
    BY <1>1
  <2>5. QED BY <2>2, <2>3, <2>4
<1>4. w = new \o rest
  BY DEF Overwritten, o
<1> HIDE DEF rest, w
<1>5. /\ w \in Seq(Block)
      /\ Len(w) = Len(new) + Len(rest)
      /\ \A k \in 1 .. Len(new) + Len(rest) :
            w[k] = IF k <= Len(new) THEN new[k] ELSE rest[k - Len(new)]
  <2>1. rest \in Seq(Block)
    BY <1>3
  <2>2. /\ new \o rest \in Seq(Block)
        /\ Len(new \o rest) = Len(new) + Len(rest)
        /\ \A k \in 1 .. Len(new) + Len(rest) :
              (new \o rest)[k] = IF k <= Len(new) THEN new[k] ELSE rest[k - Len(new)]
    BY <2>1, ConcatProperties
  <2>3. QED BY <1>4, <2>2
<1>6. Len(w) = IF Len(new) < Len(o) THEN Len(o) ELSE Len(new)
  <2>1. Len(w) = Len(new) + (IF Len(new) + 1 <= Len(o) THEN Len(o) - Len(new) ELSE 0)
    BY <1>3, <1>5
  <2>2. QED BY <1>1, <2>1
<1>7. ASSUME NEW k \in 1 .. Len(w)
      PROVE  w[k] = IF k <= Len(new) THEN new[k] ELSE o[k]
  <2>1. CASE k <= Len(new)
    BY <1>1, <1>3, <1>5, <2>1
  <2>2. CASE ~(k <= Len(new))
    <3>1. k - Len(new) \in 1 .. Len(o) - Len(new) /\ Len(new) + (k - Len(new)) = k
      BY <1>1, <1>6, <2>2
    <3>2. w[k] = rest[k - Len(new)]
      BY <1>1, <1>3, <1>5, <2>2
    <3>3. QED BY <1>3, <3>1, <3>2, <2>2
  <2>3. QED BY <2>1, <2>2
<1>8. QED BY <1>5, <1>6, <1>7 DEF w, o


(* The beginning of a file is made of blocks.                              *)
LEMMA PrefixType ==
  ASSUME NEW n \in Names, NEW k \in Nat, k <= Size[n]
  PROVE  SubSeq(File(n), 1, k) \in Seq(Block)
<1>1. File(n) \in Seq(Block) /\ Len(File(n)) = Size[n] /\ Size[n] \in Nat
  BY FileType, TransferAssumption
<1>2. \A i \in 1 .. k : File(n)[i] \in Block
  BY <1>1
<1>3. QED BY <1>2, SubSeqProperties

(* The next block makes it longer.                                         *)
LEMMA PrefixGrows ==
  ASSUME NEW n \in Names, NEW k \in Nat, k + 1 <= Size[n]
  PROVE  SubSeq(File(n), 1, k) \o SubSeq(File(n), k + 1, k + 1) = SubSeq(File(n), 1, k + 1)
<1> DEFINE f == File(n)
<1>1. f \in Seq(Block) /\ Len(f) = Size[n] /\ Size[n] \in Nat
  BY FileType, TransferAssumption
<1> HIDE DEF f
<1>2. 1 \in 1 .. Len(f) /\ k + 1 \in 1 .. Len(f) /\ k + 1 \in k + 1 .. Len(f)
  BY <1>1
<1>3. SubSeq(f, 1, k + 1) = SubSeq(f, 1, k + 1 - 1) \o <<f[k + 1]>>
  BY <1>1, <1>2, SubSeqRecursiveSecond
<1>4. SubSeq(f, k + 1, k + 1) = <<f[k + 1]>>
  <2>1. SubSeq(f, k + 1, k + 1) = <<f[k + 1]>> \o SubSeq(f, k + 1 + 1, k + 1)
    BY <1>1, <1>2, SubSeqRecursiveFirst
  <2>2. SubSeq(f, k + 1 + 1, k + 1) = <<>>
    BY SubSeqEmpty
  <2>3. f[k + 1] \in Block
    BY <1>1, <1>2, ElementOfSeq
  <2>4. <<f[k + 1]>> \in Seq(Block)
    BY <2>3
  <2>5. QED BY <2>1, <2>2, <2>4, ConcatEmptySeq
<1>5. k + 1 - 1 = k
  OBVIOUS
<1>6. QED BY <1>3, <1>4, <1>5 DEF f

(* The whole of it is the file.                                            *)
LEMMA PrefixWhole ==
  ASSUME NEW n \in Names, NEW k \in Nat, k <= Size[n], k >= Size[n]
  PROVE  SubSeq(File(n), 1, k) = File(n)
<1>1. File(n) \in Seq(Block) /\ Len(File(n)) = Size[n] /\ Size[n] \in Nat
  BY FileType, TransferAssumption
<1>2. k = Len(File(n))
  BY <1>1
<1>3. QED BY <1>1, <1>2, SubSeqFull

(* As many of them as it says, those of the file.                          *)
LEMMA PartType ==
  ASSUME NEW n \in Names, NEW k \in 0 .. Size[n]
  PROVE  /\ Part(n, k) \in Seq(Block)
         /\ Len(Part(n, k)) = k
         /\ \A i \in 1 .. k : Part(n, k)[i] = File(n)[i]
<1>1. File(n) \in Seq(Block) /\ Len(File(n)) = Size[n] /\ Size[n] \in Nat /\ k \in Nat /\ k <= Size[n]
  BY FileType
<1>2. \A i \in 1 .. k : File(n)[i] \in Block
  BY <1>1
<1>3. /\ SubSeq(File(n), 1, k) \in Seq(Block)
      /\ Len(SubSeq(File(n), 1, k)) = IF 1 <= k THEN k - 1 + 1 ELSE 0
      /\ \A i \in 1 .. k - 1 + 1 : SubSeq(File(n), 1, k)[i] = File(n)[1 + i - 1]
  BY <1>1, <1>2, SubSeqProperties
<1>4. k - 1 + 1 = k /\ (IF 1 <= k THEN k - 1 + 1 ELSE 0) = k /\ \A i \in 1 .. k : 1 + i - 1 = i
  BY <1>1
<1>5. QED BY <1>3, <1>4 DEF Part

(* None of them, and all of them.                                          *)
LEMMA PartEnds ==
  ASSUME NEW n \in Names
  PROVE  Part(n, 0) = <<>> /\ Part(n, Size[n]) = File(n)
<1>1. Part(n, 0) = <<>>
  BY SubSeqEmpty DEF Part
<1>2. Part(n, Size[n]) = File(n)
  BY PrefixWhole DEF Part
<1>3. QED BY <1>1, <1>2

(* A write of nothing only creates the file.                               *)
LEMMA OverwrittenNothing ==
  ASSUME NEW old \in Seq(Block)
  PROVE  Overwritten(old, <<>>) = Created(old)
<1> DEFINE o == Created(old)
<1>1. o \in Seq(Block)
  BY CreatedType
<1> HIDE DEF o
<1>2. SubSeq(o, 0 + 1, Len(o)) = o
  BY <1>1, SubSeqFull
<1>3. <<>> \o o = o
  BY <1>1, ConcatEmptySeq
<1>4. QED BY <1>2, <1>3 DEF Overwritten, o

(* What was written of a file of a client is never taken for a file that   *)
(* is not there.                                                           *)
LEMMA OverwrittenThere ==
  ASSUME NEW old \in Seq(Block), NEW n \in Names, NEW k \in 0 .. Size[n]
  PROVE  Overwritten(old, Part(n, k)) # Absent
<1> DEFINE f == Part(n, k)
           w == Overwritten(old, f)
<1>1. CASE k = 0
  BY <1>1, PartEnds, OverwrittenNothing, CreatedType
<1>2. CASE k # 0
  <2>1. f \in Seq(Block) /\ Len(f) = k /\ k \in Nat /\ f[1] = File(n)[1] /\ File(n)[1].of = n
    BY <1>2, PartType, FileType
  <2>2. /\ w \in Seq(Block)
        /\ Len(w) = IF Len(f) < Len(Created(old)) THEN Len(Created(old)) ELSE Len(f)
        /\ \A i \in 1 .. Len(w) : w[i] = IF i <= Len(f) THEN f[i] ELSE Created(old)[i]
    BY <2>1, OverwrittenBlocks
  <2>3. Len(Created(old)) \in Nat
    BY CreatedType
  <2> HIDE DEF f, w
  <2>4. 1 \in 1 .. Len(w) /\ 1 <= Len(f)
    BY <1>2, <2>1, <2>2, <2>3
  <2>5. w[1].of = n
    BY <2>1, <2>2, <2>4
  <2>6. Absent[1].of = NoName
    BY DEF Absent
  <2>7. QED BY <2>5, <2>6 DEF w, f
<1>3. QED BY <1>1, <1>2

(* A second write of a file leaves the longer of the two parts.            *)
Longer(j, k) == IF j < k THEN k ELSE j

LEMMA OverwrittenTwice ==
  ASSUME NEW old \in Seq(Block), NEW n \in Names, NEW j \in 0 .. Size[n], NEW k \in 0 .. Size[n]
  PROVE  Overwritten(Overwritten(old, Part(n, j)), Part(n, k)) = Overwritten(old, Part(n, Longer(j, k)))
<1> DEFINE o == Created(old)
           f == Part(n, j)
           g == Part(n, k)
           h == Part(n, Longer(j, k))
           w == Overwritten(old, f)
           v == Overwritten(w, g)
           u == Overwritten(old, h)
<1>1. Longer(j, k) \in 0 .. Size[n] /\ Size[n] \in Nat /\ j \in Nat /\ k \in Nat
  BY DEF Longer
<1>2. /\ f \in Seq(Block) /\ Len(f) = j /\ (\A i \in 1 .. j : f[i] = File(n)[i])
      /\ g \in Seq(Block) /\ Len(g) = k /\ (\A i \in 1 .. k : g[i] = File(n)[i])
      /\ h \in Seq(Block) /\ Len(h) = Longer(j, k) /\ (\A i \in 1 .. Longer(j, k) : h[i] = File(n)[i])
  BY <1>1, PartType
<1>3. o \in Seq(Block) /\ Len(o) \in Nat
  BY CreatedType
<1> HIDE DEF f, g, h
<1>4. /\ w \in Seq(Block)
      /\ Len(w) = IF j < Len(o) THEN Len(o) ELSE j
      /\ \A i \in 1 .. Len(w) : w[i] = IF i <= j THEN f[i] ELSE o[i]
  BY <1>2, OverwrittenBlocks
<1>5. Created(w) = w
  BY OverwrittenThere DEF Created, f
<1>6. /\ v \in Seq(Block)
      /\ Len(v) = IF k < Len(w) THEN Len(w) ELSE k
      /\ \A i \in 1 .. Len(v) : v[i] = IF i <= k THEN g[i] ELSE w[i]
  BY <1>2, <1>4, <1>5, OverwrittenBlocks
<1>7. /\ u \in Seq(Block)
      /\ Len(u) = IF Longer(j, k) < Len(o) THEN Len(o) ELSE Longer(j, k)
      /\ \A i \in 1 .. Len(u) : u[i] = IF i <= Longer(j, k) THEN h[i] ELSE o[i]
  BY <1>2, OverwrittenBlocks
<1> HIDE DEF o, w, v, u
<1>8. Len(v) = Len(u) /\ Len(v) \in Nat /\ Len(w) \in Nat
  BY <1>1, <1>3, <1>4, <1>6, <1>7 DEF Longer
<1>9. ASSUME NEW i \in 1 .. Len(v)
      PROVE  v[i] = u[i]
  <2>1. i \in Nat /\ i >= 1 /\ i \in 1 .. Len(u)
    BY <1>8
  <2>2. CASE i <= k
    <3>1. i <= Longer(j, k) /\ i \in 1 .. Longer(j, k) /\ i \in 1 .. k
      BY <1>1, <2>1, <2>2 DEF Longer
    <3>2. QED BY <1>2, <1>6, <1>7, <2>1, <2>2, <3>1
  <2>3. CASE ~(i <= k) /\ i <= j
    <3>1. i <= Longer(j, k) /\ i \in 1 .. Longer(j, k) /\ i \in 1 .. j /\ i \in 1 .. Len(w)
      BY <1>1, <1>3, <1>4, <2>1, <2>3 DEF Longer
    <3>2. QED BY <1>2, <1>4, <1>6, <1>7, <2>1, <2>3, <3>1
  <2>4. CASE ~(i <= k) /\ ~(i <= j)
    <3>1. ~(i <= Longer(j, k)) /\ i \in 1 .. Len(w)
      BY <1>1, <1>3, <1>4, <1>6, <2>1, <2>4 DEF Longer
    <3>2. QED BY <1>4, <1>6, <1>7, <2>1, <2>4, <3>1
  <2>5. QED BY <2>2, <2>3, <2>4
<1>10. v = u
  BY <1>6, <1>7, <1>8, <1>9, SeqEqual
<1>11. QED BY <1>10 DEF v, u, w, f, g, h

-----------------------------------------------------------------------------
(* The invariants                                                          *)

(* Nothing has been stored and nobody been told.                           *)
LEMMA ServiceInit == TransferInit => ServiceInv /\ FilesWhole
BY DEF TransferInit, ServiceInv, ServiceTypeOK, StoredHasName, StoredIsSent, FilesWhole

(* A file that is stored stays so, whoever stores it again, or a part of   *)
(* it, or only opens it, as long as the packets of that client are not cut.*)
LEMMA StoredStays ==
  ASSUME ServiceTypeOK, NEW c \in Clients, NEW n \in Names, Stored(n),
         Keep(c) \/ Create(c)
  PROVE  Stored(n)' \/ (c \in Cut /\ name[c] = n)
<1>1. /\ disk[n] = Overwritten(Old[n], Part(n, Size[n])) /\ Old[n] \in Seq(Block)
      /\ name[c] \in Names /\ Size[n] \in 0 .. Size[n]
  BY PartEnds DEF Stored, ServiceTypeOK, Keep, Create
<1>2. Created(disk[n]) = disk[n]
  BY <1>1, OverwrittenThere DEF Created
<1>3. \A k \in 0 .. Size[n] : Overwritten(disk[n], Part(n, k)) = disk[n]
  <2>1. \A k \in 0 .. Size[n] : Longer(Size[n], k) = Size[n]
    BY DEF Longer
  <2>2. QED BY <1>1, <2>1, OverwrittenTwice
<1>4. CASE Keep(c)
  BY <1>1, <1>3, <1>4, PartEnds DEF Keep, Stored
<1>5. CASE Create(c)
  <2>1. disk'[n] = disk[n]
    BY <1>1, <1>2, <1>5 DEF Create, ServiceTypeOK
  <2>2. QED BY <2>1 DEF Stored
<1>6. QED BY <1>4, <1>5

(* Every step keeps the types, and a client without a name untold.         *)
LEMMA ServiceTypes ==
  ASSUME ServiceTypeOK, StoredHasName, [TransferNext]_transferVars
  PROVE  ServiceTypeOK' /\ StoredHasName'
<1> USE DEF ServiceTypeOK, StoredHasName
<1>1. CASE UNCHANGED transferVars
  BY <1>1 DEF transferVars
<1>2. ASSUME NEW c \in Clients, Choose(c) PROVE ServiceTypeOK' /\ StoredHasName'
  BY <1>2 DEF Choose
<1>3. ASSUME NEW c \in Clients, Keep(c) PROVE ServiceTypeOK' /\ StoredHasName'
  BY <1>3 DEF Keep
<1>4. ASSUME NEW c \in Clients, Create(c) PROVE ServiceTypeOK' /\ StoredHasName'
  <2>1. name[c] \in Names
    BY <1>4 DEF Create
  <2>2. Created(disk[name[c]]) \in Seq(Block)
    BY <2>1, CreatedType
  <2>3. QED BY <1>4, <2>1, <2>2 DEF Create
<1>5. ASSUME NEW c \in Clients, TellStored(c) PROVE ServiceTypeOK' /\ StoredHasName'
  BY <1>5 DEF TellStored
<1>6. ASSUME NEW c \in Clients, TellFailed(c) PROVE ServiceTypeOK' /\ StoredHasName'
  BY <1>6 DEF TellFailed
<1>7. QED BY <1>1, <1>2, <1>3, <1>4, <1>5, <1>6 DEF TransferNext

(* What has been promised to a client stays true.                          *)
LEMMA StoredForStays ==
  ASSUME ServiceTypeOK, [TransferNext]_transferVars, NEW d \in Clients, name[d] \in Names, StoredFor(d)
  PROVE  StoredFor(d)'
<1>1. CASE UNCHANGED transferVars
  BY <1>1 DEF StoredFor, Stored, transferVars
<1>2. /\ \A e \in Clients : name[e] \in Names => name'[e] = name[e]
      /\ TransferNext => torn \subseteq torn'
  BY TransferAssumption DEF TransferNext, transferVars, Choose, Keep, Create, TellStored, TellFailed, ServiceTypeOK
<1>3. ASSUME TransferNext, d \in torn \/ \E e \in Cut : name[e] = name[d]
      PROVE  StoredFor(d)'
  BY <1>2, <1>3, TransferAssumption DEF StoredFor
<1>4. ASSUME NEW e \in Clients, Keep(e) \/ Create(e), Stored(name[d])
      PROVE  StoredFor(d)'
  <2>1. PICK n \in Names : n = name[d]
    OBVIOUS
  <2>2. Stored(n)' \/ (e \in Cut /\ name[e] = n)
    BY <1>4, <2>1, StoredStays
  <2>3. name' = name
    BY <1>4 DEF Keep, Create
  <2>4. QED BY <2>1, <2>2, <2>3 DEF StoredFor, Stored
<1>5. ASSUME UNCHANGED disk, Stored(name[d]) PROVE StoredFor(d)'
  BY <1>2, <1>5 DEF StoredFor, Stored
<1>6. QED
  BY <1>1, <1>3, <1>4, <1>5 DEF StoredFor, TransferNext, Choose, TellStored, TellFailed

(* Every step keeps StoredIsSent.                                          *)
LEMMA StoredIsSentStep ==
  ASSUME ServiceInv, [TransferNext]_transferVars
  PROVE  StoredIsSent'
<1>1. SUFFICES ASSUME NEW d \in Clients, told'[d] = "stored" PROVE StoredFor(d)'
  BY DEF StoredIsSent, StoredFor, Stored
<1>2. CASE told[d] = "stored"
  BY <1>2, StoredForStays DEF ServiceInv, StoredHasName, StoredIsSent
<1>3. CASE told[d] # "stored"
  <2>1. TellStored(d)
    BY <1>1, <1>3 DEF ServiceInv, ServiceTypeOK, TransferNext, transferVars, Choose, Keep, Create,
                      TellStored, TellFailed
  <2>2. name[d] \in Names /\ StoredFor(d)
    BY <2>1 DEF TellStored, ServiceInv, ServiceTypeOK
  <2>3. QED BY <2>2, StoredForStays DEF ServiceInv
<1>4. QED BY <1>2, <1>3

(* In every behaviour of the service, a client that is told "stored" has   *)
(* its whole file on the disk, and no transfer of another client, whole,   *)
(* killed or come short, takes it away again, unless the write of its own  *)
(* file was torn or packets with a file of this name may be cut.           *)
THEOREM ServiceStoredIsSent == TransferSafety => []StoredIsSent
<1>1. TransferInit => ServiceInv
  BY ServiceInit
<1>2. ServiceInv /\ [TransferNext]_transferVars => ServiceInv'
  BY ServiceTypes, StoredIsSentStep DEF ServiceInv
<1>3. ServiceInv => StoredIsSent
  BY DEF ServiceInv
<1>4. QED BY <1>1, <1>2, <1>3, PTL DEF TransferSafety

(* The second case of FilesWhole.                                          *)
Written(n) ==
  \E k \in 0 .. Size[n] :
     /\ disk[n] = Overwritten(Old[n], Part(n, k))
     /\ k \in {0, Size[n]} \/ \E c \in torn : name[c] = n

(* Every step keeps FilesWhole.                                            *)
LEMMA FilesWholeStep ==
  ASSUME ServiceTypeOK, FilesWhole, [TransferNext]_transferVars
  PROVE  FilesWhole'
<1>1. CASE UNCHANGED transferVars
  BY <1>1 DEF transferVars, FilesWhole
<1>2. SUFFICES ASSUME TransferNext, NEW n \in Names, disk[n] = Old[n] \/ Written(n)
               PROVE  disk'[n] = Old[n] \/ Written(n)' \/ \E d \in Cut : name'[d] = n
  <2>1. \A d \in Clients : name[d] \in Names => name'[d] = name[d]
    BY TransferAssumption
       DEF TransferNext, transferVars, Choose, Keep, Create, TellStored, TellFailed, ServiceTypeOK
  <2>2. QED BY <1>1, <2>1 DEF FilesWhole, Written
<1>3. ASSUME UNCHANGED <<disk, torn>>, \A d \in Clients : name[d] \in Names => name'[d] = name[d]
      PROVE  disk'[n] = Old[n] \/ Written(n)'
  BY <1>2, <1>3 DEF Written, ServiceTypeOK
<1>4. ASSUME NEW c \in Clients, Choose(c) PROVE disk'[n] = Old[n] \/ Written(n)'
  BY <1>3, <1>4 DEF Choose, ServiceTypeOK
<1>5. ASSUME NEW c \in Clients, TellStored(c) \/ TellFailed(c) PROVE disk'[n] = Old[n] \/ Written(n)'
  BY <1>3, <1>5 DEF TellStored, TellFailed
<1>6. ASSUME NEW c \in Clients, Keep(c)
      PROVE  disk'[n] = Old[n] \/ Written(n)' \/ \E d \in Cut : name'[d] = n
  <2>1. name' = name /\ torn \subseteq torn' /\ torn' \subseteq Clients
    BY <1>6 DEF Keep, ServiceTypeOK
  <2>2. CASE n # name[c]
    <3>1. disk'[n] = disk[n]
      BY <1>6, <2>2 DEF Keep
    <3>2. QED BY <1>2, <2>1, <3>1 DEF Written
  <2>3. CASE c \in Cut /\ n = name[c]
    BY <2>1, <2>3
  <2>4. CASE c \notin Cut /\ n = name[c]
    <3>1. PICK k \in 0 .. Size[n] :
             (c \in torn' \/ k = Size[n]) /\ disk'[n] = Overwritten(disk[n], Part(n, k))
      BY <1>6, <2>4 DEF Keep
    <3>2. CASE disk[n] = Old[n]
      BY <2>1, <2>4, <3>1, <3>2 DEF Written
    <3>3. CASE Written(n)
      <4>1. PICK j \in 0 .. Size[n] : disk[n] = Overwritten(Old[n], Part(n, j))
        BY <3>3 DEF Written
      <4>2. Longer(j, k) \in 0 .. Size[n] /\ (k = Size[n] => Longer(j, k) = Size[n])
        BY DEF Longer
      <4>3. disk'[n] = Overwritten(Old[n], Part(n, Longer(j, k)))
        BY <3>1, <4>1, OverwrittenTwice
      <4>4. QED BY <2>1, <2>4, <3>1, <4>2, <4>3 DEF Written
    <3>4. QED BY <1>2, <3>2, <3>3
  <2>5. QED BY <2>2, <2>3, <2>4
<1>7. ASSUME NEW c \in Clients, Create(c) PROVE disk'[n] = Old[n] \/ Written(n)'
  <2>1. name' = name /\ torn' = torn
    BY <1>7 DEF Create
  <2>2. CASE n # name[c]
    <3>1. disk'[n] = disk[n]
      BY <1>7, <2>2 DEF Create, ServiceTypeOK
    <3>2. QED BY <1>2, <2>1, <3>1 DEF Written
  <2>3. CASE n = name[c]
    <3>1. disk'[n] = Created(disk[n])
      BY <1>7, <2>3 DEF Create, ServiceTypeOK
    <3>2. CASE disk[n] = Old[n]
      <4>1. disk'[n] = Overwritten(Old[n], Part(n, 0))
        BY <3>1, <3>2, PartEnds, OverwrittenNothing
      <4>2. QED BY <4>1 DEF Written
    <3>3. CASE Written(n)
      <4>1. disk'[n] = disk[n]
        BY <3>1, <3>3, OverwrittenThere DEF Written, Created
      <4>2. QED BY <2>1, <3>3, <4>1 DEF Written
    <3>4. QED BY <1>2, <3>2, <3>3
  <2>4. QED BY <2>2, <2>3
<1>8. QED BY <1>2, <1>4, <1>5, <1>6, <1>7 DEF TransferNext

(* In every behaviour of the service, a file is what it was, newly created,*)
(* or the whole of what a client sent is written over it: a transfer that  *)
(* is given up leaves no part of one, only a write that was torn does, and *)
(* that part is a beginning of the file.                                   *)
THEOREM ServiceFilesWhole == TransferSafety => []FilesWhole
<1>1. TransferInit => ServiceTypeOK /\ StoredHasName /\ FilesWhole
  BY ServiceInit DEF ServiceInv
<1>2. ServiceTypeOK /\ StoredHasName /\ FilesWhole /\ [TransferNext]_transferVars
        => (ServiceTypeOK /\ StoredHasName /\ FilesWhole)'
  BY ServiceTypes, FilesWholeStep
<1>3. QED BY <1>1, <1>2, PTL DEF TransferSafety

-----------------------------------------------------------------------------
(* The client of Transfer: types                                           *)

PacketType == [cmd : Commands \cup {"rest"}, data : Seq(Block)]
AnswerType == [cmd : Answers, seq : 0 .. SEQ_SIZE - 1]

(* The packets of both ends, and what is left of one that was cut.         *)
LEMMA PacketTypes ==
  /\ \A cmd \in Commands : Packet(cmd, <<>>) \in PacketType
  /\ \A data \in Seq(Block) : Packet("DATA_DELIVERY", data) \in PacketType
  /\ \A n \in Names : Packet("DATA_STORE", <<[of |-> n, no |-> 0]>>) \in PacketType
  /\ Rest \in PacketType
  /\ \A p \in PacketType : [p EXCEPT !.data = <<Garbled>>] \in PacketType
  /\ \A p \in PacketType : LeftOf(p) \in {<<>>, <<Rest>>}
<1>1. <<>> \in Seq(Block)
  OBVIOUS
<1>2. \A n \in Names : <<[of |-> n, no |-> 0]>> \in Seq(Block)
  BY DEF Block
<1>3. <<Garbled>> \in Seq(Block)
  BY DEF Block, Garbled
<1>4. \A p \in PacketType : [p EXCEPT !.data = <<Garbled>>] \in PacketType
  BY <1>3 DEF PacketType
<1>5. QED BY <1>1, <1>2, <1>4 DEF PacketType, Packet, Commands, Rest, LeftOf

(* read() of a file returns blocks.                                        *)
LEMMA NextBlockType ==
  ASSUME ClientTypeOK, NEW c \in Clients, name[c] \in Names, ~NoMore(c)
  PROVE  /\ NextBlock(c) \in Seq(Block)
         /\ pos[c] + 1 <= Size[name[c]]
<1>1. pos[c] \in Nat /\ Size[name[c]] \in Nat
  BY TransferAssumption DEF ClientTypeOK
<1>2. pos[c] + 1 \in 1 .. Size[name[c]] /\ pos[c] + 1 <= Size[name[c]]
  BY <1>1 DEF NoMore
<1>3. File(name[c]) \in Seq(Block) /\ Len(File(name[c])) = Size[name[c]]
  BY FileType
<1>4. File(name[c])[pos[c] + 1] \in Block
  BY <1>2, <1>3
<1>5. SubSeq(File(name[c]), pos[c] + 1, pos[c] + 1) \in Seq(Block)
  BY <1>2, <1>3, <1>4, SubSeqProperties
<1>6. QED BY <1>2, <1>5 DEF NextBlock

(* sendDataPkt keeps the types.                                            *)
LEMMA SendTypes ==
  ASSUME ClientTypeOK, NEW c \in Clients, NEW p \in PacketType, Send(c, p)
  PROVE  /\ cpc' \in [Clients -> {"start", "read", "exited", "killed"}]
         /\ toServer' \in [Clients -> Seq(PacketType)]
         /\ reset' \subseteq Clients
<1>1. toServer \in [Clients -> Seq(PacketType)]
  BY DEF ClientTypeOK, PacketType
<1>2. Append(toServer[c], p) \in Seq(PacketType)
  BY <1>1
<1>3. cpc \in [Clients -> {"start", "read", "exited", "killed"}] /\ reset \subseteq Clients
  BY DEF ClientTypeOK
<1>4. QED BY <1>1, <1>2, <1>3 DEF Send

(* So does the reading of an answer.                                       *)
LEMMA ReplyTypes ==
  ASSUME ClientTypeOK, NEW c \in Clients, NEW cmd, Reply(c, cmd)
  PROVE  /\ got' \in [Clients -> [cmd : Answers \cup {"none"}, seq : 0 .. SEQ_SIZE - 1]]
         /\ toClient' \in [Clients -> Seq(AnswerType)]
<1>1. toClient \in [Clients -> Seq(AnswerType)]
  BY DEF ClientTypeOK, AnswerType
<1>2. got \in [Clients -> [cmd : Answers \cup {"none"}, seq : 0 .. SEQ_SIZE - 1]]
  BY DEF ClientTypeOK
<1>3. CASE toClient[c] # <<>>
  <2>1. Head(toClient[c]) \in AnswerType /\ Tail(toClient[c]) \in Seq(AnswerType)
    BY <1>1, <1>3
  <2>2. Head(toClient[c]) \in [cmd : Answers \cup {"none"}, seq : 0 .. SEQ_SIZE - 1]
    BY <2>1 DEF AnswerType
  <2>3. /\ got' = [got EXCEPT ![c] = Head(toClient[c])]
        /\ toClient' = [toClient EXCEPT ![c] = Tail(toClient[c])]
    BY <1>3 DEF Reply
  <2>4. got' \in [Clients -> [cmd : Answers \cup {"none"}, seq : 0 .. SEQ_SIZE - 1]]
    BY <1>2, <2>2, <2>3
  <2>5. QED BY <1>1, <2>1, <2>3, <2>4
<1>4. CASE toClient[c] = <<>>
  BY <1>1, <1>2, <1>4 DEF Reply
<1>5. QED BY <1>3, <1>4

(* The types of what the steps of the client change.                       *)
NetTypes ==
  /\ toServer \in [Clients -> Seq(PacketType)]
  /\ toClient \in [Clients -> Seq(AnswerType)]
  /\ reset \subseteq Clients

ClientSide ==
  /\ NetTypes
  /\ told \in [Clients -> {"nothing", "stored", "failed"}]
  /\ cpc \in [Clients -> {"start", "read", "exited", "killed"}]
  /\ got \in [Clients -> [cmd : Answers \cup {"none"}, seq : 0 .. SEQ_SIZE - 1]]
  /\ pos \in [Clients -> Nat]
  /\ backlog \in Seq(Clients)

(* What a client sends are packets, and it stays within its file.          *)
LEMMA SendBlockTypes ==
  ASSUME ClientTypeOK, NEW c \in Clients, name[c] \in Names, SendBlock(c)
  PROVE  /\ \E data \in Seq(Block) : Send(c, Packet("DATA_DELIVERY", data))
         /\ pos' \in [Clients -> Nat]
<1>1. pos \in [Clients -> Nat]
  BY DEF ClientTypeOK
<1>2. CASE NoMore(c)
  BY <1>1, <1>2, EmptySeq DEF SendBlock
<1>3. CASE ~NoMore(c)
  BY <1>1, <1>3, NextBlockType DEF SendBlock
<1>4. QED BY <1>2, <1>3

(* The steps of the client keep the types.                                 *)
LEMMA ClientStepTypes ==
  ASSUME ClientTypeOK, told \in [Clients -> {"nothing", "stored", "failed"}],
         NEW c \in Clients, name[c] \in Names, Connect(c) \/ ClientLoop(c)
  PROVE  /\ ClientTypeOK' /\ told' \in [Clients -> {"nothing", "stored", "failed"}]
         /\ UNCHANGED <<name, disk, torn, closed>>
<1>1. UNCHANGED <<name, disk, torn, closed>>
  BY DEF Connect, ClientLoop, ServerHello, PktReceived, ReplyFails, Told, transferVars
<1>2. SUFFICES ClientSide'
  BY <1>1 DEF ClientTypeOK, ClientSide, NetTypes, PacketType, AnswerType
<1>3. ClientSide
  BY DEF ClientTypeOK, ClientSide, NetTypes, PacketType, AnswerType
<1> USE DEF ClientSide, NetTypes
<1>4. CASE Connect(c)
  <2>1. Append(backlog, c) \in Seq(Clients)
    BY <1>3
  <2>2. <<Packet("CLIENT_HELLO", <<>>)>> \in Seq(PacketType)
    BY PacketTypes DEF Commands
  <2>3. QED BY <1>3, <1>4, <2>1, <2>2 DEF Connect, transferVars
<1>5. ASSUME NEW cmd, Reply(c, cmd), NEW p \in PacketType, Send(c, p), pos' \in [Clients -> Nat],
             UNCHANGED <<backlog, told>>
      PROVE  ClientSide'
  BY <1>3, <1>5, ReplyTypes, SendTypes
<1>6. CASE ServerHello(c)
  <2>1. Reply(c, "SERVER_HELLO") /\ UNCHANGED <<backlog, told>>
    BY <1>6 DEF ServerHello, transferVars
  <2>2. CASE SendBlock(c)
    BY <1>5, <2>1, <2>2, SendBlockTypes, PacketTypes
  <2>3. CASE FileError(c)
    <3>1. Send(c, Packet("ERROR", <<>>)) /\ pos' = pos
      BY <2>3 DEF FileError
    <3>2. Packet("ERROR", <<>>) \in PacketType
      BY PacketTypes DEF Commands
    <3>3. QED BY <1>3, <1>5, <2>1, <3>1, <3>2
  <2>4. QED BY <1>6, <2>2, <2>3 DEF ServerHello
<1>7. CASE PktReceived(c)
  <2>1. Reply(c, "PKT_RECEIVED") /\ UNCHANGED <<backlog, told>>
    BY <1>7 DEF PktReceived, transferVars
  <2>2. CASE SendBlock(c)
    BY <1>5, <2>1, <2>2, SendBlockTypes, PacketTypes
  <2>3. CASE FileError(c)
    <3>1. Send(c, Packet("ERROR", <<>>)) /\ pos' = pos
      BY <2>3 DEF FileError
    <3>2. Packet("ERROR", <<>>) \in PacketType
      BY PacketTypes DEF Commands
    <3>3. QED BY <1>3, <1>5, <2>1, <3>1, <3>2
  <2>4. CASE Send(c, Packet("DATA_STORE", <<[of |-> name[c], no |-> 0]>>)) /\ pos' = pos
    BY <1>3, <1>5, <2>1, <2>4, PacketTypes
  <2>5. QED BY <1>7, <2>2, <2>3, <2>4 DEF PktReceived
<1>8. CASE ReplyFails(c)
  BY <1>3, <1>8 DEF ReplyFails, netVars, transferVars
<1>9. ASSUME NEW cmd, NEW what \in {"stored", "failed"}, Told(c, cmd, what)
      PROVE  ClientSide'
  <2>1. Reply(c, cmd)
    BY <1>9 DEF Told
  <2>2. QED BY <1>3, <1>9, <2>1, ReplyTypes DEF Told
<1>10. QED BY <1>4, <1>6, <1>7, <1>8, <1>9 DEF ClientLoop

(* Streams of one packet, and of the rest of one and another.              *)
LEMMA ShortStreams ==
  /\ \A p : /\ <<p>> # <<>> /\ Head(<<p>>) = p /\ Tail(<<p>>) = <<>> /\ Len(<<p>>) = 1
            /\ DOMAIN <<p>> = {1} /\ <<p>>[1] = p
  /\ \A p, q : /\ <<p, q>> # <<>> /\ Head(<<p, q>>) = p /\ Tail(<<p, q>>) = <<q>>
               /\ Len(<<p, q>>) = 2 /\ DOMAIN <<p, q>> = {1, 2}
               /\ <<p, q>>[1] = p /\ <<p, q>>[2] = q
  /\ DOMAIN <<>> = {} /\ Len(<<>>) = 0
  /\ \A p : <<p>> \o <<>> = <<p>> /\ <<>> \o <<p>> = <<p>>
  /\ \A p : Append(<<>>, p) = <<p>>
  /\ \A p, q : Append(<<p>>, q) = <<p, q>>
<1>1. \A p : /\ <<p>> # <<>> /\ Head(<<p>>) = p /\ Tail(<<p>>) = <<>> /\ Len(<<p>>) = 1
            /\ DOMAIN <<p>> = {1} /\ <<p>>[1] = p
  OBVIOUS
<1>2. \A p, q : /\ <<p, q>> # <<>> /\ Head(<<p, q>>) = p /\ Tail(<<p, q>>) = <<q>>
               /\ Len(<<p, q>>) = 2 /\ DOMAIN <<p, q>> = {1, 2}
               /\ <<p, q>>[1] = p /\ <<p, q>>[2] = q
  OBVIOUS
<1>3. DOMAIN <<>> = {} /\ Len(<<>>) = 0
  OBVIOUS
<1>4. ASSUME NEW p
      PROVE  <<p>> \o <<>> = <<p>> /\ <<>> \o <<p>> = <<p>>
  <2>1. <<p>> \in Seq({p})
    OBVIOUS
  <2>2. QED BY <2>1, ConcatEmptySeq
<1>5. \A p : Append(<<>>, p) = <<p>>
  OBVIOUS
<1>6. ASSUME NEW p, NEW q
      PROVE  Append(<<p>>, q) = <<p, q>>
  <2>1. <<p>> \in Seq({p, q}) /\ <<p, q>> \in Seq({p, q})
    OBVIOUS
  <2>2. /\ Append(<<p>>, q) \in Seq({p, q}) /\ Len(Append(<<p>>, q)) = 2
        /\ Append(<<p>>, q)[1] = p /\ Append(<<p>>, q)[2] = q
    BY <2>1
  <2>3. Len(<<p, q>>) = 2 /\ <<p, q>>[1] = p /\ <<p, q>>[2] = q
    OBVIOUS
  <2>4. \A i \in 1 .. 2 : Append(<<p>>, q)[i] = <<p, q>>[i]
    BY <2>2, <2>3
  <2>5. QED BY <2>1, <2>2, <2>3, <2>4, SeqEqual
<1>7. QED BY <1>1, <1>2, <1>3, <1>4, <1>5, <1>6

-----------------------------------------------------------------------------
(* What a client sends                                                     *)

(* The request goes on with the file where the last one stopped.           *)
GoesOn(c, p) ==
  /\ pos'[c] \in Nat /\ pos[c] <= pos'[c] /\ pos'[c] <= Size[name[c]]
  /\ p.cmd = "DATA_DELIVERY" =>
       SubSeq(File(name[c]), 1, pos[c]) \o p.data = SubSeq(File(name[c]), 1, pos'[c])
  /\ p.cmd # "DATA_DELIVERY" => pos'[c] = pos[c]
  /\ p.cmd = "DATA_STORE" => NoMore(c)
  /\ p.cmd # "CLIENT_HELLO"

(* A block of the file, or an empty packet at its end, goes on.            *)
LEMMA SendBlockGoesOn ==
  ASSUME ClientTypeOK, NEW c \in Clients, name[c] \in Names, pos[c] <= Size[name[c]], SendBlock(c)
  PROVE  \E p \in PacketType : IsRequest(c, p) /\ Send(c, p) /\ GoesOn(c, p)
<1>1. /\ pos[c] \in Nat /\ Size[name[c]] \in Nat /\ name[c] \in Names /\ pos[c] <= Size[name[c]]
      /\ pos \in [Clients -> Nat]
  BY TransferAssumption DEF ClientTypeOK
<1>2. CASE NoMore(c)
  <2> DEFINE p == Packet("DATA_DELIVERY", <<>>)
  <2>1. Send(c, p) /\ pos'[c] = pos[c]
    BY <1>1, <1>2 DEF SendBlock
  <2>2. p \in PacketType /\ p.cmd = "DATA_DELIVERY" /\ p.data = <<>>
    BY PacketTypes DEF Commands, Packet
  <2>3. SubSeq(File(name[c]), 1, pos[c]) \o <<>> = SubSeq(File(name[c]), 1, pos[c])
    BY <1>1, PrefixType, ConcatEmptySeq
  <2> HIDE DEF p
  <2>4. p.cmd \notin {"DATA_STORE", "CLIENT_HELLO"} /\ IsRequest(c, p)
    BY <2>2 DEF IsRequest
  <2>5. GoesOn(c, p)
    BY <1>1, <2>1, <2>2, <2>3, <2>4 DEF GoesOn
  <2>6. QED BY <2>1, <2>2, <2>4, <2>5
<1>3. CASE ~NoMore(c)
  <2> DEFINE p == Packet("DATA_DELIVERY", NextBlock(c))
  <2>1. Send(c, p) /\ pos'[c] = pos[c] + 1
    BY <1>1, <1>3 DEF SendBlock
  <2>2. NextBlock(c) \in Seq(Block) /\ pos[c] + 1 <= Size[name[c]]
    BY <1>1, <1>3, NextBlockType
  <2>3. p \in PacketType /\ p.cmd = "DATA_DELIVERY" /\ p.data = NextBlock(c)
    BY <2>2, PacketTypes DEF Commands, Packet
  <2>4. SubSeq(File(name[c]), 1, pos[c]) \o NextBlock(c) = SubSeq(File(name[c]), 1, pos[c] + 1)
    BY <1>1, <2>2, PrefixGrows DEF NextBlock
  <2> HIDE DEF p
  <2>5. pos'[c] \in Nat /\ pos[c] <= pos'[c] /\ pos'[c] <= Size[name[c]]
    BY <1>1, <2>1, <2>2
  <2>6. SubSeq(File(name[c]), 1, pos[c]) \o p.data = SubSeq(File(name[c]), 1, pos'[c])
    BY <2>1, <2>3, <2>4
  <2>7. IsRequest(c, p)
    BY <2>3 DEF IsRequest
  <2>8. p.cmd \notin {"DATA_STORE", "CLIENT_HELLO"}
    BY <2>3
  <2>9. GoesOn(c, p)
    BY <2>3, <2>5, <2>6, <2>8 DEF GoesOn
  <2>10. QED BY <2>1, <2>3, <2>7, <2>9
<1>4. QED BY <1>2, <1>3

(* So do the ERROR and the name of the file.                               *)
LEMMA SendOtherGoesOn ==
  ASSUME ClientTypeOK, NEW c \in Clients, pos[c] <= Size[name[c]], pos' = pos,
         NEW p, \/ p = Packet("ERROR", <<>>)
                \/ p = Packet("DATA_STORE", <<[of |-> name[c], no |-> 0]>>) /\ NoMore(c)
  PROVE  IsRequest(c, p) /\ GoesOn(c, p)
<1>1. pos[c] \in Nat /\ pos[c] <= Size[name[c]]
  BY DEF ClientTypeOK
<1>2. p.cmd \in {"ERROR", "DATA_STORE"} /\ (p.cmd = "DATA_STORE" => NoMore(c))
  BY DEF Packet
<1>3. IsRequest(c, p)
  BY DEF IsRequest, Packet
<1>4. QED BY <1>1, <1>2, <1>3 DEF GoesOn

-----------------------------------------------------------------------------
(* What a client may count on                                              *)

(* A whole file is stored once it has been written.                        *)
LEMMA WrittenIsStored ==
  ASSUME ServiceTypeOK, FilesWhole, NEW c \in Clients, name[c] \in Names, name' = name,
         disk'[name[c]] = Overwritten(disk[name[c]], File(name[c]))
  PROVE  StoredFor(c)'
<1>1. PICK n \in Names : n = name[c]
  OBVIOUS
<1>2. disk \in [Names -> Seq(Block)] /\ Old[n] \in Seq(Block)
  BY TransferAssumption DEF ServiceTypeOK
<1>3. disk'[n] = Overwritten(disk[n], File(n))
  BY <1>1
<1>4. CASE disk[n] = Old[n]
  BY <1>1, <1>3, <1>4 DEF StoredFor, Stored
<1>5. ASSUME NEW k \in 0 .. Size[n], disk[n] = Overwritten(Old[n], Part(n, k))
      PROVE  StoredFor(c)'
  <2>1. Size[n] \in 0 .. Size[n] /\ Longer(k, Size[n]) = Size[n]
    BY DEF Longer
  <2>2. disk'[n] = Overwritten(Old[n], Part(n, Size[n]))
    BY <1>2, <1>3, <1>5, <2>1, PartEnds, OverwrittenTwice
  <2>3. QED BY <1>1, <2>2, PartEnds DEF StoredFor, Stored
<1>6. CASE \E e \in Cut : name[e] = n
  BY <1>1, <1>6 DEF StoredFor
<1>7. QED BY <1>4, <1>5, <1>6 DEF FilesWhole
=============================================================================
