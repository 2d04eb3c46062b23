------------------------- MODULE PeerDownloadProofs -------------------------
(***************************************************************************)
(* Proofs about PeerDownload, for any children, files, sizes of packets    *)
(* and buffers, whoever is killed and whatever fails: what is on its way   *)
(* to a child are consecutive pieces of the file that it has asked for.    *)
(***************************************************************************)
EXTENDS PeerDownload, FiniteSetTheorems, SequenceTheorems, TLAPS

-----------------------------------------------------------------------------
(* Types                                                                   *)

(* What may be in a buffer or on the disk.                                 *)
Contents == Seq(Units \cup {Garbage, "absent", "unreadable"})
Packets  == [type : {"FILE_RES_SUCCESS", "FILE_RES_FAIL", "uninitialised", "rest"}, data : Contents]
Sources  == {NoSource} \cup [peer : Children, name : Names, len : Nat]

(* The types of the process that gets files, ...                           *)
MainTypes ==
  /\ dpc \in [Children -> {"register", "registered", "prompt", "connect", "receive", "store", "corrupt", "dead"}]
  /\ gets \in [Children -> Nat] /\ \A c \in Children : gets[c] <= Gets[c]
  /\ want \in [Children -> Names \cup {None}]
  /\ peer \in [Children -> Children \cup {None}]
  /\ size \in [Children -> Nat]
  /\ stored \in [Children -> Contents]
  /\ last \in [Children -> Packets]
  /\ dest \in [Children -> Dests \cup {None}] /\ cut \subseteq Conns
  /\ download \in [Children -> [Dests -> Contents]]
  /\ from \in [Children -> [Dests -> Sources]]
  /\ \A c \in Children : dpc[c] \in {"receive", "store"} => Len(stored[c]) <= size[c]

(* ... of the thread that serves them, ...                                 *)
ServerTypes ==
  /\ lpc \in [Children -> {"down", "starting", "select", "send", "corrupt", "dead"}]
  /\ serving \in [Children -> Conns \cup {NoConn}]
  /\ rest \in [Children -> Contents]
  /\ data \in [Children -> [Names -> Files]]
  /\ changed \subseteq Children \X Names

(* ... and of the connections.                                             *)
NetTypes ==
  /\ backlog \in [Children -> Seq(Conns)]
  /\ place \in [Conns -> {"none", "backlog", "slot", "forgotten", "closed"}]
  /\ at \in [Conns -> Children \cup {None}]
  /\ request \in [Conns -> Names \cup {None}]
  /\ inbox \in [Conns -> Seq(Packets)]
  /\ \A k \in Conns : Len(inbox[k]) <= SockBuf
  /\ reset \subseteq Conns

Types == MainTypes /\ ServerTypes /\ NetTypes

(* A connection is the i-th of a child.                                    *)
LEMMA ConnIs ==
  /\ \A c \in Children, i \in Nat : i # 0 /\ i <= Gets[c] => <<c, i>> \in Conns
  /\ \A k \in Conns : k[1] \in Children /\ k[2] \in 1 .. Gets[k[1]] /\ k = <<k[1], k[2]>>
  /\ NoConn \notin Conns
<1>1. Gets \in [Children -> Nat]
  BY DownloadAssumption
<1>2. \A c \in Children, i \in Nat : i # 0 /\ i <= Gets[c] => <<c, i>> \in Conns
  <2>1. SUFFICES ASSUME NEW c \in Children, NEW i \in Nat, i # 0, i <= Gets[c]
                 PROVE  <<c, i>> \in Conns
    OBVIOUS
  <2>2. i \in 1 .. Gets[c]
    BY <1>1, <2>1
  <2>3. <<c, i>> \in {c} \X (1 .. Gets[c])
    BY <2>2
  <2>4. QED BY <2>3 DEF Conns
<1>3. \A k \in Conns : k[1] \in Children /\ k[2] \in 1 .. Gets[k[1]] /\ k = <<k[1], k[2]>>
  BY DEF Conns
<1>4. NoConn \notin Conns
  <2>1. NoConn[2] = 0 /\ \A j : 0 \notin 1 .. j
    BY DEF NoConn
  <2>2. QED BY <1>3, <2>1
<1>5. QED BY <1>2, <1>3, <1>4

(* The current connection, once a command was entered.                     *)
LEMMA CurrentConn ==
  ASSUME Types, NEW c \in Children, gets[c] # 0
  PROVE  Conn(c) \in Conns
BY ConnIs DEF Types, MainTypes, Conn

(* Files are contents; a piece of a file is not one of the marks.          *)
LEMMA FileContents ==
  /\ Seq(Units) \subseteq Contents /\ Files \subseteq Contents /\ <<>> \in Contents
  /\ \A f \in Seq(Units) : f # Absent /\ f # Unreadable
  /\ Unreadable # <<>> /\ Absent # <<>> /\ Unreadable # Absent
<1>1. Seq(Units) \subseteq Contents
  BY SeqMonotonic DEF Contents
<1>2. Absent \in Contents /\ Unreadable \in Contents /\ <<>> \in Contents
  BY DEF Absent, Unreadable, Contents
<1>3. ASSUME NEW f \in Seq(Units) PROVE f # Absent /\ f # Unreadable
  <2>1. \A i \in 1 .. Len(f) : f[i] \in Units
    BY ElementOfSeq
  <2>2. Len(Absent) = 1 /\ Absent[1] = "absent" /\ Len(Unreadable) = 1 /\ Unreadable[1] = "unreadable"
    BY DEF Absent, Unreadable
  <2>3. "absent" \notin Units /\ "unreadable" \notin Units
    BY DownloadAssumption
  <2>4. f = Absent \/ f = Unreadable => 1 \in 1 .. Len(f) /\ f[1] \notin Units
    BY <2>2, <2>3
  <2>5. QED BY <2>1, <2>4
<1>4. Unreadable # <<>> /\ Absent # <<>> /\ Unreadable # Absent
  BY DEF Absent, Unreadable
<1>5. QED BY <1>1, <1>2, <1>3, <1>4 DEF Files

(* Pieces of sequences.                                                    *)
LEMMA Pieces ==
  ASSUME NEW S, NEW f \in Seq(S), NEW i \in 1 .. Len(f) + 1, NEW j \in 0 .. Len(f), i <= j + 1
  PROVE  /\ SubSeq(f, i, j) \in Seq(S) /\ Len(SubSeq(f, i, j)) = j - i + 1
         /\ \A m \in 1 .. j - i + 1 : SubSeq(f, i, j)[m] = f[i + m - 1]
<1>1. Len(f) \in Nat /\ \A m \in 1 .. Len(f) : f[m] \in S
  BY LenProperties, ElementOfSeq
<1>2. \A m \in i .. j : f[m] \in S
  BY <1>1
<1>3. i \in Int /\ j \in Int
  BY <1>1
<1>4. SubSeq(f, i, j) \in Seq(S) /\ Len(SubSeq(f, i, j)) = IF i <= j THEN j - i + 1 ELSE 0
  BY <1>2, <1>3, SubSeqProperties
<1>5. \A m \in 1 .. j - i + 1 : SubSeq(f, i, j)[m] = f[i + m - 1]
  BY <1>2, <1>3, SubSeqProperties
<1>6. QED BY <1>3, <1>4, <1>5

(* What is left of a file, and what is read of it next.                    *)
LEMMA Chunks ==
  ASSUME NEW S, NEW r \in Seq(S)
  PROVE  /\ Chunk(r) \in Seq(S) /\ AfterChunk(r) \in Seq(S)
         /\ Len(Chunk(r)) = IF Len(r) < PACKET THEN Len(r) ELSE PACKET
<1>1. Len(r) \in Nat /\ PACKET \in Nat \ {0}
  BY LenProperties, DownloadAssumption
<1>2. Chunk(r) \in Seq(S) /\ Len(Chunk(r)) = IF Len(r) < PACKET THEN Len(r) ELSE PACKET
  <2> DEFINE j == IF Len(r) < PACKET THEN Len(r) ELSE PACKET
  <2>1. j \in 0 .. Len(r) /\ 1 \in 1 .. Len(r) + 1 /\ 1 <= j + 1 /\ j - 1 + 1 = j
    BY <1>1
  <2> HIDE DEF j
  <2>2. SubSeq(r, 1, j) \in Seq(S) /\ Len(SubSeq(r, 1, j)) = j
    BY <2>1, Pieces
  <2>3. QED BY <2>2 DEF Chunk, j
<1>3. AfterChunk(r) \in Seq(S)
  <2>1. Len(Chunk(r)) + 1 \in 1 .. Len(r) + 1 /\ Len(r) \in 0 .. Len(r) /\ Len(Chunk(r)) + 1 <= Len(r) + 1
    BY <1>1, <1>2
  <2> DEFINE i == Len(Chunk(r)) + 1
  <2> HIDE DEF i
  <2>2. SubSeq(r, i, Len(r)) \in Seq(S)
    BY <2>1, Pieces DEF i
  <2>3. QED BY <2>2 DEF AfterChunk, i
<1>4. QED BY <1>2, <1>3

(* What is written to the disk goes over what was there.                   *)
LEMMA AfterContents ==
  ASSUME NEW old \in Contents, NEW new \in Contents
  PROVE  After(old, new) \in Contents /\ SubSeq(After(old, new), 1, Len(new)) = new
<1> DEFINE S == Units \cup {Garbage, "absent", "unreadable"}
           t == SubSeq(old, Len(new) + 1, Len(old))
<1>1. old \in Seq(S) /\ new \in Seq(S) /\ Len(old) \in Nat /\ Len(new) \in Nat
  BY LenProperties DEF Contents
<1> HIDE DEF S
<1>2. Len(new) + 1 > Len(old) => t = <<>>
  BY <1>1, SubSeqEmpty
<1>3. Len(new) + 1 <= Len(old) => t \in Seq(S)
  <2>1. SUFFICES ASSUME Len(new) + 1 <= Len(old) PROVE t \in Seq(S)
    OBVIOUS
  <2>2. Len(new) + 1 \in 1 .. Len(old) + 1 /\ Len(old) \in 0 .. Len(old) /\ Len(new) + 1 <= Len(old) + 1
    BY <1>1, <2>1
  <2>3. QED BY <1>1, <2>2, Pieces
<1>4. t \in Seq(S)
  BY <1>1, <1>2, <1>3
<1> HIDE DEF t
<1>5. new \o t \in Seq(S) /\ Len(new \o t) = Len(new) + Len(t) /\ Len(t) \in Nat
      /\ \A i \in 1 .. Len(new) : (new \o t)[i] = new[i]
  BY <1>1, <1>4, ConcatProperties, LenProperties
<1>6. SubSeq(new \o t, 1, Len(new)) = new
  <2> DEFINE b == SubSeq(new \o t, 1, Len(new))
  <2>1. /\ 1 \in 1 .. Len(new \o t) + 1 /\ Len(new) \in 0 .. Len(new \o t) /\ 1 <= Len(new) + 1
        /\ Len(new) - 1 + 1 = Len(new) /\ \A i \in Int : 1 + i - 1 = i
    BY <1>1, <1>5
  <2>2. b \in Seq(S) /\ Len(b) = Len(new) /\ \A i \in 1 .. Len(new) : b[i] = (new \o t)[i]
    BY <1>5, <2>1, Pieces
  <2> HIDE DEF b
  <2>3. \A i \in 1 .. Len(new) : b[i] = new[i]
    BY <1>5, <2>2
  <2>4. b = new
    BY <1>1, <2>2, <2>3, SeqEqual
  <2>5. QED BY <2>4 DEF b
<1>7. SubSeq(new, 1, Len(new)) = new
  BY <1>1, SubSeqFull
<1>8. After(old, new) = IF old = Absent THEN new ELSE new \o t
  BY DEF After, t
<1>9. QED BY <1>1, <1>5, <1>6, <1>7, <1>8 DEF Contents, S

(* What read() leaves where nothing has come.                              *)
LEMMA NoiseContents ==
  /\ \A n \in Nat : Noise(n) \in Contents /\ Len(Noise(n)) = n
  /\ \A n \in Int : n \notin Nat => Noise(n) = <<>>
<1> DEFINE S == Units \cup {Garbage, "absent", "unreadable"}
<1>1. ASSUME NEW n \in Nat PROVE Noise(n) \in Seq(S) /\ Len(Noise(n)) = n
  <2>1. Noise(n) \in [1 .. n -> S]
    BY DEF Noise
  <2>2. QED BY <2>1, IsASeq, LenProperties
<1>2. ASSUME NEW n \in Int, n \notin Nat PROVE Noise(n) = <<>>
  <2>1. 1 .. n = {}
    BY <1>2
  <2>2. QED BY <2>1 DEF Noise
<1>3. QED BY <1>1, <1>2 DEF Contents

(* fileBuffer as it is stored, and a beginning of it.                      *)
LEMMA FilledContents ==
  ASSUME Types, NEW c \in Children
  PROVE  /\ Filled(c) \in Contents
         /\ size[c] = Len(stored[c]) => Filled(c) = stored[c]
         /\ dpc[c] = "store" => Len(Filled(c)) = size[c]
<1> DEFINE S == Units \cup {Garbage, "absent", "unreadable"}
<1>1. /\ stored[c] \in Seq(S) /\ Len(stored[c]) \in Nat /\ size[c] \in Nat
      /\ dpc[c] = "store" => Len(stored[c]) <= size[c]
  BY LenProperties DEF Types, MainTypes, Contents
<1>2. PICK n \in Int : n = size[c] - Len(stored[c])
  BY <1>1
<1>3. Noise(n) \in Seq(S) /\ (n \in Nat => Len(Noise(n)) = n)
  <2>1. <<>> \in Seq(S)
    OBVIOUS
  <2>2. QED BY <2>1, NoiseContents DEF Contents
<1>4. n = 0 => Noise(n) = <<>>
  BY <1>3, EmptySeq
<1> HIDE DEF S
<1>5. /\ stored[c] \o Noise(n) \in Seq(S) /\ (Noise(n) = <<>> => stored[c] \o Noise(n) = stored[c])
      /\ Len(stored[c] \o Noise(n)) = Len(stored[c]) + Len(Noise(n))
  BY <1>1, <1>3, ConcatProperties, ConcatEmptySeq
<1>6. dpc[c] = "store" => n \in Nat /\ Len(stored[c]) + n = size[c]
  BY <1>1, <1>2
<1>7. size[c] = Len(stored[c]) => n = 0
  BY <1>1, <1>2
<1>8. QED BY <1>2, <1>3, <1>4, <1>5, <1>6, <1>7 DEF Filled, S, Contents

-----------------------------------------------------------------------------
(* What is on its way                                                      *)

(* The piece of f after the first i units and up to the j-th.              *)
Piece(f, i, j) == SubSeq(f, i + 1, j)

(* s are the first units of f, the packets q carry those that follow, and  *)
(* they are m units in all.                                                *)
Chain(f, s, q, m) ==
  \E off \in [0 .. Len(q) -> 0 .. Len(f)] :
     /\ s = Piece(f, 0, off[0]) /\ off[Len(q)] = m
     /\ \A i \in 1 .. Len(q) :
           off[i - 1] <= off[i] /\ q[i] = Success(Piece(f, off[i - 1], off[i]))

(* A piece has the length one expects, and the whole is a piece.           *)
LEMMA PieceIs ==
  ASSUME NEW S, NEW f \in Seq(S), NEW i \in 0 .. Len(f), NEW j \in 0 .. Len(f), i <= j
  PROVE  /\ Piece(f, i, j) \in Seq(S) /\ Len(Piece(f, i, j)) = j - i
         /\ \A m \in 1 .. j - i : Piece(f, i, j)[m] = f[i + m]
         /\ Piece(f, 0, 0) = <<>> /\ Piece(f, 0, Len(f)) = f
<1>1. Len(f) \in Nat
  BY LenProperties
<1> DEFINE a == i + 1
<1>2. a \in 1 .. Len(f) + 1 /\ a <= j + 1 /\ j - a + 1 = j - i /\ \A m \in Int : a + m - 1 = i + m
  BY <1>1
<1>3. SubSeq(f, a, j) \in Seq(S) /\ Len(SubSeq(f, a, j)) = j - a + 1
  <2> HIDE DEF a
  <2>1. QED BY <1>2, Pieces
<1>4. \A m \in 1 .. j - a + 1 : SubSeq(f, a, j)[m] = f[a + m - 1]
  <2> HIDE DEF a
  <2>1. QED BY <1>2, Pieces
<1>5. Piece(f, 0, 0) = <<>>
  BY SubSeqEmpty DEF Piece
<1>6. Piece(f, 0, Len(f)) = f
  <2>1. 0 + 1 = 1
    OBVIOUS
  <2>2. QED BY <2>1, SubSeqFull DEF Piece
<1>7. \A m \in 1 .. j - i : Piece(f, i, j)[m] = f[i + m]
  BY <1>2, <1>4 DEF Piece
<1>8. QED BY <1>2, <1>3, <1>5, <1>6, <1>7 DEF Piece

(* The next chunk of what is left of a file is a piece, as is the rest.    *)
LEMMA NextPiece ==
  ASSUME NEW S, NEW f \in Seq(S), NEW m \in 0 .. Len(f)
  PROVE  \E n \in 0 .. Len(f) :
            /\ m <= n
            /\ Chunk(Piece(f, m, Len(f))) = Piece(f, m, n)
            /\ AfterChunk(Piece(f, m, Len(f))) = Piece(f, n, Len(f))
<1> DEFINE r == Piece(f, m, Len(f))
           d == IF Len(r) < PACKET THEN Len(r) ELSE PACKET
           n == m + d
<1>1. Len(f) \in Nat /\ Len(f) \in 0 .. Len(f) /\ m <= Len(f) /\ PACKET \in Nat \ {0}
  BY LenProperties, DownloadAssumption
<1>2. \A i, e \in 0 .. Len(f) : i <= e => Piece(f, i, e) \in Seq(S) /\ Len(Piece(f, i, e)) = e - i
  BY PieceIs
<1>3. \A i, e \in 0 .. Len(f) : i <= e => \A x \in 1 .. e - i : Piece(f, i, e)[x] = f[i + x]
  BY PieceIs
<1>4. r \in Seq(S) /\ Len(r) = Len(f) - m /\ \A i \in 1 .. Len(f) - m : r[i] = f[m + i]
  <2>1. Piece(f, m, Len(f)) \in Seq(S) /\ Len(Piece(f, m, Len(f))) = Len(f) - m
    BY <1>1, <1>2, <1>3
  <2>2. \A i \in 1 .. Len(f) - m : Piece(f, m, Len(f))[i] = f[m + i]
    BY <1>1, <1>2, <1>3
  <2>3. QED BY <2>1, <2>2
<1> HIDE DEF r
<1>5. Len(r) \in Nat /\ d \in 0 .. Len(r) /\ n \in 0 .. Len(f) /\ m <= n /\ n - m = d /\ Len(f) - n = Len(r) - d
  BY <1>1, <1>4
<1>6. Len(Chunk(r)) = d
  BY <1>4, Chunks
<1> HIDE DEF d
<1>7. SubSeq(r, 1, d) = Piece(f, m, n)
  <2>1. 1 \in 1 .. Len(r) + 1 /\ 1 <= d + 1 /\ d - 1 + 1 = d /\ \A i \in Int : 1 + i - 1 = i
    BY <1>5
  <2>2. SubSeq(r, 1, d) \in Seq(S) /\ Len(SubSeq(r, 1, d)) = d /\ \A i \in 1 .. d : SubSeq(r, 1, d)[i] = r[i]
    BY <1>4, <1>5, <2>1, Pieces
  <2>3. Piece(f, m, n) \in Seq(S) /\ Len(Piece(f, m, n)) = d /\ \A i \in 1 .. d : Piece(f, m, n)[i] = f[m + i]
    <3> HIDE DEF n
    <3>1. Piece(f, m, n) \in Seq(S) /\ Len(Piece(f, m, n)) = n - m
      BY <1>5, <1>2, <1>3
    <3>2. \A i \in 1 .. n - m : Piece(f, m, n)[i] = f[m + i]
      BY <1>5, <1>2, <1>3
    <3>3. QED BY <1>5, <3>1, <3>2
  <2>4. \A i \in 1 .. d : i \in 1 .. Len(f) - m
    BY <1>1, <1>4, <1>5
  <2>5. \A i \in 1 .. d : SubSeq(r, 1, d)[i] = Piece(f, m, n)[i]
    BY <1>4, <2>2, <2>3, <2>4
  <2>6. QED BY <2>2, <2>3, <2>5, SeqEqual
<1>8. SubSeq(r, d + 1, Len(r)) = Piece(f, n, Len(f))
  <2> DEFINE a == d + 1
  <2>1. a \in 1 .. Len(r) + 1 /\ a <= Len(r) + 1 /\ Len(r) \in 0 .. Len(r) /\ Len(r) - a + 1 = Len(r) - d
    BY <1>5
  <2>2. \A i \in Int : a + i - 1 = d + i
    BY <1>5
  <2> HIDE DEF a
  <2>3. SubSeq(r, a, Len(r)) \in Seq(S) /\ Len(SubSeq(r, a, Len(r))) = Len(r) - d
    BY <1>4, <2>1, Pieces
  <2>4. \A i \in 1 .. Len(r) - d : SubSeq(r, a, Len(r))[i] = r[d + i]
    <3>1. \A i \in 1 .. Len(r) - a + 1 : SubSeq(r, a, Len(r))[i] = r[a + i - 1]
      BY <1>4, <2>1, Pieces
    <3>2. QED BY <1>5, <2>1, <2>2, <3>1
  <2>5. /\ Piece(f, n, Len(f)) \in Seq(S) /\ Len(Piece(f, n, Len(f))) = Len(r) - d
        /\ \A i \in 1 .. Len(r) - d : Piece(f, n, Len(f))[i] = f[n + i]
    <3> HIDE DEF n
    <3>0. n \in 0 .. Len(f) /\ Len(f) \in 0 .. Len(f) /\ n <= Len(f)
      BY <1>1, <1>5
    <3>1. Piece(f, n, Len(f)) \in Seq(S) /\ Len(Piece(f, n, Len(f))) = Len(f) - n
      BY <3>0, <1>2
    <3>2. \A i \in 1 .. Len(f) - n : Piece(f, n, Len(f))[i] = f[n + i]
      BY <3>0, <1>3
    <3>3. QED BY <1>5, <3>1, <3>2
  <2>6. ASSUME NEW i \in 1 .. Len(r) - d PROVE r[d + i] = f[n + i]
    <3>1. d + i \in 1 .. Len(f) - m /\ m + (d + i) = n + i
      BY <1>4, <1>5
    <3>2. QED BY <1>4, <3>1
  <2>7. \A i \in 1 .. Len(r) - d : SubSeq(r, a, Len(r))[i] = Piece(f, n, Len(f))[i]
    BY <2>4, <2>5, <2>6
  <2>8. SubSeq(r, a, Len(r)) = Piece(f, n, Len(f))
    BY <2>3, <2>5, <2>7, SeqEqual
  <2>9. QED BY <2>8 DEF a
<1>9. Chunk(r) = SubSeq(r, 1, d) /\ AfterChunk(r) = SubSeq(r, d + 1, Len(r))
  BY <1>6 DEF Chunk, AfterChunk, d
<1>10. QED BY <1>5, <1>7, <1>8, <1>9 DEF r

(* Nothing was sent.                                                       *)
LEMMA ChainEmpty ==
  ASSUME NEW S, NEW f \in Seq(S)
  PROVE  Chain(f, <<>>, <<>>, 0)
<1> DEFINE off == [i \in 0 .. 0 |-> 0]
<1>1. Len(f) \in Nat /\ Len(<<>>) = 0 /\ 0 \in 0 .. Len(f)
  BY LenProperties
<1>2. off \in [0 .. Len(<<>>) -> 0 .. Len(f)] /\ off[0] = 0 /\ off[Len(<<>>)] = 0
  BY <1>1
<1>3. Piece(f, 0, 0) = <<>>
  BY <1>1, PieceIs
<1> HIDE DEF off
<1>4. QED BY <1>1, <1>2, <1>3 DEF Chain

(* The next packet is sent.                                                *)
LEMMA ChainAppend ==
  ASSUME NEW S, NEW f \in Seq(S), NEW s, NEW T, NEW q \in Seq(T),
         NEW m \in 0 .. Len(f), NEW n \in 0 .. Len(f), m <= n,
         Chain(f, s, q, m), Success(Piece(f, m, n)) \in T
  PROVE  Chain(f, s, Append(q, Success(Piece(f, m, n))), n)
<1> DEFINE pkt == Success(Piece(f, m, n))
           r == Append(q, pkt)
           l == Len(q)
<1>1. PICK off \in [0 .. l -> 0 .. Len(f)] :
         /\ s = Piece(f, 0, off[0]) /\ off[l] = m
         /\ \A i \in 1 .. l : off[i - 1] <= off[i] /\ q[i] = Success(Piece(f, off[i - 1], off[i]))
  BY DEF Chain
<1>2. l \in Nat /\ Len(r) = l + 1 /\ (\A i \in 1 .. l : r[i] = q[i]) /\ r[l + 1] = pkt
  BY AppendProperties, LenProperties
<1> HIDE DEF r, l
<1> DEFINE new == [i \in 0 .. l + 1 |-> IF i = l + 1 THEN n ELSE off[i]]
<1>3. new \in [0 .. l + 1 -> 0 .. Len(f)]
  BY <1>2
<1>4. new[0] = off[0] /\ new[l + 1] = n /\ new[l] = m /\ \A i \in 0 .. l : new[i] = off[i]
  BY <1>1, <1>2
<1> HIDE DEF new
<1>5. ASSUME NEW i \in 1 .. l + 1
      PROVE  new[i - 1] <= new[i] /\ r[i] = Success(Piece(f, new[i - 1], new[i]))
  <2>1. CASE i = l + 1
    <3>1. i - 1 = l
      BY <1>2, <2>1
    <3>2. QED BY <1>2, <1>4, <2>1, <3>1 DEF pkt
  <2>2. CASE i # l + 1
    <3>1. i \in 1 .. l /\ i - 1 \in 0 .. l /\ i \in 0 .. l
      BY <1>2, <2>2
    <3>2. new[i] = off[i] /\ new[i - 1] = off[i - 1] /\ r[i] = q[i]
      BY <1>2, <1>4, <3>1
    <3>3. QED BY <1>1, <3>1, <3>2
  <2>3. QED BY <2>1, <2>2
<1>6. Chain(f, s, r, n)
  BY <1>1, <1>2, <1>3, <1>4, <1>5 DEF Chain
<1>7. QED BY <1>6 DEF r

(* The next packet is read: it fits, and what has arrived are the first    *)
(* units of the file again.                                                *)
LEMMA ChainHead ==
  ASSUME NEW S, NEW f \in Seq(S), NEW s, NEW T, NEW q \in Seq(T), q # <<>>, NEW m, Chain(f, s, q, m)
  PROVE  \E d \in Seq(S) :
            /\ Head(q) = Success(d) /\ Len(s) \in Nat /\ Len(s) + Len(d) <= Len(f)
            /\ Chain(f, s \o d, Tail(q), m)
<1> DEFINE l == Len(q)
           t == Tail(q)
<1>1. PICK off \in [0 .. l -> 0 .. Len(f)] :
         /\ s = Piece(f, 0, off[0]) /\ off[l] = m
         /\ \A i \in 1 .. l : off[i - 1] <= off[i] /\ q[i] = Success(Piece(f, off[i - 1], off[i]))
  BY DEF Chain
<1>2. l \in Nat /\ l # 0 /\ Len(f) \in Nat /\ Len(t) = l - 1 /\ \A i \in 1 .. Len(t) : t[i] = q[i + 1]
  BY HeadTailProperties, LenProperties, EmptySeq
<1>3. Head(q) = q[1]
  OBVIOUS
<1> HIDE DEF l, t
<1> DEFINE x == off[0]
           y == off[1]
           d == Piece(f, x, y)
           new == [i \in 0 .. l - 1 |-> off[i + 1]]
<1>4. 0 \in 0 .. l /\ 1 \in 0 .. l /\ 1 \in 1 .. l /\ 1 - 1 = 0
  BY <1>2
<1>5. x \in 0 .. Len(f) /\ y \in 0 .. Len(f) /\ x <= y /\ q[1] = Success(d)
  BY <1>1, <1>4
<1>6. new \in [0 .. l - 1 -> 0 .. Len(f)] /\ new[0] = y /\ new[l - 1] = m
  <2>1. \A i \in 0 .. l - 1 : i + 1 \in 0 .. l
    BY <1>2
  <2>2. 0 \in 0 .. l - 1 /\ l - 1 \in 0 .. l - 1 /\ 0 + 1 = 1 /\ l - 1 + 1 = l
    BY <1>2
  <2>3. QED BY <1>1, <2>1, <2>2
<1>7. \A i \in 0 .. l - 1 : new[i] = off[i + 1]
  OBVIOUS
<1> HIDE DEF x, y, new
<1>8. d \in Seq(S) /\ Len(d) = y - x /\ s \in Seq(S) /\ Len(s) = x
  <2>1. \A i, e \in 0 .. Len(f) : i <= e => Piece(f, i, e) \in Seq(S) /\ Len(Piece(f, i, e)) = e - i
    BY PieceIs
  <2>2. s = Piece(f, 0, x) /\ 0 \in 0 .. Len(f) /\ 0 <= x /\ x - 0 = x
    BY <1>1, <1>2, <1>5 DEF x
  <2>3. QED BY <1>5, <2>1, <2>2
<1>9. s \o d = Piece(f, 0, y)
  <2>1. s = SubSeq(f, 1, x) /\ Piece(f, 0, y) = SubSeq(f, 1, y)
    BY <1>1 DEF Piece, x
  <2>2. 1 \in 1 .. Len(f) + 1 /\ x \in 1 - 1 .. Len(f) /\ y \in x .. Len(f)
    BY <1>2, <1>5
  <2>3. SubSeq(f, 1, x) \o SubSeq(f, x + 1, y) = SubSeq(f, 1, y)
    BY <2>2, ConcatAdjacentSubSeq
  <2>4. QED BY <2>1, <2>3 DEF Piece
<1> HIDE DEF d
<1>10. ASSUME NEW i \in 1 .. l - 1
       PROVE  new[i - 1] <= new[i] /\ t[i] = Success(Piece(f, new[i - 1], new[i]))
  <2>1. i - 1 \in 0 .. l - 1 /\ i \in 0 .. l - 1 /\ i + 1 \in 1 .. l /\ i - 1 + 1 = i /\ i + 1 - 1 = i
    BY <1>2
  <2>2. new[i - 1] = off[i] /\ new[i] = off[i + 1] /\ t[i] = q[i + 1]
    BY <1>2, <1>7, <2>1
  <2>3. off[i] <= off[i + 1] /\ q[i + 1] = Success(Piece(f, off[i], off[i + 1]))
    BY <1>1, <2>1
  <2>4. QED BY <2>2, <2>3
<1>11. Chain(f, s \o d, t, m)
  BY <1>2, <1>6, <1>9, <1>10 DEF Chain
<1>12. Len(s) + Len(d) <= Len(f) /\ Len(s) \in Nat
  BY <1>2, <1>5, <1>8
<1>13. QED BY <1>3, <1>5, <1>8, <1>11, <1>12 DEF t

(* What has arrived is the beginning of the file.                          *)
LEMMA ChainDone ==
  ASSUME NEW S, NEW f \in Seq(S), NEW s, NEW q, Len(q) \in Nat, NEW m, Chain(f, s, q, m)
  PROVE  Len(s) <= Len(f) /\ s = SubSeq(f, 1, Len(s))
<1>1. PICK off \in [0 .. Len(q) -> 0 .. Len(f)] : s = Piece(f, 0, off[0])
  BY DEF Chain
<1>2. off[0] \in 0 .. Len(f) /\ Len(f) \in Nat
  BY <1>1, LenProperties
<1>3. PICK x \in 0 .. Len(f) : x = off[0]
  BY <1>2
<1>4. \A i, e \in 0 .. Len(f) : i <= e => Len(Piece(f, i, e)) = e - i
  BY PieceIs
<1>5. Len(Piece(f, 0, x)) = x
  <2>1. 0 \in 0 .. Len(f) /\ 0 <= x /\ x - 0 = x
    BY <1>2
  <2>2. QED BY <1>4, <2>1
<1>6. Piece(f, 0, x) = SubSeq(f, 1, x)
  <2>1. 0 + 1 = 1
    OBVIOUS
  <2>2. QED BY <2>1 DEF Piece
<1>7. x <= Len(f)
  BY <1>2
<1>8. QED BY <1>1, <1>3, <1>5, <1>6, <1>7

-----------------------------------------------------------------------------
(* The inductive invariant                                                 *)

(* The reasons for which a child may get something else than was           *)
(* registered.  Both are for good.                                         *)
Excuse(p, n) == Changed(p, n) \/ Dead(p)

(* A connection that nobody has made yet.                                  *)
Unused(k) ==
  /\ place[k] = "none" /\ at[k] = None /\ request[k] = None /\ inbox[k] = <<>> /\ k \notin reset
  /\ \A p \in Children : serving[p] # k

(* The connections of the gets to come, and of one that is about to        *)
(* connect, are not in use.                                                *)
Fresh ==
  \A k \in Conns :
     k[2] > gets[k[1]] \/ (k[2] = gets[k[1]] /\ dpc[k[1]] = "connect") => Unused(k)

(* A thread has to do with the connections that were made to it.           *)
Threads ==
  /\ \A p \in Children, i \in Nat : i \in 1 .. Len(backlog[p]) => at[backlog[p][i]] = p
  /\ \A p \in Children : serving[p] \in Conns => at[serving[p]] = p
  /\ \A p \in Children : dpc[p] \in {"register", "registered"} => lpc[p] = "down"
  /\ \A p \in Children : lpc[p] \in {"down", "starting", "select"} => serving[p] = NoConn
  /\ \A p \in Children : lpc[p] = "send" => serving[p] \in Conns
  /\ \A p \in Children, n \in Names : ~Changed(p, n) => data[p][n] = Data[p][n]

(* What a get that is under way relies on.                                 *)
Busy == {"connect", "receive", "store", "corrupt"}

(* s is the beginning of the file that was asked for, of the size z that   *)
(* was found.                                                              *)
Begun(p, n, s, z) ==
  Data[p][n] \in Seq(Units) /\ z <= Len(Data[p][n]) /\ s = SubSeq(Data[p][n], 1, z)

(* The file does not fit, or cannot be read.                               *)
Overfull(p, n, z) ==
  Data[p][n] = Unreadable \/ (Data[p][n] # Absent /\ SizeOf(Data[p][n]) > z)

Choice(c) ==
  /\ dpc[c] \in Busy => want[c] \in Names /\ dest[c] \in Dests /\ peer[c] \in Children /\ gets[c] # 0
  /\ \A p \in Children, n \in Names :
        dpc[c] \in Busy /\ peer[c] = p /\ want[c] = n =>
           /\ dpc[c] = "store" => Excuse(p, n) \/ <<c, gets[c]>> \in cut \/ Begun(p, n, stored[c], size[c])
           /\ dpc[c] = "corrupt" => Excuse(p, n) \/ <<c, gets[c]>> \in cut \/ Overfull(p, n, size[c])

(* What can be on connection k, on which child c gets file n of child p:   *)
(* the request, ...                                                        *)
Asked(c, k, p, n) ==
  request[k] = n /\ inbox[k] = <<>> /\ stored[c] = <<>> /\ serving[p] # k

(* ... or FILE_RES_FAIL, ...                                               *)
Refused(c, k, p) ==
  request[k] = None /\ inbox[k] = <<Fail>> /\ stored[c] = <<>> /\ serving[p] # k

(* ... or packets of negative size, without end, ...                       *)
Hung(c, k, p, n) ==
  /\ request[k] = None /\ stored[c] = <<>> /\ Data[p][n] = Unreadable
  /\ \A i \in 1 .. Len(inbox[k]) : inbox[k][i] = BadSize
  /\ serving[p] = k /\ rest[p] = Unreadable

(* ... or consecutive pieces of the file.                                  *)
Sent(c, k, p, n) ==
  /\ request[k] = None /\ Data[p][n] \in Seq(Units)
  /\ \E m \in 0 .. Len(Data[p][n]) :
        /\ Chain(Data[p][n], stored[c], inbox[k], m)
        /\ serving[p] = k => rest[p] = Piece(Data[p][n], m, Len(Data[p][n]))

OnItsWay(c, k, p, n) ==
  /\ at[k] = p /\ place[k] \in {"backlog", "slot", "forgotten"} /\ k \notin reset
  /\ Asked(c, k, p, n) \/ Refused(c, k, p) \/ Hung(c, k, p, n) \/ Sent(c, k, p, n)

Flow(c, k, p, n) ==
  dpc[c] = "receive" /\ peer[c] = p /\ want[c] = n /\ k = <<c, gets[c]>> /\ ~Excuse(p, n) /\ k \notin cut =>
     OnItsWay(c, k, p, n)

Flows == \A c \in Children, k \in Conns, p \in Children, n \in Names : Flow(c, k, p, n)

IInv ==
  /\ Types /\ Fresh /\ Threads
  /\ \A c \in Children : Choice(c)
  /\ Flows /\ DownloadRight

-----------------------------------------------------------------------------
(* What a step leaves as it is                                             *)

(* Steps of the threads do nothing to main().                              *)
LEMMA MainStays ==
  ASSUME MainTypes, \A c \in Children : Choice(c), DownloadRight,
         UNCHANGED mainVars, changed \subseteq changed'
  PROVE  MainTypes' /\ (\A c \in Children : Choice(c))' /\ DownloadRight'
<1>1. \A p, n : Excuse(p, n) => Excuse(p, n)'
  BY DEF mainVars, Excuse, Changed, Dead
<1>2. MainTypes'
  BY DEF mainVars, MainTypes
<1>3. ASSUME NEW c \in Children PROVE Choice(c)'
  BY <1>1, <1>3 DEF mainVars, Choice
<1>4. DownloadRight'
  BY DEF mainVars, DownloadRight, Changed, Dead
<1>5. QED BY <1>2, <1>3, <1>4

(* Connections that were not in use are not in use.                        *)
LEMMA FreshStays ==
  ASSUME Fresh, UNCHANGED <<dpc, gets>>, \A k \in Conns : Unused(k) => Unused(k)'
  PROVE  Fresh'
BY DEF Fresh

(* What is on its way is not touched.                                      *)
LEMMA WayStays ==
  ASSUME NEW c \in Children, NEW k \in Conns, NEW p \in Children, NEW n \in Names,
         OnItsWay(c, k, p, n), at'[k] = at[k], place'[k] \in {"backlog", "slot", "forgotten"},
         k \notin reset', request'[k] = request[k], inbox'[k] = inbox[k], stored'[c] = stored[c],
         \/ serving'[p] = serving[p] /\ rest'[p] = rest[p]
         \/ serving[p] # k /\ serving'[p] # k
  PROVE  OnItsWay(c, k, p, n)'
<1>1. Asked(c, k, p, n) => Asked(c, k, p, n)'
  BY DEF Asked
<1>2. Refused(c, k, p) => Refused(c, k, p)'
  BY DEF Refused
<1>3. Hung(c, k, p, n) => Hung(c, k, p, n)'
  BY DEF Hung
<1>4. Sent(c, k, p, n) => Sent(c, k, p, n)'
  BY DEF Sent
<1>5. QED BY <1>1, <1>2, <1>3, <1>4 DEF OnItsWay

(* What a thread does is right for all gets if it is for each.             *)
LEMMA FlowsStay ==
  ASSUME Flows, UNCHANGED mainVars, changed \subseteq changed',
         \A c \in Children, k \in Conns, p \in Children, n \in Names :
            /\ dpc[c] = "receive" /\ want[c] = n /\ k = <<c, gets[c]>> /\ ~Excuse(p, n)'
            /\ OnItsWay(c, k, p, n)
            => OnItsWay(c, k, p, n)'
  PROVE  Flows'
<1>1. \A p, n : Excuse(p, n) => Excuse(p, n)'
  BY DEF mainVars, Excuse, Changed, Dead
<1>2. SUFFICES ASSUME NEW c \in Children, NEW k \in Conns, NEW p \in Children, NEW n \in Names
               PROVE  Flow(c, k, p, n)'
  BY DEF Flows
<1>3. Flow(c, k, p, n)
  BY DEF Flows
<1>4. QED BY <1>1, <1>3 DEF Flow, mainVars

-----------------------------------------------------------------------------
(* The steps of the thread                                                 *)

(* bind and listen.                                                        *)
LEMMA ListenStep ==
  ASSUME IInv, NEW p \in Children, Listen(p)
  PROVE  IInv'
<1>1. /\ UNCHANGED <<mainVars, serving, rest, fileVars, netVars>> /\ changed \subseteq changed'
      /\ lpc' = [lpc EXCEPT ![p] = "select"] /\ lpc[p] = "starting"
  BY DEF Listen, fileVars
<1>2. MainTypes' /\ (\A c \in Children : Choice(c))' /\ DownloadRight'
  BY <1>1, MainStays DEF IInv, Types
<1>3. ServerTypes' /\ NetTypes'
  BY <1>1 DEF IInv, Types, ServerTypes, NetTypes, fileVars, netVars
<1>4. Fresh'
  BY <1>1, FreshStays DEF IInv, Unused, mainVars, netVars
<1>5. Threads'
  BY <1>1 DEF IInv, Threads, Types, ServerTypes, Changed, mainVars, fileVars, netVars
<1>6. Flows'
  <2>1. \A c \in Children, k \in Conns, q \in Children, n \in Names :
           OnItsWay(c, k, q, n) => OnItsWay(c, k, q, n)'
    BY <1>1 DEF OnItsWay, Asked, Refused, Hung, Sent, mainVars, netVars
  <2>2. QED BY <1>1, <2>1, FlowsStay DEF IInv
<1>7. QED BY <1>2, <1>3, <1>4, <1>5, <1>6 DEF IInv, Types

(* accept.                                                                 *)
LEMMA AcceptStep ==
  ASSUME IInv, NEW p \in Children, Accept(p)
  PROVE  IInv'
<1>1. /\ UNCHANGED <<mainVars, serverVars, fileVars, at, request, inbox, reset>>
      /\ changed \subseteq changed' /\ backlog[p] # <<>>
      /\ backlog' = [backlog EXCEPT ![p] = Tail(@)]
  BY DEF Accept, fileVars
<1>2. PICK k : k = Head(backlog[p])
  OBVIOUS
<1>3. PICK w \in {"slot", "forgotten"} : place' = [place EXCEPT ![k] = w]
  BY <1>2 DEF Accept
<1>4. backlog[p] \in Seq(Conns)
  BY DEF IInv, Types, NetTypes
<1>5. /\ k \in Conns /\ Tail(backlog[p]) \in Seq(Conns) /\ Len(backlog[p]) \in Nat
      /\ Len(Tail(backlog[p])) = Len(backlog[p]) - 1 /\ Len(backlog[p]) # 0
  BY <1>1, <1>2, <1>4, HeadTailProperties, LenProperties, EmptySeq
<1>6. at[k] = p
  <2>1. k = backlog[p][1]
    BY <1>1, <1>2, <1>4
  <2>2. 1 \in 1 .. Len(backlog[p])
    BY <1>5
  <2>3. QED BY <2>1, <2>2 DEF IInv, Threads
<1>7. MainTypes' /\ (\A c \in Children : Choice(c))' /\ DownloadRight'
  BY <1>1, MainStays DEF IInv, Types
<1>8. ServerTypes' /\ NetTypes'
  BY <1>1, <1>3, <1>5 DEF IInv, Types, ServerTypes, NetTypes, serverVars, fileVars
<1>9. Fresh'
  <2>1. p # None
    BY DownloadAssumption
  <2>2. \A j \in Conns : Unused(j) => j # k
    BY <1>6, <2>1 DEF Unused
  <2>3. \A j \in Conns : j # k => place'[j] = place[j]
    BY <1>3
  <2>4. \A j \in Conns : Unused(j) => Unused(j)'
    BY <1>1, <2>2, <2>3 DEF Unused, serverVars
  <2>5. QED BY <1>1, <2>4, FreshStays DEF IInv, mainVars
<1>10. Threads'
  <2>1. ASSUME NEW q \in Children, NEW i \in Nat, i \in 1 .. Len(backlog'[q]) PROVE at'[backlog'[q][i]] = q
    <3>1. CASE q = p
      <4>1. backlog'[q] = Tail(backlog[p])
        BY <1>1, <3>1 DEF IInv, Types, NetTypes
      <4>2. i \in 1 .. Len(Tail(backlog[p]))
        BY <2>1, <4>1
      <4>3. i + 1 \in 1 .. Len(backlog[p])
        BY <1>5, <4>2
      <4>4. backlog'[q][i] = backlog[p][i + 1]
        <5>1. Tail(backlog[p])[i] = backlog[p][i + 1]
          BY <1>1, <1>4, <4>2, HeadTailProperties
        <5>2. QED BY <4>1, <5>1
      <4>5. \A m \in Nat : m \in 1 .. Len(backlog[p]) => at[backlog[p][m]] = p
        BY DEF IInv, Threads
      <4>6. at[backlog[p][i + 1]] = p
        BY <4>3, <4>5
      <4>7. QED BY <1>1, <3>1, <4>4, <4>6
    <3>2. CASE q # p
      BY <1>1, <2>1, <3>2 DEF IInv, Threads, Types, NetTypes
    <3>3. QED BY <3>1, <3>2
  <2>2. QED BY <1>1, <2>1 DEF IInv, Threads, Changed, mainVars, serverVars, fileVars
<1>11. Flows'
  <2>1. ASSUME NEW c \in Children, NEW j \in Conns, NEW q \in Children, NEW n \in Names, OnItsWay(c, j, q, n)
        PROVE  OnItsWay(c, j, q, n)'
    <3>1. place'[j] \in {"backlog", "slot", "forgotten"}
      BY <1>3, <2>1 DEF OnItsWay, IInv, Types, NetTypes
    <3>2. QED BY <1>1, <2>1, <3>1, WayStays DEF OnItsWay, mainVars, serverVars
  <2>2. QED BY <1>1, <2>1, FlowsStay DEF IInv
<1>12. QED BY <1>7, <1>8, <1>9, <1>10, <1>11 DEF IInv, Types

(* close, when the client is dead.                                         *)
LEMMA CloseSlotStep ==
  ASSUME IInv, NEW p \in Children, CloseSlot(p)
  PROVE  IInv'
<1>1. /\ UNCHANGED <<mainVars, serverVars, fileVars, backlog, at, request, inbox, reset>>
      /\ changed \subseteq changed'
  BY DEF CloseSlot, fileVars
<1>2. PICK k \in InSlots(p) : Dead(k[1]) /\ place' = [place EXCEPT ![k] = "closed"]
  BY DEF CloseSlot
<1>3. k \in Conns /\ at[k] = p
  BY DEF InSlots
<1>4. MainTypes' /\ (\A c \in Children : Choice(c))' /\ DownloadRight'
  BY <1>1, MainStays DEF IInv, Types
<1>5. ServerTypes' /\ NetTypes'
  BY <1>1, <1>2 DEF IInv, Types, ServerTypes, NetTypes, serverVars, fileVars
<1>6. Fresh'
  <2>1. p # None
    BY DownloadAssumption
  <2>2. \A j \in Conns : Unused(j) => j # k
    BY <1>3, <2>1 DEF Unused
  <2>3. \A j \in Conns : j # k => place'[j] = place[j]
    BY <1>2
  <2>4. \A j \in Conns : Unused(j) => Unused(j)'
    BY <1>1, <2>2, <2>3 DEF Unused, serverVars
  <2>5. QED BY <1>1, <2>4, FreshStays DEF IInv, mainVars
<1>7. Threads'
  BY <1>1 DEF IInv, Threads, Changed, mainVars, serverVars, fileVars
<1>8. Flows'
  <2>1. ASSUME NEW c \in Children, NEW j \in Conns, NEW q \in Children, NEW n \in Names,
               dpc[c] = "receive", j = <<c, gets[c]>>, OnItsWay(c, j, q, n)
        PROVE  OnItsWay(c, j, q, n)'
    <3>1. j # k
      BY <1>2, <2>1 DEF Dead
    <3>2. place'[j] \in {"backlog", "slot", "forgotten"}
      BY <1>2, <2>1, <3>1 DEF OnItsWay
    <3>3. QED BY <1>1, <2>1, <3>2, WayStays DEF OnItsWay, mainVars, serverVars
  <2>2. QED BY <1>1, <2>1, FlowsStay DEF IInv
<1>9. QED BY <1>4, <1>5, <1>6, <1>7, <1>8 DEF IInv, Types

(* What can be written is a packet.                                        *)
LEMMA PacketsWritten ==
  /\ Fail \in Packets /\ NoPacket \in Packets /\ BadSize \in Packets /\ Rest \in Packets
  /\ \A d \in Contents : Success(d) \in Packets
  /\ \A d \in Seq(Units) : Success(d) # BadSize
  /\ \A d : Success(d) # Rest
<1>1. <<>> \in Contents /\ Unreadable \in Contents
  BY FileContents DEF Files
<1>2. \A d \in Seq(Units) : d # Unreadable
  BY FileContents
<1>3. QED BY <1>1, <1>2 DEF Packets, Fail, NoPacket, BadSize, Success, Rest

(* write() puts a packet behind the others, if the client lives.           *)
LEMMA WriteDoes ==
  ASSUME NetTypes, NEW k \in Conns, NEW pkt \in Packets, Write(k, pkt)
  PROVE  /\ inbox' \in [Conns -> Seq(Packets)] /\ (\A j \in Conns : Len(inbox'[j]) <= SockBuf)
         /\ reset' \subseteq Conns
         /\ \A j \in Conns : j # k => inbox'[j] = inbox[j] /\ (j \in reset' <=> j \in reset)
         /\ ~Dead(k[1]) => inbox'[k] = Append(inbox[k], pkt) /\ reset' = reset
<1>1. CASE Dead(k[1])
  BY <1>1 DEF Write, NetTypes
<1>2. CASE ~Dead(k[1])
  <2>1. /\ Len(inbox[k]) < SockBuf /\ inbox' = [inbox EXCEPT ![k] = Append(inbox[k], pkt)] /\ reset' = reset
        /\ inbox[k] \in Seq(Packets) /\ SockBuf \in Nat
    BY <1>2, DownloadAssumption DEF Write, NetTypes
  <2>2. /\ Append(inbox[k], pkt) \in Seq(Packets) /\ Len(Append(inbox[k], pkt)) = Len(inbox[k]) + 1
        /\ Len(inbox[k]) \in Nat
    BY <2>1, AppendProperties, LenProperties
  <2>3. Len(Append(inbox[k], pkt)) <= SockBuf
    BY <2>1, <2>2
  <2>4. inbox'[k] = Append(inbox[k], pkt) /\ \A j \in Conns : j # k => inbox'[j] = inbox[j]
    BY <2>1 DEF NetTypes
  <2>5. inbox' \in [Conns -> Seq(Packets)]
    BY <2>1, <2>2 DEF NetTypes
  <2>6. \A j \in Conns : Len(inbox'[j]) <= SockBuf
    BY <2>3, <2>4 DEF NetTypes
  <2>7. QED BY <2>1, <2>4, <2>5, <2>6 DEF NetTypes
<1>3. QED BY <1>1, <1>2

(* read and write.                                                         *)
LEMMA SendPacketStep ==
  ASSUME IInv, NEW p \in Children, SendPacket(p)
  PROVE  IInv'
<1>1. /\ UNCHANGED <<mainVars, lpc, serving, fileVars, backlog, place, at, request>>
      /\ lpc[p] = "send" /\ changed \subseteq changed'
  BY DEF SendPacket, fileVars
<1>2. PICK k : k = serving[p]
  OBVIOUS
<1>3. k \in Conns /\ at[k] = p
  BY <1>1, <1>2 DEF IInv, Threads
<1>4. PICK pkt, left :
         /\ Write(k, pkt) /\ rest' = [rest EXCEPT ![p] = left]
         /\ IF rest[p] = Unreadable THEN pkt = BadSize /\ left = rest[p]
                                    ELSE pkt = Success(Chunk(rest[p])) /\ left = AfterChunk(rest[p])
  <2>1. CASE rest[p] = Unreadable
    <3>1. Write(k, BadSize) /\ rest' = rest
      BY <1>2, <2>1 DEF SendPacket
    <3>2. rest' = [rest EXCEPT ![p] = rest[p]]
      BY <3>1 DEF IInv, Types, ServerTypes
    <3>3. QED BY <2>1, <3>1, <3>2
  <2>2. CASE rest[p] # Unreadable
    <3>1. Write(k, Success(Chunk(rest[p]))) /\ rest' = [rest EXCEPT ![p] = AfterChunk(rest[p])]
      BY <1>2, <2>2 DEF SendPacket
    <3>2. QED BY <2>2, <3>1
  <2>3. QED BY <2>1, <2>2
<1>5. pkt \in Packets /\ left \in Contents
  <2>1. rest[p] \in Contents
    BY DEF IInv, Types, ServerTypes
  <2>2. Chunk(rest[p]) \in Contents /\ AfterChunk(rest[p]) \in Contents
    BY <2>1, Chunks DEF Contents
  <2>3. QED BY <1>4, <2>1, <2>2, PacketsWritten
<1>6. /\ inbox' \in [Conns -> Seq(Packets)] /\ (\A j \in Conns : Len(inbox'[j]) <= SockBuf)
      /\ reset' \subseteq Conns
      /\ \A j \in Conns : j # k => inbox'[j] = inbox[j] /\ (j \in reset' <=> j \in reset)
      /\ ~Dead(k[1]) => inbox'[k] = Append(inbox[k], pkt) /\ reset' = reset
  BY <1>3, <1>4, <1>5, WriteDoes DEF IInv, Types
<1>7. MainTypes' /\ (\A c \in Children : Choice(c))' /\ DownloadRight'
  BY <1>1, MainStays DEF IInv, Types
<1>8. ServerTypes' /\ NetTypes'
  BY <1>1, <1>4, <1>5, <1>6 DEF IInv, Types, ServerTypes, NetTypes, fileVars
<1>9. Fresh'
  <2>1. \A j \in Conns : Unused(j) => j # k
    BY <1>2 DEF Unused
  <2>2. \A j \in Conns : Unused(j) => Unused(j)'
    BY <1>1, <1>6, <2>1 DEF Unused
  <2>3. QED BY <1>1, <2>2, FreshStays DEF IInv, mainVars
<1>10. Threads'
  BY <1>1 DEF IInv, Threads, Changed, mainVars, fileVars
<1>11. Flows'
  <2>1. ASSUME NEW c \in Children, NEW j \in Conns, NEW q \in Children, NEW n \in Names,
               dpc[c] = "receive", j = <<c, gets[c]>>, OnItsWay(c, j, q, n)
        PROVE  OnItsWay(c, j, q, n)'
    <3>1. at'[j] = at[j] /\ place'[j] \in {"backlog", "slot", "forgotten"} /\ request'[j] = request[j]
          /\ stored'[c] = stored[c] /\ serving' = serving /\ at[j] = q
      BY <1>1, <2>1 DEF OnItsWay, mainVars
    <3>2. CASE j # k
      <4>1. inbox'[j] = inbox[j] /\ j \notin reset'
        BY <1>6, <2>1, <3>2 DEF OnItsWay
      <4>2. serving[q] # j \/ rest'[q] = rest[q]
        <5>1. CASE q = p
          BY <1>2, <3>2, <5>1
        <5>2. CASE q # p
          BY <1>4, <5>2 DEF IInv, Types, ServerTypes
        <5>3. QED BY <5>1, <5>2
      <4>3. QED BY <2>1, <3>1, <4>1, <4>2, WayStays
    <3>3. CASE j = k
      <4>1. q = p /\ k[1] = c /\ ~Dead(c)
        BY <1>3, <2>1, <3>1, <3>3 DEF Dead
      <4>2. inbox'[j] = Append(inbox[j], pkt) /\ j \notin reset'
        BY <1>6, <2>1, <3>3, <4>1 DEF OnItsWay
      <4>3. rest'[q] = left /\ serving[q] = j /\ serving'[q] = j
        BY <1>2, <1>4, <3>1, <3>3, <4>1 DEF IInv, Types, ServerTypes
      <4>4. inbox[j] \in Seq(Packets)
        BY DEF IInv, Types, NetTypes
      <4>5. CASE Hung(c, j, q, n)
        <5>1. /\ request[j] = None /\ stored[c] = <<>> /\ Data[q][n] = Unreadable
              /\ \A i \in 1 .. Len(inbox[j]) : inbox[j][i] = BadSize
              /\ rest[q] = Unreadable
          BY <4>5 DEF Hung
        <5>2. pkt = BadSize /\ left = Unreadable
          BY <1>4, <4>1, <5>1
        <5>3. \A i \in 1 .. Len(Append(inbox[j], pkt)) : Append(inbox[j], pkt)[i] = BadSize
          BY <1>5, <4>4, <5>1, <5>2, AppendProperties, LenProperties
        <5>4. Hung(c, j, q, n)'
          BY <3>1, <4>2, <4>3, <5>1, <5>2, <5>3 DEF Hung
        <5>5. QED BY <2>1, <3>1, <4>2, <5>4 DEF OnItsWay
      <4>6. CASE Sent(c, j, q, n)
        <5>1. PICK f : f = Data[q][n]
          OBVIOUS
        <5>2. f \in Seq(Units) /\ request[j] = None
          BY <4>6, <5>1 DEF Sent
        <5>3. PICK m \in 0 .. Len(f) : Chain(f, stored[c], inbox[j], m) /\ rest[q] = Piece(f, m, Len(f))
          BY <4>3, <4>6, <5>1 DEF Sent
        <5>4. Len(f) \in Nat /\ Len(f) \in 0 .. Len(f) /\ m <= Len(f)
          BY <5>2, LenProperties
        <5>5. Piece(f, m, Len(f)) \in Seq(Units)
          BY <5>2, <5>4, PieceIs
        <5>6. rest[q] # Unreadable
          BY <5>3, <5>5, FileContents
        <5>7. PICK l \in 0 .. Len(f) :
                 /\ m <= l /\ Chunk(rest[q]) = Piece(f, m, l) /\ AfterChunk(rest[q]) = Piece(f, l, Len(f))
          BY <5>2, <5>3, NextPiece
        <5>8. pkt = Success(Piece(f, m, l)) /\ left = Piece(f, l, Len(f))
          BY <1>4, <4>1, <5>6, <5>7
        <5>9. Chain(f, stored[c], Append(inbox[j], pkt), l)
          BY <1>5, <4>4, <5>2, <5>3, <5>7, <5>8, ChainAppend
        <5>10. Sent(c, j, q, n)'
          BY <3>1, <4>2, <4>3, <5>1, <5>2, <5>8, <5>9 DEF Sent
        <5>11. QED BY <2>1, <3>1, <4>2, <5>10 DEF OnItsWay
      <4>7. ~Asked(c, j, q, n) /\ ~Refused(c, j, q)
        BY <4>3 DEF Asked, Refused
      <4>8. QED BY <2>1, <4>5, <4>6, <4>7 DEF OnItsWay
    <3>4. QED BY <3>2, <3>3
  <2>2. QED BY <1>1, <2>1, FlowsStay DEF IInv
<1>12. QED BY <1>7, <1>8, <1>9, <1>10, <1>11 DEF IInv, Types

(* read returns 0.                                                         *)
LEMMA EndOfFileStep ==
  ASSUME IInv, NEW p \in Children, EndOfFile(p)
  PROVE  IInv'
<1>1. /\ UNCHANGED <<mainVars, rest, fileVars, netVars>> /\ changed \subseteq changed'
      /\ lpc' = [lpc EXCEPT ![p] = "select"] /\ serving' = [serving EXCEPT ![p] = NoConn]
      /\ lpc[p] = "send" /\ rest[p] = <<>>
  BY DEF EndOfFile, fileVars
<1>2. MainTypes' /\ (\A c \in Children : Choice(c))' /\ DownloadRight'
  BY <1>1, MainStays DEF IInv, Types
<1>3. ServerTypes' /\ NetTypes'
  BY <1>1 DEF IInv, Types, ServerTypes, NetTypes, fileVars, netVars
<1>4. /\ serving'[p] = NoConn /\ lpc'[p] = "select"
      /\ \A q \in Children : q # p => serving'[q] = serving[q] /\ lpc'[q] = lpc[q]
  BY <1>1 DEF IInv, Types, ServerTypes
<1>5. \A k \in Conns : NoConn # k
  BY ConnIs
<1>6. Fresh'
  <2>1. ASSUME NEW k \in Conns, Unused(k) PROVE Unused(k)'
    <3>1. \A q \in Children : serving'[q] # k
      BY <1>4, <1>5, <2>1 DEF Unused
    <3>2. QED BY <1>1, <2>1, <3>1 DEF Unused, netVars
  <2>2. QED BY <1>1, <2>1, FreshStays DEF mainVars, IInv
<1>7. Threads'
  <2>1. ASSUME NEW q \in Children
        PROVE  /\ serving'[q] \in Conns => at[serving'[q]] = q
               /\ dpc[q] \in {"register", "registered"} => lpc'[q] = "down"
               /\ lpc'[q] \in {"down", "starting", "select"} => serving'[q] = NoConn
               /\ lpc'[q] = "send" => serving'[q] \in Conns
    <3>1. CASE q = p
      BY <1>1, <1>4, <1>5, <3>1 DEF IInv, Threads
    <3>2. CASE q # p
      BY <1>4, <3>2 DEF IInv, Threads
    <3>3. QED BY <3>1, <3>2
  <2>2. QED BY <1>1, <2>1 DEF IInv, Threads, Changed, mainVars, fileVars, netVars
<1>8. Flows'
  <2>1. ASSUME NEW c \in Children, NEW j \in Conns, NEW q \in Children, NEW n \in Names, OnItsWay(c, j, q, n)
        PROVE  OnItsWay(c, j, q, n)'
    <3>1. /\ UNCHANGED <<at, place, reset, request, inbox, stored>>
          /\ place'[j] \in {"backlog", "slot", "forgotten"} /\ j \notin reset'
      BY <1>1, <2>1 DEF OnItsWay, mainVars, netVars
    <3>2. CASE serving[q] = j /\ q = p
      <4>1. serving'[q] # j
        BY <1>4, <1>5, <3>2
      <4>2. rest[q] # Unreadable
        BY <1>1, <3>2, FileContents
      <4>3. Sent(c, j, q, n)
        BY <2>1, <3>2, <4>2 DEF OnItsWay, Asked, Refused, Hung
      <4>4. Sent(c, j, q, n)'
        BY <3>1, <4>1, <4>3 DEF Sent
      <4>5. QED BY <2>1, <3>1, <4>4 DEF OnItsWay
    <3>3. CASE q # p
      <4>1. serving'[q] = serving[q] /\ rest'[q] = rest[q]
        BY <1>1, <1>4, <3>3
      <4>2. QED BY <2>1, <3>1, <4>1, WayStays
    <3>4. CASE serving[q] # j /\ q = p
      <4>1. serving'[q] # j
        BY <1>4, <1>5, <3>4
      <4>2. QED BY <2>1, <3>1, <3>4, <4>1, WayStays
    <3>5. QED BY <3>2, <3>3, <3>4
  <2>2. QED BY <1>1, <2>1, FlowsStay DEF IInv
<1>9. QED BY <1>2, <1>3, <1>6, <1>7, <1>8 DEF IInv, Types

(* A file is changed, which is an excuse.                                  *)
LEMMA ChangeStep ==
  ASSUME IInv, NEW p \in Children, NEW m \in Names, Change(p, m)
  PROVE  IInv'
<1>1. /\ UNCHANGED <<mainVars, serverVars, netVars>> /\ changed' = changed \cup {<<p, m>>}
      /\ changed \subseteq changed'
  BY DEF Change
<1>2. PICK f \in Versions[p][m] : data' = [data EXCEPT ![p][m] = f]
  BY DEF Change
<1>3. f \in Files
  BY DownloadAssumption
<1>4. MainTypes' /\ (\A c \in Children : Choice(c))' /\ DownloadRight'
  BY <1>1, MainStays DEF IInv, Types
<1>5. ServerTypes' /\ NetTypes'
  <2>1. data' \in [Children -> [Names -> Files]]
    BY <1>2, <1>3 DEF IInv, Types, ServerTypes
  <2>2. changed' \subseteq Children \X Names
    BY <1>1 DEF IInv, Types, ServerTypes
  <2>3. QED BY <1>1, <2>1, <2>2 DEF IInv, Types, ServerTypes, NetTypes, serverVars, netVars
<1>6. Fresh'
  BY <1>1, FreshStays DEF IInv, Unused, mainVars, netVars, serverVars
<1>7. Threads'
  <2>1. ASSUME NEW q \in Children, NEW n \in Names, ~Changed(q, n)' PROVE data'[q][n] = Data[q][n]
    <3>1. ~Changed(q, n) /\ <<q, n>> # <<p, m>>
      BY <1>1, <2>1 DEF Changed
    <3>2. q # p \/ n # m
      BY <3>1
    <3>3. data'[q][n] = data[q][n]
      BY <1>2, <3>2 DEF IInv, Types, ServerTypes
    <3>4. QED BY <3>1, <3>3 DEF IInv, Threads
  <2>2. QED BY <1>1, <2>1 DEF IInv, Threads, mainVars, serverVars, netVars
<1>8. Flows'
  <2>1. \A c \in Children, k \in Conns, q \in Children, n \in Names :
           OnItsWay(c, k, q, n) => OnItsWay(c, k, q, n)'
    BY <1>1 DEF OnItsWay, Asked, Refused, Hung, Sent, mainVars, netVars, serverVars
  <2>2. QED BY <1>1, <2>1, FlowsStay DEF IInv
<1>9. QED BY <1>4, <1>5, <1>6, <1>7, <1>8 DEF IInv, Types

(* FILE_REQ is read.                                                       *)
LEMMA HandleRequestStep ==
  ASSUME IInv, NEW p \in Children, NEW k \in Conns, HandleRequest(p, k)
  PROVE  IInv'
<1>1. /\ UNCHANGED <<mainVars, fileVars, backlog, place, at>> /\ changed \subseteq changed'
      /\ lpc[p] = "select" /\ request[k] # None
      /\ request' = [request EXCEPT ![k] = None]
  BY DEF HandleRequest, fileVars
<1>2. at[k] = p /\ serving[p] = NoConn
  BY <1>1 DEF HandleRequest, InSlots, IInv, Threads
<1>3. PICK f : f = data[p][request[k]]
  OBVIOUS
<1>4. request[k] \in Names /\ f \in Files /\ (~Changed(p, request[k]) => f = Data[p][request[k]])
  BY <1>1, <1>3 DEF IInv, Types, ServerTypes, NetTypes, Threads
<1>5. /\ request'[k] = None /\ request' \in [Conns -> Names \cup {None}]
      /\ \A j \in Conns : j # k => request'[j] = request[j]
  BY <1>1 DEF IInv, Types, NetTypes
<1>6. \/ Write(k, Fail) /\ UNCHANGED serverVars
      \/ /\ f # Absent /\ lpc' = [lpc EXCEPT ![p] = "send"]
         /\ serving' = [serving EXCEPT ![p] = k] /\ rest' = [rest EXCEPT ![p] = f]
         /\ UNCHANGED <<inbox, reset>>
  BY <1>3 DEF HandleRequest
<1>7. MainTypes' /\ (\A c \in Children : Choice(c))' /\ DownloadRight'
  BY <1>1, MainStays DEF IInv, Types
<1>8. p # None
  BY DownloadAssumption
<1>9. CASE Write(k, Fail) /\ UNCHANGED serverVars
  <2>1. /\ inbox' \in [Conns -> Seq(Packets)] /\ (\A j \in Conns : Len(inbox'[j]) <= SockBuf)
        /\ reset' \subseteq Conns
        /\ \A j \in Conns : j # k => inbox'[j] = inbox[j] /\ (j \in reset' <=> j \in reset)
        /\ ~Dead(k[1]) => inbox'[k] = Append(inbox[k], Fail) /\ reset' = reset
    BY <1>9, PacketsWritten, WriteDoes DEF IInv, Types
  <2>2. ServerTypes' /\ NetTypes'
    BY <1>1, <1>5, <1>9, <2>1 DEF IInv, Types, ServerTypes, NetTypes, fileVars, serverVars
  <2>3. Fresh'
    <3>1. \A j \in Conns : Unused(j) => j # k
      BY <1>2, <1>8 DEF Unused
    <3>2. \A j \in Conns : Unused(j) => Unused(j)'
      BY <1>1, <1>5, <1>9, <2>1, <3>1 DEF Unused, serverVars
    <3>3. QED BY <1>1, <3>2, FreshStays DEF IInv, mainVars
  <2>4. Threads'
    BY <1>1, <1>9 DEF IInv, Threads, Changed, mainVars, fileVars, serverVars
  <2>5. Flows'
    <3>1. ASSUME NEW c \in Children, NEW j \in Conns, NEW q \in Children, NEW n \in Names,
                 dpc[c] = "receive", j = <<c, gets[c]>>, OnItsWay(c, j, q, n)
          PROVE  OnItsWay(c, j, q, n)'
      <4>1. /\ at'[j] = at[j] /\ place'[j] \in {"backlog", "slot", "forgotten"} /\ stored'[c] = stored[c]
            /\ serving' = serving /\ rest' = rest
        BY <1>1, <1>9, <3>1 DEF OnItsWay, mainVars, serverVars
      <4>2. CASE j # k
        <5>1. inbox'[j] = inbox[j] /\ j \notin reset' /\ request'[j] = request[j]
          BY <1>5, <2>1, <3>1, <4>2 DEF OnItsWay
        <5>2. QED BY <3>1, <4>1, <5>1, WayStays
      <4>3. CASE j = k
        <5>1. Asked(c, j, q, n)
          BY <1>1, <3>1, <4>3 DEF OnItsWay, Refused, Hung, Sent
        <5>2. ~Dead(k[1])
          BY <3>1, <4>3 DEF Dead
        <5>3. inbox'[j] = Append(<<>>, Fail) /\ j \notin reset'
          BY <2>1, <3>1, <4>3, <5>1, <5>2 DEF OnItsWay, Asked
        <5>4. inbox'[j] = <<Fail>>
          BY <5>3
        <5>5. Refused(c, j, q)'
          BY <1>5, <4>1, <4>3, <5>1, <5>4 DEF Asked, Refused
        <5>6. QED BY <3>1, <4>1, <5>3, <5>5 DEF OnItsWay
      <4>4. QED BY <4>2, <4>3
    <3>2. QED BY <1>1, <3>1, FlowsStay DEF IInv
  <2>6. QED BY <1>7, <2>2, <2>3, <2>4, <2>5 DEF IInv, Types
<1>10. CASE /\ f # Absent /\ lpc' = [lpc EXCEPT ![p] = "send"]
            /\ serving' = [serving EXCEPT ![p] = k] /\ rest' = [rest EXCEPT ![p] = f]
            /\ UNCHANGED <<inbox, reset>>
  <2>1. /\ serving'[p] = k /\ lpc'[p] = "send" /\ rest'[p] = f
        /\ \A q \in Children : q # p => serving'[q] = serving[q] /\ lpc'[q] = lpc[q] /\ rest'[q] = rest[q]
    BY <1>10 DEF IInv, Types, ServerTypes
  <2>2. ServerTypes' /\ NetTypes'
    <3>1. f \in Contents
      BY <1>4, FileContents
    <3>2. QED BY <1>1, <1>5, <1>10, <3>1 DEF IInv, Types, ServerTypes, NetTypes, fileVars
  <2>3. Fresh'
    <3>1. ASSUME NEW j \in Conns, Unused(j) PROVE Unused(j)'
      <4>1. j # k
        BY <1>2, <1>8, <3>1 DEF Unused
      <4>2. \A q \in Children : serving'[q] # j
        BY <2>1, <3>1, <4>1 DEF Unused
      <4>3. QED BY <1>1, <1>5, <1>10, <3>1, <4>1, <4>2 DEF Unused
    <3>2. QED BY <1>1, <3>1, FreshStays DEF IInv, mainVars
  <2>4. Threads'
    <3>1. ASSUME NEW q \in Children
          PROVE  /\ serving'[q] \in Conns => at[serving'[q]] = q
                 /\ dpc[q] \in {"register", "registered"} => lpc'[q] = "down"
                 /\ lpc'[q] \in {"down", "starting", "select"} => serving'[q] = NoConn
                 /\ lpc'[q] = "send" => serving'[q] \in Conns
      <4>1. CASE q = p
        BY <1>1, <1>2, <2>1, <4>1 DEF IInv, Threads
      <4>2. CASE q # p
        BY <2>1, <4>2 DEF IInv, Threads
      <4>3. QED BY <4>1, <4>2
    <3>2. QED BY <1>1, <3>1 DEF IInv, Threads, Changed, mainVars, fileVars
  <2>5. Flows'
    <3>1. ASSUME NEW c \in Children, NEW j \in Conns, NEW q \in Children, NEW n \in Names,
                 want[c] = n, ~Excuse(q, n)', OnItsWay(c, j, q, n)
          PROVE  OnItsWay(c, j, q, n)'
      <4>1. /\ at'[j] = at[j] /\ at[j] = q /\ place'[j] \in {"backlog", "slot", "forgotten"}
            /\ stored'[c] = stored[c] /\ inbox'[j] = inbox[j] /\ j \notin reset'
        BY <1>1, <1>10, <3>1 DEF OnItsWay, mainVars
      <4>2. CASE j # k
        <5>1. request'[j] = request[j]
          BY <1>5, <4>2
        <5>2. CASE q = p
          <6>1. serving[q] # j /\ serving'[q] # j
            BY <1>2, <2>1, <4>2, <5>2, ConnIs
          <6>2. QED BY <3>1, <4>1, <5>1, <6>1, WayStays
        <5>3. CASE q # p
          <6>1. serving'[q] = serving[q] /\ rest'[q] = rest[q]
            BY <2>1, <5>3
          <6>2. QED BY <3>1, <4>1, <5>1, <6>1, WayStays
        <5>4. QED BY <5>2, <5>3
      <4>3. CASE j = k
        <5>1. q = p /\ Asked(c, j, q, n)
          BY <1>1, <1>2, <3>1, <4>1, <4>3 DEF OnItsWay, Refused, Hung, Sent
        <5>2. request[j] = n /\ inbox[j] = <<>> /\ stored[c] = <<>>
          BY <5>1 DEF Asked
        <5>3. f = Data[q][n]
          <6>1. ~Changed(q, n)
            BY <1>1, <3>1 DEF Excuse, Changed, fileVars
          <6>2. QED BY <1>4, <4>3, <5>1, <5>2, <6>1
        <5>4. rest'[q] = f /\ serving'[q] = j /\ request'[j] = None
          BY <1>5, <2>1, <4>3, <5>1
        <5>5. CASE f = Unreadable
          <6>1. \A i \in 1 .. Len(inbox'[j]) : inbox'[j][i] = BadSize
            BY <4>1, <5>2
          <6>2. Hung(c, j, q, n)'
            BY <4>1, <5>2, <5>3, <5>4, <5>5, <6>1 DEF Hung
          <6>3. QED BY <4>1, <6>2 DEF OnItsWay
        <5>6. CASE f # Unreadable
          <6>1. f \in Seq(Units)
            BY <1>4, <1>10, <5>6 DEF Files
          <6>2. Len(f) \in Nat /\ 0 \in 0 .. Len(f) /\ Len(f) \in 0 .. Len(f) /\ 0 <= Len(f)
            BY <6>1, LenProperties
          <6>3. Chain(f, <<>>, <<>>, 0) /\ Piece(f, 0, Len(f)) = f
            BY <6>1, <6>2, ChainEmpty, PieceIs
          <6>4. Sent(c, j, q, n)'
            BY <4>1, <5>2, <5>3, <5>4, <6>1, <6>2, <6>3 DEF Sent
          <6>5. QED BY <4>1, <6>4 DEF OnItsWay
        <5>7. QED BY <5>5, <5>6
      <4>4. QED BY <4>2, <4>3
    <3>2. QED BY <1>1, <3>1, FlowsStay DEF IInv
  <2>6. QED BY <1>7, <2>2, <2>3, <2>4, <2>5 DEF IInv, Types
<1>11. QED BY <1>6, <1>9, <1>10

-----------------------------------------------------------------------------
(* The steps of main()                                                     *)

(* No file is stored by the step, and what is excused stays excused.       *)
LEMMA DownloadStays ==
  ASSUME DownloadRight, NEW c \in Children, dpc[c] # "dead" \/ dpc'[c] = "dead",
         from \in [Children -> [Dests -> Sources]], UNCHANGED <<download, from, changed>>,
         \A d \in Children : d # c => dpc'[d] = dpc[d]
  PROVE  DownloadRight'
<1>1. \A p \in Children : Dead(p) => Dead(p)'
  BY DEF Dead
<1>2. ASSUME NEW d \in Children, NEW x \in Dests, NEW o, o = from[d][x]
      PROVE  \/ o = NoSource \/ Changed(o.peer, o.name) \/ Dead(o.peer)'
             \/ SubSeq(download[d][x], 1, o.len) = SubSeq(Data[o.peer][o.name], 1, o.len)
  <2>1. o = NoSource \/ o.peer \in Children
    BY <1>2 DEF Sources
  <2>2. QED BY <1>1, <1>2, <2>1 DEF DownloadRight
<1>3. ASSUME NEW d \in Children, NEW x \in Dests, NEW o, o = from'[d][x]
      PROVE  \/ o = NoSource \/ Changed(o.peer, o.name)' \/ Dead(o.peer)'
             \/ SubSeq(download'[d][x], 1, o.len) = SubSeq(Data[o.peer][o.name], 1, o.len)
  BY <1>2, <1>3 DEF Changed
<1>4. QED BY <1>3 DEF DownloadRight

(* A child that dies is an excuse for good, and its connections are not    *)
(* those of others.                                                        *)
LEMMA DiesStep ==
  ASSUME IInv, NEW p \in Children, Dies(p)
  PROVE  IInv'
<1> DEFINE ends == {k \in Conns : at[k] = p /\ place[k] # "none"}
           mine == {k \in Conns : k[1] = p /\ place[k] # "none"}
<1>1. /\ dpc' = [dpc EXCEPT ![p] = "dead"] /\ lpc' = [lpc EXCEPT ![p] = "dead"]
      /\ backlog' = [backlog EXCEPT ![p] = <<>>]
      /\ place' = [k \in Conns |-> IF k \in ends THEN "closed" ELSE place[k]]
      /\ reset' = reset \cup {k \in ends : request[k] # None} \cup {k \in mine : inbox[k] # <<>>}
      /\ UNCHANGED <<gets, want, dest, peer, size, stored, last, cut, download, from, serving, rest, fileVars, at, request, inbox>>
  BY DEF Dies
<1>2. /\ dpc'[p] = "dead" /\ lpc'[p] = "dead" /\ backlog'[p] = <<>> /\ changed' = changed /\ data' = data
      /\ \A q \in Children : q # p => dpc'[q] = dpc[q] /\ lpc'[q] = lpc[q] /\ backlog'[q] = backlog[q]
  BY <1>1 DEF IInv, Types, MainTypes, ServerTypes, NetTypes, fileVars
<1>3. \A k \in Conns : k \notin ends /\ k \notin mine => place'[k] = place[k] /\ (k \in reset' <=> k \in reset)
  BY <1>1
<1>4. \A q \in Children, n \in Names : Excuse(q, n) => Excuse(q, n)'
  BY <1>2 DEF Excuse, Changed, Dead
<1>5. MainTypes'
  BY <1>1, <1>2 DEF IInv, Types, MainTypes
<1>6. ServerTypes'
  BY <1>1 DEF IInv, Types, ServerTypes, fileVars
<1>7. NetTypes'
  <2>1. backlog' \in [Children -> Seq(Conns)]
    BY <1>1 DEF IInv, Types, NetTypes
  <2>2. place' \in [Conns -> {"none", "backlog", "slot", "forgotten", "closed"}]
    BY <1>1 DEF IInv, Types, NetTypes
  <2>3. reset' \subseteq Conns
    BY <1>1 DEF IInv, Types, NetTypes
  <2>4. QED BY <1>1, <2>1, <2>2, <2>3 DEF IInv, Types, NetTypes
<1> HIDE DEF ends, mine
<1>8. Fresh'
  <2>1. ASSUME NEW k \in Conns, Unused(k) PROVE Unused(k)'
    <3>1. k \notin ends /\ k \notin mine
      BY <2>1 DEF Unused, ends, mine
    <3>2. QED BY <1>1, <1>3, <2>1, <3>1 DEF Unused
  <2>2. ASSUME NEW k \in Conns, k[2] > gets[k[1]] \/ (k[2] = gets[k[1]] /\ dpc'[k[1]] = "connect")
        PROVE  Unused(k)
    <3>1. k[1] \in Children
      BY ConnIs
    <3>2. dpc'[k[1]] = "connect" => dpc[k[1]] = "connect"
      BY <1>2, <3>1
    <3>3. QED BY <2>2, <3>2 DEF IInv, Fresh
  <2>3. QED BY <1>1, <2>1, <2>2 DEF Fresh
<1>9. Threads'
  <2>1. ASSUME NEW q \in Children
        PROVE  /\ \A i \in Nat : i \in 1 .. Len(backlog'[q]) => at[backlog'[q][i]] = q
               /\ dpc'[q] \in {"register", "registered"} => lpc'[q] = "down"
               /\ lpc'[q] \in {"down", "starting", "select"} => serving[q] = NoConn
               /\ lpc'[q] = "send" => serving[q] \in Conns
    <3>1. CASE q = p
      BY <1>2, <3>1
    <3>2. CASE q # p
      BY <1>2, <3>2 DEF IInv, Threads
    <3>3. QED BY <3>1, <3>2
  <2>2. QED BY <1>1, <1>2, <2>1 DEF IInv, Threads, Changed
<1>10. ASSUME NEW c \in Children PROVE Choice(c)'
  <2>1. CASE c = p
    BY <1>2, <2>1 DEF Choice, Busy
  <2>2. CASE c # p
    <3>1. Choice(c) /\ dpc'[c] = dpc[c]
      BY <1>2, <2>2 DEF IInv
    <3>2. QED BY <1>1, <1>4, <3>1 DEF Choice
  <2>3. QED BY <2>1, <2>2
<1>11. Flows'
  <2>1. ASSUME NEW c \in Children, NEW k \in Conns, NEW q \in Children, NEW n \in Names,
               dpc'[c] = "receive", peer[c] = q, want[c] = n, k = <<c, gets[c]>>, ~Excuse(q, n)', k \notin cut
        PROVE  OnItsWay(c, k, q, n)'
    <3>1. c # p /\ q # p /\ dpc[c] = "receive" /\ ~Excuse(q, n)
      BY <1>2, <1>4, <2>1 DEF Excuse, Dead
    <3>2. OnItsWay(c, k, q, n)
      BY <2>1, <3>1 DEF IInv, Flows, Flow
    <3>3. k \notin ends /\ k \notin mine
      BY <2>1, <3>1, <3>2 DEF OnItsWay, ends, mine
    <3>4. place'[k] \in {"backlog", "slot", "forgotten"} /\ k \notin reset'
      BY <1>3, <3>2, <3>3 DEF OnItsWay
    <3>5. QED BY <1>1, <3>2, <3>4, WayStays
  <2>2. QED BY <1>1, <2>1 DEF Flows, Flow
<1>12. DownloadRight'
  <2>1. DownloadRight /\ download' = download /\ from' = from
    BY <1>1 DEF IInv
  <2>2. UNCHANGED changed /\ \A d \in Children : d # p => dpc'[d] = dpc[d]
    BY <1>2
  <2>3. dpc'[p] = "dead" /\ from \in [Children -> [Dests -> Sources]]
    BY <1>2 DEF IInv, Types, MainTypes
  <2>4. QED BY <2>1, <2>2, <2>3, DownloadStays
<1>13. QED BY <1>5, <1>6, <1>7, <1>8, <1>9, <1>10, <1>11, <1>12 DEF IInv, Types

(* A step of main() of c is right for all gets if it is for that of c.     *)
LEMMA OthersStay ==
  ASSUME IInv, NEW c \in Children, dpc[c] # "dead", UNCHANGED <<serving, rest, changed>>, cut \subseteq cut',
         \A d \in Children : d # c =>
            /\ dpc'[d] = dpc[d] /\ gets'[d] = gets[d] /\ want'[d] = want[d] /\ dest'[d] = dest[d]
            /\ peer'[d] = peer[d] /\ size'[d] = size[d] /\ stored'[d] = stored[d],
         \A k \in Conns : k[1] # c =>
            /\ at'[k] = at[k] /\ place'[k] = place[k] /\ request'[k] = request[k]
            /\ inbox'[k] = inbox[k] /\ (k \in reset' <=> k \in reset),
         Choice(c)',
         \A k \in Conns, p \in Children, n \in Names : Flow(c, k, p, n)'
  PROVE  (\A d \in Children : Choice(d))' /\ Flows'
<1>1. \A p \in Children, n \in Names : Excuse(p, n) => Excuse(p, n)'
  BY DEF Excuse, Changed, Dead
<1>2. ASSUME NEW d \in Children, d # c PROVE Choice(d)'
  <2>1. /\ dpc'[d] = dpc[d] /\ gets'[d] = gets[d] /\ want'[d] = want[d] /\ dest'[d] = dest[d]
        /\ peer'[d] = peer[d] /\ size'[d] = size[d] /\ stored'[d] = stored[d] /\ Choice(d)
    BY <1>2 DEF IInv
  <2>2. QED BY <1>1, <2>1 DEF Choice
<1>3. ASSUME NEW d \in Children, NEW k \in Conns, NEW p \in Children, NEW n \in Names, d # c
      PROVE  Flow(d, k, p, n)'
  <2>1. /\ dpc'[d] = dpc[d] /\ gets'[d] = gets[d] /\ want'[d] = want[d] /\ peer'[d] = peer[d]
        /\ stored'[d] = stored[d] /\ Flow(d, k, p, n)
    BY <1>3 DEF IInv, Flows
  <2>2. SUFFICES ASSUME dpc'[d] = "receive", peer'[d] = p, want'[d] = n, k = <<d, gets'[d]>>, ~Excuse(p, n)',
                        k \notin cut'
                 PROVE  OnItsWay(d, k, p, n)'
    BY DEF Flow
  <2>3. OnItsWay(d, k, p, n) /\ k[1] # c
    BY <1>1, <1>3, <2>1, <2>2 DEF Flow
  <2>4. /\ at'[k] = at[k] /\ place'[k] = place[k] /\ request'[k] = request[k]
        /\ inbox'[k] = inbox[k] /\ (k \in reset' <=> k \in reset)
    BY <2>3
  <2>5. place'[k] \in {"backlog", "slot", "forgotten"} /\ k \notin reset'
    BY <2>3, <2>4 DEF OnItsWay
  <2>6. QED BY <2>1, <2>3, <2>4, <2>5, WayStays
<1>4. QED BY <1>2, <1>3 DEF Flows

(* FILE_INFO is acknowledged.                                              *)
LEMMA RegisterStep ==
  ASSUME IInv, NEW c \in Children, Register(c)
  PROVE  IInv'
<1>1. /\ dpc[c] = "register" /\ dpc' = [dpc EXCEPT ![c] = "registered"]
      /\ UNCHANGED <<gets, want, dest, peer, size, stored, last, cut, download, from, serverVars, fileVars, netVars>>
  BY DEF Register
<1>2. dpc'[c] = "registered" /\ \A d \in Children : d # c => dpc'[d] = dpc[d]
  BY <1>1 DEF IInv, Types, MainTypes
<1>3. Types'
  BY <1>1 DEF IInv, Types, MainTypes, ServerTypes, NetTypes, serverVars, fileVars, netVars
<1>4. Fresh'
  <2>1. \A k \in Conns : k[1] \in Children /\ (dpc'[k[1]] = "connect" => dpc[k[1]] = "connect")
    BY <1>2, ConnIs
  <2>2. \A k \in Conns : Unused(k) => Unused(k)'
    BY <1>1 DEF Unused, serverVars, netVars
  <2>3. QED BY <1>1, <2>1, <2>2 DEF IInv, Fresh
<1>5. Threads'
  <2>1. \A q \in Children : dpc'[q] \in {"register", "registered"} => dpc[q] \in {"register", "registered"}
    BY <1>1, <1>2
  <2>2. QED BY <1>1, <2>1 DEF IInv, Threads, Changed, serverVars, fileVars, netVars
<1>6. Choice(c)' /\ \A k \in Conns, p \in Children, n \in Names : Flow(c, k, p, n)'
  BY <1>2 DEF Choice, Flow, Busy
<1>7. (\A d \in Children : Choice(d))' /\ Flows'
  BY <1>1, <1>2, <1>6, OthersStay DEF serverVars, fileVars, netVars
<1>8. DownloadRight'
  BY <1>1, <1>2, DownloadStays DEF IInv, Types, MainTypes, fileVars
<1>9. QED BY <1>3, <1>4, <1>5, <1>7, <1>8 DEF IInv

(* pthread_create.                                                         *)
LEMMA CreateThreadStep ==
  ASSUME IInv, NEW c \in Children, CreateThread(c)
  PROVE  IInv'
<1>1. /\ dpc[c] = "registered" /\ dpc' = [dpc EXCEPT ![c] = "prompt"] /\ lpc' = [lpc EXCEPT ![c] = "starting"]
      /\ UNCHANGED <<gets, want, dest, peer, size, stored, last, cut, download, from, serving, rest, fileVars, netVars>>
  BY DEF CreateThread
<1>2. /\ dpc'[c] = "prompt" /\ lpc'[c] = "starting"
      /\ \A d \in Children : d # c => dpc'[d] = dpc[d] /\ lpc'[d] = lpc[d]
  BY <1>1 DEF IInv, Types, MainTypes, ServerTypes
<1>3. Types'
  BY <1>1 DEF IInv, Types, MainTypes, ServerTypes, NetTypes, fileVars, netVars
<1>4. Fresh'
  <2>1. \A k \in Conns : k[1] \in Children /\ (dpc'[k[1]] = "connect" => dpc[k[1]] = "connect")
    BY <1>2, ConnIs
  <2>2. \A k \in Conns : Unused(k) => Unused(k)'
    BY <1>1 DEF Unused, netVars
  <2>3. QED BY <1>1, <2>1, <2>2 DEF IInv, Fresh
<1>5. Threads'
  <2>1. ASSUME NEW q \in Children
        PROVE  /\ dpc'[q] \in {"register", "registered"} => lpc'[q] = "down"
               /\ lpc'[q] \in {"down", "starting", "select"} => serving[q] = NoConn
               /\ lpc'[q] = "send" => serving[q] \in Conns
    <3>1. CASE q = c
      BY <1>1, <1>2, <3>1 DEF IInv, Threads
    <3>2. CASE q # c
      BY <1>2, <3>2 DEF IInv, Threads
    <3>3. QED BY <3>1, <3>2
  <2>2. QED BY <1>1, <2>1 DEF IInv, Threads, Changed, fileVars, netVars
<1>6. Choice(c)' /\ \A k \in Conns, p \in Children, n \in Names : Flow(c, k, p, n)'
  BY <1>2 DEF Choice, Flow, Busy
<1>7. (\A d \in Children : Choice(d))' /\ Flows'
  BY <1>1, <1>2, <1>6, OthersStay DEF fileVars, netVars
<1>8. DownloadRight'
  BY <1>1, <1>2, DownloadStays DEF IInv, Types, MainTypes, fileVars
<1>9. QED BY <1>3, <1>4, <1>5, <1>7, <1>8 DEF IInv

(* A command is entered.                                                   *)
LEMMA GetStep ==
  ASSUME IInv, NEW c \in Children, Get(c)
  PROVE  IInv'
<1>1. /\ dpc[c] = "prompt" /\ gets[c] < Gets[c] /\ dpc' = [dpc EXCEPT ![c] = "connect"]
      /\ gets' = [gets EXCEPT ![c] = @ + 1]
      /\ UNCHANGED <<stored, last, cut, download, from, serverVars, fileVars, netVars>>
  BY DEF Get
<1>2. PICK n \in Names, m \in Names, p \in Children, e \in Dests :
         /\ want' = [want EXCEPT ![c] = n] /\ dest' = [dest EXCEPT ![c] = e]
         /\ peer' = [peer EXCEPT ![c] = p] /\ size' = [size EXCEPT ![c] = SizeOf(Data[p][m])]
  BY DEF Get
<1>3. gets[c] \in Nat /\ Gets[c] \in Nat /\ \A d \in Children : gets[d] \in Nat
  BY DownloadAssumption DEF IInv, Types, MainTypes
<1>4. /\ dpc'[c] = "connect" /\ gets'[c] = gets[c] + 1 /\ want'[c] = n /\ dest'[c] = e
      /\ peer'[c] = p
      /\ \A d \in Children : d # c =>
            /\ dpc'[d] = dpc[d] /\ gets'[d] = gets[d] /\ want'[d] = want[d] /\ dest'[d] = dest[d]
            /\ peer'[d] = peer[d] /\ size'[d] = size[d]
  BY <1>1, <1>2 DEF IInv, Types, MainTypes
<1>5. SizeOf(Data[p][m]) \in Nat
  <2>1. Data[p][m] \in Contents
    BY DownloadAssumption, FileContents
  <2>2. Len(Data[p][m]) \in Nat
    BY <2>1, LenProperties DEF Contents
  <2>3. QED BY <2>2 DEF SizeOf, DirSize
<1>6. Types'
  <2>1. MainTypes'
    <3>1. /\ dpc' \in [Children -> {"register", "registered", "prompt", "connect", "receive", "store",
                                    "corrupt", "dead"}]
          /\ gets' \in [Children -> Nat]
          /\ want' \in [Children -> Names \cup {None}] /\ peer' \in [Children -> Children \cup {None}]
          /\ dest' \in [Children -> Dests \cup {None}] /\ size' \in [Children -> Nat]
      BY <1>1, <1>2, <1>3, <1>5 DEF IInv, Types, MainTypes
    <3>2. \A d \in Children : gets'[d] <= Gets[d]
      BY <1>1, <1>3, <1>4 DEF IInv, Types, MainTypes
    <3>3. \A d \in Children : dpc'[d] \in {"receive", "store"} => Len(stored[d]) <= size'[d]
      BY <1>4 DEF IInv, Types, MainTypes
    <3>4. QED BY <1>1, <3>1, <3>2, <3>3 DEF IInv, Types, MainTypes
  <2>2. QED BY <1>1, <2>1 DEF IInv, Types, ServerTypes, NetTypes, serverVars, fileVars, netVars
<1>7. Fresh'
  <2>1. ASSUME NEW k \in Conns, k[2] > gets'[k[1]] \/ (k[2] = gets'[k[1]] /\ dpc'[k[1]] = "connect")
        PROVE  Unused(k)
    <3>1. PICK d \in Children, i \in Nat : d = k[1] /\ i = k[2]
      <4>1. k[1] \in Children /\ k[2] \in 1 .. Gets[k[1]] /\ Gets[k[1]] \in Nat
        BY ConnIs, DownloadAssumption
      <4>2. QED BY <4>1
    <3>2. CASE d = c
      <4>1. i > gets[d]
        BY <1>3, <1>4, <2>1, <3>1, <3>2
      <4>2. QED BY <3>1, <4>1 DEF IInv, Fresh
    <3>3. CASE d # c
      BY <1>4, <2>1, <3>1, <3>3 DEF IInv, Fresh
    <3>4. QED BY <3>2, <3>3
  <2>2. \A k \in Conns : Unused(k) => Unused(k)'
    BY <1>1 DEF Unused, serverVars, netVars
  <2>3. QED BY <2>1, <2>2 DEF Fresh
<1>8. Threads'
  <2>1. \A q \in Children : dpc'[q] \in {"register", "registered"} => dpc[q] \in {"register", "registered"}
    BY <1>4
  <2>2. QED BY <1>1, <2>1 DEF IInv, Threads, Changed, serverVars, fileVars, netVars
<1>9. Choice(c)'
  <2>1. gets'[c] # 0
    BY <1>3, <1>4
  <2>2. QED BY <1>2, <1>4, <2>1 DEF Choice
<1>10. \A k \in Conns, q \in Children, x \in Names : Flow(c, k, q, x)'
  BY <1>4 DEF Flow
<1>11. (\A d \in Children : Choice(d))' /\ Flows'
  BY <1>1, <1>4, <1>9, <1>10, OthersStay DEF serverVars, fileVars, netVars
<1>12. DownloadRight'
  BY <1>1, <1>4, DownloadStays DEF IInv, Types, MainTypes, fileVars
<1>13. QED BY <1>6, <1>7, <1>8, <1>11, <1>12 DEF IInv

(* connect and FILE_REQ.                                                   *)
LEMMA ConnectPeerStep ==
  ASSUME IInv, NEW c \in Children, ConnectPeer(c)
  PROVE  IInv'
<1>1. /\ dpc[c] = "connect" /\ stored' = [stored EXCEPT ![c] = <<>>] /\ last' = [last EXCEPT ![c] = NoPacket]
      /\ UNCHANGED <<gets, want, dest, peer, size, cut, download, from, serverVars, fileVars, inbox, reset>>
  BY DEF ConnectPeer
<1>2. PICK p, n, k : p = peer[c] /\ n = want[c] /\ k = <<c, gets[c]>>
  OBVIOUS
<1>3. p \in Children /\ n \in Names /\ k \in Conns /\ Choice(c)
  <2>1. Choice(c) /\ dpc[c] \in Busy
    BY <1>1 DEF IInv, Busy
  <2>2. p \in Children /\ n \in Names /\ gets[c] # 0
    BY <1>2, <2>1 DEF Choice
  <2>3. QED BY <1>2, <2>1, <2>2, CurrentConn DEF IInv, Conn
<1>4. Unused(k)
  <2>1. k[1] = c /\ k[2] = gets[c]
    BY <1>2
  <2>2. QED BY <1>1, <1>3, <2>1 DEF IInv, Fresh
<1>5. PICK w \in {"receive", "prompt"} :
         /\ dpc' = [dpc EXCEPT ![c] = w]
         /\ \/ /\ w = "receive" /\ backlog' = [backlog EXCEPT ![p] = Append(@, k)]
               /\ place' = [place EXCEPT ![k] = "backlog"] /\ at' = [at EXCEPT ![k] = p]
               /\ request' = [request EXCEPT ![k] = n]
            \/ w = "prompt" /\ UNCHANGED <<backlog, place, at, request>>
  BY <1>2 DEF ConnectPeer, Conn
<1>6. /\ dpc'[c] = w /\ stored'[c] = <<>>
      /\ \A d \in Children : d # c => dpc'[d] = dpc[d] /\ stored'[d] = stored[d]
  BY <1>1, <1>5 DEF IInv, Types, MainTypes
<1>7. \A j \in Conns : j # k => at'[j] = at[j] /\ place'[j] = place[j] /\ request'[j] = request[j]
  BY <1>5 DEF IInv, Types, NetTypes
<1>8. MainTypes'
  <2>1. <<>> \in Contents /\ NoPacket \in Packets
    BY FileContents, PacketsWritten
  <2>2. Len(<<>>) = 0 /\ \A d \in Children : size[d] \in Nat
    BY DEF IInv, Types, MainTypes
  <2>3. \A d \in Children : dpc'[d] \in {"receive", "store"} => Len(stored'[d]) <= size[d]
    <3>1. \A d \in Children : dpc[d] \in {"receive", "store"} => Len(stored[d]) <= size[d]
      BY DEF IInv, Types, MainTypes
    <3>2. ASSUME NEW d \in Children, dpc'[d] \in {"receive", "store"} PROVE Len(stored'[d]) <= size[d]
      <4>1. CASE d = c
        BY <1>6, <2>2, <4>1
      <4>2. CASE d # c
        BY <1>6, <3>1, <3>2, <4>2
      <4>3. QED BY <4>1, <4>2
    <3>3. QED BY <3>2
  <2>4. stored' \in [Children -> Contents] /\ last' \in [Children -> Packets]
    BY <1>1, <2>1 DEF IInv, Types, MainTypes
  <2>5. dpc' \in [Children -> {"register", "registered", "prompt", "connect", "receive", "store",
                               "corrupt", "dead"}]
    BY <1>5 DEF IInv, Types, MainTypes
  <2>6. QED BY <1>1, <2>3, <2>4, <2>5 DEF IInv, Types, MainTypes
<1>9. ServerTypes'
  BY <1>1 DEF IInv, Types, ServerTypes, serverVars, fileVars
<1>10. NetTypes' /\ \A q \in Children, i \in Nat : i \in 1 .. Len(backlog'[q]) => at'[backlog'[q][i]] = q
  <2>1. CASE w = "prompt"
    BY <1>1, <1>5, <2>1 DEF IInv, Types, NetTypes, Threads
  <2>2. CASE w = "receive"
    <3>1. /\ backlog' = [backlog EXCEPT ![p] = Append(@, k)]
          /\ place' = [place EXCEPT ![k] = "backlog"] /\ at' = [at EXCEPT ![k] = p]
          /\ request' = [request EXCEPT ![k] = n]
      BY <1>5, <2>2
    <3>2. backlog[p] \in Seq(Conns)
      BY <1>3 DEF IInv, Types, NetTypes
    <3>3. /\ Append(backlog[p], k) \in Seq(Conns) /\ Len(Append(backlog[p], k)) = Len(backlog[p]) + 1
          /\ \A i \in 1 .. Len(backlog[p]) : Append(backlog[p], k)[i] = backlog[p][i]
          /\ Append(backlog[p], k)[Len(backlog[p]) + 1] = k /\ Len(backlog[p]) \in Nat
      BY <1>3, <3>2, AppendProperties, LenProperties
    <3>4. NetTypes'
      BY <1>1, <1>3, <3>1, <3>3 DEF IInv, Types, NetTypes
    <3>5. at'[k] = p
      BY <1>3, <3>1 DEF IInv, Types, NetTypes
    <3>6. ASSUME NEW q \in Children, NEW i \in Nat, i \in 1 .. Len(backlog[q])
          PROVE  at'[backlog[q][i]] = q
      <4>1. backlog[q][i] \in Conns /\ at[backlog[q][i]] = q /\ q # None
        BY <3>6, ElementOfSeq, DownloadAssumption DEF IInv, Types, NetTypes, Threads
      <4>2. backlog[q][i] # k
        BY <1>4, <4>1 DEF Unused
      <4>3. QED BY <1>7, <4>1, <4>2
    <3>7. ASSUME NEW q \in Children, NEW i \in Nat, i \in 1 .. Len(backlog'[q])
          PROVE  at'[backlog'[q][i]] = q
      <4>1. CASE q = p
        <5>1. backlog'[q] = Append(backlog[p], k)
          BY <1>3, <3>1, <4>1 DEF IInv, Types, NetTypes
        <5>2. CASE i = Len(backlog[p]) + 1
          BY <3>3, <3>5, <4>1, <5>1, <5>2
        <5>3. CASE i # Len(backlog[p]) + 1
          <6>1. i \in 1 .. Len(backlog[p])
            BY <3>3, <3>7, <5>1, <5>3
          <6>2. backlog'[q][i] = backlog[p][i]
            BY <3>3, <5>1, <6>1
          <6>3. QED BY <1>3, <3>6, <4>1, <6>1, <6>2
        <5>4. QED BY <5>2, <5>3
      <4>2. CASE q # p
        <5>1. backlog'[q] = backlog[q]
          BY <3>1, <4>2 DEF IInv, Types, NetTypes
        <5>2. QED BY <3>6, <3>7, <5>1
      <4>3. QED BY <4>1, <4>2
    <3>8. QED BY <3>4, <3>7
  <2>3. QED BY <2>1, <2>2
<1>11. Fresh'
  <2>1. ASSUME NEW j \in Conns, j[2] > gets[j[1]] \/ (j[2] = gets[j[1]] /\ dpc'[j[1]] = "connect")
        PROVE  Unused(j)'
    <3>1. j[1] \in Children /\ gets[c] \in Nat
      BY ConnIs DEF IInv, Types, MainTypes
    <3>2. j # k
      <4>1. k[1] = c /\ k[2] = gets[c] /\ dpc'[c] # "connect" /\ ~(gets[c] > gets[c])
        BY <1>2, <1>5, <1>6, <3>1
      <4>2. QED BY <2>1, <4>1
    <3>3. dpc'[j[1]] = "connect" => dpc[j[1]] = "connect"
      BY <1>5, <1>6, <3>1
    <3>4. Unused(j)
      BY <2>1, <3>3 DEF IInv, Fresh
    <3>5. QED BY <1>1, <1>7, <3>2, <3>4 DEF Unused, serverVars
  <2>2. QED BY <1>1, <2>1 DEF Fresh
<1>12. Threads'
  <2>1. \A q \in Children : dpc'[q] \in {"register", "registered"} => dpc[q] \in {"register", "registered"}
    BY <1>5, <1>6
  <2>2. ASSUME NEW q \in Children, serving[q] \in Conns PROVE at'[serving[q]] = q
    <3>1. serving[q] # k /\ at[serving[q]] = q
      BY <1>4, <2>2 DEF Unused, IInv, Threads
    <3>2. QED BY <1>7, <2>2, <3>1
  <2>3. QED BY <1>1, <1>10, <2>1, <2>2 DEF IInv, Threads, Changed, serverVars, fileVars
<1>13. Choice(c)'
  BY <1>1, <1>3, <1>5, <1>6 DEF Choice, IInv, Busy
<1>14. ASSUME NEW j \in Conns, NEW q \in Children, NEW m \in Names PROVE Flow(c, j, q, m)'
  <2>1. SUFFICES ASSUME dpc'[c] = "receive", peer'[c] = q, want'[c] = m, j = <<c, gets'[c]>>
                 PROVE  OnItsWay(c, j, q, m)'
    BY DEF Flow
  <2>2. q = p /\ m = n /\ j = k /\ w = "receive"
    BY <1>1, <1>2, <1>6, <2>1
  <2>3. at'[k] = p /\ place'[k] = "backlog" /\ request'[k] = n
    BY <1>3, <1>5, <2>2 DEF IInv, Types, NetTypes
  <2>4. inbox'[k] = <<>> /\ serving'[p] # k /\ k \notin reset'
    BY <1>1, <1>3, <1>4 DEF Unused, serverVars
  <2>5. Asked(c, j, q, m)'
    BY <1>6, <2>2, <2>3, <2>4 DEF Asked
  <2>6. QED BY <2>2, <2>3, <2>4, <2>5 DEF OnItsWay
<1>15. (\A d \in Children : Choice(d))' /\ Flows'
  <2>1. k[1] = c
    BY <1>2
  <2>2. \A j \in Conns : j[1] # c => at'[j] = at[j] /\ place'[j] = place[j] /\ request'[j] = request[j]
    BY <1>7, <2>1
  <2>3. QED BY <1>1, <1>6, <1>13, <1>14, <2>2, OthersStay DEF serverVars, fileVars
<1>16. DownloadRight'
  BY <1>1, <1>6, DownloadStays DEF IInv, Types, MainTypes, fileVars
<1>17. QED BY <1>8, <1>9, <1>10, <1>11, <1>12, <1>15, <1>16 DEF IInv, Types

(* What taking a packet does, whichever it is.                             *)
LEMMA TakeDoes ==
  ASSUME IInv, NEW c \in Children, dpc[c] = "receive", NEW pkt \in Packets, Take(c, pkt)
  PROVE  \E s \in Contents, w \in {"receive", "store", "corrupt", "prompt"}, l \in {lpc[c], "corrupt"} :
            /\ stored' = [stored EXCEPT ![c] = s] /\ dpc' = [dpc EXCEPT ![c] = w]
            /\ lpc' = [lpc EXCEPT ![c] = l] /\ (l # lpc[c] => w = "corrupt")
            /\ w \in {"receive", "store"} => s = stored[c] \o pkt.data /\ Len(s) <= size[c]
            /\ w \in {"receive", "store"} => pkt.type = "FILE_RES_SUCCESS" /\ ~TooMuch(c, pkt)
            /\ w = "store" => Len(s) = size[c]
            /\ w = "corrupt" => pkt.type = "FILE_RES_SUCCESS" /\ TooMuch(c, pkt)
<1>1. stored[c] \in Contents /\ pkt.data \in Contents /\ size[c] \in Nat
  BY DEF IInv, Types, MainTypes, Packets
<1>2. PICK s : s = stored[c] \o pkt.data
  OBVIOUS
<1>3. /\ s \in Contents /\ Len(s) = Len(stored[c]) + Len(pkt.data) /\ Len(s) \in Nat
      /\ Len(stored[c]) \in Nat /\ Len(pkt.data) \in Nat
  BY <1>1, <1>2, ConcatProperties, LenProperties DEF Contents
<1>4. stored = [stored EXCEPT ![c] = stored[c]] /\ lpc = [lpc EXCEPT ![c] = lpc[c]]
  BY DEF IInv, Types, MainTypes, ServerTypes
<1>5. CASE pkt.type = "FILE_RES_SUCCESS" /\ ~TooMuch(c, pkt)
  <2>1. stored' = [stored EXCEPT ![c] = s] /\ lpc' = lpc
    BY <1>2, <1>5 DEF Take
  <2>2. stored'[c] = s
    BY <2>1 DEF IInv, Types, MainTypes
  <2>3. dpc' = [dpc EXCEPT ![c] = IF Len(s) = size[c] THEN "store" ELSE "receive"]
    BY <1>5, <2>2 DEF Take
  <2>4. Len(s) <= size[c]
    <3>1. ~(Len(stored[c]) + Len(pkt.data) > size[c])
      BY <1>5 DEF TooMuch
    <3>2. PICK a \in Nat, b \in Nat, z \in Nat : a = Len(stored[c]) /\ b = Len(pkt.data) /\ z = size[c]
      BY <1>1, <1>3
    <3>3. ~(a + b > z) /\ Len(s) = a + b
      BY <1>3, <3>1, <3>2
    <3>4. a + b <= z
      BY <3>3
    <3>5. QED BY <3>2, <3>3, <3>4
  <2>5. PICK w \in {"receive", "store"} : dpc' = [dpc EXCEPT ![c] = w] /\ (w = "store" => Len(s) = size[c])
    BY <2>3
  <2>6. QED BY <1>2, <1>3, <1>4, <1>5, <2>1, <2>4, <2>5
<1>6. CASE pkt.type = "FILE_RES_SUCCESS" /\ TooMuch(c, pkt)
  <2>1. stored' = stored /\ dpc' = [dpc EXCEPT ![c] = "corrupt"] /\ lpc' = [lpc EXCEPT ![c] = "corrupt"]
    BY <1>6 DEF Take
  <2>2. QED BY <1>1, <1>4, <1>6, <2>1
<1>7. CASE pkt.type # "FILE_RES_SUCCESS"
  <2>1. stored' = stored /\ dpc' = [dpc EXCEPT ![c] = "prompt"] /\ lpc' = lpc
    BY <1>7 DEF Take
  <2>2. QED BY <1>1, <1>4, <2>1
<1>8. QED BY <1>5, <1>6, <1>7

(* A step with which a child leaves or goes on in the loop in which it     *)
(* receives is right, if what it reads is what was on its way.             *)
LEMMA ReceiveStep ==
  ASSUME IInv, NEW c \in Children, dpc[c] = "receive",
         NEW s \in Contents, NEW w \in {"receive", "store", "corrupt", "prompt"}, NEW l \in {lpc[c], "corrupt"},
         stored' = [stored EXCEPT ![c] = s], dpc' = [dpc EXCEPT ![c] = w], lpc' = [lpc EXCEPT ![c] = l],
         w \in {"receive", "store"} => Len(s) <= size[c], l # lpc[c] => w = "corrupt",
         last' \in [Children -> Packets], inbox' \in [Conns -> Seq(Packets)],
         \A k \in Conns : Len(inbox'[k]) <= SockBuf /\ (k # <<c, gets[c]>> => inbox'[k] = inbox[k]),
         cut \subseteq cut', cut' \subseteq Conns,
         UNCHANGED <<gets, want, dest, peer, size, download, from, serving, rest, fileVars, backlog, place, at, request, reset>>,
         \A p \in Children, n \in Names, k \in Conns :
            /\ peer[c] = p /\ want[c] = n /\ k = <<c, gets[c]>> /\ ~Excuse(p, n) /\ k \notin cut'
            /\ OnItsWay(c, k, p, n)
            => /\ w = "receive" => OnItsWay(c, k, p, n)'
               /\ w = "store" => Begun(p, n, s, size[c])
               /\ w = "corrupt" => Overfull(p, n, size[c])
  PROVE  IInv'
<1>1. /\ dpc'[c] = w /\ stored'[c] = s /\ lpc'[c] = l
      /\ \A d \in Children : d # c => dpc'[d] = dpc[d] /\ stored'[d] = stored[d] /\ lpc'[d] = lpc[d]
  BY DEF IInv, Types, MainTypes, ServerTypes
<1>2. PICK p, n, k : p = peer[c] /\ n = want[c] /\ k = <<c, gets[c]>>
  OBVIOUS
<1>3. p \in Children /\ n \in Names /\ k \in Conns
  <2>1. Choice(c) /\ dpc[c] \in Busy
    BY DEF IInv, Busy
  <2>2. p \in Children /\ n \in Names /\ gets[c] # 0
    BY <1>2, <2>1 DEF Choice
  <2>3. QED BY <1>2, <2>2, CurrentConn DEF IInv, Conn
<1>4. Types'
  <2>1. MainTypes'
    <3>1. \A d \in Children : dpc'[d] \in {"receive", "store"} => Len(stored'[d]) <= size[d]
      BY <1>1 DEF IInv, Types, MainTypes
    <3>2. stored' \in [Children -> Contents]
      BY DEF IInv, Types, MainTypes
    <3>3. dpc' \in [Children -> {"register", "registered", "prompt", "connect", "receive", "store",
                                 "corrupt", "dead"}]
      BY DEF IInv, Types, MainTypes
    <3>4. QED BY <3>1, <3>2, <3>3 DEF IInv, Types, MainTypes
  <2>2. ServerTypes'
    <3>1. l \in {"down", "starting", "select", "send", "corrupt", "dead"}
      BY DEF IInv, Types, ServerTypes
    <3>2. QED BY <3>1 DEF IInv, Types, ServerTypes, fileVars
  <2>3. NetTypes'
    BY DEF IInv, Types, NetTypes
  <2>4. QED BY <2>1, <2>2, <2>3 DEF Types
<1>5. Fresh'
  <2>1. ASSUME NEW j \in Conns, j[2] > gets[j[1]] \/ (j[2] = gets[j[1]] /\ dpc'[j[1]] = "connect")
        PROVE  Unused(j)'
    <3>1. j[1] \in Children /\ gets[c] \in Nat
      BY ConnIs DEF IInv, Types, MainTypes
    <3>2. j # k
      <4>1. k[1] = c /\ k[2] = gets[c] /\ dpc'[c] # "connect" /\ ~(gets[c] > gets[c])
        BY <1>1, <1>2, <3>1
      <4>2. QED BY <2>1, <4>1
    <3>3. dpc'[j[1]] = "connect" => dpc[j[1]] = "connect"
      BY <1>1, <3>1
    <3>4. Unused(j)
      BY <2>1, <3>3 DEF IInv, Fresh
    <3>5. inbox'[j] = inbox[j]
      BY <1>2, <3>2
    <3>6. QED BY <3>4, <3>5 DEF Unused
  <2>2. QED BY <2>1 DEF Fresh
<1>6. Threads'
  <2>1. ASSUME NEW q \in Children
        PROVE  /\ dpc'[q] \in {"register", "registered"} => lpc'[q] = "down"
               /\ lpc'[q] \in {"down", "starting", "select"} => serving[q] = NoConn
               /\ lpc'[q] = "send" => serving[q] \in Conns
    <3>1. CASE q = c
      BY <1>1, <3>1 DEF IInv, Threads
    <3>2. CASE q # c
      BY <1>1, <3>2 DEF IInv, Threads
    <3>3. QED BY <3>1, <3>2
  <2>2. QED BY <2>1 DEF IInv, Threads, Changed, fileVars
<1>7. Excuse(p, n) => Excuse(p, n)'
  BY <1>1, <1>3 DEF Excuse, Changed, Dead, fileVars
<1>8. ~Excuse(p, n) /\ k \notin cut => OnItsWay(c, k, p, n)
  BY <1>2, <1>3 DEF IInv, Flows, Flow
<1>9. ~Excuse(p, n) /\ k \notin cut' =>
         (/\ w = "receive" => OnItsWay(c, k, p, n)'
          /\ w = "store" => Begun(p, n, s, size[c])
          /\ w = "corrupt" => Overfull(p, n, size[c]))
  BY <1>2, <1>3, <1>8
<1>10. Choice(c)'
  <2>1. Choice(c) /\ gets[c] # 0 /\ dest[c] \in Dests
    BY DEF IInv, Choice, Busy
  <2>2. peer'[c] = p /\ want'[c] = n
    BY <1>2
  <2>3. dpc'[c] = "store" => Excuse(p, n)' \/ k \in cut' \/ Begun(p, n, stored'[c], size[c])
    BY <1>1, <1>7, <1>9
  <2>4. dpc'[c] = "corrupt" => Excuse(p, n)' \/ k \in cut' \/ Overfull(p, n, size[c])
    BY <1>1, <1>7, <1>9
  <2>5. QED BY <1>2, <1>3, <2>1, <2>2, <2>3, <2>4 DEF Choice, IInv, Busy, Begun, Overfull
<1>11. ASSUME NEW j \in Conns, NEW q \in Children, NEW m \in Names PROVE Flow(c, j, q, m)'
  <2>1. SUFFICES ASSUME dpc'[c] = "receive", peer'[c] = q, want'[c] = m, j = <<c, gets'[c]>>, ~Excuse(q, m)', j \notin cut'
                 PROVE  OnItsWay(c, j, q, m)'
    BY DEF Flow
  <2>2. q = p /\ m = n /\ j = k /\ w = "receive"
    BY <1>1, <1>2, <2>1
  <2>3. QED BY <1>7, <1>9, <2>1, <2>2
<1>12. (\A d \in Children : Choice(d))' /\ Flows'
  <2>1. \A j \in Conns : j[1] # c => inbox'[j] = inbox[j]
    BY <1>2
  <2>2. QED BY <1>1, <1>10, <1>11, <2>1, OthersStay DEF fileVars
<1>13. DownloadRight'
  BY <1>1, DownloadStays DEF IInv, Types, MainTypes, fileVars
<1>14. QED BY <1>4, <1>5, <1>6, <1>12, <1>13 DEF IInv

(* What one read may return has its types.                                 *)
LEMMA ReadsAre ==
  ASSUME NetTypes, NEW c \in Children, Conn(c) \in Conns, inbox[Conn(c)] # <<>>, NEW r \in Reads(c)
  PROVE  /\ r.packet \in Packets /\ r.left \in Seq(Packets)
         /\ Len(r.left) \in Nat /\ Len(r.left) <= Len(inbox[Conn(c)])
         /\ r.whole => /\ r.left = Tail(inbox[Conn(c)])
                       /\ \/ r.packet = Head(inbox[Conn(c)])
                          \/ Head(inbox[Conn(c)]) = BadSize /\ r.packet = NoPacket
<1>1. PICK q : q = inbox[Conn(c)]
  OBVIOUS
<1>2. /\ q \in Seq(Packets) /\ q # <<>> /\ Len(q) \in Nat /\ Len(q) # 0
      /\ Head(q) \in Packets /\ Tail(q) \in Seq(Packets) /\ Len(Tail(q)) = Len(q) - 1
  BY <1>1, HeadTailProperties, LenProperties, EmptySeq DEF NetTypes
<1>3. \A t \in Seq(Packets) : <<Rest>> \o t \in Seq(Packets) /\ Len(<<Rest>> \o t) = 1 + Len(t)
  <2>1. <<Rest>> \in Seq(Packets) /\ Len(<<Rest>>) = 1
    BY PacketsWritten
  <2>2. QED BY <2>1, ConcatProperties
<1>4. CASE r \in Remainder(q)
  <2>1. PICK p \in Garbled, l \in {Tail(q), <<Rest>> \o Tail(Tail(q))} :
           (l # Tail(q) => Len(q) # 1) /\ r = [packet |-> p, left |-> l, whole |-> FALSE]
    BY <1>4 DEF Remainder
  <2>2. p \in Packets
    <3>1. \A n \in 0 .. PACKET : Success(Noise(n)) \in Packets
      BY NoiseContents, PacketsWritten, DownloadAssumption
    <3>2. QED BY <3>1, PacketsWritten DEF Garbled
  <2>3. l \in Seq(Packets) /\ Len(l) \in Nat /\ Len(l) <= Len(q)
    <3>1. CASE l = Tail(q)
      BY <1>2, <3>1
    <3>2. CASE Len(q) # 1 /\ l = <<Rest>> \o Tail(Tail(q))
      <4>1. Tail(q) # <<>>
        <5>1. Len(Tail(q)) # 0 /\ Len(<<>>) = 0
          BY <1>2, <3>2
        <5>2. QED BY <5>1
      <4>2. Tail(Tail(q)) \in Seq(Packets) /\ Len(Tail(Tail(q))) = Len(Tail(q)) - 1
        BY <1>2, <4>1, HeadTailProperties
      <4>3. QED BY <1>2, <1>3, <3>2, <4>2
    <3>3. QED BY <2>1, <3>1, <3>2
  <2>4. QED BY <1>1, <2>1, <2>2, <2>3
<1>5. CASE r \in Beginning(q) /\ IsData(Head(q))
  <2>1. r = [packet |-> Success(Noise(Len(Head(q).data))), left |-> <<Rest>> \o Tail(q), whole |-> FALSE]
    BY <1>5 DEF Beginning
  <2>2. Head(q).data \in Contents
    BY <1>2 DEF Packets
  <2>3. Len(Head(q).data) \in Nat
    BY <2>2, LenProperties DEF Contents
  <2>4. Success(Noise(Len(Head(q).data))) \in Packets
    BY <2>3, NoiseContents, PacketsWritten
  <2>5. <<Rest>> \o Tail(q) \in Seq(Packets) /\ Len(<<Rest>> \o Tail(q)) = Len(q)
    BY <1>2, <1>3
  <2>6. QED BY <1>1, <1>2, <2>1, <2>4, <2>5
<1>6. CASE r \in Whole(q)
  <2>1. PICK p \in IF Head(q) = BadSize THEN {BadSize, NoPacket} ELSE {Head(q)} :
           r = [packet |-> p, left |-> Tail(q), whole |-> TRUE]
    BY <1>6 DEF Whole
  <2>2. p = Head(q) \/ (Head(q) = BadSize /\ p = NoPacket)
    BY <2>1
  <2>3. p \in Packets
    BY <1>2, <2>2, PacketsWritten
  <2>4. QED BY <1>1, <1>2, <2>1, <2>2, <2>3
<1>7. r \in Remainder(q) \/ (r \in Beginning(q) /\ IsData(Head(q))) \/ r \in Whole(q)
  BY <1>1 DEF Reads
<1>8. QED BY <1>4, <1>5, <1>6, <1>7

(* read returns a packet, or what it takes for one: then the connection is *)
(* cut, and nothing is said of it any more.                                *)
LEMMA ReadPacketStep ==
  ASSUME IInv, NEW c \in Children, ReadPacket(c)
  PROVE  IInv'
<1>1. PICK k : k = <<c, gets[c]>> /\ k = Conn(c)
  BY DEF Conn
<1>2. PICK r \in Reads(c) :
         /\ last' = [last EXCEPT ![c] = r.packet] /\ inbox' = [inbox EXCEPT ![k] = r.left]
         /\ cut' = IF r.whole THEN cut ELSE cut \cup {k}
         /\ Take(c, r.packet)
  BY <1>1 DEF ReadPacket
<1>3. /\ dpc[c] = "receive" /\ inbox[k] # <<>>
      /\ UNCHANGED <<gets, want, dest, peer, size, download, from, serving, rest, fileVars, backlog, place, at, request, reset>>
  BY <1>1 DEF ReadPacket
<1>4. PICK pkt, left : pkt = r.packet /\ left = r.left
  OBVIOUS
<1>5. k \in Conns
  <2>1. gets[c] # 0
    BY <1>3 DEF IInv, Choice, Busy
  <2>2. QED BY <1>1, <2>1, CurrentConn DEF IInv
<1>6. inbox[k] \in Seq(Packets) /\ Len(inbox[k]) \in Nat /\ Len(inbox[k]) <= SockBuf
  BY <1>5, LenProperties DEF IInv, Types, NetTypes
<1>7. /\ pkt \in Packets /\ left \in Seq(Packets) /\ Len(left) \in Nat /\ Len(left) <= Len(inbox[k])
      /\ r.whole => left = Tail(inbox[k]) /\ (pkt = Head(inbox[k]) \/ (Head(inbox[k]) = BadSize /\ pkt = NoPacket))
  BY <1>1, <1>3, <1>4, <1>5, ReadsAre DEF IInv, Types
<1>8. /\ inbox' \in [Conns -> Seq(Packets)] /\ inbox'[k] = left /\ last' \in [Children -> Packets]
      /\ \A j \in Conns : j # k => inbox'[j] = inbox[j]
  BY <1>2, <1>4, <1>5, <1>7 DEF IInv, Types, MainTypes, NetTypes
<1>9. \A j \in Conns : Len(inbox'[j]) <= SockBuf
  <2>1. SockBuf \in Nat /\ Len(inbox'[k]) <= SockBuf
    BY <1>6, <1>7, <1>8, DownloadAssumption
  <2>2. QED BY <1>8, <2>1 DEF IInv, Types, NetTypes
<1>10. PICK s \in Contents, w \in {"receive", "store", "corrupt", "prompt"}, l \in {lpc[c], "corrupt"} :
          /\ stored' = [stored EXCEPT ![c] = s] /\ dpc' = [dpc EXCEPT ![c] = w]
          /\ lpc' = [lpc EXCEPT ![c] = l] /\ (l # lpc[c] => w = "corrupt")
          /\ w \in {"receive", "store"} => s = stored[c] \o pkt.data /\ Len(s) <= size[c]
          /\ w \in {"receive", "store"} => pkt.type = "FILE_RES_SUCCESS" /\ ~TooMuch(c, pkt)
          /\ w = "store" => Len(s) = size[c]
          /\ w = "corrupt" => pkt.type = "FILE_RES_SUCCESS" /\ TooMuch(c, pkt)
  BY <1>2, <1>3, <1>4, <1>7, TakeDoes
<1>11. cut \subseteq cut' /\ cut' \subseteq Conns /\ (k \notin cut' => r.whole)
  BY <1>2, <1>5 DEF IInv, Types, MainTypes
<1>12. ASSUME NEW p \in Children, NEW n \in Names, OnItsWay(c, k, p, n), k \notin cut'
       PROVE  /\ w = "receive" => OnItsWay(c, k, p, n)'
              /\ w = "store" => Begun(p, n, s, size[c])
              /\ w = "corrupt" => Overfull(p, n, size[c])
  <2>0. left = Tail(inbox[k]) /\ (pkt = Head(inbox[k]) \/ (Head(inbox[k]) = BadSize /\ pkt = NoPacket))
    BY <1>7, <1>11, <1>12
  <2>1. CASE Asked(c, k, p, n)
    BY <1>3, <2>1 DEF Asked
  <2>2. CASE Refused(c, k, p)
    <3>1. Head(inbox[k]) = Fail
      BY <2>2 DEF Refused
    <3>2. pkt.type # "FILE_RES_SUCCESS"
      BY <2>0, <3>1 DEF Fail, NoPacket
    <3>3. w = "prompt"
      BY <1>10, <3>2
    <3>4. QED BY <3>3
  <2>3. CASE Hung(c, k, p, n)
    <3>1. Head(inbox[k]) = inbox[k][1] /\ 1 \in 1 .. Len(inbox[k])
      BY <1>3, <1>6, EmptySeq
    <3>2. pkt \in {BadSize, NoPacket} /\ Data[p][n] = Unreadable
      BY <2>0, <2>3, <3>1 DEF Hung
    <3>3. TooMuch(c, BadSize) /\ NoPacket.type # "FILE_RES_SUCCESS"
      BY DEF TooMuch, NoPacket
    <3>30. w \notin {"receive", "store"}
      BY <1>10, <3>2, <3>3
    <3>4. QED BY <3>2, <3>30 DEF Overfull
  <2>4. CASE Sent(c, k, p, n)
    <3>1. PICK f : f = Data[p][n]
      OBVIOUS
    <3>2. f \in Seq(Units) /\ request[k] = None
      BY <2>4, <3>1 DEF Sent
    <3>3. PICK m \in 0 .. Len(f) :
             /\ Chain(f, stored[c], inbox[k], m)
             /\ serving[p] = k => rest[p] = Piece(f, m, Len(f))
      BY <2>4, <3>1 DEF Sent
    <3>4. PICK d \in Seq(Units) :
             /\ Head(inbox[k]) = Success(d) /\ Len(stored[c]) \in Nat /\ Len(stored[c]) + Len(d) <= Len(f)
             /\ Chain(f, stored[c] \o d, Tail(inbox[k]), m)
      BY <1>3, <1>6, <3>2, <3>3, ChainHead
    <3>5. f # Unreadable /\ f # Absent /\ Len(f) \in Nat /\ Len(d) \in Nat /\ SizeOf(f) = Len(f)
      BY <3>2, FileContents, LenProperties DEF SizeOf
    <3>6. Success(d) # BadSize /\ Success(d).data = d
      BY PacketsWritten DEF Success
    <3>7. pkt = Success(d)
      BY <2>0, <3>4, <3>6
    <3>8. w = "corrupt" => Overfull(p, n, size[c])
      <4>1. SUFFICES ASSUME w = "corrupt" PROVE Overfull(p, n, size[c])
        OBVIOUS
      <4>2. Len(stored[c]) + Len(d) > size[c]
        BY <1>10, <3>6, <3>7, <4>1 DEF TooMuch
      <4>3. size[c] \in Nat
        BY DEF IInv, Types, MainTypes
      <4>4. Len(f) > size[c]
        BY <3>4, <3>5, <4>2, <4>3
      <4>5. QED BY <3>1, <3>5, <4>4 DEF Overfull
    <3>9. w \in {"receive", "store"} => Chain(f, s, inbox'[k], m)
      BY <1>8, <1>10, <2>0, <3>4, <3>6, <3>7
    <3>10. w = "store" => Begun(p, n, s, size[c])
      <4>1. SUFFICES ASSUME w = "store" PROVE Begun(p, n, s, size[c])
        OBVIOUS
      <4>2. Len(s) = size[c] /\ Chain(f, s, inbox'[k], m) /\ Len(inbox'[k]) \in Nat
        BY <1>7, <1>8, <1>10, <3>9, <4>1
      <4>3. Len(s) <= Len(f) /\ s = SubSeq(f, 1, Len(s))
        BY <3>2, <4>2, ChainDone
      <4>4. QED BY <3>1, <3>2, <4>2, <4>3 DEF Begun
    <3>11. w = "receive" => OnItsWay(c, k, p, n)'
      <4>1. SUFFICES ASSUME w = "receive" PROVE OnItsWay(c, k, p, n)'
        OBVIOUS
      <4>2. stored'[c] = s
        BY <1>10 DEF IInv, Types, MainTypes
      <4>3. Sent(c, k, p, n)'
        BY <1>3, <3>1, <3>2, <3>3, <3>9, <4>1, <4>2 DEF Sent
      <4>4. QED BY <1>3, <1>12, <4>3 DEF OnItsWay
    <3>12. QED BY <3>8, <3>10, <3>11
  <2>5. QED BY <1>12, <2>1, <2>2, <2>3, <2>4 DEF OnItsWay
<1>13. \A p \in Children, n \in Names, j \in Conns :
          /\ peer[c] = p /\ want[c] = n /\ j = <<c, gets[c]>> /\ ~Excuse(p, n) /\ j \notin cut'
          /\ OnItsWay(c, j, p, n)
          => /\ w = "receive" => OnItsWay(c, j, p, n)'
             /\ w = "store" => Begun(p, n, s, size[c])
             /\ w = "corrupt" => Overfull(p, n, size[c])
  BY <1>1, <1>12
<1>14. \A j \in Conns : Len(inbox'[j]) <= SockBuf /\ (j # <<c, gets[c]>> => inbox'[j] = inbox[j])
  BY <1>1, <1>8, <1>9
<1>15. QED BY <1>3, <1>8, <1>10, <1>11, <1>13, <1>14, ReceiveStep, ZenonT(30)

(* read returns 0: the child it reads from has closed, it is dead.         *)
LEMMA ReadEndStep ==
  ASSUME IInv, NEW c \in Children, ReadEnd(c)
  PROVE  IInv'
<1>1. PICK k : k = <<c, gets[c]>>
  OBVIOUS
<1>2. /\ dpc[c] = "receive" /\ place[k] = "closed" /\ Take(c, last[c])
      /\ UNCHANGED <<gets, want, dest, peer, size, last, cut, download, from, serving, rest, fileVars, netVars>>
  BY <1>1 DEF ReadEnd, Conn, Closed
<1>3. last[c] \in Packets
  BY DEF IInv, Types, MainTypes
<1>4. PICK s \in Contents, w \in {"receive", "store", "corrupt", "prompt"}, l \in {lpc[c], "corrupt"} :
         /\ stored' = [stored EXCEPT ![c] = s] /\ dpc' = [dpc EXCEPT ![c] = w]
         /\ lpc' = [lpc EXCEPT ![c] = l] /\ (l # lpc[c] => w = "corrupt")
         /\ w \in {"receive", "store"} => Len(s) <= size[c]
  <2>1. PICK pkt \in Packets : Take(c, pkt)
    BY <1>2, <1>3
  <2>2. PICK s \in Contents, w \in {"receive", "store", "corrupt", "prompt"}, l \in {lpc[c], "corrupt"} :
           /\ stored' = [stored EXCEPT ![c] = s] /\ dpc' = [dpc EXCEPT ![c] = w]
           /\ lpc' = [lpc EXCEPT ![c] = l] /\ (l # lpc[c] => w = "corrupt")
           /\ w \in {"receive", "store"} => s = stored[c] \o pkt.data /\ Len(s) <= size[c]
           /\ w \in {"receive", "store"} => pkt.type = "FILE_RES_SUCCESS" /\ ~TooMuch(c, pkt)
           /\ w = "store" => Len(s) = size[c]
           /\ w = "corrupt" => pkt.type = "FILE_RES_SUCCESS" /\ TooMuch(c, pkt)
    BY <1>2, <2>1, TakeDoes
  <2>3. w \in {"receive", "store"} => Len(s) <= size[c]
    BY <2>2
  <2>4. QED BY <2>2, <2>3
<1>5. \A p, n : ~OnItsWay(c, k, p, n)
  BY <1>2 DEF OnItsWay
<1>6. /\ UNCHANGED <<gets, want, dest, peer, size, download, from, serving, rest, fileVars, backlog, place, at, request, reset>>
      /\ cut' = cut /\ cut' \subseteq Conns
      /\ last' \in [Children -> Packets] /\ inbox' \in [Conns -> Seq(Packets)] /\ inbox' = inbox
      /\ \A j \in Conns : Len(inbox'[j]) <= SockBuf
  BY <1>2 DEF IInv, Types, MainTypes, NetTypes, netVars
<1>7. \A p \in Children, n \in Names, j \in Conns :
         j = <<c, gets[c]>> => ~OnItsWay(c, j, p, n)
  BY <1>1, <1>5
<1>8. QED BY <1>2, <1>4, <1>6, <1>7, ReceiveStep, ZenonT(30)

(* read fails: the child it reads from has reset the connection.           *)
LEMMA ReadFailsStep ==
  ASSUME IInv, NEW c \in Children, ReadFails(c)
  PROVE  IInv'
<1>1. PICK k : k = <<c, gets[c]>>
  OBVIOUS
<1>2. /\ dpc[c] = "receive" /\ k \in reset /\ dpc' = [dpc EXCEPT ![c] = "store"]
      /\ UNCHANGED <<gets, want, dest, peer, size, stored, last, cut, download, from, serverVars, fileVars, netVars>>
  BY <1>1 DEF ReadFails, Conn
<1>3. PICK s \in Contents : s = stored[c]
  BY DEF IInv, Types, MainTypes
<1>4. stored' = [stored EXCEPT ![c] = s] /\ lpc' = [lpc EXCEPT ![c] = lpc[c]] /\ Len(s) <= size[c]
  BY <1>2, <1>3 DEF IInv, Types, MainTypes, ServerTypes, serverVars
<1>5. \A p, n : ~OnItsWay(c, k, p, n)
  BY <1>2 DEF OnItsWay
<1>6. /\ UNCHANGED <<gets, want, dest, peer, size, download, from, serving, rest, fileVars, backlog, place, at, request, reset>>
      /\ cut' = cut /\ cut' \subseteq Conns
      /\ last' \in [Children -> Packets] /\ inbox' \in [Conns -> Seq(Packets)] /\ inbox' = inbox
      /\ \A j \in Conns : Len(inbox'[j]) <= SockBuf
  BY <1>2 DEF IInv, Types, MainTypes, NetTypes, netVars, serverVars
<1>7. \A p \in Children, n \in Names, j \in Conns :
         j = <<c, gets[c]>> => ~OnItsWay(c, j, p, n)
  BY <1>1, <1>5
<1>8. QED BY <1>2, <1>4, <1>6, <1>7, ReceiveStep, ZenonT(30)

(* The file is stored: the k units that write() has taken are the first    *)
(* ones of the file that was asked for.                                    *)
LEMMA StoreStep ==
  ASSUME IInv, NEW c \in Children, Store(c)
  PROVE  IInv'
<1>1. /\ dpc[c] = "store" /\ dpc' = [dpc EXCEPT ![c] = "prompt"]
      /\ UNCHANGED <<gets, want, dest, peer, size, stored, last, cut, serverVars, fileVars, netVars>>
  BY DEF Store
<1>2. PICK p, n, e : p = peer[c] /\ n = want[c] /\ e = dest[c]
  OBVIOUS
<1>3. /\ p \in Children /\ n \in Names /\ e \in Dests
      /\ Excuse(p, n) \/ Conn(c) \in cut \/ Begun(p, n, stored[c], size[c])
  <2>1. Choice(c) /\ dpc[c] \in Busy
    BY <1>1 DEF IInv, Busy
  <2>2. p \in Children /\ n \in Names /\ e \in Dests
    BY <1>2, <2>1 DEF Choice
  <2>3. QED BY <1>1, <1>2, <2>1, <2>2 DEF Choice, Conn
<1>4. /\ Filled(c) \in Contents /\ (size[c] = Len(stored[c]) => Filled(c) = stored[c])
      /\ Len(Filled(c)) = size[c] /\ size[c] \in Nat
  BY <1>1, FilledContents DEF IInv, Types, MainTypes
<1>5. dpc'[c] = "prompt" /\ \A d \in Children : d # c => dpc'[d] = dpc[d]
  BY <1>1 DEF IInv, Types, MainTypes
<1>6. \A q \in Children, m \in Names : Excuse(q, m) => Excuse(q, m)'
  BY <1>1, <1>5 DEF Excuse, Changed, Dead, fileVars
<1>7. PICK v \in Contents, o \in Sources :
         /\ download' = [download EXCEPT ![c][e] = v] /\ from' = [from EXCEPT ![c][e] = o]
         /\ o = NoSource \/ Excuse(o.peer, o.name) \/ SubSeq(v, 1, o.len) = SubSeq(Data[o.peer][o.name], 1, o.len)
  <2>1. CASE UNCHANGED <<download, from>>
    <3>1. PICK v, o : v = download[c][e] /\ o = from[c][e]
      OBVIOUS
    <3>2. v \in Contents /\ o \in Sources
      BY <1>3, <3>1 DEF IInv, Types, MainTypes
    <3>3. download' = [download EXCEPT ![c][e] = v] /\ from' = [from EXCEPT ![c][e] = o]
      BY <1>3, <2>1, <3>1 DEF IInv, Types, MainTypes
    <3>4. o = NoSource \/ Excuse(o.peer, o.name) \/ SubSeq(v, 1, o.len) = SubSeq(Data[o.peer][o.name], 1, o.len)
      BY <1>3, <3>1 DEF IInv, DownloadRight, Excuse
    <3>5. QED BY <3>2, <3>3, <3>4
  <2>2. CASE \E k \in Written(c) :
                /\ download' = [download EXCEPT ![c][e] = After(@, SubSeq(Filled(c), 1, k))]
                /\ from' = [from EXCEPT ![c][e] = IF Conn(c) \in cut THEN NoSource ELSE [peer |-> p, name |-> n, len |-> k]]
    <3>1. PICK k \in Written(c) :
             /\ download' = [download EXCEPT ![c][e] = After(@, SubSeq(Filled(c), 1, k))]
             /\ from' = [from EXCEPT ![c][e] = IF Conn(c) \in cut THEN NoSource ELSE [peer |-> p, name |-> n, len |-> k]]
      BY <2>2
    <3>2. k \in 0 .. size[c]
      BY <1>4, <3>1 DEF Written
    <3>3. PICK old, new, v, o : /\ old = download[c][e] /\ new = SubSeq(Filled(c), 1, k) /\ v = After(old, new)
                                /\ o = IF Conn(c) \in cut THEN NoSource ELSE [peer |-> p, name |-> n, len |-> k]
      OBVIOUS
    <3>4. old \in Contents
      BY <1>3, <3>3 DEF IInv, Types, MainTypes
    <3>5. new \in Contents /\ Len(new) = k
      <4>1. Filled(c) \in Seq(Units \cup {Garbage, "absent", "unreadable"})
        BY <1>4 DEF Contents
      <4>2. /\ 1 \in 1 .. Len(Filled(c)) + 1 /\ k \in 0 .. Len(Filled(c)) /\ 1 <= k + 1 /\ k - 1 + 1 = k
        BY <1>4, <3>2
      <4>3. QED BY <3>3, <4>1, <4>2, Pieces DEF Contents
    <3>6. v \in Contents /\ SubSeq(v, 1, k) = new
      <4>1. SubSeq(After(old, new), 1, Len(new)) = new /\ After(old, new) \in Contents
        BY <3>4, <3>5, AfterContents
      <4>2. QED BY <3>3, <3>5, <4>1
    <3>7. o \in Sources
      BY <1>3, <3>2, <3>3 DEF Sources, NoSource
    <3>8. download' = [download EXCEPT ![c][e] = v] /\ from' = [from EXCEPT ![c][e] = o]
      BY <3>1, <3>3
    <3>9. Conn(c) \in cut \/ Excuse(p, n) \/ new = SubSeq(Data[p][n], 1, k)
      <4>1. SUFFICES ASSUME Begun(p, n, stored[c], size[c]) PROVE new = SubSeq(Data[p][n], 1, k)
        BY <1>3
      <4>2. PICK f : f = Data[p][n]
        OBVIOUS
      <4>3. f \in Seq(Units) /\ size[c] <= Len(f) /\ stored[c] = SubSeq(f, 1, size[c]) /\ Len(f) \in Nat
        BY <4>1, <4>2, LenProperties DEF Begun
      <4>4. PICK z \in Nat : z = size[c] /\ z \in 0 .. Len(f) /\ k \in 0 .. Len(f) /\ k \in 0 .. z
        BY <1>4, <3>2, <4>3
      <4>5. \A x \in 0 .. Len(f) : /\ SubSeq(f, 1, x) \in Seq(Units) /\ Len(SubSeq(f, 1, x)) = x
                                   /\ \A i \in 1 .. x : SubSeq(f, 1, x)[i] = f[i]
        <5>1. SUFFICES ASSUME NEW x \in 0 .. Len(f)
                       PROVE  /\ SubSeq(f, 1, x) \in Seq(Units) /\ Len(SubSeq(f, 1, x)) = x
                              /\ \A i \in 1 .. x : SubSeq(f, 1, x)[i] = f[i]
          OBVIOUS
        <5>2. 1 \in 1 .. Len(f) + 1 /\ 1 <= x + 1 /\ x - 1 + 1 = x /\ \A i \in Int : 1 + i - 1 = i
          BY <4>3
        <5>3. QED BY <4>3, <5>2, Pieces
      <4>6. stored[c] \in Seq(Units) /\ Len(stored[c]) = z /\ \A i \in 1 .. z : stored[c][i] = f[i]
        BY <4>3, <4>4, <4>5
      <4>7. new = SubSeq(stored[c], 1, k)
        BY <1>4, <3>3, <4>4, <4>6
      <4>8. /\ SubSeq(stored[c], 1, k) \in Seq(Units) /\ Len(SubSeq(stored[c], 1, k)) = k
            /\ \A i \in 1 .. k : SubSeq(stored[c], 1, k)[i] = stored[c][i]
        <5>1. /\ 1 \in 1 .. Len(stored[c]) + 1 /\ k \in 0 .. Len(stored[c]) /\ 1 <= k + 1
              /\ k - 1 + 1 = k /\ \A i \in Int : 1 + i - 1 = i
          BY <4>4, <4>6
        <5>2. QED BY <4>6, <5>1, Pieces
      <4>9. \A i \in 1 .. k : SubSeq(stored[c], 1, k)[i] = SubSeq(f, 1, k)[i]
        <5>1. \A i \in 1 .. k : i \in 1 .. z
          BY <4>4
        <5>2. QED BY <4>4, <4>5, <4>6, <4>8, <5>1
      <4>10. SubSeq(stored[c], 1, k) = SubSeq(f, 1, k)
        BY <4>4, <4>5, <4>8, <4>9, SeqEqual
      <4>11. QED BY <4>2, <4>7, <4>10
    <3>10. o = NoSource \/ Excuse(o.peer, o.name) \/ SubSeq(v, 1, o.len) = SubSeq(Data[o.peer][o.name], 1, o.len)
      BY <3>3, <3>6, <3>9
    <3>11. QED BY <3>6, <3>7, <3>8, <3>10
  <2>3. QED BY <1>2, <2>1, <2>2 DEF Store
<1>8. Types'
  <2>1. download' \in [Children -> [Dests -> Contents]] /\ from' \in [Children -> [Dests -> Sources]]
    BY <1>3, <1>7 DEF IInv, Types, MainTypes
  <2>2. MainTypes'
    BY <1>1, <1>5, <2>1 DEF IInv, Types, MainTypes
  <2>3. QED BY <1>1, <2>2 DEF IInv, Types, ServerTypes, NetTypes, serverVars, fileVars, netVars
<1>9. Fresh'
  <2>1. \A k \in Conns : k[1] \in Children /\ (dpc'[k[1]] = "connect" => dpc[k[1]] = "connect")
    BY <1>5, ConnIs
  <2>2. \A k \in Conns : Unused(k) => Unused(k)'
    BY <1>1 DEF Unused, serverVars, netVars
  <2>3. QED BY <1>1, <2>1, <2>2 DEF IInv, Fresh
<1>10. Threads'
  <2>1. \A q \in Children : dpc'[q] \in {"register", "registered"} => dpc[q] \in {"register", "registered"}
    BY <1>5
  <2>2. QED BY <1>1, <2>1 DEF IInv, Threads, Changed, serverVars, fileVars, netVars
<1>11. Choice(c)' /\ \A k \in Conns, q \in Children, m \in Names : Flow(c, k, q, m)'
  BY <1>5 DEF Choice, Flow, Busy
<1>12. (\A d \in Children : Choice(d))' /\ Flows'
  BY <1>1, <1>5, <1>11, OthersStay DEF serverVars, fileVars, netVars
<1>13. DownloadRight'
  <2>1. changed' = changed /\ \A q \in Children : Dead(q) => Dead(q)'
    BY <1>1, <1>5 DEF Dead, fileVars
  <2>2. ASSUME NEW d \in Children, NEW x \in Dests, NEW o2, o2 = from'[d][x]
        PROVE  \/ o2 = NoSource \/ Changed(o2.peer, o2.name) \/ Dead(o2.peer)'
               \/ SubSeq(download'[d][x], 1, o2.len) = SubSeq(Data[o2.peer][o2.name], 1, o2.len)
    <3>1. \A q : Dead(q) => Dead(q)'
      BY <1>1, <1>5 DEF Dead
    <3>2. CASE d = c /\ x = e
      <4>1. download'[d][x] = v /\ o2 = o
        BY <1>3, <1>7, <2>2, <3>2 DEF IInv, Types, MainTypes
      <4>2. QED BY <1>7, <3>1, <4>1 DEF Excuse
    <3>3. CASE ~(d = c /\ x = e)
      <4>1. download'[d][x] = download[d][x] /\ o2 = from[d][x]
        BY <1>7, <2>2, <3>3 DEF IInv, Types, MainTypes
      <4>2. QED BY <3>1, <4>1 DEF IInv, DownloadRight
    <3>4. QED BY <3>2, <3>3
  <2>3. QED BY <2>1, <2>2 DEF DownloadRight, Changed
<1>14. QED BY <1>8, <1>9, <1>10, <1>12, <1>13 DEF IInv

-----------------------------------------------------------------------------
(* The theorems                                                            *)

(* Nothing is in use at first.                                             *)
LEMMA InitIInv ==
  ASSUME Init
  PROVE  IInv
<1>1. Types
  <2>1. <<>> \in Contents /\ Absent \in Contents /\ NoPacket \in Packets /\ Len(<<>>) = 0
    BY FileContents, PacketsWritten DEF Absent, Contents
  <2>2. 0 \in Nat /\ SockBuf \in Nat /\ Gets \in [Children -> Nat] /\ Data \in [Children -> [Names -> Files]]
    BY DownloadAssumption
  <2>3. MainTypes
    <3>1. download \in [Children -> [Dests -> Contents]] /\ from \in [Children -> [Dests -> Sources]]
      BY <2>1 DEF Init, Sources
    <3>2. cut \subseteq Conns /\ stored \in [Children -> Contents] /\ last \in [Children -> Packets]
      BY <2>1 DEF Init
    <3>3. /\ dpc \in [Children -> {"register", "registered", "prompt", "connect", "receive", "store",
                                   "corrupt", "dead"}]
          /\ gets \in [Children -> Nat] /\ size \in [Children -> Nat]
          /\ want \in [Children -> Names \cup {None}] /\ peer \in [Children -> Children \cup {None}]
          /\ dest \in [Children -> Dests \cup {None}]
      BY <2>2 DEF Init
    <3>4. /\ \A c \in Children : gets[c] <= Gets[c]
          /\ \A c \in Children : dpc[c] \in {"receive", "store"} => Len(stored[c]) <= size[c]
      BY <2>2 DEF Init
    <3>5. QED BY <3>1, <3>2, <3>3, <3>4 DEF MainTypes
  <2>4. ServerTypes
    BY <2>1, <2>2 DEF Init, ServerTypes
  <2>5. NetTypes
    BY <2>1, <2>2 DEF Init, NetTypes
  <2>6. QED BY <2>3, <2>4, <2>5 DEF Types
<1>2. \A k \in Conns : NoConn # k
  BY ConnIs
<1>3. Fresh
  BY <1>2 DEF Init, Fresh, Unused
<1>4. Threads
  BY <1>2 DEF Init, Threads
<1>5. (\A c \in Children : Choice(c)) /\ Flows
  BY DEF Init, Choice, Busy, Flows, Flow
<1>6. DownloadRight
  BY DEF Init, DownloadRight
<1>7. QED BY <1>1, <1>3, <1>4, <1>5, <1>6 DEF IInv

(* Every step keeps the invariant.                                         *)
LEMMA NextIInv ==
  ASSUME IInv, [Next]_vars
  PROVE  IInv'
<1>1. CASE UNCHANGED vars
  <2>1. /\ UNCHANGED <<dpc, gets, want, dest, peer, size, stored, last, cut, download, from, lpc, serving, rest, data, changed>>
        /\ UNCHANGED <<backlog, place, at, request, inbox, reset>>
    BY <1>1 DEF vars, mainVars, serverVars, fileVars, netVars
  <2>2. Types' /\ Fresh' /\ Threads'
    BY <2>1 DEF IInv, Types, MainTypes, ServerTypes, NetTypes, Fresh, Unused, Threads, Changed
  <2>3. (\A c \in Children : Choice(c))' /\ DownloadRight'
    BY <2>1, MainStays DEF IInv, Types, mainVars
  <2>4. Flows'
    <3>1. \A c \in Children, k \in Conns, q \in Children, n \in Names :
             OnItsWay(c, k, q, n) => OnItsWay(c, k, q, n)'
      BY <2>1 DEF OnItsWay, Asked, Refused, Hung, Sent
    <3>2. QED BY <2>1, <3>1, FlowsStay DEF IInv, mainVars
  <2>5. QED BY <2>2, <2>3, <2>4 DEF IInv
<1>2. ASSUME NEW c \in Children, Get(c) \/ MainStep(c) \/ ServerStep(c) \/ Killed(c)
                                 \/ \E n \in Names : Change(c, n)
      PROVE  IInv'
  <2>1. CASE Get(c)
    BY <2>1, GetStep
  <2>2. CASE MainStep(c)
    BY <2>2, RegisterStep, CreateThreadStep, ConnectPeerStep, ReadPacketStep, ReadEndStep, ReadFailsStep,
       StoreStep DEF MainStep
  <2>3. CASE ServerStep(c)
    <3>1. KilledByPipe(c) => Dies(c)
      BY DEF KilledByPipe
    <3>2. QED BY <2>3, <3>1, ListenStep, AcceptStep, CloseSlotStep, SendPacketStep, EndOfFileStep, DiesStep,
                 HandleRequestStep DEF ServerStep
  <2>4. CASE Killed(c)
    BY <2>4, DiesStep DEF Killed
  <2>5. CASE \E n \in Names : Change(c, n)
    BY <2>5, ChangeStep
  <2>6. QED BY <1>2, <2>1, <2>2, <2>3, <2>4, <2>5
<1>3. QED BY <1>1, <1>2 DEF Next

(* The types, and no buffer overrun by a file that is what was registered  *)
(* (receiveFile in child.c: bytes_stored never exceeds fileSize).          *)
LEMMA IInvInv ==
  ASSUME IInv
  PROVE  Inv
<1>1. ASSUME NEW c \in Children, dpc[c] = "corrupt"
      PROVE  \/ Changed(peer[c], want[c]) \/ Requested(c) = Unreadable \/ TooLarge(c)
             \/ Conn(c) \in cut \/ Dead(peer[c])
  <2>1. Choice(c) /\ dpc[c] \in Busy
    BY <1>1 DEF IInv, Busy
  <2>2. PICK p \in Children, n \in Names : p = peer[c] /\ n = want[c]
    BY <2>1 DEF Choice
  <2>3. Excuse(p, n) \/ Conn(c) \in cut \/ Overfull(p, n, size[c])
    BY <1>1, <2>1, <2>2 DEF Choice, Conn
  <2>4. QED BY <2>2, <2>3 DEF Excuse, Overfull, TooLarge, Requested
<1>2. \A p \in Children : (lpc[p] = "send") = (serving[p] \in Conns) \/ lpc[p] \in {"corrupt", "dead"}
  BY ConnIs DEF IInv, Threads, Types, ServerTypes
<1>3. \A c \in Children : gets[c] \in 0 .. Gets[c]
  BY DownloadAssumption DEF IInv, Types, MainTypes
<1>4. TypeOK
  BY <1>2, <1>3 DEF TypeOK, IInv, Types, MainTypes, ServerTypes, NetTypes
<1>5. NoOverrun
  BY <1>1 DEF NoOverrun
<1>6. QED BY <1>4, <1>5 DEF Inv

(* A child writes beyond fileBuffer (child.c, the loop that receives a     *)
(* file) only if the file is no longer what was registered, cannot be read *)
(* or is larger than the one whose size was answered, if a packet was read *)
(* in parts, or if the peer has died; and the types.                       *)
THEOREM DownloadInv == Spec => []Inv
<1>1. Init => IInv
  BY InitIInv
<1>2. IInv /\ [Next]_vars => IInv'
  BY NextIInv
<1>3. IInv => Inv
  BY IInvInv
<1>4. QED BY <1>1, <1>2, <1>3, PTL DEF Spec

(* What was written into ./download, all of it or a part, is the beginning *)
(* of the file of the peer, of the size that was answered, unless that     *)
(* file was changed, the peer died, or a packet was read in parts: the     *)
(* packets of childServer arrive in order, none twice, and the loop of     *)
(* main() ends after the last one that fits.                               *)
THEOREM DownloadsAreRight == Spec => []DownloadRight
<1>1. Init => IInv
  BY InitIInv
<1>2. IInv /\ [Next]_vars => IInv'
  BY NextIInv
<1>3. IInv => DownloadRight
  BY DEF IInv
<1>4. QED BY <1>1, <1>2, <1>3, PTL DEF Spec
=============================================================================
