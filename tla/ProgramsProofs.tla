----------------------------- MODULE ProgramsProofs -----------------------------
(***************************************************************************)
(* The user programs and the system calls they make, for every disk image, *)
(* block size, number of processes and descriptors.                        *)
(***************************************************************************)
EXTENDS Programs, FiniteSetTheorems, WellFoundedInduction, TLAPS

(* Induction, as the least of a set of numbers.                             *)
LEMMA Smallest ==
  ASSUME NEW T, T \subseteq Nat, T # {}
  PROVE  \E n \in T : \A k \in T : n <= k
  <1>1. \E x \in T : \A y \in T : ~(<<y, x>> \in OpToRel(<, Nat))
    BY NatLessThanWellFounded, WFMin
  <1>2. PICK x \in T : \A y \in T : ~(<<y, x>> \in OpToRel(<, Nat))
    BY <1>1
  <1>3. \A y \in T : ~(y < x)
    BY <1>2 DEF OpToRel
  <1> QED BY <1>3

(* A sequence of n elements, whatever they are.                             *)
IsSeq(s, n) == s = [i \in 1 .. n |-> s[i]]

(* A sequence given by its length is one of Seq.                            *)
LEMMA SeqIs ==
  ASSUME NEW s, NEW n \in Nat, IsSeq(s, n)
  PROVE  \E S : s \in Seq(S) /\ Len(s) = n /\ \A i \in 1 .. n : s[i] \in S
  <1>1. PICK S : S = {s[i] : i \in 1 .. n}
    OBVIOUS
  <1>2. s \in [1 .. n -> S]
    BY <1>1 DEF IsSeq
  <1>3. s \in Seq(S)
    BY <1>2
  <1>4. Len(s) = n
    BY <1>2, <1>3
  <1> QED BY <1>1, <1>3, <1>4

(* A sequence of Seq is given by its length.                                *)
LEMMA SeqHas ==
  ASSUME NEW S, NEW s \in Seq(S)
  PROVE  Len(s) \in Nat /\ IsSeq(s, Len(s)) /\ \A i \in 1 .. Len(s) : s[i] \in S
  BY DEF IsSeq

(* A sequence u of n elements of s and m of t.                              *)
Joins(u, s, n, t, m) ==
  /\ IsSeq(u, n + m) /\ Len(u) = n + m
  /\ \A i \in 1 .. n : u[i] = s[i]
  /\ \A i \in 1 .. m : u[n + i] = t[i]

(* What s \o t holds, by position.                                          *)
LEMMA Joined ==
  ASSUME NEW s, NEW t, NEW n \in Nat, NEW m \in Nat, IsSeq(s, n), IsSeq(t, m)
  PROVE  Joins(s \o t, s, n, t, m)
  <1>1. PICK S : s \in Seq(S) /\ Len(s) = n
    BY SeqIs
  <1>2. PICK T : t \in Seq(T) /\ Len(t) = m
    BY SeqIs
  <1>3. s \in Seq(S \cup T) /\ t \in Seq(S \cup T)
    BY <1>1, <1>2
  <1> QED BY <1>1, <1>2, <1>3 DEF IsSeq, Joins

(* Sequences with the same items are the same.                              *)
LEMMA SameSeq ==
  ASSUME NEW s, NEW t, NEW n \in Nat, IsSeq(s, n), IsSeq(t, n), \A i \in 1 .. n : s[i] = t[i]
  PROVE  s = t
  BY DEF IsSeq

(* The sequence without items.                                              *)
LEMMA NoItems ==
  ASSUME NEW s, NEW n \in Nat, IsSeq(s, n)
  PROVE  (n = 0 => s = <<>>) /\ (s = <<>> => n = 0)
  <1>1. PICK S : s \in Seq(S) /\ Len(s) = n
    BY SeqIs
  <1>2. n = 0 => s = <<>>
    BY <1>1
  <1>3. s = <<>> => n = 0
    BY <1>1
  <1> QED BY <1>2, <1>3

(* The m elements of s that follow the first a.                             *)
IsPart(u, s, a, m) == IsSeq(u, m) /\ Len(u) = m /\ \A i \in 1 .. m : u[i] = s[a + i]

(* What SubSeq gives is a part, by position.                                *)
LEMMA PartIs ==
  ASSUME NEW s, NEW n \in Nat, IsSeq(s, n), NEW a \in Nat, NEW m \in Nat, a + m <= n
  PROVE  IsPart(SubSeq(s, a + 1, a + m), s, a, m)
  <1>1. PICK S : s \in Seq(S) /\ Len(s) = n
    BY SeqIs
  <1>2. SubSeq(s, a + 1, a + m) = [i \in 1 .. m |-> s[a + i]]
    BY <1>1
  <1>3. PICK t : t = [i \in 1 .. m |-> s[a + i]]
    OBVIOUS
  <1>4. IsSeq(t, m)
    BY <1>3 DEF IsSeq
  <1>5. Len(t) = m
    BY <1>4, SeqIs
  <1> QED BY <1>2, <1>3, <1>4, <1>5 DEF IsPart

-----------------------------------------------------------------------------
(* read_data().  The byte at a position of a file.                          *)
Byte(image, inode, j) == DataBlock(image, Blocks(image, inode)[j \div BLOCK_SIZE + 1])[j % BLOCK_SIZE]

(* n bytes of a file from a position on.                                    *)
Reads(s, image, inode, p, n) == IsSeq(s, n) /\ \A i \in 1 .. n : s[i] = Byte(image, inode, p + i - 1)

(* Division by a size.                                                      *)
LEMMA Divided ==
  ASSUME NEW B \in Nat \ {0}, NEW a \in Nat, NEW x \in 0 .. B - 1
  PROVE  (a * B + x) \div B = a /\ (a * B + x) % B = x
  <1>1. PICK p \in Nat : p = a * B + x
    OBVIOUS
  <1>2. PICK q \in Nat, z \in 0 .. B - 1 :
          p = B * q + z /\ q = p \div B /\ z = p % B
    OBVIOUS
  <1>3. B \in Nat \ {0}
    OBVIOUS
  <1>4. q = a
    <2>1. ASSUME NEW u \in Nat, NEW v \in Nat, u < v PROVE u * B + B <= v * B
      <3>1. PICK d \in Nat : v = u + 1 + d
        <4>1. v - u - 1 \in Nat /\ v = u + 1 + (v - u - 1)
          BY <2>1
        <4> QED BY <4>1
      <3>2. v * B = u * B + B + d * B
        BY <3>1, <1>3
      <3>3. d * B \in Nat /\ u * B \in Nat
        BY <1>3
      <3> QED BY <3>2, <3>3, <1>3
    <2>2. B * q = q * B /\ q * B \in Nat /\ a * B \in Nat
      BY <1>3
    <2>3. ~(q < a)
      <3> SUFFICES ASSUME q < a PROVE FALSE
        OBVIOUS
      <3>1. q * B + B <= a * B
        BY <2>1
      <3> QED BY <3>1, <2>2, <1>1, <1>2, <1>3
    <2>4. ~(a < q)
      <3> SUFFICES ASSUME a < q PROVE FALSE
        OBVIOUS
      <3>1. a * B + B <= q * B
        BY <2>1
      <3> QED BY <3>1, <2>2, <1>1, <1>2, <1>3
    <2> QED BY <2>3, <2>4
  <1>5. z = x
    <2>1. PICK m \in Nat : m = a * B /\ m = B * q
      BY <1>3, <1>4
    <2> QED BY <2>1, <1>1, <1>2, <1>3
  <1> QED BY <1>1, <1>2, <1>4, <1>5

(* The block of a byte, and its place in the block.                         *)
LEMMA BlockOf ==
  ASSUME NEW a \in Nat, NEW x \in 0 .. BLOCK_SIZE - 1
  PROVE  (a * BLOCK_SIZE + x) \div BLOCK_SIZE = a /\ (a * BLOCK_SIZE + x) % BLOCK_SIZE = x
  <1>1. BLOCK_SIZE \in Nat \ {0}
    BY FileSystemAssumption
  <1> QED BY <1>1, Divided

(* A piece of one data block holds the bytes of the file from there on.     *)
LEMMA BytesAre ==
  ASSUME NEW image, NEW inode, NEW a \in Nat, NEW o \in Nat, NEW n \in Nat, o + n <= BLOCK_SIZE,
         NEW p \in Nat, p = a * BLOCK_SIZE + o
  PROVE  Reads(Bytes(image, Blocks(image, inode)[a + 1], o, n), image, inode, p, n)
  <1>1. PICK b : b = Bytes(image, Blocks(image, inode)[a + 1], o, n)
    OBVIOUS
  <1>2. IsSeq(b, n)
    BY <1>1 DEF IsSeq, Bytes
  <1>3. ASSUME NEW i \in 1 .. n
        PROVE  b[i] = Byte(image, inode, p + i - 1)
    <2>1. o + i - 1 \in 0 .. BLOCK_SIZE - 1
      BY FileSystemAssumption
    <2>2. PICK x \in 0 .. BLOCK_SIZE - 1 : x = o + i - 1
      BY <2>1
    <2>3. PICK m \in Nat : m = a * BLOCK_SIZE
      BY FileSystemAssumption
    <2>4. (m + x) \div BLOCK_SIZE = a /\ (m + x) % BLOCK_SIZE = x
      BY <2>3, BlockOf
    <2>5. p + i - 1 = m + x
      BY <2>2, <2>3
    <2>6. b[i] = DataBlock(image, Blocks(image, inode)[a + 1])[x]
      BY <1>1, <2>2 DEF Bytes
    <2> QED BY <2>4, <2>5, <2>6 DEF Byte
  <1> QED BY <1>1, <1>2, <1>3 DEF Reads

(* Two reads in a row are one longer read.                                  *)
LEMMA JoinedReads ==
  ASSUME NEW image, NEW inode, NEW p \in Nat, NEW s, NEW t, NEW n \in Nat, NEW m \in Nat, NEW r, r = n + m,
         Reads(s, image, inode, p, n), Reads(t, image, inode, p + n, m)
  PROVE  Reads(s \o t, image, inode, p, r)
  <1>1. PICK u : u = s \o t
    OBVIOUS
  <1>2. Joins(u, s, n, t, m)
    BY <1>1, Joined DEF Reads
  <1>3. ASSUME NEW i \in 1 .. n + m
        PROVE  u[i] = Byte(image, inode, p + i - 1)
    <2>1. CASE i <= n
      BY <2>1, <1>2 DEF Joins, Reads
    <2>2. CASE ~(i <= n)
      <3>1. PICK j \in 1 .. m : i = n + j
        <4>1. i - n \in 1 .. m /\ i = n + (i - n)
          BY <2>2
        <4> QED BY <4>1
      <3>2. u[i] = t[j] /\ t[j] = Byte(image, inode, p + n + j - 1)
        BY <3>1, <1>2 DEF Joins, Reads
      <3>3. p + n + j - 1 = p + i - 1
        BY <3>1
      <3> QED BY <3>2, <3>3
    <2> QED BY <2>1, <2>2
  <1> QED BY <1>1, <1>2, <1>3 DEF Joins, Reads

(* The loop of read_data() copies the bytes that follow.                     *)
LEMMA WholeIs ==
  ASSUME NEW image, NEW inode, NEW k \in Nat, NEW n \in Nat,
         NEW p \in Nat, p = k * BLOCK_SIZE
  PROVE  Reads(WholeBlocks(image, inode, k, n), image, inode, p, n)
  <1>0. BLOCK_SIZE \in Nat \ {0}
    BY FileSystemAssumption
  <1> DEFINE At1(r) == Blocks(image, inode)[k + (n - r) \div BLOCK_SIZE + 1]
             Line(f, r) == IF r > BLOCK_SIZE THEN Bytes(image, At1(r), 0, BLOCK_SIZE) \o f[r - BLOCK_SIZE]
                           ELSE Bytes(image, At1(r), 0, r)
             Defined(m) == \E f : f = [r \in 0 .. m |-> Line(f, r)]
             T == {m \in Nat : ~Defined(m)}
  <1>1. T = {}
    <2> SUFFICES ASSUME T # {} PROVE FALSE
      OBVIOUS
    <2>1. PICK m \in T : \A j \in T : m <= j
      BY Smallest
    <2>2. CASE m = 0
      <3>1. PICK g : g = [r \in 0 .. 0 |-> Bytes(image, At1(0), 0, 0)]
        OBVIOUS
      <3>2. \A r \in 0 .. 0 : Line(g, r) = Bytes(image, At1(0), 0, 0)
        BY <1>0
      <3>3. g = [r \in 0 .. 0 |-> Line(g, r)]
        BY <3>1, <3>2
      <3> QED BY <3>3, <2>2
    <2>3. CASE m # 0
      <3>0. m - 1 \in Nat /\ ~(m <= m - 1)
        BY <2>1, <2>3
      <3>1. m - 1 \notin T
        BY <2>1, <3>0
      <3>2. PICK g : g = [r \in 0 .. m - 1 |-> Line(g, r)]
        BY <3>0, <3>1
      <3>3. PICK f : f = [r \in 0 .. m |-> IF r = m THEN Line(g, m) ELSE g[r]]
        OBVIOUS
      <3> HIDE DEF At1
      <3>4. ASSUME NEW r \in 0 .. m
            PROVE  f[r] = Line(f, r)
        <4>1. f[r] = Line(g, r)
          <5>1. CASE r = m
            BY <5>1, <3>3
          <5>2. CASE r # m
            <6>1. r \in 0 .. m - 1
              BY <5>2, <2>1
            <6>2. f[r] = g[r]
              BY <5>2, <3>3
            <6>3. g[r] = Line(g, r)
              BY <6>1, <3>2
            <6> QED BY <6>2, <6>3
          <5> QED BY <5>1, <5>2
        <4>2. r > BLOCK_SIZE => f[r - BLOCK_SIZE] = g[r - BLOCK_SIZE]
          BY <2>1, <3>3, <1>0
        <4>3. Line(g, r) = Line(f, r)
          BY <4>2
        <4> QED BY <4>1, <4>3
      <3>5. f = [r \in 0 .. m |-> Line(f, r)]
        BY <3>3, <3>4
      <3> QED BY <3>5
    <2> QED BY <2>2, <2>3
  <1>2. PICK Rest : /\ Rest = [r \in 0 .. n |-> Line(Rest, r)]
                    /\ WholeBlocks(image, inode, k, n) = Rest[n]
    <2>1. \E f : f = [r \in 0 .. n |-> Line(f, r)]
      BY <1>1
    <2>2. PICK f : f = CHOOSE h : h = [r \in 0 .. n |-> Line(h, r)]
      OBVIOUS
    <2>3. f = [r \in 0 .. n |-> Line(f, r)]
      BY <2>1, <2>2
    <2>4. WholeBlocks(image, inode, k, n) = f[n]
      BY <2>2 DEF WholeBlocks
    <2> QED BY <2>3, <2>4
  <1> HIDE DEF At1
  <1> DEFINE U == {r \in 0 .. n : /\ \E q \in Nat : n - r = q * BLOCK_SIZE
                                  /\ ~Reads(Rest[r], image, inode, p + (n - r), r)}
  <1>3. U = {}
    <2> SUFFICES ASSUME U # {} PROVE FALSE
      OBVIOUS
    <2>0. U \subseteq Nat
      OBVIOUS
    <2>1. PICK r \in U : \A j \in U : r <= j
      BY <2>0, Smallest
    <2>2. PICK q \in Nat : n - r = q * BLOCK_SIZE
      BY <2>1
    <2>3. r \in 0 .. n /\ Rest[r] = Line(Rest, r) /\ ~Reads(Rest[r], image, inode, p + (n - r), r)
      BY <2>1, <1>2
    <2>4. \A j \in 0 .. n : j < r /\ (\E e \in Nat : n - j = e * BLOCK_SIZE)
                              => Reads(Rest[j], image, inode, p + (n - j), j)
      BY <2>1, <2>3
    <2> HIDE DEF U
    <2>5. At1(r) = Blocks(image, inode)[k + q + 1]
      <3>1. (q * BLOCK_SIZE + 0) \div BLOCK_SIZE = q
        <4>1. 0 \in 0 .. BLOCK_SIZE - 1
          BY <1>0
        <4> QED BY <4>1, BlockOf
      <3>2. (n - r) \div BLOCK_SIZE = q
        <4>1. PICK m \in Nat : m = q * BLOCK_SIZE
          BY <1>0
        <4> QED BY <3>1, <2>2, <4>1
      <3> QED BY <3>2 DEF At1
    <2>6. PICK a \in Nat : a = k + q
      OBVIOUS
    <2>7. PICK m \in Nat : m = a * BLOCK_SIZE /\ m = p + (n - r)
      <3>1. (k + q) * BLOCK_SIZE = k * BLOCK_SIZE + q * BLOCK_SIZE
        BY <1>0
      <3>2. a * BLOCK_SIZE = p + (n - r)
        BY <3>1, <2>2, <2>6
      <3>3. a * BLOCK_SIZE \in Nat
        BY <1>0
      <3> QED BY <3>2, <3>3
    <2>8. CASE r > BLOCK_SIZE
      <3>1. PICK B \in Nat \ {0}, s \in Nat : B = BLOCK_SIZE /\ s = r - BLOCK_SIZE /\ B + s = r
        BY <2>8, <2>3, <1>0
      <3>2. PICK b, w : b = Bytes(image, Blocks(image, inode)[a + 1], 0, BLOCK_SIZE) /\ w = Rest[s]
        OBVIOUS
      <3>3. Reads(b, image, inode, m, B)
        <4>1. PICK o \in Nat : o = 0
          OBVIOUS
        <4>2. /\ o + B <= BLOCK_SIZE /\ m = a * BLOCK_SIZE + o
              /\ b = Bytes(image, Blocks(image, inode)[a + 1], o, B)
          BY <4>1, <3>1, <3>2, <2>7
        <4> QED BY <4>1, <4>2, <3>1, BytesAre
      <3>4. s \in 0 .. n /\ s < r /\ n - s = (q + 1) * BLOCK_SIZE
        <4>1. (q + 1) * BLOCK_SIZE = q * BLOCK_SIZE + BLOCK_SIZE
          BY <1>0
        <4>2. PICK z \in Nat : z = q * BLOCK_SIZE
          BY <1>0
        <4> QED BY <4>1, <4>2, <3>1, <2>2, <2>3, <1>0
      <3>5. Reads(w, image, inode, p + (n - s), s)
        <4>1. \E e \in Nat : n - s = e * BLOCK_SIZE
          BY <3>4
        <4> QED BY <4>1, <3>2, <3>4, <2>4
      <3>6. p + (n - s) = m + B
        BY <3>1, <2>3, <2>7
      <3>7. Rest[r] = b \o w
        BY <2>3, <2>5, <2>6, <2>8, <3>1, <3>2
      <3>8. Reads(b \o w, image, inode, m, r)
        <4>1. Reads(w, image, inode, m + B, s)
          BY <3>5, <3>6
        <4> QED BY <4>1, <3>1, <3>3, <2>7, JoinedReads
      <3> QED BY <3>7, <3>8, <2>3, <2>7
    <2>9. CASE ~(r > BLOCK_SIZE)
      <3>1. PICK o \in Nat : o = 0
        OBVIOUS
      <3>2. /\ o + r <= BLOCK_SIZE /\ r \in Nat /\ m = a * BLOCK_SIZE + o
            /\ Rest[r] = Bytes(image, Blocks(image, inode)[a + 1], o, r)
        BY <3>1, <2>3, <2>5, <2>6, <2>7, <2>9, <1>0
      <3>3. Reads(Rest[r], image, inode, m, r)
        BY <3>1, <3>2, BytesAre
      <3> QED BY <3>3, <2>3, <2>7
    <2> QED BY <2>8, <2>9
  <1>4. n - n = 0 * BLOCK_SIZE /\ n \in 0 .. n
    BY <1>0
  <1>5. Reads(Rest[n], image, inode, p + (n - n), n)
    BY <1>3, <1>4
  <1>6. p + (n - n) = p
    OBVIOUS
  <1> QED BY <1>2, <1>5, <1>6

(* How much read_data() finds of what it was asked for.                      *)
Available(image, inode, offset, length) ==
  LET size == InodeAt(image, inode).length
  IN  IF offset >= size THEN 0 ELSE Lesser(length, size - offset)

(* read_data() returns the bytes of the file from the offset on.             *)
LEMMA ReadIs ==
  ASSUME NEW image, NEW inode, NEW offset \in Nat, NEW length \in Nat,
         InodeAt(image, inode).length \in Nat
  PROVE  LET n == Available(image, inode, offset, length)
         IN  n \in Nat /\ Reads(ReadData(image, inode, offset, length), image, inode, offset, n)
  <1>0. BLOCK_SIZE \in Nat \ {0}
    BY FileSystemAssumption
  <1>1. PICK size \in Nat : size = InodeAt(image, inode).length
    OBVIOUS
  <1>2. PICK data : data = ReadData(image, inode, offset, length)
    OBVIOUS
  <1>3. CASE offset >= size
    <2>1. data = <<>>
      BY <1>1, <1>2, <1>3 DEF ReadData
    <2>2. Reads(data, image, inode, offset, 0)
      BY <2>1 DEF IsSeq, Reads
    <2>3. Available(image, inode, offset, length) = 0
      BY <1>1, <1>3 DEF Available
    <2> QED BY <1>2, <2>2, <2>3
  <1>4. CASE ~(offset >= size)
    <2>1. PICK n \in Nat : n = Lesser(length, size - offset) /\ n = Available(image, inode, offset, length)
      BY <1>1, <1>4 DEF Lesser, Available
    <2>2. PICK k \in Nat, o \in 0 .. BLOCK_SIZE - 1 :
            /\ k = offset \div BLOCK_SIZE /\ o = offset % BLOCK_SIZE
            /\ offset = BLOCK_SIZE * k + o
      BY <1>0
    <2>3. PICK m \in Nat : m = k * BLOCK_SIZE /\ m = BLOCK_SIZE * k
      BY <1>0
    <2>4. offset = m + o
      BY <2>2, <2>3
    <2>5. PICK c \in Nat : c = BLOCK_SIZE - o /\ c + o = BLOCK_SIZE
      BY <1>0, <2>2
    <2>6. data = IF n <= c THEN Bytes(image, Blocks(image, inode)[k + 1], o, n)
                 ELSE Bytes(image, Blocks(image, inode)[k + 1], o, c)
                        \o WholeBlocks(image, inode, k + 1, n - c)
      BY <1>1, <1>2, <1>4, <2>1, <2>2, <2>5 DEF ReadData, NextBlock
    <2>7. CASE n <= c
      <3>1. /\ data = Bytes(image, Blocks(image, inode)[k + 1], o, n)
            /\ o \in Nat /\ o + n <= BLOCK_SIZE /\ offset = k * BLOCK_SIZE + o
        BY <2>1, <2>2, <2>3, <2>4, <2>5, <2>6, <2>7, <1>0
      <3>2. Reads(data, image, inode, offset, n)
        BY <3>1, <2>1, <2>2, BytesAre
      <3> QED BY <3>2, <1>2, <2>1
    <2>8. CASE ~(n <= c)
      <3>1. PICK b, w : /\ b = Bytes(image, Blocks(image, inode)[k + 1], o, c)
                        /\ w = WholeBlocks(image, inode, k + 1, n - c)
        OBVIOUS
      <3>2. o \in Nat /\ o + c <= BLOCK_SIZE /\ offset = k * BLOCK_SIZE + o
        BY <2>2, <2>3, <2>4, <2>5, <1>0
      <3>3. Reads(b, image, inode, offset, c)
        BY <3>1, <3>2, <2>2, <2>5, BytesAre
      <3>4. PICK l \in Nat : l = n - c /\ n = c + l
        <4>1. n - c \in Nat /\ n = c + (n - c)
          BY <2>1, <2>5, <2>8
        <4> QED BY <4>1
      <3>5. PICK p \in Nat : p = k + 1
        BY <2>2
      <3>6. offset + c \in Nat /\ offset + c = p * BLOCK_SIZE
        <4>1. (k + 1) * BLOCK_SIZE = k * BLOCK_SIZE + BLOCK_SIZE
          BY <1>0, <2>2
        <4>2. p * BLOCK_SIZE = m + BLOCK_SIZE
          BY <4>1, <3>5, <2>3
        <4>3. offset + c \in Nat /\ offset + c = m + BLOCK_SIZE
          BY <2>2, <2>3, <2>4, <2>5, <1>0
        <4> QED BY <4>2, <4>3
      <3>7. Reads(w, image, inode, offset + c, l)
        <4>1. w = WholeBlocks(image, inode, p, l)
          BY <3>1, <3>4, <3>5
        <4> QED BY <4>1, <3>4, <3>5, <3>6, WholeIs
      <3>8. data = b \o w
        BY <2>6, <2>8, <3>1
      <3>9. Reads(data, image, inode, offset, n)
        BY <3>3, <3>4, <3>7, <3>8, <2>5, JoinedReads
      <3> QED BY <3>9, <1>2, <2>1
    <2> QED BY <2>7, <2>8
  <1> QED BY <1>3, <1>4, <1>1

(* read_data() is right for every image, block size, offset and length: with  *)
(* its first part of a block, whole blocks and rest it returns what is     *)
(* between two positions of the file, and nothing from the end on.         *)
THEOREM ReadsTheFile ==
  ASSUME NEW image \in Disks, NEW inode \in 0 .. BootBlock(image).num_inodes - 1,
         NEW offset \in Nat, NEW length \in Nat, offset <= Len(FileBytes(image, inode))
  PROVE  ReadData(image, inode, offset, length)
           = SubSeq(FileBytes(image, inode), offset + 1,
                    Lesser(offset + length, Len(FileBytes(image, inode))))
  <1>1. PICK size \in Nat : size = InodeAt(image, inode).length
    BY ShellAssumption DEF WellFormed
  <1>2. PICK f : f = FileBytes(image, inode)
    OBVIOUS
  <1>3. Reads(f, image, inode, 0, size)
    BY <1>1, <1>2 DEF FileBytes, Byte, IsSeq, Reads
  <1>4. Len(f) = size
    BY <1>1, <1>3, SeqIs DEF Reads
  <1>5. offset <= size
    BY <1>2, <1>4
  <1>6. PICK n \in Nat : /\ n = Available(image, inode, offset, length) /\ offset + n <= size
                         /\ Lesser(offset + length, size) = offset + n
    BY <1>1, <1>5 DEF Lesser, Available
  <1>7. PICK data : data = ReadData(image, inode, offset, length)
    OBVIOUS
  <1>8. Reads(data, image, inode, offset, n)
    BY <1>1, <1>6, <1>7, ReadIs
  <1>9. PICK s : s = SubSeq(f, offset + 1, offset + n)
    OBVIOUS
  <1>10. IsPart(s, f, offset, n)
    <2>1. IsSeq(f, size)
      BY <1>3 DEF Reads
    <2> QED BY <2>1, <1>1, <1>6, <1>9, PartIs
  <1>11. ASSUME NEW i \in 1 .. n
         PROVE  data[i] = s[i]
    <2>1. PICK j \in 1 .. size : j = offset + i /\ 0 + j - 1 = offset + i - 1
      BY <1>1, <1>6
    <2>2. s[i] = f[j]
      BY <2>1, <1>10 DEF IsPart
    <2>3. f[j] = Byte(image, inode, 0 + j - 1)
      BY <2>1, <1>3 DEF Reads
    <2>4. data[i] = Byte(image, inode, offset + i - 1)
      BY <1>8 DEF Reads
    <2> QED BY <2>1, <2>2, <2>3, <2>4
  <1>12. data = s
    BY <1>6, <1>8, <1>10, <1>11, SameSeq DEF Reads, IsPart
  <1> QED BY <1>12, <1>2, <1>4, <1>6, <1>7, <1>9

-----------------------------------------------------------------------------
(* Descriptor tables.                                                       *)
Inodes(image) == 0 .. BootBlock(image).num_inodes - 1
Descriptor    == [flag : BOOLEAN, inode : Int, pos : Nat,
                  ops : {"fail", "stdin", "stdout", "file", "dir", "rtc"}]
Tables(image) ==
  {fds \in [Fds -> Descriptor] :
     /\ fds[0] = Stdin /\ fds[1] = Stdout
     /\ \A i \in Fds : fds[i].ops = "file" => fds[i].inode \in Inodes(image)}

(* The descriptors of the terminal are among the numbers.                   *)
LEMMA FdsFacts == 0 \in Fds /\ 1 \in Fds /\ Fds \subseteq Nat
  BY SyscallAssumption DEF Fds

(* The entries every table is made of are typed.                            *)
LEMMA EntriesTyped == Stdin \in Descriptor /\ Stdout \in Descriptor /\ Closed \in Descriptor
  BY DEF Stdin, Stdout, Closed, Descriptor

(* create_pcb() makes a typed table.                                        *)
LEMMA FreshTyped == ASSUME NEW image PROVE FreshTable \in Tables(image)
  <1>1. FreshTable \in [Fds -> Descriptor]
    BY EntriesTyped DEF FreshTable
  <1>2. FreshTable[0] = Stdin /\ FreshTable[1] = Stdout
    BY FdsFacts DEF FreshTable
  <1>3. \A i \in Fds : FreshTable[i].ops # "file"
    BY DEF FreshTable, Stdin, Stdout, Closed
  <1> QED BY <1>1, <1>2, <1>3 DEF Tables

(* A call that changes one descriptor, not one of the terminal's.            *)
LEMMA OneChanged ==
  ASSUME NEW image, NEW fds \in Tables(image), NEW fd \in Fds \ {0, 1}, NEW e \in Descriptor,
         e.ops = "file" => e.inode \in Inodes(image)
  PROVE  [fds EXCEPT ![fd] = e] \in Tables(image)
  <1>1. PICK g : g = [fds EXCEPT ![fd] = e]
    OBVIOUS
  <1>2. fds \in [Fds -> Descriptor]
    BY DEF Tables
  <1>3. g \in [Fds -> Descriptor] /\ g[fd] = e /\ \A i \in Fds \ {fd} : g[i] = fds[i]
    BY <1>1, <1>2
  <1>4. g[0] = Stdin /\ g[1] = Stdout
    BY <1>3, FdsFacts DEF Tables
  <1>5. \A i \in Fds : g[i].ops = "file" => g[i].inode \in Inodes(image)
    BY <1>3 DEF Tables
  <1> QED BY <1>1, <1>3, <1>4, <1>5 DEF Tables

(* A descriptor whose position is moved.                                    *)
Seek(fds, fd, p) == [fds EXCEPT ![fd].pos = p]

(* A change of the position changes nothing else of the table.              *)
LEMMA Moved ==
  ASSUME NEW image, NEW fds \in Tables(image), NEW fd \in Fds, NEW p \in Nat,
         fds[fd].ops \in {"file", "dir"}, NEW t, t = Seek(fds, fd, p)
  PROVE  /\ t \in Tables(image) /\ \A i \in Fds : i # fd => t[i] = fds[i]
         /\ t[fd].flag = fds[fd].flag /\ t[fd].inode = fds[fd].inode
         /\ t[fd].pos = p /\ t[fd].ops = fds[fd].ops
  <1>1. fds[fd] \in Descriptor /\ fds \in [Fds -> Descriptor]
    BY DEF Tables
  <1>2. PICK e : e = [flag |-> fds[fd].flag, inode |-> fds[fd].inode, pos |-> p, ops |-> fds[fd].ops]
    OBVIOUS
  <1>3. e \in Descriptor /\ e = [fds[fd] EXCEPT !.pos = p]
    BY <1>1, <1>2 DEF Descriptor
  <1>4. e.ops = "file" => e.inode \in Inodes(image)
    BY <1>2 DEF Tables
  <1>5. fd # 0 /\ fd # 1
    BY DEF Tables, Stdin, Stdout
  <1>6. t = [fds EXCEPT ![fd] = e]
    BY <1>3 DEF Seek
  <1>7. t \in Tables(image)
    <2>1. fd \in Fds \ {0, 1} /\ e \in Descriptor
      BY <1>3, <1>5
    <2>2. [fds EXCEPT ![fd] = e] \in Tables(image)
      BY <1>4, <2>1, OneChanged
    <2> QED BY <1>6, <2>2
  <1>8. t[fd] = e /\ \A i \in Fds : i # fd => t[i] = fds[i]
    BY <1>1, <1>6
  <1> QED BY <1>2, <1>7, <1>8

(* Least gives the least number of a set that has one.                      *)
LEMMA LeastIs ==
  ASSUME NEW S, S \subseteq Nat, S # {}
  PROVE  Least(S) \in S /\ \A k \in S : Least(S) <= k
  BY Smallest DEF Least

(* The length of a file of a well-formed disk is a number.                  *)
LEMMA SizeIs ==
  ASSUME NEW image \in Disks, NEW inode \in Inodes(image)
  PROVE  InodeAt(image, inode).length \in Nat
  BY ShellAssumption DEF WellFormed, Inodes

(* An entry of the directory.                                               *)
Listed(image) == {Entries(image)[i] : i \in 1 .. Len(Entries(image))}

(* What a well-formed disk says of an entry.                                *)
LEMMA ListedIs ==
  ASSUME NEW image \in Disks, NEW e \in Listed(image)
  PROVE  /\ e.inode_id \in Inodes(image) /\ e.file_type \in {RTC_TYPE, DIR_TYPE, FILE_TYPE}
         /\ IsString(e.file_name) /\ Len(e.file_name) \in 1 .. FILE_NAME_SIZE
  BY ShellAssumption DEF WellFormed, Inodes, Listed

(* read_dentry_by_name() gives an entry whose name agrees.                  *)
LEMMA FoundIs ==
  ASSUME NEW image \in Disks, NEW name, Found(image, name)
  PROVE  /\ DentryByName(image, name) \in Listed(image)
         /\ SameUpTo(DentryByName(image, name).file_name, name, FILE_NAME_SIZE)
  <1>1. PICK S : S = EntriesNamed(image, name)
    OBVIOUS
  <1>2. PICK n \in Nat : n = Len(Entries(image))
    BY ShellAssumption DEF WellFormed
  <1>3. S \subseteq 0 .. n - 1 /\ S # {}
    BY <1>1, <1>2 DEF EntriesNamed, Found
  <1>8. S \subseteq Nat
    BY <1>3
  <1>4. PICK i \in S : i = Least(S)
    BY <1>3, <1>8, LeastIs
  <1>5. DentryByName(image, name) = EntryAt(image, i)
    BY <1>1, <1>4 DEF DentryByName
  <1>6. SameUpTo(EntryAt(image, i).file_name, name, FILE_NAME_SIZE)
    BY <1>1, <1>4 DEF EntriesNamed
  <1>7. EntryAt(image, i) \in Listed(image)
    BY <1>2, <1>3, <1>4 DEF EntryAt, Listed
  <1> QED BY <1>5, <1>6, <1>7

(* What open() writes into the table for an entry.                          *)
LEMMA OpenedIs ==
  ASSUME NEW image \in Disks, NEW name, Found(image, name), NEW d, d = DentryByName(image, name)
  PROVE  /\ Opened(image, name) \in Descriptor
         /\ Opened(image, name).ops = "file" => Opened(image, name).inode \in Inodes(image)
         /\ Opened(image, name) =
              [flag |-> TRUE, pos |-> 0,
               inode |-> IF d.file_type = RTC_TYPE THEN -1 ELSE IF d.file_type = DIR_TYPE THEN 0 ELSE d.inode_id,
               ops |-> IF d.file_type = RTC_TYPE THEN "rtc" ELSE IF d.file_type = DIR_TYPE THEN "dir" ELSE "file"]
  <1>1. d \in Listed(image)
    BY FoundIs
  <1>2. d.inode_id \in Inodes(image) /\ d.inode_id \in Int
        /\ d.file_type \in {RTC_TYPE, DIR_TYPE, FILE_TYPE}
    BY <1>1, ListedIs DEF Inodes
  <1>3. CASE d.file_type = RTC_TYPE
    <2>1. Opened(image, name) = [flag |-> TRUE, inode |-> -1, pos |-> 0, ops |-> "rtc"]
      BY <1>3 DEF Opened, RTC_TYPE, DIR_TYPE, FILE_TYPE
    <2> QED BY <2>1, <1>3 DEF Descriptor
  <1>4. CASE d.file_type = DIR_TYPE
    <2>1. Opened(image, name) = [flag |-> TRUE, inode |-> 0, pos |-> 0, ops |-> "dir"]
      BY <1>4 DEF Opened, RTC_TYPE, DIR_TYPE, FILE_TYPE
    <2> QED BY <2>1, <1>4 DEF Descriptor, DIR_TYPE, RTC_TYPE
  <1>5. CASE d.file_type = FILE_TYPE
    <2>1. Opened(image, name) = [flag |-> TRUE, inode |-> d.inode_id, pos |-> 0, ops |-> "file"]
      BY <1>5 DEF Opened, RTC_TYPE, DIR_TYPE, FILE_TYPE
    <2> QED BY <2>1, <1>2, <1>5 DEF Descriptor, DIR_TYPE, RTC_TYPE, FILE_TYPE
  <1> QED BY <1>2, <1>3, <1>4, <1>5

-----------------------------------------------------------------------------
(* The calls.                                                               *)
LEMMA OpenIs ==
  ASSUME NEW image \in Disks, NEW fds \in Tables(image), NEW name, NEW r, r = Open(image, fds, name)
  PROVE  /\ r.fds \in Tables(image)
         /\ \/ r.ret = Fail /\ r.fds = fds
            \/ /\ Found(image, name) /\ r.ret \in Fds \ {0, 1} /\ ~fds[r.ret].flag
               /\ \A i \in Fds : i < r.ret => fds[i].flag
               /\ r.fds = [fds EXCEPT ![r.ret] = Opened(image, name)]
  <1>1. CASE TableFull(fds) \/ ~Found(image, name)
    BY <1>1 DEF Open, Failed, Result
  <1>2. CASE ~(TableFull(fds) \/ ~Found(image, name))
    <2>1. PICK S : S = FreeFds(fds)
      OBVIOUS
    <2>2. S # {} /\ S \subseteq Nat /\ S = {i \in Fds : ~fds[i].flag}
      BY <1>2, <2>1, FdsFacts DEF TableFull, FreeFds
    <2>3. PICK fd \in S : fd = Least(S) /\ \A k \in S : fd <= k
      BY <2>2, LeastIs
    <2>4. r = [ret |-> fd, data |-> <<>>, fds |-> [fds EXCEPT ![fd] = Opened(image, name)]]
      BY <1>2, <2>1, <2>3 DEF Open, Result
    <2>5. fd # 0 /\ fd # 1
      BY <2>2, <2>3 DEF Tables, Stdin, Stdout
    <2>6. fd \in Fds \ {0, 1} /\ ~fds[fd].flag
      BY <2>2, <2>3, <2>5
    <2>7. ASSUME NEW i \in Fds, i < fd PROVE fds[i].flag
      <3>1. fd \in Nat /\ i \in Nat
        BY <2>6, FdsFacts
      <3>2. i \notin S
        BY <2>3, <2>7, <3>1
      <3> QED BY <3>2, <2>2
    <2>8. [fds EXCEPT ![fd] = Opened(image, name)] \in Tables(image)
      BY <1>2, <2>6, OpenedIs, OneChanged
    <2> QED BY <1>2, <2>4, <2>6, <2>7, <2>8
  <1> QED BY <1>1, <1>2

(* close() clears an open entry above 1, and fails on any other.            *)
LEMMA CloseIs ==
  ASSUME NEW image, NEW fds \in Tables(image), NEW fd, NEW r, r = Close(fds, fd)
  PROVE  /\ r.fds \in Tables(image)
         /\ IF fd \in Fds \ {0, 1} /\ fds[fd].flag THEN r.ret = 0 /\ r.fds = [fds EXCEPT ![fd] = Closed]
            ELSE r.ret = Fail /\ r.fds = fds
  <1>1. Closed \in Descriptor /\ Closed.ops # "file"
    BY EntriesTyped DEF Closed
  <1>2. fd \in Fds \ {0, 1} => [fds EXCEPT ![fd] = Closed] \in Tables(image)
    BY <1>1, OneChanged
  <1> QED BY <1>2 DEF Close, Failed, Result

(* A read of a file gives the bytes that are there and moves the position   *)
(* past them.                                                               *)
LEMMA FileReadIs ==
  ASSUME NEW image \in Disks, NEW fds \in Tables(image), NEW fd \in Fds, fds[fd].ops = "file",
         NEW n \in Nat, NEW r, r = FileRead(image, fds, fd, n),
         NEW inode, inode = fds[fd].inode, NEW pos, pos = fds[fd].pos
  PROVE  \E k \in Nat : /\ k = Available(image, inode, pos, n) /\ r.ret = k
                        /\ Reads(r.data, image, inode, pos, k)
                        /\ r.fds = Seek(fds, fd, pos + k) /\ r.fds \in Tables(image)
  <1>2. inode \in Inodes(image) /\ pos \in Nat
    BY DEF Tables, Descriptor
  <1>3. InodeAt(image, inode).length \in Nat
    BY <1>2, SizeIs
  <1>4. PICK k : k = Available(image, inode, pos, n)
    OBVIOUS
  <1>5. PICK data : data = ReadData(image, inode, pos, n)
    OBVIOUS
  <1>6. k \in Nat /\ Reads(data, image, inode, pos, k)
    BY <1>2, <1>3, <1>4, <1>5, ReadIs
  <1>7. Len(data) = k
    BY <1>6, SeqIs DEF Reads
  <1>8. r = [ret |-> k, data |-> data, fds |-> [fds EXCEPT ![fd].pos = pos + k]]
    BY <1>5, <1>7 DEF FileRead, Result
  <1>9. r.ret = k /\ r.data = data /\ r.fds = Seek(fds, fd, pos + k)
    BY <1>8 DEF Seek
  <1>10. r.fds \in Tables(image)
    <2>1. PICK p \in Nat : p = pos + k
      BY <1>2, <1>6
    <2>2. r.fds = Seek(fds, fd, p)
      BY <1>9, <2>1
    <2>3. fds[fd].ops \in {"file", "dir"}
      OBVIOUS
    <2> QED BY <2>2, <2>3, Moved
  <1> QED BY <1>4, <1>6, <1>9, <1>10

PaddedName(image, index) == [i \in 1 .. FILE_NAME_SIZE |-> CharAt(EntryAt(image, index).file_name, i)]

(* A read of a directory gives one name, and no success at the last entry of*)
(* a full boot block (filesystem.c:233).                                    *)
LEMMA DirReadIs ==
  ASSUME NEW image \in Disks, NEW fds \in Tables(image), NEW fd \in Fds, fds[fd].ops = "dir",
         NEW n, NEW r, r = DirRead(image, fds, fd, n), NEW index, index = fds[fd].pos
  PROVE  /\ r.fds \in Tables(image)
         /\ IF IsIndex(image, index)
            THEN /\ r.ret = IF index + 1 < MaxEntries THEN n ELSE 0
                 /\ r.data = PaddedName(image, index)
                 /\ r.fds = Seek(fds, fd, index + 1)
            ELSE r.ret = 0 /\ r.fds = fds
  <1>2. index \in Nat
    BY DEF Tables, Descriptor
  <1>3. PICK p \in Nat : p = index + 1
    BY <1>2
  <1>4. PICK t : t = Seek(fds, fd, p)
    OBVIOUS
  <1>5. t \in Tables(image)
    <2>1. fds[fd].ops \in {"file", "dir"}
      OBVIOUS
    <2> QED BY <2>1, <1>4, Moved
  <1>6. CASE IsIndex(image, index)
    <2>1. r = [ret |-> IF index + 1 < MaxEntries THEN n ELSE 0, data |-> PaddedName(image, index),
               fds |-> [fds EXCEPT ![fd].pos = index + 1]]
      BY <1>6 DEF DirRead, Result, PaddedName
    <2>2. [fds EXCEPT ![fd].pos = index + 1] = t
      BY <1>3, <1>4 DEF Seek
    <2>3. r.ret = (IF index + 1 < MaxEntries THEN n ELSE 0) /\ r.data = PaddedName(image, index) /\ r.fds = t
      BY <2>1, <2>2
    <2> QED BY <2>3, <1>3, <1>4, <1>5, <1>6
  <1>7. CASE ~IsIndex(image, index)
    BY <1>7 DEF DirRead, Result
  <1> QED BY <1>6, <1>7

(* A read leaves the table typed.                                           *)
LEMMA ReadTyped ==
  ASSUME NEW image \in Disks, NEW fds \in Tables(image), NEW fd, NEW n \in Int
  PROVE  Read(image, fds, fd, n).fds \in Tables(image)
  <1>1. CASE ~Usable(fds, fd, n)
    BY <1>1 DEF Read, Failed, Result
  <1>2. CASE Usable(fds, fd, n)
    <2>1. fd \in Fds /\ n \in Nat
      BY <1>2 DEF Usable
    <2>2. CASE fds[fd].ops = "file"
      <3>1. FileRead(image, fds, fd, n).fds \in Tables(image)
        <4>1. PICK r : r = FileRead(image, fds, fd, n)
          OBVIOUS
        <4> QED BY <2>1, <2>2, <4>1, FileReadIs
      <3> QED BY <3>1, <1>2, <2>2 DEF Read
    <2>3. CASE fds[fd].ops = "dir"
      <3>1. DirRead(image, fds, fd, n).fds \in Tables(image)
        <4>1. PICK r : r = DirRead(image, fds, fd, n)
          OBVIOUS
        <4> QED BY <2>1, <2>3, <4>1, DirReadIs
      <3> QED BY <3>1, <1>2, <2>3 DEF Read
    <2>4. CASE fds[fd].ops = "rtc"
      BY <2>4, <1>2 DEF Read, Result
    <2>5. CASE fds[fd].ops \notin {"file", "dir", "rtc"}
      BY <2>5, <1>2 DEF Read, Failed, Result
    <2> QED BY <2>2, <2>3, <2>4, <2>5
  <1> QED BY <1>1, <1>2

-----------------------------------------------------------------------------
(* Strings and names.                                                       *)
LEMMA StringIs ==
  ASSUME NEW s, IsString(s)
  PROVE  Len(s) \in Nat /\ IsSeq(s, Len(s)) /\ \A i \in 1 .. Len(s) : s[i] # NUL
  <1>1. PICK C : C = {s[i] : i \in 1 .. Len(s)}
    OBVIOUS
  <1>2. s \in Seq(C) /\ NUL \notin C
    BY <1>1 DEF IsString
  <1>3. Len(s) \in Nat /\ IsSeq(s, Len(s)) /\ \A i \in 1 .. Len(s) : s[i] \in C
    BY <1>2, SeqHas
  <1> QED BY <1>2, <1>3

(* A sequence without NUL is a string.                                      *)
LEMMA IsStringIf ==
  ASSUME NEW s, NEW n \in Nat, IsSeq(s, n), \A i \in 1 .. n : s[i] # NUL
  PROVE  IsString(s) /\ Len(s) = n
  <1>1. PICK C : C = {s[i] : i \in 1 .. n}
    OBVIOUS
  <1>2. s \in [1 .. n -> C]
    BY <1>1 DEF IsSeq
  <1>3. s \in Seq(C) /\ Len(s) = n
    BY <1>2
  <1>4. NUL \notin C
    BY <1>1
  <1> QED BY <1>1, <1>3, <1>4 DEF IsString

(* A part of a string is a string.                                          *)
LEMMA PartOfString ==
  ASSUME NEW s, IsString(s), NEW a \in Nat \ {0}, NEW b \in Nat, a <= b + 1, b <= Len(s)
  PROVE  IsString(SubSeq(s, a, b)) /\ Len(SubSeq(s, a, b)) = b - a + 1
  <1>1. PICK n \in Nat : n = Len(s) /\ IsSeq(s, n) /\ \A i \in 1 .. n : s[i] # NUL
    BY StringIs
  <1>2. PICK c \in Nat, m \in Nat : a = c + 1 /\ b = c + m
    <2>1. a - 1 \in Nat /\ b - (a - 1) \in Nat /\ a = a - 1 + 1 /\ b = a - 1 + (b - (a - 1))
      OBVIOUS
    <2> QED BY <2>1
  <1>3. PICK u : u = SubSeq(s, a, b)
    OBVIOUS
  <1>4. IsPart(u, s, c, m)
    BY <1>1, <1>2, <1>3, PartIs
  <1>5. \A i \in 1 .. m : u[i] # NUL
    <2> TAKE i \in 1 .. m
    <2>1. c + i \in 1 .. n /\ u[i] = s[c + i]
      BY <1>1, <1>2, <1>4 DEF IsPart
    <2> QED BY <2>1, <1>1
  <1>6. IsString(u) /\ Len(u) = m
    BY <1>2, <1>4, <1>5, IsStringIf DEF IsPart
  <1> QED BY <1>2, <1>3, <1>6

(* What strncmp() finds equal is the same name, cut to the length of one.    *)
LEMMA SameName ==
  ASSUME NEW s, NEW t, IsString(s), IsString(t), Len(s) <= FILE_NAME_SIZE,
         SameUpTo(s, t, FILE_NAME_SIZE)
  PROVE  s = SubSeq(t, 1, Lesser(Len(t), FILE_NAME_SIZE))
  <1>0. FILE_NAME_SIZE \in Nat \ {0}
    BY FileSystemAssumption
  <1>1. PICK n \in Nat : n = Len(s) /\ IsSeq(s, n) /\ \A i \in 1 .. n : s[i] # NUL
    BY StringIs
  <1>2. PICK m \in Nat : m = Len(t) /\ IsSeq(t, m) /\ \A i \in 1 .. m : t[i] # NUL
    BY StringIs
  <1>3. \A i \in 1 .. FILE_NAME_SIZE : i <= n + 1 /\ i <= m + 1 =>
          (IF i <= n THEN s[i] ELSE NUL) = (IF i <= m THEN t[i] ELSE NUL)
    BY <1>1, <1>2 DEF SameUpTo, CharAt
  <1>4. n <= m
    <2> SUFFICES ASSUME m < n PROVE FALSE
      BY <1>1, <1>2
    <2>1. m + 1 \in 1 .. FILE_NAME_SIZE
      BY <1>0, <1>1, <1>2
    <2>2. s[m + 1] = NUL
      BY <2>1, <1>2, <1>3
    <2>3. m + 1 \in 1 .. n
      BY <1>1, <1>2
    <2> QED BY <2>2, <2>3, <1>1
  <1>5. n = Lesser(m, FILE_NAME_SIZE)
    <2>1. CASE n < FILE_NAME_SIZE
      <3>1. n = m
        <4> SUFFICES ASSUME n < m PROVE FALSE
          BY <1>1, <1>2, <1>4
        <4>1. n + 1 \in 1 .. FILE_NAME_SIZE
          BY <1>0, <1>1, <2>1
        <4>2. t[n + 1] = NUL
          BY <4>1, <1>1, <1>3
        <4>3. n + 1 \in 1 .. m
          BY <1>1, <1>2
        <4> QED BY <4>2, <4>3, <1>2
      <3> QED BY <3>1, <2>1, <1>0 DEF Lesser
    <2>2. CASE ~(n < FILE_NAME_SIZE)
      BY <2>2, <1>0, <1>1, <1>2, <1>4 DEF Lesser
    <2> QED BY <2>1, <2>2
  <1>6. PICK u : u = SubSeq(t, 1, n)
    OBVIOUS
  <1>7. IsPart(u, t, 0, n)
    <2>1. SubSeq(t, 0 + 1, 0 + n) = u /\ 0 + n <= m /\ 0 \in Nat
      BY <1>1, <1>4, <1>6
    <2> QED BY <2>1, <1>1, <1>2, PartIs
  <1>8. \A i \in 1 .. n : s[i] = u[i]
    <2> TAKE i \in 1 .. n
    <2>1. i \in 1 .. FILE_NAME_SIZE /\ i <= n + 1 /\ i <= m + 1 /\ i <= n /\ i <= m
      BY <1>0, <1>1, <1>2, <1>4
    <2>2. s[i] = t[i]
      BY <2>1, <1>3
    <2>3. u[i] = t[0 + i] /\ 0 + i = i
      BY <1>7 DEF IsPart
    <2> QED BY <2>2, <2>3
  <1>9. s = u
    BY <1>1, <1>7, <1>8, SameSeq DEF IsPart
  <1> QED BY <1>2, <1>5, <1>6, <1>9

(* open() of a string finds the file that is meant.                          *)
LEMMA FoundMeant ==
  ASSUME NEW name, IsString(name), disk \in Disks, Found(disk, name)
  PROVE  DentryByName(disk, name) \in Meant(name)
  <1>1. PICK e : e = DentryByName(disk, name)
    OBVIOUS
  <1>2. e \in Listed(disk) /\ SameUpTo(e.file_name, name, FILE_NAME_SIZE)
    BY <1>1, FoundIs
  <1>3. IsString(e.file_name) /\ Len(e.file_name) <= FILE_NAME_SIZE
    BY <1>2, ListedIs, FileSystemAssumption
  <1>4. e.file_name = SubSeq(name, 1, Lesser(Len(name), FILE_NAME_SIZE))
    <2>1. PICK s : s = e.file_name
      OBVIOUS
    <2>2. IsString(s) /\ Len(s) <= FILE_NAME_SIZE /\ SameUpTo(s, name, FILE_NAME_SIZE)
      BY <2>1, <1>2, <1>3
    <2> QED BY <2>1, <2>2, SameName
  <1>5. PICK n \in Nat : n = Len(Entries(disk))
    BY ShellAssumption DEF WellFormed
  <1>6. PICK i \in 1 .. n : e = Entries(disk)[i]
    BY <1>2, <1>5 DEF Listed
  <1>7. i - 1 \in 0 .. n - 1 /\ (i - 1) + 1 = i
    BY <1>5, <1>6
  <1>8. e = EntryAt(disk, i - 1)
    BY <1>6, <1>7 DEF EntryAt
  <1> QED BY <1>1, <1>4, <1>5, <1>7, <1>8 DEF Meant

(* parse_cmd() cuts strings out of a line.                                   *)
LEMMA WordIs ==
  ASSUME NEW line, IsString(line)
  PROVE  /\ WordStart(line) \in 1 .. Len(line) + 1
         /\ WordEnd(line) \in WordStart(line) .. Len(line) + 1
         /\ IsString(FirstWord(line))
  <1>1. PICK n \in Nat : n = Len(line)
    BY StringIs
  <1>2. PICK a \in 1 .. n + 1 : a = WordStart(line)
    <2>1. PICK S : S = {i \in 1 .. n : line[i] # Space}
      OBVIOUS
    <2>2. S \subseteq Nat /\ S \subseteq 1 .. n
      BY <2>1
    <2>3. S # {} => Least(S) \in 1 .. n
      BY <2>2, LeastIs
    <2>4. WordStart(line) = IF S = {} THEN n + 1 ELSE Least(S)
      BY <2>1, <1>1 DEF WordStart
    <2> QED BY <2>3, <2>4, <1>1
  <1>3. PICK b \in a .. n + 1 : b = WordEnd(line)
    <2>1. PICK S : S = {i \in a .. n : line[i] = Space}
      OBVIOUS
    <2>2. S \subseteq Nat /\ S \subseteq a .. n
      BY <2>1, <1>2
    <2>3. S # {} => Least(S) \in a .. n
      BY <2>2, LeastIs
    <2>4. WordEnd(line) = IF S = {} THEN n + 1 ELSE Least(S)
      BY <2>1, <1>1, <1>2 DEF WordEnd
    <2> QED BY <2>3, <2>4, <1>1, <1>2
  <1>4. PICK c \in Nat : c = b - 1 /\ a <= c + 1 /\ c <= n
    BY <1>1, <1>2, <1>3
  <1>5. IsString(SubSeq(line, a, c))
    <2>1. a \in Nat \ {0} /\ c <= Len(line)
      BY <1>1, <1>2, <1>4
    <2> QED BY <2>1, <1>4, PartOfString
  <1> QED BY <1>1, <1>2, <1>3, <1>4, <1>5 DEF FirstWord

(* The words parse_cmd() cuts out of a line are strings.                    *)
LEMMA ArgumentIs ==
  ASSUME NEW line \in Lines
  PROVE  IsString(FirstWord(line)) /\ IsString(Argument(line)) /\ Len(Argument(line)) \in Nat
  <1>1. IsString(line)
    BY ShellAssumption
  <1>2. PICK n \in Nat : n = Len(line)
    BY <1>1, StringIs
  <1>3. PICK a \in Nat \ {0} : a = WordEnd(line) /\ a <= n + 1
    <2>1. WordStart(line) \in 1 .. n + 1 /\ WordEnd(line) \in WordStart(line) .. n + 1
      BY <1>1, <1>2, WordIs
    <2> QED BY <2>1, <1>2
  <1>4. IsString(From(line, a))
    <2>1. IsString(SubSeq(line, a, n))
      BY <1>1, <1>2, <1>3, PartOfString
    <2> QED BY <2>1, <1>2 DEF From
  <1>5. IsString(Argument(line))
    BY <1>3, <1>4, WordIs DEF Argument
  <1>6. Len(Argument(line)) \in Nat
    BY <1>5, StringIs
  <1> QED BY <1>1, <1>5, <1>6, WordIs

-----------------------------------------------------------------------------
(* The processes of the terminal, and what the steps do to them.             *)
Words == {Message(r) : r \in -1 .. 256}
IsProc(image, p) ==
  /\ p = [program |-> p.program, pc |-> p.pc, argument |-> p.argument, fds |-> p.fds, v |-> p.v]
  /\ p.fds \in Tables(image)
  /\ IsString(p.argument) /\ Len(p.argument) <= BUFSIZE
IsShell(p) == p.program = "shell" /\ p.pc = "main"
Chain(image, s, n) ==
  /\ n \in 1 .. MAX_PCB /\ IsSeq(s, n)
  /\ \A i \in 1 .. n : IsProc(image, s[i])
  /\ \A i \in 1 .. n : i < n => IsShell(s[i])
Base ==
  /\ disk \in Disks
  /\ Chain(disk, stack, Len(stack))
  /\ message \in Words

(* The last process of the chain is on top.                                 *)
LEMMA ChainIs ==
  ASSUME NEW image, NEW s, NEW n, Chain(image, s, n)
  PROVE  Len(s) = n /\ n \in Nat \ {0} /\ Last(s) = s[n] /\ IsProc(image, Last(s))
  <1>1. n \in Nat \ {0} /\ IsSeq(s, n) /\ n \in 1 .. n
    BY ShellAssumption DEF Chain
  <1>2. Len(s) = n
    BY <1>1, SeqIs
  <1>3. Last(s) = s[n]
    BY <1>2 DEF Last
  <1> QED BY <1>1, <1>2, <1>3 DEF Chain

(* The process that runs is typed.                                          *)
LEMMA TopIs == ASSUME Base PROVE IsProc(disk, Top)
  BY ChainIs DEF Base, Top

Replaced(s, n, p) == [s EXCEPT ![n] = p]

(* Another state of the process on top leaves the chain under it.           *)
LEMMA ChangedTop ==
  ASSUME NEW image, NEW s, NEW n, Chain(image, s, n), NEW p, IsProc(image, p),
         NEW t, t = Replaced(s, n, p)
  PROVE  Chain(image, t, n) /\ Last(t) = p
  <1>2. n \in Nat \ {0} /\ n \in 1 .. MAX_PCB /\ s = [i \in 1 .. n |-> s[i]]
    BY ShellAssumption DEF Chain, IsSeq
  <1>3. PICK f : f = [i \in 1 .. n |-> IF i = n THEN p ELSE s[i]]
    OBVIOUS
  <1>4. t = f
    BY <1>2, <1>3 DEF Replaced
  <1>5. IsSeq(t, n) /\ t[n] = p /\ \A i \in 1 .. n : i # n => t[i] = s[i]
    <2>1. n \in 1 .. n
      BY <1>2
    <2>2. t[n] = p /\ \A i \in 1 .. n : i # n => t[i] = s[i]
      BY <1>3, <1>4, <2>1
    <2>3. t = [i \in 1 .. n |-> t[i]]
      BY <1>3, <1>4
    <2> QED BY <1>2, <2>2, <2>3 DEF IsSeq
  <1>6. \A i \in 1 .. n : IsProc(image, t[i])
    BY <1>5 DEF Chain
  <1>7. \A i \in 1 .. n : i < n => IsShell(t[i])
    BY <1>2, <1>5 DEF Chain
  <1>8. Chain(image, t, n)
    BY <1>2, <1>5, <1>6, <1>7 DEF Chain
  <1> QED BY <1>5, <1>8, ChainIs

(* A step of the running program keeps Base.                                *)
LEMMA BecomeIs ==
  ASSUME Base, NEW p, IsProc(disk, p), Become(p), disk' = disk, message' \in Words
  PROVE  Base' /\ Top' = p
  <1>1. PICK s, n : s = stack /\ n = Len(stack)
    OBVIOUS
  <1>2. Chain(disk, s, n) /\ disk \in Disks
    BY <1>1 DEF Base
  <1>3. PICK t : t = Replaced(s, n, p)
    OBVIOUS
  <1>4. stack' = t
    BY <1>1, <1>3 DEF Become, Replaced
  <1>5. Chain(disk, t, n) /\ Last(t) = p
    BY <1>2, <1>3, ChangedTop
  <1>6. Len(t) = n
    BY <1>5, ChainIs
  <1> QED BY <1>2, <1>4, <1>5, <1>6 DEF Base, Top

(* A process at another place of its program.                               *)
Proc(p, pc, fds, v) == [program |-> p.program, pc |-> pc, argument |-> p.argument, fds |-> fds, v |-> v]

Moves(p, pc, fds, v) == [p EXCEPT !.pc = pc, !.fds = fds, !.v = v]
Stops(p, v)          == [p EXCEPT !.pc = "return", !.v = v]

(* The forms EXCEPT gives are the process with its fields replaced.         *)
LEMMA MovesIs ==
  ASSUME NEW p, p = [program |-> p.program, pc |-> p.pc, argument |-> p.argument, fds |-> p.fds, v |-> p.v],
         NEW pc, NEW fds, NEW v
  PROVE  Moves(p, pc, fds, v) = Proc(p, pc, fds, v) /\ Stops(p, v) = Proc(p, "return", p.fds, v)
  <1>1. PICK A, B, C, D, E : /\ A = {p.program} /\ B = {p.pc, pc, "return"} /\ C = {p.argument}
                             /\ D = {p.fds, fds} /\ E = {p.v, v}
    OBVIOUS
  <1>2. PICK R : R = [program : A, pc : B, argument : C, fds : D, v : E]
    OBVIOUS
  <1>3. p \in R
    BY <1>1, <1>2
  <1>4. \A q \in R : q = [program |-> q.program, pc |-> q.pc, argument |-> q.argument, fds |-> q.fds, v |-> q.v]
    BY <1>2
  <1>5. Moves(p, pc, fds, v) = Proc(p, pc, fds, v)
    <2>1. PICK q : q = [p EXCEPT !.pc = pc, !.fds = fds, !.v = v]
      OBVIOUS
    <2>2. q \in R
      BY <2>1, <1>1, <1>2, <1>3
    <2>3. q.program = p.program /\ q.pc = pc /\ q.argument = p.argument /\ q.fds = fds /\ q.v = v
      BY <2>1, <1>2, <1>3
    <2> QED BY <2>1, <2>2, <2>3, <1>4 DEF Moves, Proc
  <1>6. Stops(p, v) = Proc(p, "return", p.fds, v)
    <2>1. PICK q : q = [p EXCEPT !.pc = "return", !.v = v]
      OBVIOUS
    <2>2. q \in R
      BY <2>1, <1>1, <1>2, <1>3
    <2>3. q.program = p.program /\ q.pc = "return" /\ q.argument = p.argument /\ q.fds = p.fds /\ q.v = v
      BY <2>1, <1>2, <1>3
    <2> QED BY <2>1, <2>2, <2>3, <1>4 DEF Stops, Proc
  <1> QED BY <1>5, <1>6

(* A process with another table that is typed is typed.                     *)
LEMMA ProcIs ==
  ASSUME NEW image, NEW p, IsProc(image, p), NEW pc, NEW fds \in Tables(image), NEW v
  PROVE  /\ Moves(p, pc, fds, v) = Proc(p, pc, fds, v) /\ Stops(p, v) = Proc(p, "return", p.fds, v)
         /\ IsProc(image, Proc(p, pc, fds, v))
  <1>1. PICK q : q = Proc(p, pc, fds, v)
    OBVIOUS
  <1>2. q.program = p.program /\ q.pc = pc /\ q.argument = p.argument /\ q.fds = fds /\ q.v = v
    BY <1>1 DEF Proc
  <1>3. q = [program |-> q.program, pc |-> q.pc, argument |-> q.argument, fds |-> q.fds, v |-> q.v]
    BY <1>1, <1>2 DEF Proc
  <1>4. IsProc(image, q)
    BY <1>2, <1>3 DEF IsProc
  <1>5. Moves(p, pc, fds, v) = Proc(p, pc, fds, v) /\ Stops(p, v) = Proc(p, "return", p.fds, v)
    BY MovesIs DEF IsProc
  <1> QED BY <1>1, <1>4, <1>5

(* What Go does to the process on top.                                      *)
LEMMA GoIs ==
  ASSUME Base, NEW pc, NEW fds \in Tables(disk), NEW v, Go(pc, fds, v), disk' = disk, message' \in Words
  PROVE  Base' /\ Top' = Proc(Top, pc, fds, v)
  <1>1. PICK p : p = Top
    OBVIOUS
  <1>2. IsProc(disk, p)
    BY <1>1, TopIs
  <1>3. Moves(p, pc, fds, v) = Proc(p, pc, fds, v) /\ IsProc(disk, Proc(p, pc, fds, v))
    BY <1>2, ProcIs
  <1>5. Become(Moves(p, pc, fds, v))
    BY <1>1 DEF Go, Moves
  <1>4. Become(Proc(p, pc, fds, v))
    BY <1>3, <1>5
  <1> QED BY <1>1, <1>3, <1>4, BecomeIs

(* What Return does to the process on top.                                  *)
LEMMA ReturnIs ==
  ASSUME Base, NEW status, Return(Top, status), disk' = disk, message' \in Words
  PROVE  Base' /\ Top' = Proc(Top, "return", Top.fds, [status |-> status])
  <1>1. PICK p : p = Top
    OBVIOUS
  <1>2. IsProc(disk, p) /\ p.fds \in Tables(disk)
    BY <1>1, TopIs DEF IsProc
  <1>3. PICK v : v = [status |-> status]
    OBVIOUS
  <1>4. Stops(p, v) = Proc(p, "return", p.fds, v) /\ IsProc(disk, Proc(p, "return", p.fds, v))
    BY <1>2, ProcIs
  <1>6. Become(Stops(p, v))
    BY <1>1, <1>3 DEF Return, Stops
  <1>5. Become(Proc(p, "return", p.fds, v))
    BY <1>4, <1>6
  <1> QED BY <1>1, <1>3, <1>4, <1>5, BecomeIs

(* A new process.                                                           *)
LEMMA NewIs ==
  ASSUME NEW image, NEW program, NEW argument, IsString(argument), Len(argument) <= BUFSIZE,
         NEW p, p = NewProcess(program, argument)
  PROVE  /\ IsProc(image, p) /\ p.program = program /\ p.pc = "main"
         /\ p.argument = argument /\ p.fds = FreshTable
  <1>1. p = [program |-> program, pc |-> "main", argument |-> argument, fds |-> FreshTable, v |-> <<>>]
    BY DEF NewProcess
  <1>2. p.program = program /\ p.pc = "main" /\ p.argument = argument /\ p.fds = FreshTable /\ p.v = <<>>
    BY <1>1
  <1>3. FreshTable \in Tables(image)
    BY FreshTyped
  <1> QED BY <1>1, <1>2, <1>3 DEF IsProc

(* The base shell has no argument.                                          *)
LEMMA NoArgument == IsString(<<>>) /\ Len(<<>>) <= BUFSIZE
  <1>1. IsSeq(<<>>, 0)
    BY DEF IsSeq
  <1>2. IsString(<<>>) /\ Len(<<>>) = 0
    BY <1>1, IsStringIf
  <1> QED BY <1>2, ProgramsAssumption

(* execute() puts a process on the shell that waits for it.                 *)
LEMMA Pushed ==
  ASSUME NEW image, NEW s, NEW n, Chain(image, s, n), IsShell(Last(s)), n # MAX_PCB,
         NEW p, IsProc(image, p)
  PROVE  Chain(image, Append(s, p), n + 1) /\ Last(Append(s, p)) = p
  <1>1. n \in Nat \ {0} /\ n + 1 \in 1 .. MAX_PCB /\ IsSeq(s, n) /\ Last(s) = s[n] /\ n \in 1 .. n
    <2>1. MAX_PCB \in Nat \ {0}
      BY ShellAssumption
    <2>2. n \in 1 .. MAX_PCB /\ IsSeq(s, n)
      BY DEF Chain
    <2>3. Last(s) = s[n]
      BY ChainIs
    <2> QED BY <2>1, <2>2, <2>3
  <1>2. PICK S : s \in Seq(S) /\ Len(s) = n
    BY <1>1, SeqIs
  <1>3. s \in Seq(S \cup {p})
    BY <1>2
  <1>4. PICK t : t = Append(s, p)
    OBVIOUS
  <1>5. t \in Seq(S \cup {p}) /\ Len(t) = n + 1 /\ t[n + 1] = p /\ \A i \in 1 .. n : t[i] = s[i]
    BY <1>2, <1>3, <1>4
  <1>6. IsSeq(t, n + 1)
    BY <1>5, SeqHas
  <1>7. \A i \in 1 .. n + 1 : i = n + 1 \/ i \in 1 .. n
    BY <1>1
  <1>8. \A i \in 1 .. n + 1 : IsProc(image, t[i])
    BY <1>5, <1>7 DEF Chain
  <1>9. \A i \in 1 .. n + 1 : i < n + 1 => IsShell(t[i])
    <2> SUFFICES ASSUME NEW i \in 1 .. n PROVE IsShell(t[i])
      BY <1>1
    <2>1. i = n \/ i < n
      BY <1>1
    <2>2. IsShell(s[i])
      BY <2>1, <1>1 DEF Chain
    <2> QED BY <2>2, <1>5
  <1>10. Chain(image, t, n + 1)
    BY <1>1, <1>6, <1>8, <1>9 DEF Chain
  <1> QED BY <1>4, <1>5, <1>10, ChainIs

(* halt() brings back the shell under the process.                          *)
LEMMA Popped ==
  ASSUME NEW image, NEW s, NEW n, Chain(image, s, n), n # 1
  PROVE  Chain(image, Front(s), n - 1) /\ IsShell(Last(Front(s)))
  <1>0. n \in Nat \ {0} /\ Len(s) = n
    BY ChainIs
  <1>1. n \in Nat \ {0, 1} /\ n - 1 \in 1 .. MAX_PCB /\ IsSeq(s, n) /\ Len(s) = n
    BY <1>0, ShellAssumption DEF Chain
  <1>2. PICK t : t = Front(s)
    OBVIOUS
  <1>3. PICK m \in Nat \ {0} : m = n - 1
    BY <1>1
  <1>4. IsPart(t, s, 0, m)
    <2>1. t = SubSeq(s, 0 + 1, 0 + m) /\ 0 + m <= n /\ 0 \in Nat
      BY <1>1, <1>2, <1>3 DEF Front
    <2> QED BY <2>1, <1>1, <1>3, PartIs
  <1>5. IsSeq(t, m) /\ \A i \in 1 .. m : t[i] = s[i]
    BY <1>4 DEF IsPart
  <1>6. \A i \in 1 .. m : IsProc(image, t[i]) /\ IsShell(t[i])
    BY <1>1, <1>3, <1>5 DEF Chain
  <1>7. Chain(image, t, m)
    BY <1>1, <1>3, <1>5, <1>6 DEF Chain
  <1>8. Last(t) = t[m] /\ m \in 1 .. m
    BY <1>7, ChainIs
  <1> QED BY <1>2, <1>3, <1>6, <1>7, <1>8

(* What the parent's execute() returns is a status, or 256.                 *)
LEMMA ReturnValueIs ==
  ASSUME NEW status \in Int
  PROVE  ReturnValue(status) \in -1 .. 256
  BY DEF ReturnValue

(* After halt() a shell runs, the parent or a new base shell.               *)
LEMMA HaltIs ==
  ASSUME Base, NEW status \in Int, NEW how, Halt(status, how), disk' = disk
  PROVE  Base' /\ IsShell(Top')
  <1>1. PICK s, n : s = stack /\ n = Len(stack)
    OBVIOUS
  <1>2. Chain(disk, s, n) /\ disk \in Disks /\ message \in Words
    BY <1>1 DEF Base
  <1>3. CASE n = 1
    <2>1. PICK p : p = NewProcess("shell", <<>>)
      OBVIOUS
    <2>2. IsProc(disk, p) /\ IsShell(p)
      BY <2>1, NewIs, NoArgument DEF IsShell
    <2>3. stack' = <<p>> /\ message' = message
      BY <1>1, <1>2, <1>3, <2>1, ShellAssumption DEF Halt
    <2>4. PICK t : t = <<p>>
      OBVIOUS
    <2>5. IsSeq(t, 1) /\ t[1] = p
      BY <2>4 DEF IsSeq
    <2>6. Chain(disk, t, 1)
      BY <2>2, <2>5, ShellAssumption DEF Chain
    <2>7. Len(t) = 1 /\ Last(t) = p
      BY <2>5, <2>6, ChainIs
    <2> QED BY <1>2, <2>2, <2>3, <2>4, <2>6, <2>7 DEF Base, Top
  <1>4. CASE n # 1
    <2>1. stack' = Front(s) /\ message' = Message(ReturnValue(status))
      BY <1>1, <1>4 DEF Halt
    <2>2. message' \in Words
      BY <2>1, ReturnValueIs DEF Words
    <2>3. PICK t : t = Front(s)
      OBVIOUS
    <2>4. Chain(disk, t, n - 1) /\ IsShell(Last(t))
      BY <1>2, <1>4, <2>3, Popped
    <2>5. Len(t) = n - 1
      BY <2>4, ChainIs
    <2> QED BY <1>2, <2>1, <2>2, <2>3, <2>4, <2>5 DEF Base, Top
  <1> QED BY <1>3, <1>4

(* A line typed leaves the shell running, or starts a program with a new    *)
(* table.                                                                   *)
LEMMA LaunchIs ==
  ASSUME Base, NEW line \in Lines, ShellRead(line)
  PROVE  /\ Base'
         /\ \/ IsShell(Top')
            \/ Top'.pc = "main" /\ Top'.fds = FreshTable /\ out' = <<>>
  <1>0. IsShell(Top) /\ disk' = disk /\ out' = <<>>
    BY DEF ShellRead, At, IsShell
  <1>1. PICK s, n : s = stack /\ n = Len(stack)
    OBVIOUS
  <1>2. Chain(disk, s, n) /\ disk \in Disks
    BY <1>1 DEF Base
  <1>3. CASE TableIsFull \/ ~ArgumentFits(line) \/ ~Executable(FirstWord(line))
    <2>1. stack' = stack /\ message' \in {Message(0), Message(-1)}
      BY <1>3 DEF ShellRead
    <2>2. message' \in Words
      BY <2>1 DEF Words
    <2> QED BY <1>0, <2>1, <2>2 DEF Base, Top
  <1>4. CASE ~TableIsFull /\ ArgumentFits(line) /\ Executable(FirstWord(line))
    <2>1. PICK p : p = NewProcess(ProgramOf(disk, FirstWord(line)), Argument(line))
      OBVIOUS
    <2>2. IsProc(disk, p) /\ p.pc = "main" /\ p.fds = FreshTable
      <3>1. Len(Argument(line)) <= BUFSIZE
        BY <1>4, ArgumentIs, ShellAssumption, ProgramsAssumption DEF ArgumentFits
      <3> QED BY <2>1, <3>1, NewIs, ArgumentIs
    <2>3. stack' = Append(s, p) /\ message' = "none" /\ n # MAX_PCB
      BY <1>1, <1>4, <2>1 DEF ShellRead, TableIsFull
    <2>4. PICK t : t = Append(s, p)
      OBVIOUS
    <2>5. Chain(disk, t, n + 1) /\ Last(t) = p
      <3>1. IsShell(Last(s))
        BY <1>0, <1>1 DEF Top
      <3> QED BY <3>1, <1>2, <2>2, <2>3, <2>4, Pushed
    <2>6. Len(t) = n + 1
      BY <2>5, ChainIs
    <2>7. message' \in Words
      <3>1. Message(0) = "none"
        BY DEF Message
      <3> QED BY <3>1, <2>3 DEF Words
    <2> QED BY <1>0, <1>2, <2>2, <2>3, <2>4, <2>5, <2>6, <2>7 DEF Base, Top
  <1> QED BY <1>3, <1>4

(* The fields of a process with some replaced.                              *)
LEMMA ProcHas ==
  ASSUME NEW p, NEW pc, NEW fds, NEW v, NEW q, q = Proc(p, pc, fds, v)
  PROVE  q.program = p.program /\ q.pc = pc /\ q.argument = p.argument /\ q.fds = fds /\ q.v = v
  BY DEF Proc

(* A line that overruns execute()'s frame leaves a shell that does nothing   *)
(* more.                                                                    *)
LEMMA OverrunIs ==
  ASSUME Base, NEW line \in Lines, ShellOverrun(line)
  PROVE  Base' /\ Top'.program = "shell" /\ Top'.pc = "lost"
  <1>1. PICK p : p = Top
    OBVIOUS
  <1>2. IsProc(disk, p) /\ p.fds \in Tables(disk) /\ p.program = "shell"
    BY <1>1, TopIs DEF IsProc, ShellOverrun, At
  <1>3. PICK q : q = [p EXCEPT !.pc = "lost"]
    OBVIOUS
  <1>4. p = [program |-> p.program, pc |-> p.pc, argument |-> p.argument, fds |-> p.fds, v |-> p.v]
    BY <1>2 DEF IsProc
  <1>5. q = Proc(p, "lost", p.fds, p.v)
    BY <1>3, <1>4 DEF Proc
  <1>6. IsProc(disk, Proc(p, "lost", p.fds, p.v))
    BY <1>2, ProcIs
  <1>7. Become(q) /\ disk' = disk /\ message' = "none"
    BY <1>1, <1>3 DEF ShellOverrun
  <1>8. message' \in Words
    <2>1. Message(0) = "none"
      BY DEF Message
    <2> QED BY <2>1, <1>7 DEF Words
  <1>9. Base' /\ Top' = q
    BY <1>5, <1>6, <1>7, <1>8, BecomeIs
  <1> QED BY <1>2, <1>5, <1>9, ProcHas

-----------------------------------------------------------------------------
(* What a process is doing: its status once main() has returned is one of S,  *)
(* grep has no more left over than its buffer holds, and syserr has counted *)
(* two for each test that failed.                                          *)
Allowed(S) == /\ S \subseteq Int /\ Statuses \subseteq S
              /\ 3 \in S /\ \A k \in Nat : 2 * k \in S
IsText(s, n) == \E k \in 0 .. n : IsSeq(s, k)
Even == {2 * k : k \in Nat}
Doing(p, S) ==
  /\ p.pc = "return" => p.v.status \in S
  /\ p.program = "grep" /\ p.pc = "scan" => IsText(p.v.data, BUFSIZE)
  /\ p.program = "syserr" /\ p.pc = "test" => p.v.fail \in Even /\ p.v.todo \in Seq(1 .. 8)

(* The statuses of the small programs are allowed.                          *)
LEMMA Statuses023 == ASSUME NEW S, Allowed(S) PROVE 0 \in S /\ 2 \in S /\ 3 \in S
  <1>1. 2 * 0 = 0 /\ 2 * 1 = 2
    OBVIOUS
  <1> QED BY <1>1 DEF Allowed

(* A process that has just been started, or goes on to a place of no weight.  *)
LEMMA DoingNew ==
  ASSUME NEW p, NEW S, p.pc \in {"main", "copy", "list", "count", "bad", "out", "back", "lost"}
  PROVE  Doing(p, S)
  BY DEF Doing

(* A program that has returned an allowed status is as expected.            *)
LEMMA DoingReturned ==
  ASSUME NEW p, NEW S, NEW status \in S, p.pc = "return", p.v = [status |-> status]
  PROVE  Doing(p, S)
  BY DEF Doing

(* A step of a program, which leaves it in place.                            *)
Stays == Top'.program = Top.program /\ Top'.argument = Top.argument /\ Top'.pc # "main"

(* A program that goes on to a place without conditions is as expected      *)
(* there.                                                                   *)
LEMMA GoOn ==
  ASSUME Base, NEW S, NEW fds \in Tables(disk), NEW v, disk' = disk, message' \in Words,
         NEW pc \in {"copy", "list", "count", "bad", "out", "back"}, Go(pc, fds, v)
  PROVE  Base' /\ Doing(Top', S) /\ Stays
  <1>1. Base' /\ Top' = Proc(Top, pc, fds, v)
    BY GoIs
  <1>2. Top'.pc = pc /\ Stays
    BY <1>1, ProcHas DEF Stays
  <1> QED BY <1>1, <1>2, DoingNew

(* A program that returns an allowed status is as expected.                 *)
LEMMA ReturnsWith ==
  ASSUME Base, NEW S, NEW status \in S, disk' = disk, message' \in Words, Return(Top, status)
  PROVE  Base' /\ Doing(Top', S) /\ Stays
  <1>1. Base' /\ Top' = Proc(Top, "return", Top.fds, [status |-> status])
    BY ReturnIs
  <1>2. Top'.pc = "return" /\ Top'.v = [status |-> status] /\ Stays
    BY <1>1, ProcHas DEF Stays
  <1> QED BY <1>1, <1>2, DoingReturned

(* A quiet step leaves the message of the shell.                            *)
LEMMA QuietIs == ASSUME Base, Quiet PROVE message' \in Words
  BY DEF Base, Quiet

(* After halt() the process on top is as expected.                          *)
LEMMA HaltEnds ==
  ASSUME Base, NEW status \in Int, NEW how, NEW S, Halt(status, how), disk' = disk
  PROVE  Base' /\ Doing(Top', S)
  <1>1. Base' /\ IsShell(Top')
    BY HaltIs
  <1> QED BY <1>1, DoingNew DEF IsShell

(* The shell, for each line.                                                *)
LEMMA ShellReads ==
  ASSUME Base, NEW S, NEW line \in Lines, ShellRead(line) \/ ShellOverrun(line)
  PROVE  Base' /\ Doing(Top', S)
  <1>1. CASE ShellRead(line)
    <2>1. Base' /\ Top'.pc = "main"
      BY <1>1, LaunchIs DEF IsShell
    <2> QED BY <2>1, DoingNew
  <1>2. CASE ShellOverrun(line)
    <2>1. Base' /\ Top'.pc = "lost"
      BY <1>2, OverrunIs
    <2> QED BY <2>1, DoingNew
  <1> QED BY <1>1, <1>2

(* The ends of the shell and of a program.                                  *)
LEMMA ShellSteps ==
  ASSUME Base, NEW S, Allowed(S), Doing(Top, S), ShellExit \/ Leave
  PROVE  Base' /\ Doing(Top', S)
  <1>1. CASE ShellExit
    <2>1. Return(Top, 0) /\ disk' = disk /\ message' \in Words
      BY <1>1, QuietIs DEF ShellExit
    <2> QED BY <2>1, Statuses023, ReturnsWith
  <1>2. CASE Leave
    <2>1. PICK st : st = Top.v.status
      OBVIOUS
    <2>2. st \in Int /\ Halt(st, <<"exit", st>>) /\ disk' = disk
      BY <1>2, <2>1 DEF Leave, Doing, Allowed
    <2> QED BY <2>2, HaltEnds
  <1> QED BY <1>1, <1>2

(* A loop that reads ends with an allowed status.                           *)
LEMMA AtEndStatus == ASSUME NEW r, NEW S, Allowed(S) PROVE EndStatus(r) \in S
  BY Statuses023 DEF EndStatus

(* The steps of cat.                                                        *)
LEMMA CatSteps ==
  ASSUME Base, NEW S, Allowed(S), CatOpen \/ CatCopy
  PROVE  Base' /\ Doing(Top', S) /\ Stays
  <1>0. disk \in Disks /\ Top.fds \in Tables(disk) /\ 0 \in S /\ 2 \in S /\ 3 \in S
    BY TopIs, Statuses023 DEF Base, IsProc
  <1>1. CASE CatOpen
    <2>1. PICK name : name = Getargs(Top.fds, Top.argument, BUFSIZE)
      OBVIOUS
    <2>0. PICK text : text = name.data
      OBVIOUS
    <2>2. PICK file : file = Open(disk, Top.fds, text)
      OBVIOUS
    <2>3. disk' = disk /\ message' \in Words
      BY <1>1, QuietIs DEF CatOpen
    <2>4. PICK v : v = [fd |-> file.ret]
      OBVIOUS
    <2>5. Return(Top, 3) \/ Return(Top, 2) \/ Go("copy", file.fds, v)
      BY <1>1, <2>0, <2>1, <2>2, <2>4 DEF CatOpen
    <2>6. file.fds \in Tables(disk)
      BY <1>0, <2>2, OpenIs
    <2>7. CASE Return(Top, 3)
      BY <2>3, <2>7, <1>0, ReturnsWith
    <2>8. CASE Return(Top, 2)
      BY <2>3, <2>8, <1>0, ReturnsWith
    <2>9. CASE Go("copy", file.fds, v)
      BY <2>3, <2>9, <2>6, GoOn
    <2> QED BY <2>5, <2>7, <2>8, <2>9
  <1>2. CASE CatCopy
    <2>1. PICK r : r = Read(disk, Top.fds, Top.v.fd, BUFSIZE)
      OBVIOUS
    <2>2. disk' = disk /\ message' \in Words
      BY <1>2 DEF CatCopy, Base
    <2>3. Return(Top, EndStatus(r)) \/ Go("copy", r.fds, Top.v)
      BY <1>2, <2>1 DEF CatCopy
    <2>4. r.fds \in Tables(disk)
      BY <2>1, <1>0, ReadTyped, ProgramsAssumption
    <2>5. CASE Return(Top, EndStatus(r))
      BY <2>2, <2>5, AtEndStatus, ReturnsWith
    <2>6. CASE Go("copy", r.fds, Top.v)
      BY <2>2, <2>6, <2>4, GoOn
    <2> QED BY <2>3, <2>5, <2>6
  <1> QED BY <1>1, <1>2

(* The steps of ls.                                                         *)
LEMMA LsSteps ==
  ASSUME Base, NEW S, Allowed(S), LsOpen \/ LsName
  PROVE  Base' /\ Doing(Top', S) /\ Stays
  <1>0. disk \in Disks /\ Top.fds \in Tables(disk) /\ 0 \in S /\ 2 \in S /\ 3 \in S
    BY TopIs, Statuses023 DEF Base, IsProc
  <1>1. CASE LsOpen
    <2>2. PICK file : file = Open(disk, Top.fds, <<Dot>>)
      OBVIOUS
    <2>3. disk' = disk /\ message' \in Words
      BY <1>1, QuietIs DEF LsOpen
    <2>4. PICK v : v = [fd |-> file.ret]
      OBVIOUS
    <2>5. Return(Top, 2) \/ Go("list", file.fds, v)
      BY <1>1, <2>2, <2>4 DEF LsOpen, Directory
    <2>6. file.fds \in Tables(disk)
      BY <1>0, <2>2, OpenIs
    <2>8. CASE Return(Top, 2)
      BY <2>3, <2>8, <1>0, ReturnsWith
    <2>9. CASE Go("list", file.fds, v)
      BY <2>3, <2>9, <2>6, GoOn
    <2> QED BY <2>5, <2>8, <2>9
  <1>2. CASE LsName
    <2>1. PICK r : r = Read(disk, Top.fds, Top.v.fd, FILE_NAME_SIZE)
      OBVIOUS
    <2>2. disk' = disk /\ message' \in Words
      BY <1>2 DEF LsName, Base
    <2>3. Return(Top, EndStatus(r)) \/ Go("list", r.fds, Top.v)
      BY <1>2, <2>1 DEF LsName
    <2>4. r.fds \in Tables(disk)
      BY <2>1, <1>0, ReadTyped, FileSystemAssumption
    <2>5. CASE Return(Top, EndStatus(r))
      BY <2>2, <2>5, AtEndStatus, ReturnsWith
    <2>6. CASE Go("list", r.fds, Top.v)
      BY <2>2, <2>6, <2>4, GoOn
    <2> QED BY <2>3, <2>5, <2>6
  <1> QED BY <1>1, <1>2

-----------------------------------------------------------------------------
(* A read returns no more than it was asked for.                             *)
LEMMA ReadCount ==
  ASSUME NEW image \in Disks, NEW fds \in Tables(image), NEW fd, NEW n \in Nat,
         NEW r, r = Read(image, fds, fd, n)
  PROVE  r.ret \in {Fail} \cup 0 .. n
  <1>1. CASE ~Usable(fds, fd, n)
    BY <1>1 DEF Read, Failed, Result
  <1>2. CASE Usable(fds, fd, n)
    <2>1. fd \in Fds
      BY <1>2 DEF Usable
    <2>2. CASE fds[fd].ops = "file"
      <3>1. r = FileRead(image, fds, fd, n)
        BY <1>2, <2>2 DEF Read
      <3>2. PICK inode, pos : inode = fds[fd].inode /\ pos = fds[fd].pos
        OBVIOUS
      <3>3. PICK k \in Nat : k = Available(image, inode, pos, n) /\ r.ret = k
        BY <2>1, <2>2, <3>1, <3>2, FileReadIs
      <3>5. InodeAt(image, inode).length \in Nat /\ pos \in Nat
        BY <2>1, <2>2, <3>2, SizeIs DEF Tables, Descriptor
      <3>6. k <= n
        BY <3>3, <3>5 DEF Available, Lesser
      <3> QED BY <3>3, <3>6
    <2>3. CASE fds[fd].ops = "dir"
      <3>1. r = DirRead(image, fds, fd, n)
        BY <1>2, <2>3 DEF Read
      <3>2. PICK index : index = fds[fd].pos
        OBVIOUS
      <3>3. r.ret = n \/ r.ret = 0
        BY <2>1, <2>3, <3>1, <3>2, DirReadIs
      <3> QED BY <3>3
    <2>4. CASE fds[fd].ops = "rtc"
      BY <2>4, <1>2 DEF Read, Result
    <2>5. CASE fds[fd].ops \notin {"file", "dir", "rtc"}
      BY <2>5, <1>2 DEF Read, Failed, Result
    <2> QED BY <2>2, <2>3, <2>4, <2>5
  <1> QED BY <1>1, <1>2

(* A set of numbers up to n has a greatest one.                             *)
LEMMA BiggestIs ==
  ASSUME NEW n \in Nat, NEW S, S \subseteq 1 .. n, S # {}
  PROVE  \E i \in S : \A k \in S : k <= i
  <1>1. PICK T : T = {n - i : i \in S}
    OBVIOUS
  <1>0. PICK s \in S : TRUE
    OBVIOUS
  <1>2. T \subseteq Nat /\ T # {}
    <2>1. n - s \in T
      BY <1>0, <1>1
    <2>2. \A i \in S : n - i \in Nat
      OBVIOUS
    <2> QED BY <1>1, <2>1, <2>2
  <1>3. PICK m \in T : \A k \in T : m <= k
    BY <1>2, Smallest
  <1>4. PICK i \in S : m = n - i
    BY <1>1, <1>3
  <1>5. ASSUME NEW k \in S PROVE k <= i
    <2>1. m <= n - k
      BY <1>1, <1>3
    <2> QED BY <2>1, <1>4
  <1> QED BY <1>5

(* The start of the last line of a text is the greatest start.              *)
LEMMA LastStartIs ==
  ASSUME NEW text, NEW n \in Nat \ {0}, IsSeq(text, n)
  PROVE  /\ LastStart(text) \in LineStarts(text) /\ LastStart(text) \in 1 .. n
         /\ \A k \in LineStarts(text) : k <= LastStart(text)
  <1>1. Len(text) = n
    BY SeqIs
  <1>2. LineStarts(text) \subseteq 1 .. n /\ 1 \in LineStarts(text)
    BY <1>1 DEF LineStarts
  <1>3. \E i \in LineStarts(text) : \A k \in LineStarts(text) : k <= i
    BY <1>2, BiggestIs
  <1> QED BY <1>2, <1>3 DEF LastStart

(* What is left over is the end of the text.                                *)
LEMMA LeftoverIs ==
  ASSUME NEW text, NEW n \in Nat, IsSeq(text, n), NEW cnt
  PROVE  \E k \in 0 .. n : /\ IsPart(Leftover(text, cnt), text, n - k, k)
                           /\ k = 0 \/ (cnt # 0 /\ n # 0 /\ Last(text) # Newline /\ LastStart(text) = n - k + 1 /\ k < n)
                           /\ k = 0 => cnt = 0 \/ n = 0 \/ Last(text) = Newline \/ LastStart(text) = 1
  <1>0. Len(text) = n
    BY SeqIs
  <1>1. CASE cnt = 0 \/ text = <<>> \/ Last(text) = Newline \/ LastStart(text) = 1
    <2>1. Leftover(text, cnt) = <<>>
      BY <1>1 DEF Leftover
    <2>2. IsPart(<<>>, text, n - 0, 0)
      BY <1>0 DEF IsPart, IsSeq
    <2>3. text = <<>> => n = 0
      BY <1>0
    <2>4. cnt = 0 \/ n = 0 \/ Last(text) = Newline \/ LastStart(text) = 1
      BY <1>1, <2>3
    <2> QED BY <2>1, <2>2, <2>4
  <1>2. CASE ~(cnt = 0 \/ text = <<>> \/ Last(text) = Newline \/ LastStart(text) = 1)
    <2>0. n # 0
      BY <1>2, NoItems
    <2>1. PICK a : a = LastStart(text)
      OBVIOUS
    <2>2. a \in 1 .. n /\ a # 1
      BY <1>2, <2>0, <2>1, LastStartIs
    <2>3. PICK o \in Nat : o = a - 1
      BY <2>2
    <2>4. PICK k \in Nat : k = n - o
      BY <2>2, <2>3
    <2>5. Leftover(text, cnt) = SubSeq(text, o + 1, o + k)
      <3>1. Leftover(text, cnt) = SubSeq(text, a, Len(text))
        BY <1>2, <2>1 DEF Leftover, From
      <3>2. a = o + 1 /\ Len(text) = o + k
        BY <1>0, <2>2, <2>3, <2>4
      <3> QED BY <3>1, <3>2
    <2>6. IsPart(Leftover(text, cnt), text, o, k)
      <3>1. o + k <= n
        BY <2>3, <2>4
      <3> QED BY <2>5, <3>1, PartIs
    <2>7. o = n - k /\ k < n /\ k # 0 /\ k \in 0 .. n /\ a = n - k + 1
      BY <2>2, <2>3, <2>4
    <2> QED BY <2>0, <2>1, <2>6, <2>7, <1>2
  <1> QED BY <1>1, <1>2

(* A buffer has as many bytes as the call returned.                         *)
LEMMA BufferIs ==
  ASSUME NEW r, NEW n \in Nat, r.ret = n
  PROVE  IsSeq(Buffer(r), n)
  BY DEF Buffer, IsSeq

-----------------------------------------------------------------------------
(* The steps of grep outside a file.                                        *)
LEMMA GrepFirstSteps ==
  ASSUME Base, NEW S, Allowed(S), GrepOpen \/ GrepName
  PROVE  Base' /\ Doing(Top', S) /\ Stays
  <1>0. disk \in Disks /\ Top.fds \in Tables(disk) /\ 0 \in S /\ 2 \in S /\ 3 \in S
    BY TopIs, Statuses023 DEF Base, IsProc
  <1>3. disk' = disk /\ message' \in Words
    BY QuietIs DEF GrepOpen, GrepName
  <1>1. CASE GrepOpen
    <2>1. PICK file : file = Open(disk, Top.fds, <<Dot>>)
      OBVIOUS
    <2>2. PICK search : search = Getargs(Top.fds, Top.argument, BUFSIZE)
      OBVIOUS
    <2>4. PICK v : v = [search |-> search.data, dir |-> file.ret]
      OBVIOUS
    <2>5. Return(Top, 3) \/ Return(Top, 2) \/ Go("list", file.fds, v)
      BY <1>1, <2>1, <2>2, <2>4 DEF GrepOpen, Directory
    <2>6. file.fds \in Tables(disk)
      BY <1>0, <2>1, OpenIs
    <2>7. CASE Return(Top, 3)
      BY <1>3, <2>7, <1>0, ReturnsWith
    <2>8. CASE Return(Top, 2)
      BY <1>3, <2>8, <1>0, ReturnsWith
    <2>9. CASE Go("list", file.fds, v)
      BY <1>3, <2>9, <2>6, GoOn
    <2> QED BY <2>5, <2>7, <2>8, <2>9
  <1>2. CASE GrepName
    <2>1. PICK r : r = Read(disk, Top.fds, Top.v.dir, FILE_NAME_SIZE)
      OBVIOUS
    <2>2. PICK name : name = CString(Buffer(r))
      OBVIOUS
    <2>3. r.fds \in Tables(disk)
      BY <2>1, <1>0, ReadTyped, FileSystemAssumption
    <2>4. PICK fds : fds = r.fds
      OBVIOUS
    <2>5. PICK file : file = Open(disk, fds, name)
      OBVIOUS
    <2>6. file.fds \in Tables(disk) /\ fds \in Tables(disk)
      BY <1>0, <2>3, <2>4, <2>5, OpenIs
    <2>7. PICK v : v = [search |-> Top.v.search, dir |-> Top.v.dir,
                        name |-> name, fd |-> file.ret, data |-> <<>>]
      OBVIOUS
    <2>8. \/ Return(Top, EndStatus(r)) \/ Go("list", fds, Top.v)
          \/ Return(Top, 3)
          \/ At("grep", "list") /\ Go("scan", file.fds, v)
      BY <1>2, <2>1, <2>2, <2>4, <2>5, <2>7 DEF GrepName
    <2>9. CASE Return(Top, 3)
      BY <1>3, <2>9, <1>0, ReturnsWith
    <2>10. CASE Return(Top, EndStatus(r))
      BY <1>3, <2>10, AtEndStatus, ReturnsWith
    <2>11. CASE Go("list", fds, Top.v)
      BY <1>3, <2>11, <2>6, GoOn
    <2>12. CASE At("grep", "list") /\ Go("scan", file.fds, v)
      <3>1. Base' /\ Top' = Proc(Top, "scan", file.fds, v)
        BY <1>3, <2>12, <2>6, GoIs
      <3>2. Top'.pc = "scan" /\ Top'.program = "grep" /\ Top'.v = v /\ Stays
        BY <2>12, <3>1, ProcHas DEF At, Stays
      <3>3. IsText(<<>>, BUFSIZE)
        <4>1. IsSeq(<<>>, 0) /\ 0 \in 0 .. BUFSIZE
          BY ProgramsAssumption DEF IsSeq
        <4> QED BY <4>1 DEF IsText
      <3>4. Top'.v.data = <<>>
        BY <3>2, <2>7
      <3> QED BY <3>1, <3>2, <3>3, <3>4 DEF Doing
    <2> QED BY <2>8, <2>9, <2>10, <2>11, <2>12
  <1> QED BY <1>1, <1>2

(* The step of grep in a file: what it keeps of the buffer fits the buffer. *)
LEMMA GrepScans ==
  ASSUME Base, NEW S, Allowed(S), Doing(Top, S), GrepScan
  PROVE  Base' /\ Doing(Top', S) /\ Stays
  <1>0. disk \in Disks /\ Top.fds \in Tables(disk) /\ 0 \in S /\ 2 \in S /\ 3 \in S
    BY TopIs, Statuses023 DEF Base, IsProc
  <1>1. disk' = disk /\ message' \in Words /\ Top.program = "grep" /\ Top.pc = "scan"
    BY DEF GrepScan, Base, At
  <1>2. PICK data, n : data = Top.v.data /\ n \in 0 .. BUFSIZE /\ IsSeq(data, n)
    BY <1>1 DEF Doing, IsText
  <1>3. Len(data) = n /\ n \in Nat /\ BUFSIZE \in Nat
    BY <1>2, SeqIs, ProgramsAssumption
  <1>4. PICK m \in Nat : m = BUFSIZE - n
    BY <1>2, <1>3
  <1>5. PICK fd : fd = Top.v.fd
    OBVIOUS
  <1>6. PICK r : r = Read(disk, Top.fds, fd, m)
    OBVIOUS
  <1>7. r.fds \in Tables(disk) /\ r.ret \in {Fail} \cup 0 .. m
    BY <1>0, <1>6, ReadTyped, ReadCount
  <1>8. PICK text, rest : text = data \o Buffer(r) /\ rest = Leftover(text, r.ret)
    OBVIOUS
  <1>9. PICK main, v : main = [search |-> Top.v.search, dir |-> Top.v.dir] /\ v = [Top.v EXCEPT !.data = rest]
    OBVIOUS
  <1>10. PICK fds, fds2 : fds = r.fds /\ fds2 = Close(fds, fd).fds
    OBVIOUS
  <1>11. fds \in Tables(disk) /\ fds2 \in Tables(disk)
    BY <1>7, <1>10, CloseIs
  <1>12. \/ Return(Top, 3) \/ Go("list", fds2, main)
         \/ r.ret # Fail /\ Go("scan", fds, v)
    BY <1>2, <1>3, <1>4, <1>5, <1>6, <1>8, <1>9, <1>10 DEF GrepScan
  <1>13. CASE Return(Top, 3)
    BY <1>0, <1>1, <1>13, ReturnsWith
  <1>14. CASE Go("list", fds2, main)
    BY <1>0, <1>1, <1>11, <1>14, GoOn
  <1>15. CASE r.ret # Fail /\ Go("scan", fds, v)
    <2>1. PICK k \in Nat : k = r.ret /\ k <= m
      BY <1>7, <1>15
    <2>2. IsSeq(Buffer(r), k)
      BY <2>1, BufferIs
    <2>9. PICK all \in Nat : all = n + k /\ all <= BUFSIZE
      BY <1>3, <1>4, <2>1
    <2>3. IsSeq(text, all)
      BY <1>2, <1>3, <1>8, <2>2, <2>9, Joined DEF Joins
    <2>10. PICK cnt : cnt = r.ret
      OBVIOUS
    <2>4. PICK j \in 0 .. all : IsPart(rest, text, all - j, j)
      <3>1. rest = Leftover(text, cnt)
        BY <1>8, <2>10
      <3>2. \E j \in 0 .. all : IsPart(Leftover(text, cnt), text, all - j, j)
        BY <2>3, LeftoverIs
      <3> QED BY <3>1, <3>2
    <2>5. IsText(rest, BUFSIZE)
      BY <1>3, <2>9, <2>4 DEF IsText, IsPart
    <2>6. Base' /\ Top' = Proc(Top, "scan", fds, v)
      BY <1>1, <1>11, <1>15, GoIs
    <2>7. Top'.pc = "scan" /\ Top'.program = "grep" /\ Top'.v = v /\ Stays
      BY <1>1, <2>6, ProcHas DEF Stays
    <2>8. v.data = rest
      BY <1>9
    <2> QED BY <2>5, <2>6, <2>7, <2>8 DEF Doing
  <1> QED BY <1>12, <1>13, <1>14, <1>15

-----------------------------------------------------------------------------
(* The steps of the programs without loops, and of counter.                 *)
LEMMA SmallSteps ==
  ASSUME Base, NEW S, Allowed(S), TestPrint \/ Hello \/ CounterChoose \/ CounterCount \/ SigTest \/ OtherReturns
  PROVE  Base' /\ Doing(Top', S) /\ Stays
  <1>0. disk \in Disks /\ Top.fds \in Tables(disk) /\ 0 \in S /\ 2 \in S /\ 3 \in S
    BY TopIs, Statuses023 DEF Base, IsProc
  <1>1. disk' = disk /\ message' = message
    BY DEF TestPrint, Hello, CounterChoose, CounterCount, SigTest, OtherReturns, Quiet
  <1>2. message' \in Words
    BY <1>1 DEF Base
  <1>3. \/ \E st \in S : Return(Top, st)
        \/ \E pc \in {"count", "bad"} : \E v : Go(pc, Top.fds, v)
    <2>1. CASE TestPrint \/ Hello
      BY <2>1, <1>0 DEF TestPrint, Hello
    <2>2. CASE CounterChoose
      BY <2>2, <1>0 DEF CounterChoose
    <2>3. CASE CounterCount
      BY <2>3, <1>0 DEF CounterCount
    <2>4. CASE SigTest
      BY <2>4, <1>0 DEF SigTest
    <2>5. CASE OtherReturns
      BY <2>5 DEF OtherReturns, Allowed
    <2> QED BY <2>1, <2>2, <2>3, <2>4, <2>5
  <1>4. CASE \E st \in S : Return(Top, st)
    BY <1>1, <1>2, <1>4, ReturnsWith
  <1>5. CASE \E pc \in {"count", "bad"} : \E v : Go(pc, Top.fds, v)
    <2>1. PICK pc, v : pc \in {"count", "bad"} /\ Go(pc, Top.fds, v)
      BY <1>5
    <2> QED BY <1>0, <1>1, <1>2, <2>1, GoOn
  <1> QED BY <1>3, <1>4, <1>5

(* A fault ends the program.                                                *)
LEMMA Faults ==
  ASSUME Base, NEW S, SigFault \/ OtherFaults
  PROVE  Base' /\ Doing(Top', S)
  <1>1. PICK vec : Fault(vec)
    BY DEF SigFault, OtherFaults
  <1>2. HandlerStatus(vec) \in Int /\ Halt(HandlerStatus(vec), <<"exception">>) /\ disk' = disk
    BY <1>1 DEF Fault, HandlerStatus
  <1> QED BY <1>2, HaltEnds

(* The steps of pingpong.                                                   *)
LEMMA PingPongSteps ==
  ASSUME Base, NEW S, PingPongOpen \/ PingPongMove
  PROVE  Base' /\ Doing(Top', S) /\ Stays
  <1>0. disk \in Disks /\ Top.fds \in Tables(disk)
    BY TopIs DEF Base, IsProc
  <1>1. disk' = disk /\ message' = message
    BY DEF PingPongOpen, PingPongMove, Quiet
  <1>2. message' \in Words
    BY <1>1 DEF Base
  <1>3. CASE PingPongOpen
    <2>1. PICK file : file = Open(disk, Top.fds, RtcName)
      OBVIOUS
    <2>2. file.fds \in Tables(disk)
      BY <1>0, <2>1, OpenIs
    <2>3. \E v : Go("out", file.fds, v)
      BY <1>3, <2>1 DEF PingPongOpen
    <2> QED BY <1>1, <1>2, <2>2, <2>3, GoOn
  <1>4. CASE PingPongMove
    <2>1. \E v : Go("out", Top.fds, v) \/ Go("back", Top.fds, v)
      BY <1>4 DEF PingPongMove
    <2> QED BY <1>0, <1>1, <1>2, <2>1, GoOn
  <1> QED BY <1>3, <1>4

(* The calls of syserr.                                                     *)
IsCall(c) == c.eax = SYS_READ => c.edx \in Int

(* The system calls that leave the process keep its table typed.            *)
LEMMA CallTyped ==
  ASSUME NEW image \in Disks, NEW fds \in Tables(image), NEW c, IsCall(c),
         c.eax \notin {1, 2, 7}
  PROVE  SystemCall(image, fds, c).fds \in Tables(image)
  <1>1. PICK ebx : ebx = c.ebx
    OBVIOUS
  <1>2. CASE c.eax = SYS_READ
    <2>1. PICK n \in Int : n = c.edx
      BY <1>2 DEF IsCall
    <2>2. Read(image, fds, ebx, n).fds \in Tables(image)
      BY ReadTyped
    <2>3. SystemCall(image, fds, c) = Read(image, fds, ebx, n)
      BY <1>1, <1>2, <2>1 DEF SystemCall, SYS_READ, SYS_WRITE, SYS_OPEN, SYS_CLOSE, SYS_VIDMAP,
                    SYS_SET_HANDLER, SYS_SIGRETURN
    <2> QED BY <2>2, <2>3
  <1>3. CASE c.eax = SYS_OPEN
    <2>1. PICK r : r = Open(image, fds, ebx)
      OBVIOUS
    <2>2. r.fds \in Tables(image)
      BY <2>1, OpenIs
    <2>3. SystemCall(image, fds, c) = r
      BY <1>1, <1>3, <2>1 DEF SystemCall, SYS_READ, SYS_WRITE, SYS_OPEN, SYS_CLOSE, SYS_VIDMAP,
                    SYS_SET_HANDLER, SYS_SIGRETURN
    <2> QED BY <2>2, <2>3
  <1>4. CASE c.eax = SYS_CLOSE
    <2>1. PICK r : r = Close(fds, ebx)
      OBVIOUS
    <2>2. r.fds \in Tables(image)
      BY <2>1, CloseIs
    <2>3. SystemCall(image, fds, c) = r
      BY <1>1, <1>4, <2>1 DEF SystemCall, SYS_READ, SYS_WRITE, SYS_OPEN, SYS_CLOSE, SYS_VIDMAP,
                    SYS_SET_HANDLER, SYS_SIGRETURN
    <2> QED BY <2>2, <2>3
  <1>5. CASE c.eax \notin {SYS_READ, SYS_OPEN, SYS_CLOSE}
    <2>1. SystemCall(image, fds, c).fds = fds
      <3>1. CASE c.eax \notin 1 .. 10
        BY <3>1 DEF SystemCall, Failed, Result, SYS_READ, SYS_WRITE, SYS_OPEN, SYS_CLOSE, SYS_VIDMAP,
                    SYS_SET_HANDLER, SYS_SIGRETURN
      <3>2. CASE c.eax = SYS_WRITE
        BY <3>2 DEF SystemCall, Write, Failed, Result, SYS_READ, SYS_WRITE, SYS_OPEN, SYS_CLOSE, SYS_VIDMAP,
                    SYS_SET_HANDLER, SYS_SIGRETURN
      <3>3. CASE c.eax = SYS_VIDMAP
        BY <3>3 DEF SystemCall, Vidmap, Failed, Result, SYS_READ, SYS_WRITE, SYS_OPEN, SYS_CLOSE, SYS_VIDMAP,
                    SYS_SET_HANDLER, SYS_SIGRETURN
      <3>4. CASE c.eax \in {SYS_SET_HANDLER, SYS_SIGRETURN}
        BY <3>4 DEF SystemCall, Result, SYS_READ, SYS_WRITE, SYS_OPEN, SYS_CLOSE, SYS_VIDMAP,
                    SYS_SET_HANDLER, SYS_SIGRETURN
      <3>5. c.eax \in 1 .. 10 => c.eax \in {SYS_WRITE, SYS_VIDMAP, SYS_SET_HANDLER, SYS_SIGRETURN}
        BY <1>5 DEF SYS_READ, SYS_WRITE, SYS_OPEN, SYS_CLOSE, SYS_VIDMAP, SYS_SET_HANDLER, SYS_SIGRETURN
      <3> QED BY <3>1, <3>2, <3>3, <3>4, <3>5
    <2> QED BY <2>1
  <1> QED BY <1>2, <1>3, <1>4, <1>5

-----------------------------------------------------------------------------
(* The loop of a test: the table and the failures after i of its calls.      *)
Outcome(a, c, i) ==
  LET r == SystemCall(disk, a.fds, c)
  IN  [fds |-> r.fds, failed |-> IF r.ret = Fail THEN a.failed \cup {i} ELSE a.failed]
Start(fds) == [fds |-> fds, failed |-> {}]
Runs(f, fds, calls, n) ==
  /\ f[0] = Start(fds) /\ \A i \in 1 .. n : f[i] = Outcome(f[i - 1], calls[i], i)

(* The calls of a test, one by one.                                         *)
LEMMA AfterIs ==
  ASSUME NEW fds, NEW calls, NEW n \in Nat, n = Len(calls)
  PROVE  \E f : Runs(f, fds, calls, n) /\ AfterCalls(fds, calls) = f[n]
  <1> DEFINE Line(f, i) == IF i = 0 THEN Start(fds) ELSE Outcome(f[i - 1], calls[i], i)
             T == {m \in Nat : ~\E f : f = [i \in 0 .. m |-> Line(f, i)]}
  <1>1. T = {}
    <2> SUFFICES ASSUME T # {} PROVE FALSE
      OBVIOUS
    <2>0. T \subseteq Nat
      OBVIOUS
    <2>1. PICK m \in T : \A j \in T : m <= j
      BY <2>0, Smallest
    <2>2. CASE m = 0
      <3>1. PICK g : g = [i \in 0 .. 0 |-> Start(fds)]
        OBVIOUS
      <3>2. \A i \in 0 .. 0 : Line(g, i) = Start(fds)
        OBVIOUS
      <3>3. g = [i \in 0 .. 0 |-> Line(g, i)]
        BY <3>1, <3>2
      <3> QED BY <3>3, <2>2
    <2>3. CASE m # 0
      <3>0. m - 1 \in Nat /\ ~(m <= m - 1)
        BY <2>1, <2>3
      <3>1. m - 1 \notin T
        BY <2>1, <3>0
      <3>2. PICK g : g = [i \in 0 .. m - 1 |-> Line(g, i)]
        BY <3>0, <3>1
      <3>3. PICK f : f = [i \in 0 .. m |-> IF i = m THEN Line(g, m) ELSE g[i]]
        OBVIOUS
      <3>4. ASSUME NEW i \in 0 .. m
            PROVE  f[i] = Line(f, i)
        <4>1. f[i] = Line(g, i)
          <5>1. CASE i = m
            BY <5>1, <3>3
          <5>2. CASE i # m
            <6>1. i \in 0 .. m - 1
              BY <5>2, <2>1
            <6>2. f[i] = g[i]
              BY <5>2, <3>3
            <6>3. g[i] = Line(g, i)
              BY <6>1, <3>2
            <6> QED BY <6>2, <6>3
          <5> QED BY <5>1, <5>2
        <4>2. i # 0 => f[i - 1] = g[i - 1]
          BY <2>1, <3>3
        <4>3. Line(g, i) = Line(f, i)
          BY <4>2
        <4> QED BY <4>1, <4>3
      <3>5. f = [i \in 0 .. m |-> Line(f, i)]
        BY <3>3, <3>4
      <3> QED BY <3>5
    <2> QED BY <2>2, <2>3
  <1>2. \E f : f = [i \in 0 .. n |-> Line(f, i)]
    BY <1>1
  <1>3. PICK f : f = CHOOSE h : h = [i \in 0 .. n |-> Line(h, i)]
    OBVIOUS
  <1>4. f = [i \in 0 .. n |-> Line(f, i)]
    BY <1>2, <1>3
  <1>5. AfterCalls(fds, calls) = f[n]
    BY <1>3 DEF AfterCalls, Start, Outcome
  <1>6. Runs(f, fds, calls, n)
    <2>1. f[0] = Start(fds)
      BY <1>4
    <2>2. \A i \in 1 .. n : f[i] = Outcome(f[i - 1], calls[i], i)
      BY <1>4
    <2> QED BY <2>1, <2>2 DEF Runs
  <1> QED BY <1>5, <1>6

(* One call of a test.                                                      *)
LEMMA OutcomeIs ==
  ASSUME NEW a, NEW c, NEW i, NEW fds, fds = a.fds, NEW r, r = SystemCall(disk, fds, c),
         NEW o, o = Outcome(a, c, i)
  PROVE  /\ o.fds = r.fds
         /\ r.ret = Fail => o.failed = a.failed \cup {i}
         /\ r.ret # Fail => o.failed = a.failed
  BY DEF Outcome

(* Calls of the tests.                                                      *)
Known(c) == IsCall(c) /\ c.eax \notin {1, 2, 7}
AllKnown(calls, n) == IsSeq(calls, n) /\ \A i \in 1 .. n : Known(calls[i])

(* The calls of a test leave the table typed.                               *)
LEMMA TestTyped ==
  ASSUME disk \in Disks, NEW fds \in Tables(disk), NEW calls, NEW n \in Nat, AllKnown(calls, n)
  PROVE  AfterCalls(fds, calls).fds \in Tables(disk)
  <1>0. n = Len(calls)
    BY SeqIs DEF AllKnown
  <1>1. PICK f : Runs(f, fds, calls, n) /\ AfterCalls(fds, calls) = f[n]
    BY <1>0, AfterIs
  <1> DEFINE T == {i \in 0 .. n : f[i].fds \notin Tables(disk)}
  <1>2. T = {}
    <2> SUFFICES ASSUME T # {} PROVE FALSE
      OBVIOUS
    <2>0. T \subseteq Nat
      OBVIOUS
    <2>1. PICK i \in T : \A j \in T : i <= j
      BY <2>0, Smallest
    <2>2. i # 0
      <3>1. f[0].fds = fds
        BY <1>1 DEF Runs, Start
      <3> QED BY <3>1, <2>1
    <2>3. PICK k \in 0 .. n : k = i - 1 /\ i \in 1 .. n
      BY <2>1, <2>2
    <2>4. f[k].fds \in Tables(disk) /\ f[i].fds \notin Tables(disk)
      BY <2>1, <2>3
    <2> HIDE DEF T
    <2>5. PICK a, c, b : a = f[k] /\ c = calls[i] /\ b = a.fds
      OBVIOUS
    <2>6. f[i] = Outcome(a, c, i) /\ Known(c) /\ b \in Tables(disk)
      BY <1>1, <2>3, <2>4, <2>5 DEF Runs, AllKnown
    <2>7. SystemCall(disk, b, c).fds \in Tables(disk)
      BY <2>6, CallTyped DEF Known
    <2>8. PICK r : r = SystemCall(disk, b, c)
      OBVIOUS
    <2>10. PICK o : o = f[i]
      OBVIOUS
    <2>9. f[i].fds = r.fds
      <3>1. o = Outcome(a, c, i)
        BY <2>6, <2>10
      <3>2. o.fds = r.fds
        BY <3>1, <2>5, <2>8, OutcomeIs
      <3> QED BY <3>2, <2>10
    <2> QED BY <2>4, <2>7, <2>8, <2>9
  <1>3. n \in 0 .. n
    OBVIOUS
  <1> QED BY <1>1, <1>2, <1>3

(* The fields of a call.                                                    *)
LEMMA KnownCall ==
  ASSUME NEW eax \in Int, eax \notin {1, 2, 7}, NEW ebx, NEW edx \in Int, NEW c, c = Call(eax, ebx, edx)
  PROVE  Known(c) /\ c.eax = eax /\ c.ebx = ebx /\ c.edx = edx
  BY DEF Known, IsCall, Call

(* Lists of known calls, one after the other.                               *)
LEMMA JoinedKnown ==
  ASSUME NEW s, NEW t, NEW n \in Nat, NEW m \in Nat, AllKnown(s, n), AllKnown(t, m)
  PROVE  AllKnown(s \o t, n + m)
  <1>1. PICK u : u = s \o t
    OBVIOUS
  <1>2. Joins(u, s, n, t, m)
    BY <1>1, Joined DEF AllKnown
  <1>3. ASSUME NEW i \in 1 .. n + m PROVE Known(u[i])
    <2>1. CASE i <= n
      BY <2>1, <1>2 DEF Joins, AllKnown
    <2>2. CASE ~(i <= n)
      <3>1. PICK j \in 1 .. m : i = n + j
        <4>1. i - n \in 1 .. m /\ i = n + (i - n)
          BY <2>2
        <4> QED BY <4>1
      <3> QED BY <3>1, <1>2 DEF Joins, AllKnown
    <2> QED BY <2>1, <2>2
  <1> QED BY <1>1, <1>2, <1>3 DEF Joins, AllKnown

Each(s, n, eax, lo) == \A i \in 1 .. n : s[i] = Call(eax, lo + i - 1, 31)

(* A call for each number of a range.                                       *)
LEMMA EachOfIs ==
  ASSUME NEW eax \in Int, eax \notin {1, 2, 7}, NEW lo \in Int, NEW hi \in Int, NEW n \in Nat, n = hi - lo + 1,
         NEW s, s = EachOf(eax, lo, hi)
  PROVE  AllKnown(s, n) /\ Each(s, n, eax, lo)
  <1>1. s = [i \in 1 .. n |-> Call(eax, lo + i - 1, 31)]
    BY DEF EachOf
  <1>2. \A i \in 1 .. n : s[i] = Call(eax, lo + i - 1, 31)
    BY <1>1
  <1>3. \A i \in 1 .. n : Known(s[i])
    BY <1>2, KnownCall
  <1>4. IsSeq(s, n)
    BY <1>1, <1>2 DEF IsSeq
  <1> QED BY <1>2, <1>3, <1>4 DEF AllKnown, Each

-----------------------------------------------------------------------------
(* The tests, one by one.                                                   *)
AllOpens == [i \in 1 .. 7 |-> Call(SYS_OPEN, <<Dot>>, 0)]
AllMisses == [i \in 1 .. Len(NearMisses) |-> Call(SYS_OPEN, NearMisses[i], 0)]
AllClosed == EachOf(SYS_CLOSE, 0, 7) \o EachOf(SYS_READ, 2, 7) \o EachOf(SYS_WRITE, 2, 7)
BadPointers == <<Call(SYS_VIDMAP, "NULL", 0), Call(SYS_VIDMAP, "kernel", 0)>>
WrongWays == <<Call(SYS_WRITE, 0, 31), Call(SYS_READ, 1, 31)>>
BadNumbers == <<Call(BIG_NUM, 0, 0), Call(NEG_NUM, 0, 0), Call(0, 0, 0)>>

(* The eight tests of syserr.                                               *)
LEMMA TestsAre ==
  /\ Len(Tests) = 8
  /\ Tests[1] = AllOf(NEG_NUM) /\ Tests[2] = AllOf(BIG_NUM)
  /\ Tests[3] = AllOpens \o EachOf(SYS_CLOSE, 2, 7)
  /\ Tests[4] = AllMisses /\ Tests[5] = AllClosed /\ Tests[6] = BadPointers
  /\ Tests[7] = WrongWays /\ Tests[8] = BadNumbers
  BY DEF Tests, AllOpens, AllMisses, AllClosed, BadPointers, WrongWays, BadNumbers

(* The numbers of the calls that the tests use.                             *)
LEMMA Numbers ==
  /\ SYS_READ = 3 /\ SYS_WRITE = 4 /\ SYS_OPEN = 5 /\ SYS_CLOSE = 6 /\ SYS_VIDMAP = 8
  /\ NEG_NUM \in Int /\ NEG_NUM < 0 /\ BIG_NUM \in Int /\ BIG_NUM > 10
  BY DEF SYS_READ, SYS_WRITE, SYS_OPEN, SYS_CLOSE, SYS_VIDMAP, NEG_NUM, BIG_NUM

(* The calls of tests 1 and 2.                                              *)
LEMMA AllOfIs ==
  ASSUME NEW fd, NEW s, s = AllOf(fd)
  PROVE  /\ AllKnown(s, 3) /\ s[1] = Call(SYS_READ, fd, 31) /\ s[2] = Call(SYS_WRITE, fd, 31)
         /\ s[3] = Call(SYS_CLOSE, fd, 0)
  <1>1. PICK a, b, c : a = Call(SYS_READ, fd, 31) /\ b = Call(SYS_WRITE, fd, 31) /\ c = Call(SYS_CLOSE, fd, 0)
    OBVIOUS
  <1>2. s = <<a, b, c>>
    BY <1>1 DEF AllOf
  <1>3. Known(a) /\ Known(b) /\ Known(c)
    BY <1>1, KnownCall, Numbers
  <1>4. IsSeq(s, 3) /\ s[1] = a /\ s[2] = b /\ s[3] = c
    BY <1>2 DEF IsSeq
  <1>5. \A i \in 1 .. 3 : Known(s[i])
    BY <1>3, <1>4
  <1> QED BY <1>1, <1>4, <1>5 DEF AllKnown

(* The opens of test 3.                                                     *)
LEMMA AllOpensIs == AllKnown(AllOpens, 7) /\ \A i \in 1 .. 7 : AllOpens[i] = Call(SYS_OPEN, <<Dot>>, 0)
  <1>1. PICK s, c : s = AllOpens /\ c = Call(SYS_OPEN, <<Dot>>, 0)
    OBVIOUS
  <1>2. s = [i \in 1 .. 7 |-> c] /\ Known(c)
    BY <1>1, KnownCall, Numbers DEF AllOpens
  <1>3. IsSeq(s, 7) /\ \A i \in 1 .. 7 : s[i] = c
    BY <1>2 DEF IsSeq
  <1> QED BY <1>1, <1>2, <1>3 DEF AllKnown

(* The calls of test 4.                                                     *)
LEMMA AllMissesIs ==
  ASSUME NEW n \in Nat, n = Len(NearMisses)
  PROVE  AllKnown(AllMisses, n) /\ \A i \in 1 .. n : AllMisses[i] = Call(SYS_OPEN, NearMisses[i], 0)
  <1>1. PICK s : s = AllMisses
    OBVIOUS
  <1>2. s = [i \in 1 .. n |-> Call(SYS_OPEN, NearMisses[i], 0)]
    BY <1>1 DEF AllMisses
  <1>3. IsSeq(s, n) /\ \A i \in 1 .. n : s[i] = Call(SYS_OPEN, NearMisses[i], 0)
    BY <1>2 DEF IsSeq
  <1>4. \A i \in 1 .. n : Known(s[i])
    BY <1>3, KnownCall, Numbers
  <1> QED BY <1>1, <1>3, <1>4 DEF AllKnown

(* The calls of test 5.                                                     *)
LEMMA AllClosedIs ==
  \E s, t, u, st : /\ s = EachOf(SYS_CLOSE, 0, 7) /\ t = EachOf(SYS_READ, 2, 7) /\ u = EachOf(SYS_WRITE, 2, 7)
               /\ AllKnown(s, 8) /\ AllKnown(t, 6) /\ AllKnown(u, 6)
               /\ Each(s, 8, SYS_CLOSE, 0)
               /\ Each(t, 6, SYS_READ, 2)
               /\ Each(u, 6, SYS_WRITE, 2)
               /\ st = s \o t /\ AllKnown(st, 14) /\ AllClosed = st \o u /\ AllKnown(AllClosed, 20)
  <1>1. PICK s, t, u : s = EachOf(SYS_CLOSE, 0, 7) /\ t = EachOf(SYS_READ, 2, 7) /\ u = EachOf(SYS_WRITE, 2, 7)
    OBVIOUS
  <1>2. AllKnown(s, 8) /\ Each(s, 8, SYS_CLOSE, 0)
    <2>1. PICK n \in Nat, lo \in Int, hi \in Int, eax \in Int : n = 8 /\ lo = 0 /\ hi = 7 /\ eax = SYS_CLOSE
      BY Numbers
    <2>2. s = EachOf(eax, lo, hi) /\ n = hi - lo + 1 /\ eax \notin {1, 2, 7}
      BY <1>1, <2>1, Numbers
    <2>3. AllKnown(s, n) /\ Each(s, n, eax, lo)
      BY <2>1, <2>2, EachOfIs
    <2> QED BY <2>1, <2>3
  <1>3. AllKnown(t, 6) /\ Each(t, 6, SYS_READ, 2)
    <2>1. PICK n \in Nat, lo \in Int, hi \in Int, eax \in Int : n = 6 /\ lo = 2 /\ hi = 7 /\ eax = SYS_READ
      BY Numbers
    <2>2. t = EachOf(eax, lo, hi) /\ n = hi - lo + 1 /\ eax \notin {1, 2, 7}
      BY <1>1, <2>1, Numbers
    <2>3. AllKnown(t, n) /\ Each(t, n, eax, lo)
      BY <2>1, <2>2, EachOfIs
    <2> QED BY <2>1, <2>3
  <1>4. AllKnown(u, 6) /\ Each(u, 6, SYS_WRITE, 2)
    <2>1. PICK n \in Nat, lo \in Int, hi \in Int, eax \in Int : n = 6 /\ lo = 2 /\ hi = 7 /\ eax = SYS_WRITE
      BY Numbers
    <2>2. u = EachOf(eax, lo, hi) /\ n = hi - lo + 1 /\ eax \notin {1, 2, 7}
      BY <1>1, <2>1, Numbers
    <2>3. AllKnown(u, n) /\ Each(u, n, eax, lo)
      BY <2>1, <2>2, EachOfIs
    <2> QED BY <2>1, <2>3
  <1>5. PICK st : st = s \o t
    OBVIOUS
  <1>6. AllKnown(st, 14)
    <2>1. AllKnown(st, 8 + 6)
      BY <1>2, <1>3, <1>5, JoinedKnown
    <2> QED BY <2>1
  <1>7. AllClosed = st \o u
    BY <1>1, <1>5 DEF AllClosed
  <1>8. AllKnown(AllClosed, 20)
    <2>1. AllKnown(st \o u, 14 + 6)
      BY <1>4, <1>6, JoinedKnown
    <2> QED BY <2>1, <1>7
  <1> QED BY <1>1, <1>2, <1>3, <1>4, <1>5, <1>6, <1>7, <1>8

(* The closes of test 3.                                                    *)
LEMMA ClosesIs ==
  \E s : /\ s = EachOf(SYS_CLOSE, 2, 7) /\ AllKnown(s, 6) /\ Tests[3] = AllOpens \o s
         /\ Each(s, 6, SYS_CLOSE, 2)
  <1>1. PICK s : s = EachOf(SYS_CLOSE, 2, 7)
    OBVIOUS
  <1>3. AllKnown(s, 6) /\ Each(s, 6, SYS_CLOSE, 2)
    <2>1. PICK n \in Nat, lo \in Int, hi \in Int, eax \in Int : n = 6 /\ lo = 2 /\ hi = 7 /\ eax = SYS_CLOSE
      BY Numbers
    <2>2. s = EachOf(eax, lo, hi) /\ n = hi - lo + 1 /\ eax \notin {1, 2, 7}
      BY <1>1, <2>1, Numbers
    <2>3. AllKnown(s, n) /\ Each(s, n, eax, lo)
      BY <2>1, <2>2, EachOfIs
    <2> QED BY <2>1, <2>3
  <1> QED BY <1>1, <1>3, TestsAre

(* The calls of test 6.                                                     *)
LEMMA BadPointersIs ==
  /\ AllKnown(BadPointers, 2)
  /\ BadPointers[1] = Call(SYS_VIDMAP, "NULL", 0) /\ BadPointers[2] = Call(SYS_VIDMAP, "kernel", 0)
  <1>1. PICK a, b, s : a = Call(SYS_VIDMAP, "NULL", 0) /\ b = Call(SYS_VIDMAP, "kernel", 0) /\ s = BadPointers
    OBVIOUS
  <1>2. Known(a) /\ Known(b) /\ s = <<a, b>>
    BY <1>1, KnownCall, Numbers DEF BadPointers
  <1>3. IsSeq(s, 2) /\ s[1] = a /\ s[2] = b
    BY <1>2 DEF IsSeq
  <1>4. \A i \in 1 .. 2 : Known(s[i])
    BY <1>2, <1>3
  <1> QED BY <1>1, <1>3, <1>4 DEF AllKnown

(* The calls of test 7.                                                     *)
LEMMA WrongWaysIs ==
  /\ AllKnown(WrongWays, 2)
  /\ WrongWays[1] = Call(SYS_WRITE, 0, 31) /\ WrongWays[2] = Call(SYS_READ, 1, 31)
  <1>1. PICK a, b, s : a = Call(SYS_WRITE, 0, 31) /\ b = Call(SYS_READ, 1, 31) /\ s = WrongWays
    OBVIOUS
  <1>2. Known(a) /\ Known(b) /\ s = <<a, b>>
    BY <1>1, KnownCall, Numbers DEF WrongWays
  <1>3. IsSeq(s, 2) /\ s[1] = a /\ s[2] = b
    BY <1>2 DEF IsSeq
  <1>4. \A i \in 1 .. 2 : Known(s[i])
    BY <1>2, <1>3
  <1> QED BY <1>1, <1>3, <1>4 DEF AllKnown

(* The calls of test 8.                                                     *)
LEMMA BadNumbersIs ==
  /\ AllKnown(BadNumbers, 3)
  /\ BadNumbers[1] = Call(BIG_NUM, 0, 0) /\ BadNumbers[2] = Call(NEG_NUM, 0, 0) /\ BadNumbers[3] = Call(0, 0, 0)
  <1>1. PICK a, b, c, s : a = Call(BIG_NUM, 0, 0) /\ b = Call(NEG_NUM, 0, 0) /\ c = Call(0, 0, 0) /\ s = BadNumbers
    OBVIOUS
  <1>2. Known(a) /\ Known(b) /\ Known(c) /\ s = <<a, b, c>>
    BY <1>1, KnownCall, Numbers DEF BadNumbers
  <1>3. IsSeq(s, 3) /\ s[1] = a /\ s[2] = b /\ s[3] = c
    BY <1>2 DEF IsSeq
  <1>4. \A i \in 1 .. 3 : Known(s[i])
    BY <1>2, <1>3
  <1> QED BY <1>1, <1>3, <1>4 DEF AllKnown

(* Every test is made of known calls.                                       *)
LEMMA TestsKnown ==
  ASSUME NEW t \in 1 .. 8
  PROVE  \E n \in Nat : AllKnown(Tests[t], n)
  <1>1. CASE t = 1
    BY <1>1, TestsAre, AllOfIs
  <1>2. CASE t = 2
    BY <1>2, TestsAre, AllOfIs
  <1>3. CASE t = 3
    <2>1. PICK s : AllKnown(s, 6) /\ Tests[3] = AllOpens \o s
      BY ClosesIs
    <2>2. AllKnown(AllOpens \o s, 7 + 6)
      BY <2>1, AllOpensIs, JoinedKnown
    <2> QED BY <1>3, <2>1, <2>2
  <1>4. CASE t = 4
    <2>1. PICK n \in Nat : n = Len(NearMisses)
      BY ProgramsAssumption
    <2>2. AllKnown(AllMisses, n)
      BY <2>1, AllMissesIs
    <2> QED BY <1>4, <2>1, <2>2, TestsAre
  <1>5. CASE t = 5
    BY <1>5, TestsAre, AllClosedIs
  <1>6. CASE t = 6
    BY <1>6, TestsAre, BadPointersIs
  <1>7. CASE t = 7
    BY <1>7, TestsAre, WrongWaysIs
  <1>8. CASE t = 8
    BY <1>8, TestsAre, BadNumbersIs
  <1> QED BY <1>1, <1>2, <1>3, <1>4, <1>5, <1>6, <1>7, <1>8

-----------------------------------------------------------------------------
(* What a digit chooses.                                                    *)
ChoiceOf(line) == IF line = <<>> THEN {} ELSE {i \in 0 .. Len(Tests) : Digits[i + 1] = line[1]}
TodoOf(choice) == IF choice = {0} THEN [i \in 1 .. Len(Tests) |-> i] ELSE <<Least(choice)>>

(* The line typed chooses some of the tests.                                *)
LEMMA TodoIs ==
  ASSUME NEW line, NEW choice, choice = ChoiceOf(line), choice # {}, NEW todo, todo = TodoOf(choice)
  PROVE  todo \in Seq(1 .. 8)
  <1>1. CASE choice = {0}
    <2>1. todo = [i \in 1 .. 8 |-> i]
      BY <1>1, TestsAre DEF TodoOf
    <2> QED BY <2>1
  <1>2. CASE choice # {0}
    <2>1. choice \subseteq Nat /\ choice \subseteq 0 .. 8 /\ \A i \in choice : Digits[i + 1] = line[1]
      BY TestsAre DEF ChoiceOf
    <2>2. PICK n \in choice : n = Least(choice)
      BY <2>1, LeastIs
    <2>3. n # 0
      <3> SUFFICES ASSUME n = 0 PROVE FALSE
        OBVIOUS
      <3>1. PICK m \in choice : m # 0
        BY <1>2, <2>2
      <3>2. Digits[n + 1] = Digits[m + 1]
        BY <2>1
      <3>3. n + 1 \in 1 .. 10 /\ m + 1 \in 1 .. 10 /\ n + 1 # m + 1
        BY <2>1, <2>2, <3>1
      <3> QED BY <3>2, <3>3, ProgramsAssumption
    <2>4. n \in 1 .. 8
      BY <2>1, <2>2, <2>3
    <2>5. todo = <<n>>
      BY <1>2, <2>2 DEF TodoOf
    <2> QED BY <2>4, <2>5
  <1> QED BY <1>1, <1>2

(* syserr begins with no failure.                                           *)
LEMMA SysErrChooses ==
  ASSUME Base, SysErrChoose
  PROVE  /\ disk' = disk /\ out' = out /\ message' = message /\ ended' = ended
         /\ \/ Return(Top, 0)
            \/ \E todo, v : todo \in Seq(1 .. 8) /\ v = [fail |-> 0, todo |-> todo] /\ Go("test", Top.fds, v)
  <1>1. disk' = disk /\ out' = out /\ message' = message /\ ended' = ended
    BY DEF SysErrChoose, Quiet
  <1>2. PICK line \in Lines :
          IF ChoiceOf(line) = {} THEN Return(Top, 0)
          ELSE Go("test", Top.fds, [fail |-> 0, todo |-> TodoOf(ChoiceOf(line))])
    BY DEF SysErrChoose, ChoiceOf, TodoOf
  <1>3. PICK choice, todo : choice = ChoiceOf(line) /\ todo = TodoOf(choice)
    OBVIOUS
  <1>4. CASE choice = {}
    BY <1>1, <1>2, <1>3, <1>4
  <1>5. CASE choice # {}
    <2>1. todo \in Seq(1 .. 8)
      BY <1>3, <1>5, TodoIs
    <2>2. PICK v : v = [fail |-> 0, todo |-> todo]
      OBVIOUS
    <2>3. Go("test", Top.fds, v)
      BY <1>2, <1>3, <1>5, <2>2
    <2> QED BY <1>1, <2>1, <2>2, <2>3
  <1> QED BY <1>4, <1>5

(* The steps of syserr.                                                     *)
LEMMA SysErrSteps ==
  ASSUME Base, NEW S, Allowed(S), Doing(Top, S), SysErrChoose \/ SysErrTest
  PROVE  Base' /\ Doing(Top', S) /\ Stays
  <1>0. disk \in Disks /\ Top.fds \in Tables(disk) /\ 0 \in S
    BY TopIs, Statuses023 DEF Base, IsProc
  <1>1. disk' = disk /\ message' \in Words
    BY DEF SysErrChoose, SysErrTest, Quiet, Base
  <1>6. \A q : q.program = "syserr" /\ q.pc = "test" /\ q.v.fail \in Even /\ q.v.todo \in Seq(1 .. 8) => Doing(q, S)
    BY DEF Doing
  <1>2. CASE SysErrChoose
    <2>1. CASE Return(Top, 0)
      BY <1>0, <1>1, <2>1, ReturnsWith
    <2>2. CASE \E todo, v : todo \in Seq(1 .. 8) /\ v = [fail |-> 0, todo |-> todo] /\ Go("test", Top.fds, v)
      <3>1. PICK todo, v : todo \in Seq(1 .. 8) /\ v = [fail |-> 0, todo |-> todo] /\ Go("test", Top.fds, v)
        BY <2>2
      <3>2. Base' /\ Top' = Proc(Top, "test", Top.fds, v)
        BY <1>0, <1>1, <3>1, GoIs
      <3>3. Top'.pc = "test" /\ Top'.program = "syserr" /\ Top'.v = v /\ Stays
        BY <1>2, <3>2, ProcHas DEF SysErrChoose, At, Stays
      <3>4. v.fail \in Even /\ v.todo \in Seq(1 .. 8)
        <4>1. v.fail = 2 * 0 /\ v.todo = todo
          BY <3>1
        <4>2. todo \in Seq(1 .. 8)
          BY <3>1
        <4> QED BY <4>1, <4>2 DEF Even
      <3> QED BY <1>6, <3>2, <3>3, <3>4
    <2> QED BY <1>2, <2>1, <2>2, SysErrChooses
  <1>3. CASE SysErrTest
    <2>1. PICK todo, fail : todo = Top.v.todo /\ fail = Top.v.fail
      OBVIOUS
    <2>2. Top.program = "syserr" /\ fail \in Even /\ todo \in Seq(1 .. 8)
      BY <1>3, <2>1 DEF SysErrTest, At, Doing
    <2>3. CASE todo = <<>>
      <3>1. Return(Top, fail) /\ fail \in S
        BY <1>3, <2>1, <2>2, <2>3 DEF SysErrTest, Allowed, Even
      <3> QED BY <1>1, <3>1, ReturnsWith
    <2>4. CASE todo # <<>>
      <3>1. PICK test, rest : test = Head(todo) /\ rest = Tail(todo)
        OBVIOUS
      <3>2. test \in 1 .. 8 /\ rest \in Seq(1 .. 8)
        BY <2>2, <2>4, <3>1
      <3>3. PICK calls : calls = Tests[test]
        OBVIOUS
      <3>4. PICK n \in Nat : AllKnown(calls, n)
        BY <3>2, <3>3, TestsKnown
      <3>5. PICK done : done = AfterCalls(Top.fds, calls)
        OBVIOUS
      <3>6. done.fds \in Tables(disk)
        BY <1>0, <3>4, <3>5, TestTyped
      <3>7. PICK v, more : /\ v = [todo |-> rest, fail |-> fail + more]
                           /\ more = IF Passes(test, done.failed) THEN 0 ELSE 2
        OBVIOUS
      <3>8. Go("test", done.fds, v)
        BY <1>3, <2>1, <2>4, <3>1, <3>3, <3>5, <3>7 DEF SysErrTest
      <3>9. Base' /\ Top' = Proc(Top, "test", done.fds, v)
        BY <1>1, <3>6, <3>8, GoIs
      <3>10. Top'.pc = "test" /\ Top'.program = "syserr" /\ Top'.v = v /\ Stays
        BY <2>2, <3>9, ProcHas DEF Stays
      <3>11. v.todo \in Seq(1 .. 8) /\ v.fail = fail + more
        BY <3>2, <3>7
      <3>12. v.fail \in Even
        <4>1. PICK k \in Nat : fail = 2 * k
          BY <2>2 DEF Even
        <4>2. more = 0 \/ more = 2
          BY <3>7
        <4>3. fail + more = 2 * k \/ fail + more = 2 * (k + 1)
          BY <4>1, <4>2
        <4>4. 2 * k \in Even /\ 2 * (k + 1) \in Even
          <5>1. k + 1 \in Nat
            BY <4>1
          <5> QED BY <4>1, <5>1 DEF Even
        <4> QED BY <3>11, <4>3, <4>4
      <3> QED BY <1>6, <3>9, <3>10, <3>11, <3>12
    <2> QED BY <2>3, <2>4
  <1> QED BY <1>2, <1>3

-----------------------------------------------------------------------------
IInv(S) == Base /\ Doing(Top, S)

(* The invariant is inductive.                                              *)
LEMMA Preserved ==
  ASSUME NEW S, Allowed(S), IInv(S), [Next]_vars
  PROVE  IInv(S)'
  <1> USE DEF IInv
  <1>1. CASE \E line \in Lines : ShellRead(line) \/ ShellOverrun(line)
    BY <1>1, ShellReads
  <1>2. CASE ShellExit \/ Leave
    BY <1>2, ShellSteps
  <1>3. CASE CatOpen \/ CatCopy
    BY <1>3, CatSteps
  <1>4. CASE LsOpen \/ LsName
    BY <1>4, LsSteps
  <1>5. CASE GrepOpen \/ GrepName
    BY <1>5, GrepFirstSteps
  <1>6. CASE GrepScan
    BY <1>6, GrepScans
  <1>7. CASE TestPrint \/ Hello \/ CounterChoose \/ CounterCount \/ SigTest \/ OtherReturns
    BY <1>7, SmallSteps
  <1>8. CASE SigFault \/ OtherFaults
    BY <1>8, Faults
  <1>9. CASE PingPongOpen \/ PingPongMove
    BY <1>9, PingPongSteps
  <1>10. CASE SysErrChoose \/ SysErrTest
    BY <1>10, SysErrSteps
  <1>11. CASE UNCHANGED vars
    <2>1. disk' = disk /\ stack' = stack /\ message' = message
      BY <1>11 DEF vars
    <2>2. Top' = Top
      BY <2>1 DEF Top
    <2> QED BY <2>1, <2>2 DEF Base
  <1> QED BY <1>1, <1>2, <1>3, <1>4, <1>5, <1>6, <1>7, <1>8, <1>9, <1>10, <1>11 DEF Next

(* It holds at first.                                                       *)
LEMMA AtFirst == ASSUME NEW S, Init PROVE IInv(S)
  <1>1. PICK p, t : p = NewProcess("shell", <<>>) /\ t = <<p>>
    OBVIOUS
  <1>2. IsProc(disk, p) /\ IsShell(p)
    BY <1>1, NewIs, NoArgument DEF IsShell
  <1>3. stack = t /\ disk \in Disks /\ message = "none"
    BY <1>1 DEF Init
  <1>4. IsSeq(t, 1) /\ t[1] = p
    BY <1>1 DEF IsSeq
  <1>5. Chain(disk, t, 1)
    BY <1>2, <1>4, ShellAssumption DEF Chain
  <1>6. Len(t) = 1 /\ Last(t) = p
    BY <1>4, <1>5, ChainIs
  <1>7. message \in Words
    <2>1. Message(0) = "none"
      BY DEF Message
    <2> QED BY <2>1, <1>3 DEF Words
  <1>8. Base /\ IsShell(Top)
    BY <1>2, <1>3, <1>5, <1>6, <1>7 DEF Base, Top
  <1> QED BY <1>8, DoingNew DEF IInv, IsShell

(* The first part is the type invariant.                                    *)
LEMMA BaseIsTyped == ASSUME Base PROVE TypeOK
  <1>1. disk \in Disks /\ WellFormed(disk)
    BY ShellAssumption DEF Base
  <1>2. PICK s, n : s = stack /\ n = Len(stack)
    OBVIOUS
  <1>3. Chain(disk, s, n)
    BY <1>2 DEF Base
  <1>4. n \in 1 .. MAX_PCB
    BY <1>3 DEF Chain
  <1>5. ASSUME NEW i \in 1 .. n
        PROVE  /\ DOMAIN s[i].fds = Fds /\ s[i].fds[0] = Stdin /\ s[i].fds[1] = Stdout
               /\ i < n => s[i].program = "shell" /\ s[i].pc = "main"
    BY <1>3 DEF Chain, IsProc, IsShell, Tables
  <1>6. message \in {Message(r) : r \in -1 .. 256}
    BY DEF Base, Words
  <1> QED BY <1>1, <1>2, <1>4, <1>5, <1>6 DEF TypeOK

(* The variables have their types: the table of processes has its length, all *)
(* below the one that runs are shells, waiting in execute(), and each has the*)
(* keyboard and the screen at descriptors 0 and 1.                          *)
THEOREM ProgramsTypeCorrect == Spec => []TypeOK
  <1>1. Allowed(Int)
    BY ProgramsAssumption DEF Allowed
  <1>2. Init => IInv(Int)
    BY AtFirst
  <1>3. IInv(Int) /\ [Next]_vars => IInv(Int)'
    BY <1>1, Preserved
  <1>4. IInv(Int) => TypeOK
    BY BaseIsTyped DEF IInv
  <1> QED BY <1>2, <1>3, <1>4, PTL DEF Spec

-----------------------------------------------------------------------------
(* The statuses that the shell cannot take for an exception.                 *)
Plain == {s \in Int : s % 256 # 15}

(* Statuses that are no 15 modulo 256 are allowed.                          *)
LEMMA PlainAllowed == ASSUME \A s \in Statuses : s % 256 # 15 PROVE Allowed(Plain)
  <1>1. Plain \subseteq Int /\ Statuses \subseteq Plain /\ 3 \in Plain
    BY ProgramsAssumption DEF Plain
  <1>2. ASSUME NEW k \in Nat PROVE 2 * k \in Plain
    <2>1. (2 * k) % 256 # 15
      OBVIOUS
    <2> QED BY <2>1 DEF Plain
  <1> QED BY <1>1, <1>2 DEF Allowed

(* A status of 0 says nothing.                                              *)
LEMMA SaysNothing == Message(0) = "none"
  BY DEF Message
Tells(m, status) == m = IF status % 256 = 0 THEN "none" ELSE "program terminated abnormally"

(* What the shell says after a plain status.                                *)
LEMMA MessageIs ==
  ASSUME NEW status \in Plain, NEW m, m = Message(ReturnValue(status))
  PROVE  Tells(m, status)
  <1>1. PICK r : r = status % 256
    OBVIOUS
  <1>2. r \in 0 .. 255 /\ r # 15
    BY <1>1 DEF Plain
  <1>3. ReturnValue(status) = r
    BY <1>1, <1>2 DEF ReturnValue
  <1>4. Message(r) = IF r = 0 THEN "none" ELSE "program terminated abnormally"
    <2>1. CASE r = 0
      BY <2>1, SaysNothing
    <2>2. CASE r # 0
      <3>1. r # -1 /\ r # 256 /\ r \notin {-1, 0, 256}
        BY <1>2, <2>2
      <3> QED BY <2>2, <3>1 DEF Message
    <2> QED BY <2>1, <2>2
  <1> QED BY <1>1, <1>3, <1>4 DEF Tells

(* Each step keeps StatusReported.                                          *)
LEMMA StatusKept ==
  ASSUME StatusReported, IInv(Plain), [Next]_vars
  PROVE  StatusReported'
  <1>1. CASE message' = message /\ ended' = ended
    BY <1>1 DEF StatusReported
  <1>2. ASSUME NEW status \in Plain, NEW how, Halt(status, how),
               how = <<"exit", status>> \/ (how = <<"exception">> /\ status = 0)
        PROVE  StatusReported'
    <2>1. CASE Len(stack) = 1
      BY <2>1, <1>1, <1>2 DEF Halt
    <2>2. CASE Len(stack) # 1
      <3>1. PICK m : m = Message(ReturnValue(status))
        OBVIOUS
      <3>2. message' = m /\ ended' = how
        BY <2>2, <1>2, <3>1 DEF Halt
      <3>3. m = IF status % 256 = 0 THEN "none" ELSE "program terminated abnormally"
        <4>1. Tells(m, status)
          BY <1>2, <3>1, MessageIs
        <4> QED BY <4>1 DEF Tells
      <3>4. CASE how = <<"exit", status>>
        <4>1. ended'[1] = "exit" /\ ended'[2] = status
          BY <3>2, <3>4
        <4> QED BY <3>2, <3>3, <4>1 DEF StatusReported
      <3>5. CASE how = <<"exception">> /\ status = 0
        <4>1. ended'[1] = "exception" /\ m = "none"
          BY <3>2, <3>3, <3>5
        <4> QED BY <3>2, <4>1 DEF StatusReported
      <3> QED BY <1>2, <3>4, <3>5
    <2> QED BY <2>1, <2>2
  <1>3. CASE \E line \in Lines : ShellRead(line)
    <2>1. Message(0) = "none" /\ Message(-1) = "no such command"
      BY DEF Message
    <2>2. PICK line \in Lines : ShellRead(line)
      BY <1>3
    <2>3. \/ message' = "none" /\ (ended' = <<"full">> \/ ended' = <<"runs">>)
          \/ message' = "no such command" /\ ended' = <<"refused">>
      BY <2>1, <2>2 DEF ShellRead
    <2>4. CASE message' = "none" /\ (ended' = <<"full">> \/ ended' = <<"runs">>)
      <3>1. ended'[1] \in {"full", "runs"}
        BY <2>4
      <3> QED BY <2>4, <3>1 DEF StatusReported
    <2>5. CASE message' = "no such command" /\ ended' = <<"refused">>
      <3>1. ended'[1] = "refused"
        BY <2>5
      <3> QED BY <2>5, <3>1 DEF StatusReported
    <2> QED BY <2>3, <2>4, <2>5
  <1>13. CASE \E line \in Lines : ShellOverrun(line)
    <2>1. message' = "none" /\ ended' = <<"lost">>
      BY <1>13 DEF ShellOverrun
    <2>2. ended'[1] = "lost"
      BY <2>1
    <2> QED BY <2>1, <2>2 DEF StatusReported
  <1>4. CASE Leave
    <2>1. PICK st : st = Top.v.status
      OBVIOUS
    <2>2. st \in Plain /\ Halt(st, <<"exit", st>>)
      BY <1>4, <2>1 DEF Leave, IInv, Doing
    <2> QED BY <2>2, <1>2
  <1>5. CASE SigFault \/ OtherFaults
    <2>1. PICK vec : Fault(vec)
      BY <1>5 DEF SigFault, OtherFaults
    <2>2. 0 \in Plain /\ Halt(0, <<"exception">>)
      BY <2>1 DEF Fault, HandlerStatus, Plain
    <2> QED BY <2>2, <1>2
  <1>6. CASE ShellExit
    BY <1>1, <1>6 DEF ShellExit, Quiet
  <1>7. CASE CatOpen \/ CatCopy \/ LsOpen \/ LsName
    BY <1>1, <1>7 DEF CatOpen, CatCopy, LsOpen, LsName, Quiet
  <1>8. CASE GrepOpen \/ GrepName \/ GrepScan
    BY <1>1, <1>8 DEF GrepOpen, GrepName, GrepScan, Quiet
  <1>9. CASE TestPrint \/ Hello \/ CounterChoose \/ CounterCount \/ SigTest \/ OtherReturns
    BY <1>1, <1>9 DEF TestPrint, Hello, CounterChoose, CounterCount, SigTest, OtherReturns, Quiet
  <1>10. CASE PingPongOpen \/ PingPongMove
    BY <1>1, <1>10 DEF PingPongOpen, PingPongMove, Quiet
  <1>11. CASE SysErrChoose \/ SysErrTest
    BY <1>1, <1>11 DEF SysErrChoose, SysErrTest, Quiet
  <1>12. CASE UNCHANGED vars
    BY <1>1, <1>12 DEF vars
  <1> QED BY <1>3, <1>4, <1>5, <1>6, <1>7, <1>8, <1>9, <1>10, <1>11, <1>12, <1>13 DEF Next

(* What the shell says of a program is what its main() returned, if the other *)
(* programs do not return the 15 that halt() takes for an exception.        *)
THEOREM StatusCorrect == ASSUME \A s \in Statuses : s % 256 # 15 PROVE Spec => []StatusReported
  <1>1. Allowed(Plain)
    BY PlainAllowed
  <1>2. Init => IInv(Plain)
    BY AtFirst
  <1>3. IInv(Plain) /\ [Next]_vars => IInv(Plain)'
    BY <1>1, Preserved
  <1>4. Init => StatusReported
    <2> SUFFICES ASSUME Init PROVE StatusReported
      OBVIOUS
    <2>1. ended = <<"none">> /\ message = "none"
      BY DEF Init
    <2> QED BY <2>1 DEF StatusReported
  <1>5. StatusReported /\ IInv(Plain) /\ [Next]_vars => StatusReported'
    BY StatusKept
  <1> QED BY <1>2, <1>3, <1>4, <1>5, PTL DEF Spec

-----------------------------------------------------------------------------
(* A call that fails, and changes nothing.                                   *)
Refused(fds, c) == SystemCall(disk, fds, c) = Failed(fds)

(* What a failing call returns.                                             *)
LEMMA FailedIs == ASSUME NEW fds PROVE Failed(fds).ret = Fail /\ Failed(fds).fds = fds
  BY DEF Failed, Result

(* When every call is refused, all fail and the table stays.                *)
LEMMA AllRefused ==
  ASSUME NEW fds, NEW calls, NEW n \in Nat, IsSeq(calls, n), \A i \in 1 .. n : Refused(fds, calls[i])
  PROVE  AfterCalls(fds, calls).fds = fds /\ AfterCalls(fds, calls).failed = 1 .. n
  <1>0. n = Len(calls)
    BY SeqIs
  <1>1. PICK f : Runs(f, fds, calls, n) /\ AfterCalls(fds, calls) = f[n]
    BY <1>0, AfterIs
  <1> DEFINE T == {i \in 0 .. n : ~(f[i].fds = fds /\ f[i].failed = 1 .. i)}
  <1>2. T = {}
    <2> SUFFICES ASSUME T # {} PROVE FALSE
      OBVIOUS
    <2>0. T \subseteq Nat
      OBVIOUS
    <2>1. PICK i \in T : \A j \in T : i <= j
      BY <2>0, Smallest
    <2>2. i # 0
      <3>1. f[0].fds = fds /\ f[0].failed = {}
        BY <1>1 DEF Runs, Start
      <3>2. 1 .. 0 = {}
        OBVIOUS
      <3> QED BY <3>1, <3>2, <2>1
    <2>3. PICK k \in 0 .. n : k = i - 1 /\ i \in 1 .. n
      BY <2>1, <2>2
    <2>4. f[k].fds = fds /\ f[k].failed = 1 .. k /\ ~(f[i].fds = fds /\ f[i].failed = 1 .. i)
      BY <2>1, <2>3
    <2> HIDE DEF T
    <2>5. PICK a, c, r, o : a = f[k] /\ c = calls[i] /\ r = SystemCall(disk, fds, c) /\ o = f[i]
      OBVIOUS
    <2>6. o = Outcome(a, c, i) /\ fds = a.fds /\ r = Failed(fds)
      BY <1>1, <2>3, <2>4, <2>5 DEF Runs, Refused
    <2>7. r.ret = Fail /\ r.fds = fds
      BY <2>6, FailedIs
    <2>8. o.fds = r.fds /\ o.failed = a.failed \cup {i}
      BY <2>5, <2>6, <2>7, OutcomeIs
    <2>9. (1 .. k) \cup {i} = 1 .. i
      BY <2>3
    <2> QED BY <2>4, <2>5, <2>7, <2>8, <2>9
  <1>3. n \in 0 .. n
    OBVIOUS
  <1> QED BY <1>1, <1>2, <1>3

(* A wrong read is refused.                                                 *)
LEMMA ReadRefused ==
  ASSUME NEW fds, NEW fd, fd \notin Fds \/ fds[fd].flag = FALSE \/ fds[fd].ops = "stdout",
         NEW c, c = Call(SYS_READ, fd, 31)
  PROVE  Refused(fds, c)
  <1>1. c.eax = 3 /\ c.ebx = fd /\ c.edx = 31
    BY DEF Call, SYS_READ
  <1>2. SystemCall(disk, fds, c) = Read(disk, fds, fd, 31)
    BY <1>1 DEF SystemCall, SYS_READ, SYS_WRITE, SYS_OPEN, SYS_CLOSE, SYS_VIDMAP, SYS_SET_HANDLER, SYS_SIGRETURN
  <1>3. Read(disk, fds, fd, 31) = Failed(fds)
    <2>1. CASE ~Usable(fds, fd, 31)
      BY <2>1 DEF Read
    <2>2. CASE Usable(fds, fd, 31)
      <3>1. fds[fd].ops = "stdout"
        BY <2>2 DEF Usable
      <3> QED BY <2>2, <3>1 DEF Read
    <2> QED BY <2>1, <2>2
  <1> QED BY <1>2, <1>3 DEF Refused

(* A wrong write is refused.                                                *)
LEMMA WriteRefused ==
  ASSUME NEW fds, NEW fd, fd \notin Fds \/ fds[fd].flag = FALSE \/ fds[fd].ops = "stdin",
         NEW c, c = Call(SYS_WRITE, fd, 31)
  PROVE  Refused(fds, c)
  <1>1. c.eax = 4 /\ c.ebx = fd /\ c.edx = 31
    BY DEF Call, SYS_WRITE
  <1>2. SystemCall(disk, fds, c) = Write(fds, fd, 31)
    BY <1>1 DEF SystemCall, SYS_READ, SYS_WRITE, SYS_OPEN, SYS_CLOSE, SYS_VIDMAP, SYS_SET_HANDLER, SYS_SIGRETURN
  <1>3. Write(fds, fd, 31) = Failed(fds)
    BY DEF Write, Usable
  <1> QED BY <1>2, <1>3 DEF Refused

(* A wrong close is refused.                                                *)
LEMMA CloseRefused ==
  ASSUME NEW fds, NEW fd, fd \notin Fds \ {0, 1} \/ fds[fd].flag = FALSE,
         NEW x, NEW c, c = Call(SYS_CLOSE, fd, x)
  PROVE  Refused(fds, c)
  <1>1. c.eax = 6 /\ c.ebx = fd
    BY DEF Call, SYS_CLOSE
  <1>2. SystemCall(disk, fds, c) = Close(fds, fd)
    BY <1>1 DEF SystemCall, SYS_READ, SYS_WRITE, SYS_OPEN, SYS_CLOSE, SYS_VIDMAP, SYS_SET_HANDLER, SYS_SIGRETURN
  <1>3. Close(fds, fd) = Failed(fds)
    BY DEF Close
  <1> QED BY <1>2, <1>3 DEF Refused

(* An open of no file is refused.                                           *)
LEMMA OpenRefused ==
  ASSUME NEW fds, NEW name, ~Found(disk, name), NEW x, NEW c, c = Call(SYS_OPEN, name, x)
  PROVE  Refused(fds, c)
  <1>1. c.eax = 5 /\ c.ebx = name
    BY DEF Call, SYS_OPEN
  <1>2. SystemCall(disk, fds, c) = Open(disk, fds, name)
    BY <1>1 DEF SystemCall, SYS_READ, SYS_WRITE, SYS_OPEN, SYS_CLOSE, SYS_VIDMAP, SYS_SET_HANDLER, SYS_SIGRETURN
  <1>3. Open(disk, fds, name) = Failed(fds)
    BY DEF Open
  <1> QED BY <1>2, <1>3 DEF Refused

(* A vidmap outside the program is refused.                                 *)
LEMMA VidmapRefused ==
  ASSUME NEW fds, NEW where, where # "program", NEW x, NEW c, c = Call(SYS_VIDMAP, where, x)
  PROVE  Refused(fds, c)
  <1>1. c.eax = 8 /\ c.ebx = where
    BY DEF Call, SYS_VIDMAP
  <1>2. SystemCall(disk, fds, c) = Vidmap(fds, where)
    BY <1>1 DEF SystemCall, SYS_READ, SYS_WRITE, SYS_OPEN, SYS_CLOSE, SYS_VIDMAP, SYS_SET_HANDLER, SYS_SIGRETURN
  <1>3. Vidmap(fds, where) = Failed(fds)
    BY DEF Vidmap
  <1> QED BY <1>2, <1>3 DEF Refused

(* A call with no such number is refused.                                   *)
LEMMA NumberRefused ==
  ASSUME NEW fds, NEW eax \in Int, eax \notin 1 .. 10, NEW x, NEW y, NEW c, c = Call(eax, x, y)
  PROVE  Refused(fds, c)
  <1>1. c.eax = eax
    BY DEF Call
  <1>2. SystemCall(disk, fds, c) = Failed(fds)
    BY <1>1 DEF SystemCall, SYS_READ, SYS_WRITE, SYS_OPEN, SYS_CLOSE, SYS_VIDMAP, SYS_SET_HANDLER, SYS_SIGRETURN
  <1> QED BY <1>2 DEF Refused

(* The table of a new process.                                              *)
LEMMA FreshIs ==
  /\ FreshTable[0] = Stdin /\ FreshTable[1] = Stdout
  /\ \A i \in Fds : i \notin {0, 1} => FreshTable[i] = Closed
  BY FdsFacts DEF FreshTable

(* It has nothing open above the terminal.                                  *)
LEMMA FreshClosed ==
  ASSUME NEW fd, fd \notin {0, 1}
  PROVE  fd \notin Fds \/ FreshTable[fd].flag = FALSE
  BY FreshIs DEF Closed

-----------------------------------------------------------------------------
AllRef(s, n) == IsSeq(s, n) /\ \A i \in 1 .. n : Refused(FreshTable, s[i])

(* Lists of refused calls, one after the other.                             *)
LEMMA JoinedRef ==
  ASSUME NEW s, NEW t, NEW n \in Nat, NEW m \in Nat, AllRef(s, n), AllRef(t, m)
  PROVE  AllRef(s \o t, n + m)
  <1>1. PICK u : u = s \o t
    OBVIOUS
  <1>2. Joins(u, s, n, t, m)
    BY <1>1, Joined DEF AllRef
  <1>3. ASSUME NEW i \in 1 .. n + m PROVE Refused(FreshTable, u[i])
    <2>1. CASE i <= n
      BY <2>1, <1>2 DEF Joins, AllRef
    <2>2. CASE ~(i <= n)
      <3>1. PICK j \in 1 .. m : i = n + j
        <4>1. i - n \in 1 .. m /\ i = n + (i - n)
          BY <2>2
        <4> QED BY <4>1
      <3> QED BY <3>1, <1>2 DEF Joins, AllRef
    <2> QED BY <2>1, <2>2
  <1> QED BY <1>1, <1>2, <1>3 DEF Joins, AllRef

(* Each call on a number that is no descriptor is refused.                  *)
LEMMA BadFds ==
  ASSUME NEW fd \in Int, fd \notin Fds
  PROVE  AllRef(AllOf(fd), 3)
  <1>1. PICK s : s = AllOf(fd)
    OBVIOUS
  <1>2. AllKnown(s, 3) /\ s[1] = Call(SYS_READ, fd, 31) /\ s[2] = Call(SYS_WRITE, fd, 31) /\ s[3] = Call(SYS_CLOSE, fd, 0)
    BY <1>1, AllOfIs
  <1>3. Refused(FreshTable, s[1])
    BY <1>2, ReadRefused
  <1>4. Refused(FreshTable, s[2])
    BY <1>2, WriteRefused
  <1>5. Refused(FreshTable, s[3])
    BY <1>2, CloseRefused
  <1>6. \A i \in 1 .. 3 : Refused(FreshTable, s[i])
    BY <1>3, <1>4, <1>5
  <1> QED BY <1>1, <1>2, <1>6 DEF AllRef, AllKnown

(* Each call on a closed descriptor is refused.                             *)
LEMMA ClosedFds == AllRef(AllClosed, 20)
  <1>1. PICK s, t, u, st :
           /\ AllKnown(s, 8) /\ AllKnown(t, 6) /\ AllKnown(u, 6)
           /\ Each(s, 8, SYS_CLOSE, 0) /\ Each(t, 6, SYS_READ, 2) /\ Each(u, 6, SYS_WRITE, 2)
           /\ st = s \o t /\ AllClosed = st \o u
    BY AllClosedIs
  <1>2. AllRef(s, 8)
    <2>1. ASSUME NEW i \in 1 .. 8 PROVE Refused(FreshTable, s[i])
      <3>1. PICK fd : fd = 0 + i - 1
        OBVIOUS
      <3>2. s[i] = Call(SYS_CLOSE, fd, 31)
        BY <1>1, <3>1 DEF Each
      <3>3. fd \notin Fds \ {0, 1} \/ FreshTable[fd].flag = FALSE
        BY FreshClosed
      <3> QED BY <3>2, <3>3, CloseRefused
    <2> QED BY <1>1, <2>1 DEF AllRef, AllKnown
  <1>3. AllRef(t, 6)
    <2>1. ASSUME NEW i \in 1 .. 6 PROVE Refused(FreshTable, t[i])
      <3>1. PICK fd : fd = 2 + i - 1 /\ fd \notin {0, 1}
        OBVIOUS
      <3>2. t[i] = Call(SYS_READ, fd, 31)
        BY <1>1, <3>1 DEF Each
      <3>3. fd \notin Fds \/ FreshTable[fd].flag = FALSE
        BY <3>1, FreshClosed
      <3> QED BY <3>2, <3>3, ReadRefused
    <2> QED BY <1>1, <2>1 DEF AllRef, AllKnown
  <1>4. AllRef(u, 6)
    <2>1. ASSUME NEW i \in 1 .. 6 PROVE Refused(FreshTable, u[i])
      <3>1. PICK fd : fd = 2 + i - 1 /\ fd \notin {0, 1}
        OBVIOUS
      <3>2. u[i] = Call(SYS_WRITE, fd, 31)
        BY <1>1, <3>1 DEF Each
      <3>3. fd \notin Fds \/ FreshTable[fd].flag = FALSE
        BY <3>1, FreshClosed
      <3> QED BY <3>2, <3>3, WriteRefused
    <2> QED BY <1>1, <2>1 DEF AllRef, AllKnown
  <1>5. AllRef(st, 14)
    <2>1. AllRef(s \o t, 8 + 6)
      BY <1>2, <1>3, JoinedRef
    <2> QED BY <1>1, <2>1
  <1>6. AllRef(st \o u, 14 + 6)
    BY <1>4, <1>5, JoinedRef
  <1> QED BY <1>1, <1>6

(* The other wrong calls are refused.                                       *)
LEMMA OtherTests ==
  ASSUME NEW n \in Nat, n = Len(NearMisses), \A i \in 1 .. n : ~Found(disk, NearMisses[i])
  PROVE  AllRef(AllMisses, n) /\ AllRef(BadPointers, 2) /\ AllRef(WrongWays, 2) /\ AllRef(BadNumbers, 3)
  <1>1. AllRef(AllMisses, n)
    <2>1. PICK s : s = AllMisses
      OBVIOUS
    <2>2. AllKnown(s, n) /\ \A i \in 1 .. n : s[i] = Call(SYS_OPEN, NearMisses[i], 0)
      BY <2>1, AllMissesIs
    <2>3. ASSUME NEW i \in 1 .. n PROVE Refused(FreshTable, s[i])
      <3>1. PICK name : name = NearMisses[i]
        OBVIOUS
      <3>2. ~Found(disk, name) /\ s[i] = Call(SYS_OPEN, name, 0)
        BY <2>2, <3>1
      <3> QED BY <3>2, OpenRefused
    <2> QED BY <2>1, <2>2, <2>3 DEF AllRef, AllKnown
  <1>2. AllRef(BadPointers, 2)
    <2>1. PICK s, a, b : s = BadPointers /\ a = "NULL" /\ b = "kernel" /\ a # "program" /\ b # "program"
      OBVIOUS
    <2>2. AllKnown(s, 2) /\ s[1] = Call(SYS_VIDMAP, a, 0) /\ s[2] = Call(SYS_VIDMAP, b, 0)
      BY <2>1, BadPointersIs
    <2>3. Refused(FreshTable, s[1]) /\ Refused(FreshTable, s[2])
      BY <2>1, <2>2, VidmapRefused
    <2>4. \A i \in 1 .. 2 : Refused(FreshTable, s[i])
      BY <2>3
    <2> QED BY <2>1, <2>2, <2>4 DEF AllRef, AllKnown
  <1>3. AllRef(WrongWays, 2)
    <2>1. PICK s : s = WrongWays
      OBVIOUS
    <2>2. AllKnown(s, 2) /\ s[1] = Call(SYS_WRITE, 0, 31) /\ s[2] = Call(SYS_READ, 1, 31)
      BY <2>1, WrongWaysIs
    <2>3. FreshTable[0].ops = "stdin" /\ FreshTable[1].ops = "stdout"
      BY FreshIs DEF Stdin, Stdout
    <2>4. Refused(FreshTable, s[1])
      BY <2>2, <2>3, WriteRefused
    <2>5. Refused(FreshTable, s[2])
      BY <2>2, <2>3, ReadRefused
    <2>6. \A i \in 1 .. 2 : Refused(FreshTable, s[i])
      BY <2>4, <2>5
    <2> QED BY <2>1, <2>2, <2>6 DEF AllRef, AllKnown
  <1>4. AllRef(BadNumbers, 3)
    <2>0. PICK s : s = BadNumbers
      OBVIOUS
    <2>7. PICK a \in Int : a = BIG_NUM
      BY Numbers
    <2>8. PICK b \in Int : b = NEG_NUM
      BY Numbers
    <2>9. PICK c \in Int : c = 0
      OBVIOUS
    <2>1. s = BadNumbers /\ a = BIG_NUM /\ b = NEG_NUM /\ c = 0
      BY <2>0, <2>7, <2>8, <2>9
    <2>2. AllKnown(s, 3) /\ s[1] = Call(a, 0, 0) /\ s[2] = Call(b, 0, 0) /\ s[3] = Call(c, 0, 0)
      BY <2>1, BadNumbersIs
    <2>3. a \notin 1 .. 10 /\ b \notin 1 .. 10 /\ c \notin 1 .. 10
      BY <2>1, Numbers
    <2>4. Refused(FreshTable, s[1]) /\ Refused(FreshTable, s[2]) /\ Refused(FreshTable, s[3])
      BY <2>2, <2>3, <2>7, <2>8, <2>9, NumberRefused
    <2>5. \A i \in 1 .. 3 : Refused(FreshTable, s[i])
      BY <2>4
    <2> QED BY <2>1, <2>2, <2>5 DEF AllRef, AllKnown
  <1> QED BY <1>1, <1>2, <1>3, <1>4

-----------------------------------------------------------------------------
(* The seven opens of test_open_lots() and the closes after them: descriptors *)
(* lo to hi are open, for the directory.                                   *)
Held(lo, hi) ==
  [i \in Fds |-> IF i = 0 THEN Stdin ELSE IF i = 1 THEN Stdout
                 ELSE IF i \in lo .. hi THEN Opened(disk, <<Dot>>) ELSE Closed]

IsHeld(t, lo, hi) ==
  /\ Fds = 0 .. 7 /\ t = [i \in Fds |-> t[i]]
  /\ t[0].flag = TRUE /\ t[1].flag = TRUE /\ t[0] = Stdin /\ t[1] = Stdout
  /\ \A i \in lo .. hi : t[i] = Opened(disk, <<Dot>>) /\ t[i].flag = TRUE
  /\ \A i \in 2 .. 7 : i \notin lo .. hi => t[i] = Closed /\ t[i].flag = FALSE

(* The entries of a table with the directory open from lo to hi.            *)
LEMMA HeldIs ==
  ASSUME disk \in Disks, Found(disk, <<Dot>>), MAX_FILE_NUM = 8,
         NEW lo \in 2 .. 8, NEW hi \in 1 .. 7, NEW t, t = Held(lo, hi)
  PROVE  IsHeld(t, lo, hi)
  <1>1. Fds = 0 .. 7
    BY DEF Fds
  <1>2. PICK name, d, e : name = <<Dot>> /\ d = DentryByName(disk, name) /\ e = Opened(disk, name)
    OBVIOUS
  <1>3. e.flag = TRUE
    BY <1>2, OpenedIs
  <1>4. t = [i \in 0 .. 7 |-> IF i = 0 THEN Stdin ELSE IF i = 1 THEN Stdout ELSE IF i \in lo .. hi THEN e ELSE Closed]
    BY <1>1, <1>2 DEF Held
  <1>5. t = [i \in 0 .. 7 |-> t[i]] /\ t[0] = Stdin /\ t[1] = Stdout
    BY <1>4
  <1>6. \A i \in lo .. hi : t[i] = e
    BY <1>4
  <1>7. \A i \in 2 .. 7 : i \notin lo .. hi => t[i] = Closed
    BY <1>4
  <1> QED BY <1>1, <1>2, <1>3, <1>5, <1>6, <1>7 DEF Stdin, Stdout, Closed, IsHeld

(* The new table, as one of those.                                          *)
LEMMA FreshHeld == ASSUME MAX_FILE_NUM = 8 PROVE FreshTable = Held(2, 1) /\ FreshTable = Held(8, 7)
  <1>1. \A i \in Fds : i \notin 2 .. 1 /\ i \notin 8 .. 7
    BY FdsFacts
  <1> QED BY <1>1 DEF FreshTable, Held

(* An open takes the next free descriptor.                                  *)
LEMMA OneOpened ==
  ASSUME disk \in Disks, Found(disk, <<Dot>>), MAX_FILE_NUM = 8,
         NEW k \in 1 .. 6, NEW c, c = Call(SYS_OPEN, <<Dot>>, 0),
         NEW r, r = SystemCall(disk, Held(2, k), c)
  PROVE  r.ret # Fail /\ r.fds = Held(2, k + 1)
  <1>1. c.eax = 5 /\ c.ebx = <<Dot>>
    BY DEF Call, SYS_OPEN
  <1>2. PICK t, u, n : t = Held(2, k) /\ n = k + 1 /\ u = Held(2, n)
    OBVIOUS
  <1>3. r = Open(disk, t, <<Dot>>)
    BY <1>1, <1>2 DEF SystemCall, SYS_READ, SYS_WRITE, SYS_OPEN, SYS_CLOSE, SYS_VIDMAP, SYS_SET_HANDLER, SYS_SIGRETURN
  <1>4. /\ Fds = 0 .. 7 /\ t = [i \in Fds |-> t[i]] /\ t[0].flag = TRUE /\ t[1].flag = TRUE
        /\ t[0] = Stdin /\ t[1] = Stdout
        /\ \A i \in 2 .. k : t[i] = Opened(disk, <<Dot>>) /\ t[i].flag = TRUE
        /\ \A i \in 2 .. 7 : i \notin 2 .. k => t[i] = Closed /\ t[i].flag = FALSE
    <2>1. PICK lo \in 2 .. 8, hi \in 1 .. 7 : lo = 2 /\ hi = k
      OBVIOUS
    <2>2. t = Held(lo, hi)
      BY <1>2, <2>1
    <2>3. IsHeld(t, lo, hi)
      BY <2>1, <2>2, HeldIs
    <2> QED BY <2>1, <2>3 DEF IsHeld
  <1>5. PICK S : S = FreeFds(t)
    OBVIOUS
  <1>6. n \in S /\ S \subseteq Nat /\ \A i \in S : n <= i
    <2>1. S = {i \in 0 .. 7 : ~t[i].flag}
      BY <1>4, <1>5 DEF FreeFds
    <2>2. n \in 2 .. 7 /\ n \notin 2 .. k
      BY <1>2
    <2>3. t[n].flag = FALSE
      BY <1>4, <2>2
    <2>4. ASSUME NEW i \in S PROVE n <= i
      <3>1. i \in 0 .. 7 /\ ~t[i].flag
        BY <2>1
      <3>2. i # 0 /\ i # 1 /\ i \notin 2 .. k
        BY <1>4, <3>1
      <3> QED BY <1>2, <3>1, <3>2
    <2> QED BY <2>1, <2>2, <2>3, <2>4
  <1>7. Least(S) = n
    <2>1. PICK m \in S : m = Least(S) /\ \A i \in S : m <= i
      BY <1>6, LeastIs
    <2>2. m <= n /\ n <= m /\ m \in Nat /\ n \in Nat
      BY <1>6, <2>1
    <2> QED BY <2>1, <2>2
  <1>8. r = Result(n, <<>>, [t EXCEPT ![n] = Opened(disk, <<Dot>>)])
    BY <1>3, <1>5, <1>6, <1>7 DEF Open, TableFull
  <1>9. PICK e : e = Opened(disk, <<Dot>>)
    OBVIOUS
  <1>10. [t EXCEPT ![n] = e] = u
    <2>1. /\ u = [i \in Fds |-> u[i]] /\ u[0] = Stdin /\ u[1] = Stdout
          /\ \A i \in 2 .. n : u[i] = e
          /\ \A i \in 2 .. 7 : i \notin 2 .. n => u[i] = Closed
      <3>1. PICK lo \in 2 .. 8, hi \in 1 .. 7 : lo = 2 /\ hi = n
        BY <1>2
      <3>2. u = Held(lo, hi)
        BY <1>2, <3>1
      <3>3. IsHeld(u, lo, hi)
        BY <3>1, <3>2, HeldIs
      <3> QED BY <1>9, <3>1, <3>3 DEF IsHeld
    <2>2. PICK w : w = [t EXCEPT ![n] = e]
      OBVIOUS
    <2>3. w = [i \in 0 .. 7 |-> w[i]] /\ \A i \in 0 .. 7 : w[i] = IF i = n THEN e ELSE t[i]
      BY <1>4, <2>2
    <2>4. ASSUME NEW i \in 0 .. 7 PROVE w[i] = u[i]
      <3>1. CASE i = n
        BY <1>2, <2>1, <2>3, <3>1
      <3>2. CASE i \in 2 .. k
        BY <1>2, <1>4, <1>9, <2>1, <2>3, <3>2
      <3>3. CASE i \in {0, 1}
        BY <1>2, <1>4, <2>1, <2>3, <3>3
      <3>4. CASE i \in 2 .. 7 /\ i > n
        BY <1>2, <1>4, <2>1, <2>3, <3>4
      <3> QED BY <1>2, <3>1, <3>2, <3>3, <3>4
    <2> QED BY <1>4, <2>1, <2>2, <2>3, <2>4
  <1> QED BY <1>2, <1>8, <1>9, <1>10 DEF Result, Fail

(* The open of a full table is refused.                                     *)
LEMMA LastOpened ==
  ASSUME disk \in Disks, Found(disk, <<Dot>>), MAX_FILE_NUM = 8,
         NEW c, c = Call(SYS_OPEN, <<Dot>>, 0), NEW r, r = SystemCall(disk, Held(2, 7), c)
  PROVE  r.ret = Fail /\ r.fds = Held(2, 7)
  <1>1. c.eax = 5 /\ c.ebx = <<Dot>>
    BY DEF Call, SYS_OPEN
  <1>2. PICK t : t = Held(2, 7)
    OBVIOUS
  <1>3. r = Open(disk, t, <<Dot>>)
    BY <1>1, <1>2 DEF SystemCall, SYS_READ, SYS_WRITE, SYS_OPEN, SYS_CLOSE, SYS_VIDMAP, SYS_SET_HANDLER, SYS_SIGRETURN
  <1>4. /\ Fds = 0 .. 7 /\ t[0].flag = TRUE /\ t[1].flag = TRUE
        /\ \A i \in 2 .. 7 : t[i].flag = TRUE
    <2>1. PICK lo \in 2 .. 8, hi \in 1 .. 7 : lo = 2 /\ hi = 7
      OBVIOUS
    <2>2. t = Held(lo, hi)
      BY <1>2, <2>1
    <2>3. IsHeld(t, lo, hi)
      BY <2>1, <2>2, HeldIs
    <2> QED BY <2>1, <2>3 DEF IsHeld
  <1>5. FreeFds(t) = {}
    BY <1>4 DEF FreeFds
  <1> QED BY <1>2, <1>3, <1>5, FailedIs DEF Open, TableFull

(* A close frees the descriptor.                                            *)
LEMMA OneClosed ==
  ASSUME disk \in Disks, Found(disk, <<Dot>>), MAX_FILE_NUM = 8,
         NEW k \in 2 .. 7, NEW c, c = Call(SYS_CLOSE, k, 31), NEW r, r = SystemCall(disk, Held(k, 7), c)
  PROVE  r.ret # Fail /\ r.fds = Held(k + 1, 7)
  <1>1. c.eax = 6 /\ c.ebx = k
    BY DEF Call, SYS_CLOSE
  <1>2. PICK t, u, n : t = Held(k, 7) /\ n = k + 1 /\ u = Held(n, 7)
    OBVIOUS
  <1>3. r = Close(t, k)
    BY <1>1, <1>2 DEF SystemCall, SYS_READ, SYS_WRITE, SYS_OPEN, SYS_CLOSE, SYS_VIDMAP, SYS_SET_HANDLER, SYS_SIGRETURN
  <1>9. PICK e : e = Opened(disk, <<Dot>>)
    OBVIOUS
  <1>4. /\ Fds = 0 .. 7 /\ t = [i \in Fds |-> t[i]]
        /\ t[0] = Stdin /\ t[1] = Stdout
        /\ \A i \in k .. 7 : t[i] = e /\ t[i].flag = TRUE
        /\ \A i \in 2 .. 7 : i \notin k .. 7 => t[i] = Closed
    <2>1. PICK lo \in 2 .. 8, hi \in 1 .. 7 : lo = k /\ hi = 7
      OBVIOUS
    <2>2. t = Held(lo, hi)
      BY <1>2, <2>1
    <2>3. IsHeld(t, lo, hi)
      BY <2>1, <2>2, HeldIs
    <2> QED BY <1>9, <2>1, <2>3 DEF IsHeld
  <1>5. r = Result(0, <<>>, [t EXCEPT ![k] = Closed])
    <2>1. k \in Fds \ {0, 1} /\ t[k].flag
      BY <1>4
    <2> QED BY <1>3, <2>1 DEF Close
  <1>6. /\ u = [i \in Fds |-> u[i]] /\ u[0] = Stdin /\ u[1] = Stdout
        /\ \A i \in n .. 7 : u[i] = e
        /\ \A i \in 2 .. 7 : i \notin n .. 7 => u[i] = Closed
    <2>1. PICK lo \in 2 .. 8, hi \in 1 .. 7 : lo = n /\ hi = 7
      BY <1>2
    <2>2. u = Held(lo, hi)
      BY <1>2, <2>1
    <2>3. IsHeld(u, lo, hi)
      BY <2>1, <2>2, HeldIs
    <2> QED BY <1>9, <2>1, <2>3 DEF IsHeld
  <1>7. [t EXCEPT ![k] = Closed] = u
    <2>2. PICK w : w = [t EXCEPT ![k] = Closed]
      OBVIOUS
    <2>3. w = [i \in 0 .. 7 |-> w[i]] /\ \A i \in 0 .. 7 : w[i] = IF i = k THEN Closed ELSE t[i]
      BY <1>4, <2>2
    <2>4. ASSUME NEW i \in 0 .. 7 PROVE w[i] = u[i]
      <3>1. CASE i = k
        BY <1>2, <1>6, <2>3, <3>1
      <3>2. CASE i \in n .. 7
        BY <1>2, <1>4, <1>6, <2>3, <3>2
      <3>3. CASE i \in {0, 1}
        BY <1>2, <1>4, <1>6, <2>3, <3>3
      <3>4. CASE i \in 2 .. 7 /\ i < k
        BY <1>2, <1>4, <1>6, <2>3, <3>4
      <3> QED BY <1>2, <3>1, <3>2, <3>3, <3>4
    <2> QED BY <1>4, <1>6, <2>2, <2>3, <2>4
  <1> QED BY <1>2, <1>5, <1>7 DEF Result, Fail

-----------------------------------------------------------------------------
OpenLots(i) == IF i <= 6 THEN [fds |-> Held(2, i + 1), failed |-> {}]
               ELSE [fds |-> Held(i - 5, 7), failed |-> {7}]

(* One call of test 3.                                                      *)
LEMMA OneMore ==
  ASSUME disk \in Disks, Found(disk, <<Dot>>), MAX_FILE_NUM = 8,
         NEW i \in 1 .. 13, NEW c,
         i <= 7 => c = Call(SYS_OPEN, <<Dot>>, 0), i > 7 => c = Call(SYS_CLOSE, i - 6, 31)
  PROVE  Outcome(OpenLots(i - 1), c, i) = OpenLots(i)
  <1>0. PICK a, fds, r, o : /\ a = OpenLots(i - 1) /\ fds = a.fds /\ r = SystemCall(disk, fds, c)
                            /\ o = Outcome(a, c, i)
    OBVIOUS
  <1>1. CASE i <= 6
    <2>1. PICK k \in 1 .. 6 : k = i
      BY <1>1
    <2>2. a = [fds |-> Held(2, k), failed |-> {}] /\ OpenLots(i) = [fds |-> Held(2, k + 1), failed |-> {}]
      BY <1>0, <1>1, <2>1 DEF OpenLots
    <2>3. r = SystemCall(disk, Held(2, k), c) /\ a.failed = {} /\ c = Call(SYS_OPEN, <<Dot>>, 0)
      BY <1>0, <1>1, <2>2
    <2>4. r.ret # Fail /\ r.fds = Held(2, k + 1)
      BY <2>1, <2>3, OneOpened
    <2>5. o.fds = Held(2, k + 1) /\ o.failed = {}
      BY <1>0, <2>3, <2>4, OutcomeIs
    <2> QED BY <1>0, <2>2, <2>5 DEF Outcome
  <1>2. CASE i = 7
    <2>2. a = [fds |-> Held(2, 7), failed |-> {}] /\ OpenLots(i) = [fds |-> Held(2, 7), failed |-> {7}]
      BY <1>0, <1>2 DEF OpenLots
    <2>3. r = SystemCall(disk, Held(2, 7), c) /\ a.failed = {} /\ c = Call(SYS_OPEN, <<Dot>>, 0)
      BY <1>0, <1>2, <2>2
    <2>4. r.ret = Fail /\ r.fds = Held(2, 7)
      BY <2>3, LastOpened
    <2>5. o.fds = Held(2, 7) /\ o.failed = {} \cup {i}
      BY <1>0, <2>3, <2>4, OutcomeIs
    <2>6. {} \cup {i} = {7}
      BY <1>2
    <2> QED BY <1>0, <2>2, <2>5, <2>6 DEF Outcome
  <1>3. CASE i > 7
    <2>1. PICK k \in 2 .. 7 : k = i - 6
      BY <1>3
    <2>2. a = [fds |-> Held(k, 7), failed |-> {7}] /\ OpenLots(i) = [fds |-> Held(k + 1, 7), failed |-> {7}]
      <3>1. i - 1 - 5 = k /\ i - 5 = k + 1 /\ ~(i - 1 <= 6) /\ ~(i <= 6)
        BY <1>3, <2>1
      <3> QED BY <1>0, <3>1 DEF OpenLots
    <2>3. r = SystemCall(disk, Held(k, 7), c) /\ a.failed = {7} /\ c = Call(SYS_CLOSE, k, 31)
      BY <1>0, <1>3, <2>1, <2>2
    <2>4. r.ret # Fail /\ r.fds = Held(k + 1, 7)
      BY <2>1, <2>3, OneClosed
    <2>5. o.fds = Held(k + 1, 7) /\ o.failed = {7}
      BY <1>0, <2>3, <2>4, OutcomeIs
    <2> QED BY <1>0, <2>2, <2>5 DEF Outcome
  <1> QED BY <1>1, <1>2, <1>3

(* Test 3: the seventh open fails, and the closes restore the table.        *)
LEMMA OpenLotsTest ==
  ASSUME disk \in Disks, Found(disk, <<Dot>>), MAX_FILE_NUM = 8
  PROVE  AfterCalls(FreshTable, Tests[3]) = [fds |-> FreshTable, failed |-> {7}]
  <1>1. PICK s : AllKnown(s, 6) /\ Tests[3] = AllOpens \o s /\ Each(s, 6, SYS_CLOSE, 2)
    BY ClosesIs
  <1>11. PICK n \in Nat, m \in Nat : n = 7 /\ m = 6
    OBVIOUS
  <1>12. PICK calls, opens : calls = Tests[3] /\ opens = AllOpens
    OBVIOUS
  <1>2. calls = Tests[3] /\ opens = AllOpens /\ n = 7 /\ m = 6 /\ n \in Nat /\ m \in Nat
    BY <1>11, <1>12
  <1>3. IsSeq(opens, n) /\ IsSeq(s, m) /\ \A i \in 1 .. 7 : opens[i] = Call(SYS_OPEN, <<Dot>>, 0)
    BY <1>1, <1>2, AllOpensIs DEF AllKnown
  <1>4. Joins(calls, opens, n, s, m)
    <2>1. Joins(opens \o s, opens, n, s, m)
      BY <1>2, <1>3, Joined
    <2> QED BY <1>1, <1>2, <2>1
  <1>5. Len(calls) = 13 /\ (\A i \in 1 .. 7 : calls[i] = Call(SYS_OPEN, <<Dot>>, 0))
    BY <1>2, <1>3, <1>4 DEF Joins
  <1>6. ASSUME NEW i \in 8 .. 13 PROVE calls[i] = Call(SYS_CLOSE, i - 6, 31)
    <2>1. PICK j \in 1 .. 6 : i = 7 + j
      <3>1. i - 7 \in 1 .. 6 /\ i = 7 + (i - 7)
        OBVIOUS
      <3> QED BY <3>1
    <2>2. calls[7 + j] = s[j] /\ s[j] = Call(SYS_CLOSE, 2 + j - 1, 31)
      BY <1>1, <1>2, <1>4, <2>1 DEF Joins, Each
    <2>3. 2 + j - 1 = i - 6
      BY <2>1
    <2> QED BY <2>1, <2>2, <2>3
  <1>7. PICK f : Runs(f, FreshTable, calls, 13) /\ AfterCalls(FreshTable, calls) = f[13]
    <2>1. PICK k \in Nat : k = 13
      OBVIOUS
    <2>3. PICK t : t = FreshTable
      OBVIOUS
    <2>4. k \in Nat /\ k = Len(calls)
      BY <1>5, <2>1
    <2>2. \E f : Runs(f, t, calls, k) /\ AfterCalls(t, calls) = f[k]
      BY <2>4, AfterIs
    <2> QED BY <2>1, <2>2, <2>3
  <1> DEFINE T == {i \in 0 .. 13 : f[i] # OpenLots(i)}
  <1>8. T = {}
    <2> SUFFICES ASSUME T # {} PROVE FALSE
      OBVIOUS
    <2>0. T \subseteq Nat
      OBVIOUS
    <2>1. PICK i \in T : \A j \in T : i <= j
      BY <2>0, Smallest
    <2>2. i # 0
      <3>1. f[0] = [fds |-> FreshTable, failed |-> {}]
        BY <1>7 DEF Runs, Start
      <3>2. OpenLots(0) = [fds |-> Held(2, 1), failed |-> {}]
        BY DEF OpenLots
      <3> QED BY <3>1, <3>2, FreshHeld, <2>1
    <2>3. i \in 1 .. 13 /\ i - 1 \in 0 .. 13
      BY <2>1, <2>2
    <2>4. f[i - 1] = OpenLots(i - 1) /\ f[i] # OpenLots(i)
      BY <2>1, <2>3
    <2> HIDE DEF T
    <2>5. PICK c : c = calls[i]
      OBVIOUS
    <2>6. f[i] = Outcome(OpenLots(i - 1), c, i)
      BY <1>7, <2>3, <2>4, <2>5 DEF Runs
    <2>7. (i <= 7 => c = Call(SYS_OPEN, <<Dot>>, 0)) /\ (i > 7 => c = Call(SYS_CLOSE, i - 6, 31))
      BY <1>5, <1>6, <2>3, <2>5
    <2>8. Outcome(OpenLots(i - 1), c, i) = OpenLots(i)
      BY <2>3, <2>7, OneMore
    <2> QED BY <2>4, <2>6, <2>8
  <1>9. f[13] = OpenLots(13)
    BY <1>8
  <1>10. OpenLots(13) = [fds |-> Held(8, 7), failed |-> {7}]
    BY DEF OpenLots
  <1> QED BY <1>2, <1>7, <1>9, <1>10, FreshHeld

Prepared(image) == /\ Found(image, <<Dot>>)
                   /\ \A i \in 1 .. Len(NearMisses) : ~Found(image, NearMisses[i])

(* Every test passes and leaves the table as it was.                        *)
LEMMA EachTest ==
  ASSUME disk \in Disks, Prepared(disk), MAX_FILE_NUM = 8, NEW t \in 1 .. 8,
         NEW done, done = AfterCalls(FreshTable, Tests[t])
  PROVE  done.fds = FreshTable /\ Passes(t, done.failed)
  <1>1. CASE t = 3
    <2>1. done.fds = FreshTable /\ done.failed = {7}
      BY <1>1, OpenLotsTest DEF Prepared
    <2>3. {7} \cap 1 .. 7 = {7}
      OBVIOUS
    <2>4. Cardinality({7}) = 1
      BY FS_Singleton
    <2>2. {7} \cap 1 .. 7 = {7} /\ Cardinality({7}) = 1
      BY <2>3, <2>4
    <2> QED BY <1>1, <2>1, <2>2 DEF Passes, OPEN_LOTS
  <1>2. CASE t # 3
    <2>1. PICK k \in Nat : k = Len(NearMisses) /\ \A i \in 1 .. k : ~Found(disk, NearMisses[i])
      BY ProgramsAssumption DEF Prepared
    <2>2. /\ AllRef(AllMisses, k) /\ AllRef(BadPointers, 2)
          /\ AllRef(WrongWays, 2) /\ AllRef(BadNumbers, 3) /\ AllRef(AllClosed, 20)
      BY <2>1, OtherTests, ClosedFds
    <2>3. AllRef(AllOf(NEG_NUM), 3) /\ AllRef(AllOf(BIG_NUM), 3)
      <3>1. NEG_NUM \notin Fds /\ BIG_NUM \notin Fds
        BY Numbers DEF Fds
      <3> QED BY <3>1, Numbers, BadFds
    <2>4. PICK calls : calls = Tests[t]
      OBVIOUS
    <2>5. t = 1 \/ t = 2 \/ t = 4 \/ t = 5 \/ t = 6 \/ t = 7 \/ t = 8
      BY <1>2
    <2>6. PICK n \in Nat : AllRef(calls, n)
      BY <2>2, <2>3, <2>4, <2>5, TestsAre
    <2>7. PICK fds : fds = FreshTable
      OBVIOUS
    <2>8. IsSeq(calls, n) /\ (\A i \in 1 .. n : Refused(fds, calls[i])) /\ done = AfterCalls(fds, calls)
      BY <2>4, <2>6, <2>7 DEF AllRef
    <2>9. done.fds = fds /\ done.failed = 1 .. n
      BY <2>6, <2>8, AllRefused
    <2>10. Len(calls) = n
      BY <2>6, <2>8, SeqIs
    <2> QED BY <1>2, <2>4, <2>7, <2>9, <2>10 DEF Passes, OPEN_LOTS
  <1> QED BY <1>1, <1>2

-----------------------------------------------------------------------------
(* syserr has its table as it was at each of its tests.                      *)
NoFailure(p) ==
  p.program = "syserr" =>
    /\ p.pc \in {"main", "test"} => p.fds = FreshTable
    /\ p.pc = "test"   => p.v.fail = 0 /\ p.v.todo \in Seq(1 .. 8)
    /\ p.pc = "return" => p.v.status = 0

(* Each step keeps NoFailure.                                               *)
LEMMA NoFailureKept ==
  ASSUME IInv(Int), NoFailure(Top), [Next]_vars, MAX_FILE_NUM = 8, \A image \in Disks : Prepared(image)
  PROVE  NoFailure(Top')
  <1>0. Base /\ disk \in Disks /\ Prepared(disk) /\ Allowed(Int) /\ Doing(Top, Int) /\ Top.fds \in Tables(disk)
    BY TopIs, ProgramsAssumption DEF IInv, Base, Allowed, IsProc
  <1>1. ASSUME IsShell(Top') PROVE NoFailure(Top')
    BY <1>1 DEF IsShell, NoFailure
  <1>2. ASSUME Stays, Top.program # "syserr" PROVE NoFailure(Top')
    BY <1>2 DEF Stays, NoFailure
  <1>3. CASE \E line \in Lines : ShellRead(line)
    <2>1. IsShell(Top') \/ (Top'.pc = "main" /\ Top'.fds = FreshTable)
      BY <1>0, <1>3, LaunchIs
    <2> QED BY <1>1, <2>1 DEF NoFailure
  <1>16. CASE \E line \in Lines : ShellOverrun(line)
    <2>1. Top'.program = "shell"
      BY <1>0, <1>16, OverrunIs
    <2> QED BY <2>1 DEF NoFailure
  <1>4. CASE Leave
    <2>1. PICK st : st = Top.v.status
      OBVIOUS
    <2>2. st \in Int /\ Halt(st, <<"exit", st>>) /\ disk' = disk
      BY <1>0, <1>4, <2>1 DEF Leave, Doing
    <2> QED BY <1>0, <1>1, <2>2, HaltIs
  <1>5. CASE SigFault \/ OtherFaults
    <2>1. PICK vec : Fault(vec)
      BY <1>5 DEF SigFault, OtherFaults
    <2>2. 0 \in Int /\ Halt(0, <<"exception">>) /\ disk' = disk
      BY <2>1 DEF Fault, HandlerStatus
    <2> QED BY <1>0, <1>1, <2>2, HaltIs
  <1>6. CASE ShellExit
    <2>1. Return(Top, 0) /\ disk' = disk /\ message' \in Words /\ Top.program = "shell"
      BY <1>0, <1>6, QuietIs DEF ShellExit, At
    <2>2. Stays
      BY <1>0, <2>1, ReturnsWith
    <2> QED BY <1>2, <2>1, <2>2
  <1>7. CASE CatOpen \/ CatCopy
    BY <1>0, <1>2, <1>7, CatSteps DEF CatOpen, CatCopy, At
  <1>8. CASE LsOpen \/ LsName
    BY <1>0, <1>2, <1>8, LsSteps DEF LsOpen, LsName, At
  <1>9. CASE GrepOpen \/ GrepName
    BY <1>0, <1>2, <1>9, GrepFirstSteps DEF GrepOpen, GrepName, At
  <1>10. CASE GrepScan
    BY <1>0, <1>2, <1>10, GrepScans DEF GrepScan, At
  <1>11. CASE TestPrint \/ Hello \/ CounterChoose \/ CounterCount \/ SigTest \/ OtherReturns
    BY <1>0, <1>2, <1>11, SmallSteps DEF TestPrint, Hello, CounterChoose, CounterCount, SigTest, OtherReturns, At
  <1>12. CASE PingPongOpen \/ PingPongMove
    BY <1>0, <1>2, <1>12, PingPongSteps DEF PingPongOpen, PingPongMove, At
  <1>13. CASE SysErrChoose
    <2>0. message' \in Words /\ disk' = disk /\ Top.program = "syserr" /\ Top.fds = FreshTable
      BY <1>0, <1>13, QuietIs DEF SysErrChoose, At, NoFailure
    <2>1. CASE Return(Top, 0)
      <3>1. Top' = Proc(Top, "return", Top.fds, [status |-> 0])
        BY <1>0, <2>0, <2>1, ReturnIs
      <3>2. Top'.pc = "return" /\ Top'.v = [status |-> 0]
        BY <3>1, ProcHas
      <3> QED BY <3>2 DEF NoFailure
    <2>2. CASE \E todo, v : todo \in Seq(1 .. 8) /\ v = [fail |-> 0, todo |-> todo] /\ Go("test", Top.fds, v)
      <3>1. PICK todo, v : todo \in Seq(1 .. 8) /\ v = [fail |-> 0, todo |-> todo] /\ Go("test", Top.fds, v)
        BY <2>2
      <3>2. Top' = Proc(Top, "test", Top.fds, v)
        BY <1>0, <2>0, <3>1, GoIs
      <3>3. Top'.pc = "test" /\ Top'.fds = FreshTable /\ Top'.v = v
        BY <2>0, <3>2, ProcHas
      <3>4. v.fail = 0 /\ v.todo \in Seq(1 .. 8)
        BY <3>1
      <3> QED BY <3>3, <3>4 DEF NoFailure
    <2> QED BY <1>0, <1>13, <2>1, <2>2, SysErrChooses
  <1>14. CASE SysErrTest
    <2>1. PICK todo, fail : todo = Top.v.todo /\ fail = Top.v.fail
      OBVIOUS
    <2>2. /\ Top.program = "syserr" /\ fail = 0 /\ todo \in Seq(1 .. 8) /\ Top.fds = FreshTable
          /\ message' \in Words /\ disk' = disk
      BY <1>0, <1>14, <2>1, QuietIs DEF SysErrTest, At, NoFailure
    <2>3. CASE todo = <<>>
      <3>1. Return(Top, fail)
        BY <1>14, <2>1, <2>3 DEF SysErrTest
      <3>2. Top' = Proc(Top, "return", Top.fds, [status |-> fail])
        BY <1>0, <2>2, <3>1, ReturnIs
      <3>3. Top'.pc = "return" /\ Top'.v = [status |-> fail]
        BY <3>2, ProcHas
      <3> QED BY <2>2, <3>3 DEF NoFailure
    <2>4. CASE todo # <<>>
      <3>1. PICK test, rest : test = Head(todo) /\ rest = Tail(todo)
        OBVIOUS
      <3>2. test \in 1 .. 8 /\ rest \in Seq(1 .. 8)
        BY <2>2, <2>4, <3>1
      <3>5. PICK done : done = AfterCalls(FreshTable, Tests[test])
        OBVIOUS
      <3>6. done.fds = FreshTable /\ Passes(test, done.failed)
        BY <1>0, <3>2, <3>5, EachTest
      <3>7. PICK v : v = [todo |-> rest, fail |-> fail + 0]
        OBVIOUS
      <3>8. Go("test", done.fds, v)
        BY <1>14, <2>1, <2>2, <2>4, <3>1, <3>5, <3>6, <3>7 DEF SysErrTest
      <3>9. done.fds \in Tables(disk)
        BY <3>6, FreshTyped
      <3>10. Top' = Proc(Top, "test", done.fds, v)
        BY <1>0, <2>2, <3>8, <3>9, GoIs
      <3>11. Top'.pc = "test" /\ Top'.fds = FreshTable /\ Top'.v = v
        BY <3>6, <3>10, ProcHas
      <3>12. v.todo \in Seq(1 .. 8) /\ v.fail = 0
        BY <2>2, <3>2, <3>7
      <3> QED BY <3>11, <3>12 DEF NoFailure
    <2> QED BY <2>3, <2>4
  <1>15. CASE UNCHANGED vars
    <2>1. Top' = Top
      BY <1>15 DEF vars, Top
    <2> QED BY <2>1
  <1> QED BY <1>3, <1>4, <1>5, <1>6, <1>7, <1>8, <1>9, <1>10, <1>11, <1>12, <1>13, <1>14, <1>15, <1>16 DEF Next

(* The error tests of syserr pass, with the eight descriptors of the code and *)
(* disks that hold the directory and none of the wrong names: every wrong call*)
(* fails, and the opens and closes of each test leave the table as it was.   *)
THEOREM SysErrCorrect ==
  ASSUME MAX_FILE_NUM = 8, \A image \in Disks : Prepared(image)
  PROVE  Spec => []SysErrPasses
  <1>1. Allowed(Int)
    BY ProgramsAssumption DEF Allowed
  <1>2. Init => IInv(Int)
    BY AtFirst
  <1>3. IInv(Int) /\ [Next]_vars => IInv(Int)'
    BY <1>1, Preserved
  <1>4. Init => NoFailure(Top)
    <2> SUFFICES ASSUME Init PROVE NoFailure(Top)
      OBVIOUS
    <2>1. PICK p : p = NewProcess("shell", <<>>)
      OBVIOUS
    <2>2. stack = <<p>> /\ p.program = "shell"
      BY <2>1 DEF Init, NewProcess
    <2>3. Top = p
      BY <2>2 DEF Top, Last
    <2> QED BY <2>2, <2>3 DEF NoFailure
  <1>5. IInv(Int) /\ NoFailure(Top) /\ [Next]_vars => NoFailure(Top)'
    BY NoFailureKept
  <1>6. NoFailure(Top) => SysErrPasses
    BY DEF NoFailure, SysErrPasses
  <1> QED BY <1>2, <1>3, <1>4, <1>5, <1>6, PTL DEF Spec

-----------------------------------------------------------------------------
(* What the programs have written.  MeantOf is Meant, of any disk.           *)
MeantOf(image, name) ==
  {e \in {EntryAt(image, i) : i \in 0 .. Len(Entries(image)) - 1} :
     e.file_name = SubSeq(name, 1, Lesser(Len(name), FILE_NAME_SIZE))}

(* The entries a name may mean, of the disk.                                *)
LEMMA MeantIs == ASSUME NEW name PROVE Meant(name) = MeantOf(disk, name)
  BY DEF Meant, MeantOf

(* What Go does, field by field.                                            *)
LEMMA Went ==
  ASSUME Base, NEW pc, NEW fds \in Tables(disk), NEW v, Go(pc, fds, v), disk' = disk, message' \in Words,
         NEW p, p = Top'
  PROVE  p.program = Top.program /\ p.pc = pc /\ p.argument = Top.argument /\ p.fds = fds /\ p.v = v
  <1>1. p = Proc(Top, pc, fds, v)
    BY GoIs
  <1> QED BY <1>1, ProcHas

(* What Return does, field by field.                                        *)
LEMMA Returned ==
  ASSUME Base, NEW status, Return(Top, status), disk' = disk, message' \in Words, NEW p, p = Top'
  PROVE  /\ p.program = Top.program /\ p.pc = "return" /\ p.argument = Top.argument
         /\ p.v.status = status
  <1>1. PICK v : v = [status |-> status]
    OBVIOUS
  <1>2. p = Proc(Top, "return", Top.fds, v)
    BY <1>1, ReturnIs
  <1>3. p.program = Top.program /\ p.pc = "return" /\ p.argument = Top.argument /\ p.v = v
    BY <1>2, ProcHas
  <1> QED BY <1>1, <1>3

(* getargs() gives the argument, and fails when there is none.              *)
LEMMA GetargsIs ==
  ASSUME NEW fds, NEW argument, IsString(argument), Len(argument) <= BUFSIZE,
         NEW r, r = Getargs(fds, argument, BUFSIZE)
  PROVE  IF argument = <<>> THEN r.ret # 0 ELSE r.ret = 0 /\ r.data = argument
  <1>1. BUFSIZE \in Nat \ {0}
    BY ProgramsAssumption, FileSystemAssumption
  <1>2. PICK n \in Nat : n = Len(argument) /\ IsSeq(argument, n)
    BY StringIs
  <1>3. CASE argument = <<>>
    BY <1>3 DEF Getargs, Failed, Result, Fail
  <1>4. CASE argument # <<>>
    <2>1. Lesser(BUFSIZE, Len(argument)) = n
      BY <1>1, <1>2 DEF Lesser
    <2>2. r = [ret |-> 0, data |-> SubSeq(argument, 1, n), fds |-> fds]
      BY <1>1, <1>4, <2>1 DEF Getargs, Result
    <2>3. PICK z, u : z \in Nat /\ z = 0 /\ u = SubSeq(argument, 1, n)
      OBVIOUS
    <2>4. IsPart(u, argument, z, n)
      <3>1. u = SubSeq(argument, z + 1, z + n) /\ z + n <= n /\ z \in Nat
        BY <1>2, <2>3
      <3> QED BY <1>2, <3>1, PartIs
    <2>5. IsSeq(u, n) /\ \A i \in 1 .. n : u[i] = argument[i]
      BY <2>3, <2>4 DEF IsPart
    <2>6. u = argument
      BY <1>2, <2>5, SameSeq
    <2> QED BY <1>4, <2>2, <2>3, <2>6
  <1> QED BY <1>3, <1>4

(* The buffer after a read that filled as much as it says.                   *)
LEMMA BufferHas ==
  ASSUME NEW r, NEW n \in Nat, r.ret = n, IsSeq(r.data, n)
  PROVE  Buffer(r) = r.data
  <1>1. PICK data : data = r.data
    OBVIOUS
  <1>2. Len(data) = n /\ IsSeq(data, n)
    BY <1>1, SeqIs
  <1>3. IsSeq(Buffer(r), n)
    BY BufferIs
  <1>4. \A i \in 1 .. n : Buffer(r)[i] = data[i]
    BY <1>1, <1>2 DEF Buffer
  <1> QED BY <1>1, <1>2, <1>3, <1>4, SameSeq

(* A file has been opened: the entry that was meant, at its beginning.       *)
Holds(image, x, e) ==
  /\ x.flag = TRUE
  /\ \/ e.file_type = FILE_TYPE /\ x.ops = "file" /\ x.inode = e.inode_id /\ e.inode_id \in Inodes(image)
     \/ e.file_type = DIR_TYPE /\ x.ops = "dir"
     \/ e.file_type = RTC_TYPE /\ x.ops = "rtc"

Elsewhere(fds, t, fd) == \A i \in Fds : i # fd => t[i] = fds[i]

(* An open of a name, that gave a descriptor for an entry.                   *)
Opens(image, fds, name, r, fd, e) ==
  /\ fd \in Fds \ {0, 1} /\ fd = r.ret /\ fds[fd].flag = FALSE
  /\ Found(image, name) /\ e = DentryByName(image, name)
  /\ Holds(image, r.fds[fd], e) /\ r.fds[fd].pos = 0 /\ Elsewhere(fds, r.fds, fd)

(* An open that gives a descriptor opens the entry of that name.            *)
LEMMA OpensIt ==
  ASSUME NEW image \in Disks, NEW fds \in Tables(image), NEW name, NEW r, r = Open(image, fds, name), r.ret # Fail
  PROVE  \E fd, e : Opens(image, fds, name, r, fd, e)
  <1>1. PICK fd : fd = r.ret
    OBVIOUS
  <1>2. PICK x, e : x = Opened(image, name) /\ e = DentryByName(image, name)
    OBVIOUS
  <1>3. /\ Found(image, name) /\ fd \in Fds \ {0, 1} /\ ~fds[fd].flag
        /\ r.fds = [fds EXCEPT ![fd] = x]
    BY <1>1, <1>2, OpenIs
  <1>4. fds \in [Fds -> Descriptor] /\ fds[fd].flag \in BOOLEAN
    BY <1>3 DEF Tables, Descriptor
  <1>5. r.fds[fd] = x /\ Elsewhere(fds, r.fds, fd)
    BY <1>3, <1>4 DEF Elsewhere
  <1>6. /\ x.flag = TRUE /\ x.pos = 0
        /\ x.inode = IF e.file_type = RTC_TYPE THEN -1 ELSE IF e.file_type = DIR_TYPE THEN 0 ELSE e.inode_id
        /\ x.ops = IF e.file_type = RTC_TYPE THEN "rtc" ELSE IF e.file_type = DIR_TYPE THEN "dir" ELSE "file"
    <2>1. x = [flag |-> TRUE, pos |-> 0,
               inode |-> IF e.file_type = RTC_TYPE THEN -1 ELSE IF e.file_type = DIR_TYPE THEN 0 ELSE e.inode_id,
               ops |-> IF e.file_type = RTC_TYPE THEN "rtc" ELSE IF e.file_type = DIR_TYPE THEN "dir" ELSE "file"]
      BY <1>2, <1>3, OpenedIs
    <2> QED BY <2>1
  <1>7. e.file_type \in {RTC_TYPE, DIR_TYPE, FILE_TYPE} /\ e.inode_id \in Inodes(image)
    BY <1>2, <1>3, FoundIs, ListedIs
  <1>8. Holds(image, x, e)
    BY <1>6, <1>7 DEF Holds, RTC_TYPE, DIR_TYPE, FILE_TYPE
  <1>9. Opens(image, fds, name, r, fd, e)
    BY <1>1, <1>2, <1>3, <1>4, <1>5, <1>6, <1>8 DEF Opens
  <1> QED BY <1>9

-----------------------------------------------------------------------------
(* Reading what is open.                                                    *)
LEMMA ReadsFile ==
  ASSUME NEW image \in Disks, NEW fds \in Tables(image), NEW fd \in Fds, NEW e, NEW x, x = fds[fd],
         Holds(image, x, e), e.file_type = FILE_TYPE, NEW n \in Nat, NEW r, r = Read(image, fds, fd, n)
  PROVE  \E k \in Nat : /\ k = Available(image, e.inode_id, x.pos, n) /\ r.ret = k
                        /\ Reads(Buffer(r), image, e.inode_id, x.pos, k)
                        /\ Holds(image, r.fds[fd], e) /\ r.fds[fd].pos = x.pos + k
                        /\ Elsewhere(fds, r.fds, fd)
  <1>1. x.flag = TRUE /\ x.ops = "file" /\ x.inode = e.inode_id /\ e.inode_id \in Inodes(image)
    BY DEF Holds, FILE_TYPE, DIR_TYPE, RTC_TYPE
  <1>2. r = FileRead(image, fds, fd, n)
    BY <1>1 DEF Read, Usable
  <1>3. PICK inode, pos : inode = fds[fd].inode /\ pos = fds[fd].pos
    OBVIOUS
  <1>4. PICK k \in Nat : /\ k = Available(image, inode, pos, n) /\ r.ret = k
                         /\ Reads(r.data, image, inode, pos, k) /\ r.fds = Seek(fds, fd, pos + k)
    BY <1>1, <1>2, <1>3, FileReadIs
  <1>5. Buffer(r) = r.data
    BY <1>4, BufferHas DEF Reads
  <1>6. pos \in Nat
    BY <1>3 DEF Tables, Descriptor
  <1>7. PICK p, t : p \in Nat /\ p = pos + k /\ t = Seek(fds, fd, p)
    BY <1>4, <1>6
  <1>8. /\ Elsewhere(fds, t, fd) /\ t[fd].flag = fds[fd].flag /\ t[fd].inode = fds[fd].inode
        /\ t[fd].pos = p /\ t[fd].ops = fds[fd].ops
    <2>1. fds[fd].ops \in {"file", "dir"}
      BY <1>1
    <2> QED BY <1>7, <2>1, Moved DEF Elsewhere
  <1>9. Holds(image, t[fd], e)
    BY <1>1, <1>8 DEF Holds
  <1>10. inode = e.inode_id /\ pos = x.pos
    BY <1>1, <1>3
  <1>11. r.fds = t
    BY <1>4, <1>7
  <1> QED BY <1>4, <1>5, <1>7, <1>8, <1>9, <1>10, <1>11

(* A read of the RTC gives no bytes.                                        *)
LEMMA ReadsRtc ==
  ASSUME NEW image \in Disks, NEW fds \in Tables(image), NEW fd \in Fds, NEW e, NEW x, x = fds[fd],
         Holds(image, x, e), e.file_type = RTC_TYPE, NEW n \in Nat, NEW r, r = Read(image, fds, fd, n)
  PROVE  r.ret = 0 /\ r.fds = fds
  <1>1. x.flag = TRUE /\ x.ops = "rtc"
    BY DEF Holds, FILE_TYPE, DIR_TYPE, RTC_TYPE
  <1>2. Usable(fds, fd, n)
    BY <1>1 DEF Usable
  <1>3. r = Result(0, <<>>, fds)
    BY <1>1, <1>2 DEF Read
  <1> QED BY <1>3 DEF Result

(* A read of the directory gives the name at the position.                  *)
LEMMA ReadsDir ==
  ASSUME NEW image \in Disks, NEW fds \in Tables(image), NEW fd \in Fds, NEW e, NEW x, x = fds[fd],
         Holds(image, x, e), e.file_type = DIR_TYPE, NEW n \in Nat, NEW r, r = Read(image, fds, fd, n)
  PROVE  /\ Holds(image, r.fds[fd], e) /\ Elsewhere(fds, r.fds, fd)
         /\ IF IsIndex(image, x.pos)
            THEN /\ r.ret = IF x.pos + 1 < MaxEntries THEN n ELSE 0
                 /\ r.data = PaddedName(image, x.pos) /\ r.fds[fd].pos = x.pos + 1
            ELSE r.ret = 0
  <1>1. x.flag = TRUE /\ x.ops = "dir"
    BY DEF Holds, FILE_TYPE, DIR_TYPE, RTC_TYPE
  <1>2. r = DirRead(image, fds, fd, n)
    BY <1>1 DEF Read, Usable
  <1>3. PICK index : index = fds[fd].pos
    OBVIOUS
  <1>4. index \in Nat
    BY <1>3 DEF Tables, Descriptor
  <1>5. PICK p, t : p \in Nat /\ p = index + 1 /\ t = Seek(fds, fd, p)
    BY <1>4
  <1>6. /\ Elsewhere(fds, t, fd) /\ t[fd].flag = fds[fd].flag /\ t[fd].pos = p /\ t[fd].ops = fds[fd].ops
    <2>1. fds[fd].ops \in {"file", "dir"}
      BY <1>1
    <2> QED BY <1>5, <2>1, Moved DEF Elsewhere
  <1>7. Holds(image, t[fd], e)
    BY <1>1, <1>6 DEF Holds
  <1>8. IF IsIndex(image, index)
        THEN /\ r.ret = IF index + 1 < MaxEntries THEN n ELSE 0
             /\ r.data = PaddedName(image, index) /\ r.fds = Seek(fds, fd, index + 1)
        ELSE r.ret = 0 /\ r.fds = fds
    BY <1>1, <1>2, <1>3, DirReadIs
  <1>9. Elsewhere(fds, fds, fd)
    BY DEF Elsewhere
  <1>10. CASE IsIndex(image, index)
    <2>1. r.fds = t
      BY <1>5, <1>8, <1>10
    <2> QED BY <1>3, <1>5, <1>6, <1>7, <1>8, <1>10, <2>1
  <1>11. CASE ~IsIndex(image, index)
    BY <1>3, <1>8, <1>9, <1>11
  <1> QED BY <1>10, <1>11

(* The whole of a file.                                                     *)
LEMMA AllRead ==
  ASSUME NEW image \in Disks, NEW inode \in Inodes(image), NEW o, NEW n \in Nat,
         Reads(o, image, inode, 0, n), n = InodeAt(image, inode).length
  PROVE  o = FileBytes(image, inode)
  <1>1. PICK f : f = FileBytes(image, inode)
    OBVIOUS
  <1>2. Reads(f, image, inode, 0, n)
    BY <1>1 DEF FileBytes, Byte, IsSeq, Reads
  <1>3. IsSeq(o, n) /\ IsSeq(f, n) /\ \A i \in 1 .. n : o[i] = f[i]
    BY <1>2 DEF Reads
  <1> QED BY <1>1, <1>3, SameSeq

(* A read of no bytes.                                                      *)
LEMMA NothingRead == ASSUME NEW image, NEW inode, NEW p PROVE Reads(<<>>, image, inode, p, 0)
  <1>1. IsSeq(<<>>, 0)
    BY DEF IsSeq
  <1>2. 1 .. 0 = {}
    OBVIOUS
  <1> QED BY <1>1, <1>2 DEF Reads

-----------------------------------------------------------------------------
(* cat: what it has written is the file up to the position of the descriptor. *)
Copied(image, e, pos, o) ==
  /\ e.file_type = FILE_TYPE => Reads(o, image, e.inode_id, 0, pos) /\ pos <= InodeAt(image, e.inode_id).length
  /\ e.file_type = RTC_TYPE => o = <<>>
Copying(image, p, o) ==
  \E fd, e :
    /\ fd \in Fds \ {0, 1} /\ e \in MeantOf(image, p.argument) /\ p.v.fd = fd
    /\ Holds(image, p.fds[fd], e) /\ Copied(image, e, p.fds[fd].pos, o)
CatWrote(image, argument, o) ==
  \E e \in MeantOf(image, argument) :
    /\ e.file_type = FILE_TYPE => o = FileBytes(image, e.inode_id)
    /\ e.file_type = RTC_TYPE  => o = <<>>
CatPart(image, p, o) ==
  p.program = "cat" =>
    /\ p.pc = "main" => o = <<>>
    /\ p.pc = "copy" => Copying(image, p, o)
    /\ p.pc = "return" /\ p.v.status = 0 => CatWrote(image, p.argument, o)

(* cat opens what its argument means.                                       *)
LEMMA CatOpens ==
  ASSUME Base, CatPart(disk, Top, out), CatOpen
  PROVE  CatPart(disk', Top', out')
  <1>0. disk \in Disks /\ Top.fds \in Tables(disk) /\ IsString(Top.argument) /\ Len(Top.argument) <= BUFSIZE
    BY TopIs DEF Base, IsProc
  <1>1. PICK name : name = Getargs(Top.fds, Top.argument, BUFSIZE)
    OBVIOUS
  <1>2. PICK text : text = name.data
    OBVIOUS
  <1>3. PICK file : file = Open(disk, Top.fds, text)
    OBVIOUS
  <1>4. disk' = disk /\ message' \in Words /\ out' = out /\ out = <<>> /\ Top.program = "cat"
    BY QuietIs DEF CatOpen, Quiet, At, CatPart
  <1>5. PICK v : v = [fd |-> file.ret]
    OBVIOUS
  <1>6. \/ Return(Top, 3)
        \/ Return(Top, 2)
        \/ name.ret = 0 /\ file.ret # Fail /\ Go("copy", file.fds, v)
    BY <1>1, <1>2, <1>3, <1>5 DEF CatOpen
  <1>7. PICK p : p = Top'
    OBVIOUS
  <1>8. ASSUME NEW status \in {2, 3}, Return(Top, status) PROVE CatPart(disk', p, out')
    <2>1. p.pc = "return" /\ p.v.status = status
      BY <1>4, <1>7, <1>8, Returned
    <2> QED BY <2>1, <1>8 DEF CatPart
  <1>9. ASSUME name.ret = 0, file.ret # Fail, Go("copy", file.fds, v) PROVE CatPart(disk', p, out')
    <2>1. file.fds \in Tables(disk)
      BY <1>0, <1>3, OpenIs
    <2>2. p.pc = "copy" /\ p.argument = Top.argument /\ p.fds = file.fds /\ p.v = v
      BY <1>4, <1>7, <1>9, <2>1, Went
    <2>3. text = Top.argument
      BY <1>0, <1>1, <1>2, <1>9, GetargsIs
    <2>4. PICK fd, e :
            /\ fd \in Fds \ {0, 1}
            /\ fd = file.ret /\ Found(disk, text) /\ e = DentryByName(disk, text)
            /\ Holds(disk, file.fds[fd], e) /\ file.fds[fd].pos = 0
      <3>1. PICK fds : fds = Top.fds
        OBVIOUS
      <3>2. file = Open(disk, fds, text) /\ fds \in Tables(disk) /\ disk \in Disks /\ file.ret # Fail
        BY <1>0, <1>3, <1>9, <3>1
      <3>3. PICK fd, e : Opens(disk, fds, text, file, fd, e)
        BY <3>2, OpensIt
      <3> QED BY <3>3 DEF Opens
    <2>5. e \in MeantOf(disk, p.argument)
      BY <1>0, <2>2, <2>3, <2>4, FoundMeant, MeantIs
    <2>6. p.v.fd = fd
      BY <1>5, <2>2, <2>4
    <2>7. Copied(disk, e, file.fds[fd].pos, out)
      <3>1. e.file_type = FILE_TYPE => 0 <= InodeAt(disk, e.inode_id).length
        <4>1. e.inode_id \in Inodes(disk)
          BY <1>0, <2>4, FoundIs, ListedIs
        <4> QED BY <4>1, <1>0, SizeIs
      <3> QED BY <1>4, <2>4, <3>1, NothingRead DEF Copied
    <2>8. Copying(disk, p, out)
      BY <2>2, <2>4, <2>5, <2>6, <2>7 DEF Copying
    <2> QED BY <1>4, <2>2, <2>8 DEF CatPart
  <1> QED BY <1>6, <1>7, <1>8, <1>9

(* One more buffer is copied.                                               *)
LEMMA MoreCopied ==
  ASSUME NEW image, NEW e, NEW o, NEW t, NEW pos \in Nat, NEW k \in Nat, Copied(image, e, pos, o),
         NEW n \in Nat, e.file_type = FILE_TYPE, k = Available(image, e.inode_id, pos, n),
         InodeAt(image, e.inode_id).length \in Nat,
         Reads(t, image, e.inode_id, pos, k)
  PROVE  Copied(image, e, pos + k, o \o t)
  <1>1. PICK inode : inode = e.inode_id
    OBVIOUS
  <1>2. PICK z \in Nat, q \in Nat : z = 0 /\ q = pos + k
    OBVIOUS
  <1>3. Reads(o, image, inode, z, pos) /\ pos <= InodeAt(image, inode).length
    BY <1>1, <1>2 DEF Copied
  <1>4. Reads(t, image, inode, z + pos, k)
    BY <1>1, <1>2
  <1>5. Reads(o \o t, image, inode, z, q)
    BY <1>2, <1>3, <1>4, JoinedReads
  <1>6. q <= InodeAt(image, inode).length
    BY <1>1, <1>2, <1>3 DEF Available, Lesser
  <1> QED BY <1>1, <1>2, <1>5, <1>6 DEF Copied, FILE_TYPE, RTC_TYPE

(* cat copies a buffer, and returns 0 at the end only.                      *)
LEMMA CatCopies ==
  ASSUME Base, CatPart(disk, Top, out), CatCopy
  PROVE  CatPart(disk', Top', out')
  <1>0. disk \in Disks /\ Top.fds \in Tables(disk) /\ BUFSIZE \in Nat \ {0}
    BY TopIs, ProgramsAssumption, FileSystemAssumption DEF Base, IsProc
  <1>1. PICK fds, v, argument : fds = Top.fds /\ v = Top.v /\ argument = Top.argument
    OBVIOUS
  <1>2. Copying(disk, Top, out) /\ Top.program = "cat"
    BY DEF CatPart, CatCopy, At
  <1>3. PICK fd, e : /\ fd \in Fds \ {0, 1} /\ e \in MeantOf(disk, argument) /\ v.fd = fd
                     /\ Holds(disk, fds[fd], e) /\ Copied(disk, e, fds[fd].pos, out)
    BY <1>1, <1>2 DEF Copying
  <1>4. PICK r : r = Read(disk, fds, fd, BUFSIZE)
    OBVIOUS
  <1>5. disk' = disk /\ message' \in Words
    BY DEF CatCopy, Base
  <1>6. IF AtEnd(r) THEN Return(Top, EndStatus(r)) /\ out' = out
        ELSE Go("copy", r.fds, v) /\ Puts(Buffer(r))
    BY <1>1, <1>3, <1>4 DEF CatCopy
  <1>7. r.fds \in Tables(disk)
    BY <1>0, <1>1, <1>4, ReadTyped
  <1>8. PICK p : p = Top'
    OBVIOUS
  <1>9. PICK x : x = fds[fd]
    OBVIOUS
  <1>10. x.pos \in Nat /\ fd \in Fds
    BY <1>0, <1>1, <1>3, <1>9 DEF Tables, Descriptor
  <1>11. ASSUME ~AtEnd(r), e.file_type # RTC_TYPE,
                Holds(disk, r.fds[fd], e), Copied(disk, e, r.fds[fd].pos, out') 
         PROVE CatPart(disk', p, out')
    <2>1. p.pc = "copy" /\ p.argument = argument /\ p.fds = r.fds /\ p.v = v
      BY <1>1, <1>5, <1>6, <1>7, <1>8, <1>11, Went
    <2>2. Copying(disk, p, out')
      BY <1>3, <1>11, <2>1 DEF Copying
    <2> QED BY <1>5, <2>1, <2>2 DEF CatPart
  <1>12. ASSUME AtEnd(r), r.ret = 0 => CatWrote(disk, argument, out) PROVE CatPart(disk', p, out')
    <2>1. p.pc = "return" /\ p.argument = argument /\ p.v.status = EndStatus(r)
      BY <1>1, <1>5, <1>6, <1>8, <1>12, Returned
    <2> QED BY <1>5, <1>6, <1>12, <2>1 DEF CatPart, EndStatus
  <1>13. CASE e.file_type = RTC_TYPE
    <2>1. r.ret = 0
      BY <1>0, <1>1, <1>3, <1>4, <1>9, <1>10, <1>13, ReadsRtc
    <2>2. out = <<>>
      BY <1>3, <1>13 DEF Copied
    <2>3. CatWrote(disk, argument, out)
      BY <1>3, <1>13, <2>2 DEF CatWrote, RTC_TYPE, FILE_TYPE
    <2> QED BY <1>8, <1>12, <2>1, <2>3 DEF AtEnd
  <1>14. CASE e.file_type = DIR_TYPE
    <2>1. Holds(disk, r.fds[fd], e)
      BY <1>0, <1>1, <1>3, <1>4, <1>9, <1>10, <1>14, ReadsDir
    <2>2. CatWrote(disk, argument, out)
      BY <1>3, <1>14 DEF CatWrote, RTC_TYPE, FILE_TYPE, DIR_TYPE
    <2>3. Copied(disk, e, r.fds[fd].pos, out')
      BY <1>14 DEF Copied, RTC_TYPE, FILE_TYPE, DIR_TYPE
    <2>4. e.file_type # RTC_TYPE
      BY <1>14 DEF RTC_TYPE, DIR_TYPE
    <2> QED BY <1>8, <1>11, <1>12, <2>1, <2>2, <2>3, <2>4
  <1>15. CASE e.file_type = FILE_TYPE
    <2>1. PICK k \in Nat : /\ k = Available(disk, e.inode_id, x.pos, BUFSIZE) /\ r.ret = k
                           /\ Reads(Buffer(r), disk, e.inode_id, x.pos, k)
                           /\ Holds(disk, r.fds[fd], e) /\ r.fds[fd].pos = x.pos + k
      BY <1>0, <1>1, <1>3, <1>4, <1>9, <1>10, <1>15, ReadsFile
    <2>2. e.inode_id \in Inodes(disk)
      BY <1>3, <1>15 DEF Holds, FILE_TYPE, DIR_TYPE, RTC_TYPE
    <2>3. InodeAt(disk, e.inode_id).length \in Nat
      BY <1>0, <2>2, SizeIs
    <2>4. CASE AtEnd(r)
      <3>1. k = 0
        BY <2>1, <2>4 DEF AtEnd, Fail
      <3>2. x.pos = InodeAt(disk, e.inode_id).length /\ Reads(out, disk, e.inode_id, 0, x.pos)
        BY <1>0, <1>3, <1>9, <1>10, <1>15, <2>1, <2>3, <3>1 DEF Copied, Available, Lesser
      <3>3. out = FileBytes(disk, e.inode_id)
        BY <1>0, <1>10, <2>2, <3>2, AllRead
      <3>4. CatWrote(disk, argument, out)
        BY <1>3, <1>15, <3>3 DEF CatWrote, RTC_TYPE, FILE_TYPE
      <3> QED BY <1>8, <1>12, <2>4, <3>4
    <2>5. CASE ~AtEnd(r)
      <3>1. out' = out \o Buffer(r)
        BY <1>6, <2>5 DEF Puts
      <3>2. PICK t : t = Buffer(r)
        OBVIOUS
      <3>3. Copied(disk, e, x.pos + k, out \o t)
        <4>1. Copied(disk, e, x.pos, out) /\ BUFSIZE \in Nat /\ Reads(t, disk, e.inode_id, x.pos, k)
          BY <1>0, <1>3, <1>9, <2>1, <3>2
        <4> QED BY <4>1, <1>10, <1>15, <2>1, <2>3, MoreCopied
      <3>4. e.file_type # RTC_TYPE
        BY <1>15 DEF RTC_TYPE, FILE_TYPE
      <3> QED BY <1>8, <1>11, <2>1, <2>5, <3>1, <3>2, <3>3, <3>4
    <2> QED BY <2>4, <2>5
  <1>16. e.file_type \in {RTC_TYPE, DIR_TYPE, FILE_TYPE}
    BY <1>3 DEF Holds
  <1> QED BY <1>13, <1>14, <1>15, <1>16

-----------------------------------------------------------------------------
(* ls: what it has written is the names before the position of the           *)
(* descriptor.                                                             *)
LEMMA Appended ==
  ASSUME NEW s, NEW n \in Nat, IsSeq(s, n), NEW c
  PROVE  Joins(Append(s, c), s, n, <<c>>, 1)
  <1>1. PICK t : t = <<c>>
    OBVIOUS
  <1>2. IsSeq(t, 1)
    BY <1>1 DEF IsSeq
  <1>3. PICK S : s \in Seq(S)
    BY SeqIs
  <1>4. Append(s, c) = s \o t
    <2>1. s \in Seq(S \cup {c}) /\ c \in S \cup {c}
      BY <1>3
    <2> QED BY <2>1, <1>1
  <1>5. Joins(s \o t, s, n, t, 1)
    BY <1>2, Joined
  <1> QED BY <1>1, <1>4, <1>5

Width == FILE_NAME_SIZE + 1
NameChar(image, k, j) == IF j = Width THEN Newline ELSE CharAt(EntryAt(image, k).file_name, j)
Names(image, k, o) ==
  /\ k <= Len(Entries(image))
  /\ \E n \in Nat : /\ n = k * Width /\ IsSeq(o, n)
                    /\ \A i \in 1 .. n : o[i] = NameChar(image, (i - 1) \div Width, ((i - 1) % Width) + 1)
Full(image) == Len(Entries(image)) = MaxEntries
LsWrote(image, o) == ~Full(image) => Names(image, Len(Entries(image)), o)
IsDirectory(image, fds, fd) ==
  fd \in Fds \ {0, 1} /\ \E e : e.file_type = DIR_TYPE /\ Holds(image, fds[fd], e)
Listing(image, p, o) ==
  /\ IsDirectory(image, p.fds, p.v.fd)
  /\ ~Full(image) => Names(image, p.fds[p.v.fd].pos, o)
LsPart(image, p, o) ==
  p.program = "ls" =>
    /\ p.pc = "main" => o = <<>>
    /\ p.pc = "list" => Listing(image, p, o)
    /\ p.pc = "return" /\ p.v.status = 0 => LsWrote(image, o)

(* "." is the directory.                                                    *)
LEMMA IsTheDirectory ==
  ASSUME NEW image \in Disks, Found(image, <<Dot>>), NEW e, e = DentryByName(image, <<Dot>>)
  PROVE  e.file_type = DIR_TYPE
  <1>1. PICK name : name = <<Dot>>
    OBVIOUS
  <1>2. e \in Listed(image) /\ SameUpTo(e.file_name, name, FILE_NAME_SIZE)
    BY <1>1, FoundIs
  <1>3. PICK s : s = e.file_name
    OBVIOUS
  <1>4. IsString(s) /\ Len(s) <= FILE_NAME_SIZE /\ SameUpTo(s, name, FILE_NAME_SIZE)
    BY <1>2, <1>3, ListedIs, FileSystemAssumption
  <1>5. IsString(name) /\ Len(name) = 1
    <2>1. IsSeq(name, 1) /\ \A i \in 1 .. 1 : name[i] # NUL
      BY <1>1, ProgramsAssumption DEF IsSeq
    <2> QED BY <2>1, IsStringIf
  <1>6. s = SubSeq(name, 1, Lesser(Len(name), FILE_NAME_SIZE))
    BY <1>4, <1>5, SameName
  <1>7. Lesser(Len(name), FILE_NAME_SIZE) = 1
    BY <1>5, FileSystemAssumption DEF Lesser
  <1>8. s = <<Dot>>
    <2>1. PICK z, one : z \in Nat /\ one \in Nat /\ z = 0 /\ one = 1
      OBVIOUS
    <2>2. s = SubSeq(name, z + 1, z + one) /\ z + one <= one /\ IsSeq(name, one)
      BY <1>1, <1>6, <1>7, <2>1 DEF IsSeq
    <2>3. IsPart(s, name, z, one)
      BY <2>1, <2>2, PartIs
    <2>4. IsSeq(s, one) /\ \A i \in 1 .. one : s[i] = name[i]
      BY <2>1, <2>3 DEF IsPart
    <2> QED BY <1>1, <2>1, <2>2, <2>4, SameSeq
  <1> QED BY <1>2, <1>3, <1>8, ProgramsAssumption DEF Listed

(* open() leaves the table typed.                                           *)
LEMMA OpenTyped ==
  ASSUME NEW image \in Disks, NEW fds \in Tables(image), NEW name
  PROVE  Open(image, fds, name).fds \in Tables(image)
  <1>1. PICK r : r = Open(image, fds, name)
    OBVIOUS
  <1>2. r.fds \in Tables(image)
    BY <1>1, OpenIs
  <1> QED BY <1>1, <1>2

(* ls and grep have the directory open, at its beginning.                   *)
LEMMA OpensDirectory ==
  ASSUME Base, NEW r, r = Directory, r.ret # Fail
  PROVE  /\ r.fds \in Tables(disk) /\ IsDirectory(disk, r.fds, r.ret) /\ r.fds[r.ret].pos = 0
  <1>0. disk \in Disks /\ Top.fds \in Tables(disk)
    BY TopIs DEF Base, IsProc
  <1>1. PICK name, fds : name = <<Dot>> /\ fds = Top.fds
    OBVIOUS
  <1>2. r = Open(disk, fds, name) /\ fds \in Tables(disk)
    BY <1>0, <1>1 DEF Directory
  <1>3. r.fds \in Tables(disk)
    <2>1. disk \in Disks /\ fds \in Tables(disk) /\ r = Open(disk, fds, name)
      BY <1>0, <1>2
    <2> QED BY <2>1, OpenTyped
  <1>4. PICK fd, e : Opens(disk, fds, name, r, fd, e)
    BY <1>0, <1>2, OpensIt
  <1>5. e.file_type = DIR_TYPE
    BY <1>0, <1>1, <1>4, IsTheDirectory DEF Opens
  <1> QED BY <1>3, <1>4, <1>5 DEF Opens, IsDirectory

(* No name has been written at first.                                       *)
LEMMA NoNames == ASSUME NEW image \in Disks PROVE Names(image, 0, <<>>)
  <1>1. 0 <= Len(Entries(image))
    BY ShellAssumption DEF WellFormed
  <1>2. IsSeq(<<>>, 0)
    BY DEF IsSeq
  <1>3. 0 * Width = 0 /\ 0 \in Nat /\ 1 .. 0 = {}
    BY FileSystemAssumption DEF Width
  <1> QED BY <1>1, <1>2, <1>3 DEF Names

(* ls opens the directory.                                                  *)
LEMMA LsOpens ==
  ASSUME Base, LsPart(disk, Top, out), LsOpen
  PROVE  LsPart(disk', Top', out')
  <1>1. PICK r : r = Directory
    OBVIOUS
  <1>2. disk' = disk /\ message' \in Words /\ out' = out /\ out = <<>> /\ Top.program = "ls"
    BY QuietIs DEF LsOpen, Quiet, At, LsPart
  <1>3. PICK v : v = [fd |-> r.ret]
    OBVIOUS
  <1>4. Return(Top, 2) \/ (r.ret # Fail /\ Go("list", r.fds, v))
    BY <1>1, <1>3 DEF LsOpen
  <1>5. PICK p : p = Top'
    OBVIOUS
  <1>6. ASSUME Return(Top, 2) PROVE LsPart(disk', p, out')
    <2>1. p.pc = "return" /\ p.v.status = 2
      BY <1>2, <1>5, <1>6, Returned
    <2> QED BY <2>1 DEF LsPart
  <1>7. ASSUME r.ret # Fail, Go("list", r.fds, v) PROVE LsPart(disk', p, out')
    <2>1. r.fds \in Tables(disk) /\ IsDirectory(disk, r.fds, r.ret) /\ r.fds[r.ret].pos = 0
      BY <1>1, <1>7, OpensDirectory
    <2>2. p.pc = "list" /\ p.fds = r.fds /\ p.v = v
      BY <1>2, <1>5, <1>7, <2>1, Went
    <2>3. p.v.fd = r.ret
      BY <1>3, <2>2
    <2>4. Names(disk, 0, out)
      BY <1>2, NoNames DEF Base
    <2>5. Listing(disk, p, out)
      BY <2>1, <2>2, <2>3, <2>4 DEF Listing
    <2> QED BY <1>2, <2>2, <2>5 DEF LsPart
  <1> QED BY <1>4, <1>5, <1>6, <1>7

(* The name a read of the directory gives, padded with NUL.                 *)
LEMMA NameIs ==
  ASSUME NEW image, NEW k, NEW s, s = PaddedName(image, k)
  PROVE  IsSeq(s, FILE_NAME_SIZE) /\ \A j \in 1 .. FILE_NAME_SIZE : s[j] = CharAt(EntryAt(image, k).file_name, j)
  BY DEF PaddedName, IsSeq

(* One more name, and its newline.                                          *)
LEMMA OneMoreName ==
  ASSUME NEW image, NEW k \in Nat, NEW o, Names(image, k, o), k + 1 <= Len(Entries(image)),
         NEW s, s = PaddedName(image, k)
  PROVE  Names(image, k + 1, o \o Append(s, Newline))
  <1>1. PICK n \in Nat : /\ n = k * Width /\ IsSeq(o, n)
                         /\ \A i \in 1 .. n : o[i] = NameChar(image, (i - 1) \div Width, ((i - 1) % Width) + 1)
    BY DEF Names
  <1>2. PICK w \in Nat : w = Width /\ w = FILE_NAME_SIZE + 1 /\ w # 0
    BY FileSystemAssumption DEF Width
  <1>3. PICK f \in Nat : f = FILE_NAME_SIZE /\ w = f + 1
    BY <1>2, FileSystemAssumption
  <1>4. PICK t : t = Append(s, Newline)
    OBVIOUS
  <1>5. IsSeq(s, f) /\ \A j \in 1 .. f : s[j] = CharAt(EntryAt(image, k).file_name, j)
    BY <1>3, NameIs
  <1>6. Joins(t, s, f, <<Newline>>, 1)
    BY <1>4, <1>5, Appended
  <1>7. IsSeq(t, w) /\ \A j \in 1 .. w : t[j] = NameChar(image, k, j)
    <2>1. IsSeq(t, w)
      BY <1>3, <1>6 DEF Joins
    <2>2. t[f + 1] = Newline /\ \A j \in 1 .. f : t[j] = s[j]
      <3>1. 1 \in 1 .. 1 /\ <<Newline>>[1] = Newline
        OBVIOUS
      <3> QED BY <1>6, <3>1 DEF Joins
    <2>3. ASSUME NEW j \in 1 .. w PROVE t[j] = NameChar(image, k, j)
      <3>1. CASE j = w
        BY <1>2, <1>3, <2>2, <3>1 DEF NameChar
      <3>2. CASE j # w
        <4>1. j \in 1 .. f
          BY <1>3, <3>2
        <4> QED BY <1>2, <1>5, <2>2, <3>2, <4>1 DEF NameChar
      <3> QED BY <3>1, <3>2
    <2> QED BY <2>1, <2>3
  <1>8. PICK u : u = o \o t
    OBVIOUS
  <1>9. Joins(u, o, n, t, w)
    BY <1>1, <1>7, <1>8, Joined
  <1>10. PICK m \in Nat : m = n + w
    OBVIOUS
  <1>11. m = (k + 1) * Width
    <2>1. (k + 1) * w = k * w + w
      BY <1>2
    <2>2. n = k * w
      BY <1>1, <1>2
    <2> QED BY <1>2, <1>10, <2>1, <2>2
  <1>12. ASSUME NEW i \in 1 .. m PROVE u[i] = NameChar(image, (i - 1) \div w, ((i - 1) % w) + 1)
    <2>1. CASE i \in 1 .. n
      BY <1>1, <1>2, <1>9, <2>1 DEF Joins
    <2>2. CASE i \notin 1 .. n
      <3>1. PICK j \in 1 .. w : i = n + j
        <4>1. i - n \in 1 .. w /\ i = n + (i - n)
          BY <1>10, <2>2
        <4> QED BY <4>1
      <3>2. PICK x \in 0 .. w - 1 : x = j - 1
        BY <3>1
      <3>3. i - 1 = k * w + x
        <4>1. n = k * w
          BY <1>1, <1>2
        <4>2. i - 1 = n + x
          BY <3>1, <3>2
        <4> QED BY <4>1, <4>2
      <3>4. (k * w + x) \div w = k /\ (k * w + x) % w = x
        <4>1. w \in Nat \ {0}
          BY <1>2
        <4> QED BY <3>2, <4>1, Divided
      <3>5. (i - 1) \div w = k /\ ((i - 1) % w) + 1 = j
        BY <3>1, <3>2, <3>3, <3>4
      <3>6. u[i] = t[j]
        BY <1>9, <3>1 DEF Joins
      <3> QED BY <1>7, <3>1, <3>5, <3>6
    <2> QED BY <2>1, <2>2
  <1>13. IsSeq(u, m)
    BY <1>9, <1>10 DEF Joins
  <1>14. Names(image, k + 1, u)
    BY <1>2, <1>11, <1>12, <1>13 DEF Names
  <1> QED BY <1>4, <1>8, <1>14

(* ls writes a name, and returns 0 past the last one only.                  *)
LEMMA LsLists ==
  ASSUME Base, LsPart(disk, Top, out), LsName
  PROVE  LsPart(disk', Top', out')
  <1>0. disk \in Disks /\ Top.fds \in Tables(disk) /\ FILE_NAME_SIZE \in Nat \ {0}
    BY TopIs, FileSystemAssumption DEF Base, IsProc
  <1>1. PICK fds, v, fd : fds = Top.fds /\ v = Top.v /\ fd = v.fd
    OBVIOUS
  <1>2. Listing(disk, Top, out) /\ Top.program = "ls"
    BY DEF LsPart, LsName, At
  <1>3. PICK e : fd \in Fds \ {0, 1} /\ e.file_type = DIR_TYPE /\ Holds(disk, fds[fd], e)
    BY <1>1, <1>2 DEF Listing, IsDirectory
  <1>4. PICK r : r = Read(disk, fds, fd, FILE_NAME_SIZE)
    OBVIOUS
  <1>5. disk' = disk /\ message' \in Words
    BY DEF LsName, Base
  <1>6. IF AtEnd(r) THEN Return(Top, EndStatus(r)) /\ out' = out
        ELSE Go("list", r.fds, v) /\ Puts(Append(Buffer(r), Newline))
    BY <1>1, <1>4 DEF LsName
  <1>7. r.fds \in Tables(disk)
    BY <1>0, <1>1, <1>4, ReadTyped
  <1>8. PICK p : p = Top'
    OBVIOUS
  <1>9. PICK x, k : x = fds[fd] /\ k = x.pos
    OBVIOUS
  <1>10. k \in Nat /\ fd \in Fds /\ (~Full(disk) => Names(disk, k, out))
    BY <1>0, <1>1, <1>2, <1>3, <1>9 DEF Tables, Descriptor, Listing
  <1>11. PICK n \in Nat : n = Len(Entries(disk)) /\ n <= MaxEntries
    BY <1>0, ShellAssumption, FileSystemAssumption DEF WellFormed
  <1>12. /\ Holds(disk, r.fds[fd], e)
         /\ IF IsIndex(disk, k)
            THEN /\ r.ret = IF k + 1 < MaxEntries THEN FILE_NAME_SIZE ELSE 0
                 /\ r.data = PaddedName(disk, k) /\ r.fds[fd].pos = k + 1
            ELSE r.ret = 0
    BY <1>0, <1>1, <1>3, <1>4, <1>9, <1>10, ReadsDir
  <1>13. ASSUME AtEnd(r) PROVE LsPart(disk', p, out')
    <2>1. p.pc = "return" /\ p.v.status = EndStatus(r)
      BY <1>1, <1>5, <1>6, <1>8, <1>13, Returned
    <2>2. ~Full(disk) => k = n
      <3> SUFFICES ASSUME ~Full(disk) PROVE k = n
        OBVIOUS
      <3>1. n < MaxEntries
        BY <1>11, FileSystemAssumption DEF Full
      <3>2. r.ret \in {0, Fail}
        BY <1>13 DEF AtEnd
      <3>3. ~(k <= n - 1)
        BY <1>0, <1>10, <1>11, <1>12, <3>1, <3>2, FileSystemAssumption DEF IsIndex, Fail
      <3>4. k <= n
        BY <1>10, <1>11 DEF Names
      <3> QED BY <1>10, <3>3, <3>4
    <2>3. LsWrote(disk, out)
      BY <1>10, <1>11, <2>2 DEF LsWrote
    <2> QED BY <1>5, <1>6, <1>13, <2>1, <2>3 DEF LsPart
  <1>14. ASSUME ~AtEnd(r) PROVE LsPart(disk', p, out')
    <2>1. p.pc = "list" /\ p.fds = r.fds /\ p.v = v
      BY <1>1, <1>5, <1>6, <1>7, <1>8, <1>14, Went
    <2>2. IsIndex(disk, k) /\ r.ret = FILE_NAME_SIZE /\ r.data = PaddedName(disk, k) /\ r.fds[fd].pos = k + 1
      BY <1>12, <1>14 DEF AtEnd
    <2>3. PICK s : s = PaddedName(disk, k)
      OBVIOUS
    <2>4. Buffer(r) = s
      <3>1. IsSeq(s, FILE_NAME_SIZE) /\ r.data = s /\ FILE_NAME_SIZE \in Nat
        BY <1>0, <2>2, <2>3, NameIs
      <3>2. Buffer(r) = r.data
        BY <2>2, <3>1, BufferHas
      <3> QED BY <3>1, <3>2
    <2>5. out' = out \o Append(s, Newline)
      BY <1>6, <1>14, <2>4 DEF Puts
    <2>6. k + 1 <= Len(Entries(disk))
      BY <1>10, <1>11, <2>2 DEF IsIndex
    <2>7. ~Full(disk) => Names(disk, k + 1, out')
      BY <1>10, <2>3, <2>5, <2>6, OneMoreName
    <2>8. Listing(disk, p, out')
      BY <1>1, <1>3, <1>12, <2>1, <2>2, <2>7 DEF Listing, IsDirectory
    <2> QED BY <1>5, <2>1, <2>8 DEF LsPart
  <1> QED BY <1>8, <1>13, <1>14

(* ls has written what LsPromise says.                                      *)
LEMMA LsPromised ==
  ASSUME disk \in Disks, LsWrote(disk, out), ~FullBootBlock
  PROVE  LsPromise
  <1>1. PICK n \in Nat : n = Len(Entries(disk))
    BY ShellAssumption DEF WellFormed
  <1>2. PICK m \in Nat : /\ m = n * Width /\ IsSeq(out, m)
                         /\ \A i \in 1 .. m : out[i] = NameChar(disk, (i - 1) \div Width, ((i - 1) % Width) + 1)
    BY <1>1 DEF LsWrote, Full, FullBootBlock, Names
  <1>3. Len(out) = m
    BY <1>2, SeqIs
  <1> QED BY <1>1, <1>2, <1>3 DEF LsPromise, Width, NameChar

-----------------------------------------------------------------------------
(* Sequences put together one by one, as FlattenSeq() puts them.             *)
Flats(f, s, k) == f[0] = <<>> /\ \A i \in 1 .. k : f[i] = f[i - 1] \o s[i]
IsFlat(o, s, k) == \E f : Flats(f, s, k) /\ o = f[k]
SomeSeq(t) == \E m \in Nat : IsSeq(t, m)

(* Nothing joined.                                                          *)
LEMMA FlatStart == ASSUME NEW s PROVE IsFlat(<<>>, s, 0)
  <1>1. PICK f : f = [i \in 0 .. 0 |-> <<>>]
    OBVIOUS
  <1>2. f[0] = <<>> /\ 1 .. 0 = {}
    BY <1>1
  <1> QED BY <1>2 DEF IsFlat, Flats

(* One more sequence joined.                                                *)
LEMMA FlatStep ==
  ASSUME NEW o, NEW s, NEW k \in Nat, IsFlat(o, s, k)
  PROVE  IsFlat(o \o s[k + 1], s, k + 1)
  <1>1. PICK f : Flats(f, s, k) /\ o = f[k]
    BY DEF IsFlat
  <1>2. PICK t : t = o \o s[k + 1]
    OBVIOUS
  <1>3. PICK g : g = [i \in 0 .. k + 1 |-> IF i = k + 1 THEN t ELSE f[i]]
    OBVIOUS
  <1>4. g[k + 1] = t /\ \A i \in 0 .. k : g[i] = f[i]
    BY <1>3
  <1>5. g[0] = <<>>
    BY <1>1, <1>4 DEF Flats
  <1>6. ASSUME NEW i \in 1 .. k + 1 PROVE g[i] = g[i - 1] \o s[i]
    <2>1. CASE i = k + 1
      <3>1. g[i - 1] = o /\ g[i] = t
        BY <1>1, <1>4, <2>1
      <3> QED BY <1>2, <2>1, <3>1
    <2>2. CASE i # k + 1
      <3>1. i \in 1 .. k /\ i - 1 \in 0 .. k /\ i \in 0 .. k
        BY <2>2
      <3>2. g[i] = f[i] /\ g[i - 1] = f[i - 1]
        BY <1>4, <3>1
      <3>3. f[i] = f[i - 1] \o s[i]
        BY <1>1, <3>1 DEF Flats
      <3> QED BY <3>2, <3>3
    <2> QED BY <2>1, <2>2
  <1>7. Flats(g, s, k + 1)
    BY <1>5, <1>6 DEF Flats
  <1>8. IsFlat(t, s, k + 1)
    BY <1>4, <1>7 DEF IsFlat
  <1> QED BY <1>2, <1>8

(* The empty sequence joins without a trace.                                *)
LEMMA NothingBefore ==
  ASSUME NEW t, SomeSeq(t)
  PROVE  <<>> \o t = t /\ t \o <<>> = t
  <1>1. PICK m \in Nat : IsSeq(t, m)
    BY DEF SomeSeq
  <1>2. PICK S : t \in Seq(S)
    BY <1>1, SeqIs
  <1> QED BY <1>2

(* All joined is FlattenSeq, whatever order its fold takes.                 *)
LEMMA FlatEnd ==
  ASSUME NEW o, NEW s, NEW n \in Nat, IsSeq(s, n), \A i \in 1 .. n : SomeSeq(s[i]), IsFlat(o, s, n)
  PROVE  o = FlattenSeq(s)
  <1>1. PICK f : Flats(f, s, n) /\ o = f[n]
    BY DEF IsFlat
  <1>2. Len(s) = n
    BY SeqIs
  <1>3. CASE n = 0
    BY <1>1, <1>2, <1>3, NoItems DEF FlattenSeq, Flats
  <1>4. CASE n # 0
    <2> DEFINE Line(h, i) == IF i = 1 THEN s[i] ELSE h[i - 1] \o s[i]
    <2>1. PICK g : g = [i \in 1 .. n |-> f[i]]
      OBVIOUS
    <2>2. ASSUME NEW i \in 1 .. n PROVE g[i] = Line(g, i)
      <3>1. f[i] = f[i - 1] \o s[i]
        BY <1>1 DEF Flats
      <3>2. CASE i = 1
        <4>0. i - 1 = 0 /\ f[0] = <<>>
          BY <1>1, <3>2 DEF Flats
        <4>1. f[i] = <<>> \o s[i]
          BY <3>1, <4>0
        <4>2. PICK t : t = s[i]
          OBVIOUS
        <4>3. SomeSeq(t)
          BY <4>2
        <4>4. <<>> \o t = t
          BY <4>3, NothingBefore
        <4> QED BY <2>1, <3>2, <4>1, <4>2, <4>4
      <3>3. CASE i # 1
        <4>1. i - 1 \in 1 .. n
          BY <3>3
        <4> QED BY <2>1, <3>1, <3>3, <4>1
      <3> QED BY <3>2, <3>3
    <2>3. g = [i \in 1 .. n |-> Line(g, i)]
      BY <2>1, <2>2
    <2>4. PICK h : h = CHOOSE x : x = [i \in 1 .. n |-> Line(x, i)]
      OBVIOUS
    <2>5. h = [i \in 1 .. n |-> Line(h, i)]
      BY <2>3, <2>4
    <2>6. FlattenSeq(s) = h[n]
      BY <1>2, <1>4, <2>4 DEF FlattenSeq
    <2> DEFINE T == {i \in 1 .. n : h[i] # g[i]}
    <2>7. T = {}
      <3> SUFFICES ASSUME T # {} PROVE FALSE
        OBVIOUS
      <3>1. T \subseteq Nat
        OBVIOUS
      <3>2. PICK i \in T : \A j \in T : i <= j
        BY <3>1, Smallest
      <3>3. i \in 1 .. n /\ h[i] # g[i]
        BY <3>2
      <3>4. h[i] = Line(h, i) /\ g[i] = Line(g, i)
        BY <2>2, <2>5, <3>3
      <3>5. CASE i = 1
        BY <3>3, <3>4, <3>5
      <3>6. CASE i # 1
        <4>1. i - 1 \in 1 .. n /\ ~(i <= i - 1)
          BY <3>3, <3>6
        <4>2. h[i - 1] = g[i - 1]
          BY <3>2, <4>1
        <4> QED BY <3>3, <3>4, <3>6, <4>2
      <3> QED BY <3>5, <3>6
    <2>8. n \in 1 .. n
      BY <1>4
    <2>9. h[n] = f[n]
      BY <2>1, <2>7, <2>8
    <2> QED BY <1>1, <2>6, <2>9
  <1> QED BY <1>3, <1>4

-----------------------------------------------------------------------------
(* The digits of a number, from the last on and from the first on.           *)
LEMMA Tens ==
  ASSUME NEW k \in Nat, k # 0
  PROVE  k \div 10 \in 0 .. k - 1 /\ k % 10 \in 0 .. 9 /\ (k < 10 => k \div 10 = 0 /\ k % 10 = k) /\ (k >= 10 => k \div 10 # 0)
  OBVIOUS

IsLow(f, n) == \A k \in 0 .. n : f[k] = IF k = 0 THEN <<>> ELSE <<Digits[(k % 10) + 1]>> \o f[k \div 10]
IsForm(f, n) == \A k \in 0 .. n : f[k] = IF k < 10 THEN <<Digits[k + 1]>>
                                         ELSE Append(f[k \div 10], Digits[(k % 10) + 1])

(* The digits that Backwards finds, as a function.                          *)
LEMMA LowIs ==
  ASSUME NEW n \in Nat
  PROVE  \E f : IsLow(f, n) /\ Backwards(n) = f[n]
  <1> DEFINE Line(f, k) == IF k = 0 THEN <<>> ELSE <<Digits[(k % 10) + 1]>> \o f[k \div 10]
             T == {m \in Nat : ~\E f : f = [k \in 0 .. m |-> Line(f, k)]}
  <1>1. T = {}
    <2> SUFFICES ASSUME T # {} PROVE FALSE
      OBVIOUS
    <2>0. T \subseteq Nat
      OBVIOUS
    <2>1. PICK m \in T : \A j \in T : m <= j
      BY <2>0, Smallest
    <2>2. m \in Nat /\ ~\E f : f = [k \in 0 .. m |-> Line(f, k)]
      BY <2>1
    <2>3. CASE m = 0
      <3>1. PICK g : g = [k \in 0 .. 0 |-> <<>>]
        OBVIOUS
      <3>2. \A k \in 0 .. 0 : Line(g, k) = <<>>
        OBVIOUS
      <3>3. g = [k \in 0 .. 0 |-> Line(g, k)]
        BY <3>1, <3>2
      <3> QED BY <2>2, <2>3, <3>3
    <2>4. CASE m # 0
      <3>0. m - 1 \in Nat /\ ~(m <= m - 1)
        BY <2>2, <2>4
      <3>1. m - 1 \notin T
        BY <2>1, <3>0
      <3>2. PICK g : g = [k \in 0 .. m - 1 |-> Line(g, k)]
        BY <3>0, <3>1
      <3>3. PICK f : f = [k \in 0 .. m |-> IF k = m THEN Line(g, m) ELSE g[k]]
        OBVIOUS
      <3>4. ASSUME NEW k \in 0 .. m PROVE f[k] = Line(f, k)
        <4>1. f[k] = Line(g, k)
          <5>1. CASE k = m
            BY <5>1, <3>3
          <5>2. CASE k # m
            <6>1. k \in 0 .. m - 1
              BY <5>2, <2>2
            <6>2. f[k] = g[k]
              BY <5>2, <3>3
            <6>3. g[k] = Line(g, k)
              BY <6>1, <3>2
            <6> QED BY <6>2, <6>3
          <5> QED BY <5>1, <5>2
        <4>2. k # 0 => f[k \div 10] = g[k \div 10]
          <5> SUFFICES ASSUME k # 0 PROVE f[k \div 10] = g[k \div 10]
            OBVIOUS
          <5>1. PICK j : j = k \div 10
            OBVIOUS
          <5>2. j \in 0 .. k - 1
            BY <5>1, <2>2, Tens
          <5>3. j \in 0 .. m /\ j # m
            BY <5>2, <2>2
          <5> QED BY <5>1, <5>3, <3>3
        <4>3. Line(g, k) = Line(f, k)
          BY <4>2
        <4> QED BY <4>1, <4>3
      <3>5. f = [k \in 0 .. m |-> Line(f, k)]
        BY <3>3, <3>4
      <3> QED BY <2>2, <3>5
    <2> QED BY <2>3, <2>4
  <1>2. \E f : f = [k \in 0 .. n |-> Line(f, k)]
    BY <1>1
  <1>3. PICK f : f = CHOOSE h : h = [k \in 0 .. n |-> Line(h, k)]
    OBVIOUS
  <1>4. f = [k \in 0 .. n |-> Line(f, k)]
    BY <1>2, <1>3
  <1>5. Backwards(n) = f[n]
    BY <1>3 DEF Backwards
  <1>6. IsLow(f, n)
    BY <1>4 DEF IsLow
  <1> QED BY <1>5, <1>6

(* They are sequences.                                                      *)
LEMMA LowSeqs ==
  ASSUME NEW n \in Nat, NEW f, IsLow(f, n)
  PROVE  \A k \in 0 .. n : SomeSeq(f[k])
  <1> DEFINE T == {k \in 0 .. n : ~SomeSeq(f[k])}
  <1> SUFFICES ASSUME T # {} PROVE FALSE
    OBVIOUS
  <1>0. T \subseteq Nat
    OBVIOUS
  <1>1. PICK k \in T : \A j \in T : k <= j
    BY <1>0, Smallest
  <1>2. k \in 0 .. n /\ ~SomeSeq(f[k])
    BY <1>1
  <1>3. CASE k = 0
    <2>1. f[k] = <<>>
      BY <1>2, <1>3 DEF IsLow
    <2>2. IsSeq(<<>>, 0)
      BY DEF IsSeq
    <2> QED BY <1>2, <2>1, <2>2 DEF SomeSeq
  <1>4. CASE k # 0
    <2>1. PICK j, d, t : j = k \div 10 /\ d = <<Digits[(k % 10) + 1]>> /\ t = f[j]
      OBVIOUS
    <2>2. j \in 0 .. k - 1
      BY <1>2, <1>4, <2>1, Tens
    <2>3. j \in 0 .. n /\ ~(k <= j)
      BY <1>2, <2>2
    <2>4. SomeSeq(t)
      BY <1>1, <2>1, <2>3
    <2>5. f[k] = d \o t
      BY <1>2, <1>4, <2>1 DEF IsLow
    <2>6. PICK m \in Nat : IsSeq(t, m)
      BY <2>4 DEF SomeSeq
    <2>7. IsSeq(d, 1)
      BY <2>1 DEF IsSeq
    <2>8. Joins(d \o t, d, 1, t, m)
      BY <2>6, <2>7, Joined
    <2>9. IsSeq(f[k], 1 + m) /\ 1 + m \in Nat
      BY <2>5, <2>6, <2>8 DEF Joins
    <2> QED BY <1>2, <2>9 DEF SomeSeq
  <1> QED BY <1>3, <1>4

(* ece391_strrev().                                                         *)
LEMMA ReverseIs ==
  ASSUME NEW s, NEW n \in Nat, IsSeq(s, n)
  PROVE  IsSeq(Reverse(s), n) /\ \A i \in 1 .. n : Reverse(s)[i] = s[n - i + 1]
  <1>1. Len(s) = n
    BY SeqIs
  <1> QED BY <1>1 DEF Reverse, IsSeq

(* The reverse of a sequence with one item before it.                       *)
LEMMA ReverseStep ==
  ASSUME NEW s, SomeSeq(s), NEW c
  PROVE  Reverse(<<c>> \o s) = Append(Reverse(s), c)
  <1>1. PICK n \in Nat : IsSeq(s, n)
    BY DEF SomeSeq
  <1>0. PICK m \in Nat : m = n + 1
    BY <1>1
  <1>2. PICK d, t : d = <<c>> /\ t = d \o s /\ m = n + 1 /\ m \in Nat
    BY <1>0
  <1>3. IsSeq(d, 1) /\ d[1] = c
    BY <1>2 DEF IsSeq
  <1>4. Joins(t, d, 1, s, n)
    BY <1>1, <1>2, <1>3, Joined
  <1>5. IsSeq(t, m) /\ t[1] = c /\ \A i \in 1 .. n : t[1 + i] = s[i]
    BY <1>1, <1>2, <1>3, <1>4 DEF Joins
  <1>6. PICK r, u : r = Reverse(t) /\ u = Reverse(s)
    OBVIOUS
  <1>7. IsSeq(r, m) /\ \A i \in 1 .. m : r[i] = t[m - i + 1]
    BY <1>2, <1>5, <1>6, ReverseIs
  <1>8. IsSeq(u, n) /\ \A i \in 1 .. n : u[i] = s[n - i + 1]
    BY <1>1, <1>6, ReverseIs
  <1>9. PICK w : w = Append(u, c)
    OBVIOUS
  <1>10. Joins(w, u, n, d, 1)
    BY <1>2, <1>8, <1>9, Appended
  <1>11. IsSeq(w, m) /\ w[m] = c /\ \A i \in 1 .. n : w[i] = u[i]
    BY <1>1, <1>2, <1>3, <1>10 DEF Joins
  <1>12. ASSUME NEW i \in 1 .. m PROVE r[i] = w[i]
    <2>1. CASE i = m
      <3>1. m - i + 1 = 1
        BY <1>2, <2>1
      <3> QED BY <1>5, <1>7, <1>11, <2>1, <3>1
    <2>2. CASE i # m
      <3>1. i \in 1 .. n /\ n - i + 1 \in 1 .. n /\ m - i + 1 = 1 + (n - i + 1)
        BY <1>1, <1>2, <2>2
      <3> QED BY <1>5, <1>7, <1>8, <1>11, <3>1
    <2> QED BY <2>1, <2>2
  <1>13. r = w
    BY <1>2, <1>7, <1>11, <1>12, SameSeq
  <1> QED BY <1>2, <1>6, <1>9, <1>13

(* ece391_itoa() gives the decimal form of every number.                     *)
LEMMA ItoaIs ==
  ASSUME NEW n \in Nat
  PROVE  Itoa(n) = Decimal(n)
  <1>1. PICK l : IsLow(l, n) /\ Backwards(n) = l[n]
    BY LowIs
  <1>2. \A k \in 0 .. n : SomeSeq(l[k])
    BY <1>1, LowSeqs
  <1> DEFINE Line(f, k) == IF k < 10 THEN <<Digits[k + 1]>> ELSE Append(f[k \div 10], Digits[(k % 10) + 1])
  <1>3. PICK g : g = [k \in 0 .. n |-> IF k = 0 THEN <<Digits[1]>> ELSE Reverse(l[k])]
    OBVIOUS
  <1>4. ASSUME NEW k \in 0 .. n PROVE g[k] = Line(g, k)
    <2>1. CASE k = 0
      BY <1>3, <2>1
    <2>2. CASE k # 0
      <3>1. PICK j, c, t : j = k \div 10 /\ c = Digits[(k % 10) + 1] /\ t = l[j]
        OBVIOUS
      <3>2. j \in 0 .. k - 1 /\ (k < 10 => j = 0 /\ k % 10 = k) /\ (k >= 10 => j # 0)
        BY <2>2, <3>1, Tens
      <3>3. j \in 0 .. n /\ SomeSeq(t)
        BY <1>2, <3>1, <3>2
      <3>4. g[k] = Reverse(<<c>> \o t)
        <4>1. l[k] = <<c>> \o t
          BY <1>1, <2>2, <3>1 DEF IsLow
        <4> QED BY <1>3, <2>2, <4>1
      <3>5. g[k] = Append(Reverse(t), c)
        BY <3>3, <3>4, ReverseStep
      <3>6. CASE k < 10
        <4>1. t = <<>> /\ c = Digits[k + 1]
          <5>1. 0 \in 0 .. n
            OBVIOUS
          <5> QED BY <1>1, <3>1, <3>2, <3>6, <5>1 DEF IsLow
        <4>2. PICK u : u = Reverse(t)
          OBVIOUS
        <4>3. u = <<>>
          <5>1. IsSeq(t, 0)
            BY <4>1 DEF IsSeq
          <5>2. IsSeq(u, 0)
            BY <4>2, <5>1, ReverseIs
          <5> QED BY <5>2, NoItems
        <4>4. g[k] = Append(<<>>, c)
          BY <3>5, <4>2, <4>3
        <4>5. g[k] = <<c>>
          BY <4>4
        <4> QED BY <3>6, <4>1, <4>5
      <3>7. CASE ~(k < 10)
        <4>1. k >= 10
          BY <3>7
        <4>2. g[j] = Reverse(t)
          BY <1>3, <3>1, <3>2, <3>3, <4>1
        <4> QED BY <3>1, <3>5, <3>7, <4>2
      <3> QED BY <3>6, <3>7
    <2> QED BY <2>1, <2>2
  <1>5. g = [k \in 0 .. n |-> Line(g, k)]
    BY <1>3, <1>4
  <1>6. PICK h : h = CHOOSE x : x = [k \in 0 .. n |-> Line(x, k)]
    OBVIOUS
  <1>7. h = [k \in 0 .. n |-> Line(h, k)]
    BY <1>5, <1>6
  <1>8. Decimal(n) = h[n]
    BY <1>6 DEF Decimal
  <1> DEFINE T == {k \in 0 .. n : h[k] # g[k]}
  <1>9. T = {}
    <2> SUFFICES ASSUME T # {} PROVE FALSE
      OBVIOUS
    <2>0. T \subseteq Nat
      OBVIOUS
    <2>1. PICK k \in T : \A j \in T : k <= j
      BY <2>0, Smallest
    <2>2. k \in 0 .. n /\ h[k] # g[k]
      BY <2>1
    <2>3. h[k] = Line(h, k) /\ g[k] = Line(g, k)
      BY <1>4, <1>7, <2>2
    <2>4. k >= 10
      BY <2>2, <2>3
    <2>5. PICK j : j = k \div 10
      OBVIOUS
    <2>6. j \in 0 .. k - 1
      BY <2>2, <2>4, <2>5, Tens
    <2>7. j \in 0 .. n /\ ~(k <= j)
      BY <2>2, <2>6
    <2>8. h[j] = g[j]
      BY <2>1, <2>7
    <2> QED BY <2>2, <2>3, <2>5, <2>8
  <1>10. n \in 0 .. n
    OBVIOUS
  <1>11. h[n] = g[n]
    BY <1>9, <1>10
  <1>12. Itoa(n) = g[n]
    BY <1>1, <1>3, <1>10 DEF Itoa
  <1> QED BY <1>8, <1>11, <1>12

-----------------------------------------------------------------------------
(* counter: the numbers as far as it has counted.                            *)
Maxima == {0} \cup {Limits[i] : i \in 1 .. Len(Limits)}
NumberLines(max) == [n \in 1 .. max |-> Append(Decimal(n), Newline)]
CounterWrote(o) == \E max \in Maxima : o = FlattenSeq(NumberLines(max))
Counting(v, o) ==
  \E i \in Nat, max \in Maxima :
    v = [i |-> i, max |-> max] /\ i <= max /\ IsFlat(o, NumberLines(max), i)
CounterPart(p, o) ==
  p.program = "counter" =>
    /\ p.pc = "main" => o = <<>>
    /\ p.pc = "count" => Counting(p.v, o)
    /\ p.pc = "return" /\ p.v.status = 0 => CounterWrote(o)

(* counter's limits are numbers.                                            *)
LEMMA MaximaAre == Maxima \subseteq Nat
  <1>1. Limits \in Seq(Nat)
    BY ProgramsAssumption
  <1>2. \A i \in 1 .. Len(Limits) : Limits[i] \in Nat
    BY <1>1
  <1> QED BY <1>2 DEF Maxima

(* The lines that counter writes are sequences.                             *)
LEMMA LinesAre ==
  ASSUME NEW max \in Nat, NEW s, s = NumberLines(max)
  PROVE  IsSeq(s, max) /\ \A n \in 1 .. max : SomeSeq(s[n])
  <1>1. IsSeq(s, max) /\ \A n \in 1 .. max : s[n] = Append(Decimal(n), Newline)
    BY DEF NumberLines, IsSeq
  <1>2. ASSUME NEW n \in 1 .. max PROVE SomeSeq(s[n])
    <2>1. PICK d : d = Itoa(n)
      OBVIOUS
    <2>2. d = Decimal(n)
      BY <2>1, ItoaIs
    <2>3. SomeSeq(d)
      <3>1. PICK l : IsLow(l, n) /\ Backwards(n) = l[n]
        BY LowIs
      <3>2. SomeSeq(l[n])
        BY <3>1, LowSeqs
      <3>3. PICK t, m : t = l[n] /\ m \in Nat /\ IsSeq(t, m)
        BY <3>2 DEF SomeSeq
      <3>4. IsSeq(Reverse(t), m)
        BY <3>3, ReverseIs
      <3>5. d = Reverse(t)
        BY <2>1, <3>1, <3>3 DEF Itoa
      <3> QED BY <3>3, <3>4, <3>5 DEF SomeSeq
    <2>4. PICK m \in Nat : IsSeq(d, m)
      BY <2>3 DEF SomeSeq
    <2>5. Joins(Append(d, Newline), d, m, <<Newline>>, 1)
      BY <2>4, Appended
    <2>6. IsSeq(Append(d, Newline), m + 1) /\ m + 1 \in Nat
      BY <2>4, <2>5 DEF Joins
    <2>7. s[n] = Append(d, Newline)
      BY <1>1, <2>2
    <2> QED BY <2>6, <2>7 DEF SomeSeq
  <1> QED BY <1>1, <1>2

(* counter is done when all its lines are written.                          *)
LEMMA Counted ==
  ASSUME NEW max \in Maxima, NEW o, IsFlat(o, NumberLines(max), max)
  PROVE  CounterWrote(o)
  <1>1. max \in Nat
    BY MaximaAre
  <1>2. PICK s : s = NumberLines(max)
    OBVIOUS
  <1>3. IsSeq(s, max) /\ (\A n \in 1 .. max : SomeSeq(s[n])) /\ IsFlat(o, s, max)
    BY <1>1, <1>2, LinesAre
  <1>4. o = FlattenSeq(s)
    BY <1>1, <1>3, FlatEnd
  <1> QED BY <1>2, <1>4 DEF CounterWrote

(* counter takes its limit from the line typed.                             *)
LEMMA CounterChooses ==
  ASSUME Base, CounterPart(Top, out), CounterChoose
  PROVE  CounterPart(Top', out')
  <1>0. disk \in Disks /\ Top.fds \in Tables(disk)
    BY TopIs DEF Base, IsProc
  <1>1. disk' = disk /\ message' \in Words /\ out' = out /\ out = <<>> /\ Top.program = "counter"
    BY QuietIs DEF CounterChoose, Quiet, At, CounterPart
  <1>2. PICK line \in Lines :
          IF line # <<>> /\ Choice(line) = {} THEN Return(Top, 0)
          ELSE Go("count", Top.fds, [i |-> 0, max |-> IF line = <<>> THEN 0 ELSE Limits[Least(Choice(line))]])
    BY DEF CounterChoose
  <1>3. PICK p, fds : p = Top' /\ fds = Top.fds
    OBVIOUS
  <1>4. CASE Return(Top, 0)
    <2>1. p.pc = "return"
      BY <1>1, <1>3, <1>4, Returned
    <2>2. PICK z \in Maxima : z = 0
      BY DEF Maxima
    <2>3. IsFlat(out, NumberLines(z), z)
      BY <1>1, <2>2, FlatStart
    <2>4. CounterWrote(out)
      BY <2>3, Counted
    <2> QED BY <1>1, <1>3, <2>1, <2>4 DEF CounterPart
  <1>5. CASE ~Return(Top, 0)
    <2>1. line = <<>> \/ Choice(line) # {}
      BY <1>2, <1>5
    <2>2. PICK max : max = IF line = <<>> THEN 0 ELSE Limits[Least(Choice(line))]
      OBVIOUS
    <2>3. max \in Maxima
      <3>1. CASE line = <<>>
        BY <2>2, <3>1 DEF Maxima
      <3>2. CASE line # <<>>
        <4>1. PICK C : C = Choice(line)
          OBVIOUS
        <4>2. C # {} /\ C \subseteq 1 .. Len(Limits) /\ Len(Limits) \in Nat
          BY <2>1, <3>2, <4>1, ProgramsAssumption DEF Choice
        <4>3. C \subseteq Nat
          BY <4>2
        <4>4. Least(C) \in C
          BY <4>2, <4>3, LeastIs
        <4> QED BY <2>2, <3>2, <4>1, <4>2, <4>4 DEF Maxima
      <3> QED BY <3>1, <3>2
    <2>4. PICK v : v = [i |-> 0, max |-> max]
      OBVIOUS
    <2>5. Go("count", fds, v)
      BY <1>2, <1>3, <1>5, <2>2, <2>4
    <2>6. p.pc = "count" /\ p.v = v
      BY <1>0, <1>1, <1>3, <2>5, Went
    <2>7. max \in Nat /\ IsFlat(out, NumberLines(max), 0)
      BY <1>1, <2>3, MaximaAre, FlatStart
    <2>8. Counting(v, out)
      BY <2>3, <2>4, <2>7 DEF Counting
    <2> QED BY <1>1, <1>3, <2>6, <2>8 DEF CounterPart
  <1> QED BY <1>4, <1>5

(* counter writes the next number.                                          *)
LEMMA CounterCounts ==
  ASSUME Base, CounterPart(Top, out), CounterCount
  PROVE  CounterPart(Top', out')
  <1>0. disk \in Disks /\ Top.fds \in Tables(disk)
    BY TopIs DEF Base, IsProc
  <1>1. disk' = disk /\ message' \in Words /\ Top.program = "counter" /\ Counting(Top.v, out)
    BY DEF CounterCount, At, CounterPart, Base
  <1>2. PICK v, fds, p : v = Top.v /\ fds = Top.fds /\ p = Top'
    OBVIOUS
  <1>3. PICK i \in Nat, max \in Maxima :
          v = [i |-> i, max |-> max] /\ i <= max /\ IsFlat(out, NumberLines(max), i)
    BY <1>1, <1>2 DEF Counting
  <1>4. v.i = i /\ v.max = max /\ max \in Nat
    BY <1>3, MaximaAre
  <1>5. PICK w : w = [v EXCEPT !.i = @ + 1]
    OBVIOUS
  <1>6. IF i < max THEN Puts(Append(Itoa(i + 1), Newline)) /\ Go("count", fds, w)
        ELSE Return(Top, 0) /\ out' = out
    BY <1>2, <1>4, <1>5 DEF CounterCount
  <1>7. CASE i < max
    <2>1. p.pc = "count" /\ p.v = w
      BY <1>0, <1>1, <1>2, <1>6, <1>7, Went
    <2>2. PICK n \in Nat : n = i + 1
      OBVIOUS
    <2>3. w = [i |-> n, max |-> max]
      BY <1>3, <1>5, <2>2
    <2>4. PICK s : s = NumberLines(max)
      OBVIOUS
    <2>5. IsFlat(out \o s[i + 1], s, i + 1)
      BY <1>3, <2>4, FlatStep
    <2>6. Itoa(n) = Decimal(n)
      BY <2>2, ItoaIs
    <2>7. n \in 1 .. max
      BY <1>4, <1>7, <2>2
    <2>8. s[n] = Append(Itoa(n), Newline)
      BY <2>4, <2>6, <2>7 DEF NumberLines
    <2>9. out' = out \o s[n]
      BY <1>6, <1>7, <2>2, <2>8 DEF Puts
    <2>10. IsFlat(out', NumberLines(max), n) /\ n <= max
      BY <2>2, <2>4, <2>5, <2>7, <2>9
    <2>11. Counting(w, out')
      BY <2>3, <2>10 DEF Counting
    <2> QED BY <1>2, <2>1, <2>11 DEF CounterPart
  <1>8. CASE ~(i < max)
    <2>1. p.pc = "return"
      BY <1>1, <1>2, <1>6, <1>8, Returned
    <2>2. i = max
      BY <1>3, <1>4, <1>8
    <2>3. CounterWrote(out)
      BY <1>3, <2>2, Counted
    <2> QED BY <1>2, <1>6, <1>8, <2>1, <2>3 DEF CounterPart
  <1> QED BY <1>7, <1>8

(* What counter has written is its promise.                                 *)
LEMMA CounterPromised == ASSUME CounterWrote(out) PROVE CounterPromise
  BY DEF CounterWrote, CounterPromise, Maxima, NumberLines

-----------------------------------------------------------------------------
(* More of sequences that are put together.                                  *)
LEMMA Empty == SomeSeq(<<>>)
  <1>1. IsSeq(<<>>, 0)
    BY DEF IsSeq
  <1> QED BY <1>1 DEF SomeSeq

(* A sequence of one item.                                                  *)
LEMMA Single == ASSUME NEW c PROVE SomeSeq(<<c>>)
  <1>1. IsSeq(<<c>>, 1)
    BY DEF IsSeq
  <1> QED BY <1>1 DEF SomeSeq

(* Two sequences joined are one.                                            *)
LEMMA BothSeqs == ASSUME NEW s, NEW t, SomeSeq(s), SomeSeq(t) PROVE SomeSeq(s \o t)
  <1>1. PICK n \in Nat, m \in Nat : IsSeq(s, n) /\ IsSeq(t, m)
    BY DEF SomeSeq
  <1>2. Joins(s \o t, s, n, t, m)
    BY <1>1, Joined
  <1>3. IsSeq(s \o t, n + m) /\ n + m \in Nat
    BY <1>1, <1>2 DEF Joins
  <1> QED BY <1>3 DEF SomeSeq

(* Joining is associative.                                                  *)
LEMMA Regrouped ==
  ASSUME NEW s, NEW t, NEW u, SomeSeq(s), SomeSeq(t), SomeSeq(u)
  PROVE  (s \o t) \o u = s \o (t \o u)
  <1>1. PICK n \in Nat, m \in Nat, k \in Nat : IsSeq(s, n) /\ IsSeq(t, m) /\ IsSeq(u, k)
    BY DEF SomeSeq
  <1>2. PICK S, T, U : s \in Seq(S) /\ t \in Seq(T) /\ u \in Seq(U)
    BY <1>1, SeqIs
  <1>3. PICK A : A = S \cup T \cup U
    OBVIOUS
  <1>4. s \in Seq(A) /\ t \in Seq(A) /\ u \in Seq(A)
    BY <1>2, <1>3
  <1> QED BY <1>4

AllSeqs(s, n) == \A i \in 1 .. n : SomeSeq(s[i])

(* Sequences joined are sequences.                                          *)
LEMMA FlatSeqs ==
  ASSUME NEW s, NEW n \in Nat, AllSeqs(s, n), NEW f, Flats(f, s, n)
  PROVE  \A i \in 0 .. n : SomeSeq(f[i])
  <1> DEFINE T == {i \in 0 .. n : ~SomeSeq(f[i])}
  <1> SUFFICES ASSUME T # {} PROVE FALSE
    OBVIOUS
  <1>0. T \subseteq Nat
    OBVIOUS
  <1>1. PICK i \in T : \A j \in T : i <= j
    BY <1>0, Smallest
  <1>2. i \in 0 .. n /\ ~SomeSeq(f[i])
    BY <1>1
  <1>3. CASE i = 0
    BY <1>2, <1>3, Empty DEF Flats
  <1>4. CASE i # 0
    <2>1. i - 1 \in 0 .. n /\ ~(i <= i - 1) /\ i \in 1 .. n
      BY <1>2, <1>4
    <2>2. PICK t, u : t = f[i - 1] /\ u = s[i]
      OBVIOUS
    <2>3. SomeSeq(t) /\ SomeSeq(u)
      BY <1>1, <2>1, <2>2 DEF AllSeqs
    <2>4. f[i] = t \o u
      BY <2>1, <2>2 DEF Flats
    <2>5. SomeSeq(t \o u)
      BY <2>3, BothSeqs
    <2> QED BY <1>2, <2>4, <2>5
  <1> QED BY <1>3, <1>4

(* So is the last of them.                                                  *)
LEMMA FlatIsSeq ==
  ASSUME NEW s, NEW n \in Nat, AllSeqs(s, n), NEW o, IsFlat(o, s, n)
  PROVE  SomeSeq(o)
  <1>1. PICK f : Flats(f, s, n) /\ o = f[n]
    BY DEF IsFlat
  <1>2. n \in 0 .. n
    OBVIOUS
  <1> QED BY <1>1, <1>2, FlatSeqs

(* Any number of sequences can be joined.                                   *)
LEMMA FlatExists ==
  ASSUME NEW s, NEW n \in Nat
  PROVE  \E o : IsFlat(o, s, n)
  <1> DEFINE T == {k \in Nat : ~\E o : IsFlat(o, s, k)}
  <1> SUFFICES ASSUME T # {} PROVE FALSE
    OBVIOUS
  <1>0. T \subseteq Nat
    OBVIOUS
  <1>1. PICK k \in T : \A j \in T : k <= j
    BY <1>0, Smallest
  <1>2. k \in Nat /\ ~\E o : IsFlat(o, s, k)
    BY <1>1
  <1>3. CASE k = 0
    BY <1>2, <1>3, FlatStart
  <1>4. CASE k # 0
    <2>1. PICK j \in Nat : k = j + 1
      <3>1. k - 1 \in Nat /\ k = (k - 1) + 1
        BY <1>2, <1>4
      <3> QED BY <3>1
    <2>2. j \notin T
      BY <1>1, <1>2, <2>1
    <2>3. PICK o : IsFlat(o, s, j)
      BY <2>1, <2>2
    <2>4. IsFlat(o \o s[j + 1], s, j + 1)
      BY <2>1, <2>3, FlatStep
    <2> QED BY <1>2, <2>1, <2>4
  <1> QED BY <1>3, <1>4

(* In one way only.                                                         *)
LEMMA FlatUnique ==
  ASSUME NEW s, NEW n \in Nat, NEW o, NEW u, IsFlat(o, s, n), IsFlat(u, s, n)
  PROVE  o = u
  <1>1. PICK f, g : Flats(f, s, n) /\ o = f[n] /\ Flats(g, s, n) /\ u = g[n]
    BY DEF IsFlat
  <1> DEFINE T == {i \in 0 .. n : f[i] # g[i]}
  <1>2. T = {}
    <2> SUFFICES ASSUME T # {} PROVE FALSE
      OBVIOUS
    <2>0. T \subseteq Nat
      OBVIOUS
    <2>1. PICK i \in T : \A j \in T : i <= j
      BY <2>0, Smallest
    <2>2. i \in 0 .. n /\ f[i] # g[i]
      BY <2>1
    <2>3. i # 0
      BY <1>1, <2>2 DEF Flats
    <2>4. i - 1 \in 0 .. n /\ ~(i <= i - 1) /\ i \in 1 .. n
      BY <2>2, <2>3
    <2>5. f[i - 1] = g[i - 1]
      BY <2>1, <2>4
    <2> QED BY <1>1, <2>2, <2>4, <2>5 DEF Flats
  <1>3. n \in 0 .. n
    OBVIOUS
  <1>4. f[n] = g[n]
    BY <1>2, <1>3
  <1> QED BY <1>1, <1>4

(* What is joined up to q, and from there, is joined.                       *)
LEMMA FlatJoin ==
  ASSUME NEW s, NEW t, NEW q \in Nat, NEW m \in Nat, NEW a, NEW b, IsFlat(a, s, q), IsFlat(b, t, m),
         AllSeqs(s, q), AllSeqs(t, m), \A i \in 1 .. m : t[i] = s[q + i]
  PROVE  IsFlat(a \o b, s, q + m)
  <1> DEFINE P(j) == \E o : IsFlat(o, t, j) /\ IsFlat(a \o o, s, q + j)
             T == {j \in 0 .. m : ~P(j)}
  <1>1. T = {}
    <2> SUFFICES ASSUME T # {} PROVE FALSE
      OBVIOUS
    <2>0. T \subseteq Nat
      OBVIOUS
    <2>1. PICK j \in T : \A i \in T : j <= i
      BY <2>0, Smallest
    <2>2. j \in 0 .. m /\ ~P(j)
      BY <2>1
    <2>3. CASE j = 0
      <3>1. SomeSeq(a)
        BY FlatIsSeq
      <3>2. a \o <<>> = a /\ q + 0 = q
        BY <3>1, NothingBefore
      <3>3. IsFlat(<<>>, t, 0)
        BY FlatStart
      <3>4. IsFlat(a \o <<>>, s, q + 0)
        BY <3>2
      <3> QED BY <2>2, <2>3, <3>3, <3>4
    <2>4. CASE j # 0
      <3>1. PICK i \in Nat : j = i + 1
        <4>1. j - 1 \in Nat /\ j = (j - 1) + 1
          BY <2>2, <2>4
        <4> QED BY <4>1
      <3>2. i \in 0 .. m /\ ~(j <= i)
        BY <2>2, <3>1
      <3>3. P(i)
        BY <2>1, <3>2
      <3>4. PICK o : IsFlat(o, t, i) /\ IsFlat(a \o o, s, q + i)
        BY <3>3
      <3>5. PICK c : c = t[i + 1]
        OBVIOUS
      <3>6. i + 1 \in 1 .. m
        BY <2>2, <3>1
      <3>7. c = s[q + (i + 1)]
        BY <3>5, <3>6
      <3>8. q + (i + 1) = (q + i) + 1 /\ q + i \in Nat
        BY <3>1
      <3>9. IsFlat(o \o c, t, i + 1)
        BY <3>1, <3>4, <3>5, FlatStep
      <3>10. PICK z, ao : z = q + i /\ ao = a \o o /\ z \in Nat
        BY <3>8
      <3>11. IsFlat(ao, s, z) /\ c = s[z + 1]
        BY <3>4, <3>7, <3>8, <3>10
      <3>12. IsFlat(ao \o c, s, z + 1)
        BY <3>10, <3>11, FlatStep
      <3>13. SomeSeq(a) /\ SomeSeq(o) /\ SomeSeq(c)
        <4>1. AllSeqs(t, i)
          BY <3>2 DEF AllSeqs
        <4>2. SomeSeq(o)
          BY <3>1, <3>4, <4>1, FlatIsSeq
        <4>3. SomeSeq(a)
          BY FlatIsSeq
        <4>4. SomeSeq(c)
          BY <3>5, <3>6 DEF AllSeqs
        <4> QED BY <4>2, <4>3, <4>4
      <3>14. ao \o c = a \o (o \o c)
        <4>1. (a \o o) \o c = a \o (o \o c)
          <5> HIDE DEF P, T
          <5> QED BY <3>13, Regrouped
        <4> QED BY <3>10, <4>1
      <3>15. IsFlat(a \o (o \o c), s, q + j)
        BY <3>1, <3>8, <3>10, <3>12, <3>14
      <3> QED BY <2>2, <3>1, <3>9, <3>15
    <2> QED BY <2>3, <2>4
  <1>2. m \in 0 .. m
    OBVIOUS
  <1>3. P(m)
    BY <1>1, <1>2
  <1>4. PICK o : IsFlat(o, t, m) /\ IsFlat(a \o o, s, q + m)
    BY <1>3
  <1>5. o = b
    BY <1>4, FlatUnique
  <1> QED BY <1>4, <1>5

-----------------------------------------------------------------------------
(* The lines of a text: line i goes on for m characters.                     *)
EndsAt(text, n, i, m) ==
  /\ i - 1 + m <= n
  /\ \A j \in i .. i - 1 + m : text[j] # Newline
  /\ i - 1 + m = n \/ text[i + m] = Newline

(* A line is the part of the text up to its newline, or to the end.         *)
LEMMA LineIs ==
  ASSUME NEW text, NEW n \in Nat, IsSeq(text, n), NEW i \in 1 .. n
  PROVE  \E m \in Nat : EndsAt(text, n, i, m) /\ IsPart(LineAt(text, i), text, i - 1, m)
  <1>1. Len(text) = n
    BY SeqIs
  <1>2. PICK S : S = {j \in Newlines(text) : j >= i}
    OBVIOUS
  <1>3. S = {j \in 1 .. n : text[j] = Newline /\ j >= i}
    BY <1>1, <1>2 DEF Newlines
  <1>4. PICK last : last = IF S = {} THEN n ELSE Least(S) - 1
    OBVIOUS
  <1>5. /\ last \in i - 1 .. n /\ (\A j \in i .. last : text[j] # Newline)
        /\ last = n \/ text[last + 1] = Newline
    <2>1. CASE S = {}
      BY <1>3, <1>4, <2>1
    <2>2. CASE S # {}
      <3>1. PICK k : k = Least(S)
        OBVIOUS
      <3>2. S \subseteq Nat
        BY <1>3
      <3>3. k \in S /\ \A j \in S : k <= j
        BY <2>2, <3>1, <3>2, LeastIs
      <3>4. k \in 1 .. n /\ text[k] = Newline /\ k >= i /\ last = k - 1
        BY <1>3, <1>4, <2>2, <3>1, <3>3
      <3>5. ASSUME NEW j \in i .. last PROVE text[j] # Newline
        <4>1. j \in 1 .. n /\ j >= i /\ ~(k <= j)
          BY <3>4
        <4> QED BY <1>3, <3>3, <4>1
      <3>6. last \in i - 1 .. n /\ last + 1 = k
        BY <3>4
      <3> QED BY <3>4, <3>5, <3>6
    <2> QED BY <2>1, <2>2
  <1>6. PICK m \in Nat : m = last - (i - 1)
    BY <1>5
  <1>7. i - 1 + m = last /\ i + m = last + 1
    BY <1>5, <1>6
  <1>8. EndsAt(text, n, i, m)
    BY <1>5, <1>7 DEF EndsAt
  <1>9. PICK a \in Nat : a = i - 1
    OBVIOUS
  <1>10. IsPart(SubSeq(text, a + 1, a + m), text, a, m)
    BY <1>5, <1>6, <1>7, <1>9, PartIs
  <1>11. LineAt(text, i) = SubSeq(text, i, last)
    BY <1>1, <1>2, <1>4 DEF LineAt
  <1>12. a + 1 = i /\ a + m = last
    BY <1>7, <1>9
  <1> QED BY <1>8, <1>9, <1>10, <1>11, <1>12

(* A line has one end.                                                      *)
LEMMA EndUnique ==
  ASSUME NEW text, NEW n \in Nat, NEW i \in 1 .. n, NEW m \in Nat, NEW k \in Nat,
         EndsAt(text, n, i, m), EndsAt(text, n, i, k)
  PROVE  m = k
  <1>1. ASSUME NEW x \in Nat, NEW y \in Nat, EndsAt(text, n, i, x), EndsAt(text, n, i, y), x < y PROVE FALSE
    <2>1. i - 1 + y <= n /\ (\A j \in i .. i - 1 + y : text[j] # Newline)
      BY <1>1 DEF EndsAt
    <2>2. text[i + x] = Newline
      BY <1>1, <2>1 DEF EndsAt
    <2>3. i + x \in i .. i - 1 + y
      BY <1>1
    <2> QED BY <2>1, <2>2, <2>3
  <1>2. ~(m < k)
    BY <1>1
  <1>3. ~(k < m)
    BY <1>1
  <1> QED BY <1>2, <1>3

-----------------------------------------------------------------------------
(* What the loop of do_one_file() prints at each position of a text.         *)
Piece(search, name, text, i) ==
  IF i \in LineStarts(text) /\ Occurs(search, LineAt(text, i))
  THEN name \o <<Colon>> \o LineAt(text, i) \o <<Newline>> ELSE <<>>
Pieces(search, name, text, n) == [i \in 1 .. n |-> Piece(search, name, text, i)]

(* What a line adds to grep's output is a sequence.                         *)
LEMMA PieceSeq ==
  ASSUME NEW search, NEW name, SomeSeq(name), NEW text, NEW n \in Nat, IsSeq(text, n), NEW i \in 1 .. n
  PROVE  SomeSeq(Piece(search, name, text, i))
  <1>1. PICK line : line = LineAt(text, i)
    OBVIOUS
  <1>2. SomeSeq(line)
    <2>1. PICK m \in Nat : IsPart(LineAt(text, i), text, i - 1, m)
      BY LineIs
    <2> QED BY <1>1, <2>1 DEF IsPart, SomeSeq
  <1>3. PICK c, d : c = <<Colon>> /\ d = <<Newline>>
    OBVIOUS
  <1>4. SomeSeq(c) /\ SomeSeq(d)
    BY <1>3, Single
  <1>5. SomeSeq(name \o c)
    BY <1>4, BothSeqs
  <1>6. SomeSeq(name \o c \o line)
    BY <1>2, <1>5, BothSeqs
  <1>7. SomeSeq(name \o c \o line \o d)
    BY <1>4, <1>6, BothSeqs
  <1> QED BY <1>1, <1>3, <1>7, Empty DEF Piece

(* What each position of a text adds.                                       *)
LEMMA PiecesAre ==
  ASSUME NEW search, NEW name, SomeSeq(name), NEW text, NEW n \in Nat, IsSeq(text, n),
         NEW s, s = Pieces(search, name, text, n)
  PROVE  /\ IsSeq(s, n) /\ AllSeqs(s, n)
         /\ \A i \in 1 .. n : s[i] = Piece(search, name, text, i)
  <1>1. IsSeq(s, n) /\ \A i \in 1 .. n : s[i] = Piece(search, name, text, i)
    BY DEF Pieces, IsSeq
  <1>2. \A i \in 1 .. n : SomeSeq(Piece(search, name, text, i))
    BY PieceSeq
  <1> QED BY <1>1, <1>2 DEF AllSeqs

(* The same from the end: what is printed from position i on.                *)
Tails(h, s, n) == h[n + 1] = <<>> /\ \A i \in 1 .. n : h[i] = s[i] \o h[i + 1]

(* Joined from the back or from the front, it is the same.                  *)
LEMMA TailsFlat ==
  ASSUME NEW s, NEW n \in Nat, AllSeqs(s, n), NEW h, Tails(h, s, n), \A i \in 1 .. n + 1 : SomeSeq(h[i])
  PROVE  IsFlat(h[1], s, n)
  <1>1. PICK o : IsFlat(o, s, n)
    BY FlatExists
  <1>2. PICK f : Flats(f, s, n) /\ o = f[n]
    BY <1>1 DEF IsFlat
  <1>3. \A i \in 0 .. n : SomeSeq(f[i])
    BY <1>2, FlatSeqs
  <1> DEFINE Whole(i) == f[i] \o h[i + 1] = h[1]
             T == {i \in 0 .. n : ~Whole(i)}
  <1>4. T = {}
    <2> SUFFICES ASSUME T # {} PROVE FALSE
      OBVIOUS
    <2>0. T \subseteq Nat
      <3> HIDE DEF Whole
      <3> QED OBVIOUS
    <2>1. PICK i \in T : \A j \in T : i <= j
      BY <2>0, Smallest
    <2>2. i \in 0 .. n /\ f[i] \o h[i + 1] # h[1]
      BY <2>1
    <2>3. CASE i = 0
      <3>1. PICK t : t = h[1]
        OBVIOUS
      <3>2. SomeSeq(t) /\ f[0] = <<>>
        BY <1>2, <3>1 DEF Flats
      <3>3. <<>> \o t = t
        BY <3>2, NothingBefore
      <3> QED BY <2>2, <2>3, <3>1, <3>2, <3>3
    <2>4. CASE i # 0
      <3>1. PICK j \in Nat : i = j + 1
        <4>1. i - 1 \in Nat /\ i = (i - 1) + 1
          BY <2>2, <2>4
        <4> QED BY <4>1
      <3>2. j \in 0 .. n /\ ~(i <= j) /\ i \in 1 .. n /\ i - 1 = j /\ i + 1 \in 1 .. n + 1
        BY <2>2, <3>1
      <3>3. f[j] \o h[j + 1] = h[1]
        BY <2>1, <3>2
      <3>4. PICK a, b, c : a = f[j] /\ b = s[i] /\ c = h[i + 1]
        OBVIOUS
      <3>5. SomeSeq(a) /\ SomeSeq(b) /\ SomeSeq(c)
        BY <1>3, <3>2, <3>4 DEF AllSeqs
      <3>6. f[i] = a \o b
        BY <1>2, <3>2, <3>4 DEF Flats
      <3>7. h[j + 1] = b \o c
        BY <3>1, <3>2, <3>4 DEF Tails
      <3>8. (a \o b) \o c = a \o (b \o c)
        BY <3>5, Regrouped
      <3>9. f[i] \o h[i + 1] = h[1]
        BY <3>3, <3>4, <3>6, <3>7, <3>8
      <3> QED BY <2>2, <3>9
    <2> QED BY <2>3, <2>4
  <1>5. n \in 0 .. n
    OBVIOUS
  <1>6. f[n] \o h[n + 1] = h[1]
    BY <1>4, <1>5
  <1>7. PICK t : t = f[n]
    OBVIOUS
  <1>8. SomeSeq(t) /\ h[n + 1] = <<>>
    BY <1>3, <1>5, <1>7 DEF Tails
  <1>9. t \o <<>> = t
    BY <1>8, NothingBefore
  <1> QED BY <1>1, <1>2, <1>6, <1>7, <1>8, <1>9

(* What the positions from i on add exists, for every i.                    *)
LEMMA TailsExist ==
  ASSUME NEW s, NEW n \in Nat, AllSeqs(s, n)
  PROVE  \E h : Tails(h, s, n) /\ \A i \in 1 .. n + 1 : SomeSeq(h[i])
  <1> DEFINE P(k) == \E h : /\ h[n + 1] = <<>> /\ (\A i \in n + 1 - k .. n : h[i] = s[i] \o h[i + 1])
                            /\ \A i \in n + 1 - k .. n + 1 : SomeSeq(h[i])
             T == {k \in 0 .. n : ~P(k)}
  <1>1. T = {}
    <2> SUFFICES ASSUME T # {} PROVE FALSE
      OBVIOUS
    <2>0. T \subseteq Nat
      <3> HIDE DEF P
      <3> QED OBVIOUS
    <2>1. PICK k \in T : \A j \in T : k <= j
      BY <2>0, Smallest
    <2>2. k \in 0 .. n /\ ~P(k)
      BY <2>1
    <2>3. CASE k = 0
      <3>1. PICK h : h = [i \in 1 .. n + 1 |-> <<>>]
        OBVIOUS
      <3>2. h[n + 1] = <<>> /\ n + 1 - k .. n = {} /\ \A i \in n + 1 - k .. n + 1 : i = n + 1
        BY <2>3, <3>1
      <3>3. \A i \in n + 1 - k .. n + 1 : SomeSeq(h[i])
        BY <3>2, Empty
      <3>4. P(k)
        BY <3>2, <3>3
      <3> QED BY <2>2, <3>4
    <2>4. CASE k # 0
      <3>1. PICK j \in Nat : k = j + 1
        <4>1. k - 1 \in Nat /\ k = (k - 1) + 1
          BY <2>2, <2>4
        <4> QED BY <4>1
      <3>2. j \in 0 .. n /\ ~(k <= j)
        BY <2>2, <3>1
      <3>3. P(j)
        BY <2>1, <3>2
      <3>4. PICK h : /\ h[n + 1] = <<>> /\ (\A i \in n + 1 - j .. n : h[i] = s[i] \o h[i + 1])
                     /\ \A i \in n + 1 - j .. n + 1 : SomeSeq(h[i])
        BY <3>3
      <3>5. PICK a \in 1 .. n : a = n - j
        BY <2>2, <3>1
      <3>6. PICK t, u, x : t = s[a] /\ u = h[a + 1] /\ x = t \o u
        OBVIOUS
      <3>7. n + 1 - j = a + 1 /\ n + 1 - k = a
        BY <3>1, <3>5
      <3>8. SomeSeq(t) /\ SomeSeq(u)
        BY <3>4, <3>5, <3>6, <3>7 DEF AllSeqs
      <3>9. SomeSeq(x)
        BY <3>6, <3>8, BothSeqs
      <3>10. PICK g : g = [i \in 1 .. n + 1 |-> IF i = a THEN x ELSE h[i]]
        OBVIOUS
      <3>11. g[a] = x /\ \A i \in a + 1 .. n + 1 : g[i] = h[i]
        BY <3>5, <3>10
      <3>12. g[n + 1] = <<>>
        BY <3>4, <3>5, <3>11
      <3>13. ASSUME NEW i \in a .. n PROVE g[i] = s[i] \o g[i + 1]
        <4>1. CASE i = a
          <5>1. g[a + 1] = u
            BY <3>5, <3>6, <3>11
          <5> QED BY <3>6, <3>11, <4>1, <5>1
        <4>2. CASE i # a
          <5>1. i \in a + 1 .. n /\ i \in a + 1 .. n + 1 /\ i + 1 \in a + 1 .. n + 1
            BY <3>5, <4>2
          <5>2. h[i] = s[i] \o h[i + 1]
            BY <3>4, <3>7, <5>1
          <5>3. g[i] = h[i] /\ g[i + 1] = h[i + 1]
            BY <3>11, <5>1
          <5> QED BY <5>2, <5>3
        <4> QED BY <4>1, <4>2
      <3>14. ASSUME NEW i \in a .. n + 1 PROVE SomeSeq(g[i])
        <4>1. CASE i = a
          BY <3>9, <3>11, <4>1
        <4>2. CASE i # a
          <5>1. i \in a + 1 .. n + 1
            BY <3>5, <4>2
          <5> QED BY <3>4, <3>7, <3>11, <5>1
        <4> QED BY <4>1, <4>2
      <3>15. P(k)
        BY <3>7, <3>12, <3>13, <3>14
      <3> QED BY <2>2, <3>15
    <2> QED BY <2>3, <2>4
  <1>2. n \in 0 .. n /\ n + 1 - n = 1
    OBVIOUS
  <1>3. P(n)
    BY <1>1, <1>2
  <1> QED BY <1>2, <1>3 DEF Tails

(* What grep prints of a text, position by position.                         *)
LEMMA MatchesAre ==
  ASSUME NEW search, NEW name, SomeSeq(name), NEW text, NEW n \in Nat, IsSeq(text, n)
  PROVE  IsFlat(Matches(search, name, text), Pieces(search, name, text, n), n)
  <1>0. Len(text) = n
    BY SeqIs
  <1>1. PICK s : s = Pieces(search, name, text, n)
    OBVIOUS
  <1>2. AllSeqs(s, n) /\ \A i \in 1 .. n : s[i] = Piece(search, name, text, i)
    BY <1>1, PiecesAre
  <1>3. PICK h : Tails(h, s, n) /\ \A i \in 1 .. n + 1 : SomeSeq(h[i])
    BY <1>2, TailsExist
  <1> DEFINE Hit(i) == i \in LineStarts(text) /\ Occurs(search, LineAt(text, i))
             Shown(i) == name \o <<Colon>> \o LineAt(text, i) \o <<Newline>>
             Line(f, i) == IF i > n THEN <<>> ELSE IF Hit(i) THEN Shown(i) \o f[i + 1] ELSE f[i + 1]
  <1>4. PICK g : g = [i \in 1 .. n + 1 |-> h[i]]
    OBVIOUS
  <1>5. ASSUME NEW i \in 1 .. n + 1 PROVE g[i] = Line(g, i)
    <2>1. CASE i = n + 1
      <3>1. g[i] = <<>> /\ i > n
        BY <1>3, <1>4, <2>1 DEF Tails
      <3> QED BY <3>1
    <2>2. CASE i # n + 1
      <3>1. i \in 1 .. n /\ i + 1 \in 1 .. n + 1 /\ ~(i > n)
        BY <2>2
      <3>2. PICK t, u : t = s[i] /\ u = h[i + 1]
        OBVIOUS
      <3>3. g[i] = t \o u /\ g[i + 1] = u /\ SomeSeq(u)
        BY <1>3, <1>4, <3>1, <3>2 DEF Tails
      <3>4. t = IF Hit(i) THEN Shown(i) ELSE <<>>
        BY <1>2, <3>1, <3>2 DEF Piece
      <3>5. <<>> \o u = u
        BY <3>3, NothingBefore
      <3> HIDE DEF Hit, Shown
      <3>6. CASE Hit(i)
        BY <3>1, <3>3, <3>4, <3>6
      <3>7. CASE ~Hit(i)
        BY <3>1, <3>3, <3>4, <3>5, <3>7
      <3> QED BY <3>6, <3>7
    <2> QED BY <2>1, <2>2
  <1>6. PICK x : x = CHOOSE f : f = [i \in 1 .. n + 1 |-> Line(f, i)]
    OBVIOUS
  <1>7. Matches(search, name, text) = x[1]
    BY <1>0, <1>6 DEF Matches
  <1> HIDE DEF Hit, Shown
  <1>8. g = [i \in 1 .. n + 1 |-> Line(g, i)]
    BY <1>4, <1>5
  <1>9. x = [i \in 1 .. n + 1 |-> Line(x, i)]
    BY <1>6, <1>8
  <1> DEFINE T == {k \in 0 .. n : x[n + 1 - k] # g[n + 1 - k]}
  <1>10. T = {}
    <2> SUFFICES ASSUME T # {} PROVE FALSE
      OBVIOUS
    <2>0. T \subseteq Nat
      OBVIOUS
    <2>1. PICK k \in T : \A j \in T : k <= j
      BY <2>0, Smallest
    <2>2. k \in 0 .. n /\ x[n + 1 - k] # g[n + 1 - k]
      BY <2>1
    <2>3. PICK i \in 1 .. n + 1 : i = n + 1 - k
      BY <2>2
    <2>4. x[i] = Line(x, i) /\ g[i] = Line(g, i)
      BY <1>5, <1>9, <2>3
    <2>5. CASE k = 0
      BY <2>2, <2>3, <2>4, <2>5
    <2>6. CASE k # 0
      <3>1. k - 1 \in 0 .. n /\ ~(k <= k - 1) /\ n + 1 - (k - 1) = i + 1
        BY <2>2, <2>3, <2>6
      <3>2. x[i + 1] = g[i + 1]
        BY <2>1, <3>1
      <3>3. Line(x, i) = Line(g, i)
        BY <3>2
      <3> QED BY <2>2, <2>3, <2>4, <3>3
    <2> QED BY <2>5, <2>6
  <1>11. n \in 0 .. n /\ n + 1 - n = 1 /\ 1 \in 1 .. n + 1
    OBVIOUS
  <1>12. x[1] = g[1]
    BY <1>10, <1>11
  <1>13. g[1] = h[1]
    BY <1>4, <1>11
  <1>14. IsFlat(h[1], s, n)
    BY <1>2, <1>3, TailsFlat
  <1> QED BY <1>1, <1>7, <1>12, <1>13, <1>14

-----------------------------------------------------------------------------
(* Where a file may be cut, so that its parts have its lines: at the ends of  *)
(* lines, before or after the newline.                                     *)
Cut(file, size, q) == q = 0 \/ q = size \/ file[q] = Newline \/ file[q + 1] = Newline

(* A line of a part that ends at a cut is the line of the file.             *)
LEMMA SameLine ==
  ASSUME NEW file, NEW size \in Nat, IsSeq(file, size), NEW a \in Nat, NEW n \in Nat, a + n <= size,
         Cut(file, size, a + n), NEW text, IsPart(text, file, a, n), NEW i \in 1 .. n
  PROVE  LineAt(text, i) = LineAt(file, a + i)
  <1>1. IsSeq(text, n) /\ \A j \in 1 .. n : text[j] = file[a + j]
    BY DEF IsPart
  <1>2. PICK m \in Nat : EndsAt(text, n, i, m) /\ IsPart(LineAt(text, i), text, i - 1, m)
    BY <1>1, LineIs
  <1>3. PICK z \in 1 .. size : z = a + i
    OBVIOUS
  <1>4. PICK k \in Nat : EndsAt(file, size, z, k) /\ IsPart(LineAt(file, z), file, z - 1, k)
    BY LineIs
  <1>5. /\ i - 1 + m <= n /\ (\A j \in i .. i - 1 + m : text[j] # Newline)
        /\ i - 1 + m = n \/ text[i + m] = Newline
    BY <1>2 DEF EndsAt
  <1>6. ASSUME NEW j \in z .. z - 1 + m PROVE file[j] # Newline
    <2>1. j - a \in i .. i - 1 + m /\ j - a \in 1 .. n /\ a + (j - a) = j
      BY <1>3, <1>5
    <2> QED BY <1>1, <1>5, <2>1
  <1>7. z - 1 + m <= size
    BY <1>3, <1>5
  <1>8. z - 1 + m = size \/ file[z + m] = Newline
    <2>1. CASE i - 1 + m = n
      <3>1. PICK e \in Nat : e = a + n
        OBVIOUS
      <3>2. e = z - 1 + m /\ e + 1 = z + m /\ e # 0
        BY <1>3, <2>1, <3>1
      <3>3. e = size \/ file[e] = Newline \/ file[e + 1] = Newline
        BY <3>1, <3>2 DEF Cut
      <3>4. file[e] # Newline
        <4>1. m # 0
          BY <2>1
        <4>2. e \in z .. z - 1 + m
          BY <1>3, <3>2, <4>1
        <4> QED BY <1>6, <4>2
      <3> QED BY <3>2, <3>3, <3>4
    <2>2. CASE i - 1 + m # n
      <3>1. i + m \in 1 .. n /\ text[i + m] = Newline /\ a + (i + m) = z + m
        BY <1>3, <1>5, <2>2
      <3> QED BY <1>1, <3>1
    <2> QED BY <2>1, <2>2
  <1>9. EndsAt(file, size, z, m)
    BY <1>6, <1>7, <1>8 DEF EndsAt
  <1>10. m = k
    BY <1>4, <1>9, EndUnique
  <1>11. PICK x, y : x = LineAt(text, i) /\ y = LineAt(file, z)
    OBVIOUS
  <1>12. IsSeq(x, m) /\ IsSeq(y, m) /\ (\A j \in 1 .. m : x[j] = text[i - 1 + j] /\ y[j] = file[z - 1 + j])
    BY <1>2, <1>4, <1>10, <1>11 DEF IsPart
  <1>13. ASSUME NEW j \in 1 .. m PROVE x[j] = y[j]
    <2>1. i - 1 + j \in 1 .. n /\ a + (i - 1 + j) = z - 1 + j
      BY <1>3, <1>5
    <2>2. text[i - 1 + j] = file[z - 1 + j]
      BY <1>1, <2>1
    <2> QED BY <1>12, <2>2
  <1>14. x = y
    BY <1>12, <1>13, SameSeq
  <1> QED BY <1>3, <1>11, <1>14

(* A pattern does not occur in the empty line.                              *)
LEMMA NotInNothing ==
  ASSUME NEW search, IsString(search), search # <<>>, NEW line, IsSeq(line, 0)
  PROVE  ~Occurs(search, line)
  <1>1. PICK m \in Nat : m = Len(search) /\ IsSeq(search, m)
    BY StringIs
  <1>2. m # 0
    BY <1>1, NoItems
  <1>3. Len(line) = 0
    BY SeqIs
  <1>4. 1 .. Len(line) - Len(search) + 1 = {}
    BY <1>1, <1>2, <1>3
  <1> QED BY <1>4 DEF Occurs

(* Between cuts, a part adds what the file adds there.                      *)
LEMMA SamePiece ==
  ASSUME NEW file, NEW size \in Nat, IsSeq(file, size), NEW a \in Nat, NEW n \in Nat, a + n <= size,
         Cut(file, size, a), Cut(file, size, a + n), NEW text, IsPart(text, file, a, n), NEW i \in 1 .. n,
         NEW search, IsString(search), search # <<>>, NEW name
  PROVE  Piece(search, name, text, i) = Piece(search, name, file, a + i)
  <1>1. IsSeq(text, n) /\ Len(text) = n /\ \A j \in 1 .. n : text[j] = file[a + j]
    BY DEF IsPart
  <1>2. Len(file) = size
    BY SeqIs
  <1>3. PICK z \in 1 .. size : z = a + i
    OBVIOUS
  <1>4. LineAt(text, i) = LineAt(file, z)
    BY <1>3, SameLine
  <1>5. i \in LineStarts(text) <=> i = 1 \/ text[i - 1] = Newline
    BY <1>1 DEF LineStarts
  <1>6. z \in LineStarts(file) <=> z = 1 \/ file[z - 1] = Newline
    BY <1>2 DEF LineStarts
  <1>7. CASE i # 1 \/ a = 0 \/ file[a] = Newline
    <2>1. i # 1 => text[i - 1] = file[z - 1] /\ z # 1
      <3> SUFFICES ASSUME i # 1 PROVE text[i - 1] = file[z - 1] /\ z # 1
        OBVIOUS
      <3>1. i - 1 \in 1 .. n /\ a + (i - 1) = z - 1
        BY <1>3
      <3> QED BY <1>1, <1>3, <3>1
    <2>2. i = 1 => z = 1 \/ file[z - 1] = Newline
      BY <1>3, <1>7
    <2>3. i \in LineStarts(text) <=> z \in LineStarts(file)
      BY <1>5, <1>6, <2>1, <2>2
    <2> QED BY <1>3, <1>4, <2>3 DEF Piece
  <1>8. CASE ~(i # 1 \/ a = 0 \/ file[a] = Newline)
    <2>1. i = 1 /\ a # 0 /\ file[a] # Newline /\ z = a + 1
      BY <1>3, <1>8
    <2>2. z \notin LineStarts(file)
      BY <1>3, <1>6, <2>1
    <2>3. text[1] = Newline
      <3>1. a # size /\ 1 \in 1 .. n
        BY <2>1
      <3>2. file[a + 1] = Newline
        BY <2>1, <3>1 DEF Cut
      <3> QED BY <1>1, <3>1, <3>2
    <2>4. PICK m \in Nat : EndsAt(text, n, i, m) /\ IsPart(LineAt(text, i), text, i - 1, m)
      BY <1>1, LineIs
    <2>5. m = 0
      <3> SUFFICES ASSUME m # 0 PROVE FALSE
        OBVIOUS
      <3>1. 1 \in i .. i - 1 + m
        BY <2>1
      <3> QED BY <2>3, <2>4, <3>1 DEF EndsAt
    <2>6. IsSeq(LineAt(text, i), 0)
      BY <2>4, <2>5 DEF IsPart
    <2>7. ~Occurs(search, LineAt(text, i))
      BY <2>6, NotInNothing
    <2> QED BY <1>3, <2>2, <2>7 DEF Piece
  <1> QED BY <1>7, <1>8

(* The matches in the next part of a file.                                   *)
LEMMA MoreMatches ==
  ASSUME NEW file, NEW size \in Nat, IsSeq(file, size), NEW a \in Nat, NEW n \in Nat, a + n <= size,
         Cut(file, size, a), Cut(file, size, a + n), NEW text, IsPart(text, file, a, n),
         NEW search, IsString(search), search # <<>>, NEW name, SomeSeq(name),
         NEW x, IsFlat(x, Pieces(search, name, file, size), a)
  PROVE  IsFlat(x \o Matches(search, name, text), Pieces(search, name, file, size), a + n)
  <1>1. PICK s, t, y : /\ s = Pieces(search, name, file, size) /\ t = Pieces(search, name, text, n)
                       /\ y = Matches(search, name, text)
    OBVIOUS
  <1>2. IsSeq(text, n)
    BY DEF IsPart
  <1>3. AllSeqs(s, size) /\ \A i \in 1 .. size : s[i] = Piece(search, name, file, i)
    BY <1>1, PiecesAre
  <1>4. AllSeqs(t, n) /\ \A i \in 1 .. n : t[i] = Piece(search, name, text, i)
    BY <1>1, <1>2, PiecesAre
  <1>5. IsFlat(y, t, n)
    BY <1>1, <1>2, MatchesAre
  <1>6. ASSUME NEW i \in 1 .. n PROVE t[i] = s[a + i]
    <2>1. Piece(search, name, text, i) = Piece(search, name, file, a + i)
      BY SamePiece
    <2>2. a + i \in 1 .. size
      OBVIOUS
    <2> QED BY <1>3, <1>4, <2>1, <2>2
  <1>7. AllSeqs(s, a)
    BY <1>3 DEF AllSeqs
  <1>8. IsFlat(x, s, a)
    BY <1>1
  <1>9. IsFlat(x \o y, s, a + n)
    BY <1>4, <1>5, <1>6, <1>7, <1>8, FlatJoin
  <1> QED BY <1>1, <1>9

-----------------------------------------------------------------------------
(* The loop of do_one_file() keeps its place: what it has printed is that of  *)
(* the file up to a cut, and what it keeps is the rest up to the position. *)
IsShort(file) == \A k \in LineStarts(file) : Len(LineAt(file, k)) <= BUFSIZE

(* A line that fills the buffer, of a file with short lines, ends there.      *)
LEMMA FullBuffer ==
  ASSUME NEW file, NEW size \in Nat, IsSeq(file, size), IsShort(file), NEW a \in Nat, NEW n \in Nat,
         a + n <= size, n # 0, n = BUFSIZE, Cut(file, size, a),
         \A j \in 1 .. n : file[a + j] # Newline
  PROVE  Cut(file, size, a + n)
  <1>1. PICK z \in 1 .. size : z = a + 1
    OBVIOUS
  <1>2. Len(file) = size
    BY SeqIs
  <1>3. z \in LineStarts(file)
    <2>1. a # size /\ 1 \in 1 .. n
      OBVIOUS
    <2>2. file[a + 1] # Newline
      BY <2>1
    <2>3. a = 0 \/ file[a] = Newline
      BY <2>1, <2>2 DEF Cut
    <2>4. z = 1 \/ file[z - 1] = Newline
      BY <1>1, <2>3
    <2> QED BY <1>1, <1>2, <2>4 DEF LineStarts
  <1>4. PICK m \in Nat : EndsAt(file, size, z, m) /\ IsPart(LineAt(file, z), file, z - 1, m)
    BY LineIs
  <1>5. m <= n
    BY <1>3, <1>4 DEF IsPart, IsShort
  <1>6. a + m = size \/ file[a + m + 1] = Newline
    <2>1. z - 1 + m = size \/ file[z + m] = Newline
      BY <1>4 DEF EndsAt
    <2>2. z - 1 + m = a + m /\ z + m = a + m + 1
      BY <1>1
    <2> QED BY <2>1, <2>2
  <1>7. m = n
    <2> SUFFICES ASSUME m # n PROVE FALSE
      OBVIOUS
    <2>1. m < n
      BY <1>5
    <2>2. m + 1 \in 1 .. n /\ a + m # size /\ a + (m + 1) = a + m + 1
      BY <2>1
    <2>3. file[a + (m + 1)] # Newline
      BY <2>2
    <2> QED BY <1>6, <2>2, <2>3
  <1> QED BY <1>6, <1>7 DEF Cut

(* The last item of a sequence.                                             *)
LEMMA LastIs == ASSUME NEW s, NEW n \in Nat, IsSeq(s, n) PROVE Last(s) = s[n]
  BY SeqIs DEF Last

(* A text of n bytes, the last cnt of which a read gave: up to the end of the  *)
(* buffer or of the file; and how it is divided.                           *)
Filled(size, a, n, cnt) ==
  a + n <= size /\ n <= BUFSIZE /\ (cnt = 0 => a + n = size) /\ (n = BUFSIZE \/ a + n = size)
Divides(file, size, a, n, cnt, text, rest, m, k) ==
  /\ m \in Nat /\ k \in Nat /\ m + k = n /\ IsPart(rest, text, m, k) /\ Cut(file, size, a + m)
  /\ (k = 0 \/ k < n) /\ (cnt = 0 => k = 0)

(* What grep keeps of the buffer begins at a cut, and leaves room in it.    *)
LEMMA CutAgain ==
  ASSUME NEW file, NEW size \in Nat, IsSeq(file, size), IsShort(file), NEW a \in Nat, NEW n \in Nat,
         NEW cnt \in Nat, Filled(size, a, n, cnt), Cut(file, size, a), NEW text, IsPart(text, file, a, n),
         NEW rest, rest = Leftover(text, cnt)
  PROVE  \E m, k : Divides(file, size, a, n, cnt, text, rest, m, k)
  <1>0. a + n <= size /\ n <= BUFSIZE /\ (cnt = 0 => a + n = size) /\ (n = BUFSIZE \/ a + n = size)
    BY DEF Filled
  <1>1. IsSeq(text, n) /\ \A j \in 1 .. n : text[j] = file[a + j]
    BY DEF IsPart
  <1>2. PICK k \in 0 .. n :
          /\ IsPart(rest, text, n - k, k)
          /\ k = 0 \/ (cnt # 0 /\ n # 0 /\ Last(text) # Newline /\ LastStart(text) = n - k + 1 /\ k < n)
          /\ k = 0 => cnt = 0 \/ n = 0 \/ Last(text) = Newline \/ LastStart(text) = 1
    BY <1>1, LeftoverIs
  <1>3. PICK m \in Nat : m = n - k
    BY <1>2
  <1>4. Len(text) = n /\ Last(text) = text[n]
    BY <1>1, SeqIs, LastIs
  <1>5. Cut(file, size, a + m)
    <2>1. CASE k # 0
      <3>1. LastStart(text) = m + 1 /\ m # 0 /\ n \in Nat \ {0}
        BY <1>2, <1>3, <2>1
      <3>2. m + 1 \in LineStarts(text)
        BY <1>1, <3>1, LastStartIs
      <3>3. text[m] = Newline
        BY <3>1, <3>2 DEF LineStarts
      <3>4. m \in 1 .. n
        BY <1>3, <3>1
      <3>5. file[a + m] = Newline
        BY <1>1, <3>3, <3>4
      <3> QED BY <3>5 DEF Cut
    <2>2. CASE k = 0
      <3>1. m = n
        BY <1>3, <2>2
      <3>2. CASE cnt = 0 \/ a + n = size
        BY <1>0, <3>1, <3>2 DEF Cut
      <3>3. CASE n = 0
        <4>1. a + m = a
          BY <3>1, <3>3
        <4> QED BY <4>1
      <3>4. CASE n # 0 /\ text[n] = Newline
        <4>1. file[a + m] = Newline
          BY <1>1, <3>1, <3>4
        <4> QED BY <4>1 DEF Cut
      <3>5. CASE n # 0 /\ text[n] # Newline /\ a + n # size /\ cnt # 0
        <4>1. LastStart(text) = 1 /\ n \in Nat \ {0} /\ n = BUFSIZE
          BY <1>0, <1>2, <1>4, <2>2, <3>5
        <4>2. \A i \in LineStarts(text) : i <= 1
          BY <1>1, <4>1, LastStartIs
        <4>3. ASSUME NEW j \in 1 .. n PROVE text[j] # Newline
          <5>1. CASE j = n
            BY <3>5, <5>1
          <5>2. CASE j # n
            <6>1. j + 1 \in 1 .. n /\ (j + 1) - 1 = j /\ ~(j + 1 <= 1)
              BY <5>2
            <6> QED BY <1>4, <4>2, <6>1 DEF LineStarts
          <5> QED BY <5>1, <5>2
        <4>4. \A j \in 1 .. n : file[a + j] # Newline
          BY <1>1, <4>3
        <4>5. Cut(file, size, a + n)
          BY <1>0, <4>1, <4>4, FullBuffer
        <4> QED BY <3>1, <4>5
      <3> QED BY <3>2, <3>3, <3>4, <3>5
    <2> QED BY <2>1, <2>2
  <1>6. m + k = n /\ (k = 0 \/ k < n) /\ (cnt = 0 => k = 0) /\ k \in Nat /\ IsPart(rest, text, m, k)
    BY <1>2, <1>3
  <1> QED BY <1>3, <1>5, <1>6 DEF Divides

(* A part of a part.                                                        *)
LEMMA PartOfPart ==
  ASSUME NEW s, NEW a \in Nat, NEW n \in Nat, NEW t, IsPart(t, s, a, n),
         NEW b \in Nat, NEW m \in Nat, b + m <= n, NEW u, IsPart(u, t, b, m)
  PROVE  IsPart(u, s, a + b, m)
  <1>1. IsSeq(u, m) /\ Len(u) = m /\ (\A i \in 1 .. m : u[i] = t[b + i]) /\ \A i \in 1 .. n : t[i] = s[a + i]
    BY DEF IsPart
  <1>2. ASSUME NEW i \in 1 .. m PROVE u[i] = s[a + b + i]
    <2>1. b + i \in 1 .. n /\ a + (b + i) = a + b + i
      OBVIOUS
    <2>2. u[i] = t[b + i] /\ t[b + i] = s[a + (b + i)]
      BY <1>1, <2>1
    <2> QED BY <2>1, <2>2
  <1> QED BY <1>1, <1>2 DEF IsPart

ShortFiles(image) == \A i \in 0 .. BootBlock(image).num_inodes - 1 :
  LET text == FileBytes(image, i)
  IN  \A k \in LineStarts(text) : Len(LineAt(text, k)) <= BUFSIZE

ScannedAt(file, size, search, name, data, pos, x, a, n) ==
  /\ a + n = pos /\ pos <= size /\ n < BUFSIZE
  /\ IsPart(data, file, a, n) /\ Cut(file, size, a)
  /\ IsFlat(x, Pieces(search, name, file, size), a)
Scanned(image, inode, search, name, data, pos, x) ==
  \E file, size, a, n :
    /\ file = FileBytes(image, inode) /\ size = InodeAt(image, inode).length
    /\ a \in Nat /\ n \in Nat /\ ScannedAt(file, size, search, name, data, pos, x, a, n)

(* A file by its bytes.                                                     *)
LEMMA FileIs ==
  ASSUME NEW image \in Disks, NEW inode \in Inodes(image), NEW file, file = FileBytes(image, inode),
         NEW size, size = InodeAt(image, inode).length
  PROVE  /\ size \in Nat /\ IsSeq(file, size)
         /\ \A i \in 1 .. size : file[i] = Byte(image, inode, i - 1)
         /\ ShortFiles(image) => IsShort(file)
  <1>1. size \in Nat
    BY SizeIs
  <1>2. IsSeq(file, size) /\ \A i \in 1 .. size : file[i] = Byte(image, inode, i - 1)
    BY <1>1 DEF FileBytes, Byte, IsSeq
  <1>3. ShortFiles(image) => IsShort(file)
    BY DEF ShortFiles, IsShort, Inodes
  <1> QED BY <1>1, <1>2, <1>3

(* A file just opened has been scanned up to its beginning.                 *)
LEMMA ScanStarts ==
  ASSUME NEW image \in Disks, NEW inode \in Inodes(image), NEW search, NEW name
  PROVE  Scanned(image, inode, search, name, <<>>, 0, <<>>)
  <1>1. PICK file, size : file = FileBytes(image, inode) /\ size = InodeAt(image, inode).length
    OBVIOUS
  <1>2. size \in Nat
    BY <1>1, FileIs
  <1>3. PICK s, data : s = Pieces(search, name, file, size) /\ data = <<>>
    OBVIOUS
  <1>4. IsFlat(data, s, 0)
    BY <1>3, FlatStart
  <1>5. IsPart(data, file, 0, 0)
    <2>1. IsSeq(data, 0) /\ Len(data) = 0 /\ 1 .. 0 = {}
      BY <1>3 DEF IsSeq
    <2> QED BY <2>1 DEF IsPart
  <1>6. BUFSIZE \in Nat \ {0}
    BY ProgramsAssumption, FileSystemAssumption
  <1>7. ScannedAt(file, size, search, name, data, 0, data, 0, 0)
    BY <1>2, <1>3, <1>4, <1>5, <1>6 DEF ScannedAt, Cut
  <1> QED BY <1>1, <1>3, <1>7 DEF Scanned

(* The bytes of the file that the next text holds.                           *)
LEMMA TextIs ==
  ASSUME NEW image \in Disks, NEW inode \in Inodes(image), NEW file, file = FileBytes(image, inode),
         NEW size \in Nat, size = InodeAt(image, inode).length, NEW a \in Nat, NEW n \in Nat, NEW cnt \in Nat,
         a + n + cnt <= size, NEW data, IsPart(data, file, a, n),
         NEW t, Reads(t, image, inode, a + n, cnt), NEW text, text = data \o t
  PROVE  IsPart(text, file, a, n + cnt)
  <1>1. IsSeq(data, n) /\ \A i \in 1 .. n : data[i] = file[a + i]
    BY DEF IsPart
  <1>2. IsSeq(t, cnt) /\ \A i \in 1 .. cnt : t[i] = Byte(image, inode, a + n + i - 1)
    BY DEF Reads
  <1>3. \A i \in 1 .. size : file[i] = Byte(image, inode, i - 1)
    BY FileIs
  <1>4. Joins(text, data, n, t, cnt)
    BY <1>1, <1>2, Joined
  <1>5. PICK N \in Nat : N = n + cnt
    OBVIOUS
  <1>6. IsSeq(text, N) /\ Len(text) = N
    BY <1>4, <1>5 DEF Joins
  <1>7. ASSUME NEW i \in 1 .. N PROVE text[i] = file[a + i]
    <2>1. CASE i \in 1 .. n
      BY <1>1, <1>4, <2>1 DEF Joins
    <2>2. CASE i \notin 1 .. n
      <3>1. PICK j \in 1 .. cnt : i = n + j
        <4>1. i - n \in 1 .. cnt /\ i = n + (i - n)
          BY <1>5, <2>2
        <4> QED BY <4>1
      <3>2. text[i] = t[j]
        BY <1>4, <3>1 DEF Joins
      <3>3. PICK z \in 1 .. size : z = a + i
        BY <1>5
      <3>4. z - 1 = a + n + j - 1
        BY <3>1, <3>3
      <3>5. t[j] = Byte(image, inode, z - 1)
        BY <1>2, <3>1, <3>4
      <3>6. file[z] = Byte(image, inode, z - 1)
        BY <1>3, <3>3
      <3> QED BY <3>2, <3>3, <3>5, <3>6
    <2> QED BY <2>1, <2>2
  <1>8. IsPart(text, file, a, N)
    BY <1>6, <1>7 DEF IsPart
  <1> QED BY <1>5, <1>8

ScanBegins(image, inode, search, name, data, pos, x, cnt, t, text, rest, lines, y) ==
  /\ image \in Disks /\ inode \in Inodes(image) /\ ShortFiles(image)
  /\ IsString(search) /\ search # <<>> /\ SomeSeq(name)
  /\ Scanned(image, inode, search, name, data, pos, x)
  /\ cnt \in Nat /\ cnt = Available(image, inode, pos, BUFSIZE - Len(data))
  /\ Reads(t, image, inode, pos, cnt) /\ text = data \o t
  /\ rest = Leftover(text, cnt)
  /\ lines = SubSeq(text, 1, Len(text) - Len(rest))
  /\ y = Matches(search, name, lines)
ScanEnds(image, inode, search, name, pos, x, cnt, rest, y) ==
  /\ cnt = 0 => x \o y = Matches(search, name, FileBytes(image, inode))
  /\ Len(rest) < BUFSIZE
  /\ Scanned(image, inode, search, name, rest, pos + cnt, x \o y)
  /\ SomeSeq(x) /\ SomeSeq(y)

(* One more buffer of a file scanned; at the end, all of its lines.         *)
LEMMA FileScanned ==
  ASSUME NEW image, NEW inode, NEW search, NEW name, NEW data, NEW pos, NEW x, NEW cnt, NEW t, NEW text,
         NEW rest, NEW lines, NEW y,
         ScanBegins(image, inode, search, name, data, pos, x, cnt, t, text, rest, lines, y)
  PROVE  ScanEnds(image, inode, search, name, pos, x, cnt, rest, y)
  <1>0. /\ image \in Disks /\ inode \in Inodes(image) /\ ShortFiles(image)
        /\ IsString(search) /\ search # <<>> /\ SomeSeq(name)
        /\ Scanned(image, inode, search, name, data, pos, x)
        /\ cnt \in Nat /\ cnt = Available(image, inode, pos, BUFSIZE - Len(data))
        /\ Reads(t, image, inode, pos, cnt) /\ text = data \o t
        /\ rest = Leftover(text, cnt)
        /\ lines = SubSeq(text, 1, Len(text) - Len(rest))
        /\ y = Matches(search, name, lines)
    BY DEF ScanBegins
  <1>00. cnt \in Nat /\ cnt = Available(image, inode, pos, BUFSIZE - Len(data))
    BY <1>0
  <1> USE <1>0
  <1>1. PICK file, size, a, n :
          /\ file = FileBytes(image, inode) /\ size = InodeAt(image, inode).length
          /\ a \in Nat /\ n \in Nat /\ ScannedAt(file, size, search, name, data, pos, x, a, n)
    BY DEF Scanned
  <1>2. /\ a + n = pos /\ pos <= size /\ n < BUFSIZE
        /\ IsPart(data, file, a, n) /\ Cut(file, size, a)
        /\ IsFlat(x, Pieces(search, name, file, size), a)
    BY <1>1 DEF ScannedAt
  <1>3. size \in Nat /\ IsSeq(file, size) /\ IsShort(file) /\ BUFSIZE \in Nat
    BY <1>1, FileIs, ProgramsAssumption
  <1>4. Len(data) = n
    BY <1>2 DEF IsPart
  <1>5. /\ cnt <= BUFSIZE - n /\ pos + cnt <= size
        /\ cnt = BUFSIZE - n \/ pos + cnt = size
    <2> HIDE <1>0
    <2> QED BY <1>00, <1>1, <1>2, <1>3, <1>4 DEF Available, Lesser
  <1>6. PICK N \in Nat : N = n + cnt
    BY <1>1
  <1>7. /\ a + N = pos + cnt /\ a + N <= size /\ N <= BUFSIZE /\ (N = BUFSIZE \/ a + N = size)
        /\ cnt = 0 => a + N = size
    BY <1>1, <1>2, <1>3, <1>5, <1>6
  <1>8. IsPart(text, file, a, N)
    <2>1. Reads(t, image, inode, a + n, cnt)
      BY <1>2
    <2>2. a + n + cnt <= size
      BY <1>2, <1>5
    <2>3. IsPart(text, file, a, n + cnt)
      BY <1>1, <1>2, <1>3, <2>1, <2>2, TextIs
    <2> QED BY <1>6, <2>3
  <1>9. PICK m \in Nat, k \in Nat :
           /\ m + k = N /\ IsPart(rest, text, m, k) /\ Cut(file, size, a + m)
           /\ (k = 0 \/ k < N) /\ (cnt = 0 => k = 0)
    <2>1. a \in Nat /\ N \in Nat /\ size \in Nat /\ IsSeq(file, size) /\ IsShort(file) /\ Cut(file, size, a)
      BY <1>1, <1>2, <1>3, <1>6
    <2>2. Filled(size, a, N, cnt)
      BY <1>7 DEF Filled
    <2>3. PICK m, k : Divides(file, size, a, N, cnt, text, rest, m, k)
      BY <1>8, <2>1, <2>2, CutAgain
    <2> QED BY <2>3 DEF Divides
  <1>10. IsSeq(text, N) /\ Len(text) = N /\ Len(rest) = k
    BY <1>8, <1>9 DEF IsPart
  <1>11. IsPart(lines, text, 0, m)
    <2>1. PICK z \in Nat : z = 0
      OBVIOUS
    <2>2. IsPart(SubSeq(text, z + 1, z + m), text, z, m)
      BY <1>9, <1>10, <2>1, PartIs
    <2>3. z + 1 = 1 /\ z + m = N - k
      BY <1>9, <2>1
    <2> QED BY <1>10, <2>1, <2>2, <2>3
  <1>12. IsPart(lines, file, a, m)
    <2>1. PICK z \in Nat : z = 0
      OBVIOUS
    <2>2. IsPart(lines, file, a + z, m)
      <3>1. a \in Nat /\ N \in Nat /\ m \in Nat /\ z \in Nat /\ z + m <= N /\ IsPart(lines, text, z, m)
        BY <1>1, <1>6, <1>9, <1>11, <2>1
      <3> QED BY <1>8, <3>1, PartOfPart
    <2> QED BY <1>1, <2>1, <2>2
  <1>13. PICK s, xy : s = Pieces(search, name, file, size) /\ xy = x \o y
    OBVIOUS
  <1>14. IsFlat(xy, s, a + m)
    <2>0. a \in Nat /\ m \in Nat /\ N \in Nat /\ size \in Nat /\ k \in Nat
      BY <1>1, <1>3, <1>6, <1>9
    <2>1. a \in Nat /\ m \in Nat /\ a + m <= size
      BY <2>0, <1>7, <1>9
    <2>2. IsFlat(x \o Matches(search, name, lines), Pieces(search, name, file, size), a + m)
      BY <1>2, <1>3, <1>9, <1>12, <2>1, MoreMatches
    <2> QED BY <1>13, <2>2
  <1>15. ASSUME cnt = 0 PROVE xy = Matches(search, name, file)
    <2>0. a \in Nat /\ m \in Nat /\ k = 0 /\ m + k = N /\ a + N = size
      BY <1>1, <1>7, <1>9, <1>15
    <2>1. a + m = size
      BY <2>0
    <2>2. PICK u : u = Matches(search, name, file)
      OBVIOUS
    <2>3. IsFlat(u, s, size)
      BY <1>3, <1>13, <2>2, MatchesAre
    <2>4. IsFlat(xy, s, size)
      BY <1>14, <2>1
    <2> QED BY <1>3, <2>2, <2>3, <2>4, FlatUnique
  <1>16. k < BUFSIZE
    BY <1>2, <1>3, <1>1, <1>7, <1>9
  <1>17. IsPart(rest, file, a + m, k)
    <2>1. m + k <= N
      BY <1>9
    <2> QED BY <1>1, <1>6, <1>8, <1>9, <2>1, PartOfPart
  <1>18. PICK b \in Nat : b = a + m
    BY <1>1, <1>9
  <1>19. ScannedAt(file, size, search, name, rest, pos + cnt, xy, b, k)
    <2>1. b + k = pos + cnt
      <3>1. a \in Nat /\ m \in Nat /\ k \in Nat /\ N \in Nat /\ m + k = N /\ a + N = pos + cnt
        BY <1>1, <1>6, <1>7, <1>9
      <3>2. b + k = a + N
        BY <1>18, <3>1
      <3> QED BY <3>1, <3>2
    <2>2. IsPart(rest, file, b, k) /\ Cut(file, size, b) /\ IsFlat(xy, s, b)
      BY <1>9, <1>14, <1>17, <1>18
    <2> QED BY <1>5, <1>13, <1>16, <2>1, <2>2 DEF ScannedAt
  <1>20. Scanned(image, inode, search, name, rest, pos + cnt, xy)
    BY <1>1, <1>9, <1>18, <1>19 DEF Scanned
  <1>21. SomeSeq(x)
    <2>1. AllSeqs(s, size)
      BY <1>3, <1>13, PiecesAre
    <2>2. AllSeqs(s, a) /\ IsFlat(x, s, a) /\ a \in Nat
      BY <1>1, <1>2, <1>3, <1>13, <2>1 DEF AllSeqs
    <2> QED BY <2>2, FlatIsSeq
  <1>22. SomeSeq(y)
    <2>1. PICK w : w = Pieces(search, name, lines, m)
      OBVIOUS
    <2>2. IsSeq(lines, m)
      BY <1>11 DEF IsPart
    <2>3. IsFlat(y, w, m) /\ AllSeqs(w, m)
      BY <1>9, <2>1, <2>2, MatchesAre, PiecesAre
    <2> QED BY <1>9, <2>3, FlatIsSeq
  <1> QED BY <1>1, <1>10, <1>13, <1>15, <1>16, <1>20, <1>21, <1>22 DEF ScanEnds

-----------------------------------------------------------------------------
(* A name read from the directory is the name of the entry, and opens it.     *)
LEMMA WholePart ==
  ASSUME NEW s, NEW n \in Nat, IsSeq(s, n)
  PROVE  SubSeq(s, 1, n) = s
  <1>1. PICK z, u : z \in Nat /\ z = 0 /\ u = SubSeq(s, 1, n)
    OBVIOUS
  <1>2. u = SubSeq(s, z + 1, z + n) /\ z + n <= n
    BY <1>1
  <1>3. IsPart(u, s, z, n)
    BY <1>1, <1>2, PartIs
  <1>4. IsSeq(u, n) /\ \A i \in 1 .. n : u[i] = s[i]
    BY <1>1, <1>3 DEF IsPart
  <1> QED BY <1>1, <1>4, SameSeq

(* A name read with its padding is the name.                                *)
LEMMA CStringIs ==
  ASSUME NEW s, IsString(s), NEW w \in Nat, Len(s) <= w,
         NEW t, IsSeq(t, w), \A i \in 1 .. w : t[i] = CharAt(s, i)
  PROVE  CString(t) = s
  <1>1. PICK n \in Nat : n = Len(s) /\ IsSeq(s, n) /\ \A i \in 1 .. n : s[i] # NUL
    BY StringIs
  <1>2. Len(t) = w /\ n <= w
    BY <1>1, SeqIs
  <1>3. \A i \in 1 .. w : t[i] = IF i <= n THEN s[i] ELSE NUL
    BY <1>1 DEF CharAt
  <1>4. PICK S : S = {i \in 1 .. Len(t) : t[i] = NUL}
    OBVIOUS
  <1>5. S = n + 1 .. w
    BY <1>1, <1>2, <1>3, <1>4
  <1>6. CASE n = w
    <2>1. S = {}
      BY <1>5, <1>6
    <2>2. CString(t) = t
      BY <1>4, <2>1 DEF CString
    <2>3. IsSeq(s, w) /\ \A i \in 1 .. w : t[i] = s[i]
      BY <1>1, <1>3, <1>6
    <2> QED BY <2>2, <2>3, SameSeq
  <1>7. CASE n # w
    <2>1. n + 1 \in S /\ S \subseteq Nat /\ \A i \in S : n + 1 <= i
      BY <1>2, <1>5, <1>7
    <2>2. PICK l : l = Least(S)
      OBVIOUS
    <2>3. l \in S /\ \A i \in S : l <= i
      BY <2>1, <2>2, LeastIs
    <2>4. l - 1 = n
      BY <1>5, <2>1, <2>3
    <2>5. CString(t) = SubSeq(t, 1, n)
      BY <1>4, <2>1, <2>2, <2>4 DEF CString
    <2>6. PICK z, u : z \in Nat /\ z = 0 /\ u = SubSeq(t, 1, n)
      OBVIOUS
    <2>7. u = SubSeq(t, z + 1, z + n) /\ z + n <= w
      BY <1>2, <2>6
    <2>8. IsPart(u, t, z, n)
      BY <2>6, <2>7, PartIs
    <2>9. IsSeq(u, n) /\ \A i \in 1 .. n : u[i] = t[i]
      BY <2>6, <2>8 DEF IsPart
    <2>10. \A i \in 1 .. n : u[i] = s[i]
      BY <1>2, <1>3, <2>9
    <2>11. u = s
      BY <1>1, <2>9, <2>10, SameSeq
    <2> QED BY <2>5, <2>6, <2>11
  <1> QED BY <1>6, <1>7

IsEntry(image, k, e) == k \in 1 .. Len(Entries(image)) /\ e = Entries(image)[k]

(* What a well-formed disk says of an entry, by its number.                 *)
LEMMA EntryIs ==
  ASSUME NEW image \in Disks, NEW k, NEW e, IsEntry(image, k, e)
  PROVE  /\ k \in Nat /\ k <= Len(Entries(image)) /\ e \in Listed(image) /\ e.inode_id \in Inodes(image)
         /\ e.file_type \in {RTC_TYPE, DIR_TYPE, FILE_TYPE}
         /\ IsString(e.file_name) /\ Len(e.file_name) \in 1 .. FILE_NAME_SIZE
         /\ e.file_type = DIR_TYPE <=> e.file_name = <<Dot>>
  <1>1. Len(Entries(image)) \in Nat
    BY ShellAssumption DEF WellFormed
  <1>2. e \in Listed(image)
    BY DEF IsEntry, Listed
  <1>3. e.file_type = DIR_TYPE <=> e.file_name = <<Dot>>
    BY ProgramsAssumption DEF IsEntry
  <1>4. k \in Nat /\ k <= Len(Entries(image))
    BY <1>1 DEF IsEntry
  <1>5. /\ e.inode_id \in Inodes(image) /\ e.file_type \in {RTC_TYPE, DIR_TYPE, FILE_TYPE}
        /\ IsString(e.file_name) /\ Len(e.file_name) \in 1 .. FILE_NAME_SIZE
    BY <1>2, ListedIs
  <1> QED BY <1>2, <1>3, <1>4, <1>5

(* The name in grep's buffer is that of the entry.                          *)
LEMMA NameRead ==
  ASSUME NEW image \in Disks, NEW index \in Nat, NEW k, k = index + 1, NEW e, IsEntry(image, k, e),
         NEW t, t = PaddedName(image, index)
  PROVE  CString(t) = e.file_name
  <1>1. e = EntryAt(image, index)
    BY DEF IsEntry, EntryAt
  <1>2. IsSeq(t, FILE_NAME_SIZE) /\ \A j \in 1 .. FILE_NAME_SIZE : t[j] = CharAt(EntryAt(image, index).file_name, j)
    BY NameIs
  <1>3. PICK s, w : s = e.file_name /\ w = FILE_NAME_SIZE
    OBVIOUS
  <1>4. IsString(s) /\ Len(s) <= w /\ w \in Nat
    BY <1>3, EntryIs, FileSystemAssumption
  <1>5. IsSeq(t, w) /\ \A j \in 1 .. w : t[j] = CharAt(s, j)
    BY <1>1, <1>2, <1>3
  <1>6. CString(t) = s
    BY <1>4, <1>5, CStringIs
  <1> QED BY <1>3, <1>6

(* Opened by that name, it is the entry: names are not repeated.            *)
LEMMA OpensEntry ==
  ASSUME NEW image \in Disks, NEW k, NEW e, IsEntry(image, k, e), NEW name, name = e.file_name,
         Found(image, name), NEW d, d = DentryByName(image, name)
  PROVE  d = e
  <1>1. d \in Listed(image) /\ SameUpTo(d.file_name, name, FILE_NAME_SIZE)
    BY FoundIs
  <1>2. PICK s : s = d.file_name
    OBVIOUS
  <1>3. IsString(s) /\ Len(s) <= FILE_NAME_SIZE /\ SameUpTo(s, name, FILE_NAME_SIZE)
    BY <1>1, <1>2, ListedIs, FileSystemAssumption
  <1>4. IsString(name) /\ Len(name) \in 1 .. FILE_NAME_SIZE
    BY EntryIs
  <1>5. s = SubSeq(name, 1, Lesser(Len(name), FILE_NAME_SIZE))
    BY <1>3, <1>4, SameName
  <1>6. PICK n \in Nat : n = Len(name) /\ IsSeq(name, n)
    BY <1>4, StringIs
  <1>7. Lesser(Len(name), FILE_NAME_SIZE) = n
    BY <1>4, <1>6, FileSystemAssumption DEF Lesser
  <1>8. s = name
    BY <1>5, <1>6, <1>7, WholePart
  <1>9. PICK j : IsEntry(image, j, d)
    BY <1>1 DEF Listed, IsEntry
  <1>10. j = k
    <2>1. Entries(image)[j].file_name = Entries(image)[k].file_name
      BY <1>2, <1>8, <1>9 DEF IsEntry
    <2>2. j \in 1 .. Len(Entries(image)) /\ k \in 1 .. Len(Entries(image))
      BY <1>9 DEF IsEntry
    <2>3. WellFormed(image)
      BY ShellAssumption
    <2> QED BY <2>1, <2>2, <2>3 DEF WellFormed
  <1> QED BY <1>9, <1>10 DEF IsEntry

-----------------------------------------------------------------------------
(* grep: what it has written is that of the files before the one it is in,    *)
(* and of that one up to a cut.                                            *)
Easy(image) == ~Full(image) /\ ShortFiles(image)
InFile(image, search, e) ==
  IF e.file_type = FILE_TYPE /\ e.file_name[1] # Dot
  THEN Matches(search, e.file_name, FileBytes(image, e.inode_id)) ELSE <<>>
InFiles(image, search) == [i \in 1 .. Len(Entries(image)) |-> InFile(image, search, Entries(image)[i])]
GrepWrote(image, search, o) == o = FlattenSeq(InFiles(image, search))

Seeking(image, search, fds, v, o) ==
  \E dir : /\ v = [search |-> search, dir |-> dir] /\ search # <<>>
           /\ IsDirectory(image, fds, dir)
           /\ fds[dir].pos <= Len(Entries(image)) /\ IsFlat(o, InFiles(image, search), fds[dir].pos)

ScanOf(image, search, e, data, pos, x) ==
  /\ e.file_type = FILE_TYPE => Scanned(image, e.inode_id, search, e.file_name, data, pos, x)
  /\ e.file_type = RTC_TYPE  => data = <<>> /\ x = <<>>
IsScanning(image, search, fds, v, o, dir, fd, e, data, c, x) ==
  /\ v = [search |-> search, dir |-> dir, name |-> e.file_name, fd |-> fd, data |-> data]
  /\ search # <<>> /\ IsDirectory(image, fds, dir) /\ fd \in Fds \ {0, 1} /\ fd # dir
  /\ IsEntry(image, fds[dir].pos, e) /\ e.file_name[1] # Dot /\ Holds(image, fds[fd], e)
  /\ o = c \o x /\ IsFlat(c, InFiles(image, search), fds[dir].pos - 1)
  /\ ScanOf(image, search, e, data, fds[fd].pos, x)
Scanning(image, search, fds, v, o) ==
  \E dir, fd, e, data, c, x : IsScanning(image, search, fds, v, o, dir, fd, e, data, c, x)

GrepPart(image, p, o) ==
  p.program = "grep" /\ Easy(image) =>
    /\ p.pc = "main" => o = <<>>
    /\ p.pc = "list" => Seeking(image, p.argument, p.fds, p.v, o)
    /\ p.pc = "scan" => Scanning(image, p.argument, p.fds, p.v, o)
    /\ p.pc = "return" /\ p.v.status = 0 => GrepWrote(image, p.argument, o)

(* What each entry adds to grep's output.                                   *)
LEMMA InFilesAre ==
  ASSUME NEW image \in Disks, NEW search, NEW s, s = InFiles(image, search)
  PROVE  /\ Len(Entries(image)) \in Nat /\ IsSeq(s, Len(Entries(image))) /\ AllSeqs(s, Len(Entries(image)))
         /\ \A k, e : IsEntry(image, k, e) => s[k] = InFile(image, search, e)
  <1>1. PICK n \in Nat : n = Len(Entries(image))
    BY ShellAssumption DEF WellFormed
  <1>2. IsSeq(s, n) /\ \A k \in 1 .. n : s[k] = InFile(image, search, Entries(image)[k])
    BY <1>1 DEF InFiles, IsSeq
  <1>3. ASSUME NEW k, NEW e, IsEntry(image, k, e) PROVE s[k] = InFile(image, search, e)
    BY <1>1, <1>2, <1>3 DEF IsEntry
  <1>4. ASSUME NEW k \in 1 .. n PROVE SomeSeq(s[k])
    <2>1. PICK e : e = Entries(image)[k]
      OBVIOUS
    <2>2. IsEntry(image, k, e)
      BY <1>1, <2>1 DEF IsEntry
    <2>3. e.inode_id \in Inodes(image) /\ IsString(e.file_name)
      BY <2>2, EntryIs
    <2>4. PICK name, file, size : /\ name = e.file_name /\ file = FileBytes(image, e.inode_id)
                                  /\ size = InodeAt(image, e.inode_id).length
      OBVIOUS
    <2>5. SomeSeq(name)
      BY <2>3, <2>4, StringIs DEF SomeSeq
    <2>6. size \in Nat /\ IsSeq(file, size)
      BY <2>3, <2>4, FileIs
    <2>7. PICK t, y : t = Pieces(search, name, file, size) /\ y = Matches(search, name, file)
      OBVIOUS
    <2>8. IsFlat(y, t, size) /\ AllSeqs(t, size)
      BY <2>5, <2>6, <2>7, MatchesAre, PiecesAre
    <2>9. SomeSeq(y)
      BY <2>6, <2>8, FlatIsSeq
    <2>10. s[k] = InFile(image, search, e)
      BY <1>3, <2>2
    <2> QED BY <2>4, <2>7, <2>9, <2>10, Empty DEF InFile
  <1> QED BY <1>1, <1>2, <1>3, <1>4 DEF AllSeqs

(* grep opens the directory.                                                *)
LEMMA GrepOpens ==
  ASSUME Base, GrepPart(disk, Top, out), GrepOpen
  PROVE  GrepPart(disk', Top', out')
  <1>0. disk \in Disks /\ IsString(Top.argument) /\ Len(Top.argument) <= BUFSIZE
    BY TopIs DEF Base, IsProc
  <1>1. PICK r, search : r = Directory /\ search = Getargs(Top.fds, Top.argument, BUFSIZE)
    OBVIOUS
  <1>2. disk' = disk /\ message' \in Words /\ out' = out /\ Top.program = "grep" /\ Top.pc = "main"
    BY QuietIs DEF GrepOpen, Quiet, At
  <1>3. PICK v : v = [search |-> search.data, dir |-> r.ret]
    OBVIOUS
  <1>4. \/ Return(Top, 3)
        \/ Return(Top, 2)
        \/ search.ret = 0 /\ r.ret # Fail /\ Go("list", r.fds, v)
    BY <1>1, <1>3 DEF GrepOpen
  <1>5. PICK p : p = Top'
    OBVIOUS
  <1>6. ASSUME NEW status \in {2, 3}, Return(Top, status) PROVE GrepPart(disk', p, out')
    <2>1. p.pc = "return" /\ p.v.status = status
      BY <1>2, <1>5, <1>6, Returned
    <2> QED BY <2>1, <1>6 DEF GrepPart
  <1>7. ASSUME search.ret = 0, r.ret # Fail, Go("list", r.fds, v), Easy(disk) PROVE GrepPart(disk', p, out')
    <2>1. r.fds \in Tables(disk) /\ IsDirectory(disk, r.fds, r.ret) /\ r.fds[r.ret].pos = 0
      BY <1>1, <1>7, OpensDirectory
    <2>2. p.pc = "list" /\ p.fds = r.fds /\ p.v = v /\ p.argument = Top.argument
      BY <1>2, <1>5, <1>7, <2>1, Went
    <2>3. search.data = Top.argument /\ Top.argument # <<>>
      BY <1>0, <1>1, <1>7, GetargsIs
    <2>4. out = <<>>
      BY <1>2, <1>7 DEF GrepPart
    <2>5. IsFlat(out, InFiles(disk, p.argument), 0) /\ 0 <= Len(Entries(disk))
      BY <1>0, <2>4, FlatStart, InFilesAre
    <2>6. Seeking(disk, p.argument, p.fds, p.v, out)
      BY <1>3, <2>1, <2>2, <2>3, <2>5 DEF Seeking
    <2> QED BY <1>2, <2>2, <2>6 DEF GrepPart
  <1>8. ~Easy(disk) => GrepPart(disk', p, out')
    BY <1>2 DEF GrepPart
  <1> QED BY <1>4, <1>5, <1>6, <1>7, <1>8

(* One more entry of the directory is done.                                 *)
LEMMA SeekingKept ==
  ASSUME NEW image \in Disks, NEW search, search # <<>>, NEW fds, NEW dir, IsDirectory(image, fds, dir),
         NEW v, v = [search |-> search, dir |-> dir], NEW k, NEW e, IsEntry(image, k, e), fds[dir].pos = k,
         NEW c, NEW y, IsFlat(c, InFiles(image, search), k - 1), y = InFile(image, search, e)
  PROVE  Seeking(image, search, fds, v, c \o y)
  <1>1. PICK s, n : s = InFiles(image, search) /\ n = Len(Entries(image))
    OBVIOUS
  <1>2. n \in Nat /\ s[k] = y /\ k \in 1 .. n
    BY <1>1, InFilesAre DEF IsEntry
  <1>3. PICK j \in Nat : j = k - 1
    BY <1>2
  <1>4. IsFlat(c \o s[j + 1], s, j + 1)
    BY <1>1, <1>3, FlatStep
  <1>5. j + 1 = k /\ k <= n
    BY <1>2, <1>3
  <1>6. IsFlat(c \o y, s, k)
    BY <1>2, <1>4, <1>5
  <1> QED BY <1>1, <1>5, <1>6 DEF Seeking

(* grep takes the next name, opens it or leaves it out, and returns 0 past  *)
(* the last one only.                                                       *)
LEMMA GrepNames ==
  ASSUME Base, GrepPart(disk, Top, out), GrepName
  PROVE  GrepPart(disk', Top', out')
  <1>0. disk \in Disks /\ Top.fds \in Tables(disk) /\ FILE_NAME_SIZE \in Nat \ {0}
    BY TopIs, FileSystemAssumption DEF Base, IsProc
  <1>1. PICK fds, v, search : fds = Top.fds /\ v = Top.v /\ search = Top.argument
    OBVIOUS
  <1>2. disk' = disk /\ message' \in Words /\ out' = out /\ Top.program = "grep" /\ Top.pc = "list"
    BY QuietIs DEF GrepName, Quiet, At
  <1>3. PICK p : p = Top'
    OBVIOUS
  <1>4. ~Easy(disk) => GrepPart(disk', p, out')
    BY <1>2 DEF GrepPart
  <1>5. ASSUME Easy(disk) PROVE GrepPart(disk', p, out')
    <2>1. PICK dir : /\ v = [search |-> search, dir |-> dir] /\ search # <<>>
                     /\ IsDirectory(disk, fds, dir)
                     /\ fds[dir].pos <= Len(Entries(disk)) /\ IsFlat(out, InFiles(disk, search), fds[dir].pos)
      BY <1>1, <1>2, <1>5 DEF GrepPart, Seeking
    <2>2. PICK d : dir \in Fds \ {0, 1} /\ d.file_type = DIR_TYPE /\ Holds(disk, fds[dir], d)
      BY <2>1 DEF IsDirectory
    <2>3. PICK x, k : x = fds[dir] /\ k = x.pos
      OBVIOUS
    <2>4. k \in Nat /\ dir \in Fds
      BY <1>0, <1>1, <2>2, <2>3 DEF Tables, Descriptor
    <2>5. PICK r : r = Read(disk, fds, dir, FILE_NAME_SIZE)
      OBVIOUS
    <2>6. PICK name : name = CString(Buffer(r))
      OBVIOUS
    <2>7. PICK file : file = Open(disk, r.fds, name)
      OBVIOUS
    <2>8. PICK w : w = [search |-> v.search, dir |-> v.dir, name |-> name, fd |-> file.ret, data |-> <<>>]
      OBVIOUS
    <2>9. v.dir = dir
      BY <2>1
    <2>10. IF AtEnd(r) THEN Return(Top, EndStatus(r))
           ELSE IF name[1] = Dot THEN Go("list", r.fds, v)
           ELSE IF file.ret = Fail THEN Return(Top, 3)
           ELSE Go("scan", file.fds, w)
      BY <1>1, <2>5, <2>6, <2>7, <2>8, <2>9 DEF GrepName
    <2>11. PICK n \in Nat : n = Len(Entries(disk)) /\ n < MaxEntries
      <3>1. Len(Entries(disk)) \in 1 .. MaxEntries /\ Len(Entries(disk)) # MaxEntries
        BY <1>0, <1>5, ShellAssumption DEF WellFormed, Easy, Full
      <3> QED BY <3>1, FileSystemAssumption
    <2>12. /\ Holds(disk, r.fds[dir], d) /\ Elsewhere(fds, r.fds, dir)
           /\ IF IsIndex(disk, k)
              THEN /\ r.ret = IF k + 1 < MaxEntries THEN FILE_NAME_SIZE ELSE 0
                   /\ r.data = PaddedName(disk, k) /\ r.fds[dir].pos = k + 1
              ELSE r.ret = 0
      BY <1>0, <1>1, <2>2, <2>3, <2>4, <2>5, ReadsDir
    <2>13. r.fds \in Tables(disk)
      BY <1>0, <1>1, <2>5, ReadTyped
    <2>14. CASE AtEnd(r)
      <3>1. p.pc = "return" /\ p.argument = search
        BY <1>1, <1>2, <1>3, <2>10, <2>14, Returned
      <3>2. r.ret \in {0, Fail}
        BY <2>14 DEF AtEnd
      <3>3. ~(k <= n - 1)
        BY <1>0, <2>4, <2>11, <2>12, <3>2, FileSystemAssumption DEF IsIndex, Fail
      <3>4. k = n
        BY <2>1, <2>3, <2>4, <2>11, <3>3
      <3>5. PICK s : s = InFiles(disk, search)
        OBVIOUS
      <3>6. IsSeq(s, n) /\ AllSeqs(s, n) /\ IsFlat(out, s, n)
        BY <1>0, <2>1, <2>3, <2>11, <3>4, <3>5, InFilesAre
      <3>7. out = FlattenSeq(s)
        BY <2>11, <3>6, FlatEnd DEF AllSeqs
      <3>8. GrepWrote(disk, search, out)
        BY <3>5, <3>7 DEF GrepWrote
      <3> QED BY <1>2, <3>1, <3>8 DEF GrepPart
    <2>15. CASE ~AtEnd(r)
      <3>1. IsIndex(disk, k) /\ r.ret = FILE_NAME_SIZE /\ r.data = PaddedName(disk, k) /\ r.fds[dir].pos = k + 1
        BY <2>12, <2>15 DEF AtEnd
      <3>2. PICK j, e : j = k + 1 /\ e = Entries(disk)[j]
        OBVIOUS
      <3>3. IsEntry(disk, j, e)
        <4>1. k <= n - 1
          BY <2>11, <3>1 DEF IsIndex
        <4>2. j \in 1 .. n
          BY <2>4, <2>11, <3>2, <4>1
        <4> QED BY <2>11, <3>2, <4>2 DEF IsEntry
      <3>4. name = e.file_name
        <4>1. PICK t : t = PaddedName(disk, k)
          OBVIOUS
        <4>2. IsSeq(t, FILE_NAME_SIZE) /\ r.data = t
          BY <3>1, <4>1, NameIs
        <4>3. Buffer(r) = t
          BY <1>0, <3>1, <4>2, BufferHas
        <4>4. CString(t) = e.file_name
          BY <1>0, <2>4, <3>2, <3>3, <4>1, NameRead
        <4> QED BY <2>6, <4>3, <4>4
      <3>5. IsDirectory(disk, r.fds, dir)
        BY <2>2, <2>12 DEF IsDirectory
      <3>6. IsFlat(out, InFiles(disk, search), j - 1)
        <4>1. j - 1 = k
          BY <2>4, <3>2
        <4> QED BY <2>1, <2>3, <4>1
      <3>7. SomeSeq(out)
        <4>1. AllSeqs(InFiles(disk, search), k)
          <5>1. AllSeqs(InFiles(disk, search), n) /\ k <= n
            BY <1>0, <2>1, <2>3, <2>11, InFilesAre
          <5> QED BY <5>1, <2>4, <2>11 DEF AllSeqs
        <4> QED BY <2>1, <2>3, <2>4, <4>1, FlatIsSeq
      <3>8. out \o <<>> = out
        BY <3>7, NothingBefore
      <3>9. CASE name[1] = Dot
        <4>1. p.pc = "list" /\ p.fds = r.fds /\ p.v = v /\ p.argument = search
          BY <1>1, <1>2, <1>3, <2>10, <2>13, <2>15, <3>9, Went
        <4>2. PICK y : y = InFile(disk, search, e)
          OBVIOUS
        <4>3. y = <<>>
          BY <3>4, <3>9, <4>2 DEF InFile
        <4>4. r.fds[dir].pos = j
          BY <3>1, <3>2
        <4>5. Seeking(disk, search, r.fds, v, out \o y)
          BY <1>0, <2>1, <3>3, <3>5, <3>6, <4>2, <4>4, SeekingKept
        <4>6. Seeking(disk, search, r.fds, v, out)
          BY <3>8, <4>3, <4>5
        <4> QED BY <1>2, <4>1, <4>6 DEF GrepPart
      <3>10. CASE name[1] # Dot /\ file.ret = Fail
        <4>1. Return(Top, 3)
          BY <2>10, <2>15, <3>10
        <4>2. p.pc = "return" /\ p.v.status = 3
          BY <1>2, <1>3, <4>1, Returned
        <4> QED BY <4>2 DEF GrepPart
      <3>11. CASE name[1] # Dot /\ file.ret # Fail
        <4>1. Go("scan", file.fds, w)
          BY <2>10, <2>15, <3>11
        <4>2. PICK rfds : rfds = r.fds
          OBVIOUS
        <4>3. file = Open(disk, rfds, name) /\ rfds \in Tables(disk)
          BY <2>7, <2>13, <4>2
        <4>4. file.fds \in Tables(disk)
          BY <1>0, <4>3, OpenTyped
        <4>5. p.pc = "scan" /\ p.fds = file.fds /\ p.v = w /\ p.argument = search
          BY <1>1, <1>2, <1>3, <4>1, <4>4, Went
        <4>6. PICK fd, de : Opens(disk, rfds, name, file, fd, de)
          BY <1>0, <3>11, <4>3, OpensIt
        <4>7. /\ fd \in Fds \ {0, 1} /\ fd = file.ret /\ rfds[fd].flag = FALSE
              /\ Found(disk, name) /\ de = DentryByName(disk, name)
              /\ Holds(disk, file.fds[fd], de) /\ file.fds[fd].pos = 0 /\ Elsewhere(rfds, file.fds, fd)
          BY <4>6 DEF Opens
        <4>8. de = e
          BY <1>0, <3>3, <3>4, <4>7, OpensEntry
        <4>9. fd # dir
          BY <2>12, <4>2, <4>7 DEF Holds
        <4>10. file.fds[dir] = rfds[dir]
          BY <2>4, <4>7, <4>9 DEF Elsewhere
        <4>11. IsDirectory(disk, file.fds, dir) /\ file.fds[dir].pos = j
          BY <3>1, <3>2, <3>5, <4>2, <4>10 DEF IsDirectory
        <4>12. w = [search |-> search, dir |-> dir, name |-> e.file_name, fd |-> fd, data |-> <<>>]
          BY <2>1, <2>8, <3>4, <4>7
        <4>13. ScanOf(disk, search, e, <<>>, file.fds[fd].pos, <<>>)
          <5>1. e.inode_id \in Inodes(disk)
            BY <1>0, <3>3, EntryIs
          <5>2. Scanned(disk, e.inode_id, search, e.file_name, <<>>, 0, <<>>)
            BY <1>0, <5>1, ScanStarts
          <5> QED BY <4>7, <5>2 DEF ScanOf
        <4>14. IsScanning(disk, search, file.fds, w, out, dir, fd, e, <<>>, out, <<>>)
          <5>1. out = out \o <<>>
            BY <3>8
          <5>2. IsEntry(disk, file.fds[dir].pos, e) /\ e.file_name[1] # Dot
            BY <3>3, <3>4, <3>11, <4>11
          <5>3. IsFlat(out, InFiles(disk, search), file.fds[dir].pos - 1)
            BY <3>6, <4>11
          <5>4. Holds(disk, file.fds[fd], e)
            BY <4>7, <4>8
          <5> QED BY <2>1, <4>7, <4>9, <4>11, <4>12, <4>13, <5>1, <5>2, <5>3, <5>4 DEF IsScanning
        <4>15. Scanning(disk, search, file.fds, w, out)
          BY <4>14 DEF Scanning
        <4> QED BY <1>2, <4>5, <4>15 DEF GrepPart
      <3> QED BY <3>9, <3>10, <3>11
    <2> QED BY <2>14, <2>15
  <1> QED BY <1>3, <1>4, <1>5

-----------------------------------------------------------------------------
(* What a read adds for an entry that is a file, and for the clock.            *)
Scans(image, fds, fd, search, e, data, r, rest, y) ==
  \E text, lines :
    /\ r = Read(image, fds, fd, BUFSIZE - Len(data))
    /\ text = data \o Buffer(r) /\ rest = Leftover(text, r.ret)
    /\ lines = SubSeq(text, 1, Len(text) - Len(rest))
    /\ y = Matches(search, e.file_name, lines)

ScanFrom(image, fds, search, k, e, fd, h, data, x, r, rest, y) ==
  /\ image \in Disks /\ ShortFiles(image) /\ fds \in Tables(image) /\ IsString(search) /\ search # <<>>
  /\ IsEntry(image, k, e) /\ e.file_name[1] # Dot
  /\ fd \in Fds /\ h = fds[fd] /\ Holds(image, h, e)
  /\ ScanOf(image, search, e, data, h.pos, x) /\ Scans(image, fds, fd, search, e, data, r, rest, y)
ScanTo(image, fds, search, e, fd, x, r, rest, y) ==
  /\ r.ret \in Nat /\ SomeSeq(x) /\ SomeSeq(y) /\ r.fds \in Tables(image)
  /\ Holds(image, r.fds[fd], e) /\ Elsewhere(fds, r.fds, fd)
  /\ r.ret = 0 => x \o y = InFile(image, search, e)
  /\ r.ret # 0 => ScanOf(image, search, e, rest, r.fds[fd].pos, x \o y)

(* What a read of a file adds.                                              *)
LEMMA FileScans ==
  ASSUME NEW image, NEW fds, NEW search, NEW k, NEW e, NEW fd, NEW h, NEW data, NEW x, NEW r, NEW rest, NEW y,
         ScanFrom(image, fds, search, k, e, fd, h, data, x, r, rest, y), e.file_type = FILE_TYPE
  PROVE  ScanTo(image, fds, search, e, fd, x, r, rest, y)
  <1>0. /\ image \in Disks /\ ShortFiles(image) /\ fds \in Tables(image) /\ IsString(search) /\ search # <<>>
        /\ IsEntry(image, k, e) /\ e.file_name[1] # Dot
        /\ fd \in Fds /\ h = fds[fd] /\ Holds(image, h, e)
        /\ ScanOf(image, search, e, data, h.pos, x) /\ Scans(image, fds, fd, search, e, data, r, rest, y)
    BY DEF ScanFrom
  <1> USE <1>0
  <1>1. PICK inode, name, pos : inode = e.inode_id /\ name = e.file_name /\ pos = h.pos
    OBVIOUS
  <1>2. inode \in Inodes(image) /\ SomeSeq(name)
    <2>1. e.inode_id \in Inodes(image) /\ IsString(name)
      BY <1>1, EntryIs
    <2> QED BY <1>1, <2>1, StringIs DEF SomeSeq
  <1>3. Scanned(image, inode, search, name, data, pos, x)
    BY <1>1 DEF ScanOf
  <1>4. PICK n \in Nat : n = BUFSIZE - Len(data)
    <2>1. PICK a, l, file, size : /\ l \in Nat /\ ScannedAt(file, size, search, name, data, pos, x, a, l)
      BY <1>3 DEF Scanned
    <2>2. IsSeq(data, l) /\ l < BUFSIZE
      BY <2>1 DEF ScannedAt, IsPart
    <2>3. Len(data) = l
      BY <2>1, <2>2, SeqIs
    <2> QED BY <2>1, <2>2, <2>3, ProgramsAssumption
  <1>5. r = Read(image, fds, fd, n)
    BY <1>4 DEF Scans
  <1>6. PICK cnt \in Nat : /\ cnt = Available(image, e.inode_id, h.pos, n) /\ r.ret = cnt
                           /\ Reads(Buffer(r), image, e.inode_id, h.pos, cnt)
                           /\ Holds(image, r.fds[fd], e) /\ r.fds[fd].pos = h.pos + cnt
                           /\ Elsewhere(fds, r.fds, fd)
    BY <1>5, ReadsFile
  <1>7. PICK t, text, lines :
          /\ t = Buffer(r) /\ text = data \o Buffer(r) /\ rest = Leftover(text, r.ret)
          /\ lines = SubSeq(text, 1, Len(text) - Len(rest)) /\ y = Matches(search, e.file_name, lines)
    BY DEF Scans
  <1>8. /\ cnt = Available(image, inode, pos, BUFSIZE - Len(data)) /\ Reads(t, image, inode, pos, cnt)
        /\ text = data \o t /\ rest = Leftover(text, cnt)
        /\ lines = SubSeq(text, 1, Len(text) - Len(rest)) /\ y = Matches(search, name, lines)
    BY <1>1, <1>4, <1>6, <1>7
  <1>9. /\ cnt = 0 => x \o y = Matches(search, name, FileBytes(image, inode))
        /\ Scanned(image, inode, search, name, rest, pos + cnt, x \o y) /\ SomeSeq(x) /\ SomeSeq(y)
    <2>1. ScanBegins(image, inode, search, name, data, pos, x, cnt, t, text, rest, lines, y)
      BY <1>2, <1>3, <1>8 DEF ScanBegins
    <2>2. ScanEnds(image, inode, search, name, pos, x, cnt, rest, y)
      BY <2>1, FileScanned
    <2> QED BY <2>2 DEF ScanEnds
  <1>10. InFile(image, search, e) = Matches(search, name, FileBytes(image, inode))
    BY <1>1 DEF InFile
  <1>11. ScanOf(image, search, e, rest, r.fds[fd].pos, x \o y)
    <2>1. e.file_type # RTC_TYPE
      BY DEF FILE_TYPE, RTC_TYPE
    <2>2. r.fds[fd].pos = pos + cnt
      BY <1>1, <1>6
    <2> QED BY <1>1, <1>9, <2>1, <2>2 DEF ScanOf
  <1>12. r.fds \in Tables(image)
    BY <1>5, ReadTyped
  <1> QED BY <1>6, <1>9, <1>10, <1>11, <1>12 DEF ScanTo

(* A read of the RTC ends at once, and adds nothing.                        *)
LEMMA ClockScans ==
  ASSUME NEW image, NEW fds, NEW search, NEW k, NEW e, NEW fd, NEW h, NEW data, NEW x, NEW r, NEW rest, NEW y,
         ScanFrom(image, fds, search, k, e, fd, h, data, x, r, rest, y), e.file_type = RTC_TYPE
  PROVE  ScanTo(image, fds, search, e, fd, x, r, rest, y)
  <1>0. /\ image \in Disks /\ ShortFiles(image) /\ fds \in Tables(image) /\ IsString(search) /\ search # <<>>
        /\ IsEntry(image, k, e) /\ e.file_name[1] # Dot
        /\ fd \in Fds /\ h = fds[fd] /\ Holds(image, h, e)
        /\ ScanOf(image, search, e, data, h.pos, x) /\ Scans(image, fds, fd, search, e, data, r, rest, y)
    BY DEF ScanFrom
  <1> USE <1>0
  <1>1. data = <<>> /\ x = <<>>
    BY DEF ScanOf
  <1>2. PICK z \in Nat : z = 0
    OBVIOUS
  <1>3. IsSeq(data, z) /\ Len(data) = z
    BY <1>1, <1>2 DEF IsSeq
  <1>4. PICK n \in Nat : n = BUFSIZE - Len(data)
    BY <1>2, <1>3, ProgramsAssumption
  <1>14. r = Read(image, fds, fd, n)
    BY <1>4 DEF Scans
  <1>15. PICK text, lines :
          /\ text = data \o Buffer(r) /\ rest = Leftover(text, r.ret)
          /\ lines = SubSeq(text, 1, Len(text) - Len(rest)) /\ y = Matches(search, e.file_name, lines)
    BY DEF Scans
  <1>5. r.ret = z /\ r.fds = fds
    BY <1>2, <1>14, ReadsRtc
  <1>6. IsSeq(Buffer(r), z)
    BY <1>5, BufferIs
  <1>7. IsSeq(text, z)
    <2>1. PICK t : t = Buffer(r)
      OBVIOUS
    <2>2. Joins(data \o t, data, z, t, z)
      BY <1>3, <1>6, <2>1, Joined
    <2> QED BY <1>2, <1>15, <2>1, <2>2 DEF Joins
  <1>8. rest = <<>>
    BY <1>2, <1>5, <1>15 DEF Leftover
  <1>9. lines = <<>>
    <2>1. Len(text) = 0 /\ Len(rest) = 0
      BY <1>2, <1>7, <1>8, SeqIs
    <2> QED BY <1>2, <1>7, <1>15, <2>1, SeqIs
  <1>10. PICK name : name = e.file_name
    OBVIOUS
  <1>11. SomeSeq(name)
    <2>1. IsString(name)
      BY <1>10, EntryIs
    <2> QED BY <2>1, StringIs DEF SomeSeq
  <1>12. y = <<>>
    <2>1. IsSeq(lines, z)
      BY <1>2, <1>9 DEF IsSeq
    <2>2. PICK s : s = Pieces(search, name, lines, z)
      OBVIOUS
    <2>3. IsFlat(y, s, z)
      BY <1>10, <1>11, <1>15, <2>1, <2>2, MatchesAre
    <2>4. IsFlat(<<>>, s, z)
      BY <1>2, FlatStart
    <2> QED BY <2>3, <2>4, FlatUnique
  <1>13. InFile(image, search, e) = <<>>
    BY DEF InFile, FILE_TYPE, RTC_TYPE
  <1>16. SomeSeq(<<>>) /\ <<>> \o <<>> = <<>> /\ Elsewhere(fds, fds, fd)
    BY Empty, NothingBefore DEF Elsewhere
  <1> QED BY <1>1, <1>2, <1>5, <1>12, <1>13, <1>16 DEF ScanTo

(* The file is closed at its end.                                              *)
LEMMA ClosesIt ==
  ASSUME NEW image, NEW fds \in Tables(image), NEW fd \in Fds \ {0, 1}, NEW e, NEW h, h = fds[fd],
         Holds(image, h, e), NEW t, t = Close(fds, fd).fds
  PROVE  t \in Tables(image) /\ t = [fds EXCEPT ![fd] = Closed]
  <1>1. h.flag = TRUE
    BY DEF Holds
  <1>2. fds[fd].flag
    BY <1>1
  <1>3. PICK r : r = Close(fds, fd)
    OBVIOUS
  <1>4. r.fds \in Tables(image)
    BY <1>3, CloseIs
  <1>5. r.fds = [fds EXCEPT ![fd] = Closed]
    BY <1>2, <1>3 DEF Close, Result
  <1> QED BY <1>3, <1>4, <1>5

-----------------------------------------------------------------------------
(* What grep has written for the entries before is a sequence.              *)
LEMMA SearchWritten ==
  ASSUME NEW image \in Disks, NEW search, NEW s, s = InFiles(image, search), NEW k, NEW e, IsEntry(image, k, e),
         NEW c, IsFlat(c, s, k - 1)
  PROVE  SomeSeq(c)
  <1>1. PICK n \in Nat : n = Len(Entries(image)) /\ AllSeqs(s, n)
    BY InFilesAre
  <1>2. k \in 1 .. n
    BY <1>1 DEF IsEntry
  <1>3. PICK j \in Nat : j = k - 1
    BY <1>1, <1>2
  <1>4. AllSeqs(s, j)
    BY <1>1, <1>2, <1>3 DEF AllSeqs
  <1> QED BY <1>3, <1>4, FlatIsSeq

(* grep reads a buffer and writes the lines that match.                     *)
LEMMA GrepReads ==
  ASSUME Base, GrepPart(disk, Top, out), GrepScan
  PROVE  GrepPart(disk', Top', out')
  <1>0. /\ disk \in Disks /\ Top.fds \in Tables(disk) /\ IsString(Top.argument)
        /\ message' \in Words /\ disk' = disk /\ Top.program = "grep" /\ Top.pc = "scan"
    BY TopIs DEF Base, IsProc, GrepScan, At
  <1>1. PICK fds, v, search, p : fds = Top.fds /\ v = Top.v /\ search = Top.argument /\ p = Top'
    OBVIOUS
  <1>2. ~Easy(disk) => GrepPart(disk', p, out')
    BY <1>0 DEF GrepPart
  <1>3. ASSUME Easy(disk) PROVE GrepPart(disk', p, out')
    <2>1. PICK dir, fd, e, data, c, x : IsScanning(disk, search, fds, v, out, dir, fd, e, data, c, x)
      BY <1>0, <1>1, <1>3 DEF GrepPart, Scanning
    <2>2. /\ v = [search |-> search, dir |-> dir, name |-> e.file_name, fd |-> fd, data |-> data]
          /\ search # <<>> /\ IsDirectory(disk, fds, dir) /\ fd \in Fds \ {0, 1} /\ fd # dir
          /\ IsEntry(disk, fds[dir].pos, e) /\ e.file_name[1] # Dot /\ Holds(disk, fds[fd], e)
          /\ out = c \o x /\ IsFlat(c, InFiles(disk, search), fds[dir].pos - 1)
          /\ ScanOf(disk, search, e, data, fds[fd].pos, x)
      BY <2>1 DEF IsScanning
    <2>3. PICK name, k : name = e.file_name /\ k = fds[dir].pos
      OBVIOUS
    <2>4. v.search = search /\ v.dir = dir /\ v.name = name /\ v.fd = fd /\ v.data = data
      BY <2>2, <2>3
    <2>5. PICK r : r = Read(disk, fds, fd, BUFSIZE - Len(data))
      OBVIOUS
    <2>6. PICK text : text = data \o Buffer(r)
      OBVIOUS
    <2>7. PICK rest : rest = Leftover(text, r.ret)
      OBVIOUS
    <2>8. PICK lines : lines = SubSeq(text, 1, Len(text) - Len(rest))
      OBVIOUS
    <2>9. PICK y : y = Matches(search, name, lines)
      OBVIOUS
    <2>10. PICK closed : closed = Close(r.fds, fd).fds
      OBVIOUS
    <2>11. PICK main, w : /\ main = [search |-> search, dir |-> dir]
                          /\ w = [search |-> search, dir |-> dir, name |-> name, fd |-> fd, data |-> rest]
      OBVIOUS
    <2>12. [v EXCEPT !.data = rest] = w
      BY <2>2, <2>3, <2>11
    <2>13. IF r.ret = Fail THEN Return(Top, 3)
           ELSE /\ out' = out \o y
                /\ IF r.ret = 0 THEN Go("list", closed, main) ELSE Go("scan", r.fds, w)
      <3>1. r = Read(disk, Top.fds, Top.v.fd, BUFSIZE - Len(Top.v.data)) /\ text = Top.v.data \o Buffer(r)
        BY <1>1, <2>4, <2>5, <2>6
      <3>2. IF r.ret = Fail THEN Return(Top, 3)
            ELSE /\ Puts(Matches(Top.v.search, Top.v.name, lines))
                 /\ IF r.ret = 0 THEN Go("list", Close(r.fds, Top.v.fd).fds, [search |-> Top.v.search, dir |-> Top.v.dir])
                    ELSE Go("scan", r.fds, [Top.v EXCEPT !.data = rest])
        BY <2>7, <2>8, <3>1 DEF GrepScan, FileDone
      <3>3. /\ Matches(Top.v.search, Top.v.name, lines) = y /\ Close(r.fds, Top.v.fd).fds = closed
            /\ [search |-> Top.v.search, dir |-> Top.v.dir] = main /\ [Top.v EXCEPT !.data = rest] = w
        BY <1>1, <2>4, <2>9, <2>10, <2>11, <2>12
      <3> QED BY <3>2, <3>3 DEF Puts
    <2>14. Scans(disk, fds, fd, search, e, data, r, rest, y)
      BY <2>3, <2>5, <2>6, <2>7, <2>8, <2>9 DEF Scans
    <2>15. SomeSeq(c)
      BY <1>0, <2>2, SearchWritten
    <2>16. /\ r.ret \in Nat /\ SomeSeq(x) /\ SomeSeq(y) /\ r.fds \in Tables(disk)
           /\ Holds(disk, r.fds[fd], e) /\ Elsewhere(fds, r.fds, fd)
           /\ r.ret = 0 => x \o y = InFile(disk, search, e)
           /\ r.ret # 0 => ScanOf(disk, search, e, rest, r.fds[fd].pos, x \o y)
      <3>1. PICK h : h = fds[fd]
        OBVIOUS
      <3>2. ScanFrom(disk, fds, search, k, e, fd, h, data, x, r, rest, y)
        <4>1. ShortFiles(disk) /\ IsString(search) /\ fds \in Tables(disk) /\ fd \in Fds
          BY <1>0, <1>1, <1>3, <2>2 DEF Easy
        <4> QED BY <1>0, <2>2, <2>3, <2>14, <3>1, <4>1 DEF ScanFrom
      <3>3. e.file_type # DIR_TYPE
        <4>1. e.file_type = DIR_TYPE <=> name = <<Dot>>
          BY <1>0, <2>2, <2>3, EntryIs
        <4> QED BY <2>2, <2>3, <4>1
      <3>4. e.file_type \in {RTC_TYPE, DIR_TYPE, FILE_TYPE}
        BY <1>0, <2>2, EntryIs
      <3>5. ScanTo(disk, fds, search, e, fd, x, r, rest, y)
        BY <3>2, <3>3, <3>4, FileScans, ClockScans
      <3> QED BY <3>5 DEF ScanTo
    <2>17. /\ out' = c \o (x \o y)
           /\ IF r.ret = 0 THEN Go("list", closed, main) ELSE Go("scan", r.fds, w)
      <3>1. r.ret # Fail
        BY <2>16 DEF Fail
      <3>2. (c \o x) \o y = c \o (x \o y)
        BY <2>15, <2>16, Regrouped
      <3> QED BY <2>2, <2>13, <3>1, <3>2
    <2>18. r.fds \in Tables(disk)
      BY <2>16
    <2>19. dir \in Fds /\ r.fds[dir] = fds[dir] /\ IsDirectory(disk, r.fds, dir)
      <3>1. dir \in Fds /\ r.fds[dir] = fds[dir]
        BY <2>2, <2>16 DEF Elsewhere, IsDirectory
      <3> QED BY <2>2, <3>1 DEF IsDirectory
    <2>20. CASE r.ret = 0
      <3>1. closed \in Tables(disk) /\ closed = [r.fds EXCEPT ![fd] = Closed]
        <4>1. PICK u, h : u = r.fds /\ h = u[fd]
          OBVIOUS
        <4>2. u \in Tables(disk) /\ fd \in Fds \ {0, 1} /\ Holds(disk, h, e) /\ closed = Close(u, fd).fds
          BY <2>2, <2>10, <2>16, <2>18, <4>1
        <4>3. closed \in Tables(disk) /\ closed = [u EXCEPT ![fd] = Closed]
          BY <4>1, <4>2, ClosesIt
        <4> QED BY <4>1, <4>3
      <3>2. closed[dir] = fds[dir]
        <4>1. r.fds \in [Fds -> Descriptor]
          BY <2>18 DEF Tables
        <4> QED BY <2>2, <2>19, <3>1, <4>1
      <3>3. IsDirectory(disk, closed, dir)
        BY <2>2, <3>2 DEF IsDirectory
      <3>4. p.pc = "list" /\ p.fds = closed /\ p.v = main /\ p.argument = search
        BY <1>0, <1>1, <2>17, <2>20, <3>1, Went
      <3>5. PICK z : z = x \o y
        OBVIOUS
      <3>6. z = InFile(disk, search, e)
        BY <2>16, <2>20, <3>5
      <3>7. closed[dir].pos = k /\ IsEntry(disk, k, e) /\ IsFlat(c, InFiles(disk, search), k - 1)
        BY <2>2, <2>3, <3>2
      <3>8. Seeking(disk, search, closed, main, c \o z)
        BY <1>0, <2>2, <2>11, <3>3, <3>6, <3>7, SeekingKept
      <3>9. Seeking(disk, search, closed, main, out')
        BY <2>17, <3>5, <3>8
      <3> QED BY <1>0, <3>4, <3>9 DEF GrepPart
    <2>21. CASE r.ret # 0
      <3>1. p.pc = "scan" /\ p.fds = r.fds /\ p.v = w /\ p.argument = search
        BY <1>0, <1>1, <2>17, <2>18, <2>21, Went
      <3>2. PICK z, t : z = x \o y /\ t = r.fds
        OBVIOUS
      <3>3. IsScanning(disk, search, t, w, out', dir, fd, e, rest, c, z)
        <4>1. t[dir].pos = fds[dir].pos
          BY <2>19, <3>2
        <4>2. out' = c \o z /\ ScanOf(disk, search, e, rest, t[fd].pos, z)
          BY <2>16, <2>17, <2>21, <3>2
        <4>3. IsDirectory(disk, t, dir) /\ Holds(disk, t[fd], e)
          BY <2>16, <2>19, <3>2
        <4> QED BY <2>2, <2>3, <2>11, <4>1, <4>2, <4>3 DEF IsScanning
      <3>4. Scanning(disk, search, r.fds, w, out')
        BY <3>2, <3>3 DEF Scanning
      <3> QED BY <1>0, <3>1, <3>4 DEF GrepPart
    <2> QED BY <2>20, <2>21
  <1> QED BY <1>1, <1>2, <1>3

-----------------------------------------------------------------------------
(* What the four programs have written, in every state.                        *)
OutputPart(image, p, o) ==
  CatPart(image, p, o) /\ LsPart(image, p, o) /\ GrepPart(image, p, o) /\ CounterPart(p, o)
Writers == {"cat", "ls", "grep", "counter"}

(* Nothing is asked of the other programs.                                  *)
LEMMA NotAWriter ==
  ASSUME NEW image, NEW p, NEW o, p.program \notin Writers
  PROVE  OutputPart(image, p, o)
  BY DEF Writers, OutputPart, CatPart, LsPart, GrepPart, CounterPart

(* A program that begins has written nothing.                               *)
LEMMA WriterBegins ==
  ASSUME NEW image, NEW p, NEW o, p.pc = "main", o = <<>>
  PROVE  OutputPart(image, p, o)
  BY DEF OutputPart, CatPart, LsPart, GrepPart, CounterPart

(* Only the part of the running program matters.                            *)
LEMMA OneWriter ==
  ASSUME NEW image, NEW p, NEW o,
         \/ p.program = "cat" /\ CatPart(image, p, o)
         \/ p.program = "ls" /\ LsPart(image, p, o)
         \/ p.program = "grep" /\ GrepPart(image, p, o)
         \/ p.program = "counter" /\ CounterPart(p, o)
  PROVE  OutputPart(image, p, o)
  BY DEF OutputPart, CatPart, LsPart, GrepPart, CounterPart

(* Each step keeps what has been written as it should be.                   *)
LEMMA OutputKept ==
  ASSUME IInv(Int), OutputPart(disk, Top, out), [Next]_vars
  PROVE  OutputPart(disk', Top', out')
  <1>0. Base /\ Allowed(Int) /\ Doing(Top, Int)
    BY ProgramsAssumption DEF IInv, Allowed
  <1>1. CatPart(disk, Top, out) /\ LsPart(disk, Top, out) /\ GrepPart(disk, Top, out) /\ CounterPart(Top, out)
    BY DEF OutputPart
  <1>2. ASSUME IsShell(Top') PROVE OutputPart(disk', Top', out')
    <2>1. Top'.program \notin Writers
      BY <1>2 DEF IsShell, Writers
    <2> QED BY <2>1, NotAWriter
  <1>3. ASSUME Stays, Top.program \notin Writers PROVE OutputPart(disk', Top', out')
    <2>1. Top'.program \notin Writers
      BY <1>3 DEF Stays
    <2> QED BY <2>1, NotAWriter
  <1>4. CASE \E line \in Lines : ShellRead(line)
    <2>1. IsShell(Top') \/ (Top'.pc = "main" /\ out' = <<>>)
      BY <1>0, <1>4, LaunchIs
    <2> QED BY <1>2, <2>1, WriterBegins
  <1>16. CASE \E line \in Lines : ShellOverrun(line)
    <2>1. Top'.program \notin Writers
      BY <1>0, <1>16, OverrunIs DEF Writers
    <2> QED BY <2>1, NotAWriter
  <1>5. CASE Leave
    <2>1. PICK st : st = Top.v.status
      OBVIOUS
    <2>2. st \in Int /\ Halt(st, <<"exit", st>>) /\ disk' = disk
      BY <1>0, <1>5, <2>1 DEF Leave, Doing
    <2> QED BY <1>0, <1>2, <2>2, HaltIs
  <1>6. CASE SigFault \/ OtherFaults
    <2>1. PICK vec : Fault(vec)
      BY <1>6 DEF SigFault, OtherFaults
    <2>2. 0 \in Int /\ Halt(0, <<"exception">>) /\ disk' = disk
      BY <2>1 DEF Fault, HandlerStatus
    <2> QED BY <1>0, <1>2, <2>2, HaltIs
  <1>7. CASE ShellExit
    <2>1. Return(Top, 0) /\ disk' = disk /\ message' \in Words /\ Top.program = "shell"
      BY <1>0, <1>7, QuietIs DEF ShellExit, At
    <2>2. Stays
      BY <1>0, <2>1, ReturnsWith
    <2> QED BY <1>3, <2>1, <2>2 DEF Writers
  <1>8. CASE CatOpen \/ CatCopy
    <2>1. Top'.program = "cat"
      BY <1>0, <1>8, CatSteps DEF CatOpen, CatCopy, At, Stays
    <2>2. CatPart(disk', Top', out')
      BY <1>0, <1>1, <1>8, CatOpens, CatCopies
    <2> QED BY <2>1, <2>2, OneWriter
  <1>9. CASE LsOpen \/ LsName
    <2>1. Top'.program = "ls"
      BY <1>0, <1>9, LsSteps DEF LsOpen, LsName, At, Stays
    <2>2. LsPart(disk', Top', out')
      BY <1>0, <1>1, <1>9, LsOpens, LsLists
    <2> QED BY <2>1, <2>2, OneWriter
  <1>10. CASE GrepOpen \/ GrepName \/ GrepScan
    <2>1. Top'.program = "grep"
      BY <1>0, <1>10, GrepFirstSteps, GrepScans DEF GrepOpen, GrepName, GrepScan, At, Stays
    <2>2. GrepPart(disk', Top', out')
      BY <1>0, <1>1, <1>10, GrepOpens, GrepNames, GrepReads
    <2> QED BY <2>1, <2>2, OneWriter
  <1>11. CASE CounterChoose \/ CounterCount
    <2>1. Top'.program = "counter"
      BY <1>0, <1>11, SmallSteps DEF CounterChoose, CounterCount, At, Stays
    <2>2. CounterPart(Top', out')
      BY <1>0, <1>1, <1>11, CounterChooses, CounterCounts
    <2> QED BY <2>1, <2>2, OneWriter
  <1>12. CASE TestPrint \/ Hello \/ SigTest \/ OtherReturns
    <2>1. Stays
      BY <1>0, <1>12, SmallSteps
    <2>2. Top.program \notin Writers
      BY <1>12 DEF TestPrint, Hello, SigTest, OtherReturns, At, Writers
    <2> QED BY <1>3, <2>1, <2>2
  <1>13. CASE PingPongOpen \/ PingPongMove
    <2>1. Stays
      BY <1>0, <1>13, PingPongSteps
    <2>2. Top.program \notin Writers
      BY <1>13 DEF PingPongOpen, PingPongMove, At, Writers
    <2> QED BY <1>3, <2>1, <2>2
  <1>14. CASE SysErrChoose \/ SysErrTest
    <2>1. Stays
      BY <1>0, <1>14, SysErrSteps
    <2>2. Top.program \notin Writers
      BY <1>14 DEF SysErrChoose, SysErrTest, At, Writers
    <2> QED BY <1>3, <2>1, <2>2
  <1>15. CASE UNCHANGED vars
    <2>1. Top' = Top /\ out' = out /\ disk' = disk
      BY <1>15 DEF vars, Top
    <2> QED BY <2>1
  <1> QED BY <1>4, <1>5, <1>6, <1>7, <1>8, <1>9, <1>10, <1>11, <1>12, <1>13, <1>14, <1>15, <1>16 DEF Next

(* A program that has returned 0 has kept its promise.                      *)
LEMMA OutputPromised ==
  ASSUME Base, OutputPart(disk, Top, out)
  PROVE  OutputAsPromised
  <1>0. disk \in Disks
    BY DEF Base
  <1> SUFFICES ASSUME Top.pc = "return", Top.v.status = 0
               PROVE  /\ Top.program = "cat" => CatPromise
                      /\ Top.program = "ls" /\ ~FullBootBlock => LsPromise
                      /\ Top.program = "grep" /\ ~FullBootBlock /\ ShortLines => GrepPromise
                      /\ Top.program = "counter" => CounterPromise
    BY DEF OutputAsPromised
  <1>1. ASSUME Top.program = "cat" PROVE CatPromise
    <2>1. PICK argument : argument = Top.argument
      OBVIOUS
    <2>2. CatWrote(disk, argument, out)
      BY <1>1, <2>1 DEF OutputPart, CatPart
    <2>3. PICK e : /\ e \in MeantOf(disk, argument)
                   /\ e.file_type = FILE_TYPE => out = FileBytes(disk, e.inode_id)
                   /\ e.file_type = RTC_TYPE  => out = <<>>
      BY <2>2 DEF CatWrote
    <2>4. e \in Meant(Top.argument)
      BY <2>1, <2>3, MeantIs
    <2> QED BY <2>3, <2>4 DEF CatPromise
  <1>2. ASSUME Top.program = "ls", ~FullBootBlock PROVE LsPromise
    <2>1. LsWrote(disk, out)
      BY <1>2 DEF OutputPart, LsPart
    <2> QED BY <1>0, <1>2, <2>1, LsPromised
  <1>3. ASSUME Top.program = "grep", ~FullBootBlock, ShortLines PROVE GrepPromise
    <2>1. Easy(disk)
      BY <1>3 DEF Easy, Full, FullBootBlock, ShortFiles, ShortLines
    <2>2. GrepWrote(disk, Top.argument, out)
      BY <1>3, <2>1 DEF OutputPart, GrepPart
    <2> QED BY <2>2 DEF GrepWrote, GrepPromise, InFiles, InFile
  <1>4. ASSUME Top.program = "counter" PROVE CounterPromise
    <2>1. CounterWrote(out)
      BY <1>4 DEF OutputPart, CounterPart
    <2> QED BY <2>1, CounterPromised
  <1> QED BY <1>1, <1>2, <1>3, <1>4

(* What a program that returns 0 has written is what it is for: cat the bytes *)
(* of its file, whatever the buffer and the blocks, ls every name, grep each  *)
(* line with the pattern, across the buffers it reads, counter the numbers.   *)
THEOREM PromisesKept == Spec => []OutputAsPromised
  <1>1. Allowed(Int)
    BY ProgramsAssumption DEF Allowed
  <1>2. Init => IInv(Int)
    BY AtFirst
  <1>3. IInv(Int) /\ [Next]_vars => IInv(Int)'
    BY <1>1, Preserved
  <1>4. Init => OutputPart(disk, Top, out)
    <2> SUFFICES ASSUME Init PROVE OutputPart(disk, Top, out)
      OBVIOUS
    <2>1. PICK p : p = NewProcess("shell", <<>>)
      OBVIOUS
    <2>2. stack = <<p>> /\ p.program = "shell"
      BY <2>1 DEF Init, NewProcess
    <2>3. Top = p
      BY <2>2 DEF Top, Last
    <2>4. Top.program \notin Writers
      BY <2>2, <2>3 DEF Writers
    <2> QED BY <2>4, NotAWriter
  <1>5. IInv(Int) /\ OutputPart(disk, Top, out) /\ [Next]_vars => OutputPart(disk, Top, out)'
    BY OutputKept
  <1>6. IInv(Int) /\ OutputPart(disk, Top, out) => OutputAsPromised
    BY OutputPromised DEF IInv
  <1> QED BY <1>2, <1>3, <1>4, <1>5, <1>6, PTL DEF Spec
=============================================================================
