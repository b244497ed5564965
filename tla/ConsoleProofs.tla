----------------------------- MODULE ConsoleProofs -----------------------------
(***************************************************************************)
(* Console is correct for every size of the screen: the screen shows the    *)
(* text.  The invariant says what every letter, Tab and Enter has left      *)
(* behind for the Backspace that may come (Shows).                         *)
(***************************************************************************)
EXTENDS Console, WellFoundedInduction, TLAPS

(* Induction, as the least of a set of numbers.                             *)
LEMMA Smallest ==
  ASSUME NEW T, T \subseteq Nat, T # {}
  PROVE  \E n \in T : \A k \in T : n <= k
  <1>1. \E x \in T : \A y \in T : ~(<<y, x>> \in OpToRel(<, Nat))
    BY NatLessThanWellFounded, WFMin
  <1>2. PICK x \in T : \A y \in T : ~(<<y, x>> \in OpToRel(<, Nat))
    BY <1>1
  <1>3. \A y \in T : ~(y < x)
    BY <1>2 DEF OpToRel
  <1> QED BY <1>3

(* Where a row begins, counting cells from the top.                         *)
Edge(r) == NUM_COLS * r

(* Rows follow each other.                                                  *)
LEMMA EdgeFacts ==
  /\ Edge(0) = 0 /\ Edge(1) = NUM_COLS
  /\ \A r \in Nat : Edge(r) \in Nat /\ Edge(r + 1) = Edge(r) + NUM_COLS
  /\ \A r, q \in Nat : r < q => Edge(r) + NUM_COLS <= Edge(q)
  <1> USE ConsoleAssumption
  <1>1. Edge(0) = 0 /\ Edge(1) = NUM_COLS
    BY DEF Edge
  <1>2. \A r \in Nat : Edge(r) \in Nat /\ Edge(r + 1) = Edge(r) + NUM_COLS
    BY DEF Edge
  <1>3. ASSUME NEW r \in Nat, NEW q \in Nat, r < q
        PROVE  Edge(r) + NUM_COLS <= Edge(q)
    <2>1. PICK d \in Nat : q = r + 1 + d
      <3>1. q - r - 1 \in Nat /\ q = r + 1 + (q - r - 1)
        BY <1>3
      <3> QED BY <3>1
    <2>2. Edge(q) = Edge(r) + NUM_COLS + NUM_COLS * d
      BY <2>1 DEF Edge
    <2>3. NUM_COLS * d \in Nat /\ Edge(r) \in Nat
      BY DEF Edge
    <2> QED BY <2>2, <2>3
  <1> QED BY <1>1, <1>2, <1>3

(* Every cell is in a row.                                                  *)
LEMMA RowOf ==
  ASSUME NEW p \in Nat
  PROVE  /\ p \div NUM_COLS \in Nat /\ p % NUM_COLS \in 0 .. NUM_COLS - 1
         /\ p = Edge(p \div NUM_COLS) + (p % NUM_COLS)
  BY ConsoleAssumption DEF Edge

(* ... and in no other.                                                     *)
LEMMA RowUnique ==
  ASSUME NEW r \in Nat, NEW q \in Nat, NEW x \in 0 .. NUM_COLS - 1, NEW z \in 0 .. NUM_COLS - 1,
         Edge(r) + x = Edge(q) + z
  PROVE  r = q /\ x = z
  <1>0. Edge(r) \in Nat /\ Edge(q) \in Nat /\ NUM_COLS \in Nat
    BY EdgeFacts, ConsoleAssumption
  <1>1. ~(r < q)
    <2> SUFFICES ASSUME r < q PROVE FALSE
      OBVIOUS
    <2>1. Edge(r) + NUM_COLS <= Edge(q)
      BY EdgeFacts
    <2> QED BY <2>1, <1>0
  <1>2. ~(q < r)
    <2> SUFFICES ASSUME q < r PROVE FALSE
      OBVIOUS
    <2>1. Edge(q) + NUM_COLS <= Edge(r)
      BY EdgeFacts
    <2> QED BY <2>1, <1>0
  <1>3. r = q
    BY <1>1, <1>2
  <1> QED BY <1>0, <1>3

-----------------------------------------------------------------------------
(* The cell after an item that begins at cell p.                            *)
After(c, p) == CASE c = "letter" -> p + 1
                 [] c = "tab"    -> p + SPACES_NUM
                 [] c = "enter"  -> (p \div NUM_COLS + 1) * NUM_COLS

IsStarts(t, p) == /\ p \in [0 .. Len(t) -> Nat] /\ p[0] = 0
                  /\ \A i \in 1 .. Len(t) : p[i] = After(t[i], p[i - 1])

(* An item moves on, an Enter to the next row, and only a Tab may pass the   *)
(* end of a row without stopping there.                                    *)
LEMMA AfterFacts ==
  ASSUME NEW c \in Chars, NEW p \in Nat
  PROVE  /\ After(c, p) \in Nat /\ After(c, p) > p
         /\ c = "letter" => After(c, p) = p + 1
         /\ c = "tab" => After(c, p) = p + SPACES_NUM
         /\ c = "enter" => \A r \in Nat, x \in 0 .. NUM_COLS - 1 :
                             p = Edge(r) + x => After(c, p) = Edge(r + 1)
         /\ c # "tab" => \A r \in Nat : p < Edge(r) => After(c, p) <= Edge(r)
  <1>0. SPACES_NUM \in Nat \ {0} /\ NUM_COLS \in Nat \ {0}
    BY ConsoleAssumption
  <1>1. PICK r \in Nat, x \in 0 .. NUM_COLS - 1 : p = Edge(r) + x /\ r = p \div NUM_COLS
    BY RowOf
  <1>2. c = "enter" => After(c, p) = Edge(r + 1)
    <2>1. (r + 1) * NUM_COLS = NUM_COLS * (r + 1)
      BY <1>0
    <2> QED BY <1>1, <2>1 DEF After, Edge
  <1>3. Edge(r + 1) = Edge(r) + NUM_COLS /\ Edge(r) \in Nat /\ Edge(r + 1) \in Nat
    <2>1. Edge(r + 1) = Edge(r) + NUM_COLS /\ Edge(r) \in Nat
      BY EdgeFacts
    <2> QED BY <2>1, <1>0
  <1>4. (c = "letter" => After(c, p) = p + 1) /\ (c = "tab" => After(c, p) = p + SPACES_NUM)
    BY DEF After
  <1>5. After(c, p) \in Nat /\ After(c, p) > p
    BY <1>0, <1>1, <1>2, <1>3, <1>4 DEF Chars
  <1>6. ASSUME c = "enter", NEW q \in Nat, NEW z \in 0 .. NUM_COLS - 1, p = Edge(q) + z
        PROVE  After(c, p) = Edge(q + 1)
    <2>1. q = r
      BY <1>1, <1>6, RowUnique
    <2> QED BY <2>1, <1>2, <1>6
  <1>7. ASSUME c # "tab", NEW q \in Nat, p < Edge(q)
        PROVE  After(c, p) <= Edge(q)
    <2>1. Edge(q) \in Nat
      BY EdgeFacts
    <2>2. CASE c = "letter"
      BY <2>1, <2>2, <1>4, <1>7
    <2>3. CASE c = "enter"
      <3>1. Edge(r) < Edge(q)
        BY <2>1, <1>1, <1>3, <1>7
      <3>2. ~(q < r) /\ q # r
        <4>1. q # r
          BY <3>1, <1>3
        <4>2. ASSUME q < r PROVE FALSE
          <5>1. Edge(q) + NUM_COLS <= Edge(r)
            BY <4>2, EdgeFacts
          <5> QED BY <5>1, <3>1, <2>1, <1>3, <1>0
        <4> QED BY <4>1, <4>2
      <3>3. r < q
        BY <3>2
      <3>4. Edge(r) + NUM_COLS <= Edge(q)
        BY <3>3, EdgeFacts
      <3> QED BY <3>4, <2>3, <1>2, <1>3
    <2> QED BY <2>2, <2>3, <1>7 DEF Chars
  <1> QED BY <1>4, <1>5, <1>6, <1>7

(* An item takes room.                                                      *)
LEMMA AfterMore ==
  ASSUME NEW t \in Seq(Chars), NEW i \in 1 .. Len(t), NEW n \in Nat
  PROVE  After(t[i], n) \in Nat /\ After(t[i], n) > n
  <1>1. t[i] \in Chars
    OBVIOUS
  <1> QED BY <1>1, AfterFacts

(* The recursive definition of the reference has a value, a number.          *)
LEMMA StartsIs ==
  ASSUME NEW t \in Seq(Chars)
  PROVE  IsStarts(t, Starts(t))
  <1> DEFINE Line(f, i) == IF i = 0 THEN 0 ELSE After(t[i], f[i - 1])
             Defined(m) == \E f : f = [i \in 0 .. m |-> Line(f, i)]
             T == {m \in Nat : ~Defined(m)}
  <1>1. T = {}
    <2> SUFFICES ASSUME T # {} PROVE FALSE
      OBVIOUS
    <2>1. PICK m \in T : \A k \in T : m <= k
      BY Smallest
    <2>2. CASE m = 0
      <3>1. PICK g : g = [i \in 0 .. 0 |-> 0]
        OBVIOUS
      <3>2. \A i \in 0 .. 0 : Line(g, i) = 0
        OBVIOUS
      <3>3. g = [i \in 0 .. 0 |-> Line(g, i)]
        BY <3>1, <3>2
      <3> QED BY <3>3, <2>2
    <2>3. CASE m # 0
      <3>0. m - 1 \in Nat /\ ~(m <= m - 1)
        BY <2>1, <2>3
      <3>1. m - 1 \notin T
        BY <2>1, <3>0
      <3>2. PICK g : g = [i \in 0 .. m - 1 |-> Line(g, i)]
        BY <3>0, <3>1
      <3>3. PICK f : f = [i \in 0 .. m |-> IF i = m THEN Line(g, m) ELSE g[i]]
        OBVIOUS
      <3>4. ASSUME NEW i \in 0 .. m
            PROVE  f[i] = Line(f, i)
        <4>1. f[i] = Line(g, i)
          <5>1. CASE i = m
            BY <5>1, <3>3
          <5>2. CASE i # m
            <6>1. i \in 0 .. m - 1
              BY <5>2, <2>1
            <6> QED BY <6>1, <5>2, <3>2, <3>3
          <5> QED BY <5>1, <5>2
        <4>2. i # 0 => f[i - 1] = g[i - 1]
          BY <2>1, <3>3
        <4> QED BY <4>1, <4>2
      <3>5. f = [i \in 0 .. m |-> Line(f, i)]
        BY <3>3, <3>4
      <3> QED BY <3>5
    <2> QED BY <2>2, <2>3
  <1>2. Len(t) \in Nat
    OBVIOUS
  <1>3. \E f : f = [i \in 0 .. Len(t) |-> Line(f, i)]
    BY <1>1, <1>2
  <1>4. Starts(t) = [i \in 0 .. Len(t) |-> Line(Starts(t), i)]
    BY <1>3 DEF Starts, After
  <1>5. PICK p : p = Starts(t)
    OBVIOUS
  <1>6. p = [i \in 0 .. Len(t) |-> Line(p, i)]
    BY <1>4, <1>5
  <1>7. p[0] = 0 /\ \A i \in 1 .. Len(t) : p[i] = After(t[i], p[i - 1])
    BY <1>2, <1>6
  <1> DEFINE U == {i \in 0 .. Len(t) : p[i] \notin Nat}
  <1>8. U = {}
    <2> SUFFICES ASSUME U # {} PROVE FALSE
      OBVIOUS
    <2>0. U \subseteq Nat
      BY <1>2
    <2>1. PICK i \in U : \A k \in U : i <= k
      BY <2>0, Smallest
    <2>2. i \in 1 .. Len(t)
      BY <2>1, <1>7
    <2>3. i - 1 \in 0 .. Len(t) /\ ~(i <= i - 1)
      BY <2>2, <1>2
    <2>4. p[i - 1] \in Nat
      BY <2>1, <2>3
    <2>5. p[i] \in Nat
      BY <2>2, <2>4, <1>7, AfterMore
    <2> QED BY <2>1, <2>5
  <1>9. p \in [0 .. Len(t) -> Nat]
    BY <1>6, <1>8
  <1> QED BY <1>5, <1>7, <1>9 DEF IsStarts

(* Where an item begins depends on the items before it.                     *)
LEMMA SamePrefix ==
  ASSUME NEW t \in Seq(Chars), NEW u \in Seq(Chars), NEW p, NEW q,
         IsStarts(t, p), IsStarts(u, q),
         NEW n \in Nat, n <= Len(t), n <= Len(u), \A i \in 1 .. n : t[i] = u[i]
  PROVE  \A i \in 0 .. n : p[i] = q[i]
  <1> DEFINE T == {i \in 0 .. n : p[i] # q[i]}
  <1>1. T = {}
    <2> SUFFICES ASSUME T # {} PROVE FALSE
      OBVIOUS
    <2>0. T \subseteq Nat
      OBVIOUS
    <2>1. PICK i \in T : \A k \in T : i <= k
      BY <2>0, Smallest
    <2>2. i \in 1 .. n
      BY <2>1 DEF IsStarts
    <2>3. i - 1 \in 0 .. n /\ ~(i <= i - 1)
      BY <2>2
    <2>4. p[i - 1] = q[i - 1]
      BY <2>1, <2>3
    <2>5. i \in 1 .. Len(t) /\ i \in 1 .. Len(u)
      BY <2>2
    <2>6. p[i] = q[i]
      BY <2>2, <2>4, <2>5 DEF IsStarts
    <2> QED BY <2>1, <2>6
  <1> QED BY <1>1

(* There is one way to begin.                                               *)
LEMMA StartsUnique ==
  ASSUME NEW t \in Seq(Chars), NEW p, NEW q, IsStarts(t, p), IsStarts(t, q)
  PROVE  \A i \in 0 .. Len(t) : p[i] = q[i]
  <1>1. PICK n \in Nat : n = Len(t)
    OBVIOUS
  <1>2. n <= Len(t) /\ \A i \in 1 .. n : t[i] = t[i]
    BY <1>1
  <1>3. \A i \in 0 .. n : p[i] = q[i]
    BY <1>2, SamePrefix
  <1> QED BY <1>1, <1>3

(* Items begin one after the other.                                         *)
LEMMA Increasing ==
  ASSUME NEW t \in Seq(Chars), NEW p, IsStarts(t, p)
  PROVE  \A i, j \in 0 .. Len(t) : i < j => p[i] < p[j]
  <1> SUFFICES ASSUME NEW i \in 0 .. Len(t)
               PROVE  \A j \in 0 .. Len(t) : i < j => p[i] < p[j]
    OBVIOUS
  <1>0. /\ Len(t) \in Nat /\ \A j \in 0 .. Len(t) : p[j] \in Nat
    BY DEF IsStarts
  <1> DEFINE T == {j \in 0 .. Len(t) : i < j /\ ~(p[i] < p[j])}
  <1>1. T = {}
    <2> SUFFICES ASSUME T # {} PROVE FALSE
      OBVIOUS
    <2>0. T \subseteq Nat
      BY <1>0
    <2>1. PICK j \in T : \A k \in T : j <= k
      BY <2>0, Smallest
    <2>2. j \in 1 .. Len(t) /\ i < j
      BY <2>1, <1>0
    <2>3. j - 1 \in 0 .. Len(t) /\ ~(j <= j - 1) /\ p[j - 1] \in Nat
      BY <2>2, <1>0
    <2>4. p[j - 1] < p[j]
      BY <2>2, <2>3, AfterMore DEF IsStarts
    <2>5. i = j - 1 \/ p[i] < p[j - 1]
      <3>1. j - 1 \notin T
        BY <2>1, <2>3
      <3> QED BY <3>1, <2>2, <2>3
    <2>6. p[i] \in Nat /\ p[j] \in Nat
      BY <2>2, <1>0
    <2> QED BY <2>1, <2>3, <2>4, <2>5, <2>6
  <1> QED BY <1>1

-----------------------------------------------------------------------------
(* What holds of a text t whose items begin at the cells p, of the screen    *)
(* that shows it, and of the memories that a backspace goes by.            *)

(* No Tab reaches the end of its row.                                       *)
Straight(t, p) ==
  \A k \in 1 .. Len(t) : t[k] = "tab" =>
    \A r \in Nat : p[k - 1] < Edge(r) => p[k] < Edge(r)

Marked(cell, t, p) ==
  \A i \in Cells : i # p[Len(t)] =>
    cell[i] = IF \E k \in 1 .. Len(t) : t[k] = "letter" /\ p[k - 1] = i
              THEN "letter" ELSE "blank"

(* line_is_full and prev_screen_x know how the text left each row.           *)
Exits(full, prev, t, p) ==
  \A r \in Rows, k \in 1 .. Len(t) : p[k] = Edge(r + 1) =>
    IF t[k] = "enter" THEN ~full[r] /\ p[k - 1] = Edge(r) + prev[r] ELSE full[r]

(* As far back as both go, display_buf and the text agree.                   *)
Remembers(buf, t) ==
  \A j \in 0 .. Len(t) - 1 : j < Len(buf) => buf[Len(buf) - j] = t[Len(t) - j]

Glyphs  == {"letter", "blank", "underscore"}
Screens == [x : 0 .. NUM_COLS - 1, y : Nat, cell : [Cells -> Glyphs],
            full : [Rows -> BOOLEAN], prev : [Rows -> 0 .. NUM_COLS - 1], buf : Seq(Chars)]

(* The screen s shows the text t; s.y is NUM_ROWS before a scroll.           *)
Shows(s, t, p) ==
  /\ s \in Screens /\ t \in Seq(Chars) /\ IsStarts(t, p) /\ Straight(t, p)
  /\ p[Len(t)] = Edge(s.y) + s.x
  /\ Marked(s.cell, t, p)
  /\ Exits(s.full, s.prev, t, p) /\ \A r \in Rows : r >= s.y => ~s.full[r]
  /\ Len(s.buf) <= NUM_COLS * NUM_ROWS /\ Remembers(s.buf, t)

(* The items of a text end at or before the cursor.                         *)
LEMMA StartsFacts ==
  ASSUME NEW t \in Seq(Chars), NEW p, IsStarts(t, p)
  PROVE  /\ Len(t) \in Nat /\ p[0] = 0 /\ \A i \in 0 .. Len(t) : p[i] \in Nat
         /\ \A i \in 0 .. Len(t) : p[i] <= p[Len(t)]
         /\ \A i \in 0 .. Len(t) - 1 : p[i] < p[Len(t)]
         /\ \A i \in 1 .. Len(t) : i - 1 \in 0 .. Len(t) - 1 /\ t[i] \in Chars /\ p[i - 1] < p[i]
  <1>0. Len(t) \in Nat
    OBVIOUS
  <1>1. Len(t) \in Nat /\ p[0] = 0 /\ \A i \in 0 .. Len(t) : p[i] \in Nat
    BY <1>0 DEF IsStarts
  <1>2. \A i \in 0 .. Len(t) - 1 : p[i] < p[Len(t)]
    BY <1>1, Increasing
  <1>3. \A i \in 0 .. Len(t) : p[i] <= p[Len(t)]
    <2> SUFFICES ASSUME NEW i \in 0 .. Len(t) PROVE p[i] <= p[Len(t)]
      OBVIOUS
    <2>1. CASE i = Len(t)
      BY <2>1, <1>1
    <2>2. CASE i # Len(t)
      BY <2>2, <1>1, <1>2
    <2> QED BY <2>1, <2>2
  <1>4. \A i \in 1 .. Len(t) : i - 1 \in 0 .. Len(t) - 1 /\ t[i] \in Chars /\ p[i - 1] < p[i]
    <2> SUFFICES ASSUME NEW i \in 1 .. Len(t)
                 PROVE  i - 1 \in 0 .. Len(t) - 1 /\ t[i] \in Chars /\ p[i - 1] < p[i]
      OBVIOUS
    <2>1. i - 1 \in 0 .. Len(t) /\ i \in 0 .. Len(t) /\ i - 1 < i /\ i - 1 \in 0 .. Len(t) - 1
      BY <1>1
    <2> QED BY <2>1, Increasing
  <1> QED BY <1>1, <1>2, <1>3, <1>4

(* What one more item changes of where items begin.                         *)
LEMMA Grown ==
  ASSUME NEW t \in Seq(Chars), NEW p, IsStarts(t, p), NEW c \in Chars, NEW q,
         IsStarts(Append(t, c), q)
  PROVE  /\ Append(t, c) \in Seq(Chars) /\ Len(Append(t, c)) = Len(t) + 1 /\ Len(t) \in Nat
         /\ Append(t, c)[Len(t) + 1] = c /\ \A i \in 1 .. Len(t) : Append(t, c)[i] = t[i]
         /\ \A i \in 0 .. Len(t) : q[i] = p[i]
         /\ q[Len(t) + 1] = After(c, p[Len(t)])
  <1>1. PICK u : u = Append(t, c)
    OBVIOUS
  <1>2. /\ u \in Seq(Chars) /\ Len(u) = Len(t) + 1 /\ Len(t) \in Nat
        /\ u[Len(t) + 1] = c /\ \A i \in 1 .. Len(t) : u[i] = t[i]
    BY <1>1
  <1>3. \A i \in 0 .. Len(t) : q[i] = p[i]
    <2>1. Len(t) <= Len(u) /\ Len(t) <= Len(t) /\ IsStarts(u, q)
      BY <1>1, <1>2
    <2>2. \A i \in 0 .. Len(t) : p[i] = q[i]
      BY <1>2, <2>1, SamePrefix
    <2> QED BY <2>2
  <1>4. q[Len(t) + 1] = After(c, p[Len(t)])
    <2>1. IsStarts(u, q) /\ Len(t) + 1 \in 1 .. Len(u) /\ Len(t) + 1 - 1 = Len(t)
      BY <1>1, <1>2
    <2>2. q[Len(t) + 1] = After(u[Len(t) + 1], q[Len(t) + 1 - 1])
      BY <2>1 DEF IsStarts
    <2> QED BY <2>1, <2>2, <1>2, <1>3
  <1> QED BY <1>1, <1>2, <1>3, <1>4

(* A text with one more item, cut at its cursor.                            *)
LEMMA StraightGrown ==
  ASSUME NEW t \in Seq(Chars), NEW p, IsStarts(t, p), NEW c \in Chars, NEW q,
         IsStarts(Append(t, c), q), Straight(t, p),
         c = "tab" => \A r \in Nat : p[Len(t)] < Edge(r) => p[Len(t)] + SPACES_NUM < Edge(r)
  PROVE  Straight(Append(t, c), q)
  <1>0. PICK n \in Nat : n = Len(t)
    OBVIOUS
  <1>1. PICK u : u = Append(t, c) /\ n = Len(t)
    BY <1>0
  <1>2. /\ Len(u) = n + 1 /\ u[n + 1] = c /\ \A i \in 1 .. n : u[i] = t[i]
        /\ \A i \in 0 .. n : q[i] = p[i]
        /\ q[n + 1] = After(c, p[n])
    BY <1>1, Grown
  <1>3. ASSUME NEW k \in 1 .. n + 1, u[k] = "tab", NEW r \in Nat, q[k - 1] < Edge(r)
        PROVE  q[k] < Edge(r)
    <2>1. CASE k = n + 1
      <3>1. q[k] = p[n] + SPACES_NUM /\ q[k - 1] = p[n] /\ c = "tab"
        BY <2>1, <1>2, <1>3 DEF After
      <3> QED BY <3>1, <1>1, <1>3
    <2>2. CASE k # n + 1
      <3>1. k \in 1 .. n /\ k \in 0 .. n /\ k - 1 \in 0 .. n
        BY <2>2
      <3>2. t[k] = "tab" /\ q[k] = p[k] /\ q[k - 1] = p[k - 1]
        BY <3>1, <1>2, <1>3
      <3> QED BY <3>1, <3>2, <1>1, <1>3 DEF Straight
    <2> QED BY <2>1, <2>2
  <1>4. Straight(u, q)
    BY <1>2, <1>3 DEF Straight
  <1> QED BY <1>1, <1>4

(* The letters of the longer text are those of the text, and perhaps one.   *)
LEMMA MarkedGrown ==
  ASSUME NEW t \in Seq(Chars), NEW p, IsStarts(t, p), NEW c \in Chars, NEW q,
         IsStarts(Append(t, c), q), NEW cell, NEW new, Marked(cell, t, p),
         p[Len(t)] \in Cells => new[p[Len(t)]] = IF c = "letter" THEN "letter" ELSE "blank",
         \A i \in Cells : i # p[Len(t)] => new[i] = cell[i]
  PROVE  Marked(new, Append(t, c), q)
  <1>0. PICK n \in Nat : n = Len(t)
    OBVIOUS
  <1>1. PICK u : u = Append(t, c) /\ n = Len(t)
    BY <1>0
  <1>2. /\ Len(u) = n + 1 /\ u[n + 1] = c /\ \A i \in 1 .. n : u[i] = t[i]
        /\ \A i \in 0 .. n : q[i] = p[i]
    BY <1>1, Grown
  <1>3. /\ \A i \in 1 .. n : i - 1 \in 0 .. n - 1 /\ p[i - 1] < p[n]
        /\ p[n] \in Nat /\ \A i \in 0 .. n : p[i] \in Nat
    BY <1>1, StartsFacts
  <1>4. ASSUME NEW i \in Cells
        PROVE  new[i] = IF \E k \in 1 .. n + 1 : u[k] = "letter" /\ q[k - 1] = i
                        THEN "letter" ELSE "blank"
    <2>1. (\E k \in 1 .. n + 1 : u[k] = "letter" /\ q[k - 1] = i)
            <=> \/ \E k \in 1 .. n : t[k] = "letter" /\ p[k - 1] = i
                \/ c = "letter" /\ p[n] = i
      <3>1. ASSUME NEW k \in 1 .. n
            PROVE  u[k] = t[k] /\ q[k - 1] = p[k - 1] /\ k \in 1 .. n + 1
        BY <1>2, <1>3
      <3>2. u[n + 1] = c /\ q[n + 1 - 1] = p[n] /\ n + 1 \in 1 .. n + 1
        BY <1>2
      <3>3. \A k \in 1 .. n + 1 : k = n + 1 \/ k \in 1 .. n
        OBVIOUS
      <3> QED BY <3>1, <3>2, <3>3
    <2>2. CASE i = p[n]
      <3>1. ~\E k \in 1 .. n : t[k] = "letter" /\ p[k - 1] = i
        BY <2>2, <1>3
      <3>2. new[i] = IF c = "letter" THEN "letter" ELSE "blank"
        BY <2>2, <1>1
      <3>3. (\E k \in 1 .. n + 1 : u[k] = "letter" /\ q[k - 1] = i) <=> c = "letter"
        BY ONLY <3>1, <2>1, <2>2
      <3> QED BY ONLY <3>2, <3>3
    <2>3. CASE i # p[n]
      <3>1. new[i] = IF \E k \in 1 .. n : t[k] = "letter" /\ p[k - 1] = i THEN "letter" ELSE "blank"
        BY <2>3, <1>1 DEF Marked
      <3>2. (\E k \in 1 .. n + 1 : u[k] = "letter" /\ q[k - 1] = i)
              <=> \E k \in 1 .. n : t[k] = "letter" /\ p[k - 1] = i
        BY ONLY <2>1, <2>3
      <3> QED BY ONLY <3>1, <3>2
    <2> QED BY <2>2, <2>3
  <1>5. Marked(new, u, q)
    BY <1>2, <1>4 DEF Marked
  <1> QED BY <1>1, <1>5

(* The rows above row y have left the same traces.                          *)
Kept(full, prev, nfull, nprev, y) ==
  \A r \in Rows : r < y => nfull[r] = full[r] /\ nprev[r] = prev[r]

(* An item c that begins at cell p leaves its row as Exits says.             *)
Leaves(full, prev, c, p) ==
  \A r \in Rows : After(c, p) = Edge(r + 1) =>
    IF c = "enter" THEN ~full[r] /\ p = Edge(r) + prev[r] ELSE full[r]

LEMMA ExitsGrown ==
  ASSUME NEW t \in Seq(Chars), NEW p, IsStarts(t, p), NEW c \in Chars, NEW q,
         IsStarts(Append(t, c), q), NEW full, NEW prev, NEW nfull, NEW nprev,
         Exits(full, prev, t, p),
         NEW y \in Nat, NEW x \in 0 .. NUM_COLS - 1, p[Len(t)] = Edge(y) + x,
         Kept(full, prev, nfull, nprev, y), Leaves(nfull, nprev, c, p[Len(t)])
  PROVE  Exits(nfull, nprev, Append(t, c), q)
  <1>0. PICK n \in Nat : n = Len(t)
    OBVIOUS
  <1>1. PICK u : u = Append(t, c) /\ n = Len(t)
    BY <1>0
  <1>2. /\ Len(u) = n + 1 /\ u[n + 1] = c /\ \A i \in 1 .. n : u[i] = t[i]
        /\ \A i \in 0 .. n : q[i] = p[i]
        /\ q[n + 1] = After(c, p[n])
    BY <1>1, Grown
  <1>3. /\ \A i \in 0 .. n : p[i] \in Nat /\ p[i] <= p[n]
    BY <1>1, StartsFacts
  <1>4. ASSUME NEW r \in Rows, NEW k \in 1 .. n + 1, q[k] = Edge(r + 1)
        PROVE  IF u[k] = "enter" THEN ~nfull[r] /\ q[k - 1] = Edge(r) + nprev[r] ELSE nfull[r]
    <2>1. CASE k = n + 1
      <3>1. q[k - 1] = p[n] /\ u[k] = c
        BY <2>1, <1>2
      <3> QED BY <3>1, <2>1, <1>1, <1>2, <1>4 DEF Leaves
    <2>2. CASE k # n + 1
      <3>1. k \in 1 .. n /\ k \in 0 .. n /\ k - 1 \in 0 .. n
        BY <2>2
      <3>2. u[k] = t[k] /\ q[k] = p[k] /\ q[k - 1] = p[k - 1]
        BY <3>1, <1>2
      <3>3. r \in Nat /\ r + 1 \in Nat
        BY DEF Rows
      <3>4. r < y
        <4>1. Edge(r + 1) <= Edge(y) + x
          BY <3>1, <3>2, <1>1, <1>3, <1>4
        <4>2. ~(y < r + 1)
          <5> SUFFICES ASSUME y < r + 1 PROVE FALSE
            OBVIOUS
          <5>1. Edge(y) + NUM_COLS <= Edge(r + 1) /\ Edge(y) \in Nat /\ Edge(r + 1) \in Nat
            BY <3>3, EdgeFacts
          <5> QED BY <4>1, <5>1, ConsoleAssumption
        <4> QED BY <4>2, <3>3
      <3>5. IF t[k] = "enter" THEN ~full[r] /\ p[k - 1] = Edge(r) + prev[r] ELSE full[r]
        BY <3>1, <3>2, <1>1, <1>4 DEF Exits
      <3> QED BY <3>2, <3>4, <3>5 DEF Kept
    <2> QED BY <2>1, <2>2
  <1>5. Exits(nfull, nprev, u, q)
    BY <1>2, <1>4 DEF Exits
  <1> QED BY <1>1, <1>5

(* A character that is stored when it is put keeps display_buf in step.     *)
LEMMA RemembersGrown ==
  ASSUME NEW t \in Seq(Chars), NEW b \in Seq(Chars), NEW c \in Chars, Remembers(b, t)
  PROVE  Remembers(Append(b, c), Append(t, c))
  <1>0. PICK n \in Nat, m \in Nat : n = Len(t) /\ m = Len(b)
    OBVIOUS
  <1>1. PICK u, d : u = Append(t, c) /\ d = Append(b, c) /\ n = Len(t) /\ m = Len(b)
    BY <1>0
  <1>2. /\ Len(u) = n + 1 /\ u[n + 1] = c /\ \A i \in 1 .. n : u[i] = t[i]
        /\ Len(d) = m + 1 /\ d[m + 1] = c /\ \A i \in 1 .. m : d[i] = b[i]
    BY <1>1
  <1>3. ASSUME NEW j \in 0 .. n, j < m + 1
        PROVE  d[m + 1 - j] = u[n + 1 - j]
    <2>1. CASE j = 0
      BY <2>1, <1>2
    <2>2. CASE j # 0
      <3>1. j - 1 \in 0 .. n - 1 /\ j - 1 < m /\ m + 1 - j = m - (j - 1)
            /\ n + 1 - j = n - (j - 1) /\ m + 1 - j \in 1 .. m /\ n + 1 - j \in 1 .. n
        BY <2>2, <1>3
      <3>2. b[m - (j - 1)] = t[n - (j - 1)]
        BY <3>1, <1>1 DEF Remembers
      <3> QED BY <3>1, <3>2, <1>2
    <2> QED BY <2>1, <2>2
  <1>4. Remembers(d, u)
    BY <1>2, <1>3 DEF Remembers
  <1> QED BY <1>1, <1>4

-----------------------------------------------------------------------------
(* Scrolling.                                                               *)

(* A row further up everything goes the same way.                           *)
LEMMA AfterShift ==
  ASSUME NEW c \in Chars, NEW p \in Nat, p >= NUM_COLS
  PROVE  p - NUM_COLS \in Nat /\ After(c, p - NUM_COLS) = After(c, p) - NUM_COLS
  <1>0. p - NUM_COLS \in Nat /\ NUM_COLS \in Nat /\ SPACES_NUM \in Nat
    BY ConsoleAssumption
  <1>1. CASE c = "enter"
    <2>1. PICK r \in Nat, x \in 0 .. NUM_COLS - 1 : p = Edge(r) + x
      BY RowOf
    <2>2. r # 0
      BY <2>1, EdgeFacts
    <2>3. r - 1 \in Nat /\ r - 1 + 1 = r /\ r + 1 \in Nat
      BY <2>2
    <2>4. /\ Edge(r - 1 + 1) = Edge(r - 1) + NUM_COLS /\ Edge(r + 1) = Edge(r) + NUM_COLS
          /\ Edge(r - 1) \in Nat /\ Edge(r) \in Nat
      BY <2>3, EdgeFacts
    <2>5. Edge(r) = Edge(r - 1) + NUM_COLS
      BY <2>3, <2>4
    <2>6. p - NUM_COLS = Edge(r - 1) + x
      BY <2>1, <2>4, <2>5, <1>0
    <2>7. After(c, p) = Edge(r + 1)
      BY <2>1, <1>1, AfterFacts
    <2>8. After(c, p - NUM_COLS) = Edge(r - 1 + 1)
      BY <2>3, <2>6, <1>0, <1>1, AfterFacts
    <2> QED BY <2>3, <2>4, <2>7, <2>8, <1>0
  <1>2. CASE c = "letter"
    BY <1>0, <1>2 DEF After
  <1>3. CASE c = "tab"
    BY <1>0, <1>3 DEF After
  <1> QED BY <1>1, <1>2, <1>3 DEF Chars

(* A text that reaches the second row is cut at its start.                   *)
LEMMA BelowIs ==
  ASSUME NEW t \in Seq(Chars), NEW p, IsStarts(t, p), Straight(t, p), p = Starts(t),
         p[Len(t)] >= NUM_COLS
  PROVE  \E m \in 1 .. Len(t) : p[m] = NUM_COLS /\ Below(t) = SubSeq(t, m + 1, Len(t))
  <1>0. /\ Len(t) \in Nat /\ p[0] = 0 /\ \A i \in 0 .. Len(t) : p[i] \in Nat
        /\ \A i \in 1 .. Len(t) : t[i] \in Chars
    BY StartsFacts
  <1>1. Edge(1) = NUM_COLS /\ NUM_COLS \in Nat \ {0}
    BY EdgeFacts, ConsoleAssumption
  <1> DEFINE T == {k \in 0 .. Len(t) : p[k] >= NUM_COLS}
  <1>2. T \subseteq Nat /\ T # {}
    BY <1>0
  <1>3. PICK m \in T : \A k \in T : m <= k
    BY <1>2, Smallest
  <1>4. m \in 1 .. Len(t)
    BY <1>0, <1>1, <1>3
  <1>5. p[m - 1] < NUM_COLS /\ p[m - 1] \in Nat
    <2>1. m - 1 \in 0 .. Len(t) /\ ~(m <= m - 1)
      BY <1>0, <1>4
    <2>2. m - 1 \notin T
      BY <2>1, <1>3
    <2> QED BY <2>1, <2>2, <1>0, <1>1
  <1>6. p[m] = NUM_COLS
    <2>1. t[m] # "tab"
      <3>1. t[m] = "tab" => p[m] < Edge(1)
        BY <1>1, <1>4, <1>5 DEF Straight
      <3> QED BY <3>1, <1>0, <1>1, <1>3, <1>4
    <2>2. p[m] = After(t[m], p[m - 1])
      BY <1>4 DEF IsStarts
    <2>3. t[m] \in Chars
      BY <1>0, <1>4
    <2>4. p[m] <= Edge(1)
      BY <2>1, <2>2, <2>3, <1>1, <1>5, AfterFacts
    <2> QED BY <2>4, <1>0, <1>1, <1>3, <1>4
  <1>7. \A k \in 0 .. Len(t) : p[k] = NUM_COLS => k = m
    <2> SUFFICES ASSUME NEW k \in 0 .. Len(t), p[k] = NUM_COLS PROVE k = m
      OBVIOUS
    <2>1. m \in 0 .. Len(t)
      OBVIOUS
    <2>2. ~(k < m) /\ ~(m < k)
      BY <2>1, <1>1, <1>6, Increasing
    <2> QED BY <2>1, <2>2, <1>0
  <1>8. (CHOOSE k \in 0 .. Len(t) : p[k] = NUM_COLS) = m
    BY <1>6, <1>7
  <1>9. Below(t) = SubSeq(t, m + 1, Len(t))
    BY <1>8 DEF Below
  <1> QED BY <1>4, <1>6, <1>9

(* The items of the rest of a text begin a row further up.                   *)
RowUp(p, q, m, w) ==
  \A i \in 0 .. w : q[i] = p[m + i] - NUM_COLS /\ p[m + i] >= NUM_COLS

LEMMA BelowStarts ==
  ASSUME NEW t \in Seq(Chars), NEW p, IsStarts(t, p), NEW m \in 1 .. Len(t), p[m] = NUM_COLS,
         NEW u, u = SubSeq(t, m + 1, Len(t)), NEW q, IsStarts(u, q)
  PROVE  /\ u \in Seq(Chars) /\ Len(u) = Len(t) - m /\ Len(u) \in Nat
         /\ \A i \in 1 .. Len(u) : u[i] = t[m + i]
         /\ RowUp(p, q, m, Len(u))
  <1>0. PICK n \in Nat : n = Len(t)
    OBVIOUS
  <1>1. /\ u \in Seq(Chars) /\ Len(u) = n - m /\ n - m \in Nat
        /\ \A i \in 1 .. n - m : u[i] = t[m + i]
    BY <1>0
  <1>2. \A i \in 0 .. n : p[i] \in Nat
    BY <1>0, StartsFacts
  <1>3. ASSUME NEW i \in 0 .. n - m
        PROVE  p[m + i] >= NUM_COLS /\ p[m + i] \in Nat
    <2>1. m + i \in 0 .. Len(t) /\ m \in 0 .. Len(t)
      BY <1>0
    <2>2. p[m + i] \in Nat /\ NUM_COLS \in Nat
      BY <2>1, <1>0, <1>2, ConsoleAssumption
    <2>3. CASE i = 0
      BY <2>2, <2>3
    <2>4. CASE i # 0
      <3>1. m < m + i
        BY <2>4
      <3>2. p[m] < p[m + i]
        BY <2>1, <3>1, Increasing
      <3> QED BY <3>2, <2>2
    <2> QED BY <2>3, <2>4
  <1>4. PICK f : f = [i \in 0 .. n - m |-> p[m + i] - NUM_COLS]
    OBVIOUS
  <1>5. IsStarts(u, f)
    <2>1. f \in [0 .. Len(u) -> Nat] /\ f[0] = 0
      <3>1. ASSUME NEW i \in 0 .. n - m
            PROVE  p[m + i] - NUM_COLS \in Nat
        <4>1. NUM_COLS \in Nat
          BY ConsoleAssumption
        <4>2. p[m + i] \in Nat /\ p[m + i] >= NUM_COLS
          BY <1>3
        <4> QED BY <4>1, <4>2
      <3>2. f[0] = 0
        BY <1>1, <1>4, ConsoleAssumption
      <3> QED BY <3>1, <3>2, <1>1, <1>4
    <2>2. ASSUME NEW i \in 1 .. Len(u)
          PROVE  f[i] = After(u[i], f[i - 1])
      <3>1. /\ i \in 0 .. n - m /\ i - 1 \in 0 .. n - m /\ m + i \in 1 .. Len(t)
            /\ m + i - 1 = m + (i - 1) /\ u[i] = t[m + i]
        BY <1>0, <1>1
      <3>2. p[m + i] = After(t[m + i], p[m + (i - 1)])
        BY <3>1 DEF IsStarts
      <3>3. t[m + i] \in Chars /\ p[m + (i - 1)] \in Nat /\ p[m + (i - 1)] >= NUM_COLS
        <4>1. t[m + i] \in Chars
          BY <3>1
        <4> QED BY <4>1, <3>1, <1>3
      <3>4. After(t[m + i], p[m + (i - 1)] - NUM_COLS) = p[m + i] - NUM_COLS
        BY <3>2, <3>3, AfterShift
      <3> QED BY <3>1, <3>4, <1>4
    <2> QED BY <2>1, <2>2 DEF IsStarts
  <1>6. \A i \in 0 .. n - m : f[i] = q[i]
    <2>1. u \in Seq(Chars) /\ Len(u) = n - m
      BY <1>1
    <2>2. \A i \in 0 .. Len(u) : f[i] = q[i]
      <3>1. u \in Seq(Chars) /\ IsStarts(u, f) /\ IsStarts(u, q)
        BY <2>1, <1>5
      <3> QED BY ONLY <3>1, StartsUnique
    <2> QED BY <2>1, <2>2
  <1>7. RowUp(p, q, m, n - m)
    BY <1>1, <1>3, <1>4, <1>6 DEF RowUp
  <1> QED BY <1>0, <1>1, <1>7

(* The screen n is s, which has left its last row, a row further up.         *)
MovedUp(s, n) ==
  /\ s.x = 0 /\ s.y = NUM_ROWS
  /\ n \in Screens /\ n.x = 0 /\ n.y = NUM_ROWS - 1 /\ n.buf = s.buf
  /\ \A i \in Cells : n.cell[i] = IF i + NUM_COLS \in Cells THEN s.cell[i + NUM_COLS] ELSE "blank"
  /\ \A r \in Rows : r + 1 \in Rows => n.full[r] = s.full[r + 1] /\ n.prev[r] = s.prev[r + 1]
  /\ ~n.full[NUM_ROWS - 1]

(* A full screen scrolled by a row shows the text without its first row.     *)
LEMMA Scrolled ==
  ASSUME NEW s, NEW t, NEW p, Shows(s, t, p), p = Starts(t), NEW n, MovedUp(s, n),
         NEW q, q = Starts(Below(t))
  PROVE  Shows(n, Below(t), q)
  <1> USE DEF MovedUp
  <1>0. /\ NUM_COLS \in Nat \ {0} /\ NUM_ROWS \in Nat \ {0, 1} /\ NUM_ROWS - 1 \in Nat
        /\ NUM_ROWS - 1 + 1 = NUM_ROWS /\ NUM_ROWS - 1 \in Rows
    BY ConsoleAssumption DEF Rows
  <1>1. t \in Seq(Chars) /\ IsStarts(t, p) /\ Straight(t, p) /\ Len(t) \in Nat
    BY DEF Shows
  <1>2. /\ Edge(NUM_ROWS) = Edge(NUM_ROWS - 1) + NUM_COLS /\ Edge(NUM_ROWS - 1) \in Nat
        /\ Edge(NUM_ROWS) \in Nat
    <2>1. Edge(NUM_ROWS - 1 + 1) = Edge(NUM_ROWS - 1) + NUM_COLS /\ Edge(NUM_ROWS - 1) \in Nat
      BY <1>0, EdgeFacts
    <2> QED BY <2>1, <1>0
  <1>3. p[Len(t)] = Edge(NUM_ROWS) /\ p[Len(t)] >= NUM_COLS
    <2>1. p[Len(t)] = Edge(NUM_ROWS)
      BY <1>2 DEF Shows
    <2> QED BY <2>1, <1>0, <1>2
  <1>4. PICK m \in 1 .. Len(t) : p[m] = NUM_COLS /\ Below(t) = SubSeq(t, m + 1, Len(t))
    BY <1>1, <1>3, BelowIs
  <1>5. PICK u : u = Below(t)
    OBVIOUS
  <1>6. u \in Seq(Chars)
    BY <1>1, <1>4, <1>5
  <1>7. IsStarts(u, q)
    BY <1>5, <1>6, StartsIs
  <1>8. PICK w \in Nat : w = Len(u) /\ w = Len(t) - m
    BY <1>1, <1>4, <1>5, <1>7, BelowStarts
  <1>9. /\ \A i \in 1 .. w : u[i] = t[m + i]
        /\ \A i \in 0 .. w : q[i] = p[m + i] - NUM_COLS /\ p[m + i] >= NUM_COLS
    <2>1. /\ \A i \in 1 .. Len(u) : u[i] = t[m + i]
          /\ \A i \in 0 .. Len(u) : q[i] = p[m + i] - NUM_COLS /\ p[m + i] >= NUM_COLS
      <3>1. u = SubSeq(t, m + 1, Len(t)) /\ IsStarts(t, p) /\ t \in Seq(Chars) /\ p[m] = NUM_COLS
        BY <1>1, <1>4, <1>5
      <3>2. \A i \in 1 .. Len(u) : u[i] = t[m + i]
        BY <3>1, <1>7, BelowStarts
      <3>3. RowUp(p, q, m, Len(u))
        BY <3>1, <1>7, BelowStarts
      <3> QED BY <3>2, <3>3 DEF RowUp
    <2> QED BY <2>1, <1>8
  <1>18. /\ \A k \in 1 .. w : q[k - 1] < q[w] /\ q[k - 1] \in Nat
         /\ \A k \in 0 .. w : q[k] <= q[w]
    <2>1. /\ \A i \in 0 .. Len(u) : q[i] \in Nat /\ q[i] <= q[Len(u)]
          /\ \A i \in 0 .. Len(u) - 1 : q[i] < q[Len(u)]
      BY <1>6, <1>7, StartsFacts
    <2>2. \A k \in 1 .. w : k - 1 \in 0 .. w - 1 /\ k - 1 \in 0 .. w
      OBVIOUS
    <2> QED BY <2>1, <2>2, <1>8
  <1>10. \A i \in 0 .. w : m + i \in 0 .. Len(t) /\ p[m + i] \in Nat /\ (i \in 1 .. w => m + i \in 1 .. Len(t))
    BY <1>1, <1>8, StartsFacts
  <1>11. q[w] = Edge(NUM_ROWS - 1) /\ q[w] = Edge(n.y) + n.x
    <2>1. q[w] = p[m + w] - NUM_COLS /\ m + w = Len(t)
      BY <1>8, <1>9, <1>1
    <2> QED BY <2>1, <1>0, <1>2, <1>3
  <1>12. Straight(u, q)
    <2>1. ASSUME NEW k \in 1 .. w, u[k] = "tab", NEW r \in Nat, q[k - 1] < Edge(r)
          PROVE  q[k] < Edge(r)
      <3>1. /\ k - 1 \in 0 .. w /\ k \in 0 .. w /\ m + (k - 1) = m + k - 1 /\ r + 1 \in Nat
            /\ m + k \in 1 .. Len(t)
        BY <1>10
      <3>2. Edge(r + 1) = Edge(r) + NUM_COLS /\ Edge(r) \in Nat
        BY EdgeFacts
      <3>3. /\ q[k - 1] = p[m + k - 1] - NUM_COLS /\ p[m + k - 1] \in Nat
            /\ q[k] = p[m + k] - NUM_COLS /\ p[m + k] \in Nat /\ t[m + k] = "tab"
        BY <3>1, <2>1, <1>9, <1>10
      <3>4. p[m + k - 1] < Edge(r + 1)
        BY <3>2, <3>3, <2>1, <1>0
      <3>5. p[m + k] < Edge(r + 1)
        BY <3>1, <3>3, <3>4, <1>1 DEF Straight
      <3> QED BY <3>2, <3>3, <3>5, <1>0
    <2> QED BY <2>1, <1>8 DEF Straight
  <1>13. Marked(n.cell, u, q)
    <2>1. ASSUME NEW i \in Cells, i # q[w]
          PROVE  n.cell[i] = IF \E k \in 1 .. w : u[k] = "letter" /\ q[k - 1] = i
                             THEN "letter" ELSE "blank"
      <3>1. i \in Nat
        BY DEF Cells
      <3>2. CASE i + NUM_COLS \in Cells
        <4>1. i + NUM_COLS # p[Len(t)]
          BY <3>1, <2>1, <1>0, <1>2, <1>3, <1>11
        <4>2. s.cell[i + NUM_COLS] =
                IF \E k \in 1 .. Len(t) : t[k] = "letter" /\ p[k - 1] = i + NUM_COLS
                THEN "letter" ELSE "blank"
          BY <3>2, <4>1 DEF Shows, Marked
        <4>3. (\E k \in 1 .. Len(t) : t[k] = "letter" /\ p[k - 1] = i + NUM_COLS)
                <=> (\E k \in 1 .. w : u[k] = "letter" /\ q[k - 1] = i)
          <5>1. ASSUME NEW k \in 1 .. w, u[k] = "letter", q[k - 1] = i
                PROVE  \E j \in 1 .. Len(t) : t[j] = "letter" /\ p[j - 1] = i + NUM_COLS
            <6>1. m + k \in 1 .. Len(t) /\ t[m + k] = "letter" /\ m + k - 1 = m + (k - 1) /\ k - 1 \in 0 .. w
              <7>1. k - 1 \in 0 .. w /\ k \in 0 .. w /\ m + k - 1 = m + (k - 1)
                OBVIOUS
              <7>2. m + k \in 1 .. Len(t) /\ u[k] = t[m + k]
                BY <7>1, <1>9, <1>10
              <7> QED BY <7>1, <7>2, <5>1
            <6>2. p[m + (k - 1)] \in Nat /\ p[m + (k - 1)] = i + NUM_COLS
              <7>1. q[k - 1] = p[m + (k - 1)] - NUM_COLS /\ p[m + (k - 1)] \in Nat
                BY <6>1, <1>9, <1>10
              <7> QED BY <7>1, <5>1, <3>1, <1>0
            <6> QED BY <6>1, <6>2
          <5>2. ASSUME NEW j \in 1 .. Len(t), t[j] = "letter", p[j - 1] = i + NUM_COLS
                PROVE  \E k \in 1 .. w : u[k] = "letter" /\ q[k - 1] = i
            <6>1. j - 1 >= m
              <7>1. j - 1 \in 0 .. Len(t) /\ m \in 0 .. Len(t)
                BY <1>1
              <7>2. j - 1 < m => p[j - 1] < p[m]
                BY <7>1, <1>1, Increasing
              <7> QED BY <7>1, <7>2, <5>2, <1>0, <1>4, <3>1
            <6>2. j - m \in 1 .. w /\ m + (j - m) = j /\ m + (j - m - 1) = j - 1 /\ j - m - 1 \in 0 .. w
              <7>1. PICK l \in Nat : l = Len(t) /\ w = l - m
                BY <1>1, <1>8
              <7>2. j \in 1 .. l /\ m \in 1 .. l
                BY <7>1
              <7>3. /\ j - m \in 1 .. w /\ m + (j - m) = j /\ m + (j - m - 1) = j - 1
                    /\ j - m - 1 \in 0 .. w
                BY <7>1, <7>2, <6>1
              <7> QED BY <7>3
            <6>3. u[j - m] = t[j] /\ q[j - m - 1] = p[j - 1] - NUM_COLS
              BY <6>2, <1>9
            <6>4. q[j - m - 1] = i
              BY <6>3, <5>2, <3>1, <1>0
            <6> QED BY <6>2, <6>3, <6>4, <5>2
          <5> QED BY <5>1, <5>2
        <4> QED BY <3>2, <4>2, <4>3
      <3>3. CASE i + NUM_COLS \notin Cells
        <4>1. i >= q[w]
          <5>1. i + NUM_COLS >= Edge(NUM_ROWS)
            BY <3>1, <3>3, <1>0 DEF Cells, Edge
          <5> QED BY <5>1, <3>1, <1>0, <1>2, <1>11
        <4>2. \A k \in 1 .. w : q[k - 1] < q[w] /\ q[k - 1] \in Nat
          BY <1>18
        <4> QED BY <4>1, <4>2, <3>1, <3>3, <1>2, <1>11
      <3> QED BY <3>2, <3>3
    <2> QED BY <2>1, <1>8 DEF Marked
  <1>14. Exits(n.full, n.prev, u, q)
    <2>1. ASSUME NEW r \in Rows, NEW k \in 1 .. w, q[k] = Edge(r + 1)
          PROVE  IF u[k] = "enter" THEN ~n.full[r] /\ q[k - 1] = Edge(r) + n.prev[r] ELSE n.full[r]
      <3>1. r \in Nat /\ r + 1 \in Nat
        BY DEF Rows
      <3>2. /\ Edge(r + 1) = Edge(r) + NUM_COLS /\ Edge(r) \in Nat
            /\ Edge(r + 1 + 1) = Edge(r + 1) + NUM_COLS /\ Edge(r + 1) \in Nat
        BY <3>1, EdgeFacts
      <3>3. r # NUM_ROWS - 1
        <4>1. q[k] <= q[w]
          BY <1>18
        <4> QED BY <4>1, <3>2, <2>1, <1>0, <1>2, <1>11
      <3>4. r + 1 \in Rows
        BY <3>3, <1>0 DEF Rows
      <3>5. /\ k - 1 \in 0 .. w /\ k \in 0 .. w /\ m + (k - 1) = m + k - 1
            /\ m + k \in 1 .. Len(t)
        BY <1>10
      <3>6. /\ q[k - 1] = p[m + k - 1] - NUM_COLS /\ p[m + k - 1] \in Nat
            /\ q[k] = p[m + k] - NUM_COLS /\ p[m + k] \in Nat /\ t[m + k] = u[k]
        BY <3>5, <1>9, <1>10
      <3>7. p[m + k] = Edge(r + 1 + 1)
        BY <3>2, <3>6, <2>1, <1>0
      <3>8. IF t[m + k] = "enter" THEN ~s.full[r + 1] /\ p[m + k - 1] = Edge(r + 1) + s.prev[r + 1]
                                  ELSE s.full[r + 1]
        BY <3>4, <3>5, <3>7 DEF Shows, Exits
      <3>9. n.full[r] = s.full[r + 1] /\ n.prev[r] = s.prev[r + 1] /\ n.prev[r] \in Nat
        BY <3>4 DEF Screens
      <3>10. CASE u[k] = "enter"
        <4>1. p[m + k - 1] = Edge(r + 1) + n.prev[r] /\ ~n.full[r]
          BY <3>6, <3>8, <3>9, <3>10
        <4>2. q[k - 1] = Edge(r) + n.prev[r]
          <5>1. PICK v \in Nat, e \in Nat, z \in Nat : v = n.prev[r] /\ e = Edge(r) /\ z = p[m + k - 1]
            BY <3>2, <3>6, <3>9
          <5>2. z = e + NUM_COLS + v
            BY <4>1, <5>1, <3>2
          <5>3. q[k - 1] = z - NUM_COLS
            BY <5>1, <3>6
          <5> QED BY <5>1, <5>2, <5>3, <1>0
        <4> QED BY <4>1, <4>2, <3>10
      <3>11. CASE u[k] # "enter"
        BY <3>6, <3>8, <3>9, <3>11
      <3> QED BY <3>10, <3>11
    <2> QED BY <2>1, <1>8 DEF Exits
  <1>15. \A r \in Rows : r >= n.y => ~n.full[r]
    BY <1>0 DEF Rows
  <1>16. Remembers(n.buf, u)
    <2>1. ASSUME NEW j \in 0 .. w - 1, j < Len(n.buf)
          PROVE  n.buf[Len(n.buf) - j] = u[w - j]
      <3>1. j \in 0 .. Len(t) - 1 /\ w - j \in 1 .. w /\ m + (w - j) = Len(t) - j
        BY <1>1, <1>8
      <3>2. n.buf[Len(n.buf) - j] = t[Len(t) - j]
        BY <3>1, <2>1 DEF Shows, Remembers
      <3>3. u[w - j] = t[m + (w - j)]
        BY <3>1, <1>9
      <3> QED BY <3>1, <3>2, <3>3
    <2> QED BY <2>1, <1>8 DEF Remembers
  <1>17. Len(n.buf) <= NUM_COLS * NUM_ROWS
    BY DEF Shows
  <1> QED BY <1>5, <1>6, <1>7, <1>8, <1>11, <1>12, <1>13, <1>14, <1>15, <1>16, <1>17 DEF Shows

-----------------------------------------------------------------------------
(* One item more, and one less.                                             *)

(* The screen n is s after an item c, which a scroll may still have to follow.*)
LEMMA GrownShows ==
  ASSUME NEW s, NEW t, NEW p, Shows(s, t, p), Len(s.buf) < NUM_COLS * NUM_ROWS,
         NEW c \in Chars, NEW q, q = Starts(Append(t, c)),
         NEW n, n \in Screens, n.buf = Append(s.buf, c),
         After(c, p[Len(t)]) = Edge(n.y) + n.x,
         c = "tab" => s.x + SPACES_NUM < NUM_COLS,
         p[Len(t)] \in Cells => n.cell[p[Len(t)]] = IF c = "letter" THEN "letter" ELSE "blank",
         \A i \in Cells : i # p[Len(t)] => n.cell[i] = s.cell[i],
         Kept(s.full, s.prev, n.full, n.prev, s.y), Leaves(n.full, n.prev, c, p[Len(t)]),
         \A r \in Rows : r >= n.y => ~n.full[r]
  PROVE  Shows(n, Append(t, c), q)
  <1>1. /\ s \in Screens /\ t \in Seq(Chars) /\ IsStarts(t, p) /\ Straight(t, p)
        /\ p[Len(t)] = Edge(s.y) + s.x /\ Marked(s.cell, t, p) /\ Exits(s.full, s.prev, t, p)
        /\ Remembers(s.buf, t)
    BY DEF Shows
  <1>2. /\ s.x \in 0 .. NUM_COLS - 1 /\ s.y \in Nat /\ s.buf \in Seq(Chars)
    BY <1>1 DEF Screens
  <1>3. PICK u : u = Append(t, c)
    OBVIOUS
  <1>4. u \in Seq(Chars) /\ IsStarts(u, q)
    <2>1. u \in Seq(Chars)
      BY <1>1, <1>3
    <2> QED BY <2>1, <1>3, StartsIs
  <1>5. IsStarts(Append(t, c), q)
    BY <1>3, <1>4
  <1>6. Straight(Append(t, c), q)
    <2>1. ASSUME c = "tab", NEW r \in Nat, p[Len(t)] < Edge(r)
          PROVE  p[Len(t)] + SPACES_NUM < Edge(r)
      <3>1. Edge(r) \in Nat /\ Edge(s.y) \in Nat /\ NUM_COLS \in Nat /\ SPACES_NUM \in Nat
        BY <1>2, EdgeFacts, ConsoleAssumption
      <3>2. ~(r < s.y) /\ r # s.y
        <4>1. r # s.y
          BY <2>1, <3>1, <1>1, <1>2
        <4>2. ASSUME r < s.y PROVE FALSE
          <5>1. Edge(r) + NUM_COLS <= Edge(s.y)
            BY <4>2, <1>2, EdgeFacts
          <5> QED BY <5>1, <2>1, <3>1, <1>1, <1>2
        <4> QED BY <4>1, <4>2
      <3>3. s.y < r
        BY <3>2, <1>2
      <3>4. Edge(s.y) + NUM_COLS <= Edge(r)
        BY <3>3, <1>2, EdgeFacts
      <3>5. s.x + SPACES_NUM < NUM_COLS
        BY <2>1
      <3> QED BY <3>1, <3>4, <3>5, <1>1, <1>2
    <2> QED BY <2>1, <1>1, <1>5, StraightGrown
  <1>7. /\ Len(u) = Len(t) + 1 /\ q[Len(t) + 1] = After(c, p[Len(t)])
    BY <1>1, <1>3, <1>5, Grown
  <1>8. Marked(n.cell, Append(t, c), q)
    BY <1>1, <1>5, MarkedGrown
  <1>9. Exits(n.full, n.prev, Append(t, c), q)
    BY <1>1, <1>2, <1>5, ExitsGrown
  <1>10. Remembers(Append(s.buf, c), Append(t, c))
    BY <1>1, <1>2, RemembersGrown
  <1>11. Len(n.buf) <= NUM_COLS * NUM_ROWS
    <2>1. PICK z \in Nat : z = NUM_COLS * NUM_ROWS
      BY ConsoleAssumption
    <2>2. Len(n.buf) = Len(s.buf) + 1 /\ Len(s.buf) \in Nat
      BY <1>2
    <2> QED BY <2>1, <2>2
  <1>12. q[Len(u)] = Edge(n.y) + n.x
    BY <1>7
  <1> QED BY <1>3, <1>4, <1>6, <1>8, <1>9, <1>10, <1>11, <1>12 DEF Shows

(* The screen n is s without the last item of its text.                      *)
LEMMA ShrunkShows ==
  ASSUME NEW s, NEW t, NEW p, Shows(s, t, p), Len(t) # 0, s.buf # <<>>,
         NEW q, q = Starts(Front(t)),
         NEW n, n \in Screens, n.buf = Front(s.buf),
         p[Len(t) - 1] = Edge(n.y) + n.x,
         p[Len(t)] \in Cells => n.cell[p[Len(t)]] = "blank",
         \A i \in Cells : i # p[Len(t)] => n.cell[i] = s.cell[i],
         Kept(s.full, s.prev, n.full, n.prev, n.y),
         \A r \in Rows : r >= n.y => ~n.full[r]
  PROVE  Shows(n, Front(t), q)
  <1>1. /\ s \in Screens /\ t \in Seq(Chars) /\ IsStarts(t, p) /\ Straight(t, p)
        /\ p[Len(t)] = Edge(s.y) + s.x /\ Marked(s.cell, t, p) /\ Exits(s.full, s.prev, t, p)
        /\ Remembers(s.buf, t) /\ Len(s.buf) <= NUM_COLS * NUM_ROWS
    BY DEF Shows
  <1>2. /\ s.buf \in Seq(Chars) /\ n.y \in Nat /\ n.x \in 0 .. NUM_COLS - 1
    BY <1>1 DEF Screens
  <1>3. PICK m \in Nat : m = Len(t) - 1 /\ Len(t) = m + 1
    <2>1. Len(t) \in Nat /\ Len(t) - 1 \in Nat
      BY <1>1
    <2> QED BY <2>1
  <1>4. PICK u : u = Front(t)
    OBVIOUS
  <1>5. u \in Seq(Chars) /\ Len(u) = m /\ \A i \in 1 .. m : u[i] = t[i]
    BY <1>1, <1>3, <1>4 DEF Front
  <1>6. IsStarts(u, q)
    BY <1>4, <1>5, StartsIs
  <1>7. \A i \in 0 .. m : q[i] = p[i]
    <2>1. m <= Len(t) /\ m <= Len(u) /\ \A i \in 1 .. m : t[i] = u[i]
      BY <1>3, <1>5
    <2>2. \A i \in 0 .. m : p[i] = q[i]
      BY <2>1, <1>1, <1>5, <1>6, SamePrefix
    <2> QED BY <2>2
  <1>8. /\ p[m] < p[m + 1] /\ \A i \in 0 .. m : p[i] \in Nat /\ p[i] < p[m + 1]
        /\ p[m + 1] \in Nat
    <2>1. /\ \A i \in 0 .. Len(t) : p[i] \in Nat
          /\ \A i \in 0 .. Len(t) - 1 : p[i] < p[Len(t)]
      BY <1>1, StartsFacts
    <2> QED BY <2>1, <1>3
  <1>9. \A i \in 0 .. m : p[i] <= p[m]
    <2>1. \A i \in 0 .. Len(u) : q[i] <= q[Len(u)]
      BY <1>5, <1>6, StartsFacts
    <2> QED BY <2>1, <1>5, <1>7
  <1>10. Straight(u, q)
    <2>1. ASSUME NEW k \in 1 .. m, u[k] = "tab", NEW r \in Nat, q[k - 1] < Edge(r)
          PROVE  q[k] < Edge(r)
      <3>1. k \in 0 .. m /\ k - 1 \in 0 .. m /\ k \in 1 .. Len(t)
        BY <1>3
      <3>2. t[k] = "tab" /\ p[k - 1] < Edge(r)
        BY <3>1, <2>1, <1>5, <1>7
      <3> QED BY <3>1, <3>2, <1>1, <1>7 DEF Straight
    <2> QED BY <2>1, <1>5 DEF Straight
  <1>11. Marked(n.cell, u, q)
    <2>1. ASSUME NEW i \in Cells, i # q[m]
          PROVE  n.cell[i] = IF \E k \in 1 .. m : u[k] = "letter" /\ q[k - 1] = i
                             THEN "letter" ELSE "blank"
      <3>0. \A k \in 1 .. m : k - 1 \in 0 .. m /\ u[k] = t[k] /\ q[k - 1] = p[k - 1] /\ k \in 1 .. m + 1
        BY <1>5, <1>7
      <3>1. CASE i = p[m + 1]
        <4>1. n.cell[i] = "blank"
          BY <3>1, <1>3
        <4>2. ASSUME NEW k \in 1 .. m PROVE q[k - 1] # i
          <5>1. k - 1 \in 0 .. m /\ q[k - 1] = p[k - 1]
            BY <3>0
          <5> QED BY <5>1, <3>1, <1>8
        <4> QED BY <4>1, <4>2
      <3>2. CASE i # p[m + 1]
        <4>1. n.cell[i] = s.cell[i]
          BY <3>2, <1>3
        <4>2. s.cell[i] = IF \E k \in 1 .. m + 1 : t[k] = "letter" /\ p[k - 1] = i
                          THEN "letter" ELSE "blank"
          BY <3>2, <1>1, <1>3 DEF Marked
        <4>3. (\E k \in 1 .. m + 1 : t[k] = "letter" /\ p[k - 1] = i)
                <=> (\E k \in 1 .. m : u[k] = "letter" /\ q[k - 1] = i)
          <5>1. \A k \in 1 .. m + 1 : k \in 1 .. m \/ k - 1 = m
            OBVIOUS
          <5>2. p[m] # i
            BY <2>1, <1>7
          <5> QED BY <3>0, <5>1, <5>2
        <4> QED BY <4>1, <4>2, <4>3
      <3> QED BY <3>1, <3>2
    <2> QED BY <2>1, <1>5 DEF Marked
  <1>12. Exits(n.full, n.prev, u, q)
    <2>1. ASSUME NEW r \in Rows, NEW k \in 1 .. m, q[k] = Edge(r + 1)
          PROVE  IF u[k] = "enter" THEN ~n.full[r] /\ q[k - 1] = Edge(r) + n.prev[r] ELSE n.full[r]
      <3>1. /\ k \in 0 .. m /\ k - 1 \in 0 .. m /\ k \in 1 .. Len(t)
            /\ r \in Nat /\ r + 1 \in Nat
        BY <1>3 DEF Rows
      <3>2. u[k] = t[k] /\ q[k] = p[k] /\ q[k - 1] = p[k - 1] /\ p[k] <= p[m]
        BY <3>1, <1>5, <1>7, <1>9
      <3>3. r < n.y
        <4>1. Edge(r + 1) <= Edge(n.y) + n.x
          BY <3>2, <2>1, <1>3
        <4>2. ~(n.y < r + 1)
          <5> SUFFICES ASSUME n.y < r + 1 PROVE FALSE
            OBVIOUS
          <5>1. Edge(n.y) + NUM_COLS <= Edge(r + 1) /\ Edge(n.y) \in Nat /\ Edge(r + 1) \in Nat
            BY <3>1, <1>2, EdgeFacts
          <5> QED BY <4>1, <5>1, <1>2, ConsoleAssumption
        <4> QED BY <4>2, <3>1, <1>2
      <3>4. IF t[k] = "enter" THEN ~s.full[r] /\ p[k - 1] = Edge(r) + s.prev[r] ELSE s.full[r]
        <4>1. p[k] = Edge(r + 1) /\ k \in 1 .. Len(t)
          BY <3>1, <3>2, <2>1
        <4> QED BY <4>1, <1>1 DEF Exits
      <3> QED BY <3>2, <3>3, <3>4 DEF Kept
    <2> QED BY <2>1, <1>5 DEF Exits
  <1>13. Remembers(n.buf, u)
    <2>2. PICK b \in Nat : b = Len(s.buf) - 1 /\ Len(s.buf) = b + 1
      <3>1. PICK d \in Seq(Chars) : d = s.buf
        BY <1>2
      <3>2. Len(d) \in Nat /\ Len(d) - 1 \in Nat
        BY <3>1
      <3> QED BY <3>1, <3>2
    <2>3. Len(n.buf) = b /\ \A i \in 1 .. b : n.buf[i] = s.buf[i]
      BY <2>2, <1>2 DEF Front
    <2>4. ASSUME NEW j \in 0 .. m - 1, j < b
          PROVE  n.buf[b - j] = u[m - j]
      <3>0. /\ j + 1 \in 0 .. m + 1 - 1 /\ j + 1 < b + 1 /\ b - j \in 1 .. b /\ m - j \in 1 .. m
            /\ b + 1 - (j + 1) = b - j /\ m + 1 - (j + 1) = m - j
        BY <2>4
      <3>1. /\ j + 1 \in 0 .. Len(t) - 1 /\ j + 1 < Len(s.buf) /\ b - j \in 1 .. b /\ m - j \in 1 .. m
            /\ b + 1 - (j + 1) = b - j /\ m + 1 - (j + 1) = m - j
        <4>1. j + 1 \in 0 .. Len(t) - 1
          BY <3>0, <1>3
        <4>2. j + 1 < Len(s.buf)
          BY <3>0, <2>2
        <4> QED BY <4>1, <4>2, <3>0
      <3>2. s.buf[Len(s.buf) - (j + 1)] = t[Len(t) - (j + 1)]
        BY <3>1, <1>1 DEF Remembers
      <3>3. s.buf[b - j] = t[m - j]
        BY <3>1, <3>2, <2>2, <1>3
      <3> QED BY <3>1, <3>3, <2>3, <1>5
    <2> QED BY <2>3, <2>4, <1>5 DEF Remembers
  <1>14. Len(n.buf) <= NUM_COLS * NUM_ROWS
    <2>1. PICK z \in Nat : z = NUM_COLS * NUM_ROWS
      BY ConsoleAssumption
    <2>2. Len(n.buf) = Len(s.buf) - 1 /\ Len(s.buf) \in Nat
      BY <1>2 DEF Front
    <2> QED BY <2>1, <2>2, <1>1
  <1>15. q[Len(u)] = Edge(n.y) + n.x
    BY <1>3, <1>5, <1>7
  <1> QED BY <1>4, <1>5, <1>6, <1>10, <1>11, <1>12, <1>13, <1>14, <1>15 DEF Shows

-----------------------------------------------------------------------------
(* The operations of putc(), on a record of its variables.                  *)

(* A row and a column are a cell, and only the rows of the screen are on it.*)
LEMMA InCells ==
  /\ \A y \in Rows, x \in 0 .. NUM_COLS - 1 : Edge(y) + x \in Cells
  /\ \A y \in Nat, x \in 0 .. NUM_COLS - 1 : Edge(y) + x < NUM_COLS * NUM_ROWS <=> y \in Rows
  <1>0. NUM_COLS \in Nat /\ NUM_ROWS \in Nat /\ NUM_COLS * NUM_ROWS = Edge(NUM_ROWS)
        /\ NUM_ROWS * NUM_COLS = Edge(NUM_ROWS) /\ Edge(NUM_ROWS) \in Nat
    BY ConsoleAssumption DEF Edge
  <1>1. ASSUME NEW y \in Nat, NEW x \in 0 .. NUM_COLS - 1
        PROVE  Edge(y) + x \in Nat /\ (Edge(y) + x < Edge(NUM_ROWS) <=> y < NUM_ROWS)
    <2>1. Edge(y) \in Nat
      BY EdgeFacts
    <2>2. y < NUM_ROWS => Edge(y) + NUM_COLS <= Edge(NUM_ROWS)
      BY <1>0, EdgeFacts
    <2>3. NUM_ROWS < y => Edge(NUM_ROWS) + NUM_COLS <= Edge(y)
      BY <1>0, EdgeFacts
    <2> QED BY <1>0, <2>1, <2>2, <2>3
  <1>2. \A y \in Nat : y \in Rows <=> y < NUM_ROWS
    BY <1>0 DEF Rows
  <1>3. \A y \in Rows : y \in Nat
    BY DEF Rows
  <1> QED BY <1>0, <1>1, <1>2, <1>3 DEF Cells

(* Draw changes a cell.                                                     *)
LEMMA DrawIs ==
  ASSUME NEW s \in Screens, s.y \in Rows, NEW g \in Glyphs, NEW n, n = Draw(s, g)
  PROVE  /\ n \in Screens /\ n.x = s.x /\ n.y = s.y /\ n.full = s.full /\ n.prev = s.prev
         /\ n.buf = s.buf
         /\ Edge(s.y) + s.x \in Cells /\ n.cell[Edge(s.y) + s.x] = g
         /\ \A i \in Cells : i # Edge(s.y) + s.x => n.cell[i] = s.cell[i]
  <1>1. Edge(s.y) + s.x \in Cells
    BY InCells DEF Screens
  <1>2. n = [s EXCEPT !.cell[Edge(s.y) + s.x] = g]
    BY DEF Draw, Edge
  <1> QED BY <1>1, <1>2 DEF Screens

(* Store and Forget change display_buf.                                     *)
LEMMA StoreIs ==
  ASSUME NEW s \in Screens, NEW c \in Chars, NEW n, n = Store(s, c)
  PROVE  /\ n \in Screens /\ n.x = s.x /\ n.y = s.y /\ n.full = s.full /\ n.prev = s.prev
         /\ n.cell = s.cell /\ n.buf = Append(s.buf, c)
  <1>1. PICK b \in Seq(Chars) : b = s.buf
    BY DEF Screens
  <1>2. Append(b, c) \in Seq(Chars)
    BY <1>1
  <1> QED BY <1>1, <1>2 DEF Store, Screens

(* ... where there is something to forget.                                  *)
LEMMA ForgetIs ==
  ASSUME NEW s \in Screens, s.buf # <<>>, NEW n, n = Forget(s)
  PROVE  /\ n \in Screens /\ n.x = s.x /\ n.y = s.y /\ n.full = s.full /\ n.prev = s.prev
         /\ n.cell = s.cell /\ n.buf = Front(s.buf)
  <1>1. PICK b \in Seq(Chars) : b = s.buf
    BY DEF Screens
  <1>2. Front(b) \in Seq(Chars)
    BY <1>1 DEF Front
  <1> QED BY <1>1, <1>2 DEF Forget, Screens

(* Scroll leaves the cursor where it is.                                    *)
LEMMA ScrollIs ==
  ASSUME NEW s \in Screens, NEW n, n = Scroll(s)
  PROVE  /\ n \in Screens /\ n.x = s.x /\ n.y = s.y /\ n.buf = s.buf
         /\ \A i \in Cells : n.cell[i] = IF i + NUM_COLS \in Cells THEN s.cell[i + NUM_COLS] ELSE "blank"
         /\ \A r \in Rows : r + 1 \in Rows => n.full[r] = s.full[r + 1] /\ n.prev[r] = s.prev[r + 1]
         /\ \A r \in Rows : r + 1 \notin Rows => n.full[r] = s.full[r] /\ n.prev[r] = s.prev[r]
  <1>1. /\ n.x = s.x /\ n.y = s.y /\ n.buf = s.buf
        /\ n.cell = [i \in Cells |-> IF i + NUM_COLS \in Cells THEN s.cell[i + NUM_COLS] ELSE "blank"]
        /\ n.full = [y \in Rows |-> IF y + 1 \in Rows THEN s.full[y + 1] ELSE s.full[y]]
        /\ n.prev = [y \in Rows |-> IF y + 1 \in Rows THEN s.prev[y + 1] ELSE s.prev[y]]
    BY DEF Scroll, Screens
  <1>2. /\ n.cell \in [Cells -> Glyphs] /\ n.full \in [Rows -> BOOLEAN]
        /\ n.prev \in [Rows -> 0 .. NUM_COLS - 1]
    <2>1. /\ \A i \in Cells : s.cell[i] \in Glyphs
          /\ \A r \in Rows : s.full[r] \in BOOLEAN /\ s.prev[r] \in 0 .. NUM_COLS - 1
      BY DEF Screens
    <2>2. \A i \in Cells : n.cell[i] \in Glyphs
      <3>1. ASSUME NEW i \in Cells PROVE n.cell[i] \in Glyphs
        <4>1. n.cell[i] = IF i + NUM_COLS \in Cells THEN s.cell[i + NUM_COLS] ELSE "blank"
          BY <1>1
        <4>2. CASE i + NUM_COLS \in Cells
          BY <4>1, <4>2, <2>1
        <4>3. CASE i + NUM_COLS \notin Cells
          BY <4>1, <4>3 DEF Glyphs
        <4> QED BY <4>2, <4>3
      <3> QED BY <3>1
    <2>3. \A r \in Rows : n.full[r] \in BOOLEAN
      BY <2>1, <1>1, Zenon
    <2>4. \A r \in Rows : n.prev[r] \in 0 .. NUM_COLS - 1
      BY <2>1, <1>1
    <2> QED BY <2>2, <2>3, <2>4, <1>1
  <1>3. n \in Screens
    BY <1>1, <1>2 DEF Scroll, Screens
  <1> QED BY <1>1, <1>3

(* What a scroll of a screen that has left its last row makes of it.         *)
LEMMA ShownIs ==
  ASSUME NEW t \in Seq(Chars), NEW n, Shows(n, t, Starts(t)), NEW z,
         (n.y \in Rows /\ z = n) \/ MovedUp(n, z)
  PROVE  Shows(z, Shown(t), Starts(Shown(t))) /\ z.y \in Rows
  <1>1. CursorOf(t) = Edge(n.y) + n.x
    BY DEF Shows, CursorOf
  <1>2. n.x \in 0 .. NUM_COLS - 1 /\ n.y \in Nat
    BY DEF Shows, Screens
  <1>3. CursorOf(t) < NUM_COLS * NUM_ROWS <=> n.y \in Rows
    BY <1>1, <1>2, InCells
  <1>4. CASE n.y \in Rows /\ z = n
    <2>1. Shown(t) = t
      BY <1>3, <1>4 DEF Shown
    <2> QED BY <2>1, <1>4
  <1>5. CASE MovedUp(n, z)
    <2>1. n.y \notin Rows /\ z.y \in Rows
      BY <1>5, ConsoleAssumption DEF MovedUp, Rows
    <2>2. Shown(t) = Below(t)
      BY <2>1, <1>3 DEF Shown
    <2>3. Shows(z, Below(t), Starts(Below(t)))
      BY <1>5, Scrolled
    <2> QED BY <2>1, <2>2, <2>3
  <1> QED BY <1>4, <1>5

(* The assignments of putc() to the cursor and to the memories of a row.     *)
Moved(s, x, y)   == [s EXCEPT !.x = x, !.y = y]
Flagged(s, r)    == [s EXCEPT !.full[r] = TRUE]
Unflagged(s, r)  == [s EXCEPT !.full[r] = FALSE]
LeftAt(s, r, x)  == [s EXCEPT !.prev[r] = x]

(* What they change, and that they keep the variables in their ranges.      *)
LEMMA MovedIs ==
  ASSUME NEW s \in Screens, NEW x \in 0 .. NUM_COLS - 1, NEW y \in Nat, NEW n, n = Moved(s, x, y)
  PROVE  /\ n \in Screens /\ n.x = x /\ n.y = y /\ n.full = s.full /\ n.prev = s.prev
         /\ n.buf = s.buf /\ n.cell = s.cell
  BY DEF Screens, Moved

(* line_is_full, set.                                                       *)
LEMMA FlaggedIs ==
  ASSUME NEW s \in Screens, NEW r \in Rows, NEW n, n = Flagged(s, r)
  PROVE  /\ n \in Screens /\ n.x = s.x /\ n.y = s.y /\ n.prev = s.prev
         /\ n.buf = s.buf /\ n.cell = s.cell
         /\ n.full[r] /\ \A q \in Rows : q # r => n.full[q] = s.full[q]
  <1>1. [s.full EXCEPT ![r] = TRUE] \in [Rows -> BOOLEAN]
    BY Zenon DEF Screens
  <1>2. n.full = [s.full EXCEPT ![r] = TRUE] /\ s.full \in [Rows -> BOOLEAN]
    BY DEF Screens, Flagged
  <1>3. /\ n.x = s.x /\ n.y = s.y /\ n.prev = s.prev /\ n.buf = s.buf /\ n.cell = s.cell
    BY DEF Screens, Flagged
  <1>4. n.full[r] /\ \A q \in Rows : q # r => n.full[q] = s.full[q]
    BY <1>2, Zenon
  <1>5. n \in Screens
    BY <1>1 DEF Screens, Flagged
  <1> QED BY <1>3, <1>4, <1>5

(* ... and reset.                                                           *)
LEMMA UnflaggedIs ==
  ASSUME NEW s \in Screens, NEW r \in Rows, NEW n, n = Unflagged(s, r)
  PROVE  /\ n \in Screens /\ n.x = s.x /\ n.y = s.y /\ n.prev = s.prev
         /\ n.buf = s.buf /\ n.cell = s.cell
         /\ ~n.full[r] /\ \A q \in Rows : q # r => n.full[q] = s.full[q]
  <1>1. [s.full EXCEPT ![r] = FALSE] \in [Rows -> BOOLEAN]
    BY Zenon DEF Screens
  <1>2. n.full = [s.full EXCEPT ![r] = FALSE] /\ s.full \in [Rows -> BOOLEAN]
    BY DEF Screens, Unflagged
  <1>3. /\ n.x = s.x /\ n.y = s.y /\ n.prev = s.prev /\ n.buf = s.buf /\ n.cell = s.cell
    BY DEF Screens, Unflagged
  <1>4. ~n.full[r] /\ \A q \in Rows : q # r => n.full[q] = s.full[q]
    BY <1>2, Zenon
  <1>5. n \in Screens
    BY <1>1 DEF Screens, Unflagged
  <1> QED BY <1>3, <1>4, <1>5

(* prev_screen_x.                                                           *)
LEMMA LeftAtIs ==
  ASSUME NEW s \in Screens, NEW r \in Rows, NEW x \in 0 .. NUM_COLS - 1, NEW n, n = LeftAt(s, r, x)
  PROVE  /\ n \in Screens /\ n.x = s.x /\ n.y = s.y /\ n.full = s.full
         /\ n.buf = s.buf /\ n.cell = s.cell
         /\ n.prev[r] = x /\ \A q \in Rows : q # r => n.prev[q] = s.prev[q]
  <1>1. [s.prev EXCEPT ![r] = x] \in [Rows -> 0 .. NUM_COLS - 1]
    BY DEF Screens
  <1>2. n.prev = [s.prev EXCEPT ![r] = x] /\ s.prev \in [Rows -> 0 .. NUM_COLS - 1]
    BY DEF Screens, LeftAt
  <1>3. /\ n.x = s.x /\ n.y = s.y /\ n.full = s.full /\ n.buf = s.buf /\ n.cell = s.cell
    BY DEF Screens, LeftAt
  <1>4. n.prev[r] = x /\ \A q \in Rows : q # r => n.prev[q] = s.prev[q]
    BY <1>2
  <1>5. n \in Screens
    BY <1>1 DEF Screens, LeftAt
  <1> QED BY <1>3, <1>4, <1>5

(* A letter is drawn and stored; then the cursor goes on, or to the next row,*)
(* or everything moves up.                                                 *)
LEMMA LetterIs ==
  ASSUME NEW s \in Screens, s.y \in Rows, NEW d, d \in Screens, d.x = s.x, d.y = s.y,
         d = Store(Draw(s, "letter"), "letter")
  PROVE  /\ s.x + 1 < NUM_COLS => Letter(s) = Moved(d, s.x + 1, s.y)
         /\ s.x + 1 = NUM_COLS /\ s.y < NUM_ROWS - 1 =>
              Letter(s) = Moved(Flagged(d, s.y), 0, s.y + 1)
         /\ s.x + 1 = NUM_COLS /\ s.y = NUM_ROWS - 1 =>
              Letter(s) = Flagged(Scroll(Moved(d, 0, s.y)), NUM_ROWS - 2)
  <1>1. PICK n : n = [d EXCEPT !.x = @ + 1]
    OBVIOUS
  <1>2. /\ n.x = s.x + 1 /\ n.y = s.y /\ n.x \in Nat /\ s.y \in Nat /\ NUM_COLS \in Nat /\ NUM_ROWS \in Nat
    BY <1>1, ConsoleAssumption DEF Screens
  <1>3. Letter(s) = (CASE n.x < NUM_COLS -> n
          [] n.x = NUM_COLS /\ s.y < NUM_ROWS - 1 -> [n EXCEPT !.full[s.y] = TRUE, !.y = @ + 1, !.x = 0]
          [] n.x = NUM_COLS /\ s.y = NUM_ROWS - 1 ->
               [Scroll([n EXCEPT !.x = 0]) EXCEPT !.full[NUM_ROWS - 2] = TRUE])
    BY <1>1 DEF Letter
  <1>4. s.x + 1 < NUM_COLS => Letter(s) = n
    BY <1>2, <1>3
  <1>5. n = Moved(d, s.x + 1, s.y)
    BY <1>1 DEF Moved, Screens
  <1>6. s.x + 1 = NUM_COLS /\ s.y < NUM_ROWS - 1 =>
          Letter(s) = [n EXCEPT !.full[s.y] = TRUE, !.y = @ + 1, !.x = 0]
    BY <1>2, <1>3
  <1>7. [n EXCEPT !.full[s.y] = TRUE, !.y = @ + 1, !.x = 0] = Moved(Flagged(d, s.y), 0, s.y + 1)
    BY <1>1 DEF Moved, Flagged, Screens
  <1>8. s.x + 1 = NUM_COLS /\ s.y = NUM_ROWS - 1 =>
          Letter(s) = [Scroll([n EXCEPT !.x = 0]) EXCEPT !.full[NUM_ROWS - 2] = TRUE]
    BY <1>2, <1>3
  <1>9. [n EXCEPT !.x = 0] = Moved(d, 0, s.y)
    BY <1>1 DEF Moved, Screens
  <1> QED BY <1>4, <1>5, <1>6, <1>7, <1>8, <1>9 DEF Flagged

(* The cursor of a screen that shows a text.                                *)
LEMMA CursorFacts ==
  ASSUME NEW s, NEW t, NEW p, Shows(s, t, p), s.y \in Rows
  PROVE  /\ s \in Screens /\ t \in Seq(Chars) /\ IsStarts(t, p) /\ p[Len(t)] = Edge(s.y) + s.x
         /\ s.x \in 0 .. NUM_COLS - 1 /\ s.x \in Nat /\ s.y \in Nat /\ p[Len(t)] \in Nat
         /\ p[Len(t)] \in Cells /\ Edge(s.y) \in Nat /\ Edge(s.y + 1) = Edge(s.y) + NUM_COLS
         /\ Edge(s.y + 1) \in Nat /\ ~s.full[s.y] /\ \A r \in Rows : r > s.y => ~s.full[r]
  <1>1. /\ s \in Screens /\ t \in Seq(Chars) /\ IsStarts(t, p) /\ p[Len(t)] = Edge(s.y) + s.x
        /\ \A r \in Rows : r >= s.y => ~s.full[r]
    BY DEF Shows
  <1>2. s.x \in 0 .. NUM_COLS - 1 /\ s.y \in Nat /\ s.x \in Nat /\ NUM_COLS \in Nat
    BY <1>1, ConsoleAssumption DEF Screens
  <1>3. Edge(s.y) \in Nat /\ Edge(s.y + 1) = Edge(s.y) + NUM_COLS
    BY <1>2, EdgeFacts
  <1>4. p[Len(t)] \in Cells
    BY <1>1, <1>2, InCells
  <1>5. ~s.full[s.y] /\ \A r \in Rows : r > s.y => ~s.full[r]
    BY <1>1, <1>2 DEF Rows
  <1> QED BY <1>1, <1>2, <1>3, <1>4, <1>5

(* A row has one beginning.                                                 *)
LEMMA SameEdge ==
  ASSUME NEW r \in Nat, NEW q \in Nat, NEW x \in 0 .. NUM_COLS - 1, Edge(r) + x = Edge(q)
  PROVE  r = q /\ x = 0
  <1>1. Edge(q) \in Nat /\ 0 \in 0 .. NUM_COLS - 1
    BY EdgeFacts, ConsoleAssumption
  <1>2. Edge(r) + x = Edge(q) + 0
    BY <1>1
  <1> QED BY <1>1, <1>2, RowUnique

(* A scroll of the screen b, which is n before it has left its last row, but *)
(* for its cursor and for the flag of the last row, which is set a row up.  *)
LEMMA ScrollMoves ==
  ASSUME NEW b \in Screens, b.x = 0, b.y = NUM_ROWS - 1, ~b.full[NUM_ROWS - 1],
         NEW n \in Screens, n.x = 0, n.y = NUM_ROWS, n.cell = b.cell, n.prev = b.prev, n.buf = b.buf,
         \A r \in Rows : r # NUM_ROWS - 1 => n.full[r] = b.full[r],
         NEW z, \/ ~n.full[NUM_ROWS - 1] /\ z = Scroll(b)
                \/ n.full[NUM_ROWS - 1] /\ z = Flagged(Scroll(b), NUM_ROWS - 2)
  PROVE  MovedUp(n, z)
  <1>0. /\ NUM_ROWS - 2 \in Rows /\ NUM_ROWS - 2 + 1 = NUM_ROWS - 1 /\ NUM_ROWS - 1 \in Rows
        /\ NUM_ROWS - 1 + 1 \notin Rows /\ NUM_ROWS - 1 # NUM_ROWS - 2
        /\ \A r \in Rows : r + 1 = NUM_ROWS - 1 => r = NUM_ROWS - 2
    BY ConsoleAssumption DEF Rows
  <1>1. PICK w : w = Scroll(b)
    OBVIOUS
  <1>2. /\ w \in Screens /\ w.x = 0 /\ w.y = NUM_ROWS - 1 /\ w.buf = b.buf
        /\ \A i \in Cells : w.cell[i] = IF i + NUM_COLS \in Cells THEN b.cell[i + NUM_COLS] ELSE "blank"
        /\ \A r \in Rows : r + 1 \in Rows => w.full[r] = b.full[r + 1] /\ w.prev[r] = b.prev[r + 1]
        /\ \A r \in Rows : r + 1 \notin Rows => w.full[r] = b.full[r]
    BY <1>1, ScrollIs
  <1>3. ~w.full[NUM_ROWS - 1]
    BY <1>0, <1>2
  <1>4. CASE ~n.full[NUM_ROWS - 1] /\ z = Scroll(b)
    <2>1. ASSUME NEW r \in Rows, r + 1 \in Rows
          PROVE  w.full[r] = n.full[r + 1]
      <3>1. w.full[r] = b.full[r + 1]
        BY <1>2, <2>1
      <3>2. CASE r + 1 = NUM_ROWS - 1
        <4>1. b.full[r + 1] = FALSE /\ n.full[r + 1] = FALSE
          BY <3>2, <1>4, <1>0 DEF Screens
        <4> QED BY <4>1, <3>1
      <3>3. CASE r + 1 # NUM_ROWS - 1
        BY <3>1, <3>3, <2>1
      <3> QED BY <3>2, <3>3
    <2> QED BY <2>1, <1>1, <1>2, <1>3, <1>4 DEF MovedUp
  <1>5. CASE n.full[NUM_ROWS - 1] /\ z = Flagged(Scroll(b), NUM_ROWS - 2)
    <2>1. /\ z \in Screens /\ z.x = w.x /\ z.y = w.y /\ z.prev = w.prev /\ z.buf = w.buf
          /\ z.cell = w.cell /\ z.full[NUM_ROWS - 2]
          /\ \A q \in Rows : q # NUM_ROWS - 2 => z.full[q] = w.full[q]
      <3>1. z = Flagged(w, NUM_ROWS - 2) /\ w \in Screens /\ NUM_ROWS - 2 \in Rows
        BY <1>0, <1>1, <1>2, <1>5
      <3> QED BY <3>1, FlaggedIs
    <2>2. ASSUME NEW r \in Rows, r + 1 \in Rows
          PROVE  z.full[r] = n.full[r + 1]
      <3>1. w.full[r] = b.full[r + 1]
        BY <1>2, <2>2
      <3>2. CASE r + 1 = NUM_ROWS - 1
        <4>1. n.full[r + 1] = TRUE
          BY <3>2, <1>5, <1>0 DEF Screens
        <4>2. z.full[r] = TRUE
          BY <3>2, <2>1, <1>0 DEF Screens
        <4> QED BY <4>1, <4>2
      <3>3. CASE r + 1 # NUM_ROWS - 1
        <4>1. r # NUM_ROWS - 2
          BY <3>3, <1>0
        <4> QED BY <4>1, <3>1, <3>3, <2>1, <2>2
      <3> QED BY <3>2, <3>3
    <2>3. ~z.full[NUM_ROWS - 1]
      BY <2>1, <1>0, <1>3
    <2>4. z \in Screens /\ z.x = 0 /\ z.y = NUM_ROWS - 1 /\ z.buf = n.buf
      BY <2>1, <1>2
    <2>5. \A i \in Cells : z.cell[i] = IF i + NUM_COLS \in Cells THEN n.cell[i + NUM_COLS] ELSE "blank"
      BY <2>1, <1>2
    <2>6. \A r \in Rows : r + 1 \in Rows => z.prev[r] = n.prev[r + 1]
      BY <2>1, <1>2
    <2> QED BY <2>2, <2>3, <2>4, <2>5, <2>6 DEF MovedUp
  <1> QED BY <1>4, <1>5

(* A letter: what putc() makes of the screen, but for a scroll.              *)
LEMMA LetterShown ==
  ASSUME NEW s, NEW t, NEW p, p = Starts(t), Shows(s, t, p), s.y \in Rows,
         Len(s.buf) < NUM_COLS * NUM_ROWS,
         NEW q, q = Starts(Append(t, "letter"))
  PROVE  \E n : /\ Shows(n, Append(t, "letter"), q)
                /\ (n.y \in Rows /\ Letter(s) = n) \/ MovedUp(n, Letter(s))
  <1>0. /\ s \in Screens /\ t \in Seq(Chars) /\ IsStarts(t, p) /\ p[Len(t)] = Edge(s.y) + s.x
        /\ s.x \in 0 .. NUM_COLS - 1 /\ s.x \in Nat /\ s.y \in Nat /\ p[Len(t)] \in Nat
        /\ p[Len(t)] \in Cells /\ Edge(s.y) \in Nat /\ Edge(s.y + 1) = Edge(s.y) + NUM_COLS
        /\ Edge(s.y + 1) \in Nat /\ ~s.full[s.y] /\ \A r \in Rows : r > s.y => ~s.full[r]
    BY CursorFacts
  <1>1. /\ NUM_COLS \in Nat /\ NUM_ROWS \in Nat /\ NUM_ROWS > 1 /\ NUM_COLS > 1
        /\ \A r \in Rows : r \in Nat /\ r + 1 \in Nat /\ r <= NUM_ROWS - 1
        /\ NUM_ROWS - 1 \in Rows
    BY ConsoleAssumption DEF Rows
  <1>2. After("letter", p[Len(t)]) = Edge(s.y) + s.x + 1
    BY <1>0 DEF After
  <1>3. PICK d : d = Store(Draw(s, "letter"), "letter")
    OBVIOUS
  <1>4. /\ d \in Screens /\ d.x = s.x /\ d.y = s.y /\ d.full = s.full /\ d.prev = s.prev
        /\ d.buf = Append(s.buf, "letter")
        /\ d.cell[p[Len(t)]] = "letter" /\ \A i \in Cells : i # p[Len(t)] => d.cell[i] = s.cell[i]
    <2>0. "letter" \in Chars /\ "letter" \in Glyphs
      BY DEF Chars, Glyphs
    <2>1. PICK e : e = Draw(s, "letter")
      OBVIOUS
    <2>2. /\ e \in Screens /\ e.x = s.x /\ e.y = s.y /\ e.full = s.full /\ e.prev = s.prev
          /\ e.buf = s.buf
          /\ e.cell[p[Len(t)]] = "letter" /\ \A i \in Cells : i # p[Len(t)] => e.cell[i] = s.cell[i]
      BY <2>0, <2>1, <1>0, DrawIs
    <2>3. d = Store(e, "letter")
      BY <2>1, <1>3
    <2>4. /\ d \in Screens /\ d.x = e.x /\ d.y = e.y /\ d.full = e.full /\ d.prev = e.prev
          /\ d.cell = e.cell /\ d.buf = Append(e.buf, "letter")
      BY ONLY <2>0, <2>2, <2>3, StoreIs
    <2>5. d.x = s.x /\ d.y = s.y /\ d.full = s.full /\ d.prev = s.prev
      BY ONLY <2>2, <2>4
    <2>6. d.buf = Append(s.buf, "letter")
      BY ONLY <2>2, <2>4
    <2>7. d.cell[p[Len(t)]] = "letter" /\ \A i \in Cells : i # p[Len(t)] => d.cell[i] = s.cell[i]
      <3>1. d.cell = e.cell
        BY ONLY <2>4
      <3> QED BY ONLY <2>2, <3>1, Zenon
    <2> QED BY ONLY <2>4, <2>5, <2>6, <2>7
  <1>5. CASE s.x + 1 < NUM_COLS
    <2>0. s.x + 1 \in 0 .. NUM_COLS - 1
      <3>1. s.x \in Nat
        BY ONLY <1>0
      <3>2. NUM_COLS \in Nat
        BY ONLY <1>1
      <3> QED BY ONLY <3>1, <3>2, <1>5
    <2>1. PICK n : n = Moved(d, s.x + 1, s.y)
      OBVIOUS
    <2>2. /\ n \in Screens /\ n.x = s.x + 1 /\ n.y = s.y /\ n.full = d.full /\ n.prev = d.prev
          /\ n.buf = d.buf /\ n.cell = d.cell
      <3>1. d \in Screens /\ s.y \in Nat
        BY <1>0, <1>4
      <3> QED BY <3>1, <2>0, <2>1, MovedIs
    <2>3. Letter(s) = n
      BY <2>1, <1>0, <1>3, <1>4, <1>5, LetterIs
    <2>4. Kept(s.full, s.prev, n.full, n.prev, s.y)
      BY <2>2, <1>4 DEF Kept
    <2>5. Leaves(n.full, n.prev, "letter", p[Len(t)])
      <3>1. ASSUME NEW r \in Rows, Edge(s.y) + (s.x + 1) = Edge(r + 1) PROVE FALSE
        <4>1. r + 1 \in Nat
          BY <1>1
        <4>2. s.x + 1 = 0
          BY <4>1, <3>1, <2>0, <1>0, SameEdge
        <4> QED BY <4>2, <1>0
      <3>2. After("letter", p[Len(t)]) = Edge(s.y) + (s.x + 1)
        BY <1>0, <1>2
      <3>3. \A r \in Rows : After("letter", p[Len(t)]) # Edge(r + 1)
        BY <3>1, <3>2
      <3> QED BY ONLY <3>3 DEF Leaves
    <2>6. Shows(n, Append(t, "letter"), q)
      <3>1. After("letter", p[Len(t)]) = Edge(n.y) + n.x
        BY <2>2, <1>0, <1>2
      <3>2. ASSUME NEW r \in Rows, r >= n.y PROVE ~n.full[r]
        <4>1. n.full = s.full /\ n.y = s.y
          BY <2>2, <1>4
        <4>2. r \in Nat /\ s.y \in Nat /\ r >= s.y
          BY ONLY <4>1, <3>2, <1>0, <1>1
        <4>3. r = s.y \/ r > s.y
          BY ONLY <4>2
        <4> QED BY ONLY <4>1, <4>3, <3>2, <1>0
      <3>3. n.buf = Append(s.buf, "letter") /\ "letter" \in Chars
        BY <2>2, <1>4 DEF Chars
      <3>4. /\ p[Len(t)] \in Cells => n.cell[p[Len(t)]] = "letter"
            /\ \A i \in Cells : i # p[Len(t)] => n.cell[i] = s.cell[i]
        BY <2>2, <1>4
      <3> QED BY <3>1, <3>2, <3>3, <3>4, <2>2, <2>4, <2>5, GrownShows
    <2> QED BY <2>2, <2>3, <2>6
  <1>6. CASE ~(s.x + 1 < NUM_COLS)
    <2>0. s.x + 1 = NUM_COLS /\ s.y + 1 \in Nat /\ 0 \in 0 .. NUM_COLS - 1
      <3>1. NUM_COLS - 1 \in Nat /\ 0 \in 0 .. NUM_COLS - 1
        BY <1>1
      <3>2. s.x + 1 = NUM_COLS
        BY <1>0, <1>1, <1>6
      <3> QED BY <3>1, <3>2, <1>0
    <2>1. PICK f : f = Flagged(d, s.y)
      OBVIOUS
    <2>2. /\ f \in Screens /\ f.prev = d.prev /\ f.buf = d.buf /\ f.cell = d.cell
          /\ f.full[s.y] /\ \A r \in Rows : r # s.y => f.full[r] = d.full[r]
      <3>1. d \in Screens
        BY <1>4
      <3> QED BY <3>1, <2>0, <2>1, FlaggedIs
    <2>3. PICK n : n = Moved(f, 0, s.y + 1)
      OBVIOUS
    <2>4. /\ n \in Screens /\ n.x = 0 /\ n.y = s.y + 1 /\ n.full = f.full /\ n.prev = f.prev
          /\ n.buf = f.buf /\ n.cell = f.cell
      BY <2>0, <2>2, <2>3, MovedIs
    <2>5. Kept(s.full, s.prev, n.full, n.prev, s.y)
      <3>1. ASSUME NEW r \in Rows, r < s.y PROVE r # s.y
        BY <3>1, <1>0, <1>1
      <3>2. \A r \in Rows : r # s.y => n.full[r] = s.full[r] /\ n.prev[r] = s.prev[r]
        BY <2>2, <2>4, <1>4
      <3> QED BY ONLY <3>1, <3>2 DEF Kept
    <2>6. After("letter", p[Len(t)]) = Edge(s.y + 1) /\ Edge(s.y + 1) = Edge(n.y) + n.x
      <3>1. Edge(s.y) \in Nat /\ Edge(s.y + 1) = Edge(s.y) + NUM_COLS /\ s.x \in Nat
        BY ONLY <1>0
      <3>2. NUM_COLS \in Nat
        BY ONLY <1>1
      <3>3. Edge(s.y) + s.x + 1 = Edge(s.y) + NUM_COLS
        BY ONLY <3>1, <3>2, <2>0
      <3>4. Edge(s.y + 1) + 0 = Edge(s.y + 1)
        BY ONLY <3>1, <3>2
      <3> QED BY ONLY <3>1, <3>3, <3>4, <2>4, <1>2
    <2>7. Leaves(n.full, n.prev, "letter", p[Len(t)])
      <3>1. ASSUME NEW r \in Rows, Edge(s.y + 1) = Edge(r + 1) PROVE r = s.y
        <4>1. r + 1 \in Nat /\ r \in Nat /\ Edge(s.y + 1) + 0 = Edge(r + 1)
          BY <3>1, <1>0, <1>1
        <4>2. s.y + 1 = r + 1
          BY <4>1, <2>0, SameEdge
        <4> QED BY <4>1, <4>2, <1>0
      <3> QED BY <3>1, <2>2, <2>4, <2>6 DEF Leaves
    <2>8. \A r \in Rows : r >= n.y => ~n.full[r]
      <3>1. ASSUME NEW r \in Rows, r >= n.y PROVE ~n.full[r]
        <4>1. r # s.y /\ r > s.y /\ r >= s.y
          <5>1. r \in Nat /\ s.y \in Nat /\ r >= s.y + 1
            BY ONLY <3>1, <2>4, <1>0, <1>1
          <5> QED BY ONLY <5>1
        <4>2. ~s.full[r] /\ d.full[r] = s.full[r]
          BY <4>1, <1>0, <1>4
        <4>3. f.full[r] = d.full[r] /\ n.full = f.full
          BY <4>1, <2>2, <2>4
        <4> QED BY ONLY <4>2, <4>3
      <3> QED BY <3>1
    <2>9. Shows(n, Append(t, "letter"), q)
      <3>1. n.buf = Append(s.buf, "letter") /\ "letter" \in Chars
        BY <2>2, <2>4, <1>4 DEF Chars
      <3>2. /\ p[Len(t)] \in Cells => n.cell[p[Len(t)]] = "letter"
            /\ \A i \in Cells : i # p[Len(t)] => n.cell[i] = s.cell[i]
        BY <2>2, <2>4, <1>4
      <3>3. After("letter", p[Len(t)]) = Edge(n.y) + n.x
        BY <2>6
      <3> QED BY <3>1, <3>2, <3>3, <2>4, <2>5, <2>7, <2>8, GrownShows
    <2>10. CASE s.y < NUM_ROWS - 1
      <3>1. Letter(s) = n
        BY <2>0, <2>1, <2>3, <2>10, <1>0, <1>3, <1>4, LetterIs
      <3>2. n.y \in Rows
        BY <2>4, <2>10, <1>0, <1>1 DEF Rows
      <3> QED BY <3>1, <3>2, <2>9
    <2>11. CASE ~(s.y < NUM_ROWS - 1)
      <3>0. s.y = NUM_ROWS - 1
        BY <2>11, <1>0, <1>1
      <3>1. PICK b : b = Moved(d, 0, s.y)
        OBVIOUS
      <3>2. b \in Screens /\ b.x = 0 /\ b.y = s.y /\ b.full = d.full /\ b.prev = d.prev
            /\ b.buf = d.buf /\ b.cell = d.cell
        <4>1. d \in Screens /\ s.y \in Nat /\ 0 \in 0 .. NUM_COLS - 1
          BY <1>0, <1>4, <2>0
        <4> QED BY <4>1, <3>1, MovedIs
      <3>3. Letter(s) = Flagged(Scroll(b), NUM_ROWS - 2)
        BY <3>0, <3>1, <2>0, <1>0, <1>3, <1>4, LetterIs
      <3>4. /\ ~b.full[NUM_ROWS - 1] /\ n.full[NUM_ROWS - 1]
            /\ \A r \in Rows : r # NUM_ROWS - 1 => n.full[r] = b.full[r]
        BY <3>0, <3>2, <2>2, <2>4, <1>0, <1>4
      <3>5. n.y = NUM_ROWS /\ n.cell = b.cell /\ n.prev = b.prev /\ n.buf = b.buf
        BY <3>0, <3>2, <2>2, <2>4, <1>1
      <3>6. MovedUp(n, Letter(s))
        BY <3>0, <3>2, <3>3, <3>4, <3>5, <2>4, ScrollMoves
      <3> QED BY <3>6, <2>9
    <2> QED BY <2>10, <2>11
  <1> QED BY <1>5, <1>6

(* An Enter is stored and remembers where its row was left.                  *)
LEMMA EnterIs ==
  ASSUME NEW s \in Screens, s.y \in Rows, NEW d, d \in Screens, d.x = s.x, d.y = s.y,
         d = Store(Draw(s, "blank"), "enter")
  PROVE  /\ s.y = NUM_ROWS - 1 => Enter(s) = Scroll(Moved(LeftAt(d, s.y, s.x), 0, s.y))
         /\ s.y # NUM_ROWS - 1 => Enter(s) = Moved(LeftAt(d, s.y, s.x), 0, s.y + 1)
  <1>1. PICK b : b = [d EXCEPT !.prev[s.y] = s.x, !.x = 0]
    OBVIOUS
  <1>2. Enter(s) = IF s.y = NUM_ROWS - 1 THEN Scroll(b) ELSE [b EXCEPT !.y = @ + 1]
    BY <1>1 DEF Enter
  <1>3. b = Moved(LeftAt(d, s.y, s.x), 0, s.y)
    BY <1>1 DEF Moved, LeftAt, Screens
  <1>4. [b EXCEPT !.y = @ + 1] = Moved(LeftAt(d, s.y, s.x), 0, s.y + 1)
    BY <1>1 DEF Moved, LeftAt, Screens
  <1> QED BY <1>2, <1>3, <1>4

(* An Enter: what putc() makes of the screen, but for a scroll.             *)
LEMMA EnterShown ==
  ASSUME NEW s, NEW t, NEW p, p = Starts(t), Shows(s, t, p), s.y \in Rows,
         Len(s.buf) < NUM_COLS * NUM_ROWS,
         NEW q, q = Starts(Append(t, "enter"))
  PROVE  \E n : /\ Shows(n, Append(t, "enter"), q)
                /\ (n.y \in Rows /\ Enter(s) = n) \/ MovedUp(n, Enter(s))
  <1>0. /\ s \in Screens /\ t \in Seq(Chars) /\ IsStarts(t, p) /\ p[Len(t)] = Edge(s.y) + s.x
        /\ s.x \in 0 .. NUM_COLS - 1 /\ s.x \in Nat /\ s.y \in Nat /\ p[Len(t)] \in Nat
        /\ p[Len(t)] \in Cells /\ Edge(s.y) \in Nat /\ Edge(s.y + 1) = Edge(s.y) + NUM_COLS
        /\ Edge(s.y + 1) \in Nat /\ ~s.full[s.y] /\ \A r \in Rows : r > s.y => ~s.full[r]
    BY CursorFacts
  <1>1. /\ NUM_COLS \in Nat /\ NUM_ROWS \in Nat /\ NUM_ROWS > 1 /\ NUM_COLS > 1
        /\ \A r \in Rows : r \in Nat /\ r + 1 \in Nat /\ r <= NUM_ROWS - 1
        /\ NUM_ROWS - 1 \in Rows
    BY ConsoleAssumption DEF Rows
  <1>2. After("enter", p[Len(t)]) = Edge(s.y + 1)
    <2>1. "enter" \in Chars
      BY DEF Chars
    <2>2. \A r \in Nat, x \in 0 .. NUM_COLS - 1 :
            p[Len(t)] = Edge(r) + x => After("enter", p[Len(t)]) = Edge(r + 1)
      <3>1. p[Len(t)] \in Nat
        BY <1>0
      <3> QED BY <2>1, <3>1, AfterFacts
    <2> QED BY <2>2, <1>0
  <1>3. PICK d : d = Store(Draw(s, "blank"), "enter")
    OBVIOUS
  <1>4. /\ d \in Screens /\ d.x = s.x /\ d.y = s.y /\ d.full = s.full /\ d.prev = s.prev
        /\ d.buf = Append(s.buf, "enter")
        /\ d.cell[p[Len(t)]] = "blank" /\ \A i \in Cells : i # p[Len(t)] => d.cell[i] = s.cell[i]
    <2>0. "enter" \in Chars /\ "blank" \in Glyphs
      BY DEF Chars, Glyphs
    <2>1. PICK e : e = Draw(s, "blank")
      OBVIOUS
    <2>2. /\ e \in Screens /\ e.x = s.x /\ e.y = s.y /\ e.full = s.full /\ e.prev = s.prev
          /\ e.buf = s.buf
          /\ e.cell[p[Len(t)]] = "blank" /\ \A i \in Cells : i # p[Len(t)] => e.cell[i] = s.cell[i]
      BY <2>0, <2>1, <1>0, DrawIs
    <2>3. d = Store(e, "enter")
      BY <2>1, <1>3
    <2>4. /\ d \in Screens /\ d.x = e.x /\ d.y = e.y /\ d.full = e.full /\ d.prev = e.prev
          /\ d.cell = e.cell /\ d.buf = Append(e.buf, "enter")
      BY ONLY <2>0, <2>2, <2>3, StoreIs
    <2>5. d.x = s.x /\ d.y = s.y /\ d.full = s.full /\ d.prev = s.prev
      BY ONLY <2>2, <2>4
    <2>6. d.buf = Append(s.buf, "enter")
      BY ONLY <2>2, <2>4
    <2>7. d.cell[p[Len(t)]] = "blank" /\ \A i \in Cells : i # p[Len(t)] => d.cell[i] = s.cell[i]
      <3>1. d.cell = e.cell
        BY ONLY <2>4
      <3> QED BY ONLY <2>2, <3>1, Zenon
    <2> QED BY ONLY <2>4, <2>5, <2>6, <2>7
  <1>5. 0 \in 0 .. NUM_COLS - 1 /\ s.y + 1 \in Nat
    <2>1. NUM_COLS - 1 \in Nat
      BY <1>1
    <2> QED BY <2>1, <1>0
  <1>6. PICK f : f = LeftAt(d, s.y, s.x)
    OBVIOUS
  <1>7. /\ f \in Screens /\ f.full = d.full /\ f.buf = d.buf /\ f.cell = d.cell
        /\ f.prev[s.y] = s.x /\ \A r \in Rows : r # s.y => f.prev[r] = d.prev[r]
    <2>1. d \in Screens /\ s.x \in 0 .. NUM_COLS - 1
      BY <1>0, <1>4
    <2> QED BY <2>1, <1>6, LeftAtIs
  <1>8. PICK n : n = Moved(f, 0, s.y + 1)
    OBVIOUS
  <1>9. /\ n \in Screens /\ n.x = 0 /\ n.y = s.y + 1 /\ n.full = f.full /\ n.prev = f.prev
        /\ n.buf = f.buf /\ n.cell = f.cell
    <2>1. f \in Screens
      BY <1>7
    <2> QED BY <2>1, <1>5, <1>8, MovedIs
  <1>10. Shows(n, Append(t, "enter"), q)
    <2>1. Kept(s.full, s.prev, n.full, n.prev, s.y)
      BY <1>0, <1>1, <1>4, <1>7, <1>9 DEF Kept
    <2>2. After("enter", p[Len(t)]) = Edge(n.y) + n.x
      BY <1>0, <1>2, <1>9
    <2>3. Leaves(n.full, n.prev, "enter", p[Len(t)])
      <3>1. ASSUME NEW r \in Rows, Edge(s.y + 1) = Edge(r + 1) PROVE r = s.y
        <4>1. r + 1 \in Nat /\ r \in Nat /\ Edge(s.y + 1) + 0 = Edge(r + 1)
          BY <3>1, <1>0, <1>1
        <4>2. s.y + 1 = r + 1
          BY <4>1, <1>5, SameEdge
        <4> QED BY <4>1, <4>2, <1>0
      <3>2. ~n.full[s.y] /\ p[Len(t)] = Edge(s.y) + n.prev[s.y]
        BY <1>0, <1>4, <1>7, <1>9
      <3> QED BY <3>1, <3>2, <1>2 DEF Leaves
    <2>4. \A r \in Rows : r >= n.y => ~n.full[r]
      <3>1. ASSUME NEW r \in Rows, r >= n.y PROVE ~n.full[r]
        <4>1. r > s.y
          BY <3>1, <1>0, <1>1, <1>9
        <4> QED BY <4>1, <1>0, <1>4, <1>7, <1>9
      <3> QED BY <3>1
    <2>5. n.buf = Append(s.buf, "enter") /\ "enter" \in Chars
      BY <1>4, <1>7, <1>9 DEF Chars
    <2>6. /\ p[Len(t)] \in Cells => n.cell[p[Len(t)]] = "blank"
          /\ \A i \in Cells : i # p[Len(t)] => n.cell[i] = s.cell[i]
      BY <1>4, <1>7, <1>9
    <2> QED BY <2>1, <2>2, <2>3, <2>4, <2>5, <2>6, <1>9, GrownShows
  <1>11. CASE s.y # NUM_ROWS - 1
    <2>1. Enter(s) = n
      BY <1>0, <1>3, <1>4, <1>6, <1>8, <1>11, EnterIs
    <2>2. n.y \in Rows
      BY <1>0, <1>1, <1>9, <1>11 DEF Rows
    <2> QED BY <2>1, <2>2, <1>10
  <1>12. CASE s.y = NUM_ROWS - 1
    <2>1. PICK b : b = Moved(f, 0, s.y)
      OBVIOUS
    <2>2. b \in Screens /\ b.x = 0 /\ b.y = s.y /\ b.full = f.full /\ b.prev = f.prev
          /\ b.buf = f.buf /\ b.cell = f.cell
      <3>1. f \in Screens /\ s.y \in Nat /\ 0 \in 0 .. NUM_COLS - 1
        BY <1>0, <1>5, <1>7
      <3> QED BY <3>1, <2>1, MovedIs
    <2>3. Enter(s) = Scroll(b)
      BY <2>1, <1>0, <1>3, <1>4, <1>6, <1>12, EnterIs
    <2>4. /\ ~b.full[NUM_ROWS - 1] /\ ~n.full[NUM_ROWS - 1]
          /\ \A r \in Rows : r # NUM_ROWS - 1 => n.full[r] = b.full[r]
      BY <2>2, <1>0, <1>4, <1>7, <1>9, <1>12
    <2>5. n.y = NUM_ROWS /\ n.cell = b.cell /\ n.prev = b.prev /\ n.buf = b.buf
      BY <2>2, <1>1, <1>9, <1>12
    <2>6. MovedUp(n, Enter(s))
      BY <2>2, <2>3, <2>4, <2>5, <1>9, <1>12, ScrollMoves
    <2> QED BY <2>6, <1>10
  <1> QED BY <1>11, <1>12

(* A Tab with room.                                                         *)
LEMMA TabIs ==
  ASSUME NEW s \in Screens, NEW p, p = Edge(s.y) + s.x, s.x + SPACES_NUM \in 0 .. NUM_COLS - 1,
         NEW n, n = Tab(s)
  PROVE  /\ n \in Screens /\ n.x = s.x + SPACES_NUM /\ n.y = s.y /\ n.full = s.full
         /\ n.prev = s.prev /\ n.buf = Append(s.buf, "tab")
         /\ \A i \in Cells : n.cell[i] = IF i - p \in 0 .. SPACES_NUM - 1 THEN "blank" ELSE s.cell[i]
  <1>1. PICK d : d = Store(s, "tab")
    OBVIOUS
  <1>2. /\ d \in Screens /\ d.x = s.x /\ d.y = s.y /\ d.full = s.full /\ d.prev = s.prev
        /\ d.cell = s.cell /\ d.buf = Append(s.buf, "tab")
    <2>1. "tab" \in Chars
      BY DEF Chars
    <2> QED BY <2>1, <1>1, StoreIs
  <1>3. PICK c : c = [i \in Cells |-> IF i - p \in 0 .. SPACES_NUM - 1 THEN "blank" ELSE s.cell[i]]
    OBVIOUS
  <1>4. c \in [Cells -> Glyphs]
    <2>1. \A i \in Cells : s.cell[i] \in Glyphs
      BY DEF Screens
    <2>2. "blank" \in Glyphs
      BY DEF Glyphs
    <2> QED BY <2>1, <2>2, <1>3
  <1>5. n = [d EXCEPT !.cell = c, !.x = s.x + SPACES_NUM]
    <2>1. n = [d EXCEPT !.cell = [i \in Cells |-> IF i - p \in 0 .. SPACES_NUM - 1 THEN "blank" ELSE @[i]],
                        !.x = @ + SPACES_NUM]
      BY <1>1 DEF Tab, Edge
    <2> QED BY <2>1, <1>2, <1>3 DEF Screens
  <1>6. /\ n \in Screens /\ n.x = s.x + SPACES_NUM /\ n.y = d.y /\ n.full = d.full
        /\ n.prev = d.prev /\ n.buf = d.buf /\ n.cell = c
    <2>1. d \in Screens
      BY <1>2
    <2> QED BY <2>1, <1>4, <1>5 DEF Screens
  <1> QED BY <1>2, <1>3, <1>6

(* A Tab that fits: it is never followed by a scroll.                       *)
LEMMA TabShown ==
  ASSUME NEW s, NEW t, NEW p, p = Starts(t), Shows(s, t, p), s.y \in Rows,
         Len(s.buf) < NUM_COLS * NUM_ROWS, ~NoRoomForTab(s),
         NEW q, q = Starts(Append(t, "tab"))
  PROVE  Shows(Tab(s), Append(t, "tab"), q) /\ Tab(s).y \in Rows
  <1>0. /\ s \in Screens /\ t \in Seq(Chars) /\ IsStarts(t, p) /\ p[Len(t)] = Edge(s.y) + s.x
        /\ s.x \in 0 .. NUM_COLS - 1 /\ s.x \in Nat /\ s.y \in Nat /\ p[Len(t)] \in Nat
        /\ p[Len(t)] \in Cells /\ Edge(s.y) \in Nat /\ Edge(s.y + 1) = Edge(s.y) + NUM_COLS
        /\ Edge(s.y + 1) \in Nat /\ ~s.full[s.y] /\ \A r \in Rows : r > s.y => ~s.full[r]
    BY CursorFacts
  <1>1. /\ NUM_COLS \in Nat /\ SPACES_NUM \in Nat /\ SPACES_NUM > 0
        /\ \A r \in Rows : r \in Nat /\ r + 1 \in Nat
    BY ConsoleAssumption DEF Rows
  <1>2. s.x + SPACES_NUM \in 0 .. NUM_COLS - 1
    BY <1>0, <1>1 DEF NoRoomForTab
  <1>3. After("tab", p[Len(t)]) = Edge(s.y) + (s.x + SPACES_NUM)
    BY <1>0, <1>1 DEF After
  <1>4. PICK n : n = Tab(s)
    OBVIOUS
  <1>5. /\ n \in Screens /\ n.x = s.x + SPACES_NUM /\ n.y = s.y /\ n.full = s.full
        /\ n.prev = s.prev /\ n.buf = Append(s.buf, "tab")
        /\ \A i \in Cells : n.cell[i] = IF i - p[Len(t)] \in 0 .. SPACES_NUM - 1 THEN "blank" ELSE s.cell[i]
    <2>1. s \in Screens /\ p[Len(t)] = Edge(s.y) + s.x
      BY <1>0
    <2> QED BY <2>1, <1>2, <1>4, TabIs
  <1>6. n.cell[p[Len(t)]] = "blank"
    <2>1. p[Len(t)] - p[Len(t)] \in 0 .. SPACES_NUM - 1
      BY <1>0, <1>1
    <2> QED BY <2>1, <1>0, <1>5
  <1>7. ASSUME NEW i \in Cells, i # p[Len(t)]
        PROVE  n.cell[i] = s.cell[i]
    <2>1. CASE i - p[Len(t)] \in 0 .. SPACES_NUM - 1
      <3>1. i > p[Len(t)]
        BY <2>1, <1>0, <1>7 DEF Cells
      <3>2. ~\E k \in 1 .. Len(t) : t[k] = "letter" /\ p[k - 1] = i
        <4>1. \A k \in 1 .. Len(t) : k - 1 \in 0 .. Len(t) - 1
          BY <1>0
        <4>2. \A k \in 0 .. Len(t) - 1 : p[k] < p[Len(t)] /\ p[k] \in Nat
          <5>1. /\ \A j \in 0 .. Len(t) - 1 : p[j] < p[Len(t)]
                /\ \A j \in 0 .. Len(t) : p[j] \in Nat
            BY <1>0, StartsFacts
          <5>2. \A k \in 0 .. Len(t) - 1 : k \in 0 .. Len(t)
            BY <1>0
          <5> QED BY <5>1, <5>2
        <4> QED BY <4>1, <4>2, <3>1, <1>0
      <3>3. s.cell[i] = IF \E k \in 1 .. Len(t) : t[k] = "letter" /\ p[k - 1] = i
                        THEN "letter" ELSE "blank"
        BY <1>7 DEF Shows, Marked
      <3> QED BY <2>1, <3>2, <3>3, <1>5
    <2>2. CASE i - p[Len(t)] \notin 0 .. SPACES_NUM - 1
      BY <2>2, <1>5
    <2> QED BY <2>1, <2>2
  <1>8. Kept(s.full, s.prev, n.full, n.prev, s.y)
    BY <1>5 DEF Kept
  <1>9. Leaves(n.full, n.prev, "tab", p[Len(t)])
    <2>1. ASSUME NEW r \in Rows, Edge(s.y) + (s.x + SPACES_NUM) = Edge(r + 1) PROVE FALSE
      <3>1. r + 1 \in Nat
        BY <1>1
      <3>2. s.x + SPACES_NUM = 0
        BY <3>1, <2>1, <1>0, <1>2, SameEdge
      <3> QED BY <3>2, <1>0, <1>1
    <2> QED BY <2>1, <1>3 DEF Leaves
  <1>10. Shows(n, Append(t, "tab"), q)
    <2>1. After("tab", p[Len(t)]) = Edge(n.y) + n.x
      BY <1>3, <1>5
    <2>2. \A r \in Rows : r >= n.y => ~n.full[r]
      BY <1>0, <1>1, <1>5
    <2>3. n.buf = Append(s.buf, "tab") /\ "tab" \in Chars /\ n \in Screens
      BY <1>5 DEF Chars
    <2>4. p[Len(t)] \in Cells => n.cell[p[Len(t)]] = "blank"
      BY <1>6
    <2>5. s.x + SPACES_NUM < NUM_COLS
      BY <1>1, <1>2
    <2> QED BY <2>1, <2>2, <2>3, <2>4, <2>5, <1>7, <1>8, <1>9, GrownShows
  <1> QED BY <1>4, <1>5, <1>10

(* A screen that shows nothing.                                             *)
LEMMA EmptyShows ==
  ASSUME NEW n \in Screens, n.x = 0, n.y = 0, \A i \in Cells : i # 0 => n.cell[i] = "blank",
         \A r \in Rows : ~n.full[r], Len(n.buf) <= NUM_COLS * NUM_ROWS
  PROVE  Shows(n, <<>>, Starts(<<>>)) /\ n.y \in Rows
  <1>1. PICK t : t = <<>>
    OBVIOUS
  <1>2. t \in Seq(Chars) /\ Len(t) = 0
    BY <1>1
  <1>3. PICK p : p = Starts(t)
    OBVIOUS
  <1>4. IsStarts(t, p)
    BY <1>2, <1>3, StartsIs
  <1>5. p[0] = 0 /\ p[Len(t)] = Edge(n.y) + n.x
    BY <1>2, <1>4, EdgeFacts DEF IsStarts
  <1>6. \A k \in 1 .. Len(t) : FALSE
    BY <1>2
  <1>7. Straight(t, p)
    BY <1>6 DEF Straight
  <1>8. Marked(n.cell, t, p)
    BY <1>2, <1>5 DEF Marked
  <1>9. Exits(n.full, n.prev, t, p)
    BY <1>6 DEF Exits
  <1>10. Remembers(n.buf, t)
    BY <1>2 DEF Remembers
  <1>11. n.y \in Rows
    BY ConsoleAssumption DEF Rows
  <1> QED BY <1>1, <1>2, <1>3, <1>4, <1>5, <1>7, <1>8, <1>9, <1>10, <1>11 DEF Shows

(* The screen needs no letter after its cursor to be known.                  *)
LEMMA CursorDrawn ==
  ASSUME NEW s, NEW t, NEW p, Shows(s, t, p), s.y \in Rows, NEW n, n = Draw(s, "underscore")
  PROVE  Shows(n, t, p) /\ n.y \in Rows /\ n.cell[p[Len(t)]] = "underscore"
  <1>1. s \in Screens /\ p[Len(t)] = Edge(s.y) + s.x /\ "underscore" \in Glyphs
    BY DEF Shows, Glyphs
  <1>2. /\ n \in Screens /\ n.x = s.x /\ n.y = s.y /\ n.full = s.full /\ n.prev = s.prev
        /\ n.buf = s.buf
        /\ n.cell[p[Len(t)]] = "underscore" /\ \A i \in Cells : i # p[Len(t)] => n.cell[i] = s.cell[i]
    <2>1. /\ n \in Screens /\ n.x = s.x /\ n.y = s.y /\ n.full = s.full /\ n.prev = s.prev
          /\ n.buf = s.buf
          /\ n.cell[Edge(s.y) + s.x] = "underscore"
          /\ \A i \in Cells : i # Edge(s.y) + s.x => n.cell[i] = s.cell[i]
      <3>1. s \in Screens /\ "underscore" \in Glyphs
        BY <1>1
      <3> QED BY <3>1, DrawIs
    <2> QED BY <2>1, <1>1
  <1>3. Marked(n.cell, t, p)
    <2>1. Marked(s.cell, t, p)
      BY DEF Shows
    <2> QED BY <2>1, <1>2 DEF Marked
  <1> QED BY <1>2, <1>3 DEF Shows

(* The buffer is cleaned in time, and then remembers nothing.                *)
LEMMA CleanShows ==
  ASSUME NEW s, NEW t, NEW p, Shows(s, t, p), NEW n, n = Clean(s)
  PROVE  /\ Shows(n, t, p) /\ Len(n.buf) < NUM_COLS * NUM_ROWS
         /\ n.x = s.x /\ n.y = s.y /\ n.cell = s.cell
         /\ n.buf # <<>> => n = s
  <1>0. PICK z \in Nat : z = NUM_COLS * NUM_ROWS /\ z > 0
    <2>1. Edge(0) + NUM_COLS <= Edge(NUM_ROWS) /\ Edge(0) = 0
      BY EdgeFacts, ConsoleAssumption
    <2>2. Edge(NUM_ROWS) \in Nat /\ Edge(NUM_ROWS) = NUM_COLS * NUM_ROWS
      BY EdgeFacts, ConsoleAssumption DEF Edge
    <2> QED BY <2>1, <2>2, ConsoleAssumption
  <1>1. s \in Screens /\ t \in Seq(Chars)
    BY DEF Shows
  <1>2. PICK b \in Seq(Chars) : b = s.buf
    BY <1>1 DEF Screens
  <1>3. Len(b) \in Nat /\ Len(b) <= z
    BY <1>0, <1>2 DEF Shows
  <1>4. CASE Len(b) = z
    <2>1. n = [s EXCEPT !.buf = <<>>]
      BY <1>0, <1>2, <1>4 DEF Clean
    <2>2. /\ n \in Screens /\ n.x = s.x /\ n.y = s.y /\ n.full = s.full /\ n.prev = s.prev
          /\ n.cell = s.cell /\ n.buf = <<>>
      <3>1. <<>> \in Seq(Chars)
        OBVIOUS
      <3> QED BY <2>1, <3>1, <1>1 DEF Screens
    <2>3. Remembers(n.buf, t)
      BY <2>2 DEF Remembers
    <2>4. Len(n.buf) = 0
      BY <2>2
    <2> QED BY <2>2, <2>3, <2>4, <1>0 DEF Shows
  <1>5. CASE Len(b) # z
    <2>1. n = s
      BY <1>0, <1>2, <1>5 DEF Clean
    <2>2. Len(b) < z
      BY <1>3, <1>5
    <2> QED BY <2>1, <2>2, <1>0, <1>2
  <1> QED BY <1>4, <1>5

(* A Backspace forgets the last character, and goes back over it by what     *)
(* putc() remembers.                                                       *)
LEMMA BackspaceIs ==
  ASSUME NEW s \in Screens, s.y \in Rows, s.buf # <<>>,
         NEW b, b \in Screens, b.x = s.x, b.y = s.y, b.full = s.full, b.prev = s.prev,
         b = Forget(Draw(s, "blank"))
  PROVE  /\ Last(s.buf) = "tab" => Backspace(s) = Moved(b, s.x - SPACES_NUM, s.y)
         /\ Last(s.buf) # "tab" =>
              /\ s.x > 0 => Backspace(s) = Moved(b, s.x - 1, s.y)
              /\ s.x = 0 /\ s.y = 0 => Backspace(s) = b
              /\ s.x = 0 /\ s.y > 0 /\ s.full[s.y - 1] =>
                   Backspace(s) = Unflagged(Moved(b, NUM_COLS - 1, s.y - 1), s.y - 1)
              /\ s.x = 0 /\ s.y > 0 /\ ~s.full[s.y - 1] =>
                   Backspace(s) = Moved(b, s.prev[s.y - 1], s.y - 1)
  <1>0. s.x \in Nat /\ s.y \in Nat
    BY DEF Screens
  <1>1. Backspace(s) =
          CASE s.buf # <<>> /\ Last(s.buf) = "tab" -> [b EXCEPT !.x = @ - SPACES_NUM]
            [] OTHER ->
               CASE s.x > 0                -> [b EXCEPT !.x = @ - 1]
                 [] s.x = 0 /\ s.y = 0     -> b
                 [] s.x = 0 /\ s.y > 0 /\ s.full[s.y - 1]  -> IntoFullRow(b)
                 [] s.x = 0 /\ s.y > 0 /\ ~s.full[s.y - 1] -> [b EXCEPT !.x = s.prev[s.y - 1], !.y = @ - 1]
    BY DEF Backspace
  <1>2. CASE Last(s.buf) = "tab"
    <2>1. Backspace(s) = [b EXCEPT !.x = @ - SPACES_NUM]
      BY <1>1, <1>2
    <2>2. [b EXCEPT !.x = @ - SPACES_NUM] = Moved(b, s.x - SPACES_NUM, s.y)
      BY DEF Moved, Screens
    <2> QED BY <2>1, <2>2, <1>2
  <1>3. CASE Last(s.buf) # "tab"
    <2>1. Backspace(s) =
            CASE s.x > 0                -> [b EXCEPT !.x = @ - 1]
              [] s.x = 0 /\ s.y = 0     -> b
              [] s.x = 0 /\ s.y > 0 /\ s.full[s.y - 1]  -> IntoFullRow(b)
              [] s.x = 0 /\ s.y > 0 /\ ~s.full[s.y - 1] -> [b EXCEPT !.x = s.prev[s.y - 1], !.y = @ - 1]
      BY <1>1, <1>3
    <2>2. s.x > 0 => Backspace(s) = [b EXCEPT !.x = @ - 1]
      BY <2>1, <1>0
    <2>3. [b EXCEPT !.x = @ - 1] = Moved(b, s.x - 1, s.y)
      BY DEF Moved, Screens
    <2>4. s.x = 0 /\ s.y = 0 => Backspace(s) = b
      BY <2>1, <1>0
    <2>5. s.x = 0 /\ s.y > 0 /\ s.full[s.y - 1] => Backspace(s) = IntoFullRow(b)
      BY <2>1, <1>0
    <2>6. IntoFullRow(b) = Unflagged(Moved(b, NUM_COLS - 1, s.y - 1), s.y - 1)
      BY DEF Moved, Unflagged, IntoFullRow, Screens
    <2>7. s.x = 0 /\ s.y > 0 /\ ~s.full[s.y - 1] =>
            Backspace(s) = [b EXCEPT !.x = s.prev[s.y - 1], !.y = @ - 1]
      <3> SUFFICES ASSUME s.x = 0 /\ s.y > 0 /\ ~s.full[s.y - 1]
                   PROVE  Backspace(s) = [b EXCEPT !.x = s.prev[s.y - 1], !.y = @ - 1]
        OBVIOUS
      <3>1. /\ ~(s.x > 0) /\ ~(s.x = 0 /\ s.y = 0) /\ ~(s.x = 0 /\ s.y > 0 /\ s.full[s.y - 1])
            /\ (s.x = 0 /\ s.y > 0 /\ ~s.full[s.y - 1])
        BY <1>0
      <3> QED BY <2>1, <3>1, Zenon
    <2>8. [b EXCEPT !.x = s.prev[s.y - 1], !.y = @ - 1] = Moved(b, s.prev[s.y - 1], s.y - 1)
      BY DEF Moved, Screens
    <2> QED BY <1>3, <2>2, <2>3, <2>4, <2>5, <2>6, <2>7, <2>8
  <1> QED BY <1>2, <1>3

(* The text after a Backspace.                                              *)
Erased(t) == IF t = <<>> THEN t ELSE Front(t)

(* The text begins where no item is.                                        *)
LEMMA AtTheTop ==
  ASSUME NEW t \in Seq(Chars), NEW p, IsStarts(t, p)
  PROVE  p[Len(t)] = 0 <=> t = <<>>
  <1>1. Len(t) \in Nat /\ p[0] = 0 /\ \A i \in 0 .. Len(t) - 1 : p[i] < p[Len(t)]
    BY StartsFacts
  <1>2. Len(t) # 0 => 0 \in 0 .. Len(t) - 1
    BY <1>1
  <1>3. Len(t) = 0 <=> t = <<>>
    OBVIOUS
  <1> QED BY <1>1, <1>2, <1>3

(* A Backspace: the screen shows the text without its last item.              *)
LEMMA BackspaceShown ==
  ASSUME NEW s, NEW t, NEW p, p = Starts(t), Shows(s, t, p), s.y \in Rows, s.buf # <<>>,
         t = <<>> => Last(s.buf) # "tab",
         NEW q, q = Starts(Erased(t))
  PROVE  Shows(Backspace(s), Erased(t), q) /\ Backspace(s).y \in Rows
  <1>0. /\ s \in Screens /\ t \in Seq(Chars) /\ IsStarts(t, p) /\ p[Len(t)] = Edge(s.y) + s.x
        /\ s.x \in 0 .. NUM_COLS - 1 /\ s.x \in Nat /\ s.y \in Nat /\ p[Len(t)] \in Nat
        /\ p[Len(t)] \in Cells /\ Edge(s.y) \in Nat /\ Edge(s.y + 1) = Edge(s.y) + NUM_COLS
        /\ Edge(s.y + 1) \in Nat /\ ~s.full[s.y] /\ \A r \in Rows : r > s.y => ~s.full[r]
    BY CursorFacts
  <1>1. /\ NUM_COLS \in Nat /\ SPACES_NUM \in Nat /\ SPACES_NUM > 0 /\ NUM_COLS > 1
        /\ \A r \in Rows : r \in Nat /\ r + 1 \in Nat
        /\ NUM_COLS - 1 \in 0 .. NUM_COLS - 1 /\ 0 \in 0 .. NUM_COLS - 1
    <2>1. NUM_COLS \in Nat /\ SPACES_NUM \in Nat /\ SPACES_NUM > 0 /\ NUM_COLS > 1
      BY ConsoleAssumption
    <2>2. NUM_COLS - 1 \in 0 .. NUM_COLS - 1 /\ 0 \in 0 .. NUM_COLS - 1
      BY <2>1
    <2> QED BY <2>1, <2>2 DEF Rows
  <1>2. PICK b : b = Forget(Draw(s, "blank"))
    OBVIOUS
  <1>3. /\ b \in Screens /\ b.x = s.x /\ b.y = s.y /\ b.full = s.full /\ b.prev = s.prev
        /\ b.buf = Front(s.buf)
        /\ b.cell[p[Len(t)]] = "blank" /\ \A i \in Cells : i # p[Len(t)] => b.cell[i] = s.cell[i]
    <2>1. PICK e : e = Draw(s, "blank")
      OBVIOUS
    <2>2. /\ e \in Screens /\ e.x = s.x /\ e.y = s.y /\ e.full = s.full /\ e.prev = s.prev
          /\ e.buf = s.buf
          /\ e.cell[p[Len(t)]] = "blank" /\ \A i \in Cells : i # p[Len(t)] => e.cell[i] = s.cell[i]
      <3>1. "blank" \in Glyphs
        BY DEF Glyphs
      <3> QED BY <3>1, <2>1, <1>0, DrawIs
    <2>3. e \in Screens /\ e.buf # <<>> /\ b = Forget(e)
      BY <2>1, <2>2, <1>2
    <2>4. /\ b \in Screens /\ b.x = e.x /\ b.y = e.y /\ b.full = e.full /\ b.prev = e.prev
          /\ b.cell = e.cell /\ b.buf = Front(e.buf)
      BY <2>3, ForgetIs
    <2> QED BY <2>2, <2>4
  <1>4. PICK z : z = Backspace(s)
    OBVIOUS
  <1>5. /\ Last(s.buf) = "tab" => z = Moved(b, s.x - SPACES_NUM, s.y)
        /\ Last(s.buf) # "tab" =>
             /\ s.x > 0 => z = Moved(b, s.x - 1, s.y)
             /\ s.x = 0 /\ s.y = 0 => z = b
             /\ s.x = 0 /\ s.y > 0 /\ s.full[s.y - 1] =>
                  z = Unflagged(Moved(b, NUM_COLS - 1, s.y - 1), s.y - 1)
             /\ s.x = 0 /\ s.y > 0 /\ ~s.full[s.y - 1] =>
                  z = Moved(b, s.prev[s.y - 1], s.y - 1)
    BY <1>0, <1>2, <1>3, <1>4, BackspaceIs
  <1>6. CASE t = <<>>
    <2>1. Edge(s.y) + s.x = Edge(0)
      <3>1. p[Len(t)] = 0 /\ Edge(0) = 0
        BY <1>0, <1>6, AtTheTop, EdgeFacts
      <3> QED BY <3>1, <1>0
    <2>2. s.y = 0 /\ s.x = 0
      BY <2>1, <1>0, SameEdge
    <2>3. z = b
      BY <2>2, <1>5, <1>6
    <2>4. p[Len(t)] = 0 /\ \A k \in 1 .. Len(t) : FALSE
      <3>1. p[Len(t)] = 0
        BY <1>0, <1>6, AtTheTop
      <3>2. Len(t) = 0
        BY <1>6
      <3> QED BY <3>1, <3>2
    <2>5. \A i \in Cells : i # 0 => b.cell[i] = "blank"
      <3>1. Marked(s.cell, t, p)
        BY DEF Shows
      <3> QED BY <3>1, <2>4, <1>3 DEF Marked
    <2>6. \A r \in Rows : ~b.full[r]
      <3>1. \A r \in Rows : r = s.y \/ r > s.y
        BY <2>2, <1>1
      <3> QED BY <3>1, <1>0, <1>3
    <2>7. Len(b.buf) <= NUM_COLS * NUM_ROWS
      <3>1. PICK c \in Seq(Chars), h \in Nat : c = s.buf /\ h = NUM_COLS * NUM_ROWS
        BY <1>0, ConsoleAssumption DEF Screens
      <3>2. Len(c) <= h /\ Len(c) \in Nat /\ c # <<>>
        BY <3>1 DEF Shows
      <3>3. Len(Front(c)) <= h
        BY <3>1, <3>2 DEF Front
      <3> QED BY <3>1, <3>3, <1>3
    <2>8. Shows(b, <<>>, Starts(<<>>)) /\ b.y \in Rows
      BY <2>2, <2>5, <2>6, <2>7, <1>3, EmptyShows
    <2>9. Erased(t) = <<>>
      BY <1>6 DEF Erased
    <2> QED BY <2>3, <2>8, <2>9, <1>4
  <1>7. CASE t # <<>>
    <2>0. Len(t) # 0 /\ Len(t) \in 1 .. Len(t) /\ Len(t) - 1 \in 0 .. Len(t) /\ Erased(t) = Front(t)
      BY <1>0, <1>7 DEF Erased
    <2>1. PICK c, n : c = t[Len(t)] /\ n = p[Len(t) - 1]
      OBVIOUS
    <2>2. c \in Chars /\ n \in Nat /\ p[Len(t)] = After(c, n) /\ n < p[Len(t)]
      <3>1. /\ \A i \in 0 .. Len(t) : p[i] \in Nat
            /\ \A i \in 1 .. Len(t) : i - 1 \in 0 .. Len(t) - 1 /\ t[i] \in Chars /\ p[i - 1] < p[i]
        BY <1>0, StartsFacts
      <3>2. p[Len(t)] = After(t[Len(t)], p[Len(t) - 1])
        BY <2>0, <1>0 DEF IsStarts
      <3> QED BY <2>0, <2>1, <3>1, <3>2
    <2>3. Last(s.buf) = c
      <3>1. PICK d \in Seq(Chars) : d = s.buf
        BY <1>0 DEF Screens
      <3>2. Len(d) \in Nat /\ Len(d) # 0
        BY <3>1
      <3>3. 0 \in 0 .. Len(t) - 1 /\ 0 < Len(d)
        BY <2>0, <3>2, <1>0
      <3>4. d[Len(d) - 0] = t[Len(t) - 0]
        BY <3>1, <3>3 DEF Shows, Remembers
      <3>5. d[Len(d)] = t[Len(t)]
        BY <3>2, <3>4, <1>0
      <3> QED BY <3>1, <3>5, <2>1 DEF Last
    (* What is left to show of the screen that Backspace makes.             *)
    <2>4. ASSUME z \in Screens, z.buf = b.buf, z.cell = b.cell, n = Edge(z.y) + z.x,
                 z.y \in Rows, Kept(s.full, s.prev, z.full, z.prev, z.y),
                 \A r \in Rows : r >= z.y => ~z.full[r]
          PROVE  Shows(z, Erased(t), q) /\ z.y \in Rows
      <3>1. /\ z.buf = Front(s.buf) /\ p[Len(t) - 1] = Edge(z.y) + z.x
            /\ p[Len(t)] \in Cells => z.cell[p[Len(t)]] = "blank"
            /\ \A i \in Cells : i # p[Len(t)] => z.cell[i] = s.cell[i]
        BY <2>1, <2>4, <1>3
      <3>2. q = Starts(Front(t))
        BY <2>0
      <3>3. Shows(z, Front(t), q)
        BY <2>0, <2>4, <3>1, <3>2, ShrunkShows
      <3> QED BY <3>3, <2>0, <2>4
    <2>5. CASE c = "tab"
      <3>1. z = Moved(b, s.x - SPACES_NUM, s.y)
        BY <2>3, <2>5, <1>5
      <3>2. p[Len(t)] = n + SPACES_NUM
        BY <2>2, <2>5 DEF After
      <3>3. n >= Edge(s.y)
        <4> SUFFICES ASSUME n < Edge(s.y) PROVE FALSE
          BY <2>2, <1>0
        <4>1. p[Len(t)] < Edge(s.y)
          <5>1. Straight(t, p)
            BY DEF Shows
          <5> QED BY <5>1, <2>0, <2>1, <2>5, <1>0 DEF Straight
        <4> QED BY <4>1, <1>0
      <3>4. s.x - SPACES_NUM \in 0 .. NUM_COLS - 1 /\ n = Edge(s.y) + (s.x - SPACES_NUM)
        <4>1. PICK x \in 0 .. NUM_COLS - 1, e \in Nat :
                x = s.x /\ e = Edge(s.y) /\ n + SPACES_NUM = e + x /\ n >= e
          BY <3>2, <3>3, <1>0
        <4>2. x - SPACES_NUM \in 0 .. NUM_COLS - 1 /\ n = e + (x - SPACES_NUM)
          BY <4>1, <2>2, <1>1
        <4> QED BY <4>1, <4>2
      <3>5. /\ z \in Screens /\ z.x = s.x - SPACES_NUM /\ z.y = s.y /\ z.full = b.full
            /\ z.prev = b.prev /\ z.buf = b.buf /\ z.cell = b.cell
        <4>1. b \in Screens /\ s.y \in Nat /\ s.x - SPACES_NUM \in 0 .. NUM_COLS - 1
          BY <3>4, <1>0, <1>3
        <4> QED BY <4>1, <3>1, MovedIs
      <3>6. Kept(s.full, s.prev, z.full, z.prev, z.y)
        BY <3>5, <1>3 DEF Kept
      <3>7. \A r \in Rows : r >= z.y => ~z.full[r]
        BY <3>5, <1>0, <1>1, <1>3
      <3> QED BY <2>4, <3>4, <3>5, <3>6, <3>7, <1>4
    <2>6. CASE c # "tab" /\ s.x > 0
      <3>1. z = Moved(b, s.x - 1, s.y)
        BY <2>3, <2>6, <1>5
      <3>2. c = "letter"
        <4>1. c # "enter"
          <5> SUFFICES ASSUME c = "enter" PROVE FALSE
            OBVIOUS
          <5>1. PICK r \in Nat, x \in 0 .. NUM_COLS - 1 : n = Edge(r) + x
            BY <2>2, RowOf
          <5>2. After(c, n) = Edge(r + 1)
            <6>1. \A k \in Nat, w \in 0 .. NUM_COLS - 1 : n = Edge(k) + w => After(c, n) = Edge(k + 1)
              BY <2>2, AfterFacts
            <6> QED BY <5>1, <6>1
          <5>3. r + 1 \in Nat /\ Edge(s.y) + s.x = Edge(r + 1)
            BY <5>2, <2>2, <1>0
          <5>4. s.x = 0
            BY <5>3, <1>0, SameEdge
          <5> QED BY <5>4, <2>6
        <4> QED BY <4>1, <2>2, <2>6 DEF Chars
      <3>3. p[Len(t)] = n + 1
        BY <3>2, <2>2 DEF After
      <3>4. s.x - 1 \in 0 .. NUM_COLS - 1 /\ n = Edge(s.y) + (s.x - 1)
        <4>1. PICK x \in 0 .. NUM_COLS - 1, e \in Nat : x = s.x /\ e = Edge(s.y) /\ n + 1 = e + x /\ x > 0
          BY <3>3, <2>6, <1>0
        <4>2. x - 1 \in 0 .. NUM_COLS - 1 /\ n = e + (x - 1)
          BY <4>1, <2>2, <1>1
        <4> QED BY <4>1, <4>2
      <3>5. /\ z \in Screens /\ z.x = s.x - 1 /\ z.y = s.y /\ z.full = b.full
            /\ z.prev = b.prev /\ z.buf = b.buf /\ z.cell = b.cell
        <4>1. b \in Screens /\ s.y \in Nat /\ s.x - 1 \in 0 .. NUM_COLS - 1
          BY <3>4, <1>0, <1>3
        <4> QED BY <4>1, <3>1, MovedIs
      <3>6. Kept(s.full, s.prev, z.full, z.prev, z.y)
        BY <3>5, <1>3 DEF Kept
      <3>7. \A r \in Rows : r >= z.y => ~z.full[r]
        BY <3>5, <1>0, <1>1, <1>3
      <3> QED BY <2>4, <3>4, <3>5, <3>6, <3>7, <1>4
    <2>7. CASE c # "tab" /\ s.x = 0
      <3>1. s.y > 0
        <4> SUFFICES ASSUME s.y = 0 PROVE FALSE
          BY <1>0
        <4>1. p[Len(t)] = 0
          BY <2>7, <1>0, EdgeFacts
        <4> QED BY <4>1, <1>0, <1>7, AtTheTop
      <3>2. PICK r \in Rows : r = s.y - 1 /\ r + 1 = s.y
        <4>1. s.y - 1 \in Rows /\ s.y - 1 + 1 = s.y
          <5>1. PICK y \in Rows : y = s.y /\ y > 0
            BY <3>1
          <5>2. y - 1 \in Rows /\ y - 1 + 1 = y
            BY <5>1, ConsoleAssumption DEF Rows
          <5> QED BY <5>1, <5>2
        <4> QED BY <4>1
      <3>3. Edge(r + 1) = Edge(r) + NUM_COLS /\ Edge(r) \in Nat /\ r \in Nat
        BY <1>1, EdgeFacts
      <3>4. p[Len(t)] = Edge(r + 1)
        BY <3>2, <2>7, <1>0
      <3>5. IF c = "enter" THEN ~s.full[r] /\ n = Edge(r) + s.prev[r] ELSE s.full[r]
        <4>1. Exits(s.full, s.prev, t, p)
          BY DEF Shows
        <4> QED BY <4>1, <3>4, <2>0, <2>1 DEF Exits
      <3>6. \A k \in Rows : k >= r => k = r \/ k = s.y \/ k > s.y
        <4>1. PICK y \in Nat : y = s.y /\ r + 1 = y
          BY <3>2, <1>0
        <4>2. ASSUME NEW k \in Rows, k >= r PROVE k = r \/ k = y \/ k > y
          <5>1. k \in Nat /\ r \in Nat
            BY <1>1, <3>3
          <5> QED BY <5>1, <4>1, <4>2
        <4> QED BY <4>1, <4>2
      <3>7. CASE c = "enter"
        <4>1. z = Moved(b, s.prev[r], r)
          BY <3>1, <3>2, <3>5, <3>7, <2>3, <2>7, <1>5
        <4>2. s.prev[r] \in 0 .. NUM_COLS - 1
          BY <1>0 DEF Screens
        <4>3. /\ z \in Screens /\ z.x = s.prev[r] /\ z.y = r /\ z.full = b.full
              /\ z.prev = b.prev /\ z.buf = b.buf /\ z.cell = b.cell
          <5>1. b \in Screens /\ s.prev[r] \in 0 .. NUM_COLS - 1 /\ r \in Nat
            BY <1>3, <3>3, <4>2
          <5>2. PICK v, x : v = r /\ x = s.prev[r]
            OBVIOUS
          <5>3. z = Moved(b, x, v) /\ b \in Screens /\ v \in Nat /\ x \in 0 .. NUM_COLS - 1
            BY <5>1, <5>2, <4>1
          <5>4. /\ z \in Screens /\ z.x = x /\ z.y = v /\ z.full = b.full
                /\ z.prev = b.prev /\ z.buf = b.buf /\ z.cell = b.cell
            BY <5>3, MovedIs
          <5> QED BY <5>2, <5>4
        <4>4. Kept(s.full, s.prev, z.full, z.prev, z.y)
          BY <4>3, <1>3 DEF Kept
        <4>5. \A k \in Rows : k >= z.y => ~z.full[k]
          BY <3>5, <3>6, <3>7, <4>3, <1>0, <1>3
        <4>6. n = Edge(z.y) + z.x
          BY <3>5, <3>7, <4>3
        <4> QED BY <2>4, <4>3, <4>4, <4>5, <4>6, <1>4
      <3>8. CASE c # "enter"
        <4>0. c = "letter" /\ s.full[r]
          BY <3>5, <3>8, <2>2, <2>7 DEF Chars
        <4>1. PICK m : m = Moved(b, NUM_COLS - 1, r)
          OBVIOUS
        <4>2. z = Unflagged(m, r)
          BY <3>1, <3>2, <4>0, <4>1, <2>3, <2>7, <1>5
        <4>3. /\ m \in Screens /\ m.x = NUM_COLS - 1 /\ m.y = r /\ m.full = b.full
              /\ m.prev = b.prev /\ m.buf = b.buf /\ m.cell = b.cell
          <5>1. b \in Screens /\ NUM_COLS - 1 \in 0 .. NUM_COLS - 1 /\ r \in Nat
            BY <1>1, <1>3, <3>3
          <5>2. PICK v, x : v = r /\ x = NUM_COLS - 1
            OBVIOUS
          <5>3. m = Moved(b, x, v) /\ b \in Screens /\ v \in Nat /\ x \in 0 .. NUM_COLS - 1
            BY <5>1, <5>2, <4>1
          <5>4. /\ m \in Screens /\ m.x = x /\ m.y = v /\ m.full = b.full
                /\ m.prev = b.prev /\ m.buf = b.buf /\ m.cell = b.cell
            BY <5>3, MovedIs
          <5> QED BY <5>2, <5>4
        <4>4. /\ z \in Screens /\ z.x = m.x /\ z.y = m.y /\ z.prev = m.prev
              /\ z.buf = m.buf /\ z.cell = m.cell
              /\ ~z.full[r] /\ \A k \in Rows : k # r => z.full[k] = m.full[k]
          <5>1. m \in Screens
            BY <4>3
          <5> QED BY <5>1, <4>2, UnflaggedIs
        <4>5. Kept(s.full, s.prev, z.full, z.prev, z.y)
          <5>1. \A k \in Rows : k < r => k # r
            BY <1>1, <3>3
          <5> QED BY <5>1, <4>3, <4>4, <1>3 DEF Kept
        <4>6. \A k \in Rows : k >= z.y => ~z.full[k]
          <5>1. \A k \in Rows : k # r /\ k >= r => z.full[k] = s.full[k] /\ ~s.full[k]
            BY <3>6, <4>3, <4>4, <1>0, <1>3
          <5> QED BY <5>1, <4>3, <4>4
        <4>7. n = Edge(z.y) + z.x
          <5>1. p[Len(t)] = n + 1
            BY <4>0, <2>2 DEF After
          <5> QED BY <5>1, <3>3, <3>4, <4>3, <4>4, <2>2, <1>1
        <4>8. z.buf = b.buf /\ z.cell = b.cell /\ z.y \in Rows
          BY <4>3, <4>4
        <4> QED BY <2>4, <4>4, <4>5, <4>6, <4>7, <4>8, <1>4
      <3> QED BY <3>7, <3>8
    <2> QED BY <2>5, <2>6, <2>7, <1>0
  <1> QED BY <1>6, <1>7

-----------------------------------------------------------------------------
(* putc() as a whole.                                                       *)
PutOf(s, c) ==
  CASE c = "back" -> Draw(Backspace(s), "underscore")
    [] c = "enter" -> Draw(Enter(s), "underscore")
    [] c = "tab" /\ NoRoomForTab(s) -> s
    [] c = "tab" /\ ~NoRoomForTab(s) -> Draw(Tab(s), "underscore")
    [] c = "letter" -> Draw(Letter(s), "underscore")

(* A screen that shows a text, with the cursor of putc() on it.              *)
ShowsAll(s, t) ==
  /\ Shows(s, t, Starts(t)) /\ s.y \in Rows
  /\ s.cell[CursorOf(t)] \in {"underscore", "blank"}

(* The underscore at the cursor is the last thing putc() does.              *)
LEMMA DrawnShowsAll ==
  ASSUME NEW s, NEW t, Shows(s, t, Starts(t)), s.y \in Rows
  PROVE  ShowsAll(Draw(s, "underscore"), t)
  <1>1. PICK n : n = Draw(s, "underscore")
    OBVIOUS
  <1>2. PICK p : p = Starts(t)
    OBVIOUS
  <1>3. Shows(n, t, p) /\ n.y \in Rows /\ n.cell[p[Len(t)]] = "underscore"
    BY <1>1, <1>2, CursorDrawn
  <1> QED BY <1>1, <1>2, <1>3 DEF ShowsAll, CursorOf

(* The reference and putc() agree on which Tabs fit.                        *)
LEMMA FitsIs ==
  ASSUME NEW s, NEW t, Shows(s, t, Starts(t)), s.y \in Rows
  PROVE  Fits(t, "tab") <=> ~NoRoomForTab(s)
  <1>1. PICK p : p = Starts(t)
    OBVIOUS
  <1>2. /\ p[Len(t)] = Edge(s.y) + s.x /\ s.x \in 0 .. NUM_COLS - 1 /\ s.y \in Nat /\ p[Len(t)] \in Nat
    <2>1. Shows(s, t, p)
      BY <1>1
    <2> QED BY <2>1, CursorFacts
  <1>3. PICK k \in Nat : k = p[Len(t)]
    BY <1>2
  <1>4. /\ k \div NUM_COLS \in Nat /\ k % NUM_COLS \in 0 .. NUM_COLS - 1
        /\ k = Edge(k \div NUM_COLS) + (k % NUM_COLS)
    BY RowOf
  <1>5. PICK r \in Nat, x \in 0 .. NUM_COLS - 1 : r = k \div NUM_COLS /\ x = k % NUM_COLS
    BY <1>4
  <1>6. Edge(r) + x = Edge(s.y) + s.x
    BY <1>2, <1>3, <1>4, <1>5
  <1>7. x = s.x
    BY <1>2, <1>6, RowUnique
  <1>8. CursorOf(t) % NUM_COLS = s.x
    BY <1>1, <1>3, <1>5, <1>7 DEF CursorOf
  <1>9. s.x < NUM_COLS - SPACES_NUM - 1 <=> ~(s.x >= NUM_COLS - SPACES_NUM - 1)
    BY <1>2, ConsoleAssumption
  <1> QED BY <1>8, <1>9 DEF Fits, NoRoomForTab

(* putc() of a character shows the text that the reference says.            *)
LEMMA PutShown ==
  ASSUME NEW s, NEW t, ShowsAll(s, t), Len(s.buf) < NUM_COLS * NUM_ROWS, NEW c \in Chars,
         NEW u, u = IF Fits(t, c) THEN Shown(Append(t, c)) ELSE t
  PROVE  ShowsAll(PutOf(s, c), u)
  <1>1. Shows(s, t, Starts(t)) /\ s.y \in Rows /\ t \in Seq(Chars)
    BY DEF ShowsAll, Shows
  <1>2. PICK w : w = Append(t, c)
    OBVIOUS
  <1>3. w \in Seq(Chars)
    BY <1>1, <1>2
  <1>4. CASE c = "letter"
    <2>1. PICK n : /\ Shows(n, Append(t, "letter"), Starts(Append(t, "letter")))
                   /\ (n.y \in Rows /\ Letter(s) = n) \/ MovedUp(n, Letter(s))
      BY <1>1, LetterShown
    <2>2. Shows(n, w, Starts(w))
      BY <2>1, <1>2, <1>4
    <2>3. Shows(Letter(s), Shown(w), Starts(Shown(w))) /\ Letter(s).y \in Rows
      BY <2>1, <2>2, <1>3, ShownIs
    <2>4. u = Shown(w)
      BY <1>2, <1>4 DEF Fits
    <2>5. ShowsAll(Draw(Letter(s), "underscore"), u)
      BY <2>3, <2>4, DrawnShowsAll
    <2>6. PutOf(s, c) = Draw(Letter(s), "underscore")
      BY <1>4 DEF PutOf
    <2> QED BY <2>5, <2>6
  <1>5. CASE c = "enter"
    <2>1. PICK n : /\ Shows(n, Append(t, "enter"), Starts(Append(t, "enter")))
                   /\ (n.y \in Rows /\ Enter(s) = n) \/ MovedUp(n, Enter(s))
      BY <1>1, EnterShown
    <2>2. Shows(n, w, Starts(w))
      BY <2>1, <1>2, <1>5
    <2>3. Shows(Enter(s), Shown(w), Starts(Shown(w))) /\ Enter(s).y \in Rows
      BY <2>1, <2>2, <1>3, ShownIs
    <2>4. u = Shown(w)
      BY <1>2, <1>5 DEF Fits
    <2>5. ShowsAll(Draw(Enter(s), "underscore"), u)
      BY <2>3, <2>4, DrawnShowsAll
    <2>6. PutOf(s, c) = Draw(Enter(s), "underscore")
      BY <1>5 DEF PutOf
    <2> QED BY <2>5, <2>6
  <1>6. CASE c = "tab" /\ ~NoRoomForTab(s)
    <2>1. Shows(Tab(s), Append(t, "tab"), Starts(Append(t, "tab"))) /\ Tab(s).y \in Rows
      BY <1>1, <1>6, TabShown
    <2>2. Shows(Tab(s), w, Starts(w))
      BY <2>1, <1>2, <1>6
    <2>3. Shows(Tab(s), Shown(w), Starts(Shown(w))) /\ Tab(s).y \in Rows
      BY <2>1, <2>2, <1>3, ShownIs
    <2>4. Fits(t, "tab")
      BY <1>1, <1>6, FitsIs
    <2>5. u = Shown(w)
      BY <2>4, <1>2, <1>6
    <2>6. ShowsAll(Draw(Tab(s), "underscore"), u)
      BY <2>3, <2>5, DrawnShowsAll
    <2>7. PutOf(s, c) = Draw(Tab(s), "underscore")
      BY <1>6 DEF PutOf
    <2> QED BY <2>6, <2>7
  <1>7. CASE c = "tab" /\ NoRoomForTab(s)
    <2>1. ~Fits(t, "tab")
      BY <1>1, <1>7, FitsIs
    <2>2. u = t
      BY <2>1, <1>7
    <2>3. PutOf(s, c) = s
      BY <1>7 DEF PutOf
    <2> QED BY <2>2, <2>3
  <1> QED BY <1>4, <1>5, <1>6, <1>7 DEF Chars

(* What a step that calls putc() makes of its variables.                    *)
LEMMA PutcIs ==
  ASSUME NEW c, Putc(c), PutOf(Clean(con), c) \in Screens
  PROVE  con' = PutOf(Clean(con), c)
  <1>1. PICK n : n = PutOf(Clean(con), c)
    OBVIOUS
  <1>2. /\ screen_x' = n.x /\ screen_y' = n.y /\ video_mem' = n.cell
        /\ line_is_full' = n.full /\ prev_screen_x' = n.prev /\ display_buf' = n.buf
    BY <1>1 DEF Putc, PutOf
  <1>3. con' = [x |-> n.x, y |-> n.y, cell |-> n.cell, full |-> n.full, prev |-> n.prev, buf |-> n.buf]
    BY <1>2 DEF con
  <1>4. n \in Screens
    BY <1>1
  <1>5. con' = n
    BY <1>3, <1>4 DEF Screens
  <1> QED BY <1>1, <1>5

(* Cleaning the buffer first does not change what is shown.                 *)
LEMMA CleanShowsAll ==
  ASSUME NEW s, NEW t, ShowsAll(s, t)
  PROVE  ShowsAll(Clean(s), t) /\ Len(Clean(s).buf) < NUM_COLS * NUM_ROWS
  <1>1. PICK n : n = Clean(s)
    OBVIOUS
  <1>2. Shows(s, t, Starts(t))
    BY DEF ShowsAll
  <1>3. /\ Shows(n, t, Starts(t)) /\ Len(n.buf) < NUM_COLS * NUM_ROWS
        /\ n.y = s.y /\ n.cell = s.cell
    BY <1>1, <1>2, CleanShows
  <1> QED BY <1>1, <1>3 DEF ShowsAll

-----------------------------------------------------------------------------
(* The inductive invariant: it adds the memories of putc(), row by row.       *)
IInv == ShowsAll(con, text) /\ keyb_index \in 0 .. MaxLine

(* Nothing is on the screen but what Shows says: its fields are those of con. *)
LEMMA ConIs ==
  /\ con.x = screen_x /\ con.y = screen_y /\ con.cell = video_mem /\ con.full = line_is_full
  /\ con.prev = prev_screen_x /\ con.buf = display_buf
  BY DEF con

(* The invariant implies what is to be proved,                              *)
LEMMA Safe == IInv => TypeOK /\ ScreenShowsText
  <1> SUFFICES ASSUME IInv PROVE TypeOK /\ ScreenShowsText
    OBVIOUS
  <1> DEFINE p == Starts(text)
  <1>1. /\ con \in Screens /\ text \in Seq(Chars) /\ IsStarts(text, p)
        /\ p[Len(text)] = Edge(screen_y) + screen_x /\ Marked(video_mem, text, p)
        /\ Len(display_buf) <= NUM_COLS * NUM_ROWS /\ screen_y \in Rows
        /\ video_mem[CursorOf(text)] \in {"underscore", "blank"}
    BY ConIs DEF IInv, ShowsAll, Shows
  <1>2. TypeOK
    <2>1. /\ con.x \in 0 .. NUM_COLS - 1 /\ con.cell \in [Cells -> Glyphs]
          /\ con.full \in [Rows -> BOOLEAN] /\ con.prev \in [Rows -> 0 .. NUM_COLS - 1]
          /\ con.buf \in Seq(Chars)
      BY <1>1 DEF Screens
    <2>2. Glyphs = {"letter", "blank", "underscore"}
      BY DEF Glyphs
    <2> QED BY <2>1, <2>2, <1>1, ConIs DEF TypeOK, IInv
  <1>3. ScreenShowsText
    <2> DEFINE drawn == {p[i - 1] : i \in {k \in 1 .. Len(text) : text[k] = "letter"}}
    <2>1. NUM_COLS * screen_y + screen_x = CursorOf(text)
      BY <1>1 DEF CursorOf, Edge
    <2>2. ASSUME NEW i \in Cells, i # CursorOf(text)
          PROVE  video_mem[i] = IF i \in drawn THEN "letter" ELSE "blank"
      <3>1. video_mem[i] = IF \E k \in 1 .. Len(text) : text[k] = "letter" /\ p[k - 1] = i
                           THEN "letter" ELSE "blank"
        BY <1>1, <2>2 DEF Marked, CursorOf
      <3>2. i \in drawn <=> \E k \in 1 .. Len(text) : text[k] = "letter" /\ p[k - 1] = i
        OBVIOUS
      <3> QED BY <3>1, <3>2
    <2> QED BY <2>1, <2>2, <1>1 DEF ScreenShowsText
  <1> QED BY <1>2, <1>3

(* it holds of the blank screen,                                            *)
LEMMA InitSafe == Init => IInv
  <1> SUFFICES ASSUME Init PROVE IInv
    OBVIOUS
  <1>1. con \in Screens
    <2>1. 0 \in 0 .. NUM_COLS - 1 /\ 0 \in Nat
      BY ConsoleAssumption
    <2>2. <<>> \in Seq(Chars) /\ "blank" \in Glyphs
      BY DEF Glyphs
    <2>3. /\ screen_x \in 0 .. NUM_COLS - 1 /\ screen_y \in Nat
          /\ video_mem \in [Cells -> Glyphs] /\ line_is_full \in [Rows -> BOOLEAN]
          /\ prev_screen_x \in [Rows -> 0 .. NUM_COLS - 1] /\ display_buf \in Seq(Chars)
      BY <2>1, <2>2 DEF Init
    <2> QED BY <2>3 DEF con, Screens
  <1>2. /\ con.x = 0 /\ con.y = 0 /\ \A i \in Cells : con.cell[i] = "blank"
        /\ \A r \in Rows : ~con.full[r]
    BY ConIs DEF Init
  <1>3. Len(con.buf) <= NUM_COLS * NUM_ROWS
    <2>1. NUM_COLS * NUM_ROWS \in Nat
      BY ConsoleAssumption
    <2>2. Len(con.buf) = 0
      BY ConIs DEF Init
    <2> QED BY <2>1, <2>2
  <1>4. Shows(con, <<>>, Starts(<<>>)) /\ con.y \in Rows
    BY <1>1, <1>2, <1>3, EmptyShows
  <1>5. con.cell[CursorOf(<<>>)] = "blank"
    <2>1. PICK t : t = <<>>
      OBVIOUS
    <2>2. Shows(con, t, Starts(t))
      BY <2>1, <1>4
    <2>3. CursorOf(t) \in Cells
      BY <2>2, <1>4, CursorFacts DEF CursorOf
    <2> QED BY <2>1, <2>3, <1>2
  <1> QED BY <1>4, <1>5, ConsoleAssumption DEF IInv, ShowsAll, Init

(* and every step keeps it.                                                 *)
LEMMA StepSafe == IInv /\ [Next]_vars => IInv'
  <1> SUFFICES ASSUME IInv, [Next]_vars PROVE IInv'
    OBVIOUS
  <1>1. /\ ShowsAll(con, text) /\ Shows(con, text, Starts(text)) /\ text \in Seq(Chars)
        /\ keyb_index \in 0 .. MaxLine /\ MaxLine \in Nat
    BY ConsoleAssumption DEF IInv, ShowsAll, Shows
  <1>2. PICK s : s = Clean(con)
    OBVIOUS
  <1>3. ShowsAll(s, text) /\ Len(s.buf) < NUM_COLS * NUM_ROWS
    BY <1>1, <1>2, CleanShowsAll
  <1>4. ASSUME NEW c \in Chars, Putc(c), Write(c)
        PROVE  ShowsAll(con, text)'
    <2>1. PICK u : u = IF Fits(text, c) THEN Shown(Append(text, c)) ELSE text
      OBVIOUS
    <2>2. ShowsAll(PutOf(s, c), u)
      BY <2>1, <1>3, PutShown
    <2>3. PutOf(s, c) \in Screens
      BY <2>2 DEF ShowsAll, Shows
    <2>4. con' = PutOf(s, c)
      BY <2>3, <1>2, <1>4, PutcIs
    <2>5. text' = u
      BY <2>1, <1>4 DEF Write
    <2>6. ShowsAll(con', text')
      BY <2>2, <2>4, <2>5
    <2> QED BY <2>6 DEF ShowsAll
  <1>5. CASE \E c \in Chars : Output(c)
    <2>1. PICK c \in Chars : Output(c)
      BY <1>5
    <2>2. ShowsAll(con, text)'
      BY <2>1, <1>4 DEF Output
    <2> QED BY <2>1, <2>2, <1>1 DEF Output, IInv
  <1>6. CASE \E c \in Chars : Key(c)
    <2>1. PICK c \in Chars : Key(c)
      BY <1>6
    <2>2. ShowsAll(con, text)'
      BY <2>1, <1>4 DEF Key
    <2>3. keyb_index' \in 0 .. MaxLine
      BY <2>1, <1>1 DEF Key
    <2> QED BY <2>2, <2>3 DEF IInv
  <1>7. CASE Read
    <2>1. keyb_index' \in 0 .. MaxLine
      BY <1>1, <1>7 DEF Read
    <2>2. con' = con /\ text' = text
      BY <1>7 DEF Read, con
    <2>3. ShowsAll(con', text')
      BY <2>2, <1>1
    <2> QED BY <2>1, <2>3 DEF IInv, ShowsAll
  <1>8. CASE BackspaceKey
    <2>1. keyb_index' \in 0 .. MaxLine
      BY <1>1, <1>8 DEF BackspaceKey
    <2>2. s = con /\ con.buf # <<>>
      <3>1. s.buf # <<>>
        BY <1>2, <1>8 DEF BackspaceKey, InBuffer
      <3>2. s.buf # <<>> => s = con
        BY <1>1, <1>2, CleanShows
      <3> QED BY <3>1, <3>2
    <2>3. text = <<>> => Last(con.buf) # "tab"
      BY <1>8, ConIs DEF BackspaceKey, InBuffer
    <2>4. Shows(Backspace(con), Erased(text), Starts(Erased(text))) /\ Backspace(con).y \in Rows
      BY <2>2, <2>3, <1>1, BackspaceShown DEF ShowsAll
    <2>5. PutOf(s, "back") = Draw(Backspace(con), "underscore")
      BY <2>2 DEF PutOf
    <2>6. ShowsAll(PutOf(s, "back"), Erased(text))
      BY <2>4, <2>5, DrawnShowsAll
    <2>7. PutOf(s, "back") \in Screens
      BY <2>6 DEF ShowsAll, Shows
    <2>8. con' = PutOf(s, "back")
      BY <2>7, <1>2, <1>8, PutcIs DEF BackspaceKey
    <2>9. text' = Erased(text)
      BY <1>8 DEF BackspaceKey, Erase, Erased
    <2>10. ShowsAll(con', text')
      BY <2>6, <2>8, <2>9
    <2> QED BY <2>1, <2>10 DEF IInv, ShowsAll
  <1>9. CASE Clear
    <2>1. con \in Screens
      BY <1>1 DEF Shows
    <2>2. PICK n : n = con'
      OBVIOUS
    <2>3. /\ n.x = 0 /\ n.y = 0 /\ n.cell = [i \in Cells |-> "blank"]
          /\ n.full = con.full /\ n.prev = con.prev /\ n.buf = con.buf
          /\ n = [x |-> 0, y |-> 0, cell |-> [i \in Cells |-> "blank"], full |-> con.full,
                  prev |-> con.prev, buf |-> con.buf]
      BY <2>2, <1>9 DEF Clear, con
    <2>4. n \in Screens
      <3>1. 0 \in 0 .. NUM_COLS - 1 /\ 0 \in Nat
        BY ConsoleAssumption
      <3>2. [i \in Cells |-> "blank"] \in [Cells -> Glyphs]
        BY DEF Glyphs
      <3>3. /\ con.full \in [Rows -> BOOLEAN] /\ con.prev \in [Rows -> 0 .. NUM_COLS - 1]
            /\ con.buf \in Seq(Chars)
        BY <2>1 DEF Screens
      <3> QED BY <2>3, <3>1, <3>2, <3>3 DEF Screens
    <2>5. \A r \in Rows : ~n.full[r]
      BY <2>3, <1>9, ConIs DEF Clear, NoRowFull
    <2>6. Len(n.buf) <= NUM_COLS * NUM_ROWS
      BY <2>3, <1>1 DEF Shows
    <2>7. Shows(n, <<>>, Starts(<<>>)) /\ n.y \in Rows
      <3>1. n.x = 0 /\ n.y = 0 /\ \A i \in Cells : i # 0 => n.cell[i] = "blank"
        BY <2>3
      <3> QED BY <3>1, <2>4, <2>5, <2>6, EmptyShows
    <2>8. PICK t : t = <<>>
      OBVIOUS
    <2>9. n.cell[CursorOf(t)] = "blank"
      <3>1. Shows(n, t, Starts(t)) /\ n.y \in Rows
        BY <2>7, <2>8
      <3>2. CursorOf(t) \in Cells
        BY <3>1, CursorFacts DEF CursorOf
      <3> QED BY <3>2, <2>3
    <2>10. ShowsAll(n, t)
      BY <2>7, <2>8, <2>9 DEF ShowsAll
    <2>11. text' = t /\ keyb_index' = keyb_index
      BY <2>8, <1>9 DEF Clear
    <2>12. ShowsAll(con', text')
      BY <2>2, <2>10, <2>11
    <2> QED BY <2>11, <2>12, <1>1 DEF IInv, ShowsAll
  <1>10. CASE UNCHANGED vars
    <2>1. con' = con /\ text' = text /\ keyb_index' = keyb_index
      BY <1>10 DEF vars, con
    <2>2. ShowsAll(con', text')
      BY <2>1, <1>1
    <2> QED BY <2>1, <2>2, <1>1 DEF IInv, ShowsAll
  <1> QED BY <1>5, <1>6, <1>7, <1>8, <1>9, <1>10 DEF Next

(* The cursor of putc() never leaves the screen, prev_screen_x never a row,  *)
(* display_buf never outgrows its length and the line buffer neither, for   *)
(* every size of the screen, of a Tab and of a line.                       *)
THEOREM ConsoleTypeCorrect == Spec => []TypeOK
  <1>1. Init => IInv
    BY InitSafe
  <1>2. IInv /\ [Next]_vars => IInv'
    BY StepSafe
  <1>3. IInv => TypeOK
    BY Safe
  <1> QED BY <1>1, <1>2, <1>3, PTL DEF Spec

(* The screen shows the text, whatever was printed, typed, erased, cleared   *)
(* and scrolled away.                                                      *)
THEOREM ScreenCorrect == Spec => []ScreenShowsText
  <1>1. Init => IInv
    BY InitSafe
  <1>2. IInv /\ [Next]_vars => IInv'
    BY StepSafe
  <1>3. IInv => ScreenShowsText
    BY Safe
  <1> QED BY <1>1, <1>2, <1>3, PTL DEF Spec
===============================================================================
