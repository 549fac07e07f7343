----------------------------- MODULE TransProofs -----------------------------
(***************************************************************************)
(* The transpose is right, has the types of its model and stays inside the   *)
(* two matrices, for matrices of any size, blocks of any even size that      *)
(* divides Square, and a cache of any shape.  TransInv says what is in B     *)
(* between two turns of the loops; a turn of a loop, a block and a row of     *)
(* blocks keep it.                                                           *)
(***************************************************************************)
EXTENDS Trans, SequenceTheorems, WellFoundedInduction, TLAPS

Multiples == {x \in Int : x % Block = 0}

\* The indices of the block and of the loop in it.  my_trans checks that a row
\* is one of the matrix and cuts it to its width; my_trans64x64 relies on the
\* matrix being made of whole blocks.
Position ==
  /\ M \in Nat \ {0} /\ N \in Nat \ {0}
  /\ baseRowIdx \in 0 .. N - 1 /\ baseColIdx \in 0 .. M - 1
  /\ IF M = Square /\ N = Square
     THEN /\ loop \in {"upper", "lowerLeft", "lowerRight"}
          /\ i \in 0 .. Half - 1
          /\ baseRowIdx \in Multiples /\ baseColIdx \in Multiples
     ELSE /\ loop = "row"
          /\ i \in 0 .. Block - 1 /\ baseRowIdx + i < N

\* The cells an assignment may have on either side.
Cell == ({"A"} \X (0 .. N - 1) \X (0 .. M - 1))
          \cup ({"B"} \X (0 .. M - 1) \X (0 .. N - 1))
          \cup ({"tmp"} \X (0 .. Block - 1))

\* The first block is at the corner.
LEMMA InitPosition == ASSUME Init PROVE Position
<1>1. M \in Nat \ {0} /\ N \in Nat \ {0}
  BY LayoutAssumption DEF Init
<1>2. Block \in Nat \ {0} /\ Half \in Nat \ {0}
  BY BlockAssumption
<1>3. 0 \in Multiples
  BY <1>2 DEF Multiples
<1> QED BY <1>1, <1>2, <1>3 DEF Init, Position, FirstLoop

\* Blocks that start at multiples of their size fill a matrix of whole blocks.
LEMMA WholeBlocks ==
  ASSUME NEW n \in Nat, NEW r \in Nat, n \in Multiples, r \in Multiples, r < n
  PROVE  r + Block <= n /\ r + Block \in Multiples
<1> DEFINE p == n \div Block
           q == r \div Block
<1>1. Block \in Nat \ {0}
  BY BlockAssumption
<1>2. p \in Int /\ q \in Int /\ n = Block * p /\ r = Block * q
  BY <1>1 DEF Multiples
<1> HIDE DEF p, q
<1>3. q + 1 <= p
  BY <1>1, <1>2
<1>4. Block * (q + 1) <= Block * p
  BY <1>1, <1>2, <1>3
<1>5. (Block * (q + 1)) % Block = 0
  BY <1>1, <1>2
<1>6. Block * (q + 1) = r + Block
  BY <1>1, <1>2
<1>7. (r + Block) % Block = 0
  BY <1>5, <1>6
<1>8. r + Block <= n
  BY <1>2, <1>4, <1>6
<1>9. r + Block \in Int
  BY <1>1
<1> QED BY <1>7, <1>8, <1>9 DEF Multiples

\* The two loops over blocks; the next block starts with its first loop.
LEMMA NextBlockPosition ==
  ASSUME Square \in Multiples, Position, NextBlock, M' = M, N' = N
  PROVE  Position'
<1>1. Block \in Nat \ {0} /\ Half \in Nat \ {0} /\ 0 \in Multiples
  BY BlockAssumption DEF Multiples
<1>2. baseRowIdx' \in 0 .. N - 1 /\ baseColIdx' \in 0 .. M - 1 /\ i' = 0
  BY <1>1 DEF Position, NextBlock
<1>3. CASE M = Square /\ N = Square
  <2>1. baseRowIdx \in Multiples /\ baseColIdx \in Multiples
    BY <1>3 DEF Position
  <2>2. baseRowIdx + Block \in Multiples /\ baseColIdx + Block \in Multiples
    BY <1>1, <1>3, <2>1, WholeBlocks DEF Position
  <2>3. baseRowIdx' \in Multiples /\ baseColIdx' \in Multiples
    BY <1>1, <2>1, <2>2 DEF NextBlock
  <2>4. loop' = "upper"
    BY <1>3 DEF NextBlock, FirstLoop
  <2> QED BY <1>1, <1>2, <1>3, <2>3, <2>4 DEF Position
<1>4. CASE ~(M = Square /\ N = Square)
  <2>1. loop' = "row"
    BY <1>4 DEF NextBlock, FirstLoop
  <2>2. PICK r \in Nat : r = baseRowIdx' /\ r + 0 < N
    BY <1>2 DEF Position
  <2>3. i' \in 0 .. Block - 1 /\ (baseRowIdx + i < N)'
    BY <1>1, <1>2, <2>2
  <2>4. M' \in Nat \ {0} /\ N' \in Nat \ {0} /\ ~(M = Square /\ N = Square)'
    BY <1>4 DEF Position
  <2> QED BY <1>2, <2>1, <2>3, <2>4 DEF Position
<1> QED BY <1>3, <1>4

\* Every step moves the indices inside the matrix.
LEMMA NextPosition ==
  ASSUME Square \in Multiples, Position, [Next]_vars
  PROVE  Position'
<1>1. Block \in Nat \ {0} /\ Half \in Nat \ {0} /\ Block = 2 * Half
  BY BlockAssumption
<1>2. CASE CopyRow
  <2>1. M' = M /\ N' = N /\ loop = "row"
    BY <1>2 DEF CopyRow, Work
  <2>2. CASE i + 1 < Block /\ baseRowIdx + i + 1 < N
    BY <1>1, <1>2, <2>1, <2>2 DEF CopyRow, NextTurn, Position
  <2>3. CASE ~(i + 1 < Block /\ baseRowIdx + i + 1 < N)
    BY <1>2, <2>1, <2>3, NextBlockPosition DEF CopyRow
  <2> QED BY <2>2, <2>3
<1>3. CASE CopyUpper
  <2>1. M' = M /\ N' = N /\ loop = "upper"
    BY <1>3 DEF CopyUpper, Work
  <2> QED BY <1>1, <1>3, <2>1 DEF CopyUpper, NextTurn, NextLoop, Position
<1>4. CASE CopyLowerLeft
  <2>1. M' = M /\ N' = N /\ loop = "lowerLeft"
    BY <1>4 DEF CopyLowerLeft, Work
  <2> QED BY <1>1, <1>4, <2>1 DEF CopyLowerLeft, NextTurn, NextLoop, Position
<1>5. CASE CopyLowerRight
  <2>1. M' = M /\ N' = N /\ loop = "lowerRight"
    BY <1>5 DEF CopyLowerRight, Work
  <2>2. CASE i + 1 < Half
    BY <1>1, <1>5, <2>1, <2>2 DEF CopyLowerRight, NextTurn, Position
  <2>3. CASE ~(i + 1 < Half)
    BY <1>5, <2>1, <2>3, NextBlockPosition DEF CopyLowerRight
  <2> QED BY <2>2, <2>3
<1>6. CASE Returned \/ UNCHANGED vars
  BY <1>6 DEF Returned, vars, position, Position
<1> QED BY <1>2, <1>3, <1>4, <1>5, <1>6 DEF Next

\* my_trans64x64: the block is whole.
LEMMA BlockInside ==
  ASSUME Square \in Multiples, Position, loop # "row"
  PROVE  /\ baseRowIdx \in Nat /\ baseColIdx \in Nat /\ i \in Nat /\ i < Half
         /\ baseRowIdx + Block <= N /\ baseColIdx + Block <= M
         /\ M \in Nat /\ N \in Nat
<1>1. /\ M = Square /\ N = Square /\ Square \in Nat
      /\ baseRowIdx \in Multiples /\ baseColIdx \in Multiples
      /\ baseRowIdx \in 0 .. N - 1 /\ baseColIdx \in 0 .. M - 1
      /\ i \in 0 .. Half - 1 /\ Half \in Nat
  BY BlockAssumption DEF Position
<1>2. baseRowIdx + Block <= N /\ baseColIdx + Block <= M
  BY <1>1, WholeBlocks DEF Position
<1> QED BY <1>1, <1>2 DEF Position

-----------------------------------------------------------------------------
(* What the memory holds between two turns.                                *)

Memories ==
  [B : [0 .. M - 1 -> [0 .. N - 1 -> Values]],
   tmp : [0 .. Block - 1 -> Values],
   line : [0 .. CacheSets - 1 -> Int],
   misses : Nat]

\* Row x and column y of B hold the element of column x and row y of A.
Right(m, x, y) == m.B[x][y] = Element(y, x)

\* The blocks before the one at row r and column c of A are transposed.
Before(m, r, c) ==
  \A x \in 0 .. M - 1, y \in 0 .. N - 1 :
    y < r \/ (y < r + Block /\ x < c) => Right(m, x, y)

\* n rows of A from row r on are, in k columns from column c on.
Placed(m, r, n, c, k) ==
  \A x \in 0 .. M - 1, y \in 0 .. N - 1 :
    r <= y /\ y < r + n /\ c <= x /\ x < c + k => Right(m, x, y)

\* Half a block to the right of them, A is in B half a block to the right of their
\* place, and not below it where it belongs.
Parked(m, r, n, c, k) ==
  \A x \in 0 .. M - 1, y \in 0 .. N - 1 :
    r <= y /\ y < r + n /\ c <= x /\ x < c + k => m.B[x][y + Half] = Element(y, x + Half)

\* What k turns of loop l have done in the block at row r and column c of A.
Part(m, r, c, l, k) ==
  CASE l = "row" -> Placed(m, r, k, c, Block)
    [] l = "upper" -> Placed(m, r, k, c, Half) /\ Parked(m, r, k, c, Half)
    [] l = "lowerLeft" ->
         /\ Placed(m, r, Half, c, Half) /\ Parked(m, r, Half, c + k, Half - k)
         /\ Placed(m, r + Half, Half, c, k) /\ Placed(m, r, Half, c + Half, k)
    [] l = "lowerRight" ->
         /\ Placed(m, r, Half, c, Half)
         /\ Placed(m, r + Half, Half, c, Half) /\ Placed(m, r, Half, c + Half, Half)
         /\ Placed(m, r + Half, Half, c + Half, k)

ContentInv ==
  IF done THEN TransposesAll
  ELSE Before(mem, baseRowIdx, baseColIdx) /\ Part(mem, baseRowIdx, baseColIdx, loop, i)

MemoryInv == <<M, N>> \in Sizes /\ mem \in Memories /\ done \in BOOLEAN

TransInv == Position /\ MemoryInv /\ ContentInv

-----------------------------------------------------------------------------
(* One assignment, and several one after the other.                        *)
\* A set of numbers has a least one, and what holds of 0 and of the number after
\* each holds of all.
LEMMA LeastNatural ==
  ASSUME NEW T, T \subseteq Nat, T # {}
  PROVE  \E x \in T : \A y \in T : x <= y
<1>1. PICK x \in T : \A y \in T : ~ (<<y, x>> \in OpToRel(<, Nat))
  BY WFMin, NatLessThanWellFounded
<1>2. \A y \in T : ~ (y < x)
  BY <1>1 DEF OpToRel
<1> QED BY <1>2

\* Induction as a statement about a set.
LEMMA CountUp ==
  ASSUME NEW S, 0 \in S, \A n \in Nat : n \in S => n + 1 \in S
  PROVE  Nat \subseteq S
<1> DEFINE T == {n \in Nat : n \notin S}
<1> SUFFICES ASSUME T # {} PROVE FALSE
  OBVIOUS
<1>0. T \subseteq Nat
  OBVIOUS
<1>1. PICK n \in T : \A k \in T : n <= k
  <2> HIDE DEF T
  <2> QED BY <1>0, LeastNatural
<1>2. n - 1 \in Nat /\ n = (n - 1) + 1
  BY <1>1
<1>3. n - 1 \in T
  BY <1>1, <1>2
<1> QED BY <1>1, <1>2, <1>3

\* The cells an assignment may have on its left.
Targets == ({"B"} \X (0 .. M - 1) \X (0 .. N - 1)) \cup ({"tmp"} \X (0 .. Block - 1))

\* The elements of A, as the model numbers them.
LEMMA ElementIsNatural ==
  ASSUME Position, NEW r \in Nat, NEW c \in Nat
  PROVE  Element(r, c) \in Nat
<1>1. r * M \in Nat
  BY DEF Position
<1> QED BY <1>1 DEF Element

\* The three kinds of cells.
LEMMA Cells ==
  ASSUME NEW c \in Cell
  PROVE  \/ c[1] = "A" /\ c[2] \in 0 .. N - 1 /\ c[3] \in 0 .. M - 1 /\ c = <<"A", c[2], c[3]>>
         \/ c[1] = "B" /\ c[2] \in 0 .. M - 1 /\ c[3] \in 0 .. N - 1 /\ c = <<"B", c[2], c[3]>>
         \/ c[1] = "tmp" /\ c[2] \in 0 .. Block - 1 /\ c = <<"tmp", c[2]>>
  BY DEF Cell

\* No assignment has an element of A on its left.
LEMMA TargetIsCell ==
  ASSUME NEW c \in Targets
  PROVE  c \in Cell /\ c[1] # "A"
  BY DEF Targets, Cell

\* An access brings a line into the cache and changes nothing else.
LEMMA AccessIs ==
  ASSUME Position, NEW m \in Memories, NEW c \in Cell
  PROVE  Access(m, c) \in Memories /\ Access(m, c).B = m.B /\ Access(m, c).tmp = m.tmp
<1>1. LineInts \in Nat \ {0} /\ CacheSets \in Nat \ {0} /\ BaseB \in Nat
  BY LayoutAssumption
<1>2. CASE c[1] = "tmp"
  BY <1>2 DEF Access
<1>3. CASE c[1] # "tmp"
  <2> DEFINE line == Address(c) \div LineInts
             set == line % CacheSets
  <2>1. Address(c) \in Nat
    <3>1. CASE c[1] = "A"
      <4>1. c[2] \in Nat /\ c[3] \in Nat /\ M \in Nat
        BY <3>1, Cells DEF Position
      <4>2. c[2] * M \in Nat
        BY <4>1
      <4> QED BY <3>1, <4>1, <4>2 DEF Address
    <3>2. CASE c[1] = "B"
      <4>1. c[2] \in Nat /\ c[3] \in Nat /\ N \in Nat
        BY <3>2, Cells DEF Position
      <4>2. c[2] * N \in Nat
        BY <4>1
      <4> QED BY <1>1, <3>2, <4>1, <4>2 DEF Address
    <3> QED BY <1>3, <3>1, <3>2, Cells
  <2>2. line \in Int
    BY <1>1, <2>1
  <2>3. set \in 0 .. CacheSets - 1
    BY <1>1, <2>2
  <2>4. Access(m, c) = IF m.line[set] = line THEN m
                       ELSE [m EXCEPT !.line[set] = line, !.misses = @ + 1]
    BY <1>3 DEF Access
  <2> HIDE DEF line, set
  <2>5. CASE m.line[set] = line
    BY <2>4, <2>5
  <2>6. CASE m.line[set] # line
    <3>1. PICK q : q = [m.line EXCEPT ![set] = line]
      OBVIOUS
    <3>2. q \in [0 .. CacheSets - 1 -> Int]
      BY <2>2, <2>3, <3>1 DEF Memories
    <3>3. m.misses \in Nat
      BY DEF Memories
    <3>4. PICK o : o = [m EXCEPT !.line = q]
      OBVIOUS
    <3>5. o \in Memories /\ o.B = m.B /\ o.tmp = m.tmp /\ o.misses = m.misses
      BY <3>2, <3>4 DEF Memories
    <3>6. Access(m, c) = [o EXCEPT !.misses = m.misses + 1]
      BY <2>4, <2>6, <3>1, <3>4
    <3> QED BY <3>3, <3>5, <3>6 DEF Memories
  <2> QED BY <2>5, <2>6
<1> QED BY <1>2, <1>3

\* What is read of a cell is a value.
LEMMA ReadIsValue ==
  ASSUME Position, NEW m \in Memories, NEW c \in Cell
  PROVE  Read(m, c) \in Values
<1>1. CASE c[1] = "A"
  BY <1>1, Cells, ElementIsNatural DEF Read, Values
<1>2. CASE c[1] = "B"
  BY <1>2, Cells DEF Read, Memories
<1>3. CASE c[1] = "tmp"
  BY <1>3, Cells DEF Read, Memories
<1> QED BY <1>1, <1>2, <1>3, Cells

\* An assignment changes the cell on its left.
LEMMA AssignIs ==
  ASSUME Position, NEW m \in Memories, NEW s \in Cell, NEW t \in Targets
  PROVE  /\ Assign(m, <<s, t>>) \in Memories
         /\ \A c \in Cell :
              Read(Assign(m, <<s, t>>), c) = IF c = t THEN Read(m, s) ELSE Read(m, c)
<1> DEFINE a == Access(Access(m, s), t)
           v == Read(m, s)
           w == Write(a, t, v)
<1>1. Assign(m, <<s, t>>) = w
  BY DEF Assign
<1>2. t \in Cell /\ t[1] # "A"
  BY TargetIsCell
<1>3. a \in Memories /\ a.B = m.B /\ a.tmp = m.tmp
  BY <1>2, AccessIs
<1>4. v \in Values
  BY ReadIsValue
<1> HIDE DEF a, v
<1>5. CASE t[1] = "B"
  <2>1. t[2] \in 0 .. M - 1 /\ t[3] \in 0 .. N - 1 /\ t = <<"B", t[2], t[3]>>
    BY <1>2, <1>5, Cells
  <2>2. PICK b, q : b = [a.B EXCEPT ![t[2]] = q] /\ q = [a.B[t[2]] EXCEPT ![t[3]] = v]
    OBVIOUS
  <2>a. w = [a EXCEPT !.B = b]
    BY <1>5, <2>2 DEF Write
  <2>b. a.B \in [0 .. M - 1 -> [0 .. N - 1 -> Values]]
    BY <1>3 DEF Memories
  <2>c. q \in [0 .. N - 1 -> Values] /\ b \in [0 .. M - 1 -> [0 .. N - 1 -> Values]]
    BY <1>4, <2>1, <2>2, <2>b
  <2>3. w \in Memories /\ w.tmp = m.tmp /\ w.B = b
    BY <1>3, <2>a, <2>c DEF Memories
  <2>4. \A x \in 0 .. M - 1, y \in 0 .. N - 1 :
          w.B[x][y] = IF x = t[2] /\ y = t[3] THEN v ELSE m.B[x][y]
    <3>1. \A y \in 0 .. N - 1 : q[y] = IF y = t[3] THEN v ELSE a.B[t[2]][y]
      BY <2>1, <2>2, <2>b
    <3>2. \A x \in 0 .. M - 1 : b[x] = IF x = t[2] THEN q ELSE a.B[x]
      BY <2>1, <2>2, <2>b
    <3>3. w.B = b /\ a.B = m.B
      BY <1>3, <2>3
    <3> QED BY <3>1, <3>2, <3>3
  <2>5. ASSUME NEW c \in Cell
        PROVE  Read(w, c) = IF c = t THEN v ELSE Read(m, c)
    <3> HIDE DEF w
    <3>1. CASE c[1] = "A"
      BY <1>5, <3>1 DEF Read
    <3>2. CASE c[1] = "B"
      <4>1. c[2] \in 0 .. M - 1 /\ c[3] \in 0 .. N - 1 /\ c = <<"B", c[2], c[3]>>
        BY <3>2, Cells
      <4>2. c = t <=> c[2] = t[2] /\ c[3] = t[3]
        BY <2>1, <4>1
      <4>3. Read(w, c) = w.B[c[2]][c[3]] /\ Read(m, c) = m.B[c[2]][c[3]]
        BY <3>2 DEF Read
      <4> QED BY <2>4, <4>1, <4>2, <4>3
    <3>3. CASE c[1] = "tmp"
      BY <1>5, <2>3, <3>3 DEF Read
    <3> QED BY <3>1, <3>2, <3>3, Cells
  <2> QED BY <1>1, <2>3, <2>5 DEF v
<1>6. CASE t[1] = "tmp"
  <2>1. t[2] \in 0 .. Block - 1 /\ t = <<"tmp", t[2]>>
    BY <1>2, <1>6, Cells
  <2>2. PICK q : q = [a.tmp EXCEPT ![t[2]] = v]
    OBVIOUS
  <2>a. w = [a EXCEPT !.tmp = q]
    BY <1>6, <2>2 DEF Write
  <2>b. q \in [0 .. Block - 1 -> Values] /\ a.tmp \in [0 .. Block - 1 -> Values]
    BY <1>3, <1>4, <2>1, <2>2 DEF Memories
  <2>3. w \in Memories /\ w.B = m.B /\ w.tmp = q
    BY <1>3, <2>a, <2>b DEF Memories
  <2>4. \A x \in 0 .. Block - 1 : w.tmp[x] = IF x = t[2] THEN v ELSE m.tmp[x]
    BY <1>3, <2>1, <2>2, <2>3, <2>b
  <2>5. ASSUME NEW c \in Cell
        PROVE  Read(w, c) = IF c = t THEN v ELSE Read(m, c)
    <3> HIDE DEF w
    <3>1. CASE c[1] = "A"
      BY <1>6, <3>1 DEF Read
    <3>2. CASE c[1] = "B"
      BY <1>6, <2>3, <3>2 DEF Read
    <3>3. CASE c[1] = "tmp"
      <4>1. c[2] \in 0 .. Block - 1 /\ c = <<"tmp", c[2]>>
        BY <3>3, Cells
      <4>2. c = t <=> c[2] = t[2]
        BY <2>1, <4>1
      <4>3. Read(w, c) = w.tmp[c[2]] /\ Read(m, c) = m.tmp[c[2]]
        BY <3>3 DEF Read
      <4> QED BY <2>4, <4>1, <4>2, <4>3
    <3> QED BY <3>1, <3>2, <3>3, Cells
  <2> QED BY <1>1, <2>3, <2>5 DEF v
<1> QED BY <1>2, <1>5, <1>6, Cells

\* The memories of the assignments of p, one after the other.
Trail(f, m, p) ==
  /\ f \in [0 .. Len(p) -> Memories] /\ f[0] = m
  /\ \A k \in 1 .. Len(p) : f[k] = Assign(f[k - 1], p[k])

\* Assignments between cells lead through memories.
LEMMA TrailExists ==
  ASSUME Position, NEW m \in Memories, NEW p \in Seq(Cell \X Targets)
  PROVE  \E f : Trail(f, m, p)
<1> DEFINE Up(f, n) == /\ f \in [0 .. n -> Memories] /\ f[0] = m
                       /\ \A k \in 1 .. n : f[k] = Assign(f[k - 1], p[k])
           S == {n \in Nat : n <= Len(p) => \E f : Up(f, n)}
<1>1. 0 \in S
  <2>1. Up([k \in 0 .. 0 |-> m], 0)
    OBVIOUS
  <2> HIDE DEF Up
  <2> QED BY <2>1
<1>2. ASSUME NEW n \in Nat, n \in S
      PROVE  n + 1 \in S
  <2> SUFFICES ASSUME n + 1 <= Len(p) PROVE \E f : Up(f, n + 1)
    <3> HIDE DEF Up
    <3> QED OBVIOUS
  <2>1. Len(p) \in Nat
    OBVIOUS
  <2>2. PICK f : Up(f, n)
    <3> HIDE DEF Up
    <3> QED BY <1>2, <2>1
  <2>3. p[n + 1] \in Cell \X Targets
    BY <2>1
  <2>4. PICK s \in Cell, t \in Targets : p[n + 1] = <<s, t>>
    BY <2>3
  <2>5. Assign(f[n], p[n + 1]) \in Memories
    BY <2>2, <2>4, AssignIs
  <2> DEFINE g == [k \in 0 .. n + 1 |-> IF k = n + 1 THEN Assign(f[n], p[n + 1]) ELSE f[k]]
  <2>6. g \in [0 .. n + 1 -> Memories] /\ g[0] = m
    BY <2>2, <2>5
  <2>7. ASSUME NEW k \in 1 .. n + 1
        PROVE  g[k] = Assign(g[k - 1], p[k])
    <3>1. CASE k = n + 1
      BY <3>1
    <3>2. CASE k # n + 1
      <4>1. k \in 1 .. n /\ k - 1 \in 0 .. n + 1 /\ k - 1 # n + 1 /\ k \in 0 .. n + 1
        BY <3>2
      <4>2. g[k] = f[k] /\ g[k - 1] = f[k - 1]
        BY <3>2, <4>1
      <4> HIDE DEF g
      <4> QED BY <2>2, <4>1, <4>2
    <3> QED BY <3>1, <3>2
  <2>8. Up(g, n + 1)
    <3> HIDE DEF g
    <3> QED BY <2>6, <2>7
  <2> HIDE DEF Up, g
  <2> QED BY <2>8
<1> HIDE DEF S
<1>3. Len(p) \in S
  BY <1>1, <1>2, CountUp
<1> QED BY <1>3 DEF S, Trail

\* It is what Executed computes.
LEMMA TrailIs ==
  ASSUME NEW m, NEW f, NEW p \in Seq(Cell \X Targets), Trail(f, m, p)
  PROVE  Executed(m, p) = f[Len(p)]
<1> DEFINE Def(g) == g = [k \in 0 .. Len(p) |-> IF k = 0 THEN m ELSE Assign(g[k - 1], p[k])]
           after == CHOOSE g : Def(g)
<1>1. Executed(m, p) = after[Len(p)]
  BY DEF Executed
<1>0. Len(p) \in Nat
  OBVIOUS
<1>2. Def(f)
  <2>1. \A k \in 0 .. Len(p) : f[k] = IF k = 0 THEN m ELSE Assign(f[k - 1], p[k])
    BY <1>0 DEF Trail
  <2>2. f = [k \in 0 .. Len(p) |-> f[k]]
    BY DEF Trail
  <2> QED BY <2>1, <2>2
<1>3. Def(after)
  <2> HIDE DEF Def
  <2> QED BY <1>2
<1> HIDE DEF after
<1> DEFINE S == {n \in Nat : n <= Len(p) => after[n] = f[n]}
<1>4. 0 \in S
  BY <1>0, <1>3 DEF Trail
<1>5. ASSUME NEW n \in Nat, n \in S
      PROVE  n + 1 \in S
  <2> SUFFICES ASSUME n + 1 <= Len(p) PROVE after[n + 1] = f[n + 1]
    OBVIOUS
  <2>1. after[n] = f[n] /\ n + 1 \in 0 .. Len(p) /\ n + 1 # 0 /\ (n + 1) - 1 = n
        /\ n + 1 \in 1 .. Len(p)
    BY <1>0, <1>5
  <2>2. after[n + 1] = Assign(after[n], p[n + 1])
    BY <1>3, <2>1
  <2>3. f[n + 1] = Assign(f[n], p[n + 1])
    BY <2>1 DEF Trail
  <2> QED BY <2>1, <2>2, <2>3
<1> HIDE DEF S, Def
<1>6. Len(p) \in S
  BY <1>0, <1>4, <1>5, CountUp
<1> QED BY <1>1, <1>6, <1>0 DEF S

\* The assignments of p lead from memory m to memory e.
Leads(m, p, e) ==
  /\ m \in Memories /\ e \in Memories /\ p \in Seq(Cell \X Targets)
  /\ e = Executed(m, p)

\* What stands behind another list of assignments is executed after it.
LEMMA ExecutedConcat ==
  ASSUME Position, NEW m, NEW d, NEW e, NEW p, NEW q, NEW r,
         Leads(m, p, d), Leads(d, q, e), r = p \o q
  PROVE  Leads(m, r, e)
<1>a. /\ m \in Memories /\ d \in Memories /\ e \in Memories
      /\ p \in Seq(Cell \X Targets) /\ q \in Seq(Cell \X Targets)
      /\ d = Executed(m, p) /\ e = Executed(d, q)
  BY DEF Leads
<1>1. PICK f : Trail(f, m, p)
  BY <1>a, TrailExists
<1>2. Executed(m, p) = f[Len(p)]
  BY <1>1, <1>a, TrailIs
<1>0. Len(p) \in Nat /\ Len(q) \in Nat
  BY <1>a
<1>3. f[Len(p)] \in Memories
  BY <1>0, <1>1 DEF Trail
<1>4. PICK g : Trail(g, f[Len(p)], q)
  BY <1>3, <1>a, TrailExists
<1>5. Executed(f[Len(p)], q) = g[Len(q)]
  BY <1>4, <1>a, TrailIs
<1>7. /\ r \in Seq(Cell \X Targets) /\ Len(r) = Len(p) + Len(q)
      /\ \A k \in 1 .. Len(p) + Len(q) : r[k] = IF k <= Len(p) THEN p[k] ELSE q[k - Len(p)]
  BY <1>a, ConcatProperties
<1> DEFINE h == [k \in 0 .. Len(p) + Len(q) |-> IF k <= Len(p) THEN f[k] ELSE g[k - Len(p)]]
<1>8. h \in [0 .. Len(r) -> Memories] /\ h[0] = m /\ h[Len(r)] = g[Len(q)]
  <2>1. /\ f \in [0 .. Len(p) -> Memories] /\ g \in [0 .. Len(q) -> Memories]
        /\ f[0] = m /\ g[0] = f[Len(p)]
    BY <1>1, <1>4 DEF Trail
  <2>2. h[0] = m
    BY <1>0, <2>1
  <2>3. h[Len(p) + Len(q)] = g[Len(q)]
    <3>1. CASE Len(q) = 0
      BY <1>0, <2>1, <3>1
    <3>2. CASE Len(q) > 0
      BY <1>0, <3>2
    <3> QED BY <1>0, <3>1, <3>2
  <2>4. ASSUME NEW k \in 0 .. Len(p) + Len(q)
        PROVE  h[k] \in Memories
    <3>1. CASE k <= Len(p)
      <4>1. h[k] = f[k] /\ k \in 0 .. Len(p)
        BY <1>0, <3>1
      <4> QED BY <2>1, <4>1
    <3>2. CASE ~ (k <= Len(p))
      <4>1. h[k] = g[k - Len(p)] /\ k - Len(p) \in 0 .. Len(q)
        BY <1>0, <3>2
      <4> QED BY <2>1, <4>1
    <3> QED BY <3>1, <3>2
  <2> QED BY <1>7, <2>2, <2>3, <2>4
<1>9. ASSUME NEW k \in 1 .. Len(r)
      PROVE  h[k] = Assign(h[k - 1], r[k])
  <2>0. k \in Nat \ {0} /\ k \in 0 .. Len(p) + Len(q) /\ k - 1 \in 0 .. Len(p) + Len(q)
        /\ k \in 1 .. Len(p) + Len(q)
    BY <1>0, <1>7
  <2>1. CASE k <= Len(p)
    <3>1. f[k] = Assign(f[k - 1], p[k])
      BY <1>0, <1>1, <2>0, <2>1 DEF Trail
    <3>2. h[k] = f[k] /\ h[k - 1] = f[k - 1] /\ r[k] = p[k]
      BY <1>0, <1>7, <2>0, <2>1
    <3> QED BY <3>1, <3>2
  <2>2. CASE k = Len(p) + 1
    <3>1. 1 \in 1 .. Len(q) /\ k - Len(p) = 1 /\ k - 1 = Len(p)
      BY <1>0, <1>7, <2>0, <2>2
    <3>2. g[1] = Assign(g[1 - 1], q[1]) /\ g[0] = f[Len(p)]
      BY <1>4, <3>1 DEF Trail
    <3>3. h[k] = g[1] /\ h[k - 1] = f[Len(p)] /\ r[k] = q[1]
      BY <1>0, <1>7, <2>0, <2>2, <3>1
    <3> QED BY <3>2, <3>3
  <2>3. CASE k > Len(p) + 1
    <3>1. k - Len(p) \in 1 .. Len(q) /\ (k - Len(p)) - 1 = (k - 1) - Len(p)
      BY <1>0, <1>7, <2>0, <2>3
    <3>2. g[k - Len(p)] = Assign(g[(k - 1) - Len(p)], q[k - Len(p)])
      BY <1>4, <3>1 DEF Trail
    <3>3. h[k] = g[k - Len(p)] /\ h[k - 1] = g[(k - 1) - Len(p)] /\ r[k] = q[k - Len(p)]
      BY <1>0, <1>7, <2>0, <2>3
    <3> QED BY <3>2, <3>3
  <2> QED BY <1>0, <2>0, <2>1, <2>2, <2>3
<1> HIDE DEF h
<1>10. Trail(h, m, r)
  BY <1>8, <1>9 DEF Trail
<1>11. Executed(m, r) = h[Len(r)]
  BY <1>7, <1>10, TrailIs
<1> QED BY <1>2, <1>5, <1>7, <1>8, <1>11, <1>a DEF Leads

\* When no two assignments have the same cell on the left, and none reads a cell
\* written before it, each cell on a left gets what its right held at first.
LEMMA ExecutedApart ==
  ASSUME Position, NEW m \in Memories, NEW p \in Seq(Cell \X Targets),
         \A x \in 1 .. Len(p), y \in 1 .. Len(p) : x < y => p[x][2] # p[y][2] /\ p[x][2] # p[y][1]
  PROVE  /\ Executed(m, p) \in Memories
         /\ \A x \in 1 .. Len(p) : Read(Executed(m, p), p[x][2]) = Read(m, p[x][1])
         /\ \A c \in Cell : (\A x \in 1 .. Len(p) : c # p[x][2])
                               => Read(Executed(m, p), c) = Read(m, c)
<1>1. PICK f : Trail(f, m, p)
  BY TrailExists
<1>2. Executed(m, p) = f[Len(p)]
  BY <1>1, TrailIs
<1>3. Len(p) \in Nat /\ \A x \in 1 .. Len(p) : p[x][1] \in Cell /\ p[x][2] \in Targets
        /\ p[x] = <<p[x][1], p[x][2]>>
  <2>1. \A x \in 1 .. Len(p) : p[x] \in Cell \X Targets
    OBVIOUS
  <2> QED BY <2>1
<1> DEFINE Got(k) == \A x \in 1 .. k : Read(f[k], p[x][2]) = Read(m, p[x][1])
           Kept(k) == \A c \in Cell : (\A x \in 1 .. k : c # p[x][2]) => Read(f[k], c) = Read(m, c)
           S == {k \in Nat : k <= Len(p) => f[k] \in Memories /\ Got(k) /\ Kept(k)}
<1>4. 0 \in S
  BY <1>1 DEF Trail
<1>5. ASSUME NEW k \in Nat, k \in S
      PROVE  k + 1 \in S
  <2> SUFFICES ASSUME k + 1 <= Len(p)
               PROVE  f[k + 1] \in Memories /\ Got(k + 1) /\ Kept(k + 1)
    OBVIOUS
  <2>1. f[k] \in Memories /\ Got(k) /\ Kept(k) /\ k + 1 \in 1 .. Len(p) /\ (k + 1) - 1 = k
    BY <1>3, <1>5
  <2>2. PICK s \in Cell, t \in Targets : s = p[k + 1][1] /\ t = p[k + 1][2]
    BY <1>3, <2>1
  <2>3. f[k + 1] = Assign(f[k], <<s, t>>)
    BY <1>1, <1>3, <2>1, <2>2 DEF Trail
  <2>4. /\ f[k + 1] \in Memories
        /\ \A c \in Cell : Read(f[k + 1], c) = IF c = t THEN Read(f[k], s) ELSE Read(f[k], c)
    BY <2>1, <2>3, AssignIs
  <2>5. ASSUME NEW x \in 1 .. k
        PROVE  p[x][2] # t /\ p[x][2] # s
    <3>1. x \in 1 .. Len(p) /\ x < k + 1
      BY <1>3, <2>1
    <3>2. p[x][2] # p[k + 1][2] /\ p[x][2] # p[k + 1][1]
      BY <2>1, <3>1
    <3> QED BY <2>2, <3>2
  <2>6. Read(f[k], s) = Read(m, s)
    BY <2>1, <2>5
  <2>7. t \in Cell /\ \A x \in 1 .. Len(p) : p[x][2] \in Cell
    BY <1>3, TargetIsCell
  <2>8. Got(k + 1)
    <3> SUFFICES ASSUME NEW x \in 1 .. k + 1
                 PROVE  Read(f[k + 1], p[x][2]) = Read(m, p[x][1])
      OBVIOUS
    <3>1. CASE x = k + 1
      BY <2>2, <2>4, <2>6, <2>7, <3>1
    <3>2. CASE x # k + 1
      <4>1. x \in 1 .. k /\ x \in 1 .. Len(p)
        BY <1>3, <2>1, <3>2
      <4>2. p[x][2] # t /\ p[x][2] \in Cell /\ Read(f[k], p[x][2]) = Read(m, p[x][1])
        BY <2>1, <2>5, <2>7, <4>1
      <4> QED BY <2>4, <4>2
    <3> QED BY <3>1, <3>2
  <2>9. Kept(k + 1)
    <3> SUFFICES ASSUME NEW c \in Cell, \A x \in 1 .. k + 1 : c # p[x][2]
                 PROVE  Read(f[k + 1], c) = Read(m, c)
      OBVIOUS
    <3>1. c # t /\ \A x \in 1 .. k : c # p[x][2]
      BY <2>2
    <3>2. Read(f[k], c) = Read(m, c)
      BY <2>1, <3>1
    <3> QED BY <2>4, <3>1, <3>2
  <2> QED BY <2>4, <2>8, <2>9
<1> HIDE DEF Got, Kept
<1>6. Len(p) \in S
  <2> HIDE DEF S
  <2> QED BY <1>3, <1>4, <1>5, CountUp
<1>7. f[Len(p)] \in Memories /\ Got(Len(p)) /\ Kept(Len(p))
  BY <1>3, <1>6
<1> QED BY <1>2, <1>7 DEF Got, Kept

-----------------------------------------------------------------------------
(* The four loops between A, the temporary array and B.                    *)
\* What a cell of each kind holds.
LEMMA ReadB == \A m, x, y : Read(m, <<"B", x, y>>) = m.B[x][y]
  BY DEF Read

LEMMA ReadTmp == \A m, x : Read(m, <<"tmp", x>>) = m.tmp[x]
  BY DEF Read

LEMMA ReadA == \A m, x, y : Read(m, <<"A", x, y>>) = Element(x, y)
  BY DEF Read

\* A function on 1 .. n is a sequence of length n.
LEMMA SequenceOf ==
  ASSUME NEW S, NEW n \in Nat, NEW p \in [1 .. n -> S]
  PROVE  p \in Seq(S) /\ Len(p) = n
  OBVIOUS

\* Indices in range make a cell.
LEMMA CellsAre ==
  ASSUME Position
  PROVE  /\ \A x \in 0 .. M - 1, y \in 0 .. N - 1 : <<"B", x, y>> \in Cell /\ <<"B", x, y>> \in Targets
         /\ \A x \in 0 .. Block - 1 : <<"tmp", x>> \in Cell /\ <<"tmp", x>> \in Targets
         /\ \A x \in 0 .. N - 1, y \in 0 .. M - 1 : <<"A", x, y>> \in Cell
  BY DEF Cell, Targets

\* Assignments of n cells of A to the temporary array from t on, and of n elements
\* of it from t on to different cells of B.
FillTmp(p, n, t) ==
  /\ p \in Seq(Cell \X Targets) /\ Len(p) = n
  /\ \A x \in 1 .. n : p[x][1][1] = "A" /\ p[x][2] = <<"tmp", t + x - 1>>

EmptyTmp(p, n, t) ==
  /\ p \in Seq(Cell \X Targets) /\ Len(p) = n
  /\ \A x \in 1 .. n : p[x][1] = <<"tmp", t + x - 1>> /\ p[x][2][1] = "B"
  /\ \A x \in 1 .. n, y \in 1 .. n : x < y => p[x][2] # p[y][2]

\* n elements from t on of the temporary array are those of A at the cells given.
LEMMA ToTmp ==
  ASSUME Position, NEW m \in Memories, NEW n \in Nat, NEW t \in Nat, t + n <= Block,
         NEW p, FillTmp(p, n, t), NEW e, e = Executed(m, p)
  PROVE  /\ e \in Memories
         /\ \A x \in 0 .. M - 1, y \in 0 .. N - 1 : e.B[x][y] = m.B[x][y]
         /\ \A x \in 1 .. n : e.tmp[t + x - 1] = Read(m, p[x][1])
         /\ \A x \in 0 .. Block - 1 : x < t \/ x >= t + n => e.tmp[x] = m.tmp[x]
<1>0. Block \in Nat
  BY BlockAssumption
<1>a. /\ p \in Seq(Cell \X Targets) /\ Len(p) = n
      /\ \A x \in 1 .. n : p[x][1][1] = "A" /\ p[x][2] = <<"tmp", t + x - 1>>
  BY DEF FillTmp
<1>1. \A x \in 1 .. Len(p), y \in 1 .. Len(p) : x < y => p[x][2] # p[y][2] /\ p[x][2] # p[y][1]
  <2> SUFFICES ASSUME NEW x \in 1 .. n, NEW y \in 1 .. n, x < y
               PROVE  p[x][2] # p[y][2] /\ p[x][2] # p[y][1]
    BY <1>a
  <2>1. p[x][2] = <<"tmp", t + x - 1>> /\ p[y][2] = <<"tmp", t + y - 1>> /\ p[y][1][1] = "A"
    BY <1>a
  <2>2. p[x][2][2] = t + x - 1 /\ p[y][2][2] = t + y - 1 /\ p[x][2][1] = "tmp"
    BY <2>1
  <2>3. t + x - 1 # t + y - 1
    BY <1>a
  <2> QED BY <2>1, <2>2, <2>3
<1>2. /\ e \in Memories
      /\ \A x \in 1 .. n : Read(e, p[x][2]) = Read(m, p[x][1])
      /\ \A c \in Cell : (\A x \in 1 .. n : c # p[x][2]) => Read(e, c) = Read(m, c)
  BY <1>1, ExecutedApart, <1>a
<1>3. ASSUME NEW x \in 0 .. M - 1, NEW y \in 0 .. N - 1
      PROVE  e.B[x][y] = m.B[x][y]
  <2> DEFINE c == <<"B", x, y>>
  <2>1. c \in Cell /\ \A z \in 1 .. n : c # p[z][2]
    <3>1. \A z \in 1 .. n : p[z][2][1] = "tmp"
      BY <1>a
    <3> QED BY <3>1, CellsAre
  <2>2. Read(e, c) = Read(m, c)
    BY <1>2, <2>1
  <2> QED BY <2>2, ReadB
<1>4. ASSUME NEW x \in 1 .. n
      PROVE  e.tmp[t + x - 1] = Read(m, p[x][1])
  <2>1. Read(e, <<"tmp", t + x - 1>>) = Read(m, p[x][1])
    BY <1>2, <1>a
  <2> QED BY <2>1, ReadTmp
<1>5. ASSUME NEW x \in 0 .. Block - 1, x < t \/ x >= t + n
      PROVE  e.tmp[x] = m.tmp[x]
  <2> DEFINE c == <<"tmp", x>>
  <2>1. c \in Cell /\ \A z \in 1 .. n : c # p[z][2]
    <3>1. \A z \in 1 .. n : p[z][2] = <<"tmp", t + z - 1>> /\ t + z - 1 # x
      BY <1>0, <1>5, <1>a
    <3>2. \A z \in 1 .. n : p[z][2][2] # x
      BY <3>1
    <3> QED BY <3>2, CellsAre
  <2>2. Read(e, c) = Read(m, c)
    BY <1>2, <2>1
  <2> QED BY <2>2, ReadTmp
<1> QED BY <1>2, <1>3, <1>4, <1>5

\* Cells of B get elements of the temporary array, from t on.
LEMMA FromTmp ==
  ASSUME Position, NEW m \in Memories, NEW n \in Nat, NEW t \in Nat, t + n <= Block,
         NEW p, EmptyTmp(p, n, t), NEW e, e = Executed(m, p)
  PROVE  /\ e \in Memories
         /\ \A x \in 0 .. Block - 1 : e.tmp[x] = m.tmp[x]
         /\ \A x \in 1 .. n : Read(e, p[x][2]) = m.tmp[t + x - 1]
         /\ \A c \in Cell : c[1] = "B" /\ (\A x \in 1 .. n : c # p[x][2]) => Read(e, c) = Read(m, c)
<1>0. Block \in Nat
  BY BlockAssumption
<1>a. /\ p \in Seq(Cell \X Targets) /\ Len(p) = n
      /\ \A x \in 1 .. n : p[x][1] = <<"tmp", t + x - 1>> /\ p[x][2][1] = "B"
      /\ \A x \in 1 .. n, y \in 1 .. n : x < y => p[x][2] # p[y][2]
  BY DEF EmptyTmp
<1>1. \A x \in 1 .. Len(p), y \in 1 .. Len(p) : x < y => p[x][2] # p[y][2] /\ p[x][2] # p[y][1]
  <2> SUFFICES ASSUME NEW x \in 1 .. n, NEW y \in 1 .. n, x < y
               PROVE  p[x][2] # p[y][2] /\ p[x][2] # p[y][1]
    BY <1>a
  <2>1. p[x][2][1] = "B" /\ p[y][1][1] = "tmp" /\ p[x][2] # p[y][2]
    BY <1>a
  <2> QED BY <2>1
<1>2. /\ e \in Memories
      /\ \A x \in 1 .. n : Read(e, p[x][2]) = Read(m, p[x][1])
      /\ \A c \in Cell : (\A x \in 1 .. n : c # p[x][2]) => Read(e, c) = Read(m, c)
  BY <1>1, ExecutedApart, <1>a
<1>3. ASSUME NEW x \in 0 .. Block - 1
      PROVE  e.tmp[x] = m.tmp[x]
  <2> DEFINE c == <<"tmp", x>>
  <2>1. c \in Cell /\ \A z \in 1 .. n : c # p[z][2]
    <3>1. \A z \in 1 .. n : p[z][2][1] = "B"
      BY <1>a
    <3> QED BY <3>1, CellsAre
  <2>2. Read(e, c) = Read(m, c)
    BY <1>2, <2>1
  <2> QED BY <2>2, ReadTmp
<1>4. \A x \in 1 .. n : Read(e, p[x][2]) = m.tmp[t + x - 1]
  BY <1>2, ReadTmp, <1>a
<1> QED BY <1>2, <1>3, <1>4

\* The assignments of p lead from memory m to memory e: n elements from t on of
\* the temporary array are those of a row or a column of A, the rest stays.
RowLoaded(p, e, m, r, c, n, t) ==
  /\ p \in Seq(Cell \X Targets) /\ e \in Memories
  /\ \A x \in 0 .. M - 1, y \in 0 .. N - 1 : e.B[x][y] = m.B[x][y]
  /\ \A x \in 0 .. n - 1 : e.tmp[t + x] = Element(r, c + x)
  /\ \A x \in 0 .. Block - 1 : x < t \/ x >= t + n => e.tmp[x] = m.tmp[x]

ColumnLoaded(p, e, m, r, c, n, t) ==
  /\ p \in Seq(Cell \X Targets) /\ e \in Memories
  /\ \A x \in 0 .. M - 1, y \in 0 .. N - 1 : e.B[x][y] = m.B[x][y]
  /\ \A x \in 0 .. n - 1 : e.tmp[t + x] = Element(r + x, c)
  /\ \A x \in 0 .. Block - 1 : x < t \/ x >= t + n => e.tmp[x] = m.tmp[x]

\* They lead from m to e: n elements from t on of the temporary array are in a row
\* or a column of B, the rest stays.
RowStored(p, e, m, r, c, n, t) ==
  /\ p \in Seq(Cell \X Targets) /\ e \in Memories
  /\ \A x \in 0 .. Block - 1 : e.tmp[x] = m.tmp[x]
  /\ \A x \in 0 .. n - 1 : e.B[r][c + x] = m.tmp[t + x]
  /\ \A x \in 0 .. M - 1, y \in 0 .. N - 1 :
       x # r \/ y < c \/ y >= c + n => e.B[x][y] = m.B[x][y]

ColumnStored(p, e, m, r, c, n, t) ==
  /\ p \in Seq(Cell \X Targets) /\ e \in Memories
  /\ \A x \in 0 .. Block - 1 : e.tmp[x] = m.tmp[x]
  /\ \A x \in 0 .. n - 1 : e.B[r + x][c] = m.tmp[t + x]
  /\ \A x \in 0 .. M - 1, y \in 0 .. N - 1 :
       y # c \/ x < r \/ x >= r + n => e.B[x][y] = m.B[x][y]

\* A row of A into the temporary array: the loops of lines 147 and 172.
LEMMA RowToTmpDoes ==
  ASSUME Position, NEW m \in Memories, NEW n \in Nat, NEW t \in Nat, t + n <= Block,
         NEW r \in Nat, NEW c \in Nat, r < N, c + n <= M,
         NEW p, p = RowToTmp(r, c, n, t), NEW e, e = Executed(m, p)
  PROVE  RowLoaded(p, e, m, r, c, n, t)
<1>0. Block \in Nat /\ M \in Nat /\ N \in Nat
  BY BlockAssumption DEF Position
<1>2. /\ p \in Seq(Cell \X Targets) /\ Len(p) = n
      /\ \A x \in 1 .. n : p[x] = << <<"A", r, c + x - 1>>, <<"tmp", t + x - 1>> >>
  <2>1. \A x \in 1 .. n : << <<"A", r, c + x - 1>>, <<"tmp", t + x - 1>> >> \in Cell \X Targets
    <3> TAKE x \in 1 .. n
    <3>1. r \in 0 .. N - 1 /\ c + x - 1 \in 0 .. M - 1 /\ t + x - 1 \in 0 .. Block - 1
      BY <1>0
    <3> QED BY <3>1, CellsAre
  <2>2. p = [x \in 1 .. n |-> << <<"A", r, c + x - 1>>, <<"tmp", t + x - 1>> >>]
    BY DEF RowToTmp
  <2>3. p \in [1 .. n -> Cell \X Targets]
    BY <2>1, <2>2
  <2> QED BY <2>2, <2>3, SequenceOf
<1>3. \A x \in 1 .. n : /\ p[x][1] = <<"A", r, c + x - 1>>
                        /\ p[x][1][1] = "A" /\ p[x][2] = <<"tmp", t + x - 1>>
  BY <1>2
<1>4. /\ e \in Memories
      /\ \A x \in 0 .. M - 1, y \in 0 .. N - 1 : e.B[x][y] = m.B[x][y]
      /\ \A x \in 1 .. n : e.tmp[t + x - 1] = Read(m, p[x][1])
      /\ \A x \in 0 .. Block - 1 : x < t \/ x >= t + n => e.tmp[x] = m.tmp[x]
  <2>1. FillTmp(p, n, t)
    BY <1>2, <1>3 DEF FillTmp
  <2> QED BY <2>1, ToTmp
<1>5. ASSUME NEW x \in 0 .. n - 1
      PROVE  e.tmp[t + x] = Element(r, c + x)
  <2>1. x + 1 \in 1 .. n /\ t + (x + 1) - 1 = t + x /\ c + (x + 1) - 1 = c + x
    OBVIOUS
  <2>2. e.tmp[t + (x + 1) - 1] = Read(m, p[x + 1][1]) /\ p[x + 1][1] = <<"A", r, c + (x + 1) - 1>>
    BY <1>3, <1>4, <2>1
  <2>3. Read(m, <<"A", r, c + x>>) = Element(r, c + x)
    BY ReadA
  <2> QED BY <2>1, <2>2, <2>3
<1> QED BY <1>2, <1>4, <1>5 DEF RowLoaded

\* The temporary array into a column of B.
LEMMA TmpToColumnDoes ==
  ASSUME Position, NEW m \in Memories, NEW n \in Nat, NEW t \in Nat, t + n <= Block,
         NEW r \in Nat, NEW c \in Nat, r + n <= M, c < N,
         NEW p, p = TmpToColumn(r, c, n, t), NEW e, e = Executed(m, p)
  PROVE  ColumnStored(p, e, m, r, c, n, t)
<1>0. Block \in Nat /\ M \in Nat /\ N \in Nat
  BY BlockAssumption DEF Position
<1>2. /\ p \in Seq(Cell \X Targets) /\ Len(p) = n
      /\ \A x \in 1 .. n : p[x] = << <<"tmp", t + x - 1>>, <<"B", r + x - 1, c>> >>
  <2>1. \A x \in 1 .. n : << <<"tmp", t + x - 1>>, <<"B", r + x - 1, c>> >> \in Cell \X Targets
    <3> TAKE x \in 1 .. n
    <3>1. c \in 0 .. N - 1 /\ r + x - 1 \in 0 .. M - 1 /\ t + x - 1 \in 0 .. Block - 1
      BY <1>0
    <3> QED BY <3>1, CellsAre
  <2>2. p = [x \in 1 .. n |-> << <<"tmp", t + x - 1>>, <<"B", r + x - 1, c>> >>]
    BY DEF TmpToColumn
  <2>3. p \in [1 .. n -> Cell \X Targets]
    BY <2>1, <2>2
  <2> QED BY <2>2, <2>3, SequenceOf
<1>3. \A x \in 1 .. n : /\ p[x][1] = <<"tmp", t + x - 1>>
                        /\ p[x][2] = <<"B", r + x - 1, c>>
                        /\ p[x][2][1] = "B" /\ p[x][2][2] = r + x - 1 /\ p[x][2][3] = c
  BY <1>2
<1>4. \A x \in 1 .. n, y \in 1 .. n : x < y => p[x][2] # p[y][2]
  <2> SUFFICES ASSUME NEW x \in 1 .. n, NEW y \in 1 .. n, x < y PROVE p[x][2][2] # p[y][2][2]
    OBVIOUS
  <2>1. r + x - 1 # r + y - 1
    OBVIOUS
  <2> QED BY <1>3, <2>1
<1>5. /\ e \in Memories
      /\ \A x \in 0 .. Block - 1 : e.tmp[x] = m.tmp[x]
      /\ \A x \in 1 .. n : Read(e, p[x][2]) = m.tmp[t + x - 1]
      /\ \A d \in Cell : d[1] = "B" /\ (\A x \in 1 .. n : d # p[x][2]) => Read(e, d) = Read(m, d)
  <2>1. EmptyTmp(p, n, t)
    BY <1>2, <1>3, <1>4 DEF EmptyTmp
  <2> QED BY <2>1, FromTmp
<1>6. ASSUME NEW x \in 0 .. n - 1
      PROVE  e.B[r + x][c] = m.tmp[t + x]
  <2>1. x + 1 \in 1 .. n /\ t + (x + 1) - 1 = t + x /\ r + (x + 1) - 1 = r + x
    OBVIOUS
  <2>2. Read(e, p[x + 1][2]) = m.tmp[t + (x + 1) - 1] /\ p[x + 1][2] = <<"B", r + (x + 1) - 1, c>>
    BY <1>3, <1>5, <2>1
  <2>3. Read(e, <<"B", r + x, c>>) = e.B[r + x][c]
    BY ReadB
  <2> QED BY <2>1, <2>2, <2>3
<1>7. ASSUME NEW x \in 0 .. M - 1, NEW y \in 0 .. N - 1, y # c \/ x < r \/ x >= r + n
      PROVE  e.B[x][y] = m.B[x][y]
  <2> DEFINE d == <<"B", x, y>>
  <2>1. d \in Cell /\ d[1] = "B" /\ d[2] = x /\ d[3] = y
    BY CellsAre
  <2>2. \A z \in 1 .. n : y # c \/ x # r + z - 1
    BY <1>7
  <2>3. \A z \in 1 .. n : d # p[z][2]
    BY <1>3, <2>1, <2>2
  <2>4. Read(e, d) = Read(m, d)
    BY <1>5, <2>1, <2>3
  <2> QED BY <2>4, ReadB
<1> QED BY <1>2, <1>5, <1>6, <1>7 DEF ColumnStored

\* A column of A into the temporary array.
LEMMA ColumnToTmpDoes ==
  ASSUME Position, NEW m \in Memories, NEW n \in Nat, NEW t \in Nat, t + n <= Block,
         NEW r \in Nat, NEW c \in Nat, r + n <= N, c < M,
         NEW p, p = ColumnToTmp(r, c, n, t), NEW e, e = Executed(m, p)
  PROVE  ColumnLoaded(p, e, m, r, c, n, t)
<1>0. Block \in Nat /\ M \in Nat /\ N \in Nat
  BY BlockAssumption DEF Position
<1>2. /\ p \in Seq(Cell \X Targets) /\ Len(p) = n
      /\ \A x \in 1 .. n : p[x] = << <<"A", r + x - 1, c>>, <<"tmp", t + x - 1>> >>
  <2>1. \A x \in 1 .. n : << <<"A", r + x - 1, c>>, <<"tmp", t + x - 1>> >> \in Cell \X Targets
    <3> TAKE x \in 1 .. n
    <3>1. c \in 0 .. M - 1 /\ r + x - 1 \in 0 .. N - 1 /\ t + x - 1 \in 0 .. Block - 1
      BY <1>0
    <3> QED BY <3>1, CellsAre
  <2>2. p = [x \in 1 .. n |-> << <<"A", r + x - 1, c>>, <<"tmp", t + x - 1>> >>]
    BY DEF ColumnToTmp
  <2>3. p \in [1 .. n -> Cell \X Targets]
    BY <2>1, <2>2
  <2> QED BY <2>2, <2>3, SequenceOf
<1>3. \A x \in 1 .. n : /\ p[x][1] = <<"A", r + x - 1, c>>
                        /\ p[x][1][1] = "A" /\ p[x][2] = <<"tmp", t + x - 1>>
  BY <1>2
<1>4. /\ e \in Memories
      /\ \A x \in 0 .. M - 1, y \in 0 .. N - 1 : e.B[x][y] = m.B[x][y]
      /\ \A x \in 1 .. n : e.tmp[t + x - 1] = Read(m, p[x][1])
      /\ \A x \in 0 .. Block - 1 : x < t \/ x >= t + n => e.tmp[x] = m.tmp[x]
  <2>1. FillTmp(p, n, t)
    BY <1>2, <1>3 DEF FillTmp
  <2> QED BY <2>1, ToTmp
<1>5. ASSUME NEW x \in 0 .. n - 1
      PROVE  e.tmp[t + x] = Element(r + x, c)
  <2>1. x + 1 \in 1 .. n /\ t + (x + 1) - 1 = t + x /\ r + (x + 1) - 1 = r + x
    OBVIOUS
  <2>2. e.tmp[t + (x + 1) - 1] = Read(m, p[x + 1][1]) /\ p[x + 1][1] = <<"A", r + (x + 1) - 1, c>>
    BY <1>3, <1>4, <2>1
  <2>3. Read(m, <<"A", r + x, c>>) = Element(r + x, c)
    BY ReadA
  <2> QED BY <2>1, <2>2, <2>3
<1> QED BY <1>2, <1>4, <1>5 DEF ColumnLoaded

\* The temporary array into a row of B.
LEMMA TmpToRowDoes ==
  ASSUME Position, NEW m \in Memories, NEW n \in Nat, NEW t \in Nat, t + n <= Block,
         NEW r \in Nat, NEW c \in Nat, r < M, c + n <= N,
         NEW p, p = TmpToRow(r, c, n, t), NEW e, e = Executed(m, p)
  PROVE  RowStored(p, e, m, r, c, n, t)
<1>0. Block \in Nat /\ M \in Nat /\ N \in Nat
  BY BlockAssumption DEF Position
<1>2. /\ p \in Seq(Cell \X Targets) /\ Len(p) = n
      /\ \A x \in 1 .. n : p[x] = << <<"tmp", t + x - 1>>, <<"B", r, c + x - 1>> >>
  <2>1. \A x \in 1 .. n : << <<"tmp", t + x - 1>>, <<"B", r, c + x - 1>> >> \in Cell \X Targets
    <3> TAKE x \in 1 .. n
    <3>1. r \in 0 .. M - 1 /\ c + x - 1 \in 0 .. N - 1 /\ t + x - 1 \in 0 .. Block - 1
      BY <1>0
    <3> QED BY <3>1, CellsAre
  <2>2. p = [x \in 1 .. n |-> << <<"tmp", t + x - 1>>, <<"B", r, c + x - 1>> >>]
    BY DEF TmpToRow
  <2>3. p \in [1 .. n -> Cell \X Targets]
    BY <2>1, <2>2
  <2> QED BY <2>2, <2>3, SequenceOf
<1>3. \A x \in 1 .. n : /\ p[x][1] = <<"tmp", t + x - 1>>
                        /\ p[x][2] = <<"B", r, c + x - 1>>
                        /\ p[x][2][1] = "B" /\ p[x][2][2] = r /\ p[x][2][3] = c + x - 1
  BY <1>2
<1>4. \A x \in 1 .. n, y \in 1 .. n : x < y => p[x][2] # p[y][2]
  <2> SUFFICES ASSUME NEW x \in 1 .. n, NEW y \in 1 .. n, x < y PROVE p[x][2][3] # p[y][2][3]
    OBVIOUS
  <2>1. c + x - 1 # c + y - 1
    OBVIOUS
  <2> QED BY <1>3, <2>1
<1>5. /\ e \in Memories
      /\ \A x \in 0 .. Block - 1 : e.tmp[x] = m.tmp[x]
      /\ \A x \in 1 .. n : Read(e, p[x][2]) = m.tmp[t + x - 1]
      /\ \A d \in Cell : d[1] = "B" /\ (\A x \in 1 .. n : d # p[x][2]) => Read(e, d) = Read(m, d)
  <2>1. EmptyTmp(p, n, t)
    BY <1>2, <1>3, <1>4 DEF EmptyTmp
  <2> QED BY <2>1, FromTmp
<1>6. ASSUME NEW x \in 0 .. n - 1
      PROVE  e.B[r][c + x] = m.tmp[t + x]
  <2>1. x + 1 \in 1 .. n /\ t + (x + 1) - 1 = t + x /\ c + (x + 1) - 1 = c + x
    OBVIOUS
  <2>2. Read(e, p[x + 1][2]) = m.tmp[t + (x + 1) - 1] /\ p[x + 1][2] = <<"B", r, c + (x + 1) - 1>>
    BY <1>3, <1>5, <2>1
  <2>3. Read(e, <<"B", r, c + x>>) = e.B[r][c + x]
    BY ReadB
  <2> QED BY <2>1, <2>2, <2>3
<1>7. ASSUME NEW x \in 0 .. M - 1, NEW y \in 0 .. N - 1, x # r \/ y < c \/ y >= c + n
      PROVE  e.B[x][y] = m.B[x][y]
  <2> DEFINE d == <<"B", x, y>>
  <2>1. d \in Cell /\ d[1] = "B" /\ d[2] = x /\ d[3] = y
    BY CellsAre
  <2>2. \A z \in 1 .. n : x # r \/ y # c + z - 1
    BY <1>7
  <2>3. \A z \in 1 .. n : d # p[z][2]
    BY <1>3, <2>1, <2>2
  <2>4. Read(e, d) = Read(m, d)
    BY <1>5, <2>1, <2>3
  <2> QED BY <2>4, ReadB
<1> QED BY <1>2, <1>5, <1>6, <1>7 DEF RowStored

-----------------------------------------------------------------------------
(* The exchange of half a column of A with a parked half row of B.         *)
\* The assignments of the exchange come in pairs.
LEMMA Halves ==
  ASSUME NEW h \in Nat, NEW x \in 1 .. 2 * h
  PROVE  \E a \in 0 .. h - 1 : x = 2 * a + 1 \/ x = 2 * a + 2
<1>1. PICK q : q = (x - 1) \div 2
  OBVIOUS
<1>2. q \in Int /\ 2 * q <= x - 1 /\ x - 1 <= 2 * q + 1
  BY <1>1
<1> QED BY <1>2

\* The two assignments of each pair: the parked element to the temporary array, then
\* the element of A to its place.
LEMMA ExchangeIs ==
  ASSUME Square \in Multiples, Position, loop = "lowerLeft", NEW p, p = Exchange(i)
  PROVE  /\ p \in Seq(Cell \X Targets) /\ Len(p) = 2 * Half
         /\ \A a \in 0 .. Half - 1 :
              /\ p[2 * a + 1] = << <<"B", baseColIdx + i, baseRowIdx + Half + a>>, <<"tmp", Half + a>> >>
              /\ p[2 * a + 2] = << <<"A", baseRowIdx + Half + a, baseColIdx + i>>,
                                   <<"B", baseColIdx + i, baseRowIdx + Half + a>> >>
<1>1. Half \in Nat /\ Half > 0 /\ Block \in Nat /\ Block = 2 * Half
  BY BlockAssumption
<1>2. /\ baseRowIdx \in Nat /\ baseColIdx \in Nat /\ i \in Nat /\ i < Half
      /\ baseRowIdx + Block <= N /\ baseColIdx + Block <= M
      /\ M \in Nat /\ N \in Nat
  BY BlockInside
<1>3. \A x \in 1 .. 2 * Half :
        p[x] = LET y == Half + (x - 1) \div 2
                   place == <<"B", baseColIdx + i, baseRowIdx + y>>
               IN  IF x % 2 = 1 THEN <<place, <<"tmp", y>> >>
                   ELSE << <<"A", baseRowIdx + y, baseColIdx + i>>, place>>
  BY DEF Exchange
<1>4. ASSUME NEW a \in 0 .. Half - 1
      PROVE  /\ p[2 * a + 1] = << <<"B", baseColIdx + i, baseRowIdx + Half + a>>, <<"tmp", Half + a>> >>
             /\ p[2 * a + 2] = << <<"A", baseRowIdx + Half + a, baseColIdx + i>>,
                                  <<"B", baseColIdx + i, baseRowIdx + Half + a>> >>
             /\ p[2 * a + 1] \in Cell \X Targets /\ p[2 * a + 2] \in Cell \X Targets
  <2>1. /\ 2 * a + 1 \in 1 .. 2 * Half /\ 2 * a + 2 \in 1 .. 2 * Half
        /\ ((2 * a + 1) - 1) \div 2 = a /\ (2 * a + 1) % 2 = 1
        /\ ((2 * a + 2) - 1) \div 2 = a /\ (2 * a + 2) % 2 # 1
    BY <1>1
  <2>2. baseRowIdx + (Half + a) = baseRowIdx + Half + a
    BY <1>1, <1>2
  <2>3. p[2 * a + 1] = << <<"B", baseColIdx + i, baseRowIdx + Half + a>>, <<"tmp", Half + a>> >>
    BY <1>3, <2>1, <2>2
  <2>4. p[2 * a + 2] = << <<"A", baseRowIdx + Half + a, baseColIdx + i>>,
                          <<"B", baseColIdx + i, baseRowIdx + Half + a>> >>
    BY <1>3, <2>1, <2>2
  <2>5. /\ baseColIdx + i \in 0 .. M - 1 /\ baseRowIdx + Half + a \in 0 .. N - 1
        /\ Half + a \in 0 .. Block - 1
    BY <1>1, <1>2
  <2> QED BY <2>3, <2>4, <2>5, CellsAre
<1>5. p \in [1 .. 2 * Half -> Cell \X Targets]
  <2>1. p = [x \in 1 .. 2 * Half |-> p[x]]
    BY DEF Exchange
  <2>2. ASSUME NEW x \in 1 .. 2 * Half
        PROVE  p[x] \in Cell \X Targets
    <3>1. PICK a \in 0 .. Half - 1 : x = 2 * a + 1 \/ x = 2 * a + 2
      BY <1>1, Halves
    <3> QED BY <1>4, <3>1
  <2> QED BY <2>1, <2>2
<1>6. p \in Seq(Cell \X Targets) /\ Len(p) = 2 * Half
  <2>1. 2 * Half \in Nat
    BY <1>1
  <2> QED BY <1>5, <2>1, SequenceOf
<1> QED BY <1>4, <1>6

\* The parked row is in the temporary array, and column i of A in its place.
Exchanged(p, e, m) ==
  /\ p \in Seq(Cell \X Targets) /\ e \in Memories
  /\ \A a \in 0 .. Half - 1 :
       /\ e.tmp[Half + a] = m.B[baseColIdx + i][baseRowIdx + Half + a]
       /\ e.B[baseColIdx + i][baseRowIdx + Half + a] = Element(baseRowIdx + Half + a, baseColIdx + i)
  /\ \A x \in 0 .. M - 1, y \in 0 .. N - 1 :
       x # baseColIdx + i \/ y < baseRowIdx + Half \/ y >= baseRowIdx + Block
         => e.B[x][y] = m.B[x][y]

\* The exchange loses nothing: each parked element is saved before its place is
\* overwritten.
LEMMA ExchangeDoes ==
  ASSUME Square \in Multiples, Position, loop = "lowerLeft", NEW m \in Memories,
         NEW p, p = Exchange(i), NEW e, e = Executed(m, p)
  PROVE  Exchanged(p, e, m)
<1>1. Half \in Nat /\ Half > 0 /\ Block \in Nat /\ Block = 2 * Half
  BY BlockAssumption
<1>2. /\ baseRowIdx \in Nat /\ baseColIdx \in Nat /\ i \in Nat /\ i < Half
      /\ baseRowIdx + Block <= N /\ baseColIdx + Block <= M
      /\ M \in Nat /\ N \in Nat
  BY BlockInside
<1>3. /\ p \in Seq(Cell \X Targets) /\ Len(p) = 2 * Half
      /\ \A a \in 0 .. Half - 1 :
           /\ p[2 * a + 1] = << <<"B", baseColIdx + i, baseRowIdx + Half + a>>, <<"tmp", Half + a>> >>
           /\ p[2 * a + 2] = << <<"A", baseRowIdx + Half + a, baseColIdx + i>>,
                                <<"B", baseColIdx + i, baseRowIdx + Half + a>> >>
  BY ExchangeIs
<1>4. \A a \in 0 .. Half - 1 :
        /\ p[2 * a + 1][1] = <<"B", baseColIdx + i, baseRowIdx + Half + a>>
        /\ p[2 * a + 1][2] = <<"tmp", Half + a>>
        /\ p[2 * a + 2][1] = <<"A", baseRowIdx + Half + a, baseColIdx + i>>
        /\ p[2 * a + 2][2] = <<"B", baseColIdx + i, baseRowIdx + Half + a>>
  BY <1>3
<1>5. ASSUME NEW x \in 1 .. Len(p), NEW y \in 1 .. Len(p), x < y
      PROVE  p[x][2] # p[y][2] /\ p[x][2] # p[y][1]
  <2>1. PICK a \in 0 .. Half - 1 : x = 2 * a + 1 \/ x = 2 * a + 2
    BY <1>1, <1>3, Halves
  <2>2. PICK b \in 0 .. Half - 1 : y = 2 * b + 1 \/ y = 2 * b + 2
    BY <1>1, <1>3, Halves
  <2>3. CASE x = 2 * a + 1
    <3>1. p[x][2] = <<"tmp", Half + a>>
      BY <1>4, <2>3
    <3>2. p[x][2][1] = "tmp" /\ p[x][2][2] = Half + a
      BY <3>1
    <3>3. CASE y = 2 * b + 1
      <4>1. p[y][2][2] = Half + b /\ p[y][1][1] = "B" /\ Half + a # Half + b
        <5>1. p[y][1] = <<"B", baseColIdx + i, baseRowIdx + Half + b>> /\ p[y][2] = <<"tmp", Half + b>>
          BY <1>4, <3>3
        <5> QED BY <1>1, <1>5, <2>3, <3>3, <5>1
      <4> QED BY <3>2, <4>1
    <3>4. CASE y = 2 * b + 2
      <4>1. p[y][1][1] = "A" /\ p[y][2][1] = "B"
        BY <1>4, <3>4
      <4> QED BY <3>2, <4>1
    <3> QED BY <2>2, <3>3, <3>4
  <2>4. CASE x = 2 * a + 2
    <3>1. p[x][2] = <<"B", baseColIdx + i, baseRowIdx + Half + a>>
      BY <1>4, <2>4
    <3>2. p[x][2][1] = "B" /\ p[x][2][3] = baseRowIdx + Half + a
      BY <3>1
    <3>0. baseRowIdx + Half + a # baseRowIdx + Half + b
      BY <1>1, <1>2, <1>5, <2>2, <2>4
    <3>3. CASE y = 2 * b + 1
      <4>1. p[y][2][1] = "tmp" /\ p[y][1][3] = baseRowIdx + Half + b
        BY <1>4, <3>3
      <4> QED BY <3>0, <3>2, <4>1
    <3>4. CASE y = 2 * b + 2
      <4>1. p[y][1][1] = "A" /\ p[y][2][3] = baseRowIdx + Half + b
        BY <1>4, <3>4
      <4> QED BY <3>0, <3>2, <4>1
    <3> QED BY <2>2, <3>3, <3>4
  <2> QED BY <2>1, <2>3, <2>4
<1>6. /\ e \in Memories
      /\ \A x \in 1 .. Len(p) : Read(e, p[x][2]) = Read(m, p[x][1])
      /\ \A c \in Cell : (\A x \in 1 .. Len(p) : c # p[x][2]) => Read(e, c) = Read(m, c)
  BY <1>3, <1>5, ExecutedApart
<1>7. ASSUME NEW a \in 0 .. Half - 1
      PROVE  /\ e.tmp[Half + a] = m.B[baseColIdx + i][baseRowIdx + Half + a]
             /\ e.B[baseColIdx + i][baseRowIdx + Half + a] = Element(baseRowIdx + Half + a, baseColIdx + i)
  <2>1. 2 * a + 1 \in 1 .. Len(p) /\ 2 * a + 2 \in 1 .. Len(p)
    BY <1>1, <1>3
  <2>2. /\ Read(e, <<"tmp", Half + a>>) = Read(m, <<"B", baseColIdx + i, baseRowIdx + Half + a>>)
        /\ Read(e, <<"B", baseColIdx + i, baseRowIdx + Half + a>>)
             = Read(m, <<"A", baseRowIdx + Half + a, baseColIdx + i>>)
    BY <1>4, <1>6, <2>1
  <2> QED BY <2>2, ReadA, ReadB, ReadTmp
<1>8. ASSUME NEW x \in 0 .. M - 1, NEW y \in 0 .. N - 1,
             x # baseColIdx + i \/ y < baseRowIdx + Half \/ y >= baseRowIdx + Block
      PROVE  e.B[x][y] = m.B[x][y]
  <2> DEFINE d == <<"B", x, y>>
  <2>1. d \in Cell /\ d[1] = "B" /\ d[2] = x /\ d[3] = y
    BY CellsAre
  <2>2. ASSUME NEW z \in 1 .. Len(p)
        PROVE  d # p[z][2]
    <3>1. PICK a \in 0 .. Half - 1 : z = 2 * a + 1 \/ z = 2 * a + 2
      BY <1>1, <1>3, Halves
    <3>2. CASE z = 2 * a + 1
      <4>1. p[z][2][1] = "tmp"
        BY <1>4, <3>2
      <4> QED BY <2>1, <4>1
    <3>3. CASE z = 2 * a + 2
      <4>1. p[z][2][2] = baseColIdx + i /\ p[z][2][3] = baseRowIdx + Half + a
        BY <1>4, <3>3
      <4>2. x # baseColIdx + i \/ y # baseRowIdx + Half + a
        BY <1>1, <1>2, <1>8
      <4> QED BY <2>1, <4>1, <4>2
    <3> QED BY <3>1, <3>2, <3>3
  <2>3. Read(e, d) = Read(m, d)
    BY <1>6, <2>1, <2>2
  <2> QED BY <2>3, ReadB
<1> QED BY <1>3, <1>6, <1>7, <1>8 DEF Exchanged

-----------------------------------------------------------------------------
(* A turn of each loop over the columns or rows of a block.                *)
\* What one turn of each loop does to B.
LEMMA RowTurn ==
  ASSUME Position, loop = "row", NEW m \in Memories,
         NEW p, p = RowCopies(i), NEW e, e = Executed(m, p)
  PROVE  /\ p \in Seq(Cell \X Targets) /\ e \in Memories
         /\ \A x \in 0 .. M - 1, y \in 0 .. N - 1 :
              e.B[x][y] = IF y = baseRowIdx + i /\ baseColIdx <= x /\ x < baseColIdx + Block
                          THEN Element(y, x) ELSE m.B[x][y]
<1>0. Block \in Nat /\ M \in Nat /\ baseColIdx \in 0 .. M - 1
  BY BlockAssumption DEF Position
<1>1. PICK w \in Nat : w = IF baseColIdx + Block <= M THEN Block ELSE M - baseColIdx
  <2>1. (IF baseColIdx + Block <= M THEN Block ELSE M - baseColIdx) \in Nat
    BY <1>0
  <2> QED BY <2>1
<1>2. PICK r \in Nat, c \in Nat : r = baseRowIdx + i /\ c = baseColIdx
  BY DEF Position
<1>3. /\ Block \in Nat /\ M \in Nat /\ N \in Nat /\ w \in Nat /\ w <= Block /\ 0 + w <= Block
      /\ r \in Nat /\ c \in Nat /\ r < N /\ c + w <= M /\ 0 \in Nat
      /\ \A x \in 0 .. M - 1 : x < c + w <=> x < c + Block
  BY <1>1, <1>2, BlockAssumption DEF Position
<1>4. PICK q1, q2, e1, e2 : /\ q1 = RowToTmp(r, c, w, 0) /\ q2 = TmpToColumn(c, r, w, 0)
                            /\ e1 = Executed(m, q1) /\ e2 = Executed(e1, q2)
  OBVIOUS
<1>5. /\ q1 \in Seq(Cell \X Targets) /\ e1 \in Memories
      /\ \A x \in 0 .. M - 1, y \in 0 .. N - 1 : e1.B[x][y] = m.B[x][y]
      /\ \A x \in 0 .. w - 1 : e1.tmp[0 + x] = Element(r, c + x)
  <2>1. RowLoaded(q1, e1, m, r, c, w, 0)
    BY <1>3, <1>4, RowToTmpDoes
  <2> QED BY <2>1 DEF RowLoaded
<1>6. /\ q2 \in Seq(Cell \X Targets) /\ e2 \in Memories
      /\ \A x \in 0 .. w - 1 : e2.B[c + x][r] = e1.tmp[0 + x]
      /\ \A x \in 0 .. M - 1, y \in 0 .. N - 1 :
           y # r \/ x < c \/ x >= c + w => e2.B[x][y] = e1.B[x][y]
  <2>1. ColumnStored(q2, e2, e1, c, r, w, 0)
    BY <1>3, <1>4, <1>5, TmpToColumnDoes
  <2> QED BY <2>1 DEF ColumnStored
<1>7. p = q1 \o q2
  BY <1>1, <1>2, <1>4 DEF RowCopies
<1>8. p \in Seq(Cell \X Targets) /\ e = e2
  <2>1. Leads(m, q1, e1) /\ Leads(e1, q2, e2)
    BY <1>4, <1>5, <1>6 DEF Leads
  <2>2. Leads(m, p, e2)
    BY <1>7, <2>1, ExecutedConcat
  <2> QED BY <2>2 DEF Leads
<1>9. ASSUME NEW x \in 0 .. M - 1, NEW y \in 0 .. N - 1
      PROVE  e.B[x][y] = IF y = r /\ c <= x /\ x < c + Block THEN Element(y, x) ELSE m.B[x][y]
  <2>1. CASE y = r /\ c <= x /\ x < c + w
    <3>1. x - c \in 0 .. w - 1 /\ c + (x - c) = x
      BY <1>3, <2>1
    <3>2. e2.B[c + (x - c)][r] = e1.tmp[0 + (x - c)] /\ e1.tmp[0 + (x - c)] = Element(r, c + (x - c))
      BY <1>5, <1>6, <3>1
    <3> QED BY <1>3, <1>8, <2>1, <3>1, <3>2
  <2>2. CASE ~ (y = r /\ c <= x /\ x < c + w)
    <3>1. y # r \/ x < c \/ x >= c + w
      BY <1>3, <2>2
    <3> QED BY <1>3, <1>5, <1>6, <1>8, <2>2, <3>1
  <2> QED BY <2>1, <2>2
<1> QED BY <1>2, <1>6, <1>8, <1>9

\* The upper half of the block: the left part goes to its place, the right one is parked.
LEMMA UpperTurn ==
  ASSUME Square \in Multiples, Position, loop = "upper", NEW m \in Memories,
         NEW p, p = UpperCopies(i), NEW e, e = Executed(m, p)
  PROVE  /\ p \in Seq(Cell \X Targets) /\ e \in Memories
         /\ \A x \in 0 .. M - 1, y \in 0 .. N - 1 :
              e.B[x][y] =
                IF baseColIdx <= x /\ x < baseColIdx + Half /\ y = baseRowIdx + i THEN Element(y, x)
                ELSE IF baseColIdx <= x /\ x < baseColIdx + Half /\ y = baseRowIdx + i + Half
                     THEN Element(baseRowIdx + i, x + Half) ELSE m.B[x][y]
<1>1. Half \in Nat /\ Half > 0 /\ Block \in Nat /\ Block = 2 * Half
  BY BlockAssumption
<1>2. /\ baseRowIdx \in Nat /\ baseColIdx \in Nat /\ i \in Nat /\ i < Half
      /\ baseRowIdx + Block <= N /\ baseColIdx + Block <= M
      /\ M \in Nat /\ N \in Nat
  BY BlockInside
<1>3. PICK r \in Nat, c \in Nat, h \in Nat : r = baseRowIdx + i /\ c = baseColIdx /\ h = Half
  BY <1>1, <1>2
<1>4. /\ r \in Nat /\ c \in Nat /\ c + h \in Nat /\ r + h \in Nat /\ 0 \in Nat /\ h \in Nat /\ h > 0
      /\ r < N /\ r + h < N /\ c + h <= M /\ (c + h) + h <= M
      /\ 0 + h <= Block /\ h + h <= Block /\ M \in Nat /\ N \in Nat
  BY <1>1, <1>2, <1>3
<1>5. PICK q1, q2, q3, q4, e1, e2, e3, e4 :
        /\ q1 = RowToTmp(r, c, h, 0) /\ q2 = TmpToColumn(c, r, h, 0)
        /\ q3 = RowToTmp(r, c + h, h, h) /\ q4 = TmpToColumn(c, r + h, h, h)
        /\ e1 = Executed(m, q1) /\ e2 = Executed(e1, q2)
        /\ e3 = Executed(e2, q3) /\ e4 = Executed(e3, q4)
  OBVIOUS
<1>6. /\ q1 \in Seq(Cell \X Targets) /\ e1 \in Memories
      /\ \A x \in 0 .. M - 1, y \in 0 .. N - 1 : e1.B[x][y] = m.B[x][y]
      /\ \A x \in 0 .. h - 1 : e1.tmp[0 + x] = Element(r, c + x)
  <2>1. RowLoaded(q1, e1, m, r, c, h, 0)
    BY <1>4, <1>5, RowToTmpDoes
  <2> QED BY <2>1 DEF RowLoaded
<1>7. /\ q2 \in Seq(Cell \X Targets) /\ e2 \in Memories
      /\ \A x \in 0 .. h - 1 : e2.B[c + x][r] = e1.tmp[0 + x]
      /\ \A x \in 0 .. M - 1, y \in 0 .. N - 1 :
           y # r \/ x < c \/ x >= c + h => e2.B[x][y] = e1.B[x][y]
  <2>1. ColumnStored(q2, e2, e1, c, r, h, 0)
    BY <1>4, <1>5, <1>6, TmpToColumnDoes
  <2> QED BY <2>1 DEF ColumnStored
<1>8. /\ q3 \in Seq(Cell \X Targets) /\ e3 \in Memories
      /\ \A x \in 0 .. M - 1, y \in 0 .. N - 1 : e3.B[x][y] = e2.B[x][y]
      /\ \A x \in 0 .. h - 1 : e3.tmp[h + x] = Element(r, (c + h) + x)
  <2>1. RowLoaded(q3, e3, e2, r, c + h, h, h)
    BY <1>4, <1>5, <1>7, RowToTmpDoes
  <2> QED BY <2>1 DEF RowLoaded
<1>9. /\ q4 \in Seq(Cell \X Targets) /\ e4 \in Memories
      /\ \A x \in 0 .. h - 1 : e4.B[c + x][r + h] = e3.tmp[h + x]
      /\ \A x \in 0 .. M - 1, y \in 0 .. N - 1 :
           y # r + h \/ x < c \/ x >= c + h => e4.B[x][y] = e3.B[x][y]
  <2>1. ColumnStored(q4, e4, e3, c, r + h, h, h)
    BY <1>4, <1>5, <1>8, TmpToColumnDoes
  <2> QED BY <2>1 DEF ColumnStored
<1>10. p = q1 \o q2 \o q3 \o q4
  BY <1>3, <1>5 DEF UpperCopies
<1>11. p \in Seq(Cell \X Targets) /\ e = e4
  <2>1. Leads(m, q1, e1) /\ Leads(e1, q2, e2) /\ Leads(e2, q3, e3) /\ Leads(e3, q4, e4)
    BY <1>5, <1>6, <1>7, <1>8, <1>9 DEF Leads
  <2>2. Leads(m, q1 \o q2, e2)
    BY <2>1, ExecutedConcat
  <2>3. Leads(m, q1 \o q2 \o q3, e3)
    BY <2>1, <2>2, ExecutedConcat
  <2>4. Leads(m, p, e4)
    BY <1>10, <2>1, <2>3, ExecutedConcat
  <2> QED BY <2>4 DEF Leads
<1>12. ASSUME NEW x \in 0 .. M - 1, NEW y \in 0 .. N - 1
       PROVE  e.B[x][y] =
                IF c <= x /\ x < c + h /\ y = r THEN Element(y, x)
                ELSE IF c <= x /\ x < c + h /\ y = r + h THEN Element(r, x + h) ELSE m.B[x][y]
  <2>0. r # r + h
    BY <1>4
  <2>1. CASE c <= x /\ x < c + h /\ y = r
    <3>1. x - c \in 0 .. h - 1 /\ c + (x - c) = x
      BY <1>4, <2>1
    <3>2. e2.B[c + (x - c)][r] = e1.tmp[0 + (x - c)] /\ e1.tmp[0 + (x - c)] = Element(r, c + (x - c))
      BY <1>6, <1>7, <3>1
    <3>3. e4.B[x][y] = e2.B[x][y]
      BY <1>8, <1>9, <2>0, <2>1
    <3> QED BY <1>11, <2>1, <3>1, <3>2, <3>3
  <2>2. CASE c <= x /\ x < c + h /\ y = r + h
    <3>1. x - c \in 0 .. h - 1 /\ c + (x - c) = x /\ (c + h) + (x - c) = x + h
      BY <1>4, <2>2
    <3>2. /\ e4.B[c + (x - c)][r + h] = e3.tmp[h + (x - c)]
          /\ e3.tmp[h + (x - c)] = Element(r, (c + h) + (x - c))
      BY <1>8, <1>9, <3>1
    <3> QED BY <1>11, <2>0, <2>2, <3>1, <3>2
  <2>3. CASE ~ (c <= x /\ x < c + h /\ y \in {r, r + h})
    <3>1. (y # r \/ x < c \/ x >= c + h) /\ (y # r + h \/ x < c \/ x >= c + h)
      BY <1>4, <2>3
    <3> QED BY <1>6, <1>7, <1>8, <1>9, <1>11, <2>3, <3>1
  <2> QED BY <2>1, <2>2, <2>3
<1> QED BY <1>3, <1>9, <1>11, <1>12

\* The parked row goes to its place and column i of A to its own.
LEMMA LowerLeftTurn ==
  ASSUME Square \in Multiples, Position, loop = "lowerLeft", NEW m \in Memories,
         NEW p, p = LowerLeftCopies(i), NEW e, e = Executed(m, p)
  PROVE  /\ p \in Seq(Cell \X Targets) /\ e \in Memories
         /\ \A x \in 0 .. M - 1, y \in 0 .. N - 1 :
              e.B[x][y] =
                IF x = baseColIdx + i /\ baseRowIdx + Half <= y /\ y < baseRowIdx + Block
                THEN Element(y, x)
                ELSE IF x = baseColIdx + i + Half /\ baseRowIdx <= y /\ y < baseRowIdx + Half
                     THEN m.B[baseColIdx + i][y + Half] ELSE m.B[x][y]
<1>1. Half \in Nat /\ Half > 0 /\ Block \in Nat /\ Block = 2 * Half
  BY BlockAssumption
<1>2. /\ baseRowIdx \in Nat /\ baseColIdx \in Nat /\ i \in Nat /\ i < Half
      /\ baseRowIdx + Block <= N /\ baseColIdx + Block <= M
      /\ M \in Nat /\ N \in Nat
  BY BlockInside
<1>3. PICK r \in Nat, c \in Nat, h \in Nat : r = baseRowIdx /\ c = baseColIdx + i /\ h = Half
  BY <1>1, <1>2
<1>4. /\ r \in Nat /\ c \in Nat /\ c + h \in Nat /\ h \in Nat /\ h > 0
      /\ r + h <= N /\ c + h < M /\ c < M /\ h + h <= Block /\ r + Block = (r + h) + h
      /\ r + Block <= N /\ M \in Nat /\ N \in Nat
  BY <1>1, <1>2, <1>3
<1>5. PICK q1, q2, e1, e2 : /\ q1 = Exchange(i) /\ q2 = TmpToRow(c + h, r, h, h)
                            /\ e1 = Executed(m, q1) /\ e2 = Executed(e1, q2)
  OBVIOUS
<1>6. /\ q1 \in Seq(Cell \X Targets) /\ e1 \in Memories
      /\ \A a \in 0 .. h - 1 :
           e1.tmp[h + a] = m.B[c][r + h + a] /\ e1.B[c][r + h + a] = Element(r + h + a, c)
      /\ \A x \in 0 .. M - 1, y \in 0 .. N - 1 :
           x # c \/ y < r + h \/ y >= r + Block => e1.B[x][y] = m.B[x][y]
  <2>1. Exchanged(q1, e1, m)
    BY <1>5, ExchangeDoes
  <2> QED BY <1>3, <2>1 DEF Exchanged
<1>7. /\ q2 \in Seq(Cell \X Targets) /\ e2 \in Memories
      /\ \A x \in 0 .. h - 1 : e2.B[c + h][r + x] = e1.tmp[h + x]
      /\ \A x \in 0 .. M - 1, y \in 0 .. N - 1 :
           x # c + h \/ y < r \/ y >= r + h => e2.B[x][y] = e1.B[x][y]
  <2>1. RowStored(q2, e2, e1, c + h, r, h, h)
    BY <1>4, <1>5, <1>6, TmpToRowDoes
  <2> QED BY <2>1 DEF RowStored
<1>8. p = q1 \o q2
  BY <1>3, <1>5 DEF LowerLeftCopies
<1>9. p \in Seq(Cell \X Targets) /\ e = e2
  <2>1. Leads(m, q1, e1) /\ Leads(e1, q2, e2)
    BY <1>5, <1>6, <1>7 DEF Leads
  <2>2. Leads(m, p, e2)
    BY <1>8, <2>1, ExecutedConcat
  <2> QED BY <2>2 DEF Leads
<1>10. ASSUME NEW x \in 0 .. M - 1, NEW y \in 0 .. N - 1
       PROVE  e.B[x][y] =
                IF x = c /\ r + h <= y /\ y < r + Block THEN Element(y, x)
                ELSE IF x = c + h /\ r <= y /\ y < r + h THEN m.B[c][y + h] ELSE m.B[x][y]
  <2>0. c # c + h
    BY <1>4
  <2>1. CASE x = c /\ r + h <= y /\ y < r + Block
    <3>1. y - r - h \in 0 .. h - 1 /\ r + h + (y - r - h) = y
      BY <1>4, <2>1
    <3>2. e1.B[c][r + h + (y - r - h)] = Element(r + h + (y - r - h), c)
      BY <1>6, <3>1
    <3>3. e2.B[x][y] = e1.B[x][y]
      BY <1>7, <2>0, <2>1
    <3> QED BY <1>9, <2>1, <3>1, <3>2, <3>3
  <2>2. CASE x = c + h /\ r <= y /\ y < r + h
    <3>1. y - r \in 0 .. h - 1 /\ r + (y - r) = y /\ r + h + (y - r) = y + h
      BY <1>4, <2>2
    <3>2. e2.B[c + h][r + (y - r)] = e1.tmp[h + (y - r)] /\ e1.tmp[h + (y - r)] = m.B[c][r + h + (y - r)]
      BY <1>6, <1>7, <3>1
    <3> QED BY <1>9, <2>0, <2>2, <3>1, <3>2
  <2>3. CASE ~ (x = c /\ r + h <= y /\ y < r + Block) /\ ~ (x = c + h /\ r <= y /\ y < r + h)
    <3>1. (x # c \/ y < r + h \/ y >= r + Block) /\ (x # c + h \/ y < r \/ y >= r + h)
      BY <1>1, <1>4, <2>3
    <3>2. e.B[x][y] = m.B[x][y]
      BY <1>6, <1>7, <1>9, <3>1
    <3> QED BY <2>3, <3>2
  <2> QED BY <2>1, <2>2, <2>3
<1> QED BY <1>3, <1>7, <1>9, <1>10

\* The last quarter of the block.
LEMMA LowerRightTurn ==
  ASSUME Square \in Multiples, Position, loop = "lowerRight", NEW m \in Memories,
         NEW p, p = LowerRightCopies(i), NEW e, e = Executed(m, p)
  PROVE  /\ p \in Seq(Cell \X Targets) /\ e \in Memories
         /\ \A x \in 0 .. M - 1, y \in 0 .. N - 1 :
              e.B[x][y] =
                IF x = baseColIdx + Half + i /\ baseRowIdx + Half <= y /\ y < baseRowIdx + Block
                THEN Element(y, x) ELSE m.B[x][y]
<1>1. Half \in Nat /\ Half > 0 /\ Block \in Nat /\ Block = 2 * Half
  BY BlockAssumption
<1>2. /\ baseRowIdx \in Nat /\ baseColIdx \in Nat /\ i \in Nat /\ i < Half
      /\ baseRowIdx + Block <= N /\ baseColIdx + Block <= M
      /\ M \in Nat /\ N \in Nat
  BY BlockInside
<1>3. PICK r \in Nat, c \in Nat, h \in Nat : r = baseRowIdx + Half /\ c = baseColIdx + Half + i /\ h = Half
  BY <1>1, <1>2
<1>4. /\ r \in Nat /\ c \in Nat /\ h \in Nat /\ h > 0
      /\ r + h <= N /\ c < M /\ h + h <= Block /\ r + h = baseRowIdx + Block
      /\ M \in Nat /\ N \in Nat
  BY <1>1, <1>2, <1>3
<1>5. PICK q1, q2, e1, e2 : /\ q1 = ColumnToTmp(r, c, h, h) /\ q2 = TmpToRow(c, r, h, h)
                            /\ e1 = Executed(m, q1) /\ e2 = Executed(e1, q2)
  OBVIOUS
<1>6. /\ q1 \in Seq(Cell \X Targets) /\ e1 \in Memories
      /\ \A x \in 0 .. M - 1, y \in 0 .. N - 1 : e1.B[x][y] = m.B[x][y]
      /\ \A x \in 0 .. h - 1 : e1.tmp[h + x] = Element(r + x, c)
  <2>1. ColumnLoaded(q1, e1, m, r, c, h, h)
    BY <1>4, <1>5, ColumnToTmpDoes
  <2> QED BY <2>1 DEF ColumnLoaded
<1>7. /\ q2 \in Seq(Cell \X Targets) /\ e2 \in Memories
      /\ \A x \in 0 .. h - 1 : e2.B[c][r + x] = e1.tmp[h + x]
      /\ \A x \in 0 .. M - 1, y \in 0 .. N - 1 :
           x # c \/ y < r \/ y >= r + h => e2.B[x][y] = e1.B[x][y]
  <2>1. RowStored(q2, e2, e1, c, r, h, h)
    BY <1>4, <1>5, <1>6, TmpToRowDoes
  <2> QED BY <2>1 DEF RowStored
<1>8. p = q1 \o q2
  BY <1>3, <1>5 DEF LowerRightCopies
<1>9. p \in Seq(Cell \X Targets) /\ e = e2
  <2>1. Leads(m, q1, e1) /\ Leads(e1, q2, e2)
    BY <1>5, <1>6, <1>7 DEF Leads
  <2>2. Leads(m, p, e2)
    BY <1>8, <2>1, ExecutedConcat
  <2> QED BY <2>2 DEF Leads
<1>10. ASSUME NEW x \in 0 .. M - 1, NEW y \in 0 .. N - 1
       PROVE  e.B[x][y] = IF x = c /\ r <= y /\ y < r + h THEN Element(y, x) ELSE m.B[x][y]
  <2>1. CASE x = c /\ r <= y /\ y < r + h
    <3>1. y - r \in 0 .. h - 1 /\ r + (y - r) = y
      BY <1>4, <2>1
    <3>2. e2.B[c][r + (y - r)] = e1.tmp[h + (y - r)] /\ e1.tmp[h + (y - r)] = Element(r + (y - r), c)
      BY <1>6, <1>7, <3>1
    <3> QED BY <1>9, <2>1, <3>1, <3>2
  <2>2. CASE ~ (x = c /\ r <= y /\ y < r + h)
    <3>1. x # c \/ y < r \/ y >= r + h
      BY <1>4, <2>2
    <3> QED BY <1>6, <1>7, <1>9, <2>2, <3>1
  <2> QED BY <2>1, <2>2
<1> QED BY <1>3, <1>4, <1>7, <1>9, <1>10

-----------------------------------------------------------------------------
(* The content of B after it.                                              *)
\* A turn of a loop leaves the blocks before this one transposed and does its part.
LEMMA RowContent ==
  ASSUME Position, loop = "row", NEW m \in Memories,
         NEW p, p = RowCopies(i), NEW e, e = Executed(m, p),
         Before(m, baseRowIdx, baseColIdx), Placed(m, baseRowIdx, i, baseColIdx, Block)
  PROVE  Before(e, baseRowIdx, baseColIdx) /\ Placed(e, baseRowIdx, i + 1, baseColIdx, Block)
<1>2. Block \in Nat
  BY BlockAssumption
<1>0. baseRowIdx \in Nat /\ baseColIdx \in Nat /\ i \in Nat
  BY <1>2 DEF Position
<1>1. PICK r \in Nat, c \in Nat, k \in Nat : r = baseRowIdx /\ c = baseColIdx /\ k = i
  BY <1>0
<1>3. \A x \in 0 .. M - 1, y \in 0 .. N - 1 :
        e.B[x][y] = IF y = r + k /\ c <= x /\ x < c + Block THEN Element(y, x) ELSE m.B[x][y]
  BY <1>1, RowTurn
<1>4. ASSUME NEW x \in 0 .. M - 1, NEW y \in 0 .. N - 1, Right(m, x, y)
      PROVE  Right(e, x, y)
  BY <1>3, <1>4 DEF Right
<1>5. Before(e, r, c)
  BY <1>1, <1>4 DEF Before
<1>6. Placed(e, r, k + 1, c, Block)
  <2> SUFFICES ASSUME NEW x \in 0 .. M - 1, NEW y \in 0 .. N - 1,
                      r <= y, y < r + (k + 1), c <= x, x < c + Block
               PROVE  Right(e, x, y)
    BY DEF Placed
  <2>1. CASE y = r + k
    BY <1>3, <2>1 DEF Right
  <2>2. CASE y # r + k
    <3>1. y < r + k
      BY <2>2
    <3> QED BY <1>1, <1>4, <3>1 DEF Placed
  <2> QED BY <2>1, <2>2
<1> QED BY <1>1, <1>5, <1>6

\* A turn of the upper half keeps what is before and adds a row to each part.
LEMMA UpperContent ==
  ASSUME Square \in Multiples, Position, loop = "upper", NEW m \in Memories,
         NEW p, p = UpperCopies(i), NEW e, e = Executed(m, p),
         Before(m, baseRowIdx, baseColIdx),
         Placed(m, baseRowIdx, i, baseColIdx, Half), Parked(m, baseRowIdx, i, baseColIdx, Half)
  PROVE  /\ Before(e, baseRowIdx, baseColIdx)
         /\ Placed(e, baseRowIdx, i + 1, baseColIdx, Half)
         /\ Parked(e, baseRowIdx, i + 1, baseColIdx, Half)
<1>1. Half \in Nat /\ Half > 0 /\ Block \in Nat /\ Block = 2 * Half
  BY BlockAssumption
<1>2. /\ baseRowIdx \in Nat /\ baseColIdx \in Nat /\ i \in Nat /\ i < Half
      /\ baseRowIdx + Block <= N /\ baseColIdx + Block <= M
      /\ M \in Nat /\ N \in Nat
  BY BlockInside
<1>3. PICK r \in Nat, c \in Nat, k \in Nat, h \in Nat :
        r = baseRowIdx /\ c = baseColIdx /\ k = i /\ h = Half
  BY <1>1, <1>2
<1>4. k < h /\ h > 0 /\ Block = 2 * h /\ r + Block <= N /\ c + Block <= M
  BY <1>1, <1>2, <1>3
<1>5. \A x \in 0 .. M - 1, y \in 0 .. N - 1 :
        e.B[x][y] = IF c <= x /\ x < c + h /\ y = r + k THEN Element(y, x)
                    ELSE IF c <= x /\ x < c + h /\ y = r + k + h
                         THEN Element(r + k, x + h) ELSE m.B[x][y]
  <2>1. \A x \in 0 .. M - 1, y \in 0 .. N - 1 :
          e.B[x][y] =
            IF baseColIdx <= x /\ x < baseColIdx + Half /\ y = baseRowIdx + i THEN Element(y, x)
            ELSE IF baseColIdx <= x /\ x < baseColIdx + Half /\ y = baseRowIdx + i + Half
                 THEN Element(baseRowIdx + i, x + Half) ELSE m.B[x][y]
    BY UpperTurn
  <2> QED BY <1>3, <2>1
<1>6. Before(e, r, c)
  <2> SUFFICES ASSUME NEW x \in 0 .. M - 1, NEW y \in 0 .. N - 1,
                      y < r \/ (y < r + Block /\ x < c)
               PROVE  Right(e, x, y)
    BY DEF Before
  <2>1. Right(m, x, y)
    BY <1>3 DEF Before
  <2>2. ~ (c <= x /\ y >= r)
    BY <1>2
  <2>3. e.B[x][y] = m.B[x][y]
    BY <1>4, <1>5, <2>2
  <2> QED BY <2>1, <2>3 DEF Right
<1>7. Placed(e, r, k + 1, c, h)
  <2> SUFFICES ASSUME NEW x \in 0 .. M - 1, NEW y \in 0 .. N - 1,
                      r <= y, y < r + (k + 1), c <= x, x < c + h
               PROVE  Right(e, x, y)
    BY DEF Placed
  <2>1. CASE y = r + k
    BY <1>5, <2>1 DEF Right
  <2>2. CASE y # r + k
    <3>1. y < r + k /\ y # r + k + h
      BY <1>4, <2>2
    <3>2. Right(m, x, y)
      BY <1>3, <3>1 DEF Placed
    <3>3. e.B[x][y] = m.B[x][y]
      BY <1>5, <2>2, <3>1
    <3> QED BY <3>2, <3>3 DEF Right
  <2> QED BY <2>1, <2>2
<1>8. Parked(e, r, k + 1, c, h)
  <2> SUFFICES ASSUME NEW x \in 0 .. M - 1, NEW y \in 0 .. N - 1,
                      r <= y, y < r + (k + 1), c <= x, x < c + h
               PROVE  e.B[x][y + h] = Element(y, x + h)
    BY <1>3 DEF Parked
  <2>1. y + h \in 0 .. N - 1 /\ y + h # r + k
    BY <1>2, <1>4
  <2>2. CASE y = r + k
    BY <1>5, <2>1, <2>2
  <2>3. CASE y # r + k
    <3>1. y < r + k /\ y + h # r + k + h
      BY <1>4, <2>3
    <3>2. m.B[x][y + h] = Element(y, x + h)
      BY <1>3, <3>1 DEF Parked
    <3>3. e.B[x][y + h] = m.B[x][y + h]
      BY <1>5, <2>1, <3>1
    <3> QED BY <3>2, <3>3
  <2> QED BY <2>2, <2>3
<1> QED BY <1>3, <1>6, <1>7, <1>8

\* A turn of the lower left quarter takes a row from the parked part and adds one to
\* two others.
LEMMA LowerLeftContent ==
  ASSUME Square \in Multiples, Position, loop = "lowerLeft", NEW m \in Memories,
         NEW p, p = LowerLeftCopies(i), NEW e, e = Executed(m, p),
         Before(m, baseRowIdx, baseColIdx),
         Placed(m, baseRowIdx, Half, baseColIdx, Half),
         Parked(m, baseRowIdx, Half, baseColIdx + i, Half - i),
         Placed(m, baseRowIdx + Half, Half, baseColIdx, i),
         Placed(m, baseRowIdx, Half, baseColIdx + Half, i)
  PROVE  /\ Before(e, baseRowIdx, baseColIdx)
         /\ Placed(e, baseRowIdx, Half, baseColIdx, Half)
         /\ Parked(e, baseRowIdx, Half, baseColIdx + (i + 1), Half - (i + 1))
         /\ Placed(e, baseRowIdx + Half, Half, baseColIdx, i + 1)
         /\ Placed(e, baseRowIdx, Half, baseColIdx + Half, i + 1)
<1>1. Half \in Nat /\ Half > 0 /\ Block \in Nat /\ Block = 2 * Half
  BY BlockAssumption
<1>2. /\ baseRowIdx \in Nat /\ baseColIdx \in Nat /\ i \in Nat /\ i < Half
      /\ baseRowIdx + Block <= N /\ baseColIdx + Block <= M
      /\ M \in Nat /\ N \in Nat
  BY BlockInside
<1>3. PICK r \in Nat, c \in Nat, k \in Nat, h \in Nat :
        r = baseRowIdx /\ c = baseColIdx /\ k = i /\ h = Half
  BY <1>1, <1>2
<1>4. k < h /\ h > 0 /\ Block = 2 * h /\ r + Block <= N /\ c + Block <= M
  BY <1>1, <1>2, <1>3
<1>5. \A x \in 0 .. M - 1, y \in 0 .. N - 1 :
        e.B[x][y] = IF x = c + k /\ r + h <= y /\ y < r + Block THEN Element(y, x)
                    ELSE IF x = c + k + h /\ r <= y /\ y < r + h
                         THEN m.B[c + k][y + h] ELSE m.B[x][y]
  <2>1. /\ p \in Seq(Cell \X Targets) /\ e \in Memories
        /\ \A x \in 0 .. M - 1, y \in 0 .. N - 1 :
             e.B[x][y] =
               IF x = baseColIdx + i /\ baseRowIdx + Half <= y /\ y < baseRowIdx + Block
               THEN Element(y, x)
               ELSE IF x = baseColIdx + i + Half /\ baseRowIdx <= y /\ y < baseRowIdx + Half
                    THEN m.B[baseColIdx + i][y + Half] ELSE m.B[x][y]
    BY LowerLeftTurn
  <2> QED BY <1>3, <2>1
<1>6. Before(e, r, c)
  <2> SUFFICES ASSUME NEW x \in 0 .. M - 1, NEW y \in 0 .. N - 1,
                      y < r \/ (y < r + Block /\ x < c)
               PROVE  Right(e, x, y)
    BY DEF Before
  <2>1. Right(m, x, y)
    BY <1>3 DEF Before
  <2>2. ~ (c <= x /\ y >= r)
    BY <1>2
  <2>3. e.B[x][y] = m.B[x][y]
    BY <1>4, <1>5, <2>2
  <2> QED BY <2>1, <2>3 DEF Right
<1>7. Placed(e, r, h, c, h)
  <2> SUFFICES ASSUME NEW x \in 0 .. M - 1, NEW y \in 0 .. N - 1,
                      r <= y, y < r + h, c <= x, x < c + h
               PROVE  Right(e, x, y)
    BY DEF Placed
  <2>1. Right(m, x, y)
    BY <1>3 DEF Placed
  <2>2. ~ (r + h <= y) /\ x # c + k + h
    BY <1>4
  <2>3. e.B[x][y] = m.B[x][y]
    BY <1>5, <2>2
  <2> QED BY <2>1, <2>3 DEF Right
<1>8. Parked(e, r, h, c + (k + 1), h - (k + 1))
  <2> SUFFICES ASSUME NEW x \in 0 .. M - 1, NEW y \in 0 .. N - 1,
                      r <= y, y < r + h, c + (k + 1) <= x, x < c + (k + 1) + (h - (k + 1))
               PROVE  e.B[x][y + h] = Element(y, x + h)
    BY <1>3 DEF Parked
  <2>1. y + h \in 0 .. N - 1 /\ x # c + k /\ ~ (y + h < r + h)
    BY <1>2, <1>4
  <2>2. c + k <= x /\ x < c + k + (h - k)
    BY <1>4
  <2>3. m.B[x][y + h] = Element(y, x + h)
    BY <1>3, <2>2 DEF Parked
  <2>4. e.B[x][y + h] = m.B[x][y + h]
    BY <1>5, <2>1
  <2> QED BY <2>3, <2>4
<1>9. Placed(e, r + h, h, c, k + 1)
  <2> SUFFICES ASSUME NEW x \in 0 .. M - 1, NEW y \in 0 .. N - 1,
                      r + h <= y, y < (r + h) + h, c <= x, x < c + (k + 1)
               PROVE  Right(e, x, y)
    BY DEF Placed
  <2>1. CASE x = c + k
    <3>1. y < r + Block
      BY <1>4
    <3> QED BY <1>5, <2>1, <3>1 DEF Right
  <2>2. CASE x # c + k
    <3>1. x < c + k /\ x # c + k + h
      BY <1>4, <2>2
    <3>2. Right(m, x, y)
      BY <1>3, <3>1 DEF Placed
    <3>3. e.B[x][y] = m.B[x][y]
      BY <1>5, <2>2, <3>1
    <3> QED BY <3>2, <3>3 DEF Right
  <2> QED BY <2>1, <2>2
<1>10. Placed(e, r, h, c + h, k + 1)
  <2> SUFFICES ASSUME NEW x \in 0 .. M - 1, NEW y \in 0 .. N - 1,
                      r <= y, y < r + h, c + h <= x, x < (c + h) + (k + 1)
               PROVE  Right(e, x, y)
    BY DEF Placed
  <2>1. x # c + k
    BY <1>4
  <2>2. CASE x = c + k + h
    <3>1. e.B[x][y] = m.B[c + k][y + h]
      BY <1>5, <2>1, <2>2
    <3>2. c + k \in 0 .. M - 1 /\ c + k < c + k + (h - k) /\ (c + k) + h = x
      BY <1>2, <1>4, <2>2
    <3>3. m.B[c + k][y + h] = Element(y, (c + k) + h)
      BY <1>3, <3>2 DEF Parked
    <3> QED BY <3>1, <3>2, <3>3 DEF Right
  <2>3. CASE x # c + k + h
    <3>1. x < (c + h) + k
      BY <2>3
    <3>2. Right(m, x, y)
      BY <1>3, <3>1 DEF Placed
    <3>3. e.B[x][y] = m.B[x][y]
      BY <1>5, <2>1, <2>3
    <3> QED BY <3>2, <3>3 DEF Right
  <2> QED BY <2>2, <2>3
<1> QED BY <1>3, <1>6, <1>7, <1>8, <1>9, <1>10

\* A turn of the lower right quarter adds a column to it.
LEMMA LowerRightContent ==
  ASSUME Square \in Multiples, Position, loop = "lowerRight", NEW m \in Memories,
         NEW p, p = LowerRightCopies(i), NEW e, e = Executed(m, p),
         Before(m, baseRowIdx, baseColIdx),
         Placed(m, baseRowIdx, Half, baseColIdx, Half),
         Placed(m, baseRowIdx + Half, Half, baseColIdx, Half),
         Placed(m, baseRowIdx, Half, baseColIdx + Half, Half),
         Placed(m, baseRowIdx + Half, Half, baseColIdx + Half, i)
  PROVE  /\ Before(e, baseRowIdx, baseColIdx)
         /\ Placed(e, baseRowIdx, Half, baseColIdx, Half)
         /\ Placed(e, baseRowIdx + Half, Half, baseColIdx, Half)
         /\ Placed(e, baseRowIdx, Half, baseColIdx + Half, Half)
         /\ Placed(e, baseRowIdx + Half, Half, baseColIdx + Half, i + 1)
<1>1. Half \in Nat /\ Half > 0 /\ Block \in Nat /\ Block = 2 * Half
  BY BlockAssumption
<1>2. /\ baseRowIdx \in Nat /\ baseColIdx \in Nat /\ i \in Nat /\ i < Half
      /\ baseRowIdx + Block <= N /\ baseColIdx + Block <= M
      /\ M \in Nat /\ N \in Nat
  BY BlockInside
<1>3. PICK r \in Nat, c \in Nat, k \in Nat, h \in Nat :
        r = baseRowIdx /\ c = baseColIdx /\ k = i /\ h = Half
  BY <1>1, <1>2
<1>4. k < h /\ h > 0 /\ Block = 2 * h /\ r + Block <= N /\ c + Block <= M
  BY <1>1, <1>2, <1>3
<1>5. \A x \in 0 .. M - 1, y \in 0 .. N - 1 :
        e.B[x][y] = IF x = c + h + k /\ r + h <= y /\ y < r + Block THEN Element(y, x) ELSE m.B[x][y]
  <2>1. \A x \in 0 .. M - 1, y \in 0 .. N - 1 :
          e.B[x][y] =
            IF x = baseColIdx + Half + i /\ baseRowIdx + Half <= y /\ y < baseRowIdx + Block
            THEN Element(y, x) ELSE m.B[x][y]
    BY LowerRightTurn
  <2> QED BY <1>3, <2>1
<1>6. ASSUME NEW x \in 0 .. M - 1, NEW y \in 0 .. N - 1, Right(m, x, y)
      PROVE  Right(e, x, y)
  BY <1>5, <1>6 DEF Right
<1>7. Before(e, r, c)
  BY <1>3, <1>6 DEF Before
<1>8. Placed(e, r, h, c, h) /\ Placed(e, r + h, h, c, h) /\ Placed(e, r, h, c + h, h)
  BY <1>3, <1>6 DEF Placed
<1>9. Placed(e, r + h, h, c + h, k + 1)
  <2> SUFFICES ASSUME NEW x \in 0 .. M - 1, NEW y \in 0 .. N - 1,
                      r + h <= y, y < (r + h) + h, c + h <= x, x < (c + h) + (k + 1)
               PROVE  Right(e, x, y)
    BY DEF Placed
  <2>1. CASE x = c + h + k
    <3>1. y < r + Block
      BY <1>4
    <3> QED BY <1>5, <2>1, <3>1 DEF Right
  <2>2. CASE x # c + h + k
    <3>1. x < (c + h) + k
      BY <2>2
    <3> QED BY <1>3, <1>6, <3>1 DEF Placed
  <2> QED BY <2>1, <2>2
<1> QED BY <1>3, <1>7, <1>8, <1>9

-----------------------------------------------------------------------------
(* What a turn, a block and the choice of the next one keep.               *)
\* The block at row r and column c of A is transposed, as far as the matrix goes.
Full(m, r, c) == Placed(m, r, Block, c, Block)

\* A memory after the assignments of this turn.
LEMMA TurnContent ==
  ASSUME Square \in Multiples, Position, NEW m \in Memories, NEW e, e = Executed(m, Copies),
         Before(m, baseRowIdx, baseColIdx), Part(m, baseRowIdx, baseColIdx, loop, i)
  PROVE  /\ Copies \in Seq(Cell \X Targets) /\ e \in Memories
         /\ Before(e, baseRowIdx, baseColIdx)
         /\ Part(e, baseRowIdx, baseColIdx, loop, i + 1)
<1>1. PICK p : p = Copies
  OBVIOUS
<1>2. CASE loop = "row"
  <2>1. p = RowCopies(i) /\ Placed(m, baseRowIdx, i, baseColIdx, Block)
    BY <1>1, <1>2 DEF Copies, Part
  <2>2. p \in Seq(Cell \X Targets) /\ e \in Memories
    BY <1>1, <1>2, <2>1, RowTurn
  <2>3. Before(e, baseRowIdx, baseColIdx) /\ Placed(e, baseRowIdx, i + 1, baseColIdx, Block)
    BY <1>1, <1>2, <2>1, RowContent
  <2> QED BY <1>1, <1>2, <2>2, <2>3 DEF Part
<1>3. CASE loop = "upper"
  <2>1. /\ p = UpperCopies(i)
        /\ Placed(m, baseRowIdx, i, baseColIdx, Half) /\ Parked(m, baseRowIdx, i, baseColIdx, Half)
    BY <1>1, <1>3 DEF Copies, Part
  <2>2. p \in Seq(Cell \X Targets) /\ e \in Memories
    BY <1>1, <1>3, <2>1, UpperTurn
  <2>3. /\ Before(e, baseRowIdx, baseColIdx)
        /\ Placed(e, baseRowIdx, i + 1, baseColIdx, Half)
        /\ Parked(e, baseRowIdx, i + 1, baseColIdx, Half)
    BY <1>1, <1>3, <2>1, UpperContent
  <2> QED BY <1>1, <1>3, <2>2, <2>3 DEF Part
<1>4. CASE loop = "lowerLeft"
  <2>1. /\ p = LowerLeftCopies(i)
        /\ Placed(m, baseRowIdx, Half, baseColIdx, Half)
        /\ Parked(m, baseRowIdx, Half, baseColIdx + i, Half - i)
        /\ Placed(m, baseRowIdx + Half, Half, baseColIdx, i)
        /\ Placed(m, baseRowIdx, Half, baseColIdx + Half, i)
    BY <1>1, <1>4 DEF Copies, Part
  <2>2. p \in Seq(Cell \X Targets) /\ e \in Memories
    BY <1>1, <1>4, <2>1, LowerLeftTurn
  <2>3. /\ Before(e, baseRowIdx, baseColIdx)
        /\ Placed(e, baseRowIdx, Half, baseColIdx, Half)
        /\ Parked(e, baseRowIdx, Half, baseColIdx + (i + 1), Half - (i + 1))
        /\ Placed(e, baseRowIdx + Half, Half, baseColIdx, i + 1)
        /\ Placed(e, baseRowIdx, Half, baseColIdx + Half, i + 1)
    BY <1>1, <1>4, <2>1, LowerLeftContent
  <2> QED BY <1>1, <1>4, <2>2, <2>3 DEF Part
<1>5. CASE loop = "lowerRight"
  <2>1. /\ p = LowerRightCopies(i)
        /\ Placed(m, baseRowIdx, Half, baseColIdx, Half)
        /\ Placed(m, baseRowIdx + Half, Half, baseColIdx, Half)
        /\ Placed(m, baseRowIdx, Half, baseColIdx + Half, Half)
        /\ Placed(m, baseRowIdx + Half, Half, baseColIdx + Half, i)
    BY <1>1, <1>5 DEF Copies, Part
  <2>2. p \in Seq(Cell \X Targets) /\ e \in Memories
    BY <1>1, <1>5, <2>1, LowerRightTurn
  <2>3. /\ Before(e, baseRowIdx, baseColIdx)
        /\ Placed(e, baseRowIdx, Half, baseColIdx, Half)
        /\ Placed(e, baseRowIdx + Half, Half, baseColIdx, Half)
        /\ Placed(e, baseRowIdx, Half, baseColIdx + Half, Half)
        /\ Placed(e, baseRowIdx + Half, Half, baseColIdx + Half, i + 1)
    BY <1>1, <1>5, <2>1, LowerRightContent
  <2> QED BY <1>1, <1>5, <2>2, <2>3 DEF Part
<1> QED BY <1>2, <1>3, <1>4, <1>5 DEF Position

\* With this block transposed, so is all that is before the next one.
LEMMA BlockDone ==
  ASSUME Position, NEW e, NEW r, NEW c, r = baseRowIdx, c = baseColIdx,
         Before(e, r, c), Full(e, r, c)
  PROVE  /\ Before(e, r, c + Block)
         /\ c + Block >= M => Before(e, r + Block, 0)
         /\ c + Block >= M /\ r + Block >= N
              => \A x \in 0 .. M - 1, y \in 0 .. N - 1 : Right(e, x, y)
<1>1. /\ Block \in Nat /\ M \in Nat /\ N \in Nat /\ r \in Nat /\ c \in Nat
  BY BlockAssumption DEF Position
<1>2. ASSUME NEW x \in 0 .. M - 1, NEW y \in 0 .. N - 1,
             y < r \/ (y < r + Block /\ x < c + Block)
      PROVE  Right(e, x, y)
  <2>1. CASE y < r \/ (y < r + Block /\ x < c)
    BY <2>1 DEF Before
  <2>2. CASE ~ (y < r \/ (y < r + Block /\ x < c))
    <3>1. r <= y /\ y < r + Block /\ c <= x /\ x < c + Block
      BY <1>1, <1>2, <2>2
    <3> QED BY <3>1 DEF Full, Placed
  <2> QED BY <2>1, <2>2
<1>3. Before(e, r, c + Block)
  BY <1>2 DEF Before
<1>4. ASSUME c + Block >= M, NEW x \in 0 .. M - 1, NEW y \in 0 .. N - 1, y < r + Block
      PROVE  Right(e, x, y)
  <2>1. x < c + Block
    BY <1>1, <1>4
  <2> QED BY <1>2, <1>4, <2>1
<1>5. ASSUME c + Block >= M
      PROVE  Before(e, r + Block, 0)
  <2> SUFFICES ASSUME NEW x \in 0 .. M - 1, NEW y \in 0 .. N - 1,
                      y < r + Block \/ (y < (r + Block) + Block /\ x < 0)
               PROVE  Right(e, x, y)
    BY DEF Before
  <2>1. y < r + Block
    BY <1>1
  <2> QED BY <1>4, <1>5, <2>1
<1>6. ASSUME c + Block >= M, r + Block >= N, NEW x \in 0 .. M - 1, NEW y \in 0 .. N - 1
      PROVE  Right(e, x, y)
  <2>1. y < r + Block
    BY <1>1, <1>6
  <2> QED BY <1>4, <1>6, <2>1
<1> QED BY <1>3, <1>5, <1>6

\* A loop starts with nothing done by it.
LEMMA FirstPart ==
  ASSUME Position, NEW e, NEW r \in Nat, NEW c \in Nat
  PROVE  Part(e, r, c, FirstLoop(M, N), 0)
<1>1. ASSUME NEW k
      PROVE  Placed(e, r, 0, c, k) /\ Parked(e, r, 0, c, k)
  <2>1. \A y \in 0 .. N - 1 : ~ (r <= y /\ y < r + 0)
    BY DEF Position
  <2> QED BY <2>1 DEF Placed, Parked
<1>2. FirstLoop(M, N) = "row" \/ FirstLoop(M, N) = "upper"
  BY DEF FirstLoop
<1> QED BY <1>1, <1>2 DEF Part

\* The same content in primed variables.
LEMMA SameContent ==
  ASSUME M' = M, N' = N, NEW e, mem' = e, ~ done',
         NEW r, NEW c, NEW l \in {"row", "upper", "lowerLeft", "lowerRight"}, NEW k,
         baseRowIdx' = r, baseColIdx' = c, loop' = l, i' = k,
         Before(e, r, c), Part(e, r, c, l, k)
  PROVE  ContentInv'
<1>1. Before(mem, baseRowIdx, baseColIdx)'
  BY DEF Before, Right, Element
<1>2. Part(mem, baseRowIdx, baseColIdx, loop, i)'
  <2>1. CASE l = "row"
    BY <2>1 DEF Part, Placed, Right, Element
  <2>2. CASE l = "upper"
    BY <2>2 DEF Part, Placed, Parked, Right, Element
  <2>3. CASE l = "lowerLeft"
    BY <2>3 DEF Part, Placed, Parked, Right, Element
  <2>4. CASE l = "lowerRight"
    BY <2>4 DEF Part, Placed, Right, Element
  <2> QED BY <2>1, <2>2, <2>3, <2>4
<1> QED BY <1>1, <1>2 DEF ContentInv

\* The content when the loops go on to the next block, or end.
LEMMA NextBlockContent ==
  ASSUME Position, NextBlock, M' = M, N' = N, ~ done, NEW e, mem' = e,
         Before(e, baseRowIdx, baseColIdx), Full(e, baseRowIdx, baseColIdx)
  PROVE  ContentInv'
<1>0. Block \in Nat /\ M \in Nat /\ N \in Nat /\ baseRowIdx \in Nat /\ baseColIdx \in Nat
  BY BlockAssumption DEF Position
<1>1. PICK r \in Nat, c \in Nat : r = baseRowIdx /\ c = baseColIdx
  BY <1>0
<1>2. /\ Before(e, r, c + Block)
      /\ c + Block >= M => Before(e, r + Block, 0)
      /\ c + Block >= M /\ r + Block >= N
           => \A x \in 0 .. M - 1, y \in 0 .. N - 1 : Right(e, x, y)
  BY <1>1, BlockDone
<1>3. CASE ~ done'
  <2>1. PICK s \in Nat, d \in Nat : s = baseRowIdx' /\ d = baseColIdx' /\ Before(e, s, d)
    BY <1>0, <1>1, <1>2, <1>3 DEF NextBlock
  <2>2. Part(e, s, d, FirstLoop(M, N), 0)
    BY FirstPart
  <2>3. loop' = FirstLoop(M, N) /\ i' = 0
    BY DEF NextBlock
  <2>4. PICK l \in {"row", "upper", "lowerLeft", "lowerRight"} : l = FirstLoop(M, N)
    BY DEF FirstLoop
  <2>5. Before(e, s, d) /\ Part(e, s, d, l, 0) /\ loop' = l /\ i' = 0
    BY <2>1, <2>2, <2>3, <2>4
  <2> QED BY <1>3, <2>1, <2>5, SameContent
<1>4. CASE done'
  <2>1. \A x \in 0 .. M - 1, y \in 0 .. N - 1 : Right(e, x, y)
    BY <1>0, <1>1, <1>2, <1>4 DEF NextBlock
  <2>2. TransposesAll'
    BY <2>1 DEF TransposesAll, Right, Element
  <2> QED BY <1>4, <2>2 DEF ContentInv
<1> QED BY <1>3, <1>4

\* The content at the next turn of the same loop.
LEMMA NextTurnContent ==
  ASSUME Position, NextTurn, M' = M, N' = N, ~ done, NEW e, mem' = e,
         Before(e, baseRowIdx, baseColIdx), Part(e, baseRowIdx, baseColIdx, loop, i + 1)
  PROVE  ContentInv'
<1>1. PICK r, c, k : r = baseRowIdx /\ c = baseColIdx /\ k = i + 1
  OBVIOUS
<1>2. PICK l \in {"row", "upper", "lowerLeft", "lowerRight"} : l = loop
  BY DEF Position
<1>3. ~ done' /\ baseRowIdx' = r /\ baseColIdx' = c /\ loop' = l /\ i' = k
  BY <1>1, <1>2 DEF NextTurn
<1>4. Before(e, r, c) /\ Part(e, r, c, l, k)
  BY <1>1, <1>2
<1> QED BY <1>3, <1>4, SameContent

\* The content at the first turn of the next loop of the block.
LEMMA NextLoopContent ==
  ASSUME NEW l \in {"lowerLeft", "lowerRight"}, NextLoop(l), M' = M, N' = N, ~ done,
         NEW e, mem' = e,
         Before(e, baseRowIdx, baseColIdx), Part(e, baseRowIdx, baseColIdx, l, 0)
  PROVE  ContentInv'
<1>1. PICK r, c : r = baseRowIdx /\ c = baseColIdx
  OBVIOUS
<1>2. ~ done' /\ baseRowIdx' = r /\ baseColIdx' = c /\ loop' = l /\ i' = 0
  BY <1>1 DEF NextLoop
<1>3. Before(e, r, c) /\ Part(e, r, c, l, 0) /\ l \in {"row", "upper", "lowerLeft", "lowerRight"}
  BY <1>1
<1> QED BY <1>2, <1>3, SameContent

-----------------------------------------------------------------------------
(* Every step.                                                             *)

\* Nothing is done at first, and nothing is claimed.
LEMMA InitTransInv == ASSUME Init PROVE TransInv
<1>1. Position
  BY InitPosition
<1>2. Block \in Nat \ {0} /\ Half \in Nat \ {0} /\ CacheSets \in Nat \ {0}
  BY BlockAssumption, LayoutAssumption
<1>3. MemoryInv
  <2>1. <<M, N>> \in Sizes
    <3>1. PICK size \in Sizes : M = size[1] /\ N = size[2]
      BY DEF Init
    <3>2. size = <<size[1], size[2]>>
      BY LayoutAssumption
    <3> QED BY <3>1, <3>2
  <2>2. mem \in Memories
    BY <1>2 DEF Init, Memories, Values
  <2> QED BY <2>1, <2>2 DEF MemoryInv, Init
<1>4. ContentInv
  <2>1. baseRowIdx = 0 /\ baseColIdx = 0 /\ i = 0 /\ loop = FirstLoop(M, N) /\ ~ done
    BY DEF Init
  <2>2. Before(mem, 0, 0)
    <3>1. \A x \in 0 .. M - 1, y \in 0 .. N - 1 : ~ (y < 0 \/ (y < 0 + Block /\ x < 0))
      BY <1>1 DEF Position
    <3> QED BY <3>1 DEF Before
  <2>3. Part(mem, 0, 0, FirstLoop(M, N), 0)
    BY <1>1, FirstPart
  <2> QED BY <2>1, <2>2, <2>3 DEF ContentInv
<1> QED BY <1>1, <1>3, <1>4 DEF TransInv

\* Each of the four loops keeps the invariant.
LEMMA NextTransInv ==
  ASSUME Square \in Multiples, TransInv, [Next]_vars
  PROVE  TransInv'
<1>1. Position /\ MemoryInv /\ ContentInv
  BY DEF TransInv
<1>2. Position'
  BY <1>1, NextPosition
<1>3. CASE Returned \/ UNCHANGED vars
  <2>1. UNCHANGED <<M, N, baseRowIdx, baseColIdx, loop, i, mem, done>>
    BY <1>3 DEF Returned, vars, position
  <2>2. MemoryInv'
    BY <1>1, <2>1 DEF MemoryInv, Memories
  <2>3. ContentInv'
    <3>1. CASE done
      BY <1>1, <2>1, <3>1 DEF ContentInv, TransposesAll, Element
    <3>2. CASE ~ done
      <4>1. PICK e, r, c, k : e = mem /\ r = baseRowIdx /\ c = baseColIdx /\ k = i
        OBVIOUS
      <4>2. PICK l \in {"row", "upper", "lowerLeft", "lowerRight"} : l = loop
        BY <1>1 DEF Position
      <4>3. Before(e, r, c) /\ Part(e, r, c, l, k)
        BY <1>1, <3>2, <4>1, <4>2 DEF ContentInv
      <4>4. /\ M' = M /\ N' = N /\ mem' = e /\ ~ done'
            /\ baseRowIdx' = r /\ baseColIdx' = c /\ loop' = l /\ i' = k
        BY <2>1, <3>2, <4>1, <4>2
      <4> QED BY <4>3, <4>4, SameContent
    <3> QED BY <3>1, <3>2
  <2> QED BY <1>2, <2>2, <2>3 DEF TransInv
<1>4. CASE CopyRow \/ CopyUpper \/ CopyLowerLeft \/ CopyLowerRight
  <2>1. ~ done /\ M' = M /\ N' = N /\ mem' = Executed(mem, Copies)
    BY <1>4 DEF CopyRow, CopyUpper, CopyLowerLeft, CopyLowerRight, Work
  <2>2. PICK e : e = Executed(mem, Copies)
    OBVIOUS
  <2>3. /\ e \in Memories /\ Before(e, baseRowIdx, baseColIdx)
        /\ Part(e, baseRowIdx, baseColIdx, loop, i + 1)
    <3>1. PICK m \in Memories : m = mem
      BY <1>1 DEF MemoryInv
    <3>2. Before(m, baseRowIdx, baseColIdx) /\ Part(m, baseRowIdx, baseColIdx, loop, i)
      BY <1>1, <2>1, <3>1 DEF ContentInv
    <3>3. e = Executed(m, Copies)
      BY <2>2, <3>1
    <3> QED BY <1>1, <3>2, <3>3, TurnContent
  <2>4. Half \in Nat /\ Half > 0 /\ Block \in Nat /\ Block = 2 * Half
    BY BlockAssumption
  <2>5. mem' = e
    BY <2>1, <2>2
  <2>6. MemoryInv'
    <3>1. done' \in BOOLEAN
      BY <1>1, <1>4 DEF MemoryInv, CopyRow, CopyUpper, CopyLowerLeft, CopyLowerRight,
                        NextBlock, NextTurn, NextLoop
    <3> QED BY <1>1, <2>1, <2>3, <2>5, <3>1 DEF MemoryInv, Memories
  <2>7. CASE CopyRow
    <3>1. loop = "row" /\ Placed(e, baseRowIdx, i + 1, baseColIdx, Block)
      BY <2>3, <2>7 DEF CopyRow, Part
    <3>2. ASSUME NextTurn PROVE ContentInv'
      BY <1>1, <2>1, <2>3, <2>5, <3>2, NextTurnContent
    <3>3. ASSUME NextBlock, ~ (i + 1 < Block /\ baseRowIdx + i + 1 < N) PROVE ContentInv'
      <4>1. Full(e, baseRowIdx, baseColIdx)
        BY <1>1, <2>4, <3>1, <3>3 DEF Full, Placed, Position
      <4> QED BY <1>1, <2>1, <2>3, <2>5, <3>3, <4>1, NextBlockContent
    <3>4. ContentInv'
      BY <2>7, <3>2, <3>3 DEF CopyRow
    <3> QED BY <1>2, <2>6, <3>4 DEF TransInv
  <2>8. CASE CopyUpper
    <3>1. loop = "upper" /\ i \in 0 .. Half - 1
      BY <1>1, <2>8 DEF CopyUpper, Position
    <3>2. ASSUME NextTurn PROVE ContentInv'
      BY <1>1, <2>1, <2>3, <2>5, <3>2, NextTurnContent
    <3>3. ASSUME NextLoop("lowerLeft"), ~ (i + 1 < Half) PROVE ContentInv'
      <4>1. i + 1 = Half
        BY <2>4, <3>1, <3>3
      <4>2. Placed(e, baseRowIdx, Half, baseColIdx, Half) /\ Parked(e, baseRowIdx, Half, baseColIdx, Half)
        BY <2>3, <3>1, <4>1 DEF Part
      <4>3. Part(e, baseRowIdx, baseColIdx, "lowerLeft", 0)
        <5>1. baseColIdx + 0 = baseColIdx /\ Half - 0 = Half
          BY <1>1, <2>4 DEF Position
        <5>2. ASSUME NEW r, NEW n, NEW c \in Int
              PROVE  Placed(e, r, n, c, 0)
          <6>1. \A x \in 0 .. M - 1 : ~ (c <= x /\ x < c + 0)
            BY <1>1 DEF Position
          <6> QED BY <6>1 DEF Placed
        <5>3. baseColIdx \in Int /\ baseColIdx + Half \in Int
          BY <1>1, <2>4 DEF Position
        <5> QED BY <4>2, <5>1, <5>2, <5>3 DEF Part
      <4> QED BY <2>1, <2>3, <2>5, <3>3, <4>3, NextLoopContent
    <3>4. ContentInv'
      BY <2>8, <3>2, <3>3 DEF CopyUpper
    <3> QED BY <1>2, <2>6, <3>4 DEF TransInv
  <2>9. CASE CopyLowerLeft
    <3>1. loop = "lowerLeft" /\ i \in 0 .. Half - 1
      BY <1>1, <2>9 DEF CopyLowerLeft, Position
    <3>2. ASSUME NextTurn PROVE ContentInv'
      BY <1>1, <2>1, <2>3, <2>5, <3>2, NextTurnContent
    <3>3. ASSUME NextLoop("lowerRight"), ~ (i + 1 < Half) PROVE ContentInv'
      <4>1. i + 1 = Half
        BY <2>4, <3>1, <3>3
      <4>2. /\ Placed(e, baseRowIdx, Half, baseColIdx, Half)
            /\ Placed(e, baseRowIdx + Half, Half, baseColIdx, Half)
            /\ Placed(e, baseRowIdx, Half, baseColIdx + Half, Half)
        BY <2>3, <3>1, <4>1 DEF Part
      <4>3. Placed(e, baseRowIdx + Half, Half, baseColIdx + Half, 0)
        <5>1. baseColIdx + Half \in Int
          BY <1>1, <2>4 DEF Position
        <5>2. \A x \in 0 .. M - 1 : ~ (baseColIdx + Half <= x /\ x < (baseColIdx + Half) + 0)
          BY <1>1, <5>1 DEF Position
        <5> QED BY <5>2 DEF Placed
      <4>4. Part(e, baseRowIdx, baseColIdx, "lowerRight", 0)
        BY <4>2, <4>3 DEF Part
      <4> QED BY <2>1, <2>3, <2>5, <3>3, <4>4, NextLoopContent
    <3>4. ContentInv'
      BY <2>9, <3>2, <3>3 DEF CopyLowerLeft
    <3> QED BY <1>2, <2>6, <3>4 DEF TransInv
  <2>10. CASE CopyLowerRight
    <3>1. loop = "lowerRight" /\ i \in 0 .. Half - 1
      BY <1>1, <2>10 DEF CopyLowerRight, Position
    <3>2. ASSUME NextTurn PROVE ContentInv'
      BY <1>1, <2>1, <2>3, <2>5, <3>2, NextTurnContent
    <3>3. ASSUME NextBlock, ~ (i + 1 < Half) PROVE ContentInv'
      <4>1. i + 1 = Half
        BY <2>4, <3>1, <3>3
      <4>2. /\ Placed(e, baseRowIdx, Half, baseColIdx, Half)
            /\ Placed(e, baseRowIdx + Half, Half, baseColIdx, Half)
            /\ Placed(e, baseRowIdx, Half, baseColIdx + Half, Half)
            /\ Placed(e, baseRowIdx + Half, Half, baseColIdx + Half, Half)
        BY <2>3, <3>1, <4>1 DEF Part
      <4>3. Full(e, baseRowIdx, baseColIdx)
        <5> SUFFICES ASSUME NEW x \in 0 .. M - 1, NEW y \in 0 .. N - 1,
                            baseRowIdx <= y, y < baseRowIdx + Block,
                            baseColIdx <= x, x < baseColIdx + Block
                     PROVE  Right(e, x, y)
          BY DEF Full, Placed
        <5>1. \/ baseRowIdx <= y /\ y < baseRowIdx + Half
              \/ baseRowIdx + Half <= y /\ y < (baseRowIdx + Half) + Half
          BY <1>1, <2>4 DEF Position
        <5>2. \/ baseColIdx <= x /\ x < baseColIdx + Half
              \/ baseColIdx + Half <= x /\ x < (baseColIdx + Half) + Half
          BY <1>1, <2>4 DEF Position
        <5> QED BY <4>2, <5>1, <5>2 DEF Placed
      <4> QED BY <1>1, <2>1, <2>3, <2>5, <3>3, <4>3, NextBlockContent
    <3>4. ContentInv'
      BY <2>10, <3>2, <3>3 DEF CopyLowerRight
    <3> QED BY <1>2, <2>6, <3>4 DEF TransInv
  <2> QED BY <1>4, <2>7, <2>8, <2>9, <2>10
<1> QED BY <1>3, <1>4 DEF Next

\* TransInv is the inductive invariant of the transpose.
LEMMA TransInvariant ==
  ASSUME Square \in Multiples
  PROVE  Spec => []TransInv
<1>1. TransInv /\ [Next]_vars => TransInv'
  BY NextTransInv
<1> QED BY <1>1, InitTransInv, PTL DEF Spec

\* The indices stay in the ranges the code's loops give them, and the memory keeps its
\* type: TypeOK, for matrices, blocks and caches of any size.
THEOREM TransTypes ==
  ASSUME Square \in Nat, Square % Block = 0
  PROVE  Spec => []TypeOK
<1>1. Square \in Multiples
  BY DEF Multiples
<1>2. TransInv => TypeOK
  <2> SUFFICES ASSUME TransInv PROVE TypeOK
    OBVIOUS
  <2>1. Half \in Nat /\ Half > 0 /\ Block \in Nat /\ Block = 2 * Half
    BY BlockAssumption
  <2>2. baseRowIdx \in 0 .. N - 1 /\ baseColIdx \in 0 .. M - 1
    BY DEF TransInv, Position
  <2>3. loop \in {"row", "upper", "lowerLeft", "lowerRight"} /\ i \in 0 .. Block - 1
    BY <2>1 DEF TransInv, Position
  <2> QED BY <2>2, <2>3 DEF TransInv, MemoryInv, Memories, TypeOK
<1> QED BY <1>1, <1>2, TransInvariant, PTL

\* When my_trans or my_trans64x64 returns, B is the transpose of A, for matrices of any
\* size: cutting the blocks at the edges leaves no element out, and parking the upper
\* right quarter in B loses none.
THEOREM TransposesEvery ==
  ASSUME Square \in Nat, Square % Block = 0
  PROVE  Spec => []TransposesAll
<1>1. Square \in Multiples
  BY DEF Multiples
<1>2. TransInv => TransposesAll
  BY DEF TransInv, ContentInv, TransposesAll
<1> QED BY <1>1, <1>2, TransInvariant, PTL

-----------------------------------------------------------------------------
(* No access is outside the matrices.                                      *)
\* The assignments of every turn are between cells of the matrices.
LEMMA CopiesInside ==
  ASSUME Square \in Multiples, Position, NEW m \in Memories
  PROVE  InsideMatrices
<1>1. PICK p, e : p = Copies /\ e = Executed(m, p)
  OBVIOUS
<1>2. p \in Seq(Cell \X Targets)
  <2>1. CASE loop = "row"
    <3>1. p = RowCopies(i)
      BY <1>1, <2>1 DEF Copies
    <3> QED BY <1>1, <2>1, <3>1, RowTurn
  <2>2. CASE loop = "upper"
    <3>1. p = UpperCopies(i)
      BY <1>1, <2>2 DEF Copies
    <3> QED BY <1>1, <2>2, <3>1, UpperTurn
  <2>3. CASE loop = "lowerLeft"
    <3>1. p = LowerLeftCopies(i)
      BY <1>1, <2>3 DEF Copies
    <3> QED BY <1>1, <2>3, <3>1, LowerLeftTurn
  <2>4. CASE loop = "lowerRight"
    <3>1. p = LowerRightCopies(i)
      BY <1>1, <2>4 DEF Copies
    <3> QED BY <1>1, <2>4, <3>1, LowerRightTurn
  <2> QED BY <2>1, <2>2, <2>3, <2>4 DEF Position
<1>3. \A x \in 1 .. Len(p) : p[x] \in Cell \X Cell
  <2>1. \A x \in 1 .. Len(p) : p[x] \in Cell \X Targets
    BY <1>2
  <2> QED BY <2>1, TargetIsCell
<1>4. p \in Seq(Cell \X Cell)
  BY <1>2, <1>3
<1> QED BY <1>1, <1>4 DEF InsideMatrices, Cell

\* Every access of the transpose is to an element of the matrices or of the
\* temporary array, whatever their size: my_trans cuts the blocks at the edges,
\* and my_trans64x64, which checks nothing, is only called for a square of whole
\* blocks.
THEOREM AccessesInside ==
  ASSUME Square \in Nat, Square % Block = 0
  PROVE  Spec => []InsideMatrices
<1>1. Square \in Multiples
  BY DEF Multiples
<1>2. TransInv => InsideMatrices
  BY <1>1, CopiesInside DEF TransInv, MemoryInv
<1> QED BY <1>1, <1>2, TransInvariant, PTL

=============================================================================
