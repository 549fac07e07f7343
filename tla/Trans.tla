-------------------------------- MODULE Trans --------------------------------
(***************************************************************************)
(* The transpose of trans.c, B = A^T, and the misses it is graded by: the  *)
(* accesses to A and B go through a direct mapped cache.  One action is    *)
(* one turn of the loop inside a block.                                    *)
(*                                                                         *)
(* A cell is <<"A", row, column>>, <<"B", row, column>> or <<"tmp", index>>.*)
(***************************************************************************)
EXTENDS Integers, Sequences

CONSTANTS
  Sizes,     \* the pairs <<M, N>> to transpose: A has N rows of M elements
  Block,     \* splitBlockRowNum and splitBlockColElemNum, an even number
  Square,    \* the size my_trans64x64 is for
  LineInts,  \* elements in a cache line
  CacheSets, \* lines of the cache
  BaseB,     \* distance of the arrays, in elements
  Junk       \* value of an element not written yet

Half == Block \div 2

ASSUME BlockAssumption == Half \in Nat \ {0} /\ Block = 2 * Half

ASSUME LayoutAssumption ==
  /\ Sizes \subseteq (Nat \ {0}) \X (Nat \ {0})
  /\ \A size \in Sizes : size[1] * size[2] <= BaseB
  /\ LineInts \in Nat \ {0} /\ CacheSets \in Nat \ {0}
  /\ BaseB \in Nat /\ BaseB % LineInts = 0
  /\ Junk \notin Nat

VARIABLES
  M, N,
  baseRowIdx, baseColIdx,  \* the block
  loop,                    \* the loop inside the block
  i,                       \* its index, from 0
  mem,                     \* array B, tmpDiagData, and the cache
  done

position == <<baseRowIdx, baseColIdx, loop, i>>
vars == <<M, N, position, mem, done>>

\* The element of A in a row and a column: no two are the same.
Element(r, c) == r * M + c

Values == Nat \cup {Junk}

\* Types; the loops over blocks and inside one stay within the matrix (79-107).
TypeOK ==
  /\ <<M, N>> \in Sizes
  /\ baseRowIdx \in 0 .. N - 1 /\ baseColIdx \in 0 .. M - 1
  /\ loop \in {"row", "upper", "lowerLeft", "lowerRight"}
  /\ i \in 0 .. Block - 1
  /\ mem.B \in [0 .. M - 1 -> [0 .. N - 1 -> Values]]
  /\ mem.tmp \in [0 .. Block - 1 -> Values]
  /\ mem.line \in [0 .. CacheSets - 1 -> Int]
  /\ mem.misses \in Nat
  /\ done \in BOOLEAN

-----------------------------------------------------------------------------
(* Memory and cache.                                                       *)

Address(cell) ==
  IF cell[1] = "A" THEN cell[2] * M + cell[3] ELSE BaseB + cell[2] * N + cell[3]

\* An access to an array: the line of its set must be the one it lies in.
Access(m, cell) ==
  LET line == Address(cell) \div LineInts
      set == line % CacheSets
  IN  IF cell[1] = "tmp" \/ m.line[set] = line THEN m
      ELSE [m EXCEPT !.line[set] = line, !.misses = @ + 1]

Read(m, cell) ==
  CASE cell[1] = "A" -> Element(cell[2], cell[3])
    [] cell[1] = "B" -> m.B[cell[2]][cell[3]]
    [] cell[1] = "tmp" -> m.tmp[cell[2]]

Write(m, cell, value) ==
  IF cell[1] = "B" THEN [m EXCEPT !.B[cell[2]][cell[3]] = value]
  ELSE [m EXCEPT !.tmp[cell[2]] = value]

\* The assignment copy[2] = copy[1].
Assign(m, copy) ==
  Write(Access(Access(m, copy[1]), copy[2]), copy[2], Read(m, copy[1]))

\* The assignments of copies, one after the other.
Executed(m, copies) ==
  LET after[k \in 0 .. Len(copies)] ==
        IF k = 0 THEN m ELSE Assign(after[k - 1], copies[k])
  IN  after[Len(copies)]

\* Between a row or a column of n elements of A and tmp from index t on, and
\* between tmp and a row or a column of B.
RowToTmp(r, c, n, t) == [x \in 1 .. n |-> << <<"A", r, c + x - 1>>, <<"tmp", t + x - 1>> >>]
ColumnToTmp(r, c, n, t) == [x \in 1 .. n |-> << <<"A", r + x - 1, c>>, <<"tmp", t + x - 1>> >>]
TmpToRow(r, c, n, t) == [x \in 1 .. n |-> << <<"tmp", t + x - 1>>, <<"B", r, c + x - 1>> >>]
TmpToColumn(r, c, n, t) == [x \in 1 .. n |-> << <<"tmp", t + x - 1>>, <<"B", r + x - 1, c>> >>]

-----------------------------------------------------------------------------
(* The loops inside a block, each turn as its assignments in order.        *)

\* Mutant of RowCopies: no temporary array, each element goes straight to B.
RowCopiesDirect(k) ==
  LET width == IF baseColIdx + Block <= M THEN Block ELSE M - baseColIdx
  IN  [x \in 1 .. width |->
        << <<"A", baseRowIdx + k, baseColIdx + x - 1>>, <<"B", baseColIdx + x - 1, baseRowIdx + k>> >>]

\* my_trans: row k of the block, as far as the matrix goes.
RowCopies(k) ==
  LET width == IF baseColIdx + Block <= M THEN Block ELSE M - baseColIdx
  IN  RowToTmp(baseRowIdx + k, baseColIdx, width, 0)
      \o TmpToColumn(baseColIdx, baseRowIdx + k, width, 0)

\* my_trans64x64, upper half of the block: the left part of row k to its place,
\* the right part to the upper right of the block of B, to be moved later.
UpperCopies(k) ==
  RowToTmp(baseRowIdx + k, baseColIdx, Half, 0)
  \o TmpToColumn(baseColIdx, baseRowIdx + k, Half, 0)
  \o RowToTmp(baseRowIdx + k, baseColIdx + Half, Half, Half)
  \o TmpToColumn(baseColIdx, baseRowIdx + k + Half, Half, Half)

\* Mutant of LowerLeftCopies: the row is overwritten before it is saved.
LowerLeftCopiesLate(k) ==
  ColumnToTmp(baseRowIdx + Half, baseColIdx + k, Half, Half)
  \o TmpToRow(baseColIdx + k, baseRowIdx + Half, Half, Half)
  \o [x \in 1 .. Half |->
       << <<"B", baseColIdx + k, baseRowIdx + Half + x - 1>>, <<"tmp", Half + x - 1>> >>]
  \o TmpToRow(baseColIdx + k + Half, baseRowIdx, Half, Half)

\* Lower left: the row parked in row k of the block of B goes to tmp, and column k
\* of A takes its place, element by element.
Exchange(k) ==
  [x \in 1 .. 2 * Half |->
    LET y == Half + (x - 1) \div 2
        place == <<"B", baseColIdx + k, baseRowIdx + y>>
    IN  IF x % 2 = 1 THEN <<place, <<"tmp", y>> >>
        ELSE << <<"A", baseRowIdx + y, baseColIdx + k>>, place>>]

\* The row then moves to the lower left of the block of B.
LowerLeftCopies(k) ==
  Exchange(k) \o TmpToRow(baseColIdx + k + Half, baseRowIdx, Half, Half)

\* Lower right: column Half + k of A to its place.
LowerRightCopies(k) ==
  ColumnToTmp(baseRowIdx + Half, baseColIdx + Half + k, Half, Half)
  \o TmpToRow(baseColIdx + Half + k, baseRowIdx + Half, Half, Half)

Copies ==
  CASE loop = "row" -> RowCopies(i)
    [] loop = "upper" -> UpperCopies(i)
    [] loop = "lowerLeft" -> LowerLeftCopies(i)
    [] loop = "lowerRight" -> LowerRightCopies(i)

-----------------------------------------------------------------------------

\* Mutant of FirstLoop: one side of that size is enough.
FirstLoopEither(m, n) == IF m = Square \/ n = Square THEN "upper" ELSE "row"

\* transpose_submit chooses the function, and so the first loop of each block.
FirstLoop(m, n) == IF m = Square /\ n = Square THEN "upper" ELSE "row"

\* Whatever a matrix held in the cache before counts as a miss.
Init ==
  /\ \E size \in Sizes : M = size[1] /\ N = size[2]
  /\ baseRowIdx = 0 /\ baseColIdx = 0 /\ i = 0
  /\ loop = FirstLoop(M, N)
  /\ mem = [B |-> [r \in 0 .. M - 1 |-> [c \in 0 .. N - 1 |-> Junk]],
            tmp |-> [x \in 0 .. Block - 1 |-> Junk],
            line |-> [s \in 0 .. CacheSets - 1 |-> -1],
            misses |-> 0]
  /\ done = FALSE

Work ==
  /\ ~done
  /\ mem' = Executed(mem, Copies)
  /\ UNCHANGED <<M, N>>

\* Mutant of NextBlock: the outer loop does one turn too many.
NextBlockBeyond ==
  /\ i' = 0 /\ loop' = FirstLoop(M, N)
  /\ \/ /\ baseColIdx + Block < M
        /\ baseColIdx' = baseColIdx + Block
        /\ UNCHANGED <<baseRowIdx, done>>
     \/ /\ baseColIdx + Block >= M /\ baseRowIdx + Block <= N
        /\ baseColIdx' = 0 /\ baseRowIdx' = baseRowIdx + Block
        /\ UNCHANGED done
     \/ /\ baseColIdx + Block >= M /\ baseRowIdx + Block > N
        /\ done' = TRUE
        /\ UNCHANGED <<baseRowIdx, baseColIdx>>

\* The two loops over blocks, and the return behind them.
NextBlock ==
  /\ i' = 0 /\ loop' = FirstLoop(M, N)
  /\ \/ /\ baseColIdx + Block < M
        /\ baseColIdx' = baseColIdx + Block
        /\ UNCHANGED <<baseRowIdx, done>>
     \/ /\ baseColIdx + Block >= M /\ baseRowIdx + Block < N
        /\ baseColIdx' = 0 /\ baseRowIdx' = baseRowIdx + Block
        /\ UNCHANGED done
     \/ /\ baseColIdx + Block >= M /\ baseRowIdx + Block >= N
        /\ done' = TRUE
        /\ UNCHANGED <<baseRowIdx, baseColIdx>>

NextTurn == i' = i + 1 /\ UNCHANGED <<baseRowIdx, baseColIdx, loop, done>>

NextLoop(l) == i' = 0 /\ loop' = l /\ UNCHANGED <<baseRowIdx, baseColIdx, done>>

\* my_trans: the rows of the block that the matrix has.
CopyRow ==
  /\ loop = "row" /\ Work
  /\ IF i + 1 < Block /\ baseRowIdx + i + 1 < N THEN NextTurn ELSE NextBlock

\* my_trans64x64.
CopyUpper ==
  /\ loop = "upper" /\ Work
  /\ IF i + 1 < Half THEN NextTurn ELSE NextLoop("lowerLeft")

CopyLowerLeft ==
  /\ loop = "lowerLeft" /\ Work
  /\ IF i + 1 < Half THEN NextTurn ELSE NextLoop("lowerRight")

CopyLowerRight ==
  /\ loop = "lowerRight" /\ Work
  /\ IF i + 1 < Half THEN NextTurn ELSE NextBlock

Returned == done /\ UNCHANGED vars

Next == CopyRow \/ CopyUpper \/ CopyLowerLeft \/ CopyLowerRight \/ Returned

Spec == Init /\ [][Next]_vars

-----------------------------------------------------------------------------
(* What is claimed of the transpose.                                       *)

\* When transpose_submit returns, is_transpose holds.
TransposesAll ==
  done => \A r \in 0 .. N - 1, c \in 0 .. M - 1 : mem.B[c][r] = Element(r, c)

\* No turn of a loop reads or writes outside the two matrices, whatever their
\* shape: my_trans64x64, which checks no bound, only ever gets the one it is for.
InsideMatrices ==
  LET Cell == ({"A"} \X (0 .. N - 1) \X (0 .. M - 1))
                \cup ({"B"} \X (0 .. M - 1) \X (0 .. N - 1))
                \cup ({"tmp"} \X (0 .. Block - 1))
  IN  ~done => Copies \in Seq(Cell \X Cell)

=============================================================================
