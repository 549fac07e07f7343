----------------------------- MODULE CacheAddr -----------------------------
(***************************************************************************)
(* How cacheInitialize and cacheProcess cut an address into set index and  *)
(* tag.  A machine word is the set of its bits that are one: the masks of  *)
(* the code are sets of bit positions, & is intersection and ~ complement. *)
(***************************************************************************)
EXTENDS Integers

CONSTANTS
  param_s,   \* number of set index bits
  param_b,   \* number of block offset bits
  UintBits   \* width of uint, 32; an address is wider

\* From the width of uint on, the shifts of 1 are undefined.
ASSUME WidthAssumption ==
  /\ UintBits \in Nat
  /\ param_s \in 1 .. UintBits - 1
  /\ param_b \in 1 .. UintBits - 1

\* A word shifted right.
ShiftRight(word, k) == {i - k : i \in {j \in word : j >= k}}

blockOffsetMask == 0 .. param_b - 1

\* (paramS - 1) << param_b is computed in uint, before it becomes a uint64_t.
setIndexMask == {i \in param_b .. param_b + param_s - 1 : i < UintBits}

setIdx(addr) == ShiftRight(addr \cap setIndexMask, param_b)

tagOf(addr) == ShiftRight(addr \ (blockOffsetMask \cup setIndexMask), param_b + param_s)

\* The 1 << param_s sets of the cache.
Sets == SUBSET (0 .. param_s - 1)

-----------------------------------------------------------------------------
(* What the options ask for: of an address, the bits above the offset name *)
(* the block, the lowest param_s of them its set and the others its tag.   *)

Block(addr) == ShiftRight(addr, param_b)
SetOf(addr) == Block(addr) \cap (0 .. param_s - 1)
TagOf(addr) == ShiftRight(Block(addr), param_s)

=============================================================================
