------------------------------- MODULE MCCsim -------------------------------
(***************************************************************************)
(* Instances of the cache simulator for TLC.                               *)
(***************************************************************************)
EXTENDS CsimLRU

\* The first byte of every block that bits 0 to 3 address, and another byte of
\* block 0.
FirstBytes == {a \in SUBSET (0 .. 3) : 0 \notin a} \cup {{0}}

\* Bit 3 belongs to the set index, and a uint has no such bit.
WideBytes == SUBSET {2, 3, 4}
=============================================================================
