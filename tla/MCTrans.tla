------------------------------- MODULE MCTrans -------------------------------
(***************************************************************************)
(* The transpose at its real sizes, on the cache it is graded with.        *)
(***************************************************************************)
EXTENDS Trans

Graded == {<<32, 32>>, <<64, 64>>, <<61, 67>>}

\* Shapes around the size of a block, and around the square of 64.
Shapes == Graded \cup ({1, 7, 8, 9, 17} \X {1, 8, 15}) \cup {<<64, 61>>, <<9, 64>>}

NoValue == -1

\* The misses of the graded sizes are those README.md of the lab reports, 290,
\* 1286 and 2000, which driver.py gives the full score.  They include six of
\* accesses that are not the transpose's own, the same six at each size.
MissesAsMeasured ==
  done => CASE <<M, N>> = <<32, 32>> -> mem.misses + 6 = 290
            [] <<M, N>> = <<64, 64>> -> mem.misses + 6 = 1286
            [] <<M, N>> = <<61, 67>> -> mem.misses + 6 = 2000
            [] OTHER -> TRUE
=============================================================================
