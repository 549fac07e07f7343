-------------------------------- MODULE LRU --------------------------------
(***************************************************************************)
(* What the cache simulator promises: the numbers of hits, misses and      *)
(* evictions of a cache of Ways lines per set that evicts the line used    *)
(* least recently.  A set is described by the tags it was ever asked for,  *)
(* the most recently used first: it holds the first Ways of them.          *)
(***************************************************************************)
EXTENDS Naturals, Sequences

CONSTANTS
  Sets,  \* set indexes
  Tags,  \* tags
  Ways   \* lines per set

VARIABLES used, hits, misses, evictions

vars == <<used, hits, misses, evictions>>

Init ==
  /\ used = [s \in Sets |-> <<>>]
  /\ hits = 0 /\ misses = 0 /\ evictions = 0

\* The tags a set holds.
Held(u) == {u[i] : i \in {k \in DOMAIN u : k <= Ways}}

\* Tag t becomes the most recently used of its set: those used since it was
\* used last, or all of them, move down.
Touch(u, t) ==
  LET places == {i \in DOMAIN u : u[i] = t}
  IN  IF places = {} THEN <<t>> \o u
      ELSE [k \in DOMAIN u |->
              IF k = 1 THEN t ELSE IF \E i \in places : k <= i THEN u[k - 1] ELSE u[k]]

Access(s, t) ==
  /\ used' = [used EXCEPT ![s] = Touch(@, t)]
  /\ IF t \in Held(used[s])
     THEN hits' = hits + 1 /\ UNCHANGED <<misses, evictions>>
     ELSE /\ misses' = misses + 1
          /\ evictions' = evictions + IF Len(used[s]) >= Ways THEN 1 ELSE 0
          /\ UNCHANGED hits

Next == \E s \in Sets, t \in Tags : Access(s, t)

Spec == Init /\ [][Next]_vars

=============================================================================
