------------------------------ MODULE CsimLRU ------------------------------
(***************************************************************************)
(* The simulator implements LRU.  The history variable used records, for   *)
(* each set, the tags of the blocks asked for, the most recently used      *)
(* first; no action of the simulator reads it.                             *)
(***************************************************************************)
EXTENDS Csim, Sequences

VARIABLE used

Cache == INSTANCE LRU WITH
  Tags <- {TagOf(a) : a \in Addr}, Ways <- paramE, hits <- hitCnt, misses <- missCnt, evictions <- evictionCnt

\* The simulator has made an access in this step.
Accessed == hitCnt' + missCnt' > hitCnt + missCnt

Record ==
  LET s == SetOf(memOpInfo.addr)
      t == TagOf(memOpInfo.addr)
  IN  used' = IF Accessed THEN [used EXCEPT ![s] = Cache!Touch(@, t)] ELSE used

HInit == Init /\ used = [s \in Sets |-> <<>>]

HNext == Next /\ Record

HSpec == HInit /\ [][HNext]_<<vars, used>>

\* Hits, misses and evictions are counted as an LRU cache counts them.
ImplementsLRU == Cache!Spec

\* From head to tail, the list of a set holds the tags used last.
ListIsRecency ==
  phase = "trace" => \A s \in Sets :
    \A k \in 1 .. lineCnt[s] : tag[s][Walk(list[s])[k]] = used[s][k]

=============================================================================
