-------------------------------- MODULE Csim --------------------------------
(***************************************************************************)
(* The cache simulator: the trace loop and the exit handler of csim.c,     *)
(* cacheInitialize and cacheProcess of cache.c and the intrusive linked    *)
(* list of csim.h that keeps the lines of a set in order of use.           *)
(*                                                                         *)
(* Addresses, set indexes and tags are words of CacheAddr.  The lines of a *)
(* set are numbered in the order in which they are allocated.              *)
(***************************************************************************)
EXTENDS CacheAddr, FiniteSets

CONSTANTS
  Addr,         \* addresses a trace may hold
  paramE,       \* lines per set
  Null,         \* the null pointer
  MaxAccesses   \* bound: no trace line is read after so many accesses

ASSUME ParamAssumption ==
  /\ {} \in Addr /\ \A a \in Addr : a \subseteq Nat
  /\ paramE \in Nat \ {0}
  /\ MaxAccesses \in Nat

Lines == 1 .. paramE

ASSUME NullAssumption == Null \notin Lines

VARIABLES
  list,         \* per set: pHeadNode and the pointers of each line's node
  tag,          \* per set and line: the tag
  lineCnt,      \* per set: the lines allocated
  memOpInfo,    \* the operation and address of the last line that had them
  todo,         \* accesses the current line has still to make
  reading,      \* between two lines
  flags,        \* missFlag, hitFlag and evictionFlag, those that are set
  hitCnt, missCnt, evictionCnt,
  phase,        \* options read, trace loop, exit handler, ended, killed
  cacheSetArr,  \* whether the sets are allocated
  freed         \* per set: the lines exitFcn has freed

cacheVars == <<list, tag, lineCnt>>
counters == <<hitCnt, missCnt, evictionCnt>>
lineVars == <<memOpInfo, todo, reading, flags>>
processVars == <<phase, cacheSetArr, freed>>
vars == <<cacheVars, lineVars, counters, processVars>>

-----------------------------------------------------------------------------

Ptr == Lines \cup {Null}

List == [head : Ptr, next : [Lines -> Ptr], prev : [Lines -> Ptr]]

\* DATALOAD, DATASTORE, DATAMODIFY, INSTRUCTION and any other first character.
Ops == {"L", "S", "M", "I", "?"}

Tags == {tagOf(a) : a \in Addr}

\* The variables of the program have their types.
TypeOK ==
  /\ list \in [Sets -> List]
  /\ tag \in [Sets -> [Lines -> Tags]]
  /\ lineCnt \in [Sets -> 0 .. paramE]
  /\ memOpInfo \in [op : Ops, addr : Addr]
  /\ todo \in 0 .. 2
  /\ reading \in BOOLEAN
  /\ flags \in SUBSET {"hit", "miss", "eviction"}
  /\ hitCnt \in Nat /\ missCnt \in Nat /\ evictionCnt \in Nat
  /\ phase \in {"start", "trace", "exit", "exited", "crashed"}
  /\ cacheSetArr \in {"unset", "null", "allocated"}
  /\ freed \in [Sets -> SUBSET Lines]

NoList ==
  [head |-> Null, next |-> [n \in Lines |-> Null], prev |-> [n \in Lines |-> Null]]

\* The variables are static; list, tag and lineCnt count once allocated.
Init ==
  /\ list = [s \in Sets |-> NoList]
  /\ tag = [s \in Sets |-> [n \in Lines |-> {}]]
  /\ lineCnt = [s \in Sets |-> 0]
  /\ memOpInfo = [op |-> "?", addr |-> {}]
  /\ todo = 0
  /\ reading = TRUE
  /\ flags = {}
  /\ hitCnt = 0 /\ missCnt = 0 /\ evictionCnt = 0
  /\ phase = "start"
  /\ cacheSetArr = "unset"
  /\ freed = [s \in Sets |-> {}]

-----------------------------------------------------------------------------
(* From main to the trace loop, with every option given or an error in one.*)

\* An option is wrong, or -h: the program exits, with paramS still 0.
UsageError ==
  /\ phase = "start"
  /\ phase' = "exit"
  /\ UNCHANGED <<cacheVars, lineVars, counters, cacheSetArr, freed>>

\* cacheInitialize: calloc returns the sets, cleared, or NULL, and it exits.
Initialize ==
  /\ phase = "start"
  /\ \/ cacheSetArr' = "allocated" /\ phase' = "trace"
     \/ cacheSetArr' = "null" /\ phase' = "exit"
  /\ UNCHANGED <<cacheVars, lineVars, counters, freed>>

-----------------------------------------------------------------------------
(* The list of csim.h.                                                     *)

\* The k-th node from the head, Null behind the tail.
Walk(l) ==
  LET node[k \in 1 .. paramE + 1] ==
        IF k = 1 THEN l.head
        ELSE IF node[k - 1] = Null THEN Null ELSE l.next[node[k - 1]]
  IN  node

\* Mutant of InsertHead: the new node is not linked to the old head.
InsertAlone(l, n) ==
  [head |-> n,
   next |-> l.next,
   prev |-> IF l.head = Null THEN [l.prev EXCEPT ![n] = Null]
            ELSE [l.prev EXCEPT ![l.head] = n, ![n] = Null]]

\* listInsertHead.
InsertHead(l, n) ==
  [head |-> n,
   next |-> [l.next EXCEPT ![n] = l.head],
   prev |-> IF l.head = Null THEN [l.prev EXCEPT ![n] = Null]
            ELSE [l.prev EXCEPT ![l.head] = n, ![n] = Null]]

\* Mutant of MoveNodeToHead: the successor keeps its pointer to the node.
MoveNodeForward(l, n) ==
  IF l.head = n THEN l
  ELSE [head |-> n,
        next |-> [l.next EXCEPT ![l.prev[n]] = l.next[n], ![n] = l.head],
        prev |-> [l.prev EXCEPT ![n] = Null, ![l.head] = n]]

\* listMoveNodeToHead.
MoveNodeToHead(l, n) ==
  LET p == l.prev[n]
      q == l.next[n]
      prev == IF q = Null THEN l.prev ELSE [l.prev EXCEPT ![q] = p]
  IN  IF l.head = n THEN l
      ELSE [head |-> n,
            next |-> [l.next EXCEPT ![p] = q, ![n] = l.head],
            prev |-> [prev EXCEPT ![n] = Null, ![l.head] = n]]

\* listFindTailNode.
TailNode(l) ==
  LET node == Walk(l)
  IN  node[CHOOSE k \in Lines : node[k] # Null /\ node[k + 1] = Null]

-----------------------------------------------------------------------------
(* The trace loop.                                                         *)

\* One line of the trace: its operation, and an address unless the line ends
\* before it; then the last one stays.  An address or a size that is no number
\* passes the tests (optarg is never where strtoul stops) and is read as 0.  A
\* line without any token repeats the last line's operation too.
ReadLine(op, addrs) ==
  /\ phase = "trace" /\ reading
  /\ hitCnt + missCnt < MaxAccesses
  /\ \E a \in addrs : memOpInfo' = [op |-> op, addr |-> a]
  /\ todo' = CASE op = "M" -> 2 [] op \in {"L", "S"} -> 1 [] OTHER -> 0
  /\ reading' = FALSE
  /\ UNCHANGED <<cacheVars, flags, counters, processVars>>

\* The nodes of a set whose line holds tag t.
Holding(s, t) ==
  LET node == Walk(list[s])
  IN  {k \in Lines : node[k] # Null /\ tag[s][node[k]] = t}

Accessing == phase = "trace" /\ ~reading /\ todo > 0

\* Mutant of Hit: the line stays where it is in its list.
HitStays ==
  /\ Accessing
  /\ Holding(setIdx(memOpInfo.addr), tagOf(memOpInfo.addr)) # {}
  /\ hitCnt' = hitCnt + 1
  /\ flags' = flags \cup {"hit"}
  /\ todo' = todo - 1
  /\ UNCHANGED <<cacheVars, memOpInfo, reading, missCnt, evictionCnt, processVars>>

\* cacheProcess finds the tag: the line moves to the head of its list.
Hit ==
  LET s == setIdx(memOpInfo.addr)
      t == tagOf(memOpInfo.addr)
      found == Holding(s, t)
  IN  /\ Accessing
      /\ found # {}
      /\ LET k == CHOOSE i \in found : \A j \in found : i <= j
         IN  list' = [list EXCEPT ![s] = MoveNodeToHead(@, Walk(@)[k])]
      /\ hitCnt' = hitCnt + 1
      /\ flags' = flags \cup {"hit"}
      /\ todo' = todo - 1
      /\ UNCHANGED <<tag, lineCnt, memOpInfo, reading, missCnt, evictionCnt, processVars>>

\* Mutant of MissInsert: one line too many is allocated.
MissInsertBeyond ==
  LET s == setIdx(memOpInfo.addr)
      t == tagOf(memOpInfo.addr)
      n == lineCnt[s] + 1
  IN  /\ Accessing
      /\ Holding(s, t) = {}
      /\ lineCnt[s] <= paramE
      /\ list' = [list EXCEPT ![s] = InsertHead(@, n)]
      /\ tag' = [tag EXCEPT ![s][n] = t]
      /\ lineCnt' = [lineCnt EXCEPT ![s] = n]
      /\ missCnt' = missCnt + 1
      /\ flags' = flags \cup {"miss"}
      /\ todo' = todo - 1
      /\ UNCHANGED <<memOpInfo, reading, hitCnt, evictionCnt, processVars>>

\* It does not, and a line is free: a new one, with the tag, at the head.
MissInsert ==
  LET s == setIdx(memOpInfo.addr)
      t == tagOf(memOpInfo.addr)
      n == lineCnt[s] + 1
  IN  /\ Accessing
      /\ Holding(s, t) = {}
      /\ lineCnt[s] < paramE
      /\ list' = [list EXCEPT ![s] = InsertHead(@, n)]
      /\ tag' = [tag EXCEPT ![s][n] = t]
      /\ lineCnt' = [lineCnt EXCEPT ![s] = n]
      /\ missCnt' = missCnt + 1
      /\ flags' = flags \cup {"miss"}
      /\ todo' = todo - 1
      /\ UNCHANGED <<memOpInfo, reading, hitCnt, evictionCnt, processVars>>

\* calloc fails: the program exits, after the miss has been counted.
MissNoMemory ==
  LET s == setIdx(memOpInfo.addr)
      t == tagOf(memOpInfo.addr)
  IN  /\ Accessing
      /\ Holding(s, t) = {}
      /\ lineCnt[s] < paramE
      /\ missCnt' = missCnt + 1
      /\ flags' = flags \cup {"miss"}
      /\ phase' = "exit"
      /\ UNCHANGED <<cacheVars, memOpInfo, todo, reading, hitCnt, evictionCnt>>
      /\ UNCHANGED <<cacheSetArr, freed>>

\* Mutant of MissEvict: the new line replaces the one used last.
MissEvictHead ==
  LET s == setIdx(memOpInfo.addr)
      t == tagOf(memOpInfo.addr)
  IN  /\ Accessing
      /\ Holding(s, t) = {}
      /\ lineCnt[s] = paramE
      /\ tag' = [tag EXCEPT ![s][list[s].head] = t]
      /\ missCnt' = missCnt + 1
      /\ evictionCnt' = evictionCnt + 1
      /\ flags' = flags \cup {"miss", "eviction"}
      /\ todo' = todo - 1
      /\ UNCHANGED <<list, lineCnt, memOpInfo, reading, hitCnt, processVars>>

\* Mutant of MissEvict: the line moves to the head with its old tag.
MissEvictKeepsTag ==
  LET s == setIdx(memOpInfo.addr)
      t == tagOf(memOpInfo.addr)
  IN  /\ Accessing
      /\ Holding(s, t) = {}
      /\ lineCnt[s] = paramE
      /\ list' = [list EXCEPT ![s] = MoveNodeToHead(@, TailNode(@))]
      /\ missCnt' = missCnt + 1
      /\ evictionCnt' = evictionCnt + 1
      /\ flags' = flags \cup {"miss", "eviction"}
      /\ todo' = todo - 1
      /\ UNCHANGED <<tag, lineCnt, memOpInfo, reading, hitCnt, processVars>>

\* Mutant of MissEvict: the eviction is not counted.
MissEvictUncounted ==
  LET s == setIdx(memOpInfo.addr)
      t == tagOf(memOpInfo.addr)
      n == TailNode(list[s])
  IN  /\ Accessing
      /\ Holding(s, t) = {}
      /\ lineCnt[s] = paramE
      /\ list' = [list EXCEPT ![s] = MoveNodeToHead(@, n)]
      /\ tag' = [tag EXCEPT ![s][n] = t]
      /\ missCnt' = missCnt + 1
      /\ flags' = flags \cup {"miss"}
      /\ todo' = todo - 1
      /\ UNCHANGED <<lineCnt, memOpInfo, reading, hitCnt, evictionCnt, processVars>>

\* Every line is taken: the one at the tail gets the tag and moves to the head.
MissEvict ==
  LET s == setIdx(memOpInfo.addr)
      t == tagOf(memOpInfo.addr)
      n == TailNode(list[s])
  IN  /\ Accessing
      /\ Holding(s, t) = {}
      /\ lineCnt[s] = paramE
      /\ list' = [list EXCEPT ![s] = MoveNodeToHead(@, n)]
      /\ tag' = [tag EXCEPT ![s][n] = t]
      /\ missCnt' = missCnt + 1
      /\ evictionCnt' = evictionCnt + 1
      /\ flags' = flags \cup {"miss", "eviction"}
      /\ todo' = todo - 1
      /\ UNCHANGED <<lineCnt, memOpInfo, reading, hitCnt, processVars>>

\* The line is done: its flags are printed in verbose mode, and cleared.
EndLine ==
  /\ phase = "trace" /\ ~reading /\ todo = 0
  /\ flags' = {}
  /\ reading' = TRUE
  /\ UNCHANGED <<cacheVars, memOpInfo, todo, counters, processVars>>

\* End of the trace: printSummary, and main returns.
EndOfTrace ==
  /\ phase = "trace" /\ reading
  /\ phase' = "exit"
  /\ UNCHANGED <<cacheVars, lineVars, counters, cacheSetArr, freed>>

-----------------------------------------------------------------------------
(* exitFcn frees the lines of each set, following pNextNode from the head. *)
(* It reads that pointer in a line just freed; free of the C library the   *)
(* program is built with leaves it there.                                  *)

Reached(l) ==
  LET node == Walk(l) IN {node[k] : k \in {j \in Lines : node[j] # Null}}

\* Without sets, paramS = 0, there is nothing to walk.
Exit ==
  /\ phase = "exit" /\ cacheSetArr # "null"
  /\ freed' = [s \in Sets |-> IF cacheSetArr = "allocated" THEN Reached(list[s]) ELSE {}]
  /\ phase' = "exited"
  /\ UNCHANGED <<cacheVars, lineVars, counters, cacheSetArr>>

\* paramS is set and the array is NULL: the walk reads the head of set 0.
ExitNoSets ==
  /\ phase = "exit" /\ cacheSetArr = "null"
  /\ phase' = "crashed"
  /\ UNCHANGED <<cacheVars, lineVars, counters, cacheSetArr, freed>>

Ended == phase \in {"exited", "crashed"} /\ UNCHANGED vars

Next ==
  \/ UsageError
  \/ Initialize
  \/ \E op \in Ops : ReadLine(op, Addr)
  \/ \E op \in Ops : ReadLine(op, {memOpInfo.addr})
  \/ Hit
  \/ MissInsert
  \/ MissNoMemory
  \/ MissEvict
  \/ EndLine
  \/ EndOfTrace
  \/ Exit
  \/ ExitNoSets
  \/ Ended

Spec == Init /\ [][Next]_vars

-----------------------------------------------------------------------------
(* What is claimed of the simulator.                                       *)

\* Following pNextNode from the head meets every allocated line once and ends
\* there, pPrevNode leads back, and no two lines of a set hold the same tag.
ListsWellFormed ==
  \A s \in Sets :
    LET node == Walk(list[s])
        used == 1 .. lineCnt[s]
    IN  /\ {node[k] : k \in used} = used
        /\ node[lineCnt[s] + 1] = Null
        /\ \A k \in used : list[s].prev[node[k]] = IF k = 1 THEN Null ELSE node[k - 1]
        /\ \A i, k \in used : tag[s][i] = tag[s][k] => i = k

LinesInUse == {place \in Sets \X Lines : place[2] <= lineCnt[place[1]]}

\* A line comes into use by a miss that evicts nothing, and stays: what was
\* missed and not evicted is what the cache holds.
CountersBalance == phase = "trace" => missCnt - evictionCnt = Cardinality(LinesInUse)

\* A modify is a load and a store of the same address: whatever the load did,
\* the store hits, and the line printed for it says so.
ModifyEndsInHit ==
  (phase = "trace" /\ ~reading /\ todo = 0 /\ memOpInfo.op = "M") => "hit" \in flags

\* However the program leaves, exitFcn frees every line calloc returned.
LinesAreFreed == phase = "exited" => \A s \in Sets : freed[s] = 1 .. lineCnt[s]

\* csim.c: "Release the variable allocated in the process".  Whatever was
\* allocated, releasing it does not end in a crash.
ReleasesWhatWasAllocated == phase # "crashed"

=============================================================================
