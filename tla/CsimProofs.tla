------------------------------ MODULE CsimProofs ------------------------------
(***************************************************************************)
(* The cache simulator, for every number of sets, lines and blocks: its     *)
(* lists keep every line in order of use, and it counts as an LRU cache     *)
(* does, as long as set index and block offset fit a uint.                  *)
(***************************************************************************)
EXTENDS CsimLRU, TLAPS, WellFoundedInduction, FiniteSetTheorems

-----------------------------------------------------------------------------
(* Addresses.                                                              *)

\* A bit of a word shifted right is a bit of the word, k positions up.
LEMMA ShiftedBit ==
  ASSUME NEW word \in SUBSET Nat, NEW k \in Nat, NEW n
  PROVE  n \in ShiftRight(word, k) <=> n \in Nat /\ n + k \in word
<1>1. ASSUME n \in ShiftRight(word, k)
      PROVE  n \in Nat /\ n + k \in word
  <2>1. PICK j \in word : j >= k /\ n = j - k
    BY <1>1 DEF ShiftRight
  <2> QED  BY <2>1
<1>2. ASSUME n \in Nat, n + k \in word
      PROVE  n \in ShiftRight(word, k)
  <2>1. n + k >= k /\ n = (n + k) - k
    BY <1>2
  <2> QED  BY <1>2, <2>1 DEF ShiftRight
<1> QED  BY <1>1, <1>2

\* The index of every address is that of one of the sets cacheInitialize has
\* allocated, for every choice of the options (cache.c, 41 and 48).
THEOREM SetInRange ==
  ASSUME NEW addr \in SUBSET Nat
  PROVE  setIdx(addr) \in Sets
<1> DEFINE w == addr \cap setIndexMask
<1>a. param_b \in Nat /\ param_s \in Nat
  BY WidthAssumption
<1>b. w \in SUBSET Nat
  OBVIOUS
<1>1. w \in SUBSET Nat /\ param_b \in Nat /\ param_s \in Nat
  BY <1>a, <1>b
<1>2. ASSUME NEW n \in setIdx(addr)
      PROVE  n \in 0 .. param_s - 1
  <2>1. n \in Nat /\ n + param_b \in w
    BY <1>1, ShiftedBit DEF setIdx
  <2>2. n + param_b \in param_b .. param_b + param_s - 1
    BY <2>1 DEF setIndexMask
  <2> QED  BY <1>1, <2>1, <2>2
<1> QED  BY <1>2 DEF Sets

\* The set and the tag the options ask for are two parts of the block's number that
\* make it up.
LEMMA PartsNameBlock ==
  ASSUME NEW x \in SUBSET Nat, NEW y \in SUBSET Nat
  PROVE  SetOf(x) = SetOf(y) /\ TagOf(x) = TagOf(y) <=> Block(x) = Block(y)
<1>1. param_b \in Nat /\ param_s \in Nat
  BY WidthAssumption
<1>2. Block(x) \in SUBSET Nat /\ Block(y) \in SUBSET Nat
  BY <1>1, ShiftedBit DEF Block
<1>3. ASSUME SetOf(x) = SetOf(y), TagOf(x) = TagOf(y)
      PROVE  Block(x) = Block(y)
  <2>1. ASSUME NEW n \in Nat
        PROVE  n \in Block(x) <=> n \in Block(y)
    <3>1. CASE n < param_s
      <4>1. n \in 0 .. param_s - 1
        BY <1>1, <3>1
      <4> QED  BY <1>3, <4>1 DEF SetOf
    <3>2. CASE n >= param_s
      <4>1. n - param_s \in Nat /\ (n - param_s) + param_s = n
        BY <1>1, <3>2
      <4>2. n - param_s \in TagOf(x) <=> n \in Block(x)
        BY <1>1, <1>2, <4>1, ShiftedBit DEF TagOf
      <4>3. n - param_s \in TagOf(y) <=> n \in Block(y)
        BY <1>1, <1>2, <4>1, ShiftedBit DEF TagOf
      <4> QED  BY <1>3, <4>2, <4>3
    <3> QED  BY <1>1, <3>1, <3>2
  <2> QED  BY <1>2, <2>1
<1> QED  BY <1>3 DEF SetOf, TagOf

\* While set index and block offset fit the width of uint together, the masks
\* cut every address as the options ask for.  (The run csim_wide shows what
\* happens when they do not.)
THEOREM CutsAsAsked ==
  ASSUME param_s + param_b <= UintBits, NEW addr \in SUBSET Nat
  PROVE  setIdx(addr) = SetOf(addr) /\ tagOf(addr) = TagOf(addr)
<1>1. param_b \in Nat /\ param_s \in Nat /\ UintBits \in Nat
  BY WidthAssumption
<1>2. setIndexMask = param_b .. param_b + param_s - 1
  BY <1>1 DEF setIndexMask
<1>3. Block(addr) \in SUBSET Nat
  BY <1>1, ShiftedBit DEF Block
<1>4. setIdx(addr) = SetOf(addr)
  <2>1. addr \cap setIndexMask \in SUBSET Nat
    OBVIOUS
  <2>2. ASSUME NEW n \in Nat
        PROVE  n + param_b \in setIndexMask <=> n \in 0 .. param_s - 1
    BY <1>1, <1>2
  <2>3. ASSUME NEW n
        PROVE  n \in setIdx(addr) <=> n \in SetOf(addr)
    <3>1. n \in setIdx(addr) <=> n \in Nat /\ n + param_b \in addr \cap setIndexMask
      BY <1>1, <2>1, ShiftedBit DEF setIdx
    <3>2. n \in Block(addr) <=> n \in Nat /\ n + param_b \in addr
      BY <1>1, ShiftedBit DEF Block
    <3> QED  BY <2>2, <3>1, <3>2 DEF SetOf
  <2> QED  BY <2>3
<1>5. tagOf(addr) = TagOf(addr)
  <2> DEFINE upper == addr \ (blockOffsetMask \cup setIndexMask)
  <2>a. upper \in SUBSET Nat
    OBVIOUS
  <2>b. param_b + param_s \in Nat
    BY <1>1
  <2>1. upper \in SUBSET Nat /\ param_b + param_s \in Nat
    BY <2>a, <2>b
  <2>2. ASSUME NEW n \in Nat
        PROVE  n + (param_b + param_s) \notin blockOffsetMask \cup setIndexMask
    BY <1>1, <1>2 DEF blockOffsetMask
  <2>3. ASSUME NEW n
        PROVE  n \in tagOf(addr) <=> n \in TagOf(addr)
    <3>1. n \in tagOf(addr) <=> n \in Nat /\ n + (param_b + param_s) \in upper
      BY <2>1, ShiftedBit DEF tagOf
    <3>2. n \in TagOf(addr) <=> n \in Nat /\ n + param_s \in Block(addr)
      BY <1>1, <1>3, ShiftedBit DEF TagOf
    <3>3. ASSUME n \in Nat
          PROVE  n + param_s \in Block(addr) <=> n + (param_b + param_s) \in addr
      <4>1. (n + param_s) + param_b = n + (param_b + param_s) /\ n + param_s \in Nat
        BY <1>1, <3>3
      <4> QED  BY <1>1, <4>1, ShiftedBit DEF Block
    <3> QED  BY <2>2, <3>1, <3>2, <3>3
  <2> QED  BY <2>3
<1> QED  BY <1>4, <1>5

\* Then what cache.c computes (41 and 42) names the block and nothing more: two
\* addresses share set index and tag exactly if they lie in the same block, so that a
\* line holds one block.  (In csim_wide, where the bits do not fit, two blocks share
\* both.)
THEOREM BlockNamed ==
  ASSUME param_s + param_b <= UintBits, NEW x \in SUBSET Nat, NEW y \in SUBSET Nat
  PROVE  setIdx(x) = setIdx(y) /\ tagOf(x) = tagOf(y) <=> Block(x) = Block(y)
<1>1. setIdx(x) = SetOf(x) /\ tagOf(x) = TagOf(x)
  BY CutsAsAsked
<1>2. setIdx(y) = SetOf(y) /\ tagOf(y) = TagOf(y)
  BY CutsAsAsked
<1> QED  BY <1>1, <1>2, PartsNameBlock

-----------------------------------------------------------------------------
(* Numbers.                                                                *)


LEMMA LeastNatural ==
  ASSUME NEW T, T \subseteq Nat, T # {}
  PROVE  \E x \in T : \A y \in T : x <= y
<1>1. PICK x \in T : \A y \in T : ~ (<<y, x>> \in OpToRel(<, Nat))
  BY WFMin, NatLessThanWellFounded
<1>2. \A y \in T : ~ (y < x)
  BY <1>1 DEF OpToRel
<1> QED BY <1>2

-----------------------------------------------------------------------------
(* Lists.                                                                  *)

\* The c lines of a list are node[1] to node[c], from the head to the tail.
Ordered(l, c, node) ==
  /\ c \in 0 .. paramE
  /\ node \in [1 .. paramE + 1 -> Ptr]
  /\ node[1] = l.head
  /\ \A k \in 1 .. c : node[k] \in 1 .. c /\ l.next[node[k]] = node[k + 1]
  /\ \A k \in c + 1 .. paramE + 1 : node[k] = Null
  /\ \A n \in 1 .. c : \E k \in 1 .. c : node[k] = n
  /\ \A i, k \in 1 .. c : node[i] = node[k] => i = k
  /\ \A k \in 1 .. c : l.prev[node[k]] = IF k = 1 THEN Null ELSE node[k - 1]

LEMMA Pointers == Lines = 1 .. paramE /\ Null \notin Lines /\ Ptr = Lines \cup {Null}
                  /\ paramE \in Nat \ {0}
  BY ParamAssumption, NullAssumption DEF Lines, Ptr

\* Following the pointers meets those lines.
LEMMA WalkIs ==
  ASSUME NEW l, NEW c, NEW f, Ordered(l, c, f)
  PROVE  Walk(l) = f
<1> DEFINE Step(g, k) == IF g[k - 1] = Null THEN Null ELSE l.next[g[k - 1]]
           Follows(g) == g = [k \in 1 .. paramE + 1 |-> IF k = 1 THEN l.head ELSE Step(g, k)]
<1>1. ASSUME NEW k \in 2 .. paramE + 1
      PROVE  f[k] = Step(f, k)
  <2>1. k - 1 \in 1 .. c \/ k - 1 \in c + 1 .. paramE + 1
    BY <1>1, Pointers DEF Ordered
  <2>2. CASE k - 1 \in 1 .. c
    <3>1. f[k - 1] # Null
      BY <2>2, Pointers DEF Ordered
    <3>2. (k - 1) + 1 = k
      BY <1>1
    <3> QED BY <2>2, <3>1, <3>2 DEF Ordered
  <2>3. CASE k - 1 \in c + 1 .. paramE + 1
    <3>1. k \in c + 1 .. paramE + 1
      BY <1>1, <2>3, Pointers DEF Ordered
    <3> QED BY <2>3, <3>1 DEF Ordered
  <2> QED BY <2>1, <2>2, <2>3
<1>2. Follows(f)
  <2>1. f[1] = l.head /\ f \in [1 .. paramE + 1 -> Ptr] /\ paramE \in Nat
    BY Pointers DEF Ordered
  <2>2. \A k \in 1 .. paramE + 1 : f[k] = IF k = 1 THEN l.head ELSE Step(f, k)
    <3>1. \A k \in 1 .. paramE + 1 : k = 1 \/ k \in 2 .. paramE + 1
      BY <2>1
    <3> HIDE DEF Step
    <3> QED BY <1>1, <2>1, <3>1
  <2>3. f = [k \in 1 .. paramE + 1 |-> f[k]]
    BY <2>1
  <2> HIDE DEF Step
  <2> QED BY <2>2, <2>3
<1>3. Follows(Walk(l))
  BY <1>2 DEF Walk
<1>4. ASSUME NEW g, Follows(g)
      PROVE  g = f
  <2> DEFINE Bad == {k \in 1 .. paramE + 1 : g[k] # f[k]}
  <2>1. Bad = {}
    <3> SUFFICES ASSUME Bad # {} PROVE FALSE
      OBVIOUS
    <3>1. PICK k \in Bad : \A n \in Bad : k <= n
      <4>1. Bad \subseteq Nat
        OBVIOUS
      <4> QED BY <4>1, LeastNatural
    <3>2. k # 1
      BY <1>2, <1>4, <3>1, Pointers
    <3>3. k \in 2 .. paramE + 1 /\ k - 1 \in 1 .. paramE + 1 /\ ~ (k <= k - 1)
      BY <3>1, <3>2, Pointers
    <3>4. g[k - 1] = f[k - 1]
      BY <3>1, <3>3
    <3>5. g[k] = Step(g, k) /\ f[k] = Step(f, k)
      BY <1>2, <1>4, <3>2, <3>3
    <3> QED BY <3>1, <3>4, <3>5
  <2>2. f = [k \in 1 .. paramE + 1 |-> f[k]] /\ g = [k \in 1 .. paramE + 1 |-> g[k]]
    <3> HIDE DEF Step
    <3> QED BY <1>2, <1>4
  <2>3. \A k \in 1 .. paramE + 1 : g[k] = f[k]
    BY <2>1
  <2> HIDE DEF Bad, Follows
  <2> QED BY <2>2, <2>3
<1> QED BY <1>3, <1>4

LEMMA EmptyList == Ordered(NoList, 0, [k \in 1 .. paramE + 1 |-> Null])
  BY Pointers DEF Ordered, NoList

LEMMA ListFields ==
  ASSUME NEW l \in List
  PROVE  l.head \in Ptr /\ l.next \in [Lines -> Ptr] /\ l.prev \in [Lines -> Ptr]
  BY DEF List

\* A new line comes first.
LEMMA Inserted ==
  ASSUME NEW l \in List, NEW c, NEW f, Ordered(l, c, f), c < paramE
  PROVE  /\ InsertHead(l, c + 1) \in List
         /\ Ordered(InsertHead(l, c + 1), c + 1,
                    [k \in 1 .. paramE + 1 |-> IF k = 1 THEN c + 1 ELSE f[k - 1]])
<1> DEFINE n == c + 1
           m == InsertHead(l, n)
           g == [k \in 1 .. paramE + 1 |-> IF k = 1 THEN n ELSE f[k - 1]]
<1>1. /\ c \in Nat /\ n \in Lines /\ n \in Nat /\ n <= paramE /\ paramE \in Nat
      /\ Lines = 1 .. paramE /\ Null \notin Lines /\ Ptr = Lines \cup {Null}
  BY Pointers DEF Ordered
<1>2. /\ m.head = n
      /\ m.next = [l.next EXCEPT ![n] = l.head]
      /\ m.prev = IF l.head = Null THEN [l.prev EXCEPT ![n] = Null]
                  ELSE [l.prev EXCEPT ![l.head] = n, ![n] = Null]
      /\ m = [head |-> m.head, next |-> m.next, prev |-> m.prev]
  BY DEF InsertHead
<1> HIDE DEF m
<1>3. m \in List
  <2>1. /\ l.head \in Ptr /\ l.next \in [Lines -> Ptr] /\ l.prev \in [Lines -> Ptr]
        /\ n \in Ptr /\ Null \in Ptr
    BY <1>1, ListFields
  <2> HIDE DEF n, g
  <2>2. m.head \in Ptr /\ m.next \in [Lines -> Ptr]
    BY <1>2, <2>1
  <2>3. m.prev \in [Lines -> Ptr]
    <3>1. CASE l.head = Null
      BY <1>2, <2>1, <3>1
    <3>2. CASE l.head # Null
      <4>1. m.prev = [l.prev EXCEPT ![l.head] = n, ![n] = Null]
        BY <1>2, <3>2
      <4> QED BY <2>1, <4>1
    <3> QED BY <3>1, <3>2
  <2> QED BY <1>2, <2>2, <2>3 DEF List
<1>4. /\ \A k \in 1 .. c : f[k] \in 1 .. c /\ f[k] # n /\ l.next[f[k]] = f[k + 1]
      /\ \A k \in n .. paramE + 1 : f[k] = Null
      /\ f[1] = l.head
      /\ f \in [1 .. paramE + 1 -> Ptr]
  BY <1>1 DEF Ordered
<1>5. g \in [1 .. paramE + 1 -> Ptr]
  <2>1. \A k \in 1 .. paramE + 1 : k # 1 => f[k - 1] \in Ptr
    BY <1>1, <1>4
  <2> QED BY <1>1, <2>1
<1>6. /\ g[1] = n
      /\ \A k \in 2 .. n : k - 1 \in 1 .. c /\ g[k] = f[k - 1]
      /\ \A k \in n + 1 .. paramE + 1 : g[k] = Null
  BY <1>1, <1>4
<1>7. ASSUME NEW k \in 1 .. n PROVE g[k] \in 1 .. n /\ m.next[g[k]] = g[k + 1]
  <2>1. k + 1 \in 1 .. paramE + 1 /\ g[k + 1] = f[k]
    BY <1>1
  <2>2. CASE k = 1
    BY <1>1, <1>2, <1>4, <1>6, <2>1, <2>2, ListFields
  <2>3. CASE k # 1
    <3>1. k \in 2 .. n /\ k - 1 \in 1 .. c /\ (k - 1) + 1 = k
      BY <1>1, <2>3
    <3>2. g[k] = f[k - 1] /\ f[k - 1] \in 1 .. c /\ f[k - 1] # n /\ f[k - 1] \in Lines
      BY <1>1, <1>4, <1>6, <3>1
    <3>3. m.next[f[k - 1]] = l.next[f[k - 1]]
      BY <1>1, <1>2, <3>2, ListFields
    <3>4. l.next[f[k - 1]] = f[k]
      BY <1>4, <3>1
    <3>5. g[k] \in 1 .. n
      BY <1>1, <3>2
    <3> HIDE DEF g
    <3> QED BY <2>1, <3>2, <3>3, <3>4, <3>5
  <2> QED BY <2>2, <2>3
<1>8. ASSUME NEW x \in 1 .. n PROVE \E k \in 1 .. n : g[k] = x
  <2>1. CASE x = n
    BY <1>1, <1>6, <2>1
  <2>2. CASE x # n
    <3>1. x \in 1 .. c
      BY <1>1, <2>2
    <3>2. PICK k \in 1 .. c : f[k] = x
      BY <3>1 DEF Ordered
    <3>3. k + 1 \in 1 .. n /\ g[k + 1] = f[k]
      BY <1>1
    <3> QED BY <3>2, <3>3
  <2> QED BY <2>1, <2>2
<1>9. ASSUME NEW i \in 1 .. n, NEW k \in 1 .. n, g[i] = g[k] PROVE i = k
  <2>1. CASE i = 1 \/ k = 1
    BY <1>1, <1>4, <1>6, <1>9, <2>1
  <2>2. CASE i # 1 /\ k # 1
    <3>1. i - 1 \in 1 .. c /\ k - 1 \in 1 .. c /\ f[i - 1] = f[k - 1]
      BY <1>1, <1>6, <1>9, <2>2
    <3>2. i - 1 = k - 1
      BY <3>1 DEF Ordered
    <3> QED BY <1>1, <3>2
  <2> QED BY <2>1, <2>2
<1>10. ASSUME NEW k \in 1 .. n
       PROVE  m.prev[g[k]] = IF k = 1 THEN Null ELSE g[k - 1]
  <2>1. CASE k = 1
    <3>1. m.prev[n] = Null
      BY <1>1, <1>2, ListFields
    <3> QED BY <1>6, <2>1, <3>1
  <2>2. CASE k = 2
    <3>1. 1 \in 1 .. c /\ g[2] = l.head /\ l.head \in Lines /\ l.head # n
      BY <1>1, <1>4, <2>2
    <3>2. m.prev[l.head] = n
      BY <1>1, <1>2, <3>1, ListFields
    <3> QED BY <1>6, <2>2, <3>1, <3>2
  <2>3. CASE k \notin {1, 2}
    <3>1. k - 1 \in 2 .. c /\ k - 1 \in 1 .. c /\ 1 \in 1 .. c /\ (k - 1) - 1 = k - 2 /\ k \in 2 .. n
      BY <1>1, <2>3
    <3>2. f[k - 1] # f[1] /\ l.prev[f[k - 1]] = f[k - 2]
      BY <1>1, <3>1 DEF Ordered
    <3>3. f[k - 1] \in Lines /\ f[k - 1] # n
      BY <1>1, <1>4, <3>1
    <3>4. m.prev[f[k - 1]] = l.prev[f[k - 1]]
      BY <1>1, <1>2, <1>4, <3>2, <3>3, ListFields
    <3>5. g[k] = f[k - 1] /\ g[k - 1] = f[k - 2]
      BY <1>1, <3>1
    <3> QED BY <2>3, <3>2, <3>4, <3>5
  <2> QED BY <2>1, <2>2, <2>3
<1> HIDE DEF g
<1>a. n \in 0 .. paramE
  BY <1>1
<1> HIDE DEF n
<1>11. Ordered(m, n, g)
  BY <1>a, <1>2, <1>5, <1>6, <1>7, <1>8, <1>9, <1>10 DEF Ordered
<1> QED BY <1>3, <1>11 DEF m, g, n

\* Entry j of a function on 1 .. n moves to the front.
ToFront(f, j) ==
  [k \in DOMAIN f |-> IF k = 1 THEN f[j] ELSE IF k <= j THEN f[k - 1] ELSE f[k]]

\* A line that is used comes first.
LEMMA Moved ==
  ASSUME NEW l \in List, NEW c, NEW f, Ordered(l, c, f), NEW j \in 1 .. c
  PROVE  /\ MoveNodeToHead(l, f[j]) \in List
         /\ Ordered(MoveNodeToHead(l, f[j]), c, ToFront(f, j))
<1> DEFINE m == MoveNodeToHead(l, f[j])
           g == ToFront(f, j)
           n == f[j]
<1>1. /\ c \in Nat /\ c <= paramE /\ paramE \in Nat /\ j \in Nat /\ 1 \in 1 .. c
      /\ Lines = 1 .. paramE /\ Null \notin Lines /\ Ptr = Lines \cup {Null}
  BY Pointers DEF Ordered
<1>2. /\ f \in [1 .. paramE + 1 -> Ptr] /\ DOMAIN f = 1 .. paramE + 1
      /\ f[1] = l.head
      /\ \A k \in 1 .. c : f[k] \in 1 .. c /\ f[k] \in Lines /\ f[k] # Null /\ l.next[f[k]] = f[k + 1]
      /\ \A k \in c + 1 .. paramE + 1 : f[k] = Null
      /\ \A i, k \in 1 .. c : f[i] = f[k] => i = k
      /\ \A k \in 1 .. c : l.prev[f[k]] = IF k = 1 THEN Null ELSE f[k - 1]
  BY <1>1 DEF Ordered
<1>3. CASE j = 1
  <2>1. m = l
    BY <1>2, <1>3 DEF MoveNodeToHead
  <2>2. \A k \in 1 .. paramE + 1 : g[k] = f[k]
    BY <1>1, <1>2, <1>3 DEF ToFront
  <2>3. g = f
    BY <1>2, <2>2 DEF ToFront
  <2> QED BY <2>1, <2>3
<1>4. CASE j # 1
  <2> DEFINE p == f[j - 1]
             q == f[j + 1]
             prev == IF q = Null THEN l.prev ELSE [l.prev EXCEPT ![q] = p]
  <2>1. /\ j - 1 \in 1 .. c /\ j - 1 \in Nat /\ j >= 2
        /\ l.prev[n] = p /\ l.next[n] = q /\ l.head # n
        /\ j + 1 \in 1 .. paramE + 1
    <3>1. j - 1 \in 1 .. c /\ j - 1 \in Nat /\ j >= 2 /\ j + 1 \in 1 .. paramE + 1
      BY <1>1, <1>4
    <3>2. f[j] # f[1]
      BY <1>1, <1>2, <1>4
    <3> QED BY <1>2, <1>4, <3>1, <3>2
  <2>2. /\ p \in Lines /\ n \in Lines /\ l.head \in Lines /\ p # n /\ q \in Ptr
        /\ q # n /\ q # p /\ q # l.head
    <3>1. p \in Lines /\ n \in Lines /\ l.head \in Lines /\ p # n /\ q \in Ptr
      <4>1. p \in Lines /\ n \in Lines /\ l.head \in Lines
        BY <1>1, <1>2, <2>1
      <4>2. j - 1 # j
        BY <1>1
      <4>3. p # n
        BY <1>2, <2>1, <4>2
      <4>4. q \in Ptr
        BY <1>2, <2>1
      <4> QED BY <4>1, <4>3, <4>4
    <3>2. CASE j + 1 \in 1 .. c
      BY <1>1, <1>2, <2>1, <3>1, <3>2
    <3>3. CASE j + 1 \in c + 1 .. paramE + 1
      BY <1>1, <1>2, <2>1, <3>1, <3>3
    <3> QED BY <1>1, <2>1, <3>1, <3>2, <3>3
  <2>3. /\ m.head = n
        /\ m.next = [l.next EXCEPT ![p] = q, ![n] = l.head]
        /\ m.prev = [prev EXCEPT ![n] = Null, ![l.head] = n]
        /\ m = [head |-> m.head, next |-> m.next, prev |-> m.prev]
    BY <2>1 DEF MoveNodeToHead
  <2> HIDE DEF m
  <2>4. prev \in [Lines -> Ptr]
    BY <1>1, <2>2, ListFields
  <2>5. m \in List
    <3>1. m.head \in Ptr /\ m.next \in [Lines -> Ptr] /\ m.prev \in [Lines -> Ptr]
      <4>1. n \in Ptr /\ l.head \in Ptr /\ Null \in Ptr
        BY <1>1, <2>2
      <4> HIDE DEF n, p, q, prev
      <4> QED BY <2>2, <2>3, <2>4, <4>1, ListFields
    <3> HIDE DEF n, p, q, prev
    <3> QED BY <2>3, <3>1 DEF List
  <2>6. /\ g \in [1 .. paramE + 1 -> Ptr] /\ g[1] = n
        /\ \A k \in 2 .. j : g[k] = f[k - 1] /\ k - 1 \in 1 .. j - 1
        /\ \A k \in j + 1 .. paramE + 1 : g[k] = f[k]
    <3>1. /\ g[1] = n /\ DOMAIN g = 1 .. paramE + 1
          /\ \A k \in 2 .. j : g[k] = f[k - 1] /\ k - 1 \in 1 .. j - 1
          /\ \A k \in j + 1 .. paramE + 1 : g[k] = f[k]
      <4>1. /\ \A k \in 2 .. j : k \in 1 .. paramE + 1 /\ k # 1 /\ k <= j /\ k - 1 \in 1 .. j - 1
            /\ \A k \in j + 1 .. paramE + 1 : k \in 1 .. paramE + 1 /\ k # 1 /\ ~ k <= j
            /\ 1 \in 1 .. paramE + 1
        BY <1>1, <2>1
      <4>2. DOMAIN f = 1 .. paramE + 1
        BY <1>2
      <4>3. /\ DOMAIN g = 1 .. paramE + 1
            /\ \A k \in 1 .. paramE + 1 : g[k] = IF k = 1 THEN n ELSE IF k <= j THEN f[k - 1] ELSE f[k]
        BY <4>2 DEF ToFront
      <4> HIDE DEF g, n
      <4> QED BY <4>1, <4>3
    <3>2. ASSUME NEW k \in 1 .. paramE + 1 PROVE g[k] \in Ptr
      <4>1. k = 1 \/ k \in 2 .. j \/ k \in j + 1 .. paramE + 1
        BY <1>1, <2>1
      <4>2. k \in 2 .. j => k - 1 \in 1 .. paramE + 1
        BY <1>1, <2>1
      <4>3. \A i \in 1 .. paramE + 1 : f[i] \in Ptr
        BY <1>2
      <4>4. n \in Ptr
        BY <2>2, <1>1
      <4> HIDE DEF g
      <4> QED BY <3>1, <4>1, <4>2, <4>3, <4>4
    <3>3. g = [k \in 1 .. paramE + 1 |-> g[k]]
      BY <1>2 DEF ToFront
    <3> QED BY <3>1, <3>2, <3>3
  <2> HIDE DEF g
  <2>7. /\ m.next[n] = l.head /\ m.next[p] = q
        /\ \A x \in Lines : x # p /\ x # n => m.next[x] = l.next[x]
    BY <2>2, <2>3, ListFields
  <2>8. ASSUME NEW k \in 1 .. c PROVE g[k] \in 1 .. c /\ m.next[g[k]] = g[k + 1]
    <3>1. CASE k = 1
      <4>1. g[2] = f[1]
        BY <2>1, <2>6
      <4>2. g[k] = n /\ n \in 1 .. c /\ g[k + 1] = f[1]
        BY <1>2, <2>6, <3>1, <4>1
      <4> QED BY <1>2, <2>7, <4>2
    <3>2. CASE k = j
      <4>1. g[j] = p /\ g[j + 1] = q
        BY <1>1, <2>1, <2>6
      <4> QED BY <1>2, <2>1, <2>7, <3>2, <4>1
    <3>3. CASE k \in 2 .. j - 1
      <4>1. k - 1 \in 1 .. c /\ k - 1 # j - 1 /\ k - 1 # j /\ (k - 1) + 1 = k /\ k + 1 \in 2 .. j
            /\ (k + 1) - 1 = k /\ k \in 2 .. j
        BY <1>1, <3>3
      <4>2. g[k] = f[k - 1] /\ g[k + 1] = f[k]
        BY <2>6, <4>1
      <4>3. f[k - 1] # p /\ f[k - 1] # n
        BY <1>2, <2>1, <4>1
      <4> QED BY <1>2, <2>7, <4>1, <4>2, <4>3
    <3>4. CASE k \in j + 1 .. c
      <4>1. k # j - 1 /\ k # j /\ k \in j + 1 .. paramE + 1 /\ k + 1 \in j + 1 .. paramE + 1
        BY <1>1, <3>4
      <4>2. g[k] = f[k] /\ g[k + 1] = f[k + 1]
        BY <2>6, <4>1
      <4>3. f[k] # p /\ f[k] # n
        BY <1>2, <2>1, <4>1
      <4> QED BY <1>2, <2>7, <4>2, <4>3
    <3>5. k = 1 \/ k = j \/ k \in 2 .. j - 1 \/ k \in j + 1 .. c
      BY <1>1
    <3> QED BY <3>1, <3>2, <3>3, <3>4, <3>5
  <2>9. \A k \in c + 1 .. paramE + 1 : g[k] = Null
    BY <1>1, <1>2, <2>6
  <2>10. ASSUME NEW x \in 1 .. c PROVE \E k \in 1 .. c : g[k] = x
    <3>1. PICK k \in 1 .. c : f[k] = x
      BY DEF Ordered
    <3>2. CASE k = j
      BY <1>1, <2>6, <3>1, <3>2
    <3>3. CASE k < j
      <4>1. k + 1 \in 2 .. j /\ k + 1 \in 1 .. c /\ (k + 1) - 1 = k
        BY <1>1, <3>3
      <4> QED BY <2>6, <3>1, <4>1
    <3>4. CASE k > j
      <4>1. k \in j + 1 .. paramE + 1
        BY <1>1, <3>4
      <4> QED BY <2>6, <3>1, <4>1
    <3> QED BY <1>1, <3>2, <3>3, <3>4
  <2>11. ASSUME NEW i \in 1 .. c, NEW k \in 1 .. c, g[i] = g[k] PROVE i = k
    <3> DEFINE from(x) == IF x = 1 THEN j ELSE IF x <= j THEN x - 1 ELSE x
    <3>1. \A x \in 1 .. c : from(x) \in 1 .. c /\ g[x] = f[from(x)]
      BY <1>1, <2>1, <2>6
    <3>2. \A x, y \in 1 .. c : from(x) = from(y) => x = y
      BY <1>1
    <3> HIDE DEF from
    <3>a. from(i) \in 1 .. c /\ from(k) \in 1 .. c /\ f[from(i)] = f[from(k)]
      BY <2>11, <3>1
    <3>b. \A x, y \in 1 .. c : f[x] = f[y] => x = y
      BY <1>2
    <3>3. from(i) = from(k)
      BY <3>a, <3>b
    <3> QED BY <3>2, <3>3
  <2>12. /\ m.prev[n] = Null /\ m.prev[l.head] = n
         /\ q # Null => m.prev[q] = p
         /\ \A x \in Lines : x \notin {n, l.head, q} => m.prev[x] = l.prev[x]
    BY <1>1, <2>1, <2>2, <2>3, <2>4, ListFields
  <2>13. ASSUME NEW k \in 1 .. c
         PROVE  m.prev[g[k]] = IF k = 1 THEN Null ELSE g[k - 1]
    <3>1. CASE k = 1
      BY <2>6, <2>12, <3>1
    <3>2. CASE k = 2
      <4>1. g[2] = l.head
        BY <1>2, <2>1, <2>6
      <4> QED BY <2>6, <2>12, <3>2, <4>1
    <3>3. CASE k \in 3 .. j
      <4>1. /\ k - 1 \in 1 .. c /\ k - 1 # j /\ k - 1 # 1 /\ (k - 1) - 1 = k - 2
            /\ k \in 2 .. j /\ k - 1 \in 2 .. j /\ (j + 1 \in 1 .. c => k - 1 # j + 1)
        BY <1>1, <3>3
      <4>2. g[k] = f[k - 1] /\ g[k - 1] = f[k - 2]
        BY <2>6, <4>1
      <4>3. f[k - 1] # q
        <5>1. CASE j + 1 \in 1 .. c
          BY <1>2, <4>1, <5>1
        <5>2. CASE j + 1 \in c + 1 .. paramE + 1
          BY <1>2, <4>1, <5>2
        <5> QED BY <1>1, <2>1, <5>1, <5>2
      <4>4. f[k - 1] # f[j] /\ f[k - 1] # f[1] /\ f[k - 1] \in Lines
        BY <1>1, <1>2, <4>1
      <4>5. f[k - 1] \in Lines /\ f[k - 1] \notin {n, l.head, q}
        BY <1>2, <4>3, <4>4
      <4>6. m.prev[f[k - 1]] = l.prev[f[k - 1]]
        BY <2>12, <4>5
      <4>7. l.prev[f[k - 1]] = f[k - 2] /\ k # 1
        BY <1>2, <4>1
      <4> QED BY <4>2, <4>6, <4>7
    <3>4. CASE k = j + 1
      <4>1. g[k] = q /\ q # Null /\ g[k - 1] = p /\ k # 1
        BY <1>1, <1>2, <2>1, <2>6, <3>4
      <4> QED BY <2>12, <4>1
    <3>5. CASE k \in j + 2 .. c
      <4>1. /\ k # 1 /\ k # j /\ k # j + 1 /\ k - 1 \in j + 1 .. paramE + 1
            /\ k \in j + 1 .. paramE + 1 /\ j + 1 \in 1 .. c
        BY <1>1, <3>5
      <4>2. g[k] = f[k] /\ g[k - 1] = f[k - 1]
        BY <2>6, <4>1
      <4>3. f[k] \in Lines /\ f[k] \notin {n, l.head, q}
        BY <1>1, <1>2, <4>1
      <4> QED BY <1>2, <2>12, <4>1, <4>2, <4>3
    <3>6. k = 1 \/ k = 2 \/ k \in 3 .. j \/ k = j + 1 \/ k \in j + 2 .. c
      BY <1>1, <2>1
    <3> QED BY <3>1, <3>2, <3>3, <3>4, <3>5, <3>6
  <2>14. Ordered(m, c, g)
    BY <1>1, <2>3, <2>6, <2>8, <2>9, <2>10, <2>11, <2>13 DEF Ordered
  <2> QED BY <2>5, <2>14 DEF m, g
<1> QED BY <1>3, <1>4

\* listFindTailNode finds the last line.
LEMMA TailFound ==
  ASSUME NEW l, NEW c, NEW f, Ordered(l, c, f), c > 0
  PROVE  TailNode(l) = f[c]
<1>1. /\ c \in Nat /\ c <= paramE /\ paramE \in Nat /\ c \in 1 .. c /\ c + 1 \in c + 1 .. paramE + 1
      /\ Lines = 1 .. paramE /\ Null \notin Lines
  BY Pointers DEF Ordered
<1>2. \A k \in Lines : (f[k] # Null /\ f[k + 1] = Null) <=> k = c
  <2> SUFFICES ASSUME NEW k \in Lines
               PROVE  (f[k] # Null /\ f[k + 1] = Null) <=> k = c
    OBVIOUS
  <2>1. CASE k < c
    <3>1. k + 1 \in 1 .. c
      BY <1>1, <2>1
    <3>2. f[k + 1] # Null
      BY <1>1, <3>1 DEF Ordered
    <3> QED BY <1>1, <2>1, <3>2
  <2>2. CASE k = c
    BY <1>1, <2>2 DEF Ordered
  <2>3. CASE k > c
    <3>1. k \in c + 1 .. paramE + 1
      BY <1>1, <2>3
    <3> QED BY <1>1, <2>3, <3>1 DEF Ordered
  <2> QED BY <1>1, <2>1, <2>2, <2>3
<1>3. c \in Lines
  BY <1>1
<1>4. Walk(l) = f
  BY WalkIs
<1> QED BY <1>2, <1>3, <1>4 DEF TailNode

-----------------------------------------------------------------------------
(* Types.                                                                  *)

\* The set an access goes to, the tag it asks for, and the lines of a set.
At == setIdx(memOpInfo.addr)
Want == tagOf(memOpInfo.addr)
Order(s) == Walk(list[s])

ListInv == \A s \in Sets : Ordered(list[s], lineCnt[s], Order(s))

LEMMA AtWant ==
  ASSUME TypeOK
  PROVE  At \in Sets /\ Want \in Tags
<1>1. memOpInfo.addr \in Addr
  BY DEF TypeOK
<1>2. memOpInfo.addr \in SUBSET Nat
  BY <1>1, ParamAssumption
<1> QED BY <1>1, <1>2, SetInRange DEF At, Want, Tags

\* The places of a list whose line holds a tag.
LEMMA HoldingIs ==
  ASSUME ListInv, NEW s \in Sets, NEW t
  PROVE  Holding(s, t) = {k \in 1 .. lineCnt[s] : tag[s][Order(s)[k]] = t}
<1>1. Ordered(list[s], lineCnt[s], Order(s))
  BY DEF ListInv
<1>2. \A k \in Lines : Order(s)[k] # Null <=> k \in 1 .. lineCnt[s]
  <2>1. lineCnt[s] \in 0 .. paramE /\ paramE \in Nat /\ Lines = 1 .. paramE /\ Null \notin Lines
    BY <1>1, Pointers DEF Ordered
  <2> SUFFICES ASSUME NEW k \in Lines
               PROVE  Order(s)[k] # Null <=> k \in 1 .. lineCnt[s]
    OBVIOUS
  <2>2. k \in 1 .. lineCnt[s] \/ k \in lineCnt[s] + 1 .. paramE + 1
    BY <2>1
  <2>3. k \in 1 .. lineCnt[s] => Order(s)[k] \in 1 .. lineCnt[s] /\ 1 .. lineCnt[s] \subseteq Lines
    BY <1>1, <2>1 DEF Ordered
  <2>4. k \in lineCnt[s] + 1 .. paramE + 1 => Order(s)[k] = Null /\ k \notin 1 .. lineCnt[s]
    BY <1>1, <2>1 DEF Ordered
  <2> QED BY <2>1, <2>2, <2>3, <2>4
<1>3. 1 .. lineCnt[s] \subseteq Lines
  BY <1>1, Pointers DEF Ordered
<1> QED BY <1>2, <1>3 DEF Holding, Order

\* One list changes.
LEMMA OneList ==
  ASSUME ListInv, list \in [Sets -> List], lineCnt \in [Sets -> 0 .. paramE],
         NEW s \in Sets, NEW l \in List, NEW c, NEW g, Ordered(l, c, g),
         list' = [list EXCEPT ![s] = l], lineCnt' = [lineCnt EXCEPT ![s] = c]
  PROVE  /\ ListInv' /\ list' \in [Sets -> List] /\ lineCnt' \in [Sets -> 0 .. paramE]
         /\ Walk(list'[s]) = g
         /\ \A z \in Sets : z # s => Walk(list'[z]) = Walk(list[z])
<1>a. Walk(l) = g
  BY WalkIs
<1>b. c \in 0 .. paramE
  BY DEF Ordered
<1>1. list'[s] = l /\ lineCnt'[s] = c /\ Walk(l) = g /\ c \in 0 .. paramE
  BY <1>a, <1>b
<1>2. \A z \in Sets : z # s => list'[z] = list[z] /\ lineCnt'[z] = lineCnt[z]
  OBVIOUS
<1>3. \A z \in Sets : Ordered(list'[z], lineCnt'[z], Walk(list'[z]))
  BY <1>1, <1>2 DEF ListInv, Order
<1>4. list' \in [Sets -> List] /\ lineCnt' \in [Sets -> 0 .. paramE]
  BY <1>1
<1> QED BY <1>1, <1>2, <1>3, <1>4 DEF ListInv, Order

\* A hit moves a line with the tag to the front of its list.
LEMMA HitStep ==
  ASSUME TypeOK, ListInv, Hit
  PROVE  /\ ListInv' /\ list' \in [Sets -> List]
         /\ \E j \in 1 .. lineCnt[At] :
              tag[At][Order(At)[j]] = Want /\ Walk(list'[At]) = ToFront(Order(At), j)
         /\ \A z \in Sets : z # At => Walk(list'[z]) = Walk(list[z])
<1> DEFINE k == CHOOSE i \in Holding(At, Want) : \A j \in Holding(At, Want) : i <= j
<1>1. At \in Sets /\ Holding(At, Want) # {} /\ lineCnt' = lineCnt
      /\ list' = [list EXCEPT ![At] = MoveNodeToHead(@, Walk(@)[k])]
      /\ list \in [Sets -> List] /\ lineCnt \in [Sets -> 0 .. paramE]
  BY AtWant DEF Hit, At, Want, TypeOK
<1>2. k \in Holding(At, Want)
  <2>1. Holding(At, Want) \subseteq Nat
    BY Pointers DEF Holding
  <2>2. \E i \in Holding(At, Want) : \A j \in Holding(At, Want) : i <= j
    BY <1>1, <2>1, LeastNatural
  <2> QED BY <2>2
<1> HIDE DEF k
<1>3. k \in 1 .. lineCnt[At] /\ tag[At][Order(At)[k]] = Want
  BY <1>1, <1>2, HoldingIs
<1>4. Ordered(list[At], lineCnt[At], Order(At)) /\ list[At] \in List
  BY <1>1 DEF ListInv
<1>5. PICK s, l, c, g : /\ s = At /\ l = MoveNodeToHead(list[At], Order(At)[k])
                        /\ c = lineCnt[At] /\ g = ToFront(Order(At), k)
  OBVIOUS
<1>6. l \in List /\ Ordered(l, c, g)
  BY <1>3, <1>4, <1>5, Moved
<1>7. list' = [list EXCEPT ![s] = l] /\ lineCnt' = [lineCnt EXCEPT ![s] = c]
  BY <1>1, <1>5 DEF Order
<1>8. /\ ListInv' /\ list' \in [Sets -> List]
      /\ Walk(list'[s]) = g
      /\ \A z \in Sets : z # s => Walk(list'[z]) = Walk(list[z])
  <2>1. s \in Sets /\ list \in [Sets -> List] /\ lineCnt \in [Sets -> 0 .. paramE]
    BY <1>1, <1>5
  <2> QED BY <1>6, <1>7, <2>1, OneList
<1> QED BY <1>3, <1>5, <1>8

\* A miss into a free line puts that line in front.
LEMMA InsertStep ==
  ASSUME TypeOK, ListInv, MissInsert
  PROVE  /\ ListInv' /\ list' \in [Sets -> List] /\ lineCnt' \in [Sets -> 0 .. paramE]
         /\ lineCnt[At] + 1 \in Lines
         /\ Walk(list'[At]) = [k \in 1 .. paramE + 1 |->
                                 IF k = 1 THEN lineCnt[At] + 1 ELSE Order(At)[k - 1]]
         /\ \A z \in Sets : z # At => Walk(list'[z]) = Walk(list[z])
<1>1. /\ At \in Sets /\ lineCnt[At] < paramE
      /\ list' = [list EXCEPT ![At] = InsertHead(@, lineCnt[At] + 1)]
      /\ lineCnt' = [lineCnt EXCEPT ![At] = lineCnt[At] + 1]
      /\ list \in [Sets -> List] /\ lineCnt \in [Sets -> 0 .. paramE]
  BY AtWant DEF MissInsert, At, Want, TypeOK
<1>2. Ordered(list[At], lineCnt[At], Order(At)) /\ list[At] \in List
  BY <1>1 DEF ListInv
<1>3. PICK s, l, c, g : /\ s = At /\ l = InsertHead(list[At], lineCnt[At] + 1)
                        /\ c = lineCnt[At] + 1
                        /\ g = [k \in 1 .. paramE + 1 |->
                                 IF k = 1 THEN lineCnt[At] + 1 ELSE Order(At)[k - 1]]
  OBVIOUS
<1>4. l \in List /\ Ordered(l, c, g)
  BY <1>1, <1>2, <1>3, Inserted
<1>5. list' = [list EXCEPT ![s] = l] /\ lineCnt' = [lineCnt EXCEPT ![s] = c]
  BY <1>1, <1>3
<1>6. /\ ListInv' /\ list' \in [Sets -> List] /\ lineCnt' \in [Sets -> 0 .. paramE]
      /\ Walk(list'[s]) = g
      /\ \A z \in Sets : z # s => Walk(list'[z]) = Walk(list[z])
  <2>1. s \in Sets /\ list \in [Sets -> List] /\ lineCnt \in [Sets -> 0 .. paramE]
    BY <1>1, <1>3
  <2> QED BY <1>4, <1>5, <2>1, OneList
<1>7. lineCnt[At] + 1 \in Lines
  BY <1>1, Pointers
<1> QED BY <1>3, <1>6, <1>7

\* A miss that evicts gives the tag to the last line and moves it to the front.
LEMMA EvictStep ==
  ASSUME TypeOK, ListInv, MissEvict
  PROVE  /\ ListInv' /\ list' \in [Sets -> List]
         /\ paramE \in 1 .. lineCnt[At] /\ lineCnt[At] = paramE
         /\ tag' = [tag EXCEPT ![At][Order(At)[paramE]] = Want]
         /\ Order(At)[paramE] \in Lines
         /\ Walk(list'[At]) = ToFront(Order(At), paramE)
         /\ \A z \in Sets : z # At => Walk(list'[z]) = Walk(list[z])
<1>1. /\ At \in Sets /\ lineCnt[At] = paramE /\ lineCnt' = lineCnt
      /\ list' = [list EXCEPT ![At] = MoveNodeToHead(@, TailNode(list[At]))]
      /\ tag' = [tag EXCEPT ![At][TailNode(list[At])] = Want]
      /\ list \in [Sets -> List] /\ lineCnt \in [Sets -> 0 .. paramE]
  BY AtWant DEF MissEvict, At, Want, TypeOK
<1>2. Ordered(list[At], lineCnt[At], Order(At)) /\ list[At] \in List
  BY <1>1 DEF ListInv
<1>3. paramE \in 1 .. lineCnt[At] /\ lineCnt[At] > 0 /\ paramE \in Nat
  BY <1>1, Pointers
<1>4. TailNode(list[At]) = Order(At)[paramE]
  BY <1>1, <1>2, <1>3, TailFound
<1>5. PICK s, l, c, g : /\ s = At /\ l = MoveNodeToHead(list[At], Order(At)[paramE])
                        /\ c = lineCnt[At] /\ g = ToFront(Order(At), paramE)
  OBVIOUS
<1>6. l \in List /\ Ordered(l, c, g)
  BY <1>2, <1>3, <1>5, Moved
<1>7. list' = [list EXCEPT ![s] = l] /\ lineCnt' = [lineCnt EXCEPT ![s] = c]
  BY <1>1, <1>4, <1>5
<1>8. /\ ListInv' /\ list' \in [Sets -> List]
      /\ Walk(list'[s]) = g
      /\ \A z \in Sets : z # s => Walk(list'[z]) = Walk(list[z])
  <2>1. s \in Sets /\ list \in [Sets -> List] /\ lineCnt \in [Sets -> 0 .. paramE]
    BY <1>1, <1>5
  <2> QED BY <1>6, <1>7, <2>1, OneList
<1>9. Order(At)[paramE] \in Lines
  BY <1>1, <1>2, <1>3, Pointers DEF Ordered
<1> QED BY <1>1, <1>3, <1>4, <1>5, <1>8, <1>9

-----------------------------------------------------------------------------
(* The inductive invariant.                                                *)

\* No two lines of a set hold the same tag.
TagInv ==
  \A s \in Sets : \A i, k \in 1 .. lineCnt[s] : tag[s][i] = tag[s][k] => i = k

\* The sets are there when the trace is read, and without them there is no line.
PhaseInv ==
  /\ phase = "start" => cacheSetArr = "unset" /\ reading
  /\ phase = "trace" => cacheSetArr = "allocated"
  /\ cacheSetArr # "allocated" => \A s \in Sets : lineCnt[s] = 0
  /\ phase = "exited" => \A s \in Sets : freed[s] = 1 .. lineCnt[s]

\* Between the load and the store of a modify the set holds the tag, and after
\* them the line printed says hit.
ModifyInv ==
  phase = "trace" /\ ~reading /\ memOpInfo.op = "M" =>
    /\ todo = 1 => Holding(At, Want) # {}
    /\ todo = 0 => "hit" \in flags

CsimInv == TypeOK /\ ListInv /\ TagInv /\ PhaseInv /\ ModifyInv

\* A tag that no place of a list holds is in no line.
LEMMA NotHeld ==
  ASSUME ListInv, NEW s \in Sets, NEW t, Holding(s, t) = {}
  PROVE  \A n \in 1 .. lineCnt[s] : tag[s][n] # t
<1> SUFFICES ASSUME NEW n \in 1 .. lineCnt[s], tag[s][n] = t
             PROVE  FALSE
  OBVIOUS
<1>1. PICK k \in 1 .. lineCnt[s] : Order(s)[k] = n
  BY DEF ListInv, Ordered
<1> QED BY <1>1, HoldingIs

LEMMA ReachedIs ==
  ASSUME ListInv, NEW s \in Sets
  PROVE  Reached(list[s]) = 1 .. lineCnt[s]
<1>1. Ordered(list[s], lineCnt[s], Order(s))
  BY DEF ListInv
<1>2. /\ lineCnt[s] \in 0 .. paramE /\ paramE \in Nat
      /\ Lines = 1 .. paramE /\ Null \notin Lines
  BY <1>1, Pointers DEF Ordered
<1>3. ASSUME NEW k \in Lines, Order(s)[k] # Null
      PROVE  Order(s)[k] \in 1 .. lineCnt[s]
  <2>1. k \in 1 .. lineCnt[s] \/ k \in lineCnt[s] + 1 .. paramE + 1
    BY <1>2
  <2> QED BY <1>1, <1>3, <2>1 DEF Ordered
<1>4. ASSUME NEW n \in 1 .. lineCnt[s]
      PROVE  \E k \in Lines : Order(s)[k] # Null /\ Order(s)[k] = n
  <2>1. PICK k \in 1 .. lineCnt[s] : Order(s)[k] = n
    BY <1>1 DEF Ordered
  <2>2. k \in Lines /\ n # Null
    BY <1>2
  <2> QED BY <2>1, <2>2
<1> QED BY <1>3, <1>4 DEF Reached, Order

LEMMA InitCsimInv == Init => CsimInv
<1> SUFFICES ASSUME Init PROVE CsimInv
  OBVIOUS
<1>1. NoList \in List
  BY Pointers DEF NoList, List
<1>2. {} \in Tags
  BY ParamAssumption DEF Tags, tagOf, ShiftRight
<1>3. TypeOK
  BY <1>1, <1>2, Pointers, ParamAssumption DEF Init, TypeOK, Ops
<1>4. ListInv
  BY EmptyList, WalkIs DEF ListInv, Order, Init
<1>5. TagInv /\ PhaseInv /\ ModifyInv
  BY DEF Init, TagInv, PhaseInv, ModifyInv
<1> QED BY <1>3, <1>4, <1>5 DEF CsimInv

LEMMA HitCsimInv == ASSUME CsimInv, Hit PROVE CsimInv'
<1>1. /\ TypeOK /\ ListInv /\ TagInv /\ PhaseInv /\ ModifyInv
      /\ ListInv' /\ list' \in [Sets -> List]
  BY HitStep DEF CsimInv
<1>2. /\ UNCHANGED <<tag, lineCnt, memOpInfo, reading, missCnt, evictionCnt, phase, cacheSetArr, freed>>
      /\ hitCnt' = hitCnt + 1 /\ flags' = flags \cup {"hit"} /\ todo' = todo - 1
      /\ phase = "trace" /\ ~reading /\ todo > 0
  BY DEF Hit, Accessing, processVars
<1>3. TypeOK'
  BY <1>1, <1>2 DEF TypeOK
<1>4. TagInv' /\ PhaseInv'
  BY <1>1, <1>2 DEF TagInv, PhaseInv
<1>5. ModifyInv'
  <2>1. PICK j \in 1 .. lineCnt[At] :
          tag[At][Order(At)[j]] = Want /\ Walk(list'[At]) = ToFront(Order(At), j)
    BY <1>1, HitStep
  <2>2. PICK s, t : s = At /\ t = Want /\ s = At' /\ t = Want' /\ s \in Sets
    BY <1>1, <1>2, AtWant DEF At, Want
  <2>3. 1 \in 1 .. lineCnt'[s] /\ Walk(list'[s])[1] = Order(s)[j]
    <3>1. Ordered(list[s], lineCnt[s], Order(s)) /\ lineCnt[s] \in Nat /\ paramE \in Nat
      <4>1. Ordered(list[s], lineCnt[s], Order(s))
        BY <1>1, <2>2 DEF ListInv
      <4>2. lineCnt[s] \in 0 .. paramE /\ paramE \in Nat
        BY <4>1, Pointers DEF Ordered
      <4> QED BY <4>1, <4>2
    <3>2. 1 \in DOMAIN Order(s) /\ 1 \in 1 .. lineCnt[s]
      BY <2>1, <2>2, <3>1 DEF Ordered
    <3> QED BY <1>2, <2>1, <2>2, <3>2 DEF ToFront
  <2>4. tag'[s][Walk(list'[s])[1]] = t
    BY <1>2, <2>1, <2>2, <2>3
  <2>5. 1 \in Lines /\ Order(s)[j] # Null
    <3>1. Ordered(list[s], lineCnt[s], Order(s))
      BY <1>1, <2>2 DEF ListInv
    <3> QED BY <2>1, <2>2, <3>1, Pointers DEF Ordered
  <2>6. Holding(s, t)' # {}
    BY <2>3, <2>4, <2>5 DEF Holding
  <2>7. Holding(At, Want)' # {}
    BY <2>2, <2>6
  <2> QED BY <1>2, <2>7 DEF ModifyInv
<1> QED BY <1>1, <1>3, <1>4, <1>5 DEF CsimInv

LEMMA MissInsertCsimInv == ASSUME CsimInv, MissInsert PROVE CsimInv'
<1>1. /\ TypeOK /\ ListInv /\ TagInv /\ PhaseInv /\ ModifyInv
      /\ ListInv' /\ list' \in [Sets -> List] /\ lineCnt' \in [Sets -> 0 .. paramE]
      /\ lineCnt[At] + 1 \in Lines
  BY InsertStep DEF CsimInv
<1>2. PICK s, t, n : s = At /\ t = Want /\ n = lineCnt[At] + 1 /\ s \in Sets /\ t \in Tags
  BY <1>1, AtWant
<1>3. /\ UNCHANGED <<memOpInfo, reading, hitCnt, evictionCnt, phase, cacheSetArr, freed>>
      /\ tag' = [tag EXCEPT ![s][n] = t]
      /\ lineCnt' = [lineCnt EXCEPT ![s] = n]
      /\ missCnt' = missCnt + 1 /\ flags' = flags \cup {"miss"} /\ todo' = todo - 1
      /\ phase = "trace" /\ ~reading /\ todo > 0 /\ Holding(s, t) = {}
  BY <1>2 DEF MissInsert, Accessing, processVars, At, Want
<1>4. /\ tag \in [Sets -> [Lines -> Tags]] /\ lineCnt \in [Sets -> 0 .. paramE]
      /\ n \in Lines /\ n = lineCnt[s] + 1 /\ lineCnt[s] \in Nat
  BY <1>1, <1>2, Pointers DEF TypeOK
<1>5. /\ tag' \in [Sets -> [Lines -> Tags]]
      /\ tag'[s][n] = t
      /\ \A k \in Lines : k # n => tag'[s][k] = tag[s][k]
      /\ \A z \in Sets : z # s => tag'[z] = tag[z] /\ lineCnt'[z] = lineCnt[z]
      /\ lineCnt'[s] = n
  BY <1>2, <1>3, <1>4
<1>6. TypeOK'
  BY <1>1, <1>3, <1>5 DEF TypeOK
<1>7. TagInv'
  <2>a. \A k \in 1 .. lineCnt[s] : tag[s][k] # t
    BY <1>1, <1>2, <1>3, NotHeld
  <2>b. \A k \in 1 .. lineCnt[s] : k # n /\ k \in Lines
    BY <1>4, Pointers
  <2>1. \A k \in 1 .. lineCnt[s] : k # n /\ k \in Lines /\ tag[s][k] # t
    BY <2>a, <2>b
  <2>2. \A i, k \in 1 .. n : tag'[s][i] = tag'[s][k] => i = k
    <3>1. \A k \in 1 .. n : k = n \/ k \in 1 .. lineCnt[s]
      BY <1>4
    <3>2. \A i, k \in 1 .. lineCnt[s] : tag[s][i] = tag[s][k] => i = k
      BY <1>1, <1>2 DEF TagInv
    <3> QED BY <1>5, <2>1, <3>1, <3>2
  <2> QED BY <1>1, <1>5, <2>2 DEF TagInv
<1>8. PhaseInv'
  BY <1>1, <1>3 DEF PhaseInv
<1>9. ModifyInv'
  <2>1. Walk(list'[s])[1] = n /\ 1 \in 1 .. lineCnt'[s]
    BY <1>1, <1>2, <1>4, <1>5, InsertStep, Pointers
  <2>2. 1 \in Lines /\ n # Null
    BY <1>4, Pointers
  <2>3. Holding(s, t)' # {}
    BY <1>5, <2>1, <2>2 DEF Holding
  <2>4. At' = s /\ Want' = t
    BY <1>2, <1>3 DEF At, Want
  <2>5. Holding(At, Want)' # {}
    BY <2>3, <2>4
  <2>6. memOpInfo.op = "M" => todo # 1
    BY <1>1, <1>2, <1>3 DEF ModifyInv
  <2>7. todo \in 0 .. 2
    BY <1>1 DEF TypeOK
  <2> QED BY <1>3, <2>5, <2>6, <2>7 DEF ModifyInv
<1> QED BY <1>1, <1>6, <1>7, <1>8, <1>9 DEF CsimInv

LEMMA MissEvictCsimInv == ASSUME CsimInv, MissEvict PROVE CsimInv'
<1>1. /\ TypeOK /\ ListInv /\ TagInv /\ PhaseInv /\ ModifyInv
      /\ ListInv' /\ list' \in [Sets -> List]
      /\ paramE \in 1 .. lineCnt[At] /\ lineCnt[At] = paramE /\ Order(At)[paramE] \in Lines
      /\ tag' = [tag EXCEPT ![At][Order(At)[paramE]] = Want]
      /\ Walk(list'[At]) = ToFront(Order(At), paramE)
  BY EvictStep DEF CsimInv
<1>2. PICK s, t, n : s = At /\ t = Want /\ n = Order(At)[paramE] /\ s \in Sets /\ t \in Tags
  BY <1>1, AtWant
<1>3. /\ UNCHANGED <<lineCnt, memOpInfo, reading, hitCnt, phase, cacheSetArr, freed>>
      /\ tag' = [tag EXCEPT ![s][n] = t]
      /\ missCnt' = missCnt + 1 /\ evictionCnt' = evictionCnt + 1
      /\ flags' = flags \cup {"miss", "eviction"} /\ todo' = todo - 1
      /\ phase = "trace" /\ ~reading /\ todo > 0 /\ Holding(s, t) = {}
  BY <1>1, <1>2 DEF MissEvict, Accessing, processVars, At, Want
<1>4. /\ tag \in [Sets -> [Lines -> Tags]] /\ n \in Lines
      /\ lineCnt[s] = paramE /\ paramE \in Nat \ {0} /\ Lines = 1 .. paramE
  BY <1>1, <1>2, Pointers DEF TypeOK
<1>5. /\ tag' \in [Sets -> [Lines -> Tags]]
      /\ tag'[s][n] = t
      /\ \A k \in Lines : k # n => tag'[s][k] = tag[s][k]
      /\ \A z \in Sets : z # s => tag'[z] = tag[z]
  BY <1>2, <1>3, <1>4
<1>6. TypeOK'
  BY <1>1, <1>3, <1>5 DEF TypeOK
<1>7. TagInv'
  <2>1. \A k \in 1 .. lineCnt[s] : k \in Lines /\ tag[s][k] # t
    BY <1>1, <1>2, <1>3, <1>4, NotHeld
  <2>2. \A i, k \in 1 .. lineCnt[s] : tag'[s][i] = tag'[s][k] => i = k
    <3>1. \A i, k \in 1 .. lineCnt[s] : tag[s][i] = tag[s][k] => i = k
      BY <1>1, <1>2 DEF TagInv
    <3> QED BY <1>5, <2>1, <3>1
  <2> QED BY <1>1, <1>3, <1>5, <2>2 DEF TagInv
<1>8. PhaseInv'
  BY <1>1, <1>3 DEF PhaseInv
<1>9. ModifyInv'
  <2>1. Walk(list'[s])[1] = n /\ 1 \in 1 .. lineCnt'[s]
    <3>1. 1 \in DOMAIN Order(s)
      BY <1>1, <1>2, <1>4 DEF ListInv, Ordered
    <3> QED BY <1>1, <1>2, <1>3, <1>4, <3>1 DEF ToFront
  <2>2. 1 \in Lines /\ n # Null
    BY <1>4, Pointers
  <2>3. Holding(s, t)' # {}
    BY <1>5, <2>1, <2>2 DEF Holding
  <2>4. At' = s /\ Want' = t
    BY <1>2, <1>3 DEF At, Want
  <2>5. Holding(At, Want)' # {}
    BY <2>3, <2>4
  <2>6. memOpInfo.op = "M" => todo # 1
    BY <1>1, <1>2, <1>3 DEF ModifyInv
  <2>7. todo \in 0 .. 2
    BY <1>1 DEF TypeOK
  <2> QED BY <1>3, <2>5, <2>6, <2>7 DEF ModifyInv
<1> QED BY <1>1, <1>6, <1>7, <1>8, <1>9 DEF CsimInv

\* The other steps leave the lists and tags as they are.
LEMMA OtherCsimInv ==
  ASSUME CsimInv,
         \/ UsageError \/ Initialize
         \/ \E op \in Ops : ReadLine(op, Addr)
         \/ \E op \in Ops : ReadLine(op, {memOpInfo.addr})
         \/ MissNoMemory \/ EndLine \/ EndOfTrace \/ Exit \/ ExitNoSets
         \/ UNCHANGED vars
  PROVE  CsimInv'
<1>1. TypeOK /\ ListInv /\ TagInv /\ PhaseInv /\ ModifyInv
  BY DEF CsimInv
<1>2. UNCHANGED cacheVars
  BY DEF UsageError, Initialize, ReadLine, MissNoMemory, EndLine, EndOfTrace, Exit,
         ExitNoSets, vars, cacheVars
<1>3. ListInv' /\ TagInv'
  BY <1>1, <1>2 DEF ListInv, TagInv, Order, cacheVars
<1>4. TypeOK' /\ PhaseInv'
  <2>1. CASE UsageError \/ Initialize
    BY <1>1, <2>1 DEF TypeOK, PhaseInv, UsageError, Initialize, cacheVars, lineVars, counters
  <2>2. CASE \E op \in Ops : ReadLine(op, Addr) \/ ReadLine(op, {memOpInfo.addr})
    <3>1. memOpInfo.addr \in Addr
      BY <1>1 DEF TypeOK
    <3>2. PICK op \in Ops, addrs \in {Addr, {memOpInfo.addr}} : ReadLine(op, addrs)
      BY <2>2
    <3>3. PICK a \in Addr : memOpInfo' = [op |-> op, addr |-> a]
      BY <3>1, <3>2 DEF ReadLine
    <3>4. memOpInfo' \in [op : Ops, addr : Addr]
      BY <3>3
    <3>5. /\ todo' \in 0 .. 2 /\ reading' = FALSE
          /\ UNCHANGED <<cacheVars, flags, counters, processVars>> /\ phase = "trace"
      BY <3>2 DEF ReadLine
    <3> QED BY <1>1, <3>4, <3>5 DEF TypeOK, PhaseInv, cacheVars, counters, processVars
  <2>3. CASE EndLine \/ EndOfTrace
    BY <1>1, <2>3 DEF TypeOK, PhaseInv, EndLine, EndOfTrace, cacheVars, lineVars, counters,
                      processVars
  <2>7. CASE MissNoMemory
    BY <1>1, <2>7 DEF TypeOK, PhaseInv, MissNoMemory, Accessing, cacheVars
  <2>4. CASE Exit
    <3>1. \A s \in Sets : Reached(list[s]) = 1 .. lineCnt[s] /\ 1 .. lineCnt[s] \subseteq Lines
      BY <1>1, ReachedIs, Pointers DEF TypeOK
    <3>a. freed' = [s \in Sets |-> 1 .. lineCnt[s]]
      <4>1. CASE cacheSetArr = "allocated"
        BY <2>4, <3>1, <4>1 DEF Exit
      <4>2. CASE cacheSetArr # "allocated"
        <5>1. \A s \in Sets : 1 .. lineCnt[s] = {}
          BY <1>1, <4>2 DEF PhaseInv
        <5> QED BY <2>4, <4>2, <5>1 DEF Exit
      <4> QED BY <4>1, <4>2
    <3>2. freed' \in [Sets -> SUBSET Lines] /\ \A s \in Sets : freed'[s] = 1 .. lineCnt[s]
      BY <3>1, <3>a
    <3> QED BY <1>1, <2>4, <3>2 DEF TypeOK, PhaseInv, Exit, cacheVars, lineVars, counters
  <2>5. CASE ExitNoSets
    BY <1>1, <2>5 DEF TypeOK, PhaseInv, ExitNoSets, cacheVars, lineVars, counters
  <2>6. CASE UNCHANGED vars
    BY <1>1, <2>6 DEF TypeOK, PhaseInv, vars, cacheVars, lineVars, counters, processVars
  <2> QED BY <2>1, <2>2, <2>3, <2>4, <2>5, <2>6, <2>7
<1>5. ModifyInv'
  <2>1. CASE \E op \in Ops : ReadLine(op, Addr) \/ ReadLine(op, {memOpInfo.addr})
    <3>1. PICK op, addrs : ReadLine(op, addrs)
      BY <2>1
    <3>2. memOpInfo'.op = op /\ (op = "M" => todo' = 2)
      BY <3>1 DEF ReadLine
    <3> QED BY <3>2 DEF ModifyInv
  <2>2. CASE UNCHANGED vars
    <3>1. /\ At' = At /\ Want' = Want /\ \A s, t : Holding(s, t)' = Holding(s, t)
          /\ UNCHANGED <<phase, reading, memOpInfo, todo, flags>>
      BY <2>2 DEF Holding, At, Want, vars, cacheVars, lineVars, processVars
    <3> QED BY <1>1, <3>1 DEF ModifyInv
  <2>3. CASE \/ UsageError \/ MissNoMemory \/ EndLine \/ EndOfTrace \/ Exit \/ ExitNoSets
    BY <2>3 DEF ModifyInv, UsageError, MissNoMemory, EndLine, EndOfTrace, Exit, ExitNoSets
  <2>4. CASE Initialize
    BY <1>1, <2>4 DEF ModifyInv, PhaseInv, Initialize, lineVars
  <2> QED BY <2>1, <2>2, <2>3, <2>4
<1> QED BY <1>1, <1>3, <1>4, <1>5 DEF CsimInv

LEMMA NextCsimInv == CsimInv /\ [Next]_vars => CsimInv'
  BY HitCsimInv, MissInsertCsimInv, MissEvictCsimInv, OtherCsimInv DEF Next, Ended

LEMMA CsimInvariant == Spec => []CsimInv
  BY InitCsimInv, NextCsimInv, PTL DEF Spec

-----------------------------------------------------------------------------
(* What follows for the simulator.                                         *)

\* The variables of the simulator keep their types, for any cache and trace.
THEOREM CsimTypes == Spec => []TypeOK
<1>1. CsimInv => TypeOK
  BY DEF CsimInv
<1> QED BY <1>1, CsimInvariant, PTL

\* Whatever the trace, the pointers of listInsertHead and listMoveNodeToHead
\* keep every line of every set in one list, and no tag twice in a set.
THEOREM ListsStayWellFormed == Spec => []ListsWellFormed
<1>1. CsimInv => ListsWellFormed
  <2> SUFFICES ASSUME CsimInv, NEW s \in Sets
               PROVE  /\ {Order(s)[k] : k \in 1 .. lineCnt[s]} = 1 .. lineCnt[s]
                      /\ Order(s)[lineCnt[s] + 1] = Null
                      /\ \A k \in 1 .. lineCnt[s] : list[s].prev[Order(s)[k]] =
                           IF k = 1 THEN Null ELSE Order(s)[k - 1]
                      /\ \A i, k \in 1 .. lineCnt[s] : tag[s][i] = tag[s][k] => i = k
    BY DEF ListsWellFormed, Order
  <2>1. Ordered(list[s], lineCnt[s], Order(s))
    BY DEF CsimInv, ListInv
  <2>2. lineCnt[s] + 1 \in lineCnt[s] + 1 .. paramE + 1
    BY <2>1, Pointers DEF Ordered
  <2>3. {Order(s)[k] : k \in 1 .. lineCnt[s]} = 1 .. lineCnt[s]
    <3>1. \A k \in 1 .. lineCnt[s] : Order(s)[k] \in 1 .. lineCnt[s]
      BY <2>1 DEF Ordered
    <3>2. \A n \in 1 .. lineCnt[s] : \E k \in 1 .. lineCnt[s] : Order(s)[k] = n
      BY <2>1 DEF Ordered
    <3> QED BY <3>1, <3>2
  <2> QED BY <2>1, <2>2, <2>3 DEF Ordered, CsimInv, TagInv
<1> QED BY <1>1, CsimInvariant, PTL

\* The store of a modify hits, whatever its load did.
THEOREM ModifyHits == Spec => []ModifyEndsInHit
<1>1. CsimInv => ModifyEndsInHit
  BY DEF CsimInv, ModifyInv, ModifyEndsInHit
<1> QED BY <1>1, CsimInvariant, PTL

\* exitFcn frees every line that was allocated, however the program leaves.
THEOREM AllLinesFreed == Spec => []LinesAreFreed
<1>1. CsimInv => LinesAreFreed
  BY DEF CsimInv, PhaseInv, LinesAreFreed
<1> QED BY <1>1, CsimInvariant, PTL

-----------------------------------------------------------------------------
(* What is counted and what the cache holds.                               *)

\* While the trace is read, every miss that evicted nothing took one line.
CountInv == phase \in {"start", "trace"} => missCnt - evictionCnt = Cardinality(LinesInUse)

\* There are finitely many sets and lines.
LEMMA FiniteLinesInUse ==
  ASSUME TypeOK
  PROVE  IsFiniteSet(LinesInUse)
<1>1. IsFiniteSet(0 .. param_s - 1) /\ IsFiniteSet(Lines)
  <2>1. 0 \in Int /\ 1 \in Int /\ param_s - 1 \in Int /\ paramE \in Int
    BY WidthAssumption, ParamAssumption
  <2> QED BY <2>1, FS_Interval DEF Lines
<1>2. IsFiniteSet(Sets)
  BY <1>1, FS_SUBSET DEF Sets
<1>3. IsFiniteSet(Sets \X Lines)
  BY <1>1, <1>2, FS_Product
<1>4. LinesInUse \subseteq Sets \X Lines
  BY DEF LinesInUse
<1> QED BY <1>3, <1>4, FS_Subset

\* A line more of one set is a line more in use.
LEMMA OneMoreInUse ==
  ASSUME TypeOK, NEW s \in Sets, lineCnt[s] < paramE,
         lineCnt' = [lineCnt EXCEPT ![s] = lineCnt[s] + 1]
  PROVE  Cardinality(LinesInUse') = Cardinality(LinesInUse) + 1
<1> DEFINE new == <<s, lineCnt[s] + 1>>
<1>1. lineCnt[s] \in Nat /\ lineCnt[s] + 1 \in Lines /\ lineCnt \in [Sets -> 0 .. paramE]
  BY ParamAssumption DEF TypeOK, Lines
<1>2. lineCnt'[s] = lineCnt[s] + 1 /\ \A z \in Sets : z # s => lineCnt'[z] = lineCnt[z]
  BY <1>1
<1>3. new \in Sets \X Lines /\ new \notin LinesInUse
  BY <1>1 DEF LinesInUse
<1>4. ASSUME NEW z \in Sets, NEW n \in Lines
      PROVE  n <= lineCnt'[z] <=> n <= lineCnt[z] \/ (z = s /\ n = lineCnt[s] + 1)
  BY <1>1, <1>2, ParamAssumption DEF Lines
<1>5. ASSUME NEW place \in Sets \X Lines
      PROVE  place \in LinesInUse' <=> place \in LinesInUse \cup {new}
  <2>1. PICK z \in Sets, n \in Lines : place = <<z, n>>
    OBVIOUS
  <2>2. place \in LinesInUse' <=> n <= lineCnt'[z]
    BY <2>1 DEF LinesInUse
  <2>3. place \in LinesInUse <=> n <= lineCnt[z]
    BY <2>1 DEF LinesInUse
  <2> QED BY <1>4, <2>1, <2>2, <2>3
<1>6. LinesInUse' \subseteq Sets \X Lines /\ LinesInUse \subseteq Sets \X Lines
  BY DEF LinesInUse
<1> HIDE DEF new
<1>7. LinesInUse' = LinesInUse \cup {new}
  BY <1>3, <1>5, <1>6
<1> QED BY <1>3, <1>7, FiniteLinesInUse, FS_AddElement

LEMMA InitCountInv == Init => CountInv
<1> SUFFICES ASSUME Init PROVE CountInv
  OBVIOUS
<1>1. LinesInUse = {}
  <2>1. \A s \in Sets : lineCnt[s] = 0
    BY DEF Init
  <2> QED BY <2>1, ParamAssumption DEF LinesInUse, Lines
<1> QED BY <1>1, FS_EmptySet DEF CountInv, Init

LEMMA NextCountInv ==
  ASSUME CsimInv, CountInv, [Next]_vars
  PROVE  CountInv'
<1>1. TypeOK /\ At \in Sets
  BY AtWant DEF CsimInv
<1>2. missCnt \in Int /\ evictionCnt \in Int
  BY <1>1 DEF TypeOK
<1>3. CASE MissInsert
  <2>1. /\ lineCnt[At] < paramE /\ lineCnt' = [lineCnt EXCEPT ![At] = lineCnt[At] + 1]
        /\ missCnt' = missCnt + 1 /\ evictionCnt' = evictionCnt /\ phase = "trace"
    BY <1>3 DEF MissInsert, Accessing, At
  <2>2. Cardinality(LinesInUse') = Cardinality(LinesInUse) + 1
    BY <1>1, <2>1, OneMoreInUse
  <2>3. missCnt - evictionCnt = Cardinality(LinesInUse)
    BY <2>1 DEF CountInv
  <2>4. missCnt' - evictionCnt' = Cardinality(LinesInUse')
    BY <1>2, <2>1, <2>2, <2>3
  <2> QED BY <2>4 DEF CountInv
<1>4. CASE MissEvict
  <2>1. /\ lineCnt' = lineCnt /\ phase' = phase
        /\ missCnt' = missCnt + 1 /\ evictionCnt' = evictionCnt + 1
    BY <1>4 DEF MissEvict, processVars
  <2>2. LinesInUse' = LinesInUse
    BY <2>1 DEF LinesInUse
  <2> QED BY <1>2, <2>1, <2>2 DEF CountInv
<1>5. CASE MissNoMemory
  BY <1>5 DEF MissNoMemory, CountInv
<1>6. CASE ~ (MissInsert \/ MissEvict \/ MissNoMemory)
  <2>1. /\ UNCHANGED <<lineCnt, missCnt, evictionCnt>>
        /\ phase' \in {"start", "trace"} => phase \in {"start", "trace"}
    <3>1. CASE UNCHANGED vars
      BY <3>1 DEF vars, cacheVars, counters, processVars
    <3>2. CASE \/ UsageError \/ Initialize \/ EndLine \/ EndOfTrace \/ Exit \/ ExitNoSets
      BY <3>2 DEF UsageError, Initialize, EndLine, EndOfTrace, Exit, ExitNoSets,
                  cacheVars, counters, processVars
    <3>3. CASE Hit
      BY <3>3 DEF Hit, processVars
    <3>4. CASE \E op \in Ops : ReadLine(op, Addr) \/ ReadLine(op, {memOpInfo.addr})
      BY <3>4 DEF ReadLine, cacheVars, counters, processVars
    <3> QED BY <1>6, <3>1, <3>2, <3>3, <3>4 DEF Next, Ended
  <2>2. LinesInUse' = LinesInUse
    BY <2>1 DEF LinesInUse
  <2> QED BY <2>1, <2>2 DEF CountInv
<1> QED BY <1>3, <1>4, <1>5, <1>6

\* A line comes into use by a miss that evicts nothing, and stays: however the
\* trace goes, the counters printed differ by the lines calloc returned.
THEOREM MissesFillTheCache == Spec => []CountersBalance
<1>1. CountInv => CountersBalance
  BY DEF CountInv, CountersBalance
<1>2. CsimInv /\ CountInv /\ [Next]_vars => CountInv'
  BY NextCountInv
<1> QED BY <1>1, <1>2, CsimInvariant, InitCountInv, PTL DEF Spec

-----------------------------------------------------------------------------
(* The simulator implements LRU.                                           *)

Blocks == {TagOf(a) : a \in Addr}

Once(u) == \A i, k \in 1 .. Len(u) : u[i] = u[k] => i = k

\* A tag that was not used yet comes before all others.
LEMMA TouchNew ==
  ASSUME NEW S, NEW u \in Seq(S), Once(u), NEW t \in S,
         \A i \in 1 .. Len(u) : u[i] # t
  PROVE  /\ Cache!Touch(u, t) \in Seq(S) /\ Once(Cache!Touch(u, t))
         /\ Len(Cache!Touch(u, t)) = Len(u) + 1
         /\ Cache!Touch(u, t)[1] = t
         /\ \A k \in 2 .. Len(u) + 1 : Cache!Touch(u, t)[k] = u[k - 1]
<1>1. DOMAIN u = 1 .. Len(u) /\ Len(u) \in Nat
  OBVIOUS
<1>2. {i \in DOMAIN u : u[i] = t} = {}
  BY <1>1
<1>3. Cache!Touch(u, t) = <<t>> \o u
  BY <1>2 DEF Cache!Touch
<1> DEFINE v == <<t>> \o u
<1>4. v \in Seq(S) /\ Len(v) = Len(u) + 1 /\ v[1] = t
  OBVIOUS
<1>5. \A k \in 2 .. Len(u) + 1 : v[k] = u[k - 1] /\ k - 1 \in 1 .. Len(u)
  BY <1>1
<1> HIDE DEF v
<1>6. Once(v)
  <2> SUFFICES ASSUME NEW i \in 1 .. Len(u) + 1, NEW k \in 1 .. Len(u) + 1, v[i] = v[k]
               PROVE  i = k
    BY <1>4 DEF Once
  <2>1. CASE i = 1 \/ k = 1
    BY <1>1, <1>4, <1>5, <2>1
  <2>2. CASE i # 1 /\ k # 1
    <3>1. i \in 2 .. Len(u) + 1 /\ k \in 2 .. Len(u) + 1
      BY <1>1, <2>2
    <3>2. i - 1 = k - 1
      BY <1>5, <3>1 DEF Once
    <3> QED BY <3>1, <3>2
  <2> QED BY <2>1, <2>2
<1> QED BY <1>3, <1>4, <1>5, <1>6 DEF v

\* A tag that was used moves to the front, and those before it move down.
LEMMA TouchOld ==
  ASSUME NEW S, NEW u \in Seq(S), Once(u), NEW t \in S,
         NEW j \in 1 .. Len(u), u[j] = t
  PROVE  /\ Cache!Touch(u, t) \in Seq(S) /\ Once(Cache!Touch(u, t))
         /\ Len(Cache!Touch(u, t)) = Len(u)
         /\ Cache!Touch(u, t)[1] = t
         /\ \A k \in 2 .. j : Cache!Touch(u, t)[k] = u[k - 1]
         /\ \A k \in j + 1 .. Len(u) : Cache!Touch(u, t)[k] = u[k]
<1>1. DOMAIN u = 1 .. Len(u) /\ Len(u) \in Nat
  OBVIOUS
<1>2. {i \in DOMAIN u : u[i] = t} = {j}
  BY <1>1 DEF Once
<1> DEFINE v == [k \in 1 .. Len(u) |-> IF k = 1 THEN t ELSE IF k <= j THEN u[k - 1] ELSE u[k]]
<1>3. Cache!Touch(u, t) = v
  BY <1>1, <1>2 DEF Cache!Touch
<1>4. \A k \in 1 .. Len(u) : v[k] \in S
  <2> SUFFICES ASSUME NEW k \in 1 .. Len(u) PROVE v[k] \in S
    OBVIOUS
  <2>1. \A i \in 1 .. Len(u) : u[i] \in S
    OBVIOUS
  <2>2. k # 1 => k - 1 \in 1 .. Len(u)
    BY <1>1
  <2> QED BY <2>1, <2>2
<1>5. v \in Seq(S) /\ Len(v) = Len(u)
  <2>1. v \in [1 .. Len(u) -> S]
    BY <1>4
  <2> HIDE DEF v
  <2> QED BY <1>1, <2>1
<1>6. /\ v[1] = t
      /\ \A k \in 2 .. j : v[k] = u[k - 1]
      /\ \A k \in j + 1 .. Len(u) : v[k] = u[k]
  BY <1>1
<1> DEFINE from(x) == IF x = 1 THEN j ELSE IF x <= j THEN x - 1 ELSE x
<1>7. \A x \in 1 .. Len(u) : from(x) \in 1 .. Len(u) /\ v[x] = u[from(x)]
  BY <1>1
<1>8. \A x, y \in 1 .. Len(u) : from(x) = from(y) => x = y
  BY <1>1
<1> HIDE DEF v, from
<1>9. Once(v)
  <2> SUFFICES ASSUME NEW x \in 1 .. Len(u), NEW y \in 1 .. Len(u), v[x] = v[y]
               PROVE  x = y
    BY <1>5 DEF Once
  <2>1. from(x) \in 1 .. Len(u) /\ from(y) \in 1 .. Len(u) /\ u[from(x)] = u[from(y)]
    BY <1>7
  <2>2. from(x) = from(y)
    BY <2>1 DEF Once
  <2> QED BY <1>8, <2>2
<1> QED BY <1>3, <1>5, <1>6, <1>9

\* The history of a set has no tag twice, and as long as the trace is read the
\* list of a set holds, from head to tail, as many of them as there are lines.
Recent(s) ==
  /\ lineCnt[s] = IF Len(used[s]) < paramE THEN Len(used[s]) ELSE paramE
  /\ \A k \in 1 .. lineCnt[s] : tag[s][Order(s)[k]] = used[s][k]

RecentInv ==
  /\ used \in [Sets -> Seq(Blocks)]
  /\ \A s \in Sets : Once(used[s])
  /\ phase \in {"start", "trace"} => \A s \in Sets : Recent(s)

\* The masks cut the address as the abstract cache does.
LEMMA SameCut ==
  ASSUME param_s + param_b <= UintBits, TypeOK
  PROVE  SetOf(memOpInfo.addr) = At /\ TagOf(memOpInfo.addr) = Want /\ Want \in Blocks
<1>1. memOpInfo.addr \in Addr
  BY DEF TypeOK
<1>2. memOpInfo.addr \in SUBSET Nat
  BY <1>1, ParamAssumption
<1> QED BY <1>1, <1>2, CutsAsAsked DEF At, Want, Blocks

\* An access that counts a hit or a miss is recorded.
LEMMA Recorded ==
  ASSUME param_s + param_b <= UintBits, TypeOK, Record,
         \/ hitCnt' = hitCnt + 1 /\ missCnt' = missCnt
         \/ hitCnt' = hitCnt /\ missCnt' = missCnt + 1
  PROVE  used' = [used EXCEPT ![At] = Cache!Touch(@, Want)]
<1>1. Accessed
  BY DEF Accessed, TypeOK
<1> QED BY <1>1, SameCut DEF Record

\* In the list of a set, the tags of the lines are the tags used last.
LEMMA HeldTags ==
  ASSUME ListInv, NEW s \in Sets, Recent(s), used[s] \in Seq(Blocks), NEW t
  PROVE  t \in Cache!Held(used[s]) <=> Holding(s, t) # {}
<1>1. paramE \in Nat \ {0} /\ Len(used[s]) \in Nat /\ DOMAIN used[s] = 1 .. Len(used[s])
  BY Pointers
<1>2. {k \in DOMAIN used[s] : k <= paramE} = 1 .. lineCnt[s]
  BY <1>1 DEF Recent
<1>3. Cache!Held(used[s]) = {used[s][i] : i \in 1 .. lineCnt[s]}
  BY <1>2 DEF Cache!Held
<1>4. Holding(s, t) = {k \in 1 .. lineCnt[s] : used[s][k] = t}
  BY HoldingIs DEF Recent
<1> QED BY <1>3, <1>4

LEMMA InitRecentInv == HInit => RecentInv /\ Cache!Init
<1> SUFFICES ASSUME HInit PROVE RecentInv /\ Cache!Init
  OBVIOUS
<1>1. Cache!Init
  BY DEF HInit, Init, Cache!Init
<1>2. \A s \in Sets : used[s] = <<>> /\ lineCnt[s] = 0
  BY DEF HInit, Init
<1>3. used \in [Sets -> Seq(Blocks)]
  BY DEF HInit
<1>4. \A s \in Sets : Once(used[s]) /\ Recent(s)
  BY <1>2, Pointers DEF Once, Recent
<1> QED BY <1>1, <1>3, <1>4 DEF RecentInv

\* Recording an access changes the history of its set only.
LEMMA HistoryKept ==
  ASSUME RecentInv, At \in Sets, Want \in Blocks,
         used' = [used EXCEPT ![At] = Cache!Touch(@, Want)]
  PROVE  /\ used' \in [Sets -> Seq(Blocks)]
         /\ \A s \in Sets : Once(used'[s])
         /\ used'[At] = Cache!Touch(used[At], Want)
         /\ \A z \in Sets : z # At => used'[z] = used[z]
<1>1. used \in [Sets -> Seq(Blocks)] /\ \A s \in Sets : Once(used[s])
  BY DEF RecentInv
<1>2. used[At] \in Seq(Blocks) /\ Once(used[At])
  BY <1>1
<1>3. Cache!Touch(used[At], Want) \in Seq(Blocks) /\ Once(Cache!Touch(used[At], Want))
  <2>1. CASE \A i \in 1 .. Len(used[At]) : used[At][i] # Want
    BY <1>2, <2>1, TouchNew
  <2>2. CASE \E i \in 1 .. Len(used[At]) : used[At][i] = Want
    BY <1>2, <2>2, TouchOld
  <2> QED BY <2>1, <2>2
<1>4. PICK s, w : s = At /\ w = Cache!Touch(used[At], Want)
  OBVIOUS
<1>5. used' = [used EXCEPT ![s] = w] /\ s \in Sets /\ w \in Seq(Blocks) /\ Once(w)
  BY <1>3, <1>4
<1>6. used' \in [Sets -> Seq(Blocks)] /\ used'[s] = w
      /\ \A z \in Sets : z # s => used'[z] = used[z]
  BY <1>1, <1>5
<1>7. \A z \in Sets : Once(used'[z])
  BY <1>1, <1>5, <1>6
<1> QED BY <1>4, <1>6, <1>7

LEMMA HitRecent ==
  ASSUME param_s + param_b <= UintBits, CsimInv, RecentInv, Hit, Record
  PROVE  RecentInv' /\ Cache!Next
<1>1. /\ TypeOK /\ ListInv /\ At \in Sets /\ Want \in Blocks
      /\ UNCHANGED <<tag, lineCnt, memOpInfo, missCnt, evictionCnt, phase>>
      /\ hitCnt' = hitCnt + 1 /\ phase = "trace" /\ Holding(At, Want) # {}
  BY AtWant, SameCut DEF CsimInv, Hit, Accessing, processVars, At, Want
<1>2. used' = [used EXCEPT ![At] = Cache!Touch(@, Want)]
  <2>1. /\ TypeOK
        /\ \/ hitCnt' = hitCnt + 1 /\ missCnt' = missCnt
           \/ hitCnt' = hitCnt /\ missCnt' = missCnt + 1
    BY <1>1
  <2> QED BY <2>1, Recorded
<1>3. PICK j \in 1 .. lineCnt[At] :
        tag[At][Order(At)[j]] = Want /\ Walk(list'[At]) = ToFront(Order(At), j)
  BY <1>1, HitStep
<1>4. Recent(At) /\ used[At] \in Seq(Blocks) /\ Once(used[At])
  BY <1>1 DEF RecentInv
<1>5. PICK s, t, u, f : s = At /\ t = Want /\ u = used[At] /\ f = Order(At)
  OBVIOUS
<1>6. /\ u \in Seq(Blocks) /\ Once(u) /\ Len(u) \in Nat /\ paramE \in Nat /\ s \in Sets
      /\ t \in Blocks /\ j \in 1 .. lineCnt[s] /\ u[j] = t
      /\ lineCnt[s] = IF Len(u) < paramE THEN Len(u) ELSE paramE
      /\ \A k \in 1 .. lineCnt[s] : tag[s][f[k]] = u[k]
      /\ Ordered(list[s], lineCnt[s], f)
  BY <1>1, <1>3, <1>4, <1>5, Pointers DEF Recent, ListInv
<1>7. j \in 1 .. Len(u)
  BY <1>6
<1>8. /\ used'[s] = Cache!Touch(u, t) /\ used' \in [Sets -> Seq(Blocks)]
      /\ \A z \in Sets : Once(used'[z])
      /\ \A z \in Sets : z # s => used'[z] = used[z]
  BY <1>1, <1>2, <1>5, HistoryKept
<1>9. /\ Len(used'[s]) = Len(u) /\ used'[s][1] = t
      /\ \A k \in 2 .. j : used'[s][k] = u[k - 1]
      /\ \A k \in j + 1 .. Len(u) : used'[s][k] = u[k]
  BY <1>6, <1>7, <1>8, TouchOld
<1>10. Recent(s)'
  <2>1. lineCnt'[s] = IF Len(used'[s]) < paramE THEN Len(used'[s]) ELSE paramE
    BY <1>1, <1>6, <1>9
  <2>2. ASSUME NEW k \in 1 .. lineCnt[s]
        PROVE  tag[s][ToFront(f, j)[k]] = used'[s][k]
    <3>0. k \in DOMAIN f /\ k \in 1 .. Len(u) /\ k \in Nat /\ j \in Nat
      BY <1>6 DEF Ordered
    <3>1. CASE k = 1
      BY <1>6, <1>9, <3>0, <3>1 DEF ToFront
    <3>2. CASE k # 1 /\ k <= j
      <4>1. k \in 2 .. j /\ k - 1 \in 1 .. lineCnt[s]
        BY <1>6, <3>0, <3>2
      <4> QED BY <1>6, <1>9, <3>0, <3>2, <4>1 DEF ToFront
    <3>3. CASE k > j
      <4>1. k \in j + 1 .. Len(u) /\ k # 1 /\ ~(k <= j)
        BY <1>7, <3>0, <3>3
      <4> QED BY <1>6, <1>9, <3>0, <4>1 DEF ToFront
    <3> QED BY <3>0, <3>1, <3>2, <3>3
  <2>3. Walk(list'[s]) = ToFront(f, j)
    BY <1>3, <1>5
  <2> QED BY <1>1, <2>1, <2>2, <2>3 DEF Recent, Order
<1>11. ASSUME NEW z \in Sets, z # s
       PROVE  Recent(z)'
  <2>1. Walk(list'[z]) = Walk(list[z])
    BY <1>1, <1>5, <1>11, HitStep
  <2>2. Recent(z)
    BY <1>1 DEF RecentInv
  <2> QED BY <1>1, <1>8, <1>11, <2>1, <2>2 DEF Recent, Order
<1>12. RecentInv'
  BY <1>8, <1>10, <1>11 DEF RecentInv
<1>13. Cache!Access(At, Want)
  <2>1. Want \in Cache!Held(used[At])
    BY <1>1, <1>4, HeldTags
  <2> QED BY <1>1, <1>2, <2>1 DEF Cache!Access
<1> QED BY <1>1, <1>12, <1>13 DEF Cache!Next, Blocks

LEMMA MissInsertRecent ==
  ASSUME param_s + param_b <= UintBits, CsimInv, RecentInv, MissInsert, Record
  PROVE  RecentInv' /\ Cache!Next
<1>1. /\ TypeOK /\ ListInv /\ At \in Sets /\ Want \in Blocks
      /\ UNCHANGED <<memOpInfo, hitCnt, evictionCnt, phase>>
      /\ lineCnt[At] < paramE
      /\ tag' = [tag EXCEPT ![At][lineCnt[At] + 1] = Want]
      /\ lineCnt' = [lineCnt EXCEPT ![At] = lineCnt[At] + 1]
      /\ missCnt' = missCnt + 1 /\ phase = "trace" /\ Holding(At, Want) = {}
  BY AtWant, SameCut DEF CsimInv, MissInsert, Accessing, processVars, At, Want
<1>2. used' = [used EXCEPT ![At] = Cache!Touch(@, Want)]
  <2>1. /\ TypeOK
        /\ \/ hitCnt' = hitCnt + 1 /\ missCnt' = missCnt
           \/ hitCnt' = hitCnt /\ missCnt' = missCnt + 1
    BY <1>1
  <2> QED BY <2>1, Recorded
<1>3. Recent(At) /\ used[At] \in Seq(Blocks) /\ Once(used[At])
  BY <1>1 DEF RecentInv
<1>4. ~ Want \in Cache!Held(used[At])
  BY <1>1, <1>3, HeldTags
<1>5. PICK s, t, u, f, c : s = At /\ t = Want /\ u = used[At] /\ f = Order(At) /\ c = lineCnt[At]
  OBVIOUS
<1>6. /\ u \in Seq(Blocks) /\ Once(u) /\ Len(u) \in Nat /\ paramE \in Nat /\ s \in Sets
      /\ t \in Blocks /\ c = Len(u) /\ c < paramE
      /\ \A k \in 1 .. c : tag[s][f[k]] = u[k]
      /\ Ordered(list[s], c, f)
  BY <1>1, <1>3, <1>5, Pointers DEF Recent, ListInv
<1>7. \A i \in 1 .. Len(u) : u[i] # t
  <2>1. Cache!Held(u) = {u[i] : i \in {k \in DOMAIN u : k <= paramE}}
    BY DEF Cache!Held
  <2>2. \A i \in 1 .. Len(u) : i \in {k \in DOMAIN u : k <= paramE}
    BY <1>6
  <2> QED BY <1>4, <1>5, <2>1, <2>2
<1>8. /\ used'[s] = Cache!Touch(u, t) /\ used' \in [Sets -> Seq(Blocks)]
      /\ \A z \in Sets : Once(used'[z])
      /\ \A z \in Sets : z # s => used'[z] = used[z]
  BY <1>1, <1>2, <1>5, HistoryKept
<1>9. /\ Len(used'[s]) = Len(u) + 1 /\ used'[s][1] = t
      /\ \A k \in 2 .. Len(u) + 1 : used'[s][k] = u[k - 1]
  BY <1>6, <1>7, <1>8, TouchNew
<1>10. /\ tag \in [Sets -> [Lines -> Tags]] /\ lineCnt \in [Sets -> 0 .. paramE]
       /\ c + 1 \in Lines
  BY <1>1, <1>6, Pointers DEF TypeOK
<1>11. /\ tag'[s][c + 1] = t /\ lineCnt'[s] = c + 1
       /\ \A k \in Lines : k # c + 1 => tag'[s][k] = tag[s][k]
       /\ \A z \in Sets : z # s => tag'[z] = tag[z] /\ lineCnt'[z] = lineCnt[z]
  BY <1>1, <1>5, <1>6, <1>10
<1>12. Recent(s)'
  <2>1. lineCnt'[s] = IF Len(used'[s]) < paramE THEN Len(used'[s]) ELSE paramE
    BY <1>6, <1>9, <1>11
  <2>2. Walk(list'[s]) = [k \in 1 .. paramE + 1 |-> IF k = 1 THEN c + 1 ELSE f[k - 1]]
    BY <1>1, <1>5, InsertStep
  <2>3. ASSUME NEW k \in 1 .. c + 1
        PROVE  tag'[s][Walk(list'[s])[k]] = used'[s][k]
    <3>0. k \in 1 .. paramE + 1
      BY <1>6
    <3>1. CASE k = 1
      BY <1>9, <1>11, <2>2, <3>0, <3>1
    <3>2. CASE k # 1
      <4>1. k - 1 \in 1 .. c /\ k \in 2 .. Len(u) + 1
        BY <1>6, <3>2
      <4>2. f[k - 1] \in 1 .. c
        BY <1>6, <4>1 DEF Ordered
      <4>3. f[k - 1] \in Lines /\ f[k - 1] # c + 1
        BY <1>6, <4>2, Pointers
      <4>4. Walk(list'[s])[k] = f[k - 1]
        BY <2>2, <3>0, <3>2
      <4> QED BY <1>6, <1>9, <1>11, <4>1, <4>3, <4>4
    <3> QED BY <3>1, <3>2
  <2> QED BY <1>11, <2>1, <2>3 DEF Recent, Order
<1>13. ASSUME NEW z \in Sets, z # s
       PROVE  Recent(z)'
  <2>1. Walk(list'[z]) = Walk(list[z])
    BY <1>1, <1>5, <1>13, InsertStep
  <2>2. Recent(z)
    BY <1>1 DEF RecentInv
  <2> QED BY <1>8, <1>11, <1>13, <2>1, <2>2 DEF Recent, Order
<1>14. RecentInv'
  BY <1>8, <1>12, <1>13 DEF RecentInv
<1>15. Cache!Access(At, Want)
  <2>1. ~ Len(used[At]) >= paramE /\ evictionCnt' = evictionCnt + 0
    BY <1>1, <1>5, <1>6 DEF TypeOK
  <2> QED BY <1>1, <1>2, <1>4, <2>1 DEF Cache!Access
<1> QED BY <1>1, <1>14, <1>15 DEF Cache!Next, Blocks

LEMMA MissEvictRecent ==
  ASSUME param_s + param_b <= UintBits, CsimInv, RecentInv, MissEvict, Record
  PROVE  RecentInv' /\ Cache!Next
<1>1. /\ TypeOK /\ ListInv /\ At \in Sets /\ Want \in Blocks
      /\ UNCHANGED <<lineCnt, memOpInfo, hitCnt, phase>>
      /\ lineCnt[At] = paramE
      /\ missCnt' = missCnt + 1 /\ evictionCnt' = evictionCnt + 1
      /\ phase = "trace" /\ Holding(At, Want) = {}
  BY AtWant, SameCut DEF CsimInv, MissEvict, Accessing, processVars, At, Want
<1>2. used' = [used EXCEPT ![At] = Cache!Touch(@, Want)]
  <2>1. /\ TypeOK
        /\ \/ hitCnt' = hitCnt + 1 /\ missCnt' = missCnt
           \/ hitCnt' = hitCnt /\ missCnt' = missCnt + 1
    BY <1>1
  <2> QED BY <2>1, Recorded
<1>3. Recent(At) /\ used[At] \in Seq(Blocks) /\ Once(used[At])
  BY <1>1 DEF RecentInv
<1>4. ~ Want \in Cache!Held(used[At])
  BY <1>1, <1>3, HeldTags
<1>5. PICK s, t, u, f, n :
        s = At /\ t = Want /\ u = used[At] /\ f = Order(At) /\ n = Order(At)[paramE]
  OBVIOUS
<1>6. /\ u \in Seq(Blocks) /\ Once(u) /\ Len(u) \in Nat /\ paramE \in Nat \ {0} /\ s \in Sets
      /\ t \in Blocks /\ lineCnt[s] = paramE /\ paramE <= Len(u)
      /\ \A k \in 1 .. paramE : tag[s][f[k]] = u[k]
      /\ Ordered(list[s], paramE, f)
  BY <1>1, <1>3, <1>5, Pointers DEF Recent, ListInv
<1>7. \A i \in 1 .. paramE : u[i] # t
  <2>1. Cache!Held(u) = {u[i] : i \in {k \in DOMAIN u : k <= paramE}}
    BY DEF Cache!Held
  <2>2. \A i \in 1 .. paramE : i \in {k \in DOMAIN u : k <= paramE}
    BY <1>6
  <2> QED BY <1>4, <1>5, <2>1, <2>2
<1>8. /\ used'[s] = Cache!Touch(u, t) /\ used' \in [Sets -> Seq(Blocks)]
      /\ \A z \in Sets : Once(used'[z])
      /\ \A z \in Sets : z # s => used'[z] = used[z]
  BY <1>1, <1>2, <1>5, HistoryKept
<1>9. /\ Len(used'[s]) >= paramE /\ Len(used'[s]) \in Nat /\ used'[s][1] = t
      /\ \A k \in 2 .. paramE : used'[s][k] = u[k - 1]
  <2>1. CASE \A i \in 1 .. Len(u) : u[i] # t
    <3>1. /\ Len(used'[s]) = Len(u) + 1 /\ used'[s][1] = t
          /\ \A k \in 2 .. Len(u) + 1 : used'[s][k] = u[k - 1]
      BY <1>6, <1>8, <2>1, TouchNew
    <3> QED BY <1>6, <3>1
  <2>2. CASE \E i \in 1 .. Len(u) : u[i] = t
    <3>1. PICK i \in 1 .. Len(u) : u[i] = t
      BY <2>2
    <3>2. /\ Len(used'[s]) = Len(u) /\ used'[s][1] = t
          /\ \A k \in 2 .. i : used'[s][k] = u[k - 1]
      <4>1. u \in Seq(Blocks) /\ Once(u) /\ t \in Blocks
        BY <1>6
      <4>2. /\ Len(Cache!Touch(u, t)) = Len(u) /\ Cache!Touch(u, t)[1] = t
            /\ \A k \in 2 .. i : Cache!Touch(u, t)[k] = u[k - 1]
        BY <4>1, <3>1, TouchOld
      <4> QED BY <1>8, <4>2
    <3>3. i > paramE
      BY <1>6, <1>7, <3>1
    <3> QED BY <1>6, <3>1, <3>2, <3>3
  <2> QED BY <2>1, <2>2
<1>10. /\ tag \in [Sets -> [Lines -> Tags]] /\ n \in Lines
       /\ tag' = [tag EXCEPT ![s][n] = t] /\ Walk(list'[s]) = ToFront(f, paramE)
       /\ \A z \in Sets : z # s => Walk(list'[z]) = Walk(list[z])
  BY <1>1, <1>5, EvictStep DEF TypeOK
<1>11. /\ tag'[s][n] = t
       /\ \A k \in Lines : k # n => tag'[s][k] = tag[s][k]
       /\ \A z \in Sets : z # s => tag'[z] = tag[z]
  BY <1>6, <1>10
<1>12. Recent(s)'
  <2>1. lineCnt'[s] = IF Len(used'[s]) < paramE THEN Len(used'[s]) ELSE paramE
    BY <1>1, <1>6, <1>9
  <2>2. ASSUME NEW k \in 1 .. paramE
        PROVE  tag'[s][ToFront(f, paramE)[k]] = used'[s][k]
    <3>0. k \in DOMAIN f /\ k \in Nat /\ f[paramE] = n
      BY <1>5, <1>6 DEF Ordered
    <3>1. CASE k = 1
      BY <1>9, <1>11, <3>0, <3>1 DEF ToFront
    <3>2. CASE k # 1
      <4>1. k - 1 \in 1 .. paramE /\ k \in 2 .. paramE /\ paramE \in 1 .. paramE
            /\ k - 1 # paramE
        BY <1>6, <3>0, <3>2
      <4>2. f[k - 1] \in 1 .. paramE /\ f[k - 1] # f[paramE]
        BY <1>6, <4>1 DEF Ordered
      <4>3. ToFront(f, paramE)[k] = f[k - 1]
        BY <3>0, <3>2 DEF ToFront
      <4>4. f[k - 1] \in Lines /\ f[k - 1] # n
        BY <3>0, <4>2, Pointers
      <4>5. tag'[s][f[k - 1]] = tag[s][f[k - 1]]
        BY <1>11, <4>4
      <4>6. tag[s][f[k - 1]] = u[k - 1] /\ used'[s][k] = u[k - 1]
        BY <1>6, <1>9, <4>1
      <4> QED BY <4>3, <4>5, <4>6
    <3> QED BY <3>1, <3>2
  <2> QED BY <1>1, <1>6, <1>10, <2>1, <2>2 DEF Recent, Order
<1>13. ASSUME NEW z \in Sets, z # s
       PROVE  Recent(z)'
  <2>1. Walk(list'[z]) = Walk(list[z])
    BY <1>10, <1>13
  <2>2. Recent(z)
    BY <1>1 DEF RecentInv
  <2> QED BY <1>1, <1>8, <1>11, <1>13, <2>1, <2>2 DEF Recent, Order
<1>14. RecentInv'
  BY <1>8, <1>12, <1>13 DEF RecentInv
<1>15. Cache!Access(At, Want)
  <2>1. Len(used[At]) >= paramE
    BY <1>5, <1>6
  <2> QED BY <1>1, <1>2, <1>4, <2>1 DEF Cache!Access
<1> QED BY <1>1, <1>14, <1>15 DEF Cache!Next, Blocks

\* A miss that finds no memory is counted, and the trace is read no further.
LEMMA MissNoMemoryRecent ==
  ASSUME param_s + param_b <= UintBits, CsimInv, RecentInv, MissNoMemory, Record
  PROVE  RecentInv' /\ Cache!Next
<1>1. /\ TypeOK /\ ListInv /\ At \in Sets /\ Want \in Blocks
      /\ UNCHANGED <<hitCnt, evictionCnt>> /\ missCnt' = missCnt + 1
      /\ lineCnt[At] < paramE /\ phase = "trace" /\ phase' = "exit" /\ Holding(At, Want) = {}
  BY AtWant, SameCut DEF CsimInv, MissNoMemory, Accessing, At, Want
<1>2. used' = [used EXCEPT ![At] = Cache!Touch(@, Want)]
  <2>1. /\ TypeOK
        /\ \/ hitCnt' = hitCnt + 1 /\ missCnt' = missCnt
           \/ hitCnt' = hitCnt /\ missCnt' = missCnt + 1
    BY <1>1
  <2> QED BY <2>1, Recorded
<1>3. Recent(At) /\ used[At] \in Seq(Blocks)
  BY <1>1 DEF RecentInv
<1>4. ~ Want \in Cache!Held(used[At])
  BY <1>1, <1>3, HeldTags
<1>5. RecentInv'
  BY <1>1, <1>2, HistoryKept DEF RecentInv
<1>6. ~ Len(used[At]) >= paramE /\ evictionCnt' = evictionCnt + 0
  BY <1>1, <1>3, Pointers DEF TypeOK, Recent
<1>7. Cache!Access(At, Want)
  BY <1>1, <1>2, <1>4, <1>6 DEF Cache!Access
<1> QED BY <1>1, <1>5, <1>7 DEF Cache!Next, Blocks

\* The other steps count nothing, and touch no list.
LEMMA OtherRecent ==
  ASSUME CsimInv, RecentInv,
         \/ /\ \/ UsageError \/ Initialize
               \/ \E op \in Ops : ReadLine(op, Addr)
               \/ \E op \in Ops : ReadLine(op, {memOpInfo.addr})
               \/ EndLine \/ EndOfTrace \/ Exit \/ ExitNoSets \/ Ended
            /\ Record
         \/ UNCHANGED <<vars, used>>
  PROVE  RecentInv' /\ UNCHANGED Cache!vars
<1>1. /\ UNCHANGED <<cacheVars, counters>>
      /\ phase' \in {"start", "trace"} => phase \in {"start", "trace"}
  <2>1. CASE UNCHANGED vars
    BY <2>1 DEF vars, processVars
  <2>2. CASE \/ UsageError \/ Initialize \/ EndLine \/ EndOfTrace \/ Exit \/ ExitNoSets
    BY <2>2 DEF UsageError, Initialize, EndLine, EndOfTrace, Exit, ExitNoSets
  <2>3. CASE \E op \in Ops : ReadLine(op, Addr) \/ ReadLine(op, {memOpInfo.addr})
    BY <2>3 DEF ReadLine
  <2> QED BY <2>1, <2>2, <2>3 DEF Ended
<1>2. used' = used
  <2>1. ~ Accessed
    BY <1>1 DEF Accessed, counters, CsimInv, TypeOK
  <2> QED BY <2>1 DEF Record
<1>3. RecentInv'
  BY <1>1, <1>2 DEF RecentInv, Recent, Order, cacheVars
<1> QED BY <1>1, <1>2, <1>3 DEF Cache!vars, counters

LEMMA NextRecent ==
  ASSUME param_s + param_b <= UintBits, CsimInv, RecentInv, [HNext]_<<vars, used>>
  PROVE  RecentInv' /\ [Cache!Next]_(Cache!vars)
  BY HitRecent, MissInsertRecent, MissEvictRecent, MissNoMemoryRecent, OtherRecent
     DEF HNext, Next

LEMMA HSpecCsimInv == HSpec => []CsimInv
<1>1. HInit => Init
  BY DEF HInit
<1>2. [HNext]_<<vars, used>> => [Next]_vars
  BY DEF HNext
<1> QED BY <1>1, <1>2, CsimInvariant, PTL DEF HSpec, Spec

LEMMA HSpecRecentInv ==
  ASSUME param_s + param_b <= UintBits
  PROVE  HSpec => []RecentInv
<1>1. CsimInv /\ RecentInv /\ [HNext]_<<vars, used>> => RecentInv'
  BY NextRecent
<1> QED BY <1>1, HSpecCsimInv, InitRecentInv, PTL DEF HSpec

\* Hits, misses and evictions are those of an LRU cache, for every trace and
\* every number of sets, lines and blocks whose masks fit a uint (csim_wide
\* shows a cache whose masks do not, and what it counts).
THEOREM CountsAsLRU ==
  ASSUME param_s + param_b <= UintBits
  PROVE  HSpec => ImplementsLRU
<1>1. HInit => Cache!Init
  BY InitRecentInv
<1>2. CsimInv /\ RecentInv /\ [HNext]_<<vars, used>> => [Cache!Next]_(Cache!vars)
  BY NextRecent
<1> QED BY <1>1, <1>2, HSpecCsimInv, HSpecRecentInv, PTL DEF HSpec, ImplementsLRU, Cache!Spec

\* From head to tail, listMoveNodeToHead and listInsertHead keep the lines of a
\* set in the order of their last use.
THEOREM ListsAreRecency ==
  ASSUME param_s + param_b <= UintBits
  PROVE  HSpec => []ListIsRecency
<1>1. RecentInv => ListIsRecency
  BY DEF RecentInv, Recent, Order, ListIsRecency
<1> QED BY <1>1, HSpecRecentInv, PTL

=============================================================================
