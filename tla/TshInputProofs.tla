--------------------------- MODULE TshInputProofs ---------------------------
(***************************************************************************)
(* From text to commands, for buffers, argument lists and inputs of any     *)
(* size: the types of the variables, that lines which fit are evaluated as  *)
(* typed, that a line of few characters writes outside no array, that the   *)
(* arguments are the words of the line, and that fg and bg take the job     *)
(* their argument names.                                                   *)
(***************************************************************************)
EXTENDS TshInput, JobListProofs, SequenceTheorems, FiniteSetTheorems

-----------------------------------------------------------------------------
(* Least and greatest elements, and elements in order.                     *)

\* A set of integers with a lower bound has a least element, which Min returns.
LEMMA MinOf ==
  ASSUME NEW S, S \subseteq Nat, S # {}
  PROVE  Min(S) \in S /\ \A x \in S : Min(S) <= x
<1>1. \E x \in S : \A y \in S : x <= y
  BY LeastNatural
<1> QED BY <1>1 DEF Min

LEMMA MinIs ==
  ASSUME NEW S, S \subseteq Nat, NEW n \in S, \A x \in S : n <= x
  PROVE  Min(S) = n
<1>1. Min(S) \in S /\ \A x \in S : Min(S) <= x
  BY MinOf
<1>2. Min(S) <= n /\ n <= Min(S) /\ Min(S) \in Nat /\ n \in Nat
  BY <1>1
<1> QED BY <1>2

LEMMA MaxIs ==
  ASSUME NEW S, S \subseteq Nat, NEW n \in S, \A x \in S : x <= n
  PROVE  Max(S) = n
<1>1. \E x \in S : \A y \in S : x >= y
  OBVIOUS
<1>2. Max(S) \in S /\ \A x \in S : Max(S) >= x
  BY <1>1 DEF Max
<1>3. Max(S) >= n /\ n >= Max(S) /\ Max(S) \in Nat /\ n \in Nat
  BY <1>2
<1> QED BY <1>3

Rank(S, n) == Cardinality({m \in S : m <= n})

\* The ranks of the elements of a finite set of numbers are 1, 2, ... in their order.
LEMMA Ranks ==
  ASSUME NEW S, S \subseteq Nat, IsFiniteSet(S)
  PROVE  /\ Cardinality(S) \in Nat
         /\ \A n \in S : Rank(S, n) \in 1 .. Cardinality(S)
         /\ \A m, n \in S : m < n => Rank(S, m) < Rank(S, n)
         /\ \A k \in 1 .. Cardinality(S) : \E n \in S : Rank(S, n) = k
<1> DEFINE Below(n) == {m \in S : m <= n}
<1>1. Cardinality(S) \in Nat
  BY FS_CardinalityType
<1>2. ASSUME NEW n \in S
      PROVE  IsFiniteSet(Below(n)) /\ Rank(S, n) = Cardinality(Below(n))
               /\ Rank(S, n) \in Nat /\ Rank(S, n) <= Cardinality(S)
  <2>1. Below(n) \subseteq S
    OBVIOUS
  <2> QED BY <2>1, FS_Subset, FS_CardinalityType DEF Rank
<1>3. ASSUME NEW n \in S
      PROVE  Rank(S, n) >= 1
  <2>1. n \in Below(n)
    BY n \in Nat
  <2>2. Below(n) # {}
    BY <2>1
  <2> HIDE DEF Below
  <2>3. Cardinality(Below(n)) # 0
    BY <1>2, <2>2, FS_EmptySet
  <2> QED BY <1>2, <2>3
<1>4. ASSUME NEW m \in S, NEW n \in S, m < n
      PROVE  Rank(S, m) < Rank(S, n)
  <2>1. Below(m) \subseteq Below(n) /\ n \in Below(n) /\ n \notin Below(m)
    <3>1. m \in Nat /\ n \in Nat
      OBVIOUS
    <3>2. \A x \in S : x <= m => x <= n
      BY <1>4, <3>1
    <3>3. n <= n /\ ~ (n <= m)
      BY <1>4, <3>1
    <3> QED BY <3>2, <3>3
  <2> HIDE DEF Below
  <2>2. Cardinality(Below(m)) <= Cardinality(Below(n)) /\ Cardinality(Below(m)) # Cardinality(Below(n))
    BY <1>2, <2>1, FS_Subset
  <2> QED BY <1>2, <2>2
<1>5. ASSUME NEW n \in S
      PROVE  Rank(S, n) \in 1 .. Cardinality(S)
  <2>1. Rank(S, n) \in Nat /\ Rank(S, n) >= 1 /\ Rank(S, n) <= Cardinality(S)
    BY <1>2, <1>3
  <2> QED BY <1>1, <2>1
<1> DEFINE f == [n \in S |-> Rank(S, n)]
           R == {f[n] : n \in S}
<1>9. R \subseteq 1 .. Cardinality(S)
  BY <1>5
<1>6. f \in Bijection(S, R)
  <2>1. \A m, n \in S : f[m] = f[n] => m = n
    <3> SUFFICES ASSUME NEW m \in S, NEW n \in S, m # n PROVE f[m] # f[n]
      OBVIOUS
    <3>1. m < n \/ n < m
      OBVIOUS
    <3>2. Rank(S, m) < Rank(S, n) \/ Rank(S, n) < Rank(S, m)
      BY <1>4, <3>1
    <3>3. Rank(S, m) \in Nat /\ Rank(S, n) \in Nat
      BY <1>2
    <3>4. Rank(S, m) # Rank(S, n)
      BY <3>2, <3>3
    <3> QED BY <3>4
  <2>2. f \in [S -> R]
    OBVIOUS
  <2>3. \A y \in R : \E n \in S : f[n] = y
    OBVIOUS
  <2> HIDE DEF f, R
  <2> QED BY <2>1, <2>2, <2>3 DEF Bijection, Injection, Surjection, IsInjective
<1>7. R = 1 .. Cardinality(S)
  <2>1. IsFiniteSet(1 .. Cardinality(S)) /\ Cardinality(1 .. Cardinality(S)) = Cardinality(S)
    BY <1>1, FS_Interval
  <2> HIDE DEF f, R
  <2>2. ExistsBijection(S, R)
    BY <1>6 DEF ExistsBijection
  <2>3. IsFiniteSet(R) /\ Cardinality(R) = Cardinality(S)
    BY <2>2, FS_Bijection
  <2> QED BY <1>9, <2>1, <2>3, FS_Subset
<1>8. ASSUME NEW k \in 1 .. Cardinality(S)
      PROVE  \E n \in S : Rank(S, n) = k
  BY <1>7
<1> QED BY <1>1, <1>4, <1>5, <1>8

\* Between two neighbours in this order there is none, and none before the first or
\* behind the last.
LEMMA Neighbours ==
  ASSUME NEW S, S \subseteq Nat, IsFiniteSet(S), NEW e, e = InOrder(S), NEW n, n = Cardinality(S)
  PROVE  /\ n \in Nat /\ e \in [1 .. n -> S] /\ (S # {} => n # 0)
         /\ \A k \in 1 .. n - 1 : e[k] < e[k + 1] /\ \A x \in S : e[k] < x => e[k + 1] <= x
         /\ \A x \in S : e[1] <= x /\ x <= e[n]
<1>1. /\ n \in Nat /\ e \in [1 .. n -> S]
      /\ \A j, k \in 1 .. n : j < k => e[j] < e[k]
      /\ \A x \in S : \E k \in 1 .. n : e[k] = x
  <2>1. /\ Cardinality(S) \in Nat
        /\ \A x \in S : Rank(S, x) \in 1 .. Cardinality(S)
        /\ \A x, y \in S : x < y => Rank(S, x) < Rank(S, y)
        /\ \A k \in 1 .. Cardinality(S) : \E x \in S : Rank(S, x) = k
    BY Ranks
  <2>2. e = [k \in 1 .. Cardinality(S) |-> CHOOSE x \in S : Rank(S, x) = k]
    BY DEF InOrder, Rank
  <2>3. \A k \in 1 .. Cardinality(S) : e[k] \in S /\ Rank(S, e[k]) = k
    BY <2>1, <2>2
  <2>4. e \in [1 .. Cardinality(S) -> S]
    BY <2>2, <2>3
  <2>5. \A x, y \in S : Rank(S, x) = Rank(S, y) => x = y
    <3> SUFFICES ASSUME NEW x \in S, NEW y \in S, x # y PROVE Rank(S, x) # Rank(S, y)
      OBVIOUS
    <3>1. x \in Nat /\ y \in Nat
      OBVIOUS
    <3>2. x < y \/ y < x
      BY <3>1
    <3>3. Rank(S, x) \in Nat /\ Rank(S, y) \in Nat
      BY <2>1
    <3> QED BY <2>1, <3>2, <3>3
  <2>6. ASSUME NEW j \in 1 .. Cardinality(S), NEW k \in 1 .. Cardinality(S), j < k
        PROVE  e[j] < e[k]
    <3>1. PICK x, y : x = e[j] /\ y = e[k]
      OBVIOUS
    <3>2. x \in S /\ y \in S /\ Rank(S, x) = j /\ Rank(S, y) = k
      BY <2>3, <3>1
    <3>3. x \in Nat /\ y \in Nat
      BY <3>2
    <3>4. x # y /\ ~ (y < x)
      BY <2>1, <2>6, <3>2, <3>3
    <3> QED BY <3>1, <3>3, <3>4
  <2>7. \A x \in S : e[Rank(S, x)] = x
    BY <2>1, <2>3, <2>5
  <2> QED BY <2>1, <2>4, <2>6, <2>7
<1>2. ASSUME NEW k \in 1 .. n - 1
      PROVE  e[k] < e[k + 1] /\ \A x \in S : e[k] < x => e[k + 1] <= x
  <2>1. k \in 1 .. n /\ k + 1 \in 1 .. n /\ k < k + 1
    BY <1>1
  <2>2. e[k] < e[k + 1]
    BY <1>1, <2>1
  <2>3. ASSUME NEW x \in S, e[k] < x
        PROVE  e[k + 1] <= x
    <3>1. PICK j \in 1 .. n : e[j] = x
      BY <1>1
    <3>2. e[k] \in Nat /\ e[k + 1] \in Nat /\ x \in Nat
      BY <1>1, <2>1
    <3>3. ~ (j < k) /\ j # k
      BY <1>1, <2>1, <2>3, <3>1, <3>2
    <3>4. j = k + 1 \/ k + 1 < j
      BY <1>1, <2>1, <3>3
    <3> QED BY <1>1, <2>1, <3>1, <3>2, <3>4
  <2> QED BY <2>2, <2>3
<1>3. ASSUME NEW x \in S
      PROVE  n # 0 /\ e[1] <= x /\ x <= e[n]
  <2>1. PICK j \in 1 .. n : e[j] = x
    BY <1>1
  <2>2. n \in 1 .. n /\ 1 \in 1 .. n /\ (j = n \/ j < n) /\ (j = 1 \/ 1 < j)
    BY <1>1, <2>1
  <2>3. x \in Nat /\ e[n] \in Nat /\ e[1] \in Nat
    BY <1>1, <2>2
  <2> QED BY <1>1, <2>1, <2>2, <2>3
<1> QED BY <1>1, <1>2, <1>3

-----------------------------------------------------------------------------
(* The loop of parseline.                                                  *)

\* Induction as a statement about a set.
LEMMA CountUp ==
  ASSUME NEW S, 0 \in S, \A n \in Nat : n \in S => n + 1 \in S
  PROVE  Nat \subseteq S
<1> DEFINE T == {n \in Nat : n \notin S}
<1> SUFFICES ASSUME T # {} PROVE FALSE
  OBVIOUS
<1>0. T \subseteq Nat
  OBVIOUS
<1>1. PICK n \in T : \A k \in T : n <= k
  <2> HIDE DEF T
  <2> QED BY <1>0, LeastNatural
<1>2. n - 1 \in Nat /\ n = (n - 1) + 1
  BY <1>1
<1>3. n - 1 \in T
  BY <1>1, <1>2
<1> QED BY <1>1, <1>2, <1>3

\* A blank is a string like any other, but no prover looks into one.
Char == STRING \cup {Blank}

Text == Seq(Char)

\* Skip finds the first character that is no blank.
LEMMA SkipIs ==
  ASSUME NEW buf \in Text, NEW k \in 1 .. Len(buf) + 1, NEW n, n = Skip(buf, k)
  PROVE  /\ n \in k .. Len(buf) + 1
         /\ \A j \in k .. n - 1 : buf[j] = Blank
         /\ n <= Len(buf) => buf[n] # Blank
<1> DEFINE S == {Len(buf) + 1} \cup {j \in k .. Len(buf) : buf[j] # Blank}
<1>0. Len(buf) \in Nat /\ k \in Nat
  BY DEF Text
<1>1. S \subseteq Nat /\ S # {}
  BY <1>0
<1>2. n = Min(S)
  BY DEF Skip
<1>3. n \in S /\ \A x \in S : n <= x
  <2> HIDE DEF S
  <2> QED BY <1>1, <1>2, MinOf
<1>4. n \in k .. Len(buf) + 1 /\ (n <= Len(buf) => buf[n] # Blank)
  BY <1>0, <1>3
<1>5. ASSUME NEW j \in k .. n - 1
      PROVE  buf[j] = Blank
  <2>1. j \in k .. Len(buf) /\ ~ (n <= j)
    BY <1>0, <1>4
  <2> QED BY <1>3, <2>1
<1> QED BY <1>4, <1>5

\* Nothing else has what Skip has.
LEMMA SkipsTo ==
  ASSUME NEW buf \in Text, NEW k \in 1 .. Len(buf) + 1, NEW n \in k .. Len(buf) + 1,
         \A j \in k .. n - 1 : buf[j] = Blank,
         n <= Len(buf) => buf[n] # Blank
  PROVE  Skip(buf, k) = n
<1>0. Len(buf) \in Nat /\ k \in Nat /\ n \in Nat
  BY DEF Text
<1>1. PICK m : m = Skip(buf, k)
  OBVIOUS
<1>2. /\ m \in k .. Len(buf) + 1 /\ \A j \in k .. m - 1 : buf[j] = Blank
      /\ m <= Len(buf) => buf[m] # Blank
  BY <1>1, SkipIs
<1>3. ~ (m < n)
  BY <1>0, <1>2
<1>4. ~ (n < m)
  BY <1>0, <1>2
<1> QED BY <1>0, <1>1, <1>2, <1>3, <1>4

\* strchr finds the first c.
LEMMA StrchrIs ==
  ASSUME NEW buf \in Text, NEW k \in Nat \ {0}, NEW c, NEW d, d = strchr(buf, k, c)
  PROVE  \/ (d = 0 /\ \A j \in k .. Len(buf) : buf[j] # c)
         \/ (d \in k .. Len(buf) /\ buf[d] = c /\ \A j \in k .. d - 1 : buf[j] # c)
<1> DEFINE S == {j \in k .. Len(buf) : buf[j] = c}
<1>0. Len(buf) \in Nat
  BY DEF Text
<1>1. S \subseteq Nat
  OBVIOUS
<1>2. d = IF S = {} THEN 0 ELSE Min(S)
  BY DEF strchr
<1>3. CASE S = {}
  BY <1>2, <1>3
<1>4. CASE S # {}
  <2>1. d \in S /\ \A x \in S : d <= x
    <3> HIDE DEF S
    <3> QED BY <1>1, <1>2, <1>4, MinOf
  <2>2. d \in k .. Len(buf) /\ buf[d] = c
    BY <2>1
  <2>3. ASSUME NEW j \in k .. d - 1
        PROVE  buf[j] # c
    <3>1. j \in k .. Len(buf) /\ ~ (d <= j)
      BY <1>0, <2>2
    <3> QED BY <2>1, <3>1
  <2> QED BY <2>2, <2>3
<1> QED BY <1>3, <1>4

LEMMA StrchrTo ==
  ASSUME NEW buf \in Text, NEW k \in Nat \ {0}, NEW c, NEW n \in k .. Len(buf), buf[n] = c,
         \A j \in k .. n - 1 : buf[j] # c
  PROVE  strchr(buf, k, c) = n
<1>0. Len(buf) \in Nat
  BY DEF Text
<1>1. PICK d : d = strchr(buf, k, c)
  OBVIOUS
<1>2. \/ (d = 0 /\ \A j \in k .. Len(buf) : buf[j] # c)
      \/ (d \in k .. Len(buf) /\ buf[d] = c /\ \A j \in k .. d - 1 : buf[j] # c)
  BY <1>1, StrchrIs
<1>3. d \in k .. Len(buf) /\ buf[d] = c /\ \A j \in k .. d - 1 : buf[j] # c
  BY <1>2
<1>4. ~ (d < n) /\ ~ (n < d)
  BY <1>0, <1>3
<1> QED BY <1>0, <1>1, <1>3, <1>4

\* One turn of the loop from position k on: whether the argument is quoted, where
\* it starts, and where it ends.
Quoted(buf, k) == Skip(buf, k) <= Len(buf) /\ buf[Skip(buf, k)] = Quote
Begin(buf, k) == IF Quoted(buf, k) THEN Skip(buf, k) + 1 ELSE Skip(buf, k)
Delim(buf, k) == strchr(buf, Begin(buf, k), IF Quoted(buf, k) THEN Quote ELSE Blank)

\* f has the arguments from each position on.
Turn(f, buf, k) ==
  IF Delim(buf, k) = 0 THEN <<>>
  ELSE << SubSeq(buf, Begin(buf, k), Delim(buf, k) - 1) >> \o f[Delim(buf, k) + 1]

Splits(f, buf) ==
  /\ f \in [1 .. Len(buf) + 1 -> Seq(Text)]
  /\ \A k \in 1 .. Len(buf) + 1 : f[k] = Turn(f, buf, k)

\* A turn gets ahead by two characters at least.
LEMMA DelimIs ==
  ASSUME NEW buf \in Text, NEW k \in 1 .. Len(buf) + 1, NEW d, d = Delim(buf, k)
  PROVE  \/ d = 0
         \/ d \in k + 1 .. Len(buf) /\ Begin(buf, k) \in k .. d
<1>0. Len(buf) \in Nat /\ k \in Nat
  BY DEF Text
<1>1. PICK n, b, c : /\ n = Skip(buf, k) /\ b = Begin(buf, k)
                     /\ c = IF Quoted(buf, k) THEN Quote ELSE Blank
  OBVIOUS
<1>2. n \in k .. Len(buf) + 1 /\ (n <= Len(buf) => buf[n] # Blank)
  BY <1>1, SkipIs
<1>3. b \in Nat \ {0} /\ b >= k /\ (b = n + 1 \/ (b = n /\ c = Blank))
  BY <1>0, <1>1, <1>2 DEF Begin
<1>4. d = strchr(buf, b, c)
  BY <1>1 DEF Delim
<1>5. d = 0 \/ (d \in b .. Len(buf) /\ buf[d] = c)
  BY <1>3, <1>4, StrchrIs
<1>6. ASSUME d \in b .. Len(buf), buf[d] = c
      PROVE  d \in k + 1 .. Len(buf) /\ b \in k .. d
  <2>1. CASE b = n + 1
    BY <1>0, <1>2, <1>3, <1>6, <2>1
  <2>2. CASE b = n /\ c = Blank
    <3>1. d # n
      BY <1>0, <1>2, <1>3, <1>6, <2>2
    <3> QED BY <1>0, <1>2, <1>3, <1>6, <2>2, <3>1
  <2> QED BY <1>3, <2>1, <2>2
<1> QED BY <1>1, <1>5, <1>6

LEMMA SubText ==
  ASSUME NEW buf \in Text, NEW m \in 1 .. Len(buf) + 1, NEW n \in 0 .. Len(buf)
  PROVE  SubSeq(buf, m, n) \in Text
<1>1. SubSeq(buf, m, n) \in Seq(Char)
  BY SubSeqProperties DEF Text
<1> QED BY <1>1 DEF Text

\* The arguments from each position on exist ...
LEMMA SplitsExist ==
  ASSUME NEW buf \in Text
  PROVE  \E f : Splits(f, buf)
<1> DEFINE L == Len(buf)
           Up(f, n) == /\ f \in [L + 2 - n .. L + 1 -> Seq(Text)]
                       /\ \A k \in L + 2 - n .. L + 1 : f[k] = Turn(f, buf, k)
           S == {n \in Nat : n <= L + 1 => \E f : Up(f, n)}
<1>0. L \in Nat
  BY DEF Text
<1> HIDE DEF L
<1>1. 0 \in S
  <2>1. L + 2 - 0 .. L + 1 = {}
    BY <1>0
  <2>2. Up([k \in {} |-> <<>>], 0)
    BY <2>1
  <2> HIDE DEF Up
  <2> QED BY <2>2
<1>2. ASSUME NEW n \in Nat, n \in S
      PROVE  n + 1 \in S
  <2> SUFFICES ASSUME n + 1 <= L + 1 PROVE \E f : Up(f, n + 1)
    <3> HIDE DEF Up
    <3> QED OBVIOUS
  <2>1. PICK f : Up(f, n)
    <3> HIDE DEF Up
    <3> QED BY <1>0, <1>2
  <2>2. PICK m : m = L + 1 - n
    OBVIOUS
  <2>3. /\ m \in 1 .. L + 1 /\ L + 2 - n = m + 1 /\ L + 2 - (n + 1) = m
        /\ m + 1 .. L + 1 = (m .. L + 1) \ {m}
    BY <1>0, <2>2
  <2>4. /\ f \in [m + 1 .. L + 1 -> Seq(Text)]
        /\ \A k \in m + 1 .. L + 1 : f[k] = Turn(f, buf, k)
    BY <2>1, <2>3
  <2>5. ASSUME NEW k \in m .. L + 1
        PROVE  Delim(buf, k) = 0 \/ (/\ Delim(buf, k) + 1 \in m + 1 .. L + 1
                                     /\ Delim(buf, k) \in k + 1 .. L
                                     /\ Begin(buf, k) \in k .. Delim(buf, k))
    <3>1. k \in 1 .. Len(buf) + 1
      BY <1>0, <2>3 DEF L
    <3>2. PICK d : d = Delim(buf, k)
      OBVIOUS
    <3>3. d = 0 \/ (d \in k + 1 .. Len(buf) /\ Begin(buf, k) \in k .. d)
      BY <3>1, <3>2, DelimIs
    <3>4. d = 0 \/ (d \in k + 1 .. L /\ Begin(buf, k) \in k .. d)
      BY <3>3 DEF L
    <3> QED BY <1>0, <2>3, <3>2, <3>4
  <2>6. ASSUME NEW k \in m .. L + 1
        PROVE  Turn(f, buf, k) \in Seq(Text)
    <3>1. CASE Delim(buf, k) = 0
      BY <3>1 DEF Turn
    <3>2. CASE Delim(buf, k) # 0
      <4>1. PICK d, b : d = Delim(buf, k) /\ b = Begin(buf, k)
        OBVIOUS
      <4>2. d + 1 \in m + 1 .. L + 1 /\ b \in 1 .. L + 1 /\ d - 1 \in 0 .. L
        BY <1>0, <2>3, <2>5, <3>2, <4>1
      <4>3. SubSeq(buf, b, d - 1) \in Text
        BY <4>2, SubText DEF L
      <4>4. f[d + 1] \in Seq(Text)
        BY <2>4, <4>2
      <4>5. PICK w : w = SubSeq(buf, b, d - 1)
        OBVIOUS
      <4>6. << w >> \in Seq(Text)
        BY <4>3, <4>5
      <4>7. << w >> \o f[d + 1] \in Seq(Text)
        BY <4>4, <4>6, ConcatProperties
      <4> QED BY <3>2, <4>1, <4>5, <4>7 DEF Turn
    <3> QED BY <3>1, <3>2
  <2> DEFINE g == [k \in m .. L + 1 |-> IF k = m THEN Turn(f, buf, k) ELSE f[k]]
  <2>7. g \in [m .. L + 1 -> Seq(Text)]
    <3>1. \A k \in m .. L + 1 : k # m => k \in m + 1 .. L + 1
      BY <2>3
    <3> QED BY <2>4, <2>6, <3>1
  <2>8. ASSUME NEW k \in m .. L + 1
        PROVE  g[k] = Turn(g, buf, k)
    <3>1. g[k] = Turn(f, buf, k)
      <4>1. CASE k = m
        BY <4>1
      <4>2. CASE k # m
        BY <2>3, <2>4, <4>2
      <4> QED BY <4>1, <4>2
    <3>2. Delim(buf, k) # 0 => g[Delim(buf, k) + 1] = f[Delim(buf, k) + 1]
      BY <2>3, <2>5
    <3> HIDE DEF g
    <3> QED BY <3>1, <3>2 DEF Turn
  <2>9. Up(g, n + 1)
    <3> HIDE DEF g
    <3> QED BY <2>3, <2>7, <2>8
  <2> HIDE DEF Up, g
  <2> QED BY <2>9
<1> HIDE DEF S
<1>3. L + 1 \in S
  BY <1>0, <1>1, <1>2, CountUp
<1>4. PICK f : Up(f, L + 1)
  BY <1>0, <1>3 DEF S
<1>5. L + 2 - (L + 1) = 1
  BY <1>0
<1> QED BY <1>4, <1>5 DEF L, Splits

\* ... and Words returns those from the first.
LEMMA WordsAre ==
  ASSUME NEW buf \in Text, NEW f, Splits(f, buf)
  PROVE  Words(buf) = f[1]
<1> DEFINE Def(g) == g = [k \in 1 .. Len(buf) + 1 |-> Turn(g, buf, k)]
           from == CHOOSE g : Def(g)
<1>0. Len(buf) \in Nat
  BY DEF Text
<1>1. Words(buf) = from[1]
  BY DEF Words, Turn, Delim, Begin, Quoted
<1>2. Def(f)
  <2>1. f = [k \in 1 .. Len(buf) + 1 |-> f[k]]
    BY DEF Splits
  <2> QED BY <2>1 DEF Splits
<1>3. Def(from)
  <2> HIDE DEF Def
  <2> QED BY <1>2
<1>4. \A k \in 1 .. Len(buf) + 1 : from[k] = Turn(from, buf, k)
  <2> HIDE DEF from
  <2> QED BY <1>3
<1> HIDE DEF from, Def
<1> DEFINE S == {n \in Nat : \A k \in 1 .. Len(buf) + 1 : Len(buf) + 1 - k < n => from[k] = f[k]}
<1>5. 0 \in S
  BY <1>0
<1>6. ASSUME NEW n \in Nat, n \in S
      PROVE  n + 1 \in S
  <2> SUFFICES ASSUME NEW k \in 1 .. Len(buf) + 1, Len(buf) + 1 - k < n + 1
               PROVE  from[k] = f[k]
    OBVIOUS
  <2>1. PICK d : d = Delim(buf, k)
    OBVIOUS
  <2>2. d = 0 \/ d \in k + 1 .. Len(buf)
    BY <2>1, DelimIs
  <2>3. ASSUME d # 0
        PROVE  from[d + 1] = f[d + 1]
    <3>1. d + 1 \in 1 .. Len(buf) + 1 /\ Len(buf) + 1 - (d + 1) < n
      BY <1>0, <2>2, <2>3
    <3> QED BY <1>6, <3>1
  <2>4. Turn(from, buf, k) = Turn(f, buf, k)
    BY <2>1, <2>3 DEF Turn
  <2> QED BY <1>4, <2>4 DEF Splits
<1> HIDE DEF S
<1>7. Len(buf) + 2 \in S
  BY <1>0, <1>5, <1>6, CountUp
<1>8. from[1] = f[1]
  BY <1>0, <1>7 DEF S
<1> QED BY <1>1, <1>8

\* An argument takes two characters.
LEMMA FewWords ==
  ASSUME NEW buf \in Text
  PROVE  Words(buf) \in Seq(Text) /\ 2 * Len(Words(buf)) <= Len(buf)
<1>0. Len(buf) \in Nat
  BY DEF Text
<1>1. PICK f : Splits(f, buf)
  BY SplitsExist
<1>2. \A k \in 1 .. Len(buf) + 1 : f[k] \in Seq(Text) /\ Len(f[k]) \in Nat
  BY <1>1 DEF Splits
<1> DEFINE S == {n \in Nat : \A k \in 1 .. Len(buf) + 1 :
                   Len(buf) + 1 - k < n => 2 * Len(f[k]) <= Len(buf) + 1 - k}
<1>5. 0 \in S
  BY <1>0
<1>6. ASSUME NEW n \in Nat, n \in S
      PROVE  n + 1 \in S
  <2> SUFFICES ASSUME NEW k \in 1 .. Len(buf) + 1, Len(buf) + 1 - k < n + 1
               PROVE  2 * Len(f[k]) <= Len(buf) + 1 - k
    OBVIOUS
  <2>1. PICK d : d = Delim(buf, k)
    OBVIOUS
  <2>2. d = 0 \/ d \in k + 1 .. Len(buf)
    BY <2>1, DelimIs
  <2>3. CASE d = 0
    <3>1. f[k] = <<>>
      BY <1>1, <2>1, <2>3 DEF Splits, Turn
    <3>2. Len(f[k]) = 0
      BY <3>1
    <3> QED BY <1>0, <3>2
  <2>4. CASE d # 0
    <3>1. d + 1 \in 1 .. Len(buf) + 1 /\ Len(buf) + 1 - (d + 1) < n
      BY <1>0, <2>2, <2>4
    <3>2. 2 * Len(f[d + 1]) <= Len(buf) + 1 - (d + 1)
      BY <1>6, <3>1
    <3>3. PICK w, t : w = SubSeq(buf, Begin(buf, k), d - 1) /\ t = f[d + 1]
      OBVIOUS
    <3>4. f[k] = << w >> \o t
      BY <1>1, <2>1, <2>4, <3>3 DEF Splits, Turn
    <3>5. t \in Seq(Text) /\ Len(t) \in Nat
      BY <1>2, <3>1, <3>3
    <3>6. Len(<< w >> \o t) = 1 + Len(t)
      BY <3>5
    <3>7. PICK a : a = Len(t)
      OBVIOUS
    <3>8. Len(f[k]) = 1 + a /\ a \in Nat /\ 2 * a <= Len(buf) + 1 - (d + 1)
      BY <3>2, <3>3, <3>4, <3>5, <3>6, <3>7
    <3> QED BY <1>0, <2>2, <2>4, <3>8
  <2> QED BY <2>3, <2>4
<1> HIDE DEF S
<1>7. Len(buf) + 2 \in S
  BY <1>0, <1>5, <1>6, CountUp
<1>8. 2 * Len(f[1]) <= Len(buf)
  BY <1>0, <1>7 DEF S
<1>9. 1 \in 1 .. Len(buf) + 1
  BY <1>0
<1> QED BY <1>1, <1>2, <1>8, <1>9, WordsAre

\* The copy is as long as the string before its NUL, and ends with a blank.
LEMMA CStringIs ==
  ASSUME NEW s \in Text
  PROVE  /\ CString(s) \in Text /\ Len(CString(s)) <= Len(s)
         /\ CString(s) = <<>> => s = <<>> \/ s[1] = NUL
<1> DEFINE S == {Len(s) + 1} \cup {k \in DOMAIN s : s[k] = NUL}
<1>0. Len(s) \in Nat /\ DOMAIN s = 1 .. Len(s)
  BY DEF Text
<1>1. S \subseteq Nat /\ S # {} /\ S \subseteq 1 .. Len(s) + 1
  BY <1>0
<1>2. PICK n : n = Min(S)
  OBVIOUS
<1>3. n \in S
  <2> HIDE DEF S
  <2> QED BY <1>1, <1>2, MinOf
<1>4. n \in 1 .. Len(s) + 1 /\ n - 1 \in 0 .. Len(s)
  BY <1>0, <1>1, <1>3
<1>5. CString(s) = SubSeq(s, 1, n - 1)
  BY <1>2 DEF CString
<1>6. CString(s) \in Text
  BY <1>0, <1>4, <1>5, SubText
<1>7. Len(CString(s)) = n - 1
  BY <1>0, <1>4, <1>5, SubSeqProperties DEF Text
<1>8. ASSUME CString(s) = <<>>, s # <<>>
      PROVE  s[1] = NUL
  <2>1. n = 1
    BY <1>4, <1>7, <1>8
  <2>2. Len(s) # 0
    BY <1>8 DEF Text
  <2> QED BY <1>0, <1>3, <2>1, <2>2
<1> QED BY <1>0, <1>4, <1>6, <1>7, <1>8

LEMMA CopyIs ==
  ASSUME NEW s \in Text, CString(s) # <<>>
  PROVE  Copy(s) \in Text /\ Len(Copy(s)) = Len(CString(s))
<1>1. PICK t : t = CString(s)
  OBVIOUS
<1>2. t \in Text /\ Len(t) \in Nat /\ Len(t) # 0
  BY <1>1, CStringIs DEF Text
<1>3. PICK u : u = SubSeq(t, 1, Len(t) - 1)
  OBVIOUS
<1>4. u \in Seq(Char) /\ Len(u) = Len(t) - 1
  <2>1. 1 \in 1 .. Len(t) + 1 /\ Len(t) - 1 \in 0 .. Len(t)
    BY <1>2
  <2>2. u \in Text
    BY <1>2, <1>3, <2>1, SubText
  <2>3. \A j \in 1 .. Len(t) - 1 : t[j] \in Char
    BY <1>2 DEF Text
  <2>4. Len(u) = Len(t) - 1
    <3>1. PICK n : n = Len(t) - 1
      OBVIOUS
    <3>2. n \in Int /\ n >= 0 /\ u = SubSeq(t, 1, n)
      BY <1>2, <1>3, <3>1
    <3>3. Len(u) = IF 1 <= n THEN n - 1 + 1 ELSE 0
      BY <2>3, <3>1, <3>2, SubSeqProperties
    <3> QED BY <3>1, <3>2, <3>3
  <2> QED BY <2>2, <2>4 DEF Text
<1>5. Blank \in Char
  BY DEF Char
<1>6. Append(u, Blank) \in Seq(Char) /\ Len(Append(u, Blank)) = Len(u) + 1
  BY <1>4, <1>5, AppendProperties
<1>7. Copy(s) = Append(u, Blank)
  BY <1>1, <1>3 DEF Copy, Front
<1> QED BY <1>1, <1>2, <1>4, <1>6, <1>7 DEF Text

\* A line that overruns an array is empty before its NUL, or long.
LEMMA OverrunsAre ==
  ASSUME NEW s \in Text, s # <<>>, Overruns(s)
  PROVE  Len(s) >= 2 * MAXARGS \/ Head(s) = NUL
<1>0. Len(s) \in Nat /\ MAXARGS \in Nat
  BY InputAssumption DEF Text
<1>1. CASE CString(s) = <<>>
  <2>1. s[1] = NUL
    BY <1>1, CStringIs
  <2>2. Head(s) = s[1]
    BY HeadTailProperties DEF Text
  <2> QED BY <2>1, <2>2
<1>2. CASE CString(s) # <<>>
  <2>1. PICK buf : buf = Copy(s)
    OBVIOUS
  <2>2. buf \in Text /\ Len(buf) <= Len(s) /\ Len(buf) \in Nat
    BY <1>2, <2>1, CopyIs, CStringIs DEF Text
  <2>3. Words(buf) \in Seq(Text) /\ 2 * Len(Words(buf)) <= Len(buf)
    BY <2>2, FewWords
  <2>4. Len(Words(buf)) >= MAXARGS
    BY <1>2, <2>1 DEF Overruns
  <2>5. Len(Words(buf)) \in Nat
    BY <2>3
  <2> QED BY <1>0, <2>2, <2>3, <2>4, <2>5
<1> QED BY <1>1, <1>2

-----------------------------------------------------------------------------
(* What fgets reads.                                                       *)

\* The input from position k on.
Upto(k) == SubSeq(input, k + 1, Len(input))

\* fgets returns the beginning of the text, as much as the buffer holds at most,
\* and something as long as there is any.
LEMMA FgetsIs ==
  ASSUME NEW text \in Text
  PROVE  \E n \in 0 .. Len(text) :
           /\ fgets(text) = SubSeq(text, 1, n) /\ n <= MAXLINE - 1
           /\ text # <<>> => n # 0
           /\ fgets(text) \in Text /\ Len(fgets(text)) = n
<1> DEFINE S == {Len(text), MAXLINE - 1} \cup {k \in DOMAIN text : text[k] = Newline}
<1>0. Len(text) \in Nat /\ DOMAIN text = 1 .. Len(text) /\ MAXLINE - 1 \in Nat \ {0}
  BY InputAssumption DEF Text
<1>1. S \subseteq Nat /\ S # {}
  BY <1>0
<1>2. PICK n : n = Min(S)
  OBVIOUS
<1>3. n \in S /\ \A x \in S : n <= x
  <2> HIDE DEF S
  <2> QED BY <1>1, <1>2, MinOf
<1>4. n \in 0 .. Len(text) /\ n <= MAXLINE - 1
  BY <1>0, <1>3
<1>5. text # <<>> => n # 0
  <2> HIDE DEF S
  <2> SUFFICES ASSUME text # <<>> PROVE n # 0
    OBVIOUS
  <2>1. Len(text) # 0
    BY DEF Text
  <2>2. n = Len(text) \/ n = MAXLINE - 1 \/ n \in 1 .. Len(text)
    BY <1>0, <1>3 DEF S
  <2>3. 0 \notin 1 .. Len(text) /\ MAXLINE - 1 # 0
    BY <1>0
  <2> QED BY <2>1, <2>2, <2>3
<1>6. fgets(text) = SubSeq(text, 1, n)
  BY <1>2 DEF fgets
<1>7. fgets(text) \in Text
  BY <1>0, <1>4, <1>6, SubText
<1>8. Len(fgets(text)) = n
  BY <1>0, <1>4, <1>6, SubSeqProperties DEF Text
<1> QED BY <1>4, <1>5, <1>6, <1>7, <1>8

\* What is left after n more characters of the input.
LEMMA UptoIs ==
  ASSUME NEW k \in 0 .. Len(input), input \in Text
  PROVE  /\ Upto(k) \in Text /\ Len(Upto(k)) = Len(input) - k
         /\ \A j \in 1 .. Len(input) - k : Upto(k)[j] = input[k + j]
         /\ \A n \in 0 .. Len(input) - k :
              /\ SubSeq(Upto(k), n + 1, Len(Upto(k))) = Upto(k + n)
              /\ SubSeq(Upto(k), 1, n) = SubSeq(input, k + 1, k + n)
<1>0. Len(input) \in Nat
  BY DEF Text
<1>1. PICK u : u = Upto(k)
  OBVIOUS
<1>2. u \in Text
  BY <1>0, <1>1, SubText DEF Upto
<1>3. Len(u) = Len(input) - k /\ \A j \in 1 .. Len(input) - k : u[j] = input[k + j]
  BY <1>0, <1>1, SubSeqProperties DEF Upto, Text
<1>4. ASSUME NEW n \in 0 .. Len(input) - k
      PROVE  SubSeq(u, n + 1, Len(u)) = Upto(k + n)
  <2>1. SubSeq(u, n + 1, Len(u)) = [j \in 1 .. Len(u) - n |-> u[n + j]]
    BY <1>0, <1>2, <1>3, SubSeqProperties DEF Text
  <2>2. Upto(k + n) = [j \in 1 .. Len(input) - (k + n) |-> input[k + n + j]]
    BY <1>0, SubSeqProperties DEF Upto, Text
  <2>3. Len(u) - n = Len(input) - (k + n)
    BY <1>0, <1>3
  <2>4. ASSUME NEW j \in 1 .. Len(u) - n
        PROVE  u[n + j] = input[k + n + j]
    <3>1. n + j \in 1 .. Len(input) - k /\ k + (n + j) = k + n + j
      BY <1>0, <1>3
    <3> QED BY <1>3, <3>1
  <2> QED BY <2>1, <2>2, <2>3, <2>4
<1>5. ASSUME NEW n \in 0 .. Len(input) - k
      PROVE  SubSeq(u, 1, n) = SubSeq(input, k + 1, k + n)
  <2>1. SubSeq(u, 1, n) = [j \in 1 .. n |-> u[j]]
    BY <1>0, <1>2, <1>3, SubSeqProperties DEF Text
  <2>2. SubSeq(input, k + 1, k + n) = [j \in 1 .. n |-> input[k + j]]
    BY <1>0, SubSeqProperties DEF Text
  <2> QED BY <1>0, <1>3, <2>1, <2>2
<1> QED BY <1>1, <1>2, <1>3, <1>4, <1>5

-----------------------------------------------------------------------------
(* The types, and the lines that are safe.                                 *)

\* Every job listed has an ID, and no other has its pid.
JobsTold ==
  /\ \A i \in Slots : jobs[i].pid # NoPid => jobs[i].jid >= 1
  /\ \A i, k \in Slots : jobs[i].pid = jobs[k].pid => i = k \/ jobs[i].pid = NoPid

\* A step that changes neither the pid nor the ID of a slot keeps that.
LEMMA ToldKept ==
  ASSUME JobsTold, \A i \in Slots : jobs'[i].pid = jobs[i].pid /\ jobs'[i].jid = jobs[i].jid
  PROVE  JobsTold'
  BY DEF JobsTold

\* The job list: a free slot is cleared, a job has an ID and a pid of its own, and
\* main waits for a job or for none.
JobsInv ==
  /\ jobs \in [Slots -> Job] /\ nextjid \in Nat \ {0}
  /\ \A i \in Slots : jobs[i].pid = NoPid => jobs[i] = clearjob
  /\ JobsTold
  /\ cur \in Pids \cup {NoPid}
  /\ (at = "wait") <=> (cur # NoPid)

\* The buffer: what is still to be read is the end of the input, and main evaluates
\* no line that is empty.
LineInv ==
  /\ at \in Place /\ input \in Inputs
  /\ \E k \in 0 .. Len(input) : rest = Upto(k)
  /\ line \in Text /\ Len(line) <= MAXLINE - 1
  /\ at = "eval" => line # <<>>
  /\ ShortLinesAreSafe

InputInv == JobsInv /\ LineInv

LEMMA InputIsText == LineInv => input \in Text /\ Len(input) \in Nat
<1> SUFFICES ASSUME LineInv PROVE input \in Text
  BY DEF Text
<1>1. input \in Seq(STRING)
  BY InputAssumption DEF LineInv
<1>2. Seq(STRING) \subseteq Seq(Char)
  BY SeqMonotonic DEF Char
<1> QED BY <1>1, <1>2 DEF Text

LEMMA InitInput == Init => InputInv
<1> SUFFICES ASSUME Init PROVE InputInv
  OBVIOUS
<1>1. input \in Seq(STRING)
  BY InputAssumption DEF Init
<1>2. input \in Text /\ Len(input) \in Nat
  BY <1>1, SeqMonotonic DEF Text, Char
<1>3. Upto(0) = input
  <2>1. Upto(0) \in Seq(Char) /\ Len(Upto(0)) = Len(input)
          /\ \A j \in 1 .. Len(input) : Upto(0)[j] = input[j]
    BY <1>2, UptoIs DEF Text
  <2> QED BY <1>2, <2>1, SeqEqual DEF Text
<1>4. /\ jobs \in [Slots -> Job] /\ nextjid \in Nat \ {0}
      /\ \A i \in Slots : jobs[i].pid = NoPid => jobs[i] = clearjob
      /\ JobsTold
  BY InputAssumption DEF Init, JobsTold
<1>5. JobsInv
  BY <1>4 DEF JobsInv, Init
<1>6. line = <<>> /\ line \in Text /\ Len(line) = 0
  BY DEF Init, Text
<1>7. MAXLINE - 1 >= 0
  BY InputAssumption
<1>8. 0 \in 0 .. Len(input) /\ rest = Upto(0)
  BY <1>2, <1>3 DEF Init
<1>9. at = "options" /\ at \in Place /\ input \in Inputs
  BY DEF Init, Place
<1>10. LineInv
  BY <1>6, <1>7, <1>8, <1>9 DEF LineInv, ShortLinesAreSafe
<1> QED BY <1>5, <1>10 DEF InputInv

\* The steps that leave the job list alone.
LEMMA JobsKept ==
  ASSUME JobsInv, UNCHANGED listVars, at # "wait", at' # "wait"
  PROVE  JobsInv'
  BY DEF JobsInv, JobsTold, listVars

\* do_bgfg continues a job that is listed.
LEMMA DoBgfgJobs == JobsInv /\ DoBgfg => JobsInv'
<1> SUFFICES ASSUME JobsInv, DoBgfg PROVE JobsInv'
  OBVIOUS
<1>1. at = "eval" /\ cur = NoPid
  BY DEF DoBgfg, Evaluates, JobsInv
<1>2. PICK i : i = IF Len(argv) = 1 THEN NoSlot ELSE getjobjid(jobs, SelectedJid(argv[2]))
  OBVIOUS
<1>3. i = NoSlot \/ (i \in Slots /\ jobs[i].jid >= 1)
  <2>1. PICK n : n = SelectedJid(argv[2])
    OBVIOUS
  <2> QED BY <1>2, <2>1, GetJobJid
<1>4. CASE i = NoSlot
  <2>1. at' = "read" /\ UNCHANGED listVars
    BY <1>2, <1>4 DEF DoBgfg
  <2> QED BY <1>1, <2>1, JobsKept
<1>5. CASE i # NoSlot
  <2>1. i \in Slots /\ jobs[i] # clearjob
    BY <1>3, <1>5 DEF clearjob
  <2>2. jobs[i].pid # NoPid /\ jobs[i] \in Job
    BY <2>1 DEF JobsInv
  <2>3. jobs[i].pid \in Pids
    BY <2>2 DEF Job
  <2>4. \/ jobs' = [jobs EXCEPT ![i].state = FG] /\ at' = "wait" /\ cur' = jobs[i].pid /\ UNCHANGED nextjid
        \/ jobs' = [jobs EXCEPT ![i].state = BG] /\ at' = "read" /\ UNCHANGED <<nextjid, cur>>
    <3> DEFINE slot == IF Len(argv) = 1 THEN NoSlot ELSE getjobjid(jobs, SelectedJid(argv[2]))
    <3>1. IF slot = NoSlot
          THEN at' = "read" /\ UNCHANGED listVars
          ELSE IF argv[1] = << "fg" >>
               THEN /\ jobs' = [jobs EXCEPT ![slot].state = FG]
                    /\ at' = "wait"
                    /\ cur' = jobs[slot].pid
                    /\ UNCHANGED nextjid
               ELSE /\ jobs' = [jobs EXCEPT ![slot].state = BG]
                    /\ at' = "read"
                    /\ UNCHANGED <<nextjid, cur>>
      BY DEF DoBgfg
    <3>2. i = slot
      BY <1>2
    <3> HIDE DEF slot
    <3> QED BY <1>5, <3>1, <3>2
  <2>5. PICK st \in {FG, BG} : jobs' = [jobs EXCEPT ![i].state = st]
    BY <2>4
  <2>6. jobs' \in [Slots -> Job] /\ \A k \in Slots : jobs'[k].pid = jobs[k].pid
                                     /\ jobs'[k].jid = jobs[k].jid
                                     /\ (k # i => jobs'[k] = jobs[k])
    <3>1. st \in JobState
      BY DEF JobState
    <3> QED BY <2>1, <2>5, <3>1 DEF JobsInv, Job
  <2>7. \A k \in Slots : jobs'[k].pid = NoPid => jobs'[k] = clearjob
    BY <2>2, <2>6 DEF JobsInv
  <2>8. nextjid' \in Nat \ {0}
    BY <2>4 DEF JobsInv
  <2>9. JobsTold'
    BY <2>6, ToldKept DEF JobsInv
  <2> QED BY <1>1, <2>3, <2>4, <2>6, <2>7, <2>8, <2>9, PidAssumption DEF JobsInv
<1> QED BY <1>4, <1>5

LEMMA EvalRunJobs == ASSUME JobsInv, NEW p \in Pids, EvalRun(p) PROVE JobsInv'
<1> DEFINE i == FreeSlot(jobs)
           bg == parseline(line).bg
<1>1. at = "eval" /\ cur = NoPid
  BY DEF EvalRun, Evaluates, JobsInv
<1>2. /\ IF i = NoSlot THEN UNCHANGED <<jobs, nextjid>>
         ELSE /\ jobs' = [jobs EXCEPT ![i] = [pid |-> p, jid |-> nextjid,
                                             state |-> IF bg THEN BG ELSE FG]]
              /\ nextjid' = JidAfter(nextjid)
      /\ IF bg \/ i = NoSlot THEN at' = "read" /\ UNCHANGED cur
         ELSE at' = "wait" /\ cur' = p
  BY DEF EvalRun
<1>3. i = NoSlot \/ i \in Slots
  BY FreeSlotFact
<1> HIDE DEF i, bg
<1>4. CASE i = NoSlot
  BY <1>1, <1>2, <1>4 DEF JobsInv, JobsTold
<1>5. CASE i # NoSlot
  <2>1. i \in Slots
    BY <1>3, <1>5
  <2>2. PICK job : job = [pid |-> p, jid |-> nextjid, state |-> IF bg THEN BG ELSE FG]
    OBVIOUS
  <2>3. job \in Job /\ job.pid = p
    BY <2>2 DEF Job, JobState, JobsInv
  <2>4. jobs' = [jobs EXCEPT ![i] = job] /\ nextjid' = JidAfter(nextjid)
    BY <1>2, <1>5, <2>2
  <2>5. p # NoPid
    BY PidAssumption
  <2>6. jobs' \in [Slots -> Job]
    BY <2>1, <2>3, <2>4 DEF JobsInv
  <2>7. \A k \in Slots : jobs'[k].pid = NoPid => jobs'[k] = clearjob
    BY <2>1, <2>3, <2>4, <2>5 DEF JobsInv
  <2>8. nextjid' \in Nat \ {0}
    BY <2>4 DEF JobsInv, JidAfter
  <2>9. (at' = "read" /\ cur' = NoPid) \/ (at' = "wait" /\ cur' = p)
    BY <1>1, <1>2
  <2>10. JobsTold'
    <3>1. \A k \in Slots : jobs[k].pid # p
      <4>1. getjobpid(jobs, p) = NoSlot
        BY DEF EvalRun
      <4> QED BY <2>5, <4>1, GetJobPid, NoSlotFact
    <3>2. jobs'[i] = job /\ (\A k \in Slots : k # i => jobs'[k] = jobs[k]) /\ job.jid >= 1
      BY <2>1, <2>2, <2>4 DEF JobsInv
    <3> QED BY <2>1, <2>3, <2>5, <3>1, <3>2 DEF JobsInv, JobsTold
  <2> QED BY <2>5, <2>6, <2>7, <2>8, <2>9, <2>10 DEF JobsInv
<1> QED BY <1>4, <1>5

\* A foreground job that has ended is cleared, and one that has stopped is marked.
LEMMA ForegroundJobs == JobsInv /\ (ForegroundEnds \/ ForegroundStops) => JobsInv'
<1> SUFFICES ASSUME JobsInv, ForegroundEnds \/ ForegroundStops PROVE JobsInv'
  OBVIOUS
<1>1. at' = "read" /\ cur' = NoPid
  BY DEF ForegroundEnds, ForegroundStops
<1>2. CASE ForegroundEnds
  <2>1. jobs' = deletejob(jobs, cur) /\ nextjid' = JidAfterDelete(jobs, cur, nextjid)
    BY <1>2 DEF ForegroundEnds
  <2>2. jobs \in [Slots -> Job] /\ nextjid \in Nat \ {0}
    BY DEF JobsInv
  <2>3. /\ deletejob(jobs, cur) \in [Slots -> Job]
        /\ \A i \in Slots : deletejob(jobs, cur)[i] = IF i = getjobpid(jobs, cur) THEN clearjob
                                                     ELSE jobs[i]
    BY <2>2, DeleteJob
  <2>4. nextjid' \in Nat \ {0}
    <3>1. maxjid(deletejob(jobs, cur)) \in Nat
      BY <2>3, MaxJid
    <3> QED BY <2>1, <2>2, <3>1 DEF JidAfterDelete
  <2>5. \A i \in Slots : jobs'[i] = clearjob \/ jobs'[i] = jobs[i]
    BY <2>1, <2>3
  <2>6. JobsTold'
    <3>1. clearjob.pid = NoPid
      BY DEF clearjob
    <3> QED BY <2>5, <3>1 DEF JobsInv, JobsTold
  <2> QED BY <1>1, <2>1, <2>3, <2>4, <2>6 DEF JobsInv
<1>3. CASE ForegroundStops
  <2>1. PICK i : i = getjobpid(jobs, cur)
    OBVIOUS
  <2>2. jobs' = [jobs EXCEPT ![i].state = ST] /\ nextjid' = nextjid
    BY <1>3, <2>1 DEF ForegroundStops
  <2>3. \/ i = NoSlot
        \/ i \in Slots /\ jobs[i].pid # NoPid
    BY <2>1, GetJobPid
  <2>4. CASE i = NoSlot
    <3>1. jobs' = jobs
      BY <2>2, <2>4, NoSlotFact DEF JobsInv
    <3> QED BY <1>1, <2>2, <3>1 DEF JobsInv, JobsTold
  <2>5. CASE i \in Slots /\ jobs[i].pid # NoPid
    <3>1. ST \in JobState
      BY DEF JobState
    <3>2. jobs' \in [Slots -> Job] /\ \A k \in Slots : jobs'[k].pid = jobs[k].pid
                                       /\ jobs'[k].jid = jobs[k].jid
                                       /\ (k # i => jobs'[k] = jobs[k])
      BY <2>2, <2>5, <3>1 DEF JobsInv, Job
    <3>3. \A k \in Slots : jobs'[k].pid = NoPid => jobs'[k] = clearjob
      BY <2>5, <3>2 DEF JobsInv
    <3>4. JobsTold'
      BY <3>2, ToldKept DEF JobsInv
    <3> QED BY <1>1, <2>2, <3>2, <3>3, <3>4 DEF JobsInv
  <2> QED BY <2>3, <2>4, <2>5
<1> QED BY <1>2, <1>3

\* main reads the next line.
LEMMA ReadLine == LineInv /\ Read => LineInv'
<1> SUFFICES ASSUME LineInv, Read PROVE LineInv'
  OBVIOUS
<1>0. input \in Text /\ Len(input) \in Nat
  BY InputIsText
<1>1. PICK k \in 0 .. Len(input) : rest = Upto(k)
  BY DEF LineInv
<1>2. rest \in Text /\ Len(rest) = Len(input) - k
  BY <1>0, <1>1, UptoIs
<1>3. PICK n \in 0 .. Len(rest) :
        /\ fgets(rest) = SubSeq(rest, 1, n) /\ n <= MAXLINE - 1
        /\ rest # <<>> => n # 0
        /\ fgets(rest) \in Text /\ Len(fgets(rest)) = n
  BY <1>2, FgetsIs
<1>4. rest' = Upto(k + n) /\ input' = input
  <2>1. SubSeq(rest, n + 1, Len(rest)) = Upto(k + n)
    BY <1>0, <1>1, <1>2, UptoIs
  <2> QED BY <1>3, <2>1 DEF Read
<1>5. k + n \in 0 .. Len(input') /\ rest' = Upto(k + n)'
  BY <1>0, <1>2, <1>4 DEF Upto
<1>6. line' \in Text /\ Len(line') <= MAXLINE - 1
  BY <1>3 DEF Read, LineInv
<1>7. at' \in {"eof", "eval"} /\ at' \in Place
  BY DEF Read, Place
<1>8. at' = "eval" => line' # <<>>
  <2> SUFFICES ASSUME at' = "eval" PROVE line' # <<>>
    OBVIOUS
  <2>1. ~ feof(rest)
    BY DEF Read
  <2>2. PICK s : s = fgets(rest)
    OBVIOUS
  <2>3. Len(s) >= MAXLINE - 1 \/ s # <<>>
    <3>1. ~ (Len(s) < MAXLINE - 1 /\ (s = <<>> \/ Last(s) # Newline))
      BY <2>1, <2>2 DEF feof
    <3>2. Len(s) \in Nat /\ MAXLINE \in Nat
      BY <1>3, <2>2, InputAssumption
    <3> QED BY <3>1, <3>2
  <2>4. MAXLINE - 1 > 0
    BY InputAssumption
  <2>5. Len(s) # 0
    <3>1. s \in Text /\ (s # <<>> => Len(s) # 0)
      BY <1>3, <2>2 DEF Text
    <3> QED BY <2>3, <2>4, <3>1, InputAssumption
  <2>6. n # 0 /\ n = Len(s)
    BY <1>3, <2>2, <2>5
  <2>7. rest # <<>>
    BY <1>3, <2>6 DEF Text
  <2>8. line' = s
    BY <2>2, <2>7 DEF Read
  <2> QED BY <2>5, <2>8
<1>9. ShortLinesAreSafe'
  BY <1>7 DEF ShortLinesAreSafe
<1>10. input' \in Inputs
  BY <1>4 DEF LineInv
<1> QED BY <1>5, <1>6, <1>7, <1>8, <1>9, <1>10 DEF LineInv

\* The other steps read nothing.
LEMMA LineKept ==
  ASSUME LineInv, UNCHANGED <<input, rest, line>>, at' \in Place \ {"eval", "undefined"}
  PROVE  LineInv'
<1>1. \E k \in 0 .. Len(input') : rest' = Upto(k)'
  BY DEF LineInv, Upto
<1> QED BY <1>1 DEF LineInv, ShortLinesAreSafe

LEMMA NextInput == InputInv /\ [Next]_vars => InputInv'
<1> SUFFICES ASSUME InputInv, [Next]_vars PROVE InputInv'
  OBVIOUS
<1> USE DEF InputInv
<1>1. CASE Usage \/ Started \/ ReadFails
  <2>1. /\ UNCHANGED <<input, rest, line>> /\ UNCHANGED listVars
        /\ at # "wait" /\ at' \in {"exited", "read"}
    BY <1>1 DEF Usage, Started, ReadFails
  <2>2. at' \in Place \ {"eval", "undefined"} /\ at' # "wait"
    BY <2>1 DEF Place
  <2> QED BY <2>1, <2>2, JobsKept, LineKept
<1>2. CASE Read
  <2>1. UNCHANGED listVars /\ at # "wait" /\ at' # "wait"
    BY <1>2 DEF Read
  <2> QED BY <1>2, <2>1, JobsKept, ReadLine
<1>3. CASE EvalOverruns
  <2>1. /\ UNCHANGED listVars /\ UNCHANGED <<input, rest, line>>
        /\ at = "eval" /\ at' = "undefined" /\ Overruns(line)
    BY <1>3 DEF EvalOverruns, Evaluates
  <2>2. JobsInv'
    BY <2>1, JobsKept
  <2>3. line \in Text /\ line # <<>>
    BY <2>1 DEF LineInv
  <2>4. Len(line) >= 2 * MAXARGS \/ Head(line) = NUL
    BY <2>1, <2>3, OverrunsAre
  <2>5. \E k \in 0 .. Len(input') : rest' = Upto(k)'
    BY <2>1 DEF LineInv, Upto
  <2>6. ShortLinesAreSafe'
    BY <2>1, <2>4 DEF ShortLinesAreSafe
  <2>7. LineInv'
    BY <2>1, <2>5, <2>6 DEF LineInv, Place
  <2> QED BY <2>2, <2>7
<1>4. CASE EvalNothing \/ EvalQuit \/ EvalForkFails
  <2>1. /\ UNCHANGED listVars /\ UNCHANGED <<input, rest, line>>
        /\ at # "wait" /\ at' \in {"read", "exited"}
    BY <1>4 DEF EvalNothing, EvalQuit, EvalForkFails, Evaluates
  <2>2. at' \in Place \ {"eval", "undefined"} /\ at' # "wait"
    BY <2>1 DEF Place
  <2> QED BY <2>1, <2>2, JobsKept, LineKept
<1>5. CASE DoBgfg
  <2>1. UNCHANGED <<input, rest, line>>
    BY <1>5 DEF DoBgfg, Evaluates
  <2>2. at' \in {"read", "wait"}
    <3>1. PICK i : i = IF Len(argv) = 1 THEN NoSlot ELSE getjobjid(jobs, SelectedJid(argv[2]))
      OBVIOUS
    <3> QED BY <1>5 DEF DoBgfg
  <2>3. at' \in Place \ {"eval", "undefined"}
    BY <2>2 DEF Place
  <2> QED BY <1>5, <2>1, <2>3, LineKept, DoBgfgJobs
<1>6. ASSUME NEW p \in Pids, EvalRun(p)
      PROVE  InputInv'
  <2>1. UNCHANGED <<input, rest, line>> /\ at' \in {"read", "wait"}
    BY <1>6 DEF EvalRun, Evaluates
  <2>2. at' \in Place \ {"eval", "undefined"}
    BY <2>1 DEF Place
  <2> QED BY <1>6, <2>1, <2>2, LineKept, EvalRunJobs
<1>7. CASE ForegroundEnds \/ ForegroundStops
  <2>1. UNCHANGED <<input, rest, line>> /\ at' = "read"
    BY <1>7 DEF ForegroundEnds, ForegroundStops
  <2>2. at' \in Place \ {"eval", "undefined"}
    BY <2>1 DEF Place
  <2> QED BY <1>7, <2>1, <2>2, LineKept, ForegroundJobs
<1>8. CASE UNCHANGED vars
  <2>1. /\ at' = at /\ input' = input /\ rest' = rest /\ line' = line
        /\ jobs' = jobs /\ nextjid' = nextjid /\ cur' = cur
    BY <1>8 DEF vars
  <2>2. \E k \in 0 .. Len(input') : rest' = Upto(k)'
    BY <2>1 DEF LineInv, Upto
  <2>3. LineInv'
    BY <2>1, <2>2 DEF LineInv, ShortLinesAreSafe
  <2> QED BY <2>1, <2>3 DEF JobsInv, JobsTold
<1>9. Gone => UNCHANGED vars
  BY DEF Gone
<1> QED BY <1>1, <1>2, <1>3, <1>4, <1>5, <1>6, <1>7, <1>8, <1>9 DEF Next, Eval

LEMMA InputInvariant == Spec => []InputInv
BY InitInput, NextInput, PTL DEF Spec

\* What Upto returns is a suffix, as IsSuffix has it.
LEMMA UptoIsSuffix ==
  ASSUME input \in Text, NEW k \in 0 .. Len(input)
  PROVE  IsSuffix(Upto(k), input)
<1>0. Len(input) \in Nat
  BY DEF Text
<1>1. PICK u : u = Upto(k)
  OBVIOUS
<1>2. u \in Text /\ Len(u) = Len(input) - k
        /\ \A j \in 1 .. Len(input) - k : u[j] = input[k + j]
  BY <1>1, UptoIs
<1>3. PICK r, t : r = Reverse(u) /\ t = Reverse(input)
  OBVIOUS
<1>4. /\ r = [j \in 1 .. Len(u) |-> u[(Len(u) - j) + 1]]
      /\ t = [j \in 1 .. Len(input) |-> input[(Len(input) - j) + 1]]
  BY <1>3 DEF Reverse
<1>5. Len(r) = Len(u) /\ Len(t) = Len(input)
  BY <1>0, <1>2, <1>4
<1>6. \A j \in 1 .. Len(u) : r[j] = t[j]
  <2> SUFFICES ASSUME NEW j \in 1 .. Len(u) PROVE r[j] = t[j]
    OBVIOUS
  <2>1. (Len(u) - j) + 1 \in 1 .. Len(input) - k /\ k + ((Len(u) - j) + 1) = (Len(input) - j) + 1
          /\ j \in 1 .. Len(input)
    BY <1>0, <1>2
  <2> QED BY <1>2, <1>4, <2>1
<1>7. SubSeq(r, 1, Len(r)) = [j \in 1 .. Len(u) |-> r[j]]
        /\ SubSeq(t, 1, Len(r)) = [j \in 1 .. Len(u) |-> t[j]]
  BY <1>0, <1>2, <1>5
<1>8. SubSeq(r, 1, Len(r)) = SubSeq(t, 1, Len(r))
  BY <1>6, <1>7
<1>9. Len(r) <= Len(t)
  BY <1>0, <1>2, <1>5
<1> QED BY <1>1, <1>3, <1>8, <1>9 DEF IsSuffix, IsPrefix

\* The variables keep their types, for every input, buffer and job list: what is read is
\* always the beginning of what was typed.
THEOREM InputTypes == Spec => []TypeOK
<1>1. InputInv => TypeOK
  <2> SUFFICES ASSUME InputInv PROVE TypeOK
    OBVIOUS
  <2>1. IsSuffix(rest, input)
    BY InputIsText, UptoIsSuffix DEF InputInv, LineInv
  <2> QED BY <2>1 DEF InputInv, JobsInv, LineInv, TypeOK
<1> QED BY <1>1, InputInvariant, PTL

\* parseline writes outside argv or the line for no line shorter than 2 * MAXARGS that
\* does not start with a NUL, whatever is in it.
THEOREM ShortLines == Spec => []ShortLinesAreSafe
<1>1. InputInv => ShortLinesAreSafe
  BY DEF InputInv, LineInv
<1> QED BY <1>1, InputInvariant, PTL

-----------------------------------------------------------------------------
(* Whole lines.                                                            *)

\* Where the lines typed end, in order: the first place is before the first line.
LEMMA EndsAre ==
  ASSUME input \in Text, NEW e, e = InOrder(Ends), NEW n, n = Cardinality(Ends)
  PROVE  /\ n \in Nat \ {0} /\ e \in [1 .. n -> Ends] /\ e[1] = 0
         /\ Ends \subseteq 0 .. Len(input)
         /\ \A k \in 1 .. n - 1 : e[k] < e[k + 1] /\ \A x \in Ends : e[k] < x => e[k + 1] <= x
         /\ \A x \in Ends : x <= e[n]
         /\ TypedLines = [k \in 1 .. n - 1 |-> SubSeq(input, e[k] + 1, e[k + 1])]
<1>0. Len(input) \in Nat /\ DOMAIN input = 1 .. Len(input)
  BY DEF Text
<1>1. Ends \subseteq 0 .. Len(input) /\ 0 \in Ends
  BY <1>0 DEF Ends
<1>2. Ends \subseteq Nat /\ IsFiniteSet(Ends)
  <2>1. IsFiniteSet(0 .. Len(input))
    BY <1>0, FS_Interval
  <2>2. IsFiniteSet(Ends)
    BY <1>1, <2>1, FS_Subset
  <2>3. 0 .. Len(input) \subseteq Nat
    BY <1>0
  <2> QED BY <1>1, <2>2, <2>3
<1>3. /\ n \in Nat /\ e \in [1 .. n -> Ends] /\ n # 0
      /\ \A k \in 1 .. n - 1 : e[k] < e[k + 1] /\ \A x \in Ends : e[k] < x => e[k + 1] <= x
      /\ \A x \in Ends : e[1] <= x /\ x <= e[n]
  <2>1. PICK S : S = Ends
    OBVIOUS
  <2>2. S \subseteq Nat /\ IsFiniteSet(S) /\ e = InOrder(S) /\ n = Cardinality(S) /\ S # {}
    BY <1>1, <1>2, <2>1
  <2>3. /\ n \in Nat /\ e \in [1 .. n -> S] /\ (S # {} => n # 0)
        /\ \A k \in 1 .. n - 1 : e[k] < e[k + 1] /\ \A x \in S : e[k] < x => e[k + 1] <= x
        /\ \A x \in S : e[1] <= x /\ x <= e[n]
    BY <2>2, Neighbours, Zenon
  <2> QED BY <2>1, <2>2, <2>3
<1>6. e[1] = 0
  <2>1. e[1] \in Nat
    <3>1. 1 \in 1 .. n
      BY <1>3
    <3> QED BY <1>2, <1>3, <3>1
  <2>2. e[1] <= 0
    BY <1>1, <1>3
  <2> QED BY <2>1, <2>2
<1>9. Len(e) = n
  BY <1>3
<1>10. TypedLines = [k \in 1 .. n - 1 |-> SubSeq(input, e[k] + 1, e[k + 1])]
  <2>1. TypedLines = [k \in 1 .. Len(e) - 1 |-> SubSeq(input, e[k] + 1, e[k + 1])]
    BY DEF TypedLines
  <2> QED BY <1>9, <2>1
<1> QED BY <1>1, <1>3, <1>6, <1>10

\* The newlines of what is left after one of these places.
LEMMA NewlinesLeft ==
  ASSUME input \in Text, NEW e \in 0 .. Len(input)
  PROVE  /\ \A k \in DOMAIN Upto(e) : Upto(e)[k] = Newline => e + k \in Ends
         /\ \A x \in Ends : e < x => x - e \in DOMAIN Upto(e) /\ Upto(e)[x - e] = Newline
<1>0. Len(input) \in Nat /\ DOMAIN input = 1 .. Len(input)
  BY DEF Text
<1>1. PICK u : u = Upto(e)
  OBVIOUS
<1>2. u \in Text /\ Len(u) = Len(input) - e /\ \A j \in 1 .. Len(input) - e : u[j] = input[e + j]
  BY <1>1, UptoIs
<1>3. DOMAIN u = 1 .. Len(input) - e
  BY <1>2 DEF Text
<1>4. ASSUME NEW k \in DOMAIN u, u[k] = Newline
      PROVE  e + k \in Ends
  <2>1. e + k \in 1 .. Len(input) /\ input[e + k] = Newline
    BY <1>0, <1>2, <1>3, <1>4
  <2> QED BY <1>0, <2>1 DEF Ends
<1>5. ASSUME NEW x \in Ends, e < x
      PROVE  x - e \in DOMAIN u /\ u[x - e] = Newline
  <2>1. x \in 1 .. Len(input) /\ input[x] = Newline
    BY <1>0, <1>5 DEF Ends
  <2>2. x - e \in 1 .. Len(input) - e /\ e + (x - e) = x
    BY <1>0, <1>5, <2>1
  <2> QED BY <1>2, <1>3, <2>1, <2>2
<1> QED BY <1>1, <1>4, <1>5

\* A line that fits is read as a whole, and the end of file is not met.
LEMMA FgetsLine ==
  ASSUME input \in Text, LinesFit, NEW e \in Ends, NEW f \in Ends, e < f,
         \A x \in Ends : e < x => f <= x
  PROVE  /\ fgets(Upto(e)) = SubSeq(input, e + 1, f) /\ Len(fgets(Upto(e))) = f - e
         /\ Upto(e) # <<>> /\ ~ feof(Upto(e)) /\ SubSeq(Upto(e), f - e + 1, Len(Upto(e))) = Upto(f)
<1>0. Len(input) \in Nat /\ MAXLINE \in Nat
  BY InputAssumption DEF Text
<1>1. Ends \subseteq 0 .. Len(input)
  BY EndsAre
<1>2. e \in 0 .. Len(input) /\ f \in 0 .. Len(input) /\ f - e \in 1 .. Len(input) - e /\ f # 0
  BY <1>0, <1>1
<1>3. PICK u : u = Upto(e)
  OBVIOUS
<1>4. u \in Text /\ Len(u) = Len(input) - e /\ u # <<>>
  <2>1. u \in Text /\ Len(u) = Len(input) - e
    BY <1>2, <1>3, UptoIs
  <2> QED BY <1>0, <1>2, <2>1
<1>5. f - e <= MAXLINE - 1
  <2>1. PICK S : S = {x \in Ends : x < f}
    OBVIOUS
  <2>2. Max(S) = e
    <3>1. S \subseteq Nat /\ e \in S
      <4>1. 0 .. Len(input) \subseteq Nat
        BY <1>0
      <4>2. S \subseteq Ends
        BY <2>1
      <4>3. e \in S
        BY <2>1
      <4> QED BY <1>1, <4>1, <4>2, <4>3
    <3>2. \A x \in S : x <= e
      BY <1>0, <1>1, <1>2, <2>1
    <3> QED BY <3>1, <3>2, MaxIs
  <2>3. f = 0 \/ f - Max(S) <= MAXLINE - 1
    BY <2>1 DEF LinesFit
  <2> QED BY <1>2, <2>2, <2>3
<1>6. fgets(u) = SubSeq(u, 1, f - e)
  <2> DEFINE S == {Len(u), MAXLINE - 1} \cup {k \in DOMAIN u : u[k] = Newline}
  <2>1. DOMAIN u = 1 .. Len(u)
    BY <1>4 DEF Text
  <2>2. S \subseteq Nat
    BY <1>0, <1>2, <1>4, <2>1, InputAssumption
  <2>3. f - e \in S
    BY <1>2, <1>3, NewlinesLeft
  <2>4. ASSUME NEW k \in S
        PROVE  f - e <= k
    <3>1. CASE k \in DOMAIN u /\ u[k] = Newline
      <4>1. e + k \in Ends /\ k \in Nat /\ k >= 1
        BY <1>2, <1>3, <2>1, <3>1, NewlinesLeft
      <4>2. e < e + k
        BY <1>2, <4>1
      <4>3. f <= e + k
        BY <4>1, <4>2
      <4> QED BY <1>2, <4>1, <4>3
    <3>2. CASE k = Len(u) \/ k = MAXLINE - 1
      BY <1>0, <1>2, <1>4, <1>5, <3>2
    <3> QED BY <3>1, <3>2
  <2>5. fgets(u) = SubSeq(u, 1, Min(S))
    BY DEF fgets
  <2> HIDE DEF S
  <2>6. Min(S) = f - e
    BY <2>2, <2>3, <2>4, MinIs
  <2> QED BY <2>5, <2>6
<1>7. /\ SubSeq(u, f - e + 1, Len(u)) = Upto(e + (f - e))
      /\ SubSeq(u, 1, f - e) = SubSeq(input, e + 1, e + (f - e))
  <2>1. PICK d : d = f - e
    OBVIOUS
  <2>2. d \in 0 .. Len(input) - e
    BY <1>0, <1>2, <2>1
  <2>3. SubSeq(u, d + 1, Len(u)) = Upto(e + d) /\ SubSeq(u, 1, d) = SubSeq(input, e + 1, e + d)
    BY <1>2, <1>3, <2>2, UptoIs
  <2> QED BY <2>1, <2>3
<1>8. e + (f - e) = f
  BY <1>2
<1>9. PICK s : s = SubSeq(u, 1, f - e)
  OBVIOUS
<1>10. Len(s) = f - e /\ s[f - e] = u[f - e]
  <2>1. f - e \in Nat /\ f - e \in 1 .. Len(u)
    BY <1>0, <1>2, <1>4
  <2>2. s = [j \in 1 .. f - e |-> u[j]]
    BY <1>4, <1>9, <2>1 DEF Text
  <2> QED BY <2>1, <2>2
<1>11. s[f - e] = Newline
  BY <1>2, <1>3, <1>10, NewlinesLeft
<1>12. ~ feof(u)
  <2>1. s # <<>> /\ Last(s) = Newline
    BY <1>2, <1>10, <1>11 DEF Last
  <2> QED BY <1>6, <1>9, <2>1 DEF feof
<1> QED BY <1>3, <1>4, <1>6, <1>7, <1>8, <1>9, <1>10, <1>12

\* Behind the last newline the end of file is met.
LEMMA FgetsEnd ==
  ASSUME input \in Text, LinesFit, NEW e \in Ends, \A x \in Ends : x <= e
  PROVE  feof(Upto(e))
<1>0. Len(input) \in Nat /\ MAXLINE \in Nat
  BY InputAssumption DEF Text
<1>1. Ends \subseteq 0 .. Len(input)
  BY EndsAre
<1>2. e \in 0 .. Len(input)
  BY <1>1
<1>3. PICK u : u = Upto(e)
  OBVIOUS
<1>4. u \in Text /\ Len(u) = Len(input) - e
  BY <1>2, <1>3, UptoIs
<1>5. Len(u) < MAXLINE - 1
  <2>1. PICK S, m : S = {x \in Ends : x < m} /\ m = Len(input) + 1
    OBVIOUS
  <2>2. Max(S) = e
    <3>1. S \subseteq Nat /\ e \in S
      BY <1>0, <1>1, <1>2, <2>1
    <3>2. \A x \in S : x <= e
      BY <2>1
    <3> QED BY <3>1, <3>2, MaxIs
  <2>3. m = 0 \/ m - Max(S) <= MAXLINE - 1
    BY <2>1 DEF LinesFit
  <2> QED BY <1>0, <1>2, <1>4, <2>1, <2>2, <2>3
<1>6. PICK n \in 0 .. Len(u) :
        /\ fgets(u) = SubSeq(u, 1, n) /\ n <= MAXLINE - 1
        /\ u # <<>> => n # 0
        /\ fgets(u) \in Text /\ Len(fgets(u)) = n
  BY <1>4, FgetsIs
<1>7. PICK s : s = fgets(u)
  OBVIOUS
<1>8. Len(s) < MAXLINE - 1
  BY <1>0, <1>2, <1>4, <1>5, <1>6, <1>7
<1>9. ASSUME s # <<>>
      PROVE  Last(s) # Newline
  <2>1. n # 0 /\ n \in 1 .. Len(u)
    <3>1. n # 0
      BY <1>6, <1>7, <1>9 DEF Text
    <3> QED BY <1>6, <3>1
  <2>2. s = [j \in 1 .. n |-> u[j]]
    BY <1>4, <1>6, <1>7, <2>1 DEF Text
  <2>3. Last(s) = u[n]
    BY <1>6, <1>7, <2>1, <2>2 DEF Last
  <2>4. u[n] # Newline
    <3> SUFFICES ASSUME u[n] = Newline PROVE FALSE
      OBVIOUS
    <3>1. n \in DOMAIN u
      BY <1>4, <2>1 DEF Text
    <3>2. e + n \in Ends
      BY <1>2, <1>3, <3>1, NewlinesLeft
    <3> QED BY <1>0, <1>2, <2>1, <3>2
  <2> QED BY <2>3, <2>4
<1> QED BY <1>3, <1>7, <1>8, <1>9 DEF feof

\* When lines fit, m of those typed have been evaluated, and main stands behind
\* them, or behind the next one that it is about to evaluate.
WholeInv ==
  LinesFit =>
    \E m \in 0 .. Cardinality(Ends) - 1 :
      /\ evaluated = SubSeq(TypedLines, 1, m)
      /\ at \in {"options", "read", "wait"} => rest = Upto(InOrder(Ends)[m + 1])
      /\ at = "eval" => /\ m + 1 \in 1 .. Cardinality(Ends) - 1
                        /\ rest = Upto(InOrder(Ends)[m + 2])
                        /\ line = TypedLines[m + 1]
      /\ at = "eof" => m = Cardinality(Ends) - 1

LEMMA InitWhole == Init => WholeInv
<1> SUFFICES ASSUME Init, LinesFit PROVE WholeInv
  BY DEF WholeInv
<1>1. input \in Seq(STRING)
  BY InputAssumption DEF Init
<1>2. input \in Text /\ Len(input) \in Nat
  BY <1>1, SeqMonotonic DEF Text, Char
<1>3. Upto(0) = input
  <2>1. Upto(0) \in Seq(Char) /\ Len(Upto(0)) = Len(input)
          /\ \A j \in 1 .. Len(input) : Upto(0)[j] = input[j]
    BY <1>2, UptoIs DEF Text
  <2> QED BY <1>2, <2>1, SeqEqual DEF Text
<1>4. PICK e, n : e = InOrder(Ends) /\ n = Cardinality(Ends)
  OBVIOUS
<1>5. n \in Nat \ {0} /\ e[1] = 0
        /\ TypedLines = [k \in 1 .. n - 1 |-> SubSeq(input, e[k] + 1, e[k + 1])]
  BY <1>2, <1>4, EndsAre
<1>6. SubSeq(TypedLines, 1, 0) = <<>>
  BY SubSeqEmpty
<1>7. 0 \in 0 .. n - 1 /\ 0 + 1 = 1
  BY <1>5
<1>8. evaluated = SubSeq(TypedLines, 1, 0) /\ rest = Upto(e[0 + 1]) /\ at = "options"
  BY <1>3, <1>5, <1>6, <1>7 DEF Init
<1> QED BY <1>4, <1>7, <1>8 DEF WholeInv

\* The lines typed, and one more of them.
LEMMA OneMoreLine ==
  ASSUME NEW n \in Nat \ {0}, NEW t, DOMAIN t = 1 .. n - 1, t = [k \in 1 .. n - 1 |-> t[k]],
         NEW m \in 0 .. n - 1, m + 1 \in 1 .. n - 1
  PROVE  Append(SubSeq(t, 1, m), t[m + 1]) = SubSeq(t, 1, m + 1)
<1>1. SubSeq(t, 1, m) = [k \in 1 .. m |-> t[k]] /\ SubSeq(t, 1, m + 1) = [k \in 1 .. m + 1 |-> t[k]]
  OBVIOUS
<1>2. PICK s : s = SubSeq(t, 1, m)
  OBVIOUS
<1>3. Len(s) = m /\ s \in Seq({t[k] : k \in 1 .. n - 1})
  BY <1>1, <1>2
<1>4. Append(s, t[m + 1]) = [k \in 1 .. m + 1 |-> IF k = m + 1 THEN t[m + 1] ELSE s[k]]
  BY <1>3
<1> QED BY <1>1, <1>2, <1>4

LEMMA NextWhole == InputInv /\ WholeInv /\ [Next]_vars => WholeInv'
<1> SUFFICES ASSUME InputInv, WholeInv, [Next]_vars, LinesFit' PROVE WholeInv'
  BY DEF WholeInv
<1>0. input \in Text /\ Len(input) \in Nat
  BY InputIsText DEF InputInv
<1>1. input' = input
  BY DEF Next, Usage, Started, Read, ReadFails, Eval, EvalOverruns, EvalNothing, EvalQuit, DoBgfg,
         EvalForkFails, EvalRun, Evaluates, ForegroundEnds, ForegroundStops, Gone, vars
<1>2. LinesFit /\ Ends' = Ends /\ TypedLines' = TypedLines
  BY <1>1 DEF LinesFit, Ends, TypedLines
<1>3. \A k : Upto(k)' = Upto(k)
  BY <1>1 DEF Upto
<1>4. PICK e, n, t : e = InOrder(Ends) /\ n = Cardinality(Ends) /\ t = TypedLines
  OBVIOUS
<1>5. InOrder(Ends)' = e /\ Cardinality(Ends)' = n /\ TypedLines' = t
  BY <1>2, <1>4
<1>6. /\ n \in Nat \ {0} /\ e \in [1 .. n -> Ends] /\ Ends \subseteq 0 .. Len(input)
      /\ \A k \in 1 .. n - 1 : e[k] < e[k + 1] /\ \A x \in Ends : e[k] < x => e[k + 1] <= x
      /\ \A x \in Ends : x <= e[n]
      /\ t = [k \in 1 .. n - 1 |-> SubSeq(input, e[k] + 1, e[k + 1])]
  BY <1>0, <1>4, EndsAre
<1>7. PICK m \in 0 .. n - 1 :
        /\ evaluated = SubSeq(t, 1, m)
        /\ at \in {"options", "read", "wait"} => rest = Upto(e[m + 1])
        /\ at = "eval" => m + 1 \in 1 .. n - 1 /\ rest = Upto(e[m + 2]) /\ line = t[m + 1]
        /\ at = "eof" => m = n - 1
  BY <1>2, <1>4 DEF WholeInv
<1> DEFINE Stands(j) ==
      /\ evaluated' = SubSeq(t, 1, j)
      /\ at' \in {"options", "read", "wait"} => rest' = Upto(e[j + 1])
      /\ at' = "eval" => j + 1 \in 1 .. n - 1 /\ rest' = Upto(e[j + 2]) /\ line' = t[j + 1]
      /\ at' = "eof" => j = n - 1
<1>8. ASSUME NEW j \in 0 .. n - 1, Stands(j)
      PROVE  WholeInv'
  <2>1. /\ at' \in {"options", "read", "wait"} => rest' = SubSeq(input', e[j + 1] + 1, Len(input'))
        /\ at' = "eval" => rest' = SubSeq(input', e[j + 2] + 1, Len(input'))
    BY <1>1, <1>8 DEF Upto
  <2> QED BY <1>5, <1>8, <2>1 DEF WholeInv, Upto
<1>9. CASE Usage \/ Started \/ ReadFails \/ ForegroundEnds \/ ForegroundStops
  <2>1. /\ at \in {"options", "read", "wait"} /\ at' \in {"read", "exited"}
        /\ rest' = rest /\ evaluated' = evaluated
    BY <1>9 DEF Usage, Started, ReadFails, ForegroundEnds, ForegroundStops
  <2>2. Stands(m)
    BY <1>7, <2>1
  <2> HIDE DEF Stands
  <2> QED BY <1>8, <2>2
<1>10. CASE Eval
  <2>1. at = "eval" /\ evaluated' = Append(evaluated, line) /\ rest' = rest
    BY <1>10 DEF Eval, EvalOverruns, EvalNothing, EvalQuit, DoBgfg, EvalForkFails, EvalRun, Evaluates
  <2>2. at' \in {"read", "wait", "exited", "undefined"}
    <3>1. CASE DoBgfg
      <4>1. PICK i : i = IF Len(argv) = 1 THEN NoSlot ELSE getjobjid(jobs, SelectedJid(argv[2]))
        OBVIOUS
      <4> QED BY <3>1 DEF DoBgfg
    <3>2. CASE ~ DoBgfg
      BY <1>10, <3>2 DEF Eval, EvalOverruns, EvalNothing, EvalQuit, EvalForkFails, EvalRun
    <3> QED BY <3>1, <3>2
  <2>3. m + 1 \in 1 .. n - 1 /\ rest = Upto(e[m + 2]) /\ line = t[m + 1] /\ m + 1 \in 0 .. n - 1
          /\ (m + 1) + 1 = m + 2
    BY <1>6, <1>7, <2>1
  <2>4. evaluated' = SubSeq(t, 1, m + 1)
    <3>1. DOMAIN t = 1 .. n - 1 /\ t = [k \in 1 .. n - 1 |-> t[k]]
      BY <1>6
    <3>2. Append(SubSeq(t, 1, m), t[m + 1]) = SubSeq(t, 1, m + 1)
      BY <1>6, <2>3, <3>1, OneMoreLine
    <3> QED BY <1>7, <2>1, <2>3, <3>2
  <2>5. Stands(m + 1)
    BY <2>1, <2>2, <2>3, <2>4
  <2> HIDE DEF Stands
  <2> QED BY <1>8, <2>3, <2>5
<1>11. CASE Read
  <2>1. PICK k : k = e[m + 1]
    OBVIOUS
  <2>2. rest = Upto(k) /\ evaluated' = evaluated
    BY <1>7, <1>11, <2>1 DEF Read
  <2>3. m + 1 \in 1 .. n /\ k \in Ends
    BY <1>6, <2>1
  <2>4. CASE m + 1 \in 1 .. n - 1
    <3>1. PICK f : f = e[m + 2]
      OBVIOUS
    <3>2. f \in Ends /\ k < f /\ \A x \in Ends : k < x => f <= x
      <4>1. m + 2 \in 1 .. n /\ (m + 1) + 1 = m + 2
        BY <1>6, <2>4
      <4> QED BY <1>6, <2>1, <2>4, <3>1, <4>1
    <3>3. /\ fgets(rest) = SubSeq(input, k + 1, f) /\ Len(fgets(rest)) = f - k
          /\ rest # <<>> /\ ~ feof(rest) /\ SubSeq(rest, f - k + 1, Len(rest)) = Upto(f)
      BY <1>0, <1>2, <2>2, <2>3, <3>2, FgetsLine
    <3>4. at' = "eval" /\ line' = SubSeq(input, k + 1, f) /\ rest' = Upto(f)
      BY <1>11, <3>3 DEF Read
    <3>5. t[m + 1] = SubSeq(input, e[m + 1] + 1, e[(m + 1) + 1]) /\ (m + 1) + 1 = m + 2
      <4>1. PICK j : j = m + 1
        OBVIOUS
      <4>2. t[j] = SubSeq(input, e[j] + 1, e[j + 1])
        BY <1>6, <2>4, <4>1
      <4>3. (m + 1) + 1 = m + 2
        BY <1>6
      <4> QED BY <4>1, <4>2, <4>3
    <3>6. line' = t[m + 1]
      BY <2>1, <3>1, <3>4, <3>5
    <3>7. Stands(m)
      BY <1>7, <2>2, <2>4, <3>1, <3>4, <3>6
    <3> HIDE DEF Stands
    <3> QED BY <1>8, <3>7
  <2>5. CASE m + 1 = n
    <3>1. \A x \in Ends : x <= k
      BY <1>6, <2>1, <2>5
    <3>2. feof(rest)
      BY <1>0, <1>2, <2>2, <2>3, <3>1, FgetsEnd
    <3>3. at' = "eof" /\ m = n - 1
      BY <1>6, <1>11, <2>5, <3>2 DEF Read
    <3>4. Stands(m)
      BY <1>7, <2>2, <3>3
    <3> HIDE DEF Stands
    <3> QED BY <1>8, <3>4
  <2> QED BY <1>6, <2>3, <2>4, <2>5
<1>12. CASE UNCHANGED vars
  <2>1. at' = at /\ rest' = rest /\ line' = line /\ evaluated' = evaluated
    BY <1>12 DEF vars
  <2>2. Stands(m)
    BY <1>7, <2>1
  <2> HIDE DEF Stands
  <2> QED BY <1>8, <2>2
<1>13. Gone => UNCHANGED vars
  BY DEF Gone
<1> HIDE DEF Stands
<1> QED BY <1>9, <1>10, <1>11, <1>12, <1>13 DEF Next

\* Lines that fit the buffer are evaluated one by one, as typed and in order, and none
\* with a newline is left at the end of file, whatever the size of the buffer.
THEOREM WholeLines == Spec => []WholeLinesAreEvaluated
<1>1. InputInv /\ WholeInv /\ [Next]_vars => WholeInv'
  BY NextWhole
<1>2. InputInv /\ WholeInv => WholeLinesAreEvaluated
  <2> SUFFICES ASSUME InputInv, WholeInv, LinesFit
               PROVE  IsPrefix(evaluated, TypedLines) /\ (at = "eof" => evaluated = TypedLines)
    BY DEF WholeLinesAreEvaluated
  <2>1. PICK e, n, t : e = InOrder(Ends) /\ n = Cardinality(Ends) /\ t = TypedLines
    OBVIOUS
  <2>2. input \in Text
    BY InputIsText DEF InputInv
  <2>3. n \in Nat \ {0} /\ t = [k \in 1 .. n - 1 |-> SubSeq(input, e[k] + 1, e[k + 1])]
    BY <2>1, <2>2, EndsAre
  <2>4. PICK m \in 0 .. n - 1 : evaluated = SubSeq(t, 1, m) /\ (at = "eof" => m = n - 1)
    BY <2>1 DEF WholeInv
  <2>5. Len(t) = n - 1 /\ DOMAIN t = 1 .. n - 1 /\ t = [k \in 1 .. n - 1 |-> t[k]]
    <3>1. DOMAIN t = 1 .. n - 1 /\ t = [k \in 1 .. n - 1 |-> t[k]]
      BY <2>3, Zenon
    <3>2. n - 1 \in Nat
      BY <2>3
    <3> QED BY <3>1, <3>2
  <2>6. SubSeq(t, 1, m) = [k \in 1 .. m |-> t[k]]
    BY <2>3, <2>5
  <2>7. PICK s : s = SubSeq(t, 1, m)
    OBVIOUS
  <2>8. Len(s) = m /\ SubSeq(s, 1, m) = [k \in 1 .. m |-> s[k]] /\ s = [k \in 1 .. m |-> s[k]]
    BY <2>6, <2>7
  <2>9. IsPrefix(s, t)
    <3>1. m <= n - 1
      BY <2>3
    <3> QED BY <2>5, <2>7, <2>8, <3>1 DEF IsPrefix
  <2>10. m = n - 1 => s = t
    BY <2>5, <2>6, <2>7
  <2> QED BY <2>1, <2>4, <2>7, <2>9, <2>10
<1> QED BY <1>1, <1>2, InitWhole, InputInvariant, PTL DEF Spec

-----------------------------------------------------------------------------
(* The words of a line.                                                    *)

\* Where the runs of s start, and where the one that starts at k ends.
StartsOf(s) == {k \in DOMAIN s : s[k] # Blank /\ (k = 1 \/ s[k - 1] = Blank)}
EndOf(s, k) == Max({j \in k .. Len(s) : \A l \in k .. j : s[l] # Blank})

\* A run goes on to the next blank or to the end.
LEMMA EndIs ==
  ASSUME NEW s \in Text, NEW k \in 1 .. Len(s), s[k] # Blank, NEW z, z = EndOf(s, k)
  PROVE  /\ z \in k .. Len(s) /\ \A l \in k .. z : s[l] # Blank
         /\ z = Len(s) \/ s[z + 1] = Blank
<1> DEFINE S == {j \in k .. Len(s) : \A l \in k .. j : s[l] # Blank}
           B == {Len(s) + 1} \cup {j \in k .. Len(s) : s[j] = Blank}
<1>0. Len(s) \in Nat /\ k \in Nat
  BY DEF Text
<1>1. B \subseteq Nat /\ B # {} /\ S \subseteq Nat
  BY <1>0
<1>2. PICK b : b = Min(B)
  OBVIOUS
<1>3. b \in B /\ \A x \in B : b <= x
  <2> HIDE DEF B
  <2> QED BY <1>1, <1>2, MinOf
<1>4. b \in k + 1 .. Len(s) + 1 /\ (b = Len(s) + 1 \/ s[b] = Blank)
  <2>1. b \in k .. Len(s) + 1 /\ (b = Len(s) + 1 \/ s[b] = Blank)
    BY <1>0, <1>3
  <2>2. b # k
    BY <1>0, <2>1
  <2> QED BY <1>0, <2>1, <2>2
<1>5. \A l \in k .. b - 1 : s[l] # Blank
  <2> SUFFICES ASSUME NEW l \in k .. b - 1 PROVE s[l] # Blank
    OBVIOUS
  <2>1. l \in k .. Len(s) /\ ~ (b <= l)
    BY <1>0, <1>4
  <2> QED BY <1>3, <2>1
<1>6. b - 1 \in S
  <2>1. b - 1 \in k .. Len(s)
    BY <1>0, <1>4
  <2> QED BY <1>5, <2>1
<1>7. ASSUME NEW x \in S
      PROVE  x <= b - 1
  <2>1. x \in k .. Len(s) /\ \A l \in k .. x : s[l] # Blank
    OBVIOUS
  <2>2. ~ (b <= x)
    <3> SUFFICES ASSUME b <= x PROVE FALSE
      OBVIOUS
    <3>1. b \in k .. x /\ b # Len(s) + 1
      BY <1>0, <1>4, <2>1
    <3> QED BY <1>4, <2>1, <3>1
  <2> QED BY <1>0, <1>4, <2>1, <2>2
<1>8. Max(S) = b - 1
  <2> HIDE DEF S
  <2> QED BY <1>1, <1>6, <1>7, MaxIs
<1>9. z = b - 1
  BY <1>8 DEF EndOf
<1>10. z \in k .. Len(s) /\ z + 1 = b
  BY <1>0, <1>4, <1>9
<1> QED BY <1>0, <1>4, <1>5, <1>9, <1>10

LEMMA RunsAre ==
  ASSUME NEW s \in Text, NEW S, S = StartsOf(s), NEW e, e = InOrder(S), NEW n, n = Cardinality(S)
  PROVE  /\ S \subseteq 1 .. Len(s) /\ n \in Nat /\ e \in [1 .. n -> S] /\ (S # {} => n # 0)
         /\ \A k \in 1 .. n - 1 : e[k] < e[k + 1] /\ \A x \in S : e[k] < x => e[k + 1] <= x
         /\ \A x \in S : e[1] <= x /\ x <= e[n]
         /\ Runs(s) \in Seq(Text) /\ Len(Runs(s)) = n
         /\ \A k \in 1 .. n : Runs(s)[k] = SubSeq(s, e[k], EndOf(s, e[k]))
<1>0. Len(s) \in Nat /\ DOMAIN s = 1 .. Len(s)
  BY DEF Text
<1>1. S \subseteq 1 .. Len(s)
  BY <1>0 DEF StartsOf
<1>2. S \subseteq Nat /\ IsFiniteSet(S)
  <2>1. IsFiniteSet(1 .. Len(s))
    BY <1>0, FS_Interval
  <2> QED BY <1>0, <1>1, <2>1, FS_Subset
<1>3. /\ n \in Nat /\ e \in [1 .. n -> S] /\ (S # {} => n # 0)
      /\ \A k \in 1 .. n - 1 : e[k] < e[k + 1] /\ \A x \in S : e[k] < x => e[k + 1] <= x
      /\ \A x \in S : e[1] <= x /\ x <= e[n]
  BY <1>2, Neighbours, Zenon
<1>4. Runs(s) = [k \in DOMAIN e |-> SubSeq(s, e[k], EndOf(s, e[k]))]
  BY DEF Runs, StartsOf, EndOf
<1>5. \A k \in 1 .. n : SubSeq(s, e[k], EndOf(s, e[k])) \in Text
  <2> SUFFICES ASSUME NEW k \in 1 .. n PROVE SubSeq(s, e[k], EndOf(s, e[k])) \in Text
    OBVIOUS
  <2>1. PICK x, z : x = e[k] /\ z = EndOf(s, e[k])
    OBVIOUS
  <2>2. x \in 1 .. Len(s) /\ s[x] # Blank
    BY <1>0, <1>3, <2>1 DEF StartsOf
  <2>3. z \in x .. Len(s)
    BY <2>1, <2>2, EndIs
  <2>4. x \in 1 .. Len(s) + 1 /\ z \in 0 .. Len(s)
    BY <1>0, <2>2, <2>3
  <2> QED BY <2>1, <2>4, SubText
<1>6. PICK r : r = Runs(s)
  OBVIOUS
<1>7. r \in [1 .. n -> Text] /\ \A k \in 1 .. n : r[k] = SubSeq(s, e[k], EndOf(s, e[k]))
  BY <1>3, <1>4, <1>5, <1>6
<1>8. r \in Seq(Text) /\ Len(r) = n
  BY <1>3, <1>7
<1> QED BY <1>1, <1>3, <1>6, <1>7, <1>8

\* A word, and the rest of them.
LEMMA FirstOf ==
  ASSUME NEW r \in Seq(Text), NEW k \in 1 .. Len(r)
  PROVE  /\ SubSeq(r, k, Len(r)) = << r[k] >> \o SubSeq(r, k + 1, Len(r))
         /\ << r[k] >> \in Seq(Text)
         /\ SubSeq(r, k + 1, Len(r)) \in Seq(Text)
<1>1. Len(r) \in Nat /\ \A i \in 1 .. Len(r) : r[i] \in Text
  OBVIOUS
<1>2. r[k] \in Text
  BY <1>1
<1>3. SubSeq(r, k, Len(r)) = << r[k] >> \o SubSeq(r, k + 1, Len(r))
  BY <1>1, SubSeqRecursiveFirst
<1>4. SubSeq(r, k + 1, Len(r)) \in Seq(Text)
  <2>1. k + 1 \in Int /\ Len(r) \in Int /\ \A i \in k + 1 .. Len(r) : r[i] \in Text
    BY <1>1
  <2> QED BY <2>1, SubSeqProperties
<1> QED BY <1>2, <1>3, <1>4

LEMMA ThreeParts == \A a, b, c \in Seq(Text) : (a \o b) \o c = a \o (b \o c)
BY ConcatAssociative

LEMMA LastPlace == \A n \in Nat : n + 1 \in 1 .. n + 1
OBVIOUS

\* What goes from run to run, and past the blanks behind the last one, collects
\* the runs.
LEMMA RunsBy ==
  ASSUME NEW t \in Text, NEW g \in [1 .. Len(t) + 1 -> Seq(Text)],
         \A k \in 1 .. Len(t) : (\A j \in k .. Len(t) : t[j] = Blank) => g[k] = g[Len(t) + 1],
         \A k \in 1 .. Len(t) : \A x \in k .. Len(t) : \A z \in x .. Len(t) :
           /\ \A j \in k .. x - 1 : t[j] = Blank
           /\ \A j \in x .. z : t[j] # Blank
           /\ z = Len(t) \/ t[z + 1] = Blank
           => g[k] = << SubSeq(t, x, z) >> \o g[IF z = Len(t) THEN z + 1 ELSE z + 2]
  PROVE  g[1] = Runs(t) \o g[Len(t) + 1]
<1> DEFINE L == Len(t)
           S == StartsOf(t)
           e == InOrder(S)
           n == Cardinality(S)
           r == Runs(t)
           tail == g[L + 1]
           At(m, k) == /\ k = 1 \/ k = L + 1 \/ t[k - 1] = Blank
                       /\ \A x \in S : k <= x <=> (m <= n /\ e[m] <= x)
           P(m) == \A k \in 1 .. L + 1 : At(m, k) => g[k] = SubSeq(r, m, n) \o tail
<1>0. L \in Nat /\ DOMAIN t = 1 .. L
  BY DEF Text
<1>1. /\ S \subseteq 1 .. L /\ n \in Nat /\ e \in [1 .. n -> S] /\ (S # {} => n # 0)
      /\ \A k \in 1 .. n - 1 : e[k] < e[k + 1] /\ \A x \in S : e[k] < x => e[k + 1] <= x
      /\ \A x \in S : e[1] <= x /\ x <= e[n]
      /\ r \in Seq(Text) /\ Len(r) = n
      /\ \A k \in 1 .. n : r[k] = SubSeq(t, e[k], EndOf(t, e[k]))
  BY RunsAre
<1>2. tail \in Seq(Text)
  <2>1. Len(t) + 1 \in 1 .. Len(t) + 1
    BY <1>0, LastPlace, Zenon
  <2> QED BY <2>1
<1>3. S = {k \in 1 .. L : t[k] # Blank /\ (k = 1 \/ t[k - 1] = Blank)}
  BY <1>0 DEF StartsOf
<1>4. /\ g \in [1 .. L + 1 -> Seq(Text)]
      /\ \A k \in 1 .. L : (\A j \in k .. L : t[j] = Blank) => g[k] = tail
      /\ \A k \in 1 .. L : \A x \in k .. L : \A z \in x .. L :
           /\ \A j \in k .. x - 1 : t[j] = Blank
           /\ \A j \in x .. z : t[j] # Blank
           /\ z = L \/ t[z + 1] = Blank
           => g[k] = << SubSeq(t, x, z) >> \o g[IF z = L THEN z + 1 ELSE z + 2]
  OBVIOUS
<1> HIDE DEF L, S, e, n, r, tail
\* The first character from k on that is no blank starts a run.
<1>5. ASSUME NEW k \in 1 .. L, k = 1 \/ t[k - 1] = Blank, NEW j \in k .. L, t[j] # Blank
      PROVE  \E x \in S : /\ x \in k .. j /\ \A i \in k .. x - 1 : t[i] = Blank
  <2> DEFINE B == {i \in k .. L : t[i] # Blank}
  <2>1. B \subseteq Nat /\ B # {}
    BY <1>0, <1>5
  <2>2. PICK x \in B : \A i \in B : x <= i
    <3> HIDE DEF B
    <3> QED BY <2>1, LeastNatural
  <2>3. x \in k .. L /\ t[x] # Blank /\ x <= j
    BY <1>5, <2>2
  <2>4. \A i \in k .. x - 1 : t[i] = Blank
    <3> SUFFICES ASSUME NEW i \in k .. x - 1, t[i] # Blank PROVE FALSE
      OBVIOUS
    <3>1. i \in B /\ ~ (x <= i)
      BY <1>0, <2>3
    <3> QED BY <2>2, <3>1
  <2>5. x = 1 \/ t[x - 1] = Blank
    <3>1. CASE x = k
      BY <1>5, <3>1
    <3>2. CASE x # k
      <4>1. x - 1 \in k .. x - 1
        BY <1>0, <2>3, <3>2
      <4> QED BY <2>4, <4>1
    <3> QED BY <3>1, <3>2
  <2>6. x \in S /\ x \in k .. j
    BY <1>0, <1>3, <2>3, <2>5
  <2> QED BY <2>4, <2>6
<1>6. P(n + 1)
  <2> SUFFICES ASSUME NEW k \in 1 .. L + 1, At(n + 1, k)
               PROVE  g[k] = SubSeq(r, n + 1, n) \o tail
    OBVIOUS
  <2>1. SubSeq(r, n + 1, n) \o tail = tail
    <3>1. SubSeq(r, n + 1, n) = <<>>
      BY <1>1, SubSeqEmpty
    <3> QED BY <1>2, <3>1, ConcatEmptySeq
  <2>2. CASE k = L + 1
    BY <2>1, <2>2 DEF tail
  <2>3. CASE k # L + 1
    <3>1. k \in 1 .. L /\ (k = 1 \/ t[k - 1] = Blank)
      BY <1>0, <2>3
    <3>2. \A x \in S : ~ (k <= x)
      BY <1>1
    <3>3. ASSUME NEW j \in k .. L, t[j] # Blank
          PROVE  FALSE
      <4>1. PICK x \in S : x \in k .. j
        BY <1>5, <3>1, <3>3
      <4> QED BY <1>0, <3>1, <3>2, <4>1
    <3>4. g[k] = tail
      BY <1>4, <3>1, <3>3
    <3> QED BY <2>1, <3>4
  <2> QED BY <2>2, <2>3
<1>7. ASSUME NEW m \in 1 .. n, P(m + 1)
      PROVE  P(m)
  <2> SUFFICES ASSUME NEW k \in 1 .. L + 1, At(m, k)
               PROVE  g[k] = SubSeq(r, m, n) \o tail
    OBVIOUS
  <2>1. PICK x : x = e[m]
    OBVIOUS
  <2>2. x \in S /\ x \in 1 .. L /\ t[x] # Blank /\ k <= x
    <3>1. x \in S
      BY <1>1, <2>1
    <3>2. x \in Nat /\ m <= n /\ x <= x
      BY <1>0, <1>1, <3>1
    <3> QED BY <1>3, <2>1, <3>1, <3>2
  <2>3. k \in 1 .. L /\ x \in k .. L /\ (k = 1 \/ t[k - 1] = Blank)
    BY <1>0, <2>2
  <2>4. ASSUME NEW j \in k .. x - 1
        PROVE  t[j] = Blank
    <3> SUFFICES ASSUME t[j] # Blank PROVE FALSE
      OBVIOUS
    <3>1. j \in k .. L
      BY <1>0, <2>3
    <3>2. PICK y \in S : y \in k .. j
      BY <1>5, <2>3, <3>1
    <3>3. k <= y /\ y < x
      BY <1>0, <2>3, <3>2
    <3>4. x <= y
      BY <2>1, <3>3
    <3>5. y \in Nat /\ x \in Nat
      BY <1>0, <2>3, <3>2
    <3> QED BY <3>3, <3>4, <3>5
  <2>5. PICK z : z = EndOf(t, x)
    OBVIOUS
  <2>6. z \in x .. L /\ (\A l \in x .. z : t[l] # Blank) /\ (z = L \/ t[z + 1] = Blank)
    <3>1. x \in 1 .. Len(t)
      BY <2>2 DEF L
    <3> QED BY <2>2, <2>5, <3>1, EndIs DEF L
  <2>7. PICK h : h = IF z = L THEN z + 1 ELSE z + 2
    OBVIOUS
  <2>8. g[k] = << SubSeq(t, x, z) >> \o g[h]
    BY <1>4, <2>3, <2>4, <2>6, <2>7
  <2>9. h \in 1 .. L + 1 /\ z < h /\ (h = L + 1 \/ t[h - 1] = Blank)
    <3>1. z \in Nat /\ z <= L
      BY <1>0, <2>2, <2>6
    <3>2. CASE z = L
      BY <1>0, <2>7, <3>1, <3>2
    <3>3. CASE z # L
      <4>1. h = z + 2 /\ h - 1 = z + 1
        BY <2>7, <3>1, <3>3
      <4> QED BY <1>0, <2>6, <3>1, <3>3, <4>1
    <3> QED BY <3>2, <3>3
  <2>10. ASSUME NEW y \in S
         PROVE  (h <= y) <=> (m + 1 <= n /\ e[m + 1] <= y)
    <3>1. y \in 1 .. L /\ t[y] # Blank /\ (y = 1 \/ t[y - 1] = Blank)
      BY <1>3
    <3>2. ASSUME h <= y
          PROVE  m + 1 <= n /\ e[m + 1] <= y
      <4>1. x < y
        BY <1>0, <2>2, <2>6, <2>9, <3>1, <3>2
      <4>2. m # n
        <5> SUFFICES ASSUME m = n PROVE FALSE
          OBVIOUS
        <5>1. y <= x
          BY <1>1, <2>1
        <5> QED BY <2>2, <3>1, <4>1, <5>1
      <4>3. m \in 1 .. n - 1 /\ m + 1 <= n
        BY <1>1, <4>2
      <4> QED BY <1>1, <2>1, <4>1, <4>3
    <3>3. ASSUME m + 1 <= n, e[m + 1] <= y
          PROVE  h <= y
      <4>1. m \in 1 .. n - 1 /\ m + 1 \in 1 .. n
        BY <1>1, <3>3
      <4>2. x < e[m + 1] /\ e[m + 1] \in 1 .. L
        BY <1>1, <2>1, <4>1
      <4>3. x < y
        BY <2>2, <3>1, <3>3, <4>2
      <4>4. ~ (y <= z)
        <5> SUFFICES ASSUME y <= z PROVE FALSE
          OBVIOUS
        <5>1. y # 1 /\ y - 1 \in x .. z
          BY <2>2, <2>6, <3>1, <4>3
        <5> QED BY <2>6, <3>1, <5>1
      <4>5. CASE z = L
        BY <1>0, <3>1, <4>4, <4>5
      <4>6. CASE z # L
        <5>1. y # z + 1
          BY <2>6, <3>1, <4>6
        <5>2. h = z + 2
          BY <2>7, <4>6
        <5> QED BY <2>2, <2>6, <3>1, <4>4, <5>1, <5>2
      <4> QED BY <4>5, <4>6
    <3> QED BY <3>2, <3>3
  <2>11. g[h] = SubSeq(r, m + 1, n) \o tail
    <3>1. At(m + 1, h)
      BY <2>9, <2>10
    <3> HIDE DEF At
    <3> QED BY <1>7, <2>9, <3>1
  <2>12. r[m] = SubSeq(t, x, z)
    BY <1>1, <2>1, <2>5
  <2>13. PICK w, v : w = << r[m] >> /\ v = SubSeq(r, m + 1, n)
    OBVIOUS
  <2>14. w \in Seq(Text) /\ v \in Seq(Text) /\ SubSeq(r, m, n) = w \o v
    BY <1>1, <2>13, FirstOf
  <2>15. g[k] = w \o (v \o tail)
    BY <2>8, <2>11, <2>12, <2>13
  <2>16. (w \o v) \o tail = w \o (v \o tail)
    BY <1>2, <2>14, ThreeParts, Zenon
  <2> QED BY <2>14, <2>15, <2>16
<1>8. P(1)
  <2> DEFINE N == {i \in Nat : i <= n => P(n + 1 - i)}
  <2> HIDE DEF P
  <2>1. 0 \in N
    BY <1>1, <1>6
  <2>2. ASSUME NEW i \in Nat, i \in N
        PROVE  i + 1 \in N
    <3> SUFFICES ASSUME i + 1 <= n PROVE P(n + 1 - (i + 1))
      OBVIOUS
    <3>1. PICK m : m = n + 1 - (i + 1)
      OBVIOUS
    <3>2. m \in 1 .. n /\ n + 1 - i = m + 1 /\ i <= n
      BY <1>1, <3>1
    <3> QED BY <1>7, <2>2, <3>1, <3>2
  <2> HIDE DEF N
  <2>3. n \in N
    BY <1>1, <2>1, <2>2, CountUp
  <2>4. n + 1 - n = 1 /\ n <= n
    BY <1>1
  <2> QED BY <2>3, <2>4 DEF N
<1>9. 1 \in 1 .. L + 1 /\ At(1, 1)
  <2>1. ASSUME NEW x \in S
        PROVE  (1 <= x) <=> (1 <= n /\ e[1] <= x)
    <3>1. x \in 1 .. L /\ n # 0 /\ e[1] <= x
      BY <1>1
    <3> QED BY <1>1, <3>1
  <2> QED BY <1>0, <2>1
<1>10. g[1] = SubSeq(r, 1, n) \o tail
  <2> HIDE DEF At
  <2> QED BY <1>8, <1>9
<1>11. SubSeq(r, 1, n) = r
  BY <1>1, SubSeqFull
<1> QED BY <1>10, <1>11 DEF r, tail, L

\* From position k on, blanks make no difference.
LEMMA BlanksSkipped ==
  ASSUME NEW buf \in Text, NEW f, Splits(f, buf),
         NEW k \in 1 .. Len(buf) + 1, NEW m \in k .. Len(buf) + 1,
         \A j \in k .. m - 1 : buf[j] = Blank
  PROVE  f[k] = f[m]
<1>0. Len(buf) \in Nat /\ k \in Nat /\ m \in Nat /\ m \in 1 .. Len(buf) + 1
  BY DEF Text
<1>1. PICK n : n = Skip(buf, m)
  OBVIOUS
<1>2. /\ n \in m .. Len(buf) + 1 /\ \A j \in m .. n - 1 : buf[j] = Blank
      /\ n <= Len(buf) => buf[n] # Blank
  BY <1>0, <1>1, SkipIs
<1>3. n \in k .. Len(buf) + 1 /\ \A j \in k .. n - 1 : buf[j] = Blank
  <2>1. \A j \in k .. n - 1 : j \in k .. m - 1 \/ j \in m .. n - 1
    BY <1>0, <1>2
  <2> QED BY <1>0, <1>2, <2>1
<1>4. Skip(buf, k) = n
  BY <1>2, <1>3, SkipsTo
<1>5. Turn(f, buf, k) = Turn(f, buf, m)
  <2>1. Quoted(buf, k) = Quoted(buf, m)
    BY <1>1, <1>4 DEF Quoted
  <2>2. Begin(buf, k) = Begin(buf, m)
    BY <1>1, <1>4, <2>1 DEF Begin
  <2>3. Delim(buf, k) = Delim(buf, m)
    BY <2>1, <2>2 DEF Delim
  <2> QED BY <2>2, <2>3 DEF Turn
<1> QED BY <1>0, <1>5 DEF Splits

\* A turn that starts with blanks, and then finds an argument which is not quoted ...
LEMMA PlainTurn ==
  ASSUME NEW buf \in Text, NEW f, Splits(f, buf),
         NEW k \in 1 .. Len(buf), NEW x \in k .. Len(buf), NEW z \in x .. Len(buf),
         \A j \in k .. x - 1 : buf[j] = Blank,
         \A j \in x .. z : buf[j] # Blank,
         buf[x] # Quote, z + 1 <= Len(buf), buf[z + 1] = Blank
  PROVE  f[k] = << SubSeq(buf, x, z) >> \o f[z + 2]
<1>0. Len(buf) \in Nat /\ k \in Nat /\ x \in Nat /\ z \in Nat
  BY DEF Text
<1>1. Skip(buf, k) = x
  <2>1. k \in 1 .. Len(buf) + 1 /\ x \in k .. Len(buf) + 1 /\ buf[x] # Blank
    BY <1>0
  <2> QED BY <2>1, SkipsTo
<1>2. ~ Quoted(buf, k)
  BY <1>1 DEF Quoted
<1>3. Begin(buf, k) = x
  BY <1>1, <1>2 DEF Begin
<1>4. Delim(buf, k) = z + 1
  <2>1. x \in Nat \ {0} /\ z + 1 \in x .. Len(buf) /\ (\A j \in x .. (z + 1) - 1 : buf[j] # Blank)
    BY <1>0
  <2>2. strchr(buf, x, Blank) = z + 1
    BY <2>1, StrchrTo
  <2> QED BY <1>2, <1>3, <2>2 DEF Delim
<1>5. k \in 1 .. Len(buf) + 1 /\ z + 1 # 0 /\ (z + 1) - 1 = z /\ (z + 1) + 1 = z + 2
  BY <1>0
<1>6. f[k] = Turn(f, buf, k)
  BY <1>5 DEF Splits
<1>7. Turn(f, buf, k) = << SubSeq(buf, x, z) >> \o f[z + 2]
  BY <1>3, <1>4, <1>5 DEF Turn
<1> QED BY <1>6, <1>7

\* ... or one which is, and ends with the next quote, or does not.
LEMMA QuotedTurn ==
  ASSUME NEW buf \in Text, NEW f, Splits(f, buf), NEW q \in 1 .. Len(buf), buf[q] = Quote
  PROVE  /\ (\A j \in q + 1 .. Len(buf) : buf[j] # Quote) => f[q] = <<>>
         /\ \A r \in q + 1 .. Len(buf) :
              buf[r] = Quote /\ (\A j \in q + 1 .. r - 1 : buf[j] # Quote)
                => f[q] = << SubSeq(buf, q + 1, r - 1) >> \o f[r + 1]
<1>0. Len(buf) \in Nat /\ q \in Nat /\ q \in 1 .. Len(buf) + 1 /\ q + 1 \in Nat \ {0}
  BY DEF Text
<1>1. Skip(buf, q) = q
  <2>1. q \in q .. Len(buf) + 1 /\ q .. q - 1 = {}
    BY <1>0
  <2>2. buf[q] # Blank
    <3>1. Quote # Blank
      BY DEF Quote, Blank
    <3> QED BY <3>1
  <2> QED BY <1>0, <2>1, <2>2, SkipsTo
<1>2. Quoted(buf, q) /\ Begin(buf, q) = q + 1
  BY <1>0, <1>1 DEF Quoted, Begin
<1>3. Delim(buf, q) = strchr(buf, q + 1, Quote)
  BY <1>2 DEF Delim
<1>4. f[q] = Turn(f, buf, q)
  BY <1>0 DEF Splits
<1>5. ASSUME \A j \in q + 1 .. Len(buf) : buf[j] # Quote
      PROVE  f[q] = <<>>
  <2>1. PICK d : d = strchr(buf, q + 1, Quote)
    OBVIOUS
  <2>2. d = 0
    BY <1>0, <1>5, <2>1, StrchrIs
  <2> QED BY <1>3, <1>4, <2>1, <2>2 DEF Turn
<1>6. ASSUME NEW r \in q + 1 .. Len(buf), buf[r] = Quote, \A j \in q + 1 .. r - 1 : buf[j] # Quote
      PROVE  f[q] = << SubSeq(buf, q + 1, r - 1) >> \o f[r + 1]
  <2>1. strchr(buf, q + 1, Quote) = r
    BY <1>0, <1>6, StrchrTo
  <2>2. r # 0
    BY <1>0
  <2> QED BY <1>2, <1>3, <1>4, <2>1, <2>2 DEF Turn
<1> QED BY <1>5, <1>6

\* A stretch without quotes, from the beginning or behind an argument to a blank or
\* up to it, is split into its runs.
LEMMA Stretch ==
  ASSUME NEW buf \in Text, NEW f, Splits(f, buf),
         NEW lo \in 0 .. Len(buf), NEW hi \in lo .. Len(buf), NEW t, t = SubSeq(buf, lo + 1, hi),
         \A j \in lo + 1 .. hi : buf[j] # Quote,
         hi = lo \/ buf[hi] = Blank \/ (hi + 1 <= Len(buf) /\ buf[hi + 1] = Blank)
  PROVE  f[lo + 1] = Runs(t) \o f[hi + 1]
<1>0. Len(buf) \in Nat /\ lo \in Nat /\ hi \in Nat /\ lo <= hi /\ hi <= Len(buf)
  BY DEF Text
<1>1. PICK L : L = hi - lo
  OBVIOUS
<1>2. L \in Nat /\ hi = lo + L
  BY <1>0, <1>1
<1>3. t \in Text /\ Len(t) = L /\ \A j \in 1 .. L : t[j] = buf[lo + j]
  <2>1. lo + 1 \in 1 .. Len(buf) + 1 /\ hi \in 0 .. Len(buf)
    BY <1>0
  <2>2. t \in Text
    BY <2>1, SubText
  <2>3. \A i \in lo + 1 .. hi : buf[i] \in Char
    BY <1>0 DEF Text
  <2>4. /\ Len(t) = IF lo + 1 <= hi THEN hi - (lo + 1) + 1 ELSE 0
        /\ \A i \in 1 .. hi - (lo + 1) + 1 : t[i] = buf[(lo + 1) + i - 1]
    <3>1. lo + 1 \in Int /\ hi \in Int
      BY <1>0
    <3> QED BY <2>3, <3>1, SubSeqProperties
  <2>5. \A j \in 1 .. L : (lo + 1) + j - 1 = lo + j
    BY <1>0, <1>2
  <2> QED BY <1>0, <1>2, <2>2, <2>4, <2>5
<1> DEFINE g == [k \in 1 .. L + 1 |-> f[lo + k]]
<1>4. \A k \in 1 .. L + 1 : lo + k \in 1 .. Len(buf) + 1
  BY <1>0, <1>2
<1>5. g \in [1 .. Len(t) + 1 -> Seq(Text)] /\ g[1] = f[lo + 1] /\ g[Len(t) + 1] = f[hi + 1]
  <2>1. \A k \in 1 .. L + 1 : f[lo + k] \in Seq(Text)
    BY <1>4 DEF Splits
  <2>2. 1 \in 1 .. L + 1 /\ L + 1 \in 1 .. L + 1 /\ lo + (L + 1) = hi + 1
    BY <1>0, <1>2
  <2> QED BY <1>3, <2>1, <2>2
<1>6. ASSUME NEW k \in 1 .. Len(t), \A j \in k .. Len(t) : t[j] = Blank
      PROVE  g[k] = g[Len(t) + 1]
  <2>1. lo + k \in 1 .. Len(buf) + 1 /\ hi + 1 \in lo + k .. Len(buf) + 1 /\ k \in 1 .. L + 1
    BY <1>0, <1>2, <1>3
  <2>2. ASSUME NEW j \in lo + k .. (hi + 1) - 1
        PROVE  buf[j] = Blank
    <3>1. j - lo \in k .. L /\ lo + (j - lo) = j /\ j - lo \in 1 .. L
      BY <1>0, <1>2, <1>3
    <3> QED BY <1>3, <1>6, <3>1
  <2>3. f[lo + k] = f[hi + 1]
    BY <2>1, <2>2, BlanksSkipped
  <2> QED BY <1>5, <2>1, <2>3
<1>7. ASSUME NEW k \in 1 .. Len(t), NEW x \in k .. Len(t), NEW z \in x .. Len(t),
             \A j \in k .. x - 1 : t[j] = Blank,
             \A j \in x .. z : t[j] # Blank,
             z = Len(t) \/ t[z + 1] = Blank
      PROVE  g[k] = << SubSeq(t, x, z) >> \o g[IF z = Len(t) THEN z + 1 ELSE z + 2]
  <2>0. k \in 1 .. L /\ x \in k .. L /\ z \in x .. L /\ k \in Nat /\ x \in Nat /\ z \in Nat
    BY <1>2, <1>3
  <2>1. PICK kk, xx, zz : kk = lo + k /\ xx = lo + x /\ zz = lo + z
    OBVIOUS
  <2>2. kk \in 1 .. Len(buf) /\ xx \in kk .. Len(buf) /\ zz \in xx .. Len(buf)
    BY <1>0, <1>2, <2>0, <2>1
  <2>3. ASSUME NEW j \in kk .. xx - 1
        PROVE  buf[j] = Blank
    <3>1. j - lo \in k .. x - 1 /\ lo + (j - lo) = j /\ j - lo \in 1 .. L
      BY <1>0, <1>2, <2>0, <2>1
    <3> QED BY <1>3, <1>7, <3>1
  <2>4. ASSUME NEW j \in xx .. zz
        PROVE  buf[j] # Blank
    <3>1. j - lo \in x .. z /\ lo + (j - lo) = j /\ j - lo \in 1 .. L
      BY <1>0, <1>2, <2>0, <2>1
    <3> QED BY <1>3, <1>7, <3>1
  <2>5. buf[xx] # Quote
    BY <1>0, <1>2, <2>0, <2>1
  <2>6. zz + 1 <= Len(buf) /\ buf[zz + 1] = Blank
    <3>1. CASE z = L
      <4>1. zz = hi /\ hi # lo
        BY <1>0, <1>2, <2>0, <2>1, <3>1
      <4>2. buf[hi] # Blank
        BY <2>2, <2>4, <4>1
      <4> QED BY <4>1, <4>2
    <3>2. CASE z # L
      <4>1. z + 1 \in 1 .. L /\ lo + (z + 1) = zz + 1 /\ zz + 1 <= Len(buf)
        BY <1>0, <1>2, <2>0, <2>1, <3>2
      <4> QED BY <1>3, <1>7, <3>2, <4>1
    <3> QED BY <3>1, <3>2
  <2>7. f[kk] = << SubSeq(buf, xx, zz) >> \o f[zz + 2]
    BY <2>2, <2>3, <2>4, <2>5, <2>6, PlainTurn, ZenonT(30)
  <2>8. SubSeq(t, x, z) = SubSeq(buf, xx, zz)
    <3>1. SubSeq(t, x, z) = [i \in 1 .. z - x + 1 |-> t[x + i - 1]]
      BY <2>0
    <3>2. SubSeq(buf, xx, zz) = [i \in 1 .. zz - xx + 1 |-> buf[xx + i - 1]]
      BY <2>2
    <3>3. zz - xx + 1 = z - x + 1
      BY <1>0, <2>0, <2>1
    <3>4. ASSUME NEW i \in 1 .. z - x + 1
          PROVE  t[x + i - 1] = buf[xx + i - 1]
      <4>1. x + i - 1 \in 1 .. L /\ lo + (x + i - 1) = xx + i - 1
        BY <1>0, <1>2, <2>0, <2>1
      <4> QED BY <1>3, <4>1
    <3> QED BY <3>1, <3>2, <3>3, <3>4
  <2>9. f[zz + 2] = g[IF z = Len(t) THEN z + 1 ELSE z + 2]
    <3>1. CASE z = L
      <4>1. /\ zz = hi /\ hi + 1 \in 1 .. Len(buf) + 1 /\ hi + 2 \in hi + 1 .. Len(buf) + 1
            /\ \A j \in hi + 1 .. (hi + 2) - 1 : j = hi + 1
        BY <1>0, <1>2, <2>1, <2>6, <3>1
      <4>2. \A j \in hi + 1 .. (hi + 2) - 1 : buf[j] = Blank
        BY <2>6, <4>1
      <4>3. f[hi + 1] = f[hi + 2]
        BY <4>1, <4>2, BlanksSkipped
      <4> QED BY <1>3, <1>5, <3>1, <4>1, <4>3
    <3>2. CASE z # L
      <4>1. z + 2 \in 1 .. L + 1 /\ lo + (z + 2) = zz + 2
        BY <1>0, <1>2, <2>0, <2>1, <3>2
      <4> QED BY <1>3, <3>2, <4>1
    <3> QED BY <3>1, <3>2
  <2>10. g[k] = f[kk]
    <3>1. k \in 1 .. L + 1
      BY <1>2, <2>0
    <3> QED BY <2>1, <3>1
  <2> HIDE DEF g
  <2> QED BY <2>7, <2>8, <2>9, <2>10
<1> HIDE DEF g
<1>8. g[1] = Runs(t) \o g[Len(t) + 1]
  BY <1>3, <1>5, <1>6, <1>7, RunsBy, ZenonT(30)
<1> QED BY <1>5, <1>8

\* What parseline splits: a text, and a blank behind it.
Padded(s, buf) ==
  /\ s \in Text /\ buf \in Text /\ Len(s) \in Nat /\ Len(buf) = Len(s) + 1
  /\ \A i \in 1 .. Len(s) : buf[i] = s[i]
  /\ buf[Len(s) + 1] = Blank

LEMMA PaddedIs ==
  ASSUME NEW s \in Text
  PROVE  Padded(s, Append(s, Blank))
<1>1. Blank \in Char /\ s \in Seq(Char) /\ Len(s) \in Nat
  BY DEF Char, Text
<1>2. PICK buf : buf = Append(s, Blank)
  OBVIOUS
<1>3. /\ buf \in Seq(Char) /\ Len(buf) = Len(s) + 1
      /\ \A i \in 1 .. Len(s) : buf[i] = s[i]
      /\ buf[Len(s) + 1] = Blank
  BY <1>1, <1>2, AppendProperties
<1> QED BY <1>1, <1>2, <1>3 DEF Padded, Text

\* A part of the text is a part of the buffer.
LEMMA PartIs ==
  ASSUME NEW s, NEW buf, Padded(s, buf), NEW i \in 1 .. Len(s) + 1, NEW j \in 0 .. Len(s)
  PROVE  SubSeq(buf, i, j) = SubSeq(s, i, j) /\ SubSeq(s, i, j) \in Text
<1>1. Len(s) \in Nat /\ (\A k \in 1 .. Len(s) : buf[k] = s[k])
  BY DEF Padded
<1>2. SubSeq(s, i, j) \in Text
  BY SubText DEF Padded
<1>3. SubSeq(buf, i, j) = [k \in 1 .. j - i + 1 |-> buf[i + k - 1]]
  BY <1>1
<1>4. SubSeq(s, i, j) = [k \in 1 .. j - i + 1 |-> s[i + k - 1]]
  BY <1>1
<1>5. \A k \in 1 .. j - i + 1 : i + k - 1 \in 1 .. Len(s)
  BY <1>1
<1> QED BY <1>1, <1>2, <1>3, <1>4, <1>5

LEMMA RunsText ==
  ASSUME NEW t \in Text
  PROVE  Runs(t) \in Seq(Text)
BY RunsAre

\* From the blank behind the text on there are no arguments.
LEMMA NoneBehind ==
  ASSUME NEW s, NEW buf, Padded(s, buf), NEW f, Splits(f, buf), NEW n, n = Len(s)
  PROVE  f[n + 1] = <<>>
<1>0. n \in Nat /\ buf \in Text /\ Len(buf) = n + 1 /\ buf[n + 1] = Blank
  BY DEF Padded
<1>1. /\ n + 1 \in 1 .. Len(buf) + 1 /\ n + 2 \in n + 1 .. Len(buf) + 1
      /\ n + 2 \in 1 .. Len(buf) + 1
  BY <1>0
<1>2. \A j \in n + 1 .. (n + 2) - 1 : buf[j] = Blank
  <2>1. \A j \in n + 1 .. (n + 2) - 1 : j = n + 1
    BY <1>0
  <2> QED BY <1>0, <2>1
<1>3. f[n + 1] = f[n + 2]
  <2>1. PICK k, m : k = n + 1 /\ m = n + 2
    OBVIOUS
  <2>2. f[k] = f[m]
    BY <1>0, <1>1, <1>2, <2>1, BlanksSkipped
  <2> QED BY <2>1, <2>2
<1>4. PICK d : d = Delim(buf, n + 2)
  OBVIOUS
<1>5. d = 0
  <2>1. d = 0 \/ d \in (n + 2) + 1 .. Len(buf)
    BY <1>0, <1>1, <1>4, DelimIs
  <2> QED BY <1>0, <2>1
<1>6. f[n + 2] = Turn(f, buf, n + 2)
  BY <1>1 DEF Splits
<1> QED BY <1>3, <1>4, <1>5, <1>6 DEF Turn

\* The stretch behind all quotes.
LEMMA StretchBehind ==
  ASSUME NEW s, NEW buf, Padded(s, buf), NEW f, Splits(f, buf), NEW lo \in 0 .. Len(s),
         \A j \in lo + 1 .. Len(s) : s[j] # Quote
  PROVE  f[lo + 1] = Runs(SubSeq(s, lo + 1, Len(s))) /\ SubSeq(s, lo + 1, Len(s)) \in Text
<1>0. PICK n, t : n = Len(s) /\ t = SubSeq(s, lo + 1, n)
  OBVIOUS
<1>1. /\ n \in Nat /\ buf \in Text /\ Len(buf) = n + 1 /\ buf[n + 1] = Blank
      /\ \A i \in 1 .. n : buf[i] = s[i]
  BY <1>0 DEF Padded
<1>2. lo \in 0 .. Len(buf) /\ n \in lo .. Len(buf) /\ n + 1 <= Len(buf)
  BY <1>0, <1>1
<1>3. t = SubSeq(buf, lo + 1, n) /\ t \in Text
  <2>1. lo + 1 \in 1 .. n + 1 /\ n \in 0 .. n
    BY <1>0, <1>1
  <2> QED BY <1>0, <2>1, PartIs
<1>4. \A j \in lo + 1 .. n : buf[j] # Quote
  <2>1. \A j \in lo + 1 .. n : j \in 1 .. n
    BY <1>0, <1>1
  <2> QED BY <1>0, <1>1, <2>1
<1>5. f[lo + 1] = Runs(t) \o f[n + 1]
  BY <1>1, <1>2, <1>3, <1>4, Stretch, ZenonT(30)
<1>6. Runs(t) \o <<>> = Runs(t)
  <2>1. Runs(t) \in Seq(Text)
    BY <1>3, RunsText
  <2> QED BY <2>1, ConcatEmptySeq
<1>7. f[n + 1] = <<>>
  BY <1>0, NoneBehind
<1> QED BY <1>0, <1>3, <1>5, <1>6, <1>7

\* The stretch before the first quote, which starts an argument.
LEMMA StretchBefore ==
  ASSUME NEW s, NEW buf, Padded(s, buf), NEW f, Splits(f, buf), NEW q \in 1 .. Len(s),
         \A j \in 1 .. q - 1 : s[j] # Quote, q = 1 \/ s[q - 1] = Blank
  PROVE  f[1] = Runs(SubSeq(s, 1, q - 1)) \o f[q] /\ SubSeq(s, 1, q - 1) \in Text
<1>0. PICK h, lo, t : h = q - 1 /\ lo = 0 /\ t = SubSeq(s, 1, h)
  OBVIOUS
<1>1. /\ Len(s) \in Nat /\ buf \in Text /\ Len(buf) = Len(s) + 1
      /\ \A i \in 1 .. Len(s) : buf[i] = s[i]
  BY DEF Padded
<1>2. lo \in 0 .. Len(buf) /\ h \in lo .. Len(buf) /\ h + 1 = q /\ lo + 1 = 1 /\ h \in 0 .. Len(s)
  BY <1>0, <1>1
<1>3. t = SubSeq(buf, lo + 1, h) /\ t \in Text
  <2>1. 1 \in 1 .. Len(s) + 1
    BY <1>1
  <2> QED BY <1>0, <1>2, <2>1, PartIs
<1>4. \A j \in lo + 1 .. h : buf[j] # Quote
  <2>1. \A j \in lo + 1 .. h : j \in 1 .. q - 1 /\ j \in 1 .. Len(s)
    BY <1>0, <1>1
  <2> QED BY <1>1, <2>1
<1>5. h = lo \/ buf[h] = Blank \/ (h + 1 <= Len(buf) /\ buf[h + 1] = Blank)
  <2>1. CASE q = 1
    BY <1>0, <2>1
  <2>2. CASE q # 1
    <3>1. h \in 1 .. Len(s) /\ s[h] = Blank
      BY <1>0, <1>1, <2>2
    <3> QED BY <1>1, <3>1
  <2> QED BY <2>1, <2>2
<1>6. f[lo + 1] = Runs(t) \o f[h + 1]
  <2>1. lo \in 0 .. Len(buf) /\ h \in lo .. Len(buf) /\ buf \in Text
    BY <1>1, <1>2
  <2>2. t = SubSeq(buf, lo + 1, h) /\ (\A j \in lo + 1 .. h : buf[j] # Quote)
    BY <1>3, <1>4
  <2> QED BY <1>5, <2>1, <2>2, Stretch, ZenonT(60)
<1> QED BY <1>0, <1>2, <1>3, <1>6

\* A text without quotes, with one that is not closed, and with one that is.
LEMMA WordsUnquoted ==
  ASSUME NEW s, NEW buf, Padded(s, buf), \A j \in 1 .. Len(s) : s[j] # Quote
  PROVE  Words(buf) = Runs(s)
<1>1. PICK f : Splits(f, buf)
  BY SplitsExist DEF Padded
<1>2. Words(buf) = f[1]
  BY <1>1, WordsAre DEF Padded
<1>3. f[0 + 1] = Runs(SubSeq(s, 0 + 1, Len(s)))
  <2>1. PICK lo : lo = 0
    OBVIOUS
  <2>2. lo \in 0 .. Len(s) /\ \A j \in lo + 1 .. Len(s) : s[j] # Quote
    BY <2>1 DEF Padded
  <2>3. f[lo + 1] = Runs(SubSeq(s, lo + 1, Len(s)))
    BY <1>1, <2>2, StretchBehind
  <2> QED BY <2>1, <2>3
<1>4. SubSeq(s, 1, Len(s)) = s
  BY SubSeqFull DEF Padded, Text
<1>5. 0 + 1 = 1
  OBVIOUS
<1> QED BY <1>2, <1>3, <1>4, <1>5

LEMMA WordsOpen ==
  ASSUME NEW s, NEW buf, Padded(s, buf), NEW q \in 1 .. Len(s), s[q] = Quote,
         \A j \in 1 .. Len(s) : j # q => s[j] # Quote, q = 1 \/ s[q - 1] = Blank
  PROVE  Words(buf) = Runs(SubSeq(s, 1, q - 1))
<1>0. /\ Len(s) \in Nat /\ buf \in Text /\ Len(buf) = Len(s) + 1
      /\ (\A i \in 1 .. Len(s) : buf[i] = s[i]) /\ buf[Len(s) + 1] = Blank
  BY DEF Padded
<1>1. PICK f : Splits(f, buf)
  BY <1>0, SplitsExist
<1>2. Words(buf) = f[1]
  BY <1>0, <1>1, WordsAre
<1>3. PICK t : t = SubSeq(s, 1, q - 1)
  OBVIOUS
<1>4. f[1] = Runs(t) \o f[q] /\ t \in Text
  <2>1. \A j \in 1 .. q - 1 : j \in 1 .. Len(s) /\ j # q
    BY <1>0
  <2>2. \A j \in 1 .. q - 1 : s[j] # Quote
    BY <2>1
  <2>3. f[1] = Runs(SubSeq(s, 1, q - 1)) \o f[q] /\ SubSeq(s, 1, q - 1) \in Text
    BY <1>1, <2>2, StretchBefore, Zenon
  <2> QED BY <1>3, <2>3
<1>5. f[q] = <<>>
  <2>1. q \in 1 .. Len(buf) /\ buf[q] = Quote
    BY <1>0
  <2>2. Quote # Blank
    BY DEF Quote, Blank
  <2>3. ASSUME NEW j \in q + 1 .. Len(buf)
        PROVE  buf[j] # Quote
    <3>1. (j \in 1 .. Len(s) /\ j # q) \/ j = Len(s) + 1
      BY <1>0
    <3> QED BY <1>0, <2>2, <3>1
  <2> QED BY <1>0, <1>1, <2>1, <2>3, QuotedTurn
<1>6. Runs(t) \o <<>> = Runs(t)
  <2>1. Runs(t) \in Seq(Text)
    BY <1>4, RunsText
  <2> QED BY <2>1, ConcatEmptySeq
<1> QED BY <1>2, <1>3, <1>4, <1>5, <1>6

LEMMA WordsClosed ==
  ASSUME NEW s, NEW buf, Padded(s, buf),
         NEW q \in 1 .. Len(s), NEW r \in q + 1 .. Len(s), s[q] = Quote, s[r] = Quote,
         \A j \in 1 .. Len(s) : j # q /\ j # r => s[j] # Quote, q = 1 \/ s[q - 1] = Blank
  PROVE  Words(buf) = Runs(SubSeq(s, 1, q - 1)) \o << SubSeq(s, q + 1, r - 1) >>
                        \o Runs(SubSeq(s, r + 1, Len(s)))
<1>0. /\ Len(s) \in Nat /\ buf \in Text /\ Len(buf) = Len(s) + 1
      /\ (\A i \in 1 .. Len(s) : buf[i] = s[i])
  BY DEF Padded
<1>1. PICK f : Splits(f, buf)
  BY <1>0, SplitsExist
<1>2. Words(buf) = f[1]
  BY <1>0, <1>1, WordsAre
<1>3. PICK t, w, u : /\ t = SubSeq(s, 1, q - 1) /\ w = SubSeq(s, q + 1, r - 1)
                     /\ u = SubSeq(s, r + 1, Len(s))
  OBVIOUS
<1>4. f[1] = Runs(t) \o f[q] /\ t \in Text
  <2>1. \A j \in 1 .. q - 1 : j \in 1 .. Len(s) /\ j # q /\ j # r
    BY <1>0
  <2>2. \A j \in 1 .. q - 1 : s[j] # Quote
    BY <2>1
  <2>3. f[1] = Runs(SubSeq(s, 1, q - 1)) \o f[q] /\ SubSeq(s, 1, q - 1) \in Text
    BY <1>1, <2>2, StretchBefore, Zenon
  <2> QED BY <1>3, <2>3
<1>5. w = SubSeq(buf, q + 1, r - 1) /\ w \in Text
  <2>1. q + 1 \in 1 .. Len(s) + 1 /\ r - 1 \in 0 .. Len(s)
    BY <1>0
  <2> QED BY <1>3, <2>1, PartIs
<1>6. f[q] = << w >> \o f[r + 1]
  <2>1. q \in 1 .. Len(buf) /\ r \in q + 1 .. Len(buf) /\ buf[q] = Quote /\ buf[r] = Quote
    BY <1>0
  <2>2. ASSUME NEW j \in q + 1 .. r - 1
        PROVE  buf[j] # Quote
    <3>1. j \in 1 .. Len(s) /\ j # q /\ j # r
      BY <1>0
    <3> QED BY <1>0, <3>1
  <2>3. \A x \in q + 1 .. Len(buf) :
          buf[x] = Quote /\ (\A j \in q + 1 .. x - 1 : buf[j] # Quote)
            => f[q] = << SubSeq(buf, q + 1, x - 1) >> \o f[x + 1]
    BY <1>0, <1>1, <2>1, QuotedTurn
  <2> QED BY <1>5, <2>1, <2>2, <2>3
<1>7. f[r + 1] = Runs(u) /\ u \in Text
  <2>1. r \in 0 .. Len(s) /\ \A j \in r + 1 .. Len(s) : j \in 1 .. Len(s) /\ j # q /\ j # r
    BY <1>0
  <2>2. \A j \in r + 1 .. Len(s) : s[j] # Quote
    BY <2>1
  <2> QED BY <1>1, <1>3, <2>1, <2>2, StretchBehind
<1>8. PICK x, y, z : x = Runs(t) /\ y = << w >> /\ z = Runs(u)
  OBVIOUS
<1>9. x \in Seq(Text) /\ y \in Seq(Text) /\ z \in Seq(Text)
  BY <1>4, <1>5, <1>7, <1>8, RunsText
<1>10. (x \o y) \o z = x \o (y \o z)
  BY <1>9, ConcatAssociative
<1>11. Words(buf) = x \o (y \o z)
  BY <1>2, <1>4, <1>6, <1>7, <1>8
<1> QED BY <1>3, <1>8, <1>10, <1>11

\* The positions of the quotes, if there are one or two.
LEMMA OneOrTwo ==
  ASSUME NEW S, S \subseteq Nat, IsFiniteSet(S), S # {}, NEW q, q = Min(S), NEW r, r = Max(S)
  PROVE  /\ q \in S /\ \A x \in S : q <= x
         /\ Cardinality(S) = 1 => S = {q}
         /\ Cardinality(S) = 2 => S = {q, r} /\ q < r
<1>1. q \in S /\ \A x \in S : q <= x
  BY MinOf
<1>2. ASSUME Cardinality(S) = 1
      PROVE  S = {q}
  <2>1. \E x : S = {x}
    BY <1>2, FS_Singleton
  <2> QED BY <1>1, <2>1
<1>3. ASSUME Cardinality(S) = 2
      PROVE  S = {q, r} /\ q < r
  <2>1. PICK T : T = S \ {q}
    OBVIOUS
  <2>2. IsFiniteSet(T) /\ Cardinality(T) = Cardinality(S) - 1
    BY <1>1, <2>1, FS_RemoveElement
  <2>3. Cardinality(T) = 1
    BY <1>3, <2>2
  <2>4. \E p : T = {p}
    BY <2>2, <2>3, FS_Singleton
  <2>5. PICK p : T = {p}
    BY <2>4
  <2>6. S = {q, p} /\ p # q
    BY <1>1, <2>1, <2>5
  <2>7. q \in Nat /\ p \in Nat /\ q <= p
    BY <1>1, <2>6
  <2>8. \A x \in S : x <= p
    BY <2>6, <2>7
  <2>9. r = p
    <3>1. p \in S
      BY <2>6
    <3> QED BY <2>8, <3>1, MaxIs
  <2> QED BY <2>6, <2>7, <2>9
<1> QED BY <1>1, <1>2, <1>3

\* Of a line with its newline and no NUL, parseline copies all but the newline.
LEMMA CopyOfLine ==
  ASSUME NEW s \in Text, s # <<>>, Last(s) = Newline, NUL \notin Range(s)
  PROVE  Copy(s) = Append(Front(s), Blank) /\ Front(s) \in Text
<1>1. Len(s) \in Nat \ {0} /\ DOMAIN s = 1 .. Len(s)
  BY DEF Text
<1>2. {k \in DOMAIN s : s[k] = NUL} = {}
  BY DEF Range
<1>3. Min({Len(s) + 1} \cup {k \in DOMAIN s : s[k] = NUL}) = Len(s) + 1
  <2>1. PICK S : S = {Len(s) + 1}
    OBVIOUS
  <2>2. Min(S) = Len(s) + 1
    BY <1>1, <2>1, MinIs
  <2> QED BY <1>2, <2>1, <2>2
<1>4. CString(s) = SubSeq(s, 1, (Len(s) + 1) - 1)
  BY <1>3 DEF CString
<1>5. CString(s) = s
  <2>1. (Len(s) + 1) - 1 = Len(s)
    BY <1>1
  <2>2. SubSeq(s, 1, Len(s)) = s
    BY SubSeqFull DEF Text
  <2> QED BY <1>4, <2>1, <2>2
<1>6. 1 \in 1 .. Len(s) + 1 /\ Len(s) - 1 \in 0 .. Len(s)
  BY <1>1
<1> QED BY <1>5, <1>6, SubText DEF Copy, Front

\* What parseline makes of a line: the words of it that blanks separate and what
\* stands in quotes, for every line that main evaluates, however long.
THEOREM ArgumentsAreWords == Spec => []ArgumentsAreTheWords
<1>1. LineInv => ArgumentsAreTheWords
  <2> SUFFICES ASSUME LineInv, at = "eval", Last(line) = Newline, NUL \notin Range(line)
               PROVE  ArgumentsAreTheWords
    BY DEF ArgumentsAreTheWords
  <2>1. line \in Text /\ line # <<>>
    BY DEF LineInv
  <2>2. PICK s, buf : s = Front(line) /\ buf = Copy(line)
    OBVIOUS
  <2>3. Padded(s, buf) /\ s \in Text /\ Len(s) \in Nat /\ DOMAIN s = 1 .. Len(s)
    <3>1. buf = Append(s, Blank) /\ s \in Text
      BY <2>1, <2>2, CopyOfLine
    <3>2. Len(s) \in Nat /\ DOMAIN s = 1 .. Len(s)
      BY <3>1 DEF Text
    <3> QED BY <3>1, <3>2, PaddedIs
  <2>4. PICK quotes, q, r : /\ quotes = {k \in DOMAIN s : s[k] = Quote}
                            /\ q = Min(quotes) /\ r = Max(quotes)
    OBVIOUS
  <2>5. quotes \subseteq 1 .. Len(s) /\ \A k \in 1 .. Len(s) : k \in quotes <=> s[k] = Quote
    BY <2>3, <2>4
  <2>6. quotes \subseteq Nat /\ IsFiniteSet(quotes)
    <3>1. IsFiniteSet(1 .. Len(s)) /\ 1 .. Len(s) \subseteq Nat
      BY <2>3, FS_Interval
    <3> QED BY <2>5, <3>1, FS_Subset
  <2>7. ASSUME quotes = {}
        PROVE  Words(buf) = Runs(s)
    <3>1. \A j \in 1 .. Len(s) : s[j] # Quote
      BY <2>5, <2>7
    <3> QED BY <2>3, <3>1, WordsUnquoted
  <2>8. ASSUME quotes # {}
        PROVE  /\ q \in quotes /\ \A x \in quotes : q <= x
               /\ Cardinality(quotes) = 1 => quotes = {q}
               /\ Cardinality(quotes) = 2 => quotes = {q, r} /\ q < r
    BY <2>4, <2>6, <2>8, OneOrTwo, Zenon
  <2>9. ASSUME quotes # {}, q = 1 \/ s[q - 1] = Blank, Cardinality(quotes) = 1
        PROVE  Words(buf) = Runs(SubSeq(s, 1, q - 1))
    <3>1. q \in 1 .. Len(s) /\ s[q] = Quote /\ \A j \in 1 .. Len(s) : j # q => s[j] # Quote
      BY <2>5, <2>8, <2>9
    <3> QED BY <2>3, <2>9, <3>1, WordsOpen
  <2>10. ASSUME quotes # {}, q = 1 \/ s[q - 1] = Blank, Cardinality(quotes) = 2
         PROVE  Words(buf) = Runs(SubSeq(s, 1, q - 1)) \o << SubSeq(s, q + 1, r - 1) >>
                               \o Runs(SubSeq(s, r + 1, Len(s)))
    <3>1. /\ q \in 1 .. Len(s) /\ r \in 1 .. Len(s) /\ q < r /\ s[q] = Quote /\ s[r] = Quote
          /\ \A j \in 1 .. Len(s) : j # q /\ j # r => s[j] # Quote
      BY <2>5, <2>8, <2>10
    <3>2. r \in q + 1 .. Len(s)
      BY <2>3, <3>1
    <3> QED BY <2>3, <2>10, <3>1, <3>2, WordsClosed
  <2> QED BY <2>2, <2>4, <2>7, <2>9, <2>10 DEF ArgumentsAreTheWords
<1> QED BY <1>1, InputInvariant, PTL DEF InputInv

-----------------------------------------------------------------------------
(* Numerals, and what strtol makes of them.                                *)

Figures == Range(Digits)

\* The ten digits differ, and none is a blank, a sign or the percent sign.
LEMMA DigitsDiffer ==
  /\ \A d, e \in 0 .. 9 : Digits[d + 1] = Digits[e + 1] => d = e
  /\ \A d \in 0 .. 9 : Digits[d + 1] \in Figures
  /\ \A c \in Figures : \E d \in 0 .. 9 : c = Digits[d + 1]
  /\ \A c \in Figures : c \notin {Blank, "-", "+", "%"}
<1>1. \A d, e \in 0 .. 9 : Digits[d + 1] = Digits[e + 1] => d = e
  BY DEF Digits
<1>2. DOMAIN Digits = 1 .. 10
  BY DEF Digits
<1>3. \A d \in 0 .. 9 : d + 1 \in 1 .. 10
  OBVIOUS
<1>4. \A x \in 1 .. 10 : x - 1 \in 0 .. 9 /\ (x - 1) + 1 = x
  OBVIOUS
<1>5. \A d \in 0 .. 9 : Digits[d + 1] \in Figures
  BY <1>2, <1>3 DEF Figures, Range
<1>6. \A c \in Figures : \E d \in 0 .. 9 : c = Digits[d + 1]
  BY <1>2, <1>4 DEF Figures, Range
<1>7. \A c \in Figures : c \notin {Blank, "-", "+", "%"}
  <2>1. \A x \in 1 .. 10 : Digits[x] \in {"0", "1", "2", "3", "4", "5", "6", "7", "8", "9"}
    BY DEF Digits
  <2>2. \A c \in {"0", "1", "2", "3", "4", "5", "6", "7", "8", "9"} : c \notin {" ", "-", "+", "%"}
    OBVIOUS
  <2> QED BY <1>2, <2>1, <2>2 DEF Figures, Range, Blank
<1> QED BY <1>1, <1>5, <1>6, <1>7

\* A positive number from ten on, without its last digit.
LEMMA LastDigit ==
  ASSUME NEW k \in Nat
  PROVE  /\ k \div 10 \in Nat /\ k % 10 \in 0 .. 9 /\ 10 * (k \div 10) + (k % 10) = k
         /\ k >= 10 => k \div 10 < k
  OBVIOUS

\* f has the numerals up to n.
Grown(f, k) ==
  IF k < 10 THEN << Digits[k + 1] >> ELSE Append(f[k \div 10], Digits[(k % 10) + 1])

Counts(f, n) ==
  /\ f \in [0 .. n -> Seq(Figures)]
  /\ \A k \in 0 .. n : f[k] = Grown(f, k)

LEMMA GrownIs ==
  ASSUME NEW n \in Nat, NEW f \in [0 .. n -> Seq(Figures)], NEW k \in 0 .. n + 1
  PROVE  Grown(f, k) \in Seq(Figures)
<1>1. CASE k < 10
  <2>3. k \in 0 .. 9
    BY <1>1
  <2>1. Digits[k + 1] \in Figures
    BY <2>3, DigitsDiffer
  <2> QED BY <1>1, <2>1 DEF Grown
<1>2. CASE k >= 10
  <2>1. PICK t, c : t = f[k \div 10] /\ c = Digits[(k % 10) + 1]
    OBVIOUS
  <2>2. k \div 10 \in 0 .. n /\ k % 10 \in 0 .. 9
    BY <1>2, LastDigit
  <2>3. t \in Seq(Figures) /\ c \in Figures
    BY <2>1, <2>2, DigitsDiffer
  <2>4. Grown(f, k) = Append(t, c)
    BY <1>2, <2>1 DEF Grown
  <2> QED BY <2>3, <2>4
<1> QED BY <1>1, <1>2

LEMMA CountsExist ==
  ASSUME NEW n \in Nat
  PROVE  \E f : Counts(f, n)
<1> DEFINE S == {m \in Nat : \E f : Counts(f, m)}
<1>1. 0 \in S
  <2>1. PICK f : f = [k \in 0 .. 0 |-> << Digits[1] >>]
    OBVIOUS
  <2>2. Digits[0 + 1] \in Figures
    BY DigitsDiffer
  <2>3. f \in [0 .. 0 -> Seq(Figures)] /\ \A k \in 0 .. 0 : f[k] = Grown(f, k)
    BY <2>1, <2>2 DEF Grown
  <2> QED BY <2>3 DEF Counts
<1>2. ASSUME NEW m \in Nat, m \in S
      PROVE  m + 1 \in S
  <2>1. PICK f : Counts(f, m)
    BY <1>2
  <2>2. PICK v : v = Grown(f, m + 1)
    OBVIOUS
  <2>3. f \in [0 .. m -> Seq(Figures)] /\ v \in Seq(Figures)
    BY <2>1, <2>2, GrownIs DEF Counts
  <2>4. PICK g : g = [k \in 0 .. m + 1 |-> IF k = m + 1 THEN v ELSE f[k]]
    OBVIOUS
  <2>5. g \in [0 .. m + 1 -> Seq(Figures)]
    BY <2>3, <2>4
  <2>6. ASSUME NEW k \in 0 .. m + 1
        PROVE  g[k] = Grown(g, k)
    <3>1. g[k] = Grown(f, k)
      BY <2>1, <2>2, <2>4 DEF Counts
    <3>2. k >= 10 => k \div 10 \in 0 .. m /\ g[k \div 10] = f[k \div 10]
      BY <2>4, LastDigit
    <3> QED BY <3>1, <3>2 DEF Grown
  <2>7. Counts(g, m + 1)
    BY <2>5, <2>6 DEF Counts
  <2> QED BY <2>7
<1> HIDE DEF S
<1>3. n \in S
  BY <1>1, <1>2, CountUp
<1> QED BY <1>3 DEF S

LEMMA NumeralFrom ==
  ASSUME NEW n \in Nat, NEW f, Counts(f, n)
  PROVE  Numeral(n) = f[n]
<1> DEFINE Def(g) == g = [k \in 0 .. n |-> Grown(g, k)]
           digits == CHOOSE g : Def(g)
<1>1. Numeral(n) = digits[n]
  BY DEF Numeral, Grown
<1>2. Def(f)
  <2>1. f = [k \in 0 .. n |-> f[k]]
    BY DEF Counts
  <2> QED BY <2>1 DEF Counts
<1>3. Def(digits)
  <2> HIDE DEF Def
  <2> QED BY <1>2
<1>4. \A k \in 0 .. n : digits[k] = Grown(digits, k)
  <2> HIDE DEF digits
  <2> QED BY <1>3
<1> HIDE DEF digits, Def
<1> DEFINE S == {m \in Nat : \A k \in 0 .. n : k < m => digits[k] = f[k]}
<1>5. 0 \in S
  OBVIOUS
<1>6. ASSUME NEW m \in Nat, m \in S
      PROVE  m + 1 \in S
  <2> SUFFICES ASSUME NEW k \in 0 .. n, k < m + 1
               PROVE  digits[k] = f[k]
    OBVIOUS
  <2>1. k >= 10 => k \div 10 \in 0 .. n /\ k \div 10 < m
    BY LastDigit
  <2>2. k >= 10 => digits[k \div 10] = f[k \div 10]
    BY <1>6, <2>1
  <2>3. Grown(digits, k) = Grown(f, k)
    BY <2>2 DEF Grown
  <2> QED BY <1>4, <2>3 DEF Counts
<1> HIDE DEF S
<1>7. n + 1 \in S
  BY <1>5, <1>6, CountUp
<1>8. digits[n] = f[n]
  BY <1>7 DEF S
<1> QED BY <1>1, <1>8

\* A numeral from ten on is that of its tenth and one digit more.
LEMMA NumeralIs ==
  ASSUME NEW n \in Nat
  PROVE  /\ Numeral(n) \in Seq(Figures)
         /\ n < 10 => Numeral(n) = << Digits[n + 1] >>
         /\ n >= 10 => Numeral(n) = Append(Numeral(n \div 10), Digits[(n % 10) + 1])
<1>1. PICK f : Counts(f, n)
  BY CountsExist
<1>2. Numeral(n) = f[n] /\ f[n] \in Seq(Figures) /\ f[n] = Grown(f, n)
  BY <1>1, NumeralFrom DEF Counts
<1>3. ASSUME n >= 10
      PROVE  Numeral(n \div 10) = f[n \div 10]
  <2>1. PICK m : m = n \div 10
    OBVIOUS
  <2>2. m \in 0 .. n /\ m \in Nat
    BY <1>3, <2>1, LastDigit
  <2>3. PICK g : g = [k \in 0 .. m |-> f[k]]
    OBVIOUS
  <2>4. g \in [0 .. m -> Seq(Figures)]
    BY <1>1, <2>2, <2>3 DEF Counts
  <2>5. ASSUME NEW k \in 0 .. m
        PROVE  g[k] = Grown(g, k)
    <3>1. g[k] = Grown(f, k)
      BY <1>1, <2>2, <2>3 DEF Counts
    <3>2. k >= 10 => k \div 10 \in 0 .. m /\ g[k \div 10] = f[k \div 10]
      BY <2>2, <2>3, LastDigit
    <3> QED BY <3>1, <3>2 DEF Grown
  <2>6. Numeral(m) = g[m]
    BY <2>2, <2>4, <2>5, NumeralFrom DEF Counts
  <2> QED BY <2>1, <2>2, <2>3, <2>6
<1> QED BY <1>2, <1>3 DEF Grown

\* f has the value of the digits of s up to each position.
Figure(c) == CHOOSE d \in 0 .. 9 : Digits[d + 1] = c

Values(f, s) ==
  /\ f \in [0 .. Len(s) -> Nat] /\ f[0] = 0
  /\ \A k \in 1 .. Len(s) : f[k] = 10 * f[k - 1] + Figure(s[k])

LEMMA FigureOf ==
  ASSUME NEW d \in 0 .. 9
  PROVE  Figure(Digits[d + 1]) = d
  BY DigitsDiffer DEF Figure

\* The value of the numeral of n is n.
LEMMA NumeralValue ==
  ASSUME NEW n \in Nat
  PROVE  Numeral(n) # <<>> /\ \E f : Values(f, Numeral(n)) /\ f[Len(Numeral(n))] = n
<1> DEFINE P(k) == Numeral(k) # <<>> /\ \E f : Values(f, Numeral(k)) /\ f[Len(Numeral(k))] = k
           S == {m \in Nat : \A k \in Nat : k < m => P(k)}
<1>1. 0 \in S
  OBVIOUS
<1>2. ASSUME NEW m \in Nat, m \in S
      PROVE  m + 1 \in S
  <2> SUFFICES ASSUME NEW k \in Nat, k < m + 1 PROVE P(k)
    OBVIOUS
  <2>1. CASE k < 10
    <3>1. PICK s, f : s = Numeral(k) /\ f = [j \in 0 .. 1 |-> IF j = 0 THEN 0 ELSE k]
      OBVIOUS
    <3>2. s = << Digits[k + 1] >>
      BY <2>1, <3>1, NumeralIs
    <3>6. Len(s) = 1 /\ s # <<>> /\ s[1] = Digits[k + 1]
      BY <3>2
    <3>3. Figure(s[1]) = k
      BY <2>1, <3>6, FigureOf
    <3>4. f \in [0 .. 1 -> Nat] /\ f[0] = 0 /\ f[1] = k
      BY <3>1
    <3>5. Values(f, s) /\ f[Len(s)] = k
      BY <3>6, <3>3, <3>4 DEF Values
    <3> QED BY <3>1, <3>6, <3>5
  <2>2. CASE k >= 10
    <3>1. PICK q, r, t, s, c : /\ q = k \div 10 /\ r = k % 10 /\ t = Numeral(q)
                               /\ s = Numeral(k) /\ c = Digits[r + 1]
      OBVIOUS
    <3>2. q \in Nat /\ r \in 0 .. 9 /\ 10 * q + r = k /\ q < k
      BY <2>2, <3>1, LastDigit
    <3>3. t \in Seq(Figures) /\ s = Append(t, c)
      BY <2>2, <3>1, <3>2, NumeralIs
    <3>4. P(q)
      BY <1>2, <3>2
    <3>5. PICK f : Values(f, t) /\ f[Len(t)] = q
      BY <3>1, <3>4
    <3>6. PICK L : L = Len(t)
      OBVIOUS
    <3>7. /\ L \in Nat /\ Len(s) = L + 1 /\ s[L + 1] = c
          /\ \A j \in 1 .. L : s[j] = t[j]
      BY <3>3, <3>6
    <3>8. PICK g : g = [j \in 0 .. L + 1 |-> IF j = L + 1 THEN k ELSE f[j]]
      OBVIOUS
    <3>9. f \in [0 .. L -> Nat] /\ f[0] = 0 /\ f[L] = q
            /\ \A j \in 1 .. L : f[j] = 10 * f[j - 1] + Figure(t[j])
      BY <3>5, <3>6 DEF Values
    <3>10. g \in [0 .. L + 1 -> Nat] /\ g[0] = 0 /\ g[L + 1] = k
      BY <3>7, <3>8, <3>9
    <3>11. ASSUME NEW j \in 1 .. L + 1
           PROVE  g[j] = 10 * g[j - 1] + Figure(s[j])
      <4>1. CASE j = L + 1
        <5>1. Figure(s[j]) = r
          BY <3>1, <3>2, <3>7, <4>1, FigureOf
        <5>2. g[j - 1] = q
          BY <3>7, <3>8, <3>9, <4>1
        <5> QED BY <3>2, <3>10, <4>1, <5>1, <5>2
      <4>2. CASE j # L + 1
        <5>1. j \in 1 .. L /\ g[j] = f[j] /\ g[j - 1] = f[j - 1] /\ s[j] = t[j]
          BY <3>7, <3>8, <4>2
        <5> QED BY <3>9, <5>1
      <4> QED BY <4>1, <4>2
    <3>12. Values(g, s) /\ g[Len(s)] = k /\ s # <<>>
      BY <3>7, <3>10, <3>11 DEF Values
    <3> QED BY <3>1, <3>12
  <2> QED BY <2>1, <2>2
<1> HIDE DEF S
<1>3. n + 1 \in S
  BY <1>1, <1>2, CountUp
<1> QED BY <1>3 DEF S

\* Of figures, strtol reads all.
LEMMA StrtolOfFigures ==
  ASSUME NEW s \in Seq(Figures), s # <<>>, NEW f, Values(f, s), f[Len(s)] <= LONG_MAX
  PROVE  strtol(s) = f[Len(s)]
<1> DEFINE L == Len(s)
           start == Skip(s, 1)
           signed == start <= Len(s) /\ s[start] \in {"-", "+"}
           first == IF signed THEN start + 1 ELSE start
           end == Min({Len(s) + 1} \cup {k \in first .. Len(s) : s[k] \notin Range(Digits)})
           Def(g) == g = [k \in 0 .. end - 1 |-> IF k < first THEN 0
                            ELSE 10 * g[k - 1] + Figure(s[k])]
           value == CHOOSE g : Def(g)
<1>1. L \in Nat /\ L >= 1 /\ \A k \in 1 .. L : s[k] \in Figures
  OBVIOUS
<1>2. \A k \in 1 .. L : s[k] \notin {Blank, "-", "+", "%"}
  BY <1>1, DigitsDiffer
<1>3. start = 1
  <2>1. PICK S : S = {L + 1} \cup {j \in 1 .. L : s[j] # Blank}
    OBVIOUS
  <2>2. S \subseteq Nat /\ 1 \in S /\ \A x \in S : 1 <= x
    BY <1>1, <1>2, <2>1
  <2>3. Min(S) = 1
    BY <2>2, MinIs
  <2> QED BY <2>1, <2>3 DEF Skip
<1>4. ~ signed /\ first = 1
  BY <1>1, <1>2, <1>3
<1>5. end = L + 1
  <2>1. {k \in 1 .. L : s[k] \notin Range(Digits)} = {}
    BY <1>1 DEF Figures
  <2>2. PICK S : S = {L + 1}
    OBVIOUS
  <2>3. S \subseteq Nat /\ L + 1 \in S /\ \A x \in S : L + 1 <= x
    BY <1>1, <2>2
  <2>4. Min(S) = L + 1
    BY <2>3, MinIs
  <2>5. end = Min({L + 1} \cup {})
    BY <1>4, <2>1
  <2> QED BY <2>2, <2>4, <2>5
<1>6. strtol(s) = IF signed /\ s[start] = "-"
                  THEN Max({- value[end - 1], - LONG_MAX - 1})
                  ELSE Min({value[end - 1], LONG_MAX})
  BY DEF strtol, Figure
<1> HIDE DEF value, end, first, signed, start
<1>7. end - 1 = L
  BY <1>1, <1>5
<1>8. strtol(s) = Min({value[L], LONG_MAX})
  BY <1>4, <1>6, <1>7
<1>9. /\ f \in [0 .. L -> Nat] /\ f[0] = 0
      /\ \A k \in 1 .. L : f[k] = 10 * f[k - 1] + Figure(s[k])
  BY DEF Values
<1>10. Def(f)
  <2>1. f = [k \in 0 .. L |-> f[k]]
    BY <1>9
  <2>2. \A k \in 0 .. L : f[k] = IF k < 1 THEN 0
            ELSE 10 * f[k - 1] + Figure(s[k])
    BY <1>1, <1>9
  <2> QED BY <1>4, <1>7, <2>1, <2>2
<1>11. Def(value)
  <2> HIDE DEF Def
  <2> QED BY <1>10 DEF value
<1>12. \A k \in 0 .. L : value[k] = IF k < 1 THEN 0
            ELSE 10 * value[k - 1] + Figure(s[k])
  BY <1>4, <1>7, <1>11
<1> HIDE DEF Def
<1> DEFINE S == {k \in Nat : k <= L => value[k] = f[k]}
<1>13. 0 \in S
  BY <1>1, <1>9, <1>12
<1>14. ASSUME NEW k \in Nat, k \in S
       PROVE  k + 1 \in S
  <2> SUFFICES ASSUME k + 1 <= L PROVE value[k + 1] = f[k + 1]
    OBVIOUS
  <2>1. k + 1 \in 1 .. L /\ k + 1 \in 0 .. L /\ (k + 1) - 1 = k /\ ~ (k + 1 < 1)
    BY <1>1
  <2>2. value[k] = f[k]
    BY <1>1, <1>14
  <2> QED BY <1>9, <1>12, <2>1, <2>2
<1> HIDE DEF S
<1>15. value[L] = f[L]
  <2>1. L \in S
    BY <1>1, <1>13, <1>14, CountUp
  <2> QED BY <1>1, <2>1 DEF S
<1>16. PICK n : n = f[L]
  OBVIOUS
<1>17. n \in Nat /\ n <= LONG_MAX
  BY <1>1, <1>9, <1>16
<1>18. Min({n, LONG_MAX}) = n
  <2>1. PICK S1 : S1 = {n, LONG_MAX}
    OBVIOUS
  <2>2. S1 \subseteq Nat /\ n \in S1 /\ \A x \in S1 : n <= x
    BY <1>17, <2>1, InputAssumption
  <2>3. Min(S1) = n
    BY <2>2, MinIs
  <2> QED BY <2>1, <2>3
<1> QED BY <1>8, <1>15, <1>16, <1>18

\* An int is what it is.
LEMMA ToIntIs ==
  ASSUME NEW n \in 0 .. INT_MAX
  PROVE  ToInt(n) = n
<1>1. PICK m : m = 2 * (INT_MAX + 1)
  OBVIOUS
<1>2. n + INT_MAX + 1 \in 0 .. m - 1 /\ m \in Nat \ {0}
  BY <1>1, InputAssumption
<1>3. \A x \in 0 .. m - 1 : x % m = x
  BY <1>2
<1>4. (n + INT_MAX + 1) % m = n + INT_MAX + 1
  BY <1>2, <1>3
<1> QED BY <1>1, <1>4, InputAssumption DEF ToInt

\* The number of a numeral, with or without a percent sign.
LEMMA NumberOf ==
  ASSUME NEW n \in 0 .. INT_MAX
  PROVE  /\ ToInt(strtol(Numeral(n))) = n
         /\ Numeral(n) # <<>> /\ Head(Numeral(n)) # "%"
         /\ << "%" >> \o Numeral(n) # <<>> /\ Head(<< "%" >> \o Numeral(n)) = "%"
         /\ Tail(<< "%" >> \o Numeral(n)) = Numeral(n)
<1>1. n \in Nat /\ n <= LONG_MAX
  BY InputAssumption
<1>2. PICK s : s = Numeral(n)
  OBVIOUS
<1>3. s \in Seq(Figures) /\ s # <<>>
  BY <1>1, <1>2, NumeralIs, NumeralValue
<1>4. PICK f : Values(f, s) /\ f[Len(s)] = n
  BY <1>1, <1>2, NumeralValue
<1>5. strtol(s) = n
  BY <1>1, <1>3, <1>4, StrtolOfFigures
<1>6. ToInt(strtol(s)) = n
  BY <1>5, ToIntIs
<1>7. Head(s) \in Figures
  BY <1>3
<1>8. Head(s) # "%"
  BY <1>7, DigitsDiffer
<1>9. PICK t : t = << "%" >> \o s
  OBVIOUS
<1>10. t # <<>> /\ Head(t) = "%" /\ Tail(t) = s
  <2>1. \A c : Head(<< c >> \o s) = c /\ Tail(<< c >> \o s) = s /\ << c >> \o s # <<>>
    BY <1>3
  <2> QED BY <1>9, <2>1
<1> QED BY <1>2, <1>3, <1>6, <1>8, <1>9, <1>10

-----------------------------------------------------------------------------
(* Which job do_bgfg works on.                                             *)

\* The slot do_bgfg finds for a number is the one that it means, if any.
LEMMA SlotMeant ==
  ASSUME JobsInv, IDsDiffer, NEW n \in 0 .. INT_MAX,
         NEW arg, arg \in {Numeral(n), << "%" >> \o Numeral(n)},
         NEW s, s = getjobjid(jobs, SelectedJid(arg))
  PROVE  /\ s = NoSlot => Meant(arg, n) = {}
         /\ s # NoSlot => s \in Slots /\ Meant(arg, n) = {s}
<1>1. /\ jobs \in [Slots -> Job] /\ JobsTold /\ NoPid = 0 /\ n \in Nat
      /\ \A i \in Slots : jobs[i].pid = NoPid => jobs[i].jid = 0
  <2>1. clearjob.jid = 0
    BY DEF clearjob
  <2> QED BY <2>1, InputAssumption DEF JobsInv
<1>2. \A i \in Slots : jobs[i].jid \in Nat
  BY <1>1 DEF Job
<1>3. PICK num : num = Numeral(n)
  OBVIOUS
<1>4. /\ ToInt(strtol(num)) = n /\ num # <<>> /\ Head(num) # "%"
      /\ << "%" >> \o num # <<>> /\ Head(<< "%" >> \o num) = "%" /\ Tail(<< "%" >> \o num) = num
  BY <1>3, NumberOf
<1>5. CASE arg = num
  <2>1. arg # << "%" >> \o num
    BY <1>4, <1>5
  <2>2. Meant(arg, n) = {i \in Slots : jobs[i].pid # NoPid /\ jobs[i].pid = n}
    BY <1>3, <1>5, <2>1 DEF Meant
  <2>3. SelectedJid(arg) = pid2jid(jobs, n)
    BY <1>4, <1>5 DEF SelectedJid
  <2>4. PICK p : p = getjobpid(jobs, n)
    OBVIOUS
  <2>5. \/ p \in Slots /\ n # NoPid /\ jobs[p].pid = n
        \/ p = NoSlot /\ (n # NoPid => \A i \in Slots : jobs[i].pid # n)
    BY <2>4, GetJobPid
  <2>6. CASE p \in Slots /\ n # NoPid /\ jobs[p].pid = n
    <3>1. SelectedJid(arg) = jobs[p].jid /\ jobs[p].jid >= 1
      BY <1>1, <2>3, <2>4, <2>6, NoSlotFact DEF pid2jid, JobsTold
    <3>2. \/ s \in Slots /\ jobs[s].jid = jobs[p].jid
          \/ s = NoSlot /\ \A i \in Slots : jobs[i].jid # jobs[p].jid
      BY <3>1, GetJobJid
    <3>3. s \in Slots /\ jobs[s].jid = jobs[p].jid
      BY <2>6, <3>2
    <3>4. s = p
      BY <2>6, <3>3 DEF IDsDiffer
    <3>5. \A i \in Slots : jobs[i].pid = n => i = p
      BY <1>1, <2>6 DEF JobsTold
    <3> QED BY <2>2, <2>6, <3>4, <3>5, NoSlotFact
  <2>7. CASE p = NoSlot /\ (n # NoPid => \A i \in Slots : jobs[i].pid # n)
    <3>1. SelectedJid(arg) = 0
      BY <2>3, <2>4, <2>7 DEF pid2jid
    <3>2. s = NoSlot
      BY <3>1, GetJobJid
    <3> QED BY <2>2, <2>7, <3>2
  <2> QED BY <2>5, <2>6, <2>7
<1>6. CASE arg = << "%" >> \o num
  <2>1. arg # num
    BY <1>4, <1>6
  <2>2. Meant(arg, n) = {i \in Slots : jobs[i].pid # NoPid /\ jobs[i].jid = n}
    BY <1>3, <1>6, <2>1 DEF Meant
  <2>3. SelectedJid(arg) = n
    BY <1>4, <1>6 DEF SelectedJid
  <2>4. \/ s \in Slots /\ n >= 1 /\ jobs[s].jid = n
        \/ s = NoSlot /\ (n >= 1 => \A i \in Slots : jobs[i].jid # n)
    BY <2>3, GetJobJid
  <2>5. CASE s \in Slots /\ n >= 1 /\ jobs[s].jid = n
    <3>1. jobs[s].pid # NoPid
      BY <1>1, <2>5
    <3>2. \A i \in Slots : jobs[i].jid = n => i = s
      BY <2>5, <3>1 DEF IDsDiffer
    <3> QED BY <2>2, <2>5, <3>1, <3>2, NoSlotFact
  <2>6. CASE s = NoSlot /\ (n >= 1 => \A i \in Slots : jobs[i].jid # n)
    <3>1. \A i \in Slots : jobs[i].pid # NoPid => jobs[i].jid # n
      BY <1>1, <1>2, <2>6 DEF JobsTold
    <3> QED BY <2>2, <2>6, <3>1
  <2> QED BY <2>4, <2>5, <2>6
<1> QED BY <1>3, <1>5, <1>6

\* fg and bg set the state of the job their argument names by its ID or its pid, and of
\* no other, for every job list, number and length of numeral.
THEOREM ArgumentSelects == Spec => ArgumentSelectsItsJob
<1>1. InputInv /\ [Next]_vars => [SelectsItsJob]_vars
  <2> SUFFICES ASSUME InputInv, Next, at = "eval", ~Overruns(line), Len(argv) > 1,
                      argv[1] \in {<< "fg" >>, << "bg" >>}, IDsDiffer,
                      NEW n \in 0 .. INT_MAX,
                      argv[2] \in {Numeral(n), << "%" >> \o Numeral(n)},
                      NEW i \in Slots
               PROVE  IF i \in Meant(argv[2], n)
                      THEN jobs'[i].state = IF argv[1] = << "fg" >> THEN FG ELSE BG
                      ELSE jobs'[i] = jobs[i]
    BY DEF SelectsItsJob
  <2>1. argv # <<>> /\ << "fg" >> # << "jobs" >> /\ << "bg" >> # << "jobs" >>
          /\ << "fg" >> # << "quit" >> /\ << "bg" >> # << "quit" >>
    OBVIOUS
  <2>2. DoBgfg \/ (Gone /\ at = "eval")
    BY <2>1 DEF Next, Usage, Started, Read, ReadFails, ForegroundEnds, ForegroundStops,
               Eval, EvalOverruns, EvalNothing, EvalQuit, EvalForkFails, EvalRun, Gone
  <2>3. DoBgfg
    BY <2>2 DEF Gone
  <2>4. PICK arg, c, s : arg = argv[2] /\ c = argv[1] /\ s = getjobjid(jobs, SelectedJid(arg))
    OBVIOUS
  <2>5. /\ s = NoSlot => Meant(arg, n) = {}
        /\ s # NoSlot => s \in Slots /\ Meant(arg, n) = {s}
    BY <2>4, SlotMeant DEF InputInv
  <2>6. \/ s = NoSlot /\ jobs' = jobs
        \/ s # NoSlot /\ jobs' = [jobs EXCEPT ![s].state = IF c = << "fg" >> THEN FG ELSE BG]
    <3>1. Len(argv) # 1
      OBVIOUS
    <3> QED BY <2>3, <2>4, <3>1 DEF DoBgfg, listVars
  <2>7. jobs \in [Slots -> Job]
    BY DEF InputInv, JobsInv
  <2>8. CASE s = NoSlot /\ jobs' = jobs
    BY <2>4, <2>5, <2>8
  <2>9. CASE s # NoSlot /\ jobs' = [jobs EXCEPT ![s].state = IF c = << "fg" >> THEN FG ELSE BG]
    <3>1. PICK st : st = IF c = << "fg" >> THEN FG ELSE BG
      OBVIOUS
    <3>2. s \in Slots /\ jobs' = [jobs EXCEPT ![s].state = st] /\ Meant(arg, n) = {s}
      BY <2>5, <2>9, <3>1
    <3>3. jobs[s] \in Job
      BY <2>7, <3>2
    <3>4. jobs'[s].state = st
      BY <2>7, <3>2, <3>3 DEF Job
    <3>5. i # s => jobs'[i] = jobs[i]
      BY <2>7, <3>2
    <3> QED BY <2>4, <3>1, <3>2, <3>4, <3>5
  <2> QED BY <2>6, <2>8, <2>9
<1> QED BY <1>1, InputInvariant, PTL DEF Spec, ArgumentSelectsItsJob

=============================================================================
