------------------------------- MODULE MCBtest -------------------------------
(***************************************************************************)
(* Instances of Btest for TLC, at the real widths of int and float.        *)
(***************************************************************************)
EXTENDS Btest

RandWords == << Lit(1000003), Xor(Lit(99991), Bit) >>

\* 0 and 1.0.
GivenValues == { Zero, Pack(Zero, Bias, Zero) }

GivenNames == {"conditional", "floatScale2", "unknown"}

GivenRatings == {-1, 3}

\* Words whose ones are one run of bits, and those with one bit.
SomeInts ==
  {0 .. k : k \in -1 .. W - 1} \cup {k .. W - 1 : k \in 1 .. W - 1}
    \cup {{k} : k \in Bit} \cup {Lit(k) : k \in 44 .. 60}
    \cup {Minus(Lit(k)) : k \in {2, 3, 100, 126, 127, 128, 148, 149, 150, 151}}

\* Every sign and exponent, and fractions that are zero, least, largest, between.
SomeFloats ==
  {Pack(s, e, f) : s \in {Zero, Sign}, e \in 0 .. ExpMax,
                   f \in {Zero, {0}, {M - 1}, 0 .. M - 1, {3, 5, M - 2}}}

=============================================================================
