-------------------------------- MODULE Btest --------------------------------
(***************************************************************************)
(* The harness of the data lab, btest.c: it calls every puzzle on generated *)
(* arguments, compares it with the function of tests.c, and adds up points. *)
(* A puzzle that does not return is left by a SIGALRM whose handler jumps   *)
(* into test_function.  The alarm is set for each puzzle and never turned   *)
(* off, so that it may also expire when the puzzle it was set for is over.  *)
(***************************************************************************)
EXTENDS BitsTests, Functions

CONSTANTS
  TEST_RANGE,  \* values generated around each border, for one argument
  Rand,        \* what random_val returns, in turn: rand is never seeded
  MayLoop,     \* puzzles that may not return (none of bits.c does)
  OptNames,    \* arguments tried for the option -f,
  OptRatings,  \* for -r,
  OptValues,   \* and for -1, -2 and -3
  Ints,        \* ints that puzzles are held against beyond those btest tries,
  Floats,      \* and bit patterns of floats
  MaxOptions,  \* bound: options on the command line
  MaxExpiries  \* bound: alarms that expire though no puzzle loops

ASSUME HarnessAssumption ==
  /\ TEST_RANGE \in Nat \ {0}
  /\ Rand \in Seq(Word) \ {<<>>}
  /\ OptRatings \subseteq Int
  /\ OptValues \cup Ints \cup Floats \subseteq Word
  /\ MaxOptions \in Nat /\ MaxExpiries \in Nat

VARIABLES
  at,        \* where the program is
  opts,      \* what main has set from the command line
  given,     \* options read
  i,         \* index into test_set
  vals,      \* arg_test_vals: the values generated for each argument
  a,         \* indices into vals of the next call
  matched,   \* calls of this puzzle that agreed
  alarm,     \* the alarm is set
  expiries,  \* alarms that have expired though no puzzle loops
  report,    \* what run_tests has found, in order
  points, max_points, errors

vars == <<at, opts, given, i, vals, a, matched, alarm, expiries, report, points,
          max_points, errors>>

\* main reads options; run_tests is between two puzzles; test_function
\* generates values, calls the puzzle, is inside one that does not return, or is
\* about to return after the last call agreed; the totals are printed; a bad option has ended the program; SIGALRM has
\* jumped into a frame that is gone, and anything may happen.
Place == {"options", "run", "gen", "test", "looping", "agreed", "done", "exited",
          "lost"}

Finding == [name : {test_set[k].name : k \in DOMAIN test_set},
            terrors : {0, 1}, tried : BOOLEAN]

TypeOK ==
  /\ at \in Place
  /\ opts \in [fname : OptNames \cup {""}, rating : Nat,
               has_arg : SUBSET (1 .. 3), argval : [1 .. 3 -> Word],
               limited : BOOLEAN]
  /\ given \in 0 .. MaxOptions
  /\ i \in 1 .. Len(test_set) + 1
  /\ \A k \in DOMAIN vals : vals[k] \in Seq(Word)
  /\ a \in [DOMAIN vals -> Nat]
  /\ matched \in Nat
  /\ alarm \in BOOLEAN
  /\ expiries \in 0 .. MaxExpiries
  /\ report \in Seq(Finding)
  /\ {points, max_points, errors} \subseteq Nat

Init ==
  /\ at = "options"
  /\ opts = [fname |-> "", rating |-> 0, has_arg |-> {},
             argval |-> [k \in 1 .. 3 |-> Zero], limited |-> TRUE]
  /\ given = 0
  /\ i = 1
  /\ vals = <<>>
  /\ a = <<>>
  /\ matched = 0
  /\ alarm = FALSE
  /\ expiries = 0
  /\ report = <<>>
  /\ points = 0 /\ max_points = 0 /\ errors = 0

testVars == <<i, vals, a, matched, alarm, expiries, report, points, max_points,
              errors>>

-----------------------------------------------------------------------------
(* main: the options, in any order and as often as one likes.              *)

ReadsOption ==
  /\ at = "options"
  /\ given < MaxOptions
  /\ given' = given + 1
  /\ UNCHANGED testVars

OptionName(name) ==
  /\ ReadsOption
  /\ opts' = [opts EXCEPT !.fname = name]
  /\ UNCHANGED at

\* Mutant of OptionRating: -r -1 is taken as a rating.
OptionRatingUnchecked(n) ==
  /\ ReadsOption
  /\ opts' = [opts EXCEPT !.rating = n]
  /\ UNCHANGED at

OptionRating(n) ==
  /\ ReadsOption
  /\ IF n < 0
     THEN at' = "exited" /\ UNCHANGED opts
     ELSE opts' = [opts EXCEPT !.rating = n] /\ UNCHANGED at

\* -T 0: no time limit.
OptionNoLimit ==
  /\ ReadsOption
  /\ opts' = [opts EXCEPT !.limited = FALSE]
  /\ UNCHANGED at

\* -1, -2 or -3, with a number get_num_val can read: a float, or an integer, of
\* which it takes one only if what it would replace is 0.
OptionValue(k, word, isfloat) ==
  /\ ReadsOption
  /\ IF ~isfloat /\ opts.argval[k] # Zero
     THEN at' = "exited" /\ UNCHANGED opts
     ELSE /\ opts' = [opts EXCEPT !.has_arg = @ \cup {k}, !.argval[k] = word]
          /\ UNCHANGED at

\* -h or an option that is not known: usage; or a value that is no number.
OptionBad ==
  /\ ReadsOption
  /\ at' = "exited"
  /\ UNCHANGED opts

StartTests ==
  /\ at = "options"
  /\ at' = "run"
  /\ UNCHANGED <<opts, given, testVars>>

-----------------------------------------------------------------------------
(* gen_vals.                                                               *)

\* n + k and n - k.
Above(n, k) == Plus(n, Lit(k))
Under(n, k) == Plus(n, Minus(Lit(k)))

Signed(s) == s \o [k \in DOMAIN s |-> s[k] \cup Sign]

\* Turns 0 .. test_range - 1 of a loop that generates n values in each.
Turns(values, n, test_range) ==
  [k \in 1 .. n * test_range |-> values[(k - 1) \div n][1 + ((k - 1) % n)]]

\* Around zero, the smallest normal number and one, and below the largest power
\* of two, with either sign; and the special values.  The range is cut to as many
\* floats as have one exponent.
floatVals(test_range) ==
  LET range == IF test_range > 2 ^ M THEN 2 ^ M ELSE test_range
      smallest_norm == {M}
      one == Pack(Zero, Bias, Zero)
      largest_norm == Pack(Zero, ExpMax - 1, Zero)
      inf == Pack(Zero, ExpMax, Zero)
      nan == Pack(Zero, ExpMax, {M - 1})
      around == [k \in 0 .. range - 1 |->
        Signed(<< Lit(k) >>)
          \o Signed(<< Above(smallest_norm, k), Under(smallest_norm, k) >>)
          \o Signed(<< Above(one, k), Under(one, k) >>)
          \o Signed(<< Under(largest_norm, k) >>)]
  IN  Turns(around, 12, range) \o Signed(<< inf >>) \o Signed(<< nan >>)

\* From the least int up, from the largest down, zero and its neighbours, and
\* random ones.
intVals(test_range) ==
  LET sample == [k \in 0 .. test_range - 1 |->
        << Above(Sign, k), Under(Not(Sign), k), Lit(k), Minus(Lit(k)),
           Rand[1 + (k % Len(Rand))] >>]
  IN  Turns(sample, 5, test_range)

gen_vals(test, test_range, arg) ==
  IF arg \in opts.has_arg THEN << opts.argval[arg] >>
  ELSE IF test.float THEN floatVals(test_range) ELSE intVals(test_range)

\* TEST_RANGE to the power of 1, 0.5 or 0.333, which for small ranges is the
\* largest number whose cube is below TEST_RANGE; one at least.
arg_test_range(args) ==
  Max({1} \cup {n \in 1 .. TEST_RANGE : IF args = 3 THEN n ^ 3 < TEST_RANGE
                                         ELSE n ^ args <= TEST_RANGE})

-----------------------------------------------------------------------------
(* run_tests and test_function.                                            *)

test == test_set[i]

\* The tuples of values generated.
Tuples ==
  LET count(k) == IF k \in DOMAIN vals THEN Len(vals[k]) ELSE 1
  IN  count(1) * count(2) * count(3)

\* test_function returns to run_tests, which adds up.
Scored(terrors, agreed) ==
  LET rating == IF opts.rating = 0 THEN test.rating ELSE opts.rating
  IN  /\ report' = Append(report, [name |-> test.name, terrors |-> terrors,
                                   tried |-> agreed = Tuples])
      /\ errors' = errors + terrors
      /\ points' = points + (IF terrors = 0 THEN rating ELSE 0)
      /\ max_points' = max_points + rating
      /\ at' = "run"
      /\ i' = i + 1
      /\ vals' = <<>>
      /\ a' = <<>>
      /\ matched' = 0
      /\ UNCHANGED <<opts, given>>

\* -f names another puzzle.
RunTestsSkip ==
  /\ at = "run"
  /\ i <= Len(test_set)
  /\ opts.fname \notin {"", test.name}
  /\ i' = i + 1
  /\ UNCHANGED <<at, opts, given, vals, a, matched, alarm, expiries, report, points,
                 max_points, errors>>

RunTestsCall ==
  /\ at = "run"
  /\ i <= Len(test_set)
  /\ opts.fname \in {"", test.name}
  /\ at' = "gen"
  /\ UNCHANGED <<opts, given, testVars>>

RunTestsEnd ==
  /\ at = "run"
  /\ i > Len(test_set)
  /\ at' = "done"
  /\ UNCHANGED <<opts, given, testVars>>

\* Mutant of TestFunctionStart: the alarm is set for the first puzzle only.
TestFunctionStartOnce ==
  /\ at = "gen"
  /\ vals' = [k \in 1 .. test.args |->
                gen_vals(test, arg_test_range(test.args), k)]
  /\ a' = [k \in 1 .. test.args |-> 1]
  /\ alarm' = (alarm \/ (opts.limited /\ i = 1))
  /\ at' = "test"
  /\ UNCHANGED <<opts, given, i, matched, expiries, report, points, max_points,
                 errors>>

\* test_function up to the first call: the values, sigsetjmp and the alarm.
TestFunctionStart ==
  /\ at = "gen"
  /\ vals' = [k \in 1 .. test.args |->
                gen_vals(test, arg_test_range(test.args), k)]
  /\ a' = [k \in 1 .. test.args |-> 1]
  /\ alarm' = (alarm \/ opts.limited)
  /\ at' = "test"
  /\ UNCHANGED <<opts, given, i, matched, expiries, report, points, max_points,
                 errors>>

Arguments == [k \in DOMAIN a |-> vals[k][a[k]]]

\* The indices of the nested loops over a1, a2 and a3.
LastCall == \A k \in DOMAIN a : a[k] = Len(vals[k])

NextIndices ==
  LET j == Max({k \in DOMAIN a : a[k] < Len(vals[k])})
  IN  [k \in DOMAIN a |-> CASE k < j -> a[k] [] k = j -> a[k] + 1 [] k > j -> 1]

\* Mutant of TestCall: the last value of the last argument is not tried.
TestCallShort ==
  /\ at = "test"
  /\ IF ~Agrees(test.name, Arguments)
     THEN Scored(1, matched)
     ELSE /\ matched' = matched + 1
          /\ IF \A k \in DOMAIN a : a[k] >= Len(vals[k]) - 1
             THEN at' = "agreed" /\ UNCHANGED a
             ELSE a' = NextIndices /\ UNCHANGED at
          /\ UNCHANGED <<opts, given, i, vals, report, points, max_points, errors>>
  /\ UNCHANGED <<alarm, expiries>>

\* test_0_arg to test_3_arg: one call of the puzzle and of the test function.
\* The first that differs ends the test of this puzzle: an alarm that expires
\* before test_function has returned changes nothing any more.
TestCall ==
  /\ at = "test"
  /\ IF ~Agrees(test.name, Arguments)
     THEN Scored(1, matched)
     ELSE /\ matched' = matched + 1
          /\ IF LastCall
             THEN at' = "agreed" /\ UNCHANGED a
             ELSE a' = NextIndices /\ UNCHANGED at
          /\ UNCHANGED <<opts, given, i, vals, report, points, max_points, errors>>
  /\ UNCHANGED <<alarm, expiries>>

\* The loops are over, and test_function returns without error.
TestReturn ==
  /\ at = "agreed"
  /\ Scored(0, matched)
  /\ UNCHANGED <<alarm, expiries>>

\* The puzzle does not return.
TestCallLoops ==
  /\ at = "test"
  /\ test.name \in MayLoop
  /\ at' = "looping"
  /\ UNCHANGED <<opts, given, testVars>>

\* timeout_handler: siglongjmp into test_function, while it calls puzzles, or has
\* called one for the last time: it returns an error although all calls agreed...
Timeout ==
  /\ at \in {"test", "looping", "agreed"}
  /\ alarm
  /\ at = "looping" \/ expiries < MaxExpiries
  /\ expiries' = expiries + (IF at = "looping" THEN 0 ELSE 1)
  /\ alarm' = FALSE
  /\ Scored(1, matched)

\* ...while it generates values: the buffer is that of its last call, whose
\* frame was at the same place, and the puzzle to be tested is charged...
TimeoutStale ==
  /\ at = "gen"
  /\ alarm
  /\ expiries < MaxExpiries
  /\ expiries' = expiries + 1
  /\ alarm' = FALSE
  /\ Scored(1, matched)

\* ...or while run_tests runs, also in the midst of adding up, and the frame it
\* jumps to is no more: what is reported and counted then means nothing.
TimeoutLost ==
  /\ at = "run"
  /\ alarm
  /\ expiries < MaxExpiries
  /\ expiries' = expiries + 1
  /\ alarm' = FALSE
  /\ at' = "lost"
  /\ UNCHANGED <<opts, given, i, vals, a, matched, report, points, max_points,
                 errors>>

\* The program is over, or loops for ever without a time limit.
Rests ==
  /\ at \in {"done", "exited", "lost", "looping"}
  /\ UNCHANGED vars

Options ==
  \/ \E name \in OptNames : OptionName(name)
  \/ \E n \in OptRatings : OptionRating(n)
  \/ \E k \in 1 .. 3, word \in OptValues, isfloat \in BOOLEAN :
       OptionValue(k, word, isfloat)
  \/ OptionNoLimit
  \/ OptionBad
  \/ StartTests

RunTests ==
  \/ RunTestsSkip
  \/ RunTestsCall
  \/ RunTestsEnd
  \/ TestFunctionStart
  \/ TestCall
  \/ TestReturn

Expires == Timeout \/ TimeoutStale \/ TimeoutLost

Next == Options \/ RunTests \/ TestCallLoops \/ Expires \/ Rests

Spec == Init /\ [][Next]_vars

(***************************************************************************)
(* Fairness: the program runs, which is weak fairness of RunTests spelled   *)
(* out (one of its disjuncts is enabled just in these places), and an alarm *)
(* expires once its time is over if nothing else happens before.           *)
(***************************************************************************)
RunTestsFairly ==
  []<>(at \notin {"run", "gen", "test", "agreed"}) \/ []<><<RunTests>>_vars

FairSpec == Spec /\ RunTestsFairly /\ WF_vars(Timeout)

-----------------------------------------------------------------------------
(* What is claimed of the harness.                                         *)

\* Whatever alarm goes off when, a puzzle is reported without error only if it
\* agreed with its test function on every tuple of the values generated for it,
\* no puzzle is reported twice, and the points are those of such puzzles.  (Not
\* if: an alarm may come between the last call and the return.)
PointsAreEarned ==
  /\ \A k \in DOMAIN report : report[k].terrors = 0 => report[k].tried
  /\ \A k, l \in DOMAIN report : report[k].name = report[l].name => k = l
  /\ errors = Cardinality({k \in DOMAIN report : report[k].terrors = 1})
  /\ (points = max_points) <=> (errors = 0)

\* With a time limit the tests come to an end, also if a puzzle does not.
TestsEnd ==
  at = "run" /\ opts.limited ~> at \in {"done", "lost"}

\* If btest generates the values itself, whatever their range, the only errors it
\* counts are those of its alarm: it never calls a puzzle on floats with one of
\* the words on which it is wrong.
ErrorsAreOfTheAlarm ==
  [][opts.has_arg = {} /\ errors' # errors => Timeout \/ TimeoutStale]_vars

-----------------------------------------------------------------------------
(* What the report of btest is worth, run without an option that narrows it.*)

FullMarks ==
  at = "done" /\ errors = 0 /\ opts.fname = "" /\ opts.has_arg = {}

RightOn(t, words) ==
  \A args \in [1 .. t.args -> words] : Agrees(t.name, args)

\* A puzzle on ints that btest passes is right, on every int tried here.
IntegerMarksAreRight ==
  FullMarks => \A t \in Range(test_set) : ~t.float => RightOn(t, Ints)

\* Where the puzzles on floats are wrong all the same: a finite float whose
\* double is infinite although its fraction is not zero; a float from 2.0 on
\* that fits an int; a negative power that is not too small, and one that is so
\* large that adding the bias overflows.
KnownWrong(name, x) ==
  CASE name = "floatScale2" ->
         Exponent(x) = ExpMax - 1 /\ Fraction(x) # Zero
    [] name = "floatFloat2Int" ->
         Exponent(x) - Bias \in 1 .. W - 2
    [] name = "floatPower2" ->
         IF Sign \subseteq x THEN ~Less(Lit(Bias + M - 1), Minus(x)) /\ x # Sign
         ELSE Less(Under(Not(Sign), Bias), x)

\* A puzzle on floats that btest passes is right on every float tried here but
\* on those, and on all of those it is wrong.
FloatMarksAreWrongWhereKnown ==
  FullMarks => \A t \in Range(test_set) : t.float =>
    \A x \in Floats \cup Ints : Agrees(t.name, << x >>) <=> ~KnownWrong(t.name, x)

\* btest.c: "checks a student's solution in bits.c for correctness".
FullMarksMeanCorrect ==
  FullMarks => \A t \in Range(test_set) : t.args = 1 => RightOn(t, Floats)

=============================================================================
