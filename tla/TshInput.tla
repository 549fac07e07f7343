------------------------------ MODULE TshInput ------------------------------
(***************************************************************************)
(* How tsh.c gets from text to commands: main reads lines, parseline splits *)
(* them, builtin_cmd and do_bgfg tell which command and which job is meant. *)
(* A character is a string; the name of a built-in command is one letter    *)
(* ("fg"), since nothing but the whole name is ever compared.  What happens *)
(* to a job meanwhile is the subject of Tsh: here a foreground job ends or  *)
(* stops when it likes, and background jobs do neither.                    *)
(***************************************************************************)
EXTENDS JobList, SequencesExt

CONSTANTS
  MAXLINE,   \* size of the line buffer
  MAXARGS,   \* size of argv
  INT_MAX,   \* largest int
  LONG_MAX,  \* largest long
  Inputs,    \* what may be typed until the end of file
  Lists      \* job lists to start from, with the nextjid that goes with each

ASSUME InputAssumption ==
  /\ MAXLINE \in Nat \ {0, 1}
  /\ MAXARGS \in Nat \ {0}
  /\ INT_MAX \in Nat \ {0} /\ LONG_MAX \in Nat /\ LONG_MAX >= INT_MAX
  /\ NoPid = 0 /\ Pids \subseteq Nat
  /\ Inputs \subseteq Seq(STRING)
  /\ \A list \in Lists :
       /\ list.jobs \in [Slots -> Job] /\ list.nextjid \in Nat \ {0}
       /\ \A i \in Slots : IF list.jobs[i].pid = NoPid THEN list.jobs[i] = clearjob
                            ELSE list.jobs[i].jid >= 1
       /\ \A i, k \in Slots : list.jobs[i].pid = list.jobs[k].pid =>
                               i = k \/ list.jobs[i].pid = NoPid

Blank == " "
Quote == "'"
Newline == "\n"
NUL == "\\0"

Digits == << "0", "1", "2", "3", "4", "5", "6", "7", "8", "9" >>

VARIABLES
  at,         \* where the program is
  input,      \* all that will be typed
  rest,       \* the part of it not yet read
  line,       \* cmdline, as fgets has filled it
  evaluated,  \* the lines evaluated so far
  jobs, nextjid,
  cur         \* the job waitfg waits for

vars == <<at, input, rest, line, evaluated, jobs, nextjid, cur>>

\* main reads options, reads a line, evaluates it, waits for a foreground job,
\* has exited at the end of file or otherwise, or has written outside an array.
Place == {"options", "read", "eval", "wait", "eof", "exited", "undefined"}

TypeOK ==
  /\ at \in Place
  /\ input \in Inputs
  /\ IsSuffix(rest, input)
  /\ Len(line) <= MAXLINE - 1
  /\ jobs \in [Slots -> Job]
  /\ nextjid \in Nat \ {0}
  /\ cur \in Pids \cup {NoPid}
  /\ (at = "wait") <=> (cur # NoPid)

Init ==
  /\ at = "options"
  /\ input \in Inputs
  /\ rest = input
  /\ line = <<>>
  /\ evaluated = <<>>
  /\ \E list \in Lists : jobs = list.jobs /\ nextjid = list.nextjid
  /\ cur = NoPid

listVars == <<jobs, nextjid, cur>>

-----------------------------------------------------------------------------
(* main.                                                                   *)

\* -h, or an option that is not known.
Usage ==
  /\ at = "options"
  /\ at' = "exited"
  /\ UNCHANGED <<input, rest, line, evaluated, listVars>>

\* -v and -p change only what is printed.
Started ==
  /\ at = "options"
  /\ at' = "read"
  /\ UNCHANGED <<input, rest, line, evaluated, listVars>>

\* Mutant of fgets: it is not told that a string needs a byte for its NUL.
fgetsLong(text) ==
  LET n == Min({Len(text), MAXLINE} \cup {k \in DOMAIN text : text[k] = Newline})
  IN  SubSeq(text, 1, n)

\* Mutant of fgets: it is given one byte less than the buffer holds.
fgetsShort(text) ==
  LET n == Min({Len(text), MAXLINE - 2} \cup {k \in DOMAIN text : text[k] = Newline})
  IN  SubSeq(text, 1, n)

\* fgets: up to a newline, as much as fits, or all there is.
fgets(text) ==
  LET n == Min({Len(text), MAXLINE - 1} \cup {k \in DOMAIN text : text[k] = Newline})
  IN  SubSeq(text, 1, n)

\* The end of file was met: neither a newline nor the size of the buffer came
\* before it.
feof(text) ==
  LET s == fgets(text)
  IN  Len(s) < MAXLINE - 1 /\ (s = <<>> \/ Last(s) # Newline)

Read ==
  /\ at = "read"
  /\ line' = IF rest = <<>> THEN line ELSE fgets(rest)
  /\ rest' = SubSeq(rest, Len(fgets(rest)) + 1, Len(rest))
  /\ at' = IF feof(rest) THEN "eof" ELSE "eval"
  /\ UNCHANGED <<input, evaluated, listVars>>

\* fgets meets an error: app_error.
ReadFails ==
  /\ at = "read"
  /\ at' = "exited"
  /\ UNCHANGED <<input, rest, line, evaluated, listVars>>

-----------------------------------------------------------------------------
(* parseline.                                                              *)

\* The bytes of a string, which ends at the first NUL.
CString(s) ==
  SubSeq(s, 1, Min({Len(s) + 1} \cup {k \in DOMAIN s : s[k] = NUL}) - 1)

\* The local copy: whatever the last character is, it becomes a blank.
Copy(s) == Append(Front(CString(s)), Blank)

\* strchr, from position k on; 0 if there is none.
strchr(s, k, c) ==
  LET found == {j \in k .. Len(s) : s[j] = c}
  IN  IF found = {} THEN 0 ELSE Min(found)

\* Mutant of Skip: further blanks are not skipped.
SkipNone(buf, k) == k

\* The first position from k on that holds no blank.
Skip(buf, k) == Min({Len(buf) + 1} \cup {j \in k .. Len(buf) : buf[j] # Blank})

\* The arguments: each ends at the next blank, or at the next quote if it
\* starts with one; the first that does not end is dropped with all behind it.
Words(buf) ==
  LET from[k \in 1 .. Len(buf) + 1] ==
        LET start == Skip(buf, k)
            quoted == start <= Len(buf) /\ buf[start] = Quote
            first == IF quoted THEN start + 1 ELSE start
            delim == strchr(buf, first, IF quoted THEN Quote ELSE Blank)
        IN  IF delim = 0 THEN <<>>
            ELSE << SubSeq(buf, first, delim - 1) >> \o from[delim + 1]
  IN  from[1]

\* A last argument that starts with & asks for the background; a line without
\* arguments counts as such, too.
Ampersand(words) ==
  words # <<>> /\ Last(words) # <<>> /\ Head(Last(words)) = "&"

parseline(s) ==
  LET words == Words(Copy(s))
  IN  [argv |-> IF Ampersand(words) THEN Front(words) ELSE words,
       bg |-> words = <<>> \/ Ampersand(words)]

\* An empty string has no last byte, and argv no room for a NULL behind MAXARGS
\* arguments: what is written lies outside.
Overruns(s) == CString(s) = <<>> \/ Len(Words(Copy(s))) >= MAXARGS

-----------------------------------------------------------------------------
(* strtol(s, NULL, 10), and what is left of it in an int.                  *)

\* Blanks, a sign, and digits up to the first character that is none.  A number
\* that no long can hold is brought to the nearest that one can.
strtol(s) ==
  LET start == Skip(s, 1)
      signed == start <= Len(s) /\ s[start] \in {"-", "+"}
      first == IF signed THEN start + 1 ELSE start
      end == Min({Len(s) + 1} \cup {k \in first .. Len(s) : s[k] \notin Range(Digits)})
      value[k \in 0 .. end - 1] ==
        IF k < first THEN 0
        ELSE 10 * value[k - 1] + (CHOOSE d \in 0 .. 9 : Digits[d + 1] = s[k])
      n == value[end - 1]
  IN  IF signed /\ s[start] = "-" THEN Max({-n, -LONG_MAX - 1}) ELSE Min({n, LONG_MAX})

\* A long, cut to the width of an int.
ToInt(n) == ((n + INT_MAX + 1) % (2 * (INT_MAX + 1))) - (INT_MAX + 1)

-----------------------------------------------------------------------------
(* eval, builtin_cmd and do_bgfg.                                          *)

Evaluates ==
  /\ at = "eval"
  /\ evaluated' = Append(evaluated, line)
  /\ UNCHANGED <<input, rest, line>>

argv == parseline(line).argv

EvalOverruns ==
  /\ Overruns(line)
  /\ Evaluates
  /\ at' = "undefined"
  /\ UNCHANGED listVars

\* A blank line, and jobs.
EvalNothing ==
  /\ Evaluates
  /\ ~Overruns(line)
  /\ argv # <<>> => argv[1] = << "jobs" >>
  /\ at' = "read"
  /\ UNCHANGED listVars

EvalQuit ==
  /\ Evaluates
  /\ ~Overruns(line)
  /\ argv # <<>> /\ argv[1] = << "quit" >>
  /\ at' = "exited"
  /\ UNCHANGED listVars

\* Mutant of SelectedJid: a pid is taken for a job ID.
SelectedJidRaw(arg) ==
  IF arg # <<>> /\ Head(arg) = "%" THEN ToInt(strtol(Tail(arg)))
  ELSE ToInt(strtol(arg))

\* The job ID an argument of fg or bg stands for; 0 if it is none.
SelectedJid(arg) ==
  IF arg # <<>> /\ Head(arg) = "%" THEN ToInt(strtol(Tail(arg)))
  ELSE pid2jid(jobs, ToInt(strtol(arg)))

\* do_bgfg: a job is continued and its state set; or a message is printed.
DoBgfg ==
  /\ Evaluates
  /\ ~Overruns(line)
  /\ argv # <<>> /\ argv[1] \in {<< "fg" >>, << "bg" >>}
  /\ LET i == IF Len(argv) = 1 THEN NoSlot
              ELSE getjobjid(jobs, SelectedJid(argv[2]))
     IN  IF i = NoSlot
         THEN at' = "read" /\ UNCHANGED listVars
         ELSE IF argv[1] = << "fg" >>
              THEN /\ jobs' = [jobs EXCEPT ![i].state = FG]
                   /\ at' = "wait"
                   /\ cur' = jobs[i].pid
                   /\ UNCHANGED nextjid
              ELSE /\ jobs' = [jobs EXCEPT ![i].state = BG]
                   /\ at' = "read"
                   /\ UNCHANGED <<nextjid, cur>>

\* Any other name: fork gives pid p, addjob fills a slot if there is one, and
\* waitfg returns at once if there is none.
EvalRun(p) ==
  /\ Evaluates
  /\ ~Overruns(line)
  /\ argv # <<>>
  /\ argv[1] \notin {<< "jobs" >>, << "fg" >>, << "bg" >>, << "quit" >>}
  /\ getjobpid(jobs, p) = NoSlot
  /\ LET i == FreeSlot(jobs)
         bg == parseline(line).bg
     IN  /\ IF i = NoSlot THEN UNCHANGED <<jobs, nextjid>>
            ELSE /\ jobs' = [jobs EXCEPT ![i] =
                               [pid |-> p, jid |-> nextjid,
                                state |-> IF bg THEN BG ELSE FG]]
                 /\ nextjid' = JidAfter(nextjid)
         /\ IF bg \/ i = NoSlot THEN at' = "read" /\ UNCHANGED cur
            ELSE at' = "wait" /\ cur' = p

\* fork fails, as it must when no pid is left.
EvalForkFails ==
  /\ Evaluates
  /\ ~Overruns(line)
  /\ argv # <<>>
  /\ argv[1] \notin {<< "jobs" >>, << "fg" >>, << "bg" >>, << "quit" >>}
  /\ at' = "exited"
  /\ UNCHANGED listVars

\* The foreground job ends, or stops.
ForegroundEnds ==
  /\ at = "wait"
  /\ jobs' = deletejob(jobs, cur)
  /\ nextjid' = JidAfterDelete(jobs, cur, nextjid)
  /\ at' = "read"
  /\ cur' = NoPid
  /\ UNCHANGED <<input, rest, line, evaluated>>

ForegroundStops ==
  /\ at = "wait"
  /\ jobs' = [jobs EXCEPT ![getjobpid(jobs, cur)].state = ST]
  /\ at' = "read"
  /\ cur' = NoPid
  /\ UNCHANGED <<input, rest, line, evaluated, nextjid>>

Gone == at \in {"eof", "exited", "undefined"} /\ UNCHANGED vars

Eval ==
  \/ EvalOverruns \/ EvalNothing \/ EvalQuit \/ DoBgfg \/ EvalForkFails
  \/ \E p \in Pids : EvalRun(p)

Next ==
  \/ Usage \/ Started \/ Read \/ ReadFails \/ Eval
  \/ ForegroundEnds \/ ForegroundStops
  \/ Gone

Spec == Init /\ [][Next]_vars

-----------------------------------------------------------------------------
(* What main makes of what is typed.                                       *)

\* The elements of a finite set of numbers, the least one first.
InOrder(S) ==
  [k \in 1 .. Cardinality(S) |-> CHOOSE n \in S : Cardinality({m \in S : m <= n}) = k]

Ends == {0} \cup {k \in DOMAIN input : input[k] = Newline}

\* Every line fits the buffer, with or without a newline.
LinesFit ==
  \A k \in Ends \cup {Len(input) + 1} :
    k = 0 \/ k - Max({e \in Ends : e < k}) <= MAXLINE - 1

\* The lines typed, each with its newline.
TypedLines ==
  LET ends == InOrder(Ends)
  IN  [k \in 1 .. Len(ends) - 1 |-> SubSeq(input, ends[k] + 1, ends[k + 1])]

\* Lines that fit the buffer are evaluated one by one, as typed and in order,
\* and at the end of file none is left: all that main drops is what comes
\* behind the last newline.
WholeLinesAreEvaluated ==
  LinesFit =>
    /\ IsPrefix(evaluated, TypedLines)
    /\ at = "eof" => evaluated = TypedLines

-----------------------------------------------------------------------------
(* What parseline makes of a line.                                         *)

\* The maximal runs of s without a blank, in order.
Runs(s) ==
  LET Starts == {k \in DOMAIN s : s[k] # Blank /\ (k = 1 \/ s[k - 1] = Blank)}
      starts == InOrder(Starts)
      end(k) == Max({j \in k .. Len(s) : \A l \in k .. j : s[l] # Blank})
  IN  [n \in DOMAIN starts |-> SubSeq(s, starts[n], end(starts[n]))]

\* "Characters enclosed in single quotes are treated as a single argument", and
\* other arguments are what blanks separate.  A quote that is not closed drops
\* itself and what follows.  (Of lines with a quote, those with at most two
\* whose first one starts an argument.)
ArgumentsAreTheWords ==
  at = "eval" /\ Last(line) = Newline /\ NUL \notin Range(line) =>
    LET s == Front(line)
        quotes == {k \in DOMAIN s : s[k] = Quote}
        q == Min(quotes)
        words == Words(Copy(line))
    IN  /\ quotes = {} => words = Runs(s)
        /\ quotes # {} /\ (q = 1 \/ s[q - 1] = Blank) =>
             /\ Cardinality(quotes) = 1 => words = Runs(SubSeq(s, 1, q - 1))
             /\ Cardinality(quotes) = 2 =>
                  words = Runs(SubSeq(s, 1, q - 1))
                            \o << SubSeq(s, q + 1, Max(quotes) - 1) >>
                            \o Runs(SubSeq(s, Max(quotes) + 1, Len(s)))

\* parseline does not count against MAXARGS.  Nothing can go wrong as long as a
\* line is shorter than 2 * MAXARGS: an argument takes two characters at least.
ShortLinesAreSafe ==
  at = "undefined" => Len(line) >= 2 * MAXARGS \/ Head(line) = NUL

-----------------------------------------------------------------------------
(* Which job do_bgfg works on.                                             *)

\* The decimal numeral of n.
Numeral(n) ==
  LET digits[k \in 0 .. n] ==
        IF k < 10 THEN << Digits[k + 1] >>
        ELSE Append(digits[k \div 10], Digits[(k % 10) + 1])
  IN  digits[n]

\* The slots an argument means: of job ID n after a percent sign, of pid n.
Meant(arg, n) ==
  {i \in Slots : /\ jobs[i].pid # NoPid
                 /\ \/ arg = << "%" >> \o Numeral(n) /\ jobs[i].jid = n
                    \/ arg = Numeral(n) /\ jobs[i].pid = n}

\* No two jobs have the same job ID.
IDsDiffer ==
  \A i, k \in Slots : jobs[i].jid = jobs[k].jid => i = k \/ jobs[i].pid = NoPid

\* With a number n after fg or bg, the job it means changes its state, and no other.
SelectsItsJob ==
  at = "eval" /\ ~Overruns(line) /\ Len(argv) > 1
    /\ argv[1] \in {<< "fg" >>, << "bg" >>} /\ IDsDiffer =>
  \A n \in 0 .. INT_MAX :
    argv[2] \in {Numeral(n), << "%" >> \o Numeral(n)} =>
      \A i \in Slots :
        IF i \in Meant(argv[2], n)
        THEN jobs'[i].state = IF argv[1] = << "fg" >> THEN FG ELSE BG
        ELSE jobs'[i] = jobs[i]

\* fg or bg with a job ID or a pid, as jobs prints it, sets the state of that
\* job and of no other; with such a number of no job, it sets none.  (Up to the
\* largest int: a larger number selects the job it is congruent to.  And as long
\* as no two jobs share an ID: then a pid means the first of the two.)
ArgumentSelectsItsJob == [][SelectsItsJob]_vars

=============================================================================
