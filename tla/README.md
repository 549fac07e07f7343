# Verification of the CS:APP labs

This directory holds TLA+ models of the programs in this repository, the TLC runs that check them on
small instances, and proofs, checked by TLAPS, of what holds on every instance. `PROJECT.json` lists
components, runs, theorems, known hazards and findings, and says for every definition which lines of the
source it models.

The repository is a set of independent lab solutions. Four programs in it are the author's own logic:

| program | source | modules |
|---|---|---|
| a shell with job control | `Lab/lab4_shellLab/shlab-handout/tsh.c` | `JobList`, `Tsh`, `TshInput`, `JobControl`, `JobListProofs`, `TshProofs`, `TshTrackProofs`, `TshInputProofs`, `MCTsh`, `MCTshInput` |
| a cache simulator | `Lab/lab3_cachelab/cachelab-handout/{csim.c,csim.h,cache.c}` | `CacheAddr`, `Csim`, `LRU`, `CsimLRU`, `CsimProofs`, `MCCsim` |
| a matrix transpose tuned to a cache | `Lab/lab3_cachelab/cachelab-handout/trans.c` | `Trans`, `TransProofs`, `MCTrans` |
| bit puzzles, and the harness that grades them | `Lab/lab0_data/datalab-handout/{bits.c,btest.c,tests.c,decl.c}` | `Words`, `Bits`, `BitsTests`, `Btest`, `BitsProofs`, `BtestProofs`, `MCBtest` |

Run a model with `tlc -config X.cfg M` and check proofs with `tlapm M.tla`, in this directory.

## 1. Inventory

### The shell

State kept by `tsh.c`: the job list `jobs[MAXJOBS]` (pid, job ID, state UNDEF/FG/BG/ST), `nextjid`, the
signal mask of the process, `main`'s place in `eval`, `do_bgfg` or `waitfg`, and the frames of the
handlers that have interrupted it. Outside it: the children, their process groups and the kernel's
pending `SIGCHLD`.

| part | operations | interacts by |
|---|---|---|
| job list (553-713) | `clearjob`, `initjobs`, `maxjid`, `addjob`, `deletejob`, `fgpid`, `getjobpid`, `getjobjid`, `pid2jid` | shared memory, written by the main flow and by handlers |
| `main` (104-168) | read a line, evaluate it, stop at the end of file | `fgets`, `eval` |
| `parseline` (239-287), `builtin_cmd` (295-322) | split a line into arguments, tell built-in commands | called by `eval` |
| `eval` (179-238) | block `SIGCHLD`, fork, `addjob`, unblock, `waitfg` | `fork`, signal mask |
| `do_bgfg` (327-389) | `fg` and `bg` of a job or process | `kill(-pid, SIGCONT)`, job list, `waitfg` |
| `waitfg` (394-418) | block `SIGCHLD`, `sigsuspend` until the job is not in the foreground | woken by handlers |
| `sigchld_handler` (431-494) | reap with `WNOHANG`, `WUNTRACED`; delete or mark jobs | `waitpid`, job list |
| `sigint_handler`, `sigtstp_handler` (501-549) | forward to the foreground group; ctrl-z marks the job first | `kill`, job list |
| children | own group, `execve`, stop, continue, end | signals, wait status |

What is hard: `Signal` installs every handler with an *empty* mask (755-766), so handlers nest, of any
kind, at any instruction where nothing is blocked; `SIGCHLD`s coalesce; a child may end before its parent
has listed it; a child has the shell's handlers and group until it has called `setpgid` and `execve`;
`sigsuspend` and masks saved in local variables have to fit together. It is correct if the list follows
the children, no notice of the kernel is lost, keyboard signals reach the foreground job and no other,
masks are restored, and the prompt comes back. Its input is hard in a smaller way: `fgets` and `feof` at the
end of a line, of the buffer and of the file; arguments that are not counted against `MAXARGS`; `strtol` into an `int`. That is
correct if whole lines are evaluated as typed, their words are the arguments, and `fg` and `bg` work on the job named.

### The cache simulator

State: per set a doubly linked list of lines in order of use (`lineList`, `lineCnt`), the tag of each
line, the counters and flags, and the last parsed operation and address `memOpInfo`, which is static and
so stays across lines. Operations: `cacheInitialize`, `cacheProcess` (hit, miss into a free line, miss
with eviction), the trace loop and `exitFcn`, which runs on every way out. What is hard: the
pointer surgery of `listMoveNodeToHead` shows an error only several accesses later; the position in
the list is the only record of recency; set index and tag are cut with masks computed in 32 bits out of
64-bit addresses; `exit` inside a half-finished `cacheInitialize` or `cacheProcess` runs `exitFcn`. It is correct
if it counts as an LRU cache of its size counts, and releases what it allocated.

### The transpose

State: loop indices, `B`, `tmpDiagData`, and the content of the cache the grader simulates.
`transpose_submit` picks `my_trans64x64` for 64x64 and `my_trans` otherwise. What is hard:
`my_trans64x64` parks a quarter of each block where another belongs and swaps it out element by element,
and checks no bounds; A and B compete for cache lines, so the order of single accesses decides on the grade.

### The data lab

`bits.c` has no state: thirteen functions of words, three of them on floats as bit patterns. `btest.c` calls
each on generated values next to its function in `tests.c` and adds up points. Its state: the options, the table `test_set` and
the index into it, the values generated and the indices of the next call, the points, and an alarm. What is hard: arithmetic at
the ends of the range; which values the generator never tries; and the `SIGALRM` handler, which jumps (`siglongjmp`) into
`test_function` from wherever the program is, by an alarm that is set for each puzzle and never turned off.
It is correct if points mean agreement, a puzzle that does not return does not stop the others, and a puzzle with points is right.

### The rest

`csapp.c` (a library no program here is linked with: `tsh.c` has its own copies of the wrappers it uses), the helper programs
`myspin`, `mysplit`, `mystop`, `myint` and the driver script, the grading harness of the cache lab (`test-trans.c`, `tracegen.c`,
`cachelab.c`, `driver.py`), `fshow.c`, `ishow.c` and the `dlc` scripts of the data lab, the bomb and attack labs (binaries
and notes), the malloc lab (a hand-out archive without a solution), and documents.

## 2. The modules

### JobList and Tsh: the shell in full

`JobList` has the job list and its helpers as operators on the array `jobs`; slots are 0 .. `MAXJOBS - 1`, and
`NoSlot` is the NULL pointer. `Tsh` is the program:

* `main` is the place of the main flow: `prompt`, `fork` (`SIGCHLD` blocked, not forked yet), `addjob`,
  `waitfg`, `suspended` (in `sigsuspend`), `resumed`. `stack` holds the frames of running handlers, the
  innermost first, each with its signal, place, pid in hand and the mask `ret` to restore. Only the top of
  the stack, or `main` when there is none, takes steps; a handler frame may be pushed before any step
  for which its signal is not blocked.
* Atomicity. A step is what no handler can tell apart. Where all signals are blocked (the sections of the
  `SIGCHLD` handler, the forwarding sections of the other two, `do_bgfg`) a section is one step. `addjob` runs
  with only `SIGCHLD` blocked: each of its stores (`AddjobStore`) is a step, in any order, because the
  compiler may reorder stores to an array that is not volatile. `waitpid` and the block after it are
  separate steps, so a handler may run in between with a pid that is already free.
* Children are `free`, `forked`, `grouped`, `running`, `stopped` (not reported yet), `held` (stop reported)
  or `zombie`. Before `execve` a child ignores keyboard signals, because it has inherited the shell's handlers and finds
  itself no foreground job (`ChildIgnores`). `sent[p]` holds keyboard signals sent and not taken.
* `chld` is one pending bit: `SIGCHLD`s coalesce. Keyboard signals are modelled at delivery
  (`Keyboard`), at most one handler of each kind on the stack at a time.
* A command is an input: any command with any job argument, builtin or program, foreground or background.
  `TshInput` models how it comes out of the text.

`JobControl` is the view from outside: every process has no job, or one in a state, at most one in the
foreground, with the transitions of the header comment and the one the code adds (a background job that stops by
itself). `Tsh` implements it under the mapping `JobOf`.

### TshInput: from text to commands

The program from `main` down to the choice of a job, on sequences of characters: `Read` is `fgets` and `feof`, `parseline` and
`Words` the copy of the line and the loop over delimiters, `strtol` the number of an argument, brought into a `long`, and `ToInt` what an `int` keeps of it, and one `Eval...` action
each branch of `eval` and `builtin_cmd`; `DoBgfg` finds the job and sets its state. It shares `JobList` with `Tsh`. The name of a built-in command
is one character, since only whole names are ever compared. What the signals do is left to `Tsh`: here a foreground job ends or stops when it likes.
Where the code writes outside an array (`Overruns`) the program goes to the place `undefined`.

### CacheAddr, Csim, LRU, CsimLRU: the simulator

`CacheAddr` cuts addresses. A word is the set of its one bits, so that masks are sets of bit positions,
`&` is intersection and a shift moves positions; that keeps the width (`UintBits`) a parameter and
truncation visible. `Csim` is the program: `ReadLine` is one line of the trace (with the stale operation or address a short
line leaves), `Hit`, `MissInsert`, `MissEvict`, `MissNoMemory` are `cacheProcess`, `EndLine` and
`EndOfTrace` the loop, `Exit` and `ExitNoSets` the exit handler. The pointers `pNextNode`, `pPrevNode`
and `pHeadNode` are state, and `InsertHead`, `MoveNodeToHead` and `TailNode` assign and follow them as
the macros do. `LRU` is the abstract cache, which knows nothing of lists: a set holds the `Ways` tags
used last. `CsimLRU` adds the history of each set and states the refinement, with set and tag of the abstract
cache computed from the block number and not with the masks.

### Trans: the transpose

One action is one turn of the loop inside a block, executed as its sequence of element assignments
(`RowCopies`, `UpperCopies`, `LowerLeftCopies`, `LowerRightCopies`), each of which reads and writes memory and goes
through a direct-mapped cache (`Executed`, one assignment after the other by `Exchange`). `NextBlock` is the two loops over blocks.

### Words, Bits, BitsTests, Btest: the data lab

`Words` has the operators of C on words of `W` bits, as sets of the positions of ones; addition is by its carries, and wraps. `Bits`
translates every puzzle expression by expression, for any `W` and any float format with `M` bits of fraction. `BitsTests` has
the reference functions of `tests.c`, on the signed numbers and bit patterns they use, and the table `test_set` of `decl.c`.

`Btest` is the program: `Options` is `main` with its `getopt` loop, `gen_vals` the generator, `TestFunctionStart`, `TestCall`,
`NextIndices` and `TestReturn` the nested loops of `test_function` and its return, `RunTestsSkip`, `RunTestsCall` and `RunTestsEnd` those of `run_tests`.
`TestCallLoops` lets a puzzle not return, whatever it computes. The alarm has three ways to expire: while `test_function` calls
puzzles or has made its last call and not yet returned (`Timeout`; then a puzzle that agreed on every tuple is reported with an error), while a
later call of `test_function` generates values, which it makes return an error for a puzzle that is innocent (`TimeoutStale`), and outside `test_function`,
where the jump goes into a frame that is gone (`TimeoutLost`; after it anything may happen, and nothing is promised).

## 3. The runs

| run | expected | what it shows |
|---|---|---|
| `tsh_safety` | pass | all safety claims of the shell, that `IInv` holds, and that `Tsh` implements `JobControl` |
| `tsh_live` | pass | every zombie is reaped and the prompt comes back, two jobs, every keyboard signal |
| `tsh_input` | pass | lines evaluated as typed, split as documented, and `fg` and `bg` on the job they name |
| `tsh_stop_race` | violation | a ctrl-z before `setpgid` or `execve`: listed as stopped, running on |
| `tsh_full` | violation | a full job list: the foreground command is not waited for |
| `tsh_maxjid` | violation | `deletejob` does not wrap `nextjid` at `MAXJID` |
| `csim` | pass | lists consistent, counters right, LRU implemented, all lines freed |
| `csim_wide` | violation | more index and offset bits than a `uint` has: two blocks alias |
| `csim_no_memory` | violation | `exitFcn` after a failed `calloc` of the sets reads through NULL |
| `trans` | pass | the transpose is right, in bounds, and misses as often as measured |
| `btest` | pass | points are earned, the tests end, puzzles on ints right, those on floats wrong just where stated and never called there |
| `btest_marks` | violation | 36 of 36 points for a `bits.c` with three wrong puzzles |

### Bounds, and why they are enough

*Shell.* Two processes and two slots: every interaction in the code is between the main flow, the
handlers, and one or two children (a foreground job and another, or two children sharing one `SIGCHLD`).
`MAXJOBS = 1` in `tsh_full` makes the list full with one job. Pids are reused: a reaped process is free to be forked again.
`JidCap` bounds the job IDs given out, and with them nothing else: commands may repeat for ever. It is 3 for safety, so that a third
job comes after two, and 2 for liveness, which is dearer. `MAXJID` is above the cap except in `tsh_maxjid`, which is about it. Symmetry in
the processes is used in `tsh_safety` only, which has no liveness property.

*Input.* A buffer of 9 bytes, room for 3 arguments and ints of 3 bits put every boundary within reach of a short line: the input is every
sequence of up to 4 of 7 characters (one of each kind the code tells apart), and every two of 42 commands, the last with or without
its newline: words, quotes, lines that just fill the buffer or do not fit it, too many arguments, `fg` and `bg` with job IDs, pids, numbers
that wrap or that no `long` holds, signs and junk. Three job lists: an empty one, one whose jobs have each other's pid as ID, and a full one.

*Simulator.* Three lines per set is the least with a line that has both neighbours, and four blocks per
set the least that evict from it; two sets show that lists are not mixed up. Six accesses
fill a set, reorder it in every way and evict. `csim_wide` needs one bit beyond the width.

*Transpose.* The sizes are the real ones: blocks of 8, the 32-line cache of `(s=5, E=1, b=5)`, the arrays of
`tracegen.c`, the three graded matrices, and shapes around 8 (1, 7, 8, 9, 17 by 1, 8, 15), 9x64 and 64x61.
The run is deterministic for a shape. The misses the model counts are 284, 1280 and 1994; the lab's
README reports 290, 1286 and 2000, six more at each size, which are accesses of the trace other than those to A and B
(the markers among them). So the README's estimate of 1024 misses for 64x64 (line 213) is one for blocks off the diagonal only, and 61x67 just meets
`driver.py`'s limit, which includes 2000, and not that of the README, "m < 2, 000".

*Data lab.* The widths are the real ones, `W = 32` and `M = 23`. `TEST_RANGE` is 1 (2 in `btest_marks`) and not 500000: one value around each
border of the generator. Up to two options, of each kind, with good, bad and unknown arguments. Two puzzles may loop, one early and one late in the table, and one
alarm may expire though nothing loops: a second would find the same places. `rand` is never seeded, so that its values are
a fixed sequence; two words stand for it. `Ints` (runs of ones, single bits, small numbers, digits) and `Floats` (every sign and exponent with
five fractions) are what the puzzles are held against beyond what `btest` tries. That the real `TEST_RANGE` does not lead to other marks is
no run but the theorem `ErrorsAreAlarms`: with any range, the values generated for a puzzle on floats are none that `KnownWrong` describes.

### Fairness

`FairSpec` assumes strong fairness of the main flow, of the delivery of a `SIGCHLD` that is not blocked,
and of each handler. Weak fairness would not do: a step of the main flow is disabled while a handler
runs on top of it, and handlers may come again and again. What the assumption says is that the shell
gets the processor and that key strokes are slow against it. Nothing is assumed of the user, nor of the
children: a program may run for ever, and then nothing is promised.

`tsh_live` uses `PatientSpec`, which keeps the graph small enough for two jobs by holding back steps of the user and no others: he does
not quit (both properties become true at once when the shell exits), types ctrl-c only while there is one child at most and not between the block
and the fork, and no command while a ctrl-c has not been taken yet. The ctrl-c handler does what the ctrl-z handler does except
for the mark, and ctrl-z comes at any time.

`Btest` needs weak fairness only, since nothing disables a step of the program but a step of its own: `RunTestsFairly` is weak
fairness of `RunTests` with its enabling condition spelled out (a conjunction of places, cheaper for TLC than `ENABLED`), and
`WF_vars(Timeout)` says that a second passes. A puzzle that loops is promised to be left only when there is a time limit.

`Ended` in `Csim`, `Returned` in `Trans` and the like elsewhere let a program that is done stutter, so that deadlock is checked in every run.

## 4. The proofs

`JobListProofs` has the lemmas about the job list: the first slot with a property is a slot with it and
the ones before have it not (`FirstSlot`), `maxjid` is a bound that some job attains (`MaxJid`), what
`fgpid`, `getjobpid`, `getjobjid` and `deletejob` return. That a set of
naturals has a least element (`LeastNatural`) comes from the library's `WFMin`, and stands in for induction.

`TshProofs` proves, for every finite or infinite set of processes, every number of slots and every cap:

* `TypeCorrect`: `Spec => []TypeOK`;
* `Invariant`: `Spec => []IInv`, with `IInv == TypeOK /\ MaskInv /\ AddInv /\ ForegroundIsAwaited`;
* `ForegroundAwaited`, `PromptUnblocked`, `KeyboardToForeground`, from it.

The argument. That a foreground job is one `eval` is adding or `waitfg` waits for is not inductive:
`addjob` fills a slot store by store, and a handler in between could delete a job or return and open the
mask. `AddInv` says the slot being filled stays `addjob`'s own until the pid is in it. It needs that no `SIGCHLD` handler
runs from the block in `eval` to the unblock, and this is `MaskInv`: `SIGCHLD` is in the mask, in no frame of the stack,
and in every mask a frame will restore. `MaskInv` in turn carries `NothingLeftBlocked`: at the prompt the mask is empty, or will be once the
outermost handler has returned. Each of the three parts is preserved step by step with one lemma per group of actions. `KeyboardOnlyForeground`
is an action property: the two forwarding steps send to `fgpid(jobs)`, which by `ForegroundIsAwaited` is `cur`.

Under `JidCap < MAXJID` it proves `JidsStayDistinct`: `nextjid` is above every ID listed, and from the test in `eval`
until `addjob` stores the ID it stays below the point where it would start again at 1. Beyond that the code does not ensure it (see the hazards).

`TshTrackProofs` proves that the list and the children agree, and what follows for the view from outside:

* `NoticesReachTheShell`: `Spec => []NoNoticeIsLost`, without any assumption. A child that `waitpid` would report has a `SIGCHLD`
  pending or a `SIGCHLD` handler on the stack, and a handler leaves only when `waitpid` had nothing to report.
* `ListAgrees`, `StopsAreListed`, `HandlerFindsJob` (`JobsTrackChildren`, `StopIsRecorded`, `NoNullJob`), under
  `IsFiniteSet(Pids)` and `Cardinality(Pids) <= MAXJOBS`. The inductive invariant is
  `AgreeInv == TypeOK /\ MaskInv /\ AddInv /\ ChldInv /\ TrackInv`. `TrackInv` relates slots, children and the pid a handler holds; that
  this is *one* pid needs `ChldInv`: there is at most one `SIGCHLD` handler on the stack, because whatever interrupts it will not open the
  mask. The assumption is there for `addjob` to find a slot: distinct listed pids, all of them of
  processes that exist, leave one free as long as there are no more processes than slots (`RoomForOne`, by counting). `tsh_full` shows what happens without it.

* `RefinesJobControl`, under the same assumption: `Spec => ImplementsJobControl`. One lemma for each group of actions: what it does to `JobOf` of each process is one transition
  of `JobControl`, or none. Besides `AgreeInv` and `ForegroundIsAwaited` it needs `SlotInv`, which says what a slot may hold while
  `addjob` stores into it in any order and ctrl-z marks it: a job appears to the outside when its pid or its state is stored, whichever is the later.
* `WaitfgWaits`, likewise: `Spec => WaitsForForeground`, with `WaitInv`: as long as `waitfg` waits, the job it was given is in the foreground or
  stopped. It is proved from the refinement's invariant.

So every property of `tsh_safety` is proved for all sizes of the instance.

`TshInputProofs` is about what main and parseline make of text, for any input, any size of the line buffer and of `argv`, and any
job list to start from:

* `InputTypes` (`TypeOK`) and `ShortLines` (`ShortLinesAreSafe`), from `InputInv == JobsInv /\ LineInv`. What is left to read is always the end
  of the input (`Upto`), and main evaluates no empty line; that the list keeps its type needs that a free slot is cleared, since
  `deletejob` and `addjob` write whole slots. A line overruns `argv` only if it has twice as many characters as `argv` has room for
  (`FewWords`): every argument takes two at least, its delimiter among them.
* `WholeLines`: `Spec => []WholeLinesAreEvaluated`. `WholeInv` says which typed lines have been evaluated and where in the input main is:
  behind the newline of the last of them. `FgetsLine` says that a line that fits is read up to its newline and `feof` does not hold then, `FgetsEnd` that what is
  behind the last newline is met by `feof`. `Neighbours` says of the positions of the newlines, listed by their ranks (`InOrder`), that none
  is between two that follow each other.
* `ArgumentsAreWords`: `Spec => []ArgumentsAreTheWords`. The loop of parseline is a recursive function of the position. `Splits` has its equation, one `Turn` per
  position; that a function with it exists and is the one meant (`SplitsExist`, `WordsAre`) is an induction over the characters still to be read. A turn gets
  past blanks (`BlanksSkipped`), and then finds a plain argument (`PlainTurn`) or a quoted one (`QuotedTurn`). What goes from run to run collects the
  runs (`RunsBy`, an induction over the runs, the last one first), so that a stretch without quotes is split into its runs (`Stretch`), and a line is
  the stretches before and behind its quotes with the quoted text between them (`WordsUnquoted`, `WordsOpen`, `WordsClosed`).
* `ArgumentSelects`: `Spec => ArgumentSelectsItsJob`, an action property. A numeral is a recursive function of its number, and `strtol` one of the position in the
  text; that each exists and is the one meant (`CountsExist`, `NumeralFrom`, `StrtolOfFigures`) and that the value of the numeral of `n` is `n` (`NumeralValue`,
  by the last digit) makes `strtol` the inverse of the numerals, up to the largest `int` (`NumberOf`). That the slot `getjobjid` finds is the only one the argument means (`SlotMeant`)
  needs that no two jobs have one pid and that every job listed has an ID (`JobsTold`, now part of `JobsInv`), and that no two have one ID:
  this is a premise of the property (`IDsDiffer`), because it is not kept once `nextjid` has wrapped (`tsh_maxjid`), and the first of two jobs with one ID is then taken for
  the other also when a *pid* is given.

These inductions are over numbers, and are done with sets of numbers (`CountUp`), so that they need no theorem that takes an operator.

`CsimProofs` has three parts, for every number of sets, lines per set and blocks, and every trace.

* Addresses, for all widths and option values: every address has a set index within the array of
  sets (`SetInRange`); as long as the bits fit a `uint`, the masks
  cut as the options ask for (`CutsAsAsked`), so that the set index and the tag computed with them name the block and nothing more (`BlockNamed`). `csim_wide`
  shows an instance in which the bits do not fit and two blocks share both.
* The program: `CsimTypes`, `ListsStayWellFormed`, `ModifyHits`, `MissesFillTheCache` and `AllLinesFreed`, from the invariant
  `CsimInv == TypeOK /\ ListInv /\ TagInv /\ PhaseInv /\ ModifyInv`. `ListInv` says of each set that its pointers are `Ordered`: the sequence of
  nodes met from the head is a permutation of the lines allocated, followed by NULL, and the pointers back agree with it. `Walk`, which
  follows the pointers, is a recursive function; that it *is* this sequence (`WalkIs`) is shown with the least place where the two
  would differ. What `listInsertHead` and `listMoveNodeToHead` do to the sequence is a lemma each (`Inserted`, `Moved`, by cases on the
  node being the head, in the middle or the tail), and `TailFound` says which node is the tail. `ModifyInv` carries the promise of
  `ModifyEndsInHit` across the two accesses of a modify. `MissesFillTheCache` is about the counters (`CountersBalance`): the number of lines in use, as a
  cardinality, grows by one with each miss into a free line and by none with a hit or an eviction (`CountInv`).
* LRU, under `param_s + param_b <= UintBits`: `CountsAsLRU` (`HSpec => ImplementsLRU`) and `ListsAreRecency`. `RecentInv` relates the list to the
  history: the history of a set has no tag twice (`Once`), there are as many lines as its length, or `paramE` if that is less, and the k-th
  node holds the k-th tag. What `Touch` does to a history is `TouchNew` and `TouchOld`; a miss that evicts may be either, since the tag may have
  been evicted before. `csim_wide` shows that the hypothesis is needed.

`TransProofs` proves, for matrices of any size, every even block and every `Square` that is a multiple of the block (what
`my_trans64x64` relies on when it checks no bounds):

* `TransTypes` and `AccessesInside` (`Spec => []InsideMatrices`): `Position` bounds the loop indices, and with them each assignment
  list is a sequence of pairs of cells.
* `TransposesEvery`: `Spec => []TransposesAll`, B is the transpose of A whenever the function has returned. The invariant is
  `TransInv == Position /\ MemoryInv /\ ContentInv`. `MemoryInv` types the memory.
  `ContentInv` says what B holds between any two turns, cell by cell: a cell of a block that is done (`Before`) has its element of A; a cell of the block in work has it
  (`Placed`), or has the element of another quarter that is parked there (`Parked`), or is not promised anything. What a turn does to B is
  from a lemma about a sequence of assignments none of which reads a cell written before it (`ExecutedApart`); the turn that swaps a parked column against
  a row of the lower half is four such sequences, through `tmpDiagData` (`ExchangeDoes`).

`BitsProofs` is about agreement with the functions of `tests.c`:

* `PuzzlesRight`: `bitXor`, `tmin`, `isTmax`, `negate`, `conditional`, `isLessOrEqual` and `logicalNeg`, on
  every word of every width. The arithmetic is about carries: where the carry of `~x + 1` and of `x + 1` goes (by the least zero, or the
  least one, of `x`) is a lemma each. For `isLessOrEqual` the order of two words is that of the highest bit in which they differ
  (`HighestDifference`), and so is the carry out of `y + ~x + 1` (`CarryFrom`), hence its sign (`SignOfDifference`).
* `PuzzlesRightOnInts`: `allOddBits`, `isAsciiDigit` and `howManyBits` on ints of 32 bits, whose constants they contain.
  `howManyBits` is a binary search: each of its steps halves the range in which the highest bit is (`HalveRight`).
* `FloatScale2Marks`, `FloatFloat2IntMarks` and `FloatPower2Marks`, lemmas for `FloatMarks` below: on which of the words of 32 bits each puzzle on floats
  is right. They need numbers and not only bits. `Shifts` says of a function that it gives the number of `x >> i` for every `i`; there is one
  such function and `Val` takes it (`ShiftsExist`, `ValIs`), by going down from the last bit (`Falling`). From it, words are ordered as their
  numbers are (`IntOrder`), adding and negating words adds and negates the numbers unless the sum leaves the range (`IntOfPlus`, `IntOfOverflow`,
  `IntOfMinus`), and eight bits are the literals up to 255 (`IntOfLit`, `SmallIsLit`), hence the exponents (`ExponentOf`).

`BtestProofs` proves, for every table position, every list of random words and every set of puzzles that may loop:

* `HarnessTypes` (`TypeOK`) and `PointsAreHonest` (`PointsAreEarned`): a puzzle is reported without error only if it agreed with its test on
  every tuple generated for it (not if: an alarm may expire before the return), none is reported twice, and the points are the full ones exactly when there is no error.
  The invariant is `BtestInv == TypeOK /\ CallInv /\ ReportInv`. `CallInv` says that the calls in which the puzzle agreed are, in number,
  the mixed-radix value (`Rank`) of the loop indices, so that the loops can neither skip nor repeat a tuple; `ReportInv` that the names reported come
  from the part of the table that is done. The late alarm (`TimeoutStale`, and `Timeout` after the last call) keeps it: it takes points away and gives none.
* `IntegerMarks`: under `W = 32`, `Spec => []IntegerMarksAreRight` for every set `Ints`. It follows from the theorems of `BitsProofs`
  alone: the ten puzzles on ints are right, so that their marks are.
* `FloatMarks`: under `W = 32` and `M = 23`, `Spec => []FloatMarksAreWrongWhereKnown` for every set `Floats`: the three puzzles on floats are wrong
  on the words `KnownWrong` describes, on each of them and on no other.
* `ErrorsAreAlarms`: under `W = 32` and `M = 23`, `Spec => ErrorsAreOfTheAlarm` for every `TEST_RANGE`, every list of random words and every
  set of options: unless `-1`, `-2` or `-3` gives an argument, the only errors counted are those of the alarm, so that `btest` cannot find what
  `KnownWrong` describes, however long it runs. The invariant is `BtestInv /\ ValuesInv`; `ValuesInv` says that the floats in a
  test are `Harmless`: below 2.0, or of an exponent of 192 at least, with no fraction right below infinity, and with a zero among the bits from 8 to 30, which as
  an int keeps them 256 away from the end of their sign (`FarFromEnds`). `floatVals` cuts its range to the floats of one exponent, so that what
  it adds has no bit of the float it starts from, and what it subtracts borrows from the lowest bit only (`TakeAway`, `UnderIs`): this is why
  the theorem needs no bound on `TEST_RANGE`. The calls then agree (`CallAgrees`), by `IntegersAgree` and `FloatsAgree`, the lemmas of the two theorems before.

Assumptions on constants: `JobList` takes a positive number of slots and of job IDs and a `NoPid` that is no
process, `Tsh` any natural number as `JidCap`; `TshInput` a buffer of two bytes at least, an `argv` of one entry at least, inputs that are
sequences of strings, a largest `long` that is no less than the largest `int`, and job lists whose free slots are cleared and whose jobs have IDs and differ in their pids, with a positive `nextjid` (as `initjobs` and the operations leave them); `CacheAddr` takes option values below the width of a `uint`, beyond which the shifts are undefined;
`Trans` an even block, matrices that are not empty, an A that ends before B, integers as elements per line and positions, and a cache
of at least one set; `Words` a positive width, `Bits` a fraction that leaves room for a sign and two bits of exponent; `Btest` a list of random
words that is not empty, and integers after `-r`.

Model-checked only: liveness and anything about `ENABLED`, `TestsEnd` among it (out of the prover's reach), and `MissesAsMeasured`, which compares
with numbers for three sizes.

## 5. Findings

Seen while modelling, each with its run: the ctrl-z (and ctrl-c) that comes before the child is ready; the full job list; the job ID
beyond `MAXJID`; the aliasing of blocks; the exit handler after a failed allocation; full marks for three wrong puzzles on floats.

Also, without a run of its own: with the job list full, a child without a slot that stops makes the `SIGCHLD` handler write through NULL
(`SigchldStop`; `NoNullJob` as the invariant of `MCTshFull.cfg` shows it in 16 states); a background job may stop by itself, a transition the header comment of
`tsh.c` does not list and `JobControl` has; a last line without newline is not evaluated; `parseline` writes beyond `argv` for a
line of `MAXARGS` words (`ShortLinesAreSafe` says which lines are safe); an alarm of `btest` may expire late (`TimeoutStale`, `TimeoutLost`).

## 6. Not modelled

In the shell: text written (messages, `jobs` output), file descriptors, `SIGQUIT` beyond ending the shell, `SIGCONT` or stop signals sent to children by
strangers (a child that stops by itself stands for the latter), `EPERM`, pids reused by other processes' children. In
the simulator: runs with a missing option (uninitialised variables, a NULL file), shifts by the width or more, and
an allocator whose `free` destroys the pointer `exitFcn` then reads. In the transpose: `trans`, which is not
registered, and accesses other than to A and B. In `btest`: the text printed, the option `-T` beyond switching the limit off, and signals other than the alarm.

Of section 1, "The rest": `csapp.c` is linked with nothing here. The helper programs do one thing each, which is what the children of
`Tsh` may do. The grading harness of the cache lab runs other programs and reads their output; what it contributes to a
property, the layout of A and B and the cache, is in `Trans`. `fshow.c` and `ishow.c` print one number. The bomb and attack labs have
no program of the repository's own, and the malloc lab has none.

## 7. Plan

Done: the shell (safety, liveness, refinement, input; all its safety properties proved), the simulator (refinement of LRU, proved),
the transpose (bounds and result proved), the data lab (puzzles and harness, proved).

1. Job IDs after `nextjid` has wrapped: a list of at least 4 slots and a `MAXJID` below the number of jobs, to say when two jobs share an ID.
2. `Csim` with the options missing, as nondeterministic values; the `-h` and `-v` paths.
