------------------------------ MODULE JobList ------------------------------
(***************************************************************************)
(* The job list of tsh.c: the array jobs[MAXJOBS] and the helper routines   *)
(* between "Helper routines that manipulate the job list" and "end job list *)
(* helper routines".  The array is a function from slot numbers to records; *)
(* a slot is free when its pid is NoPid (0 in the code).  The command line  *)
(* kept in a slot is only ever printed, so it is left out.                  *)
(*                                                                         *)
(* The helpers that scan the array return the first slot that matches; the  *)
(* operators below return that slot (or pid, or jid), and the guard-like    *)
(* ones return NoSlot where the code returns NULL.                          *)
(***************************************************************************)
EXTENDS Integers, FiniteSets

CONSTANTS
  MAXJOBS,  \* number of slots of the array
  MAXJID,   \* addjob restarts nextjid at 1 beyond this value
  Pids,     \* process identifiers fork can return
  NoPid     \* the pid 0 of a free slot

ASSUME SizeAssumption == MAXJOBS \in Nat \ {0} /\ MAXJID \in Nat \ {0}
ASSUME PidAssumption == NoPid \notin Pids

UNDEF == "UNDEF"
FG    == "FG"
BG    == "BG"
ST    == "ST"

JobState == {UNDEF, FG, BG, ST}

Slots == 0 .. MAXJOBS - 1

NoSlot == MAXJOBS

Job == [pid : Pids \cup {NoPid}, jid : Nat, state : JobState]

-----------------------------------------------------------------------------

\* clearjob: what a cleared slot holds.
clearjob == [pid |-> NoPid, jid |-> 0, state |-> UNDEF]

\* initjobs: every slot cleared.
initjobs == [i \in Slots |-> clearjob]

\* The first slot of S, as a scan from slot 0 finds it; NoSlot if S is empty.
First(S) ==
  IF S = {} THEN NoSlot ELSE CHOOSE i \in S : \A k \in S : i <= k

\* maxjid: the largest job ID in the list, 0 when every slot is free.
maxjid(jobs) ==
  CHOOSE m \in {jobs[i].jid : i \in Slots} : \A i \in Slots : jobs[i].jid <= m

\* The slot addjob fills.
FreeSlot(jobs) == First({i \in Slots : jobs[i].pid = NoPid})

\* getjobpid: the slot of pid p.
getjobpid(jobs, p) == First({i \in Slots : p # NoPid /\ jobs[i].pid = p})

\* getjobjid: the slot of job ID n.
getjobjid(jobs, n) == First({i \in Slots : n >= 1 /\ jobs[i].jid = n})

\* pid2jid: the job ID of pid p, 0 when p has no slot.
pid2jid(jobs, p) ==
  LET i == getjobpid(jobs, p) IN IF i = NoSlot THEN 0 ELSE jobs[i].jid

\* Mutant of fgpid: any job that is not stopped is taken for the foreground.
fgpidOrBackground(jobs) ==
  LET i == First({k \in Slots : jobs[k].state \in {FG, BG}})
  IN  IF i = NoSlot THEN NoPid ELSE jobs[i].pid

\* fgpid: the pid of the foreground job, NoPid when there is none.
fgpid(jobs) ==
  LET i == First({k \in Slots : jobs[k].state = FG})
  IN  IF i = NoSlot THEN NoPid ELSE jobs[i].pid

\* nextjid as addjob leaves it after giving out the job ID n.
JidAfter(n) == IF n + 1 > MAXJID THEN 1 ELSE n + 1

\* deletejob: the list without pid p, and nextjid afterwards.  A pid that has
\* no slot leaves both alone.
deletejob(jobs, p) ==
  LET i == getjobpid(jobs, p)
  IN  IF i = NoSlot THEN jobs ELSE [jobs EXCEPT ![i] = clearjob]

\* Mutant of JidAfterDelete: the deleted job's ID is given out next.
JidReused(jobs, p, n) ==
  IF getjobpid(jobs, p) = NoSlot THEN n ELSE pid2jid(jobs, p)

\* nextjid as deletejob leaves it: no test against MAXJID here.
JidAfterDelete(jobs, p, n) ==
  IF getjobpid(jobs, p) = NoSlot THEN n ELSE maxjid(deletejob(jobs, p)) + 1

=============================================================================
