--------------------------- MODULE JobListProofs ---------------------------
(***************************************************************************)
(* What the helpers of the job list return, for lists of any length.       *)
(***************************************************************************)
EXTENDS JobList, WellFoundedInduction, TLAPS

\* A nonempty set of natural numbers has a least element.
LEMMA LeastNatural ==
  ASSUME NEW T, T \subseteq Nat, T # {}
  PROVE  \E x \in T : \A y \in T : x <= y
<1>1. PICK x \in T : \A y \in T : ~ (<<y, x>> \in OpToRel(<, Nat))
  BY WFMin, NatLessThanWellFounded
<1>2. \A y \in T : ~ (y < x)
  BY <1>1 DEF OpToRel
<1> QED BY <1>2

\* First returns the least slot of a set of slots, or NoSlot.
LEMMA FirstSlot ==
  ASSUME NEW S \in SUBSET Slots
  PROVE  /\ S = {} => First(S) = NoSlot
         /\ S # {} => First(S) \in S /\ \A k \in S : First(S) <= k
<1>1. S \subseteq Nat
  BY SizeAssumption DEF Slots
<1>2. S # {} => \E i \in S : \A k \in S : i <= k
  BY <1>1, LeastNatural
<1> QED BY <1>2 DEF First

\* NoSlot is not a slot.
LEMMA NoSlotFact == NoSlot \notin Slots /\ NoSlot \in Nat
  BY SizeAssumption DEF NoSlot, Slots

\* The list holds a largest job ID, and maxjid returns it.
LEMMA MaxJid ==
  ASSUME NEW jobs \in [Slots -> Job]
  PROVE  /\ maxjid(jobs) \in Nat
         /\ \A i \in Slots : jobs[i].jid <= maxjid(jobs)
         /\ \E i \in Slots : jobs[i].jid = maxjid(jobs)
<1> DEFINE Bounded(k) == \E m \in Nat : \A i \in Slots : i < k => jobs[i].jid <= m
           Bad == {k \in 0 .. MAXJOBS : ~ Bounded(k)}
           Upper == {m \in Nat : \A i \in Slots : jobs[i].jid <= m}
<1>0. /\ MAXJOBS \in Nat \ {0}
      /\ \A i \in Slots : jobs[i].jid \in Nat
  BY SizeAssumption DEF Job
<1>1. Bad = {}
  <2> SUFFICES ASSUME Bad # {} PROVE FALSE
    OBVIOUS
  <2>1. PICK k \in Bad : \A l \in Bad : k <= l
    <3>1. Bad \subseteq Nat
      BY <1>0
    <3> QED BY <3>1, LeastNatural
  <2>2. k # 0
    <3>1. \A i \in Slots : ~ (i < 0)
      BY <1>0 DEF Slots
    <3>2. Bounded(0)
      BY <3>1
    <3> QED BY <2>1, <3>2
  <2>3. k \in 0 .. MAXJOBS /\ k - 1 \in 0 .. MAXJOBS /\ k - 1 \in Slots
    BY <1>0, <2>1, <2>2 DEF Slots
  <2>4. Bounded(k - 1)
    BY <2>1, <2>3, <1>0
  <2>5. PICK m \in Nat : \A i \in Slots : i < k - 1 => jobs[i].jid <= m
    BY <2>4
  <2>6. PICK n \in Nat : m <= n /\ jobs[k - 1].jid <= n
    <3>1. jobs[k - 1].jid \in Nat
      BY <1>0, <2>3
    <3>2. CASE m <= jobs[k - 1].jid
      BY <3>1, <3>2
    <3>3. CASE ~ (m <= jobs[k - 1].jid)
      BY <3>1, <3>3
    <3> QED BY <3>2, <3>3
  <2>7. ASSUME NEW i \in Slots, i < k
        PROVE  jobs[i].jid <= n
    <3>1. i < k - 1 \/ i = k - 1
      BY <1>0, <2>3, <2>7 DEF Slots
    <3>2. jobs[i].jid \in Nat
      BY <1>0
    <3> QED BY <2>5, <2>6, <3>1, <3>2
  <2>8. Bounded(k)
    BY <2>7
  <2> QED BY <2>1, <2>8
<1>2. Upper # {}
  <2>1. MAXJOBS \in 0 .. MAXJOBS
    BY <1>0
  <2>2. Bounded(MAXJOBS)
    BY <1>1, <2>1
  <2>3. PICK m \in Nat : \A i \in Slots : i < MAXJOBS => jobs[i].jid <= m
    BY <2>2
  <2>4. \A i \in Slots : i < MAXJOBS
    BY <1>0 DEF Slots
  <2>5. m \in Upper
    BY <2>3, <2>4
  <2> QED BY <2>5
<1>3. PICK m \in Upper : \A n \in Upper : m <= n
  BY <1>2, LeastNatural
<1>4. \E i \in Slots : jobs[i].jid = m
  <2> SUFFICES ASSUME \A i \in Slots : jobs[i].jid # m PROVE FALSE
    OBVIOUS
  <2>1. \A i \in Slots : jobs[i].jid < m
    BY <1>0, <1>3
  <2>2. 0 \in Slots
    BY <1>0 DEF Slots
  <2>3. m - 1 \in Upper
    BY <1>0, <1>3, <2>1, <2>2
  <2> QED BY <1>3, <2>3
<1>5. /\ m \in {jobs[i].jid : i \in Slots}
      /\ \A i \in Slots : jobs[i].jid <= m
  BY <1>3, <1>4
<1>6. /\ maxjid(jobs) \in {jobs[i].jid : i \in Slots}
      /\ \A i \in Slots : jobs[i].jid <= maxjid(jobs)
  BY <1>5 DEF maxjid
<1> QED BY <1>0, <1>6

\* FreeSlot returns a slot without pid, or NoSlot when the list is full.
LEMMA FreeSlotFact ==
  ASSUME NEW jobs
  PROVE  \/ FreeSlot(jobs) \in Slots /\ jobs[FreeSlot(jobs)].pid = NoPid
         \/ FreeSlot(jobs) = NoSlot /\ \A i \in Slots : jobs[i].pid # NoPid
  BY FirstSlot DEF FreeSlot

\* getjobpid finds the slot of a pid if there is one.
LEMMA GetJobPid ==
  ASSUME NEW jobs, NEW p
  PROVE  \/ /\ getjobpid(jobs, p) \in Slots
            /\ p # NoPid
            /\ jobs[getjobpid(jobs, p)].pid = p
         \/ /\ getjobpid(jobs, p) = NoSlot
            /\ p # NoPid => \A i \in Slots : jobs[i].pid # p
  BY FirstSlot DEF getjobpid

\* getjobjid finds a slot with a job ID if there is one.
LEMMA GetJobJid ==
  ASSUME NEW jobs, NEW n
  PROVE  \/ /\ getjobjid(jobs, n) \in Slots
            /\ n >= 1
            /\ jobs[getjobjid(jobs, n)].jid = n
         \/ /\ getjobjid(jobs, n) = NoSlot
            /\ n >= 1 => \A i \in Slots : jobs[i].jid # n
  BY FirstSlot DEF getjobjid

\* fgpid returns the pid of a slot in the foreground, or NoPid when there is none.
LEMMA FgPid ==
  ASSUME NEW jobs
  PROVE  \/ \E i \in Slots : jobs[i].state = FG /\ fgpid(jobs) = jobs[i].pid
         \/ fgpid(jobs) = NoPid /\ \A i \in Slots : jobs[i].state # FG
<1>1. CASE {k \in Slots : jobs[k].state = FG} = {}
  BY <1>1, FirstSlot DEF fgpid
<1>2. CASE {k \in Slots : jobs[k].state = FG} # {}
  <2> DEFINE i == First({k \in Slots : jobs[k].state = FG})
  <2>1. i \in Slots /\ jobs[i].state = FG /\ i # NoSlot
    BY <1>2, FirstSlot, NoSlotFact
  <2> QED BY <2>1 DEF fgpid
<1> QED BY <1>1, <1>2

\* deletejob clears the slot of the pid and leaves the others alone.
LEMMA DeleteJob ==
  ASSUME NEW jobs \in [Slots -> Job], NEW p, NEW n \in Nat
  PROVE  /\ deletejob(jobs, p) \in [Slots -> Job]
         /\ JidAfterDelete(jobs, p, n) \in Nat
         /\ \A i \in Slots :
              deletejob(jobs, p)[i] = IF i = getjobpid(jobs, p) THEN clearjob
                                      ELSE jobs[i]
<1>1. clearjob \in Job
  BY DEF clearjob, Job, JobState
<1>2. getjobpid(jobs, p) \in Slots \/ getjobpid(jobs, p) = NoSlot
  BY GetJobPid
<1>3. deletejob(jobs, p) \in [Slots -> Job]
  BY <1>1, <1>2 DEF deletejob
<1>4. JidAfterDelete(jobs, p, n) \in Nat
  BY <1>3, MaxJid DEF JidAfterDelete
<1>5. ASSUME NEW i \in Slots
      PROVE  deletejob(jobs, p)[i] = IF i = getjobpid(jobs, p) THEN clearjob
                                     ELSE jobs[i]
  BY <1>2, NoSlotFact DEF deletejob
<1> QED BY <1>3, <1>4, <1>5

=============================================================================
