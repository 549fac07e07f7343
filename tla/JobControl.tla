----------------------------- MODULE JobControl -----------------------------
(***************************************************************************)
(* What the shell's job control promises, seen from outside: every process *)
(* is unknown to the shell or is a job in one of three states, and at most  *)
(* one job is in the foreground.  The job states and the commands that      *)
(* change them are those of the header comment of tsh.c, which lists ctrl-z *)
(* as the only way into "ST"; sigchld_handler adds a background job that    *)
(* stops by itself.                                                        *)
(***************************************************************************)
CONSTANT Pids

VARIABLE job  \* job[p]: "FG", "BG", "ST", or "none" when p has no job

Foreground == {p \in Pids : job[p] = "FG"}

Init == job = [p \in Pids |-> "none"]

\* A command line starts p.  A foreground job needs the terminal to be free.
Start(p, s) ==
  /\ job[p] = "none"
  /\ s = "FG" => Foreground = {}
  /\ job' = [job EXCEPT ![p] = s]

\* ctrl-z, or a stop signal from elsewhere.
Stop(p) ==
  /\ job[p] \in {"FG", "BG"}
  /\ job' = [job EXCEPT ![p] = "ST"]

\* The fg command, on a background or a stopped job.
Resume(p) ==
  /\ job[p] \in {"BG", "ST"}
  /\ Foreground = {}
  /\ job' = [job EXCEPT ![p] = "FG"]

\* The bg command on a stopped job.
Background(p) ==
  /\ job[p] = "ST"
  /\ job' = [job EXCEPT ![p] = "BG"]

\* The process terminated and was reaped.
End(p) ==
  /\ job[p] # "none"
  /\ job' = [job EXCEPT ![p] = "none"]

\* Every step changes the job of one process.
Next ==
  \E p \in Pids :
    /\ job'[p] # job[p]
    /\ \/ \E s \in {"FG", "BG"} : Start(p, s)
       \/ Stop(p)
       \/ Resume(p)
       \/ Background(p)
       \/ End(p)

Spec == Init /\ [][Next]_job

=============================================================================
