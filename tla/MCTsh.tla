------------------------------- MODULE MCTsh -------------------------------
(***************************************************************************)
(* Instances of Tsh for TLC.                                               *)
(***************************************************************************)
EXTENDS Tsh, TLC

CONSTANTS p1, p2

\* Processes differ in nothing but their names.
Symmetry == Permutations({p1, p2})

(***************************************************************************)
(* For liveness: the same shell used by somebody who does not quit it, types *)
(* ctrl-c only while there is one child at most, and no command while that   *)
(* child has not yet taken it.  Only steps of the user are held back, and    *)
(* both properties hold at once when the shell exits.                        *)
(***************************************************************************)
Alone == \A p, q \in Pids : p # q => proc[p] = "free" \/ proc[q] = "free"

Interrupting == \E p \in Pids : "INT" \in sent[p]

PatientNext ==
  /\ Next
  /\ shell' # "exited"
  /\ Keyboard("INT") => Alone /\ main # "fork"
  /\ main = "prompt" /\ main' = "fork" => ~Interrupting

PatientSpec == Init /\ [][PatientNext]_vars /\ Fairness

=============================================================================
