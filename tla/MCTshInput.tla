----------------------------- MODULE MCTshInput -----------------------------
(***************************************************************************)
(* Instances of TshInput for TLC.                                          *)
(***************************************************************************)
EXTENDS TshInput

CONSTANT MaxTyped  \* bound: length of the inputs that are tried exhaustively

NoProcess == 0

Characters ==
  {"x", "fg", "&", Blank, Quote, Newline, NUL}

\* Lines with one command each, as one would type them.
Commands ==
  {<< "jobs" >>, << "quit" >>, << "x", Blank, "&" >>, << "x", Blank, Quote, "&", Quote >>,
   << "x", "&" >>, << "x" >>, << >>, << Blank, Blank, "x" >>,
   << Quote, "x", Blank, "1", Quote, "2" >>, << "x", Quote, Blank, Quote, "x", Quote >>,
   << Quote, Quote, Quote, Quote, Quote, Quote >>, << "x", Blank, "x", Blank, "x" >>,
   << "x", "x", "x", "x", "x", "x", "x" >>, << "x", "x", "x", "x", "x", "x", "x", "x" >>}
    \cup {<< c, Blank >> \o arg : c \in {"fg", "bg"},
            arg \in {<< "1" >>, << "2" >>, << "3" >>, << "0" >>, << "-", "1" >>,
                     << "1", "1" >>, << "1", "x" >>, << "%", "1" >>, << "%", "2" >>,
                     << "%", "3" >>, << "%", "1", "1" >>, << "%", "9", "9" >>, << "%" >>, << "x" >>}}

\* Every short input, and two commands, the last with or without its newline.
SomeInputs ==
  UNION {[1 .. n -> Characters] : n \in 0 .. MaxTyped}
    \cup {c \o << Newline >> \o d \o e :
            c, d \in Commands, e \in {<< >>, << Newline >>}}

Listing(n, list) ==
  [nextjid |-> n,
   jobs |-> [i \in Slots |-> IF i + 1 \in DOMAIN list THEN list[i + 1] ELSE clearjob]]

\* No job; two whose IDs are each other's pid; a full list.
SomeLists ==
  { Listing(1, << >>),
    Listing(4, << [pid |-> 1, jid |-> 3, state |-> ST],
                  [pid |-> 3, jid |-> 1, state |-> BG] >>),
    Listing(4, << [pid |-> 2, jid |-> 1, state |-> ST],
                  [pid |-> 4, jid |-> 2, state |-> BG],
                  [pid |-> 3, jid |-> 3, state |-> ST] >>) }

=============================================================================
