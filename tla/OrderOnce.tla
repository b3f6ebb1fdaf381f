------------------------------ MODULE OrderOnce ------------------------------
(***************************************************************************)
(* What order submission promises for each candidate, that is for each     *)
(* pair of a run's plan and a broker account: it is submitted at most      *)
(* once, the row that records it is written at most once, after the        *)
(* submission, and a skipped candidate is never submitted.  A submission   *)
(* may stay without a row: the process may die in between.                 *)
(***************************************************************************)
CONSTANTS Candidate, Outcome, None, Skipped

VARIABLES submitted,  \* candidates whose order was given to the broker
          recorded    \* each candidate's row

vars == <<submitted, recorded>>

Init ==
  /\ submitted = {}
  /\ recorded = [c \in Candidate |-> None]

Submit(c) ==
  /\ c \notin submitted /\ recorded[c] = None
  /\ submitted' = submitted \cup {c}
  /\ UNCHANGED recorded

Record(c, outcome) ==
  /\ recorded[c] = None
  /\ outcome = Skipped <=> c \notin submitted
  /\ recorded' = [recorded EXCEPT ![c] = outcome]
  /\ UNCHANGED submitted

Next ==
  \E c \in Candidate :
    \/ Submit(c)
    \/ \E outcome \in Outcome : Record(c, outcome)

Spec == Init /\ [][Next]_vars
=============================================================================
