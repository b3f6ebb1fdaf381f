--------------------------- MODULE RunLifecycle ---------------------------
(***************************************************************************)
(* What the run queue promises about each run, whatever processes insert,  *)
(* claim, finish, recover and delete runs: a run is queued once, taken     *)
(* once, by one taker, settled only after it was taken, and its id is      *)
(* never given to another run.                                             *)
(*                                                                         *)
(* A settled run may be settled again: a late worker may replace a         *)
(* recovery's verdict, and a recovery a worker's (RunQueue says when).     *)
(***************************************************************************)
CONSTANTS Run, Taker

VARIABLES phase,  \* new, queued, taken, settled, gone
          taker   \* who took the run

vars == <<phase, taker>>

Init ==
  /\ phase = [r \in Run |-> "new"]
  /\ taker \in [Run -> Taker]

Enqueue(r) ==
  /\ phase[r] = "new"
  /\ phase' = [phase EXCEPT ![r] = "queued"]
  /\ UNCHANGED taker

Take(r, t) ==
  /\ phase[r] = "queued"
  /\ phase' = [phase EXCEPT ![r] = "taken"]
  /\ taker' = [taker EXCEPT ![r] = t]

\* One worker settles its run; a recovery may settle several at once.
Settle(S) ==
  /\ \A r \in S : phase[r] \in {"taken", "settled"}
  /\ phase' = [r \in Run |-> IF r \in S THEN "settled" ELSE phase[r]]
  /\ UNCHANGED taker

Remove(r, t) ==
  /\ phase[r] \in {"queued", "taken", "settled"}
  /\ phase' = [phase EXCEPT ![r] = "gone"]
  /\ taker' = [taker EXCEPT ![r] = t]

Next ==
  \/ \E r \in Run : Enqueue(r)
  \/ \E r \in Run, t \in Taker : Take(r, t) \/ Remove(r, t)
  \/ \E S \in SUBSET Run : Settle(S)

Spec == Init /\ [][Next]_vars
=============================================================================
