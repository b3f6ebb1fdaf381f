---------------------------- MODULE ActiveConfig ----------------------------
(***************************************************************************)
(* Which configuration generates plans (services/plan_generation_tuning.py,*)
(* repositories/plan_generation_tuning.py, repositories/settings.py): the  *)
(* stored versions, the setting with the id of the active one, and the     *)
(* events from which the portfolio page tells when each was active.        *)
(*                                                                         *)
(* Making a version, making it active and recording the event are three    *)
(* commits, and whoever asks for the active version first makes sure that  *)
(* there is a baseline, by looking through the newest versions. A worker   *)
(* with a tuning run and an operator do these at the same time, and either *)
(* process may die between two commits. The search for a winner is one     *)
(* step; the gates may refuse it.                                          *)
(***************************************************************************)
EXTENDS Integers, Sequences

CONSTANTS
  Tuner,          \* the worker that executes a tuning run
  Desk,           \* the API process, with one operation at a time
  VersionLimit,   \* list_config_versions(limit=200) of ensure_baseline_config_version
  MaxVersions,    \* bound: how many versions are made
  Mortal,         \* who may die in an operation
  MaxKills        \* bound: how often

ASSUME ConfigAssumption == /\ Mortal \subseteq {Tuner, Desk} /\ Tuner # Desk
                           /\ {VersionLimit, MaxVersions, MaxKills} \subseteq Nat

Actors == {Tuner, Desk}
None == 0         \* no version

VARIABLES
  versions,       \* what each version is, by id
  activeId,       \* plan_generation_active_config_version_id
  newestEvent,    \* config_version_id of the newest event in PROMOTION_EVENT_TYPES
  searched,       \* a completed tuning run with candidates is stored
  doing,          \* what is left of each actor's operation, and what it has seen
  kills,
  torn            \* history: the event of the last activation is missing or late

activeVars == <<versions, activeId, newestEvent, searched, doing, kills, torn>>

\* A baseline with the floors of today, one of before, what that is upgraded to,
\* and what a candidate of a tuning run becomes.
Kinds == {"baseline", "legacy", "upgrade", "promoted"}
Baselines == {"baseline", "legacy"}   \* source seed, label baseline-v1

\* What an operation does next: "list" and "judge", as it ensures a baseline;
\* "baseline" and "upgrade" (create_config_version), "seat" (the setting) and "note"
\* (create_event), as it seeds one; "store" (a run and its candidates); "promoted",
\* "activate" and "record", as it promotes. A look ends with the first of these, a
\* promotion by an operator is the last, a tuning run (searches) does both.
NoStep == "idle"
Steps == {NoStep, "list", "judge", "baseline", "upgrade", "seat", "note",
          "store", "promoted", "activate", "record"}
Seeds == {"baseline", "upgrade", "seat"}

\* target: the version it found, made or was given; saw: the active one when it
\* looked; overlooked: whether its look left versions out.
NoOperation == [step |-> NoStep, searches |-> FALSE, target |-> None, saw |-> None,
                overlooked |-> FALSE]
At(p, step) == doing[p].step = step
\* A baseline is ensured.
Onward(p) == IF doing[p].searches THEN "store" ELSE NoStep
Becomes(p, op) == doing' = [doing EXCEPT ![p] = IF op.step = NoStep THEN NoOperation ELSE op]
MovesTo(p, step) == Becomes(p, [doing[p] EXCEPT !.step = step])

-----------------------------------------------------------------------------
\* A new database, or one that has been in use, maybe since the floors were low.
Databases == {[versions |-> <<>>, searched |-> FALSE],
              [versions |-> <<"baseline">>, searched |-> FALSE],
              [versions |-> <<"legacy">>, searched |-> FALSE],
              [versions |-> <<"legacy", "promoted">>, searched |-> TRUE]}

ActiveInit ==
  /\ \E db \in Databases : versions = db.versions /\ searched = db.searched
  /\ activeId = Len(versions) /\ newestEvent = activeId
  /\ doing = [p \in Actors |-> NoOperation]
  /\ kills = 0 /\ torn = FALSE

Ask(p, step, searches, v) ==
  /\ doing[p] = NoOperation
  /\ Becomes(p, [step |-> step, searches |-> searches, target |-> v, saw |-> None,
                 overlooked |-> FALSE])
  /\ UNCHANGED <<versions, activeId, newestEvent, searched, kills, torn>>

\* describe and _resolve_active_config_version; promote_candidate;
\* promote_config_version, which takes any version; run(apply=True).
Look == Ask(Desk, "list", FALSE, None)
PromoteCandidate == searched /\ Ask(Desk, "promoted", FALSE, None)
PromoteVersion == \E v \in 1..Len(versions) : Ask(Desk, "activate", FALSE, v)
TuningRun == Ask(Tuner, "list", TRUE, None)

\* The newest versions, the baselines among them, and the newest of these.
Listed == {i \in 1..Len(versions) : i > Len(versions) - VersionLimit}
Found == {i \in Listed : versions[i] \in Baselines}
IsFirst(v) == IF Found = {} THEN v = None ELSE v \in Found /\ \A i \in Found : i <= v

\* ensure_baseline_config_version.
ListVersions(p) ==
  /\ At(p, "list")
  /\ \E first \in {None} \cup Listed :
       /\ IsFirst(first)
       /\ LET next == IF first = None THEN "baseline"
                      ELSE IF versions[first] = "legacy" THEN "judge" ELSE Onward(p)
          IN Becomes(p, [step |-> next, searches |-> doing[p].searches, target |-> first,
                         saw |-> activeId, overlooked |-> Len(versions) > VersionLimit])
  /\ UNCHANGED <<versions, activeId, newestEvent, searched, kills, torn>>

\* Mutant of Upgradable: whatever is active.
UpgradableAlways(p) == TRUE
\* A legacy baseline is upgraded only if nothing else is active.
Upgradable(p) == activeId \in {None, doing[p].target}

Judge(p) ==
  /\ At(p, "judge")
  /\ Becomes(p, [doing[p] EXCEPT !.saw = activeId,
                                 !.step = IF Upgradable(p) THEN "upgrade" ELSE Onward(p)])
  /\ UNCHANGED <<versions, activeId, newestEvent, searched, kills, torn>>

Store(p) ==
  /\ At(p, "store") /\ MovesTo(p, "promoted")
  /\ searched' = TRUE
  /\ UNCHANGED <<versions, activeId, newestEvent, kills, torn>>

\* There is too little to search, or the gates refuse the winner.
NoWinner ==
  /\ At(Tuner, "store") \/ At(Tuner, "promoted")
  /\ Becomes(Tuner, NoOperation)
  /\ UNCHANGED <<versions, activeId, newestEvent, searched, kills, torn>>

CreateKind(p, kind, next) ==
  /\ At(p, kind) /\ Len(versions) < MaxVersions
  /\ versions' = Append(versions, kind)
  /\ Becomes(p, [doing[p] EXCEPT !.step = next, !.target = Len(versions) + 1])
  /\ UNCHANGED <<activeId, newestEvent, searched, kills, torn>>

CreateVersion(p) ==
  \/ \E kind \in {"baseline", "upgrade"} : CreateKind(p, kind, "seat")
  \/ CreateKind(p, "promoted", "activate")

Noting(p) == At(p, "note") \/ At(p, "record")

SetActive(p) ==
  /\ \/ At(p, "seat") /\ MovesTo(p, "note")
     \/ At(p, "activate") /\ MovesTo(p, "record")
  /\ activeId' = doing[p].target
  /\ torn' = \E q \in Actors \ {p} : Noting(q)
  /\ UNCHANGED <<versions, newestEvent, searched, kills>>

\* Mutant of Noted: whatever was made last.
NotedNewest(p) == Len(versions)
\* The version an event names.
Noted(p) == doing[p].target

RecordEvent(p) ==
  /\ \/ At(p, "note") /\ MovesTo(p, Onward(p))
     \/ At(p, "record") /\ MovesTo(p, NoStep)
  /\ newestEvent' = Noted(p)
  /\ UNCHANGED <<versions, activeId, searched, kills, torn>>

\* A process dies between two commits, or the next one raises.
OperationLost(p) ==
  /\ p \in Mortal /\ doing[p] # NoOperation /\ kills < MaxKills
  /\ kills' = kills + 1
  /\ Becomes(p, NoOperation)
  /\ torn' = (torn \/ Noting(p))
  /\ UNCHANGED <<versions, activeId, newestEvent, searched>>

ActorStep(p) ==
  \/ ListVersions(p) \/ Judge(p) \/ Store(p)
  \/ CreateVersion(p) \/ SetActive(p) \/ RecordEvent(p)
  \/ OperationLost(p)

ActiveNext ==
  \/ Look \/ PromoteCandidate \/ PromoteVersion
  \/ TuningRun
  \/ NoWinner
  \/ \E p \in Actors : ActorStep(p)

ActiveSpec == ActiveInit /\ [][ActiveNext]_activeVars

-----------------------------------------------------------------------------
\* What an operator or a tuning run promoted is not displaced by a baseline that
\* somebody's look has seeded, unless it was promoted after that look or the look
\* left versions out (services/plan_generation_tuning.py 209-265, which every
\* reader of the active version calls first).
PromotedStays ==
  [][\A p \in Actors :
       /\ At(p, "seat") /\ doing'[p].step = "note"
       /\ activeId # None /\ versions[activeId] = "promoted"
       => activeId # doing[p].saw \/ doing[p].overlooked]_activeVars

\* Between operations the newest promotion event names the active version, as the
\* portfolio page assumes (api/routes/plan_generation_tuning.py 402-425), unless
\* the last activation overlapped another one that had no event yet, or its
\* process died before the event; the next activation heals that.
HistoryTellsActive ==
  torn \/ (\E p \in Actors : Noting(p)) \/ newestEvent = activeId

=============================================================================
