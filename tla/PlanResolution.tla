---------------------------- MODULE PlanResolution ----------------------------
(***************************************************************************)
(* How a plan's simulated outcome is decided from price bars.              *)
(*                                                                         *)
(*   services/plan_resolution_engine.py           the crossing rules       *)
(*   services/recommendation_plan_evaluations.py  loading, precedence,     *)
(*                                                expiry, recording        *)
(*   repositories/recommendation_outcomes.py      one row for a plan       *)
(*                                                                         *)
(* The market shows one bar of the finest timeframe after another.  What   *)
(* matters of a bar is which of the plan's levels its range touches: the   *)
(* entry zone, the stop, the target.  An evaluation reads what is stored   *)
(* or, failing that, a download: bars of the first timeframe that has any, *)
(* coarse or fine, with gaps, with a late start, as they were when they    *)
(* were stored, the last perhaps still in progress.                        *)
(*                                                                         *)
(* A scheduled evaluation takes the plan while it is unresolved, a         *)
(* requested one takes it always; both read the histories of all plans     *)
(* before they resolve and record the first, so what is read and what is   *)
(* recorded lie apart.  The plan is a long or a short one; the phantom     *)
(* outcomes of a plan not acted upon are these under other names.  Left    *)
(* out: evaluations as of an earlier day (a replay's), which ask for full  *)
(* coverage and take nothing later than that day.                          *)
(***************************************************************************)
EXTENDS Naturals, Sequences

CONSTANTS
  Bar,         \* the kinds of bar: the sets of levels a range may touch
  Span,        \* the finest bars that the coarsest timeframe read has in one
  Computed,    \* number of bars that closed before the plan was computed
  Horizon,     \* the bar whose close ends the plan's horizon
  LastBar,     \* bound: number of bars that close
  Scheduled, Requested   \* the two evaluations

Evaluation == {Scheduled, Requested}

ASSUME PlanAssumption ==
  /\ Bar \subseteq SUBSET {"entry", "stop", "take"} /\ {} \in Bar
  /\ Span \in Nat \ {0}
  /\ Computed \in Nat /\ Horizon \in Nat /\ LastBar \in Nat
  /\ Computed <= LastBar
  /\ Scheduled # Requested

VARIABLES
  market,    \* what each bar has touched, the last one still in progress
  outcome,   \* the plan's outcome row
  eval,      \* what each evaluation makes of the history it has read
  doubtful   \* history: the recorded outcome is from a history that was not whole

planVars == <<market, outcome, eval, doubtful>>

Now == Len(market) - 1               \* number of bars that have closed
Decided == {"win", "loss"}
Resolved == Decided \cup {"expired"}
Unresolved == {"none", "pending", "no_entry", "open"}
Aside == [loaded |-> FALSE, result |-> "pending", whole |-> TRUE]

\* The first bar that closes at or after the moment the plan was computed; it may
\* have begun before and counts as a whole.
FirstBar == Computed + 1

----------------------------------------------------------------------------
(* The crossing rules, over the bars of a history: from which of the       *)
(* market's bars to which each extends, and which levels it shows.         *)

Entered(h, b) == \E a \in h : a.to <= b.to /\ "entry" \in a.shows
\* Bar b decides the plan: it was entered no later, and a level is hit.
Decides(h, b) == Entered(h, b) /\ b.shows \cap {"stop", "take"} # {}
FirstDecides(h, b) == Decides(h, b) /\ \A a \in h : Decides(h, a) => b.to <= a.to

\* A bar that hits both levels is a loss.
Wins(h) == \E b \in h : FirstDecides(h, b) /\ "stop" \notin b.shows
Loses(h) == \E b \in h : FirstDecides(h, b) /\ "stop" \in b.shows

Crossing(h) ==
  CASE h = {} -> "pending"
    [] Wins(h) -> "win"
    [] Loses(h) -> "loss"
    [] h # {} /\ \A b \in h : ~Entered(h, b) -> "no_entry"
    [] OTHER -> "open"

\* Mutant of RowsOnOrAfter: by the time the history was asked for, from two days
\* before the plan.
RowsOfAnyTime(h) == h

\* A bar counts if it closes after the plan was computed, whenever it began.
RowsOnOrAfter(h) == {b \in h : b.to >= FirstBar}

\* Intraday bars prevail, even if none counts; days alone never decide.
Precedence(days, h) ==
  IF h # {} THEN Crossing(RowsOnOrAfter(h))
  ELSE IF days \in {"no_entry", "open"} THEN days
  ELSE "pending"

\* The clock is read anew.
\* Mutant of Finalize: whatever the bars say, a plan past its horizon expires.
FinalizeAll(result) == IF Now >= Horizon THEN "expired" ELSE result
Finalize(result) == IF result \notin Resolved /\ Now >= Horizon THEN "expired" ELSE result

----------------------------------------------------------------------------
(* What may be read, and what was there to be read.                        *)

Window == [from : 1..Len(market), to : 1..Len(market)]
Disjoint(ws) == \A v, w \in ws : v = w \/ v.to < w.from \/ w.to < v.from

\* Where the bars of a history may lie: anywhere up to the bar in progress, of any
\* length read.  (One history has bars of one timeframe; that it may mix them here
\* only allows more.)
Layouts ==
  {ws \in SUBSET {w \in Window : w.from <= w.to /\ w.to < w.from + Span} : Disjoint(ws)}

Touched(w) == UNION {market[i] : i \in w.from..w.to}

\* A stored bar shows what its part of the market had touched when it was stored.
\* (Nothing is stored that no source reported, and none reports prices that were
\* not there.)
Readable(shows) == \A w \in DOMAIN shows : shows[w] \subseteq Touched(w)

AsRead(shows) ==
  {[from |-> w.from, to |-> w.to, shows |-> shows[w]] : w \in DOMAIN shows}

\* The market's own bars since the plan, up to the n-th.
Since(n) == {[from |-> i, to |-> i, shows |-> market[i]] : i \in FirstBar..n}

\* The history has the market's bars since the plan, from the first on, one by
\* one and as they are now, up to some bar; and if it tells a win, so do the bars
\* that have closed.
Whole(h) ==
  \E n \in Computed..Len(market) :
    /\ {b \in h : b.to >= FirstBar} = Since(n)
    /\ Crossing(Since(n)) = "win" => Crossing(Since(Now)) = "win"

----------------------------------------------------------------------------
PlanInit ==
  /\ market \in [1..FirstBar -> Bar]
  /\ outcome = "none"
  /\ eval = [e \in Evaluation |-> Aside]
  /\ doubtful = FALSE

\* The bar in progress touches more, or closes and the next one begins.
MarketMoves ==
  /\ \/ \E bar \in Bar : /\ market[Len(market)] \subseteq bar
                         /\ market' = [market EXCEPT ![Len(market)] = bar]
     \/ Now < LastBar /\ market' = Append(market, {})
  /\ UNCHANGED <<outcome, eval, doubtful>>

\* The intraday history: whatever is stored or, for an empty store, what a
\* download brings; none, if that or the reading of the days fails.
LoadPriceHistory ==
  {AsRead(shows) : shows \in {f \in UNION {[ws -> Bar] : ws \in Layouts} : Readable(f)}}

\* The default batch leaves resolved plans out; an explicit id is always taken.
\* Which days are read is left open with what they say.
Prepare(e) ==
  /\ ~eval[e].loaded
  /\ e = Scheduled => outcome \notin Resolved
  /\ \E h \in LoadPriceHistory :
       \E result \in {Precedence(days, h) : days \in Unresolved \cup Decided} :
         eval' = [eval EXCEPT ![e] = [loaded |-> TRUE, result |-> result, whole |-> Whole(h)]]
  /\ UNCHANGED <<market, outcome, doubtful>>

Record(e) ==
  /\ eval[e].loaded
  /\ outcome' = Finalize(eval[e].result)
  /\ doubtful' = ~eval[e].whole
  /\ eval' = [eval EXCEPT ![e] = Aside]
  /\ UNCHANGED market

\* The process dies, or the evaluation fails on another plan.
Abandon(e) ==
  /\ eval[e].loaded
  /\ eval' = [eval EXCEPT ![e] = Aside]
  /\ UNCHANGED <<market, outcome, doubtful>>

PlanNext ==
  \/ MarketMoves
  \/ \E e \in Evaluation : Prepare(e) \/ Record(e) \/ Abandon(e)

PlanSpec == PlanInit /\ [][PlanNext]_planVars

----------------------------------------------------------------------------
PlanTypeOK ==
  /\ market \in Seq(Bar) /\ Len(market) \in FirstBar..(LastBar + 1)
  /\ outcome \in Resolved \cup Unresolved
  /\ eval \in [Evaluation -> [loaded : BOOLEAN, result : Decided \cup Unresolved,
                              whole : BOOLEAN]]
  /\ doubtful \in BOOLEAN

\* Some bar touched the entry zone and some bar the level, both since the plan
\* and in this order, as exactly as bars of the coarsest timeframe tell.
Touches(level) ==
  \E i, j \in 1..Len(market) :
    /\ "entry" \in market[i] /\ level \in market[j]
    /\ i < j + Span /\ FirstBar < i + Span /\ FirstBar < j + Span

\* A recorded win or loss is of a level that the market did reach after the
\* entry, whatever was missing, coarse or stale in what was read.  If that was
\* the market's own bars, it is what these say, however many there are by now
\* (_resolve_trade_like_outcome, rows_on_or_after, resolve_exit).
DecidedIsTrue ==
  /\ outcome = "win" => Touches("take")
  /\ outcome = "loss" => Touches("stop")
  /\ outcome \in Decided /\ ~doubtful => outcome = Crossing(Since(Len(market)))

\* Evaluation e is the one that records.
Records(e) == eval[e].loaded /\ ~eval'[e].loaded
StaysOrOverwritten ==
  outcome \in Decided =>
    \/ outcome' = outcome
    \/ doubtful
    \/ \E e \in Evaluation : Records(e) /\ (~eval[e].whole \/ eval[e].result \notin Decided)

\* A win or a loss stays, through every later evaluation and past the horizon,
\* unless the history it came from was not whole, or that of the evaluation which
\* overwrites it is not, or ends before the level was hit
\* (RecommendationPlanEvaluationService.run_evaluation, _finalize_outcome).
DecidedStays == [][StaysOrOverwritten]_planVars
=============================================================================
