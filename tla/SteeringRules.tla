----------------------------- MODULE SteeringRules -----------------------------
(***************************************************************************)
(* What broker steering decides about one plan's order or position         *)
(* (BrokerSteeringEngine.evaluate).  The module has no state: its operators *)
(* are functions of a record s that BrokerSteeringStateBuilder puts        *)
(* together from the plan, its order row, its position row, the latest     *)
(* price and the latest evidence.                                          *)
(*                                                                         *)
(* Prices are integers and the engine's percentages are distances: what    *)
(* the properties compare is on which side of a level another one lies,    *)
(* never how far.  Confidence keeps the engine's three thresholds.         *)
(*                                                                         *)
(*   s.dir         "long", "short" or anything else                        *)
(*   s.pending, s.held                an active order and no position; a   *)
(*                 position that is open and not empty                     *)
(*   s.price       latest price or NoLevel;  s.entry  the plan's entry     *)
(*   s.stop0       the plan's stop-loss                                    *)
(*   s.stop, s.tp  the order row's levels, the plan's without a row        *)
(*   s.conf        effective confidence;  s.noAction, s.conflict, s.severe *)
(*                 the evidence: no action, "none"/"weak"/"strong" conflict *)
(*                 of direction, severe news                               *)
(*   s.healthy, s.fresh, s.linked     the broker's state is reconciled, is *)
(*                 recent, the protective orders are there                 *)
(*   s.expired, s.overdue             past the order's, the holding period *)
(***************************************************************************)
EXTENDS Integers, FiniteSets

CONSTANTS
  Rules,          \* the rules the settings switch on
  Trigger,        \* gain at which a profit is locked in
  Lock,           \* profit that is locked in
  Cushion,        \* distance of a tightened stop from the price
  TpCushion,      \* distance of a lowered take-profit from the price
  MinTpGap,       \* least distance a take-profit keeps from the price
  Chase,          \* distance at which the price has run away from the entry
  PendingMinConf, HoldMinConf, CloseMinConf,
  PendingSignals, \* signals that cancel a pending order
  HoldSignals,    \* signals that tighten a position's exits
  CloseSignals,   \* signals that close a position
  NoLevel

RuleNames ==
  {"cancel_expired", "cancel_invalidated", "close_on_severe", "move_to_profit",
   "tighten_on_deterioration", "lower_tp_on_weakness"}

\* The defaults of BrokerSteeringConfig satisfy these: 0.10 % is locked in at a
\* gain of 0.75 %, the cushions are positive.
ASSUME RulesAssumption ==
  /\ Rules \subseteq RuleNames
  /\ {Trigger, Lock, Cushion, TpCushion, MinTpGap, Chase} \subseteq Nat \ {0}
  /\ Lock < Trigger
  /\ NoLevel \notin Int

Decisions ==
  {"cancel_pending_order", "keep_pending_order", "tighten_stop_loss",
   "move_stop_to_breakeven_or_profit", "lower_take_profit", "close_position_now",
   "keep_position_exits", "manual_review_required"}

\* The two directions mirror each other: Ahead(d, a, b) says that a lies
\* further than b in the direction in which d gains, Shift moves that way.
Ahead(d, a, b) == IF d = "long" THEN a > b ELSE a < b
Shift(d, p, n) == IF d = "long" THEN p + n ELSE p - n
Tighter(d, a, b) == IF Ahead(d, a, b) THEN a ELSE b

Decide(name) == [name |-> name, stop |-> NoLevel, tp |-> NoLevel]

----------------------------------------------------------------------------
(* Signals: the sets of reasons that hold.                                 *)

Conflicts(s) == s.conflict # "none"

PriceChasedAway(s) ==
  s.price # NoLevel /\ ~Ahead(s.dir, Shift(s.dir, s.entry, Chase), s.price)

HardStopBroken(s) == s.price # NoLevel /\ ~Ahead(s.dir, s.price, s.stop)

PendingInvalidation(s) ==
  {r \in {"confidence", "no_action", "conflict", "severe", "chased", "uncertain"} :
     \/ r = "confidence" /\ s.conf < PendingMinConf
     \/ r = "no_action" /\ s.noAction
     \/ r = "conflict" /\ Conflicts(s)
     \/ r = "severe" /\ s.severe
     \/ r = "chased" /\ PriceChasedAway(s)
     \/ r = "uncertain" /\ ~s.healthy}

SevereInvalidation(s) ==
  {r \in {"confidence", "no_action", "conflict", "severe", "stop_broken", "exits_missing"} :
     \/ r = "confidence" /\ s.conf < CloseMinConf
     \/ r = "no_action" /\ s.noAction
     \/ r = "conflict" /\ s.conflict = "strong"
     \/ r = "severe" /\ s.severe
     \/ r = "stop_broken" /\ HardStopBroken(s)
     \/ r = "exits_missing" /\ ~s.linked}

Deterioration(s) ==
  {r \in {"confidence", "no_action", "conflict", "severe"} :
     \/ r = "confidence" /\ s.conf < HoldMinConf
     \/ r = "no_action" /\ s.noAction
     \/ r = "conflict" /\ Conflicts(s)
     \/ r = "severe" /\ s.severe}

----------------------------------------------------------------------------
(* Levels a rule may propose, NoLevel when it proposes none.               *)

Baseline(s) == Tighter(s.dir, s.stop, s.stop0)

\* Once the gain has reached Trigger, a stop that locks in Lock, if it is
\* tighter than both known stops.
ProfitLockStop(s) ==
  LET candidate == Shift(s.dir, s.entry, Lock) IN
  IF /\ s.price # NoLevel
     /\ ~Ahead(s.dir, Shift(s.dir, s.entry, Trigger), s.price)
     /\ Ahead(s.dir, candidate, Baseline(s))
  THEN candidate ELSE NoLevel

\* A stop at Cushion behind the price, if it is tighter than both known stops
\* and than the profit that could be locked in.
TightenedStop(s) ==
  LET candidate == Shift(s.dir, s.price, -Cushion) IN
  IF /\ s.price # NoLevel
     /\ Ahead(s.dir, candidate, Baseline(s))
     /\ ProfitLockStop(s) # NoLevel => Ahead(s.dir, candidate, ProfitLockStop(s))
  THEN candidate ELSE NoLevel

\* A take-profit nearer to the price than the present one, for a position
\* that gains.
LoweredTakeProfit(s) ==
  LET candidate == Shift(s.dir, s.price, TpCushion) IN
  IF /\ s.price # NoLevel
     /\ Ahead(s.dir, s.price, s.entry)
     /\ Ahead(s.dir, candidate, Shift(s.dir, s.price, MinTpGap))
     /\ Ahead(s.dir, s.tp, candidate)
     /\ Ahead(s.dir, candidate, s.entry)
  THEN candidate ELSE NoLevel

----------------------------------------------------------------------------
(* The decision: the first rule that applies.                              *)

\* An order waiting for its entry.
EvaluatePending(s) ==
  IF \/ "cancel_expired" \in Rules /\ s.expired
     \/ /\ "cancel_invalidated" \in Rules
        /\ Cardinality(PendingInvalidation(s)) >= PendingSignals
  THEN Decide("cancel_pending_order")
  ELSE Decide("keep_pending_order")

\* A position: uncertainty about the broker goes to an operator before any
\* rule; then close, lock in a profit, tighten, lower the take-profit, keep.
EvaluateFilled(s) ==
  LET weak == Cardinality(Deterioration(s)) >= HoldSignals IN
  IF ~s.healthy \/ s.overdue \/ ~s.fresh \/ ~s.linked
  THEN Decide("manual_review_required")
  ELSE IF /\ "close_on_severe" \in Rules
          /\ Cardinality(SevereInvalidation(s)) >= CloseSignals
  THEN Decide("close_position_now")
  ELSE IF "move_to_profit" \in Rules /\ ProfitLockStop(s) # NoLevel
  THEN [Decide("move_stop_to_breakeven_or_profit") EXCEPT !.stop = ProfitLockStop(s)]
  ELSE IF /\ "tighten_on_deterioration" \in Rules /\ weak
          /\ TightenedStop(s) # NoLevel
  THEN [Decide("tighten_stop_loss") EXCEPT !.stop = TightenedStop(s)]
  ELSE IF /\ "lower_tp_on_weakness" \in Rules /\ weak
          /\ LoweredTakeProfit(s) # NoLevel
  THEN [Decide("lower_take_profit") EXCEPT !.tp = LoweredTakeProfit(s)]
  ELSE Decide("keep_position_exits")

Evaluate(s) ==
  IF s.dir \notin {"long", "short"} THEN Decide("manual_review_required")
  ELSE IF s.pending THEN EvaluatePending(s)
  ELSE IF s.held THEN EvaluateFilled(s)
  ELSE Decide("manual_review_required")
=============================================================================
