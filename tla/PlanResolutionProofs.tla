-------------------------- MODULE PlanResolutionProofs --------------------------
(***************************************************************************)
(* Theorems about PlanResolution, for any market, horizon and whatever     *)
(* histories are read of it.                                               *)
(*                                                                         *)
(* What carries them: a bar of a history shows nothing that its part of    *)
(* the market has not touched, the market only ever touches more, and the  *)
(* first bar to decide stays that; only a win told by the bar in progress  *)
(* may yet become a loss.                                                  *)
(***************************************************************************)
EXTENDS PlanResolution, Integers, TLAPS

----------------------------------------------------------------------------
(* The crossing rules.                                                     *)

\* Crossing says a win or a loss only where a first deciding bar does, and says
\* so wherever all such bars agree.
LEMMA CrossingValue ==
  ASSUME NEW h
  PROVE  /\ Crossing(h) \in Decided \cup Unresolved
         /\ Crossing(h) = "win" => Wins(h)
         /\ Crossing(h) = "loss" => Loses(h)
         /\ Wins(h) /\ ~Loses(h) => Crossing(h) = "win"
         /\ Loses(h) /\ ~Wins(h) => Crossing(h) = "loss"
<1>1. Wins(h) \/ Loses(h) => h # {} /\ \E b \in h : Entered(h, b)
  BY DEF Wins, Loses, FirstDecides, Decides
<1>2. CASE h = {}
  <2>1. Crossing(h) = "pending"
    BY <1>1, <1>2 DEF Crossing
  <2> QED
    BY <2>1, <1>1, <1>2 DEF Unresolved
<1>3. CASE h # {} /\ Wins(h) /\ ~Loses(h)
  <2>1. Crossing(h) = "win"
    BY <1>1, <1>3 DEF Crossing
  <2> QED
    BY <2>1, <1>3 DEF Decided
<1>4. CASE h # {} /\ Loses(h) /\ ~Wins(h)
  <2>1. Crossing(h) = "loss"
    BY <1>1, <1>4 DEF Crossing
  <2> QED
    BY <2>1, <1>4 DEF Decided
<1>5. CASE Wins(h) /\ Loses(h)
  <2>1. Crossing(h) \in {"win", "loss"}
    BY <1>1, <1>5 DEF Crossing
  <2> QED
    BY <2>1, <1>5 DEF Decided
<1>6. CASE h # {} /\ ~Wins(h) /\ ~Loses(h)
  <2>1. Crossing(h) \in {"no_entry", "open"}
    BY <1>6 DEF Crossing
  <2> QED
    BY <2>1, <1>6 DEF Unresolved
<1> QED
  BY <1>2, <1>3, <1>4, <1>5, <1>6

----------------------------------------------------------------------------
(* The market's own bars, by their numbers.                                *)

DecidesAt(m, j) ==
  (\E i \in FirstBar..j : "entry" \in m[i]) /\ m[j] \cap {"stop", "take"} # {}
FirstAt(m, j) == DecidesAt(m, j) /\ \A i \in FirstBar..(j - 1) : ~DecidesAt(m, i)
History(m, n) == {[from |-> i, to |-> i, shows |-> m[i]] : i \in FirstBar..n}

LEMMA FirstBarTyped == FirstBar \in Nat /\ FirstBar > 0
BY PlanAssumption DEF FirstBar

LEMMA DecidesOfNumber ==
  ASSUME NEW m, NEW n \in Nat, NEW j \in FirstBar..n
  PROVE  Decides(History(m, n), [from |-> j, to |-> j, shows |-> m[j]]) <=> DecidesAt(m, j)
<1> DEFINE h == History(m, n)
           b == [from |-> j, to |-> j, shows |-> m[j]]
<1>1. Entered(h, b) => \E i \in FirstBar..j : "entry" \in m[i]
  <2> SUFFICES ASSUME Entered(h, b) PROVE \E i \in FirstBar..j : "entry" \in m[i]
    OBVIOUS
  <2>1. PICK a \in h : a.to <= b.to /\ "entry" \in a.shows
    BY DEF Entered
  <2>2. PICK i \in FirstBar..n : a = [from |-> i, to |-> i, shows |-> m[i]]
    BY <2>1 DEF History
  <2>3. i \in FirstBar..j /\ "entry" \in m[i]
    BY <2>1, <2>2, FirstBarTyped
  <2> QED
    BY <2>3
<1>2. (\E i \in FirstBar..j : "entry" \in m[i]) => Entered(h, b)
  <2> SUFFICES ASSUME NEW i \in FirstBar..j, "entry" \in m[i] PROVE Entered(h, b)
    OBVIOUS
  <2>1. [from |-> i, to |-> i, shows |-> m[i]] \in h
    BY FirstBarTyped DEF History
  <2>2. i <= j
    BY FirstBarTyped
  <2> QED
    BY <2>1, <2>2 DEF Entered
<1>3. b.shows = m[j]
  OBVIOUS
<1> QED
  BY <1>1, <1>2, <1>3 DEF Decides, DecidesAt

LEMMA FirstOfNumber ==
  ASSUME NEW m, NEW n \in Nat, NEW j \in FirstBar..n
  PROVE  FirstDecides(History(m, n), [from |-> j, to |-> j, shows |-> m[j]]) <=> FirstAt(m, j)
<1> DEFINE h == History(m, n)
           b == [from |-> j, to |-> j, shows |-> m[j]]
<1>1. ASSUME FirstDecides(h, b), NEW i \in FirstBar..(j - 1) PROVE ~DecidesAt(m, i)
  <2> DEFINE a == [from |-> i, to |-> i, shows |-> m[i]]
  <2>1. i \in FirstBar..n /\ i < j
    BY FirstBarTyped
  <2>2. a \in h /\ a.to = i /\ b.to = j
    BY <2>1 DEF History
  <2>3. ~Decides(h, a)
    BY <1>1, <2>1, <2>2 DEF FirstDecides
  <2> QED
    BY <2>1, <2>3, DecidesOfNumber
<1>2. ASSUME FirstAt(m, j), NEW a \in h, Decides(h, a) PROVE b.to <= a.to
  <2>1. PICK i \in FirstBar..n : a = [from |-> i, to |-> i, shows |-> m[i]]
    BY DEF History
  <2>2. DecidesAt(m, i)
    BY <1>2, <2>1, DecidesOfNumber
  <2>3. ~(i < j)
    BY <1>2, <2>2, FirstBarTyped DEF FirstAt
  <2> QED
    BY <2>1, <2>3, FirstBarTyped
<1>3. Decides(h, b) <=> DecidesAt(m, j)
  BY DecidesOfNumber
<1> QED
  BY <1>1, <1>2, <1>3 DEF FirstDecides, FirstAt

\* The crossing of the market's bars is what its first deciding bar tells.
LEMMA CrossingOfMarket ==
  ASSUME NEW m, NEW n \in Nat
  PROVE  /\ Crossing(History(m, n)) = "win" <=>
              \E j \in FirstBar..n : FirstAt(m, j) /\ "stop" \notin m[j]
         /\ Crossing(History(m, n)) = "loss" <=>
              \E j \in FirstBar..n : FirstAt(m, j) /\ "stop" \in m[j]
<1> DEFINE h == History(m, n)
<1>1. Wins(h) <=> \E j \in FirstBar..n : FirstAt(m, j) /\ "stop" \notin m[j]
  <2>1. ASSUME Wins(h) PROVE \E j \in FirstBar..n : FirstAt(m, j) /\ "stop" \notin m[j]
    <3>1. PICK b \in h : FirstDecides(h, b) /\ "stop" \notin b.shows
      BY <2>1 DEF Wins
    <3>2. PICK j \in FirstBar..n : b = [from |-> j, to |-> j, shows |-> m[j]]
      BY <3>1 DEF History
    <3> QED
      BY <3>1, <3>2, FirstOfNumber
  <2>2. ASSUME NEW j \in FirstBar..n, FirstAt(m, j), "stop" \notin m[j] PROVE Wins(h)
    <3>1. [from |-> j, to |-> j, shows |-> m[j]] \in h
      BY DEF History
    <3>2. FirstDecides(h, [from |-> j, to |-> j, shows |-> m[j]])
      BY <2>2, FirstOfNumber
    <3> QED
      BY <2>2, <3>1, <3>2 DEF Wins
  <2> QED
    BY <2>1, <2>2
<1>2. Loses(h) <=> \E j \in FirstBar..n : FirstAt(m, j) /\ "stop" \in m[j]
  <2>1. ASSUME Loses(h) PROVE \E j \in FirstBar..n : FirstAt(m, j) /\ "stop" \in m[j]
    <3>1. PICK b \in h : FirstDecides(h, b) /\ "stop" \in b.shows
      BY <2>1 DEF Loses
    <3>2. PICK j \in FirstBar..n : b = [from |-> j, to |-> j, shows |-> m[j]]
      BY <3>1 DEF History
    <3> QED
      BY <3>1, <3>2, FirstOfNumber
  <2>2. ASSUME NEW j \in FirstBar..n, FirstAt(m, j), "stop" \in m[j] PROVE Loses(h)
    <3>1. [from |-> j, to |-> j, shows |-> m[j]] \in h
      BY DEF History
    <3>2. FirstDecides(h, [from |-> j, to |-> j, shows |-> m[j]])
      BY <2>2, FirstOfNumber
    <3> QED
      BY <2>2, <3>1, <3>2 DEF Loses
  <2> QED
    BY <2>1, <2>2
<1>3. ASSUME NEW i \in FirstBar..n, NEW j \in FirstBar..n, FirstAt(m, i), FirstAt(m, j)
      PROVE  i = j
  <2>1. ~(i < j) /\ ~(j < i)
    BY <1>3, FirstBarTyped DEF FirstAt
  <2> QED
    BY <2>1, FirstBarTyped
<1>4. Wins(h) => ~Loses(h)
  BY <1>1, <1>2, <1>3
<1> HIDE DEF h
<1>5. Crossing(h) = "win" <=> Wins(h)
  BY <1>4, CrossingValue
<1>6. Crossing(h) = "loss" <=> Loses(h)
  BY <1>4, CrossingValue
<1> QED
  BY <1>1, <1>2, <1>5, <1>6 DEF h

\* Of two markets that agree on the bars before the j-th and of which the second
\* touches no less in it, a first deciding bar of the first is that of the second.
LEMMA FirstStays ==
  ASSUME NEW m, NEW g, NEW n \in Nat, NEW j \in FirstBar..n, FirstAt(m, j),
         \A i \in FirstBar..(j - 1) : g[i] = m[i], m[j] \subseteq g[j]
  PROVE  FirstAt(g, j)
<1>1. \A i \in FirstBar..j : m[i] \subseteq g[i]
  <2> TAKE i \in FirstBar..j
  <2>1. CASE i = j
    BY <2>1
  <2>2. CASE i # j
    <3>1. i \in FirstBar..(j - 1)
      BY <2>2, FirstBarTyped
    <3> QED
      BY <3>1
  <2> QED
    BY <2>1, <2>2
<1>2. DecidesAt(g, j)
  <2>1. PICK i \in FirstBar..j : "entry" \in m[i]
    BY DEF FirstAt, DecidesAt
  <2>2. "entry" \in g[i]
    BY <1>1, <2>1
  <2>3. g[j] \cap {"stop", "take"} # {}
    BY DEF FirstAt, DecidesAt
  <2> QED
    BY <2>2, <2>3 DEF DecidesAt
<1>3. ASSUME NEW i \in FirstBar..(j - 1) PROVE ~DecidesAt(g, i)
  <2>1. \A k \in FirstBar..i : k \in FirstBar..(j - 1)
    BY FirstBarTyped
  <2>2. DecidesAt(g, i) => DecidesAt(m, i)
    BY <2>1 DEF DecidesAt
  <2> QED
    BY <2>2 DEF FirstAt
<1> QED
  BY <1>2, <1>3 DEF FirstAt

\* What the bars that have closed decide, and a loss that the bar in progress
\* decides, every later history of the market decides as well: neither more bars
\* nor more of the bar in progress change it.  A win told by the bar in progress
\* is not among them: that bar may yet reach the stop (resolve_exit takes the first
\* bar that hits a level and prefers the stop).
THEOREM CrossingIsFinal ==
  ASSUME NEW m, NEW g, NEW n \in Nat, NEW later \in Nat, n <= later,
         \A i \in FirstBar..(n - 1) : g[i] = m[i], m[n] \subseteq g[n]
  PROVE  /\ Crossing(History(m, n)) = "loss" => Crossing(History(g, later)) = "loss"
         /\ Crossing(History(m, n)) = "win" /\ g[n] = m[n]
              => Crossing(History(g, later)) = "win"
<1>1. ASSUME NEW j \in FirstBar..n, FirstAt(m, j)
      PROVE  j \in FirstBar..later /\ FirstAt(g, j) /\ m[j] \subseteq g[j]
             /\ (g[n] = m[n] => g[j] = m[j])
  <2>1. j \in Nat /\ j <= n /\ j \in FirstBar..later
    BY FirstBarTyped
  <2>2. \A i \in FirstBar..(j - 1) : g[i] = m[i]
    BY <2>1, FirstBarTyped
  <2>3. m[j] \subseteq g[j] /\ (g[n] = m[n] => g[j] = m[j])
    <3>1. CASE j = n
      BY <3>1
    <3>2. CASE j # n
      <4>1. j \in FirstBar..(n - 1)
        BY <3>2, <2>1, FirstBarTyped
      <4> QED
        BY <4>1
    <3> QED
      BY <3>1, <3>2
  <2>4. FirstAt(g, j)
    BY <1>1, <2>2, <2>3, FirstStays
  <2> QED
    BY <2>1, <2>3, <2>4
<1>2. ASSUME Crossing(History(m, n)) = "loss" PROVE Crossing(History(g, later)) = "loss"
  <2>1. PICK j \in FirstBar..n : FirstAt(m, j) /\ "stop" \in m[j]
    BY <1>2, CrossingOfMarket
  <2>2. j \in FirstBar..later /\ FirstAt(g, j) /\ "stop" \in g[j]
    BY <1>1, <2>1
  <2> QED
    BY <2>2, CrossingOfMarket
<1>3. ASSUME Crossing(History(m, n)) = "win", g[n] = m[n]
      PROVE  Crossing(History(g, later)) = "win"
  <2>1. PICK j \in FirstBar..n : FirstAt(m, j) /\ "stop" \notin m[j]
    BY <1>3, CrossingOfMarket
  <2>2. j \in FirstBar..later /\ FirstAt(g, j) /\ "stop" \notin g[j]
    BY <1>1, <1>3, <2>1
  <2> QED
    BY <2>2, CrossingOfMarket
<1> QED
  BY <1>2, <1>3

----------------------------------------------------------------------------
(* Type correctness.                                                       *)

LEMMA PrecedenceTyped ==
  ASSUME NEW days \in Decided \cup Unresolved, NEW h
  PROVE  /\ Precedence(days, h) \in Decided \cup Unresolved
         /\ Precedence(days, h) \in Decided =>
              Precedence(days, h) = Crossing(RowsOnOrAfter(h))
<1>1. CASE h # {}
  BY <1>1, CrossingValue DEF Precedence
<1>2. CASE h = {}
  BY <1>2 DEF Precedence, Decided, Unresolved
<1> QED
  BY <1>1, <1>2

LEMMA FinalizeTyped ==
  ASSUME NEW result \in Decided \cup Unresolved
  PROVE  /\ Finalize(result) \in Resolved \cup Unresolved
         /\ Finalize(result) \in Decided => Finalize(result) = result
         /\ result \in Decided => Finalize(result) = result
BY DEF Finalize, Resolved, Decided

LEMMA NowTyped ==
  ASSUME PlanTypeOK
  PROVE  /\ Now \in Nat /\ Len(market) \in Nat /\ Len(market) = Now + 1 /\ FirstBar <= Len(market)
         /\ \A i \in 1..Len(market) : market[i] \in Bar
<1>1. Len(market) \in FirstBar..(LastBar + 1) /\ market \in Seq(Bar)
  BY DEF PlanTypeOK
<1>2. LastBar \in Nat
  BY PlanAssumption
<1>3. Len(market) \in Nat /\ FirstBar <= Len(market)
  BY <1>1
<1>4. Now \in Nat /\ Len(market) = Now + 1
  BY <1>3, FirstBarTyped DEF Now
<1> QED
  BY <1>1, <1>3, <1>4

\* The market grows by its last bar or by one more, and touches no less.
LEMMA MarketGrows ==
  ASSUME PlanTypeOK, MarketMoves
  PROVE  /\ market' \in Seq(Bar) /\ Len(market)' \in FirstBar..(LastBar + 1)
         /\ Len(market) <= Len(market)'
         /\ \A i \in 1..Now : market'[i] = market[i]
         /\ market[Len(market)] \subseteq market'[Len(market)]
         /\ Now' \in Nat /\ Now <= Now'
<1>1. market \in Seq(Bar) /\ Len(market) \in FirstBar..(LastBar + 1)
  BY DEF PlanTypeOK
<1>2. Len(market) \in Nat /\ Now \in Nat /\ Now = Len(market) - 1
  BY NowTyped DEF Now
<1>3. ASSUME NEW bar \in Bar, market[Len(market)] \subseteq bar,
             market' = [market EXCEPT ![Len(market)] = bar]
      PROVE  /\ market' \in Seq(Bar) /\ Len(market') = Len(market)
             /\ \A i \in 1..Now : market'[i] = market[i]
             /\ market[Len(market)] \subseteq market'[Len(market)]
  <2>1. Len(market) \in 1..Len(market)
    BY <1>1, <1>2, FirstBarTyped
  <2>2. market' \in Seq(Bar) /\ Len(market') = Len(market)
    BY <1>1, <1>3, <2>1
  <2>3. \A i \in 1..Now : market'[i] = market[i]
    BY <1>1, <1>2, <1>3
  <2>4. market'[Len(market)] = bar
    BY <1>1, <1>3, <2>1
  <2> QED
    BY <1>3, <2>2, <2>3, <2>4
<1>4. ASSUME Now < LastBar, market' = Append(market, {})
      PROVE  /\ market' \in Seq(Bar) /\ Len(market') = Len(market) + 1
             /\ \A i \in 1..Len(market) : market'[i] = market[i]
             /\ Len(market) + 1 \in FirstBar..(LastBar + 1)
  <2>1. {} \in Bar /\ LastBar \in Nat
    BY PlanAssumption
  <2> QED
    BY <1>1, <1>2, <1>4, <2>1, FirstBarTyped
<1>5. CASE \E bar \in Bar : /\ market[Len(market)] \subseteq bar
                            /\ market' = [market EXCEPT ![Len(market)] = bar]
  <2>1. Now' = Now
    BY <1>3, <1>5 DEF Now
  <2> QED
    BY <1>1, <1>2, <1>3, <1>5, <2>1
<1>6. CASE Now < LastBar /\ market' = Append(market, {})
  <2>1. Now' = Now + 1
    BY <1>2, <1>4, <1>6 DEF Now
  <2>2. Len(market) \in 1..Len(market) /\ \A i \in 1..Now : i \in 1..Len(market)
    BY <1>1, <1>2, FirstBarTyped
  <2> QED
    BY <1>2, <1>4, <1>6, <2>1, <2>2
<1> QED
  BY <1>5, <1>6 DEF MarketMoves

LEMMA InitTyped == PlanInit => PlanTypeOK
<1> SUFFICES ASSUME PlanInit PROVE PlanTypeOK
  OBVIOUS
<1>1. market \in Seq(Bar) /\ Len(market) = FirstBar
  BY FirstBarTyped DEF PlanInit
<1>2. FirstBar \in FirstBar..(LastBar + 1)
  BY PlanAssumption DEF FirstBar
<1>3. outcome \in Resolved \cup Unresolved
  BY DEF PlanInit, Unresolved
<1>4. Aside \in [loaded : BOOLEAN, result : Decided \cup Unresolved, whole : BOOLEAN]
  BY DEF Aside, Unresolved
<1> QED
  BY <1>1, <1>2, <1>3, <1>4 DEF PlanTypeOK, PlanInit

LEMMA NextTyped == PlanTypeOK /\ [PlanNext]_planVars => PlanTypeOK'
<1> SUFFICES ASSUME PlanTypeOK, [PlanNext]_planVars PROVE PlanTypeOK'
  OBVIOUS
<1> DEFINE E == [loaded : BOOLEAN, result : Decided \cup Unresolved, whole : BOOLEAN]
<1>1. /\ eval \in [Evaluation -> E] /\ outcome \in Resolved \cup Unresolved /\ doubtful \in BOOLEAN
      /\ market \in Seq(Bar) /\ Len(market) \in FirstBar..(LastBar + 1)
  BY DEF PlanTypeOK
<1>2. Aside \in E
  BY DEF Aside, Unresolved
<1>3. CASE MarketMoves
  <2>1. UNCHANGED <<outcome, eval, doubtful>>
    BY <1>3 DEF MarketMoves
  <2> QED
    BY <1>1, <1>3, <2>1, MarketGrows DEF PlanTypeOK
<1>4. ASSUME NEW e \in Evaluation, Prepare(e) PROVE PlanTypeOK'
  <2>1. PICK h \in LoadPriceHistory, days \in Unresolved \cup Decided :
          eval' = [eval EXCEPT ![e] = [loaded |-> TRUE, result |-> Precedence(days, h),
                                       whole |-> Whole(h)]]
    BY <1>4 DEF Prepare
  <2>2. Precedence(days, h) \in Decided \cup Unresolved
    BY PrecedenceTyped
  <2>3. Whole(h) \in BOOLEAN
    BY DEF Whole
  <2>4. eval' \in [Evaluation -> E]
    BY <1>1, <2>1, <2>2, <2>3
  <2> QED
    BY <1>1, <1>4, <2>4 DEF PlanTypeOK, Prepare
<1>5. ASSUME NEW e \in Evaluation, Record(e) PROVE PlanTypeOK'
  <2>1. eval' \in [Evaluation -> E]
    BY <1>1, <1>2, <1>5 DEF Record
  <2>2. outcome' \in Resolved \cup Unresolved
    BY <1>1, <1>5, FinalizeTyped DEF Record
  <2>3. doubtful' \in BOOLEAN
    BY <1>5 DEF Record
  <2> QED
    BY <1>1, <1>5, <2>1, <2>2, <2>3 DEF PlanTypeOK, Record
<1>6. ASSUME NEW e \in Evaluation, Abandon(e) PROVE PlanTypeOK'
  <2>1. eval' \in [Evaluation -> E]
    BY <1>1, <1>2, <1>6 DEF Abandon
  <2> QED
    BY <1>1, <1>6, <2>1 DEF PlanTypeOK, Abandon
<1>7. CASE UNCHANGED planVars
  BY <1>7 DEF planVars, PlanTypeOK
<1> QED
  BY <1>3, <1>4, <1>5, <1>6, <1>7 DEF PlanNext

\* The market, the outcome row and what evaluations hold have their types
\* (RecommendationPlanEvaluationService).
THEOREM PlanTypeCorrect == PlanSpec => []PlanTypeOK
BY InitTyped, NextTyped, PTL DEF PlanSpec

----------------------------------------------------------------------------
(* What is recorded or about to be.                                        *)

\* A win or a loss is of a level that was reached, and one from a whole history
\* is what the market's bars decide for good.
Sound(result, whole) ==
  /\ result = "win" => Touches("take") /\ (whole => Crossing(History(market, Now)) = "win")
  /\ result = "loss" =>
       Touches("stop") /\ (whole => Crossing(History(market, Len(market))) = "loss")

Founded ==
  /\ Sound(outcome, ~doubtful)
  /\ \A e \in Evaluation : Sound(eval[e].result, eval[e].whole)

LEMMA SinceIsHistory == ASSUME NEW n PROVE Since(n) = History(market, n)
BY DEF Since, History

\* A sound outcome from a whole history is what all bars say.
LEMMA SoundIsCrossing ==
  ASSUME PlanTypeOK, NEW result \in Decided, Sound(result, TRUE)
  PROVE  result = Crossing(Since(Len(market)))
<1>1. CASE result = "win"
  <2>1. Now \in Nat /\ Len(market) \in Nat /\ Now <= Len(market)
    BY NowTyped
  <2>2. Crossing(History(market, Now)) = "win"
    BY <1>1 DEF Sound
  <2>3. Crossing(History(market, Len(market))) = "win"
    BY <2>1, <2>2, CrossingIsFinal
  <2> QED
    BY <1>1, <2>3, SinceIsHistory
<1>2. CASE result = "loss"
  BY <1>2, SinceIsHistory DEF Sound
<1> QED
  BY <1>1, <1>2 DEF Decided

LEMMA TouchedStays ==
  ASSUME PlanTypeOK, MarketMoves, NEW level, Touches(level)
  PROVE  Touches(level)'
<1>1. \A i \in 1..Len(market) : i \in 1..Len(market)' /\ market[i] \subseteq market'[i]
  <2> TAKE i \in 1..Len(market)
  <2>1. i \in 1..Len(market)'
    BY MarketGrows, NowTyped
  <2>2. i \in 1..Now \/ i = Len(market)
    BY NowTyped
  <2> QED
    BY <2>1, <2>2, MarketGrows
<1> QED
  BY <1>1 DEF Touches

LEMMA SoundStays ==
  ASSUME PlanTypeOK, MarketMoves, NEW result, NEW whole \in BOOLEAN, Sound(result, whole)
  PROVE  Sound(result, whole)'
<1>1. Now \in Nat /\ Len(market) \in Nat /\ Len(market) = Now + 1
  BY NowTyped
<1>2. /\ Now' \in Nat /\ Now <= Now' /\ Len(market)' \in Nat /\ Len(market) <= Len(market)'
      /\ \A i \in 1..Now : market'[i] = market[i]
      /\ market[Len(market)] \subseteq market'[Len(market)]
  BY MarketGrows, FirstBarTyped
<1>3. CASE result = "win"
  <2>1. Touches("take")'
    BY <1>3, TouchedStays DEF Sound
  <2>2. ASSUME whole PROVE Crossing(History(market', Now')) = "win"
    <3>1. Crossing(History(market, Now)) = "win"
      BY <1>3, <2>2 DEF Sound
    <3>2. PICK j \in FirstBar..Now : TRUE
      BY <3>1, <1>1, CrossingOfMarket
    <3>3. \A i \in FirstBar..Now : market'[i] = market[i]
      BY <1>1, <1>2, FirstBarTyped
    <3>4. Now \in FirstBar..Now
      BY <1>1, <3>2, FirstBarTyped
    <3>5. \A i \in FirstBar..(Now - 1) : market'[i] = market[i]
      BY <1>1, <3>3, FirstBarTyped
    <3>6. market'[Now] = market[Now]
      BY <3>3, <3>4
    <3>7. PICK m, g, n, later :
            m = market /\ g = market' /\ n = Now /\ later = Now'
      OBVIOUS
    <3>8. /\ n \in Nat /\ later \in Nat /\ n <= later /\ m[n] \subseteq g[n] /\ g[n] = m[n]
          /\ \A i \in FirstBar..(n - 1) : g[i] = m[i]
          /\ Crossing(History(m, n)) = "win"
      BY <1>1, <1>2, <3>1, <3>5, <3>6, <3>7
    <3>9. Crossing(History(g, later)) = "win"
      BY <3>8, CrossingIsFinal
    <3> QED
      BY <3>7, <3>9
  <2> QED
    BY <1>3, <2>1, <2>2 DEF Sound
<1>4. CASE result = "loss"
  <2>1. Touches("stop")'
    BY <1>4, TouchedStays DEF Sound
  <2>2. ASSUME whole PROVE Crossing(History(market', Len(market'))) = "loss"
    <3>1. Crossing(History(market, Len(market))) = "loss"
      BY <1>4, <2>2 DEF Sound
    <3>2. \A i \in FirstBar..(Len(market) - 1) : market'[i] = market[i]
      BY <1>1, <1>2, FirstBarTyped
    <3>3. PICK m, g, n, later :
            m = market /\ g = market' /\ n = Len(market) /\ later = Len(market')
      OBVIOUS
    <3>4. /\ n \in Nat /\ later \in Nat /\ n <= later /\ m[n] \subseteq g[n]
          /\ \A i \in FirstBar..(n - 1) : g[i] = m[i]
      BY <1>1, <1>2, <3>2, <3>3
    <3>5. Crossing(History(m, n)) = "loss"
      BY <3>1, <3>3
    <3>6. Crossing(History(g, later)) = "loss"
      BY <3>4, <3>5, CrossingIsFinal
    <3> QED
      BY <3>3, <3>6
  <2> QED
    BY <1>4, <2>1, <2>2 DEF Sound
<1>5. CASE result # "win" /\ result # "loss"
  BY <1>5 DEF Sound
<1> QED
  BY <1>3, <1>4, <1>5

----------------------------------------------------------------------------
(* What is read.                                                           *)

\* A bar that was read shows no level that its part of the market has not touched.
LEMMA ReadIsTouched ==
  ASSUME PlanTypeOK, NEW h \in LoadPriceHistory, NEW b \in h, NEW level \in b.shows
  PROVE  /\ b.to \in Nat
         /\ \E i \in 1..Len(market) : level \in market[i] /\ i <= b.to /\ b.to < i + Span
<1>1. PICK shows \in UNION {[ws -> Bar] : ws \in Layouts} :
        Readable(shows) /\ h = AsRead(shows)
  BY DEF LoadPriceHistory
<1>2. PICK ws \in Layouts : shows \in [ws -> Bar]
  BY <1>1
<1>3. PICK w \in DOMAIN shows : b = [from |-> w.from, to |-> w.to, shows |-> shows[w]]
  BY <1>1 DEF AsRead
<1>4. w \in Window /\ w.from <= w.to /\ w.to < w.from + Span
  BY <1>2, <1>3 DEF Layouts
<1>5. /\ w.from \in Nat /\ w.to \in Nat /\ w.from > 0 /\ w.to <= Len(market)
      /\ Span \in Nat
  BY <1>4, PlanAssumption, NowTyped DEF Window
<1>6. level \in Touched(w)
  BY <1>1, <1>3 DEF Readable
<1>7. PICK i \in w.from..w.to : level \in market[i]
  BY <1>6 DEF Touched
<1>8. Len(market) \in Nat
  BY NowTyped
<1>9. i \in 1..Len(market) /\ i <= b.to /\ b.to < i + Span
  BY <1>3, <1>4, <1>5, <1>6, <1>7, <1>8
<1> QED
  BY <1>3, <1>5, <1>7, <1>9

\* What decides in a history that was read has been touched.
LEMMA DecidingIsTouched ==
  ASSUME PlanTypeOK, NEW h \in LoadPriceHistory, NEW b \in RowsOnOrAfter(h),
         Entered(RowsOnOrAfter(h), b), NEW level \in b.shows
  PROVE  Touches(level)
<1>1. b \in h /\ b.to >= FirstBar
  BY DEF RowsOnOrAfter
<1>2. PICK a \in RowsOnOrAfter(h) : a.to <= b.to /\ "entry" \in a.shows
  BY DEF Entered
<1>3. a \in h /\ a.to >= FirstBar
  BY DEF RowsOnOrAfter
<1>4. PICK i \in 1..Len(market) : "entry" \in market[i] /\ i <= a.to /\ a.to < i + Span
  BY <1>2, <1>3, ReadIsTouched
<1>5. PICK j \in 1..Len(market) : level \in market[j] /\ j <= b.to /\ b.to < j + Span
  BY <1>1, ReadIsTouched
<1>6. a.to \in Nat /\ b.to \in Nat
  BY <1>1, <1>2, <1>3, ReadIsTouched
<1>7. i < j + Span /\ FirstBar < i + Span /\ FirstBar < j + Span
  BY <1>1, <1>2, <1>3, <1>4, <1>5, <1>6, PlanAssumption, FirstBarTyped, NowTyped
<1> QED
  BY <1>4, <1>5, <1>7 DEF Touches

\* What an evaluation makes of a history is sound.
LEMMA ReadIsSound ==
  ASSUME PlanTypeOK, NEW h \in LoadPriceHistory, NEW days \in Unresolved \cup Decided
  PROVE  Sound(Precedence(days, h), Whole(h))
<1> DEFINE r == RowsOnOrAfter(h)
           p == Precedence(days, h)
<1>1. p \in Decided => p = Crossing(r)
  BY PrecedenceTyped
<1>2. ASSUME p = "win" PROVE Touches("take")
  <2>1. Wins(r)
    BY <1>1, <1>2, CrossingValue DEF Decided
  <2>2. PICK b \in r : FirstDecides(r, b) /\ "stop" \notin b.shows
    BY <2>1 DEF Wins
  <2>3. Entered(r, b) /\ "take" \in b.shows
    BY <2>2 DEF FirstDecides, Decides
  <2> QED
    BY <2>3, DecidingIsTouched
<1>3. ASSUME p = "loss" PROVE Touches("stop")
  <2>1. Loses(r)
    BY <1>1, <1>3, CrossingValue DEF Decided
  <2>2. PICK b \in r : FirstDecides(r, b) /\ "stop" \in b.shows
    BY <2>1 DEF Loses
  <2>3. Entered(r, b)
    BY <2>2 DEF FirstDecides, Decides
  <2> QED
    BY <2>2, <2>3, DecidingIsTouched
<1>4. ASSUME p \in Decided, Whole(h)
      PROVE  /\ p = "win" => Crossing(History(market, Now)) = "win"
             /\ p = "loss" => Crossing(History(market, Len(market))) = "loss"
  <2>1. PICK n \in Computed..Len(market) :
          r = Since(n) /\ (Crossing(Since(n)) = "win" => Crossing(Since(Now)) = "win")
    BY <1>4 DEF Whole, RowsOnOrAfter
  <2>2. p = Crossing(Since(n))
    BY <1>1, <1>4, <2>1
  <2>3. n \in Nat /\ Len(market) \in Nat /\ n <= Len(market)
    BY NowTyped, PlanAssumption
  <2>4. ASSUME p = "loss" PROVE Crossing(History(market, Len(market))) = "loss"
    <3>1. Crossing(History(market, n)) = "loss"
      BY <2>2, <2>4, SinceIsHistory
    <3> QED
      BY <2>3, <3>1, CrossingIsFinal
  <2>5. ASSUME p = "win" PROVE Crossing(History(market, Now)) = "win"
    BY <2>1, <2>2, <2>5, SinceIsHistory
  <2> QED
    BY <2>4, <2>5
<1> HIDE DEF p
<1>5. Sound(p, Whole(h))
  BY <1>2, <1>3, <1>4 DEF Sound, Decided
<1> QED
  BY <1>5 DEF p

----------------------------------------------------------------------------
(* The theorems.                                                           *)

LEMMA InitFounded == PlanInit => Founded
BY DEF PlanInit, Founded, Sound, Aside, Evaluation

\* Where the market does not move, soundness is the same.
LEMMA SoundElsewhere ==
  ASSUME market' = market, NEW result, NEW whole
  PROVE  Sound(result, whole)' <=> Sound(result, whole)
BY DEF Sound, Touches, Now

LEMMA NextFounded == PlanTypeOK /\ Founded /\ [PlanNext]_planVars => Founded'
<1> SUFFICES ASSUME PlanTypeOK, Founded, [PlanNext]_planVars PROVE Founded'
  OBVIOUS
<1> DEFINE E == [loaded : BOOLEAN, result : Decided \cup Unresolved, whole : BOOLEAN]
<1>1. eval \in [Evaluation -> E] /\ doubtful \in BOOLEAN
  BY DEF PlanTypeOK
<1>2. Sound(outcome, ~doubtful) /\ \A e \in Evaluation : Sound(eval[e].result, eval[e].whole)
  BY DEF Founded
<1>3. CASE MarketMoves
  <2>1. UNCHANGED <<outcome, eval, doubtful>>
    BY <1>3 DEF MarketMoves
  <2>2. PICK o, d : o = outcome /\ d = ~doubtful
    OBVIOUS
  <2>3. Sound(o, d)' /\ d \in BOOLEAN
    BY <1>1, <1>2, <1>3, <2>2, SoundStays
  <2>4. Sound(outcome, ~doubtful)'
    <3>1. outcome' = o /\ (~doubtful)' = d
      BY <2>1, <2>2
    <3> QED
      BY <2>3, <3>1 DEF Sound
  <2>5. ASSUME NEW e \in Evaluation PROVE Sound(eval[e].result, eval[e].whole)'
    <3>1. PICK r, w : r = eval[e].result /\ w = eval[e].whole
      OBVIOUS
    <3>2. w \in BOOLEAN
      BY <1>1, <3>1
    <3>3. Sound(r, w)'
      BY <1>2, <1>3, <3>1, <3>2, SoundStays
    <3>4. eval'[e].result = r /\ eval'[e].whole = w
      BY <2>1, <3>1
    <3> QED
      BY <3>3, <3>4 DEF Sound
  <2> QED
    BY <2>4, <2>5 DEF Founded
<1>4. ASSUME NEW e \in Evaluation, Prepare(e) PROVE Founded'
  <2>1. UNCHANGED <<market, outcome, doubtful>>
    BY <1>4 DEF Prepare
  <2>2. PICK h \in LoadPriceHistory, days \in Unresolved \cup Decided :
          eval' = [eval EXCEPT ![e] = [loaded |-> TRUE, result |-> Precedence(days, h),
                                       whole |-> Whole(h)]]
    BY <1>4 DEF Prepare
  <2>3. Sound(Precedence(days, h), Whole(h))
    BY ReadIsSound
  <2>4. ASSUME NEW f \in Evaluation PROVE Sound(eval'[f].result, eval'[f].whole)
    BY <1>1, <1>2, <2>2, <2>3, <2>4
  <2> QED
    BY <1>2, <2>1, <2>4, SoundElsewhere DEF Founded, Sound, Touches, Now
<1>5. ASSUME NEW e \in Evaluation, Record(e) PROVE Founded'
  <2>1. /\ market' = market /\ outcome' = Finalize(eval[e].result) /\ doubtful' = ~eval[e].whole
        /\ eval' = [eval EXCEPT ![e] = Aside]
    BY <1>5 DEF Record
  <2>2. ASSUME outcome' \in Decided PROVE outcome' = eval[e].result
    BY <1>1, <2>1, <2>2, FinalizeTyped
  <2>3. (~doubtful)' <=> eval[e].whole
    BY <1>1, <2>1
  <2>4. Sound(eval[e].result, eval[e].whole)
    BY <1>2
  <2>5. Sound(outcome, ~doubtful)'
    BY <2>1, <2>2, <2>3, <2>4 DEF Sound, Touches, Now, Decided
  <2>6. ASSUME NEW f \in Evaluation PROVE Sound(eval'[f].result, eval'[f].whole)
    <3>1. CASE f = e
      <4>1. eval'[f].result = "pending"
        BY <1>1, <2>1, <3>1 DEF Aside
      <4> QED
        BY <4>1 DEF Sound
    <3>2. CASE f # e
      BY <1>1, <1>2, <2>1, <3>2
    <3> QED
      BY <3>1, <3>2
  <2> QED
    BY <2>1, <2>5, <2>6 DEF Founded, Sound, Touches, Now
<1>6. ASSUME NEW e \in Evaluation, Abandon(e) PROVE Founded'
  <2>1. UNCHANGED <<market, outcome, doubtful>> /\ eval' = [eval EXCEPT ![e] = Aside]
    BY <1>6 DEF Abandon
  <2>2. ASSUME NEW f \in Evaluation PROVE Sound(eval'[f].result, eval'[f].whole)
    <3>1. CASE f = e
      <4>1. eval'[f].result = "pending"
        BY <1>1, <2>1, <3>1 DEF Aside
      <4> QED
        BY <4>1 DEF Sound
    <3>2. CASE f # e
      BY <1>1, <1>2, <2>1, <3>2
    <3> QED
      BY <3>1, <3>2
  <2> QED
    BY <1>2, <2>1, <2>2 DEF Founded, Sound, Touches, Now
<1>7. CASE UNCHANGED planVars
  BY <1>2, <1>7 DEF planVars, Founded, Sound, Touches, Now
<1> QED
  BY <1>3, <1>4, <1>5, <1>6, <1>7 DEF PlanNext

LEMMA FoundedIsTrue == PlanTypeOK /\ Founded => DecidedIsTrue
<1> SUFFICES ASSUME PlanTypeOK, Founded PROVE DecidedIsTrue
  OBVIOUS
<1>1. Sound(outcome, ~doubtful)
  BY DEF Founded
<1>2. ASSUME outcome \in Decided, ~doubtful PROVE outcome = Crossing(Since(Len(market)))
  <2>1. Sound(outcome, TRUE)
    BY <1>1, <1>2 DEF Sound
  <2> QED
    BY <1>2, <2>1, SoundIsCrossing
<1> QED
  BY <1>1, <1>2 DEF DecidedIsTrue, Sound

\* A recorded win or loss is of a level that the market reached after the entry,
\* for any histories with gaps, coarse, stale or unfinished bars; one that is from
\* the market's own bars is what these say, now and later
\* (_resolve_trade_like_outcome, rows_on_or_after, resolve_exit).
THEOREM DecidedOutcomesAreTrue == PlanSpec => []DecidedIsTrue
<1>1. PlanTypeOK /\ Founded /\ [PlanNext]_planVars => (PlanTypeOK /\ Founded)'
  BY NextTyped, NextFounded
<1>2. PlanInit => PlanTypeOK /\ Founded
  BY InitTyped, InitFounded
<1> QED
  BY <1>1, <1>2, FoundedIsTrue, PTL DEF PlanSpec

LEMMA NextStays == PlanTypeOK /\ Founded /\ [PlanNext]_planVars => StaysOrOverwritten
<1> SUFFICES ASSUME PlanTypeOK, Founded, [PlanNext]_planVars, outcome \in Decided, ~doubtful,
                    outcome' # outcome
             PROVE  \E e \in Evaluation :
                      Records(e) /\ (~eval[e].whole \/ eval[e].result \notin Decided)
  BY DEF StaysOrOverwritten
<1>1. PICK e \in Evaluation : Record(e)
  BY DEF PlanNext, MarketMoves, Prepare, Abandon, planVars
<1>2. /\ eval[e].whole \in BOOLEAN /\ eval[e].result \in Decided \cup Unresolved
      /\ eval \in [Evaluation -> [loaded : BOOLEAN, result : Decided \cup Unresolved,
                                  whole : BOOLEAN]]
  BY DEF PlanTypeOK
<1>3. Records(e)
  BY <1>1, <1>2 DEF Record, Records, Aside
<1>4. ASSUME eval[e].whole, eval[e].result \in Decided PROVE FALSE
  <2>1. outcome' = eval[e].result
    BY <1>1, <1>2, <1>4, FinalizeTyped DEF Record
  <2>2. Sound(eval[e].result, TRUE) /\ Sound(outcome, TRUE)
    BY <1>4 DEF Founded, Sound
  <2>3. eval[e].result = outcome
    BY <1>4, <2>2, SoundIsCrossing
  <2> QED
    BY <2>1, <2>3
<1> QED
  BY <1>3, <1>4

\* A recorded win or loss stays, unless the history it came from was not whole, or
\* that of the evaluation which overwrites it is not or ends before the level was
\* hit (run_evaluation, upsert_outcome, _finalize_outcome).
THEOREM DecidedOutcomesStay == PlanSpec => DecidedStays
<1>1. PlanTypeOK /\ Founded /\ [PlanNext]_planVars => (PlanTypeOK /\ Founded)'
  BY NextTyped, NextFounded
<1>2. PlanInit => PlanTypeOK /\ Founded
  BY InitTyped, InitFounded
<1>3. PlanTypeOK /\ Founded /\ [PlanNext]_planVars => [StaysOrOverwritten]_planVars
  BY NextStays
<1> QED
  BY <1>1, <1>2, <1>3, PTL DEF PlanSpec, DecidedStays

=============================================================================
