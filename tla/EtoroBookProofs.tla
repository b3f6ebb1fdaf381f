---------------------------- MODULE EtoroBookProofs ----------------------------
(***************************************************************************)
(* Theorems about EtoroBook, for any deals, results, passes and crashes.   *)
(***************************************************************************)
EXTENDS EtoroBook, TLAPS

----------------------------------------------------------------------------
(* Type correctness.                                                       *)

LEMMA RowTyped ==
  /\ NoRow \in Row /\ NoCopy \in [Deals -> Row] /\ Idle \in Pass
  /\ NoAnswer \in [exec : {"none", "active", "filled", "ended"}, row : Row]
  /\ \A s \in PositionStatus, x \in BOOLEAN : [status |-> s, exit |-> x] \in Row
BY DEF NoRow, NoCopy, Idle, Pass, NoAnswer, Row

\* A row keeps its shape when its status is replaced.
LEMMA RowKept ==
  ASSUME NEW row \in Row, NEW s \in PositionStatus
  PROVE  [row EXCEPT !.status = s] \in Row
<1>1. [row EXCEPT !.status = s] \in [status : PositionStatus, exit : BOOLEAN]
  <2>1. CASE row = NoRow
    BY <2>1 DEF NoRow
  <2>2. CASE row \in [status : PositionStatus, exit : BOOLEAN]
    BY <2>2
  <2> QED
    BY <2>1, <2>2 DEF Row
<1> QED
  BY <1>1 DEF Row

LEMMA OrderAnswersTyped ==
  ASSUME NEW d \in Deals, NEW answer \in OrderAnswers(d)
  PROVE  /\ answer \in [exec : {"active", "filled", "ended"}, row : Row]
         /\ answer.row.status \notin Verdict
<1>1. \/ answer = [exec |-> "active", row |-> NoRow]
      \/ answer = [exec |-> "ended", row |-> NoRow]
      \/ answer = [exec |-> "filled", row |-> NoRow]
      \/ answer = [exec |-> "filled", row |-> [status |-> "open", exit |-> FALSE]]
      \/ answer = [exec |-> "filled", row |-> [status |-> "needs_review", exit |-> FALSE]]
  BY DEF OrderAnswers
<1>2. /\ NoRow \in Row
      /\ [status |-> "open", exit |-> FALSE] \in Row
      /\ [status |-> "needs_review", exit |-> FALSE] \in Row
  BY DEF Row, PositionStatus, NoRow
<1>3. answer \in [exec : {"active", "filled", "ended"}, row : Row]
  <2>1. \E x \in {"active", "filled", "ended"}, row \in Row : answer = [exec |-> x, row |-> row]
    BY <1>1, <1>2
  <2> QED
    BY <2>1
<1>4. answer.row.status \in {"none", "open", "needs_review"}
  <2>1. NoRow.status = "none"
    BY DEF NoRow
  <2> QED
    BY <1>1, <2>1
<1> QED
  BY <1>3, <1>4 DEF Verdict

LEMMA ReconciledTyped ==
  ASSUME NEW p, NEW d PROVE Reconciled(p, d) \in PositionStatus
BY DEF Reconciled, FromHistory, VerdictOf, PositionStatus, Verdict

\* The newest is one of those to do.
LEMMA NewestIn ==
  ASSUME NEW p, sync[p].todo \subseteq Deals, sync[p].todo # {}
  PROVE  Newest(p) \in sync[p].todo
<1>1. \E d \in sync[p].todo : \A e \in sync[p].todo : d >= e
  BY EtoroAssumption
<1> QED
  BY <1>1 DEF Newest, Max

LEMMA InitTyped == EtoroInit => EtoroTypeOK
BY RowTyped DEF EtoroInit, EtoroTypeOK

LEMMA GoesTyped ==
  ASSUME EtoroTypeOK, NEW p \in Passes, NEW next \in Pass, Goes(p, next)
  PROVE  sync' \in [Passes -> Pass]
BY DEF Goes, EtoroTypeOK

LEMMA DoneTyped ==
  ASSUME EtoroTypeOK, NEW p \in Passes, NEW d, OrderDone(p, d)
  PROVE  sync' \in [Passes -> Pass]
<1>1. [sync[p] EXCEPT !.at = "orders", !.todo = @ \ {d}, !.answer = NoAnswer] \in Pass
  <2>1. sync[p] \in Pass
    BY DEF EtoroTypeOK
  <2> QED
    BY <2>1, RowTyped DEF Pass
<1> QED
  BY <1>1, GoesTyped DEF OrderDone

LEMMA StepTyped ==
  ASSUME EtoroTypeOK, NEW p \in Passes, PassStep(p)
  PROVE  sync' \in [Passes -> Pass]
<1>0. sync[p] \in Pass /\ book \in [Deals -> Row]
  BY DEF EtoroTypeOK
<1>1. CASE Begin(p)
  <2>1. [sync[p] EXCEPT !.at = "orders", !.todo = {d \in Deals : exec[d] = "active"}] \in Pass
    BY <1>0 DEF Pass
  <2> QED
    BY <1>1, <2>1, GoesTyped DEF Begin
<1>2. CASE LookUpFails(p) \/ SavePosition(p)
  BY <1>2, DoneTyped DEF LookUpFails, SavePosition
<1>3. CASE SaveOrder(p)
  <2>1. [sync[p] EXCEPT !.at = "position"] \in Pass
    BY <1>0 DEF Pass
  <2> QED
    BY <1>3, <2>1, DoneTyped, GoesTyped DEF SaveOrder
<1>5. CASE PortfolioFails(p) \/ ExitLookUpFails(p) \/ NothingBooked(p) \/ Dies(p)
  BY <1>5, RowTyped, GoesTyped DEF PortfolioFails, ExitLookUpFails, NothingBooked, Dies
<1>6. CASE ReadPortfolio(p)
  <2>1. [sync[p] EXCEPT !.at = "positions", !.portfolio = {d \in Deals : deal[d] = "open"}] \in Pass
    BY <1>0 DEF Pass
  <2> QED
    BY <1>6, <2>1, GoesTyped DEF ReadPortfolio
<1>7. CASE ReadPositions(p)
  <2>1. [sync[p] EXCEPT !.at = "history", !.local = book] \in Pass
    BY <1>0 DEF Pass
  <2> QED
    BY <1>7, <2>1, GoesTyped DEF ReadPositions
<1>8. ASSUME NEW found \in SUBSET Deals, ReadHistory(p, found)
      PROVE  sync' \in [Passes -> Pass]
  <2>1. [sync[p] EXCEPT !.at = "visit", !.todo = Booked(sync[p].local), !.history = found] \in Pass
    BY <1>0 DEF Pass, Booked
  <2> QED
    BY <1>8, <2>1, GoesTyped DEF ReadHistory
<1>9. ASSUME NEW d \in Deals, LookUp(p, d)
      PROVE  sync' \in [Passes -> Pass]
  <2>1. PICK answer \in OrderAnswers(d) : Goes(p, [sync[p] EXCEPT !.at = "order", !.answer = answer])
    BY <1>9 DEF LookUp
  <2>2. [sync[p] EXCEPT !.at = "order", !.answer = answer] \in Pass
    <3>1. answer \in [exec : {"none", "active", "filled", "ended"}, row : Row]
      BY OrderAnswersTyped
    <3> QED
      BY <1>0, <3>1 DEF Pass
  <2> QED
    BY <2>1, <2>2, GoesTyped
<1>10. ASSUME NEW d \in Deals, Visit(p, d)
       PROVE  sync' \in [Passes -> Pass]
  <2>1. [sync[p] EXCEPT !.todo = @ \ {d}] \in Pass
    BY <1>0 DEF Pass
  <2> QED
    BY <1>10, <2>1, RowTyped, GoesTyped DEF Visit, Visited
<1> QED
  BY <1>1, <1>2, <1>3, <1>5, <1>6, <1>7, <1>8, <1>9, <1>10 DEF PassStep, ListedDeals

LEMMA BookTyped ==
  ASSUME EtoroTypeOK, [EtoroNext]_etoroVars
  PROVE  book' \in [Deals -> Row]
<1>0. book \in [Deals -> Row]
  BY DEF EtoroTypeOK
<1>1. ASSUME NEW p \in Passes, SavePosition(p) PROVE book' \in [Deals -> Row]
  <2>1. sync[p].answer.row \in Row
    BY DEF EtoroTypeOK, Pass
  <2> QED
    BY <1>0, <1>1, <2>1 DEF SavePosition
<1>2. ASSUME NEW p \in Passes, NEW d \in Deals, Visit(p, d) PROVE book' \in [Deals -> Row]
  <2>1. sync[p].local[d] \in Row
    BY DEF EtoroTypeOK, Pass
  <2>2. [sync[p].local[d] EXCEPT !.status = Reconciled(p, d)] \in Row
    BY <2>1, ReconciledTyped, RowKept
  <2> QED
    BY <1>0, <1>2, <2>2 DEF Visit
<1>3. CASE MarkClose
  <2>1. [status |-> "closing", exit |-> TRUE] \in Row
    BY DEF Row, PositionStatus
  <2> QED
    BY <1>0, <1>3, <2>1 DEF MarkClose
<1>4. CASE UNCHANGED book
  BY <1>0, <1>4
<1> QED
  BY <1>1, <1>2, <1>3, <1>4
     DEF EtoroNext, PassStep, DealMoves, Begin, LookUpFails, LookUp, SaveOrder, PortfolioFails,
         ReadPortfolio, ReadPositions, ReadHistory, ExitLookUpFails, NothingBooked, Dies, etoroVars

\* The answer in hand gives the order row a status and is no verdict.
Answered == \A p \in Passes :
  /\ sync[p].answer.row.status \notin Verdict
  /\ sync[p].at = "order" => sync[p].answer.exec \in {"active", "filled", "ended"}

\* A step of pass p leaves the others what they knew.
LEMMA GoesOthers ==
  ASSUME EtoroTypeOK, NEW p \in Passes, NEW next, Goes(p, next)
  PROVE  \A q \in Passes : q # p => sync'[q] = sync[q]
BY DEF Goes, EtoroTypeOK

LEMMA GoesTo ==
  ASSUME EtoroTypeOK, NEW p \in Passes, NEW next, Goes(p, next)
  PROVE  /\ sync'[p] = next
         /\ \A q \in Passes : q # p => sync'[q] = sync[q]
BY DEF Goes, EtoroTypeOK

LEMMA StepAnswered ==
  ASSUME EtoroTypeOK, Answered, NEW p \in Passes, PassStep(p)
  PROVE  Answered'
<1> SUFFICES /\ sync'[p].answer.row.status \notin Verdict
             /\ sync'[p].at = "order" => sync'[p].answer.exec \in {"active", "filled", "ended"}
             /\ \A q \in Passes : q # p => sync'[q] = sync[q]
  BY DEF Answered
<1>0. /\ sync[p] \in Pass
      /\ sync[p].answer.row.status \notin Verdict
  BY DEF EtoroTypeOK, Answered
<1>1. CASE Begin(p)
  <2>1. sync'[p] = [sync[p] EXCEPT !.at = "orders", !.todo = {d \in Deals : exec[d] = "active"}]
    BY <1>1 DEF Begin, Goes, EtoroTypeOK
  <2> QED
    BY <1>0, <1>1, <2>1, GoesOthers DEF Begin, Pass
<1>2. ASSUME NEW d, OrderDone(p, d)
      PROVE  /\ sync'[p].answer.row.status \notin Verdict
             /\ sync'[p].at = "orders"
             /\ \A q \in Passes : q # p => sync'[q] = sync[q]
  <2>1. NoAnswer.row.status \notin Verdict
    BY DEF NoAnswer, NoRow, Verdict
  <2> QED
    <3>1. sync'[p] = [sync[p] EXCEPT !.at = "orders", !.todo = @ \ {d}, !.answer = NoAnswer]
      BY <1>2 DEF OrderDone, Goes, EtoroTypeOK
    <3> QED
      BY <1>0, <1>2, <2>1, <3>1, GoesOthers DEF OrderDone, Pass
<1>3. CASE LookUpFails(p) \/ SavePosition(p)
  BY <1>2, <1>3 DEF LookUpFails, SavePosition
<1>4. CASE SaveOrder(p)
  <2>1. CASE OrderDone(p, Newest(p))
    BY <1>2, <2>1
  <2>2. CASE Goes(p, [sync[p] EXCEPT !.at = "position"])
    BY <1>0, <2>2, GoesTo DEF Pass
  <2> QED
    BY <1>4, <2>1, <2>2 DEF SaveOrder
<1>5. CASE Goes(p, Idle)
  <2>1. Idle.answer.row.status \notin Verdict /\ Idle.at = "idle"
    BY DEF Idle, NoAnswer, NoRow, Verdict
  <2> QED
    BY <1>5, <2>1, GoesTo
<1>6. CASE PortfolioFails(p) \/ ExitLookUpFails(p) \/ NothingBooked(p) \/ Dies(p)
  BY <1>5, <1>6 DEF PortfolioFails, ExitLookUpFails, NothingBooked, Dies
<1>7. CASE ReadPortfolio(p)
  <2>1. sync'[p] = [sync[p] EXCEPT !.at = "positions", !.portfolio = {d \in Deals : deal[d] = "open"}]
    BY <1>7 DEF ReadPortfolio, Goes, EtoroTypeOK
  <2> QED
    BY <1>0, <1>7, <2>1, GoesOthers DEF ReadPortfolio, Pass
<1>8. CASE ReadPositions(p)
  <2>1. sync'[p] = [sync[p] EXCEPT !.at = "history", !.local = book]
    BY <1>8 DEF ReadPositions, Goes, EtoroTypeOK
  <2> QED
    BY <1>0, <1>8, <2>1, GoesOthers DEF ReadPositions, Pass
<1>9. ASSUME NEW found, ReadHistory(p, found)
      PROVE  /\ sync'[p].answer.row.status \notin Verdict
             /\ sync'[p].at = "visit"
             /\ \A q \in Passes : q # p => sync'[q] = sync[q]
  <2>1. sync'[p] = [sync[p] EXCEPT !.at = "visit", !.todo = Booked(sync[p].local), !.history = found]
    BY <1>9 DEF ReadHistory, Goes, EtoroTypeOK
  <2> QED
    BY <1>0, <1>9, <2>1, GoesOthers DEF ReadHistory, Pass
<1>10. ASSUME NEW d \in Deals, LookUp(p, d)
       PROVE  /\ sync'[p].answer.row.status \notin Verdict
              /\ sync'[p].answer.exec \in {"active", "filled", "ended"}
              /\ \A q \in Passes : q # p => sync'[q] = sync[q]
  <2>1. PICK answer \in OrderAnswers(d) : Goes(p, [sync[p] EXCEPT !.at = "order", !.answer = answer])
    BY <1>10 DEF LookUp
  <2>2. sync'[p].answer = answer /\ \A q \in Passes : q # p => sync'[q] = sync[q]
    <3>1. sync'[p] = [sync[p] EXCEPT !.at = "order", !.answer = answer]
      BY <2>1 DEF Goes, EtoroTypeOK
    <3> QED
      BY <1>0, <2>1, <3>1, GoesOthers DEF Pass
  <2> QED
    BY <2>2, OrderAnswersTyped
<1>11. ASSUME NEW d \in Deals, Visit(p, d)
       PROVE  /\ sync'[p].answer.row.status \notin Verdict
              /\ sync'[p].at # "order"
              /\ \A q \in Passes : q # p => sync'[q] = sync[q]
  <2>1. CASE sync[p].todo = {d}
    <3>1. Goes(p, Idle)
      BY <1>11, <2>1 DEF Visit, Visited
    <3>2. Idle.answer.row.status \notin Verdict /\ Idle.at = "idle"
      BY DEF Idle, NoAnswer, NoRow, Verdict
    <3> QED
      BY <3>1, <3>2, GoesTo
  <2>2. CASE sync[p].todo # {d}
    <3>1. Goes(p, [sync[p] EXCEPT !.todo = @ \ {d}]) /\ sync[p].at = "visit"
      BY <1>11, <2>2 DEF Visit, Visited
    <3> QED
      BY <1>0, <3>1, GoesTo DEF Pass
  <2> QED
    BY <2>1, <2>2
<1> QED
  BY <1>1, <1>3, <1>4, <1>6, <1>7, <1>8, <1>9, <1>10, <1>11 DEF PassStep

LEMMA RestTyped ==
  ASSUME EtoroTypeOK, Answered, [EtoroNext]_etoroVars
  PROVE  /\ deal' \in [Deals -> {"waiting", "open", "closed", "listed", "refused"}]
         /\ exec' \in [Deals -> {"active", "filled", "ended"}]
         /\ apart' \in BOOLEAN
<1>0. /\ deal \in [Deals -> {"waiting", "open", "closed", "listed", "refused"}]
      /\ exec \in [Deals -> {"active", "filled", "ended"}]
      /\ apart \in BOOLEAN
  BY DEF EtoroTypeOK
<1>1. ASSUME NEW d \in Deals, DealMoves(d)
      PROVE  /\ deal' \in [Deals -> {"waiting", "open", "closed", "listed", "refused"}]
             /\ exec' = exec /\ apart' = apart
  BY <1>0, <1>1 DEF DealMoves
<1>2. ASSUME NEW p \in Passes, SaveOrder(p)
      PROVE  /\ exec' \in [Deals -> {"active", "filled", "ended"}]
             /\ deal' = deal /\ apart' = apart
  <2>1. sync[p].answer.exec \in {"active", "filled", "ended"}
    BY <1>2 DEF SaveOrder, Answered
  <2> QED
    BY <1>0, <1>2, <2>1 DEF SaveOrder
<1>3. ASSUME NEW p \in Passes, Begin(p)
      PROVE  apart' \in BOOLEAN /\ deal' = deal /\ exec' = exec
  BY <1>3 DEF Begin
<1>4. CASE deal' = deal /\ exec' = exec /\ apart' = apart
  BY <1>0, <1>4
<1> QED
  BY <1>0, <1>1, <1>2, <1>3, <1>4
     DEF EtoroNext, PassStep, MarkClose, LookUpFails, LookUp, SavePosition, PortfolioFails, Visit,
         ReadPortfolio, ReadPositions, ReadHistory, ExitLookUpFails, NothingBooked, Dies, etoroVars

LEMMA NextTyped ==
  EtoroTypeOK /\ Answered /\ [EtoroNext]_etoroVars => EtoroTypeOK' /\ Answered'
<1> SUFFICES ASSUME EtoroTypeOK, Answered, [EtoroNext]_etoroVars
             PROVE  EtoroTypeOK' /\ Answered'
  OBVIOUS
<1>1. sync' \in [Passes -> Pass] /\ Answered'
  <2>1. ASSUME NEW p \in Passes, PassStep(p) PROVE sync' \in [Passes -> Pass] /\ Answered'
    BY <2>1, StepTyped, StepAnswered
  <2>2. CASE sync' = sync
    BY <2>2 DEF EtoroTypeOK, Answered
  <2> QED
    BY <2>1, <2>2 DEF EtoroNext, MarkClose, DealMoves, etoroVars
<1> QED
  BY <1>1, BookTyped, RestTyped DEF EtoroTypeOK

\* Deals, rows and passes keep their shape, however passes overlap or die.
THEOREM EtoroTypeCorrect == EtoroSpec => [](EtoroTypeOK /\ Answered)
<1>1. EtoroInit => Answered
  BY DEF EtoroInit, Answered, Idle, NoAnswer, NoRow, Verdict
<1> QED
  BY <1>1, InitTyped, NextTyped, PTL DEF EtoroSpec

----------------------------------------------------------------------------
(* A booked win or loss is the deal's own.                                 *)

\* The history in hand lists only what eToro lists, now as then.
HistoryIsTrue == \A p \in Passes : \A d \in sync[p].history : deal[d] = "listed"

LEMMA StepHistory ==
  ASSUME EtoroTypeOK, HistoryIsTrue, NEW p \in Passes, PassStep(p), deal' = deal
  PROVE  HistoryIsTrue'
<1> SUFFICES ASSUME NEW d \in sync'[p].history PROVE deal[d] = "listed"
  <2>1. \A q \in Passes : q # p => sync'[q] = sync[q]
    BY GoesOthers DEF PassStep, Begin, LookUpFails, OrderDone, SaveOrder, SavePosition, PortfolioFails,
         ReadPortfolio, ReadPositions, ExitLookUpFails, NothingBooked, Dies, ReadHistory, LookUp,
         Visit, Visited
  <2> QED
    BY <2>1 DEF HistoryIsTrue
<1>0. sync[p] \in Pass /\ \A e \in sync[p].history : deal[e] = "listed"
  BY DEF EtoroTypeOK, HistoryIsTrue
<1>1. CASE sync'[p] = Idle
  BY <1>1 DEF Idle
<1>2. ASSUME NEW found \in {ListedDeals, {}}, ReadHistory(p, found)
      PROVE  deal[d] = "listed"
  <2>1. sync'[p] = [sync[p] EXCEPT !.at = "visit", !.todo = Booked(sync[p].local), !.history = found]
    BY <1>2 DEF ReadHistory, Goes, EtoroTypeOK
  <2>2. sync'[p].history = found
    BY <1>0, <2>1 DEF Pass
  <2> QED
    BY <1>2, <2>2 DEF ListedDeals
<1>3. CASE sync'[p].history = sync[p].history
  BY <1>0, <1>3
<1>4. ASSUME NEW e, OrderDone(p, e) PROVE sync'[p].history = sync[p].history
  <2>1. sync'[p] = [sync[p] EXCEPT !.at = "orders", !.todo = @ \ {e}, !.answer = NoAnswer]
    BY <1>4 DEF OrderDone, Goes, EtoroTypeOK
  <2> QED
    BY <1>0, <2>1 DEF Pass
<1>5. CASE Begin(p)
  <2>1. sync'[p] = [sync[p] EXCEPT !.at = "orders", !.todo = {e \in Deals : exec[e] = "active"}]
    BY <1>5 DEF Begin, Goes, EtoroTypeOK
  <2> QED
    BY <1>0, <1>3, <2>1 DEF Pass
<1>6. CASE LookUpFails(p) \/ SavePosition(p)
  BY <1>3, <1>4, <1>6 DEF LookUpFails, SavePosition
<1>7. CASE SaveOrder(p)
  <2>1. CASE Goes(p, [sync[p] EXCEPT !.at = "position"])
    <3>1. sync'[p] = [sync[p] EXCEPT !.at = "position"]
      BY <2>1 DEF Goes, EtoroTypeOK
    <3> QED
      BY <1>0, <1>3, <3>1 DEF Pass
  <2> QED
    BY <1>3, <1>4, <1>7, <2>1 DEF SaveOrder
<1>8. CASE PortfolioFails(p) \/ ExitLookUpFails(p) \/ NothingBooked(p) \/ Dies(p)
  BY <1>1, <1>8 DEF PortfolioFails, ExitLookUpFails, NothingBooked, Dies, Goes, EtoroTypeOK
<1>9. CASE ReadPortfolio(p)
  <2>1. sync'[p] = [sync[p] EXCEPT !.at = "positions", !.portfolio = {e \in Deals : deal[e] = "open"}]
    BY <1>9 DEF ReadPortfolio, Goes, EtoroTypeOK
  <2> QED
    BY <1>0, <1>3, <2>1 DEF Pass
<1>10. CASE ReadPositions(p)
  <2>1. sync'[p] = [sync[p] EXCEPT !.at = "history", !.local = book]
    BY <1>10 DEF ReadPositions, Goes, EtoroTypeOK
  <2> QED
    BY <1>0, <1>3, <2>1 DEF Pass
<1>11. ASSUME NEW e \in Deals, LookUp(p, e) PROVE deal[d] = "listed"
  <2>1. PICK answer \in OrderAnswers(e) : Goes(p, [sync[p] EXCEPT !.at = "order", !.answer = answer])
    BY <1>11 DEF LookUp
  <2>2. sync'[p] = [sync[p] EXCEPT !.at = "order", !.answer = answer]
    BY <2>1 DEF Goes, EtoroTypeOK
  <2> QED
    BY <1>0, <1>3, <2>2 DEF Pass
<1>12. ASSUME NEW e \in Deals, Visit(p, e) PROVE deal[d] = "listed"
  <2>1. CASE sync[p].todo = {e}
    BY <1>1, <1>12, <2>1 DEF Visit, Visited, Goes, EtoroTypeOK
  <2>2. CASE sync[p].todo # {e}
    <3>1. sync'[p] = [sync[p] EXCEPT !.todo = @ \ {e}]
      BY <1>12, <2>2 DEF Visit, Visited, Goes, EtoroTypeOK
    <3> QED
      BY <1>0, <1>3, <3>1 DEF Pass
  <2> QED
    BY <2>1, <2>2
<1> QED
  BY <1>2, <1>5, <1>6, <1>7, <1>8, <1>9, <1>10, <1>11, <1>12 DEF PassStep

\* Only a visit books a verdict, and it takes it from the history.
LEMMA StepBooks ==
  ASSUME EtoroTypeOK, Answered, HistoryIsTrue, EtoroOutcomeIsTrue,
         NEW p \in Passes, PassStep(p), deal' = deal
  PROVE  EtoroOutcomeIsTrue'
<1> SUFFICES ASSUME NEW d \in Deals, book'[d].status \in Verdict
             PROVE  deal[d] = "listed" /\ book'[d].status = VerdictOf(d)
  BY DEF EtoroOutcomeIsTrue, VerdictOf
<1>0. book \in [Deals -> Row]
  BY DEF EtoroTypeOK
<1>1. CASE book'[d] = book[d]
  BY <1>1 DEF EtoroOutcomeIsTrue
<1>2. CASE SavePosition(p)
  <2>1. book'[d] = book[d] \/ book'[d] = sync[p].answer.row
    BY <1>0, <1>2 DEF SavePosition
  <2> QED
    BY <1>1, <2>1 DEF Answered
<1>3. ASSUME NEW e \in Deals, Visit(p, e), book'[d] # book[d]
      PROVE  deal[d] = "listed" /\ book'[d].status = VerdictOf(d)
  <2>1. book'[d] = [sync[p].local[d] EXCEPT !.status = Reconciled(p, d)]
    BY <1>0, <1>3 DEF Visit
  <2>2. sync[p].local[d] \in Row
    BY DEF EtoroTypeOK, Pass
  <2>3. book'[d].status = Reconciled(p, d)
    BY <2>1, <2>2 DEF Row, NoRow
  <2>4. d \in sync[p].history /\ Reconciled(p, d) = VerdictOf(d)
    BY <2>3 DEF Reconciled, FromHistory, Verdict
  <2> QED
    BY <2>3, <2>4 DEF HistoryIsTrue
<1> QED
  BY <1>1, <1>2, <1>3 DEF PassStep, Begin, LookUpFails, LookUp, SaveOrder, PortfolioFails,
       ReadPortfolio, ReadPositions, ReadHistory, ExitLookUpFails, NothingBooked, Dies

Booking == EtoroTypeOK /\ Answered
Truth == HistoryIsTrue /\ EtoroOutcomeIsTrue

LEMMA NextTrue == Booking /\ Truth /\ [EtoroNext]_etoroVars => Truth'
<1> SUFFICES ASSUME Booking, Truth, [EtoroNext]_etoroVars PROVE Truth'
  OBVIOUS
<1> USE DEF Booking, Truth
<1>1. ASSUME NEW p \in Passes, PassStep(p) PROVE Truth'
  <2>1. deal' = deal
    BY <1>1 DEF PassStep, Begin, LookUpFails, LookUp, SaveOrder, SavePosition, PortfolioFails,
         ReadPortfolio, ReadPositions, ReadHistory, ExitLookUpFails, NothingBooked, Dies, Visit
  <2> QED
    BY <1>1, <2>1, StepHistory, StepBooks
<1>2. ASSUME NEW e \in Deals, DealMoves(e) PROVE Truth'
  <2>1. sync' = sync /\ book' = book
    BY <1>2 DEF DealMoves
  <2>2. \A d \in Deals : deal[d] = "listed" => deal'[d] = "listed"
    BY <1>2 DEF DealMoves, EtoroTypeOK
  <2>3. HistoryIsTrue'
    BY <2>1, <2>2 DEF HistoryIsTrue, EtoroTypeOK, Pass
  <2>4. EtoroOutcomeIsTrue'
    BY <2>1, <2>2 DEF EtoroOutcomeIsTrue, VerdictOf
  <2> QED
    BY <2>3, <2>4
<1>3. CASE MarkClose
  <2>1. sync' = sync /\ deal' = deal
    BY <1>3 DEF MarkClose
  <2>2. \A d \in Deals : book'[d] = book[d] \/ book'[d].status = "closing"
    BY <1>3 DEF MarkClose, EtoroTypeOK
  <2>3. EtoroOutcomeIsTrue'
    BY <2>1, <2>2 DEF EtoroOutcomeIsTrue, VerdictOf, Verdict
  <2> QED
    BY <2>1, <2>3 DEF HistoryIsTrue
<1>4. CASE UNCHANGED etoroVars
  BY <1>4 DEF etoroVars, HistoryIsTrue, EtoroOutcomeIsTrue, VerdictOf
<1> QED
  BY <1>1, <1>2, <1>3, <1>4 DEF EtoroNext

\* A booked win or loss is the deal's own result and eToro lists the deal as
\* closed, whichever stale portfolio, copy or history was last written
\* (_sync_etoro_demo_positions_from_portfolio, _sync_etoro_demo_history_trade).
THEOREM EtoroOutcomesAreTrue == EtoroSpec => []EtoroOutcomeIsTrue
<1>1. EtoroInit => Truth
  BY DEF EtoroInit, Truth, HistoryIsTrue, EtoroOutcomeIsTrue, Idle, NoCopy, NoRow, Verdict
<1>2. EtoroSpec => []Booking
  BY EtoroTypeCorrect DEF Booking
<1>3. Truth => EtoroOutcomeIsTrue
  BY DEF Truth
<1> QED
  BY <1>1, <1>2, <1>3, NextTrue, PTL DEF EtoroSpec

----------------------------------------------------------------------------
(* A verdict stays while no two passes overlap.                            *)

\* Whose order is still looked up has no position; what is about to be booked
\* belongs to an order that is not looked up again.
OwnOrders(p) ==
  /\ sync[p].at \in {"orders", "order", "position"} => \A d \in sync[p].todo : book[d] = NoRow
  /\ sync[p].at \in {"order", "position"} => sync[p].todo # {}
  /\ sync[p].at = "position" => exec[Newest(p)] # "active"
  /\ sync[p].answer.row # NoRow => sync[p].answer.exec = "filled"

\* The copy knows every verdict, but for those the pass itself has booked.
OwnCopy(p) ==
  /\ sync[p].at \in {"history", "visit"} => \A d \in Deals :
       /\ book[d].status \in Verdict =>
            sync[p].local[d].status \in Verdict \/ (sync[p].at = "visit" /\ d \notin sync[p].todo)
       /\ sync[p].local[d] # NoRow => book[d] # NoRow
  /\ sync[p].at = "visit" => sync[p].todo \subseteq Booked(sync[p].local)

Alone ==
  /\ \A p \in Passes : \A q \in Passes \ {p} : sync[p].at = "idle" \/ sync[q].at = "idle"
  /\ \A d \in Deals : exec[d] = "active" => book[d] = NoRow
  /\ \A p \in Passes : OwnOrders(p) /\ OwnCopy(p)

VerdictsKept == \A d \in Deals : book[d].status \in Verdict => book'[d] = book[d]

\* What has to be shown of a step of pass p, when the others are idle.
LEMMA OneActs ==
  ASSUME Booking, Alone, NEW p \in Passes,
         \A q \in Passes \ {p} : sync'[q] = sync[q] /\ sync[q].at = "idle",
         \A d \in Deals : exec'[d] = "active" => book'[d] = NoRow,
         OwnOrders(p)', OwnCopy(p)'
  PROVE  Alone'
<1>1. ASSUME NEW q \in Passes, q # p PROVE OwnOrders(q)' /\ OwnCopy(q)'
  <2>1. sync'[q] = sync[q] /\ sync[q].at = "idle"
    BY <1>1
  <2>2. OwnOrders(q)
    BY DEF Alone
  <2> QED
    BY <2>1, <2>2 DEF OwnOrders, OwnCopy
<1> QED
  BY <1>1 DEF Alone

LEMMA OthersIdle ==
  ASSUME Booking, Alone, NEW p \in Passes, NEW next, Goes(p, next), sync[p].at # "idle"
  PROVE  \A q \in Passes \ {p} : sync'[q] = sync[q] /\ sync[q].at = "idle"
BY GoesOthers DEF Alone, Booking

LEMMA AnswerFilled ==
  ASSUME NEW d \in Deals, NEW answer \in OrderAnswers(d), answer.row # NoRow
  PROVE  answer.exec = "filled"
BY DEF OrderAnswers

\* The next of the orders, or the pass at rest.
LEMMA DoneAlone ==
  ASSUME Booking, Alone, NEW p \in Passes, OrderDone(p, Newest(p)),
         sync[p].at \in {"orders", "order", "position"}, sync[p].todo # {},
         \A d \in sync[p].todo \ {Newest(p)} : book'[d] = NoRow
  PROVE  OwnOrders(p)' /\ OwnCopy(p)'
<1>1. sync'[p] = [sync[p] EXCEPT !.at = "orders", !.todo = @ \ {Newest(p)}, !.answer = NoAnswer]
  BY DEF OrderDone, Goes, EtoroTypeOK, Booking
<1>2. /\ sync'[p].at = "orders" /\ sync'[p].todo = sync[p].todo \ {Newest(p)}
      /\ sync'[p].answer = NoAnswer
  BY <1>1 DEF Booking, EtoroTypeOK, Pass
<1>3. NoAnswer.row = NoRow
  BY DEF NoAnswer
<1> QED
  BY <1>2, <1>3 DEF OwnOrders, OwnCopy

LEMMA IdleAlone ==
  ASSUME Booking, NEW p \in Passes, sync'[p] = Idle
  PROVE  OwnOrders(p)' /\ OwnCopy(p)'
BY DEF Idle, NoAnswer, OwnOrders, OwnCopy

LEMMA OrderStepAlone ==
  ASSUME Booking, Alone, NEW p \in Passes,
         LookUpFails(p) \/ SaveOrder(p) \/ SavePosition(p)
  PROVE  Alone' /\ VerdictsKept
<1>0. /\ sync[p] \in Pass /\ sync[p].todo \subseteq Deals /\ OwnOrders(p)
      /\ exec \in [Deals -> {"active", "filled", "ended"}] /\ book \in [Deals -> Row]
  BY DEF Booking, EtoroTypeOK, Pass, Alone
<1>1. sync[p].todo # {} /\ sync[p].at \in {"orders", "order", "position"}
  BY <1>0 DEF LookUpFails, SaveOrder, SavePosition, OwnOrders
<1>2. Newest(p) \in sync[p].todo /\ book[Newest(p)] = NoRow /\ Newest(p) \in Deals
  BY <1>0, <1>1, NewestIn DEF OwnOrders
<1>3. \A q \in Passes \ {p} : sync'[q] = sync[q] /\ sync[q].at = "idle"
  BY <1>1, OthersIdle DEF LookUpFails, SaveOrder, SavePosition, OrderDone
<1>4. CASE LookUpFails(p)
  <2>1. book' = book /\ exec' = exec /\ OrderDone(p, Newest(p))
    BY <1>4 DEF LookUpFails
  <2>2. OwnOrders(p)' /\ OwnCopy(p)'
    BY <1>0, <1>1, <2>1, DoneAlone DEF OwnOrders
  <2>3. \A d \in Deals : exec'[d] = "active" => book'[d] = NoRow
    BY <2>1 DEF Alone
  <2> QED
    BY <1>3, <2>1, <2>2, <2>3, OneActs DEF VerdictsKept
<1>5. CASE SaveOrder(p)
  <2>1. book' = book /\ exec' = [exec EXCEPT ![Newest(p)] = sync[p].answer.exec]
    BY <1>5 DEF SaveOrder
  <2>2. OwnOrders(p)' /\ OwnCopy(p)'
    <3>1. CASE OrderDone(p, Newest(p))
      BY <1>0, <1>1, <2>1, <3>1, DoneAlone DEF OwnOrders
    <3>2. CASE sync[p].answer.row # NoRow /\ Goes(p, [sync[p] EXCEPT !.at = "position"])
      <4>1. sync'[p] = [sync[p] EXCEPT !.at = "position"]
        BY <3>2 DEF Goes, EtoroTypeOK, Booking
      <4>2. /\ sync'[p].at = "position" /\ sync'[p].todo = sync[p].todo
            /\ sync'[p].answer = sync[p].answer
        BY <1>0, <4>1 DEF Pass
      <4>3. Newest(p)' = Newest(p)
        BY <4>2 DEF Newest
      <4>4. exec'[Newest(p)] = "filled"
        BY <1>0, <1>2, <2>1, <3>2 DEF OwnOrders
      <4> QED
        BY <1>0, <1>1, <2>1, <3>2, <4>2, <4>3, <4>4 DEF OwnOrders, OwnCopy
    <3> QED
      BY <1>5, <3>1, <3>2 DEF SaveOrder
  <2>3. \A d \in Deals : exec'[d] = "active" => book'[d] = NoRow
    BY <1>0, <1>2, <2>1 DEF Alone
  <2> QED
    BY <1>3, <2>1, <2>2, <2>3, OneActs DEF VerdictsKept
<1>6. CASE SavePosition(p)
  <2>1. /\ exec' = exec /\ book' = [book EXCEPT ![Newest(p)] = sync[p].answer.row]
        /\ OrderDone(p, Newest(p)) /\ sync[p].at = "position"
    BY <1>6 DEF SavePosition
  <2>2. \A d \in Deals : d # Newest(p) => book'[d] = book[d]
    BY <1>0, <2>1
  <2>3. OwnOrders(p)' /\ OwnCopy(p)'
    BY <1>0, <1>1, <2>1, <2>2, DoneAlone DEF OwnOrders
  <2>4. \A d \in Deals : exec'[d] = "active" => book'[d] = NoRow
    BY <1>0, <2>1, <2>2 DEF Alone, OwnOrders
  <2>5. VerdictsKept
    BY <1>2, <2>2 DEF VerdictsKept, NoRow, Verdict
  <2> QED
    BY <1>3, <2>3, <2>4, <2>5, OneActs
<1> QED
  BY <1>4, <1>5, <1>6

LEMMA ReadStepAlone ==
  ASSUME Booking, Alone, NEW p \in Passes,
         \/ \E d \in Deals : LookUp(p, d)
         \/ ReadPortfolio(p) \/ ReadPositions(p)
         \/ ReadHistory(p, ListedDeals) \/ ReadHistory(p, {})
  PROVE  Alone' /\ VerdictsKept
<1>0. sync[p] \in Pass /\ OwnOrders(p) /\ OwnCopy(p)
  BY DEF Booking, EtoroTypeOK, Alone
<1>1. book' = book /\ exec' = exec /\ sync[p].at # "idle"
  BY DEF LookUp, ReadPortfolio, ReadPositions, ReadHistory
<1>2. \A q \in Passes \ {p} : sync'[q] = sync[q] /\ sync[q].at = "idle"
  BY <1>1, OthersIdle DEF LookUp, ReadPortfolio, ReadPositions, ReadHistory
<1>3. OwnOrders(p)' /\ OwnCopy(p)'
  <2>1. ASSUME NEW d \in Deals, LookUp(p, d)
        PROVE  OwnOrders(p)' /\ OwnCopy(p)'
    <3>1. PICK answer \in OrderAnswers(d) : Goes(p, [sync[p] EXCEPT !.at = "order", !.answer = answer])
      BY <2>1 DEF LookUp
    <3>2. sync'[p] = [sync[p] EXCEPT !.at = "order", !.answer = answer]
      BY <3>1 DEF Goes, EtoroTypeOK, Booking
    <3>3. /\ sync'[p].at = "order" /\ sync'[p].todo = sync[p].todo
          /\ sync'[p].answer = answer
      BY <1>0, <3>2 DEF Pass
    <3>4. answer.row # NoRow => answer.exec = "filled"
      BY AnswerFilled
    <3>5. sync[p].at = "orders" /\ sync[p].todo # {}
      BY <2>1 DEF LookUp
    <3> QED
      BY <1>0, <1>1, <3>3, <3>4, <3>5 DEF OwnOrders, OwnCopy
  <2>2. CASE ReadPortfolio(p)
    <3>1. sync'[p] = [sync[p] EXCEPT !.at = "positions", !.portfolio = {e \in Deals : deal[e] = "open"}]
      BY <2>2 DEF ReadPortfolio, Goes, EtoroTypeOK, Booking
    <3>2. sync'[p].at = "positions" /\ sync'[p].answer = sync[p].answer
      BY <1>0, <3>1 DEF Pass
    <3> QED
      BY <1>0, <3>2 DEF OwnOrders, OwnCopy
  <2>3. CASE ReadPositions(p)
    <3>1. sync'[p] = [sync[p] EXCEPT !.at = "history", !.local = book]
      BY <2>3 DEF ReadPositions, Goes, EtoroTypeOK, Booking
    <3>2. sync'[p].at = "history" /\ sync'[p].answer = sync[p].answer /\ sync'[p].local = book
      BY <1>0, <3>1 DEF Pass
    <3> QED
      BY <1>0, <1>1, <3>2 DEF OwnOrders, OwnCopy
  <2>4. ASSUME NEW found, ReadHistory(p, found)
        PROVE  OwnOrders(p)' /\ OwnCopy(p)'
    <3>1. sync'[p] = [sync[p] EXCEPT !.at = "visit", !.todo = Booked(sync[p].local), !.history = found]
      BY <2>4 DEF ReadHistory, Goes, EtoroTypeOK, Booking
    <3>2. /\ sync'[p].at = "visit" /\ sync'[p].answer = sync[p].answer
          /\ sync'[p].local = sync[p].local /\ sync'[p].todo = Booked(sync[p].local)
      BY <1>0, <3>1 DEF Pass
    <3>3. sync[p].at = "history"
      BY <2>4 DEF ReadHistory
    <3>4. Booked(sync[p].local)' = Booked(sync'[p].local)
      BY DEF Booked
    <3>5. OwnOrders(p)'
      BY <1>0, <3>2 DEF OwnOrders
    <3>6. OwnCopy(p)'
      BY <1>0, <1>1, <3>2, <3>3, <3>4 DEF OwnCopy, Booked
    <3> QED
      BY <3>5, <3>6
  <2> QED
    BY <2>1, <2>2, <2>3, <2>4
<1>4. \A e \in Deals : exec'[e] = "active" => book'[e] = NoRow
  BY <1>1 DEF Alone
<1> QED
  BY <1>1, <1>2, <1>3, <1>4, OneActs DEF VerdictsKept

LEMMA EndStepAlone ==
  ASSUME Booking, Alone, NEW p \in Passes,
         PortfolioFails(p) \/ ExitLookUpFails(p) \/ NothingBooked(p) \/ Dies(p)
  PROVE  Alone' /\ VerdictsKept
<1>1. book' = book /\ exec' = exec /\ sync[p].at # "idle" /\ Goes(p, Idle)
  BY DEF PortfolioFails, ExitLookUpFails, NothingBooked, Dies
<1>2. \A q \in Passes \ {p} : sync'[q] = sync[q] /\ sync[q].at = "idle"
  BY <1>1, OthersIdle
<1>3. sync'[p] = Idle
  BY <1>1 DEF Goes, Booking, EtoroTypeOK
<1>4. \A e \in Deals : exec'[e] = "active" => book'[e] = NoRow
  BY <1>1 DEF Alone
<1> QED
  BY <1>1, <1>2, <1>3, <1>4, IdleAlone, OneActs DEF VerdictsKept

LEMMA BeginAlone ==
  ASSUME Booking, Alone, NEW p \in Passes, Begin(p), apart'
  PROVE  Alone' /\ VerdictsKept
<1>0. sync[p] \in Pass /\ OwnOrders(p)
  BY DEF Booking, EtoroTypeOK, Alone
<1>1. book' = book /\ exec' = exec
  BY DEF Begin
<1>2. \A q \in Passes \ {p} : sync'[q] = sync[q] /\ sync[q].at = "idle"
  BY GoesOthers DEF Begin, Booking
<1>3. sync'[p] = [sync[p] EXCEPT !.at = "orders", !.todo = {e \in Deals : exec[e] = "active"}]
  BY DEF Begin, Goes, EtoroTypeOK, Booking
<1>4. /\ sync'[p].at = "orders" /\ sync'[p].todo = {e \in Deals : exec[e] = "active"}
      /\ sync'[p].answer = sync[p].answer
  BY <1>0, <1>3 DEF Pass
<1>5. \A e \in Deals : exec[e] = "active" => book[e] = NoRow
  BY DEF Alone
<1>6. OwnOrders(p)' /\ OwnCopy(p)'
  BY <1>0, <1>1, <1>4, <1>5 DEF OwnOrders, OwnCopy
<1> QED
  BY <1>1, <1>2, <1>5, <1>6, OneActs DEF VerdictsKept

\* A visit writes only what its copy shows as unsettled.
LEMMA VisitAlone ==
  ASSUME Booking, Alone, NEW p \in Passes, NEW d \in Deals, Visit(p, d)
  PROVE  Alone' /\ VerdictsKept
<1>0. /\ sync[p] \in Pass /\ sync[p].todo \subseteq Deals /\ OwnOrders(p) /\ OwnCopy(p)
      /\ book \in [Deals -> Row] /\ sync[p].at = "visit" /\ exec' = exec
  BY DEF Booking, EtoroTypeOK, Pass, Alone, Visit
<1>1. d \in sync[p].todo /\ sync[p].local[d] # NoRow /\ book[d] # NoRow
  <2>1. d \in sync[p].todo
    BY <1>0, NewestIn DEF Visit
  <2> QED
    BY <1>0, <2>1 DEF OwnCopy, Booked
<1>2. \A q \in Passes \ {p} : sync'[q] = sync[q] /\ sync[q].at = "idle"
  BY <1>0, OthersIdle DEF Visit, Visited
<1>3. /\ \A e \in Deals : e # d => book'[e] = book[e]
      /\ book'[d] = book[d] \/ (book[d].status \notin Verdict /\ book'[d] # NoRow)
  <2>1. CASE sync[p].local[d].status \in LeftAlone
    BY <2>1 DEF Visit
  <2>2. CASE sync[p].local[d].status \notin LeftAlone
    <3>1. book' = [book EXCEPT ![d] = [sync[p].local[d] EXCEPT !.status = Reconciled(p, d)]]
      BY <2>2 DEF Visit
    <3>2. book[d].status \notin Verdict
      BY <1>0, <1>1, <2>2 DEF OwnCopy, LeftAlone
    <3>3. book'[d] = [sync[p].local[d] EXCEPT !.status = Reconciled(p, d)]
      BY <1>0, <3>1
    <3>4. sync[p].local[d] \in Row
      BY <1>0 DEF Pass
    <3>5. book'[d].status = Reconciled(p, d)
      BY <3>3, <3>4 DEF Row, NoRow
    <3>6. book'[d] # NoRow
      BY <3>5, ReconciledTyped DEF PositionStatus, NoRow, Verdict
    <3> QED
      BY <1>0, <3>1, <3>2, <3>6
  <2> QED
    BY <2>1, <2>2
<1>4. VerdictsKept
  BY <1>3 DEF VerdictsKept
<1>5. \A e \in Deals : exec'[e] = "active" => book'[e] = NoRow
  BY <1>0, <1>1, <1>3 DEF Alone
<1>6. OwnOrders(p)' /\ OwnCopy(p)'
  <2>1. CASE sync[p].todo = {d}
    <3>1. sync'[p] = Idle
      BY <2>1 DEF Visit, Visited, Goes, Booking, EtoroTypeOK
    <3> QED
      BY <3>1, IdleAlone
  <2>2. CASE sync[p].todo # {d}
    <3>1. sync'[p] = [sync[p] EXCEPT !.todo = @ \ {d}]
      BY <2>2 DEF Visit, Visited, Goes, EtoroTypeOK, Booking
    <3>2. /\ sync'[p].at = "visit" /\ sync'[p].answer = sync[p].answer
          /\ sync'[p].local = sync[p].local /\ sync'[p].todo = sync[p].todo \ {d}
      BY <1>0, <3>1 DEF Pass
    <3>3. OwnOrders(p)'
      BY <1>0, <3>2 DEF OwnOrders
    <3>4. OwnCopy(p)'
      BY <1>0, <1>1, <1>3, <3>2 DEF OwnCopy, Booked
    <3> QED
      BY <3>3, <3>4
  <2> QED
    BY <2>1, <2>2
<1> QED
  BY <1>2, <1>4, <1>5, <1>6, OneActs

LEMMA MarkCloseAlone ==
  ASSUME Booking, Alone, MarkClose
  PROVE  Alone' /\ VerdictsKept
<1> DEFINE live == {d \in Deals : book[d].status = "open"}
<1>1. /\ book' = [book EXCEPT ![Max(live)] = [status |-> "closing", exit |-> TRUE]]
      /\ exec' = exec /\ sync' = sync /\ live # {}
  BY DEF MarkClose
<1>2. Max(live) \in live
  <2>1. \E d \in live : \A e \in live : d >= e
    BY <1>1, EtoroAssumption
  <2> QED
    BY <2>1 DEF Max
<1>3. \A d \in Deals : \/ book'[d] = book[d]
                       \/ book[d].status = "open" /\ book'[d].status = "closing"
  BY <1>1, <1>2 DEF Booking, EtoroTypeOK
<1>4. \A d \in Deals : /\ book[d] = NoRow => book'[d] = NoRow
                       /\ book[d] # NoRow => book'[d] # NoRow
                       /\ book'[d].status \in Verdict => book'[d] = book[d]
                       /\ book[d].status \in Verdict => book'[d] = book[d]
  BY <1>3 DEF NoRow, Verdict
<1>5. ASSUME NEW p \in Passes PROVE OwnOrders(p)' /\ OwnCopy(p)'
  <2>1. OwnOrders(p) /\ OwnCopy(p) /\ sync[p].todo \subseteq Deals
    BY DEF Alone, Booking, EtoroTypeOK, Pass
  <2>2. OwnOrders(p)'
    BY <1>1, <1>4, <2>1 DEF OwnOrders, Newest
  <2>3. OwnCopy(p)'
    BY <1>1, <1>4, <2>1 DEF OwnCopy, Booked
  <2> QED
    BY <2>2, <2>3
<1> QED
  BY <1>1, <1>4, <1>5 DEF Alone, VerdictsKept

AloneWhileApart == apart => Alone

LEMMA NextAlone ==
  ASSUME Booking, AloneWhileApart, [EtoroNext]_etoroVars
  PROVE  AloneWhileApart' /\ VerdictStaysAlone
<1> SUFFICES ASSUME apart' PROVE Alone' /\ VerdictsKept
  BY DEF AloneWhileApart, VerdictStaysAlone, VerdictsKept
<1>1. apart
  BY DEF EtoroNext, PassStep, MarkClose, DealMoves, Begin, LookUpFails, LookUp, SaveOrder, SavePosition,
       PortfolioFails, Visit, ReadPortfolio, ReadPositions, ReadHistory, ExitLookUpFails, NothingBooked,
       Dies, etoroVars
<1>2. Alone
  BY <1>1 DEF AloneWhileApart
<1>3. ASSUME NEW p \in Passes, PassStep(p) PROVE Alone' /\ VerdictsKept
  <2>1. CASE Begin(p)
    BY <1>2, <2>1, BeginAlone
  <2>2. CASE LookUpFails(p) \/ SaveOrder(p) \/ SavePosition(p)
    BY <1>2, <2>2, OrderStepAlone
  <2>3. CASE PortfolioFails(p) \/ ExitLookUpFails(p) \/ NothingBooked(p) \/ Dies(p)
    BY <1>2, <2>3, EndStepAlone
  <2>4. ASSUME NEW d \in Deals, LookUp(p, d) PROVE Alone' /\ VerdictsKept
    BY <1>2, <2>4, ReadStepAlone
  <2>5. ASSUME NEW d \in Deals, Visit(p, d) PROVE Alone' /\ VerdictsKept
    BY <1>2, <2>5, VisitAlone
  <2>6. CASE ReadPortfolio(p) \/ ReadPositions(p) \/ ReadHistory(p, ListedDeals) \/ ReadHistory(p, {})
    BY <1>2, <2>6, ReadStepAlone
  <2> QED
    BY <1>3, <2>1, <2>2, <2>3, <2>4, <2>5, <2>6 DEF PassStep
<1>4. CASE MarkClose
  BY <1>2, <1>4, MarkCloseAlone
<1>5. CASE exec' = exec /\ book' = book /\ sync' = sync
  BY <1>2, <1>5 DEF Alone, VerdictsKept, OwnOrders, OwnCopy, Booked, Newest
<1> QED
  BY <1>3, <1>4, <1>5 DEF EtoroNext, DealMoves, etoroVars

\* While no two passes have overlapped, no portfolio, history, close or crash
\* undoes a booked win or loss (_sync_etoro_demo_positions_from_portfolio).
THEOREM VerdictsStayAlone == EtoroSpec => DecidedStaysAlone
<1>1. EtoroInit => AloneWhileApart
  BY DEF EtoroInit, AloneWhileApart, Alone, OwnOrders, OwnCopy, Idle, NoAnswer, NoCopy
<1>2. EtoroSpec => []Booking
  BY EtoroTypeCorrect DEF Booking
<1> QED
  BY <1>1, <1>2, NextAlone, PTL DEF EtoroSpec, DecidedStaysAlone
=============================================================================
