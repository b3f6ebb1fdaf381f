------------------------------- MODULE EtoroBook -------------------------------
(***************************************************************************)
(* The book of an eToro demo account, kept from three answers of eToro.    *)
(*                                                                         *)
(*   services/broker_reconciliation.py    order lookup, portfolio, history *)
(*   services/brokers/etoro.py            the demo adapter                 *)
(*   services/order_execution.py          the close that marks a position  *)
(*   repositories/broker_positions.py     whole-row writes                 *)
(*                                                                         *)
(* A pass first looks up every active order, newest first, writing the     *)
(* order row and then the position; it then reads the portfolio, the       *)
(* positions it has booked and the trade history, and goes through these   *)
(* copies, newest first.  The worker's steering and an operator's sync     *)
(* each make passes, in processes of their own.  A deal that has closed    *)
(* leaves the portfolio at once and is listed in the history some time     *)
(* later, or never.                                                        *)
(***************************************************************************)
EXTENDS Naturals, FiniteSetsExt

CONSTANTS
  Deals,             \* orders sent to eToro, the newer the higher
  Result,            \* how each would end: its profit above, below or at zero
  Steering, Operator,     \* who makes passes
  OperatorPasses,    \* bound: number of the operator's passes
  Crashes            \* bound: number of passes that die

Passes == {Steering, Operator}
Profit == {"gain", "loss", "zero"}

ASSUME EtoroAssumption ==
  /\ Deals \subseteq Nat
  \* There are finitely many.
  /\ \A some \in SUBSET Deals : some # {} => \E d \in some : \A e \in some : d >= e
  /\ Result \in [Deals -> Profit]
  /\ Steering # Operator
  /\ OperatorPasses \in Nat /\ Crashes \in Nat

VARIABLES
  deal,      \* the state of each order and deal at eToro
  exec,      \* the status of each order row
  book,      \* each order's position row
  sync,      \* what each pass has read
  spent,     \* operator's passes made and passes died
  apart      \* no two passes have overlapped

etoroVars == <<deal, exec, book, sync, spent, apart>>

Verdict == {"win", "loss"}
\* "open" stands for submitted too, which every reader here treats alike.
PositionStatus == {"open", "closing", "needs_review"} \cup Verdict
NoRow == [status |-> "none", exit |-> FALSE]
Row == {NoRow} \cup [status : PositionStatus, exit : BOOLEAN]   \* exit: has an exit order id
NoAnswer == [exec |-> "none", row |-> NoRow]
NoCopy == [d \in Deals |-> NoRow]
Idle == [at |-> "idle", todo |-> {}, answer |-> NoAnswer,
         portfolio |-> {}, local |-> NoCopy, history |-> {}]

Booked(rows) == {d \in Deals : rows[d] # NoRow}
Newest(p) == Max(sync[p].todo)
\* A profit of zero is no verdict.
VerdictOf(d) ==
  CASE Result[d] = "gain" -> "win" [] Result[d] = "loss" -> "loss" [] OTHER -> "needs_review"

----------------------------------------------------------------------------
(* eToro.                                                                  *)

DealMoves(d) ==
  /\ \/ deal[d] = "waiting" /\ deal' = [deal EXCEPT ![d] = "open"]
     \/ deal[d] = "waiting" /\ deal' = [deal EXCEPT ![d] = "refused"]
     \/ deal[d] = "open" /\ deal' = [deal EXCEPT ![d] = "closed"]
     \/ deal[d] = "closed" /\ deal' = [deal EXCEPT ![d] = "listed"]
  /\ UNCHANGED <<exec, book, sync, spent, apart>>

\* The statuses a lookup may give the order row, with the position row of its
\* first execution if it shows one.
OrderAnswers(d) ==
  CASE deal[d] = "waiting" -> {[exec |-> "active", row |-> NoRow]}
    [] deal[d] = "refused" -> {[exec |-> "ended", row |-> NoRow]}
    [] OTHER ->
         {[exec |-> "filled", row |-> NoRow]} \cup
         {[exec |-> "filled",
           row |-> [status |-> IF deal[d] = "open" THEN "open" ELSE "needs_review",
                    exit |-> FALSE]]}

----------------------------------------------------------------------------
(* A pass.                                                                 *)

Goes(p, next) == sync' = [sync EXCEPT ![p] = next]

Begin(p) ==
  /\ sync[p].at = "idle"
  /\ p = Operator => spent.passes < OperatorPasses
  /\ spent' = IF p = Operator THEN [spent EXCEPT !.passes = @ + 1] ELSE spent
  /\ Goes(p, [sync[p] EXCEPT !.at = "orders", !.todo = {d \in Deals : exec[d] = "active"}])
  /\ apart' = (apart /\ \A q \in Passes \ {p} : sync[q].at = "idle")
  /\ UNCHANGED <<deal, exec, book>>

OrderDone(p, d) ==
  Goes(p, [sync[p] EXCEPT !.at = "orders", !.todo = @ \ {d}, !.answer = NoAnswer])

\* A failed lookup is counted, and the pass goes on.
LookUpFails(p) ==
  /\ sync[p].at = "orders" /\ sync[p].todo # {}
  /\ OrderDone(p, Newest(p))
  /\ UNCHANGED <<deal, exec, book, spent, apart>>

LookUp(p, d) ==
  /\ sync[p].at = "orders" /\ sync[p].todo # {} /\ d = Newest(p)
  /\ \E answer \in OrderAnswers(d) :
       Goes(p, [sync[p] EXCEPT !.at = "order", !.answer = answer])
  /\ UNCHANGED <<deal, exec, book, spent, apart>>

\* The order row is committed before the position.
SaveOrder(p) ==
  /\ sync[p].at = "order"
  /\ exec' = [exec EXCEPT ![Newest(p)] = sync[p].answer.exec]
  /\ IF sync[p].answer.row = NoRow THEN OrderDone(p, Newest(p))
     ELSE Goes(p, [sync[p] EXCEPT !.at = "position"])
  /\ UNCHANGED <<deal, book, spent, apart>>

\* A new row takes the place of the old one, exit order id and all.
SavePosition(p) ==
  /\ sync[p].at = "position"
  /\ book' = [book EXCEPT ![Newest(p)] = sync[p].answer.row]
  /\ OrderDone(p, Newest(p))
  /\ UNCHANGED <<deal, exec, spent, apart>>

\* The account is visited for its orders or for positions booked before.
PortfolioFails(p) ==
  /\ sync[p].at = "orders" /\ sync[p].todo = {}
  /\ Goes(p, Idle)
  /\ UNCHANGED <<deal, exec, book, spent, apart>>
ReadPortfolio(p) ==
  /\ sync[p].at = "orders" /\ sync[p].todo = {}
  /\ Goes(p, [sync[p] EXCEPT !.at = "positions", !.portfolio = {d \in Deals : deal[d] = "open"}])
  /\ UNCHANGED <<deal, exec, book, spent, apart>>
ReadPositions(p) ==
  /\ sync[p].at = "positions"
  /\ Goes(p, [sync[p] EXCEPT !.at = "history", !.local = book])
  /\ UNCHANGED <<deal, exec, book, spent, apart>>
\* The history may be out of reach: it is then taken to be empty.
ReadHistory(p, found) ==
  /\ sync[p].at = "history"
  /\ Goes(p, [sync[p] EXCEPT !.at = "visit", !.todo = Booked(sync[p].local), !.history = found])
  /\ UNCHANGED <<deal, exec, book, spent, apart>>
ListedDeals == {d \in Deals : deal[d] = "listed"}

\* What the history read says of a deal that is not in the portfolio.
\* Mutant of FromHistory: a row of the history is taken for any deal.
FromHistoryOfAny(p, d) ==
  IF sync[p].history = {} THEN "needs_review" ELSE VerdictOf(Max(sync[p].history))
FromHistory(p, d) == IF d \in sync[p].history THEN VerdictOf(d) ELSE "needs_review"

\* The statuses no portfolio or history is consulted for.
\* Mutant of LeftAlone: a verdict is examined again.
LeftAloneNone == {}
\* Mutant of LeftAlone: a position in review is left to the operator.
LeftAloneInReview == Verdict \cup {"needs_review"}
LeftAlone == Verdict

Reconciled(p, d) ==
  IF d \in sync[p].portfolio THEN "open" ELSE FromHistory(p, d)

Visited(p, d) == Goes(p, IF sync[p].todo = {d} THEN Idle ELSE [sync[p] EXCEPT !.todo = @ \ {d}])

\* The copy is written back whole.
Visit(p, d) ==
  /\ sync[p].at = "visit" /\ sync[p].todo # {} /\ d = Newest(p)
  /\ book' = IF sync[p].local[d].status \in LeftAlone THEN book
             ELSE [book EXCEPT ![d] = [sync[p].local[d] EXCEPT !.status = Reconciled(p, d)]]
  /\ Visited(p, d)
  /\ UNCHANGED <<deal, exec, spent, apart>>

\* eToro does not know the exit order: not found, and the visit goes on as
\* above; or the lookup fails, and the rest of the account is left.
ExitLookUpFails(p) ==
  /\ sync[p].at = "visit" /\ sync[p].todo # {} /\ sync[p].local[Newest(p)].exit
  /\ Goes(p, Idle)
  /\ UNCHANGED <<deal, exec, book, spent, apart>>

NothingBooked(p) ==
  /\ sync[p].at = "visit" /\ sync[p].todo = {}
  /\ Goes(p, Idle)
  /\ UNCHANGED <<deal, exec, book, spent, apart>>

Dies(p) ==
  /\ sync[p].at # "idle" /\ spent.crashes < Crashes
  /\ spent' = [spent EXCEPT !.crashes = @ + 1]
  /\ Goes(p, Idle)
  /\ UNCHANGED <<deal, exec, book, apart>>

\* A close at Alpaca, accepted, marks the newest live position of the ticker,
\* at whichever broker it is held, and leaves Alpaca's order id in it.
MarkClose ==
  LET live == {d \in Deals : book[d].status = "open"} IN
  /\ live # {}
  /\ book' = [book EXCEPT ![Max(live)] = [status |-> "closing", exit |-> TRUE]]
  /\ UNCHANGED <<deal, exec, sync, spent, apart>>

----------------------------------------------------------------------------
EtoroInit ==
  /\ deal \in [Deals -> {"waiting", "refused"}]
  /\ exec = [d \in Deals |-> IF deal[d] = "waiting" THEN "active" ELSE "ended"]
  /\ book = NoCopy
  /\ sync = [p \in Passes |-> Idle]
  /\ spent \in [passes : 0..OperatorPasses, crashes : {0}]
  /\ apart = TRUE

PassStep(p) ==
  \/ Begin(p) \/ LookUpFails(p) \/ SaveOrder(p) \/ SavePosition(p) \/ PortfolioFails(p)
  \/ ReadPortfolio(p) \/ ReadPositions(p) \/ ExitLookUpFails(p) \/ NothingBooked(p) \/ Dies(p)
  \/ ReadHistory(p, ListedDeals) \/ ReadHistory(p, {})
  \/ \E d \in Deals : LookUp(p, d) \/ Visit(p, d)
EtoroNext == MarkClose \/ (\E d \in Deals : DealMoves(d)) \/ \E p \in Passes : PassStep(p)

\* Steering runs again and again and takes its own steps, an operator's pass that
\* has an answer writes it, and eToro answers often enough.
EtoroFairness ==
  /\ WF_etoroVars(Begin(Steering))
  /\ WF_etoroVars(\E p \in Passes : SaveOrder(p) \/ SavePosition(p))
  /\ WF_etoroVars(ReadPositions(Steering) \/ NothingBooked(Steering))
  /\ SF_etoroVars(ReadPortfolio(Steering))
  /\ SF_etoroVars(ReadHistory(Steering, ListedDeals))
  /\ \A d \in Deals : SF_etoroVars(LookUp(Steering, d))
  /\ WF_etoroVars(\E d \in Deals : Visit(Steering, d))

EtoroSpec == EtoroInit /\ [][EtoroNext]_etoroVars /\ EtoroFairness

----------------------------------------------------------------------------
Pass == [at : {"idle", "orders", "order", "position", "positions", "history", "visit"},
         todo : SUBSET Deals, portfolio : SUBSET Deals, history : SUBSET Deals,
         answer : [exec : {"none", "active", "filled", "ended"}, row : Row],
         local : [Deals -> Row]]

EtoroTypeOK ==
  /\ deal \in [Deals -> {"waiting", "open", "closed", "listed", "refused"}]
  /\ exec \in [Deals -> {"active", "filled", "ended"}]
  /\ book \in [Deals -> Row]
  /\ sync \in [Passes -> Pass]
  /\ apart \in BOOLEAN

\* A booked win or loss is the deal's own result, and eToro lists the deal as
\* closed, whichever stale portfolio, copy or history was last written
\* (_sync_etoro_demo_positions_from_portfolio, _sync_etoro_demo_history_trade).
EtoroOutcomeIsTrue ==
  \A d \in Deals : book[d].status \in Verdict =>
    deal[d] = "listed" /\ book[d].status = VerdictOf(d)

VerdictStaysAlone ==
  apart' => \A d \in Deals : book[d].status \in Verdict => book'[d] = book[d]

\* While no two passes have overlapped, no portfolio, history, close or crash
\* undoes a booked win or loss (_sync_etoro_demo_positions_from_portfolio).
DecidedStaysAlone == [][VerdictStaysAlone]_etoroVars

\* The exit lookup of d, or of a newer position, may end every pass before d.
HeldUp(d) == \E e \in Deals : e >= d /\ book[e].exit
\* The order row says filled, and no position was ever booked.
Unbooked(d) == exec[d] = "filled" /\ book[d] = NoRow
Settles(d) ==
  deal[d] = "listed" => book[d].status = VerdictOf(d) \/ Unbooked(d) \/ HeldUp(d)

\* Again and again every deal that eToro lists as closed is booked with its
\* result, but for one whose order was recorded filled without a position, and one at
\* or behind a position that carries another broker's exit order id
\* (BrokerReconciliationService._sync_open_executions).
EtoroSettles == []<>(\A d \in Deals : Settles(d))
=============================================================================
