------------------------------ MODULE BrokerBook ------------------------------
(***************************************************************************)
(* The application's book of one plan at Alpaca beside what the broker     *)
(* really holds.                                                           *)
(*                                                                         *)
(*   services/order_execution.py               refresh, cancel, amend,     *)
(*                                             close, resubmit             *)
(*   services/broker_reconciliation.py         the order sync              *)
(*   services/broker_position_steering_workflow.py    the steering pass    *)
(*   services/risk_management.py               the check before resubmitting *)
(*                                                                         *)
(* Rows are the plan's order and its resubmissions, each with the position *)
(* derived from it.  An operation reads the row, asks the broker, writes   *)
(* the row and writes the position, the last two in transactions of their  *)
(* own, so that the worker, which syncs and steers, and the API process,   *)
(* which serves an operator one request at a time, come between each       *)
(* other's steps.  A request to steer now runs a pass in the API process,  *)
(* and one to sync all rows is a sequence of refreshes.  Two passes may    *)
(* overlap: the queue lets two runs of steering be active, and a lease     *)
(* lapse under a live worker.                                              *)
(* Quantities are none, some or all; what steering sees apart from the     *)
(* book is any member of Price and of Evidence.                            *)
(***************************************************************************)
EXTENDS SteeringRules

CONSTANTS
  Rows,         \* number of rows: the order and its resubmissions
  Worker, Api,
  Entry, Stop0, Tp0,    \* the plan's levels
  Price,        \* prices steering may meet
  Evidence,     \* what it may know apart from the book, as SteeringRules has it
  Enabled,      \* enabled accounts
  Own,          \* the account the order belongs to
  Default,      \* the account a record has that names none
  Unlisted,     \* statuses the broker may report and list_active leaves out
  MaxRequests   \* bound: requests of the operator

Row == 1..Rows
Session == {Worker, Api}

ASSUME BookAssumption ==
  /\ Rows \in Nat \ {0} /\ MaxRequests \in Nat
  /\ Worker # Api
  /\ {Entry, Stop0, Tp0} \subseteq Int /\ Price \subseteq Int
  /\ Unlisted \subseteq {"pending_new"}

Listed == {"new", "partially_filled", "open"}
Ended  == {"win", "loss", "canceled", "rejected", "failed"}

NoOrder == [status |-> "none", stop |-> NoLevel, tp |-> NoLevel,
            acct |-> Own, bid |-> FALSE]
NoPos   == [status |-> "none", linked |-> FALSE]
NoReply == [status |-> "none", filled |-> FALSE, exit |-> "none", linked |-> FALSE]
Idle    == [op |-> "none", at |-> "idle", row |-> 0, read |-> NoOrder,
            stop |-> NoLevel, tp |-> NoLevel, reply |-> NoReply]
Resting == [at |-> "idle", todo |-> {}, ok |-> TRUE, decision |-> Decide("none"),
            order |-> 0]

VARIABLES
  row,      \* order rows
  pos,      \* the position derived from each row
  broker,   \* what the broker has for each row: state and exit levels
  call,     \* the operation each process is in
  pass,     \* the steering pass each process is in
  asked,    \* the operator's requests so far
  astray,   \* history: rows whose levels were written over by an older copy,
            \* whose amendment was accepted and not recorded, or for which two
            \* passes had amendments in hand at a time
  torn      \* history: rows of which two operations held answers at a time, or
            \* whose operation died between its two writes

vars == <<row, pos, broker, call, pass, asked, astray, torn>>
history == <<astray, torn>>

----------------------------------------------------------------------------
(* The broker.                                                             *)

Waiting == {"working", "partial"}
Holding == {"partial", "held", "closing", "stub"}
Live(r) == broker[r].state \in Waiting \cup Holding

Become(r, state) == broker' = [broker EXCEPT ![r].state = state]
Quiet == UNCHANGED <<row, pos, call, pass, asked, history>>

FillPart(r) ==
  /\ broker[r].state = "working"
  /\ Become(r, "partial") /\ Quiet
Fill(r) ==
  /\ broker[r].state \in Waiting
  /\ Become(r, "held") /\ Quiet
\* One of the exit orders is filled.
Exit(r) ==
  /\ broker[r].state = "held"
  /\ \E how \in {"win", "loss"} : Become(r, how)
  /\ Quiet
\* The market order of a close is filled; it cancels the exit orders.
CloseFills(r) ==
  /\ broker[r].state = "closing"
  /\ Become(r, "closed") /\ Quiet
\* The broker ends an order, of its own or because it had agreed to cancel it.
End(r) == IF broker[r].state = "partial" THEN "stub" ELSE "canceled"
BrokerEnds(r) ==
  /\ broker[r].state \in Waiting
  /\ \/ Become(r, End(r))
     \/ broker[r].state = "working" /\ Become(r, "rejected")
  /\ Quiet

\* What a look-up of the order may answer.
Reports(r) ==
  LET b == broker[r].state
      Answer(statuses, filled, exit, linked) ==
        {[status |-> s, filled |-> filled, exit |-> exit, linked |-> linked] : s \in statuses} IN
  CASE b = "working"  -> Answer({"new"} \cup Unlisted, FALSE, "none", TRUE)
    [] b = "partial"  -> Answer({"partially_filled"}, TRUE, "none", TRUE)
    [] b \in {"held", "closing"} -> Answer({"filled"}, TRUE, "none", TRUE)
    [] b = "closed"   -> Answer({"filled"}, TRUE, "none", FALSE)
    [] b \in {"win", "loss"} -> Answer({"filled"}, TRUE, b, FALSE)
    [] b = "stub"     -> Answer({"canceled"}, TRUE, "none", FALSE)
    [] b = "canceled" -> Answer({"canceled"}, FALSE, "none", FALSE)
    [] b = "rejected" -> Answer({"rejected"}, FALSE, "none", FALSE)
    [] OTHER -> {}

----------------------------------------------------------------------------
(* Rows and positions out of a report.                                     *)

\* Mutant of DeriveStatus: exit orders are not looked at.
DeriveStatusOfEntry(reply) == IF reply.status = "filled" THEN "open" ELSE reply.status

\* An exit order that is filled decides; a filled entry is "open".
DeriveStatus(reply) ==
  IF reply.exit # "none" THEN reply.exit
  ELSE IF reply.status = "filled" THEN "open" ELSE reply.status

\* Mutants of DerivePosition: a filled entry without exit orders counts as stopped
\* out; exit orders are not looked at.
DerivePositionByLegs(reply) ==
  LET stopped == reply.filled /\ ~reply.linked IN
  [status |-> IF stopped THEN "loss" ELSE IF reply.filled THEN "open" ELSE "submitted",
   linked |-> reply.linked]
DerivePositionByEntry(reply) ==
  [status |-> IF reply.filled THEN "open" ELSE "submitted", linked |-> reply.linked]

\* Anything filled makes an open position of the whole quantity, before a
\* cancellation is looked at.
DerivePosition(reply) ==
  LET status ==
        CASE reply.exit # "none" -> reply.exit
          [] reply.exit = "none" /\ reply.filled -> "open"
          [] reply.exit = "none" /\ ~reply.filled /\ reply.status = "canceled" -> "canceled"
          [] reply.exit = "none" /\ ~reply.filled /\ reply.status = "rejected" -> "error"
          [] OTHER -> "submitted" IN
  [status |-> status, linked |-> reply.linked]

\* The rows the order sync refreshes.
Synced(r) == row[r].status \in Listed /\ row[r].bid /\ row[r].acct \in Enabled

----------------------------------------------------------------------------
(* Operations.  Begin reads the row and checks it; then the broker is      *)
(* asked; then the row and the position are written.                       *)

Begin(s, op, r, stop, tp) ==
  call' = [call EXCEPT ![s] = [op |-> op, at |-> "ask", row |-> r, read |-> row[r],
                               stop |-> stop, tp |-> tp, reply |-> NoReply]]
\* A close names the ticker, no row.
BeginClose(s) == call' = [call EXCEPT ![s] = [Idle EXCEPT !.op = "close", !.at = "ask"]]
Rest(s) == call' = [call EXCEPT ![s] = Idle]

MayRefresh(r) == row[r].bid
MayCancel(r) == row[r].bid /\ row[r].status \notin {"canceled", "win", "loss"}
MayAmend(r) == row[r].bid /\ row[r].status \notin {"canceled", "rejected", "failed"}

\* The answer came: the row is next.  Another operation that holds an answer
\* about the same row may write its position after this one, or before.
Answered(s, r, reply) ==
  /\ call' = [call EXCEPT ![s].at = "row", ![s].reply = reply]
  /\ torn' = IF \E t \in Session \ {s} : call[t].row = r /\ call[t].at \in {"row", "pos"}
             THEN torn \cup {r} ELSE torn
  /\ UNCHANGED <<row, pos, asked>>

\* An error: the operation is given up, and a sync notes the failure.
GivenUp(s) ==
  /\ Rest(s)
  /\ pass' = IF pass[s].at = "sync" THEN [pass EXCEPT ![s].ok = FALSE] ELSE pass
  /\ UNCHANGED <<row, pos, asked, torn>>

Asking(s, op) == call[s].at = "ask" /\ call[s].op = op

AskRefresh(s) ==
  /\ Asking(s, "refresh")
  /\ UNCHANGED <<broker, astray>>
  /\ \/ GivenUp(s)
     \/ /\ \E reply \in Reports(call[s].row) : Answered(s, call[s].row, reply)
        /\ UNCHANGED pass

\* The broker refuses what it has filled or ended.  It may agree and still fill
\* the order before it ends it, and its answer may be lost.
AskCancel(s) ==
  LET r == call[s].row
      agreed == [NoReply EXCEPT !.status = "canceled"] IN
  /\ Asking(s, "cancel")
  /\ UNCHANGED astray
  /\ \/ GivenUp(s) /\ UNCHANGED broker
     \/ /\ broker[r].state \in Waiting
        /\ \/ GivenUp(s) /\ Become(r, End(r))
           \/ /\ Answered(s, r, agreed)
              /\ UNCHANGED pass
              /\ Become(r, End(r)) \/ UNCHANGED broker

\* Mutant of Amended: a level that is not asked for goes back to the plan's.
AmendedWhole(r, stop, tp) ==
  broker' = [broker EXCEPT ![r].stop = IF stop = NoLevel THEN Stop0 ELSE stop,
                           ![r].tp = IF tp = NoLevel THEN Tp0 ELSE tp]

\* Exit levels of the broker's order change as asked.
Amended(r, stop, tp) ==
  broker' = [broker EXCEPT ![r].stop = IF stop = NoLevel THEN @ ELSE stop,
                           ![r].tp = IF tp = NoLevel THEN @ ELSE tp]
AskAmend(s) ==
  LET r == call[s].row IN
  /\ Asking(s, "amend")
  /\ \/ GivenUp(s) /\ UNCHANGED <<broker, astray>>
     \/ /\ broker[r].state \in {"working", "partial", "held"}
        /\ Amended(r, call[s].stop, call[s].tp)
        /\ \/ GivenUp(s) /\ astray' = astray \cup {r}
           \/ /\ \E reply \in Reports(r) : Answered(s, r, reply)
              /\ UNCHANGED <<pass, astray>>

\* A close goes by ticker: the broker sells what it holds.  An accepted answer
\* marks the newest position that is submitted or open.
Closable == {r \in Row : pos[r].status \in {"submitted", "open"}}
AskClose(s) ==
  /\ Asking(s, "close")
  /\ UNCHANGED <<row, pass, asked, history>>
  /\ Rest(s)
  /\ \/ UNCHANGED <<broker, pos>>
     \/ \E r \in Row :
          /\ broker[r].state \in {"held", "stub", "closing"}
          /\ Become(r, "closing")
          /\ \/ UNCHANGED pos
             \/ /\ Closable = {} /\ UNCHANGED pos
             \/ \E newest \in Closable :
                  /\ \A other \in Closable : other <= newest
                  /\ pos' = [pos EXCEPT ![newest].status = "closing"]

\* A resubmission creates its row after the broker was asked, and as failed
\* whatever error came back.
AskSubmit(s) ==
  LET r == call[s].row
      placed == [state |-> "working", stop |-> call[s].read.stop, tp |-> call[s].read.tp] IN
  /\ Asking(s, "submit")
  /\ UNCHANGED <<pass, astray>>
  /\ \/ /\ broker' = [broker EXCEPT ![r] = placed]
        /\ \E reply \in {[NoReply EXCEPT !.status = status] :
                           status \in {"new", "failed"} \cup Unlisted} :
             Answered(s, r, reply)
     \/ /\ UNCHANGED broker
        /\ Answered(s, r, [NoReply EXCEPT !.status = "failed"])

\* The row an operation writes: every field comes from the copy it read, but
\* for what it is about.  A refresh and an amendment leave the account out.
Written(c) ==
  CASE c.op = "refresh" ->
         [c.read EXCEPT !.status = DeriveStatus(c.reply), !.acct = Default]
    [] c.op = "cancel" -> [c.read EXCEPT !.status = "canceled"]
    [] c.op = "amend" ->
         [c.read EXCEPT !.stop = IF c.stop = NoLevel THEN @ ELSE c.stop,
                        !.tp = IF c.tp = NoLevel THEN @ ELSE c.tp, !.acct = Default]
    [] c.op = "submit" ->
         [c.read EXCEPT !.status = c.reply.status, !.bid = c.reply.status # "failed"]

WriteRow(s) ==
  LET c == call[s]
      r == c.row IN
  /\ c.at = "row"
  /\ row' = [row EXCEPT ![r] = Written(c)]
  /\ astray' = IF c.op # "submit" /\ <<row[r].stop, row[r].tp>> # <<c.read.stop, c.read.tp>>
               THEN astray \cup {r} ELSE astray
  /\ IF Written(c).bid
     THEN call' = [call EXCEPT ![s] = [Idle EXCEPT !.op = c.op, !.at = "pos", !.row = r,
                                         !.reply = c.reply]]
     ELSE Rest(s)
  /\ UNCHANGED <<pos, broker, pass, asked, torn>>

WritePosition(s) ==
  LET r == call[s].row IN
  /\ call[s].at = "pos"
  /\ pos' = [pos EXCEPT ![r] = DerivePosition(call[s].reply)]
  /\ Rest(s)
  /\ UNCHANGED <<row, broker, pass, asked, history>>

Ask(s) ==
  \/ AskRefresh(s) \/ AskCancel(s) \/ AskAmend(s) \/ AskClose(s) \/ AskSubmit(s)

----------------------------------------------------------------------------
(* The operator.                                                           *)

Ready(s) == call[s].at = "idle"

Serves ==
  /\ Ready(Api) /\ pass[Api].at = "idle" /\ asked < MaxRequests
  /\ asked' = asked + 1

RequestRefresh(r) ==
  /\ Serves /\ MayRefresh(r)
  /\ Begin(Api, "refresh", r, NoLevel, NoLevel)
  /\ UNCHANGED <<row, pos, broker, pass, history>>

RequestCancel(r) ==
  /\ Serves /\ MayCancel(r)
  /\ Begin(Api, "cancel", r, NoLevel, NoLevel)
  /\ UNCHANGED <<row, pos, broker, pass, history>>

RequestClose ==
  /\ Serves /\ \E r \in Row : pos[r].status # "none"
  /\ BeginClose(Api)
  /\ UNCHANGED <<row, pos, broker, pass, history>>

\* Mutant of Exposure: the book alone.
ExposureOfBook == {r \in Row : pos[r].status \in {"submitted", "open", "closing"}}

\* The risk check before a resubmission: one position per ticker, and those of
\* the book, of the broker and its open orders all count.
Exposure ==
  {r \in Row : pos[r].status \in {"submitted", "open", "closing"}} \cup {r \in Row : Live(r)}
Allowed == Exposure = {}

\* The new row is the old one under another client id; the old one stays.
RequestResubmit(r, new) ==
  /\ Serves
  /\ row[r].status \in {"failed", "canceled"}
  /\ row[new].status = "none" /\ broker[new].state = "none"
  /\ \A other \in Row : other < new => row[other].status # "none" \/ broker[other].state # "none"
  /\ Allowed
  /\ call' = [call EXCEPT ![Api] = [Idle EXCEPT !.op = "submit", !.at = "ask", !.row = new,
                                      !.read = [row[r] EXCEPT !.bid = FALSE]]]
  /\ UNCHANGED <<row, pos, broker, pass, history>>

----------------------------------------------------------------------------
(* A steering pass: sync the rows, list the states, decide, act.           *)

ToSync == {r \in Row : Synced(r)}

\* The worker is given a pass again and again; the API process runs one on request.
BeginPass(s) ==
  /\ Ready(s) /\ pass[s].at = "idle"
  /\ IF s = Api THEN Serves ELSE UNCHANGED asked
  /\ pass' = [pass EXCEPT ![s] = [Resting EXCEPT !.at = "sync", !.todo = ToSync]]
  /\ UNCHANGED <<row, pos, broker, call, history>>

\* Newest first.
SyncNext(s) ==
  /\ Ready(s) /\ pass[s].at = "sync"
  /\ \E r \in pass[s].todo :
       /\ \A other \in pass[s].todo : other <= r
       /\ Begin(s, "refresh", r, NoLevel, NoLevel)
       /\ pass' = [pass EXCEPT ![s].todo = @ \ {r}]
  /\ UNCHANGED <<row, pos, broker, asked, history>>

\* One order and one position stand for the plan: the oldest of each.
Oldest(rows) == IF rows = {} THEN 0 ELSE CHOOSE r \in rows : \A q \in rows : r <= q
SteeredOrder == Oldest({r \in Row : row[r].status \in Listed})
SteeredPosition == Oldest({r \in Row : pos[r].status = "open"})

StateFor(order, position, price, evidence) ==
  [dir |-> "long", pending |-> order # 0 /\ position = 0, held |-> position # 0,
   price |-> price, entry |-> Entry, stop0 |-> Stop0,
   stop |-> IF order # 0 THEN row[order].stop ELSE Stop0,
   tp |-> IF order # 0 THEN row[order].tp ELSE Tp0,
   conf |-> evidence.conf, noAction |-> evidence.noAction, conflict |-> evidence.conflict,
   severe |-> evidence.severe, healthy |-> evidence.healthy, fresh |-> TRUE,
   linked |-> position # 0 => pos[position].linked,
   expired |-> evidence.expired, overdue |-> FALSE]

Amendments == {"tighten_stop_loss", "move_stop_to_breakeven_or_profit", "lower_take_profit"}
Mutations == Amendments \cup {"cancel_pending_order", "close_position_now"}

\* An amendment of the row has been decided on and not recorded.
Amending(s, r) ==
  \/ pass[s].at = "act" /\ pass[s].order = r /\ pass[s].decision.name \in Amendments
  \/ call[s].op = "amend" /\ call[s].row = r /\ call[s].at \in {"ask", "row"}

\* The decisions steering may come to, by what it sees apart from the book.
Choices(order, position) ==
  LET states == {StateFor(order, position, price, evidence) :
                   price \in Price, evidence \in Evidence} IN
  {Evaluate(state) : state \in states}

\* A failed refresh, nothing to steer and a decision that mutates nothing end the
\* pass.
ListStates(s) ==
  LET order == SteeredOrder
      position == SteeredPosition IN
  /\ Ready(s) /\ pass[s].at = "sync" /\ pass[s].todo = {}
  /\ IF ~pass[s].ok \/ (order = 0 /\ position = 0)
     THEN pass' = [pass EXCEPT ![s] = Resting] /\ UNCHANGED astray
     ELSE \E d \in Choices(order, position) :
            /\ pass' = [pass EXCEPT ![s] =
                 IF d.name \in Mutations
                 THEN [Resting EXCEPT !.at = "act", !.order = order, !.decision = d]
                 ELSE Resting]
            /\ astray' = IF /\ order # 0 /\ d.name \in Amendments
                            /\ \E t \in Session \ {s} : Amending(t, order)
                         THEN astray \cup {order} ELSE astray
  /\ UNCHANGED <<row, pos, broker, call, asked, torn>>

\* The decision is the one made when the states were listed: the operation reads
\* the row again and asks for the levels decided on then.
Act(s) ==
  LET d == pass[s].decision
      o == pass[s].order
      cancels == d.name = "cancel_pending_order" /\ o # 0 /\ MayCancel(o)
      amends == d.name \in Amendments /\ o # 0 /\ MayAmend(o)
      closes == d.name = "close_position_now" IN
  /\ Ready(s) /\ pass[s].at = "act"
  /\ pass' = [pass EXCEPT ![s] = Resting]
  /\ \/ cancels /\ Begin(s, "cancel", o, NoLevel, NoLevel)
     \/ amends /\ Begin(s, "amend", o, d.stop, d.tp)
     \/ closes /\ BeginClose(s)
     \/ ~(cancels \/ amends \/ closes) /\ UNCHANGED call
  /\ UNCHANGED <<row, pos, broker, asked, history>>

\* A process dies; what it had in hand is lost.
Crash(s) ==
  LET c == call[s] IN
  /\ c.at # "idle" \/ pass[s].at # "idle"
  /\ Rest(s)
  /\ pass' = [pass EXCEPT ![s] = Resting]
  /\ torn' = IF c.at = "pos" THEN torn \cup {c.row} ELSE torn
  /\ astray' = IF c.op = "amend" /\ c.at = "row" THEN astray \cup {c.row} ELSE astray
  /\ UNCHANGED <<row, pos, broker, asked>>

----------------------------------------------------------------------------

\* The order as a submission pass leaves it: accepted, with no position yet.
Init ==
  /\ row = [r \in Row |-> IF r = 1 THEN [status |-> "new", stop |-> Stop0, tp |-> Tp0,
                                         acct |-> Own, bid |-> TRUE] ELSE NoOrder]
  /\ pos = [r \in Row |-> NoPos]
  /\ broker = [r \in Row |-> [state |-> IF r = 1 THEN "working" ELSE "none",
                              stop |-> Stop0, tp |-> Tp0]]
  /\ call = [s \in Session |-> Idle]
  /\ pass = [s \in Session |-> Resting]
  /\ asked = 0
  /\ astray = {} /\ torn = {}

Broker == \E r \in Row : FillPart(r) \/ Fill(r) \/ Exit(r) \/ CloseFills(r) \/ BrokerEnds(r)
Operator ==
  \/ \E r \in Row : RequestRefresh(r) \/ RequestCancel(r)
  \/ \E r, new \in Row : RequestResubmit(r, new)
  \/ RequestClose
Steering(s) == BeginPass(s) \/ SyncNext(s) \/ ListStates(s) \/ Act(s)
Step(s) == Ask(s) \/ WriteRow(s) \/ WritePosition(s)

Next ==
  \/ Broker \/ Operator
  \/ \E s \in Session : Steering(s) \/ Step(s) \/ Crash(s)

Spec == Init /\ [][Next]_vars

\* The worker goes on, steering being due again and again.  Look-ups do not fail for
\* ever, and a worker that dies again and again still gets past each step of a sync
\* now and then.
Work == Steering(Worker) \/ Step(Worker)
LookUp == AskRefresh(Worker) /\ call'[Worker].at = "row"
FairSpec ==
  /\ Spec /\ WF_vars(Work)
  /\ SF_vars(SyncNext(Worker)) /\ SF_vars(LookUp) /\ SF_vars(WriteRow(Worker))
----------------------------------------------------------------------------
(* Properties.                                                             *)

\* Whatever writes overtake each other, a row or a position that says win, loss
\* or rejected says what became of the order: nothing that the broker still
\* works or holds is ever written off but as canceled or failed.
OutcomeIsTrue ==
  \A r \in Row :
    /\ row[r].status \in {"win", "loss", "rejected"} => broker[r].state = row[r].status
    /\ pos[r].status \in {"win", "loss"} => broker[r].state = pos[r].status
    /\ pos[r].status = "error" => broker[r].state = "rejected"

\* When a row says how its trade ended and nothing is in hand, its position says
\* the same, unless two operations held answers about the row at a time or one
\* died between its two writes: row and position are committed separately, and
\* a settled row is not refreshed again.
SettledTogether ==
  \A r \in Row \ torn :
    /\ row[r].status \in {"win", "loss"}
    /\ \A s \in Session : call[s].row # r
    => pos[r].status = row[r].status

\* Steering only makes an order safer: it never lowers the broker's stop nor
\* raises its take-profit, unless an older copy of the row was written over the
\* levels, an accepted amendment was not recorded, or a second pass decided on an
\* amendment before the first one's was recorded.  A pass that decides after the
\* other has recorded never undoes what it did.
NeverLoosened ==
  [][\A r \in Row \ astray :
       broker[r].state # "none" =>
         broker'[r].stop >= broker[r].stop /\ broker'[r].tp <= broker[r].tp]_vars

\* However orders are canceled, lost and resubmitted, the broker never has two of
\* the plan's orders or positions at a time.
OneLive == Cardinality({r \in Row : Live(r)}) <= 1

\* As long as the worker goes on and look-ups succeed again and again, no exit that
\* the broker has filled stays unrecorded for ever while the sync lists its row:
\* every such row comes to rest as won or lost, or leaves the sync because a
\* look-up gave a status that is not listed or a cancellation was recorded over it.
Unrecorded == {r \in Row : broker[r].state \in {"win", "loss"} /\ Synced(r)}
ExitIsRecorded == []<>(Unrecorded = {})
=============================================================================
