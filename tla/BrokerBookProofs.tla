--------------------------- MODULE BrokerBookProofs ---------------------------
(***************************************************************************)
(* Theorems about BrokerBook, for any number of resubmissions, any levels, *)
(* prices, evidence and settings, any interleaving and any crashes.        *)
(***************************************************************************)
EXTENDS BrokerBook, WellFoundedInduction, FiniteSetTheorems, TLAPS

----------------------------------------------------------------------------
(* The invariant.                                                          *)

Level == Int \cup {NoLevel}
OrderStatus == Listed \cup Ended \cup Unlisted \cup {"none"}
OrderRow == [status : OrderStatus, stop : Level, tp : Level, acct : {Own, Default}, bid : BOOLEAN]
PosRow == [status : {"none", "submitted", "open", "closing", "win", "loss", "canceled", "error"},
           linked : BOOLEAN]
BrokerRow == [state : {"none", "working", "partial", "held", "closing", "stub", "closed",
                       "win", "loss", "canceled", "rejected"},
              stop : Int, tp : Int]
Reply == [status : {"none", "new", "partially_filled", "filled", "canceled", "rejected", "failed"}
                     \cup Unlisted,
          filled : BOOLEAN, exit : {"none", "win", "loss"}, linked : BOOLEAN]
Call == [op : {"none", "refresh", "cancel", "amend", "close", "submit"},
         at : {"idle", "ask", "row", "pos"}, row : 0..Rows, read : OrderRow,
         stop : Level, tp : Level, reply : Reply]
Decision == [name : Decisions \cup {"none"}, stop : Level, tp : Level]
Pass == [at : {"idle", "sync", "act"}, todo : SUBSET Row, ok : BOOLEAN,
         decision : Decision, order : 0..Rows]

\* The book and the broker's side have the shape the code gives them.
BookTypeOK ==
  /\ row \in [Row -> OrderRow] /\ pos \in [Row -> PosRow] /\ broker \in [Row -> BrokerRow]
  /\ call \in [Session -> Call] /\ pass \in [Session -> Pass]
  /\ asked \in Nat /\ astray \in SUBSET Row /\ torn \in SUBSET Row

Priced(o) == o.status # "none" /\ o.stop \in Int /\ o.tp \in Int
InHand(s) == call[s].at \in {"row", "pos"}
Reading(s) == call[s].at \in {"ask", "row"} /\ call[s].op \in {"refresh", "cancel", "amend"}
Submitting(s) == call[s].at \in {"ask", "row"} /\ call[s].op = "submit"

\* What an operation in hand knows of the row it is about.
CallKnows(s) ==
  /\ call[s].op = "submit" => s = Api
  /\ InHand(s) => /\ call[s].row \in Row
                  /\ call[s].op \in {"refresh", "cancel", "amend", "submit"}
                  /\ call[s].reply.status # "none"
                  /\ call[s].op = "submit" => call[s].reply.status \in {"new", "failed"} \cup Unlisted
  /\ call[s].at = "pos" => row[call[s].row].bid
  /\ Reading(s) => /\ call[s].row \in Row /\ row[call[s].row].bid
                   /\ call[s].read.bid /\ Priced(call[s].read)
  /\ Submitting(s) => /\ call[s].row \in Row /\ row[call[s].row].status = "none"
                      /\ Priced(call[s].read) /\ ~call[s].read.bid
                      /\ call[s].read.status \in {"failed", "canceled"}
RowsKnow == \A r \in Row : row[r].status # "none" \/ row[r].bid => Priced(row[r])
PassKnows(s) ==
  /\ \A r \in pass[s].todo : row[r].bid
  /\ pass[s].at = "act" => /\ call[s].at = "idle"
                           /\ pass[s].order # 0 => Priced(row[pass[s].order])
CallsKnow == RowsKnow /\ \A s \in Session : PassKnows(s) /\ CallKnows(s)

\* A submission under way finds no order of the plan alive at the broker.
SubmitsAlone ==
  /\ OneLive
  /\ \A s \in Session : Submitting(s) /\ call[s].at = "ask" =>
       broker[call[s].row].state = "none" /\ \A r \in Row : ~Live(r)

\* What was read or answered of an ended trade is true.
AnswersAreTrue ==
  \A s \in Session :
    /\ Reading(s) /\ call[s].read.status \in {"win", "loss", "rejected"} =>
         broker[call[s].row].state = call[s].read.status
    /\ InHand(s) => /\ call[s].reply.exit # "none" =>
                         broker[call[s].row].state = call[s].reply.exit
                    /\ call[s].reply.status = "rejected" =>
                         broker[call[s].row].state = "rejected"

\* The levels of a row are the broker's, or what they will be when the
\* amendment in hand is written.
Asked(c) == [stop |-> IF c.stop = NoLevel THEN c.read.stop ELSE c.stop,
              tp |-> IF c.tp = NoLevel THEN c.read.tp ELSE c.tp]
AmendInHand(s, r) == call[s].op = "amend" /\ call[s].at = "row" /\ call[s].row = r
RowAgrees(r) ==
  row[r].bid /\ (\A s \in Session : ~AmendInHand(s, r)) =>
    broker[r].stop = row[r].stop /\ broker[r].tp = row[r].tp
CallAgrees(s, r) ==
  /\ row[r].bid /\ AmendInHand(s, r) =>
       broker[r].stop = Asked(call[s]).stop /\ broker[r].tp = Asked(call[s]).tp
  /\ Reading(s) /\ call[s].op = "amend" /\ call[s].row = r =>
       call[s].read.stop = row[r].stop /\ call[s].read.tp = row[r].tp
  /\ Submitting(s) /\ call[s].at = "row" /\ call[s].row = r /\ call[s].reply.status # "failed" =>
       broker[r].stop = call[s].read.stop /\ broker[r].tp = call[s].read.tp
LevelsAgree == \A r \in Row \ astray : RowAgrees(r) /\ \A s \in Session : CallAgrees(s, r)

\* Passes have amendments of a row that is not astray in hand one at a time.
AmendsAlone ==
  \A r \in Row \ astray : \A s, t \in Session : Amending(s, r) /\ Amending(t, r) => s = t

\* The levels decided on are safer than the row's.
Safer(o, stop, tp) ==
  /\ stop # NoLevel => stop > o.stop
  /\ tp # NoLevel => tp < o.tp
DecisionsSafer ==
  \A s \in Session :
    /\ /\ pass[s].at = "act" /\ pass[s].decision.name \in Amendments
       /\ pass[s].order # 0 /\ pass[s].order \notin astray
       => Safer(row[pass[s].order], pass[s].decision.stop, pass[s].decision.tp)
    /\ call[s].op = "amend" /\ call[s].at = "ask" /\ call[s].row \notin astray =>
         Safer(row[call[s].row], call[s].stop, call[s].tp)

\* Answers about a row that was not torn come one at a time, and once the row
\* has settled they all say the same.
OneAnswer ==
  \A r \in Row \ torn :
    /\ \A s, t \in Session : InHand(s) /\ InHand(t) /\ call[s].row = r /\ call[t].row = r => s = t
    /\ row[r].status \in {"win", "loss"} =>
         /\ \/ pos[r].status = row[r].status
            \/ \E s \in Session : call[s].at = "pos" /\ call[s].row = r
         /\ \A s \in Session : InHand(s) /\ call[s].row = r => call[s].reply.exit = row[r].status

\* An amendment is accepted for a trade that has not ended.
AmendsUnsettled ==
  \A s \in Session :
    call[s].op = "amend" /\ call[s].at = "row" => call[s].read.status \notin {"win", "loss"}

IInv ==
  /\ BookTypeOK /\ CallsKnow /\ SubmitsAlone /\ OutcomeIsTrue /\ AnswersAreTrue
  /\ LevelsAgree /\ AmendsAlone /\ DecisionsSafer /\ OneAnswer /\ AmendsUnsettled

----------------------------------------------------------------------------
(* Operators.                                                              *)

\* Induction over the naturals, as the existence of a least element.
LEMMA LeastOf ==
  ASSUME NEW S \in SUBSET Nat, S # {}
  PROVE  \E m \in S : \A n \in S : m <= n
<1> DEFINE Upto(m) == S \cap (0..m)
           All == {Upto(m) : m \in S}
<1>1. All \subseteq FiniteSubsetsOf(Nat) /\ All # {}
  <2>1. \A m \in S : IsFiniteSet(Upto(m)) /\ Upto(m) \subseteq Nat
    <3> TAKE m \in S
    <3>1. IsFiniteSet(0..m)
      BY FS_Interval
    <3> QED
      BY <3>1, FS_Subset
  <2> QED
    BY <2>1 DEF FiniteSubsetsOf
<1>2. PICK X \in All : \A Y \in All : ~(<<Y, X>> \in StrictSubsetOrdering(Nat))
  <2> HIDE DEF All
  <2> QED
    BY <1>1, FS_StrictSubsetOrderingWellFounded, WFMin
<1>3. PICK m \in S : X = Upto(m)
  BY <1>2
<1>4. ASSUME NEW n \in S, n < m PROVE FALSE
  <2>1. Upto(n) \in All /\ Upto(n) \subseteq Upto(m) /\ Upto(n) # Upto(m)
    BY <1>4
  <2> QED
    BY <1>2, <1>3, <2>1 DEF StrictSubsetOrdering
<1> QED
  BY <1>4

LEMMA OldestIn ==
  ASSUME NEW rows \in SUBSET Row
  PROVE  IF rows = {} THEN Oldest(rows) = 0 ELSE Oldest(rows) \in rows
<1>1. CASE rows # {}
  <2>1. \E r \in rows : \A q \in rows : r <= q
    BY <1>1, LeastOf DEF Row
  <2> QED
    BY <1>1, <2>1 DEF Oldest
<1> QED
  BY <1>1 DEF Oldest

LEMMA NoLevelIsNoInt == NoLevel \notin Int
BY RulesAssumption

LEMMA LevelsInt ==
  /\ \A x \in {Trigger, Lock, Cushion, TpCushion, MinTpGap, Chase} : x \in Nat \ {0}
  /\ Entry \in Int /\ Stop0 \in Int /\ Tp0 \in Int /\ Price \subseteq Int
BY RulesAssumption, BookAssumption

\* Levels that steering proposes for a long position lie on the safe side of those
\* it saw.
LEMMA ProposalsSafer ==
  ASSUME NEW s, s.dir = "long", s.stop \in Int, s.stop0 \in Int, s.tp \in Int,
         s.entry \in Int, s.price \in Int
  PROVE  /\ ProfitLockStop(s) # NoLevel => ProfitLockStop(s) \in Int /\ ProfitLockStop(s) > s.stop
         /\ TightenedStop(s) # NoLevel => TightenedStop(s) \in Int /\ TightenedStop(s) > s.stop
         /\ LoweredTakeProfit(s) # NoLevel => LoweredTakeProfit(s) \in Int /\ LoweredTakeProfit(s) < s.tp
<1>1. Baseline(s) \in Int /\ Baseline(s) >= s.stop
  BY DEF Baseline, Tighter, Ahead
<1>2. ProfitLockStop(s) # NoLevel => ProfitLockStop(s) \in Int /\ ProfitLockStop(s) > s.stop
  BY <1>1, LevelsInt DEF ProfitLockStop, Shift, Ahead
<1>3. TightenedStop(s) # NoLevel => TightenedStop(s) \in Int /\ TightenedStop(s) > s.stop
  BY <1>1, LevelsInt DEF TightenedStop, Shift, Ahead
<1>4. LoweredTakeProfit(s) # NoLevel => LoweredTakeProfit(s) \in Int /\ LoweredTakeProfit(s) < s.tp
  BY LevelsInt DEF LoweredTakeProfit, Shift, Ahead
<1> QED
  BY <1>2, <1>3, <1>4

LEMMA EvaluateSafer ==
  ASSUME NEW s, s.dir = "long", s.stop \in Int, s.stop0 \in Int, s.tp \in Int,
         s.entry \in Int, s.price \in Int
  PROVE  Evaluate(s) \in Decision /\ Safer(s, Evaluate(s).stop, Evaluate(s).tp)
<1>1. ASSUME NEW name \in Decisions
      PROVE  Decide(name) \in Decision /\ Decide(name).stop = NoLevel /\ Decide(name).tp = NoLevel
  BY <1>1 DEF Decide, Decision, Level
<1>2. EvaluatePending(s) \in Decision /\ Safer(s, EvaluatePending(s).stop, EvaluatePending(s).tp)
  BY <1>1 DEF EvaluatePending, Safer, Decisions
<1>3. EvaluateFilled(s) \in Decision /\ Safer(s, EvaluateFilled(s).stop, EvaluateFilled(s).tp)
  <2> DEFINE d == EvaluateFilled(s)
  <2>1. \/ \E name \in Decisions : d = Decide(name)
        \/ /\ ProfitLockStop(s) # NoLevel
           /\ d = [Decide("move_stop_to_breakeven_or_profit") EXCEPT !.stop = ProfitLockStop(s)]
        \/ /\ TightenedStop(s) # NoLevel
           /\ d = [Decide("tighten_stop_loss") EXCEPT !.stop = TightenedStop(s)]
        \/ /\ LoweredTakeProfit(s) # NoLevel
           /\ d = [Decide("lower_take_profit") EXCEPT !.tp = LoweredTakeProfit(s)]
    BY DEF EvaluateFilled, Decisions
  <2> HIDE DEF d
  <2>2. ASSUME NEW name \in Decisions, d = Decide(name)
        PROVE  d \in Decision /\ Safer(s, d.stop, d.tp)
    BY <2>2, <1>1 DEF Safer
  <2>3. ASSUME NEW name \in Decisions, NEW level \in Int, level > s.stop,
               d = [Decide(name) EXCEPT !.stop = level]
        PROVE  d \in Decision /\ Safer(s, d.stop, d.tp)
    <3>1. d = [name |-> name, stop |-> level, tp |-> NoLevel]
      BY <2>3 DEF Decide
    <3>2. d \in Decision
      <4>1. level \in Level /\ NoLevel \in Level
        BY DEF Level
      <4> QED
        BY <3>1, <4>1 DEF Decision
    <3>3. d.stop = level /\ d.tp = NoLevel
      BY <3>1
    <3> QED
      BY <2>3, <3>2, <3>3 DEF Safer
  <2>4. ASSUME NEW name \in Decisions, NEW level \in Int, level < s.tp,
               d = [Decide(name) EXCEPT !.tp = level]
        PROVE  d \in Decision /\ Safer(s, d.stop, d.tp)
    <3>1. d = [name |-> name, stop |-> NoLevel, tp |-> level]
      BY <2>4 DEF Decide
    <3>2. d \in Decision
      <4>1. level \in Level /\ NoLevel \in Level
        BY DEF Level
      <4> QED
        BY <3>1, <4>1 DEF Decision
    <3>3. d.stop = NoLevel /\ d.tp = level
      BY <3>1
    <3> QED
      BY <2>4, <3>2, <3>3 DEF Safer
  <2>5. {"move_stop_to_breakeven_or_profit", "tighten_stop_loss", "lower_take_profit"} \subseteq Decisions
    BY DEF Decisions
  <2>6. d \in Decision /\ Safer(s, d.stop, d.tp)
    BY <2>1, <2>2, <2>3, <2>4, <2>5, ProposalsSafer
  <2> QED
    BY <2>6 DEF d
<1>4. Decide("manual_review_required") \in Decision
      /\ Safer(s, Decide("manual_review_required").stop, Decide("manual_review_required").tp)
  BY <1>1 DEF Safer, Decisions
<1> QED
  BY <1>2, <1>3, <1>4 DEF Evaluate

LEMMA StateForFields ==
  ASSUME NEW order, NEW position, NEW price, NEW evidence
  PROVE  LET s == StateFor(order, position, price, evidence) IN
         /\ s.dir = "long" /\ s.price = price /\ s.entry = Entry /\ s.stop0 = Stop0
         /\ s.stop = IF order # 0 THEN row[order].stop ELSE Stop0
         /\ s.tp = IF order # 0 THEN row[order].tp ELSE Tp0
BY DEF StateFor
----------------------------------------------------------------------------
(* Records in hand have the shape they are used in.                        *)

LEMMA ConstantsTyped ==
  /\ NoLevel \in Level /\ Int \subseteq Level
  /\ NoOrder \in OrderRow /\ NoPos \in PosRow /\ NoReply \in Reply
  /\ Idle \in Call /\ Resting \in Pass /\ 0 \in 0..Rows
  /\ Worker \in Session /\ Api \in Session /\ Row \subseteq 0..Rows /\ 0 \notin Row
<1>1. NoLevel \in Level /\ Int \subseteq Level
  BY DEF Level
<1>2. NoOrder \in OrderRow /\ NoPos \in PosRow /\ NoReply \in Reply
  BY <1>1 DEF NoOrder, OrderRow, OrderStatus, NoPos, PosRow, NoReply, Reply
<1>3. 0 \in 0..Rows /\ Row \subseteq 0..Rows /\ 0 \notin Row
  BY BookAssumption DEF Row
<1>4. Idle \in Call
  BY <1>1, <1>2, <1>3 DEF Idle, Call
<1>5. Resting \in Pass
  <2>1. Decide("none") \in Decision
    BY <1>1 DEF Decide, Decision
  <2> QED
    BY <1>3, <2>1 DEF Resting, Pass
<1> QED
  BY <1>1, <1>2, <1>3, <1>4, <1>5 DEF Session

\* What a look-up answers of a row is true of the broker.
LEMMA ReportsTrue ==
  ASSUME NEW r \in Row, broker[r] \in BrokerRow, NEW reply \in Reports(r)
  PROVE  /\ reply \in Reply /\ reply.status # "none"
         /\ reply.exit # "none" => broker[r].state = reply.exit
         /\ reply.status = "rejected" => broker[r].state = "rejected"
         /\ broker[r].state \in {"win", "loss"} => reply.exit = broker[r].state
<1>1. broker[r].state \in {"none", "working", "partial", "held", "closing", "stub", "closed",
                           "win", "loss", "canceled", "rejected"}
  BY DEF BrokerRow
<1>2. Unlisted \subseteq {"pending_new"}
  BY BookAssumption
<1> DEFINE Is(st, f, e, l) == reply = [status |-> st, filled |-> f, exit |-> e, linked |-> l]
<1>3. CASE broker[r].state = "working"
  <2>1. \E st \in {"new"} \cup Unlisted : Is(st, FALSE, "none", TRUE)
    BY <1>3 DEF Reports
  <2> QED
    BY <1>2, <1>3, <2>1 DEF Reply
<1>4. CASE broker[r].state \in {"partial", "held", "closing", "closed", "stub", "canceled"}
  <2>1. \E st \in {"partially_filled", "filled", "canceled"}, f, l \in BOOLEAN : Is(st, f, "none", l)
    BY <1>4 DEF Reports
  <2> QED
    BY <1>4, <2>1 DEF Reply
<1>5. CASE broker[r].state \in {"win", "loss"}
  <2>1. Is("filled", TRUE, broker[r].state, FALSE)
    BY <1>5 DEF Reports
  <2> QED
    BY <1>5, <2>1 DEF Reply
<1>6. CASE broker[r].state = "rejected"
  <2>1. Is("rejected", FALSE, "none", FALSE)
    BY <1>6 DEF Reports
  <2> QED
    BY <1>6, <2>1 DEF Reply
<1>7. broker[r].state # "none"
  BY DEF Reports
<1> QED
  BY <1>1, <1>3, <1>4, <1>5, <1>6, <1>7

LEMMA DerivePositionTyped ==
  ASSUME NEW reply \in Reply
  PROVE  /\ DerivePosition(reply) \in PosRow
         /\ reply.exit # "none" => DerivePosition(reply).status = reply.exit
         /\ DerivePosition(reply).status \in {"win", "loss"} => reply.exit = DerivePosition(reply).status
         /\ DerivePosition(reply).status = "error" => reply.status = "rejected"
BY DEF DerivePosition, Reply, PosRow

LEMMA DeriveStatusTyped ==
  ASSUME NEW reply \in Reply, reply.status # "none"
  PROVE  /\ DeriveStatus(reply) \in OrderStatus \ {"none"}
         /\ DeriveStatus(reply) \in {"win", "loss"} => reply.exit = DeriveStatus(reply)
         /\ DeriveStatus(reply) = "rejected" => reply.status = "rejected"
BY BookAssumption DEF DeriveStatus, Reply, OrderStatus, Listed, Ended

----------------------------------------------------------------------------
(* Type correctness.                                                       *)

\* A call whose fields move on stays a call.
LEMMA CallKept ==
  ASSUME NEW c \in Call, NEW reply \in Reply
  PROVE  /\ [c EXCEPT !.at = "row", !.reply = reply] \in Call
         /\ c.reply \in Reply /\ c.read \in OrderRow /\ c.stop \in Level /\ c.tp \in Level
BY DEF Call

LEMMA BeginTyped ==
  ASSUME BookTypeOK, NEW s \in Session, NEW op \in {"refresh", "cancel", "amend"},
         NEW r \in Row, NEW stop \in Level, NEW tp \in Level, Begin(s, op, r, stop, tp)
  PROVE  call' \in [Session -> Call]
<1>1. [op |-> op, at |-> "ask", row |-> r, read |-> row[r], stop |-> stop, tp |-> tp,
       reply |-> NoReply] \in Call
  BY ConstantsTyped DEF Call, BookTypeOK
<1> QED
  BY <1>1 DEF Begin, BookTypeOK

LEMMA BeginCloseTyped ==
  ASSUME BookTypeOK, NEW s \in Session, BeginClose(s)
  PROVE  call' \in [Session -> Call]
<1>1. [Idle EXCEPT !.op = "close", !.at = "ask"] \in Call
  BY ConstantsTyped DEF Call
<1> QED
  BY <1>1 DEF BeginClose, BookTypeOK

LEMMA RestTyped ==
  ASSUME BookTypeOK, NEW s \in Session, Rest(s)
  PROVE  call' \in [Session -> Call]
BY ConstantsTyped DEF Rest, BookTypeOK

LEMMA AnsweredTyped ==
  ASSUME BookTypeOK, NEW s \in Session, NEW r \in Row, NEW reply \in Reply, Answered(s, r, reply)
  PROVE  /\ call' \in [Session -> Call] /\ torn' \in SUBSET Row
         /\ UNCHANGED <<row, pos, asked>>
<1>1. [call[s] EXCEPT !.at = "row", !.reply = reply] \in Call
  BY CallKept DEF BookTypeOK
<1>2. call' = [call EXCEPT ![s] = [call[s] EXCEPT !.at = "row", !.reply = reply]]
  BY DEF Answered, BookTypeOK
<1> QED
  BY <1>1, <1>2 DEF Answered, BookTypeOK

LEMMA GivenUpTyped ==
  ASSUME BookTypeOK, NEW s \in Session, GivenUp(s)
  PROVE  /\ call' \in [Session -> Call] /\ pass' \in [Session -> Pass]
         /\ UNCHANGED <<row, pos, asked, torn>>
<1>1. [pass EXCEPT ![s].ok = FALSE] \in [Session -> Pass]
  BY DEF BookTypeOK, Pass
<1> QED
  BY <1>1, RestTyped DEF GivenUp, BookTypeOK

LEMMA BecomeTyped ==
  ASSUME BookTypeOK, NEW r \in Row,
         NEW state \in {"working", "partial", "held", "closing", "stub", "closed",
                        "win", "loss", "canceled", "rejected"},
         Become(r, state)
  PROVE  broker' \in [Row -> BrokerRow]
<1>1. [broker[r] EXCEPT !.state = state] \in BrokerRow
  BY DEF BookTypeOK, BrokerRow
<1>2. broker' = [broker EXCEPT ![r] = [broker[r] EXCEPT !.state = state]]
  BY DEF Become, BookTypeOK
<1> QED
  BY <1>1, <1>2 DEF BookTypeOK

LEMMA EndTyped ==
  ASSUME NEW r PROVE End(r) \in {"stub", "canceled"}
BY DEF End

LEMMA BrokerTyped ==
  ASSUME BookTypeOK, Broker
  PROVE  BookTypeOK'
<1>1. broker' \in [Row -> BrokerRow]
  BY BecomeTyped, EndTyped DEF Broker, FillPart, Fill, Exit, CloseFills, BrokerEnds
<1>2. UNCHANGED <<row, pos, call, pass, asked, history>>
  BY DEF Broker, FillPart, Fill, Exit, CloseFills, BrokerEnds, Quiet
<1> QED
  BY <1>1, <1>2 DEF BookTypeOK, history

\* A call that asks about a row, does.
LEMMA AskingRow ==
  ASSUME BookTypeOK, CallsKnow, NEW s \in Session, NEW op \in {"refresh", "cancel", "amend", "submit"},
         Asking(s, op)
  PROVE  call[s].row \in Row
BY DEF Asking, CallsKnow, CallKnows, Reading, Submitting

LEMMA AskRefreshTyped ==
  ASSUME BookTypeOK, CallsKnow, NEW s \in Session, AskRefresh(s)
  PROVE  BookTypeOK'
<1>1. CASE GivenUp(s)
  BY <1>1, GivenUpTyped DEF AskRefresh, BookTypeOK
<1>2. ASSUME NEW reply \in Reports(call[s].row), Answered(s, call[s].row, reply), UNCHANGED pass
      PROVE  BookTypeOK'
  <2>1. call[s].row \in Row
    BY AskingRow DEF AskRefresh
  <2>2. reply \in Reply
    BY <2>1, ReportsTrue DEF BookTypeOK
  <2> QED
    BY <1>2, <2>1, <2>2, AnsweredTyped DEF AskRefresh, BookTypeOK
<1> QED
  BY <1>1, <1>2 DEF AskRefresh

LEMMA AskCancelTyped ==
  ASSUME BookTypeOK, CallsKnow, NEW s \in Session, AskCancel(s)
  PROVE  BookTypeOK'
<1>1. call[s].row \in Row
  BY AskingRow DEF AskCancel
<1>2. [NoReply EXCEPT !.status = "canceled"] \in Reply
  BY ConstantsTyped DEF Reply
<1>3. broker' \in [Row -> BrokerRow]
  BY <1>1, BecomeTyped, EndTyped DEF AskCancel, BookTypeOK
<1>4. GivenUp(s) \/ (Answered(s, call[s].row, [NoReply EXCEPT !.status = "canceled"]) /\ UNCHANGED pass)
  BY DEF AskCancel
<1>5. UNCHANGED astray
  BY DEF AskCancel
<1> QED
  BY <1>1, <1>2, <1>3, <1>4, <1>5, GivenUpTyped, AnsweredTyped DEF BookTypeOK

LEMMA AmendedTyped ==
  ASSUME BookTypeOK, NEW r \in Row, NEW stop \in Level, NEW tp \in Level, Amended(r, stop, tp)
  PROVE  broker' \in [Row -> BrokerRow]
<1> DEFINE b == [broker[r] EXCEPT !.stop = IF stop = NoLevel THEN @ ELSE stop,
                                  !.tp = IF tp = NoLevel THEN @ ELSE tp]
<1>1. (stop # NoLevel => stop \in Int) /\ (tp # NoLevel => tp \in Int)
  BY DEF Level
<1>2. b \in BrokerRow
  BY <1>1 DEF BookTypeOK, BrokerRow
<1>3. broker' = [broker EXCEPT ![r] = b]
  BY DEF Amended, BookTypeOK
<1> QED
  BY <1>2, <1>3 DEF BookTypeOK

LEMMA AskAmendTyped ==
  ASSUME BookTypeOK, CallsKnow, NEW s \in Session, AskAmend(s)
  PROVE  BookTypeOK'
<1>1. call[s].row \in Row /\ call[s].stop \in Level /\ call[s].tp \in Level
  BY AskingRow DEF AskAmend, BookTypeOK, Call
<1>2. broker' \in [Row -> BrokerRow] /\ astray' \in SUBSET Row
  BY <1>1, AmendedTyped DEF AskAmend, BookTypeOK
<1>3. \/ GivenUp(s)
      \/ \E reply \in Reports(call[s].row) : Answered(s, call[s].row, reply) /\ UNCHANGED pass
  BY DEF AskAmend
<1>4. \A reply \in Reports(call[s].row) : reply \in Reply
  BY <1>1, ReportsTrue DEF BookTypeOK
<1> QED
  BY <1>1, <1>2, <1>3, <1>4, GivenUpTyped, AnsweredTyped DEF BookTypeOK

LEMMA AskCloseTyped ==
  ASSUME BookTypeOK, NEW s \in Session, AskClose(s)
  PROVE  BookTypeOK'
<1>1. broker' \in [Row -> BrokerRow]
  BY BecomeTyped DEF AskClose, BookTypeOK
<1>2. pos' \in [Row -> PosRow]
  <2>1. ASSUME NEW r \in Closable, pos' = [pos EXCEPT ![r].status = "closing"]
        PROVE  pos' \in [Row -> PosRow]
    <3>1. r \in Row /\ [pos[r] EXCEPT !.status = "closing"] \in PosRow
      BY DEF Closable, BookTypeOK, PosRow
    <3>2. pos' = [pos EXCEPT ![r] = [pos[r] EXCEPT !.status = "closing"]]
      BY <2>1 DEF BookTypeOK
    <3> QED
      BY <3>1, <3>2 DEF BookTypeOK
  <2> QED
    BY <2>1 DEF AskClose, BookTypeOK
<1> QED
  BY <1>1, <1>2, RestTyped DEF AskClose, BookTypeOK, history

LEMMA AskSubmitTyped ==
  ASSUME BookTypeOK, CallsKnow, NEW s \in Session, AskSubmit(s)
  PROVE  BookTypeOK'
<1>1. call[s].row \in Row /\ Priced(call[s].read)
  BY DEF AskSubmit, Asking, CallsKnow, CallKnows, Submitting
<1>2. broker' \in [Row -> BrokerRow]
  <2>1. [state |-> "working", stop |-> call[s].read.stop, tp |-> call[s].read.tp] \in BrokerRow
    BY <1>1 DEF Priced, BrokerRow
  <2> QED
    BY <1>1, <2>1 DEF AskSubmit, BookTypeOK
<1>3. \A status \in {"new", "failed"} \cup Unlisted : [NoReply EXCEPT !.status = status] \in Reply
  BY ConstantsTyped DEF Reply
<1>4. \E status \in {"new", "failed"} \cup Unlisted :
        Answered(s, call[s].row, [NoReply EXCEPT !.status = status])
  BY DEF AskSubmit
<1>5. UNCHANGED <<pass, astray>>
  BY DEF AskSubmit
<1> QED
  BY <1>1, <1>2, <1>3, <1>4, <1>5, AnsweredTyped DEF BookTypeOK

\* What an operation writes is an order row with a status and levels.
LEMMA WrittenTyped ==
  ASSUME BookTypeOK, CallsKnow, NEW s \in Session, call[s].at = "row"
  PROVE  /\ call[s].row \in Row
         /\ Written(call[s]) \in OrderRow /\ Priced(Written(call[s]))
<1> DEFINE c == call[s]
<1>1. c \in Call /\ c.read \in OrderRow /\ c.reply \in Reply /\ c.stop \in Level /\ c.tp \in Level
  BY DEF BookTypeOK, Call
<1>2. /\ c.row \in Row /\ c.op \in {"refresh", "cancel", "amend", "submit"}
      /\ c.reply.status # "none" /\ Priced(c.read)
      /\ c.op = "submit" => c.reply.status \in {"new", "failed"} \cup Unlisted
  BY DEF CallsKnow, CallKnows, InHand, Reading, Submitting
<1>3. c.read.status \in OrderStatus /\ c.read.stop \in Level /\ c.read.tp \in Level
  BY <1>1 DEF OrderRow
<1>4. "canceled" \in OrderStatus /\ "canceled" # "none" /\ Default \in {Own, Default}
  BY DEF OrderStatus, Ended
<1> SUFFICES c.row \in Row /\ Written(c) \in OrderRow /\ Priced(Written(c))
  OBVIOUS
<1> HIDE DEF c
<1>5. CASE c.op = "refresh"
  <2>1. DeriveStatus(c.reply) \in OrderStatus /\ DeriveStatus(c.reply) # "none"
    BY <1>1, <1>2, DeriveStatusTyped
  <2>2. Written(c) = [c.read EXCEPT !.status = DeriveStatus(c.reply), !.acct = Default]
    BY <1>5 DEF Written
  <2>3. Written(c) \in OrderRow
    BY <1>1, <1>3, <1>4, <2>1, <2>2 DEF OrderRow
  <2> QED
    BY <1>1, <1>2, <2>1, <2>2, <2>3 DEF OrderRow, Priced
<1>6. CASE c.op = "cancel"
  <2>1. Written(c) = [c.read EXCEPT !.status = "canceled"]
    BY <1>6 DEF Written
  <2>2. Written(c) \in OrderRow
    BY <1>1, <1>3, <1>4, <2>1 DEF OrderRow
  <2> QED
    BY <1>1, <1>2, <2>1, <2>2 DEF OrderRow, Priced
<1>7. CASE c.op = "amend"
  <2> DEFINE stop == IF c.stop = NoLevel THEN c.read.stop ELSE c.stop
             tp == IF c.tp = NoLevel THEN c.read.tp ELSE c.tp
  <2>1. Written(c) = [c.read EXCEPT !.stop = stop, !.tp = tp, !.acct = Default]
    BY <1>1, <1>7 DEF Written, OrderRow
  <2>2. stop \in Int /\ tp \in Int /\ stop \in Level /\ tp \in Level
    BY <1>1, <1>2 DEF Priced, Level
  <2> HIDE DEF stop, tp
  <2>3. Written(c) \in OrderRow
    BY <1>1, <1>3, <1>4, <2>1, <2>2 DEF OrderRow
  <2> QED
    BY <1>1, <1>2, <2>1, <2>2, <2>3 DEF OrderRow, Priced
<1>8. CASE c.op = "submit"
  <2>1. Written(c) = [c.read EXCEPT !.status = c.reply.status, !.bid = c.reply.status # "failed"]
    BY <1>8 DEF Written
  <2>2. c.reply.status \in OrderStatus /\ c.reply.status # "none" /\ (c.reply.status # "failed") \in BOOLEAN
    BY <1>2, <1>8 DEF OrderStatus, Listed, Ended
  <2>3. Written(c) \in OrderRow
    BY <1>1, <1>3, <2>1, <2>2 DEF OrderRow
  <2> QED
    BY <1>1, <1>2, <2>1, <2>2, <2>3 DEF OrderRow, Priced
<1> QED
  BY <1>2, <1>5, <1>6, <1>7, <1>8

LEMMA WriteRowTyped ==
  ASSUME BookTypeOK, CallsKnow, NEW s \in Session, WriteRow(s)
  PROVE  BookTypeOK'
<1>1. call[s].row \in Row /\ Written(call[s]) \in OrderRow
  BY WrittenTyped DEF WriteRow
<1>2. row' \in [Row -> OrderRow] /\ astray' \in SUBSET Row
  BY <1>1 DEF WriteRow, BookTypeOK
<1>3. call' \in [Session -> Call]
  <2> DEFINE next == [Idle EXCEPT !.op = call[s].op, !.at = "pos", !.row = call[s].row,
                                  !.reply = call[s].reply]
  <2>1. next \in Call
    BY ConstantsTyped DEF BookTypeOK, Call
  <2>2. Rest(s) \/ call' = [call EXCEPT ![s] = next]
    BY DEF WriteRow
  <2> QED
    BY <2>1, <2>2, RestTyped DEF BookTypeOK
<1> QED
  BY <1>2, <1>3 DEF WriteRow, BookTypeOK

LEMMA WritePositionTyped ==
  ASSUME BookTypeOK, CallsKnow, NEW s \in Session, WritePosition(s)
  PROVE  BookTypeOK'
<1>1. call[s].row \in Row
  BY DEF WritePosition, CallsKnow, CallKnows, InHand
<1>2. DerivePosition(call[s].reply) \in PosRow
  BY DerivePositionTyped DEF BookTypeOK, Call
<1>3. pos' \in [Row -> PosRow]
  BY <1>1, <1>2 DEF WritePosition, BookTypeOK
<1> QED
  BY <1>3, RestTyped DEF WritePosition, BookTypeOK, history

LEMMA OperatorTyped ==
  ASSUME BookTypeOK, CallsKnow, Operator
  PROVE  BookTypeOK'
<1>1. ASSUME NEW r \in Row, RequestRefresh(r) PROVE BookTypeOK'
  <2>1. call' \in [Session -> Call]
    BY <1>1, BeginTyped, ConstantsTyped DEF RequestRefresh
  <2> QED
    BY <1>1, <2>1 DEF RequestRefresh, Serves, BookTypeOK, history
<1>2. ASSUME NEW r \in Row, RequestCancel(r) PROVE BookTypeOK'
  <2>1. call' \in [Session -> Call]
    BY <1>2, BeginTyped, ConstantsTyped DEF RequestCancel
  <2> QED
    BY <1>2, <2>1 DEF RequestCancel, Serves, BookTypeOK, history
<1>3. CASE RequestClose
  <2>1. call' \in [Session -> Call]
    BY <1>3, BeginCloseTyped, ConstantsTyped DEF RequestClose
  <2> QED
    BY <1>3, <2>1 DEF RequestClose, Serves, BookTypeOK, history
<1>4. ASSUME NEW r \in Row, NEW new \in Row, RequestResubmit(r, new) PROVE BookTypeOK'
  <2>1. [row[r] EXCEPT !.bid = FALSE] \in OrderRow
    BY DEF BookTypeOK, OrderRow
  <2>2. [Idle EXCEPT !.op = "submit", !.at = "ask", !.row = new,
                     !.read = [row[r] EXCEPT !.bid = FALSE]] \in Call
    BY <2>1, ConstantsTyped DEF Call
  <2>3. call' \in [Session -> Call]
    BY <1>4, <2>2 DEF RequestResubmit, BookTypeOK
  <2> QED
    BY <1>4, <2>3 DEF RequestResubmit, Serves, BookTypeOK, history
<1> QED
  BY <1>1, <1>2, <1>3, <1>4 DEF Operator

\* A pass that is about to act has decided on levels safer than those of the order
\* it saw, and the row is astray if another pass has an amendment of it in hand.
LEMMA ListStatesDecides ==
  ASSUME BookTypeOK, CallsKnow, NEW s \in Session, ListStates(s)
  PROVE  \/ pass' = [pass EXCEPT ![s] = Resting] /\ UNCHANGED astray
         \/ \E d \in Decision, o \in {0} \cup Row :
              /\ pass' = [pass EXCEPT ![s] =
                            [Resting EXCEPT !.at = "act", !.order = o, !.decision = d]]
              /\ o # 0 => Priced(row[o]) /\ Safer(row[o], d.stop, d.tp)
              /\ astray' = IF /\ o # 0 /\ d.name \in Amendments
                              /\ \E t \in Session \ {s} : Amending(t, o)
                           THEN astray \cup {o} ELSE astray
<1> DEFINE o == SteeredOrder
           st(price, evidence) == StateFor(o, SteeredPosition, price, evidence)
<1>1. o \in {0} \cup Row /\ (o # 0 => row[o].status \in Listed)
  BY OldestIn DEF SteeredOrder
<1>2. o # 0 => Priced(row[o])
  BY <1>1 DEF CallsKnow, RowsKnow, Listed
<1>3. ASSUME NEW price \in Price, NEW evidence \in Evidence
      PROVE  /\ Evaluate(st(price, evidence)) \in Decision
             /\ o # 0 => Safer(row[o], Evaluate(st(price, evidence)).stop, Evaluate(st(price, evidence)).tp)
  <2> DEFINE state == st(price, evidence)
  <2>1. /\ state.dir = "long" /\ state.price = price /\ state.entry = Entry /\ state.stop0 = Stop0
        /\ state.stop = IF o # 0 THEN row[o].stop ELSE Stop0
        /\ state.tp = IF o # 0 THEN row[o].tp ELSE Tp0
    BY StateForFields
  <2> HIDE DEF state
  <2>2. state.stop \in Int /\ state.tp \in Int /\ state.price \in Int /\ state.entry \in Int /\ state.stop0 \in Int
    BY <1>2, <2>1, LevelsInt DEF Priced
  <2>3. Evaluate(state) \in Decision /\ Safer(state, Evaluate(state).stop, Evaluate(state).tp)
    BY <2>1, <2>2, EvaluateSafer
  <2>4. o # 0 => Safer(row[o], Evaluate(state).stop, Evaluate(state).tp)
    BY <2>1, <2>3 DEF Safer
  <2> QED
    BY <2>3, <2>4 DEF state
<1>4. ASSUME NEW d \in Choices(o, SteeredPosition)
      PROVE  d \in Decision /\ (o # 0 => Safer(row[o], d.stop, d.tp))
  <2>1. PICK price \in Price, evidence \in Evidence : d = Evaluate(st(price, evidence))
    BY DEF Choices
  <2> HIDE DEF st, o
  <2> QED
    BY <1>3, <2>1
<1>5. \/ pass' = [pass EXCEPT ![s] = Resting] /\ UNCHANGED astray
      \/ \E d \in Choices(o, SteeredPosition) :
            /\ pass' = [pass EXCEPT ![s] =
                 IF d.name \in Mutations
                 THEN [Resting EXCEPT !.at = "act", !.order = o, !.decision = d]
                 ELSE Resting]
            /\ astray' = IF /\ o # 0 /\ d.name \in Amendments
                            /\ \E t \in Session \ {s} : Amending(t, o)
                         THEN astray \cup {o} ELSE astray
  BY DEF ListStates
<1>6. Amendments \subseteq Mutations
  BY DEF Mutations
<1> HIDE DEF st, o
<1> QED
  BY <1>1, <1>2, <1>4, <1>5, <1>6

LEMMA SteeringTyped ==
  ASSUME BookTypeOK, CallsKnow, NEW s \in Session, Steering(s)
  PROVE  BookTypeOK'
<1>1. CASE BeginPass(s)
  <2>1. [Resting EXCEPT !.at = "sync", !.todo = ToSync] \in Pass
    BY ConstantsTyped DEF Pass, ToSync
  <2>2. pass' \in [Session -> Pass] /\ asked' \in Nat
    BY <1>1, <2>1 DEF BeginPass, Serves, BookTypeOK
  <2> QED
    BY <1>1, <2>2 DEF BeginPass, BookTypeOK, history
<1>2. CASE SyncNext(s)
  <2>1. PICK r \in pass[s].todo : /\ Begin(s, "refresh", r, NoLevel, NoLevel)
                                  /\ pass' = [pass EXCEPT ![s].todo = @ \ {r}]
    BY <1>2 DEF SyncNext
  <2>2. r \in Row /\ pass' \in [Session -> Pass]
    BY <2>1 DEF BookTypeOK, Pass
  <2>3. call' \in [Session -> Call]
    BY <2>1, <2>2, BeginTyped, ConstantsTyped
  <2> QED
    BY <1>2, <2>2, <2>3 DEF SyncNext, BookTypeOK, history
<1>3. CASE ListStates(s)
  <2>1. pass' \in [Session -> Pass] /\ astray' \in SUBSET Row
    <3>1. ASSUME NEW d \in Decision, NEW o \in {0} \cup Row,
                 pass' = [pass EXCEPT ![s] =
                            [Resting EXCEPT !.at = "act", !.order = o, !.decision = d]],
                 astray' = IF /\ o # 0 /\ d.name \in Amendments
                              /\ \E t \in Session \ {s} : Amending(t, o)
                           THEN astray \cup {o} ELSE astray
          PROVE  pass' \in [Session -> Pass] /\ astray' \in SUBSET Row
      <4>1. [Resting EXCEPT !.at = "act", !.order = o, !.decision = d] \in Pass
        BY ConstantsTyped DEF Pass
      <4> QED
        BY <3>1, <4>1 DEF BookTypeOK
    <3>2. pass' = [pass EXCEPT ![s] = Resting] => pass' \in [Session -> Pass]
      BY ConstantsTyped DEF BookTypeOK
    <3>3. astray \in SUBSET Row
      BY DEF BookTypeOK
    <3> QED
      BY <1>3, <3>1, <3>2, <3>3, ListStatesDecides
  <2> QED
    BY <1>3, <2>1 DEF ListStates, BookTypeOK
<1>4. CASE Act(s)
  <2>1. pass[s].decision \in Decision /\ pass[s].order \in 0..Rows
    BY DEF BookTypeOK, Pass
  <2>2. pass[s].decision.stop \in Level /\ pass[s].decision.tp \in Level
    BY <2>1 DEF Decision
  <2>3. pass[s].order # 0 => pass[s].order \in Row
    BY <2>1, BookAssumption DEF Row
  <2>4. \/ pass[s].order # 0 /\ Begin(s, "cancel", pass[s].order, NoLevel, NoLevel)
        \/ /\ pass[s].order # 0
           /\ Begin(s, "amend", pass[s].order, pass[s].decision.stop, pass[s].decision.tp)
        \/ BeginClose(s) \/ UNCHANGED call
    BY <1>4 DEF Act
  <2>5. call' \in [Session -> Call]
    BY <2>2, <2>3, <2>4, BeginTyped, BeginCloseTyped, ConstantsTyped DEF BookTypeOK
  <2> QED
    BY <1>4, <2>5, ConstantsTyped DEF Act, BookTypeOK, history
<1> QED
  BY <1>1, <1>2, <1>3, <1>4 DEF Steering

LEMMA CrashTyped ==
  ASSUME BookTypeOK, CallsKnow, NEW s \in Session, Crash(s)
  PROVE  BookTypeOK'
<1>1. call' \in [Session -> Call] /\ pass' \in [Session -> Pass]
  BY RestTyped, ConstantsTyped DEF Crash, BookTypeOK
<1>2. InHand(s) => call[s].row \in Row
  BY DEF CallsKnow, CallKnows
<1>3. astray' \in SUBSET Row /\ torn' \in SUBSET Row
  BY <1>2 DEF Crash, BookTypeOK, InHand
<1> QED
  BY <1>1, <1>3 DEF Crash, BookTypeOK

LEMMA StepTyped ==
  ASSUME BookTypeOK, CallsKnow, [Next]_vars
  PROVE  BookTypeOK'
<1>1. ASSUME NEW s \in Session, Step(s) PROVE BookTypeOK'
  BY <1>1, AskRefreshTyped, AskCancelTyped, AskAmendTyped, AskCloseTyped, AskSubmitTyped,
     WriteRowTyped, WritePositionTyped DEF Step, Ask
<1>2. CASE UNCHANGED vars
  BY <1>2 DEF vars, history, BookTypeOK
<1> QED
  BY <1>1, <1>2, BrokerTyped, OperatorTyped, SteeringTyped, CrashTyped DEF Next

----------------------------------------------------------------------------
(* What operations in hand know.                                           *)

\* A step that writes no row and touches one process leaves all that is known but
\* for that process's call and pass.
LEMMA OthersKnow ==
  ASSUME BookTypeOK, CallsKnow, UNCHANGED row, NEW s \in Session,
         \A t \in Session : t # s => call'[t] = call[t],
         \A t \in Session : t # s => pass'[t] = pass[t],
         CallKnows(s)', PassKnows(s)'
  PROVE  CallsKnow'
<1>1. RowsKnow'
  BY DEF CallsKnow, RowsKnow, Priced
<1>2. ASSUME NEW t \in Session, t # s PROVE CallKnows(t)'
  <2>1. CallKnows(t) /\ call'[t] = call[t]
    BY <1>2 DEF CallsKnow
  <2> QED
    BY <2>1 DEF CallKnows, InHand, Reading, Submitting, Priced
<1>3. ASSUME NEW t \in Session, t # s PROVE PassKnows(t)'
  <2>1. PassKnows(t) /\ call'[t] = call[t] /\ pass'[t] = pass[t]
    BY <1>3 DEF CallsKnow
  <2> QED
    BY <2>1 DEF PassKnows, Priced
<1> QED
  BY <1>1, <1>2, <1>3 DEF CallsKnow

LEMMA RestKnows ==
  ASSUME BookTypeOK, NEW s \in Session, Rest(s)
  PROVE  /\ CallKnows(s)' /\ call'[s] = Idle
         /\ \A t \in Session : t # s => call'[t] = call[t]
<1>1. call'[s] = Idle /\ \A t \in Session : t # s => call'[t] = call[t]
  BY DEF Rest, BookTypeOK
<1> QED
  BY <1>1 DEF CallKnows, InHand, Reading, Submitting, Idle

LEMMA AnsweredKnows ==
  ASSUME BookTypeOK, CallsKnow, UNCHANGED row, NEW s \in Session, NEW reply \in Reply, reply.status # "none",
         call[s].at = "ask", call[s].op \in {"refresh", "cancel", "amend", "submit"},
         call[s].op = "submit" => reply.status \in {"new", "failed"} \cup Unlisted,
         Answered(s, call[s].row, reply)
  PROVE  /\ CallKnows(s)'
         /\ call'[s] = [call[s] EXCEPT !.at = "row", !.reply = reply]
         /\ \A t \in Session : t # s => call'[t] = call[t]
<1>1. /\ call'[s] = [call[s] EXCEPT !.at = "row", !.reply = reply]
      /\ \A t \in Session : t # s => call'[t] = call[t]
  BY DEF Answered, BookTypeOK
<1>2. CallKnows(s) /\ call[s] \in Call
  BY DEF CallsKnow, BookTypeOK
<1>3. /\ call'[s].at = "row" /\ call'[s].reply = reply /\ call'[s].op = call[s].op
      /\ call'[s].row = call[s].row /\ call'[s].read = call[s].read
  BY <1>1, <1>2 DEF Call
<1> QED
  BY <1>1, <1>2, <1>3 DEF CallKnows, InHand, Reading, Submitting, Priced

LEMMA BeginKnows ==
  ASSUME BookTypeOK, CallsKnow, UNCHANGED row, NEW s \in Session, NEW op \in {"refresh", "cancel", "amend"},
         NEW r \in Row, NEW stop, NEW tp, Begin(s, op, r, stop, tp), row[r].bid
  PROVE  /\ CallKnows(s)'
         /\ \A t \in Session : t # s => call'[t] = call[t]
<1>1. /\ call'[s].at = "ask" /\ call'[s].op = op /\ call'[s].row = r /\ call'[s].read = row[r]
      /\ \A t \in Session : t # s => call'[t] = call[t]
  BY DEF Begin, BookTypeOK
<1>2. Priced(row[r])
  BY DEF CallsKnow, RowsKnow
<1> QED
  BY <1>1, <1>2 DEF CallKnows, InHand, Reading, Submitting, Priced

LEMMA BeginCloseKnows ==
  ASSUME BookTypeOK, NEW s \in Session, BeginClose(s)
  PROVE  /\ CallKnows(s)'
         /\ \A t \in Session : t # s => call'[t] = call[t]
<1>1. /\ call'[s].at = "ask" /\ call'[s].op = "close"
      /\ \A t \in Session : t # s => call'[t] = call[t]
  BY DEF BeginClose, BookTypeOK, Idle
<1> QED
  BY <1>1 DEF CallKnows, InHand, Reading, Submitting

\* A pass that rests knows nothing; one that goes on knows what it knew.
LEMMA PassStillKnows ==
  ASSUME BookTypeOK, CallsKnow, UNCHANGED row, NEW s \in Session,
         \/ pass' = [pass EXCEPT ![s] = Resting]
         \/ /\ pass' = pass \/ pass' = [pass EXCEPT ![s].ok = FALSE]
            /\ call'[s] = call[s] \/ call[s].at # "idle" \/ pass[s].at # "act"
  PROVE  /\ PassKnows(s)'
         /\ \A t \in Session : t # s => pass'[t] = pass[t]
<1>1. CASE pass' = [pass EXCEPT ![s] = Resting]
  <2>1. pass'[s] = Resting /\ \A t \in Session : t # s => pass'[t] = pass[t]
    BY <1>1 DEF BookTypeOK
  <2> QED
    BY <2>1 DEF PassKnows, Resting
<1>2. CASE /\ pass' = pass \/ pass' = [pass EXCEPT ![s].ok = FALSE]
           /\ call'[s] = call[s] \/ call[s].at # "idle" \/ pass[s].at # "act"
  <2>1. /\ pass'[s].todo = pass[s].todo /\ pass'[s].at = pass[s].at
        /\ pass'[s].order = pass[s].order
        /\ \A t \in Session : t # s => pass'[t] = pass[t]
    BY <1>2 DEF BookTypeOK, Pass
  <2>2. PassKnows(s)
    BY DEF CallsKnow
  <2> QED
    BY <1>2, <2>1, <2>2 DEF PassKnows, Priced
<1> QED
  BY <1>1, <1>2

LEMMA GivenUpKnows ==
  ASSUME BookTypeOK, CallsKnow, NEW s \in Session, call[s].at # "idle", GivenUp(s)
  PROVE  CallsKnow'
<1>1. UNCHANGED row /\ Rest(s)
  BY DEF GivenUp
<1>2. pass' = pass \/ pass' = [pass EXCEPT ![s].ok = FALSE]
  BY DEF GivenUp
<1>3. PassKnows(s)' /\ \A t \in Session : t # s => pass'[t] = pass[t]
  BY <1>1, <1>2, PassStillKnows
<1> QED
  BY <1>1, <1>3, RestKnows, OthersKnow

LEMMA AskKnows ==
  ASSUME BookTypeOK, CallsKnow, NEW s \in Session, Ask(s)
  PROVE  CallsKnow'
<1>1. CASE GivenUp(s)
  BY <1>1, GivenUpKnows DEF Ask, AskRefresh, AskCancel, AskAmend, AskClose, AskSubmit, Asking
<1>2. ASSUME NEW reply \in Reply, reply.status # "none",
             call[s].at = "ask", call[s].op \in {"refresh", "cancel", "amend", "submit"},
             call[s].op = "submit" => reply.status \in {"new", "failed"} \cup Unlisted,
             Answered(s, call[s].row, reply), UNCHANGED pass
      PROVE  CallsKnow'
  <2>1. UNCHANGED row
    BY <1>2 DEF Answered
  <2>2. /\ CallKnows(s)'
        /\ \A t \in Session : t # s => call'[t] = call[t]
    BY <1>2, <2>1, AnsweredKnows
  <2>3. PassKnows(s)' /\ \A t \in Session : t # s => pass'[t] = pass[t]
    BY <1>2, <2>1, PassStillKnows
  <2> QED
    BY <2>1, <2>2, <2>3, OthersKnow
<1>3. ASSUME NEW reply \in Reports(call[s].row), call[s].row \in Row
      PROVE  reply \in Reply /\ reply.status # "none"
  BY <1>3, ReportsTrue DEF BookTypeOK
<1>4. CASE AskRefresh(s)
  BY <1>1, <1>2, <1>3, <1>4, AskingRow DEF AskRefresh, Asking
<1>5. CASE AskCancel(s)
  <2>1. [NoReply EXCEPT !.status = "canceled"] \in Reply /\ [NoReply EXCEPT !.status = "canceled"].status = "canceled"
    BY DEF NoReply, Reply
  <2> QED
    BY <1>1, <1>2, <1>5, <2>1 DEF AskCancel, Asking
<1>6. CASE AskAmend(s)
  BY <1>1, <1>2, <1>3, <1>6, AskingRow DEF AskAmend, Asking
<1>7. CASE AskSubmit(s)
  <2>1. \A status \in {"new", "failed"} \cup Unlisted :
          /\ [NoReply EXCEPT !.status = status] \in Reply
          /\ [NoReply EXCEPT !.status = status].status = status /\ status # "none"
    BY BookAssumption DEF NoReply, Reply
  <2>2. PICK status \in {"new", "failed"} \cup Unlisted :
          Answered(s, call[s].row, [NoReply EXCEPT !.status = status])
    BY <1>7 DEF AskSubmit
  <2>3. UNCHANGED pass /\ call[s].at = "ask" /\ call[s].op = "submit"
    BY <1>7 DEF AskSubmit, Asking
  <2> QED
    BY <1>2, <2>1, <2>2, <2>3
<1>8. CASE AskClose(s)
  <2>1. Rest(s) /\ UNCHANGED <<row, pass>> /\ call[s].at = "ask"
    BY <1>8 DEF AskClose, Asking
  <2>2. PassKnows(s)' /\ \A t \in Session : t # s => pass'[t] = pass[t]
    BY <2>1, PassStillKnows
  <2> QED
    BY <2>1, <2>2, RestKnows, OthersKnow
<1> QED
  BY <1>4, <1>5, <1>6, <1>7, <1>8 DEF Ask

\* A row that is written keeps its broker id and has levels.
LEMMA WrittenKnows ==
  ASSUME BookTypeOK, CallsKnow, NEW s \in Session, WriteRow(s)
  PROVE  /\ RowsKnow' /\ call[s].row \in Row
         /\ row' = [row EXCEPT ![call[s].row] = Written(call[s])]
         /\ \A q \in Row : /\ row[q].bid => row'[q].bid
                           /\ Priced(row[q]) => Priced(row'[q])
                           /\ q # call[s].row => row'[q] = row[q]
<1> DEFINE c == call[s]
           r == call[s].row
<1>1. r \in Row /\ Written(c) \in OrderRow /\ Priced(Written(c))
  BY WrittenTyped DEF WriteRow
<1>2. row' = [row EXCEPT ![r] = Written(c)]
  BY DEF WriteRow
<1>3. row'[r] = Written(c) /\ \A q \in Row : q # r => row'[q] = row[q]
  BY <1>1, <1>2 DEF BookTypeOK
<1>4. row[r].bid => Written(c).bid
  <2> SUFFICES ASSUME row[r].bid PROVE Written(c).bid
    OBVIOUS
  <2>1. row[r].status # "none"
    BY <1>1 DEF CallsKnow, RowsKnow, Priced
  <2>2. c.op \in {"refresh", "cancel", "amend"} /\ c.read.bid /\ c.read \in OrderRow
    BY <2>1 DEF WriteRow, CallsKnow, CallKnows, InHand, Reading, Submitting, BookTypeOK, Call
  <2> QED
    BY <2>2 DEF Written, OrderRow
<1> QED
  BY <1>1, <1>2, <1>3, <1>4 DEF CallsKnow, RowsKnow, Priced

LEMMA WriteRowKnows ==
  ASSUME BookTypeOK, CallsKnow, NEW s \in Session, WriteRow(s)
  PROVE  CallsKnow'
<1> DEFINE r == call[s].row
           next == [Idle EXCEPT !.op = call[s].op, !.at = "pos", !.row = r, !.reply = call[s].reply]
<1>1. /\ RowsKnow' /\ r \in Row
      /\ \A q \in Row : /\ row[q].bid => row'[q].bid
                        /\ Priced(row[q]) => Priced(row'[q])
                        /\ q # r => row'[q] = row[q]
  BY WrittenKnows
<1>2. /\ call'[s] = IF Written(call[s]).bid THEN next ELSE Idle
      /\ \A t \in Session : t # s => call'[t] = call[t]
      /\ row'[r] = Written(call[s]) /\ UNCHANGED pass /\ call[s].at = "row"
  BY <1>1, RestKnows DEF WriteRow, BookTypeOK
<1>3. ASSUME NEW t \in Session PROVE PassKnows(t)'
  <2>1. pass[t].todo \subseteq Row /\ (pass[t].order # 0 => pass[t].order \in Row)
    BY BookAssumption DEF BookTypeOK, Pass, Row
  <2>2. PassKnows(t) /\ pass'[t] = pass[t]
    BY <1>2 DEF CallsKnow
  <2>3. pass[t].at = "act" => call'[t] = call[t]
    BY <1>2, <2>2 DEF PassKnows
  <2> QED
    BY <1>1, <2>1, <2>2, <2>3 DEF PassKnows
<1>4. CallKnows(s)'
  <2>1. CASE Written(call[s]).bid
    <3>1. /\ call'[s].op = call[s].op /\ call'[s].at = "pos" /\ call'[s].row = r
          /\ call'[s].reply = call[s].reply
      BY <1>2, <2>1 DEF Idle
    <3> QED
      BY <1>1, <1>2, <2>1, <3>1 DEF CallsKnow, CallKnows, InHand, Reading, Submitting
  <2>2. CASE ~Written(call[s]).bid
    BY <1>2, <2>2 DEF CallKnows, InHand, Reading, Submitting, Idle
  <2> QED
    BY <2>1, <2>2
<1>5. ASSUME NEW t \in Session, t # s PROVE CallKnows(t)'
  <2>1. CallKnows(t) /\ CallKnows(s) /\ call'[t] = call[t]
    BY <1>2, <1>5 DEF CallsKnow
  <2>2. Submitting(t) => call[t].row # r
    <3>1. Submitting(t) => call[s].op # "submit"
      BY <2>1, <1>5 DEF CallKnows, Submitting
    <3>2. call[s].op # "submit" => row[r].bid
      BY <1>2, <2>1 DEF CallKnows, InHand, Reading
    <3>3. row[r].bid => row[r].status # "none"
      BY <1>1 DEF CallsKnow, RowsKnow, Priced
    <3> QED
      BY <2>1, <3>1, <3>2, <3>3 DEF CallKnows
  <2> QED
    BY <1>1, <2>1, <2>2 DEF CallKnows, InHand, Reading, Submitting, Priced
<1> QED
  BY <1>1, <1>3, <1>4, <1>5 DEF CallsKnow

LEMMA WritePositionKnows ==
  ASSUME BookTypeOK, CallsKnow, NEW s \in Session, WritePosition(s)
  PROVE  CallsKnow'
<1>1. Rest(s) /\ UNCHANGED <<row, pass>> /\ call[s].at = "pos"
  BY DEF WritePosition
<1>2. PassKnows(s)' /\ \A t \in Session : t # s => pass'[t] = pass[t]
  BY <1>1, PassStillKnows
<1> QED
  BY <1>1, <1>2, RestKnows, OthersKnow

LEMMA OperatorKnows ==
  ASSUME BookTypeOK, CallsKnow, Operator
  PROVE  CallsKnow'
<1>1. UNCHANGED <<row, pass>>
  BY DEF Operator, RequestRefresh, RequestCancel, RequestClose, RequestResubmit
<1>2. CallKnows(Api)' /\ \A t \in Session : t # Api => call'[t] = call[t]
  <2>1. ASSUME NEW r \in Row, RequestRefresh(r) \/ RequestCancel(r)
        PROVE  CallKnows(Api)' /\ \A t \in Session : t # Api => call'[t] = call[t]
    <3>1. row[r].bid /\ \E op \in {"refresh", "cancel"} : Begin(Api, op, r, NoLevel, NoLevel)
      BY <2>1 DEF RequestRefresh, RequestCancel, MayRefresh, MayCancel
    <3> QED
      BY <1>1, <3>1, BeginKnows, ConstantsTyped
  <2>2. CASE RequestClose
    BY <2>2, BeginCloseKnows, ConstantsTyped DEF RequestClose
  <2>3. ASSUME NEW r \in Row, NEW new \in Row, RequestResubmit(r, new)
        PROVE  CallKnows(Api)' /\ \A t \in Session : t # Api => call'[t] = call[t]
    <3>1. /\ call'[Api] = [Idle EXCEPT !.op = "submit", !.at = "ask", !.row = new,
                                       !.read = [row[r] EXCEPT !.bid = FALSE]]
          /\ \A t \in Session : t # Api => call'[t] = call[t]
      BY <2>3, ConstantsTyped DEF RequestResubmit, BookTypeOK
    <3>2. /\ row[new].status = "none" /\ row[r].status \in {"failed", "canceled"}
          /\ row[r] \in OrderRow /\ Priced(row[r])
      BY <2>3 DEF RequestResubmit, BookTypeOK, CallsKnow, RowsKnow
    <3>3. /\ call'[Api].op = "submit" /\ call'[Api].at = "ask" /\ call'[Api].row = new
          /\ call'[Api].read = [row[r] EXCEPT !.bid = FALSE]
      BY <3>1 DEF Idle
    <3>4. /\ Priced(call'[Api].read) /\ ~call'[Api].read.bid
          /\ call'[Api].read.status \in {"failed", "canceled"}
      BY <3>2, <3>3 DEF OrderRow, Priced
    <3> QED
      BY <1>1, <3>1, <3>2, <3>3, <3>4 DEF CallKnows, InHand, Reading, Submitting, Priced
  <2> QED
    BY <2>1, <2>2, <2>3 DEF Operator
<1>3. PassKnows(Api)' /\ \A t \in Session : t # Api => pass'[t] = pass[t]
  <2>1. pass[Api].at # "act"
    BY DEF Operator, RequestRefresh, RequestCancel, RequestClose, RequestResubmit, Serves
  <2> QED
    BY <1>1, <2>1, PassStillKnows, ConstantsTyped
<1> QED
  BY <1>1, <1>2, <1>3, OthersKnow, ConstantsTyped

LEMMA SteeringKnows ==
  ASSUME BookTypeOK, CallsKnow, NEW s \in Session, Steering(s)
  PROVE  CallsKnow'
<1>1. UNCHANGED row
  BY DEF Steering, BeginPass, SyncNext, ListStates, Act
<1>2. ASSUME UNCHANGED call, PassKnows(s)',
             \A t \in Session : t # s => pass'[t] = pass[t]
      PROVE  CallsKnow'
  <2>1. CallKnows(s)'
    BY <1>1, <1>2 DEF CallsKnow, CallKnows, InHand, Reading, Submitting, Priced
  <2> QED
    BY <1>1, <1>2, <2>1, OthersKnow
<1>3. CASE BeginPass(s)
  <2>1. /\ pass'[s] = [Resting EXCEPT !.at = "sync", !.todo = ToSync]
        /\ \A t \in Session : t # s => pass'[t] = pass[t]
    BY <1>3 DEF BeginPass, BookTypeOK
  <2>2. pass'[s].todo = ToSync /\ pass'[s].at = "sync"
    BY <2>1 DEF Resting
  <2>3. PassKnows(s)' /\ UNCHANGED call
    BY <1>1, <1>3, <2>2 DEF PassKnows, ToSync, Synced, BeginPass
  <2> QED
    BY <1>2, <2>1, <2>3
<1>4. CASE SyncNext(s)
  <2>1. PICK r \in pass[s].todo : /\ Begin(s, "refresh", r, NoLevel, NoLevel)
                                  /\ pass' = [pass EXCEPT ![s].todo = @ \ {r}]
    BY <1>4 DEF SyncNext
  <2>2. r \in Row /\ row[r].bid
    BY <2>1 DEF BookTypeOK, Pass, CallsKnow, PassKnows
  <2>3. CallKnows(s)' /\ \A t \in Session : t # s => call'[t] = call[t]
    BY <1>1, <2>1, <2>2, BeginKnows
  <2>4. /\ pass'[s].todo \subseteq pass[s].todo /\ pass'[s].at = "sync"
        /\ \A t \in Session : t # s => pass'[t] = pass[t]
    BY <1>4, <2>1 DEF BookTypeOK, Pass, SyncNext
  <2>5. PassKnows(s)'
    BY <1>1, <2>4 DEF CallsKnow, PassKnows
  <2> QED
    BY <1>1, <2>3, <2>4, <2>5, OthersKnow
<1>5. CASE ListStates(s)
  <2>1. UNCHANGED call /\ call[s].at = "idle"
    BY <1>5 DEF ListStates, Ready
  <2>2. PassKnows(s)' /\ \A t \in Session : t # s => pass'[t] = pass[t]
    <3>1. ASSUME NEW d \in Decision, NEW o \in {0} \cup Row, o # 0 => Priced(row[o]),
                 pass' = [pass EXCEPT ![s] =
                            [Resting EXCEPT !.at = "act", !.order = o, !.decision = d]]
          PROVE  PassKnows(s)' /\ \A t \in Session : t # s => pass'[t] = pass[t]
      <4>1. /\ pass'[s] = [Resting EXCEPT !.at = "act", !.order = o, !.decision = d]
            /\ \A t \in Session : t # s => pass'[t] = pass[t]
        BY <3>1 DEF BookTypeOK
      <4>2. pass'[s].todo = {} /\ pass'[s].order = o
        BY <4>1 DEF Resting
      <4> QED
        BY <1>1, <2>1, <3>1, <4>1, <4>2 DEF PassKnows, Priced
    <3>2. CASE pass' = [pass EXCEPT ![s] = Resting]
      BY <1>1, <3>2, PassStillKnows
    <3> QED
      BY <1>5, <3>1, <3>2, ListStatesDecides
  <2> QED
    BY <1>2, <2>1, <2>2
<1>6. CASE Act(s)
  <2>1. PassKnows(s)' /\ \A t \in Session : t # s => pass'[t] = pass[t]
    BY <1>1, <1>6, PassStillKnows DEF Act
  <2>2. pass[s].order # 0 => pass[s].order \in Row
    BY BookAssumption DEF BookTypeOK, Pass, Row
  <2>3. \/ /\ pass[s].order # 0 /\ row[pass[s].order].bid
           /\ \/ Begin(s, "cancel", pass[s].order, NoLevel, NoLevel)
              \/ Begin(s, "amend", pass[s].order, pass[s].decision.stop, pass[s].decision.tp)
        \/ BeginClose(s) \/ UNCHANGED call
    BY <1>6 DEF Act, MayCancel, MayAmend
  <2>4. CASE UNCHANGED call
    BY <1>2, <2>1, <2>4
  <2>5. CASE ~UNCHANGED call
    <3>1. CallKnows(s)' /\ \A t \in Session : t # s => call'[t] = call[t]
      BY <1>1, <2>2, <2>3, <2>5, BeginKnows, BeginCloseKnows
    <3> QED
      BY <1>1, <2>1, <3>1, OthersKnow
  <2> QED
    BY <2>4, <2>5
<1> QED
  BY <1>3, <1>4, <1>5, <1>6 DEF Steering

LEMMA CrashKnows ==
  ASSUME BookTypeOK, CallsKnow, NEW s \in Session, Crash(s)
  PROVE  CallsKnow'
<1>1. /\ Rest(s) /\ UNCHANGED row
      /\ pass' = [pass EXCEPT ![s] = Resting]
  BY DEF Crash
<1>2. PassKnows(s)' /\ \A t \in Session : t # s => pass'[t] = pass[t]
  BY <1>1, PassStillKnows
<1> QED
  BY <1>1, <1>2, RestKnows, OthersKnow

LEMMA StepKnows ==
  ASSUME BookTypeOK, CallsKnow, [Next]_vars
  PROVE  CallsKnow'
<1>1. ASSUME NEW s \in Session, Step(s) PROVE CallsKnow'
  BY <1>1, AskKnows, WriteRowKnows, WritePositionKnows DEF Step
<1>2. CASE UNCHANGED <<row, call, pass>>
  BY <1>2 DEF CallsKnow, RowsKnow, PassKnows, CallKnows, InHand, Reading, Submitting, Priced
<1>3. Broker \/ UNCHANGED vars => UNCHANGED <<row, call, pass>>
  BY DEF Broker, FillPart, Fill, Exit, CloseFills, BrokerEnds, Quiet, vars
<1> QED
  BY <1>1, <1>2, <1>3, OperatorKnows, SteeringKnows, CrashKnows DEF Next

----------------------------------------------------------------------------
(* What a step changes.                                                    *)

\* What is known after an answer came.
Answers(s) ==
  /\ call[s].at = "ask" /\ call'[s].at = "row"
  /\ call'[s].op = call[s].op /\ call'[s].row = call[s].row /\ call'[s].read = call[s].read
  /\ call'[s].stop = call[s].stop /\ call'[s].tp = call[s].tp
  /\ UNCHANGED <<row, pos, pass>>
  /\ call[s].row \notin torn' => \A t \in Session \ {s} : InHand(t) => call[t].row # call[s].row
  /\ LET reply == call'[s].reply
         b == broker[call[s].row].state IN
     /\ reply.exit # "none" => b = reply.exit
     /\ reply.status = "rejected" => b = "rejected"
     /\ call[s].op # "submit" /\ b \in {"win", "loss"} => call[s].op = "refresh" /\ reply.exit = b

LEMMA AnsweredAnswers ==
  ASSUME BookTypeOK, NEW s \in Session, NEW reply \in Reply,
         call[s].at = "ask", Answered(s, call[s].row, reply), UNCHANGED pass,
         LET b == broker[call[s].row].state IN
         /\ reply.exit # "none" => b = reply.exit
         /\ reply.status = "rejected" => b = "rejected"
         /\ call[s].op # "submit" /\ b \in {"win", "loss"} => call[s].op = "refresh" /\ reply.exit = b
  PROVE  Answers(s)
<1>1. call'[s] = [call[s] EXCEPT !.at = "row", !.reply = reply] /\ call[s] \in Call
  BY DEF Answered, BookTypeOK
<1>2. /\ call'[s].at = "row" /\ call'[s].reply = reply
      /\ call'[s].op = call[s].op /\ call'[s].row = call[s].row /\ call'[s].read = call[s].read
      /\ call'[s].stop = call[s].stop /\ call'[s].tp = call[s].tp
  BY <1>1 DEF Call
<1>3. /\ UNCHANGED <<row, pos>>
      /\ call[s].row \notin torn' => \A t \in Session \ {s} : InHand(t) => call[t].row # call[s].row
  BY DEF Answered, InHand
<1> QED
  BY <1>2, <1>3 DEF Answers

\* Asking ends in an answer or in rest.
LEMMA AskMoves ==
  ASSUME BookTypeOK, CallsKnow, NEW s \in Session, Ask(s)
  PROVE  /\ UNCHANGED row /\ call[s].at = "ask"
         /\ \A t \in Session : t # s => call'[t] = call[t]
         /\ torn \subseteq torn' /\ astray \subseteq astray'
         /\ Answers(s) \/ call'[s] = Idle
<1> DEFINE r == call[s].row
<1>1. UNCHANGED row /\ call[s].at = "ask" /\ torn \subseteq torn' /\ astray \subseteq astray'
  BY DEF Ask, AskRefresh, AskCancel, AskAmend, AskClose, AskSubmit, Asking, GivenUp, Answered, history
<1>2. \A t \in Session : t # s => call'[t] = call[t]
  BY DEF Ask, AskRefresh, AskCancel, AskAmend, AskClose, AskSubmit, GivenUp, Answered, Rest, BookTypeOK
<1>3. CASE Rest(s)
  BY <1>1, <1>2, <1>3, RestKnows
<1>4. ASSUME NEW reply \in Reports(r), r \in Row
      PROVE  /\ reply \in Reply
             /\ reply.exit # "none" => broker[r].state = reply.exit
             /\ reply.status = "rejected" => broker[r].state = "rejected"
             /\ broker[r].state \in {"win", "loss"} => reply.exit = broker[r].state
  BY <1>4, ReportsTrue DEF BookTypeOK
<1>5. CASE AskRefresh(s) /\ ~Rest(s)
  BY <1>1, <1>2, <1>4, <1>5, AskingRow, AnsweredAnswers DEF AskRefresh, Asking, GivenUp
<1>6. CASE AskCancel(s) /\ ~Rest(s)
  <2> DEFINE reply == [NoReply EXCEPT !.status = "canceled"]
  <2>1. reply \in Reply /\ reply.status = "canceled" /\ reply.exit = "none"
    BY DEF NoReply, Reply
  <2>2. broker[r].state \in Waiting /\ Answered(s, r, reply) /\ UNCHANGED pass /\ call[s].op = "cancel"
    BY <1>6 DEF AskCancel, GivenUp, Asking
  <2> HIDE DEF reply
  <2> QED
    BY <1>1, <1>2, <2>1, <2>2, AnsweredAnswers DEF Waiting
<1>7. CASE AskAmend(s) /\ ~Rest(s)
  <2>1. PICK reply \in Reports(r) : Answered(s, r, reply)
    BY <1>7 DEF AskAmend, GivenUp
  <2>2. broker[r].state \in {"working", "partial", "held"} /\ UNCHANGED pass /\ call[s].op = "amend"
    BY <1>7 DEF AskAmend, GivenUp, Asking
  <2>3. r \in Row
    BY <1>7, AskingRow DEF AskAmend
  <2> QED
    BY <1>1, <1>2, <1>4, <2>1, <2>2, <2>3, AnsweredAnswers
<1>8. CASE AskSubmit(s)
  <2>1. \A status \in {"new", "failed"} \cup Unlisted :
          /\ [NoReply EXCEPT !.status = status] \in Reply
          /\ [NoReply EXCEPT !.status = status].status = status /\ status # "rejected"
          /\ [NoReply EXCEPT !.status = status].exit = "none"
    BY BookAssumption DEF NoReply, Reply
  <2>2. PICK status \in {"new", "failed"} \cup Unlisted :
          Answered(s, r, [NoReply EXCEPT !.status = status])
    BY <1>8 DEF AskSubmit
  <2>3. UNCHANGED pass /\ call[s].op = "submit"
    BY <1>8 DEF AskSubmit, Asking
  <2> QED
    BY <1>1, <1>2, <2>1, <2>2, <2>3, AnsweredAnswers
<1>9. AskClose(s) => Rest(s)
  BY DEF AskClose
<1> QED
  BY <1>3, <1>5, <1>6, <1>7, <1>8, <1>9 DEF Ask

\* A call that begins reads its row as it is.
Begins(s) ==
  /\ call[s].at = "idle" /\ call'[s].at = "ask"
  /\ UNCHANGED <<row, pos, broker, history>>
  /\ \/ call'[s].op = "close"
     \/ /\ call'[s].op \in {"refresh", "cancel", "amend"} /\ call'[s].row \in Row
        /\ call'[s].read = row[call'[s].row]
     \/ /\ s = Api /\ call'[s].op = "submit" /\ call'[s].row \in Row
        /\ broker[call'[s].row].state = "none" /\ \A r \in Row : ~Live(r)

LEMMA OperatorMoves ==
  ASSUME BookTypeOK, Operator
  PROVE  /\ Begins(Api) /\ UNCHANGED pass
         /\ \A t \in Session : t # Api => call'[t] = call[t]
<1>1. call[Api].at = "idle" /\ UNCHANGED <<row, pos, broker, pass, history>>
  BY DEF Operator, RequestRefresh, RequestCancel, RequestClose, RequestResubmit, Serves, Ready
<1>2. \A t \in Session : t # Api => call'[t] = call[t]
  BY DEF Operator, RequestRefresh, RequestCancel, RequestClose, RequestResubmit, Begin, BeginClose,
         BookTypeOK
<1>3. ASSUME NEW r \in Row, RequestRefresh(r) \/ RequestCancel(r) PROVE Begins(Api)
  BY <1>1, <1>3, ConstantsTyped DEF RequestRefresh, RequestCancel, Begin, Begins, BookTypeOK
<1>4. CASE RequestClose
  BY <1>1, <1>4, ConstantsTyped DEF RequestClose, BeginClose, Begins, BookTypeOK, Idle
<1>5. ASSUME NEW r \in Row, NEW new \in Row, RequestResubmit(r, new) PROVE Begins(Api)
  <2>1. call'[Api].op = "submit" /\ call'[Api].at = "ask" /\ call'[Api].row = new
    BY <1>5, ConstantsTyped DEF RequestResubmit, BookTypeOK, Idle
  <2>2. broker[new].state = "none" /\ \A q \in Row : ~Live(q)
    BY <1>5 DEF RequestResubmit, Allowed, Exposure
  <2> QED
    BY <1>1, <2>1, <2>2 DEF Begins
<1> QED
  BY <1>1, <1>2, <1>3, <1>4, <1>5 DEF Operator

LEMMA SteeringMoves ==
  ASSUME BookTypeOK, NEW s \in Session, Steering(s)
  PROVE  /\ Begins(s) \/ UNCHANGED call
         /\ UNCHANGED <<row, pos, broker, torn>> /\ astray \subseteq astray' /\ call[s].at = "idle"
         /\ \A t \in Session : t # s => call'[t] = call[t]
<1>1. UNCHANGED <<row, pos, broker, torn>> /\ astray \subseteq astray' /\ call[s].at = "idle"
  BY DEF Steering, BeginPass, SyncNext, ListStates, Act, Ready, history
<1>2. ASSUME NEW r \in Row, NEW op \in {"refresh", "cancel", "amend"}, NEW stop, NEW tp,
             Begin(s, op, r, stop, tp), UNCHANGED astray
      PROVE  Begins(s) /\ \A t \in Session : t # s => call'[t] = call[t]
  BY <1>1, <1>2 DEF Begin, Begins, BookTypeOK, history
<1>3. ASSUME BeginClose(s), UNCHANGED astray
      PROVE  Begins(s) /\ \A t \in Session : t # s => call'[t] = call[t]
  BY <1>1, <1>3 DEF BeginClose, Begins, BookTypeOK, Idle, history
<1>4. \/ UNCHANGED call
      \/ /\ UNCHANGED astray
         /\ \/ BeginClose(s)
            \/ \E r \in Row, op \in {"refresh", "cancel", "amend"} :
                 \E stop, tp : Begin(s, op, r, stop, tp)
  <2>1. CASE SyncNext(s)
    BY <2>1 DEF SyncNext, BookTypeOK, Pass, history
  <2>2. CASE Act(s)
    <3>1. pass[s].order # 0 => pass[s].order \in Row
      BY BookAssumption DEF BookTypeOK, Pass, Row
    <3> QED
      BY <2>2, <3>1 DEF Act, history
  <2> QED
    BY <2>1, <2>2 DEF Steering, BeginPass, ListStates
<1> QED
  BY <1>1, <1>2, <1>3, <1>4

LEMMA WriteRowMoves ==
  ASSUME BookTypeOK, CallsKnow, NEW s \in Session, WriteRow(s)
  PROVE  /\ call[s].at = "row" /\ UNCHANGED <<pos, broker, pass, torn>>
         /\ astray \subseteq astray'
         /\ call[s].op # "submit" /\ call[s].row \notin astray' =>
              row[call[s].row].stop = call[s].read.stop /\ row[call[s].row].tp = call[s].read.tp
         /\ IF Written(call[s]).bid
            THEN /\ call'[s].at = "pos" /\ call'[s].row = call[s].row /\ call'[s].op = call[s].op
                 /\ call'[s].reply = call[s].reply
            ELSE call'[s] = Idle
         /\ \A t \in Session : t # s => call'[t] = call[t]
<1> DEFINE next == [Idle EXCEPT !.op = call[s].op, !.at = "pos", !.row = call[s].row,
                                !.reply = call[s].reply]
<1>1. /\ call'[s] = IF Written(call[s]).bid THEN next ELSE Idle
      /\ \A t \in Session : t # s => call'[t] = call[t]
  BY RestKnows DEF WriteRow, BookTypeOK
<1>2. /\ next.at = "pos" /\ next.row = call[s].row /\ next.op = call[s].op
      /\ next.reply = call[s].reply
  BY DEF Idle
<1> HIDE DEF next
<1>3. /\ call[s].at = "row" /\ UNCHANGED <<pos, broker, pass, torn>> /\ call[s].row \in Row
      /\ astray' = IF call[s].op # "submit"
                      /\ <<row[call[s].row].stop, row[call[s].row].tp>> # <<call[s].read.stop, call[s].read.tp>>
                   THEN astray \cup {call[s].row} ELSE astray
  BY WrittenTyped DEF WriteRow
<1>4. /\ astray \subseteq astray'
      /\ call[s].op # "submit" /\ call[s].row \notin astray' =>
           row[call[s].row].stop = call[s].read.stop /\ row[call[s].row].tp = call[s].read.tp
  BY <1>3
<1> QED
  BY <1>1, <1>2, <1>3, <1>4

LEMMA WritePositionMoves ==
  ASSUME BookTypeOK, CallsKnow, NEW s \in Session, WritePosition(s)
  PROVE  /\ call[s].at = "pos" /\ call[s].row \in Row
         /\ UNCHANGED <<row, broker, pass, history>>
         /\ pos' = [pos EXCEPT ![call[s].row] = DerivePosition(call[s].reply)]
         /\ call'[s] = Idle /\ \A t \in Session : t # s => call'[t] = call[t]
BY RestKnows DEF WritePosition, CallsKnow, CallKnows, InHand

LEMMA CrashMoves ==
  ASSUME BookTypeOK, NEW s \in Session, Crash(s)
  PROVE  /\ call'[s] = Idle /\ \A t \in Session : t # s => call'[t] = call[t]
         /\ UNCHANGED <<row, pos, broker>> /\ pass' = [pass EXCEPT ![s] = Resting]
         /\ torn \subseteq torn' /\ astray \subseteq astray'
         /\ call[s].at = "pos" => call[s].row \in torn'
         /\ call[s].op = "amend" /\ call[s].at = "row" => call[s].row \in astray'
BY RestKnows DEF Crash

LEMMA QuietMoves ==
  ASSUME Broker \/ UNCHANGED vars
  PROVE  UNCHANGED <<row, pos, call, pass, history>>
BY DEF Broker, FillPart, Fill, Exit, CloseFills, BrokerEnds, Quiet, vars, history

LEMMA BecomeMoves ==
  ASSUME BookTypeOK, NEW r \in Row, NEW state, Become(r, state), NEW q \in Row
  PROVE  /\ broker'[q].stop = broker[q].stop /\ broker'[q].tp = broker[q].tp
         /\ broker'[q].state = IF q = r THEN state ELSE broker[q].state
<1>1. broker[q] \in BrokerRow /\ broker' = [broker EXCEPT ![r].state = state]
  BY DEF Become, BookTypeOK
<1>2. broker'[q] = IF q = r THEN [broker[q] EXCEPT !.state = state] ELSE broker[q]
  BY <1>1 DEF BookTypeOK
<1> QED
  BY <1>1, <1>2 DEF BrokerRow

\* An order comes to life by a submission alone, and dies for ever.
StateMoves(r) ==
  \/ broker'[r].state = broker[r].state
  \/ Live(r) /\ broker'[r].state # "none"
  \/ \E s \in Session : AskSubmit(s) /\ call[s].row = r

\* Its levels change by an amendment, recorded in the answer or astray, or with its
\* submission.
LevelMoves(r) ==
  \/ broker'[r].stop = broker[r].stop /\ broker'[r].tp = broker[r].tp
  \/ \E s \in Session :
       /\ AskAmend(s) /\ call[s].row = r /\ (Answers(s) \/ r \in astray')
       /\ broker'[r].stop = IF call[s].stop = NoLevel THEN broker[r].stop ELSE call[s].stop
       /\ broker'[r].tp = IF call[s].tp = NoLevel THEN broker[r].tp ELSE call[s].tp
  \/ \E s \in Session :
       /\ AskSubmit(s) /\ call[s].row = r
       /\ broker'[r].stop = call[s].read.stop /\ broker'[r].tp = call[s].read.tp

LEMMA AmendedMoves ==
  ASSUME BookTypeOK, NEW r \in Row, NEW stop, NEW tp, Amended(r, stop, tp), NEW q \in Row
  PROVE  /\ broker'[q].state = broker[q].state
         /\ IF q = r
            THEN /\ broker'[q].stop = IF stop = NoLevel THEN broker[q].stop ELSE stop
                 /\ broker'[q].tp = IF tp = NoLevel THEN broker[q].tp ELSE tp
            ELSE broker'[q].stop = broker[q].stop /\ broker'[q].tp = broker[q].tp
<1>1. broker[q] \in BrokerRow
  BY DEF BookTypeOK
<1>2. broker'[q] = IF q = r THEN [broker[q] EXCEPT !.stop = IF stop = NoLevel THEN @ ELSE stop,
                                                   !.tp = IF tp = NoLevel THEN @ ELSE tp]
                   ELSE broker[q]
  BY DEF Amended, BookTypeOK
<1> QED
  BY <1>1, <1>2 DEF BrokerRow

LEMMA BrokerMoves ==
  ASSUME BookTypeOK, CallsKnow, [Next]_vars, NEW q \in Row
  PROVE  StateMoves(q) /\ LevelMoves(q)
<1>1. CASE UNCHANGED broker
  BY <1>1 DEF StateMoves, LevelMoves
<1>2. ASSUME NEW r \in Row, NEW state, state # "none", Become(r, state), Live(r)
      PROVE  StateMoves(q) /\ LevelMoves(q)
  BY <1>2, BecomeMoves DEF StateMoves, LevelMoves
<1>3. CASE Broker
  <2>1. \A r \in Row : End(r) # "none" /\ (broker[r].state \in Waiting \cup {"held", "closing"} => Live(r))
    BY EndTyped DEF Live, Waiting, Holding
  <2> QED
    BY <1>2, <1>3, <2>1 DEF Broker, FillPart, Fill, Exit, CloseFills, BrokerEnds, Waiting
<1>4. ASSUME NEW s \in Session, Ask(s) PROVE StateMoves(q) /\ LevelMoves(q)
  <2>1. CASE AskCancel(s)
    <3>1. call[s].row \in Row
      BY <2>1, AskingRow DEF AskCancel
    <3>2. UNCHANGED broker \/ (Become(call[s].row, End(call[s].row)) /\ Live(call[s].row))
      BY <2>1 DEF AskCancel, Live
    <3> QED
      BY <1>1, <1>2, <3>1, <3>2, EndTyped
  <2>2. CASE AskClose(s)
    <3>1. UNCHANGED broker \/ \E r \in Row : Become(r, "closing") /\ Live(r)
      BY <2>2 DEF AskClose, Live, Holding
    <3> QED
      BY <1>1, <1>2, <3>1
  <2>3. CASE AskAmend(s)
    <3>1. call[s].row \in Row
      BY <2>3, AskingRow DEF AskAmend
    <3>2. \/ UNCHANGED broker
          \/ /\ Amended(call[s].row, call[s].stop, call[s].tp)
             /\ \/ astray' = astray \cup {call[s].row}
                \/ \E reply \in Reports(call[s].row) : Answered(s, call[s].row, reply)
      BY <2>3 DEF AskAmend
    <3>3. (\E reply \in Reports(call[s].row) : Answered(s, call[s].row, reply)) => Answers(s)
      <4>1. (\E reply \in Reports(call[s].row) : Answered(s, call[s].row, reply)) => call'[s].at = "row"
        BY DEF Answered, BookTypeOK, Call
      <4> QED
        BY <1>4, <4>1, AskMoves DEF Idle
    <3> QED
      BY <1>1, <2>3, <3>1, <3>2, <3>3, AmendedMoves DEF StateMoves, LevelMoves
  <2>4. CASE AskSubmit(s)
    <3>1. call[s].row \in Row
      BY <2>4, AskingRow DEF AskSubmit
    <3>2. \/ UNCHANGED broker
          \/ broker' = [broker EXCEPT ![call[s].row] = [state |-> "working", stop |-> call[s].read.stop,
                                                        tp |-> call[s].read.tp]]
      BY <2>4 DEF AskSubmit
    <3> QED
      BY <1>1, <2>4, <3>1, <3>2 DEF StateMoves, LevelMoves, BookTypeOK
  <2>5. CASE AskRefresh(s)
    BY <1>1, <2>5 DEF AskRefresh
  <2> QED
    BY <1>4, <2>1, <2>2, <2>3, <2>4, <2>5 DEF Ask
<1>5. Operator \/ (\E s \in Session : Steering(s)) => UNCHANGED broker
  BY OperatorMoves, SteeringMoves DEF Begins
<1>6. UNCHANGED vars \/ (\E s \in Session : WriteRow(s) \/ WritePosition(s) \/ Crash(s)) => UNCHANGED broker
  BY DEF vars, WriteRow, WritePosition, Crash
<1> QED
  BY <1>1, <1>3, <1>4, <1>5, <1>6 DEF Next, Step

\* How a call moves on.
LEMMA CallMoves ==
  ASSUME BookTypeOK, CallsKnow, [Next]_vars, NEW s \in Session
  PROVE  \/ call'[s] = call[s] \/ call'[s] = Idle \/ Answers(s) \/ Begins(s)
         \/ /\ WriteRow(s) /\ call'[s].at = "pos" /\ call'[s].row = call[s].row
            /\ call'[s].op = call[s].op /\ call'[s].reply = call[s].reply
<1>1. ASSUME NEW t \in Session, Step(t) \/ Crash(t), t # s PROVE call'[s] = call[s]
  BY <1>1, AskMoves, WriteRowMoves, WritePositionMoves, CrashMoves DEF Step
<1>2. CASE Step(s) \/ Crash(s)
  BY <1>2, AskMoves, WriteRowMoves, WritePositionMoves, CrashMoves DEF Step
<1> QED
  BY <1>1, <1>2, OperatorMoves, SteeringMoves, QuietMoves, ConstantsTyped DEF Next

LEMMA RowMoves ==
  ASSUME BookTypeOK, CallsKnow, [Next]_vars
  PROVE  UNCHANGED row \/ \E s \in Session : WriteRow(s)
BY OperatorMoves, SteeringMoves, QuietMoves, AskMoves, WritePositionMoves, CrashMoves
   DEF Next, Step, Begins

LEMMA PosMoves ==
  ASSUME BookTypeOK, CallsKnow, [Next]_vars
  PROVE  \/ UNCHANGED pos
         \/ \E s \in Session : WritePosition(s) \/ AskClose(s)
<1>1. \A s \in Session : Ask(s) => UNCHANGED pos \/ AskClose(s)
  BY DEF Ask, AskRefresh, AskCancel, AskAmend, AskSubmit, GivenUp, Answered
<1> QED
  BY <1>1, OperatorMoves, SteeringMoves, QuietMoves, WriteRowMoves, CrashMoves
     DEF Next, Step, Begins

LEMMA HistoryGrows ==
  ASSUME BookTypeOK, CallsKnow, [Next]_vars
  PROVE  astray \subseteq astray' /\ torn \subseteq torn'
BY OperatorMoves, SteeringMoves, QuietMoves, AskMoves, WriteRowMoves, WritePositionMoves, CrashMoves
   DEF Next, Step, Begins, history

----------------------------------------------------------------------------
(* One live order.                                                         *)

LEMMA OneLivePairwise ==
  OneLive <=> \A p, q \in Row : Live(p) /\ Live(q) => p = q
<1> DEFINE L == {r \in Row : Live(r)}
<1>1. IsFiniteSet(L)
  <2>1. IsFiniteSet(Row)
    BY BookAssumption, FS_Interval DEF Row
  <2> QED
    BY <2>1, FS_Subset
<1>2. Cardinality(L) \in Nat /\ (Cardinality(L) = 0 <=> L = {})
  BY <1>1, FS_CardinalityType, FS_EmptySet
<1>3. Cardinality(L) = 1 <=> \E x : L = {x}
  BY <1>1, FS_Singleton
<1>4. OneLive <=> Cardinality(L) <= 1
  BY DEF OneLive
<1> HIDE DEF L
<1>5. OneLive <=> L = {} \/ \E x : L = {x}
  <2>1. Cardinality(L) <= 1 <=> Cardinality(L) = 0 \/ Cardinality(L) = 1
    BY <1>2
  <2> QED
    BY <1>2, <1>3, <1>4, <2>1
<1>6. (L = {} \/ \E x : L = {x}) <=> \A p, q \in L : p = q
  OBVIOUS
<1> QED
  BY <1>5, <1>6 DEF L

\* A submission under way is the operator's, of a row the broker does not have.
LEMMA SubmitAlone ==
  ASSUME BookTypeOK, CallsKnow, SubmitsAlone, NEW s \in Session, AskSubmit(s)
  PROVE  /\ s = Api /\ call[s].row \in Row /\ broker[call[s].row].state = "none"
         /\ row[call[s].row].status = "none"
         /\ \A r \in Row : ~Live(r)
BY DEF AskSubmit, Asking, CallsKnow, CallKnows, SubmitsAlone, Submitting

LEMMA AloneStep ==
  ASSUME BookTypeOK, CallsKnow, SubmitsAlone, [Next]_vars
  PROVE  SubmitsAlone'
<1>1. ASSUME NEW q \in Row, Live(q)' PROVE Live(q) \/ (AskSubmit(Api) /\ call[Api].row = q)
  BY <1>1, BrokerMoves, SubmitAlone DEF StateMoves, Live
<1>2. \A p, q \in Row : Live(p)' /\ Live(q)' => p = q
  BY <1>1, SubmitAlone, OneLivePairwise, ConstantsTyped DEF SubmitsAlone
<1>3. OneLive'
  <2>1. OneLive' <=> \A p, q \in Row : Live(p)' /\ Live(q)' => p = q
    <3>1. (OneLive <=> \A p, q \in Row : Live(p) /\ Live(q) => p = q)'
      BY OneLivePairwise, PTL
    <3> QED
      BY <3>1
  <2> QED
    BY <1>2, <2>1
<1>4. ASSUME NEW s \in Session, Submitting(s)', call'[s].at = "ask"
      PROVE  broker'[call'[s].row].state = "none" /\ \A r \in Row : ~Live(r)'
  <2>1. s = Api
    <3>1. CallKnows(s)'
      BY StepKnows DEF CallsKnow
    <3> QED
      BY <1>4, <3>1 DEF CallKnows, Submitting
  <2>2. call'[s].row \in Row
    BY <1>4, StepKnows DEF CallsKnow, CallKnows
  <2>3. \/ call'[s] = call[s]
        \/ Begins(s)
    BY <1>4, CallMoves DEF Submitting, Idle, Answers
  <2>4. CASE Begins(s)
    BY <1>4, <2>4 DEF Begins, Submitting, Live
  <2>5. CASE call'[s] = call[s]
    <3>1. broker[call[s].row].state = "none" /\ \A r \in Row : ~Live(r)
      BY <1>4, <2>5 DEF Submitting, SubmitsAlone
    <3>2. ~AskSubmit(Api)
      <4>1. AskSubmit(Api) => call'[Api].at = "row"
        BY ConstantsTyped DEF AskSubmit, Answered, BookTypeOK, Call
      <4> QED
        BY <1>4, <2>1, <4>1
    <3>3. StateMoves(call[s].row)
      BY <2>2, <2>5, BrokerMoves
    <3> QED
      BY <1>1, <2>2, <2>5, <3>1, <3>2, <3>3, SubmitAlone DEF StateMoves
  <2> QED
    BY <2>3, <2>4, <2>5
<1> QED
  BY <1>3, <1>4 DEF SubmitsAlone

----------------------------------------------------------------------------
(* What is said of ended trades.                                           *)

LEMMA EndsForEver ==
  ASSUME BookTypeOK, CallsKnow, SubmitsAlone, [Next]_vars, NEW q \in Row,
         broker[q].state \in {"win", "loss", "rejected"}
  PROVE  broker'[q].state = broker[q].state
BY BrokerMoves, SubmitAlone DEF StateMoves, Live, Waiting, Holding

LEMMA AnswersStep ==
  ASSUME BookTypeOK, CallsKnow, SubmitsAlone, OutcomeIsTrue, AnswersAreTrue, [Next]_vars
  PROVE  AnswersAreTrue'
<1> SUFFICES ASSUME NEW s \in Session
             PROVE /\ Reading(s)' /\ call'[s].read.status \in {"win", "loss", "rejected"} =>
                        broker'[call'[s].row].state = call'[s].read.status
                   /\ InHand(s)' => /\ call'[s].reply.exit # "none" =>
                                         broker'[call'[s].row].state = call'[s].reply.exit
                                    /\ call'[s].reply.status = "rejected" =>
                                         broker'[call'[s].row].state = "rejected"
  BY DEF AnswersAreTrue
<1>1. /\ Reading(s) => call[s].row \in Row /\ (call[s].read.status \in {"win", "loss", "rejected"} =>
                         broker[call[s].row].state = call[s].read.status)
      /\ InHand(s) => /\ call[s].row \in Row /\ call[s].reply.exit \in {"none", "win", "loss"}
                      /\ call[s].reply.exit # "none" => broker[call[s].row].state = call[s].reply.exit
                      /\ call[s].reply.status = "rejected" => broker[call[s].row].state = "rejected"
  BY DEF AnswersAreTrue, CallsKnow, CallKnows, BookTypeOK, Call, Reply
<1>2. CASE call'[s] = call[s]
  BY <1>1, <1>2, EndsForEver DEF Reading, InHand
<1>3. CASE call'[s] = Idle
  BY <1>3 DEF Reading, InHand, Idle
<1>4. CASE Answers(s)
  <2>1. Reading(s)' => Reading(s)
    BY <1>4 DEF Answers, Reading
  <2>2. call'[s].row = call[s].row /\ call'[s].read = call[s].read /\ call'[s].at = "row"
    BY <1>4 DEF Answers
  <2>3. InHand(s)' /\ call'[s].row \in Row /\ call'[s].reply.exit \in {"none", "win", "loss"}
    BY <2>2, StepKnows, StepTyped DEF InHand, CallsKnow, CallKnows, BookTypeOK, Call, Reply
  <2>4. /\ call'[s].reply.exit # "none" => broker[call[s].row].state = call'[s].reply.exit
        /\ call'[s].reply.status = "rejected" => broker[call[s].row].state = "rejected"
    BY <1>4 DEF Answers
  <2> QED
    BY <1>1, <2>1, <2>2, <2>3, <2>4, EndsForEver
<1>5. CASE Begins(s)
  BY <1>5 DEF Begins, Reading, InHand, OutcomeIsTrue
<1>6. CASE WriteRow(s) /\ call'[s].at = "pos" /\ call'[s].row = call[s].row /\ call'[s].reply = call[s].reply
  <2>1. call[s].at = "row" /\ UNCHANGED broker
    BY <1>6 DEF WriteRow
  <2> QED
    BY <1>1, <1>6, <2>1 DEF Reading, InHand
<1> QED
  BY <1>2, <1>3, <1>4, <1>5, <1>6, CallMoves

LEMMA OutcomeStep ==
  ASSUME BookTypeOK, CallsKnow, SubmitsAlone, OutcomeIsTrue, AnswersAreTrue, [Next]_vars
  PROVE  OutcomeIsTrue'
<1>1. ASSUME NEW r \in Row, row'[r].status \in {"win", "loss", "rejected"}
      PROVE  broker'[r].state = row'[r].status
  <2>1. CASE row'[r] = row[r]
    BY <1>1, <2>1, EndsForEver DEF OutcomeIsTrue
  <2>2. ASSUME NEW s \in Session, WriteRow(s), call[s].row = r
        PROVE  broker'[r].state = row'[r].status
    <3> DEFINE c == call[s]
    <3>1. row'[r] = Written(c) /\ UNCHANGED broker /\ c.at = "row"
      BY <2>2, WrittenKnows DEF WriteRow, BookTypeOK
    <3>2. /\ c.reply \in Reply /\ c.reply.status # "none" /\ c.read \in OrderRow
          /\ c.op \in {"refresh", "cancel", "amend", "submit"}
          /\ c.op = "submit" => c.reply.status \in {"new", "failed"} \cup Unlisted
          /\ c.reply.exit # "none" => broker[r].state = c.reply.exit
          /\ c.reply.status = "rejected" => broker[r].state = "rejected"
          /\ c.op = "amend" /\ c.read.status \in {"win", "loss", "rejected"} =>
               broker[r].state = c.read.status
      BY <2>2, <3>1 DEF BookTypeOK, Call, CallsKnow, CallKnows, InHand, AnswersAreTrue, Reading
    <3> HIDE DEF c
    <3>3. CASE c.op = "refresh"
      <4>1. row'[r].status = DeriveStatus(c.reply)
        BY <3>1, <3>2, <3>3 DEF Written, OrderRow
      <4> QED
        BY <1>1, <3>1, <3>2, <4>1, DeriveStatusTyped DEF Reply
    <3>4. CASE c.op = "cancel"
      BY <1>1, <3>1, <3>2, <3>4 DEF Written, OrderRow
    <3>5. CASE c.op = "amend"
      <4>1. row'[r].status = c.read.status
        BY <3>1, <3>2, <3>5 DEF Written, OrderRow
      <4> QED
        BY <1>1, <3>1, <3>2, <3>5, <4>1
    <3>6. CASE c.op = "submit"
      <4>1. row'[r].status = c.reply.status
        BY <3>1, <3>2, <3>6 DEF Written, OrderRow
      <4> QED
        BY <1>1, <3>2, <3>6, <4>1, BookAssumption
    <3> QED
      BY <3>2, <3>3, <3>4, <3>5, <3>6
  <2> QED
    BY <2>1, <2>2, RowMoves, WrittenKnows
<1>2. ASSUME NEW r \in Row
      PROVE  /\ pos'[r].status \in {"win", "loss"} => broker'[r].state = pos'[r].status
             /\ pos'[r].status = "error" => broker'[r].state = "rejected"
  <2>1. CASE pos'[r].status = pos[r].status
    BY <2>1, EndsForEver DEF OutcomeIsTrue
  <2>2. ASSUME NEW s \in Session, AskClose(s)
        PROVE  pos'[r].status \in {pos[r].status, "closing"}
    BY <2>2 DEF AskClose, BookTypeOK, Closable, PosRow
  <2>3. ASSUME NEW s \in Session, WritePosition(s), call[s].row = r
        PROVE  /\ pos'[r].status \in {"win", "loss"} => broker'[r].state = pos'[r].status
               /\ pos'[r].status = "error" => broker'[r].state = "rejected"
    <3>1. pos'[r] = DerivePosition(call[s].reply) /\ UNCHANGED broker /\ call[s].at = "pos"
      BY <2>3, WritePositionMoves DEF BookTypeOK
    <3>2. call[s].reply \in Reply
      BY DEF BookTypeOK, Call
    <3> QED
      BY <2>3, <3>1, <3>2, DerivePositionTyped DEF AnswersAreTrue, InHand
  <2>4. ASSUME NEW s \in Session, WritePosition(s), call[s].row # r
        PROVE  pos'[r] = pos[r]
    BY <2>4, WritePositionMoves DEF BookTypeOK
  <2> QED
    BY <2>1, <2>2, <2>3, <2>4, PosMoves
<1> QED
  BY <1>1, <1>2 DEF OutcomeIsTrue

----------------------------------------------------------------------------
(* Levels.                                                                 *)

LEMMA AnsweringAsks ==
  ASSUME BookTypeOK, CallsKnow, [Next]_vars, NEW s \in Session, Answers(s)
  PROVE  /\ Ask(s)
         /\ call[s].op = "amend" => AskAmend(s)
         /\ call[s].op = "submit" => AskSubmit(s)
<1>1. call'[s] # call[s] /\ call[s].at = "ask" /\ call'[s].at = "row" /\ call'[s] # Idle
  BY DEF Answers, Idle
<1>2. ASSUME NEW t \in Session, t # s, Step(t) \/ Crash(t) PROVE FALSE
  BY <1>1, <1>2, AskMoves, WriteRowMoves, WritePositionMoves, CrashMoves DEF Step
<1>3. ~Operator /\ (\A t \in Session : ~Steering(t)) /\ ~Broker /\ ~UNCHANGED vars
  BY <1>1, OperatorMoves, SteeringMoves, QuietMoves, ConstantsTyped DEF Begins
<1>4. ~WriteRow(s) /\ ~WritePosition(s) /\ ~Crash(s)
  BY <1>1, WriteRowMoves, WritePositionMoves, CrashMoves
<1>5. Ask(s)
  BY <1>2, <1>3, <1>4 DEF Next, Step
<1> QED
  BY <1>5 DEF Ask, AskRefresh, AskCancel, AskAmend, AskClose, AskSubmit, Asking

LEMMA AskAmendMoves ==
  ASSUME BookTypeOK, CallsKnow, NEW s \in Session, AskAmend(s)
  PROVE  /\ Reading(s) /\ call[s].op = "amend" /\ call[s].at = "ask" /\ call[s].row \in Row
         /\ \/ call'[s] = Idle /\ UNCHANGED broker
            \/ call'[s] = Idle /\ call[s].row \in astray'
            \/ /\ Answers(s)
               /\ LET b == broker[call[s].row]
                      new == broker'[call[s].row] IN
                  /\ new.stop = IF call[s].stop = NoLevel THEN b.stop ELSE call[s].stop
                  /\ new.tp = IF call[s].tp = NoLevel THEN b.tp ELSE call[s].tp
<1>1. call[s].row \in Row /\ call[s].op = "amend" /\ call[s].at = "ask" /\ Ask(s)
  BY AskingRow DEF AskAmend, Asking, Ask
<1>2. \/ GivenUp(s) /\ UNCHANGED broker
      \/ GivenUp(s) /\ astray' = astray \cup {call[s].row}
      \/ /\ Amended(call[s].row, call[s].stop, call[s].tp)
         /\ \E reply \in Reports(call[s].row) : Answered(s, call[s].row, reply)
  BY DEF AskAmend
<1>3. GivenUp(s) => call'[s] = Idle
  BY RestKnows DEF GivenUp
<1>4. (\E reply \in Reports(call[s].row) : Answered(s, call[s].row, reply)) => Answers(s)
  <2>1. (\E reply \in Reports(call[s].row) : Answered(s, call[s].row, reply)) => call'[s].at = "row"
    BY DEF Answered, BookTypeOK, Call
  <2> QED
    BY <1>1, <2>1, AskMoves DEF Idle
<1> QED
  BY <1>1, <1>2, <1>3, <1>4, AmendedMoves DEF Reading

\* A submission leaves the broker's order with the levels of the row it writes.
LEMMA AskSubmitMoves ==
  ASSUME BookTypeOK, CallsKnow, NEW s \in Session, AskSubmit(s)
  PROVE  /\ s = Api /\ call[s].row \in Row /\ Answers(s) /\ row[call[s].row].status = "none"
         /\ ~row[call[s].row].bid /\ UNCHANGED astray
         /\ call'[s].reply.status # "failed" =>
              /\ broker'[call[s].row].stop = call[s].read.stop
              /\ broker'[call[s].row].tp = call[s].read.tp
<1>1. /\ s = Api /\ call[s].row \in Row /\ row[call[s].row].status = "none" /\ Ask(s)
      /\ UNCHANGED astray
  BY DEF AskSubmit, Asking, Ask, CallsKnow, CallKnows, Submitting
<1>2. PICK reply :
        /\ Answered(s, call[s].row, reply)
        /\ \/ reply = [NoReply EXCEPT !.status = "failed"]
           \/ broker' = [broker EXCEPT ![call[s].row] =
                           [state |-> "working", stop |-> call[s].read.stop, tp |-> call[s].read.tp]]
  BY DEF AskSubmit
<1>3. call'[s].at = "row" /\ call'[s].reply = reply
  BY <1>2 DEF Answered, BookTypeOK, Call
<1>4. Answers(s)
  BY <1>1, <1>3, AskMoves DEF Idle
<1>5. reply.status # "failed" => /\ broker'[call[s].row].stop = call[s].read.stop
                                 /\ broker'[call[s].row].tp = call[s].read.tp
  BY <1>1, <1>2 DEF NoReply, BookTypeOK
<1>6. ~row[call[s].row].bid
  BY <1>1 DEF CallsKnow, RowsKnow, Priced
<1> QED
  BY <1>1, <1>3, <1>4, <1>5, <1>6

\* An amendment that has been accepted ends with the row or goes astray.
LEMMA AmendEnds ==
  ASSUME BookTypeOK, CallsKnow, [Next]_vars, NEW s \in Session, NEW r \in Row, AmendInHand(s, r),
         call'[s] # call[s]
  PROVE  WriteRow(s) \/ r \in astray'
<1>1. \A t \in Session : (Step(t) \/ Crash(t)) => t = s
  BY AskMoves, WriteRowMoves, WritePositionMoves, CrashMoves DEF Step
<1>2. ~Operator /\ (\A t \in Session : ~Steering(t)) /\ ~Broker /\ ~UNCHANGED vars
  <2>1. call[s].at # "idle"
    BY DEF AmendInHand
  <2> QED
    BY <2>1, OperatorMoves, SteeringMoves, QuietMoves, ConstantsTyped DEF Begins
<1>3. ~Ask(s) /\ ~WritePosition(s)
  BY AskMoves, WritePositionMoves DEF AmendInHand
<1>4. Crash(s) => r \in astray'
  BY CrashMoves DEF AmendInHand
<1> QED
  BY <1>1, <1>2, <1>3, <1>4 DEF Next, Step

LEMMA WrittenLevels ==
  ASSUME BookTypeOK, CallsKnow, NEW s \in Session, WriteRow(s)
  PROVE  LET c == call[s]
             w == row'[call[s].row] IN
         /\ c.op \in {"refresh", "cancel"} => w.stop = c.read.stop /\ w.tp = c.read.tp
         /\ c.op = "amend" => w.stop = Asked(c).stop /\ w.tp = Asked(c).tp
         /\ c.op = "submit" => /\ w.stop = c.read.stop /\ w.tp = c.read.tp
                               /\ w.bid => c.reply.status # "failed"
<1> DEFINE c == call[s]
<1>1. row'[call[s].row] = Written(c) /\ c.read \in OrderRow
  BY WrittenKnows DEF BookTypeOK, Call
<1> HIDE DEF c
<1>2. /\ c.op \in {"refresh", "cancel"} => Written(c).stop = c.read.stop /\ Written(c).tp = c.read.tp
      /\ c.op = "amend" => Written(c).stop = Asked(c).stop /\ Written(c).tp = Asked(c).tp
      /\ c.op = "submit" => /\ Written(c).stop = c.read.stop /\ Written(c).tp = c.read.tp
                            /\ Written(c).bid => c.reply.status # "failed"
  BY <1>1 DEF Written, OrderRow, Asked
<1> QED
  BY <1>1, <1>2 DEF c

\* A row of which one process has an amendment in hand is not being amended by another.
LEMMA AloneAmending ==
  ASSUME AmendsAlone, NEW s \in Session, NEW r \in Row, r \notin astray, Amending(s, r)
  PROVE  \A t \in Session \ {s} : ~Amending(t, r) /\ ~AmendInHand(t, r)
BY DEF AmendsAlone, Amending, AmendInHand

LEMMA AskAmendLevels ==
  ASSUME BookTypeOK, CallsKnow, LevelsAgree, AmendsAlone, [Next]_vars,
         NEW s \in Session, AskAmend(s), NEW r \in Row, call[s].row = r, r \notin astray'
  PROVE  RowAgrees(r)' /\ \A t \in Session : CallAgrees(t, r)'
<1>1. /\ Reading(s) /\ call[s].op = "amend" /\ call[s].at = "ask" /\ UNCHANGED row
      /\ r \notin astray /\ \A t \in Session : t # s => call'[t] = call[t]
  BY AskAmendMoves, AskMoves, HistoryGrows DEF Ask
<1>2. \A t \in Session \ {s} : ~Amending(t, r) /\ ~AmendInHand(t, r)
  BY <1>1, AloneAmending DEF Amending
<1>3. \A t \in Session : ~AmendInHand(t, r)
  BY <1>1, <1>2 DEF AmendInHand
<1>4. row[r].bid /\ row[r].status # "none"
  BY <1>1 DEF CallsKnow, CallKnows, RowsKnow, Priced
<1>5. /\ broker[r].stop = row[r].stop /\ broker[r].tp = row[r].tp
      /\ call[s].read.stop = row[r].stop /\ call[s].read.tp = row[r].tp
  BY <1>1, <1>3, <1>4 DEF LevelsAgree, RowAgrees, CallAgrees
<1>6. ASSUME NEW t \in Session, t # s PROVE CallAgrees(t, r)' /\ ~AmendInHand(t, r)'
  <2>1. call'[t] = call[t] /\ ~Amending(t, r)
    BY <1>1, <1>2, <1>6
  <2>2. ~(Submitting(t) /\ call[t].row = r)
    BY <1>4 DEF CallsKnow, CallKnows, Submitting
  <2>3. ~(call[t].op = "amend" /\ call[t].row = r /\ call[t].at \in {"ask", "row"})
    BY <2>1 DEF Amending
  <2> QED
    BY <2>1, <2>2, <2>3 DEF CallAgrees, AmendInHand, Reading, Submitting
<1>7. CASE call'[s] = Idle /\ UNCHANGED broker
  <2>1. CallAgrees(s, r)' /\ ~AmendInHand(s, r)'
    BY <1>7 DEF CallAgrees, AmendInHand, Reading, Submitting, Idle
  <2> QED
    BY <1>1, <1>5, <1>6, <1>7, <2>1 DEF RowAgrees
<1>8. CASE /\ Answers(s)
           /\ broker'[r].stop = IF call[s].stop = NoLevel THEN broker[r].stop ELSE call[s].stop
           /\ broker'[r].tp = IF call[s].tp = NoLevel THEN broker[r].tp ELSE call[s].tp
  <2>1. AmendInHand(s, r)' /\ call'[s].read = call[s].read /\ call'[s].op = "amend"
    BY <1>1, <1>8 DEF Answers, AmendInHand
  <2>2. Asked(call'[s]).stop = broker'[r].stop /\ Asked(call'[s]).tp = broker'[r].tp
    BY <1>5, <1>8 DEF Answers, Asked
  <2>3. CallAgrees(s, r)'
    BY <1>1, <1>5, <2>1, <2>2 DEF CallAgrees, Submitting
  <2> QED
    BY <1>6, <2>1, <2>3 DEF RowAgrees
<1> QED
  BY <1>7, <1>8, AskAmendMoves

LEMMA AskSubmitLevels ==
  ASSUME BookTypeOK, CallsKnow, SubmitsAlone, [Next]_vars,
         NEW s \in Session, AskSubmit(s), NEW r \in Row, call[s].row = r
  PROVE  RowAgrees(r)' /\ \A t \in Session : CallAgrees(t, r)'
<1>1. /\ s = Api /\ Answers(s) /\ UNCHANGED row /\ ~row[r].bid /\ call'[s].op = "submit"
      /\ call'[s].reply.status # "failed" =>
           broker'[r].stop = call'[s].read.stop /\ broker'[r].tp = call'[s].read.tp
  BY AskSubmitMoves DEF Answers, AskSubmit, Asking
<1>2. ASSUME NEW t \in Session PROVE CallAgrees(t, r)'
  <2>1. CallKnows(t)'
    BY StepKnows DEF CallsKnow
  <2>2. ~(Reading(t)' /\ call'[t].row = r) /\ (Submitting(t)' => t = s)
    BY <1>1, <2>1 DEF CallKnows, Submitting
  <2> QED
    BY <1>1, <2>2 DEF CallAgrees
<1> QED
  BY <1>1, <1>2 DEF RowAgrees

LEMMA WriteRowLevels ==
  ASSUME BookTypeOK, CallsKnow, LevelsAgree, AmendsAlone, [Next]_vars,
         NEW s \in Session, WriteRow(s), NEW r \in Row, call[s].row = r, r \notin astray'
  PROVE  RowAgrees(r)' /\ \A t \in Session : CallAgrees(t, r)'
<1> DEFINE c == call[s]
<1>1. /\ c.at = "row" /\ UNCHANGED broker /\ call'[s].at \in {"pos", "idle"}
      /\ \A t \in Session : t # s => call'[t] = call[t]
      /\ c.op # "submit" => row[r].stop = c.read.stop /\ row[r].tp = c.read.tp
  BY WriteRowMoves DEF Idle
<1>2. /\ c.op \in {"refresh", "cancel"} => row'[r].stop = c.read.stop /\ row'[r].tp = c.read.tp
      /\ c.op = "amend" => row'[r].stop = Asked(c).stop /\ row'[r].tp = Asked(c).tp
      /\ c.op = "submit" => /\ row'[r].stop = c.read.stop /\ row'[r].tp = c.read.tp
                            /\ row'[r].bid => c.reply.status # "failed"
  BY WrittenLevels
<1>3. /\ c.op \in {"refresh", "cancel", "amend", "submit"}
      /\ c.op # "submit" => row[r].bid /\ row[r].status # "none"
      /\ c.op = "amend" => AmendInHand(s, r) /\ Amending(s, r)
      /\ c.op = "submit" => s = Api /\ Submitting(s) /\ row[r].status = "none" /\ ~row[r].bid
  BY <1>1 DEF CallsKnow, CallKnows, InHand, Reading, RowsKnow, Priced, AmendInHand, Amending, Submitting
<1>4. r \notin astray
  BY HistoryGrows
<1>5. RowAgrees(r) /\ \A t \in Session : CallAgrees(t, r)
  BY <1>4 DEF LevelsAgree
<1>6. c.op # "amend" => ~AmendInHand(s, r)
  BY DEF AmendInHand
<1>7. c.op = "amend" => row[r].bid /\ broker[r].stop = Asked(c).stop /\ broker[r].tp = Asked(c).tp
  BY <1>3, <1>5 DEF CallAgrees
<1>8. c.op = "submit" /\ c.reply.status # "failed" =>
        broker[r].stop = c.read.stop /\ broker[r].tp = c.read.tp
  BY <1>1, <1>3, <1>5 DEF CallAgrees
<1> HIDE DEF c
<1>9. ~AmendInHand(s, r)' /\ CallAgrees(s, r)'
  BY <1>1 DEF AmendInHand, CallAgrees, Reading, Submitting
<1>10. ASSUME NEW t \in Session, t # s
       PROVE  CallAgrees(t, r)' /\ (AmendInHand(t, r)' <=> AmendInHand(t, r))
  <2>1. call'[t] = call[t] /\ (AmendInHand(t, r)' <=> AmendInHand(t, r))
    BY <1>1, <1>10 DEF AmendInHand
  <2>2. ~(Submitting(t)' /\ call'[t].row = r)
    <3>1. Submitting(t) /\ call[t].row = r => t = Api /\ row[r].status = "none"
      BY DEF CallsKnow, CallKnows, Submitting
    <3> QED
      BY <1>3, <1>10, <2>1, <3>1 DEF Submitting
  <2>3. (Reading(t)' <=> Reading(t)) /\ (Reading(t) /\ call[t].row = r => row[r].bid)
    BY <2>1 DEF Reading, CallsKnow, CallKnows
  <2>4. AmendInHand(t, r) => Reading(t) /\ call[t].row = r
    BY DEF AmendInHand, Reading
  <2>5. CASE c.op \in {"refresh", "cancel"}
    <3>1. row'[r].stop = row[r].stop /\ row'[r].tp = row[r].tp
      BY <1>1, <1>2, <2>5
    <3> QED
      BY <1>1, <1>5, <2>1, <2>2, <2>3, <2>4, <3>1 DEF CallAgrees
  <2>6. CASE c.op = "amend"
    <3>1. ~Amending(t, r)
      BY <1>3, <1>4, <1>10, <2>6, AloneAmending
    <3>2. ~(call[t].op = "amend" /\ call[t].row = r /\ call[t].at \in {"ask", "row"})
      BY <3>1 DEF Amending
    <3> QED
      BY <2>1, <2>2, <3>2 DEF CallAgrees, AmendInHand, Reading
  <2>7. CASE c.op = "submit"
    BY <1>3, <2>1, <2>2, <2>3, <2>4, <2>7 DEF CallAgrees
  <2> QED
    BY <1>3, <2>5, <2>6, <2>7
<1>11. RowAgrees(r)'
  <2>1. CASE c.op \in {"refresh", "cancel"}
    BY <1>1, <1>2, <1>3, <1>5, <1>6, <1>10, <2>1 DEF RowAgrees
  <2>2. CASE c.op = "amend"
    BY <1>1, <1>2, <1>7, <2>2 DEF RowAgrees
  <2>3. CASE c.op = "submit"
    BY <1>1, <1>2, <1>8, <2>3 DEF RowAgrees
  <2> QED
    BY <1>3, <2>1, <2>2, <2>3
<1> QED
  BY <1>9, <1>10, <1>11

LEMMA OtherLevels ==
  ASSUME BookTypeOK, CallsKnow, LevelsAgree, [Next]_vars, NEW r \in Row, r \notin astray',
         \A s \in Session : call[s].row = r => ~AskAmend(s) /\ ~AskSubmit(s) /\ ~WriteRow(s)
  PROVE  RowAgrees(r)' /\ \A s \in Session : CallAgrees(s, r)'
<1>1. row'[r] = row[r]
  BY RowMoves, WrittenKnows
<1>2. broker'[r].stop = broker[r].stop /\ broker'[r].tp = broker[r].tp
  BY BrokerMoves DEF LevelMoves
<1>3. RowAgrees(r) /\ \A s \in Session : CallAgrees(s, r)
  BY HistoryGrows DEF LevelsAgree
<1>4. ASSUME NEW s \in Session
      PROVE  /\ AmendInHand(s, r) => call'[s] = call[s]
             /\ AmendInHand(s, r)' => call'[s] = call[s]
  <2>1. AmendInHand(s, r) => call'[s] = call[s]
    BY AmendEnds DEF AmendInHand
  <2>2. Answers(s) => ~AmendInHand(s, r)'
    BY AnsweringAsks DEF AmendInHand, Answers
  <2> QED
    BY <2>1, <2>2, CallMoves DEF AmendInHand, Begins, Idle
<1>5. ASSUME NEW s \in Session PROVE CallAgrees(s, r)'
  <2>1. AmendInHand(s, r)' => AmendInHand(s, r) /\ call'[s] = call[s]
    BY <1>4 DEF AmendInHand
  <2>2. Reading(s)' /\ call'[s].op = "amend" /\ call'[s].row = r =>
          \/ /\ Reading(s) /\ call[s].op = "amend" /\ call[s].row = r
             /\ call'[s].read = call[s].read
          \/ call'[s].read = row[r]
    BY CallMoves DEF Reading, Answers, Begins, Idle
  <2>3. Submitting(s)' /\ call'[s].at = "row" /\ call'[s].row = r => call'[s] = call[s]
    <3>1. Answers(s) => ~(Submitting(s)' /\ call'[s].row = r)
      BY AnsweringAsks DEF Answers, Submitting
    <3> QED
      BY <3>1, CallMoves DEF Begins, Idle, Submitting
  <2>4. CallAgrees(s, r)
    BY <1>3
  <2> QED
    BY <1>1, <1>2, <2>1, <2>2, <2>3, <2>4 DEF CallAgrees, Submitting
<1>6. RowAgrees(r)'
  <2>1. \A s \in Session : AmendInHand(s, r) => AmendInHand(s, r)'
    BY <1>4 DEF AmendInHand
  <2> QED
    BY <1>1, <1>2, <1>3, <2>1 DEF RowAgrees
<1> QED
  BY <1>5, <1>6

LEMMA LevelsStep ==
  ASSUME BookTypeOK, CallsKnow, SubmitsAlone, LevelsAgree, AmendsAlone, [Next]_vars
  PROVE  LevelsAgree'
<1> SUFFICES ASSUME NEW r \in Row, r \notin astray'
             PROVE  RowAgrees(r)' /\ \A s \in Session : CallAgrees(s, r)'
  BY DEF LevelsAgree
<1> QED
  BY AskAmendLevels, AskSubmitLevels, WriteRowLevels, OtherLevels

\* But for amendments and older copies a row keeps its levels.
LEMMA LevelsKept ==
  ASSUME BookTypeOK, CallsKnow, [Next]_vars, NEW r \in Row, r \notin astray',
         row[r].status # "none", \A s \in Session : ~AmendInHand(s, r)
  PROVE  row'[r].stop = row[r].stop /\ row'[r].tp = row[r].tp
<1>1. ASSUME NEW s \in Session, WriteRow(s), call[s].row = r
      PROVE  row'[r].stop = row[r].stop /\ row'[r].tp = row[r].tp
  <2>1. /\ call[s].at = "row" /\ call[s].op \in {"refresh", "cancel", "amend", "submit"}
        /\ call[s].op = "submit" => row[r].status = "none"
    BY <1>1, WriteRowMoves DEF CallsKnow, CallKnows, InHand, Submitting
  <2>2. call[s].op \in {"refresh", "cancel"}
    BY <1>1, <2>1 DEF AmendInHand
  <2> QED
    BY <1>1, <2>2, WriteRowMoves, WrittenLevels
<1>2. CASE \A s \in Session : call[s].row = r => ~WriteRow(s)
  BY <1>2, RowMoves, WrittenKnows
<1> QED
  BY <1>1, <1>2

\* A pass that is about to act was about to already, or has decided now.
LEMMA PassMoves ==
  ASSUME BookTypeOK, CallsKnow, [Next]_vars, NEW s \in Session, pass'[s].at = "act"
  PROVE  \/ /\ pass[s].at = "act" /\ pass'[s].order = pass[s].order
            /\ pass'[s].decision = pass[s].decision
         \/ /\ ListStates(s) /\ UNCHANGED row
            /\ pass'[s].order # 0 =>
                 Safer(row[pass'[s].order], pass'[s].decision.stop, pass'[s].decision.tp)
            /\ /\ pass'[s].order # 0 /\ pass'[s].decision.name \in Amendments
               /\ \E t \in Session \ {s} : Amending(t, pass'[s].order)
               => pass'[s].order \in astray'
<1>1. CASE pass'[s] = pass[s] \/ pass' = [pass EXCEPT ![s].ok = FALSE]
  BY <1>1 DEF BookTypeOK, Pass
<1>2. ~(pass' = [pass EXCEPT ![s] = Resting])
  BY DEF Resting, BookTypeOK
<1>3. CASE Steering(s)
  <2>1. ListStates(s)
    <3>1. BeginPass(s) => pass'[s].at = "sync"
      BY DEF BeginPass, Resting, BookTypeOK
    <3>2. SyncNext(s) => pass'[s].at = "sync"
      BY DEF SyncNext, BookTypeOK, Pass
    <3> QED
      BY <1>2, <1>3, <3>1, <3>2 DEF Steering, Act
  <2>2. PICK d \in Decision, o \in {0} \cup Row :
          /\ pass' = [pass EXCEPT ![s] =
                        [Resting EXCEPT !.at = "act", !.order = o, !.decision = d]]
          /\ o # 0 => Safer(row[o], d.stop, d.tp)
          /\ astray' = IF /\ o # 0 /\ d.name \in Amendments
                          /\ \E t \in Session \ {s} : Amending(t, o)
                       THEN astray \cup {o} ELSE astray
    BY <1>2, <2>1, ListStatesDecides
  <2>3. pass'[s].order = o /\ pass'[s].decision = d
    BY <2>2 DEF Resting, BookTypeOK
  <2>4. UNCHANGED row
    BY <2>1 DEF ListStates
  <2>5. pass'[s].order # 0 =>
          Safer(row[pass'[s].order], pass'[s].decision.stop, pass'[s].decision.tp)
    BY <2>2, <2>3
  <2>6. o # 0 /\ d.name \in Amendments /\ (\E t \in Session \ {s} : Amending(t, o))
        => o \in astray'
    BY <2>2
  <2>7. /\ pass'[s].order # 0 /\ pass'[s].decision.name \in Amendments
        /\ \E t \in Session \ {s} : Amending(t, pass'[s].order)
        => pass'[s].order \in astray'
    BY <2>3, <2>6
  <2> QED
    BY <2>1, <2>4, <2>5, <2>7
<1>4. ASSUME NEW t \in Session, Steering(t) \/ Crash(t), t # s PROVE pass'[s] = pass[s]
  BY <1>4 DEF Steering, BeginPass, SyncNext, ListStates, Act, Crash, BookTypeOK
<1>5. ASSUME NEW t \in Session, Ask(t) PROVE pass'[s] = pass[s] \/ pass' = [pass EXCEPT ![s].ok = FALSE]
  <2>1. pass' = pass \/ pass' = [pass EXCEPT ![t].ok = FALSE]
    BY <1>5 DEF Ask, AskRefresh, AskCancel, AskAmend, AskClose, AskSubmit, GivenUp
  <2> QED
    BY <2>1 DEF BookTypeOK
<1> QED
  BY <1>1, <1>2, <1>3, <1>4, <1>5, OperatorMoves, QuietMoves, WriteRowMoves, WritePositionMoves, CrashMoves
  DEF Next, Step

\* An amendment begins with what the pass has decided.
LEMMA AmendBegins ==
  ASSUME BookTypeOK, CallsKnow, [Next]_vars, NEW s \in Session,
         call'[s].op = "amend", call'[s].at = "ask", call'[s] # call[s]
  PROVE  /\ pass[s].at = "act" /\ pass[s].order # 0 /\ pass[s].order \in Row
         /\ pass[s].decision.name \in Amendments
         /\ call'[s].row = pass[s].order
         /\ call'[s].stop = pass[s].decision.stop /\ call'[s].tp = pass[s].decision.tp
         /\ UNCHANGED <<row, astray>>
<1>1. Steering(s)
  <2>1. ASSUME NEW t \in Session, Step(t) \/ Crash(t) PROVE FALSE
    <3>1. t = s
      BY <2>1, AskMoves, WriteRowMoves, WritePositionMoves, CrashMoves DEF Step
    <3> QED
      BY <2>1, <3>1, AskMoves, WriteRowMoves, WritePositionMoves, CrashMoves
      DEF Step, Idle, Answers
  <2>2. ~Operator
    <3>1. ASSUME Operator PROVE s = Api
      BY <3>1, OperatorMoves
    <3>2. ASSUME NEW r \in Row, RequestRefresh(r) \/ RequestCancel(r) PROVE call'[Api].op # "amend"
      BY <3>2, ConstantsTyped DEF RequestRefresh, RequestCancel, Begin, BookTypeOK
    <3>3. RequestClose => call'[Api].op # "amend"
      BY ConstantsTyped DEF RequestClose, BeginClose, BookTypeOK, Idle
    <3>4. ASSUME NEW r \in Row, NEW new \in Row, RequestResubmit(r, new) PROVE call'[Api].op # "amend"
      BY <3>4, ConstantsTyped DEF RequestResubmit, BookTypeOK, Idle
    <3> QED
      BY <3>1, <3>2, <3>3, <3>4 DEF Operator
  <2>3. ASSUME NEW t \in Session, Steering(t) PROVE t = s
    BY <2>3, SteeringMoves
  <2> QED
    BY <2>1, <2>2, <2>3, QuietMoves DEF Next
<1>2. Act(s)
  <2>1. SyncNext(s) => call'[s].op = "refresh"
    BY DEF SyncNext, Begin, BookTypeOK
  <2> QED
    BY <1>1, <2>1 DEF Steering, BeginPass, ListStates
<1> DEFINE o == pass[s].order
           d == pass[s].decision
<1>3. o # 0 => o \in Row
  BY BookAssumption DEF BookTypeOK, Pass, Row
<1>4. \/ o # 0 /\ Begin(s, "cancel", o, NoLevel, NoLevel)
      \/ o # 0 /\ d.name \in Amendments /\ Begin(s, "amend", o, d.stop, d.tp)
      \/ BeginClose(s) \/ UNCHANGED call
  BY <1>2 DEF Act
<1> HIDE DEF o, d
<1>5. ~Begin(s, "cancel", o, NoLevel, NoLevel) /\ ~BeginClose(s)
  <2>1. Begin(s, "cancel", o, NoLevel, NoLevel) => call'[s].op = "cancel"
    BY DEF Begin, BookTypeOK
  <2>2. BeginClose(s) => call'[s].op = "close"
    BY DEF BeginClose, BookTypeOK, Idle
  <2> QED
    BY <2>1, <2>2
<1>6. o # 0 /\ d.name \in Amendments /\ Begin(s, "amend", o, d.stop, d.tp)
  BY <1>4, <1>5
<1>7. call'[s].row = o /\ call'[s].stop = d.stop /\ call'[s].tp = d.tp
  BY <1>6 DEF Begin, BookTypeOK
<1> QED
  BY <1>2, <1>3, <1>6, <1>7 DEF Act, history, o, d

\* A process begins with an amendment when its pass decides on it, and the row is
\* astray then if the other is at one.
LEMMA AmendingMoves ==
  ASSUME BookTypeOK, CallsKnow, [Next]_vars, NEW s \in Session, NEW r \in Row,
         Amending(s, r)', ~Amending(s, r)
  PROVE  \A t \in Session \ {s} : /\ Amending(t, r) => r \in astray'
                                  /\ Amending(t, r)' => Amending(t, r)
<1>1. ListStates(s) /\ pass'[s].at = "act" /\ pass'[s].order = r /\ pass'[s].decision.name \in Amendments
  <2>1. CASE pass'[s].at = "act" /\ pass'[s].order = r /\ pass'[s].decision.name \in Amendments
    BY <2>1, PassMoves DEF Amending
  <2>2. CASE call'[s].op = "amend" /\ call'[s].row = r /\ call'[s].at \in {"ask", "row"}
    <3>1. call'[s] # call[s] /\ ~Answers(s) /\ ~(call'[s] = Idle) /\ call'[s].at # "pos"
      BY <2>2 DEF Amending, Answers, Idle
    <3>2. Begins(s)
      BY <3>1, CallMoves
    <3>3. call'[s].at = "ask"
      BY <3>2 DEF Begins
    <3> QED
      BY <2>2, <3>1, <3>3, AmendBegins DEF Amending
  <2> QED
    BY <2>1, <2>2 DEF Amending
<1>2. r # 0
  BY DEF Row
<1>3. ASSUME NEW t \in Session \ {s}, Amending(t, r) PROVE r \in astray'
  <2>1. pass'[s].at = "act" /\ pass[s].at = "sync"
    BY <1>1 DEF ListStates
  <2> QED
    BY <1>1, <1>2, <1>3, <2>1, PassMoves
<1>4. ASSUME NEW t \in Session \ {s}, Amending(t, r)' PROVE Amending(t, r)
  <2>1. call'[t] = call[t] /\ pass'[t] = pass[t]
    BY <1>1, <1>4 DEF ListStates, BookTypeOK
  <2> QED
    BY <1>4, <2>1 DEF Amending
<1> QED
  BY <1>3, <1>4

LEMMA AmendsAloneStep ==
  ASSUME BookTypeOK, CallsKnow, AmendsAlone, [Next]_vars
  PROVE  AmendsAlone'
<1> SUFFICES ASSUME NEW r \in Row, r \notin astray', NEW s \in Session, NEW t \in Session,
                    Amending(s, r)', Amending(t, r)', s # t
             PROVE  FALSE
  BY DEF AmendsAlone
<1>1. ~(Amending(s, r) /\ Amending(t, r))
  BY HistoryGrows DEF AmendsAlone
<1> QED
  BY <1>1, AmendingMoves

LEMMA DecisionsStep ==
  ASSUME BookTypeOK, CallsKnow, AmendsAlone, DecisionsSafer, [Next]_vars
  PROVE  DecisionsSafer'
<1> SUFFICES ASSUME NEW s \in Session
             PROVE  /\ /\ pass'[s].at = "act" /\ pass'[s].decision.name \in Amendments
                       /\ pass'[s].order # 0 /\ pass'[s].order \notin astray'
                       => Safer(row'[pass'[s].order], pass'[s].decision.stop, pass'[s].decision.tp)
                    /\ call'[s].op = "amend" /\ call'[s].at = "ask" /\ call'[s].row \notin astray' =>
                         Safer(row'[call'[s].row], call'[s].stop, call'[s].tp)
  BY DEF DecisionsSafer
<1>1. ASSUME pass'[s].at = "act", pass'[s].decision.name \in Amendments,
             pass'[s].order # 0, pass'[s].order \notin astray'
      PROVE  Safer(row'[pass'[s].order], pass'[s].decision.stop, pass'[s].decision.tp)
  <2>1. CASE /\ pass[s].at = "act" /\ pass'[s].order = pass[s].order
             /\ pass'[s].decision = pass[s].decision
    <3> DEFINE r == pass[s].order
    <3>1. r \in Row /\ r \notin astray /\ r # 0
      BY <1>1, <2>1, HistoryGrows, BookAssumption DEF BookTypeOK, Pass, Row
    <3>2. row[r].status # "none" /\ call[s].at = "idle" /\ Amending(s, r)
      BY <1>1, <2>1 DEF CallsKnow, PassKnows, Priced, Amending
    <3>3. \A t \in Session : ~AmendInHand(t, r)
      BY <3>1, <3>2, AloneAmending DEF AmendInHand
    <3>4. row'[r].stop = row[r].stop /\ row'[r].tp = row[r].tp
      BY <1>1, <2>1, <3>1, <3>2, <3>3, LevelsKept
    <3>5. Safer(row[r], pass[s].decision.stop, pass[s].decision.tp)
      BY <1>1, <2>1, <3>1 DEF DecisionsSafer
    <3> QED
      BY <2>1, <3>4, <3>5 DEF Safer
  <2>2. CASE /\ UNCHANGED row
             /\ Safer(row[pass'[s].order], pass'[s].decision.stop, pass'[s].decision.tp)
    BY <2>2 DEF Safer
  <2> QED
    BY <1>1, <2>1, <2>2, PassMoves
<1>2. ASSUME call'[s].op = "amend", call'[s].at = "ask", call'[s].row \notin astray'
      PROVE  Safer(row'[call'[s].row], call'[s].stop, call'[s].tp)
  <2>1. CASE call'[s] = call[s]
    <3> DEFINE r == call[s].row
    <3>1. Reading(s) /\ r \in Row /\ r \notin astray /\ row[r].status # "none" /\ Amending(s, r)
      BY <1>2, <2>1, HistoryGrows
      DEF Reading, Amending, CallsKnow, CallKnows, RowsKnow, Priced
    <3>2. \A t \in Session : ~AmendInHand(t, r)
      BY <1>2, <2>1, <3>1, AloneAmending DEF AmendInHand
    <3>3. row'[r].stop = row[r].stop /\ row'[r].tp = row[r].tp
      BY <1>2, <2>1, <3>1, <3>2, LevelsKept
    <3> QED
      BY <1>2, <2>1, <3>1, <3>3 DEF DecisionsSafer, Safer
  <2>2. CASE call'[s] # call[s]
    <3>1. /\ pass[s].at = "act" /\ pass[s].order # 0 /\ pass[s].decision.name \in Amendments
          /\ call'[s].row = pass[s].order
          /\ call'[s].stop = pass[s].decision.stop /\ call'[s].tp = pass[s].decision.tp
          /\ UNCHANGED <<row, astray>>
      BY <1>2, <2>2, AmendBegins
    <3>2. Safer(row[pass[s].order], pass[s].decision.stop, pass[s].decision.tp)
      BY <1>2, <3>1 DEF DecisionsSafer
    <3> QED
      BY <3>1, <3>2 DEF Safer
  <2> QED
    BY <2>1, <2>2
<1> QED
  BY <1>1, <1>2

LEMMA NeverLoosenedStep ==
  ASSUME BookTypeOK, CallsKnow, SubmitsAlone, LevelsAgree, AmendsAlone, DecisionsSafer, [Next]_vars,
         NEW r \in Row, r \notin astray, broker[r].state # "none"
  PROVE  broker'[r].stop >= broker[r].stop /\ broker'[r].tp <= broker[r].tp
<1>1. broker[r].stop \in Int /\ broker[r].tp \in Int
  BY DEF BookTypeOK, BrokerRow
<1>2. CASE broker'[r].stop = broker[r].stop /\ broker'[r].tp = broker[r].tp
  BY <1>1, <1>2
<1>3. ASSUME NEW s \in Session, AskAmend(s), call[s].row = r,
             broker'[r].stop = IF call[s].stop = NoLevel THEN broker[r].stop ELSE call[s].stop,
             broker'[r].tp = IF call[s].tp = NoLevel THEN broker[r].tp ELSE call[s].tp
      PROVE  broker'[r].stop >= broker[r].stop /\ broker'[r].tp <= broker[r].tp
  <2>1. Reading(s) /\ call[s].op = "amend" /\ call[s].at = "ask" /\ Amending(s, r)
    BY <1>3, AskAmendMoves DEF Amending
  <2>2. row[r].bid /\ \A t \in Session : ~AmendInHand(t, r)
    BY <1>3, <2>1, AloneAmending DEF AmendInHand, CallsKnow, CallKnows
  <2>3. broker[r].stop = row[r].stop /\ broker[r].tp = row[r].tp
    BY <2>2 DEF LevelsAgree, RowAgrees
  <2>4. Safer(row[r], call[s].stop, call[s].tp)
    BY <1>3, <2>1 DEF DecisionsSafer
  <2>5. (call[s].stop = NoLevel \/ call[s].stop \in Int) /\ (call[s].tp = NoLevel \/ call[s].tp \in Int)
    BY DEF BookTypeOK, Call, Level
  <2> QED
    BY <1>1, <1>3, <2>3, <2>4, <2>5 DEF Safer
<1>4. ASSUME NEW s \in Session, AskSubmit(s), call[s].row = r PROVE FALSE
  BY <1>4, SubmitAlone
<1> QED
  BY <1>2, <1>3, <1>4, BrokerMoves DEF LevelMoves

----------------------------------------------------------------------------
(* Rows and positions.                                                     *)

LEMMA AmendsUnsettledStep ==
  ASSUME BookTypeOK, CallsKnow, AnswersAreTrue, AmendsUnsettled, [Next]_vars
  PROVE  AmendsUnsettled'
<1> SUFFICES ASSUME NEW s \in Session, call'[s].op = "amend", call'[s].at = "row"
             PROVE  call'[s].read.status \notin {"win", "loss"}
  BY DEF AmendsUnsettled
<1>1. CASE call'[s] = call[s]
  BY <1>1 DEF AmendsUnsettled
<1>2. CASE Answers(s)
  <2>1. /\ call[s].op = "amend" /\ call[s].at = "ask"
        /\ call'[s].read = call[s].read
        /\ broker[call[s].row].state \notin {"win", "loss"}
    BY <1>2 DEF Answers
  <2> QED
    BY <2>1 DEF AnswersAreTrue, Reading
<1> QED
  BY <1>1, <1>2, CallMoves DEF Begins, Idle

\* A row is written as won or lost by a refresh that the broker told so.
LEMMA SettlingRefreshes ==
  ASSUME BookTypeOK, CallsKnow, AmendsUnsettled, NEW s \in Session, WriteRow(s),
         row'[call[s].row].status \in {"win", "loss"}
  PROVE  /\ call[s].reply.exit = row'[call[s].row].status
         /\ call'[s].at = "pos" /\ call'[s].row = call[s].row /\ call'[s].reply = call[s].reply
<1> DEFINE c == call[s]
           w == row'[call[s].row]
<1>1. /\ w = Written(c) /\ c.read \in OrderRow /\ c.reply \in Reply /\ c.reply.status # "none"
      /\ c.op \in {"refresh", "cancel", "amend", "submit"} /\ c.at = "row"
      /\ c.op = "submit" => c.reply.status \in {"new", "failed"} \cup Unlisted
      /\ c.op # "submit" => c.read.bid
      /\ c.op = "amend" => c.read.status \notin {"win", "loss"}
  BY WrittenKnows, WriteRowMoves
  DEF BookTypeOK, Call, CallsKnow, CallKnows, InHand, Reading, AmendsUnsettled
<1>2. w.status \in {"win", "loss"}
  OBVIOUS
<1> HIDE DEF c, w
<1>3. c.op = "refresh"
  <2>1. c.op = "cancel" => w.status = "canceled"
    BY <1>1 DEF Written, OrderRow
  <2>2. c.op = "amend" => w.status = c.read.status
    BY <1>1 DEF Written, OrderRow
  <2>3. c.op = "submit" => w.status = c.reply.status
    BY <1>1 DEF Written, OrderRow
  <2> QED
    BY <1>1, <1>2, <2>1, <2>2, <2>3, BookAssumption
<1>4. w.status = DeriveStatus(c.reply) /\ w.bid
  BY <1>1, <1>3 DEF Written, OrderRow
<1>5. c.reply.exit = w.status
  BY <1>1, <1>2, <1>4, DeriveStatusTyped
<1>6. Written(c).bid
  BY <1>1, <1>4
<1> QED
  BY <1>5, <1>6, WriteRowMoves DEF c, w

LEMMA OneAnswerStep ==
  ASSUME BookTypeOK, CallsKnow, SubmitsAlone, OutcomeIsTrue, OneAnswer, AmendsUnsettled, [Next]_vars
  PROVE  OneAnswer'
<1> SUFFICES ASSUME NEW r \in Row, r \notin torn'
    PROVE  /\ \A s, t \in Session : InHand(s)' /\ InHand(t)' /\ call'[s].row = r /\ call'[t].row = r => s = t
           /\ row'[r].status \in {"win", "loss"} =>
                /\ \/ pos'[r].status = row'[r].status
                   \/ \E s \in Session : call'[s].at = "pos" /\ call'[s].row = r
                /\ \A s \in Session : InHand(s)' /\ call'[s].row = r => call'[s].reply.exit = row'[r].status
  BY DEF OneAnswer
<1>1. /\ r \notin torn
      /\ \A s, t \in Session : InHand(s) /\ InHand(t) /\ call[s].row = r /\ call[t].row = r => s = t
      /\ row[r].status \in {"win", "loss"} =>
           /\ \/ pos[r].status = row[r].status
              \/ \E s \in Session : call[s].at = "pos" /\ call[s].row = r
           /\ \A s \in Session : InHand(s) /\ call[s].row = r => call[s].reply.exit = row[r].status
  BY HistoryGrows DEF OneAnswer
<1>2. ASSUME NEW s \in Session, InHand(s)', call'[s].row = r
      PROVE  /\ call[s].row = r /\ (InHand(s) \/ Answers(s))
             /\ ~Answers(s) => call'[s].reply = call[s].reply
  <2>1. call'[s] # Idle /\ ~Begins(s)
    BY <1>2 DEF InHand, Idle, Begins
  <2>2. WriteRow(s) => InHand(s)
    BY WriteRowMoves DEF InHand
  <2> QED
    BY <1>2, <2>1, <2>2, CallMoves DEF InHand, Answers
<1>3. ASSUME NEW s \in Session, Answers(s), call[s].row = r
      PROVE  /\ \A t \in Session \ {s} : InHand(t) => call[t].row # r
             /\ UNCHANGED <<row, pos>> /\ ~InHand(s) /\ call[s].at # "pos"
             /\ \A t \in Session : t # s => call'[t] = call[t]
             /\ row[r].status \in {"win", "loss"} => call'[s].reply.exit = row[r].status
  <2>1. /\ call[s].at = "ask" /\ UNCHANGED <<row, pos>>
        /\ \A t \in Session \ {s} : InHand(t) => call[t].row # r
        /\ call[s].op # "submit" /\ broker[r].state \in {"win", "loss"} =>
             call'[s].reply.exit = broker[r].state
    BY <1>3 DEF Answers
  <2>2. row[r].status \in {"win", "loss"} => broker[r].state = row[r].status /\ call[s].op # "submit"
    <3>1. call[s].op = "submit" => row[r].status = "none"
      BY <1>3, <2>1 DEF CallsKnow, CallKnows, Submitting
    <3> QED
      BY <3>1 DEF OutcomeIsTrue
  <2>3. \A t \in Session : t # s => call'[t] = call[t]
    BY <1>3, AnsweringAsks, AskMoves
  <2> QED
    BY <2>1, <2>2, <2>3 DEF InHand
<1>4. ASSUME NEW s \in Session, NEW t \in Session, InHand(s)', InHand(t)',
             call'[s].row = r, call'[t].row = r
      PROVE  s = t
  <2>1. Answers(s) => t = s
    <3>1. Answers(t) => call'[t] # call[t]
      BY DEF Answers
    <3>2. call[s].row = r /\ call[t].row = r /\ (InHand(t) \/ Answers(t))
      BY <1>2, <1>4
    <3> QED
      BY <1>3, <3>1, <3>2
  <2>2. Answers(t) => t = s
    <3>1. Answers(s) => call'[s] # call[s]
      BY DEF Answers
    <3>2. call[s].row = r /\ call[t].row = r /\ (InHand(s) \/ Answers(s))
      BY <1>2, <1>4
    <3> QED
      BY <1>3, <3>1, <3>2
  <2> QED
    BY <1>1, <1>2, <1>4, <2>1, <2>2
<1>5. ASSUME row'[r].status \in {"win", "loss"}
      PROVE  /\ \/ pos'[r].status = row'[r].status
                \/ \E s \in Session : call'[s].at = "pos" /\ call'[s].row = r
             /\ \A s \in Session : InHand(s)' /\ call'[s].row = r => call'[s].reply.exit = row'[r].status
  <2>1. ASSUME NEW s \in Session, WriteRow(s), call[s].row = r
        PROVE  <1>5!2
    <3>1. /\ call[s].reply.exit = row'[r].status
          /\ call'[s].at = "pos" /\ call'[s].row = r /\ call'[s].reply = call[s].reply
      BY <1>5, <2>1, SettlingRefreshes
    <3>2. \A t \in Session : InHand(t)' /\ call'[t].row = r => t = s
      BY <1>4, <3>1 DEF InHand
    <3> QED
      BY <3>1, <3>2
  <2>2. CASE \A s \in Session : call[s].row = r => ~WriteRow(s)
    <3>1. row'[r] = row[r]
      BY <2>2, RowMoves, WrittenKnows
    <3>2. \A s \in Session : InHand(s)' /\ call'[s].row = r => call'[s].reply.exit = row'[r].status
      BY <1>1, <1>2, <1>3, <1>5, <3>1
    <3>3. ASSUME NEW s \in Session, WritePosition(s), call[s].row = r
          PROVE  pos'[r].status = row'[r].status
      <4>1. pos'[r] = DerivePosition(call[s].reply) /\ call[s].reply \in Reply /\ InHand(s)
        BY <3>3, WritePositionMoves DEF BookTypeOK, Call, InHand
      <4>2. call[s].reply.exit = row[r].status
        BY <1>1, <1>5, <3>1, <3>3, <4>1
      <4> QED
        BY <1>5, <3>1, <4>1, <4>2, DerivePositionTyped
    <3>4. CASE \A s \in Session : call[s].row = r => ~WritePosition(s)
      <4>1. pos[r].status = row[r].status => pos'[r].status = pos[r].status
        <5>1. ASSUME NEW s \in Session, AskClose(s), pos[r].status \in {"win", "loss"}
              PROVE  pos'[r] = pos[r]
          BY <5>1 DEF AskClose, Closable, BookTypeOK
        <5>2. ASSUME NEW s \in Session, WritePosition(s) PROVE pos'[r] = pos[r]
          BY <3>4, <5>2, WritePositionMoves DEF BookTypeOK
        <5> QED
          BY <1>5, <3>1, <5>1, <5>2, PosMoves
      <4>2. ASSUME NEW s \in Session, call[s].at = "pos", call[s].row = r
            PROVE  call'[s].at = "pos" /\ call'[s].row = r
        <5>1. ~Crash(s)
          BY <4>2, CrashMoves
        <5>2. ~WritePosition(s) /\ ~WriteRow(s) /\ ~Ask(s)
          BY <3>4, <4>2, WriteRowMoves, AskMoves
        <5>3. ASSUME NEW t \in Session, t # s, Step(t) \/ Crash(t) PROVE call'[s] = call[s]
          BY <5>3, AskMoves, WriteRowMoves, WritePositionMoves, CrashMoves DEF Step
        <5>4. Operator \/ (\E u \in Session : Steering(u)) \/ Broker \/ UNCHANGED vars
               => call'[s] = call[s]
          BY <4>2, OperatorMoves, SteeringMoves, QuietMoves, ConstantsTyped DEF Begins
        <5>5. call'[s] = call[s]
          BY <5>1, <5>2, <5>3, <5>4 DEF Next, Step
        <5> QED
          BY <4>2, <5>5
      <4> QED
        BY <1>1, <1>5, <3>1, <3>2, <4>1, <4>2
    <3> QED
      BY <3>2, <3>3, <3>4
  <2> QED
    BY <2>1, <2>2
<1> QED
  BY <1>4, <1>5

----------------------------------------------------------------------------
(* The invariant, and the theorems.                                        *)

LEMMA InitInvariant ==
  ASSUME Init
  PROVE  IInv
<1>1. /\ \A r \in Row : pos[r] = NoPos
      /\ \A s \in Session : call[s] = Idle
      /\ \A s \in Session : pass[s] = Resting
  BY DEF Init
<1>12. ASSUME NEW r \in Row
      PROVE  /\ row[r].status \in {"new", "none"} /\ (row[r].status = "none" <=> ~row[r].bid)
             /\ row[r].bid => row[r].stop = Stop0 /\ row[r].tp = Tp0
             /\ broker[r].stop = Stop0 /\ broker[r].tp = Tp0
             /\ r # 1 => broker[r].state = "none"
  <2>1. CASE r = 1
    <3>1. row[r] = [status |-> "new", stop |-> Stop0, tp |-> Tp0, acct |-> Own, bid |-> TRUE]
          /\ broker[r] = [state |-> "working", stop |-> Stop0, tp |-> Tp0]
      BY <2>1 DEF Init
    <3> QED
      BY <2>1, <3>1
  <2>2. CASE r # 1
    <3>1. row[r] = NoOrder /\ broker[r] = [state |-> "none", stop |-> Stop0, tp |-> Tp0]
      BY <2>2 DEF Init
    <3> QED
      BY <3>1 DEF NoOrder
  <2> QED
    BY <2>1, <2>2
<1>2. Stop0 \in Int /\ Tp0 \in Int /\ Stop0 \in Level /\ Tp0 \in Level
  BY LevelsInt DEF Level
<1>3. BookTypeOK
  <2>1. [status |-> "new", stop |-> Stop0, tp |-> Tp0, acct |-> Own, bid |-> TRUE] \in OrderRow
    BY <1>2 DEF OrderRow, OrderStatus, Listed
  <2>2. [state |-> "working", stop |-> Stop0, tp |-> Tp0] \in BrokerRow
        /\ [state |-> "none", stop |-> Stop0, tp |-> Tp0] \in BrokerRow
    BY <1>2 DEF BrokerRow
  <2>3. row \in [Row -> OrderRow] /\ pos \in [Row -> PosRow] /\ call \in [Session -> Call]
    BY <2>1, ConstantsTyped DEF Init
  <2>4. broker \in [Row -> BrokerRow]
    BY <2>2 DEF Init
  <2> QED
    BY <2>3, <2>4, ConstantsTyped DEF Init, BookTypeOK
<1>4. CallsKnow
  <2>1. RowsKnow
    BY <1>12, <1>2 DEF RowsKnow, Priced
  <2>2. \A s \in Session : PassKnows(s)
    BY <1>1 DEF PassKnows, Resting
  <2>3. \A s \in Session : CallKnows(s)
    BY <1>1 DEF CallKnows, InHand, Reading, Submitting, Idle
  <2> QED
    BY <2>1, <2>2, <2>3 DEF CallsKnow
<1>5. SubmitsAlone
  <2>1. \A r \in Row : Live(r) => r = 1
    BY <1>12 DEF Live, Waiting, Holding
  <2>2. OneLive
    BY <2>1, OneLivePairwise
  <2> QED
    BY <1>1, <2>2 DEF SubmitsAlone, Submitting, Idle
<1>6. OutcomeIsTrue
  BY <1>1, <1>12 DEF OutcomeIsTrue, NoPos
<1>7. AnswersAreTrue
  BY <1>1 DEF AnswersAreTrue, Reading, InHand, Idle
<1>8. LevelsAgree
  <2>1. \A s \in Session : ~Reading(s) /\ ~Submitting(s) /\ \A r \in Row : ~AmendInHand(s, r)
    BY <1>1 DEF Reading, Submitting, AmendInHand, Idle
  <2>2. \A r \in Row : row[r].bid => broker[r].stop = row[r].stop /\ broker[r].tp = row[r].tp
    BY <1>12
  <2> QED
    BY <2>1, <2>2 DEF LevelsAgree, RowAgrees, CallAgrees
<1>9. AmendsAlone /\ DecisionsSafer
  BY <1>1 DEF AmendsAlone, Amending, DecisionsSafer, Resting, Idle
<1>10. OneAnswer
  BY <1>1, <1>12 DEF OneAnswer, InHand, Idle
<1>11. AmendsUnsettled
  BY <1>1 DEF AmendsUnsettled, Idle
<1> QED
  BY <1>3, <1>4, <1>5, <1>6, <1>7, <1>8, <1>9, <1>10, <1>11 DEF IInv

LEMMA StepInvariant ==
  ASSUME IInv, [Next]_vars
  PROVE  IInv'
BY StepTyped, StepKnows, AloneStep, OutcomeStep, AnswersStep, LevelsStep, AmendsAloneStep,
   DecisionsStep, OneAnswerStep, AmendsUnsettledStep DEF IInv

LEMMA SpecInvariant == Spec => []IInv
BY InitInvariant, StepInvariant, PTL DEF Spec

\* The rows, the positions, the broker's orders, the operations in hand and the
\* steering pass keep their shape, and an operation that reaches the broker or the
\* book is about a row that has what it needs: a broker id to ask with, levels to write.
THEOREM BookTypeCorrect == Spec => [](BookTypeOK /\ CallsKnow)
<1>1. IInv => BookTypeOK /\ CallsKnow
  BY DEF IInv
<1> QED
  BY <1>1, SpecInvariant, PTL

\* Whatever refreshes, cancellations and amendments write over each other, and
\* whichever process dies, a row or position that says won, lost or rejected says
\* what became of the order.
THEOREM OutcomesAreTrue == Spec => []OutcomeIsTrue
<1>1. IInv => OutcomeIsTrue
  BY DEF IInv
<1> QED
  BY <1>1, SpecInvariant, PTL

\* A row that says won or lost has a position that says the same as soon as no
\* operation is about it, unless two held answers about it at a time or one died
\* between its two writes.
THEOREM RowsAndPositionsSettle == Spec => []SettledTogether
<1>1. IInv => SettledTogether
  BY DEF IInv, OneAnswer, SettledTogether
<1> QED
  BY <1>1, SpecInvariant, PTL

\* However orders are canceled, lost and resubmitted, the broker never has two of
\* the plan's orders or positions at a time.
THEOREM NeverTwoLive == Spec => []OneLive
<1>1. IInv => OneLive
  BY DEF IInv, SubmitsAlone
<1> QED
  BY <1>1, SpecInvariant, PTL

\* However two steering passes, refreshes, cancellations and crashes come between
\* each other, no step lowers the broker's stop or raises its take-profit, but of a
\* row whose levels an older copy was written over, whose amendment was lost, or for
\* which two passes had amendments in hand at a time.
THEOREM ExitsNeverLoosen == Spec => NeverLoosened
<1> DEFINE Kept == \A r \in Row \ astray :
             broker[r].state # "none" =>
               broker'[r].stop >= broker[r].stop /\ broker'[r].tp <= broker[r].tp
<1>1. IInv /\ [Next]_vars => [Kept]_vars
  <2> SUFFICES ASSUME IInv, [Next]_vars PROVE Kept
    OBVIOUS
  <2> QED
    BY NeverLoosenedStep DEF IInv
<1>2. Spec => [][Kept]_vars
  BY <1>1, SpecInvariant, PTL DEF Spec
<1> QED
  BY <1>2 DEF NeverLoosened

=============================================================================
