----------------------------- MODULE BrokerOrders -----------------------------
(***************************************************************************)
(* Order submission to several broker accounts.                            *)
(*                                                                         *)
(*   services/multi_broker_execution.py        a pass over plans, accounts *)
(*   repositories/broker_order_executions.py   the rows                    *)
(*   repositories/broker_account_safety.py     circuit breakers            *)
(*   services/brokers/*.py                     the brokers' answers        *)
(*                                                                         *)
(* A proposal run ends with a pass that makes one candidate of each of its *)
(* plans and each enabled account and decides, submits and records them    *)
(* one after the other.  Several runs have their passes at the same time,  *)
(* on different workers.  One action is one database transaction or one    *)
(* call of the broker.                                                     *)
(*                                                                         *)
(* All caps of an account that count its active orders (open positions,    *)
(* same ticker, daily orders, and open notional for equal orders) are one  *)
(* cap.  Candidates are taken in any order, where the code goes by plan    *)
(* and account.  Orders do not end here: an active row stays active.       *)
(*                                                                         *)
(* There are three halts.  An account has its own.  The pass also reads    *)
(* broker_global_halt_enabled, which is FALSE here: no operation writes    *)
(* it.  The manual halt of the risk page is risk_halt_enabled, which a     *)
(* pass over several accounts does not read.                               *)
(***************************************************************************)
EXTENDS Integers, Sequences, FiniteSets

CONSTANTS
  Run,        \* proposal runs; RunQueue says that each is executed once
  Plan,       \* the plans of a run
  Account,    \* the enabled accounts
  Wanted,     \* the candidates: run, plan, account
  Cap,        \* active orders an account may have; 0: no cap
  ListLimit,  \* rows that a pass lists: 5000 in the code
  MaxPasses,  \* bound: passes ever begun
  Crashing,   \* runs whose process may die
  Manual,     \* the risk page's halt
  Halting,    \* the halts that operators give: of accounts, or Manual
  NoOrder

Candidate == Wanted \cap (Run \X Plan \X Account)

ASSUME OrderAssumption ==
  /\ Cap \in Nat /\ ListLimit \in Nat /\ MaxPasses \in Nat
  /\ NoOrder \notin Candidate
  /\ Crashing \subseteq Run
  /\ Manual \notin Account /\ Halting \subseteq Account \cup {Manual}

RunOf(c)     == c[1]
AccountOf(c) == c[3]

VARIABLES
  breaker,  \* accounts whose circuit breaker is active
  halts,    \* the halts in force
  row,      \* each candidate's row: "none", or its status
  ledger,   \* the candidates that have rows, in the order of creation
  sent,     \* candidates whose order was given to the adapter
  broker,   \* those whose order the broker accepted
  passes,   \* passes begun so far
  pc,       \* where each run's pass is
  listed,   \* the active orders it listed when it began
  seen,     \* the accounts it then read as halted
  left,     \* the candidates it has still to take
  cur,      \* the candidate in hand
  verdict,  \* the status it is about to record
  aware,    \* history: the orders that the pass knew of when it let a
            \* candidate pass the caps
  cleared,  \* history: candidates whose breaker an operator cleared after
            \* the broker's answer
  broken,   \* history: candidates whose connection broke, where a timeout
            \* of eToro is not meant
  under     \* history: the halts in force since before the pass began

history == <<aware, cleared, broken, under>>
pass == <<pc, listed, seen, left, cur, verdict>>
vars == <<breaker, halts, row, ledger, sent, broker, passes, pass, history>>

Statuses == {"skipped", "open", "failed", "needs_review"}

\* Every row and every pass is of the shape the code gives it, and a pass
\* that decides about an order has a candidate of its own run in hand.
TypeOK ==
  /\ breaker \subseteq Account
  /\ halts \subseteq Halting
  /\ row     \in [Candidate -> {"none"} \cup Statuses]
  /\ ledger  \in Seq(Candidate)
  /\ sent    \subseteq Candidate
  /\ broker  \subseteq sent
  /\ passes  \in Nat
  /\ pc      \in [Run -> {"idle", "pass", "send", "sent", "record", "done", "dead"}]
  /\ listed  \in [Run -> SUBSET Candidate]
  /\ seen    \in [Run -> SUBSET Account]
  /\ left    \in [Run -> SUBSET Candidate]
  /\ cur     \in [Run -> Candidate \cup {NoOrder}]
  /\ verdict \in [Run -> {"none"} \cup Statuses]
  /\ aware   \in [Candidate -> SUBSET Candidate]
  /\ cleared \subseteq Candidate
  /\ broken  \subseteq Candidate
  /\ under   \in [Run -> SUBSET Halting]
  /\ \A r \in Run : /\ pc[r] \in {"send", "sent", "record"} =>
                         cur[r] \in Candidate /\ RunOf(cur[r]) = r
                    /\ \A c \in left[r] : RunOf(c) = r

Init ==
  /\ breaker = {}
  /\ halts = {}
  /\ row = [c \in Candidate |-> "none"]
  /\ ledger = <<>>
  /\ sent = {}
  /\ broker = {}
  /\ passes = 0
  /\ pc = [r \in Run |-> "idle"]
  /\ listed = [r \in Run |-> {}]
  /\ seen = [r \in Run |-> {}]
  /\ left = [r \in Run |-> {}]
  /\ cur = [r \in Run |-> NoOrder]
  /\ verdict = [r \in Run |-> "none"]
  /\ aware = [c \in Candidate |-> {}]
  /\ cleared = {}
  /\ broken = {}
  /\ under = [r \in Run |-> {}]

Go(r, label) == pc' = [pc EXCEPT ![r] = label]

-----------------------------------------------------------------------------
(* A pass.                                                                 *)

\* list_all: the newest rows.
Newest == {ledger[i] : i \in {i \in 1..Len(ledger) : i > Len(ledger) - ListLimit}}

\* _is_active_order: needs_review counts as ended, like failed and skipped.
IsActive(c) == row[c] = "open"

\* Each plan of the run with each enabled account.
CandidatesOf(r) == {c \in Candidate : RunOf(c) = r}

\* What a pass has done of its candidates.
Done(r) == CandidatesOf(r) \ (left[r] \cup {cur[r]})

\* execute_plans up to its loop: orders and accounts are listed once.  The
\* queue executes a run once; a pass that is repeated after it ended is what
\* the check for duplicates is for.
Begin(r) ==
  /\ pc[r] \in {"idle", "done"}
  /\ passes < MaxPasses
  /\ passes' = passes + 1
  /\ listed' = [listed EXCEPT ![r] = {c \in Newest : IsActive(c)}]
  /\ seen' = [seen EXCEPT ![r] = halts \cap Account]
  /\ under' = [under EXCEPT ![r] = halts]
  /\ left' = [left EXCEPT ![r] = CandidatesOf(r)]
  /\ Go(r, "pass")
  /\ UNCHANGED <<breaker, halts, row, ledger, sent, broker, cur, verdict, aware,
                 cleared, broken>>

Take(r, c) ==
  /\ pc[r] = "pass"
  /\ c \in left[r]
  /\ left' = [left EXCEPT ![r] = @ \ {c}]

\* The candidate has a row: no second submission.
Duplicate(r, c) ==
  /\ Take(r, c)
  /\ row[c] # "none"
  /\ UNCHANGED <<breaker, halts, row, ledger, sent, broker, passes, pc, listed,
                 seen, cur, verdict, history>>

\* The active orders of account a that pass r counts: those listed and its
\* own.  An order that was listed and met again as a duplicate counts twice.
Counted(r, a) ==
  LET active(S) == {c \in S : AccountOf(c) = a /\ IsActive(c)}
  IN  Cardinality(active(listed[r])) + Cardinality(active(Done(r)))

\* Mutants of Allowed: the pass's own orders do not count; the breaker, or the
\* account's halt, is not looked at.
AllowedByList(r, c) ==
  LET a == AccountOf(c)
  IN  /\ a \notin seen[r] \cup breaker
      /\ Cap > 0 => Cardinality({d \in listed[r] : AccountOf(d) = a}) + 1 <= Cap

AllowedWithoutBreaker(r, c) ==
  LET a == AccountOf(c)
  IN  /\ a \notin seen[r]
      /\ Cap > 0 => Counted(r, a) + 1 <= Cap

AllowedWithoutHalt(r, c) ==
  LET a == AccountOf(c)
  IN  /\ a \notin breaker
      /\ Cap > 0 => Counted(r, a) + 1 <= Cap

\* The gates that read shared state: the account's halt as it was when the
\* pass began, the breaker as it is now, the caps.
Allowed(r, c) ==
  LET a == AccountOf(c)
  IN  /\ a \notin seen[r]
      /\ a \notin breaker
      /\ Cap > 0 => Counted(r, a) + 1 <= Cap

\* Mutant of Decide: does not look for a row.
DecideAnyway(r, c) ==
  /\ Take(r, c)
  /\ cur' = [cur EXCEPT ![r] = c]
  /\ \/ /\ Allowed(r, c)
        /\ Go(r, "send")
        /\ aware' = [aware EXCEPT ![c] = listed[r] \cup Done(r)]
        /\ UNCHANGED verdict
     \/ /\ Go(r, "record")
        /\ verdict' = [verdict EXCEPT ![r] = "skipped"]
        /\ UNCHANGED aware
  /\ UNCHANGED <<breaker, halts, row, ledger, sent, broker, passes, listed, seen,
                 cleared, broken, under>>

\* A candidate with no row passes the gates, or is skipped: by a gate, or for
\* its levels, its symbol or its instrument.
Decide(r, c) ==
  /\ Take(r, c)
  /\ row[c] = "none"
  /\ cur' = [cur EXCEPT ![r] = c]
  /\ \/ /\ Allowed(r, c)
        /\ Go(r, "send")
        /\ aware' = [aware EXCEPT ![c] = listed[r] \cup Done(r)]
        /\ UNCHANGED verdict
     \/ /\ Go(r, "record")
        /\ verdict' = [verdict EXCEPT ![r] = "skipped"]
        /\ UNCHANGED aware
  /\ UNCHANGED <<breaker, halts, row, ledger, sent, broker, passes, listed, seen,
                 cleared, broken, under>>

\* adapter.submit_order: the broker accepts the order, or refuses it or
\* never gets it.
Send(r) ==
  /\ pc[r] = "send"
  /\ sent' = sent \cup {cur[r]}
  /\ broker' \in {broker, broker \cup {cur[r]}}
  /\ Go(r, "sent")
  /\ UNCHANGED <<breaker, halts, row, ledger, passes, listed, seen, left, cur,
                 verdict, history>>

\* What becomes of an order: a timeout of eToro is ambiguous; any other error
\* of a connection, a 5xx answer, and a timeout of Alpaca, which is "broken"
\* here, leave it as open what the broker did.
Possible(answer, accepted) ==
  CASE answer = "accepted" -> accepted
    [] answer \in {"refused", "limited"} -> ~accepted
    [] answer \in {"timeout", "broken"} -> TRUE

Answers == {"accepted", "refused", "limited", "timeout", "broken"}

\* Mutant of Recorded: a timeout is a failure like any other.
RecordedAsFailed(answer) == IF answer = "accepted" THEN "open" ELSE "failed"

Recorded(answer) ==
  CASE answer = "accepted" -> "open"
    [] answer = "timeout" -> "needs_review"
    [] OTHER -> "failed"

\* Mutant of Answer: the breaker is for rate limits only.
AnswerWithoutBreaker(r, answer) ==
  /\ pc[r] = "sent"
  /\ Possible(answer, cur[r] \in broker)
  /\ verdict' = [verdict EXCEPT ![r] = Recorded(answer)]
  /\ breaker' = breaker \cup
       (IF answer = "limited" THEN {AccountOf(cur[r])} ELSE {})
  /\ broken' = broken \cup (IF answer = "broken" THEN {cur[r]} ELSE {})
  /\ Go(r, "record")
  /\ UNCHANGED <<halts, row, ledger, sent, broker, passes, listed, seen, left, cur,
                 aware, cleared, under>>

\* The answer, and the commit of activate_circuit_breaker where it is
\* ambiguous or a rate limit.
Answer(r, answer) ==
  /\ pc[r] = "sent"
  /\ Possible(answer, cur[r] \in broker)
  /\ verdict' = [verdict EXCEPT ![r] = Recorded(answer)]
  /\ breaker' = breaker \cup
       (IF answer \in {"limited", "timeout"} THEN {AccountOf(cur[r])} ELSE {})
  /\ broken' = broken \cup (IF answer = "broken" THEN {cur[r]} ELSE {})
  /\ Go(r, "record")
  /\ UNCHANGED <<halts, row, ledger, sent, broker, passes, listed, seen, left, cur,
                 aware, cleared, under>>

\* What a pass that has done with its candidate forgets.
Forget(r) ==
  /\ cur' = [cur EXCEPT ![r] = NoOrder]
  /\ verdict' = [verdict EXCEPT ![r] = "none"]

\* Mutants of CreateOnce: no row for an error; no row for a skip.
CreateUnlessFailed(c, status) ==
  IF row[c] = "none" /\ status # "failed"
  THEN /\ row' = [row EXCEPT ![c] = status]
       /\ ledger' = Append(ledger, c)
  ELSE UNCHANGED <<row, ledger>>

CreateUnlessSkipped(c, status) ==
  IF row[c] = "none" /\ status # "skipped"
  THEN /\ row' = [row EXCEPT ![c] = status]
       /\ ledger' = Append(ledger, c)
  ELSE UNCHANGED <<row, ledger>>

\* create_candidate_once.
CreateOnce(c, status) ==
  IF row[c] = "none"
  THEN /\ row' = [row EXCEPT ![c] = status]
       /\ ledger' = Append(ledger, c)
  ELSE UNCHANGED <<row, ledger>>

\* The candidate's row is written, for a skipped one, too.
Record(r) ==
  /\ pc[r] = "record"
  /\ CreateOnce(cur[r], verdict[r])
  /\ Forget(r)
  /\ Go(r, "pass")
  /\ UNCHANGED <<breaker, halts, sent, broker, passes, listed, seen, left, history>>

End(r) ==
  /\ pc[r] = "pass"
  /\ left[r] = {}
  /\ Go(r, "done")
  /\ listed' = [listed EXCEPT ![r] = {}]
  /\ seen' = [seen EXCEPT ![r] = {}]
  /\ under' = [under EXCEPT ![r] = {}]
  /\ UNCHANGED <<breaker, halts, row, ledger, sent, broker, passes, left, cur,
                 verdict, aware, cleared, broken>>

-----------------------------------------------------------------------------
(* Operators and crashes.                                                  *)

Answered(c) ==
  row[c] # "none" \/ (cur[RunOf(c)] = c /\ pc[RunOf(c)] = "record")

\* clear_circuit_breaker: an operator gives a reason.
ClearBreaker(a) ==
  /\ a \in breaker
  /\ breaker' = breaker \ {a}
  /\ cleared' = cleared \cup {c \in sent : AccountOf(c) = a /\ Answered(c)}
  /\ UNCHANGED <<halts, row, ledger, sent, broker, passes, pass, aware, broken, under>>

\* update_broker_account and halt_trading: an account's halt, or the manual.
Halt(h) ==
  /\ halts' = halts \cup {h}
  /\ UNCHANGED <<breaker, row, ledger, sent, broker, passes, pass, history>>

Resume(h) ==
  /\ h \in halts
  /\ halts' = halts \ {h}
  /\ under' = [r \in Run |-> under[r] \ {h}]
  /\ UNCHANGED <<breaker, row, ledger, sent, broker, passes, pass, aware, cleared,
                 broken>>

\* The worker dies, or the pass raises outside the adapter's try block; the
\* queue does not execute the run again.
Crash(r) ==
  /\ r \in Crashing
  /\ pc[r] \in {"pass", "send", "sent", "record"}
  /\ Go(r, "dead")
  /\ Forget(r)
  /\ left' = [left EXCEPT ![r] = {}]
  /\ listed' = [listed EXCEPT ![r] = {}]
  /\ seen' = [seen EXCEPT ![r] = {}]
  /\ under' = [under EXCEPT ![r] = {}]
  /\ UNCHANGED <<breaker, halts, row, ledger, sent, broker, passes, aware, cleared,
                 broken>>

-----------------------------------------------------------------------------

PassStep(r) ==
  \/ Begin(r) \/ End(r) \/ Send(r) \/ Record(r)
  \/ \E c \in Candidate : Duplicate(r, c) \/ Decide(r, c)
  \/ \E answer \in Answers : Answer(r, answer)

Next ==
  \/ \E r \in Run : PassStep(r) \/ Crash(r)
  \/ \E a \in Account : ClearBreaker(a)
  \/ \E h \in Halting : Halt(h) \/ Resume(h)

Spec == Init /\ [][Next]_vars

-----------------------------------------------------------------------------
(* Properties.                                                             *)

InHand(c) ==
  /\ pc[RunOf(c)] \in {"send", "sent", "record"}
  /\ cur[RunOf(c)] = c

\* An order that the broker was given and that has no row is being handled,
\* or its process died between the broker and the database.  Nothing else
\* loses one: the row is written after every answer, even an error.
NoSilentOrder ==
  \A c \in sent : row[c] = "none" => InHand(c) \/ pc[RunOf(c)] = "dead"

\* A pass that ended has left a row for each of its candidates, skipped ones
\* included.
AuditIsComplete ==
  \A r \in Run : pc[r] = "done" =>
    \A c \in CandidatesOf(r) : row[c] # "none"

\* An account with an order of unknown outcome is closed to new submissions
\* until an operator has cleared its breaker, which is active before the row
\* says needs_review.
UnknownClosesAccount ==
  \A c \in Candidate :
    row[c] = "needs_review" => AccountOf(c) \in breaker \/ c \in cleared

\* A pass never goes on with an account after one of its own orders there
\* came back ambiguous, unless an operator cleared the breaker in between.
NoSendAfterUnknown ==
  \A r \in Run : pc[r] \in {"send", "sent"} =>
    \A c \in Done(r) :
      (row[c] = "needs_review" /\ AccountOf(c) = AccountOf(cur[r])) => c \in cleared

ActiveOf(a) == {c \in Candidate : AccountOf(c) = a /\ IsActive(c)}

\* An account exceeds its cap only by passes that overlapped, each unaware of
\* an active order of the other: one pass after the other cannot, as long as
\* the list of orders a pass reads is not cut off.
CapNeedsOverlap ==
  (Cap > 0 /\ Len(ledger) <= ListLimit) =>
    \A a \in Account : Cardinality(ActiveOf(a)) > Cap =>
      \E c, d \in ActiveOf(a) :
        /\ RunOf(c) # RunOf(d)
        /\ c \notin aware[d] /\ d \notin aware[c]

\* Each candidate is submitted at most once and recorded at most once, after
\* its submission, through repeated passes, operators and crashes.
Orders ==
  INSTANCE OrderOnce
  WITH Outcome <- Statuses, None <- "none", Skipped <- "skipped",
       submitted <- sent, recorded <- row

SubmitsOnce == Orders!Spec

\* An order that is open at the broker is known as open or for review, unless
\* its connection broke in another way than by a timeout of eToro.
OpenIsKnown ==
  \A c \in Candidate :
    c \in broker /\ row[c] # "none" =>
      row[c] \in {"open", "needs_review"} \/ c \in broken

\* A pass that began after an account was halted submits nothing there before
\* the halt is lifted.  A pass in progress does not stop: it read the halts
\* when it began.
HaltStopsLaterPasses ==
  \A r \in Run : pc[r] \in {"send", "sent"} => AccountOf(cur[r]) \notin under[r]

\* The same of the manual halt: "absolute", it "blocks new submissions".
ManualHaltStopsLaterPasses ==
  \A r \in Run : pc[r] \in {"send", "sent"} => Manual \notin under[r]
=============================================================================
