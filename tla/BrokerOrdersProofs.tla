-------------------------- MODULE BrokerOrdersProofs --------------------------
(***************************************************************************)
(* Theorems about BrokerOrders, for any runs, plans, accounts and caps.    *)
(***************************************************************************)
EXTENDS BrokerOrders, FiniteSetTheorems, TLAPS

LEMMA CandidateParts ==
  ASSUME NEW c \in Candidate
  PROVE  RunOf(c) \in Run /\ AccountOf(c) \in Account /\ c # NoOrder
BY OrderAssumption DEF Candidate, RunOf, AccountOf

-----------------------------------------------------------------------------
(* Type correctness.                                                       *)

LEMMA NewestType ==
  ASSUME ledger \in Seq(Candidate)
  PROVE  Newest \subseteq Candidate
BY DEF Newest

LEMMA TypeStep ==
  ASSUME TypeOK, Next
  PROVE  TypeOK'
<1> USE DEF TypeOK, Go, Statuses, history, CandidatesOf
<1>1. ASSUME NEW r \in Run, PassStep(r) \/ Crash(r)
      PROVE  TypeOK'
  <2>1. CASE Begin(r)
    BY <2>1, CandidateParts, NewestType DEF Begin, CandidatesOf, IsActive
  <2>2. CASE End(r)
    BY <2>2, CandidateParts DEF End
  <2>3. CASE Send(r)
    BY <2>3, CandidateParts DEF Send
  <2>4. CASE Record(r)
    <3>1. cur[r] \in Candidate /\ verdict[r] \in {"none"} \cup Statuses
      BY <2>4 DEF Record
    <3>2. CASE row[cur[r]] = "none"
      <4>1. row' = [row EXCEPT ![cur[r]] = verdict[r]]
            /\ ledger' = Append(ledger, cur[r])
        BY <2>4, <3>2 DEF Record, CreateOnce
      <4> QED
        BY <2>4, <3>1, <4>1, CandidateParts DEF Record, Forget
    <3>3. CASE row[cur[r]] # "none"
      BY <2>4, <3>3, CandidateParts DEF Record, CreateOnce, Forget
    <3> QED
      BY <3>2, <3>3
  <2>5. ASSUME NEW c \in Candidate, Duplicate(r, c)
        PROVE  TypeOK'
    BY <2>5, CandidateParts DEF Duplicate, Take
  <2>6. ASSUME NEW c \in Candidate, Decide(r, c)
        PROVE  TypeOK'
    <3>1. CASE /\ Go(r, "send")
               /\ aware' = [aware EXCEPT ![c] = listed[r] \cup Done(r)]
               /\ UNCHANGED verdict
      <4>1. listed[r] \cup Done(r) \in SUBSET Candidate
        BY DEF Done
      <4>2. aware' \in [Candidate -> SUBSET Candidate]
        BY <3>1, <4>1
      <4> QED
        BY <2>6, <3>1, <4>2, CandidateParts DEF Decide, Take
    <3>2. CASE /\ Go(r, "record")
               /\ verdict' = [verdict EXCEPT ![r] = "skipped"]
               /\ UNCHANGED aware
      BY <2>6, <3>2, CandidateParts DEF Decide, Take
    <3> QED
      BY <2>6, <3>1, <3>2 DEF Decide
  <2>7. ASSUME NEW answer \in Answers, Answer(r, answer)
        PROVE  TypeOK'
    BY <2>7, CandidateParts DEF Answer, Recorded
  <2>8. CASE Crash(r)
    BY <2>8, CandidateParts DEF Crash, Forget
  <2> QED
    BY <1>1, <2>1, <2>2, <2>3, <2>4, <2>5, <2>6, <2>7, <2>8 DEF PassStep
<1>2. ASSUME NEW a \in Account, ClearBreaker(a)
      PROVE  TypeOK'
  BY <1>2, CandidateParts DEF ClearBreaker, pass
<1>3. ASSUME NEW h \in Halting, Halt(h) \/ Resume(h)
      PROVE  TypeOK'
  BY <1>3, CandidateParts DEF Halt, Resume, pass
<1> QED
  BY <1>1, <1>2, <1>3 DEF Next

\* Rows and passes keep their shape, and a pass only ever handles candidates
\* of its own run, whatever the operators do and wherever it dies.
THEOREM OrdersTypeCorrect == Spec => []TypeOK
<1>1. Init => TypeOK
  BY DEF Init, TypeOK
<1>2. TypeOK /\ [Next]_vars => TypeOK'
  <2>1. CASE UNCHANGED vars
    BY <2>1 DEF vars, pass, history, TypeOK
  <2> QED
    BY <2>1, TypeStep
<1> QED
  BY <1>1, <1>2, PTL DEF Spec

-----------------------------------------------------------------------------
(* What a pass knows of its candidates.                                    *)

\* The candidate in hand has no row yet, was given to the broker exactly when
\* the step says so, and is about to be recorded as skipped exactly when it
\* was not.
InHandOK ==
  \A r \in Run :
    /\ pc[r] \in {"send", "sent", "record"} => row[cur[r]] = "none"
    /\ pc[r] = "send" => cur[r] \notin sent
    /\ pc[r] = "sent" => cur[r] \in sent
    /\ pc[r] = "record" => /\ verdict[r] \in Statuses
                           /\ verdict[r] = "skipped" <=> cur[r] \notin sent

\* Of the candidates it has taken only the one in hand has no row.
TakenRecorded ==
  \A r \in Run : pc[r] \in {"pass", "send", "sent", "record"} =>
    \A c \in CandidatesOf(r) \ left[r] :
      row[c] = "none" => pc[r] # "pass" /\ c = cur[r]

\* The inductive invariant: without InHandOK a second submission of the
\* candidate in hand could not be excluded, without TakenRecorded a pass could
\* end with a candidate that has no row.
Accounted ==
  TypeOK /\ InHandOK /\ TakenRecorded /\ NoSilentOrder /\ AuditIsComplete

LEMMA InHandStep ==
  ASSUME Accounted, TypeOK', Next
  PROVE  InHandOK'
<1> USE DEF Accounted, InHandOK, TakenRecorded, NoSilentOrder,
            AuditIsComplete, TypeOK, Go, InHand, Statuses, history,
            CandidatesOf
<1>1. ASSUME NEW r \in Run, PassStep(r) \/ Crash(r)
      PROVE  InHandOK'
  <2>1. CASE Begin(r)
    BY <2>1, CandidateParts DEF Begin, CandidatesOf
  <2>2. CASE End(r)
    BY <2>2, CandidateParts DEF End
  <2>3. CASE Send(r)
    BY <2>3, CandidateParts DEF Send
  <2>4. CASE Record(r)
    <3>1. /\ cur[r] \in CandidatesOf(r) /\ verdict[r] # "none"
          /\ row' = [row EXCEPT ![cur[r]] = verdict[r]]
      BY <2>4 DEF Record, CreateOnce
    <3> QED
      BY <2>4, <3>1, CandidateParts DEF Record, Forget
  <2>5. ASSUME NEW c \in Candidate, Duplicate(r, c)
        PROVE  InHandOK'
    BY <2>5, CandidateParts DEF Duplicate, Take
  <2>6. ASSUME NEW c \in Candidate, Decide(r, c)
        PROVE  InHandOK'
    <3>1. CASE /\ Go(r, "send")
               /\ aware' = [aware EXCEPT ![c] = listed[r] \cup Done(r)]
               /\ UNCHANGED verdict
      BY <2>6, <3>1, CandidateParts DEF Decide, Take
    <3>2. CASE /\ Go(r, "record")
               /\ verdict' = [verdict EXCEPT ![r] = "skipped"]
               /\ UNCHANGED aware
      BY <2>6, <3>2, CandidateParts DEF Decide, Take
    <3> QED
      BY <2>6, <3>1, <3>2 DEF Decide
  <2>7. ASSUME NEW answer \in Answers, Answer(r, answer)
        PROVE  InHandOK'
    BY <2>7, CandidateParts DEF Answer, Recorded
  <2>8. CASE Crash(r)
    BY <2>8, CandidateParts DEF Crash, Forget
  <2> QED
    BY <1>1, <2>1, <2>2, <2>3, <2>4, <2>5, <2>6, <2>7, <2>8 DEF PassStep
<1>2. ASSUME NEW a \in Account, ClearBreaker(a)
      PROVE  InHandOK'
  BY <1>2, CandidateParts DEF ClearBreaker, pass
<1>3. ASSUME NEW h \in Halting, Halt(h) \/ Resume(h)
      PROVE  InHandOK'
  BY <1>3, CandidateParts DEF Halt, Resume, pass
<1> QED
  BY <1>1, <1>2, <1>3 DEF Next

LEMMA TakenStep ==
  ASSUME Accounted, TypeOK', Next
  PROVE  TakenRecorded'
<1> USE DEF Accounted, InHandOK, TakenRecorded, NoSilentOrder,
            AuditIsComplete, TypeOK, Go, InHand, Statuses, history,
            CandidatesOf
<1>1. ASSUME NEW r \in Run, PassStep(r) \/ Crash(r)
      PROVE  TakenRecorded'
  <2>1. CASE Begin(r)
    BY <2>1, CandidateParts DEF Begin, CandidatesOf
  <2>2. CASE End(r)
    BY <2>2, CandidateParts DEF End
  <2>3. CASE Send(r)
    BY <2>3, CandidateParts DEF Send
  <2>4. CASE Record(r)
    <3>1. /\ cur[r] \in CandidatesOf(r) /\ verdict[r] # "none"
          /\ row' = [row EXCEPT ![cur[r]] = verdict[r]]
      BY <2>4 DEF Record, CreateOnce
    <3> QED
      BY <2>4, <3>1, CandidateParts DEF Record, Forget
  <2>5. ASSUME NEW c \in Candidate, Duplicate(r, c)
        PROVE  TakenRecorded'
    BY <2>5, CandidateParts DEF Duplicate, Take
  <2>6. ASSUME NEW c \in Candidate, Decide(r, c)
        PROVE  TakenRecorded'
    <3>1. CASE /\ Go(r, "send")
               /\ aware' = [aware EXCEPT ![c] = listed[r] \cup Done(r)]
               /\ UNCHANGED verdict
      BY <2>6, <3>1, CandidateParts DEF Decide, Take
    <3>2. CASE /\ Go(r, "record")
               /\ verdict' = [verdict EXCEPT ![r] = "skipped"]
               /\ UNCHANGED aware
      BY <2>6, <3>2, CandidateParts DEF Decide, Take
    <3> QED
      BY <2>6, <3>1, <3>2 DEF Decide
  <2>7. ASSUME NEW answer \in Answers, Answer(r, answer)
        PROVE  TakenRecorded'
    BY <2>7, CandidateParts DEF Answer, Recorded
  <2>8. CASE Crash(r)
    BY <2>8, CandidateParts DEF Crash, Forget
  <2> QED
    BY <1>1, <2>1, <2>2, <2>3, <2>4, <2>5, <2>6, <2>7, <2>8 DEF PassStep
<1>2. ASSUME NEW a \in Account, ClearBreaker(a)
      PROVE  TakenRecorded'
  BY <1>2, CandidateParts DEF ClearBreaker, pass
<1>3. ASSUME NEW h \in Halting, Halt(h) \/ Resume(h)
      PROVE  TakenRecorded'
  BY <1>3, CandidateParts DEF Halt, Resume, pass
<1> QED
  BY <1>1, <1>2, <1>3 DEF Next

LEMMA SilentStep ==
  ASSUME Accounted, TypeOK', Next
  PROVE  NoSilentOrder'
<1> USE DEF Accounted, InHandOK, TakenRecorded, NoSilentOrder,
            AuditIsComplete, TypeOK, Go, InHand, Statuses, history,
            CandidatesOf
<1>1. ASSUME NEW r \in Run, PassStep(r) \/ Crash(r)
      PROVE  NoSilentOrder'
  <2>1. CASE Begin(r)
    BY <2>1, CandidateParts DEF Begin, CandidatesOf
  <2>2. CASE End(r)
    BY <2>2, CandidateParts DEF End
  <2>3. CASE Send(r)
    BY <2>3, CandidateParts DEF Send
  <2>4. CASE Record(r)
    <3>1. /\ cur[r] \in CandidatesOf(r) /\ verdict[r] # "none"
          /\ row' = [row EXCEPT ![cur[r]] = verdict[r]]
      BY <2>4 DEF Record, CreateOnce
    <3> QED
      BY <2>4, <3>1, CandidateParts DEF Record, Forget
  <2>5. ASSUME NEW c \in Candidate, Duplicate(r, c)
        PROVE  NoSilentOrder'
    BY <2>5, CandidateParts DEF Duplicate, Take
  <2>6. ASSUME NEW c \in Candidate, Decide(r, c)
        PROVE  NoSilentOrder'
    <3>1. CASE /\ Go(r, "send")
               /\ aware' = [aware EXCEPT ![c] = listed[r] \cup Done(r)]
               /\ UNCHANGED verdict
      BY <2>6, <3>1, CandidateParts DEF Decide, Take
    <3>2. CASE /\ Go(r, "record")
               /\ verdict' = [verdict EXCEPT ![r] = "skipped"]
               /\ UNCHANGED aware
      BY <2>6, <3>2, CandidateParts DEF Decide, Take
    <3> QED
      BY <2>6, <3>1, <3>2 DEF Decide
  <2>7. ASSUME NEW answer \in Answers, Answer(r, answer)
        PROVE  NoSilentOrder'
    BY <2>7, CandidateParts DEF Answer, Recorded
  <2>8. CASE Crash(r)
    BY <2>8, CandidateParts DEF Crash, Forget
  <2> QED
    BY <1>1, <2>1, <2>2, <2>3, <2>4, <2>5, <2>6, <2>7, <2>8 DEF PassStep
<1>2. ASSUME NEW a \in Account, ClearBreaker(a)
      PROVE  NoSilentOrder'
  BY <1>2, CandidateParts DEF ClearBreaker, pass
<1>3. ASSUME NEW h \in Halting, Halt(h) \/ Resume(h)
      PROVE  NoSilentOrder'
  BY <1>3, CandidateParts DEF Halt, Resume, pass
<1> QED
  BY <1>1, <1>2, <1>3 DEF Next

LEMMA AuditStep ==
  ASSUME Accounted, TypeOK', Next
  PROVE  AuditIsComplete'
<1> USE DEF Accounted, InHandOK, TakenRecorded, NoSilentOrder,
            AuditIsComplete, TypeOK, Go, InHand, Statuses, history,
            CandidatesOf
<1>1. ASSUME NEW r \in Run, PassStep(r) \/ Crash(r)
      PROVE  AuditIsComplete'
  <2>1. CASE Begin(r)
    BY <2>1, CandidateParts DEF Begin, CandidatesOf
  <2>2. CASE End(r)
    BY <2>2, CandidateParts DEF End
  <2>3. CASE Send(r)
    BY <2>3, CandidateParts DEF Send
  <2>4. CASE Record(r)
    <3>1. /\ cur[r] \in CandidatesOf(r) /\ verdict[r] # "none"
          /\ row' = [row EXCEPT ![cur[r]] = verdict[r]]
      BY <2>4 DEF Record, CreateOnce
    <3> QED
      BY <2>4, <3>1, CandidateParts DEF Record, Forget
  <2>5. ASSUME NEW c \in Candidate, Duplicate(r, c)
        PROVE  AuditIsComplete'
    BY <2>5, CandidateParts DEF Duplicate, Take
  <2>6. ASSUME NEW c \in Candidate, Decide(r, c)
        PROVE  AuditIsComplete'
    <3>1. CASE /\ Go(r, "send")
               /\ aware' = [aware EXCEPT ![c] = listed[r] \cup Done(r)]
               /\ UNCHANGED verdict
      BY <2>6, <3>1, CandidateParts DEF Decide, Take
    <3>2. CASE /\ Go(r, "record")
               /\ verdict' = [verdict EXCEPT ![r] = "skipped"]
               /\ UNCHANGED aware
      BY <2>6, <3>2, CandidateParts DEF Decide, Take
    <3> QED
      BY <2>6, <3>1, <3>2 DEF Decide
  <2>7. ASSUME NEW answer \in Answers, Answer(r, answer)
        PROVE  AuditIsComplete'
    BY <2>7, CandidateParts DEF Answer, Recorded
  <2>8. CASE Crash(r)
    BY <2>8, CandidateParts DEF Crash, Forget
  <2> QED
    BY <1>1, <2>1, <2>2, <2>3, <2>4, <2>5, <2>6, <2>7, <2>8 DEF PassStep
<1>2. ASSUME NEW a \in Account, ClearBreaker(a)
      PROVE  AuditIsComplete'
  BY <1>2, CandidateParts DEF ClearBreaker, pass
<1>3. ASSUME NEW h \in Halting, Halt(h) \/ Resume(h)
      PROVE  AuditIsComplete'
  BY <1>3, CandidateParts DEF Halt, Resume, pass
<1> QED
  BY <1>1, <1>2, <1>3 DEF Next

LEMMA AccountedHolds == Spec => []Accounted
<1>1. Init => Accounted
  BY DEF Init, Accounted, TypeOK, InHandOK, TakenRecorded, NoSilentOrder,
         AuditIsComplete
<1>2. Accounted /\ [Next]_vars => Accounted'
  <2>1. CASE UNCHANGED vars
    BY <2>1 DEF vars, pass, history, Accounted, TypeOK, InHandOK, TakenRecorded,
                NoSilentOrder, AuditIsComplete, InHand, CandidatesOf
  <2>2. CASE Next /\ Accounted
    <3>1. TypeOK'
      BY <2>2, TypeStep DEF Accounted
    <3> QED
      BY <2>2, <3>1, InHandStep, TakenStep, SilentStep, AuditStep DEF Accounted
  <2> QED
    BY <2>1, <2>2
<1> QED
  BY <1>1, <1>2, PTL DEF Spec

\* No order is lost without a trace: one with no row is in hand, or the
\* process that had it is dead.
THEOREM NoOrderIsSilent == Spec => []NoSilentOrder
BY AccountedHolds, PTL DEF Accounted

\* A pass that ended has recorded every candidate of its run.
THEOREM PassesLeaveRows == Spec => []AuditIsComplete
BY AccountedHolds, PTL DEF Accounted

-----------------------------------------------------------------------------
(* Submission implements OrderOnce.                                        *)

LEMMA SubmitsStep ==
  ASSUME Accounted, Next
  PROVE  Orders!Next \/ UNCHANGED <<sent, row>>
<1> USE DEF Accounted, TypeOK, InHandOK
<1>1. ASSUME NEW r \in Run, Send(r)
      PROVE  Orders!Next
  <2>1. cur[r] \in Candidate /\ Orders!Submit(cur[r])
    BY <1>1 DEF Send, Orders!Submit
  <2> QED
    BY <2>1 DEF Orders!Next
<1>2. ASSUME NEW r \in Run, Record(r)
      PROVE  Orders!Next
  <2>1. cur[r] \in Candidate /\ verdict[r] \in Statuses
        /\ Orders!Record(cur[r], verdict[r])
    BY <1>2 DEF Record, CreateOnce, Orders!Record
  <2> QED
    BY <2>1 DEF Orders!Next
<1>3. ASSUME NEW r \in Run,
             \/ Begin(r) \/ End(r) \/ Crash(r)
             \/ \E c \in Candidate : Duplicate(r, c) \/ Decide(r, c)
             \/ \E answer \in Answers : Answer(r, answer)
      PROVE  UNCHANGED <<sent, row>>
  BY <1>3 DEF Begin, End, Crash, Duplicate, Decide, Answer
<1>4. ASSUME NEW a \in Account, ClearBreaker(a)
      PROVE  UNCHANGED <<sent, row>>
  BY <1>4 DEF ClearBreaker
<1>5. ASSUME NEW h \in Halting, Halt(h) \/ Resume(h)
      PROVE  UNCHANGED <<sent, row>>
  BY <1>5 DEF Halt, Resume
<1> QED
  BY <1>1, <1>2, <1>3, <1>4, <1>5 DEF Next, PassStep

\* Each candidate's order is submitted at most once, and recorded at most
\* once, after that, whatever passes, operators and crashes interleave.  It
\* rests on the queue executing a run once: a pass that died is not repeated.
THEOREM EachOrderOnce == Spec => SubmitsOnce
<1>1. Init => Orders!Init
  BY DEF Init, Orders!Init
<1>2. Accounted /\ [Next]_vars => [Orders!Next]_(Orders!vars)
  <2>1. CASE UNCHANGED vars
    BY <2>1 DEF vars, Orders!vars
  <2>2. CASE Accounted /\ Next
    BY <2>2, SubmitsStep DEF Orders!vars
  <2> QED
    BY <2>1, <2>2
<1> QED
  BY <1>1, <1>2, AccountedHolds, PTL DEF Spec, SubmitsOnce, Orders!Spec

-----------------------------------------------------------------------------
(* Unknown outcomes.                                                       *)

\* Orders under review were sent, and one that is about to be recorded for
\* review has closed its account already.
ReviewOK ==
  /\ \A c \in Candidate : row[c] = "needs_review" => c \in sent
  /\ \A r \in Run : pc[r] = "record" /\ verdict[r] = "needs_review" =>
       AccountOf(cur[r]) \in breaker \/ cur[r] \in cleared

Contained == Accounted /\ ReviewOK /\ UnknownClosesAccount /\ NoSendAfterUnknown

LEMMA ReviewStep ==
  ASSUME Contained, Accounted', Next
  PROVE  ReviewOK'
<1> USE DEF Contained, Accounted, InHandOK, ReviewOK, UnknownClosesAccount,
            NoSendAfterUnknown, TypeOK, Go, InHand, Statuses, history,
            CandidatesOf
<1>1. ASSUME NEW r \in Run, PassStep(r) \/ Crash(r)
      PROVE  ReviewOK'
  <2>1. CASE Begin(r)
    BY <2>1, CandidateParts DEF Begin, CandidatesOf
  <2>2. CASE End(r)
    BY <2>2, CandidateParts DEF End
  <2>3. CASE Send(r)
    BY <2>3, CandidateParts DEF Send
  <2>4. CASE Record(r)
    <3>1. /\ cur[r] \in CandidatesOf(r) /\ verdict[r] # "none"
          /\ row' = [row EXCEPT ![cur[r]] = verdict[r]]
      BY <2>4 DEF Record, CreateOnce
    <3> QED
      BY <2>4, <3>1, CandidateParts DEF Record, Forget
  <2>5. ASSUME NEW c \in Candidate, Duplicate(r, c)
        PROVE  ReviewOK'
    BY <2>5, CandidateParts DEF Duplicate, Take
  <2>6. ASSUME NEW c \in Candidate, Decide(r, c)
        PROVE  ReviewOK'
    <3>1. CASE /\ Go(r, "send")
               /\ aware' = [aware EXCEPT ![c] = listed[r] \cup Done(r)]
               /\ UNCHANGED verdict
      BY <2>6, <3>1, CandidateParts DEF Decide, Take
    <3>2. CASE /\ Go(r, "record")
               /\ verdict' = [verdict EXCEPT ![r] = "skipped"]
               /\ UNCHANGED aware
      BY <2>6, <3>2, CandidateParts DEF Decide, Take
    <3> QED
      BY <2>6, <3>1, <3>2 DEF Decide
  <2>7. ASSUME NEW answer \in Answers, Answer(r, answer)
        PROVE  ReviewOK'
    BY <2>7, CandidateParts DEF Answer, Recorded
  <2>8. CASE Crash(r)
    BY <2>8, CandidateParts DEF Crash, Forget
  <2> QED
    BY <1>1, <2>1, <2>2, <2>3, <2>4, <2>5, <2>6, <2>7, <2>8 DEF PassStep
<1>2. ASSUME NEW a \in Account, ClearBreaker(a)
      PROVE  ReviewOK'
  BY <1>2, CandidateParts DEF ClearBreaker, pass, Answered
<1>3. ASSUME NEW h \in Halting, Halt(h) \/ Resume(h)
      PROVE  ReviewOK'
  BY <1>3, CandidateParts DEF Halt, Resume, pass, Answered
<1> QED
  BY <1>1, <1>2, <1>3 DEF Next

LEMMA ClosesStep ==
  ASSUME Contained, Accounted', Next
  PROVE  UnknownClosesAccount'
<1> USE DEF Contained, Accounted, InHandOK, ReviewOK, UnknownClosesAccount,
            NoSendAfterUnknown, TypeOK, Go, InHand, Statuses, history,
            CandidatesOf
<1>1. ASSUME NEW r \in Run, PassStep(r) \/ Crash(r)
      PROVE  UnknownClosesAccount'
  <2>1. CASE Begin(r)
    BY <2>1, CandidateParts DEF Begin, CandidatesOf
  <2>2. CASE End(r)
    BY <2>2, CandidateParts DEF End
  <2>3. CASE Send(r)
    BY <2>3, CandidateParts DEF Send
  <2>4. CASE Record(r)
    <3>1. /\ cur[r] \in CandidatesOf(r) /\ verdict[r] # "none"
          /\ row' = [row EXCEPT ![cur[r]] = verdict[r]]
      BY <2>4 DEF Record, CreateOnce
    <3> QED
      BY <2>4, <3>1, CandidateParts DEF Record, Forget
  <2>5. ASSUME NEW c \in Candidate, Duplicate(r, c)
        PROVE  UnknownClosesAccount'
    BY <2>5, CandidateParts DEF Duplicate, Take
  <2>6. ASSUME NEW c \in Candidate, Decide(r, c)
        PROVE  UnknownClosesAccount'
    <3>1. CASE /\ Go(r, "send")
               /\ aware' = [aware EXCEPT ![c] = listed[r] \cup Done(r)]
               /\ UNCHANGED verdict
      BY <2>6, <3>1, CandidateParts DEF Decide, Take
    <3>2. CASE /\ Go(r, "record")
               /\ verdict' = [verdict EXCEPT ![r] = "skipped"]
               /\ UNCHANGED aware
      BY <2>6, <3>2, CandidateParts DEF Decide, Take
    <3> QED
      BY <2>6, <3>1, <3>2 DEF Decide
  <2>7. ASSUME NEW answer \in Answers, Answer(r, answer)
        PROVE  UnknownClosesAccount'
    BY <2>7, CandidateParts DEF Answer, Recorded
  <2>8. CASE Crash(r)
    BY <2>8, CandidateParts DEF Crash, Forget
  <2> QED
    BY <1>1, <2>1, <2>2, <2>3, <2>4, <2>5, <2>6, <2>7, <2>8 DEF PassStep
<1>2. ASSUME NEW a \in Account, ClearBreaker(a)
      PROVE  UnknownClosesAccount'
  BY <1>2, CandidateParts DEF ClearBreaker, pass, Answered
<1>3. ASSUME NEW h \in Halting, Halt(h) \/ Resume(h)
      PROVE  UnknownClosesAccount'
  BY <1>3, CandidateParts DEF Halt, Resume, pass, Answered
<1> QED
  BY <1>1, <1>2, <1>3 DEF Next

LEMMA SendStep ==
  ASSUME Contained, Accounted', Next
  PROVE  NoSendAfterUnknown'
<1> USE DEF Contained, Accounted, InHandOK, ReviewOK, UnknownClosesAccount,
            NoSendAfterUnknown, TypeOK, Go, InHand, Statuses, history,
            CandidatesOf
<1>1. ASSUME NEW r \in Run, PassStep(r) \/ Crash(r)
      PROVE  NoSendAfterUnknown'
  <2>1. CASE Begin(r)
    BY <2>1, CandidateParts DEF Begin, CandidatesOf, Done
  <2>2. CASE End(r)
    BY <2>2, CandidateParts DEF End, Done
  <2>3. CASE Send(r)
    BY <2>3, CandidateParts DEF Send, Done
  <2>4. CASE Record(r)
    <3>1. /\ cur[r] \in CandidatesOf(r) /\ verdict[r] # "none"
          /\ row' = [row EXCEPT ![cur[r]] = verdict[r]]
      BY <2>4 DEF Record, CreateOnce
    <3>2. /\ RunOf(cur[r]) = r
          /\ pc' = [pc EXCEPT ![r] = "pass"]
          /\ cur' = [cur EXCEPT ![r] = NoOrder]
          /\ UNCHANGED <<left, cleared>>
      BY <2>4, CandidateParts DEF Record, Forget
    <3>3. SUFFICES ASSUME NEW q \in Run, pc'[q] \in {"send", "sent"},
                          NEW d \in Done(q)', row'[d] = "needs_review",
                          AccountOf(d) = AccountOf(cur'[q])
                   PROVE  d \in cleared'
      OBVIOUS
    <3>4. /\ q # r /\ cur'[q] = cur[q] /\ pc'[q] = pc[q]
      BY <3>2, <3>3
    <3>5. d \in Done(q) /\ RunOf(d) = q
      BY <3>2, <3>3, <3>4 DEF Done
    <3>6. row'[d] = row[d]
      BY <3>1, <3>2, <3>4, <3>5 DEF Done
    <3> QED
      BY <3>2, <3>3, <3>4, <3>5, <3>6
  <2>5. ASSUME NEW c \in Candidate, Duplicate(r, c)
        PROVE  NoSendAfterUnknown'
    BY <2>5, CandidateParts DEF Duplicate, Take, Done
  <2>6. ASSUME NEW c \in Candidate, Decide(r, c)
        PROVE  NoSendAfterUnknown'
    <3>1. CASE /\ Go(r, "send")
               /\ aware' = [aware EXCEPT ![c] = listed[r] \cup Done(r)]
               /\ UNCHANGED verdict
      <4>1. /\ AccountOf(c) \notin breaker
            /\ UNCHANGED <<row, cleared, breaker>>
            /\ cur' = [cur EXCEPT ![r] = c]
            /\ left' = [left EXCEPT ![r] = left[r] \ {c}]
            /\ pc' = [pc EXCEPT ![r] = "send"]
        <5>1. Allowed(r, c)
          BY <2>6, <3>1 DEF Decide, Take
        <5> QED
          BY <2>6, <3>1, <5>1 DEF Decide, Take, Allowed
      <4>2. SUFFICES ASSUME NEW q \in Run, pc'[q] \in {"send", "sent"},
                            NEW d \in Done(q)', row'[d] = "needs_review",
                            AccountOf(d) = AccountOf(cur'[q])
                     PROVE  d \in cleared'
        OBVIOUS
      <4>3. CASE q = r
        BY <4>1, <4>2, <4>3 DEF Done
      <4>4. CASE q # r
        BY <4>1, <4>2, <4>4 DEF Done
      <4> QED
        BY <4>3, <4>4
    <3>2. CASE /\ Go(r, "record")
               /\ verdict' = [verdict EXCEPT ![r] = "skipped"]
               /\ UNCHANGED aware
      BY <2>6, <3>2, CandidateParts DEF Decide, Take, Done
    <3> QED
      BY <2>6, <3>1, <3>2 DEF Decide
  <2>7. ASSUME NEW answer \in Answers, Answer(r, answer)
        PROVE  NoSendAfterUnknown'
    BY <2>7, CandidateParts DEF Answer, Recorded, Done
  <2>8. CASE Crash(r)
    BY <2>8, CandidateParts DEF Crash, Forget, Done
  <2> QED
    BY <1>1, <2>1, <2>2, <2>3, <2>4, <2>5, <2>6, <2>7, <2>8 DEF PassStep
<1>2. ASSUME NEW a \in Account, ClearBreaker(a)
      PROVE  NoSendAfterUnknown'
  BY <1>2, CandidateParts DEF ClearBreaker, pass, Done
<1>3. ASSUME NEW h \in Halting, Halt(h) \/ Resume(h)
      PROVE  NoSendAfterUnknown'
  BY <1>3, CandidateParts DEF Halt, Resume, pass, Done
<1> QED
  BY <1>1, <1>2, <1>3 DEF Next

LEMMA ContainedHolds == Spec => []Contained
<1>1. Init => Contained
  BY DEF Init, Contained, Accounted, TypeOK, InHandOK, TakenRecorded,
         NoSilentOrder, AuditIsComplete, ReviewOK, UnknownClosesAccount,
         NoSendAfterUnknown
<1>2. Contained /\ Accounted' /\ [Next]_vars => Contained'
  <2>1. CASE UNCHANGED vars
    BY <2>1 DEF vars, pass, history, Contained, ReviewOK, UnknownClosesAccount,
                NoSendAfterUnknown, CandidatesOf, Done
  <2>2. CASE Contained /\ Accounted' /\ Next
    BY <2>2, ReviewStep, ClosesStep, SendStep DEF Contained
  <2> QED
    BY <2>1, <2>2
<1> QED
  BY <1>1, <1>2, AccountedHolds, PTL DEF Spec

\* An account with an order of unknown outcome stays closed until an operator
\* clears its breaker.
THEOREM UnknownOutcomesClose == Spec => []UnknownClosesAccount
BY ContainedHolds, PTL DEF Contained

\* A pass submits nothing more to an account on which one of its orders came
\* back ambiguous, unless an operator cleared the breaker since.
THEOREM PassesStopAtUnknown == Spec => []NoSendAfterUnknown
BY ContainedHolds, PTL DEF Contained

-----------------------------------------------------------------------------
(* Halts.                                                                  *)

\* A halt in force since before the pass is one that the pass has read, and no
\* candidate of a halted account passes its gates.
Heeded ==
  \A r \in Run : /\ under[r] \cap Account \subseteq seen[r]
                 /\ pc[r] \in {"send", "sent"} => AccountOf(cur[r]) \notin seen[r]

LEMMA HeededStep ==
  ASSUME TypeOK, Heeded, Next
  PROVE  Heeded'
<1> USE DEF TypeOK, Heeded, Go, history
<1>1. ASSUME NEW r \in Run, PassStep(r) \/ Crash(r)
      PROVE  Heeded'
  <2>1. CASE Begin(r)
    BY <2>1 DEF Begin
  <2>2. CASE End(r)
    BY <2>2 DEF End
  <2>3. CASE Send(r)
    BY <2>3 DEF Send
  <2>4. CASE Record(r)
    BY <2>4 DEF Record, Forget
  <2>5. ASSUME NEW c \in Candidate, Duplicate(r, c)
        PROVE  Heeded'
    BY <2>5 DEF Duplicate
  <2>6. ASSUME NEW c \in Candidate, Decide(r, c)
        PROVE  Heeded'
    <3>1. CASE Allowed(r, c)
      BY <2>6, <3>1 DEF Decide, Allowed
    <3>2. CASE Go(r, "record")
      BY <2>6, <3>2 DEF Decide
    <3> QED
      BY <2>6, <3>1, <3>2 DEF Decide
  <2>7. ASSUME NEW answer \in Answers, Answer(r, answer)
        PROVE  Heeded'
    BY <2>7 DEF Answer
  <2>8. CASE Crash(r)
    BY <2>8 DEF Crash, Forget
  <2> QED
    BY <1>1, <2>1, <2>2, <2>3, <2>4, <2>5, <2>6, <2>7, <2>8 DEF PassStep
<1>2. ASSUME NEW a \in Account, ClearBreaker(a)
      PROVE  Heeded'
  BY <1>2 DEF ClearBreaker, pass
<1>3. ASSUME NEW h \in Halting, Halt(h) \/ Resume(h)
      PROVE  Heeded'
  BY <1>3 DEF Halt, Resume, pass
<1> QED
  BY <1>1, <1>2, <1>3 DEF Next

\* An account's halt stops every pass that begins after it, until it is
\* lifted: whatever other passes, operators and crashes do in between.
THEOREM HaltsAreHeeded == Spec => []HaltStopsLaterPasses
<1>1. Init => Heeded
  BY DEF Init, Heeded
<1>2. TypeOK /\ Heeded /\ [Next]_vars => Heeded'
  <2>1. CASE UNCHANGED vars
    BY <2>1 DEF vars, pass, history, Heeded
  <2> QED
    BY <2>1, HeededStep
<1>3. TypeOK /\ Heeded => HaltStopsLaterPasses
  <2> SUFFICES ASSUME TypeOK, Heeded, NEW r \in Run, pc[r] \in {"send", "sent"}
               PROVE  AccountOf(cur[r]) \notin under[r]
    BY DEF HaltStopsLaterPasses
  <2>1. cur[r] \in Candidate
    BY DEF TypeOK
  <2> QED
    BY <2>1, CandidateParts DEF Heeded
<1> QED
  BY <1>1, <1>2, <1>3, OrdersTypeCorrect, PTL DEF Spec

-----------------------------------------------------------------------------
(* Orders that the broker accepted.                                        *)

\* What is recorded, or about to be, of an order that the broker accepted.
Known ==
  \A c \in broker \ broken :
    /\ row[c] \in {"none", "open", "needs_review"}
    /\ \A r \in Run : pc[r] = "record" /\ cur[r] = c =>
                        verdict[r] \in {"open", "needs_review"}

LEMMA KnownStep ==
  ASSUME Accounted, Known, Next
  PROVE  Known'
<1> USE DEF Accounted, InHandOK, TypeOK, Known, Go, history
<1>1. ASSUME NEW r \in Run, PassStep(r) \/ Crash(r)
      PROVE  Known'
  <2>1. CASE Begin(r)
    BY <2>1 DEF Begin
  <2>2. CASE End(r)
    BY <2>2 DEF End
  <2>3. CASE Send(r)
    BY <2>3 DEF Send
  <2>4. CASE Record(r)
    <3>1. /\ cur[r] \in Candidate
          /\ row' = [row EXCEPT ![cur[r]] = verdict[r]]
      BY <2>4 DEF Record, CreateOnce
    <3> QED
      BY <2>4, <3>1 DEF Record, Forget
  <2>5. ASSUME NEW c \in Candidate, Duplicate(r, c)
        PROVE  Known'
    BY <2>5 DEF Duplicate
  <2>6. ASSUME NEW c \in Candidate, Decide(r, c)
        PROVE  Known'
    <3>1. c \notin broker
      BY <2>6 DEF Decide, NoSilentOrder, InHand, Take
    <3> QED
      BY <2>6, <3>1 DEF Decide
  <2>7. ASSUME NEW answer \in Answers, Answer(r, answer)
        PROVE  Known'
    <3>1. cur[r] \in Candidate /\ verdict' = [verdict EXCEPT ![r] = Recorded(answer)]
      BY <2>7 DEF Answer
    <3>2. CASE answer = "accepted"
      BY <2>7, <3>1, <3>2 DEF Answer, Recorded
    <3>3. CASE answer \in {"refused", "limited"}
      <4>1. answer # "accepted" /\ answer # "timeout" /\ answer # "broken"
        BY <3>3
      <4>2. cur[r] \notin broker
        BY <2>7, <3>3, <4>1, Zenon DEF Answer, Possible
      <4> QED
        BY <2>7, <3>1, <4>1, <4>2 DEF Answer
    <3>4. CASE answer = "timeout"
      BY <2>7, <3>1, <3>4 DEF Answer, Recorded
    <3>5. CASE answer = "broken"
      BY <2>7, <3>1, <3>5 DEF Answer
    <3> QED
      BY <3>2, <3>3, <3>4, <3>5 DEF Answers
  <2>8. CASE Crash(r)
    BY <2>8 DEF Crash, Forget
  <2> QED
    BY <1>1, <2>1, <2>2, <2>3, <2>4, <2>5, <2>6, <2>7, <2>8 DEF PassStep
<1>2. ASSUME NEW a \in Account, ClearBreaker(a)
      PROVE  Known'
  BY <1>2 DEF ClearBreaker, pass
<1>3. ASSUME NEW h \in Halting, Halt(h) \/ Resume(h)
      PROVE  Known'
  BY <1>3 DEF Halt, Resume, pass
<1> QED
  BY <1>1, <1>2, <1>3 DEF Next

\* An order that the broker accepted is open or up for review once it has a
\* row, unless its connection broke: no interleaving of passes, operators and
\* crashes makes another one of it.
THEOREM AcceptedOrdersAreKnown == Spec => []OpenIsKnown
<1>1. Init => Known
  BY DEF Init, Known
<1>2. Accounted /\ Known /\ [Next]_vars => Known'
  <2>1. CASE UNCHANGED vars
    BY <2>1 DEF vars, pass, history, Known
  <2> QED
    BY <2>1, KnownStep
<1>3. Known => OpenIsKnown
  BY DEF Known, OpenIsKnown
<1> QED
  BY <1>1, <1>2, <1>3, AccountedHolds, PTL DEF Spec

-----------------------------------------------------------------------------
(* Caps.                                                                   *)

Rowed == {c \in Candidate : row[c] # "none"}

\* Run r's order in hand has passed the caps and may become open.
Sending(r) ==
  pc[r] \in {"send", "sent"} \/ (pc[r] = "record" /\ verdict[r] = "open")

InPass == {"pass", "send", "sent", "record"}

\* The active orders of c's account that counted when c passed the caps.
KnownTo(c) == {d \in aware[c] : AccountOf(d) = AccountOf(c) /\ IsActive(d)}

\* What a pass knows has a row, and rows do not change; each row is in the
\* ledger; the candidate in hand is not one that is still to be taken.
Kept ==
  /\ IsFiniteSet(Rowed)
  /\ \A c \in Rowed : \E i \in 1..Len(ledger) : ledger[i] = c
  /\ \A c \in Candidate : aware[c] \subseteq Rowed
  /\ \A r \in Run :
       /\ \A c \in listed[r] : row[c] = "open"
       /\ pc[r] \in {"idle", "pass", "done"} => cur[r] = NoOrder
       /\ cur[r] \notin left[r]

\* A pass is aware of all active orders of its own run: it listed those of an
\* earlier pass and has itself decided the others.
AwareOfOwn ==
  Len(ledger) <= ListLimit =>
    \A r \in Run :
      /\ pc[r] \in InPass => {c \in left[r] : IsActive(c)} \subseteq listed[r]
      /\ Sending(r) => {c \in CandidatesOf(r) : IsActive(c)} \subseteq aware[cur[r]]

\* There was room for the order in hand, by what its pass was aware of, and
\* still is: the rows it knows of have not changed since.
Room ==
  \A r \in Run :
    Cap > 0 /\ Sending(r) => Cardinality(KnownTo(cur[r])) < Cap

\* The inductive invariant: when an order becomes open and its account then
\* exceeds the cap, Room gives an active order that its pass was unaware of,
\* AwareOfOwn makes that one of another run, and Kept says that the other run
\* was unaware of the new one, which had no row.
Capped == Accounted /\ Kept /\ AwareOfOwn /\ Room /\ CapNeedsOverlap

\* A list that is not cut off has every row.
LEMMA NewestIsAll ==
  ASSUME TypeOK, Kept, Len(ledger) <= ListLimit
  PROVE  Rowed \subseteq Newest
<1> SUFFICES ASSUME NEW c \in Rowed
             PROVE  c \in Newest
  OBVIOUS
<1>1. PICK i \in 1..Len(ledger) : ledger[i] = c
  BY DEF Kept
<1>2. Len(ledger) \in Nat /\ ListLimit \in Nat
  BY OrderAssumption DEF TypeOK
<1>3. i > Len(ledger) - ListLimit
  BY <1>2
<1> QED
  BY <1>1, <1>3 DEF Newest

\* A row is written once, by the pass that has the candidate in hand; every
\* other step leaves rows and ledger alone.
LEMMA RowsStep ==
  ASSUME Accounted, Next
  PROVE  \/ UNCHANGED <<row, ledger>>
         \/ \E r \in Run :
              /\ Record(r)
              /\ cur[r] \in Candidate /\ RunOf(cur[r]) = r
              /\ row[cur[r]] = "none"
              /\ row' = [row EXCEPT ![cur[r]] = verdict[r]]
              /\ ledger' = Append(ledger, cur[r])
<1>1. ASSUME NEW r \in Run, PassStep(r) \/ Crash(r), ~Record(r)
      PROVE  UNCHANGED <<row, ledger>>
  BY <1>1 DEF PassStep, Crash, Begin, End, Send, Duplicate, Decide, Answer
<1>2. ASSUME NEW r \in Run, Record(r)
      PROVE  /\ cur[r] \in Candidate /\ RunOf(cur[r]) = r
             /\ row[cur[r]] = "none"
             /\ row' = [row EXCEPT ![cur[r]] = verdict[r]]
             /\ ledger' = Append(ledger, cur[r])
  BY <1>2 DEF Accounted, TypeOK, InHandOK, Record, CreateOnce
<1>3. ASSUME NEW a \in Account, ClearBreaker(a)
      PROVE  UNCHANGED <<row, ledger>>
  BY <1>3 DEF ClearBreaker
<1>4. ASSUME NEW h \in Halting, Halt(h) \/ Resume(h)
      PROVE  UNCHANGED <<row, ledger>>
  BY <1>4 DEF Halt, Resume
<1> QED
  BY <1>1, <1>2, <1>3, <1>4 DEF Next

LEMMA KeptStep ==
  ASSUME Accounted, Kept, TypeOK', Next
  PROVE  Kept'
<1> USE DEF Accounted, TypeOK, Go, history
<1>1. /\ IsFiniteSet(Rowed')
      /\ \A c \in Rowed' : \E i \in 1..Len(ledger') : ledger'[i] = c
      /\ Rowed \subseteq Rowed'
      /\ \A c \in Rowed : row'[c] = row[c]
  <2>1. CASE UNCHANGED <<row, ledger>>
    BY <2>1 DEF Kept, Rowed
  <2>2. ASSUME NEW r \in Run, Record(r),
               cur[r] \in Candidate, row[cur[r]] = "none",
               row' = [row EXCEPT ![cur[r]] = verdict[r]],
               ledger' = Append(ledger, cur[r])
        PROVE  /\ IsFiniteSet(Rowed')
               /\ \A c \in Rowed' : \E i \in 1..Len(ledger') : ledger'[i] = c
               /\ Rowed \subseteq Rowed'
               /\ \A c \in Rowed : row'[c] = row[c]
    <3>1. verdict[r] \in Statuses
      BY <2>2 DEF InHandOK, Record
    <3>2. Rowed' = Rowed \cup {cur[r]}
      BY <2>2, <3>1 DEF Rowed, Statuses
    <3>3. IsFiniteSet(Rowed')
      BY <3>2, FS_AddElement DEF Kept
    <3>4. ASSUME NEW c \in Rowed'
          PROVE  \E i \in 1..Len(ledger') : ledger'[i] = c
      <4>1. /\ Len(ledger) \in Nat /\ Len(ledger') = Len(ledger) + 1
            /\ ledger'[Len(ledger) + 1] = cur[r]
            /\ \A i \in 1..Len(ledger) : ledger'[i] = ledger[i]
        BY <2>2
      <4>2. CASE c = cur[r]
        <5>1. Len(ledger) + 1 \in 1..Len(ledger')
          BY <4>1
        <5> QED
          BY <4>1, <4>2, <5>1
      <4>3. CASE c \in Rowed
        <5>1. PICK i \in 1..Len(ledger) : ledger[i] = c
          BY <4>3 DEF Kept
        <5>2. i \in 1..Len(ledger')
          BY <4>1
        <5> QED
          BY <4>1, <5>1, <5>2
      <4> QED
        BY <3>2, <4>2, <4>3
    <3> QED
      BY <2>2, <3>2, <3>3, <3>4 DEF Rowed
  <2> QED
    BY <2>1, <2>2, RowsStep
<1>2. /\ \A c \in Candidate : aware'[c] \subseteq Rowed
      /\ \A r \in Run : \A c \in listed'[r] : row[c] = "open"
      /\ \A r \in Run : /\ pc'[r] \in {"idle", "pass", "done"} => cur'[r] = NoOrder
                        /\ cur'[r] \notin left'[r]
  <2> USE DEF Kept
  <2>1. ASSUME NEW r \in Run, PassStep(r) \/ Crash(r)
        PROVE  /\ \A c \in Candidate : aware'[c] \subseteq Rowed
               /\ \A s \in Run : \A c \in listed'[s] : row[c] = "open"
               /\ \A s \in Run :
                    /\ pc'[s] \in {"idle", "pass", "done"} => cur'[s] = NoOrder
                    /\ cur'[s] \notin left'[s]
    <3>1. CASE Begin(r)
      BY <3>1, OrderAssumption DEF Begin, IsActive, CandidatesOf
    <3>2. CASE End(r)
      BY <3>2 DEF End
    <3>3. CASE Send(r)
      BY <3>3 DEF Send
    <3>4. CASE Record(r)
      BY <3>4, OrderAssumption DEF Record, Forget
    <3>5. ASSUME NEW c \in Candidate, Duplicate(r, c)
          PROVE  /\ \A d \in Candidate : aware'[d] \subseteq Rowed
                 /\ \A s \in Run : \A d \in listed'[s] : row[d] = "open"
                 /\ \A s \in Run :
                      /\ pc'[s] \in {"idle", "pass", "done"} => cur'[s] = NoOrder
                      /\ cur'[s] \notin left'[s]
      BY <3>5 DEF Duplicate, Take
    <3>6. ASSUME NEW c \in Candidate, Decide(r, c)
          PROVE  /\ \A d \in Candidate : aware'[d] \subseteq Rowed
                 /\ \A s \in Run : \A d \in listed'[s] : row[d] = "open"
                 /\ \A s \in Run :
                      /\ pc'[s] \in {"idle", "pass", "done"} => cur'[s] = NoOrder
                      /\ cur'[s] \notin left'[s]
      <4>1. listed[r] \cup Done(r) \subseteq Rowed
        BY <3>6 DEF Done, TakenRecorded, CandidatesOf, Rowed, Decide, Take
      <4>2. \A d \in Candidate : aware'[d] \subseteq Rowed
        BY <3>6, <4>1 DEF Decide
      <4>3. UNCHANGED listed /\ pc'[r] \in {"send", "record"}
        BY <3>6 DEF Decide
      <4>4. \A s \in Run : /\ pc'[s] \in {"idle", "pass", "done"} => cur'[s] = NoOrder
                           /\ cur'[s] \notin left'[s]
        BY <3>6, <4>3 DEF Decide, Take
      <4> QED
        BY <4>2, <4>3, <4>4
    <3>7. ASSUME NEW answer \in Answers, Answer(r, answer)
          PROVE  /\ \A d \in Candidate : aware'[d] \subseteq Rowed
                 /\ \A s \in Run : \A d \in listed'[s] : row[d] = "open"
                 /\ \A s \in Run :
                      /\ pc'[s] \in {"idle", "pass", "done"} => cur'[s] = NoOrder
                      /\ cur'[s] \notin left'[s]
      BY <3>7 DEF Answer
    <3>8. CASE Crash(r)
      BY <3>8 DEF Crash, Forget
    <3> QED
      BY <2>1, <3>1, <3>2, <3>3, <3>4, <3>5, <3>6, <3>7, <3>8 DEF PassStep
  <2>2. ASSUME NEW a \in Account, ClearBreaker(a)
        PROVE  UNCHANGED <<aware, listed, pc, cur, left>>
    BY <2>2 DEF ClearBreaker, pass
  <2>3. ASSUME NEW h \in Halting, Halt(h) \/ Resume(h)
        PROVE  UNCHANGED <<aware, listed, pc, cur, left>>
    BY <2>3 DEF Halt, Resume, pass
  <2> QED
    BY <2>1, <2>2, <2>3 DEF Next
<1>3. \A r \in Run : \A c \in listed'[r] : row'[c] = "open"
  BY <1>1, <1>2 DEF Rowed
<1> QED
  BY <1>1, <1>2, <1>3 DEF Kept

\* Rows do not change, and the ledger only grows.
LEMMA RowsStay ==
  ASSUME Accounted, Next
  PROVE  /\ \A c \in Rowed : row'[c] = row[c]
         /\ Len(ledger) \in Nat /\ Len(ledger') \in Nat
         /\ Len(ledger) <= Len(ledger')
<1>1. ledger \in Seq(Candidate) /\ row \in [Candidate -> {"none"} \cup Statuses]
  BY DEF Accounted, TypeOK
<1>2. CASE UNCHANGED <<row, ledger>>
  BY <1>1, <1>2
<1>3. ASSUME NEW r \in Run, cur[r] \in Candidate, row[cur[r]] = "none",
             row' = [row EXCEPT ![cur[r]] = verdict[r]],
             ledger' = Append(ledger, cur[r])
      PROVE  /\ \A c \in Rowed : row'[c] = row[c]
             /\ Len(ledger) \in Nat /\ Len(ledger') \in Nat
             /\ Len(ledger) <= Len(ledger')
  BY <1>1, <1>3 DEF Rowed
<1> QED
  BY <1>2, <1>3, RowsStep

LEMMA AwareOfOwnStep ==
  ASSUME Accounted, Kept, AwareOfOwn, Next
  PROVE  AwareOfOwn'
<1> SUFFICES ASSUME Len(ledger') <= ListLimit
             PROVE  \A s \in Run :
                      /\ pc'[s] \in InPass =>
                           {c \in left'[s] : row'[c] = "open"} \subseteq listed'[s]
                      /\ Sending(s)' =>
                           {c \in CandidatesOf(s) : row'[c] = "open"}
                             \subseteq aware'[cur'[s]]
  BY DEF AwareOfOwn, IsActive, CandidatesOf
<1>1. Len(ledger) <= ListLimit
  BY RowsStay, OrderAssumption
<1>2. \A s \in Run :
        /\ pc[s] \in InPass =>
             {c \in left[s] : row[c] = "open"} \subseteq listed[s]
        /\ Sending(s) =>
             {c \in CandidatesOf(s) : row[c] = "open"} \subseteq aware[cur[s]]
  BY <1>1 DEF AwareOfOwn, IsActive
<1> DEFINE Own(s) ==
             /\ pc'[s] \in InPass =>
                  {c \in left'[s] : row'[c] = "open"} \subseteq listed'[s]
             /\ Sending(s)' =>
                  {c \in CandidatesOf(s) : row'[c] = "open"}
                    \subseteq aware'[cur'[s]]
<1>3. TypeOK
  BY DEF Accounted
<1> USE DEF TypeOK, Go, history, Sending, InPass
<1>4. ASSUME NEW r \in Run, PassStep(r) \/ Crash(r)
      PROVE  \A s \in Run : Own(s)
  <2>1. CASE Begin(r)
    <3>1. {c \in left'[r] : row[c] = "open"} \subseteq listed'[r]
      <4>1. listed'[r] = {c \in Newest : IsActive(c)} /\ left'[r] = CandidatesOf(r)
        BY <1>3, <2>1 DEF Begin
      <4>2. {c \in CandidatesOf(r) : row[c] = "open"} \subseteq Rowed
        BY DEF CandidatesOf, Rowed
      <4> QED
        BY <1>1, <1>3, <4>1, <4>2, NewestIsAll DEF IsActive
    <3> QED
      BY <1>2, <1>3, <2>1, <3>1 DEF Begin
  <2>2. CASE End(r)
    BY <1>2, <1>3, <2>2 DEF End
  <2>3. CASE Send(r)
    BY <1>2, <1>3, <2>3 DEF Send
  <2>4. CASE Record(r)
    <3>1. /\ cur[r] \in Candidate /\ RunOf(cur[r]) = r
          /\ row' = [row EXCEPT ![cur[r]] = verdict[r]]
          /\ cur[r] \notin left[r]
      BY <1>3, <2>4 DEF Record, CreateOnce, Accounted, InHandOK, Kept
    <3>2. UNCHANGED <<left, listed, aware>>
      BY <2>4 DEF Record
    <3>3. \A s \in Run : {c \in left[s] : row'[c] = "open"} =
                         {c \in left[s] : row[c] = "open"}
      BY <1>3, <3>1
    <3>4. \A s \in Run \ {r} : {c \in CandidatesOf(s) : row'[c] = "open"} =
                               {c \in CandidatesOf(s) : row[c] = "open"}
      BY <1>3, <3>1 DEF CandidatesOf
    <3>5. /\ pc'[r] = "pass" /\ pc[r] = "record"
          /\ \A s \in Run \ {r} : /\ pc'[s] = pc[s] /\ cur'[s] = cur[s]
                                  /\ verdict'[s] = verdict[s]
      BY <1>3, <2>4 DEF Record, Forget
    <3> QED
      BY <1>2, <3>2, <3>3, <3>4, <3>5
  <2>5. ASSUME NEW c \in Candidate, Duplicate(r, c)
        PROVE  \A s \in Run : Own(s)
    BY <1>2, <1>3, <2>5 DEF Duplicate, Take
  <2>6. ASSUME NEW c \in Candidate, Decide(r, c)
        PROVE  \A s \in Run : Own(s)
    <3>1. /\ c \in left[r] /\ row[c] = "none" /\ RunOf(c) = r
          /\ pc[r] = "pass" /\ cur[r] = NoOrder
          /\ cur' = [cur EXCEPT ![r] = c] /\ left' = [left EXCEPT ![r] = @ \ {c}]
          /\ UNCHANGED <<row, listed>>
      BY <1>3, <2>6 DEF Decide, Take, Kept
    <3>2. \A s \in Run : pc'[s] \in InPass =>
            {d \in left'[s] : row'[d] = "open"} \subseteq listed'[s]
      BY <1>2, <1>3, <2>6, <3>1 DEF Decide
    <3>3. CASE /\ Go(r, "send")
               /\ aware' = [aware EXCEPT ![c] = listed[r] \cup Done(r)]
               /\ UNCHANGED verdict
      <4>1. {d \in CandidatesOf(r) : row[d] = "open"} \subseteq listed[r] \cup Done(r)
        BY <1>2, <3>1, OrderAssumption DEF Done, CandidatesOf
      <4>2. \A s \in Run \ {r} : Sending(s) => cur[s] # c
        BY <1>3, <3>1
      <4> QED
        BY <1>2, <1>3, <3>1, <3>2, <3>3, <4>1, <4>2
    <3>4. CASE /\ Go(r, "record")
               /\ verdict' = [verdict EXCEPT ![r] = "skipped"]
               /\ UNCHANGED aware
      BY <1>2, <1>3, <3>1, <3>2, <3>4
    <3> QED
      BY <2>6, <3>3, <3>4 DEF Decide
  <2>7. ASSUME NEW answer \in Answers, Answer(r, answer)
        PROVE  \A s \in Run : Own(s)
    BY <1>2, <1>3, <2>7 DEF Answer
  <2>8. CASE Crash(r)
    BY <1>2, <1>3, <2>8 DEF Crash, Forget
  <2> QED
    BY <1>4, <2>1, <2>2, <2>3, <2>4, <2>5, <2>6, <2>7, <2>8 DEF PassStep
<1>5. ASSUME NEW a \in Account, ClearBreaker(a)
      PROVE  \A s \in Run : Own(s)
  BY <1>2, <1>5 DEF ClearBreaker, pass
<1>6. ASSUME NEW h \in Halting, Halt(h) \/ Resume(h)
      PROVE  \A s \in Run : Own(s)
  BY <1>2, <1>6 DEF Halt, Resume, pass
<1> QED
  BY <1>4, <1>5, <1>6 DEF Next

\* What counted when a candidate passed the caps still does, and no more.
LEMMA KnownStays ==
  ASSUME Accounted, Kept, Next, NEW c \in Candidate, aware'[c] = aware[c]
  PROVE  KnownTo(c)' = KnownTo(c)
<1>1. aware[c] \subseteq Rowed
  BY DEF Kept
<1> QED
  BY <1>1, RowsStay DEF KnownTo, IsActive

\* Counting an order twice does not make room.
LEMMA RoomByCount ==
  ASSUME Accounted, Kept, NEW r \in Run, NEW a,
         listed[r] \cup Done(r) \subseteq Rowed, Counted(r, a) + 1 <= Cap
  PROVE  Cardinality({d \in listed[r] \cup Done(r) :
                        AccountOf(d) = a /\ IsActive(d)}) < Cap
<1> DEFINE L == {d \in listed[r] : AccountOf(d) = a /\ IsActive(d)}
           D == {d \in Done(r) : AccountOf(d) = a /\ IsActive(d)}
<1>1. {d \in listed[r] \cup Done(r) : AccountOf(d) = a /\ IsActive(d)} = L \cup D
  OBVIOUS
<1>2. IsFiniteSet(Rowed) /\ L \in SUBSET Rowed /\ D \in SUBSET Rowed
  BY DEF Kept
<1>3. Counted(r, a) = Cardinality(L) + Cardinality(D)
  BY DEF Counted
<1> HIDE DEF L, D
<1>4. IsFiniteSet(L) /\ IsFiniteSet(D)
  BY <1>2, FS_Subset
<1>5. IsFiniteSet(L \cap D)
  BY <1>4, FS_Intersection
<1>6. Cardinality(L \cup D) = Cardinality(L) + Cardinality(D) - Cardinality(L \cap D)
  BY <1>4, FS_Union
<1>7. /\ Cardinality(L) \in Nat /\ Cardinality(D) \in Nat
      /\ Cardinality(L \cap D) \in Nat /\ Cap \in Nat
  BY <1>4, <1>5, FS_CardinalityType, OrderAssumption
<1>8. Cardinality(L \cup D) < Cap
  BY <1>3, <1>6, <1>7
<1> QED
  BY <1>1, <1>8

LEMMA RoomStep ==
  ASSUME Accounted, Kept, Room, Next
  PROVE  Room'
<1> SUFFICES ASSUME Cap > 0, NEW s \in Run, Sending(s)'
             PROVE  Cardinality({d \in aware'[cur'[s]] :
                            AccountOf(d) = AccountOf(cur'[s]) /\ row'[d] = "open"}) < Cap
  BY DEF Room, KnownTo, IsActive
<1>1. TypeOK
  BY DEF Accounted
<1> USE DEF TypeOK, Go, history
<1>2. ASSUME Sending(s), cur'[s] = cur[s], aware'[cur[s]] = aware[cur[s]]
      PROVE  Cardinality({d \in aware'[cur'[s]] :
                     AccountOf(d) = AccountOf(cur'[s]) /\ row'[d] = "open"}) < Cap
  <2>1. cur[s] \in Candidate
    BY <1>1, <1>2 DEF Sending
  <2>2. ASSUME NEW c \in Candidate, c = cur[s]
        PROVE  {d \in aware'[c] : AccountOf(d) = AccountOf(c) /\ row'[d] = "open"}
               = KnownTo(c)
    <3>1. aware'[c] = aware[c]
      BY <1>2, <2>2
    <3> QED
      BY <3>1, KnownStays DEF KnownTo, IsActive
  <2>3. Cardinality(KnownTo(cur[s])) < Cap
    BY <1>2 DEF Room
  <2> QED
    BY <1>2, <2>1, <2>2, <2>3
<1>3. ASSUME NEW r \in Run, NEW c \in Candidate, Decide(r, c)
      PROVE  Cardinality({d \in aware'[cur'[s]] :
                     AccountOf(d) = AccountOf(cur'[s]) /\ row'[d] = "open"}) < Cap
  <2>1. /\ row[c] = "none" /\ RunOf(c) = r /\ pc[r] = "pass"
        /\ cur' = [cur EXCEPT ![r] = c] /\ UNCHANGED row
    BY <1>1, <1>3 DEF Decide, Take
  <2>2. CASE s = r
    <3>1. pc'[r] = "send" \/ (pc'[r] = "record" /\ verdict'[r] = "skipped")
      BY <1>1, <1>3 DEF Decide
    <3>2. pc'[r] = "send"
      BY <2>2, <3>1 DEF Sending
    <3>3. Allowed(r, c) /\ aware'[c] = listed[r] \cup Done(r)
      BY <1>1, <1>3, <3>2 DEF Decide
    <3>4. Counted(r, AccountOf(c)) + 1 <= Cap
      BY <3>3 DEF Allowed
    <3>5. listed[r] \cup Done(r) \subseteq Rowed
      BY <1>1, <2>1 DEF Done, TakenRecorded, CandidatesOf, Rowed, Accounted, Kept
    <3>6. Cardinality({d \in listed[r] \cup Done(r) :
                         AccountOf(d) = AccountOf(c) /\ IsActive(d)}) < Cap
      BY <3>4, <3>5, RoomByCount
    <3>7. cur'[s] = c
      BY <1>1, <2>1, <2>2
    <3>8. {d \in aware'[c] : AccountOf(d) = AccountOf(c) /\ row'[d] = "open"} =
          {d \in listed[r] \cup Done(r) : AccountOf(d) = AccountOf(c) /\ IsActive(d)}
      BY <2>1, <3>3 DEF IsActive
    <3> QED
      BY <3>6, <3>7, <3>8
  <2>3. CASE s # r
    <3>1. Sending(s) /\ cur'[s] = cur[s] /\ cur[s] # c
      BY <1>1, <1>3, <2>1, <2>3 DEF Decide, Sending
    <3>2. aware'[cur[s]] = aware[cur[s]]
      BY <1>1, <1>3, <3>1 DEF Decide, Sending
    <3> QED
      BY <1>2, <3>1, <3>2
  <2> QED
    BY <2>2, <2>3
<1>4. ASSUME NEW r \in Run, PassStep(r) \/ Crash(r),
             ~(\E c \in Candidate : Decide(r, c))
      PROVE  Sending(s) /\ cur'[s] = cur[s] /\ UNCHANGED aware
  <2>1. CASE Begin(r)
    BY <1>1, <2>1 DEF Begin, Sending
  <2>2. CASE End(r)
    BY <1>1, <2>2 DEF End, Sending
  <2>3. CASE Send(r)
    BY <1>1, <2>3 DEF Send, Sending
  <2>4. CASE Record(r)
    BY <1>1, <2>4 DEF Record, Forget, Sending
  <2>5. ASSUME NEW c \in Candidate, Duplicate(r, c)
        PROVE  Sending(s) /\ cur'[s] = cur[s] /\ UNCHANGED aware
    BY <1>1, <2>5 DEF Duplicate, Take, Sending
  <2>6. ASSUME NEW answer \in Answers, Answer(r, answer)
        PROVE  Sending(s) /\ cur'[s] = cur[s] /\ UNCHANGED aware
    BY <1>1, <2>6 DEF Answer, Sending
  <2>7. CASE Crash(r)
    BY <1>1, <2>7 DEF Crash, Forget, Sending
  <2> QED
    BY <1>4, <2>1, <2>2, <2>3, <2>4, <2>5, <2>6, <2>7 DEF PassStep
<1>5. ASSUME NEW a \in Account, ClearBreaker(a)
      PROVE  Sending(s) /\ cur'[s] = cur[s] /\ UNCHANGED aware
  BY <1>5 DEF ClearBreaker, pass, Sending
<1>6. ASSUME NEW h \in Halting, Halt(h) \/ Resume(h)
      PROVE  Sending(s) /\ cur'[s] = cur[s] /\ UNCHANGED aware
  BY <1>6 DEF Halt, Resume, pass, Sending
<1> QED
  BY <1>2, <1>3, <1>4, <1>5, <1>6 DEF Next

LEMMA ActiveIsRowed ==
  ASSUME NEW a
  PROVE  ActiveOf(a) \subseteq Rowed
BY DEF ActiveOf, Rowed, IsActive

\* The pass of an order that is about to exceed the cap is unaware of an order
\* of another run.
LEMMA UnawareOfOther ==
  ASSUME Accounted, Kept, AwareOfOwn, Room, Cap > 0, Len(ledger) <= ListLimit,
         NEW r \in Run, Sending(r), cur[r] \in Candidate, RunOf(cur[r]) = r,
         Cardinality(ActiveOf(AccountOf(cur[r]))) >= Cap
  PROVE  \E c \in ActiveOf(AccountOf(cur[r])) : RunOf(c) # r /\ c \notin aware[cur[r]]
<1> SUFFICES ASSUME \A c \in ActiveOf(AccountOf(cur[r])) :
                      RunOf(c) # r => c \in aware[cur[r]]
             PROVE  FALSE
  OBVIOUS
<1>1. \A c \in ActiveOf(AccountOf(cur[r])) : c \in aware[cur[r]]
  BY DEF AwareOfOwn, ActiveOf, CandidatesOf
<1>2. ActiveOf(AccountOf(cur[r])) \in SUBSET KnownTo(cur[r])
  BY <1>1 DEF KnownTo, ActiveOf
<1>3. KnownTo(cur[r]) \in SUBSET Rowed /\ IsFiniteSet(Rowed)
  BY DEF Kept, KnownTo
<1>4. IsFiniteSet(KnownTo(cur[r]))
  BY <1>3, FS_Subset
<1>5. Cardinality(ActiveOf(AccountOf(cur[r]))) <= Cardinality(KnownTo(cur[r]))
      /\ IsFiniteSet(ActiveOf(AccountOf(cur[r])))
  BY <1>2, <1>4, FS_Subset
<1>6. /\ Cardinality(ActiveOf(AccountOf(cur[r]))) \in Nat
      /\ Cardinality(KnownTo(cur[r])) \in Nat /\ Cap \in Nat
  BY <1>4, <1>5, FS_CardinalityType, OrderAssumption
<1>7. Cardinality(KnownTo(cur[r])) < Cap
  BY DEF Room
<1> QED
  BY <1>5, <1>6, <1>7

\* What a pass knew of when it decided is not revised once there is a row.
LEMMA AwareStays ==
  ASSUME Accounted, Next, NEW c \in Rowed
  PROVE  aware'[c] = aware[c]
<1> USE DEF Accounted, TypeOK, history, Rowed
<1>1. ASSUME NEW r \in Run, PassStep(r) \/ Crash(r),
             ~(\E d \in Candidate : Decide(r, d))
      PROVE  UNCHANGED aware
  BY <1>1 DEF PassStep, Crash, Begin, End, Send, Duplicate, Record, Answer
<1>2. ASSUME NEW r \in Run, NEW d \in Candidate, Decide(r, d)
      PROVE  aware'[c] = aware[c]
  <2>1. row[d] = "none" /\ d # c
    BY <1>2 DEF Decide
  <2> QED
    BY <1>2, <2>1 DEF Decide
<1>3. ASSUME NEW a \in Account, ClearBreaker(a)
      PROVE  UNCHANGED aware
  BY <1>3 DEF ClearBreaker
<1>4. ASSUME NEW h \in Halting, Halt(h) \/ Resume(h)
      PROVE  UNCHANGED aware
  BY <1>4 DEF Halt, Resume
<1> QED
  BY <1>1, <1>2, <1>3, <1>4 DEF Next

LEMMA CapStep ==
  ASSUME Capped, Next
  PROVE  CapNeedsOverlap'
<1> SUFFICES ASSUME Cap > 0, Len(ledger') <= ListLimit, NEW a \in Account,
                    Cardinality(ActiveOf(a)') > Cap
             PROVE  \E c, d \in ActiveOf(a)' :
                      /\ RunOf(c) # RunOf(d)
                      /\ c \notin aware'[d] /\ d \notin aware'[c]
  BY DEF CapNeedsOverlap
<1> USE DEF Capped
<1>1. Len(ledger) <= ListLimit
  BY RowsStay, OrderAssumption
<1>2. ActiveOf(a) \subseteq Rowed
  BY ActiveIsRowed
<1>3. \A c \in ActiveOf(a) : aware'[c] = aware[c] /\ c \in ActiveOf(a)'
  BY <1>2, AwareStays, RowsStay DEF ActiveOf, IsActive
<1>4. CASE Cardinality(ActiveOf(a)) > Cap
  <2>1. PICK c, d \in ActiveOf(a) : /\ RunOf(c) # RunOf(d)
                                    /\ c \notin aware[d] /\ d \notin aware[c]
    BY <1>1, <1>4 DEF CapNeedsOverlap
  <2> QED
    BY <1>3, <2>1
<1>5. CASE ~(Cardinality(ActiveOf(a)) > Cap)
  <2>1. PICK r \in Run :
          /\ Record(r)
          /\ cur[r] \in Candidate /\ RunOf(cur[r]) = r
          /\ row[cur[r]] = "none"
          /\ row' = [row EXCEPT ![cur[r]] = verdict[r]]
    <3>1. CASE UNCHANGED <<row, ledger>>
      <4>1. ActiveOf(a)' = ActiveOf(a)
        BY <3>1 DEF ActiveOf, IsActive
      <4> QED
        BY <1>5, <4>1
    <3> QED
      BY <3>1, RowsStep
  <2>2. row \in [Candidate -> {"none"} \cup Statuses]
    BY DEF Accounted, TypeOK
  <2>3. verdict[r] = "open" /\ AccountOf(cur[r]) = a
    <3> SUFFICES ASSUME verdict[r] # "open" \/ AccountOf(cur[r]) # a
                 PROVE  FALSE
      OBVIOUS
    <3>1. ActiveOf(a)' = ActiveOf(a)
      BY <2>1, <2>2 DEF ActiveOf, IsActive
    <3> QED
      BY <1>5, <3>1
  <2>4. ActiveOf(a)' = ActiveOf(a) \cup {cur[r]}
    BY <2>1, <2>2, <2>3 DEF ActiveOf, IsActive
  <2>5. Cardinality(ActiveOf(a)) >= Cap
    <3>1. IsFiniteSet(ActiveOf(a))
      BY <1>2, FS_Subset DEF Kept
    <3>2. Cardinality(ActiveOf(a) \cup {cur[r]}) \in
            {Cardinality(ActiveOf(a)), Cardinality(ActiveOf(a)) + 1}
      BY <3>1, FS_AddElement
    <3>3. Cardinality(ActiveOf(a)) \in Nat /\ Cap \in Nat
      BY <3>1, FS_CardinalityType, OrderAssumption
    <3>4. Cardinality(ActiveOf(a) \cup {cur[r]}) > Cap
      BY <2>4
    <3> QED
      BY <3>2, <3>3, <3>4
  <2>6. Sending(r)
    BY <2>1, <2>3 DEF Sending, Record
  <2>7. PICK c \in ActiveOf(a) : RunOf(c) # r /\ c \notin aware[cur[r]]
    BY <1>1, <2>1, <2>3, <2>5, <2>6, UnawareOfOther
  <2>8. cur[r] \notin aware[c]
    BY <2>1, <2>7 DEF Kept, Rowed, ActiveOf
  <2>9. UNCHANGED aware
    BY <2>1 DEF Record, history
  <2>10. c \in ActiveOf(a)' /\ cur[r] \in ActiveOf(a)'
    BY <2>4, <2>7
  <2>11. RunOf(c) # RunOf(cur[r]) /\ c \notin aware'[cur[r]] /\ cur[r] \notin aware'[c]
    BY <2>1, <2>7, <2>8, <2>9
  <2> QED
    BY <2>10, <2>11
<1> QED
  BY <1>4, <1>5

\* An account exceeds a cap only by passes of different runs that overlapped,
\* each unaware of an active order of the other: for any cap, any number of
\* passes, repeated ones and crashes, as long as the list of rows is complete.
THEOREM CapsNeedOverlap == Spec => []CapNeedsOverlap
<1>1. Init => Kept /\ AwareOfOwn /\ Room /\ CapNeedsOverlap
  <2> SUFFICES ASSUME Init
               PROVE  Kept /\ AwareOfOwn /\ Room /\ CapNeedsOverlap
    OBVIOUS
  <2> USE DEF Init
  <2>1. Rowed = {} /\ IsFiniteSet(Rowed)
    BY FS_EmptySet DEF Rowed
  <2>2. Kept
    BY <2>1 DEF Kept
  <2>3. AwareOfOwn
    BY DEF AwareOfOwn, Sending, InPass
  <2>4. Room
    BY DEF Room, Sending
  <2>5. \A a : Cardinality(ActiveOf(a)) = 0
    <3>1. \A a : ActiveOf(a) = {}
      BY <2>1, ActiveIsRowed
    <3> QED
      BY <3>1, FS_EmptySet
  <2>6. CapNeedsOverlap
    BY <2>5, OrderAssumption DEF CapNeedsOverlap
  <2> QED
    BY <2>2, <2>3, <2>4, <2>6
<1>2. Capped /\ Accounted' /\ [Next]_vars => Capped'
  <2>1. CASE UNCHANGED vars
    BY <2>1 DEF vars, pass, history, Capped, Accounted, TypeOK, InHandOK,
                TakenRecorded, NoSilentOrder, AuditIsComplete, InHand, Kept,
                Rowed, AwareOfOwn, Room, Sending, KnownTo, IsActive,
                CapNeedsOverlap, ActiveOf, CandidatesOf, Done
  <2>2. ASSUME Capped, Accounted', Next
        PROVE  Capped'
    <3>1. TypeOK'
      BY <2>2 DEF Accounted
    <3>2. Kept' /\ AwareOfOwn' /\ Room'
      BY <2>2, <3>1, KeptStep, AwareOfOwnStep, RoomStep DEF Capped
    <3>3. CapNeedsOverlap'
      BY <2>2, CapStep
    <3> QED
      BY <2>2, <3>2, <3>3 DEF Capped
  <2> QED
    BY <2>1, <2>2
<1>3. Capped => CapNeedsOverlap
  BY DEF Capped
<1>4. Accounted /\ Kept /\ AwareOfOwn /\ Room /\ CapNeedsOverlap => Capped
  BY DEF Capped
<1> QED
  BY <1>1, <1>2, <1>3, <1>4, AccountedHolds, PTL DEF Spec
=============================================================================
