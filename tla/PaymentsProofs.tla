--------------------------- MODULE PaymentsProofs ---------------------------
(***************************************************************************)
(* What modules Payments and PaymentDesk guarantee for every set of        *)
(* payments, references, accounts and concurrent requests: their types;    *)
(* that credit is backed by money taken, is final, and implements          *)
(* CreditLedger; that receipts are issued, notices written and the log     *)
(* true; and what is left of it when the office edits the same rows.       *)
(***************************************************************************)
EXTENDS PaymentDesk, TLAPS

-----------------------------------------------------------------------------
(* Types *)

\* Posting notices keeps the inbox a function from notices to numbers.
LEMMA PostedType ==
  ASSUME inbox \in [Notice -> Nat], NEW S
  PROVE  Posted(S) \in [Notice -> Nat]
BY DEF Posted

\* Settling a row, and confirming it from a webhook, keep the payment table.
LEMMA SettledTable ==
  ASSUME payment \in [Pk -> Row], NEW pk \in Pk, NEW status \in Settled
  PROVE  [payment EXCEPT ![pk] =
            [payment[pk] EXCEPT !.status = status, !.processed = TRUE]]
           \in [Pk -> Row]
<1>1. ASSUME NEW row \in Row
      PROVE  [row EXCEPT !.status = status, !.processed = TRUE] \in Row
  BY DEF Row, Status, Stored
<1>2. ASSUME NEW row \in Row PROVE [payment EXCEPT ![pk] = row] \in [Pk -> Row]
  OBVIOUS
<1>3. payment[pk] \in Row
  OBVIOUS
<1>. QED
  BY <1>1, <1>2, <1>3, Zenon

LEMMA ConfirmedTable ==
  ASSUME payment \in [Pk -> Row], NEW pk \in Pk
  PROVE  [payment EXCEPT ![pk] =
            [payment[pk] EXCEPT !.status = "CONFIRMED", !.processed = TRUE,
                                !.method = "PAYSTACK", !.student = TRUE]]
           \in [Pk -> Row]
<1>1. ASSUME NEW row \in Row
      PROVE  [row EXCEPT !.status = "CONFIRMED", !.processed = TRUE,
                         !.method = "PAYSTACK", !.student = TRUE] \in Row
  BY DEF Row, Status, Stored, Settled, Method
<1>2. ASSUME NEW row \in Row PROVE [payment EXCEPT ![pk] = row] \in [Pk -> Row]
  OBVIOUS
<1>3. payment[pk] \in Row
  OBVIOUS
<1>. QED
  BY <1>1, <1>2, <1>3, Zenon

\* The steps of the payer and of Paystack keep the types.
LEMMA InitiateTypes ==
  ASSUME TypeOK, NEW pk \in Pk, NEW ref \in Ref, NEW amount \in Amount,
         NEW student \in BOOLEAN, NEW reached \in BOOLEAN,
         Initiate(pk, ref, amount, student, reached)
  PROVE  TypeOK'
BY DEF TypeOK, work, Initiate, NoRow, Row, Status, Stored, Settled, Method

LEMMA PaystackTypes ==
  ASSUME TypeOK, NEW ref \in Ref,
         Decline(ref) \/ \E amount \in Amount : Charge(ref, amount)
  PROVE  TypeOK'
BY DEF TypeOK, work, rows, Decline, Charge, Event

\* A webhook delivery keeps the types.
LEMMA WebhookTypes ==
  ASSUME TypeOK, NEW e \in sent, HandleWebhook(e)
  PROVE  TypeOK'
<1>. USE DEF TypeOK, work, rows, gateway
<1>0. /\ e \in Event
      /\ Logged(e, TRUE) \subseteq [event : Event, processed : BOOLEAN]
      /\ Logged(e, FALSE) \subseteq [event : Event, processed : BOOLEAN]
  <2>1. e \in Event
    OBVIOUS
  <2>2. ASSUME NEW done \in BOOLEAN
        PROVE  Logged(e, done) \subseteq [event : Event, processed : BOOLEAN]
    BY <2>1 DEF Logged
  <2>. QED
    BY <2>1, <2>2
<1>1. ASSUME NEW pk \in Pk, SuccessSkip(e, pk) PROVE TypeOK'
  BY <1>0, <1>1 DEF SuccessSkip
<1>2. ASSUME NEW pk \in Pk, SuccessMismatch(e, pk) PROVE TypeOK'
  <2>1. payment' \in [Pk -> Row]
    BY <1>2, SettledTable DEF SuccessMismatch, Settled
  <2>. QED
    BY <2>1, <1>0, <1>2 DEF SuccessMismatch
<1>3. ASSUME NEW pk \in Pk, SuccessConfirm(e, pk) PROVE TypeOK'
  <2>1. payment' \in [Pk -> Row]
    BY <1>3, ConfirmedTable DEF SuccessConfirm
  <2>. QED
    BY <2>1, <1>0, <1>3, PostedType DEF SuccessConfirm, Credit
<1>4. ASSUME NEW pk \in Pk, SuccessCreate(e, pk) PROVE TypeOK'
  BY <1>0, <1>4, PostedType
     DEF SuccessCreate, Credit, NoRow, Row, Status, Stored, Settled, Method,
         Event
<1>5. ASSUME NEW pk \in Pk, SuccessRefused(e, pk) PROVE TypeOK'
  BY <1>5 DEF SuccessRefused, vars
<1>8. CASE SuccessUnresolved(e)
  BY <1>0, <1>8 DEF SuccessUnresolved
<1>6. ASSUME NEW pk \in Pk, FailureRecorded(e, pk) PROVE TypeOK'
  <2>1. payment' \in [Pk -> Row]
    BY <1>6, SettledTable DEF FailureRecorded, Settled
  <2>. QED
    BY <2>1, <1>0, <1>6, PostedType DEF FailureRecorded
<1>7. CASE FailureIgnored(e)
  BY <1>0, <1>7 DEF FailureIgnored
<1>. QED
  BY <1>1, <1>2, <1>3, <1>4, <1>5, <1>6, <1>7, <1>8
     DEF HandleWebhook, HandleChargeSuccess, HandleChargeFailure

\* Marking a row's verification as attempted keeps the table a table of rows.
LEMMA AttemptedTable ==
  ASSUME payment \in [Pk -> Row], NEW pk \in Pk
  PROVE  [payment EXCEPT ![pk].attempted = TRUE] \in [Pk -> Row]
<1>1. payment[pk] \in Row OBVIOUS
<1>2. [payment[pk] EXCEPT !.attempted = TRUE] \in Row
  BY <1>1 DEF Row
<1>. QED
  BY <1>2

\* A job record with some fields replaced is still a job.
LEMMA FetchedType ==
  ASSUME TypeOK, NEW pk \in Pk, NEW phase \in Phase,
         NEW route \in {"verify", "view"}
  PROVE  /\ Fetched(pk, phase, route) \in Job /\ Fetched(pk, phase, route).pk = pk
         /\ Fetched(pk, phase, route).phase = phase
BY DEF TypeOK, Fetched, NoJob, Job, Row, Settled

\* Reusing a row rewrites amount and student, and of nothing else.
LEMMA ReusedRows ==
  ASSUME TypeOK, NEW q \in Request, NEW reached \in BOOLEAN, Reinitiate(q, reached)
  PROVE  /\ payment' \in [Pk -> Row] /\ session' \subseteq Ref
         /\ Move(q, NoJob)
         /\ UNCHANGED <<receipt, inbox, charged, sent, webhookLog, crashes>>
         /\ \A pk \in Pk :
              /\ payment'[pk].status = payment[pk].status
              /\ payment'[pk].ref = payment[pk].ref
              /\ payment'[pk].byAdmin = payment[pk].byAdmin
<1>1. /\ job[q].ref \in Ref /\ job[q].amount \in Amount \cup {0}
      /\ job[q].student \in BOOLEAN
  BY DEF Reinitiate, TypeOK, Job
<1>2. ASSUME NEW row \in Row
      PROVE  LET new == [row EXCEPT !.amount = job[q].amount,
                                    !.student = @ \/ job[q].student] IN
             /\ new \in Row /\ new.status = row.status /\ new.ref = row.ref
             /\ new.byAdmin = row.byAdmin
  BY <1>1 DEF Row
<1>3. ASSUME NEW pk \in Pk
      PROVE  /\ payment[pk] \in Row /\ payment'[pk] \in Row
             /\ payment'[pk].status = payment[pk].status
             /\ payment'[pk].ref = payment[pk].ref
             /\ payment'[pk].byAdmin = payment[pk].byAdmin
  <2>1. payment[pk] \in Row
    BY DEF TypeOK
  <2>2. payment'[pk] = IF pk \in Holder(job[q].ref)
                       THEN [payment[pk] EXCEPT !.amount = job[q].amount,
                                                !.student = @ \/ job[q].student]
                       ELSE payment[pk]
    BY DEF Reinitiate
  <2>. QED
    BY <2>1, <2>2, <1>2
<1>4. payment' \in [Pk -> Row]
  BY <1>3 DEF Reinitiate
<1>. QED
  BY <1>1, <1>3, <1>4 DEF Reinitiate, TypeOK

\* A step of a web request keeps the types.
LEMMA RequestTypes ==
  ASSUME TypeOK, NEW q \in Request, ServeRequest(q)
  PROVE  TypeOK'
<1>. USE DEF TypeOK, rows, gateway, Move
<1>a. NoJob \in Job /\ NoJob.phase = "idle" BY DEF NoJob, Job, Phase, Settled
<1>b. job[q] \in Job OBVIOUS
<1>1. ASSUME NEW pk \in Pk, ReturnPoll(q, pk) PROVE TypeOK'
  BY <1>1, FetchedType DEF ReturnPoll, Phase
<1>2. ASSUME NEW pk \in Pk, Callback(q, pk) PROVE TypeOK'
  BY <1>2, FetchedType DEF Callback, Phase
<1>3. ASSUME NEW pk \in Pk, OpenReceipt(q, pk) PROVE TypeOK'
  BY <1>3, FetchedType DEF OpenReceipt, Phase
<1>4. CASE ClaimVerify(q)
  <2>1. payment' \in [Pk -> Row]
    <3>1. job[q].pk \in Pk
      BY <1>4 DEF ClaimVerify
    <3>2. payment' = [payment EXCEPT ![job[q].pk].attempted = TRUE]
      BY <1>4 DEF ClaimVerify
    <3>. QED
      BY <3>1, <3>2, AttemptedTable
  <2>. QED
    BY <2>1, <1>4, <1>b DEF ClaimVerify, Job, Phase
<1>5. CASE AskPaid(q)
  BY <1>5, <1>b DEF AskPaid, Job, Phase, Settled
<1>6. CASE AskInconclusive(q)
  BY <1>6, <1>a DEF AskInconclusive
<1>7. CASE SaveCheck(q)
  BY <1>7, <1>a, <1>b DEF SaveCheck, Job, Phase
<1>8. CASE SaveWrite(q)
  <2>1. payment' \in [Pk -> Row]
    <3>1. job[q].target \in Settled /\ job[q].pk \in Pk
      BY <1>8, <1>b DEF SaveWrite, Job
    <3>. QED
      BY <3>1, <1>8, SettledTable DEF SaveWrite
  <2>. QED
    BY <2>1, <1>8, <1>a, <1>b DEF SaveWrite, Job, Phase
<1>9. CASE IssueReceipt(q)
  BY <1>9, <1>a, <1>b DEF IssueReceipt, Job, Phase
<1>10. CASE ReadSent(q)
  BY <1>10, <1>b DEF ReadSent, Recipients, Account, Job, Phase
<1>11. CASE NoticesSent(q)
  BY <1>11, <1>a, <1>b DEF NoticesSent, Job, Phase
<1>12. CASE Crash(q)
  BY <1>12, <1>a, PaymentsAssumption DEF Crash
<1>13. ASSUME NEW p \in Person, SendNotice(q, p) PROVE TypeOK'
  BY <1>13, <1>b, PostedType DEF SendNotice, Job
<1>14. ASSUME NEW pk \in Pk, OpenReuse(q, pk) PROVE TypeOK'
  <2>1. Fetched(pk, "reuse", "verify").ref \in Ref
    BY <1>14 DEF OpenReuse, Fetched, NoJob
  <2>. QED
    BY <2>1, <1>14, FetchedType DEF OpenReuse, Phase
<1>15. ASSUME NEW reached \in BOOLEAN, Reinitiate(q, reached) PROVE TypeOK'
  BY <1>15, <1>a, ReusedRows
<1>. QED
  BY <1>1, <1>2, <1>3, <1>4, <1>5, <1>6, <1>7, <1>8, <1>9, <1>10, <1>11,
     <1>12, <1>13, <1>14, <1>15 DEF ServeRequest

LEMMA NextTypes == TypeOK /\ [Next]_vars => TypeOK'
<1>1. ASSUME TypeOK, UNCHANGED vars PROVE TypeOK'
  BY <1>1 DEF TypeOK, vars
<1>2. ASSUME TypeOK, Next PROVE TypeOK'
  BY <1>2, InitiateTypes, PaystackTypes, WebhookTypes,
     RequestTypes DEF Next
<1>. QED
  BY <1>1, <1>2

LEMMA TypeAtInit == Init => TypeOK
BY PaymentsAssumption
   DEF Init, TypeOK, NoRow, Row, Status, Stored, Settled, Method, NoJob, Job,
       Phase

\* Every reachable state of the payment code is well typed.
THEOREM TypeCorrect == Spec => []TypeOK
BY TypeAtInit, NextTypes, PTL DEF Spec

-----------------------------------------------------------------------------
(* The inductive invariant *)

\* What a step keeps of the rows and of the money taken: stored rows keep their
\* amount, reference and student, confirmed rows stay confirmed, charges are not undone.
Kept ==
  /\ \A p \in Pk : Live(p) =>
       /\ Live(p)'
       /\ payment'[p].ref = payment[p].ref
       /\ payment'[p].amount = payment[p].amount
       /\ payment[p].student => payment'[p].student
       /\ Confirmed(p) => Confirmed(p)'
  /\ \A r \in Ref : charged[r] # 0 => charged'[r] = charged[r]

\* The part of the invariant that speaks of the Payment table alone.
RowInv == OneRowPerReference /\ CreditBacked /\ RowSound

\* At most one row becomes confirmed in a step that takes no money.
OneCredit ==
  /\ charged' = charged
  /\ \E pk : \A p \in Pk \ {pk} : Confirmed(p)' => Confirmed(p)

\* A request that does not move stays sound.
LEMMA JobStays ==
  ASSUME CreditInv, Kept, NEW q \in Request, job'[q] = job[q]
  PROVE  JobSound(q)'
<1>1. CASE job[q].phase = "idle"
  BY <1>1 DEF JobSound
<1>2. CASE job[q].phase # "idle"
  <2>1. job[q].pk \in Pk /\ JobSound(q)
    BY <1>2 DEF CreditInv, TypeOK
  <2>2. payment[job[q].pk].ref \in Ref
    BY <1>2, <2>1 DEF CreditInv, JobSound, RowSound
  <2>. QED
    BY <1>2, <2>1, <2>2 DEF Kept, JobSound, Confirmed
<1>. QED
  BY <1>1, <1>2

\* So do receipts that were there before.
LEMMA ReceiptsStay ==
  ASSUME CreditInv, Kept, receipt' = receipt
  PROVE  ReceiptOnlyForConfirmed'
BY DEF CreditInv, TypeOK, Kept, ReceiptOnlyForConfirmed, Confirmed, Live,
       Stored, Settled

\* Rewriting one stored row keeps the invariant on rows when the row keeps its
\* amount and reference, is not un-confirmed, and is confirmed only for the
\* amount that was charged.
LEMMA RowRewritten ==
  ASSUME CreditInv, UNCHANGED charged,
         NEW pk \in Pk, Live(pk), Live(pk)',
         \A p \in Pk \ {pk} : payment'[p] = payment[p],
         payment'[pk].ref = payment[pk].ref,
         payment'[pk].amount = payment[pk].amount,
         payment[pk].student => payment'[pk].student,
         Confirmed(pk) => Confirmed(pk)',
         Confirmed(pk)' =>
           /\ payment'[pk].processed
           /\ payment[pk].amount = charged[payment[pk].ref]
  PROVE  RowInv' /\ Kept /\ OneCredit
<1>. USE DEF CreditInv, Live, Confirmed
<1>1. Kept
  BY DEF Kept
<1>2. OneRowPerReference'
  BY DEF OneRowPerReference, Holder
<1>3. CreditBacked'
  BY DEF CreditBacked, RowSound
<1>4. RowSound'
  BY DEF RowSound
<1>5. OneCredit
  BY DEF OneCredit
<1>. QED
  BY <1>1, <1>2, <1>3, <1>4, <1>5 DEF RowInv

\* What is to be shown of each action.
Good == CreditInv' /\ Kept /\ OneCredit

\* A step that leaves rows, receipts, charges and events alone is good when the
\* one request that moves stays sound.
LEMMA RowsUntouched ==
  ASSUME CreditInv, TypeOK', UNCHANGED <<payment, receipt, charged, sent>>,
         \A q \in Request : JobSound(q)'
  PROVE  Good
<1>1. Kept /\ OneCredit
  BY DEF Kept, OneCredit, Live, Confirmed
<1>2. ReceiptOnlyForConfirmed'
  BY <1>1, ReceiptsStay
<1>3. RowInv' /\ EventTrue'
  BY DEF CreditInv, RowInv, OneRowPerReference, Holder, CreditBacked, RowSound,
         EventTrue, Live, Confirmed
<1>. QED
  BY <1>1, <1>2, <1>3 DEF Good, CreditInv, RowInv

\* The payer stores a row under a reference no other row holds.
LEMMA InitiateGood ==
  ASSUME CreditInv, NEW pk \in Pk, NEW ref \in Ref, NEW amount \in Amount,
         NEW student \in BOOLEAN, NEW reached \in BOOLEAN,
         Initiate(pk, ref, amount, student, reached)
  PROVE  Good
<1>1. TypeOK /\ TypeOK' /\ UNCHANGED <<receipt, charged, sent, job>>
  BY InitiateTypes DEF CreditInv, Initiate, work
<1>2. /\ ~ Live(pk)
      /\ \A p \in Pk \ {pk} : payment'[p] = payment[p]
      /\ payment'[pk].status = "PENDING"
      /\ payment'[pk].amount = amount
      /\ payment'[pk].ref = ref
      /\ \A p \in Pk : payment[p].ref # ref
  BY <1>1 DEF Initiate, TypeOK, NoRow, Live, Stored, Settled
<1>3. Kept /\ OneCredit
  BY <1>1, <1>2 DEF Kept, OneCredit, Live, Confirmed
<1>4. OneRowPerReference'
  BY <1>1, <1>2 DEF CreditInv, OneRowPerReference, Holder, Live
<1>5. CreditBacked' /\ RowSound'
  BY <1>1, <1>2 DEF CreditInv, CreditBacked, RowSound, Confirmed, Live
<1>6. \A q \in Request : JobSound(q)'
  BY <1>1, <1>3, JobStays
<1>7. ReceiptOnlyForConfirmed' /\ EventTrue'
  BY <1>1, <1>3, ReceiptsStay DEF CreditInv, EventTrue
<1>. QED
  BY <1>1, <1>3, <1>4, <1>5, <1>6, <1>7 DEF Good, CreditInv

\* The row that is reused is the row that was read, with that amount and student.
LEMMA ReusedSame ==
  ASSUME CreditInv, NEW q \in Request, NEW reached \in BOOLEAN, Reinitiate(q, reached)
  PROVE  payment' = payment
<1>1. /\ TypeOK /\ job[q].pk \in Pk /\ job[q].ref \in Ref /\ JobSound(q)
      /\ job[q].phase = "reuse"
  BY DEF CreditInv, TypeOK, Reinitiate
<1>2. ASSUME NEW pk \in Holder(job[q].ref)
      PROVE  [payment[pk] EXCEPT !.amount = job[q].amount,
                                 !.student = @ \/ job[q].student] = payment[pk]
  <2>1. pk = job[q].pk /\ payment[pk] \in Row
    BY <1>1, <1>2 DEF CreditInv, OneRowPerReference, Holder, JobSound, TypeOK
  <2>2. /\ job[q].amount = payment[pk].amount
        /\ payment[pk].student \in BOOLEAN
        /\ job[q].student => payment[pk].student
    BY <2>1, <1>1 DEF JobSound, Row
  <2>3. (payment[pk].student \/ job[q].student) = payment[pk].student
    BY <2>2, Zenon
  <2>. QED
    BY <2>1, <2>2, <2>3 DEF Row
<1>3. \A pk \in Pk : payment'[pk] = payment[pk]
  BY <1>2 DEF Reinitiate
<1>. QED
  BY <1>1, <1>3, ReusedRows DEF TypeOK

\* Paystack's own steps: an event it announces is true.  A charge needs a page,
\* and it finds no confirmed row, since that would have been charged before.
LEMMA PaystackGood ==
  ASSUME CreditInv, NEW ref \in Ref,
         Decline(ref) \/ \E amount \in Amount : Charge(ref, amount)
  PROVE  CreditInv' /\ Kept /\ payment' = payment
<1>1. TypeOK /\ TypeOK' /\ UNCHANGED <<payment, receipt, job>>
  BY PaystackTypes DEF CreditInv, Decline, Charge, rows, work
<1>2. charged[ref] = 0 /\ \A r \in Ref \ {ref} : charged'[r] = charged[r]
  BY <1>1 DEF Decline, Charge, TypeOK
<1>3. Kept
  BY <1>1, <1>2 DEF Kept, Live, Confirmed
<1>4. OneRowPerReference' /\ RowSound'
  BY <1>1 DEF CreditInv, OneRowPerReference, Holder, RowSound, Live, Confirmed
<1>5. CreditBacked'
  <2>1. SUFFICES ASSUME NEW pk \in Pk, Confirmed(pk)
                 PROVE  /\ payment[pk].ref \in Ref
                        /\ payment[pk].amount = charged'[payment[pk].ref]
    BY <1>1 DEF CreditBacked, Confirmed
  <2>2. payment[pk].amount \in Amount /\ payment[pk].ref \in Ref
    BY <2>1 DEF CreditInv, RowSound, Live, Confirmed, Stored, Settled
  <2>3. payment[pk].amount = charged[payment[pk].ref]
    BY <2>1 DEF CreditInv, CreditBacked
  <2>. QED
    BY <2>2, <2>3, <1>2, PaymentsAssumption
<1>6. EventTrue'
  <2>1. CASE Decline(ref)
    BY <2>1 DEF Decline, CreditInv, EventTrue
  <2>2. ASSUME NEW amount \in Amount, Charge(ref, amount)
        PROVE  EventTrue'
    <3>1. charged'[ref] = amount /\ amount # 0
      BY <2>2, <1>1, PaymentsAssumption DEF Charge, TypeOK
    <3>. QED
      BY <3>1, <2>2, <1>1, <1>2 DEF Charge, CreditInv, EventTrue, TypeOK, Event
  <2>. QED
    BY <2>1, <2>2
<1>7. \A q \in Request : JobSound(q)'
  BY <1>1, <1>3, JobStays
<1>8. ReceiptOnlyForConfirmed'
  BY <1>1, <1>3, ReceiptsStay
<1>. QED
  BY <1>1, <1>3, <1>4, <1>5, <1>6, <1>7, <1>8 DEF CreditInv

\* A step that rewrites one stored row, and leaves requests and receipts sound.
LEMMA RewriteGood ==
  ASSUME CreditInv, TypeOK', UNCHANGED <<charged, sent>>,
         RowInv', Kept, OneCredit,
         \A q \in Request : JobSound(q)', ReceiptOnlyForConfirmed'
  PROVE  Good
BY DEF Good, CreditInv, RowInv, EventTrue

\* A webhook delivery locks its row, believes the event only as far as the
\* amount agrees, and fails no row that is confirmed.
LEMMA WebhookGood ==
  ASSUME CreditInv, NEW e \in sent, HandleWebhook(e)
  PROVE  Good
<1>0. /\ TypeOK /\ TypeOK' /\ e \in Event
      /\ UNCHANGED <<charged, sent, job>>
  <2>1. TypeOK /\ TypeOK' /\ e \in Event
    BY WebhookTypes DEF CreditInv, TypeOK
  <2>2. UNCHANGED <<charged, sent, job>>
    BY DEF HandleWebhook, HandleChargeSuccess, HandleChargeFailure, SuccessSkip,
           SuccessMismatch, SuccessConfirm, SuccessCreate, SuccessRefused,
           SuccessUnresolved, FailureRecorded, FailureIgnored, gateway, work, vars
  <2>. QED
    BY <2>1, <2>2
<1>a. ASSUME Kept PROVE \A q \in Request : JobSound(q)'
  BY <1>0, <1>a, JobStays
<1>b. ASSUME UNCHANGED rows PROVE Good
  <2>1. Kept /\ UNCHANGED <<payment, receipt, charged, sent>>
    BY <1>0, <1>b DEF Kept, Live, Confirmed, rows
  <2>. QED
    BY <2>1, <1>0, <1>a, RowsUntouched
<1>1. ASSUME NEW pk \in Pk, SuccessSkip(e, pk) \/ SuccessRefused(e, pk)
      PROVE  Good
  BY <1>1, <1>b DEF SuccessSkip, SuccessRefused, vars, rows
<1>c. CASE FailureIgnored(e) \/ SuccessUnresolved(e)
  BY <1>c, <1>b DEF FailureIgnored, SuccessUnresolved
<1>2. ASSUME NEW pk \in Pk, SuccessMismatch(e, pk) \/ FailureRecorded(e, pk)
      PROVE  Good
  <2>1. /\ Live(pk) /\ Live(pk)' /\ ~ Confirmed(pk) /\ ~ Confirmed(pk)'
        /\ \A p \in Pk \ {pk} : payment'[p] = payment[p]
        /\ payment'[pk].ref = payment[pk].ref
        /\ payment'[pk].amount = payment[pk].amount
        /\ payment'[pk].student = payment[pk].student
        /\ receipt' = receipt
    <3>1. /\ Live(pk) /\ ~ Confirmed(pk) /\ receipt' = receipt
          /\ payment' = [payment EXCEPT ![pk] =
               [payment[pk] EXCEPT !.status = "FAILED", !.processed = TRUE]]
      BY <1>2 DEF SuccessMismatch, FailureRecorded, Holder, LegalSave,
                  Confirmed, Stored, Settled
    <3>. QED
      BY <3>1, <1>0 DEF TypeOK, Row, Live, Confirmed, Stored, Settled
  <2>2. RowInv' /\ Kept /\ OneCredit
    BY <2>1, <1>0, RowRewritten
  <2>3. ReceiptOnlyForConfirmed'
    BY <2>1, <2>2, ReceiptsStay
  <2>. QED
    BY <2>2, <2>3, <1>0, <1>a, RewriteGood
<1>3. ASSUME NEW pk \in Pk, SuccessConfirm(e, pk), e.type = "charge.success"
      PROVE  Good
  <2>1. /\ Live(pk) /\ Live(pk)' /\ Confirmed(pk)' /\ payment'[pk].processed
        /\ \A p \in Pk \ {pk} : payment'[p] = payment[p]
        /\ payment'[pk].ref = payment[pk].ref
        /\ payment'[pk].amount = payment[pk].amount
        /\ payment'[pk].student
        /\ receipt' = receipt \cup {pk}
        /\ payment[pk].ref = e.ref /\ payment[pk].amount = e.amount
    BY <1>3, <1>0 DEF SuccessConfirm, Credit, Holder, Live, Confirmed, TypeOK,
                      Row, Stored, Settled
  <2>2. payment[pk].amount = charged[payment[pk].ref]
    BY <2>1, <1>3 DEF CreditInv, EventTrue
  <2>3. RowInv' /\ Kept /\ OneCredit
    BY <2>1, <2>2, <1>0, RowRewritten
  <2>4. ReceiptOnlyForConfirmed'
    BY <2>1, <2>3 DEF CreditInv, ReceiptOnlyForConfirmed, Kept, Confirmed, Live,
                      Stored, Settled, TypeOK
  <2>. QED
    BY <2>3, <2>4, <1>0, <1>a, RewriteGood
<1>4. ASSUME NEW pk \in Pk, SuccessCreate(e, pk), e.type = "charge.success"
      PROVE  Good
  <2>1. /\ ~ Live(pk) /\ Live(pk)' /\ Confirmed(pk)' /\ payment'[pk].processed
        /\ \A p \in Pk \ {pk} : payment'[p] = payment[p]
        /\ payment'[pk].ref = e.ref /\ payment'[pk].amount = e.amount
        /\ receipt' = receipt \cup {pk}
        /\ \A p \in Pk : ~ (Live(p) /\ payment[p].ref = e.ref)
    BY <1>4, <1>0 DEF SuccessCreate, Credit, Holder, Live, Confirmed, TypeOK,
                      NoRow, Stored, Settled
  <2>2. e.ref \in Ref /\ e.amount = charged[e.ref] /\ e.amount \in Amount
    BY <1>0, <1>4 DEF CreditInv, EventTrue, Event, TypeOK
  <2>3. Kept /\ OneCredit
    BY <2>1, <1>0 DEF Kept, OneCredit, Live, Confirmed
  <2>4. OneRowPerReference'
    BY <2>1, <2>2 DEF CreditInv, OneRowPerReference, Holder, Live
  <2>5. CreditBacked' /\ RowSound'
    BY <2>1, <2>2, <1>0 DEF CreditInv, CreditBacked, RowSound, Confirmed, Live
  <2>6. ReceiptOnlyForConfirmed'
    BY <2>1, <2>3 DEF CreditInv, ReceiptOnlyForConfirmed, Kept, Confirmed, Live,
                      Stored, Settled, TypeOK
  <2>. QED
    BY <2>3, <2>4, <2>5, <2>6, <1>0, <1>a, RewriteGood DEF RowInv
<1>. QED
  BY <1>1, <1>2, <1>3, <1>4, <1>c DEF HandleWebhook, HandleChargeSuccess,
                                     HandleChargeFailure

\* A step of a web request: the copy it took still describes the row.
LEMMA RequestGood ==
  ASSUME CreditInv, NEW q \in Request, ServeRequest(q)
  PROVE  Good
<1>0. /\ TypeOK /\ TypeOK' /\ job[q] \in Job
      /\ UNCHANGED <<charged, sent>>
      /\ \A other \in Request \ {q} : job'[other] = job[other]
  <2>1. TypeOK /\ TypeOK' /\ job[q] \in Job
    BY RequestTypes DEF CreditInv, TypeOK
  <2>2. UNCHANGED <<charged, sent>>
    BY DEF ServeRequest, OpenReuse, Reinitiate, ReturnPoll, Callback, OpenReceipt,
           ClaimVerify, AskPaid, AskInconclusive, SaveCheck, SaveWrite, IssueReceipt,
           ReadSent, NoticesSent, Crash, SendNotice, gateway
  <2>3. \E next : Move(q, next)
    BY Zenon DEF ServeRequest, OpenReuse, Reinitiate, ReturnPoll, Callback,
                 OpenReceipt, ClaimVerify, AskPaid, AskInconclusive, SaveCheck,
                 SaveWrite, IssueReceipt, ReadSent, NoticesSent, Crash, SendNotice
  <2>4. \A other \in Request \ {q} : job'[other] = job[other]
    BY <2>1, <2>3 DEF Move, TypeOK
  <2>. QED
    BY <2>1, <2>2, <2>4
\* It is enough that the invariant on rows is kept and q itself stays sound.
<1>a. ASSUME Kept, JobSound(q)' PROVE \A other \in Request : JobSound(other)'
  BY <1>0, <1>a, JobStays
<1>b. ASSUME UNCHANGED <<payment, receipt>>, JobSound(q)' PROVE Good
  <2>1. Kept
    BY <1>0, <1>b DEF Kept, Live, Confirmed
  <2>. QED
    BY <2>1, <1>0, <1>a, <1>b, RowsUntouched
<1>i. ASSUME Move(q, NoJob) PROVE JobSound(q)'
  BY <1>0, <1>i DEF Move, NoJob, JobSound, TypeOK
<1>j. ASSUME job[q].phase # "idle"
      PROVE  /\ job[q].pk \in Pk /\ Live(job[q].pk) /\ JobSound(q)
             /\ job[q].ref \in Ref
  BY <1>0, <1>j DEF CreditInv, JobSound, RowSound, TypeOK
\* Reading a stored row.
<1>1. ASSUME NEW pk \in Pk,
             \/ OpenReuse(q, pk) \/ ReturnPoll(q, pk) \/ Callback(q, pk)
             \/ OpenReceipt(q, pk)
      PROVE  Good
  <2>1. UNCHANGED <<payment, receipt>>
    BY <1>1 DEF OpenReuse, ReturnPoll, Callback, OpenReceipt, rows
  <2>2. JobSound(q)'
    <3>1. ASSUME NEW phase \in {"reuse", "claim", "ask", "receipt"},
                 NEW route \in {"verify", "view"}, Live(pk),
                 phase = "receipt" => Confirmed(pk),
                 Move(q, Fetched(pk, phase, route))
          PROVE  JobSound(q)'
      BY <3>1, <2>1, <1>0 DEF Move, Fetched, NoJob, JobSound, TypeOK, Live,
                              Confirmed
    <3>2. Live(pk)
      BY <1>1 DEF OpenReuse, ReturnPoll, Callback, OpenReceipt, Live, Stored, Settled
    <3>. QED
      BY <3>1, <3>2, <1>1 DEF OpenReuse, ReturnPoll, Callback, OpenReceipt, Confirmed
  <2>. QED
    BY <2>1, <2>2, <1>b
\* Setting the flag, which no property depends on.
<1>2. CASE ClaimVerify(q)
  <2>0. PICK pk \in Pk : pk = job[q].pk
    BY <1>0, <1>2 DEF ClaimVerify, TypeOK
  <2>1. pk \in Pk /\ Live(pk) /\ JobSound(q)
    BY <2>0, <1>2, <1>j DEF ClaimVerify
  <2>2. /\ \A p \in Pk \ {pk} : payment'[p] = payment[p]
        /\ payment'[pk].status = payment[pk].status
        /\ payment'[pk].ref = payment[pk].ref
        /\ payment'[pk].amount = payment[pk].amount
        /\ payment'[pk].processed = payment[pk].processed
        /\ payment'[pk].student = payment[pk].student
        /\ receipt' = receipt
    BY <2>0, <1>2, <2>1, <1>0 DEF ClaimVerify, TypeOK, Row
  <2>3. RowInv' /\ Kept /\ OneCredit
    BY <2>0, <2>1, <2>2, <1>0, RowRewritten
       DEF CreditInv, CreditBacked, RowSound, Live, Confirmed
  <2>4. JobSound(q)'
    BY <2>0, <2>1, <2>2, <1>0, <1>2 DEF ClaimVerify, Move, JobSound, Live, TypeOK, Job
  <2>5. ReceiptOnlyForConfirmed'
    BY <2>2, <2>3, ReceiptsStay
  <2>. QED
    BY <2>3, <2>4, <2>5, <1>0, <1>a, RewriteGood
\* Paystack's answer is compared with a copy that is still right.
<1>3. CASE AskPaid(q)
  <2>1. UNCHANGED <<payment, receipt>>
    BY <1>3 DEF AskPaid, rows
  <2>2. JobSound(q)'
    BY <2>1, <1>3, <1>0, <1>j DEF AskPaid, Move, JobSound, Live, TypeOK, Job
  <2>. QED
    BY <2>1, <2>2, <1>b
<1>4. CASE SaveCheck(q)
  <2>1. UNCHANGED <<payment, receipt>>
    BY <1>4 DEF SaveCheck, rows
  <2>2. JobSound(q)'
    <3>1. CASE Move(q, [job[q] EXCEPT !.phase = "write"])
      BY <3>1, <2>1, <1>4, <1>0, <1>j
         DEF SaveCheck, Move, JobSound, Live, TypeOK, Job
    <3>. QED
      BY <3>1, <1>4, <1>i DEF SaveCheck
  <2>. QED
    BY <2>1, <2>2, <1>b
\* The write: a request that holds FAILED holds a row that was never confirmed.
<1>5. CASE SaveWrite(q)
  <2>0. PICK pk \in Pk : pk = job[q].pk
    BY <1>0, <1>5 DEF SaveWrite, TypeOK
  <2>1. /\ pk \in Pk /\ Live(pk) /\ JobSound(q) /\ job[q].target \in Settled
        /\ payment[pk].ref \in Ref /\ job[q].ref = payment[pk].ref
    BY <2>0, <1>0, <1>5, <1>j DEF SaveWrite, JobSound, Job
  <2>2. job[q].target = "CONFIRMED" <=> payment[pk].amount = charged[payment[pk].ref]
    <3>1. /\ job[q].phase = "write"
          /\ job[q].target = "CONFIRMED" <=> charged[job[q].ref] = job[q].amount
          /\ job[q].amount = payment[pk].amount
      BY <2>0, <2>1, <1>5 DEF SaveWrite, JobSound
    <3>. QED
      BY <2>0, <2>1, <3>1
  <2>3. /\ \A p \in Pk \ {pk} : payment'[p] = payment[p]
        /\ payment'[pk].status = job[q].target
        /\ payment'[pk].ref = payment[pk].ref
        /\ payment'[pk].amount = payment[pk].amount
        /\ payment'[pk].processed
        /\ payment'[pk].student = payment[pk].student
        /\ receipt' = receipt
    <3>1. /\ payment' = [payment EXCEPT ![pk] =
               [payment[pk] EXCEPT !.status = job[q].target, !.processed = TRUE]]
          /\ receipt' = receipt
      BY <2>0, <1>5, <2>1 DEF SaveWrite
    <3>. QED
      BY <3>1, <2>0, <2>1, <1>0 DEF TypeOK, Row
  <2>4. Live(pk)' /\ (Confirmed(pk)' <=> job[q].target = "CONFIRMED")
    BY <2>0, <2>1, <2>3 DEF Live, Confirmed, Stored
  <2>5. Confirmed(pk) => Confirmed(pk)'
    BY <2>0, <2>1, <2>2, <2>4 DEF CreditInv, CreditBacked
  <2>6. RowInv' /\ Kept /\ OneCredit
    BY <2>0, <2>1, <2>2, <2>3, <2>4, <2>5, <1>0, RowRewritten
  <2>7. JobSound(q)'
    <3>1. CASE job[q].target = "CONFIRMED"
      BY <3>1, <2>0, <2>1, <2>3, <2>4, <1>0, <1>5
         DEF SaveWrite, Move, JobSound, TypeOK, Job
    <3>. QED
      BY <3>1, <1>5, <1>i DEF SaveWrite
  <2>8. ReceiptOnlyForConfirmed'
    BY <2>3, <2>6, ReceiptsStay
  <2>. QED
    BY <2>6, <2>7, <2>8, <1>0, <1>a, RewriteGood
\* The receipt of a row that is confirmed and stays so.
<1>6. CASE IssueReceipt(q)
  <2>0. PICK pk \in Pk : pk = job[q].pk
    BY <1>0, <1>6 DEF IssueReceipt, TypeOK
  <2>1. /\ pk \in Pk /\ Live(pk) /\ JobSound(q) /\ Confirmed(pk)
        /\ payment' = payment /\ receipt' = receipt \cup {pk}
    BY <2>0, <1>6, <1>j DEF IssueReceipt, JobSound
  <2>2. RowInv' /\ Kept /\ OneCredit
    BY <2>0, <2>1, <1>0 DEF CreditInv, RowInv, OneRowPerReference, Holder,
       CreditBacked, RowSound, Kept, OneCredit, Live, Confirmed
  <2>3. JobSound(q)'
    BY <2>0, <2>1, <1>0, <1>6 DEF IssueReceipt, Move, JobSound, Live, Confirmed,
                            TypeOK, Job
  <2>4. ReceiptOnlyForConfirmed'
    BY <2>0, <2>1 DEF CreditInv, ReceiptOnlyForConfirmed, Confirmed
  <2>. QED
    BY <2>2, <2>3, <2>4, <1>0, <1>a, RewriteGood
\* Notices change neither rows nor receipts.
<1>8. CASE ReadSent(q)
  <2>1. JobSound(q)' /\ UNCHANGED <<payment, receipt>>
    BY <1>8, <1>0, <1>j
       DEF ReadSent, rows, Move, JobSound, Live, Confirmed, TypeOK, Job
  <2>. QED
    BY <2>1, <1>b
<1>9. ASSUME NEW p \in Person, SendNotice(q, p)
      PROVE  Good
  <2>1. JobSound(q)' /\ UNCHANGED <<payment, receipt>>
    BY <1>9, <1>0, <1>j
       DEF SendNotice, Move, JobSound, Live, Confirmed, TypeOK, Job
  <2>. QED
    BY <2>1, <1>b
<1>10. CASE NoticesSent(q)
  <2>1. UNCHANGED <<payment, receipt>>
    BY <1>10 DEF NoticesSent, rows
  <2>2. JobSound(q)'
    <3>1. CASE Move(q, [job[q] EXCEPT !.phase = "dedup",
                                      !.kind = "payment-confirm"])
      BY <3>1, <2>1, <1>10, <1>0, <1>j
         DEF NoticesSent, Move, JobSound, Live, Confirmed, TypeOK, Job
    <3>. QED
      BY <3>1, <1>10, <1>i DEF NoticesSent
  <2>. QED
    BY <2>1, <2>2, <1>b
\* Giving up.
<1>11. CASE AskInconclusive(q) \/ Crash(q)
  <2>1. UNCHANGED <<payment, receipt>> /\ Move(q, NoJob)
    BY <1>11 DEF AskInconclusive, Crash, rows
  <2>. QED
    BY <2>1, <1>i, <1>b
\* Writing back what was read.
<1>12. ASSUME NEW reached \in BOOLEAN, Reinitiate(q, reached) PROVE Good
  <2>1. UNCHANGED <<payment, receipt>> /\ Move(q, NoJob)
    BY <1>0, <1>12, ReusedRows, ReusedSame
  <2>. QED
    BY <2>1, <1>i, <1>b
<1>. QED
  BY <1>1, <1>2, <1>3, <1>4, <1>5, <1>6, <1>8, <1>9, <1>10, <1>11, <1>12
     DEF ServeRequest

\* Every step keeps the invariant, and it either credits at most one row or is
\* a charge, which credits none.
LEMMA NextGood ==
  ASSUME CreditInv, [Next]_vars
  PROVE  /\ CreditInv' /\ Kept
         /\ \/ OneCredit
            \/ /\ payment' = payment
               /\ \E ref \in Ref, amount \in Amount : Charge(ref, amount)
<1>1. CASE UNCHANGED vars
  <2>1. TypeOK' /\ UNCHANGED <<payment, receipt, charged, sent, job>>
    BY <1>1, NextTypes DEF CreditInv, vars
  <2>2. Kept
    BY <2>1 DEF Kept, Live, Confirmed
  <2>. QED
    BY <2>1, <2>2, JobStays, RowsUntouched DEF Good
<1>2. ASSUME NEW pk \in Pk, NEW ref \in Ref, NEW amount \in Amount,
             NEW student \in BOOLEAN, NEW reached \in BOOLEAN,
             Initiate(pk, ref, amount, student, reached)
      PROVE  Good
  BY <1>2, InitiateGood
<1>4. ASSUME NEW ref \in Ref, Decline(ref) PROVE Good
  BY <1>4, PaystackGood DEF Good, OneCredit, Decline, Confirmed
<1>5. ASSUME NEW ref \in Ref, NEW amount \in Amount, Charge(ref, amount)
      PROVE  CreditInv' /\ Kept /\ payment' = payment
  BY <1>5, PaystackGood
<1>6. ASSUME NEW e \in sent, HandleWebhook(e) PROVE Good
  BY <1>6, WebhookGood
<1>7. ASSUME NEW q \in Request, ServeRequest(q) PROVE Good
  BY <1>7, RequestGood
<1>. QED
  BY <1>1, <1>2, <1>4, <1>5, <1>6, <1>7 DEF Next, Good

\* The invariant that TLC checks on small instances holds for all.
THEOREM CreditSound == Spec => []CreditInv
<1>1. Init => CreditInv
  <2>1. Init => TypeOK
    BY TypeAtInit
  <2>. QED
    BY <2>1 DEF Init, CreditInv, NoRow, NoJob, OneRowPerReference, Holder,
                CreditBacked, RowSound, EventTrue, JobSound,
                ReceiptOnlyForConfirmed, Live, Confirmed, Stored, Settled
<1>2. CreditInv /\ [Next]_vars => CreditInv'
  BY NextGood
<1>. QED
  BY <1>1, <1>2, PTL DEF Spec

-----------------------------------------------------------------------------
(* The theorems *)

\* No online path credits money that Paystack did not take, or another amount.
THEOREM OnlyChargedMoney == Spec => []CreditBacked
BY CreditSound, PTL DEF CreditInv

\* Two Payment rows never share a Paystack reference.
THEOREM NoSecondRow == Spec => []OneRowPerReference
BY CreditSound, PTL DEF CreditInv

\* A receipt always belongs to a confirmed payment.
THEOREM ReceiptsAreConfirmed == Spec => []ReceiptOnlyForConfirmed
BY CreditSound, PTL DEF CreditInv

\* A credit is never withdrawn and never changes its amount, although
\* Payment.save() reads the status in one statement and writes in another.
THEOREM CreditNeverWithdrawn == Spec => CreditIsFinal
<1>1. CreditInv /\ [Next]_vars
      => [\A pk \in Pk : Confirmed(pk) =>
            /\ payment'[pk].status = "CONFIRMED"
            /\ payment'[pk].amount = payment[pk].amount]_vars
  BY NextGood DEF Kept, Confirmed, Live, Stored, Settled
<1>. QED
  BY <1>1, CreditSound, PTL DEF Spec, CreditIsFinal

-----------------------------------------------------------------------------
(* Receipts and notices *)

\* A web request moves no other request and writes no log.
LEMMA OthersWait ==
  ASSUME TypeOK, NEW q \in Request, ServeRequest(q)
  PROVE  /\ \A other \in Request \ {q} : job'[other] = job[other]
         /\ webhookLog' = webhookLog
<1>1. webhookLog' = webhookLog
  BY Zenon DEF ServeRequest, OpenReuse, Reinitiate, ReturnPoll, Callback,
               OpenReceipt, ClaimVerify, AskPaid, AskInconclusive, SaveCheck,
               SaveWrite, IssueReceipt, ReadSent, NoticesSent, Crash, SendNotice
<1>2. \E next : Move(q, next)
  BY Zenon DEF ServeRequest, OpenReuse, Reinitiate, ReturnPoll, Callback,
               OpenReceipt, ClaimVerify, AskPaid, AskInconclusive, SaveCheck,
               SaveWrite, IssueReceipt, ReadSent, NoticesSent, Crash, SendNotice
<1>. QED
  BY <1>1, <1>2 DEF Move, TypeOK

\* Rows of the notification log are only ever added.
LEMMA PostedGrows ==
  ASSUME TypeOK, NEW S, NEW n \in Notice
  PROVE  /\ Posted(S)[n] \in Nat /\ Posted(S)[n] >= inbox[n]
         /\ n \in S => Posted(S)[n] > 0
BY DEF Posted, TypeOK

\* What a webhook that credits pk has posted: everyone has the confirmation.
LEMMA CreditTells ==
  ASSUME TypeOK, NEW pk \in Pk, payment'[pk].student, Credit(pk)
  PROVE  /\ pk \in receipt'
         /\ \A p \in Person : inbox'[<<pk, "payment-confirm", p>>] > 0
<1>1. SUFFICES ASSUME NEW p \in Person
               PROVE  inbox'[<<pk, "payment-confirm", p>>] > 0
  BY DEF Credit
<1> DEFINE n == <<pk, "payment-confirm", p>>
           S == Notices(pk, {"receipt", "payment-confirm"}, Recipients(payment'[pk].student))
<1>2. n \in Notice /\ n \in S
  BY DEF Notice, Kind, Account, Notices, Recipients
<1>3. inbox' = Posted(Unsent(S))
  BY DEF Credit
<1>4. ASSUME NEW m \in Notice, NEW T, m \in T, inbox' = Posted(Unsent(T))
      PROVE  inbox'[m] > 0
  <2>1. inbox[m] \in Nat
    BY DEF TypeOK
  <2>2. inbox[m] = 0 => m \in Unsent(T)
    BY <1>4 DEF Unsent
  <2>. QED
    BY <2>1, <2>2, <1>4, PostedGrows
<1>. QED
  BY <1>2, <1>3, <1>4

\* Where a confirmed row comes from: it was confirmed before and knows no other
\* student, a webhook has credited it with receipt and notices, or a verify
\* request has just written it and goes on to the receipt.
ByWebhook(pk) ==
  /\ pk \in receipt'
  /\ \A p \in Person : inbox'[<<pk, "payment-confirm", p>>] > 0

ByRequest(pk) ==
  \E q \in Request :
    /\ job[q].phase = "write" /\ job[q].pk = pk
    /\ job'[q] = [job[q] EXCEPT !.phase = "receipt"]
    /\ UNCHANGED inbox
    /\ payment'[pk].student = payment[pk].student

\* Every confirmed row comes from there.
LEMMA ConfirmedFrom ==
  ASSUME CreditInv, [Next]_vars, NEW pk \in Pk, Confirmed(pk)'
  PROVE  \/ Confirmed(pk) /\ payment'[pk].student = payment[pk].student
         \/ ByWebhook(pk)
         \/ ByRequest(pk)
<1> DEFINE Same == Confirmed(pk) /\ payment'[pk].student = payment[pk].student
<1>0. TypeOK /\ TypeOK'
  BY NextGood DEF CreditInv
<1>1. ASSUME payment'[pk] = payment[pk] PROVE Same
  BY <1>1 DEF Confirmed
<1>2. ASSUME NEW k \in Pk, NEW ref \in Ref, NEW amount \in Amount,
             NEW student \in BOOLEAN, NEW reached \in BOOLEAN,
             Initiate(k, ref, amount, student, reached)
      PROVE  Same
  BY <1>0, <1>1, <1>2 DEF Initiate, TypeOK, NoRow, Confirmed
<1>3. ASSUME UNCHANGED payment PROVE Same
  BY <1>1, <1>3
<1>4. ASSUME NEW e \in sent, NEW k \in Pk,
             SuccessConfirm(e, k) \/ SuccessCreate(e, k)
      PROVE  Same \/ ByWebhook(pk)
  <2>1. /\ \A p \in Pk \ {k} : payment'[p] = payment[p]
        /\ payment'[k].student /\ Credit(k)
    <3>1. CASE SuccessConfirm(e, k)
      BY <3>1, <1>0 DEF SuccessConfirm, TypeOK, Row
    <3>2. CASE SuccessCreate(e, k)
      BY <3>2, <1>0 DEF SuccessCreate, TypeOK, NoRow
    <3>. QED
      BY <3>1, <3>2, <1>4
  <2>. QED
    BY <2>1, <1>0, <1>1, CreditTells DEF ByWebhook
<1>5. ASSUME NEW e \in sent, NEW k \in Pk,
             SuccessMismatch(e, k) \/ FailureRecorded(e, k)
      PROVE  Same
  <2>1. payment' = [payment EXCEPT ![k] =
               [payment[k] EXCEPT !.status = "FAILED", !.processed = TRUE]]
    BY <1>5 DEF SuccessMismatch, FailureRecorded
  <2>2. k # pk
    BY <2>1, <1>0 DEF Confirmed, TypeOK, Row
  <2>. QED
    BY <2>1, <2>2, <1>0, <1>1 DEF TypeOK
<1>6. ASSUME NEW e \in sent, HandleWebhook(e) PROVE Same \/ ByWebhook(pk)
  BY <1>6, <1>3, <1>4, <1>5
     DEF HandleWebhook, HandleChargeSuccess, HandleChargeFailure, SuccessSkip,
         SuccessRefused, SuccessUnresolved, FailureIgnored, rows, vars
<1>7. ASSUME NEW q \in Request, ClaimVerify(q) PROVE Same
  <2>1. /\ job[q].pk \in Pk
        /\ payment' = [payment EXCEPT ![job[q].pk].attempted = TRUE]
    BY <1>7, <1>0 DEF ClaimVerify, TypeOK
  <2>. QED
    BY <2>1, <1>0 DEF Confirmed, TypeOK, Row
<1>8. ASSUME NEW q \in Request, SaveWrite(q) PROVE Same \/ ByRequest(pk)
  <2>0. PICK k \in Pk : k = job[q].pk
    BY <1>0, <1>8 DEF SaveWrite, TypeOK
  <2>1. CASE ~ Live(k)
    BY <2>0, <2>1, <1>3, <1>8 DEF SaveWrite
  <2>2. CASE Live(k) /\ k # pk
    BY <2>0, <2>2, <1>0, <1>1, <1>8 DEF SaveWrite, TypeOK
  <2>3. CASE Live(k) /\ k = pk
    <3>1. payment' = [payment EXCEPT ![pk] =
            [payment[pk] EXCEPT !.status = job[q].target, !.processed = TRUE]]
      BY <2>0, <2>3, <1>8 DEF SaveWrite
    <3>2. job[q].target = "CONFIRMED" /\ payment'[pk].student = payment[pk].student
      BY <3>1, <1>0 DEF Confirmed, TypeOK, Row
    <3>3. /\ job[q].phase = "write" /\ UNCHANGED inbox
          /\ Move(q, [job[q] EXCEPT !.phase = "receipt"])
      BY <2>0, <2>3, <3>2, <1>8 DEF SaveWrite
    <3>. QED
      BY <2>0, <2>3, <3>2, <3>3, <1>0 DEF ByRequest, Move, TypeOK
  <2>. QED
    BY <2>1, <2>2, <2>3
<1>10. ASSUME NEW q \in Request, NEW reached \in BOOLEAN, Reinitiate(q, reached)
       PROVE  Same
  BY <1>3, <1>10, ReusedSame
<1>9. ASSUME NEW q \in Request, ServeRequest(q) PROVE Same \/ ByRequest(pk)
  BY <1>9, <1>3, <1>7, <1>8, <1>10
     DEF ServeRequest, OpenReuse, ReturnPoll, Callback, OpenReceipt, AskPaid,
         AskInconclusive, SaveCheck, IssueReceipt, ReadSent, NoticesSent, Crash,
         SendNotice, rows
<1>. QED
  BY <1>2, <1>3, <1>6, <1>9 DEF Next, Charge, Decline, rows, vars

\* Receipts, notices, log rows and events are never taken back.
LEMMA OnlyGrows ==
  ASSUME TypeOK, [Next]_vars
  PROVE  /\ receipt \subseteq receipt'
         /\ \A n \in Notice : inbox'[n] >= inbox[n]
         /\ sent \subseteq sent'
         /\ \A q \in Request : job'[q] = job[q] \/ ServeRequest(q)
<1>0. \A n \in Notice : inbox[n] \in Nat
  BY DEF TypeOK
<1>1. ASSUME NEW e \in sent, HandleWebhook(e)
      PROVE  /\ receipt \subseteq receipt' /\ sent' = sent /\ job' = job
             /\ inbox' = inbox \/ \E S : inbox' = Posted(S)
  BY <1>1 DEF HandleWebhook, HandleChargeSuccess, HandleChargeFailure, SuccessSkip,
              SuccessMismatch, SuccessConfirm, SuccessCreate, SuccessRefused,
              SuccessUnresolved, Credit,
              FailureRecorded, FailureIgnored, rows, gateway, work, vars
<1>2. ASSUME NEW q \in Request, ServeRequest(q)
      PROVE  /\ receipt \subseteq receipt' /\ sent' = sent
             /\ inbox' = inbox \/ \E S : inbox' = Posted(S)
  BY <1>2 DEF ServeRequest, OpenReuse, Reinitiate, ReturnPoll, Callback, OpenReceipt,
              ClaimVerify, AskPaid, AskInconclusive, SaveCheck, SaveWrite,
              IssueReceipt, ReadSent, SendNotice, NoticesSent, Crash, rows, gateway
<1>3. CASE inbox' = inbox \/ \E S : inbox' = Posted(S)
  <2>1. \A n \in Notice : inbox'[n] >= inbox[n]
    BY <1>0, <1>3, PostedGrows
  <2>2. CASE UNCHANGED vars
    BY <2>1, <2>2 DEF vars
  <2>3. CASE \E e \in sent : HandleWebhook(e)
    BY <2>1, <2>3, <1>1
  <2>4. CASE \E q \in Request : ServeRequest(q)
    BY <2>1, <2>4, <1>2, OthersWait
  <2>. QED
    BY <2>1, <2>2, <2>3, <2>4
       DEF Next, Initiate, Charge, Decline, rows, work
<1>. QED
  BY <1>1, <1>2, <1>3 DEF Next, Initiate, Charge, Decline, rows, vars

\* A request dies only if the counter says so.
LEMMA NobodyDied ==
  ASSUME TypeOK, [Next]_vars, crashes' = 0
  PROVE  crashes = 0 /\ \A q \in Request : ~ Crash(q)
<1>1. crashes \in Nat
  BY PaymentsAssumption DEF TypeOK
<1>2. ASSUME NEW q \in Request, Crash(q) PROVE FALSE
  BY <1>1, <1>2 DEF Crash
<1>3. crashes' = crashes
  BY <1>2 DEF Next, Initiate, Charge, Decline, HandleWebhook,
              HandleChargeSuccess, HandleChargeFailure, SuccessSkip, SuccessMismatch,
              SuccessConfirm, SuccessCreate, SuccessRefused, SuccessUnresolved,
              FailureRecorded, FailureIgnored, ServeRequest, OpenReuse, Reinitiate,
              ReturnPoll, Callback, OpenReceipt, ClaimVerify, AskPaid, AskInconclusive, SaveCheck, SaveWrite,
              IssueReceipt, ReadSent, SendNotice, NoticesSent, work, vars
<1>. QED
  BY <1>2, <1>3

\* A step keeps the promise of a receipt.
LEMMA ReceiptStep ==
  ASSUME CreditInv, ReceiptPromised, [Next]_vars
  PROVE  ReceiptPromised'
<1>1. SUFFICES ASSUME crashes' = 0, NEW pk \in Pk, Confirmed(pk)'
               PROVE  \/ pk \in receipt'
                      \/ \E q \in Request : job'[q].phase = "receipt" /\ job'[q].pk = pk
  BY DEF ReceiptPromised
<1>0. TypeOK /\ crashes = 0 /\ \A q \in Request : ~ Crash(q)
  BY <1>1, NobodyDied DEF CreditInv
<1>2. CASE ByWebhook(pk)
  BY <1>2 DEF ByWebhook
<1>3. CASE ByRequest(pk)
  <2>1. PICK q \in Request : /\ job[q].pk = pk
                             /\ job'[q] = [job[q] EXCEPT !.phase = "receipt"]
    BY <1>3 DEF ByRequest
  <2>. QED
    BY <2>1, <1>0 DEF TypeOK, Job
<1>4. CASE Confirmed(pk) /\ pk \in receipt
  BY <1>4, <1>0, OnlyGrows
<1>5. ASSUME NEW q \in Request, job[q].phase = "receipt", job[q].pk = pk
      PROVE  \/ pk \in receipt'
             \/ job'[q].phase = "receipt" /\ job'[q].pk = pk
  <2>1. Live(pk)
    BY <1>5 DEF CreditInv, JobSound
  <2>2. CASE IssueReceipt(q)
    BY <2>1, <2>2, <1>5 DEF IssueReceipt
  <2>3. CASE ServeRequest(q)
    BY <2>2, <2>3, <1>0, <1>5
       DEF ServeRequest, OpenReuse, Reinitiate, ReturnPoll, Callback, OpenReceipt,
           ClaimVerify, AskPaid, AskInconclusive, SaveCheck, SaveWrite, ReadSent,
           SendNotice, NoticesSent
  <2>. QED
    BY <2>3, <1>0, <1>5, OnlyGrows
<1>. QED
  BY <1>0, <1>1, <1>2, <1>3, <1>4, <1>5, ConfirmedFrom DEF ReceiptPromised

\* No confirmed payment is left without its receipt, unless a request died: the
\* webhook issues it in the transaction of the confirmation, a verify request
\* holds on to the row between its UPDATE and issue_receipt.
THEOREM ReceiptsPromised == Spec => []ReceiptPromised
<1>1. Init => ReceiptPromised
  BY DEF Init, ReceiptPromised, Confirmed, NoRow
<1>2. CreditInv /\ ReceiptPromised /\ [Next]_vars => ReceiptPromised'
  BY ReceiptStep
<1>. QED
  BY <1>1, <1>2, CreditSound, PTL DEF Spec

\* A web request ends, starts with a fresh copy of a row, or keeps its row, its
\* route and its copy of the student; no request changes the student of a row.
LEMMA JobKeeps ==
  ASSUME CreditInv, NEW q \in Request, ServeRequest(q)
  PROVE  /\ \A pk \in Pk : payment'[pk].student = payment[pk].student
         /\ \/ job'[q].phase = "idle"
            \/ \E pk \in Pk : \/ job'[q] = Fetched(pk, "reuse", "verify")
                              \/ job'[q] = Fetched(pk, "claim", "verify")
                              \/ job'[q] = Fetched(pk, "ask", "verify")
                              \/ job'[q] = Fetched(pk, "receipt", "view")
            \/ /\ job[q].phase # "idle"
               /\ job'[q].pk = job[q].pk /\ job'[q].student = job[q].student
               /\ job'[q].route = job[q].route
               /\ job'[q].phase \in {"claim", "ask", "check", "write"} =>
                    job[q].phase \in {"claim", "ask", "check", "write"}
<1>0. TypeOK
  BY DEF CreditInv
<1>1. \A pk \in Pk : payment'[pk].student = payment[pk].student
  <2>1. CASE payment' = payment
    BY <2>1
  <2>2. CASE ClaimVerify(q)
    BY <2>2, <1>0 DEF ClaimVerify, TypeOK, Row
  <2>3. CASE SaveWrite(q)
    BY <2>3, <1>0 DEF SaveWrite, TypeOK, Row
  <2>. QED
    BY <2>1, <2>2, <2>3, ReusedSame
       DEF ServeRequest, OpenReuse, ReturnPoll, Callback, OpenReceipt, AskPaid,
           AskInconclusive, SaveCheck, IssueReceipt, ReadSent, SendNotice,
           NoticesSent, Crash, rows
<1>2. job[q] \in Job /\ NoJob.phase = "idle"
  BY <1>0 DEF TypeOK, NoJob
<1>3. ASSUME NEW next, Move(q, next) PROVE job'[q] = next
  BY <1>0, <1>3 DEF Move, TypeOK
<1>4. CASE \/ \E pk \in Pk : \/ OpenReuse(q, pk) \/ ReturnPoll(q, pk)
                             \/ Callback(q, pk) \/ OpenReceipt(q, pk)
           \/ \E reached \in BOOLEAN : Reinitiate(q, reached)
           \/ AskInconclusive(q) \/ Crash(q)
  BY <1>1, <1>2, <1>3, <1>4
     DEF OpenReuse, Reinitiate, ReturnPoll, Callback, OpenReceipt, AskInconclusive, Crash
<1>5. CASE ClaimVerify(q) \/ AskPaid(q) \/ SaveCheck(q) \/ SaveWrite(q)
  BY <1>1, <1>2, <1>3, <1>5 DEF ClaimVerify, AskPaid, SaveCheck, SaveWrite, Job
<1>6. CASE \/ IssueReceipt(q) \/ ReadSent(q) \/ NoticesSent(q)
           \/ \E p \in Person : SendNotice(q, p)
  BY <1>1, <1>2, <1>3, <1>6 DEF IssueReceipt, ReadSent, NoticesSent, SendNotice, Job
<1>. QED
  BY <1>4, <1>5, <1>6 DEF ServeRequest

\* A stored row comes to know its student from a webhook that credits it.
LEMMA StudentFrom ==
  ASSUME CreditInv, [Next]_vars, NEW pk \in Pk, Live(pk), payment'[pk].student
  PROVE  payment[pk].student \/ ByWebhook(pk)
<1>0. TypeOK
  BY DEF CreditInv
<1>1. ASSUME payment'[pk] = payment[pk] PROVE payment[pk].student
  BY <1>1
<1>2. ASSUME NEW k \in Pk, NEW ref \in Ref, NEW amount \in Amount,
             NEW student \in BOOLEAN, NEW reached \in BOOLEAN,
             Initiate(k, ref, amount, student, reached)
      PROVE  payment[pk].student
  BY <1>0, <1>1, <1>2 DEF Initiate, TypeOK, Live, Stored, Settled
<1>3. ASSUME NEW e \in sent, NEW k \in Pk, SuccessConfirm(e, k)
      PROVE  payment[pk].student \/ ByWebhook(pk)
  <2>1. k # pk => payment'[pk] = payment[pk]
    BY <1>0, <1>3 DEF SuccessConfirm, TypeOK
  <2>2. Credit(k)
    BY <1>3 DEF SuccessConfirm
  <2>. QED
    BY <2>1, <2>2, <1>0, <1>1, CreditTells DEF ByWebhook
<1>4. ASSUME NEW e \in sent, NEW k \in Pk, SuccessCreate(e, k)
      PROVE  payment[pk].student
  BY <1>0, <1>1, <1>4 DEF SuccessCreate, TypeOK, Live, Stored, Settled
<1>5. ASSUME NEW e \in sent, NEW k \in Pk,
             SuccessMismatch(e, k) \/ FailureRecorded(e, k)
      PROVE  payment[pk].student
  <2>1. payment' = [payment EXCEPT ![k] =
               [payment[k] EXCEPT !.status = "FAILED", !.processed = TRUE]]
    BY <1>5 DEF SuccessMismatch, FailureRecorded
  <2>. QED
    BY <2>1, <1>0 DEF TypeOK, Row
<1>6. ASSUME NEW e \in sent, HandleWebhook(e)
      PROVE  payment[pk].student \/ ByWebhook(pk)
  BY <1>6, <1>1, <1>3, <1>4, <1>5
     DEF HandleWebhook, HandleChargeSuccess, HandleChargeFailure, SuccessSkip,
         SuccessRefused, SuccessUnresolved, FailureIgnored, rows, vars
<1>7. ASSUME NEW q \in Request, ServeRequest(q) PROVE payment[pk].student
  BY <1>0, <1>7, JobKeeps
<1>. QED
  BY <1>1, <1>2, <1>6, <1>7 DEF Next, Charge, Decline, rows, vars

LEMMA TellingSoundStep ==
  ASSUME CreditInv, TellingSound, [Next]_vars
  PROVE  TellingSound'
<1>0. TypeOK
  BY DEF CreditInv
<1>1. SUFFICES ASSUME NEW q \in Request
      PROVE  /\ job'[q].phase \in {"claim", "ask", "check", "write"} =>
                  job'[q].route = "verify"
             /\ job'[q].phase # "idle" /\ payment'[job'[q].pk].student
                  /\ ~ job'[q].student =>
                  \A p \in Person : inbox'[<<job'[q].pk, "payment-confirm", p>>] > 0
  BY DEF TellingSound
\* The notices of a row that was read before.
<1>2. ASSUME job[q].phase # "idle", payment'[job[q].pk].student, ~ job[q].student,
             NEW p \in Person
      PROVE  inbox'[<<job[q].pk, "payment-confirm", p>>] > 0
  <2>1. PICK pk \in Pk : pk = job[q].pk /\ Live(pk)
    BY <1>2 DEF CreditInv, TypeOK, JobSound
  <2>2. CASE ByWebhook(pk)
    BY <2>1, <2>2 DEF ByWebhook
  <2>3. CASE payment[pk].student
    <3>1. <<pk, "payment-confirm", p>> \in Notice
      BY DEF Notice, Kind, Account
    <3>2. inbox[<<pk, "payment-confirm", p>>] > 0
      BY <2>1, <2>3, <1>2 DEF TellingSound
    <3>3. /\ inbox'[<<pk, "payment-confirm", p>>] >= inbox[<<pk, "payment-confirm", p>>]
          /\ inbox[<<pk, "payment-confirm", p>>] \in Nat
          /\ inbox'[<<pk, "payment-confirm", p>>] \in Nat
      BY <3>1, <1>0, OnlyGrows, NextGood DEF CreditInv, TypeOK
    <3>. QED
      BY <3>2, <3>3, <2>1
  <2>. QED
    BY <2>1, <2>2, <2>3, <1>2, StudentFrom
<1>3. CASE job'[q] = job[q]
  BY <1>2, <1>3 DEF TellingSound
<1>4. CASE ServeRequest(q)
  <2>1. ASSUME NEW pk \in Pk, NEW phase, NEW route,
               job'[q] = Fetched(pk, phase, route)
        PROVE  /\ job'[q].phase = phase /\ job'[q].route = route
               /\ job'[q].pk = pk /\ job'[q].student = payment[pk].student
               /\ payment'[pk].student = payment[pk].student
    BY <2>1, <1>0, <1>4, JobKeeps DEF Fetched, NoJob
  <2>2. CASE job'[q].phase = "idle"
    BY <2>2
  <2>3. CASE \E pk \in Pk : \/ job'[q] = Fetched(pk, "reuse", "verify")
                            \/ job'[q] = Fetched(pk, "claim", "verify")
                            \/ job'[q] = Fetched(pk, "ask", "verify")
                            \/ job'[q] = Fetched(pk, "receipt", "view")
    BY <2>1, <2>3
  <2>4. CASE /\ job[q].phase # "idle"
             /\ job'[q].pk = job[q].pk /\ job'[q].student = job[q].student
             /\ job'[q].route = job[q].route
             /\ job'[q].phase \in {"claim", "ask", "check", "write"} =>
                  job[q].phase \in {"claim", "ask", "check", "write"}
    BY <2>4, <1>2 DEF TellingSound
  <2>. QED
    BY <2>2, <2>3, <2>4, <1>0, <1>4, JobKeeps
<1>. QED
  BY <1>0, <1>3, <1>4, OnlyGrows

\* A request that is telling someone goes on to, or has posted the notice.
LEMMA TellingGoesOn ==
  ASSUME CreditInv, TellingSound, [Next]_vars, NEW pk \in Pk, NEW p \in Person,
         NEW q \in Request, Telling(q, pk, p), ~ Crash(q), payment[pk].student
  PROVE  inbox'[<<pk, "payment-confirm", p>>] > 0 \/ Telling(q, pk, p)'
<1> DEFINE n == <<pk, "payment-confirm", p>>
<1>0. /\ TypeOK /\ job[q] \in Job /\ job[q].pk = pk /\ job[q].route = "verify"
      /\ job[q].phase \in {"receipt", "dedup", "send"} /\ n \in Notice
  BY DEF CreditInv, TypeOK, Telling, Notice, Kind, Account
<1>1. inbox[n] \in Nat /\ inbox'[n] \in Nat /\ inbox'[n] >= inbox[n]
  BY <1>0, OnlyGrows, NextGood DEF CreditInv, TypeOK
<1>2. ASSUME NEW next, Move(q, next) PROVE job'[q] = next
  BY <1>0, <1>2 DEF Move, TypeOK
<1>3. CASE job'[q] = job[q]
  BY <1>3 DEF Telling
<1>4. CASE IssueReceipt(q)
  <2>1. Live(pk)
    BY <1>0 DEF CreditInv, JobSound
  <2>. QED
    BY <2>1, <1>0, <1>2, <1>4 DEF IssueReceipt, Telling, Job
<1>5. CASE ReadSent(q)
  <2>0. job'[q] = [job[q] EXCEPT !.phase = "send",
                     !.todo = {r \in Recipients(job[q].student) :
                                 inbox[<<job[q].pk, job[q].kind, r>>] = 0}]
    BY <1>2, <1>5 DEF ReadSent
  <2>1. CASE job[q].kind = "receipt"
    BY <2>0, <2>1, <1>0 DEF Telling, Job
  <2>2. CASE job[q].kind = "payment-confirm" /\ job[q].student /\ inbox[n] = 0
    BY <2>0, <2>2, <1>0 DEF Telling, Job, Recipients
  <2>3. CASE ~ job[q].student \/ inbox[n] # 0
    <3>1. inbox[n] > 0
      BY <2>3, <1>0, <1>1 DEF TellingSound
    <3>. QED
      BY <3>1, <1>1
  <2>. QED
    BY <2>1, <2>2, <2>3, <1>0 DEF Job
<1>6. ASSUME NEW r \in Person, SendNotice(q, r)
      PROVE  inbox'[n] > 0 \/ Telling(q, pk, p)'
  <2>0. /\ job[q].phase = "send"
        /\ job'[q] = [job[q] EXCEPT !.todo = job[q].todo \ {r}]
        /\ inbox' = Posted({<<pk, job[q].kind, r>>})
    BY <1>0, <1>2, <1>6 DEF SendNotice
  <2>1. CASE job[q].kind = "receipt" \/ r # p
    BY <2>0, <2>1, <1>0 DEF Telling, Job
  <2>2. CASE job[q].kind = "payment-confirm" /\ r = p
    BY <2>0, <2>2, <1>0, PostedGrows
  <2>. QED
    BY <2>1, <2>2, <1>0 DEF Job
<1>7. CASE NoticesSent(q)
  <2>1. job[q].kind = "receipt"
    BY <1>7 DEF NoticesSent, Telling
  <2>. QED
    BY <2>1, <1>0, <1>2, <1>7 DEF NoticesSent, Telling, Job
<1>8. CASE ServeRequest(q)
  BY <1>0, <1>4, <1>5, <1>6, <1>7, <1>8
     DEF ServeRequest, OpenReuse, Reinitiate, ReturnPoll, Callback, OpenReceipt,
         ClaimVerify, AskPaid, AskInconclusive, SaveCheck, SaveWrite
<1>. QED
  BY <1>0, <1>3, <1>8, OnlyGrows

\* A step leaves nobody untold.
LEMMA EveryoneStep ==
  ASSUME CreditInv, TellingSound, EveryoneTold, [Next]_vars
  PROVE  EveryoneTold'
<1>1. SUFFICES ASSUME crashes' = 0, NEW pk \in Pk, NEW p \in Person,
                      Confirmed(pk)', payment'[pk].student
               PROVE  \/ inbox'[<<pk, "payment-confirm", p>>] > 0
                      \/ \E q \in Request : Telling(q, pk, p)'
  BY DEF EveryoneTold, Telling
<1>0. TypeOK /\ crashes = 0 /\ \A q \in Request : ~ Crash(q)
  BY <1>1, NobodyDied DEF CreditInv
<1>2. CASE ByWebhook(pk)
  BY <1>2 DEF ByWebhook
<1>3. CASE ByRequest(pk)
  <2>1. PICK q \in Request : /\ job[q].pk = pk /\ job[q].phase = "write"
                             /\ job'[q] = [job[q] EXCEPT !.phase = "receipt"]
    BY <1>3 DEF ByRequest
  <2>2. job[q] \in Job /\ job[q].route = "verify"
    BY <2>1, <1>0 DEF TypeOK, TellingSound
  <2>. QED
    BY <2>1, <2>2 DEF Telling, Job
<1>4. CASE Confirmed(pk) /\ payment[pk].student
  <2>1. CASE inbox[<<pk, "payment-confirm", p>>] > 0
    <3>1. <<pk, "payment-confirm", p>> \in Notice
      BY DEF Notice, Kind, Account
    <3>2. /\ inbox'[<<pk, "payment-confirm", p>>] >= inbox[<<pk, "payment-confirm", p>>]
          /\ inbox[<<pk, "payment-confirm", p>>] \in Nat
          /\ inbox'[<<pk, "payment-confirm", p>>] \in Nat
      BY <3>1, <1>0, OnlyGrows, NextGood DEF CreditInv, TypeOK
    <3>. QED
      BY <2>1, <3>2
  <2>2. CASE \E q \in Request : Telling(q, pk, p)
    BY <2>2, <1>0, <1>4, TellingGoesOn
  <2>. QED
    BY <2>1, <2>2, <1>0, <1>4 DEF EveryoneTold
<1>. QED
  BY <1>1, <1>2, <1>3, <1>4, ConfirmedFrom

\* No confirmation goes unannounced, unless a request died: not to a student that
\* only the webhook's metadata named after a verify request had copied the row.
THEOREM EveryoneIsTold == Spec => []EveryoneTold
<1>1. Init => EveryoneTold /\ TellingSound
  BY DEF Init, EveryoneTold, TellingSound, Confirmed, NoRow, NoJob
<1>2. CreditInv /\ TellingSound /\ [Next]_vars => TellingSound'
  BY TellingSoundStep
<1>3. CreditInv /\ TellingSound /\ EveryoneTold /\ [Next]_vars => EveryoneTold'
  BY EveryoneStep
<1>. QED
  BY <1>1, <1>2, <1>3, CreditSound, PTL DEF Spec

-----------------------------------------------------------------------------
(* The webhook log *)

\* What a delivery writes to the log beside the rows.
LEMMA LoggedStep ==
  ASSUME CreditInv, LoggedSettled, [Next]_vars
  PROVE  LoggedSettled'
<1> DEFINE Settles(l, S) ==
      l.processed /\ l.event.type = "charge.success" =>
        /\ l.event \in S
        /\ \E pk \in Pk : /\ Live(pk)' /\ payment'[pk].ref = l.event.ref
                          /\ payment'[pk].amount = l.event.amount => Confirmed(pk)'
<1>0. TypeOK /\ sent \subseteq sent' /\ Kept
  BY OnlyGrows, NextGood DEF CreditInv
<1>1. SUFFICES ASSUME NEW l \in webhookLog' PROVE Settles(l, sent')
  BY DEF LoggedSettled, Holder, Live, Confirmed
<1>2. ASSUME l \in webhookLog PROVE Settles(l, sent')
  BY <1>0, <1>2 DEF LoggedSettled, Holder, Kept
<1>3. ASSUME NEW e \in sent, NEW done \in BOOLEAN, webhookLog' = Logged(e, done),
             Settles([event |-> e, processed |-> done], sent')
      PROVE  Settles(l, sent')
  BY <1>2, <1>3 DEF Logged
<1>4. ASSUME NEW e \in sent, NEW pk \in Pk, SuccessSkip(e, pk)
      PROVE  Settles(l, sent')
  <2>1. Settles([event |-> e, processed |-> TRUE], sent')
    BY <1>0, <1>4 DEF SuccessSkip, Holder, Live, Confirmed, rows
  <2>. QED
    BY <2>1, <1>3, <1>4 DEF SuccessSkip
<1>5. ASSUME NEW e \in sent, NEW pk \in Pk, SuccessMismatch(e, pk)
      PROVE  Settles(l, sent')
  <2>1. Live(pk)' /\ payment'[pk].ref = e.ref /\ payment'[pk].amount # e.amount
    BY <1>0, <1>5 DEF SuccessMismatch, Holder, Kept
  <2>. QED
    BY <2>1, <1>0, <1>3, <1>5 DEF SuccessMismatch
<1>6. ASSUME NEW e \in sent, NEW pk \in Pk, SuccessConfirm(e, pk)
      PROVE  Settles(l, sent')
  <2>1. Live(pk)' /\ payment'[pk].ref = e.ref
    BY <1>0, <1>6 DEF SuccessConfirm, Holder, Kept
  <2>2. Confirmed(pk)'
    BY <1>0, <1>6 DEF SuccessConfirm, Confirmed, TypeOK, Row
  <2>. QED
    BY <2>1, <2>2, <1>0, <1>3, <1>6 DEF SuccessConfirm
<1>7. ASSUME NEW e \in sent, NEW pk \in Pk, SuccessCreate(e, pk)
      PROVE  Settles(l, sent')
  <2>1. Live(pk)' /\ payment'[pk].ref = e.ref /\ Confirmed(pk)'
    BY <1>0, <1>7 DEF SuccessCreate, Live, Confirmed, Stored, Settled, TypeOK, NoRow
  <2>. QED
    BY <2>1, <1>0, <1>3, <1>7 DEF SuccessCreate
<1>10. ASSUME NEW e \in sent, SuccessUnresolved(e) PROVE Settles(l, sent')
  BY <1>3, <1>10 DEF SuccessUnresolved
<1>8. ASSUME NEW e \in sent, HandleChargeFailure(e) PROVE Settles(l, sent')
  BY <1>3, <1>8 DEF HandleChargeFailure, FailureRecorded, FailureIgnored
<1>9. ASSUME NEW e \in sent, HandleWebhook(e) PROVE Settles(l, sent')
  BY <1>2, <1>4, <1>5, <1>6, <1>7, <1>8, <1>9, <1>10
     DEF HandleWebhook, HandleChargeSuccess, SuccessRefused, vars
<1>. QED
  BY <1>0, <1>2, <1>9, OthersWait
     DEF Next, Initiate, Charge, Decline, vars

LEMMA LoggedMeansCredited ==
  ASSUME CreditInv, LoggedSettled
  PROVE  SuccessLoggedIsCredited
<1>1. SUFFICES ASSUME NEW l \in webhookLog, l.processed,
                      l.event.type = "charge.success", NEW pk \in Holder(l.event.ref)
               PROVE  Confirmed(pk) <=> payment[pk].amount = l.event.amount
  BY DEF SuccessLoggedIsCredited
<1>2. l.event \in sent /\ l.event.ref \in Ref
  BY <1>1 DEF LoggedSettled, CreditInv, TypeOK, Event
<1>3. payment[pk].amount = l.event.amount => Confirmed(pk)
  BY <1>1, <1>2 DEF LoggedSettled, CreditInv, OneRowPerReference
<1>4. Confirmed(pk) => payment[pk].amount = l.event.amount
  BY <1>1, <1>2 DEF CreditInv, CreditBacked, EventTrue, Holder
<1>. QED
  BY <1>3, <1>4

\* A success that the webhook log calls processed is credited, for good, or was
\* for another amount: no poll, callback or late failure comes between.
THEOREM LoggedIsCredited == Spec => []SuccessLoggedIsCredited
<1>1. Init => LoggedSettled
  BY DEF Init, LoggedSettled
<1>2. CreditInv /\ LoggedSettled /\ [Next]_vars => LoggedSettled'
  BY LoggedStep
<1>3. CreditInv /\ LoggedSettled => SuccessLoggedIsCredited
  BY LoggedMeansCredited
<1>. QED
  BY <1>1, <1>2, <1>3, CreditSound, PTL DEF Spec

-----------------------------------------------------------------------------
(* Payments implements CreditLedger *)

\* The reference has been paid for.
Paid(r) == \E pk \in Pk : Confirmed(pk) /\ payment[pk].ref = r

\* What the refinement maps to the ledger's credit is the charge, once paid.
LEMMA CreditValue ==
  CreditInv => CreditOf = [r \in Ref |-> IF Paid(r) THEN charged[r] ELSE 0]
<1>1. SUFFICES ASSUME CreditInv, NEW r \in Ref
               PROVE  (IF \E pk \in Holder(r) : Confirmed(pk)
                       THEN payment[CHOOSE pk \in Holder(r) : Confirmed(pk)].amount
                       ELSE 0)
                      = (IF Paid(r) THEN charged[r] ELSE 0)
  BY DEF CreditOf
<1>2. \A pk \in Holder(r) : Confirmed(pk) => payment[pk].amount = charged[r]
  BY <1>1 DEF CreditInv, CreditBacked, Holder
<1>3. Paid(r) <=> \E pk \in Holder(r) : Confirmed(pk)
  <2>1. \A pk \in Pk : Confirmed(pk) => Live(pk)
    BY DEF Live, Confirmed, Stored, Settled
  <2>. QED
    BY <2>1 DEF Paid, Holder
<1>4. CASE Paid(r)
  <2>1. /\ (CHOOSE pk \in Holder(r) : Confirmed(pk)) \in Holder(r)
        /\ Confirmed(CHOOSE pk \in Holder(r) : Confirmed(pk))
    BY <1>3, <1>4
  <2>. QED
    BY <2>1, <1>2, <1>3, <1>4
<1>. QED
  BY <1>3, <1>4

\* Every step of the payment code is a step of the ledger or changes nothing
\* the ledger sees.
LEMMA LedgerStep ==
  ASSUME CreditInv, [Next]_vars
  PROVE  [Ledger!Next]_<<charged, CreditOf>>
<1>1. /\ CreditInv' /\ Kept /\ TypeOK /\ TypeOK'
      /\ CreditOf = [r \in Ref |-> IF Paid(r) THEN charged[r] ELSE 0]
  BY NextGood, CreditValue DEF CreditInv
<1>2. CreditOf' = [r \in Ref |-> IF Paid(r)' THEN charged'[r] ELSE 0]
  <2>1. (CreditInv => CreditOf = [r \in Ref |-> IF Paid(r) THEN charged[r] ELSE 0])'
    BY CreditValue, PTL
  <2>. QED
    BY <2>1, <1>1
\* A charge finds its reference unpaid.
<1>3. ASSUME NEW ref \in Ref, NEW amount \in Amount, Charge(ref, amount),
             payment' = payment
      PROVE  Ledger!Next
  <2>1. \A r \in Ref : Paid(r)' <=> Paid(r)
    BY <1>3 DEF Paid, Confirmed
  <2>2. ~ Paid(ref)
    <3>1. ASSUME NEW pk \in Pk, Confirmed(pk), payment[pk].ref = ref PROVE FALSE
      <4>1. payment[pk].amount \in Amount
        BY <3>1 DEF CreditInv, RowSound, Live, Confirmed, Stored, Settled
      <4>2. payment[pk].amount = 0
        BY <3>1, <1>3 DEF CreditInv, CreditBacked, Charge
      <4>. QED
        BY <4>1, <4>2, PaymentsAssumption
    <3>. QED
      BY <3>1 DEF Paid
  <2>3. \A r \in Ref : Paid(r) => charged'[r] = charged[r]
    BY <2>2, <1>1, <1>3 DEF Charge, TypeOK
  <2>4. CreditOf' = CreditOf
    BY <1>1, <1>2, <2>1, <2>3
  <2>. QED
    BY <2>4, <1>3 DEF Ledger!Next, Ledger!Charge, Charge
\* Any other step pays for one reference at most.
<1>4. ASSUME OneCredit PROVE [Ledger!Next]_<<charged, CreditOf>>
  <2>1. \A r \in Ref : Paid(r) => Paid(r)'
    BY <1>1 DEF Kept, Paid, Confirmed, Live, Stored, Settled
  <2>2. CASE \A r \in Ref : Paid(r)' => Paid(r)
    BY <2>1, <2>2, <1>1, <1>2, <1>4 DEF OneCredit
  <2>3. ASSUME NEW r \in Ref, Paid(r)', ~ Paid(r)
        PROVE  Ledger!Next
    <3>1. \A other \in Ref \ {r} : Paid(other)' => Paid(other)
      BY <2>3, <1>1, <1>4 DEF OneCredit, Paid, Kept, Confirmed, Live, Stored, Settled
    <3>2. CreditOf' = [CreditOf EXCEPT ![r] = charged[r]] /\ CreditOf[r] = 0
      BY <3>1, <2>1, <2>3, <1>1, <1>2, <1>4 DEF OneCredit
    <3>3. charged[r] # 0
      BY <2>3, <1>1, <1>4, PaymentsAssumption
         DEF OneCredit, Paid, CreditInv, CreditBacked, RowSound, Live, Confirmed,
             Stored, Settled
    <3>. QED
      BY <3>2, <3>3, <1>4 DEF OneCredit, Ledger!Next, Ledger!Credit
  <2>. QED
    BY <2>2, <2>3
<1>. QED
  BY <1>3, <1>4, NextGood

\* Payments implements CreditLedger: each charge is credited at most once, in
\* full, after it was taken, and for good.
THEOREM LedgerImplemented == Spec => ImplementsLedger
<1>1. Init => Ledger!Init
  BY DEF Init, Ledger!Init, CreditOf, Holder, Live, NoRow, Stored, Settled
<1>2. CreditInv /\ [Next]_vars => [Ledger!Next]_<<charged, CreditOf>>
  BY LedgerStep
<1>. QED
  BY <1>1, <1>2, CreditSound, PTL DEF Spec, ImplementsLedger, Ledger!Spec

-----------------------------------------------------------------------------
(* The office beside the online payments: types *)

\* What the office takes up, and what it puts down.
LEMMA OpenedType ==
  ASSUME TypeOK, NEW pk \in Pk, Live(pk), NEW act \in {"confirm", "reject", "edit"}
  PROVE  /\ Opened(pk, act) \in DeskJob /\ Opened(pk, act).phase = "check"
         /\ Opened(pk, act).pk = pk
<1>1. payment[pk].status \in Stored /\ payment[pk].student \in BOOLEAN
  BY DEF Live, TypeOK, Row
<1>. QED
  BY <1>1 DEF Opened, NoDeskJob, DeskJob

LEMMA NoDeskJobType == NoDeskJob \in DeskJob /\ NoDeskJob.phase = "idle"
BY DEF NoDeskJob, DeskJob, Stored

\* A row that a step of the office writes is a row.
LEMMA WrittenTable ==
  ASSUME payment \in [Pk -> Row], NEW pk \in Pk
  PROVE  /\ \A status \in Status :
              [payment EXCEPT ![pk].status = status] \in [Pk -> Row]
         /\ [payment EXCEPT ![pk] =
               [payment[pk] EXCEPT !.status = "CONFIRMED", !.processed = TRUE,
                                   !.byAdmin = TRUE]] \in [Pk -> Row]
         /\ \A amount \in Amount, method \in Method, ref \in Ref \cup {NULL} :
              [payment EXCEPT ![pk] =
                 [payment[pk] EXCEPT !.amount = amount, !.method = method,
                                     !.ref = ref]] \in [Pk -> Row]
<1>1. payment[pk] \in Row
  OBVIOUS
<1>2. ASSUME NEW row \in Row PROVE [payment EXCEPT ![pk] = row] \in [Pk -> Row]
  OBVIOUS
<1>3. \A status \in Status : [payment[pk] EXCEPT !.status = status] \in Row
  BY <1>1 DEF Row
<1>4. [payment[pk] EXCEPT !.status = "CONFIRMED", !.processed = TRUE,
                          !.byAdmin = TRUE] \in Row
  BY <1>1 DEF Row, Status, Stored, Settled
<1>5. \A amount \in Amount, method \in Method, ref \in Ref \cup {NULL} :
        [payment[pk] EXCEPT !.amount = amount, !.method = method, !.ref = ref] \in Row
  BY <1>1 DEF Row
<1>. QED
  BY <1>2, <1>3, <1>4, <1>5

\* A row that the office stores is a row.
LEMMA RecordedTable ==
  ASSUME payment \in [Pk -> Row], NEW pk \in Pk, NEW amount \in Amount,
         NEW method \in Method, NEW ref \in Ref \cup {NULL}
  PROVE  /\ [payment EXCEPT ![pk] =
              [NoRow EXCEPT !.status = "CONFIRMED", !.amount = amount, !.ref = ref,
                            !.method = method, !.student = TRUE, !.byAdmin = TRUE]]
             \in [Pk -> Row]
         /\ [payment EXCEPT ![pk] =
              [NoRow EXCEPT !.status = "CONFIRMED", !.amount = amount, !.ref = ref,
                            !.method = method, !.byAdmin = TRUE]]
             \in [Pk -> Row]
BY DEF NoRow, Row, Status, Stored, Settled, Method

LEMMA TransferTable ==
  ASSUME payment \in [Pk -> Row], NEW pk \in Pk, NEW amount \in Amount
  PROVE  [payment EXCEPT ![pk] =
            [NoRow EXCEPT !.status = "PENDING", !.amount = amount,
                          !.method = "OTHER", !.student = TRUE]] \in [Pk -> Row]
BY DEF NoRow, Row, Status, Stored, Settled, Method

\* The tables after any step of the office.
LEMMA DeskTables ==
  ASSUME DeskTypeOK,
         \/ \E pk \in Pk : DeletePayment(pk)
         \/ \E pk \in Pk, amount \in Amount, told \in BOOLEAN :
              SubmitTransfer(pk, amount, told)
         \/ \E pk \in Pk, amount \in Amount, method \in Method, ref \in Ref \cup {NULL} :
              RecordAtInvoice(pk, amount, method, ref)
         \/ \E a \in Admin : ServeAdmin(a)
  PROVE  /\ payment' \in [Pk -> Row]
         /\ receipt' \subseteq Pk
         /\ inbox' \in [Notice -> Nat]
         /\ UNCHANGED online
<1>. USE DEF rows, online
<1>0. /\ payment \in [Pk -> Row] /\ receipt \subseteq Pk /\ inbox \in [Notice -> Nat]
      /\ \A a \in Admin : desk[a].phase # "idle" => desk[a].pk \in Pk
  BY DEF DeskTypeOK, TypeOK
<1>1. ASSUME NEW pk \in Pk, DeletePayment(pk)
      PROVE  payment' \in [Pk -> Row] /\ receipt' \subseteq Pk
             /\ inbox' \in [Notice -> Nat] /\ UNCHANGED online
  BY <1>0, <1>1, WrittenTable DEF DeletePayment, Status
<1>2. ASSUME NEW pk \in Pk, NEW amount \in Amount, NEW told \in BOOLEAN,
             SubmitTransfer(pk, amount, told)
      PROVE  payment' \in [Pk -> Row] /\ receipt' \subseteq Pk
             /\ inbox' \in [Notice -> Nat] /\ UNCHANGED online
  BY <1>0, <1>2, TransferTable, PostedType DEF SubmitTransfer
<1>3. ASSUME NEW pk \in Pk, NEW amount \in Amount, NEW method \in Method,
             NEW ref \in Ref \cup {NULL}, RecordAtInvoice(pk, amount, method, ref)
      PROVE  payment' \in [Pk -> Row] /\ receipt' \subseteq Pk
             /\ inbox' \in [Notice -> Nat] /\ UNCHANGED online
  BY <1>0, <1>3, RecordedTable DEF RecordAtInvoice
<1>4. ASSUME NEW a \in Admin, ServeAdmin(a)
      PROVE  payment' \in [Pk -> Row] /\ receipt' \subseteq Pk
             /\ inbox' \in [Notice -> Nat] /\ UNCHANGED online
  <2>1. ASSUME NEW pk \in Pk, NEW amount \in Amount, NEW method \in Method,
               NEW ref \in Ref \cup {NULL}, RecordForStudent(a, pk, amount, method, ref)
        PROVE  payment' \in [Pk -> Row] /\ receipt' = receipt /\ inbox' = inbox
               /\ UNCHANGED online
    BY <2>1, <1>0, RecordedTable DEF RecordForStudent
  <2>2. CASE RecordReceipt(a)
    BY <2>2, <1>0 DEF RecordReceipt
  <2>3. CASE ConfirmWrite(a)
    BY <2>3, <1>0, WrittenTable, PostedType DEF ConfirmWrite
  <2>4. CASE RejectWrite(a)
    BY <2>4, <1>0, WrittenTable DEF RejectWrite, Status, Stored, Settled
  <2>5. ASSUME NEW amount \in Amount, NEW method \in Method,
               NEW ref \in Ref \cup {NULL}, EditWrite(a, amount, method, ref)
        PROVE  payment' \in [Pk -> Row] /\ receipt' = receipt /\ inbox' = inbox
               /\ UNCHANGED online
    BY <2>5, <1>0, WrittenTable DEF EditWrite
  <2>6. ASSUME NEW p \in Person, DeskSend(a, p)
        PROVE  inbox' \in [Notice -> Nat] /\ payment' = payment /\ receipt' = receipt
               /\ UNCHANGED online
    BY <2>6, <1>0, PostedType DEF DeskSend
  <2>7. CASE \/ \E pk \in Pk : OpenEdit(a, pk) \/ \E act \in {"confirm", "reject"} :
                                                    OpenPending(a, pk, act)
             \/ DeskCheck(a) \/ WriteLost(a) \/ DeskReadSent(a) \/ DeskDone(a)
             \/ DeskCrash(a)
    BY <2>7, <1>0 DEF OpenEdit, OpenPending, DeskCheck, WriteLost, DeskReadSent,
                      DeskDone, DeskCrash
  <2>. QED
    BY <2>1, <2>2, <2>3, <2>4, <2>5, <2>6, <2>7, <1>0, <1>4, Zenon DEF ServeAdmin
<1>. QED
  BY <1>1, <1>2, <1>3, <1>4

\* What an administrator's request is doing after any step of it.
LEMMA DeskJobs ==
  ASSUME DeskTypeOK, NEW a \in Admin, ServeAdmin(a)
  PROVE  \E next \in DeskJob : /\ DeskMove(a, next)
                               /\ next.phase # "idle" => next.pk \in Pk
<1>0. /\ TypeOK /\ desk[a] \in DeskJob
      /\ desk[a].phase # "idle" => desk[a].pk \in Pk
  BY DEF DeskTypeOK
<1>1. ASSUME NEW pk \in Pk, NEW amount \in Amount, NEW method \in Method,
             NEW ref \in Ref \cup {NULL}, RecordForStudent(a, pk, amount, method, ref)
      PROVE  \E next \in DeskJob : DeskMove(a, next) /\ next.pk \in Pk
  <2>1. /\ [NoDeskJob EXCEPT !.phase = "receipt", !.act = "record", !.pk = pk,
                             !.student = TRUE] \in DeskJob
        /\ [NoDeskJob EXCEPT !.phase = "receipt", !.act = "record", !.pk = pk,
                             !.student = TRUE].pk = pk
    BY DEF NoDeskJob, DeskJob, Stored
  <2>. QED
    BY <2>1, <1>1 DEF RecordForStudent
<1>2. ASSUME NEW pk \in Pk,
             OpenEdit(a, pk) \/ \E act \in {"confirm", "reject"} : OpenPending(a, pk, act)
      PROVE  \E next \in DeskJob : DeskMove(a, next) /\ next.pk \in Pk
  BY <1>0, <1>2, OpenedType DEF OpenEdit, OpenPending, Live, Stored
<1>3. CASE RecordReceipt(a) \/ DeskCheck(a) \/ RejectWrite(a) \/ DeskDone(a)
  <2>1. /\ [desk[a] EXCEPT !.phase = "dedup", !.kind = "receipt"] \in DeskJob
        /\ [desk[a] EXCEPT !.phase = "dedup", !.kind = "payment-record"] \in DeskJob
        /\ [desk[a] EXCEPT !.phase = "write"] \in DeskJob
        /\ [desk[a] EXCEPT !.phase = "dedup"] \in DeskJob
    BY <1>0 DEF DeskJob
  <2>2. \A phase, kind :
          /\ [desk[a] EXCEPT !.phase = phase, !.kind = kind].pk = desk[a].pk
          /\ [desk[a] EXCEPT !.phase = phase].pk = desk[a].pk
    BY <1>0 DEF DeskJob
  <2>. QED
    BY <2>1, <2>2, <1>0, <1>3, NoDeskJobType
       DEF RecordReceipt, DeskCheck, RejectWrite, DeskDone
<1>4. CASE \/ WriteLost(a) \/ ConfirmWrite(a) \/ DeskCrash(a)
           \/ \E amount \in Amount, method \in Method, ref \in Ref \cup {NULL} :
                EditWrite(a, amount, method, ref)
  BY <1>4, NoDeskJobType DEF WriteLost, ConfirmWrite, DeskCrash, EditWrite
<1>5. CASE DeskReadSent(a)
  <2>1. {p \in Recipients(desk[a].student) :
           inbox[<<desk[a].pk, desk[a].kind, p>>] = 0} \in SUBSET Account
    BY DEF Recipients, Account
  <2>2. \A todo \in SUBSET Account :
          /\ [desk[a] EXCEPT !.phase = "send", !.todo = todo] \in DeskJob
          /\ [desk[a] EXCEPT !.phase = "send", !.todo = todo].pk = desk[a].pk
    BY <1>0 DEF DeskJob
  <2>. QED
    BY <2>1, <2>2, <1>0, <1>5 DEF DeskReadSent
<1>6. ASSUME NEW p \in Person, DeskSend(a, p)
      PROVE  \E next \in DeskJob : /\ DeskMove(a, next)
                                   /\ next.phase # "idle" => next.pk \in Pk
  BY <1>0, <1>6 DEF DeskSend, DeskJob
<1>. QED
  BY <1>1, <1>2, <1>3, <1>4, <1>5, <1>6 DEF ServeAdmin

LEMMA DeskTypes == DeskTypeOK /\ [DeskNext]_deskVars => DeskTypeOK'
<1>1. SUFFICES ASSUME DeskTypeOK, [DeskNext]_deskVars PROVE DeskTypeOK'
  OBVIOUS
<1>2. CASE UNCHANGED deskVars
  BY <1>1, <1>2 DEF DeskTypeOK, TypeOK, deskVars
<1>3. CASE Next /\ UNCHANGED <<desk, acts>>
  BY <1>1, <1>3, NextTypes DEF DeskTypeOK
<1>4. CASE \/ \E pk \in Pk : DeletePayment(pk)
           \/ \E pk \in Pk, amount \in Amount, told \in BOOLEAN :
                SubmitTransfer(pk, amount, told)
           \/ \E pk \in Pk, amount \in Amount, method \in Method, ref \in Ref \cup {NULL} :
                RecordAtInvoice(pk, amount, method, ref)
           \/ \E a \in Admin : ServeAdmin(a)
  <2>1. TypeOK'
    BY <1>1, <1>4, DeskTables DEF DeskTypeOK, TypeOK, online, gateway, work
  <2>2. acts' \in 0 .. MaxActs
    <3>1. acts \in 0 .. MaxActs /\ (acts' = acts \/ Begin)
      BY <1>1, <1>4
         DEF DeskTypeOK, DeletePayment, SubmitTransfer, RecordAtInvoice, ServeAdmin,
             RecordForStudent, RecordReceipt, OpenEdit, OpenPending, DeskCheck,
             WriteLost, ConfirmWrite, RejectWrite, EditWrite, DeskReadSent, DeskDone,
             DeskCrash, DeskSend
    <3>. QED
      BY <3>1, DeskAssumption DEF Begin
  <2>3. \/ desk' = desk
        \/ \E a \in Admin : \E next \in DeskJob :
             DeskMove(a, next) /\ (next.phase # "idle" => next.pk \in Pk)
    BY <1>1, <1>4, DeskJobs DEF DeletePayment, SubmitTransfer, RecordAtInvoice
  <2>4. /\ desk' \in [Admin -> DeskJob]
        /\ \A a \in Admin : desk'[a].phase # "idle" => desk'[a].pk \in Pk
    BY <2>3, <1>1 DEF DeskTypeOK, DeskMove
  <2>. QED
    BY <2>1, <2>2, <2>4 DEF DeskTypeOK
<1>. QED
  BY <1>1, <1>2, <1>3, <1>4 DEF DeskNext

\* The office keeps every table, and every request of it, well-formed.
THEOREM DeskTypeCorrect == DeskSpec => []DeskTypeOK
<1>1. DeskInit => DeskTypeOK
  BY TypeAtInit, NoDeskJobType, DeskAssumption DEF DeskInit, DeskTypeOK
<1>. QED
  BY <1>1, DeskTypes, PTL DEF DeskSpec

-----------------------------------------------------------------------------
(* The office beside the online payments: rows and receipts *)

\* The step of a status that the online paths and the office may take.
StatusStep(pk) ==
  \/ payment'[pk].status = payment[pk].status
  \/ payment[pk].status = "ABSENT"
  \/ Live(pk) /\ payment'[pk].status \in Settled
  \/ Live(pk) /\ payment'[pk].status = "DELETED" /\ receipt' = receipt \ {pk}

LEMMA OnlineStatus ==
  ASSUME TypeOK, Next, NEW pk \in Pk
  PROVE  StatusStep(pk)
<1>1. ASSUME NEW k \in Pk, NEW row, payment' = [payment EXCEPT ![k] = row],
             \/ payment[k].status = "ABSENT"
             \/ row.status = payment[k].status
             \/ Live(k) /\ row.status \in Settled
      PROVE  StatusStep(pk)
  BY <1>1 DEF StatusStep, TypeOK
<1>2. ASSUME payment' = payment PROVE StatusStep(pk)
  BY <1>2 DEF StatusStep
<1>3. ASSUME NEW e \in sent, HandleWebhook(e) PROVE StatusStep(pk)
  <2>1. ASSUME NEW k \in Pk, \/ SuccessMismatch(e, k) \/ FailureRecorded(e, k)
        PROVE  StatusStep(pk)
    <3>1. /\ payment' = [payment EXCEPT ![k] =
               [payment[k] EXCEPT !.status = "FAILED", !.processed = TRUE]]
          /\ Live(k)
      BY <2>1 DEF SuccessMismatch, FailureRecorded, Holder
    <3>2. [payment[k] EXCEPT !.status = "FAILED", !.processed = TRUE].status = "FAILED"
      BY DEF TypeOK, Row
    <3>. QED
      BY <3>1, <3>2, <1>1 DEF Settled
  <2>2. ASSUME NEW k \in Pk, SuccessConfirm(e, k) PROVE StatusStep(pk)
    BY <2>2 DEF SuccessConfirm, Holder, StatusStep, TypeOK, Row, Settled
  <2>3. ASSUME NEW k \in Pk, SuccessCreate(e, k) PROVE StatusStep(pk)
    BY <2>3, <1>1 DEF SuccessCreate
  <2>. QED
    BY <1>2, <1>3, <2>1, <2>2, <2>3
       DEF HandleWebhook, HandleChargeSuccess, HandleChargeFailure, SuccessSkip,
           SuccessRefused, SuccessUnresolved, FailureIgnored, rows, vars
<1>4. ASSUME NEW q \in Request, ServeRequest(q) PROVE StatusStep(pk)
  <2>1. CASE ClaimVerify(q)
    BY <2>1 DEF ClaimVerify, StatusStep, TypeOK, Row
  <2>2. CASE SaveWrite(q)
    <3>1. job[q].target \in Settled
      BY DEF TypeOK, Job
    <3>. QED
      BY <2>2, <3>1 DEF SaveWrite, StatusStep, TypeOK, Row
  <2>3. ASSUME NEW reached \in BOOLEAN, Reinitiate(q, reached) PROVE StatusStep(pk)
    BY <2>3, ReusedRows DEF StatusStep
  <2>. QED
    BY <1>2, <1>4, <2>1, <2>2, <2>3
       DEF ServeRequest, OpenReuse, ReturnPoll, Callback, OpenReceipt, AskPaid,
           AskInconclusive, SaveCheck, IssueReceipt, ReadSent, SendNotice,
           NoticesSent, Crash, rows
<1>5. ASSUME NEW k \in Pk, NEW ref \in Ref, NEW amount \in Amount,
             NEW student \in BOOLEAN, NEW reached \in BOOLEAN,
             Initiate(k, ref, amount, student, reached)
      PROVE  StatusStep(pk)
  BY <1>1, <1>5 DEF Initiate
<1>. QED
  BY <1>2, <1>3, <1>4, <1>5 DEF Next, Charge, Decline, rows

LEMMA StatusSteps ==
  ASSUME DeskTypeOK, [DeskNext]_deskVars, NEW pk \in Pk
  PROVE  StatusStep(pk)
<1>0. TypeOK
  BY DEF DeskTypeOK
<1>1. ASSUME NEW k \in Pk, NEW row, payment' = [payment EXCEPT ![k] = row],
             \/ payment[k].status = "ABSENT"
             \/ row.status = payment[k].status
             \/ Live(k) /\ row.status \in Settled
      PROVE  StatusStep(pk)
  BY <1>0, <1>1 DEF StatusStep, TypeOK
<1>2. ASSUME payment' = payment PROVE StatusStep(pk)
  BY <1>2 DEF StatusStep
<1>3. ASSUME NEW k \in Pk, DeletePayment(k) PROVE StatusStep(pk)
  BY <1>0, <1>3 DEF DeletePayment, StatusStep, TypeOK, Row
<1>4. ASSUME NEW a \in Admin, ServeAdmin(a) PROVE StatusStep(pk)
  <2>1. desk[a].phase # "idle" => desk[a].pk \in Pk
    BY DEF DeskTypeOK
  <2>2. CASE ConfirmWrite(a)
    BY <2>1, <2>2, <1>0 DEF ConfirmWrite, StatusStep, TypeOK, Row, Settled
  <2>3. CASE RejectWrite(a)
    BY <2>1, <2>3, <1>0 DEF RejectWrite, StatusStep, TypeOK, Row, Settled
  <2>4. ASSUME NEW amount, NEW method, NEW ref, EditWrite(a, amount, method, ref)
        PROVE  StatusStep(pk)
    BY <2>1, <2>4, <1>0 DEF EditWrite, StatusStep, TypeOK, Row
  <2>5. ASSUME NEW k \in Pk, NEW amount, NEW method, NEW ref,
               RecordForStudent(a, k, amount, method, ref)
        PROVE  StatusStep(pk)
    BY <2>5, <1>1 DEF RecordForStudent
  <2>. QED
    BY <1>2, <1>4, <2>2, <2>3, <2>4, <2>5
       DEF ServeAdmin, RecordReceipt, OpenEdit, OpenPending, DeskCheck, WriteLost,
           DeskReadSent, DeskDone, DeskCrash, DeskSend, rows
<1>5. ASSUME NEW k \in Pk, NEW amount, NEW told, SubmitTransfer(k, amount, told)
      PROVE  StatusStep(pk)
  BY <1>1, <1>5 DEF SubmitTransfer
<1>6. ASSUME NEW k \in Pk, NEW amount, NEW method, NEW ref,
             RecordAtInvoice(k, amount, method, ref)
      PROVE  StatusStep(pk)
  BY <1>1, <1>6 DEF RecordAtInvoice
<1>. QED
  BY <1>0, <1>2, <1>3, <1>4, <1>5, <1>6, OnlineStatus DEF DeskNext, deskVars

\* No payment is reopened: neither an edit that was opened before the row was
\* settled, nor a verify request, nor a webhook writes an old status back, and no
\* late write revives a row that was deleted.
THEOREM NothingReopened == DeskSpec => NeverReopened
<1>1. DeskTypeOK /\ [DeskNext]_deskVars
      => [\A pk \in Pk :
            /\ payment[pk].status \in Settled => payment'[pk].status # "PENDING"
            /\ payment[pk].status = "DELETED" => payment'[pk].status = "DELETED"
         ]_deskVars
  BY StatusSteps DEF StatusStep, Live, Stored, Settled
<1>. QED
  BY <1>1, DeskTypeCorrect, PTL DEF DeskSpec, NeverReopened

\* What is decided stays decided.
LEMMA DecidedStays ==
  ASSUME DeskTypeOK, [DeskNext]_deskVars, NEW pk \in Pk, Decided(pk)
  PROVE  Decided(pk)'
BY StatusSteps DEF StatusStep, Decided, Live, Stored, Settled

\* A new receipt is one of a settled row.
LEMMA ReceiptFrom ==
  ASSUME ReceiptInv, [DeskNext]_deskVars, NEW pk \in receipt' \ receipt
  PROVE  payment'[pk].status \in Settled
<1>0. TypeOK /\ pk \in Pk
  BY DeskTypes DEF ReceiptInv, DeskTypeOK, TypeOK
<1>1. ASSUME receipt' \subseteq receipt PROVE FALSE
  BY <1>1
<1>2. ASSUME NEW e \in sent, HandleWebhook(e) PROVE payment'[pk].status \in Settled
  <2>1. ASSUME NEW k \in Pk, SuccessConfirm(e, k) PROVE payment'[pk].status \in Settled
    BY <2>1, <1>0 DEF SuccessConfirm, Credit, TypeOK, Row, Settled
  <2>2. ASSUME NEW k \in Pk, SuccessCreate(e, k) PROVE payment'[pk].status \in Settled
    BY <2>2, <1>0 DEF SuccessCreate, Credit, TypeOK, NoRow, Settled
  <2>. QED
    BY <1>1, <1>2, <2>1, <2>2
       DEF HandleWebhook, HandleChargeSuccess, HandleChargeFailure, SuccessSkip,
           SuccessMismatch, SuccessRefused, SuccessUnresolved, FailureRecorded,
           FailureIgnored, rows, vars
<1>3. ASSUME NEW q \in Request, ServeRequest(q) PROVE payment'[pk].status \in Settled
  <2>1. CASE IssueReceipt(q)
    BY <2>1 DEF IssueReceipt, ReceiptInv, Decided, Live, Stored, Settled
  <2>. QED
    BY <1>1, <1>3, <2>1
       DEF ServeRequest, OpenReuse, Reinitiate, ReturnPoll, Callback, OpenReceipt,
           ClaimVerify, AskPaid, AskInconclusive, SaveCheck, SaveWrite, ReadSent,
           SendNotice, NoticesSent, Crash, rows
<1>4. ASSUME NEW a \in Admin, ServeAdmin(a) PROVE payment'[pk].status \in Settled
  <2>1. CASE RecordReceipt(a)
    BY <2>1 DEF RecordReceipt, ReceiptInv, Decided, Live, Stored, Settled
  <2>2. CASE ConfirmWrite(a)
    <3>1. pk = desk[a].pk
      BY <2>2 DEF ConfirmWrite
    <3>. QED
      BY <2>2, <3>1, <1>0 DEF ConfirmWrite, TypeOK, Row, Settled
  <2>. QED
    BY <1>1, <1>4, <2>1, <2>2
       DEF ServeAdmin, RecordForStudent, OpenEdit, OpenPending, DeskCheck, WriteLost,
           RejectWrite, EditWrite, DeskReadSent, DeskDone, DeskCrash, DeskSend, rows
<1>. QED
  BY <1>1, <1>2, <1>3, <1>4
     DEF DeskNext, Next, Initiate, Charge, Decline, DeletePayment,
         SubmitTransfer, RecordAtInvoice, rows, deskVars

\* A request that is about to issue a receipt does so for a decided row.
LEMMA ReceiptJobs ==
  ASSUME ReceiptInv, [DeskNext]_deskVars, NEW q \in Request,
         job'[q].phase = "receipt"
  PROVE  Decided(job[q].pk)'
<1>0. /\ DeskTypeOK /\ TypeOK /\ job[q] \in Job
      /\ job[q].phase # "idle" => job[q].pk \in Pk
  BY DEF ReceiptInv, DeskTypeOK, TypeOK
<1>1. CASE job'[q] = job[q]
  BY <1>0, <1>1, DecidedStays DEF ReceiptInv
<1>2. ASSUME NEW next, Move(q, next), next.phase # "receipt" PROVE FALSE
  BY <1>0, <1>2 DEF Move, TypeOK
<1>3. ASSUME NEW pk \in Pk, OpenReceipt(q, pk) PROVE Decided(job[q].pk)'
  BY <1>0, <1>3 DEF OpenReceipt, Move, Fetched, NoJob, Decided, Settled, TypeOK, rows
<1>4. CASE SaveWrite(q)
  <2>1. Live(job[q].pk) /\ job[q].target = "CONFIRMED"
    BY <1>2, <1>4 DEF SaveWrite, NoJob
  <2>2. job'[q] = [job[q] EXCEPT !.phase = "receipt"]
    BY <2>1, <1>0, <1>4 DEF SaveWrite, Move, TypeOK
  <2>3. payment'[job[q].pk].status = "CONFIRMED"
    BY <2>1, <1>0, <1>4 DEF SaveWrite, TypeOK, Row
  <2>. QED
    BY <2>2, <2>3, <1>0 DEF Decided, Settled, Job
<1>5. ASSUME NEW other \in Request, ServeRequest(other) PROVE Decided(job[q].pk)'
  <2>1. CASE other # q
    BY <2>1, <1>0, <1>1, <1>5, OthersWait
  <2>2. CASE ServeRequest(q)
    <3>1. CASE \E pk \in Pk : OpenReuse(q, pk) \/ ReturnPoll(q, pk) \/ Callback(q, pk)
      BY <3>1, <1>2 DEF OpenReuse, ReturnPoll, Callback, Fetched, NoJob
    <3>4. CASE \E reached \in BOOLEAN : Reinitiate(q, reached)
      BY <3>4, <1>0, <1>2, ReusedRows DEF NoJob
    <3>2. CASE \/ ClaimVerify(q) \/ AskPaid(q) \/ AskInconclusive(q) \/ SaveCheck(q)
               \/ IssueReceipt(q) \/ ReadSent(q) \/ NoticesSent(q) \/ Crash(q)
      BY <3>2, <1>0, <1>2
         DEF ClaimVerify, AskPaid, AskInconclusive, SaveCheck, IssueReceipt, ReadSent,
             NoticesSent, Crash, NoJob, Job
    <3>3. ASSUME NEW p \in Person, SendNotice(q, p) PROVE Decided(job[q].pk)'
      BY <3>3, <1>0, <1>2 DEF SendNotice, Job
    <3>. QED
      BY <2>2, <3>1, <3>2, <3>3, <3>4, <1>3, <1>4 DEF ServeRequest
  <2>. QED
    BY <2>1, <2>2, <1>5
<1>6. CASE job' = job
  BY <1>1, <1>6
<1>7. CASE Next
  BY <1>5, <1>6, <1>7
     DEF Next, Initiate, Charge, Decline, HandleWebhook,
         HandleChargeSuccess, HandleChargeFailure, SuccessSkip, SuccessMismatch,
         SuccessConfirm, SuccessCreate, SuccessRefused, SuccessUnresolved,
         FailureRecorded, FailureIgnored, work, vars
<1>. QED
  BY <1>0, <1>6, <1>7, DeskTables DEF DeskNext, online, work, deskVars

LEMMA ReceiptDesks ==
  ASSUME ReceiptInv, [DeskNext]_deskVars, NEW a \in Admin,
         desk'[a].phase = "receipt"
  PROVE  Decided(desk[a].pk)'
<1>0. /\ DeskTypeOK /\ TypeOK /\ desk[a] \in DeskJob
      /\ desk[a].phase # "idle" => desk[a].pk \in Pk
  BY DEF ReceiptInv, DeskTypeOK
<1>1. CASE desk'[a] = desk[a]
  BY <1>0, <1>1, DecidedStays DEF ReceiptInv
<1>2. ASSUME NEW next, DeskMove(a, next), next.phase # "receipt" PROVE FALSE
  BY <1>0, <1>2 DEF DeskMove, DeskTypeOK
<1>3. ASSUME NEW pk \in Pk, NEW amount, NEW method, NEW ref,
             RecordForStudent(a, pk, amount, method, ref)
      PROVE  Decided(desk[a].pk)'
  <2>1. desk'[a].pk = pk
    BY <1>0, <1>3 DEF RecordForStudent, DeskMove, NoDeskJob, DeskTypeOK
  <2>2. payment'[pk].status = "CONFIRMED"
    BY <1>0, <1>3 DEF RecordForStudent, TypeOK, NoRow
  <2>. QED
    BY <2>1, <2>2 DEF Decided, Settled
<1>4. CASE ServeAdmin(a)
  <2>1. CASE \E pk \in Pk : OpenEdit(a, pk) \/ \E act \in {"confirm", "reject"} :
                                                 OpenPending(a, pk, act)
    BY <2>1, <1>2 DEF OpenEdit, OpenPending, Opened, NoDeskJob
  <2>2. CASE \/ RecordReceipt(a) \/ DeskCheck(a) \/ WriteLost(a) \/ ConfirmWrite(a)
             \/ RejectWrite(a) \/ DeskReadSent(a) \/ DeskDone(a) \/ DeskCrash(a)
    BY <2>2, <1>0, <1>2
       DEF RecordReceipt, DeskCheck, WriteLost, ConfirmWrite, RejectWrite,
           DeskReadSent, DeskDone, DeskCrash, NoDeskJob, DeskJob
  <2>3. ASSUME NEW amount, NEW method, NEW ref, EditWrite(a, amount, method, ref)
        PROVE  Decided(desk[a].pk)'
    BY <2>3, <1>2 DEF EditWrite, NoDeskJob
  <2>4. ASSUME NEW p \in Person, DeskSend(a, p) PROVE Decided(desk[a].pk)'
    BY <2>4, <1>0, <1>2 DEF DeskSend, DeskJob
  <2>. QED
    BY <1>3, <1>4, <2>1, <2>2, <2>3, <2>4 DEF ServeAdmin
<1>5. ASSUME NEW other \in Admin, ServeAdmin(other) PROVE Decided(desk[a].pk)'
  <2>1. other # a => desk'[a] = desk[a]
    BY <1>0, <1>5, DeskJobs DEF DeskMove, DeskTypeOK
  <2>. QED
    BY <2>1, <1>1, <1>4, <1>5
<1>. QED
  BY <1>1, <1>5
     DEF DeskNext, DeletePayment, SubmitTransfer, RecordAtInvoice, deskVars

LEMMA ReceiptInvStep == ReceiptInv /\ [DeskNext]_deskVars => ReceiptInv'
<1>1. SUFFICES ASSUME ReceiptInv, [DeskNext]_deskVars PROVE ReceiptInv'
  OBVIOUS
<1>2. DeskTypeOK' /\ receipt' \subseteq Pk /\ DeskTypeOK
  BY <1>1, DeskTypes DEF ReceiptInv, DeskTypeOK, TypeOK
<1>3. ASSUME NEW pk \in receipt' PROVE payment'[pk].status \in Settled
  <2>1. CASE pk \notin receipt
    BY <2>1, <1>1, <1>3, ReceiptFrom
  <2>2. CASE pk \in receipt
    <3>1. payment[pk].status \in Settled
      BY <2>2, <1>1 DEF ReceiptInv, ReceiptOfSettledRow
    <3>2. StatusStep(pk)
      BY <1>1, <1>2, <1>3, StatusSteps
    <3>. QED
      BY <3>1, <3>2, <1>3 DEF StatusStep, Settled
  <2>. QED
    BY <2>1, <2>2
<1>. QED
  BY <1>1, <1>2, <1>3, ReceiptJobs, ReceiptDesks
     DEF ReceiptInv, ReceiptOfSettledRow, Decided

\* A receipt is always one of a payment that was confirmed or failed, never of a
\* pending or a deleted one: a request that issues it late finds no row to issue
\* it for when the office has deleted the payment.
THEOREM ReceiptsOfSettledRows == DeskSpec => []ReceiptOfSettledRow
<1>1. DeskInit => ReceiptInv
  BY TypeAtInit, NoDeskJobType, DeskAssumption
     DEF DeskInit, Init, ReceiptInv, DeskTypeOK, ReceiptOfSettledRow, NoJob
<1>2. ReceiptInv => ReceiptOfSettledRow
  BY DEF ReceiptInv
<1>. QED
  BY <1>1, <1>2, ReceiptInvStep, PTL DEF DeskSpec

\* Only a confirmation by the office tells a family that its transfer is
\* confirmed, together with the receipt.
LEMMA TransferNotices ==
  ASSUME DeskTypeOK, [DeskNext]_deskVars, NEW pk \in Pk, NEW p \in Person,
         inbox'[<<pk, "transfer-confirm", p>>] > 0
  PROVE  inbox[<<pk, "transfer-confirm", p>>] > 0 \/ pk \in receipt'
<1> DEFINE n == <<pk, "transfer-confirm", p>>
<1>0. TypeOK /\ n \in Notice
  BY DEF DeskTypeOK, Notice, Kind, Account
<1>1. ASSUME inbox' = inbox PROVE inbox[n] > 0
  BY <1>1
<1>2. ASSUME NEW S, inbox' = Posted(S), n \notin S PROVE inbox[n] > 0
  BY <1>0, <1>2 DEF Posted
<1>3. ASSUME NEW k, NEW kinds, NEW accounts, "transfer-confirm" \notin kinds
      PROVE  n \notin Notices(k, kinds, accounts) /\ n \notin Unsent(Notices(k, kinds, accounts))
  BY <1>3 DEF Notices, Unsent
<1>4. ASSUME NEW e \in sent, HandleWebhook(e) PROVE inbox[n] > 0
  <2>1. ASSUME NEW k \in Pk, Credit(k) PROVE inbox[n] > 0
    BY <2>1, <1>2, <1>3 DEF Credit
  <2>2. ASSUME NEW k \in Pk, FailureRecorded(e, k) PROVE inbox[n] > 0
    BY <2>2, <1>2, <1>3 DEF FailureRecorded
  <2>. QED
    BY <1>1, <1>4, <2>1, <2>2
       DEF HandleWebhook, HandleChargeSuccess, HandleChargeFailure, SuccessSkip,
           SuccessMismatch, SuccessConfirm, SuccessCreate, SuccessRefused,
           SuccessUnresolved, FailureIgnored, rows, vars
<1>5. ASSUME NEW q \in Request, ServeRequest(q) PROVE inbox[n] > 0
  <2>1. ASSUME NEW r \in Person, SendNotice(q, r) PROVE inbox[n] > 0
    <3>1. job[q].kind # "transfer-confirm"
      BY <1>0 DEF TypeOK, Job
    <3>. QED
      BY <2>1, <3>1, <1>2 DEF SendNotice
  <2>. QED
    BY <1>1, <1>5, <2>1
       DEF ServeRequest, OpenReuse, Reinitiate, ReturnPoll, Callback, OpenReceipt,
           ClaimVerify, AskPaid, AskInconclusive, SaveCheck, SaveWrite, IssueReceipt,
           ReadSent, NoticesSent, Crash, rows
<1>6. ASSUME NEW a \in Admin, ServeAdmin(a) PROVE inbox[n] > 0 \/ pk \in receipt'
  <2>1. CASE ConfirmWrite(a)
    <3>1. CASE pk = desk[a].pk
      BY <2>1, <3>1 DEF ConfirmWrite
    <3>2. CASE pk # desk[a].pk
      BY <2>1, <3>2, <1>2 DEF ConfirmWrite, Unsent, Notices
    <3>. QED
      BY <3>1, <3>2
  <2>2. ASSUME NEW r \in Person, DeskSend(a, r) PROVE inbox[n] > 0
    <3>1. desk[a].kind # "transfer-confirm"
      BY DEF DeskTypeOK, DeskJob
    <3>. QED
      BY <2>2, <3>1, <1>2 DEF DeskSend
  <2>. QED
    BY <1>1, <1>6, <2>1, <2>2
       DEF ServeAdmin, RecordForStudent, RecordReceipt, OpenEdit, OpenPending,
           DeskCheck, WriteLost, RejectWrite, EditWrite, DeskReadSent, DeskDone,
           DeskCrash, rows
<1>7. ASSUME NEW k \in Pk, NEW amount, NEW told, SubmitTransfer(k, amount, told)
      PROVE  inbox[n] > 0
  BY <1>1, <1>2, <1>3, <1>7 DEF SubmitTransfer
<1>. QED
  BY <1>1, <1>4, <1>5, <1>6, <1>7
     DEF DeskNext, Next, Initiate, Charge, Decline, DeletePayment,
         RecordAtInvoice, rows, deskVars

LEMMA TransferStep ==
  ASSUME DeskTypeOK, TransferInv, [DeskNext]_deskVars
  PROVE  TransferInv'
<1>1. SUFFICES ASSUME NEW pk \in Pk, NEW p \in Person,
                      inbox'[<<pk, "transfer-confirm", p>>] > 0
               PROVE  pk \in receipt' \/ payment'[pk].status = "DELETED"
  BY DEF TransferInv
<1>2. CASE pk \in receipt' \/ payment[pk].status = "DELETED"
  BY <1>2, StatusSteps DEF StatusStep, Live, Stored, Settled
<1>3. CASE pk \in receipt /\ pk \notin receipt'
  <2>1. ASSUME NEW k \in Pk, DeletePayment(k) PROVE payment'[pk].status = "DELETED"
    BY <1>3, <2>1 DEF DeletePayment, DeskTypeOK, TypeOK, Row
  <2>2. ASSUME Next PROVE receipt \subseteq receipt'
    BY <2>2, OnlyGrows DEF DeskTypeOK
  <2>. QED
    BY <1>3, <2>1, <2>2
       DEF DeskNext, SubmitTransfer, RecordAtInvoice, ServeAdmin, RecordForStudent,
           RecordReceipt, OpenEdit, OpenPending, DeskCheck, WriteLost, ConfirmWrite,
           RejectWrite, EditWrite, DeskReadSent, DeskDone, DeskCrash, DeskSend, rows,
           deskVars
<1>. QED
  BY <1>1, <1>2, <1>3, TransferNotices DEF TransferInv

\* Who was told that a transfer is confirmed can open its receipt, until the
\* payment is deleted: whoever else worked on the row in the meantime.
THEOREM ConfirmedTransfersHaveReceipts == DeskSpec => []ConfirmedTransferHasReceipt
<1>1. DeskInit => TransferInv
  BY DEF DeskInit, Init, TransferInv, Notice, Kind, Account
<1>2. DeskTypeOK /\ TransferInv /\ [DeskNext]_deskVars => TransferInv'
  BY TransferStep
<1>3. TransferInv => ConfirmedTransferHasReceipt
  BY DEF TransferInv, ConfirmedTransferHasReceipt, Live, Stored, Settled
<1>. QED
  BY <1>1, <1>2, <1>3, DeskTypeCorrect, PTL DEF DeskSpec

-----------------------------------------------------------------------------
(* The office beside the online payments: where credit comes from *)

\* Money taken is never given back.
LEMMA ChargesStay ==
  ASSUME TypeOK, Next, NEW r \in Ref, charged[r] # 0
  PROVE  charged'[r] # 0
<1>1. ASSUME NEW ref \in Ref, NEW amount \in Amount, Charge(ref, amount)
      PROVE  charged'[r] # 0
  BY <1>1 DEF Charge, TypeOK
<1>2. ASSUME NEW e \in sent, HandleWebhook(e) PROVE charged' = charged
  BY <1>2 DEF HandleWebhook, HandleChargeSuccess, HandleChargeFailure, SuccessSkip,
              SuccessMismatch, SuccessConfirm, SuccessCreate, SuccessRefused,
              SuccessUnresolved, FailureRecorded, FailureIgnored, gateway, vars
<1>3. ASSUME NEW q \in Request, ServeRequest(q) PROVE charged' = charged
  BY <1>3 DEF ServeRequest, OpenReuse, Reinitiate, ReturnPoll, Callback, OpenReceipt,
              ClaimVerify, AskPaid, AskInconclusive, SaveCheck, SaveWrite,
              IssueReceipt, ReadSent, SendNotice, NoticesSent, Crash, gateway
<1>. QED
  BY <1>1, <1>2, <1>3 DEF Next, Initiate, Decline

\* Events and decisions of the online paths rest on a charge.
LEMMA OriginEvents ==
  ASSUME OriginInv, Next, NEW e \in sent', e.type = "charge.success"
  PROVE  charged'[e.ref] # 0
<1>0. TypeOK /\ TypeOK'
  BY NextTypes DEF OriginInv, DeskTypeOK
<1>1. ASSUME NEW ref \in Ref, NEW amount \in Amount, Charge(ref, amount), e \notin sent
      PROVE  charged'[e.ref] # 0
  <2>1. amount # 0
    BY PaymentsAssumption
  <2>. QED
    BY <2>1, <1>0, <1>1 DEF Charge, TypeOK
<1>2. CASE e \in sent
  BY <1>0, <1>2, ChargesStay DEF OriginInv, TypeOK, Event
<1>3. ASSUME NEW x \in sent, HandleWebhook(x) PROVE sent' = sent
  BY <1>3 DEF HandleWebhook, HandleChargeSuccess, HandleChargeFailure, SuccessSkip,
              SuccessMismatch, SuccessConfirm, SuccessCreate, SuccessRefused,
              SuccessUnresolved, FailureRecorded, FailureIgnored, gateway, vars
<1>4. ASSUME NEW q \in Request, ServeRequest(q) PROVE sent' = sent
  BY <1>4 DEF ServeRequest, OpenReuse, Reinitiate, ReturnPoll, Callback, OpenReceipt,
              ClaimVerify, AskPaid, AskInconclusive, SaveCheck, SaveWrite,
              IssueReceipt, ReadSent, SendNotice, NoticesSent, Crash, gateway
<1>5. ASSUME NEW ref \in Ref, Decline(ref), e \notin sent PROVE FALSE
  BY <1>5 DEF Decline
<1>6. CASE e \notin sent
  BY <1>1, <1>3, <1>4, <1>5, <1>6 DEF Next, Initiate
<1>. QED
  BY <1>2, <1>6

LEMMA OriginJobs ==
  ASSUME OriginInv, Next, NEW q \in Request
  PROVE  /\ job'[q].phase \in {"claim", "ask", "check", "write"} => job'[q].ref \in Ref
         /\ job'[q].phase \in {"check", "write"} => charged'[job'[q].ref] # 0
<1> DEFINE Sound(j, c) ==
      /\ j.phase \in {"claim", "ask", "check", "write"} => j.ref \in Ref
      /\ j.phase \in {"check", "write"} => c[j.ref] # 0
<1>0. TypeOK /\ job[q] \in Job /\ Sound(job[q], charged)
  BY DEF OriginInv, DeskTypeOK, TypeOK
<1>1. CASE job'[q] = job[q]
  BY <1>0, <1>1, ChargesStay
<1>2. ASSUME NEW next, Move(q, next), Sound(next, charged'), ServeRequest(q)
      PROVE  Sound(job'[q], charged')
  BY <1>0, <1>2 DEF Move, TypeOK
<1>3. CASE ServeRequest(q)
  <2>0. Sound(NoJob, charged') /\ \A r \in Ref : charged[r] # 0 => charged'[r] # 0
    BY <1>0, ChargesStay DEF NoJob
  <2>1. CASE \E pk \in Pk : \/ OpenReuse(q, pk) \/ ReturnPoll(q, pk) \/ Callback(q, pk)
                            \/ OpenReceipt(q, pk)
    BY <2>1, <1>2, <1>3 DEF OpenReuse, ReturnPoll, Callback, OpenReceipt, Fetched, NoJob
  <2>2. CASE \/ AskInconclusive(q) \/ Crash(q)
             \/ \E reached \in BOOLEAN : Reinitiate(q, reached)
    BY <2>0, <2>2, <1>2, <1>3 DEF Reinitiate, AskInconclusive, Crash
  <2>3. CASE ClaimVerify(q) \/ AskPaid(q) \/ SaveCheck(q) \/ SaveWrite(q)
    <3>1. CASE ClaimVerify(q)
      BY <3>1, <1>0, <1>2, <1>3 DEF ClaimVerify, Job
    <3>2. CASE AskPaid(q)
      BY <3>2, <2>0, <1>0, <1>2, <1>3 DEF AskPaid, Job
    <3>3. CASE SaveCheck(q)
      <4>1. job[q].phase = "check" /\ Sound([job[q] EXCEPT !.phase = "write"], charged')
        BY <3>3, <2>0, <1>0 DEF SaveCheck, Job
      <4>. QED
        BY <3>3, <4>1, <2>0, <1>2, <1>3 DEF SaveCheck
    <3>4. CASE SaveWrite(q)
      <4>1. Sound([job[q] EXCEPT !.phase = "receipt"], charged')
        BY <1>0 DEF Job
      <4>. QED
        BY <3>4, <4>1, <2>0, <1>2, <1>3 DEF SaveWrite
    <3>. QED
      BY <3>1, <3>2, <3>3, <3>4, <2>3
  <2>4. CASE \/ IssueReceipt(q) \/ ReadSent(q) \/ NoticesSent(q)
             \/ \E p \in Person : SendNotice(q, p)
    <3>0. ASSUME NEW next, Move(q, next), next.phase \in {"idle", "dedup", "send"}
          PROVE  Sound(job'[q], charged')
      BY <3>0, <1>2, <1>3
    <3>1. CASE IssueReceipt(q)
      BY <3>0, <3>1, <1>0 DEF IssueReceipt, Job, NoJob
    <3>2. CASE ReadSent(q)
      BY <3>0, <3>2, <1>0 DEF ReadSent, Job
    <3>3. CASE NoticesSent(q)
      BY <3>0, <3>3, <1>0 DEF NoticesSent, Job, NoJob
    <3>4. ASSUME NEW p \in Person, SendNotice(q, p) PROVE Sound(job'[q], charged')
      BY <3>0, <3>4, <1>0 DEF SendNotice, Job
    <3>. QED
      BY <3>1, <3>2, <3>3, <3>4, <2>4
  <2>. QED
    BY <2>1, <2>2, <2>3, <2>4, <1>3 DEF ServeRequest
<1>. QED
  BY <1>0, <1>1, <1>3, OnlyGrows

LEMMA OriginStep == OriginInv /\ [DeskNext]_deskVars => OriginInv'
<1>1. SUFFICES ASSUME OriginInv, [DeskNext]_deskVars PROVE OriginInv'
  OBVIOUS
<1>2. DeskTypeOK' /\ DeskTypeOK
  BY <1>1, DeskTypes DEF OriginInv
<1>3. CASE Next
  BY <1>1, <1>2, <1>3, OriginEvents, OriginJobs DEF OriginInv
<1>4. CASE UNCHANGED online
  BY <1>1, <1>2, <1>4 DEF OriginInv, online, gateway, work
<1>. QED
  BY <1>1, <1>2, <1>3, <1>4, DeskTables DEF DeskNext, online, gateway, work, deskVars

\* Every step that makes a payment count was taken by an administrator, or on
\* money that Paystack took.
LEMMA CreditOrigin ==
  ASSUME OriginInv, [DeskNext]_deskVars, NEW pk \in Pk, ~ Confirmed(pk), Confirmed(pk)'
  PROVE  \/ payment'[pk].byAdmin
         \/ \E r \in Ref :
              /\ charged[r] # 0
              /\ \/ payment'[pk].ref = r
                 \/ \E q \in Request : job[q].pk = pk /\ job[q].ref = r
<1> DEFINE Taken == \E r \in Ref :
              /\ charged[r] # 0
              /\ \/ payment'[pk].ref = r
                 \/ \E q \in Request : job[q].pk = pk /\ job[q].ref = r
<1>0. DeskTypeOK /\ TypeOK
  BY DEF OriginInv, DeskTypeOK
<1>1. payment'[pk] # payment[pk]
  BY DEF Confirmed
<1>2. ASSUME NEW e \in sent, HandleWebhook(e) PROVE Taken
  <2>0. e.ref \in Ref /\ (e.type = "charge.success" => charged[e.ref] # 0)
    BY <1>0 DEF OriginInv, TypeOK, Event
  <2>1. ASSUME NEW k \in Pk, SuccessConfirm(e, k) PROVE payment'[pk].ref = e.ref
    BY <2>1, <1>0, <1>1 DEF SuccessConfirm, Holder, TypeOK, Row
  <2>2. ASSUME NEW k \in Pk, SuccessCreate(e, k) PROVE payment'[pk].ref = e.ref
    BY <2>2, <1>0, <1>1 DEF SuccessCreate, TypeOK, NoRow
  <2>3. ASSUME NEW k \in Pk, SuccessMismatch(e, k) \/ FailureRecorded(e, k) PROVE FALSE
    <3>1. payment' = [payment EXCEPT ![k] =
               [payment[k] EXCEPT !.status = "FAILED", !.processed = TRUE]]
      BY <2>3 DEF SuccessMismatch, FailureRecorded
    <3>. QED
      BY <3>1, <1>0, <1>1 DEF Confirmed, TypeOK, Row
  <2>. QED
    BY <1>1, <1>2, <2>0, <2>1, <2>2, <2>3
       DEF HandleWebhook, HandleChargeSuccess, HandleChargeFailure, SuccessSkip,
           SuccessRefused, SuccessUnresolved, FailureIgnored, rows, vars
<1>3. ASSUME NEW q \in Request, ServeRequest(q) PROVE Taken
  <2>1. CASE ClaimVerify(q)
    BY <2>1, <1>0 DEF ClaimVerify, Confirmed, TypeOK, Row
  <2>2. CASE SaveWrite(q)
    <3>1. job[q].pk = pk
      BY <2>2, <1>0, <1>1 DEF SaveWrite, TypeOK
    <3>2. job[q].ref \in Ref /\ charged[job[q].ref] # 0
      BY <2>2 DEF OriginInv, SaveWrite
    <3>. QED
      BY <3>1, <3>2
  <2>3. ASSUME NEW reached \in BOOLEAN, Reinitiate(q, reached) PROVE FALSE
    BY <2>3, <1>0, ReusedRows DEF Confirmed
  <2>. QED
    BY <1>1, <1>3, <2>1, <2>2, <2>3
       DEF ServeRequest, OpenReuse, ReturnPoll, Callback, OpenReceipt, AskPaid,
           AskInconclusive, SaveCheck, IssueReceipt, ReadSent, SendNotice,
           NoticesSent, Crash, rows
<1>4. ASSUME NEW k \in Pk, NEW ref \in Ref, NEW amount \in Amount,
             NEW student \in BOOLEAN, NEW reached \in BOOLEAN,
             Initiate(k, ref, amount, student, reached)
      PROVE  FALSE
  BY <1>4, <1>0, <1>1 DEF Initiate, Confirmed, TypeOK, NoRow
<1>5. ASSUME NEW a \in Admin, ServeAdmin(a) PROVE payment'[pk].byAdmin
  <2>1. CASE ConfirmWrite(a)
    BY <2>1, <1>0, <1>1 DEF ConfirmWrite, TypeOK, Row
  <2>2. CASE RejectWrite(a)
    BY <2>2, <1>0, <1>1 DEF RejectWrite, Confirmed, TypeOK, Row
  <2>3. ASSUME NEW amount, NEW method, NEW ref, EditWrite(a, amount, method, ref)
        PROVE  FALSE
    BY <2>3, <1>0, <1>1 DEF EditWrite, Confirmed, TypeOK, Row
  <2>4. ASSUME NEW k \in Pk, NEW amount, NEW method, NEW ref,
               RecordForStudent(a, k, amount, method, ref)
        PROVE  payment'[pk].byAdmin
    BY <2>4, <1>0, <1>1 DEF RecordForStudent, TypeOK, NoRow
  <2>. QED
    BY <1>1, <1>5, <2>1, <2>2, <2>3, <2>4
       DEF ServeAdmin, RecordReceipt, OpenEdit, OpenPending, DeskCheck, WriteLost,
           DeskReadSent, DeskDone, DeskCrash, DeskSend, rows
<1>6. ASSUME NEW k \in Pk, NEW amount, NEW method, NEW ref,
             RecordAtInvoice(k, amount, method, ref)
      PROVE  payment'[pk].byAdmin
  BY <1>6, <1>0, <1>1 DEF RecordAtInvoice, TypeOK, NoRow
<1>7. ASSUME NEW k \in Pk, NEW amount, NEW told, SubmitTransfer(k, amount, told)
      PROVE  FALSE
  BY <1>7, <1>0, <1>1 DEF SubmitTransfer, Confirmed, TypeOK, NoRow
<1>8. ASSUME NEW k \in Pk, DeletePayment(k) PROVE FALSE
  BY <1>8, <1>0, <1>1 DEF DeletePayment, Confirmed, TypeOK, Row
<1>. QED
  BY <1>1, <1>2, <1>3, <1>4, <1>5, <1>6, <1>7, <1>8
     DEF DeskNext, Next, Charge, Decline, rows, deskVars

\* A payment comes to count only by an administrator's hand, or by money that
\* Paystack took on the reference that the row has, or had when a verify request
\* read it: although the office may edit the row under both.
THEOREM CreditComesFromSomewhere == DeskSpec => CreditHasOrigin
<1>1. DeskInit => OriginInv
  BY TypeAtInit, NoDeskJobType, DeskAssumption
     DEF DeskInit, Init, OriginInv, DeskTypeOK, NoJob
<1>2. OriginInv /\ [DeskNext]_deskVars
      => [\A pk \in Pk : ~ Confirmed(pk) /\ Confirmed(pk)' =>
            \/ payment'[pk].byAdmin
            \/ \E r \in Ref :
                 /\ charged[r] # 0
                 /\ \/ payment'[pk].ref = r
                    \/ \E q \in Request : job[q].pk = pk /\ job[q].ref = r]_deskVars
  BY CreditOrigin
<1>. QED
  BY <1>1, <1>2, OriginStep, PTL DEF DeskSpec, CreditHasOrigin
=============================================================================
