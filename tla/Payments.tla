------------------------------ MODULE Payments ------------------------------
(***************************************************************************)
(* The life of an online payment: the Payment rows of fees/models.py, the  *)
(* Paystack webhook and the verify path of fees/paystack.py, and the       *)
(* return-page, callback and receipt views of fees/views.py that run them. *)
(*                                                                         *)
(* Three kinds of actors interleave.  Paystack charges cards and delivers  *)
(* its events late, repeatedly and out of order.  A webhook delivery runs  *)
(* in one database transaction that locks the payment row first, so it is  *)
(* one step.  A web request runs statement by statement in autocommit: it  *)
(* reads the row, waits for Paystack, and writes from what it read.        *)
(* The administrator's views are added by module PaymentDesk.              *)
(***************************************************************************)
EXTENDS Naturals, FiniteSets

CONSTANTS
  Pk,          \* primary keys of Payment rows
  Ref,         \* Paystack references
  NULL,        \* no reference, no payment
  Amount,      \* amounts, in kobo
  Person,      \* the accounts of the paying student and its guardians
  Staff,       \* the accounts of the school's administrators
  Request,     \* web requests that can be in flight at the same time
  MaxCrashes   \* bound on the requests that die half-way

ASSUME PaymentsAssumption ==
  /\ Amount \subseteq Nat \ {0}
  /\ NULL \notin Ref \cup Pk
  /\ MaxCrashes \in Nat

VARIABLES
  payment,     \* the Payment table
  receipt,     \* the payments that have a FeeReceipt row
  inbox,       \* how many NotificationLog rows exist for a notice
  webhookLog,  \* the WebhookLog table
  session,     \* references Paystack has a payment page for
  charged,     \* what Paystack took from the payer on a reference, or 0
  sent,        \* the events Paystack delivers, again and again
  job,         \* the request each worker is serving
  crashes      \* how many requests have died

rows == <<payment, receipt, inbox>>
gateway == <<session, charged, sent>>
work == <<job, crashes>>
vars == <<payment, receipt, inbox, webhookLog, session, charged, sent,
          job, crashes>>

-----------------------------------------------------------------------------
(* Rows, notices, events and requests *)

Settled == {"CONFIRMED", "FAILED"}
Stored == Settled \cup {"PENDING"}
Status == Stored \cup {"ABSENT", "DELETED"}
Method == {"PAYSTACK", "OTHER"}   \* cash, transfers, ...: all treated alike

Row == [status : Status, amount : Amount \cup {0}, ref : Ref \cup {NULL},
        method : Method, student : BOOLEAN, processed : BOOLEAN,
        attempted : BOOLEAN, byAdmin : BOOLEAN]

NoRow == [status |-> "ABSENT", amount |-> 0, ref |-> NULL,
          method |-> "PAYSTACK", student |-> FALSE, processed |-> FALSE,
          attempted |-> FALSE, byAdmin |-> FALSE]

Kind == {"receipt", "payment-confirm", "payment-fail", "payment-record",
         "transfer-pending", "transfer-confirm", "transfer-reject"}
Account == Person \cup Staff
Notice == Pk \X Kind \X Account

Event == [type : {"charge.success", "charge.failed"}, ref : Ref,
          amount : Amount \cup {0}]

Phase == {"idle", "reuse", "claim", "ask", "check", "write", "receipt", "dedup", "send"}
Job == [phase : Phase, route : {"verify", "view"}, pk : Pk \cup {NULL},
        ref : Ref \cup {NULL}, amount : Amount \cup {0}, student : BOOLEAN,
        target : Settled, kind : {"receipt", "payment-confirm"},
        todo : SUBSET Account]

TypeOK ==
  /\ payment \in [Pk -> Row]
  /\ receipt \subseteq Pk
  /\ inbox \in [Notice -> Nat]
  /\ webhookLog \subseteq [event : Event, processed : BOOLEAN]
  /\ session \subseteq Ref
  /\ charged \in [Ref -> Amount \cup {0}]
  /\ sent \subseteq Event
  /\ job \in [Request -> Job]
  /\ \A q \in Request :
       /\ job[q].phase # "idle" => job[q].pk \in Pk
       /\ job[q].phase = "reuse" => job[q].ref \in Ref
  /\ crashes \in 0 .. MaxCrashes

NoJob == [phase |-> "idle", route |-> "verify", pk |-> NULL, ref |-> NULL,
          amount |-> 0, student |-> FALSE, target |-> "FAILED",
          kind |-> "receipt", todo |-> {}]

Init ==
  /\ payment = [pk \in Pk |-> NoRow]
  /\ receipt = {}
  /\ inbox = [n \in Notice |-> 0]
  /\ webhookLog = {}
  /\ session = {}
  /\ charged = [r \in Ref |-> 0]
  /\ sent = {}
  /\ job = [q \in Request |-> NoJob]
  /\ crashes = 0

-----------------------------------------------------------------------------
(* Helpers shared by the handlers *)

Live(pk) == payment[pk].status \in Stored

\* Payment.objects.filter(reference=...): at most one row, by the unique
\* constraint on (school, reference).
Holder(ref) == {pk \in Pk : Live(pk) /\ payment[pk].ref = ref}

\* Payment.save() compares the stored status with the one to be written.
LegalSave(previous, next) ==
  \/ previous \notin Stored
  \/ previous = next
  \/ previous = "PENDING" /\ next \in Settled

\* The paying student and its guardians; nobody when payment.student is NULL.
Recipients(student) == IF student THEN Person ELSE {}

Notices(pk, kinds, accounts) == {pk} \X kinds \X accounts

\* Every notifier skips the recipients who already have a row.
Unsent(notices) == {n \in notices : inbox[n] = 0}

Posted(notices) ==
  [n \in Notice |-> IF n \in notices THEN inbox[n] + 1 ELSE inbox[n]]

Logged(e, done) == webhookLog \cup {[event |-> e, processed |-> done]}

\* Mutant: a webhook that confirms without issue_receipt().
CreditWithoutReceipt(pk) ==
  /\ payment'[pk].status = "CONFIRMED"
  /\ UNCHANGED <<receipt, inbox>>

\* Receipt and both notices commit with the webhook's confirmation.
Credit(pk) ==
  /\ receipt' = receipt \cup {pk}
  /\ inbox' = Posted(Unsent(Notices(pk, {"receipt", "payment-confirm"},
                                    Recipients(payment'[pk].student))))

Move(q, next) == job' = [job EXCEPT ![q] = next]

-----------------------------------------------------------------------------
(* The payer *)

\* make_payment, InitiatePaymentView and CheckoutSubmitView: a PENDING row with
\* a fresh uuid reference is stored before Paystack is called, and the call
\* may fail.  Invoice payments are stored without a student.
Initiate(pk, ref, amount, student, reached) ==
  /\ payment[pk].status = "ABSENT"
  /\ \A other \in Pk : payment[other].ref # ref
  /\ ref \notin session
  /\ payment' = [payment EXCEPT ![pk] =
       [NoRow EXCEPT !.status = "PENDING", !.amount = amount, !.ref = ref,
                     !.student = student]]
  /\ session' = IF reached THEN session \cup {ref} ELSE session
  /\ UNCHANGED <<receipt, inbox, charged, sent, webhookLog, work>>

-----------------------------------------------------------------------------
(* Paystack *)

\* The payer is charged, once per reference, not always the amount asked for.
Charge(ref, amount) ==
  /\ ref \in session
  /\ charged[ref] = 0
  /\ charged' = [charged EXCEPT ![ref] = amount]
  /\ sent' = sent \cup
       {[type |-> "charge.success", ref |-> ref, amount |-> amount]}
  /\ UNCHANGED <<rows, session, webhookLog, work>>

\* An attempt is declined; the payer may try again on the same page.
Decline(ref) ==
  /\ ref \in session
  /\ charged[ref] = 0
  /\ sent' = sent \cup
       {[type |-> "charge.failed", ref |-> ref, amount |-> 0]}
  /\ UNCHANGED <<rows, session, charged, webhookLog, work>>

-----------------------------------------------------------------------------
(* handle_webhook: one transaction, the payment row locked from the start.  *)
(* The event is logged first; an exception rolls everything back, the log   *)
(* row included, and answers 500.                                           *)

\* Mutant: every settled row counts as handled, failed ones too.
SuccessSkipSettled(e, pk) ==
  /\ pk \in Holder(e.ref)
  /\ payment[pk].status \in Settled /\ payment[pk].processed
  /\ webhookLog' = Logged(e, TRUE)
  /\ UNCHANGED <<rows, gateway, work>>

\* A success of a row that is already CONFIRMED and webhook_processed.
SuccessSkip(e, pk) ==
  /\ pk \in Holder(e.ref)
  /\ payment[pk].status = "CONFIRMED" /\ payment[pk].processed
  /\ webhookLog' = Logged(e, TRUE)
  /\ UNCHANGED <<rows, gateway, work>>

\* Mutant: a mismatch is logged and the row left PENDING.
SuccessMismatchIgnored(e, pk) ==
  /\ pk \in Holder(e.ref)
  /\ payment[pk].amount # e.amount
  /\ webhookLog' = Logged(e, TRUE)
  /\ UNCHANGED <<rows, gateway, work>>

\* The tamper check: another amount than the row's is never credited.
SuccessMismatch(e, pk) ==
  /\ pk \in Holder(e.ref)
  /\ payment[pk].amount # e.amount
  /\ LegalSave(payment[pk].status, "FAILED")
  /\ payment' = [payment EXCEPT ![pk] =
       [payment[pk] EXCEPT !.status = "FAILED", !.processed = TRUE]]
  /\ webhookLog' = Logged(e, TRUE)
  /\ UNCHANGED <<receipt, inbox, gateway, work>>

\* _apply_paystack_success: the metadata names the student if the row did not.
SuccessConfirm(e, pk) ==
  /\ pk \in Holder(e.ref)
  /\ ~ (payment[pk].status = "CONFIRMED" /\ payment[pk].processed)
  /\ payment[pk].amount = e.amount
  /\ LegalSave(payment[pk].status, "CONFIRMED")
  /\ payment' = [payment EXCEPT ![pk] =
       [payment[pk] EXCEPT !.status = "CONFIRMED", !.processed = TRUE,
                 !.method = "PAYSTACK", !.student = TRUE]]
  /\ Credit(pk)
  /\ webhookLog' = Logged(e, TRUE)
  /\ UNCHANGED <<gateway, work>>

\* The webhook-first fallback: no row holds the reference. The event's metadata names
\* student or invoice ...
SuccessCreate(e, pk) ==
  /\ Holder(e.ref) = {}
  /\ payment[pk].status = "ABSENT"
  /\ payment' = [payment EXCEPT ![pk] =
       [NoRow EXCEPT !.status = "CONFIRMED", !.amount = e.amount,
                     !.ref = e.ref, !.student = TRUE, !.processed = TRUE]]
  /\ Credit(pk)
  /\ webhookLog' = Logged(e, TRUE)
  /\ UNCHANGED <<gateway, work>>

\* ... one that is gone answers 400 or 404, and the log keeps the event.
SuccessUnresolved(e) ==
  /\ Holder(e.ref) = {}
  /\ webhookLog' = Logged(e, FALSE)
  /\ UNCHANGED <<rows, gateway, work>>

\* Payment.save() refuses the transition: ValidationError, full rollback.
SuccessRefused(e, pk) ==
  /\ pk \in Holder(e.ref)
  /\ ~ (payment[pk].status = "CONFIRMED" /\ payment[pk].processed)
  /\ ~ LegalSave(payment[pk].status,
                 IF payment[pk].amount = e.amount
                 THEN "CONFIRMED" ELSE "FAILED")
  /\ UNCHANGED vars

HandleChargeSuccess(e) ==
  /\ e.type = "charge.success"
  /\ \/ \E pk \in Pk : \/ SuccessSkip(e, pk)
                       \/ SuccessMismatch(e, pk)
                       \/ SuccessConfirm(e, pk)
                       \/ SuccessCreate(e, pk)
                       \/ SuccessRefused(e, pk)
     \/ SuccessUnresolved(e)

\* A failure only moves a PENDING row, and tells the administrators too.
FailureRecorded(e, pk) ==
  /\ pk \in Holder(e.ref)
  /\ payment[pk].status = "PENDING"
  /\ payment' = [payment EXCEPT ![pk] =
       [payment[pk] EXCEPT !.status = "FAILED", !.processed = TRUE]]
  /\ inbox' = Posted(Unsent(Notices(pk, {"payment-fail"},
                              Staff \cup Recipients(payment[pk].student))))
  /\ webhookLog' = Logged(e, TRUE)
  /\ UNCHANGED <<receipt, gateway, work>>

FailureIgnored(e) ==
  /\ \A pk \in Holder(e.ref) : payment[pk].status # "PENDING"
  /\ webhookLog' = Logged(e, FALSE)
  /\ UNCHANGED <<rows, gateway, work>>

HandleChargeFailure(e) ==
  /\ e.type = "charge.failed"
  /\ \/ \E pk \in Pk : FailureRecorded(e, pk)
     \/ FailureIgnored(e)

HandleWebhook(e) ==
  /\ e \in sent
  /\ HandleChargeSuccess(e) \/ HandleChargeFailure(e)

-----------------------------------------------------------------------------
(* Web requests: each step is one statement, or the wait for Paystack.      *)

\* Payment.objects.filter(reference=...).first(): the copy the request keeps.
Fetched(pk, phase, route) ==
  [NoJob EXCEPT !.phase = phase, !.route = route, !.pk = pk,
                !.ref = payment[pk].ref, !.amount = payment[pk].amount,
                !.student = payment[pk].student]

\* A PENDING row is reused (the 30-minute deduplication, CheckoutContinueView) ...
OpenReuse(q, pk) ==
  /\ job[q].phase = "idle"
  /\ payment[pk].status = "PENDING" /\ payment[pk].method = "PAYSTACK"
  /\ payment[pk].ref \in Ref
  /\ Move(q, Fetched(pk, "reuse", "verify"))
  /\ UNCHANGED <<rows, gateway, webhookLog, crashes>>

\* ... the row that has its reference now is given the amount and the student read
\* before, and Paystack is asked for a page. Where it refuses, what follows is Initiate.
Reinitiate(q, reached) ==
  LET ref == job[q].ref IN
  /\ job[q].phase = "reuse"
  /\ payment' = [pk \in Pk |->
       IF pk \in Holder(ref)
       THEN [payment[pk] EXCEPT !.amount = job[q].amount,
                                !.student = @ \/ job[q].student]
       ELSE payment[pk]]
  /\ session' = IF reached THEN session \cup {ref} ELSE session
  /\ Move(q, NoJob)
  /\ UNCHANGED <<receipt, inbox, charged, sent, webhookLog, crashes>>

\* PaymentStatusPartialView polls: a PENDING row nobody has verified yet.
ReturnPoll(q, pk) ==
  /\ job[q].phase = "idle"
  /\ payment[pk].status = "PENDING"
  /\ payment[pk].ref \in Ref
  /\ ~ payment[pk].attempted
  /\ Move(q, Fetched(pk, "claim", "verify"))
  /\ UNCHANGED <<rows, gateway, webhookLog, crashes>>

\* The flag is set after it was read, by a statement of its own.
ClaimVerify(q) ==
  /\ job[q].phase = "claim"
  /\ payment' = [payment EXCEPT ![job[q].pk].attempted = TRUE]
  /\ Move(q, [job[q] EXCEPT !.phase = "ask"])
  /\ UNCHANGED <<receipt, inbox, gateway, webhookLog, crashes>>

\* VerifyPaymentView: PENDING and FAILED rows are verified.
Callback(q, pk) ==
  /\ job[q].phase = "idle"
  /\ payment[pk].status \in {"PENDING", "FAILED"}
  /\ payment[pk].ref \in Ref
  /\ Move(q, Fetched(pk, "ask", "verify"))
  /\ UNCHANGED <<rows, gateway, webhookLog, crashes>>

\* Mutants: no tamper check; a charge that is pending is taken for paid.
AskPaidUnchecked(q) ==
  /\ job[q].phase = "ask"
  /\ charged[job[q].ref] # 0
  /\ Move(q, [job[q] EXCEPT !.phase = "check", !.target = "CONFIRMED"])
  /\ UNCHANGED <<rows, gateway, webhookLog, crashes>>

AskUnpaid(q) ==
  /\ job[q].phase = "ask"
  /\ Move(q, [job[q] EXCEPT !.phase = "check",
                !.target = IF charged[job[q].ref] \in {0, job[q].amount}
                           THEN "CONFIRMED" ELSE "FAILED"])
  /\ UNCHANGED <<rows, gateway, webhookLog, crashes>>

\* verify_transaction answers success: confirm_payment_from_verify compares the
\* amount with the copy it was given.
AskPaid(q) ==
  /\ job[q].phase = "ask"
  /\ charged[job[q].ref] # 0
  /\ Move(q, [job[q] EXCEPT !.phase = "check",
                !.target = IF charged[job[q].ref] = job[q].amount
                           THEN "CONFIRMED" ELSE "FAILED"])
  /\ UNCHANGED <<rows, gateway, webhookLog, crashes>>

\* Not paid yet, unreachable, or an error: the row is left as it is.
AskInconclusive(q) ==
  /\ job[q].phase = "ask"
  /\ Move(q, NoJob)
  /\ UNCHANGED <<rows, gateway, webhookLog, crashes>>

\* Payment.save() reads the stored status ...
SaveCheck(q) ==
  /\ job[q].phase = "check"
  /\ Move(q, IF LegalSave(payment[job[q].pk].status, job[q].target)
             THEN [job[q] EXCEPT !.phase = "write"] ELSE NoJob)
  /\ UNCHANGED <<rows, gateway, webhookLog, crashes>>

\* ... and updates the row in a second statement.
SaveWrite(q) ==
  LET pk == job[q].pk IN
  /\ job[q].phase = "write"
  /\ payment' = IF Live(pk)
                THEN [payment EXCEPT ![pk] =
                        [payment[pk] EXCEPT !.status = job[q].target,
                                            !.processed = TRUE]]
                ELSE payment
  /\ Move(q, IF Live(pk) /\ job[q].target = "CONFIRMED"
             THEN [job[q] EXCEPT !.phase = "receipt"] ELSE NoJob)
  /\ UNCHANGED <<receipt, inbox, gateway, webhookLog, crashes>>

\* PaymentReceiptView: the receipt of a CONFIRMED payment, issued lazily.
OpenReceipt(q, pk) ==
  /\ job[q].phase = "idle"
  /\ payment[pk].status = "CONFIRMED"
  /\ Move(q, Fetched(pk, "receipt", "view"))
  /\ UNCHANGED <<rows, gateway, webhookLog, crashes>>

\* issue_receipt: get_or_create, refused by the foreign key of a deleted row.
IssueReceipt(q) ==
  LET pk == job[q].pk IN
  /\ job[q].phase = "receipt"
  /\ receipt' = IF Live(pk) THEN receipt \cup {pk} ELSE receipt
  /\ Move(q, IF Live(pk) THEN [job[q] EXCEPT !.phase = "dedup",
                                             !.kind = "receipt"]
                         ELSE NoJob)
  /\ UNCHANGED <<payment, inbox, gateway, webhookLog, crashes>>

\* _notify_payment reads which recipients already have the notice ...
ReadSent(q) ==
  /\ job[q].phase = "dedup"
  /\ Move(q, [job[q] EXCEPT !.phase = "send",
                !.todo = {p \in Recipients(job[q].student) :
                            inbox[<<job[q].pk, job[q].kind, p>>] = 0}])
  /\ UNCHANGED <<rows, gateway, webhookLog, crashes>>

\* ... and then inserts a row for each of the others.
SendNotice(q, p) ==
  /\ job[q].phase = "send"
  /\ p \in job[q].todo
  /\ inbox' = Posted({<<job[q].pk, job[q].kind, p>>})
  /\ Move(q, [job[q] EXCEPT !.todo = @ \ {p}])
  /\ UNCHANGED <<payment, receipt, gateway, webhookLog, crashes>>

\* Mutant: a verify request posts the receipt's notice only.
NoticesSentEarly(q) ==
  /\ job[q].phase = "send"
  /\ job[q].todo = {}
  /\ Move(q, NoJob)
  /\ UNCHANGED <<rows, gateway, webhookLog, crashes>>

\* After the receipt's notice a verify request posts the confirmation's.
NoticesSent(q) ==
  /\ job[q].phase = "send"
  /\ job[q].todo = {}
  /\ Move(q, IF job[q].route = "verify" /\ job[q].kind = "receipt"
             THEN [job[q] EXCEPT !.phase = "dedup", !.kind = "payment-confirm"]
             ELSE NoJob)
  /\ UNCHANGED <<rows, gateway, webhookLog, crashes>>

\* The worker dies or times out; what it committed stays.
Crash(q) ==
  /\ job[q].phase # "idle"
  /\ crashes < MaxCrashes
  /\ crashes' = crashes + 1
  /\ Move(q, NoJob)
  /\ UNCHANGED <<rows, gateway, webhookLog>>

ServeRequest(q) ==
  \/ \E pk \in Pk : \/ OpenReuse(q, pk) \/ ReturnPoll(q, pk)
                    \/ Callback(q, pk) \/ OpenReceipt(q, pk)
  \/ ClaimVerify(q) \/ AskPaid(q) \/ AskInconclusive(q)
  \/ SaveCheck(q) \/ SaveWrite(q) \/ IssueReceipt(q)
  \/ ReadSent(q) \/ NoticesSent(q) \/ Crash(q)
  \/ \E p \in Person : SendNotice(q, p)
  \/ \E reached \in BOOLEAN : Reinitiate(q, reached)

-----------------------------------------------------------------------------
Next ==
  \/ \E pk \in Pk, ref \in Ref, amount \in Amount :
     \E student, reached \in BOOLEAN :
       Initiate(pk, ref, amount, student, reached)
  \/ \E ref \in Ref : Decline(ref) \/ \E amount \in Amount : Charge(ref, amount)
  \/ \E e \in sent : HandleWebhook(e)
  \/ \E q \in Request : ServeRequest(q)

Spec == Init /\ [][Next]_vars

\* Paystack repeats an event until it is answered with 200: every event it
\* holds is delivered.  Payers and their browsers promise nothing.
Fairness == \A e \in Event : WF_vars(HandleWebhook(e))

FairSpec == Spec /\ Fairness

-----------------------------------------------------------------------------
(* Properties *)

Confirmed(pk) == payment[pk].status = "CONFIRMED"

\* A reference belongs to one row, whichever path stored it: the webhook-first
\* fallback never duplicates a row that the payer's request created.
OneRowPerReference ==
  \A r \in Ref : \A pk1, pk2 \in Holder(r) : pk1 = pk2

\* No path credits money Paystack did not take, or another amount: the tamper
\* checks of the webhook and of the verify path agree, even when one of them
\* decides on a copy of the row the other has meanwhile changed.
CreditBacked ==
  \A pk \in Pk : Confirmed(pk) =>
    payment[pk].ref \in Ref /\ payment[pk].amount = charged[payment[pk].ref]

\* A receipt vouches for a payment that counts: issue_receipt runs after the
\* status was committed, and nothing un-confirms the row afterwards.
ReceiptOnlyForConfirmed == \A pk \in receipt : Confirmed(pk)

\* A confirmed payment without a receipt is one whose verify request is still
\* between its UPDATE and issue_receipt, unless a request died there.
ReceiptPromised ==
  crashes = 0 =>
    \A pk \in Pk : Confirmed(pk) =>
      \/ pk \in receipt
      \/ \E q \in Request : job[q].phase = "receipt" /\ job[q].pk = pk

\* A verify request that is still going to post the confirmation of pk to p.
Telling(q, pk, p) ==
  /\ job[q].pk = pk /\ job[q].route = "verify"
  /\ \/ job[q].phase \in {"receipt", "dedup"}
     \/ job[q].phase = "send" /\ (job[q].kind = "receipt" \/ p \in job[q].todo)

\* Everyone concerned by a confirmed payment was told, or is being told, unless
\* a request died.  Only payments that know their student concern anyone.
EveryoneTold ==
  crashes = 0 =>
    \A pk \in Pk, p \in Person :
      Confirmed(pk) /\ payment[pk].student =>
        \/ inbox[<<pk, "payment-confirm", p>>] > 0
        \/ \E q \in Request : Telling(q, pk, p)

\* A success that the log calls processed was credited, unless the amounts
\* differ: whatever polls, callbacks and late failures did before and after.
SuccessLoggedIsCredited ==
  \A l \in webhookLog :
    l.processed /\ l.event.type = "charge.success" =>
      \A pk \in Holder(l.event.ref) :
        Confirmed(pk) <=> payment[pk].amount = l.event.amount

\* Money credited is never withdrawn, and the credited amount never changes.
CreditIsFinal ==
  [][\A pk \in Pk : Confirmed(pk) =>
       /\ payment'[pk].status = "CONFIRMED"
       /\ payment'[pk].amount = payment[pk].amount]_vars

\* Why credit is backed and final.  A stored row never changes its amount or
\* reference here, so the copy a request took stays right, and what it decided
\* about the charge is what the webhook decides: a request about to write FAILED
\* holds a row that no path can have confirmed.
RowSound ==
  \A pk \in Pk :
    /\ Live(pk) => payment[pk].amount \in Amount /\ payment[pk].ref \in Ref
    /\ Confirmed(pk) => payment[pk].processed

EventTrue ==
  \A e \in sent : e.type = "charge.success" =>
    charged[e.ref] # 0 /\ e.amount = charged[e.ref]

JobSound(q) ==
  LET pk == job[q].pk IN
  job[q].phase # "idle" =>
    /\ Live(pk)
    /\ job[q].ref = payment[pk].ref /\ job[q].amount = payment[pk].amount
    /\ job[q].student => payment[pk].student
    /\ job[q].phase \in {"check", "write"} =>
         /\ charged[job[q].ref] # 0
         /\ job[q].target = "CONFIRMED" <=> charged[job[q].ref] = job[q].amount
    /\ job[q].phase \in {"receipt", "dedup", "send"} => Confirmed(pk)

CreditInv ==
  /\ TypeOK
  /\ OneRowPerReference
  /\ CreditBacked
  /\ RowSound
  /\ EventTrue
  /\ \A q \in Request : JobSound(q)
  /\ ReceiptOnlyForConfirmed

\* Why the log is right: it holds events that were sent, and the row that settled
\* a success stays.
LoggedSettled ==
  \A l \in webhookLog :
    l.processed /\ l.event.type = "charge.success" =>
      /\ l.event \in sent
      /\ \E pk \in Holder(l.event.ref) :
           payment[pk].amount = l.event.amount => Confirmed(pk)

\* Why everyone is told: who writes a row is a verify request, and one that does not
\* know the student of its row looks at one that a webhook has confirmed, with the
\* notices, since it was read.
TellingSound ==
  \A q \in Request :
    /\ job[q].phase \in {"claim", "ask", "check", "write"} => job[q].route = "verify"
    /\ job[q].phase # "idle" /\ payment[job[q].pk].student /\ ~ job[q].student =>
         \A p \in Person : inbox[<<job[q].pk, "payment-confirm", p>>] > 0

\* The credit of a reference, as the ledger sees it.
CreditOf ==
  [r \in Ref |->
    IF \E pk \in Holder(r) : Confirmed(pk)
    THEN payment[CHOOSE pk \in Holder(r) : Confirmed(pk)].amount
    ELSE 0]

Ledger == INSTANCE CreditLedger WITH credit <- CreditOf

\* Payments implements the ledger.
ImplementsLedger == Ledger!Spec

\* Money taken does not stay PENDING: the webhook settles the row in the end.
ChargeSettles ==
  \A r \in Ref :
    charged[r] # 0 ~> \A pk \in Holder(r) : payment[pk].status \in Settled

=============================================================================
