---------------------------- MODULE PaymentDesk ----------------------------
(***************************************************************************)
(* The school office beside the online payments: bank transfers submitted  *)
(* at checkout, and the administrator's views of                           *)
(* school_admin/views/invoices.py that confirm, reject, edit, delete and   *)
(* record payments.  None of them locks the row; each decides on the copy  *)
(* it read.  Payments' own steps go on unchanged.                          *)
(***************************************************************************)
EXTENDS Payments

CONSTANTS
  Admin,     \* administrators' requests that can be in flight together
  MaxActs    \* bound on the office's operations

ASSUME DeskAssumption == MaxActs \in Nat

VARIABLES
  desk,      \* what each administrator's request is doing
  acts       \* how many operations the office has begun

deskVars == <<payment, receipt, inbox, webhookLog, session, charged, sent,
              job, crashes, desk, acts>>

\* The outside world of an office step: everything but rows and desk.
online == <<gateway, webhookLog, work>>

Begin == acts < MaxActs /\ acts' = acts + 1

DeskJob == [phase : {"idle", "check", "write", "receipt", "dedup", "send"},
            act : {"confirm", "reject", "edit", "record"},
            pk : Pk \cup {NULL}, was : Stored, student : BOOLEAN,
            kind : {"receipt", "transfer-reject", "payment-record"},
            todo : SUBSET Account]

NoDeskJob == [phase |-> "idle", act |-> "edit", pk |-> NULL,
              was |-> "PENDING", student |-> FALSE,
              kind |-> "transfer-reject", todo |-> {}]

DeskTypeOK ==
  /\ TypeOK
  /\ desk \in [Admin -> DeskJob]
  /\ acts \in 0 .. MaxActs
  /\ \A a \in Admin : desk[a].phase # "idle" => desk[a].pk \in Pk

DeskInit ==
  /\ Init
  /\ desk = [a \in Admin |-> NoDeskJob]
  /\ acts = 0

DeskMove(a, next) == desk' = [desk EXCEPT ![a] = next]

-----------------------------------------------------------------------------
(* New rows that do not come from Paystack *)

\* CheckoutSubmitView, bank transfer: a PENDING row without a reference; once it
\* is committed every administrator is told, unless the request dies first.
SubmitTransfer(pk, amount, told) ==
  /\ payment[pk].status = "ABSENT"
  /\ payment' = [payment EXCEPT ![pk] =
       [NoRow EXCEPT !.status = "PENDING", !.amount = amount,
                     !.method = "OTHER", !.student = TRUE]]
  /\ inbox' = IF told THEN Posted(Notices(pk, {"transfer-pending"}, Staff))
              ELSE inbox
  /\ UNCHANGED <<receipt, online, desk, acts>>

\* A typed reference must be free: the unique constraint on (school, reference).
Free(ref) == ref = NULL \/ Holder(ref) = {}

\* InvoiceDetailView.post: CONFIRMED at once, without student, receipt or
\* notice.  Generated ADM- references never meet Paystack's: they are NULL here.
RecordAtInvoice(pk, amount, method, ref) ==
  /\ Begin
  /\ payment[pk].status = "ABSENT"
  /\ method = "PAYSTACK" => ref # NULL
  /\ Free(ref)
  /\ payment' = [payment EXCEPT ![pk] =
       [NoRow EXCEPT !.status = "CONFIRMED", !.amount = amount, !.ref = ref,
                     !.method = method, !.byAdmin = TRUE]]
  /\ UNCHANGED <<receipt, inbox, online, desk>>

\* StudentRecordPaymentView.post: the row commits; receipt and notices follow.
RecordForStudent(a, pk, amount, method, ref) ==
  /\ Begin
  /\ desk[a].phase = "idle"
  /\ payment[pk].status = "ABSENT"
  /\ Free(ref)
  /\ payment' = [payment EXCEPT ![pk] =
       [NoRow EXCEPT !.status = "CONFIRMED", !.amount = amount, !.ref = ref,
                     !.method = method, !.student = TRUE, !.byAdmin = TRUE]]
  /\ DeskMove(a, [NoDeskJob EXCEPT !.phase = "receipt", !.act = "record",
                    !.pk = pk, !.student = TRUE])
  /\ UNCHANGED <<receipt, inbox, online>>

\* issue_receipt: a row deleted meanwhile breaks the request; the notices of
\* the receipt and of the payment come after.
RecordReceipt(a) ==
  LET pk == desk[a].pk IN
  /\ desk[a].phase = "receipt"
  /\ receipt' = IF Live(pk) THEN receipt \cup {pk} ELSE receipt
  /\ DeskMove(a, IF Live(pk) THEN [desk[a] EXCEPT !.phase = "dedup",
                                                  !.kind = "receipt"]
                             ELSE NoDeskJob)
  /\ UNCHANGED <<payment, inbox, online, acts>>

-----------------------------------------------------------------------------
(* Decisions on an existing row *)

Opened(pk, act) ==
  [NoDeskJob EXCEPT !.phase = "check", !.act = act, !.pk = pk,
                    !.was = payment[pk].status,
                    !.student = payment[pk].student]

\* PendingTransferConfirmView and PendingTransferRejectView look at the status
\* of the copy they fetched, and at nothing else.
OpenPending(a, pk, act) ==
  /\ Begin
  /\ desk[a].phase = "idle"
  /\ payment[pk].status = "PENDING"
  /\ act \in {"confirm", "reject"}
  /\ DeskMove(a, Opened(pk, act))
  /\ UNCHANGED <<rows, online>>

\* PaymentEditView takes any row.
OpenEdit(a, pk) ==
  /\ Begin
  /\ desk[a].phase = "idle"
  /\ Live(pk)
  /\ DeskMove(a, Opened(pk, "edit"))
  /\ UNCHANGED <<rows, online>>

\* The status Payment.save() is about to see written.
Intended(a) ==
  CASE desk[a].act = "confirm" -> "CONFIRMED"
    [] desk[a].act = "reject" -> "FAILED"
    [] OTHER -> desk[a].was

\* Payment.save(): the read half, on which a stale status is refused.
DeskCheck(a) ==
  /\ desk[a].phase = "check"
  /\ DeskMove(a, IF LegalSave(payment[desk[a].pk].status, Intended(a))
                 THEN [desk[a] EXCEPT !.phase = "write"] ELSE NoDeskJob)
  /\ UNCHANGED <<rows, online, acts>>

\* The write half finds no row when it was deleted: DatabaseError.
WriteLost(a) ==
  /\ desk[a].phase = "write"
  /\ ~ Live(desk[a].pk)
  /\ DeskMove(a, NoDeskJob)
  /\ UNCHANGED <<rows, online, acts>>

\* Mutant: a confirmation without issue_receipt().
ConfirmWriteNoReceipt(a) ==
  /\ desk[a].phase = "write" /\ desk[a].act = "confirm"
  /\ Live(desk[a].pk)
  /\ payment' = [payment EXCEPT ![desk[a].pk].status = "CONFIRMED"]
  /\ inbox' = Posted(Notices(desk[a].pk, {"transfer-confirm"}, Person))
  /\ DeskMove(a, NoDeskJob)
  /\ UNCHANGED <<receipt, online, acts>>

\* Confirmation, receipt and notices are one transaction: the UPDATE holds the
\* row's lock until all of them are committed.
ConfirmWrite(a) ==
  LET pk == desk[a].pk IN
  /\ desk[a].phase = "write" /\ desk[a].act = "confirm"
  /\ Live(pk)
  /\ payment' = [payment EXCEPT ![pk] =
       [payment[pk] EXCEPT !.status = "CONFIRMED", !.processed = TRUE,
                           !.byAdmin = TRUE]]
  /\ receipt' = receipt \cup {pk}
  /\ inbox' = Posted(Unsent(Notices(pk, {"receipt", "transfer-confirm"},
                                    Recipients(desk[a].student))))
  /\ DeskMove(a, NoDeskJob)
  /\ UNCHANGED <<online, acts>>

\* Rejection commits on its own; its notices come after.
RejectWrite(a) ==
  LET pk == desk[a].pk IN
  /\ desk[a].phase = "write" /\ desk[a].act = "reject"
  /\ Live(pk)
  /\ payment' = [payment EXCEPT ![pk].status = "FAILED"]
  /\ DeskMove(a, [desk[a] EXCEPT !.phase = "dedup"])
  /\ UNCHANGED <<receipt, inbox, online, acts>>

\* Mutant: save() without update_fields writes the stale status back.
EditWriteAll(a, amount, method, ref) ==
  LET pk == desk[a].pk IN
  /\ desk[a].phase = "write" /\ desk[a].act = "edit"
  /\ Live(pk)
  /\ ref = payment[pk].ref \/ Free(ref)
  /\ payment' = [payment EXCEPT ![pk] =
       [payment[pk] EXCEPT !.amount = amount, !.method = method, !.ref = ref,
                           !.status = desk[a].was]]
  /\ DeskMove(a, NoDeskJob)
  /\ UNCHANGED <<receipt, inbox, online, acts>>

\* Amount, method and reference are overwritten; status and receipt are not.
EditWrite(a, amount, method, ref) ==
  LET pk == desk[a].pk IN
  /\ desk[a].phase = "write" /\ desk[a].act = "edit"
  /\ Live(pk)
  /\ ref = payment[pk].ref \/ Free(ref)
  /\ payment' = [payment EXCEPT ![pk] =
       [payment[pk] EXCEPT !.amount = amount, !.method = method, !.ref = ref]]
  /\ DeskMove(a, NoDeskJob)
  /\ UNCHANGED <<receipt, inbox, online, acts>>

\* Mutant: the receipt survives its payment.
DeleteKeepsReceipt(pk) ==
  /\ Begin
  /\ Live(pk)
  /\ payment' = [payment EXCEPT ![pk].status = "DELETED"]
  /\ UNCHANGED <<receipt, inbox, online, desk>>

\* PaymentDeleteView: the receipt goes with the row, whatever its status.
DeletePayment(pk) ==
  /\ Begin
  /\ Live(pk)
  /\ payment' = [payment EXCEPT ![pk].status = "DELETED"]
  /\ receipt' = receipt \ {pk}
  /\ UNCHANGED <<inbox, online, desk>>

-----------------------------------------------------------------------------
(* notify_many, outside any transaction: it reads, then inserts one by one *)

DeskReadSent(a) ==
  /\ desk[a].phase = "dedup"
  /\ DeskMove(a, [desk[a] EXCEPT !.phase = "send",
                    !.todo = {p \in Recipients(desk[a].student) :
                                inbox[<<desk[a].pk, desk[a].kind, p>>] = 0}])
  /\ UNCHANGED <<rows, online, acts>>

DeskSend(a, p) ==
  /\ desk[a].phase = "send"
  /\ p \in desk[a].todo
  /\ inbox' = Posted({<<desk[a].pk, desk[a].kind, p>>})
  /\ DeskMove(a, [desk[a] EXCEPT !.todo = @ \ {p}])
  /\ UNCHANGED <<payment, receipt, online, acts>>

DeskDone(a) ==
  /\ desk[a].phase = "send"
  /\ desk[a].todo = {}
  /\ DeskMove(a, IF desk[a].kind = "receipt"
                 THEN [desk[a] EXCEPT !.phase = "dedup",
                                      !.kind = "payment-record"]
                 ELSE NoDeskJob)
  /\ UNCHANGED <<rows, online, acts>>

\* The office's worker dies, which counts as an operation; what it committed
\* stays.
DeskCrash(a) ==
  /\ Begin
  /\ desk[a].phase # "idle"
  /\ DeskMove(a, NoDeskJob)
  /\ UNCHANGED <<rows, online>>

-----------------------------------------------------------------------------
ServeAdmin(a) ==
  \/ \E pk \in Pk, amount \in Amount, method \in Method :
     \E ref \in Ref \cup {NULL} :
       RecordForStudent(a, pk, amount, method, ref)
  \/ RecordReceipt(a)
  \/ \E pk \in Pk : OpenEdit(a, pk) \/ \E act \in {"confirm", "reject"} :
                                          OpenPending(a, pk, act)
  \/ DeskCheck(a) \/ WriteLost(a) \/ ConfirmWrite(a) \/ RejectWrite(a)
  \/ \E amount \in Amount, method \in Method, ref \in Ref \cup {NULL} :
       EditWrite(a, amount, method, ref)
  \/ DeskReadSent(a) \/ DeskDone(a) \/ DeskCrash(a)
  \/ \E p \in Person : DeskSend(a, p)

DeskNext ==
  \/ Next /\ UNCHANGED <<desk, acts>>
  \/ \E pk \in Pk : DeletePayment(pk)
  \/ \E pk \in Pk, amount \in Amount, told \in BOOLEAN :
       SubmitTransfer(pk, amount, told)
  \/ \E pk \in Pk, amount \in Amount, method \in Method :
     \E ref \in Ref \cup {NULL} :
       RecordAtInvoice(pk, amount, method, ref)
  \/ \E a \in Admin : ServeAdmin(a)

DeskSpec == DeskInit /\ [][DeskNext]_deskVars

-----------------------------------------------------------------------------
(* Properties *)

\* A receipt never belongs to a deleted or an undecided payment, whatever the
\* office and the online paths do to the row while it is being issued.
ReceiptOfSettledRow == \A pk \in receipt : payment[pk].status \in Settled

\* A family that was told its transfer is confirmed can open a receipt, unless
\* the payment was deleted: the notice and the receipt commit together.
ConfirmedTransferHasReceipt ==
  \A pk \in Pk, p \in Person :
    Live(pk) /\ inbox[<<pk, "transfer-confirm", p>>] > 0 => pk \in receipt

\* Only an administrator, or money Paystack took on the row's reference, makes a
\* payment count.  When the office edits the reference under a verify request,
\* it is the reference that request read.
CreditHasOrigin ==
  [][\A pk \in Pk : ~ Confirmed(pk) /\ Confirmed(pk)' =>
       \/ payment'[pk].byAdmin
       \/ \E r \in Ref :
            /\ charged[r] # 0
            /\ \/ payment'[pk].ref = r
               \/ \E q \in Request : job[q].pk = pk /\ job[q].ref = r]_deskVars

\* No payment becomes pending again, and a deleted one never returns.
NeverReopened ==
  [][\A pk \in Pk :
       /\ payment[pk].status \in Settled => payment'[pk].status # "PENDING"
       /\ payment[pk].status = "DELETED" => payment'[pk].status = "DELETED"
    ]_deskVars

\* Why receipts and notices are right: a decided row is decided for good, so the row
\* a request fetched once it was confirmed may have been deleted, and nothing else.
Decided(pk) == payment[pk].status \in Settled \cup {"DELETED"}

ReceiptInv ==
  /\ DeskTypeOK
  /\ ReceiptOfSettledRow
  /\ \A q \in Request : job[q].phase = "receipt" => Decided(job[q].pk)
  /\ \A a \in Admin : desk[a].phase = "receipt" => Decided(desk[a].pk)

TransferInv ==
  \A pk \in Pk, p \in Person :
    inbox[<<pk, "transfer-confirm", p>>] > 0 =>
      pk \in receipt \/ payment[pk].status = "DELETED"

\* Why credit has an origin: a success is sent, and a verify request decides, only
\* after the charge, on a reference that a row had.
OriginInv ==
  /\ DeskTypeOK
  /\ \A e \in sent : e.type = "charge.success" => charged[e.ref] # 0
  /\ \A q \in Request :
       /\ job[q].phase \in {"claim", "ask", "check", "write"} => job[q].ref \in Ref
       /\ job[q].phase \in {"check", "write"} => charged[job[q].ref] # 0

=============================================================================
