# Verification of bust-base

bust-base is a Django system with which schools bill families, take payments
(Paystack, bank transfer, cash at the office), record and publish results, run
holiday lessons, import their registers, keep an inventory and pay their staff. This directory holds TLA+ models of its core,
the TLC configurations that check them, and TLAPS proofs.

Everything here is translated from the code. Two facts about how it runs decide
the grain of the models:

* The settings have no `ATOMIC_REQUESTS`. Every ORM statement of a view commits on its
  own, unless the code opens `transaction.atomic()`. Between two statements any
  other request, webhook or administrator may act, and the worker may die.
* PostgreSQL runs at READ COMMITTED. A transaction that has locked or updated a
  row makes other writers of that row wait, and what they read before is stale.

So a view is a sequence of actions, one per statement, with what it has read
kept in a record; a transaction that locks its row first is one action.

## Inventory

| Component | State | Operations | What is hard | What makes it correct |
|---|---|---|---|---|
| Online payments (`fees/paystack.py`, payment views) | Payment, FeeReceipt, WebhookLog, NotificationLog | initiate, webhook success/failure, poll, callback, receipt page | repeated and reordered events, verify against webhook, death between statements | only money taken is credited, once, in full, for good; receipts and notices follow |
| Payment desk (`school_admin/views/invoices.py`) | the same rows | confirm, reject, edit, delete, record | two administrators on stale copies, against online paths | receipts belong to settled rows; credit has an origin |
| Checkout and invoices (`fees/checkout.py`, `generation.py`, `reset.py`) | Invoice, InvoiceLineItem, PaymentLineItem | reconcile a cart, generate, re-price, reset | lost updates on `total_amount`, check-then-create, allocation arithmetic | totals equal lines, nothing billed twice, payments within the balance |
| Fee pricing (`fees/pricing.py`, `school_admin/views/fee_pricing.py`) | FeePrice, FeeCategory | resolve a price; create with a sibling, edit, copy to a term, promote, delete, each with the billing it starts | scopes, student types, inheritance between terms; checks before inserts the unique index cannot back; long requests | one price in a place, what the form answers is true, one-time fees once, no silent gap |
| Scores and results (`academics/`, `school_admin/views/results.py`) | Score, TermResult, `Term.results_published` | enter, approve, reject, rank, summarise, publish | edits against verdicts, recomputations of many statements, stale forms | approved marks were approved; ranks and term results follow the approved scores; readers are told once |
| Inventory (`inventory/`) | InventoryItem, InventoryTransaction | create, procure, remove, edit, deactivate; the admin site's item form | checks on unlocked reads, whole-object saves of stale copies | the log accounts for the stock, stock never negative |
| Payroll (`payroll/`, `school_admin/views/payroll.py`) | PayrollRun, Payslip with lines, SalaryDisbursement | generate, record, bulk disbursement, edits of the pay policy | generation in many statements, stale balances, repeated bulk disbursements | payslips add up; what a repeated disbursement skips is settled; nothing is overpaid by the system itself |
| Sessions and terms (`core/models.py`, `school_admin/views/sessions.py`) | current flags, `results_published` | create, set current, publish | the flag is taken in one statement and given in another | one current term, of the current session |
| Students and classes (`students/`, `school_admin/views/students.py`, `classes.py`) | Student, ClassEnrollment | place, move, promote, withdraw, delete | the promotion's two statements per student; constraints that refuse half-way | whoever was in a class has one current class |
| Accounts and credentials (`accounts/`, `school_admin/views/staff.py`, `credentials.py`) | User, slips in the session, guardian links | create, reset one or many, edit, toggle, forced change, link a guardian | whole accounts saved from stale copies; slips written when the request ends | a slip opens its account, a generated password must be changed, one guardian is called first |
| Holiday lessons (`lessons/`) | LessonPeriod, LessonClass, LessonEnrollment, payments | open, close, register, edit, cancel, pay, register as a student, import a sheet | copies saved whole, sums compared with a fee read before | paid in full is PAID, money that comes after a cancellation leaves it, one student of each participant, the import may be repeated |
| Data import (`data_import/`) | the register's tables, ImportLog, the file in the session | preview, confirm, command | rows one by one, a row that fails ends the request | a logged import stored every row it did not report, but for namesakes; preview and confirmation agree; one account of a guardian |
| Notifications (`notifications/`) | NotificationLog | notify, bell read, dismiss | read-then-insert | everyone is told |
| Tenant resolution, audit, finance reports | records | one statement each, or read-only | | not modelled |

Components interact through shared tables only: checkout stores Payment rows and
hands a reference to Paystack; the webhook and the verify path settle those rows
and thereby change every invoice's balance, which is computed, never stored; the
office writes the same rows; all of them write notices.

## Modules

* `CreditLedger`: what the payment code promises a family. Money taken on a
  reference is credited at most once, in full, after it was taken, for good.
* `Payments`: the online paths in detail. `payment`, `receipt`, `inbox` and
  `webhookLog` are the four tables (`inbox` counts the rows of a notice); `session`,
  `charged` and `sent` are Paystack's side, modelled from how `fees/paystack.py` uses
  it; `job` holds what each web request has read and where it stands.
* `PaymentDesk` extends `Payments` with the office's views, each again as
  read / check / write steps. `DeskNext` contains every step of `Payments`.
* `PaymentsProofs`: the theorems on `Payments` and `PaymentDesk`, and the refinement of
  `CreditLedger`.
* `Billing`: one student's invoices for the current and the next term under
  checkouts, the generator, re-pricing and payments. Stands beside `Payments`:
  what that module does to a row in many steps is here the one action `Settle`.
* `BillingProofs`: the shares of a payment over two invoices whose balances move, totals
  against lines, nothing billed twice, re-pricing, no circle of locks.
* `Results`: the scores of a class in a term, from a teacher's edit over moderation
  and ranking to publication. Shares no table with the modules above.
* `ResultsProofs`: approved marks are vetted, readers are told, undisturbed recomputations
  end right.
* `Inventory`: the stock of items and the log of its movements. Shares no table with
  the modules above: no code creates a BookPurchase or calls its hooks.
* `Payroll`: payroll runs, payslips and the disbursements that pay them.
* `PayrollProofs`: payslips add up, nobody is overpaid, a bulk disbursement settles, what a
  repeated one skips is settled.
* `Pricing`: the price list, the resolver and the requests that write prices and bill on
  them. Billing a class, or a student of a whole term, is one step here; the statements
  inside it are `Billing`'s.
* `PricingProofs`: one-time fees once, no two prices in one place, a true answer, no silent gap.
* `Enrolment`: the calendar and where each student is in it.
* `OfficeProofs`: the theorems on `Enrolment` and `Inventory`.
* `Accounts`: passwords, slips and guardians.
* `Imports`: the import of files into the register, which makes accounts too.
* `AccountsProofs`: the theorems on `Accounts` and `Imports`.
* `Lessons`, `LessonsProofs`: holiday lessons; whoever has paid gets PAID and becomes a
  student once, money does not undo an earlier cancellation, an import may be repeated.
* `MC...`: the modules TLC runs, with symmetry sets and small instances: the carts of
  the checkout, the classes to start from, a price list, a sheet, six files.

How `Payments` corresponds to the code:

| Code | Actions |
|---|---|
| `make_payment`, `InitiatePaymentView`, `CheckoutSubmitView`, `initiate_payment` | `Initiate` (new row, then the call that may fail), `OpenReuse` and `Reinitiate` (a PENDING row is read, and later given the amount and the student read) |
| `handle_webhook` with its handlers, one transaction that locks the row | `SuccessSkip`, `SuccessMismatch`, `SuccessConfirm`, `SuccessCreate`, `SuccessUnresolved` (400 and 404), `SuccessRefused`, `FailureRecorded`, `FailureIgnored` |
| `PaymentStatusPartialView` | `ReturnPoll`, `ClaimVerify` |
| `VerifyPaymentView` | `Callback` |
| `verify_transaction` and `confirm_payment_from_verify` | `AskPaid`, `AskInconclusive`, `SaveCheck`, `SaveWrite`, `IssueReceipt`, `ReadSent`, `SendNotice`, `NoticesSent` |
| `Payment.save` | `SaveCheck` (reads the previous status), then the write |
| `PaymentReceiptView` | `OpenReceipt`, then `IssueReceipt` and the notices |
| a worker that dies | `Crash` |

Abstractions: an amount is a number from a small set; the Paystack field map,
texts, URLs and dates are left out; methods other than Paystack are one; one
school; payer and guardians are a fixed set of accounts, each of which gets its
own notice. `SuccessConfirm` assumes the metadata names the student, as
`initiate_payment` always sends it. The 30-minute window and the 5-second maturity
only restrict when an action is offered, so the model offers it always.

How `Billing` corresponds to the code:

| Code | Actions |
|---|---|
| `CheckoutSubmitView`, `reconcile_checkout` | `SubmitCheckout` (prices), then per invoice `OpenInvoice` (`get_or_create`, total copied), `CheckItem` for each item (`already_billed`, then its line), `ItemsChecked`, `WriteTotal`; `SumBalance` for each invoice, `RefuseAmount` or the shares, each from a balance asked for anew: `PayOneInvoice`, or `TakeShare`, `TrimShare`, `CutShare`; `CommitCheckout`; `PayShares` or `PayNothing` |
| `generate_invoice_for_student` | `Generate`, `CheckExists`, `CreateInvoice`, `CreateLine`, `LinesCreated` |
| fee price views, `sync_class_invoices` | `SavePrice`, then the generator's steps, `SelectUnpaid`, `ClearLines`, `CreateLine`, `SaveTotal` |
| `InitiatePaymentView`, `InvoiceDetailView`, module `Payments` | `InitiatePayment`, `RecordCash`, `Settle` |
| `PaymentDeleteView` | `DeletePayment` |

A checkout is one transaction. What it writes stays in its `job` record (`seen`,
`fresh`, `made`) until `CommitCheckout`; `held` are the invoice rows it has updated and
so locked, `made` the invoices it has inserted, for which another insert waits (`WaitsFor`).
`seen` is the total it copied, which is why a commit can overwrite another's. `due` is
what it was last told that an invoice owes, `steady` (history) whether two readings of one
balance ever differed: no lock is taken on payments, so they may.
`lines` keeps, for a category, how many line items there are and their sum.
Left out, because `Pricing` has it: which categories and prices apply to a student (all
of `Category` here), the bundle of another term, the loops over a class.

`tangled` is a history variable: the terms on which two billing requests have
overlapped. The code keeps totals and lines together for requests that come one
after the other; for those that overlap it does not, and `double_billing` shows it.

How `Results` corresponds to the code:

| Code | Actions |
|---|---|
| `TeacherScoreUpdateView` | `EnterMark` (the fetch), `SaveMark`, `ResetStatus` |
| `ResultReviewView` | `JudgeOne`, `JudgePending` for its three kinds of batch, each followed by the recomputation |
| `_recompute` | `Passes`: how often each subject is ranked; then the summary |
| `compute_positions`, `_assign_dense_ranks` | `ClearPositions`, `ReadScores`, `SavePosition`; `Sorted`, `AssignRanks` |
| `compute_term_summary` | `SumScores`, `WriteResult`, `DropResults`; `WithPlaces` |
| `compute_rankings` | `Backfill` |
| the actions of the admin lists, on a selection | `RankSelected`, `SumSelected`, `PublishSelected` |
| `ScoreAdmin` | `SubmitScore`, `SaveScore`: mark, approval and position of a whole row |
| `TermResultAdmin` | `OpenForm`, `SaveForm` |
| `PublishResultsView`, `notify_results_published` | `Publish`, `Unpublish`, `ReadTold`, `Tell` |

Nothing here opens a transaction, so every statement is an action. A score is its
total, or `NoMark` when a component is missing; the average, which the total and the
number of subjects determine, grades and layout are left out. `PlaceInSubject` and
`ResultOf` are the reference definitions the computed ranks and results are compared
with: a place is one more than the number of those who did better. `_recompute` asks
for distinct subjects of scores that are ordered by student, which yields a
subject once per student; `Passes` keeps that. `job.alone` says whether a request has
met another one; `vetted` and `tainted` are history variables for `ApprovedIsVetted`:
`vetted` is the mark a score was last approved with, by a verdict or by the score form of
the admin site. That form asks for no verdict and resets nothing: a mark it writes
beside APPROVED, typed or as the form was opened with, counts as approved by it.
`Init` takes a class whose grids are filled and whose positions and results agree
with its scores, as they do after moderation one score at a time.

How `Inventory` corresponds to the code:

| Code | Actions |
|---|---|
| `AdminItemCreateView`, `AdminProcurementCreateView` with `add_procurement` | `CreateItem`, `Procure`: one transaction that holds the item's row from its `F()` update on |
| `AdminStockRemovalView` | `OpenRemoval` (the check, unlocked), then `TakeStock`, or `TakeRefused` when the column's check refuses a negative stock and the transaction is undone |
| `AdminItemEditView`, `AdminItemDeleteView` | `OpenEdit`, `SaveEdit` (whose `update_fields` leave stock and flag alone), `Deactivate` |
| `InventoryItemAdmin` | `AddByForm`, `OpenForm`, `SaveForm`: every column, as shown or as typed |

`edited` is a history variable: the items whose stock a form of the admin site has
changed. The user guide says that stock is never edited directly and that every
change is logged; for these items it is not so, even when the form's stock field
was left as shown, and `LedgerRight` is about the others.

How `Payroll` corresponds to the code:

| Code | Actions |
|---|---|
| `GeneratePayrollView`, `PayrollRunAdmin.generate_payroll_run` | `GenerateForAll`, `GenerateForSome` |
| `generate_payroll_run` | `CreateRun`, `ReadStaff`, then for each member of staff the actions of `generate_payslip` |
| `generate_payslip` | `ReadBase`, `ReadAllowances`, `ReadDeductions`, `CreatePayslip`, `CreateLine` for each line |
| `RecordDisbursementView` | `Record` |
| `PayslipAdmin.record_disbursement` | `SelectSlips`, then for each payslip `ReadBalance` and `PayBalance` (`get_or_create` by reference) |
| `SalaryDisbursementAdmin` and the admin of grades, definitions and profiles | `EditDisbursement`; `SetSalary`, `SetDefinition`, `SetServing` |

A payslip keeps the sums of its lines. A bulk disbursement writes the typed reference
followed by the payslip's key, so references are pairs here; a reference typed for a
single disbursement may be equal to such a pair. `EditDisbursement` writes everything the
admin form offers: payslip, reference, amount and status, PENDING too. `get_or_create` of
the payslip always creates, since each generation makes a run of its own. `cut`, `loose`,
`hand` (references that were typed or whose row was edited) and `job.before` are history.

How `Pricing` corresponds to the code:

| Code | Operators and actions |
|---|---|
| `_resolve_from_feeprice`, `_primary_sort_key`, `_is_applicable` | `Resolve` (the first eligible price of each category by `Rank`), `Eligible`, `Applies` |
| `resolve_student_type`, `_is_one_time_already_billed` | `TypeOf`, `BilledBefore`; `Charged` is what `effective_fee_structures` returns |
| `FeePricingCreateView`, `FeePricingEditView` | `SubmitPrice` (form and check), `Overwrite`, `ReadSibling`, `Insert`; then `GenerateClass` and `SyncClass` for each class the price covers, `Done` |
| `FeePricingBulkCopyView`, `FeePricingPromoteView`, `FeePricingDeleteView` | `CopyTerm` with `CopyRow`, `Promote`, `DeletePrice` |
| `GenerateInvoicesView`, `generate_invoices_for_term` | `GenerateTerm` (which students, once), then `GenerateStudent` for each, in the class it is in by then |
| `get_checkout_options`, `reconcile_checkout` with an extra or the bundle of a page | `Offered`, `Cart`, `Checkout`, `CheckoutBundle` |
| `get_student_line_items`, `StudentRecordPaymentView` | `PriceItems`, `LineItems`, `RecordPayment` |
| `InvoiceResetService`, category form, class change, term change | `Reset`, `EditCategory`, `Enrol`, `SetCurrentTerm`, `NextDay` |
| `_get_pricing_warnings` | `Warned` (`Unpriced`, `Lonely`) |

`raced` holds the keys written while another request wrote prices, `wentBack` the
students moved to an earlier session, `clean` whether anybody else has changed
something since a request began. A class is billed in one step; a request over
several classes takes a step for each, and everything else may come between. A term is
generated for ACTIVE students: statuses are kept in `Enrolment`, and here any set of
students may be the active ones.

How `Enrolment` corresponds to the code:

| Code | Actions |
|---|---|
| `AcademicSession.save`, `Term.save` | `ClearSessions` and `SaveSession`, `ClearTerms` and `SaveTerm`: one statement takes the flag from the others, one writes the row |
| `SessionCreateView`, one transaction | `CreateSession`, the steps of `save`, `CommitSession` |
| `SessionSetCurrentView`, `TermSetCurrentView` | `SetSession` (then `OpenTerm`), `SetTerm` |
| `PublishResultsView`, `TermAdmin` | `Publish` with `SaveFlag`, which clears other terms when its copy was current; `PublishInAdmin` |
| `StudentCreateView`, `StudentEditView`, `StudentChangeClassView`, one transaction each | `OpenPlace`; `KeepPlace` (no class asked for, or the one the student is in), or `TakePlace` and `CommitPlace` |
| `promote_students`, `promote_to` | `Promote`, `PromoteClear`, `PromoteInsert`, `PromoteEnd` |
| classes and deletions | `CreateClass`, `DeleteClass`, `DeleteStudent` |

A request is the list of the statements it has still to make (`todo`). `calendar` says
what the last change of the calendar was and whether it was undisturbed, `torn` names
the students a request has left half-way or two were on at once. A form that writes the
student holds the row (`Own`) until it commits, and inserts a student anew that was deleted
before (`Saved`). Only the change of class always writes the enrolment; an edit that finds the
class it asks for in the first current enrolment writes none, whatever else is current.

How `Accounts` corresponds to the code:

| Code | Actions |
|---|---|
| `StaffCreateView`, `UserAdmin`; `StaffImporter` | `CreateAccount`; `CreateBare` (no password) |
| `StudentCreateView`, `EnrollmentRegisterStudentView`, `StudentImporter` | `OpenCreate`, `SaveCreate`: the student and those of its guardians who have no account |
| `StaffDeleteView`, `StudentDeleteView`, the admin site | `DeleteUser` |
| `CredentialSingleResetView`, `StudentPasswordChangeView`, `CredentialBatchView` | `OpenReset`, `OpenChange`, `OpenBatch`, then `SaveReset` |
| `StaffEditView`, `StudentEditView`, `StaffToggleActiveView`, `UserAdmin` for any account | `OpenEdit`, `OpenPassword`, `OpenToggle`, `OpenDisable`, then `SaveWhole`: every column of the copy |
| `ForcedPasswordChangeView`, `StudentSelfPasswordChangeView` | `OpenForced`, `SaveForced`; `OpenOwn`, then `SaveWhole` |
| `StudentGuardianCreateView`, `StudentGuardianUpdateView`, `StudentGuardianLinkDeleteView` | `OpenGuardian`, `SaveGuardian`; `OpenLink`, `SaveLink`; `DeleteLink` |
| `StudentGuardianLinkAdmin` and the inline of `StudentAdmin` | `TieLink`: a link as typed, the flag of the others left alone |
| the session middleware, `CredentialSlipView` | `WriteSession` when a request ends, `ShowSlip` |

A password is the number of the request that made it, `raw` says that it was stored
without hashing. `made`, `fresh` and `mixed` are history; `mixed` names the students on
whose guardians two requests met or a form of the admin site ticked another primary contact.

How `Lessons` corresponds to the code:

| Code | Actions |
|---|---|
| `PeriodFormView`, `LessonPeriodAdmin`, `PeriodCloseView` | `PeriodForm`, `PeriodAdmin`, `CloseOpen` and `CloseSave` (the fee as fetched) |
| `ClassFormView`, `ClassDeleteView` | `ClassForm`, `DeleteOpen` (the check), `DeleteRun` (the cascade) |
| `EnrollmentFormView`, `EnrollmentCancelView` | `Enrol`, `EditForm`, `CancelOpen` and `CancelSave` |
| `EnrollmentPaymentView`, `record_enrollment_payment` | `PayOpen`, `PayCreate` or `PayRefused` (the reference is taken), `PayReceipt`, `PaySum`, `PaySave` |
| `EnrollmentRegisterStudentView` | `RegisterOpen`, `RegisterCommit` or `RegisterRefused` |
| `StudentDeleteView`, as it reaches lessons | `DeleteStudent`: the registration loses its student, the student's payments go |
| `import_summer_school` | `ImportStart`, `ImportRow`, `ImportCommit` |

`edited`, `raced`, `crossed` and `loose` name the rows about which nothing is promised:
edited by the office or left by a deleted student; held by two requests at once; cancelled
while a payment held them as REGISTERED, which then saves its whole copy and writes PAID over
the cancellation (a race the code has, and which the property leaves out); with a fee that
moved or a payment that died. What an import has inserted stays in its `job` until it commits.

How `Imports` corresponds to the code:

| Code | Actions |
|---|---|
| `DataImportView`, `DataImportConfirmView` | `Preview`, `PreviewDone`; `Confirm`, the rows, `WriteLog`, `ClearSession` |
| `import_data` | `Command`, the rows, `CommandDone` |
| `ClassImporter`, `SubjectImporter`, `StaffImporter` | `FindClass`, `InsertClass`; `FindSubject` (by class and code), `FindByName`, `PickCode` (a free code), `InsertSubject`, `InsertLink`, `LinkSubject`; `FindStaff`, `InsertStaff` |
| `StudentImporter`, one transaction per row | `FindStudent`, `FindParent` for each guardian, `CommitStudent` |

A row that raises ends its request (`Refused`, and the steps that end in an idle job): the
rows before it stay, and neither log nor notice is written. `raced` names the families two
transactions looked for at once. A user name is a name with a counter. `Users` are those of
staff, students and parents alike, because an importer skips a person whose user name
anybody has; `Stored` is what a row asks for in full, a student with its class and guardians.
A log keeps the rows that were skipped (`skipped`), which the code counts.

Each model holds, just before the action it alters, a few operators commented
`Mutant:`. They are plausible bugs; no action uses them. Putting one in place of
its action must make TLC find a named property violated, which shows that the
property constrains the code (`mutants` in `PROJECT.json`).

## Runs

| Run | Configuration | Question | Bounds |
|---|---|---|---|
| `payments` | `PaymentsRow.cfg` | one payment under everything the online paths can do to it | 1 row, 1 reference, 2 amounts (paid right or wrong), 2 payer accounts, 1 administrator, 2 concurrent requests, 1 crash |
| `desk` | `Desk.cfg` | two payments between online paths and two administrators | 2 rows, 1 reference to fight for, 2 administrators, 1 online request, 2 office operations |
| `billing` | `Billing.cfg` | do totals and lines stay right under two billing requests, are the shares of a checkout right while balances move between its queries, does a re-pricing repair, can locks close a circle | 2 terms, 2 categories (1 compulsory), prices 1 and 2, 2 payments, amount 2, 4 carts, 2 billing requests, 1 crash |
| `double_billing` | `BillingDouble.cfg` | do overlapping requests bill a category once? No | the same, prices of 1, amount 1, no crash |
| `pricing` | `Pricing.cfg` | does the form answer the truth, are one-time fees billed once, is every gap warned of, do prices keep apart | 3 terms in 2 sessions, 2 classes (one without a level), 3 categories (compulsory or not, one-time or not), 1 student, 3 prices to start from, 2 forms, 1 target of promotion, 5 prices in all, 2 dates, 2 requests at a time, 1 change of anything else |
| `results` | `Results.cfg` | are approved marks vetted, ranks and term results right after an undisturbed recomputation, readers told | 3 students, 2 subjects, marks 0 and 2 or missing, a class unmoderated or approved with a tie, 1 selection in the admin lists (the third student), 2 requests of any kind (also the score and result forms of the admin site), 1 crash |
| `inventory` | `Inventory.cfg` | does the log account for the stock, whoever moves or edits an item at the same time | 2 items, quantities 1 and 2, stock up to 3, 2 requests or forms open at a time, 5 operations |
| `payroll` | `Payroll.cfg` | do payslips add up, does a bulk disbursement settle and never overpay, is what a repeated one skips settled | 2 staff, 1 allowance for one of them, 1 deduction for both, salary 2, typed amount 2, 2 references, 2 concurrent requests, 3 requests or policy changes, 1 crash |
| `enrolment` | `Enrolment.cfg` | is one term of the current session current, does nobody drop out of the classes | 2 sessions of 2 terms, 2 students, 2 classes, 2 requests at a time, 4 in all, 1 crash |
| `accounts` | `Accounts.cfg` | do slips open accounts, do generated passwords have to be changed, is one guardian called first | 1 teacher, 2 students, 2 guardians, 2 requests at a time, 3 in all, 1 crash |
| `lessons` | `Lessons.cfg` | does whoever paid get PAID, does money leave an earlier cancellation, is nobody registered twice | 1 class, fees 0 and 2 or inherited, payments of 1, a sheet of 2 rows (one with money), 4 rows, 2 requests at a time, 4 in all, 1 crash |
| `imports` | `Imports.cfg` | does a logged import leave nothing out but namesakes, do preview and confirmation agree, do siblings share a guardian | 6 files of 1 or 2 rows (a class twice, two subjects of one code, siblings, a guardian twice, a guardian with the name of a student, staff with a name taken), 2 requests at a time, 3 in all, 1 crash |

Why the bounds suffice: rows interact only through the unique constraint on the
reference (which `desk` exercises with two rows and one reference) and through
notices, which name their row. Every race in this code is between two parties
on one row: a request and the webhook, two requests, two administrators. One
crash decides each promise that holds only without one. Deadlock is not checked:
when nothing is left to deliver or to serve, the system may rest.

In `billing` two requests are enough for every race on an invoice, and two in a row
give a crashed generator followed by re-pricing (`SavePrice` runs the generator and
re-prices in one request). A cart never has a category both as an extra and in
the bundle in these runs: `Wanted` models that it would be billed twice. An amount of 2 on prices of
1 and 2 makes halves to round and invoices that owe less than their share, and a payment
that settles one invoice between the queries of a checkout on both: a share does exceed
what its invoice owes in this run, by what moved.

In `results` three students are what a tie followed by a lower place needs, and two
requests what every race needs: an edit and a verdict, two recomputations, a
publication that dies and the next one. The two requests may also come in a row,
so a repaired crash and a backfill after an edit are among the behaviours.

In `inventory` five operations are an item with stock, two requests that read it, and
two movements in between; stock 3 lets a removal be refused after its check passed.
In `payroll` three requests are a generation and two disbursements, at once or one
after the other (also the repetition of one that died), or a generation with
changes of the pay policy between its reads and its lines.

In `pricing` the student starts in the first session, so the three terms hold two
generations of one session and one of the next: what `BilledBefore` must tell apart.
Two requests are a price saved with its sibling, copies and billing, and another that
writes the same keys; the change is a payment, a checkout, an enrolment, a category
edit, a reset, another term or another date. In `enrolment` and `lessons` four
requests are two that meet, after one that made what they meet on, and before one that
must put things right or finds the damage; in `lessons` a fee of 2 takes two payments of
1, which is the race `SettledIsPaid` is about, and a fee of 0 none. In `accounts` three
requests are a creation, which makes the student and the guardians, and two that meet, or
one that does damage and one that repairs it. In `imports` three
requests are a preview, another import and the confirmation. The properties name what
is excepted by history variables (`raced`, `torn`, `edited`, `crossed`, `loose`, `mixed`), which the
code's own lack of locks makes necessary.

In `desk` states are told apart without the webhook log (`VIEW`), which no guard and
no property of the desk reads.

Fairness: `Fairness` asks for weak fairness of `HandleWebhook(e)` for each event,
because Paystack repeats an event until it is answered with 200. Nothing is assumed of
payers, polls, callbacks or administrators. Under it `ChargeSettles`: money
taken does not leave its row PENDING.

What `double_billing` shows: `reconcile_checkout` promises that a billed category is
never billed again. A generator has created the invoice and not yet its lines, a checkout
finds none and bills the category, the generator bills it too.

## Where the code and its words part

Met while modelling, all within the models, without a run of their own (the one that has
one is above):

* The overpayment policy says that no payment exceeds what its invoices owe
  (`checkout.py:16-17`). `reconcile_checkout` compares the amount with the balances,
  computes the first share from a second reading and the second from a third. A payment that
  settles the next term's invoice before the last reading cuts that share to nothing and
  gives the rest to the current invoice, whose balance is not compared again (`:597`).
  `SharesSound` says how far it can go: no further than what moved.
* `checkout.py:17-19` has every entry point enforce the cap. The page of an invoice records
  any cash amount (`school_admin/views/invoices.py:108`), and so a balance becomes negative.
* The import command promises that a dry run changes nothing (`import_data.py:51`, `:83`).
  For a subject that exists the importer makes the link to the class of the row without
  looking at `dry_run` (`importers.py:160`); so does the preview page.
* `handle_webhook` says it logs every event (`paystack.py:519`), but the log row is in the
  handler's transaction: when `Payment.save()` refuses FAILED to CONFIRMED, everything
  is rolled back, and every redelivery ends the same way: the money is neither credited
  nor logged. `SuccessLoggedIsCredited` and `ChargeSettles` are stated for what is.
* `_notify_payment` reads and then inserts; two requests both insert, so a notice may be
  doubled. `EveryoneTold` asks for one at least.
* `Payment.save()` reads the previous status and then updates, so a transition that
  `ALLOWED_STATUS_TRANSITIONS` forbids can be committed; a credit is still never lost.
* An approved score that is edited is PENDING again, while the term result, which
  'pending or rejected scores never leak into', counts its old mark until the next
  verdict on the class. `compute_term_summary` 'does NOT touch' remarks; it deletes the
  row that holds them when no score of the student counts.
* `ApprovedIsVetted` names two exceptions: a verdict between the fetch and the save of an
  edit leaves an unmoderated mark APPROVED (`Overtaken`), and so does an edit that dies
  between its two saves. And what it calls approved includes the score form of the admin
  site (`academics/admin.py:50-62`), which puts a mark and APPROVED beside each other, also
  from a page opened before a rejection, without any moderator.
* A payment that read a lesson registration before it was cancelled saves its copy and writes
  PAID over the cancellation (`lessons/services.py:45-47`, `lessons/views.py:436-439`).
  `CancelSticks` leaves these out (`crossed`).
* An edit of a student whose class is the one the form shows writes no enrolment
  (`school_admin/views/students.py:429-442`), so it does not put right a second current
  class. An edit of a student deleted meanwhile inserts the student again.
* The forms of the admin site tick a primary contact without clearing the others
  (`students/admin.py:24-27`, `143-151`).
* An import skips a student or a member of staff whose user name anybody has, also a
  parent, and counts the row as skipped: a namesake is not stored (`importers.py:250`, `426`).
* A one-time fee is billed again in later terms of the same session (`generation.py:14-19`
  looks at earlier sessions only, `models.py:37` says 'once'), and when it was bought at a
  checkout, whose lines carry no cycle (`checkout.py:543-547`). `OneTimeOnce` is about
  sessions and lines the generator marked. The office's list of what to pay shows such a
  category as paid whatever it was billed on (`fees/views.py:997-1012`).
* The bundle of a page that is older than the current term bills the older term's prices
  on the current invoice (`checkout.py:437-455`). A price for new students is 'locked to
  the active term' when typed and falls back to other terms when resolved
  (`pricing.py:128-133`). `resolve_student_type` ignores the term its docstring speaks of.
* `FeePricingEditView` saves the whole price it fetched, also one deleted meanwhile, which
  is then there again; when the sibling exists twice, the request fails after the
  price was saved and bills nothing.
* A promotion into a session the student is enrolled in is refused by the database after
  the current class was taken away, and the rest of the selection is not promoted.
  A session that is created makes its first term current while another session is.
* `StudentGuardianCreateView` mistakes `was_created` for its opposite: a guardian who was
  there gets a new user name and the password unhashed, so that slip opens nothing; a new
  one gets none. The first password of staff comes without `must_change_password`.
* `import_summer_school` calls itself idempotent; a participant registered as a student
  in between has lost the name it looks for and is registered anew. What a preview of
  subjects announces may be less than is created.
* A second payroll generation for a period makes new payslips for everybody, although
  `generate_payroll_run` calls itself idempotent.

## Proofs

Eight modules prove, for every value of the constants that satisfies the named
assumptions, all but one of the properties the runs check. The theorems on types (one per
module that has one) are among the lemmas of the others and are not repeated below.

`PaymentsProofs` proves for every set of rows, references, accounts, amounts and
concurrent requests (assuming only `PaymentsAssumption`: amounts are positive,
`NULL` is neither a reference nor a key):

* `CreditSound`: `Spec => []CreditInv`, the inductive invariant.
* `OnlyChargedMoney`, `NoSecondRow`, `ReceiptsAreConfirmed`: its consequences.
* `CreditNeverWithdrawn`: the action property `CreditIsFinal`.
* `ReceiptsPromised`, `EveryoneIsTold`, `LoggedIsCredited`: what is owed after a
  confirmation, and what the webhook's log is worth.
* `LedgerImplemented`: `Spec => ImplementsLedger`, the refinement of `CreditLedger`.

The argument. `CreditBacked` is not inductive: a request may be about to write
CONFIRMED from a copy. `CreditInv` adds that a stored row keeps its amount and
reference (`RowSound`), that success events are true (`EventTrue`), and that a
request's copy still describes the row and its verdict agrees with the charge
(`JobSound`). Then a request about to write FAILED holds a row whose amount differs
from the charge, which no path can have confirmed: this is why the unlocked
check-then-write of `save()`, which does let forbidden transitions through, never
withdraws a credit. Each action is shown `Good`: it keeps `CreditInv`, keeps what
is confirmed (`Kept`), and confirms at most one row (`OneCredit`). The refinement
maps a reference's credit to the amount of its confirmed row; `CreditValue` shows
this is the charge once a row is confirmed, so a `Good` step is a `Credit` or a
stutter of the ledger. `EveryoneIsTold` needs `TellingSound`, what a request that has
yet to send its notices knows of its row; `LoggedIsCredited` needs `LoggedSettled`.

With the office at work (`DeskSpec`, assuming `DeskAssumption` too) the module proves
`NothingReopened`, `ReceiptsOfSettledRows`, `ConfirmedTransfersHaveReceipts` and
`CreditComesFromSomewhere`. These are necessarily weaker: an administrator may edit a
reference or delete a confirmed row, so credit there has an origin but is not final.
`ReceiptInv`, `TransferInv` and `OriginInv` say what the office's requests and the online
ones know of the row they are about to write a receipt for, notify about, or confirm.

`BillingProofs` proves `SplitSound` (the proportional share rounded half up, and what it
leaves for the next term, are within balances that have not moved) with the lemma
`HalfUpBounds`, and from one invariant,
`BillingInv`, for any categories, prices, carts and number of requests: `TotalsAreSums`,
`NobodyBilledTwice`, `SharesAreWithinDues` and `RepricingEndsRight`. The properties are not
inductive: totals and lines disagree between the statements of a checkout. `BillingInv`
says, of each term on which no two requests have overlapped, that one request at most
works on it (`Alone`) and what that request finds there (`Fits`: what it has seen and
what it has added account for lines and total at each of its statements; `FitsTotal`: its
copy of the total, as long as none has died). `SharesOK` says, of a checkout at each of its
queries, how its shares and the balances it was last told are related; that they
are right for `steady` balances is `SplitSound`, that they are wrong by no more than what moved
follows from the cap, which `Given` keeps. `NobodyBilledTwice` has the hypothesis
`PageCarts`: no cart has extras beside the bundle, which the payment page ensures. Without
it `reconcile_checkout` bills such a category twice, as `Wanted` says. Sums over
categories and payments are folds; what is needed of them is shown one element at a
time from their definition, without induction.

`LocksCloseNoCircle` (`Spec => []NoCircle`) is about PostgreSQL's locks, for any number of
requests: of any set of them, one waits for none of the others. This says more
than that somebody can always go on, which two in a deadlock beside a third would satisfy.
`WaitsFor` is part of the guards (`Unhindered`) of the four steps that can wait, and those
steps need nothing else than their turn. `LocksInv` adds that a
checkout has inserted only invoices it has opened and locked only those it has written,
and that nobody else keeps a lock between statements (`LocksOK`). So a request waits only
for one that is further on the way of a checkout (`Way`, `WaitsForwards`), and the one that
is furthest waits for none.

`PayrollProofs` proves `PayslipsAddUp`, `NobodyOverpaid`, `SkippedSlipsAreSettled` and
`BulkPaysWhatIsDue` (an action property) for any staff, policy and number of requests.
`SoundInv` types what requests hold and read (`PartsOK`, `PayOK`), `LinesInv` says that a payslip's lines are
those its request has not yet to write, and `BulkInv` that of a bulk disbursement that has
been alone the payslips it has passed are settled. `SkipInv` says that a row whose reference was
not typed or edited pays the payslip its reference names, and that what a bulk disbursement
is about to pay was read from no more disbursements than there are by then: so the row it
inserts leaves no balance, and every repetition that skips it is right to. A sum over a set of lines is the
number of `Cells` under its graph, so that adding a line adds its amount: this gives the
two sums of `PayslipsAddUp` from facts on cardinality alone.

`PricingProofs` proves, for any price lists, forms, students, sessions and number of
requests, `OneTimeFeesOnce`, `PricesStayApart`, `TheAnswerIsTrue` and `NoGapIsSilent`.
`OneTimeOnce` is not inductive, for nothing in it says that the generator, which looks
back, has not billed a later session. `OnceInv` adds that a student is billed one-time
fees only in sessions it is enrolled in (`BilledWhereRolled`) and is in the latest of those
(`LatestIsLast`). `TwinInv` adds what every open request knows (`Apart`): as long as it was
alone, the keys it is about to write are free and differ from each other. `AnswerInv` says
what has been true of each class since its turn came: once generated, every pupil has a
bill, once re-priced, the right one; billing another class leaves that alone.
`NoSilentGap` is a matter of the resolver alone: the order of the applicable prices has a
first (`OneComesFirst`), so whatever may be charged is charged.

`ResultsProofs` proves `ApprovedVetted` (`Spec => []ApprovedIsVetted`) and `ReadersAreTold`
(the action property `ReadersTold`) for every class, any marks and any number of requests,
and that a recomputation nobody disturbed ends right: `PassRanksRight` (`RanksRight`) and
`SummaryIsRight` (`ResultsRight`). `ApprovedIsVetted` is not inductive: an edit
that has fetched PENDING saves its mark without a reset, whatever the status is by
then, and an admin form saves a status as old as its page. `VettedInv` adds `OvertakenIsTainted`, that such an edit of a score that is now
approved has been noted, and the shape of tables and jobs. The lemmas `Calm` and
`CalmBegin` dispose of every step of ranking, summary, forms and publication. For
`ReadersTold` it takes `TellInv`, that a publication is about readers of the class.

`RanksArePlaces` is about the algorithm: for every finite set and every scores, the ranks
that `AssignRanks` gives along the sorted list are the reference `Place`, one more than the
number of those with more. A sorted list exists, because to send an element to the number
of those before it is one to one; along it the rank is right up to the least index at
which it could first be wrong. The totals that are compared are sums over a class, which
`Cells` shows to be numbers. `AloneInv`, for the two properties, says of a request that has
met no other that all others are idle (`AloneIsAlone`) and how far it has come (`JobRight`):
the subject's positions are cleared; or its list still to save holds right places and
whoever is not on it has theirs; the sums taken are right; the results written are those
computed. `TablesSound` keeps to what the tables can hold.

`AccountsProofs` proves `GeneratedComesWithFlag`, `SlipsOpen` and `OnePrimaryContact`, with the
forms of the admin site among the steps: what one of them does by itself is in `mixed`.
`PasswordInv` adds that the passwords open requests are about to write are new and each
other's own (`TokensNew`), and that what holds of a row in the table also holds of every
whole copy somebody is about to save (`CopiesSound`): so it does no harm, for this
property, that copies are stale. `AloneInv`, for the other two, adds that requests which
meet on an account or a student have noted it (`MeetingsKnown`), and what a request
that met nobody knows of the accounts and the student it holds (`JobSound`).

For `Imports` the same module proves `LogsAreTrue` and `GuardiansHaveOneAccount`, for any
files, families, requests and deaths. `LoggedIsDone` speaks of imports that came to their
end; `ImportsInv` adds, of each request on its way, that every row before the one it is at
is stored in full, among its errors, or skipped for a user name others ask for too
(`DoneBefore`), and that a family an open transaction
has not found has no account yet, or two were looking (`MadeOK`), and that everybody in the
tables comes of a row (`FromFiles`). It is kept because
nothing an import made is ever taken away (`TablesGrow`). `PreviewsAreRight` counts: as long
as a preview or its confirmation has met nobody, what it has created and the rows yet to
come that the database lacks (`Left`) make up the number of the preview, or no more than
that when a row, or a guardian's account, takes the user name of a later one (`Foretold`). An attempt to prove this for
files of subjects failed for a reason: a preview may link a row by its name where the
confirmation finds the code of an earlier row, and creates more than was shown.

`LessonsProofs` proves `RegistersOnce` and `PaidInFullIsPaid` from one inductive invariant,
`LessonInv`: row by row what a request that holds a row knows of it (`RegisteredAt`:
the link to a student in its copy; `SettledAt`: class, fee and status), that who holds a
row together with another is known (`OneHolder`), and that no import carries a row that
is paid and not PAID (`Entries`). `StepKeeps` is the frame: a step need only be shown to
go on with its requests as `HoldStep` says and with its rows as `RegisterStep`, `OldRow`
or `NewRow` say. The lemmas on sequences are there because tables grow at their end.
`ImportsRepeat` follows from `SheetInv`: rows made from a line of the
sheet still agree with it (`FromSheet`, `ReadRight`), and an import holds entries of lines
that no other row and no other entry was made from (`InHand`), unless two imports overlapped.
`CancelledStays` has `CancelInv`: of a cancelled row that is not `crossed` no payment holds a
copy that says REGISTERED.

`OfficeProofs` is about `Enrolment` and `Inventory`, for any sessions, terms, students,
classes, items and requests. `CalendarIsSound` follows from `CalendarInv`: when no request is on the
calendar it is as the last change left it (`Orderly`); of requests that meet there both
have noted it; and a request that is alone has got as far as the steps before it say
(`Reached`, statement by statement: between the two UPDATEs no term is current).
`EveryoneHasAClass` follows from `StudentInv`: who meets on a student has noted it (`Met`),
a request that is alone has seen every current enrolment of its student, or has just taken
them away (`Saw`), also when it goes on from a form to its transaction (`GoingOnKeeps`); a
form that writes no enrolment changes nothing of that, and a student that nobody is inserting for and nobody has left half-way
has one current class (`Settled`). `StockLedger`, `DeactivatedStays` and `StockTyped` (no
stock is negative) follow from `InventoryInv`, which adds to type and `LedgerRight` that a busy
worker holds an existing item (`JobsSound`) and that an item has neither stock nor log
before it is created (`Untouched`). `ChainGrows` is the lemma on the log: an appended
movement that starts at its last balance keeps the chain.

Model-checked only: the liveness property `ChargeSettles`, which is out of this prover's
reach.

## What could be added

`PaymentLineItem` rows and custom lines of a recorded payment; the components of a score,
whose `extra_tests` are saved as a whole; the notifications' bell; deletions in the admin
site: of sessions, inventory items, scores, payslips, lesson registrations.

## Not modelled

* Tenant resolution, the audit trail and log-in: each is one request that meets no other.
* In the admin site: scores created, moved or deleted; disbursements created or deleted;
  registrations, classes and periods of lessons deleted. Changes of role and sessions of
  several administrators; the slip left in the session by a student creation that was undone.
* The receipt of a lesson payment; the import of staff with the role of a parent.
* Finance reports, lists and dashboards: they only read.
* `FeePriceOverride`, deactivated prices, changes of pay grade and deletions in the Django
  admin, its forms of sessions and terms: no view of the application makes them.
* Signature verification, HTTP details, templates, URL routing, e-mail and SMS delivery,
  the format of files, migrations and seed data: presentation, configuration or external.
* `fees/validation.py`, a read-only report of the admin site, and the hooks for book
  purchases, which no code calls.

`PROJECT.json` lists every component with its status and every hazard with the
properties that cover it.
