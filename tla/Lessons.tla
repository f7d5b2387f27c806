------------------------------ MODULE Lessons -------------------------------
(***************************************************************************)
(* Holiday lessons: a period, its classes with their fees, registrations   *)
(* of children, the money paid for them, the registration of a participant *)
(* as a student of the school, and the import of a sheet of registrations  *)
(* (lessons/views.py, services.py, models.py, import_summer_school.py).    *)
(*                                                                         *)
(* The views open no transaction, except the one that registers a student; *)
(* save() writes every column of the copy a request fetched. The import is *)
(* one transaction, after the period, which is created before it.          *)
(* Not modelled: which teachers see a class, the receipt and the notice of *)
(* a payment, the office's edits of payments (see PaymentDesk), and the    *)
(* deletions of registrations, classes and periods in the admin site.      *)
(***************************************************************************)
EXTENDS Integers, Sequences, FiniteSets

CONSTANTS
  Class,       \* names of lesson classes
  Fee,         \* fees an administrator types
  Child,       \* a child's name with the parent's phone numbers
  Amount,      \* amounts paid
  Sheet,       \* the rows of the sheet: [class, child, paid]
  SheetFee,    \* the option --fee of the import
  Worker,      \* requests in flight
  MaxRows,     \* bound on the registrations
  MaxRequests, \* bound on the requests
  MaxCrashes,  \* bound on the requests that die half-way
  NoClass,     \* the fee of a class that does not exist
  Inherit,     \* LessonClass.fee_amount left blank
  Unread,      \* lesson_class not fetched yet
  NoName       \* external_name cleared

ASSUME LessonsAssumption ==
  /\ Fee \subseteq Nat /\ 0 \in Fee /\ SheetFee \in Fee
  /\ NoClass \notin Fee /\ Inherit \notin Fee /\ Unread \notin Fee
  /\ NoClass # Inherit
  /\ Amount \subseteq Nat \ {0}
  /\ NoName \notin Child
  /\ Sheet \in Seq([class : Class, child : Child, paid : Amount \cup {0}])
  /\ MaxRows \in Nat /\ MaxRequests \in Nat /\ MaxCrashes \in Nat

VARIABLES
  period,  \* LessonPeriod: status and default fee
  class,   \* the fee of each LessonClass
  row,     \* LessonEnrollment
  paid,    \* the sum of the confirmed payments of each row
  job,     \* what each request has read, and where it stands
  started, \* how many requests were made
  crashes, \* how many of them died
  made,    \* history: students registered from each row
  edited,  \* history: rows the office has edited, or whose student it deleted
  loose,   \* history: rows edited, or whose fee moved, or whose payment died
  raced,   \* history: rows two requests held at a time
  crossed  \* history: rows cancelled while a payment had fetched them REGISTERED

vars == <<period, class, row, paid, job, started, crashes, made,
          edited, loose, raced, crossed>>

-----------------------------------------------------------------------------
PeriodStatus == {"NONE", "DRAFT", "OPEN", "CLOSED"}
Status == {"REGISTERED", "PAID", "CANCELLED"}

Period == [status : PeriodStatus, fee : Fee]

\* line is the row of the sheet it came from, 0 when it was typed in. A row is
\* GONE when its class was deleted.
Row == [class : Class, name : Child \cup {NoName}, student : {"none", "linked"},
        status : Status \cup {"GONE"}, line : Nat]

\* What a request has fetched of a row; its student may be deleted meanwhile.
Copy == [class : Class, name : Child \cup {NoName}, student : {"none", "linked", "gone"},
         status : Status, line : Nat]

\* fee is what paid was compared with.
Entry == [row : Row, paid : Nat, fee : Fee \cup {Inherit}]

Job == [phase : {"idle", "close", "delete", "cancel", "pay", "receipt", "sum",
                 "save", "register", "import"},
        row : Nat, copy : SUBSET Copy, amount : Nat, fee : Fee \cup {Unread},
        class : SUBSET Class, old : SUBSET Period,
        next : Nat, new : Seq(Entry), dry : {"yes", "no"}]

NoJob == [phase |-> "idle", row |-> 0, copy |-> {}, amount |-> 0,
          fee |-> Unread, class |-> {}, old |-> {}, next |-> 0, new |-> <<>>,
          dry |-> "no"]

LessonsTypeOK ==
  /\ period \in Period
  /\ class \in [Class -> Fee \cup {NoClass, Inherit}]
  /\ row \in Seq(Row)
  /\ paid \in [DOMAIN row -> Nat] /\ made \in [DOMAIN row -> Nat]
  /\ job \in [Worker -> Job]
  /\ \A w \in Worker : job[w].phase \in {"cancel", "pay", "receipt", "sum", "save",
                                         "register"}
                         => job[w].row \in DOMAIN row
  /\ started \in 0 .. MaxRequests /\ crashes \in 0 .. MaxCrashes
  /\ edited \subseteq loose /\ loose \subseteq DOMAIN row
  /\ crossed \subseteq DOMAIN row

Init ==
  /\ period = [status |-> "NONE", fee |-> 0]
  /\ class = [c \in Class |-> NoClass]
  /\ row = <<>> /\ paid = <<>> /\ made = <<>>
  /\ job = [w \in Worker |-> NoJob]
  /\ started = 0 /\ crashes = 0
  /\ edited = {} /\ loose = {} /\ raced = {} /\ crossed = {}

-----------------------------------------------------------------------------
\* LessonEnrollment.fee_amount
FeeOf(c) == IF class[c] = Inherit THEN period.fee ELSE class[c]

Live(r) == r \in DOMAIN row /\ row[r].status # "GONE"
RowsOf(c) == {r \in DOMAIN row : row[r].class = c}

Holding(r) == {w \in Worker : job[w].row = r}
Move(w, j) == job' = [job EXCEPT ![w] = j]

Count == started < MaxRequests /\ started' = started + 1

\* A request of one statement.
Request == Count /\ UNCHANGED <<job, crashes, raced, crossed>>

\* A request that goes on, from what it has read.
Begin(w, j) ==
  /\ job[w].phase = "idle"
  /\ Count
  /\ Move(w, j)
  /\ raced' = IF j.row # 0 /\ Holding(j.row) # {} THEN raced \cup {j.row} ELSE raced
  /\ UNCHANGED <<crashes, crossed>>

\* A request goes on; nothing else changes but what the action says.
Step(w, j) == Move(w, j) /\ UNCHANGED <<started, crashes, edited, raced, crossed>>

\* An import has registered somebody in the class, in a transaction that is
\* still open: deleting the class, or creating it, waits.
Held(c) == \E w \in Worker : \E i \in DOMAIN job[w].new : job[w].new[i].row.class = c

-----------------------------------------------------------------------------
(* Periods and classes *)

\* PeriodFormView: created, or updated in its own columns.
PeriodForm(s) ==
  /\ Request
  /\ period' = [status |-> s, fee |-> period.fee]
  /\ UNCHANGED <<class, row, paid, made, edited, loose>>

\* LessonPeriodAdmin: the form has every column.
PeriodAdmin(s, f) ==
  /\ Request
  /\ period.status # "NONE"
  /\ period' = [status |-> s, fee |-> f]
  /\ loose' = DOMAIN row
  /\ UNCHANGED <<class, row, paid, made, edited>>

CloseOpen(w) ==
  /\ period.status # "NONE"
  /\ Begin(w, [NoJob EXCEPT !.phase = "close", !.old = {period}])
  /\ UNCHANGED <<period, class, row, paid, made, edited, loose>>

\* save() writes the fee back as it was fetched.
CloseSave(w) ==
  /\ job[w].phase = "close"
  /\ \E p \in job[w].old :
       /\ period' = [status |-> "CLOSED", fee |-> p.fee]
       /\ loose' = IF p.fee # period.fee THEN DOMAIN row ELSE loose
  /\ Step(w, NoJob)
  /\ UNCHANGED <<class, row, paid, made>>

\* ClassFormView: a class of a period, created or updated.
ClassForm(c, f) ==
  /\ Request
  /\ period.status # "NONE"
  /\ class[c] = NoClass => ~ Held(c)
  /\ class' = [class EXCEPT ![c] = f]
  /\ loose' = loose \cup RowsOf(c)
  /\ UNCHANGED <<period, row, paid, made, edited>>

DeleteOpen(w, c) ==
  /\ class[c] # NoClass
  /\ \A r \in RowsOf(c) : ~ Live(r)
  /\ Begin(w, [NoJob EXCEPT !.phase = "delete", !.class = {c}])
  /\ UNCHANGED <<period, class, row, paid, made, edited, loose>>

\* Registrations that came since go with the class; their payments stay.
DeleteRun(w) ==
  /\ job[w].phase = "delete"
  /\ \A c \in job[w].class : ~ Held(c)
  /\ class' = [c \in Class |-> IF c \in job[w].class THEN NoClass ELSE class[c]]
  /\ row' = [r \in DOMAIN row |->
       [class |-> row[r].class, name |-> row[r].name, student |-> row[r].student,
        status |-> IF row[r].class \in job[w].class THEN "GONE" ELSE row[r].status,
        line |-> row[r].line]]
  /\ Step(w, NoJob)
  /\ UNCHANGED <<period, paid, made, loose>>

-----------------------------------------------------------------------------
(* Registrations *)

Enrolled(new) ==
  /\ row' = row \o [i \in DOMAIN new |-> new[i].row]
  /\ paid' = paid \o [i \in DOMAIN new |-> new[i].paid]
  /\ made' = made \o [i \in DOMAIN new |-> 0]

\* What the form can hold: a name, a student, or both; any status.
Typed(c, name, student, status, line) ==
  [class |-> c, name |-> name, student |-> student, status |-> status, line |-> line]

\* EnrollmentFormView.post without a key
Enrol(c, name, student, status) ==
  /\ class[c] # NoClass
  /\ name # NoName \/ student = "linked"
  /\ Len(row) < MaxRows
  /\ Request
  /\ Enrolled(<<[row |-> Typed(c, name, student, status, 0), paid |-> 0, fee |-> 0]>>)
  /\ loose' = IF status = "REGISTERED" THEN loose ELSE loose \cup {Len(row) + 1}
  /\ UNCHANGED <<period, class, edited>>

\* EnrollmentFormView.post with a key: every field of the form in one UPDATE; the
\* form of the admin site, which asks for neither a name nor a student.
EditForm(r, c, name, student, status) ==
  /\ Live(r) /\ class[c] # NoClass
  /\ Request
  /\ row' = [row EXCEPT ![r] = Typed(c, name, student, status, row[r].line)]
  /\ edited' = edited \cup {r} /\ loose' = loose \cup {r}
  /\ UNCHANGED <<period, class, paid, made>>

\* What a request has fetched of a student who is deleted.
Orphaned(c) == [c EXCEPT !.student = IF @ = "linked" THEN "gone" ELSE @]

\* StudentDeleteView, of the student the registrations of gone are linked to: they lose
\* the link, and the payments recorded under it are deleted.
DeleteStudent(gone) ==
  /\ gone # {} /\ \A r \in gone : Live(r) /\ row[r].student = "linked"
  /\ Count
  /\ row' = [r \in DOMAIN row |->
       Typed(row[r].class, row[r].name, IF r \in gone THEN "none" ELSE row[r].student,
             row[r].status, row[r].line)]
  /\ \E left \in [DOMAIN row -> UNION {0 .. paid[r] : r \in DOMAIN row}] :
       /\ \A r \in DOMAIN row : left[r] <= paid[r] /\ (r \notin gone => left[r] = paid[r])
       /\ paid' = left
  /\ job' = [w \in Worker |->
       IF job[w].row \in gone
       THEN [job[w] EXCEPT !.copy = {Orphaned(c) : c \in job[w].copy}] ELSE job[w]]
  /\ edited' = edited \cup gone /\ loose' = loose \cup gone
  /\ UNCHANGED <<period, class, crashes, made, raced, crossed>>

Opened(w, r, p, a, f) ==
  /\ Live(r)
  /\ Begin(w, [NoJob EXCEPT !.phase = p, !.row = r, !.copy = {row[r]},
                            !.amount = a, !.fee = f])
  /\ UNCHANGED <<period, class, row, paid, made, edited, loose>>

\* enrollment.save(): the whole copy, with another status. The foreign keys refuse it
\* when the class or the student is gone.
SaveCopy(w, status) ==
  \E c \in job[w].copy :
    row' = IF Live(job[w].row) /\ c.student # "gone"
           THEN [row EXCEPT ![job[w].row] =
                   Typed(c.class, c.name, c.student, status, c.line)]
           ELSE row

CancelOpen(w, r) == Opened(w, r, "cancel", 0, Unread)

\* A payment of the row is under way that will take it for REGISTERED.
PaysFor(v, r) ==
  /\ job[v].row = r /\ job[v].phase \in {"pay", "receipt", "sum", "save"}
  /\ \E c \in job[v].copy : c.status = "REGISTERED"

CancelSave(w) ==
  /\ job[w].phase = "cancel"
  /\ SaveCopy(w, "CANCELLED")
  /\ Move(w, NoJob)
  /\ crossed' = crossed \cup {r \in {job[w].row} : \E v \in Worker : PaysFor(v, r)}
  /\ UNCHANGED <<period, class, paid, started, crashes, made, edited, loose, raced>>

-----------------------------------------------------------------------------
(* EnrollmentPaymentView.post and record_enrollment_payment *)

\* A payment without a description fetches the class, and its fee, for one.
PayOpen(w, r, a) ==
  \E f \in {Unread, FeeOf(row[r].class)} : Opened(w, r, "pay", a, f)

PayCreate(w) ==
  LET j == job[w] IN
  /\ j.phase = "pay" /\ Live(j.row)
  /\ \A c \in j.copy : c.student # "gone"
  /\ paid' = [paid EXCEPT ![j.row] = @ + j.amount]
  /\ Step(w, [j EXCEPT !.phase = "receipt"])
  /\ UNCHANGED <<period, class, row, made, loose>>

\* The insertion is refused: the school has a payment under the reference that was
\* typed, or a foreign key points at a registration or a student that is gone.
PayRefused(w) ==
  /\ job[w].phase = "pay"
  /\ Step(w, NoJob)
  /\ UNCHANGED <<period, class, row, paid, made, loose>>

\* Mutant: how the registration was fetched is not looked at.
PayReceiptAny(w) ==
  LET j == job[w] IN
  /\ j.phase = "receipt"
  /\ Step(w, [j EXCEPT !.phase = "sum"])
  /\ UNCHANGED <<period, class, row, paid, made, loose>>

\* issue_receipt, refused when the payment went with its student; only a registration
\* that was fetched REGISTERED is looked at further.
PayReceipt(w) ==
  LET j == job[w] IN
  /\ j.phase = "receipt"
  /\ \E c \in j.copy :
       Step(w, IF c.status = "REGISTERED" /\ c.student # "gone"
               THEN [j EXCEPT !.phase = "sum"] ELSE NoJob)
  /\ UNCHANGED <<period, class, row, paid, made, loose>>

\* Mutant: a payment must go beyond the fee.
PaySumBeyond(w) ==
  LET j == job[w] IN
  /\ j.phase = "sum"
  /\ \E c \in j.copy :
       LET fee == IF j.fee = Unread THEN FeeOf(c.class) ELSE j.fee
       IN  Step(w, IF class[c.class] # NoClass /\ paid[j.row] > fee
                   THEN [j EXCEPT !.phase = "save"] ELSE NoJob)
  /\ UNCHANGED <<period, class, row, paid, made, loose>>

\* amount_paid, against the fee as fetched, of the class of the copy.
PaySum(w) ==
  LET j == job[w] IN
  /\ j.phase = "sum"
  /\ \E c \in j.copy :
       LET fee == IF j.fee = Unread THEN FeeOf(c.class) ELSE j.fee
       IN  Step(w, IF class[c.class] # NoClass /\ paid[j.row] >= fee
                   THEN [j EXCEPT !.phase = "save"] ELSE NoJob)
  /\ UNCHANGED <<period, class, row, paid, made, loose>>

PaySave(w) ==
  /\ job[w].phase = "save"
  /\ SaveCopy(w, "PAID")
  /\ Step(w, NoJob)
  /\ UNCHANGED <<period, class, paid, made, loose>>

-----------------------------------------------------------------------------
(* EnrollmentRegisterStudentView.post *)

\* Mutant: a participant who is a student already is registered again.
RegisterOpenAny(w, r) == Opened(w, r, "register", 0, Unread)

RegisterOpen(w, r) == row[r].student = "none" /\ Opened(w, r, "register", 0, Unread)

\* One transaction: account, student, enrolment, invoice, guardians; then the link,
\* with the columns it names only.
RegisterCommit(w) ==
  LET r == job[w].row IN
  /\ job[w].phase = "register" /\ Live(r)
  /\ row' = [row EXCEPT ![r] =
       Typed(row[r].class, NoName, "linked", row[r].status, row[r].line)]
  /\ made' = [made EXCEPT ![r] = @ + 1]
  /\ Step(w, NoJob)
  /\ UNCHANGED <<period, class, paid, loose>>

\* A field is missing, a user name or an admission number is taken: undone.
RegisterRefused(w) ==
  /\ job[w].phase = "register"
  /\ Step(w, NoJob)
  /\ UNCHANGED <<period, class, row, paid, made, loose>>

-----------------------------------------------------------------------------
(* import_summer_school *)

\* The period is created before the transaction, in a dry run too.
ImportStart(w, dry) ==
  /\ Begin(w, [NoJob EXCEPT !.phase = "import", !.next = 1, !.dry = dry])
  /\ period' = IF period.status = "NONE" THEN [status |-> "OPEN", fee |-> 0]
               ELSE period
  /\ UNCHANGED <<class, row, paid, made, edited, loose>>

\* The registrations under a name the transaction sees, its own included.
Found(w, c, child) ==
  {r \in DOMAIN row : Live(r) /\ row[r].class = c /\ row[r].name = child}
    \cup {Len(row) + i : i \in {k \in DOMAIN job[w].new :
                                  /\ job[w].new[k].row.class = c
                                  /\ job[w].new[k].row.name = child}}

\* Another import has inserted the class or the row: get_or_create of the class
\* waits for its unique index.
ImportBlocked(w, c) ==
  class[c] = NoClass /\ \E o \in Worker \ {w} : \E i \in DOMAIN job[o].new :
                           job[o].new[i].row.class = c

\* Mutant: the row is created without looking for it.
ImportRowAny(w) ==
  LET j == job[w]
      s == Sheet[j.next]
      fee == IF class[s.class] = NoClass THEN SheetFee ELSE class[s.class]
      full == s.paid > 0 /\ s.paid >= fee
      entry == [row |-> Typed(s.class, s.child, "none",
                              IF full THEN "PAID" ELSE "REGISTERED", j.next),
                paid |-> s.paid, fee |-> fee]
  IN  /\ j.phase = "import" /\ j.next \in DOMAIN Sheet
      /\ ~ ImportBlocked(w, s.class)
      /\ Step(w, IF s.paid > 0 /\ fee = Inherit THEN NoJob
                 ELSE [j EXCEPT !.next = @ + 1, !.new = Append(@, entry)])
      /\ UNCHANGED <<period, class, row, paid, made, loose>>

\* A row of the sheet: found, or new with what was paid. Several found, or a class
\* without a fee of its own to compare with, raise: all is undone.
ImportRow(w) ==
  LET j == job[w]
      s == Sheet[j.next]
      fee == IF class[s.class] = NoClass THEN SheetFee ELSE class[s.class]
      found == Found(w, s.class, s.child)
      full == s.paid > 0 /\ s.paid >= fee
      entry == [row |-> Typed(s.class, s.child, "none",
                              IF full THEN "PAID" ELSE "REGISTERED", j.next),
                paid |-> s.paid, fee |-> fee]
      fails == Cardinality(found) > 1 \/ (found = {} /\ s.paid > 0 /\ fee = Inherit)
  IN  /\ j.phase = "import" /\ j.next \in DOMAIN Sheet
      /\ ~ ImportBlocked(w, s.class)
      /\ Step(w, IF fails THEN NoJob
                 ELSE [j EXCEPT !.next = @ + 1,
                                !.new = IF found = {} THEN Append(@, entry) ELSE @])
      /\ UNCHANGED <<period, class, row, paid, made, loose>>

\* The end of the sheet: everything at once, or nothing.
ImportCommit(w) ==
  LET j == job[w]
      opened == {j.new[i].row.class : i \in DOMAIN j.new}
      added == {Len(row) + i : i \in DOMAIN j.new}
      now == [c \in Class |-> IF class[c] = NoClass THEN SheetFee ELSE FeeOf(c)]
  IN  /\ j.phase = "import" /\ j.next = Len(Sheet) + 1
      /\ Len(row) + Len(j.new) <= MaxRows
      /\ IF j.dry = "yes" THEN UNCHANGED <<class, row, paid, made, loose, raced>>
         ELSE /\ class' = [c \in Class |-> IF c \in opened /\ class[c] = NoClass
                                           THEN SheetFee ELSE class[c]]
              /\ Enrolled(j.new)
              /\ loose' = loose \cup
                   {Len(row) + i : i \in {k \in DOMAIN j.new :
                      j.new[k].paid > 0 /\ now[j.new[k].row.class] # j.new[k].fee}}
              /\ raced' = IF \E o \in Worker \ {w} : job[o].phase = "import"
                          THEN raced \cup added ELSE raced
      /\ Move(w, NoJob)
      /\ UNCHANGED <<period, started, crashes, edited, crossed>>

-----------------------------------------------------------------------------
\* A request dies; an open transaction is undone.
Crash(w) ==
  /\ job[w].phase # "idle" /\ crashes < MaxCrashes
  /\ crashes' = crashes + 1
  /\ Move(w, NoJob)
  /\ loose' = IF job[w].phase \in {"receipt", "sum", "save"}
              THEN loose \cup {job[w].row} ELSE loose
  /\ UNCHANGED <<period, class, row, paid, started, made, edited, raced, crossed>>

Office ==
  \/ \E s \in PeriodStatus \ {"NONE"} : PeriodForm(s)
  \/ \E s \in PeriodStatus \ {"NONE"}, f \in Fee : PeriodAdmin(s, f)
  \/ \E c \in Class, f \in Fee \cup {Inherit} : ClassForm(c, f)
  \/ \E c \in Class, name \in Child \cup {NoName}, student \in {"none", "linked"},
        status \in Status :
       \/ Enrol(c, name, student, status)
       \/ \E r \in DOMAIN row : EditForm(r, c, name, student, status)
  \/ \E gone \in SUBSET DOMAIN row : DeleteStudent(gone)

RowStep(w) ==
  \/ \E r \in DOMAIN row :
       \/ CancelOpen(w, r) \/ RegisterOpen(w, r)
       \/ \E a \in Amount : PayOpen(w, r, a)
  \/ CancelSave(w) \/ RegisterCommit(w) \/ RegisterRefused(w)
  \/ PayCreate(w) \/ PayRefused(w) \/ PayReceipt(w) \/ PaySum(w) \/ PaySave(w)

ClassStep(w) ==
  \/ CloseOpen(w) \/ CloseSave(w)
  \/ \E c \in Class : DeleteOpen(w, c)
  \/ DeleteRun(w)
  \/ \E dry \in {"yes", "no"} : ImportStart(w, dry)
  \/ ImportRow(w) \/ ImportCommit(w)

Next == Office \/ \E w \in Worker : RowStep(w) \/ ClassStep(w) \/ Crash(w)

Spec == Init /\ [][Next]_vars

-----------------------------------------------------------------------------
(* Properties *)

\* Every registration whose confirmed payments reach its fee gets PAID, however many
\* payments are recorded at once: each inserts its row before it adds them up, so the
\* last one sees them all. Rows that were edited, whose fee moved or whose
\* payment died half-way are excepted.
SettledIsPaid ==
  \A r \in DOMAIN row \ loose :
    /\ row[r].status = "REGISTERED" /\ paid[r] > 0 /\ paid[r] >= FeeOf(row[r].class)
    => \E w \in Holding(r) : job[w].phase \in {"receipt", "sum", "save"}

\* A participant becomes a student of the school once, whatever else is done with
\* the row, unless two requests held the row at the same time (both have read that
\* there is no student, or one saves a copy from before), the office unlinked it or
\* the student was deleted.
RegisteredOnce == \A r \in DOMAIN row \ (edited \cup raced) : made[r] <= 1

\* Money recorded for a cancelled registration leaves it cancelled, until the office
\* edits it or deletes its student. A payment that had fetched the row before the
\* cancellation was saved does write PAID over it (crossed): record_enrollment_payment
\* saves its whole copy and never looks again.
CancelSticks ==
  [][\A r \in DOMAIN row \ (edited' \cup crossed) :
       row[r].status = "CANCELLED" => row'[r].status \in {"CANCELLED", "GONE"}]_vars

\* The import may be repeated: a row of the sheet has one registration, unless that one
\* has since been edited or made a student, or two imports overlapped.
ImportIdempotent ==
  \A r, s \in DOMAIN row \ (edited \cup raced) :
    /\ row[r].line = row[s].line /\ row[r].line # 0
    /\ Live(r) /\ Live(s) /\ made[r] = 0 /\ made[s] = 0
    => r = s

=============================================================================
