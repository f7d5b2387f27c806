------------------------------ MODULE Pricing -------------------------------
(***************************************************************************)
(* The school's price list, the prices a student of a class is charged in  *)
(* a term (fees/pricing.py, fees/utils.py), and the requests that write    *)
(* the list and bill on it: the form, the copy to another term, the        *)
(* promotion and the deletion of school_admin/views/fee_pricing.py, with   *)
(* the generation and re-pricing they start (fees/generation.py); fee      *)
(* categories, checkouts and payments change what comes out.               *)
(*                                                                         *)
(* Every request runs in autocommit and looks before it writes; a class,   *)
(* or a student of a whole term, is billed in one step here, and the       *)
(* statements inside that step, like the amounts of a checkout, are the    *)
(* subject of module Billing.                                              *)
(* A reset of invoices is one step too.  Not modelled: FeePriceOverride    *)
(* and prices switched off, which only the Django admin writes.            *)
(***************************************************************************)
EXTENDS Integers, Sequences, FiniteSets

CONSTANTS
  Category,      \* FeeCategory rows
  Category0,     \* their first state
  CategoryForm,  \* what the category form is filled with
  Registration,  \* "Registration Form"
  FirstTermOnly, \* "Christmas/End of Term Party Fee", if there is one
  Class, LevelOf, NoClass, NoLevel,
  Student, Place0,
  SessionOf,     \* the session of each term, in the order of their dates
  Day,           \* dates, as far as prices begin and end on them
  Table0,        \* the first price lists
  Form,          \* what the price form is filled with
  Target,        \* where a price can be promoted to
  Worker,
  MaxRequests,   \* bound on the requests
  MaxChanges,    \* bound on what else happens
  MaxPk,         \* bound on the prices ever inserted
  NoRow          \* a free primary key, an invoice that does not exist

Term == DOMAIN SessionOf
NoTerm == 0
Session == {SessionOf[t] : t \in Term}
Scope == <<"CLASS", "LEVEL", "SCHOOL_WIDE">>
Pk == 1 .. MaxPk
Level == {LevelOf[k] : k \in Class} \cup {NoLevel}

Row == [scope : {"CLASS", "LEVEL", "SCHOOL_WIDE"}, class : Class \cup {NoClass},
        level : Level, term : Term \cup {NoTerm}, cat : Category,
        type : {"NEW", "RETURNING", "ALL"}, amount : Nat, days : SUBSET Day]

Line == [cat : Category, amount : Nat, cycle : {"ONE_TIME", "PER_TERM"}]
CategoryRow == [compulsory : BOOLEAN, cycle : {"ONE_TIME", "PER_TERM"}]

ASSUME PricingAssumption ==
  /\ SessionOf \in Seq(Nat) /\ SessionOf # <<>>
  /\ Category0 \in [Category -> CategoryRow] /\ CategoryForm \subseteq CategoryRow
  /\ FirstTermOnly \subseteq Category
  /\ LevelOf \in [Class -> Level] /\ NoClass \notin Class
  /\ Place0 \in [Student -> [class : Class, session : Session]]
  /\ Form \subseteq Row /\ \A first \in Table0 : first \in Seq(Row)
  /\ Target \subseteq [scope : {"CLASS", "LEVEL"}, class : Class \cup {NoClass},
                       level : Level]
  /\ MaxRequests \in Nat /\ MaxChanges \in Nat /\ MaxPk \in Nat
  /\ \A first \in Table0 : Len(first) <= MaxPk
  /\ \E d \in Day : \A e \in Day : d <= e

VARIABLES
  price,       \* FeePrice
  serial,      \* the last primary key given out
  category,    \* FeeCategory
  place,       \* the current ClassEnrollment of a student
  rolled,      \* the sessions it has an enrolment in
  registered,  \* students with a registration_paid_term
  bill,        \* Invoice with its InvoiceLineItem rows
  paid,        \* the invoices that have a Payment
  now, today,  \* the current term, the date
  job,         \* where each request stands
  started,     \* how many requests were made
  changes,     \* how much else has happened
  raced,       \* history: keys written while another request wrote prices
  wentBack     \* history: students moved to an earlier session

list == <<price, serial>>
people == <<place, rolled, registered>>
money == <<bill, paid>>
clock == <<now, today>>
counts == <<started, changes>>
vars == <<list, category, people, money, clock, job, counts, raced, wentBack>>

-----------------------------------------------------------------------------
(* The resolver *)

Live(p) == price[p] # NoRow

KeyOf(r) == [scope |-> r.scope, class |-> r.class, level |-> r.level,
             term |-> r.term, cat |-> r.cat, type |-> r.type]

\* No two prices of a first list have one key.
ASSUME TableAssumption ==
  \A first \in Table0 : \A p, q \in DOMAIN first :
    p # q => KeyOf(first[p]) # KeyOf(first[q])

Keyed(key) == {p \in Pk : Live(p) /\ KeyOf(price[p]) = key}

Applies(r, k) ==
  \/ r.scope = "CLASS" /\ r.class = k
  \/ r.scope = "LEVEL" /\ r.level = LevelOf[k]
  \/ r.scope = "SCHOOL_WIDE" /\ r.class = NoClass /\ r.level = NoLevel

InEffect(p) == today \in price[p].days

\* The prices that may be charged; "ALL" asks for every type at once.
Eligible(k, type) ==
  {p \in Pk : /\ Live(p) /\ InEffect(p)
              /\ category[price[p].cat].compulsory
              /\ type = "ALL" \/ price[p].type \in {"ALL", type}
              /\ Applies(price[p], k)}

\* The sort key: prices of the term, then those without a term, then those of
\* other terms from the latest back; the narrower scope, the exact type, the
\* older row.
Rank(p, t, type) ==
  LET r == price[p] IN
  <<IF r.term = t THEN 0 ELSE IF r.term = NoTerm THEN 1
                              ELSE 2 + Len(SessionOf) - r.term,
    CHOOSE i \in 1 .. 3 : Scope[i] = r.scope,
    IF type \in {"ALL", r.type} THEN 0 ELSE 1,
    p>>

Before(a, b) ==
  \E i \in 1 .. 4 : a[i] < b[i] /\ \A j \in 1 .. i - 1 : a[j] = b[j]

FirstTerm(t) == \A u \in Term : SessionOf[u] = SessionOf[t] => t <= u

\* One price of each category, the first; the party fee in a first term only.
Resolve(k, t, type) ==
  LET eligible == Eligible(k, type)
      rank == [p \in eligible |-> Rank(p, t, type)]
  IN
  {p \in eligible :
     /\ \A other \in eligible :
          price[other].cat = price[p].cat => ~ Before(rank[other], rank[p])
     /\ price[p].cat \in FirstTermOnly => FirstTerm(t)}

\* resolve_student_type
TypeOf(s, session) ==
  IF (\E earlier \in rolled[s] : earlier < session) \/ s \in registered
  THEN "RETURNING" ELSE "NEW"

\* Mutant: what was billed and not paid does not count.
BilledBeforePaid(s, c, session) ==
  /\ category[c].cycle = "ONE_TIME"
  /\ \E t \in Term : /\ SessionOf[t] < session /\ <<s, t>> \in paid
                     /\ bill[s][t] # NoRow
                     /\ \E l \in bill[s][t] : l.cat = c /\ l.cycle = "ONE_TIME"

\* _is_one_time_already_billed: earlier sessions, and lines marked ONE_TIME.
BilledBefore(s, c, session) ==
  /\ category[c].cycle = "ONE_TIME"
  /\ \E t \in Term : /\ SessionOf[t] < session
                     /\ bill[s][t] # NoRow
                     /\ \E l \in bill[s][t] : l.cat = c /\ l.cycle = "ONE_TIME"

ChargedWith(s, k, t, type) ==
  {p \in Resolve(k, t, type) : ~ BilledBefore(s, price[p].cat, SessionOf[t])}

Charged(s, k, t) == ChargedWith(s, k, t, TypeOf(s, SessionOf[t]))

LineOf(p) == [cat |-> price[p].cat, amount |-> price[p].amount,
              cycle |-> category[price[p].cat].cycle]

-----------------------------------------------------------------------------
(* Requests *)

\* phase, the row of the form (rows still to insert, from a copy those still to
\* look at), the classes or the students to bill; (history) whether nothing that bills depend on,
\* and no price, was changed by others since the request looked.
NoJob == [phase |-> "idle", pk |-> 0, row |-> NoRow, both |-> "no",
          rows |-> <<>>, copies |-> {}, term |-> NoTerm, sync |-> "no",
          todo |-> {}, pupils |-> {}, clean |-> "yes", alone |-> "yes"]

Init ==
  /\ \E first \in Table0 :
       /\ price = [p \in Pk |-> IF p <= Len(first) THEN first[p] ELSE NoRow]
       /\ serial = Len(first)
  /\ category = Category0
  /\ place = Place0
  /\ rolled = [s \in Student |-> {Place0[s].session}]
  /\ registered = {}
  /\ bill = [s \in Student |-> [t \in Term |-> NoRow]]
  /\ paid = {}
  /\ now = 1 /\ today = CHOOSE d \in Day : \A e \in Day : d <= e
  /\ job = [w \in Worker |-> NoJob]
  /\ started = 0 /\ changes = 0 /\ raced = {} /\ wentBack = {}

Move(w, next) == job' = [job EXCEPT ![w] = next]

\* Mark the requests of the others: what they looked at has changed.
StirPrices(w, next) ==
  job' = [o \in Worker |-> IF o = w THEN next
                           ELSE [job[o] EXCEPT !.clean = "no", !.alone = "no"]]

Begin(w, next) ==
  /\ started < MaxRequests /\ job[w].phase = "idle"
  /\ started' = started + 1
  /\ Move(w, next)
  /\ UNCHANGED changes

\* A change of a single step, which no worker is kept for.
AtOnce ==
  /\ changes < MaxChanges
  /\ changes' = changes + 1
  /\ job' = [o \in Worker |-> [job[o] EXCEPT !.clean = "no"]]
  /\ UNCHANGED started

-----------------------------------------------------------------------------
(* The price form *)

\* A price for new pupils in a per-term category is locked to the current term.
Locked(form) ==
  IF form.type = "NEW" /\ category[form.cat].cycle = "PER_TERM"
  THEN [form EXCEPT !.term = now] ELSE form

Twin(r) == [r EXCEPT !.type = IF r.type = "NEW" THEN "RETURNING" ELSE "NEW"]

\* Mutant: the check is made for new prices only.
SubmitPriceUnchecked(w, pk, form, both) ==
  LET row == Locked(form) IN
  /\ Begin(w, [NoJob EXCEPT !.phase = IF pk # 0 THEN "overwrite"
                                      ELSE IF both = "yes" THEN "sibling" ELSE "insert",
                 !.pk = pk, !.row = row, !.both = both, !.sync = "yes",
                 !.term = row.term, !.rows = IF pk = 0 THEN <<row>> ELSE <<>>])
  /\ form.scope # "CLASS" => form.class = NoClass
  /\ pk # 0 => Live(pk)
  /\ pk = 0 => Keyed(KeyOf(row)) = {}
  /\ both = "yes" => row.type # "ALL"
  /\ UNCHANGED <<list, category, people, money, clock, raced, wentBack>>

\* FeePricingCreateView (pk = 0) and FeePricingEditView, up to the check that no
\* other row has the key.
SubmitPrice(w, pk, form, both) ==
  LET row == Locked(form) IN
  /\ Begin(w, [NoJob EXCEPT !.phase = IF pk # 0 THEN "overwrite"
                                      ELSE IF both = "yes" THEN "sibling" ELSE "insert",
                 !.pk = pk, !.row = row, !.both = both, !.sync = "yes",
                 !.term = row.term, !.rows = IF pk = 0 THEN <<row>> ELSE <<>>])
  /\ form.scope # "CLASS" => form.class = NoClass
  /\ pk # 0 => Live(pk)
  /\ Keyed(KeyOf(row)) \subseteq {pk}
  /\ both = "yes" => row.type # "ALL"
  /\ UNCHANGED <<list, category, people, money, clock, raced, wentBack>>

\* The unique index ignores keys with a NULL class or term.
Refused(r, pk) ==
  /\ r.class # NoClass /\ r.term # NoTerm
  /\ \E p \in Keyed(KeyOf(r)) : p # pk

\* The classes a saved price is billed in.
Covered(r) ==
  IF r.term = NoTerm THEN {}
  ELSE CASE r.scope = "CLASS" -> {r.class} \ {NoClass}
         [] r.scope = "LEVEL" -> {k \in Class : r.level # NoLevel
                                                /\ LevelOf[k] = r.level}
         [] OTHER -> Class

\* What comes after the last row is in.
Saved(j) == IF j.copies # {} THEN [j EXCEPT !.phase = "copy", !.rows = <<>>]
            ELSE IF j.sync = "yes" /\ Covered(j.row) # {}
                 THEN [j EXCEPT !.phase = "generate", !.rows = <<>>,
                                !.todo = Covered(j.row)]
            ELSE NoJob

Tainted(j, rows) ==
  raced' = IF j.alone = "yes" THEN raced ELSE raced \cup {KeyOf(r) : r \in rows}

\* price.save() of an edit, which also revives a row that was deleted.
Overwrite(w) ==
  LET j == job[w]
      next == IF j.both = "yes" THEN [j EXCEPT !.phase = "sibling"] ELSE Saved(j)
  IN
  /\ j.phase = "overwrite"
  /\ IF Refused(j.row, j.pk)
     THEN Move(w, NoJob) /\ UNCHANGED <<price, raced>>
     ELSE /\ price' = [price EXCEPT ![j.pk] = j.row]
          /\ StirPrices(w, next)
          /\ Tainted(j, {j.row})
  /\ UNCHANGED <<serial, category, people, money, clock, counts, wentBack>>

\* get_or_create of the price for the other type; two of them break the request,
\* which undoes a creation but not an edit.
ReadSibling(w) ==
  LET j == job[w] twins == Keyed(KeyOf(Twin(j.row))) IN
  /\ j.phase = "sibling"
  /\ Move(w, IF Cardinality(twins) > 1 THEN NoJob
             ELSE [j EXCEPT !.phase = "insert",
                            !.rows = IF twins = {} THEN Append(@, Twin(j.row))
                                                   ELSE @])
  /\ UNCHANGED <<list, category, people, money, clock, counts, raced, wentBack>>

\* The rows go in, or the unique index refuses one: none is, and the request ends.
Insert(w) ==
  LET j == job[w] IN
  /\ j.phase = "insert"
  /\ serial + Len(j.rows) <= MaxPk
  /\ IF \E i \in DOMAIN j.rows : Refused(j.rows[i], 0)
     THEN Move(w, NoJob) /\ UNCHANGED <<list, raced>>
     ELSE /\ price' = [p \in Pk |-> IF p - serial \in DOMAIN j.rows
                                    THEN j.rows[p - serial] ELSE price[p]]
          /\ serial' = serial + Len(j.rows)
          /\ StirPrices(w, Saved(j))
          /\ Tainted(j, {j.rows[i] : i \in DOMAIN j.rows})
  /\ UNCHANGED <<category, people, money, clock, counts, wentBack>>

-----------------------------------------------------------------------------
(* Copy, promotion, deletion *)

\* FeePricingBulkCopyView: the prices of a term, then one after the other.
CopyTerm(w, from, to) ==
  /\ from # to
  /\ {p \in Pk : Live(p) /\ price[p].term = from} # {}
  /\ Begin(w, [NoJob EXCEPT !.phase = "copy", !.term = to,
                 !.copies = {price[p] : p \in {p \in Pk : Live(p)
                                               /\ price[p].term = from}}])
  /\ UNCHANGED <<list, category, people, money, clock, raced, wentBack>>

CopyRow(w, r) ==
  LET j == job[w]
      copy == [r EXCEPT !.term = j.term, !.days = Day]
      rest == [j EXCEPT !.copies = @ \ {r}, !.clean = "yes", !.alone = "yes"]
  IN
  /\ j.phase = "copy" /\ r \in j.copies
  /\ Move(w, IF Keyed(KeyOf(copy)) = {}
             THEN [rest EXCEPT !.phase = "insert", !.rows = <<copy>>]
             ELSE Saved(rest))
  /\ UNCHANGED <<list, category, people, money, clock, counts, raced, wentBack>>

\* FeePricingPromoteView: a school-wide price, once more for a class or a level.
\* Nothing is billed.
Promote(w, p, target) ==
  LET row == [price[p] EXCEPT !.scope = target.scope, !.class = target.class,
                              !.level = target.level, !.days = Day]
  IN
  /\ Live(p) /\ price[p].scope = "SCHOOL_WIDE"
  /\ target.scope = "CLASS" => target.class # NoClass
  /\ target.scope = "LEVEL" => target.level # NoLevel
  /\ Keyed(KeyOf(row)) = {}
  /\ Begin(w, [NoJob EXCEPT !.phase = "insert", !.rows = <<row>>])
  /\ UNCHANGED <<list, category, people, money, clock, raced, wentBack>>

\* FeePricingDeleteView: bills stay as they are.
DeletePrice(p) ==
  /\ Live(p)
  /\ changes < MaxChanges /\ changes' = changes + 1
  /\ price' = [price EXCEPT ![p] = NoRow]
  /\ job' = [o \in Worker |-> [job[o] EXCEPT !.clean = "no", !.alone = "no"]]
  /\ UNCHANGED <<started, serial, category, people, money, clock, raced, wentBack>>

-----------------------------------------------------------------------------
(* Billing a class *)

Pupils(k, t) ==
  {s \in Student : place[s] = [class |-> k, session |-> SessionOf[t]]}

\* Each pupil of the class that is charged something is billed that.
BillThem(pupils, k, t) ==
  bill' = [s \in Student |->
             LET due == IF s \in pupils THEN Charged(s, k, t) ELSE {} IN
             IF due = {} THEN bill[s]
             ELSE [bill[s] EXCEPT ![t] = {LineOf(p) : p \in due}]]

\* GenerateInvoicesView: the active students with a current enrolment in the
\* term's session.  Statuses are kept in module Enrolment; any may be active here.
GenerateTerm(w, t, active) ==
  /\ Begin(w, [NoJob EXCEPT !.phase = "term", !.term = t,
                 !.pupils = {s \in active : place[s].session = SessionOf[t]}])
  /\ UNCHANGED <<list, category, people, money, clock, raced, wentBack>>

\* generate_invoices_for_term: one student after the other, in the class the
\* student is in by now.
GenerateStudent(w, s) ==
  LET j == job[w] k == place[s].class IN
  /\ j.phase = "term" /\ s \in j.pupils
  /\ BillThem({x \in Pupils(k, j.term) \cap {s} : bill[x][j.term] = NoRow},
              k, j.term)
  /\ Move(w, [j EXCEPT !.pupils = @ \ {s}])
  /\ UNCHANGED <<list, category, people, paid, clock, counts, raced, wentBack>>

\* After the last class, re-pricing begins, or the request is answered:
\* "... invoice(s) generated, ... unpaid invoice(s) re-priced."
NextClass(j, k) ==
  IF j.todo # {k} THEN [j EXCEPT !.todo = @ \ {k}]
  ELSE IF j.phase = "generate"
       THEN [j EXCEPT !.phase = "sync", !.todo = Covered(j.row)]
  ELSE [j EXCEPT !.phase = "answer", !.todo = {}]

\* generate_invoices_for_class: those without an invoice.
GenerateClass(w, k) ==
  LET j == job[w] IN
  /\ j.phase = "generate" /\ k \in j.todo
  /\ BillThem({s \in Pupils(k, j.term) : bill[s][j.term] = NoRow}, k, j.term)
  /\ Move(w, NextClass(j, k))
  /\ UNCHANGED <<list, category, people, paid, clock, counts, raced, wentBack>>

\* Mutant: re-pricing takes every pupil for a returning one.
SyncClassReturning(w, k) ==
  LET j == job[w] IN
  /\ j.phase = "sync" /\ k \in j.todo
  /\ bill' = [s \in Student |-> [bill[s] EXCEPT ![j.term] =
       LET due == ChargedWith(s, k, j.term, "RETURNING") IN
       IF /\ s \in Pupils(k, j.term) /\ @ # NoRow
          /\ <<s, j.term>> \notin paid /\ due # {}
       THEN {LineOf(p) : p \in due} ELSE @]]
  /\ Move(w, NextClass(j, k))
  /\ UNCHANGED <<list, category, people, paid, clock, counts, raced, wentBack>>

\* sync_class_invoices: those with an invoice and no payment.
SyncClass(w, k) ==
  LET j == job[w] IN
  /\ j.phase = "sync" /\ k \in j.todo
  /\ BillThem({s \in Pupils(k, j.term) : /\ bill[s][j.term] # NoRow
                                         /\ <<s, j.term>> \notin paid},
              k, j.term)
  /\ Move(w, NextClass(j, k))
  /\ UNCHANGED <<list, category, people, paid, clock, counts, raced, wentBack>>

Done(w) ==
  /\ job[w].phase \in {"answer", "term"} /\ job[w].pupils = {}
  /\ Move(w, NoJob)
  /\ UNCHANGED <<list, category, people, money, clock, counts, raced, wentBack>>

-----------------------------------------------------------------------------
(* What else changes the bills and the prices *)

\* FeeCategoryEditView
EditCategory(c, form) ==
  /\ AtOnce
  /\ form # category[c]
  /\ category' = [category EXCEPT ![c] = form]
  /\ UNCHANGED <<list, people, money, clock, raced, wentBack>>

\* A student is put into a class of a session: by a form, which bills the current
\* term, or by a promotion, which does not.
Enrol(s, k, session, form) ==
  /\ AtOnce
  /\ place' = [place EXCEPT ![s] = [class |-> k, session |-> session]]
  /\ rolled' = [rolled EXCEPT ![s] = @ \cup {session}]
  /\ wentBack' = IF \E later \in rolled[s] : later > session
                 THEN wentBack \cup {s} ELSE wentBack
  /\ IF form /\ session = SessionOf[now] /\ bill[s][now] = NoRow
     THEN LET due == ChargedWith(s, k, now, TypeOf(s, session))
          IN  bill' = [bill EXCEPT ![s][now] =
                         IF due = {} THEN @ ELSE {LineOf(p) : p \in due}]
     ELSE UNCHANGED bill
  /\ UNCHANGED <<list, category, registered, paid, clock, raced>>

\* _applicable_fee_structures: the resolved price of a category, whatever was
\* billed before; of an optional one any row of the term in the narrowest scope,
\* whether it is in effect or not, and never one for a level.
Applicable(s, t, c) ==
  LET k == place[s].class
      type == TypeOf(s, SessionOf[now])
      resolved == IF category[c].compulsory
                  THEN {p \in Resolve(k, t, type) : price[p].cat = c} ELSE {}
      optional(scope) ==
        {p \in Pk : /\ Live(p) /\ price[p].cat = c /\ price[p].term = t
                    /\ ~ category[c].compulsory
                    /\ price[p].scope = scope /\ Applies(price[p], k)
                    /\ price[p].type \in {"ALL", type}}
  IN  IF resolved # {} THEN resolved
      ELSE IF optional("CLASS") # {} THEN optional("CLASS")
      ELSE optional("SCHOOL_WIDE")

\* The categories a checkout page shows for a term, also those billed already.
Offered(s, t) == {c \in Category : Applicable(s, t, c) # {}}

\* The cart: categories of the current term and of the next, and a bundle of all
\* there are for the term.
Cart(s) ==
  [extra |-> Offered(s, now),
   next |-> IF now + 1 \in Term THEN Offered(s, now + 1) ELSE {},
   bundle |-> IF Offered(s, now) = {} THEN {} ELSE {now}]

Billed(s, t) == IF bill[s][t] = NoRow THEN {} ELSE bill[s][t]

\* reconcile_checkout, as far as it concerns the lines: prices of the selected
\* categories that are not on the invoice.  The new lines carry no
\* billing_cycle of their own.
AddLines(s, t, prices) ==
  bill' = [bill EXCEPT ![s][t] = Billed(s, t) \cup
    {[cat |-> price[p].cat, amount |-> price[p].amount, cycle |-> "PER_TERM"] :
       p \in {p \in prices : \A l \in Billed(s, t) : l.cat # price[p].cat}}]

Checkout(s, t, c) ==
  /\ AtOnce
  /\ \/ t = now /\ c \in Cart(s).extra
     \/ t = now + 1 /\ c \in Cart(s).next
  /\ \E p \in Applicable(s, t, c) : AddLines(s, t, {p})
  /\ UNCHANGED <<list, category, people, paid, clock, raced, wentBack>>

\* A bundle is the categories of the term it was shown for, which may no longer be
\* the current one, and goes on the invoice of the term that is.
CheckoutBundle(s, shown) ==
  /\ AtOnce
  /\ shown = now => Cart(s).bundle # {}
  /\ \E bundle \in [Offered(s, shown) -> Pk] :
       /\ \A c \in DOMAIN bundle : bundle[c] \in Applicable(s, shown, c)
       /\ AddLines(s, now, {bundle[c] : c \in DOMAIN bundle})
  /\ UNCHANGED <<list, category, people, paid, clock, raced, wentBack>>

\* InvoiceResetService: the invoices, payments and lines of a term, of a class or
\* a student in it, or of the school are gone; what was billed may come again.
Reset(students, terms) ==
  /\ AtOnce
  /\ bill' = [s \in Student |-> [t \in Term |->
       IF s \in students /\ t \in terms THEN NoRow ELSE bill[s][t]]]
  /\ paid' = paid \ (students \X terms)
  /\ UNCHANGED <<list, category, people, clock, raced, wentBack>>

\* The items an administrator can tick for a student: resolved prices, but no
\* one-time fee that is on any invoice; per-term lines of the current invoice;
\* of a chosen invoice the lines that are not one-time.
EverBilled(s, c) == \E t \in Term : \E l \in Billed(s, t) :
                      l.cat = c /\ l.cycle = "ONE_TIME"

PriceItems(s, type) ==
  {c \in {price[p].cat : p \in ChargedWith(s, place[s].class, now, type)} :
     ~ (category[c].cycle = "ONE_TIME" /\ EverBilled(s, c))}

LineItems(s, t) == {l.cat : l \in {l \in Billed(s, t) : l.cycle = "PER_TERM"}}

\* StudentRecordPaymentView: whether the registration is among the ticked items
\* (form) decides who has paid it; the payment goes to an invoice that may be
\* another one, or to none.
RecordPayment(s, form, t) ==
  /\ AtOnce
  /\ form => \/ \E type \in {"NEW", "RETURNING"} :
                  Registration \in PriceItems(s, type)
             \/ \E u \in Term : Registration \in LineItems(s, u)
  /\ t = NoTerm \/ (t \in Term /\ bill[s][t] # NoRow)
  /\ paid' = IF t = NoTerm THEN paid ELSE paid \cup {<<s, t>>}
  /\ registered' = IF form THEN registered \cup {s} ELSE registered
  /\ UNCHANGED <<list, category, place, rolled, bill, clock, raced, wentBack>>

\* TermSetCurrentView
SetCurrentTerm(t) ==
  /\ t # now
  /\ AtOnce
  /\ now' = t
  /\ UNCHANGED <<list, category, people, money, today, raced, wentBack>>

NextDay ==
  /\ today + 1 \in Day
  /\ AtOnce
  /\ today' = today + 1
  /\ UNCHANGED <<list, category, people, money, now, raced, wentBack>>

-----------------------------------------------------------------------------
Work(w) ==
  \/ Overwrite(w) \/ ReadSibling(w) \/ Insert(w) \/ Done(w)
  \/ \E r \in job[w].copies : CopyRow(w, r)
  \/ \E k \in job[w].todo : GenerateClass(w, k) \/ SyncClass(w, k)
  \/ \E s \in job[w].pupils : GenerateStudent(w, s)

Request ==
  \/ \E w \in Worker, pk \in {0} \cup Pk, form \in Form, both \in {"yes", "no"} :
       SubmitPrice(w, pk, form, both)
  \/ \E w \in Worker, t \in Term :
       \/ \E active \in SUBSET Student : GenerateTerm(w, t, active)
       \/ \E u \in Term : CopyTerm(w, u, t)
  \/ \E w \in Worker, p \in Pk, target \in Target : Promote(w, p, target)

Change ==
  \/ \E p \in Pk : DeletePrice(p)
  \/ \E c \in Category, form \in CategoryForm : EditCategory(c, form)
  \/ \E s \in Student, k \in Class, session \in Session, form \in BOOLEAN :
       Enrol(s, k, session, form)
  \/ \E s \in Student, t \in Term :
       CheckoutBundle(s, t) \/ \E c \in Category : Checkout(s, t, c)
  \/ \E t \in Term, k \in Class, s \in Student :
       Reset(Student, {t}) \/ Reset(Pupils(k, t), {t}) \/ Reset({s}, {t})
  \/ Reset(Student, Term)
  \/ \E s \in Student, form \in BOOLEAN, t \in Term \cup {NoTerm} :
       RecordPayment(s, form, t)
  \/ NextDay \/ \E t \in Term : SetCurrentTerm(t)

Next ==
  \/ \E w \in Worker : Work(w)
  \/ started < MaxRequests /\ Request
  \/ changes < MaxChanges /\ Change

Spec == Init /\ [][Next]_vars

-----------------------------------------------------------------------------
(* The price list page *)

\* Mutant: any row of the category for the other type will do.
LonelyAnywhere(p) ==
  /\ price[p].type # "ALL"
  /\ ~ \E q \in Pk : /\ Live(q) /\ price[q].cat = price[p].cat
                     /\ price[q].type = Twin(price[p]).type

\* A price for one type of student that has no row for the other type beside it.
Lonely(p) == price[p].type # "ALL" /\ Keyed(KeyOf(Twin(price[p]))) = {}

\* A compulsory category without a price where it belongs.
Unpriced(c) ==
  /\ category[c].compulsory
  /\ ~ \E p \in Pk : /\ Live(p) /\ price[p].cat = c
                     /\ price[p].term = IF category[c].cycle = "ONE_TIME"
                                        THEN NoTerm ELSE now

\* _get_pricing_warnings
Warned == {c \in Category : Unpriced(c)}
            \cup {price[p].cat : p \in {p \in Pk : Live(p) /\ Lonely(p)}}

-----------------------------------------------------------------------------
(* Properties *)

PricingTypeOK ==
  /\ price \in [Pk -> Row \cup {NoRow}] /\ serial \in 0 .. MaxPk
  /\ category \in [Category -> CategoryRow]
  /\ place \in [Student -> [class : Class, session : Session]]
  /\ rolled \in [Student -> SUBSET Session] /\ registered \subseteq Student
  /\ bill \in [Student -> [Term -> (SUBSET Line) \cup {NoRow}]]
  /\ paid \subseteq Student \X Term
  /\ now \in Term /\ today \in Day
  /\ started \in 0 .. MaxRequests /\ changes \in 0 .. MaxChanges
  /\ wentBack \subseteq Student

\* Two prices never claim the same place: what the unique index cannot see, the
\* class or the term being NULL, the checks of form, copy and promotion keep out,
\* unless another request wrote prices between a check and its insert.
NoTwins ==
  \A p, q \in Pk :
    p # q /\ Live(p) /\ Live(q) /\ KeyOf(price[p]) = KeyOf(price[q])
      => KeyOf(price[p]) \in raced

\* "Invoices generated, unpaid invoices re-priced": when the form says so, every
\* pupil of the classes the price covers, for whom no money was taken, is billed
\* what the resolver charges it now, if nobody else changed anything meanwhile.
AnswerIsTrue ==
  \A w \in Worker :
    LET j == job[w] IN
    j.phase = "answer" /\ j.sync = "yes" /\ j.clean = "yes" =>
      \A k \in Covered(j.row) : \A s \in Pupils(k, j.term) :
        LET due == Charged(s, k, j.term) IN
        <<s, j.term>> \notin paid /\ due # {}
          => bill[s][j.term] = {LineOf(p) : p \in due}

\* A one-time fee that the generator billed in a session is not billed by it in a
\* later one, however prices, categories and classes change and whatever is
\* re-priced in between, as long as the student is not moved back.
OneTimeOnce ==
  \A s \in Student \ wentBack, t, u \in Term :
    SessionOf[t] < SessionOf[u] =>
      ~ \E l \in Billed(s, t), m \in Billed(s, u) :
          l.cat = m.cat /\ l.cycle = "ONE_TIME" /\ m.cycle = "ONE_TIME"

\* The page warns of every fee that one type of student is charged now and the
\* other is not, unless the other type's price is there and not in effect.
NoSilentGap ==
  \A k \in Class :
    LET charged == [type \in {"NEW", "RETURNING"} |-> Resolve(k, now, type)] IN
    \A type \in DOMAIN charged :
      LET other == IF type = "NEW" THEN "RETURNING" ELSE "NEW" IN
      \A p \in charged[type] :
        \/ \E q \in charged[other] : price[q].cat = price[p].cat
        \/ price[p].cat \in Warned
        \/ \E q \in Pk : /\ Live(q) /\ ~ InEffect(q)
                         /\ price[q].cat = price[p].cat /\ price[q].type = other

=============================================================================
