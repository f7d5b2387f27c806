------------------------------ MODULE Billing -------------------------------
(***************************************************************************)
(* The invoices of one student for the current and the next term, and the  *)
(* requests that bill on them: the checkout of fees/checkout.py, the       *)
(* generator and the re-pricing of fees/generation.py, and the payments    *)
(* that are recorded meanwhile.                                            *)
(*                                                                         *)
(* A checkout is one transaction at READ COMMITTED: it copies the total,   *)
(* looks for each category whether it is billed, writes the total it       *)
(* computed, takes no lock before that write, and asks for the balances    *)
(* anew whenever it needs one.  What it writes is seen by others, and its  *)
(* row lock released, when it commits.  The generator and the re-pricing   *)
(* run in autocommit, one statement after the other.                       *)
(***************************************************************************)
EXTENDS Integers, FiniteSets, FiniteSetsExt

CONSTANTS
  Category,    \* fee categories with a price for the student's class
  Compulsory,  \* those that every invoice is generated with
  Amount,      \* prices
  Price0,      \* the first price of each category
  Cart,        \* selections a payer submits
  Entered,     \* amounts a payer or an administrator enters
  Pay,         \* Payment rows
  Request,     \* requests in flight at the same time
  MaxRequests, \* bound on the billing requests
  MaxCrashes   \* bound on the requests that die half-way

Term == {"current", "next"}

ASSUME BillingAssumption ==
  /\ IsFiniteSet(Category) /\ IsFiniteSet(Pay)
  /\ Compulsory \subseteq Category /\ Compulsory # {}
  /\ Amount \subseteq Nat \ {0}
  /\ Price0 \in [Category -> Amount]
  /\ Entered \subseteq Nat \ {0}
  /\ Cart \subseteq [outstanding : BOOLEAN, extras : [Category -> Nat],
                     bundle : BOOLEAN, next : SUBSET Category]
  /\ MaxRequests \in Nat /\ MaxCrashes \in Nat

VARIABLES
  price,     \* the FeePrice of a category in a term
  invoice,   \* Invoice.total_amount of a term, or NoInvoice
  lines,     \* its InvoiceLineItem rows: how many of a category, for how much
  payment,   \* the Payment rows of these invoices
  job,       \* the request each worker is serving
  started,   \* how many billing requests were made
  crashes,   \* how many of them died
  tangled    \* the terms on which two requests have overlapped

vars == <<price, invoice, lines, payment, job, started, crashes, tangled>>
records == <<price, invoice, lines, payment>>
history == <<started, crashes, tangled>>

-----------------------------------------------------------------------------
NoInvoice == -1
NoLines == [c \in Category |-> [count |-> 0, sum |-> 0]]
\* What is selected: how often each extra, and which items of the next term.
NoCart == [outstanding |-> FALSE, extras |-> [c \in Category |-> 0],
           bundle |-> FALSE, next |-> {}]

PaymentRow == [status : {"ABSENT", "PENDING", "CONFIRMED", "FAILED"},
               term : Term, amount : Int]

Prices == [Term -> [Category -> Amount]]
Phase == {"idle",
          "open", "check", "write",                       \* reconcile_checkout
          "sum", "cap", "trim", "cut", "commit", "pay",
          "exists", "create", "lines",                    \* generate_invoice...
          "select", "clear", "relines"}                   \* sync_class_invoices

Job == [phase : Phase, reprice : BOOLEAN, term : Term,
        cart : Cart \cup {NoCart}, amount : Entered \cup {0}, price : Prices,
        seen : [Term -> Nat], fresh : [Term -> [Category -> Nat]],
        made : SUBSET Term, held : SUBSET Term, todo : SUBSET Category,
        total : Int, due : [Term -> Int], steady : BOOLEAN,
        share : [Term -> Int]]

BillingTypeOK ==
  /\ price \in Prices
  /\ invoice \in [Term -> Nat \cup {NoInvoice}]
  /\ lines \in [Term -> [Category -> [count : Nat, sum : Nat]]]
  /\ payment \in [Pay -> PaymentRow]
  /\ job \in [Request -> Job]
  /\ started \in 0 .. MaxRequests /\ crashes \in 0 .. MaxCrashes
  /\ tangled \subseteq Term

NoJob ==
  [phase |-> "idle", reprice |-> FALSE, term |-> "current", cart |-> NoCart,
   amount |-> 0, price |-> [t \in Term |-> Price0],
   seen |-> [t \in Term |-> 0],
   fresh |-> [t \in Term |-> [c \in Category |-> 0]],
   made |-> {}, held |-> {}, todo |-> {},
   total |-> 0, due |-> [t \in Term |-> 0], steady |-> TRUE,
   share |-> [t \in Term |-> 0]]

Init ==
  /\ price = [t \in Term |-> Price0]
  /\ invoice = [t \in Term |-> NoInvoice]
  /\ lines = [t \in Term |-> NoLines]
  /\ payment = [p \in Pay |->
                 [status |-> "ABSENT", term |-> "current", amount |-> 0]]
  /\ job = [q \in Request |-> NoJob]
  /\ started = 0 /\ crashes = 0 /\ tangled = {}

-----------------------------------------------------------------------------
(* Sums and balances *)

Exists(t) == invoice[t] # NoInvoice

LineSum(ls) == SumFunction([c \in Category |-> ls[c].sum])

PriceOf(ps, cats) == SumFunctionOnSet(ps, cats)

PaymentsOf(t) ==
  {p \in Pay : payment[p].status # "ABSENT" /\ payment[p].term = t}

\* amount_paid: only CONFIRMED payments count.
AmountPaid(t) ==
  SumFunctionOnSet([p \in Pay |-> payment[p].amount],
                   {p \in PaymentsOf(t) : payment[p].status = "CONFIRMED"})

Balance(t) == invoice[t] - AmountPaid(t)

\* quantize(Decimal('0.01'), ROUND_HALF_UP) of n / d, for d > 0: halves go away
\* from zero.
HalfUp(n, d) == IF n >= 0 THEN (2 * n + d) \div (2 * d)
                          ELSE - ((d - 2 * n) \div (2 * d))

Move(q, next) == job' = [job EXCEPT ![q] = next]

-----------------------------------------------------------------------------
(* Which terms a request bills on, and when two of them overlap *)

CartTerms(cart) ==
  {t \in Term : IF t = "next" THEN cart.next # {}
                ELSE \/ cart.outstanding \/ cart.bundle
                     \/ \E c \in Category : cart.extras[c] > 0}

First(cart) == IF "current" \in CartTerms(cart) THEN "current" ELSE "next"

Touched(j) == IF j.phase = "idle" THEN {}
              ELSE IF j.cart # NoCart THEN CartTerms(j.cart) ELSE {j.term}

Begin(q, j) ==
  /\ job[q].phase = "idle"
  /\ started < MaxRequests
  /\ started' = started + 1
  /\ tangled' = tangled \cup
       (Touched(j) \cap UNION {Touched(job[other]) : other \in Request})
  /\ Move(q, j)
  /\ UNCHANGED crashes

-----------------------------------------------------------------------------
(* reconcile_checkout *)

\* CheckoutSubmitView: prices are resolved before the transaction begins.
SubmitCheckout(q, cart, amount) ==
  /\ CartTerms(cart) # {}
  /\ Begin(q, [NoJob EXCEPT !.phase = "open", !.cart = cart, !.amount = amount,
                            !.price = price, !.term = First(cart)])
  /\ UNCHANGED records

\* Whose commit a request waits for: of an invoice it inserts too, or of a row
\* it is about to update.
WaitsFor(q, other) ==
  LET j == job[q]
      t == j.term
      inserts == \/ j.phase = "create"
                 \/ j.phase = "open" /\ ~ Exists(t)
                    /\ ~ (t = "current" /\ j.cart.outstanding)
      updates == \/ j.phase = "write"
                 \/ j.phase = "relines" /\ j.todo = {}
  IN  /\ other # q
      /\ \/ inserts /\ t \in job[other].made
         \/ updates /\ t \in job[other].held

Unhindered(q) == \A other \in Request : ~ WaitsFor(q, other)

\* How often a cart asks for a category: as an extra and in the bundle, or
\* among the next term's items, where a repeated one finds itself billed.
Wanted(cart, t, c) ==
  IF t = "next" THEN IF c \in cart.next THEN 1 ELSE 0
  ELSE cart.extras[c] + (IF cart.bundle THEN 1 ELSE 0)

\* get_or_create, or the outstanding invoice: it must be there and owe money.
OpenInvoice(q) ==
  LET t == job[q].term
      opened == [job[q] EXCEPT !.phase = "check",
                   !.todo = {c \in Category : Wanted(job[q].cart, t, c) > 0}]
      found == [opened EXCEPT !.seen[t] = invoice[t]]
  IN
  /\ job[q].phase = "open" /\ Unhindered(q)
  /\ IF t = "current" /\ job[q].cart.outstanding
     THEN Move(q, IF Exists(t) /\ Balance(t) > 0 THEN found ELSE NoJob)
     ELSE Move(q, IF Exists(t) THEN found
                  ELSE [opened EXCEPT !.made = @ \cup {t}])
  /\ UNCHANGED <<records, history>>

\* An item to bill: its line is inserted and the copied total grows.  Of the
\* current term the new lines follow when all items have been looked at.
Billed(j, c, count) ==
  [j EXCEPT !.todo = @ \ {c}, !.fresh[j.term][c] = count,
            !.seen[j.term] = @ + count * j.price[j.term][c],
            !.phase = IF j.term = "next" /\ count > 0 THEN "write" ELSE "check"]

\* Mutant: nobody asks what is billed already.
CheckItemNever(q, c) ==
  /\ job[q].phase = "check" /\ c \in job[q].todo
  /\ Move(q, Billed(job[q], c, Wanted(job[q].cart, job[q].term, c)))
  /\ UNCHANGED <<records, history>>

\* already_billed is asked for every item.
CheckItem(q, c) ==
  LET j == job[q] IN
  /\ j.phase = "check" /\ c \in j.todo
  /\ Move(q, Billed(j, c, IF lines[j.term][c].count = 0
                          THEN Wanted(j.cart, j.term, c) ELSE 0))
  /\ UNCHANGED <<records, history>>

\* From this term's invoice to the next one's, and then to the balances.
Onwards(j) ==
  IF j.term = "current" /\ j.cart.next # {}
  THEN [j EXCEPT !.phase = "open", !.term = "next"]
  ELSE [j EXCEPT !.phase = "sum", !.term = First(j.cart)]

NothingFresh == [c \in Category |-> 0]

ItemsChecked(q) ==
  LET j == job[q] IN
  /\ j.phase = "check" /\ j.todo = {}
  /\ Move(q, IF j.term = "current" /\ j.fresh["current"] # NothingFresh
             THEN [j EXCEPT !.phase = "write"] ELSE Onwards(j))
  /\ UNCHANGED <<records, history>>

\* The total is the copied one plus what was added; its row stays locked.  The
\* next term's is saved after each of its items.
WriteTotal(q) ==
  LET j == job[q]
      written == [j EXCEPT !.held = @ \cup {j.term}]
  IN
  /\ j.phase = "write" /\ Unhindered(q)
  /\ Move(q, IF j.term = "next" THEN [written EXCEPT !.phase = "check"]
                               ELSE Onwards(written))
  /\ UNCHANGED <<records, history>>

-----------------------------------------------------------------------------
(* The cap and the shares: every balance is a query of its own *)

Due(j, t) == j.seen[t] - AmountPaid(t)

\* A balance that was asked for again, and whether it still is what it was.
Again(j, t) == [j EXCEPT !.due[t] = Due(j, t),
                         !.steady = @ /\ Due(j, t) = j.due[t]]

SumBalance(q) ==
  LET j == job[q]
      t == j.term
      summed == [j EXCEPT !.due[t] = Due(j, t), !.total = @ + Due(j, t)]
  IN
  /\ j.phase = "sum"
  /\ Move(q, IF t = "current" /\ "next" \in CartTerms(j.cart)
             THEN [summed EXCEPT !.term = "next"]
             ELSE [summed EXCEPT !.phase = "cap"])
  /\ UNCHANGED <<records, history>>

\* The cap refuses, and the transaction with its invoices and lines is undone.
RefuseAmount(q) ==
  /\ job[q].phase = "cap"
  /\ job[q].amount > job[q].total
  /\ Move(q, NoJob)
  /\ UNCHANGED <<records, history>>

\* One invoice gets it all.
PayOneInvoice(q) ==
  LET j == job[q] IN
  /\ j.phase = "cap" /\ j.amount <= j.total
  /\ CartTerms(j.cart) # Term
  /\ Move(q, [j EXCEPT !.phase = "commit",
                !.share = [t \in Term |-> IF t \in CartTerms(j.cart)
                                         THEN j.amount ELSE 0]])
  /\ UNCHANGED <<records, history>>

Shared(j, t, share) ==
  [j EXCEPT !.share = [u \in Term |-> IF u = t THEN share
                                             ELSE j.amount - share]]

\* Two invoices share in proportion to what they owe, rounded.
TakeShare(q) ==
  LET j == job[q]
      due == Due(j, "current")
  IN
  /\ j.phase = "cap" /\ j.amount <= j.total
  /\ CartTerms(j.cart) = Term
  /\ Move(q, [Shared(Again(j, "current"), "current",
                     HalfUp(j.amount * due, j.total))
              EXCEPT !.phase = "trim", !.term = "current"])
  /\ UNCHANGED <<records, history>>

\* After this term's share the next one's.
Trimmed(j) == IF j.term = "current" THEN [j EXCEPT !.phase = "trim", !.term = "next"]
                                    ELSE [j EXCEPT !.phase = "commit"]

\* Mutant: the remainder is not compared with what the next term owes.
TrimShareFirst(q) ==
  LET j == Again(job[q], job[q].term) IN
  /\ job[q].phase = "trim"
  /\ Move(q, IF j.term = "current" /\ j.share[j.term] > Due(j, j.term)
             THEN [j EXCEPT !.phase = "cut"] ELSE Trimmed(j))
  /\ UNCHANGED <<records, history>>

\* Is a share more than its invoice owes?
TrimShare(q) ==
  LET j == Again(job[q], job[q].term) IN
  /\ job[q].phase = "trim"
  /\ Move(q, IF j.share[j.term] > Due(j, j.term)
             THEN [j EXCEPT !.phase = "cut"] ELSE Trimmed(j))
  /\ UNCHANGED <<records, history>>

\* Then it is what the invoice owes, and the other one takes the rest.
CutShare(q) ==
  LET j == Again(job[q], job[q].term) IN
  /\ job[q].phase = "cut"
  /\ Move(q, Trimmed(Shared(j, j.term, Due(j, j.term))))
  /\ UNCHANGED <<records, history>>

\* What a checkout adds to the total of a term.
Added(j, t) == SumFunction([c \in Category |-> j.fresh[t][c] * j.price[t][c]])

Grown(ls, fresh, ps) ==
  [c \in Category |-> [count |-> ls[c].count + fresh[c],
                       sum |-> ls[c].sum + fresh[c] * ps[c]]]

\* Mutant: the lines are stored, the total is not.
CommitLines(q) ==
  LET j == job[q] IN
  /\ j.phase = "commit"
  /\ invoice' = [t \in Term |-> IF t \in j.made THEN 0 ELSE invoice[t]]
  /\ lines' = [t \in Term |-> Grown(lines[t], j.fresh[t], j.price[t])]
  /\ Move(q, [j EXCEPT !.phase = "pay", !.made = {}, !.held = {}])
  /\ UNCHANGED <<price, payment, history>>

CommitCheckout(q) ==
  LET j == job[q] IN
  /\ j.phase = "commit"
  /\ invoice' = [t \in Term |-> IF t \in j.made \cup j.held THEN j.seen[t]
                                                            ELSE invoice[t]]
  /\ lines' = [t \in Term |-> Grown(lines[t], j.fresh[t], j.price[t])]
  /\ Move(q, [j EXCEPT !.phase = "pay", !.made = {}, !.held = {}])
  /\ UNCHANGED <<price, payment, history>>

-----------------------------------------------------------------------------
(* Payments *)

Pending(t, amount) == [status |-> "PENDING", term |-> t, amount |-> amount]
Free(p) == payment[p].status = "ABSENT"

\* One PENDING row for every invoice of the cart, in one transaction.
PayShares(q, rowOf) ==
  LET terms == CartTerms(job[q].cart) IN
  /\ job[q].phase = "pay"
  /\ \A t \in terms : Free(rowOf[t])
  /\ terms = Term => rowOf["current"] # rowOf["next"]
  /\ payment' = [p \in Pay |->
       IF \E t \in terms : rowOf[t] = p
       THEN LET t == CHOOSE t \in terms : rowOf[t] = p
            IN  Pending(t, job[q].share[t])
       ELSE payment[p]]
  /\ Move(q, NoJob)
  /\ UNCHANGED <<price, invoice, lines, history>>

\* No proof of the transfer, Paystack unreachable, or a recent PENDING payment
\* of the same amount that is used again: the bill stays, no row is added.
PayNothing(q) ==
  /\ job[q].phase = "pay"
  /\ Move(q, NoJob)
  /\ UNCHANGED <<records, history>>

\* InitiatePaymentView: any amount, as long as something is owed.
InitiatePayment(p, t, amount) ==
  /\ Free(p)
  /\ Exists(t) /\ Balance(t) > 0
  /\ payment' = [payment EXCEPT ![p] = Pending(t, amount)]
  /\ UNCHANGED <<price, invoice, lines, job, history>>

\* InvoiceDetailView: cash counts at once, whatever is owed.
RecordCash(p, t, amount) ==
  /\ Free(p)
  /\ Exists(t)
  /\ payment' = [payment EXCEPT ![p] = [Pending(t, amount) EXCEPT
                                         !.status = "CONFIRMED"]]
  /\ UNCHANGED <<price, invoice, lines, job, history>>

\* PaymentDeleteView: the office takes a payment away.
DeletePayment(p) ==
  /\ ~ Free(p)
  /\ payment' = [payment EXCEPT ![p].status = "ABSENT"]
  /\ UNCHANGED <<price, invoice, lines, job, history>>

\* What module Payments does to a row in many steps.
Settle(p, status) ==
  /\ payment[p].status = "PENDING"
  /\ payment' = [payment EXCEPT ![p].status = status]
  /\ UNCHANGED <<price, invoice, lines, job, history>>

-----------------------------------------------------------------------------
(* generate_invoice_for_student *)

Generate(q, t) ==
  /\ Begin(q, [NoJob EXCEPT !.phase = "exists", !.term = t])
  /\ UNCHANGED records

\* A price is saved; invoices are generated where missing, then re-priced.
SavePrice(q, t, c, amount) ==
  /\ price[t][c] # amount
  /\ price' = [price EXCEPT ![t][c] = amount]
  /\ Begin(q, [NoJob EXCEPT !.phase = "exists", !.term = t, !.reprice = TRUE])
  /\ UNCHANGED <<invoice, lines, payment>>

Generated(q) == IF job[q].reprice
                THEN [job[q] EXCEPT !.phase = "select"] ELSE NoJob

\* Mutant: the check locks the index entry that the insert then waits for.
CheckExistsLocks(q) ==
  /\ job[q].phase = "exists"
  /\ Move(q, IF Exists(job[q].term) THEN Generated(q)
             ELSE [job[q] EXCEPT !.phase = "create", !.price = price,
                                 !.made = {job[q].term}])
  /\ UNCHANGED <<records, history>>

\* The existence check, and the prices if there is no invoice yet.
CheckExists(q) ==
  /\ job[q].phase = "exists"
  /\ Move(q, IF Exists(job[q].term) THEN Generated(q)
             ELSE [job[q] EXCEPT !.phase = "create", !.price = price])
  /\ UNCHANGED <<records, history>>

\* Invoice.objects.create, with its total: refused if another one was faster.
CreateInvoice(q) ==
  LET t == job[q].term IN
  /\ job[q].phase = "create" /\ Unhindered(q)
  /\ IF Exists(t)
     THEN UNCHANGED invoice /\ Move(q, NoJob)
     ELSE /\ invoice' = [invoice EXCEPT ![t] =
                           PriceOf(job[q].price[t], Compulsory)]
          /\ Move(q, [job[q] EXCEPT !.phase = "lines", !.todo = Compulsory])
  /\ UNCHANGED <<price, lines, payment, history>>

\* One INSERT per line item.
CreateLine(q, c) ==
  LET t == job[q].term IN
  /\ job[q].phase \in {"lines", "relines"}
  /\ c \in job[q].todo
  /\ lines' = [lines EXCEPT ![t] =
       Grown(@, [d \in Category |-> IF d = c THEN 1 ELSE 0], job[q].price[t])]
  /\ Move(q, [job[q] EXCEPT !.todo = @ \ {c}])
  /\ UNCHANGED <<price, invoice, payment, history>>

LinesCreated(q) ==
  /\ job[q].phase = "lines" /\ job[q].todo = {}
  /\ Move(q, Generated(q))
  /\ UNCHANGED <<records, history>>

-----------------------------------------------------------------------------
(* sync_class_invoices *)

\* Only an invoice without any payment, of whatever status.
SelectUnpaid(q) ==
  LET t == job[q].term IN
  /\ job[q].phase = "select"
  /\ Move(q, IF Exists(t) /\ PaymentsOf(t) = {}
             THEN [job[q] EXCEPT !.phase = "clear", !.price = price] ELSE NoJob)
  /\ UNCHANGED <<records, history>>

\* Mutant: the old lines are kept.
ClearLinesNot(q) ==
  /\ job[q].phase = "clear"
  /\ Move(q, [job[q] EXCEPT !.phase = "relines", !.todo = Compulsory])
  /\ UNCHANGED <<records, history>>

ClearLines(q) ==
  /\ job[q].phase = "clear"
  /\ lines' = [lines EXCEPT ![job[q].term] = NoLines]
  /\ Move(q, [job[q] EXCEPT !.phase = "relines", !.todo = Compulsory])
  /\ UNCHANGED <<price, invoice, payment, history>>

\* The total is saved last; it waits for a checkout that holds the row.
SaveTotal(q) ==
  LET t == job[q].term IN
  /\ job[q].phase = "relines" /\ job[q].todo = {} /\ Unhindered(q)
  /\ invoice' = [invoice EXCEPT ![t] = PriceOf(job[q].price[t], Compulsory)]
  /\ Move(q, NoJob)
  /\ UNCHANGED <<price, lines, payment, history>>

-----------------------------------------------------------------------------
\* The worker dies: an open transaction is undone, autocommitted rows stay.
Crash(q) ==
  /\ job[q].phase # "idle"
  /\ crashes < MaxCrashes
  /\ crashes' = crashes + 1
  /\ Move(q, NoJob)
  /\ UNCHANGED <<records, started, tangled>>

Work(q) ==
  \/ OpenInvoice(q) \/ \E c \in Category : CheckItem(q, c)
  \/ ItemsChecked(q) \/ WriteTotal(q)
  \/ SumBalance(q) \/ RefuseAmount(q) \/ PayOneInvoice(q) \/ TakeShare(q)
  \/ TrimShare(q) \/ CutShare(q) \/ CommitCheckout(q) \/ PayNothing(q)
  \/ \E rowOf \in [Term -> Pay] : PayShares(q, rowOf)
  \/ CheckExists(q) \/ CreateInvoice(q) \/ LinesCreated(q)
  \/ \E c \in Category : CreateLine(q, c)
  \/ SelectUnpaid(q) \/ ClearLines(q) \/ SaveTotal(q)

Next ==
  \/ \E q \in Request : Work(q) \/ Crash(q)
  \/ \E q \in Request, cart \in Cart, amount \in Entered :
       SubmitCheckout(q, cart, amount)
  \/ \E q \in Request, t \in Term : Generate(q, t)
  \/ \E q \in Request, t \in Term, c \in Category, amount \in Amount :
       SavePrice(q, t, c, amount)
  \/ \E p \in Pay, t \in Term, amount \in Entered :
       InitiatePayment(p, t, amount) \/ RecordCash(p, t, amount)
  \/ \E p \in Pay, status \in {"CONFIRMED", "FAILED"} : Settle(p, status)
  \/ \E p \in Pay : DeletePayment(p)

Spec == Init /\ [][Next]_vars

-----------------------------------------------------------------------------
(* Properties *)

Building(t) == \E q \in Request : job[q].term = t
                                  /\ job[q].phase \in {"lines", "relines"}

\* InvoiceIntegrityValidator: an invoice's total is the sum of its line items,
\* whatever order checkouts, generation, re-pricing and payments come in, as
\* long as no two billing requests overlapped on it and none died half-way.
TotalsMatchLines ==
  crashes = 0 =>
    \A t \in Term \ tangled :
      ~ Building(t) =>
        IF Exists(t) THEN invoice[t] = LineSum(lines[t])
                     ELSE lines[t] = NoLines

\* A category is billed once, by whichever request came first: the checkout
\* skips what the generator billed, and re-pricing replaces its lines.
BilledOnce ==
  \A t \in Term \ tangled, c \in Category : lines[t][c].count <= 1

\* The same for requests that do overlap, as reconcile_checkout promises.
NeverDoubleBilled == \A t \in Term, c \in Category : lines[t][c].count <= 1

\* What a checkout asks the payer for is what it was given.  No invoice's share
\* is less than nothing or more than it owes as long as nobody settles or
\* deletes a payment between the queries; if somebody does, the next term's is
\* still within what it owed in the end, and this term's exceeds it by no more
\* than what was paid on the next term's meanwhile.
SharesSound ==
  \A q \in Request :
    LET j == job[q] IN
    j.phase = "pay" =>
      /\ j.share["current"] + j.share["next"] = j.amount
      /\ j.steady /\ (\A t \in Term : j.due[t] >= 0) =>
           \A t \in Term : j.share[t] \in 0 .. j.due[t]
      /\ CartTerms(j.cart) = Term =>
           /\ j.share["next"] <= j.due["next"]
           /\ \/ j.share["current"] <= j.due["current"]
              \/ j.share["current"] + j.due["next"] <= j.total

\* Re-pricing repairs: where it ends, total and lines agree again, even if a
\* generator died before its last line item.
RepricingRepairs ==
  [][\A q \in Request :
       LET t == job[q].term IN
       /\ job[q].phase = "relines" /\ job[q].todo = {}
       /\ job'[q].phase = "idle" /\ crashes' = crashes
       /\ t \notin tangled
       => invoice'[t] = LineSum(lines'[t])]_vars

\* The locks never close a circle, not even while requests outside of it go on:
\* checkouts insert and lock the current term before the next one, and neither
\* the generator nor the re-pricing keeps a lock from one statement to another.
NoCircle ==
  \A Q \in SUBSET Request : Q # {} =>
    \E q \in Q : \A other \in Q : ~ WaitsFor(q, other)

=============================================================================
