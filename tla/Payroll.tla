------------------------------ MODULE Payroll -------------------------------
(***************************************************************************)
(* Salaries: payroll runs with a payslip for each member of staff          *)
(* (payroll/utils.py) and the disbursements that pay them                  *)
(* (school_admin/views/payroll.py, payroll/admin.py).                      *)
(*                                                                         *)
(* Nothing here opens a transaction. A run is the INSERT of its row, a     *)
(* read of the staff, and for each of them three reads of the pay policy,  *)
(* the INSERT of the payslip and one INSERT for each line of it.           *)
(* Not modelled: the notice that follows a disbursement (its failure is    *)
(* swallowed), deletions in the admin site, staff who change their grade.  *)
(***************************************************************************)
EXTENDS Integers, FiniteSets, Sequences, FiniteSetsExt

CONSTANTS
  Staff,       \* members of staff with a payroll profile
  Definition,  \* allowance and deduction definitions
  Deduction,   \* those of them that deduct
  Covers,      \* whom each definition is for: a grade, or one member
  Salary,      \* base salaries of the grade the staff are on
  Amount,      \* amounts of definitions
  Paid,        \* amounts an administrator types in as disbursed
  Period,      \* labels and dates of runs
  Reference,   \* references typed in for disbursements
  Worker,      \* requests in flight
  MaxRequests, \* bound on the requests
  MaxCrashes   \* bound on the requests that die half-way

Off == 0       \* the amount of a definition that is not active
NoSlip == 0    \* a job that writes no payslip

ASSUME PayrollAssumption ==
  /\ IsFiniteSet(Staff) /\ IsFiniteSet(Definition) /\ Deduction \subseteq Definition
  /\ "base" \notin Definition \* the first line of a payslip is not one of them
  /\ Covers \in [Definition -> SUBSET Staff]
  /\ Salary \subseteq Nat /\ Salary # {} /\ Amount \subseteq Nat
  /\ Paid \subseteq Nat \ {0}
  /\ MaxRequests \in Nat /\ MaxCrashes \in Nat

VARIABLES
  base,    \* PayGrade.base_salary
  policy,  \* the amount of each definition, or Off
  serving, \* the staff whose status is ACTIVE
  runs,    \* PayrollRun: the period of each
  slips,   \* Payslip with the sums of its line items
  rows,    \* SalaryDisbursement
  job,     \* what each request has read, and where it stands
  started, \* how many requests were made
  crashes, \* how many of them died
  cut,     \* history: payslips whose lines a death cut off
  loose,   \* history: payslips paid without regard to their balance
  hand     \* history: references typed in for one row, or of edited rows

rules == <<base, policy, serving>>
vars == <<base, policy, serving, runs, slips, rows, job, started, crashes,
          cut, loose, hand>>

-----------------------------------------------------------------------------
Status == {"PENDING", "CONFIRMED", "FAILED"}

\* allowances includes the line of the base salary.
Slip == [run : Nat, staff : Staff, base : Nat, allowances : Nat,
         deductions : Nat, lines : [allowances : Nat, deductions : Nat]]

\* What a bulk disbursement writes is the typed reference and the payslip.
Ref == Reference \X Nat

Row == [ref : Ref, slip : Nat, amount : Nat \ {0}, status : Status]

Part == Definition \X Nat

Job == [phase : {"idle", "staff", "base", "allowances", "deductions", "slip",
                 "lines", "select", "balance", "pay"},
        alone : BOOLEAN, run : Nat, toPay : SUBSET Staff, staff : SUBSET Staff,
        base : Nat, allowances : SUBSET Part, deductions : SUBSET Part,
        slip : Nat, lines : SUBSET (Part \cup ({"base"} \X Nat)),
        ref : SUBSET Reference, fresh : BOOLEAN, chosen : SUBSET Nat,
        toSettle : SUBSET Nat, balance : Int,
        before : Nat] \* history: what had been disbursed when balance was read

PayrollTypeOK ==
  /\ base \in Salary
  /\ policy \in [Definition -> Amount \cup {Off}]
  /\ serving \subseteq Staff
  /\ runs \in Seq(Period)
  /\ slips \in Seq(Slip)
  /\ rows \subseteq Row
  /\ job \in [Worker -> Job]
  /\ started \in 0 .. MaxRequests /\ crashes \in 0 .. MaxCrashes
  /\ cut \subseteq DOMAIN slips /\ loose \subseteq DOMAIN slips /\ hand \subseteq Ref

NoJob == [phase |-> "idle", alone |-> FALSE, run |-> 0, toPay |-> {},
          staff |-> {}, base |-> 0, allowances |-> {}, deductions |-> {},
          slip |-> NoSlip, lines |-> {}, ref |-> {}, fresh |-> FALSE,
          chosen |-> {}, toSettle |-> {}, balance |-> 0,
          before |-> 0]

Init ==
  /\ base \in Salary
  /\ policy \in [Definition -> Amount \cup {Off}]
  /\ serving = Staff
  /\ runs = <<>> /\ slips = <<>> /\ rows = {}
  /\ job = [w \in Worker |-> NoJob]
  /\ started = 0 /\ crashes = 0
  /\ cut = {} /\ loose = {} /\ hand = {}

-----------------------------------------------------------------------------
(* Sums *)

Total(parts) == SumFunction([p \in parts |-> p[2]])

\* What is in force for a member of staff, of the definitions in D.
InForce(s, D) == {<<d, policy[d]>> : d \in {x \in D : s \in Covers[x] /\ policy[x] # Off}}

NetPay(k) == slips[k].base + slips[k].allowances - slips[k].deductions

ConfirmedOn(k) == {d \in rows : d.slip = k /\ d.status = "CONFIRMED"}

Disbursed(k) == SumFunction([d \in ConfirmedOn(k) |-> d.amount])

Balance(k) == NetPay(k) - Disbursed(k)

-----------------------------------------------------------------------------
Quiet == \A w \in Worker : job[w].phase = "idle"
Move(w, next) == job' = [job EXCEPT ![w] = next]

\* A request comes in; one that meets another is not alone, nor is the other.
Begin(w, j) ==
  /\ job[w].phase = "idle"
  /\ started < MaxRequests
  /\ started' = started + 1
  /\ job' = [o \in Worker |->
       IF o = w THEN [j EXCEPT !.alone = Quiet]
                ELSE [job[o] EXCEPT !.alone = FALSE]]
  /\ UNCHANGED crashes

\* A request of one statement.
Request ==
  /\ started < MaxRequests
  /\ started' = started + 1
  /\ job' = [o \in Worker |-> [job[o] EXCEPT !.alone = FALSE]]
  /\ UNCHANGED crashes

-----------------------------------------------------------------------------
(* The pay policy, edited in the admin site: each form is one UPDATE *)

Edit ==
  /\ started < MaxRequests
  /\ started' = started + 1
  /\ UNCHANGED <<runs, slips, rows, job, crashes, cut, loose, hand>>

SetSalary(n) == Edit /\ base' = n /\ UNCHANGED <<policy, serving>>

SetDefinition(d, n) ==
  /\ Edit
  /\ policy' = [policy EXCEPT ![d] = n]
  /\ UNCHANGED <<base, serving>>

\* A member is suspended, or comes back.
SetServing(s) ==
  /\ Edit
  /\ serving' = IF s \in serving THEN serving \ {s} ELSE serving \cup {s}
  /\ UNCHANGED <<base, policy>>

-----------------------------------------------------------------------------
(* generate_payroll_run *)

CreateRun(w, p, chosen) ==
  /\ Begin(w, [NoJob EXCEPT !.phase = "staff", !.run = Len(runs) + 1,
                            !.toPay = chosen])
  /\ runs' = Append(runs, p)
  /\ UNCHANGED <<rules, slips, rows, cut, loose, hand>>

\* GeneratePayrollView: everybody.
GenerateForAll(w, p) == CreateRun(w, p, Staff)

\* The admin action: those whose employee numbers were typed in.
GenerateForSome(w, p, chosen) == CreateRun(w, p, chosen)

\* The next member of staff, or the end of the loop.
NextMember(j) ==
  IF j.toPay = {} THEN {NoJob}
  ELSE {[NoJob EXCEPT !.phase = "base", !.alone = j.alone, !.run = j.run,
                      !.toPay = j.toPay \ {s}, !.staff = {s}] : s \in j.toPay}

\* The profiles are fetched once, with their statuses.
ReadStaff(w) ==
  /\ job[w].phase = "staff"
  /\ \E j \in NextMember([job[w] EXCEPT !.toPay = @ \cap serving]) : Move(w, j)
  /\ UNCHANGED <<rules, runs, slips, rows, started, crashes, cut, loose, hand>>

ReadBase(w) ==
  /\ job[w].phase = "base"
  /\ Move(w, [job[w] EXCEPT !.phase = "allowances", !.base = base])
  /\ UNCHANGED <<rules, runs, slips, rows, started, crashes, cut, loose, hand>>

ReadAllowances(w) ==
  /\ job[w].phase = "allowances"
  /\ \E s \in job[w].staff :
       Move(w, [job[w] EXCEPT !.phase = "deductions",
                              !.allowances = InForce(s, Definition \ Deduction)])
  /\ UNCHANGED <<rules, runs, slips, rows, started, crashes, cut, loose, hand>>

ReadDeductions(w) ==
  /\ job[w].phase = "deductions"
  /\ \E s \in job[w].staff :
       Move(w, [job[w] EXCEPT !.phase = "slip", !.deductions = InForce(s, Deduction)])
  /\ UNCHANGED <<rules, runs, slips, rows, started, crashes, cut, loose, hand>>

\* The totals are written first; the lines wait in the job.
CreatePayslip(w) ==
  LET j == job[w]
  IN  /\ j.phase = "slip"
      /\ \E s \in j.staff :
           slips' = Append(slips,
             [run |-> j.run, staff |-> s, base |-> j.base,
              allowances |-> Total(j.allowances),
              deductions |-> Total(j.deductions),
              lines |-> [allowances |-> 0, deductions |-> 0]])
      /\ Move(w, [j EXCEPT !.phase = "lines", !.slip = Len(slips) + 1,
                           !.lines = {<<"base", j.base>>} \cup j.allowances
                                       \cup j.deductions])
      /\ UNCHANGED <<rules, runs, rows, started, crashes, cut, loose, hand>>

\* The base salary comes first, then the allowances, then the deductions.
NextLines(lines) ==
  LET first == {p \in lines : p[1] = "base"}
      added == {p \in lines : p[1] \notin Deduction}
  IN  IF first # {} THEN first ELSE IF added # {} THEN added ELSE lines

\* Mutant: the querysets are read again for the lines.
CreateLineFresh(w) ==
  LET j == job[w]
      now(p) == IF p[1] = "base" THEN base ELSE policy[p[1]]
  IN  /\ j.phase = "lines"
      /\ \E p \in NextLines(j.lines) :
           /\ slips' = IF p[1] \in Deduction
                       THEN [slips EXCEPT ![j.slip].lines.deductions = @ + now(p)]
                       ELSE [slips EXCEPT ![j.slip].lines.allowances = @ + now(p)]
           /\ IF j.lines = {p} THEN \E next \in NextMember(j) : Move(w, next)
                               ELSE Move(w, [j EXCEPT !.lines = @ \ {p}])
      /\ UNCHANGED <<rules, runs, rows, started, crashes, cut, loose, hand>>

\* A line is created from what was read for the totals.
CreateLine(w) ==
  LET j == job[w]
  IN  /\ j.phase = "lines"
      /\ \E p \in NextLines(j.lines) :
           /\ slips' = IF p[1] \in Deduction
                       THEN [slips EXCEPT ![j.slip].lines.deductions = @ + p[2]]
                       ELSE [slips EXCEPT ![j.slip].lines.allowances = @ + p[2]]
           /\ IF j.lines = {p} THEN \E next \in NextMember(j) : Move(w, next)
                               ELSE Move(w, [j EXCEPT !.lines = @ \ {p}])
      /\ UNCHANGED <<rules, runs, rows, started, crashes, cut, loose, hand>>

-----------------------------------------------------------------------------
(* Disbursements *)

Used(ref) == \E d \in rows : d.ref = ref

Confirmed(ref, k, amount) ==
  [ref |-> ref, slip |-> k, amount |-> amount, status |-> "CONFIRMED"]

\* RecordDisbursementView: any positive amount, a reference that is not taken.
Record(k, amount, ref) ==
  /\ k \in DOMAIN slips
  /\ ~ Used(ref)
  /\ Request
  /\ rows' = rows \cup {Confirmed(ref, k, amount)}
  /\ loose' = IF amount > Balance(k) THEN loose \cup {k} ELSE loose
  /\ hand' = hand \cup {ref}
  /\ UNCHANGED <<rules, runs, slips, cut>>

\* SalaryDisbursementAdmin: everything but the date and who recorded it can be
\* edited, the reference to one that no other row has.
EditDisbursement(d, ref, k, amount, status) ==
  /\ \A e \in rows \ {d} : e.ref # ref
  /\ Request
  /\ rows' = (rows \ {d}) \cup
               {[ref |-> ref, slip |-> k, amount |-> amount, status |-> status]}
  /\ loose' = loose \cup {d.slip, k}
  /\ hand' = hand \cup {d.ref, ref}
  /\ UNCHANGED <<rules, runs, slips, cut>>

\* PayslipAdmin.record_disbursement: the payslips an administrator has ticked.
SelectSlips(w, ref, chosen) ==
  /\ chosen # {} /\ chosen \subseteq DOMAIN slips
  /\ Begin(w, [NoJob EXCEPT !.phase = "balance", !.ref = {ref},
                            !.fresh = \A d \in rows : d.ref[1] # ref,
                            !.chosen = chosen, !.toSettle = chosen])
  /\ UNCHANGED <<rules, runs, slips, rows, cut, loose, hand>>

\* On to the next ticked payslip, or the end of the loop.
Settled(j) ==
  LET rest == j.toSettle \ {j.slip}
  IN  IF rest = {} THEN NoJob
      ELSE [j EXCEPT !.phase = "balance", !.slip = NoSlip, !.balance = 0,
                     !.before = 0, !.toSettle = rest]

\* Mutant: what was paid before is not subtracted.
ReadBalanceNet(w) ==
  LET j == job[w]
  IN  /\ j.phase = "balance"
      /\ \E k \in j.toSettle :
           LET next == [j EXCEPT !.phase = "pay", !.slip = k,
                                 !.balance = NetPay(k), !.before = Disbursed(k)]
           IN  Move(w, IF Balance(k) <= 0 THEN Settled(next) ELSE next)
      /\ UNCHANGED <<rules, runs, slips, rows, started, crashes, cut, loose, hand>>

\* Payslip.balance; a payslip without one is passed over.
ReadBalance(w) ==
  LET j == job[w]
  IN  /\ j.phase = "balance"
      /\ \E k \in j.toSettle :
           LET next == [j EXCEPT !.phase = "pay", !.slip = k,
                                 !.balance = Balance(k), !.before = Disbursed(k)]
           IN  Move(w, IF Balance(k) <= 0 THEN Settled(next) ELSE next)
      /\ UNCHANGED <<rules, runs, slips, rows, started, crashes, cut, loose, hand>>

\* Mutant: the reference does not name the payslip.
PayBalanceShared(w) ==
  LET j == job[w]
  IN  /\ j.phase = "pay"
      /\ \E ref \in {<<r, 0>> : r \in j.ref} :
           IF Used(ref)
           THEN UNCHANGED <<rows, loose>>
           ELSE /\ rows' = rows \cup {Confirmed(ref, j.slip, j.balance)}
                /\ loose' = IF Disbursed(j.slip) > j.before
                            THEN loose \cup {j.slip} ELSE loose
      /\ Move(w, Settled(j))
      /\ UNCHANGED <<rules, runs, slips, started, crashes, cut, hand>>

\* Mutant: the row is left PENDING, the default of the column.
PayBalancePending(w) ==
  LET j == job[w]
  IN  /\ j.phase = "pay"
      /\ \E ref \in {<<r, j.slip>> : r \in j.ref} :
           IF Used(ref)
           THEN UNCHANGED <<rows, loose>>
           ELSE /\ rows' = rows \cup {[Confirmed(ref, j.slip, j.balance)
                                       EXCEPT !.status = "PENDING"]}
                /\ loose' = IF Disbursed(j.slip) > j.before
                            THEN loose \cup {j.slip} ELSE loose
      /\ Move(w, Settled(j))
      /\ UNCHANGED <<rules, runs, slips, started, crashes, cut, hand>>

\* get_or_create by reference: pays the balance that was read, unless the
\* reference is taken.
PayBalance(w) ==
  LET j == job[w]
  IN  /\ j.phase = "pay"
      /\ \E ref \in {<<r, j.slip>> : r \in j.ref} :
           IF Used(ref)
           THEN UNCHANGED <<rows, loose>>
           ELSE /\ rows' = rows \cup {Confirmed(ref, j.slip, j.balance)}
                /\ loose' = IF Disbursed(j.slip) > j.before
                            THEN loose \cup {j.slip} ELSE loose
      /\ Move(w, Settled(j))
      /\ UNCHANGED <<rules, runs, slips, started, crashes, cut, hand>>

-----------------------------------------------------------------------------
\* A request dies between two statements.
Crash(w) ==
  /\ job[w].phase # "idle"
  /\ crashes < MaxCrashes
  /\ crashes' = crashes + 1
  /\ cut' = IF job[w].phase = "lines" THEN cut \cup {job[w].slip} ELSE cut
  /\ Move(w, NoJob)
  /\ UNCHANGED <<rules, runs, slips, rows, started, loose, hand>>

GenerateStep(w) ==
  \/ \E p \in Period :
       GenerateForAll(w, p) \/ \E chosen \in SUBSET Staff : GenerateForSome(w, p, chosen)
  \/ ReadStaff(w) \/ ReadBase(w) \/ ReadAllowances(w) \/ ReadDeductions(w)
  \/ CreatePayslip(w) \/ CreateLine(w)

DisburseStep(w) ==
  \/ \E ref \in Reference, chosen \in SUBSET DOMAIN slips : SelectSlips(w, ref, chosen)
  \/ ReadBalance(w) \/ PayBalance(w)

Next ==
  \/ \E n \in Salary : SetSalary(n)
  \/ \E d \in Definition, n \in Amount \cup {Off} : SetDefinition(d, n)
  \/ \E s \in Staff : SetServing(s)
  \/ \E k \in DOMAIN slips, amount \in Paid, r \in Reference :
       \E id \in {0} \cup DOMAIN slips : Record(k, amount, <<r, id>>)
  \/ \E d \in rows, k \in DOMAIN slips, r \in Reference, status \in Status :
       \E id \in {0} \cup DOMAIN slips, amount \in Paid \cup {d.amount} :
         EditDisbursement(d, <<r, id>>, k, amount, status)
  \/ \E w \in Worker : GenerateStep(w) \/ DisburseStep(w) \/ Crash(w)

Spec == Init /\ [][Next]_vars

-----------------------------------------------------------------------------
(* Properties *)

Written(k) == \A w \in Worker : ~ (job[w].phase = "lines" /\ job[w].slip = k)

\* The lines of a finished payslip add up to its totals, whatever was changed in
\* the pay policy between the reads and the last line (generate_payslip), unless
\* the request died before the last line.
SlipsAddUp ==
  \A k \in DOMAIN slips \ cut :
    Written(k) => /\ slips[k].lines.allowances = slips[k].base + slips[k].allowances
                  /\ slips[k].lines.deductions = slips[k].deductions

\* A bulk disbursement that is repeated, after a death or by a second click, skips
\* a payslip whose reference is taken (get_or_create). What it skips is settled: a
\* payslip stands under the reference a bulk disbursement gave it with no balance
\* left, whatever was disbursed meanwhile, unless somebody typed that reference in
\* or edited its row, or the payslip is one of those that NeverOverpaid excepts.
SkippedIsSettled ==
  \A k \in DOMAIN slips \ loose, r \in Reference :
    Used(<<r, k>>) /\ <<r, k>> \notin hand => Balance(k) <= 0

\* No more than the net pay is disbursed, unless a payslip was paid by hand
\* beyond its balance, its rows were edited, or a bulk disbursement acted on a
\* balance that another payment had meanwhile reduced.
NeverOverpaid ==
  \A k \in DOMAIN slips \ loose : Disbursed(k) = 0 \/ Disbursed(k) <= NetPay(k)

\* A bulk disbursement under a reference not used before, which no other
\* request meets, leaves every ticked payslip without a balance.
BulkSettles ==
  [][\A w \in Worker :
       /\ job[w].phase \in {"balance", "pay"} /\ job'[w].phase = "idle"
       /\ crashes' = crashes /\ job[w].alone /\ job[w].fresh
       => \A k \in job[w].chosen : Balance(k)' <= 0]_vars

=============================================================================
