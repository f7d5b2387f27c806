--------------------------- MODULE PayrollProofs ----------------------------
(***************************************************************************)
(* Payroll guarantees for any staff, policy and number of requests:        *)
(* payslips add up, nobody is overpaid by the bulk action, and it settles  *)
(* what it is asked to and skips only what is settled.  The sums over sets *)
(* of lines are reasoned about one element at a time.                      *)
(***************************************************************************)
EXTENDS Payroll, FiniteSetTheorems, TLAPS

-----------------------------------------------------------------------------
(* Sums *)

\* A sum of naturals, as a set with one cell for each unit of each summand.
Cells(f, S) == {c \in S \X Nat : c[2] < f[c[1]]}

\* A set of subsets that holds the empty one, and with all but one element of a
\* subset the subset itself, holds every finite set.
LEMMA FiniteClosure ==
  ASSUME NEW S, IsFiniteSet(S), NEW Good, {} \in Good,
         \A U \in SUBSET S : U # {} =>
           \E x \in U : U \ {x} \in Good => U \in Good
  PROVE  S \in Good
<1> SUFFICES ASSUME S \notin Good PROVE FALSE
  OBVIOUS
<1> DEFINE Bad == {U \in SUBSET S : U \notin Good}
           Size == {Cardinality(U) : U \in Bad}
           R == OpToRel(<, Nat)
<1>1. \A U \in SUBSET S : IsFiniteSet(U) /\ Cardinality(U) \in Nat
  BY FS_Subset, FS_CardinalityType
<1>2. Size \subseteq Nat /\ Size # {}
  BY <1>1
<1>3. IsWellFoundedOn(R, Nat)
  BY NatLessThanWellFounded
<1> HIDE DEF R
<1>4. PICK n \in Size : \A m \in Size : ~ (<<m, n>> \in R)
  BY ONLY <1>2, <1>3, WFMin
<1>5. PICK U \in Bad : Cardinality(U) = n
  BY <1>4
<1>6. PICK x \in U : U \ {x} \in Good => U \in Good
  <2>1. U \in SUBSET S /\ U # {}
    OBVIOUS
  <2> QED BY <2>1
<1>7. Cardinality(U \ {x}) = n - 1 /\ n \in Nat /\ n - 1 \in Nat
  <2>1. IsFiniteSet(U) /\ Cardinality(U) = n /\ n \in Nat
    BY <1>1, <1>5
  <2>2. Cardinality(U \ {x}) = Cardinality(U) - 1
    BY <2>1, FS_RemoveElement
  <2>3. Cardinality(U \ {x}) \in Nat
    BY <1>1, U \ {x} \in SUBSET S
  <2> QED BY <2>1, <2>2, <2>3
<1>8. U \ {x} \in Bad
  BY <1>6
<1>9. n - 1 \in Size
  BY <1>7, <1>8
<1>10. <<n - 1, n>> \in R
  BY <1>7 DEF R, OpToRel
<1> QED
  BY <1>4, <1>9, <1>10

\* The cells of one element.
LEMMA Column ==
  ASSUME NEW x, NEW n \in Nat
  PROVE  /\ IsFiniteSet({x} \X (0 .. n - 1))
         /\ Cardinality({x} \X (0 .. n - 1)) = n
<1> DEFINE I == 0 .. n - 1
<1>1. IsFiniteSet({x}) /\ Cardinality({x}) = 1
  BY FS_Singleton
<1>2. IsFiniteSet(I) /\ Cardinality(I) = n
  <2>1. IsFiniteSet(I) /\ Cardinality(I) = IF 0 > n - 1 THEN 0 ELSE (n - 1) - 0 + 1
    BY FS_Interval, n - 1 \in Int
  <2> HIDE DEF I
  <2> QED BY <2>1
<1> HIDE DEF I
<1>3. IsFiniteSet({x} \X I) /\ Cardinality({x} \X I) = 1 * n
  BY <1>1, <1>2, FS_Product
<1> QED BY <1>3 DEF I

\* A finite sum of naturals has finitely many cells.
LEMMA CellsFinite ==
  ASSUME NEW S, IsFiniteSet(S), NEW f, \A x \in S : f[x] \in Nat
  PROVE  IsFiniteSet(Cells(f, S)) /\ Cardinality(Cells(f, S)) \in Nat
<1> DEFINE Good == {U \in SUBSET S : IsFiniteSet(Cells(f, U))}
<1>1. {} \in Good
  <2>1. Cells(f, {}) = {}
    BY DEF Cells
  <2> QED
    BY <2>1, FS_EmptySet
<1>2. ASSUME NEW U \in SUBSET S, NEW x \in U, U \ {x} \in Good
      PROVE  U \in Good
  <2>1. Cells(f, U) = Cells(f, U \ {x}) \cup ({x} \X (0 .. f[x] - 1))
    BY f[x] \in Nat DEF Cells
  <2>2. IsFiniteSet({x} \X (0 .. f[x] - 1))
    BY Column, f[x] \in Nat
  <2>3. IsFiniteSet(Cells(f, U \ {x}))
    BY <1>2
  <2>4. \A A, B : IsFiniteSet(A) /\ IsFiniteSet(B) => IsFiniteSet(A \cup B)
    BY FS_Union
  <2>5. IsFiniteSet(Cells(f, U))
    BY <2>1, <2>2, <2>3, <2>4
  <2> QED
    BY <2>5
<1>4. \A U \in SUBSET S : U # {} =>
        \E x \in U : U \ {x} \in Good => U \in Good
  BY <1>2
<1> HIDE DEF Good
<1>3. S \in Good
  BY <1>1, <1>4, FiniteClosure
<1> QED
  BY <1>3, FS_CardinalityType DEF Good

\* One summand is its column of cells.
LEMMA CellsStep ==
  ASSUME NEW S, IsFiniteSet(S), NEW f, \A y \in S : f[y] \in Nat, NEW x \in S
  PROVE  Cardinality(Cells(f, S)) = f[x] + Cardinality(Cells(f, S \ {x}))
<1> DEFINE X == {x} \X (0 .. f[x] - 1)
           Y == Cells(f, S \ {x})
<1>1. Cells(f, S) = X \cup Y
  BY f[x] \in Nat DEF Cells
<1>2. IsFiniteSet(S \ {x})
  BY FS_Subset, S \ {x} \subseteq S
<1>3. IsFiniteSet(Y) /\ Cardinality(Y) \in Nat
  BY <1>2, CellsFinite
<1>4. IsFiniteSet(X) /\ Cardinality(X) = f[x]
  BY Column, f[x] \in Nat
<1>5. X \cap Y = {}
  BY DEF Cells
<1> HIDE DEF X, Y
<1>6. Cardinality(X \cup Y) = Cardinality(X) + Cardinality(Y) - Cardinality(X \cap Y)
  BY <1>3, <1>4, FS_Union
<1>7. Cardinality(X \cap Y) = 0
  BY <1>5, FS_EmptySet
<1>8. Cardinality(X \cup Y) = f[x] + Cardinality(Y)
  BY <1>3, <1>4, <1>6, <1>7, f[x] \in Nat
<1> QED
  BY <1>1, <1>8 DEF Y

\* A sum counts its cells, in whatever order it is taken.
LEMMA SumCounts ==
  ASSUME NEW S, IsFiniteSet(S), NEW f, \A y \in S : f[y] \in Nat
  PROVE  SumFunctionOnSet(f, S) = Cardinality(Cells(f, S))
<1> DEFINE iterOf(g) == [s \in SUBSET S |->
              IF s = {} THEN 0
              ELSE f[CHOOSE x \in s : TRUE] + g[s \ {CHOOSE x \in s : TRUE}]]
           h == [s \in SUBSET S |-> Cardinality(Cells(f, s))]
           iter == CHOOSE g : g = iterOf(g)
<1>1. h = iterOf(h)
  <2>1. ASSUME NEW s \in SUBSET S PROVE h[s] = iterOf(h)[s]
    <3>1. CASE s = {}
      <4>1. Cells(f, {}) = {}
        BY DEF Cells
      <4> QED BY <3>1, <4>1, FS_EmptySet
    <3>2. CASE s # {}
      <4> DEFINE x == CHOOSE x \in s : TRUE
      <4>1. x \in s
        BY <3>2
      <4>2. IsFiniteSet(s) /\ \A y \in s : f[y] \in Nat
        BY FS_Subset
      <4> HIDE DEF x
      <4>3. Cardinality(Cells(f, s)) = f[x] + Cardinality(Cells(f, s \ {x}))
        BY <4>1, <4>2, CellsStep
      <4> QED BY <3>2, <4>3, s \ {x} \in SUBSET S DEF x
    <3> QED BY <3>1, <3>2
  <2> QED BY <2>1
<1>2. iter = iterOf(iter)
  BY <1>1
<1>3. iter[S] = SumFunctionOnSet(f, S)
  BY DEF SumFunctionOnSet, FoldFunctionOnSet, MapThenFoldSet
<1> HIDE DEF iter
<1> DEFINE Good == {s \in SUBSET S : iter[s] = h[s]}
<1>4. {} \in Good
  BY <1>1, <1>2
<1>5. ASSUME NEW s \in SUBSET S, s # {}
      PROVE  \E x \in s : s \ {x} \in Good => s \in Good
  <2> DEFINE x == CHOOSE x \in s : TRUE
  <2>1. x \in s /\ s \ {x} \in SUBSET S
    BY <1>5
  <2>2. iter[s] = f[x] + iter[s \ {x}]
    BY <1>2, <1>5
  <2>3. h[s] = f[x] + h[s \ {x}]
    BY <1>1, <1>5
  <2> HIDE DEF x, h
  <2>4. s \ {x} \in Good => s \in Good
    BY <2>1, <2>2, <2>3
  <2> QED BY <2>1, <2>4
<1> HIDE DEF Good
<1>6. S \in Good
  BY <1>4, <1>5, FiniteClosure
<1> QED
  BY <1>3, <1>6 DEF h, Good

\* A sum is one summand more than the sum of the others.
LEMMA SumStep ==
  ASSUME NEW S, IsFiniteSet(S), NEW f \in [S -> Nat], NEW x \in S
  PROVE  SumFunction(f) = f[x] + SumFunction([y \in S \ {x} |-> f[y]])
<1> DEFINE g == [y \in S \ {x} |-> f[y]]
<1>1. IsFiniteSet(S \ {x}) /\ DOMAIN f = S /\ DOMAIN g = S \ {x}
  BY FS_Subset, S \ {x} \subseteq S
<1>2. Cells(g, S \ {x}) = Cells(f, S \ {x})
  BY DEF Cells
<1>3. \A y \in S \ {x} : g[y] \in Nat
  OBVIOUS
<1> HIDE DEF g
<1>4. SumFunction(g) = Cardinality(Cells(g, S \ {x}))
  BY <1>1, <1>3, SumCounts DEF SumFunction
<1>5. SumFunction(f) = Cardinality(Cells(f, S))
  BY <1>1, SumCounts DEF SumFunction
<1>6. Cardinality(Cells(f, S)) = f[x] + Cardinality(Cells(f, S \ {x}))
  BY CellsStep
<1> QED BY <1>2, <1>4, <1>5, <1>6 DEF g

\* A sum of naturals is a natural, and the empty sum is zero.
LEMMA SumType ==
  ASSUME NEW S, IsFiniteSet(S), NEW f \in [S -> Nat]
  PROVE  SumFunction(f) \in Nat /\ (S = {} => SumFunction(f) = 0)
<1>1. DOMAIN f = S /\ \A y \in S : f[y] \in Nat
  OBVIOUS
<1>2. SumFunction(f) = Cardinality(Cells(f, S))
  BY <1>1, SumCounts DEF SumFunction
<1>3. S = {} => Cells(f, S) = {}
  BY DEF Cells
<1>4. Cardinality(Cells(f, S)) \in Nat
  BY <1>1, CellsFinite
<1> QED BY <1>2, <1>3, <1>4, FS_EmptySet

LEMMA TotalStep ==
  ASSUME NEW P, IsFiniteSet(P), \A q \in P : q[2] \in Nat, NEW p \in P
  PROVE  Total(P) = p[2] + Total(P \ {p})
<1> DEFINE f == [q \in P |-> q[2]]
<1>1. f \in [P -> Nat] /\ f[p] = p[2]
  OBVIOUS
<1>2. [q \in P \ {p} |-> f[q]] = [q \in P \ {p} |-> q[2]]
  OBVIOUS
<1> HIDE DEF f
<1>3. SumFunction(f) = f[p] + SumFunction([q \in P \ {p} |-> f[q]])
  BY <1>1, SumStep
<1> QED BY <1>1, <1>2, <1>3 DEF Total, f

LEMMA TotalType ==
  ASSUME NEW P, IsFiniteSet(P), \A q \in P : q[2] \in Nat
  PROVE  Total(P) \in Nat /\ (P = {} => Total(P) = 0)
<1>1. [q \in P |-> q[2]] \in [P -> Nat]
  OBVIOUS
<1> QED BY <1>1, SumType DEF Total

-----------------------------------------------------------------------------
(* What requests and rows may hold *)

Additions(j) == {p \in j.lines : p[1] \notin Deduction}
Subtractions(j) == {p \in j.lines : p[1] \in Deduction}

\* The lines that are written and those still to be written make the totals.
LinesSound ==
  \A w \in Worker :
    LET j == job[w]
        slip == slips[j.slip]
    IN  j.phase = "lines" =>
          /\ j.slip \in DOMAIN slips \ cut
          /\ slip.lines.allowances + Total(Additions(j)) = slip.base + slip.allowances
          /\ slip.lines.deductions + Total(Subtractions(j)) = slip.deductions

\* No two requests write lines of the same payslip.
OwnSlip ==
  \A v, w \in Worker :
    job[v].phase = "lines" /\ job[w].phase = "lines" /\ job[v].slip = job[w].slip
    => v = w

LinesInv == LinesSound /\ OwnSlip /\ SlipsAddUp

\* What was read of the policy, and the lines that are still to be written.
PartsOK(j) ==
  /\ IsFiniteSet(j.allowances) /\ IsFiniteSet(j.deductions) /\ IsFiniteSet(j.lines)
  /\ \A p \in j.allowances : p[1] \notin Deduction
  /\ \A p \in j.deductions : p[1] \in Deduction

\* A request that pays has read a balance, and pays what it has read.
PayOK(j) ==
  /\ j.toSettle \subseteq j.chosen /\ j.chosen \subseteq DOMAIN slips
  /\ j.phase = "pay" => /\ j.slip \in j.toSettle
                        /\ j.balance > 0
                        /\ j.balance = NetPay(j.slip) - j.before

JobsSound == \A w \in Worker : PartsOK(job[w]) /\ PayOK(job[w])

RowsSound == IsFiniteSet(rows) /\ \A d \in rows : d.slip \in DOMAIN slips

SoundInv == PayrollTypeOK /\ JobsSound /\ RowsSound

\* No payslip goes, and none changes its totals.
Kept ==
  \A k \in DOMAIN slips : k \in DOMAIN slips' /\ NetPay(k)' = NetPay(k)

LEMMA NoJobSound == NoJob \in Job /\ PartsOK(NoJob) /\ PayOK(NoJob)
<1>1. NoJob \in Job
  BY DEF NoJob, Job, NoSlip
<1> QED BY <1>1, FS_EmptySet DEF NoJob, PartsOK, PayOK

LEMMA MoveSound ==
  ASSUME SoundInv, Kept, NEW w \in Worker, NEW next \in Job, Move(w, next),
         PartsOK(next), PayOK(next)
  PROVE  job' \in [Worker -> Job] /\ JobsSound'
<1>1. job \in [Worker -> Job]
  BY DEF SoundInv, PayrollTypeOK
<1>2. job' \in [Worker -> Job]
  BY <1>1 DEF Move
<1>3. ASSUME NEW v \in Worker PROVE PartsOK(job[v])'
  <2>1. PartsOK(job'[v])
    <3>1. CASE v = w
      BY <1>1, <3>1 DEF Move
    <3>2. CASE v # w
      <4>1. job'[v] = job[v]
        BY <1>1, <3>2 DEF Move
      <4> QED BY <4>1 DEF SoundInv, JobsSound
    <3> QED BY <3>1, <3>2
  <2> QED BY <2>1 DEF PartsOK
<1>4. ASSUME NEW v \in Worker PROVE PayOK(job[v])'
  <2>1. CASE v = w
    BY <1>1, <2>1 DEF Move, PayOK, Kept
  <2>2. CASE v # w
    BY <1>1, <2>2 DEF Move, SoundInv, JobsSound, PayOK, Kept
  <2> QED BY <2>1, <2>2
<1> QED BY <1>2, <1>3, <1>4 DEF JobsSound

\* Being alone or not is all that changes in a job when another request comes in.
LEMMA AloneAside ==
  ASSUME NEW j \in Job, NEW b \in BOOLEAN
  PROVE  LET k == [j EXCEPT !.alone = b]
         IN  /\ k \in Job
             /\ PartsOK(j) => PartsOK(k)
             /\ k.phase = j.phase /\ k.slip = j.slip /\ k.lines = j.lines
             /\ k.ref = j.ref /\ k.fresh = j.fresh /\ k.chosen = j.chosen
             /\ k.toSettle = j.toSettle /\ k.balance = j.balance
             /\ k.before = j.before /\ k.alone = b
  BY DEF Job, PartsOK

LEMMA BeginSound ==
  ASSUME SoundInv, UNCHANGED slips, NEW w \in Worker, NEW j \in Job, Begin(w, j),
         PartsOK(j), PayOK(j)
  PROVE  job' \in [Worker -> Job] /\ JobsSound'
<1>1. job \in [Worker -> Job] /\ Quiet \in BOOLEAN
  BY DEF SoundInv, PayrollTypeOK, Quiet
<1>2. ASSUME NEW v \in Worker
      PROVE  job'[v] \in Job /\ PartsOK(job[v])' /\ PayOK(job[v])'
  <2>1. CASE v = w
    <3>1. job'[v] = [j EXCEPT !.alone = Quiet]
      BY <2>1 DEF Begin
    <3> QED BY <1>1, <3>1, AloneAside DEF PartsOK, PayOK, NetPay
  <2>2. CASE v # w
    <3>1. job'[v] = [job[v] EXCEPT !.alone = FALSE]
      BY <2>2 DEF Begin
    <3>2. job[v] \in Job /\ PartsOK(job[v]) /\ PayOK(job[v])
      BY <1>1 DEF SoundInv, JobsSound
    <3>3. PartsOK(job'[v]) /\ job'[v] \in Job
      BY <3>1, <3>2, AloneAside
    <3>4. PayOK(job'[v])
      BY <3>1, <3>2, AloneAside DEF PayOK
    <3> QED BY <3>3, <3>4 DEF PartsOK, PayOK, NetPay
  <2> QED BY <2>1, <2>2
<1>3. DOMAIN job' = Worker /\ job' = [v \in Worker |-> job'[v]]
  BY DEF Begin
<1> QED BY <1>2, <1>3 DEF JobsSound

LEMMA NextMemberSound ==
  ASSUME NEW j \in Job, NEW next \in NextMember(j)
  PROVE  /\ next \in Job /\ PartsOK(next) /\ PayOK(next)
         /\ next.phase \in {"idle", "base"} /\ (next.alone => j.alone)
<1>1. CASE next = NoJob
  BY <1>1, NoJobSound DEF NoJob
<1>2. CASE next # NoJob
  <2>1. PICK s \in j.toPay :
          next = [NoJob EXCEPT !.phase = "base", !.alone = j.alone, !.run = j.run,
                               !.toPay = j.toPay \ {s}, !.staff = {s}]
    BY <1>2 DEF NextMember
  <2>2. next \in Job
    BY <2>1, NoJobSound DEF Job
  <2>3. /\ next.allowances = {} /\ next.deductions = {} /\ next.lines = {}
        /\ next.chosen = {} /\ next.toSettle = {} /\ next.phase = "base"
        /\ next.alone = j.alone
    BY <2>1 DEF NoJob
  <2> QED BY <2>2, <2>3, FS_EmptySet DEF PartsOK, PayOK
<1> QED BY <1>1, <1>2

\* What is in force is finite, and on the side of its definitions.
LEMMA InForceSound ==
  ASSUME SoundInv, NEW s, NEW D \in SUBSET Definition
  PROVE  /\ InForce(s, D) \in SUBSET (D \X Nat)
         /\ IsFiniteSet(InForce(s, D))
<1> DEFINE X == {x \in D : s \in Covers[x] /\ policy[x] # Off}
<1>1. policy \in [Definition -> Nat]
  <2>1. policy \in [Definition -> Amount \cup {0}] /\ Amount \cup {0} \subseteq Nat
    BY PayrollAssumption DEF SoundInv, PayrollTypeOK, Off
  <2> QED BY <2>1
<1>2. IsFiniteSet(X)
  BY PayrollAssumption, FS_Subset
<1>3. InForce(s, D) = {<<d, policy[d]>> : d \in X}
  BY DEF InForce
<1> HIDE DEF X
<1>4. IsFiniteSet({<<d, policy[d]>> : d \in X})
  <2> DEFINE T == {<<d, policy[d]>> : d \in X}
             f == [d \in X |-> <<d, policy[d]>>]
  <2>1. f \in Surjection(X, T)
    BY DEF Surjection
  <2> HIDE DEF f, T
  <2>2. IsFiniteSet(T)
    BY <1>2, <2>1, FS_Surjection
  <2> QED BY <2>2 DEF T
<1> QED BY <1>1, <1>3, <1>4 DEF X

LEMMA EditSound ==
  ASSUME SoundInv,
         \/ \E n \in Salary : SetSalary(n)
         \/ \E d \in Definition, n \in Amount \cup {Off} : SetDefinition(d, n)
         \/ \E s \in Staff : SetServing(s)
  PROVE  SoundInv'
<1>1. UNCHANGED <<runs, slips, rows, job, crashes, cut, loose, hand>>
  BY DEF SetSalary, SetDefinition, SetServing, Edit
<1>2. PayrollTypeOK'
  <2>1. base' \in Salary /\ policy' \in [Definition -> Amount \cup {Off}]
        /\ serving' \subseteq Staff
    BY DEF SoundInv, PayrollTypeOK, SetSalary, SetDefinition, SetServing
  <2>2. started' \in 0 .. MaxRequests
    BY PayrollAssumption
       DEF SoundInv, PayrollTypeOK, SetSalary, SetDefinition, SetServing, Edit
  <2> QED BY <1>1, <2>1, <2>2 DEF SoundInv, PayrollTypeOK
<1>3. JobsSound' /\ RowsSound'
  BY <1>1 DEF SoundInv, JobsSound, RowsSound, PartsOK, PayOK, NetPay
<1> QED BY <1>2, <1>3 DEF SoundInv

LEMMA CreateRunSound ==
  ASSUME SoundInv, NEW w \in Worker, NEW p \in Period, NEW chosen \in SUBSET Staff,
         CreateRun(w, p, chosen)
  PROVE  SoundInv'
<1> DEFINE j == [NoJob EXCEPT !.phase = "staff", !.run = Len(runs) + 1,
                              !.toPay = chosen]
<1>1. runs \in Seq(Period) /\ Len(runs) + 1 \in Nat /\ runs' \in Seq(Period)
  BY DEF SoundInv, PayrollTypeOK, CreateRun
<1>2. j \in Job
  BY <1>1, NoJobSound DEF Job
<1>3. PartsOK(j) /\ PayOK(j)
  BY FS_EmptySet DEF NoJob, PartsOK, PayOK
<1>4. Begin(w, j) /\ UNCHANGED <<rules, slips, rows, cut, loose, hand>>
  BY DEF CreateRun
<1> HIDE DEF j
<1>5. job' \in [Worker -> Job] /\ JobsSound'
  BY <1>2, <1>3, <1>4, BeginSound
<1>6. started' \in 0 .. MaxRequests /\ crashes' = crashes
  BY <1>4, PayrollAssumption DEF Begin, SoundInv, PayrollTypeOK
<1> QED
  BY <1>1, <1>4, <1>5, <1>6 DEF SoundInv, PayrollTypeOK, RowsSound, rules

\* A step that moves a request on and changes neither records nor counters.
LEMMA ReadSound ==
  ASSUME SoundInv, NEW w \in Worker, NEW next \in Job, Move(w, next),
         PartsOK(next), PayOK(next),
         UNCHANGED <<rules, runs, slips, rows, started, crashes, cut, loose, hand>>
  PROVE  SoundInv'
<1>1. Kept
  BY DEF Kept, NetPay
<1>2. job' \in [Worker -> Job] /\ JobsSound'
  BY <1>1, MoveSound
<1> QED BY <1>2 DEF SoundInv, PayrollTypeOK, RowsSound, rules

LEMMA ReadPolicySound ==
  ASSUME SoundInv, NEW w \in Worker,
         ReadStaff(w) \/ ReadBase(w) \/ ReadAllowances(w) \/ ReadDeductions(w)
  PROVE  SoundInv'
<1>1. job[w] \in Job /\ PartsOK(job[w]) /\ PayOK(job[w])
  BY DEF SoundInv, PayrollTypeOK, JobsSound
<1>2. CASE ReadStaff(w)
  <2> DEFINE j == [job[w] EXCEPT !.toPay = @ \cap serving]
  <2>1. j \in Job
    BY <1>1 DEF Job
  <2>2. PICK next \in NextMember(j) : Move(w, next)
    BY <1>2 DEF ReadStaff
  <2> HIDE DEF j
  <2>3. next \in Job /\ PartsOK(next) /\ PayOK(next)
    BY <2>1, NextMemberSound
  <2> QED BY <1>2, <2>2, <2>3, ReadSound DEF ReadStaff
<1>3. CASE ReadBase(w)
  <2> DEFINE next == [job[w] EXCEPT !.phase = "allowances", !.base = base]
  <2>1. next \in Job
    BY <1>1, PayrollAssumption DEF SoundInv, PayrollTypeOK, Job
  <2>2. PartsOK(next) /\ PayOK(next)
    BY <1>1 DEF Job, PartsOK, PayOK
  <2>3. Move(w, next)
    BY <1>3 DEF ReadBase
  <2> HIDE DEF next
  <2> QED BY <1>3, <2>1, <2>2, <2>3, ReadSound DEF ReadBase
<1>4. CASE ReadAllowances(w)
  <2>1. PICK s \in job[w].staff :
          Move(w, [job[w] EXCEPT !.phase = "deductions",
                                 !.allowances = InForce(s, Definition \ Deduction)])
    BY <1>4 DEF ReadAllowances
  <2> DEFINE D == Definition \ Deduction
             parts == InForce(s, D)
             next == [job[w] EXCEPT !.phase = "deductions", !.allowances = parts]
  <2>2. parts \in SUBSET (D \X Nat) /\ IsFiniteSet(parts)
    BY InForceSound
  <2>3. Move(w, next)
    BY <2>1
  <2> HIDE DEF parts
  <2>4. next \in Job
    <3>1. parts \in SUBSET Part
      BY <2>2 DEF Part
    <3> QED BY <1>1, <3>1 DEF Job
  <2>5. PartsOK(next) /\ PayOK(next)
    BY <1>1, <2>2 DEF Job, PartsOK, PayOK
  <2> HIDE DEF next
  <2> QED BY <1>4, <2>3, <2>4, <2>5, ReadSound DEF ReadAllowances
<1>5. CASE ReadDeductions(w)
  <2>1. PICK s \in job[w].staff :
          Move(w, [job[w] EXCEPT !.phase = "slip", !.deductions = InForce(s, Deduction)])
    BY <1>5 DEF ReadDeductions
  <2> DEFINE parts == InForce(s, Deduction)
             next == [job[w] EXCEPT !.phase = "slip", !.deductions = parts]
  <2>2. parts \in SUBSET (Deduction \X Nat) /\ IsFiniteSet(parts)
    BY InForceSound, PayrollAssumption
  <2>3. Move(w, next)
    BY <2>1
  <2> HIDE DEF parts
  <2>4. next \in Job
    <3>1. parts \in SUBSET Part
      BY <2>2, PayrollAssumption DEF Part
    <3> QED BY <1>1, <3>1 DEF Job
  <2>5. PartsOK(next) /\ PayOK(next)
    BY <1>1, <2>2 DEF Job, PartsOK, PayOK
  <2> HIDE DEF next
  <2> QED BY <1>5, <2>3, <2>4, <2>5, ReadSound DEF ReadDeductions
<1> QED BY <1>2, <1>3, <1>4, <1>5

LEMMA CreatePayslipSound ==
  ASSUME SoundInv, NEW w \in Worker, CreatePayslip(w)
  PROVE  SoundInv'
<1> DEFINE j == job[w]
           opening == {<<"base", j.base>>} \cup j.allowances \cup j.deductions
           next == [j EXCEPT !.phase = "lines", !.slip = Len(slips) + 1,
                             !.lines = opening]
<1>1. j \in Job /\ PartsOK(j) /\ PayOK(j) /\ slips \in Seq(Slip)
  BY DEF SoundInv, PayrollTypeOK, JobsSound
<1>2. opening \in SUBSET (Part \cup ({"base"} \X Nat)) /\ IsFiniteSet(opening)
  <2>1. \A A, B : IsFiniteSet(A) /\ IsFiniteSet(B) => IsFiniteSet(A \cup B)
    BY FS_Union
  <2>2. IsFiniteSet({<<"base", j.base>>})
    BY FS_Singleton
  <2>3. <<"base", j.base>> \in {"base"} \X Nat
    BY <1>1 DEF Job
  <2>4. j.allowances \subseteq Part /\ j.deductions \subseteq Part
    BY <1>1 DEF Job
  <2> QED BY <1>1, <2>1, <2>2, <2>3, <2>4 DEF PartsOK
<1>3. next \in Job
  <2>1. Len(slips) + 1 \in Nat
    BY <1>1
  <2> HIDE DEF opening
  <2> QED BY <1>1, <1>2, <2>1 DEF Job
<1>4. PartsOK(next)
  <2> HIDE DEF opening
  <2> QED BY <1>1, <1>2 DEF Job, PartsOK
<1>5. PayOK(next)
  <2> HIDE DEF opening
  <2> QED BY <1>1 DEF Job, PayOK
<1>6. PICK slip : slip \in Slip /\ slips' = Append(slips, slip)
  <2>1. PICK s \in j.staff :
          slips' = Append(slips,
             [run |-> j.run, staff |-> s, base |-> j.base,
              allowances |-> Total(j.allowances),
              deductions |-> Total(j.deductions),
              lines |-> [allowances |-> 0, deductions |-> 0]])
    BY DEF CreatePayslip
  <2>2. \A p \in j.allowances \cup j.deductions : p[2] \in Nat
    BY <1>1 DEF Job, Part
  <2>3. Total(j.allowances) \in Nat /\ Total(j.deductions) \in Nat
    BY <1>1, <2>2, TotalType DEF PartsOK
  <2>4. s \in Staff /\ j.run \in Nat /\ j.base \in Nat
    BY <1>1 DEF Job
  <2> QED BY <2>1, <2>3, <2>4 DEF Slip
<1>7. slips' \in Seq(Slip) /\ DOMAIN slips \subseteq DOMAIN slips'
  BY <1>1, <1>6
<1>8. Kept
  BY <1>1, <1>6 DEF Kept, NetPay
<1>9. Move(w, next) /\ UNCHANGED <<rules, runs, rows, started, crashes, cut, loose, hand>>
  BY DEF CreatePayslip
<1> HIDE DEF next
<1>10. job' \in [Worker -> Job] /\ JobsSound'
  BY <1>3, <1>4, <1>5, <1>8, <1>9, MoveSound
<1> QED
  BY <1>7, <1>9, <1>10 DEF SoundInv, PayrollTypeOK, RowsSound, rules

WithAllowance(s, n) == [s EXCEPT !.lines.allowances = @ + n]

LEMMA AllowanceAdds ==
  ASSUME NEW s \in Slip, NEW n \in Nat
  PROVE  LET d == WithAllowance(s, n)
         IN  /\ d \in Slip /\ d.base = s.base
             /\ d.allowances = s.allowances /\ d.deductions = s.deductions
             /\ d.lines.allowances = s.lines.allowances + n
             /\ d.lines.deductions = s.lines.deductions
<1> DEFINE d == WithAllowance(s, n)
           L == [allowances : Nat, deductions : Nat]
           l == [s.lines EXCEPT !.allowances = @ + n]
<1>1. s.lines \in L
  BY DEF Slip
<1>2. l \in L /\ l.allowances = s.lines.allowances + n /\ l.deductions = s.lines.deductions
  BY <1>1
<1>3. d = [s EXCEPT !.lines = l]
  BY DEF WithAllowance
<1> HIDE DEF l, d
<1> QED BY <1>2, <1>3 DEF Slip, d

WithDeduction(s, n) == [s EXCEPT !.lines.deductions = @ + n]

LEMMA DeductionAdds ==
  ASSUME NEW s \in Slip, NEW n \in Nat
  PROVE  LET d == WithDeduction(s, n)
         IN  /\ d \in Slip /\ d.base = s.base
             /\ d.allowances = s.allowances /\ d.deductions = s.deductions
             /\ d.lines.deductions = s.lines.deductions + n
             /\ d.lines.allowances = s.lines.allowances
<1> DEFINE d == WithDeduction(s, n)
           L == [allowances : Nat, deductions : Nat]
           l == [s.lines EXCEPT !.deductions = @ + n]
<1>1. s.lines \in L
  BY DEF Slip
<1>2. l \in L /\ l.deductions = s.lines.deductions + n /\ l.allowances = s.lines.allowances
  BY <1>1
<1>3. d = [s EXCEPT !.lines = l]
  BY DEF WithDeduction
<1> HIDE DEF l, d
<1> QED BY <1>2, <1>3 DEF Slip, d

\* Payslips that replace payslips one by one are payslips.
LEMMA SlipsTyped ==
  ASSUME NEW s \in Seq(Slip), NEW f, DOMAIN f = DOMAIN s,
         f = [i \in DOMAIN f |-> f[i]], \A i \in DOMAIN s : f[i] \in Slip
  PROVE  f \in Seq(Slip)
<1>1. Len(s) \in Nat /\ DOMAIN s = 1 .. Len(s)
  OBVIOUS
<1>2. f \in [1 .. Len(s) -> Slip]
  BY <1>1
<1> QED BY <1>1, <1>2

\* What the line p does to the payslips.
LEMMA LineWritten ==
  ASSUME NEW k, NEW p, p[2] \in Nat, slips \in Seq(Slip),
         slips' = IF p[1] \in Deduction
                  THEN [slips EXCEPT ![k].lines.deductions = @ + p[2]]
                  ELSE [slips EXCEPT ![k].lines.allowances = @ + p[2]]
  PROVE  /\ slips' \in Seq(Slip) /\ DOMAIN slips' = DOMAIN slips /\ Kept
         /\ \A i \in DOMAIN slips :
              /\ slips'[i].base = slips[i].base
              /\ slips'[i].allowances = slips[i].allowances
              /\ slips'[i].deductions = slips[i].deductions
              /\ i # k => slips'[i].lines = slips[i].lines
         /\ k \in DOMAIN slips =>
              IF p[1] \in Deduction
              THEN /\ slips'[k].lines.allowances = slips[k].lines.allowances
                   /\ slips'[k].lines.deductions = slips[k].lines.deductions + p[2]
              ELSE /\ slips'[k].lines.allowances = slips[k].lines.allowances + p[2]
                   /\ slips'[k].lines.deductions = slips[k].lines.deductions
<1>1. \A i \in DOMAIN slips : slips[i] \in Slip
  OBVIOUS
<1>2. DOMAIN slips' = DOMAIN slips
  OBVIOUS
<1>3. \A i \in DOMAIN slips : i # k => slips'[i] = slips[i]
  OBVIOUS
<1>6. slips' = [i \in DOMAIN slips' |-> slips'[i]]
  OBVIOUS
<1>4. CASE p[1] \in Deduction
  <2> DEFINE d == slips'[k]
  <2>1. ASSUME k \in DOMAIN slips
        PROVE  /\ d \in Slip /\ d.base = slips[k].base
               /\ d.allowances = slips[k].allowances
               /\ d.deductions = slips[k].deductions
               /\ d.lines.deductions = slips[k].lines.deductions + p[2]
               /\ d.lines.allowances = slips[k].lines.allowances
    <3>1. d = WithDeduction(slips[k], p[2])
      BY <1>4, <2>1 DEF WithDeduction
    <3>2. slips[k] \in Slip
      BY <1>1, <2>1
    <3> HIDE DEF d
    <3> QED BY <3>1, <3>2, DeductionAdds
  <2>2. ASSUME NEW i \in DOMAIN slips
        PROVE  /\ slips'[i] \in Slip
               /\ slips'[i].base = slips[i].base
               /\ slips'[i].allowances = slips[i].allowances
               /\ slips'[i].deductions = slips[i].deductions
    <3>1. CASE i = k
      BY <2>1, <3>1
    <3>2. CASE i # k
      BY <1>1, <1>3, <3>2
    <3> QED BY <3>1, <3>2
  <2>3. slips' \in Seq(Slip)
    BY <1>2, <1>6, <2>2, SlipsTyped
  <2>4. Kept
    BY <1>2, <2>2 DEF Kept, NetPay
  <2> QED BY <1>2, <1>3, <1>4, <2>1, <2>2, <2>3, <2>4
<1>5. CASE p[1] \notin Deduction
  <2> DEFINE d == slips'[k]
  <2>1. ASSUME k \in DOMAIN slips
        PROVE  /\ d \in Slip /\ d.base = slips[k].base
               /\ d.allowances = slips[k].allowances
               /\ d.deductions = slips[k].deductions
               /\ d.lines.allowances = slips[k].lines.allowances + p[2]
               /\ d.lines.deductions = slips[k].lines.deductions
    <3>1. d = WithAllowance(slips[k], p[2])
      BY <1>5, <2>1 DEF WithAllowance
    <3>2. slips[k] \in Slip
      BY <1>1, <2>1
    <3> HIDE DEF d
    <3> QED BY <3>1, <3>2, AllowanceAdds
  <2>2. ASSUME NEW i \in DOMAIN slips
        PROVE  /\ slips'[i] \in Slip
               /\ slips'[i].base = slips[i].base
               /\ slips'[i].allowances = slips[i].allowances
               /\ slips'[i].deductions = slips[i].deductions
    <3>1. CASE i = k
      BY <2>1, <3>1
    <3>2. CASE i # k
      BY <1>1, <1>3, <3>2
    <3> QED BY <3>1, <3>2
  <2>3. slips' \in Seq(Slip)
    BY <1>2, <1>6, <2>2, SlipsTyped
  <2>4. Kept
    BY <1>2, <2>2 DEF Kept, NetPay
  <2> QED BY <1>2, <1>3, <1>5, <2>1, <2>2, <2>3, <2>4
<1> QED BY <1>4, <1>5

LEMMA CreateLineSound ==
  ASSUME SoundInv, NEW w \in Worker, CreateLine(w)
  PROVE  SoundInv'
<1> DEFINE j == job[w]
<1>1. j \in Job /\ PartsOK(j) /\ PayOK(j) /\ slips \in Seq(Slip)
  BY DEF SoundInv, PayrollTypeOK, JobsSound
<1>2. PICK p \in NextLines(j.lines) :
        /\ slips' = IF p[1] \in Deduction
                    THEN [slips EXCEPT ![j.slip].lines.deductions = @ + p[2]]
                    ELSE [slips EXCEPT ![j.slip].lines.allowances = @ + p[2]]
        /\ IF j.lines = {p} THEN \E next \in NextMember(j) : Move(w, next)
                            ELSE Move(w, [j EXCEPT !.lines = @ \ {p}])
  BY DEF CreateLine
<1>3. p \in j.lines
  BY DEF NextLines
<1>4. p[2] \in Nat
  BY <1>1, <1>3 DEF Job, Part
<1>5. slips' \in Seq(Slip) /\ DOMAIN slips' = DOMAIN slips /\ Kept
  BY <1>1, <1>2, <1>4, LineWritten
<1>6. \E next \in Job : Move(w, next) /\ PartsOK(next) /\ PayOK(next)
  <2>1. CASE j.lines = {p}
    BY <1>1, <1>2, <2>1, NextMemberSound
  <2>2. CASE j.lines # {p}
    <3> DEFINE next == [j EXCEPT !.lines = @ \ {p}]
    <3>1. next \in Job
      BY <1>1 DEF Job
    <3>2. IsFiniteSet(j.lines \ {p})
      BY <1>1, FS_Subset, j.lines \ {p} \subseteq j.lines DEF PartsOK
    <3>3. PartsOK(next) /\ PayOK(next)
      BY <1>1, <3>2 DEF Job, PartsOK, PayOK
    <3> QED BY <1>2, <2>2, <3>1, <3>3
  <2> QED BY <2>1, <2>2
<1>7. UNCHANGED <<rules, runs, rows, started, crashes, cut, loose, hand>>
  BY DEF CreateLine
<1> HIDE DEF j
<1>8. job' \in [Worker -> Job] /\ JobsSound'
  BY <1>5, <1>6, MoveSound
<1> QED
  BY <1>5, <1>7, <1>8 DEF SoundInv, PayrollTypeOK, RowsSound, rules

LEMMA DisbursedType ==
  ASSUME SoundInv, NEW k
  PROVE  Disbursed(k) \in Nat /\ (ConfirmedOn(k) = {} => Disbursed(k) = 0)
<1>1. IsFiniteSet(ConfirmedOn(k))
  BY FS_Subset, ConfirmedOn(k) \subseteq rows DEF SoundInv, RowsSound, ConfirmedOn
<1>2. [d \in ConfirmedOn(k) |-> d.amount] \in [ConfirmedOn(k) -> Nat]
  BY DEF SoundInv, PayrollTypeOK, ConfirmedOn, Row
<1> QED BY <1>1, <1>2, SumType DEF Disbursed

\* A new confirmed row adds its amount to what its payslip was paid.
LEMMA DisbursedGrows ==
  ASSUME SoundInv, NEW row \in Row, row \notin rows, row.status = "CONFIRMED",
         rows' = rows \cup {row}
  PROVE  /\ Disbursed(row.slip)' = Disbursed(row.slip) + row.amount
         /\ \A k : k # row.slip => Disbursed(k)' = Disbursed(k)
<1> DEFINE k == row.slip
           S == ConfirmedOn(k) \cup {row}
           f == [d \in S |-> d.amount]
<1>1. S \subseteq rows' /\ IsFiniteSet(rows')
  BY FS_AddElement DEF SoundInv, RowsSound, ConfirmedOn
<1>2. IsFiniteSet(S) /\ f \in [S -> Nat] /\ row \in S /\ f[row] = row.amount
  BY <1>1, FS_Subset DEF SoundInv, PayrollTypeOK, Row, ConfirmedOn
<1>3. S \ {row} = ConfirmedOn(k)
  BY DEF ConfirmedOn
<1>4. \A d \in ConfirmedOn(k) : f[d] = d.amount
  OBVIOUS
<1>5. {d \in rows' : d.slip = k /\ d.status = "CONFIRMED"} = S
  BY DEF ConfirmedOn
<1>6. Disbursed(row.slip)' = SumFunction(f)
  BY <1>5 DEF Disbursed, ConfirmedOn
<1> HIDE DEF f, S, k
<1>7. SumFunction(f) = f[row] + SumFunction([d \in S \ {row} |-> f[d]])
  BY <1>2, SumStep
<1>8. SumFunction([d \in S \ {row} |-> f[d]]) = Disbursed(row.slip)
  <2>1. [d \in S \ {row} |-> f[d]] = [d \in ConfirmedOn(k) |-> d.amount]
    BY <1>3, <1>4
  <2> QED BY <2>1 DEF Disbursed, k
<1>9. Disbursed(row.slip) \in Nat /\ row.amount \in Nat
  BY DisbursedType DEF Row
<1>10. ASSUME NEW i, i # row.slip PROVE Disbursed(i)' = Disbursed(i)
  <2>1. {d \in rows' : d.slip = i /\ d.status = "CONFIRMED"}
          = {d \in rows : d.slip = i /\ d.status = "CONFIRMED"}
    BY <1>10
  <2> QED BY <2>1 DEF Disbursed, ConfirmedOn
<1> QED BY <1>2, <1>6, <1>7, <1>8, <1>9, <1>10

\* A request of one statement leaves the others where they stand.
LEMMA RequestSound ==
  ASSUME SoundInv, Request, UNCHANGED slips
  PROVE  /\ job' \in [Worker -> Job] /\ JobsSound'
         /\ started' \in 0 .. MaxRequests /\ crashes' = crashes
<1>1. job \in [Worker -> Job]
  BY DEF SoundInv, PayrollTypeOK
<1>2. ASSUME NEW v \in Worker
      PROVE  job'[v] \in Job /\ PartsOK(job[v])' /\ PayOK(job[v])'
  <2>1. job'[v] = [job[v] EXCEPT !.alone = FALSE]
    BY DEF Request
  <2>2. job[v] \in Job /\ PartsOK(job[v]) /\ PayOK(job[v])
    BY <1>1 DEF SoundInv, JobsSound
  <2>3. PartsOK(job'[v]) /\ job'[v] \in Job
    BY <2>1, <2>2, AloneAside
  <2>4. PayOK(job'[v])
    BY <2>1, <2>2, AloneAside DEF PayOK
  <2> QED BY <2>3, <2>4 DEF PartsOK, PayOK, NetPay
<1>3. job' = [v \in Worker |-> job'[v]]
  BY DEF Request
<1>4. started' \in 0 .. MaxRequests /\ crashes' = crashes
  BY PayrollAssumption DEF SoundInv, PayrollTypeOK, Request
<1> QED BY <1>2, <1>3, <1>4 DEF JobsSound

LEMMA RecordSound ==
  ASSUME SoundInv, NEW k \in DOMAIN slips, NEW amount \in Paid, NEW r \in Reference,
         NEW id \in {0} \cup DOMAIN slips, Record(k, amount, <<r, id>>)
  PROVE  SoundInv'
<1> DEFINE row == Confirmed(<<r, id>>, k, amount)
<1>1. slips \in Seq(Slip) /\ k \in Nat /\ id \in Nat
  BY DEF SoundInv, PayrollTypeOK
<1>2. row \in Row /\ row.slip = k
  BY <1>1, PayrollAssumption DEF Confirmed, Row, Ref, Status
<1> HIDE DEF row
<1>3. rows' = rows \cup {row} /\ Request /\ UNCHANGED <<rules, runs, slips, cut>>
      /\ loose' \subseteq DOMAIN slips /\ hand' \subseteq Ref
  BY <1>1 DEF Record, row, SoundInv, PayrollTypeOK, Ref
<1>4. RowsSound' /\ rows' \subseteq Row
  BY <1>2, <1>3, FS_AddElement DEF SoundInv, PayrollTypeOK, RowsSound
<1> QED
  BY <1>3, <1>4, RequestSound DEF SoundInv, PayrollTypeOK, rules

LEMMA EditDisbursementSound ==
  ASSUME SoundInv, NEW d \in rows, NEW k \in DOMAIN slips, NEW r \in Reference,
         NEW status \in Status, NEW id \in {0} \cup DOMAIN slips,
         NEW amount \in Paid \cup {d.amount},
         EditDisbursement(d, <<r, id>>, k, amount, status)
  PROVE  SoundInv'
<1> DEFINE row == [ref |-> <<r, id>>, slip |-> k, amount |-> amount, status |-> status]
<1>1. d \in Row /\ d.slip \in DOMAIN slips /\ slips \in Seq(Slip)
  BY DEF SoundInv, PayrollTypeOK, RowsSound
<1>2. <<r, id>> \in Ref /\ k \in Nat /\ amount \in Nat \ {0}
  BY <1>1, PayrollAssumption DEF Ref, Row
<1>3. row \in Row /\ row.slip = k
  BY <1>2 DEF Row
<1>4. d.ref \in Ref
  BY <1>1 DEF Row
<1> HIDE DEF row
<1>5. rows' = (rows \ {d}) \cup {row} /\ Request /\ UNCHANGED <<rules, runs, slips, cut>>
      /\ loose' \subseteq DOMAIN slips /\ hand' \subseteq Ref
  BY <1>1, <1>2, <1>4 DEF EditDisbursement, row, SoundInv, PayrollTypeOK
<1>6. IsFiniteSet(rows')
  <2>1. IsFiniteSet(rows \ {d})
    BY FS_Subset, rows \ {d} \subseteq rows DEF SoundInv, RowsSound
  <2> QED BY <1>5, <2>1, FS_AddElement
<1>7. RowsSound' /\ rows' \subseteq Row
  BY <1>3, <1>5, <1>6 DEF SoundInv, PayrollTypeOK, RowsSound
<1> QED
  BY <1>5, <1>7, RequestSound DEF SoundInv, PayrollTypeOK, rules

LEMMA SelectSlipsSound ==
  ASSUME SoundInv, NEW w \in Worker, NEW ref \in Reference,
         NEW chosen \in SUBSET DOMAIN slips, SelectSlips(w, ref, chosen)
  PROVE  SoundInv'
<1> DEFINE fresh == \A d \in rows : d.ref[1] # ref
           j == [NoJob EXCEPT !.phase = "balance", !.ref = {ref},
                              !.fresh = fresh,
                              !.chosen = chosen, !.toSettle = chosen]
<1>1. chosen \subseteq Nat
  BY DEF SoundInv, PayrollTypeOK
<1>2. fresh \in BOOLEAN
  OBVIOUS
<1> HIDE DEF fresh
<1>3. j \in Job
  BY <1>1, <1>2, NoJobSound DEF Job
<1>4. PartsOK(j)
  BY FS_EmptySet DEF NoJob, PartsOK
<1>5. PayOK(j)
  BY DEF NoJob, PayOK
<1>6. Begin(w, j) /\ UNCHANGED <<rules, runs, slips, rows, cut, loose, hand>>
  BY DEF SelectSlips, fresh
<1> HIDE DEF j
<1>7. job' \in [Worker -> Job] /\ JobsSound'
  BY <1>3, <1>4, <1>5, <1>6, BeginSound
<1>8. started' \in 0 .. MaxRequests /\ crashes' = crashes
  BY <1>6, PayrollAssumption DEF Begin, SoundInv, PayrollTypeOK
<1> QED
  BY <1>6, <1>7, <1>8 DEF SoundInv, PayrollTypeOK, RowsSound, rules

LEMMA SettledSound ==
  ASSUME NEW j \in Job, PartsOK(j), j.chosen \subseteq DOMAIN slips,
         j.toSettle \subseteq j.chosen
  PROVE  LET next == Settled(j)
         IN  /\ next \in Job /\ PartsOK(next) /\ PayOK(next)
             /\ next.phase \in {"idle", "balance"}
             /\ IF j.toSettle \subseteq {j.slip} THEN next = NoJob
                ELSE /\ next.phase = "balance" /\ next.alone = j.alone
                     /\ next.fresh = j.fresh /\ next.ref = j.ref
                     /\ next.chosen = j.chosen
                     /\ next.toSettle = j.toSettle \ {j.slip}
<1> DEFINE rest == j.toSettle \ {j.slip}
           next == [j EXCEPT !.phase = "balance", !.slip = NoSlip, !.balance = 0,
                             !.before = 0, !.toSettle = rest]
<1>1. CASE rest = {}
  <2>1. Settled(j) = NoJob
    BY <1>1 DEF Settled
  <2> QED BY <1>1, <2>1, NoJobSound DEF NoJob
<1>2. CASE rest # {}
  <2>1. Settled(j) = next
    BY <1>2 DEF Settled
  <2>2. next \in Job
    <3>1. rest \in SUBSET Nat
      BY DEF Job
    <3>2. NoSlip \in Nat /\ 0 \in Nat /\ 0 \in Int
      BY DEF NoSlip
    <3> HIDE DEF rest
    <3> QED BY <3>1, <3>2, ZenonT(60) DEF Job
  <2>3. /\ next.phase = "balance" /\ next.alone = j.alone
        /\ next.fresh = j.fresh /\ next.ref = j.ref
        /\ next.chosen = j.chosen /\ next.toSettle = rest
        /\ next.allowances = j.allowances /\ next.deductions = j.deductions
        /\ next.lines = j.lines
    BY DEF Job
  <2>4. PartsOK(next)
    BY <2>3 DEF PartsOK
  <2>5. PayOK(next)
    BY <2>3 DEF PayOK
  <2> HIDE DEF next
  <2> QED BY <1>2, <2>1, <2>2, <2>3, <2>4, <2>5
<1> QED BY <1>1, <1>2

\* What a request that has read the balance of the payslip k goes on with.
ReadOf(j, k) ==
  [j EXCEPT !.phase = "pay", !.slip = k, !.balance = Balance(k),
            !.before = Disbursed(k)]

LEMMA ReadOfSound ==
  ASSUME SoundInv, NEW w \in Worker, NEW k \in job[w].toSettle
  PROVE  LET next == ReadOf(job[w], k)
         IN  /\ next \in Job /\ PartsOK(next)
             /\ Balance(k) > 0 => PayOK(next)
             /\ next.toSettle \subseteq next.chosen
             /\ next.chosen \subseteq DOMAIN slips
             /\ next.phase = "pay" /\ next.slip = k /\ next.before = Disbursed(k)
             /\ next.alone = job[w].alone /\ next.fresh = job[w].fresh
             /\ next.ref = job[w].ref /\ next.chosen = job[w].chosen
             /\ next.toSettle = job[w].toSettle
             /\ Balance(k) = NetPay(k) - Disbursed(k)
             /\ Balance(k) \in Int /\ NetPay(k) \in Int /\ Disbursed(k) \in Nat
<1> DEFINE j == job[w]
           next == ReadOf(j, k)
<1>1. j \in Job /\ PartsOK(j) /\ PayOK(j)
  BY DEF SoundInv, PayrollTypeOK, JobsSound
<1>2. k \in DOMAIN slips /\ k \in Nat
  BY <1>1 DEF PayOK, Job
<1>3. slips[k] \in Slip
  BY <1>2 DEF SoundInv, PayrollTypeOK
<1>4. NetPay(k) \in Int /\ Disbursed(k) \in Nat
  BY <1>3, DisbursedType DEF NetPay, Slip
<1>5. Balance(k) = NetPay(k) - Disbursed(k) /\ Balance(k) \in Int
  BY <1>4 DEF Balance
<1> HIDE DEF j
<1>6. next \in Job
  BY <1>1, <1>2, <1>4, <1>5 DEF Job, ReadOf
<1>7. /\ next.toSettle = j.toSettle /\ next.chosen = j.chosen /\ next.phase = "pay"
      /\ next.slip = k /\ next.balance = Balance(k) /\ next.before = Disbursed(k)
      /\ next.alone = j.alone /\ next.fresh = j.fresh /\ next.ref = j.ref
      /\ next.allowances = j.allowances /\ next.deductions = j.deductions
      /\ next.lines = j.lines
  BY <1>1 DEF ReadOf, Job
<1> HIDE DEF next
<1>8. PartsOK(next)
  BY <1>1, <1>7 DEF PartsOK
<1>9. Balance(k) > 0 => PayOK(next)
  BY <1>1, <1>5, <1>7 DEF PayOK, j
<1>10. next.toSettle \subseteq next.chosen /\ next.chosen \subseteq DOMAIN slips
  BY <1>1, <1>7 DEF PayOK
<1> QED BY <1>4, <1>5, <1>6, <1>7, <1>8, <1>9, <1>10 DEF next, j

LEMMA ReadBalanceSound ==
  ASSUME SoundInv, NEW w \in Worker, ReadBalance(w)
  PROVE  SoundInv'
<1>1. PICK k \in job[w].toSettle :
        Move(w, IF Balance(k) <= 0 THEN Settled(ReadOf(job[w], k))
                                   ELSE ReadOf(job[w], k))
  BY DEF ReadBalance, ReadOf
<1> DEFINE next == ReadOf(job[w], k)
<1>2. /\ next \in Job /\ PartsOK(next)
      /\ Balance(k) > 0 => PayOK(next)
      /\ next.toSettle \subseteq next.chosen /\ next.chosen \subseteq DOMAIN slips
      /\ Balance(k) \in Int
  BY ReadOfSound
<1> HIDE DEF next
<1>3. Settled(next) \in Job /\ PartsOK(Settled(next)) /\ PayOK(Settled(next))
  BY <1>2, SettledSound
<1>4. \E n \in Job : Move(w, n) /\ PartsOK(n) /\ PayOK(n)
  BY <1>1, <1>2, <1>3 DEF next
<1> QED BY <1>4, ReadSound DEF ReadBalance

LEMMA PayBalanceSound ==
  ASSUME SoundInv, NEW w \in Worker, PayBalance(w)
  PROVE  SoundInv'
<1> DEFINE j == job[w]
<1>1. j \in Job /\ PartsOK(j) /\ PayOK(j) /\ j.phase = "pay"
  BY DEF SoundInv, PayrollTypeOK, JobsSound, PayBalance
<1>2. PICK r \in j.ref :
        IF Used(<<r, j.slip>>) THEN UNCHANGED <<rows, loose>>
        ELSE /\ rows' = rows \cup {Confirmed(<<r, j.slip>>, j.slip, j.balance)}
             /\ loose' \in {loose, loose \cup {j.slip}}
  BY DEF PayBalance
<1>3. Move(w, Settled(j)) /\ UNCHANGED <<rules, runs, slips, started, crashes, cut, hand>>
  BY DEF PayBalance
<1>4. j.slip \in DOMAIN slips /\ j.slip \in Nat /\ j.balance \in Nat \ {0}
      /\ r \in Reference
  BY <1>1 DEF PayOK, Job
<1> DEFINE row == Confirmed(<<r, j.slip>>, j.slip, j.balance)
<1>5. row \in Row /\ row.slip = j.slip
  BY <1>4 DEF Confirmed, Row, Ref, Status
<1> HIDE DEF row
<1>6. RowsSound' /\ rows' \subseteq Row /\ loose' \subseteq DOMAIN slips
  <2>1. CASE Used(<<r, j.slip>>)
    BY <1>2, <1>3, <2>1 DEF SoundInv, PayrollTypeOK, RowsSound
  <2>2. CASE ~ Used(<<r, j.slip>>)
    <3>1. rows' = rows \cup {row} /\ loose' \in {loose, loose \cup {j.slip}}
      BY <1>2, <2>2 DEF row
    <3> QED
      BY <1>3, <1>4, <1>5, <3>1, FS_AddElement DEF SoundInv, PayrollTypeOK, RowsSound
  <2> QED BY <2>1, <2>2
<1>7. Settled(j) \in Job /\ PartsOK(Settled(j)) /\ PayOK(Settled(j))
  BY <1>1, SettledSound DEF PayOK
<1>8. Kept
  BY <1>3 DEF Kept, NetPay
<1>9. job' \in [Worker -> Job] /\ JobsSound'
  BY <1>3, <1>7, <1>8, MoveSound
<1> QED
  BY <1>3, <1>6, <1>9 DEF SoundInv, PayrollTypeOK, rules

LEMMA CrashSound ==
  ASSUME SoundInv, LinesSound, NEW w \in Worker, Crash(w)
  PROVE  SoundInv'
<1>1. Kept
  BY DEF Crash, Kept, NetPay
<1>2. job' \in [Worker -> Job] /\ JobsSound'
  BY <1>1, NoJobSound, MoveSound DEF Crash
<1>3. crashes' \in 0 .. MaxCrashes
  BY PayrollAssumption DEF Crash, SoundInv, PayrollTypeOK
<1>4. cut' \subseteq DOMAIN slips
  BY DEF Crash, SoundInv, PayrollTypeOK, LinesSound
<1> QED
  BY <1>2, <1>3, <1>4 DEF Crash, SoundInv, PayrollTypeOK, RowsSound, rules

LEMMA SoundStep == SoundInv /\ LinesSound /\ [Next]_vars => SoundInv'
<1> SUFFICES ASSUME SoundInv, LinesSound, [Next]_vars PROVE SoundInv'
  OBVIOUS
<1>1. ASSUME NEW w \in Worker, GenerateStep(w) PROVE SoundInv'
  <2>1. ASSUME NEW p \in Period, NEW chosen \in SUBSET Staff,
               GenerateForAll(w, p) \/ GenerateForSome(w, p, chosen)
        PROVE  SoundInv'
    BY <2>1, CreateRunSound, Staff \in SUBSET Staff DEF GenerateForAll, GenerateForSome
  <2> QED
    BY <1>1, <2>1, ReadPolicySound, CreatePayslipSound, CreateLineSound DEF GenerateStep
<1>2. ASSUME NEW w \in Worker, DisburseStep(w) PROVE SoundInv'
  BY <1>2, SelectSlipsSound, ReadBalanceSound, PayBalanceSound DEF DisburseStep
<1>3. CASE UNCHANGED vars
  BY <1>3 DEF vars, rules, SoundInv, PayrollTypeOK, JobsSound, RowsSound, PartsOK,
       PayOK, NetPay
<1> QED
  BY <1>1, <1>2, <1>3, EditSound, RecordSound, EditDisbursementSound, CrashSound DEF Next

-----------------------------------------------------------------------------
(* Payslips add up *)

-----------------------------------------------------------------------------
(* Payslips add up *)

\* Requests that write lines stay at the lines they have.
LEMMA LinesFrame ==
  ASSUME LinesInv, UNCHANGED <<slips, cut>>,
         \A v \in Worker :
           /\ job'[v].phase = "lines" <=> job[v].phase = "lines"
           /\ job[v].phase = "lines" => /\ job'[v].slip = job[v].slip
                                        /\ job'[v].lines = job[v].lines
  PROVE  LinesInv'
<1>1. LinesSound'
  <2>1. SUFFICES ASSUME NEW v \in Worker, job'[v].phase = "lines"
                 PROVE  LET j == job'[v]
                            slip == slips[j.slip]
                        IN  /\ j.slip \in DOMAIN slips \ cut
                            /\ slip.lines.allowances + Total(Additions(j))
                                 = slip.base + slip.allowances
                            /\ slip.lines.deductions + Total(Subtractions(j))
                                 = slip.deductions
    BY DEF LinesSound, Additions, Subtractions, Total
  <2>2. Additions(job'[v]) = Additions(job[v]) /\ Subtractions(job'[v]) = Subtractions(job[v])
    BY <2>1 DEF Additions, Subtractions
  <2> QED BY <2>1, <2>2 DEF LinesInv, LinesSound
<1>2. OwnSlip'
  BY DEF LinesInv, OwnSlip
<1>3. SlipsAddUp'
  BY DEF LinesInv, SlipsAddUp, Written
<1> QED BY <1>1, <1>2, <1>3 DEF LinesInv

LEMMA MoveAside ==
  ASSUME SoundInv, LinesInv, UNCHANGED <<slips, cut>>, NEW w \in Worker, NEW next,
         Move(w, next), job[w].phase # "lines", next.phase # "lines"
  PROVE  LinesInv'
<1>1. job \in [Worker -> Job]
  BY DEF SoundInv, PayrollTypeOK
<1>2. \A v \in Worker : job'[v] = IF v = w THEN next ELSE job[v]
  BY <1>1 DEF Move
<1> QED BY <1>2, LinesFrame

LEMMA BeginAside ==
  ASSUME SoundInv, LinesInv, UNCHANGED <<slips, cut>>, NEW w \in Worker, NEW j \in Job,
         Begin(w, j), j.phase # "lines"
  PROVE  LinesInv'
<1>1. job \in [Worker -> Job] /\ Quiet \in BOOLEAN
  BY DEF SoundInv, PayrollTypeOK, Quiet
<1>2. ASSUME NEW v \in Worker
      PROVE  /\ job'[v].phase = "lines" <=> job[v].phase = "lines"
             /\ job[v].phase = "lines" => /\ job'[v].slip = job[v].slip
                                          /\ job'[v].lines = job[v].lines
  <2>1. CASE v = w
    <3>1. job'[v] = [j EXCEPT !.alone = Quiet] /\ job[v].phase = "idle"
      BY <2>1 DEF Begin
    <3> QED BY <1>1, <3>1, AloneAside
  <2>2. CASE v # w
    <3>1. job'[v] = [job[v] EXCEPT !.alone = FALSE] /\ job[v] \in Job
      BY <1>1, <2>2 DEF Begin
    <3> QED BY <3>1, AloneAside
  <2> QED BY <2>1, <2>2
<1> QED BY <1>2, LinesFrame

LEMMA RequestAside ==
  ASSUME SoundInv, LinesInv, UNCHANGED <<slips, cut>>, Request
  PROVE  LinesInv'
<1>1. job \in [Worker -> Job]
  BY DEF SoundInv, PayrollTypeOK
<1>2. ASSUME NEW v \in Worker
      PROVE  /\ job'[v].phase = "lines" <=> job[v].phase = "lines"
             /\ job[v].phase = "lines" => /\ job'[v].slip = job[v].slip
                                          /\ job'[v].lines = job[v].lines
  <2>1. job'[v] = [job[v] EXCEPT !.alone = FALSE] /\ job[v] \in Job
    BY <1>1 DEF Request
  <2> QED BY <2>1, AloneAside
<1> QED BY <1>2, LinesFrame

LEMMA GenerateAside ==
  ASSUME SoundInv, LinesInv, NEW w \in Worker,
         \/ \E p \in Period, chosen \in SUBSET Staff : CreateRun(w, p, chosen)
         \/ ReadStaff(w) \/ ReadBase(w) \/ ReadAllowances(w) \/ ReadDeductions(w)
  PROVE  LinesInv'
<1>1. job[w] \in Job
  BY DEF SoundInv, PayrollTypeOK
<1>2. ASSUME NEW p \in Period, NEW chosen \in SUBSET Staff, CreateRun(w, p, chosen)
      PROVE  LinesInv'
  <2> DEFINE j == [NoJob EXCEPT !.phase = "staff", !.run = Len(runs) + 1,
                                !.toPay = chosen]
  <2>1. Len(runs) + 1 \in Nat
    BY DEF SoundInv, PayrollTypeOK
  <2>2. j \in Job /\ j.phase = "staff"
    BY <2>1, NoJobSound DEF Job
  <2>3. Begin(w, j) /\ UNCHANGED <<slips, cut>>
    BY <1>2 DEF CreateRun
  <2> HIDE DEF j
  <2> QED BY <2>2, <2>3, BeginAside
<1>3. CASE ReadStaff(w)
  <2> DEFINE j == [job[w] EXCEPT !.toPay = @ \cap serving]
  <2>1. j \in Job
    BY <1>1 DEF Job
  <2>2. PICK next \in NextMember(j) : Move(w, next)
    BY <1>3 DEF ReadStaff
  <2> HIDE DEF j
  <2>3. next.phase \in {"idle", "base"}
    BY <2>1, NextMemberSound
  <2> QED BY <1>3, <2>2, <2>3, MoveAside DEF ReadStaff
<1>4. CASE ReadBase(w)
  <2> DEFINE next == [job[w] EXCEPT !.phase = "allowances", !.base = base]
  <2>1. next.phase = "allowances" /\ Move(w, next)
    BY <1>1, <1>4 DEF ReadBase, Job
  <2> HIDE DEF next
  <2> QED BY <1>4, <2>1, MoveAside DEF ReadBase
<1>5. CASE ReadAllowances(w)
  <2>1. PICK s \in job[w].staff :
          Move(w, [job[w] EXCEPT !.phase = "deductions",
                                 !.allowances = InForce(s, Definition \ Deduction)])
    BY <1>5 DEF ReadAllowances
  <2> DEFINE next == [job[w] EXCEPT !.phase = "deductions",
                                    !.allowances = InForce(s, Definition \ Deduction)]
  <2>2. next.phase = "deductions" /\ Move(w, next)
    BY <1>1, <2>1 DEF Job
  <2> HIDE DEF next
  <2> QED BY <1>5, <2>2, MoveAside DEF ReadAllowances
<1>6. CASE ReadDeductions(w)
  <2>1. PICK s \in job[w].staff :
          Move(w, [job[w] EXCEPT !.phase = "slip", !.deductions = InForce(s, Deduction)])
    BY <1>6 DEF ReadDeductions
  <2> DEFINE next == [job[w] EXCEPT !.phase = "slip", !.deductions = InForce(s, Deduction)]
  <2>2. next.phase = "slip" /\ Move(w, next)
    BY <1>1, <2>1 DEF Job
  <2> HIDE DEF next
  <2> QED BY <1>6, <2>2, MoveAside DEF ReadDeductions
<1> QED BY <1>2, <1>3, <1>4, <1>5, <1>6

LEMMA DisburseAside ==
  ASSUME SoundInv, LinesInv, NEW w \in Worker,
         \/ \E ref \in Reference, chosen \in SUBSET DOMAIN slips : SelectSlips(w, ref, chosen)
         \/ ReadBalance(w) \/ PayBalance(w)
  PROVE  LinesInv'
<1>1. job[w] \in Job /\ PartsOK(job[w]) /\ PayOK(job[w])
  BY DEF SoundInv, PayrollTypeOK, JobsSound
<1>2. ASSUME NEW ref \in Reference, NEW chosen \in SUBSET DOMAIN slips,
             SelectSlips(w, ref, chosen)
      PROVE  LinesInv'
  <2> DEFINE fresh == \A d \in rows : d.ref[1] # ref
             j == [NoJob EXCEPT !.phase = "balance", !.ref = {ref}, !.fresh = fresh,
                                !.chosen = chosen, !.toSettle = chosen]
  <2>1. fresh \in BOOLEAN /\ chosen \subseteq Nat
    BY DEF SoundInv, PayrollTypeOK
  <2>2. Begin(w, j) /\ UNCHANGED <<slips, cut>>
    BY <1>2 DEF SelectSlips
  <2> HIDE DEF fresh
  <2>3. j \in Job /\ j.phase = "balance"
    BY <2>1, NoJobSound DEF Job
  <2> HIDE DEF j
  <2> QED BY <2>2, <2>3, BeginAside
<1>3. CASE ReadBalance(w)
  <2>1. PICK k \in job[w].toSettle :
          Move(w, IF Balance(k) <= 0 THEN Settled(ReadOf(job[w], k))
                                     ELSE ReadOf(job[w], k))
    BY <1>3 DEF ReadBalance, ReadOf
  <2> DEFINE next == ReadOf(job[w], k)
  <2>2. /\ next \in Job /\ PartsOK(next) /\ next.phase = "pay"
        /\ next.toSettle \subseteq next.chosen /\ next.chosen \subseteq DOMAIN slips
    BY ReadOfSound
  <2> HIDE DEF next
  <2>3. Settled(next).phase \in {"idle", "balance"}
    BY <2>2, SettledSound
  <2>4. \E n : Move(w, n) /\ n.phase # "lines"
    BY <2>1, <2>2, <2>3 DEF next
  <2> QED BY <1>3, <2>4, MoveAside DEF ReadBalance
<1>4. CASE PayBalance(w)
  <2>1. Settled(job[w]).phase \in {"idle", "balance"}
    BY <1>1, SettledSound DEF PayOK
  <2> QED BY <1>4, <2>1, MoveAside DEF PayBalance
<1> QED BY <1>2, <1>3, <1>4

LEMMA CreatePayslipLines ==
  ASSUME SoundInv, LinesInv, NEW w \in Worker, CreatePayslip(w)
  PROVE  LinesInv'
<1> DEFINE j == job[w]
           n == Len(slips) + 1
           opening == {<<"base", j.base>>} \cup j.allowances \cup j.deductions
           next == [j EXCEPT !.phase = "lines", !.slip = n, !.lines = opening]
<1>1. j \in Job /\ PartsOK(j) /\ slips \in Seq(Slip) /\ cut \subseteq DOMAIN slips
      /\ job \in [Worker -> Job]
  BY DEF SoundInv, PayrollTypeOK, JobsSound
<1>2. n \in Nat /\ n \notin DOMAIN slips
  BY <1>1
<1>3. PICK s \in j.staff :
        slips' = Append(slips,
             [run |-> j.run, staff |-> s, base |-> j.base,
              allowances |-> Total(j.allowances),
              deductions |-> Total(j.deductions),
              lines |-> [allowances |-> 0, deductions |-> 0]])
  BY DEF CreatePayslip
<1>4. /\ DOMAIN slips' = DOMAIN slips \cup {n}
      /\ \A i \in DOMAIN slips : slips'[i] = slips[i]
      /\ slips'[n].base = j.base
      /\ slips'[n].allowances = Total(j.allowances)
      /\ slips'[n].deductions = Total(j.deductions)
      /\ slips'[n].lines.allowances = 0 /\ slips'[n].lines.deductions = 0
  BY <1>1, <1>3
<1>5. /\ \A v \in Worker \ {w} : job'[v] = job[v]
      /\ job'[w] = next /\ cut' = cut
  BY <1>1 DEF CreatePayslip, Move
<1>6. job'[w].phase = "lines" /\ job'[w].slip = n /\ job'[w].lines = opening
  BY <1>1, <1>5 DEF Job
<1>7. /\ \A p \in j.allowances : p[1] \notin Deduction /\ p[2] \in Nat /\ p[1] # "base"
      /\ \A p \in j.deductions : p[1] \in Deduction /\ p[2] \in Nat
      /\ "base" \notin Deduction /\ j.base \in Nat
  BY <1>1, PayrollAssumption DEF Job, Part, PartsOK
<1> DEFINE first == <<"base", j.base>>
<1>8. /\ Additions(job'[w]) = {first} \cup j.allowances
      /\ Subtractions(job'[w]) = j.deductions
  BY <1>6, <1>7 DEF Additions, Subtractions
<1>9. Total({first} \cup j.allowances) = j.base + Total(j.allowances)
  <2> DEFINE P == {first} \cup j.allowances
  <2>1. IsFiniteSet(P)
    BY <1>1, FS_Singleton, FS_Union DEF PartsOK
  <2>2. first \in P /\ P \ {first} = j.allowances /\ first[2] = j.base
        /\ \A q \in P : q[2] \in Nat
    BY <1>7
  <2> HIDE DEF P, first
  <2>3. Total(P) = first[2] + Total(P \ {first})
    BY <2>1, <2>2, TotalStep
  <2> QED BY <2>2, <2>3 DEF P
<1>10. Total(j.allowances) \in Nat /\ Total(j.deductions) \in Nat
  BY <1>1, <1>7, TotalType DEF PartsOK
<1> HIDE DEF first, next, opening, n, j
<1>11. LinesSound'
  <2>1. SUFFICES ASSUME NEW v \in Worker, job'[v].phase = "lines"
                 PROVE  /\ job'[v].slip \in DOMAIN slips' \ cut'
                        /\ slips'[job'[v].slip].lines.allowances + Total(Additions(job'[v]))
                             = slips'[job'[v].slip].base + slips'[job'[v].slip].allowances
                        /\ slips'[job'[v].slip].lines.deductions
                               + Total(Subtractions(job'[v]))
                             = slips'[job'[v].slip].deductions
    BY DEF LinesSound, Additions, Subtractions, Total
  <2>2. CASE v = w
    <3>1. n \in DOMAIN slips' \ cut'
      BY <1>1, <1>2, <1>4, <1>5
    <3>2. /\ Total(Additions(job'[w])) = j.base + Total(j.allowances)
          /\ Total(Subtractions(job'[w])) = Total(j.deductions)
      BY <1>8, <1>9
    <3>3. job'[v].slip = n /\ job'[v] = job'[w]
      BY <1>6, <2>2
    <3>4. 0 + (j.base + Total(j.allowances)) = j.base + Total(j.allowances)
          /\ 0 + Total(j.deductions) = Total(j.deductions)
      BY <1>7, <1>10
    <3> QED BY <1>4, <3>1, <3>2, <3>3, <3>4
  <2>3. CASE v # w
    <3>1. job'[v] = job[v]
      BY <1>5, <2>3
    <3>2. job[v].slip \in DOMAIN slips \ cut
      BY <2>1, <3>1 DEF LinesInv, LinesSound
    <3>3. slips'[job[v].slip] = slips[job[v].slip] /\ job[v].slip \in DOMAIN slips' \ cut'
      BY <1>4, <1>5, <3>2
    <3> QED BY <2>1, <3>1, <3>3 DEF LinesInv, LinesSound
  <2> QED BY <2>2, <2>3
<1>12. OwnSlip'
  <2>1. \A v \in Worker \ {w} : job'[v].phase = "lines" => job'[v].slip \in DOMAIN slips
    BY <1>5 DEF LinesInv, LinesSound
  <2>2. \A v \in Worker \ {w} : job'[v].phase = "lines" => job'[v].slip # n
    BY <1>2, <2>1
  <2>3. SUFFICES ASSUME NEW u \in Worker, NEW v \in Worker,
                        job'[u].phase = "lines", job'[v].phase = "lines",
                        job'[u].slip = job'[v].slip
                 PROVE  u = v
    BY DEF OwnSlip
  <2>4. CASE u = w \/ v = w
    BY <1>6, <2>2, <2>3, <2>4
  <2>5. CASE u # w /\ v # w
    BY <1>5, <2>3, <2>5 DEF LinesInv, OwnSlip
  <2> QED BY <2>4, <2>5
<1>13. SlipsAddUp'
  <2>1. SUFFICES ASSUME NEW k \in DOMAIN slips' \ cut', Written(k)'
                 PROVE  /\ slips'[k].lines.allowances = slips'[k].base + slips'[k].allowances
                        /\ slips'[k].lines.deductions = slips'[k].deductions
    BY DEF SlipsAddUp
  <2>2. k # n
    BY <1>6, <2>1 DEF Written
  <2>3. k \in DOMAIN slips \ cut /\ slips'[k] = slips[k]
    BY <1>4, <1>5, <2>1, <2>2
  <2>4. Written(k)
    <3>1. job[w].phase # "lines"
      BY DEF CreatePayslip
    <3> QED BY <1>5, <2>1, <3>1 DEF Written
  <2> QED BY <2>3, <2>4 DEF LinesInv, SlipsAddUp
<1> QED BY <1>11, <1>12, <1>13 DEF LinesInv

LEMMA CrashLines ==
  ASSUME SoundInv, LinesInv, NEW w \in Worker, Crash(w)
  PROVE  LinesInv'
<1>1. /\ \A v \in Worker \ {w} : job'[v] = job[v]
      /\ job'[w] = NoJob /\ slips' = slips
      /\ cut' = IF job[w].phase = "lines" THEN cut \cup {job[w].slip} ELSE cut
  BY DEF Crash, Move, SoundInv, PayrollTypeOK
<1>2. job'[w].phase = "idle"
  BY <1>1 DEF NoJob
<1>3. LinesSound'
  <2>1. SUFFICES ASSUME NEW v \in Worker, job'[v].phase = "lines"
                 PROVE  /\ job'[v].slip \in DOMAIN slips \ cut'
                        /\ slips[job'[v].slip].lines.allowances + Total(Additions(job'[v]))
                             = slips[job'[v].slip].base + slips[job'[v].slip].allowances
                        /\ slips[job'[v].slip].lines.deductions
                               + Total(Subtractions(job'[v]))
                             = slips[job'[v].slip].deductions
    BY <1>1 DEF LinesSound, Additions, Subtractions, Total
  <2>2. v # w /\ job'[v] = job[v]
    BY <1>1, <1>2, <2>1
  <2>3. job[w].phase = "lines" => job[v].slip # job[w].slip
    BY <2>1, <2>2 DEF LinesInv, OwnSlip
  <2> QED BY <1>1, <2>1, <2>2, <2>3 DEF LinesInv, LinesSound
<1>4. OwnSlip'
  BY <1>1, <1>2 DEF LinesInv, OwnSlip
<1>5. SlipsAddUp'
  BY <1>1, <1>2 DEF LinesInv, SlipsAddUp, Written
<1> QED BY <1>3, <1>4, <1>5 DEF LinesInv

\* Writing a line takes its amount from what is still to be written.
LEMMA LineTaken ==
  ASSUME NEW j \in Job, PartsOK(j), NEW p \in j.lines
  PROVE  LET k == [j EXCEPT !.lines = @ \ {p}]
         IN  IF p[1] \in Deduction
             THEN /\ Total(Additions(k)) = Total(Additions(j))
                  /\ Total(Subtractions(j)) = p[2] + Total(Subtractions(k))
             ELSE /\ Total(Additions(j)) = p[2] + Total(Additions(k))
                  /\ Total(Subtractions(k)) = Total(Subtractions(j))
<1> DEFINE k == [j EXCEPT !.lines = @ \ {p}]
           A == Additions(j)
           B == Subtractions(j)
<1>1. k.lines = j.lines \ {p}
  BY DEF Job
<1>2. Additions(k) = A \ {p} /\ Subtractions(k) = B \ {p}
  BY <1>1 DEF Additions, Subtractions
<1>3. IsFiniteSet(A) /\ IsFiniteSet(B)
  BY FS_Subset, A \subseteq j.lines, B \subseteq j.lines DEF Additions, Subtractions, PartsOK
<1>4. (\A q \in A : q[2] \in Nat) /\ (\A q \in B : q[2] \in Nat)
  BY DEF Additions, Subtractions, Job, Part
<1> HIDE DEF k
<1>5. CASE p[1] \in Deduction
  <2>1. p \in B /\ A \ {p} = A
    BY <1>5 DEF Additions, Subtractions
  <2> HIDE DEF A, B
  <2>2. Total(B) = p[2] + Total(B \ {p})
    BY <1>3, <1>4, <2>1, TotalStep
  <2> QED BY <1>2, <1>5, <2>1, <2>2 DEF A, B, k
<1>6. CASE p[1] \notin Deduction
  <2>1. p \in A /\ B \ {p} = B
    BY <1>6 DEF Additions, Subtractions
  <2> HIDE DEF A, B
  <2>2. Total(A) = p[2] + Total(A \ {p})
    BY <1>3, <1>4, <2>1, TotalStep
  <2> QED BY <1>2, <1>6, <2>1, <2>2 DEF A, B, k
<1> QED BY <1>5, <1>6

LEMMA PartTotals ==
  ASSUME NEW j \in Job, PartsOK(j)
  PROVE  /\ Total(Additions(j)) \in Nat /\ Total(Subtractions(j)) \in Nat
         /\ j.lines = {} => Total(Additions(j)) = 0 /\ Total(Subtractions(j)) = 0
<1> DEFINE A == Additions(j)
           B == Subtractions(j)
<1>1. IsFiniteSet(A) /\ IsFiniteSet(B)
  BY FS_Subset, A \subseteq j.lines, B \subseteq j.lines DEF Additions, Subtractions, PartsOK
<1>2. (\A q \in A : q[2] \in Nat) /\ (\A q \in B : q[2] \in Nat)
  BY DEF Additions, Subtractions, Job, Part
<1>3. j.lines = {} => A = {} /\ B = {}
  BY DEF Additions, Subtractions
<1> HIDE DEF A, B
<1>4. /\ Total(A) \in Nat /\ (A = {} => Total(A) = 0)
      /\ Total(B) \in Nat /\ (B = {} => Total(B) = 0)
  BY <1>1, <1>2, TotalType
<1> QED BY <1>3, <1>4 DEF A, B

LEMMA CreateLineLines ==
  ASSUME SoundInv, LinesInv, NEW w \in Worker, CreateLine(w)
  PROVE  LinesInv'
<1> DEFINE j == job[w]
           i == j.slip
<1>1. j \in Job /\ PartsOK(j) /\ slips \in Seq(Slip) /\ job \in [Worker -> Job]
      /\ j.phase = "lines" /\ cut' = cut
  BY DEF SoundInv, PayrollTypeOK, JobsSound, CreateLine
<1>2. PICK p \in NextLines(j.lines) :
        /\ slips' = IF p[1] \in Deduction
                    THEN [slips EXCEPT ![i].lines.deductions = @ + p[2]]
                    ELSE [slips EXCEPT ![i].lines.allowances = @ + p[2]]
        /\ IF j.lines = {p} THEN \E next \in NextMember(j) : Move(w, next)
                            ELSE Move(w, [j EXCEPT !.lines = @ \ {p}])
  BY DEF CreateLine
<1>3. p \in j.lines /\ p[2] \in Nat
  <2>1. p \in j.lines
    BY DEF NextLines
  <2> QED BY <1>1, <2>1 DEF Job, Part
<1> DEFINE rest == [j EXCEPT !.lines = @ \ {p}]
<1>4. /\ rest \in Job /\ PartsOK(rest) /\ rest.phase = "lines" /\ rest.slip = i
      /\ rest.lines = j.lines \ {p}
  <2>1. rest \in Job /\ rest.phase = "lines" /\ rest.slip = i
        /\ rest.lines = j.lines \ {p} /\ rest.allowances = j.allowances
        /\ rest.deductions = j.deductions
    BY <1>1 DEF Job
  <2>2. IsFiniteSet(j.lines \ {p})
    BY <1>1, FS_Subset, j.lines \ {p} \subseteq j.lines DEF PartsOK
  <2> HIDE DEF rest
  <2> QED BY <1>1, <2>1, <2>2 DEF PartsOK
<1>5. /\ \A v \in Worker \ {w} : job'[v] = job[v]
      /\ IF j.lines = {p} THEN job'[w].phase # "lines" ELSE job'[w] = rest
  <2>1. CASE j.lines = {p}
    <3>1. PICK next \in NextMember(j) : Move(w, next)
      BY <1>2, <2>1
    <3>2. next.phase # "lines"
      BY <1>1, NextMemberSound
    <3> QED BY <1>1, <2>1, <3>1, <3>2 DEF Move
  <2>2. CASE j.lines # {p}
    BY <1>1, <1>2, <2>2 DEF Move
  <2> QED BY <2>1, <2>2
<1>6. i \in DOMAIN slips \ cut /\ DOMAIN slips' = DOMAIN slips
  BY <1>1, <1>2, <1>3, LineWritten DEF LinesInv, LinesSound
<1> HIDE DEF rest, i, j
<1>7. /\ \A k \in DOMAIN slips :
           /\ slips'[k].base = slips[k].base
           /\ slips'[k].allowances = slips[k].allowances
           /\ slips'[k].deductions = slips[k].deductions
           /\ k # i => slips'[k].lines = slips[k].lines
      /\ IF p[1] \in Deduction
         THEN /\ slips'[i].lines.allowances = slips[i].lines.allowances
              /\ slips'[i].lines.deductions = slips[i].lines.deductions + p[2]
         ELSE /\ slips'[i].lines.allowances = slips[i].lines.allowances + p[2]
              /\ slips'[i].lines.deductions = slips[i].lines.deductions
  BY <1>1, <1>2, <1>3, <1>6, LineWritten
<1>8. /\ slips'[i].lines.allowances + Total(Additions(rest))
           = slips'[i].base + slips'[i].allowances
      /\ slips'[i].lines.deductions + Total(Subtractions(rest)) = slips'[i].deductions
  <2>1. /\ slips[i].lines.allowances + Total(Additions(j))
             = slips[i].base + slips[i].allowances
        /\ slips[i].lines.deductions + Total(Subtractions(j)) = slips[i].deductions
    BY <1>1 DEF LinesInv, LinesSound, i, j
  <2>2. IF p[1] \in Deduction
        THEN /\ Total(Additions(rest)) = Total(Additions(j))
             /\ Total(Subtractions(j)) = p[2] + Total(Subtractions(rest))
        ELSE /\ Total(Additions(j)) = p[2] + Total(Additions(rest))
             /\ Total(Subtractions(rest)) = Total(Subtractions(j))
    BY <1>1, <1>3, LineTaken DEF rest
  <2>3. /\ Total(Additions(rest)) \in Nat /\ Total(Subtractions(rest)) \in Nat
        /\ Total(Additions(j)) \in Nat /\ Total(Subtractions(j)) \in Nat
    BY <1>1, <1>4, PartTotals
  <2>4. slips[i].lines.allowances \in Nat /\ slips[i].lines.deductions \in Nat
    <3>1. slips[i] \in Slip
      BY <1>1, <1>6
    <3> QED BY <3>1 DEF Slip
  <2>5. CASE p[1] \in Deduction
    BY <1>3, <1>6, <1>7, <2>1, <2>2, <2>3, <2>4, <2>5
  <2>6. CASE p[1] \notin Deduction
    BY <1>3, <1>6, <1>7, <2>1, <2>2, <2>3, <2>4, <2>6
  <2> QED BY <2>5, <2>6
<1>9. \A v \in Worker \ {w} : job[v].phase = "lines" =>
        job[v].slip # i /\ job[v].slip \in DOMAIN slips \ cut
  BY <1>1 DEF LinesInv, OwnSlip, LinesSound, i, j
<1>10. LinesSound'
  <2>1. SUFFICES ASSUME NEW v \in Worker, job'[v].phase = "lines"
                 PROVE  /\ job'[v].slip \in DOMAIN slips' \ cut'
                        /\ slips'[job'[v].slip].lines.allowances + Total(Additions(job'[v]))
                             = slips'[job'[v].slip].base + slips'[job'[v].slip].allowances
                        /\ slips'[job'[v].slip].lines.deductions
                               + Total(Subtractions(job'[v]))
                             = slips'[job'[v].slip].deductions
    BY DEF LinesSound, Additions, Subtractions, Total
  <2>2. CASE v = w
    <3>1. job'[v] = rest
      BY <1>5, <2>1, <2>2
    <3> QED BY <1>1, <1>4, <1>6, <1>8, <3>1
  <2>3. CASE v # w
    <3>1. job'[v] = job[v]
      BY <1>5, <2>3
    <3> DEFINE k == job[v].slip
    <3>2. k # i /\ k \in DOMAIN slips \ cut
      BY <1>9, <2>1, <2>3, <3>1
    <3>3. /\ slips'[k].base = slips[k].base /\ slips'[k].allowances = slips[k].allowances
          /\ slips'[k].deductions = slips[k].deductions
          /\ slips'[k].lines = slips[k].lines
      BY <1>7, <3>2
    <3>4. /\ slips[k].lines.allowances + Total(Additions(job[v]))
               = slips[k].base + slips[k].allowances
          /\ slips[k].lines.deductions + Total(Subtractions(job[v])) = slips[k].deductions
      BY <2>1, <3>1 DEF LinesInv, LinesSound
    <3> QED BY <1>1, <1>6, <3>1, <3>2, <3>3, <3>4
  <2> QED BY <2>2, <2>3
<1>11. OwnSlip'
  <2>1. job'[w].phase = "lines" => job'[w].slip = i
    BY <1>4, <1>5
  <2> QED BY <1>5, <1>9, <2>1 DEF LinesInv, OwnSlip
<1>12. SlipsAddUp'
  <2>1. SUFFICES ASSUME NEW k \in DOMAIN slips' \ cut', Written(k)'
                 PROVE  /\ slips'[k].lines.allowances = slips'[k].base + slips'[k].allowances
                        /\ slips'[k].lines.deductions = slips'[k].deductions
    BY DEF SlipsAddUp
  <2>2. CASE k = i
    <3>1. j.lines = {p}
      BY <1>4, <1>5, <2>1, <2>2 DEF Written
    <3>2. rest.lines = {}
      BY <1>4, <3>1
    <3>3. Total(Additions(rest)) = 0 /\ Total(Subtractions(rest)) = 0
      BY <1>4, <3>2, PartTotals
    <3>4. slips'[i].lines.allowances \in Nat /\ slips'[i].lines.deductions \in Nat
      <4>1. slips' \in Seq(Slip)
        BY <1>1, <1>2, <1>3, LineWritten
      <4>2. slips'[i] \in Slip
        BY <1>6, <4>1
      <4> QED BY <4>2 DEF Slip
    <3> QED BY <1>8, <2>2, <3>3, <3>4
  <2>3. CASE k # i
    <3>1. Written(k)
      BY <1>5, <2>1, <2>3 DEF Written, i, j
    <3> QED BY <1>1, <1>6, <1>7, <2>1, <2>3, <3>1 DEF LinesInv, SlipsAddUp
  <2> QED BY <2>2, <2>3
<1> QED BY <1>10, <1>11, <1>12 DEF LinesInv

LEMMA LinesStep == SoundInv /\ LinesInv /\ [Next]_vars => LinesInv'
<1> SUFFICES ASSUME SoundInv, LinesInv, [Next]_vars PROVE LinesInv'
  OBVIOUS
<1>1. ASSUME NEW w \in Worker, GenerateStep(w) PROVE LinesInv'
  <2>1. ASSUME NEW p \in Period, NEW chosen \in SUBSET Staff,
               GenerateForAll(w, p) \/ GenerateForSome(w, p, chosen)
        PROVE  LinesInv'
    BY <2>1, GenerateAside, Staff \in SUBSET Staff DEF GenerateForAll, GenerateForSome
  <2> QED
    BY <1>1, <2>1, GenerateAside, CreatePayslipLines, CreateLineLines DEF GenerateStep
<1>2. ASSUME NEW w \in Worker, DisburseStep(w) PROVE LinesInv'
  BY <1>2, DisburseAside DEF DisburseStep
<1>3. ASSUME \/ UNCHANGED vars
             \/ \E n \in Salary : SetSalary(n)
             \/ \E d \in Definition, n \in Amount \cup {Off} : SetDefinition(d, n)
             \/ \E s \in Staff : SetServing(s)
      PROVE  LinesInv'
  <2>1. UNCHANGED <<slips, cut, job>>
    BY <1>3 DEF vars, SetSalary, SetDefinition, SetServing, Edit
  <2> QED BY <2>1, LinesFrame
<1>4. ASSUME \/ \E k \in DOMAIN slips, amount \in Paid, r \in Reference :
                  \E id \in {0} \cup DOMAIN slips : Record(k, amount, <<r, id>>)
             \/ \E d, ref, k, amount, status :
                  EditDisbursement(d, ref, k, amount, status)
      PROVE  LinesInv'
  BY <1>4, RequestAside DEF Record, EditDisbursement
<1> QED BY <1>1, <1>2, <1>3, <1>4, CrashLines DEF Next

LEMMA InitSound == Init => SoundInv /\ LinesInv
<1> SUFFICES ASSUME Init PROVE SoundInv /\ LinesInv
  OBVIOUS
<1>1. PayrollTypeOK
  BY NoJobSound, PayrollAssumption DEF Init, PayrollTypeOK
<1>2. JobsSound /\ RowsSound
  BY NoJobSound, FS_EmptySet DEF Init, JobsSound, RowsSound
<1>3. LinesInv
  BY DEF Init, NoJob, LinesInv, LinesSound, OwnSlip, SlipsAddUp
<1> QED BY <1>1, <1>2, <1>3 DEF SoundInv

\* For any staff, policy and requests: the lines of a payslip that is written add
\* up to its totals, however the policy is edited while generate_payslip runs and
\* however many runs are generated at the same time.
THEOREM PayslipsAddUp == Spec => []SlipsAddUp
<1>1. SoundInv /\ LinesInv /\ [Next]_vars => (SoundInv /\ LinesInv)'
  BY SoundStep, LinesStep DEF LinesInv
<1>2. SoundInv /\ LinesInv => SlipsAddUp
  BY DEF LinesInv
<1> QED BY InitSound, <1>1, <1>2, PTL DEF Spec

-----------------------------------------------------------------------------
(* Nobody is overpaid *)

LEMMA NetPayType ==
  ASSUME SoundInv, NEW k \in DOMAIN slips
  PROVE  NetPay(k) \in Int
<1>1. slips[k] \in Slip
  BY DEF SoundInv, PayrollTypeOK
<1> QED BY <1>1 DEF NetPay, Slip

\* A step that pays nobody.
LEMMA PaidFrame ==
  ASSUME SoundInv, NeverOverpaid, Kept, UNCHANGED <<rows, loose>>
  PROVE  NeverOverpaid'
<1>1. \A k : Disbursed(k)' = Disbursed(k)
  BY DEF Disbursed, ConfirmedOn
<1>2. SUFFICES ASSUME NEW k \in DOMAIN slips' \ loose
               PROVE  Disbursed(k) = 0 \/ Disbursed(k) <= NetPay(k)'
  BY <1>1 DEF NeverOverpaid
<1>3. CASE k \in DOMAIN slips
  BY <1>2, <1>3 DEF NeverOverpaid, Kept
<1>4. CASE k \notin DOMAIN slips
  <2>1. ConfirmedOn(k) = {}
    BY <1>4 DEF ConfirmedOn, SoundInv, RowsSound
  <2> QED BY <2>1, DisbursedType
<1> QED BY <1>3, <1>4

\* A step that pays the payslip k within what it still has to get.
LEMMA PaidWithin ==
  ASSUME SoundInv, NeverOverpaid, UNCHANGED slips, NEW row \in Row, row \notin rows,
         row.status = "CONFIRMED", rows' = rows \cup {row},
         loose \subseteq loose', row.slip \in DOMAIN slips,
         row.slip \notin loose' => Disbursed(row.slip) + row.amount <= NetPay(row.slip)
  PROVE  NeverOverpaid'
<1>1. /\ Disbursed(row.slip)' = Disbursed(row.slip) + row.amount
      /\ \A k : k # row.slip => Disbursed(k)' = Disbursed(k)
  BY DisbursedGrows
<1>2. \A k : NetPay(k)' = NetPay(k)
  BY DEF NetPay
<1>3. SUFFICES ASSUME NEW k \in DOMAIN slips \ loose'
               PROVE  Disbursed(k)' = 0 \/ Disbursed(k)' <= NetPay(k)
  BY <1>2 DEF NeverOverpaid
<1>4. CASE k = row.slip
  BY <1>1, <1>3, <1>4
<1>5. CASE k # row.slip
  BY <1>1, <1>3, <1>5 DEF NeverOverpaid
<1> QED BY <1>4, <1>5

LEMMA RecordWithin ==
  ASSUME SoundInv, NeverOverpaid, NEW k \in DOMAIN slips, NEW amount \in Paid,
         NEW r \in Reference, NEW id \in {0} \cup DOMAIN slips,
         Record(k, amount, <<r, id>>)
  PROVE  NeverOverpaid'
<1> DEFINE row == Confirmed(<<r, id>>, k, amount)
<1>1. slips \in Seq(Slip) /\ k \in Nat /\ id \in Nat
  BY DEF SoundInv, PayrollTypeOK
<1>2. /\ row \in Row /\ row.slip = k /\ row.status = "CONFIRMED"
      /\ row.amount = amount /\ row.ref = <<r, id>>
  BY <1>1, PayrollAssumption DEF Confirmed, Row, Ref, Status
<1>3. /\ rows' = rows \cup {row} /\ ~ Used(<<r, id>>) /\ UNCHANGED slips
      /\ loose' = IF amount > Balance(k) THEN loose \cup {k} ELSE loose
  BY DEF Record
<1> HIDE DEF row
<1>4. row \notin rows
  BY <1>2, <1>3 DEF Used
<1>5. NetPay(k) \in Int /\ Disbursed(k) \in Nat /\ amount \in Nat
  BY NetPayType, DisbursedType, PayrollAssumption
<1>6. k \notin loose' => Disbursed(k) + amount <= NetPay(k)
  BY <1>3, <1>5 DEF Balance
<1>7. loose \subseteq loose'
  BY <1>3
<1> QED BY <1>2, <1>3, <1>4, <1>6, <1>7, PaidWithin

\* An edit of a row changes what the payslips before and after it were paid.
LEMMA EditedElsewhere ==
  ASSUME NEW d \in rows, NEW ref, NEW k, NEW amount, NEW status,
         EditDisbursement(d, ref, k, amount, status), NEW i, i \notin loose'
  PROVE  Disbursed(i)' = Disbursed(i)
<1> DEFINE row == [ref |-> ref, slip |-> k, amount |-> amount, status |-> status]
<1>1. rows' = (rows \ {d}) \cup {row} /\ row.slip = k /\ i # k /\ i # d.slip
  BY DEF EditDisbursement
<1> HIDE DEF row
<1>2. {e \in rows' : e.slip = i /\ e.status = "CONFIRMED"}
        = {e \in rows : e.slip = i /\ e.status = "CONFIRMED"}
  BY <1>1
<1> QED BY <1>2 DEF Disbursed, ConfirmedOn

LEMMA EditWithin ==
  ASSUME SoundInv, NeverOverpaid, NEW d \in rows, NEW ref, NEW k, NEW amount,
         NEW status, EditDisbursement(d, ref, k, amount, status)
  PROVE  NeverOverpaid'
<1>1. UNCHANGED slips /\ loose \subseteq loose'
  BY DEF EditDisbursement
<1>2. SUFFICES ASSUME NEW i \in DOMAIN slips \ loose'
               PROVE  (Disbursed(i) = 0 \/ Disbursed(i) <= NetPay(i))'
  BY <1>1 DEF NeverOverpaid
<1>3. Disbursed(i)' = Disbursed(i)
  BY <1>2, EditedElsewhere
<1>4. NetPay(i)' = NetPay(i)
  BY <1>1 DEF NetPay
<1> QED BY <1>1, <1>2, <1>3, <1>4 DEF NeverOverpaid

LEMMA PayWithin ==
  ASSUME SoundInv, NeverOverpaid, NEW w \in Worker, PayBalance(w)
  PROVE  NeverOverpaid'
<1> DEFINE j == job[w]
           k == j.slip
<1>1. j \in Job /\ PayOK(j) /\ j.phase = "pay" /\ UNCHANGED slips
  BY DEF SoundInv, PayrollTypeOK, JobsSound, PayBalance
<1>2. PICK r \in j.ref :
        IF Used(<<r, k>>) THEN UNCHANGED <<rows, loose>>
        ELSE /\ rows' = rows \cup {Confirmed(<<r, k>>, k, j.balance)}
             /\ loose' = IF Disbursed(k) > j.before THEN loose \cup {k} ELSE loose
  BY DEF PayBalance
<1>3. /\ k \in DOMAIN slips /\ k \in Nat /\ j.balance \in Nat \ {0}
      /\ j.balance = NetPay(k) - j.before /\ j.before \in Nat /\ r \in Reference
  BY <1>1 DEF PayOK, Job
<1> DEFINE row == Confirmed(<<r, k>>, k, j.balance)
<1>4. CASE Used(<<r, k>>)
  <2>1. Kept
    BY <1>1 DEF Kept, NetPay
  <2> QED BY <1>2, <1>4, <2>1, PaidFrame
<1>5. CASE ~ Used(<<r, k>>)
  <2>1. /\ row \in Row /\ row.slip = k /\ row.status = "CONFIRMED"
        /\ row.amount = j.balance /\ row.ref = <<r, k>>
    BY <1>3 DEF Confirmed, Row, Ref, Status
  <2>2. rows' = rows \cup {row}
    BY <1>2, <1>5
  <2> HIDE DEF row
  <2>3. row \notin rows
    BY <1>5, <2>1 DEF Used
  <2>4. NetPay(k) \in Int /\ Disbursed(k) \in Nat
    BY <1>3, NetPayType, DisbursedType
  <2>5. loose' = IF Disbursed(k) > j.before THEN loose \cup {k} ELSE loose
    BY <1>2, <1>5
  <2> HIDE DEF j, k
  <2>6. k \notin loose' => Disbursed(k) + j.balance <= NetPay(k)
    BY <1>3, <2>4, <2>5
  <2>7. loose \subseteq loose'
    BY <2>5
  <2> QED BY <1>1, <1>3, <2>1, <2>2, <2>3, <2>6, <2>7, PaidWithin
<1> QED BY <1>4, <1>5

LEMMA PaidStep == SoundInv /\ NeverOverpaid /\ [Next]_vars => NeverOverpaid'
<1> SUFFICES ASSUME SoundInv, NeverOverpaid, [Next]_vars PROVE NeverOverpaid'
  OBVIOUS
<1>1. ASSUME UNCHANGED <<slips, rows, loose>> PROVE NeverOverpaid'
  BY <1>1, PaidFrame DEF Kept, NetPay
<1>2. ASSUME NEW w \in Worker, CreatePayslip(w) PROVE NeverOverpaid'
  <2>1. PICK slip : slips' = Append(slips, slip)
    BY <1>2 DEF CreatePayslip
  <2>2. Kept
    BY <2>1 DEF SoundInv, PayrollTypeOK, Kept, NetPay
  <2> QED BY <1>2, <2>2, PaidFrame DEF CreatePayslip
<1>3. ASSUME NEW w \in Worker, CreateLine(w) PROVE NeverOverpaid'
  <2>1. PICK p \in NextLines(job[w].lines) :
          slips' = IF p[1] \in Deduction
                   THEN [slips EXCEPT ![job[w].slip].lines.deductions = @ + p[2]]
                   ELSE [slips EXCEPT ![job[w].slip].lines.allowances = @ + p[2]]
    BY <1>3 DEF CreateLine
  <2>2. p[2] \in Nat
    <3>1. p \in job[w].lines /\ job[w] \in Job
      BY DEF NextLines, SoundInv, PayrollTypeOK
    <3> QED BY <3>1 DEF Job, Part
  <2>3. Kept
    BY <2>1, <2>2, LineWritten DEF SoundInv, PayrollTypeOK
  <2> QED BY <1>3, <2>3, PaidFrame DEF CreateLine
<1>4. ASSUME NEW w \in Worker, GenerateStep(w) PROVE NeverOverpaid'
  BY <1>1, <1>2, <1>3, <1>4 DEF GenerateStep, GenerateForAll, GenerateForSome,
       CreateRun, ReadStaff, ReadBase, ReadAllowances, ReadDeductions
<1>5. ASSUME NEW w \in Worker, DisburseStep(w) PROVE NeverOverpaid'
  BY <1>1, <1>5, PayWithin DEF DisburseStep, SelectSlips, ReadBalance
<1>6. ASSUME \/ UNCHANGED vars
             \/ \E n \in Salary : SetSalary(n)
             \/ \E d \in Definition, n \in Amount \cup {Off} : SetDefinition(d, n)
             \/ \E s \in Staff : SetServing(s)
             \/ \E w \in Worker : Crash(w)
      PROVE  NeverOverpaid'
  BY <1>1, <1>6 DEF vars, SetSalary, SetDefinition, SetServing, Edit, Crash
<1> QED BY <1>4, <1>5, <1>6, RecordWithin, EditWithin DEF Next

\* For any payslips, amounts and requests: no more than the net pay is confirmed on
\* a payslip, unless it was paid by hand beyond its balance, its rows were edited,
\* or another payment slipped in after the bulk action had read the balance.
THEOREM NobodyOverpaid == Spec => []NeverOverpaid
<1>1. SoundInv /\ LinesInv /\ NeverOverpaid /\ [Next]_vars
        => (SoundInv /\ LinesInv /\ NeverOverpaid)'
  BY SoundStep, LinesStep, PaidStep DEF LinesInv
<1>2. Init => NeverOverpaid
  BY DEF Init, NeverOverpaid
<1> QED BY InitSound, <1>1, <1>2, PTL DEF Spec

-----------------------------------------------------------------------------
(* What a repeated bulk disbursement skips is settled *)

\* The reference of a row the bulk action wrote names its payslip, which has no
\* balance; what a request is about to pay had at most been paid by now when it
\* read the balance.
SkipInv ==
  /\ \A d \in rows : d.ref \notin hand =>
       d.ref[2] = d.slip /\ (d.slip \notin loose => Balance(d.slip) <= 0)
  /\ \A w \in Worker : job[w].phase = "pay" /\ job[w].slip \notin loose =>
       job[w].before <= Disbursed(job[w].slip)

\* A request that pays after the step has read its balance before it, or in it.
PaysOn(v) ==
  job'[v].phase = "pay" =>
    \/ /\ job[v].phase = "pay" /\ job'[v].slip = job[v].slip
       /\ job'[v].before = job[v].before
    \/ job'[v].slip \in DOMAIN slips /\ job'[v].before = Disbursed(job'[v].slip)

\* Outside of what is excepted, what a payslip was paid only grows.
LEMMA SkipKept ==
  ASSUME SoundInv, SkipInv, Kept, loose \subseteq loose', hand \subseteq hand',
         \A v \in Worker : PaysOn(v),
         \A i \in DOMAIN slips \ loose' :
           Disbursed(i)' \in Nat /\ Disbursed(i)' >= Disbursed(i),
         \A d \in rows' :
           \/ d \in rows \/ d.ref \in hand'
           \/ d.ref[2] = d.slip /\ (d.slip \notin loose' => Balance(d.slip)' <= 0)
  PROVE  SkipInv'
<1>1. \A i \in DOMAIN slips :
        Disbursed(i) \in Nat /\ NetPay(i) \in Int /\ NetPay(i)' = NetPay(i)
  BY DisbursedType, NetPayType DEF Kept
<1>2. \A i \in DOMAIN slips \ loose' : Balance(i) <= 0 => Balance(i)' <= 0
  BY <1>1 DEF Balance
<1>3. ASSUME NEW d \in rows', d.ref \notin hand'
      PROVE  d.ref[2] = d.slip /\ (d.slip \notin loose' => Balance(d.slip)' <= 0)
  <2>1. CASE d \in rows
    <3>1. d.slip \in DOMAIN slips
      BY <2>1 DEF SoundInv, RowsSound
    <3>2. d.ref[2] = d.slip /\ (d.slip \notin loose => Balance(d.slip) <= 0)
      BY <1>3, <2>1 DEF SkipInv
    <3> QED BY <1>2, <3>1, <3>2
  <2>2. CASE d \notin rows
    BY <1>3, <2>2
  <2> QED BY <2>1, <2>2
<1>4. ASSUME NEW v \in Worker, NEW i, i = job'[v].slip, job'[v].phase = "pay",
             i \notin loose'
      PROVE  job'[v].before <= Disbursed(i)'
  <2>1. CASE i \in DOMAIN slips /\ job'[v].before = Disbursed(i)
    BY <1>1, <1>4, <2>1
  <2>2. CASE /\ job[v].phase = "pay" /\ job[v].slip = i /\ job'[v].before = job[v].before
    <3>1. i \in DOMAIN slips /\ job[v].before \in Nat
      BY <2>2 DEF SoundInv, PayrollTypeOK, JobsSound, PayOK, Job
    <3>2. job[v].before <= Disbursed(i)
      BY <1>4, <2>2 DEF SkipInv
    <3>3. Disbursed(i)' \in Nat /\ Disbursed(i)' >= Disbursed(i)
      BY <1>4, <3>1
    <3> QED BY <1>1, <2>2, <3>1, <3>2, <3>3
  <2> QED BY <1>4, <2>1, <2>2 DEF PaysOn
<1>5. ASSUME NEW v \in Worker, (job[v].phase = "pay" /\ job[v].slip \notin loose)'
      PROVE  (job[v].before <= Disbursed(job[v].slip))'
  BY <1>4, <1>5 DEF Disbursed, ConfirmedOn
<1> QED BY <1>3, <1>5 DEF SkipInv

\* A step that pays nobody.
LEMMA SkipFrame ==
  ASSUME SoundInv, SkipInv, Kept, UNCHANGED <<rows, loose, hand>>,
         \A v \in Worker : PaysOn(v)
  PROVE  SkipInv'
<1>1. \A i : Disbursed(i)' = Disbursed(i)
  BY DEF Disbursed, ConfirmedOn
<1>2. \A i \in DOMAIN slips : Disbursed(i)' \in Nat /\ Disbursed(i)' >= Disbursed(i)
  BY <1>1, DisbursedType
<1> QED BY <1>2, SkipKept

LEMMA MovePaysOn ==
  ASSUME SoundInv, NEW w \in Worker, NEW next, Move(w, next), next.phase # "pay",
         NEW v \in Worker
  PROVE  PaysOn(v)
BY DEF Move, SoundInv, PayrollTypeOK, PaysOn

LEMMA BeginPaysOn ==
  ASSUME SoundInv, NEW w \in Worker, NEW j \in Job, Begin(w, j), j.phase # "pay",
         NEW v \in Worker
  PROVE  PaysOn(v)
<1>1. CASE v = w
  <2>1. job'[v] = [j EXCEPT !.alone = Quiet] /\ Quiet \in BOOLEAN
    BY <1>1 DEF Begin, Quiet
  <2> QED BY <2>1, AloneAside DEF PaysOn
<1>2. CASE v # w
  <2>1. job'[v] = [job[v] EXCEPT !.alone = FALSE] /\ job[v] \in Job
    BY <1>2 DEF Begin, SoundInv, PayrollTypeOK
  <2> QED BY <2>1, AloneAside DEF PaysOn
<1> QED BY <1>1, <1>2

LEMMA RequestPaysOn ==
  ASSUME SoundInv, Request, NEW v \in Worker
  PROVE  PaysOn(v)
<1>1. job'[v] = [job[v] EXCEPT !.alone = FALSE] /\ job[v] \in Job
  BY DEF Request, SoundInv, PayrollTypeOK
<1> QED BY <1>1, AloneAside DEF PaysOn

LEMMA RecordSkip ==
  ASSUME SoundInv, SkipInv, NEW k \in DOMAIN slips, NEW amount \in Paid,
         NEW r \in Reference, NEW id \in {0} \cup DOMAIN slips,
         Record(k, amount, <<r, id>>)
  PROVE  SkipInv'
<1> DEFINE row == Confirmed(<<r, id>>, k, amount)
<1>1. slips \in Seq(Slip) /\ k \in Nat /\ id \in Nat
  BY DEF SoundInv, PayrollTypeOK
<1>2. /\ row \in Row /\ row.slip = k /\ row.status = "CONFIRMED"
      /\ row.amount = amount /\ row.ref = <<r, id>>
  BY <1>1, PayrollAssumption DEF Confirmed, Row, Ref, Status
<1>3. /\ rows' = rows \cup {row} /\ ~ Used(<<r, id>>) /\ UNCHANGED slips
      /\ loose \subseteq loose' /\ hand' = hand \cup {<<r, id>>} /\ Request
  BY DEF Record
<1> HIDE DEF row
<1>4. row \notin rows
  BY <1>2, <1>3 DEF Used
<1>5. /\ Disbursed(k)' = Disbursed(k) + amount
      /\ \A i : i # k => Disbursed(i)' = Disbursed(i)
  BY <1>2, <1>3, <1>4, DisbursedGrows
<1>6. amount \in Nat /\ \A i : Disbursed(i) \in Nat
  BY PayrollAssumption, DisbursedType
<1>7. \A i \in DOMAIN slips : Disbursed(i)' \in Nat /\ Disbursed(i)' >= Disbursed(i)
  BY <1>5, <1>6
<1>8. Kept
  BY <1>3 DEF Kept, NetPay
<1>9. \A d \in rows' : d \in rows \/ d.ref \in hand'
  BY <1>2, <1>3
<1>10. \A v \in Worker : PaysOn(v)
  BY <1>3, RequestPaysOn
<1> QED BY <1>3, <1>7, <1>8, <1>9, <1>10, SkipKept

LEMMA EditSkip ==
  ASSUME SoundInv, SkipInv, NEW d \in rows, NEW ref, NEW k, NEW amount,
         NEW status, EditDisbursement(d, ref, k, amount, status)
  PROVE  SkipInv'
<1> DEFINE row == [ref |-> ref, slip |-> k, amount |-> amount, status |-> status]
<1>1. /\ rows' = (rows \ {d}) \cup {row} /\ row.ref = ref /\ UNCHANGED slips
      /\ loose \subseteq loose' /\ hand' = hand \cup {d.ref, ref} /\ Request
  BY DEF EditDisbursement
<1> HIDE DEF row
<1>2. \A i \in DOMAIN slips \ loose' :
        Disbursed(i)' \in Nat /\ Disbursed(i)' >= Disbursed(i)
  BY EditedElsewhere, DisbursedType
<1>3. Kept
  BY <1>1 DEF Kept, NetPay
<1>4. \A e \in rows' : e \in rows \/ e.ref \in hand'
  BY <1>1
<1>5. \A v \in Worker : PaysOn(v)
  BY <1>1, RequestPaysOn
<1> QED BY <1>1, <1>2, <1>3, <1>4, <1>5, SkipKept

LEMMA PaySkip ==
  ASSUME SoundInv, SkipInv, NEW w \in Worker, PayBalance(w)
  PROVE  SkipInv'
<1>0. PICK j \in Job, k \in Nat : j = job[w] /\ k = j.slip
  BY DEF SoundInv, PayrollTypeOK, Job
<1>1. /\ PartsOK(j) /\ PayOK(j) /\ j.phase = "pay" /\ Move(w, Settled(j))
      /\ UNCHANGED <<slips, hand>>
  BY <1>0 DEF SoundInv, JobsSound, PayBalance
<1>2. PICK r \in j.ref :
        IF Used(<<r, k>>) THEN UNCHANGED <<rows, loose>>
        ELSE /\ rows' = rows \cup {Confirmed(<<r, k>>, k, j.balance)}
             /\ loose' = IF Disbursed(k) > j.before THEN loose \cup {k} ELSE loose
  BY <1>0 DEF PayBalance
<1>3. /\ k \in DOMAIN slips /\ j.balance \in Nat \ {0}
      /\ j.balance = NetPay(k) - j.before /\ j.before \in Nat /\ r \in Reference
      /\ j.chosen \subseteq DOMAIN slips /\ j.toSettle \subseteq j.chosen
  BY <1>0, <1>1 DEF PayOK, Job
<1>4. Kept
  BY <1>1 DEF Kept, NetPay
<1>5. \A v \in Worker : PaysOn(v)
  <2>1. Settled(j).phase # "pay"
    BY <1>1, <1>3, SettledSound
  <2> QED BY <1>1, <2>1, MovePaysOn
<1>6. CASE Used(<<r, k>>)
  BY <1>1, <1>2, <1>4, <1>5, <1>6, SkipFrame
<1>7. CASE ~ Used(<<r, k>>)
  <2> DEFINE row == Confirmed(<<r, k>>, k, j.balance)
  <2>1. /\ row \in Row /\ row.slip = k /\ row.status = "CONFIRMED"
        /\ row.amount = j.balance /\ row.ref = <<r, k>>
    BY <1>3 DEF Confirmed, Row, Ref, Status
  <2>2. /\ rows' = rows \cup {row} /\ loose \subseteq loose'
    BY <1>2, <1>7
  <2> HIDE DEF row
  <2>3. row \notin rows
    BY <1>7, <2>1 DEF Used
  <2>4. /\ Disbursed(k)' = Disbursed(k) + j.balance
        /\ \A i : i # k => Disbursed(i)' = Disbursed(i)
    BY <2>1, <2>2, <2>3, DisbursedGrows
  <2>5. \A i : Disbursed(i) \in Nat
    BY DisbursedType
  <2>6. \A i \in DOMAIN slips : Disbursed(i)' \in Nat /\ Disbursed(i)' >= Disbursed(i)
    BY <1>3, <2>4, <2>5
  <2>7. k \notin loose' => Balance(k)' <= 0
    <3>1. SUFFICES ASSUME k \notin loose PROVE Balance(k)' <= 0
      BY <2>2
    <3>2. j.before <= Disbursed(k)
      BY <1>0, <1>1, <3>1 DEF SkipInv
    <3>3. NetPay(k)' = NetPay(k) /\ NetPay(k) \in Int
      BY <1>1, <1>3, NetPayType DEF NetPay
    <3>4. Balance(k)' = NetPay(k) - (Disbursed(k) + j.balance)
      BY <2>4, <3>3 DEF Balance
    <3> QED BY <1>3, <2>5, <3>2, <3>3, <3>4
  <2>8. row.ref[2] = row.slip
    BY <2>1
  <2>9. \A d \in rows' : d \in rows \/ (d.ref[2] = d.slip /\ (d.slip \notin loose' => Balance(d.slip)' <= 0))
    <3>1. ASSUME NEW d \in rows', d \notin rows
          PROVE  d.ref[2] = d.slip /\ (d.slip \notin loose' => Balance(d.slip)' <= 0)
      <4>1. d = row
        BY <2>2, <3>1
      <4> QED BY <2>1, <2>7, <2>8, <4>1
    <3> QED BY <3>1
  <2> QED BY <1>1, <1>4, <1>5, <2>2, <2>6, <2>9, SkipKept
<1> QED BY <1>6, <1>7

LEMMA ReadBalanceSkip ==
  ASSUME SoundInv, SkipInv, NEW w \in Worker, ReadBalance(w)
  PROVE  SkipInv'
<1>1. PICK k \in job[w].toSettle :
        Move(w, IF Balance(k) <= 0 THEN Settled(ReadOf(job[w], k))
                                   ELSE ReadOf(job[w], k))
  BY DEF ReadBalance, ReadOf
<1> DEFINE next == ReadOf(job[w], k)
<1>2. /\ next \in Job /\ PartsOK(next) /\ next.slip = k /\ next.before = Disbursed(k)
      /\ next.toSettle \subseteq next.chosen /\ next.chosen \subseteq DOMAIN slips
      /\ next.toSettle = job[w].toSettle
  BY ReadOfSound
<1> HIDE DEF next
<1>3. UNCHANGED <<slips, rows, loose, hand>> /\ Kept
  BY DEF ReadBalance, Kept, NetPay
<1>4. CASE Balance(k) <= 0
  <2>1. Move(w, Settled(next))
    BY <1>1, <1>4 DEF next
  <2>2. Settled(next).phase # "pay"
    BY <1>2, SettledSound
  <2> QED BY <1>3, <2>1, <2>2, MovePaysOn, SkipFrame
<1>5. CASE ~ Balance(k) <= 0
  <2>1. Move(w, next)
    BY <1>1, <1>5 DEF next
  <2>2. \A v \in Worker : job'[v] = IF v = w THEN next ELSE job[v]
    BY <2>1 DEF Move, SoundInv, PayrollTypeOK
  <2>3. k \in DOMAIN slips
    BY <1>2
  <2>4. \A v \in Worker : PaysOn(v)
    BY <1>2, <2>2, <2>3 DEF PaysOn
  <2> QED BY <1>3, <2>4, SkipFrame
<1> QED BY <1>4, <1>5

LEMMA BeginSkip ==
  ASSUME SoundInv, SkipInv, NEW w \in Worker, NEW j \in Job, Begin(w, j),
         j.phase # "pay", UNCHANGED <<slips, rows, loose, hand>>
  PROVE  SkipInv'
<1>1. Kept
  BY DEF Kept, NetPay
<1> QED BY <1>1, BeginPaysOn, SkipFrame

LEMMA GenerateSkip ==
  ASSUME SoundInv, LinesSound, SkipInv, NEW w \in Worker, GenerateStep(w)
  PROVE  SkipInv'
<1>1. UNCHANGED <<rows, loose, hand>> /\ job[w] \in Job
  BY DEF GenerateStep, GenerateForAll, GenerateForSome, CreateRun, ReadStaff, ReadBase,
     ReadAllowances, ReadDeductions, CreatePayslip, CreateLine, SoundInv, PayrollTypeOK
<1>2. ASSUME NEW p \in Period, NEW chosen \in SUBSET Staff, CreateRun(w, p, chosen)
      PROVE  SkipInv'
  <2> DEFINE j == [NoJob EXCEPT !.phase = "staff", !.run = Len(runs) + 1,
                                !.toPay = chosen]
  <2>1. j \in Job /\ j.phase = "staff"
    <3>1. Len(runs) + 1 \in Nat
      BY DEF SoundInv, PayrollTypeOK
    <3> QED BY <3>1, NoJobSound DEF Job
  <2>2. Begin(w, j) /\ UNCHANGED <<slips, rows, loose, hand>>
    BY <1>2 DEF CreateRun
  <2> HIDE DEF j
  <2> QED BY <2>1, <2>2, BeginSkip
<1>3. ASSUME NEW next, Move(w, next), next.phase # "pay", Kept
      PROVE  SkipInv'
  BY <1>1, <1>3, MovePaysOn, SkipFrame
<1>4. ASSUME UNCHANGED slips PROVE Kept
  BY <1>4 DEF Kept, NetPay
<1>5. ASSUME ReadStaff(w) PROVE SkipInv'
  <2>1. PICK next \in NextMember([job[w] EXCEPT !.toPay = @ \cap serving]) :
          Move(w, next)
    BY <1>5 DEF ReadStaff
  <2>2. [job[w] EXCEPT !.toPay = @ \cap serving] \in Job
    BY <1>1 DEF Job
  <2>3. next.phase \in {"idle", "base"}
    BY <2>1, <2>2, NextMemberSound
  <2> QED BY <1>3, <1>4, <1>5, <2>1, <2>3 DEF ReadStaff
<1>6. ASSUME ReadBase(w) \/ ReadAllowances(w) \/ ReadDeductions(w) PROVE SkipInv'
  <2>1. ASSUME NEW next, Move(w, next), UNCHANGED slips,
               next.phase \in {"allowances", "deductions", "slip"}
        PROVE  SkipInv'
    BY <1>3, <1>4, <2>1
  <2>2. ASSUME ReadBase(w) PROVE SkipInv'
    BY <1>1, <2>1, <2>2 DEF ReadBase, Job
  <2>3. ASSUME ReadAllowances(w) PROVE SkipInv'
    BY <1>1, <2>1, <2>3 DEF ReadAllowances, Job
  <2>4. ASSUME ReadDeductions(w) PROVE SkipInv'
    BY <1>1, <2>1, <2>4 DEF ReadDeductions, Job
  <2> QED BY <1>6, <2>2, <2>3, <2>4
<1>7. ASSUME CreatePayslip(w) PROVE SkipInv'
  <2>1. Kept
    BY <1>7 DEF CreatePayslip, SoundInv, PayrollTypeOK, Kept, NetPay
  <2> DEFINE next == [job[w] EXCEPT !.phase = "lines", !.slip = Len(slips) + 1,
                        !.lines = {<<"base", job[w].base>>} \cup job[w].allowances
                                    \cup job[w].deductions]
  <2>2. Move(w, next) /\ next.phase = "lines"
    BY <1>1, <1>7 DEF CreatePayslip, Job
  <2> HIDE DEF next
  <2> QED BY <1>3, <2>1, <2>2
<1>8. ASSUME CreateLine(w) PROVE SkipInv'
  <2>1. PICK p \in NextLines(job[w].lines) :
          /\ slips' = IF p[1] \in Deduction
                   THEN [slips EXCEPT ![job[w].slip].lines.deductions = @ + p[2]]
                   ELSE [slips EXCEPT ![job[w].slip].lines.allowances = @ + p[2]]
          /\ IF job[w].lines = {p} THEN \E next \in NextMember(job[w]) : Move(w, next)
             ELSE Move(w, [job[w] EXCEPT !.lines = @ \ {p}])
    BY <1>8 DEF CreateLine
  <2>2. p[2] \in Nat
    <3>1. p \in job[w].lines
      BY DEF NextLines
    <3> QED BY <1>1, <3>1 DEF Job, Part
  <2>3. Kept
    BY <2>1, <2>2, LineWritten DEF SoundInv, PayrollTypeOK
  <2>4. \E next : Move(w, next) /\ next.phase \in {"idle", "base", "lines"}
    <3>1. CASE job[w].lines = {p}
      BY <1>1, <2>1, <3>1, NextMemberSound
    <3>2. CASE job[w].lines # {p}
      BY <1>1, <1>8, <2>1, <3>2 DEF CreateLine, Job
    <3> QED BY <3>1, <3>2
  <2> QED BY <1>3, <2>3, <2>4
<1> QED
  BY <1>2, <1>5, <1>6, <1>7, <1>8, Staff \in SUBSET Staff
     DEF GenerateStep, GenerateForAll, GenerateForSome

LEMMA SkipStep == SoundInv /\ LinesSound /\ SkipInv /\ [Next]_vars => SkipInv'
<1> SUFFICES ASSUME SoundInv, LinesSound, SkipInv, [Next]_vars PROVE SkipInv'
  OBVIOUS
<1>1. ASSUME UNCHANGED slips PROVE Kept
  BY <1>1 DEF Kept, NetPay
<1>2. ASSUME NEW w \in Worker, NEW ref \in Reference,
             NEW chosen \in SUBSET DOMAIN slips, SelectSlips(w, ref, chosen)
      PROVE  SkipInv'
  <2> DEFINE fresh == \A d \in rows : d.ref[1] # ref
             j == [NoJob EXCEPT !.phase = "balance", !.ref = {ref},
                                !.fresh = fresh,
                                !.chosen = chosen, !.toSettle = chosen]
  <2>1. chosen \subseteq Nat /\ fresh \in BOOLEAN
    BY DEF SoundInv, PayrollTypeOK
  <2> HIDE DEF fresh
  <2>2. j \in Job /\ j.phase = "balance"
    BY <2>1, NoJobSound DEF Job
  <2>3. Begin(w, j) /\ UNCHANGED <<slips, rows, loose, hand>>
    BY <1>2 DEF SelectSlips, fresh
  <2> HIDE DEF j
  <2> QED BY <2>2, <2>3, BeginSkip
<1>3. ASSUME NEW w \in Worker, DisburseStep(w) PROVE SkipInv'
  BY <1>2, <1>3, ReadBalanceSkip, PaySkip DEF DisburseStep
<1>4. ASSUME NEW w \in Worker, Crash(w) PROVE SkipInv'
  <2>1. Move(w, NoJob) /\ UNCHANGED <<slips, rows, loose, hand>> /\ NoJob.phase # "pay"
    BY <1>4 DEF Crash, NoJob
  <2> QED BY <1>1, <2>1, MovePaysOn, SkipFrame
<1>5. ASSUME UNCHANGED <<slips, rows, job, loose, hand>> PROVE SkipInv'
  <2>1. \A v \in Worker : PaysOn(v)
    BY <1>5 DEF PaysOn
  <2> QED BY <1>1, <1>5, <2>1, SkipFrame
<1>6. ASSUME \/ UNCHANGED vars
             \/ \E n \in Salary : SetSalary(n)
             \/ \E d \in Definition, n \in Amount \cup {Off} : SetDefinition(d, n)
             \/ \E s \in Staff : SetServing(s)
      PROVE  SkipInv'
  BY <1>5, <1>6 DEF vars, SetSalary, SetDefinition, SetServing, Edit
<1> QED BY <1>3, <1>4, <1>6, GenerateSkip, RecordSkip, EditSkip DEF Next

\* For any payslips, references and requests: a payslip whose bulk reference is
\* taken by a row that nobody typed in or edited has no balance left, so that the
\* repeat of a bulk disbursement passes over nobody who is still owed something.
THEOREM SkippedSlipsAreSettled == Spec => []SkippedIsSettled
<1>1. SoundInv /\ LinesInv /\ SkipInv /\ [Next]_vars
        => (SoundInv /\ LinesInv /\ SkipInv)'
  BY SoundStep, LinesStep, SkipStep DEF LinesInv
<1>2. Init => SkipInv
  BY DEF Init, NoJob, SkipInv
<1>3. SkipInv => SkippedIsSettled
  BY DEF SkipInv, SkippedIsSettled, Used
<1> QED BY InitSound, <1>1, <1>2, <1>3, PTL DEF Spec

-----------------------------------------------------------------------------
(* A bulk disbursement settles what it was given *)

AloneSound ==
  \A w \in Worker : job[w].alone =>
    \A v \in Worker \ {w} : job[v].phase = "idle"

\* While nobody interferes, the ticked payslips that are done have no balance,
\* and those that are not have no row under the reference yet.
BulkOf(j) ==
  j.alone /\ j.fresh /\ j.phase \in {"balance", "pay"} =>
    /\ \A d \in rows : d.ref[1] \in j.ref => d.ref[2] \notin j.toSettle
    /\ \A k \in j.chosen \ j.toSettle : Balance(k) <= 0
    /\ j.phase = "pay" => \A k \in j.toSettle : k = j.slip => j.before = Disbursed(k)

BulkInv == AloneSound /\ \A w \in Worker : BulkOf(job[w])

\* The step does not end the loop of w, or no ticked payslip has a balance after it.
EndsSettled(w) ==
  /\ job[w].phase \in {"balance", "pay"} /\ job'[w].phase = "idle"
  /\ crashes' = crashes /\ job[w].alone /\ job[w].fresh
  => \A k \in job[w].chosen : Balance(k)' <= 0

BulkStep == BulkInv' /\ \A w \in Worker : EndsSettled(w)

\* A request that was alone when it moved is alone after it.
LEMMA MoveAlone ==
  ASSUME SoundInv, BulkInv, NEW w \in Worker, NEW next, Move(w, next),
         job[w].phase # "idle", next.alone => job[w].alone
  PROVE  /\ AloneSound'
         /\ \A v \in Worker \ {w} : job'[v] = job[v] /\ (job[v].alone => job[v].phase = "idle")
<1>1. job \in [Worker -> Job]
  BY DEF SoundInv, PayrollTypeOK
<1>2. \A v \in Worker : job'[v] = IF v = w THEN next ELSE job[v]
  BY <1>1 DEF Move
<1>3. \A v \in Worker \ {w} : ~ job[v].alone
  BY DEF BulkInv, AloneSound
<1>4. AloneSound'
  BY <1>2, <1>3 DEF BulkInv, AloneSound
<1> QED BY <1>2, <1>3, <1>4

\* A step that pays nobody, and moves no bulk disbursement that is alone.
LEMMA BulkFrame ==
  ASSUME SoundInv, BulkInv, AloneSound', Kept, UNCHANGED rows,
         \A v \in Worker :
           \/ job'[v] = job[v]
           \/ ~ job'[v].alone /\ (job'[v].phase = job[v].phase \/ crashes' # crashes)
           \/ /\ job'[v].phase \notin {"balance", "pay"}
              /\ job[v].phase \notin {"balance", "pay"}
  PROVE  BulkStep
<1>1. \A k : Disbursed(k)' = Disbursed(k)
  BY DEF Disbursed, ConfirmedOn
<1>2. \A k \in DOMAIN slips : Balance(k)' = Balance(k)
  BY <1>1 DEF Balance, Kept
<1>3. ASSUME NEW v \in Worker PROVE BulkOf(job[v])'
  <2>1. CASE job'[v] = job[v]
    <3>1. job[v].chosen \subseteq DOMAIN slips /\ BulkOf(job[v])
      BY DEF SoundInv, JobsSound, PayOK, BulkInv
    <3> QED BY <1>1, <1>2, <2>1, <3>1 DEF BulkOf
  <2>2. CASE ~ job'[v].alone \/ job'[v].phase \notin {"balance", "pay"}
    BY <2>2 DEF BulkOf
  <2> QED BY <2>1, <2>2
<1>4. \A v \in Worker : EndsSettled(v)
  BY DEF EndsSettled
<1> QED BY <1>3, <1>4 DEF BulkStep, BulkInv

\* A move of a request that disburses nothing.
LEMMA GenerateMoveBulk ==
  ASSUME SoundInv, BulkInv, Kept, UNCHANGED rows, NEW w \in Worker, NEW next,
         Move(w, next), job[w].phase \notin {"idle", "balance", "pay"},
         next.phase \notin {"balance", "pay"}, next.alone => job[w].alone
  PROVE  BulkStep
<1>1. AloneSound' /\ \A v \in Worker \ {w} : job'[v] = job[v]
  BY MoveAlone
<1>2. job'[w] = next
  BY DEF Move, SoundInv, PayrollTypeOK
<1> QED BY <1>1, <1>2, BulkFrame

\* After another request came in nobody is alone.
LEMMA RequestBulk ==
  ASSUME SoundInv, BulkInv, Request
  PROVE  BulkStep
<1>1. ASSUME NEW v \in Worker
      PROVE  ~ job'[v].alone /\ job'[v].phase = job[v].phase
  <2>1. job'[v] = [job[v] EXCEPT !.alone = FALSE] /\ job[v] \in Job
    BY DEF Request, SoundInv, PayrollTypeOK
  <2> QED BY <2>1, AloneAside
<1> QED BY <1>1 DEF BulkStep, BulkInv, AloneSound, BulkOf, EndsSettled

LEMMA BeginAlone ==
  ASSUME SoundInv, NEW w \in Worker, NEW j \in Job, Begin(w, j), j.phase # "idle"
  PROVE  /\ AloneSound'
         /\ job'[w] = [j EXCEPT !.alone = Quiet] /\ job[w].phase = "idle"
         /\ \A v \in Worker \ {w} : ~ job'[v].alone /\ job'[v].phase = job[v].phase
<1>1. job'[w] = [j EXCEPT !.alone = Quiet] /\ job[w].phase = "idle" /\ Quiet \in BOOLEAN
  BY DEF Begin, Quiet
<1>2. job'[w].alone = Quiet
  BY <1>1, AloneAside
<1>3. ASSUME NEW v \in Worker \ {w}
      PROVE  ~ job'[v].alone /\ job'[v].phase = job[v].phase
  <2>1. job'[v] = [job[v] EXCEPT !.alone = FALSE] /\ job[v] \in Job
    BY DEF Begin, SoundInv, PayrollTypeOK
  <2> QED BY <2>1, AloneAside
<1>4. AloneSound'
  BY <1>2, <1>3 DEF AloneSound, Quiet
<1> QED BY <1>1, <1>3, <1>4

LEMMA CreateRunBulk ==
  ASSUME SoundInv, BulkInv, NEW w \in Worker, NEW p \in Period,
         NEW chosen \in SUBSET Staff, CreateRun(w, p, chosen)
  PROVE  BulkStep
<1> DEFINE j == [NoJob EXCEPT !.phase = "staff", !.run = Len(runs) + 1,
                              !.toPay = chosen]
<1>1. j \in Job /\ j.phase = "staff"
  <2>1. Len(runs) + 1 \in Nat
    BY DEF SoundInv, PayrollTypeOK
  <2> QED BY <2>1, NoJobSound DEF Job
<1>2. Begin(w, j) /\ UNCHANGED <<slips, rows>>
  BY DEF CreateRun
<1> HIDE DEF j
<1>3. /\ AloneSound' /\ job'[w] = [j EXCEPT !.alone = Quiet] /\ job[w].phase = "idle"
      /\ \A v \in Worker \ {w} : ~ job'[v].alone /\ job'[v].phase = job[v].phase
  BY <1>1, <1>2, BeginAlone
<1>4. job'[w].phase = "staff"
  BY <1>1, <1>3, AloneAside, Quiet \in BOOLEAN DEF Quiet
<1>5. Kept
  BY <1>2 DEF Kept, NetPay
<1> QED BY <1>2, <1>3, <1>4, <1>5, BulkFrame

\* Under a new reference there is no row yet, and every ticked payslip is to do.
LEMMA SelectSlipsBulk ==
  ASSUME SoundInv, BulkInv, NEW w \in Worker, NEW ref \in Reference,
         NEW chosen \in SUBSET DOMAIN slips, SelectSlips(w, ref, chosen)
  PROVE  BulkStep
<1> DEFINE fresh == \A d \in rows : d.ref[1] # ref
           j == [NoJob EXCEPT !.phase = "balance", !.ref = {ref},
                              !.fresh = fresh,
                              !.chosen = chosen, !.toSettle = chosen]
<1>1. chosen \subseteq Nat /\ fresh \in BOOLEAN
  BY DEF SoundInv, PayrollTypeOK
<1>2. (fresh => \A d \in rows : d.ref[1] # ref) /\ UNCHANGED rows
  BY DEF SelectSlips
<1> HIDE DEF fresh
<1>3. /\ j \in Job /\ j.phase = "balance" /\ j.ref = {ref} /\ j.fresh = fresh
      /\ j.chosen = chosen /\ j.toSettle = chosen
  BY <1>1, NoJobSound DEF Job
<1>4. Begin(w, j)
  BY DEF SelectSlips, fresh
<1> HIDE DEF j
<1>5. /\ AloneSound' /\ job'[w] = [j EXCEPT !.alone = Quiet] /\ job[w].phase = "idle"
      /\ \A v \in Worker \ {w} : ~ job'[v].alone /\ job'[v].phase = job[v].phase
  BY <1>3, <1>4, BeginAlone
<1>6. /\ job'[w].phase = "balance" /\ job'[w].ref = {ref} /\ job'[w].fresh = fresh
      /\ job'[w].chosen = chosen /\ job'[w].toSettle = chosen
  BY <1>3, <1>5, AloneAside, Quiet \in BOOLEAN DEF Quiet
<1>7. ASSUME NEW v \in Worker PROVE BulkOf(job[v])' /\ EndsSettled(v)
  <2>1. CASE v = w
    BY <1>2, <1>5, <1>6, <2>1 DEF BulkOf, EndsSettled
  <2>2. CASE v # w
    BY <1>5, <2>2 DEF BulkOf, EndsSettled
  <2> QED BY <2>1, <2>2
<1> QED BY <1>5, <1>7 DEF BulkStep, BulkInv

\* The loop of w goes on from j, and only j.slip of what it had to settle is done.
LEMMA SettledBulk ==
  ASSUME SoundInv, BulkInv, NEW w \in Worker, job[w].phase \in {"balance", "pay"},
         NEW j \in Job, PartsOK(j), j.alone = job[w].alone, j.fresh = job[w].fresh,
         j.ref = job[w].ref, j.chosen = job[w].chosen, j.toSettle = job[w].toSettle,
         Move(w, Settled(j)),
         j.alone /\ j.fresh =>
           /\ \A d \in rows' : d.ref[1] \in j.ref => d.ref[2] \notin j.toSettle \ {j.slip}
           /\ \A k \in j.chosen : k = j.slip \/ k \notin j.toSettle => Balance(k)' <= 0
  PROVE  BulkStep
<1> DEFINE next == Settled(j)
<1>1. job[w].toSettle \subseteq job[w].chosen /\ job[w].chosen \subseteq DOMAIN slips
  BY DEF SoundInv, JobsSound, PayOK
<1>2. /\ next.phase \in {"idle", "balance"}
      /\ IF j.toSettle \subseteq {j.slip} THEN next = NoJob
         ELSE /\ next.phase = "balance" /\ next.alone = j.alone
              /\ next.fresh = j.fresh /\ next.ref = j.ref
              /\ next.chosen = j.chosen
              /\ next.toSettle = j.toSettle \ {j.slip}
  BY <1>1, SettledSound
<1> HIDE DEF next
<1>3. Move(w, next) /\ job[w].phase # "idle" /\ (next.alone => job[w].alone)
  <2>1. ~ NoJob.alone
    BY DEF NoJob
  <2> QED BY <1>2, <2>1 DEF next
<1>4. /\ AloneSound'
      /\ \A v \in Worker \ {w} : job'[v] = job[v] /\ (job[v].alone => job[v].phase = "idle")
  BY <1>3, MoveAlone
<1>5. job'[w] = next
  BY DEF Move, SoundInv, PayrollTypeOK, next
<1>6. BulkOf(job[w])'
  <2>1. CASE j.toSettle \subseteq {j.slip}
    <3>1. job'[w].phase = "idle"
      BY <1>2, <1>5, <2>1 DEF NoJob
    <3> QED BY <3>1 DEF BulkOf
  <2>2. CASE ~ j.toSettle \subseteq {j.slip}
    <3>1. SUFFICES ASSUME next.alone, next.fresh
                   PROVE  /\ \A d \in rows' : d.ref[1] \in next.ref => d.ref[2] \notin next.toSettle
                          /\ \A k \in next.chosen \ next.toSettle : Balance(k)' <= 0
      BY <1>2, <1>5, <2>2 DEF BulkOf
    <3> QED BY <1>2, <2>2, <3>1
  <2> QED BY <2>1, <2>2
<1>7. EndsSettled(w)
  <2>1. SUFFICES ASSUME next.phase = "idle", j.alone, j.fresh, NEW k \in j.chosen
                 PROVE  Balance(k)' <= 0
    BY <1>5 DEF EndsSettled
  <2>2. k = j.slip \/ k \notin j.toSettle
    BY <1>2, <2>1
  <2> QED BY <2>1, <2>2
<1>8. ASSUME NEW v \in Worker \ {w} PROVE BulkOf(job[v])' /\ EndsSettled(v)
  BY <1>4 DEF BulkOf, EndsSettled
<1> QED BY <1>4, <1>6, <1>7, <1>8 DEF BulkStep, BulkInv

LEMMA ReadBalanceBulk ==
  ASSUME SoundInv, BulkInv, NEW w \in Worker, ReadBalance(w)
  PROVE  BulkStep
<1>1. PICK k \in job[w].toSettle :
        Move(w, IF Balance(k) <= 0 THEN Settled(ReadOf(job[w], k))
                                   ELSE ReadOf(job[w], k))
  BY DEF ReadBalance, ReadOf
<1> DEFINE next == ReadOf(job[w], k)
<1>2. job[w].phase = "balance" /\ UNCHANGED <<slips, rows>> /\ BulkOf(job[w])
  BY DEF ReadBalance, BulkInv
<1>3. /\ next \in Job /\ PartsOK(next)
      /\ next.phase = "pay" /\ next.slip = k /\ next.before = Disbursed(k)
      /\ next.alone = job[w].alone /\ next.fresh = job[w].fresh
      /\ next.ref = job[w].ref /\ next.chosen = job[w].chosen
      /\ next.toSettle = job[w].toSettle
  BY ReadOfSound
<1> HIDE DEF next
<1>4. \A i : Disbursed(i)' = Disbursed(i) /\ Balance(i)' = Balance(i)
  BY <1>2 DEF Disbursed, ConfirmedOn, Balance, NetPay
<1>5. CASE Balance(k) <= 0
  <2>1. Move(w, Settled(next))
    BY <1>1, <1>5 DEF next
  <2>2. next.alone /\ next.fresh =>
          /\ \A d \in rows' : d.ref[1] \in next.ref => d.ref[2] \notin next.toSettle \ {next.slip}
          /\ \A i \in next.chosen : i = next.slip \/ i \notin next.toSettle => Balance(i)' <= 0
    BY <1>2, <1>3, <1>4, <1>5 DEF BulkOf
  <2> QED BY <1>2, <1>3, <2>1, <2>2, SettledBulk
<1>6. CASE ~ Balance(k) <= 0
  <2>1. Move(w, next)
    BY <1>1, <1>6 DEF next
  <2>2. AloneSound' /\ \A v \in Worker \ {w} : job'[v] = job[v]
          /\ (job[v].alone => job[v].phase = "idle")
    BY <1>2, <1>3, <2>1, MoveAlone
  <2>3. job'[w] = next
    BY <2>1 DEF Move, SoundInv, PayrollTypeOK
  <2>4. BulkOf(job[w])'
    BY <1>2, <1>3, <1>4, <2>3 DEF BulkOf
  <2>5. ASSUME NEW v \in Worker \ {w} PROVE BulkOf(job[v])' /\ EndsSettled(v)
    BY <2>2 DEF BulkOf, EndsSettled
  <2>6. EndsSettled(w)
    BY <1>3, <2>3 DEF EndsSettled
  <2> QED BY <2>2, <2>4, <2>5, <2>6 DEF BulkStep, BulkInv
<1> QED BY <1>5, <1>6

LEMMA PayBalanceBulk ==
  ASSUME SoundInv, BulkInv, NEW w \in Worker, PayBalance(w)
  PROVE  BulkStep
<1>0. PICK j \in Job, k \in Nat : j = job[w] /\ k = j.slip
  BY DEF SoundInv, PayrollTypeOK, Job
<1>1. /\ j \in Job /\ PartsOK(j) /\ PayOK(j) /\ BulkOf(j) /\ j.phase = "pay"
      /\ Move(w, Settled(j)) /\ UNCHANGED slips
  BY <1>0 DEF SoundInv, JobsSound, PayBalance, BulkInv
<1>2. PICK r \in j.ref :
        IF Used(<<r, k>>) THEN UNCHANGED <<rows, loose>>
        ELSE rows' = rows \cup {Confirmed(<<r, k>>, k, j.balance)}
  BY <1>0 DEF PayBalance
<1>3. /\ k \in DOMAIN slips /\ k \in Nat /\ j.balance \in Nat \ {0}
      /\ j.balance = NetPay(k) - j.before /\ j.before \in Nat /\ r \in Reference
      /\ k \in j.toSettle /\ j.chosen \subseteq DOMAIN slips
  BY <1>0, <1>1 DEF PayOK, Job
<1>4. ASSUME j.alone, j.fresh
      PROVE  /\ \A d \in rows' : d.ref[1] \in j.ref => d.ref[2] \notin j.toSettle \ {k}
             /\ \A i \in j.chosen : i = k \/ i \notin j.toSettle => Balance(i)' <= 0
  <2>1. /\ \A d \in rows : d.ref[1] \in j.ref => d.ref[2] \notin j.toSettle
        /\ \A i \in j.chosen \ j.toSettle : Balance(i) <= 0
        /\ j.before = Disbursed(k)
    BY <1>0, <1>1, <1>3, <1>4 DEF BulkOf
  <2>2. ~ Used(<<r, k>>)
    <3>1. <<r, k>>[1] = r /\ <<r, k>>[2] = k
      OBVIOUS
    <3> QED BY <1>3, <2>1, <3>1 DEF Used
  <2> DEFINE row == Confirmed(<<r, k>>, k, j.balance)
  <2>3. /\ row \in Row /\ row.slip = k /\ row.status = "CONFIRMED"
        /\ row.amount = j.balance /\ row.ref = <<r, k>>
    BY <1>3 DEF Confirmed, Row, Ref, Status
  <2>4. rows' = rows \cup {row}
    BY <1>2, <2>2
  <2> HIDE DEF row
  <2>5. row \notin rows
    BY <2>2, <2>3 DEF Used
  <2>6. /\ Disbursed(k)' = Disbursed(k) + j.balance
        /\ \A i : i # k => Disbursed(i)' = Disbursed(i)
    BY <2>3, <2>4, <2>5, DisbursedGrows
  <2>7. \A i : NetPay(i)' = NetPay(i)
    BY <1>1 DEF NetPay
  <2>8. NetPay(k) \in Int /\ Disbursed(k) \in Nat
    BY <1>3, NetPayType, DisbursedType
  <2>9. Balance(k)' = 0
    <3>1. Balance(k)' = NetPay(k) - (Disbursed(k) + j.balance)
      BY <2>6, <2>7 DEF Balance
    <3> QED BY <1>3, <2>1, <2>8, <3>1
  <2>10. \A i : i # k => Balance(i)' = Balance(i)
    BY <2>6, <2>7 DEF Balance
  <2>11. \A d \in rows' : d.ref[1] \in j.ref => d.ref[2] \notin j.toSettle \ {k}
    BY <2>1, <2>3, <2>4
  <2> QED BY <2>1, <2>9, <2>10, <2>11
<1> QED BY <1>0, <1>1, <1>4, SettledBulk

\* The policy, the payslips' writing and the office leave a bulk disbursement that
\* nobody meets alone.
LEMMA BulkSteps == SoundInv /\ LinesSound /\ BulkInv /\ [Next]_vars => BulkStep
<1> SUFFICES ASSUME SoundInv, LinesSound, BulkInv, [Next]_vars PROVE BulkStep
  OBVIOUS
<1>1. ASSUME UNCHANGED slips PROVE Kept
  BY <1>1 DEF Kept, NetPay
<1>2. ASSUME NEW w \in Worker, GenerateStep(w) PROVE BulkStep
  <2>1. ASSUME NEW p \in Period, NEW chosen \in SUBSET Staff,
               GenerateForAll(w, p) \/ GenerateForSome(w, p, chosen)
        PROVE  BulkStep
    BY <2>1, CreateRunBulk, Staff \in SUBSET Staff DEF GenerateForAll, GenerateForSome
  <2>2. job[w] \in Job
    BY DEF SoundInv, PayrollTypeOK
  <2>3. ASSUME ReadStaff(w) PROVE BulkStep
    <3>1. PICK next \in NextMember([job[w] EXCEPT !.toPay = @ \cap serving]) :
            Move(w, next)
      BY <2>3 DEF ReadStaff
    <3>2. [job[w] EXCEPT !.toPay = @ \cap serving] \in Job
          /\ [job[w] EXCEPT !.toPay = @ \cap serving].alone = job[w].alone
      BY <2>2 DEF Job
    <3>3. next.phase \in {"idle", "base"} /\ (next.alone => job[w].alone)
      BY <3>1, <3>2, NextMemberSound
    <3> QED BY <1>1, <2>3, <3>1, <3>3, GenerateMoveBulk DEF ReadStaff
  <2>4. ASSUME NEW next, Move(w, next), UNCHANGED <<slips, rows>>,
               next.phase \in {"allowances", "deductions", "slip"},
               next.alone = job[w].alone,
               job[w].phase \in {"base", "allowances", "deductions"}
        PROVE  BulkStep
    BY <1>1, <2>4, GenerateMoveBulk
  <2>5. ASSUME ReadBase(w) PROVE BulkStep
    BY <2>2, <2>4, <2>5 DEF ReadBase, Job
  <2>6. ASSUME ReadAllowances(w) PROVE BulkStep
    BY <2>2, <2>4, <2>6 DEF ReadAllowances, Job
  <2>7. ASSUME ReadDeductions(w) PROVE BulkStep
    BY <2>2, <2>4, <2>7 DEF ReadDeductions, Job
  <2>8. ASSUME CreatePayslip(w) PROVE BulkStep
    <3>1. Kept
      BY <2>8 DEF CreatePayslip, SoundInv, PayrollTypeOK, Kept, NetPay
    <3> DEFINE next == [job[w] EXCEPT !.phase = "lines", !.slip = Len(slips) + 1,
                          !.lines = {<<"base", job[w].base>>} \cup job[w].allowances
                                      \cup job[w].deductions]
    <3>2. Move(w, next) /\ job[w].phase = "slip" /\ UNCHANGED rows
      BY <2>8 DEF CreatePayslip
    <3>3. next.phase = "lines" /\ next.alone = job[w].alone
      BY <2>2 DEF Job
    <3> HIDE DEF next
    <3> QED BY <3>1, <3>2, <3>3, GenerateMoveBulk
  <2>9. ASSUME CreateLine(w) PROVE BulkStep
    <3>1. PICK p \in NextLines(job[w].lines) :
            /\ slips' = IF p[1] \in Deduction
                     THEN [slips EXCEPT ![job[w].slip].lines.deductions = @ + p[2]]
                     ELSE [slips EXCEPT ![job[w].slip].lines.allowances = @ + p[2]]
            /\ IF job[w].lines = {p} THEN \E next \in NextMember(job[w]) : Move(w, next)
               ELSE Move(w, [job[w] EXCEPT !.lines = @ \ {p}])
      BY <2>9 DEF CreateLine
    <3>2. p[2] \in Nat
      <4>1. p \in job[w].lines
        BY DEF NextLines
      <4> QED BY <2>2, <4>1 DEF Job, Part
    <3>3. Kept
      BY <3>1, <3>2, LineWritten DEF SoundInv, PayrollTypeOK
    <3>4. \E next : /\ Move(w, next) /\ next.phase \in {"idle", "base", "lines"}
                    /\ (next.alone => job[w].alone)
      <4>1. CASE job[w].lines = {p}
        BY <2>2, <3>1, <4>1, NextMemberSound
      <4>2. CASE job[w].lines # {p}
        BY <2>2, <2>9, <3>1, <4>2 DEF CreateLine, Job
      <4> QED BY <4>1, <4>2
    <3> QED BY <2>9, <3>3, <3>4, GenerateMoveBulk DEF CreateLine
  <2> QED BY <1>2, <2>1, <2>3, <2>5, <2>6, <2>7, <2>8, <2>9 DEF GenerateStep
<1>3. ASSUME NEW w \in Worker, DisburseStep(w) PROVE BulkStep
  BY <1>3, SelectSlipsBulk, ReadBalanceBulk, PayBalanceBulk DEF DisburseStep
<1>4. ASSUME NEW w \in Worker, Crash(w) PROVE BulkStep
  <2>1. Move(w, NoJob) /\ job[w].phase # "idle" /\ UNCHANGED <<slips, rows>>
        /\ crashes' # crashes
    BY <1>4 DEF Crash, SoundInv, PayrollTypeOK
  <2>2. ~ NoJob.alone
    BY DEF NoJob
  <2>3. AloneSound' /\ \A v \in Worker \ {w} : job'[v] = job[v]
    BY <2>1, <2>2, MoveAlone
  <2>4. job'[w] = NoJob
    BY <2>1 DEF Move, SoundInv, PayrollTypeOK
  <2> QED BY <1>1, <2>1, <2>2, <2>3, <2>4, BulkFrame
<1>5. ASSUME UNCHANGED <<slips, rows, job>> PROVE BulkStep
  <2>1. AloneSound'
    BY <1>5 DEF BulkInv, AloneSound
  <2> QED BY <1>1, <1>5, <2>1, BulkFrame
<1> QED
  BY <1>2, <1>3, <1>4, <1>5, RequestBulk DEF Next, vars, SetSalary, SetDefinition,
     SetServing, Edit, Record, EditDisbursement

\* For any staff, payslips and requests: a bulk disbursement under a reference not
\* used before, which no other request meets, leaves no ticked payslip a balance.
THEOREM BulkPaysWhatIsDue == Spec => BulkSettles
<1>1. SoundInv /\ LinesInv /\ BulkInv /\ [Next]_vars
        => (SoundInv /\ LinesInv /\ BulkInv)'
  BY SoundStep, LinesStep, BulkSteps DEF LinesInv, BulkStep
<1>2. SoundInv /\ LinesInv /\ BulkInv /\ [Next]_vars
        => [\A w \in Worker :
              /\ job[w].phase \in {"balance", "pay"} /\ job'[w].phase = "idle"
              /\ crashes' = crashes /\ job[w].alone /\ job[w].fresh
              => \A k \in job[w].chosen : Balance(k)' <= 0]_vars
  BY BulkSteps DEF LinesInv, BulkStep, EndsSettled
<1>3. Init => BulkInv
  BY DEF Init, NoJob, BulkInv, AloneSound, BulkOf
<1> QED BY InitSound, <1>1, <1>2, <1>3, PTL DEF Spec, BulkSettles

=============================================================================
