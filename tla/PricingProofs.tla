--------------------------- MODULE PricingProofs ----------------------------
(***************************************************************************)
(* Pricing guarantees for any classes, students, terms, price lists and    *)
(* number of requests: its types; one-time fees stay one-time from session *)
(* to session; two prices never claim the same place unnoticed; what the   *)
(* form answers is true; and every gap in the prices is warned of.         *)
(***************************************************************************)
EXTENDS Pricing, SequenceTheorems, WellFoundedInduction, TLAPS

-----------------------------------------------------------------------------
(* One-time fees.  OneTimeOnce alone is not inductive: that a fee was not    *)
(* billed in a later session already follows from where the student has been,*)
(* for a student is only billed in the session it is placed in.              *)

OneTime(s, t) == {l \in Billed(s, t) : l.cycle = "ONE_TIME"}

TablesShaped ==
  /\ bill = [s \in Student |-> bill[s]]
  /\ \A s \in Student : bill[s] = [t \in Term |-> bill[s][t]]
  /\ place = [s \in Student |-> place[s]]
  /\ rolled = [s \in Student |-> rolled[s]]

\* Who is billed a one-time fee was enrolled in the session.
BilledWhereRolled ==
  \A s \in Student, t \in Term : OneTime(s, t) # {} => SessionOf[t] \in rolled[s]

\* Who was not moved back is in the latest of its sessions.
LatestIsLast ==
  /\ \A s \in Student : place[s].session \in rolled[s] /\ rolled[s] \subseteq Session
  /\ \A s \in Student \ wentBack : \A x \in rolled[s] : x <= place[s].session

OnceInv == TablesShaped /\ BilledWhereRolled /\ LatestIsLast /\ OneTimeOnce

LEMMA SessionsAreNumbers == Session \subseteq Nat
BY PricingAssumption DEF Session, Term

\* What is billed now was not billed in an earlier session.
LEMMA LinesAreNew ==
  ASSUME NEW s, NEW k, NEW t, NEW type,
         NEW l \in {LineOf(p) : p \in ChargedWith(s, k, t, type)},
         l.cycle = "ONE_TIME",
         NEW u \in Term, SessionOf[u] < SessionOf[t], NEW m \in OneTime(s, u)
  PROVE  m.cat # l.cat
<1>1. PICK p \in ChargedWith(s, k, t, type) : l = LineOf(p)
  OBVIOUS
<1>2. l.cat = price[p].cat /\ category[price[p].cat].cycle = "ONE_TIME"
  BY <1>1 DEF LineOf
<1>3. ~ BilledBefore(s, price[p].cat, SessionOf[t])
  BY <1>1 DEF ChargedWith
<1>4. bill[s][u] # NoRow /\ m \in bill[s][u] /\ m.cycle = "ONE_TIME"
  BY DEF OneTime, Billed
<1> QED
  BY <1>2, <1>3, <1>4 DEF BilledBefore

\* A step that bills in one term at most, and there only what is new, to students
\* who are placed in its session.
BilledNew(s, t) ==
  /\ SessionOf[t] = place'[s].session /\ SessionOf[t] \in rolled'[s]
  /\ \A l \in OneTime(s, t)', u \in Term :
       SessionOf[u] < SessionOf[t] => \A m \in OneTime(s, u) : m.cat # l.cat

LEMMA BillingKeeps ==
  ASSUME OnceInv, NEW T, LatestIsLast',
         \A s \in Student : rolled[s] \subseteq rolled'[s],
         wentBack \subseteq wentBack',
         \A s \in Student, t \in Term :
           \/ OneTime(s, t)' \subseteq OneTime(s, t)
           \/ t = T /\ BilledNew(s, t)
  PROVE  BilledWhereRolled' /\ OneTimeOnce'
<1>1. BilledWhereRolled'
  BY DEF OnceInv, BilledWhereRolled, BilledNew
<1>2. ASSUME NEW s \in Student \ wentBack', NEW t \in Term, NEW u \in Term,
             SessionOf[t] < SessionOf[u],
             NEW l \in OneTime(s, t)', NEW m \in OneTime(s, u)', l.cat = m.cat
      PROVE  FALSE
  <2>1. CASE l \in OneTime(s, t) /\ m \in OneTime(s, u)
    BY <1>2, <2>1 DEF OnceInv, OneTimeOnce, OneTime
  <2>2. CASE BilledNew(s, u) /\ l \in OneTime(s, t)
    BY <1>2, <2>2 DEF BilledNew
  <2>3. CASE BilledNew(s, t) /\ m \in OneTime(s, u)
    <3>1. SessionOf[u] \in rolled'[s]
      BY <2>3 DEF OnceInv, BilledWhereRolled
    <3>2. SessionOf[u] <= SessionOf[t]
      BY <2>3, <3>1 DEF LatestIsLast, BilledNew
    <3>3. SessionOf[t] \in Nat /\ SessionOf[u] \in Nat
      BY SessionsAreNumbers DEF Session
    <3> QED
      BY <1>2, <3>2, <3>3
  <2>4. t # u
    BY <1>2, SessionsAreNumbers DEF Session
  <2> QED
    BY <2>1, <2>2, <2>3, <2>4
<1>3. OneTimeOnce'
  BY <1>2 DEF OneTimeOnce, OneTime
<1> QED
  BY <1>1, <1>3

LEMMA ElsewhereKeeps ==
  ASSUME OnceInv, UNCHANGED <<bill, place, rolled, wentBack>>
  PROVE  OnceInv'
BY DEF OnceInv, TablesShaped, BilledWhereRolled, LatestIsLast, OneTimeOnce,
       OneTime, Billed

\* Students stay where they are, and the ONE_TIME lines only become fewer.
LEMMA FewerKeeps ==
  ASSUME OnceInv, UNCHANGED <<place, rolled, wentBack>>, TablesShaped',
         \A s \in Student, t \in Term : OneTime(s, t)' \subseteq OneTime(s, t)
  PROVE  OnceInv'
<1>1. LatestIsLast'
  BY DEF OnceInv, LatestIsLast
<1>2. BilledWhereRolled' /\ OneTimeOnce'
  BY <1>1, BillingKeeps
<1> QED
  BY <1>1, <1>2 DEF OnceInv

LEMMA AddLinesKeeps ==
  ASSUME OnceInv, NEW s \in Student, NEW t, NEW prices, AddLines(s, t, prices),
         UNCHANGED <<place, rolled, wentBack>>
  PROVE  OnceInv'
<1> DEFINE new == {[cat |-> price[p].cat, amount |-> price[p].amount,
                    cycle |-> "PER_TERM"] :
             p \in {p \in prices : \A l \in Billed(s, t) : l.cat # price[p].cat}}
<1>1. bill' = [bill EXCEPT ![s][t] = Billed(s, t) \cup new]
  BY DEF AddLines
<1>2. \A l \in new : l.cycle # "ONE_TIME"
  OBVIOUS
<1> HIDE DEF new
<1>3. TablesShaped'
  BY <1>1 DEF OnceInv, TablesShaped
<1>4. ASSUME NEW x \in Student, NEW u \in Term
      PROVE  OneTime(x, u)' \subseteq OneTime(x, u)
  <2>1. CASE x = s /\ u = t
    <3>1. bill'[x][u] = Billed(s, t) \cup new
      BY <1>1, <2>1 DEF OnceInv, TablesShaped
    <3> QED
      BY <1>2, <2>1, <3>1 DEF OneTime, Billed
  <2>2. CASE ~ (x = s /\ u = t)
    <3>1. bill'[x][u] = bill[x][u]
      BY <1>1, <2>2 DEF OnceInv, TablesShaped
    <3> QED
      BY <3>1 DEF OneTime, Billed
  <2> QED
    BY <2>1, <2>2
<1> QED
  BY <1>3, <1>4, FewerKeeps

LEMMA ResetKeeps ==
  ASSUME OnceInv, NEW students, NEW terms, Reset(students, terms)
  PROVE  OnceInv'
<1>1. /\ bill' = [s \in Student |-> [t \in Term |->
            IF s \in students /\ t \in terms THEN NoRow ELSE bill[s][t]]]
      /\ UNCHANGED <<place, rolled, wentBack>>
  BY DEF Reset, people
<1>2. TablesShaped'
  BY <1>1 DEF OnceInv, TablesShaped
<1>3. \A s \in Student, t \in Term : bill'[s][t] \in {NoRow, bill[s][t]}
  BY <1>1
<1>4. \A s \in Student, t \in Term : OneTime(s, t)' \subseteq OneTime(s, t)
  BY <1>3 DEF OneTime, Billed
<1> QED
  BY <1>1, <1>2, <1>4, FewerKeeps

\* The generator and the re-pricing of a class.
LEMMA BillThemKeeps ==
  ASSUME OnceInv, NEW pupils, NEW k, NEW T, pupils \subseteq Pupils(k, T),
         BillThem(pupils, k, T), UNCHANGED <<place, rolled, wentBack>>
  PROVE  OnceInv'
<1>1. ASSUME NEW s \in Student
      PROVE  \/ bill'[s] = bill[s]
             \/ s \in pupils /\ bill'[s] = [bill[s] EXCEPT ![T] =
                  {LineOf(p) : p \in ChargedWith(s, k, T, TypeOf(s, SessionOf[T]))}]
  BY DEF BillThem, Charged
<1>2. bill' = [s \in Student |-> bill'[s]]
  BY DEF BillThem
<1>3. \A s \in Student : bill'[s] = [t \in Term |-> bill'[s][t]]
  BY <1>1 DEF OnceInv, TablesShaped
<1>4. TablesShaped' /\ LatestIsLast'
  BY <1>2, <1>3 DEF OnceInv, TablesShaped, LatestIsLast
<1>5. ASSUME NEW s \in Student, NEW t \in Term
      PROVE  \/ OneTime(s, t)' \subseteq OneTime(s, t)
             \/ t = T /\ BilledNew(s, t)
  <2>1. CASE bill'[s][t] = bill[s][t]
    BY <2>1 DEF OneTime, Billed
  <2>2. CASE bill'[s][t] # bill[s][t]
    <3> DEFINE due == {LineOf(p) : p \in
                         ChargedWith(s, k, T, TypeOf(s, SessionOf[T]))}
    <3> HIDE DEF due
    <3>a. s \in pupils /\ bill'[s] = [bill[s] EXCEPT ![T] = due]
      BY <1>1, <2>2 DEF due
    <3>b. t = T /\ bill'[s][t] = due
      BY <2>2, <3>a DEF OnceInv, TablesShaped
    <3>1. /\ t = T /\ s \in pupils
          /\ bill'[s][t] = {LineOf(p) : p \in
               ChargedWith(s, k, t, TypeOf(s, SessionOf[t]))}
      BY <3>a, <3>b DEF due
    <3>2. place[s].session = SessionOf[t]
      BY <3>1 DEF Pupils
    <3>3. CASE OneTime(s, t)' = {}
      BY <3>3
    <3>4. \A l \in OneTime(s, t)' :
            /\ l \in {LineOf(p) : p \in ChargedWith(s, k, t, TypeOf(s, SessionOf[t]))}
            /\ l.cycle = "ONE_TIME"
      BY <3>1 DEF OneTime, Billed
    <3>5. \A l \in OneTime(s, t)', u \in Term :
            SessionOf[u] < SessionOf[t] => \A m \in OneTime(s, u) : m.cat # l.cat
      BY <3>4, LinesAreNew
    <3>6. SessionOf[t] \in rolled[s]
      BY <3>2 DEF OnceInv, LatestIsLast
    <3> QED
      BY <3>1, <3>2, <3>5, <3>6 DEF BilledNew
  <2> QED
    BY <2>1, <2>2
<1>6. BilledWhereRolled' /\ OneTimeOnce'
  BY <1>4, <1>5, BillingKeeps
<1> QED
  BY <1>4, <1>6 DEF OnceInv

LEMMA EnrolKeeps ==
  ASSUME OnceInv, NEW s \in Student, NEW k \in Class, NEW session \in Session,
         NEW form, Enrol(s, k, session, form)
  PROVE  OnceInv'
<1> DEFINE due == {LineOf(p) : p \in ChargedWith(s, k, now, TypeOf(s, session))}
<1>1. /\ place' = [place EXCEPT ![s] = [class |-> k, session |-> session]]
      /\ rolled' = [rolled EXCEPT ![s] = @ \cup {session}]
      /\ wentBack' = IF \E later \in rolled[s] : later > session
                     THEN wentBack \cup {s} ELSE wentBack
  BY DEF Enrol
<1>2. /\ place'[s].session = session /\ rolled'[s] = rolled[s] \cup {session}
      /\ \A x \in Student \ {s} : place'[x] = place[x] /\ rolled'[x] = rolled[x]
  BY <1>1 DEF OnceInv, TablesShaped
<1>3. \/ bill' = bill
      \/ session = SessionOf[now] /\ bill' = [bill EXCEPT ![s][now] = due]
  <2>1. CASE UNCHANGED bill
    BY <2>1
  <2>2. CASE /\ session = SessionOf[now]
             /\ LET d == ChargedWith(s, k, now, TypeOf(s, session))
                IN  bill' = [bill EXCEPT ![s][now] =
                               IF d = {} THEN @ ELSE {LineOf(p) : p \in d}]
    <3>1. CASE ChargedWith(s, k, now, TypeOf(s, session)) = {}
      <4>1. bill' = [bill EXCEPT ![s][now] = @]
        BY <2>2, <3>1
      <4>2. bill' = bill
        BY <4>1 DEF OnceInv, TablesShaped
      <4> QED
        BY <4>2
    <3>2. CASE ChargedWith(s, k, now, TypeOf(s, session)) # {}
      BY <2>2, <3>2
    <3> QED
      BY <3>1, <3>2
  <2> QED
    BY <2>1, <2>2 DEF Enrol
<1> HIDE DEF due
<1>4. TablesShaped'
  <2>1. place' = [x \in Student |-> place'[x]] /\ rolled' = [x \in Student |-> rolled'[x]]
    BY <1>1 DEF OnceInv, TablesShaped
  <2>2. CASE bill' = bill
    BY <2>1, <2>2 DEF OnceInv, TablesShaped
  <2>3. CASE bill' = [bill EXCEPT ![s][now] = due]
    <3>1. bill' = [x \in Student |-> bill'[x]]
      BY <2>3 DEF OnceInv, TablesShaped
    <3>2. bill'[s] = [bill[s] EXCEPT ![now] = due]
      BY <2>3 DEF OnceInv, TablesShaped
    <3>3. bill'[s] = [t \in Term |-> bill'[s][t]]
      BY <3>2 DEF OnceInv, TablesShaped
    <3>4. \A x \in Student \ {s} : bill'[x] = bill[x]
      BY <2>3 DEF OnceInv, TablesShaped
    <3>5. \A x \in Student : bill'[x] = [t \in Term |-> bill'[x][t]]
      BY <3>3, <3>4 DEF OnceInv, TablesShaped
    <3> QED
      BY <2>1, <3>1, <3>5 DEF TablesShaped
  <2> QED
    BY <1>3, <2>2, <2>3
<1>5. LatestIsLast'
  <2>1. ASSUME NEW x \in Student
        PROVE  place'[x].session \in rolled'[x] /\ rolled'[x] \subseteq Session
    <3>1. place[x].session \in rolled[x] /\ rolled[x] \subseteq Session
      BY DEF OnceInv, LatestIsLast
    <3> QED
      BY <1>2, <3>1
  <2>2. ASSUME NEW x \in Student \ wentBack', NEW y \in rolled'[x]
        PROVE  y <= place'[x].session
    <3>1. CASE x # s
      BY <1>1, <1>2, <3>1 DEF OnceInv, LatestIsLast
    <3>2. CASE x = s
      <4>1. \A later \in rolled[s] : ~ (later > session)
        BY <1>1, <3>2
      <4>2. y \in rolled[s] \cup {session} /\ y \in Nat /\ session \in Nat
        BY <1>2, <2>1, <3>2, SessionsAreNumbers
      <4> QED
        BY <1>2, <3>2, <4>1, <4>2
    <3> QED
      BY <3>1, <3>2
  <2> QED
    BY <2>1, <2>2 DEF LatestIsLast
<1>6. ASSUME NEW x \in Student, NEW t \in Term
      PROVE  \/ OneTime(x, t)' \subseteq OneTime(x, t)
             \/ t = now /\ BilledNew(x, t)
  <2>1. CASE bill'[x][t] = bill[x][t]
    BY <2>1 DEF OneTime, Billed
  <2>2. CASE bill'[x][t] # bill[x][t]
    <3>1. /\ session = SessionOf[now] /\ x = s /\ t = now
          /\ bill'[x][t] = due
      BY <1>3, <2>2 DEF OnceInv, TablesShaped
    <3>2. place'[x].session = SessionOf[t] /\ SessionOf[t] \in rolled'[x]
      BY <1>2, <3>1
    <3>3. \A l \in OneTime(x, t)' :
            /\ l \in {LineOf(p) : p \in ChargedWith(x, k, t, TypeOf(x, session))}
            /\ l.cycle = "ONE_TIME"
      BY <3>1 DEF OneTime, Billed, due
    <3>4. \A l \in OneTime(x, t)', u \in Term :
            SessionOf[u] < SessionOf[t] => \A m \in OneTime(x, u) : m.cat # l.cat
      BY <3>3, LinesAreNew
    <3> QED
      BY <3>1, <3>2, <3>4 DEF BilledNew
  <2> QED
    BY <2>1, <2>2
<1>7. /\ \A x \in Student : rolled[x] \subseteq rolled'[x]
      /\ wentBack \subseteq wentBack'
  BY <1>1, <1>2
<1>8. BilledWhereRolled' /\ OneTimeOnce'
  BY <1>5, <1>6, <1>7, BillingKeeps
<1> QED
  BY <1>4, <1>5, <1>8 DEF OnceInv

LEMMA InitOnce == Init => OnceInv
<1> SUFFICES ASSUME Init PROVE OnceInv
  OBVIOUS
<1>1. /\ place = Place0
      /\ rolled = [s \in Student |-> {Place0[s].session}]
      /\ bill = [s \in Student |-> [t \in Term |-> NoRow]]
  BY DEF Init
<1>2. TablesShaped
  BY <1>1, PricingAssumption DEF TablesShaped
<1>3. \A s \in Student, t \in Term : Billed(s, t) = {}
  BY <1>1 DEF Billed
<1>4. BilledWhereRolled /\ OneTimeOnce
  BY <1>3 DEF BilledWhereRolled, OneTimeOnce, OneTime
<1>5. \A s \in Student : Place0[s].session \in Session
  BY PricingAssumption
<1>6. \A s \in Student : place[s].session \in Nat /\ rolled[s] = {place[s].session}
  BY <1>1, <1>5, SessionsAreNumbers
<1>7. \A n \in Nat : n <= n
  OBVIOUS
<1>8. LatestIsLast
  BY <1>1, <1>5, <1>6, <1>7, Zenon DEF LatestIsLast
<1> QED
  BY <1>2, <1>4, <1>8 DEF OnceInv

LEMMA WorkOnce ==
  ASSUME OnceInv, NEW w \in Worker, Work(w)
  PROVE  OnceInv'
<1>1. CASE Overwrite(w)
  BY <1>1, ElsewhereKeeps DEF Overwrite, people, money
<1>2. CASE ReadSibling(w)
  BY <1>2, ElsewhereKeeps DEF ReadSibling, people, money
<1>3. CASE Insert(w)
  BY <1>3, ElsewhereKeeps DEF Insert, people, money
<1>4. CASE Done(w)
  BY <1>4, ElsewhereKeeps DEF Done, people, money
<1>5. ASSUME NEW r, CopyRow(w, r)
      PROVE  OnceInv'
  BY <1>5, ElsewhereKeeps DEF CopyRow, people, money
<1>6. ASSUME NEW k, GenerateClass(w, k)
      PROVE  OnceInv'
  <2>1. UNCHANGED <<place, rolled, wentBack>>
    BY <1>6 DEF GenerateClass, people
  <2> DEFINE pupils == {s \in Pupils(k, job[w].term) : bill[s][job[w].term] = NoRow}
  <2>2. BillThem(pupils, k, job[w].term)
    BY <1>6 DEF GenerateClass
  <2> QED
    BY <2>1, <2>2, BillThemKeeps
<1>7. ASSUME NEW k, SyncClass(w, k)
      PROVE  OnceInv'
  <2>1. UNCHANGED <<place, rolled, wentBack>>
    BY <1>7 DEF SyncClass, people
  <2> DEFINE pupils == {s \in Pupils(k, job[w].term) :
                          /\ bill[s][job[w].term] # NoRow
                          /\ <<s, job[w].term>> \notin paid}
  <2>2. BillThem(pupils, k, job[w].term)
    BY <1>7 DEF SyncClass
  <2> QED
    BY <2>1, <2>2, BillThemKeeps
<1>8. ASSUME NEW s, GenerateStudent(w, s)
      PROVE  OnceInv'
  <2>1. UNCHANGED <<place, rolled, wentBack>>
    BY <1>8 DEF GenerateStudent, people
  <2> DEFINE k == place[s].class
             pupils == {x \in Pupils(k, job[w].term) \cap {s} :
                          bill[x][job[w].term] = NoRow}
  <2>2. BillThem(pupils, k, job[w].term)
    BY <1>8 DEF GenerateStudent
  <2> QED
    BY <2>1, <2>2, BillThemKeeps
<1> QED
  BY <1>1, <1>2, <1>3, <1>4, <1>5, <1>6, <1>7, <1>8 DEF Work

LEMMA RequestOnce ==
  ASSUME OnceInv, Request
  PROVE  OnceInv'
<1>1. ASSUME NEW w, NEW pk, NEW form, NEW both, SubmitPrice(w, pk, form, both)
      PROVE  OnceInv'
  BY <1>1, ElsewhereKeeps DEF SubmitPrice, people, money
<1>2. ASSUME NEW w, NEW t, NEW active, GenerateTerm(w, t, active)
      PROVE  OnceInv'
  BY <1>2, ElsewhereKeeps DEF GenerateTerm, people, money
<1>3. ASSUME NEW w, NEW t, NEW u, CopyTerm(w, u, t)
      PROVE  OnceInv'
  BY <1>3, ElsewhereKeeps DEF CopyTerm, people, money
<1>4. ASSUME NEW w, NEW p, NEW target, Promote(w, p, target)
      PROVE  OnceInv'
  BY <1>4, ElsewhereKeeps DEF Promote, people, money
<1> QED
  BY <1>1, <1>2, <1>3, <1>4 DEF Request

LEMMA ChangeOnce ==
  ASSUME OnceInv, Change
  PROVE  OnceInv'
<1>1. ASSUME NEW p, DeletePrice(p)
      PROVE  OnceInv'
  BY <1>1, ElsewhereKeeps DEF DeletePrice, people, money
<1>2. ASSUME NEW c, NEW form, EditCategory(c, form)
      PROVE  OnceInv'
  BY <1>2, ElsewhereKeeps DEF EditCategory, people, money
<1>3. ASSUME NEW s \in Student, NEW k \in Class, NEW session \in Session, NEW form,
             Enrol(s, k, session, form)
      PROVE  OnceInv'
  BY <1>3, EnrolKeeps
<1>4. ASSUME NEW s \in Student, NEW t, CheckoutBundle(s, t)
      PROVE  OnceInv'
  BY <1>4, AddLinesKeeps DEF CheckoutBundle, people
<1>5. ASSUME NEW s \in Student, NEW t, NEW c, Checkout(s, t, c)
      PROVE  OnceInv'
  BY <1>5, AddLinesKeeps DEF Checkout, people
<1>6. ASSUME NEW students, NEW terms, Reset(students, terms)
      PROVE  OnceInv'
  BY <1>6, ResetKeeps
<1>7. ASSUME NEW s, NEW form, NEW t, RecordPayment(s, form, t)
      PROVE  OnceInv'
  BY <1>7, ElsewhereKeeps DEF RecordPayment
<1>8. CASE NextDay
  BY <1>8, ElsewhereKeeps DEF NextDay, people, money
<1>9. ASSUME NEW t, SetCurrentTerm(t)
      PROVE  OnceInv'
  BY <1>9, ElsewhereKeeps DEF SetCurrentTerm, people, money
<1> QED
  BY <1>1, <1>2, <1>3, <1>4, <1>5, <1>6, <1>7, <1>8, <1>9 DEF Change

\* A one-time fee billed in a session is not billed again in a later one, for any
\* prices, requests and changes (generate_invoices_for_class, sync_class_invoices,
\* generate_invoice_for_student and the checkout).
THEOREM OneTimeFeesOnce == Spec => []OneTimeOnce
<1>1. OnceInv /\ [Next]_vars => OnceInv'
  <2>1. CASE UNCHANGED vars
    BY <2>1, ElsewhereKeeps DEF vars, people, money
  <2>2. CASE Next /\ OnceInv
    BY <2>2, WorkOnce, RequestOnce, ChangeOnce DEF Next
  <2> QED
    BY <2>1, <2>2
<1>2. OnceInv => OneTimeOnce
  BY DEF OnceInv
<1> QED
  BY InitOnce, <1>1, <1>2, PTL DEF Spec

-----------------------------------------------------------------------------
(* Prices apart.  NoTwins becomes inductive with what every open request knows: *)
(* as long as it was alone, the keys it is about to write are still free.      *)

Shaped(j) == j = [f \in DOMAIN NoJob |-> j[f]]

RowShaped(r) ==
  r = [f \in {"scope", "class", "level", "term", "cat", "type", "amount", "days"} |-> r[f]]

\* Rows whose places are free, and not each other's.
FreeRows(rows) ==
  /\ \A i \in DOMAIN rows : Keyed(KeyOf(rows[i])) = {}
  /\ \A i, k \in DOMAIN rows : i # k => KeyOf(rows[i]) # KeyOf(rows[k])

Apart(j) ==
  /\ Len(j.rows) \in Nat
  /\ j.phase = "overwrite" => RowShaped(j.row) /\ j.rows = <<>>
  /\ j.phase = "sibling" => RowShaped(j.row) /\ j.rows \in {<<>>, <<j.row>>}
  /\ j.alone = "yes" /\ j.phase = "overwrite" => Keyed(KeyOf(j.row)) \subseteq {j.pk}
  /\ j.alone = "yes" /\ j.phase \in {"sibling", "insert"} => FreeRows(j.rows)

JobsApart ==
  /\ job = [w \in Worker |-> job[w]]
  /\ \A w \in Worker : Shaped(job[w]) /\ Apart(job[w])

PriceList == price = [p \in Pk |-> price[p]] /\ serial \in Int

TwinInv == PriceList /\ JobsApart /\ NoTwins

\* A request goes on and leaves the prices alone.
LEMMA MoveApart ==
  ASSUME TwinInv, UNCHANGED <<price, serial, raced>>,
         NEW w \in Worker, NEW next, Move(w, next), Shaped(next), Apart(next)
  PROVE  TwinInv'
<1>1. job' = [job EXCEPT ![w] = next]
  BY DEF Move
<1>2. \A key : Keyed(key)' = Keyed(key)
  BY DEF Keyed, Live
<1>3. \A v \in Worker : job'[v] = IF v = w THEN next ELSE job[v]
  BY <1>1 DEF TwinInv, JobsApart
<1>4. job' = [v \in Worker |-> job'[v]]
  BY <1>1 DEF TwinInv, JobsApart
<1>5. ASSUME NEW v \in Worker
      PROVE  Shaped(job[v])' /\ Apart(job[v])'
  <2>1. Shaped(job'[v]) /\ Apart(job'[v])
    BY <1>3 DEF TwinInv, JobsApart
  <2> QED
    BY <1>2, <2>1 DEF Shaped, Apart, FreeRows, NoJob
<1>6. PriceList' /\ NoTwins'
  BY DEF TwinInv, PriceList, NoTwins, Live
<1> QED
  BY <1>4, <1>5, <1>6 DEF TwinInv, JobsApart

\* A change which leaves the prices alone.
LEMMA AtOnceApart ==
  ASSUME TwinInv, UNCHANGED <<price, serial, raced>>, AtOnce
  PROVE  TwinInv'
<1>1. job' = [o \in Worker |-> [job[o] EXCEPT !.clean = "no"]]
  BY DEF AtOnce
<1>2. \A key : Keyed(key)' = Keyed(key)
  BY DEF Keyed, Live
<1>3. ASSUME NEW v \in Worker
      PROVE  Shaped(job[v])' /\ Apart(job[v])'
  <2>1. Shaped(job[v]) /\ Apart(job[v])
    BY DEF TwinInv, JobsApart
  <2>2. job'[v] = [job[v] EXCEPT !.clean = "no"]
    BY <1>1
  <2>3. /\ Shaped(job'[v])
        /\ job'[v].phase = job[v].phase /\ job'[v].rows = job[v].rows
        /\ job'[v].row = job[v].row /\ job'[v].pk = job[v].pk
        /\ job'[v].alone = job[v].alone
    BY <2>1, <2>2 DEF Shaped, NoJob
  <2>4. Apart(job'[v])
    BY <2>1, <2>3 DEF Apart
  <2> QED
    BY <1>2, <2>3, <2>4 DEF Shaped, Apart, FreeRows, NoJob
<1>4. PriceList' /\ NoTwins'
  BY DEF TwinInv, PriceList, NoTwins, Live
<1> QED
  BY <1>1, <1>3, <1>4 DEF TwinInv, JobsApart

\* The others, when prices change.
LEMMA OthersApart ==
  ASSUME JobsApart, NEW v \in Worker,
         job'[v] = [job[v] EXCEPT !.clean = "no", !.alone = "no"]
  PROVE  Shaped(job[v])' /\ Apart(job[v])'
<1>1. Shaped(job[v]) /\ Apart(job[v])
  BY DEF JobsApart
<1>2. /\ Shaped(job'[v]) /\ job'[v].alone = "no"
      /\ job'[v].phase = job[v].phase /\ job'[v].rows = job[v].rows
      /\ job'[v].row = job[v].row
  BY <1>1 DEF Shaped, NoJob
<1> QED
  BY <1>1, <1>2 DEF Shaped, Apart, RowShaped, NoJob

LEMMA StirApart ==
  ASSUME TwinInv, NEW w \in Worker, NEW next, StirPrices(w, next),
         Shaped(next), Len(next.rows) \in Nat,
         \/ next.phase \in {"idle", "copy", "generate"}
         \/ next.phase = "sibling" /\ RowShaped(next.row) /\ next.rows = <<>>
  PROVE  JobsApart'
<1>1. job' = [o \in Worker |-> IF o = w THEN next
                ELSE [job[o] EXCEPT !.clean = "no", !.alone = "no"]]
  BY DEF StirPrices
<1>2. ASSUME NEW v \in Worker, v # w
      PROVE  Shaped(job[v])' /\ Apart(job[v])'
  <2>1. job'[v] = [job[v] EXCEPT !.clean = "no", !.alone = "no"]
    BY <1>1, <1>2
  <2> QED
    BY <2>1, OthersApart DEF TwinInv
<1>3. Shaped(job[w])' /\ Apart(job[w])'
  <2>1. job'[w] = next
    BY <1>1
  <2>2. DOMAIN <<>> = {}
    OBVIOUS
  <2>3. \A i \in DOMAIN <<>> : FALSE
    BY <2>2
  <2> QED
    BY <2>1, <2>3 DEF Shaped, Apart, FreeRows, RowShaped, NoJob
<1> QED
  BY <1>1, <1>2, <1>3 DEF JobsApart

\* What comes after the last row needs no place any more.
LEMMA SavedRests ==
  ASSUME NEW j, Shaped(j), Len(j.rows) \in Nat
  PROVE  /\ Shaped(Saved(j)) /\ Len(Saved(j).rows) \in Nat
         /\ Saved(j).phase \in {"idle", "copy", "generate"}
<1>1. CASE j.copies # {}
  BY <1>1 DEF Saved, Shaped, NoJob
<1>2. CASE j.copies = {} /\ j.sync = "yes" /\ Covered(j.row) # {}
  <2> DEFINE todo == Covered(j.row)
  <2>1. Saved(j) = [j EXCEPT !.phase = "generate", !.rows = <<>>, !.todo = todo]
    BY <1>2 DEF Saved
  <2> HIDE DEF todo
  <2>2. Shaped(Saved(j)) /\ Saved(j).phase = "generate" /\ Saved(j).rows = <<>>
    BY <2>1 DEF Shaped, NoJob
  <2> QED
    BY <2>2
<1>3. CASE j.copies = {} /\ ~ (j.sync = "yes" /\ Covered(j.row) # {})
  <2>1. Saved(j) = NoJob
    BY <1>3 DEF Saved
  <2> QED
    BY <2>1 DEF Shaped, NoJob
<1> QED
  BY <1>1, <1>2, <1>3

LEMMA RestApart ==
  ASSUME NEW j, Shaped(j), Len(j.rows) \in Nat, j.phase \notin {"overwrite", "sibling", "insert"}
  PROVE  Apart(j)
BY DEF Apart

LEMMA IdleApart == Shaped(NoJob) /\ Apart(NoJob)
BY DEF Shaped, Apart, NoJob

LEMMA OverwriteApart ==
  ASSUME TwinInv, NEW w \in Worker, Overwrite(w)
  PROVE  TwinInv'
<1> DEFINE j == job[w]
<1> DEFINE next == IF j.both = "yes" THEN [j EXCEPT !.phase = "sibling"] ELSE Saved(j)
<1>1. Shaped(j) /\ Apart(j) /\ j.phase = "overwrite"
  BY DEF Overwrite, TwinInv, JobsApart
<1>2. CASE Refused(j.row, j.pk)
  <2>1. Move(w, NoJob) /\ UNCHANGED <<price, serial, raced>>
    BY <1>2 DEF Overwrite
  <2> QED
    BY <2>1, MoveApart, IdleApart
<1>3. CASE ~ Refused(j.row, j.pk)
  <2>1. /\ price' = [price EXCEPT ![j.pk] = j.row] /\ serial' = serial
        /\ StirPrices(w, next) /\ Tainted(j, {j.row})
    BY <1>3 DEF Overwrite
  <2>2. /\ Shaped(next) /\ Len(next.rows) \in Nat
        /\ \/ next.phase \in {"idle", "copy", "generate"}
           \/ next.phase = "sibling" /\ RowShaped(next.row) /\ next.rows = <<>>
    <3>1. CASE j.both = "yes"
      <4>1. next = [j EXCEPT !.phase = "sibling"]
        BY <3>1
      <4>2. Len(j.rows) \in Nat /\ RowShaped(j.row) /\ j.rows = <<>>
        BY <1>1 DEF Apart
      <4>3. /\ Shaped(next) /\ next.phase = "sibling" /\ next.rows = j.rows
            /\ next.row = j.row
        BY <1>1, <4>1 DEF Shaped, NoJob
      <4> QED
        BY <4>2, <4>3
    <3>2. CASE j.both # "yes"
      BY <1>1, <3>2, SavedRests DEF Apart
    <3> QED
      BY <3>1, <3>2
  <2>3. JobsApart'
    <3> HIDE DEF next
    <3> QED
      BY <2>1, <2>2, StirApart
  <2>4. PriceList'
    BY <2>1 DEF TwinInv, PriceList
  <2>5. NoTwins'
    <3>1. raced \subseteq raced'
      BY <2>1 DEF Tainted
    <3>2. \A p \in Pk : p # j.pk => price'[p] = price[p]
      BY <2>1 DEF TwinInv, PriceList
    <3>3. ASSUME j.pk \in Pk, NEW q \in Pk, q # j.pk, price[q] # NoRow,
                 KeyOf(price[q]) = KeyOf(j.row)
          PROVE  KeyOf(j.row) \in raced'
      <4>1. q \in Keyed(KeyOf(j.row))
        BY <3>3 DEF Keyed, Live
      <4>2. j.alone # "yes"
        BY <1>1, <3>3, <4>1 DEF Apart
      <4> QED
        BY <2>1, <4>2 DEF Tainted
    <3>4. j.pk \in Pk => price'[j.pk] = j.row
      BY <2>1 DEF TwinInv, PriceList
    <3>5. ASSUME NEW p \in Pk, NEW q \in Pk, p # q, price'[p] # NoRow, price'[q] # NoRow,
                 KeyOf(price'[p]) = KeyOf(price'[q])
          PROVE  KeyOf(price'[p]) \in raced'
      <4>1. CASE p # j.pk /\ q # j.pk
        BY <3>1, <3>2, <3>5, <4>1 DEF TwinInv, NoTwins, Live
      <4>2. CASE p = j.pk
        BY <3>2, <3>3, <3>4, <3>5, <4>2
      <4>3. CASE q = j.pk
        BY <3>2, <3>3, <3>4, <3>5, <4>3
      <4> QED
        BY <4>1, <4>2, <4>3
    <3>6. \A r : KeyOf(r)' = KeyOf(r)
      BY DEF KeyOf
    <3> QED
      BY <3>5 DEF NoTwins, Live, KeyOf
  <2> QED
    BY <2>3, <2>4, <2>5 DEF TwinInv
<1> QED
  BY <1>2, <1>3

LEMMA InsertApart ==
  ASSUME TwinInv, NEW w \in Worker, Insert(w)
  PROVE  TwinInv'
<1> DEFINE j == job[w]
<1>1. Shaped(j) /\ Apart(j) /\ j.phase = "insert"
  BY DEF Insert, TwinInv, JobsApart
<1>2. CASE \E i \in DOMAIN j.rows : Refused(j.rows[i], 0)
  <2>1. Move(w, NoJob) /\ UNCHANGED <<price, serial, raced>>
    BY <1>2 DEF Insert, list
  <2> QED
    BY <2>1, MoveApart, IdleApart
<1>3. CASE ~ \E i \in DOMAIN j.rows : Refused(j.rows[i], 0)
  <2>1. /\ price' = [p \in Pk |-> IF p - serial \in DOMAIN j.rows
                                   THEN j.rows[p - serial] ELSE price[p]]
        /\ serial' = serial + Len(j.rows)
        /\ StirPrices(w, Saved(j))
        /\ Tainted(j, {j.rows[i] : i \in DOMAIN j.rows})
    BY <1>3 DEF Insert
  <2>2. Len(j.rows) \in Nat
    BY <1>1 DEF Apart
  <2>3. JobsApart'
    BY <1>1, <2>1, <2>2, SavedRests, StirApart
  <2>4. PriceList'
    BY <2>1, <2>2 DEF TwinInv, PriceList
  <2>5. ASSUME NEW i \in DOMAIN j.rows, NEW p \in Pk, price[p] # NoRow,
               KeyOf(price[p]) = KeyOf(j.rows[i])
        PROVE  KeyOf(j.rows[i]) \in raced'
    <3>1. p \in Keyed(KeyOf(j.rows[i]))
      BY <2>5 DEF Keyed, Live
    <3>2. j.alone # "yes"
      BY <1>1, <3>1 DEF Apart, FreeRows
    <3> QED
      BY <2>1, <3>2 DEF Tainted
  <2>6. ASSUME NEW i \in DOMAIN j.rows, NEW k \in DOMAIN j.rows, i # k,
               KeyOf(j.rows[i]) = KeyOf(j.rows[k])
        PROVE  KeyOf(j.rows[i]) \in raced'
    <3>1. j.alone # "yes"
      BY <1>1, <2>6 DEF Apart, FreeRows
    <3> QED
      BY <2>1, <3>1 DEF Tainted
  <2>7. ASSUME NEW p \in Pk, NEW q \in Pk, p # q, price'[p] # NoRow, price'[q] # NoRow,
               KeyOf(price'[p]) = KeyOf(price'[q])
        PROVE  KeyOf(price'[p]) \in raced'
    <3>1. p - serial # q - serial
      BY <2>7, PricingAssumption DEF TwinInv, PriceList, Pk
    <3> DEFINE new(x) == x - serial \in DOMAIN j.rows
    <3>2. \A x \in Pk : price'[x] = IF new(x) THEN j.rows[x - serial] ELSE price[x]
      BY <2>1
    <3>3. CASE new(p) /\ new(q)
      BY <2>6, <2>7, <3>1, <3>2, <3>3
    <3>4. CASE new(p) /\ ~ new(q)
      BY <2>5, <2>7, <3>2, <3>4
    <3>5. CASE ~ new(p) /\ new(q)
      BY <2>5, <2>7, <3>2, <3>5
    <3>6. CASE ~ new(p) /\ ~ new(q)
      <4>1. raced \subseteq raced'
        BY <2>1 DEF Tainted
      <4> QED
        BY <2>7, <3>2, <3>6, <4>1 DEF TwinInv, NoTwins, Live
    <3> QED
      BY <3>3, <3>4, <3>5, <3>6
  <2>8. NoTwins'
    BY <2>7 DEF NoTwins, Live, KeyOf
  <2> QED
    BY <2>3, <2>4, <2>8 DEF TwinInv
<1> QED
  BY <1>2, <1>3

\* The type of a twin is another one.
LEMMA TwinDiffers ==
  ASSUME NEW r, RowShaped(r)
  PROVE  KeyOf(Twin(r)) # KeyOf(r)
<1> DEFINE type == IF r.type = "NEW" THEN "RETURNING" ELSE "NEW"
<1>1. Twin(r) = [r EXCEPT !.type = type]
  BY DEF Twin
<1>2. type # r.type
  OBVIOUS
<1> HIDE DEF type
<1>3. Twin(r).type = type
  BY <1>1 DEF RowShaped
<1> QED
  BY <1>2, <1>3 DEF KeyOf

LEMMA Appended ==
  ASSUME NEW x, NEW y
  PROVE  Append(<<>>, x) = <<x>> /\ Append(<<y>>, x) = <<y, x>>
<1> DEFINE S == {x, y}
           two == Append(<<y>>, x)
<1>1. <<>> \in Seq(S) /\ <<y>> \in Seq(S) /\ x \in S
  OBVIOUS
<1> HIDE DEF S
<1>2. Append(<<>>, x) = <<x>>
  BY <1>1
<1>4. Len(two) = 2 /\ two[1] = y /\ two[2] = x /\ two \in Seq(S)
  BY <1>1
<1>5. <<y, x>> \in Seq(S) /\ Len(<<y, x>>) = 2
  BY <1>1
<1>6. \A i \in 1 .. Len(two) : two[i] = <<y, x>>[i]
  BY <1>4
<1> HIDE DEF two
<1>3. two = <<y, x>>
  BY <1>4, <1>5, <1>6, SeqEqual
<1> QED
  BY <1>2, <1>3 DEF two

LEMMA ReadSiblingApart ==
  ASSUME TwinInv, NEW w \in Worker, ReadSibling(w)
  PROVE  TwinInv'
<1> DEFINE j == job[w]
           twins == Keyed(KeyOf(Twin(j.row)))
           rows == IF twins = {} THEN Append(j.rows, Twin(j.row)) ELSE j.rows
           next == [j EXCEPT !.phase = "insert", !.rows = rows]
<1>1. /\ Shaped(j) /\ Apart(j) /\ j.phase = "sibling"
      /\ UNCHANGED <<price, serial, raced>>
  BY DEF ReadSibling, TwinInv, JobsApart, list
<1>2. RowShaped(j.row) /\ j.rows \in {<<>>, <<j.row>>}
  BY <1>1 DEF Apart
<1>3. CASE Cardinality(twins) > 1
  <2>1. Move(w, NoJob)
    BY <1>3 DEF ReadSibling
  <2> QED
    BY <1>1, <2>1, MoveApart, IdleApart
<1>4. CASE ~ (Cardinality(twins) > 1)
  <2>1. Move(w, next)
    BY <1>4 DEF ReadSibling
  <2> DEFINE twin == Twin(j.row)
  <2>2. \/ rows = j.rows
        \/ twins = {} /\ j.rows = <<>> /\ rows = <<twin>>
        \/ twins = {} /\ j.rows = <<j.row>> /\ rows = <<j.row, twin>>
    <3>1. Append(<<>>, twin) = <<twin>> /\ Append(<<j.row>>, twin) = <<j.row, twin>>
      BY Appended
    <3> QED
      BY <1>2, <3>1
  <2>3. KeyOf(twin) # KeyOf(j.row)
    BY <1>2, TwinDiffers
  <2>4. twins = {} => Keyed(KeyOf(twin)) = {}
    OBVIOUS
  <2> HIDE DEF rows, twins, twin
  <2>5. Len(rows) \in Nat
    BY <1>2, <2>2
  <2>6. ASSUME j.alone = "yes"
        PROVE  FreeRows(rows)
    <3>1. FreeRows(j.rows)
      BY <1>1, <2>6 DEF Apart
    <3>2. CASE rows = j.rows
      BY <3>1, <3>2
    <3>3. CASE twins = {} /\ rows = <<twin>>
      BY <2>4, <3>3 DEF FreeRows
    <3>4. CASE twins = {} /\ j.rows = <<j.row>> /\ rows = <<j.row, twin>>
      <4>1. Keyed(KeyOf(j.row)) = {}
        BY <3>1, <3>4 DEF FreeRows
      <4>2. /\ DOMAIN rows = {1, 2} /\ rows[1] = j.row /\ rows[2] = twin
        BY <3>4
      <4> QED
        BY <2>3, <2>4, <3>4, <4>1, <4>2 DEF FreeRows
    <3> QED
      BY <2>2, <3>2, <3>3, <3>4
  <2>7. Shaped(next) /\ next.phase = "insert" /\ next.rows = rows /\ next.alone = j.alone
    BY <1>1 DEF Shaped, NoJob
  <2> HIDE DEF next
  <2>8. Apart(next)
    BY <2>5, <2>6, <2>7 DEF Apart
  <2> QED
    BY <1>1, <2>1, <2>7, <2>8, MoveApart
<1> QED
  BY <1>3, <1>4

LEMMA CopyRowApart ==
  ASSUME TwinInv, NEW w \in Worker, NEW r, CopyRow(w, r)
  PROVE  TwinInv'
<1> DEFINE j == job[w]
           copy == [r EXCEPT !.term = j.term, !.days = Day]
           others == j.copies \ {r}
           rest == [j EXCEPT !.copies = others, !.clean = "yes", !.alone = "yes"]
           insert == [rest EXCEPT !.phase = "insert", !.rows = <<copy>>]
<1>1. /\ Shaped(j) /\ Apart(j) /\ j.phase = "copy"
      /\ UNCHANGED <<price, serial, raced>>
      /\ Move(w, IF Keyed(KeyOf(copy)) = {} THEN insert ELSE Saved(rest))
  BY DEF CopyRow, TwinInv, JobsApart, list
<1> HIDE DEF others, copy
<1>2. Shaped(rest) /\ rest.rows = j.rows
  BY <1>1 DEF Shaped, NoJob
<1>3. CASE Keyed(KeyOf(copy)) = {}
  <2>1. Shaped(insert) /\ insert.phase = "insert" /\ insert.rows = <<copy>>
    BY <1>2 DEF Shaped, NoJob
  <2>2. Move(w, insert)
    BY <1>1, <1>3
  <2> HIDE DEF insert, rest
  <2>3. Apart(insert)
    BY <1>3, <2>1 DEF Apart, FreeRows
  <2> QED
    BY <1>1, <2>1, <2>2, <2>3, MoveApart
<1>4. CASE Keyed(KeyOf(copy)) # {}
  <2>1. Move(w, Saved(rest))
    BY <1>1, <1>4
  <2> HIDE DEF rest
  <2>2. Len(rest.rows) \in Nat
    BY <1>1, <1>2 DEF Apart
  <2>3. Shaped(Saved(rest)) /\ Apart(Saved(rest))
    BY <1>2, <2>2, SavedRests, RestApart
  <2> QED
    BY <1>1, <2>1, <2>3, MoveApart
<1> QED
  BY <1>3, <1>4

\* A request that bills, or is answered, writes no price any more.
LEMMA BillingApart ==
  ASSUME TwinInv, NEW w \in Worker, UNCHANGED <<price, serial, raced>>,
         job[w].phase \in {"generate", "sync", "answer", "term"},
         \/ Move(w, NoJob)
         \/ \E k : Move(w, NextClass(job[w], k))
         \/ \E pupils : Move(w, [job[w] EXCEPT !.pupils = pupils])
  PROVE  TwinInv'
<1> DEFINE j == job[w]
<1>1. Shaped(j) /\ Apart(j) /\ Len(j.rows) \in Nat
  BY DEF TwinInv, JobsApart, Apart
<1>2. CASE Move(w, NoJob)
  BY <1>2, MoveApart, IdleApart
<1>3. ASSUME NEW k, Move(w, NextClass(j, k))
      PROVE  TwinInv'
  <2> DEFINE next == NextClass(j, k)
             others == j.todo \ {k}
             todo == Covered(j.row)
  <2>1. \/ next = [j EXCEPT !.todo = others]
        \/ next = [j EXCEPT !.phase = "sync", !.todo = todo]
        \/ next = [j EXCEPT !.phase = "answer", !.todo = {}]
    BY DEF NextClass
  <2> HIDE DEF next, others, todo
  <2>2. /\ Shaped(next) /\ next.phase \in {j.phase, "sync", "answer"}
        /\ next.rows = j.rows
    BY <1>1, <2>1 DEF Shaped, NoJob
  <2>3. Apart(next)
    BY <1>1, <2>2, RestApart
  <2>4. Move(w, next)
    BY <1>3 DEF next
  <2> QED
    BY <2>2, <2>3, <2>4, MoveApart
<1>4. ASSUME NEW pupils, Move(w, [j EXCEPT !.pupils = pupils])
      PROVE  TwinInv'
  <2> DEFINE next == [j EXCEPT !.pupils = pupils]
  <2>1. Shaped(next) /\ next.phase = j.phase /\ next.rows = j.rows
    BY <1>1 DEF Shaped, NoJob
  <2>2. Move(w, next)
    BY <1>4
  <2> HIDE DEF next
  <2>3. Apart(next)
    BY <1>1, <2>1, RestApart
  <2> QED
    BY <2>1, <2>2, <2>3, MoveApart
<1> QED
  BY <1>2, <1>3, <1>4

\* What the form is filled with keeps its fields.
LEMMA LockedShaped ==
  ASSUME NEW form \in Form
  PROVE  RowShaped(Locked(form))
<1>1. form \in Row
  BY PricingAssumption
<1>2. RowShaped(form)
  BY <1>1 DEF Row, RowShaped
<1> QED
  BY <1>2 DEF Locked, RowShaped

LEMMA RequestApart ==
  ASSUME TwinInv, Request
  PROVE  TwinInv'
<1>1. ASSUME NEW w \in Worker, NEW pk, NEW form \in Form, NEW both,
             SubmitPrice(w, pk, form, both)
      PROVE  TwinInv'
  <2> DEFINE row == Locked(form)
             phase == IF pk # 0 THEN "overwrite"
                      ELSE IF both = "yes" THEN "sibling" ELSE "insert"
             rows == IF pk = 0 THEN <<row>> ELSE <<>>
             next == [NoJob EXCEPT !.phase = phase, !.pk = pk, !.row = row, !.both = both,
                        !.sync = "yes", !.term = row.term, !.rows = rows]
  <2>1. /\ Move(w, next) /\ UNCHANGED <<price, serial, raced>>
        /\ Keyed(KeyOf(row)) \subseteq {pk}
    BY <1>1 DEF SubmitPrice, Begin, list
  <2>2. RowShaped(row)
    BY LockedShaped
  <2>3. Len(rows) \in Nat
    OBVIOUS
  <2>4. /\ phase = "overwrite" => rows = <<>>
        /\ phase \in {"sibling", "insert"} => rows = <<row>> /\ pk = 0
    OBVIOUS
  <2> HIDE DEF row, phase, rows
  <2>5. /\ Shaped(next) /\ next.phase = phase /\ next.rows = rows /\ next.pk = pk
        /\ next.row = row
    BY DEF Shaped, NoJob
  <2>6. phase \in {"sibling", "insert"} => FreeRows(rows)
    <3> SUFFICES ASSUME phase \in {"sibling", "insert"} PROVE FreeRows(rows)
      OBVIOUS
    <3>1. Keyed(KeyOf(row)) = {}
      BY <2>1, <2>4, PricingAssumption DEF Keyed, Pk
    <3> QED
      BY <2>4, <3>1 DEF FreeRows
  <2> HIDE DEF next
  <2>7. Apart(next)
    BY <2>1, <2>2, <2>3, <2>4, <2>5, <2>6 DEF Apart
  <2> QED
    BY <2>1, <2>5, <2>7, MoveApart
<1>2. ASSUME NEW w \in Worker, NEW t, NEW active, GenerateTerm(w, t, active)
      PROVE  TwinInv'
  <2> DEFINE pupils == {s \in active : place[s].session = SessionOf[t]}
             next == [NoJob EXCEPT !.phase = "term", !.term = t, !.pupils = pupils]
  <2>1. Move(w, next) /\ UNCHANGED <<price, serial, raced>>
    BY <1>2 DEF GenerateTerm, Begin, list
  <2> HIDE DEF pupils
  <2>2. Shaped(next) /\ next.phase = "term" /\ next.rows = <<>>
    BY DEF Shaped, NoJob
  <2> HIDE DEF next
  <2>3. Apart(next)
    BY <2>2 DEF Apart
  <2> QED
    BY <2>1, <2>2, <2>3, MoveApart
<1>3. ASSUME NEW w \in Worker, NEW t, NEW u, CopyTerm(w, u, t)
      PROVE  TwinInv'
  <2> DEFINE copies == {price[p] : p \in {p \in Pk : Live(p) /\ price[p].term = u}}
             next == [NoJob EXCEPT !.phase = "copy", !.term = t, !.copies = copies]
  <2>1. Move(w, next) /\ UNCHANGED <<price, serial, raced>>
    BY <1>3 DEF CopyTerm, Begin, list
  <2> HIDE DEF copies
  <2>2. Shaped(next) /\ next.phase = "copy" /\ next.rows = <<>>
    BY DEF Shaped, NoJob
  <2> HIDE DEF next
  <2>3. Apart(next)
    BY <2>2 DEF Apart
  <2> QED
    BY <2>1, <2>2, <2>3, MoveApart
<1>4. ASSUME NEW w \in Worker, NEW p, NEW target, Promote(w, p, target)
      PROVE  TwinInv'
  <2> DEFINE row == [price[p] EXCEPT !.scope = target.scope, !.class = target.class,
                                     !.level = target.level, !.days = Day]
             next == [NoJob EXCEPT !.phase = "insert", !.rows = <<row>>]
  <2>1. /\ Move(w, next) /\ UNCHANGED <<price, serial, raced>>
        /\ Keyed(KeyOf(row)) = {}
    BY <1>4 DEF Promote, Begin, list
  <2> HIDE DEF row
  <2>2. Shaped(next) /\ next.phase = "insert" /\ next.rows = <<row>>
    BY DEF Shaped, NoJob
  <2> HIDE DEF next
  <2>3. Apart(next)
    BY <2>1, <2>2 DEF Apart, FreeRows
  <2> QED
    BY <2>1, <2>2, <2>3, MoveApart
<1> QED
  BY <1>1, <1>2, <1>3, <1>4 DEF Request

LEMMA DeleteApart ==
  ASSUME TwinInv, NEW p \in Pk, DeletePrice(p)
  PROVE  TwinInv'
<1>1. /\ price' = [price EXCEPT ![p] = NoRow] /\ UNCHANGED <<serial, raced>>
      /\ job' = [o \in Worker |-> [job[o] EXCEPT !.clean = "no", !.alone = "no"]]
  BY DEF DeletePrice
<1>2. \A v \in Worker : Shaped(job[v])' /\ Apart(job[v])'
  BY <1>1, OthersApart DEF TwinInv
<1>3. JobsApart'
  BY <1>1, <1>2 DEF JobsApart
<1>4. PriceList'
  BY <1>1 DEF TwinInv, PriceList
<1>5. \A q \in Pk : price'[q] \in {price[q], NoRow}
  BY <1>1 DEF TwinInv, PriceList
<1>6. ASSUME NEW q \in Pk, NEW r \in Pk, q # r, price'[q] # NoRow, price'[r] # NoRow,
             KeyOf(price'[q]) = KeyOf(price'[r])
      PROVE  KeyOf(price'[q]) \in raced'
  <2>1. price'[q] = price[q] /\ price'[r] = price[r]
    BY <1>5, <1>6
  <2>2. KeyOf(price[q]) \in raced
    BY <1>6, <2>1 DEF TwinInv, NoTwins, Live
  <2>3. raced' = raced
    BY <1>1
  <2>4. KeyOf(price'[q]) = KeyOf(price[q])
    BY <2>1
  <2> QED
    BY <2>2, <2>3, <2>4
<1>7. NoTwins'
  BY <1>6 DEF NoTwins, Live, KeyOf
<1> QED
  BY <1>3, <1>4, <1>7 DEF TwinInv

LEMMA WorkApart ==
  ASSUME TwinInv, NEW w \in Worker, Work(w)
  PROVE  TwinInv'
<1>1. ASSUME NEW k, GenerateClass(w, k)
      PROVE  TwinInv'
  BY <1>1, BillingApart DEF GenerateClass, list
<1>2. ASSUME NEW k, SyncClass(w, k)
      PROVE  TwinInv'
  BY <1>2, BillingApart DEF SyncClass, list
<1>3. CASE Done(w)
  BY <1>3, BillingApart DEF Done, list
<1>4. ASSUME NEW s, GenerateStudent(w, s)
      PROVE  TwinInv'
  BY <1>4, BillingApart DEF GenerateStudent, list
<1> QED
  BY <1>1, <1>2, <1>3, <1>4, OverwriteApart, InsertApart, ReadSiblingApart, CopyRowApart DEF Work

LEMMA ChangeApart ==
  ASSUME TwinInv, Change
  PROVE  TwinInv'
<1>1. CASE \E p \in Pk : DeletePrice(p)
  BY <1>1, DeleteApart
<1>2. ASSUME NEW c, NEW form, EditCategory(c, form)
      PROVE  TwinInv'
  BY <1>2, AtOnceApart DEF EditCategory, list
<1>3. ASSUME NEW s, NEW k, NEW session, NEW form, Enrol(s, k, session, form)
      PROVE  TwinInv'
  BY <1>3, AtOnceApart DEF Enrol, list
<1>4. ASSUME NEW s, NEW t, CheckoutBundle(s, t)
      PROVE  TwinInv'
  BY <1>4, AtOnceApart DEF CheckoutBundle, list
<1>5. ASSUME NEW s, NEW t, NEW c, Checkout(s, t, c)
      PROVE  TwinInv'
  BY <1>5, AtOnceApart DEF Checkout, list
<1>6. ASSUME NEW students, NEW terms, Reset(students, terms)
      PROVE  TwinInv'
  BY <1>6, AtOnceApart DEF Reset, list
<1>7. ASSUME NEW s, NEW form, NEW t, RecordPayment(s, form, t)
      PROVE  TwinInv'
  BY <1>7, AtOnceApart DEF RecordPayment, list
<1>8. CASE NextDay
  BY <1>8, AtOnceApart DEF NextDay, list
<1>9. ASSUME NEW t, SetCurrentTerm(t)
      PROVE  TwinInv'
  BY <1>9, AtOnceApart DEF SetCurrentTerm, list
<1> QED
  BY <1>1, <1>2, <1>3, <1>4, <1>5, <1>6, <1>7, <1>8, <1>9 DEF Change

LEMMA InitApart == Init => TwinInv
<1> SUFFICES ASSUME Init PROVE TwinInv
  OBVIOUS
<1>1. PICK first \in Table0 :
        /\ price = [p \in Pk |-> IF p <= Len(first) THEN first[p] ELSE NoRow]
        /\ serial = Len(first)
  BY DEF Init
<1>2. first \in Seq(Row)
  BY PricingAssumption
<1>3. PriceList
  BY <1>1, <1>2 DEF PriceList
<1>4. JobsApart
  BY IdleApart DEF Init, JobsApart
<1>5. ASSUME NEW p \in Pk, NEW q \in Pk, p # q, Live(p), Live(q)
      PROVE  KeyOf(price[p]) # KeyOf(price[q])
  <2>1. /\ p <= Len(first) /\ price[p] = first[p]
        /\ q <= Len(first) /\ price[q] = first[q]
    BY <1>1, <1>5 DEF Live
  <2>2. p \in DOMAIN first /\ q \in DOMAIN first
    BY <1>2, <2>1, PricingAssumption DEF Pk
  <2> QED
    BY <1>5, <2>1, <2>2, TableAssumption
<1>6. NoTwins
  BY <1>5 DEF NoTwins
<1> QED
  BY <1>3, <1>4, <1>6 DEF TwinInv

\* Two prices with one key, which no unique index keeps apart when the class or the
\* term is NULL, appear only where another request wrote prices between a request's
\* check and its insert (_validate_unique, the copy and the promotion).
THEOREM PricesStayApart == Spec => []NoTwins
<1>1. TwinInv /\ [Next]_vars => TwinInv'
  <2>1. CASE UNCHANGED vars
    <3>1. UNCHANGED <<price, serial, raced>> /\ job' = job
      BY <2>1 DEF vars, list
    <3>2. \A j : Apart(j)' = Apart(j)
      BY <3>1 DEF Apart, FreeRows, Keyed, Live
    <3> QED
      BY <3>1, <3>2 DEF TwinInv, PriceList, JobsApart, NoTwins, Live, Shaped, NoJob
  <2>2. CASE Next /\ TwinInv
    BY <2>2, WorkApart, RequestApart, ChangeApart DEF Next
  <2> QED
    BY <2>1, <2>2
<1>2. TwinInv => NoTwins
  BY DEF TwinInv
<1> QED
  BY InitApart, <1>1, <1>2, PTL DEF Spec

-----------------------------------------------------------------------------
(* The types, of what the requests hold too                                  *)

YesNo == {"yes", "no"}

JobRecord ==
  [phase : {"idle", "overwrite", "sibling", "insert", "copy", "generate", "sync", "answer",
            "term"},
   pk : Pk \cup {0}, row : Row \cup {NoRow}, both : YesNo, rows : Seq(Row),
   copies : SUBSET Row, term : Term \cup {NoTerm}, sync : YesNo, todo : SUBSET Class,
   pupils : SUBSET Student, clean : YesNo, alone : YesNo]

\* What a request holds fits the statement it stands at.
JobFits(j) ==
  /\ j.phase = "overwrite" => j.pk \in Pk
  /\ j.phase \in {"overwrite", "sibling"} => j.row \in Row
  /\ j.sync = "yes" => j.row \in Row /\ j.term = j.row.term /\ j.copies = {}
  /\ j.phase \in {"generate", "sync", "term"} \/ j.copies # {} => j.term \in Term
  /\ j.phase \in {"generate", "sync"} => j.sync = "yes"

JobsTyped == job \in [Worker -> JobRecord] /\ \A w \in Worker : JobFits(job[w])

TypeInv == PricingTypeOK /\ JobsTyped

LEMMA TermsAre == Term = 1 .. Len(SessionOf) /\ 1 \in Term /\ NoTerm \notin Term
BY PricingAssumption DEF Term, NoTerm

LEMMA IdleFits == NoJob \in JobRecord /\ JobFits(NoJob)
<1>1. <<>> \in Seq(Row)
  OBVIOUS
<1> QED
  BY <1>1 DEF NoJob, JobRecord, JobFits, YesNo

LEMMA MoveTyped ==
  ASSUME TypeInv, NEW w \in Worker, NEW next \in JobRecord, JobFits(next), Move(w, next)
  PROVE  JobsTyped'
BY DEF TypeInv, JobsTyped, Move, JobFits

LEMMA AtOnceTyped ==
  ASSUME TypeInv, AtOnce
  PROVE  JobsTyped' /\ started' = started /\ changes' \in 0 .. MaxChanges
<1>1. \A w \in Worker : job[w] \in JobRecord /\ JobFits(job[w])
  BY DEF TypeInv, JobsTyped
<1>2. \A j \in JobRecord :
        JobFits(j) => [j EXCEPT !.clean = "no"] \in JobRecord /\ JobFits([j EXCEPT !.clean = "no"])
  BY DEF JobRecord, JobFits, YesNo
<1>3. JobsTyped'
  BY <1>1, <1>2 DEF AtOnce, JobsTyped
<1> QED
  BY <1>3, PricingAssumption DEF AtOnce, TypeInv, PricingTypeOK

LEMMA StirredFits ==
  ASSUME NEW j \in JobRecord, JobFits(j)
  PROVE  /\ [j EXCEPT !.clean = "no", !.alone = "no"] \in JobRecord
         /\ JobFits([j EXCEPT !.clean = "no", !.alone = "no"])
<1> DEFINE n == [j EXCEPT !.clean = "no", !.alone = "no"]
<1>1. "no" \in YesNo
  BY DEF YesNo
<1>2. n \in JobRecord
  BY <1>1 DEF JobRecord
<1>3. /\ n.phase = j.phase /\ n.pk = j.pk /\ n.row = j.row /\ n.sync = j.sync
      /\ n.term = j.term /\ n.copies = j.copies
  BY DEF JobRecord
<1> HIDE DEF n
<1>4. JobFits(n)
  BY <1>3 DEF JobFits
<1> QED
  BY <1>2, <1>4 DEF n

LEMMA StirTyped ==
  ASSUME TypeInv, NEW w \in Worker, NEW next \in JobRecord, JobFits(next),
         StirPrices(w, next)
  PROVE  JobsTyped'
<1>1. \A v \in Worker : job[v] \in JobRecord /\ JobFits(job[v])
  BY DEF TypeInv, JobsTyped
<1> QED
  BY <1>1, StirredFits DEF StirPrices, JobsTyped

\* Prices that are there are rows.
LEMMA LiveRow ==
  ASSUME TypeInv, NEW p \in Pk, Live(p)
  PROVE  price[p] \in Row /\ LineOf(p) \in Line
<1>1. price[p] \in Row
  BY DEF TypeInv, PricingTypeOK, Live
<1>2. price[p].cat \in Category /\ price[p].amount \in Nat
  BY <1>1 DEF Row
<1>3. category[price[p].cat].cycle \in {"ONE_TIME", "PER_TERM"}
  BY <1>2 DEF TypeInv, PricingTypeOK, CategoryRow
<1> QED
  BY <1>1, <1>2, <1>3 DEF LineOf, Line

LEMMA CoveredType ==
  ASSUME NEW r \in Row
  PROVE  Covered(r) \in SUBSET Class /\ (Covered(r) # {} => r.term \in Term)
BY DEF Covered, Row

LEMMA TwinType ==
  ASSUME NEW r \in Row
  PROVE  Twin(r) \in Row
BY DEF Twin, Row

LEMMA CopiedType ==
  ASSUME NEW r \in Row, NEW t \in Term
  PROVE  [r EXCEPT !.term = t, !.days = Day] \in Row
<1> DEFINE T == Term \cup {NoTerm}
           D == SUBSET Day
<1>1. t \in T /\ Day \in D
  OBVIOUS
<1>2. Row = [scope : {"CLASS", "LEVEL", "SCHOOL_WIDE"}, class : Class \cup {NoClass},
             level : Level, term : T, cat : Category,
             type : {"NEW", "RETURNING", "ALL"}, amount : Nat, days : D]
  BY DEF Row
<1> HIDE DEF T, D
<1> QED
  BY <1>1, <1>2

LEMMA LockedType ==
  ASSUME TypeInv, NEW form \in Form
  PROVE  Locked(form) \in Row
<1>1. form \in Row
  BY PricingAssumption
<1>2. now \in Term
  BY DEF TypeInv, PricingTypeOK
<1> QED
  BY <1>1, <1>2 DEF Locked, Row

\* What comes after the last row.
LEMMA SavedFits ==
  ASSUME NEW j \in JobRecord, JobFits(j)
  PROVE  Saved(j) \in JobRecord /\ JobFits(Saved(j))
<1>1. <<>> \in Seq(Row)
  OBVIOUS
<1>2. CASE j.copies # {}
  <2>1. Saved(j) = [j EXCEPT !.phase = "copy", !.rows = <<>>]
    BY <1>2 DEF Saved
  <2> QED
    BY <1>1, <1>2, <2>1 DEF JobRecord, JobFits
<1>3. CASE j.copies = {} /\ j.sync = "yes" /\ Covered(j.row) # {}
  <2> DEFINE todo == Covered(j.row)
  <2>1. Saved(j) = [j EXCEPT !.phase = "generate", !.rows = <<>>, !.todo = todo]
    BY <1>3 DEF Saved
  <2>2. j.row \in Row /\ todo \in SUBSET Class /\ j.term \in Term
    BY <1>3, CoveredType DEF JobFits
  <2> HIDE DEF todo
  <2> QED
    BY <1>1, <1>3, <2>1, <2>2 DEF JobRecord, JobFits
<1>4. CASE j.copies = {} /\ ~ (j.sync = "yes" /\ Covered(j.row) # {})
  BY <1>4, IdleFits DEF Saved
<1> QED
  BY <1>2, <1>3, <1>4

LEMMA OverwriteTyped ==
  ASSUME TypeInv, NEW w \in Worker, Overwrite(w)
  PROVE  TypeInv'
<1> DEFINE j == job[w]
           next == IF j.both = "yes" THEN [j EXCEPT !.phase = "sibling"] ELSE Saved(j)
<1>1. j \in JobRecord /\ JobFits(j) /\ j.phase = "overwrite" /\ j.row \in Row /\ j.pk \in Pk
      /\ UNCHANGED <<serial, category, people, money, clock, counts, wentBack>>
  BY DEF Overwrite, TypeInv, JobsTyped, JobFits
<1>2. CASE Move(w, NoJob) /\ UNCHANGED <<price, raced>>
  BY <1>1, <1>2, IdleFits, MoveTyped DEF TypeInv, PricingTypeOK, people, money, clock, counts
<1>3. CASE price' = [price EXCEPT ![j.pk] = j.row] /\ StirPrices(w, next)
  <2>1. next \in JobRecord /\ JobFits(next)
    BY <1>1, SavedFits DEF JobRecord, JobFits
  <2> HIDE DEF next
  <2>2. price' \in [Pk -> Row \cup {NoRow}]
    BY <1>1, <1>3 DEF TypeInv, PricingTypeOK
  <2> QED
    BY <1>1, <1>3, <2>1, <2>2, StirTyped
       DEF TypeInv, PricingTypeOK, people, money, clock, counts
<1> QED
  BY <1>2, <1>3 DEF Overwrite

LEMMA ReadSiblingTyped ==
  ASSUME TypeInv, NEW w \in Worker, ReadSibling(w)
  PROVE  TypeInv'
<1> DEFINE j == job[w]
           twins == Keyed(KeyOf(Twin(j.row)))
           rows == IF twins = {} THEN Append(j.rows, Twin(j.row)) ELSE j.rows
           next == [j EXCEPT !.phase = "insert", !.rows = rows]
<1>1. j \in JobRecord /\ JobFits(j) /\ j.row \in Row
      /\ UNCHANGED <<list, category, people, money, clock, counts, wentBack>>
      /\ (Move(w, NoJob) \/ Move(w, next))
  BY DEF ReadSibling, TypeInv, JobsTyped, JobFits
<1>2. rows \in Seq(Row)
  BY <1>1, TwinType DEF JobRecord
<1> HIDE DEF rows
<1>3. next \in JobRecord /\ JobFits(next)
  <2>1. next \in JobRecord
    BY <1>1, <1>2 DEF JobRecord
  <2>2. /\ next.phase = "insert" /\ next.sync = j.sync /\ next.row = j.row
        /\ next.term = j.term /\ next.copies = j.copies
    BY <1>1 DEF JobRecord
  <2> HIDE DEF next
  <2> QED
    BY <1>1, <2>1, <2>2 DEF JobFits
<1> HIDE DEF next
<1>4. JobsTyped'
  BY <1>1, <1>3, IdleFits, MoveTyped
<1> QED
  BY <1>1, <1>4 DEF TypeInv, PricingTypeOK, list, people, money, clock, counts

LEMMA InsertTyped ==
  ASSUME TypeInv, NEW w \in Worker, Insert(w)
  PROVE  TypeInv'
<1> DEFINE j == job[w]
<1>1. j \in JobRecord /\ JobFits(j) /\ serial + Len(j.rows) <= MaxPk
      /\ UNCHANGED <<category, people, money, clock, counts, wentBack>>
  BY DEF Insert, TypeInv, JobsTyped
<1>2. CASE Move(w, NoJob) /\ UNCHANGED <<list, raced>>
  BY <1>1, <1>2, IdleFits, MoveTyped DEF TypeInv, PricingTypeOK, list, people, money, clock, counts
<1>3. CASE /\ price' = [p \in Pk |-> IF p - serial \in DOMAIN j.rows
                                     THEN j.rows[p - serial] ELSE price[p]]
           /\ serial' = serial + Len(j.rows)
           /\ StirPrices(w, Saved(j))
  <2>1. j.rows \in Seq(Row) /\ Len(j.rows) \in Nat
        /\ \A i \in DOMAIN j.rows : j.rows[i] \in Row
    BY <1>1 DEF JobRecord
  <2>2. price' \in [Pk -> Row \cup {NoRow}]
    BY <1>3, <2>1 DEF TypeInv, PricingTypeOK
  <2>3. serial' \in 0 .. MaxPk
    BY <1>1, <1>3, <2>1, PricingAssumption DEF TypeInv, PricingTypeOK
  <2>4. JobsTyped'
    BY <1>1, <1>3, SavedFits, StirTyped
  <2> QED
    BY <1>1, <2>2, <2>3, <2>4 DEF TypeInv, PricingTypeOK, people, money, clock, counts
<1> QED
  BY <1>2, <1>3 DEF Insert

LEMMA RestFits ==
  ASSUME NEW j \in JobRecord, JobFits(j), NEW r
  PROVE  LET rest == [j EXCEPT !.copies = @ \ {r}, !.clean = "yes", !.alone = "yes"]
         IN  rest \in JobRecord /\ JobFits(rest)
<1> DEFINE copies == j.copies \ {r}
           rest == [j EXCEPT !.copies = copies, !.clean = "yes", !.alone = "yes"]
<1>1. copies \in SUBSET Row /\ (copies # {} => j.copies # {})
      /\ (j.copies = {} => copies = {})
  BY DEF JobRecord
<1> HIDE DEF copies
<1>2. rest \in JobRecord
  BY <1>1 DEF JobRecord, YesNo
<1>3. /\ rest.phase = j.phase /\ rest.pk = j.pk /\ rest.row = j.row /\ rest.sync = j.sync
      /\ rest.term = j.term /\ rest.copies = copies
  BY DEF JobRecord
<1> HIDE DEF rest
<1>4. JobFits(rest)
  BY <1>1, <1>3 DEF JobFits
<1> QED
  BY <1>2, <1>4 DEF rest, copies

LEMMA CopyRowTyped ==
  ASSUME TypeInv, NEW w \in Worker, NEW r \in job[w].copies, CopyRow(w, r)
  PROVE  TypeInv'
<1> DEFINE j == job[w]
           copy == [r EXCEPT !.term = j.term, !.days = Day]
           rest == [j EXCEPT !.copies = @ \ {r}, !.clean = "yes", !.alone = "yes"]
           next == [rest EXCEPT !.phase = "insert", !.rows = <<copy>>]
<1>1. j \in JobRecord /\ JobFits(j) /\ j.phase = "copy" /\ r \in j.copies
      /\ UNCHANGED <<list, category, people, money, clock, counts, wentBack>>
      /\ (Move(w, Saved(rest)) \/ Move(w, next))
  BY DEF CopyRow, TypeInv, JobsTyped
<1>2. r \in Row /\ j.term \in Term
  BY <1>1 DEF JobFits, JobRecord
<1>3. <<copy>> \in Seq(Row)
  <2>1. copy \in Row
    BY <1>2, CopiedType
  <2> HIDE DEF copy
  <2> QED
    BY <2>1
<1> HIDE DEF copy
<1>4. rest \in JobRecord /\ JobFits(rest)
  BY <1>1, RestFits
<1> HIDE DEF rest
<1>5. next \in JobRecord
  BY <1>3, <1>4 DEF JobRecord
<1>6. /\ next.phase = "insert" /\ next.sync = rest.sync /\ next.row = rest.row
      /\ next.term = rest.term /\ next.copies = rest.copies
  BY <1>4 DEF JobRecord
<1> HIDE DEF next
<1>7. JobFits(next)
  BY <1>4, <1>6 DEF JobFits
<1>8. Saved(rest) \in JobRecord /\ JobFits(Saved(rest))
  BY <1>4, SavedFits
<1>9. JobsTyped'
  BY <1>1, <1>5, <1>7, <1>8, MoveTyped
<1> QED
  BY <1>1, <1>9 DEF TypeInv, PricingTypeOK, list, people, money, clock, counts

LEMMA RequestTyped ==
  ASSUME TypeInv, Request
  PROVE  TypeInv'
<1>1. ASSUME NEW w \in Worker, NEW next \in JobRecord, JobFits(next), Begin(w, next),
             UNCHANGED <<list, category, people, money, clock, raced, wentBack>>
      PROVE  TypeInv'
  <2>1. JobsTyped'
    BY <1>1, MoveTyped DEF Begin
  <2>2. started' \in 0 .. MaxRequests /\ changes' = changes
    BY <1>1, PricingAssumption DEF Begin, TypeInv, PricingTypeOK
  <2> QED
    BY <1>1, <2>1, <2>2 DEF TypeInv, PricingTypeOK, list, people, money, clock
<1>2. ASSUME NEW w \in Worker, NEW pk \in {0} \cup Pk, NEW form \in Form,
             NEW both \in {"yes", "no"}, SubmitPrice(w, pk, form, both)
      PROVE  TypeInv'
  <2> DEFINE row == Locked(form)
             phase == IF pk # 0 THEN "overwrite"
                      ELSE IF both = "yes" THEN "sibling" ELSE "insert"
             rows == IF pk = 0 THEN <<row>> ELSE <<>>
             next == [NoJob EXCEPT !.phase = phase, !.pk = pk, !.row = row, !.both = both,
                        !.sync = "yes", !.term = row.term, !.rows = rows]
  <2>1. Begin(w, next) /\ UNCHANGED <<list, category, people, money, clock, raced, wentBack>>
    BY <1>2 DEF SubmitPrice
  <2>2. row \in Row
    BY LockedType
  <2> HIDE DEF row
  <2>3. rows \in Seq(Row) /\ row.term \in Term \cup {NoTerm}
    <3>1. <<>> \in Seq(Row) /\ <<row>> \in Seq(Row)
      BY <2>2
    <3> QED
      BY <2>2, <3>1 DEF Row
  <2>4. phase \in {"overwrite", "sibling", "insert"} /\ (phase = "overwrite" => pk \in Pk)
    OBVIOUS
  <2> HIDE DEF phase, rows
  <2>5. next \in JobRecord
    BY <2>2, <2>3, <2>4, IdleFits DEF JobRecord, YesNo
  <2>6. /\ next.phase = phase /\ next.pk = pk /\ next.row = row /\ next.sync = "yes"
        /\ next.term = row.term /\ next.copies = {}
    BY DEF NoJob
  <2> HIDE DEF next
  <2>7. JobFits(next)
    BY <2>2, <2>4, <2>6 DEF JobFits
  <2> QED
    BY <1>1, <2>1, <2>5, <2>7
<1>3. ASSUME NEW w \in Worker, NEW t \in Term, NEW active \in SUBSET Student,
             GenerateTerm(w, t, active)
      PROVE  TypeInv'
  <2> DEFINE pupils == {s \in active : place[s].session = SessionOf[t]}
             next == [NoJob EXCEPT !.phase = "term", !.term = t, !.pupils = pupils]
  <2>1. Begin(w, next) /\ UNCHANGED <<list, category, people, money, clock, raced, wentBack>>
    BY <1>3 DEF GenerateTerm
  <2>2. next \in JobRecord
    BY IdleFits DEF JobRecord
  <2> HIDE DEF pupils
  <2>3. JobFits(next)
    BY DEF JobFits, NoJob
  <2> HIDE DEF next
  <2> QED
    BY <1>1, <2>1, <2>2, <2>3
<1>4. ASSUME NEW w \in Worker, NEW t \in Term, NEW u \in Term, CopyTerm(w, u, t)
      PROVE  TypeInv'
  <2> DEFINE copies == {price[p] : p \in {p \in Pk : Live(p) /\ price[p].term = u}}
             next == [NoJob EXCEPT !.phase = "copy", !.term = t, !.copies = copies]
  <2>1. Begin(w, next) /\ UNCHANGED <<list, category, people, money, clock, raced, wentBack>>
    BY <1>4 DEF CopyTerm
  <2>2. copies \in SUBSET Row
    BY LiveRow
  <2> HIDE DEF copies
  <2>3. next \in JobRecord
    BY <2>2, IdleFits DEF JobRecord
  <2>4. JobFits(next)
    BY DEF JobFits, NoJob
  <2> HIDE DEF next
  <2> QED
    BY <1>1, <2>1, <2>3, <2>4
<1>5. ASSUME NEW w \in Worker, NEW p \in Pk, NEW target \in Target, Promote(w, p, target)
      PROVE  TypeInv'
  <2> DEFINE row == [price[p] EXCEPT !.scope = target.scope, !.class = target.class,
                                     !.level = target.level, !.days = Day]
             next == [NoJob EXCEPT !.phase = "insert", !.rows = <<row>>]
  <2>1. Begin(w, next) /\ UNCHANGED <<list, category, people, money, clock, raced, wentBack>>
    BY <1>5 DEF Promote
  <2>2. <<row>> \in Seq(Row)
    <3>1. /\ target.scope \in {"CLASS", "LEVEL"} /\ target.class \in Class \cup {NoClass}
          /\ target.level \in Level
      BY PricingAssumption
    <3>2. price[p] \in Row
      BY <1>5, LiveRow DEF Promote
    <3>3. row \in Row
      BY <3>1, <3>2 DEF Row
    <3> HIDE DEF row
    <3> QED
      BY <3>3
  <2> HIDE DEF row
  <2>3. next \in JobRecord
    BY <2>2, IdleFits DEF JobRecord
  <2>4. JobFits(next)
    BY DEF JobFits, NoJob
  <2> HIDE DEF next
  <2> QED
    BY <1>1, <2>1, <2>3, <2>4
<1> QED
  BY <1>2, <1>3, <1>4, <1>5 DEF Request

\* What is charged are prices that are there, and what is billed for them are lines.
LEMMA ChargedLines ==
  ASSUME TypeInv, NEW s, NEW k, NEW t, NEW type
  PROVE  /\ \A p \in ChargedWith(s, k, t, type) : p \in Pk /\ Live(p)
         /\ {LineOf(p) : p \in ChargedWith(s, k, t, type)} \in SUBSET Line
<1>1. \A p \in ChargedWith(s, k, t, type) : p \in Pk /\ Live(p)
  BY DEF ChargedWith, Resolve, Eligible
<1> QED
  BY <1>1, LiveRow

LEMMA BillThemTyped ==
  ASSUME TypeInv, NEW pupils, NEW k, NEW t \in Term, BillThem(pupils, k, t)
  PROVE  bill' \in [Student -> [Term -> (SUBSET Line) \cup {NoRow}]]
<1> DEFINE lines(s) == {LineOf(p) : p \in Charged(s, k, t)}
           billed(s) == LET due == IF s \in pupils THEN Charged(s, k, t) ELSE {} IN
                        IF due = {} THEN bill[s]
                        ELSE [bill[s] EXCEPT ![t] = {LineOf(p) : p \in due}]
<1>1. bill \in [Student -> [Term -> (SUBSET Line) \cup {NoRow}]]
  BY DEF TypeInv, PricingTypeOK
<1>2. \A s \in Student : lines(s) \in SUBSET Line
  BY ChargedLines DEF Charged
<1>3. \A s \in Student : billed(s) = bill[s] \/ billed(s) = [bill[s] EXCEPT ![t] = lines(s)]
  OBVIOUS
<1>4. bill' = [s \in Student |-> billed(s)]
  BY DEF BillThem
<1> HIDE DEF lines, billed
<1>5. \A s \in Student : billed(s) \in [Term -> (SUBSET Line) \cup {NoRow}]
  BY <1>1, <1>2, <1>3
<1> QED
  BY <1>4, <1>5

LEMMA NextClassFits ==
  ASSUME NEW j \in JobRecord, JobFits(j), NEW k \in j.todo,
         j.phase \in {"generate", "sync"}
  PROVE  NextClass(j, k) \in JobRecord /\ JobFits(NextClass(j, k))
<1> DEFINE rest == j.todo \ {k}
           all == Covered(j.row)
<1>1. CASE j.todo # {k}
  <2>1. rest \in SUBSET Class
    BY DEF JobRecord
  <2>2. NextClass(j, k) = [j EXCEPT !.todo = rest]
    BY <1>1 DEF NextClass
  <2> HIDE DEF rest
  <2> QED
    BY <2>1, <2>2 DEF JobRecord, JobFits
<1>2. CASE j.todo = {k} /\ j.phase = "generate"
  <2>1. all \in SUBSET Class
    BY <1>2, CoveredType DEF JobFits
  <2>2. NextClass(j, k) = [j EXCEPT !.phase = "sync", !.todo = all]
    BY <1>2 DEF NextClass
  <2> HIDE DEF all
  <2> QED
    BY <1>2, <2>1, <2>2 DEF JobRecord, JobFits
<1>3. CASE j.todo = {k} /\ j.phase # "generate"
  <2>1. NextClass(j, k) = [j EXCEPT !.phase = "answer", !.todo = {}]
    BY <1>3 DEF NextClass
  <2> QED
    BY <2>1 DEF JobRecord, JobFits
<1> QED
  BY <1>1, <1>2, <1>3

LEMMA BillingTyped ==
  ASSUME TypeInv, NEW w \in Worker, NEW k \in job[w].todo,
         GenerateClass(w, k) \/ SyncClass(w, k)
  PROVE  TypeInv'
<1> DEFINE j == job[w]
<1>1. /\ j \in JobRecord /\ JobFits(j) /\ j.phase \in {"generate", "sync"}
      /\ Move(w, NextClass(j, k))
      /\ UNCHANGED <<list, category, people, paid, clock, counts, raced, wentBack>>
      /\ \E pupils : BillThem(pupils, k, j.term)
  BY DEF GenerateClass, SyncClass, TypeInv, JobsTyped
<1>2. j.term \in Term
  BY <1>1 DEF JobFits
<1>3. bill' \in [Student -> [Term -> (SUBSET Line) \cup {NoRow}]]
  BY <1>1, <1>2, BillThemTyped
<1>4. JobsTyped'
  BY <1>1, NextClassFits, MoveTyped
<1> QED
  BY <1>1, <1>3, <1>4 DEF TypeInv, PricingTypeOK, list, people, clock, counts

LEMMA WorkTyped ==
  ASSUME TypeInv, NEW w \in Worker, Work(w)
  PROVE  TypeInv'
<1>1. CASE Done(w)
  <2>1. JobsTyped'
    BY <1>1, IdleFits, MoveTyped DEF Done
  <2> QED
    BY <1>1, <2>1 DEF Done, TypeInv, PricingTypeOK, list, people, money, clock, counts
<1>2. ASSUME NEW s \in job[w].pupils, GenerateStudent(w, s)
      PROVE  TypeInv'
  <2> DEFINE j == job[w]
             next == [j EXCEPT !.pupils = @ \ {s}]
  <2>1. /\ j \in JobRecord /\ JobFits(j) /\ j.phase = "term" /\ Move(w, next)
        /\ UNCHANGED <<list, category, people, paid, clock, counts, raced, wentBack>>
        /\ \E pupils, k : BillThem(pupils, k, j.term)
    BY <1>2 DEF GenerateStudent, TypeInv, JobsTyped
  <2>2. bill' \in [Student -> [Term -> (SUBSET Line) \cup {NoRow}]]
    BY <2>1, BillThemTyped DEF JobFits
  <2>3. next \in JobRecord /\ JobFits(next)
    BY <2>1 DEF JobRecord, JobFits
  <2> HIDE DEF next
  <2>4. JobsTyped'
    BY <2>1, <2>3, MoveTyped
  <2> QED
    BY <2>1, <2>2, <2>4 DEF TypeInv, PricingTypeOK, list, people, clock, counts
<1> QED
  BY <1>1, <1>2, OverwriteTyped, ReadSiblingTyped, InsertTyped, CopyRowTyped, BillingTyped DEF Work

\* Something else happens at once, and changes bills, payments or people.
LEMMA ChangeIsTyped ==
  ASSUME TypeInv, AtOnce, UNCHANGED list, category' \in [Category -> CategoryRow],
         place' \in [Student -> [class : Class, session : Session]],
         rolled' \in [Student -> SUBSET Session], registered' \subseteq Student,
         bill' \in [Student -> [Term -> (SUBSET Line) \cup {NoRow}]],
         paid' \subseteq Student \X Term, now' \in Term, today' \in Day,
         wentBack' \subseteq Student
  PROVE  TypeInv'
BY AtOnceTyped DEF TypeInv, PricingTypeOK, list

LEMMA AddLinesTyped ==
  ASSUME TypeInv, NEW s \in Student, NEW t \in Term, NEW prices,
         \A p \in prices : p \in Pk /\ Live(p), AddLines(s, t, prices)
  PROVE  bill' \in [Student -> [Term -> (SUBSET Line) \cup {NoRow}]]
<1> DEFINE added == {[cat |-> price[p].cat, amount |-> price[p].amount, cycle |-> "PER_TERM"] :
                       p \in {p \in prices : \A l \in Billed(s, t) : l.cat # price[p].cat}}
           new == Billed(s, t) \cup added
<1>1. bill \in [Student -> [Term -> (SUBSET Line) \cup {NoRow}]]
  BY DEF TypeInv, PricingTypeOK
<1>2. Billed(s, t) \in SUBSET Line
  <2>1. bill[s][t] \in SUBSET Line \/ bill[s][t] = NoRow
    BY <1>1
  <2> QED
    BY <2>1 DEF Billed
<1>3. added \in SUBSET Line
  <2>1. \A p \in prices : price[p] \in Row
    BY LiveRow
  <2> QED
    BY <2>1 DEF Row, Line
<1>4. bill' = [bill EXCEPT ![s][t] = new]
  BY DEF AddLines
<1>5. new \in SUBSET Line
  BY <1>2, <1>3
<1> HIDE DEF new
<1> QED
  BY <1>1, <1>4, <1>5

LEMMA ApplicableLive ==
  ASSUME NEW s, NEW t, NEW c, NEW p \in Applicable(s, t, c)
  PROVE  p \in Pk /\ Live(p)
BY DEF Applicable, Resolve, Eligible

LEMMA ChangeTyped ==
  ASSUME TypeInv, Change
  PROVE  TypeInv'
<1> USE DEF TypeInv, PricingTypeOK, people, money, clock
<1>1. CASE \E p \in Pk : DeletePrice(p)
  <2>1. PICK p \in Pk : DeletePrice(p)
    BY <1>1
  <2>2. \A v \in Worker : job[v] \in JobRecord /\ JobFits(job[v])
    BY DEF JobsTyped
  <2>3. JobsTyped'
    BY <2>1, <2>2, StirredFits DEF DeletePrice, JobsTyped
  <2>4. changes' \in 0 .. MaxChanges
    <3>1. changes \in 0 .. MaxChanges /\ MaxChanges \in Nat
      BY PricingAssumption
    <3>2. changes < MaxChanges /\ changes' = changes + 1
      BY <2>1 DEF DeletePrice
    <3> HIDE DEF TypeInv, PricingTypeOK
    <3> QED
      BY <3>1, <3>2
  <2>5. price' \in [Pk -> Row \cup {NoRow}]
    BY <2>1 DEF DeletePrice
  <2> QED
    BY <2>1, <2>3, <2>4, <2>5 DEF DeletePrice
<1>2. ASSUME NEW c \in Category, NEW form \in CategoryForm, EditCategory(c, form)
      PROVE  TypeInv'
  <2>1. category' \in [Category -> CategoryRow]
    BY <1>2, PricingAssumption DEF EditCategory
  <2> HIDE DEF TypeInv
  <2> QED
    BY <1>2, <2>1, ChangeIsTyped DEF EditCategory, TypeInv
<1>3. ASSUME NEW s \in Student, NEW k \in Class, NEW session \in Session, NEW form \in BOOLEAN,
             Enrol(s, k, session, form)
      PROVE  TypeInv'
  <2>1. /\ place' \in [Student -> [class : Class, session : Session]]
        /\ rolled' \in [Student -> SUBSET Session] /\ wentBack' \subseteq Student
    BY <1>3 DEF Enrol
  <2>2. bill' \in [Student -> [Term -> (SUBSET Line) \cup {NoRow}]]
    <3> DEFINE due == ChargedWith(s, k, now, TypeOf(s, session))
               lines == {LineOf(p) : p \in due}
    <3>1. UNCHANGED bill \/ bill' = [bill EXCEPT ![s][now] = IF due = {} THEN @ ELSE lines]
      BY <1>3 DEF Enrol
    <3>2. lines \in SUBSET Line
      BY ChargedLines
    <3>3. UNCHANGED bill \/ bill' = [bill EXCEPT ![s][now] = lines]
          \/ bill' = [bill EXCEPT ![s][now] = @]
      BY <3>1
    <3>4. bill \in [Student -> [Term -> (SUBSET Line) \cup {NoRow}]] /\ now \in Term
      OBVIOUS
    <3> HIDE DEF due, lines, TypeInv, PricingTypeOK
    <3>5. CASE UNCHANGED bill
      BY <3>4, <3>5
    <3>6. CASE bill' = [bill EXCEPT ![s][now] = lines]
      BY <3>2, <3>4, <3>6
    <3>7. CASE bill' = [bill EXCEPT ![s][now] = @]
      BY <3>4, <3>7
    <3> QED
      BY <3>3, <3>5, <3>6, <3>7
  <2> QED
    BY <1>3, <2>1, <2>2, ChangeIsTyped DEF Enrol
<1>4. ASSUME NEW s \in Student, NEW t \in Term, CheckoutBundle(s, t)
      PROVE  TypeInv'
  <2>1. PICK bundle \in [Offered(s, t) -> Pk] :
          /\ \A c \in DOMAIN bundle : bundle[c] \in Applicable(s, t, c)
          /\ AddLines(s, now, {bundle[c] : c \in DOMAIN bundle})
    BY <1>4 DEF CheckoutBundle
  <2>2. \A p \in {bundle[c] : c \in DOMAIN bundle} : p \in Pk /\ Live(p)
    BY <2>1, ApplicableLive
  <2>3. bill' \in [Student -> [Term -> (SUBSET Line) \cup {NoRow}]]
    BY <2>1, <2>2, AddLinesTyped
  <2> QED
    BY <1>4, <2>3, ChangeIsTyped DEF CheckoutBundle
<1>5. ASSUME NEW s \in Student, NEW t \in Term, NEW c \in Category, Checkout(s, t, c)
      PROVE  TypeInv'
  <2>1. PICK p \in Applicable(s, t, c) : AddLines(s, t, {p})
    BY <1>5 DEF Checkout
  <2>2. \A x \in {p} : x \in Pk /\ Live(x)
    BY ApplicableLive
  <2>3. bill' \in [Student -> [Term -> (SUBSET Line) \cup {NoRow}]]
    BY <2>1, <2>2, AddLinesTyped
  <2> QED
    BY <1>5, <2>3, ChangeIsTyped DEF Checkout
<1>6. ASSUME NEW students, NEW terms, Reset(students, terms)
      PROVE  TypeInv'
  <2>1. bill' \in [Student -> [Term -> (SUBSET Line) \cup {NoRow}]]
    BY <1>6 DEF Reset
  <2>2. paid' \subseteq Student \X Term
    BY <1>6 DEF Reset
  <2> QED
    BY <1>6, <2>1, <2>2, ChangeIsTyped DEF Reset
<1>7. ASSUME NEW s \in Student, NEW form \in BOOLEAN, NEW t \in Term \cup {NoTerm},
             RecordPayment(s, form, t)
      PROVE  TypeInv'
  <2>1. paid' \subseteq Student \X Term /\ registered' \subseteq Student
    BY <1>7 DEF RecordPayment
  <2> QED
    BY <1>7, <2>1, ChangeIsTyped DEF RecordPayment
<1>8. CASE NextDay
  BY <1>8, ChangeIsTyped DEF NextDay
<1>9. ASSUME NEW t \in Term, SetCurrentTerm(t)
      PROVE  TypeInv'
  BY <1>9, ChangeIsTyped DEF SetCurrentTerm
<1> QED
  BY <1>1, <1>2, <1>3, <1>4, <1>5, <1>6, <1>7, <1>8, <1>9 DEF Change

LEMMA InitTyped == Init => TypeInv
<1> SUFFICES ASSUME Init PROVE TypeInv
  OBVIOUS
<1>1. PICK first \in Table0 :
        /\ price = [p \in Pk |-> IF p <= Len(first) THEN first[p] ELSE NoRow]
        /\ serial = Len(first)
  BY DEF Init
<1>2. first \in Seq(Row) /\ Len(first) <= MaxPk /\ Len(first) \in Nat /\ MaxPk \in Nat
  BY PricingAssumption
<1>3. price \in [Pk -> Row \cup {NoRow}] /\ serial \in 0 .. MaxPk
  BY <1>1, <1>2 DEF Pk
<1>4. today \in Day
  BY PricingAssumption DEF Init
<1>5. now \in Term
  BY TermsAre DEF Init
<1>6. /\ place \in [Student -> [class : Class, session : Session]]
      /\ rolled \in [Student -> SUBSET Session]
  BY PricingAssumption DEF Init
<1>7. JobsTyped
  BY IdleFits DEF Init, JobsTyped
<1>8. started \in 0 .. MaxRequests /\ changes \in 0 .. MaxChanges
  BY PricingAssumption DEF Init
<1>9. bill \in [Student -> [Term -> (SUBSET Line) \cup {NoRow}]]
  BY DEF Init
<1>10. category \in [Category -> CategoryRow]
  BY PricingAssumption DEF Init
<1>11. registered \subseteq Student /\ paid \subseteq Student \X Term /\ wentBack \subseteq Student
  BY DEF Init
<1> QED
  BY <1>3, <1>4, <1>5, <1>6, <1>7, <1>8, <1>9, <1>10, <1>11 DEF TypeInv, PricingTypeOK

LEMMA TypeStep == TypeInv /\ [Next]_vars => TypeInv'
<1>1. CASE UNCHANGED vars /\ TypeInv
  BY <1>1 DEF vars, list, people, money, clock, counts, TypeInv, PricingTypeOK, JobsTyped
<1>2. CASE Next /\ TypeInv
  BY <1>2, WorkTyped, RequestTyped, ChangeTyped DEF Next
<1> QED
  BY <1>1, <1>2

\* The tables keep their types, and so does what the requests hold.
THEOREM PricingTypeCorrect == Spec => []PricingTypeOK
<1>1. TypeInv => PricingTypeOK
  BY DEF TypeInv
<1> QED
  BY InitTyped, TypeStep, <1>1, PTL DEF Spec

-----------------------------------------------------------------------------
(* The answer to a price form.  It is true because of what has been true of   *)
(* each class since its turn came: once generated, every pupil has a bill, and*)
(* once re-priced, the right one.  Billing another class does not disturb that*)
(* for a pupil is in one class, and one-time fees look back at earlier        *)
(* sessions only.                                                             *)

Due(s, k, t) == {LineOf(p) : p \in Charged(s, k, t)}

Exempt(s, k, t) == <<s, t>> \in paid \/ Charged(s, k, t) = {}

\* Every pupil has a bill, or owes nothing that can be billed; every bill is right.
HasBills(k, t) ==
  \A s \in Pupils(k, t) :
    Exempt(s, k, t) \/ bill[s][t] # NoRow \/ bill[s][t] = Due(s, k, t)

RightBills(k, t) == \A s \in Pupils(k, t) : Exempt(s, k, t) \/ bill[s][t] = Due(s, k, t)

Generated(j, k) == j.phase = "sync" \/ (j.phase = "generate" /\ k \notin j.todo)

Repriced(j, k) == j.phase = "answer" \/ (j.phase = "sync" /\ k \notin j.todo)

Answering(j) ==
  j.sync = "yes" /\ j.clean = "yes" =>
    \A k \in Covered(j.row) : /\ Generated(j, k) => HasBills(k, j.term)
                              /\ Repriced(j, k) => RightBills(k, j.term)

AnswerInv == TypeInv /\ \A w \in Worker : Answering(job[w])

\* What the resolver finds depends on prices, categories and the date alone.
LEMMA ResolveSame ==
  ASSUME UNCHANGED <<price, category, today>>, NEW k, NEW t, NEW type
  PROVE  Resolve(k, t, type)' = Resolve(k, t, type)
BY DEF Resolve, Rank, Eligible, Live, InEffect, Applies

\* What a student is charged depends on the bills of earlier sessions too.
LEMMA ChargedSame ==
  ASSUME UNCHANGED <<price, category, today, rolled, registered>>,
         NEW s, NEW k, NEW t,
         \A u \in Term : SessionOf[u] < SessionOf[t] => bill'[s][u] = bill[s][u]
  PROVE  Charged(s, k, t)' = Charged(s, k, t) /\ Due(s, k, t)' = Due(s, k, t)
<1>1. \A c : BilledBefore(s, c, SessionOf[t])' = BilledBefore(s, c, SessionOf[t])
  BY DEF BilledBefore
<1>2. TypeOf(s, SessionOf[t])' = TypeOf(s, SessionOf[t])
  BY DEF TypeOf
<1>3. \A type : Resolve(k, t, type)' = Resolve(k, t, type)
  BY ResolveSame
<1>4. Charged(s, k, t)' = Charged(s, k, t)
  BY <1>1, <1>2, <1>3 DEF Charged, ChargedWith
<1> QED
  BY <1>4 DEF Due, LineOf

\* Nothing a bill is made from has changed.
LEMMA BillsStay ==
  ASSUME UNCHANGED <<price, category, today, people, money>>, NEW k, NEW t
  PROVE  HasBills(k, t)' = HasBills(k, t) /\ RightBills(k, t)' = RightBills(k, t)
<1>1. \A s : Charged(s, k, t)' = Charged(s, k, t) /\ Due(s, k, t)' = Due(s, k, t)
  BY ChargedSame DEF people, money
<1>2. Pupils(k, t)' = Pupils(k, t)
  BY DEF Pupils, people
<1> QED
  BY <1>1, <1>2 DEF HasBills, RightBills, Exempt, money

\* One pupil, when a class is billed: only pupils of it are billed, what they owe.
LEMMA PupilBilled ==
  ASSUME TypeInv, UNCHANGED <<price, category, today, people, paid>>,
         NEW k, NEW t \in Term, NEW pupils \in SUBSET Pupils(k, t), BillThem(pupils, k, t),
         NEW c, NEW u \in Term, NEW s \in Pupils(c, u)
  PROVE  /\ Charged(s, c, u)' = Charged(s, c, u) /\ Due(s, c, u)' = Due(s, c, u)
         /\ bill'[s][u] = bill[s][u] \/ bill'[s][u] = Due(s, c, u)
         /\ s \in pupils /\ u = t /\ Charged(s, c, u) # {} => bill'[s][u] = Due(s, c, u)
<1>1. s \in Student /\ place[s] = [class |-> c, session |-> SessionOf[u]]
  BY DEF Pupils
<1>2. s \in pupils => c = k /\ SessionOf[u] = SessionOf[t]
  BY <1>1 DEF Pupils
<1>3. bill[s] = [v \in Term |-> bill[s][v]] /\ SessionOf[u] \in Nat
  BY <1>1, PricingAssumption DEF TypeInv, PricingTypeOK, Term
<1>4. \/ bill'[s] = bill[s] /\ (s \notin pupils \/ Charged(s, k, t) = {})
      \/ s \in pupils /\ bill'[s] = [bill[s] EXCEPT ![t] = Due(s, k, t)]
  BY <1>1 DEF BillThem, Due
<1>5. \A v \in Term : SessionOf[v] < SessionOf[u] => bill'[s][v] = bill[s][v]
  BY <1>2, <1>3, <1>4
<1>6. Charged(s, c, u)' = Charged(s, c, u) /\ Due(s, c, u)' = Due(s, c, u)
  BY <1>5, ChargedSame DEF people
<1>7. bill'[s][u] = bill[s][u] \/ bill'[s][u] = Due(s, c, u)
  BY <1>2, <1>3, <1>4
<1>8. s \in pupils /\ u = t /\ Charged(s, c, u) # {} => bill'[s][u] = Due(s, c, u)
  BY <1>2, <1>3, <1>4
<1> QED
  BY <1>6, <1>7, <1>8

\* Billing a class leaves no pupil of any class without the bill it had, and no
\* right bill wrong.
LEMMA ClassBilled ==
  ASSUME TypeInv, UNCHANGED <<price, category, today, people, paid>>,
         NEW k, NEW t \in Term, NEW pupils \in SUBSET Pupils(k, t), BillThem(pupils, k, t),
         NEW c, NEW u \in Term
  PROVE  (HasBills(c, u) => HasBills(c, u)') /\ (RightBills(c, u) => RightBills(c, u)')
<1>1. Pupils(c, u)' = Pupils(c, u)
  BY DEF Pupils, people
<1>2. \A s \in Pupils(c, u) :
        /\ Charged(s, c, u)' = Charged(s, c, u) /\ Due(s, c, u)' = Due(s, c, u)
        /\ bill'[s][u] = bill[s][u] \/ bill'[s][u] = Due(s, c, u)
  BY PupilBilled
<1> QED
  BY <1>1, <1>2 DEF HasBills, RightBills, Exempt

\* Generation gives each pupil of its class a bill; re-pricing makes them right.
LEMMA ClassGenerated ==
  ASSUME TypeInv, UNCHANGED <<price, category, today, people, paid>>,
         NEW k, NEW t \in Term, BillThem({s \in Pupils(k, t) : bill[s][t] = NoRow}, k, t)
  PROVE  HasBills(k, t)'
<1> DEFINE pupils == {s \in Pupils(k, t) : bill[s][t] = NoRow}
<1>1. Pupils(k, t)' = Pupils(k, t)
  BY DEF Pupils, people
<1>2. pupils \in SUBSET Pupils(k, t) /\ BillThem(pupils, k, t)
  OBVIOUS
<1> HIDE DEF pupils
<1>3. \A s \in Pupils(k, t) :
        /\ Charged(s, k, t)' = Charged(s, k, t) /\ Due(s, k, t)' = Due(s, k, t)
        /\ bill'[s][t] = bill[s][t] \/ bill'[s][t] = Due(s, k, t)
        /\ s \in pupils /\ Charged(s, k, t) # {} => bill'[s][t] = Due(s, k, t)
  BY <1>2, PupilBilled
<1> QED
  BY <1>1, <1>3 DEF HasBills, Exempt, pupils

LEMMA ClassRepriced ==
  ASSUME TypeInv, UNCHANGED <<price, category, today, people, paid>>,
         NEW k, NEW t \in Term, HasBills(k, t),
         BillThem({s \in Pupils(k, t) : bill[s][t] # NoRow /\ <<s, t>> \notin paid}, k, t)
  PROVE  RightBills(k, t)'
<1> DEFINE pupils == {s \in Pupils(k, t) : bill[s][t] # NoRow /\ <<s, t>> \notin paid}
<1>1. Pupils(k, t)' = Pupils(k, t)
  BY DEF Pupils, people
<1>2. pupils \in SUBSET Pupils(k, t) /\ BillThem(pupils, k, t)
  OBVIOUS
<1> HIDE DEF pupils
<1>3. \A s \in Pupils(k, t) :
        /\ Charged(s, k, t)' = Charged(s, k, t) /\ Due(s, k, t)' = Due(s, k, t)
        /\ bill'[s][t] = bill[s][t] \/ bill'[s][t] = Due(s, k, t)
        /\ s \in pupils /\ Charged(s, k, t) # {} => bill'[s][t] = Due(s, k, t)
  BY <1>2, PupilBilled
<1>4. ASSUME NEW s \in Pupils(k, t)
      PROVE  <<s, t>> \in paid \/ Charged(s, k, t) = {} \/ bill'[s][t] = Due(s, k, t)
  <2>1. CASE s \in pupils
    BY <1>3, <2>1
  <2>2. CASE <<s, t>> \notin paid /\ s \notin pupils
    <3>1. bill[s][t] = NoRow
      BY <2>2 DEF pupils
    <3>2. Charged(s, k, t) = {} \/ bill[s][t] = Due(s, k, t)
      BY <2>2, <3>1 DEF HasBills, Exempt
    <3> QED
      BY <1>3, <3>2
  <2> QED
    BY <2>1, <2>2
<1> QED
  BY <1>1, <1>3, <1>4 DEF RightBills, Exempt

\* A request goes on and nothing else happens.
LEMMA MoveAnswers ==
  ASSUME AnswerInv, UNCHANGED <<price, category, today, people, money>>,
         NEW w \in Worker, NEW next, Move(w, next), Answering(next)
  PROVE  \A v \in Worker : Answering(job[v])'
<1>1. \A k, t : HasBills(k, t)' = HasBills(k, t) /\ RightBills(k, t)' = RightBills(k, t)
  BY BillsStay
<1>2. ASSUME NEW v \in Worker
      PROVE  Answering(job[v])'
  <2>1. job'[v] = IF v = w THEN next ELSE job[v]
    BY DEF Move, AnswerInv, TypeInv, JobsTyped
  <2>2. Answering(job'[v])
    BY <2>1 DEF AnswerInv
  <2> QED
    BY <1>1, <2>2 DEF Answering, Generated, Repriced
<1> QED
  BY <1>2

\* What the others looked at has changed: they no longer promise anything.
LEMMA DirtyAnswers ==
  ASSUME NEW v \in Worker, job'[v].clean = "no"
  PROVE  Answering(job[v])'
BY DEF Answering

LEMMA MarkedDirty ==
  ASSUME NEW j \in JobRecord
  PROVE  [j EXCEPT !.clean = "no"].clean = "no" /\ [j EXCEPT !.clean = "no", !.alone = "no"].clean = "no"
BY DEF JobRecord

LEMMA StirAnswers ==
  ASSUME TypeInv, NEW w \in Worker, NEW next, StirPrices(w, next),
         next.sync = "yes" => next.phase \notin {"sync", "answer"}
                              /\ (next.phase = "generate" => next.todo = Covered(next.row))
  PROVE  \A v \in Worker : Answering(job[v])'
<1>1. ASSUME NEW v \in Worker, v # w
      PROVE  Answering(job[v])'
  <2>1. job'[v] = [job[v] EXCEPT !.clean = "no", !.alone = "no"] /\ job[v] \in JobRecord
    BY <1>1 DEF StirPrices, TypeInv, JobsTyped
  <2> QED
    BY <2>1, MarkedDirty, DirtyAnswers
<1>2. Answering(job[w])'
  <2>1. job'[w] = next
    BY DEF StirPrices
  <2> QED
    BY <2>1 DEF Answering, Generated, Repriced
<1> QED
  BY <1>1, <1>2

LEMMA AtOnceAnswers ==
  ASSUME TypeInv, AtOnce
  PROVE  \A v \in Worker : Answering(job[v])'
<1>1. ASSUME NEW v \in Worker
      PROVE  Answering(job[v])'
  <2>1. job'[v] = [job[v] EXCEPT !.clean = "no"] /\ job[v] \in JobRecord
    BY DEF AtOnce, TypeInv, JobsTyped
  <2> QED
    BY <2>1, MarkedDirty, DirtyAnswers
<1> QED
  BY <1>1

\* A request that is not billing has nothing to answer for yet.
LEMMA NothingYet ==
  ASSUME NEW j, j.sync = "yes" => j.phase \notin {"generate", "sync", "answer"}
  PROVE  Answering(j)
BY DEF Answering, Generated, Repriced

LEMMA SavedYet ==
  ASSUME NEW j \in JobRecord, j.phase \in {"overwrite", "sibling", "insert", "copy"}
  PROVE  LET n == Saved(j) IN
         /\ n.sync = "yes" => n.phase \notin {"sync", "answer"}
                              /\ (n.phase = "generate" => n.todo = Covered(n.row))
         /\ Answering(n)
<1> DEFINE n == Saved(j)
<1>1. CASE j.copies # {}
  <2>1. n = [j EXCEPT !.phase = "copy", !.rows = <<>>]
    BY <1>1 DEF Saved
  <2>2. n.phase = "copy"
    BY <2>1 DEF JobRecord
  <2> HIDE DEF n
  <2> QED
    BY <2>2, NothingYet DEF n
<1>2. CASE j.copies = {} /\ j.sync = "yes" /\ Covered(j.row) # {}
  <2> DEFINE todo == Covered(j.row)
  <2>1. n = [j EXCEPT !.phase = "generate", !.rows = <<>>, !.todo = todo]
    BY <1>2 DEF Saved
  <2> HIDE DEF todo
  <2>2. n.phase = "generate" /\ n.todo = todo /\ n.row = j.row
    BY <2>1 DEF JobRecord
  <2>3. n.todo = Covered(n.row)
    BY <2>2 DEF todo
  <2> HIDE DEF n
  <2> QED
    BY <2>2, <2>3 DEF n, Answering, Generated, Repriced
<1>3. CASE j.copies = {} /\ ~ (j.sync = "yes" /\ Covered(j.row) # {})
  <2>1. n = NoJob
    BY <1>3 DEF Saved
  <2> QED
    BY <2>1, NothingYet DEF NoJob
<1> QED
  BY <1>1, <1>2, <1>3

LEMMA WritingAnswers ==
  ASSUME AnswerInv, NEW w \in Worker,
         Overwrite(w) \/ ReadSibling(w) \/ Insert(w) \/ \E r \in job[w].copies : CopyRow(w, r)
  PROVE  \A v \in Worker : Answering(job[v])'
<1> DEFINE j == job[w]
<1>1. TypeInv /\ j \in JobRecord /\ JobFits(j)
  BY DEF AnswerInv, TypeInv, JobsTyped
<1>2. Answering(NoJob)
  BY NothingYet DEF NoJob
<1>3. CASE Overwrite(w)
  <2> DEFINE edited == [j EXCEPT !.phase = "sibling"]
  <2>1. edited.phase = "sibling"
    BY <1>1 DEF JobRecord
  <2>2. /\ j.phase = "overwrite"
        /\ UNCHANGED <<category, people, money, clock>>
        /\ \/ Move(w, NoJob) /\ UNCHANGED price
           \/ StirPrices(w, edited) \/ StirPrices(w, Saved(j))
    BY <1>3 DEF Overwrite
  <2> HIDE DEF edited
  <2>3. CASE Move(w, NoJob) /\ UNCHANGED price
    BY <1>2, <2>2, <2>3, MoveAnswers DEF clock
  <2>4. CASE StirPrices(w, edited)
    BY <1>1, <2>1, <2>4, StirAnswers
  <2>5. CASE StirPrices(w, Saved(j))
    BY <1>1, <2>2, <2>5, SavedYet, StirAnswers
  <2> QED
    BY <2>2, <2>3, <2>4, <2>5
<1>4. CASE ReadSibling(w)
  <2> DEFINE twins == Keyed(KeyOf(Twin(j.row)))
             rows == IF twins = {} THEN Append(j.rows, Twin(j.row)) ELSE j.rows
             next == [j EXCEPT !.phase = "insert", !.rows = rows]
  <2>1. /\ UNCHANGED <<list, category, people, money, clock>>
        /\ Move(w, NoJob) \/ Move(w, next)
    BY <1>4 DEF ReadSibling
  <2> HIDE DEF rows
  <2>2. next.phase = "insert"
    BY <1>1 DEF JobRecord
  <2> HIDE DEF next
  <2>3. Answering(next)
    BY <2>2, NothingYet
  <2> QED
    BY <1>2, <2>1, <2>3, MoveAnswers DEF clock, list
<1>5. CASE Insert(w)
  <2>1. /\ j.phase = "insert"
        /\ UNCHANGED <<category, people, money, clock>>
        /\ (Move(w, NoJob) /\ UNCHANGED list) \/ StirPrices(w, Saved(j))
    BY <1>5 DEF Insert
  <2>2. CASE Move(w, NoJob) /\ UNCHANGED list
    BY <1>2, <2>1, <2>2, MoveAnswers DEF clock, list
  <2>3. CASE StirPrices(w, Saved(j))
    BY <1>1, <2>1, <2>3, SavedYet, StirAnswers
  <2> QED
    BY <2>1, <2>2, <2>3
<1>6. ASSUME NEW r \in j.copies, CopyRow(w, r)
      PROVE  \A v \in Worker : Answering(job[v])'
  <2> DEFINE rest == [j EXCEPT !.copies = @ \ {r}, !.clean = "yes", !.alone = "yes"]
             copy == [r EXCEPT !.term = j.term, !.days = Day]
             next == [rest EXCEPT !.phase = "insert", !.rows = <<copy>>]
  <2>1. /\ j.phase = "copy"
        /\ UNCHANGED <<list, category, people, money, clock>>
        /\ Move(w, next) \/ Move(w, Saved(rest))
    BY <1>6 DEF CopyRow
  <2> HIDE DEF copy
  <2>2. rest \in JobRecord /\ rest.phase = "copy"
    BY <1>1, <2>1, RestFits DEF JobRecord
  <2> HIDE DEF rest
  <2>3. next.phase = "insert"
    BY <2>2 DEF JobRecord
  <2> HIDE DEF next
  <2>4. Answering(next) /\ Answering(Saved(rest))
    BY <2>2, <2>3, NothingYet, SavedYet
  <2> QED
    BY <2>1, <2>4, MoveAnswers DEF clock, list
<1> QED
  BY <1>3, <1>4, <1>5, <1>6

\* A class is generated or re-priced: what a request has promised of other classes
\* stands, and it may now promise this one.
LEMMA BillingAnswers ==
  ASSUME AnswerInv, NEW w \in Worker, NEW k \in job[w].todo,
         GenerateClass(w, k) \/ SyncClass(w, k)
  PROVE  \A v \in Worker : Answering(job[v])'
<1>1. PICK j : j = job[w]
  OBVIOUS
<1>2. PICK n : n = NextClass(j, k)
  OBVIOUS
<1>3. /\ TypeInv /\ j \in JobRecord /\ JobFits(j) /\ j.phase \in {"generate", "sync"}
      /\ Answering(j) /\ k \in j.todo
      /\ Move(w, n) /\ UNCHANGED <<price, category, today, people, paid>>
  BY <1>1, <1>2 DEF GenerateClass, SyncClass, AnswerInv, TypeInv, JobsTyped, list, clock
<1>4. PICK t \in Term : t = j.term
  BY <1>3 DEF JobFits
<1>5. /\ j.phase = "generate" => BillThem({s \in Pupils(k, t) : bill[s][t] = NoRow}, k, t)
      /\ j.phase = "sync" =>
           BillThem({s \in Pupils(k, t) : bill[s][t] # NoRow /\ <<s, t>> \notin paid}, k, t)
  BY <1>1, <1>4 DEF GenerateClass, SyncClass
<1>6. PICK pupils \in SUBSET Pupils(k, t) : BillThem(pupils, k, t)
  BY <1>3, <1>5
<1>7. ASSUME NEW c, NEW u \in Term
      PROVE  (HasBills(c, u) => HasBills(c, u)') /\ (RightBills(c, u) => RightBills(c, u)')
  BY <1>3, <1>6, ClassBilled
<1>8. ASSUME j.phase = "generate"
      PROVE  HasBills(k, t)'
  BY <1>3, <1>5, <1>8, ClassGenerated
<1>9. ASSUME j.phase = "sync", HasBills(k, t)
      PROVE  RightBills(k, t)'
  BY <1>3, <1>5, <1>9, ClassRepriced
<1>10. ASSUME NEW v \in Worker, v # w
       PROVE  Answering(job[v])'
  <2>1. job'[v] = job[v] /\ job[v] \in JobRecord /\ JobFits(job[v]) /\ Answering(job[v])
    BY <1>3, <1>10 DEF Move, AnswerInv, TypeInv, JobsTyped
  <2>2. ASSUME NEW c \in Covered(job[v].row), job[v].sync = "yes"
        PROVE  job[v].term \in Term
    BY <2>1, <2>2, CoveredType DEF JobFits
  <2> QED
    BY <1>7, <2>1, <2>2 DEF Answering, Generated, Repriced
<1>11. Answering(job[w])'
  <2>1. job'[w] = n
    BY <1>3 DEF Move, TypeInv, JobsTyped
  <2>2. SUFFICES ASSUME n.sync = "yes", n.clean = "yes", NEW c \in Covered(n.row)
                 PROVE  /\ Generated(n, c) => HasBills(c, n.term)'
                        /\ Repriced(n, c) => RightBills(c, n.term)'
    BY <2>1 DEF Answering, Generated, Repriced
  <2>3. /\ n.sync = j.sync /\ n.clean = j.clean /\ n.row = j.row /\ n.term = t
        /\ \/ n.phase = j.phase /\ n.todo = j.todo \ {k}
           \/ n.phase = "sync" /\ n.todo = Covered(j.row) /\ j.phase = "generate"
              /\ j.todo = {k}
           \/ n.phase = "answer" /\ j.todo = {k} /\ j.phase # "generate"
    <3> DEFINE rest == j.todo \ {k}
               all == Covered(j.row)
    <3>1. \/ n = [j EXCEPT !.todo = rest]
          \/ n = [j EXCEPT !.phase = "sync", !.todo = all] /\ j.todo = {k}
             /\ j.phase = "generate"
          \/ n = [j EXCEPT !.phase = "answer", !.todo = {}] /\ j.todo = {k}
             /\ j.phase # "generate"
      BY <1>2 DEF NextClass
    <3> HIDE DEF rest, all
    <3>2. /\ n.sync = j.sync /\ n.clean = j.clean /\ n.row = j.row /\ n.term = t
          /\ \/ n.phase = j.phase /\ n.todo = rest
             \/ n.phase = "sync" /\ n.todo = all /\ j.phase = "generate" /\ j.todo = {k}
             \/ n.phase = "answer" /\ j.todo = {k} /\ j.phase # "generate"
      BY <1>3, <1>4, <3>1 DEF JobRecord
    <3> QED
      BY <3>2 DEF rest, all
  <2>4. /\ Generated(j, c) => HasBills(c, t)
        /\ Repriced(j, c) => RightBills(c, t)
    BY <1>3, <1>4, <2>2, <2>3 DEF Answering
  <2>5. Generated(n, c) => Generated(j, c) \/ (j.phase = "generate" /\ c = k)
    BY <1>3, <2>3 DEF Generated
  <2>6. Repriced(n, c) => Repriced(j, c) \/ (j.phase = "sync" /\ c = k)
    BY <1>3, <2>2, <2>3 DEF Repriced
  <2>7. ASSUME j.phase = "sync", c = k
        PROVE  HasBills(k, t)
    BY <2>4, <2>7 DEF Generated
  <2>8. ASSUME Generated(n, c)
        PROVE  HasBills(c, t)'
    BY <1>7, <1>8, <2>4, <2>5, <2>8
  <2>9. ASSUME Repriced(n, c)
        PROVE  RightBills(c, t)'
    BY <1>7, <1>9, <2>4, <2>6, <2>7, <2>9
  <2> QED
    BY <2>3, <2>8, <2>9
<1> QED
  BY <1>10, <1>11

\* One student of a whole term is billed: what requests have promised of the
\* classes stands, and this one promises nothing.
LEMMA StudentAnswers ==
  ASSUME AnswerInv, NEW w \in Worker, NEW s, GenerateStudent(w, s)
  PROVE  \A v \in Worker : Answering(job[v])'
<1> DEFINE j == job[w]
           next == [j EXCEPT !.pupils = @ \ {s}]
<1>1. /\ TypeInv /\ j \in JobRecord /\ JobFits(j) /\ j.phase = "term" /\ Move(w, next)
      /\ UNCHANGED <<price, category, today, people, paid>>
  BY DEF GenerateStudent, AnswerInv, TypeInv, JobsTyped, list, clock
<1>2. PICK k, t : t \in Term /\ \E pupils \in SUBSET Pupils(k, t) : BillThem(pupils, k, t)
  <2> DEFINE k == place[s].class
             pupils == {x \in Pupils(k, j.term) \cap {s} : bill[x][j.term] = NoRow}
  <2>1. j.term \in Term /\ BillThem(pupils, k, j.term)
    BY <1>1 DEF GenerateStudent, JobFits
  <2>2. pupils \in SUBSET Pupils(k, j.term)
    OBVIOUS
  <2> QED
    BY <2>1, <2>2
<1>3. ASSUME NEW c, NEW u \in Term
      PROVE  (HasBills(c, u) => HasBills(c, u)') /\ (RightBills(c, u) => RightBills(c, u)')
  BY <1>1, <1>2, ClassBilled
<1>4. next.phase = "term"
  BY <1>1 DEF JobRecord
<1> HIDE DEF next
<1>5. ASSUME NEW v \in Worker, v # w
      PROVE  Answering(job[v])'
  <2>1. job'[v] = job[v] /\ job[v] \in JobRecord /\ JobFits(job[v]) /\ Answering(job[v])
    BY <1>1, <1>5 DEF Move, AnswerInv, TypeInv, JobsTyped
  <2>2. ASSUME NEW c \in Covered(job[v].row), job[v].sync = "yes"
        PROVE  job[v].term \in Term
    BY <2>1, <2>2, CoveredType DEF JobFits
  <2> QED
    BY <1>3, <2>1, <2>2 DEF Answering, Generated, Repriced
<1>6. job'[w] = next
  BY <1>1 DEF Move, TypeInv, JobsTyped
<1>7. Answering(job[w])'
  BY <1>4, <1>6 DEF Answering, Generated, Repriced
<1> QED
  BY <1>5, <1>7

LEMMA WorkAnswers ==
  ASSUME AnswerInv, NEW w \in Worker, Work(w)
  PROVE  \A v \in Worker : Answering(job[v])'
<1>1. CASE Done(w)
  <2>1. Answering(NoJob)
    BY NothingYet DEF NoJob
  <2> QED
    BY <1>1, <2>1, MoveAnswers DEF Done, list, clock
<1> QED
  BY <1>1, WritingAnswers, BillingAnswers, StudentAnswers DEF Work

\* Requests begin before anything is billed.
LEMMA RequestAnswers ==
  ASSUME AnswerInv, Request
  PROVE  \A v \in Worker : Answering(job[v])'
<1>1. ASSUME NEW w \in Worker, NEW next, Begin(w, next),
             next.sync = "yes" => next.phase \notin {"generate", "sync", "answer"},
             UNCHANGED <<list, category, people, money, clock, raced, wentBack>>
      PROVE  \A v \in Worker : Answering(job[v])'
  BY <1>1, NothingYet, MoveAnswers DEF Begin, list, clock
<1>2. ASSUME NEW w \in Worker, NEW pk \in {0} \cup Pk, NEW form \in Form,
             NEW both \in {"yes", "no"}, SubmitPrice(w, pk, form, both)
      PROVE  \A v \in Worker : Answering(job[v])'
  <2> DEFINE row == Locked(form)
             phase == IF pk # 0 THEN "overwrite"
                      ELSE IF both = "yes" THEN "sibling" ELSE "insert"
             rows == IF pk = 0 THEN <<row>> ELSE <<>>
             next == [NoJob EXCEPT !.phase = phase, !.pk = pk, !.row = row, !.both = both,
                        !.sync = "yes", !.term = row.term, !.rows = rows]
  <2>1. Begin(w, next) /\ UNCHANGED <<list, category, people, money, clock, raced, wentBack>>
    BY <1>2 DEF SubmitPrice
  <2>2. phase \in {"overwrite", "sibling", "insert"}
    OBVIOUS
  <2> HIDE DEF row, phase, rows
  <2>3. next.phase = phase
    BY DEF NoJob
  <2> HIDE DEF next
  <2> QED
    BY <1>1, <2>1, <2>2, <2>3
<1>3. ASSUME NEW w \in Worker, NEW t \in Term, NEW u \in Term,
             NEW active, GenerateTerm(w, t, active) \/ CopyTerm(w, u, t)
      PROVE  \A v \in Worker : Answering(job[v])'
  <2> DEFINE pupils == {s \in active : place[s].session = SessionOf[t]}
             all == [NoJob EXCEPT !.phase = "term", !.term = t, !.pupils = pupils]
             copies == {price[p] : p \in {p \in Pk : Live(p) /\ price[p].term = u}}
             some == [NoJob EXCEPT !.phase = "copy", !.term = t, !.copies = copies]
  <2>1. Begin(w, all) \/ Begin(w, some)
    BY <1>3 DEF GenerateTerm, CopyTerm
  <2>2. UNCHANGED <<list, category, people, money, clock, raced, wentBack>>
    BY <1>3 DEF GenerateTerm, CopyTerm
  <2> HIDE DEF copies, pupils
  <2>3. all.sync = "no" /\ some.sync = "no"
    BY DEF NoJob
  <2> HIDE DEF all, some
  <2> QED
    BY <1>1, <2>1, <2>2, <2>3
<1>4. ASSUME NEW w \in Worker, NEW p \in Pk, NEW target \in Target, Promote(w, p, target)
      PROVE  \A v \in Worker : Answering(job[v])'
  <2> DEFINE row == [price[p] EXCEPT !.scope = target.scope, !.class = target.class,
                                     !.level = target.level, !.days = Day]
             next == [NoJob EXCEPT !.phase = "insert", !.rows = <<row>>]
  <2>1. Begin(w, next) /\ UNCHANGED <<list, category, people, money, clock, raced, wentBack>>
    BY <1>4 DEF Promote
  <2> HIDE DEF row
  <2>2. next.sync = "no"
    BY DEF NoJob
  <2> HIDE DEF next
  <2> QED
    BY <1>1, <2>1, <2>2
<1> QED
  BY <1>2, <1>3, <1>4 DEF Request

LEMMA ChangeAnswers ==
  ASSUME AnswerInv, Change
  PROVE  \A v \in Worker : Answering(job[v])'
<1>1. TypeInv
  BY DEF AnswerInv
<1>2. CASE AtOnce
  BY <1>1, <1>2, AtOnceAnswers
<1>3. ASSUME NEW p \in Pk, DeletePrice(p)
      PROVE  \A v \in Worker : Answering(job[v])'
  <2>1. \A v \in Worker : /\ job'[v] = [job[v] EXCEPT !.clean = "no", !.alone = "no"]
                          /\ job[v] \in JobRecord
    BY <1>1, <1>3 DEF DeletePrice, TypeInv, JobsTyped
  <2> QED
    BY <2>1, MarkedDirty, DirtyAnswers
<1>4. AtOnce \/ \E p \in Pk : DeletePrice(p)
  BY DEF Change, EditCategory, Enrol, CheckoutBundle, Checkout, Reset, RecordPayment,
         NextDay, SetCurrentTerm
<1> QED
  BY <1>2, <1>3, <1>4

LEMMA AnswerStep == AnswerInv /\ [Next]_vars => AnswerInv'
<1> SUFFICES ASSUME AnswerInv, [Next]_vars PROVE AnswerInv'
  OBVIOUS
<1>1. TypeInv'
  BY TypeStep DEF AnswerInv
<1>2. CASE UNCHANGED vars
  <2>1. \A k, t : HasBills(k, t)' = HasBills(k, t) /\ RightBills(k, t)' = RightBills(k, t)
    BY <1>2, BillsStay DEF vars, list, people, money, clock
  <2>2. \A v \in Worker : Answering(job[v])'
    BY <1>2, <2>1 DEF AnswerInv, Answering, Generated, Repriced, vars
  <2> QED
    BY <1>1, <2>2 DEF AnswerInv
<1>3. CASE Next
  <2>1. \A v \in Worker : Answering(job[v])'
    BY <1>3, WorkAnswers, RequestAnswers, ChangeAnswers DEF Next
  <2> QED
    BY <1>1, <2>1 DEF AnswerInv
<1> QED
  BY <1>2, <1>3

\* "Invoices generated, unpaid invoices re-priced" is true of every class the price
\* covers, unless someone changed what bills depend on while the request worked
\* (FeePricingCreateView and FeePricingEditView, _sync_affected_class_invoices).
THEOREM TheAnswerIsTrue == Spec => []AnswerIsTrue
<1>1. Init => AnswerInv
  <2>1. Init => \A w \in Worker : Answering(job[w])
    BY NothingYet DEF Init, NoJob
  <2> QED
    BY <2>1, InitTyped DEF AnswerInv
<1>2. AnswerInv => AnswerIsTrue
  BY DEF AnswerInv, Answering, Repriced, RightBills, Exempt, Due, AnswerIsTrue
<1> QED
  BY AnswerStep, <1>1, <1>2, PTL DEF Spec

-----------------------------------------------------------------------------
(* The gap.  It is a matter of the resolver alone: whatever may be charged in *)
(* a category, one price of it comes first, so a category that some price may *)
(* be charged in is charged.                                                  *)

LEMMA LeastNatural ==
  ASSUME NEW S \in SUBSET Nat, S # {}
  PROVE  \E n \in S : \A m \in S : n <= m
<1> DEFINE R == OpToRel(<, Nat)
<1>1. IsWellFoundedOn(R, Nat)
  BY NatLessThanWellFounded
<1>2. S \subseteq Nat /\ S # {}
  OBVIOUS
<1> HIDE DEF R
<1>3. PICK n \in S : \A m \in S : ~ (<<m, n>> \in R)
  BY ONLY <1>1, <1>2, WFMin
<1>4. ASSUME NEW m \in S
      PROVE  n <= m
  <2>1. m \in Nat /\ n \in Nat
    BY <1>2
  <2>2. m < n => <<m, n>> \in R
    BY <2>1 DEF R, OpToRel
  <2> QED
    BY <1>3, <2>1, <2>2
<1> QED
  BY <1>4

LEMMA SmallestAt ==
  ASSUME NEW S, S # {}, NEW f, \A x \in S : f[x] \in Nat
  PROVE  \E x \in S : \A y \in S : f[x] <= f[y]
<1> DEFINE values == {f[x] : x \in S}
<1>1. values \in SUBSET Nat /\ values # {}
  OBVIOUS
<1>2. PICK n \in values : \A m \in values : n <= m
  BY <1>1, LeastNatural
<1> QED
  BY <1>2

\* Of what is ranked by four naturals, something comes first.
LEMMA OneComesFirst ==
  ASSUME NEW S, S # {}, NEW a, NEW b, NEW c, NEW d,
         \A x \in S : a[x] \in Nat /\ b[x] \in Nat /\ c[x] \in Nat /\ d[x] \in Nat
  PROVE  \E x \in S : \A y \in S :
           ~ Before(<<a[y], b[y], c[y], d[y]>>, <<a[x], b[x], c[x], d[x]>>)
<1>1. PICK p \in S : \A y \in S : a[p] <= a[y]
  BY SmallestAt
<1> DEFINE S1 == {y \in S : a[y] = a[p]}
<1>2. PICK q \in S1 : \A y \in S1 : b[q] <= b[y]
  BY SmallestAt
<1> DEFINE S2 == {y \in S1 : b[y] = b[q]}
<1>3. PICK r \in S2 : \A y \in S2 : c[r] <= c[y]
  BY SmallestAt
<1> DEFINE S3 == {y \in S2 : c[y] = c[r]}
<1>4. PICK x \in S3 : \A y \in S3 : d[x] <= d[y]
  BY SmallestAt
<1>5. ASSUME NEW y \in S, Before(<<a[y], b[y], c[y], d[y]>>, <<a[x], b[x], c[x], d[x]>>)
      PROVE  FALSE
  <2>1. \/ a[y] < a[x]
        \/ a[y] = a[x] /\ b[y] < b[x]
        \/ a[y] = a[x] /\ b[y] = b[x] /\ c[y] < c[x]
        \/ a[y] = a[x] /\ b[y] = b[x] /\ c[y] = c[x] /\ d[y] < d[x]
    BY <1>5 DEF Before
  <2> QED
    BY <1>1, <1>2, <1>3, <1>4, <2>1
<1> QED
  BY <1>5

LEMMA RankIsNatural ==
  ASSUME TypeInv, NEW p \in Pk, Live(p), NEW t \in Term, NEW type
  PROVE  \E a, b, c, d \in Nat : Rank(p, t, type) = <<a, b, c, d>>
<1>1. price[p] \in Row
  BY LiveRow
<1>2. price[p].term \in Term \cup {NoTerm} /\ price[p].scope \in {"CLASS", "LEVEL", "SCHOOL_WIDE"}
  BY <1>1 DEF Row
<1>3. Len(SessionOf) \in Nat /\ p \in Nat
  BY PricingAssumption DEF Pk
<1>4. (IF price[p].term = t THEN 0 ELSE IF price[p].term = NoTerm THEN 1
                               ELSE 2 + Len(SessionOf) - price[p].term) \in Nat
  BY <1>2, <1>3, TermsAre
<1>5. (CHOOSE i \in 1 .. 3 : Scope[i] = price[p].scope) \in Nat
  <2>1. \E i \in 1 .. 3 : Scope[i] = price[p].scope
    BY <1>2 DEF Scope
  <2> QED
    BY <2>1
<1>6. (IF type \in {"ALL", price[p].type} THEN 0 ELSE 1) \in Nat
  OBVIOUS
<1> QED
  BY <1>3, <1>4, <1>5, <1>6 DEF Rank

\* A category that a price may be charged in is charged.
LEMMA EligibleIsCharged ==
  ASSUME TypeInv, NEW k, NEW t \in Term, NEW type, NEW e \in Eligible(k, type),
         price[e].cat \in FirstTermOnly => FirstTerm(t)
  PROVE  \E q \in Resolve(k, t, type) : price[q].cat = price[e].cat
<1> DEFINE S == {x \in Eligible(k, type) : price[x].cat = price[e].cat}
           at(i) == [x \in S |-> Rank(x, t, type)[i]]
<1>1. \A x \in S : x \in Pk /\ Live(x)
  BY DEF Eligible
<1>2. ASSUME NEW x \in S
      PROVE  /\ at(1)[x] \in Nat /\ at(2)[x] \in Nat /\ at(3)[x] \in Nat /\ at(4)[x] \in Nat
             /\ Rank(x, t, type) = <<at(1)[x], at(2)[x], at(3)[x], at(4)[x]>>
  BY <1>1, RankIsNatural
<1>3. PICK q \in S : \A y \in S :
        ~ Before(<<at(1)[y], at(2)[y], at(3)[y], at(4)[y]>>,
                 <<at(1)[q], at(2)[q], at(3)[q], at(4)[q]>>)
  <2>1. S # {}
    OBVIOUS
  <2>2. PICK a, b, c, d : a = at(1) /\ b = at(2) /\ c = at(3) /\ d = at(4)
    OBVIOUS
  <2>3. \A x \in S : a[x] \in Nat /\ b[x] \in Nat /\ c[x] \in Nat /\ d[x] \in Nat
    BY <1>2, <2>2
  <2>4. \E x \in S : \A y \in S :
           ~ Before(<<a[y], b[y], c[y], d[y]>>, <<a[x], b[x], c[x], d[x]>>)
    BY ONLY <2>1, <2>3, OneComesFirst
  <2> QED
    BY <2>2, <2>4
<1>4. \A y \in S : ~ Before(Rank(y, t, type), Rank(q, t, type))
  BY <1>2, <1>3
<1> HIDE DEF at
<1>5. q \in Resolve(k, t, type)
  BY <1>4 DEF Resolve
<1> QED
  BY <1>5

\* A price for one type of student is a row of that type.
LEMMA OtherTypeToo ==
  ASSUME TypeInv, NEW k \in Class, NEW type \in {"NEW", "RETURNING"},
         NEW other \in {"NEW", "RETURNING"}, other # type, NEW p \in Eligible(k, type)
  PROVE  \/ \E e \in Eligible(k, other) : price[e].cat = price[p].cat
         \/ price[p].cat \in Warned
         \/ \E q \in Pk : /\ Live(q) /\ ~ InEffect(q)
                          /\ price[q].cat = price[p].cat /\ price[q].type = other
<1>1. /\ p \in Pk /\ Live(p) /\ InEffect(p) /\ category[price[p].cat].compulsory
      /\ price[p].type \in {"ALL", type} /\ Applies(price[p], k)
  BY DEF Eligible
<1>2. price[p] \in Row
  BY <1>1, LiveRow
<1>3. CASE price[p].type = "ALL"
  BY <1>1, <1>3 DEF Eligible
<1>4. CASE price[p].type = type /\ Keyed(KeyOf(Twin(price[p]))) = {}
  <2>1. Lonely(p) /\ price[p].type # "ALL"
    BY <1>4 DEF Lonely
  <2> QED
    BY <1>1, <2>1 DEF Warned
<1>5. CASE price[p].type = type /\ Keyed(KeyOf(Twin(price[p]))) # {}
  <2>1. PICK q \in Pk : Live(q) /\ KeyOf(price[q]) = KeyOf(Twin(price[p]))
    BY <1>5 DEF Keyed
  <2>2. /\ Twin(price[p]).type = other
        /\ Twin(price[p]).scope = price[p].scope /\ Twin(price[p]).class = price[p].class
        /\ Twin(price[p]).level = price[p].level /\ Twin(price[p]).cat = price[p].cat
    BY <1>2, <1>5 DEF Twin, Row
  <2>3. /\ price[q].type = other /\ price[q].cat = price[p].cat
        /\ price[q].scope = price[p].scope /\ price[q].class = price[p].class
        /\ price[q].level = price[p].level
    BY <2>1, <2>2 DEF KeyOf
  <2>4. CASE InEffect(q)
    BY <1>1, <2>1, <2>3, <2>4 DEF Eligible, Applies
  <2> QED
    BY <2>1, <2>3, <2>4
<1> QED
  BY <1>1, <1>3, <1>4, <1>5

LEMMA GapIsTold == TypeInv => NoSilentGap
<1> SUFFICES ASSUME TypeInv, NEW k \in Class, NEW type \in {"NEW", "RETURNING"},
                    NEW other \in {"NEW", "RETURNING"}, other # type,
                    NEW p \in Resolve(k, now, type)
             PROVE  \/ \E q \in Resolve(k, now, other) : price[q].cat = price[p].cat
                    \/ price[p].cat \in Warned
                    \/ \E q \in Pk : /\ Live(q) /\ ~ InEffect(q)
                                     /\ price[q].cat = price[p].cat /\ price[q].type = other
  BY DEF NoSilentGap
<1>1. p \in Eligible(k, type) /\ (price[p].cat \in FirstTermOnly => FirstTerm(now))
  BY DEF Resolve
<1>2. now \in Term
  BY DEF TypeInv, PricingTypeOK
<1>3. ASSUME NEW e \in Eligible(k, other), price[e].cat = price[p].cat
      PROVE  \E q \in Resolve(k, now, other) : price[q].cat = price[p].cat
  BY <1>1, <1>2, <1>3, EligibleIsCharged
<1> QED
  BY <1>1, <1>3, OtherTypeToo

\* The price list page warns of every fee that one type of student is charged and
\* the other is not, unless that one's price is there and not in effect
\* (_get_pricing_warnings against resolve_fee_prices), whatever the list is.
THEOREM NoGapIsSilent == Spec => []NoSilentGap
<1>1. TypeInv => NoSilentGap
  BY GapIsTold
<1> QED
  BY InitTyped, TypeStep, <1>1, PTL DEF Spec

=============================================================================
