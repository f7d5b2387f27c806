---------------------------- MODULE LessonsProofs ----------------------------
(***************************************************************************)
(* Lessons guarantees for any classes, fees, children, sheets, workers and *)
(* crashes: a participant becomes a student once, who has paid the fee     *)
(* gets PAID, a cancelled registration stays cancelled, and a sheet can be *)
(* imported again.                                                         *)
(***************************************************************************)
EXTENDS Lessons, SequenceTheorems, TLAPS

-----------------------------------------------------------------------------
(* Sequences *)

Values(s) == {s[i] : i \in DOMAIN s}
IsSeq(s) == s \in Seq(Values(s))

LEMMA SeqShape ==
  ASSUME NEW s, IsSeq(s)
  PROVE  Len(s) \in Nat /\ DOMAIN s = 1 .. Len(s)
BY DEF IsSeq

LEMMA AnySeq ==
  ASSUME NEW n \in Nat, NEW s, s = [i \in 1 .. n |-> s[i]]
  PROVE  IsSeq(s) /\ Len(s) = n
<1>1. DOMAIN s = 1 .. n
  OBVIOUS
<1>2. \A i \in 1 .. n : s[i] \in Values(s)
  BY <1>1 DEF Values
<1>3. s \in [1 .. n -> Values(s)]
  BY <1>2
<1>4. s \in Seq(Values(s)) /\ Len(s) = n
  BY <1>1, <1>3
<1> QED
  BY <1>4 DEF IsSeq

LEMMA TypedSeq ==
  ASSUME NEW S, NEW s \in Seq(S)
  PROVE  IsSeq(s)
<1>1. s \in [1 .. Len(s) -> S] /\ Len(s) \in Nat
  BY LenProperties
<1>2. s = [i \in 1 .. Len(s) |-> s[i]]
  BY <1>1
<1> QED
  BY <1>1, <1>2, AnySeq

LEMMA Element ==
  ASSUME NEW S, NEW s \in Seq(S), NEW i \in DOMAIN s
  PROVE  s[i] \in S
OBVIOUS

Joins(st, s, t) == st = s \o t

LEMMA Joined ==
  ASSUME NEW s, NEW t, NEW st, Joins(st, s, t), IsSeq(s), IsSeq(t)
  PROVE  /\ IsSeq(st) /\ Len(st) = Len(s) + Len(t)
         /\ \A i \in DOMAIN s : st[i] = s[i]
         /\ \A i \in DOMAIN t : st[Len(s) + i] = t[i]
<1> DEFINE S == Values(s) \cup Values(t)
<1>1. s \in Seq(S) /\ t \in Seq(S)
  <2>1. Values(s) \subseteq S /\ Values(t) \subseteq S
    OBVIOUS
  <2> HIDE DEF S
  <2>2. s \in Seq(S)
    BY <2>1, SeqMonotonic DEF IsSeq
  <2>3. t \in Seq(S)
    BY <2>1, SeqMonotonic DEF IsSeq
  <2> QED
    BY <2>2, <2>3
<1> HIDE DEF S
<1>2. /\ st \in Seq(S) /\ Len(st) = Len(s) + Len(t)
      /\ \A i \in 1 .. Len(s) + Len(t) : st[i] = IF i <= Len(s) THEN s[i] ELSE t[i - Len(s)]
  BY <1>1, ConcatProperties DEF Joins
<1>3. /\ Len(s) \in Nat /\ DOMAIN s = 1 .. Len(s)
      /\ Len(t) \in Nat /\ DOMAIN t = 1 .. Len(t)
  BY SeqShape
<1>4. IsSeq(st)
  BY <1>2, TypedSeq
<1>5. \A i \in DOMAIN s : st[i] = s[i]
  BY <1>2, <1>3
<1>6. \A i \in DOMAIN t : st[Len(s) + i] = t[i]
  <2>1. ASSUME NEW i \in DOMAIN t
        PROVE  st[Len(s) + i] = t[i]
    <3>1. i \in Nat /\ i >= 1 /\ i <= Len(t)
      BY <1>3
    <3>2. Len(s) + i \in 1 .. Len(s) + Len(t) /\ ~ (Len(s) + i <= Len(s))
          /\ (Len(s) + i) - Len(s) = i
      BY <1>3, <3>1
    <3> QED
      BY <1>2, <3>2
  <2> QED
    BY <2>1
<1> QED
  BY <1>2, <1>4, <1>5, <1>6

LEMMA Extended ==
  ASSUME NEW s, IsSeq(s), NEW x
  PROVE  /\ IsSeq(Append(s, x)) /\ Len(Append(s, x)) = Len(s) + 1
         /\ \A i \in DOMAIN Append(s, x) :
              \/ Append(s, x)[i] = x
              \/ i \in DOMAIN s /\ Append(s, x)[i] = s[i]
<1> DEFINE S == Values(s) \cup {x}
           sx == Append(s, x)
<1>1. s \in Seq(S) /\ x \in S
  <2>1. Values(s) \subseteq S /\ x \in S
    OBVIOUS
  <2> HIDE DEF S
  <2>2. s \in Seq(S)
    BY <2>1, SeqMonotonic DEF IsSeq
  <2> QED
    BY <2>1, <2>2
<1> HIDE DEF S
<1>5. /\ sx \in Seq(S) /\ Len(sx) = Len(s) + 1
      /\ \A i \in 1 .. Len(s) : sx[i] = s[i]
      /\ sx[Len(s) + 1] = x
  BY <1>1, AppendProperties
<1>2. /\ Len(sx) = Len(s) + 1 /\ Len(s) \in Nat /\ sx \in Seq(S)
      /\ DOMAIN sx = 1 .. Len(s) + 1 /\ DOMAIN s = 1 .. Len(s)
      /\ \A i \in 1 .. Len(s) : sx[i] = s[i]
      /\ sx[Len(s) + 1] = x
  <2>1. Len(s) \in Nat /\ DOMAIN s = 1 .. Len(s)
    BY SeqShape
  <2>2. DOMAIN sx = 1 .. Len(sx)
    BY <1>5, LenProperties
  <2> QED
    BY <1>5, <2>1, <2>2
<1>3. IsSeq(sx)
  BY <1>2, TypedSeq
<1>4. \A i \in DOMAIN sx : sx[i] = x \/ (i \in DOMAIN s /\ sx[i] = s[i])
  <2> HIDE DEF sx
  <2>1. ASSUME NEW i \in DOMAIN sx
        PROVE  sx[i] = x \/ (i \in DOMAIN s /\ sx[i] = s[i])
    <3>1. i \in 1 .. Len(s) \/ i = Len(s) + 1
      BY <1>2
    <3>2. CASE i \in 1 .. Len(s)
      <4>1. DOMAIN s = 1 .. Len(s) /\ \A k \in 1 .. Len(s) : sx[k] = s[k]
        BY <1>2
      <4> QED
        BY <3>2, <4>1, Zenon
    <3>3. CASE i = Len(s) + 1
      BY <1>2, <3>3
    <3> QED
      BY <3>1, <3>2, <3>3
  <2> QED
    BY <2>1
<1> QED
  BY <1>2, <1>3, <1>4
-----------------------------------------------------------------------------
(* What holds of the tables and of every request *)

Shaped(j) == j = [f \in DOMAIN NoJob |-> j[f]]

Tables ==
  /\ IsSeq(row) /\ IsSeq(paid) /\ IsSeq(made)
  /\ Len(paid) = Len(row) /\ Len(made) = Len(row)

Jobs ==
  /\ job = [w \in Worker |-> job[w]]
  /\ \A w \in Worker : Shaped(job[w]) /\ IsSeq(job[w].new)
  /\ \A w \in Worker : job[w].row # 0 => job[w].row \in DOMAIN row

\* Who holds a row together with another is known.
OneHolder ==
  \A w, v \in Worker :
    w # v /\ job[w].row # 0 /\ job[v].row = job[w].row => job[w].row \in raced

Frame == Tables /\ Jobs /\ OneHolder

LEMMA TableDomains ==
  ASSUME Tables
  PROVE  /\ Len(row) \in Nat /\ DOMAIN row = 1 .. Len(row)
         /\ DOMAIN paid = 1 .. Len(row) /\ DOMAIN made = 1 .. Len(row)
BY SeqShape DEF Tables

\* Rows come at the end.
LEMMA EnrolledTables ==
  ASSUME Tables, NEW new, IsSeq(new), Enrolled(new)
  PROVE  /\ Tables' /\ Len(row') = Len(row) + Len(new)
         /\ \A r \in DOMAIN row : /\ r \in DOMAIN row' /\ row'[r] = row[r]
                                  /\ paid'[r] = paid[r] /\ made'[r] = made[r]
         /\ \A r \in DOMAIN row' \ DOMAIN row :
              \E i \in DOMAIN new : /\ r = Len(row) + i /\ row'[r] = new[i].row
                                    /\ paid'[r] = new[i].paid /\ made'[r] = 0
<1> DEFINE rows == [i \in DOMAIN new |-> new[i].row]
           sums == [i \in DOMAIN new |-> new[i].paid]
           none == [i \in DOMAIN new |-> 0]
<1>1. row' = row \o rows /\ paid' = paid \o sums /\ made' = made \o none
  BY DEF Enrolled
<1>2. Len(new) \in Nat /\ DOMAIN new = 1 .. Len(new)
  BY SeqShape
<1>3. /\ IsSeq(rows) /\ Len(rows) = Len(new) /\ DOMAIN rows = DOMAIN new
      /\ IsSeq(sums) /\ Len(sums) = Len(new) /\ DOMAIN sums = DOMAIN new
      /\ IsSeq(none) /\ Len(none) = Len(new) /\ DOMAIN none = DOMAIN new
  BY <1>2, AnySeq
<1>4. \A i \in DOMAIN new : rows[i] = new[i].row /\ sums[i] = new[i].paid /\ none[i] = 0
  OBVIOUS
<1>5. /\ Len(row) \in Nat /\ DOMAIN row = 1 .. Len(row)
      /\ DOMAIN paid = 1 .. Len(row) /\ DOMAIN made = 1 .. Len(row)
  BY TableDomains
<1> HIDE DEF rows, sums, none
<1>6. /\ IsSeq(row') /\ Len(row') = Len(row) + Len(new)
      /\ \A r \in DOMAIN row : row'[r] = row[r]
      /\ \A i \in DOMAIN new : row'[Len(row) + i] = rows[i]
  <2>1. IsSeq(row) /\ IsSeq(rows) /\ Joins(row', row, rows)
    BY <1>1, <1>3 DEF Tables, Joins
  <2>2. /\ IsSeq(row') /\ Len(row') = Len(row) + Len(rows)
        /\ \A i \in DOMAIN row : row'[i] = row[i]
        /\ \A i \in DOMAIN rows : row'[Len(row) + i] = rows[i]
    BY <2>1, Joined
  <2>3. Len(row) = Len(row) /\ DOMAIN row = DOMAIN row
    BY <1>5 DEF Tables
  <2> QED
    BY <1>3, <2>2, <2>3
<1>7. /\ IsSeq(paid') /\ Len(paid') = Len(row) + Len(new)
      /\ \A r \in DOMAIN row : paid'[r] = paid[r]
      /\ \A i \in DOMAIN new : paid'[Len(row) + i] = sums[i]
  <2>1. IsSeq(paid) /\ IsSeq(sums) /\ Joins(paid', paid, sums)
    BY <1>1, <1>3 DEF Tables, Joins
  <2>2. /\ IsSeq(paid') /\ Len(paid') = Len(paid) + Len(sums)
        /\ \A i \in DOMAIN paid : paid'[i] = paid[i]
        /\ \A i \in DOMAIN sums : paid'[Len(paid) + i] = sums[i]
    BY <2>1, Joined
  <2>3. Len(paid) = Len(row) /\ DOMAIN paid = DOMAIN row
    BY <1>5 DEF Tables
  <2> QED
    BY <1>3, <2>2, <2>3
<1>8. /\ IsSeq(made') /\ Len(made') = Len(row) + Len(new)
      /\ \A r \in DOMAIN row : made'[r] = made[r]
      /\ \A i \in DOMAIN new : made'[Len(row) + i] = none[i]
  <2>1. IsSeq(made) /\ IsSeq(none) /\ Joins(made', made, none)
    BY <1>1, <1>3 DEF Tables, Joins
  <2>2. /\ IsSeq(made') /\ Len(made') = Len(made) + Len(none)
        /\ \A i \in DOMAIN made : made'[i] = made[i]
        /\ \A i \in DOMAIN none : made'[Len(made) + i] = none[i]
    BY <2>1, Joined
  <2>3. Len(made) = Len(row) /\ DOMAIN made = DOMAIN row
    BY <1>5 DEF Tables
  <2> QED
    BY <1>3, <2>2, <2>3
<1>9. Tables'
  BY <1>6, <1>7, <1>8 DEF Tables
<1>10. DOMAIN row' = 1 .. Len(row) + Len(new)
  BY <1>6, SeqShape
<1>11. ASSUME NEW r \in DOMAIN row' \ DOMAIN row
       PROVE  \E i \in DOMAIN new : /\ r = Len(row) + i /\ row'[r] = new[i].row
                                    /\ paid'[r] = new[i].paid /\ made'[r] = 0
  <2> DEFINE i == r - Len(row)
  <2>1. i \in DOMAIN new /\ r = Len(row) + i
    BY <1>2, <1>5, <1>10
  <2> HIDE DEF i
  <2> QED
    BY <1>4, <1>6, <1>7, <1>8, <2>1
<1> QED
  BY <1>5, <1>6, <1>7, <1>8, <1>9, <1>10, <1>11

\* A request begins.
LEMMA BeginFrame ==
  ASSUME Frame, NEW w \in Worker, NEW j, Begin(w, j), UNCHANGED <<row, paid, made>>,
         Shaped(j), IsSeq(j.new), j.row # 0 => j.row \in DOMAIN row
  PROVE  /\ Frame' /\ job' = [job EXCEPT ![w] = j] /\ raced \subseteq raced'
         /\ \A v \in Worker : job'[v] = IF v = w THEN j ELSE job[v]
<1>1. /\ job' = [job EXCEPT ![w] = j]
      /\ raced' = IF j.row # 0 /\ Holding(j.row) # {} THEN raced \cup {j.row} ELSE raced
  BY DEF Begin, Move
<1>2. \A v \in Worker : job'[v] = IF v = w THEN j ELSE job[v]
  BY <1>1 DEF Frame, Jobs
<1>3. job' = [v \in Worker |-> job'[v]]
  BY <1>1 DEF Frame, Jobs
<1>4. Tables'
  BY DEF Frame, Tables
<1>5. Jobs'
  <2>1. \A v \in Worker : /\ Shaped(job'[v]) /\ IsSeq(job'[v].new)
                          /\ job'[v].row # 0 => job'[v].row \in DOMAIN row
    BY <1>2 DEF Frame, Jobs
  <2> QED
    BY <1>3, <2>1 DEF Jobs, Shaped, NoJob, IsSeq, Values
<1>6. ASSUME NEW v \in Worker, v # w, job[v].row = j.row, j.row # 0
      PROVE  j.row \in raced'
  BY <1>1, <1>6 DEF Holding
<1>7. OneHolder'
  BY <1>1, <1>2, <1>6 DEF Frame, OneHolder
<1> QED
  BY <1>1, <1>2, <1>4, <1>5, <1>7 DEF Frame

\* A request goes on, or ends, on the row it holds.
LEMMA GoFrame ==
  ASSUME Frame, NEW w \in Worker, NEW j, Move(w, j), raced \subseteq raced',
         Shaped(j), IsSeq(j.new), j.row \in {0, job[w].row},
         Tables', DOMAIN row \subseteq DOMAIN row'
  PROVE  Frame' /\ \A v \in Worker : job'[v] = IF v = w THEN j ELSE job[v]
<1>1. job' = [job EXCEPT ![w] = j]
  BY DEF Move
<1>2. \A v \in Worker : job'[v] = IF v = w THEN j ELSE job[v]
  BY <1>1 DEF Frame, Jobs
<1>3. job' = [v \in Worker |-> job'[v]]
  BY <1>1 DEF Frame, Jobs
<1>4. \A v \in Worker : job'[v].row # 0 => job'[v].row = job[v].row
  BY <1>2
<1>5. Jobs'
  <2>1. \A v \in Worker : /\ Shaped(job'[v]) /\ IsSeq(job'[v].new)
                          /\ job'[v].row # 0 => job'[v].row \in DOMAIN row'
    BY <1>2, <1>4 DEF Frame, Jobs
  <2> QED
    BY <1>3, <2>1 DEF Jobs, Shaped, NoJob, IsSeq, Values
<1>6. OneHolder'
  BY <1>4 DEF Frame, OneHolder
<1> QED
  BY <1>2, <1>5, <1>6 DEF Frame
-----------------------------------------------------------------------------
(* The invariant, row by row *)

Paying(j) == j.phase \in {"receipt", "sum", "save"}

\* A student was made of the row only if the row says so, and who holds it has seen it.
RegisteredAt(r) ==
  /\ made[r] \in {0, 1}
  /\ made[r] = 1 => row[r].student = "linked"
  /\ \A w \in Worker : job[w].row = r =>
       /\ \A c \in job[w].copy : c.student = row[r].student
       /\ job[w].phase = "register" => row[r].student = "none"

\* What a request that holds the row knows of its class, its fee and its status.
SettledAt(r) ==
  /\ row[r].class \in Class
  /\ row[r].status # "GONE" => class[row[r].class] # NoClass
  /\ row[r].student # "gone"
  /\ \A w \in Worker : job[w].row = r =>
       /\ \E c : job[w].copy = {c}
       /\ \A c \in job[w].copy :
            /\ c.class = row[r].class /\ c.student # "gone"
            /\ c.status # "REGISTERED" => row[r].status # "REGISTERED"
       /\ row[r].status # "GONE" => job[w].fee \in {Unread, FeeOf(row[r].class)}
  /\ row[r].status = "REGISTERED" /\ paid[r] > 0 /\ paid[r] >= FeeOf(row[r].class)
       => \E w \in Worker : job[w].row = r /\ Paying(job[w])

\* What an import has in hand: nobody who has paid what was asked is left REGISTERED.
Entries ==
  \A w \in Worker : \A i \in DOMAIN job[w].new :
    LET e == job[w].new[i] IN
    e.row.class \in Class /\ e.row.student # "gone"
    /\ ~ (e.row.status = "REGISTERED" /\ e.paid > 0 /\ e.paid >= e.fee)

LessonInv ==
  /\ Frame /\ Entries
  /\ DOMAIN class = Class /\ (period.status = "NONE" => period.fee = 0)
  /\ \A r \in DOMAIN row \ (edited \cup raced) : RegisteredAt(r)
  /\ \A r \in DOMAIN row \ loose : SettledAt(r)

FeeNext(c) == IF class'[c] = Inherit THEN period'.fee ELSE class'[c]

\* How a step may go on with a request ...
HoldStep(v) ==
  \/ job'[v].row = 0
  \/ /\ job'[v].row = job[v].row /\ job'[v].copy = job[v].copy /\ job'[v].fee = job[v].fee
     /\ job'[v].phase = "register" => job[v].phase = "register"
  \/ job'[v].row = job[v].row /\ job'[v].row \in edited' \cap loose'
  \/ /\ job'[v].row \in DOMAIN row /\ job'[v].copy = {row[job'[v].row]}
     /\ job'[v].fee \in {Unread, FeeOf(row[job'[v].row].class)}
     /\ job'[v].phase = "register" => row[job'[v].row].student = "none"

\* ... and with a row.
RegisterStep(r) ==
  \/ r \in DOMAIN row /\ made'[r] = made[r] /\ row'[r].student = row[r].student
  \/ /\ r \in DOMAIN row /\ made[r] = 0 /\ made'[r] = 1 /\ row'[r].student = "linked"
     /\ \A v \in Worker : job'[v].row # r
  \/ r \notin DOMAIN row /\ made'[r] = 0

OldRow(r) ==
  /\ r \in DOMAIN row \ loose
  /\ row'[r].class = row[r].class
  /\ row[r].student # "gone" => row'[r].student # "gone"
  /\ row'[r].status = "REGISTERED" => row[r].status = "REGISTERED"
  /\ row'[r].status # "GONE" =>
       /\ row[r].status # "GONE" /\ class'[row[r].class] # NoClass
       /\ FeeNext(row[r].class) = FeeOf(row[r].class)
  /\ row'[r].status = "REGISTERED" =>
       \/ /\ paid'[r] = paid[r]
          /\ \A v \in Worker : job[v].row = r /\ Paying(job[v])
                                 => job'[v].row = r /\ Paying(job'[v])
       \/ \E v \in Worker : job'[v].row = r /\ Paying(job'[v])
       \/ ~ (paid'[r] >= FeeNext(row[r].class))

NewRow(r) ==
  /\ r \notin DOMAIN row /\ row'[r].class \in Class /\ row'[r].student # "gone"
  /\ row'[r].status # "GONE" => class'[row'[r].class] # NoClass
  /\ ~ (/\ row'[r].status = "REGISTERED" /\ paid'[r] > 0
        /\ paid'[r] >= FeeNext(row'[r].class))

LEMMA StepKeeps ==
  ASSUME LessonInv, Frame', Entries', DOMAIN class' = Class,
         period'.status = "NONE" => period'.fee = 0,
         edited \subseteq edited', raced \subseteq raced',
         \A v \in Worker : HoldStep(v),
         \A r \in DOMAIN row' \ (edited' \cup raced') : RegisterStep(r),
         \A r \in DOMAIN row' \ loose' : OldRow(r) \/ NewRow(r)
  PROVE  LessonInv'
<1>1. \A v \in Worker : job'[v].row # 0 => job'[v].row \in DOMAIN row
  BY DEF HoldStep, LessonInv, Frame, Jobs
<1>2. 0 \notin DOMAIN row /\ 0 \notin DOMAIN row'
  <2>1. DOMAIN row = 1 .. Len(row) /\ DOMAIN row' = 1 .. Len(row')
    BY SeqShape DEF LessonInv, Frame, Tables
  <2> QED
    BY <2>1
<1>3. ASSUME NEW r \in DOMAIN row' \ (edited' \cup raced')
      PROVE  RegisteredAt(r)'
  <2>1. CASE r \in DOMAIN row /\ made'[r] = made[r] /\ row'[r].student = row[r].student
    <3>1. RegisteredAt(r)
      BY <2>1 DEF LessonInv
    <3>2. ASSUME NEW w \in Worker, job'[w].row = r
          PROVE  /\ \A c \in job'[w].copy : c.student = row'[r].student
                 /\ job'[w].phase = "register" => row'[r].student = "none"
      BY <1>2, <2>1, <3>1, <3>2 DEF HoldStep, RegisteredAt
    <3> QED
      BY <2>1, <3>1, <3>2 DEF RegisteredAt
  <2>2. CASE made'[r] = 1 /\ row'[r].student = "linked" /\ \A v \in Worker : job'[v].row # r
    BY <2>2 DEF RegisteredAt
  <2>3. CASE r \notin DOMAIN row /\ made'[r] = 0
    BY <1>1, <1>2, <2>3 DEF RegisteredAt
  <2> QED
    BY <2>1, <2>2, <2>3 DEF RegisterStep
<1>4. ASSUME NEW r \in DOMAIN row' \ loose'
      PROVE  SettledAt(r)'
  <2>1. CASE OldRow(r)
    <3>1. SettledAt(r) /\ r \in DOMAIN row
      BY <2>1 DEF OldRow, LessonInv
    <3>2. row'[r].class \in Class /\ row'[r].student # "gone"
          /\ (row'[r].status # "GONE" => class'[row'[r].class] # NoClass)
      BY <2>1, <3>1 DEF OldRow, SettledAt
    <3>3. ASSUME NEW w \in Worker, job'[w].row = r
          PROVE  /\ \E c : job'[w].copy = {c}
                 /\ \A c \in job'[w].copy :
                      /\ c.class = row'[r].class /\ c.student # "gone"
                      /\ c.status # "REGISTERED" => row'[r].status # "REGISTERED"
                 /\ row'[r].status # "GONE" => job'[w].fee \in {Unread, FeeNext(row'[r].class)}
      <4>1. CASE job[w].row = r /\ job'[w].copy = job[w].copy /\ job'[w].fee = job[w].fee
        BY <2>1, <3>1, <4>1 DEF OldRow, SettledAt
      <4>2. CASE job'[w].copy = {row[r]} /\ job'[w].fee \in {Unread, FeeOf(row[r].class)}
        BY <2>1, <3>1, <4>2 DEF OldRow, SettledAt
      <4> QED
        BY <1>2, <3>3, <4>1, <4>2 DEF HoldStep
    <3>4. ASSUME row'[r].status = "REGISTERED", paid'[r] > 0,
                 paid'[r] >= FeeNext(row'[r].class)
          PROVE  \E w \in Worker : job'[w].row = r /\ Paying(job'[w])
      <4>1. /\ row[r].status = "REGISTERED" /\ row'[r].class = row[r].class
            /\ FeeNext(row[r].class) = FeeOf(row[r].class)
        BY <2>1, <3>4 DEF OldRow
      <4>2. CASE /\ paid'[r] = paid[r]
                 /\ \A v \in Worker : job[v].row = r /\ Paying(job[v])
                                        => job'[v].row = r /\ Paying(job'[v])
        BY <3>1, <3>4, <4>1, <4>2 DEF SettledAt
      <4>3. CASE \E v \in Worker : job'[v].row = r /\ Paying(job'[v])
        BY <4>3
      <4> QED
        BY <2>1, <3>4, <4>1, <4>2, <4>3 DEF OldRow
    <3> QED
      BY <3>2, <3>3, <3>4 DEF SettledAt, FeeOf, FeeNext, Paying
  <2>2. CASE NewRow(r)
    BY <1>1, <1>2, <2>2 DEF NewRow, SettledAt, FeeOf, FeeNext, Paying
  <2> QED
    BY <2>1, <2>2
<1> QED
  BY <1>3, <1>4 DEF LessonInv
-----------------------------------------------------------------------------
(* What most steps share *)

LEMMA NoJobShaped ==
  /\ Shaped(NoJob) /\ NoJob.phase = "idle" /\ NoJob.row = 0 /\ NoJob.new = <<>>
  /\ IsSeq(<<>>)
<1>1. IsSeq(<<>>)
  <2>1. <<>> \in Seq({})
    OBVIOUS
  <2> QED
    BY <2>1, TypedSeq
<1>2. Shaped(NoJob)
  BY DEF Shaped, NoJob
<1> QED
  BY <1>1, <1>2 DEF NoJob

LEMMA SameTables ==
  ASSUME Tables, row' = [r \in DOMAIN row |-> row'[r]],
         paid' = [r \in DOMAIN row |-> paid'[r]], made' = [r \in DOMAIN row |-> made'[r]]
  PROVE  Tables' /\ DOMAIN row' = DOMAIN row
<1>1. Len(row) \in Nat /\ DOMAIN row = 1 .. Len(row)
  BY TableDomains
<1>2. IsSeq(row') /\ Len(row') = Len(row)
  BY <1>1, AnySeq
<1>3. IsSeq(paid') /\ Len(paid') = Len(row)
  BY <1>1, AnySeq
<1>4. IsSeq(made') /\ Len(made') = Len(row)
  BY <1>1, AnySeq
<1>5. DOMAIN row' = DOMAIN row
  OBVIOUS
<1> QED
  BY <1>2, <1>3, <1>4, <1>5 DEF Tables

LEMMA EntriesKept ==
  ASSUME Entries, \A v \in Worker : job'[v].new \in {job[v].new, <<>>}
  PROVE  Entries'
<1>1. ASSUME NEW v \in Worker, NEW i \in DOMAIN job'[v].new
      PROVE  job'[v].new = job[v].new
  BY <1>1
<1> QED
  BY <1>1 DEF Entries

\* No request is touched.
LEMMA JobsStay ==
  ASSUME LessonInv, job' = job, raced' = raced, Tables', DOMAIN row \subseteq DOMAIN row'
  PROVE  Frame' /\ Entries' /\ \A v \in Worker : HoldStep(v)
<1>1. Jobs' /\ OneHolder'
  <2>1. job' = [w \in Worker |-> job'[w]]
    BY DEF LessonInv, Frame, Jobs
  <2>2. \A w \in Worker : /\ Shaped(job'[w]) /\ IsSeq(job'[w].new)
                          /\ job'[w].row # 0 => job'[w].row \in DOMAIN row'
    BY DEF LessonInv, Frame, Jobs
  <2>3. Jobs'
    BY <2>1, <2>2 DEF Jobs, Shaped, NoJob, IsSeq, Values
  <2>4. OneHolder'
    BY DEF LessonInv, Frame, OneHolder
  <2> QED
    BY <2>3, <2>4
<1>2. Entries'
  <2>1. Entries /\ \A v \in Worker : job'[v].new \in {job[v].new, <<>>}
    BY DEF LessonInv
  <2> QED
    BY <2>1, EntriesKept
<1>3. \A v \in Worker : HoldStep(v)
  BY DEF HoldStep
<1> QED
  BY <1>1, <1>2, <1>3 DEF Frame

LEMMA RequestFrame ==
  ASSUME LessonInv, Request, Tables', DOMAIN row \subseteq DOMAIN row'
  PROVE  /\ Frame' /\ Entries' /\ raced' = raced /\ job' = job
         /\ \A v \in Worker : HoldStep(v)
BY JobsStay DEF Request

\* A request ends, or goes on with the row it holds and what it has read of it.
LEMMA GoStep ==
  ASSUME LessonInv, NEW w \in Worker, NEW j, Move(w, j), raced \subseteq raced',
         Shaped(j), j.new \in {job[w].new, <<>>}, Tables', DOMAIN row \subseteq DOMAIN row',
         \/ j.row = 0
         \/ /\ j.row = job[w].row /\ j.copy = job[w].copy /\ j.fee = job[w].fee
            /\ j.phase # "register"
  PROVE  /\ Frame' /\ Entries' /\ \A v \in Worker : HoldStep(v)
         /\ \A v \in Worker : job'[v] = IF v = w THEN j ELSE job[v]
<1>1. IsSeq(j.new) /\ j.row \in {0, job[w].row}
  BY NoJobShaped DEF LessonInv, Frame, Jobs
<1>2. Frame' /\ \A v \in Worker : job'[v] = IF v = w THEN j ELSE job[v]
  BY <1>1, GoFrame DEF LessonInv
<1>3. \A v \in Worker : job'[v].new \in {job[v].new, <<>>}
  BY <1>2
<1>4. Entries'
  BY <1>3, EntriesKept DEF LessonInv
<1>5. \A v \in Worker : HoldStep(v)
  BY <1>2 DEF HoldStep
<1> QED
  BY <1>2, <1>4, <1>5

LEMMA KeepRow ==
  ASSUME LessonInv, NEW r \in DOMAIN row \ loose, row'[r].class = row[r].class,
         row'[r].status = "REGISTERED" => row[r].status = "REGISTERED",
         row[r].student # "gone" => row'[r].student # "gone",
         row'[r].status # "GONE" =>
           row[r].status # "GONE" /\ class'[row[r].class] = class[row[r].class],
         period'.fee = period.fee,
         row'[r].status = "REGISTERED" =>
           \/ /\ paid'[r] = paid[r]
              /\ \A v \in Worker : job[v].row = r /\ Paying(job[v])
                                     => job'[v].row = r /\ Paying(job'[v])
           \/ \E v \in Worker : job'[v].row = r /\ Paying(job'[v])
           \/ ~ (paid'[r] >= FeeNext(row[r].class))
  PROVE  OldRow(r)
<1>1. SettledAt(r)
  BY DEF LessonInv
<1>2. row'[r].status # "GONE" => /\ class'[row[r].class] # NoClass
                                 /\ FeeNext(row[r].class) = FeeOf(row[r].class)
  BY <1>1 DEF SettledAt, FeeNext, FeeOf
<1> QED
  BY <1>2 DEF OldRow

\* Nothing is written to the rows.
LEMMA RowsStay ==
  ASSUME LessonInv, UNCHANGED <<class, row, paid, made>>, period'.fee = period.fee,
         loose \subseteq loose',
         \A v \in Worker : \/ ~ Paying(job[v])
                           \/ job[v].row \in loose'
                           \/ job'[v].row = job[v].row /\ Paying(job'[v])
  PROVE  /\ Tables' /\ DOMAIN row' = DOMAIN row /\ DOMAIN class' = Class
         /\ \A r \in DOMAIN row' \ (edited' \cup raced') : RegisterStep(r)
         /\ \A r \in DOMAIN row' \ loose' : OldRow(r) \/ NewRow(r)
<1>1. Tables' /\ DOMAIN row' = DOMAIN row /\ DOMAIN class' = Class
  BY DEF LessonInv, Frame, Tables
<1>2. ASSUME NEW r \in DOMAIN row' \ loose'
      PROVE  OldRow(r)
  <2>1. r \in DOMAIN row \ loose /\ row'[r] = row[r] /\ paid'[r] = paid[r]
    BY <1>2
  <2>2. \A v \in Worker : job[v].row = r /\ Paying(job[v])
                            => job'[v].row = r /\ Paying(job'[v])
    BY <1>2
  <2> QED
    BY <2>1, <2>2, KeepRow
<1> QED
  BY <1>1, <1>2 DEF RegisterStep
-----------------------------------------------------------------------------
(* Periods and classes *)

LEMMA PeriodFormKeeps ==
  ASSUME LessonInv, NEW s \in PeriodStatus \ {"NONE"}, PeriodForm(s)
  PROVE  LessonInv'
<1>1. /\ UNCHANGED <<class, row, paid, made, edited, loose>> /\ Request
      /\ period'.fee = period.fee /\ period'.status = s
  BY DEF PeriodForm
<1>2. job' = job /\ raced' = raced
  BY <1>1 DEF Request
<1>3. /\ Tables' /\ DOMAIN row' = DOMAIN row /\ DOMAIN class' = Class
      /\ \A r \in DOMAIN row' \ (edited' \cup raced') : RegisterStep(r)
      /\ \A r \in DOMAIN row' \ loose' : OldRow(r) \/ NewRow(r)
  BY <1>1, <1>2, RowsStay
<1>4. Frame' /\ Entries' /\ \A v \in Worker : HoldStep(v)
  BY <1>1, <1>3, RequestFrame
<1> QED
  BY <1>1, <1>2, <1>3, <1>4, StepKeeps

LEMMA PeriodAdminKeeps ==
  ASSUME LessonInv, NEW s \in PeriodStatus \ {"NONE"}, NEW f \in Fee, PeriodAdmin(s, f)
  PROVE  LessonInv'
<1>1. /\ UNCHANGED <<class, row, paid, made, edited>> /\ Request
      /\ period'.status = s /\ loose' = DOMAIN row
  BY DEF PeriodAdmin
<1>2. Tables' /\ DOMAIN class' = Class
  BY <1>1 DEF LessonInv, Frame, Tables
<1>3. Frame' /\ Entries' /\ raced' = raced /\ \A v \in Worker : HoldStep(v)
  BY <1>1, <1>2, RequestFrame
<1>4. \A r \in DOMAIN row' \ (edited' \cup raced') : RegisterStep(r)
  BY <1>1 DEF RegisterStep
<1> QED
  BY <1>1, <1>2, <1>3, <1>4, StepKeeps

LEMMA ClassFormKeeps ==
  ASSUME LessonInv, NEW c \in Class, NEW f \in Fee \cup {Inherit}, ClassForm(c, f)
  PROVE  LessonInv'
<1>1. /\ UNCHANGED <<period, row, paid, made, edited>> /\ Request
      /\ class' = [class EXCEPT ![c] = f] /\ loose' = loose \cup RowsOf(c)
  BY DEF ClassForm
<1>2. Tables' /\ DOMAIN class' = Class
  BY <1>1 DEF LessonInv, Frame, Tables
<1>3. /\ Frame' /\ Entries' /\ raced' = raced /\ job' = job
      /\ \A v \in Worker : HoldStep(v)
  BY <1>1, <1>2, RequestFrame
<1>4. \A r \in DOMAIN row' \ (edited' \cup raced') : RegisterStep(r)
  BY <1>1 DEF RegisterStep
<1>5. ASSUME NEW r \in DOMAIN row' \ loose'
      PROVE  OldRow(r)
  <2>1. r \in DOMAIN row \ loose /\ row[r].class # c
    BY <1>1, <1>5 DEF RowsOf
  <2>2. row[r].class \in DOMAIN class
    BY <2>1 DEF LessonInv, SettledAt
  <2>3. class'[row[r].class] = class[row[r].class]
    BY <1>1, <2>1, <2>2
  <2>4. \A v \in Worker : job[v].row = r /\ Paying(job[v])
                            => job'[v].row = r /\ Paying(job'[v])
    BY <1>3
  <2> QED
    BY <1>1, <2>1, <2>3, <2>4, KeepRow
<1>6. period'.status = "NONE" => period'.fee = 0
  BY <1>1 DEF LessonInv
<1> QED
  BY <1>1, <1>2, <1>3, <1>4, <1>5, <1>6, StepKeeps

\* A request has read something, and waits.
LEMMA BeginKeeps ==
  ASSUME LessonInv, NEW w \in Worker, NEW j, Begin(w, j),
         UNCHANGED <<class, row, paid, made, edited, loose>>, period'.fee = period.fee,
         period'.status = "NONE" => period'.fee = 0,
         Shaped(j), j.new = <<>>,
         \/ j.row = 0
         \/ /\ j.row \in DOMAIN row /\ j.copy = {row[j.row]}
            /\ j.fee \in {Unread, FeeOf(row[j.row].class)}
            /\ j.phase = "register" => row[j.row].student = "none"
  PROVE  LessonInv'
<1>1. /\ Frame' /\ raced \subseteq raced'
      /\ \A v \in Worker : job'[v] = IF v = w THEN j ELSE job[v]
  BY NoJobShaped, BeginFrame DEF LessonInv
<1>2. \A v \in Worker : job'[v].new \in {job[v].new, <<>>}
  BY <1>1
<1>3. Entries'
  BY <1>2, EntriesKept DEF LessonInv
<1>4. ASSUME NEW v \in Worker
      PROVE  HoldStep(v)
  BY <1>1 DEF HoldStep
<1>5. \A v \in Worker : ~ Paying(job[v]) \/ (job'[v].row = job[v].row /\ Paying(job'[v]))
  <2>1. ~ Paying(job[w])
    BY DEF Begin, Paying
  <2> QED
    BY <1>1, <2>1
<1>6. /\ DOMAIN class' = Class
      /\ \A r \in DOMAIN row' \ (edited' \cup raced') : RegisterStep(r)
      /\ \A r \in DOMAIN row' \ loose' : OldRow(r) \/ NewRow(r)
  BY <1>5, RowsStay
<1> QED
  BY <1>1, <1>3, <1>4, <1>6, StepKeeps

LEMMA CloseOpenKeeps ==
  ASSUME LessonInv, NEW w \in Worker, CloseOpen(w)
  PROVE  LessonInv'
<1> DEFINE j == [NoJob EXCEPT !.phase = "close", !.old = {period}]
<1>1. Begin(w, j) /\ UNCHANGED <<period, class, row, paid, made, edited, loose>>
  BY DEF CloseOpen
<1>2. Shaped(j) /\ j.new = <<>> /\ j.row = 0
  BY DEF Shaped, NoJob
<1>3. period'.fee = period.fee /\ (period'.status = "NONE" => period'.fee = 0)
  BY <1>1 DEF LessonInv
<1> HIDE DEF j
<1> QED
  BY <1>1, <1>2, <1>3, BeginKeeps

LEMMA DeleteOpenKeeps ==
  ASSUME LessonInv, NEW w \in Worker, NEW c \in Class, DeleteOpen(w, c)
  PROVE  LessonInv'
<1> DEFINE j == [NoJob EXCEPT !.phase = "delete", !.class = {c}]
<1>1. Begin(w, j) /\ UNCHANGED <<period, class, row, paid, made, edited, loose>>
  BY DEF DeleteOpen
<1>2. Shaped(j) /\ j.new = <<>> /\ j.row = 0
  BY DEF Shaped, NoJob
<1>3. period'.fee = period.fee /\ (period'.status = "NONE" => period'.fee = 0)
  BY <1>1 DEF LessonInv
<1> HIDE DEF j
<1> QED
  BY <1>1, <1>2, <1>3, BeginKeeps

LEMMA ImportStartKeeps ==
  ASSUME LessonInv, NEW w \in Worker, NEW dry, ImportStart(w, dry)
  PROVE  LessonInv'
<1> DEFINE j == [NoJob EXCEPT !.phase = "import", !.next = 1, !.dry = dry]
<1>1. /\ Begin(w, j) /\ UNCHANGED <<class, row, paid, made, edited, loose>>
      /\ period' = IF period.status = "NONE" THEN [status |-> "OPEN", fee |-> 0]
                   ELSE period
  BY DEF ImportStart
<1>2. Shaped(j) /\ j.new = <<>> /\ j.row = 0
  BY DEF Shaped, NoJob
<1>3. period'.fee = period.fee /\ (period'.status = "NONE" => period'.fee = 0)
  BY <1>1 DEF LessonInv
<1> HIDE DEF j
<1> QED
  BY <1>1, <1>2, <1>3, BeginKeeps

LEMMA OpenedKeeps ==
  ASSUME LessonInv, NEW w \in Worker, NEW r \in DOMAIN row, NEW p, NEW a, NEW f,
         Opened(w, r, p, a, f), f \in {Unread, FeeOf(row[r].class)},
         p = "register" => row[r].student = "none"
  PROVE  LessonInv'
<1> DEFINE j == [NoJob EXCEPT !.phase = p, !.row = r, !.copy = {row[r]},
                              !.amount = a, !.fee = f]
<1>1. Begin(w, j) /\ UNCHANGED <<period, class, row, paid, made, edited, loose>>
  BY DEF Opened
<1>2. /\ Shaped(j) /\ j.new = <<>> /\ j.row = r /\ j.copy = {row[r]} /\ j.fee = f
      /\ j.phase = p
  BY DEF Shaped, NoJob
<1>3. period'.fee = period.fee /\ (period'.status = "NONE" => period'.fee = 0)
  BY <1>1 DEF LessonInv
<1> HIDE DEF j
<1>4. /\ j.row \in DOMAIN row /\ j.copy = {row[j.row]}
      /\ j.fee \in {Unread, FeeOf(row[j.row].class)}
      /\ j.phase = "register" => row[j.row].student = "none"
  BY <1>2
<1> QED
  BY <1>1, <1>2, <1>3, <1>4, BeginKeeps

LEMMA CloseSaveKeeps ==
  ASSUME LessonInv, NEW w \in Worker, CloseSave(w)
  PROVE  LessonInv'
<1>1. PICK p \in job[w].old :
        /\ period' = [status |-> "CLOSED", fee |-> p.fee]
        /\ loose' = IF p.fee # period.fee THEN DOMAIN row ELSE loose
  BY DEF CloseSave
<1>2. /\ Move(w, NoJob) /\ raced' = raced /\ edited' = edited
      /\ UNCHANGED <<class, row, paid, made>> /\ job[w].phase = "close"
  BY DEF CloseSave, Step
<1>3. Tables' /\ DOMAIN class' = Class
  BY <1>2 DEF LessonInv, Frame, Tables
<1>4. /\ Frame' /\ Entries' /\ \A v \in Worker : HoldStep(v)
      /\ \A v \in Worker : job'[v] = IF v = w THEN NoJob ELSE job[v]
  BY <1>2, <1>3, NoJobShaped, GoStep
<1>5. \A r \in DOMAIN row' \ (edited' \cup raced') : RegisterStep(r)
  BY <1>2 DEF RegisterStep
<1>6. \A r \in DOMAIN row' \ loose' : OldRow(r) \/ NewRow(r)
  <2>1. CASE p.fee # period.fee
    BY <1>1, <1>2, <2>1
  <2>2. CASE p.fee = period.fee
    <3>1. period'.fee = period.fee /\ loose \subseteq loose'
      BY <1>1, <2>2
    <3>2. \A v \in Worker :
            ~ Paying(job[v]) \/ (job'[v].row = job[v].row /\ Paying(job'[v]))
      BY <1>2, <1>4 DEF Paying
    <3> QED
      BY <1>2, <3>1, <3>2, RowsStay
  <2> QED
    BY <2>1, <2>2
<1>7. period'.status = "NONE" => period'.fee = 0
  BY <1>1
<1> QED
  BY <1>2, <1>3, <1>4, <1>5, <1>6, <1>7, StepKeeps

LEMMA DeleteRunKeeps ==
  ASSUME LessonInv, NEW w \in Worker, DeleteRun(w)
  PROVE  LessonInv'
<1> DEFINE gone(r) == row[r].class \in job[w].class
<1>1. /\ Move(w, NoJob) /\ raced' = raced /\ edited' = edited /\ job[w].phase = "delete"
      /\ UNCHANGED <<period, paid, made, loose>>
      /\ class' = [c \in Class |-> IF c \in job[w].class THEN NoClass ELSE class[c]]
      /\ row' = [r \in DOMAIN row |->
           [class |-> row[r].class, name |-> row[r].name, student |-> row[r].student,
            status |-> IF row[r].class \in job[w].class THEN "GONE" ELSE row[r].status,
            line |-> row[r].line]]
  BY DEF DeleteRun, Step
<1>2. /\ row' = [r \in DOMAIN row |-> row'[r]]
      /\ \A r \in DOMAIN row :
           /\ row'[r].class = row[r].class /\ row'[r].student = row[r].student
           /\ row'[r].status = IF gone(r) THEN "GONE" ELSE row[r].status
  BY <1>1
<1>3. /\ paid' = [r \in DOMAIN row |-> paid'[r]] /\ made' = [r \in DOMAIN row |-> made'[r]]
  <2>1. /\ paid = [i \in 1 .. Len(paid) |-> paid[i]] /\ DOMAIN paid = DOMAIN row
        /\ made = [i \in 1 .. Len(made) |-> made[i]] /\ DOMAIN made = DOMAIN row
    BY TableDomains DEF LessonInv, Frame, Tables, IsSeq
  <2> QED
    BY <1>1, <2>1
<1>4. Tables' /\ DOMAIN row' = DOMAIN row
  BY <1>2, <1>3, SameTables DEF LessonInv, Frame
<1>5. DOMAIN class' = Class
  BY <1>1
<1>6. /\ Frame' /\ Entries' /\ \A v \in Worker : HoldStep(v)
      /\ \A v \in Worker : job'[v] = IF v = w THEN NoJob ELSE job[v]
  BY <1>1, <1>4, NoJobShaped, GoStep
<1>7. \A r \in DOMAIN row' \ (edited' \cup raced') : RegisterStep(r)
  BY <1>1, <1>2, <1>4 DEF RegisterStep
<1>8. ASSUME NEW r \in DOMAIN row' \ loose'
      PROVE  OldRow(r)
  <2>1. r \in DOMAIN row \ loose
    BY <1>1, <1>4, <1>8
  <2>2. SettledAt(r)
    BY <2>1 DEF LessonInv
  <2>3. row'[r].status # "GONE" =>
          row[r].status # "GONE" /\ class'[row[r].class] = class[row[r].class]
    BY <1>1, <1>2, <2>1, <2>2 DEF SettledAt
  <2>4. row'[r].status = "REGISTERED" => row[r].status = "REGISTERED"
    BY <1>2, <2>1
  <2>5. \A v \in Worker : job[v].row = r /\ Paying(job[v])
                            => job'[v].row = r /\ Paying(job'[v])
    BY <1>1, <1>6 DEF Paying
  <2> QED
    BY <1>1, <1>2, <2>1, <2>3, <2>4, <2>5, KeepRow
<1>9. period'.status = "NONE" => period'.fee = 0
  BY <1>1 DEF LessonInv
<1> QED
  BY <1>1, <1>5, <1>6, <1>7, <1>8, <1>9, StepKeeps
-----------------------------------------------------------------------------
(* Registrations *)

LEMMA TableFunctions ==
  ASSUME Tables
  PROVE  /\ row = [r \in DOMAIN row |-> row[r]] /\ paid = [r \in DOMAIN row |-> paid[r]]
         /\ made = [r \in DOMAIN row |-> made[r]]
         /\ DOMAIN paid = DOMAIN row /\ DOMAIN made = DOMAIN row
<1>1. /\ row = [i \in 1 .. Len(row) |-> row[i]]
      /\ paid = [i \in 1 .. Len(paid) |-> paid[i]]
      /\ made = [i \in 1 .. Len(made) |-> made[i]]
  BY DEF Tables, IsSeq
<1> QED
  BY <1>1, TableDomains DEF Tables

LEMMA EnrolKeeps ==
  ASSUME LessonInv, NEW c \in Class, NEW name, NEW student \in {"none", "linked"},
         NEW status, Enrol(c, name, student, status)
  PROVE  LessonInv'
<1> DEFINE new == <<[row |-> Typed(c, name, student, status, 0), paid |-> 0, fee |-> 0]>>
<1>1. /\ class[c] # NoClass /\ Request /\ Enrolled(new)
      /\ loose' = IF status = "REGISTERED" THEN loose ELSE loose \cup {Len(row) + 1}
      /\ UNCHANGED <<period, class, edited>>
  BY DEF Enrol
<1>2. /\ IsSeq(new) /\ DOMAIN new = {1}
      /\ new[1].row.class = c /\ new[1].row.status = status /\ new[1].paid = 0
      /\ new[1].row.student # "gone"
  <2>1. new \in Seq({new[1]})
    OBVIOUS
  <2>2. IsSeq(new)
    BY <2>1, TypedSeq
  <2> QED
    BY <2>2 DEF Typed
<1> HIDE DEF new
<1>3. /\ Tables'
      /\ \A r \in DOMAIN row : /\ r \in DOMAIN row' /\ row'[r] = row[r]
                               /\ paid'[r] = paid[r] /\ made'[r] = made[r]
      /\ \A r \in DOMAIN row' \ DOMAIN row :
           \E i \in DOMAIN new : /\ r = Len(row) + i /\ row'[r] = new[i].row
                                 /\ paid'[r] = new[i].paid /\ made'[r] = 0
  BY <1>1, <1>2, EnrolledTables DEF LessonInv, Frame
<1>4. /\ Frame' /\ Entries' /\ raced' = raced /\ job' = job
      /\ \A v \in Worker : HoldStep(v)
  BY <1>1, <1>3, RequestFrame
<1>5. \A r \in DOMAIN row' \ (edited' \cup raced') : RegisterStep(r)
  BY <1>3 DEF RegisterStep
<1>6. ASSUME NEW r \in DOMAIN row' \ loose'
      PROVE  OldRow(r) \/ NewRow(r)
  <2>1. CASE r \in DOMAIN row
    <3>1. r \in DOMAIN row \ loose /\ row'[r] = row[r] /\ paid'[r] = paid[r]
      BY <1>1, <1>3, <1>6, <2>1
    <3>2. \A v \in Worker : job[v].row = r /\ Paying(job[v])
                              => job'[v].row = r /\ Paying(job'[v])
      BY <1>4
    <3> QED
      BY <1>1, <3>1, <3>2, KeepRow
  <2>2. CASE r \notin DOMAIN row
    <3>1. /\ r = Len(row) + 1 /\ row'[r] = new[1].row /\ paid'[r] = 0
          /\ row'[r].student # "gone"
      BY <1>2, <1>3, <1>6, <2>2
    <3> QED
      BY <1>1, <1>2, <2>2, <3>1 DEF NewRow
  <2> QED
    BY <2>1, <2>2
<1>7. DOMAIN class' = Class /\ (period'.status = "NONE" => period'.fee = 0)
  BY <1>1 DEF LessonInv
<1>8. loose \subseteq loose' /\ edited' = edited
  BY <1>1
<1> QED
  BY <1>4, <1>5, <1>6, <1>7, <1>8, StepKeeps

LEMMA EditFormKeeps ==
  ASSUME LessonInv, NEW r \in DOMAIN row, NEW c, NEW name, NEW student, NEW status,
         EditForm(r, c, name, student, status)
  PROVE  LessonInv'
<1> DEFINE typed == Typed(c, name, student, status, row[r].line)
<1>1. /\ Request /\ row' = [row EXCEPT ![r] = typed]
      /\ edited' = edited \cup {r} /\ loose' = loose \cup {r}
      /\ UNCHANGED <<period, class, paid, made>>
  BY DEF EditForm
<1> HIDE DEF typed
<1>2. /\ DOMAIN row' = DOMAIN row /\ \A q \in DOMAIN row : q # r => row'[q] = row[q]
      /\ row' = [q \in DOMAIN row |-> row'[q]]
  BY <1>1
<1>3. Tables'
  BY <1>1, <1>2, TableFunctions, SameTables DEF LessonInv, Frame
<1>4. /\ Frame' /\ Entries' /\ raced' = raced /\ job' = job
      /\ \A v \in Worker : HoldStep(v)
  BY <1>1, <1>2, <1>3, RequestFrame
<1>5. \A q \in DOMAIN row' \ (edited' \cup raced') : RegisterStep(q)
  BY <1>1, <1>2 DEF RegisterStep
<1>6. ASSUME NEW q \in DOMAIN row' \ loose'
      PROVE  OldRow(q)
  <2>1. q \in DOMAIN row \ loose /\ row'[q] = row[q] /\ paid'[q] = paid[q]
    BY <1>1, <1>2, <1>6
  <2>2. \A v \in Worker : job[v].row = q /\ Paying(job[v])
                            => job'[v].row = q /\ Paying(job'[v])
    BY <1>4
  <2> QED
    BY <1>1, <2>1, <2>2, KeepRow
<1>7. /\ DOMAIN class' = Class /\ (period'.status = "NONE" => period'.fee = 0)
      /\ edited \subseteq edited'
  BY <1>1 DEF LessonInv
<1> QED
  BY <1>4, <1>5, <1>6, <1>7, StepKeeps

\* A student is deleted: the registrations that lose the link count as edited.
LEMMA DeletedStudent ==
  ASSUME LessonInv, NEW gone \in SUBSET DOMAIN row, DeleteStudent(gone)
  PROVE  /\ Tables' /\ DOMAIN row' = DOMAIN row
         /\ \A r \in DOMAIN row : /\ row'[r].class = row[r].class
                                  /\ row'[r].name = row[r].name
                                  /\ row'[r].status = row[r].status
                                  /\ row'[r].line = row[r].line
                                  /\ r \notin gone => /\ row'[r].student = row[r].student
                                                      /\ paid'[r] = paid[r]
         /\ edited' = edited \cup gone /\ loose' = loose \cup gone
         /\ UNCHANGED <<period, class, made, raced, crossed>>
<1>1. /\ row' = [r \in DOMAIN row |->
           Typed(row[r].class, row[r].name, IF r \in gone THEN "none" ELSE row[r].student,
                 row[r].status, row[r].line)]
      /\ job' = [w \in Worker |->
           IF job[w].row \in gone
           THEN [job[w] EXCEPT !.copy = {Orphaned(c) : c \in job[w].copy}] ELSE job[w]]
      /\ edited' = edited \cup gone /\ loose' = loose \cup gone
      /\ UNCHANGED <<period, class, made, raced, crossed>>
  BY DEF DeleteStudent
<1>2. PICK left \in [DOMAIN row -> UNION {0 .. paid[r] : r \in DOMAIN row}] :
        /\ \A r \in DOMAIN row : r \notin gone => left[r] = paid[r]
        /\ paid' = left
  BY DEF DeleteStudent
<1>3. paid' = [r \in DOMAIN row |-> paid'[r]]
      /\ \A r \in DOMAIN row : r \notin gone => paid'[r] = paid[r]
  BY <1>2
<1>4. /\ DOMAIN row' = DOMAIN row /\ row' = [r \in DOMAIN row |-> row'[r]]
      /\ \A r \in DOMAIN row : /\ row'[r].class = row[r].class
                               /\ row'[r].name = row[r].name
                               /\ row'[r].status = row[r].status
                               /\ row'[r].line = row[r].line
                               /\ r \notin gone => row'[r].student = row[r].student
  BY <1>1 DEF Typed
<1>5. Tables'
  BY <1>1, <1>3, <1>4, TableFunctions, SameTables DEF LessonInv, Frame
<1> QED
  BY <1>1, <1>3, <1>4, <1>5

SameStatuses(s, t) ==
  /\ \A c \in s : \E d \in t : c.status = d.status
  /\ \A d \in t : \E c \in s : c.status = d.status

LEMMA DeletedCopies ==
  ASSUME LessonInv, NEW gone \in SUBSET DOMAIN row, DeleteStudent(gone)
  PROVE  /\ job' = [v \in Worker |-> job'[v]]
         /\ \A v \in Worker :
              /\ Shaped(job'[v]) /\ job'[v].row = job[v].row /\ job'[v].phase = job[v].phase
              /\ job'[v].new = job[v].new /\ job'[v].fee = job[v].fee
              /\ job'[v].next = job[v].next
              /\ job[v].row \notin gone => job'[v].copy = job[v].copy
              /\ SameStatuses(job'[v].copy, job[v].copy)
<1>1. job' = [w \in Worker |->
        IF job[w].row \in gone
        THEN [job[w] EXCEPT !.copy = {Orphaned(c) : c \in job[w].copy}] ELSE job[w]]
  BY DEF DeleteStudent
<1>2. ASSUME NEW v \in Worker
      PROVE  /\ Shaped(job'[v]) /\ job'[v].row = job[v].row /\ job'[v].phase = job[v].phase
             /\ job'[v].new = job[v].new /\ job'[v].fee = job[v].fee
             /\ job'[v].next = job[v].next
             /\ job[v].row \notin gone => job'[v].copy = job[v].copy
             /\ SameStatuses(job'[v].copy, job[v].copy)
  <2>1. Shaped(job[v])
    BY DEF LessonInv, Frame, Jobs
  <2>2. PICK copy : copy = {Orphaned(c) : c \in job[v].copy}
    OBVIOUS
  <2>3. job'[v] = IF job[v].row \in gone THEN [job[v] EXCEPT !.copy = copy] ELSE job[v]
    BY <1>1, <2>2
  <2>4. CASE job[v].row \in gone
    <3>1. /\ Shaped(job'[v]) /\ job'[v].row = job[v].row /\ job'[v].phase = job[v].phase
          /\ job'[v].new = job[v].new /\ job'[v].fee = job[v].fee
          /\ job'[v].next = job[v].next /\ job'[v].copy = copy
      BY <2>1, <2>3, <2>4 DEF Shaped, NoJob
    <3>2. \A c : Orphaned(c).status = c.status
      BY SMT DEF Orphaned
    <3>3. SameStatuses(copy, job[v].copy)
      BY <2>2, <3>2 DEF SameStatuses
    <3> QED
      BY <2>4, <3>1, <3>3
  <2>5. CASE job[v].row \notin gone
    <3>1. job'[v] = job[v]
      BY <2>3, <2>5
    <3>2. SameStatuses(job[v].copy, job[v].copy)
      BY DEF SameStatuses
    <3> QED
      BY <2>1, <3>1, <3>2
  <2> QED
    BY <2>4, <2>5
<1> QED
  BY <1>1, <1>2

LEMMA DeleteStudentKeeps ==
  ASSUME LessonInv, NEW gone \in SUBSET DOMAIN row, DeleteStudent(gone)
  PROVE  LessonInv'
<1>1. /\ Tables' /\ DOMAIN row' = DOMAIN row
      /\ edited' = edited \cup gone /\ loose' = loose \cup gone
      /\ UNCHANGED <<period, class, made, raced>>
  BY DeletedStudent
<1>2. \A r \in DOMAIN row :
        /\ row'[r].class = row[r].class /\ row'[r].status = row[r].status
        /\ r \notin gone => row'[r].student = row[r].student /\ paid'[r] = paid[r]
  BY DeletedStudent
<1>3. /\ job' = [v \in Worker |-> job'[v]]
      /\ \A v \in Worker :
           /\ Shaped(job'[v]) /\ job'[v].row = job[v].row /\ job'[v].phase = job[v].phase
           /\ job'[v].new = job[v].new /\ job'[v].fee = job[v].fee
           /\ job[v].row \notin gone => job'[v].copy = job[v].copy
  BY DeletedCopies
<1>4. Jobs' /\ OneHolder'
  <2>1. \A w \in Worker : /\ Shaped(job'[w]) /\ IsSeq(job'[w].new)
                          /\ job'[w].row # 0 => job'[w].row \in DOMAIN row'
    BY <1>1, <1>3 DEF LessonInv, Frame, Jobs
  <2>2. Jobs'
    BY <1>3, <2>1 DEF Jobs, Shaped, NoJob, IsSeq, Values
  <2>3. OneHolder'
    BY <1>1, <1>3 DEF LessonInv, Frame, OneHolder
  <2> QED
    BY <2>2, <2>3
<1>5. Frame' /\ Entries'
  BY <1>1, <1>3, <1>4, EntriesKept DEF LessonInv, Frame
<1>6. \A v \in Worker : HoldStep(v)
  BY <1>1, <1>3 DEF HoldStep
<1>7. \A r \in DOMAIN row' \ (edited' \cup raced') : RegisterStep(r)
  BY <1>1, <1>2 DEF RegisterStep
<1>8. ASSUME NEW r \in DOMAIN row' \ loose'
      PROVE  OldRow(r)
  <2>1. /\ r \in DOMAIN row \ loose /\ r \notin gone
        /\ row'[r].class = row[r].class /\ row'[r].status = row[r].status
        /\ row'[r].student = row[r].student /\ paid'[r] = paid[r]
    BY <1>1, <1>2, <1>8
  <2>2. \A v \in Worker : job[v].row = r /\ Paying(job[v])
                            => job'[v].row = r /\ Paying(job'[v])
    BY <1>3 DEF Paying
  <2> QED
    BY <1>1, <2>1, <2>2, KeepRow
<1>9. DOMAIN class' = Class /\ (period'.status = "NONE" => period'.fee = 0)
  BY <1>1 DEF LessonInv
<1> QED
  BY <1>1, <1>5, <1>6, <1>7, <1>8, <1>9, StepKeeps

\* The copy of a request is saved with another status, and the request ends.
LEMMA SaveKeeps ==
  ASSUME LessonInv, NEW w \in Worker, NEW status \in {"CANCELLED", "PAID"},
         SaveCopy(w, status), Move(w, NoJob),
         UNCHANGED <<period, class, paid, made, edited, loose, raced>>
  PROVE  LessonInv'
<1> DEFINE h == job[w].row
<1>1. /\ Move(w, NoJob) /\ raced' = raced /\ edited' = edited
      /\ UNCHANGED <<period, class, paid, made, loose>>
  OBVIOUS
<1>2. PICK c \in job[w].copy :
        row' = IF Live(h) /\ c.student # "gone"
               THEN [row EXCEPT ![h] = Typed(c.class, c.name, c.student, status, c.line)]
               ELSE row
  BY DEF SaveCopy
<1>3. /\ DOMAIN row' = DOMAIN row
      /\ row' = [q \in DOMAIN row |-> row'[q]]
      /\ \A q \in DOMAIN row : q # h \/ ~ Live(h) \/ c.student = "gone" => row'[q] = row[q]
      /\ Live(h) /\ c.student # "gone" =>
           /\ row'[h].class = c.class /\ row'[h].student = c.student
           /\ row'[h].status = status
  BY <1>2, TableFunctions DEF Live, Typed, LessonInv, Frame
<1> HIDE DEF h
<1>4. Tables'
  BY <1>1, <1>3, TableFunctions, SameTables DEF LessonInv, Frame
<1>5. /\ Frame' /\ Entries' /\ \A v \in Worker : HoldStep(v)
      /\ \A v \in Worker : job'[v] = IF v = w THEN NoJob ELSE job[v]
  BY <1>1, <1>3, <1>4, NoJobShaped, GoStep
<1>6. ASSUME NEW q \in DOMAIN row' \ (edited' \cup raced')
      PROVE  RegisterStep(q)
  <2>1. RegisteredAt(q) /\ q \in DOMAIN row
    BY <1>1, <1>3, <1>6 DEF LessonInv
  <2>2. row'[q].student = row[q].student
    BY <1>3, <2>1 DEF RegisteredAt, h
  <2> QED
    BY <1>1, <2>1, <2>2 DEF RegisterStep
<1>7. ASSUME NEW q \in DOMAIN row' \ loose'
      PROVE  OldRow(q)
  <2>1. SettledAt(q) /\ q \in DOMAIN row \ loose
    BY <1>1, <1>3, <1>7 DEF LessonInv
  <2>2. CASE q = h /\ Live(h)
    <3>1. /\ row'[q].class = row[q].class /\ row'[q].status = status
          /\ row'[q].student # "gone"
      BY <1>3, <2>1, <2>2 DEF SettledAt, h
    <3> QED
      BY <1>1, <2>1, <2>2, <3>1, KeepRow DEF Live
  <2>3. CASE q # h \/ ~ Live(h)
    <3>1. row'[q] = row[q] /\ (row[q].status = "REGISTERED" => q # h)
      BY <1>3, <2>1, <2>3 DEF Live
    <3>2. row'[q].status = "REGISTERED" =>
            \A v \in Worker : job[v].row = q /\ Paying(job[v])
                                => job'[v].row = q /\ Paying(job'[v])
      BY <1>5, <3>1 DEF h
    <3> QED
      BY <1>1, <2>1, <3>1, <3>2, KeepRow
  <2> QED
    BY <2>2, <2>3
<1>8. DOMAIN class' = Class /\ (period'.status = "NONE" => period'.fee = 0)
  BY <1>1 DEF LessonInv
<1> QED
  BY <1>1, <1>5, <1>6, <1>7, <1>8, StepKeeps
-----------------------------------------------------------------------------
(* Payments *)

\* A request that has read a row goes on to another point, or ends.
LEMMA PhaseShaped ==
  ASSUME NEW j, Shaped(j), NEW p
  PROVE  /\ Shaped([j EXCEPT !.phase = p]) /\ [j EXCEPT !.phase = p].phase = p
         /\ [j EXCEPT !.phase = p].row = j.row /\ [j EXCEPT !.phase = p].copy = j.copy
         /\ [j EXCEPT !.phase = p].fee = j.fee /\ [j EXCEPT !.phase = p].new = j.new
BY DEF Shaped, NoJob

LEMMA PayCreateKeeps ==
  ASSUME LessonInv, NEW w \in Worker, PayCreate(w)
  PROVE  LessonInv'
<1> DEFINE h == job[w].row
           next == [job[w] EXCEPT !.phase = "receipt"]
<1>1. /\ job[w].phase = "pay" /\ UNCHANGED <<period, class, row, made, loose>>
      /\ raced' = raced /\ edited' = edited
      /\ paid' = [paid EXCEPT ![h] = @ + job[w].amount] /\ Move(w, next)
  BY Zenon DEF PayCreate, Step
<1>2. Shaped(job[w])
  BY DEF LessonInv, Frame, Jobs
<1>3. /\ Shaped(next) /\ next.row = h /\ next.copy = job[w].copy /\ next.fee = job[w].fee
      /\ next.new = job[w].new /\ next.phase = "receipt"
  BY <1>2, PhaseShaped
<1> HIDE DEF next, h
<1>4. /\ paid' = [q \in DOMAIN row |-> paid'[q]]
      /\ \A q \in DOMAIN row : q # h => paid'[q] = paid[q]
  <2>1. paid = [q \in DOMAIN row |-> paid[q]]
    BY TableFunctions DEF LessonInv, Frame
  <2> QED
    BY <1>1, <2>1
<1>5. Tables' /\ DOMAIN row' = DOMAIN row
  BY <1>1, <1>4, TableFunctions, SameTables DEF LessonInv, Frame
<1>6. /\ Frame' /\ Entries' /\ \A v \in Worker : HoldStep(v)
      /\ \A v \in Worker : job'[v] = IF v = w THEN next ELSE job[v]
  BY <1>1, <1>3, <1>5, GoStep DEF h
<1>7. \A q \in DOMAIN row' \ (edited' \cup raced') : RegisterStep(q)
  BY <1>1 DEF RegisterStep
<1>8. ASSUME NEW q \in DOMAIN row' \ loose'
      PROVE  OldRow(q)
  <2>1. q \in DOMAIN row \ loose /\ row'[q] = row[q]
    BY <1>1, <1>8
  <2>2. \A v \in Worker : job[v].row = q /\ Paying(job[v])
                            => job'[v].row = q /\ Paying(job'[v])
    BY <1>1, <1>6 DEF Paying
  <2>3. CASE q = h
    <3>1. job'[w].row = q /\ Paying(job'[w])
      BY <1>3, <1>6, <2>3 DEF Paying
    <3> QED
      BY <1>1, <2>1, <3>1, KeepRow
  <2>4. CASE q # h
    <3>1. paid'[q] = paid[q]
      BY <1>4, <2>1, <2>4
    <3> QED
      BY <1>1, <2>1, <2>2, <3>1, KeepRow
  <2> QED
    BY <2>3, <2>4
<1>9. DOMAIN class' = Class /\ (period'.status = "NONE" => period'.fee = 0)
  BY <1>1 DEF LessonInv
<1> QED
  BY <1>1, <1>6, <1>7, <1>8, <1>9, StepKeeps

\* A request looks at what it has read: it goes on, or its row needs nothing more.
LEMMA LookKeeps ==
  ASSUME LessonInv, NEW w \in Worker, NEW p \in {"sum", "save"}, NEW j,
         Move(w, j), UNCHANGED <<period, class, row, paid, made, loose, edited, raced>>,
         \/ j = [job[w] EXCEPT !.phase = p]
         \/ /\ j = NoJob
            /\ \A r \in DOMAIN row \ loose :
                 r = job[w].row /\ row[r].status = "REGISTERED"
                   => ~ (paid[r] >= FeeOf(row[r].class))
  PROVE  LessonInv'
<1>1. Shaped(job[w])
  BY DEF LessonInv, Frame, Jobs
<1>2. /\ Shaped(j) /\ j.new \in {job[w].new, <<>>}
      /\ \/ j.row = 0
         \/ /\ j.row = job[w].row /\ j.copy = job[w].copy /\ j.fee = job[w].fee
            /\ j.phase # "register"
      /\ \/ j.row = job[w].row /\ Paying(j)
         \/ \A r \in DOMAIN row \ loose :
                 r = job[w].row /\ row[r].status = "REGISTERED"
                   => ~ (paid[r] >= FeeOf(row[r].class))
  <2>1. CASE j = [job[w] EXCEPT !.phase = p]
    <3>1. /\ Shaped(j) /\ j.row = job[w].row /\ j.copy = job[w].copy
          /\ j.fee = job[w].fee /\ j.new = job[w].new /\ j.phase = p
      BY <1>1, <2>1, PhaseShaped
    <3> QED
      BY <3>1 DEF Paying
  <2>2. CASE /\ j = NoJob
             /\ \A r \in DOMAIN row \ loose :
                  r = job[w].row /\ row[r].status = "REGISTERED"
                    => ~ (paid[r] >= FeeOf(row[r].class))
    BY <2>2, NoJobShaped
  <2> QED
    BY <2>1, <2>2
<1>3. Tables' /\ DOMAIN row' = DOMAIN row /\ DOMAIN class' = Class
  BY DEF LessonInv, Frame, Tables
<1>4. /\ Frame' /\ Entries' /\ \A v \in Worker : HoldStep(v)
      /\ \A v \in Worker : job'[v] = IF v = w THEN j ELSE job[v]
  BY <1>2, <1>3, GoStep
<1>5. \A r \in DOMAIN row' \ (edited' \cup raced') : RegisterStep(r)
  BY DEF RegisterStep
<1>6. ASSUME NEW r \in DOMAIN row' \ loose'
      PROVE  OldRow(r)
  <2>1. r \in DOMAIN row \ loose /\ row'[r] = row[r] /\ paid'[r] = paid[r]
    BY <1>6
  <2>2. CASE job[w].row = r => (j.row = r /\ Paying(j))
    <3>1. \A v \in Worker : job[v].row = r /\ Paying(job[v])
                              => job'[v].row = r /\ Paying(job'[v])
      BY <1>4, <2>2
    <3> QED
      BY <2>1, <3>1, KeepRow
  <2>3. CASE row[r].status = "REGISTERED" => ~ (paid[r] >= FeeOf(row[r].class))
    <3>1. FeeNext(row[r].class) = FeeOf(row[r].class)
      BY DEF FeeNext, FeeOf
    <3> QED
      BY <2>1, <2>3, <3>1, KeepRow
  <2> QED
    BY <1>2, <2>1, <2>2, <2>3
<1>7. period'.status = "NONE" => period'.fee = 0
  BY DEF LessonInv
<1> QED
  BY <1>3, <1>4, <1>5, <1>6, <1>7, StepKeeps

LEMMA PayReceiptKeeps ==
  ASSUME LessonInv, NEW w \in Worker, PayReceipt(w)
  PROVE  LessonInv'
<1> DEFINE next == [job[w] EXCEPT !.phase = "sum"]
<1>1. PICK c \in job[w].copy :
        Move(w, IF c.status = "REGISTERED" /\ c.student # "gone" THEN next ELSE NoJob)
  BY Zenon DEF PayReceipt, Step
<1>2. UNCHANGED <<period, class, row, paid, made, loose, edited, raced>>
  BY Zenon DEF PayReceipt, Step
<1> HIDE DEF next
<1>3. CASE Move(w, next)
  BY <1>2, <1>3, LookKeeps DEF next
<1>4. CASE ~ (c.status = "REGISTERED" /\ c.student # "gone") /\ Move(w, NoJob)
  <2>1. ASSUME NEW r \in DOMAIN row \ loose, r = job[w].row
        PROVE  row[r].status # "REGISTERED"
    BY <1>4, <2>1 DEF LessonInv, SettledAt
  <2> QED
    BY <1>2, <1>4, <2>1, LookKeeps
<1> QED
  BY <1>1, <1>3, <1>4

LEMMA PaySumKeeps ==
  ASSUME LessonInv, NEW w \in Worker, PaySum(w)
  PROVE  LessonInv'
<1> DEFINE next == [job[w] EXCEPT !.phase = "save"]
           h == job[w].row
           fee(c) == IF job[w].fee = Unread THEN FeeOf(c.class) ELSE job[w].fee
<1>1. PICK c \in job[w].copy :
        \/ Move(w, next)
        \/ ~ (class[c.class] # NoClass /\ paid[h] >= fee(c)) /\ Move(w, NoJob)
  BY Zenon DEF PaySum, Step
<1>2. UNCHANGED <<period, class, row, paid, made, loose, edited, raced>>
  BY Zenon DEF PaySum, Step
<1>3. CASE Move(w, next)
  BY <1>2, <1>3, LookKeeps
<1>4. CASE ~ (class[c.class] # NoClass /\ paid[h] >= fee(c)) /\ Move(w, NoJob)
  <2>1. ASSUME NEW r \in DOMAIN row \ loose, r = h, row[r].status = "REGISTERED"
        PROVE  ~ (paid[r] >= FeeOf(row[r].class))
    <3>1. SettledAt(r)
      BY DEF LessonInv
    <3>2. c.class = row[r].class /\ class[c.class] # NoClass
      BY <2>1, <3>1 DEF SettledAt
    <3>3. fee(c) = FeeOf(row[r].class)
      BY <2>1, <3>1, <3>2 DEF SettledAt
    <3> HIDE DEF fee
    <3> QED
      BY <1>4, <2>1, <3>2, <3>3
  <2> QED
    BY <1>2, <1>4, <2>1, LookKeeps
<1> QED
  BY <1>1, <1>3, <1>4
-----------------------------------------------------------------------------
(* The registration of a student, and requests that end *)

\* A request ends and writes nothing.
LEMMA EndKeeps ==
  ASSUME LessonInv, NEW w \in Worker, Move(w, NoJob), loose \subseteq loose',
         UNCHANGED <<period, class, row, paid, made, edited, raced>>,
         Paying(job[w]) => job[w].row \in loose'
  PROVE  LessonInv'
<1>1. Tables'
  BY DEF LessonInv, Frame, Tables
<1>2. /\ Frame' /\ Entries' /\ \A v \in Worker : HoldStep(v)
      /\ \A v \in Worker : job'[v] = IF v = w THEN NoJob ELSE job[v]
  BY <1>1, NoJobShaped, GoStep
<1>3. \A v \in Worker : \/ ~ Paying(job[v]) \/ job[v].row \in loose'
                        \/ job'[v].row = job[v].row /\ Paying(job'[v])
  BY <1>2
<1>4. /\ DOMAIN class' = Class
      /\ \A r \in DOMAIN row' \ (edited' \cup raced') : RegisterStep(r)
      /\ \A r \in DOMAIN row' \ loose' : OldRow(r) \/ NewRow(r)
  BY <1>3, RowsStay
<1>5. period'.status = "NONE" => period'.fee = 0
  BY DEF LessonInv
<1> QED
  BY <1>2, <1>4, <1>5, StepKeeps

LEMMA CrashKeeps ==
  ASSUME LessonInv, NEW w \in Worker, Crash(w)
  PROVE  LessonInv'
<1>1. /\ Move(w, NoJob) /\ loose \subseteq loose'
      /\ UNCHANGED <<period, class, row, paid, made, edited, raced>>
      /\ Paying(job[w]) => job[w].row \in loose'
  BY DEF Crash, Paying
<1> QED
  BY <1>1, EndKeeps

LEMMA PayRefusedKeeps ==
  ASSUME LessonInv, NEW w \in Worker, PayRefused(w)
  PROVE  LessonInv'
<1>1. /\ Move(w, NoJob) /\ loose \subseteq loose' /\ ~ Paying(job[w])
      /\ UNCHANGED <<period, class, row, paid, made, edited, raced>>
  BY DEF PayRefused, Step, Paying
<1> QED
  BY <1>1, EndKeeps

LEMMA RegisterRefusedKeeps ==
  ASSUME LessonInv, NEW w \in Worker, RegisterRefused(w)
  PROVE  LessonInv'
<1>1. /\ Move(w, NoJob) /\ loose \subseteq loose' /\ ~ Paying(job[w])
      /\ UNCHANGED <<period, class, row, paid, made, edited, raced>>
  BY DEF RegisterRefused, Step, Paying
<1> QED
  BY <1>1, EndKeeps

LEMMA RegisterCommitKeeps ==
  ASSUME LessonInv, NEW w \in Worker, RegisterCommit(w)
  PROVE  LessonInv'
<1> DEFINE h == job[w].row
           linked == Typed(row[h].class, NoName, "linked", row[h].status, row[h].line)
<1>1. /\ job[w].phase = "register" /\ Live(h) /\ Move(w, NoJob)
      /\ row' = [row EXCEPT ![h] = linked] /\ made' = [made EXCEPT ![h] = @ + 1]
      /\ UNCHANGED <<period, class, paid, loose, edited, raced>>
  BY DEF RegisterCommit, Step
<1>2. /\ linked.class = row[h].class /\ linked.status = row[h].status
      /\ linked.student = "linked"
  BY DEF Typed
<1> HIDE DEF h, linked
<1>3. h \in DOMAIN row /\ h # 0
  <2>1. DOMAIN row = 1 .. Len(row)
    BY TableDomains DEF LessonInv, Frame
  <2> QED
    BY <1>1, <2>1 DEF Live
<1>4. /\ row' = [q \in DOMAIN row |-> row'[q]] /\ DOMAIN row' = DOMAIN row
      /\ \A q \in DOMAIN row : row'[q] = IF q = h THEN linked ELSE row[q]
      /\ made' = [q \in DOMAIN row |-> made'[q]]
      /\ \A q \in DOMAIN row : made'[q] = IF q = h THEN made[q] + 1 ELSE made[q]
  BY <1>1, <1>3, TableFunctions DEF LessonInv, Frame
<1>5. Tables'
  BY <1>1, <1>4, TableFunctions, SameTables DEF LessonInv, Frame
<1>6. /\ Frame' /\ Entries' /\ \A v \in Worker : HoldStep(v)
      /\ \A v \in Worker : job'[v] = IF v = w THEN NoJob ELSE job[v]
  BY <1>1, <1>4, <1>5, NoJobShaped, GoStep
<1>7. ASSUME NEW q \in DOMAIN row' \ (edited' \cup raced')
      PROVE  RegisterStep(q)
  <2>1. RegisteredAt(q) /\ q \in DOMAIN row /\ q \notin raced
    BY <1>1, <1>4, <1>7 DEF LessonInv
  <2>2. CASE q = h
    <3>1. made[q] = 0
      BY <1>1, <2>1, <2>2 DEF RegisteredAt, h
    <3>2. \A v \in Worker : job'[v].row # q
      BY <1>3, <1>6, <2>1, <2>2, NoJobShaped DEF LessonInv, Frame, OneHolder, h
    <3> QED
      BY <1>2, <1>4, <2>1, <2>2, <3>1, <3>2 DEF RegisterStep
  <2>3. CASE q # h
    BY <1>4, <2>1, <2>3 DEF RegisterStep
  <2> QED
    BY <2>2, <2>3
<1>8. ASSUME NEW q \in DOMAIN row' \ loose'
      PROVE  OldRow(q)
  <2>1. /\ q \in DOMAIN row \ loose /\ paid'[q] = paid[q]
        /\ row'[q].class = row[q].class /\ row'[q].status = row[q].status
        /\ row[q].student # "gone" => row'[q].student # "gone"
    BY <1>1, <1>2, <1>4, <1>8
  <2>2. \A v \in Worker : job[v].row = q /\ Paying(job[v])
                            => job'[v].row = q /\ Paying(job'[v])
    BY <1>1, <1>6 DEF Paying
  <2> QED
    BY <1>1, <2>1, <2>2, KeepRow
<1>9. DOMAIN class' = Class /\ (period'.status = "NONE" => period'.fee = 0)
  BY <1>1 DEF LessonInv
<1> QED
  BY <1>1, <1>6, <1>7, <1>8, <1>9, StepKeeps
-----------------------------------------------------------------------------
(* The import *)

LEMMA ImportRowKeeps ==
  ASSUME LessonInv, NEW w \in Worker, ImportRow(w)
  PROVE  LessonInv'
<1> DEFINE s == Sheet[job[w].next]
           fee == IF class[s.class] = NoClass THEN SheetFee ELSE class[s.class]
           full == s.paid > 0 /\ s.paid >= fee
           entry == [row |-> Typed(s.class, s.child, "none",
                                   IF full THEN "PAID" ELSE "REGISTERED", job[w].next),
                     paid |-> s.paid, fee |-> fee]
           more == [job[w] EXCEPT !.next = @ + 1, !.new = Append(@, entry)]
           same == [job[w] EXCEPT !.next = @ + 1]
<1>1. /\ job[w].phase = "import" /\ job[w].next \in DOMAIN Sheet
      /\ UNCHANGED <<period, class, row, paid, made, loose, edited, raced>>
      /\ \E j : j \in {NoJob, more, [job[w] EXCEPT !.next = @ + 1, !.new = @]}
                /\ Move(w, j)
  BY Zenon DEF ImportRow, Step
<1>2. s.class \in Class
  <2>1. Sheet \in Seq([class : Class, child : Child, paid : Amount \cup {0}])
    BY LessonsAssumption
  <2>2. s \in [class : Class, child : Child, paid : Amount \cup {0}]
    BY <1>1, <2>1, Element
  <2> QED
    BY <2>2
<1>3. /\ entry.row.class = s.class /\ entry.row.student # "gone"
      /\ ~ (entry.row.status = "REGISTERED" /\ entry.paid > 0 /\ entry.paid >= entry.fee)
  BY DEF Typed
<1> HIDE DEF entry, s
<1>4. Shaped(job[w]) /\ IsSeq(job[w].new)
  BY DEF LessonInv, Frame, Jobs
<1>5. [job[w] EXCEPT !.next = @ + 1, !.new = @] = same
  BY <1>4 DEF Shaped, NoJob
<1>6. /\ Shaped(more) /\ more.row = job[w].row /\ more.copy = job[w].copy
      /\ more.fee = job[w].fee /\ more.phase = job[w].phase
      /\ more.new = Append(job[w].new, entry)
      /\ Shaped(same) /\ same.row = job[w].row /\ same.copy = job[w].copy
      /\ same.fee = job[w].fee /\ same.phase = job[w].phase /\ same.new = job[w].new
  BY <1>4 DEF Shaped, NoJob
<1> HIDE DEF more, same
<1>7. PICK j \in {NoJob, more, same} : Move(w, j)
  BY <1>1, <1>5
<1>8. /\ Shaped(j) /\ j.row \in {0, job[w].row}
      /\ j.row = 0 \/ (/\ j.row = job[w].row /\ j.copy = job[w].copy
                       /\ j.fee = job[w].fee /\ j.phase # "register")
      /\ IsSeq(j.new)
      /\ \A i \in DOMAIN j.new : j.new[i] = entry
                                   \/ (i \in DOMAIN job[w].new /\ j.new[i] = job[w].new[i])
  <2>1. CASE j = NoJob
    BY <2>1, NoJobShaped
  <2>2. CASE j = more
    <3> DEFINE held == job[w].new
    <3>1. j.new = Append(held, entry) /\ IsSeq(held)
      BY <1>4, <1>6, <2>2
    <3> HIDE DEF held
    <3>2. /\ IsSeq(j.new)
          /\ \A i \in DOMAIN j.new : \/ j.new[i] = entry
                                     \/ i \in DOMAIN held /\ j.new[i] = held[i]
      BY <3>1, Extended
    <3>3. /\ Shaped(j) /\ j.row = job[w].row /\ j.copy = job[w].copy
          /\ j.fee = job[w].fee /\ j.phase # "register"
      BY <1>1, <1>6, <2>2
    <3> QED
      BY <3>2, <3>3 DEF held
  <2>3. CASE j = same
    BY <1>1, <1>4, <1>6, <2>3
  <2> QED
    BY <1>7, <2>1, <2>2, <2>3
<1>9. Tables' /\ DOMAIN row' = DOMAIN row
  BY <1>1 DEF LessonInv, Frame, Tables
<1>10. Frame' /\ \A v \in Worker : job'[v] = IF v = w THEN j ELSE job[v]
  BY <1>1, <1>7, <1>8, <1>9, GoFrame DEF LessonInv
<1>11. Entries'
  <2>1. ASSUME NEW v \in Worker, NEW i \in DOMAIN job'[v].new
        PROVE  LET e == job'[v].new[i] IN
               e.row.class \in Class /\ e.row.student # "gone"
               /\ ~ (e.row.status = "REGISTERED" /\ e.paid > 0 /\ e.paid >= e.fee)
    <3>1. CASE v = w /\ j.new[i] = entry
      BY <1>2, <1>3, <1>10, <3>1
    <3>2. CASE i \in DOMAIN job[v].new /\ job'[v].new[i] = job[v].new[i]
      BY <3>2 DEF LessonInv, Entries
    <3> QED
      BY <1>8, <1>10, <2>1, <3>1, <3>2
  <2> QED
    BY <2>1 DEF Entries
<1>12. \A v \in Worker : HoldStep(v)
  BY <1>8, <1>10 DEF HoldStep
<1>13. \A v \in Worker : ~ Paying(job[v]) \/ (job'[v].row = job[v].row /\ Paying(job'[v]))
  BY <1>1, <1>10 DEF Paying
<1>14. /\ DOMAIN class' = Class
       /\ \A r \in DOMAIN row' \ (edited' \cup raced') : RegisterStep(r)
       /\ \A r \in DOMAIN row' \ loose' : OldRow(r) \/ NewRow(r)
  BY <1>1, <1>13, RowsStay
<1>15. period'.status = "NONE" => period'.fee = 0
  BY <1>1 DEF LessonInv
<1> QED
  BY <1>1, <1>10, <1>11, <1>12, <1>14, <1>15, StepKeeps

LEMMA ImportCommitKeeps ==
  ASSUME LessonInv, NEW w \in Worker, ImportCommit(w)
  PROVE  LessonInv'
<1> DEFINE new == job[w].new
           opened == {new[i].row.class : i \in DOMAIN new}
           added == {Len(row) + i : i \in DOMAIN new}
           now == [c \in Class |-> IF class[c] = NoClass THEN SheetFee ELSE FeeOf(c)]
<1>1. /\ job[w].phase = "import" /\ Move(w, NoJob)
      /\ UNCHANGED <<period, edited>>
      /\ \/ UNCHANGED <<class, row, paid, made, loose, raced>>
         \/ /\ class' = [c \in Class |-> IF c \in opened /\ class[c] = NoClass
                                         THEN SheetFee ELSE class[c]]
            /\ Enrolled(new)
            /\ loose' = loose \cup
                 {Len(row) + i : i \in {k \in DOMAIN new :
                    new[k].paid > 0 /\ now[new[k].row.class] # new[k].fee}}
            /\ raced' = IF \E o \in Worker \ {w} : job[o].phase = "import"
                        THEN raced \cup added ELSE raced
  BY Zenon DEF ImportCommit
<1>2. CASE UNCHANGED <<class, row, paid, made, loose, raced>>
  BY <1>1, <1>2, EndKeeps DEF Paying
<1>3. CASE /\ class' = [c \in Class |-> IF c \in opened /\ class[c] = NoClass
                                        THEN SheetFee ELSE class[c]]
           /\ Enrolled(new)
           /\ loose' = loose \cup
                 {Len(row) + i : i \in {k \in DOMAIN new :
                    new[k].paid > 0 /\ now[new[k].row.class] # new[k].fee}}
           /\ raced \subseteq raced'
  <2>1. IsSeq(new)
    BY DEF LessonInv, Frame, Jobs
  <2>2. /\ Tables' /\ DOMAIN row \subseteq DOMAIN row'
        /\ \A r \in DOMAIN row : /\ r \in DOMAIN row' /\ row'[r] = row[r]
                                 /\ paid'[r] = paid[r] /\ made'[r] = made[r]
        /\ \A r \in DOMAIN row' \ DOMAIN row :
             \E i \in DOMAIN new : /\ r = Len(row) + i /\ row'[r] = new[i].row
                                   /\ paid'[r] = new[i].paid /\ made'[r] = 0
    BY <1>3, <2>1, EnrolledTables DEF LessonInv, Frame
  <2>3. /\ Frame' /\ Entries' /\ \A v \in Worker : HoldStep(v)
        /\ \A v \in Worker : job'[v] = IF v = w THEN NoJob ELSE job[v]
    BY <1>1, <1>3, <2>2, NoJobShaped, GoStep
  <2>4. \A r \in DOMAIN row' \ (edited' \cup raced') : RegisterStep(r)
    BY <2>2 DEF RegisterStep
  <2>5. /\ SheetFee # NoClass /\ SheetFee # Inherit
        /\ \A c \in Class : class[c] # NoClass => class'[c] = class[c]
        /\ \A c \in Class : class[c] = NoClass /\ c \in opened => class'[c] = SheetFee
        /\ DOMAIN class' = Class
    BY <1>3, LessonsAssumption
  <2>6. ASSUME NEW r \in DOMAIN row' \ loose'
        PROVE  OldRow(r) \/ NewRow(r)
    <3>1. CASE r \in DOMAIN row
      <4>1. r \in DOMAIN row \ loose /\ row'[r] = row[r] /\ paid'[r] = paid[r]
        BY <1>3, <2>2, <2>6, <3>1
      <4>2. row[r].status # "GONE" => class'[row[r].class] = class[row[r].class]
        <5>1. SettledAt(r)
          BY <4>1 DEF LessonInv
        <5> QED
          BY <2>5, <5>1 DEF SettledAt
      <4>3. \A v \in Worker : job[v].row = r /\ Paying(job[v])
                                => job'[v].row = r /\ Paying(job'[v])
        BY <1>1, <2>3 DEF Paying
      <4> QED
        BY <1>1, <4>1, <4>2, <4>3, KeepRow
    <3>2. CASE r \notin DOMAIN row
      <4>1. PICK i \in DOMAIN new : /\ r = Len(row) + i /\ row'[r] = new[i].row
                                    /\ paid'[r] = new[i].paid
        BY <2>2, <2>6, <3>2
      <4> DEFINE c == new[i].row.class
      <4>2. /\ c \in Class /\ c \in opened /\ new[i].row.student # "gone"
            /\ ~ (/\ new[i].row.status = "REGISTERED" /\ new[i].paid > 0
                  /\ new[i].paid >= new[i].fee)
        BY DEF LessonInv, Entries
      <4>3. ~ (new[i].paid > 0 /\ now[c] # new[i].fee)
        BY <1>3, <2>6, <4>1
      <4>4. class'[c] # NoClass /\ FeeNext(c) = now[c]
        BY <1>1, <2>5, <4>2 DEF FeeNext, FeeOf
      <4> HIDE DEF now, new, opened
      <4> QED
        BY <3>2, <4>1, <4>2, <4>3, <4>4 DEF NewRow
    <3> QED
      BY <3>1, <3>2
  <2>7. period'.status = "NONE" => period'.fee = 0
    BY <1>1 DEF LessonInv
  <2>8. loose \subseteq loose' /\ edited \subseteq edited' /\ raced \subseteq raced'
    BY <1>1, <1>3
  <2> HIDE DEF new, opened, added, now
  <2> QED
    BY <2>3, <2>4, <2>5, <2>6, <2>7, <2>8, StepKeeps
<1>4. (raced' = IF \E o \in Worker \ {w} : job[o].phase = "import"
                THEN raced \cup added ELSE raced) => raced \subseteq raced'
  BY Zenon
<1> QED
  BY <1>1, <1>2, <1>3, <1>4, Zenon
-----------------------------------------------------------------------------
(* The theorems *)

LEMMA InitInv == Init => LessonInv
<1> SUFFICES ASSUME Init PROVE LessonInv
  OBVIOUS
<1>1. Tables
  <2>1. IsSeq(<<>>) /\ Len(<<>>) = 0
    BY NoJobShaped
  <2> QED
    BY <2>1 DEF Init, Tables
<1>2. \A w \in Worker : job[w] = NoJob
  BY DEF Init
<1>3. Jobs
  BY <1>2, NoJobShaped DEF Init, Jobs
<1>4. OneHolder
  BY <1>2, NoJobShaped DEF OneHolder
<1>5. Entries
  BY <1>2, NoJobShaped DEF Entries
<1>6. DOMAIN row = {} /\ DOMAIN class = Class /\ period.fee = 0
  BY DEF Init
<1> QED
  BY <1>1, <1>3, <1>4, <1>5, <1>6 DEF LessonInv, Frame

LEMMA OfficeKeeps ==
  ASSUME LessonInv, Office
  PROVE  LessonInv'
<1>1. CASE \E s \in PeriodStatus \ {"NONE"} : PeriodForm(s)
  BY <1>1, PeriodFormKeeps
<1>2. CASE \E s \in PeriodStatus \ {"NONE"}, f \in Fee : PeriodAdmin(s, f)
  BY <1>2, PeriodAdminKeeps
<1>3. CASE \E c \in Class, f \in Fee \cup {Inherit} : ClassForm(c, f)
  BY <1>3, ClassFormKeeps
<1>4. ASSUME NEW c \in Class, NEW name \in Child \cup {NoName},
             NEW student \in {"none", "linked"}, NEW status \in Status,
             \/ Enrol(c, name, student, status)
             \/ \E r \in DOMAIN row : EditForm(r, c, name, student, status)
      PROVE  LessonInv'
  BY <1>4, EnrolKeeps, EditFormKeeps
<1>5. ASSUME NEW gone \in SUBSET DOMAIN row, DeleteStudent(gone)
      PROVE  LessonInv'
  BY <1>5, DeleteStudentKeeps
<1> QED
  BY <1>1, <1>2, <1>3, <1>4, <1>5 DEF Office

LEMMA RowStepKeeps ==
  ASSUME LessonInv, NEW w \in Worker, RowStep(w)
  PROVE  LessonInv'
<1>1. ASSUME NEW r \in DOMAIN row, CancelOpen(w, r)
      PROVE  LessonInv'
  BY <1>1, OpenedKeeps DEF CancelOpen
<1>2. ASSUME NEW r \in DOMAIN row, RegisterOpen(w, r)
      PROVE  LessonInv'
  BY <1>2, OpenedKeeps DEF RegisterOpen
<1>3. ASSUME NEW r \in DOMAIN row, NEW a \in Amount, PayOpen(w, r, a)
      PROVE  LessonInv'
  <2>1. PICK f \in {Unread, FeeOf(row[r].class)} : Opened(w, r, "pay", a, f)
    BY <1>3 DEF PayOpen
  <2> QED
    BY <2>1, OpenedKeeps
<1>4. CASE CancelSave(w)
  BY <1>4, SaveKeeps DEF CancelSave
<1>5. CASE PaySave(w)
  BY <1>5, SaveKeeps DEF PaySave, Step
<1> QED
  BY <1>1, <1>2, <1>3, <1>4, <1>5, RegisterCommitKeeps, RegisterRefusedKeeps,
     PayCreateKeeps, PayRefusedKeeps, PayReceiptKeeps, PaySumKeeps DEF RowStep

LEMMA ClassStepKeeps ==
  ASSUME LessonInv, NEW w \in Worker, ClassStep(w)
  PROVE  LessonInv'
BY CloseOpenKeeps, CloseSaveKeeps, DeleteOpenKeeps, DeleteRunKeeps, ImportStartKeeps,
   ImportRowKeeps, ImportCommitKeeps DEF ClassStep

LEMMA NextInv == LessonInv /\ [Next]_vars => LessonInv'
<1> SUFFICES ASSUME LessonInv, [Next]_vars PROVE LessonInv'
  OBVIOUS
<1>1. CASE Next
  BY <1>1, OfficeKeeps, RowStepKeeps, ClassStepKeeps, CrashKeeps DEF Next
<1>2. CASE UNCHANGED vars
  <2>1. /\ UNCHANGED <<period, class, row, paid, made, edited, loose, raced>>
        /\ job' = job
    BY <1>2 DEF vars
  <2>2. Tables'
    BY <2>1 DEF LessonInv, Frame, Tables
  <2>3. Frame' /\ Entries' /\ \A v \in Worker : HoldStep(v)
    BY <2>1, <2>2, JobsStay
  <2>6. /\ DOMAIN class' = Class
        /\ \A r \in DOMAIN row' \ (edited' \cup raced') : RegisterStep(r)
        /\ \A r \in DOMAIN row' \ loose' : OldRow(r) \/ NewRow(r)
    <3>1. \A v \in Worker : \/ ~ Paying(job[v]) \/ job[v].row \in loose'
                            \/ job'[v].row = job[v].row /\ Paying(job'[v])
      BY <2>1
    <3> QED
      BY <2>1, <3>1, RowsStay
  <2>7. period'.status = "NONE" => period'.fee = 0
    BY <2>1 DEF LessonInv
  <2> QED
    BY <2>1, <2>3, <2>6, <2>7, StepKeeps
<1> QED
  BY <1>1, <1>2

LEMMA Inductive == Spec => []LessonInv
BY InitInv, NextInv, PTL DEF Spec

\* A participant of a holiday lesson becomes a student of the school once, however the
\* registration interleaves with payments, cancellations, imports and deletions, unless
\* two requests held the row at a time or the office edited it.
THEOREM RegistersOnce == Spec => []RegisteredOnce
<1>1. LessonInv => RegisteredOnce
  BY DEF LessonInv, RegisteredAt, RegisteredOnce
<1> QED
  BY <1>1, Inductive, PTL

\* Whoever has paid the fee of a class gets PAID, or a request is about to write it,
\* however many payments, cancellations, registrations and imports go on at once.
THEOREM PaidInFullIsPaid == Spec => []SettledIsPaid
<1>1. ASSUME LessonInv, NEW r \in DOMAIN row \ loose,
             row[r].status = "REGISTERED", paid[r] > 0, paid[r] >= FeeOf(row[r].class)
      PROVE  \E w \in Holding(r) : job[w].phase \in {"receipt", "sum", "save"}
  <2>1. SettledAt(r)
    BY <1>1 DEF LessonInv
  <2>2. PICK w \in Worker : job[w].row = r /\ Paying(job[w])
    BY <1>1, <2>1 DEF SettledAt
  <2> QED
    BY <2>2 DEF Holding, Paying
<1>2. LessonInv => SettledIsPaid
  BY <1>1 DEF SettledIsPaid
<1> QED
  BY <1>2, Inductive, PTL

-----------------------------------------------------------------------------
(* Cancellations and repeated imports, on top of the invariant above.  What a *)
(* request has read of a row nobody else holds is what the row still says, so *)
(* saving the copy changes the status alone; and a row from the sheet keeps   *)
(* the name and the class an import will look for.                            *)

Fresh(r) == row[r].status # "GONE" /\ made[r] = 0

FromSheet(x) == x.class = Sheet[x.line].class /\ x.name = Sheet[x.line].child

\* Who holds the row has read what it says.
ReadRight(r) ==
  \A w \in Worker : job[w].row = r => \E c :
     /\ job[w].copy = {c}
     /\ c.class = row[r].class /\ c.name = row[r].name /\ c.line = row[r].line

\* What an import has in hand: rows of the sheet that are not registered yet.
InHand ==
  \A w \in Worker : \A i \in DOMAIN job[w].new :
    LET e == job[w].new[i].row IN
    /\ job[w].phase = "import"
    /\ e.line \in Nat /\ e.line # 0 /\ e.line < job[w].next /\ FromSheet(e)
    /\ \A k \in DOMAIN job[w].new : job[w].new[k].row.line = e.line => k = i
    /\ \A r \in DOMAIN row \ (edited \cup raced) : Fresh(r) => row[r].line # e.line

SheetInv ==
  /\ LessonInv /\ InHand /\ ImportIdempotent
  /\ \A r \in DOMAIN row \ (edited \cup raced) :
       ReadRight(r) /\ (Fresh(r) /\ row[r].line # 0 => FromSheet(row[r]))

\* How a step may go on with a row that was there ...
KeptRow(r) ==
  /\ r \in DOMAIN row' /\ row'[r].line = row[r].line
  /\ row'[r].status # "GONE" /\ made'[r] = 0 =>
       Fresh(r) /\ row'[r].class = row[r].class /\ row'[r].name = row[r].name
  /\ \A v \in Worker : job'[v].row = r =>
       row'[r].class = row[r].class /\ row'[r].name = row[r].name

\* ... and with what a request has read of one.
ReadStep(v) ==
  \/ job'[v].row = 0
  \/ job'[v].row = job[v].row /\ (job'[v].copy = job[v].copy \/ job'[v].row \in edited')
  \/ job'[v].row \in DOMAIN row /\ job'[v].copy = {row[job'[v].row]}

\* Nothing is added to what an import has in hand.
HandStep(v) ==
  \/ job'[v].new = <<>>
  \/ job'[v].new = job[v].new /\ job'[v].phase = job[v].phase /\ job'[v].next = job[v].next

RowsGoOn ==
  /\ edited \subseteq edited' /\ raced \subseteq raced'
  /\ \A r \in DOMAIN row \ (edited' \cup raced) : KeptRow(r)
  /\ \A v \in Worker : ReadStep(v)

LEMMA ReadRightKept ==
  ASSUME SheetInv, RowsGoOn, Tables', NEW r \in DOMAIN row' \ (edited' \cup raced')
  PROVE  ReadRight(r)'
<1>1. 0 \notin DOMAIN row'
  BY SeqShape DEF Tables
<1>2. ASSUME NEW w \in Worker, job'[w].row = r
      PROVE  r \in DOMAIN row
  BY <1>1, <1>2 DEF RowsGoOn, ReadStep, SheetInv, LessonInv, Frame, Jobs
<1>3. ASSUME NEW w \in Worker, job'[w].row = r
      PROVE  \E c :
             /\ job'[w].copy = {c}
             /\ c.class = row'[r].class /\ c.name = row'[r].name /\ c.line = row'[r].line
  <2>1. r \in DOMAIN row \ (edited' \cup raced) /\ r \in DOMAIN row \ (edited \cup raced)
    BY <1>2, <1>3 DEF RowsGoOn
  <2>2. /\ row'[r].line = row[r].line
        /\ row'[r].class = row[r].class /\ row'[r].name = row[r].name
    BY <1>3, <2>1 DEF RowsGoOn, KeptRow
  <2>3. CASE job'[w].row = job[w].row /\ job'[w].copy = job[w].copy
    <3>1. ReadRight(r)
      BY <2>1 DEF SheetInv
    <3> QED
      BY <1>3, <2>2, <2>3, <3>1 DEF ReadRight
  <2>4. CASE job'[w].copy = {row[r]}
    BY <1>3, <2>2, <2>4
  <2> QED
    BY <1>1, <1>3, <2>3, <2>4 DEF RowsGoOn, ReadStep
<1> QED
  BY <1>3 DEF ReadRight

\* A row that was there comes from where it came from.
LEMMA OldFromSheet ==
  ASSUME SheetInv, RowsGoOn, NEW r \in DOMAIN row \ (edited' \cup raced'), Fresh(r)'
  PROVE  /\ Fresh(r) /\ row'[r].line = row[r].line /\ r \in DOMAIN row \ (edited \cup raced)
         /\ row'[r].line # 0 => FromSheet(row'[r])
<1>1. r \in DOMAIN row \ (edited' \cup raced) /\ r \in DOMAIN row \ (edited \cup raced)
  BY DEF RowsGoOn
<1>2. /\ Fresh(r) /\ row'[r].line = row[r].line
      /\ row'[r].class = row[r].class /\ row'[r].name = row[r].name
  BY <1>1 DEF RowsGoOn, KeptRow, Fresh
<1> QED
  BY <1>1, <1>2 DEF SheetInv, FromSheet

\* Rows that are new were typed in, and imports have not gone on.
LEMMA SheetKept ==
  ASSUME SheetInv, LessonInv', RowsGoOn, \A v \in Worker : HandStep(v),
         \A r \in DOMAIN row' \ DOMAIN row : row'[r].line = 0
  PROVE  SheetInv'
<1>1. \A r \in DOMAIN row' \ (edited' \cup raced') : ReadRight(r)'
  BY ReadRightKept DEF LessonInv, Frame
<1>2. ASSUME NEW r \in DOMAIN row' \ (edited' \cup raced'), Fresh(r)', row'[r].line # 0
      PROVE  /\ r \in DOMAIN row \ (edited \cup raced) /\ Fresh(r)
             /\ row'[r].line = row[r].line /\ FromSheet(row'[r])
  <2>1. r \in DOMAIN row \ (edited' \cup raced')
    BY <1>2
  <2> QED
    BY <1>2, <2>1, OldFromSheet
<1>3. ImportIdempotent'
  <2>1. ASSUME NEW r \in DOMAIN row' \ (edited' \cup raced'),
               NEW s \in DOMAIN row' \ (edited' \cup raced'),
               row'[r].line = row'[s].line, row'[r].line # 0,
               Live(r)', Live(s)', made'[r] = 0, made'[s] = 0
        PROVE  r = s
    <3>1. Fresh(r)' /\ Fresh(s)'
      BY <2>1 DEF Live, Fresh
    <3>2. /\ r \in DOMAIN row \ (edited \cup raced) /\ s \in DOMAIN row \ (edited \cup raced)
          /\ Fresh(r) /\ Fresh(s) /\ row[r].line = row[s].line /\ row[r].line # 0
      BY <1>2, <2>1, <3>1
    <3> QED
      BY <3>2 DEF SheetInv, ImportIdempotent, Fresh, Live
  <2> QED
    BY <2>1 DEF ImportIdempotent
<1>4. InHand'
  <2>1. ASSUME NEW w \in Worker, NEW i \in DOMAIN job'[w].new
        PROVE  /\ job'[w].phase = "import" /\ job'[w].new[i].row.line \in Nat
               /\ job'[w].new[i].row.line # 0 /\ job'[w].new[i].row.line < job'[w].next
               /\ FromSheet(job'[w].new[i].row)
               /\ \A k \in DOMAIN job'[w].new :
                    job'[w].new[k].row.line = job'[w].new[i].row.line => k = i
               /\ \A r \in DOMAIN row' \ (edited' \cup raced') :
                    Fresh(r)' => row'[r].line # job'[w].new[i].row.line
    <3>1. /\ job'[w].new = job[w].new /\ job'[w].phase = job[w].phase
          /\ job'[w].next = job[w].next
      BY <2>1 DEF HandStep
    <3> QED
      BY <1>2, <2>1, <3>1 DEF SheetInv, InHand
  <2> QED
    BY <2>1 DEF InHand, Fresh, FromSheet
<1>5. \A r \in DOMAIN row' \ (edited' \cup raced') :
        Fresh(r)' /\ row'[r].line # 0 => FromSheet(row'[r])
  BY <1>2
<1> QED
  BY <1>1, <1>3, <1>4, <1>5 DEF SheetInv, Fresh, FromSheet

\* Steps that add no row and take nothing into an import.
Plain ==
  /\ RowsGoOn /\ \A v \in Worker : HandStep(v)
  /\ \A r \in DOMAIN row' \ DOMAIN row : row'[r].line = 0

LEMMA SameRowKept ==
  ASSUME NEW r \in DOMAIN row, r \in DOMAIN row', row'[r] = row[r], made'[r] = made[r]
  PROVE  KeptRow(r)
BY DEF KeptRow, Fresh

LEMMA JobsSameRead ==
  ASSUME job' = job
  PROVE  \A v \in Worker : ReadStep(v) /\ HandStep(v)
BY DEF ReadStep, HandStep

\* One request goes on, and reads no more than it has.
LEMMA MoveReads ==
  ASSUME SheetInv, NEW w \in Worker, NEW j, Move(w, j),
         j.new = <<>> \/ (/\ j.new = job[w].new /\ j.phase = job[w].phase
                          /\ j.next = job[w].next),
         \/ j.row = 0
         \/ j.row = job[w].row /\ j.copy = job[w].copy
         \/ j.row \in DOMAIN row /\ j.copy = {row[j.row]}
  PROVE  /\ \A v \in Worker : ReadStep(v) /\ HandStep(v)
         /\ \A v \in Worker : job'[v] = IF v = w THEN j ELSE job[v]
<1>1. \A v \in Worker : job'[v] = IF v = w THEN j ELSE job[v]
  BY DEF Move, SheetInv, LessonInv, Frame, Jobs
<1> QED
  BY <1>1 DEF ReadStep, HandStep

\* Nothing is in hand but in an import.
LEMMA HandsEmpty ==
  ASSUME SheetInv, NEW w \in Worker, job[w].phase # "import"
  PROVE  job[w].new = <<>>
<1> DEFINE new == job[w].new
<1>1. IsSeq(new) /\ Len(new) \in Nat /\ DOMAIN new = 1 .. Len(new)
  BY SeqShape DEF SheetInv, LessonInv, Frame, Jobs
<1>2. DOMAIN new = {}
  BY DEF SheetInv, InHand
<1> HIDE DEF new
<1>3. Len(new) = 0
  <2>1. Len(new) # 0 => 1 \in 1 .. Len(new)
    BY <1>1
  <2> QED
    BY <1>1, <1>2, <2>1
<1>4. new = <<>>
  BY <1>1, <1>3, EmptySeq DEF IsSeq
<1> QED
  BY <1>4 DEF new

LEMMA DeleteStudentPlain ==
  ASSUME SheetInv, NEW gone \in SUBSET DOMAIN row, DeleteStudent(gone)
  PROVE  Plain
<1>1. /\ DOMAIN row' = DOMAIN row /\ edited' = edited \cup gone
      /\ UNCHANGED <<made, raced>>
      /\ \A r \in DOMAIN row :
           /\ row'[r].class = row[r].class /\ row'[r].name = row[r].name
           /\ row'[r].status = row[r].status /\ row'[r].line = row[r].line
  BY DeletedStudent DEF SheetInv
<1>2. \A v \in Worker :
        /\ job'[v].row = job[v].row /\ job'[v].new = job[v].new
        /\ job'[v].phase = job[v].phase /\ job'[v].next = job[v].next
        /\ job[v].row \notin gone => job'[v].copy = job[v].copy
  BY DeletedCopies DEF SheetInv
<1>3. \A v \in Worker : ReadStep(v) /\ HandStep(v)
  BY <1>1, <1>2 DEF ReadStep, HandStep
<1>4. \A r \in DOMAIN row : KeptRow(r)
  BY <1>1, <1>2 DEF KeptRow, Fresh
<1> QED
  BY <1>1, <1>3, <1>4 DEF Plain, RowsGoOn

LEMMA OfficePlain ==
  ASSUME SheetInv, Office, \A gone \in SUBSET DOMAIN row : ~ DeleteStudent(gone)
  PROVE  Plain
<1>1. job' = job /\ raced' = raced
  BY DEF Office, PeriodForm, PeriodAdmin, ClassForm, Enrol, EditForm, Request
<1>2. \A v \in Worker : ReadStep(v) /\ HandStep(v)
  BY <1>1, JobsSameRead
<1>3. CASE UNCHANGED <<row, made, edited>>
  BY <1>1, <1>2, <1>3, SameRowKept DEF Plain, RowsGoOn
<1>4. ASSUME NEW c \in Class, NEW name, NEW student, NEW status, Enrol(c, name, student, status)
      PROVE  Plain
  <2> DEFINE new == <<[row |-> Typed(c, name, student, status, 0), paid |-> 0, fee |-> 0]>>
  <2>1. Enrolled(new) /\ UNCHANGED edited
    BY <1>4 DEF Enrol
  <2>2. IsSeq(new) /\ DOMAIN new = {1} /\ new[1].row.line = 0
    <3>1. new \in Seq({new[1]})
      OBVIOUS
    <3>2. IsSeq(new)
      BY <3>1, TypedSeq
    <3> QED
      BY <3>2 DEF Typed
  <2> HIDE DEF new
  <2>3. /\ \A r \in DOMAIN row : /\ r \in DOMAIN row' /\ row'[r] = row[r]
                                 /\ made'[r] = made[r]
        /\ \A r \in DOMAIN row' \ DOMAIN row :
             \E i \in DOMAIN new : row'[r] = new[i].row
    BY <2>1, <2>2, EnrolledTables DEF SheetInv, LessonInv, Frame
  <2>4. \A r \in DOMAIN row' \ DOMAIN row : row'[r].line = 0
    BY <2>2, <2>3
  <2> QED
    BY <1>1, <1>2, <2>1, <2>3, <2>4, SameRowKept DEF Plain, RowsGoOn
<1>5. ASSUME NEW r \in DOMAIN row, NEW c \in Class, NEW name, NEW student, NEW status,
             EditForm(r, c, name, student, status)
      PROVE  Plain
  <2> DEFINE typed == Typed(c, name, student, status, row[r].line)
  <2>1. row' = [row EXCEPT ![r] = typed] /\ made' = made /\ edited' = edited \cup {r}
    BY <1>5 DEF EditForm
  <2> HIDE DEF typed
  <2>2. DOMAIN row' = DOMAIN row /\ \A q \in DOMAIN row \ edited' : row'[q] = row[q]
    BY <2>1
  <2>3. \A q \in DOMAIN row \ (edited' \cup raced) : KeptRow(q)
    BY <2>1, <2>2, SameRowKept
  <2> QED
    BY <1>1, <1>2, <2>1, <2>2, <2>3 DEF Plain, RowsGoOn
<1> QED
  BY <1>3, <1>4, <1>5 DEF Office, PeriodForm, PeriodAdmin, ClassForm

\* A request that touches no row.
LEMMA QuietPlain ==
  ASSUME SheetInv, NEW w \in Worker, NEW j, Move(w, j), UNCHANGED <<row, made, edited>>,
         raced \subseteq raced',
         j.new = <<>> \/ (/\ j.new = job[w].new /\ j.phase = job[w].phase
                          /\ j.next = job[w].next),
         \/ j.row = 0
         \/ j.row = job[w].row /\ j.copy = job[w].copy
         \/ j.row \in DOMAIN row /\ j.copy = {row[j.row]}
  PROVE  Plain
BY MoveReads, SameRowKept DEF Plain, RowsGoOn

LEMMA BeginPlain ==
  ASSUME SheetInv, NEW w \in Worker, NEW j, Begin(w, j), UNCHANGED <<row, made, edited>>,
         j.new = <<>>,
         j.row = 0 \/ (j.row \in DOMAIN row /\ j.copy = {row[j.row]})
  PROVE  Plain
<1>1. Move(w, j) /\ raced \subseteq raced'
  BY DEF Begin
<1> QED
  BY <1>1, QuietPlain

LEMMA OpenPlain ==
  ASSUME SheetInv, NEW w \in Worker,
         \/ CloseOpen(w) \/ \E c \in Class : DeleteOpen(w, c)
         \/ \E dry \in {"yes", "no"} : ImportStart(w, dry)
         \/ \E r \in DOMAIN row : CancelOpen(w, r) \/ RegisterOpen(w, r)
                                  \/ \E a \in Amount : PayOpen(w, r, a)
  PROVE  Plain
<1>1. CASE CloseOpen(w)
  BY <1>1, BeginPlain DEF CloseOpen, NoJob
<1>2. ASSUME NEW c \in Class, DeleteOpen(w, c)
      PROVE  Plain
  BY <1>2, BeginPlain DEF DeleteOpen, NoJob
<1>3. ASSUME NEW dry, ImportStart(w, dry)
      PROVE  Plain
  BY <1>3, BeginPlain DEF ImportStart, NoJob
<1>4. ASSUME NEW r \in DOMAIN row, NEW p \in {"cancel", "register", "pay"}, NEW a, NEW f,
             Opened(w, r, p, a, f)
      PROVE  Plain
  <2> DEFINE j == [NoJob EXCEPT !.phase = p, !.row = r, !.copy = {row[r]},
                                !.amount = a, !.fee = f]
  <2>1. Begin(w, j) /\ UNCHANGED <<row, made, edited>>
    BY <1>4 DEF Opened
  <2>2. j.new = <<>> /\ j.row = r /\ j.copy = {row[r]} /\ j.phase = p
    BY DEF NoJob
  <2> HIDE DEF j
  <2> QED
    BY <2>1, <2>2, BeginPlain
<1> QED
  BY <1>1, <1>2, <1>3, <1>4 DEF CancelOpen, RegisterOpen, PayOpen

\* A request on a row ends or goes on, and writes no row.
LEMMA QuietStepPlain ==
  ASSUME SheetInv, NEW w \in Worker,
         \/ CloseSave(w) \/ RegisterRefused(w) \/ Crash(w)
         \/ PayCreate(w) \/ PayRefused(w) \/ PayReceipt(w) \/ PaySum(w)
  PROVE  Plain
<1>1. NoJob.new = <<>> /\ NoJob.row = 0
  BY DEF NoJob
<1>2. Shaped(job[w])
  BY DEF SheetInv, LessonInv, Frame, Jobs
<1>3. CASE CloseSave(w) \/ RegisterRefused(w) \/ PayRefused(w) \/ Crash(w)
  <2>1. Move(w, NoJob) /\ UNCHANGED <<row, made, edited>> /\ raced' = raced
    BY <1>3 DEF CloseSave, RegisterRefused, PayRefused, Crash, Step
  <2> QED
    BY <1>1, <2>1, QuietPlain
<1>4. ASSUME NEW p \in {"receipt", "sum", "save"}, NEW j \in {NoJob, [job[w] EXCEPT !.phase = p]},
             job[w].phase # "import", Move(w, j), UNCHANGED <<row, made, edited>>, raced' = raced
      PROVE  Plain
  <2>1. CASE j = NoJob
    BY <1>1, <1>4, <2>1, QuietPlain
  <2>2. CASE j = [job[w] EXCEPT !.phase = p] /\ j # NoJob
    <3>1. /\ j.row = job[w].row /\ j.copy = job[w].copy /\ j.new = job[w].new /\ j.phase = p
      BY <1>2, <2>2, PhaseShaped
    <3>2. j.new = <<>>
      BY <1>4, <3>1, HandsEmpty
    <3> QED
      BY <1>4, <2>2, <3>1, <3>2, QuietPlain
  <2> QED
    BY <1>4, <2>1, <2>2
<1>5. CASE PayCreate(w)
  <2>1. /\ job[w].phase = "pay" /\ UNCHANGED <<row, made, edited>> /\ raced' = raced
        /\ Move(w, [job[w] EXCEPT !.phase = "receipt"])
    BY <1>5, Zenon DEF PayCreate, Step
  <2> QED
    BY <1>4, <2>1
<1>6. CASE PayReceipt(w)
  <2>1. /\ job[w].phase = "receipt" /\ UNCHANGED <<row, made, edited>> /\ raced' = raced
        /\ Move(w, NoJob) \/ Move(w, [job[w] EXCEPT !.phase = "sum"])
    BY <1>6, Zenon DEF PayReceipt, Step
  <2> QED
    BY <1>4, <2>1
<1>7. CASE PaySum(w)
  <2>1. /\ job[w].phase = "sum" /\ UNCHANGED <<row, made, edited>> /\ raced' = raced
        /\ Move(w, NoJob) \/ Move(w, [job[w] EXCEPT !.phase = "save"])
    BY <1>7, Zenon DEF PaySum, Step
  <2> QED
    BY <1>4, <2>1
<1> QED
  BY <1>3, <1>5, <1>6, <1>7

\* The copy is saved with another status: of a row nobody else holds, nothing but
\* the status changes.
LEMMA SavePlain ==
  ASSUME SheetInv, NEW w \in Worker, CancelSave(w) \/ PaySave(w)
  PROVE  Plain
<1>1. PICK h : h = job[w].row
  OBVIOUS
<1>2. PICK status \in {"CANCELLED", "PAID"} :
        SaveCopy(w, status) /\ Move(w, NoJob) /\ UNCHANGED <<made, edited>> /\ raced' = raced
  BY DEF CancelSave, PaySave, Step
<1>3. PICK c \in job[w].copy :
        row' = IF Live(h) /\ c.student # "gone"
               THEN [row EXCEPT ![h] = Typed(c.class, c.name, c.student, status, c.line)]
               ELSE row
  BY <1>1, <1>2 DEF SaveCopy
<1>4. /\ DOMAIN row' = DOMAIN row
      /\ \A q \in DOMAIN row : q # h \/ ~ Live(h) \/ c.student = "gone" => row'[q] = row[q]
      /\ Live(h) /\ c.student # "gone" =>
           /\ row'[h].class = c.class /\ row'[h].name = c.name
           /\ row'[h].line = c.line /\ row'[h].status = status
  BY <1>3, TableFunctions DEF Live, Typed, SheetInv, LessonInv, Frame
<1>5. /\ \A v \in Worker : ReadStep(v) /\ HandStep(v)
      /\ \A v \in Worker : job'[v] = IF v = w THEN NoJob ELSE job[v]
  BY <1>2, MoveReads DEF NoJob
<1>6. ASSUME NEW q \in DOMAIN row \ (edited' \cup raced)
      PROVE  KeptRow(q)
  <2>1. CASE q = h /\ Live(h) /\ c.student # "gone"
    <3>1. ReadRight(q)
      BY <1>2, <1>6 DEF SheetInv
    <3>2. c.class = row[q].class /\ c.name = row[q].name /\ c.line = row[q].line
      BY <1>1, <2>1, <3>1 DEF ReadRight
    <3>3. q # 0
      BY TableDomains DEF SheetInv, LessonInv, Frame
    <3>4. \A v \in Worker : job'[v].row # q
      BY <1>1, <1>5, <1>6, <2>1, <3>3 DEF SheetInv, LessonInv, Frame, OneHolder, NoJob
    <3>5. row[q].status # "GONE"
      BY <2>1 DEF Live
    <3> QED
      BY <1>2, <1>4, <2>1, <3>2, <3>4, <3>5 DEF KeptRow, Fresh
  <2>2. CASE q # h \/ ~ Live(h) \/ c.student = "gone"
    BY <1>2, <1>4, <2>2, SameRowKept
  <2> QED
    BY <2>1, <2>2
<1> QED
  BY <1>2, <1>4, <1>5, <1>6 DEF Plain, RowsGoOn

LEMMA DeletePlain ==
  ASSUME SheetInv, NEW w \in Worker, DeleteRun(w)
  PROVE  Plain
<1>1. /\ Move(w, NoJob) /\ UNCHANGED <<made, edited>> /\ raced' = raced
      /\ row' = [r \in DOMAIN row |->
           [class |-> row[r].class, name |-> row[r].name, student |-> row[r].student,
            status |-> IF row[r].class \in job[w].class THEN "GONE" ELSE row[r].status,
            line |-> row[r].line]]
  BY DEF DeleteRun, Step
<1>2. /\ DOMAIN row' = DOMAIN row
      /\ \A r \in DOMAIN row :
           /\ row'[r].class = row[r].class /\ row'[r].name = row[r].name
           /\ row'[r].line = row[r].line
           /\ row'[r].status \in {row[r].status, "GONE"}
  BY <1>1
<1>3. \A v \in Worker : ReadStep(v) /\ HandStep(v)
  BY <1>1, MoveReads DEF NoJob
<1>4. \A r \in DOMAIN row : KeptRow(r)
  BY <1>1, <1>2 DEF KeptRow, Fresh
<1> QED
  BY <1>1, <1>2, <1>3, <1>4 DEF Plain, RowsGoOn

LEMMA RegisterPlain ==
  ASSUME SheetInv, NEW w \in Worker, RegisterCommit(w)
  PROVE  Plain
<1>1. PICK h : h = job[w].row
  OBVIOUS
<1> DEFINE linked == Typed(row[h].class, NoName, "linked", row[h].status, row[h].line)
<1>2. /\ Live(h) /\ Move(w, NoJob) /\ UNCHANGED edited /\ raced' = raced
      /\ row' = [row EXCEPT ![h] = linked] /\ made' = [made EXCEPT ![h] = @ + 1]
  BY <1>1 DEF RegisterCommit, Step
<1>3. linked.line = row[h].line /\ linked.status = row[h].status
  BY DEF Typed
<1> HIDE DEF linked
<1>4. /\ DOMAIN row' = DOMAIN row /\ h \in DOMAIN row
      /\ \A q \in DOMAIN row : row'[q] = IF q = h THEN linked ELSE row[q]
      /\ \A q \in DOMAIN row : made'[q] = IF q = h THEN made[q] + 1 ELSE made[q]
  BY <1>2, TableFunctions DEF SheetInv, LessonInv, Frame, Live
<1>5. /\ \A v \in Worker : ReadStep(v) /\ HandStep(v)
      /\ \A v \in Worker : job'[v] = IF v = w THEN NoJob ELSE job[v]
  BY <1>2, MoveReads DEF NoJob
<1>6. ASSUME NEW q \in DOMAIN row \ (edited' \cup raced)
      PROVE  KeptRow(q)
  <2>1. CASE q = h
    <3>1. q # 0
      BY TableDomains DEF SheetInv, LessonInv, Frame
    <3>2. \A v \in Worker : job'[v].row # q
      BY <1>1, <1>5, <1>6, <2>1, <3>1 DEF SheetInv, LessonInv, Frame, OneHolder, NoJob
    <3>3. made[q] \in {0, 1}
      BY <1>2, <1>6 DEF SheetInv, LessonInv, RegisteredAt
    <3>4. made'[q] # 0
      BY <1>4, <2>1, <3>3
    <3> QED
      BY <1>3, <1>4, <2>1, <3>2, <3>4 DEF KeptRow
  <2>2. CASE q # h
    BY <1>4, <2>2, SameRowKept
  <2> QED
    BY <2>1, <2>2
<1> QED
  BY <1>2, <1>4, <1>5, <1>6 DEF Plain, RowsGoOn

-----------------------------------------------------------------------------
(* The import goes on, and ends *)

\* The new element comes last.
LEMMA Grown ==
  ASSUME NEW s, IsSeq(s), NEW x, NEW t, t = Append(s, x)
  PROVE  /\ Len(s) \in Nat /\ DOMAIN s = 1 .. Len(s) /\ DOMAIN t = 1 .. Len(s) + 1
         /\ \A i \in DOMAIN s : t[i] = s[i]
         /\ t[Len(s) + 1] = x
<1>1. Len(s) \in Nat /\ DOMAIN s = 1 .. Len(s)
  BY SeqShape
<1>2. PICK S : S = Values(s) \cup {x}
  OBVIOUS
<1>3. s \in Seq(S) /\ x \in S
  <2>1. Values(s) \subseteq S /\ x \in S
    BY <1>2
  <2> QED
    BY <2>1, SeqMonotonic DEF IsSeq
<1>4. /\ t \in Seq(S) /\ Len(t) = Len(s) + 1
      /\ \A i \in 1 .. Len(s) : t[i] = s[i]
      /\ t[Len(s) + 1] = x
  BY <1>3, AppendProperties
<1>5. DOMAIN t = 1 .. Len(s) + 1
  BY <1>4, LenProperties
<1> QED
  BY <1>1, <1>4, <1>5

\* A row of the sheet that is registered already is found, so what is taken in hand
\* is not registered.
LEMMA ImportRowSheet ==
  ASSUME SheetInv, NEW w \in Worker, ImportRow(w)
  PROVE  SheetInv' /\ RowsGoOn
<1>1. PICK n, held : n = job[w].next /\ held = job[w].new
  OBVIOUS
<1>2. PICK s : s = Sheet[n]
  OBVIOUS
<1>3. /\ job[w].phase = "import" /\ n \in DOMAIN Sheet
      /\ UNCHANGED <<row, made, edited, raced>>
  BY <1>1, Zenon DEF ImportRow, Step
<1>4. n \in Nat /\ n # 0
  <2>1. DOMAIN Sheet = 1 .. Len(Sheet) /\ Len(Sheet) \in Nat
    BY LessonsAssumption, LenProperties
  <2>2. n \in 1 .. Len(Sheet)
    BY <1>3, <2>1
  <2> QED
    BY ONLY <2>1, <2>2
<1>5. Shaped(job[w]) /\ IsSeq(held)
  BY <1>1 DEF SheetInv, LessonInv, Frame, Jobs
<1>6. PICK j : /\ Move(w, j)
               /\ \/ j.row = 0
                  \/ j.row = job[w].row /\ j.copy = job[w].copy /\ j.phase = "import"
               /\ \/ j.new = <<>>
                  \/ /\ j.phase = "import" /\ j.next = n + 1
                     /\ \/ j.new = held
                        \/ /\ Found(w, s.class, s.child) = {}
                           /\ \E e : /\ j.new = Append(held, e) /\ e.row.line = n
                                     /\ e.row.class = s.class /\ e.row.name = s.child
  <2> DEFINE z == Sheet[job[w].next]
             fee == IF class[z.class] = NoClass THEN SheetFee ELSE class[z.class]
             full == z.paid > 0 /\ z.paid >= fee
             entry == [row |-> Typed(z.class, z.child, "none",
                                     IF full THEN "PAID" ELSE "REGISTERED", job[w].next),
                       paid |-> z.paid, fee |-> fee]
  <2>0. \/ Move(w, NoJob)
        \/ Move(w, [job[w] EXCEPT !.next = @ + 1, !.new = @])
        \/ /\ Found(w, z.class, z.child) = {}
           /\ Move(w, [job[w] EXCEPT !.next = @ + 1, !.new = Append(@, entry)])
    BY Zenon DEF ImportRow, Step
  <2>4. /\ entry.row.line = n /\ entry.row.class = s.class /\ entry.row.name = s.child
        /\ z = s
    BY <1>1, <1>2 DEF Typed
  <2> HIDE DEF entry, z
  <2>1. CASE Move(w, NoJob)
    BY <2>1 DEF NoJob
  <2>2. CASE Move(w, [job[w] EXCEPT !.next = @ + 1, !.new = @])
    <3>1. PICK j : j = [job[w] EXCEPT !.next = @ + 1, !.new = @]
      OBVIOUS
    <3>2. /\ j.row = job[w].row /\ j.copy = job[w].copy /\ j.phase = "import"
          /\ j.next = n + 1 /\ j.new = held
      BY <1>1, <1>3, <1>5, <3>1 DEF Shaped, NoJob
    <3> QED
      BY <2>2, <3>1, <3>2
  <2>3. CASE /\ Found(w, z.class, z.child) = {}
             /\ Move(w, [job[w] EXCEPT !.next = @ + 1, !.new = Append(@, entry)])
    <3>1. PICK e : e = entry
      OBVIOUS
    <3>2. /\ e.row.line = n /\ e.row.class = s.class /\ e.row.name = s.child
          /\ Found(w, s.class, s.child) = {}
      BY <2>3, <2>4, <3>1
    <3>3. PICK j : j = [job[w] EXCEPT !.next = @ + 1, !.new = Append(@, e)]
      OBVIOUS
    <3>4. /\ j.row = job[w].row /\ j.copy = job[w].copy /\ j.phase = "import"
          /\ j.next = n + 1 /\ j.new = Append(held, e)
      BY <1>1, <1>3, <1>5, <3>3 DEF Shaped, NoJob
    <3>5. Move(w, j)
      BY <2>3, <3>1, <3>3
    <3> QED
      BY <3>2, <3>4, <3>5
  <2> QED
    BY <2>0, <2>1, <2>2, <2>3
<1>7. \A v \in Worker : job'[v] = IF v = w THEN j ELSE job[v]
  BY <1>6 DEF Move, SheetInv, LessonInv, Frame, Jobs
<1>8. \A v \in Worker : ReadStep(v)
  BY <1>6, <1>7 DEF ReadStep
<1>9. RowsGoOn
  BY <1>3, <1>8, SameRowKept DEF RowsGoOn
<1>10. LessonInv'
  BY ImportRowKeeps DEF SheetInv
<1>11. ASSUME NEW r \in DOMAIN row \ (edited \cup raced), Fresh(r),
              Found(w, s.class, s.child) = {}
       PROVE  row[r].line # n
  <2>1. r \notin Found(w, s.class, s.child)
    BY <1>11
  <2>2. row[r].line = n => row[r].class = s.class /\ row[r].name = s.child
    BY <1>2, <1>4, <1>11 DEF SheetInv, FromSheet
  <2> QED
    BY <1>11, <2>1, <2>2 DEF Found, Live, Fresh
<1>12. ASSUME NEW v \in Worker, NEW i \in DOMAIN job'[v].new
       PROVE  /\ job'[v].phase = "import" /\ job'[v].new[i].row.line \in Nat
              /\ job'[v].new[i].row.line # 0 /\ job'[v].new[i].row.line < job'[v].next
              /\ FromSheet(job'[v].new[i].row)
              /\ \A k \in DOMAIN job'[v].new :
                   job'[v].new[k].row.line = job'[v].new[i].row.line => k = i
              /\ \A r \in DOMAIN row \ (edited \cup raced) :
                   Fresh(r) => row[r].line # job'[v].new[i].row.line
  <2>1. CASE job'[v] = job[v]
    BY <1>12, <2>1 DEF SheetInv, InHand
  <2>2. CASE v = w
    <3>1. job'[v] = j /\ i \in DOMAIN j.new /\ j.new # <<>>
      BY <1>7, <1>12, <2>2
    <3>2. \A k \in DOMAIN held :
            /\ held[k].row.line \in Nat /\ held[k].row.line # 0 /\ held[k].row.line < n
            /\ FromSheet(held[k].row)
            /\ \A l \in DOMAIN held : held[l].row.line = held[k].row.line => l = k
            /\ \A r \in DOMAIN row \ (edited \cup raced) :
                 Fresh(r) => row[r].line # held[k].row.line
      BY <1>1 DEF SheetInv, InHand
    <3>3. CASE j.new = held /\ j.phase = "import" /\ j.next = n + 1
      BY <1>4, <3>1, <3>2, <3>3
    <3>4. ASSUME NEW e, j.new = Append(held, e), e.row.line = n, e.row.class = s.class,
                 e.row.name = s.child, j.phase = "import", j.next = n + 1,
                 Found(w, s.class, s.child) = {}
          PROVE  /\ j.phase = "import" /\ j.new[i].row.line \in Nat
                 /\ j.new[i].row.line # 0 /\ j.new[i].row.line < j.next
                 /\ FromSheet(j.new[i].row)
                 /\ \A k \in DOMAIN j.new : j.new[k].row.line = j.new[i].row.line => k = i
                 /\ \A r \in DOMAIN row \ (edited \cup raced) :
                      Fresh(r) => row[r].line # j.new[i].row.line
      <4>1. /\ Len(held) \in Nat /\ DOMAIN held = 1 .. Len(held)
            /\ DOMAIN j.new = 1 .. Len(held) + 1
            /\ \A k \in DOMAIN held : j.new[k] = held[k]
            /\ j.new[Len(held) + 1] = e
        BY <1>5, <3>4, Grown
      <4>2. \A k \in DOMAIN j.new : k \in DOMAIN held \/ k = Len(held) + 1
        BY <4>1
      <4>3. FromSheet(e.row)
        BY <1>2, <3>4 DEF FromSheet
      <4>4. \A k \in DOMAIN held : j.new[k].row.line # n
        BY <1>4, <3>2, <4>1
      <4>5. CASE i = Len(held) + 1
        <5>1. j.new[i] = e
          BY <4>1, <4>5
        <5>2. \A k \in DOMAIN j.new : j.new[k].row.line = n => k = i
          BY <4>2, <4>4, <4>5
        <5> QED
          BY <1>4, <1>11, <3>4, <4>3, <5>1, <5>2
      <4>6. CASE i \in DOMAIN held
        <5>1. j.new[i] = held[i] /\ held[i].row.line < n /\ held[i].row.line \in Nat
          BY <3>2, <4>1, <4>6
        <5>2. \A k \in DOMAIN j.new : j.new[k].row.line = held[i].row.line => k = i
          <6>1. ASSUME NEW k \in DOMAIN j.new, j.new[k].row.line = held[i].row.line
                PROVE  k = i
            <7>1. CASE k \in DOMAIN held
              BY <3>2, <4>1, <4>6, <6>1, <7>1
            <7>2. CASE k = Len(held) + 1
              BY <1>4, <3>4, <4>1, <5>1, <6>1, <7>2
            <7> QED
              BY <4>2, <6>1, <7>1, <7>2
          <6> QED
            BY <6>1
        <5> QED
          BY <1>4, <3>2, <3>4, <4>6, <5>1, <5>2
      <4> QED
        BY <3>1, <4>2, <4>5, <4>6
    <3> QED
      BY <1>6, <3>1, <3>3, <3>4
  <2>3. v = w \/ job'[v] = job[v]
    BY <1>7
  <2> QED
    BY ONLY <2>1, <2>2, <2>3
<1>13. InHand'
  <2>1. \A r : Fresh(r)' <=> Fresh(r)
    BY <1>3 DEF Fresh
  <2>2. DOMAIN row' \ (edited' \cup raced') = DOMAIN row \ (edited \cup raced)
        /\ \A r : row'[r].line = row[r].line
    BY <1>3
  <2> QED
    BY <1>12, <2>1, <2>2 DEF InHand, FromSheet
<1>14. \A r \in DOMAIN row' \ (edited' \cup raced') : ReadRight(r)'
  BY <1>9, <1>10, ReadRightKept DEF LessonInv, Frame
<1>15. ImportIdempotent'
  BY <1>3 DEF SheetInv, ImportIdempotent, Live
<1> QED
  BY <1>3, <1>9, <1>10, <1>13, <1>14, <1>15 DEF SheetInv, Fresh, FromSheet

\* Everything in hand is registered; what another import has in hand is known to overlap.
LEMMA ImportCommitSheet ==
  ASSUME SheetInv, NEW w \in Worker, ImportCommit(w)
  PROVE  SheetInv' /\ RowsGoOn
<1>1. PICK new : new = job[w].new
  OBVIOUS
<1> DEFINE added == {Len(row) + i : i \in DOMAIN new}
<1>2. /\ job[w].phase = "import" /\ Move(w, NoJob) /\ UNCHANGED edited
      /\ \/ UNCHANGED <<row, made, raced>>
         \/ /\ Enrolled(new)
            /\ raced' = IF \E o \in Worker \ {w} : job[o].phase = "import"
                        THEN raced \cup added ELSE raced
  <2>1. /\ job[w].phase = "import" /\ Move(w, NoJob) /\ UNCHANGED edited
        /\ \/ UNCHANGED <<row, made, raced>>
           \/ /\ Enrolled(job[w].new)
              /\ raced' = IF \E o \in Worker \ {w} : job[o].phase = "import"
                          THEN raced \cup {Len(row) + i : i \in DOMAIN job[w].new} ELSE raced
    BY Zenon DEF ImportCommit
  <2> QED
    BY <1>1, <2>1
<1>3. LessonInv'
  BY ImportCommitKeeps DEF SheetInv
<1>4. CASE UNCHANGED <<row, made, raced>>
  <2>1. Plain
    BY <1>2, <1>4, QuietPlain DEF NoJob
  <2> QED
    BY <1>3, <2>1, SheetKept DEF Plain
<1>5. CASE /\ Enrolled(new)
           /\ raced' = IF \E o \in Worker \ {w} : job[o].phase = "import"
                       THEN raced \cup added ELSE raced
  <2>1. /\ \A r \in DOMAIN row : /\ r \in DOMAIN row' /\ row'[r] = row[r]
                                 /\ made'[r] = made[r]
        /\ \A r \in DOMAIN row' \ DOMAIN row :
             \E i \in DOMAIN new : r = Len(row) + i /\ row'[r] = new[i].row /\ made'[r] = 0
    BY <1>1, <1>5, EnrolledTables DEF SheetInv, LessonInv, Frame, Jobs
  <2>2. /\ \A v \in Worker : ReadStep(v)
        /\ \A v \in Worker : job'[v] = IF v = w THEN NoJob ELSE job[v]
    BY <1>2, MoveReads DEF NoJob
  <2>3. raced \subseteq raced' /\ edited' = edited
    BY <1>2, <1>5
  <2>4. RowsGoOn
    BY <2>1, <2>2, <2>3, SameRowKept DEF RowsGoOn
  <2>5. ASSUME NEW r \in DOMAIN row' \ DOMAIN row, r \notin raced',
               NEW v \in Worker, v # w
        PROVE  job[v].phase # "import"
    BY <1>5, <2>1, <2>5
  <2> HIDE DEF added
  <2>6. \A i \in DOMAIN new :
          /\ new[i].row.line # 0 /\ FromSheet(new[i].row)
          /\ \A k \in DOMAIN new : new[k].row.line = new[i].row.line => k = i
          /\ \A r \in DOMAIN row \ (edited \cup raced) :
               Fresh(r) => row[r].line # new[i].row.line
    BY <1>1 DEF SheetInv, InHand
  <2>7. ASSUME NEW r \in DOMAIN row' \ (edited' \cup raced'), r \in DOMAIN row, Fresh(r)'
        PROVE  /\ r \in DOMAIN row \ (edited \cup raced) /\ Fresh(r)
               /\ row'[r].line = row[r].line
               /\ row'[r].line # 0 => FromSheet(row'[r])
    <3>1. r \in DOMAIN row \ (edited' \cup raced')
      BY <2>7
    <3> QED
      BY <2>4, <2>7, <3>1, OldFromSheet
  <2>8. ImportIdempotent'
    <3>1. ASSUME NEW r \in DOMAIN row' \ (edited' \cup raced'),
                 NEW s \in DOMAIN row' \ (edited' \cup raced'),
                 row'[r].line = row'[s].line, row'[r].line # 0, Fresh(r)', Fresh(s)'
          PROVE  r = s
      <4>1. CASE r \in DOMAIN row /\ s \in DOMAIN row
        <5>1. /\ r \in DOMAIN row \ (edited \cup raced) /\ s \in DOMAIN row \ (edited \cup raced)
              /\ Fresh(r) /\ Fresh(s) /\ row[r].line = row[s].line /\ row[r].line # 0
          BY <2>7, <3>1, <4>1
        <5> QED
          BY <5>1 DEF SheetInv, ImportIdempotent, Fresh, Live
      <4>2. CASE r \notin DOMAIN row /\ s \notin DOMAIN row
        <5>1. PICK i \in DOMAIN new : r = Len(row) + i /\ row'[r] = new[i].row
          BY <2>1, <3>1, <4>2
        <5>2. PICK k \in DOMAIN new : s = Len(row) + k /\ row'[s] = new[k].row
          BY <2>1, <3>1, <4>2
        <5> QED
          BY <2>6, <3>1, <5>1, <5>2
      <4>3. ASSUME NEW p \in DOMAIN row' \ (edited' \cup raced'), p \in DOMAIN row, Fresh(p)',
                   NEW q \in DOMAIN row' \ (edited' \cup raced'), q \notin DOMAIN row
            PROVE  row'[p].line # row'[q].line
        <5>1. PICK i \in DOMAIN new : row'[q] = new[i].row
          BY <2>1, <4>3
        <5>2. p \in DOMAIN row \ (edited \cup raced) /\ Fresh(p) /\ row'[p].line = row[p].line
          BY <2>7, <4>3
        <5> QED
          BY <2>6, <5>1, <5>2
      <4> QED
        BY <3>1, <4>1, <4>2, <4>3
    <3> QED
      BY <3>1 DEF ImportIdempotent, Live, Fresh
  <2>9. ASSUME NEW r \in DOMAIN row' \ (edited' \cup raced'), Fresh(r)', row'[r].line # 0
        PROVE  FromSheet(row'[r])
    <3>1. CASE r \in DOMAIN row
      BY <2>7, <2>9, <3>1
    <3>2. CASE r \notin DOMAIN row
      <4>1. PICK i \in DOMAIN new : row'[r] = new[i].row
        BY <2>1, <2>9, <3>2
      <4>2. FromSheet(new[i].row)
        BY <2>6
      <4> QED
        BY <4>1, <4>2
    <3> QED
      BY <3>1, <3>2
  <2>10. InHand'
    <3>1. ASSUME NEW v \in Worker, NEW i \in DOMAIN job'[v].new
          PROVE  /\ job'[v].phase = "import" /\ job'[v].new[i].row.line \in Nat
                 /\ job'[v].new[i].row.line # 0 /\ job'[v].new[i].row.line < job'[v].next
                 /\ FromSheet(job'[v].new[i].row)
                 /\ \A k \in DOMAIN job'[v].new :
                      job'[v].new[k].row.line = job'[v].new[i].row.line => k = i
                 /\ \A r \in DOMAIN row' \ (edited' \cup raced') :
                      Fresh(r)' => row'[r].line # job'[v].new[i].row.line
      <4>1. v # w /\ job'[v] = job[v]
        BY <2>2, <3>1 DEF NoJob
      <4>2. /\ job[v].phase = "import" /\ job[v].new[i].row.line \in Nat
            /\ job[v].new[i].row.line # 0 /\ job[v].new[i].row.line < job[v].next
            /\ FromSheet(job[v].new[i].row)
            /\ \A k \in DOMAIN job[v].new :
                 job[v].new[k].row.line = job[v].new[i].row.line => k = i
            /\ \A r \in DOMAIN row \ (edited \cup raced) :
                 Fresh(r) => row[r].line # job[v].new[i].row.line
        BY <3>1, <4>1 DEF SheetInv, InHand
      <4>3. ASSUME NEW r \in DOMAIN row' \ (edited' \cup raced'), Fresh(r)'
            PROVE  row'[r].line # job[v].new[i].row.line
        <5>1. r \in DOMAIN row
          BY <2>5, <4>1, <4>2, <4>3
        <5> QED
          BY <2>7, <4>2, <4>3, <5>1
      <4> QED
        BY <4>1, <4>2, <4>3
    <3> QED
      BY <3>1 DEF InHand, Fresh, FromSheet
  <2>11. \A r \in DOMAIN row' \ (edited' \cup raced') : ReadRight(r)'
    BY <1>3, <2>4, ReadRightKept DEF LessonInv, Frame
  <2> QED
    BY <1>3, <2>4, <2>8, <2>9, <2>10, <2>11 DEF SheetInv, Fresh, FromSheet
<1> QED
  BY <1>2, <1>4, <1>5

-----------------------------------------------------------------------------
(* The theorems on imports and cancellations *)

LEMMA SheetInit == Init => SheetInv
<1> SUFFICES ASSUME Init PROVE SheetInv
  OBVIOUS
<1>1. DOMAIN row = {} /\ \A w \in Worker : DOMAIN job[w].new = {}
  BY DEF Init, NoJob
<1> QED
  BY <1>1, InitInv DEF SheetInv, InHand, ImportIdempotent

LEMMA StepPlain ==
  ASSUME SheetInv, Next
  PROVE  Plain \/ \E w \in Worker : ImportRow(w) \/ ImportCommit(w)
<1>1. CASE Office
  BY <1>1, OfficePlain, DeleteStudentPlain
<1>2. ASSUME NEW w \in Worker, RowStep(w)
      PROVE  Plain
  BY <1>2, OpenPlain, QuietStepPlain, SavePlain, RegisterPlain DEF RowStep
<1>3. ASSUME NEW w \in Worker, ClassStep(w)
      PROVE  Plain \/ ImportRow(w) \/ ImportCommit(w)
  BY <1>3, OpenPlain, QuietStepPlain, DeletePlain DEF ClassStep
<1>4. ASSUME NEW w \in Worker, Crash(w)
      PROVE  Plain
  BY <1>4, QuietStepPlain
<1> QED
  BY <1>1, <1>2, <1>3, <1>4 DEF Next

LEMMA SheetStep ==
  ASSUME SheetInv, [Next]_vars
  PROVE  SheetInv' /\ RowsGoOn
<1>1. LessonInv'
  BY NextInv DEF SheetInv
<1>2. CASE Plain
  BY <1>1, <1>2, SheetKept DEF Plain
<1>3. CASE UNCHANGED vars
  <2>1. UNCHANGED <<row, made, edited, raced, job>>
    BY <1>3 DEF vars
  <2>2. Plain
    BY <2>1, SameRowKept, JobsSameRead DEF Plain, RowsGoOn
  <2> QED
    BY <1>2, <2>2
<1> QED
  BY <1>2, <1>3, StepPlain, ImportRowSheet, ImportCommitSheet

LEMMA SheetAlways == Spec => []SheetInv
BY SheetInit, SheetStep, PTL DEF Spec

\* The import may be repeated: a row of the sheet has one registration, however often
\* the sheet is imported and however payments, cancellations, deletions, crashes and
\* dry runs interleave with it, unless the registration has been edited or made a
\* student, or two imports overlapped.
THEOREM ImportsRepeat == Spec => []ImportIdempotent
<1>1. SheetInv => ImportIdempotent
  BY DEF SheetInv
<1> QED
  BY <1>1, SheetAlways, PTL

-----------------------------------------------------------------------------
(* Cancellations. A payment that will write PAID has read REGISTERED; who pays *)
(* for a cancelled registration has read it cancelled, or the two crossed.     *)

OnWay(j) == j.phase \in {"pay", "receipt", "sum", "save"}
ReadOpen(j) == \E c \in j.copy : c.status = "REGISTERED"

CancelInv ==
  /\ LessonInv
  /\ \A v \in Worker : job[v].phase \in {"sum", "save"} => ReadOpen(job[v])
  /\ \A r \in DOMAIN row \ (edited \cup crossed), v \in Worker :
       row[r].status = "CANCELLED" => ~ PaysFor(v, r)

\* How a step may go on with a payment ...
PayStep(v) ==
  \/ ~ OnWay(job'[v])
  \/ /\ OnWay(job[v]) /\ job'[v].row = job[v].row
     /\ ReadOpen(job'[v]) <=> ReadOpen(job[v])
     /\ job'[v].phase \in {"sum", "save"} =>
          job[v].phase \in {"sum", "save"} \/ ReadOpen(job[v])
  \/ /\ job'[v].row \in DOMAIN row /\ job'[v].copy = {row[job'[v].row]}
     /\ job'[v].phase = "pay"

\* ... and with the status of a registration.
StatusStep(r) ==
  /\ r \in DOMAIN row'
  /\ row[r].status = "CANCELLED" => row'[r].status \in {"CANCELLED", "GONE"}
  /\ \/ row'[r].status = "CANCELLED" => row[r].status = "CANCELLED"
     \/ r \in crossed'
     \/ \A v \in Worker : ~ PaysFor(v, r)'

CancelStep ==
  /\ edited \subseteq edited' /\ crossed \subseteq crossed'
  /\ \A v \in Worker : PayStep(v)
  /\ \A r \in DOMAIN row \ (edited' \cup crossed) : StatusStep(r)

LEMMA CancelKept ==
  ASSUME CancelInv, LessonInv', CancelStep
  PROVE  CancelInv'
<1>1. ASSUME NEW v \in Worker, job'[v].phase \in {"sum", "save"}
      PROVE  ReadOpen(job'[v])
  <2>1. OnWay(job'[v]) /\ job'[v].phase # "pay"
    BY <1>1 DEF OnWay
  <2>2. /\ ReadOpen(job'[v]) <=> ReadOpen(job[v])
        /\ job[v].phase \in {"sum", "save"} \/ ReadOpen(job[v])
    BY <1>1, <2>1 DEF CancelStep, PayStep
  <2> QED
    BY <2>2 DEF CancelInv
<1>2. ASSUME NEW r \in DOMAIN row' \ (edited' \cup crossed'), NEW v \in Worker,
             row'[r].status = "CANCELLED", PaysFor(v, r)'
      PROVE  FALSE
  <2>1. job'[v].row = r /\ OnWay(job'[v]) /\ ReadOpen(job'[v])
    BY <1>2 DEF PaysFor, OnWay, ReadOpen
  <2>2. r # 0
    BY SeqShape DEF LessonInv, Frame, Tables
  <2>3. r \in DOMAIN row
    BY <2>1, <2>2 DEF CancelStep, PayStep, CancelInv, LessonInv, Frame, Jobs
  <2>4. r \in DOMAIN row \ (edited \cup crossed) /\ row[r].status = "CANCELLED"
    BY <1>2, <2>3 DEF CancelStep, StatusStep
  <2>5. CASE OnWay(job[v]) /\ job[v].row = r /\ ReadOpen(job[v])
    BY <2>4, <2>5 DEF CancelInv, PaysFor, OnWay, ReadOpen
  <2>6. CASE job'[v].copy = {row[r]}
    BY <2>1, <2>4, <2>6 DEF ReadOpen
  <2> QED
    BY <2>1, <2>5, <2>6 DEF CancelStep, PayStep
<1> QED
  BY <1>1, <1>2 DEF CancelInv, ReadOpen, PaysFor

LEMMA SameJobsPay ==
  ASSUME job' = job
  PROVE  \A v \in Worker : PayStep(v)
BY DEF PayStep

\* One request goes on.
LEMMA MovePays ==
  ASSUME CancelInv, NEW w \in Worker, NEW j, Move(w, j),
         \/ ~ OnWay(j)
         \/ /\ OnWay(job[w]) /\ j.row = job[w].row /\ j.copy = job[w].copy
            /\ j.phase \in {"sum", "save"} =>
                 job[w].phase \in {"sum", "save"} \/ ReadOpen(job[w])
         \/ j.row \in DOMAIN row /\ j.copy = {row[j.row]} /\ j.phase = "pay"
  PROVE  /\ \A v \in Worker : PayStep(v)
         /\ \A v \in Worker : job'[v] = IF v = w THEN j ELSE job[v]
<1>1. \A v \in Worker : job'[v] = IF v = w THEN j ELSE job[v]
  BY DEF Move, CancelInv, LessonInv, Frame, Jobs
<1> QED
  BY <1>1 DEF PayStep, ReadOpen

LEMMA NoJobRests == ~ OnWay(NoJob) /\ NoJob.row = 0
BY DEF OnWay, NoJob

LEMMA OfficeCancel ==
  ASSUME CancelInv, Office, \A gone \in SUBSET DOMAIN row : ~ DeleteStudent(gone)
  PROVE  CancelStep
<1>1. job' = job /\ crossed' = crossed
  BY DEF Office, PeriodForm, PeriodAdmin, ClassForm, Enrol, EditForm, Request
<1>2. \A v \in Worker : PayStep(v)
  BY <1>1, SameJobsPay
<1>3. CASE UNCHANGED <<row, edited>>
  BY <1>1, <1>2, <1>3 DEF CancelStep, StatusStep
<1>4. ASSUME NEW c \in Class, NEW name, NEW student, NEW status, Enrol(c, name, student, status)
      PROVE  CancelStep
  <2> DEFINE new == <<[row |-> Typed(c, name, student, status, 0), paid |-> 0, fee |-> 0]>>
  <2>1. Enrolled(new) /\ UNCHANGED edited
    BY <1>4 DEF Enrol
  <2>2. IsSeq(new)
    <3>1. new \in Seq({new[1]})
      OBVIOUS
    <3> QED
      BY <3>1, TypedSeq
  <2> HIDE DEF new
  <2>3. \A r \in DOMAIN row : r \in DOMAIN row' /\ row'[r] = row[r]
    BY <2>1, <2>2, EnrolledTables DEF CancelInv, LessonInv, Frame
  <2> QED
    BY <1>1, <1>2, <2>1, <2>3 DEF CancelStep, StatusStep
<1>5. ASSUME NEW r \in DOMAIN row, NEW c \in Class, NEW name, NEW student, NEW status,
             EditForm(r, c, name, student, status)
      PROVE  CancelStep
  <2> DEFINE typed == Typed(c, name, student, status, row[r].line)
  <2>1. row' = [row EXCEPT ![r] = typed] /\ edited' = edited \cup {r}
    BY <1>5 DEF EditForm
  <2> HIDE DEF typed
  <2>2. DOMAIN row' = DOMAIN row /\ \A q \in DOMAIN row \ edited' : row'[q] = row[q]
    BY <2>1
  <2> QED
    BY <1>1, <1>2, <2>1, <2>2 DEF CancelStep, StatusStep
<1> QED
  BY <1>3, <1>4, <1>5 DEF Office, PeriodForm, PeriodAdmin, ClassForm

LEMMA DeleteStudentCancel ==
  ASSUME CancelInv, NEW gone \in SUBSET DOMAIN row, DeleteStudent(gone)
  PROVE  CancelStep
<1>1. /\ DOMAIN row' = DOMAIN row /\ edited' = edited \cup gone /\ crossed' = crossed
      /\ \A r \in DOMAIN row : row'[r].status = row[r].status
  BY DeletedStudent DEF CancelInv
<1>2. \A v \in Worker : /\ job'[v].row = job[v].row /\ job'[v].phase = job[v].phase
                        /\ SameStatuses(job'[v].copy, job[v].copy)
  BY DeletedCopies DEF CancelInv
<1>3. \A v \in Worker : ReadOpen(job'[v]) <=> ReadOpen(job[v])
  BY <1>2 DEF ReadOpen, SameStatuses
<1>4. \A v \in Worker : PayStep(v)
  BY <1>2, <1>3 DEF PayStep, OnWay
<1> QED
  BY <1>1, <1>4 DEF CancelStep, StatusStep

\* A request begins.
LEMMA OpenCancel ==
  ASSUME CancelInv, NEW w \in Worker,
         \/ CloseOpen(w) \/ \E c \in Class : DeleteOpen(w, c)
         \/ \E dry \in {"yes", "no"} : ImportStart(w, dry)
         \/ \E r \in DOMAIN row : CancelOpen(w, r) \/ RegisterOpen(w, r)
                                  \/ \E a \in Amount : PayOpen(w, r, a)
  PROVE  CancelStep
<1>1. ASSUME NEW j, Begin(w, j), UNCHANGED <<row, edited>>,
             ~ OnWay(j) \/ (j.row \in DOMAIN row /\ j.copy = {row[j.row]} /\ j.phase = "pay")
      PROVE  CancelStep
  <2>1. Move(w, j) /\ crossed' = crossed
    BY <1>1 DEF Begin
  <2>2. \A v \in Worker : PayStep(v)
    BY <1>1, <2>1, MovePays
  <2> QED
    BY <1>1, <2>1, <2>2 DEF CancelStep, StatusStep
<1>2. CASE CloseOpen(w)
  BY <1>1, <1>2 DEF CloseOpen, NoJob, OnWay
<1>3. ASSUME NEW c \in Class, DeleteOpen(w, c)
      PROVE  CancelStep
  BY <1>1, <1>3 DEF DeleteOpen, NoJob, OnWay
<1>4. ASSUME NEW dry, ImportStart(w, dry)
      PROVE  CancelStep
  BY <1>1, <1>4 DEF ImportStart, NoJob, OnWay
<1>5. ASSUME NEW r \in DOMAIN row, NEW p \in {"cancel", "register", "pay"}, NEW a, NEW f,
             Opened(w, r, p, a, f)
      PROVE  CancelStep
  <2> DEFINE j == [NoJob EXCEPT !.phase = p, !.row = r, !.copy = {row[r]},
                                !.amount = a, !.fee = f]
  <2>1. Begin(w, j) /\ UNCHANGED <<row, edited>>
    BY <1>5 DEF Opened
  <2>2. j.row = r /\ j.copy = {row[r]} /\ j.phase = p
    BY DEF NoJob
  <2> HIDE DEF j
  <2> QED
    BY <1>1, <2>1, <2>2 DEF OnWay
<1> QED
  BY <1>2, <1>3, <1>4, <1>5 DEF CancelOpen, RegisterOpen, PayOpen

\* A request goes on or ends, and writes no row.
LEMMA QuietCancel ==
  ASSUME CancelInv, NEW w \in Worker,
         \/ CloseSave(w) \/ RegisterRefused(w) \/ Crash(w) \/ ImportRow(w)
         \/ PayCreate(w) \/ PayRefused(w) \/ PayReceipt(w) \/ PaySum(w)
  PROVE  CancelStep
<1>1. Shaped(job[w])
  BY DEF CancelInv, LessonInv, Frame, Jobs
<1>2. ASSUME NEW j, Move(w, j), UNCHANGED <<row, edited, crossed>>,
             \/ ~ OnWay(j)
             \/ /\ OnWay(job[w]) /\ j.row = job[w].row /\ j.copy = job[w].copy
                /\ j.phase \in {"sum", "save"} =>
                     job[w].phase \in {"sum", "save"} \/ ReadOpen(job[w])
      PROVE  CancelStep
  BY <1>2, MovePays DEF CancelStep, StatusStep
<1>3. ASSUME Move(w, NoJob), UNCHANGED <<row, edited, crossed>>
      PROVE  CancelStep
  BY <1>2, <1>3, NoJobRests
<1>4. ASSUME NEW p \in {"receipt", "sum", "save"}, Move(w, [job[w] EXCEPT !.phase = p]),
             UNCHANGED <<row, edited, crossed>>, OnWay(job[w]),
             p = "receipt" \/ job[w].phase \in {"sum", "save"} \/ ReadOpen(job[w])
      PROVE  CancelStep
  <2>1. PICK j : j = [job[w] EXCEPT !.phase = p]
    OBVIOUS
  <2>2. j.row = job[w].row /\ j.copy = job[w].copy /\ j.phase = p
    BY <1>1, <2>1, PhaseShaped
  <2> QED
    BY <1>2, <1>4, <2>1, <2>2
<1>5. CASE CloseSave(w) \/ RegisterRefused(w) \/ PayRefused(w) \/ Crash(w)
  BY <1>3, <1>5 DEF CloseSave, RegisterRefused, PayRefused, Crash, Step
<1>6. CASE ImportRow(w)
  <2>1. PICK j : Move(w, j) /\ UNCHANGED <<row, edited, crossed>>
                 /\ (j = NoJob \/ \E next, new : j = [job[w] EXCEPT !.next = next, !.new = new])
    BY <1>6, Zenon DEF ImportRow, Step
  <2>2. job[w].phase = "import"
    BY <1>6 DEF ImportRow
  <2>3. ~ OnWay(j)
    BY <1>1, <2>1, <2>2, NoJobRests DEF OnWay, Shaped, NoJob
  <2> QED
    BY <1>2, <2>1, <2>3
<1>7. CASE PayCreate(w)
  <2>1. /\ job[w].phase = "pay" /\ UNCHANGED <<row, edited, crossed>>
        /\ Move(w, [job[w] EXCEPT !.phase = "receipt"])
    BY <1>7, Zenon DEF PayCreate, Step
  <2> QED
    BY <1>4, <2>1 DEF OnWay
<1>8. CASE PayReceipt(w)
  <2>1. /\ job[w].phase = "receipt" /\ UNCHANGED <<row, edited, crossed>>
        /\ \E c \in job[w].copy :
             Move(w, IF c.status = "REGISTERED" /\ c.student # "gone"
                     THEN [job[w] EXCEPT !.phase = "sum"] ELSE NoJob)
    BY <1>8, Zenon DEF PayReceipt, Step
  <2>2. CASE Move(w, NoJob)
    BY <1>3, <2>1, <2>2
  <2>3. CASE ReadOpen(job[w]) /\ Move(w, [job[w] EXCEPT !.phase = "sum"])
    BY <1>4, <2>1, <2>3 DEF OnWay
  <2> QED
    BY <2>1, <2>2, <2>3 DEF ReadOpen
<1>9. CASE PaySum(w)
  <2>1. /\ job[w].phase = "sum" /\ UNCHANGED <<row, edited, crossed>>
        /\ Move(w, NoJob) \/ Move(w, [job[w] EXCEPT !.phase = "save"])
    BY <1>9, Zenon DEF PaySum, Step
  <2> QED
    BY <1>3, <1>4, <2>1 DEF OnWay
<1> QED
  BY <1>5, <1>6, <1>7, <1>8, <1>9

\* A copy is saved: a cancellation that meets a payment is a crossed one, and a payment
\* that saves had read REGISTERED, so no cancelled row is under it.
LEMMA SaveCancel ==
  ASSUME CancelInv, NEW w \in Worker, CancelSave(w) \/ PaySave(w)
  PROVE  CancelStep
<1>1. PICK h : h = job[w].row
  OBVIOUS
<1>2. /\ Move(w, NoJob) /\ edited' = edited /\ crossed \subseteq crossed'
      /\ \E status \in {"CANCELLED", "PAID"} : SaveCopy(w, status)
  BY DEF CancelSave, PaySave, Step
<1>3. /\ DOMAIN row' = DOMAIN row
      /\ \A q \in DOMAIN row : q # h => row'[q] = row[q]
  BY <1>1, <1>2, TableFunctions DEF SaveCopy, CancelInv, LessonInv, Frame
<1>4. /\ \A v \in Worker : PayStep(v)
      /\ \A v \in Worker : job'[v] = IF v = w THEN NoJob ELSE job[v]
  BY <1>2, MovePays, NoJobRests
<1>5. ASSUME NEW r \in DOMAIN row \ (edited' \cup crossed), r = h
      PROVE  StatusStep(r)
  <2>1. r # 0
    BY TableDomains DEF CancelInv, LessonInv, Frame
  <2>2. CASE CancelSave(w)
    <3>1. row'[r].status \in {row[r].status, "CANCELLED"}
      BY <1>1, <1>5, <2>2, TableFunctions
         DEF CancelSave, SaveCopy, Typed, CancelInv, LessonInv, Frame
    <3>2. r \in crossed' \/ \A v \in Worker : ~ PaysFor(v, r)
      BY <1>1, <1>5, <2>2 DEF CancelSave
    <3>3. r \in crossed' \/ \A v \in Worker : ~ PaysFor(v, r)'
      BY <1>4, <2>1, <3>2, NoJobRests DEF PaysFor
    <3> QED
      BY <1>3, <3>1, <3>3 DEF StatusStep
  <2>3. CASE PaySave(w)
    <3>1. job[w].phase = "save" /\ ReadOpen(job[w])
      BY <2>3 DEF PaySave, CancelInv
    <3>2. PaysFor(w, r)
      BY <1>1, <1>5, <3>1 DEF PaysFor, ReadOpen
    <3>3. row[r].status # "CANCELLED"
      BY <1>2, <1>5, <3>2 DEF CancelInv
    <3>4. row'[r].status \in {row[r].status, "PAID"}
      BY <1>1, <1>5, <2>3, TableFunctions
         DEF PaySave, SaveCopy, Typed, CancelInv, LessonInv, Frame
    <3> QED
      BY <1>3, <3>3, <3>4 DEF StatusStep
  <2> QED
    BY <2>2, <2>3
<1>6. ASSUME NEW r \in DOMAIN row, r # h
      PROVE  StatusStep(r)
  BY <1>3, <1>6 DEF StatusStep
<1> QED
  BY <1>2, <1>4, <1>5, <1>6 DEF CancelStep

\* The registration of a student, the deletion of a class and an import leave the status
\* of a cancelled row, or take the row away.
LEMMA EndCancel ==
  ASSUME CancelInv, NEW w \in Worker,
         RegisterCommit(w) \/ DeleteRun(w) \/ ImportCommit(w)
  PROVE  CancelStep
<1>1. Move(w, NoJob) /\ UNCHANGED <<edited, crossed>>
  BY DEF RegisterCommit, DeleteRun, ImportCommit, Step
<1>2. \A v \in Worker : PayStep(v)
  BY <1>1, MovePays, NoJobRests
<1>3. ASSUME \A r \in DOMAIN row : r \in DOMAIN row' /\ row'[r].status \in {row[r].status, "GONE"}
      PROVE  CancelStep
  BY <1>1, <1>2, <1>3 DEF CancelStep, StatusStep
<1>4. CASE RegisterCommit(w)
  <2>1. PICK h : h = job[w].row
    OBVIOUS
  <2> DEFINE linked == Typed(row[h].class, NoName, "linked", row[h].status, row[h].line)
  <2>2. row' = [row EXCEPT ![h] = linked] /\ linked.status = row[h].status
    BY <1>4, <2>1 DEF RegisterCommit, Typed
  <2> HIDE DEF linked
  <2>3. \A r \in DOMAIN row : r \in DOMAIN row' /\ row'[r].status = row[r].status
    BY <2>2
  <2> QED
    BY <1>3, <2>3
<1>5. CASE DeleteRun(w)
  <2>1. row' = [r \in DOMAIN row |->
           [class |-> row[r].class, name |-> row[r].name, student |-> row[r].student,
            status |-> IF row[r].class \in job[w].class THEN "GONE" ELSE row[r].status,
            line |-> row[r].line]]
    BY <1>5 DEF DeleteRun
  <2>2. \A r \in DOMAIN row : r \in DOMAIN row' /\ row'[r].status \in {row[r].status, "GONE"}
    BY <2>1
  <2> QED
    BY <1>3, <2>2
<1>6. CASE ImportCommit(w)
  <2>1. row' = row \/ Enrolled(job[w].new)
    BY <1>6, Zenon DEF ImportCommit
  <2>2. \A r \in DOMAIN row : r \in DOMAIN row' /\ row'[r] = row[r]
    BY <2>1, EnrolledTables DEF CancelInv, LessonInv, Frame, Jobs
  <2> QED
    BY <1>3, <2>2
<1> QED
  BY <1>4, <1>5, <1>6

LEMMA StepCancel ==
  ASSUME CancelInv, [Next]_vars
  PROVE  CancelInv' /\ CancelStep
<1>1. LessonInv'
  BY NextInv DEF CancelInv
<1>2. CASE UNCHANGED vars
  <2>1. UNCHANGED <<row, edited, crossed, job>>
    BY <1>2 DEF vars
  <2> QED
    BY <1>1, <2>1, SameJobsPay, CancelKept DEF CancelStep, StatusStep
<1>3. CASE Office
  BY <1>1, <1>3, OfficeCancel, DeleteStudentCancel, CancelKept
<1>4. ASSUME NEW w \in Worker, RowStep(w)
      PROVE  CancelStep
  BY <1>4, OpenCancel, QuietCancel, SaveCancel, EndCancel DEF RowStep
<1>5. ASSUME NEW w \in Worker, ClassStep(w)
      PROVE  CancelStep
  BY <1>5, OpenCancel, QuietCancel, EndCancel DEF ClassStep
<1>6. ASSUME NEW w \in Worker, Crash(w)
      PROVE  CancelStep
  BY <1>6, QuietCancel
<1> QED
  BY <1>1, <1>2, <1>3, <1>4, <1>5, <1>6, CancelKept DEF Next

LEMMA InitCancel == Init => CancelInv
<1> SUFFICES ASSUME Init PROVE CancelInv
  OBVIOUS
<1>1. DOMAIN row = {} /\ \A w \in Worker : job[w].phase = "idle"
  BY DEF Init, NoJob
<1> QED
  BY <1>1, InitInv DEF CancelInv

\* Money that comes for a cancelled registration leaves it cancelled, however payments,
\* cancellations, registrations, imports and deletions interleave, until the office
\* edits the row or deletes its student. A payment that had read REGISTERED before the
\* cancellation was saved is excepted (crossed): its stale copy does write PAID.
THEOREM CancelledStays == Spec => CancelSticks
<1>1. ASSUME CancelInv, [Next]_vars
      PROVE  [\A r \in DOMAIN row \ (edited' \cup crossed) :
                row[r].status = "CANCELLED"
                  => row'[r].status \in {"CANCELLED", "GONE"}]_vars
  BY <1>1, StepCancel DEF CancelStep, StatusStep
<1>2. CancelInv /\ [Next]_vars => CancelInv'
  BY StepCancel
<1> QED
  BY <1>1, <1>2, InitCancel, PTL DEF Spec, CancelSticks

=============================================================================
