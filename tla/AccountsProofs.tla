--------------------------- MODULE AccountsProofs ---------------------------
(***************************************************************************)
(* Accounts guarantees, for any accounts, workers, requests and crashes,   *)
(* that a password the office generated never comes without the flag that  *)
(* makes its owner change it; and, of requests that nobody gets in the way *)
(* of, that the slips they leave open the accounts, and that a student has *)
(* one primary guardian again, whatever the admin site has ticked.         *)
(*                                                                         *)
(* Imports, which makes accounts in bulk, guarantees for any files,        *)
(* requests and deaths that a logged import has left nothing out, that a   *)
(* guardian has one account unless two transactions looked at once, and    *)
(* that a preview is right unless another request came in between.         *)
(***************************************************************************)
EXTENDS Accounts, Imports, FiniteSetTheorems, TLAPS

-----------------------------------------------------------------------------
(* GeneratedMustChange speaks of accounts.  It is inductive with the same for *)
(* the copies that requests hold and will write whole, and with the passwords *)
(* of open requests being nobody's yet.                                       *)

Shaped(j) == j = [f \in DOMAIN NoJob |-> j[f]]

Record == [there : {"yes", "no"}, password : Nat, raw : {"yes", "no"},
           must : {"yes", "no"}, active : {"yes", "no"}]

Whole(j) == j.phase \in {"edit", "toggle"} \cup Passwords

\* Requests that may still write the password they came with.
Writer(j) ==
  Whole(j) \/ j.phase \in CreatePhases \cup {"reset", "batch", "forced", "guardian"}

\* A row, of an account or of a copy, that may be written.
Sound(u, row) ==
  /\ row \in Record /\ row.password <= started
  /\ \A v \in Worker : Writer(job[v]) => job[v].token # row.password
  /\ <<u, row.password>> \in made => row.must = "yes"

SoundNext(u, row) ==
  /\ row \in Record /\ row.password <= started'
  /\ \A v \in Worker : Writer(job'[v]) => job'[v].token # row.password
  /\ <<u, row.password>> \in made' => row.must = "yes"

\* A request that makes a student makes the account of this student.
OfItsPupil(j) == j.phase \in CreatePhases => j.pupil \in j.user

JobsShaped ==
  /\ job = [w \in Worker |-> job[w]]
  /\ \A w \in Worker : Shaped(job[w]) /\ job[w].user \subseteq User /\ OfItsPupil(job[w])

TokensNew ==
  \A w \in Worker : Writer(job[w]) =>
    /\ job[w].token \in 1 .. started
    /\ \A u \in User : <<u, job[w].token>> \notin made
    /\ \A v \in Worker \ {w} : Writer(job[v]) => job[v].token # job[w].token

MadeBefore ==
  /\ started \in Nat
  /\ \A u, n : <<u, n>> \in made => n \in 1 .. started

AccountsSound ==
  /\ account = [u \in User |-> account[u]]
  /\ \A u \in User : Sound(u, account[u])

CopiesSound ==
  \A w \in Worker : Whole(job[w]) =>
    \A copy \in job[w].copy, u \in job[w].user : Sound(u, copy[u])

PasswordInv ==
  /\ JobsShaped /\ TokensNew /\ MadeBefore /\ AccountsSound /\ CopiesSound

\* How a step may give out and use up passwords.
GoesOn(w) ==
  /\ started' \in {started, started + 1}
  /\ \A v \in Worker : Writer(job'[v]) =>
       \/ Writer(job[v]) /\ job'[v].token = job[v].token
       \/ v = w /\ started' = started + 1 /\ job'[v].token = started + 1

Uses(w) ==
  \/ made' = made
  \/ /\ Writer(job[w]) /\ ~ Writer(job'[w])
     /\ \E U \in SUBSET User : made' = made \cup (U \X {job[w].token})

LEMMA SoundStays ==
  ASSUME PasswordInv, NEW w \in Worker, GoesOn(w), Uses(w)
  PROVE  /\ TokensNew' /\ MadeBefore'
         /\ \A u, row : Sound(u, row) => SoundNext(u, row)
<1>1. started \in Nat /\ started' \in Nat /\ started <= started'
  BY DEF PasswordInv, MadeBefore, GoesOn
<1>2. ASSUME NEW u, NEW n, <<u, n>> \in made'
      PROVE  <<u, n>> \in made \/ (Writer(job[w]) /\ ~ Writer(job'[w]) /\ n = job[w].token)
  BY <1>2 DEF Uses
<1>3. MadeBefore'
  BY <1>1, <1>2 DEF PasswordInv, MadeBefore, TokensNew
<1>4. TokensNew'
  <2>1. SUFFICES ASSUME NEW v \in Worker, Writer(job'[v])
                 PROVE  /\ job'[v].token \in 1 .. started'
                        /\ \A u \in User : <<u, job'[v].token>> \notin made'
                        /\ \A x \in Worker \ {v} :
                             Writer(job'[x]) => job'[x].token # job'[v].token
    BY DEF TokensNew, Writer, Whole
  <2>2. CASE Writer(job[v]) /\ job'[v].token = job[v].token
    <3>1. job[v].token \in 1 .. started
      BY <2>2 DEF PasswordInv, TokensNew
    <3>2. \A u \in User : <<u, job'[v].token>> \notin made'
      BY <1>2, <2>1, <2>2 DEF PasswordInv, TokensNew
    <3>3. ASSUME NEW x \in Worker \ {v}, Writer(job'[x])
          PROVE  job'[x].token # job'[v].token
      BY <1>1, <2>2, <3>1, <3>3 DEF PasswordInv, TokensNew, GoesOn
    <3> QED
      BY <1>1, <2>2, <3>1, <3>2, <3>3
  <2>3. CASE v = w /\ started' = started + 1 /\ job'[v].token = started + 1
    <3>1. \A u \in User : <<u, job'[v].token>> \notin made'
      BY <1>1, <1>2, <2>1, <2>3 DEF PasswordInv, MadeBefore
    <3>2. ASSUME NEW x \in Worker \ {v}, Writer(job'[x])
          PROVE  job'[x].token # job'[v].token
      BY <1>1, <2>3, <3>2 DEF PasswordInv, TokensNew, GoesOn
    <3> QED
      BY <1>1, <2>3, <3>1, <3>2
  <2> QED
    BY <2>1, <2>2, <2>3 DEF GoesOn
<1>5. ASSUME NEW u, NEW row, Sound(u, row)
      PROVE  SoundNext(u, row)
  <2>1. row \in Record /\ row.password \in Nat /\ row.password <= started
    BY <1>5 DEF Sound, Record
  <2>2. \A v \in Worker : Writer(job'[v]) => job'[v].token # row.password
    BY <1>1, <1>5, <2>1 DEF Sound, GoesOn
  <2>3. <<u, row.password>> \in made' => row.must = "yes"
    BY <1>2, <1>5 DEF Sound
  <2> QED
    BY <1>1, <2>1, <2>2, <2>3 DEF SoundNext
<1> QED
  BY <1>3, <1>4, <1>5

\* What a step owes for the invariant: sound rows and sound copies.
LEMMA Assemble ==
  ASSUME PasswordInv, NEW w \in Worker, GoesOn(w), Uses(w), JobsShaped',
         account' = [u \in User |-> account'[u]],
         \A u \in User : account'[u] = account[u] \/ SoundNext(u, account'[u]),
         \A v \in Worker : Whole(job'[v]) =>
           \/ Whole(job[v]) /\ job'[v].copy = job[v].copy /\ job'[v].user = job[v].user
           \/ \A copy \in job'[v].copy, u \in job'[v].user : SoundNext(u, copy[u])
  PROVE  PasswordInv'
<1>1. TokensNew' /\ MadeBefore' /\ \A u, row : Sound(u, row) => SoundNext(u, row)
  BY SoundStays
<1>2. \A u \in User : SoundNext(u, account'[u])
  BY <1>1 DEF PasswordInv, AccountsSound
<1>3. AccountsSound'
  BY <1>2 DEF AccountsSound, Sound, SoundNext, Writer, Whole
<1>4. ASSUME NEW v \in Worker, Whole(job'[v]),
             NEW copy \in job'[v].copy, NEW u \in job'[v].user
      PROVE  SoundNext(u, copy[u])
  BY <1>1, <1>4 DEF PasswordInv, CopiesSound
<1>5. CopiesSound'
  BY <1>4 DEF CopiesSound, Sound, SoundNext, Writer, Whole
<1> QED
  BY <1>1, <1>3, <1>5 DEF PasswordInv

\* A request that others notice, or not.
Kept(v) == job'[v] = job[v] \/ job'[v] = [job[v] EXCEPT !.alone = "no"]

LEMMA KeptShaped ==
  ASSUME JobsShaped, NEW v \in Worker, Kept(v)
  PROVE  /\ Shaped(job'[v]) /\ job'[v].user \subseteq User /\ OfItsPupil(job'[v])
         /\ job'[v].phase = job[v].phase /\ job'[v].user = job[v].user
         /\ job'[v].copy = job[v].copy /\ job'[v].token = job[v].token
<1>1. Shaped(job[v]) /\ job[v].user \subseteq User /\ OfItsPupil(job[v])
  BY DEF JobsShaped
<1>2. CASE job'[v] = job[v]
  BY <1>1, <1>2
<1>3. CASE job'[v] = [job[v] EXCEPT !.alone = "no"]
  BY <1>1, <1>3 DEF Shaped, NoJob, OfItsPupil
<1> QED
  BY <1>2, <1>3 DEF Kept

\* A step of the office, or of nobody's request.
LEMMA OfficeKeeps ==
  ASSUME PasswordInv, job' = [v \in Worker |-> job'[v]], \A v \in Worker : Kept(v),
         started' \in {started, started + 1}, made' = made,
         account' = [u \in User |-> account'[u]],
         \A u \in User : account'[u] = account[u] \/ SoundNext(u, account'[u])
  PROVE  PasswordInv'
<1>1. \A v \in Worker :
        /\ Shaped(job'[v]) /\ job'[v].user \subseteq User /\ OfItsPupil(job'[v])
        /\ job'[v].phase = job[v].phase /\ job'[v].user = job[v].user
        /\ job'[v].copy = job[v].copy /\ job'[v].token = job[v].token
  BY KeptShaped DEF PasswordInv
<1>2. JobsShaped'
  BY <1>1 DEF JobsShaped, Shaped, NoJob, OfItsPupil
<1>3. \A v \in Worker : (Writer(job'[v]) <=> Writer(job[v])) /\ (Whole(job'[v]) <=> Whole(job[v]))
  BY <1>1 DEF Writer, Whole, CreatePhases, Passwords
<1>4. CASE Worker = {}
  <2>1. TokensNew' /\ CopiesSound'
    BY <1>4 DEF TokensNew, CopiesSound
  <2>2. started \in Nat /\ MadeBefore'
    BY DEF PasswordInv, MadeBefore
  <2>3. \A u \in User : account'[u] = account[u] => SoundNext(u, account'[u])
    <3>1. \A u \in User : Sound(u, account[u])
      BY DEF PasswordInv, AccountsSound
    <3> QED
      BY <1>4, <2>2, <3>1 DEF Sound, SoundNext, Record
  <2>4. AccountsSound'
    BY <1>4, <2>3 DEF AccountsSound, Sound, SoundNext
  <2> QED
    BY <1>2, <2>1, <2>2, <2>4 DEF PasswordInv
<1>5. CASE Worker # {}
  <2>1. PICK w \in Worker : TRUE
    BY <1>5
  <2>2. GoesOn(w) /\ Uses(w)
    BY <1>1, <1>3 DEF GoesOn, Uses
  <2>3. \A v \in Worker : Whole(job'[v]) =>
          Whole(job[v]) /\ job'[v].copy = job[v].copy /\ job'[v].user = job[v].user
    BY <1>1, <1>3
  <2> QED
    BY <1>2, <2>2, <2>3, Assemble
<1> QED
  BY <1>4, <1>5

\* A request begins, with copies of the accounts as they are.
LEMMA EnterKeeps ==
  ASSUME PasswordInv, NEW w \in Worker, NEW j, Enter(w, j), UNCHANGED <<account, made>>,
         Shaped(j), j.user \subseteq User, OfItsPupil(j),
         Writer(j) => j.token = started + 1,
         Whole(j) => \A copy \in j.copy, u \in j.user : copy[u] = account[u]
  PROVE  PasswordInv'
<1>1. /\ started' = started + 1 /\ started \in Nat
      /\ job[w].phase = "idle"
  BY DEF Enter, Count, PasswordInv, MadeBefore
<1>2. job' = [v \in Worker |-> job'[v]]
  BY DEF Enter
<1>3. job'[w] = j \/ job'[w] = [j EXCEPT !.alone = "no"]
  BY DEF Enter
<1>4. /\ Shaped(job'[w]) /\ job'[w].phase = j.phase /\ job'[w].user = j.user
      /\ job'[w].copy = j.copy /\ job'[w].token = j.token /\ OfItsPupil(job'[w])
  <2>1. CASE job'[w] = j
    BY <2>1
  <2>2. CASE job'[w] = [j EXCEPT !.alone = "no"]
    BY <2>2 DEF Shaped, NoJob, OfItsPupil
  <2> QED
    BY <1>3, <2>1, <2>2
<1>5. \A v \in Worker \ {w} : Kept(v)
  BY DEF Enter, Kept
<1>6. \A v \in Worker \ {w} :
        /\ Shaped(job'[v]) /\ job'[v].user \subseteq User /\ OfItsPupil(job'[v])
        /\ job'[v].phase = job[v].phase /\ job'[v].user = job[v].user
        /\ job'[v].copy = job[v].copy /\ job'[v].token = job[v].token
  BY <1>5, KeptShaped DEF PasswordInv
<1>7. JobsShaped'
  BY <1>2, <1>4, <1>6 DEF JobsShaped, Shaped, NoJob, OfItsPupil
<1>8. (Writer(job'[w]) <=> Writer(j)) /\ (Whole(job'[w]) <=> Whole(j))
  BY <1>4 DEF Writer, Whole, CreatePhases, Passwords
<1>9. GoesOn(w) /\ Uses(w)
  <2>1. \A v \in Worker \ {w} : Writer(job'[v]) => Writer(job[v])
    BY <1>6 DEF Writer, Whole, CreatePhases, Passwords
  <2> QED
    BY <1>1, <1>4, <1>6, <1>8, <2>1 DEF GoesOn, Uses
<1>10. \A u, row : Sound(u, row) => SoundNext(u, row)
  BY <1>9, SoundStays
<1>11. \A copy \in job'[w].copy, u \in job'[w].user : Whole(job'[w]) => SoundNext(u, copy[u])
  BY <1>4, <1>8, <1>10 DEF PasswordInv, AccountsSound
<1>12. \A v \in Worker : Whole(job'[v]) =>
         \/ Whole(job[v]) /\ job'[v].copy = job[v].copy /\ job'[v].user = job[v].user
         \/ \A copy \in job'[v].copy, u \in job'[v].user : SoundNext(u, copy[u])
  BY <1>6, <1>11 DEF Whole
<1>13. account' = [u \in User |-> account'[u]]
  BY DEF PasswordInv, AccountsSound
<1> QED
  BY <1>7, <1>9, <1>12, <1>13, Assemble
\* A request that has written is no writer any more.
LEMMA Closed ==
  ASSUME PasswordInv, NEW w \in Worker, NEW U, U \subseteq User,
         Close(w, U) \/ job' = [job EXCEPT ![w] = NoJob]
  PROVE  /\ JobsShaped' /\ ~ Writer(job'[w]) /\ ~ Whole(job'[w])
         /\ \A v \in Worker \ {w} : job'[v] = job[v]
<1> DEFINE k == [job[w] EXCEPT !.phase = "session", !.user = U, !.copy = {}]
<1>1. job' = [job EXCEPT ![w] = NoJob] \/ job' = [job EXCEPT ![w] = k]
  BY DEF Close
<1>2. Shaped(job[w]) /\ job = [v \in Worker |-> job[v]]
  BY DEF PasswordInv, JobsShaped
<1>3. Shaped(k) /\ k.phase = "session" /\ k.user = U
  BY <1>2 DEF Shaped, NoJob
<1>4. Shaped(NoJob) /\ NoJob.phase = "idle" /\ NoJob.user = {}
  BY DEF Shaped, NoJob
<1> HIDE DEF k
<1>5. /\ Shaped(job'[w]) /\ job'[w].phase \in {"idle", "session"}
      /\ job'[w].user \subseteq User
  BY <1>1, <1>2, <1>3, <1>4
<1>6. \A v \in Worker \ {w} : job'[v] = job[v]
  BY <1>1, <1>2
<1>7. job' = [v \in Worker |-> job'[v]]
  BY <1>1, <1>2
<1>8. \A v \in Worker :
        Shaped(job'[v]) /\ job'[v].user \subseteq User /\ OfItsPupil(job'[v])
  BY <1>5, <1>6 DEF PasswordInv, JobsShaped, OfItsPupil, CreatePhases
<1>9. JobsShaped'
  BY <1>7, <1>8 DEF JobsShaped, Shaped, NoJob, OfItsPupil
<1> QED
  BY <1>5, <1>6, <1>9 DEF Writer, Whole, CreatePhases, Passwords

\* The row a request writes with the password it came with.
LEMMA WrittenSound ==
  ASSUME PasswordInv, NEW w \in Worker, Writer(job[w]), ~ Writer(job'[w]),
         \A v \in Worker \ {w} : job'[v] = job[v], started' = started,
         NEW u \in User, NEW row \in Record,
         \/ row.password = job[w].token /\ (made' = made \/ row.must = "yes")
         \/ row.password = 0 /\ Uses(w)
  PROVE  SoundNext(u, row)
<1>1. /\ job[w].token \in 1 .. started /\ started \in Nat
      /\ \A v \in Worker \ {w} : Writer(job[v]) =>
           job[v].token # job[w].token /\ job[v].token \in 1 .. started
      /\ <<u, job[w].token>> \notin made
      /\ <<u, 0>> \notin made
  BY DEF PasswordInv, TokensNew, MadeBefore
<1>2. CASE row.password = job[w].token /\ (made' = made \/ row.must = "yes")
  BY <1>1, <1>2 DEF SoundNext
<1>3. CASE row.password = 0 /\ Uses(w)
  BY <1>1, <1>3 DEF SoundNext, Uses
<1> QED
  BY <1>2, <1>3

LEMMA CloseKeeps ==
  ASSUME PasswordInv, NEW w \in Worker, NEW U, U \subseteq User, started' = started,
         Close(w, U) \/ job' = [job EXCEPT ![w] = NoJob],
         \/ made' = made
         \/ Writer(job[w]) /\ \E V \in SUBSET User : made' = made \cup (V \X {job[w].token}),
         account' = [u \in User |-> account'[u]],
         \A u \in User :
           \/ account'[u] = account[u]
           \/ /\ Writer(job[w]) /\ account'[u] \in Record
              /\ \/ /\ account'[u].password = job[w].token
                    /\ made' = made \/ account'[u].must = "yes"
                 \/ account'[u].password = 0
           \/ SoundNext(u, account'[u])
  PROVE  PasswordInv'
<1>1. /\ JobsShaped' /\ ~ Writer(job'[w]) /\ ~ Whole(job'[w])
      /\ \A v \in Worker \ {w} : job'[v] = job[v]
  BY Closed
<1>2. GoesOn(w) /\ Uses(w)
  BY <1>1 DEF GoesOn, Uses
<1>3. \A u \in User : account'[u] = account[u] \/ SoundNext(u, account'[u])
  BY <1>1, <1>2, WrittenSound
<1>4. \A v \in Worker : Whole(job'[v]) =>
        Whole(job[v]) /\ job'[v].copy = job[v].copy /\ job'[v].user = job[v].user
  BY <1>1
<1> QED
  BY <1>1, <1>2, <1>3, <1>4, Assemble

-----------------------------------------------------------------------------
(* The steps *)

LEMMA RowSound ==
  ASSUME PasswordInv, NEW u \in User
  PROVE  account[u] \in Record /\ Sound(u, account[u])
BY DEF PasswordInv, AccountsSound, Sound

LEMMA SaveCreateKeeps ==
  ASSUME PasswordInv, NEW w \in Worker, SaveCreate(w)
  PROVE  PasswordInv'
<1> DEFINE j == job[w]
           s == j.pupil
           own == IF j.phase = "import" THEN Row(Unusable, "no") ELSE Row(j.token, "yes")
           bare == Row(Unusable, "yes")
<1>1. /\ Writer(j) /\ started' = started /\ j.user \subseteq User /\ s \in User
      /\ j.token \in Nat /\ account = [u \in User |-> account[u]]
  BY DEF SaveCreate, counts, Writer, PasswordInv, JobsShaped, TokensNew, AccountsSound,
         MadeBefore, OfItsPupil
<1>2. CASE Close(w, {}) /\ UNCHANGED <<account, made>>
  <2>1. account' = [u \in User |-> account'[u]]
    BY <1>1, <1>2
  <2> QED
    BY <1>1, <1>2, <2>1, CloseKeeps
<1>3. CASE /\ Write(w, [u \in j.user |-> IF u = s THEN own ELSE bare])
           /\ made' = IF j.phase = "import" THEN made ELSE made \cup {<<s, j.token>>}
           /\ Close(w, IF j.phase = "create" THEN {s} ELSE {})
  <2>1. /\ own \in Record
        /\ own.password = 0 \/ (own.password = j.token /\ own.must = "yes")
    BY <1>1 DEF Row, NoAccount, Record, Unusable
  <2>2. bare \in Record /\ bare.password = 0
    BY DEF Row, NoAccount, Record, Unusable
  <2> HIDE DEF own, bare
  <2>3. /\ account' = [u \in User |-> account'[u]]
        /\ \A u \in User : account'[u] \in {account[u], own, bare}
    BY <1>3 DEF Write
  <2>4. \A u \in User :
          \/ account'[u] = account[u]
          \/ /\ account'[u] \in Record
             /\ \/ account'[u].password = job[w].token /\ account'[u].must = "yes"
                \/ account'[u].password = 0
    BY <2>1, <2>2, <2>3
  <2>5. \/ made' = made
        \/ Writer(job[w]) /\ \E V \in SUBSET User : made' = made \cup (V \X {job[w].token})
    <3>1. {s} \X {j.token} = {<<s, j.token>>} /\ {s} \in SUBSET User
      BY <1>1
    <3> QED
      BY <1>1, <1>3, <3>1
  <2>6. Close(w, {}) \/ Close(w, {s})
    BY <1>3
  <2>7. {} \subseteq User /\ {s} \subseteq User
    BY <1>1
  <2> QED
    BY <1>1, <2>3, <2>4, <2>5, <2>6, <2>7, CloseKeeps
<1> QED
  BY <1>2, <1>3 DEF SaveCreate

LEMMA SaveResetKeeps ==
  ASSUME PasswordInv, NEW w \in Worker, SaveReset(w)
  PROVE  PasswordInv'
<1> DEFINE j == job[w]
           U == {u \in j.user : There(u)}
           V == IF j.phase = "batch" THEN j.user ELSE U
<1>0. j.phase \in {"reset", "batch"} /\ started' = started
  BY DEF SaveReset, counts
<1>1. Writer(j) /\ started' = started /\ j.user \subseteq User /\ j.token \in Nat
  BY <1>0 DEF Writer, PasswordInv, JobsShaped, TokensNew, MadeBefore
<1>2. /\ Write(w, [u \in U |-> [account[u] EXCEPT !.password = j.token, !.raw = "no",
                                                  !.must = "yes"]])
      /\ made' = made \cup (U \X {j.token}) /\ Close(w, V)
  BY DEF SaveReset
<1>3. U \subseteq User /\ V \subseteq User
  BY <1>1
<1>4. account' = [u \in User |-> account'[u]]
  BY <1>2 DEF Write
<1>5. ASSUME NEW u \in User
      PROVE  \/ account'[u] = account[u]
             \/ /\ account'[u] \in Record /\ account'[u].password = job[w].token
                /\ account'[u].must = "yes"
  <2>1. account[u] \in Record
    BY RowSound
  <2>2. \/ account'[u] = account[u]
        \/ account'[u] = [account[u] EXCEPT !.password = j.token, !.raw = "no",
                                            !.must = "yes"]
    BY <1>2 DEF Write
  <2> QED
    BY <1>1, <2>1, <2>2 DEF Record
<1> HIDE DEF U, V
<1> QED
  BY <1>1, <1>2, <1>3, <1>4, <1>5, CloseKeeps

LEMMA SaveForcedKeeps ==
  ASSUME PasswordInv, NEW w \in Worker, SaveForced(w)
  PROVE  PasswordInv'
<1> DEFINE j == job[w]
           U == {u \in j.user : There(u)}
<1>0. j.phase = "forced" /\ started' = started /\ made' = made
  BY DEF SaveForced, counts
<1>1. Writer(j) /\ started' = started /\ made' = made /\ j.token \in Nat
  BY <1>0 DEF Writer, PasswordInv, JobsShaped, TokensNew, MadeBefore
<1>2. Write(w, [u \in U |-> [account[u] EXCEPT !.password = j.token, !.raw = "no",
                                               !.must = "no"]])
  BY DEF SaveForced
<1>3. Close(w, {})
  BY DEF SaveForced
<1>4. account' = [u \in User |-> account'[u]]
  BY <1>2 DEF Write
<1>5. ASSUME NEW u \in User
      PROVE  \/ account'[u] = account[u]
             \/ account'[u] \in Record /\ account'[u].password = job[w].token
  <2>1. account[u] \in Record
    BY RowSound
  <2>2. \/ account'[u] = account[u]
        \/ account'[u] = [account[u] EXCEPT !.password = j.token, !.raw = "no",
                                            !.must = "no"]
    BY <1>2 DEF Write
  <2> QED
    BY <1>1, <2>1, <2>2 DEF Record
<1>6. {} \subseteq User
  OBVIOUS
<1> QED
  BY <1>1, <1>3, <1>4, <1>5, <1>6, CloseKeeps
\* All columns as they were read: what was sound then is sound now.
LEMMA SaveWholeKeeps ==
  ASSUME PasswordInv, NEW w \in Worker, SaveWhole(w)
  PROVE  PasswordInv'
<1> DEFINE j == job[w]
<1>1. j.phase \in {"edit", "toggle"} \cup Passwords /\ started' = started /\ made' = made
  BY DEF SaveWhole, counts
<1>2. /\ Whole(j) /\ Writer(j) /\ j.token \in Nat /\ {} \subseteq User
  BY <1>1 DEF Whole, Writer, PasswordInv, TokensNew, MadeBefore
<1>3. Close(w, {})
  BY DEF SaveWhole
<1>4. PICK copy \in j.copy :
        account' = [u \in User |-> IF u \in j.user THEN Changed(j, copy[u]) ELSE account[u]]
  BY DEF SaveWhole
<1>5. account' = [u \in User |-> account'[u]]
  BY <1>4
<1>6. /\ ~ Writer(job'[w]) /\ \A v \in Worker \ {w} : job'[v] = job[v]
  BY <1>2, <1>3, Closed
<1>7. \A u, row : Sound(u, row) => SoundNext(u, row)
  <2>1. GoesOn(w) /\ Uses(w)
    BY <1>1, <1>6 DEF GoesOn, Uses
  <2> QED
    BY <2>1, SoundStays
<1>8. ASSUME NEW u \in User
      PROVE  \/ account'[u] = account[u]
             \/ account'[u] \in Record /\ account'[u].password \in {0, job[w].token}
             \/ SoundNext(u, account'[u])
  <2>1. CASE u \notin j.user
    BY <1>4, <2>1
  <2>2. CASE u \in j.user
    <3> DEFINE row == copy[u]
               active == IF row.active = "yes" THEN "no" ELSE "yes"
    <3>1. Sound(u, row) /\ row \in Record
      BY <1>2, <2>2 DEF PasswordInv, CopiesSound, Sound
    <3>2. account'[u] = Changed(j, row)
      BY <1>4, <2>2
    <3> HIDE DEF row
    <3>3. CASE j.phase = "edit"
      <4>1. account'[u] = row
        BY <3>2, <3>3 DEF Changed, Passwords
      <4> QED
        BY <1>7, <3>1, <4>1
    <3>4. CASE j.phase = "toggle"
      <4>1. account'[u] = [row EXCEPT !.active = active]
        BY <3>2, <3>4 DEF Changed
      <4>2. active \in {"yes", "no"}
        OBVIOUS
      <4> HIDE DEF active
      <4>3. /\ account'[u] \in Record /\ account'[u].password = row.password
            /\ account'[u].must = row.must
        BY <3>1, <4>1, <4>2 DEF Record
      <4>4. Sound(u, account'[u])
        BY <3>1, <4>3 DEF Sound
      <4> QED
        BY <1>7, <4>4
    <3>5. CASE j.phase \in Passwords
      <4>1. PICK n \in {0, j.token} : account'[u] = [row EXCEPT !.password = n, !.raw = "no"]
        BY <3>2, <3>5 DEF Changed, Unusable, Passwords
      <4>2. n \in Nat
        BY <1>2
      <4>3. account'[u] \in Record /\ account'[u].password = n
        BY <3>1, <4>1, <4>2 DEF Record
      <4> QED
        BY <4>3
    <3> QED
      BY <1>1, <3>3, <3>4, <3>5
  <2> QED
    BY <2>1, <2>2
<1> QED
  BY <1>1, <1>2, <1>3, <1>5, <1>8, CloseKeeps

LEMMA SaveGuardianKeeps ==
  ASSUME PasswordInv, NEW w \in Worker, SaveGuardian(w)
  PROVE  PasswordInv'
<1> DEFINE j == job[w]
<1>1. j.phase = "guardian" /\ started' = started
  BY DEF SaveGuardian, counts
<1>2. /\ Writer(j) /\ j.token \in Nat /\ j.user \subseteq User /\ {} \subseteq User
  BY <1>1 DEF Writer, PasswordInv, TokensNew, MadeBefore, JobsShaped
<1>3. PICK p \in j.user, copy \in j.copy :
        LET found == copy[p].there = "yes"
            twice == link[<<j.pupil, p>>] # "none"
            lost  == found # There(p) \/ ~There(j.pupil)
        IN  IF twice \/ lost
            THEN /\ Close(w, IF found /\ ~lost THEN {p} ELSE {})
                 /\ UNCHANGED <<account, link, made, fresh, mixed>>
            ELSE /\ Write(w, [u \in {p} |->
                      IF found THEN [account[p] EXCEPT !.password = j.token, !.raw = "yes",
                                                       !.must = "yes"]
                      ELSE Row(Unusable, "yes")])
                 /\ made' = IF found THEN made \cup {<<p, j.token>>} ELSE made
                 /\ link' = Tied(j, p)
                 /\ mixed' = Met(j)
                 /\ Close(w, IF found THEN {p} ELSE {})
  BY DEF SaveGuardian
<1> DEFINE found == copy[p].there = "yes"
           given == [account[p] EXCEPT !.password = j.token, !.raw = "yes", !.must = "yes"]
           bare == Row(Unusable, "yes")
           row == IF found THEN given ELSE bare
<1>4. p \in User /\ {p} \subseteq User
  BY <1>2
<1>5. CASE Close(w, {}) \/ Close(w, {p})
  <2>1. CASE account' = account /\ made' = made
    <3>1. account' = [u \in User |-> account'[u]]
      BY <2>1 DEF PasswordInv, AccountsSound
    <3>2. PasswordInv'
      BY <1>1, <1>2, <1>4, <1>5, <2>1, <3>1, CloseKeeps
    <3> QED
      BY <3>2
  <2>2. CASE /\ Write(w, [u \in {p} |-> row])
             /\ made' = IF found THEN made \cup {<<p, j.token>>} ELSE made
    <3>1. account[p] \in Record
      BY <1>4, RowSound
    <3>2. given \in Record /\ given.password = j.token /\ given.must = "yes"
      BY <1>2, <3>1 DEF Record
    <3>3. bare \in Record /\ bare.password = 0
      BY DEF Row, NoAccount, Record, Unusable
    <3> HIDE DEF given, bare
    <3>4. /\ account' = [u \in User |-> account'[u]]
          /\ \A u \in User : account'[u] = account[u] \/ account'[u] = row
      BY <2>2 DEF Write
    <3>5. \/ made' = made
          \/ Writer(job[w]) /\ \E V \in SUBSET User : made' = made \cup (V \X {job[w].token})
      <4>1. {p} \X {j.token} = {<<p, j.token>>} /\ {p} \in SUBSET User
        BY <1>4
      <4> QED
        BY <1>2, <2>2, <4>1
    <3>6. \A u \in User :
            \/ account'[u] = account[u]
            \/ /\ Writer(job[w]) /\ account'[u] \in Record
               /\ \/ account'[u].password = job[w].token /\ account'[u].must = "yes"
                  \/ account'[u].password = 0
      BY <1>2, <3>2, <3>3, <3>4
    <3> HIDE DEF row, found
    <3> QED
      BY <1>1, <1>2, <1>4, <1>5, <3>4, <3>5, <3>6, CloseKeeps
  <2>3. \/ account' = account /\ made' = made
        \/ /\ Write(w, [u \in {p} |-> row])
           /\ made' = IF found THEN made \cup {<<p, j.token>>} ELSE made
    BY <1>3, Zenon
  <2> QED
    BY <2>1, <2>2, <2>3
<1>6. Close(w, {}) \/ Close(w, {p})
  BY <1>3, Zenon
<1> QED
  BY <1>5, <1>6
\* Steps that write no account.
LEMMA QuietKeeps ==
  ASSUME PasswordInv, NEW w \in Worker, SaveLink(w) \/ WriteSession(w) \/ Crash(w)
  PROVE  PasswordInv'
<1>1. /\ started' = started /\ made' = made /\ account' = account
      /\ Close(w, {}) \/ job' = [job EXCEPT ![w] = NoJob]
  BY DEF SaveLink, WriteSession, Crash, counts, tables, history
<1>2. account' = [u \in User |-> account'[u]] /\ {} \subseteq User
  BY <1>1 DEF PasswordInv, AccountsSound
<1> QED
  BY <1>1, <1>2, CloseKeeps

\* A row of the office: a password nobody has, or none.
LEMMA OfficeSound ==
  ASSUME PasswordInv, \A v \in Worker : Kept(v), NEW u \in User, NEW row \in Record,
         made' = made,
         \/ started' = started + 1 /\ row.password \in {0, started + 1}
         \/ started' = started /\ row.password = 0
  PROVE  SoundNext(u, row)
<1>1. started \in Nat /\ <<u, 0>> \notin made /\ <<u, started + 1>> \notin made
  BY DEF PasswordInv, MadeBefore
<1>2. ASSUME NEW v \in Worker, Writer(job'[v])
      PROVE  job'[v].token \in 1 .. started
  <2>1. job'[v].phase = job[v].phase /\ job'[v].token = job[v].token
    BY KeptShaped DEF PasswordInv
  <2>2. Writer(job[v])
    BY <1>2, <2>1 DEF Writer, Whole, CreatePhases, Passwords
  <2> QED
    BY <2>1, <2>2 DEF PasswordInv, TokensNew
<1> QED
  BY <1>1, <1>2 DEF SoundNext

LEMMA NewRow ==
  ASSUME NEW n \in Nat, NEW must \in {"yes", "no"}
  PROVE  Row(n, must) \in Record /\ Row(n, must).password = n
BY DEF Row, NoAccount, Record

LEMMA AccountStepKeeps ==
  ASSUME PasswordInv, AccountStep
  PROVE  PasswordInv'
<1>1. started \in Nat /\ account = [u \in User |-> account[u]]
  BY DEF PasswordInv, MadeBefore, AccountsSound
<1>2. ASSUME NEW V, Disturb(V)
      PROVE  job' = [v \in Worker |-> job'[v]] /\ \A v \in Worker : Kept(v)
  BY <1>2 DEF Disturb, Kept
<1>3. NoAccount \in Record /\ NoAccount.password = 0
  BY DEF NoAccount, Record, Unusable
<1>4. ASSUME NEW u \in User, CreateAccount(u)
      PROVE  PasswordInv'
  <2> DEFINE row == Row(started + 1, "no")
  <2>1. row \in Record /\ row.password = started + 1
    BY <1>1, NewRow
  <2> HIDE DEF row
  <2>2. /\ account' = [account EXCEPT ![u] = row] /\ Disturb(On(u))
        /\ started' = started + 1 /\ made' = made
    BY <1>4 DEF CreateAccount, Count, row
  <2>3. SoundNext(u, row)
    BY <1>2, <2>1, <2>2, OfficeSound
  <2> QED
    BY <1>1, <1>2, <2>2, <2>3, OfficeKeeps
<1>5. ASSUME NEW u \in User, CreateBare(u)
      PROVE  PasswordInv'
  <2> DEFINE row == Row(Unusable, "no")
  <2>1. row \in Record /\ row.password = 0
    BY DEF Row, NoAccount, Record, Unusable
  <2> HIDE DEF row
  <2>2. /\ account' = [account EXCEPT ![u] = row] /\ Disturb(On(u))
        /\ started' = started + 1 /\ made' = made
    BY <1>5 DEF CreateBare, Count, row, history
  <2>3. SoundNext(u, row)
    BY <1>2, <2>1, <2>2, OfficeSound
  <2> QED
    BY <1>1, <1>2, <2>2, <2>3, OfficeKeeps
<1>6. ASSUME NEW u \in User, DeleteUser(u)
      PROVE  PasswordInv'
  <2>1. /\ account' = [account EXCEPT ![u] = NoAccount] /\ Disturb(On(u) \cup About(u))
        /\ started' = started + 1 /\ made' = made
    BY <1>6 DEF DeleteUser, Count
  <2>2. SoundNext(u, NoAccount)
    BY <1>2, <1>3, <2>1, OfficeSound
  <2> QED
    BY <1>1, <1>2, <2>1, <2>2, OfficeKeeps
<1>7. ASSUME NEW u \in User, ShowSlip(u)
      PROVE  PasswordInv'
  <2>1. /\ account' = account /\ started' = started + 1 /\ made' = made
        /\ Disturb({v \in Worker : job[v].session # {}})
    BY <1>7 DEF ShowSlip, Count, history
  <2>2. job' = [v \in Worker |-> job'[v]] /\ \A v \in Worker : Kept(v)
    BY <1>2, <2>1
  <2> QED
    BY <1>1, <2>1, <2>2, OfficeKeeps
<1>8. ASSUME NEW s, NEW P, DeleteLink(s, P)
      PROVE  PasswordInv'
  <2>1. account' = account /\ started' = started + 1 /\ made' = made /\ job' = job
    BY <1>8 DEF DeleteLink, Count, history
  <2>2. job' = [v \in Worker |-> job'[v]] /\ \A v \in Worker : Kept(v)
    BY <2>1 DEF PasswordInv, JobsShaped, Kept
  <2> QED
    BY <1>1, <2>1, <2>2, OfficeKeeps
<1>9. ASSUME NEW s, NEW p, NEW tie, TieLink(s, p, tie)
      PROVE  PasswordInv'
  <2>1. account' = account /\ started' = started + 1 /\ made' = made /\ Disturb(About(s))
    BY <1>9 DEF TieLink, Count
  <2> QED
    BY <1>1, <1>2, <2>1, OfficeKeeps
<1> QED
  BY <1>4, <1>5, <1>6, <1>7, <1>8, <1>9 DEF AccountStep

LEMMA OpenKeeps ==
  ASSUME PasswordInv, NEW w \in Worker, NEW phase, NEW U, U \subseteq User,
         NEW slipped, NEW drop, Open(w, phase, U, slipped, drop), phase \notin CreatePhases
  PROVE  PasswordInv'
<1> DEFINE copies == {[u \in U |-> account[u]]}
           token == started + 1
           session == IF slipped = {} THEN {} ELSE {slips}
           j == [NoJob EXCEPT !.phase = phase, !.user = U, !.token = token,
                   !.copy = copies, !.drop = drop, !.session = session]
<1>1. Enter(w, j) /\ UNCHANGED <<account, made>>
  BY DEF Open, tables, history
<1>2. \A copy \in copies, u \in U : copy[u] = account[u]
  OBVIOUS
<1> HIDE DEF copies, token, session
<1>3. Shaped(j) /\ j.user = U /\ j.token = token /\ j.copy = copies /\ j.phase = phase
  BY DEF Shaped, NoJob
<1> HIDE DEF j
<1>4. Writer(j) => j.token = started + 1
  BY <1>3 DEF token
<1>5. \A copy \in j.copy, u \in j.user : copy[u] = account[u]
  BY <1>2, <1>3
<1>6. j.user \subseteq User /\ OfItsPupil(j)
  BY <1>3 DEF OfItsPupil
<1> QED
  BY <1>1, <1>3, <1>4, <1>5, <1>6, EnterKeeps

LEMMA OpenGuardianKeeps ==
  ASSUME PasswordInv, NEW w \in Worker, NEW s, NEW p \in Parent, NEW tie,
         OpenGuardian(w, s, p, tie)
  PROVE  PasswordInv'
<1> DEFINE copies == {[u \in {p} |-> account[u]]}
           token == started + 1
           seen == IF tie = "primary" THEN Primaries(s) ELSE {}
           j == [NoJob EXCEPT !.phase = "guardian", !.user = {p}, !.token = token,
                   !.copy = copies, !.session = {slips}, !.pupil = s, !.tie = tie,
                   !.seen = seen]
<1>1. Enter(w, j) /\ UNCHANGED <<account, made>>
  BY DEF OpenGuardian, tables, history
<1> HIDE DEF copies, token, seen
<1>2. Shaped(j) /\ j.user = {p} /\ j.token = token /\ j.phase = "guardian"
  BY DEF Shaped, NoJob
<1> HIDE DEF j
<1>3. j.token = started + 1 /\ j.user \subseteq User /\ ~ Whole(j) /\ OfItsPupil(j)
  BY <1>2 DEF token, User, Whole, Passwords, OfItsPupil, CreatePhases
<1> QED
  BY <1>1, <1>2, <1>3, EnterKeeps

LEMMA OpenCreateKeeps ==
  ASSUME PasswordInv, NEW w \in Worker, NEW u \in Pupil, NEW new \in SUBSET Parent,
         NEW phase \in CreatePhases, OpenCreate(w, u, new, phase)
  PROVE  PasswordInv'
<1> DEFINE token == started + 1
           session == IF phase = "create" THEN {slips} ELSE {}
           user == {u} \cup new
           j == [NoJob EXCEPT !.phase = phase, !.user = user, !.token = token,
                   !.session = session, !.pupil = u]
<1>1. Enter(w, j) /\ UNCHANGED <<account, made>>
  BY DEF OpenCreate, tables, history
<1>2. user \subseteq User
  BY DEF User
<1> HIDE DEF token, session, user
<1>3. Shaped(j) /\ j.user = user /\ j.token = token /\ j.phase = phase /\ j.pupil = u
  BY DEF Shaped, NoJob
<1> HIDE DEF j
<1>4. j.token = started + 1 /\ j.user \subseteq User /\ ~ Whole(j) /\ OfItsPupil(j)
  BY <1>2, <1>3 DEF token, user, Whole, CreatePhases, Passwords, OfItsPupil
<1> QED
  BY <1>1, <1>3, <1>4, EnterKeeps

LEMMA OpenLinkKeeps ==
  ASSUME PasswordInv, NEW w \in Worker, NEW s, NEW p \in Parent, NEW tie,
         OpenLink(w, s, p, tie)
  PROVE  PasswordInv'
<1> DEFINE j == [NoJob EXCEPT !.phase = "link", !.user = {p}, !.pupil = s, !.tie = tie]
<1>1. Enter(w, j) /\ UNCHANGED <<account, made>>
  BY DEF OpenLink, history
<1>2. Shaped(j) /\ j.user = {p} /\ j.phase = "link"
  BY DEF Shaped, NoJob
<1> HIDE DEF j
<1>3. j.user \subseteq User /\ ~ Whole(j) /\ ~ Writer(j) /\ OfItsPupil(j)
  BY <1>2 DEF User, Whole, Writer, Passwords, CreatePhases, OfItsPupil
<1> QED
  BY <1>1, <1>2, <1>3, EnterKeeps

LEMMA OpenStepKeeps ==
  ASSUME PasswordInv, NEW w \in Worker, OpenStep(w)
  PROVE  PasswordInv'
<1>1. ASSUME NEW u \in User,
             \/ OpenReset(w, u) \/ OpenChange(w, u) \/ OpenEdit(w, u) \/ OpenPassword(w, u)
             \/ OpenToggle(w, u) \/ OpenDisable(w, u) \/ OpenForced(w, u) \/ OpenOwn(w, u)
      PROVE  PasswordInv'
  <2>1. \E phase \in {"reset", "edit", "password", "toggle", "disable", "forced", "own"} :
          \E slipped, drop : Open(w, phase, {u}, slipped, drop)
    BY <1>1 DEF OpenReset, OpenChange, OpenEdit, OpenPassword, OpenToggle, OpenDisable,
                OpenForced, OpenOwn
  <2> QED
    BY <2>1, OpenKeeps DEF CreatePhases
<1>2. ASSUME NEW group \in {Staff, Pupil}, OpenBatch(w, group)
      PROVE  PasswordInv'
  <2> DEFINE U == {u \in group : There(u)}
  <2>1. U \subseteq User
    BY DEF User
  <2>2. Open(w, "batch", U, U, "yes")
    BY <1>2 DEF OpenBatch
  <2> HIDE DEF U
  <2> QED
    BY <2>1, <2>2, OpenKeeps DEF CreatePhases
<1> QED
  BY <1>1, <1>2, OpenCreateKeeps, OpenGuardianKeeps, OpenLinkKeeps DEF OpenStep

LEMMA InitSound == Init => PasswordInv
<1> SUFFICES ASSUME Init PROVE PasswordInv
  OBVIOUS
<1>1. /\ account = [u \in User |-> NoAccount] /\ job = [w \in Worker |-> NoJob]
      /\ started = 0 /\ made = {}
  BY DEF Init
<1>2. /\ Shaped(NoJob) /\ NoJob.user = {} /\ ~ Writer(NoJob) /\ ~ Whole(NoJob)
      /\ NoJob.phase \notin CreatePhases
  BY DEF Shaped, NoJob, Writer, Whole, CreatePhases, Passwords
<1>3. NoAccount \in Record /\ NoAccount.password = 0
  BY DEF NoAccount, Record, Unusable
<1>4. JobsShaped /\ TokensNew /\ CopiesSound /\ MadeBefore
  BY <1>1, <1>2 DEF JobsShaped, TokensNew, CopiesSound, MadeBefore, OfItsPupil
<1>5. \A u \in User : Sound(u, NoAccount)
  BY <1>1, <1>2, <1>3 DEF Sound
<1>6. AccountsSound
  BY <1>1, <1>5 DEF AccountsSound
<1> QED
  BY <1>4, <1>6 DEF PasswordInv

LEMMA PasswordStep == PasswordInv /\ [Next]_vars => PasswordInv'
<1> SUFFICES ASSUME PasswordInv, [Next]_vars PROVE PasswordInv'
  OBVIOUS
<1>1. CASE UNCHANGED vars
  BY <1>1 DEF vars, tables, counts, history, PasswordInv, JobsShaped, TokensNew,
              MadeBefore, AccountsSound, CopiesSound, Sound, Writer, Whole, CreatePhases, Passwords, Shaped, NoJob
<1>2. CASE AccountStep
  BY <1>2, AccountStepKeeps
<1>3. ASSUME NEW w \in Worker, OpenStep(w) \/ SaveStep(w) \/ Crash(w)
      PROVE  PasswordInv'
  BY <1>3, OpenStepKeeps, SaveCreateKeeps, SaveResetKeeps, SaveWholeKeeps,
     SaveForcedKeeps, SaveGuardianKeeps, QuietKeeps DEF SaveStep
<1> QED
  BY <1>1, <1>2, <1>3 DEF Next

\* A password the office generated never comes without must_change_password, in
\* whatever order staff, office and owner read and write the account
\* (CredentialBatchView, StaffEditView, ForcedPasswordChangeView and the others).
THEOREM GeneratedComesWithFlag == Spec => []GeneratedMustChange
<1>2. PasswordInv => GeneratedMustChange
  BY DEF PasswordInv, AccountsSound, Sound, GeneratedMustChange
<1> QED
  BY InitSound, PasswordStep, <1>2, PTL DEF Spec

-----------------------------------------------------------------------------
(* Requests that nobody gets in the way of.  Two that meet know it, so what a *)
(* request that is alone has read is still so: the accounts it works on, the  *)
(* session, and the primary guardians of its student.                         *)

JobSound(j) ==
  /\ j.alone \in {"yes", "no"}
  /\ j.phase = "idle" => j = NoJob
  /\ j.phase \in {"guardian", "link"} =>
       /\ \E p \in Parent : j.user = {p}
       /\ j.pupil \in Pupil /\ j.tie \in {"link", "primary"}
  /\ j.phase \in CreatePhases => j.pupil \in Pupil /\ j.pupil \in j.user
  /\ j.alone = "yes" =>
       /\ j.session \subseteq {slips}
       /\ Whole(j) => \A copy \in j.copy, u \in j.user : copy[u] = account[u]
       /\ j.phase \in {"reset", "batch"} => \A u \in j.user : There(u)
       /\ j.phase = "session" /\ j.tie = "none" =>
            \A u \in j.user :
              There(u) /\ account[u].password = j.token /\ account[u].raw = "no"
       /\ j.phase = "guardian" /\ j.tie = "primary" => Primaries(j.pupil) \subseteq j.seen
       /\ j.phase = "link" /\ j.tie = "primary" =>
            Primaries(j.pupil) \subseteq {j.pupil} \X j.user

MeetingsKnown ==
  \A v, w \in Worker : v # w /\ Meet(job[v], job[w]) => job[v].alone = "no"

\* SlipOpens, of accounts that exist.
FreshSound ==
  \A u \in fresh :
    /\ u \in User /\ There(u)
    /\ slips[u] # 0 => account[u].password = slips[u] /\ account[u].raw = "no"

PrimarySound ==
  \A s \in Pupil \ mixed : \A e1, e2 \in Primaries(s) : e1 = e2

AloneInv ==
  /\ PasswordInv /\ MeetingsKnown /\ FreshSound /\ PrimarySound
  /\ \A w \in Worker : JobSound(job[w])
  /\ slips = [u \in User |-> slips[u]]
  /\ link = [e \in Pupil \X Parent |-> link[e]]

LEMMA NoJobSound ==
  /\ JobSound(NoJob) /\ JobSound(NoJob)'
  /\ \A j : ~ Meet(j, NoJob) /\ ~ Meet(NoJob, j)
BY DEF JobSound, NoJob, Whole, Meet, CreatePhases, Passwords

\* What a request keeps that others notice, or not.
LEMMA KeptFields ==
  ASSUME JobsShaped, NEW v \in Worker, Kept(v)
  PROVE  /\ job'[v].phase = job[v].phase /\ job'[v].user = job[v].user
         /\ job'[v].copy = job[v].copy /\ job'[v].token = job[v].token
         /\ job'[v].session = job[v].session /\ job'[v].pupil = job[v].pupil
         /\ job'[v].tie = job[v].tie /\ job'[v].seen = job[v].seen
         /\ job'[v].alone \in {job[v].alone, "no"}
         /\ job'[v].alone = "yes" => job'[v] = job[v]
<1>1. Shaped(job[v])
  BY DEF JobsShaped
<1>2. CASE job'[v] = job[v]
  BY <1>2
<1>3. CASE job'[v] = [job[v] EXCEPT !.alone = "no"]
  BY <1>1, <1>3 DEF Shaped, NoJob
<1> QED
  BY <1>2, <1>3 DEF Kept

\* A request stays sound while nobody writes what it works on, or it notices.
LEMMA SoundJobStays ==
  ASSUME AloneInv, NEW v \in Worker, Kept(v), job[v] = NoJob => job'[v] = NoJob,
         job'[v].alone = "yes" =>
           /\ slips' = slips \/ job[v].session = {}
           /\ \A u \in job[v].user : account'[u] = account[u]
           /\ job[v].pupil \in Pupil =>
                Primaries(job[v].pupil)' \subseteq Primaries(job[v].pupil)
  PROVE  JobSound(job[v])'
<1>0. JobSound(job[v]) /\ JobsShaped
  BY DEF AloneInv, PasswordInv
<1>1. CASE job'[v].alone = "yes"
  <2>1. job'[v] = job[v] /\ job[v].alone = "yes"
    BY <1>0, <1>1, KeptFields
  <2>2. \A u \in job[v].user : There(u)' <=> There(u)
    BY <1>1 DEF There
  <2>3. job[v].phase \in {"guardian", "link"} =>
          Primaries(job[v].pupil)' \subseteq Primaries(job[v].pupil)
    BY <1>0, <1>1 DEF JobSound
  <2>. QED
    BY <1>0, <1>1, <2>1, <2>2, <2>3 DEF JobSound, Whole
<1>2. CASE job'[v].alone = "no"
  BY <1>0, <1>2, KeptFields DEF JobSound
<1> QED
  BY <1>0, <1>1, <1>2, KeptFields DEF JobSound

\* What a step of request w writes: the accounts it works on, the session if it
\* took it, and new primary guardians of its student only.
Within(w) ==
  /\ \A u \in User \ job[w].user : account'[u] = account[u]
  /\ slips' = slips \/ job[w].session # {}
  /\ \A s \in Pupil : s # job[w].pupil => Primaries(s)' \subseteq Primaries(s)

\* The request as it ends, or goes on to the session.
Ended(w, U) == Close(w, U) \/ job' = [job EXCEPT ![w] = NoJob]

LEMMA EndedFields ==
  ASSUME JobsShaped, NEW w \in Worker, NEW U, Ended(w, U)
  PROVE  /\ \A v \in Worker \ {w} : job'[v] = job[v]
         /\ \/ job'[w] = NoJob
            \/ /\ Close(w, U)
               /\ job'[w].phase = "session" /\ job'[w].user = U
               /\ job'[w].session = job[w].session /\ job'[w].pupil = job[w].pupil
               /\ job'[w].token = job[w].token /\ job'[w].tie = job[w].tie
               /\ job'[w].alone = job[w].alone
<1>1. Shaped(job[w]) /\ job = [v \in Worker |-> job[v]]
  BY DEF JobsShaped
<1> DEFINE k == [job[w] EXCEPT !.phase = "session", !.user = U, !.copy = {}]
<1>2. /\ k.phase = "session" /\ k.user = U
      /\ k.session = job[w].session /\ k.pupil = job[w].pupil
      /\ k.token = job[w].token /\ k.tie = job[w].tie /\ k.alone = job[w].alone
  BY <1>1 DEF Shaped, NoJob
<1>3. \/ job' = [job EXCEPT ![w] = NoJob]
      \/ Close(w, U) /\ job' = [job EXCEPT ![w] = k]
  BY DEF Ended, Close
<1> HIDE DEF k
<1> QED
  BY <1>1, <1>2, <1>3

\* The end of a request keeps what the others know.
LEMMA EndKeeps ==
  ASSUME AloneInv, NEW w \in Worker, NEW U, U \subseteq job[w].user, Ended(w, U),
         Within(w), JobSound(job[w])'
  PROVE  MeetingsKnown' /\ \A v \in Worker : JobSound(job[v])'
<1>0. /\ JobsShaped /\ \A v \in Worker : job[v].user \subseteq User
      /\ MeetingsKnown /\ \A v \in Worker : JobSound(job[v])
  BY DEF AloneInv, PasswordInv, JobsShaped
<1>1. \A v \in Worker \ {w} : job'[v] = job[v]
  BY <1>0, EndedFields
<1>2. \/ job'[w] = NoJob
      \/ /\ job'[w].user \subseteq job[w].user /\ job'[w].session = job[w].session
         /\ job'[w].pupil = job[w].pupil /\ job'[w].alone = job[w].alone
  BY <1>0, EndedFields
<1>3. ASSUME NEW v \in Worker \ {w} PROVE JobSound(job[v])'
  <2>1. ASSUME job'[v].alone = "yes"
        PROVE  /\ slips' = slips \/ job[v].session = {}
               /\ \A u \in job[v].user : account'[u] = account[u]
               /\ job[v].pupil \in Pupil =>
                    Primaries(job[v].pupil)' \subseteq Primaries(job[v].pupil)
    <3>1. ~ Meet(job[v], job[w])
      BY <1>0, <1>1, <2>1 DEF MeetingsKnown
    <3>2. job[v].pupil \in Pupil => job[v].pupil # job[w].pupil
      BY <3>1, AccountsAssumption DEF Meet, User
    <3>. QED
      BY <3>1, <3>2, <1>0, <1>1 DEF Meet, Within
  <2>. QED
    BY <1>1, <2>1, SoundJobStays DEF Kept
<1>4. ASSUME NEW x \in Worker, NEW v \in Worker, x # v, Meet(job'[x], job'[v])
      PROVE  job'[x].alone = "no"
  <2>1. Meet(job[x], job[v])
    BY <1>1, <1>2, <1>4, NoJobSound DEF Meet
  <2>2. job'[x] # NoJob
    BY <1>4, NoJobSound
  <2>. QED
    BY <1>0, <1>1, <1>2, <2>1, <2>2, <1>4 DEF MeetingsKnown
<1> QED
  BY <1>3, <1>4 DEF MeetingsKnown, Meet

\* So does a step that opens a request.
LEMMA EnterAlone ==
  ASSUME AloneInv, NEW w \in Worker, NEW j, Enter(w, j), Shaped(j), j.alone = "yes",
         UNCHANGED <<account, slips>>,
         \A s \in Pupil : Primaries(s)' \subseteq Primaries(s),
         job'[w] = j => JobSound(job[w])',
         j.phase \in {"guardian", "link"} =>
           /\ \E p \in Parent : j.user = {p}
           /\ j.pupil \in Pupil /\ j.tie \in {"link", "primary"},
         j.phase \in CreatePhases => j.pupil \in Pupil /\ j.pupil \in j.user,
         j.phase # "idle"
  PROVE  MeetingsKnown' /\ \A v \in Worker : JobSound(job[v])'
<1> DEFINE met == {v \in Worker \ {w} : job[v].phase # "idle" /\ Meet(j, job[v])}
           k == [j EXCEPT !.alone = "no"]
<1>0. /\ JobsShaped /\ \A v \in Worker : job[v].user \subseteq User
      /\ MeetingsKnown /\ \A v \in Worker : JobSound(job[v])
  BY DEF AloneInv, PasswordInv, JobsShaped
<1>1. job[w].phase = "idle" /\ job' = [v \in Worker |->
        IF v = w THEN IF met = {} THEN j ELSE k
        ELSE IF v \in met THEN [job[v] EXCEPT !.alone = "no"] ELSE job[v]]
  BY DEF Enter
<1>2. /\ k.phase = j.phase /\ k.user = j.user /\ k.session = j.session
      /\ k.pupil = j.pupil /\ k.tie = j.tie /\ k.alone = "no"
  BY DEF Shaped, NoJob
<1>3. ASSUME NEW v \in Worker \ {w}
      PROVE  /\ Kept(v) /\ (job[v] = NoJob => job'[v] = NoJob)
             /\ Meet(j, job[v]) => job'[v].alone = "no"
  <2>1. Meet(j, job[v]) => v \in met
    BY <1>0, NoJobSound DEF JobSound
  <2>2. job[v] = NoJob => v \notin met
    BY DEF NoJob
  <2>3. Shaped(job[v])
    BY <1>0 DEF JobsShaped
  <2>4. [job[v] EXCEPT !.alone = "no"].alone = "no"
    BY <2>3 DEF Shaped, NoJob
  <2>. QED
    BY <1>1, <2>1, <2>2, <2>4 DEF Kept
<1>4. ASSUME NEW v \in Worker \ {w} PROVE JobSound(job[v])'
  BY <1>0, <1>3, <1>4, SoundJobStays, KeptFields
<1>5. JobSound(job[w])'
  <2>1. CASE job'[w] = j
    BY <2>1
  <2>2. CASE job'[w] = k
    BY <1>2, <2>2 DEF JobSound
  <2>. QED
    BY <1>1, <2>1, <2>2
<1>6. ASSUME NEW x \in Worker, NEW v \in Worker, x # v, Meet(job'[x], job'[v])
      PROVE  job'[x].alone = "no"
  <2>1. \A y \in Worker \ {w} :
          /\ job'[y].user = job[y].user /\ job'[y].session = job[y].session
          /\ job'[y].pupil = job[y].pupil /\ job'[y].alone \in {job[y].alone, "no"}
    BY <1>0, <1>3, KeptFields
  <2>2. job'[w].user = j.user /\ job'[w].session = j.session /\ job'[w].pupil = j.pupil
    BY <1>1, <1>2
  <2>3. CASE x # w /\ v # w
    BY <1>0, <1>6, <2>1, <2>3 DEF MeetingsKnown, Meet
  <2>4. CASE v = w
    BY <1>3, <1>6, <2>1, <2>2, <2>4 DEF Meet
  <2>5. CASE x = w
    <3>1. v \in met
      <4>1. Meet(j, job[v])
        BY <1>6, <2>1, <2>2, <2>5 DEF Meet
      <4>. QED
        BY <4>1, <1>0, <1>6, <2>5, NoJobSound DEF JobSound
    <3>. QED
      BY <3>1, <1>1, <1>2, <2>5
  <2>. QED
    BY <2>3, <2>4, <2>5
<1> QED
  BY <1>4, <1>5, <1>6 DEF MeetingsKnown, Meet

\* So does a step of the office that disturbs whom it concerns.
LEMMA OfficeAlone ==
  ASSUME AloneInv, \A v \in Worker : Kept(v) /\ (job[v] = NoJob => job'[v] = NoJob),
         \A v \in Worker : job'[v].alone = "yes" =>
           /\ slips' = slips \/ job[v].session = {}
           /\ \A u \in job[v].user : account'[u] = account[u]
           /\ \A s \in Pupil : s = job[v].pupil => Primaries(s)' \subseteq Primaries(s)
  PROVE  MeetingsKnown' /\ \A v \in Worker : JobSound(job[v])'
<1>0. JobsShaped /\ MeetingsKnown /\ \A v \in Worker : JobSound(job[v])
  BY DEF AloneInv, PasswordInv
<1>1. \A v \in Worker :
        /\ job'[v].user = job[v].user /\ job'[v].session = job[v].session
        /\ job'[v].pupil = job[v].pupil /\ job'[v].alone \in {job[v].alone, "no"}
  BY <1>0, KeptFields
<1>2. ASSUME NEW v \in Worker PROVE JobSound(job[v])'
  <2>1. ASSUME job[v].pupil \in Pupil, job'[v].alone = "yes"
        PROVE  Primaries(job[v].pupil)' \subseteq Primaries(job[v].pupil)
    <3>1. PICK s \in Pupil : s = job[v].pupil
      BY <2>1
    <3>2. Primaries(s)' \subseteq Primaries(s) /\ job'[v].pupil = s
      BY <1>1, <2>1, <3>1
    <3>. QED
      BY <3>1, <3>2 DEF Primaries
  <2>. QED
    BY <1>1, <2>1, SoundJobStays
<1>3. MeetingsKnown'
  BY <1>0, <1>1 DEF MeetingsKnown, Meet
<1> QED
  BY <1>2, <1>3

LEMMA FreshStays ==
  ASSUME AloneInv, slips' = slips, fresh' \subseteq fresh,
         \A u \in fresh' : /\ account'[u].there = account[u].there
                           /\ account'[u].password = account[u].password
                           /\ account'[u].raw = account[u].raw
  PROVE  FreshSound'
BY DEF AloneInv, FreshSound, There

LEMMA PrimariesStay ==
  ASSUME AloneInv, mixed \subseteq mixed',
         \A s \in Pupil \ mixed' : Primaries(s)' \subseteq Primaries(s)
  PROVE  PrimarySound'
BY DEF AloneInv, PrimarySound

LEMMA SameLinks == link' = link => \A s : Primaries(s)' = Primaries(s)
BY DEF Primaries

\* What is left of the invariant beside the passwords.
AloneRest ==
  /\ MeetingsKnown /\ FreshSound /\ PrimarySound
  /\ \A w \in Worker : JobSound(job[w])
  /\ slips = [u \in User |-> slips[u]]
  /\ link = [e \in Pupil \X Parent |-> link[e]]

LEMMA OpenAlone ==
  ASSUME AloneInv, NEW w \in Worker,
         NEW phase \in {"reset", "batch", "edit", "password", "toggle", "disable",
                        "forced", "own"},
         NEW U, NEW slipped, NEW drop, Open(w, phase, U, slipped, drop),
         phase \in {"reset", "batch"} => \A u \in U : There(u)
  PROVE  AloneRest'
<1> DEFINE copies == {[u \in U |-> account[u]]}
           session == IF slipped = {} THEN {} ELSE {slips}
           j == [NoJob EXCEPT !.phase = phase, !.user = U, !.token = started + 1,
                   !.copy = copies, !.drop = drop, !.session = session]
<1>1. Enter(w, j) /\ UNCHANGED <<account, slips, link, fresh, mixed>>
  BY DEF Open, tables, history
<1>2. \A copy \in copies, u \in U : copy[u] = account[u]
  OBVIOUS
<1>3. session \subseteq {slips}
  OBVIOUS
<1> HIDE DEF copies, session
<1>4. /\ Shaped(j) /\ j.phase = phase /\ j.user = U /\ j.copy = copies
      /\ j.session = session /\ j.alone = "yes"
  BY DEF Shaped, NoJob
<1> HIDE DEF j
<1>5. ASSUME job'[w] = j PROVE JobSound(job[w])'
  BY <1>1, <1>2, <1>3, <1>4, <1>5 DEF JobSound, There, CreatePhases
<1>6. \A s : Primaries(s)' = Primaries(s)
  BY <1>1, SameLinks
<1>7. MeetingsKnown' /\ \A v \in Worker : JobSound(job[v])'
  BY <1>1, <1>4, <1>5, <1>6, EnterAlone DEF CreatePhases
<1>8. FreshSound' /\ PrimarySound'
  BY <1>1, <1>6, FreshStays, PrimariesStay
<1> QED
  BY <1>1, <1>7, <1>8 DEF AloneRest, AloneInv

LEMMA OpenCreateAlone ==
  ASSUME AloneInv, NEW w \in Worker, NEW u \in Pupil, NEW new \in SUBSET Parent,
         NEW phase \in CreatePhases, OpenCreate(w, u, new, phase)
  PROVE  AloneRest'
<1> DEFINE session == IF phase = "create" THEN {slips} ELSE {}
           user == {u} \cup new
           j == [NoJob EXCEPT !.phase = phase, !.user = user, !.token = started + 1,
                   !.session = session, !.pupil = u]
<1>1. Enter(w, j) /\ UNCHANGED <<account, slips, link, fresh, mixed>>
  BY DEF OpenCreate, tables, history
<1>2. u \in user /\ session \subseteq {slips}
  OBVIOUS
<1> HIDE DEF session, user
<1>3. /\ Shaped(j) /\ j.phase = phase /\ j.user = user /\ j.pupil = u
      /\ j.session = session /\ j.alone = "yes"
  BY DEF Shaped, NoJob
<1> HIDE DEF j
<1>4. \A t : Primaries(t)' = Primaries(t)
  BY <1>1, SameLinks
<1>5. ASSUME job'[w] = j PROVE JobSound(job[w])'
  BY <1>1, <1>2, <1>3, <1>5 DEF JobSound, Whole, CreatePhases, Passwords
<1>6. MeetingsKnown' /\ \A v \in Worker : JobSound(job[v])'
  BY <1>1, <1>2, <1>3, <1>4, <1>5, EnterAlone DEF CreatePhases
<1>7. FreshSound' /\ PrimarySound'
  BY <1>1, <1>4, FreshStays, PrimariesStay
<1> QED
  BY <1>1, <1>6, <1>7 DEF AloneRest, AloneInv

LEMMA OpenGuardianAlone ==
  ASSUME AloneInv, NEW w \in Worker, NEW s \in Pupil, NEW p \in Parent,
         NEW tie \in {"link", "primary"}, OpenGuardian(w, s, p, tie)
  PROVE  AloneRest'
<1> DEFINE copies == {[u \in {p} |-> account[u]]}
           seen == IF tie = "primary" THEN Primaries(s) ELSE {}
           j == [NoJob EXCEPT !.phase = "guardian", !.user = {p}, !.token = started + 1,
                   !.copy = copies, !.session = {slips}, !.pupil = s, !.tie = tie,
                   !.seen = seen]
<1>1. Enter(w, j) /\ UNCHANGED <<account, slips, link, fresh, mixed>>
  BY DEF OpenGuardian, tables, history
<1>2. tie = "primary" => seen = Primaries(s)
  OBVIOUS
<1> HIDE DEF copies, seen
<1>3. /\ Shaped(j) /\ j.phase = "guardian" /\ j.user = {p} /\ j.pupil = s /\ j.tie = tie
      /\ j.seen = seen /\ j.session = {slips} /\ j.alone = "yes"
  BY DEF Shaped, NoJob
<1> HIDE DEF j
<1>4. \A t : Primaries(t)' = Primaries(t)
  BY <1>1, SameLinks
<1>5. ASSUME job'[w] = j PROVE JobSound(job[w])'
  <2>1. link' = link
    BY <1>1
  <2>. QED
    BY <1>1, <1>2, <1>3, <1>5, <2>1
       DEF JobSound, Whole, Primaries, Passwords, CreatePhases
<1>6. MeetingsKnown' /\ \A v \in Worker : JobSound(job[v])'
  BY <1>1, <1>3, <1>4, <1>5, EnterAlone DEF CreatePhases
<1>7. FreshSound' /\ PrimarySound'
  BY <1>1, <1>4, FreshStays, PrimariesStay
<1> QED
  BY <1>1, <1>6, <1>7 DEF AloneRest, AloneInv

LEMMA OpenLinkAlone ==
  ASSUME AloneInv, NEW w \in Worker, NEW s \in Pupil, NEW p \in Parent,
         NEW tie \in {"link", "primary"}, OpenLink(w, s, p, tie)
  PROVE  AloneRest'
<1> DEFINE j == [NoJob EXCEPT !.phase = "link", !.user = {p}, !.pupil = s, !.tie = tie]
<1>1. /\ Enter(w, j) /\ UNCHANGED <<account, slips, fresh, mixed>>
      /\ link' = [e \in Pupil \X Parent |->
           IF tie = "primary" /\ e \in Primaries(s) \ {<<s, p>>} THEN "link" ELSE link[e]]
  BY DEF OpenLink, history
<1>2. /\ Shaped(j) /\ j.phase = "link" /\ j.user = {p} /\ j.pupil = s /\ j.tie = tie
      /\ j.session = {} /\ j.alone = "yes"
  BY DEF Shaped, NoJob
<1> HIDE DEF j
<1>3. \A t \in Pupil : Primaries(t)' \subseteq Primaries(t)
  BY <1>1 DEF Primaries
<1>4. tie = "primary" => Primaries(s)' \subseteq {<<s, p>>}
  BY <1>1 DEF Primaries
<1>5. ASSUME job'[w] = j PROVE JobSound(job[w])'
  <2>1. tie = "primary" => {e \in {s} \X Parent : link'[e] = "primary"} \subseteq {s} \X {p}
    BY <1>4 DEF Primaries
  <2>. QED
    BY <1>2, <1>5, <2>1 DEF JobSound, Whole, Primaries, Passwords, CreatePhases
<1>6. MeetingsKnown' /\ \A v \in Worker : JobSound(job[v])'
  BY <1>1, <1>2, <1>3, <1>5, EnterAlone DEF CreatePhases
<1>7. FreshSound' /\ PrimarySound'
  BY <1>1, <1>3, FreshStays, PrimariesStay
<1> QED
  BY <1>1, <1>6, <1>7 DEF AloneRest, AloneInv

\* The office's own steps.
LEMMA AccountStepAlone ==
  ASSUME AloneInv, AccountStep
  PROVE  AloneRest'
<1>0. /\ JobsShaped /\ \A u \in User : account[u] \in Record
      /\ \A v \in Worker : JobSound(job[v]) /\ Shaped(job[v])
      /\ account = [u \in User |-> account[u]]
      /\ job = [v \in Worker |-> job[v]] /\ slips = [u \in User |-> slips[u]]
  BY RowSound DEF AloneInv, PasswordInv, JobsShaped, AccountsSound
<1>0a. ASSUME NEW V, Disturb(V)
       PROVE  \A v \in Worker :
                /\ Kept(v) /\ (job[v] = NoJob /\ v \notin V => job'[v] = NoJob)
                /\ v \in V => job'[v].alone = "no"
  <2>1. \A v \in Worker : [job[v] EXCEPT !.alone = "no"].alone = "no"
    BY <1>0 DEF Shaped, NoJob
  <2>. QED
    BY <1>0a, <2>1 DEF Disturb, Kept
<1>0b. NoJob.user = {} /\ NoJob.session = {} /\ NoJob.pupil = Nobody
  BY DEF NoJob
<1>1. ASSUME NEW u \in User, NEW V \in SUBSET About(u), Disturb(On(u) \cup V),
             \A x \in User \ {u} : account'[x] = account[x], slips' = slips,
             \A s \in Pupil : Primaries(s)' \subseteq Primaries(s), mixed' = mixed
      PROVE  /\ MeetingsKnown' /\ \A v \in Worker : JobSound(job[v])'
             /\ PrimarySound'
  <2>1. \A v \in Worker :
          /\ Kept(v) /\ (job[v] = NoJob => job'[v] = NoJob)
          /\ u \in job[v].user => job'[v].alone = "no"
    <3>1. ASSUME NEW v \in Worker, job[v] = NoJob PROVE v \notin On(u) \cup V
      BY <1>0b, <1>1, <3>1, AccountsAssumption DEF On, About
    <3>. QED
      BY <1>0a, <1>1, <3>1 DEF On
  <2>3. \A v \in Worker : job'[v].alone = "yes" =>
          \A x \in job[v].user : account'[x] = account[x]
    BY <2>1, <1>0, <1>1 DEF JobsShaped
  <2>. QED
    BY <2>1, <2>3, <1>1, OfficeAlone, PrimariesStay
<1>2. ASSUME NEW u \in User, CreateAccount(u) PROVE AloneRest'
  <2>1. /\ Disturb(On(u) \cup {}) /\ UNCHANGED <<slips, link, mixed>> /\ fresh' = fresh \ {u}
        /\ \A x \in User \ {u} : account'[x] = account[x]
    BY <1>0, <1>2 DEF CreateAccount
  <2>2. FreshSound'
    <3>1. fresh \subseteq User
      BY DEF AloneInv, FreshSound
    <3>. QED
      BY <2>1, <3>1, FreshStays
  <2>3. \A s : Primaries(s)' = Primaries(s)
    BY <2>1, SameLinks
  <2>. QED
    BY <1>1, <2>1, <2>2, <2>3 DEF AloneRest, AloneInv
<1>2a. ASSUME NEW u \in User, DeleteUser(u) PROVE AloneRest'
  <2>1. /\ Disturb(On(u) \cup About(u)) /\ UNCHANGED <<slips, mixed>> /\ fresh' = fresh \ {u}
        /\ \A x \in User \ {u} : account'[x] = account[x]
        /\ link' = [e \in Pupil \X Parent |-> IF u \in {e[1], e[2]} THEN "none" ELSE link[e]]
    BY <1>0, <1>2a DEF DeleteUser
  <2>2. FreshSound'
    <3>1. fresh \subseteq User
      BY DEF AloneInv, FreshSound
    <3>. QED
      BY <2>1, <3>1, FreshStays
  <2>3. \A s \in Pupil : Primaries(s)' \subseteq Primaries(s)
    BY <2>1 DEF Primaries
  <2>. QED
    BY <1>1, <2>1, <2>2, <2>3 DEF AloneRest, AloneInv
<1>3. ASSUME NEW u \in User, CreateBare(u) PROVE AloneRest'
  <2>1. /\ Disturb(On(u) \cup {}) /\ UNCHANGED <<slips, link, mixed, fresh>> /\ ~ There(u)
        /\ \A x \in User \ {u} : account'[x] = account[x]
    BY <1>0, <1>3 DEF CreateBare, history
  <2>2. FreshSound'
    <3>1. fresh \subseteq User \ {u}
      BY <2>1 DEF AloneInv, FreshSound
    <3>. QED
      BY <2>1, <3>1, FreshStays
  <2>3. \A s : Primaries(s)' = Primaries(s)
    BY <2>1, SameLinks
  <2>. QED
    BY <1>1, <2>1, <2>2, <2>3 DEF AloneRest, AloneInv
<1>4. ASSUME NEW u \in User, ShowSlip(u) PROVE AloneRest'
  <2>1. /\ slips' = [slips EXCEPT ![u] = 0] /\ UNCHANGED <<account, link, fresh, mixed>>
        /\ Disturb({v \in Worker : job[v].session # {}})
    BY <1>4 DEF ShowSlip, history
  <2>2. \A v \in Worker :
          /\ Kept(v) /\ (job[v] = NoJob => job'[v] = NoJob)
          /\ job[v].session # {} => job'[v].alone = "no"
    BY <1>0a, <1>0b, <2>1
  <2>3. \A s : Primaries(s)' = Primaries(s)
    BY <2>1, SameLinks
  <2>4. MeetingsKnown' /\ \A v \in Worker : JobSound(job[v])'
    BY <2>1, <2>2, <2>3, OfficeAlone
  <2>5. FreshSound'
    BY <2>1, <1>0 DEF AloneInv, FreshSound, There
  <2>6. PrimarySound'
    BY <2>1, <2>3, PrimariesStay
  <2>. QED
    BY <2>1, <2>4, <2>5, <2>6, <1>0 DEF AloneRest, AloneInv
<1>5. ASSUME NEW s \in Pupil, NEW P, DeleteLink(s, P) PROVE AloneRest'
  <2>1. /\ link' = [e \in Pupil \X Parent |-> IF e \in {s} \X P THEN "none" ELSE link[e]]
        /\ UNCHANGED <<account, slips, job, fresh, mixed>>
    BY <1>5 DEF DeleteLink, history
  <2>2. \A t \in Pupil : Primaries(t)' \subseteq Primaries(t)
    BY <2>1 DEF Primaries
  <2>3. MeetingsKnown' /\ \A v \in Worker : JobSound(job[v])'
    BY <2>1, <2>2, OfficeAlone DEF Kept
  <2>4. FreshSound' /\ PrimarySound'
    BY <2>1, <2>2, FreshStays, PrimariesStay
  <2>. QED
    BY <2>1, <2>3, <2>4 DEF AloneRest, AloneInv
<1>6. ASSUME NEW s \in Pupil, NEW p \in Parent, NEW tie \in {"link", "primary"},
             TieLink(s, p, tie)
      PROVE  AloneRest'
  <2>1. /\ link' = [link EXCEPT ![<<s, p>>] = tie] /\ Disturb(About(s))
        /\ UNCHANGED <<account, slips, fresh>>
        /\ mixed' = IF tie = "primary" /\ Primaries(s) \ {<<s, p>>} # {} THEN mixed \cup {s}
                    ELSE mixed
    BY <1>6 DEF TieLink
  <2>2. link = [e \in Pupil \X Parent |-> link[e]]
    BY DEF AloneInv
  <2>3. \A t \in Pupil : t # s \/ tie # "primary" => Primaries(t)' \subseteq Primaries(t)
    BY <2>1, <2>2 DEF Primaries
  <2>4. \A v \in Worker :
          /\ Kept(v) /\ (job[v] = NoJob => job'[v] = NoJob)
          /\ job[v].pupil = s => job'[v].alone = "no"
    <3>1. s # Nobody
      BY AccountsAssumption DEF User
    <3>. QED
      BY <1>0a, <1>0b, <2>1, <3>1 DEF About
  <2>5. MeetingsKnown' /\ \A v \in Worker : JobSound(job[v])'
    BY <2>1, <2>3, <2>4, OfficeAlone
  <2>6. PrimarySound'
    <3>1. CASE tie # "primary" \/ Primaries(s) \ {<<s, p>>} # {}
      BY <2>1, <2>3, <3>1, PrimariesStay
    <3>2. CASE tie = "primary" /\ Primaries(s) \subseteq {<<s, p>>}
      <4>1. mixed' = mixed /\ Primaries(s)' \subseteq {<<s, p>>}
        BY <2>1, <2>2, <3>2 DEF Primaries
      <4>2. ASSUME NEW t \in Pupil \ mixed PROVE \A e1, e2 \in Primaries(t)' : e1 = e2
        <5>1. CASE t = s
          BY <4>1, <5>1
        <5>2. CASE t # s
          BY <2>3, <5>2 DEF AloneInv, PrimarySound
        <5>. QED
          BY <5>1, <5>2
      <4>. QED
        BY <4>1, <4>2 DEF PrimarySound
    <3>. QED
      BY <3>1, <3>2
  <2>7. FreshSound'
    BY <2>1, FreshStays
  <2>. QED
    BY <2>1, <2>2, <2>5, <2>6, <2>7 DEF AloneRest, AloneInv
<1> QED
  BY <1>2, <1>2a, <1>3, <1>4, <1>5, <1>6 DEF AccountStep

\* Requests that write accounts and nothing else, and leave no slip behind that
\* they have not made true.
LEMMA WriteAlone ==
  ASSUME AloneInv, NEW w \in Worker, NEW U, U \subseteq job[w].user, Ended(w, U),
         \A u \in User \ job[w].user : account'[u] = account[u],
         UNCHANGED <<slips, link, mixed>>, fresh' \subseteq fresh,
         \A u \in fresh' \cap job[w].user :
           /\ account'[u].there = account[u].there
           /\ account'[u].password = account[u].password
           /\ account'[u].raw = account[u].raw,
         Close(w, U) /\ job[w].alone = "yes" /\ job[w].tie = "none" =>
           \A u \in U : There(u)' /\ account'[u].password = job[w].token
                        /\ account'[u].raw = "no"
  PROVE  AloneRest'
<1>0. JobsShaped /\ JobSound(job[w]) /\ job[w].user \subseteq User
  BY DEF AloneInv, PasswordInv, JobsShaped
<1>1. \A s : Primaries(s)' = Primaries(s)
  BY SameLinks
<1>2. JobSound(job[w])'
  <2>1. CASE job'[w] = NoJob
    BY <2>1, NoJobSound
  <2>2. CASE /\ Close(w, U)
             /\ job'[w].phase = "session" /\ job'[w].user = U
             /\ job'[w].session = job[w].session /\ job'[w].pupil = job[w].pupil
             /\ job'[w].token = job[w].token /\ job'[w].tie = job[w].tie
             /\ job'[w].alone = job[w].alone
    BY <1>0, <2>2 DEF JobSound, Whole, CreatePhases, Passwords
  <2>. QED
    BY <1>0, <2>1, <2>2, EndedFields
<1>3. Within(w)
  BY <1>1 DEF Within
<1>4. MeetingsKnown' /\ \A v \in Worker : JobSound(job[v])'
  BY <1>2, <1>3, EndKeeps
<1>5. FreshSound'
  <2>1. fresh \subseteq User
    BY DEF AloneInv, FreshSound
  <2>. QED
    BY <2>1, FreshStays
<1>6. PrimarySound'
  BY <1>1, PrimariesStay
<1> QED
  BY <1>4, <1>5, <1>6 DEF AloneRest, AloneInv

\* The links of a new student.
Linked(s, first, family) ==
  [e \in Pupil \X Parent |->
     IF e[1] # s THEN link[e] ELSE IF e[2] \in first THEN "primary"
     ELSE IF e[2] \in family THEN "link" ELSE "none"]

LEMMA SaveCreateAlone ==
  ASSUME AloneInv, NEW w \in Worker, SaveCreate(w)
  PROVE  AloneRest'
<1> DEFINE j == job[w]
           row == IF j.phase = "import" THEN Row(Unusable, "no") ELSE Row(j.token, "yes")
<1>1. PICK s : s = j.pupil
  OBVIOUS
<1> DEFINE U == IF j.phase = "create" THEN {s} ELSE {}
<1>0. /\ j.user \subseteq User /\ JobSound(j) /\ JobsShaped
      /\ j.phase \in CreatePhases /\ slips' = slips
      /\ s \in Pupil /\ s \in j.user /\ U \subseteq j.user
  BY <1>1 DEF SaveCreate, AloneInv, PasswordInv, JobsShaped, JobSound
<1>2. CASE Close(w, {}) /\ UNCHANGED <<account, link, fresh, mixed>>
  BY <1>0, <1>2, WriteAlone DEF Ended
<1>3. ASSUME NEW first, NEW family, \A p, q \in first : p = q,
             link' = Linked(s, first, family),
             Write(w, [v \in j.user |-> IF v = s THEN row ELSE Row(Unusable, "yes")]),
             mixed' = mixed \ {s}, Close(w, U)
      PROVE  AloneRest'
  <2>1. /\ \A u \in User \ j.user : account'[u] = account[u]
        /\ account'[s] = row
        /\ fresh' = fresh \ j.user
    BY <1>0, <1>3 DEF Write
  <2>2. j.phase = "create" => row.there = "yes" /\ row.password = j.token /\ row.raw = "no"
    BY DEF Row, NoAccount
  <2> HIDE DEF row
  <2>3. \A t \in Pupil : t # s => Primaries(t)' = Primaries(t)
    BY <1>3 DEF Primaries, Linked
  <2>4. \A e1, e2 \in Primaries(s)' : e1 = e2
    <3>1. \A e \in Primaries(s)' : e \in {s} \X Parent /\ e[2] \in first
      BY <1>0, <1>3 DEF Primaries, Linked
    <3>. QED
      BY <1>3, <3>1
  <2>5. Within(w)
    BY <1>0, <1>1, <2>1, <2>3 DEF Within
  <2>6. JobSound(job[w])'
    <3>1. CASE job'[w] = NoJob
      BY <3>1, NoJobSound
    <3>2. CASE /\ Close(w, U)
               /\ job'[w].phase = "session" /\ job'[w].user = U
               /\ job'[w].session = j.session /\ job'[w].token = j.token
               /\ job'[w].alone = j.alone
      <4>1. \A u \in U : There(u)' /\ account'[u].password = j.token /\ account'[u].raw = "no"
        BY <2>1, <2>2 DEF There
      <4>. QED
        BY <1>0, <3>2, <4>1 DEF JobSound, Whole, CreatePhases, Passwords
    <3>. QED
      BY <1>0, <1>3, <3>1, <3>2, EndedFields DEF Ended
  <2>7. MeetingsKnown' /\ \A v \in Worker : JobSound(job[v])'
    BY <1>0, <1>3, <2>5, <2>6, EndKeeps DEF Ended
  <2>8. FreshSound'
    <3>1. fresh \subseteq User
      BY DEF AloneInv, FreshSound
    <3>. QED
      BY <1>0, <2>1, <3>1, FreshStays
  <2>9. PrimarySound'
    BY <1>3, <2>3, <2>4 DEF AloneInv, PrimarySound
  <2>. QED
    BY <1>0, <1>3, <2>7, <2>8, <2>9 DEF AloneRest, AloneInv, Linked
<1>4. CASE ~(Close(w, {}) /\ UNCHANGED <<account, link, fresh, mixed>>)
  <2>1. PICK found : \E first \in {{}} \cup {{p} : p \in (j.user \ {s}) \cup found} :
                       link' = Linked(s, first, (j.user \ {s}) \cup found)
    <3>1. \E found \in SUBSET {p \in Parent : There(p)} :
            \E first \in {{}} \cup {{p} : p \in (j.user \ {j.pupil}) \cup found} :
              link' = [e \in Pupil \X Parent |->
                IF e[1] # j.pupil THEN link[e] ELSE IF e[2] \in first THEN "primary"
                ELSE IF e[2] \in (j.user \ {j.pupil}) \cup found THEN "link" ELSE "none"]
      BY <1>4, Zenon DEF SaveCreate
    <3>2. PICK found \in SUBSET {p \in Parent : There(p)} :
            \E first \in {{}} \cup {{p} : p \in (j.user \ {s}) \cup found} :
              link' = [e \in Pupil \X Parent |->
                IF e[1] # s THEN link[e] ELSE IF e[2] \in first THEN "primary"
                ELSE IF e[2] \in (j.user \ {s}) \cup found THEN "link" ELSE "none"]
      BY <1>1, <3>1
    <3>. QED
      BY <3>2 DEF Linked
  <2>2. PICK first : (\A p, q \in first : p = q)
                     /\ link' = Linked(s, first, (j.user \ {s}) \cup found)
    BY <2>1
  <2>3. /\ Write(w, [v \in j.user |-> IF v = s THEN row ELSE Row(Unusable, "yes")])
        /\ mixed' = mixed \ {s} /\ Close(w, U)
    BY <1>1, <1>4 DEF SaveCreate
  <2> HIDE DEF row, U
  <2>. QED
    BY <1>3, <2>2, <2>3
<1> QED
  BY <1>2, <1>4

LEMMA SaveResetAlone ==
  ASSUME AloneInv, NEW w \in Worker, SaveReset(w)
  PROVE  AloneRest'
<1> DEFINE j == job[w]
           U == {u \in j.user : There(u)}
           V == IF j.phase = "batch" THEN j.user ELSE U
           row(u) == [account[u] EXCEPT !.password = j.token, !.raw = "no", !.must = "yes"]
<1>1. /\ UNCHANGED <<slips, link, mixed>> /\ Close(w, V)
      /\ Write(w, [u \in U |-> row(u)]) /\ j.phase \in {"reset", "batch"}
  BY DEF SaveReset
<1>2. /\ \A u \in User : account'[u] = IF u \in U THEN row(u) ELSE account[u]
      /\ fresh' = fresh \ U
  BY <1>1 DEF Write
<1>3. /\ j.user \subseteq User /\ JobSound(j)
  BY DEF AloneInv, PasswordInv, JobsShaped
<1>4. \A u \in User : row(u).there = account[u].there /\ row(u).password = j.token
                      /\ row(u).raw = "no"
  BY RowSound DEF AloneInv, Record
<1>5. j.alone = "yes" => V = U
  BY <1>1, <1>3 DEF JobSound
<1> HIDE DEF row
<1>6. j.alone = "yes" => \A u \in V : There(u)' /\ account'[u].password = j.token
                                     /\ account'[u].raw = "no"
  BY <1>2, <1>3, <1>4, <1>5 DEF There
<1>7. /\ V \subseteq j.user /\ fresh' \subseteq fresh
      /\ \A u \in User \ j.user : account'[u] = account[u]
      /\ \A u \in fresh' \cap j.user : account'[u] = account[u]
  BY <1>2, <1>3
<1> HIDE DEF U, V
<1> QED
  BY <1>1, <1>6, <1>7, WriteAlone DEF Ended

LEMMA SaveForcedAlone ==
  ASSUME AloneInv, NEW w \in Worker, SaveForced(w)
  PROVE  AloneRest'
<1> DEFINE j == job[w]
           U == {u \in j.user : There(u)}
           rows == [u \in U |-> [account[u] EXCEPT !.password = j.token, !.raw = "no",
                                                   !.must = "no"]]
<1>1. UNCHANGED <<slips, link, mixed>> /\ Close(w, {}) /\ Write(w, rows)
  BY DEF SaveForced
<1>2. /\ \A u \in User \ U : account'[u] = account[u]
      /\ fresh' = fresh \ U
  BY <1>1 DEF Write
<1>3. j.user \subseteq User
  BY DEF AloneInv, PasswordInv, JobsShaped
<1> HIDE DEF rows
<1> QED
  BY <1>1, <1>2, <1>3, WriteAlone DEF Ended

LEMMA SaveWholeAlone ==
  ASSUME AloneInv, NEW w \in Worker, SaveWhole(w)
  PROVE  AloneRest'
<1> DEFINE j == job[w]
<1>1. /\ UNCHANGED <<slips, link, mixed>> /\ Close(w, {})
      /\ j.phase \in {"edit", "toggle"} \cup Passwords
      /\ fresh' = IF j.phase \in Passwords \/ j.alone = "no"
                  THEN fresh \ j.user ELSE fresh
  BY DEF SaveWhole
<1>2. PICK copy \in j.copy :
        account' = [u \in User |-> IF u \in j.user THEN Changed(j, copy[u]) ELSE account[u]]
  BY DEF SaveWhole
<1>3. j.user \subseteq User /\ JobSound(j)
  BY DEF AloneInv, PasswordInv, JobsShaped
<1>4. ASSUME NEW u \in fresh' \cap j.user
      PROVE  /\ account'[u].there = account[u].there
             /\ account'[u].password = account[u].password
             /\ account'[u].raw = account[u].raw
  <2>1. /\ j.phase \in {"edit", "toggle"} /\ j.alone = "yes"
        /\ copy[u] = account[u] /\ account'[u] = Changed(j, account[u])
    BY <1>1, <1>2, <1>3, <1>4 DEF JobSound, Whole
  <2>2. account[u] \in Record
    BY <1>3, <1>4, RowSound DEF AloneInv
  <2>3. CASE j.phase = "edit"
    BY <2>1, <2>3 DEF Changed, Passwords
  <2>4. CASE j.phase = "toggle"
    BY <2>1, <2>2, <2>4 DEF Changed, Record
  <2>. QED
    BY <2>1, <2>3, <2>4
<1>5. fresh' \subseteq fresh /\ \A u \in User \ j.user : account'[u] = account[u]
  BY <1>1, <1>2
<1> QED
  BY <1>1, <1>4, <1>5, WriteAlone DEF Ended

\* Requests that write links.
LEMMA SaveGuardianAlone ==
  ASSUME AloneInv, NEW w \in Worker, SaveGuardian(w)
  PROVE  AloneRest'
<1> DEFINE j == job[w]
<1>0. /\ j.phase = "guardian" /\ slips' = slips
      /\ j.user \subseteq User /\ JobSound(j) /\ JobsShaped
      /\ link = [e \in Pupil \X Parent |-> link[e]]
  BY DEF SaveGuardian, AloneInv, PasswordInv, JobsShaped
<1>1. j.pupil \in Pupil /\ j.tie \in {"link", "primary"}
  BY <1>0 DEF JobSound
<1>2. CASE UNCHANGED <<account, link, fresh, mixed>> /\ \E U \in SUBSET j.user : Close(w, U)
  <2>1. PICK U : U \subseteq j.user /\ Close(w, U)
    BY <1>2
  <2>. QED
    BY <1>0, <1>1, <1>2, <2>1, WriteAlone DEF Ended
<1>3. ASSUME NEW p \in j.user, NEW row, NEW U \in SUBSET j.user, Close(w, U),
             Write(w, [u \in {p} |-> row]), link' = Tied(j, p), mixed' = Met(j)
      PROVE  AloneRest'
  <2>0. p \in Parent
    BY <1>0, <1>3 DEF JobSound
  <2>1. /\ \A u \in User \ {p} : account'[u] = account[u]
        /\ fresh' = fresh \ {p}
    BY <1>3 DEF Write
  <2>2. link' = [e \in Pupil \X Parent |->
           IF e = <<j.pupil, p>> THEN j.tie
           ELSE IF e \in j.seen /\ link[e] = "primary" THEN "link" ELSE link[e]]
    BY <1>3 DEF Tied
  <2>3. \A s \in Pupil : s # j.pupil \/ j.tie # "primary" =>
          Primaries(s)' \subseteq Primaries(s)
    BY <2>2 DEF Primaries
  <2>4. CASE j.alone = "no"
    <3>1. mixed' = mixed \cup {j.pupil}
      BY <1>3, <2>4 DEF Met
    <3>. QED
      <4>1. PrimarySound'
        BY <2>3, <3>1, PrimariesStay
      <4>2. JobSound(job[w])'
        BY <1>0, <1>1, <1>3, <2>4, EndedFields, NoJobSound
           DEF Ended, JobSound, CreatePhases
      <4>3. Within(w)
        BY <1>0, <2>1, <2>3, <1>3 DEF Within
      <4>4. FreshSound'
        <5>1. fresh \subseteq User
          BY DEF AloneInv, FreshSound
        <5>. QED
          BY <1>0, <2>1, <5>1, FreshStays
      <4>. QED
        BY <4>1, <4>2, <4>3, <4>4, <1>0, <1>3, <2>2, EndKeeps DEF AloneRest, AloneInv, Ended
  <2>5. CASE j.alone = "yes"
    <3>1. mixed' = IF j.tie = "primary" THEN mixed \ {j.pupil} ELSE mixed
      BY <1>3, <2>5 DEF Met
    <3>2. j.tie = "primary" => Primaries(j.pupil) \subseteq j.seen
      BY <1>0, <2>5 DEF JobSound
    <3>3. ASSUME j.tie = "primary", NEW e \in Pupil \X Parent, e[1] = j.pupil,
                 link'[e] = "primary"
          PROVE  e = <<j.pupil, p>>
      BY <2>2, <3>2, <3>3 DEF Primaries
    <3>4. PrimarySound'
      <4>1. ASSUME NEW s \in Pupil \ mixed', NEW e1 \in {s} \X Parent, NEW e2 \in {s} \X Parent,
                   link'[e1] = "primary", link'[e2] = "primary"
            PROVE  e1 = e2
        <5>1. CASE s = j.pupil /\ j.tie = "primary"
          BY <3>3, <4>1, <5>1
        <5>2. CASE s # j.pupil \/ j.tie # "primary"
          <6>1. e1 \in Primaries(s)' /\ e2 \in Primaries(s)'
            BY <4>1 DEF Primaries
          <6>. QED
            BY <2>3, <3>1, <4>1, <5>2, <6>1 DEF AloneInv, PrimarySound
        <5>. QED
          BY <5>1, <5>2
      <4>. QED
        BY <3>1, <4>1 DEF PrimarySound, Primaries
    <3>5. JobSound(job[w])'
      BY <1>0, <1>1, <1>3, <2>5, EndedFields, NoJobSound 
         DEF Ended, JobSound, Whole, Passwords, CreatePhases
    <3>6. Within(w)
      BY <1>0, <2>1, <2>3, <1>3 DEF Within
    <3>7. FreshSound'
      <4>1. fresh \subseteq User
        BY DEF AloneInv, FreshSound
      <4>. QED
        BY <1>0, <2>1, <4>1, FreshStays
    <3>. QED
      BY <3>4, <3>5, <3>6, <3>7, <1>0, <1>3, <2>2, EndKeeps DEF AloneRest, AloneInv, Ended
  <2>. QED
    BY <1>0, <2>4, <2>5 DEF JobSound
<1>4. PICK p \in j.user, copy \in j.copy :
        \/ /\ Close(w, {}) \/ Close(w, {p})
           /\ UNCHANGED <<account, link, fresh, mixed>>
        \/ /\ Close(w, {}) \/ Close(w, {p})
           /\ \E row : Write(w, [u \in {p} |-> row])
           /\ link' = Tied(j, p) /\ mixed' = Met(j)
  <2>1. PICK p \in j.user, copy \in j.copy :
          LET found == copy[p].there = "yes"
              twice == link[<<j.pupil, p>>] # "none"
              lost  == found # There(p) \/ ~There(j.pupil)
          IN  IF twice \/ lost
              THEN /\ Close(w, IF found /\ ~lost THEN {p} ELSE {})
                   /\ UNCHANGED <<account, link, made, fresh, mixed>>
              ELSE /\ Write(w, [u \in {p} |->
                        IF found THEN [account[p] EXCEPT !.password = j.token, !.raw = "yes",
                                                         !.must = "yes"]
                        ELSE Row(Unusable, "yes")])
                   /\ made' = IF found THEN made \cup {<<p, j.token>>} ELSE made
                   /\ link' = Tied(j, p)
                   /\ mixed' = Met(j)
                   /\ Close(w, IF found THEN {p} ELSE {})
    BY DEF SaveGuardian
  <2>. QED
    BY <2>1, Zenon
<1>5. {} \in SUBSET j.user /\ {p} \in SUBSET j.user
  BY <1>4
<1> QED
  BY <1>2, <1>3, <1>4, <1>5

LEMMA SaveLinkAlone ==
  ASSUME AloneInv, NEW w \in Worker, SaveLink(w)
  PROVE  AloneRest'
<1> DEFINE j == job[w]
<1>0. /\ j.phase = "link" /\ UNCHANGED <<account, slips, fresh>>
      /\ Close(w, {}) /\ JobSound(j) /\ JobsShaped
      /\ link = [e \in Pupil \X Parent |-> link[e]]
  BY DEF SaveLink, AloneInv, PasswordInv
<1>1. PICK p \in Parent :
        /\ j.user = {p} /\ j.pupil \in Pupil
        /\ \/ link' = [link EXCEPT ![<<j.pupil, p>>] = j.tie] /\ mixed' = Met(j)
           \/ UNCHANGED <<link, mixed>>
  BY <1>0 DEF SaveLink, JobSound
<1>2. CASE UNCHANGED <<link, mixed>>
  BY <1>0, <1>2, WriteAlone DEF Ended
<1>3. CASE link' = [link EXCEPT ![<<j.pupil, p>>] = j.tie] /\ mixed' = Met(j)
  <2>1. job'[w] = NoJob
    BY <1>0 DEF Close, JobsShaped
  <2>2. \A s \in Pupil : s # j.pupil \/ j.tie # "primary" =>
          Primaries(s)' \subseteq Primaries(s)
    BY <1>0, <1>1, <1>3 DEF Primaries
  <2>3. Within(w) /\ JobSound(job[w])'
    BY <1>0, <2>1, <2>2, NoJobSound DEF Within
  <2>4. MeetingsKnown' /\ \A v \in Worker : JobSound(job[v])'
    BY <1>0, <2>3, EndKeeps DEF Ended
  <2>5. PrimarySound'
    <3>1. CASE j.alone = "no"
      <4>1. mixed' = mixed \cup {j.pupil}
        BY <1>3, <3>1 DEF Met
      <4>. QED
        BY <2>2, <4>1, PrimariesStay
    <3>2. CASE j.alone = "yes"
      <4>1. mixed' = IF j.tie = "primary" THEN mixed \ {j.pupil} ELSE mixed
        BY <1>3, <3>2 DEF Met
      <4>2. j.tie = "primary" => Primaries(j.pupil) \subseteq {<<j.pupil, p>>}
        BY <1>0, <1>1, <3>2 DEF JobSound
      <4>3. ASSUME NEW s \in Pupil \ mixed', NEW e1 \in {s} \X Parent, NEW e2 \in {s} \X Parent,
                   link'[e1] = "primary", link'[e2] = "primary"
            PROVE  e1 = e2
        <5>1. CASE s = j.pupil /\ j.tie = "primary"
          BY <1>0, <1>1, <1>3, <4>2, <4>3, <5>1 DEF Primaries
        <5>2. CASE s # j.pupil \/ j.tie # "primary"
          <6>1. e1 \in Primaries(s)' /\ e2 \in Primaries(s)'
            BY <4>3 DEF Primaries
          <6>. QED
            BY <2>2, <4>1, <4>3, <5>2, <6>1 DEF AloneInv, PrimarySound
        <5>. QED
          BY <5>1, <5>2
      <4>. QED
        BY <4>3 DEF PrimarySound, Primaries
    <3>. QED
      BY <1>0, <3>1, <3>2 DEF JobSound
  <2>6. FreshSound'
    BY <1>0, FreshStays
  <2>. QED
    BY <1>0, <1>1, <1>3, <2>4, <2>5, <2>6 DEF AloneRest, AloneInv
<1> QED
  BY <1>1, <1>2, <1>3

\* The slips of a request that was alone open what it wrote; of one that was not,
\* nothing is promised.
LEMMA WriteSessionAlone ==
  ASSUME AloneInv, NEW w \in Worker, WriteSession(w)
  PROVE  AloneRest'
<1> DEFINE j == job[w]
<1>0. /\ j.phase = "session" /\ UNCHANGED <<account, link, mixed>>
      /\ job' = [job EXCEPT ![w] = NoJob] /\ JobSound(j) /\ JobsShaped
      /\ j.user \subseteq User
  BY DEF WriteSession, AloneInv, PasswordInv, JobsShaped
<1>1. PICK old \in j.session :
        slips' = [u \in User |-> IF u \in j.user THEN j.token
                                 ELSE IF j.drop = "yes" THEN 0 ELSE old[u]]
  BY DEF WriteSession
<1>2. fresh' = IF j.alone = "no" THEN {}
               ELSE IF j.tie = "none" THEN fresh \cup j.user ELSE fresh \ j.user
  BY DEF WriteSession
<1>3. \A s : Primaries(s)' = Primaries(s)
  BY <1>0, SameLinks
<1>4. job'[w] = NoJob /\ Within(w)
  BY <1>0, <1>1, <1>3 DEF Within, JobsShaped
<1>5. MeetingsKnown' /\ \A v \in Worker : JobSound(job[v])'
  <2>1. {} \subseteq j.user /\ Ended(w, {})
    BY <1>0 DEF Ended
  <2>. QED
    BY <2>1, <1>4, NoJobSound, EndKeeps
<1>6. FreshSound'
  <2>1. CASE j.alone = "no"
    BY <2>1, <1>2 DEF FreshSound
  <2>2. CASE j.alone = "yes"
    <3>1. /\ old = slips
          /\ j.tie = "none" => \A u \in j.user :
               There(u) /\ account[u].password = j.token /\ account[u].raw = "no"
      BY <1>0, <1>1, <2>2 DEF JobSound
    <3>2. ASSUME NEW u \in fresh'
          PROVE  /\ u \in User /\ There(u)
                 /\ slips'[u] # 0 => account[u].password = slips'[u] /\ account[u].raw = "no"
      <4>1. CASE u \in j.user
        BY <4>1, <3>1, <3>2, <1>0, <1>1, <1>2, <2>2
      <4>2. CASE u \notin j.user
        BY <4>2, <3>1, <3>2, <1>1, <1>2, <2>2 DEF AloneInv, FreshSound
      <4>. QED
        BY <4>1, <4>2
    <3>. QED
      BY <1>0, <3>2 DEF FreshSound, There
  <2>. QED
    BY <1>0, <2>1, <2>2 DEF JobSound
<1>7. PrimarySound'
  BY <1>0, <1>3, PrimariesStay
<1> QED
  BY <1>0, <1>1, <1>5, <1>6, <1>7 DEF AloneRest, AloneInv

LEMMA CrashAlone ==
  ASSUME AloneInv, NEW w \in Worker, Crash(w)
  PROVE  AloneRest'
<1>1. /\ UNCHANGED <<account, slips, link, mixed, fresh>>
      /\ job' = [job EXCEPT ![w] = NoJob] /\ job = [v \in Worker |-> job[v]]
  BY DEF Crash, tables, history, AloneInv, PasswordInv, JobsShaped
<1>2. {} \subseteq job[w].user /\ Ended(w, {})
  BY <1>1 DEF Ended
<1> QED
  BY <1>1, <1>2, WriteAlone

LEMMA AloneStep == AloneInv /\ [Next]_vars => AloneInv'
<1> SUFFICES ASSUME AloneInv, [Next]_vars PROVE AloneInv'
  OBVIOUS
<1>1. PasswordInv'
  BY PasswordStep DEF AloneInv
<1>2. CASE UNCHANGED vars
  <2>1. UNCHANGED <<account, slips, link, job, fresh, mixed>>
    BY <1>2 DEF vars, tables, history
  <2>2. \A s : Primaries(s)' = Primaries(s)
    BY <2>1, SameLinks
  <2>3. MeetingsKnown' /\ \A v \in Worker : JobSound(job[v])'
    BY <2>1, <2>2, OfficeAlone DEF Kept
  <2>4. FreshSound' /\ PrimarySound'
    BY <2>1, <2>2, FreshStays, PrimariesStay
  <2>. QED
    BY <1>1, <2>1, <2>3, <2>4 DEF AloneInv
<1>3. ASSUME NEW w \in Worker, OpenStep(w) PROVE AloneRest'
  <2>1. ASSUME NEW u \in User,
               \/ OpenReset(w, u) \/ OpenChange(w, u) \/ OpenEdit(w, u)
               \/ OpenPassword(w, u) \/ OpenToggle(w, u) \/ OpenDisable(w, u)
               \/ OpenForced(w, u) \/ OpenOwn(w, u)
        PROVE  AloneRest'
    BY <2>1, OpenAlone
       DEF OpenReset, OpenChange, OpenEdit, OpenPassword, OpenToggle, OpenDisable,
           OpenForced, OpenOwn
  <2>2. ASSUME NEW group \in {Staff, Pupil}, OpenBatch(w, group) PROVE AloneRest'
    BY <2>2, OpenAlone DEF OpenBatch
  <2>. QED
    BY <1>3, <2>1, <2>2, OpenCreateAlone, OpenGuardianAlone, OpenLinkAlone DEF OpenStep
<1>4. ASSUME NEW w \in Worker, SaveStep(w) \/ Crash(w) PROVE AloneRest'
  BY <1>4, SaveCreateAlone, SaveResetAlone, SaveForcedAlone, SaveWholeAlone,
     SaveGuardianAlone, SaveLinkAlone, WriteSessionAlone, CrashAlone DEF SaveStep
<1>5. CASE AloneRest'
  BY <1>1, <1>5 DEF AloneInv, AloneRest
<1> QED
  BY <1>2, <1>3, <1>4, <1>5, AccountStepAlone DEF Next

THEOREM AloneSound == Spec => []AloneInv
<1>1. Init => AloneInv
  <2> SUFFICES ASSUME Init PROVE AloneInv
    OBVIOUS
  <2>1. /\ job = [w \in Worker |-> NoJob] /\ fresh = {} /\ mixed = {}
        /\ slips = [u \in User |-> 0] /\ link = [e \in Pupil \X Parent |-> "none"]
    BY DEF Init
  <2>2. PrimarySound
    BY <2>1 DEF PrimarySound, Primaries
  <2>. QED
    BY <2>1, <2>2, InitSound, NoJobSound DEF AloneInv, MeetingsKnown, FreshSound
<1> QED
  BY <1>1, AloneStep, PTL DEF Spec

\* A slip that is still to be shown opens the account it was made for
\* (CredentialSingleResetView, CredentialBatchView, StudentCreateView), whoever
\* else was at work, unless it was on the same account or on the session.
THEOREM SlipsOpen == Spec => []SlipOpens
<1>1. AloneInv => SlipOpens
  BY DEF AloneInv, FreshSound, SlipOpens
<1> QED
  BY <1>1, AloneSound, PTL

\* One guardian at most is the primary contact, although the flag is taken from
\* the others and given to the new one in two statements (StudentGuardianUpdateView):
\* until requests meet on the guardians of the student, or a form of the admin site
\* (StudentGuardianLinkInline) gives it to another one, and again as soon as a request
\* that is alone makes a guardian primary.
THEOREM OnePrimaryContact == Spec => []OnePrimary
<1>1. AloneInv => OnePrimary
  <2>1. ASSUME AloneInv, NEW s \in Pupil \ mixed
        PROVE  Cardinality(Primaries(s)) <= 1
    <3>1. \A e1, e2 \in Primaries(s) : e1 = e2
      BY <2>1 DEF AloneInv, PrimarySound
    <3>2. CASE Primaries(s) = {}
      BY <3>2, FS_EmptySet
    <3>3. ASSUME NEW e \in Primaries(s) PROVE Cardinality(Primaries(s)) <= 1
      <4>1. Primaries(s) = {e}
        BY <3>1, <3>3
      <4>. QED
        BY <4>1, FS_Singleton
    <3>. QED
      BY <3>2, <3>3
  <2>. QED
    BY <2>1 DEF OnePrimary
<1> QED
  BY <1>1, AloneSound, PTL

-----------------------------------------------------------------------------
(* What a request knows of its file *)

\* A request at work is at one of the rows of a file, or past the last.
AtRow(j) ==
  /\ j.file \in File
  /\ j.next \in 1 .. Len(Rows[j.file]) + 1
  /\ j.phase # "row" => j.next <= Len(Rows[j.file]) \/ j.phase = "clear"

\* A person who may be missing: the user name is somebody's, and others ask for it.
Excused(f, i) == OfPeople(f) /\ Contested(f, i) /\ Rows[f][i].key \in Users

\* The rows before it are stored, in error, or skipped with reason.
DoneBefore(j) ==
  j.dry = "no" => \A i \in 1 .. j.next - 1 :
    \/ i \in j.errors \/ Stored(Kind[j.file], Rows[j.file][i])
    \/ i \in j.skipped /\ Excused(j.file, i)

\* The steps within a row are those of its kind; only an import makes subjects. A subject
\* is linked under a code it has.
InKind(j) ==
  /\ j.phase \in {"idle", "row", "name", "code", "insert", "join", "link", "clear"}
  /\ j.dry \in {"yes", "no"}
  /\ j.phase = "row" => j.met = 0 /\ j.made = {}
  /\ j.phase \in {"insert", "join"} => j.dry = "no"
  /\ j.phase = "insert" => Kind[j.file] \in Kinds
  /\ j.phase = "insert" /\ Kind[j.file] = "subjects" => j.code[1] = Rows[j.file][j.next].code
  /\ j.phase \in {"name", "code", "join", "link"} => Kind[j.file] = "subjects"
  /\ j.phase \in {"join", "link"} =>
       \E s \in subjects : /\ s.code = j.code
                           /\ \/ s.code[1] = Rows[j.file][j.next].code
                              \/ s.name = Rows[j.file][j.next].key

\* The guardians an open transaction has dealt with have an account, or get one that bears
\* their name; one that has another by now was looked for by two.
MadeOK(j) ==
  j.phase = "insert" /\ Kind[j.file] = "students" =>
    LET r == Rows[j.file][j.next] IN
    /\ j.met \in 0 .. Len(r.family)
    /\ \A i \in 1 .. j.met : r.family[i] \in Families(parents \cup j.made)
    /\ \A a \in j.made : /\ a.family \in Guardians(r) /\ a.user[1] = Login[a.family]
                         /\ a.family \in Families(parents) => a.family \in raced
    /\ \A a, b \in j.made : a.family = b.family => a = b

Formed(j) == j = [f \in DOMAIN NoTask |-> j[f]]

TaskOK(j) ==
  /\ Formed(j)
  /\ InKind(j)
  /\ j.phase # "idle" => AtRow(j) /\ DoneBefore(j)
  /\ MadeOK(j)

\* Every student, member of staff and parent comes of a row.
FromFiles ==
  /\ \A p \in pupils : \E g \in File : \E k \in DOMAIN Rows[g] :
       /\ Kind[g] = "students" /\ Rows[g][k].key = p.user
       /\ Stored("students", Rows[g][k])
  /\ \A u \in accounts : \E g \in File : \E k \in DOMAIN Rows[g] :
       Kind[g] = "staff" /\ Rows[g][k].key = u
  /\ \A a \in parents : a.family \in Family /\ a.user[1] = Login[a.family]

ImportsInv ==
  /\ DOMAIN task = Importer /\ \A w \in Importer : TaskOK(task[w])
  /\ pending.file \in File \cup {Nothing}
  /\ FromFiles
  /\ OneAccountPerGuardian
  /\ LoggedIsDone

\* Nothing an import has made is ever taken away.
Grown == /\ classes \subseteq classes' /\ subjects \subseteq subjects'
         /\ links \subseteq links' /\ accounts \subseteq accounts'
         /\ pupils \subseteq pupils' /\ parents \subseteq parents'

LEMMA TablesGrow ==
  ASSUME NEW w \in Importer, RequestStep(w) \/ RowStep(w)
  PROVE  Grown
<1>1. CASE RequestStep(w)
  BY <1>1 DEF RequestStep, Preview, PreviewDone, Confirm, Command, CommandDone, WriteLog,
              ClearSession, Die, Begin, Grown, importTables
<1>2. CASE \/ FindClass(w) \/ FindSubject(w) \/ FindByName(w) \/ PickCode(w)
           \/ FindStudent(w) \/ FindParent(w) \/ FindStaff(w)
  BY <1>2 DEF FindClass, FindSubject, FindByName, PickCode, FindStudent, FindParent, FindStaff,
              Grown, importTables
<1>3. CASE InsertClass(w) \/ InsertSubject(w)
  BY <1>3 DEF InsertClass, InsertSubject, Grown
<1>4. CASE InsertLink(w) \/ LinkSubject(w)
  BY <1>4 DEF InsertLink, LinkSubject, Grown
<1>5. CASE CommitStudent(w) \/ InsertStaff(w)
  BY <1>5 DEF CommitStudent, InsertStaff, Grown
<1> QED
  BY <1>1, <1>2, <1>3, <1>4, <1>5 DEF RowStep

LEMMA StoredGrows ==
  ASSUME Grown
  PROVE  /\ Users \subseteq Users' /\ Families(parents) \subseteq Families(parents)'
         /\ \A k, r : Stored(k, r) => Stored(k, r)'
         /\ \A f, i : Excused(f, i) => Excused(f, i)'
<1>1. Users \subseteq Users'
  BY DEF Grown, Users
<1>2. Families(parents) \subseteq Families(parents)'
  BY DEF Grown, Families
<1>3. ASSUME NEW k, NEW r, Stored(k, r) PROVE Stored(k, r)'
  <2>1. CASE k = "students" /\ \E p \in pupils :
               /\ p.user = r.key /\ p.class = r.class /\ p.guardians = Guardians(r)
               /\ Guardians(r) \subseteq Families(parents)
    BY <1>2, <2>1 DEF Grown, Stored, Guardians
  <2>2. CASE k = "subjects" /\ \E s \in subjects : /\ s.code[1] = r.code \/ s.name = r.key
                                                   /\ <<r.class, s.code>> \in links
    BY <2>2 DEF Grown, Stored
  <2>3. CASE (k = "classes" /\ r.key \in classes) \/ (k = "staff" /\ r.key \in accounts)
    BY <2>3 DEF Grown, Stored
  <2> QED BY <1>3, <2>1, <2>2, <2>3 DEF Stored
<1>4. ASSUME NEW f, NEW i, Excused(f, i) PROVE Excused(f, i)'
  BY <1>1, <1>4 DEF Excused, OfPeople, Contested
<1> QED BY <1>1, <1>2, <1>3, <1>4

\* Whoever has the user name of a row is its person, or the user name is contested.
LEMMA TakenIsExcused ==
  ASSUME FromFiles, NEW f \in File, NEW i \in DOMAIN Rows[f], OfPeople(f),
         Rows[f][i].key \in Users
  PROVE  Stored(Kind[f], Rows[f][i]) \/ Excused(f, i)
<1> DEFINE u == Rows[f][i].key
<1>1. SUFFICES ASSUME ~ Contested(f, i) PROVE Stored(Kind[f], Rows[f][i])
  BY DEF Excused
<1>2. ASSUME NEW g \in File, NEW k \in DOMAIN Rows[g], Kind[g] \in {"students", "staff"},
             Rows[g][k].key = u
      PROVE  g = f /\ k = i
  BY <1>1, <1>2 DEF Contested, OfPeople
<1>3. CASE \E p \in pupils : p.user = u
  <2>1. PICK g \in File : \E k \in DOMAIN Rows[g] :
          Kind[g] = "students" /\ Rows[g][k].key = u /\ Stored("students", Rows[g][k])
    BY <1>3 DEF FromFiles
  <2>2. Kind[f] = Kind[g] /\ \A k \in DOMAIN Rows[g] : Rows[g][k].key = u => g = f /\ k = i
    BY <1>2, <2>1
  <2> QED BY <2>1, <2>2
<1>4. CASE u \in accounts
  <2>1. PICK g \in File : \E k \in DOMAIN Rows[g] :
          Kind[g] = "staff" /\ Rows[g][k].key = u
    BY <1>4 DEF FromFiles
  <2>2. Kind[f] = Kind[g] /\ \A k \in DOMAIN Rows[g] : Rows[g][k].key = u => g = f /\ k = i
    BY <1>2, <2>1
  <2> QED BY <1>4, <2>1, <2>2 DEF Stored
<1>5. CASE \E a \in parents : a.user = u
  BY <1>1, <1>5 DEF FromFiles, Contested
<1> QED BY <1>3, <1>4, <1>5 DEF Users

\* What a step leaves true of a request it does not touch.
LEMMA TaskRests ==
  ASSUME Grown, NEW j, TaskOK(j), raced \subseteq raced',
         \A a \in j.made : a.family \in Families(parents)' =>
           a.family \in Families(parents) \/ a.family \in raced'
  PROVE  TaskOK(j)'
<1>1. InKind(j)'
  BY DEF TaskOK, InKind, Grown
<1>2. DoneBefore(j) => DoneBefore(j)'
  BY StoredGrows DEF DoneBefore
<1>3. MadeOK(j)'
  <2>1. Families(parents \cup j.made) \subseteq Families(parents \cup j.made)'
    BY DEF Families, Grown
  <2> QED BY <2>1 DEF TaskOK, MadeOK, Guardians
<1> QED
  BY <1>1, <1>2, <1>3 DEF TaskOK, AtRow, Formed

\* What is true of where a request stands is true of the request.
LEMMA TaskIs ==
  ASSUME NEW v, NEW i, task'[v] = i, TaskOK(i)'
  PROVE  TaskOK(task[v])'
<1>1. Formed(task[v])'
  BY DEF TaskOK, Formed
<1>2. InKind(task[v])'
  BY DEF TaskOK, InKind
<1>3. AtRow(i)' => AtRow(task[v])'
  BY DEF AtRow
<1>4. DoneBefore(i)' => DoneBefore(task[v])'
  <2> SUFFICES ASSUME DoneBefore(i)', task'[v].dry = "no", NEW n \in 1 .. task'[v].next - 1
               PROVE  (\/ n \in task[v].errors
                       \/ Stored(Kind[task[v].file], Rows[task[v].file][n])
                       \/ n \in task[v].skipped /\ Excused(task[v].file, n))'
    BY DEF DoneBefore
  <2>1. CASE n \in i.errors
    BY <2>1
  <2>2. CASE Stored(Kind[i.file], Rows[i.file][n])'
    <3>1. Stored(Kind[task[v].file], Rows[task[v].file][n])'
      BY <2>2 DEF Stored
    <3> QED BY <3>1
  <2>3. CASE n \in i.skipped /\ Excused(i.file, n)'
    <3>1. Excused(task[v].file, n)'
      BY <2>3 DEF Excused, Contested, OfPeople, Users
    <3> QED BY <2>3, <3>1
  <2> QED BY <2>1, <2>2, <2>3 DEF DoneBefore
<1>5. MadeOK(task[v])'
  BY DEF TaskOK, MadeOK, Guardians, Families
<1> QED
  BY <1>1, <1>2, <1>3, <1>4, <1>5 DEF TaskOK

\* People, accounts and logs of a step that makes none of them.
LEMMA RestKeeps ==
  ASSUME ImportsInv, Grown, UNCHANGED <<accounts, pupils, parents, raced, log>>
  PROVE  FromFiles' /\ OneAccountPerGuardian' /\ LoggedIsDone'
<1>1. FromFiles'
  BY StoredGrows DEF ImportsInv, FromFiles
<1>2. OneAccountPerGuardian'
  BY DEF ImportsInv, OneAccountPerGuardian
<1>3. LoggedIsDone'
  BY StoredGrows DEF ImportsInv, LoggedIsDone, Excused
<1> QED BY <1>1, <1>2, <1>3

\* A request goes on, no account is made, and no log written.
LEMMA RowGoesOn ==
  ASSUME ImportsInv, Grown, NEW w \in Importer, NEW j, TaskOK(j)', Go(w, j),
         UNCHANGED <<accounts, pupils, parents, raced>>
  PROVE  ImportsInv'
<1>1. /\ DOMAIN task' = Importer /\ \A v \in Importer : task'[v] = IF v = w THEN j ELSE task[v]
      /\ UNCHANGED <<pending, log>>
  BY DEF Go, ImportsInv
<1>2. ASSUME NEW v \in Importer PROVE TaskOK(task[v])'
  <2>1. CASE v = w
    BY <1>1, <2>1, TaskIs
  <2>2. CASE v # w
    <3>1. PICK i : i = task[v]
      OBVIOUS
    <3>2. TaskOK(i)'
      BY <3>1, TaskRests DEF ImportsInv, Families
    <3> QED
      BY <1>1, <2>2, <3>1, <3>2, TaskIs
  <2> QED BY <2>1, <2>2
<1> QED
  BY <1>1, <1>2, RestKeeps DEF ImportsInv

-----------------------------------------------------------------------------
(* The rows *)

\* What On to the next row leaves of where a request stands.
LEMMA NextRow ==
  ASSUME NEW o, Formed(o), NEW j, j \in {Created(o), Skipped(o), Wrong(o)}
  PROVE  /\ Formed(j) /\ j.phase = "row" /\ j.file = o.file /\ j.next = o.next + 1
         /\ j.dry = o.dry /\ j.shown = o.shown /\ j.met = 0 /\ j.made = {}
         /\ o.errors \subseteq j.errors /\ o.skipped \subseteq j.skipped
         /\ j = Created(o) => j.created = o.created + 1
         /\ j = Skipped(o) => j.created = o.created /\ o.next \in j.skipped
         /\ j = Wrong(o) => j.created = o.created /\ o.next \in j.errors
<1>1. DOMAIN o = DOMAIN NoTask
  BY DEF Formed
<1> DEFINE a == Ahead(o)
<1>2. /\ DOMAIN a = DOMAIN NoTask
      /\ a.phase = "row" /\ a.file = o.file /\ a.next = o.next + 1 /\ a.dry = o.dry
      /\ a.shown = o.shown /\ a.met = 0 /\ a.made = {} /\ a.errors = o.errors
      /\ a.skipped = o.skipped /\ a.created = o.created
  BY <1>1 DEF Ahead, NoTask
<1>3. /\ Created(o) = [a EXCEPT !.created = a.created + 1]
      /\ Skipped(o) = [a EXCEPT !.skipped = a.skipped \cup {o.next}]
      /\ Wrong(o) = [a EXCEPT !.errors = a.errors \cup {o.next}]
  BY <1>1, <1>2 DEF Created, Skipped, Wrong
<1>4. a = [f \in DOMAIN NoTask |-> a[f]]
  BY <1>1 DEF Ahead, Formed
<1> HIDE DEF a
<1>5. ASSUME j = Created(o)
      PROVE  /\ Formed(j) /\ j.phase = "row" /\ j.file = o.file /\ j.next = o.next + 1
             /\ j.dry = o.dry /\ j.shown = o.shown /\ j.met = 0 /\ j.made = {}
             /\ j.errors = o.errors /\ j.skipped = o.skipped /\ j.created = o.created + 1
  BY <1>2, <1>3, <1>4, <1>5 DEF NoTask, Formed
<1>6. ASSUME j = Skipped(o)
      PROVE  /\ Formed(j) /\ j.phase = "row" /\ j.file = o.file /\ j.next = o.next + 1
             /\ j.dry = o.dry /\ j.shown = o.shown /\ j.met = 0 /\ j.made = {}
             /\ j.errors = o.errors /\ j.skipped = o.skipped \cup {o.next}
             /\ j.created = o.created
  BY <1>2, <1>3, <1>4, <1>6 DEF NoTask, Formed
<1>7. ASSUME j = Wrong(o)
      PROVE  /\ Formed(j) /\ j.phase = "row" /\ j.file = o.file /\ j.next = o.next + 1
             /\ j.dry = o.dry /\ j.shown = o.shown /\ j.met = 0 /\ j.made = {}
             /\ j.errors = o.errors \cup {o.next} /\ j.skipped = o.skipped
             /\ j.created = o.created
  BY <1>2, <1>3, <1>4, <1>7 DEF NoTask, Formed
<1> QED BY <1>5, <1>6, <1>7

\* A request at a row goes on to the next when the row is done, or is in error.
LEMMA RowDone ==
  ASSUME ImportsInv, Grown, NEW w \in Importer, NEW o, o = task[w],
         o.phase \notin {"idle", "clear"}, o.next \in DOMAIN Rows[o.file], NEW j,
         \/ /\ j \in {Created(o), Skipped(o)}
            /\ o.dry = "no" => \/ Stored(Kind[o.file], Rows[o.file][o.next])'
                               \/ j = Skipped(o) /\ Excused(o.file, o.next)'
         \/ j = Wrong(o)
  PROVE  TaskOK(j)'
<1>1. /\ Formed(o) /\ AtRow(o) /\ DoneBefore(o)
      /\ o.dry \in {"yes", "no"}
  BY DEF ImportsInv, TaskOK, InKind
<1>2. /\ Formed(j) /\ j.phase = "row" /\ j.file = o.file /\ j.next = o.next + 1
      /\ j.met = 0 /\ j.made = {}
      /\ o.errors \subseteq j.errors /\ o.skipped \subseteq j.skipped /\ j.dry = o.dry
      /\ j = Skipped(o) => o.next \in j.skipped
      /\ j = Wrong(o) => o.next \in j.errors
  BY <1>1, NextRow
<1>3. o.file \in File /\ o.next \in 1 .. Len(Rows[o.file]) /\ Len(Rows[o.file]) \in Nat
  BY <1>1, ImportsAssumption DEF AtRow
<1>4. AtRow(j)
  BY <1>2, <1>3 DEF AtRow
<1>5. DoneBefore(j)'
  <2> SUFFICES ASSUME j.dry = "no", NEW i \in 1 .. j.next - 1
               PROVE  \/ i \in j.errors \/ Stored(Kind[j.file], Rows[j.file][i])'
                      \/ i \in j.skipped /\ Excused(j.file, i)'
    BY DEF DoneBefore
  <2>1. CASE i = o.next
    <3>1. \/ j = Wrong(o) \/ Stored(Kind[o.file], Rows[o.file][i])'
          \/ j = Skipped(o) /\ Excused(o.file, i)'
      BY <2>1, <1>2
    <3> QED BY <2>1, <1>2, <3>1
  <2>2. CASE i # o.next
    <3>1. i \in 1 .. o.next - 1
      BY <2>2, <1>2, <1>3
    <3>2. \/ i \in o.errors \/ Stored(Kind[o.file], Rows[o.file][i])
          \/ i \in o.skipped /\ Excused(o.file, i)
      BY <1>1, <1>2, <3>1 DEF DoneBefore
    <3>3. \/ i \in o.errors \/ Stored(Kind[o.file], Rows[o.file][i])'
          \/ i \in o.skipped /\ Excused(o.file, i)'
      BY <3>2, StoredGrows
    <3> QED BY <1>2, <3>3
  <2> QED BY <2>1, <2>2
<1>6. InKind(j)' /\ MadeOK(j)'
  BY <1>1, <1>2 DEF InKind, MadeOK
<1>7. Formed(j)' /\ AtRow(j)'
  BY <1>2, <1>4 DEF Formed, AtRow
<1> QED
  BY <1>5, <1>6, <1>7 DEF TaskOK

\* A step within a row.
LEMMA WithinRow ==
  ASSUME ImportsInv, Grown, NEW w \in Importer, NEW o, o = task[w],
         o.phase \notin {"idle", "clear"}, o.next \in DOMAIN Rows[o.file], NEW j,
         Formed(j), j.file = o.file, j.next = o.next, j.errors = o.errors,
         j.skipped = o.skipped, j.dry = o.dry, InKind(j)', MadeOK(j)'
  PROVE  TaskOK(j)'
<1>1. AtRow(o) /\ DoneBefore(o)
  BY DEF ImportsInv, TaskOK
<1>2. AtRow(j)
  BY <1>1, ImportsAssumption DEF AtRow
<1>3. DoneBefore(j)'
  BY <1>1, StoredGrows DEF DoneBefore
<1> QED
  BY <1>2, <1>3 DEF TaskOK, AtRow, Formed
\* A step of a request at a row, in three lemmas: what the step is, a request that goes on
\* to the next row, and one that stays at its row.
LEMMA RowMoves ==
  ASSUME ImportsInv, NEW w \in Importer, RowStep(w), NEW o, o = task[w]
  PROVE  /\ Grown /\ TaskOK(o) /\ TaskOK(NoTask)' /\ Formed(o)
         /\ o.phase # "idle" => AtRow(o)
         /\ o.phase \notin {"idle", "row", "clear"} => o.next \in DOMAIN Rows[o.file]
         /\ o.phase \in {"insert", "join"} => o.dry = "no"
<1>1. Grown /\ TaskOK(o) /\ TaskOK(NoTask)'
  BY TablesGrow DEF ImportsInv, TaskOK, Formed, InKind, MadeOK, NoTask
<1> QED
  BY <1>1, ImportsAssumption DEF TaskOK, AtRow, InKind

LEMMA OnToNext ==
  ASSUME ImportsInv, NEW w \in Importer, RowStep(w), NEW o, o = task[w],
         o.phase \notin {"idle", "clear"}, o.next \in DOMAIN Rows[o.file], NEW j,
         \/ /\ j \in {Created(o), Skipped(o)}
            /\ o.dry = "no" => \/ Stored(Kind[o.file], Rows[o.file][o.next])'
                               \/ j = Skipped(o) /\ Excused(o.file, o.next)'
         \/ j = Wrong(o),
         Go(w, j), UNCHANGED <<accounts, pupils, parents, raced>>
  PROVE  ImportsInv'
BY RowMoves, RowDone, RowGoesOn

LEMMA StaysAtRow ==
  ASSUME ImportsInv, NEW w \in Importer, RowStep(w), NEW o, o = task[w],
         o.phase \notin {"idle", "clear"}, o.next \in DOMAIN Rows[o.file], NEW j,
         Formed(j), j.file = o.file, j.next = o.next, j.errors = o.errors,
         j.skipped = o.skipped, j.dry = o.dry, InKind(j)', MadeOK(j)', Go(w, j),
         UNCHANGED <<accounts, pupils, parents, raced>>
  PROVE  ImportsInv'
BY RowMoves, WithinRow, RowGoesOn

LEMMA EndsAtRow ==
  ASSUME ImportsInv, NEW w \in Importer, RowStep(w), Go(w, NoTask),
         UNCHANGED <<accounts, pupils, parents, raced>>
  PROVE  ImportsInv'
BY RowMoves, RowGoesOn

LEMMA ClassRowKeeps ==
  ASSUME ImportsInv, NEW w \in Importer, FindClass(w) \/ InsertClass(w)
  PROVE  ImportsInv'
<1>1. PICK o : o = task[w]
  OBVIOUS
<1> DEFINE r == Rows[o.file][o.next]
           j == [o EXCEPT !.phase = "insert"]
<1>2. RowStep(w)
  BY DEF RowStep
<1>3. /\ Formed(o) /\ TaskOK(o)
      /\ o.phase = "insert" => o.next \in DOMAIN Rows[o.file]
  BY <1>1, <1>2, RowMoves
<1>4. CASE FindClass(w)
  <2>1. /\ o.phase = "row" /\ Kind[o.file] = "classes" /\ o.next \in DOMAIN Rows[o.file]
        /\ UNCHANGED <<importTables, raced>>
        /\ Go(w, IF r.key \in classes THEN Skipped(o)
                 ELSE IF o.dry = "no" THEN j
                 ELSE IF o.verbose = "yes" THEN NoTask ELSE Created(o))
    BY <1>1, <1>4 DEF FindClass, At, RowOf
  <2>2. /\ UNCHANGED <<accounts, pupils, parents, raced>>
        /\ r.key \in classes => Stored(Kind[o.file], r)'
    BY <2>1 DEF importTables, Stored
  <2>3. ASSUME Go(w, j), o.dry = "no" PROVE ImportsInv'
    <3>1. /\ Formed(j) /\ j.phase = "insert" /\ j.file = o.file /\ j.next = o.next
          /\ j.errors = o.errors /\ j.skipped = o.skipped /\ j.dry = o.dry
      BY <1>3 DEF Formed, NoTask
    <3>2. InKind(j)' /\ MadeOK(j)'
      BY <2>1, <2>3, <3>1 DEF InKind, MadeOK, Kinds
    <3> HIDE DEF j
    <3> QED BY <1>1, <1>2, <2>1, <2>2, <2>3, <3>1, <3>2, StaysAtRow
  <2>4. ASSUME Go(w, Skipped(o)), r.key \in classes PROVE ImportsInv'
    BY <1>1, <1>2, <2>1, <2>2, <2>4, OnToNext
  <2>5. ASSUME Go(w, Created(o)), o.dry # "no" PROVE ImportsInv'
    BY <1>1, <1>2, <2>1, <2>2, <2>5, OnToNext
  <2> QED BY <1>2, <2>1, <2>2, <2>3, <2>4, <2>5, EndsAtRow
<1>5. CASE InsertClass(w)
  <2>1. /\ o.phase = "insert" /\ Kind[o.file] = "classes"
        /\ classes' = classes \cup {r.key} /\ UNCHANGED <<accounts, pupils, parents, raced>>
        /\ Go(w, IF r.key \in classes \/ o.verbose = "yes" THEN NoTask ELSE Created(o))
    BY <1>1, <1>5 DEF InsertClass, RowOf
  <2>2. Stored(Kind[o.file], r)'
    BY <2>1 DEF Stored
  <2>3. ASSUME Go(w, Created(o)) PROVE ImportsInv'
    BY <1>1, <1>2, <1>3, <2>1, <2>2, <2>3, OnToNext
  <2> QED BY <1>2, <2>1, <2>3, EndsAtRow
<1> QED BY <1>4, <1>5

LEMMA SubjectRowKeeps ==
  ASSUME ImportsInv, NEW w \in Importer,
         \/ FindSubject(w) \/ FindByName(w) \/ PickCode(w) \/ LinkSubject(w)
         \/ InsertSubject(w) \/ InsertLink(w)
  PROVE  ImportsInv'
<1>1. PICK o : o = task[w]
  OBVIOUS
<1> DEFINE r == Rows[o.file][o.next]
<1>2. RowStep(w)
  BY DEF RowStep
<1>3. /\ Formed(o) /\ TaskOK(o)
      /\ o.phase \notin {"idle", "row", "clear"} => o.next \in DOMAIN Rows[o.file]
      /\ o.phase \in {"insert", "join"} => o.dry = "no"
      /\ o.phase \in {"name", "code", "join", "link"} => Kind[o.file] = "subjects"
      /\ o.dry \in {"yes", "no"}
  BY <1>1, <1>2, RowMoves DEF TaskOK, InKind
<1>4. UNCHANGED <<importTables, raced>> => UNCHANGED <<subjects, accounts, pupils, parents, raced>>
  BY DEF importTables
<1>5. ASSUME NEW p, NEW c,
             NEW j, j \in {[o EXCEPT !.phase = p], [o EXCEPT !.phase = p, !.code = c]},
             Go(w, j), UNCHANGED <<accounts, pupils, parents, raced>>,
             Kind[o.file] = "subjects", o.phase \notin {"idle", "clear"},
             o.next \in DOMAIN Rows[o.file],
             \/ p \in {"name", "code"}
             \/ p = "insert" /\ o.dry = "no" /\ j.code[1] = r.code
             \/ /\ p = "link" \/ (p = "join" /\ o.dry = "no")
                /\ \E s \in subjects' : s.code = j.code /\ (s.code[1] = r.code \/ s.name = r.key)
      PROVE  ImportsInv'
  <2>1. /\ Formed(j) /\ j.phase = p /\ j.file = o.file /\ j.next = o.next
        /\ j.errors = o.errors /\ j.skipped = o.skipped /\ j.dry = o.dry
    BY <1>3, <1>5 DEF Formed, NoTask
  <2>2. InKind(j)' /\ MadeOK(j)'
    BY <1>3, <1>5, <2>1 DEF InKind, MadeOK, Kinds
  <2> QED BY <1>1, <1>2, <1>5, <2>1, <2>2, StaysAtRow
<1>6. ASSUME NEW j \in {Created(o), Skipped(o)}, Go(w, j),
             UNCHANGED <<accounts, pupils, parents, raced>>,
             o.dry = "no" => Stored(Kind[o.file], r)',
             o.phase \notin {"idle", "clear"}, o.next \in DOMAIN Rows[o.file]
      PROVE  ImportsInv'
  BY <1>1, <1>2, <1>6, OnToNext
<1>7. CASE FindSubject(w)
  <2>1. /\ o.phase = "row" /\ Kind[o.file] = "subjects" /\ o.next \in DOMAIN Rows[o.file]
        /\ UNCHANGED <<importTables, raced>>
        /\ \/ Go(w, Wrong(o)) \/ Go(w, [o EXCEPT !.phase = "name"])
           \/ \E s \in Coded(<<r.code, 0>>) : Go(w, [o EXCEPT !.phase = "link", !.code = s.code])
    BY <1>1, <1>7 DEF FindSubject, At, RowOf
  <2>2. ASSUME NEW s \in Coded(<<r.code, 0>>),
               Go(w, [o EXCEPT !.phase = "link", !.code = s.code])
        PROVE  ImportsInv'
    <3> DEFINE j == [o EXCEPT !.phase = "link", !.code = s.code]
    <3>1. s \in subjects' /\ s.code[1] = r.code
      <4>1. s \in subjects /\ s.code = <<r.code, 0>>
        BY <2>2 DEF Coded
      <4>2. <<r.code, 0>>[1] = r.code
        OBVIOUS
      <4> QED BY <1>4, <2>1, <4>1, <4>2
    <3>2. j.code = s.code
      BY <1>3 DEF Formed, NoTask
    <3> HIDE DEF j
    <3> QED BY <1>4, <1>5, <2>1, <2>2, <3>1, <3>2 DEF j
  <2>3. ASSUME Go(w, Wrong(o)) PROVE ImportsInv'
    BY <1>1, <1>2, <1>4, <2>1, <2>3, OnToNext
  <2> QED BY <1>4, <1>5, <2>1, <2>2, <2>3
<1>8. CASE FindByName(w)
  <2>1. /\ o.phase = "name" /\ UNCHANGED <<importTables, raced>>
        /\ \/ Go(w, [o EXCEPT !.phase = "code"])
           \/ \E s \in Named(r.key) : Go(w, [o EXCEPT !.phase = "link", !.code = s.code])
    BY <1>1, <1>8 DEF FindByName, RowOf
  <2>2. ASSUME NEW s \in Named(r.key), Go(w, [o EXCEPT !.phase = "link", !.code = s.code])
        PROVE  ImportsInv'
    <3> DEFINE j == [o EXCEPT !.phase = "link", !.code = s.code]
    <3>1. s \in subjects' /\ s.name = r.key /\ j.code = s.code
      BY <1>3, <1>4, <2>1, <2>2 DEF Formed, NoTask, Named
    <3> HIDE DEF j
    <3> QED BY <1>3, <1>4, <1>5, <2>1, <2>2, <3>1 DEF j
  <2> QED BY <1>3, <1>4, <1>5, <2>1, <2>2
<1>9. CASE PickCode(w)
  <2> DEFINE c == FirstFree(r.code, {s.code : s \in subjects})
             j == [o EXCEPT !.phase = "insert", !.code = c]
  <2>1. /\ o.phase = "code" /\ UNCHANGED <<importTables, raced>>
        /\ Go(w, IF o.dry = "yes" THEN Created(o) ELSE j)
    BY <1>1, <1>9 DEF PickCode, RowOf
  <2>2. ASSUME Go(w, j), o.dry = "no" PROVE ImportsInv'
    <3>1. j.code[1] = r.code
      <4>1. c[1] = r.code
        BY DEF FirstFree
      <4> HIDE DEF c
      <4> QED BY <1>3, <4>1 DEF Formed, NoTask
    <3> HIDE DEF c
    <3> QED BY <1>3, <1>4, <1>5, <2>1, <2>2, <3>1
  <2>3. ASSUME Go(w, Created(o)), o.dry = "yes" PROVE ImportsInv'
    BY <1>3, <1>4, <1>6, <2>1, <2>3
  <2> QED BY <1>3, <2>1, <2>2, <2>3
<1>10. CASE InsertSubject(w)
  <2> DEFINE j == [o EXCEPT !.phase = "join"]
             s == [name |-> r.key, code |-> o.code]
  <2>1. /\ o.phase = "insert" /\ Kind[o.file] = "subjects"
        /\ UNCHANGED <<accounts, pupils, parents, raced>>
        /\ Go(w, NoTask) \/ (subjects' = subjects \cup {s} /\ Go(w, j))
    BY <1>1, <1>10 DEF InsertSubject, RowOf
  <2>2. ASSUME subjects' = subjects \cup {s}, Go(w, j) PROVE ImportsInv'
    <3>1. s \in subjects' /\ s.code = j.code /\ s.name = r.key
      BY <1>3, <2>2 DEF Formed, NoTask
    <3> HIDE DEF s
    <3> QED BY <1>3, <1>5, <2>1, <2>2, <3>1
  <2> QED BY <1>2, <2>1, <2>2, EndsAtRow
<1>11. CASE LinkSubject(w) \/ InsertLink(w)
  <2>1. /\ o.phase \in {"link", "join"} /\ links' = links \cup {<<r.class, o.code>>}
        /\ UNCHANGED <<subjects, accounts, pupils, parents, raced>>
        /\ Go(w, NoTask) \/ Go(w, Skipped(o)) \/ Go(w, Created(o))
    BY <1>1, <1>11 DEF LinkSubject, InsertLink, RowOf
  <2>2. \E s \in subjects : s.code = o.code /\ (s.code[1] = r.code \/ s.name = r.key)
    BY <1>3, <2>1 DEF TaskOK, InKind
  <2>3. Stored(Kind[o.file], r)'
    BY <1>3, <2>1, <2>2 DEF Stored
  <2> QED BY <1>2, <1>3, <1>6, <2>1, <2>3, EndsAtRow
<1> QED BY <1>7, <1>8, <1>9, <1>10, <1>11

\* A person whose user name is taken is skipped with reason.
LEMMA PersonSkipped ==
  ASSUME ImportsInv, NEW w \in Importer, RowStep(w), NEW o, o = task[w],
         o.phase \notin {"idle", "clear"}, o.next \in DOMAIN Rows[o.file], OfPeople(o.file),
         Rows[o.file][o.next].key \in Users, Go(w, Skipped(o)),
         UNCHANGED <<importTables, raced>>
  PROVE  ImportsInv'
<1>1. o.file \in File /\ Grown
  BY RowMoves DEF AtRow
<1>2. Stored(Kind[o.file], Rows[o.file][o.next]) \/ Excused(o.file, o.next)
  BY <1>1, TakenIsExcused DEF ImportsInv
<1>3. Stored(Kind[o.file], Rows[o.file][o.next])' \/ Excused(o.file, o.next)'
  BY <1>1, <1>2, StoredGrows
<1>4. UNCHANGED <<accounts, pupils, parents, raced>>
  BY DEF importTables
<1> QED BY <1>3, <1>4, OnToNext

LEMMA FindPersonKeeps ==
  ASSUME ImportsInv, NEW w \in Importer, FindStudent(w) \/ FindStaff(w)
  PROVE  ImportsInv'
<1>1. PICK o : o = task[w]
  OBVIOUS
<1> DEFINE r == Rows[o.file][o.next]
<1>2. RowStep(w)
  BY DEF RowStep
<1>3. Formed(o) /\ TaskOK(o) /\ o.dry \in {"yes", "no"} /\ (o.phase # "idle" => AtRow(o))
  BY <1>1, <1>2, RowMoves DEF TaskOK, InKind
<1>4. PICK j : /\ o.phase = "row" /\ OfPeople(o.file) /\ o.next \in DOMAIN Rows[o.file]
               /\ UNCHANGED <<importTables, raced>> /\ Go(w, j)
               /\ \/ j = Skipped(o) /\ r.key \in Users
                  \/ j = Wrong(o)
                  \/ j = Created(o) /\ o.dry = "yes"
                  \/ /\ o.dry = "no"
                     /\ \/ j = [o EXCEPT !.phase = "insert"] /\ Kind[o.file] = "staff"
                        \/ j = [o EXCEPT !.phase = "insert", !.number = NextNumber(r.class)]
                           /\ Kind[o.file] = "students"
  <2>1. CASE FindStudent(w)
    BY <1>1, <1>3, <2>1 DEF FindStudent, At, RowOf, OfPeople
  <2>2. CASE FindStaff(w)
    BY <1>1, <1>3, <2>2 DEF FindStaff, At, RowOf, OfPeople
  <2> QED BY <2>1, <2>2
<1>5. UNCHANGED <<accounts, pupils, parents, raced>>
  BY <1>4 DEF importTables
<1>6. CASE j = Skipped(o) /\ r.key \in Users
  BY <1>1, <1>2, <1>4, <1>6, PersonSkipped
<1>7. CASE j = Wrong(o) \/ (j = Created(o) /\ o.dry = "yes")
  BY <1>1, <1>2, <1>4, <1>5, <1>7, OnToNext
<1>8. CASE /\ o.dry = "no"
           /\ \/ j = [o EXCEPT !.phase = "insert"] /\ Kind[o.file] = "staff"
              \/ j = [o EXCEPT !.phase = "insert", !.number = NextNumber(r.class)]
                 /\ Kind[o.file] = "students"
  <2>1. /\ Formed(j) /\ j.phase = "insert" /\ j.file = o.file /\ j.next = o.next
        /\ j.errors = o.errors /\ j.skipped = o.skipped /\ j.dry = o.dry
        /\ j.met = o.met /\ j.made = o.made
    <3> DEFINE n == NextNumber(r.class)
    <3> HIDE DEF n
    <3> QED BY <1>3, <1>8 DEF Formed, NoTask, n
  <2>2. InKind(j)'
    BY <1>4, <1>8, <2>1 DEF InKind, Kinds
  <2>3. Kind[o.file] = "students" => o.met = 0 /\ o.made = {}
    BY <1>3, <1>4 DEF TaskOK, InKind
  <2>4. o.file \in File
    BY <1>3, <1>4 DEF AtRow
  <2>5. MadeOK(j)'
    <3>1. Len(r.family) \in Nat
      BY <1>4, <2>4, ImportsAssumption
    <3> QED BY <1>4, <2>1, <2>3, <3>1 DEF MadeOK
  <2> QED BY <1>1, <1>2, <1>4, <1>5, <2>1, <2>2, <2>5, StaysAtRow
<1> QED BY <1>4, <1>6, <1>7, <1>8

\* Another guardian is dealt with: the account is there, or one is made that bears the name.
LEMMA FindParentKeeps ==
  ASSUME ImportsInv, NEW w \in Importer, FindParent(w)
  PROVE  ImportsInv'
<1>1. PICK o : o = task[w]
  OBVIOUS
<1> DEFINE r == Rows[o.file][o.next]
           g == r.family[o.met + 1]
           new == NewParent(w)
<1>2. RowStep(w)
  BY DEF RowStep
<1>3. Formed(o) /\ TaskOK(o)
  BY <1>1, <1>2, RowMoves
<1>4. PICK j :
        /\ j = [o EXCEPT !.met = @ + 1,
                         !.made = IF g \in Families(parents \cup o.made) THEN @
                                  ELSE @ \cup {new}]
        /\ o.phase = "insert" /\ Kind[o.file] = "students" /\ o.met < Len(r.family)
        /\ Go(w, j) /\ UNCHANGED <<importTables, raced>>
  BY <1>1 DEF FindParent, AtGuardian, Guardian, RowOf
<1>5. o.file \in File /\ o.next \in DOMAIN Rows[o.file] /\ o.dry = "no"
  BY <1>1, <1>2, <1>4, RowMoves DEF AtRow
<1>6. UNCHANGED <<subjects, accounts, pupils, parents, raced>>
  BY <1>4 DEF importTables
<1>7. r.family \in Seq(Family) /\ DOMAIN r.family = 1 .. Len(r.family) /\ Len(r.family) \in Nat
  BY <1>5, ImportsAssumption
<1>8. /\ o.met \in 0 .. Len(r.family)
      /\ \A i \in 1 .. o.met : r.family[i] \in Families(parents \cup o.made)
      /\ \A a \in o.made : /\ a.family \in Guardians(r) /\ a.user[1] = Login[a.family]
                           /\ a.family \in Families(parents) => a.family \in raced
      /\ \A a, b \in o.made : a.family = b.family => a = b
  BY <1>3, <1>4 DEF TaskOK, MadeOK
<1>9. new.family = g /\ new.user[1] = Login[g] /\ g \in Guardians(r)
  <2>1. g \in Guardians(r)
    <3>1. o.met + 1 \in DOMAIN r.family
      BY <1>4, <1>7, <1>8
    <3> QED BY <3>1 DEF Guardians
  <2>2. Guardian(w) = g
    BY <1>1 DEF Guardian, RowOf
  <2>3. new.family = g /\ new.user[1] = Login[g]
    BY <2>2 DEF NewParent, FirstFree
  <2> QED BY <2>1, <2>3
<1> HIDE DEF new, g
<1>10. /\ Formed(j) /\ j.phase = "insert" /\ j.file = o.file /\ j.next = o.next
       /\ j.errors = o.errors /\ j.skipped = o.skipped /\ j.dry = o.dry
       /\ j.met = o.met + 1
       /\ j.made = IF g \in Families(parents \cup o.made) THEN o.made ELSE o.made \cup {new}
  BY <1>3, <1>4 DEF Formed, NoTask
<1>11. g = r.family[o.met + 1]
  BY DEF g
<1>12. InKind(j)'
  BY <1>4, <1>5, <1>10 DEF InKind, Kinds
<1>13. g \in Families(parents \cup j.made) /\ Families(parents \cup o.made) \subseteq Families(parents \cup j.made)
  BY <1>9, <1>10 DEF Families
<1>14. \A a \in o.made : a.family \in Families(parents \cup o.made)
  BY DEF Families
<1>15. \A a \in j.made : /\ a.family \in Guardians(r) /\ a.user[1] = Login[a.family]
                         /\ a.family \in Families(parents) => a.family \in raced
  <2>1. Families(parents) \subseteq Families(parents \cup o.made)
    BY DEF Families
  <2> QED BY <1>8, <1>9, <1>10, <2>1
<1>16. \A a, b \in j.made : a.family = b.family => a = b
  BY <1>8, <1>9, <1>10, <1>14
<1>17. \A i \in 1 .. j.met : r.family[i] \in Families(parents \cup j.made)
  <2> SUFFICES ASSUME NEW i \in 1 .. j.met PROVE r.family[i] \in Families(parents \cup j.made)
    OBVIOUS
  <2>1. i \in 1 .. o.met \/ i = o.met + 1
    BY <1>8, <1>10
  <2> QED BY <1>8, <1>11, <1>13, <2>1
<1>18. j.met \in 0 .. Len(r.family)
  BY <1>4, <1>7, <1>8, <1>10
<1>19. MadeOK(j)'
  BY <1>6, <1>10, <1>15, <1>16, <1>17, <1>18 DEF MadeOK, Guardians, Families
<1> QED BY <1>1, <1>2, <1>4, <1>5, <1>6, <1>10, <1>12, <1>19, StaysAtRow

\* What a step that makes people or accounts leaves true, if these come of files.
LEMMA PeopleMade ==
  ASSUME ImportsInv, NEW w \in Importer, RowStep(w), NEW o, o = task[w],
         o.phase = "insert", Stored(Kind[o.file], Rows[o.file][o.next])',
         Go(w, Created(o)), FromFiles', OneAccountPerGuardian', raced \subseteq raced',
         \A v \in Importer \ {w} : \A a \in task[v].made : a.family \in Families(parents)' =>
           a.family \in Families(parents) \/ a.family \in raced'
  PROVE  ImportsInv'
<1>1. /\ Grown /\ TaskOK(o) /\ o.next \in DOMAIN Rows[o.file]
  BY RowMoves
<1>2. PICK j : j = Created(o)
  OBVIOUS
<1>3. TaskOK(j)'
  BY <1>1, <1>2, RowDone
<1>4. /\ DOMAIN task' = Importer /\ task'[w] = j /\ UNCHANGED <<pending, log>>
      /\ \A v \in Importer \ {w} : task'[v] = task[v]
  BY <1>2 DEF Go, ImportsInv
<1>5. ASSUME NEW v \in Importer PROVE TaskOK(task[v])'
  <2>1. CASE v = w
    BY <1>3, <1>4, <2>1, TaskIs
  <2>2. CASE v # w
    <3>1. PICK i : i = task[v]
      OBVIOUS
    <3>2. TaskOK(i)'
      BY <1>1, <2>2, <3>1, TaskRests DEF ImportsInv
    <3> QED BY <1>4, <2>2, <3>1, <3>2, TaskIs
  <2> QED BY <2>1, <2>2
<1>6. LoggedIsDone'
  BY <1>1, <1>4, StoredGrows DEF ImportsInv, LoggedIsDone, Excused
<1> QED BY <1>4, <1>5, <1>6 DEF ImportsInv

LEMMA InsertStaffKeeps ==
  ASSUME ImportsInv, NEW w \in Importer, InsertStaff(w)
  PROVE  ImportsInv'
<1>1. PICK o : o = task[w]
  OBVIOUS
<1> DEFINE r == Rows[o.file][o.next]
<1>2. RowStep(w)
  BY DEF RowStep
<1>3. /\ o.phase = "insert" /\ Kind[o.file] = "staff"
      /\ accounts' = IF r.key \in Users THEN accounts ELSE accounts \cup {r.key}
      /\ UNCHANGED <<classes, subjects, links, pupils, parents, raced>>
      /\ Go(w, IF r.key \in Users THEN NoTask ELSE Created(o))
  BY <1>1 DEF InsertStaff, RowOf
<1>4. CASE r.key \in Users
  BY <1>2, <1>3, <1>4, EndsAtRow
<1>5. CASE r.key \notin Users
  <2>1. Stored(Kind[o.file], r)'
    BY <1>3, <1>5 DEF Stored
  <2>2. Grown /\ o.file \in File /\ o.next \in DOMAIN Rows[o.file]
    BY <1>1, <1>2, <1>3, RowMoves DEF AtRow
  <2>3. FromFiles'
    BY <1>3, <1>5, <2>2, StoredGrows DEF ImportsInv, FromFiles
  <2>4. OneAccountPerGuardian' /\ Families(parents)' = Families(parents)
    BY <1>3 DEF ImportsInv, OneAccountPerGuardian, Families
  <2> QED BY <1>1, <1>2, <1>3, <1>5, <2>1, <2>3, <2>4, PeopleMade
<1> QED BY <1>4, <1>5

\* The guardians of a student get their accounts: whoever is making one of them an account
\* at the same time is noted.
LEMMA CommitKeeps ==
  ASSUME ImportsInv, NEW w \in Importer, CommitStudent(w)
  PROVE  ImportsInv'
<1>1. PICK o : o = task[w]
  OBVIOUS
<1> DEFINE r == Rows[o.file][o.next]
<1>2. RowStep(w)
  BY DEF RowStep
<1>3. /\ o.phase = "insert" /\ Kind[o.file] = "students" /\ o.met = Len(r.family)
      /\ UNCHANGED accounts /\ RowOf(w) = r
  BY <1>1 DEF CommitStudent, AtEnd, RowOf
<1>4. TaskOK(o) /\ Grown /\ o.file \in File /\ o.next \in DOMAIN Rows[o.file]
  BY <1>1, <1>2, <1>3, RowMoves DEF AtRow
<1>5. CASE Go(w, NoTask) /\ UNCHANGED <<pupils, parents, raced>>
  BY <1>2, <1>3, <1>5, EndsAtRow
<1>6. CASE /\ pupils' = pupils \cup {NewPupil(w)}
           /\ parents' = parents \cup o.made
           /\ raced' = raced \cup UNION {Families(task[v].made) : v \in Importer \ {w}}
           /\ Go(w, Created(o))
  <2>1. /\ \A i \in 1 .. o.met : r.family[i] \in Families(parents')
        /\ \A a \in o.made : /\ a.family \in Guardians(r) /\ a.user[1] = Login[a.family]
                             /\ a.family \in Families(parents) => a.family \in raced
        /\ \A a, b \in o.made : a.family = b.family => a = b
    BY <1>3, <1>4, <1>6 DEF TaskOK, MadeOK
  <2>2. r.family \in Seq(Family) /\ DOMAIN r.family = 1 .. Len(r.family)
    BY <1>4, ImportsAssumption
  <2>3. Guardians(r) \subseteq Families(parents') /\ Guardians(r) \subseteq Family
    BY <1>3, <2>1, <2>2 DEF Guardians
  <2>4. PICK p : p = NewPupil(w)
    OBVIOUS
  <2>5. p.user = r.key /\ p.class = r.class /\ p.guardians = Guardians(r) /\ p \in pupils'
    BY <1>3, <1>6, <2>4 DEF NewPupil
  <2>6. Stored("students", r)'
    BY <2>3, <2>5 DEF Stored, Families, Guardians
  <2>7. FromFiles'
    <3>1. ASSUME NEW q \in pupils'
          PROVE  \E g \in File : \E k \in DOMAIN Rows[g] :
                   /\ Kind[g] = "students" /\ Rows[g][k].key = q.user
                   /\ Stored("students", Rows[g][k])'
      <4>1. CASE q = p
        BY <1>3, <1>4, <2>5, <2>6, <4>1
      <4>2. CASE q \in pupils
        <5>1. PICK g \in File : \E k \in DOMAIN Rows[g] :
                /\ Kind[g] = "students" /\ Rows[g][k].key = q.user
                /\ Stored("students", Rows[g][k])
          BY <4>2 DEF ImportsInv, FromFiles
        <5> QED BY <1>4, <5>1, StoredGrows
      <4> QED BY <1>6, <2>4, <4>1, <4>2
    <3>2. \A a \in parents' : a.family \in Family /\ a.user[1] = Login[a.family]
      BY <1>6, <2>1, <2>3 DEF ImportsInv, FromFiles
    <3>3. \A u \in accounts' : \E g \in File : \E k \in DOMAIN Rows[g] :
            Kind[g] = "staff" /\ Rows[g][k].key = u
      BY <1>3 DEF ImportsInv, FromFiles
    <3> QED BY <3>1, <3>2, <3>3 DEF FromFiles
  <2>8. OneAccountPerGuardian'
    <3> SUFFICES ASSUME NEW a \in parents', NEW b \in parents', a.family = b.family,
                        a.family \notin raced'
                 PROVE  a = b
      BY DEF OneAccountPerGuardian
    <3>1. a.family \notin raced
      BY <1>6
    <3>2. CASE a \in parents /\ b \in parents
      BY <3>1, <3>2 DEF ImportsInv, OneAccountPerGuardian
    <3>3. CASE a \in o.made /\ b \in o.made
      BY <2>1, <3>3
    <3>4. CASE (a \in o.made /\ b \in parents) \/ (a \in parents /\ b \in o.made)
      BY <2>1, <3>1, <3>4 DEF Families
    <3> QED BY <1>6, <3>2, <3>3, <3>4
  <2>9. ASSUME NEW v \in Importer \ {w}, NEW a \in task[v].made PROVE a.family \in raced'
    <3>1. a.family \in Families(task[v].made)
      BY DEF Families
    <3> QED BY <1>6, <3>1
  <2> QED BY <1>1, <1>2, <1>3, <1>6, <2>6, <2>7, <2>8, <2>9, PeopleMade
<1> QED
  BY <1>1, <1>5, <1>6 DEF CommitStudent

LEMMA RowStepKeeps ==
  ASSUME ImportsInv, NEW w \in Importer, RowStep(w)
  PROVE  ImportsInv'
BY ClassRowKeeps, SubjectRowKeeps, FindPersonKeeps, FindParentKeeps, CommitKeeps,
   InsertStaffKeeps DEF RowStep
-----------------------------------------------------------------------------
(* The requests *)

\* A request comes in: it is at the first row of its file.
LEMMA BeginKeeps ==
  ASSUME ImportsInv, NEW w \in Importer, NEW j, NEW data, Begin(w, j, data),
         Formed(j), j.file \in File, j.next = 1, j.dry \in {"yes", "no"},
         j.met = 0, j.made = {},
         data.file \in File \cup {Nothing}
  PROVE  ImportsInv'
<1>1. Grown /\ UNCHANGED <<importTables, log, raced>> /\ DOMAIN task' = Importer /\ pending' = data
  BY DEF Begin, Grown, importTables
<1>2. \A i, x : TaskOK(i) => TaskOK([i EXCEPT !.shown = x])
  <2> SUFFICES ASSUME NEW i, NEW x, TaskOK(i) PROVE TaskOK([i EXCEPT !.shown = x])
    OBVIOUS
  <2> DEFINE n == [i EXCEPT !.shown = x]
  <2>1. /\ Formed(n) /\ n.file = i.file /\ n.next = i.next /\ n.phase = i.phase
        /\ n.dry = i.dry /\ n.errors = i.errors /\ n.skipped = i.skipped
        /\ n.met = i.met /\ n.made = i.made /\ n.code = i.code
    BY DEF TaskOK, Formed, NoTask
  <2> HIDE DEF n
  <2>2. InKind(n) /\ MadeOK(n)
    BY <2>1 DEF TaskOK, InKind, MadeOK
  <2>3. n.phase # "idle" => AtRow(n) /\ DoneBefore(n)
    BY <2>1 DEF TaskOK, AtRow, DoneBefore
  <2>4. TaskOK(n)
    BY <2>1, <2>2, <2>3 DEF TaskOK
  <2> QED BY <2>4 DEF n
<1>3. \A x : TaskOK([j EXCEPT !.phase = "row", !.shown = x])
  <2> SUFFICES ASSUME NEW x PROVE TaskOK([j EXCEPT !.phase = "row", !.shown = x])
    OBVIOUS
  <2> DEFINE n == [j EXCEPT !.phase = "row", !.shown = x]
  <2>1. /\ Formed(n) /\ n.file = j.file /\ n.next = 1 /\ n.phase = "row" /\ n.dry = j.dry
        /\ n.met = 0 /\ n.made = {}
    BY DEF Formed, NoTask
  <2> HIDE DEF n
  <2>2. Len(Rows[n.file]) \in Nat
    BY <2>1, ImportsAssumption
  <2>3. TaskOK(n)
    BY <2>1, <2>2 DEF TaskOK, InKind, MadeOK, AtRow, DoneBefore
  <2> QED BY <2>3 DEF n
<1>4. ASSUME NEW v \in Importer PROVE TaskOK(task[v])'
  <2>1. PICK i : i = task'[v]
    OBVIOUS
  <2>2. TaskOK(i)
    <3>1. CASE v = w
      BY <2>1, <3>1, <1>3 DEF Begin
    <3>2. CASE v # w
      BY <2>1, <3>2, <1>2 DEF Begin, ImportsInv
    <3> QED BY <3>1, <3>2
  <2>3. TaskOK(i)'
    BY <1>1, <2>2, TaskRests DEF importTables, Families
  <2> QED BY <2>1, <2>3, TaskIs
<1>5. FromFiles' /\ OneAccountPerGuardian' /\ LoggedIsDone'
  BY <1>1, RestKeeps DEF importTables
<1> QED BY <1>1, <1>4, <1>5 DEF ImportsInv

\* A request ends, or is told to clear the session.
LEMMA FileEndKeeps ==
  ASSUME ImportsInv, NEW w \in Importer, NEW j, task' = [task EXCEPT ![w] = j], TaskOK(j),
         UNCHANGED <<importTables, raced>>, pending'.file \in File \cup {Nothing}, LoggedIsDone'
  PROVE  ImportsInv'
<1>1. Grown /\ DOMAIN task' = Importer
  BY DEF Grown, importTables, ImportsInv
<1>2. ASSUME NEW v \in Importer PROVE TaskOK(task[v])'
  <2>1. PICK i : i = task'[v]
    OBVIOUS
  <2>2. TaskOK(i)
    BY <2>1 DEF ImportsInv
  <2>3. TaskOK(i)'
    BY <1>1, <2>2, TaskRests DEF importTables, Families
  <2> QED BY <2>1, <2>3, TaskIs
<1>3. OneAccountPerGuardian' /\ FromFiles'
  <2>1. FromFiles'
    BY <1>1, StoredGrows DEF ImportsInv, FromFiles, importTables
  <2> QED BY <2>1 DEF ImportsInv, OneAccountPerGuardian, importTables
<1> QED BY <1>1, <1>2, <1>3 DEF ImportsInv

LEMMA RequestStepKeeps ==
  ASSUME ImportsInv, NEW w \in Importer, RequestStep(w)
  PROVE  ImportsInv'
<1>2. TaskOK(NoTask) /\ TaskOK(task[w])
  BY DEF ImportsInv, TaskOK, Formed, InKind, MadeOK, NoTask
<1>3. UNCHANGED <<importTables, log>> => LoggedIsDone'
  <2> SUFFICES ASSUME UNCHANGED <<importTables, log>> PROVE LoggedIsDone'
    OBVIOUS
  <2>1. Grown
    BY DEF Grown, importTables
  <2> QED BY <2>1, StoredGrows DEF ImportsInv, LoggedIsDone, Excused
<1>4. Stale.file \in File \cup {Nothing}
  BY DEF ImportsInv, Stale
<1>5. CASE \/ \E f \in File : Preview(w, f)
           \/ Confirm(w)
           \/ \E f \in File, dry, verbose \in {"yes", "no"} : Command(w, f, dry, verbose)
  <2>1. pending.file # Nothing => pending.file \in File
    BY DEF ImportsInv
  <2>2. CASE \E f \in File : Preview(w, f)
    <3>1. PICK f \in File : Preview(w, f)
      BY <2>2
    <3> DEFINE j == [NoTask EXCEPT !.file = f, !.dry = "yes", !.form = "yes", !.shown = 0]
    <3>2. /\ Formed(j) /\ j.file \in File /\ j.next = 1 /\ j.dry \in {"yes", "no"}
          /\ j.met = 0 /\ j.made = {}
      BY <3>1, <2>1 DEF Formed, NoTask
    <3>3. Begin(w, j, Stale)
      BY <3>1, <2>2 DEF Preview
    <3> HIDE DEF j
    <3> QED BY <1>4, <3>2, <3>3, BeginKeeps
  <2>3. CASE Confirm(w)
    <3>1. pending.file # Nothing
      BY <2>3 DEF Confirm
    <3> DEFINE j == [NoTask EXCEPT !.file = pending.file, !.form = "yes",
                            !.shown = pending.shown]
    <3>2. /\ Formed(j) /\ j.file \in File /\ j.next = 1 /\ j.dry \in {"yes", "no"}
          /\ j.met = 0 /\ j.made = {}
      BY <3>1, <2>1 DEF Formed, NoTask
    <3>3. Begin(w, j, Stale)
      BY <3>1, <2>3 DEF Confirm
    <3> HIDE DEF j
    <3> QED BY <1>4, <3>2, <3>3, BeginKeeps
  <2>4. CASE \E f \in File, dry, verbose \in {"yes", "no"} : Command(w, f, dry, verbose)
    <3>1. PICK f \in File, dry \in {"yes", "no"}, verbose \in {"yes", "no"} :
            Command(w, f, dry, verbose)
      BY <2>4
    <3> DEFINE j == [NoTask EXCEPT !.file = f, !.dry = dry, !.verbose = verbose]
    <3>2. /\ Formed(j) /\ j.file \in File /\ j.next = 1 /\ j.dry \in {"yes", "no"}
          /\ j.met = 0 /\ j.made = {}
      BY <3>1, <2>1 DEF Formed, NoTask
    <3>3. Begin(w, j, Stale)
      BY <3>1, <2>4 DEF Command
    <3> HIDE DEF j
    <3> QED BY <1>4, <3>2, <3>3, BeginKeeps
  <2> QED BY <1>5, <2>2, <2>3, <2>4
<1>6. CASE PreviewDone(w)
  <2>1. task[w].file \in File
    BY <1>2, <1>6 DEF PreviewDone, TaskOK, AtRow
  <2> QED BY <1>2, <1>3, <1>6, <2>1, FileEndKeeps DEF PreviewDone
<1>7. CASE CommandDone(w) \/ Die(w)
  BY <1>2, <1>3, <1>7, FileEndKeeps DEF CommandDone, Die, Go, ImportsInv
<1>8. CASE ClearSession(w)
  BY <1>2, <1>3, <1>8, FileEndKeeps DEF ClearSession, NoData, ImportsInv
<1>9. CASE WriteLog(w)
  <2>1. PICK o : o = task[w]
    OBVIOUS
  <2> DEFINE n == [o EXCEPT !.phase = "clear"]
             l == [file |-> o.file, created |-> o.created, skipped |-> o.skipped,
                   errors |-> o.errors, shown |-> o.shown]
  <2>2. /\ o.phase = "row" /\ o.dry = "no" /\ o.next \notin DOMAIN Rows[o.file]
        /\ log' = log \cup {l} /\ UNCHANGED <<importTables, pending, raced>>
        /\ task' = [task EXCEPT ![w] = IF o.form = "yes" THEN n ELSE NoTask]
    BY <1>9, <2>1 DEF WriteLog
  <2>3. TaskOK(o) /\ AtRow(o) /\ DoneBefore(o)
    BY <1>2, <2>1, <2>2 DEF TaskOK
  <2>4. TaskOK(n)
    <3>1. /\ Formed(n) /\ n.file = o.file /\ n.next = o.next /\ n.phase = "clear"
          /\ n.dry = o.dry /\ n.errors = o.errors /\ n.skipped = o.skipped
      BY <2>3 DEF TaskOK, Formed, NoTask
    <3> HIDE DEF n
    <3>2. InKind(n) /\ MadeOK(n)
      BY <2>2, <3>1 DEF InKind, MadeOK
    <3>3. AtRow(n) /\ DoneBefore(n)
      BY <2>3, <3>1 DEF AtRow, DoneBefore
    <3> QED BY <3>1, <3>2, <3>3 DEF TaskOK
  <2>5. \A i \in DOMAIN Rows[o.file] \ o.errors :
          Stored(Kind[o.file], Rows[o.file][i]) \/ (i \in o.skipped /\ Excused(o.file, i))
    <3>1. o.next = Len(Rows[o.file]) + 1 /\ DOMAIN Rows[o.file] = 1 .. o.next - 1
      <4>1. PICK m \in Nat : m = Len(Rows[o.file]) /\ DOMAIN Rows[o.file] = 1 .. m
        BY <2>3, ImportsAssumption DEF AtRow
      <4>2. o.next \in 1 .. m + 1 /\ o.next \notin 1 .. m
        BY <2>2, <2>3, <4>1 DEF AtRow
      <4> QED BY <4>1, <4>2
    <3> QED BY <2>2, <2>3, <3>1 DEF DoneBefore
  <2>6. LoggedIsDone'
    <3>1. Grown
      BY <2>2 DEF Grown, importTables
    <3>2. \A k \in log' : \A i \in DOMAIN Rows[k.file] \ k.errors :
            Stored(Kind[k.file], Rows[k.file][i]) \/ (i \in k.skipped /\ Excused(k.file, i))
      BY <2>2, <2>5 DEF ImportsInv, LoggedIsDone, Excused
    <3> QED BY <3>1, <3>2, StoredGrows DEF LoggedIsDone, Excused
  <2> QED BY <1>2, <2>2, <2>4, <2>6, FileEndKeeps DEF ImportsInv
<1> QED
  BY <1>5, <1>6, <1>7, <1>8, <1>9 DEF RequestStep

LEMMA ImportsStep == ImportsInv /\ [ImportsNext]_importsVars => ImportsInv'
<1> SUFFICES ASSUME ImportsInv, [ImportsNext]_importsVars PROVE ImportsInv'
  OBVIOUS
<1>1. CASE UNCHANGED importsVars
  <2>1. Grown /\ UNCHANGED <<task, pending, accounts, pupils, parents, raced, log>>
    BY <1>1 DEF importsVars, importTables, Grown
  <2>2. ASSUME NEW v \in Importer PROVE TaskOK(task[v])'
    <3>1. PICK i : i = task[v]
      OBVIOUS
    <3>2. TaskOK(i)'
      BY <2>1, <3>1, TaskRests DEF ImportsInv, Families
    <3> QED BY <2>1, <3>1, <3>2, TaskIs
  <2>3. FromFiles' /\ OneAccountPerGuardian' /\ LoggedIsDone'
    BY <2>1, RestKeeps
  <2> QED BY <2>1, <2>2, <2>3 DEF ImportsInv
<1>2. CASE ImportsNext
  <2>1. PICK w \in Importer : RequestStep(w) \/ RowStep(w)
    BY <1>2 DEF ImportsNext
  <2> QED BY <2>1, RequestStepKeeps, RowStepKeeps
<1> QED BY <1>1, <1>2

LEMMA ImportsStarts == ImportsInit => ImportsInv
<1> SUFFICES ASSUME ImportsInit PROVE ImportsInv
  OBVIOUS
<1>1. TaskOK(NoTask)
  BY DEF TaskOK, Formed, InKind, MadeOK, NoTask
<1>2. DOMAIN task = Importer /\ \A w \in Importer : TaskOK(task[w])
  BY <1>1 DEF ImportsInit
<1>3. /\ pending.file \in File \cup {Nothing} /\ FromFiles
      /\ OneAccountPerGuardian /\ LoggedIsDone
  BY DEF ImportsInit, NoData, FromFiles, OneAccountPerGuardian, LoggedIsDone
<1> QED BY <1>2, <1>3 DEF ImportsInv

\* What an import with a log did not report as an error is stored in full, also after
\* deaths, repetitions and imports that overlap; only a person whose user name others ask
\* for as well may have been skipped and be missing.
THEOREM LogsAreTrue == ImportsSpec => []LoggedIsDone
<1>1. ImportsInv => LoggedIsDone
  BY DEF ImportsInv
<1> QED BY <1>1, ImportsStarts, ImportsStep, PTL DEF ImportsSpec

\* Brothers and sisters share one account of each guardian, across rows, files and
\* repetitions, unless two transactions were making one at once.
THEOREM GuardiansHaveOneAccount == ImportsSpec => []OneAccountPerGuardian
<1>1. ImportsInv => OneAccountPerGuardian
  BY DEF ImportsInv
<1> QED BY <1>1, ImportsStarts, ImportsStep, PTL DEF ImportsSpec
-----------------------------------------------------------------------------
(* Previews *)

\* The database does not have what a row asks for, and the row is not in error.
Fresh(f, i) ==
  \/ Kind[f] = "classes" /\ Rows[f][i].key \notin classes
  \/ Kind[f] = "students" /\ Rows[f][i].key \notin Users
                          /\ Rows[f][i].class \in classes \cup {Nothing}
  \/ Kind[f] = "staff" /\ Rows[f][i].key \notin Users

FreshFrom(f, n) == {i \in DOMAIN Rows[f] : n <= i /\ Fresh(f, i)}
Left(f, n) == Cardinality(FreshFrom(f, n))

\* A preview, or a confirmation, that has met nobody.
Awaited(j) == j.phase # "idle" /\ j.shown # Unknown

\* What such a request has counted and what is left to count.
Foretold(j) ==
  Awaited(j) /\ Kind[j.file] # "subjects" =>
    /\ j.created \in Nat
    /\ j.dry = "yes" => j.created + Left(j.file, j.next) = Left(j.file, 1)
    /\ j.dry = "no" => /\ j.shown \in Nat
                       /\ j.created + Left(j.file, j.next) <= j.shown
                       /\ Plain(j.file) => j.created + Left(j.file, j.next) = j.shown
    /\ j.phase = "insert" => Fresh(j.file, j.next)

\* The session has the number of rows there are to create.
ShownRight == Kind[pending.file] # "subjects" => pending.shown = Left(pending.file, 1)

Undisturbed ==
  /\ \A v \in Importer : Awaited(task[v]) =>
       \A u \in Importer \ {v} : task[u].phase = "idle"
  /\ pending.shown # Unknown =>
       /\ \A u \in Importer : task[u].phase = "idle"
       /\ pending.file \in File
       /\ ShownRight

PreviewInv == /\ ImportsInv /\ Undisturbed /\ PreviewPredicts
              /\ \A v \in Importer : Foretold(task[v])

\* Rows to count are numbered and finite.
LEMMA LeftIsNumber ==
  ASSUME NEW f \in File, NEW n
  PROVE  IsFiniteSet(FreshFrom(f, n)) /\ Left(f, n) \in Nat
<1>1. PICK m \in Nat : DOMAIN Rows[f] = 1 .. m
  BY ImportsAssumption
<1>2. IsFiniteSet(1 .. m) /\ FreshFrom(f, n) \in SUBSET (1 .. m)
  BY <1>1, FS_Interval DEF FreshFrom
<1>3. IsFiniteSet(FreshFrom(f, n))
  BY <1>2, FS_Subset
<1> QED
  BY <1>3, FS_CardinalityType DEF Left

\* A row is counted if it is fresh.
LEMMA LeftAfter ==
  ASSUME NEW f \in File, NEW n \in DOMAIN Rows[f]
  PROVE  Left(f, n) = IF Fresh(f, n) THEN Left(f, n + 1) + 1 ELSE Left(f, n + 1)
<1>1. PICK m \in Nat : DOMAIN Rows[f] = 1 .. m
  BY ImportsAssumption
<1>2. IsFiniteSet(FreshFrom(f, n + 1)) /\ n \notin FreshFrom(f, n + 1)
  <2>1. IsFiniteSet(FreshFrom(f, n + 1))
    BY LeftIsNumber
  <2> QED
    BY <1>1, <2>1 DEF FreshFrom
<1>3. CASE Fresh(f, n)
  <2>1. FreshFrom(f, n) = FreshFrom(f, n + 1) \cup {n}
    BY <1>1, <1>3 DEF FreshFrom
  <2> QED
    BY <1>2, <1>3, <2>1, FS_AddElement DEF Left
<1>4. CASE ~ Fresh(f, n)
  <2>1. FreshFrom(f, n) = FreshFrom(f, n + 1)
    BY <1>1, <1>4 DEF FreshFrom
  <2> QED
    BY <1>4, <2>1 DEF Left
<1> QED
  BY <1>3, <1>4

LEMMA NothingLeft ==
  ASSUME NEW f \in File, NEW n \in 1 .. Len(Rows[f]) + 1, n \notin DOMAIN Rows[f]
  PROVE  Left(f, n) = 0
<1>1. PICK m \in Nat : m = Len(Rows[f]) /\ DOMAIN Rows[f] = 1 .. m
  BY ImportsAssumption
<1>2. FreshFrom(f, n) = {}
  BY <1>1 DEF FreshFrom
<1> QED
  BY <1>2, FS_EmptySet DEF Left

\* What is made makes nothing fresh.
LEMMA LeftShrinks ==
  ASSUME NEW f \in File, NEW n,
         \A i \in DOMAIN Rows[f] : Fresh(f, i)' => Fresh(f, i)
  PROVE  /\ Left(f, n)' \in Nat /\ Left(f, n)' <= Left(f, n)
         /\ (\A i \in DOMAIN Rows[f] : n <= i /\ Fresh(f, i) => Fresh(f, i)')
              => Left(f, n)' = Left(f, n)
<1>1. FreshFrom(f, n)' \in SUBSET FreshFrom(f, n)
  BY DEF FreshFrom
<1>2. /\ IsFiniteSet(FreshFrom(f, n)')
      /\ Cardinality(FreshFrom(f, n)') <= Cardinality(FreshFrom(f, n))
  BY <1>1, LeftIsNumber, FS_Subset
<1>3. Cardinality(FreshFrom(f, n)') \in Nat
  BY <1>2, FS_CardinalityType
<1>4. ASSUME \A i \in DOMAIN Rows[f] : n <= i /\ Fresh(f, i) => Fresh(f, i)'
      PROVE  FreshFrom(f, n)' = FreshFrom(f, n)
  BY <1>1, <1>4 DEF FreshFrom
<1> QED
  BY <1>2, <1>3, <1>4 DEF Left

\* A row of a preview or of its confirmation is counted as it was foretold.
LEMMA RowCounted ==
  ASSUME NEW o, Formed(o), o.file \in File, o.next \in DOMAIN Rows[o.file], o.phase # "idle",
         Foretold(o), o.dry \in {"yes", "no"},
         NEW j, j \in {Created(o), Skipped(o), Wrong(o)},
         Kind[o.file] # "subjects" /\ Awaited(o) =>
           \/ /\ j \in {Skipped(o), Wrong(o)} /\ ~ Fresh(o.file, o.next)
              /\ UNCHANGED importTables
           \/ /\ j = Created(o) /\ Fresh(o.file, o.next) /\ o.dry = "yes"
              /\ UNCHANGED importTables
           \/ /\ j = Created(o) /\ Fresh(o.file, o.next) /\ o.dry = "no"
              /\ \A i \in DOMAIN Rows[o.file] : Fresh(o.file, i)' => Fresh(o.file, i)
              /\ Plain(o.file) => \A i \in DOMAIN Rows[o.file] :
                   o.next + 1 <= i /\ Fresh(o.file, i) => Fresh(o.file, i)'
  PROVE  Foretold(j)'
<1> DEFINE f == o.file
           n == o.next
<1>1. /\ j.file = f /\ j.shown = o.shown /\ j.dry = o.dry /\ j.phase = "row"
      /\ j.next = n + 1
      /\ j = Created(o) => j.created = o.created + 1
      /\ j \in {Skipped(o), Wrong(o)} => j.created = o.created
  BY NextRow
<1> SUFFICES ASSUME Awaited(j), Kind[f] # "subjects"
             PROVE  /\ j.created \in Nat
                    /\ o.dry = "yes" => j.created + Left(f, n + 1)' = Left(f, 1)'
                    /\ o.dry = "no" =>
                         /\ o.shown \in Nat
                         /\ j.created + Left(f, n + 1)' <= o.shown
                         /\ Plain(f) => j.created + Left(f, n + 1)' = o.shown
  BY <1>1 DEF Foretold, Awaited, Plain
<1>2. /\ o.created \in Nat
      /\ o.dry = "yes" => o.created + Left(f, n) = Left(f, 1)
      /\ o.dry = "no" => /\ o.shown \in Nat
                         /\ o.created + Left(f, n) <= o.shown
                         /\ Plain(f) => o.created + Left(f, n) = o.shown
  BY <1>1 DEF Foretold, Awaited
<1>3. /\ Left(f, n) \in Nat /\ Left(f, n + 1) \in Nat /\ Left(f, 1) \in Nat
      /\ Left(f, n) = IF Fresh(f, n) THEN Left(f, n + 1) + 1 ELSE Left(f, n + 1)
  BY LeftIsNumber, LeftAfter
<1>4. UNCHANGED importTables => Left(f, n + 1)' = Left(f, n + 1) /\ Left(f, 1)' = Left(f, 1)
  BY DEF Left, FreshFrom, Fresh, Users, importTables
<1>5. CASE j \in {Skipped(o), Wrong(o)} /\ ~ Fresh(f, n) /\ UNCHANGED importTables
  BY <1>1, <1>2, <1>3, <1>4, <1>5
<1>6. CASE j = Created(o) /\ Fresh(f, n) /\ o.dry = "yes" /\ UNCHANGED importTables
  BY <1>1, <1>2, <1>3, <1>4, <1>6
<1>7. CASE /\ j = Created(o) /\ Fresh(f, n) /\ o.dry = "no"
           /\ \A i \in DOMAIN Rows[f] : Fresh(f, i)' => Fresh(f, i)
           /\ Plain(f) => \A i \in DOMAIN Rows[f] :
                n + 1 <= i /\ Fresh(f, i) => Fresh(f, i)'
  <2>1. /\ Left(f, n + 1)' \in Nat /\ Left(f, n + 1)' <= Left(f, n + 1)
        /\ Plain(f) => Left(f, n + 1)' = Left(f, n + 1)
    BY <1>7, LeftShrinks
  <2> QED
    BY <1>1, <1>2, <1>3, <1>7, <2>1
<1> QED
  BY <1>1, <1>5, <1>6, <1>7 DEF Awaited

\* What was foretold of a request that has entered a row.
LEMMA WithinForetold ==
  ASSUME NEW o, Formed(o), Foretold(o), o.phase # "idle", NEW j, Formed(j),
         j.file = o.file, j.next = o.next, j.created = o.created, j.shown = o.shown,
         j.dry = o.dry, UNCHANGED importTables,
         Awaited(o) /\ Kind[o.file] # "subjects" /\ j.phase = "insert"
           => Fresh(o.file, o.next)
  PROVE  Foretold(j)'
<1>1. /\ Left(o.file, o.next)' = Left(o.file, o.next)
      /\ Left(o.file, 1)' = Left(o.file, 1)
      /\ Fresh(o.file, o.next)' = Fresh(o.file, o.next)
  BY DEF Left, FreshFrom, Fresh, Users, importTables
<1> QED
  BY <1>1 DEF Foretold, Awaited, Plain

LEMMA ForetoldIs ==
  ASSUME NEW v, NEW i, task'[v] = i, Foretold(i)'
  PROVE  Foretold(task[v])'
<1>1. Awaited(task[v])' => Awaited(i)
  BY DEF Awaited
<1> QED
  BY <1>1 DEF Foretold, Left, FreshFrom, Fresh, Users, Plain

\* A request that is served disturbs no preview: the one it could disturb is alone.
LEMMA ServedForetold ==
  ASSUME PreviewInv, ImportsInv', NEW w \in Importer, task[w].phase # "idle",
         NEW j, task' = [task EXCEPT ![w] = j], Foretold(j)',
         j.phase = "idle" \/ j.shown = task[w].shown,
         pending' = pending \/ pending'.shown = Unknown, PreviewPredicts'
  PROVE  PreviewInv'
<1>1. /\ DOMAIN task = Importer /\ task'[w] = j
      /\ \A v \in Importer \ {w} : task'[v] = task[v]
  BY DEF PreviewInv, ImportsInv
<1>2. \A v \in Importer \ {w} : ~ Awaited(task[v])
  BY DEF PreviewInv, Undisturbed
<1>3. pending.shown = Unknown
  BY DEF PreviewInv, Undisturbed
<1>4. Undisturbed'
  <2>1. \A v \in Importer : Awaited(task'[v]) => v = w /\ Awaited(task[w])
    BY <1>1, <1>2 DEF Awaited
  <2>2. \A v \in Importer : Awaited(task'[v]) =>
          \A u \in Importer \ {v} : task'[u].phase = "idle"
    BY <1>1, <2>1 DEF PreviewInv, Undisturbed
  <2>3. pending'.shown = Unknown
    BY <1>3
  <2> QED
    BY <2>2, <2>3 DEF Undisturbed, Awaited
<1>5. ASSUME NEW v \in Importer PROVE Foretold(task[v])'
  <2>1. CASE v = w
    BY <1>1, <2>1, ForetoldIs
  <2>2. CASE v # w
    BY <1>1, <1>2, <2>2 DEF Foretold, Awaited
  <2> QED
    BY <2>1, <2>2
<1> QED
  BY <1>4, <1>5 DEF PreviewInv

\* Where a row leads to, foretold; nothing else about requests changes.
Served(w, j) ==
  /\ task' = [task EXCEPT ![w] = j] /\ Foretold(j)'
  /\ j.phase = "idle" \/ j.shown = task[w].shown
  /\ UNCHANGED <<pending, log>>

LEMMA RowForetold ==
  ASSUME PreviewInv, NEW w \in Importer, RowStep(w)
  PROVE  task[w].phase # "idle" /\ \E j : Served(w, j)
<1>1. PICK o : o = task[w]
  OBVIOUS
<1>2. TaskOK(o) /\ Foretold(o)
  <2>1. TaskOK(task[w]) /\ Foretold(task[w])
    BY DEF PreviewInv, ImportsInv
  <2> QED BY <1>1, <2>1
<1>3. Formed(o) /\ o.dry \in {"yes", "no"} /\ DOMAIN o = DOMAIN NoTask
  BY <1>2 DEF TaskOK, Formed, InKind
<1>4. o.phase # "idle" => o.file \in File
  BY <1>2 DEF TaskOK, AtRow
<1>5. o.phase = "insert" => o.dry = "no" /\ o.next \in DOMAIN Rows[o.file]
  BY <1>2, ImportsAssumption DEF TaskOK, InKind, AtRow
<1> DEFINE r == Rows[o.file][o.next]
           open == Fresh(o.file, o.next)
<1>6. ASSUME Go(w, NoTask) PROVE \E j : Served(w, j)
  <2>1. Foretold(NoTask)' /\ NoTask.phase = "idle"
    BY DEF Foretold, Awaited, NoTask
  <2> QED BY <1>6, <2>1 DEF Served, Go
<1>7. ASSUME NEW j, j \in {Created(o), Skipped(o), Wrong(o)}, Go(w, j), o.phase # "idle", o.next \in DOMAIN Rows[o.file],
             Kind[o.file] # "subjects" =>
               \/ j \in {Skipped(o), Wrong(o)} /\ ~ open /\ UNCHANGED importTables
               \/ j = Created(o) /\ open /\ o.dry = "yes" /\ UNCHANGED importTables
               \/ /\ j = Created(o) /\ (Awaited(o) => open) /\ o.dry = "no"
                  /\ \A i \in DOMAIN Rows[o.file] : Fresh(o.file, i)' => Fresh(o.file, i)
                  /\ Plain(o.file) => \A i \in DOMAIN Rows[o.file] :
                       o.next + 1 <= i /\ Fresh(o.file, i) => Fresh(o.file, i)'
      PROVE  \E k : Served(w, k)
  <2>1. Foretold(j)'
    BY <1>2, <1>3, <1>4, <1>7, RowCounted
  <2>2. j.shown = o.shown
    BY <1>3, <1>7, NextRow
  <2> QED BY <1>1, <1>7, <2>1, <2>2 DEF Served, Go
<1>8. ASSUME NEW j, Formed(j), j.file = o.file, j.next = o.next, j.created = o.created,
             j.shown = o.shown, j.dry = o.dry, UNCHANGED importTables, Go(w, j),
             o.phase # "idle",
             Awaited(o) /\ Kind[o.file] # "subjects" /\ j.phase = "insert" => open
      PROVE  \E k : Served(w, k)
  <2>1. Foretold(j)'
    BY <1>2, <1>3, <1>8, WithinForetold
  <2> QED BY <1>1, <1>8, <2>1 DEF Served, Go
<1>9. ASSUME NEW j,
             \/ j = [o EXCEPT !.phase = "insert"]
             \/ \E n : j = [o EXCEPT !.phase = "insert", !.number = n],
             o.phase = "row", UNCHANGED importTables, Go(w, j),
             Kind[o.file] # "subjects" => open
      PROVE  \E k : Served(w, k)
  <2>1. /\ Formed(j) /\ j.file = o.file /\ j.next = o.next /\ j.created = o.created
        /\ j.shown = o.shown /\ j.dry = o.dry
    BY <1>3, <1>9 DEF Formed, NoTask
  <2> QED BY <1>8, <1>9, <2>1
<1>10. ASSUME FindClass(w) PROVE o.phase # "idle" /\ \E j : Served(w, j)
  <2>1. /\ o.phase = "row" /\ Kind[o.file] = "classes" /\ o.next \in DOMAIN Rows[o.file]
        /\ UNCHANGED importTables
        /\ Go(w, IF r.key \in classes THEN Skipped(o)
                 ELSE IF o.dry = "no" THEN [o EXCEPT !.phase = "insert"]
                 ELSE IF o.verbose = "yes" THEN NoTask ELSE Created(o))
    BY <1>1, <1>10 DEF FindClass, At, RowOf
  <2>2. open <=> r.key \notin classes
    BY <2>1 DEF Fresh
  <2> QED BY <2>1, <2>2, <1>3, <1>6, <1>7, <1>9
<1>11. ASSUME InsertClass(w) PROVE o.phase # "idle" /\ \E j : Served(w, j)
  <2>1. /\ o.phase = "insert" /\ Kind[o.file] = "classes" /\ classes' = classes \cup {r.key}
        /\ Go(w, IF r.key \in classes \/ o.verbose = "yes" THEN NoTask ELSE Created(o))
    BY <1>1, <1>11 DEF InsertClass, RowOf
  <2>2. \A i : Fresh(o.file, i) <=> Rows[o.file][i].key \notin classes
    BY <2>1 DEF Fresh
  <2>3. \A i : Fresh(o.file, i)' <=> Rows[o.file][i].key \notin classes'
    BY <2>1 DEF Fresh
  <2>4. Plain(o.file) => \A i \in DOMAIN Rows[o.file] :
          o.next + 1 <= i /\ Fresh(o.file, i) => Fresh(o.file, i)'
    <3>1. o.next \in Nat /\ o.next \in DOMAIN Rows[o.file]
      BY <2>1, <1>5, <1>2, <1>4, ImportsAssumption DEF TaskOK, AtRow
    <3> QED BY <2>1, <2>2, <2>3, <3>1 DEF Plain
  <2>5. CASE Go(w, NoTask)
    BY <1>6, <2>1, <2>5
  <2>6. CASE Go(w, Created(o)) /\ r.key \notin classes
    <3>1. o.phase # "idle" /\ o.dry = "no" /\ o.next \in DOMAIN Rows[o.file] /\ open
      BY <1>5, <2>1, <2>2, <2>6
    <3>2. \A i \in DOMAIN Rows[o.file] : Fresh(o.file, i)' => Fresh(o.file, i)
      BY <2>1, <2>2, <2>3
    <3>3. \E j : Served(w, j)
      BY <1>7, <2>4, <2>6, <3>1, <3>2
    <3> QED BY <3>1, <3>3
  <2> QED BY <2>1, <2>5, <2>6
<1>12. ASSUME \/ FindSubject(w) \/ FindByName(w) \/ PickCode(w)
              \/ LinkSubject(w) \/ InsertSubject(w) \/ InsertLink(w)
       PROVE  o.phase # "idle" /\ \E j : Served(w, j)
  <2>1. Kind[o.file] = "subjects" /\ o.phase # "idle"
    BY <1>1, <1>2, <1>12 DEF FindSubject, FindByName, PickCode, LinkSubject, InsertSubject,
                             InsertLink, At, TaskOK, InKind
  <2>2. PICK j : /\ Go(w, j)
                 /\ \/ j \in {NoTask, Created(o), Skipped(o), Wrong(o)}
                    \/ \E p : j = [o EXCEPT !.phase = p]
                    \/ \E p, c : j = [o EXCEPT !.phase = p, !.code = c]
    <3>1. CASE FindSubject(w)
      <4>1. CASE \/ Go(w, Wrong(task[w]))
                 \/ \E p : Go(w, [task[w] EXCEPT !.phase = p])
        BY <1>1, <4>1
      <4>2. CASE \E s \in Coded(<<RowOf(w).code, 0>>) :
                   Go(w, [task[w] EXCEPT !.phase = "link", !.code = s.code])
        <5>1. PICK c : Go(w, [o EXCEPT !.phase = "link", !.code = c])
          BY <1>1, <4>2
        <5> QED BY <5>1
      <4> QED BY <3>1, <4>1, <4>2 DEF FindSubject
    <3>2. CASE FindByName(w)
      <4>1. CASE \E p : Go(w, [task[w] EXCEPT !.phase = p])
        BY <1>1, <4>1
      <4>2. CASE \E s \in Named(RowOf(w).key) :
                   Go(w, [task[w] EXCEPT !.phase = "link", !.code = s.code])
        <5>1. PICK c : Go(w, [o EXCEPT !.phase = "link", !.code = c])
          BY <1>1, <4>2
        <5> QED BY <5>1
      <4> QED BY <3>2, <4>1, <4>2 DEF FindByName
    <3>3. CASE PickCode(w)
      <4>1. PICK c : c = FirstFree(RowOf(w).code, {s.code : s \in subjects})
        OBVIOUS
      <4>2. Go(w, IF o.dry = "yes" THEN Created(o)
                  ELSE [o EXCEPT !.phase = "insert", !.code = c])
        BY <1>1, <3>3, <4>1 DEF PickCode
      <4> QED BY <4>2
    <3>4. CASE LinkSubject(w) \/ InsertSubject(w) \/ InsertLink(w)
      BY <1>1, <3>4 DEF LinkSubject, InsertSubject, InsertLink
    <3> QED BY <1>12, <3>1, <3>2, <3>3, <3>4
  <2>3. j = NoTask \/ (j.file = o.file /\ j.shown = o.shown)
    <3>1. CASE j \in {Created(o), Skipped(o), Wrong(o)}
      BY <1>3, <3>1, NextRow
    <3>2. CASE \/ \E p : j = [o EXCEPT !.phase = p]
               \/ \E p, c : j = [o EXCEPT !.phase = p, !.code = c]
      BY <1>3, <3>2 DEF NoTask
    <3> QED BY <2>2, <3>1, <3>2
  <2>4. Foretold(j)'
    BY <2>1, <2>3 DEF Foretold, Awaited, NoTask
  <2>5. j.phase = "idle" \/ j.shown = task[w].shown
    BY <1>1, <2>3 DEF NoTask
  <2> QED BY <2>1, <2>2, <2>4, <2>5 DEF Served, Go
<1>13. ASSUME FindStudent(w) PROVE o.phase # "idle" /\ \E j : Served(w, j)
  <2>1. /\ o.phase = "row" /\ Kind[o.file] = "students" /\ o.next \in DOMAIN Rows[o.file]
        /\ UNCHANGED importTables
        /\ Go(w, IF r.key \in Users THEN Skipped(o)
                 ELSE IF r.class \notin classes \cup {Nothing} THEN Wrong(o)
                 ELSE IF o.dry = "yes" THEN Created(o)
                 ELSE [o EXCEPT !.phase = "insert", !.number = NextNumber(r.class)])
    BY <1>1, <1>13 DEF FindStudent, At, RowOf
  <2>2. open <=> r.key \notin Users /\ r.class \in classes \cup {Nothing}
    BY <2>1 DEF Fresh
  <2> QED BY <2>1, <2>2, <1>3, <1>7, <1>9
<1>14. ASSUME FindParent(w) PROVE o.phase # "idle" /\ \E j : Served(w, j)
  <2>1. PICK x, y : LET j == [o EXCEPT !.met = x, !.made = y] IN
          /\ o.phase = "insert" /\ Kind[o.file] = "students" /\ Go(w, j)
          /\ UNCHANGED importTables
    <3>1. PICK x, y : /\ x = o.met + 1
                      /\ y = IF Guardian(w) \in Families(parents \cup o.made) THEN o.made
                             ELSE o.made \cup {NewParent(w)}
      OBVIOUS
    <3>2. task[w].met = o.met /\ task[w].made = o.made
      BY <1>1
    <3>3. Go(w, [o EXCEPT !.met = x, !.made = y])
      BY <1>1, <1>3, <1>14, <3>1, <3>2 DEF FindParent
    <3> QED BY <1>1, <1>14, <3>3 DEF FindParent, AtGuardian
  <2> DEFINE j == [o EXCEPT !.met = x, !.made = y]
  <2>2. /\ Formed(j) /\ j.file = o.file /\ j.next = o.next /\ j.created = o.created
        /\ j.shown = o.shown /\ j.dry = o.dry
    BY <1>3 DEF Formed, NoTask
  <2>3. Awaited(o) => open
    BY <1>2, <2>1 DEF Foretold
  <2>4. Go(w, j)
    BY <2>1
  <2> HIDE DEF j
  <2> QED BY <1>8, <2>1, <2>2, <2>3, <2>4
<1>15. ASSUME CommitStudent(w) PROVE o.phase # "idle" /\ \E j : Served(w, j)
  <2>1. o.phase = "insert" /\ Kind[o.file] = "students"
    BY <1>1, <1>15 DEF CommitStudent, AtEnd
  <2>2. CASE Go(w, NoTask)
    BY <1>6, <2>1, <2>2
  <2>3. CASE /\ Go(w, Created(o)) /\ UNCHANGED <<classes, accounts>>
             /\ pupils' = pupils \cup {NewPupil(w)} /\ parents' = parents \cup o.made
    <3>1. Users' = Users \cup {r.key} \cup {a.user : a \in o.made}
      <4>1. PICK p : p = NewPupil(w)
        OBVIOUS
      <4>2. p.user = r.key
        BY <1>1, <4>1 DEF NewPupil, RowOf
      <4>3. pupils' = pupils \cup {p}
        BY <2>3, <4>1
      <4> QED BY <2>3, <4>2, <4>3 DEF Users
    <3>2. /\ \A i : Fresh(o.file, i) <=> /\ Rows[o.file][i].key \notin Users
                                         /\ Rows[o.file][i].class \in classes \cup {Nothing}
          /\ \A i : Fresh(o.file, i)' <=> /\ Rows[o.file][i].key \notin Users'
                                          /\ Rows[o.file][i].class \in classes \cup {Nothing}
      BY <2>1, <2>3 DEF Fresh
    <3>3. Plain(o.file) => \A i \in DOMAIN Rows[o.file] :
            o.next + 1 <= i /\ Fresh(o.file, i) => Fresh(o.file, i)'
      <4> SUFFICES ASSUME Plain(o.file), NEW i \in DOMAIN Rows[o.file], o.next + 1 <= i,
                          Fresh(o.file, i)
                   PROVE  Fresh(o.file, i)'
        OBVIOUS
      <4>1. o.next \in Nat /\ o.next \in DOMAIN Rows[o.file] /\ i \in Nat
        BY <2>1, <1>5, <1>2, <1>4, ImportsAssumption DEF TaskOK, AtRow
      <4>2. Rows[o.file][i].key # r.key
        BY <4>1 DEF Plain
      <4>3. \A a \in o.made : a.family \in Guardians(r) /\ a.user[1] = Login[a.family]
        BY <1>2, <2>1 DEF TaskOK, MadeOK
      <4>4. \A a \in o.made : a.user # Rows[o.file][i].key
        BY <4>1, <4>3 DEF Plain
      <4> QED BY <3>1, <3>2, <4>2, <4>4
    <3>4. Awaited(o) => open
      BY <1>2, <2>1 DEF Foretold
    <3>5. o.dry = "no" /\ o.next \in DOMAIN Rows[o.file]
      BY <1>5, <2>1
    <3>6. \A i \in DOMAIN Rows[o.file] : Fresh(o.file, i)' => Fresh(o.file, i)
      BY <3>1, <3>2
    <3>7. \E j : Served(w, j)
      BY <1>7, <2>1, <2>3, <3>3, <3>4, <3>5, <3>6
    <3> QED BY <2>1, <3>7
  <2> QED
    BY <1>1, <1>15, <2>2, <2>3 DEF CommitStudent
<1>16. ASSUME FindStaff(w) PROVE o.phase # "idle" /\ \E j : Served(w, j)
  <2>1. /\ o.phase = "row" /\ Kind[o.file] = "staff" /\ o.next \in DOMAIN Rows[o.file]
        /\ UNCHANGED importTables
        /\ Go(w, IF r.key \in Users THEN Skipped(o)
                 ELSE IF o.dry = "yes" THEN Created(o)
                 ELSE [o EXCEPT !.phase = "insert"])
    BY <1>1, <1>16 DEF FindStaff, At, RowOf
  <2>2. open <=> r.key \notin Users
    BY <2>1 DEF Fresh
  <2> QED BY <2>1, <2>2, <1>3, <1>7, <1>9
<1>17. ASSUME InsertStaff(w) PROVE o.phase # "idle" /\ \E j : Served(w, j)
  <2>1. /\ o.phase = "insert" /\ Kind[o.file] = "staff" /\ UNCHANGED <<pupils, parents>>
        /\ accounts' = IF r.key \in Users THEN accounts ELSE accounts \cup {r.key}
        /\ Go(w, IF r.key \in Users THEN NoTask ELSE Created(o))
    BY <1>1, <1>17 DEF InsertStaff, RowOf
  <2>2. Users' = Users \cup {r.key}
    BY <2>1 DEF Users
  <2>3. /\ \A i : Fresh(o.file, i) <=> Rows[o.file][i].key \notin Users
        /\ \A i : Fresh(o.file, i)' <=> Rows[o.file][i].key \notin Users'
    BY <2>1 DEF Fresh
  <2>4. Plain(o.file) => \A i \in DOMAIN Rows[o.file] :
          o.next + 1 <= i /\ Fresh(o.file, i) => Fresh(o.file, i)'
    <3>1. o.next \in Nat /\ o.next \in DOMAIN Rows[o.file]
      BY <2>1, <1>5, <1>2, <1>4, ImportsAssumption DEF TaskOK, AtRow
    <3> QED BY <2>2, <2>3, <3>1 DEF Plain
  <2>5. CASE Go(w, NoTask)
    BY <1>6, <2>1, <2>5
  <2>6. CASE Go(w, Created(o)) /\ r.key \notin Users
    <3>1. o.phase # "idle" /\ o.dry = "no" /\ o.next \in DOMAIN Rows[o.file] /\ open
      BY <1>5, <2>1, <2>3, <2>6
    <3>2. \A i \in DOMAIN Rows[o.file] : Fresh(o.file, i)' => Fresh(o.file, i)
      BY <2>1, <2>2, <2>3
    <3>3. \E j : Served(w, j)
      BY <1>7, <2>4, <2>6, <3>1, <3>2
    <3> QED BY <3>1, <3>3
  <2> QED BY <2>1, <2>5, <2>6
<1> QED
  BY <1>1, <1>10, <1>11, <1>12, <1>13, <1>14, <1>15, <1>16, <1>17 DEF RowStep

\* A request that comes in meets nobody, or is not awaited.
LEMMA BeginForetold ==
  ASSUME PreviewInv, ImportsInv', NEW w \in Importer, NEW j, Begin(w, j, Stale),
         Formed(j), j.file \in File, j.next = 1, j.created = 0,
         \/ j.shown = Unknown
         \/ j.shown = 0 /\ j.dry = "yes"
         \/ j.shown = pending.shown /\ j.file = pending.file /\ j.dry = "no"
  PROVE  PreviewInv'
<1>1. UNCHANGED <<importTables, log>> /\ pending'.shown = Unknown
  BY DEF Begin, Stale
<1>2. PICK i : i = task'[w]
  OBVIOUS
<1>3. /\ \A v \in Importer \ {w} : Awaited(task'[v]) = FALSE
      /\ i.phase = "row" /\ i.file = j.file /\ i.next = 1 /\ i.created = 0 /\ i.dry = j.dry
      /\ \/ i.shown = Unknown
         \/ i.shown = j.shown /\ \A v \in Importer : task[v].phase = "idle"
  <2>1. \A k : TaskOK(k) => Awaited([k EXCEPT !.shown = Unknown]) = FALSE
    BY DEF TaskOK, Formed, Awaited, NoTask
  <2>2. \A v \in Importer \ {w} : TaskOK(task[v])
                                  /\ task'[v] = [task[v] EXCEPT !.shown = Unknown]
    BY DEF Begin, PreviewInv, ImportsInv
  <2>3. \A v \in Importer \ {w} : Awaited(task'[v]) = FALSE
    BY <2>1, <2>2
  <2>4. \E x : /\ i = [j EXCEPT !.phase = "row", !.shown = x]
               /\ \/ x = Unknown
                  \/ x = j.shown /\ \A v \in Importer : task[v].phase = "idle"
    BY <1>2 DEF Begin, Formed, NoTask
  <2> QED
    BY <2>3, <2>4 DEF Formed, NoTask
<1>4. Left(j.file, 1) \in Nat /\ Left(j.file, 1)' = Left(j.file, 1)
  BY <1>1, LeftIsNumber DEF Left, FreshFrom, Fresh, Users, importTables
<1>5. Foretold(i)'
  <2>1. CASE i.shown = Unknown
    BY <2>1 DEF Foretold, Awaited
  <2>2. CASE j.shown = 0 /\ j.dry = "yes"
    BY <1>3, <1>4, <2>2 DEF Foretold
  <2>3. CASE i.shown # Unknown /\ j.shown = pending.shown /\ j.file = pending.file
             /\ j.dry = "no"
    <3>1. Kind[j.file] # "subjects" => j.shown = Left(j.file, 1)
      BY <1>3, <2>3 DEF PreviewInv, Undisturbed, ShownRight
    <3> QED
      BY <1>3, <1>4, <2>3, <3>1 DEF Foretold, Plain
  <2> QED
    BY <1>3, <2>1, <2>2, <2>3
<1>6. ASSUME NEW v \in Importer PROVE Foretold(task[v])'
  <2>1. CASE v = w
    BY <1>2, <1>5, <2>1, ForetoldIs
  <2>2. CASE v # w
    BY <1>3, <2>2 DEF Foretold, Awaited
  <2> QED BY <2>1, <2>2
<1>7. Undisturbed'
  <2>1. \A v \in Importer : Awaited(task'[v]) =>
          \A u \in Importer \ {v} : task'[u].phase = "idle"
    <3> SUFFICES ASSUME Awaited(task'[w]), NEW u \in Importer \ {w}
                 PROVE  task'[u].phase = "idle"
      BY <1>3
    <3>1. task[u].phase = "idle"
      BY <1>2, <1>3 DEF Awaited
    <3>2. TaskOK(task[u]) /\ task'[u] = [task[u] EXCEPT !.shown = Unknown]
      BY DEF Begin, PreviewInv, ImportsInv
    <3> QED BY <3>1, <3>2 DEF TaskOK, Formed, NoTask
  <2> QED BY <1>1, <2>1 DEF Undisturbed, Awaited
<1>8. PreviewPredicts'
  BY <1>1 DEF PreviewInv, PreviewPredicts, Plain
<1> QED BY <1>6, <1>7, <1>8 DEF PreviewInv

\* A preview that ends leaves its number with the file.
LEMMA PreviewDoneForetold ==
  ASSUME PreviewInv, ImportsInv', NEW w \in Importer, PreviewDone(w)
  PROVE  PreviewInv'
<1>1. PICK o : o = task[w]
  OBVIOUS
<1>2. /\ o.phase = "row" /\ o.dry = "yes" /\ o.next \notin DOMAIN Rows[o.file]
      /\ pending' = [file |-> o.file,
                     shown |-> IF o.shown = Unknown THEN Unknown ELSE o.created]
      /\ task' = [task EXCEPT ![w] = NoTask] /\ UNCHANGED <<importTables, log>>
  BY <1>1 DEF PreviewDone
<1>3. TaskOK(o) /\ Foretold(o)
  <2>1. TaskOK(task[w]) /\ Foretold(task[w])
    BY DEF PreviewInv, ImportsInv
  <2> QED BY <1>1, <2>1
<1>4. o.file \in File /\ o.next \in 1 .. Len(Rows[o.file]) + 1
  BY <1>2, <1>3 DEF TaskOK, AtRow
<1>5. Left(o.file, o.next) = 0 /\ Left(o.file, 1) \in Nat
      /\ Left(o.file, 1)' = Left(o.file, 1)
  BY <1>2, <1>4, NothingLeft, LeftIsNumber
     DEF Left, FreshFrom, Fresh, Users, importTables
<1>6. /\ task'[w].phase = "idle"
      /\ \A v \in Importer \ {w} : task'[v] = task[v]
  BY <1>2 DEF PreviewInv, ImportsInv, NoTask
<1>7. \A v \in Importer \ {w} : ~ Awaited(task[v])
  BY <1>1, <1>2 DEF PreviewInv, Undisturbed
<1>8. Undisturbed'
  <2>1. \A v \in Importer : ~ Awaited(task'[v])
    BY <1>6, <1>7 DEF Awaited
  <2>2. ASSUME pending'.shown # Unknown
        PROVE  /\ \A u \in Importer : task'[u].phase = "idle"
               /\ pending'.file \in File
               /\ ShownRight'
    <3>1. o.shown # Unknown /\ pending'.file = o.file /\ pending'.shown = o.created
      BY <1>2, <2>2
    <3>2. Awaited(o)
      BY <1>2, <3>1 DEF Awaited
    <3>3. \A u \in Importer \ {w} : task[u].phase = "idle"
      BY <1>1, <3>2 DEF PreviewInv, Undisturbed
    <3>4. Kind[o.file] # "subjects" => o.created = Left(o.file, 1)
      BY <1>2, <1>3, <1>5, <3>2 DEF Foretold
    <3>5. ShownRight'
      BY <1>5, <3>1, <3>4 DEF ShownRight, Left, FreshFrom, Fresh, Users
    <3> QED BY <1>4, <1>6, <3>1, <3>3, <3>5
  <2> QED BY <2>1, <2>2 DEF Undisturbed, Awaited
<1>9. \A v \in Importer : Foretold(task[v])'
  BY <1>6, <1>7 DEF Foretold, Awaited
<1>10. PreviewPredicts'
  BY <1>2 DEF PreviewInv, PreviewPredicts, Plain
<1> QED BY <1>8, <1>9, <1>10 DEF PreviewInv

\* At the end of the file nothing is left: what was created is what was shown.
LEMMA LogForetold ==
  ASSUME PreviewInv, ImportsInv', NEW w \in Importer, WriteLog(w)
  PROVE  PreviewInv'
<1>1. PICK o : o = task[w]
  OBVIOUS
<1> DEFINE l == [file |-> o.file, created |-> o.created, skipped |-> o.skipped,
                 errors |-> o.errors, shown |-> o.shown]
           n == [o EXCEPT !.phase = "clear"]
           j == IF o.form = "yes" THEN n ELSE NoTask
<1>2. /\ o.phase = "row" /\ o.dry = "no" /\ o.next \notin DOMAIN Rows[o.file]
      /\ log' = log \cup {l} /\ UNCHANGED <<importTables, pending>>
      /\ task' = [task EXCEPT ![w] = j]
  BY <1>1 DEF WriteLog
<1>3. TaskOK(o) /\ Foretold(o)
  <2>1. TaskOK(task[w]) /\ Foretold(task[w])
    BY DEF PreviewInv, ImportsInv
  <2> QED BY <1>1, <2>1
<1>4. o.file \in File /\ o.next \in 1 .. Len(Rows[o.file]) + 1 /\ Formed(o)
  BY <1>2, <1>3 DEF TaskOK, AtRow
<1>5. Left(o.file, o.next) = 0
  BY <1>2, <1>4, NothingLeft
<1>6. PreviewPredicts'
  <2>1. o.shown # Unknown /\ Kind[o.file] # "subjects" =>
          o.created <= o.shown /\ (Plain(o.file) => o.created = o.shown)
    BY <1>2, <1>3, <1>5 DEF Foretold, Awaited
  <2> QED BY <1>2, <2>1 DEF PreviewInv, PreviewPredicts, Plain
<1>7. Foretold(j)' /\ (j.phase = "idle" \/ j.shown = o.shown)
  <2>1. CASE o.form = "yes"
    <3>1. /\ Formed(n) /\ n.file = o.file /\ n.next = o.next /\ n.created = o.created
          /\ n.shown = o.shown /\ n.dry = o.dry /\ n.phase = "clear"
      BY <1>4 DEF Formed, NoTask
    <3> HIDE DEF n
    <3>2. Foretold(n)'
      BY <1>2, <1>3, <1>4, <3>1, WithinForetold
    <3>3. j = n
      BY <2>1
    <3> HIDE DEF j
    <3> QED BY <3>1, <3>2, <3>3
  <2>2. CASE o.form # "yes"
    BY <2>2 DEF Foretold, Awaited, NoTask
  <2> QED BY <2>1, <2>2
<1> HIDE DEF j
<1> QED BY <1>1, <1>2, <1>6, <1>7, ServedForetold

LEMMA EndForetold ==
  ASSUME PreviewInv, ImportsInv', NEW w \in Importer,
         CommandDone(w) \/ ClearSession(w) \/ Die(w)
  PROVE  PreviewInv'
<1>1. /\ task[w].phase # "idle" /\ task' = [task EXCEPT ![w] = NoTask]
      /\ pending' = pending \/ pending' = NoData
      /\ UNCHANGED log
  BY DEF CommandDone, ClearSession, Die, Go
<1>2. Foretold(NoTask)' /\ NoTask.phase = "idle" /\ NoData.shown = Unknown
  BY DEF Foretold, Awaited, NoTask, NoData
<1>3. PreviewPredicts'
  BY <1>1 DEF PreviewInv, PreviewPredicts, Plain
<1> QED BY <1>1, <1>2, <1>3, ServedForetold

LEMMA RequestForetold ==
  ASSUME PreviewInv, ImportsInv', NEW w \in Importer, RequestStep(w)
  PROVE  PreviewInv'
<1>1. ASSUME NEW f \in File, Preview(w, f) PROVE PreviewInv'
  <2> DEFINE j == [NoTask EXCEPT !.file = f, !.dry = "yes", !.form = "yes", !.shown = 0]
  <2>1. /\ Formed(j) /\ j.file = f /\ j.next = 1 /\ j.created = 0 /\ j.shown = 0
        /\ j.dry = "yes"
    BY DEF Formed, NoTask
  <2>2. Begin(w, j, Stale)
    BY <1>1 DEF Preview
  <2> HIDE DEF j
  <2> QED BY <2>1, <2>2, BeginForetold
<1>2. CASE Confirm(w)
  <2> DEFINE j == [NoTask EXCEPT !.file = pending.file, !.form = "yes",
                                 !.shown = pending.shown]
  <2>1. /\ Formed(j) /\ j.file = pending.file /\ j.next = 1 /\ j.created = 0
        /\ j.shown = pending.shown /\ j.dry = "no"
    BY DEF Formed, NoTask
  <2>2. Begin(w, j, Stale) /\ pending.file \in File
    BY <1>2 DEF Confirm, PreviewInv, ImportsInv
  <2> HIDE DEF j
  <2> QED BY <2>1, <2>2, BeginForetold
<1>3. ASSUME NEW f \in File, NEW dry, NEW verbose, Command(w, f, dry, verbose)
      PROVE  PreviewInv'
  <2> DEFINE j == [NoTask EXCEPT !.file = f, !.dry = dry, !.verbose = verbose]
  <2>1. Formed(j) /\ j.file = f /\ j.next = 1 /\ j.created = 0 /\ j.shown = Unknown
    BY DEF Formed, NoTask
  <2>2. Begin(w, j, Stale)
    BY <1>3 DEF Command
  <2> HIDE DEF j
  <2> QED BY <2>1, <2>2, BeginForetold
<1> QED
  BY <1>1, <1>2, <1>3, PreviewDoneForetold, LogForetold, EndForetold DEF RequestStep

LEMMA PreviewStep == PreviewInv /\ [ImportsNext]_importsVars => PreviewInv'
<1> SUFFICES ASSUME PreviewInv, [ImportsNext]_importsVars PROVE PreviewInv'
  OBVIOUS
<1>1. ImportsInv'
  BY ImportsStep DEF PreviewInv
<1>2. ASSUME NEW w \in Importer, RowStep(w) PROVE PreviewInv'
  <2>1. PICK j : Served(w, j)
    BY <1>2, RowForetold
  <2>2. PreviewPredicts'
    BY <2>1 DEF Served, PreviewInv, PreviewPredicts, Plain
  <2>3. task[w].phase # "idle"
    BY <1>2, RowForetold
  <2> QED BY <1>1, <2>1, <2>2, <2>3, ServedForetold DEF Served
<1>3. CASE UNCHANGED importsVars
  <2>1. UNCHANGED <<importTables, task, pending, log>>
    BY <1>3 DEF importsVars
  <2>2. Undisturbed' /\ PreviewPredicts'
    BY <2>1 DEF PreviewInv, Undisturbed, ShownRight, PreviewPredicts, Awaited, Left, FreshFrom,
                Fresh, Users, Plain, importTables
  <2>3. ASSUME NEW v \in Importer PROVE Foretold(task[v])'
    <3>1. Foretold(task[v])
      BY DEF PreviewInv
    <3> QED BY <2>1, <3>1 DEF Foretold, Awaited, Left, FreshFrom, Fresh, Users, Plain,
                              importTables
  <2> QED BY <1>1, <2>2, <2>3 DEF PreviewInv
<1> QED
  BY <1>1, <1>2, <1>3, RequestForetold DEF ImportsNext

\* What a preview announces is what its confirmation creates, for any files of classes,
\* students or staff, unless another request comes in between.
THEOREM PreviewsAreRight == ImportsSpec => []PreviewPredicts
<1>1. ImportsInit => PreviewInv
  <2>1. ImportsInit => Undisturbed /\ PreviewPredicts /\ \A v \in Importer : Foretold(task[v])
    BY DEF ImportsInit, Undisturbed, PreviewPredicts, Foretold, Awaited, NoTask, NoData
  <2> QED BY <2>1, ImportsStarts DEF PreviewInv
<1>2. PreviewInv => PreviewPredicts
  BY DEF PreviewInv
<1> QED BY <1>1, <1>2, PreviewStep, PTL DEF ImportsSpec
=============================================================================
