------------------------------ MODULE Accounts ------------------------------
(***************************************************************************)
(* The accounts of staff, students and guardians: how a password comes to  *)
(* be, who must change it, the credential slips in the administrators'     *)
(* session, and whom the school calls first (school_admin/views/staff.py,  *)
(* students.py, credentials.py, accounts/views.py, middleware.py, admin.py,*)
(* students/views.py, utils.py, admin.py).                                 *)
(*                                                                         *)
(* A request reads the session and an account, and later writes the        *)
(* account, whole or a few columns of it; what it put into the session is  *)
(* written whole when it ends. A password is the number of the request     *)
(* that made it.                                                           *)
(* Not modelled: names and addresses, log-ins, changes of role, the slip   *)
(* left in the session of a student whose creation was undone, and the     *)
(* sessions of several administrators.                                     *)
(***************************************************************************)
EXTENDS Integers, FiniteSets

CONSTANTS
  Staff, Pupil, Parent, \* accounts by role
  Worker,               \* requests in flight
  MaxRequests,          \* bound on the requests
  MaxCrashes,           \* bound on the requests that die half-way
  Nobody                \* no student

User == Staff \cup Pupil \cup Parent

ASSUME AccountsAssumption ==
  /\ IsFiniteSet(User) /\ IsFiniteSet(Worker)
  /\ Staff \cap Pupil = {} /\ Staff \cap Parent = {} /\ Pupil \cap Parent = {}
  /\ Nobody \notin User
  /\ MaxRequests \in Nat /\ MaxCrashes \in Nat

VARIABLES
  account, \* User
  slips,   \* credential_slip_<pk> in the session; 0 when there is none
  link,    \* StudentGuardianLink, and whether it is the primary contact
  job,     \* where each request stands
  started, \* how many requests were made
  crashes, \* how many of them died
  made,    \* history: the generated passwords that came with must_change_password
  fresh,   \* history: accounts whose last slip no other request has got in the way of
  mixed    \* history: students whose guardians two requests were on at once, or whom the
           \* admin site gave another primary contact, until one is made primary alone

tables == <<account, slips, link>>
counts == <<started, crashes>>
history == <<made, fresh, mixed>>
vars == <<tables, job, counts, history>>

-----------------------------------------------------------------------------
Unusable == 0 \* create_user without a password

NoAccount == [there |-> "no", password |-> Unusable, raw |-> "no", must |-> "no",
              active |-> "yes"]

AccountRow == [there : {"yes", "no"}, password : 0 .. MaxRequests, raw : {"yes", "no"},
               must : {"yes", "no"}, active : {"yes", "no"}]

NoJob == [phase |-> "idle", user |-> {}, copy |-> {}, token |-> 0, session |-> {},
          drop |-> "no", pupil |-> Nobody, tie |-> "none", seen |-> {}, alone |-> "yes"]

AccountsTypeOK ==
  /\ account \in [User -> AccountRow]
  /\ slips \in [User -> 0 .. MaxRequests]
  /\ link \in [Pupil \X Parent -> {"none", "link", "primary"}]
  /\ started \in 0 .. MaxRequests /\ crashes \in 0 .. MaxCrashes
  /\ made \subseteq User \X (1 .. MaxRequests) /\ fresh \subseteq User /\ mixed \subseteq Pupil

Init ==
  /\ account = [u \in User |-> NoAccount]
  /\ slips = [u \in User |-> 0]
  /\ link = [e \in Pupil \X Parent |-> "none"]
  /\ job = [w \in Worker |-> NoJob]
  /\ started = 0 /\ crashes = 0
  /\ made = {} /\ fresh = {} /\ mixed = {}

There(u) == account[u].there = "yes"

Row(password, must) == [NoAccount EXCEPT !.there = "yes", !.password = password,
                                         !.must = must]

Count == started < MaxRequests /\ started' = started + 1 /\ UNCHANGED crashes

\* Requests on one account, on the guardians of one student, or on the session.
Meet(j, k) ==
  \/ j.user \cap k.user # {}
  \/ j.pupil = k.pupil /\ j.pupil # Nobody
  \/ j.session # {} /\ k.session # {}

\* Requests that meet are not alone.
Enter(w, j) ==
  LET met == {v \in Worker \ {w} : job[v].phase # "idle" /\ Meet(j, job[v])} IN
  /\ job[w].phase = "idle" /\ Count
  /\ job' = [v \in Worker |->
       IF v = w THEN IF met = {} THEN j ELSE [j EXCEPT !.alone = "no"]
       ELSE IF v \in met THEN [job[v] EXCEPT !.alone = "no"] ELSE job[v]]

\* One statement of another request, where those of V are at work.
Disturb(V) ==
  job' = [v \in Worker |-> IF v \in V THEN [job[v] EXCEPT !.alone = "no"] ELSE job[v]]

On(u) == {v \in Worker : u \in job[v].user}
About(s) == {v \in Worker : job[v].pupil = s}

\* A request reads what it will write; the session, when it will write slips.
Open(w, phase, U, slipped, drop) ==
  LET j == [NoJob EXCEPT !.phase = phase, !.user = U, !.token = started + 1,
                         !.copy = {[u \in U |-> account[u]]}, !.drop = drop,
                         !.session = IF slipped = {} THEN {} ELSE {slips}]
  IN  Enter(w, j) /\ UNCHANGED <<tables, history>>

\* The accounts are written; slips of them are not what opens them any more.
Write(w, rows) ==
  /\ account' = [u \in User |-> IF u \in DOMAIN rows THEN rows[u] ELSE account[u]]
  /\ fresh' = fresh \ DOMAIN rows

\* The end of a request, or its slips for U.
Close(w, U) ==
  job' = [job EXCEPT ![w] = IF U = {} THEN NoJob
                            ELSE [@ EXCEPT !.phase = "session", !.user = U, !.copy = {}]]

\* ... the session is written whole; reset and batch have dropped the older slips.
WriteSession(w) ==
  LET j == job[w] IN
  /\ j.phase = "session"
  /\ \E old \in j.session :
       slips' = [u \in User |-> IF u \in j.user THEN j.token
                                ELSE IF j.drop = "yes" THEN 0 ELSE old[u]]
  /\ fresh' = IF j.alone = "no" THEN {}
              ELSE IF j.tie = "none" THEN fresh \cup j.user ELSE fresh \ j.user
  /\ job' = [job EXCEPT ![w] = NoJob]
  /\ UNCHANGED <<account, link, counts, made, mixed>>

\* CredentialSlipView: the slip is shown once.
ShowSlip(u) ==
  /\ slips[u] # 0 /\ Count
  /\ slips' = [slips EXCEPT ![u] = 0]
  /\ Disturb({v \in Worker : job[v].session # {}})
  /\ UNCHANGED <<account, link, history>>

-----------------------------------------------------------------------------
(* Accounts come to be *)

\* StaffCreateView, and the admin site's form for an account of any role: the password
\* is shown once, or typed, and need not be changed.
CreateAccount(u) ==
  /\ ~There(u) /\ Count
  /\ account' = [account EXCEPT ![u] = Row(started + 1, "no")]
  /\ fresh' = fresh \ {u}
  /\ Disturb(On(u))
  /\ UNCHANGED <<slips, link, made, mixed>>

\* StaffImporter: nobody can log in yet.
CreateBare(u) ==
  /\ u \in Staff /\ ~There(u) /\ Count
  /\ account' = [account EXCEPT ![u] = Row(Unusable, "no")]
  /\ Disturb(On(u))
  /\ UNCHANGED <<slips, link, history>>

CreatePhases == {"create", "register", "import"}

\* StudentCreateView, EnrollmentRegisterStudentView of lessons, and a row of
\* StudentImporter: a student, and those of its guardians who have no account.
OpenCreate(w, u, new, phase) ==
  LET j == [NoJob EXCEPT !.phase = phase, !.user = {u} \cup new, !.token = started + 1,
                         !.session = IF phase = "create" THEN {slips} ELSE {},
                         !.pupil = u]
  IN  /\ ~There(u) /\ \A p \in new : ~There(p)
      /\ Enter(w, j)
      /\ UNCHANGED <<tables, history>>

\* Only StudentCreateView shows the password, an import makes none. An account another
\* request has made by now undoes everything; guardians who had one are linked as they
\* are, and the first of the form or the row is the primary contact, if it has a name.
SaveCreate(w) ==
  LET j == job[w]
      u == j.pupil
      row == IF j.phase = "import" THEN Row(Unusable, "no") ELSE Row(j.token, "yes") IN
  /\ j.phase \in CreatePhases
  /\ \/ /\ \E v \in j.user : There(v)
        /\ Close(w, {})
        /\ UNCHANGED <<account, link, made, fresh, mixed>>
     \/ /\ \A v \in j.user : ~There(v)
        /\ \E found \in SUBSET {p \in Parent : There(p)} :
             LET family == (j.user \ {u}) \cup found IN
             \E first \in {{}} \cup {{p} : p \in family} :
               link' = [e \in Pupil \X Parent |->
                 IF e[1] # u THEN link[e] ELSE IF e[2] \in first THEN "primary"
                 ELSE IF e[2] \in family THEN "link" ELSE "none"]
        /\ Write(w, [v \in j.user |-> IF v = u THEN row ELSE Row(Unusable, "yes")])
        /\ made' = IF j.phase = "import" THEN made ELSE made \cup {<<u, j.token>>}
        /\ mixed' = mixed \ {u}
        /\ Close(w, IF j.phase = "create" THEN {u} ELSE {})
  /\ UNCHANGED <<slips, counts>>

\* StaffDeleteView, and the admin site for any account: the links go with it, once
\* nobody holds their rows.
DeleteUser(u) ==
  /\ There(u) /\ Count
  /\ \A v \in Worker : \A e \in job[v].seen : u \notin {e[1], e[2]}
  /\ account' = [account EXCEPT ![u] = NoAccount]
  /\ link' = [e \in Pupil \X Parent |-> IF u \in {e[1], e[2]} THEN "none" ELSE link[e]]
  /\ fresh' = fresh \ {u}
  /\ Disturb(On(u) \cup About(u))
  /\ UNCHANGED <<slips, made, mixed>>

-----------------------------------------------------------------------------
(* Passwords by the office *)

\* CredentialSingleResetView drops the other slips, StudentPasswordChangeView does not.
OpenReset(w, u) == There(u) /\ Open(w, "reset", {u}, {u}, "yes")
OpenChange(w, u) == u \in Pupil /\ There(u) /\ Open(w, "reset", {u}, {u}, "no")

\* CredentialBatchView: all teachers, or all students.
OpenBatch(w, group) ==
  LET U == {u \in group : There(u)} IN
  group \in {Staff, Pupil} /\ U # {} /\ Open(w, "batch", U, U, "yes")

\* Mutant: must_change_password is not among the columns that are saved.
SaveResetPasswordOnly(w) ==
  LET j == job[w]
      U == {u \in j.user : There(u)} IN
  /\ j.phase \in {"reset", "batch"}
  /\ Write(w, [u \in U |-> [account[u] EXCEPT !.password = j.token, !.raw = "no"]])
  /\ made' = made \cup (U \X {j.token})
  /\ Close(w, IF j.phase = "batch" THEN j.user ELSE U)
  /\ UNCHANGED <<slips, link, counts, mixed>>

\* Mutant: the password is stored as it is.
SaveResetRaw(w) ==
  LET j == job[w]
      U == {u \in j.user : There(u)} IN
  /\ j.phase \in {"reset", "batch"}
  /\ Write(w, [u \in U |-> [account[u] EXCEPT !.password = j.token, !.raw = "yes",
                                              !.must = "yes"]])
  /\ made' = made \cup (U \X {j.token})
  /\ Close(w, IF j.phase = "batch" THEN j.user ELSE U)
  /\ UNCHANGED <<slips, link, counts, mixed>>

\* Two columns; a batch passes over who is gone, a single save fails.
SaveReset(w) ==
  LET j == job[w]
      U == {u \in j.user : There(u)} IN
  /\ j.phase \in {"reset", "batch"}
  /\ Write(w, [u \in U |-> [account[u] EXCEPT !.password = j.token, !.raw = "no",
                                              !.must = "yes"]])
  /\ made' = made \cup (U \X {j.token})
  /\ Close(w, IF j.phase = "batch" THEN j.user ELSE U)
  /\ UNCHANGED <<slips, link, counts, mixed>>

-----------------------------------------------------------------------------
(* Whole rows *)

\* StaffEditView with and without a password, StaffToggleActiveView, StudentEditView;
\* and the admin site, whose forms change, activate and give a password to any account,
\* or take it away.
OpenEdit(w, u) == There(u) /\ Open(w, "edit", {u}, {}, "no")
OpenPassword(w, u) == There(u) /\ Open(w, "password", {u}, {}, "no")
OpenToggle(w, u) == There(u) /\ Open(w, "toggle", {u}, {}, "no")
OpenDisable(w, u) == There(u) /\ Open(w, "disable", {u}, {}, "no")

Passwords == {"password", "own", "disable"}

\* What the copy becomes.
Changed(j, row) ==
  IF j.phase = "toggle" THEN [row EXCEPT !.active = IF @ = "yes" THEN "no" ELSE "yes"]
  ELSE IF j.phase \in Passwords
       THEN [row EXCEPT !.password = IF j.phase = "disable" THEN Unusable ELSE j.token,
                        !.raw = "no"]
       ELSE row

\* All columns as they were read, also of an account that is gone by now.
SaveWhole(w) ==
  LET j == job[w] IN
  /\ j.phase \in {"edit", "toggle"} \cup Passwords
  /\ \E copy \in j.copy :
       /\ account' = [u \in User |-> IF u \in j.user THEN Changed(j, copy[u])
                                     ELSE account[u]]
       /\ fresh' = IF j.phase \in Passwords \/ j.alone = "no"
                   THEN fresh \ j.user ELSE fresh
  /\ Close(w, {})
  /\ UNCHANGED <<slips, link, counts, made, mixed>>

-----------------------------------------------------------------------------
(* Passwords by their owners *)

\* Who can log in, and is not led to the change of password by the middleware.
CanLogIn(u) ==
  LET row == account[u] IN
  There(u) /\ row.active = "yes" /\ row.password # Unusable /\ row.raw = "no"

\* ForcedPasswordChangeView
OpenForced(w, u) ==
  CanLogIn(u) /\ account[u].must = "yes" /\ Open(w, "forced", {u}, {}, "no")

SaveForced(w) ==
  LET j == job[w]
      U == {u \in j.user : There(u)} IN
  /\ j.phase = "forced"
  /\ Write(w, [u \in U |-> [account[u] EXCEPT !.password = j.token, !.raw = "no",
                                              !.must = "no"]])
  /\ Close(w, {})
  /\ UNCHANGED <<slips, link, counts, made, mixed>>

\* StudentSelfPasswordChangeView writes the whole row.
OpenOwn(w, u) ==
  u \in Pupil /\ CanLogIn(u) /\ account[u].must = "no" /\ Open(w, "own", {u}, {}, "no")

-----------------------------------------------------------------------------
(* Guardians *)

Primaries(s) == {e \in {s} \X Parent : link[e] = "primary"}

\* StudentGuardianCreateView in its transaction: the account is found or created, and
\* the other links of the student lose the flag.
OpenGuardian(w, s, p, tie) ==
  LET j == [NoJob EXCEPT !.phase = "guardian", !.user = {p}, !.token = started + 1,
                         !.copy = {[u \in {p} |-> account[u]]}, !.session = {slips},
                         !.pupil = s, !.tie = tie,
                         !.seen = IF tie = "primary" THEN Primaries(s) ELSE {}]
  IN  /\ There(s) /\ Enter(w, j)
      /\ \A v \in Worker \ {w} : job[v].seen \cap j.seen = {}
      /\ UNCHANGED <<tables, history>>

Tied(j, p) == [e \in Pupil \X Parent |->
  IF e = <<j.pupil, p>> THEN j.tie
  ELSE IF e \in j.seen /\ link[e] = "primary" THEN "link" ELSE link[e]]

Met(j) ==
  IF j.alone = "no" THEN mixed \cup {j.pupil}
  ELSE IF j.tie = "primary" THEN mixed \ {j.pupil} ELSE mixed

\* Mutant: the others keep the flag.
SaveGuardianToo(w) ==
  LET j == job[w] IN
  /\ j.phase = "guardian"
  /\ \E p \in j.user : link' = [link EXCEPT ![<<j.pupil, p>>] = j.tie]
  /\ mixed' = Met(j)
  /\ Close(w, {})
  /\ UNCHANGED <<account, slips, counts, made, fresh>>

\* An account that was found gets a new user name, and the password as text, which no
\* log-in accepts; one that was created gets neither. A link that exists undoes all but
\* the slip; an account or a student that is gone, the slip too.
SaveGuardian(w) ==
  LET j == job[w] IN
  /\ j.phase = "guardian"
  /\ \E p \in j.user, copy \in j.copy :
       LET found == copy[p].there = "yes"
           twice == link[<<j.pupil, p>>] # "none"
           lost  == found # There(p) \/ ~There(j.pupil)
       IN  IF twice \/ lost
           THEN /\ Close(w, IF found /\ ~lost THEN {p} ELSE {})
                /\ UNCHANGED <<account, link, made, fresh, mixed>>
           ELSE /\ Write(w, [u \in {p} |->
                     IF found THEN [account[p] EXCEPT !.password = j.token, !.raw = "yes",
                                                      !.must = "yes"]
                     ELSE Row(Unusable, "yes")])
                /\ made' = IF found THEN made \cup {<<p, j.token>>} ELSE made
                /\ link' = Tied(j, p)
                /\ mixed' = Met(j)
                /\ Close(w, IF found THEN {p} ELSE {})
  /\ UNCHANGED <<slips, counts>>

\* StudentGuardianUpdateView: the others lose the flag in a statement of its own,
\* then the link is written whole, or anew when it is gone, if its ends still exist.
OpenLink(w, s, p, tie) ==
  LET j == [NoJob EXCEPT !.phase = "link", !.user = {p}, !.pupil = s, !.tie = tie]
  IN  /\ link[<<s, p>>] # "none" /\ Enter(w, j)
      /\ link' = [e \in Pupil \X Parent |->
           IF tie = "primary" /\ e \in Primaries(s) \ {<<s, p>>} THEN "link" ELSE link[e]]
      /\ \A v \in Worker \ {w} : job[v].seen \cap Primaries(s) = {}
      /\ UNCHANGED <<account, slips, history>>

SaveLink(w) ==
  LET j == job[w] IN
  /\ j.phase = "link"
  /\ \E p \in j.user :
       IF There(j.pupil) /\ There(p)
       THEN link' = [link EXCEPT ![<<j.pupil, p>>] = j.tie] /\ mixed' = Met(j)
       ELSE UNCHANGED <<link, mixed>>
  /\ Close(w, {})
  /\ UNCHANGED <<account, slips, counts, made, fresh>>

\* The admin site's forms of links and of students write a link as it was typed, and
\* leave the flag of the others alone.
TieLink(s, p, tie) ==
  /\ There(s) /\ There(p) /\ Count
  /\ \A v \in Worker : <<s, p>> \notin job[v].seen
  /\ link' = [link EXCEPT ![<<s, p>>] = tie]
  /\ mixed' = IF tie = "primary" /\ Primaries(s) \ {<<s, p>>} # {} THEN mixed \cup {s}
              ELSE mixed
  /\ Disturb(About(s))
  /\ UNCHANGED <<account, slips, made, fresh>>

\* One link, or all, with the student (StudentDeleteView).
DeleteLink(s, P) ==
  LET gone == {s} \X P IN
  /\ \E e \in gone : link[e] # "none"
  /\ Count /\ \A v \in Worker : gone \cap job[v].seen = {}
  /\ link' = [e \in Pupil \X Parent |-> IF e \in gone THEN "none" ELSE link[e]]
  /\ UNCHANGED <<account, slips, job, history>>

-----------------------------------------------------------------------------
\* A request dies; what it has committed stays.
Crash(w) ==
  /\ job[w].phase # "idle" /\ crashes < MaxCrashes
  /\ crashes' = crashes + 1
  /\ job' = [job EXCEPT ![w] = NoJob]
  /\ UNCHANGED <<tables, started, history>>

AccountStep ==
  \/ \E u \in User : CreateAccount(u) \/ CreateBare(u) \/ DeleteUser(u) \/ ShowSlip(u)
  \/ \E s \in Pupil, p \in Parent : \/ \E P \in {{p}, Parent} : DeleteLink(s, P)
                                 \/ \E tie \in {"link", "primary"} : TieLink(s, p, tie)

OpenStep(w) ==
  \/ \E u \in Pupil, new \in SUBSET Parent, phase \in CreatePhases :
       OpenCreate(w, u, new, phase)
  \/ \E u \in User : \/ OpenReset(w, u) \/ OpenChange(w, u)
                     \/ OpenEdit(w, u) \/ OpenPassword(w, u) \/ OpenToggle(w, u)
                     \/ OpenDisable(w, u) \/ OpenForced(w, u) \/ OpenOwn(w, u)
  \/ \E group \in {Staff, Pupil} : OpenBatch(w, group)
  \/ \E s \in Pupil, p \in Parent, tie \in {"link", "primary"} :
       OpenGuardian(w, s, p, tie) \/ OpenLink(w, s, p, tie)

SaveStep(w) ==
  \/ SaveCreate(w) \/ SaveReset(w) \/ SaveWhole(w) \/ SaveForced(w)
  \/ SaveGuardian(w) \/ SaveLink(w) \/ WriteSession(w)

Next == AccountStep \/ \E w \in Worker : OpenStep(w) \/ SaveStep(w) \/ Crash(w)

Spec == Init /\ [][Next]_vars

-----------------------------------------------------------------------------
(* Properties *)

\* The slip an administrator still has to print opens the account, until its password
\* is changed again: unless another request was on the account or on the session at the
\* same time, and except the slips of guardians, which never open anything.
SlipOpens ==
  \A u \in fresh : slips[u] # 0 => account[u].password = slips[u] /\ account[u].raw = "no"

\* Nobody goes about with a password that was generated for them: in whatever order the
\* office and its owner write the account, the password never comes without the flag.
\* The exception is the first password of staff, which comes without it.
GeneratedMustChange ==
  \A u \in User : <<u, account[u].password>> \in made => account[u].must = "yes"

\* A student has one guardian at most to be called first. Two requests on the guardians
\* of the student at once can make two, and so can the admin site by itself, whose forms
\* leave the flag of the others; but as soon as a request that is alone makes a guardian
\* primary, the student is back to one.
OnePrimary == \A s \in Pupil \ mixed : Cardinality(Primaries(s)) <= 1

=============================================================================
