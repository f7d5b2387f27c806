----------------------------- MODULE Enrolment ------------------------------
(***************************************************************************)
(* The school's calendar and where its students are: sessions and terms,   *)
(* one of each current (core/models.py, school_admin/views/sessions.py),   *)
(* and the class of each student in each session, one of them current      *)
(* (students/models.py, students/admin.py, school_admin/views/students.py, *)
(* classes.py).                                                            *)
(*                                                                         *)
(* What is current is kept by the models' save(): one statement takes the  *)
(* flag from all other rows, a second one writes the row. The calendar's   *)
(* views and the promotion commit each statement; the forms of a student   *)
(* are transactions, whose rows others wait for.                           *)
(* Not modelled: the data of students, and the invoices (module Billing).  *)
(***************************************************************************)
EXTENDS Integers, Sequences, FiniteSets

CONSTANTS
  Session,     \* academic sessions
  LastTerm,    \* terms of a session (three in the code)
  Student,
  Class,
  Worker,      \* requests in flight
  MaxRequests, \* bound on the requests
  MaxCrashes,  \* bound on the requests that die half-way
  None         \* no class, no session, no student

ASSUME EnrolmentAssumption ==
  /\ IsFiniteSet(Session) /\ IsFiniteSet(Student) /\ IsFiniteSet(Worker)
  /\ LastTerm \in Nat \ {0}
  /\ None \notin Session \cup Student \cup Class
  /\ MaxRequests \in Nat /\ MaxCrashes \in Nat

Term == Session \X (1 .. LastTerm)

VARIABLES
  sessions,       \* AcademicSession, each with its terms
  currentSession, \* those with is_current
  currentTerm,    \* the terms with is_current
  published,      \* the terms with results_published
  classes,        \* SchoolClass
  status,         \* Student.status, or "absent"
  place,          \* ClassEnrollment: the class of a student in a session
  current,        \* those with is_current: student and session
  job,            \* where each request stands
  started,        \* how many requests were made
  crashes,        \* how many of them died
  calendar,       \* history: what the last change of the calendar was
  torn            \* history: students a request has left half-way, or two at once

calendarTables == <<sessions, currentSession, currentTerm, published>>
studentTables == <<classes, status, place, current>>
counts == <<started, crashes>>
vars == <<calendarTables, studentTables, job, counts, calendar, torn>>

-----------------------------------------------------------------------------
Term0 == <<None, 0>>

\* What a request holds: the steps to come, the rows it works on, a copy of
\* results_published, the status typed for a student, rows an open transaction has
\* written, and (history) whether no other request was on the same rows.
NoJob == [todo |-> <<>>, session |-> None, term |-> Term0, flag |-> "off",
          student |-> None, class |-> None, list |-> {}, was |-> None,
          typed |-> "keep", seen |-> {}, alone |-> "yes"]

Idle(w) == job[w] = NoJob

EnrolmentTypeOK ==
  /\ sessions \subseteq Session /\ currentSession \subseteq Session
  /\ currentTerm \subseteq Term /\ published \subseteq Term
  /\ classes \subseteq Class
  /\ status \in [Student -> {"absent", "ACTIVE", "WITHDRAWN", "deleted"}]
  /\ place \in [Student -> [Session -> Class \cup {None}]]
  /\ current \subseteq Student \X Session
  /\ started \in 0 .. MaxRequests /\ crashes \in 0 .. MaxCrashes
  /\ calendar \in {"none", "created", "set", "muddled"}
  /\ torn \subseteq Student

\* A school that begins, or one with a session and its students in a class.
Empty ==
  /\ sessions = {} /\ currentSession = {} /\ currentTerm = {} /\ calendar = "none"
  /\ status = [s \in Student |-> "absent"]
  /\ place = [s \in Student |-> [y \in Session |-> None]]
  /\ current = {}

Running ==
  \E y \in Session, c \in Class :
    /\ sessions = {y} /\ currentSession = {y} /\ currentTerm = {<<y, 1>>}
    /\ calendar = "set"
    /\ status = [s \in Student |-> "ACTIVE"]
    /\ place = [s \in Student |-> [z \in Session |-> IF z = y THEN c ELSE None]]
    /\ current = Student \X {y}

Init ==
  /\ Empty \/ Running
  /\ published = {} /\ classes = Class
  /\ job = [w \in Worker |-> NoJob]
  /\ started = 0 /\ crashes = 0 /\ torn = {}

Begin == started < MaxRequests /\ started' = started + 1 /\ UNCHANGED crashes

\* PostgreSQL: rows an open transaction has written are waited for.
Free(w, rows) == \A v \in Worker \ {w} : job[v].seen \cap rows = {}

-----------------------------------------------------------------------------
(* The calendar *)

OnCalendar(v) == job[v].session # None

\* Requests that are on the calendar at once are not alone.
Together(w, j) ==
  IF \E v \in Worker \ {w} : OnCalendar(v)
  THEN /\ calendar' = "muddled"
       /\ job' = [v \in Worker |->
            IF v = w THEN [j EXCEPT !.alone = "no"]
            ELSE IF OnCalendar(v) THEN [job[v] EXCEPT !.alone = "no"] ELSE job[v]]
  ELSE job' = [job EXCEPT ![w] = j] /\ UNCHANGED calendar

\* The next step of a request on the calendar, or its end.
Step(w, j) ==
  LET rest == [j EXCEPT !.todo = Tail(@)] IN
  IF Len(j.todo) > 1
  THEN job' = [job EXCEPT ![w] = rest] /\ UNCHANGED calendar
  ELSE /\ job' = [job EXCEPT ![w] = NoJob]
       /\ calendar' = IF j.alone = "no" THEN "muddled"
                      ELSE IF j.todo[1] = "flag" THEN calendar ELSE "set"

Doing(w, step) == job[w].todo # <<>> /\ job[w].todo[1] = step

\* SessionCreateView: in one transaction; First Term becomes current, the session
\* does not.
CreateSession(w, y) ==
  /\ Idle(w) /\ y \notin sessions
  /\ Free(w, currentTerm)
  /\ Begin
  /\ Together(w, [NoJob EXCEPT !.todo = <<"create">>, !.session = y, !.seen = currentTerm])
  /\ UNCHANGED <<calendarTables, studentTables, torn>>

\* (school, name) is unique.
CommitSession(w) ==
  LET y == job[w].session IN
  /\ Doing(w, "create")
  /\ job' = [job EXCEPT ![w] = NoJob]
  /\ IF y \in sessions THEN UNCHANGED <<sessions, currentTerm, calendar>>
     ELSE /\ sessions' = sessions \cup {y}
          /\ currentTerm' = (currentTerm \ job[w].seen) \cup {<<y, 1>>}
          /\ calendar' = IF job[w].alone = "yes" THEN "created" ELSE "muddled"
  /\ UNCHANGED <<currentSession, published, studentTables, counts, torn>>

\* SessionSetCurrentView: the session, then its first term.
SetSession(w, y) ==
  /\ Idle(w) /\ y \in sessions
  /\ Begin
  /\ Together(w, [NoJob EXCEPT !.session = y, !.term = <<y, 1>>,
       !.todo = <<"clearSessions", "session", "open", "clearTerms", "term">>])
  /\ UNCHANGED <<calendarTables, studentTables, torn>>

\* TermSetCurrentView: the term, then its session.
SetTerm(w, t) ==
  /\ Idle(w) /\ t[1] \in sessions
  /\ Begin
  /\ Together(w, [NoJob EXCEPT !.session = t[1], !.term = t,
       !.todo = <<"open", "clearTerms", "term", "clearSessions", "session">>])
  /\ UNCHANGED <<calendarTables, studentTables, torn>>

\* PublishResultsView: save(update_fields) of a copy that says it is current still
\* takes the flag from the others.
Publish(w, t, flag) ==
  /\ Idle(w) /\ t[1] \in sessions
  /\ Begin
  /\ Together(w, [NoJob EXCEPT !.session = t[1], !.term = t, !.flag = flag,
       !.todo = IF t \in currentTerm THEN <<"clearTerms", "flag">> ELSE <<"flag">>])
  /\ UNCHANGED <<calendarTables, studentTables, torn>>

\* The actions of the admin site: one UPDATE, which a copy read before does not know.
PublishInAdmin(t, flag) ==
  /\ t[1] \in sessions /\ Free(None, {t})
  /\ Begin
  /\ job' = [v \in Worker |->
       IF OnCalendar(v) THEN [job[v] EXCEPT !.alone = "no"] ELSE job[v]]
  /\ published' = IF flag = "on" THEN published \cup {t} ELSE published \ {t}
  /\ UNCHANGED <<sessions, currentSession, currentTerm, studentTables, calendar, torn>>

ClearSessions(w) ==
  /\ Doing(w, "clearSessions")
  /\ currentSession' = currentSession \cap {job[w].session}
  /\ Step(w, job[w])
  /\ UNCHANGED <<sessions, currentTerm, published, studentTables, counts, torn>>

SaveSession(w) ==
  /\ Doing(w, "session")
  /\ currentSession' = currentSession \cup {job[w].session}
  /\ Step(w, job[w])
  /\ UNCHANGED <<sessions, currentTerm, published, studentTables, counts, torn>>

\* The term is read whole.
OpenTerm(w) ==
  LET copy == IF job[w].term \in published THEN "on" ELSE "off" IN
  /\ Doing(w, "open")
  /\ Step(w, [job[w] EXCEPT !.flag = copy])
  /\ UNCHANGED <<calendarTables, studentTables, counts, torn>>

\* Mutant: the other terms keep the flag.
ClearTermsNot(w) ==
  /\ Doing(w, "clearTerms")
  /\ Step(w, job[w])
  /\ UNCHANGED <<calendarTables, studentTables, counts, torn>>

ClearTerms(w) ==
  /\ Doing(w, "clearTerms")
  /\ Free(w, currentTerm \ {job[w].term})
  /\ currentTerm' = currentTerm \cap {job[w].term}
  /\ Step(w, job[w])
  /\ UNCHANGED <<sessions, currentSession, published, studentTables, counts, torn>>

Flagged(w) == IF job[w].flag = "on" THEN published \cup {job[w].term}
              ELSE published \ {job[w].term}

\* ... and written whole, results_published as it was read.
SaveTerm(w) ==
  /\ Doing(w, "term")
  /\ Free(w, {job[w].term})
  /\ currentTerm' = currentTerm \cup {job[w].term}
  /\ published' = Flagged(w)
  /\ Step(w, job[w])
  /\ UNCHANGED <<sessions, currentSession, studentTables, counts, torn>>

SaveFlag(w) ==
  /\ Doing(w, "flag")
  /\ Free(w, {job[w].term})
  /\ published' = Flagged(w)
  /\ Step(w, job[w])
  /\ UNCHANGED <<sessions, currentSession, currentTerm, studentTables, counts, torn>>

-----------------------------------------------------------------------------
(* Students and their classes *)

Enrolments(s) == {s} \X Session
CurrentOf(s) == current \cap Enrolments(s)

\* Requests that are on one student at once are not alone.
TakeUp(w, j) ==
  job' = [v \in Worker |->
    IF v = w THEN IF \E u \in Worker \ {w} : job[u].student = j.student
                  THEN [j EXCEPT !.alone = "no"] ELSE j
    ELSE IF job[v].student = j.student THEN [job[v] EXCEPT !.alone = "no"] ELSE job[v]]

\* The row of the student, which the edit form and the creation write.
Own(s) == <<s, None>>

\* StudentCreateView, StudentEditView and StudentChangeClassView, which types no status
\* and needs a class; the first two do without.
OpenPlace(w, s, E, c, typed) ==
  /\ Idle(w) /\ E \subseteq sessions /\ c \in classes /\ status[s] # "deleted"
  /\ status[s] = "absent" => typed # "keep" /\ \A v \in Worker : job[v].student # s
  /\ typed = "keep" => E # {}
  /\ Begin
  /\ TakeUp(w, [NoJob EXCEPT !.todo = <<"form">>, !.student = s, !.class = c,
                             !.list = E, !.typed = typed])
  /\ UNCHANGED <<calendarTables, studentTables, calendar, torn>>

\* The row of the student is written whole, and anew when it was deleted meanwhile.
Saved(w) == IF job[w].typed = "keep" THEN status
            ELSE [status EXCEPT ![job[w].student] = job[w].typed]

Waits(w) == job[w].typed # "keep" => Free(w, {Own(job[w].student)})

\* The form ends without an enrolment: none was asked for, or the edit finds the class
\* and session it asks for in the (first) current one, whatever else is current.
KeepPlace(w) ==
  LET s == job[w].student IN
  /\ Doing(w, "form") /\ Waits(w)
  /\ job[w].typed # "keep"
  /\ \A y \in job[w].list : <<s, y>> \in current /\ place[s][y] = job[w].class
  /\ status' = Saved(w)
  /\ job' = [job EXCEPT ![w] = NoJob]
  /\ UNCHANGED <<calendarTables, classes, place, current, counts, calendar, torn>>

\* The enrolment of the session is read, then the flag is taken from the others, and
\* only with the commit all is visible.
TakePlace(w) ==
  LET s == job[w].student IN
  /\ Doing(w, "form") /\ Waits(w)
  /\ \E y \in job[w].list :
       LET others == CurrentOf(s) \ {<<s, y>>} IN
       /\ job[w].typed = "keep" \/ CurrentOf(s) = {} \/ others # {} \/ place[s][y] # job[w].class
       /\ Free(w, others)
       /\ job' = [job EXCEPT ![w] =
            [@ EXCEPT !.todo = <<"place">>, !.was = place[s][y],
                      !.seen = others \cup {r \in {Own(s)} : job[w].typed # "keep"}]]
  /\ UNCHANGED <<calendarTables, studentTables, counts, calendar, torn>>

\* One enrolment in each session; the class must still be there, and the student unless
\* the form has written it.
Breaks(w, y, was) ==
  \/ was = None /\ place[job[w].student][y] # None
  \/ job[w].class \notin classes
  \/ job[w].typed = "keep" /\ status[job[w].student] = "deleted"

After(w, s) == IF job[w].alone = "yes" THEN torn \ {s} ELSE torn \cup {s}

\* Mutant: an enrolment that exists gets its class, but not the flag.
CommitPlaceUnflagged(w) ==
  LET s == job[w].student IN
  /\ Doing(w, "place")
  /\ \E y \in job[w].list :
       /\ place' = [place EXCEPT ![s][y] = job[w].class]
       /\ status' = Saved(w)
       /\ current' = (current \ job[w].seen)
                       \cup (IF job[w].was = None THEN {<<s, y>>} ELSE {})
       /\ torn' = After(w, s)
  /\ job' = [job EXCEPT ![w] = NoJob]
  /\ UNCHANGED <<calendarTables, classes, counts, calendar>>

\* An enrolment that was found is written over, a new one must be the only one.
CommitPlace(w) ==
  LET s == job[w].student
      c == job[w].class IN
  /\ Doing(w, "place")
  /\ \E y \in job[w].list :
       IF Breaks(w, y, job[w].was) THEN UNCHANGED <<place, status, current, torn>>
       ELSE /\ place' = [place EXCEPT ![s][y] = c]
            /\ status' = Saved(w)
            /\ current' = (current \ job[w].seen) \cup {<<s, y>>}
            /\ torn' = After(w, s)
  /\ job' = [job EXCEPT ![w] = NoJob]
  /\ UNCHANGED <<calendarTables, classes, counts, calendar>>

\* StudentAdmin.promote_students: the students are read once, with their status.
Promote(w, S, y, c) ==
  /\ Idle(w) /\ y \in sessions
  /\ Begin
  /\ job' = [job EXCEPT ![w] =
       [NoJob EXCEPT !.todo = <<"promote">>, !.class = c, !.was = y,
                     !.list = {s \in S : status[s] = "ACTIVE"}]]
  /\ UNCHANGED <<calendarTables, studentTables, calendar, torn>>

PromoteEnd(w) ==
  /\ Doing(w, "promote")
  /\ job[w].list = {} \/ job[w].class \notin classes
  /\ job' = [job EXCEPT ![w] = NoJob]
  /\ UNCHANGED <<calendarTables, studentTables, counts, calendar, torn>>

\* The next student: no class is current ...
PromoteClear(w) ==
  /\ Doing(w, "promote") /\ job[w].class \in classes
  /\ \E s \in job[w].list :
       /\ Free(w, CurrentOf(s))
       /\ current' = current \ CurrentOf(s)
       /\ TakeUp(w, [job[w] EXCEPT !.todo = <<"insert">>, !.student = s,
                                   !.list = @ \ {s}, !.alone = "yes"])
  /\ UNCHANGED <<calendarTables, classes, status, place, counts, calendar, torn>>

\* ... until the new enrolment is. A second one in the session ends the request.
PromoteInsert(w) ==
  LET s == job[w].student
      y == job[w].was
      c == job[w].class IN
  /\ Doing(w, "insert")
  /\ IF Breaks(w, y, None)
     THEN /\ job' = [job EXCEPT ![w] = NoJob]
          /\ torn' = torn \cup {s}
          /\ UNCHANGED <<place, current>>
     ELSE /\ place' = [place EXCEPT ![s][y] = c]
          /\ current' = current \cup {<<s, y>>}
          /\ torn' = After(w, s)
          /\ job' = [job EXCEPT ![w] = [@ EXCEPT !.todo = <<"promote">>, !.student = None]]
  /\ UNCHANGED <<calendarTables, classes, status, counts, calendar>>

\* The enrolments of a class, or of a student, are deleted with it.
Remove(gone) ==
  /\ Free(None, gone) /\ Begin
  /\ place' = [s \in Student |-> [y \in Session |->
                 IF <<s, y>> \in gone THEN None ELSE place[s][y]]]
  /\ current' = current \ gone
  /\ torn' = torn \cup {s \in Student : CurrentOf(s) \cap gone # {}}
  /\ UNCHANGED <<calendarTables, job, calendar>>

DeleteClass(c) ==
  /\ c \in classes
  /\ classes' = classes \ {c}
  /\ Remove({e \in Student \X Session : place[e[1]][e[2]] = c})
  /\ UNCHANGED status

CreateClass(c) ==
  /\ c \notin classes /\ Begin
  /\ classes' = classes \cup {c}
  /\ UNCHANGED <<calendarTables, status, place, current, job, calendar, torn>>

DeleteStudent(s) ==
  /\ status[s] \in {"ACTIVE", "WITHDRAWN"} /\ Free(None, {Own(s)})
  /\ status' = [status EXCEPT ![s] = "deleted"]
  /\ Remove({e \in Enrolments(s) : place[s][e[2]] # None})
  /\ UNCHANGED classes

-----------------------------------------------------------------------------
\* A request dies: what it has not committed is undone.
Crash(w) ==
  /\ ~Idle(w) /\ crashes < MaxCrashes
  /\ crashes' = crashes + 1
  /\ job' = [job EXCEPT ![w] = NoJob]
  /\ calendar' = IF OnCalendar(w) /\ ~Doing(w, "create") THEN "muddled" ELSE calendar
  /\ torn' = IF Doing(w, "insert") THEN torn \cup {job[w].student} ELSE torn
  /\ UNCHANGED <<calendarTables, studentTables, started>>

CalendarStep(w) ==
  \/ \E y \in Session : CreateSession(w, y) \/ SetSession(w, y)
  \/ \E t \in Term : SetTerm(w, t) \/ \E flag \in {"on", "off"} : Publish(w, t, flag)
  \/ CommitSession(w) \/ ClearSessions(w) \/ SaveSession(w)
  \/ OpenTerm(w) \/ ClearTerms(w) \/ SaveTerm(w) \/ SaveFlag(w)

StudentStep(w) ==
  \/ \E s \in Student, c \in Class, typed \in {"keep", "ACTIVE", "WITHDRAWN"} :
       \E E \in {{}} \cup {{y} : y \in Session} : OpenPlace(w, s, E, c, typed)
  \/ \E S \in SUBSET Student, y \in Session, c \in Class : S # {} /\ Promote(w, S, y, c)
  \/ KeepPlace(w) \/ TakePlace(w) \/ CommitPlace(w) \/ PromoteClear(w) \/ PromoteInsert(w) \/ PromoteEnd(w)

OfficeStep ==
  \/ \E t \in Term, flag \in {"on", "off"} : PublishInAdmin(t, flag)
  \/ \E s \in Student : DeleteStudent(s)
  \/ \E c \in Class : CreateClass(c) \/ DeleteClass(c)

Next ==
  \/ \E w \in Worker : CalendarStep(w) \/ StudentStep(w) \/ Crash(w)
  \/ OfficeStep

Spec == Init /\ [][Next]_vars

-----------------------------------------------------------------------------
(* Properties *)

\* After a change of the calendar that was made alone one term is current; after one of
\* the two views that set it, its session is the current one too. Changes at once or half
\* made may leave two or none, and the next one made alone puts that right.
CalendarSound ==
  (\A w \in Worker : ~OnCalendar(w)) =>
    /\ calendar \in {"created", "set"} => Cardinality(currentTerm) = 1
    /\ calendar = "set" => \A t \in currentTerm : currentSession = {t[1]}

\* A student who has been in a class has exactly one current class, whatever was
\* created, moved, promoted and deleted, unless two requests were on the student at once,
\* a promotion died or was refused after it had taken the old class away, or the class
\* was deleted. A change of class that runs alone puts that right; an edit does so only
\* when it finds no current class, or another one than it asks for.
NobodyDropsOut ==
  \A s \in Student \ torn :
    /\ \A w \in Worker : job[w].student # s
    /\ \E y \in Session : place[s][y] # None
    => Cardinality(CurrentOf(s)) = 1

=============================================================================
