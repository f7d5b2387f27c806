---------------------------- MODULE OfficeProofs ----------------------------
(***************************************************************************)
(* Enrolment and Inventory guarantees for any number of sessions, terms,   *)
(* students, classes, items, quantities and concurrent requests. The       *)
(* calendar is sound after a change made alone, and a student who has been *)
(* in a class keeps exactly one; the log accounts for the stock of every   *)
(* item that no form of the admin site has touched.                        *)
(***************************************************************************)
EXTENDS Enrolment, Inventory, FiniteSetTheorems, TLAPS

-----------------------------------------------------------------------------
(* The steps a request has before it *)

Setting == {<<"clearSessions", "session", "open", "clearTerms", "term">>,
            <<"session", "open", "clearTerms", "term">>,
            <<"open", "clearTerms", "term">>, <<"clearTerms", "term">>, <<"term">>}
Moving == {<<"open", "clearTerms", "term", "clearSessions", "session">>,
           <<"clearTerms", "term", "clearSessions", "session">>,
           <<"term", "clearSessions", "session">>,
           <<"clearSessions", "session">>, <<"session">>}
Publishing == {<<"clearTerms", "flag">>, <<"flag">>}

Shaped(j) == j = [f \in DOMAIN NoJob |-> j[f]]

\* A request on the calendar, on the students, or none.
Sorted(j) ==
  /\ Shaped(j) /\ j.alone \in {"yes", "no"} /\ j.flag \in {"on", "off"}
  /\ j.typed \in {"keep", "ACTIVE", "WITHDRAWN"}
  /\ \/ /\ j.session \in Session /\ j.student = None
        /\ \/ j.todo = <<"create">>
           \/ /\ j.todo \in Setting \cup Moving \cup Publishing
              /\ j.term \in Term /\ j.term[1] = j.session
     \/ /\ j.session = None /\ j.student \in Student
        /\ \/ /\ j.todo = <<"form">> /\ j.class \in Class
              /\ j.list = {} \/ \E y \in Session : j.list = {y}
           \/ /\ j.todo = <<"place">> /\ j.class \in Class
              /\ j.seen \subseteq {j.student} \X (Session \cup {None})
              /\ \E y \in Session : j.list = {y}
           \/ /\ j.todo = <<"insert">> /\ j.class \in Class /\ j.was \in Session
              /\ j.list \subseteq Student
     \/ /\ j.session = None /\ j.student = None
        /\ \/ j.todo = <<>>
           \/ /\ j.todo = <<"promote">> /\ j.class \in Class /\ j.was \in Session
              /\ j.list \subseteq Student

JobsSorted == DOMAIN job = Worker /\ \A w \in Worker : Sorted(job[w])

LEMMA NoJobSorted == Sorted(NoJob)
BY DEF Sorted, Shaped, NoJob

\* What remains after a step.
LEMMA Rests ==
  /\ Tail(<<"clearSessions", "session", "open", "clearTerms", "term">>)
       = <<"session", "open", "clearTerms", "term">>
  /\ Tail(<<"session", "open", "clearTerms", "term">>) = <<"open", "clearTerms", "term">>
  /\ Tail(<<"open", "clearTerms", "term">>) = <<"clearTerms", "term">>
  /\ Tail(<<"clearTerms", "term">>) = <<"term">>
  /\ Tail(<<"open", "clearTerms", "term", "clearSessions", "session">>)
       = <<"clearTerms", "term", "clearSessions", "session">>
  /\ Tail(<<"clearTerms", "term", "clearSessions", "session">>)
       = <<"term", "clearSessions", "session">>
  /\ Tail(<<"term", "clearSessions", "session">>) = <<"clearSessions", "session">>
  /\ Tail(<<"clearSessions", "session">>) = <<"session">>
  /\ Tail(<<"clearTerms", "flag">>) = <<"flag">>
OBVIOUS

LEMMA RestListed ==
  ASSUME NEW q \in Setting \cup Moving \cup Publishing, Len(q) > 1
  PROVE  Tail(q) \in Setting \cup Moving \cup Publishing
<1>1. CASE q \in Setting
  <2>1. q # <<"term">>
    OBVIOUS
  <2> QED
    BY <1>1, <2>1, Rests DEF Setting
<1>2. CASE q \in Moving
  <2>1. q # <<"session">>
    OBVIOUS
  <2> QED
    BY <1>2, <2>1, Rests DEF Moving
<1>3. CASE q \in Publishing
  <2>1. q # <<"flag">>
    OBVIOUS
  <2> QED
    BY <1>3, <2>1, Rests DEF Publishing
<1> QED
  BY <1>1, <1>2, <1>3

-----------------------------------------------------------------------------
(* The calendar *)

\* What the last change of the calendar, made alone, has left.
Orderly ==
  /\ calendar \in {"created", "set"} => \E t \in Term : currentTerm = {t}
  /\ calendar = "set" => \A t \in currentTerm : currentSession = {t[1]}

\* How far a request has come that is alone on the calendar.
Reached(j) ==
  /\ j.todo = <<"create">> => currentTerm = j.seen
  /\ j.todo \in Publishing => Orderly
  /\ j.todo = <<"clearTerms", "flag">> => j.term \in currentTerm
  /\ j.todo = <<"session", "open", "clearTerms", "term">> => currentSession \subseteq {j.session}
  /\ j.todo \in {<<"open", "clearTerms", "term">>, <<"clearTerms", "term">>, <<"term">>}
       => currentSession = {j.session}
  /\ j.todo \in {<<"term">>, <<"term", "clearSessions", "session">>}
       => currentTerm \subseteq {j.term}
  /\ j.todo \in {<<"clearSessions", "session">>, <<"session">>} => currentTerm = {j.term}
  /\ j.todo = <<"session">> => currentSession \subseteq {j.session}

CalendarInv ==
  /\ JobsSorted
  /\ (\A w \in Worker : ~OnCalendar(w)) => Orderly
  /\ \A w, v \in Worker :
       w # v /\ OnCalendar(w) /\ OnCalendar(v)
         => calendar = "muddled" /\ job[w].alone = "no"
  /\ \A w \in Worker : OnCalendar(w) =>
       /\ job[w].todo = <<"create">> => Orderly
       /\ job[w].alone = "yes" => Reached(job[w])

\* A request takes up something of the calendar.
LEMMA TogetherKeeps ==
  ASSUME CalendarInv, NEW w \in Worker, ~OnCalendar(w), NEW j, Together(w, j),
         UNCHANGED <<currentSession, currentTerm>>,
         Sorted(j), j.session # None,
         j.alone = "yes" /\ Orderly => Reached(j)
  PROVE  CalendarInv'
<1>1. CASE \E v \in Worker \ {w} : OnCalendar(v)
  <2>1. /\ calendar' = "muddled"
        /\ job' = [v \in Worker |->
             IF v = w THEN [j EXCEPT !.alone = "no"]
             ELSE IF OnCalendar(v) THEN [job[v] EXCEPT !.alone = "no"] ELSE job[v]]
    BY <1>1 DEF Together
  <2>2. Orderly'
    BY <2>1 DEF Orderly
  <2>3. \A i : Sorted(i) => LET n == [i EXCEPT !.alone = "no"] IN
                            Sorted(n) /\ n.session = i.session /\ n.alone = "no"
    BY DEF Sorted, Shaped, NoJob
  <2>4. \A v \in Worker : /\ Sorted(job'[v])
                          /\ OnCalendar(v)' => job'[v].alone = "no"
    BY <2>1, <2>3 DEF CalendarInv, JobsSorted, OnCalendar
  <2>5. JobsSorted'
    BY <2>1, <2>4 DEF JobsSorted, Sorted, Enrolments
  <2> QED
    BY <2>1, <2>2, <2>4, <2>5 DEF CalendarInv
<1>2. CASE ~ \E v \in Worker \ {w} : OnCalendar(v)
  <2>1. job' = [job EXCEPT ![w] = j] /\ UNCHANGED calendar
    BY <1>2 DEF Together
  <2>2. Orderly /\ Orderly'
    BY <1>2, <2>1 DEF CalendarInv, Orderly
  <2>3. \A v \in Worker : job'[v] = IF v = w THEN j ELSE job[v]
    BY <2>1 DEF CalendarInv, JobsSorted
  <2>4. JobsSorted'
    BY <2>1, <2>3 DEF CalendarInv, JobsSorted, Sorted, Enrolments
  <2>5. \A v \in Worker : OnCalendar(v)' => v = w
    BY <1>2, <2>3 DEF OnCalendar
  <2>6. j.alone = "yes" => Reached(j)'
    BY <2>2 DEF Reached
  <2> QED
    BY <2>2, <2>3, <2>4, <2>5, <2>6 DEF CalendarInv, Reached
<1> QED
  BY <1>1, <1>2

\* A request on the calendar goes on, or ends.
LEMMA StepKeeps ==
  ASSUME CalendarInv, NEW w \in Worker, OnCalendar(w), job[w].todo # <<"create">>,
         NEW f \in {"on", "off"}, NEW j, j = [job[w] EXCEPT !.flag = f], Step(w, j),
         NEW rest, rest = [j EXCEPT !.todo = Tail(@)],
         job[w].alone = "yes" => IF Len(job[w].todo) > 1 THEN Reached(rest)' ELSE Orderly'
  PROVE  CalendarInv'
<1>1. /\ Sorted(job[w]) /\ DOMAIN job = Worker
      /\ job[w].todo \in Setting \cup Moving \cup Publishing /\ job[w].session \in Session
  BY DEF CalendarInv, JobsSorted, Sorted, OnCalendar
<1>2. /\ Shaped(j) /\ j.todo = job[w].todo /\ j.session = job[w].session
      /\ j.alone = job[w].alone /\ j.term = job[w].term /\ j.student = job[w].student
      /\ j.flag = f
  BY <1>1 DEF Sorted, Shaped, NoJob
<1>3. \A v \in Worker \ {w} : OnCalendar(v) => calendar = "muddled" /\ job[w].alone = "no"
  BY DEF CalendarInv
<1>4. CASE Len(j.todo) > 1
  <2>1. job' = [job EXCEPT ![w] = rest] /\ UNCHANGED calendar
    BY <1>4 DEF Step
  <2>2. \A v \in Worker : job'[v] = IF v = w THEN rest ELSE job[v]
    BY <1>1, <2>1
  <2>3. /\ Shaped(rest) /\ rest.todo = Tail(j.todo) /\ rest.session = job[w].session
        /\ rest.alone = job[w].alone /\ rest.term = job[w].term
        /\ rest.student = job[w].student /\ rest.flag = f
    BY <1>2 DEF Shaped, NoJob
  <2>4. rest.todo \in Setting \cup Moving \cup Publishing
    <3>1. j.todo \in Setting \cup Moving \cup Publishing /\ Len(j.todo) > 1
      BY <1>1, <1>2, <1>4
    <3>2. Tail(j.todo) \in Setting \cup Moving \cup Publishing
      BY <3>1, RestListed
    <3> QED
      BY <2>3, <3>2
  <2>5. Sorted(rest)
    BY <1>1, <2>3, <2>4 DEF Sorted, OnCalendar, Setting, Moving, Publishing
  <2>6. JobsSorted'
    BY <1>1, <2>1, <2>2, <2>5 DEF CalendarInv, JobsSorted
  <2>7. \A v \in Worker : OnCalendar(v)' <=> OnCalendar(v)
    BY <2>2, <2>3 DEF OnCalendar
  <2>8. rest.todo # <<"create">>
    BY <2>4 DEF Setting, Moving, Publishing
  <2>9. calendar = "muddled" => Orderly'
    BY <2>1 DEF Orderly
  <2>10. ASSUME NEW v \in Worker, OnCalendar(v)'
         PROVE  /\ job'[v].todo = <<"create">> => Orderly'
                /\ job'[v].alone = "yes" => Reached(job[v])'
    <3>1. CASE v = w
      <4>1. job'[v] = rest /\ rest.alone = job[w].alone
        BY <2>2, <2>3, <3>1
      <4>2. job[w].alone = "yes" => Reached(rest)'
        BY <1>2, <1>4
      <4> QED
        BY <2>8, <4>1, <4>2 DEF Reached
    <3>2. CASE v # w
      <4>1. calendar = "muddled" /\ job'[v] = job[v] /\ job[v].alone = "no"
        BY <1>3, <2>2, <2>7, <2>10, <3>2 DEF CalendarInv
      <4> QED
        BY <2>9, <4>1
    <3> QED
      BY <3>1, <3>2
  <2>11. \A u, v \in Worker : u # v /\ OnCalendar(u)' /\ OnCalendar(v)'
           => calendar' = "muddled" /\ job'[u].alone = "no"
    BY <2>1, <2>2, <2>3, <2>7 DEF CalendarInv
  <2> QED
    <3>1. (\A v \in Worker : ~OnCalendar(v)') => Orderly'
      BY <2>7
    <3> QED
      BY <2>6, <2>10, <2>11, <3>1 DEF CalendarInv
<1>5. CASE ~ Len(j.todo) > 1
  <2>1. /\ job' = [job EXCEPT ![w] = NoJob]
        /\ calendar' = IF j.alone = "no" THEN "muddled"
                       ELSE IF j.todo[1] = "flag" THEN calendar ELSE "set"
    BY <1>5 DEF Step
  <2>2. \A v \in Worker : job'[v] = IF v = w THEN NoJob ELSE job[v]
    BY <1>1, <2>1
  <2>3. JobsSorted'
    BY <1>1, <2>1, <2>2, NoJobSorted DEF CalendarInv, JobsSorted
  <2>4. \A v \in Worker : OnCalendar(v)' <=> v # w /\ OnCalendar(v)
    BY <2>2 DEF OnCalendar, NoJob
  <2>5. Orderly'
    <3>1. CASE j.alone = "no"
      BY <2>1, <3>1 DEF Orderly
    <3>2. CASE j.alone # "no"
      <4>1. job[w].alone = "yes"
        BY <1>1, <1>2, <3>2 DEF Sorted
      <4> QED
        BY <1>2, <1>5, <4>1
    <3> QED
      BY <3>1, <3>2
  <2>6. \A v \in Worker : OnCalendar(v)' => calendar' = "muddled" /\ job'[v].alone = "no"
    BY <1>2, <1>3, <2>1, <2>2, <2>4 DEF CalendarInv
  <2> QED
    BY <2>3, <2>5, <2>6 DEF CalendarInv
<1> QED
  BY <1>4, <1>5

\* The requests stay sorted, those on the calendar where they are, and the calendar as
\* it is.
Aside ==
  /\ JobsSorted'
  /\ \A v \in Worker : OnCalendar(v)' <=> OnCalendar(v)
  /\ \A v \in Worker : OnCalendar(v) =>
       /\ job'[v].todo = job[v].todo /\ job'[v].seen = job[v].seen
       /\ job'[v].session = job[v].session /\ job'[v].term = job[v].term
       /\ job'[v].alone \in {job[v].alone, "no"}
  /\ UNCHANGED <<currentSession, currentTerm, calendar>>

\* Steps beside the calendar, or that only note that they met a request on it.
LEMMA BesideKeeps ==
  ASSUME CalendarInv, Aside
  PROVE  CalendarInv'
<1>1. Orderly' <=> Orderly
  BY DEF Aside, Orderly
<1>2. ASSUME NEW v \in Worker, OnCalendar(v)'
      PROVE  /\ job'[v].todo = <<"create">> => Orderly'
             /\ job'[v].alone = "yes" => Reached(job[v])'
  BY <1>1, <1>2 DEF Aside, CalendarInv, Reached
<1> QED
  BY <1>1, <1>2 DEF Aside, CalendarInv

\* A request on the calendar dies, or a session is refused.
LEMMA LeaveKeeps ==
  ASSUME CalendarInv, NEW w \in Worker, job' = [job EXCEPT ![w] = NoJob],
         OnCalendar(w), Orderly',
         (\E v \in Worker \ {w} : OnCalendar(v)) => calendar' = "muddled"
  PROVE  CalendarInv'
<1>1. \A v \in Worker : job'[v] = IF v = w THEN NoJob ELSE job[v]
  BY DEF CalendarInv, JobsSorted
<1>2. JobsSorted'
  BY <1>1, NoJobSorted DEF CalendarInv, JobsSorted
<1>3. \A v \in Worker : OnCalendar(v)' <=> v # w /\ OnCalendar(v)
  BY <1>1 DEF OnCalendar, NoJob
<1>4. \A v \in Worker : OnCalendar(v)' => calendar' = "muddled" /\ job'[v].alone = "no"
  BY <1>1, <1>3 DEF CalendarInv
<1> QED
  BY <1>2, <1>4 DEF CalendarInv

LEMMA Named ==
  /\ None \notin Session /\ None \notin Student
  /\ \A y \in Session : <<y, 1>> \in Term
BY EnrolmentAssumption DEF Term

\* What a request that does a step of the calendar has before it.
LEMMA Does ==
  ASSUME CalendarInv, NEW w \in Worker
  PROVE  /\ Sorted(job[w]) /\ DOMAIN job = Worker
         /\ job[w] = [job[w] EXCEPT !.flag = job[w].flag] /\ job[w].flag \in {"on", "off"}
         /\ Doing(w, "clearSessions") =>
              job[w].todo \in {<<"clearSessions", "session", "open", "clearTerms", "term">>,
                               <<"clearSessions", "session">>}
         /\ Doing(w, "session") =>
              job[w].todo \in {<<"session", "open", "clearTerms", "term">>, <<"session">>}
         /\ Doing(w, "open") =>
              job[w].todo \in {<<"open", "clearTerms", "term">>,
                               <<"open", "clearTerms", "term", "clearSessions", "session">>}
         /\ Doing(w, "clearTerms") =>
              job[w].todo \in {<<"clearTerms", "term">>, <<"clearTerms", "flag">>,
                               <<"clearTerms", "term", "clearSessions", "session">>}
         /\ Doing(w, "term") =>
              job[w].todo \in {<<"term">>, <<"term", "clearSessions", "session">>}
         /\ Doing(w, "flag") => job[w].todo = <<"flag">>
         /\ Doing(w, "create") => job[w].todo = <<"create">>
         /\ Doing(w, "form") => job[w].todo = <<"form">>
         /\ Doing(w, "place") => job[w].todo = <<"place">>
         /\ Doing(w, "insert") => job[w].todo = <<"insert">>
         /\ Doing(w, "promote") => job[w].todo = <<"promote">>
<1>1. Sorted(job[w]) /\ DOMAIN job = Worker
  BY DEF CalendarInv, JobsSorted
<1>2. job[w] = [job[w] EXCEPT !.flag = job[w].flag] /\ job[w].flag \in {"on", "off"}
  BY <1>1 DEF Sorted, Shaped, NoJob
<1>3. job[w].todo \in Setting \cup Moving \cup Publishing
        \cup {<<"create">>, <<"form">>, <<"place">>, <<"insert">>, <<"promote">>, <<>>}
  BY <1>1 DEF Sorted
<1> QED
  BY <1>1, <1>2, <1>3 DEF Doing, Setting, Moving, Publishing

\* Who has steps of the calendar before it is on the calendar.
LEMMA DoesOn ==
  ASSUME CalendarInv, NEW w \in Worker
  PROVE  /\ OnCalendar(w) <=> job[w].session \in Session
         /\ job[w].todo \in Setting \cup Moving \cup Publishing \cup {<<"create">>}
              <=> OnCalendar(w)
         /\ OnCalendar(w) /\ job[w].todo # <<"create">>
              => job[w].term \in Term /\ job[w].term[1] = job[w].session
<1>1. Sorted(job[w])
  BY DEF CalendarInv, JobsSorted
<1>2. \A q \in {<<"form">>, <<"place">>, <<"insert">>, <<"promote">>, <<>>} :
        q \notin Setting \cup Moving \cup Publishing \cup {<<"create">>}
  BY DEF Setting, Moving, Publishing
<1> QED
  BY <1>1, <1>2, Named DEF Sorted, OnCalendar

LEMMA CalendarBegins ==
  ASSUME CalendarInv, NEW w \in Worker,
         \/ \E y \in Session : CreateSession(w, y) \/ SetSession(w, y)
         \/ \E t \in Term : SetTerm(w, t) \/ \E flag \in {"on", "off"} : Publish(w, t, flag)
  PROVE  CalendarInv'
<1>0. ~OnCalendar(w)
  <2>1. Idle(w)
    BY Zenon DEF CreateSession, SetSession, SetTerm, Publish
  <2> QED
    BY <2>1 DEF Idle, OnCalendar, NoJob
<1>1. ASSUME NEW y \in Session, CreateSession(w, y)
      PROVE  CalendarInv'
  <2> DEFINE j == [NoJob EXCEPT !.todo = <<"create">>, !.session = y, !.seen = currentTerm]
  <2>1. Together(w, j) /\ UNCHANGED <<currentSession, currentTerm>>
    BY <1>1 DEF CreateSession, calendarTables
  <2>2. Sorted(j) /\ j.session # None /\ Reached(j)
    BY Named DEF Sorted, Shaped, NoJob, Reached, Publishing
  <2> HIDE DEF j
  <2> QED
    BY <1>0, <2>1, <2>2, TogetherKeeps
<1>2. ASSUME NEW y \in Session, SetSession(w, y)
      PROVE  CalendarInv'
  <2> DEFINE j == [NoJob EXCEPT !.session = y, !.term = <<y, 1>>,
                     !.todo = <<"clearSessions", "session", "open", "clearTerms", "term">>]
  <2>1. Together(w, j) /\ UNCHANGED <<currentSession, currentTerm>>
    BY <1>2 DEF SetSession, calendarTables
  <2>2. Sorted(j) /\ j.session # None /\ Reached(j)
    BY Named DEF Sorted, Shaped, NoJob, Reached, Publishing, Setting
  <2> HIDE DEF j
  <2> QED
    BY <1>0, <2>1, <2>2, TogetherKeeps
<1>3. ASSUME NEW t \in Term, SetTerm(w, t)
      PROVE  CalendarInv'
  <2> DEFINE j == [NoJob EXCEPT !.session = t[1], !.term = t,
                     !.todo = <<"open", "clearTerms", "term", "clearSessions", "session">>]
  <2>1. Together(w, j) /\ UNCHANGED <<currentSession, currentTerm>>
    BY <1>3 DEF SetTerm, calendarTables
  <2>2. Sorted(j) /\ j.session # None /\ Reached(j)
    BY Named DEF Sorted, Shaped, NoJob, Reached, Publishing, Moving, Term
  <2> HIDE DEF j
  <2> QED
    BY <1>0, <2>1, <2>2, TogetherKeeps
<1>4. ASSUME NEW t \in Term, NEW flag \in {"on", "off"}, Publish(w, t, flag)
      PROVE  CalendarInv'
  <2> DEFINE j == [NoJob EXCEPT !.session = t[1], !.term = t, !.flag = flag,
                     !.todo = IF t \in currentTerm THEN <<"clearTerms", "flag">> ELSE <<"flag">>]
  <2>1. Together(w, j) /\ UNCHANGED <<currentSession, currentTerm>>
    BY <1>4 DEF Publish, calendarTables
  <2>2. Sorted(j) /\ j.session # None
    BY Named DEF Sorted, Shaped, NoJob, Publishing, Term
  <2>3. Orderly => Reached(j)
    BY DEF NoJob, Reached, Publishing
  <2> HIDE DEF j
  <2> QED
    BY <1>0, <2>1, <2>2, <2>3, TogetherKeeps
<1> QED
  BY <1>1, <1>2, <1>3, <1>4

LEMMA CommitSessionKeeps ==
  ASSUME CalendarInv, NEW w \in Worker, CommitSession(w)
  PROVE  CalendarInv'
<1>1. PICK y : y = job[w].session
  OBVIOUS
<1>2. /\ job[w].todo = <<"create">> /\ OnCalendar(w) /\ y \in Session
      /\ job' = [job EXCEPT ![w] = NoJob]
  BY <1>1, Does, DoesOn DEF CommitSession
<1>3. Orderly /\ (job[w].alone = "yes" => currentTerm = job[w].seen)
  BY <1>2 DEF CalendarInv, Reached
<1>4. (\E v \in Worker \ {w} : OnCalendar(v)) => calendar = "muddled" /\ job[w].alone = "no"
  BY <1>2 DEF CalendarInv
<1>5. CASE y \in sessions
  <2>1. UNCHANGED <<currentTerm, currentSession, calendar>>
    BY <1>1, <1>5 DEF CommitSession
  <2> QED
    BY <1>2, <1>3, <1>4, <2>1, LeaveKeeps DEF Orderly
<1>6. CASE y \notin sessions
  <2>1. /\ currentTerm' = (currentTerm \ job[w].seen) \cup {<<y, 1>>}
        /\ calendar' = IF job[w].alone = "yes" THEN "created" ELSE "muddled"
    BY <1>1, <1>6 DEF CommitSession
  <2>2. Orderly'
    BY <1>2, <1>3, <2>1, Named DEF Orderly
  <2> QED
    BY <1>2, <1>4, <2>1, <2>2, LeaveKeeps
<1> QED
  BY <1>5, <1>6

LEMMA AdvanceKeeps ==
  ASSUME CalendarInv, NEW w \in Worker,
         \/ ClearSessions(w) \/ SaveSession(w) \/ OpenTerm(w)
         \/ ClearTerms(w) \/ SaveTerm(w) \/ SaveFlag(w)
  PROVE  CalendarInv'
<1>1. PICK q, y, t : q = job[w].todo /\ y = job[w].session /\ t = job[w].term
  OBVIOUS
<1> DEFINE Leads == t \in Term /\ t[1] = y /\ job[w].alone = "yes" /\ Reached(job[w]) =>
                      \A r : r.todo = Tail(q) /\ r.session = y /\ r.term = t
                               => IF Len(q) > 1 THEN Reached(r)' ELSE Orderly'
           Listed == q \in Setting \cup Moving \cup Publishing
<1>2. /\ Len(<<"term">>) = 1 /\ Len(<<"session">>) = 1 /\ Len(<<"flag">>) = 1
      /\ Len(<<"clearSessions", "session", "open", "clearTerms", "term">>) = 5
      /\ Len(<<"session", "open", "clearTerms", "term">>) = 4
      /\ Len(<<"open", "clearTerms", "term">>) = 3 /\ Len(<<"clearTerms", "term">>) = 2
      /\ Len(<<"open", "clearTerms", "term", "clearSessions", "session">>) = 5
      /\ Len(<<"clearTerms", "term", "clearSessions", "session">>) = 4
      /\ Len(<<"term", "clearSessions", "session">>) = 3
      /\ Len(<<"clearSessions", "session">>) = 2
      /\ Len(<<"clearTerms", "flag">>) = 2
  OBVIOUS
<1>3. ASSUME NEW f \in {"on", "off"}, Step(w, [job[w] EXCEPT !.flag = f]),
             Listed, Leads
      PROVE  CalendarInv'
  <2>1. PICK j : j = [job[w] EXCEPT !.flag = f]
    OBVIOUS
  <2>2. PICK rest : rest = [j EXCEPT !.todo = Tail(@)]
    OBVIOUS
  <2>3. Shaped(job[w])
    BY Does DEF Sorted
  <2>4. rest.todo = Tail(q) /\ rest.session = y /\ rest.term = t
    BY <1>1, <2>1, <2>2, <2>3 DEF Shaped, NoJob
  <2>5. OnCalendar(w) /\ job[w].todo # <<"create">>
    BY <1>1, <1>3, DoesOn DEF Setting, Moving, Publishing
  <2>6. t \in Term /\ t[1] = y
    BY <1>1, <2>5, DoesOn
  <2>7. job[w].alone = "yes" => Reached(job[w])
    BY <2>5 DEF CalendarInv
  <2>8. job[w].alone = "yes" => IF Len(job[w].todo) > 1 THEN Reached(rest)' ELSE Orderly'
    BY <1>1, <1>3, <2>4, <2>6, <2>7
  <2>9. Step(w, j)
    BY <1>3, <2>1
  <2> QED
    BY <2>1, <2>2, <2>5, <2>8, <2>9, StepKeeps
<1>4. job[w] = [job[w] EXCEPT !.flag = job[w].flag] /\ job[w].flag \in {"on", "off"}
  BY Does
<1>5. \A f : Step(w, [job[w] EXCEPT !.flag = f]) =>
        IF Len(q) > 1 THEN calendar' = calendar
        ELSE job[w].alone = "yes" => calendar' = IF q[1] = "flag" THEN calendar ELSE "set"
  <2>1. ASSUME NEW f, Step(w, [job[w] EXCEPT !.flag = f])
        PROVE  IF Len(q) > 1 THEN calendar' = calendar
               ELSE job[w].alone = "yes" => calendar' = IF q[1] = "flag" THEN calendar ELSE "set"
    <3>1. PICK j : j = [job[w] EXCEPT !.flag = f]
      OBVIOUS
    <3>2. Shaped(job[w])
      BY Does DEF Sorted
    <3>3. j.todo = q /\ j.alone = job[w].alone
      BY <1>1, <3>1, <3>2 DEF Shaped, NoJob
    <3>4. Step(w, j)
      BY <2>1, <3>1
    <3> QED
      BY <3>3, <3>4 DEF Step
  <2> QED
    BY <2>1
<1>6. CASE ClearSessions(w)
  <2>1. /\ Step(w, [job[w] EXCEPT !.flag = job[w].flag])
        /\ currentSession' = currentSession \cap {y} /\ currentTerm' = currentTerm
        /\ q \in {<<"clearSessions", "session", "open", "clearTerms", "term">>,
                  <<"clearSessions", "session">>}
    BY <1>1, <1>4, <1>6, Does DEF ClearSessions
  <2>2. ASSUME NEW r, r.todo = Tail(q), r.session = y, r.term = t,
               t \in Term, t[1] = y, job[w].alone = "yes", Reached(job[w])
        PROVE  IF Len(q) > 1 THEN Reached(r)' ELSE Orderly'
    <3>1. CASE q = <<"clearSessions", "session", "open", "clearTerms", "term">>
      <4>1. Len(q) > 1 /\ r.todo = <<"session", "open", "clearTerms", "term">>
        BY <2>2, <3>1, <1>2, Rests
      <4> QED
        BY <1>1, <2>1, <2>2, <3>1, <4>1 DEF Reached, Publishing
    <3>2. CASE q = <<"clearSessions", "session">>
      <4>1. Len(q) > 1 /\ r.todo = <<"session">>
        BY <2>2, <3>2, <1>2, Rests
      <4> QED
        BY <1>1, <2>1, <2>2, <3>2, <4>1 DEF Reached, Publishing
    <3> QED
      BY <2>1, <3>1, <3>2
  <2>3. Listed
    BY <2>1 DEF Setting, Moving
  <2>9. Leads
    BY <2>2
  <2> HIDE DEF Leads, Listed
  <2> QED
    BY <1>3, <1>4, <2>1, <2>9, <2>3
<1>7. CASE SaveSession(w)
  <2>1. /\ Step(w, [job[w] EXCEPT !.flag = job[w].flag])
        /\ currentSession' = currentSession \cup {y} /\ currentTerm' = currentTerm
        /\ q \in {<<"session", "open", "clearTerms", "term">>, <<"session">>}
    BY <1>1, <1>4, <1>7, Does DEF SaveSession
  <2>2. ASSUME NEW r, r.todo = Tail(q), r.session = y, r.term = t,
               t \in Term, t[1] = y, job[w].alone = "yes", Reached(job[w])
        PROVE  IF Len(q) > 1 THEN Reached(r)' ELSE Orderly'
    <3>1. CASE q = <<"session", "open", "clearTerms", "term">>
      <4>1. Len(q) > 1 /\ r.todo = <<"open", "clearTerms", "term">>
        BY <2>2, <3>1, <1>2, Rests
      <4> QED
        BY <1>1, <2>1, <2>2, <3>1, <4>1 DEF Reached, Publishing
    <3>2. CASE q = <<"session">>
      <4>1. ~ Len(q) > 1
        BY <3>2, <1>2
      <4> QED
        BY <1>1, <2>1, <2>2, <3>2, <4>1 DEF Reached, Publishing, Orderly
    <3> QED
      BY <2>1, <3>1, <3>2
  <2>3. Listed
    BY <2>1 DEF Setting, Moving
  <2>9. Leads
    BY <2>2
  <2> HIDE DEF Leads, Listed
  <2> QED
    BY <1>3, <1>4, <2>1, <2>9, <2>3
<1>8. CASE OpenTerm(w)
  <2>1. PICK f \in {"on", "off"} : Step(w, [job[w] EXCEPT !.flag = f])
    BY <1>8 DEF OpenTerm
  <2>2. /\ UNCHANGED <<currentSession, currentTerm>>
        /\ q \in {<<"open", "clearTerms", "term">>,
                  <<"open", "clearTerms", "term", "clearSessions", "session">>}
    BY <1>1, <1>8, Does DEF OpenTerm, calendarTables
  <2>3. ASSUME NEW r, r.todo = Tail(q), r.session = y, r.term = t,
               t \in Term, t[1] = y, job[w].alone = "yes", Reached(job[w])
        PROVE  IF Len(q) > 1 THEN Reached(r)' ELSE Orderly'
    <3>1. CASE q = <<"open", "clearTerms", "term">>
      <4>1. Len(q) > 1 /\ r.todo = <<"clearTerms", "term">>
        BY <2>3, <3>1, <1>2, Rests
      <4> QED
        BY <1>1, <2>2, <2>3, <3>1, <4>1 DEF Reached, Publishing
    <3>2. CASE q = <<"open", "clearTerms", "term", "clearSessions", "session">>
      <4>1. Len(q) > 1 /\ r.todo = <<"clearTerms", "term", "clearSessions", "session">>
        BY <2>3, <3>2, <1>2, Rests
      <4> QED
        BY <1>1, <2>2, <2>3, <3>2, <4>1 DEF Reached, Publishing
    <3> QED
      BY <2>2, <3>1, <3>2
  <2>4. Listed
    BY <2>2 DEF Setting, Moving
  <2>9. Leads
    BY <2>3
  <2> HIDE DEF Leads, Listed
  <2> QED
    BY <1>3, <2>1, <2>9, <2>4
<1>9. CASE ClearTerms(w)
  <2>1. /\ Step(w, [job[w] EXCEPT !.flag = job[w].flag])
        /\ currentTerm' = currentTerm \cap {t} /\ currentSession' = currentSession
        /\ q \in {<<"clearTerms", "term">>, <<"clearTerms", "flag">>,
                  <<"clearTerms", "term", "clearSessions", "session">>}
    BY <1>1, <1>4, <1>9, Does DEF ClearTerms
  <2>2. calendar' = calendar
    <3>1. Len(q) > 1
      BY <1>2, <2>1
    <3> QED
      BY <1>5, <2>1, <3>1
  <2>3. CASE q = <<"clearTerms", "flag">>
    <3>1. Reached(job[w]) => Orderly'
      BY <1>1, <2>1, <2>2, <2>3 DEF Reached, Publishing, Orderly
    <3>2. ASSUME NEW r, r.todo = Tail(q), Reached(job[w])
          PROVE  Reached(r)'
      <4>1. r.todo = <<"flag">>
        BY <2>3, <3>2, Rests
      <4>2. Orderly'
        BY <3>1, <3>2
      <4> QED
        BY <4>1, <4>2 DEF Reached, Publishing
    <3>3. Leads
      BY <1>2, <2>3, <3>2
    <3>4. Listed
      BY <2>3 DEF Publishing
    <3> HIDE DEF Leads, Listed
    <3> QED
      BY <1>3, <1>4, <2>1, <3>3, <3>4
  <2>4. CASE q # <<"clearTerms", "flag">>
    <3>1. ASSUME NEW r, r.todo = Tail(q), r.session = y, r.term = t,
                 t \in Term, t[1] = y, job[w].alone = "yes", Reached(job[w])
          PROVE  IF Len(q) > 1 THEN Reached(r)' ELSE Orderly'
      <4>1. CASE q = <<"clearTerms", "term">>
        <5>1. Len(q) > 1 /\ r.todo = <<"term">>
          BY <3>1, <4>1, <1>2, Rests
        <5> QED
          BY <1>1, <2>1, <2>4, <3>1, <4>1, <5>1 DEF Reached, Publishing
      <4>2. CASE q = <<"clearTerms", "term", "clearSessions", "session">>
        <5>1. Len(q) > 1 /\ r.todo = <<"term", "clearSessions", "session">>
          BY <3>1, <4>2, <1>2, Rests
        <5> QED
          BY <1>1, <2>1, <2>4, <3>1, <4>2, <5>1 DEF Reached, Publishing
      <4> QED
        BY <2>1, <2>4, <4>1, <4>2
    <3>2. Listed
      BY <2>1, <2>4 DEF Setting, Moving
    <3>9. Leads
      BY <3>1
    <3> HIDE DEF Leads, Listed
    <3> QED
      BY <1>3, <1>4, <2>1, <3>9, <3>2
  <2> QED
    BY <2>3, <2>4
<1>10. CASE SaveTerm(w)
  <2>1. /\ Step(w, [job[w] EXCEPT !.flag = job[w].flag])
        /\ currentTerm' = currentTerm \cup {t} /\ currentSession' = currentSession
        /\ q \in {<<"term">>, <<"term", "clearSessions", "session">>}
    BY <1>1, <1>4, <1>10, Does DEF SaveTerm
  <2>2. ASSUME NEW r, r.todo = Tail(q), r.session = y, r.term = t,
               t \in Term, t[1] = y, job[w].alone = "yes", Reached(job[w])
        PROVE  IF Len(q) > 1 THEN Reached(r)' ELSE Orderly'
    <3>1. CASE q = <<"term">>
      <4>1. ~ Len(q) > 1
        BY <3>1, <1>2
      <4> QED
        BY <1>1, <2>1, <2>2, <3>1, <4>1 DEF Reached, Publishing, Orderly
    <3>2. CASE q = <<"term", "clearSessions", "session">>
      <4>1. Len(q) > 1 /\ r.todo = <<"clearSessions", "session">>
        BY <2>2, <3>2, <1>2, Rests
      <4> QED
        BY <1>1, <2>1, <2>2, <3>2, <4>1 DEF Reached, Publishing
    <3> QED
      BY <2>1, <3>1, <3>2
  <2>3. Listed
    BY <2>1 DEF Setting, Moving
  <2>9. Leads
    BY <2>2
  <2> HIDE DEF Leads, Listed
  <2> QED
    BY <1>3, <1>4, <2>1, <2>9, <2>3
<1>11. CASE SaveFlag(w)
  <2>1. /\ Step(w, [job[w] EXCEPT !.flag = job[w].flag])
        /\ UNCHANGED <<currentSession, currentTerm>> /\ q = <<"flag">>
    BY <1>1, <1>4, <1>11, Does DEF SaveFlag
  <2>2. job[w].alone = "yes" => calendar' = calendar
    BY <1>2, <1>5, <2>1
  <2>3. job[w].alone = "yes" /\ Reached(job[w]) => Orderly'
    BY <1>1, <2>1, <2>2 DEF Reached, Publishing, Orderly
  <2>4. Leads
    BY <1>2, <2>1, <2>3
  <2>5. Listed
    BY <2>1 DEF Publishing
  <2> HIDE DEF Leads, Listed
  <2> QED
    BY <1>3, <1>4, <2>1, <2>4, <2>5
<1> QED
  BY <1>6, <1>7, <1>8, <1>9, <1>10, <1>11

-----------------------------------------------------------------------------
(* The requests on the students, beside the calendar *)

\* A request takes up a student; those it meets there are not alone.
LEMMA TakenUp ==
  ASSUME JobsSorted, NEW w \in Worker, ~OnCalendar(w), NEW j, Sorted(j), j.session = None,
         j.student \in Student, TakeUp(w, j)
  PROVE  /\ JobsSorted'
         /\ \A v \in Worker : OnCalendar(v)' <=> OnCalendar(v)
         /\ \A v \in Worker : OnCalendar(v) => job'[v] = job[v]
<1>1. job' = [v \in Worker |->
        IF v = w THEN IF \E u \in Worker \ {w} : job[u].student = j.student
                      THEN [j EXCEPT !.alone = "no"] ELSE j
        ELSE IF job[v].student = j.student THEN [job[v] EXCEPT !.alone = "no"] ELSE job[v]]
  BY DEF TakeUp
<1>2. \A i : Sorted(i) => LET n == [i EXCEPT !.alone = "no"] IN
                          Sorted(n) /\ n.session = i.session
  BY DEF Sorted, Shaped, NoJob
<1>3. \A v \in Worker : OnCalendar(v) => job[v].student # j.student
  BY Named DEF JobsSorted, Sorted, OnCalendar
<1>4. \A v \in Worker : Sorted(job'[v]) /\ (OnCalendar(v)' <=> OnCalendar(v))
  BY <1>1, <1>2 DEF JobsSorted, OnCalendar
<1>5. \A v \in Worker : Sorted(job[v])'
  BY <1>4 DEF Sorted, Enrolments
<1> QED
  BY <1>1, <1>3, <1>4, <1>5 DEF JobsSorted, OnCalendar

\* A request that is not on the calendar goes on.
LEMMA GoesOn ==
  ASSUME JobsSorted, NEW w \in Worker, ~OnCalendar(w), NEW j, Sorted(j), j.session = None,
         job' = [job EXCEPT ![w] = j]
  PROVE  /\ JobsSorted'
         /\ \A v \in Worker : OnCalendar(v)' <=> OnCalendar(v)
         /\ \A v \in Worker : OnCalendar(v) => job'[v] = job[v]
<1>1. \A v \in Worker : job'[v] = IF v = w THEN j ELSE job[v]
  BY DEF JobsSorted
<1>2. \A v \in Worker : Sorted(job[v])'
  BY <1>1 DEF JobsSorted, Sorted, Enrolments
<1> QED
  BY <1>1, <1>2 DEF JobsSorted, OnCalendar

\* Who changes the class of a student is on one.
LEMMA OnOne ==
  ASSUME NEW j, Sorted(j), j.todo \in {<<"form">>, <<"place">>, <<"insert">>}
  PROVE  j.student \in Student /\ j.student # None
<1>1. \A q \in Setting \cup Moving \cup Publishing \cup {<<"create">>, <<>>, <<"promote">>} :
        q # <<"place">> /\ q # <<"insert">> /\ q # <<"form">>
  BY DEF Setting, Moving, Publishing
<1> QED
  BY <1>1, Named DEF Sorted

\* A request with no step of the calendar before it is not on the calendar.
LEMMA OnStudents ==
  ASSUME JobsSorted, NEW w \in Worker,
         \/ Idle(w) \/ Doing(w, "form") \/ Doing(w, "place")
         \/ Doing(w, "promote") \/ Doing(w, "insert")
  PROVE  /\ ~OnCalendar(w) /\ Sorted(job[w])
         /\ Doing(w, "form") => /\ job[w].todo = <<"form">> /\ job[w].class \in Class
                                /\ job[w].student \in Student
                                /\ job[w].list = {} \/ \E y \in Session : job[w].list = {y}
         /\ Doing(w, "place") => /\ job[w].todo = <<"place">> /\ job[w].class \in Class
                                 /\ job[w].student \in Student
                                 /\ job[w].seen \subseteq {job[w].student} \X (Session \cup {None})
                                 /\ \E y \in Session : job[w].list = {y}
         /\ Doing(w, "promote") => /\ job[w].todo = <<"promote">> /\ job[w].class \in Class
                                   /\ job[w].student = None
                                   /\ job[w].was \in Session /\ job[w].list \subseteq Student
         /\ Doing(w, "insert") => /\ job[w].todo = <<"insert">> /\ job[w].class \in Class
                                  /\ job[w].student \in Student
                                  /\ job[w].was \in Session /\ job[w].list \subseteq Student
<1>1. Sorted(job[w])
  BY DEF JobsSorted
<1>2. \A q \in Setting \cup Moving \cup Publishing \cup {<<"create">>} :
        /\ q # <<>>
        /\ q[1] \notin {"form", "place", "promote", "insert"}
  BY DEF Setting, Moving, Publishing
<1>3. ~OnCalendar(w)
  <2>1. CASE Idle(w)
    BY <2>1 DEF Idle, NoJob, OnCalendar
  <2>2. CASE ~Idle(w)
    BY <1>1, <1>2, <2>2 DEF Sorted, Doing, OnCalendar
  <2> QED
    BY <2>1, <2>2
<1>4. job[w].session = None
  BY <1>3 DEF OnCalendar
<1>5. None \notin Session
  BY Named
<1>6. job[w].todo \in {<<"form">>, <<"place">>, <<"insert">>, <<"promote">>, <<>>}
  BY <1>1, <1>4, <1>5 DEF Sorted
<1>7. /\ Doing(w, "form") => job[w].todo = <<"form">>
      /\ Doing(w, "place") => job[w].todo = <<"place">>
      /\ Doing(w, "promote") => job[w].todo = <<"promote">>
      /\ Doing(w, "insert") => job[w].todo = <<"insert">>
  BY <1>6 DEF Doing
<1>8. /\ <<"place">> # <<"insert">> /\ <<"place">> # <<"promote">> /\ <<"insert">> # <<"promote">>
      /\ <<>> # <<"place">> /\ <<>> # <<"insert">> /\ <<>> # <<"promote">>
      /\ \A q \in {<<"place">>, <<"insert">>, <<"promote">>, <<>>} : q # <<"form">>
  OBVIOUS
<1> QED
  BY <1>1, <1>3, <1>4, <1>5, <1>7, <1>8 DEF Sorted

\* Every step on the students leaves each request sorted and the calendar's alone.
LEMMA StudentStepBeside ==
  ASSUME JobsSorted, NEW w \in Worker, StudentStep(w)
  PROVE  /\ JobsSorted'
         /\ \A v \in Worker : OnCalendar(v)' <=> OnCalendar(v)
         /\ \A v \in Worker : OnCalendar(v) => job'[v] = job[v]
         /\ UNCHANGED <<calendarTables, calendar>>
<1>1. ASSUME NEW s \in Student, NEW c \in Class, NEW typed \in {"keep", "ACTIVE", "WITHDRAWN"},
             NEW E \in {{}} \cup {{y} : y \in Session}, OpenPlace(w, s, E, c, typed)
      PROVE  /\ JobsSorted'
             /\ \A v \in Worker : OnCalendar(v)' <=> OnCalendar(v)
             /\ \A v \in Worker : OnCalendar(v) => job'[v] = job[v]
  <2> DEFINE j == [NoJob EXCEPT !.todo = <<"form">>, !.student = s, !.class = c,
                             !.list = E, !.typed = typed]
  <2>1. TakeUp(w, j) /\ Idle(w)
    BY <1>1 DEF OpenPlace
  <2>2. Sorted(j) /\ j.session = None /\ j.student \in Student
    BY Named DEF Sorted, Shaped, NoJob
  <2> HIDE DEF j
  <2> QED
    BY <2>1, <2>2, OnStudents, TakenUp
<1>2. ASSUME NEW S \in SUBSET Student, NEW y \in Session, NEW c \in Class, Promote(w, S, y, c)
      PROVE  /\ JobsSorted'
             /\ \A v \in Worker : OnCalendar(v)' <=> OnCalendar(v)
             /\ \A v \in Worker : OnCalendar(v) => job'[v] = job[v]
  <2> DEFINE j == [NoJob EXCEPT !.todo = <<"promote">>, !.class = c, !.was = y,
                     !.list = {s \in S : status[s] = "ACTIVE"}]
  <2>1. job' = [job EXCEPT ![w] = j] /\ Idle(w)
    BY <1>2 DEF Promote
  <2>2. Sorted(j) /\ j.session = None
    BY DEF Sorted, Shaped, NoJob
  <2> HIDE DEF j
  <2> QED
    BY <2>1, <2>2, OnStudents, GoesOn
<1>3. ASSUME NEW j, j = NoJob, job' = [job EXCEPT ![w] = j],
             \/ Doing(w, "form") \/ Doing(w, "place")
             \/ Doing(w, "promote") \/ Doing(w, "insert")
      PROVE  /\ JobsSorted'
             /\ \A v \in Worker : OnCalendar(v)' <=> OnCalendar(v)
             /\ \A v \in Worker : OnCalendar(v) => job'[v] = job[v]
  <2>1. Sorted(j) /\ j.session = None
    BY <1>3, NoJobSorted DEF NoJob
  <2> QED
    BY <1>3, <2>1, OnStudents, GoesOn
<1>4. CASE PromoteClear(w)
  <2>1. Doing(w, "promote")
    BY <1>4 DEF PromoteClear
  <2>2. PICK s \in job[w].list :
          TakeUp(w, [job[w] EXCEPT !.todo = <<"insert">>, !.student = s,
                                   !.list = @ \ {s}, !.alone = "yes"])
    BY <1>4, Zenon DEF PromoteClear
  <2> DEFINE j == [job[w] EXCEPT !.todo = <<"insert">>, !.student = s,
                                   !.list = @ \ {s}, !.alone = "yes"]
  <2>3. /\ Sorted(job[w]) /\ job[w].session = None /\ job[w].class \in Class
        /\ job[w].was \in Session /\ job[w].list \subseteq Student
    BY <2>1, OnStudents DEF OnCalendar
  <2>4. Sorted(j) /\ j.session = None /\ j.student \in Student
    BY <2>3 DEF Sorted, Shaped, NoJob
  <2>5. TakeUp(w, j)
    BY <2>2
  <2> HIDE DEF j
  <2> QED
    BY <1>4, <2>1, <2>4, <2>5, OnStudents, TakenUp DEF PromoteClear
<1>5. CASE PromoteInsert(w)
  <2>1. Doing(w, "insert")
    BY <1>5 DEF PromoteInsert
  <2> DEFINE j == [job[w] EXCEPT !.todo = <<"promote">>, !.student = None]
  <2>2. /\ Sorted(job[w]) /\ job[w].session = None /\ job[w].class \in Class
        /\ job[w].was \in Session /\ job[w].list \subseteq Student /\ DOMAIN job = Worker
    BY <2>1, OnStudents DEF OnCalendar, JobsSorted
  <2>3. Sorted(j) /\ j.session = None
    BY <2>2 DEF Sorted, Shaped, NoJob
  <2>4. job' = [job EXCEPT ![w] = NoJob] \/ job' = [job EXCEPT ![w] = j]
    BY <1>5, <2>2 DEF PromoteInsert
  <2> HIDE DEF j
  <2> QED
    BY <1>3, <1>5, <2>1, <2>3, <2>4, OnStudents, GoesOn DEF PromoteInsert
<1>6. CASE KeepPlace(w) \/ CommitPlace(w) \/ PromoteEnd(w)
  BY <1>3, <1>6 DEF KeepPlace, CommitPlace, PromoteEnd
<1>8. CASE TakePlace(w)
  <2>1. Doing(w, "form")
    BY <1>8 DEF TakePlace
  <2>2. PICK y \in job[w].list, own \in SUBSET {Own(job[w].student)} :
          job' = [job EXCEPT ![w] =
            [@ EXCEPT !.todo = <<"place">>, !.was = place[job[w].student][y],
                      !.seen = (CurrentOf(job[w].student) \ {<<job[w].student, y>>}) \cup own]]
    <3>1. ASSUME NEW b
          PROVE  {r \in {Own(b)} : job[w].typed # "keep"} \in SUBSET {Own(b)}
      OBVIOUS
    <3> QED
      BY <1>8, <3>1 DEF TakePlace
  <2> DEFINE j == [job[w] EXCEPT !.todo = <<"place">>, !.was = place[job[w].student][y],
                      !.seen = (CurrentOf(job[w].student) \ {<<job[w].student, y>>}) \cup own]
  <2>3. /\ Sorted(job[w]) /\ job[w].session = None /\ job[w].class \in Class
        /\ job[w].student \in Student /\ DOMAIN job = Worker
        /\ \E x \in Session : job[w].list = {x}
    BY <2>1, <2>2, OnStudents DEF OnCalendar, JobsSorted
  <2>6. (CurrentOf(job[w].student) \ {<<job[w].student, y>>}) \cup own
          \subseteq {job[w].student} \X (Session \cup {None})
    BY DEF CurrentOf, Enrolments, Own
  <2>4. Sorted(j) /\ j.session = None
    <3> HIDE DEF CurrentOf
    <3> QED
      BY <2>3, <2>6 DEF Sorted, Shaped, NoJob
  <2>5. job' = [job EXCEPT ![w] = j]
    BY <2>2, <2>3
  <2> HIDE DEF j
  <2> QED
    BY <1>8, <2>1, <2>4, <2>5, OnStudents, GoesOn DEF TakePlace
<1>7. UNCHANGED <<calendarTables, calendar>>
  <2>1. \A s, E, c, typed : OpenPlace(w, s, E, c, typed) => UNCHANGED <<calendarTables, calendar>>
    BY Zenon DEF OpenPlace
  <2>5. KeepPlace(w) \/ TakePlace(w) => UNCHANGED <<calendarTables, calendar>>
    BY Zenon DEF KeepPlace, TakePlace
  <2>2. \A S, y, c : Promote(w, S, y, c) => UNCHANGED <<calendarTables, calendar>>
    BY Zenon DEF Promote
  <2>3. CommitPlace(w) \/ PromoteInsert(w) \/ PromoteEnd(w)
          => UNCHANGED <<calendarTables, calendar>>
    BY Zenon DEF CommitPlace, PromoteInsert, PromoteEnd
  <2>4. PromoteClear(w) => UNCHANGED <<calendarTables, calendar>>
    BY Zenon DEF PromoteClear
  <2> QED
    BY <2>1, <2>2, <2>3, <2>4, <2>5, Zenon DEF StudentStep
<1> QED
  BY <1>1, <1>2, <1>4, <1>5, <1>6, <1>7, <1>8 DEF StudentStep

\* What the office does beside the requests.
LEMMA OfficeStepBeside ==
  ASSUME JobsSorted, OfficeStep
  PROVE  /\ Aside
         /\ \A v \in Worker : ~OnCalendar(v) => job'[v] = job[v]
<1> DEFINE Passes == Aside /\ \A v \in Worker : ~OnCalendar(v) => job'[v] = job[v]
<1>1. ASSUME UNCHANGED <<job, currentSession, currentTerm, calendar>>
      PROVE  Passes
  BY <1>1 DEF Aside, JobsSorted, Sorted, OnCalendar, Enrolments
<1>2. ASSUME NEW t \in Term, NEW flag \in {"on", "off"}, PublishInAdmin(t, flag)
      PROVE  Passes
  <2>1. /\ job' = [v \in Worker |->
              IF OnCalendar(v) THEN [job[v] EXCEPT !.alone = "no"] ELSE job[v]]
        /\ UNCHANGED <<currentSession, currentTerm, calendar>>
    BY <1>2 DEF PublishInAdmin
  <2>2. \A i : Sorted(i) => LET n == [i EXCEPT !.alone = "no"] IN
                            /\ Sorted(n) /\ n.session = i.session
                            /\ n.todo = i.todo /\ n.seen = i.seen
                            /\ n.term = i.term /\ n.alone = "no"
    BY DEF Sorted, Shaped, NoJob
  <2>3. \A v \in Worker : Sorted(job'[v]) /\ (OnCalendar(v)' <=> OnCalendar(v))
    BY <2>1, <2>2 DEF JobsSorted, OnCalendar
  <2>4. \A v \in Worker : Sorted(job[v])'
    BY <2>3 DEF Sorted, Enrolments
  <2> QED
    BY <2>1, <2>2, <2>3, <2>4 DEF Aside, JobsSorted
<1>3. ASSUME NEW s \in Student, DeleteStudent(s)
      PROVE  UNCHANGED <<job, currentSession, currentTerm, calendar>>
  BY <1>3 DEF DeleteStudent, Remove, calendarTables
<1>4. ASSUME NEW c \in Class, CreateClass(c) \/ DeleteClass(c)
      PROVE  UNCHANGED <<job, currentSession, currentTerm, calendar>>
  BY <1>4 DEF CreateClass, DeleteClass, Remove, calendarTables
<1> HIDE DEF Passes
<1>5. Passes
  BY <1>1, <1>2, <1>3, <1>4, Zenon DEF OfficeStep
<1> QED
  BY <1>5 DEF Passes

\* A request dies.
LEMMA CalendarCrash ==
  ASSUME CalendarInv, NEW w \in Worker, Crash(w)
  PROVE  CalendarInv'
<1>1. /\ job' = [job EXCEPT ![w] = NoJob] /\ UNCHANGED <<currentSession, currentTerm>>
      /\ calendar' = IF OnCalendar(w) /\ ~Doing(w, "create") THEN "muddled" ELSE calendar
  BY DEF Crash, calendarTables
<1>2. CASE OnCalendar(w)
  <2>1. Orderly'
    <3>1. CASE Doing(w, "create")
      <4>1. Orderly
        BY <1>2, <3>1, Does DEF CalendarInv
      <4> QED
        BY <1>1, <3>1, <4>1 DEF Orderly
    <3>2. CASE ~Doing(w, "create")
      BY <1>1, <1>2, <3>2 DEF Orderly
    <3> QED
      BY <3>1, <3>2
  <2>2. (\E v \in Worker \ {w} : OnCalendar(v)) => calendar' = "muddled"
    BY <1>1, <1>2 DEF CalendarInv
  <2> QED
    BY <1>1, <1>2, <2>1, <2>2, LeaveKeeps
<1>3. CASE ~OnCalendar(w)
  <2>1. UNCHANGED <<currentSession, currentTerm, calendar>>
    BY <1>1, <1>3
  <2>2. PICK j : j = NoJob
    OBVIOUS
  <2>3. /\ JobsSorted'
        /\ \A v \in Worker : OnCalendar(v)' <=> OnCalendar(v)
        /\ \A v \in Worker : OnCalendar(v) => job'[v] = job[v]
    BY <1>1, <1>3, <2>2, GoesOn, NoJobSorted DEF CalendarInv, NoJob
  <2> QED
    BY <2>1, <2>3, BesideKeeps DEF Aside
<1> QED
  BY <1>2, <1>3

\* Every step keeps the calendar's invariant.
LEMMA CalendarNext ==
  ASSUME CalendarInv, [Next]_vars
  PROVE  CalendarInv'
<1>1. ASSUME NEW w \in Worker, CalendarStep(w)
      PROVE  CalendarInv'
  BY <1>1, CalendarBegins, CommitSessionKeeps, AdvanceKeeps DEF CalendarStep
<1>2. ASSUME NEW w \in Worker, StudentStep(w)
      PROVE  CalendarInv'
  <2>1. Aside
    BY <1>2, StudentStepBeside DEF CalendarInv, Aside, calendarTables
  <2> QED
    BY <2>1, BesideKeeps
<1>3. CASE OfficeStep
  <2>1. Aside
    BY <1>3, OfficeStepBeside DEF CalendarInv
  <2> QED
    BY <2>1, BesideKeeps
<1>4. CASE UNCHANGED vars
  <2>1. UNCHANGED <<job, currentSession, currentTerm, calendar>>
    BY <1>4 DEF vars, calendarTables
  <2>2. Aside
    BY <2>1 DEF Aside, CalendarInv, JobsSorted, Sorted, OnCalendar, Enrolments
  <2> QED
    BY <2>2, BesideKeeps
<1> QED
  BY <1>1, <1>2, <1>3, <1>4, CalendarCrash DEF Next

LEMMA CalendarInit ==
  ASSUME Init
  PROVE  CalendarInv
<1>1. JobsSorted /\ \A w \in Worker : ~OnCalendar(w)
  BY NoJobSorted DEF Init, JobsSorted, OnCalendar, NoJob
<1>2. CASE Empty
  BY <1>1, <1>2 DEF Empty, Orderly, CalendarInv
<1>3. CASE Running
  <2>1. PICK y \in Session : /\ currentSession = {y} /\ currentTerm = {<<y, 1>>}
    BY <1>3 DEF Running
  <2>2. PICK t : t \in Term /\ t[1] = y /\ currentTerm = {t}
    BY <2>1, Named
  <2>3. Orderly
    BY <2>1, <2>2 DEF Orderly
  <2> QED
    BY <1>1, <2>3 DEF CalendarInv
<1> QED
  BY <1>2, <1>3 DEF Init

LEMMA CalendarInvariant == Spec => []CalendarInv
<1>1. Init => CalendarInv
  BY CalendarInit
<1>2. CalendarInv /\ [Next]_vars => CalendarInv'
  BY CalendarNext
<1> QED
  BY <1>1, <1>2, PTL DEF Spec

\* After a change of the calendar that was made alone one term is current, and after
\* one that set it its session is the current one.
THEOREM CalendarIsSound == Spec => []CalendarSound
<1>1. ASSUME CalendarInv
      PROVE  CalendarSound
  <2>1. ASSUME \A w \in Worker : ~OnCalendar(w), calendar \in {"created", "set"}
        PROVE  Cardinality(currentTerm) = 1
    <3>1. PICK t \in Term : currentTerm = {t}
      BY <1>1, <2>1 DEF CalendarInv, Orderly
    <3> QED
      BY <3>1, FS_Singleton
  <2> QED
    BY <1>1, <2>1 DEF CalendarInv, CalendarSound, Orderly
<1> QED
  BY <1>1, CalendarInvariant, PTL

-----------------------------------------------------------------------------
(* Types *)

\* What a request works on is of the school.
LEMMA WorksOn ==
  ASSUME JobsSorted, NEW w \in Worker
  PROVE  /\ \A step \in {"create", "clearSessions", "session", "open", "clearTerms", "term", "flag"} :
              Doing(w, step) => OnCalendar(w) /\ job[w].session \in Session
         /\ \A step \in {"open", "clearTerms", "term", "flag"} :
              Doing(w, step) => job[w].term \in Term
         /\ Doing(w, "insert") => job[w].student \in Student
<1>1. Sorted(job[w])
  BY DEF JobsSorted
<1>2. \A q \in {<<"form">>, <<"place">>, <<"insert">>, <<"promote">>, <<>>} :
        q # <<>> => q[1] \notin {"create", "clearSessions", "session", "open", "clearTerms", "term", "flag"}
  OBVIOUS
<1>3. job[w].todo # <<>> /\ job[w].todo[1] \in {"create", "clearSessions", "session", "open",
                                               "clearTerms", "term", "flag"}
        => job[w].session \in Session /\ OnCalendar(w)
  BY <1>1, <1>2, Named DEF Sorted, OnCalendar
<1>4. <<"create">>[1] = "create"
  OBVIOUS
<1> QED
  BY <1>1, <1>3, <1>4, OnStudents DEF Sorted, Doing, OnCalendar

LEMMA CalendarTyped ==
  ASSUME EnrolmentTypeOK, JobsSorted, NEW w \in Worker, CalendarStep(w)
  PROVE  EnrolmentTypeOK'
<1>1. \A j : Together(w, j) => calendar' \in {"none", "created", "set", "muddled"}
  BY DEF Together, EnrolmentTypeOK
<1>2. \A j : Step(w, j) => calendar' \in {"none", "created", "set", "muddled"}
  BY DEF Step, EnrolmentTypeOK
<1>3. ASSUME NEW j, Together(w, j), Begin, UNCHANGED <<calendarTables, studentTables, torn>>
      PROVE  EnrolmentTypeOK'
  BY <1>1, <1>3, EnrolmentAssumption DEF Begin, EnrolmentTypeOK, calendarTables, studentTables
<1>4. ASSUME NEW y \in Session, CreateSession(w, y) \/ SetSession(w, y)
      PROVE  EnrolmentTypeOK'
  BY <1>3, <1>4, Zenon DEF CreateSession, SetSession
<1>5. ASSUME NEW t \in Term, SetTerm(w, t) \/ \E flag \in {"on", "off"} : Publish(w, t, flag)
      PROVE  EnrolmentTypeOK'
  BY <1>3, <1>5, Zenon DEF SetTerm, Publish
<1>6. CASE CommitSession(w)
  <2>1. PICK y : y = job[w].session
    OBVIOUS
  <2>2. y \in Session /\ <<y, 1>> \in Term
    BY <1>6, <2>1, WorksOn, Named DEF CommitSession
  <2>3. /\ sessions' \in {sessions, sessions \cup {y}}
        /\ currentTerm' \in {currentTerm, (currentTerm \ job[w].seen) \cup {<<y, 1>>}}
        /\ calendar' \in {calendar, "created", "muddled"}
        /\ UNCHANGED <<currentSession, published, studentTables, counts, torn>>
    BY <1>6, <2>1 DEF CommitSession
  <2> QED
    BY <2>2, <2>3 DEF EnrolmentTypeOK, studentTables, counts
<1>7. CASE ClearSessions(w) \/ SaveSession(w) \/ OpenTerm(w)
           \/ ClearTerms(w) \/ SaveTerm(w) \/ SaveFlag(w)
  <2>1. /\ sessions' = sessions /\ UNCHANGED <<studentTables, counts, torn>>
        /\ calendar' \in {"none", "created", "set", "muddled"}
    BY <1>2, <1>7 DEF ClearSessions, SaveSession, OpenTerm, ClearTerms, SaveTerm, SaveFlag,
                      calendarTables
  <2>2. currentSession' \subseteq Session
    BY <1>7, WorksOn DEF ClearSessions, SaveSession, OpenTerm, ClearTerms, SaveTerm, SaveFlag,
                      calendarTables, EnrolmentTypeOK
  <2>3. currentTerm' \subseteq Term
    BY <1>7, WorksOn DEF ClearSessions, SaveSession, OpenTerm, ClearTerms, SaveTerm, SaveFlag,
                      calendarTables, EnrolmentTypeOK
  <2>4. published' \subseteq Term
    BY <1>7, WorksOn DEF ClearSessions, SaveSession, OpenTerm, ClearTerms, SaveTerm, SaveFlag,
                      Flagged, calendarTables, EnrolmentTypeOK
  <2> QED
    BY <2>1, <2>2, <2>3, <2>4 DEF EnrolmentTypeOK, studentTables, counts
<1> QED
  BY <1>4, <1>5, <1>6, <1>7, Zenon DEF CalendarStep

\* Steps that change nothing but places, what is current, or the history of it.
LEMMA PlacesTyped ==
  ASSUME EnrolmentTypeOK,
         UNCHANGED <<calendarTables, calendar>>,
         started' \in 0 .. MaxRequests, crashes' \in 0 .. MaxCrashes,
         classes' \subseteq Class,
         status' \in [Student -> {"absent", "ACTIVE", "WITHDRAWN", "deleted"}],
         place' \in [Student -> [Session -> Class \cup {None}]],
         current' \subseteq Student \X Session, torn' \subseteq Student
  PROVE  EnrolmentTypeOK'
BY DEF EnrolmentTypeOK, calendarTables

LEMMA StudentTyped ==
  ASSUME EnrolmentTypeOK, JobsSorted, NEW w \in Worker, StudentStep(w)
  PROVE  EnrolmentTypeOK'
<1>0. Begin => started' \in 0 .. MaxRequests /\ crashes' \in 0 .. MaxCrashes
  BY EnrolmentAssumption DEF Begin, EnrolmentTypeOK
<1>1. ASSUME NEW s \in Student, NEW c \in Class, NEW typed \in {"keep", "ACTIVE", "WITHDRAWN"},
             NEW E \in {{}} \cup {{y} : y \in Session}, OpenPlace(w, s, E, c, typed)
      PROVE  EnrolmentTypeOK'
  <2>1. Begin /\ UNCHANGED <<calendarTables, studentTables, calendar, torn>>
    BY <1>1 DEF OpenPlace
  <2> QED
    BY <1>0, <2>1, PlacesTyped DEF EnrolmentTypeOK, studentTables
<1>2. ASSUME NEW S \in SUBSET Student, NEW y \in Session, NEW c \in Class, Promote(w, S, y, c)
      PROVE  EnrolmentTypeOK'
  <2>1. Begin /\ UNCHANGED <<calendarTables, studentTables, calendar, torn>>
    BY <1>2, Zenon DEF Promote
  <2> QED
    BY <1>0, <2>1, PlacesTyped DEF EnrolmentTypeOK, studentTables
<1>3. CASE PromoteEnd(w) \/ TakePlace(w)
  BY <1>3, PlacesTyped DEF PromoteEnd, TakePlace, EnrolmentTypeOK, studentTables, counts
<1>8. ASSUME job[w].student \in Student
      PROVE  Saved(w) \in [Student -> {"absent", "ACTIVE", "WITHDRAWN", "deleted"}]
  BY <1>8 DEF Saved, EnrolmentTypeOK, JobsSorted, Sorted
<1>9. CASE KeepPlace(w)
  <2>1. /\ status' = Saved(w) /\ job[w].student \in Student
        /\ UNCHANGED <<calendarTables, classes, place, current, counts, calendar, torn>>
    BY <1>9, OnStudents DEF KeepPlace
  <2> QED
    BY <1>8, <2>1, PlacesTyped DEF EnrolmentTypeOK, counts
<1>4. CASE PromoteClear(w)
  <2>1. /\ current' \subseteq current
        /\ UNCHANGED <<calendarTables, classes, status, place, counts, calendar, torn>>
    BY <1>4, Zenon DEF PromoteClear
  <2> QED
    BY <2>1, PlacesTyped DEF EnrolmentTypeOK, counts
<1>5. ASSUME NEW s \in Student, NEW y \in Session, NEW c \in Class
      PROVE  [place EXCEPT ![s][y] = c] \in [Student -> [Session -> Class \cup {None}]]
  <2>1. place[s] \in [Session -> Class \cup {None}]
    BY DEF EnrolmentTypeOK
  <2>2. [place[s] EXCEPT ![y] = c] \in [Session -> Class \cup {None}]
    BY <2>1
  <2> QED
    BY <2>2 DEF EnrolmentTypeOK
<1>6. CASE CommitPlace(w)
  <2>1. PICK s, c : s = job[w].student /\ c = job[w].class
    OBVIOUS
  <2>2. s \in Student /\ c \in Class /\ job[w].list \subseteq Session
    BY <1>6, <2>1, OnStudents DEF CommitPlace
  <2>3. PICK y \in job[w].list :
          \/ UNCHANGED <<place, status, current, torn>>
          \/ /\ place' = [place EXCEPT ![s][y] = c]
             /\ status' = Saved(w)
             /\ current' = (current \ job[w].seen) \cup {<<s, y>>}
             /\ torn' = After(w, s)
    BY <1>6, <2>1 DEF CommitPlace
  <2>4. /\ place' \in [Student -> [Session -> Class \cup {None}]]
        /\ current' \subseteq Student \X Session /\ torn' \subseteq Student
    <3>1. After(w, s) \subseteq Student /\ torn \cup {s} \subseteq Student
      BY <2>2 DEF After, EnrolmentTypeOK
    <3>2. torn' \subseteq Student
      BY <2>3, <3>1 DEF EnrolmentTypeOK
    <3>3. current' \subseteq Student \X Session
      BY <2>2, <2>3 DEF EnrolmentTypeOK
    <3>4. [place EXCEPT ![s][y] = c] \in [Student -> [Session -> Class \cup {None}]]
      BY <1>5, <2>2
    <3>5. place' \in {place, [place EXCEPT ![s][y] = c]}
      BY <2>3
    <3>6. place \in [Student -> [Session -> Class \cup {None}]]
      BY DEF EnrolmentTypeOK
    <3> QED
      BY <3>2, <3>3, <3>4, <3>5, <3>6
  <2>5. status' \in [Student -> {"absent", "ACTIVE", "WITHDRAWN", "deleted"}]
    BY <1>8, <2>1, <2>2, <2>3 DEF EnrolmentTypeOK
  <2>6. UNCHANGED <<calendarTables, classes, counts, calendar>>
    BY <1>6 DEF CommitPlace
  <2> QED
    BY <2>4, <2>5, <2>6, PlacesTyped DEF EnrolmentTypeOK, counts
<1>7. CASE PromoteInsert(w)
  <2>1. PICK s, y, c : s = job[w].student /\ y = job[w].was /\ c = job[w].class
    OBVIOUS
  <2>2. s \in Student /\ c \in Class /\ y \in Session
    BY <1>7, <2>1, OnStudents DEF PromoteInsert
  <2>3. \/ torn' = torn \cup {s} /\ UNCHANGED <<place, current>>
        \/ /\ place' = [place EXCEPT ![s][y] = c]
           /\ current' = current \cup {<<s, y>>}
           /\ torn' = After(w, s)
    BY <1>7, <2>1 DEF PromoteInsert
  <2>4. /\ place' \in [Student -> [Session -> Class \cup {None}]]
        /\ current' \subseteq Student \X Session /\ torn' \subseteq Student
    <3>1. After(w, s) \subseteq Student /\ torn \cup {s} \subseteq Student
      BY <2>2 DEF After, EnrolmentTypeOK
    <3>2. torn' \subseteq Student
      BY <2>3, <3>1 DEF EnrolmentTypeOK
    <3>3. current' \subseteq Student \X Session
      BY <2>2, <2>3 DEF EnrolmentTypeOK
    <3>4. [place EXCEPT ![s][y] = c] \in [Student -> [Session -> Class \cup {None}]]
      BY <1>5, <2>2
    <3>5. place' \in {place, [place EXCEPT ![s][y] = c]}
      BY <2>3
    <3>6. place \in [Student -> [Session -> Class \cup {None}]]
      BY DEF EnrolmentTypeOK
    <3> QED
      BY <3>2, <3>3, <3>4, <3>5, <3>6
  <2>5. UNCHANGED <<calendarTables, classes, status, counts, calendar>>
    BY <1>7 DEF PromoteInsert
  <2> QED
    BY <2>4, <2>5, PlacesTyped DEF EnrolmentTypeOK, counts
<1> QED
  BY <1>1, <1>2, <1>3, <1>4, <1>6, <1>7, <1>9, Zenon DEF StudentStep

LEMMA OfficeTyped ==
  ASSUME EnrolmentTypeOK, OfficeStep
  PROVE  EnrolmentTypeOK'
<1>0. Begin => started' \in 0 .. MaxRequests /\ crashes' \in 0 .. MaxCrashes
  BY EnrolmentAssumption DEF Begin, EnrolmentTypeOK
<1>1. ASSUME NEW t \in Term, NEW flag \in {"on", "off"}, PublishInAdmin(t, flag)
      PROVE  EnrolmentTypeOK'
  <2>1. published' \subseteq Term /\ Begin
        /\ UNCHANGED <<sessions, currentSession, currentTerm, studentTables, calendar, torn>>
    BY <1>1 DEF PublishInAdmin, EnrolmentTypeOK
  <2> QED
    BY <1>0, <2>1 DEF EnrolmentTypeOK, studentTables
<1>2. ASSUME NEW gone, Remove(gone)
      PROVE  /\ Begin /\ UNCHANGED <<calendarTables, calendar>>
             /\ place' \in [Student -> [Session -> Class \cup {None}]]
             /\ current' \subseteq Student \X Session /\ torn' \subseteq Student
  BY <1>2 DEF Remove, EnrolmentTypeOK
<1>3. ASSUME NEW s \in Student, DeleteStudent(s)
      PROVE  EnrolmentTypeOK'
  <2>1. PICK gone : Remove(gone)
    BY <1>3 DEF DeleteStudent
  <2>2. status' = [status EXCEPT ![s] = "deleted"] /\ classes' = classes
    BY <1>3 DEF DeleteStudent
  <2> QED
    BY <1>0, <1>2, <2>1, <2>2, PlacesTyped DEF EnrolmentTypeOK
<1>5. ASSUME NEW c \in Class, CreateClass(c)
      PROVE  EnrolmentTypeOK'
  BY <1>0, <1>5, PlacesTyped DEF CreateClass, EnrolmentTypeOK
<1>6. ASSUME NEW c \in Class, DeleteClass(c)
      PROVE  EnrolmentTypeOK'
  <2>1. PICK gone : Remove(gone)
    BY <1>6 DEF DeleteClass
  <2>2. classes' = classes \ {c} /\ UNCHANGED status
    BY <1>6 DEF DeleteClass
  <2> QED
    BY <1>0, <1>2, <2>1, <2>2, PlacesTyped DEF EnrolmentTypeOK
<1> QED
  BY <1>1, <1>3, <1>5, <1>6, Zenon DEF OfficeStep

\* Every table and counter has its type.
THEOREM EnrolmentTypeCorrect == Spec => []EnrolmentTypeOK
<1>1. Init => EnrolmentTypeOK
  <2> SUFFICES ASSUME Init PROVE EnrolmentTypeOK
    OBVIOUS
  <2>1. CASE Empty
    BY <2>1, EnrolmentAssumption DEF Init, Empty, EnrolmentTypeOK
  <2>2. CASE Running
    BY <2>2, Named, EnrolmentAssumption DEF Init, Running, EnrolmentTypeOK
  <2> QED
    BY <2>1, <2>2 DEF Init
<1>2. EnrolmentTypeOK /\ CalendarInv /\ [Next]_vars => EnrolmentTypeOK'
  <2> SUFFICES ASSUME EnrolmentTypeOK, CalendarInv, [Next]_vars PROVE EnrolmentTypeOK'
    OBVIOUS
  <2>1. JobsSorted
    BY DEF CalendarInv
  <2>2. ASSUME NEW w \in Worker, Crash(w)
        PROVE  EnrolmentTypeOK'
    <3>1. crashes' \in 0 .. MaxCrashes
      BY <2>2, EnrolmentAssumption DEF Crash, EnrolmentTypeOK
    <3>2. torn' \subseteq Student
      BY <2>1, <2>2, WorksOn DEF Crash, EnrolmentTypeOK
    <3>3. calendar' \in {calendar, "muddled"}
          /\ UNCHANGED <<calendarTables, studentTables, started>>
      BY <2>2 DEF Crash
    <3> QED
      BY <3>1, <3>2, <3>3 DEF EnrolmentTypeOK, calendarTables, studentTables
  <2>3. CASE UNCHANGED vars
    BY <2>3 DEF vars, calendarTables, studentTables, counts, EnrolmentTypeOK
  <2> QED
    BY <2>1, <2>2, <2>3, CalendarTyped, StudentTyped, OfficeTyped DEF Next
<1> QED
  BY <1>1, <1>2, CalendarInvariant, PTL DEF Spec

-----------------------------------------------------------------------------
(* Nobody drops out *)

\* Requests that are on one student at once are not alone.
Met ==
  \A w, v \in Worker :
    w # v /\ job[w].student = job[v].student /\ job[w].student # None => job[w].alone = "no"

\* A request that is alone on a student has seen what is current, or taken it away.
Saw(j) ==
  j.alone = "yes" =>
    /\ j.todo = <<"place">> =>
         CurrentOf(j.student) \subseteq j.seen \cup ({j.student} \X j.list)
    /\ j.todo = <<"insert">> => CurrentOf(j.student) = {}

Inserting(w, s) == job[w].todo = <<"insert">> /\ job[w].student = s

\* A student no request has left half-way has a class, or will be given it at once.
Settled(s) ==
  /\ s \notin torn
  /\ \E y \in Session : place[s][y] # None
  /\ \A w \in Worker : ~Inserting(w, s)
  => \E e : CurrentOf(s) = {e}

StudentInv ==
  /\ JobsSorted
  /\ DOMAIN place = Student
  /\ Met
  /\ \A w \in Worker : Saw(job[w])
  /\ \A s \in Student : Settled(s)

LEMMA SawKept ==
  ASSUME NEW j, Saw(j),
         j.todo \in {<<"place">>, <<"insert">>} => CurrentOf(j.student)' = CurrentOf(j.student)
  PROVE  Saw(j)'
<1>1. PICK t : t = j.todo
  OBVIOUS
<1>2. CASE t \in {<<"place">>, <<"insert">>}
  <2>1. CurrentOf(j.student)' = CurrentOf(j.student)
    BY <1>1, <1>2
  <2> QED
    BY <2>1 DEF Saw
<1>3. CASE t \notin {<<"place">>, <<"insert">>}
  BY <1>1, <1>3 DEF Saw
<1> QED
  BY <1>2, <1>3

LEMMA SettledKept ==
  ASSUME NEW s \in Student, Settled(s), s \notin torn' => s \notin torn,
         \A y \in Session : place'[s][y] # None => place[s][y] # None,
         (\A w \in Worker : ~Inserting(w, s)') => \A w \in Worker : ~Inserting(w, s),
         s \notin torn' => CurrentOf(s)' = CurrentOf(s)
  PROVE  Settled(s)'
<1> SUFFICES ASSUME s \notin torn', \E y \in Session : place'[s][y] # None,
                    \A w \in Worker : ~Inserting(w, s)'
             PROVE  \E e : CurrentOf(s)' = {e}
  BY DEF Settled
<1>1. \E e : CurrentOf(s) = {e}
  BY DEF Settled
<1> QED
  BY <1>1

\* What CurrentOf depends on.
LEMMA CurrentRests ==
  ASSUME UNCHANGED current, NEW s
  PROVE  CurrentOf(s)' = CurrentOf(s)
BY DEF CurrentOf, Enrolments

\* Steps of requests that are on no student.
LEMMA ElsewhereKeeps ==
  ASSUME StudentInv, JobsSorted', UNCHANGED <<place, current, torn>>,
         \A v \in Worker : IF job[v].student = None THEN job'[v].student = None
                           ELSE job'[v] = job[v]
  PROVE  StudentInv'
<1>1. \A v \in Worker : /\ job'[v].student = job[v].student
                        /\ job'[v].student # None => job'[v] = job[v]
  OBVIOUS
<1>2. \A v \in Worker : /\ job[v].todo \in {<<"place">>, <<"insert">>} => job[v].student # None
                        /\ job'[v].todo \in {<<"place">>, <<"insert">>} => job'[v].student # None
  BY OnOne DEF StudentInv, JobsSorted
<1>3. Met'
  BY <1>1 DEF StudentInv, Met
<1>4. ASSUME NEW v \in Worker PROVE Saw(job[v])'
  <2>1. CASE job'[v].student = None
    BY <1>2, <2>1 DEF Saw
  <2>2. CASE job'[v].student # None
    <3>1. PICK j : j = job[v]
      OBVIOUS
    <3>2. j = job'[v] /\ Saw(j)
      BY <1>1, <2>2, <3>1 DEF StudentInv
    <3>3. Saw(j)'
      BY <3>2, SawKept, CurrentRests
    <3> QED
      BY <3>2, <3>3 DEF Saw
  <2> QED
    BY <2>1, <2>2
<1>5. ASSUME NEW s \in Student PROVE Settled(s)'
  <2>1. Settled(s)
    BY DEF StudentInv
  <2>2. \A w \in Worker : Inserting(w, s)' <=> Inserting(w, s)
    BY <1>1, <1>2 DEF Inserting
  <2> QED
    BY <2>1, <2>2, SettledKept, CurrentRests
<1> QED
  BY <1>3, <1>4, <1>5 DEF StudentInv

\* A request leaves a student: what it did is done, and noted if it was not alone.
LEMMA LeavingKeeps ==
  ASSUME StudentInv, JobsSorted', NEW w \in Worker, NEW s \in Student,
         job[w].student = s, job'[w].student = None,
         \A v \in Worker \ {w} : job'[v] = job[v],
         DOMAIN place' = Student,
         \A z \in Student \ {s} : /\ place'[z] = place[z]
                                  /\ CurrentOf(z)' = CurrentOf(z)
                                  /\ z \in torn' <=> z \in torn,
         \/ s \in torn'
         \/ \E e : CurrentOf(s)' = {e}
         \/ /\ UNCHANGED <<place, current, torn>>
            /\ job[w].todo # <<"insert">>
  PROVE  StudentInv'
<1>1. /\ \A v \in Worker :
            /\ job[v].todo \in {<<"place">>, <<"insert">>} => job[v].student \in Student
            /\ job'[v].todo \in {<<"place">>, <<"insert">>} => job'[v].student \in Student
      /\ None \notin Student
  BY OnOne, Named DEF StudentInv, JobsSorted
<1>2. Met'
  BY <1>1 DEF StudentInv, Met
<1>3. ASSUME NEW v \in Worker PROVE Saw(job[v])'
  <2>1. CASE job'[v].todo \notin {<<"place">>, <<"insert">>} \/ job'[v].alone # "yes"
    BY <2>1 DEF Saw
  <2>2. CASE job'[v].todo \in {<<"place">>, <<"insert">>} /\ job'[v].alone = "yes"
    <3>1. v # w /\ job'[v] = job[v] /\ job[v].student \in Student
      BY <1>1, <2>2
    <3>2. job[v].student # s
      BY <1>1, <2>2, <3>1 DEF StudentInv, Met
    <3>3. PICK j : j = job[v]
      OBVIOUS
    <3>4. CurrentOf(j.student)' = CurrentOf(j.student) /\ Saw(j)
      BY <3>1, <3>2, <3>3 DEF StudentInv
    <3>5. Saw(j)'
      BY <3>4, SawKept
    <3> QED
      BY <3>1, <3>3, <3>5 DEF Saw
  <2> QED
    BY <2>1, <2>2
<1>4. ASSUME NEW z \in Student PROVE Settled(z)'
  <2>0. Settled(z)
    BY DEF StudentInv
  <2>1. CASE z # s
    <3>1. \A v \in Worker : Inserting(v, z)' <=> Inserting(v, z)
      BY <1>1, <2>1 DEF Inserting
    <3>2. place'[z] = place[z] /\ CurrentOf(z)' = CurrentOf(z) /\ (z \in torn' <=> z \in torn)
      BY <2>1
    <3> QED
      BY <2>0, <3>1, <3>2, SettledKept
  <2>2. CASE z = s /\ UNCHANGED <<place, current, torn>> /\ job[w].todo # <<"insert">>
    <3>1. \A v \in Worker : ~Inserting(v, z)' => ~Inserting(v, z)
      BY <2>2 DEF Inserting
    <3> QED
      BY <2>0, <2>2, <3>1, CurrentRests, SettledKept
  <2>3. CASE z = s /\ (s \in torn' \/ \E e : CurrentOf(s)' = {e})
    BY <2>3 DEF Settled
  <2> QED
    BY <2>1, <2>2, <2>3
<1> QED
  BY <1>2, <1>3, <1>4 DEF StudentInv

\* A request takes up a student: it has only begun, or has taken what is current away.
LEMMA TakingUpKeeps ==
  ASSUME StudentInv, JobsSorted', NEW w \in Worker, job[w].student = None,
         NEW s \in Student, NEW j, Sorted(j), j.student = s, TakeUp(w, j),
         UNCHANGED <<place, torn>>,
         \A z \in Student \ {s} : CurrentOf(z)' = CurrentOf(z),
         \/ UNCHANGED current /\ j.todo = <<"form">>
         \/ j.todo = <<"insert">> /\ CurrentOf(s)' = {}
  PROVE  StudentInv'
<1>1. /\ \A i : Sorted(i) => LET n == [i EXCEPT !.alone = "no"] IN
            n.todo = i.todo /\ n.student = i.student /\ n.alone = "no"
      /\ None \notin Student
  BY Named DEF Sorted, Shaped, NoJob
<1>2. /\ \A v \in Worker \ {w} :
            IF job[v].student = s
            THEN /\ job'[v].todo = job[v].todo /\ job'[v].student = s /\ job'[v].alone = "no"
            ELSE job'[v] = job[v]
      /\ job'[w].todo = j.todo /\ job'[w].student = s
      /\ IF \E u \in Worker \ {w} : job[u].student = s THEN job'[w].alone = "no"
                                                    ELSE job'[w] = j
  BY <1>1 DEF TakeUp, StudentInv, JobsSorted
<1>3. Met'
  <2> SUFFICES ASSUME NEW u \in Worker, NEW v \in Worker, u # v,
                      job'[u].student = job'[v].student, job'[u].student # None
               PROVE  job'[u].alone = "no"
    BY DEF Met
  <2>1. CASE job'[u].student = s
    BY <1>2, <2>1
  <2>2. CASE job'[u].student # s
    BY <1>2, <2>2 DEF StudentInv, Met
  <2> QED
    BY <2>1, <2>2
<1>4. \A v \in Worker : job[v].todo \in {<<"place">>, <<"insert">>} => job[v].student \in Student
  BY OnOne DEF StudentInv, JobsSorted
<1>5. ASSUME NEW v \in Worker PROVE Saw(job[v])'
  <2>1. CASE job'[v].alone # "yes"
    BY <2>1 DEF Saw
  <2>2. CASE job'[v].alone = "yes" /\ v # w
    <3>1. job'[v] = job[v] /\ job[v].student # s
      BY <1>2, <2>2
    <3>2. PICK i : i = job[v]
      OBVIOUS
    <3>3. Saw(i) /\ (i.todo \in {<<"place">>, <<"insert">>}
                       => CurrentOf(i.student)' = CurrentOf(i.student))
      BY <1>4, <3>1, <3>2 DEF StudentInv
    <3>4. Saw(i)'
      BY <3>3, SawKept
    <3> QED
      BY <3>1, <3>2, <3>4 DEF Saw
  <2>3. CASE job'[v].alone = "yes" /\ v = w
    <3>1. job'[v] = j
      BY <1>2, <2>3
    <3>2. CASE j.todo = <<"form">>
      <4>1. job'[v].todo \notin {<<"place">>, <<"insert">>}
        BY <3>1, <3>2
      <4> QED
        BY <4>1 DEF Saw
    <3>3. CASE j.todo = <<"insert">> /\ CurrentOf(s)' = {}
      <4>1. CurrentOf(job[v].student)' = CurrentOf(s)'
        BY <3>1
      <4>2. job'[v].todo # <<"place">>
        BY <3>1, <3>3
      <4> QED
        BY <3>3, <4>1, <4>2 DEF Saw
    <3> QED
      BY <3>2, <3>3
  <2> QED
    BY <2>1, <2>2, <2>3
<1>6. ASSUME NEW z \in Student PROVE Settled(z)'
  <2>0. Settled(z)
    BY DEF StudentInv
  <2>1. CASE z = s /\ j.todo = <<"insert">>
    <3>1. Inserting(w, s)'
      BY <1>2, <2>1 DEF Inserting
    <3> QED
      BY <2>1, <3>1 DEF Settled
  <2>2. CASE z # s \/ UNCHANGED current
    <3>1. \A v \in Worker : ~Inserting(v, z)' => ~Inserting(v, z)
      BY <1>1, <1>2 DEF Inserting
    <3>2. CurrentOf(z)' = CurrentOf(z)
      BY <2>2, CurrentRests
    <3> QED
      BY <2>0, <3>1, <3>2, SettledKept
  <2> QED
    BY <2>1, <2>2
<1> QED
  BY <1>3, <1>5, <1>6 DEF StudentInv

\* A request on a student has read what is current.
LEMMA GoingOnKeeps ==
  ASSUME StudentInv, JobsSorted', NEW w \in Worker, NEW s \in Student, NEW y \in job[w].list,
         job[w].student = s, job[w].todo = <<"form">>,
         UNCHANGED <<place, current, torn>>,
         job'[w].todo = <<"place">>, job'[w].student = s, job'[w].list = job[w].list,
         CurrentOf(s) \ {<<s, y>>} \subseteq job'[w].seen, job'[w].alone = job[w].alone,
         \A v \in Worker \ {w} : job'[v] = job[v]
  PROVE  StudentInv'
<1>1. \A z : CurrentOf(z)' = CurrentOf(z)
  BY CurrentRests
<1>2. Met'
  BY DEF StudentInv, Met
<1>3. ASSUME NEW v \in Worker PROVE Saw(job[v])'
  <2>1. CASE v = w
    <3>1. CurrentOf(s) \subseteq job'[w].seen \cup ({s} \X job'[w].list)
      OBVIOUS
    <3> QED
      BY <1>1, <2>1, <3>1 DEF Saw
  <2>2. CASE v # w
    <3>1. PICK j : j = job[v]
      OBVIOUS
    <3>2. Saw(j)'
      BY <1>1, <3>1, SawKept DEF StudentInv
    <3> QED
      BY <2>2, <3>1, <3>2 DEF Saw
  <2> QED
    BY <2>1, <2>2
<1>4. ASSUME NEW z \in Student PROVE Settled(z)'
  <2>1. Settled(z)
    BY DEF StudentInv
  <2>2. \A v \in Worker : ~Inserting(v, z)' => ~Inserting(v, z)
    BY DEF Inserting
  <2> QED
    BY <1>1, <2>1, <2>2, SettledKept
<1> QED
  BY <1>2, <1>3, <1>4 DEF StudentInv

\* Enrolments are deleted: who loses the current one is noted.
LEMMA RemoveKeeps ==
  ASSUME StudentInv, NEW gone, Remove(gone)
  PROVE  StudentInv'
<1>1. /\ place' = [s \in Student |-> [y \in Session |->
                 IF <<s, y>> \in gone THEN None ELSE place[s][y]]]
      /\ job' = job
  BY DEF Remove
<1>2. \A s : CurrentOf(s)' = CurrentOf(s) \ gone
  BY DEF Remove, CurrentOf, Enrolments
<1>3. JobsSorted' /\ Met'
  BY <1>1 DEF StudentInv, JobsSorted, Sorted, Met, Enrolments
<1>4. ASSUME NEW v \in Worker PROVE Saw(job[v])'
  <2>1. PICK j : j = job[v]
    OBVIOUS
  <2>2. Saw(j)
    BY <2>1 DEF StudentInv
  <2>3. CurrentOf(j.student)' \subseteq CurrentOf(j.student)
    BY <1>2
  <2>4. Saw(j)'
    BY <2>2, <2>3 DEF Saw
  <2> QED
    BY <1>1, <2>1, <2>4 DEF Saw
<1>5. ASSUME NEW s \in Student PROVE Settled(s)'
  <2>1. Settled(s) /\ \A w \in Worker : Inserting(w, s)' <=> Inserting(w, s)
    BY <1>1 DEF StudentInv, Inserting
  <2>2. \A y \in Session : place'[s][y] # None => place[s][y] # None
    BY <1>1
  <2>3. /\ s \notin torn' => s \notin torn
        /\ s \notin torn' => CurrentOf(s)' = CurrentOf(s)
    BY <1>2 DEF Remove
  <2> QED
    BY <2>1, <2>2, <2>3, SettledKept
<1> QED
  BY <1>1, <1>3, <1>4, <1>5 DEF StudentInv

\* Who is on the calendar is on no student, and a step of the calendar leaves those on
\* a student alone.
LEMMA CalendarStepElsewhere ==
  ASSUME StudentInv, NEW w \in Worker, CalendarStep(w)
  PROVE  /\ UNCHANGED <<place, current, torn>>
         /\ \A v \in Worker : IF job[v].student = None THEN job'[v].student = None
                              ELSE job'[v] = job[v]
<1> DEFINE Passes == /\ UNCHANGED <<place, current, torn>>
                     /\ \A v \in Worker : IF job[v].student = None THEN job'[v].student = None
                                          ELSE job'[v] = job[v]
<1>1. \A v \in Worker : /\ Sorted(job[v])
                        /\ OnCalendar(v) \/ Idle(v) => job[v].student = None
  BY Named DEF StudentInv, JobsSorted, Sorted, OnCalendar, Idle, NoJob
<1>2. \A i : Sorted(i) => [i EXCEPT !.alone = "no"].student = i.student
  BY DEF Sorted, Shaped, NoJob
<1>3. ASSUME NEW j, j.student = None, Sorted(j), Together(w, j), Idle(w),
             UNCHANGED <<place, current, torn>>
      PROVE  Passes
  <2>1. CASE \E v \in Worker \ {w} : OnCalendar(v)
    <3>1. job' = [v \in Worker |->
             IF v = w THEN [j EXCEPT !.alone = "no"]
             ELSE IF OnCalendar(v) THEN [job[v] EXCEPT !.alone = "no"] ELSE job[v]]
      BY <1>3, <2>1 DEF Together
    <3> QED
      BY <1>1, <1>2, <1>3, <3>1
  <2>2. CASE ~ \E v \in Worker \ {w} : OnCalendar(v)
    <3>1. job' = [job EXCEPT ![w] = j]
      BY <1>3, <2>2 DEF Together
    <3> QED
      BY <1>1, <1>3, <3>1 DEF StudentInv, JobsSorted
  <2> QED
    BY <2>1, <2>2
<1>4. ASSUME NEW f \in {"on", "off"}, Step(w, [job[w] EXCEPT !.flag = f]), OnCalendar(w),
             UNCHANGED <<place, current, torn>>
      PROVE  Passes
  <2>1. PICK j : j = [job[w] EXCEPT !.flag = f]
    OBVIOUS
  <2>2. PICK rest : rest = [j EXCEPT !.todo = Tail(@)]
    OBVIOUS
  <2>3. rest.student = None /\ NoJob.student = None /\ job[w].student = None
    BY <1>1, <1>4, <2>1, <2>2 DEF Sorted, Shaped, NoJob
  <2>4. Step(w, j)
    BY <1>4, <2>1
  <2>5. job' = [job EXCEPT ![w] = rest] \/ job' = [job EXCEPT ![w] = NoJob]
    BY <2>2, <2>4 DEF Step
  <2> HIDE DEF NoJob
  <2> QED
    BY <1>4, <2>3, <2>5 DEF StudentInv, JobsSorted
<1>5. \A v \in Worker : /\ job[v] = [job[v] EXCEPT !.flag = job[v].flag]
                        /\ job[v].flag \in {"on", "off"}
  BY <1>1 DEF Sorted, Shaped, NoJob
<1>6. \A step \in {"create", "clearSessions", "session", "open", "clearTerms", "term", "flag"} :
        Doing(w, step) => OnCalendar(w)
  <2>1. /\ \A q \in {<<"place">>, <<"insert">>, <<"promote">>} :
              q[1] \notin {"create", "clearSessions", "session", "open", "clearTerms", "term", "flag"}
    OBVIOUS
  <2> QED
    BY <1>1, <2>1, Named DEF Sorted, Doing, OnCalendar
<1>7. ASSUME \/ ClearSessions(w) \/ SaveSession(w)
             \/ ClearTerms(w) \/ SaveTerm(w) \/ SaveFlag(w)
      PROVE  Passes
  <2>1. Step(w, job[w]) /\ OnCalendar(w) /\ UNCHANGED <<place, current, torn>>
    BY <1>6, <1>7 DEF ClearSessions, SaveSession, ClearTerms, SaveTerm, SaveFlag, studentTables
  <2>2. Step(w, [job[w] EXCEPT !.flag = job[w].flag])
    BY <1>5, <2>1
  <2> HIDE DEF Passes
  <2> QED
    BY <1>4, <1>5, <2>1, <2>2
<1>8. ASSUME OpenTerm(w) PROVE Passes
  <2>1. PICK f \in {"on", "off"} : Step(w, [job[w] EXCEPT !.flag = f])
    BY <1>8 DEF OpenTerm
  <2>2. OnCalendar(w) /\ UNCHANGED <<place, current, torn>>
    BY <1>6, <1>8 DEF OpenTerm, studentTables
  <2> HIDE DEF Passes
  <2> QED
    BY <1>4, <2>1, <2>2
<1>9. ASSUME CommitSession(w) PROVE Passes
  <2>1. job' = [job EXCEPT ![w] = NoJob] /\ UNCHANGED <<place, current, torn>>
        /\ NoJob.student = None /\ job[w].student = None
    BY <1>1, <1>6, <1>9 DEF CommitSession, studentTables, NoJob
  <2> QED
    BY <2>1 DEF StudentInv, JobsSorted
<1>10. ASSUME NEW y \in Session, CreateSession(w, y) PROVE Passes
  <2> DEFINE j == [NoJob EXCEPT !.todo = <<"create">>, !.session = y, !.seen = currentTerm]
  <2>1. Together(w, j) /\ Idle(w) /\ UNCHANGED <<place, current, torn>>
    BY <1>10 DEF CreateSession, studentTables
  <2>2. Sorted(j) /\ j.student = None
    BY Named DEF Sorted, Shaped, NoJob
  <2> HIDE DEF j, Passes
  <2> QED
    BY <1>3, <2>1, <2>2
<1>11. ASSUME NEW y \in Session, SetSession(w, y) PROVE Passes
  <2> DEFINE j == [NoJob EXCEPT !.session = y, !.term = <<y, 1>>,
                     !.todo = <<"clearSessions", "session", "open", "clearTerms", "term">>]
  <2>1. Together(w, j) /\ Idle(w) /\ UNCHANGED <<place, current, torn>>
    BY <1>11 DEF SetSession, studentTables
  <2>2. Sorted(j) /\ j.student = None
    BY Named DEF Sorted, Shaped, NoJob, Setting
  <2> HIDE DEF j, Passes
  <2> QED
    BY <1>3, <2>1, <2>2
<1>12. ASSUME NEW t \in Term, SetTerm(w, t) PROVE Passes
  <2> DEFINE j == [NoJob EXCEPT !.session = t[1], !.term = t,
                     !.todo = <<"open", "clearTerms", "term", "clearSessions", "session">>]
  <2>1. Together(w, j) /\ Idle(w) /\ UNCHANGED <<place, current, torn>>
    BY <1>12 DEF SetTerm, studentTables
  <2>2. Sorted(j) /\ j.student = None
    BY Named DEF Sorted, Shaped, NoJob, Moving, Term
  <2> HIDE DEF j, Passes
  <2> QED
    BY <1>3, <2>1, <2>2
<1>13. ASSUME NEW t \in Term, NEW flag \in {"on", "off"}, Publish(w, t, flag) PROVE Passes
  <2> DEFINE j == [NoJob EXCEPT !.session = t[1], !.term = t, !.flag = flag,
                     !.todo = IF t \in currentTerm THEN <<"clearTerms", "flag">> ELSE <<"flag">>]
  <2>1. Together(w, j) /\ Idle(w) /\ UNCHANGED <<place, current, torn>>
    BY <1>13 DEF Publish, studentTables
  <2>2. Sorted(j) /\ j.student = None
    BY Named DEF Sorted, Shaped, NoJob, Publishing, Term
  <2> HIDE DEF j, Passes
  <2> QED
    BY <1>3, <2>1, <2>2
<1>14. Passes
  <2> HIDE DEF Passes
  <2> QED
    BY <1>7, <1>8, <1>9, <1>10, <1>11, <1>12, <1>13, Zenon DEF CalendarStep
<1> QED
  BY <1>14

\* Every step on the students keeps the students' invariant.
LEMMA StudentStepKeeps ==
  ASSUME StudentInv, NEW w \in Worker, StudentStep(w)
  PROVE  StudentInv'
<1>1. /\ JobsSorted /\ JobsSorted' /\ DOMAIN job = Worker /\ DOMAIN place = Student
      /\ None \notin Student
  BY StudentStepBeside, Named DEF StudentInv, JobsSorted
<1>2. ASSUME NEW s \in Student, NEW c \in Class, NEW typed \in {"keep", "ACTIVE", "WITHDRAWN"},
             NEW E \in {{}} \cup {{y} : y \in Session}, OpenPlace(w, s, E, c, typed)
      PROVE  StudentInv'
  <2> DEFINE j == [NoJob EXCEPT !.todo = <<"form">>, !.student = s, !.class = c,
                             !.list = E, !.typed = typed]
  <2>1. TakeUp(w, j) /\ Idle(w) /\ UNCHANGED <<place, current, torn>>
    BY <1>2 DEF OpenPlace, studentTables
  <2>2. Sorted(j) /\ j.student = s /\ j.todo = <<"form">>
    BY Named DEF Sorted, Shaped, NoJob
  <2> HIDE DEF j
  <2>5. job[w].student = None
    BY <2>1 DEF Idle, NoJob
  <2>6. \A z \in Student \ {s} : CurrentOf(z)' = CurrentOf(z)
    BY <2>1, CurrentRests
  <2> QED
    BY <1>1, <2>1, <2>2, <2>5, <2>6, TakingUpKeeps
<1>8. CASE KeepPlace(w)
  <2>1. Doing(w, "form") /\ job' = [job EXCEPT ![w] = NoJob] /\ UNCHANGED <<place, current, torn>>
    BY <1>8 DEF KeepPlace
  <2>2. job[w].student \in Student /\ job[w].todo = <<"form">>
    BY <1>1, <2>1, OnStudents
  <2>3. /\ job[w].todo # <<"insert">>
        /\ \A v \in Worker \ {w} : job'[v] = job[v]
        /\ job'[w].student = None
        /\ \A z \in Student : CurrentOf(z)' = CurrentOf(z)
    BY <1>1, <2>1, <2>2, CurrentRests DEF NoJob
  <2> QED
    BY <1>1, <2>1, <2>2, <2>3, LeavingKeeps
<1>9. CASE TakePlace(w)
  <2>1. Doing(w, "form") /\ UNCHANGED <<place, current, torn>>
    BY <1>9 DEF TakePlace, studentTables
  <2>7. PICK s \in Student : s = job[w].student /\ job[w].todo = <<"form">>
    BY <1>1, <2>1, OnStudents
  <2>2. PICK y \in job[w].list, own \in SUBSET {Own(s)} :
          /\ job' = [job EXCEPT ![w] =
               [@ EXCEPT !.todo = <<"place">>, !.was = place[s][y],
                         !.seen = (CurrentOf(s) \ {<<s, y>>}) \cup own]]
    <3>1. {r \in {Own(s)} : job[w].typed # "keep"} \in SUBSET {Own(s)}
      OBVIOUS
    <3> QED
      BY <1>9, <2>7, <3>1 DEF TakePlace
  <2>3. Sorted(job[w])
    BY <1>1 DEF JobsSorted
  <2>4. /\ job'[w].todo = <<"place">> /\ job'[w].student = s /\ job'[w].list = job[w].list
        /\ job'[w].seen = (CurrentOf(s) \ {<<s, y>>}) \cup own
        /\ job'[w].alone = job[w].alone
        /\ \A v \in Worker \ {w} : job'[v] = job[v]
    <3> DEFINE j == [job[w] EXCEPT !.todo = <<"place">>, !.was = place[s][y],
                                   !.seen = (CurrentOf(s) \ {<<s, y>>}) \cup own]
    <3>1. job' = [job EXCEPT ![w] = j]
      BY <1>1, <2>2
    <3>2. /\ j.todo = <<"place">> /\ j.student = job[w].student /\ j.list = job[w].list
          /\ j.seen = (CurrentOf(s) \ {<<s, y>>}) \cup own
          /\ j.alone = job[w].alone
      BY <2>3 DEF Sorted, Shaped, NoJob
    <3> HIDE DEF j
    <3> QED
      BY <1>1, <2>7, <3>1, <3>2
  <2> QED
    BY <1>1, <2>1, <2>2, <2>4, <2>7, GoingOnKeeps
<1>3. ASSUME NEW S \in SUBSET Student, NEW y \in Session, NEW c \in Class, Promote(w, S, y, c)
      PROVE  StudentInv'
  <2> DEFINE j == [NoJob EXCEPT !.todo = <<"promote">>, !.class = c, !.was = y,
                     !.list = {s \in S : status[s] = "ACTIVE"}]
  <2>1. job' = [job EXCEPT ![w] = j] /\ Idle(w) /\ UNCHANGED <<place, current, torn>>
    BY <1>3 DEF Promote, studentTables
  <2>2. j.student = None /\ job[w].student = None
    BY <2>1 DEF NoJob, Idle
  <2> HIDE DEF j
  <2> QED
    BY <1>1, <2>1, <2>2, ElsewhereKeeps
<1>4. CASE PromoteEnd(w)
  <2>1. job' = [job EXCEPT ![w] = NoJob] /\ UNCHANGED <<place, current, torn>>
        /\ job[w].student = None /\ NoJob.student = None
    BY <1>1, <1>4, OnStudents DEF PromoteEnd, studentTables, NoJob
  <2> HIDE DEF NoJob
  <2> QED
    BY <1>1, <2>1, ElsewhereKeeps
<1>5. CASE PromoteClear(w)
  <2>1. Doing(w, "promote") /\ UNCHANGED <<place, torn>>
    BY <1>5 DEF PromoteClear
  <2>2. PICK s \in job[w].list :
          /\ current' = current \ CurrentOf(s)
          /\ TakeUp(w, [job[w] EXCEPT !.todo = <<"insert">>, !.student = s,
                                      !.list = @ \ {s}, !.alone = "yes"])
    BY <1>5, Zenon DEF PromoteClear
  <2> DEFINE j == [job[w] EXCEPT !.todo = <<"insert">>, !.student = s,
                                   !.list = @ \ {s}, !.alone = "yes"]
  <2>3. /\ Sorted(job[w]) /\ job[w].session = None /\ job[w].class \in Class
        /\ job[w].was \in Session /\ job[w].list \subseteq Student /\ job[w].student = None
    BY <1>1, <2>1, OnStudents DEF OnCalendar
  <2>4. Sorted(j) /\ j.student = s /\ j.todo = <<"insert">> /\ s \in Student
    BY <2>3 DEF Sorted, Shaped, NoJob
  <2>5. TakeUp(w, j)
    BY <2>2
  <2> HIDE DEF j
  <2>6. /\ CurrentOf(s)' = {}
        /\ \A z \in Student \ {s} : CurrentOf(z)' = CurrentOf(z)
    BY <2>2 DEF CurrentOf, Enrolments
  <2> QED
    BY <1>1, <2>1, <2>3, <2>4, <2>5, <2>6, TakingUpKeeps
<1>6. CASE CommitPlace(w)
  <2>1. Doing(w, "place") /\ job' = [job EXCEPT ![w] = NoJob]
    BY <1>6 DEF CommitPlace
  <2>2. /\ job[w].student \in Student /\ job[w].todo = <<"place">>
        /\ job[w].seen \subseteq {job[w].student} \X (Session \cup {None})
        /\ \E y \in Session : job[w].list = {y}
        /\ job[w].alone \in {"yes", "no"}
    BY <1>1, <2>1, OnStudents DEF Sorted
  <2>3. PICK s, y : s = job[w].student /\ y \in Session /\ job[w].list = {y}
    BY <2>2
  <2>4. \A v \in Worker \ {w} : job'[v] = job[v]
    BY <1>1, <2>1
  <2>5. job'[w].student = None
    BY <1>1, <2>1 DEF NoJob
  <2>6. CASE UNCHANGED <<place, current, torn>>
    <3>1. job[w].todo # <<"insert">>
      BY <2>2
    <3>2. \A z \in Student \ {s} : CurrentOf(z)' = CurrentOf(z)
      BY <2>6, CurrentRests
    <3> QED
      BY <1>1, <2>2, <2>3, <2>4, <2>5, <2>6, <3>1, <3>2, LeavingKeeps
  <2>7. CASE ~UNCHANGED <<place, current, torn>>
    <3>1. PICK x \in job[w].list :
            /\ place' = [place EXCEPT ![s][x] = job[w].class]
            /\ current' = (current \ job[w].seen) \cup {<<s, x>>}
            /\ torn' = After(w, s)
      BY <1>6, <2>3, <2>7 DEF CommitPlace
    <3>2. /\ DOMAIN place' = Student
          /\ \A z \in Student \ {s} : place'[z] = place[z]
      BY <1>1, <3>1
    <3>3. \A z \in Student \ {s} : z \in torn' <=> z \in torn
      BY <3>1 DEF After
    <3>4. \A z \in Student \ {s} : CurrentOf(z)' = CurrentOf(z)
      BY <2>2, <2>3, <3>1 DEF CurrentOf, Enrolments
    <3>5. s \in torn' \/ \E e : CurrentOf(s)' = {e}
      <4>1. CASE job[w].alone = "no"
        BY <3>1, <4>1 DEF After
      <4>2. CASE job[w].alone = "yes"
        <5>1. CurrentOf(s) \subseteq job[w].seen \cup ({s} \X {y})
          BY <2>2, <2>3, <4>2 DEF StudentInv, Saw
        <5>2. x = y
          BY <2>3, <3>1
        <5>3. CurrentOf(s)' = {<<s, y>>}
          BY <2>3, <3>1, <5>1, <5>2 DEF CurrentOf, Enrolments
        <5> QED
          BY <5>3
      <4> QED
        BY <2>2, <4>1, <4>2
    <3> QED
      BY <1>1, <2>2, <2>3, <2>4, <2>5, <3>2, <3>3, <3>4, <3>5, LeavingKeeps
  <2> QED
    BY <2>6, <2>7
<1>7. CASE PromoteInsert(w)
  <2>1. Doing(w, "insert")
    BY <1>7 DEF PromoteInsert
  <2>2. /\ job[w].student \in Student /\ job[w].todo = <<"insert">> /\ Sorted(job[w])
        /\ job[w].was \in Session /\ job[w].alone \in {"yes", "no"}
    BY <1>1, <2>1, OnStudents DEF Sorted
  <2>3. PICK s, y, j : /\ s = job[w].student /\ y = job[w].was
                       /\ j = [job[w] EXCEPT !.todo = <<"promote">>, !.student = None]
    OBVIOUS
  <2>4. j.student = None /\ NoJob.student = None
    BY <2>2, <2>3 DEF Sorted, Shaped, NoJob
  <2>5. job' = [job EXCEPT ![w] = NoJob] \/ job' = [job EXCEPT ![w] = j]
    BY <1>1, <1>7, <2>3 DEF PromoteInsert
  <2>6. /\ \A v \in Worker \ {w} : job'[v] = job[v]
        /\ job'[w].student = None
    <3> HIDE DEF NoJob
    <3> QED
      BY <1>1, <2>4, <2>5
  <2>7. CASE torn' = torn \cup {s} /\ UNCHANGED <<place, current>>
    <3>1. \A z \in Student \ {s} : CurrentOf(z)' = CurrentOf(z) /\ (z \in torn' <=> z \in torn)
      BY <2>7, CurrentRests
    <3> QED
      BY <1>1, <2>2, <2>3, <2>6, <2>7, <3>1, LeavingKeeps
  <2>8. CASE /\ place' = [place EXCEPT ![s][y] = job[w].class]
             /\ current' = current \cup {<<s, y>>}
             /\ torn' = After(w, s)
    <3>1. /\ DOMAIN place' = Student
          /\ \A z \in Student \ {s} : place'[z] = place[z]
      BY <1>1, <2>8
    <3>2. \A z \in Student \ {s} : z \in torn' <=> z \in torn
      BY <2>8 DEF After
    <3>3. \A z \in Student \ {s} : CurrentOf(z)' = CurrentOf(z)
      BY <2>8 DEF CurrentOf, Enrolments
    <3>4. s \in torn' \/ \E e : CurrentOf(s)' = {e}
      <4>1. CASE job[w].alone = "no"
        BY <2>8, <4>1 DEF After
      <4>2. CASE job[w].alone = "yes"
        <5>1. CurrentOf(s) = {}
          BY <2>2, <2>3, <4>2 DEF StudentInv, Saw
        <5>2. CurrentOf(s)' = {<<s, y>>}
          BY <2>2, <2>3, <2>8, <5>1 DEF CurrentOf, Enrolments
        <5> QED
          BY <5>2
      <4> QED
        BY <2>2, <4>1, <4>2
    <3> QED
      BY <1>1, <2>2, <2>3, <2>6, <3>1, <3>2, <3>3, <3>4, LeavingKeeps
  <2> QED
    BY <1>7, <2>3, <2>7, <2>8 DEF PromoteInsert
<1> QED
  BY <1>2, <1>3, <1>4, <1>5, <1>6, <1>7, <1>8, <1>9, Zenon DEF StudentStep

LEMMA StudentNext ==
  ASSUME CalendarInv, StudentInv, [Next]_vars
  PROVE  StudentInv'
<1>1. JobsSorted /\ JobsSorted'
  BY CalendarNext DEF CalendarInv
<1>2. ASSUME NEW w \in Worker, CalendarStep(w)
      PROVE  StudentInv'
  BY <1>1, <1>2, CalendarStepElsewhere, ElsewhereKeeps
<1>3. ASSUME NEW w \in Worker, Crash(w)
      PROVE  StudentInv'
  <2>1. /\ job' = [job EXCEPT ![w] = NoJob] /\ UNCHANGED <<place, current>>
        /\ torn' = IF Doing(w, "insert") THEN torn \cup {job[w].student} ELSE torn
    BY <1>3 DEF Crash, studentTables
  <2>2. /\ job'[w] = NoJob /\ NoJob.student = None
        /\ \A v \in Worker \ {w} : job'[v] = job[v]
    BY <1>1, <2>1 DEF JobsSorted, NoJob
  <2>3. JobsSorted'
    BY <1>1
  <2>4. Sorted(job[w]) /\ None \notin Student
    BY <1>1, Named DEF JobsSorted
  <2>5. CASE job[w].student = None
    <3>1. ~Doing(w, "insert")
      BY <1>1, <2>4, <2>5, OnStudents
    <3> QED
      BY <2>1, <2>2, <2>3, <2>5, <3>1, ElsewhereKeeps
  <2>6. CASE job[w].student # None
    <3>1. PICK s \in Student : s = job[w].student
      BY <2>4, <2>6 DEF Sorted
    <3>2. Doing(w, "insert") \/ job[w].todo # <<"insert">>
      <4>1. <<"insert">> # <<>> /\ <<"insert">>[1] = "insert"
        OBVIOUS
      <4> QED
        BY <4>1 DEF Doing
    <3>3. \A z \in Student \ {s} : CurrentOf(z)' = CurrentOf(z) /\ (z \in torn' <=> z \in torn)
      BY <2>1, <3>1, CurrentRests
    <3>4. s \in torn' \/ (UNCHANGED <<place, current, torn>> /\ job[w].todo # <<"insert">>)
      BY <2>1, <3>1, <3>2
    <3> QED
      BY <2>1, <2>2, <2>3, <3>1, <3>3, <3>4, LeavingKeeps DEF StudentInv
  <2> QED
    BY <2>5, <2>6
<1>4. ASSUME NEW t \in Term, NEW flag \in {"on", "off"}, PublishInAdmin(t, flag)
      PROVE  StudentInv'
  <2>1. /\ job' = [v \in Worker |->
              IF OnCalendar(v) THEN [job[v] EXCEPT !.alone = "no"] ELSE job[v]]
        /\ UNCHANGED <<place, current, torn>>
    BY <1>4 DEF PublishInAdmin, studentTables
  <2>2. \A v \in Worker : OnCalendar(v) =>
           job[v].student = None /\ [job[v] EXCEPT !.alone = "no"].student = None
    BY <1>1 DEF JobsSorted, Sorted, Shaped, NoJob, OnCalendar
  <2>3. \A v \in Worker : IF job[v].student = None THEN job'[v].student = None
                          ELSE job'[v] = job[v]
    BY <2>1, <2>2
  <2> QED
    BY <1>1, <2>1, <2>3, ElsewhereKeeps
<1>5. ASSUME UNCHANGED <<job, place, current, torn>>
      PROVE  StudentInv'
  BY <1>1, <1>5, ElsewhereKeeps
<1>6. ASSUME NEW s \in Student, DeleteStudent(s)
      PROVE  StudentInv'
  BY <1>6, RemoveKeeps DEF DeleteStudent
<1>7. ASSUME NEW c \in Class, CreateClass(c) \/ DeleteClass(c)
      PROVE  StudentInv'
  BY <1>5, <1>7, RemoveKeeps DEF CreateClass, DeleteClass
<1>8. CASE OfficeStep
  BY <1>4, <1>6, <1>7, <1>8, Zenon DEF OfficeStep
<1>9. CASE UNCHANGED vars
  BY <1>5, <1>9 DEF vars, studentTables
<1> QED
  BY <1>2, <1>3, <1>8, <1>9, StudentStepKeeps DEF Next

LEMMA StudentInit ==
  ASSUME Init
  PROVE  StudentInv
<1>1. /\ \A w \in Worker : job[w] = NoJob
      /\ NoJob.student = None /\ NoJob.todo = <<>> /\ <<>> # <<"place">> /\ <<>> # <<"insert">>
  BY DEF Init, NoJob
<1>2. JobsSorted /\ Met /\ (\A w \in Worker : Saw(job[w])) /\ DOMAIN place = Student
  <2>1. DOMAIN place = Student
    BY DEF Init, Empty, Running
  <2> HIDE DEF NoJob
  <2>2. JobsSorted
    BY <1>1, NoJobSorted DEF Init, JobsSorted
  <2> QED
    BY <1>1, <2>1, <2>2 DEF Met, Saw
<1>3. ASSUME NEW s \in Student PROVE Settled(s)
  <2>1. CASE Empty
    BY <2>1 DEF Empty, Settled
  <2>2. CASE Running
    <3>1. PICK y \in Session : current = Student \X {y}
      BY <2>2 DEF Running
    <3>2. CurrentOf(s) = {<<s, y>>}
      BY <3>1 DEF CurrentOf, Enrolments
    <3> QED
      BY <3>2 DEF Settled
  <2> QED
    BY <2>1, <2>2 DEF Init
<1> QED
  BY <1>2, <1>3 DEF StudentInv

LEMMA StudentInvariant == Spec => []StudentInv
<1>1. Init => StudentInv
  BY StudentInit
<1>2. CalendarInv /\ StudentInv /\ [Next]_vars => StudentInv'
  BY StudentNext
<1> QED
  BY <1>1, <1>2, CalendarInvariant, PTL DEF Spec

\* A student who has been in a class, on whom no request is at work and whom none has
\* left half-way, has exactly one current class.
THEOREM EveryoneHasAClass == Spec => []NobodyDropsOut
<1>1. ASSUME StudentInv
      PROVE  NobodyDropsOut
  <2> SUFFICES ASSUME NEW s \in Student, s \notin torn,
                      \A w \in Worker : job[w].student # s,
                      \E y \in Session : place[s][y] # None
               PROVE  Cardinality(CurrentOf(s)) = 1
    BY DEF NobodyDropsOut
  <2>1. PICK e : CurrentOf(s) = {e}
    BY <1>1 DEF StudentInv, Settled, Inserting
  <2> QED
    BY <2>1, FS_Singleton
<1> QED
  BY <1>1, StudentInvariant, PTL

-----------------------------------------------------------------------------
(* The stock *)

\* A busy worker holds an item that exists.
JobsSound == \A w \in Storekeeper : hand[w].phase # "idle" => hand[w].item \in items

\* An item that does not exist yet has neither stock nor log.
Untouched == \A i \in Item \ items : stock[i] = 0 /\ log[i] = <<>>

InventoryInv == InventoryTypeOK /\ JobsSound /\ Untouched /\ LedgerRight

-----------------------------------------------------------------------------
(* The log *)

\* Appending a movement keeps the chain, when its balance continues it.
LEMMA ChainGrows ==
  ASSUME NEW l \in Seq(Movement), NEW m \in Movement, Chained(l),
         m.balance = Balance(l) + m.change
  PROVE  /\ Chained(Append(l, m))
         /\ Balance(Append(l, m)) = m.balance
<1> DEFINE n == Append(l, m)
<1>1. Len(n) = Len(l) + 1 /\ n[Len(n)] = m /\ n # <<>>
      /\ n \in Seq(Movement)
  OBVIOUS
<1>2. Balance(n) = m.balance
  BY <1>1 DEF Balance
<1>3. \A k \in 1 .. Len(l) : n[k] = l[k] /\ SubSeq(n, 1, k - 1) = SubSeq(l, 1, k - 1)
  OBVIOUS
<1>4. SubSeq(n, 1, Len(l)) = l
  OBVIOUS
<1>5. Chained(n)
  <2> SUFFICES ASSUME NEW k \in 1 .. Len(n)
               PROVE  n[k].balance = Balance(SubSeq(n, 1, k - 1)) + n[k].change
    BY DEF Chained
  <2>1. CASE k \in 1 .. Len(l)
    BY <2>1, <1>3 DEF Chained
  <2>2. CASE k = Len(l) + 1
    <3>1. n[k] = m /\ k - 1 = Len(l)
      BY <2>2, <1>1
    <3>2. SubSeq(n, 1, k - 1) = l
      BY <3>1, <1>4
    <3> HIDE DEF n
    <3> QED BY <3>1, <3>2
  <2>3. k \in 1 .. Len(l) \/ k = Len(l) + 1
    BY <1>1
  <2> QED BY <2>1, <2>2, <2>3
<1> QED BY <1>2, <1>5

\* The empty log is a chain that ends with nothing.
LEMMA EmptyChain == Chained(<<>>) /\ Balance(<<>>) = 0
BY DEF Chained, Balance

\* A movement of an item that exists or is being created keeps stock and log
\* well typed and in agreement.
LEMMA MoveSound ==
  ASSUME InventoryTypeOK, NEW i \in Item, NEW k \in Kind, NEW c \in Int,
         Move(i, k, c)
  PROVE  /\ stock' \in [Item -> Nat]
         /\ log' \in [Item -> Seq(Movement)]
         /\ \A o \in Item \ {i} : stock'[o] = stock[o] /\ log'[o] = log[o]
         /\ Chained(log[i]) /\ stock[i] = Balance(log[i])
            => Chained(log'[i]) /\ stock'[i] = Balance(log'[i])
<1> DEFINE m == [kind |-> k, change |-> c, balance |-> stock[i] + c]
<1>1. stock[i] \in Nat /\ log[i] \in Seq(Movement)
  BY DEF InventoryTypeOK
<1>2. stock[i] + c \in Nat
  BY <1>1 DEF Move
<1>3. m \in Movement /\ m.balance = stock[i] + c /\ m.change = c
  BY <1>2 DEF Movement
<1>4. stock' = [stock EXCEPT ![i] = stock[i] + c]
      /\ log' = [log EXCEPT ![i] = Append(log[i], m)]
  BY DEF Move
<1> HIDE DEF m
<1>5. Append(log[i], m) \in Seq(Movement)
  BY <1>1, <1>3
<1>6. stock' \in [Item -> Nat] /\ log' \in [Item -> Seq(Movement)]
  BY <1>2, <1>4, <1>5 DEF InventoryTypeOK
<1>7. \A o \in Item \ {i} : stock'[o] = stock[o] /\ log'[o] = log[o]
  BY <1>4 DEF InventoryTypeOK
<1>8. stock'[i] = stock[i] + c /\ log'[i] = Append(log[i], m)
  BY <1>4 DEF InventoryTypeOK
<1>9. ASSUME Chained(log[i]), stock[i] = Balance(log[i])
      PROVE  Chained(log'[i]) /\ stock'[i] = Balance(log'[i])
  BY <1>1, <1>3, <1>8, <1>9, ChainGrows
<1> QED BY <1>6, <1>7, <1>9

-----------------------------------------------------------------------------
(* The invariant *)

LEMMA InventoryInit == StoreInit => InventoryInv
<1> SUFFICES ASSUME StoreInit PROVE InventoryInv
  OBVIOUS
<1>1. NoTask \in Job /\ NoTask.phase = "idle"
  BY DEF NoTask, Job
<1>2. InventoryTypeOK
  BY <1>1, InventoryAssumption DEF StoreInit, InventoryTypeOK
<1>3. JobsSound /\ Untouched /\ LedgerRight
  BY <1>1 DEF StoreInit, JobsSound, Untouched, LedgerRight
<1> QED BY <1>2, <1>3 DEF InventoryInv

\* A worker that takes up an operation, or has finished one.
LEMMA OpenSound ==
  ASSUME InventoryInv, NEW w \in Storekeeper, NEW i \in items, NEW q \in Nat,
         NEW p \in {"remove", "edit", "form"}, Open(w, p, i, q)
  PROVE  hand' \in [Storekeeper -> Job] /\ moves' \in 0 .. MaxMoves
         /\ \A x \in Storekeeper : hand'[x].phase # "idle" => hand'[x].item \in items
<1> DEFINE j == [phase |-> p, item |-> i, qty |-> q,
                 stock |-> stock[i], active |-> active[i]]
<1>1. j \in Job
  BY DEF InventoryInv, InventoryTypeOK, Job
<1>2. j.item \in items
  OBVIOUS
<1>3. hand' = [hand EXCEPT ![w] = j]
  BY DEF Open
<1> HIDE DEF j
<1>4. moves' \in 0 .. MaxMoves
  BY InventoryAssumption DEF Open, Start, InventoryInv, InventoryTypeOK
<1> QED BY <1>1, <1>2, <1>3, <1>4
        DEF InventoryInv, InventoryTypeOK, JobsSound

LEMMA CloseSound ==
  ASSUME InventoryInv, NEW w \in Storekeeper, Close(w)
  PROVE  hand' \in [Storekeeper -> Job]
         /\ \A x \in Storekeeper : hand'[x].phase # "idle" => hand'[x].item \in items
<1>1. NoTask \in Job /\ NoTask.phase = "idle"
  BY DEF NoTask, Job
<1> QED BY <1>1 DEF InventoryInv, InventoryTypeOK, JobsSound, Close

LEMMA StartSound ==
  ASSUME InventoryInv, Start PROVE moves' \in 0 .. MaxMoves
BY InventoryAssumption DEF InventoryInv, InventoryTypeOK, Start

LEMMA CreateKeeps ==
  ASSUME InventoryInv, NEW i \in Item, NEW q \in Nat, CreateItem(i, q)
  PROVE  InventoryInv'
<1>1. moves' \in 0 .. MaxMoves
  BY StartSound DEF CreateItem
<1>2. stock[i] = 0 /\ log[i] = <<>>
  BY DEF InventoryInv, Untouched, CreateItem
<1>3. /\ stock' \in [Item -> Nat]
      /\ log' \in [Item -> Seq(Movement)]
      /\ \A o \in Item \ {i} : stock'[o] = stock[o] /\ log'[o] = log[o]
      /\ Chained(log'[i]) /\ stock'[i] = Balance(log'[i])
  <2>1. CASE q > 0
    <3>1. Move(i, "PROCUREMENT", q)
      BY <2>1 DEF CreateItem
    <3>2. InventoryTypeOK /\ "PROCUREMENT" \in Kind /\ q \in Int
      BY DEF InventoryInv, Kind
    <3>3. Chained(log[i]) /\ stock[i] = Balance(log[i])
      BY <1>2, EmptyChain
    <3> QED BY <3>1, <3>2, <3>3, MoveSound
  <2>2. CASE ~ q > 0
    BY <2>2, <1>2, EmptyChain DEF CreateItem, InventoryInv, InventoryTypeOK
  <2> QED BY <2>1, <2>2
<1>4. InventoryTypeOK'
  BY <1>1, <1>3 DEF InventoryInv, InventoryTypeOK, CreateItem
<1>5. JobsSound'
  BY DEF InventoryInv, JobsSound, CreateItem
<1>6. Untouched'
  BY <1>3 DEF InventoryInv, Untouched, CreateItem
<1>7. LedgerRight'
  BY <1>3 DEF InventoryInv, InventoryTypeOK, LedgerRight, CreateItem
<1> QED BY <1>4, <1>5, <1>6, <1>7 DEF InventoryInv

LEMMA ProcureKeeps ==
  ASSUME InventoryInv, NEW i \in Item, NEW q \in Qty, Procure(i, q)
  PROVE  InventoryInv'
<1>1. q \in Int /\ moves' \in 0 .. MaxMoves
  BY StartSound, InventoryAssumption DEF Procure
<1>2. Move(i, "PROCUREMENT", q) /\ i \in items
  BY DEF Procure
<1>3. /\ stock' \in [Item -> Nat]
      /\ log' \in [Item -> Seq(Movement)]
      /\ \A o \in Item \ {i} : stock'[o] = stock[o] /\ log'[o] = log[o]
      /\ Chained(log[i]) /\ stock[i] = Balance(log[i])
         => Chained(log'[i]) /\ stock'[i] = Balance(log'[i])
  BY <1>1, <1>2, MoveSound DEF InventoryInv, Kind
<1>4. InventoryTypeOK'
  BY <1>1, <1>3 DEF InventoryInv, InventoryTypeOK, Procure
<1>5. JobsSound' /\ Untouched'
  BY <1>2, <1>3 DEF InventoryInv, JobsSound, Untouched, Procure
<1>6. LedgerRight'
  BY <1>2, <1>3 DEF InventoryInv, InventoryTypeOK, LedgerRight, Procure
<1> QED BY <1>4, <1>5, <1>6 DEF InventoryInv

LEMMA TakeKeeps ==
  ASSUME InventoryInv, NEW w \in Storekeeper, TakeStock(w)
  PROVE  InventoryInv'
<1> DEFINE i == hand[w].item
           c == -hand[w].qty
<1>1. i \in items /\ i \in Item /\ c \in Int
  BY DEF InventoryInv, InventoryTypeOK, JobsSound, TakeStock, Job
<1>2. Move(i, "ADJUSTMENT", c) /\ Close(w)
  BY DEF TakeStock
<1>3. UNCHANGED <<items, active, moves, edited>>
  BY DEF TakeStock
<1> HIDE DEF i, c
<1>4. /\ stock' \in [Item -> Nat]
      /\ log' \in [Item -> Seq(Movement)]
      /\ \A o \in Item \ {i} : stock'[o] = stock[o] /\ log'[o] = log[o]
      /\ Chained(log[i]) /\ stock[i] = Balance(log[i])
         => Chained(log'[i]) /\ stock'[i] = Balance(log'[i])
  BY <1>1, <1>2, MoveSound DEF InventoryInv, Kind
<1>5. InventoryTypeOK' /\ JobsSound'
  BY <1>2, <1>3, <1>4, CloseSound DEF InventoryInv, InventoryTypeOK, JobsSound
<1>6. Untouched' /\ LedgerRight'
  BY <1>1, <1>3, <1>4
  DEF InventoryInv, InventoryTypeOK, Untouched, LedgerRight
<1> QED BY <1>5, <1>6 DEF InventoryInv

LEMMA AddFormKeeps ==
  ASSUME InventoryInv, NEW i \in Item, NEW q \in Nat, NEW on \in BOOLEAN,
         AddByForm(i, q, on)
  PROVE  InventoryInv'
<1>1. moves' \in 0 .. MaxMoves
  BY StartSound DEF AddByForm
<1>2. InventoryTypeOK'
  BY <1>1 DEF InventoryInv, InventoryTypeOK, AddByForm
<1>3. JobsSound' /\ Untouched'
  BY DEF InventoryInv, InventoryTypeOK, JobsSound, Untouched, AddByForm
<1>4. ASSUME NEW o \in items' \ edited'
      PROVE  Chained(log'[o]) /\ stock'[o] = Balance(log'[o])
  <2>1. CASE o = i
    <3>1. q = 0 /\ log'[o] = <<>> /\ stock'[o] = 0
      BY <2>1, <1>4 DEF InventoryInv, InventoryTypeOK, Untouched, AddByForm
    <3> QED BY <3>1, EmptyChain
  <2>2. CASE o # i
    BY <2>2, <1>4 DEF InventoryInv, InventoryTypeOK, LedgerRight, AddByForm
  <2> QED BY <2>1, <2>2
<1>5. LedgerRight'
  BY <1>4 DEF LedgerRight
<1> QED BY <1>2, <1>3, <1>5 DEF InventoryInv

LEMMA SaveFormKeeps ==
  ASSUME InventoryInv, NEW w \in Storekeeper, NEW q \in Nat, NEW on \in BOOLEAN,
         SaveForm(w, q, on)
  PROVE  InventoryInv'
<1> DEFINE i == hand[w].item
<1>1. i \in items /\ i \in Item
  BY DEF InventoryInv, InventoryTypeOK, JobsSound, SaveForm, Job
<1>2. /\ stock' = [stock EXCEPT ![i] = q]
      /\ active' = [active EXCEPT ![i] = on]
      /\ edited' = IF q # stock[i] THEN edited \cup {i} ELSE edited
      /\ Close(w) /\ UNCHANGED <<items, log, moves>>
  BY DEF SaveForm
<1> HIDE DEF i
<1>3. InventoryTypeOK' /\ JobsSound'
  BY <1>1, <1>2, CloseSound DEF InventoryInv, InventoryTypeOK, JobsSound
<1>4. Untouched' /\ LedgerRight'
  BY <1>1, <1>2 DEF InventoryInv, InventoryTypeOK, Untouched, LedgerRight
<1> QED BY <1>3, <1>4 DEF InventoryInv

\* Steps that move no stock: deactivations, checks, edits and refusals.
LEMMA OthersKeep ==
  ASSUME InventoryInv, UNCHANGED <<items, stock, log, edited>>,
         active' \in [Item -> BOOLEAN], hand' \in [Storekeeper -> Job],
         moves' \in 0 .. MaxMoves,
         \A x \in Storekeeper : hand'[x].phase # "idle" => hand'[x].item \in items
  PROVE  InventoryInv'
BY DEF InventoryInv, InventoryTypeOK, JobsSound, Untouched, LedgerRight

LEMMA InventoryStep == InventoryInv /\ [StoreNext]_storeVars => InventoryInv'
<1> SUFFICES ASSUME InventoryInv, [StoreNext]_storeVars PROVE InventoryInv'
  OBVIOUS
<1> USE InventoryAssumption
<1>0. /\ active \in [Item -> BOOLEAN] /\ hand \in [Storekeeper -> Job]
      /\ moves \in 0 .. MaxMoves
      /\ \A x \in Storekeeper : hand[x].phase # "idle" => hand[x].item \in items
  BY DEF InventoryInv, InventoryTypeOK, JobsSound
<1>1. ASSUME NEW i \in Item, NEW q \in Qty \cup {0}, CreateItem(i, q)
      PROVE  InventoryInv'
  BY <1>1, CreateKeeps
<1>2. ASSUME NEW i \in Item, NEW q \in Qty \cup {0}, NEW on \in BOOLEAN,
             AddByForm(i, q, on)
      PROVE  InventoryInv'
  BY <1>2, AddFormKeeps
<1>3. ASSUME NEW i \in Item, Deactivate(i)
      PROVE  InventoryInv'
  <2>1. moves' \in 0 .. MaxMoves
    BY <1>3, StartSound DEF Deactivate
  <2> QED BY <1>0, <1>3, <2>1, OthersKeep DEF Deactivate
<1>4. ASSUME NEW i \in Item, NEW q \in Qty, Procure(i, q)
      PROVE  InventoryInv'
  BY <1>4, ProcureKeeps
<1>5. ASSUME NEW w \in Storekeeper, NEW i \in Item, NEW q \in Qty, OpenRemoval(w, i, q)
      PROVE  InventoryInv'
  BY <1>0, <1>5, OpenSound, OthersKeep DEF OpenRemoval
<1>6. ASSUME NEW w \in Storekeeper, NEW i \in Item, OpenEdit(w, i)
      PROVE  InventoryInv'
  BY <1>0, <1>6, OpenSound, OthersKeep DEF OpenEdit
<1>7. ASSUME NEW w \in Storekeeper, NEW i \in Item, OpenForm(w, i)
      PROVE  InventoryInv'
  BY <1>0, <1>7, OpenSound, OthersKeep DEF OpenForm
<1>8. ASSUME NEW w \in Storekeeper, TakeStock(w)
      PROVE  InventoryInv'
  BY <1>8, TakeKeeps
<1>9. ASSUME NEW w \in Storekeeper, TakeRefused(w) \/ SaveEdit(w)
      PROVE  InventoryInv'
  BY <1>0, <1>9, CloseSound, OthersKeep DEF TakeRefused, SaveEdit
<1>10. ASSUME NEW w \in Storekeeper, NEW q \in Qty \cup {0, hand[w].stock},
              NEW on \in BOOLEAN, SaveForm(w, q, on)
       PROVE  InventoryInv'
  <2>1. q \in Nat
    BY <1>0 DEF Job
  <2> QED BY <1>10, <2>1, SaveFormKeeps
<1>11. CASE UNCHANGED storeVars
  BY <1>0, <1>11, OthersKeep DEF storeVars
<1> QED
  BY <1>1, <1>2, <1>3, <1>4, <1>5, <1>6, <1>7, <1>8, <1>9, <1>10, <1>11 DEF StoreNext

\* For any items, quantities and concurrent requests: the log of an item that
\* no form of the admin site has changed is an unbroken chain of balances that
\* ends with its stock; no movement is lost.
THEOREM StockLedger == StoreSpec => []LedgerRight
<1>1. InventoryInv => LedgerRight
  BY DEF InventoryInv
<1> QED BY <1>1, InventoryInit, InventoryStep, PTL DEF StoreSpec

\* One step: only a form of the admin site revives an item.
LEMMA StepSticks ==
  ASSUME InventoryInv, [StoreNext]_storeVars, NEW i \in items, ~ active[i], active'[i]
  PROVE  \E w \in Storekeeper :
                 /\ hand[w].phase = "form" /\ hand[w].item = i
                 /\ hand'[w].phase = "idle"
<1>1. active \in [Item -> BOOLEAN] /\ hand \in [Storekeeper -> Job] /\ i \in Item
  BY DEF InventoryInv, InventoryTypeOK
<1>2. active' # active
  OBVIOUS
<1>3. PICK w \in Storekeeper :
        \E q \in Qty \cup {0, hand[w].stock}, on \in BOOLEAN : SaveForm(w, q, on)
  <2>1. \A o \in Item, q \in Qty \cup {0} : ~ CreateItem(o, q)
    BY <1>1 DEF CreateItem
  <2>2. \A o \in Item, q \in Qty \cup {0}, on \in BOOLEAN : ~ AddByForm(o, q, on)
    BY <1>1 DEF AddByForm
  <2>3. \A o \in Item : ~ Deactivate(o)
    BY <1>1 DEF Deactivate
  <2>4. \A o \in Item, q \in Qty : ~ Procure(o, q)
    BY <1>2 DEF Procure
  <2>5. \A x \in Storekeeper, o \in Item :
          /\ \A q \in Qty : ~ OpenRemoval(x, o, q)
          /\ ~ OpenEdit(x, o) /\ ~ OpenForm(x, o)
    BY <1>2 DEF OpenRemoval, OpenEdit, OpenForm
  <2>6. \A x \in Storekeeper : ~ TakeStock(x) /\ ~ TakeRefused(x) /\ ~ SaveEdit(x)
    BY <1>2 DEF TakeStock, TakeRefused, SaveEdit
  <2>7. StoreNext
    BY <1>2 DEF storeVars
  <2> QED BY <2>1, <2>2, <2>3, <2>4, <2>5, <2>6, <2>7 DEF StoreNext
<1>4. hand[w].phase = "form" /\ hand'[w].phase = "idle"
  BY <1>1, <1>3 DEF SaveForm, Close, NoTask
<1>5. hand[w].item = i
  BY <1>1, <1>3 DEF SaveForm
<1> QED BY <1>4, <1>5

\* A deactivated item comes back through a form of the admin site only.
THEOREM DeactivatedStays == StoreSpec => DeactivationSticks
<1>1. InventoryInv /\ [StoreNext]_storeVars
      => [\A i \in items :
            ~ active[i] /\ active'[i]
            => \E w \in Storekeeper :
                 /\ hand[w].phase = "form" /\ hand[w].item = i
                 /\ hand'[w].phase = "idle"]_storeVars
  BY StepSticks
<1> QED
  BY <1>1, InventoryInit, InventoryStep, PTL DEF StoreSpec, DeactivationSticks

\* The tables and jobs keep their types; above all, no stock is ever negative.
THEOREM StockTyped == StoreSpec => []InventoryTypeOK
<1>1. InventoryInv => InventoryTypeOK
  BY DEF InventoryInv
<1> QED BY <1>1, InventoryInit, InventoryStep, PTL DEF StoreSpec

=============================================================================
