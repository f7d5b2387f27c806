------------------------------ MODULE Imports -------------------------------
(***************************************************************************)
(* Bulk imports of classes, subjects, students and staff from a file:      *)
(* the preview, its confirmation, and the command (data_import/views.py,   *)
(* importers.py, import_data.py).                                          *)
(*                                                                         *)
(* The rows of a file are taken one by one. Only the row of a student is a *)
(* transaction; an exception in a row ends the request, the rows before it *)
(* stay, and neither the log nor the notice of the import is written. A    *)
(* session of the school is taken to be current throughout. A user name is *)
(* a name and a counter, <<name, 0>> as it is; so is the code of a subject.*)
(* Not modelled: the format of files, the invoice of a new student, and a  *)
(* member of staff with the role of a parent.                              *)
(***************************************************************************)
EXTENDS Integers, Sequences, FiniteSets, FiniteSetsExt

CONSTANTS
  File,       \* files to import
  Kind,       \* what each is a file of
  Rows,       \* its rows: [key, class, code, family]; a person's key is a user name
  Family,     \* a guardian's e-mail, phone or name
  Login,      \* the name that makes each a user name
  Header,     \* what the admission numbers of a class begin with
  Importer,   \* requests in flight
  MaxImports, \* bound on the requests
  MaxDeaths,  \* bound on the requests that die half-way
  Nothing     \* no class; no file in the session

Kinds == {"classes", "subjects", "students", "staff"}
Unknown == -1  \* a number no preview has shown

ASSUME ImportsAssumption ==
  /\ IsFiniteSet(File) /\ IsFiniteSet(Family) /\ IsFiniteSet(Importer)
  /\ Kind \in [File -> Kinds] /\ DOMAIN Login = Family
  /\ \A f \in File : Len(Rows[f]) \in Nat /\ DOMAIN Rows[f] = 1 .. Len(Rows[f])
  /\ \A f \in File : \A i \in DOMAIN Rows[f] : Rows[f][i].family \in Seq(Family)
  /\ Nothing \notin File
  /\ MaxImports \in Nat /\ MaxDeaths \in Nat

VARIABLES
  classes,  \* names of SchoolClass
  subjects, \* Subject: name and code
  links,    \* ClassSubject: class and code of the subject
  accounts, \* user names of staff
  pupils,   \* Student: user name, class, header and number, families of the guardians
  parents,  \* parent accounts: family and user name
  log,      \* ImportLog
  pending,  \* the file in the administrator's session
  task,     \* where each request stands
  imports,  \* how many requests were made
  deaths,   \* how many of them died
  raced     \* history: families two transactions looked for at once

importTables == <<classes, subjects, links, accounts, pupils, parents>>
importsVars == <<importTables, log, pending, task, imports, deaths, raced>>

-----------------------------------------------------------------------------
\* In a student's row: how many of the guardians are dealt with, and the accounts made
\* for them in the open transaction. The rows skipped are counted by the code.
NoTask == [phase |-> "idle", file |-> Nothing, dry |-> "no", verbose |-> "no",
          form |-> "no", next |-> 1, created |-> 0, skipped |-> {}, errors |-> {},
          shown |-> Unknown, code |-> Nothing, number |-> 0, met |-> 0, made |-> {}]

\* What the session keeps; shown is history: the number of the preview, as long as
\* no other request came in between.
NoData == [file |-> Nothing, shown |-> Unknown]

ImportsInit ==
  /\ classes = {} /\ subjects = {} /\ links = {} /\ accounts = {} /\ pupils = {}
  /\ parents = {}
  /\ log = {} /\ pending = NoData
  /\ task = [w \in Importer |-> NoTask]
  /\ imports = 0 /\ deaths = 0 /\ raced = {}

-----------------------------------------------------------------------------
RowOf(w) == Rows[task[w].file][task[w].next]
At(w, kind) == /\ task[w].phase = "row" /\ Kind[task[w].file] = kind
               /\ task[w].next \in DOMAIN Rows[task[w].file]

Users == accounts \cup {p.user : p \in pupils} \cup {a.user : a \in parents}

\* The first of base, base1, base2, ... that nobody has.
FirstFree(base, taken) ==
  <<base, Min({n \in 0 .. Cardinality(taken) : <<base, n>> \notin taken})>>

\* generate_admission_number: one more than the highest with the same beginning; classes
\* may share a header, and a header may begin another.
NextNumber(c) ==
  LET h == Header[c]
      Under(p) == Len(h) <= Len(p.header) /\ SubSeq(p.header, 1, Len(h)) = h
  IN  1 + Max({0} \cup {p.number : p \in {q \in pupils : Under(q)}})

Go(w, j) == task' = [task EXCEPT ![w] = j] /\ UNCHANGED <<pending, log, imports, deaths>>

\* On to the next row, which counted as said.
Ahead(j) == [j EXCEPT !.phase = "row", !.next = @ + 1, !.code = Nothing, !.number = 0,
                      !.met = 0, !.made = {}]
Created(j) == [Ahead(j) EXCEPT !.created = @ + 1]
Skipped(j) == [Ahead(j) EXCEPT !.skipped = @ \cup {j.next}]
Wrong(j) == [Ahead(j) EXCEPT !.errors = @ \cup {j.next}]

-----------------------------------------------------------------------------
(* Requests *)

\* Any other request makes the number a preview has shown stale.
Begin(w, j, data) ==
  /\ task[w].phase = "idle" /\ imports < MaxImports
  /\ imports' = imports + 1
  /\ task' = [o \in Importer |->
       IF o = w
       THEN [j EXCEPT !.phase = "row",
                      !.shown = IF \A v \in Importer : task[v].phase = "idle"
                                THEN @ ELSE Unknown]
       ELSE [task[o] EXCEPT !.shown = Unknown]]
  /\ pending' = data
  /\ UNCHANGED <<importTables, log, deaths, raced>>

Stale == [file |-> pending.file, shown |-> Unknown]

\* DataImportView.post: a dry run of the file.
Preview(w, f) == Begin(w, [NoTask EXCEPT !.file = f, !.dry = "yes", !.form = "yes",
                                        !.shown = 0], Stale)

\* The file goes into the session.
PreviewDone(w) ==
  LET j == task[w] IN
  /\ j.phase = "row" /\ j.form = "yes" /\ j.dry = "yes"
  /\ j.next \notin DOMAIN Rows[j.file]
  /\ pending' = [file |-> j.file,
                 shown |-> IF j.shown = Unknown THEN Unknown ELSE j.created]
  /\ task' = [task EXCEPT ![w] = NoTask]
  /\ UNCHANGED <<importTables, log, imports, deaths, raced>>

\* DataImportConfirmView.post
Confirm(w) ==
  /\ pending.file # Nothing
  /\ Begin(w, [NoTask EXCEPT !.file = pending.file, !.form = "yes",
                            !.shown = pending.shown], Stale)

\* import_data
Command(w, f, dry, verbose) ==
  Begin(w, [NoTask EXCEPT !.file = f, !.dry = dry, !.verbose = verbose], Stale)

CommandDone(w) ==
  LET j == task[w] IN
  /\ j.phase = "row" /\ j.form = "no" /\ j.dry = "yes"
  /\ j.next \notin DOMAIN Rows[j.file]
  /\ Go(w, NoTask)
  /\ UNCHANGED <<importTables, raced>>

\* The log of an import that came to its end; a form still has a notice to send.
WriteLog(w) ==
  LET j == task[w] IN
  /\ j.phase = "row" /\ j.dry = "no" /\ j.next \notin DOMAIN Rows[j.file]
  /\ log' = log \cup {[file |-> j.file, created |-> j.created, skipped |-> j.skipped,
                       errors |-> j.errors, shown |-> j.shown]}
  /\ task' = [task EXCEPT ![w] = IF j.form = "yes" THEN [j EXCEPT !.phase = "clear"]
                                 ELSE NoTask]
  /\ UNCHANGED <<importTables, pending, imports, deaths, raced>>

\* The administrators have been told; the file leaves the session.
ClearSession(w) ==
  /\ task[w].phase = "clear"
  /\ pending' = NoData
  /\ task' = [task EXCEPT ![w] = NoTask]
  /\ UNCHANGED <<importTables, log, imports, deaths, raced>>

-----------------------------------------------------------------------------
(* ClassImporter *)

\* With --verbose the message of a created class names variables that do not exist.
FindClass(w) ==
  /\ At(w, "classes")
  /\ Go(w, IF RowOf(w).key \in classes THEN Skipped(task[w])
           ELSE IF task[w].dry = "no" THEN [task[w] EXCEPT !.phase = "insert"]
           ELSE IF task[w].verbose = "yes" THEN NoTask
           ELSE Created(task[w]))
  /\ UNCHANGED <<importTables, raced>>

\* (school, name) is unique: another import's class raises.
InsertClass(w) ==
  /\ task[w].phase = "insert" /\ Kind[task[w].file] = "classes"
  /\ classes' = classes \cup {RowOf(w).key}
  /\ Go(w, IF RowOf(w).key \in classes \/ task[w].verbose = "yes" THEN NoTask
           ELSE Created(task[w]))
  /\ UNCHANGED <<subjects, links, accounts, pupils, parents, raced>>

-----------------------------------------------------------------------------
(* SubjectImporter *)

Coded(c) == {s \in subjects : s.code = c}
Named(n) == {s \in subjects : s.name = n}

\* A subject with the code of the row, else one with its name.
FindSubject(w) ==
  LET r == RowOf(w)
      found == Coded(<<r.code, 0>>)
  IN  /\ At(w, "subjects")
      /\ IF r.class \notin classes THEN Go(w, Wrong(task[w]))
         ELSE IF found = {} THEN Go(w, [task[w] EXCEPT !.phase = "name"])
         ELSE \E s \in found : Go(w, [task[w] EXCEPT !.phase = "link", !.code = s.code])
      /\ UNCHANGED <<importTables, raced>>

FindByName(w) ==
  LET found == Named(RowOf(w).key) IN
  /\ task[w].phase = "name"
  /\ IF found = {} THEN Go(w, [task[w] EXCEPT !.phase = "code"])
     ELSE \E s \in found : Go(w, [task[w] EXCEPT !.phase = "link", !.code = s.code])
  /\ UNCHANGED <<importTables, raced>>

\* A code that has come into use since gets a suffix.
PickCode(w) ==
  LET code == FirstFree(RowOf(w).code, {s.code : s \in subjects}) IN
  /\ task[w].phase = "code"
  /\ Go(w, IF task[w].dry = "yes" THEN Created(task[w])
           ELSE [task[w] EXCEPT !.phase = "insert", !.code = code])
  /\ UNCHANGED <<importTables, raced>>

\* (school, code) is unique.
InsertSubject(w) ==
  LET new == [name |-> RowOf(w).key, code |-> task[w].code] IN
  /\ task[w].phase = "insert" /\ Kind[task[w].file] = "subjects"
  /\ IF Coded(new.code) # {} THEN Go(w, NoTask) /\ UNCHANGED subjects
     ELSE /\ subjects' = subjects \cup {new}
          /\ Go(w, [task[w] EXCEPT !.phase = "join"])
  /\ UNCHANGED <<classes, links, accounts, pupils, parents, raced>>

\* A statement of its own; another import may have linked the subject by now.
InsertLink(w) ==
  LET new == <<RowOf(w).class, task[w].code>> IN
  /\ task[w].phase = "join"
  /\ links' = links \cup {new}
  /\ Go(w, IF new \in links THEN NoTask ELSE Created(task[w]))
  /\ UNCHANGED <<classes, subjects, accounts, pupils, parents, raced>>

\* A subject that was found is linked to the class, in a dry run too.
LinkSubject(w) ==
  LET new == <<RowOf(w).class, task[w].code>> IN
  /\ task[w].phase = "link"
  /\ links' = links \cup {new}
  /\ Go(w, IF new \in links THEN Skipped(task[w]) ELSE Created(task[w]))
  /\ UNCHANGED <<classes, subjects, accounts, pupils, parents, raced>>

-----------------------------------------------------------------------------
(* StudentImporter *)

\* Mutant: a preview does not look for user names that exist.
FindStudentAny(w) ==
  LET r == RowOf(w) IN
  /\ At(w, "students")
  /\ Go(w, IF task[w].dry = "yes" THEN Created(task[w])
           ELSE IF r.key \in Users THEN Skipped(task[w])
           ELSE IF r.class \notin classes \cup {Nothing} THEN Wrong(task[w])
           ELSE [task[w] EXCEPT !.phase = "insert", !.number = NextNumber(r.class)])
  /\ UNCHANGED <<importTables, raced>>

\* The user name, the class and the admission number are read before the
\* transaction.
FindStudent(w) ==
  LET r == RowOf(w) IN
  /\ At(w, "students")
  /\ Go(w, IF r.key \in Users THEN Skipped(task[w])
           ELSE IF r.class \notin classes \cup {Nothing} THEN Wrong(task[w])
           ELSE IF task[w].dry = "yes" THEN Created(task[w])
           ELSE [task[w] EXCEPT !.phase = "insert", !.number = NextNumber(r.class)])
  /\ UNCHANGED <<importTables, raced>>

Guardians(r) == {r.family[i] : i \in DOMAIN r.family}
Families(as) == {a.family : a \in as}

\* At a guardian of the row, in its transaction.
AtGuardian(w) == /\ task[w].phase = "insert" /\ Kind[task[w].file] = "students"
                 /\ task[w].met < Len(RowOf(w).family)
Guardian(w) == RowOf(w).family[task[w].met + 1]
NewParent(w) ==
  LET seen == Users \cup {RowOf(w).key} \cup {a.user : a \in task[w].made}
  IN  [family |-> Guardian(w), user |-> FirstFree(Login[Guardian(w)], seen)]

\* Mutant: parents are not looked for.
FindParentNever(w) ==
  /\ AtGuardian(w)
  /\ Go(w, [task[w] EXCEPT !.met = @ + 1, !.made = @ \cup {NewParent(w)}])
  /\ UNCHANGED <<importTables, raced>>

\* find_or_create_parent: the account of the guardian, or a new one.
FindParent(w) ==
  LET found == Guardian(w) \in Families(parents \cup task[w].made) IN
  /\ AtGuardian(w)
  /\ Go(w, [task[w] EXCEPT !.met = @ + 1,
                          !.made = IF found THEN @ ELSE @ \cup {NewParent(w)}])
  /\ UNCHANGED <<importTables, raced>>

\* What the row makes of its student.
NewPupil(w) == [user |-> RowOf(w).key, class |-> RowOf(w).class,
             header |-> Header[RowOf(w).class], number |-> task[w].number,
             guardians |-> Guardians(RowOf(w))]

\* A user name or an admission number that has been taken since, or one
\* guardian given twice, breaks a unique index.
Refused(w) ==
  \/ RowOf(w).key \in Users
  \/ \E a \in task[w].made : a.user \in Users
  \/ \E p \in pupils : p.header = NewPupil(w).header /\ p.number = NewPupil(w).number
  \/ Cardinality(Guardians(RowOf(w))) # Len(RowOf(w).family)

AtEnd(w) == /\ task[w].phase = "insert" /\ Kind[task[w].file] = "students"
            /\ task[w].met = Len(RowOf(w).family)

\* Mutant: no transaction, so a student stays whose guardians are refused.
CommitStudentHalf(w) ==
  /\ AtEnd(w)
  /\ pupils' = IF RowOf(w).key \in Users THEN pupils
               ELSE pupils \cup {IF Refused(w) THEN [NewPupil(w) EXCEPT !.guardians = {}]
                                 ELSE NewPupil(w)}
  /\ parents' = IF Refused(w) THEN parents ELSE parents \cup task[w].made
  /\ Go(w, IF Refused(w) THEN NoTask ELSE Created(task[w]))
  /\ UNCHANGED <<classes, subjects, links, accounts, raced>>

\* The student with account, enrolment and guardians: all, or nothing and the end.
\* A guardian another transaction has given an account meanwhile has two now.
CommitStudent(w) ==
  /\ AtEnd(w)
  /\ IF Refused(w) THEN Go(w, NoTask) /\ UNCHANGED <<pupils, parents, raced>>
     ELSE /\ pupils' = pupils \cup {NewPupil(w)}
          /\ parents' = parents \cup task[w].made
          /\ raced' = raced \cup UNION {Families(task[v].made) : v \in Importer \ {w}}
          /\ Go(w, Created(task[w]))
  /\ UNCHANGED <<classes, subjects, links, accounts>>

-----------------------------------------------------------------------------
(* StaffImporter *)

FindStaff(w) ==
  /\ At(w, "staff")
  /\ Go(w, IF RowOf(w).key \in Users THEN Skipped(task[w])
           ELSE IF task[w].dry = "yes" THEN Created(task[w])
           ELSE [task[w] EXCEPT !.phase = "insert"])
  /\ UNCHANGED <<importTables, raced>>

InsertStaff(w) ==
  /\ task[w].phase = "insert" /\ Kind[task[w].file] = "staff"
  /\ accounts' = IF RowOf(w).key \in Users THEN accounts ELSE accounts \cup {RowOf(w).key}
  /\ Go(w, IF RowOf(w).key \in Users THEN NoTask ELSE Created(task[w]))
  /\ UNCHANGED <<classes, subjects, links, pupils, parents, raced>>

-----------------------------------------------------------------------------
\* A request dies, of a deadlock in the database too; the file stays in the session.
Die(w) ==
  /\ task[w].phase # "idle" /\ deaths < MaxDeaths
  /\ deaths' = deaths + 1
  /\ task' = [task EXCEPT ![w] = NoTask]
  /\ UNCHANGED <<importTables, log, pending, imports, raced>>

RequestStep(w) ==
  \/ \E f \in File : Preview(w, f)
  \/ PreviewDone(w) \/ Confirm(w)
  \/ \E f \in File, dry, verbose \in {"yes", "no"} : Command(w, f, dry, verbose)
  \/ CommandDone(w) \/ WriteLog(w) \/ ClearSession(w) \/ Die(w)

RowStep(w) ==
  \/ FindClass(w) \/ InsertClass(w)
  \/ FindSubject(w) \/ FindByName(w) \/ PickCode(w)
  \/ LinkSubject(w) \/ InsertSubject(w) \/ InsertLink(w)
  \/ FindStudent(w) \/ FindParent(w) \/ CommitStudent(w)
  \/ FindStaff(w) \/ InsertStaff(w)

ImportsNext == \E w \in Importer : RequestStep(w) \/ RowStep(w)

ImportsSpec == ImportsInit /\ [][ImportsNext]_importsVars

-----------------------------------------------------------------------------
(* Properties *)

\* What a row asks for is stored: a subject under its code or its name, a student with
\* the class and the guardians of the row, each of whom has an account.
Stored(kind, r) ==
  \/ kind = "classes" /\ r.key \in classes
  \/ kind = "subjects" /\ \E s \in subjects : /\ s.code[1] = r.code \/ s.name = r.key
                                              /\ <<r.class, s.code>> \in links
  \/ kind = "students" /\ \E p \in pupils :
                            /\ p.user = r.key /\ p.class = r.class
                            /\ p.guardians = Guardians(r)
                            /\ Guardians(r) \subseteq Families(parents)
  \/ kind = "staff" /\ r.key \in accounts

OfPeople(f) == Kind[f] \in {"students", "staff"}

\* Another row asks for the user name of this one, or the name of a guardian makes it.
Contested(f, i) ==
  \/ \E g \in File : \E k \in DOMAIN Rows[g] :
       OfPeople(g) /\ <<g, k>> # <<f, i>> /\ Rows[g][k].key = Rows[f][i].key
  \/ \E x \in Family : Login[x] = Rows[f][i].key[1]

\* What an import with a log did not report as an error is stored in full, also after
\* deaths, repetitions and imports that overlap. Only a person whose user name others ask
\* for as well may have been skipped and be missing: an import goes by the user name.
LoggedIsDone ==
  \A l \in log : \A i \in DOMAIN Rows[l.file] \ l.errors :
    \/ Stored(Kind[l.file], Rows[l.file][i])
    \/ /\ i \in l.skipped /\ OfPeople(l.file)
       /\ Contested(l.file, i) /\ Rows[l.file][i].key \in Users

\* The rows of the file ask for different things, and none for a user name that the name
\* of a guardian in the file makes.
Plain(f) ==
  \A i, k \in DOMAIN Rows[f] :
    /\ i # k => Rows[f][i].key # Rows[f][k].key
    /\ \A x \in Guardians(Rows[f][k]) : Login[x] # Rows[f][i].key[1]

\* What a preview announces is what its confirmation creates, when no other request
\* comes in between; a file that is not plain creates less. A file of subjects
\* is excepted: its preview makes links, and a row that a preview links by its name may
\* meet the code of an earlier row when confirmed, and be linked once more.
PreviewPredicts ==
  \A l \in log : l.shown # Unknown /\ Kind[l.file] # "subjects" =>
    /\ l.created <= l.shown
    /\ Plain(l.file) => l.created = l.shown

\* Brothers and sisters share one account of each guardian, across rows, files and
\* repetitions, unless two transactions were making one at once.
OneAccountPerGuardian ==
  \A a, b \in parents : a.family = b.family /\ a.family \notin raced => a = b

=============================================================================
