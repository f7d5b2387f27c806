------------------------------ MODULE Results -------------------------------
(***************************************************************************)
(* The scores of one class in one term: teachers enter marks, moderators   *)
(* approve and reject them, which ranks the class and rebuilds its term    *)
(* results (academics/ranking.py), administrators edit a score or a term   *)
(* result by hand, and the results are published.                          *)
(*                                                                         *)
(* No view or service of this part opens a transaction: each statement     *)
(* commits by itself, and a recomputation of the class is many statements. *)
(* A worker is a request; its job record is what the request has read.     *)
(***************************************************************************)
EXTENDS Integers, FiniteSets, Sequences, FiniteSetsExt

CONSTANTS
  Student,     \* the students of the class: their primary keys
  Subject,     \* the subjects they are scored in
  Mark,        \* total scores a teacher can enter
  Selection,   \* groups of students whose scores are selected in the admin site
  Start,       \* scores of the class at the start: marks and their statuses
  Worker,      \* requests in flight at the same time
  MaxRequests, \* bound on the requests
  MaxCrashes   \* bound on the requests that die half-way

Row == Student \X Subject          \* unique_together: one Score for each
Status == {"PENDING", "APPROVED", "REJECTED"}
NoMark == -1                       \* a component is missing: not is_complete
NoRow == <<>>                      \* a job that is about no score

ASSUME ResultsAssumption ==
  /\ Student \subseteq Nat /\ IsFiniteSet(Student) /\ IsFiniteSet(Subject)
  /\ Mark \subseteq Nat /\ Selection \subseteq SUBSET Student
  /\ Start \subseteq [mark : [Row -> Mark \cup {NoMark}],
                      status : [Row -> Status]]
  /\ MaxRequests \in Nat /\ MaxCrashes \in Nat

VARIABLES
  mark,      \* Score.total_score, or NoMark
  status,    \* Score.moderation_status
  position,  \* Score.position, 0 for None
  result,    \* the TermResult row of each student
  published, \* Term.results_published
  told,      \* how many notices of publication each reader was sent
  job,       \* the request each worker is serving
  started,   \* how many requests were made
  crashes,   \* how many of them died
  vetted,    \* history: the mark a score had when it was last approved, by a
             \* moderator or in the form of the admin site
  tainted    \* history: the scores a moderation of which overtook an edit,
             \* or an edit of which died between its two saves

record == <<mark, status, position, result>>
publication == <<published, told>>
counts == <<started, crashes>>
history == <<vetted, tainted>>
vars == <<mark, status, position, result, published, told, job, started,
          crashes, vetted, tainted>>

-----------------------------------------------------------------------------
NoResult == [there |-> FALSE, total |-> 0, subjects |-> 0, position |-> 0]

Result == [there : BOOLEAN, total : Nat, subjects : Nat, position : Nat]

\* Per student the primary guardian and the student, in the order of the loops.
Reader == {"guardian", "student"} \X Student

Phase == {"idle",
          "save", "reset",                  \* TeacherScoreUpdateView
          "clear", "read", "rank",          \* compute_positions
          "sum", "write", "drop",           \* compute_term_summary
          "score",                          \* ScoreAdmin
          "form",                           \* TermResultAdmin
          "announce", "tell"}               \* notify_results_published

Job == [phase : Phase, alone : BOOLEAN,
        row : Row \cup {NoRow}, mark : Mark \cup {NoMark}, seen : Status,
        place : Nat,
        passes : SUBSET (Nat \X Subject), summary : BOOLEAN,
        subject : SUBSET Subject, ranked : Seq(Student \X Nat),
        toSum : SUBSET Student, sums : [Student -> Result],
        toWrite : SUBSET Student, student : SUBSET Student,
        toTell : SUBSET Reader]

ResultsTypeOK ==
  /\ mark \in [Row -> Mark \cup {NoMark}]
  /\ status \in [Row -> Status]
  /\ position \in [Row -> Nat]
  /\ result \in [Student -> Result]
  /\ published \in BOOLEAN
  /\ told \in [Reader -> Nat]
  /\ job \in [Worker -> Job]
  /\ started \in 0 .. MaxRequests /\ crashes \in 0 .. MaxCrashes
  /\ vetted \in [Row -> Mark \cup {NoMark}]
  /\ tainted \subseteq Row

NoJob ==
  [phase |-> "idle", alone |-> FALSE, row |-> NoRow, mark |-> NoMark,
   seen |-> "PENDING", place |-> 0, passes |-> {}, summary |-> FALSE, subject |-> {},
   ranked |-> <<>>, toSum |-> {}, sums |-> [s \in Student |-> NoResult],
   toWrite |-> {}, student |-> {}, toTell |-> {}]

-----------------------------------------------------------------------------
(* Ranking *)

\* Scores that count: complete and approved.
Counts(r) == mark[r] # NoMark /\ status[r] = "APPROVED"

\* The sort key: the higher score first, then the smaller primary key.
Before(score, x, y) == \/ score[x] > score[y]
                       \/ score[x] = score[y] /\ x < y

Sorted(S, score) ==
  CHOOSE order \in [1 .. Cardinality(S) -> S] :
    \A i, k \in DOMAIN order : i < k => Before(score, order[i], order[k])

\* Mutant: after a tie the next rank is the next number.
AssignDense(S, score) ==
  LET order == Sorted(S, score)
      rank[i \in DOMAIN order] ==
        IF i = 1 THEN 1
        ELSE IF score[order[i]] = score[order[i - 1]] THEN rank[i - 1]
        ELSE rank[i - 1] + 1
  IN  [i \in DOMAIN order |-> <<order[i], rank[i]>>]

\* _assign_dense_ranks: equal scores share the index of the first of them.
AssignRanks(S, score) ==
  LET order == Sorted(S, score)
      rank[i \in DOMAIN order] ==
        IF i > 1 /\ score[order[i]] = score[order[i - 1]] THEN rank[i - 1]
                                                          ELSE i
  IN  [i \in DOMAIN order |-> <<order[i], rank[i]>>]

RankIn(ranked, s) ==
  LET mine == {i \in DOMAIN ranked : ranked[i][1] = s}
  IN  IF mine = {} THEN 0 ELSE ranked[CHOOSE i \in mine : TRUE][2]

\* What compute_positions reads for a subject, ranked.
RankedIn(b) == AssignRanks({s \in Student : Counts(<<s, b>>)},
                           [s \in Student |-> mark[<<s, b>>]])

\* What compute_term_summary reads for a student; no entry without a score.
SumOf(s) ==
  LET mine == {b \in Subject : Counts(<<s, b>>)}
  IN  IF mine = {} THEN NoResult
      ELSE [NoResult EXCEPT
              !.there = TRUE, !.subjects = Cardinality(mine),
              !.total = MapThenSumSet(LAMBDA b : mark[<<s, b>>], mine)]

\* The reference: 1 plus the number of those who did better.
Place(S, score, s) == 1 + Cardinality({x \in S : score[x] > score[s]})

PlaceInSubject(s, b) ==
  IF Counts(<<s, b>>)
  THEN Place({x \in Student : Counts(<<x, b>>)},
             [x \in Student |-> mark[<<x, b>>]], s)
  ELSE 0

ResultOf(s) ==
  LET sum == [x \in Student |-> SumOf(x)]
      S == {x \in Student : sum[x].there}
  IN  IF s \in S
      THEN [sum[s] EXCEPT !.position =
              Place(S, [x \in Student |-> sum[x].total], s)]
      ELSE NoResult

-----------------------------------------------------------------------------
\* Grids are opened and filled, scores moderated one after the other, before
\* anything overlaps: positions and results agree with the scores.
Init ==
  /\ \E start \in Start : mark = start.mark /\ status = start.status
  /\ position = [r \in Row |-> PlaceInSubject(r[1], r[2])]
  /\ result = [s \in Student |-> ResultOf(s)]
  /\ published = FALSE
  /\ told = [r \in Reader |-> 0]
  /\ job = [w \in Worker |-> NoJob]
  /\ started = 0 /\ crashes = 0
  /\ vetted = mark /\ tainted = {}

Busy(w) == job[w].phase # "idle"
Quiet == \A w \in Worker : ~ Busy(w)
Move(w, next) == job' = [job EXCEPT ![w] = next]

\* A request comes in; one that meets another is not alone, nor is the other.
Begin(w, j) ==
  /\ ~ Busy(w)
  /\ started < MaxRequests
  /\ started' = started + 1
  /\ job' = [o \in Worker |->
       IF o = w THEN [j EXCEPT !.alone = Quiet]
                ELSE [job[o] EXCEPT !.alone = FALSE]]
  /\ UNCHANGED crashes

\* A request that needs one statement only.
Request ==
  /\ started < MaxRequests
  /\ started' = started + 1
  /\ job' = [o \in Worker |-> [job[o] EXCEPT !.alone = FALSE]]
  /\ UNCHANGED crashes

-----------------------------------------------------------------------------
(* TeacherScoreUpdateView *)

\* The score is fetched, with the status it has now.
EnterMark(w, r, m) ==
  /\ Begin(w, [NoJob EXCEPT !.phase = "save", !.row = r, !.mark = m,
                            !.seen = status[r]])
  /\ UNCHANGED <<record, publication, history>>

\* Mutant: an approval survives the edit.
SaveMarkOnly(w) ==
  /\ job[w].phase = "save"
  /\ mark' = [mark EXCEPT ![job[w].row] = job[w].mark]
  /\ Move(w, IF job[w].seen = "REJECTED"
             THEN [job[w] EXCEPT !.phase = "reset"] ELSE NoJob)
  /\ UNCHANGED <<status, position, result, publication, counts, history>>

\* save(update_fields=[field, ...]): the status in the database stays.
SaveMark(w) ==
  /\ job[w].phase = "save"
  /\ mark' = [mark EXCEPT ![job[w].row] = job[w].mark]
  /\ Move(w, IF job[w].seen \in {"APPROVED", "REJECTED"}
             THEN [job[w] EXCEPT !.phase = "reset"] ELSE NoJob)
  /\ UNCHANGED <<status, position, result, publication, counts, history>>

\* The reset that the fetched status asked for.  Ranks are left as they are.
ResetStatus(w) ==
  /\ job[w].phase = "reset"
  /\ status' = [status EXCEPT ![job[w].row] = "PENDING"]
  /\ Move(w, NoJob)
  /\ UNCHANGED <<mark, position, result, publication, counts, history>>

-----------------------------------------------------------------------------
(* ResultReviewView: a verdict, then the class is computed again *)

\* Scores with an edit on the way that will not ask for a reset.
Overtaken == {job[w].row : w \in {x \in Worker :
                job[x].phase = "save" /\ job[x].seen = "PENDING"}}

\* The subjects to rank, n times: distinct() over the scores, which are ordered
\* by student, gives every subject once for each student.
Passes(subjects, n) == (1 .. n) \X subjects

Recompute(subjects, n, summary) ==
  [NoJob EXCEPT !.phase = "clear", !.passes = Passes(subjects, n),
                !.summary = summary]

Judge(w, rows, verdict) ==
  /\ status' = [r \in Row |-> IF r \in rows THEN verdict ELSE status[r]]
  /\ IF verdict = "APPROVED"
     THEN /\ vetted' = [r \in Row |-> IF r \in rows THEN mark[r] ELSE vetted[r]]
          /\ tainted' = tainted \cup (rows \cap Overtaken)
     ELSE UNCHANGED history
  /\ Begin(w, Recompute(Subject, Cardinality(Student), TRUE))
  /\ UNCHANGED <<mark, position, result, publication>>

\* approve, reject: by id, whatever status the score has.
JudgeOne(w, r, verdict) == Judge(w, {r}, verdict)

\* approve_all, approve_subject, ..., reject_student: one UPDATE of the PENDING
\* scores; nothing is computed if there are none.
JudgePending(w, rows, verdict) ==
  LET pending == {r \in rows : status[r] = "PENDING"} IN
  /\ pending # {}
  /\ Judge(w, pending, verdict)

Batches == {Row} \cup {Student \X {b} : b \in Subject}
                 \cup {{s} \X Subject : s \in Student}

\* compute_rankings: every subject, then the term results.
Backfill(w) ==
  /\ Begin(w, Recompute(Subject, 1, TRUE))
  /\ UNCHANGED <<record, publication, history>>

\* ScoreAdmin.compute_positions: the subjects of the selected scores, and no
\* term results.
RankSelected(w, subjects) ==
  /\ Begin(w, Recompute(subjects, 1, FALSE))
  /\ UNCHANGED <<record, publication, history>>

\* TermResultAdmin.compute_term_summaries: the term results alone.
SumSelected(w) ==
  /\ Begin(w, [NoJob EXCEPT !.phase = "sum", !.toSum = Student])
  /\ UNCHANGED <<record, publication, history>>

-----------------------------------------------------------------------------
(* ScoreAdmin: its form saves every column *)

\* The form is submitted: the row is fetched again.  Mark and status are those
\* of the form, typed or as they were when it was opened.
SubmitScore(w, r, m, s) ==
  /\ Begin(w, [NoJob EXCEPT !.phase = "score", !.row = r, !.mark = m,
                            !.seen = s, !.place = position[r]])
  /\ UNCHANGED <<record, publication, history>>

\* The whole row, with the position of the fetch.  Nothing resets an approval and
\* no verdict is asked for: what the form says counts as approved.
SaveScore(w) ==
  LET r == job[w].row IN
  /\ job[w].phase = "score"
  /\ mark' = [mark EXCEPT ![r] = job[w].mark]
  /\ status' = [status EXCEPT ![r] = job[w].seen]
  /\ position' = [position EXCEPT ![r] = job[w].place]
  /\ IF job[w].seen = "APPROVED"
     THEN /\ vetted' = [vetted EXCEPT ![r] = job[w].mark]
          /\ tainted' = tainted \cup ({r} \cap Overtaken)
     ELSE UNCHANGED history
  /\ Move(w, NoJob)
  /\ UNCHANGED <<result, publication, counts>>

-----------------------------------------------------------------------------
(* compute_positions *)

\* After the last position of a pass: the next pass, the summary, or the end.
AfterPass(j) ==
  IF j.passes # {}
  THEN [j EXCEPT !.phase = "clear", !.subject = {}, !.ranked = <<>>]
  ELSE IF j.summary
  THEN [j EXCEPT !.phase = "sum", !.subject = {}, !.ranked = <<>>,
                 !.toSum = Student]
  ELSE NoJob

\* base.update(position=None)
ClearPositions(w, b) ==
  LET n == Min({p[1] : p \in job[w].passes}) IN
  /\ job[w].phase = "clear"
  /\ <<n, b>> \in job[w].passes
  /\ position' = [r \in Row |-> IF r[2] = b THEN 0 ELSE position[r]]
  /\ Move(w, [job[w] EXCEPT !.phase = "read", !.subject = {b},
                            !.passes = @ \ {<<n, b>>}])
  /\ UNCHANGED <<mark, status, result, publication, counts, history>>

\* The scores are read and ranked in memory.
ReadScores(w) ==
  LET b == CHOOSE b \in job[w].subject : TRUE
      ranked == RankedIn(b)
  IN
  /\ job[w].phase = "read"
  /\ Move(w, IF ranked = <<>> THEN AfterPass(job[w])
             ELSE [job[w] EXCEPT !.phase = "rank", !.ranked = ranked])
  /\ UNCHANGED <<record, publication, counts, history>>

\* save(update_fields=['position']), one score after the other.
SavePosition(w) ==
  LET best == Head(job[w].ranked)
      rest == Tail(job[w].ranked)
      b == CHOOSE b \in job[w].subject : TRUE
  IN
  /\ job[w].phase = "rank"
  /\ position' = [position EXCEPT ![<<best[1], b>>] = best[2]]
  /\ Move(w, IF rest = <<>> THEN AfterPass(job[w])
                            ELSE [job[w] EXCEPT !.ranked = rest])
  /\ UNCHANGED <<mark, status, result, publication, counts, history>>

-----------------------------------------------------------------------------
(* compute_term_summary *)

\* overall_position of those who have an entry
WithPlaces(sums) ==
  LET S == {s \in Student : sums[s].there}
      ranked == AssignRanks(S, [s \in Student |-> sums[s].total])
  IN  [s \in Student |-> [sums[s] EXCEPT !.position = RankIn(ranked, s)]]

\* The scores of one student.
SumScores(w, s) ==
  LET sums == [job[w].sums EXCEPT ![s] = SumOf(s)]
      left == job[w].toSum \ {s}
      writes == {x \in Student : sums[x].there}
  IN
  /\ job[w].phase = "sum"
  /\ s \in job[w].toSum
  /\ Move(w, IF left # {} THEN [job[w] EXCEPT !.toSum = left, !.sums = sums]
             ELSE [job[w] EXCEPT !.phase = IF writes = {} THEN "drop"
                                                          ELSE "write",
                                 !.toSum = {}, !.sums = WithPlaces(sums),
                                 !.toWrite = writes])
  /\ UNCHANGED <<record, publication, counts, history>>

\* Mutant: get_or_create, which leaves a result that is there.
WriteResultOnce(w, s) ==
  /\ job[w].phase = "write"
  /\ s \in job[w].toWrite
  /\ result' = [result EXCEPT ![s] = IF @.there THEN @ ELSE job[w].sums[s]]
  /\ Move(w, [job[w] EXCEPT !.toWrite = @ \ {s},
                            !.phase = IF job[w].toWrite = {s} THEN "drop"
                                                              ELSE "write"])
  /\ UNCHANGED <<mark, status, position, publication, counts, history>>

\* update_or_create: the computed fields; what was entered by hand is left out.
WriteResult(w, s) ==
  /\ job[w].phase = "write"
  /\ s \in job[w].toWrite
  /\ result' = [result EXCEPT ![s] = job[w].sums[s]]
  /\ Move(w, [job[w] EXCEPT !.toWrite = @ \ {s},
                            !.phase = IF job[w].toWrite = {s} THEN "drop"
                                                              ELSE "write"])
  /\ UNCHANGED <<mark, status, position, publication, counts, history>>

\* Results of students without an entry are deleted.
DropResults(w) ==
  /\ job[w].phase = "drop"
  /\ result' = [s \in Student |-> IF job[w].sums[s].there THEN result[s]
                                                          ELSE NoResult]
  /\ Move(w, NoJob)
  /\ UNCHANGED <<mark, status, position, publication, counts, history>>

-----------------------------------------------------------------------------
(* TermResultAdmin: the form holds every field of the row it was opened on *)

OpenForm(w, s) ==
  /\ result[s].there
  /\ Begin(w, [NoJob EXCEPT !.phase = "form", !.student = {s},
                            !.sums[s] = result[s]])
  /\ UNCHANGED <<record, publication, history>>

\* All fields of the form are saved, if the row is still there.
SaveForm(w) ==
  /\ job[w].phase = "form"
  /\ result' = [s \in Student |->
                  IF s \in job[w].student /\ result[s].there
                  THEN job[w].sums[s] ELSE result[s]]
  /\ Move(w, NoJob)
  /\ UNCHANGED <<mark, status, position, publication, counts, history>>

-----------------------------------------------------------------------------
(* PublishResultsView, notify_results_published *)

Publish(w) ==
  /\ published' = TRUE
  /\ Begin(w, [NoJob EXCEPT !.phase = "announce", !.toTell = Reader])
  /\ UNCHANGED <<record, told, history>>

\* ScoreAdmin.publish_results: the term is published for all, and those are told
\* whose scores were selected.
PublishSelected(w, students) ==
  /\ published' = TRUE
  /\ Begin(w, [NoJob EXCEPT !.phase = "announce",
                            !.toTell = {r \in Reader : r[2] \in students}])
  /\ UNCHANGED <<record, told, history>>

Unpublish ==
  /\ published
  /\ published' = FALSE
  /\ Request
  /\ UNCHANGED <<record, told, history>>

\* Mutant: one notice of the term is taken for all.
ReadToldAny(w) ==
  LET new == IF \E r \in Reader : told[r] > 0 THEN {} ELSE job[w].toTell IN
  /\ job[w].phase = "announce"
  /\ Move(w, IF new = {} THEN NoJob
             ELSE [job[w] EXCEPT !.phase = "tell", !.toTell = new])
  /\ UNCHANGED <<record, publication, counts, history>>

\* The readers who already have a notice of this term, read once.
ReadTold(w) ==
  LET new == {r \in job[w].toTell : told[r] = 0} IN
  /\ job[w].phase = "announce"
  /\ Move(w, IF new = {} THEN NoJob
             ELSE [job[w] EXCEPT !.phase = "tell", !.toTell = new])
  /\ UNCHANGED <<record, publication, counts, history>>

\* One INSERT per reader: the guardians first.
Tell(w, r) ==
  /\ job[w].phase = "tell"
  /\ r \in job[w].toTell
  /\ r[1] = "student" => \A x \in job[w].toTell : x[1] = "student"
  /\ told' = [told EXCEPT ![r] = @ + 1]
  /\ Move(w, IF job[w].toTell = {r} THEN NoJob
             ELSE [job[w] EXCEPT !.toTell = @ \ {r}])
  /\ UNCHANGED <<record, published, counts, history>>

-----------------------------------------------------------------------------
\* The worker dies; what it saved stays.
Crash(w) ==
  /\ Busy(w)
  /\ crashes < MaxCrashes
  /\ crashes' = crashes + 1
  /\ tainted' = IF job[w].phase = "reset" THEN tainted \cup {job[w].row}
                                          ELSE tainted
  /\ Move(w, NoJob)
  /\ UNCHANGED <<record, publication, started, vetted>>

Work(w) ==
  \/ SaveMark(w) \/ ResetStatus(w)
  \/ \E b \in Subject : ClearPositions(w, b)
  \/ ReadScores(w) \/ SavePosition(w)
  \/ \E s \in Student : SumScores(w, s) \/ WriteResult(w, s)
  \/ DropResults(w)
  \/ SaveScore(w) \/ SaveForm(w)
  \/ ReadTold(w) \/ \E r \in Reader : Tell(w, r)

Next ==
  \/ \E w \in Worker : Work(w) \/ Crash(w)
  \/ \E w \in Worker : Backfill(w) \/ SumSelected(w) \/ Publish(w)
  \/ \E w \in Worker, subjects \in SUBSET Subject \ {{}} : RankSelected(w, subjects)
  \/ \E w \in Worker, students \in Selection : PublishSelected(w, students)
  \/ \E w \in Worker, r \in Row, m \in Mark \cup {NoMark} : EnterMark(w, r, m)
  \/ \E w \in Worker, r \in Row, m \in Mark \cup {NoMark}, s \in Status :
       SubmitScore(w, r, m, s)
  \/ \E w \in Worker, verdict \in {"APPROVED", "REJECTED"} :
       \/ \E r \in Row : JudgeOne(w, r, verdict)
       \/ \E rows \in Batches : JudgePending(w, rows, verdict)
  \/ \E w \in Worker, s \in Student : OpenForm(w, s)
  \/ Unpublish

Spec == Init /\ [][Next]_vars

-----------------------------------------------------------------------------
(* Properties *)

\* A score that is APPROVED has the mark it was last approved with: by a moderator,
\* or by an administrator in the form of the admin site, which writes a mark and
\* an approval of any age together and asks for no verdict.  A teacher's edit
\* resets the approval; the only ways around are an approval that overtakes an
\* edit which has seen PENDING, and an edit that died before its second save.
ApprovedIsVetted ==
  \A r \in Row :
    status[r] = "APPROVED" /\ mark[r] # vetted[r] =>
      \/ r \in tainted
      \/ \E w \in Worker : job[w].phase = "reset" /\ job[w].row = r

\* A ranking pass that met no other request leaves the positions that the
\* approved, complete scores of the subject ask for: ties share the place of the
\* first, the places they take are skipped, and everyone else has none.
RanksRight ==
  [][\A w \in Worker :
       /\ job[w].alone /\ crashes' = crashes
       /\ job[w].subject # {} /\ job'[w].subject = {}
       => \A r \in Student \X job[w].subject :
            position'[r] = PlaceInSubject(r[1], r[2])]_vars

\* The same for the term results, of which none is left to a student whose
\* scores no longer count.
ResultsRight ==
  [][\A w \in Worker :
       /\ job[w].alone /\ crashes' = crashes
       /\ job[w].phase = "drop" /\ job'[w].phase = "idle"
       => \A s \in Student :
            result'[s] = ResultOf(s)]_vars

\* A publication forgets nobody: whoever it set out to tell is struck off its list
\* only once there is a notice, also when an earlier publication died half-way,
\* two overlap, or the results were withdrawn meanwhile.
ReadersTold ==
  [][\A w \in Worker :
       job[w].phase \in {"announce", "tell"} /\ crashes' = crashes
         => \A r \in job[w].toTell \ job'[w].toTell : told'[r] > 0]_vars

=============================================================================
