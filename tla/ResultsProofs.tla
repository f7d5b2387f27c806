--------------------------- MODULE ResultsProofs ----------------------------
(***************************************************************************)
(* Results guarantees for every class, every set of marks and any number   *)
(* of concurrent requests: an approved score has the mark that a moderator *)
(* or the form of the admin site approved, except where an approval        *)
(* overtook an edit or an edit died; a publication strikes no reader off   *)
(* its list without a notice; and a                                        *)
(* recomputation that meets no other request leaves the places and term    *)
(* results the scores ask for, because the ranking algorithm gives every   *)
(* list of scores the places of the reference definition.                  *)
(***************************************************************************)
EXTENDS Results, FiniteSetTheorems, SequenceTheorems, WellFoundedInduction, TLAPS

-----------------------------------------------------------------------------
(* The invariant *)

\* A job record: the fields of NoJob, whatever they hold.
IsJob(j) == j = [f \in DOMAIN NoJob |-> j[f]]

\* What the steps of an edit need to know of the tables and of the jobs.
Shape ==
  /\ mark = [r \in Row |-> mark[r]]
  /\ status = [r \in Row |-> status[r]]
  /\ vetted = [r \in Row |-> vetted[r]]
  /\ job = [w \in Worker |-> job[w]]
  /\ \A w \in Worker : IsJob(job[w])

\* An edit that will not reset a score approved meanwhile: the score is marked.
OvertakenIsTainted ==
  \A w \in Worker :
    /\ job[w].phase = "save" /\ job[w].seen \notin {"APPROVED", "REJECTED"}
    /\ status[job[w].row] = "APPROVED"
    => job[w].row \in tainted

\* Edits are of scores of the class, with one of the three statuses.
SeenSound ==
  /\ \A r \in Row : status[r] \in Status
  /\ \A w \in Worker :
       job[w].phase \in {"save", "score"}
         => job[w].seen \in Status /\ job[w].row \in Row

VettedInv == Shape /\ SeenSound /\ OvertakenIsTainted /\ ApprovedIsVetted

tables == <<mark, status, vetted, tainted>>

-----------------------------------------------------------------------------
(* How requests move *)

LEMMA NoJobShape == IsJob(NoJob) /\ NoJob.phase = "idle"
BY DEF IsJob, NoJob

\* A request that has nothing to do with edits moves on.
LEMMA Calm ==
  ASSUME VettedInv, UNCHANGED tables, NEW w \in Worker, NEW j, IsJob(j),
         j.phase \notin {"save", "score", "reset"}, job[w].phase # "reset",
         Move(w, j)
  PROVE  VettedInv'
<1> USE DEF VettedInv, tables, Move
<1>1. /\ \A x \in Worker \ {w} : job'[x] = job[x]
      /\ job'[w] = j
      /\ job' = [x \in Worker |-> job'[x]]
  BY DEF Shape
<1>2. Shape'
  BY <1>1 DEF Shape
<1>3. SeenSound' /\ OvertakenIsTainted'
  BY <1>1 DEF SeenSound, OvertakenIsTainted
<1>4. ApprovedIsVetted'
  BY <1>1 DEF ApprovedIsVetted
<1> QED
  BY <1>2, <1>3, <1>4

\* A step of a recomputation or of a form: no edit, and no publication.
CalmMove(w) ==
  \E j : /\ IsJob(j)
         /\ j.phase \notin {"save", "score", "reset", "announce", "tell"}
         /\ job[w].phase \notin {"save", "reset", "announce", "tell"}
         /\ Move(w, j)
         /\ UNCHANGED tables /\ UNCHANGED told

LEMMA CalmMoveVetted ==
  ASSUME VettedInv, NEW w \in Worker, CalmMove(w)
  PROVE  VettedInv'
BY Calm DEF CalmMove

Alone(j, b) == [j EXCEPT !.alone = b]

\* A request that begins is the only one whose phase changes.
LEMMA Begun ==
  ASSUME Shape, NEW w \in Worker, NEW j, IsJob(j), Begin(w, j)
  PROVE  /\ job[w].phase = "idle"
         /\ job' = [x \in Worker |-> job'[x]]
         /\ \A x \in Worker : IsJob(job'[x])
         /\ /\ job'[w].phase = j.phase /\ job'[w].row = j.row
            /\ job'[w].mark = j.mark /\ job'[w].seen = j.seen
            /\ job'[w].toTell = j.toTell
         /\ \A x \in Worker \ {w} :
              /\ job'[x].phase = job[x].phase /\ job'[x].row = job[x].row
              /\ job'[x].mark = job[x].mark /\ job'[x].seen = job[x].seen
              /\ job'[x].toTell = job[x].toTell
<1>1. ASSUME NEW k, IsJob(k), NEW b
      PROVE  /\ IsJob(Alone(k, b))
             /\ Alone(k, b).phase = k.phase
             /\ Alone(k, b).row = k.row
             /\ Alone(k, b).mark = k.mark
             /\ Alone(k, b).seen = k.seen
             /\ Alone(k, b).toTell = k.toTell
  BY <1>1 DEF IsJob, NoJob, Alone
<1>2. \A x \in Worker : IsJob(job[x])
  BY DEF Shape
<1>3. \A x \in Worker \ {w} : job'[x] = Alone(job[x], FALSE)
  BY DEF Begin, Alone
<1>4. job'[w] = Alone(j, Quiet)
  BY DEF Begin, Alone
<1>5. job' = [x \in Worker |-> job'[x]] /\ job[w].phase = "idle"
  BY DEF Begin, Busy
<1>6. /\ IsJob(job'[w])
      /\ job'[w].phase = j.phase /\ job'[w].row = j.row
      /\ job'[w].mark = j.mark /\ job'[w].seen = j.seen
      /\ job'[w].toTell = j.toTell
  BY <1>1, <1>4
<1>7. \A x \in Worker \ {w} :
        /\ IsJob(job'[x])
        /\ job'[x].phase = job[x].phase /\ job'[x].row = job[x].row
        /\ job'[x].mark = job[x].mark /\ job'[x].seen = job[x].seen
        /\ job'[x].toTell = job[x].toTell
  <2>1. \A k : IsJob(k) => /\ IsJob(Alone(k, FALSE))
                            /\ Alone(k, FALSE).phase = k.phase
                            /\ Alone(k, FALSE).row = k.row
                            /\ Alone(k, FALSE).mark = k.mark
                            /\ Alone(k, FALSE).seen = k.seen
                            /\ Alone(k, FALSE).toTell = k.toTell
    BY DEF IsJob, NoJob, Alone
  <2> QED
    BY <2>1, <1>2, <1>3
<1> QED
  BY <1>5, <1>6, <1>7

\* A request that begins and is no edit.
LEMMA CalmBegin ==
  ASSUME VettedInv, UNCHANGED tables, NEW w \in Worker, NEW j, IsJob(j),
         j.phase \notin {"save", "score", "reset"}, Begin(w, j)
  PROVE  VettedInv'
<1> USE DEF VettedInv, tables
<1>1. Shape'
  BY Begun DEF Shape
<1>2. SeenSound' /\ OvertakenIsTainted'
  BY Begun DEF SeenSound, OvertakenIsTainted
<1>3. ApprovedIsVetted'
  BY Begun DEF ApprovedIsVetted
<1> QED
  BY <1>1, <1>2, <1>3

-----------------------------------------------------------------------------
(* Edits and verdicts *)

LEMMA EnterMarkVetted ==
  ASSUME VettedInv, NEW w \in Worker, NEW r \in Row, NEW m,
         EnterMark(w, r, m)
  PROVE  VettedInv'
<1> DEFINE j == [NoJob EXCEPT !.phase = "save", !.row = r, !.mark = m,
                              !.seen = status[r]]
<1>1. IsJob(j) /\ j.phase = "save" /\ j.row = r /\ j.seen = status[r]
  BY DEF IsJob, NoJob
<1>2. Begin(w, j) /\ UNCHANGED tables
  BY DEF EnterMark, record, history, tables
<1> HIDE DEF j
<1> USE DEF VettedInv, tables
<1>3. Shape'
  BY <1>1, <1>2, Begun DEF Shape
<1>4. SeenSound' /\ OvertakenIsTainted'
  BY <1>1, <1>2, Begun DEF SeenSound, OvertakenIsTainted, Status
<1>5. ApprovedIsVetted'
  BY <1>1, <1>2, Begun DEF ApprovedIsVetted
<1> QED
  BY <1>3, <1>4, <1>5

\* The form of the admin site brings a status of its own.
LEMMA SubmitScoreVetted ==
  ASSUME VettedInv, NEW w \in Worker, NEW r \in Row, NEW m, NEW s \in Status,
         SubmitScore(w, r, m, s)
  PROVE  VettedInv'
<1> DEFINE j == [NoJob EXCEPT !.phase = "score", !.row = r, !.mark = m,
                              !.seen = s, !.place = position[r]]
<1>1. IsJob(j) /\ j.phase = "score" /\ j.row = r /\ j.seen = s
  BY DEF IsJob, NoJob
<1>2. Begin(w, j) /\ UNCHANGED tables
  BY DEF SubmitScore, record, history, tables
<1> HIDE DEF j
<1> USE DEF VettedInv, tables
<1>3. Shape'
  BY <1>1, <1>2, Begun DEF Shape
<1>4. SeenSound' /\ OvertakenIsTainted'
  BY <1>1, <1>2, Begun DEF SeenSound, OvertakenIsTainted, Status
<1>5. ApprovedIsVetted'
  BY <1>1, <1>2, Begun DEF ApprovedIsVetted
<1> QED
  BY <1>3, <1>4, <1>5

\* What it saves as approved is noted, and so is an edit it overtakes.
LEMMA SaveScoreVetted ==
  ASSUME VettedInv, NEW w \in Worker, SaveScore(w)
  PROVE  VettedInv'
<1> DEFINE r == job[w].row
           st == job[w].seen
<1>1. /\ job[w].phase = "score"
      /\ mark' = [mark EXCEPT ![r] = job[w].mark]
      /\ status' = [status EXCEPT ![r] = st]
      /\ st = "APPROVED" =>
           /\ vetted' = [vetted EXCEPT ![r] = job[w].mark]
           /\ tainted' = tainted \cup ({r} \cap Overtaken)
      /\ st # "APPROVED" => UNCHANGED <<vetted, tainted>>
      /\ job' = [job EXCEPT ![w] = NoJob]
  BY DEF SaveScore, Move, history
<1>2. r \in Row /\ st \in Status
  BY <1>1 DEF VettedInv, SeenSound
<1> HIDE DEF r, st
<1>3. /\ \A x \in Worker \ {w} : job'[x] = job[x]
      /\ job'[w] = NoJob
      /\ job' = [x \in Worker |-> job'[x]]
      /\ status' = [s \in Row |-> status'[s]] /\ mark' = [s \in Row |-> mark'[s]]
      /\ vetted' = [s \in Row |-> vetted'[s]]
      /\ status'[r] = st
      /\ \A s \in Row \ {r} : /\ status'[s] = status[s] /\ mark'[s] = mark[s]
                              /\ vetted'[s] = vetted[s]
      /\ st = "APPROVED" => mark'[r] = vetted'[r]
      /\ tainted \subseteq tainted'
  BY <1>1, <1>2 DEF VettedInv, Shape
<1>4. Shape'
  BY <1>3, NoJobShape DEF VettedInv, Shape
<1>5. SeenSound'
  BY <1>2, <1>3, NoJobShape DEF VettedInv, SeenSound
<1>6. OvertakenIsTainted'
  <2>1. SUFFICES ASSUME NEW x \in Worker, job'[x].phase = "save",
                        job'[x].seen \notin {"APPROVED", "REJECTED"},
                        status'[job'[x].row] = "APPROVED"
                 PROVE  job'[x].row \in tainted'
    BY DEF OvertakenIsTainted
  <2>2. x # w /\ job'[x] = job[x]
    BY <1>3, <2>1, NoJobShape
  <2>3. job[x].seen = "PENDING" /\ job[x].row \in Row
    BY <2>1, <2>2 DEF VettedInv, SeenSound, Status
  <2>4. CASE job[x].row = r
    <3>1. st = "APPROVED"
      BY <1>3, <2>1, <2>2, <2>4
    <3>2. r \in Overtaken
      BY <2>1, <2>2, <2>3, <2>4 DEF Overtaken
    <3> QED
      BY <1>1, <2>2, <2>4, <3>1, <3>2
  <2>5. CASE job[x].row # r
    <3>1. job[x].row \in tainted
      BY <1>3, <2>1, <2>2, <2>3, <2>5 DEF VettedInv, OvertakenIsTainted
    <3> QED
      BY <1>3, <2>2, <3>1
  <2> QED
    BY <2>4, <2>5
<1>7. ApprovedIsVetted'
  <2>1. SUFFICES ASSUME NEW s \in Row, status'[s] = "APPROVED",
                        mark'[s] # vetted'[s]
                 PROVE  \/ s \in tainted'
                        \/ \E x \in Worker : job'[x].phase = "reset"
                                             /\ job'[x].row = s
    BY DEF ApprovedIsVetted
  <2>2. s # r
    BY <1>3, <2>1
  <2>3. \/ s \in tainted
        \/ \E x \in Worker : job[x].phase = "reset" /\ job[x].row = s
    BY <1>3, <2>1, <2>2 DEF VettedInv, ApprovedIsVetted
  <2> QED
    BY <1>1, <1>3, <2>3
<1> QED
  BY <1>4, <1>5, <1>6, <1>7 DEF VettedInv

LEMMA SaveMarkVetted ==
  ASSUME VettedInv, NEW w \in Worker, SaveMark(w)
  PROVE  VettedInv'
<1> DEFINE r == job[w].row
           j == IF job[w].seen \in {"APPROVED", "REJECTED"}
                THEN [job[w] EXCEPT !.phase = "reset"] ELSE NoJob
<1>1. /\ job[w].phase = "save"
      /\ mark' = [mark EXCEPT ![r] = job[w].mark]
      /\ job' = [job EXCEPT ![w] = j]
      /\ UNCHANGED <<status, vetted, tainted>>
  BY DEF SaveMark, Move, history
<1>2. IsJob(j) /\ j.phase \notin {"save", "score"}
  BY DEF VettedInv, Shape, IsJob, NoJob
<1>3. job[w].seen \in {"APPROVED", "REJECTED"} => j.phase = "reset" /\ j.row = r
  BY DEF VettedInv, Shape, IsJob, NoJob
<1> HIDE DEF j
<1>4. /\ \A x \in Worker \ {w} : job'[x] = job[x]
      /\ job'[w] = j
      /\ job' = [x \in Worker |-> job'[x]]
      /\ \A s \in Row \ {r} : mark'[s] = mark[s]
      /\ mark' = [s \in Row |-> mark'[s]]
  BY <1>1 DEF VettedInv, Shape
<1>5. Shape'
  BY <1>1, <1>2, <1>4 DEF VettedInv, Shape
<1>6. SeenSound' /\ OvertakenIsTainted'
  BY <1>1, <1>2, <1>4 DEF VettedInv, SeenSound, OvertakenIsTainted
<1>7. ApprovedIsVetted'
  <2>1. SUFFICES ASSUME NEW s \in Row, status'[s] = "APPROVED",
                        mark'[s] # vetted'[s]
                 PROVE  \/ s \in tainted'
                        \/ \E x \in Worker : job'[x].phase = "reset"
                                             /\ job'[x].row = s
    BY DEF ApprovedIsVetted
  <2>2. CASE s = r
    BY <1>1, <1>3, <1>4, <2>1, <2>2 DEF VettedInv, OvertakenIsTainted
  <2>3. CASE s # r
    <3>1. \/ s \in tainted
          \/ \E x \in Worker : job[x].phase = "reset" /\ job[x].row = s
      BY <1>1, <1>4, <2>1, <2>3 DEF VettedInv, ApprovedIsVetted
    <3> QED
      BY <1>1, <1>4, <3>1
  <2> QED
    BY <2>2, <2>3
<1> QED
  BY <1>5, <1>6, <1>7 DEF VettedInv

LEMMA ResetStatusVetted ==
  ASSUME VettedInv, NEW w \in Worker, ResetStatus(w)
  PROVE  VettedInv'
<1> DEFINE r == job[w].row
<1>1. /\ job[w].phase = "reset"
      /\ status' = [status EXCEPT ![r] = "PENDING"]
      /\ job' = [job EXCEPT ![w] = NoJob]
      /\ UNCHANGED <<mark, vetted, tainted>>
  BY DEF ResetStatus, Move, history
<1>2. /\ \A x \in Worker \ {w} : job'[x] = job[x]
      /\ job'[w] = NoJob
      /\ job' = [x \in Worker |-> job'[x]]
      /\ \A s \in Row \ {r} : status'[s] = status[s]
      /\ r \in Row => status'[r] = "PENDING"
      /\ status' = [s \in Row |-> status'[s]]
  BY <1>1 DEF VettedInv, Shape
<1>3. Shape'
  BY <1>1, <1>2, NoJobShape DEF VettedInv, Shape
<1>4. SeenSound'
  BY <1>1, <1>2, NoJobShape DEF VettedInv, SeenSound, Status
<1>5. OvertakenIsTainted'
  BY <1>1, <1>2, NoJobShape DEF VettedInv, OvertakenIsTainted, Shape
<1>6. ApprovedIsVetted'
  BY <1>1, <1>2, NoJobShape DEF VettedInv, ApprovedIsVetted
<1> QED
  BY <1>3, <1>4, <1>5, <1>6 DEF VettedInv

\* Approval notes the mark, and the scores whose edits it overtook.
LEMMA JudgeVetted ==
  ASSUME VettedInv, NEW w \in Worker, NEW rows \in SUBSET Row,
         NEW verdict \in {"APPROVED", "REJECTED"}, Judge(w, rows, verdict)
  PROVE  VettedInv'
<1> DEFINE j == Recompute(Subject, Cardinality(Student), TRUE)
<1>1. IsJob(j) /\ j.phase = "clear"
  BY DEF IsJob, NoJob, Recompute
<1>2. /\ Begin(w, j) /\ UNCHANGED mark
      /\ status' = [r \in Row |-> IF r \in rows THEN verdict ELSE status[r]]
  BY DEF Judge
<1> HIDE DEF j
<1>3. /\ verdict = "APPROVED" =>
           /\ vetted' = [r \in Row |-> IF r \in rows THEN mark[r] ELSE vetted[r]]
           /\ tainted' = tainted \cup (rows \cap Overtaken)
      /\ verdict # "APPROVED" => UNCHANGED <<vetted, tainted>>
  BY DEF Judge, history
<1>4. Shape'
  BY <1>1, <1>2, <1>3, Begun DEF VettedInv, Shape
<1>5. SeenSound'
  BY <1>1, <1>2, Begun DEF VettedInv, SeenSound, Status
<1>6. OvertakenIsTainted'
  <2>1. SUFFICES ASSUME NEW x \in Worker, job'[x].phase = "save",
                        job'[x].seen \notin {"APPROVED", "REJECTED"},
                        status'[job'[x].row] = "APPROVED"
                 PROVE  job'[x].row \in tainted'
    BY DEF OvertakenIsTainted
  <2>2. /\ x # w /\ job[x].phase = "save" /\ job[x].row = job'[x].row
        /\ job[x].seen = job'[x].seen
    BY <1>1, <1>2, <2>1, Begun DEF VettedInv
  <2>3. job[x].seen = "PENDING"
    BY <2>1, <2>2 DEF VettedInv, SeenSound, Status
  <2>4. CASE job[x].row \in rows
    <3>1. verdict = "APPROVED"
      BY <1>2, <2>1, <2>2, <2>4
    <3>2. job[x].row \in Overtaken
      BY <2>2, <2>3 DEF Overtaken
    <3> QED
      BY <1>3, <2>2, <2>4, <3>1, <3>2
  <2>5. CASE job[x].row \notin rows
    <3>1. status[job[x].row] = "APPROVED"
      BY <1>2, <2>1, <2>2, <2>5 DEF VettedInv, SeenSound
    <3>2. job[x].row \in tainted
      BY <2>1, <2>2, <3>1 DEF VettedInv, OvertakenIsTainted
    <3> QED
      BY <1>3, <2>2, <3>2
  <2> QED
    BY <2>4, <2>5
<1>7. ApprovedIsVetted'
  <2>1. SUFFICES ASSUME NEW r \in Row, status'[r] = "APPROVED",
                        mark'[r] # vetted'[r]
                 PROVE  \/ r \in tainted'
                        \/ \E x \in Worker : job'[x].phase = "reset"
                                             /\ job'[x].row = r
    BY DEF ApprovedIsVetted
  <2>2. r \notin rows
    BY <1>2, <1>3, <2>1
  <2>3. \/ r \in tainted
        \/ \E x \in Worker : job[x].phase = "reset" /\ job[x].row = r
    BY <1>2, <1>3, <2>1, <2>2 DEF VettedInv, ApprovedIsVetted
  <2> QED
    BY <1>2, <1>3, <2>3, <1>1, Begun DEF VettedInv
<1> QED
  BY <1>4, <1>5, <1>6, <1>7 DEF VettedInv

\* An edit that dies before its reset marks its score.
LEMMA CrashVetted ==
  ASSUME VettedInv, NEW w \in Worker, Crash(w)
  PROVE  VettedInv'
<1>1. /\ UNCHANGED <<mark, status, vetted>>
      /\ job' = [job EXCEPT ![w] = NoJob]
      /\ tainted \subseteq tainted'
      /\ job[w].phase = "reset" => job[w].row \in tainted'
  BY DEF Crash, Move, record
<1>2. /\ \A x \in Worker \ {w} : job'[x] = job[x]
      /\ job'[w] = NoJob
      /\ job' = [x \in Worker |-> job'[x]]
  BY <1>1 DEF VettedInv, Shape
<1>3. Shape'
  BY <1>1, <1>2, NoJobShape DEF VettedInv, Shape
<1>4. SeenSound' /\ OvertakenIsTainted'
  BY <1>1, <1>2, NoJobShape DEF VettedInv, SeenSound, OvertakenIsTainted
<1>5. ApprovedIsVetted'
  BY <1>1, <1>2, NoJobShape DEF VettedInv, ApprovedIsVetted
<1> QED
  BY <1>3, <1>4, <1>5 DEF VettedInv

-----------------------------------------------------------------------------
(* Everything else leaves marks, statuses and verdicts alone *)

\* Where a recomputation goes after a pass is no edit.
LEMMA AfterPassCalm ==
  ASSUME NEW j, IsJob(j)
  PROVE  /\ IsJob(AfterPass(j))
         /\ AfterPass(j).phase \in {"clear", "sum", "idle"}
<1>1. CASE j.passes # {}
  BY <1>1 DEF AfterPass, IsJob, NoJob
<1>2. CASE j.passes = {} /\ j.summary
  BY <1>2 DEF AfterPass, IsJob, NoJob
<1>3. CASE j.passes = {} /\ ~ j.summary
  BY <1>3, NoJobShape DEF AfterPass
<1> QED
  BY <1>1, <1>2, <1>3

LEMMA RankingCalm ==
  ASSUME Shape, NEW w \in Worker,
         ReadScores(w) \/ SavePosition(w)
           \/ \E b \in Subject : ClearPositions(w, b)
  PROVE  CalmMove(w)
<1>1. IsJob(job[w])
  BY DEF Shape
<1>2. ASSUME NEW b \in Subject, ClearPositions(w, b) PROVE CalmMove(w)
  <2> DEFINE p == job[w].passes \ {<<Min({q[1] : q \in job[w].passes}), b>>}
             j == [job[w] EXCEPT !.phase = "read", !.subject = {b},
                                 !.passes = p]
  <2>1. IsJob(j) /\ j.phase = "read"
    <3> HIDE DEF p
    <3> QED
      BY <1>1 DEF IsJob, NoJob
  <2>2. Move(w, j) /\ UNCHANGED tables /\ UNCHANGED told /\ job[w].phase = "clear"
    BY <1>2 DEF ClearPositions, tables, history, publication
  <2> QED
    BY <2>1, <2>2 DEF CalmMove
<1>3. CASE ReadScores(w)
  <2> DEFINE ranked == RankedIn(CHOOSE b \in job[w].subject : TRUE)
             j == IF ranked = <<>> THEN AfterPass(job[w])
                  ELSE [job[w] EXCEPT !.phase = "rank", !.ranked = ranked]
  <2>1. IsJob(j) /\ j.phase \notin {"save", "score", "reset", "announce", "tell"}
    <3> HIDE DEF ranked
    <3>1. LET k == [job[w] EXCEPT !.phase = "rank", !.ranked = ranked]
          IN  IsJob(k) /\ k.phase = "rank"
      BY <1>1 DEF IsJob, NoJob
    <3> QED
      BY <3>1, <1>1, AfterPassCalm
  <2>2. Move(w, j) /\ UNCHANGED tables /\ UNCHANGED told /\ job[w].phase = "read"
    BY <1>3 DEF ReadScores, tables, history, publication, record
  <2> QED
    BY <2>1, <2>2 DEF CalmMove
<1>4. CASE SavePosition(w)
  <2> DEFINE rest == Tail(job[w].ranked)
             j == IF rest = <<>> THEN AfterPass(job[w])
                                 ELSE [job[w] EXCEPT !.ranked = rest]
  <2>1. Move(w, j) /\ UNCHANGED tables /\ UNCHANGED told /\ job[w].phase = "rank"
    BY <1>4 DEF SavePosition, tables, history, publication
  <2>2. IsJob(j) /\ j.phase \notin {"save", "score", "reset", "announce", "tell"}
    <3> HIDE DEF rest
    <3>1. LET k == [job[w] EXCEPT !.ranked = rest]
          IN  IsJob(k) /\ k.phase = job[w].phase
      BY <1>1 DEF IsJob, NoJob
    <3> QED
      BY <2>1, <3>1, <1>1, AfterPassCalm
  <2> QED
    BY <2>1, <2>2 DEF CalmMove
<1> QED
  BY <1>2, <1>3, <1>4

LEMMA SummaryCalm ==
  ASSUME Shape, NEW w \in Worker,
         DropResults(w) \/ SaveForm(w)
           \/ \E s \in Student : SumScores(w, s) \/ WriteResult(w, s)
  PROVE  CalmMove(w)
<1>1. IsJob(job[w])
  BY DEF Shape
<1>2. ASSUME NEW s \in Student, SumScores(w, s) PROVE CalmMove(w)
  <2> DEFINE sums == [job[w].sums EXCEPT ![s] = SumOf(s)]
             left == job[w].toSum \ {s}
             writes == {x \in Student : sums[x].there}
             phase == IF writes = {} THEN "drop" ELSE "write"
             places == WithPlaces(sums)
             j == IF left # {}
                  THEN [job[w] EXCEPT !.toSum = left, !.sums = sums]
                  ELSE [job[w] EXCEPT !.phase = phase, !.toSum = {},
                                      !.sums = places, !.toWrite = writes]
  <2>1. Move(w, j) /\ UNCHANGED tables /\ UNCHANGED told /\ job[w].phase = "sum"
    BY <1>2 DEF SumScores, tables, history, publication, record
  <2>2. IsJob(j) /\ j.phase \notin {"save", "score", "reset", "announce", "tell"}
    <3> HIDE DEF places, sums, writes, left
    <3>1. CASE left # {}
      BY <1>1, <2>1, <3>1 DEF IsJob, NoJob
    <3>2. CASE left = {}
      BY <1>1, <2>1, <3>2 DEF IsJob, NoJob
    <3> QED
      BY <3>1, <3>2
  <2> QED
    BY <2>1, <2>2 DEF CalmMove
<1>3. ASSUME NEW s \in Student, WriteResult(w, s) PROVE CalmMove(w)
  <2> DEFINE left == job[w].toWrite \ {s}
             phase == IF job[w].toWrite = {s} THEN "drop" ELSE "write"
             j == [job[w] EXCEPT !.toWrite = left, !.phase = phase]
  <2>1. Move(w, j) /\ UNCHANGED tables /\ UNCHANGED told /\ job[w].phase = "write"
    BY <1>3 DEF WriteResult, tables, history, publication
  <2>2. IsJob(j) /\ j.phase \notin {"save", "score", "reset", "announce", "tell"}
    BY <1>1 DEF IsJob, NoJob
  <2> QED
    BY <2>1, <2>2 DEF CalmMove
<1>4. CASE DropResults(w) \/ SaveForm(w)
  <2>1. Move(w, NoJob) /\ UNCHANGED tables /\ UNCHANGED told /\ job[w].phase \in {"drop", "form"}
    BY <1>4 DEF DropResults, SaveForm, tables, history, publication
  <2> QED
    BY <2>1, NoJobShape DEF CalmMove
<1> QED
  BY <1>2, <1>3, <1>4

LEMMA TellingVetted ==
  ASSUME VettedInv, NEW w \in Worker,
         ReadTold(w) \/ \E r \in Reader : Tell(w, r)
  PROVE  VettedInv'
<1>1. IsJob(job[w])
  BY DEF VettedInv, Shape
<1>2. CASE ReadTold(w)
  <2> DEFINE new == {r \in job[w].toTell : told[r] = 0}
             j == IF new = {} THEN NoJob
                  ELSE [job[w] EXCEPT !.phase = "tell", !.toTell = new]
  <2>1. Move(w, j) /\ UNCHANGED tables /\ job[w].phase = "announce"
    BY <1>2 DEF ReadTold, tables, history, record
  <2>2. IsJob(j) /\ j.phase \notin {"save", "score", "reset"}
    <3> HIDE DEF new
    <3> QED
      BY <1>1, NoJobShape DEF IsJob, NoJob
  <2> QED
    BY <2>1, <2>2, Calm
<1>3. ASSUME NEW r \in Reader, Tell(w, r) PROVE VettedInv'
  <2> DEFINE left == job[w].toTell \ {r}
             j == IF job[w].toTell = {r} THEN NoJob
                  ELSE [job[w] EXCEPT !.toTell = left]
  <2>1. Move(w, j) /\ UNCHANGED tables /\ job[w].phase = "tell"
    BY <1>3 DEF Tell, tables, history, record
  <2>2. IsJob(j) /\ j.phase \notin {"save", "score", "reset"}
    <3> HIDE DEF left
    <3> QED
      BY <1>1, <2>1, NoJobShape DEF IsJob, NoJob
  <2> QED
    BY <2>1, <2>2, Calm
<1> QED
  BY <1>2, <1>3

LEMMA RecomputeJob ==
  ASSUME NEW b, NEW n, NEW summary
  PROVE  /\ IsJob(Recompute(b, n, summary))
         /\ Recompute(b, n, summary).phase = "clear"
BY DEF Recompute, IsJob, NoJob

LEMMA BackfillVetted ==
  ASSUME VettedInv, NEW w \in Worker,
         \/ Backfill(w) \/ SumSelected(w)
         \/ \E subjects \in SUBSET Subject \ {{}} : RankSelected(w, subjects)
  PROVE  VettedInv'
<1>1. ASSUME Backfill(w) PROVE VettedInv'
  <2>1. UNCHANGED tables /\ Begin(w, Recompute(Subject, 1, TRUE))
    BY <1>1 DEF Backfill, tables, record, history
  <2> QED
    BY <2>1, RecomputeJob, CalmBegin
<1>2. ASSUME NEW subjects \in SUBSET Subject \ {{}}, RankSelected(w, subjects)
      PROVE  VettedInv'
  <2>1. UNCHANGED tables /\ Begin(w, Recompute(subjects, 1, FALSE))
    BY <1>2 DEF RankSelected, tables, record, history
  <2> QED
    BY <2>1, RecomputeJob, CalmBegin
<1>3. ASSUME SumSelected(w) PROVE VettedInv'
  <2> DEFINE j == [NoJob EXCEPT !.phase = "sum", !.toSum = Student]
  <2>1. IsJob(j) /\ j.phase = "sum"
    BY DEF IsJob, NoJob
  <2>2. UNCHANGED tables /\ Begin(w, j)
    BY <1>3 DEF SumSelected, tables, record, history
  <2> QED
    BY <2>1, <2>2, CalmBegin
<1> QED
  BY <1>1, <1>2, <1>3

LEMMA OpenFormVetted ==
  ASSUME VettedInv, NEW w \in Worker, NEW s \in Student, OpenForm(w, s)
  PROVE  VettedInv'
<1> DEFINE filled == [NoJob.sums EXCEPT ![s] = result[s]]
           j == [NoJob EXCEPT !.phase = "form", !.student = {s},
                              !.sums = filled]
<1>1. j = [NoJob EXCEPT !.phase = "form", !.student = {s},
                        !.sums[s] = result[s]]
  BY DEF NoJob
<1>2. Begin(w, j) /\ UNCHANGED tables
  BY <1>1 DEF OpenForm, tables, record, history
<1>3. IsJob(j) /\ j.phase = "form"
  <2> HIDE DEF filled
  <2> QED
    BY DEF IsJob, NoJob
<1> QED
  BY <1>2, <1>3, CalmBegin

LEMMA PublicationVetted ==
  ASSUME VettedInv,
         \/ \E w \in Worker : Publish(w)
         \/ \E w \in Worker, students \in Selection : PublishSelected(w, students)
         \/ Unpublish
  PROVE  VettedInv'
<1>1. ASSUME NEW w \in Worker, Publish(w) PROVE VettedInv'
  <2> DEFINE j == [NoJob EXCEPT !.phase = "announce", !.toTell = Reader]
  <2>1. IsJob(j) /\ j.phase = "announce"
    BY DEF IsJob, NoJob
  <2>2. Begin(w, j) /\ UNCHANGED tables
    BY <1>1 DEF Publish, tables, record, history
  <2> QED
    BY <2>1, <2>2, CalmBegin
<1>3. ASSUME NEW w \in Worker, NEW students \in Selection,
             PublishSelected(w, students)
      PROVE  VettedInv'
  <2> DEFINE readers == {r \in Reader : r[2] \in students}
             j == [NoJob EXCEPT !.phase = "announce", !.toTell = readers]
  <2>1. IsJob(j) /\ j.phase = "announce"
    BY DEF IsJob, NoJob
  <2>2. Begin(w, j) /\ UNCHANGED tables
    BY <1>3 DEF PublishSelected, tables, record, history
  <2> QED
    BY <2>1, <2>2, CalmBegin
<1>2. CASE Unpublish
  <2>1. UNCHANGED tables
    BY <1>2 DEF Unpublish, tables, record, history
  <2>2. /\ job' = [x \in Worker |-> job'[x]]
        /\ \A x \in Worker : job'[x] = Alone(job[x], FALSE)
    BY <1>2 DEF Unpublish, Request, Alone
  <2>3. \A k : IsJob(k) => /\ IsJob(Alone(k, FALSE))
                           /\ Alone(k, FALSE).phase = k.phase
                           /\ Alone(k, FALSE).row = k.row
                           /\ Alone(k, FALSE).seen = k.seen
    BY DEF IsJob, NoJob, Alone
  <2>4. \A x \in Worker : /\ IsJob(job'[x])
                          /\ job'[x].phase = job[x].phase
                          /\ job'[x].row = job[x].row
                          /\ job'[x].seen = job[x].seen
    BY <2>2, <2>3 DEF VettedInv, Shape
  <2>5. Shape'
    BY <2>1, <2>2, <2>4 DEF VettedInv, Shape, tables
  <2>6. SeenSound' /\ OvertakenIsTainted'
    BY <2>1, <2>4 DEF VettedInv, SeenSound, OvertakenIsTainted, tables
  <2>7. ApprovedIsVetted'
    BY <2>1, <2>4 DEF VettedInv, ApprovedIsVetted, tables
  <2> QED
    BY <2>5, <2>6, <2>7 DEF VettedInv
<1> QED
  BY <1>1, <1>2, <1>3

-----------------------------------------------------------------------------
(* Publications *)

Telling(j) == j.phase \in {"announce", "tell"}

\* Notices are counted, and a publication is about readers of the class.
TellInv ==
  /\ told \in [Reader -> Nat]
  /\ \A w \in Worker : Telling(job[w]) => job[w].toTell \subseteq Reader

TellingInv == VettedInv /\ TellInv /\ crashes \in Nat

\* What ReadersTold says of one step.
NobodySkipped ==
  \A w \in Worker :
    Telling(job[w]) /\ crashes' = crashes
      => \A r \in job[w].toTell \ job'[w].toTell : told'[r] > 0

\* A request that tells nobody moves on.
LEMMA OtherMove ==
  ASSUME Shape, TellInv, UNCHANGED told, NEW w \in Worker, NEW j,
         ~ Telling(j), ~ Telling(job[w]), Move(w, j)
  PROVE  TellInv' /\ NobodySkipped
<1>1. job'[w] = j /\ \A x \in Worker \ {w} : job'[x] = job[x]
  BY DEF Shape, Move
<1> QED
  BY <1>1 DEF TellInv, NobodySkipped

\* Whoever begins leaves the lists of the others as they are.
LEMMA AnyBegin ==
  ASSUME Shape, TellInv, UNCHANGED told, NEW w \in Worker, NEW j, IsJob(j),
         Telling(j) => j.toTell \subseteq Reader, Begin(w, j)
  PROVE  TellInv' /\ NobodySkipped
<1>1. ~ Telling(job[w]) /\ (Telling(job'[w]) => job'[w].toTell \subseteq Reader)
  BY Begun DEF Telling
<1>2. \A x \in Worker \ {w} : job'[x].phase = job[x].phase
                              /\ job'[x].toTell = job[x].toTell
  BY Begun
<1>3. TellInv'
  BY <1>1, <1>2 DEF TellInv, Telling
<1>4. NobodySkipped
  BY <1>1, <1>2 DEF NobodySkipped, Telling
<1> QED
  BY <1>3, <1>4

\* Those struck off after the read have a notice.
LEMMA ReadToldTells ==
  ASSUME Shape, TellInv, NEW w \in Worker, ReadTold(w)
  PROVE  TellInv' /\ NobodySkipped
<1> DEFINE new == {r \in job[w].toTell : told[r] = 0}
           j == IF new = {} THEN NoJob
                ELSE [job[w] EXCEPT !.phase = "tell", !.toTell = new]
<1>1. job[w].phase = "announce" /\ Move(w, j) /\ UNCHANGED told
  BY DEF ReadTold, publication
<1>2. job'[w] = j /\ \A x \in Worker \ {w} : job'[x] = job[x]
  BY <1>1 DEF Shape, Move
<1>3. new \subseteq job[w].toTell /\ job[w].toTell \subseteq Reader
  BY <1>1 DEF TellInv, Telling
<1>4. \A r \in job[w].toTell \ new : told'[r] > 0
  BY <1>1, <1>3 DEF TellInv
<1>5. /\ Telling(j) => j.toTell \subseteq Reader
      /\ job[w].toTell \ j.toTell \subseteq job[w].toTell \ new
  <2>1. IsJob(job[w])
    BY DEF Shape
  <2> HIDE DEF new
  <2>2. CASE new = {}
    BY <2>2, NoJobShape DEF Telling
  <2>3. CASE new # {}
    <3>1. j.toTell = new
      BY <2>1, <2>3 DEF IsJob, NoJob
    <3> QED
      BY <3>1, <1>3
  <2> QED
    BY <2>2, <2>3
<1> HIDE DEF new, j
<1>6. TellInv'
  BY <1>1, <1>2, <1>5 DEF TellInv
<1>7. NobodySkipped
  BY <1>1, <1>2, <1>4, <1>5 DEF NobodySkipped
<1> QED
  BY <1>6, <1>7

\* The one who is struck off was sent a notice in the same step.
LEMMA TellTells ==
  ASSUME Shape, TellInv, NEW w \in Worker, NEW r \in Reader, Tell(w, r)
  PROVE  TellInv' /\ NobodySkipped
<1> DEFINE left == job[w].toTell \ {r}
           j == IF job[w].toTell = {r} THEN NoJob
                ELSE [job[w] EXCEPT !.toTell = left]
<1>1. /\ job[w].phase = "tell" /\ Move(w, j)
      /\ told' = [told EXCEPT ![r] = @ + 1]
  BY DEF Tell
<1>2. job'[w] = j /\ \A x \in Worker \ {w} : job'[x] = job[x]
  BY <1>1 DEF Shape, Move
<1>3. told' \in [Reader -> Nat] /\ told'[r] > 0
  BY <1>1 DEF TellInv
<1>4. /\ Telling(j) => j.toTell \subseteq Reader
      /\ job[w].toTell \ j.toTell \subseteq {r}
  <2>1. IsJob(job[w]) /\ job[w].toTell \subseteq Reader
    BY <1>1 DEF Shape, TellInv, Telling
  <2>2. CASE job[w].toTell = {r}
    BY <2>2, NoJobShape DEF Telling
  <2>3. CASE job[w].toTell # {r}
    <3> HIDE DEF left
    <3>1. j.toTell = left
      BY <2>1, <2>3 DEF IsJob, NoJob
    <3> QED
      BY <3>1, <2>1 DEF left
  <2> QED
    BY <2>2, <2>3
<1> HIDE DEF left, j
<1>5. TellInv'
  BY <1>2, <1>3, <1>4 DEF TellInv
<1>6. NobodySkipped
  BY <1>2, <1>3, <1>4 DEF NobodySkipped
<1> QED
  BY <1>5, <1>6

LEMMA WorkTells ==
  ASSUME Shape, TellInv, NEW w \in Worker, Work(w)
  PROVE  TellInv' /\ NobodySkipped
<1>1. CASE SaveMark(w)
  <2> DEFINE j == IF job[w].seen \in {"APPROVED", "REJECTED"}
                  THEN [job[w] EXCEPT !.phase = "reset"] ELSE NoJob
  <2>1. Move(w, j) /\ job[w].phase = "save" /\ UNCHANGED told
    BY <1>1 DEF SaveMark, publication
  <2>2. j.phase \in {"reset", "idle"}
    BY NoJobShape DEF Shape, IsJob, NoJob
  <2> QED
    BY <2>1, <2>2, OtherMove DEF Telling
<1>2. CASE ResetStatus(w)
  <2>1. Move(w, NoJob) /\ job[w].phase = "reset" /\ UNCHANGED told
    BY <1>2 DEF ResetStatus, publication
  <2> QED
    BY <2>1, NoJobShape, OtherMove DEF Telling
<1>4. CASE SaveScore(w)
  <2>1. Move(w, NoJob) /\ job[w].phase = "score" /\ UNCHANGED told
    BY <1>4 DEF SaveScore, publication
  <2> QED
    BY <2>1, NoJobShape, OtherMove DEF Telling
<1>3. CASE CalmMove(w)
  BY <1>3, OtherMove DEF CalmMove, Telling
<1> QED
  BY <1>1, <1>2, <1>3, <1>4, RankingCalm, SummaryCalm, ReadToldTells, TellTells
     DEF Work

LEMMA CrashTells ==
  ASSUME Shape, TellInv, NEW w \in Worker, Crash(w), crashes \in Nat
  PROVE  TellInv' /\ NobodySkipped
<1>1. Move(w, NoJob) /\ UNCHANGED told /\ crashes' = crashes + 1
  BY DEF Crash, publication
<1>2. job'[w] = NoJob /\ \A x \in Worker \ {w} : job'[x] = job[x]
  BY <1>1 DEF Shape, Move
<1> QED
  BY <1>1, <1>2, NoJobShape DEF TellInv, NobodySkipped, Telling

LEMMA NewRequestTells ==
  ASSUME Shape, TellInv, NEW w \in Worker,
         \/ Backfill(w) \/ SumSelected(w) \/ Publish(w)
         \/ \E subjects \in SUBSET Subject \ {{}} : RankSelected(w, subjects)
         \/ \E students \in Selection : PublishSelected(w, students)
         \/ \E r \in Row, m \in Mark \cup {NoMark} : EnterMark(w, r, m)
         \/ \E r \in Row, m \in Mark \cup {NoMark}, s \in Status :
              SubmitScore(w, r, m, s)
         \/ \E rows, verdict : Judge(w, rows, verdict)
         \/ \E s \in Student : OpenForm(w, s)
  PROVE  TellInv' /\ NobodySkipped
<1> SUFFICES \E j : /\ IsJob(j) /\ (Telling(j) => j.toTell \subseteq Reader)
                    /\ Begin(w, j) /\ UNCHANGED told
  BY AnyBegin
<1>1. CASE Backfill(w)
  BY <1>1, RecomputeJob DEF Backfill, publication, Telling
<1>2. CASE SumSelected(w)
  <2> DEFINE j == [NoJob EXCEPT !.phase = "sum", !.toSum = Student]
  <2>1. IsJob(j) /\ j.phase = "sum"
    BY DEF IsJob, NoJob
  <2>2. Begin(w, j) /\ UNCHANGED told
    BY <1>2 DEF SumSelected, publication
  <2> QED
    BY <2>1, <2>2 DEF Telling
<1>3. ASSUME NEW readers \in SUBSET Reader, UNCHANGED told,
             Begin(w, [NoJob EXCEPT !.phase = "announce", !.toTell = readers])
      PROVE  \E j : /\ IsJob(j) /\ (Telling(j) => j.toTell \subseteq Reader)
                    /\ Begin(w, j) /\ UNCHANGED told
  <2> DEFINE j == [NoJob EXCEPT !.phase = "announce", !.toTell = readers]
  <2>1. IsJob(j) /\ j.toTell \subseteq Reader
    BY DEF IsJob, NoJob
  <2> QED
    BY <1>3, <2>1
<1>4. CASE Publish(w)
  BY <1>3, <1>4 DEF Publish
<1>5. ASSUME NEW students \in Selection, PublishSelected(w, students)
      PROVE  \E j : /\ IsJob(j) /\ (Telling(j) => j.toTell \subseteq Reader)
                    /\ Begin(w, j) /\ UNCHANGED told
  <2> DEFINE readers == {r \in Reader : r[2] \in students}
  <2>1. /\ readers \subseteq Reader /\ UNCHANGED told
        /\ Begin(w, [NoJob EXCEPT !.phase = "announce", !.toTell = readers])
    BY <1>5 DEF PublishSelected
  <2> QED
    BY <1>3, <2>1
<1>6. ASSUME NEW subjects, RankSelected(w, subjects)
      PROVE  \E j : /\ IsJob(j) /\ (Telling(j) => j.toTell \subseteq Reader)
                    /\ Begin(w, j) /\ UNCHANGED told
  BY <1>6, RecomputeJob DEF RankSelected, publication, Telling
<1>7. ASSUME NEW r, NEW m, EnterMark(w, r, m)
      PROVE  \E j : /\ IsJob(j) /\ (Telling(j) => j.toTell \subseteq Reader)
                    /\ Begin(w, j) /\ UNCHANGED told
  <2> DEFINE j == [NoJob EXCEPT !.phase = "save", !.row = r, !.mark = m,
                                !.seen = status[r]]
  <2>1. IsJob(j) /\ j.phase = "save"
    BY DEF IsJob, NoJob
  <2>2. Begin(w, j) /\ UNCHANGED told
    BY <1>7 DEF EnterMark, publication
  <2> QED
    BY <2>1, <2>2 DEF Telling
<1>10. ASSUME NEW r, NEW m, NEW s, SubmitScore(w, r, m, s)
       PROVE  \E j : /\ IsJob(j) /\ (Telling(j) => j.toTell \subseteq Reader)
                     /\ Begin(w, j) /\ UNCHANGED told
  <2> DEFINE j == [NoJob EXCEPT !.phase = "score", !.row = r, !.mark = m,
                                !.seen = s, !.place = position[r]]
  <2>1. IsJob(j) /\ j.phase = "score"
    BY DEF IsJob, NoJob
  <2>2. Begin(w, j) /\ UNCHANGED told
    BY <1>10 DEF SubmitScore, publication
  <2> QED
    BY <2>1, <2>2 DEF Telling
<1>8. ASSUME NEW rows, NEW verdict, Judge(w, rows, verdict)
      PROVE  \E j : /\ IsJob(j) /\ (Telling(j) => j.toTell \subseteq Reader)
                    /\ Begin(w, j) /\ UNCHANGED told
  BY <1>8, RecomputeJob DEF Judge, publication, Telling
<1>9. ASSUME NEW s \in Student, OpenForm(w, s)
      PROVE  \E j : /\ IsJob(j) /\ (Telling(j) => j.toTell \subseteq Reader)
                    /\ Begin(w, j) /\ UNCHANGED told
  <2> DEFINE filled == [NoJob.sums EXCEPT ![s] = result[s]]
             j == [NoJob EXCEPT !.phase = "form", !.student = {s},
                                !.sums = filled]
  <2>1. Begin(w, j) /\ UNCHANGED told
    BY <1>9 DEF OpenForm, publication, NoJob
  <2>2. IsJob(j) /\ j.phase = "form"
    <3> HIDE DEF filled
    <3> QED
      BY DEF IsJob, NoJob
  <2> QED
    BY <2>1, <2>2 DEF Telling
<1> QED
  BY <1>1, <1>2, <1>4, <1>5, <1>6, <1>7, <1>8, <1>9, <1>10

LEMMA UnpublishTells ==
  ASSUME Shape, TellInv, Unpublish
  PROVE  TellInv' /\ NobodySkipped
<1>1. UNCHANGED told /\ \A x \in Worker : job'[x] = Alone(job[x], FALSE)
  BY DEF Unpublish, Request, Alone
<1>2. \A k : IsJob(k) => /\ Alone(k, FALSE).phase = k.phase
                         /\ Alone(k, FALSE).toTell = k.toTell
  BY DEF IsJob, NoJob, Alone
<1>3. \A x \in Worker : job'[x].phase = job[x].phase
                        /\ job'[x].toTell = job[x].toTell
  BY <1>1, <1>2 DEF Shape
<1> QED
  BY <1>1, <1>3 DEF TellInv, NobodySkipped, Telling

LEMMA NextTells ==
  ASSUME Shape, TellInv, crashes \in Nat, [Next]_vars
  PROVE  TellInv' /\ NobodySkipped /\ crashes' \in Nat
<1>1. ASSUME NEW w \in Worker, Work(w)
      PROVE  TellInv' /\ NobodySkipped
  BY <1>1, WorkTells
<1>2. ASSUME NEW w \in Worker, Crash(w)
      PROVE  TellInv' /\ NobodySkipped
  BY <1>2, CrashTells
<1>3. ASSUME NEW w \in Worker,
             \/ \E r, verdict : JudgeOne(w, r, verdict)
             \/ \E rows, verdict : JudgePending(w, rows, verdict)
      PROVE  TellInv' /\ NobodySkipped
  <2>1. \E rows, verdict : Judge(w, rows, verdict)
    BY <1>3 DEF JudgeOne, JudgePending
  <2> QED
    BY <2>1, NewRequestTells
<1>4. ASSUME Unpublish PROVE TellInv' /\ NobodySkipped
  BY <1>4, UnpublishTells
<1>5. ASSUME UNCHANGED vars PROVE TellInv' /\ NobodySkipped
  BY <1>5 DEF vars, TellInv, NobodySkipped
<1>6. TellInv' /\ NobodySkipped
  BY <1>1, <1>2, <1>3, <1>4, <1>5, NewRequestTells DEF Next
<1>7. crashes' \in Nat
  <2>1. ASSUME NEW w \in Worker, Work(w) PROVE crashes' = crashes
    BY <2>1 DEF Work, SaveMark, ResetStatus, ClearPositions, ReadScores,
                SavePosition, SumScores, WriteResult, DropResults, SaveForm,
                SaveScore, ReadTold, Tell, counts
  <2>2. ASSUME NEW w \in Worker, Crash(w) PROVE crashes' = crashes + 1
    BY <2>2 DEF Crash
  <2>3. ASSUME NEW w \in Worker, NEW j, Begin(w, j) PROVE crashes' = crashes
    BY <2>3 DEF Begin
  <2>4. ASSUME NEW w \in Worker,
               Backfill(w) \/ SumSelected(w) \/ Publish(w)
        PROVE  crashes' = crashes
    BY <2>3, <2>4 DEF Backfill, SumSelected, Publish
  <2>5. ASSUME NEW w \in Worker, NEW x,
               RankSelected(w, x) \/ PublishSelected(w, x) \/ OpenForm(w, x)
        PROVE  crashes' = crashes
    BY <2>3, <2>5 DEF RankSelected, PublishSelected, OpenForm
  <2>6. ASSUME NEW w \in Worker, NEW x, NEW y, EnterMark(w, x, y)
        PROVE  crashes' = crashes
    BY <2>3, <2>6 DEF EnterMark
  <2>9. ASSUME NEW w \in Worker, NEW r, NEW m, NEW s, SubmitScore(w, r, m, s)
        PROVE  crashes' = crashes
    BY <2>3, <2>9 DEF SubmitScore
  <2>7. ASSUME NEW w \in Worker, NEW x, NEW y,
               JudgeOne(w, x, y) \/ JudgePending(w, x, y)
        PROVE  crashes' = crashes
    BY <2>3, <2>7 DEF JudgeOne, JudgePending, Judge
  <2>8. ASSUME Unpublish \/ UNCHANGED vars PROVE crashes' = crashes
    BY <2>8 DEF Unpublish, Request, vars
  <2> QED
    BY <2>1, <2>2, <2>4, <2>5, <2>6, <2>7, <2>8, <2>9 DEF Next
<1> QED
  BY <1>6, <1>7

-----------------------------------------------------------------------------
(* Approved scores are vetted, readers are told *)

LEMMA InitVetted == Init => VettedInv
<1> SUFFICES ASSUME Init PROVE VettedInv
  OBVIOUS
<1>1. /\ mark \in [Row -> Mark \cup {NoMark}]
      /\ status \in [Row -> Status]
  BY ResultsAssumption DEF Init
<1>2. job = [w \in Worker |-> NoJob] /\ vetted = mark
  BY DEF Init
<1> QED
  BY <1>1, <1>2, NoJobShape
     DEF VettedInv, Shape, SeenSound, OvertakenIsTainted, ApprovedIsVetted

LEMMA NextVetted == VettedInv /\ [Next]_vars => VettedInv'
<1> SUFFICES ASSUME VettedInv, [Next]_vars PROVE VettedInv'
  OBVIOUS
<1>1. ASSUME NEW w \in Worker, Work(w) PROVE VettedInv'
  BY <1>1, SaveMarkVetted, SaveScoreVetted, ResetStatusVetted, RankingCalm, SummaryCalm,
     CalmMoveVetted, TellingVetted DEF Work, VettedInv
<1>2. ASSUME NEW w \in Worker, Crash(w) PROVE VettedInv'
  BY <1>2, CrashVetted
<1>9. ASSUME NEW w \in Worker,
             \/ Backfill(w) \/ SumSelected(w)
             \/ \E subjects \in SUBSET Subject \ {{}} : RankSelected(w, subjects)
      PROVE  VettedInv'
  BY <1>9, BackfillVetted
<1>10. ASSUME NEW w \in Worker,
              \/ Publish(w)
              \/ \E students \in Selection : PublishSelected(w, students)
       PROVE  VettedInv'
  BY <1>10, PublicationVetted
<1>3. ASSUME NEW w \in Worker, NEW r \in Row, NEW m \in Mark \cup {NoMark},
             EnterMark(w, r, m)
      PROVE  VettedInv'
  BY <1>3, EnterMarkVetted
<1>11. ASSUME NEW w \in Worker, NEW r \in Row, NEW m \in Mark \cup {NoMark},
              NEW s \in Status, SubmitScore(w, r, m, s)
       PROVE  VettedInv'
  BY <1>11, SubmitScoreVetted
<1>4. ASSUME NEW w \in Worker, NEW verdict \in {"APPROVED", "REJECTED"},
             NEW r \in Row, JudgeOne(w, r, verdict)
      PROVE  VettedInv'
  BY <1>4, JudgeVetted DEF JudgeOne
<1>5. ASSUME NEW w \in Worker, NEW verdict \in {"APPROVED", "REJECTED"},
             NEW rows \in Batches, JudgePending(w, rows, verdict)
      PROVE  VettedInv'
  <2>1. rows \subseteq Row
    BY DEF Batches, Row
  <2> QED
    BY <1>5, <2>1, JudgeVetted DEF JudgePending
<1>6. ASSUME NEW w \in Worker, NEW s \in Student, OpenForm(w, s)
      PROVE  VettedInv'
  BY <1>6, OpenFormVetted
<1>7. CASE Unpublish
  BY <1>7, PublicationVetted
<1>8. CASE UNCHANGED vars
  BY <1>8 DEF vars, VettedInv, Shape, SeenSound, OvertakenIsTainted,
              ApprovedIsVetted
<1> QED
  BY <1>1, <1>2, <1>3, <1>4, <1>5, <1>6, <1>7, <1>8, <1>9, <1>10, <1>11
     DEF Next

\* Whoever edits and judges what in whatever order: a score that counts as
\* approved has the mark its last approval saw, or the form of the admin site
\* wrote beside it, unless an approval overtook an edit of it or an edit of it
\* died between its two saves.
THEOREM ApprovedVetted == Spec => []ApprovedIsVetted
<1>1. Init => VettedInv
  BY InitVetted
<1>2. VettedInv /\ [Next]_vars => VettedInv'
  BY NextVetted
<1>3. VettedInv => ApprovedIsVetted
  BY DEF VettedInv
<1> QED
  BY <1>1, <1>2, <1>3, PTL DEF Spec

\* Whoever publishes, selects, withdraws and publishes again in whatever order,
\* and wherever an earlier publication died: one that goes on strikes a reader off
\* its list only when there is a notice for that reader.
THEOREM ReadersAreTold == Spec => ReadersTold
<1>1. Init => TellingInv
  <2>1. Init => TellInv /\ crashes \in Nat
    BY NoJobShape DEF Init, TellInv, Telling
  <2> QED
    BY <2>1, InitVetted DEF TellingInv
<1>2. TellingInv /\ [Next]_vars => TellingInv'
  BY NextVetted, NextTells DEF VettedInv, TellingInv
<1>3. TellingInv /\ [Next]_vars
        => [\A w \in Worker :
             job[w].phase \in {"announce", "tell"} /\ crashes' = crashes
               => \A r \in job[w].toTell \ job'[w].toTell : told'[r] > 0]_vars
  BY NextTells DEF VettedInv, TellingInv, NobodySkipped, Telling
<1> QED
  BY <1>1, <1>2, <1>3, PTL DEF Spec, ReadersTold

-----------------------------------------------------------------------------
(* The ranking: whatever is ranked, each has the place of the reference *)

\* Marks or totals of the ranked students, who are finitely many.
Ranked(S, score) ==
  /\ IsFiniteSet(S) /\ S \subseteq Nat
  /\ \A x \in S : score[x] \in Nat

\* Natural numbers have a least one.
LEMMA LeastNatural ==
  ASSUME NEW S \in SUBSET Nat, S # {}
  PROVE  \E n \in S : \A m \in S : n <= m
<1> DEFINE R == OpToRel(<, Nat)
<1>1. IsWellFoundedOn(R, Nat)
  BY NatLessThanWellFounded
<1>2. S \subseteq Nat /\ S # {}
  OBVIOUS
<1> HIDE DEF R
<1>3. PICK n \in S : \A m \in S : ~ (<<m, n>> \in R)
  BY ONLY <1>1, <1>2, WFMin
<1>4. ASSUME NEW m \in S
      PROVE  n <= m
  <2>1. m \in Nat /\ n \in Nat
    BY <1>2
  <2>2. m < n => <<m, n>> \in R
    BY <2>1 DEF R, OpToRel
  <2> QED
    BY <1>3, <2>1, <2>2
<1> QED
  BY <1>4

\* The key decides between any two, one way.
LEMMA BeforeTotal ==
  ASSUME NEW S, NEW score, Ranked(S, score)
  PROVE  /\ \A x \in S : ~ Before(score, x, x)
         /\ \A x, y \in S : x # y => Before(score, x, y) \/ Before(score, y, x)
         /\ \A x, y, z \in S :
              Before(score, x, y) /\ Before(score, y, z) => Before(score, x, z)
<1>1. \A x \in S : x \in Nat /\ score[x] \in Nat
  BY DEF Ranked
<1> QED
  BY <1>1 DEF Before

\* The number of those who come before, and the student's own place.
Rank(S, score, x) == 1 + Cardinality({y \in S : Before(score, y, x)})

LEMMA RankGrows ==
  ASSUME NEW S, NEW score, Ranked(S, score), NEW x \in S
  PROVE  /\ Rank(S, score, x) \in 1 .. Cardinality(S)
         /\ \A y \in S : Before(score, y, x)
              => Rank(S, score, y) < Rank(S, score, x)
<1> DEFINE B(z) == {y \in S : Before(score, y, z)}
<1>1. IsFiniteSet(S) /\ Cardinality(S) \in Nat
  BY FS_CardinalityType DEF Ranked
<1>2. ASSUME NEW z \in S
      PROVE  /\ IsFiniteSet(B(z)) /\ Cardinality(B(z)) \in Nat
             /\ Cardinality(B(z)) < Cardinality(S)
  <2>1. B(z) \subseteq S /\ B(z) # S
    BY BeforeTotal
  <2> HIDE DEF B
  <2> QED
    BY <1>1, <2>1, FS_Subset, FS_CardinalityType
<1>3. ASSUME NEW y \in S, Before(score, y, x)
      PROVE  Cardinality(B(y)) < Cardinality(B(x))
  <2>1. B(y) \subseteq B(x)
    BY <1>3, BeforeTotal
  <2>2. y \in B(x) /\ y \notin B(y)
    BY <1>3, BeforeTotal
  <2>3. IsFiniteSet(B(x))
    BY <1>2
  <2> HIDE DEF B
  <2> QED
    BY <2>1, <2>2, <2>3, FS_Subset, FS_CardinalityType
<1>4. \A z \in S : Rank(S, score, z) = 1 + Cardinality(B(z))
  BY DEF Rank
<1> HIDE DEF B
<1>5. Cardinality(B(x)) \in Nat /\ Cardinality(B(x)) < Cardinality(S)
  BY <1>2
<1>6. \A y \in S : Cardinality(B(y)) \in Nat
  BY <1>2
<1> QED
  BY <1>1, <1>3, <1>4, <1>5, <1>6

\* There is a sorted list, and the students in it are those who are ranked.
LEMMA SortedIs ==
  ASSUME NEW S, NEW score, Ranked(S, score)
  PROVE  /\ Sorted(S, score) \in [1 .. Cardinality(S) -> S]
         /\ \A i, k \in 1 .. Cardinality(S) :
              i < k => Before(score, Sorted(S, score)[i], Sorted(S, score)[k])
         /\ \A x \in S : \E i \in 1 .. Cardinality(S) : Sorted(S, score)[i] = x
<1> DEFINE n == Cardinality(S)
           rank == [x \in S |-> Rank(S, score, x)]
<1>1. n \in Nat /\ IsFiniteSet(S) /\ IsFiniteSet(1 .. n) /\ Cardinality(1 .. n) = n
  BY FS_CardinalityType, FS_Interval DEF Ranked
<1>2. rank \in [S -> 1 .. n]
  BY RankGrows
<1>3. \A x, y \in S : x # y => rank[x] # rank[y]
  <2> SUFFICES ASSUME NEW x \in S, NEW y \in S, Before(score, x, y)
               PROVE  rank[x] # rank[y]
    BY BeforeTotal
  <2>1. Rank(S, score, x) < Rank(S, score, y)
    BY RankGrows
  <2>2. Rank(S, score, x) \in Nat /\ Rank(S, score, y) \in Nat
    BY RankGrows
  <2> QED BY <2>1, <2>2
<1>4. \A i \in 1 .. n : \E x \in S : rank[x] = i
  <2>1. rank \in Injection(S, 1 .. n)
    BY <1>2, <1>3 DEF Injection, IsInjective
  <2> HIDE DEF rank, n
  <2>2. rank \in Surjection(S, 1 .. n)
    BY ONLY <1>1, <2>1, FS_Injection, n = Cardinality(S) DEF n
  <2> QED BY <2>2 DEF Surjection
<1> DEFINE order == [i \in 1 .. n |-> CHOOSE x \in S : rank[x] = i]
<1>5. /\ order \in [1 .. n -> S]
      /\ \A i \in 1 .. n : rank[order[i]] = i
  BY <1>4
<1>6. \A i, k \in 1 .. n : i < k => Before(score, order[i], order[k])
  <2> SUFFICES ASSUME NEW i \in 1 .. n, NEW k \in 1 .. n, i < k,
                      ~ Before(score, order[i], order[k])
               PROVE  FALSE
    OBVIOUS
  <2>1. order[i] \in S /\ order[k] \in S /\ rank[order[i]] = i /\ rank[order[k]] = k
    BY <1>5
  <2> HIDE DEF order
  <2>2. Before(score, order[k], order[i])
    BY <2>1, BeforeTotal
  <2>3. rank[order[k]] < rank[order[i]]
    BY <2>1, <2>2, RankGrows
  <2> QED BY <1>1, <2>1, <2>3
<1>7. /\ Sorted(S, score) \in [1 .. n -> S]
      /\ \A i, k \in 1 .. n :
           i < k => Before(score, Sorted(S, score)[i], Sorted(S, score)[k])
  <2> DEFINE IsSorted(o) ==
        \A i, k \in DOMAIN o : i < k => Before(score, o[i], o[k])
  <2>1. order \in [1 .. n -> S] /\ IsSorted(order)
    BY <1>5, <1>6
  <2>2. Sorted(S, score) = CHOOSE o \in [1 .. n -> S] : IsSorted(o)
    BY DEF Sorted
  <2> HIDE DEF order, n
  <2>3. Sorted(S, score) \in [1 .. n -> S] /\ IsSorted(Sorted(S, score))
    <3> HIDE DEF IsSorted
    <3> QED BY <2>1, <2>2
  <2> QED BY <2>3
<1> DEFINE sorted == Sorted(S, score)
<1>8. \A x \in S : \E i \in 1 .. n : sorted[i] = x
  <2>1. sorted \in [1 .. n -> S]
    BY <1>7
  <2>2. ASSUME NEW i \in 1 .. n, NEW k \in 1 .. n, i < k
        PROVE  sorted[i] # sorted[k]
    <3>1. Before(score, sorted[i], sorted[k]) /\ sorted[i] \in S
      BY <1>7, <2>2
    <3> HIDE DEF sorted
    <3> QED BY <3>1, BeforeTotal
  <2> HIDE DEF sorted
  <2>3. \A i, k \in 1 .. n : sorted[i] = sorted[k] => i = k
    BY <1>1, <2>2
  <2>4. sorted \in Injection(1 .. n, S)
    BY <2>1, <2>3 DEF Injection, IsInjective
  <2> HIDE DEF n
  <2>5. sorted \in Surjection(1 .. n, S)
    BY ONLY <1>1, <2>4, FS_Injection, n = Cardinality(S) DEF n
  <2> QED BY <2>5 DEF Surjection
<1> QED BY <1>7, <1>8

\* Those with a better score are those before the first of the equals.
LEMMA PlaceOfFirst ==
  ASSUME NEW S, NEW score, Ranked(S, score), NEW i \in 1 .. Cardinality(S),
         i = 1 \/ score[Sorted(S, score)[i]] # score[Sorted(S, score)[i - 1]]
  PROVE  Place(S, score, Sorted(S, score)[i]) = i
<1> DEFINE n == Cardinality(S)
           o == Sorted(S, score)
           better == {x \in S : score[x] > score[o[i]]}
<1>1. n \in Nat /\ i \in 1 .. n
  BY FS_CardinalityType DEF Ranked
<1>2. /\ o \in [1 .. n -> S]
      /\ \A j, k \in 1 .. n : j < k => Before(score, o[j], o[k])
      /\ \A x \in S : \E j \in 1 .. n : o[j] = x
  BY SortedIs
<1>3. \A j \in 1 .. n : o[j] \in S /\ score[o[j]] \in Nat /\ o[j] \in Nat
  BY <1>2 DEF Ranked
<1> HIDE DEF o, n
<1>4. \A j, k \in 1 .. n : j < k => score[o[j]] >= score[o[k]]
  BY <1>2, <1>3 DEF Before
<1>5. \A j \in 1 .. n : j < i => score[o[j]] > score[o[i]]
  <2> SUFFICES ASSUME NEW j \in 1 .. n, j < i PROVE score[o[j]] > score[o[i]]
    OBVIOUS
  <2>1. i - 1 \in 1 .. n /\ (j = i - 1 \/ j < i - 1) /\ i - 1 < i
    BY <1>1
  <2> DEFINE k == i - 1
  <2>2. k \in 1 .. n /\ k < i /\ (j = k \/ j < k)
    BY <2>1
  <2>3. score[o[i]] # score[o[k]]
    BY <1>1 DEF o
  <2> HIDE DEF k
  <2>4. score[o[j]] \in Nat /\ score[o[k]] \in Nat /\ score[o[i]] \in Nat
    BY <1>1, <1>3, <2>2
  <2>5. score[o[k]] >= score[o[i]]
    BY <1>1, <1>4, <2>2
  <2>6. j = k \/ score[o[j]] >= score[o[k]]
    BY <1>4, <2>2
  <2> QED BY <2>3, <2>4, <2>5, <2>6
<1>6. \A j \in 1 .. n : score[o[j]] > score[o[i]] => j < i
  BY <1>1, <1>3, <1>4
<1> DEFINE f == [j \in 1 .. (i - 1) |-> o[j]]
<1>7. f \in Bijection(1 .. (i - 1), better)
  <2>1. f \in [1 .. (i - 1) -> better]
    BY <1>1, <1>3, <1>5
  <2>2. \A j, k \in 1 .. (i - 1) : f[j] = f[k] => j = k
    <3>1. \A j, k \in 1 .. n : j < k => o[j] # o[k]
      BY <1>2, <1>3 DEF Before
    <3> QED BY <1>1, <3>1
  <2>3. \A x \in better : \E j \in 1 .. (i - 1) : f[j] = x
    <3> TAKE x \in better
    <3>1. PICK j \in 1 .. n : o[j] = x
      BY <1>2
    <3> QED BY <1>1, <1>6, <3>1
  <2> QED
    BY <2>1, <2>2, <2>3 DEF Bijection, Injection, Surjection, IsInjective
<1>8. IsFiniteSet(1 .. (i - 1)) /\ Cardinality(1 .. (i - 1)) = i - 1
  BY <1>1, FS_Interval
<1> HIDE DEF better, f
<1>9. Cardinality(better) = i - 1
  BY ONLY <1>7, <1>8, FS_Bijection DEF ExistsBijection
<1> QED
  BY <1>1, <1>9 DEF Place, better, o

\* Equal scores share a place.
LEMMA PlaceOfEqual ==
  ASSUME NEW S, NEW score, NEW x, NEW y, score[x] = score[y]
  PROVE  Place(S, score, x) = Place(S, score, y)
BY DEF Place

\* What is ranked, one by one: each student once, with the place that the
\* number of better scores gives.
THEOREM RanksArePlaces ==
  ASSUME NEW S, NEW score, Ranked(S, score)
  PROVE  AssignRanks(S, score)
           = [i \in 1 .. Cardinality(S) |->
                <<Sorted(S, score)[i], Place(S, score, Sorted(S, score)[i])>>]
<1> DEFINE n == Cardinality(S)
           o == Sorted(S, score)
           step(g) == [i \in DOMAIN o |->
             IF i > 1 /\ score[o[i]] = score[o[i - 1]] THEN g[i - 1] ELSE i]
           rank == CHOOSE g : g = step(g)
           place == [i \in DOMAIN o |-> Place(S, score, o[i])]
<1>1. o \in [1 .. n -> S] /\ n \in Nat
  BY SortedIs, FS_CardinalityType DEF Ranked
<1>2. place = step(place)
  <2>1. ASSUME NEW i \in 1 .. n PROVE place[i] = step(place)[i]
    <3>1. CASE i > 1 /\ score[o[i]] = score[o[i - 1]]
      <4>1. i - 1 \in 1 .. n
        BY <1>1, <3>1
      <4>2. Place(S, score, o[i]) = Place(S, score, o[i - 1])
        BY <3>1, PlaceOfEqual
      <4> HIDE DEF o, n
      <4> QED BY <1>1, <3>1, <4>1, <4>2
    <3>2. CASE ~ (i > 1 /\ score[o[i]] = score[o[i - 1]])
      <4>1. Place(S, score, o[i]) = i
        BY <1>1, <3>2, PlaceOfFirst
      <4> HIDE DEF o, n
      <4> QED BY <1>1, <3>2, <4>1
    <3> QED BY <3>1, <3>2
  <2> HIDE DEF o, n
  <2> QED BY <1>1, <2>1
<1>3. rank = step(rank)
  BY <1>2
<1>4. AssignRanks(S, score) = [i \in DOMAIN o |-> <<o[i], rank[i]>>]
  BY DEF AssignRanks
<1> HIDE DEF rank, o, n
<1>5. \A i \in 1 .. n : rank[i] = place[i]
  <2> DEFINE wrong == {i \in 1 .. n : rank[i] # place[i]}
  <2> SUFFICES ASSUME wrong # {} PROVE FALSE
    OBVIOUS
  <2>1. wrong \in SUBSET Nat
    BY <1>1
  <2>2. PICK i \in wrong : \A k \in wrong : i <= k
    BY <2>1, LeastNatural
  <2>3. i \in 1 .. n /\ rank[i] # place[i]
    OBVIOUS
  <2>4. ~ (i > 1 /\ score[o[i]] = score[o[i - 1]]) => rank[i] = i /\ place[i] = i
    BY <1>1, <1>2, <1>3, <2>3
  <2>5. i > 1 /\ score[o[i]] = score[o[i - 1]]
          => rank[i] = rank[i - 1] /\ place[i] = place[i - 1]
    BY <1>1, <1>2, <1>3, <2>3
  <2>6. i > 1 => i - 1 \in 1 .. n /\ i - 1 \notin wrong
    BY <1>1, <2>2, <2>3
  <2> HIDE DEF place
  <2>7. i > 1 => rank[i - 1] = place[i - 1]
    BY <2>6
  <2> QED BY <2>3, <2>4, <2>5, <2>7
<1>6. AssignRanks(S, score) = [i \in 1 .. n |-> <<o[i], place[i]>>]
  BY <1>1, <1>4, <1>5
<1>7. \A i \in 1 .. n : place[i] = Place(S, score, o[i])
  BY <1>1
<1> HIDE DEF place
<1> QED BY <1>6, <1>7 DEF o, n

-----------------------------------------------------------------------------
(* Totals *)

\* One cell for each unit of each summand.
Cells(f, S) == {c \in S \X Nat : c[2] < f[c[1]]}

\* A set of subsets that holds the empty one, and with all but one element of a
\* subset the subset itself, holds every finite set.
LEMMA FiniteClosure ==
  ASSUME NEW S, IsFiniteSet(S), NEW Good, {} \in Good,
         \A U \in SUBSET S : U # {} =>
           \E x \in U : U \ {x} \in Good => U \in Good
  PROVE  S \in Good
<1> SUFFICES ASSUME S \notin Good PROVE FALSE
  OBVIOUS
<1> DEFINE Bad == {U \in SUBSET S : U \notin Good}
           Size == {Cardinality(U) : U \in Bad}
<1>1. \A U \in SUBSET S : IsFiniteSet(U) /\ Cardinality(U) \in Nat
  BY FS_Subset, FS_CardinalityType
<1>2. Size \subseteq Nat /\ Size # {}
  BY <1>1
<1>4. PICK n \in Size : \A m \in Size : n <= m
  BY <1>2, LeastNatural
<1>5. PICK U \in Bad : Cardinality(U) = n
  BY <1>4
<1>6. PICK x \in U : U \ {x} \in Good => U \in Good
  <2>1. U \in SUBSET S /\ U # {}
    OBVIOUS
  <2> QED BY <2>1
<1>7. Cardinality(U \ {x}) = n - 1 /\ n \in Nat /\ n - 1 \in Nat
  <2>1. IsFiniteSet(U) /\ Cardinality(U) = n /\ n \in Nat
    BY <1>1, <1>5
  <2>2. Cardinality(U \ {x}) = Cardinality(U) - 1
    BY <2>1, FS_RemoveElement
  <2>3. Cardinality(U \ {x}) \in Nat
    BY <1>1, U \ {x} \in SUBSET S
  <2> QED BY <2>1, <2>2, <2>3
<1>8. U \ {x} \in Bad
  BY <1>6
<1>9. n - 1 \in Size
  BY <1>7, <1>8
<1> QED
  BY <1>4, <1>7, <1>9

\* The cells of one element.
LEMMA Column ==
  ASSUME NEW x, NEW n \in Nat
  PROVE  /\ IsFiniteSet({x} \X (0 .. n - 1))
         /\ Cardinality({x} \X (0 .. n - 1)) = n
<1> DEFINE I == 0 .. n - 1
<1>1. IsFiniteSet({x}) /\ Cardinality({x}) = 1
  BY FS_Singleton
<1>2. IsFiniteSet(I) /\ Cardinality(I) = n
  <2>1. IsFiniteSet(I) /\ Cardinality(I) = IF 0 > n - 1 THEN 0 ELSE (n - 1) - 0 + 1
    BY FS_Interval, n - 1 \in Int
  <2> HIDE DEF I
  <2> QED BY <2>1
<1> HIDE DEF I
<1>3. IsFiniteSet({x} \X I) /\ Cardinality({x} \X I) = 1 * n
  BY <1>1, <1>2, FS_Product
<1> QED BY <1>3 DEF I

\* A finite sum of naturals has finitely many cells.
LEMMA CellsFinite ==
  ASSUME NEW S, IsFiniteSet(S), NEW f, \A x \in S : f[x] \in Nat
  PROVE  IsFiniteSet(Cells(f, S)) /\ Cardinality(Cells(f, S)) \in Nat
<1> DEFINE Good == {U \in SUBSET S : IsFiniteSet(Cells(f, U))}
<1>1. {} \in Good
  <2>1. Cells(f, {}) = {}
    BY DEF Cells
  <2> QED
    BY <2>1, FS_EmptySet
<1>2. ASSUME NEW U \in SUBSET S, NEW x \in U, U \ {x} \in Good
      PROVE  U \in Good
  <2>1. Cells(f, U) = Cells(f, U \ {x}) \cup ({x} \X (0 .. f[x] - 1))
    BY f[x] \in Nat DEF Cells
  <2>2. IsFiniteSet({x} \X (0 .. f[x] - 1))
    BY Column, f[x] \in Nat
  <2>3. IsFiniteSet(Cells(f, U \ {x}))
    BY <1>2
  <2>4. \A A, B : IsFiniteSet(A) /\ IsFiniteSet(B) => IsFiniteSet(A \cup B)
    BY FS_Union
  <2>5. IsFiniteSet(Cells(f, U))
    BY <2>1, <2>2, <2>3, <2>4
  <2> QED
    BY <2>5
<1>4. \A U \in SUBSET S : U # {} =>
        \E x \in U : U \ {x} \in Good => U \in Good
  BY <1>2
<1> HIDE DEF Good
<1>3. S \in Good
  BY <1>1, <1>4, FiniteClosure
<1> QED
  BY <1>3, FS_CardinalityType DEF Good

\* One summand is its column of cells.
LEMMA CellsStep ==
  ASSUME NEW S, IsFiniteSet(S), NEW f, \A y \in S : f[y] \in Nat, NEW x \in S
  PROVE  Cardinality(Cells(f, S)) = f[x] + Cardinality(Cells(f, S \ {x}))
<1> DEFINE X == {x} \X (0 .. f[x] - 1)
           Y == Cells(f, S \ {x})
<1>1. Cells(f, S) = X \cup Y
  BY f[x] \in Nat DEF Cells
<1>2. IsFiniteSet(S \ {x})
  BY FS_Subset, S \ {x} \subseteq S
<1>3. IsFiniteSet(Y) /\ Cardinality(Y) \in Nat
  BY <1>2, CellsFinite
<1>4. IsFiniteSet(X) /\ Cardinality(X) = f[x]
  BY Column, f[x] \in Nat
<1>5. X \cap Y = {}
  BY DEF Cells
<1> HIDE DEF X, Y
<1>6. Cardinality(X \cup Y) = Cardinality(X) + Cardinality(Y) - Cardinality(X \cap Y)
  BY <1>3, <1>4, FS_Union
<1>7. Cardinality(X \cap Y) = 0
  BY <1>5, FS_EmptySet
<1>8. Cardinality(X \cup Y) = f[x] + Cardinality(Y)
  BY <1>3, <1>4, <1>6, <1>7, f[x] \in Nat
<1> QED
  BY <1>1, <1>8 DEF Y

\* What a student has in some subjects.
TotalIn(s, S) == MapThenSumSet(LAMBDA b : mark[<<s, b>>], S)

\* Marks add up to a natural number.
LEMMA SumOfMarks ==
  ASSUME NEW S, IsFiniteSet(S), NEW s, \A b \in S : mark[<<s, b>>] \in Nat
  PROVE  TotalIn(s, S) \in Nat
<1> DEFINE f == [b \in S |-> mark[<<s, b>>]]
           iterOf(v) == [U \in SUBSET S |->
              IF U = {} THEN 0
              ELSE mark[<<s, CHOOSE x \in U : TRUE>>] + v[U \ {CHOOSE x \in U : TRUE}]]
           h == [U \in SUBSET S |-> Cardinality(Cells(f, U))]
           iter == CHOOSE v : v = iterOf(v)
<1>0. \A U \in SUBSET S : IsFiniteSet(U) /\ \A y \in U : f[y] = mark[<<s, y>>] /\ f[y] \in Nat
  BY FS_Subset
<1>1. h = iterOf(h)
  <2>1. ASSUME NEW U \in SUBSET S PROVE h[U] = iterOf(h)[U]
    <3>1. CASE U = {}
      <4>1. Cells(f, {}) = {}
        BY DEF Cells
      <4> QED BY <3>1, <4>1, FS_EmptySet
    <3>2. CASE U # {}
      <4> DEFINE x == CHOOSE x \in U : TRUE
      <4>1. x \in U
        BY <3>2
      <4> HIDE DEF x, f
      <4>3. Cardinality(Cells(f, U)) = f[x] + Cardinality(Cells(f, U \ {x}))
        BY <1>0, <4>1, CellsStep
      <4>4. f[x] = mark[<<s, x>>]
        BY <1>0, <4>1
      <4> QED BY <3>2, <4>3, <4>4, U \ {x} \in SUBSET S DEF x
    <3> QED BY <3>1, <3>2
  <2> QED BY <2>1
<1>2. iter = iterOf(iter)
  BY <1>1
<1>3. iter[S] = TotalIn(s, S)
  BY DEF TotalIn, MapThenSumSet, MapThenFoldSet
<1> HIDE DEF iter, f, h
<1> DEFINE Good == {U \in SUBSET S : iter[U] \in Nat}
<1>4. {} \in Good
  BY <1>2
<1>5. ASSUME NEW U \in SUBSET S, U # {}
      PROVE  \E x \in U : U \ {x} \in Good => U \in Good
  <2> DEFINE x == CHOOSE x \in U : TRUE
  <2>1. x \in U /\ U \ {x} \in SUBSET S
    BY <1>5
  <2>2. iter[U] = mark[<<s, x>>] + iter[U \ {x}]
    BY <1>2, <1>5
  <2> HIDE DEF x
  <2>3. mark[<<s, x>>] \in Nat
    BY <2>1
  <2>4. U \ {x} \in Good => U \in Good
    BY <2>1, <2>2, <2>3
  <2> QED BY <2>1, <2>4
<1> HIDE DEF Good
<1>6. S \in Good
  BY <1>4, <1>5, FiniteClosure
<1> QED
  BY <1>3, <1>6 DEF Good

\* The rank of a student in such a list; zero for one that is not in it.
LEMMA RankInIs ==
  ASSUME NEW S, NEW score, Ranked(S, score), NEW s
  PROVE  RankIn(AssignRanks(S, score), s)
           = IF s \in S THEN Place(S, score, s) ELSE 0
<1> DEFINE n == Cardinality(S)
           o == Sorted(S, score)
           ranked == AssignRanks(S, score)
           mine == {i \in DOMAIN ranked : ranked[i][1] = s}
<1>1. ranked = [i \in 1 .. n |-> <<o[i], Place(S, score, o[i])>>]
  BY RanksArePlaces
<1>2. o \in [1 .. n -> S] /\ \A x \in S : \E i \in 1 .. n : o[i] = x
  BY SortedIs
<1>3. RankIn(ranked, s) = IF mine = {} THEN 0 ELSE ranked[CHOOSE i \in mine : TRUE][2]
  BY DEF RankIn
<1> HIDE DEF ranked, o, n
<1>4. \A i \in mine : i \in 1 .. n /\ o[i] = s /\ ranked[i][2] = Place(S, score, s)
  BY <1>1
<1>5. mine # {} <=> s \in S
  BY <1>1, <1>2
<1> HIDE DEF mine
<1>6. mine # {} => ranked[CHOOSE i \in mine : TRUE][2] = Place(S, score, s)
  BY <1>4
<1> QED
  BY <1>3, <1>5, <1>6 DEF ranked

-----------------------------------------------------------------------------
(* What is read *)

MarksSound == \A r \in Row : mark[r] \in Mark \cup {NoMark}

LEMMA MarksRanked ==
  ASSUME MarksSound, NEW b \in Subject
  PROVE  Ranked({s \in Student : Counts(<<s, b>>)}, [s \in Student |-> mark[<<s, b>>]])
<1>1. \A s \in Student : <<s, b>> \in Row
  BY DEF Row
<1>2. \A s \in Student : Counts(<<s, b>>) => mark[<<s, b>>] \in Nat
  BY <1>1, ResultsAssumption DEF MarksSound, Counts
<1>3. IsFiniteSet({s \in Student : Counts(<<s, b>>)})
  BY ResultsAssumption, FS_Subset
<1> QED
  BY <1>2, <1>3, ResultsAssumption DEF Ranked

\* A list of students, each with the right place; the others have it already.
RightPlaces(ranked, b) ==
  \A i \in DOMAIN ranked :
    ranked[i][1] \in Student /\ ranked[i][2] = PlaceInSubject(ranked[i][1], b)

LEMMA RankedInIs ==
  ASSUME MarksSound, NEW b \in Subject
  PROVE  /\ RankedIn(b) \in Seq(Student \X Nat)
         /\ RightPlaces(RankedIn(b), b)
         /\ \A s \in Student :
              (\A i \in DOMAIN RankedIn(b) : RankedIn(b)[i][1] # s)
                => PlaceInSubject(s, b) = 0
<1> DEFINE S == {s \in Student : Counts(<<s, b>>)}
           score == [s \in Student |-> mark[<<s, b>>]]
           n == Cardinality(S)
           o == Sorted(S, score)
           ranked == RankedIn(b)
<1>1. Ranked(S, score)
  BY MarksRanked
<1>2. \A s \in Student : PlaceInSubject(s, b)
                           = IF s \in S THEN Place(S, score, s) ELSE 0
  BY DEF PlaceInSubject
<1>3. ranked = AssignRanks(S, score)
  BY DEF RankedIn
<1>4. S \subseteq Student
  OBVIOUS
<1> HIDE DEF S, score, ranked
<1>5. ranked = [i \in 1 .. n |-> <<o[i], Place(S, score, o[i])>>]
  BY <1>1, <1>3, RanksArePlaces
<1>6. /\ o \in [1 .. n -> S]
      /\ \A x \in S : \E i \in 1 .. n : o[i] = x
  BY <1>1, SortedIs
<1>7. ranked \in Seq(Student \X Nat)
  <2>1. IsFiniteSet(S)
    BY <1>1 DEF Ranked
  <2>2. n \in Nat
    BY <2>1, FS_CardinalityType
  <2>3. \A x : Place(S, score, x) \in Nat
    <3> TAKE x
    <3>1. IsFiniteSet({y \in S : score[y] > score[x]})
      BY <2>1, FS_Subset
    <3> QED BY <3>1, FS_CardinalityType DEF Place
  <2> HIDE DEF n, o
  <2>4. ranked \in [1 .. n -> Student \X Nat]
    BY <1>4, <1>5, <1>6, <2>3
  <2> QED BY <2>2, <2>4, SeqDef
<1> HIDE DEF n, o
<1>8. RightPlaces(ranked, b)
  BY <1>2, <1>4, <1>5, <1>6 DEF RightPlaces
<1>9. ASSUME NEW s \in Student, \A i \in DOMAIN ranked : ranked[i][1] # s
      PROVE  PlaceInSubject(s, b) = 0
  <2>1. s \notin S
    BY <1>5, <1>6, <1>9
  <2> QED BY <1>2, <2>1
<1> QED
  BY <1>7, <1>8, <1>9 DEF ranked

LEMMA SumOfIs ==
  ASSUME MarksSound, NEW s \in Student
  PROVE  /\ SumOf(s).there \in BOOLEAN
         /\ SumOf(s).there => SumOf(s).total \in Nat
         /\ ~ SumOf(s).there => SumOf(s) = NoResult
         /\ SumOf(s) = [there |-> SumOf(s).there, total |-> SumOf(s).total,
                        subjects |-> SumOf(s).subjects,
                        position |-> SumOf(s).position]
<1> DEFINE mine == {b \in Subject : Counts(<<s, b>>)}
           total == TotalIn(s, mine)
           size == Cardinality(mine)
<1>1. IsFiniteSet(mine) /\ \A b \in mine : mark[<<s, b>>] \in Nat
  <2>1. \A b \in Subject : <<s, b>> \in Row
    BY DEF Row
  <2> QED BY <2>1, ResultsAssumption, FS_Subset DEF MarksSound, Counts
<1>2. total \in Nat
  <2> HIDE DEF mine
  <2> QED BY <1>1, SumOfMarks
<1>3. SumOf(s) = IF mine = {} THEN NoResult
                 ELSE [NoResult EXCEPT !.there = TRUE, !.subjects = size,
                                       !.total = total]
  BY DEF SumOf, TotalIn
<1> HIDE DEF total, mine, size
<1>4. CASE mine = {}
  <2>1. SumOf(s) = NoResult
    BY <1>3, <1>4
  <2> QED BY <2>1 DEF NoResult
<1>5. CASE mine # {}
  <2>1. SumOf(s) = [there |-> TRUE, total |-> total, subjects |-> size, position |-> 0]
    BY <1>3, <1>5 DEF NoResult
  <2> QED BY <1>2, <2>1
<1> QED
  BY <1>4, <1>5

LEMMA ResultOfIs ==
  ASSUME MarksSound, NEW s \in Student
  PROVE  /\ ResultOf(s).there <=> SumOf(s).there
         /\ ~ SumOf(s).there => ResultOf(s) = NoResult
<1> DEFINE sum == [x \in Student |-> SumOf(x)]
           S == {x \in Student : sum[x].there}
           place == Place(S, [x \in Student |-> sum[x].total], s)
<1>1. ResultOf(s) = IF s \in S THEN [SumOf(s) EXCEPT !.position = place]
                               ELSE NoResult
  BY DEF ResultOf
<1>2. s \in S <=> SumOf(s).there
  OBVIOUS
<1> HIDE DEF place, S
<1>3. [SumOf(s) EXCEPT !.position = place].there = SumOf(s).there
  BY SumOfIs
<1>4. ~ NoResult.there
  BY DEF NoResult
<1> QED
  BY <1>1, <1>2, <1>3, <1>4

Sums == [s \in Student |-> SumOf(s)]

\* The totals, ranked, are the results.
LEMMA PlacesAreResults ==
  ASSUME MarksSound
  PROVE  WithPlaces(Sums) = [s \in Student |-> ResultOf(s)]
<1> DEFINE S == {s \in Student : Sums[s].there}
           score == [s \in Student |-> Sums[s].total]
           ranked == AssignRanks(S, score)
<1>1. \A s \in Student : Sums[s] = SumOf(s)
  BY DEF Sums
<1>2. IsFiniteSet(S) /\ S \subseteq Student /\ Student \subseteq Nat
  BY ResultsAssumption, FS_Subset
<1>3. \A s \in S : score[s] \in Nat
  BY <1>1, SumOfIs
<1>4. \A s \in Student \ S : Sums[s] = NoResult
  BY <1>1, SumOfIs
<1>5. WithPlaces(Sums) = [s \in Student |-> [Sums[s] EXCEPT !.position = RankIn(ranked, s)]]
  BY DEF WithPlaces
<1>6. \A s \in Student :
        ResultOf(s) = IF s \in S
                      THEN [Sums[s] EXCEPT !.position = Place(S, score, s)]
                      ELSE NoResult
  BY DEF ResultOf, Sums
<1> HIDE DEF S, score
<1>7. Ranked(S, score)
  BY <1>2, <1>3 DEF Ranked
<1>8. \A s \in Student : RankIn(ranked, s) = IF s \in S THEN Place(S, score, s) ELSE 0
  BY <1>7, RankInIs
<1>9. [NoResult EXCEPT !.position = 0] = NoResult
  BY DEF NoResult
<1> HIDE DEF ranked
<1> QED
  BY <1>4, <1>5, <1>6, <1>8, <1>9

-----------------------------------------------------------------------------
(* A recomputation that meets no other request *)

\* A list to save: those who are not in it any more have their position.
Ranking(ranked, b, pos) ==
  /\ ranked \in Seq(Student \X Nat) /\ ranked # <<>>
  /\ RightPlaces(ranked, b)
  /\ \A s \in Student :
       (\A i \in DOMAIN ranked : ranked[i][1] # s)
         => pos[<<s, b>>] = PlaceInSubject(s, b)

\* How far a pass over a subject has come, and the summary after the last.
JobRight(j, pos, res) ==
  /\ j.sums = [s \in Student |-> j.sums[s]]
  /\ j.phase \notin {"read", "rank"} => j.subject = {}
  /\ j.phase = "read" => \E b \in Subject : /\ j.subject = {b}
                                            /\ \A s \in Student : pos[<<s, b>>] = 0
  /\ j.phase = "rank" => \E b \in Subject : /\ j.subject = {b}
                                            /\ Ranking(j.ranked, b, pos)
  /\ j.phase = "sum" => \A s \in Student \ j.toSum : j.sums[s] = SumOf(s)
  /\ j.phase \in {"write", "drop"} =>
       /\ j.sums = [s \in Student |-> ResultOf(s)]
       /\ \A s \in Student \ j.toWrite : j.sums[s].there => res[s] = j.sums[s]
  /\ j.phase = "drop" => j.toWrite = {}

\* A job that holds nothing it read of the scores.
Fresh(j) ==
  /\ j.sums = [s \in Student |-> j.sums[s]] /\ j.subject = {}
  /\ j.phase \notin {"read", "rank", "write", "drop"}
  /\ j.phase = "sum" => j.toSum = Student

AloneIsAlone ==
  \A w \in Worker : job[w].alone => \A x \in Worker \ {w} : job[x].phase = "idle"

AloneInv ==
  /\ AloneIsAlone
  /\ \A w \in Worker : job[w].alone => JobRight(job[w], position, result)

\* Marks come from the teachers; the tables have a row for each score and student.
TablesSound ==
  /\ MarksSound
  /\ \A w \in Worker : job[w].phase \in {"save", "score"}
                           => job[w].mark \in Mark \cup {NoMark}
  /\ position = [r \in Row |-> position[r]]
  /\ result = [s \in Student |-> result[s]]

\* What RanksRight and ResultsRight say of a step of one worker.
PassEnds(w) ==
  job[w].subject # {} /\ job'[w].subject = {}
    => \A r \in Student \X job[w].subject : position'[r] = PlaceInSubject(r[1], r[2])

SummaryEnds(w) ==
  job[w].phase = "drop" /\ job'[w].phase = "idle"
    => \A s \in Student : result'[s] = ResultOf(s)

StepRight ==
  \A w \in Worker :
    job[w].alone /\ crashes' = crashes => PassEnds(w) /\ SummaryEnds(w)

\* The same scores count for the same.
LEMMA SameScores ==
  ASSUME UNCHANGED <<mark, status>>
  PROVE  /\ \A s, b : PlaceInSubject(s, b)' = PlaceInSubject(s, b)
         /\ \A s : SumOf(s)' = SumOf(s)
         /\ \A s : ResultOf(s)' = ResultOf(s)
<1>1. \A r : Counts(r)' = Counts(r)
  BY DEF Counts
<1>2. \A s, b : PlaceInSubject(s, b)' = PlaceInSubject(s, b)
  BY <1>1 DEF PlaceInSubject, Place
<1> DEFINE mine(s) == {b \in Subject : Counts(<<s, b>>)}
           total(s) == TotalIn(s, mine(s))
<1>3. \A s : mine(s)' = mine(s)
  BY <1>1
<1>4. \A s : total(s)' = total(s)
  <2> HIDE DEF mine
  <2> QED BY <1>3 DEF TotalIn, MapThenSumSet, MapThenFoldSet
<1> DEFINE Sum == \A s : SumOf(s) = IF mine(s) = {} THEN NoResult
                        ELSE [NoResult EXCEPT !.there = TRUE,
                                              !.subjects = Cardinality(mine(s)),
                                              !.total = total(s)]
<1>5. Sum /\ Sum'
  BY DEF SumOf, TotalIn
<1> HIDE DEF mine, total
<1>6. \A s : SumOf(s)' = SumOf(s)
  BY <1>3, <1>4, <1>5
<1>7. \A s : ResultOf(s)' = ResultOf(s)
  BY <1>6 DEF ResultOf, Place
<1> QED
  BY <1>2, <1>6, <1>7

LEMMA FreshIsRight ==
  ASSUME NEW j, Fresh(j), NEW pos, NEW res
  PROVE  JobRight(j, pos, res) /\ JobRight(j, pos, res)'
BY DEF Fresh, JobRight

LEMMA RightStays ==
  ASSUME UNCHANGED <<mark, status>>, NEW w \in Worker,
         JobRight(job'[w], position', result')
  PROVE  JobRight(job[w], position, result)'
<1>1. \A ranked, b : RightPlaces(ranked, b)' = RightPlaces(ranked, b)
  BY SameScores DEF RightPlaces
<1> QED
  BY <1>1, SameScores DEF JobRight, Ranking, RightPlaces

LEMMA FreshStays ==
  ASSUME NEW w \in Worker, Fresh(job'[w])
  PROVE  JobRight(job[w], position, result)'
BY DEF Fresh, JobRight

LEMMA NoJobFresh == Fresh(NoJob) /\ NoJob.alone = FALSE
BY DEF Fresh, NoJob

\* Whoever begins has read nothing, and nobody is alone beside another.
LEMMA AloneBegin ==
  ASSUME Shape, AloneInv, NEW w \in Worker, NEW j, IsJob(j), Fresh(j), Begin(w, j)
  PROVE  AloneInv' /\ StepRight
<1>1. \A k : IsJob(k) => \A b :
        /\ Alone(k, b).phase = k.phase /\ Alone(k, b).alone = b
        /\ Alone(k, b).subject = k.subject /\ Alone(k, b).sums = k.sums
        /\ Alone(k, b).toSum = k.toSum
  BY DEF IsJob, NoJob, Alone
<1>2. /\ job[w].phase = "idle"
      /\ job'[w] = Alone(j, Quiet)
      /\ \A x \in Worker \ {w} : job'[x] = Alone(job[x], FALSE)
  BY DEF Begin, Busy, Alone
<1>3. \A x \in Worker \ {w} :
        /\ ~ job'[x].alone /\ job'[x].phase = job[x].phase
        /\ job'[x].subject = job[x].subject
  <2>1. \A k : IsJob(k) => /\ Alone(k, FALSE).phase = k.phase
                           /\ ~ Alone(k, FALSE).alone
                           /\ Alone(k, FALSE).subject = k.subject
    BY <1>1
  <2>2. \A x \in Worker : IsJob(job[x])
    BY DEF Shape
  <2> QED BY <1>2, <2>1, <2>2
<1>4. job'[w].alone = Quiet /\ Fresh(job'[w])
  BY <1>1, <1>2 DEF Fresh
<1>5. AloneInv'
  <2>1. AloneIsAlone'
    BY <1>3, <1>4 DEF AloneIsAlone, Quiet, Busy
  <2>2. JobRight(job[w], position, result)'
    BY <1>4, FreshStays
  <2> QED
    BY <1>3, <2>1, <2>2 DEF AloneInv
<1>6. StepRight
  <2>1. job[w].alone => job[w].subject = {}
    BY <1>2 DEF AloneInv, JobRight
  <2> QED
    BY <1>2, <1>3, <2>1 DEF StepRight, PassEnds, SummaryEnds
<1> QED
  BY <1>5, <1>6

\* A worker goes on: alone only if it was, and then as a pass goes.
LEMMA AloneMove ==
  ASSUME Shape, AloneInv, NEW w \in Worker, NEW j, Move(w, j),
         job[w].phase # "idle",
         j.alone => job[w].alone,
         job[w].alone => \/ Fresh(j)
                         \/ /\ UNCHANGED <<mark, status>>
                            /\ JobRight(j, position', result'),
         job[w].alone /\ crashes' = crashes => PassEnds(w) /\ SummaryEnds(w)
  PROVE  AloneInv' /\ StepRight
<1>1. job'[w] = j /\ \A x \in Worker \ {w} : job'[x] = job[x]
  BY DEF Shape, Move
<1>2. \A x \in Worker \ {w} : ~ job[x].alone
  BY DEF AloneInv, AloneIsAlone
<1>3. AloneIsAlone'
  BY <1>1, <1>2 DEF AloneInv, AloneIsAlone
<1>4. job'[w].alone => JobRight(job[w], position, result)'
  BY <1>1, FreshStays, RightStays
<1>5. StepRight
  BY <1>2 DEF StepRight
<1> QED
  BY <1>1, <1>2, <1>3, <1>4, <1>5 DEF AloneInv

\* After a pass nothing that was read of it is kept.
LEMMA AfterPassFresh ==
  ASSUME NEW j, IsJob(j), j.sums = [s \in Student |-> j.sums[s]]
  PROVE  /\ Fresh(AfterPass(j)) /\ AfterPass(j).subject = {}
         /\ AfterPass(j).alone => j.alone
         /\ AfterPass(j).phase \in {"clear", "sum", "idle"}
<1>1. CASE j.passes # {}
  BY <1>1 DEF AfterPass, IsJob, NoJob, Fresh
<1>2. CASE j.passes = {} /\ j.summary
  BY <1>2 DEF AfterPass, IsJob, NoJob, Fresh
<1>3. CASE j.passes = {} /\ ~ j.summary
  BY <1>3, NoJobFresh DEF AfterPass, NoJob
<1> QED
  BY <1>1, <1>2, <1>3

LEMMA ClearAlone ==
  ASSUME Shape, AloneInv, TablesSound, NEW w \in Worker, NEW b \in Subject,
         ClearPositions(w, b)
  PROVE  AloneInv' /\ StepRight
<1> DEFINE p == job[w].passes \ {<<Min({q[1] : q \in job[w].passes}), b>>}
           j == [job[w] EXCEPT !.phase = "read", !.subject = {b},
                               !.passes = p]
<1>1. /\ Move(w, j) /\ job[w].phase = "clear"
      /\ UNCHANGED <<mark, status>>
      /\ position' = [r \in Row |-> IF r[2] = b THEN 0 ELSE position[r]]
  BY DEF ClearPositions
<1>2. /\ j.phase = "read" /\ j.subject = {b} /\ j.alone = job[w].alone
      /\ j.sums = job[w].sums
  <2> HIDE DEF p
  <2> QED BY DEF Shape, IsJob, NoJob
<1> HIDE DEF j, p
<1>3. \A s \in Student : position'[<<s, b>>] = 0
  BY <1>1 DEF Row
<1>4. job[w].alone => JobRight(job[w], position, result)
  BY DEF AloneInv
<1>5. job[w].alone => JobRight(j, position', result')
  BY <1>1, <1>2, <1>3, <1>4 DEF JobRight
<1>6. job[w].alone => PassEnds(w) /\ SummaryEnds(w)
  BY <1>1, <1>4 DEF JobRight, PassEnds, SummaryEnds
<1> QED
  BY <1>1, <1>2, <1>5, <1>6, AloneMove

LEMMA ReadAlone ==
  ASSUME Shape, AloneInv, TablesSound, NEW w \in Worker, ReadScores(w)
  PROVE  AloneInv' /\ StepRight
<1> DEFINE ranked == RankedIn(CHOOSE b \in job[w].subject : TRUE)
           next == [job[w] EXCEPT !.phase = "rank", !.ranked = ranked]
           j == IF ranked = <<>> THEN AfterPass(job[w]) ELSE next
<1>1. /\ Move(w, j) /\ job[w].phase = "read"
      /\ UNCHANGED <<mark, status, position, result>>
  BY DEF ReadScores, record
<1>2. job[w].alone => JobRight(job[w], position, result)
  BY DEF AloneInv
<1>3. /\ next.phase = "rank" /\ next.ranked = ranked
      /\ next.subject = job[w].subject /\ next.alone = job[w].alone
      /\ next.sums = job[w].sums
  <2> HIDE DEF ranked
  <2> QED BY DEF Shape, IsJob, NoJob
<1>4. IsJob(job[w]) /\ job'[w] = j
  BY <1>1 DEF Shape, Move
<1> HIDE DEF ranked, next
<1>5. job[w].alone => job[w].sums = [s \in Student |-> job[w].sums[s]]
  BY <1>2 DEF JobRight
<1>6. CASE ~ job[w].alone
  <2>1. ~ j.alone
    <3>1. AfterPass(job[w]).alone => job[w].alone
      BY <1>4 DEF AfterPass, IsJob, NoJob
    <3> QED BY <1>3, <1>6, <3>1
  <2> HIDE DEF j
  <2> QED BY <1>1, <1>6, <2>1, AloneMove
<1>7. CASE job[w].alone
  <2>1. PICK b \in Subject : /\ job[w].subject = {b}
                             /\ \A s \in Student : position[<<s, b>>] = 0
    BY <1>1, <1>2, <1>7 DEF JobRight
  <2>2. ranked = RankedIn(b)
    BY <2>1 DEF ranked
  <2>3. /\ ranked \in Seq(Student \X Nat) /\ RightPlaces(ranked, b)
        /\ \A s \in Student :
             (\A i \in DOMAIN ranked : ranked[i][1] # s) => PlaceInSubject(s, b) = 0
    BY <2>2, RankedInIs DEF TablesSound
  <2>4. CASE ranked = <<>>
    <3>1. j = AfterPass(job[w])
      BY <2>4
    <3>2. Fresh(j)
      BY <1>4, <1>5, <1>7, <3>1, AfterPassFresh
    <3>3. \A s \in Student : PlaceInSubject(s, b) = 0
      BY <2>3, <2>4
    <3>4. PassEnds(w) /\ SummaryEnds(w)
      BY <1>1, <2>1, <3>3 DEF PassEnds, SummaryEnds
    <3> HIDE DEF j
    <3> QED BY <1>1, <1>7, <3>2, <3>4, AloneMove
  <2>5. CASE ranked # <<>>
    <3>1. j = next
      BY <2>5
    <3>2. Ranking(ranked, b, position')
      BY <1>1, <2>1, <2>3, <2>5 DEF Ranking
    <3> HIDE DEF j
    <3>3. JobRight(j, position', result')
      BY <1>3, <1>5, <1>7, <2>1, <3>1, <3>2 DEF JobRight
    <3>4. PassEnds(w) /\ SummaryEnds(w)
      BY <1>1, <1>3, <1>4, <2>1, <3>1 DEF PassEnds, SummaryEnds
    <3> QED BY <1>1, <1>3, <3>1, <3>3, <3>4, AloneMove
  <2> QED BY <2>4, <2>5
<1> QED BY <1>6, <1>7

LEMMA SaveAlone ==
  ASSUME Shape, AloneInv, TablesSound, NEW w \in Worker, SavePosition(w)
  PROVE  AloneInv' /\ StepRight
<1> DEFINE best == Head(job[w].ranked)
           rest == Tail(job[w].ranked)
           next == [job[w] EXCEPT !.ranked = rest]
           j == IF rest = <<>> THEN AfterPass(job[w]) ELSE next
           c == CHOOSE b \in job[w].subject : TRUE
<1>1. /\ Move(w, j) /\ job[w].phase = "rank"
      /\ UNCHANGED <<mark, status, result>>
      /\ position' = [position EXCEPT ![<<best[1], c>>] = best[2]]
  BY DEF SavePosition
<1>2. job[w].alone => JobRight(job[w], position, result)
  BY DEF AloneInv
<1>3. /\ next.phase = job[w].phase /\ next.ranked = rest
      /\ next.subject = job[w].subject /\ next.alone = job[w].alone
      /\ next.sums = job[w].sums
  <2> HIDE DEF rest
  <2> QED BY DEF Shape, IsJob, NoJob
<1>4. IsJob(job[w]) /\ job'[w] = j
  BY <1>1 DEF Shape, Move
<1> HIDE DEF next
<1>5. job[w].alone => job[w].sums = [s \in Student |-> job[w].sums[s]]
  BY <1>2 DEF JobRight
<1>6. CASE ~ job[w].alone
  <2>1. ~ j.alone
    <3>1. AfterPass(job[w]).alone => job[w].alone
      BY <1>4 DEF AfterPass, IsJob, NoJob
    <3> QED BY <1>3, <1>6, <3>1
  <2> HIDE DEF j
  <2> QED BY <1>1, <1>6, <2>1, AloneMove
<1>7. CASE job[w].alone
  <2> DEFINE ranked == job[w].ranked
  <2>1. PICK b \in Subject : job[w].subject = {b} /\ Ranking(ranked, b, position)
    BY <1>1, <1>2, <1>7 DEF JobRight
  <2>2. c = b
    BY <2>1
  <2>3. /\ ranked \in Seq(Student \X Nat) /\ ranked # <<>> /\ RightPlaces(ranked, b)
        /\ \A s \in Student : (\A i \in DOMAIN ranked : ranked[i][1] # s)
             => position[<<s, b>>] = PlaceInSubject(s, b)
    BY <2>1 DEF Ranking
  <2> HIDE DEF ranked, c
  <2>4. /\ best = ranked[1] /\ 1 \in DOMAIN ranked
        /\ rest \in Seq(Student \X Nat) /\ DOMAIN rest = 1 .. (Len(ranked) - 1)
        /\ DOMAIN ranked = 1 .. Len(ranked) /\ Len(ranked) \in Nat
        /\ \A i \in DOMAIN rest : rest[i] = ranked[i + 1]
    BY <2>3 DEF ranked
  <2> HIDE DEF best, rest
  <2>5. \A i \in DOMAIN ranked : i = 1 \/ (i - 1 \in DOMAIN rest /\ ranked[i] = rest[i - 1])
    BY <2>4
  <2>6. best[1] \in Student /\ best[2] = PlaceInSubject(best[1], b)
    BY <2>3, <2>4 DEF RightPlaces
  <2>7. \A s \in Student :
          position'[<<s, b>>] = IF s = best[1] THEN best[2] ELSE position[<<s, b>>]
    <3>1. \A s \in Student : <<s, b>> \in Row
      BY DEF Row
    <3> QED BY <1>1, <2>2, <3>1 DEF TablesSound
  <2>8. \A s \in Student : (\A i \in DOMAIN rest : rest[i][1] # s)
          => position'[<<s, b>>] = PlaceInSubject(s, b)
    <3> SUFFICES ASSUME NEW s \in Student, \A i \in DOMAIN rest : rest[i][1] # s,
                        s # best[1]
                 PROVE  position'[<<s, b>>] = PlaceInSubject(s, b)
      BY <2>6, <2>7
    <3>1. \A i \in DOMAIN ranked : ranked[i][1] # s
      BY <2>4, <2>5
    <3> QED BY <2>3, <2>7, <3>1
  <2>9. RightPlaces(rest, b)
    <3>1. \A i \in DOMAIN rest : i + 1 \in DOMAIN ranked
      BY <2>4
    <3> QED BY <2>3, <2>4, <3>1 DEF RightPlaces
  <2>10. CASE rest = <<>>
    <3>1. j = AfterPass(job[w])
      BY <2>10
    <3>2. Fresh(j)
      BY <1>4, <1>5, <1>7, <3>1, AfterPassFresh
    <3>3. \A s \in Student : position'[<<s, b>>] = PlaceInSubject(s, b)
      BY <2>8, <2>10
    <3>4. PassEnds(w) /\ SummaryEnds(w)
      BY <1>1, <2>1, <3>3 DEF PassEnds, SummaryEnds
    <3> HIDE DEF j
    <3> QED BY <1>1, <1>7, <3>2, <3>4, AloneMove
  <2>11. CASE rest # <<>>
    <3>1. j = next
      BY <2>11
    <3>2. Ranking(rest, b, position')
      BY <2>4, <2>8, <2>9, <2>11 DEF Ranking
    <3> HIDE DEF j
    <3>3. JobRight(j, position', result')
      BY <1>1, <1>3, <1>5, <1>7, <2>1, <3>1, <3>2 DEF JobRight
    <3>4. PassEnds(w) /\ SummaryEnds(w)
      BY <1>1, <1>3, <1>4, <2>1, <3>1 DEF PassEnds, SummaryEnds
    <3> QED BY <1>1, <1>3, <3>1, <3>3, <3>4, AloneMove
  <2> QED BY <2>10, <2>11
<1> QED BY <1>6, <1>7

LEMMA SumAlone ==
  ASSUME Shape, AloneInv, TablesSound, NEW w \in Worker, NEW s \in Student,
         SumScores(w, s)
  PROVE  AloneInv' /\ StepRight
<1> DEFINE sums == [job[w].sums EXCEPT ![s] = SumOf(s)]
           left == job[w].toSum \ {s}
           writes == {x \in Student : sums[x].there}
           phase == IF writes = {} THEN "drop" ELSE "write"
           places == WithPlaces(sums)
           next == [job[w] EXCEPT !.toSum = left, !.sums = sums]
           last == [job[w] EXCEPT !.phase = phase, !.toSum = {},
                                  !.sums = places, !.toWrite = writes]
           j == IF left # {} THEN next ELSE last
<1>1. /\ Move(w, j) /\ job[w].phase = "sum" /\ s \in job[w].toSum
      /\ UNCHANGED <<mark, status, position, result>>
  BY DEF SumScores, record
<1>2. job[w].alone => JobRight(job[w], position, result)
  BY DEF AloneInv
<1>3. /\ next.phase = job[w].phase /\ next.toSum = left /\ next.sums = sums
      /\ next.subject = job[w].subject /\ next.alone = job[w].alone
      /\ last.phase = phase /\ last.sums = places /\ last.toWrite = writes
      /\ last.subject = job[w].subject /\ last.alone = job[w].alone
  <2> HIDE DEF sums, left, writes, phase, places
  <2> QED BY DEF Shape, IsJob, NoJob
<1>4. job'[w] = j
  BY <1>1 DEF Shape, Move
<1> HIDE DEF next, last
<1>5. j.alone = job[w].alone /\ j.subject = job[w].subject /\ j.phase # "idle"
  BY <1>1, <1>3
<1> HIDE DEF j
<1>6. PassEnds(w) /\ SummaryEnds(w)
  BY <1>1, <1>4, <1>5 DEF PassEnds, SummaryEnds
<1>7. ASSUME job[w].alone PROVE JobRight(j, position', result')
  <2>1. /\ job[w].sums = [x \in Student |-> job[w].sums[x]]
        /\ \A x \in Student \ job[w].toSum : job[w].sums[x] = SumOf(x)
        /\ job[w].subject = {}
    BY <1>1, <1>2, <1>7 DEF JobRight
  <2>2. /\ sums = [x \in Student |-> sums[x]]
        /\ \A x \in Student \ left : sums[x] = SumOf(x)
    BY <2>1
  <2>3. CASE left # {}
    <3>1. j = next
      BY <2>3 DEF j
    <3> HIDE DEF sums, left
    <3> QED BY <1>1, <1>3, <2>1, <2>2, <3>1 DEF JobRight
  <2>4. CASE left = {}
    <3>1. j = last
      BY <2>4 DEF j
    <3>2. sums = Sums
      BY <2>2, <2>4 DEF Sums
    <3>3. places = [x \in Student |-> ResultOf(x)]
      BY <3>2, PlacesAreResults DEF TablesSound
    <3>4. \A x \in Student \ writes : ~ ResultOf(x).there
      BY <3>2, ResultOfIs DEF TablesSound, Sums
    <3>5. phase \in {"write", "drop"} /\ (phase = "drop" => writes = {})
      OBVIOUS
    <3> HIDE DEF sums, left, writes, phase, places
    <3> QED BY <1>3, <2>1, <3>1, <3>3, <3>4, <3>5 DEF JobRight
  <2> QED BY <2>3, <2>4
<1> QED
  BY <1>1, <1>5, <1>6, <1>7, AloneMove

LEMMA WriteAlone ==
  ASSUME Shape, AloneInv, TablesSound, NEW w \in Worker, NEW s \in Student,
         WriteResult(w, s)
  PROVE  AloneInv' /\ StepRight
<1> DEFINE left == job[w].toWrite \ {s}
           phase == IF job[w].toWrite = {s} THEN "drop" ELSE "write"
           j == [job[w] EXCEPT !.toWrite = left, !.phase = phase]
<1>1. /\ Move(w, j) /\ job[w].phase = "write" /\ s \in job[w].toWrite
      /\ UNCHANGED <<mark, status, position>>
      /\ result' = [result EXCEPT ![s] = job[w].sums[s]]
  BY DEF WriteResult
<1>2. job[w].alone => JobRight(job[w], position, result)
  BY DEF AloneInv
<1>3. /\ j.phase = phase /\ j.toWrite = left /\ j.sums = job[w].sums
      /\ j.subject = job[w].subject /\ j.alone = job[w].alone
  <2> HIDE DEF left, phase
  <2> QED BY DEF Shape, IsJob, NoJob
<1>4. job'[w] = j
  BY <1>1 DEF Shape, Move
<1>5. phase \in {"write", "drop"} /\ (phase = "drop" => left = {})
  OBVIOUS
<1> HIDE DEF j, phase
<1>6. PassEnds(w) /\ SummaryEnds(w)
  BY <1>1, <1>3, <1>4 DEF PassEnds, SummaryEnds
<1>7. ASSUME job[w].alone PROVE JobRight(j, position', result')
  <2>1. /\ job[w].sums = [x \in Student |-> job[w].sums[x]]
        /\ job[w].sums = [x \in Student |-> ResultOf(x)]
        /\ \A x \in Student \ job[w].toWrite :
             job[w].sums[x].there => result[x] = job[w].sums[x]
        /\ job[w].subject = {}
    BY <1>1, <1>2, <1>7 DEF JobRight
  <2>2. \A x \in Student : result'[x] = IF x = s THEN job[w].sums[s] ELSE result[x]
    BY <1>1 DEF TablesSound
  <2>3. \A x \in Student \ left : job[w].sums[x].there => result'[x] = job[w].sums[x]
    BY <2>1, <2>2
  <2> HIDE DEF left
  <2> QED BY <1>3, <1>5, <2>1, <2>3 DEF JobRight
<1> QED
  BY <1>1, <1>3, <1>6, <1>7, AloneMove

LEMMA DropAlone ==
  ASSUME Shape, AloneInv, TablesSound, NEW w \in Worker,
         DropResults(w) \/ SaveForm(w) \/ ResetStatus(w) 
  PROVE  AloneInv' /\ StepRight
<1>1. Move(w, NoJob) /\ job[w].phase \in {"drop", "form", "reset"}
  BY DEF DropResults, SaveForm, ResetStatus
<1>2. job[w].alone => JobRight(job[w], position, result)
  BY DEF AloneInv
<1>3. job[w].alone => PassEnds(w)
  BY <1>1, <1>2 DEF JobRight, PassEnds
<1>4. ASSUME job[w].alone, job[w].phase = "drop"
      PROVE  \A s \in Student : result'[s] = ResultOf(s)
  <2> TAKE s \in Student
  <2>1. result'[s] = IF job[w].sums[s].there THEN result[s] ELSE NoResult
    BY <1>4 DEF DropResults, SaveForm, ResetStatus
  <2>2. /\ job[w].sums[s] = ResultOf(s)
        /\ job[w].sums[s].there => result[s] = job[w].sums[s]
    BY <1>2, <1>4 DEF JobRight
  <2> QED BY <2>1, <2>2, ResultOfIs DEF TablesSound
<1>5. job[w].alone => SummaryEnds(w)
  BY <1>4 DEF SummaryEnds
<1> QED
  BY <1>1, <1>3, <1>5, NoJobFresh, AloneMove

\* A step that reads no score, on the way to a phase that has read none.
LEMMA OtherAlone ==
  ASSUME Shape, AloneInv, TablesSound, NEW w \in Worker, NEW j, Move(w, j),
         job[w].phase \in {"save", "score", "announce", "tell"},
         \/ j = NoJob
         \/ /\ j.phase \in {"reset", "tell"} /\ j.alone = job[w].alone
            /\ j.subject = job[w].subject /\ j.sums = job[w].sums
  PROVE  AloneInv' /\ StepRight
<1>1. job[w].alone => JobRight(job[w], position, result)
  BY DEF AloneInv
<1>2. job[w].alone => Fresh(j)
  BY <1>1, NoJobFresh DEF JobRight, Fresh
<1>3. job[w].alone => PassEnds(w) /\ SummaryEnds(w)
  BY <1>1 DEF JobRight, PassEnds, SummaryEnds
<1>4. j.alone => job[w].alone
  BY NoJobFresh
<1> QED
  BY <1>2, <1>3, <1>4, AloneMove

LEMMA EditAlone ==
  ASSUME Shape, AloneInv, TablesSound, NEW w \in Worker, SaveMark(w)
  PROVE  AloneInv' /\ StepRight
<1> DEFINE next == [job[w] EXCEPT !.phase = "reset"]
           j == IF job[w].seen \in {"APPROVED", "REJECTED"} THEN next ELSE NoJob
<1>1. Move(w, j) /\ job[w].phase = "save"
  BY DEF SaveMark
<1>2. /\ next.phase = "reset" /\ next.alone = job[w].alone
      /\ next.subject = job[w].subject /\ next.sums = job[w].sums
  BY DEF Shape, IsJob, NoJob
<1> HIDE DEF next
<1> QED
  BY <1>1, <1>2, OtherAlone

LEMMA ScoreAlone ==
  ASSUME Shape, AloneInv, TablesSound, NEW w \in Worker, SaveScore(w)
  PROVE  AloneInv' /\ StepRight
BY OtherAlone DEF SaveScore

LEMMA TellAlone ==
  ASSUME Shape, AloneInv, TablesSound, NEW w \in Worker,
         ReadTold(w) \/ \E r \in Reader : Tell(w, r)
  PROVE  AloneInv' /\ StepRight
<1>1. CASE ReadTold(w)
  <2> DEFINE new == {r \in job[w].toTell : told[r] = 0}
             next == [job[w] EXCEPT !.phase = "tell", !.toTell = new]
             j == IF new = {} THEN NoJob ELSE next
  <2>1. Move(w, j) /\ job[w].phase = "announce"
    BY <1>1 DEF ReadTold
  <2>2. /\ next.phase = "tell" /\ next.alone = job[w].alone
        /\ next.subject = job[w].subject /\ next.sums = job[w].sums
    <3> HIDE DEF new
    <3> QED BY DEF Shape, IsJob, NoJob
  <2> HIDE DEF next, new
  <2> QED BY <2>1, <2>2, OtherAlone
<1>2. ASSUME NEW r \in Reader, Tell(w, r) PROVE AloneInv' /\ StepRight
  <2> DEFINE left == job[w].toTell \ {r}
             next == [job[w] EXCEPT !.toTell = left]
             j == IF job[w].toTell = {r} THEN NoJob ELSE next
  <2>1. Move(w, j) /\ job[w].phase = "tell"
    BY <1>2 DEF Tell
  <2>2. /\ next.phase = job[w].phase /\ next.alone = job[w].alone
        /\ next.subject = job[w].subject /\ next.sums = job[w].sums
    <3> HIDE DEF left
    <3> QED BY DEF Shape, IsJob, NoJob
  <2> HIDE DEF next
  <2> QED BY <2>1, <2>2, OtherAlone
<1> QED BY <1>1, <1>2

LEMMA WorkAlone ==
  ASSUME Shape, AloneInv, TablesSound, NEW w \in Worker, Work(w)
  PROVE  AloneInv' /\ StepRight
BY EditAlone, ScoreAlone, DropAlone, ClearAlone, ReadAlone, SaveAlone, SumAlone,
   WriteAlone, TellAlone DEF Work

LEMMA CrashAlone ==
  ASSUME Shape, AloneInv, NEW w \in Worker, Crash(w), crashes \in Nat
  PROVE  AloneInv' /\ StepRight
<1>1. /\ Move(w, NoJob) /\ job[w].phase # "idle" /\ crashes' # crashes
  BY DEF Crash, Busy
<1> QED
  BY <1>1, NoJobFresh, AloneMove

\* A request that begins: it has read nothing of the scores, and an edit brings
\* a mark.
Begins(w) ==
  \E j : /\ IsJob(j) /\ Fresh(j)
         /\ j.phase \in {"save", "score"} => j.mark \in Mark \cup {NoMark}
         /\ Begin(w, j)
         /\ UNCHANGED <<mark, position, result>>

LEMMA RecomputeFresh ==
  ASSUME NEW b, NEW n, NEW summary
  PROVE  Fresh(Recompute(b, n, summary))
BY DEF Recompute, Fresh, NoJob

LEMMA RequestBegins ==
  ASSUME NEW w \in Worker,
         \/ Backfill(w) \/ SumSelected(w) \/ Publish(w)
         \/ \E subjects \in SUBSET Subject \ {{}} : RankSelected(w, subjects)
         \/ \E students \in Selection : PublishSelected(w, students)
         \/ \E r \in Row, m \in Mark \cup {NoMark} : EnterMark(w, r, m)
         \/ \E r \in Row, m \in Mark \cup {NoMark}, s \in Status :
              SubmitScore(w, r, m, s)
         \/ \E rows, verdict : Judge(w, rows, verdict)
         \/ \E s \in Student : OpenForm(w, s)
  PROVE  Begins(w)
<1> USE DEF Begins
<1>1. ASSUME NEW b, NEW n, NEW summary, UNCHANGED <<mark, position, result>>,
             Begin(w, Recompute(b, n, summary))
      PROVE  Begins(w)
  <2> DEFINE j == Recompute(b, n, summary)
  <2>1. IsJob(j) /\ Fresh(j) /\ j.phase \notin {"save", "score"}
    BY RecomputeJob, RecomputeFresh
  <2> QED BY <1>1, <2>1
<1>2. CASE Backfill(w)
  BY <1>1, <1>2 DEF Backfill, record
<1>3. ASSUME NEW subjects, RankSelected(w, subjects) PROVE Begins(w)
  BY <1>1, <1>3 DEF RankSelected, record
<1>4. ASSUME NEW rows, NEW verdict, Judge(w, rows, verdict) PROVE Begins(w)
  BY <1>1, <1>4 DEF Judge
<1>5. CASE SumSelected(w)
  <2> DEFINE j == [NoJob EXCEPT !.phase = "sum", !.toSum = Student]
  <2>1. IsJob(j) /\ Fresh(j) /\ j.phase = "sum"
    BY DEF IsJob, NoJob, Fresh
  <2>2. Begin(w, j) /\ UNCHANGED <<mark, position, result>>
    BY <1>5 DEF SumSelected, record
  <2> QED BY <2>1, <2>2
<1>6. ASSUME NEW readers, UNCHANGED <<mark, position, result>>,
             Begin(w, [NoJob EXCEPT !.phase = "announce", !.toTell = readers])
      PROVE  Begins(w)
  <2> DEFINE j == [NoJob EXCEPT !.phase = "announce", !.toTell = readers]
  <2>1. IsJob(j) /\ Fresh(j) /\ j.phase = "announce"
    BY DEF IsJob, NoJob, Fresh
  <2> QED BY <1>6, <2>1
<1>7. CASE Publish(w)
  BY <1>6, <1>7 DEF Publish, record
<1>8. ASSUME NEW students, PublishSelected(w, students) PROVE Begins(w)
  BY <1>6, <1>8 DEF PublishSelected, record
<1>9. ASSUME NEW r, NEW m \in Mark \cup {NoMark}, EnterMark(w, r, m) PROVE Begins(w)
  <2> DEFINE j == [NoJob EXCEPT !.phase = "save", !.row = r, !.mark = m,
                                !.seen = status[r]]
  <2>1. IsJob(j) /\ Fresh(j) /\ j.mark = m
    BY DEF IsJob, NoJob, Fresh
  <2>2. Begin(w, j) /\ UNCHANGED <<mark, position, result>>
    BY <1>9 DEF EnterMark, record
  <2> QED BY <2>1, <2>2
<1>11. ASSUME NEW r, NEW m \in Mark \cup {NoMark}, NEW s, SubmitScore(w, r, m, s)
       PROVE  Begins(w)
  <2> DEFINE j == [NoJob EXCEPT !.phase = "score", !.row = r, !.mark = m,
                                !.seen = s, !.place = position[r]]
  <2>1. IsJob(j) /\ Fresh(j) /\ j.mark = m
    BY DEF IsJob, NoJob, Fresh
  <2>2. Begin(w, j) /\ UNCHANGED <<mark, position, result>>
    BY <1>11 DEF SubmitScore, record
  <2> QED BY <2>1, <2>2
<1>10. ASSUME NEW s \in Student, OpenForm(w, s) PROVE Begins(w)
  <2> DEFINE filled == [NoJob.sums EXCEPT ![s] = result[s]]
             j == [NoJob EXCEPT !.phase = "form", !.student = {s},
                                !.sums = filled]
  <2>1. Begin(w, j) /\ UNCHANGED <<mark, position, result>>
    BY <1>10 DEF OpenForm, record, NoJob
  <2>2. filled = [x \in Student |-> filled[x]]
    BY DEF NoJob
  <2>3. IsJob(j) /\ Fresh(j) /\ j.phase = "form"
    <3> HIDE DEF filled
    <3> QED BY <2>2 DEF IsJob, NoJob, Fresh
  <2> QED BY <2>1, <2>3
<1> QED
  BY <1>2, <1>3, <1>4, <1>5, <1>7, <1>8, <1>9, <1>10, <1>11

\* The tables keep their rows, and marks come from edits and forms only.
LEMMA TablesMove ==
  ASSUME Shape, TablesSound, NEW w \in Worker, NEW j, Move(w, j),
         j.phase \notin {"save", "score"}, MarksSound',
         position' = [r \in Row |-> position'[r]],
         result' = [s \in Student |-> result'[s]]
  PROVE  TablesSound'
<1>1. job'[w] = j /\ \A x \in Worker \ {w} : job'[x] = job[x]
  BY DEF Shape, Move
<1> QED
  BY <1>1 DEF TablesSound

LEMMA WorkTables ==
  ASSUME VettedInv, TablesSound, NEW w \in Worker, Work(w)
  PROVE  TablesSound'
<1>1. Shape
  BY DEF VettedInv
<1>2. /\ position' = [r \in Row |-> position'[r]]
      /\ result' = [s \in Student |-> result'[s]]
  BY DEF Work, SaveMark, ResetStatus, ClearPositions, ReadScores, SavePosition,
         SumScores, WriteResult, DropResults, SaveForm, SaveScore, ReadTold, Tell,
         record, TablesSound
<1>3. CASE CalmMove(w)
  <2>1. PICK j : j.phase \notin {"save", "score"} /\ Move(w, j) /\ UNCHANGED tables
    BY <1>3 DEF CalmMove
  <2>2. MarksSound'
    BY <2>1 DEF TablesSound, MarksSound, tables
  <2> QED BY <1>1, <1>2, <2>1, <2>2, TablesMove
<1>4. CASE SaveMark(w)
  <2> DEFINE next == [job[w] EXCEPT !.phase = "reset"]
             j == IF job[w].seen \in {"APPROVED", "REJECTED"} THEN next ELSE NoJob
  <2>1. /\ Move(w, j) /\ job[w].phase = "save"
        /\ mark' = [mark EXCEPT ![job[w].row] = job[w].mark]
    BY <1>4 DEF SaveMark
  <2>2. next.phase = "reset"
    BY <1>1 DEF Shape, IsJob, NoJob
  <2>3. MarksSound'
    BY <1>1, <2>1 DEF TablesSound, MarksSound, Shape
  <2> HIDE DEF next
  <2>4. j.phase \notin {"save", "score"}
    BY <2>2, NoJobShape
  <2> QED BY <1>1, <1>2, <2>1, <2>3, <2>4, TablesMove
<1>5. CASE ResetStatus(w)
  <2>1. Move(w, NoJob) /\ UNCHANGED mark
    BY <1>5 DEF ResetStatus
  <2>2. MarksSound'
    BY <2>1 DEF TablesSound, MarksSound
  <2> QED BY <1>1, <1>2, <2>1, <2>2, NoJobShape, TablesMove
<1>7. CASE SaveScore(w)
  <2>1. /\ Move(w, NoJob) /\ job[w].phase = "score"
        /\ mark' = [mark EXCEPT ![job[w].row] = job[w].mark]
    BY <1>7 DEF SaveScore
  <2>2. MarksSound'
    BY <1>1, <2>1 DEF TablesSound, MarksSound, Shape
  <2> QED BY <1>1, <1>2, <2>1, <2>2, NoJobShape, TablesMove
<1>6. CASE ReadTold(w) \/ \E r \in Reader : Tell(w, r)
  <2>1. UNCHANGED mark
    BY <1>6 DEF ReadTold, Tell, record
  <2>2. MarksSound'
    BY <2>1 DEF TablesSound, MarksSound
  <2>3. job'[w].phase \notin {"save", "score"} /\ job' = [job EXCEPT ![w] = job'[w]]
    <3>1. ASSUME NEW readers
          PROVE  [job[w] EXCEPT !.phase = "tell", !.toTell = readers].phase = "tell"
      BY <1>1 DEF Shape, IsJob, NoJob
    <3>2. ASSUME NEW readers
          PROVE  [job[w] EXCEPT !.toTell = readers].phase = job[w].phase
      BY <1>1 DEF Shape, IsJob, NoJob
    <3>3. CASE ReadTold(w)
      BY <1>1, <3>1, <3>3, NoJobShape DEF ReadTold, Move, Shape
    <3>4. ASSUME NEW r \in Reader, Tell(w, r)
          PROVE  job'[w].phase \notin {"save", "score"} /\ job' = [job EXCEPT ![w] = job'[w]]
      BY <1>1, <3>2, <3>4, NoJobShape DEF Tell, Move, Shape
    <3> QED BY <1>6, <3>3, <3>4
  <2>4. \A x \in Worker \ {w} : job'[x] = job[x]
    BY <1>1, <2>3 DEF Shape
  <2> QED BY <1>2, <2>2, <2>3, <2>4 DEF TablesSound
<1> QED
  BY <1>1, <1>3, <1>4, <1>5, <1>6, <1>7, RankingCalm, SummaryCalm DEF Work

-----------------------------------------------------------------------------
(* Undisturbed recomputations are right *)

\* The invariant of the two theorems below: the shape of jobs and tables, and
\* how far the worker that is alone has come.
RightInv == TellingInv /\ AloneInv /\ TablesSound

LEMMA InitRight == Init => RightInv
<1> SUFFICES ASSUME Init PROVE RightInv
  OBVIOUS
<1>1. TellingInv
  <2>1. TellInv /\ crashes \in Nat
    BY NoJobShape DEF Init, TellInv, Telling
  <2> QED
    BY <2>1, InitVetted DEF TellingInv
<1>2. job = [w \in Worker |-> NoJob]
  BY DEF Init
<1>3. AloneInv
  BY <1>2, NoJobFresh DEF AloneInv, AloneIsAlone
<1>4. mark \in [Row -> Mark \cup {NoMark}]
  BY ResultsAssumption DEF Init
<1>5. TablesSound
  BY <1>2, <1>4, NoJobShape DEF Init, TablesSound, MarksSound
<1> QED
  BY <1>1, <1>3, <1>5 DEF RightInv

LEMMA NextRight ==
  ASSUME RightInv, [Next]_vars
  PROVE  AloneInv' /\ TablesSound' /\ StepRight
<1> USE DEF RightInv, TellingInv
<1>1. Shape /\ VettedInv /\ AloneInv /\ TablesSound /\ crashes \in Nat
  BY DEF VettedInv
<1>2. ASSUME NEW w \in Worker, Work(w) PROVE AloneInv' /\ TablesSound' /\ StepRight
  BY <1>1, <1>2, WorkAlone, WorkTables
<1>3. ASSUME NEW w \in Worker, Crash(w) PROVE AloneInv' /\ TablesSound' /\ StepRight
  <2>1. Move(w, NoJob) /\ UNCHANGED <<mark, position, result>>
    BY <1>3 DEF Crash, record
  <2>2. TablesSound'
    BY <1>1, <2>1, NoJobShape, TablesMove DEF TablesSound, MarksSound
  <2> QED BY <1>1, <1>3, <2>2, CrashAlone
<1>4. ASSUME NEW w \in Worker, Begins(w) PROVE AloneInv' /\ TablesSound' /\ StepRight
  <2>1. PICK j : /\ IsJob(j) /\ Fresh(j) /\ Begin(w, j)
                 /\ j.phase \in {"save", "score"} => j.mark \in Mark \cup {NoMark}
                 /\ UNCHANGED <<mark, position, result>>
    BY <1>4 DEF Begins
  <2>2. AloneInv' /\ StepRight
    BY <1>1, <2>1, AloneBegin
  <2>3. TablesSound'
    BY <1>1, <2>1, Begun DEF TablesSound, MarksSound
  <2> QED BY <2>2, <2>3
<1>5. ASSUME NEW w \in Worker,
             \/ \E r, verdict : JudgeOne(w, r, verdict)
             \/ \E rows, verdict : JudgePending(w, rows, verdict)
      PROVE  Begins(w)
  <2>1. \E rows, verdict : Judge(w, rows, verdict)
    BY <1>5 DEF JudgeOne, JudgePending
  <2> QED
    BY <2>1, RequestBegins
<1>6. CASE Unpublish
  <2>1. /\ UNCHANGED <<mark, position, result>>
        /\ \A x \in Worker : job'[x] = Alone(job[x], FALSE)
    BY <1>6 DEF Unpublish, Request, Alone, record
  <2>2. \A k : IsJob(k) => /\ ~ Alone(k, FALSE).alone
                           /\ Alone(k, FALSE).phase = k.phase
                           /\ Alone(k, FALSE).mark = k.mark
                           /\ Alone(k, FALSE).subject = k.subject
    BY DEF IsJob, NoJob, Alone
  <2>3. \A x \in Worker : /\ ~ job'[x].alone
                          /\ job'[x].phase = job[x].phase
                          /\ job'[x].mark = job[x].mark
                          /\ job'[x].subject = job[x].subject
    BY <1>1, <2>1, <2>2 DEF Shape
  <2>4. AloneInv'
    BY <2>3 DEF AloneInv, AloneIsAlone
  <2>5. StepRight
    BY <2>3 DEF StepRight, PassEnds, SummaryEnds
  <2>6. TablesSound'
    BY <1>1, <2>1, <2>3 DEF TablesSound, MarksSound
  <2> QED BY <2>4, <2>5, <2>6
<1>7. CASE UNCHANGED vars
  <2>1. UNCHANGED <<mark, status, position, result, job>>
    BY <1>7 DEF vars
  <2>2. AloneInv'
    BY <1>1, <2>1, RightStays DEF AloneInv, AloneIsAlone
  <2>3. TablesSound' /\ StepRight
    BY <1>1, <2>1 DEF TablesSound, MarksSound, StepRight, PassEnds, SummaryEnds
  <2> QED BY <2>2, <2>3
<1>8. ASSUME NEW w \in Worker,
             \/ Backfill(w) \/ SumSelected(w) \/ Publish(w)
             \/ \E subjects \in SUBSET Subject \ {{}} : RankSelected(w, subjects)
             \/ \E students \in Selection : PublishSelected(w, students)
             \/ \E r \in Row, m \in Mark \cup {NoMark} : EnterMark(w, r, m)
             \/ \E r \in Row, m \in Mark \cup {NoMark}, s \in Status :
                  SubmitScore(w, r, m, s)
             \/ \E s \in Student : OpenForm(w, s)
      PROVE  Begins(w)
  BY <1>8, RequestBegins
<1> QED
  BY <1>2, <1>3, <1>4, <1>5, <1>6, <1>7, <1>8 DEF Next

LEMMA RightInductive == RightInv /\ [Next]_vars => RightInv'
BY NextRight, NextVetted, NextTells DEF RightInv, TellingInv, VettedInv

\* Whatever was entered, judged and computed before, by whom and in whatever
\* order: a pass that meets no other request leaves every student of the
\* subject the place that the number of better marks gives, and no place to a
\* student whose score does not count.
THEOREM PassRanksRight == Spec => RanksRight
<1>1. RightInv /\ [Next]_vars
        => [\A w \in Worker :
             /\ job[w].alone /\ crashes' = crashes
             /\ job[w].subject # {} /\ job'[w].subject = {}
             => \A r \in Student \X job[w].subject :
                  position'[r] = PlaceInSubject(r[1], r[2])]_vars
  BY NextRight DEF StepRight, PassEnds
<1> QED
  BY <1>1, InitRight, RightInductive, PTL DEF Spec, RanksRight

\* The same for the term results: a summary that meets no other request leaves
\* each student the totals of the scores that count and the place that they
\* give, and no result to a student none of whose scores counts any more.
THEOREM SummaryIsRight == Spec => ResultsRight
<1>1. RightInv /\ [Next]_vars
        => [\A w \in Worker :
             /\ job[w].alone /\ crashes' = crashes
             /\ job[w].phase = "drop" /\ job'[w].phase = "idle"
             => \A s \in Student : result'[s] = ResultOf(s)]_vars
  BY NextRight DEF StepRight, SummaryEnds
<1> QED
  BY <1>1, InitRight, RightInductive, PTL DEF Spec, ResultsRight

=============================================================================
