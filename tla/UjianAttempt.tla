---------------------------- MODULE UjianAttempt ----------------------------
(***************************************************************************)
(* The life of an exam attempt (hasil_ujian) in internal/ujian: start,     *)
(* answer, submit, the timer cron that grades expired attempts, and the    *)
(* teacher's cancel.                                                       *)
(*                                                                         *)
(* One exam is modelled: every lock, guard and query of these handlers is  *)
(* keyed by the exam, so exams do not interact.  A handler is cut where    *)
(* another goroutine can run: after each statement whose result it goes on *)
(* to use.  A transaction that took pg_advisory_xact_lock holds it until   *)
(* its last step, so a lock is not a variable: it is held exactly while    *)
(* some transaction is in the step between taking it and its commit.       *)
(***************************************************************************)
EXTENDS Integers, FiniteSets

CONSTANTS
    Siswa,        \* students
    Enrolled,     \* those with an active enrolment in the exam's class
    Soal,         \* questions of the teacher's bank
    Editable,     \* those the teacher still edits while the exam runs
    Jawab,        \* answer letters
    HasilId,      \* attempt ids, the order being the order of creation
    Req,          \* goroutines that serve HTTP requests
    Batch,        \* UjianTimerCronBatchSize
    Grace,        \* late-submit grace, in ticks
    MaxPoin,      \* largest poin of a question
    MaxNilai,     \* largest value of the column nilai_total NUMERIC(6,2)
    MaxTime,      \* bound on the clock
    MaxFault,     \* bound on the number of crashes and failed statements
    UjianAwal,    \* exam rows a run may start from
    BankAwal,     \* bank rows a run may start from
    OverrideAwal  \* susulan overrides a run may start from

NULL == -1
Waktu == Nat \cup {NULL}
Mode == {"manual", "random", ""}

UjianRow ==
    [status : {"none", "draft", "published", "archived"}, waktuMulai : Waktu,
     waktuSelesai : Waktu, durasi : Nat, batas : Nat, unlimited : BOOLEAN,
     mode : Mode, sumber : SUBSET Soal, jumlah : Nat, version : Nat]
SoalRow == [kunci : Jawab, poin : 0..MaxPoin, deleted : BOOLEAN]
OverrideRow ==
    [ada : BOOLEAN, waktuMulai : Waktu, waktuSelesai : Nat,
     durasi : Waktu, maxAttempt : Nat]

ASSUME SetsFinite ==
    /\ IsFiniteSet(Soal) /\ IsFiniteSet(HasilId)
    /\ HasilId \subseteq Nat
    /\ Enrolled \subseteq Siswa /\ Editable \subseteq Soal
    /\ Siswa # {}
ASSUME BoundsAreNat ==
    /\ Batch \in Nat \ {0} /\ Grace \in Nat /\ MaxPoin \in Nat
    /\ MaxNilai \in Nat /\ MaxTime \in Nat /\ MaxFault \in Nat
ASSUME NamesDistinct == "-" \notin Jawab
ASSUME InitialRows ==
    /\ UjianAwal \subseteq UjianRow
    /\ BankAwal \subseteq [Soal -> SoalRow]
    /\ OverrideAwal \subseteq [Siswa -> OverrideRow]

HasilRow ==
    [status : {"none", "berlangsung", "selesai", "dibatalkan"},
     siswa : Siswa, pool : SUBSET Soal, mulai : Nat, deadline : Nat,
     selesai : Waktu, nilai : Waktu, benar : Waktu, total : Waktu,
     attemptNo : Nat, deleted : BOOLEAN]
JawabanRow ==
    [jawaban : Jawab \cup {"-"}, isBenar : {"null", "ya", "tidak"},
     poin : 0..MaxPoin]

\* No row with this id, no answer to this question, no susulan.
NoHasil ==
    [status |-> "none", siswa |-> CHOOSE s \in Siswa : TRUE, pool |-> {},
     mulai |-> 0, deadline |-> 0, selesai |-> NULL, nilai |-> NULL,
     benar |-> NULL, total |-> NULL, attemptNo |-> 0, deleted |-> FALSE]
NoJawaban == [jawaban |-> "-", isBenar |-> "null", poin |-> 0]
NoOverride == [ada |-> FALSE, waktuMulai |-> NULL, waktuSelesai |-> 0,
               durasi |-> NULL, maxAttempt |-> 0]

VARIABLES
    now,        \* wall clock
    fault,      \* failures the environment may still inject
    ujian,      \* the exam row
    ujianSoal,  \* its ujian_soal junction
    override,   \* its ujian_access_override rows
    bank,       \* bank_soal
    hasil,      \* hasil_ujian
    jawaban,    \* jawaban_ujian
    gradeEvent, \* event_ujian rows with action submit or auto_grade
    req,        \* what each request goroutine is doing
    cron        \* what the timer cron is doing

examVars == <<ujian, ujianSoal, override>>
vars == <<now, fault, ujian, ujianSoal, override, bank, hasil, jawaban,
          gradeEvent, req, cron>>

Idle == [op |-> "idle"]
ReqState ==
    {Idle}
    \cup [op : {"startFound"}, siswa : Siswa, u : UjianRow]
    \cup [op : {"startWait"}, siswa : Siswa, u : UjianRow,
          o : OverrideRow, t : Nat]
    \cup [op : {"startInsert"}, siswa : Siswa, u : UjianRow,
          o : OverrideRow, t : Nat, n : Nat, pool : SUBSET Soal]
    \cup [op : {"save"}, h : HasilId, soal : Soal, jawaban : Jawab]
    \cup [op : {"submitWait"}, h : HasilId]
    \cup [op : {"submitGrade"}, h : HasilId, graded : [Soal -> JawabanRow]]
    \cup [op : {"cancel"}, h : HasilId]
CronState ==
    {Idle}
    \cup [op : {"sweep"}, todo : SUBSET HasilId]
    \cup [op : {"grade"}, todo : SUBSET HasilId, h : HasilId,
          graded : [Soal -> JawabanRow]]

Init ==
    /\ now = 0
    /\ fault = MaxFault
    /\ ujian \in UjianAwal
    /\ ujianSoal = IF ujian.mode = "manual" THEN ujian.sumber ELSE {}
    /\ override \in OverrideAwal
    /\ bank \in BankAwal
    /\ hasil = [h \in HasilId |-> NoHasil]
    /\ jawaban = [h \in HasilId |-> [q \in Soal |-> NoJawaban]]
    /\ gradeEvent = [h \in HasilId |-> 0]
    /\ req = [r \in Req |-> Idle]
    /\ cron = Idle

-----------------------------------------------------------------------------
(* Queries and rules the handlers share.                                   *)

Live(s) == {h \in HasilId : /\ hasil[h].status # "none"
                            /\ hasil[h].siswa = s
                            /\ ~hasil[h].deleted}
Running(s) == {h \in Live(s) : hasil[h].status = "berlangsung"}

\* Mutants of the lock: never taken; taken a second time by its holder.
StartUnlocked(s) == FALSE
StartLockedTwice(s) ==
    \E r \in Req : req[r].op \in {"startWait", "startInsert"} /\ req[r].siswa = s

StartLocked(s) ==
    \E r \in Req : req[r].op = "startInsert" /\ req[r].siswa = s
SubmitLocked(h) ==
    \/ \E r \in Req : req[r].op = "submitGrade" /\ req[r].h = h
    \/ cron.op = "grade" /\ cron.h = h

InWindow(u, o, t) ==
    LET from == IF o.ada THEN o.waktuMulai ELSE u.waktuMulai
        to   == IF o.ada THEN o.waktuSelesai ELSE u.waktuSelesai
    IN  /\ from # NULL => t >= from
        /\ to # NULL => t <= to

Limit(u, o) ==
    LET batas == IF o.ada THEN o.maxAttempt ELSE u.batas
    IN  IF batas = 0 THEN 1 ELSE batas
Unlimited(u, o) == u.unlimited /\ ~o.ada
Durasi(u, o) == IF o.ada /\ o.durasi # NULL THEN o.durasi ELSE u.durasi

\* The questions an attempt may be drawn from, and what may be drawn.
Pool(u) ==
    CASE u.mode = "manual" -> ujianSoal
      [] u.mode = "random" -> {q \in u.sumber : ~bank[q].deleted}
      [] OTHER -> {}
Draws(u) ==
    LET p == Pool(u)
    IN  IF u.mode = "random" /\ 0 < u.jumlah /\ u.jumlah < Cardinality(p)
          THEN {d \in SUBSET p : Cardinality(d) = u.jumlah}
          ELSE {p}

\* gradeAttemptInTx on one answer row: an unanswered or deleted question
\* scores as wrong.
GradeRow(q, row) ==
    LET right == ~bank[q].deleted /\ row.jawaban = bank[q].kunci
    IN  [row EXCEPT !.isBenar = IF right THEN "ya" ELSE "tidak",
                    !.poin = IF right THEN bank[q].poin ELSE 0]
Grade(rows) ==
    [q \in Soal |-> IF rows[q].jawaban = "-" THEN NoJawaban
                                             ELSE GradeRow(q, rows[q])]

\* The sum of the points, as the size of a disjoint union.
Nilai(rows) == Cardinality({p \in Soal \X (1..MaxPoin) : p[2] <= rows[p[1]].poin})
Benar(rows) == Cardinality({q \in Soal : rows[q].isBenar = "ya"})

\* The UPDATEs of a grading transaction: verdicts go to the rows it read, by
\* row id, and leave the jawaban column alone.
WriteVerdicts(h, graded) ==
    jawaban' = [jawaban EXCEPT ![h] = [q \in Soal |->
        IF graded[q].jawaban = "-" THEN jawaban[h][q]
        ELSE [jawaban[h][q] EXCEPT !.isBenar = graded[q].isBenar,
                                   !.poin = graded[q].poin]]]
\* Mutant: the whole row read before the lock is saved back.
FinaliseSavesRow(h, graded, at) ==
    /\ hasil' = [hasil EXCEPT ![h].status = "selesai", ![h].selesai = at,
                              ![h].nilai = Nilai(graded),
                              ![h].benar = Benar(graded),
                              ![h].total = Cardinality(hasil[h].pool),
                              ![h].deleted = FALSE]
    /\ WriteVerdicts(h, graded)
    /\ gradeEvent' = [gradeEvent EXCEPT ![h] = @ + 1]
Finalise(h, graded, at) ==
    /\ hasil' = [hasil EXCEPT ![h].status = "selesai", ![h].selesai = at,
                              ![h].nilai = Nilai(graded),
                              ![h].benar = Benar(graded),
                              ![h].total = Cardinality(hasil[h].pool)]
    /\ WriteVerdicts(h, graded)
    /\ gradeEvent' = [gradeEvent EXCEPT ![h] = @ + 1]

-----------------------------------------------------------------------------
(* FlowService.Start                                                       *)

StartFind(r, s) ==
    /\ req[r] = Idle
    /\ ujian.status = "published"
    /\ s \in Enrolled
    /\ req' = [req EXCEPT ![r] = [op |-> "startFound", siswa |-> s, u |-> ujian]]
    /\ UNCHANGED <<now, fault, examVars, bank, hasil, jawaban, gradeEvent, cron>>

StartWindow(r) ==
    /\ req[r].op = "startFound"
    /\ LET s == req[r].siswa
           u == req[r].u
           o == override[s]
       IN  req' = [req EXCEPT ![r] =
                     IF InWindow(u, o, now) /\ u.mode # ""
                       THEN [op |-> "startWait", siswa |-> s, u |-> u,
                             o |-> o, t |-> now]
                       ELSE Idle]
    /\ UNCHANGED <<now, fault, examVars, bank, hasil, jawaban, gradeEvent, cron>>

\* Under the lock: resume a running attempt, refuse when the limit is spent
\* or the pool is empty, or go on to insert.
StartLock(r) ==
    /\ req[r].op = "startWait"
    /\ ~StartLocked(req[r].siswa)
    /\ LET s == req[r].siswa
           u == req[r].u
           o == req[r].o
           n == Cardinality(Live(s))
       IN  \/ /\ \/ Running(s) # {}
                 \/ ~Unlimited(u, o) /\ n >= Limit(u, o)
                 \/ Pool(u) = {}
              /\ req' = [req EXCEPT ![r] = Idle]
           \/ /\ Running(s) = {}
              /\ Unlimited(u, o) \/ n < Limit(u, o)
              /\ Pool(u) # {}
              /\ \E d \in Draws(u) :
                    req' = [req EXCEPT ![r] =
                              [op |-> "startInsert", siswa |-> s, u |-> u, o |-> o,
                               t |-> req[r].t, n |-> n, pool |-> d]]
    /\ UNCHANGED <<now, fault, examVars, bank, hasil, jawaban, gradeEvent, cron>>

\* The INSERT fails, and the transaction with it, when the partial unique
\* index already holds a running attempt of the student, when the exam row its
\* foreign key needs is gone (or, a bound of the model, when every id of HasilId
\* is taken).
StartInsert(r) ==
    /\ req[r].op = "startInsert"
    /\ LET q == req[r]
           free == {h \in HasilId : hasil[h].status = "none"}
       IN  IF Running(q.siswa) # {} \/ ujian.status = "none" \/ free = {}
             THEN UNCHANGED hasil
             ELSE \E h \in free :
                    /\ \A k \in free : h <= k
                    /\ hasil' = [hasil EXCEPT ![h] =
                         [status |-> "berlangsung", siswa |-> q.siswa,
                          pool |-> q.pool, mulai |-> q.t,
                          deadline |-> q.t + Durasi(q.u, q.o),
                          selesai |-> NULL, nilai |-> NULL, benar |-> NULL,
                          total |-> NULL, attemptNo |-> q.n + 1,
                          deleted |-> FALSE]]
    /\ req' = [req EXCEPT ![r] = Idle]
    /\ UNCHANGED <<now, fault, examVars, bank, jawaban, gradeEvent, cron>>

-----------------------------------------------------------------------------
(* FlowService.SaveAnswer: the checks read the row without a lock, the     *)
(* upsert is a statement of its own.                                       *)

SaveCheck(r, h, q, a) ==
    /\ req[r] = Idle
    /\ hasil[h].status = "berlangsung"
    /\ now < hasil[h].deadline
    /\ q \in hasil[h].pool
    /\ req' = [req EXCEPT ![r] = [op |-> "save", h |-> h, soal |-> q, jawaban |-> a]]
    /\ UNCHANGED <<now, fault, examVars, bank, hasil, jawaban, gradeEvent, cron>>

\* Mutant: the answer is graded as it is saved.
SaveUpsertGraded(r) ==
    /\ req[r].op = "save"
    /\ jawaban' = [jawaban EXCEPT ![req[r].h][req[r].soal] =
                     GradeRow(req[r].soal, [NoJawaban EXCEPT !.jawaban = req[r].jawaban])]
    /\ req' = [req EXCEPT ![r] = Idle]
    /\ UNCHANGED <<now, fault, examVars, bank, hasil, gradeEvent, cron>>

SaveUpsert(r) ==
    /\ req[r].op = "save"
    /\ jawaban' = [jawaban EXCEPT ![req[r].h][req[r].soal] =
                     [jawaban |-> req[r].jawaban, isBenar |-> "null", poin |-> 0]]
    /\ req' = [req EXCEPT ![r] = Idle]
    /\ UNCHANGED <<now, fault, examVars, bank, hasil, gradeEvent, cron>>

-----------------------------------------------------------------------------
(* FlowService.Submit                                                      *)

Graded(h) == hasil[h].status = "selesai" /\ hasil[h].nilai # NULL

SubmitFind(r, h) ==
    /\ req[r] = Idle
    /\ hasil[h].status \notin {"none", "dibatalkan"}
    /\ ~Graded(h)
    /\ now <= hasil[h].deadline + Grace
    /\ req' = [req EXCEPT ![r] = [op |-> "submitWait", h |-> h]]
    /\ UNCHANGED <<now, fault, examVars, bank, hasil, jawaban, gradeEvent, cron>>

\* Mutants: under the lock, one of the two checks is not made again.
SubmitLockBlind(r) ==
    /\ req[r].op = "submitWait"
    /\ ~SubmitLocked(req[r].h)
    /\ req' = [req EXCEPT ![r] =
                 IF hasil[req[r].h].status = "dibatalkan" THEN Idle
                 ELSE [op |-> "submitGrade", h |-> req[r].h,
                       graded |-> Grade(jawaban[req[r].h])]]
    /\ UNCHANGED <<now, fault, examVars, bank, hasil, jawaban, gradeEvent, cron>>
SubmitLockCancelled(r) ==
    /\ req[r].op = "submitWait"
    /\ ~SubmitLocked(req[r].h)
    /\ req' = [req EXCEPT ![r] =
                 IF Graded(req[r].h) THEN Idle
                 ELSE [op |-> "submitGrade", h |-> req[r].h,
                       graded |-> Grade(jawaban[req[r].h])]]
    /\ UNCHANGED <<now, fault, examVars, bank, hasil, jawaban, gradeEvent, cron>>

\* Under the lock the row is read again: cancelled is refused, graded is
\* answered from the row, anything else is graded.
SubmitLock(r) ==
    /\ req[r].op = "submitWait"
    /\ ~SubmitLocked(req[r].h)
    /\ LET h == req[r].h
       IN  req' = [req EXCEPT ![r] =
             IF hasil[h].status = "dibatalkan" \/ Graded(h) THEN Idle
             ELSE [op |-> "submitGrade", h |-> h, graded |-> Grade(jawaban[h])]]
    /\ UNCHANGED <<now, fault, examVars, bank, hasil, jawaban, gradeEvent, cron>>

SubmitCommit(r) ==
    /\ req[r].op = "submitGrade"
    /\ Nilai(req[r].graded) <= MaxNilai
    /\ Finalise(req[r].h, req[r].graded, now)
    /\ req' = [req EXCEPT ![r] = Idle]
    /\ UNCHANGED <<now, fault, examVars, bank, cron>>

\* nilai_total does not fit its column: the UPDATE fails and the
\* transaction is rolled back.
SubmitOverflow(r) ==
    /\ req[r].op = "submitGrade"
    /\ Nilai(req[r].graded) > MaxNilai
    /\ req' = [req EXCEPT ![r] = Idle]
    /\ UNCHANGED <<now, fault, examVars, bank, hasil, jawaban, gradeEvent, cron>>

-----------------------------------------------------------------------------
(* HasilService.Cancel: a read, then an UPDATE by id, under no lock.       *)

CancelFind(r, h) ==
    /\ req[r] = Idle
    /\ hasil[h].status \notin {"none", "dibatalkan"}
    /\ req' = [req EXCEPT ![r] = [op |-> "cancel", h |-> h]]
    /\ UNCHANGED <<now, fault, examVars, bank, hasil, jawaban, gradeEvent, cron>>

CancelUpdate(r) ==
    /\ req[r].op = "cancel"
    /\ LET h == req[r].h
       IN  hasil' = [hasil EXCEPT ![h].status = "dibatalkan",
                                  ![h].selesai = now, ![h].deleted = TRUE]
    /\ req' = [req EXCEPT ![r] = Idle]
    /\ UNCHANGED <<now, fault, examVars, bank, jawaban, gradeEvent, cron>>

-----------------------------------------------------------------------------
(* TimerCron                                                               *)

\* Mutants: the scan drops the deadline; the scan drops the status.
ExpiredEarly == {h \in HasilId : hasil[h].status = "berlangsung" /\ ~hasil[h].deleted}
ExpiredAny == {h \in HasilId : hasil[h].status # "none" /\ hasil[h].deadline <= now}

Expired == {h \in HasilId : /\ hasil[h].status = "berlangsung"
                            /\ hasil[h].deadline <= now
                            /\ ~hasil[h].deleted}

\* The Batch earliest deadlines among the expired (ORDER BY .. LIMIT).
Batches(S) ==
    {b \in SUBSET S :
        /\ Cardinality(b) = IF Cardinality(S) <= Batch THEN Cardinality(S) ELSE Batch
        /\ \A h \in b, k \in S \ b : hasil[h].deadline <= hasil[k].deadline}

CronScan ==
    /\ cron = Idle
    /\ Expired # {}
    /\ \E b \in Batches(Expired) : cron' = [op |-> "sweep", todo |-> b]
    /\ UNCHANGED <<now, fault, examVars, bank, hasil, jawaban, gradeEvent, req>>

Sweep(todo) == IF todo = {} THEN Idle ELSE [op |-> "sweep", todo |-> todo]

\* Mutant: a row of the batch is graded without reading it again.
CronLockBlind ==
    /\ cron.op = "sweep"
    /\ \E h \in cron.todo :
        /\ ~SubmitLocked(h)
        /\ cron' = [op |-> "grade", todo |-> cron.todo \ {h}, h |-> h,
                    graded |-> Grade(jawaban[h])]
    /\ UNCHANGED <<now, fault, examVars, bank, hasil, jawaban, gradeEvent, req>>

\* The next row of the batch: skipped when it is no longer running.
CronLock ==
    /\ cron.op = "sweep"
    /\ \E h \in cron.todo :
        /\ \A k \in cron.todo : hasil[h].deadline <= hasil[k].deadline
        /\ ~SubmitLocked(h)
        /\ cron' = IF hasil[h].deleted \/ hasil[h].status # "berlangsung"
                     THEN Sweep(cron.todo \ {h})
                     ELSE [op |-> "grade", todo |-> cron.todo \ {h}, h |-> h,
                           graded |-> Grade(jawaban[h])]
    /\ UNCHANGED <<now, fault, examVars, bank, hasil, jawaban, gradeEvent, req>>

CronCommit ==
    /\ cron.op = "grade"
    /\ Nilai(cron.graded) <= MaxNilai
    /\ Finalise(cron.h, cron.graded, hasil[cron.h].deadline)
    /\ cron' = Sweep(cron.todo)
    /\ UNCHANGED <<now, fault, examVars, bank, req>>

CronOverflow ==
    /\ cron.op = "grade"
    /\ Nilai(cron.graded) > MaxNilai
    /\ cron' = Sweep(cron.todo)
    /\ UNCHANGED <<now, fault, examVars, bank, hasil, jawaban, gradeEvent, req>>

-----------------------------------------------------------------------------
(* banksoal.Service.Update and Delete: nothing keeps the teacher from      *)
(* changing a question that a running attempt already holds.               *)

BankUpdate(q, k, p) ==
    /\ ~bank[q].deleted
    /\ bank' = [bank EXCEPT ![q].kunci = k, ![q].poin = p]
    /\ UNCHANGED <<now, fault, examVars, hasil, jawaban, gradeEvent, req, cron>>

BankDelete(q) ==
    /\ ~bank[q].deleted
    /\ bank' = [bank EXCEPT ![q].deleted = TRUE]
    /\ UNCHANGED <<now, fault, examVars, hasil, jawaban, gradeEvent, req, cron>>

-----------------------------------------------------------------------------
(* The environment                                                         *)

Tick ==
    /\ now < MaxTime
    /\ now' = now + 1
    /\ UNCHANGED <<fault, examVars, bank, hasil, jawaban, gradeEvent, req, cron>>

\* A statement fails, or the client's connection is cut: the handler returns
\* and its transaction, if any, is rolled back.
ReqFail(r) ==
    /\ fault > 0
    /\ req[r] # Idle
    /\ fault' = fault - 1
    /\ req' = [req EXCEPT ![r] = Idle]
    /\ UNCHANGED <<now, examVars, bank, hasil, jawaban, gradeEvent, cron>>

\* The same for the row the cron is grading: the sweep goes on.
CronFail ==
    /\ fault > 0
    /\ cron.op = "grade"
    /\ fault' = fault - 1
    /\ cron' = Sweep(cron.todo)
    /\ UNCHANGED <<now, examVars, bank, hasil, jawaban, gradeEvent, req>>

\* The server process dies and restarts: open transactions are rolled back,
\* nothing in memory survives, the cron starts over with a sweep.
Crash ==
    /\ fault > 0
    /\ fault' = fault - 1
    /\ req' = [r \in Req |-> Idle]
    /\ cron' = Idle
    /\ UNCHANGED <<now, examVars, bank, hasil, jawaban, gradeEvent>>

StartStep(r) == StartWindow(r) \/ StartLock(r) \/ StartInsert(r)
SubmitStep(r) == SubmitLock(r) \/ SubmitCommit(r) \/ SubmitOverflow(r)
CronStep == CronScan \/ CronLock \/ CronCommit \/ CronOverflow

ReqAction(r) ==
    \/ \E s \in Siswa : StartFind(r, s)
    \/ StartStep(r)
    \/ \E h \in HasilId, q \in Soal, a \in Jawab : SaveCheck(r, h, q, a)
    \/ SaveUpsert(r)
    \/ \E h \in HasilId : SubmitFind(r, h)
    \/ SubmitStep(r)
    \/ \E h \in HasilId : CancelFind(r, h)
    \/ CancelUpdate(r)
    \/ ReqFail(r)
BankAction(q) ==
    \/ \E k \in Jawab, p \in 1..MaxPoin : BankUpdate(q, k, p)
    \/ BankDelete(q)

\* Everything but a crash.
Step ==
    \/ \E r \in Req : ReqAction(r)
    \/ CronStep
    \/ CronFail
    \/ \E q \in Editable : BankAction(q)
    \/ Tick

Next == Step \/ Crash

Spec == Init /\ [][Next]_vars

(* Fairness.  A goroutine that can run is scheduled and the clock advances; *)
(* the cron's ticker keeps firing; PostgreSQL grants advisory locks in      *)
(* queue order, so a transaction that waits for one is not passed over      *)
(* forever.  Failures are bounded by MaxFault and carry no fairness.        *)
ReqStep(r) ==
    \/ StartWindow(r) \/ StartInsert(r) \/ SaveUpsert(r)
    \/ SubmitCommit(r) \/ SubmitOverflow(r) \/ CancelUpdate(r)
Fairness ==
    /\ WF_vars(Tick) /\ WF_vars(CronStep)
    /\ \A r \in Req : /\ WF_vars(ReqStep(r))
                      /\ SF_vars(StartLock(r)) /\ SF_vars(SubmitLock(r))
FairSpec == Spec /\ Fairness

-----------------------------------------------------------------------------
(* Properties                                                              *)

\* Every table and every goroutine holds what the code's types allow.
TypeOK ==
    /\ now \in Nat /\ fault \in Nat
    /\ ujian \in UjianRow /\ ujianSoal \subseteq Soal
    /\ override \in [Siswa -> OverrideRow]
    /\ bank \in [Soal -> SoalRow]
    /\ hasil \in [HasilId -> HasilRow]
    /\ jawaban \in [HasilId -> [Soal -> JawabanRow]]
    /\ gradeEvent \in [HasilId -> Nat]
    /\ req \in [Req -> ReqState]
    /\ cron \in CronState

\* Between its count and its INSERT a Start sees no other attempt of the
\* student appear: the (ujian, siswa) advisory lock of start.go makes the
\* partial unique index of migration 000019 a safety net that is never hit,
\* and the counted number of attempts can only have shrunk.
NoStartCollision ==
    \A r \in Req : req[r].op = "startInsert" =>
        /\ Running(req[r].siswa) = {}
        /\ Cardinality(Live(req[r].siswa)) <= req[r].n

\* Submit and the cron between them write exactly one grading event for an
\* attempt that has a grade, and none for one that has not: who loses the
\* race for the advisory lock grades nothing.
OneGradeEvent ==
    \A h \in HasilId : gradeEvent[h] = IF hasil[h].nilai = NULL THEN 0 ELSE 1

\* An answer that slips in after the grading never scores: the recorded
\* nilai_total and jawaban_benar_count cover every point and every correct
\* verdict stored in jawaban_ujian.
LateAnswerNeverScores ==
    \A h \in HasilId : hasil[h].nilai # NULL =>
        /\ Nilai(jawaban[h]) <= hasil[h].nilai
        /\ Benar(jawaban[h]) <= hasil[h].benar

\* selesai_at lies between the start of the attempt and the present, whether
\* submit (now), the cron (deadline_at) or cancel (now) wrote it.
FinishTimeSound ==
    \A h \in HasilId : hasil[h].selesai # NULL =>
        hasil[h].mulai <= hasil[h].selesai /\ hasil[h].selesai <= now

\* A grade, once written, is never rewritten, and the only status change of a
\* graded attempt is the teacher's cancel: no second submit, sweep, retry or
\* restart grades an attempt again.
GradedOnce ==
    [][\A h \in HasilId : hasil[h].nilai # NULL =>
          /\ hasil'[h].nilai = hasil[h].nilai
          /\ hasil'[h].benar = hasil[h].benar
          /\ hasil'[h].total = hasil[h].total
          /\ hasil'[h].status \in {hasil[h].status, "dibatalkan"}]_vars

\* A student gains an attempt only through a Start whose own reading of the
\* exam and of the susulan override left room for one more, counted at the
\* moment of the INSERT.
LimitRespected ==
    [][\A s \in Siswa : Cardinality(Live(s)') > Cardinality(Live(s)) =>
          \E r \in Req :
              /\ req[r].op = "startInsert" /\ req[r].siswa = s
              /\ \/ Unlimited(req[r].u, req[r].o)
                 \/ Cardinality(Live(s)) < Limit(req[r].u, req[r].o)]_vars

\* A cancel that finds no grader at work is final: submit and cron read the
\* status again under the lock, so none of them goes on to grade a cancelled
\* attempt.
CancelSeenUnderLock ==
    [][\A h \in HasilId :
          hasil[h].status = "dibatalkan" /\ ~SubmitLocked(h) =>
              ~SubmitLocked(h)' /\ hasil'[h].status = "dibatalkan"]_vars

\* A cancelled attempt stays out of every count for good: deleted_at is never
\* cleared, and no deleted row comes back as a running attempt.
DeletedForGood ==
    [][\A h \in HasilId : hasil[h].deleted =>
          hasil'[h].deleted /\ hasil'[h].status # "berlangsung"]_vars

\* What is final stays final: a grade is not rewritten and a cancelled attempt
\* does not come back, whichever of submit, cron, cancel and crash comes last.
FinalIsFinal == GradedOnce /\ DeletedForGood

\* The timer cron's promise: a running attempt does not stay running for
\* ever, also when its student never submits and the server crashes.
ExpiredGetsGraded ==
    \A h \in HasilId :
        hasil[h].status = "berlangsung" /\ ~hasil[h].deleted ~>
            hasil[h].status # "berlangsung" \/ hasil[h].deleted

\* Every request returns: waiting for an advisory lock never deadlocks.
RequestsReturn == \A r \in Req : req[r] # Idle ~> req[r] = Idle

\* The inductive invariant behind the properties, in five parts.

\* What a row may look like: a grade only on a finished or cancelled attempt,
\* a grade on every finished one, no deleted row still running, one event per
\* grade.
RowInv ==
    /\ OneGradeEvent
    /\ \A h \in HasilId :
        /\ hasil[h].nilai # NULL => hasil[h].status \in {"selesai", "dibatalkan"}
        /\ hasil[h].status = "selesai" => hasil[h].nilai # NULL
        /\ hasil[h].deleted => hasil[h].status \in {"selesai", "dibatalkan"}

\* Whoever is grading an attempt is alone, and the attempt has no grade yet.
GraderInv ==
    /\ \A r \in Req :
        /\ req[r].op \in {"submitWait", "submitGrade", "cancel"} =>
              hasil[req[r].h].status # "none"
        /\ req[r].op = "submitGrade" =>
              /\ hasil[req[r].h].nilai = NULL
              /\ cron.op = "grade" => cron.h # req[r].h
              /\ \A p \in Req : req[p].op = "submitGrade" /\ req[p].h = req[r].h => p = r
    /\ cron.op \in {"sweep", "grade"} => \A h \in cron.todo : hasil[h].status # "none"
    /\ cron.op = "grade" => hasil[cron.h].status # "none" /\ hasil[cron.h].nilai = NULL

\* Whoever is inserting an attempt is alone for its student and has room.
StarterInv ==
    /\ NoStartCollision
    /\ \A r \in Req : req[r].op = "startInsert" =>
        /\ Unlimited(req[r].u, req[r].o) \/ req[r].n < Limit(req[r].u, req[r].o)
        /\ \A p \in Req : req[p].op = "startInsert" /\ req[p].siswa = req[r].siswa => p = r

\* Points and verdicts are only on graded attempts, and within the grade.
AnswerInv ==
    /\ LateAnswerNeverScores
    /\ \A h \in HasilId : hasil[h].nilai = NULL =>
        \A q \in Soal : jawaban[h][q].poin = 0 /\ jawaban[h][q].isBenar # "ya"

\* Times that were read lie in the past, deadlines after the start.
TimeInv ==
    /\ FinishTimeSound
    /\ \A h \in HasilId : hasil[h].status # "none" =>
        hasil[h].mulai <= now /\ hasil[h].mulai <= hasil[h].deadline
    /\ \A r \in Req : req[r].op \in {"startWait", "startInsert"} => req[r].t <= now
    /\ cron.op \in {"sweep", "grade"} => \A h \in cron.todo : hasil[h].deadline <= now
    /\ cron.op = "grade" => hasil[cron.h].deadline <= now

IndInv == TypeOK /\ RowInv /\ GraderInv /\ StarterInv /\ AnswerInv /\ TimeInv

\* What the comments say and the code does not keep.

\* submit.go: an attempt the teacher cancelled can not be submitted.
CancelledNotSubmitted ==
    [][\A h \in HasilId :
          hasil[h].status = "dibatalkan" => hasil'[h].status # "selesai"]_vars

-----------------------------------------------------------------------------
(* The attempts as AttemptLife sees them.                                  *)

PhaseOf(row) ==
    CASE row.status = "none" -> "none"
      [] row.status = "berlangsung" -> "running"
      [] OTHER -> "closed"
LifeOwner == [h \in HasilId |-> hasil[h].siswa]
LifePhase == [h \in HasilId |-> PhaseOf(hasil[h])]
LifeGrade == [h \in HasilId |-> hasil[h].nilai]
Life == INSTANCE AttemptLife
    WITH owner <- LifeOwner, phase <- LifePhase, grade <- LifeGrade

\* Start, Submit, the cron and Cancel together, with every interleaving, crash
\* and retry, do to an attempt only what AttemptLife allows.
ImplementsLife == Life!Spec
=============================================================================
