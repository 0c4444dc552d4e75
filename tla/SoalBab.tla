------------------------------ MODULE SoalBab ------------------------------
(***************************************************************************)
(* Chapter questions of one bab (internal/soalbab): practice attempts      *)
(* (latihan), graded attempts (ulangan) with their timer cron, the         *)
(* teacher's cancel, the ulangan setting and the question rows.            *)
(*                                                                         *)
(* As in UjianAttempt, a handler is cut after each statement whose result  *)
(* it goes on to use, and a transaction's advisory lock is held exactly    *)
(* while some goroutine is in the step between lock and commit.  Unlike an *)
(* exam, an attempt has no deleted_at and no unique index: only the lock   *)
(* keeps a student from two running ulangan, and nothing from two latihan. *)
(***************************************************************************)
EXTENDS Integers, FiniteSets

CONSTANTS
    Siswa,      \* students enrolled in the class of the published bab
    Soal,       \* question ids, those still to be created included
    Jawab,      \* answer letters
    HasilId,    \* attempt ids, the order being the order of creation
    Req,        \* goroutines that serve HTTP requests
    Editable,   \* questions the teacher creates, edits or deletes in a run
    Batch,      \* TimerCronBatchSize
    Grace,      \* late-submit grace, in ticks
    MaxPoin,    \* largest poin of a question
    MaxNilai,   \* largest value of the column nilai_total NUMERIC(6,2)
    MaxTime,    \* bound on the clock
    MaxFault,   \* bound on the number of crashes and failed statements
    MaxVersion, \* bound on the number of edits of a row
    SettingAwal,\* setting rows a run may start from
    SoalAwal,   \* question tables a run may start from
    Settings,   \* settings a teacher may save
    Edits,      \* partial updates of a question
    SoalBaru    \* contents of questions a teacher may add

NULL == -1
Waktu == Nat \cup {NULL}
SoalMode == {"latihan", "ulangan", "keduanya"}

SettingValue ==
    [jumlah : Nat \ {0}, durasi : Nat, batas : Nat, unlimited : BOOLEAN,
     review : BOOLEAN]
SettingRow == [ada : BOOLEAN, isi : SettingValue, version : Nat]
SoalRow == [ada : BOOLEAN, kunci : Jawab, poin : 1..MaxPoin, mode : SoalMode,
            version : Nat]

ASSUME SetsFinite ==
    /\ IsFiniteSet(Soal) /\ IsFiniteSet(HasilId) /\ HasilId \subseteq Nat
    /\ Siswa # {} /\ "-" \notin Jawab /\ Editable \subseteq Soal
ASSUME BoundsAreNat ==
    /\ Batch \in Nat \ {0} /\ Grace \in Nat /\ MaxPoin \in Nat /\ MaxNilai \in Nat /\ MaxTime \in Nat
    /\ MaxFault \in Nat /\ MaxVersion \in Nat
ASSUME RowsTyped ==
    /\ SettingAwal \subseteq {x \in SettingRow : ~x.ada => x.version = 0}
    /\ SoalAwal \subseteq [Soal -> SoalRow]
    /\ Settings \subseteq SettingValue
    /\ SoalBaru \subseteq {x \in SoalRow : x.ada /\ x.version = 1}
    /\ \A e \in Edits : /\ DOMAIN e \subseteq {"kunci", "poin", "mode"}
                        /\ "kunci" \in DOMAIN e => e.kunci \in Jawab
                        /\ "poin" \in DOMAIN e => e.poin \in 1..MaxPoin
                        /\ "mode" \in DOMAIN e => e.mode \in SoalMode

HasilRow ==
    [status : {"none", "berlangsung", "selesai", "dibatalkan"},
     siswa : Siswa, mode : {"latihan", "ulangan"}, pool : SUBSET Soal,
     mulai : Nat, deadline : Waktu, selesai : Waktu, nilai : Waktu,
     benar : Waktu, total : Waktu, attemptNo : Nat]
JawabanRow ==
    [jawaban : Jawab \cup {"-"}, isBenar : {"null", "ya", "tidak"},
     poin : 0..MaxPoin]

NoHasil ==
    [status |-> "none", siswa |-> CHOOSE s \in Siswa : TRUE, mode |-> "latihan",
     pool |-> {}, mulai |-> 0, deadline |-> NULL, selesai |-> NULL,
     nilai |-> NULL, benar |-> NULL, total |-> NULL, attemptNo |-> 0]
NoJawaban == [jawaban |-> "-", isBenar |-> "null", poin |-> 0]

VARIABLES
    now,        \* wall clock
    fault,      \* failures the environment may still inject
    setting,    \* the ulangan_bab_setting row
    soal,       \* soal_bab
    hasil,      \* hasil_soal_bab
    jawaban,    \* jawaban_bab
    gradeEvent, \* event_bab rows with action submitted or auto_graded
    req,        \* what each request goroutine is doing
    cron        \* what the timer cron is doing

teacherVars == <<setting, soal>>
attemptVars == <<hasil, jawaban, gradeEvent>>
vars == <<now, fault, teacherVars, attemptVars, req, cron>>

Idle == [op |-> "idle"]
Graded == [Soal -> JawabanRow]
ReqState ==
    {Idle}
    \cup [op : {"ulanganWait"}, siswa : Siswa, set : SettingValue]
    \cup [op : {"ulanganInsert"}, siswa : Siswa, set : SettingValue,
          n : Nat, pool : SUBSET Soal, t : Nat]
    \cup [op : {"latihanFound"}, siswa : Siswa]
    \cup [op : {"latihanInsert"}, siswa : Siswa, pool : SUBSET Soal]
    \cup [op : {"latihanKey"}, h : HasilId, soal : Soal, jawaban : Jawab]
    \cup [op : {"save"}, h : HasilId, soal : Soal, row : JawabanRow]
    \cup [op : {"finish", "submitWait", "cancel"}, h : HasilId]
    \cup [op : {"submitGrade"}, h : HasilId, graded : Graded]
    \cup [op : {"settingFind"}, new : SettingValue]
    \cup [op : {"settingTx"}, new : SettingValue, expected : Nat]
    \cup [op : {"soalCas"}, soal : Soal, edit : Edits, version : Nat]
CronState ==
    {Idle}
    \cup [op : {"sweep"}, todo : SUBSET HasilId]
    \cup [op : {"grade"}, todo : SUBSET HasilId, h : HasilId, graded : Graded]

Init ==
    /\ now = 0 /\ fault = MaxFault
    /\ setting \in SettingAwal
    /\ soal \in SoalAwal
    /\ hasil = [h \in HasilId |-> NoHasil]
    /\ jawaban = [h \in HasilId |-> [q \in Soal |-> NoJawaban]]
    /\ gradeEvent = [h \in HasilId |-> 0]
    /\ req = [r \in Req |-> Idle]
    /\ cron = Idle

-----------------------------------------------------------------------------
(* Queries and rules the handlers share.                                   *)

Eligible(mode) == {q \in Soal : soal[q].ada /\ soal[q].mode \in {mode, "keduanya"}}
Of(s, mode) == {h \in HasilId : /\ hasil[h].status # "none"
                                /\ hasil[h].siswa = s /\ hasil[h].mode = mode}
Running(s, mode) == {h \in Of(s, mode) : hasil[h].status = "berlangsung"}
Counted(s) == {h \in Of(s, "ulangan") : hasil[h].status # "dibatalkan"}

\* Mutant: no advisory lock.
StartUnlocked(s) == FALSE
StartLocked(s) == \E r \in Req : req[r].op = "ulanganInsert" /\ req[r].siswa = s
SubmitLocked(h) ==
    \/ \E r \in Req : req[r].op = "submitGrade" /\ req[r].h = h
    \/ cron.op = "grade" /\ cron.h = h

\* INSERT of an attempt under the next id (none is left: a bound of the model).
Insert(row) ==
    LET free == {h \in HasilId : hasil[h].status = "none"}
    IN  \/ free = {} /\ UNCHANGED hasil
        \/ \E h \in free : /\ \A k \in free : h <= k
                          /\ hasil' = [hasil EXCEPT ![h] = row]

\* gradeAttemptInTx: a question that is gone scores as wrong; the points add
\* up (the size of a disjoint union); verdicts are written by row id.
GradeRow(q, row) ==
    LET right == soal[q].ada /\ row.jawaban = soal[q].kunci
    IN  [row EXCEPT !.isBenar = IF right THEN "ya" ELSE "tidak",
                    !.poin = IF right THEN soal[q].poin ELSE 0]
Grade(rows) ==
    [q \in Soal |-> IF rows[q].jawaban = "-" THEN NoJawaban ELSE GradeRow(q, rows[q])]
Nilai(rows) == Cardinality({p \in Soal \X (1..MaxPoin) : p[2] <= rows[p[1]].poin})
Benar(rows) == Cardinality({q \in Soal : rows[q].isBenar = "ya"})

Finalise(h, graded, at) ==
    /\ hasil' = [hasil EXCEPT ![h].status = "selesai", ![h].selesai = at,
                              ![h].nilai = Nilai(graded), ![h].benar = Benar(graded),
                              ![h].total = Cardinality(hasil[h].pool)]
    /\ jawaban' = [jawaban EXCEPT ![h] = [q \in Soal |->
          IF graded[q].jawaban = "-" THEN jawaban[h][q]
          ELSE [jawaban[h][q] EXCEPT !.isBenar = graded[q].isBenar,
                                     !.poin = graded[q].poin]]]
    /\ gradeEvent' = [gradeEvent EXCEPT ![h] = @ + 1]

\* What goroutine r does next.
Become(r, x) == req' = [req EXCEPT ![r] = x]

-----------------------------------------------------------------------------
(* UlanganService.Start                                                    *)

UlanganFind(r, s) ==
    /\ req[r] = Idle
    /\ setting.ada
    /\ Become(r, [op |-> "ulanganWait", siswa |-> s, set |-> setting.isi])
    /\ UNCHANGED <<now, fault, teacherVars, attemptVars, cron>>

\* Under the lock: resume a running attempt, refuse when the limit is spent or
\* the pool has shrunk below jumlah_soal, or draw and go on to insert.
UlanganLock(r) ==
    /\ req[r].op = "ulanganWait"
    /\ ~StartLocked(req[r].siswa)
    /\ LET s == req[r].siswa
           set == req[r].set
           n == Cardinality(Counted(s))
           pool == Eligible("ulangan")
           refused == \/ Running(s, "ulangan") # {}
                      \/ ~set.unlimited /\ n >= set.batas
                      \/ Cardinality(pool) < set.jumlah
                      \/ now + set.durasi > MaxTime   \* a bound of the model
       IN  \/ refused /\ Become(r, Idle)
           \/ /\ ~refused
              /\ \E d \in SUBSET pool :
                    /\ Cardinality(d) = set.jumlah
                    /\ Become(r, [op |-> "ulanganInsert", siswa |-> s, set |-> set,
                                  n |-> n, pool |-> d, t |-> now])
    /\ UNCHANGED <<now, fault, teacherVars, attemptVars, cron>>

UlanganInsert(r) ==
    /\ req[r].op = "ulanganInsert"
    /\ Insert([NoHasil EXCEPT
                 !.status = "berlangsung", !.siswa = req[r].siswa,
                 !.mode = "ulangan", !.pool = req[r].pool, !.mulai = req[r].t,
                 !.deadline = req[r].t + req[r].set.durasi,
                 !.attemptNo = req[r].n + 1])
    /\ Become(r, Idle)
    /\ UNCHANGED <<now, fault, teacherVars, jawaban, gradeEvent, cron>>

-----------------------------------------------------------------------------
(* LatihanService.Start: no transaction, no lock.                          *)

LatihanFind(r, s) ==
    /\ req[r] = Idle
    /\ Running(s, "latihan") = {}
    /\ Become(r, [op |-> "latihanFound", siswa |-> s])
    /\ UNCHANGED <<now, fault, teacherVars, attemptVars, cron>>

LatihanPool(r) ==
    /\ req[r].op = "latihanFound"
    /\ Become(r, IF Eligible("latihan") = {} THEN Idle
                 ELSE [op |-> "latihanInsert", siswa |-> req[r].siswa,
                       pool |-> Eligible("latihan")])
    /\ UNCHANGED <<now, fault, teacherVars, attemptVars, cron>>

LatihanInsert(r) ==
    /\ req[r].op = "latihanInsert"
    /\ Insert([NoHasil EXCEPT
                 !.status = "berlangsung", !.siswa = req[r].siswa,
                 !.pool = req[r].pool, !.mulai = now, !.attemptNo = 1])
    /\ Become(r, Idle)
    /\ UNCHANGED <<now, fault, teacherVars, jawaban, gradeEvent, cron>>

-----------------------------------------------------------------------------
(* Answers.  Both services check a row read without a lock; a latihan      *)
(* answer is graded at once with a key read in between.                    *)

\* Mutant: a ulangan answer takes the latihan path, which reveals its verdict.
AnswerFindAnyMode(r, h, q, a) ==
    /\ req[r] = Idle
    /\ hasil[h].status = "berlangsung"
    /\ q \in hasil[h].pool
    /\ Become(r, [op |-> "latihanKey", h |-> h, soal |-> q, jawaban |-> a])
    /\ UNCHANGED <<now, fault, teacherVars, attemptVars, cron>>
AnswerFind(r, h, q, a) ==
    /\ req[r] = Idle
    /\ hasil[h].status = "berlangsung"
    /\ q \in hasil[h].pool
    /\ \/ /\ hasil[h].mode = "ulangan"
          /\ now < hasil[h].deadline
          /\ Become(r, [op |-> "save", h |-> h, soal |-> q,
                        row |-> [NoJawaban EXCEPT !.jawaban = a]])
       \/ /\ hasil[h].mode = "latihan"
          /\ Become(r, [op |-> "latihanKey", h |-> h, soal |-> q, jawaban |-> a])
    /\ UNCHANGED <<now, fault, teacherVars, attemptVars, cron>>

LatihanKey(r) ==
    /\ req[r].op = "latihanKey"
    /\ LET q == req[r].soal
       IN  Become(r, IF ~soal[q].ada THEN Idle
                     ELSE [op |-> "save", h |-> req[r].h, soal |-> q,
                           row |-> GradeRow(q, [NoJawaban EXCEPT !.jawaban = req[r].jawaban])])
    /\ UNCHANGED <<now, fault, teacherVars, attemptVars, cron>>

\* The upsert fails when the question its foreign key needs is gone.
AnswerSave(r) ==
    /\ req[r].op = "save"
    /\ jawaban' = IF soal[req[r].soal].ada
                    THEN [jawaban EXCEPT ![req[r].h][req[r].soal] = req[r].row]
                    ELSE jawaban
    /\ Become(r, Idle)
    /\ UNCHANGED <<now, fault, teacherVars, hasil, gradeEvent, cron>>

\* LatihanService.Finish; on a finished attempt it only reads.
FinishFind(r, h) ==
    /\ req[r] = Idle
    /\ hasil[h].status = "berlangsung" /\ hasil[h].mode = "latihan"
    /\ Become(r, [op |-> "finish", h |-> h])
    /\ UNCHANGED <<now, fault, teacherVars, attemptVars, cron>>

FinishUpdate(r) ==
    /\ req[r].op = "finish"
    /\ hasil' = [hasil EXCEPT ![req[r].h].status = "selesai",
                              ![req[r].h].selesai = now]
    /\ Become(r, Idle)
    /\ UNCHANGED <<now, fault, teacherVars, jawaban, gradeEvent, cron>>

-----------------------------------------------------------------------------
(* UlanganService.Submit                                                   *)

HasGrade(h) == hasil[h].status = "selesai" /\ hasil[h].nilai # NULL

SubmitFind(r, h) ==
    /\ req[r] = Idle
    /\ hasil[h].mode = "ulangan"
    /\ hasil[h].status \notin {"none", "dibatalkan"} /\ ~HasGrade(h)
    /\ now <= hasil[h].deadline + Grace
    /\ Become(r, [op |-> "submitWait", h |-> h])
    /\ UNCHANGED <<now, fault, teacherVars, attemptVars, cron>>

\* Mutant: the row is not read again under the lock.
SubmitLockBlind(r) ==
    /\ req[r].op = "submitWait"
    /\ ~SubmitLocked(req[r].h)
    /\ Become(r, [op |-> "submitGrade", h |-> req[r].h,
                  graded |-> Grade(jawaban[req[r].h])])
    /\ UNCHANGED <<now, fault, teacherVars, attemptVars, cron>>
SubmitLock(r) ==
    /\ req[r].op = "submitWait"
    /\ LET h == req[r].h
       IN  /\ ~SubmitLocked(h)
           /\ Become(r, IF hasil[h].status = "dibatalkan" \/ HasGrade(h) THEN Idle
                        ELSE [op |-> "submitGrade", h |-> h,
                              graded |-> Grade(jawaban[h])])
    /\ UNCHANGED <<now, fault, teacherVars, attemptVars, cron>>

\* The UPDATE fails, and its transaction, when nilai_total does not fit.
SubmitCommit(r) ==
    /\ req[r].op = "submitGrade"
    /\ IF Nilai(req[r].graded) <= MaxNilai
         THEN Finalise(req[r].h, req[r].graded, now)
         ELSE UNCHANGED attemptVars
    /\ Become(r, Idle)
    /\ UNCHANGED <<now, fault, teacherVars, cron>>

-----------------------------------------------------------------------------
(* HasilService.Cancel: a read, then an UPDATE by id, under no lock.       *)

CancelFind(r, h) ==
    /\ req[r] = Idle
    /\ hasil[h].mode = "ulangan" /\ hasil[h].status \notin {"none", "dibatalkan"}
    /\ Become(r, [op |-> "cancel", h |-> h])
    /\ UNCHANGED <<now, fault, teacherVars, attemptVars, cron>>

CancelUpdate(r) ==
    /\ req[r].op = "cancel"
    /\ hasil' = [hasil EXCEPT ![req[r].h].status = "dibatalkan",
                              ![req[r].h].selesai = now]
    /\ Become(r, Idle)
    /\ UNCHANGED <<now, fault, teacherVars, jawaban, gradeEvent, cron>>

-----------------------------------------------------------------------------
(* TimerCron: the ulangan of every bab, earliest deadline first.           *)

\* Mutant: the scan drops the status, so graded rows fill the batches.
ExpiredAny == {h \in HasilId : /\ hasil[h].status # "none"
                               /\ hasil[h].mode = "ulangan"
                               /\ hasil[h].deadline <= now}
Expired == {h \in HasilId : /\ hasil[h].status = "berlangsung"
                            /\ hasil[h].mode = "ulangan"
                            /\ hasil[h].deadline <= now}
Batches(S) ==
    {b \in SUBSET S :
        /\ Cardinality(b) = IF Cardinality(S) <= Batch THEN Cardinality(S) ELSE Batch
        /\ \A h \in b, k \in S \ b : hasil[h].deadline <= hasil[k].deadline}

CronScan ==
    /\ cron = Idle
    /\ Expired # {}
    /\ \E b \in Batches(Expired) : cron' = [op |-> "sweep", todo |-> b]
    /\ UNCHANGED <<now, fault, teacherVars, attemptVars, req>>

Sweep(todo) == IF todo = {} THEN Idle ELSE [op |-> "sweep", todo |-> todo]

CronLock ==
    /\ cron.op = "sweep"
    /\ \E h \in cron.todo :
        /\ \A k \in cron.todo : hasil[h].deadline <= hasil[k].deadline
        /\ ~SubmitLocked(h)
        /\ cron' = IF hasil[h].status # "berlangsung"
                     THEN Sweep(cron.todo \ {h})
                     ELSE [op |-> "grade", todo |-> cron.todo \ {h}, h |-> h,
                           graded |-> Grade(jawaban[h])]
    /\ UNCHANGED <<now, fault, teacherVars, attemptVars, req>>

CronCommit ==
    /\ cron.op = "grade"
    /\ IF Nilai(cron.graded) <= MaxNilai
         THEN Finalise(cron.h, cron.graded, hasil[cron.h].deadline)
         ELSE UNCHANGED attemptVars
    /\ cron' = Sweep(cron.todo)
    /\ UNCHANGED <<now, fault, teacherVars, req>>

-----------------------------------------------------------------------------
(* SettingService.Upsert: the pool is counted, the row is read, and the    *)
(* row is written in a transaction that compares versions.                 *)

SettingCount(r, x) ==
    /\ req[r] = Idle
    /\ x.jumlah <= Cardinality(Eligible("ulangan"))
    /\ setting.version < MaxVersion   \* a bound of the model
    /\ Become(r, [op |-> "settingFind", new |-> x])
    /\ UNCHANGED <<now, fault, teacherVars, attemptVars, cron>>

\* A client whose version is not the row's is refused here.
SettingFind(r) ==
    /\ req[r].op = "settingFind"
    /\ Become(r, [op |-> "settingTx", new |-> req[r].new,
                  expected |-> IF setting.ada THEN setting.version ELSE 0])
    /\ UNCHANGED <<now, fault, teacherVars, attemptVars, cron>>

\* Mutant: no compare-and-swap.
SettingTxBlind(r) ==
    /\ req[r].op = "settingTx"
    /\ setting' = [ada |-> TRUE, version |-> setting.version + 1, isi |-> req[r].new]
    /\ Become(r, Idle)
    /\ UNCHANGED <<now, fault, soal, attemptVars, cron>>
\* The INSERT goes through GORM's Create, which leaves a column that has a
\* default and a zero value to the default: review FALSE becomes TRUE.
SettingTx(r) ==
    /\ req[r].op = "settingTx"
    /\ LET q == req[r]
       IN  setting' =
             IF ~setting.ada
               THEN [ada |-> TRUE, version |-> 1,
                     isi |-> [q.new EXCEPT !.review = TRUE]]
             ELSE IF q.expected > 0 /\ q.expected = setting.version
               THEN [ada |-> TRUE, version |-> setting.version + 1, isi |-> q.new]
             ELSE setting
    /\ Become(r, Idle)
    /\ UNCHANGED <<now, fault, soal, attemptVars, cron>>

-----------------------------------------------------------------------------
(* Question rows: Create and BulkCreate, Update, Delete.                   *)

\* A batch of new questions is inserted in one transaction.
SoalCreate(S, x) ==
    /\ S # {} /\ \A q \in S : soal[q].version = 0
    /\ soal' = [q \in Soal |-> IF q \in S THEN x ELSE soal[q]]
    /\ UNCHANGED <<now, fault, setting, attemptVars, req, cron>>

SoalFind(r, q, e) ==
    /\ req[r] = Idle
    /\ soal[q].ada /\ soal[q].version < MaxVersion
    /\ Become(r, [op |-> "soalCas", soal |-> q, edit |-> e,
                  version |-> soal[q].version])
    /\ UNCHANGED <<now, fault, teacherVars, attemptVars, cron>>

SoalCas(r) ==
    /\ req[r].op = "soalCas"
    /\ LET q == req[r].soal
           e == req[r].edit
       IN  soal' = IF ~soal[q].ada \/ soal[q].version # req[r].version THEN soal
                   ELSE [soal EXCEPT ![q] = [f \in DOMAIN @ |->
                           IF f = "version" THEN @.version + 1
                           ELSE IF f \in DOMAIN e THEN e[f] ELSE @[f]]]
    /\ Become(r, Idle)
    /\ UNCHANGED <<now, fault, setting, attemptVars, cron>>

\* Mutant: the rows of jawaban_bab do not keep their question.
SoalDeleteUnkeyed(q) ==
    /\ soal[q].ada
    /\ soal' = [soal EXCEPT ![q].ada = FALSE]
    /\ UNCHANGED <<now, fault, setting, attemptVars, req, cron>>
\* A hard delete, refused by the foreign key of an answer (ON DELETE RESTRICT).
SoalDelete(q) ==
    /\ soal[q].ada
    /\ \A h \in HasilId : jawaban[h][q].jawaban = "-"
    /\ soal' = [soal EXCEPT ![q].ada = FALSE]
    /\ UNCHANGED <<now, fault, setting, attemptVars, req, cron>>

-----------------------------------------------------------------------------
(* The environment                                                         *)

Tick ==
    /\ now < MaxTime
    /\ now' = now + 1
    /\ UNCHANGED <<fault, teacherVars, attemptVars, req, cron>>

\* A statement fails or the connection is cut; the transaction is rolled back.
ReqFail(r) ==
    /\ fault > 0 /\ req[r] # Idle
    /\ fault' = fault - 1
    /\ Become(r, Idle)
    /\ UNCHANGED <<now, teacherVars, attemptVars, cron>>

CronFail ==
    /\ fault > 0 /\ cron.op = "grade"
    /\ fault' = fault - 1
    /\ cron' = Sweep(cron.todo)
    /\ UNCHANGED <<now, teacherVars, attemptVars, req>>

\* The server dies and restarts; the cron starts over with a sweep.
Crash ==
    /\ fault > 0
    /\ fault' = fault - 1
    /\ req' = [r \in Req |-> Idle] /\ cron' = Idle
    /\ UNCHANGED <<now, teacherVars, attemptVars>>

CronStep == CronScan \/ CronLock \/ CronCommit
StudentAction(r) ==
    \/ \E s \in Siswa : UlanganFind(r, s) \/ LatihanFind(r, s)
    \/ UlanganLock(r) \/ UlanganInsert(r) \/ LatihanPool(r) \/ LatihanInsert(r)
    \/ \E h \in HasilId, q \in Soal, a \in Jawab : AnswerFind(r, h, q, a)
    \/ LatihanKey(r) \/ AnswerSave(r)
    \/ \E h \in HasilId : FinishFind(r, h) \/ SubmitFind(r, h)
    \/ FinishUpdate(r) \/ SubmitLock(r) \/ SubmitCommit(r)
TeacherAction(r) ==
    \/ \E h \in HasilId : CancelFind(r, h)
    \/ CancelUpdate(r)
    \/ \E x \in Settings : SettingCount(r, x)
    \/ SettingFind(r) \/ SettingTx(r)
    \/ \E q \in Editable, e \in Edits : SoalFind(r, q, e)
    \/ SoalCas(r)
Step ==
    \/ \E r \in Req : StudentAction(r) \/ TeacherAction(r) \/ ReqFail(r)
    \/ \E S \in SUBSET Editable, x \in SoalBaru : SoalCreate(S, x)
    \/ \E q \in Editable : SoalDelete(q)
    \/ CronStep \/ CronFail \/ Tick
Next == Step \/ Crash
Spec == Init /\ [][Next]_vars

\* Goroutines run, the clock and the cron's ticker go on, and PostgreSQL
\* grants an advisory lock in queue order.
Fairness ==
    /\ WF_vars(Tick) /\ WF_vars(CronStep)
    /\ \A r \in Req : /\ WF_vars(UlanganInsert(r) \/ SubmitCommit(r))
                      /\ SF_vars(UlanganLock(r)) /\ SF_vars(SubmitLock(r))
FairSpec == Spec /\ Fairness

-----------------------------------------------------------------------------
(* Properties                                                              *)

\* Every table and every goroutine holds what the code's types allow.
TypeOK ==
    /\ now \in Nat /\ fault \in Nat
    /\ setting \in SettingRow /\ soal \in [Soal -> SoalRow]
    /\ hasil \in [HasilId -> HasilRow]
    /\ jawaban \in [HasilId -> [Soal -> JawabanRow]]
    /\ gradeEvent \in [HasilId -> Nat]
    /\ req \in [Req -> ReqState] /\ cron \in CronState

\* A student has at most one ulangan that is running or about to be inserted:
\* hasil_soal_bab has no unique index, so this rests on the (bab, siswa) lock of
\* Start alone; a Start that holds it has room within the limit it has read.
OneRunningUlangan ==
    \A s \in Siswa :
        LET starts == {r \in Req : req[r].op = "ulanganInsert" /\ req[r].siswa = s}
        IN  /\ Cardinality(Running(s, "ulangan")) + Cardinality(starts) <= 1
            /\ \A r \in starts : req[r].set.unlimited \/ req[r].n < req[r].set.batas

\* A recorded grade goes with exactly one grading event and covers every point
\* and correct verdict stored in jawaban_bab, late answers included.
GradeCoversAnswers ==
    \A h \in HasilId :
        /\ gradeEvent[h] = IF hasil[h].nilai = NULL THEN 0 ELSE 1
        /\ hasil[h].nilai # NULL => /\ Nilai(jawaban[h]) <= hasil[h].nilai
                                    /\ Benar(jawaban[h]) <= hasil[h].benar

\* A student who is still working on a ulangan cannot learn from its answers
\* which are right: no row of a running ulangan carries a verdict or a point.
VerdictHiddenWhileRunning ==
    \A h \in HasilId :
        hasil[h].mode = "ulangan" /\ hasil[h].status = "berlangsung" =>
            \A q \in Soal : jawaban[h][q].isBenar = "null" /\ jawaban[h][q].poin = 0

\* No answer outlives its question: whatever a delete meets between an answer's
\* check and its upsert, a grader finds every answered question.
AnsweredQuestionKept ==
    \A h \in HasilId, q \in Soal : jawaban[h][q].jawaban # "-" => soal[q].ada

\* Of two teachers' saves that read the same version of the setting at most one
\* is stored: who saw version v can only write v + 1, and who saw none only 1.
SettingNotOverwritten ==
    [][\A r \in Req :
          req[r].op = "settingTx" /\ setting' # setting /\ req'[r] = Idle =>
              req[r].expected = setting.version]_vars

\* The timer cron's promise for ulangan.
UlanganGetsGraded ==
    \A h \in HasilId :
        hasil[h].status = "berlangsung" /\ hasil[h].mode = "ulangan" ~>
            hasil[h].status # "berlangsung"

\* What the comments say and the code does not keep.

\* setting.go: the setting the teacher asked for is the one that is stored.
SettingStoredAsAsked ==
    [][\A r \in Req : req[r].op = "settingTx" /\ setting' # setting /\ req'[r] = Idle =>
          setting'.isi = req[r].new]_vars

-----------------------------------------------------------------------------
(* The inductive invariant of the proofs.                                  *)

\* What a row of hasil_soal_bab can look like: only a ulangan has a grade, a
\* finished one always, a running one never, and a grade has one event.
RowInv ==
    \A h \in HasilId :
        LET row == hasil[h]
        IN  /\ row.status = "none" => row.mode = "latihan"
            /\ row.mode = "latihan" => row.nilai = NULL
            /\ row.mode = "ulangan" /\ row.status = "selesai" => row.nilai # NULL
            /\ row.mode = "ulangan" /\ row.status = "berlangsung" => row.nilai = NULL
            /\ gradeEvent[h] = IF row.nilai = NULL THEN 0 ELSE 1

\* Whoever works on an attempt works on one of the kind its check has seen, and
\* an answer on its way to a ulangan carries no verdict.
WorkInv ==
    /\ \A r \in Req :
        /\ req[r].op \in {"submitWait", "submitGrade", "cancel"} =>
              hasil[req[r].h].mode = "ulangan"
        /\ req[r].op \in {"latihanKey", "save", "finish"} =>
              hasil[req[r].h].status # "none"
        /\ req[r].op \in {"latihanKey", "finish"} => hasil[req[r].h].mode = "latihan"
        /\ req[r].op = "save" /\ hasil[req[r].h].mode = "ulangan" =>
              req[r].row.isBenar = "null" /\ req[r].row.poin = 0
    /\ cron.op \in {"sweep", "grade"} => \A h \in cron.todo : hasil[h].mode = "ulangan"
    /\ cron.op = "grade" => hasil[cron.h].mode = "ulangan"

\* Between its lock and its commit a grader is alone with an attempt that has no grade.
Grades(r, h) == req[r].op = "submitGrade" /\ req[r].h = h
Sweeps(h) == cron.op = "grade" /\ cron.h = h
GraderInv ==
    \A h \in HasilId :
        /\ SubmitLocked(h) => hasil[h].nilai = NULL
        /\ \A r \in Req : Grades(r, h) =>
              ~Sweeps(h) /\ (\A p \in Req : Grades(p, h) => p = r)

\* A Start that goes on to insert is alone for a student who has nothing running,
\* and has room within the limit it read.
Starts(r, s) == req[r].op = "ulanganInsert" /\ req[r].siswa = s
StarterInv ==
    \A s \in Siswa :
        /\ \A h, k \in Running(s, "ulangan") : h = k
        /\ \A r \in Req : Starts(r, s) =>
              /\ Running(s, "ulangan") = {}
              /\ req[r].set.unlimited \/ req[r].n < req[r].set.batas
              /\ \A p \in Req : Starts(p, s) => p = r

\* Before the grade a ulangan's answers carry no verdict, after it none beyond it.
Unmarked(h) == \A q \in Soal : jawaban[h][q].isBenar = "null" /\ jawaban[h][q].poin = 0
AnswerInv ==
    \A h \in HasilId :
        /\ hasil[h].status = "none" => Unmarked(h)
        /\ hasil[h].mode = "ulangan" /\ hasil[h].nilai = NULL => Unmarked(h)
        /\ hasil[h].nilai # NULL => /\ Nilai(jawaban[h]) <= hasil[h].nilai
                                    /\ Benar(jawaban[h]) <= hasil[h].benar

\* Nobody expects a version of a setting that has not been stored.
SettingInv ==
    ~setting.ada => /\ setting.version = 0
                    /\ \A r \in Req : req[r].op = "settingTx" => req[r].expected = 0

IndInv ==
    /\ TypeOK /\ RowInv /\ WorkInv /\ GraderInv /\ StarterInv /\ AnswerInv
    /\ AnsweredQuestionKept /\ SettingInv

-----------------------------------------------------------------------------
(* The ulangan attempts as AttemptLife sees them.                          *)

PhaseOf(row) ==
    IF row.status = "none" \/ row.mode = "latihan" THEN "none"
    ELSE IF row.status = "berlangsung" THEN "running" ELSE "closed"
LifeOwner == [h \in HasilId |-> IF hasil[h].mode = "ulangan" THEN hasil[h].siswa
                               ELSE NoHasil.siswa]
LifePhase == [h \in HasilId |-> PhaseOf(hasil[h])]
LifeGrade == [h \in HasilId |-> hasil[h].nilai]
Life == INSTANCE AttemptLife
    WITH owner <- LifeOwner, phase <- LifePhase, grade <- LifeGrade

\* The ulangan of a bab live as AttemptLife says: start, submit, the cron and
\* cancel open one at a time, never reopen one and grade it once, while the
\* teacher saves the setting they read.  A latihan is none of its attempts.
ImplementsLife == Life!Spec
=============================================================================
