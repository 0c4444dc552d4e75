------------------------ MODULE UjianAttempt_proofs ------------------------
(***************************************************************************)
(* Proofs about UjianAttempt for every number of students, questions,      *)
(* attempts and requests, every batch size and every bound: the types, the *)
(* inductive invariant IndInv part by part, the properties that follow     *)
(* from it, and that every step is a step of an attempt's life             *)
(* (AttemptLife), or no step.                                              *)
(***************************************************************************)
EXTENDS UjianAttempt, FiniteSetTheorems, TLAPS

-----------------------------------------------------------------------------
(* What the helpers return                                                 *)

\* Counting points and verdicts yields a number: there are finitely many
\* questions, each worth at most MaxPoin.
LEMMA CountsAreNat ==
    ASSUME NEW rows \in [Soal -> JawabanRow]
    PROVE  Nilai(rows) \in Nat /\ Benar(rows) \in Nat
<1>1. IsFiniteSet(Soal \X (1..MaxPoin))
  <2>1. IsFiniteSet(1..MaxPoin)
    BY BoundsAreNat, FS_Interval
  <2> QED BY <2>1, SetsFinite, FS_Product
<1>2. IsFiniteSet({p \in Soal \X (1..MaxPoin) : p[2] <= rows[p[1]].poin})
  BY <1>1, FS_Subset
<1>3. IsFiniteSet({q \in Soal : rows[q].isBenar = "ya"})
  BY SetsFinite, FS_Subset
<1> QED BY <1>2, <1>3, FS_CardinalityType DEF Nilai, Benar

\* Grading answer rows yields answer rows.
LEMMA GradeType ==
    ASSUME NEW rows \in [Soal -> JawabanRow], bank \in [Soal -> SoalRow]
    PROVE  Grade(rows) \in [Soal -> JawabanRow]
<1> SUFFICES ASSUME NEW q \in Soal
             PROVE  Grade(rows)[q] \in JawabanRow
  BY DEF Grade
<1>1. NoJawaban \in JawabanRow
  BY BoundsAreNat DEF NoJawaban, JawabanRow
<1>2. GradeRow(q, rows[q]) \in JawabanRow
  <2>1. /\ bank[q].poin \in 0..MaxPoin
        /\ rows[q] \in JawabanRow
    BY DEF SoalRow
  <2> DEFINE right == ~bank[q].deleted /\ rows[q].jawaban = bank[q].kunci
             b == IF right THEN "ya" ELSE "tidak"
             p == IF right THEN bank[q].poin ELSE 0
  <2>2. b \in {"null", "ya", "tidak"} /\ p \in 0..MaxPoin
    BY <2>1, BoundsAreNat
  <2>3. GradeRow(q, rows[q]) = [rows[q] EXCEPT !.isBenar = b, !.poin = p]
    BY DEF GradeRow
  <2> HIDE DEF b, p
  <2> QED BY <2>1, <2>2, <2>3 DEF JawabanRow
<1> QED BY <1>1, <1>2 DEF Grade

\* The live attempts of a student are counted by a number.
LEMMA LiveIsFinite ==
    ASSUME NEW s
    PROVE  IsFiniteSet(Live(s)) /\ Cardinality(Live(s)) \in Nat
BY SetsFinite, FS_Subset, FS_CardinalityType DEF Live

\* The duration a Start reads is a number, a susulan override with a null
\* durasi_menit falling back to the exam's.
LEMMA DurasiType ==
    ASSUME NEW u \in UjianRow, NEW o \in OverrideRow
    PROVE  Durasi(u, o) \in Nat
BY DEF Durasi, UjianRow, OverrideRow, Waktu

\* What may be drawn are questions of the bank.
LEMMA DrawsType ==
    ASSUME NEW u \in UjianRow, ujianSoal \subseteq Soal, NEW d \in Draws(u)
    PROVE  d \subseteq Soal
<1>1. Pool(u) \subseteq Soal
  BY DEF Pool, UjianRow
<1> QED BY <1>1 DEF Draws

-----------------------------------------------------------------------------
(* Type correctness                                                        *)

\* The initial database and the idle goroutines are well typed.
LEMMA TypeInit == Init => TypeOK
<1> SUFFICES ASSUME Init PROVE TypeOK
  OBVIOUS
<1> USE DEF Init
<1>1. now \in Nat /\ fault \in Nat
  BY BoundsAreNat
<1>2. /\ ujian \in UjianRow /\ ujianSoal \subseteq Soal
      /\ override \in [Siswa -> OverrideRow] /\ bank \in [Soal -> SoalRow]
  BY InitialRows DEF UjianRow
<1>3. hasil \in [HasilId -> HasilRow]
  <2>1. NoHasil.siswa \in Siswa
    BY SetsFinite DEF NoHasil
  <2>2. NoHasil \in HasilRow
    BY <2>1 DEF NoHasil, HasilRow, Waktu
  <2> QED BY <2>2
<1>4. jawaban \in [HasilId -> [Soal -> JawabanRow]]
  <2>1. NoJawaban \in JawabanRow
    BY BoundsAreNat DEF NoJawaban, JawabanRow
  <2> QED BY <2>1
<1>5. gradeEvent \in [HasilId -> Nat]
  OBVIOUS
<1>6. req \in [Req -> ReqState] /\ cron \in CronState
  <2>1. Idle \in ReqState /\ Idle \in CronState
    BY DEF ReqState, CronState
  <2> QED BY <2>1
<1> QED BY <1>1, <1>2, <1>3, <1>4, <1>5, <1>6 DEF TypeOK

\* The fields a request has follow from what it is doing.
LEMMA ReqFields ==
    ASSUME TypeOK, NEW r \in Req
    PROVE  /\ req[r].op = "startFound" =>
                req[r].siswa \in Siswa /\ req[r].u \in UjianRow
           /\ req[r].op = "startWait" =>
                /\ req[r].siswa \in Siswa /\ req[r].u \in UjianRow
                /\ req[r].o \in OverrideRow /\ req[r].t \in Nat
           /\ req[r].op = "startInsert" =>
                /\ req[r].siswa \in Siswa /\ req[r].u \in UjianRow
                /\ req[r].o \in OverrideRow /\ req[r].t \in Nat
                /\ req[r].n \in Nat /\ req[r].pool \subseteq Soal
           /\ req[r].op = "save" =>
                /\ req[r].h \in HasilId /\ req[r].soal \in Soal
                /\ req[r].jawaban \in Jawab
           /\ req[r].op = "submitWait" => req[r].h \in HasilId
           /\ req[r].op = "submitGrade" =>
                /\ req[r].h \in HasilId
                /\ req[r].graded \in [Soal -> JawabanRow]
           /\ req[r].op = "cancel" => req[r].h \in HasilId
<1>1. req[r] \in ReqState
  BY DEF TypeOK
<1> QED BY <1>1 DEF ReqState, Idle

\* The same for the cron.
LEMMA CronFields ==
    ASSUME TypeOK
    PROVE  /\ cron.op = "sweep" => cron.todo \subseteq HasilId
           /\ cron.op = "grade" =>
                /\ cron.todo \subseteq HasilId /\ cron.h \in HasilId
                /\ cron.graded \in [Soal -> JawabanRow]
BY DEF TypeOK, CronState, Idle

\* What a request may be doing next.
LEMMA ReqStates ==
    /\ Idle \in ReqState
    /\ \A s \in Siswa, u \in UjianRow :
          [op |-> "startFound", siswa |-> s, u |-> u] \in ReqState
    /\ \A s \in Siswa, u \in UjianRow, o \in OverrideRow, t \in Nat :
          /\ [op |-> "startWait", siswa |-> s, u |-> u, o |-> o, t |-> t] \in ReqState
          /\ \A n \in Nat, d \in SUBSET Soal :
                [op |-> "startInsert", siswa |-> s, u |-> u, o |-> o, t |-> t,
                 n |-> n, pool |-> d] \in ReqState
    /\ \A h \in HasilId :
          /\ [op |-> "submitWait", h |-> h] \in ReqState
          /\ [op |-> "cancel", h |-> h] \in ReqState
          /\ \A g \in [Soal -> JawabanRow] :
                [op |-> "submitGrade", h |-> h, graded |-> g] \in ReqState
          /\ \A q \in Soal, a \in Jawab :
                [op |-> "save", h |-> h, soal |-> q, jawaban |-> a] \in ReqState
BY DEF ReqState

\* A sweep with rows left to do is a sweep, one without is over.
LEMMA SweepType ==
    ASSUME NEW todo \in SUBSET HasilId
    PROVE  Sweep(todo) \in CronState
BY DEF Sweep, CronState

\* A grading transaction writes well-typed rows.
LEMMA FinaliseType ==
    ASSUME TypeOK, NEW h \in HasilId, NEW graded \in [Soal -> JawabanRow],
           NEW at \in Nat, Finalise(h, graded, at)
    PROVE  /\ hasil' \in [HasilId -> HasilRow]
           /\ jawaban' \in [HasilId -> [Soal -> JawabanRow]]
           /\ gradeEvent' \in [HasilId -> Nat]
<1>1. gradeEvent' \in [HasilId -> Nat]
  BY DEF TypeOK, Finalise
<1>2. jawaban' \in [HasilId -> [Soal -> JawabanRow]]
  <2> DEFINE new == [q \in Soal |->
                IF graded[q].jawaban = "-" THEN jawaban[h][q]
                ELSE [jawaban[h][q] EXCEPT !.isBenar = graded[q].isBenar,
                                           !.poin = graded[q].poin]]
  <2>1. jawaban' = [jawaban EXCEPT ![h] = new]
    BY DEF Finalise, WriteVerdicts
  <2>2. new \in [Soal -> JawabanRow]
    <3> SUFFICES ASSUME NEW q \in Soal PROVE new[q] \in JawabanRow
      OBVIOUS
    <3>1. jawaban[h][q] \in JawabanRow /\ graded[q] \in JawabanRow
      BY DEF TypeOK
    <3> QED BY <3>1 DEF JawabanRow
  <2> QED BY <2>1, <2>2 DEF TypeOK
<1>3. hasil' \in [HasilId -> HasilRow]
  <2>1. Nilai(graded) \in Nat /\ Benar(graded) \in Nat
    BY CountsAreNat
  <2>2. hasil[h] \in HasilRow
    BY DEF TypeOK
  <2>3. Cardinality(hasil[h].pool) \in Nat
    BY <2>2, SetsFinite, FS_Subset, FS_CardinalityType DEF HasilRow
  <2> DEFINE row == [hasil[h] EXCEPT !.status = "selesai", !.selesai = at,
                       !.nilai = Nilai(graded), !.benar = Benar(graded),
                       !.total = Cardinality(hasil[h].pool)]
  <2>4. row \in HasilRow
    BY <2>1, <2>2, <2>3 DEF HasilRow, Waktu
  <2>5. hasil' = [hasil EXCEPT ![h] = row]
    BY DEF Finalise, TypeOK
  <2> QED BY <2>4, <2>5 DEF TypeOK
<1> QED BY <1>1, <1>2, <1>3

\* Every step keeps the types.
LEMMA TypeNext == TypeOK /\ [Next]_vars => TypeOK'
<1> SUFFICES ASSUME TypeOK, [Next]_vars PROVE TypeOK'
  OBVIOUS
<1> USE DEF examVars
<1>1. ASSUME NEW r \in Req, NEW s \in Siswa, StartFind(r, s) PROVE TypeOK'
  <2>1. [op |-> "startFound", siswa |-> s, u |-> ujian] \in ReqState
    BY ReqStates DEF TypeOK
  <2> QED BY <1>1, <2>1 DEF StartFind, TypeOK
<1>2. ASSUME NEW r \in Req, StartWindow(r) PROVE TypeOK'
  <2>1. req[r].siswa \in Siswa /\ req[r].u \in UjianRow
    BY <1>2, ReqFields DEF StartWindow
  <2>2. override[req[r].siswa] \in OverrideRow /\ now \in Nat
    BY <2>1 DEF TypeOK
  <2>3. [op |-> "startWait", siswa |-> req[r].siswa, u |-> req[r].u,
         o |-> override[req[r].siswa], t |-> now] \in ReqState
    BY <2>1, <2>2, ReqStates
  <2>4. req' \in [Req -> ReqState]
    BY <1>2, <2>3, ReqStates DEF StartWindow, TypeOK
  <2> QED BY <1>2, <2>4 DEF StartWindow, TypeOK
<1>3. ASSUME NEW r \in Req, StartLock(r) PROVE TypeOK'
  <2>1. /\ req[r].siswa \in Siswa /\ req[r].u \in UjianRow
        /\ req[r].o \in OverrideRow /\ req[r].t \in Nat
    BY <1>3, ReqFields DEF StartLock
  <2>2. Cardinality(Live(req[r].siswa)) \in Nat
    BY LiveIsFinite
  <2>3. \A d \in Draws(req[r].u) : d \subseteq Soal
    BY <2>1, DrawsType DEF TypeOK
  <2>4. \A d \in Draws(req[r].u) :
          [op |-> "startInsert", siswa |-> req[r].siswa, u |-> req[r].u,
           o |-> req[r].o, t |-> req[r].t,
           n |-> Cardinality(Live(req[r].siswa)), pool |-> d] \in ReqState
    BY <2>1, <2>2, <2>3, ReqStates
  <2>5. req' \in [Req -> ReqState]
    BY <1>3, <2>4, ReqStates DEF StartLock, TypeOK
  <2> QED BY <1>3, <2>5 DEF StartLock, TypeOK
<1>4. ASSUME NEW r \in Req, StartInsert(r) PROVE TypeOK'
  <2>1. /\ req[r].siswa \in Siswa /\ req[r].n \in Nat /\ req[r].t \in Nat
        /\ req[r].pool \subseteq Soal
        /\ req[r].u \in UjianRow /\ req[r].o \in OverrideRow
    BY <1>4, ReqFields DEF StartInsert
  <2>2. Durasi(req[r].u, req[r].o) \in Nat
    BY <2>1, DurasiType
  <2> DEFINE row == [status |-> "berlangsung", siswa |-> req[r].siswa,
                     pool |-> req[r].pool, mulai |-> req[r].t,
                     deadline |-> req[r].t + Durasi(req[r].u, req[r].o),
                     selesai |-> NULL, nilai |-> NULL, benar |-> NULL,
                     total |-> NULL, attemptNo |-> req[r].n + 1,
                     deleted |-> FALSE]
  <2>3. row \in HasilRow
    BY <2>1, <2>2 DEF HasilRow, Waktu
  <2>4. hasil' = hasil \/ \E h \in HasilId : hasil' = [hasil EXCEPT ![h] = row]
    BY <1>4 DEF StartInsert
  <2> HIDE DEF row
  <2>5. hasil' \in [HasilId -> HasilRow]
    BY <2>3, <2>4 DEF TypeOK
  <2>6. req' \in [Req -> ReqState]
    BY <1>4, ReqStates DEF StartInsert, TypeOK
  <2> QED BY <1>4, <2>5, <2>6 DEF StartInsert, TypeOK
<1>5. ASSUME NEW r \in Req, NEW h \in HasilId, NEW q \in Soal, NEW a \in Jawab,
             SaveCheck(r, h, q, a)
      PROVE  TypeOK'
  <2>1. [op |-> "save", h |-> h, soal |-> q, jawaban |-> a] \in ReqState
    BY ReqStates
  <2> QED BY <1>5, <2>1 DEF SaveCheck, TypeOK
<1>6. ASSUME NEW r \in Req, SaveUpsert(r) PROVE TypeOK'
  <2>1. /\ req[r].h \in HasilId /\ req[r].soal \in Soal
        /\ req[r].jawaban \in Jawab
    BY <1>6, ReqFields DEF SaveUpsert
  <2>2. [jawaban |-> req[r].jawaban, isBenar |-> "null", poin |-> 0] \in JawabanRow
    BY <2>1, BoundsAreNat DEF JawabanRow
  <2>3. jawaban' \in [HasilId -> [Soal -> JawabanRow]]
    BY <1>6, <2>1, <2>2 DEF SaveUpsert, TypeOK
  <2> QED BY <1>6, <2>3, ReqStates DEF SaveUpsert, TypeOK
<1>7. ASSUME NEW r \in Req, NEW h \in HasilId, SubmitFind(r, h) PROVE TypeOK'
  BY <1>7, ReqStates DEF SubmitFind, TypeOK
<1>8. ASSUME NEW r \in Req, SubmitLock(r) PROVE TypeOK'
  <2>1. req[r].h \in HasilId
    BY <1>8, ReqFields DEF SubmitLock
  <2>2. Grade(jawaban[req[r].h]) \in [Soal -> JawabanRow]
    BY <2>1, GradeType DEF TypeOK
  <2>3. req' \in [Req -> ReqState]
    BY <1>8, <2>1, <2>2, ReqStates DEF SubmitLock, TypeOK
  <2> QED BY <1>8, <2>3 DEF SubmitLock, TypeOK
<1>9. ASSUME NEW r \in Req, SubmitCommit(r) PROVE TypeOK'
  <2>1. req[r].h \in HasilId /\ req[r].graded \in [Soal -> JawabanRow] /\ now \in Nat
    BY <1>9, ReqFields DEF SubmitCommit, TypeOK
  <2>2. Finalise(req[r].h, req[r].graded, now)
    BY <1>9 DEF SubmitCommit
  <2>3. /\ hasil' \in [HasilId -> HasilRow]
        /\ jawaban' \in [HasilId -> [Soal -> JawabanRow]]
        /\ gradeEvent' \in [HasilId -> Nat]
    BY <2>1, <2>2, FinaliseType
  <2> QED BY <1>9, <2>3, ReqStates DEF SubmitCommit, TypeOK
<1>10. ASSUME NEW r \in Req, SubmitOverflow(r) \/ ReqFail(r) PROVE TypeOK'
  <2>1. req' = [req EXCEPT ![r] = Idle] /\ fault' \in Nat
    BY <1>10 DEF SubmitOverflow, ReqFail, TypeOK
  <2>2. UNCHANGED <<now, ujian, ujianSoal, override, bank, hasil, jawaban,
                    gradeEvent, cron>>
    BY <1>10 DEF SubmitOverflow, ReqFail
  <2> QED BY <2>1, <2>2, ReqStates DEF TypeOK
<1>11. ASSUME NEW r \in Req, NEW h \in HasilId, CancelFind(r, h) PROVE TypeOK'
  BY <1>11, ReqStates DEF CancelFind, TypeOK
<1>12. ASSUME NEW r \in Req, CancelUpdate(r) PROVE TypeOK'
  <2>1. req[r].h \in HasilId
    BY <1>12, ReqFields DEF CancelUpdate
  <2>2. hasil[req[r].h] \in HasilRow /\ now \in Nat
    BY <2>1 DEF TypeOK
  <2> DEFINE row == [hasil[req[r].h] EXCEPT !.status = "dibatalkan",
                                            !.selesai = now, !.deleted = TRUE]
  <2>3. row \in HasilRow
    BY <2>2 DEF HasilRow, Waktu
  <2>4. hasil' = [hasil EXCEPT ![req[r].h] = row]
    BY <1>12 DEF CancelUpdate, TypeOK
  <2>5. hasil' \in [HasilId -> HasilRow]
    BY <2>3, <2>4 DEF TypeOK
  <2> QED BY <1>12, <2>5, ReqStates DEF CancelUpdate, TypeOK
<1>13. ASSUME CronScan PROVE TypeOK'
  <2>1. \A b \in Batches(Expired) : b \subseteq HasilId
    BY DEF Batches, Expired
  <2>2. \A b \in SUBSET HasilId : [op |-> "sweep", todo |-> b] \in CronState
    BY DEF CronState
  <2> QED BY <1>13, <2>1, <2>2 DEF CronScan, TypeOK
<1>14. ASSUME CronLock PROVE TypeOK'
  <2>1. cron.todo \subseteq HasilId
    BY <1>14, CronFields DEF CronLock
  <2>2. \A h \in cron.todo : Sweep(cron.todo \ {h}) \in CronState
    BY <2>1, SweepType
  <2>3. \A h \in cron.todo : Grade(jawaban[h]) \in [Soal -> JawabanRow]
    BY <2>1, GradeType DEF TypeOK
  <2>4. \A h \in cron.todo :
          [op |-> "grade", todo |-> cron.todo \ {h}, h |-> h,
           graded |-> Grade(jawaban[h])] \in CronState
    BY <2>1, <2>3 DEF CronState
  <2>5. cron' \in CronState
    BY <1>14, <2>2, <2>4 DEF CronLock
  <2> QED BY <1>14, <2>5 DEF CronLock, TypeOK
<1>15. ASSUME CronCommit PROVE TypeOK'
  <2>1. /\ cron.todo \subseteq HasilId /\ cron.h \in HasilId
        /\ cron.graded \in [Soal -> JawabanRow]
    BY <1>15, CronFields DEF CronCommit
  <2>2. hasil[cron.h].deadline \in Nat
    BY <2>1 DEF TypeOK, HasilRow
  <2>3. Finalise(cron.h, cron.graded, hasil[cron.h].deadline)
    BY <1>15 DEF CronCommit
  <2>4. /\ hasil' \in [HasilId -> HasilRow]
        /\ jawaban' \in [HasilId -> [Soal -> JawabanRow]]
        /\ gradeEvent' \in [HasilId -> Nat]
    BY <2>1, <2>2, <2>3, FinaliseType
  <2>5. cron' \in CronState
    BY <1>15, <2>1, SweepType DEF CronCommit
  <2> QED BY <1>15, <2>4, <2>5 DEF CronCommit, TypeOK
<1>16. ASSUME CronOverflow \/ CronFail PROVE TypeOK'
  <2>1. cron.op = "grade"
    BY <1>16 DEF CronOverflow, CronFail
  <2>2. Sweep(cron.todo) \in CronState
    BY <2>1, CronFields, SweepType
  <2> QED BY <1>16, <2>2 DEF CronOverflow, CronFail, TypeOK
<1>17. ASSUME NEW q \in Editable, NEW k \in Jawab, NEW p \in 1..MaxPoin,
              BankUpdate(q, k, p)
       PROVE  TypeOK'
  <2>1. q \in Soal /\ p \in 0..MaxPoin
    BY SetsFinite, BoundsAreNat
  <2>2. bank[q] \in SoalRow
    BY <2>1 DEF TypeOK
  <2>3. [bank[q] EXCEPT !.kunci = k, !.poin = p] \in SoalRow
    BY <2>1, <2>2 DEF SoalRow
  <2>4. bank' = [bank EXCEPT ![q] = [bank[q] EXCEPT !.kunci = k, !.poin = p]]
    BY <1>17, <2>1 DEF BankUpdate, TypeOK
  <2> QED BY <1>17, <2>3, <2>4 DEF BankUpdate, TypeOK
<1>18. ASSUME NEW q \in Editable, BankDelete(q) PROVE TypeOK'
  <2>1. q \in Soal /\ bank[q] \in SoalRow
    BY SetsFinite DEF TypeOK
  <2>2. [bank[q] EXCEPT !.deleted = TRUE] \in SoalRow
    BY <2>1 DEF SoalRow
  <2>3. bank' = [bank EXCEPT ![q] = [bank[q] EXCEPT !.deleted = TRUE]]
    BY <1>18, <2>1 DEF BankDelete, TypeOK
  <2> QED BY <1>18, <2>2, <2>3 DEF BankDelete, TypeOK
<1>19. ASSUME Tick PROVE TypeOK'
  BY <1>19 DEF Tick, TypeOK
<1>20. ASSUME Crash PROVE TypeOK'
  <2>1. Idle \in ReqState /\ Idle \in CronState
    BY DEF ReqState, CronState
  <2> QED BY <1>20, <2>1 DEF Crash, TypeOK
<1>21. CASE UNCHANGED vars
  BY <1>21 DEF vars, TypeOK
<1> QED
  BY <1>1, <1>2, <1>3, <1>4, <1>5, <1>6, <1>7, <1>8, <1>9, <1>10, <1>11, <1>12,
     <1>13, <1>14, <1>15, <1>16, <1>17, <1>18, <1>19, <1>20, <1>21
  DEF Next, Step, ReqAction, BankAction, StartStep, SubmitStep, CronStep

\* Whatever the requests, the cron, the clock, the failures and the restarts
\* do, every table and every goroutine stays well typed.
THEOREM TypeCorrect == Spec => []TypeOK
BY TypeInit, TypeNext, PTL DEF Spec

-----------------------------------------------------------------------------
(* What a step does to a row of hasil_ujian                                *)

\* An inserted row is new, belongs to the student of the request, runs, and
\* has no grade; every other row is left alone.
LEMMA InsertEffect ==
    ASSUME TypeOK, NEW r \in Req, StartInsert(r)
    PROVE  \/ hasil' = hasil
           \/ \E h \in HasilId :
                /\ hasil[h].status = "none"
                /\ Running(req[r].siswa) = {}
                /\ hasil'[h].status = "berlangsung" /\ hasil'[h].siswa = req[r].siswa
                /\ hasil'[h].nilai = NULL /\ hasil'[h].selesai = NULL
                /\ hasil'[h].mulai = req[r].t /\ ~hasil'[h].deleted
                /\ hasil'[h].deadline = req[r].t + Durasi(req[r].u, req[r].o)
                /\ \A k \in HasilId \ {h} : hasil'[k] = hasil[k]
<1> DEFINE row == [status |-> "berlangsung", siswa |-> req[r].siswa,
                   pool |-> req[r].pool, mulai |-> req[r].t,
                   deadline |-> req[r].t + Durasi(req[r].u, req[r].o),
                   selesai |-> NULL, nilai |-> NULL, benar |-> NULL,
                   total |-> NULL, attemptNo |-> req[r].n + 1,
                   deleted |-> FALSE]
<1>1. \/ hasil' = hasil
      \/ Running(req[r].siswa) = {} /\ \E h \in HasilId :
            hasil[h].status = "none" /\ hasil' = [hasil EXCEPT ![h] = row]
  BY DEF StartInsert
<1>2. ASSUME NEW h \in HasilId, hasil' = [hasil EXCEPT ![h] = row]
      PROVE  hasil'[h] = row /\ \A k \in HasilId \ {h} : hasil'[k] = hasil[k]
  BY <1>2 DEF TypeOK
<1> QED BY <1>1, <1>2

\* A grading finishes its row with the grade, keeps whose it is, when it ran
\* and whether it is deleted, and logs one event; every other row is left alone.
LEMMA FinaliseEffect ==
    ASSUME TypeOK, NEW h \in HasilId, NEW graded, NEW at, Finalise(h, graded, at)
    PROVE  /\ hasil'[h].status = "selesai" /\ hasil'[h].selesai = at
           /\ hasil'[h].nilai = Nilai(graded) /\ hasil'[h].benar = Benar(graded)
           /\ hasil'[h].siswa = hasil[h].siswa
           /\ hasil'[h].mulai = hasil[h].mulai
           /\ hasil'[h].deadline = hasil[h].deadline
           /\ hasil'[h].deleted = hasil[h].deleted
           /\ gradeEvent'[h] = gradeEvent[h] + 1
           /\ \A k \in HasilId \ {h} :
                /\ hasil'[k] = hasil[k] /\ gradeEvent'[k] = gradeEvent[k]
                /\ jawaban'[k] = jawaban[k]
<1> DEFINE row == [hasil[h] EXCEPT !.status = "selesai", !.selesai = at,
                     !.nilai = Nilai(graded), !.benar = Benar(graded),
                     !.total = Cardinality(hasil[h].pool)]
<1>1. hasil' = [hasil EXCEPT ![h] = row]
  BY DEF Finalise, TypeOK
<1>2. hasil[h] \in HasilRow
  BY DEF TypeOK
<1>3. /\ row.status = "selesai" /\ row.selesai = at
      /\ row.nilai = Nilai(graded) /\ row.benar = Benar(graded)
      /\ row.siswa = hasil[h].siswa /\ row.mulai = hasil[h].mulai
      /\ row.deadline = hasil[h].deadline /\ row.deleted = hasil[h].deleted
  BY <1>2 DEF HasilRow
<1> HIDE DEF row
<1>4. hasil'[h] = row /\ \A k \in HasilId \ {h} : hasil'[k] = hasil[k]
  BY <1>1 DEF TypeOK
<1>5. /\ gradeEvent'[h] = gradeEvent[h] + 1
      /\ \A k \in HasilId \ {h} :
            gradeEvent'[k] = gradeEvent[k] /\ jawaban'[k] = jawaban[k]
  BY DEF Finalise, WriteVerdicts, TypeOK
<1> QED BY <1>3, <1>4, <1>5

\* A cancel marks and deletes its row and keeps the grade it may have.
LEMMA CancelEffect ==
    ASSUME TypeOK, NEW r \in Req, CancelUpdate(r)
    PROVE  /\ req[r].h \in HasilId
           /\ LET h == req[r].h
              IN  /\ hasil'[h].status = "dibatalkan" /\ hasil'[h].selesai = now
                  /\ hasil'[h].deleted
                  /\ hasil'[h].nilai = hasil[h].nilai
                  /\ hasil'[h].benar = hasil[h].benar
                  /\ hasil'[h].total = hasil[h].total
                  /\ hasil'[h].siswa = hasil[h].siswa
                  /\ hasil'[h].mulai = hasil[h].mulai
                  /\ hasil'[h].deadline = hasil[h].deadline
                  /\ \A k \in HasilId \ {h} : hasil'[k] = hasil[k]
<1>1. req[r].h \in HasilId
  BY ReqFields DEF CancelUpdate
<1> DEFINE h == req[r].h
           row == [hasil[h] EXCEPT !.status = "dibatalkan", !.selesai = now,
                                   !.deleted = TRUE]
<1>2. hasil' = [hasil EXCEPT ![h] = row]
  BY DEF CancelUpdate, TypeOK
<1>3. hasil[h] \in HasilRow
  BY <1>1 DEF TypeOK
<1>4. /\ row.status = "dibatalkan" /\ row.selesai = now /\ row.deleted
      /\ row.nilai = hasil[h].nilai /\ row.benar = hasil[h].benar
      /\ row.total = hasil[h].total /\ row.siswa = hasil[h].siswa
      /\ row.mulai = hasil[h].mulai /\ row.deadline = hasil[h].deadline
  BY <1>3 DEF HasilRow
<1> HIDE DEF row
<1>5. hasil'[h] = row /\ \A k \in HasilId \ {h} : hasil'[k] = hasil[k]
  BY <1>1, <1>2 DEF TypeOK
<1> QED BY <1>1, <1>4, <1>5

\* Only an insert, a grading and a cancel write hasil_ujian; only a grading
\* writes event_ujian.
LEMMA Writers ==
    ASSUME [Next]_vars
    PROVE  \/ hasil' = hasil /\ gradeEvent' = gradeEvent
           \/ \E r \in Req : StartInsert(r) \/ SubmitCommit(r) \/ CancelUpdate(r)
           \/ CronCommit
<1> USE DEF examVars
<1>1. CASE \E r \in Req : ReqAction(r)
  BY <1>1 DEF ReqAction, StartStep, SubmitStep, StartFind, StartWindow, StartLock,
     SaveCheck, SaveUpsert, SubmitFind, SubmitLock, SubmitOverflow, CancelFind, ReqFail
<1>2. CASE CronStep \/ CronFail \/ Tick \/ Crash \/ UNCHANGED vars
  BY <1>2 DEF CronStep, CronScan, CronLock, CronOverflow, CronFail, Tick, Crash, vars
<1>3. CASE \E q \in Editable : BankAction(q)
  BY <1>3 DEF BankAction, BankUpdate, BankDelete
<1> QED BY <1>1, <1>2, <1>3 DEF Next, Step

\* What a step does to a request: nothing, its end, or one of the moves that
\* read something.
LEMMA ReqMoves ==
    ASSUME TypeOK, [Next]_vars, NEW r \in Req
    PROVE  \/ req'[r] = req[r]
           \/ req'[r] = Idle
           \/ req'[r].op \in {"startFound", "save"}
           \/ StartWindow(r) /\ req'[r].op = "startWait" /\ req'[r].t = now
           \/ /\ StartLock(r) /\ req'[r].op = "startInsert"
              /\ ~StartLocked(req[r].siswa) /\ Running(req[r].siswa) = {}
              /\ req'[r].siswa = req[r].siswa /\ req'[r].t = req[r].t
              /\ req'[r].n = Cardinality(Live(req[r].siswa))
              /\ Unlimited(req'[r].u, req'[r].o) \/ req'[r].n < Limit(req'[r].u, req'[r].o)
           \/ \E h \in HasilId : /\ SubmitFind(r, h) \/ CancelFind(r, h)
                                 /\ req'[r].op \in {"submitWait", "cancel"}
                                 /\ req'[r].h = h /\ hasil[h].status # "none"
           \/ /\ SubmitLock(r) /\ req'[r].op = "submitGrade"
              /\ req'[r].h = req[r].h /\ ~SubmitLocked(req[r].h)
              /\ hasil[req[r].h].status # "dibatalkan" /\ ~Graded(req[r].h)
<1> DEFINE Goal ==
           \/ req'[r] = req[r]
           \/ req'[r] = Idle
           \/ req'[r].op \in {"startFound", "save"}
           \/ StartWindow(r) /\ req'[r].op = "startWait" /\ req'[r].t = now
           \/ /\ StartLock(r) /\ req'[r].op = "startInsert"
              /\ ~StartLocked(req[r].siswa) /\ Running(req[r].siswa) = {}
              /\ req'[r].siswa = req[r].siswa /\ req'[r].t = req[r].t
              /\ req'[r].n = Cardinality(Live(req[r].siswa))
              /\ Unlimited(req'[r].u, req'[r].o) \/ req'[r].n < Limit(req'[r].u, req'[r].o)
           \/ \E h \in HasilId : /\ SubmitFind(r, h) \/ CancelFind(r, h)
                                 /\ req'[r].op \in {"submitWait", "cancel"}
                                 /\ req'[r].h = h /\ hasil[h].status # "none"
           \/ /\ SubmitLock(r) /\ req'[r].op = "submitGrade"
              /\ req'[r].h = req[r].h /\ ~SubmitLocked(req[r].h)
              /\ hasil[req[r].h].status # "dibatalkan" /\ ~Graded(req[r].h)
<1>0. \A p \in Req : \A x : req' = [req EXCEPT ![p] = x] =>
            req'[r] = IF p = r THEN x ELSE req[r]
  BY DEF TypeOK
<1>1. ASSUME NEW p \in Req, NEW s \in Siswa, StartFind(p, s) PROVE Goal
  BY <1>0, <1>1 DEF StartFind
<1>2. ASSUME NEW p \in Req, StartWindow(p) PROVE Goal
  <2> DEFINE x == [op |-> "startWait", siswa |-> req[p].siswa, u |-> req[p].u,
                   o |-> override[req[p].siswa], t |-> now]
  <2>1. req' = [req EXCEPT ![p] = x] \/ req' = [req EXCEPT ![p] = Idle]
    BY <1>2 DEF StartWindow
  <2>2. x.op = "startWait" /\ x.t = now
    OBVIOUS
  <2> HIDE DEF x
  <2> QED BY <1>0, <1>2, <2>1, <2>2
<1>3. ASSUME NEW p \in Req, StartLock(p) PROVE Goal
  BY <1>0, <1>3 DEF StartLock
<1>4. ASSUME NEW p \in Req,
             \/ StartInsert(p) \/ SaveUpsert(p) \/ SubmitCommit(p)
             \/ SubmitOverflow(p) \/ CancelUpdate(p) \/ ReqFail(p)
      PROVE  Goal
  BY <1>0, <1>4 DEF StartInsert, SaveUpsert, SubmitCommit, SubmitOverflow,
     CancelUpdate, ReqFail
<1>5. ASSUME NEW p \in Req, NEW h \in HasilId, NEW q \in Soal, NEW a \in Jawab,
             SaveCheck(p, h, q, a)
      PROVE  Goal
  BY <1>0, <1>5 DEF SaveCheck
<1>6. ASSUME NEW p \in Req, NEW h \in HasilId, SubmitFind(p, h) \/ CancelFind(p, h)
      PROVE  Goal
  BY <1>0, <1>6 DEF SubmitFind, CancelFind
<1>7. ASSUME NEW p \in Req, SubmitLock(p) PROVE Goal
  <2> DEFINE h == req[p].h
             x == [op |-> "submitGrade", h |-> h, graded |-> Grade(jawaban[h])]
  <2>1. \/ req' = [req EXCEPT ![p] = Idle]
        \/ /\ ~(hasil[h].status = "dibatalkan" \/ Graded(h))
           /\ req' = [req EXCEPT ![p] = x]
    BY <1>7 DEF SubmitLock
  <2>2. x.op = "submitGrade" /\ x.h = h /\ ~SubmitLocked(h)
    BY <1>7 DEF SubmitLock
  <2> HIDE DEF x
  <2> QED BY <1>0, <1>7, <2>1, <2>2
<1>8. ASSUME Crash PROVE Goal
  BY <1>8 DEF Crash
<1>9. ASSUME \/ CronStep \/ CronFail \/ Tick \/ UNCHANGED vars
             \/ \E q \in Editable : BankAction(q)
      PROVE  Goal
  BY <1>9 DEF CronStep, CronScan, CronLock, CronCommit, CronOverflow,
     CronFail, Tick, vars, BankAction, BankUpdate, BankDelete
<1> HIDE DEF Goal
<1>10. Goal
  BY <1>1, <1>2, <1>3, <1>4, <1>5, <1>6, <1>7, <1>8, <1>9
  DEF Next, Step, ReqAction, StartStep, SubmitStep
<1> QED BY <1>10 DEF Goal

\* What a step does to the cron.
LEMMA CronMoves ==
    ASSUME TypeOK, [Next]_vars
    PROVE  \/ cron' = cron
           \/ cron' = Idle
           \/ CronScan /\ cron'.op = "sweep" /\ cron'.todo \subseteq Expired
           \/ /\ cron.op \in {"sweep", "grade"} /\ cron'.op = "sweep"
              /\ cron'.todo \subseteq cron.todo
           \/ /\ CronLock /\ cron.op = "sweep" /\ cron'.op = "grade"
              /\ cron'.todo \subseteq cron.todo /\ cron'.h \in cron.todo
              /\ ~SubmitLocked(cron'.h) /\ hasil[cron'.h].status = "berlangsung"
<1> DEFINE Goal ==
           \/ cron' = cron
           \/ cron' = Idle
           \/ CronScan /\ cron'.op = "sweep" /\ cron'.todo \subseteq Expired
           \/ /\ cron.op \in {"sweep", "grade"} /\ cron'.op = "sweep"
              /\ cron'.todo \subseteq cron.todo
           \/ /\ CronLock /\ cron.op = "sweep" /\ cron'.op = "grade"
              /\ cron'.todo \subseteq cron.todo /\ cron'.h \in cron.todo
              /\ ~SubmitLocked(cron'.h) /\ hasil[cron'.h].status = "berlangsung"
<1>1. CASE CronScan
  BY <1>1 DEF CronScan, Batches
<1>2. CASE CronLock
  <2>1. PICK h \in cron.todo :
          /\ ~SubmitLocked(h)
          /\ \/ cron' = Sweep(cron.todo \ {h})
             \/ /\ hasil[h].status = "berlangsung"
                /\ cron' = [op |-> "grade", todo |-> cron.todo \ {h}, h |-> h,
                            graded |-> Grade(jawaban[h])]
    BY <1>2 DEF CronLock
  <2>2. cron.op = "sweep"
    BY <1>2 DEF CronLock
  <2>3. CASE cron' = Sweep(cron.todo \ {h})
    BY <2>2, <2>3 DEF Sweep
  <2>4. CASE cron' # Sweep(cron.todo \ {h})
    BY <1>2, <2>1, <2>2, <2>4
  <2> QED BY <2>3, <2>4
<1>3. CASE CronCommit \/ CronOverflow \/ CronFail
  BY <1>3 DEF CronCommit, CronOverflow, CronFail, Sweep
<1>4. CASE Crash
  BY <1>4 DEF Crash
<1>5. CASE Tick \/ UNCHANGED vars \/ \E q \in Editable : BankAction(q)
  BY <1>5 DEF Tick, vars, BankAction, BankUpdate, BankDelete
<1>6. CASE \E r \in Req : ReqAction(r)
  <2>1. cron' = cron
    BY <1>6 DEF ReqAction, StartStep, SubmitStep, StartFind, StartWindow, StartLock,
       StartInsert, SaveCheck, SaveUpsert, SubmitFind, SubmitLock, SubmitCommit,
       SubmitOverflow, CancelFind, CancelUpdate, ReqFail
  <2> QED BY <2>1
<1> HIDE DEF Goal
<1>7. Goal
  BY <1>1, <1>2, <1>3, <1>4, <1>5, <1>6 DEF Next, Step, CronStep, Goal
<1> QED BY <1>7 DEF Goal

\* The fields of a row whose values are times or grades.
LEMMA RowFields ==
    ASSUME TypeOK, NEW h \in HasilId
    PROVE  /\ now \in Nat
           /\ hasil[h].mulai \in Nat /\ hasil[h].deadline \in Nat
           /\ hasil[h].selesai \in Nat \cup {NULL}
           /\ hasil[h].nilai \in Nat \cup {NULL} /\ hasil[h].benar \in Nat \cup {NULL}
           /\ gradeEvent[h] \in Nat
           /\ jawaban[h] \in [Soal -> JawabanRow]
BY DEF TypeOK, HasilRow, Waktu

\* A grading that commits finds its attempt without a grade, at a time that
\* is past and not before the start.
LEMMA GradingStep ==
    ASSUME IndInv, CronCommit \/ \E r \in Req : SubmitCommit(r)
    PROVE  \E h \in HasilId, graded \in [Soal -> JawabanRow], at \in Nat :
              /\ Finalise(h, graded, at)
              /\ hasil[h].status # "none" /\ hasil[h].nilai = NULL
              /\ hasil[h].mulai <= at /\ at <= now /\ now' = now
<1> USE DEF IndInv
<1>1. ASSUME NEW r \in Req, SubmitCommit(r)
      PROVE  \E h \in HasilId, graded \in [Soal -> JawabanRow], at \in Nat :
                /\ Finalise(h, graded, at)
                /\ hasil[h].status # "none" /\ hasil[h].nilai = NULL
                /\ hasil[h].mulai <= at /\ at <= now /\ now' = now
  <2>1. req[r].h \in HasilId /\ req[r].graded \in [Soal -> JawabanRow]
    BY <1>1, ReqFields DEF SubmitCommit
  <2>2. hasil[req[r].h].status # "none" /\ hasil[req[r].h].nilai = NULL
    BY <1>1, <2>1 DEF SubmitCommit, GraderInv
  <2>3. hasil[req[r].h].mulai <= now /\ now \in Nat /\ now <= now
    BY <2>1, <2>2, RowFields DEF TimeInv
  <2> QED BY <1>1, <2>1, <2>2, <2>3 DEF SubmitCommit
<1>2. CASE CronCommit
  <2>1. cron.h \in HasilId /\ cron.graded \in [Soal -> JawabanRow]
    BY <1>2, CronFields DEF CronCommit
  <2>2. hasil[cron.h].status # "none" /\ hasil[cron.h].nilai = NULL
    BY <1>2, <2>1 DEF CronCommit, GraderInv
  <2>3. /\ hasil[cron.h].deadline \in Nat
        /\ hasil[cron.h].mulai <= hasil[cron.h].deadline
        /\ hasil[cron.h].deadline <= now
    BY <1>2, <2>1, <2>2, RowFields DEF CronCommit, TimeInv
  <2> QED BY <1>2, <2>1, <2>2, <2>3 DEF CronCommit
<1> QED BY <1>1, <1>2

-----------------------------------------------------------------------------
(* RowInv                                                                  *)

\* No step leaves a grade on a running attempt, a finished attempt without a
\* grade, a deleted attempt running, or a grade without its event.
LEMMA RowNext == IndInv /\ [Next]_vars => RowInv'
<1> SUFFICES ASSUME IndInv, [Next]_vars PROVE RowInv'
  OBVIOUS
<1> USE DEF IndInv
<1>1. CASE hasil' = hasil /\ gradeEvent' = gradeEvent
  BY <1>1 DEF RowInv, OneGradeEvent
<1>2. ASSUME NEW r \in Req, StartInsert(r) PROVE RowInv'
  <2>1. gradeEvent' = gradeEvent
    BY <1>2 DEF StartInsert
  <2> QED BY <1>2, <2>1, InsertEffect DEF RowInv, OneGradeEvent
<1>3. CASE CronCommit \/ \E r \in Req : SubmitCommit(r)
  <2>1. PICK h \in HasilId, graded \in [Soal -> JawabanRow], at \in Nat :
              Finalise(h, graded, at) /\ hasil[h].nilai = NULL
    BY <1>3, GradingStep
  <2>2. Nilai(graded) # NULL
    BY CountsAreNat DEF NULL
  <2>3. gradeEvent[h] = 0
    BY <2>1 DEF RowInv, OneGradeEvent
  <2>4. /\ hasil'[h].status = "selesai" /\ hasil'[h].nilai # NULL /\ gradeEvent'[h] = 1
        /\ \A k \in HasilId \ {h} :
              hasil'[k] = hasil[k] /\ gradeEvent'[k] = gradeEvent[k]
    BY <2>1, <2>2, <2>3, FinaliseEffect
  <2> QED BY <2>4 DEF RowInv, OneGradeEvent
<1>4. ASSUME NEW r \in Req, CancelUpdate(r) PROVE RowInv'
  <2>1. gradeEvent' = gradeEvent
    BY <1>4 DEF CancelUpdate
  <2> QED BY <1>4, <2>1, CancelEffect DEF RowInv, OneGradeEvent
<1> QED BY <1>1, <1>2, <1>3, <1>4, Writers

-----------------------------------------------------------------------------
(* TimeInv                                                                 *)

\* No step writes a time that is not yet past, or before the attempt's start.
LEMMA TimeNext == IndInv /\ [Next]_vars => TimeInv'
<1> SUFFICES ASSUME IndInv, [Next]_vars PROVE TimeInv'
  OBVIOUS
<1> USE DEF IndInv, examVars
<1>0. now' \in Nat /\ now \in Nat /\ now <= now'
  <2>1. now' = now \/ now' = now + 1
    BY DEF Next, Step, ReqAction, StartStep, SubmitStep, CronStep, BankAction,
       StartFind, StartWindow, StartLock, StartInsert, SaveCheck, SaveUpsert,
       SubmitFind, SubmitLock, SubmitCommit, SubmitOverflow, CancelFind,
       CancelUpdate, ReqFail, CronScan, CronLock, CronCommit, CronOverflow,
       CronFail, BankUpdate, BankDelete, Tick, Crash, vars
  <2> QED BY <2>1 DEF TypeOK
<1>1. /\ FinishTimeSound'
      /\ \A h \in HasilId : hasil'[h].status # "none" =>
            hasil'[h].mulai <= now' /\ hasil'[h].mulai <= hasil'[h].deadline
  <2> SUFFICES ASSUME NEW h \in HasilId
               PROVE  /\ hasil'[h].selesai # NULL =>
                           /\ hasil'[h].mulai <= hasil'[h].selesai
                           /\ hasil'[h].selesai <= now'
                      /\ hasil'[h].status # "none" =>
                           /\ hasil'[h].mulai <= now'
                           /\ hasil'[h].mulai <= hasil'[h].deadline
    BY DEF FinishTimeSound
  <2>1. CASE hasil'[h] = hasil[h]
    BY <1>0, <2>1, RowFields DEF TimeInv, FinishTimeSound
  <2>2. ASSUME NEW r \in Req, StartInsert(r), hasil'[h] # hasil[h]
        PROVE  /\ hasil'[h].selesai = NULL
               /\ hasil'[h].mulai <= now' /\ hasil'[h].mulai <= hasil'[h].deadline
    <3>1. /\ hasil'[h].selesai = NULL /\ hasil'[h].mulai = req[r].t
          /\ hasil'[h].deadline = req[r].t + Durasi(req[r].u, req[r].o)
      BY <2>2, InsertEffect
    <3>2. /\ req[r].t \in Nat /\ req[r].t <= now
          /\ req[r].u \in UjianRow /\ req[r].o \in OverrideRow
      BY <2>2, ReqFields DEF StartInsert, TimeInv
    <3>3. Durasi(req[r].u, req[r].o) \in Nat
      BY <3>2, DurasiType
    <3> QED BY <1>0, <3>1, <3>2, <3>3
  <2>3. ASSUME CronCommit \/ \E r \in Req : SubmitCommit(r), hasil'[h] # hasil[h]
        PROVE  /\ hasil'[h].mulai <= hasil'[h].selesai /\ hasil'[h].selesai <= now'
               /\ hasil'[h].mulai <= now' /\ hasil'[h].mulai <= hasil'[h].deadline
    <3>1. PICK k \in HasilId, graded \in [Soal -> JawabanRow], at \in Nat :
                /\ Finalise(k, graded, at)
                /\ hasil[k].status # "none"
                /\ hasil[k].mulai <= at /\ at <= now /\ now' = now
      BY <2>3, GradingStep
    <3>2. k = h
      BY <2>3, <3>1, FinaliseEffect
    <3>3. /\ hasil'[h].selesai = at /\ hasil'[h].mulai = hasil[h].mulai
          /\ hasil'[h].deadline = hasil[h].deadline
      BY <3>1, <3>2, FinaliseEffect
    <3>4. hasil[h].mulai <= now /\ hasil[h].mulai <= hasil[h].deadline
      BY <3>1, <3>2 DEF TimeInv
    <3> QED BY <1>0, <3>1, <3>2, <3>3, <3>4
  <2>4. ASSUME NEW r \in Req, CancelUpdate(r), hasil'[h] # hasil[h]
        PROVE  /\ hasil'[h].mulai <= hasil'[h].selesai /\ hasil'[h].selesai <= now'
               /\ hasil'[h].mulai <= now' /\ hasil'[h].mulai <= hasil'[h].deadline
    <3>1. /\ req[r].h = h /\ hasil'[h].selesai = now
          /\ hasil'[h].mulai = hasil[h].mulai
          /\ hasil'[h].deadline = hasil[h].deadline
      BY <2>4, CancelEffect
    <3>2. hasil[h].mulai <= now /\ hasil[h].mulai <= hasil[h].deadline
      BY <2>4, <3>1 DEF TimeInv, GraderInv, CancelUpdate
    <3> QED BY <1>0, <3>1, <3>2, RowFields
  <2> QED BY <2>1, <2>2, <2>3, <2>4, Writers
<1>2. \A r \in Req : req'[r].op \in {"startWait", "startInsert"} => req'[r].t <= now'
  <2> SUFFICES ASSUME NEW r \in Req, req'[r].op \in {"startWait", "startInsert"}
               PROVE  req'[r].t <= now'
    OBVIOUS
  <2>1. CASE req'[r] = req[r]
    BY <1>0, <2>1, ReqFields DEF TimeInv
  <2>2. CASE req'[r].op = "startWait" /\ req'[r].t = now
    BY <1>0, <2>2
  <2>3. CASE StartLock(r) /\ req'[r].t = req[r].t
    <3>1. req[r].t <= now /\ req[r].t \in Nat
      BY <2>3, ReqFields DEF StartLock, TimeInv
    <3> QED BY <1>0, <2>3, <3>1
  <2> QED BY <2>1, <2>2, <2>3, ReqMoves DEF Idle
<1>3. \A h \in HasilId : hasil[h].deadline <= now /\ hasil[h].status # "none" =>
            hasil'[h].deadline <= now'
  <2> SUFFICES ASSUME NEW h \in HasilId, hasil[h].deadline <= now,
                      hasil[h].status # "none"
               PROVE  hasil'[h].deadline = hasil[h].deadline
    BY <1>0, RowFields
  <2> QED BY Writers, InsertEffect, CancelEffect, GradingStep, FinaliseEffect
<1>4. /\ cron'.op \in {"sweep", "grade"} =>
            \A h \in cron'.todo : hasil'[h].deadline <= now'
      /\ cron'.op = "grade" => hasil'[cron'.h].deadline <= now'
  <2>1. \A h \in Expired : h \in HasilId /\ hasil[h].deadline <= now
                              /\ hasil[h].status # "none"
    BY DEF Expired
  <2>2. /\ cron.op \in {"sweep", "grade"} => \A h \in cron.todo :
              h \in HasilId /\ hasil[h].deadline <= now /\ hasil[h].status # "none"
        /\ cron.op = "grade" =>
              /\ cron.h \in HasilId /\ hasil[cron.h].deadline <= now
              /\ hasil[cron.h].status # "none"
    BY CronFields DEF TimeInv, GraderInv
  <2> QED BY <1>3, <2>1, <2>2, CronMoves DEF Idle
<1> QED BY <1>1, <1>2, <1>4 DEF TimeInv

-----------------------------------------------------------------------------
(* AnswerInv                                                               *)

\* Rows with no more points and no more correct verdicts count for no more.
LEMMA CountsAreMonotone ==
    ASSUME NEW a \in [Soal -> JawabanRow], NEW b \in [Soal -> JawabanRow],
           \A q \in Soal : a[q].poin = 0 \/ a[q].poin = b[q].poin,
           \A q \in Soal : a[q].isBenar = "ya" => b[q].isBenar = "ya"
    PROVE  Nilai(a) <= Nilai(b) /\ Benar(a) <= Benar(b)
<1> DEFINE P(x) == {p \in Soal \X (1..MaxPoin) : p[2] <= x[p[1]].poin}
           B(x) == {q \in Soal : x[q].isBenar = "ya"}
<1>1. IsFiniteSet(P(b)) /\ IsFiniteSet(B(b))
  <2>1. IsFiniteSet(1..MaxPoin)
    BY BoundsAreNat, FS_Interval
  <2>2. IsFiniteSet(Soal \X (1..MaxPoin))
    BY <2>1, SetsFinite, FS_Product
  <2> QED BY <2>2, SetsFinite, FS_Subset
<1>2. P(a) \subseteq P(b)
  <2> SUFFICES ASSUME NEW q \in Soal, NEW i \in 1..MaxPoin, i <= a[q].poin
               PROVE  i <= b[q].poin
    OBVIOUS
  <2> QED BY BoundsAreNat
<1>3. B(a) \subseteq B(b)
  OBVIOUS
<1> QED BY <1>1, <1>2, <1>3, FS_Subset DEF Nilai, Benar

\* No step writes points or verdicts that the recorded grade does not cover.
LEMMA AnswerNext == IndInv /\ [Next]_vars => AnswerInv'
<1> SUFFICES ASSUME IndInv, [Next]_vars PROVE AnswerInv'
  OBVIOUS
<1> USE DEF IndInv, examVars
<1> DEFINE Covered(row, ans) ==
             /\ row.nilai # NULL => Nilai(ans) <= row.nilai /\ Benar(ans) <= row.benar
             /\ row.nilai = NULL =>
                  \A q \in Soal : ans[q].poin = 0 /\ ans[q].isBenar # "ya"
<1>1. \A h \in HasilId : Covered(hasil[h], jawaban[h])
  BY DEF AnswerInv, LateAnswerNeverScores
<1>2. ASSUME \A h \in HasilId : Covered(hasil'[h], jawaban'[h]) PROVE AnswerInv'
  BY <1>2 DEF AnswerInv, LateAnswerNeverScores, Nilai, Benar
<1>3. SUFFICES ASSUME NEW h \in HasilId PROVE Covered(hasil'[h], jawaban'[h])
  BY <1>2
<1>4. CASE hasil' = hasil /\ jawaban' = jawaban
  BY <1>1, <1>4
<1>5. ASSUME NEW r \in Req, SaveUpsert(r) PROVE Covered(hasil'[h], jawaban'[h])
  <2> DEFINE k == req[r].h
             q == req[r].soal
             row == [jawaban |-> req[r].jawaban, isBenar |-> "null", poin |-> 0]
  <2>1. k \in HasilId /\ q \in Soal /\ row \in JawabanRow
    BY <1>5, ReqFields, BoundsAreNat DEF SaveUpsert, JawabanRow
  <2>2. hasil' = hasil /\ jawaban' = [jawaban EXCEPT ![k][q] = row]
    BY <1>5 DEF SaveUpsert
  <2>3. row.poin = 0 /\ row.isBenar = "null"
    OBVIOUS
  <2> HIDE DEF row, k, q
  <2>4. CASE h # k
    BY <1>1, <2>1, <2>2, <2>4 DEF TypeOK
  <2>5. CASE h = k
    <3>0. jawaban[h] \in [Soal -> JawabanRow]
      BY RowFields
    <3>1. jawaban'[h] = [jawaban[h] EXCEPT ![q] = row]
      BY <2>1, <2>2, <2>5 DEF TypeOK
    <3>2. jawaban'[h] \in [Soal -> JawabanRow]
      BY <2>1, <3>0, <3>1
    <3>3. \A p \in Soal : \/ jawaban'[h][p] = jawaban[h][p]
                          \/ jawaban'[h][p].poin = 0 /\ jawaban'[h][p].isBenar = "null"
      BY <2>1, <2>3, <3>0, <3>1
    <3>4. /\ Nilai(jawaban'[h]) <= Nilai(jawaban[h])
          /\ Benar(jawaban'[h]) <= Benar(jawaban[h])
      BY <3>0, <3>2, <3>3, CountsAreMonotone
    <3>5. CASE hasil[h].nilai = NULL
      BY <1>1, <2>2, <3>3, <3>5
    <3>6. CASE hasil[h].nilai # NULL
      <4>1. /\ Nilai(jawaban[h]) <= hasil[h].nilai /\ Benar(jawaban[h]) <= hasil[h].benar
            /\ Nilai(jawaban[h]) \in Nat /\ Benar(jawaban[h]) \in Nat
            /\ Nilai(jawaban'[h]) \in Nat /\ Benar(jawaban'[h]) \in Nat
            /\ hasil[h].nilai \in Int /\ hasil[h].benar \in Int
        BY <1>1, <3>0, <3>2, <3>6, CountsAreNat, RowFields DEF NULL
      <4> QED BY <2>2, <3>4, <3>6, <4>1
    <3> QED BY <3>5, <3>6
  <2> QED BY <2>4, <2>5
<1>6. ASSUME NEW r \in Req, StartInsert(r) PROVE Covered(hasil'[h], jawaban'[h])
  <2>1. jawaban' = jawaban
    BY <1>6 DEF StartInsert
  <2>2. \/ hasil'[h] = hasil[h]
        \/ hasil[h].status = "none" /\ hasil'[h].nilai = NULL
    BY <1>6, InsertEffect
  <2>3. hasil[h].status = "none" => hasil[h].nilai = NULL
    BY DEF RowInv
  <2> QED BY <1>1, <2>1, <2>2, <2>3
<1>7. CASE CronCommit \/ \E r \in Req : SubmitCommit(r)
  <2>1. PICK k \in HasilId, graded \in [Soal -> JawabanRow], at \in Nat :
              Finalise(k, graded, at) /\ hasil[k].nilai = NULL
    BY <1>7, GradingStep
  <2>2. CASE h # k
    BY <1>1, <2>1, <2>2, FinaliseEffect
  <2>3. CASE h = k
    <3>1. /\ hasil'[h].nilai = Nilai(graded) /\ hasil'[h].benar = Benar(graded)
      BY <2>1, <2>3, FinaliseEffect
    <3>2. jawaban[h] \in [Soal -> JawabanRow]
      BY RowFields
    <3>3. jawaban'[h] \in [Soal -> JawabanRow]
      BY <2>1, FinaliseType
    <3>4. \A q \in Soal : jawaban'[h][q] =
              IF graded[q].jawaban = "-" THEN jawaban[h][q]
              ELSE [jawaban[h][q] EXCEPT !.isBenar = graded[q].isBenar,
                                         !.poin = graded[q].poin]
      BY <2>1, <2>3 DEF Finalise, WriteVerdicts, TypeOK
    <3>5. \A q \in Soal :
            /\ jawaban'[h][q].poin = 0 \/ jawaban'[h][q].poin = graded[q].poin
            /\ jawaban'[h][q].isBenar = "ya" => graded[q].isBenar = "ya"
      <4> SUFFICES ASSUME NEW q \in Soal
                   PROVE /\ jawaban'[h][q].poin = 0 \/ jawaban'[h][q].poin = graded[q].poin
                         /\ jawaban'[h][q].isBenar = "ya" => graded[q].isBenar = "ya"
        OBVIOUS
      <4>1. jawaban[h][q].poin = 0 /\ jawaban[h][q].isBenar # "ya"
        BY <1>1, <2>1, <2>3
      <4>2. jawaban[h][q] \in JawabanRow
        BY <3>2
      <4>3. CASE graded[q].jawaban = "-"
        BY <3>4, <4>1, <4>3
      <4>4. CASE graded[q].jawaban # "-"
        BY <3>4, <4>2, <4>4 DEF JawabanRow
      <4> QED BY <4>3, <4>4
    <3>6. Nilai(jawaban'[h]) <= Nilai(graded) /\ Benar(jawaban'[h]) <= Benar(graded)
      BY <3>3, <3>5, CountsAreMonotone
    <3>7. Nilai(graded) # NULL
      BY CountsAreNat DEF NULL
    <3> QED BY <3>1, <3>6, <3>7
  <2> QED BY <2>2, <2>3
<1>8. ASSUME NEW r \in Req, CancelUpdate(r) PROVE Covered(hasil'[h], jawaban'[h])
  <2>1. jawaban' = jawaban
    BY <1>8 DEF CancelUpdate
  <2>2. hasil'[h].nilai = hasil[h].nilai /\ hasil'[h].benar = hasil[h].benar
    BY <1>8, CancelEffect
  <2> QED BY <1>1, <2>1, <2>2
<1>9. \/ hasil' = hasil /\ jawaban' = jawaban
      \/ \E r \in Req : \/ SaveUpsert(r) \/ StartInsert(r)
                        \/ SubmitCommit(r) \/ CancelUpdate(r)
      \/ CronCommit
  <2>1. CASE \E r \in Req : ReqAction(r)
    BY <2>1 DEF ReqAction, StartStep, SubmitStep, StartFind, StartWindow, StartLock,
       SaveCheck, SubmitFind, SubmitLock, SubmitOverflow, CancelFind, ReqFail
  <2>2. CASE CronStep \/ CronFail \/ Tick \/ Crash \/ UNCHANGED vars
    BY <2>2 DEF CronStep, CronScan, CronLock, CronOverflow, CronFail, Tick, Crash, vars
  <2>3. CASE \E q \in Editable : BankAction(q)
    BY <2>3 DEF BankAction, BankUpdate, BankDelete
  <2> QED BY <2>1, <2>2, <2>3 DEF Next, Step
<1> QED BY <1>4, <1>5, <1>6, <1>7, <1>8, <1>9

-----------------------------------------------------------------------------
(* GraderInv                                                               *)

\* No step gives an attempt a second grader, or a grader an attempt that has
\* its grade.
LEMMA GraderNext == IndInv /\ [Next]_vars => GraderInv'
<1> SUFFICES ASSUME IndInv, [Next]_vars PROVE GraderInv'
  OBVIOUS
<1> USE DEF IndInv
<1> DEFINE Grades(r, h) == req[r].op = "submitGrade" /\ req[r].h = h
           Sweeps(h) == cron.op = "grade" /\ cron.h = h
<1>1. \A h \in HasilId : hasil[h].status # "none" => hasil'[h].status # "none"
  BY Writers, InsertEffect, CancelEffect, GradingStep, FinaliseEffect
<1>2. \A r \in Req : req[r].op \in {"submitWait", "submitGrade", "cancel"} =>
          req[r].h \in HasilId /\ hasil[req[r].h].status # "none"
  BY ReqFields DEF GraderInv
<1>3. \A r \in Req : req'[r].op \in {"submitWait", "submitGrade", "cancel"} =>
          req'[r].h \in HasilId /\ hasil'[req'[r].h].status # "none"
  <2> SUFFICES ASSUME NEW r \in Req,
                      req'[r].op \in {"submitWait", "submitGrade", "cancel"}
               PROVE  req'[r].h \in HasilId /\ hasil'[req'[r].h].status # "none"
    OBVIOUS
  <2>1. CASE SubmitLock(r) /\ req'[r].h = req[r].h
    BY <1>1, <1>2, <2>1 DEF SubmitLock
  <2> QED BY <1>1, <1>2, <2>1, ReqMoves DEF Idle
<1>4. \A h \in HasilId, r \in Req : Grades(r, h) =>
          /\ hasil[h].nilai = NULL /\ ~Sweeps(h)
          /\ \A p \in Req : Grades(p, h) => p = r
  BY DEF GraderInv
<1>5. \A h \in HasilId : Sweeps(h) => hasil[h].nilai = NULL
  BY DEF GraderInv
<1>6. ASSUME NEW h \in HasilId, hasil[h].status # "none", hasil[h].nilai = NULL,
             hasil'[h].nilai # NULL
      PROVE  /\ ~Sweeps(h)' /\ \A r \in Req : ~Grades(r, h)'
  <2>1. ASSUME NEW r \in Req, SubmitCommit(r), req[r].h = h
        PROVE  /\ ~Sweeps(h)' /\ \A p \in Req : ~Grades(p, h)'
    <3>1. Grades(r, h) /\ cron' = cron /\ req' = [req EXCEPT ![r] = Idle]
      BY <2>1 DEF SubmitCommit
    <3>2. ~Sweeps(h) /\ \A p \in Req \ {r} : ~Grades(p, h)
      BY <1>4, <3>1
    <3> QED BY <3>1, <3>2 DEF TypeOK, Idle
  <2>2. ASSUME CronCommit, cron.h = h
        PROVE  /\ ~Sweeps(h)' /\ \A p \in Req : ~Grades(p, h)'
    <3>1. Sweeps(h) /\ cron'.op # "grade" /\ req' = req
      BY <2>2 DEF CronCommit, Sweep, Idle
    <3> QED BY <1>4, <3>1
  <2>3. ASSUME NEW r \in Req, SubmitCommit(r) PROVE req[r].h = h
    <3>1. req[r].h \in HasilId /\ Finalise(req[r].h, req[r].graded, now)
      BY <2>3, ReqFields DEF SubmitCommit
    <3> QED BY <1>6, <3>1, FinaliseEffect
  <2>4. ASSUME CronCommit PROVE cron.h = h
    <3>1. cron.h \in HasilId /\ Finalise(cron.h, cron.graded, hasil[cron.h].deadline)
      BY <2>4, CronFields DEF CronCommit
    <3> QED BY <1>6, <3>1, FinaliseEffect
  <2>5. ASSUME NEW r \in Req, StartInsert(r) \/ CancelUpdate(r) PROVE FALSE
    BY <1>6, <2>5, InsertEffect, CancelEffect
  <2> QED BY <1>6, <2>1, <2>2, <2>3, <2>4, <2>5, Writers
<1>7. ASSUME NEW r \in Req, NEW h \in HasilId, Grades(r, h)'
      PROVE  /\ hasil'[h].nilai = NULL /\ ~Sweeps(h)'
             /\ \A p \in Req : Grades(p, h)' => p = r
  <2>1. CASE req'[r] = req[r]
    <3>1. /\ Grades(r, h) /\ hasil[h].nilai = NULL /\ ~Sweeps(h)
          /\ hasil[h].status # "none"
      BY <1>2, <1>4, <1>7, <2>1
    <3>2. hasil'[h].nilai = NULL
      BY <1>6, <1>7, <3>1
    <3>3. SubmitLocked(h)
      BY <3>1 DEF SubmitLocked
    <3>4. ~Sweeps(h)'
      BY <3>1, <3>3, CronMoves DEF Idle
    <3>5. ASSUME NEW p \in Req, Grades(p, h)' PROVE p = r
      <4>1. CASE req'[p] = req[p]
        BY <1>4, <3>1, <3>5, <4>1
      <4>2. CASE req'[p] # req[p]
        BY <3>3, <3>5, <4>2, ReqMoves DEF Idle
      <4> QED BY <4>1, <4>2
    <3> QED BY <3>2, <3>4, <3>5
  <2>2. CASE req'[r] # req[r]
    <3>1. /\ SubmitLock(r) /\ req[r].h = h /\ ~SubmitLocked(h)
          /\ hasil[h].status # "dibatalkan" /\ ~Graded(h)
      BY <1>7, <2>2, ReqMoves DEF Idle
    <3>2. /\ hasil' = hasil /\ cron' = cron
          /\ \A p \in Req \ {r} : req'[p] = req[p]
      BY <3>1 DEF SubmitLock, TypeOK
    <3>3. hasil[h].nilai = NULL
      BY <3>1 DEF RowInv, Graded
    <3>4. ~Sweeps(h) /\ \A p \in Req : ~Grades(p, h)
      BY <3>1 DEF SubmitLocked
    <3> QED BY <3>2, <3>3, <3>4
  <2> QED BY <2>1, <2>2
<1>8. /\ cron'.op \in {"sweep", "grade"} =>
            \A h \in cron'.todo : hasil'[h].status # "none"
      /\ cron'.op = "grade" => cron'.h \in HasilId /\ hasil'[cron'.h].status # "none"
  <2>1. \A h \in Expired : h \in HasilId /\ hasil[h].status # "none"
    BY DEF Expired
  <2>2. /\ cron.op \in {"sweep", "grade"} => \A h \in cron.todo :
              h \in HasilId /\ hasil[h].status # "none"
        /\ cron.op = "grade" => cron.h \in HasilId /\ hasil[cron.h].status # "none"
    BY CronFields DEF GraderInv
  <2> QED BY <1>1, <2>1, <2>2, CronMoves DEF Idle
<1>9. ASSUME NEW h \in HasilId, Sweeps(h)' PROVE hasil'[h].nilai = NULL
  <2>1. CASE cron' = cron
    <3>1. hasil[h].status # "none" /\ hasil[h].nilai = NULL
      BY <1>5, <1>9, <2>1 DEF GraderInv
    <3> QED BY <1>6, <1>9, <3>1
  <2>2. CASE cron' # cron
    <3>1. CronLock /\ hasil[h].status = "berlangsung"
      BY <1>9, <2>2, CronMoves DEF Idle
    <3> QED BY <3>1 DEF CronLock, RowInv
  <2> QED BY <2>1, <2>2
<1> QED BY <1>3, <1>7, <1>8, <1>9 DEF GraderInv

-----------------------------------------------------------------------------
(* StarterInv                                                              *)

\* Only an insert for the student adds to the student's live or running
\* attempts.
LEMMA LiveShrinks ==
    ASSUME IndInv, [Next]_vars, NEW s,
           ~\E r \in Req : StartInsert(r) /\ req[r].siswa = s
    PROVE  Live(s)' \subseteq Live(s) /\ Running(s)' \subseteq Running(s)
<1> USE DEF IndInv
<1> SUFFICES ASSUME NEW h \in HasilId, h \in Live(s)'
             PROVE  h \in Live(s) /\ (h \in Running(s)' => h \in Running(s))
  BY DEF Live, Running
<1>1. CASE hasil'[h] = hasil[h]
  BY <1>1 DEF Live, Running
<1>2. ASSUME NEW r \in Req, StartInsert(r), hasil'[h] # hasil[h] PROVE FALSE
  BY <1>2, InsertEffect DEF Live
<1>3. ASSUME CronCommit \/ \E r \in Req : SubmitCommit(r), hasil'[h] # hasil[h]
      PROVE  h \in Live(s) /\ h \notin Running(s)'
  <2>1. PICK k \in HasilId, graded \in [Soal -> JawabanRow], at \in Nat :
              Finalise(k, graded, at) /\ hasil[k].status # "none"
    BY <1>3, GradingStep
  <2>2. /\ hasil[h].status # "none" /\ hasil'[h].status = "selesai"
        /\ hasil'[h].siswa = hasil[h].siswa /\ hasil'[h].deleted = hasil[h].deleted
    BY <1>3, <2>1, FinaliseEffect
  <2> QED BY <2>2 DEF Live, Running
<1>4. ASSUME NEW r \in Req, CancelUpdate(r), hasil'[h] # hasil[h] PROVE FALSE
  BY <1>4, CancelEffect DEF Live
<1> QED BY <1>1, <1>2, <1>3, <1>4, Writers

\* No step lets two requests insert for one student, or lets the student's
\* attempts grow past what the inserting request counted.
LEMMA StarterNext == IndInv /\ [Next]_vars => StarterInv'
<1> SUFFICES ASSUME IndInv, [Next]_vars PROVE StarterInv'
  OBVIOUS
<1> USE DEF IndInv
<1> DEFINE Starts(r, s) == req[r].op = "startInsert" /\ req[r].siswa = s
           Fits(s, n) == Running(s) = {} /\ Cardinality(Live(s)) <= n
           Room(r) == Unlimited(req[r].u, req[r].o) \/ req[r].n < Limit(req[r].u, req[r].o)
<1>1. ASSUME NEW r \in Req, req[r].op = "startInsert"
      PROVE  /\ Fits(req[r].siswa, req[r].n) /\ Room(r) /\ req[r].n \in Nat
             /\ \A p \in Req : Starts(p, req[r].siswa) => p = r
  BY <1>1, ReqFields DEF StarterInv, NoStartCollision
<1>3. ASSUME NEW r \in Req, NEW s, NEW n, req'[r].op = "startInsert",
             req'[r].siswa = s, req'[r].n = n
      PROVE  /\ Fits(s, n)' /\ Room(r)'
             /\ \A p \in Req : Starts(p, s)' => p = r
  <2>1. CASE req'[r] = req[r]
    <3>1. Fits(s, n) /\ n \in Nat /\ \A p \in Req : Starts(p, s) => p = r
      BY <1>1, <1>3, <2>1
    <3>2. ~\E p \in Req : StartInsert(p) /\ req[p].siswa = s
      <4> SUFFICES ASSUME NEW p \in Req, StartInsert(p), req[p].siswa = s
                   PROVE  FALSE
        OBVIOUS
      <4>1. p = r
        BY <3>1 DEF StartInsert
      <4>2. req'[r] = Idle
        BY <4>1 DEF StartInsert, TypeOK
      <4> QED BY <1>3, <4>2 DEF Idle
    <3>3. Live(s)' \subseteq Live(s) /\ Running(s)' \subseteq Running(s)
      BY <3>2, LiveShrinks
    <3>4. Cardinality(Live(s)') <= Cardinality(Live(s)) /\ Cardinality(Live(s)) \in Nat
          /\ Cardinality(Live(s)') \in Nat
      BY <3>3, LiveIsFinite, FS_Subset, FS_CardinalityType
    <3>5. Fits(s, n)'
      BY <3>1, <3>3, <3>4
    <3>6. StartLocked(s)
      BY <1>3, <2>1 DEF StartLocked
    <3>7. ASSUME NEW p \in Req, Starts(p, s)' PROVE p = r
      BY <3>1, <3>6, <3>7, ReqMoves DEF Idle
    <3>8. Room(r)'
      BY <1>1, <1>3, <2>1 DEF Unlimited, Limit
    <3> QED BY <3>5, <3>7, <3>8
  <2>2. CASE req'[r] # req[r]
    <3>1. /\ StartLock(r) /\ ~StartLocked(s) /\ Running(s) = {}
          /\ n = Cardinality(Live(s))
          /\ Unlimited(req'[r].u, req'[r].o) \/ req'[r].n < Limit(req'[r].u, req'[r].o)
      BY <1>3, <2>2, ReqMoves DEF Idle
    <3>2. hasil' = hasil /\ \A p \in Req \ {r} : req'[p] = req[p]
      BY <3>1 DEF StartLock, TypeOK
    <3>3. Live(s)' = Live(s) /\ Running(s)' = Running(s)
      BY <3>2 DEF Live, Running
    <3>4. \A p \in Req : Starts(p, s)' => p = r
      BY <1>3, <3>1, <3>2 DEF StartLocked
    <3>5. Cardinality(Live(s)) \in Nat
      BY LiveIsFinite
    <3>6. Room(r)'
      BY <3>1 DEF Unlimited, Limit
    <3> QED BY <3>1, <3>3, <3>4, <3>5, <3>6
  <2> QED BY <2>1, <2>2
<1> QED BY <1>3 DEF StarterInv, NoStartCollision, Unlimited, Limit

-----------------------------------------------------------------------------
(* The invariant and what follows from it                                  *)

\* A freshly seeded database satisfies the inductive invariant.
LEMMA IndInit == Init => IndInv
<1> SUFFICES ASSUME Init PROVE IndInv
  OBVIOUS
<1>1. TypeOK
  BY TypeInit
<1>2. /\ \A h \in HasilId : /\ hasil[h].status = "none" /\ ~hasil[h].deleted
                             /\ hasil[h].nilai = NULL /\ hasil[h].selesai = NULL
                             /\ gradeEvent[h] = 0
      /\ \A h \in HasilId, q \in Soal :
            jawaban[h][q].poin = 0 /\ jawaban[h][q].isBenar = "null"
      /\ \A r \in Req : req[r].op = "idle"
      /\ cron.op = "idle"
  <2>1. /\ NoHasil.status = "none" /\ ~NoHasil.deleted
        /\ NoHasil.nilai = NULL /\ NoHasil.selesai = NULL
    BY DEF NoHasil
  <2>2. NoJawaban.poin = 0 /\ NoJawaban.isBenar = "null"
    BY DEF NoJawaban
  <2> QED BY <2>1, <2>2 DEF Init, Idle
<1>3. RowInv
  BY <1>2 DEF RowInv, OneGradeEvent
<1>4. GraderInv /\ StarterInv
  BY <1>2 DEF GraderInv, StarterInv, NoStartCollision
<1>5. AnswerInv
  BY <1>2 DEF AnswerInv, LateAnswerNeverScores
<1>6. TimeInv
  BY <1>2 DEF TimeInv, FinishTimeSound
<1> QED BY <1>1, <1>3, <1>4, <1>5, <1>6 DEF IndInv

\* Every step of every handler, of the cron and of the clock keeps it.
LEMMA IndNext == IndInv /\ [Next]_vars => IndInv'
<1> SUFFICES ASSUME IndInv, [Next]_vars PROVE IndInv'
  OBVIOUS
<1>1. TypeOK'
  BY TypeNext DEF IndInv
<1> QED BY <1>1, RowNext, TimeNext, AnswerNext, GraderNext, StarterNext DEF IndInv

\* In every reachable state the five parts hold: rows, graders, starters,
\* answers and times are consistent with each other.
THEOREM InductiveInvariant == Spec => []IndInv
BY IndInit, IndNext, PTL DEF Spec

\* Between its count and its INSERT a Start sees no other attempt of the
\* student appear, whatever the number of requests.
THEOREM NoCollision == Spec => []NoStartCollision
<1>1. IndInv => NoStartCollision
  BY DEF IndInv, StarterInv
<1> QED BY <1>1, InductiveInvariant, PTL

\* Submit and the cron write exactly one grading event per grade.
THEOREM OneEvent == Spec => []OneGradeEvent
<1>1. IndInv => OneGradeEvent
  BY DEF IndInv, RowInv
<1> QED BY <1>1, InductiveInvariant, PTL

\* The recorded grade covers every point and verdict stored in the answers,
\* also when an answer is written after the grading.
THEOREM LateAnswers == Spec => []LateAnswerNeverScores
<1>1. IndInv => LateAnswerNeverScores
  BY DEF IndInv, AnswerInv
<1> QED BY <1>1, InductiveInvariant, PTL

\* selesai_at lies between the start of the attempt and the present.
THEOREM FinishTimes == Spec => []FinishTimeSound
<1>1. IndInv => FinishTimeSound
  BY DEF IndInv, TimeInv
<1> QED BY <1>1, InductiveInvariant, PTL

\* No step changes a grade that was written, and a graded attempt changes its
\* status only by a cancel.
THEOREM GradesStay == Spec => GradedOnce
<1> DEFINE Kept(h) ==
             hasil[h].nilai # NULL =>
               /\ hasil'[h].nilai = hasil[h].nilai
               /\ hasil'[h].benar = hasil[h].benar
               /\ hasil'[h].total = hasil[h].total
               /\ hasil'[h].status \in {hasil[h].status, "dibatalkan"}
<1>1. ASSUME IndInv, [Next]_vars, NEW h \in HasilId PROVE Kept(h)
  <2> USE <1>1 DEF IndInv
  <2>1. CASE hasil'[h] = hasil[h]
    BY <2>1
  <2>2. ASSUME NEW r \in Req, StartInsert(r), hasil'[h] # hasil[h]
        PROVE  hasil[h].nilai = NULL
    BY <2>2, InsertEffect DEF RowInv
  <2>3. ASSUME CronCommit \/ \E r \in Req : SubmitCommit(r), hasil'[h] # hasil[h]
        PROVE  hasil[h].nilai = NULL
    BY <2>3, GradingStep, FinaliseEffect
  <2>4. ASSUME NEW r \in Req, CancelUpdate(r) PROVE Kept(h)
    BY <2>4, CancelEffect
  <2> QED BY <2>1, <2>2, <2>3, <2>4, Writers
<1>2. IndInv /\ [Next]_vars => \A h \in HasilId : Kept(h)
  BY <1>1
<1> QED BY <1>2, InductiveInvariant, PTL DEF Spec, GradedOnce

\* A student gains an attempt only by a Start that had room for it when it
\* inserted.
THEOREM LimitKept == Spec => LimitRespected
<1> DEFINE Room(s) ==
             \E r \in Req :
                /\ req[r].op = "startInsert" /\ req[r].siswa = s
                /\ \/ Unlimited(req[r].u, req[r].o)
                   \/ Cardinality(Live(s)) < Limit(req[r].u, req[r].o)
<1>1. ASSUME IndInv, [Next]_vars, NEW s \in Siswa,
             Cardinality(Live(s)') > Cardinality(Live(s))
      PROVE  Room(s)
  <2> USE <1>1 DEF IndInv
  <2>1. PICK r \in Req : StartInsert(r) /\ req[r].siswa = s
    <3> SUFFICES ASSUME ~\E r \in Req : StartInsert(r) /\ req[r].siswa = s
                 PROVE  FALSE
      OBVIOUS
    <3>1. Live(s)' \subseteq Live(s)
      BY LiveShrinks
    <3>2. Cardinality(Live(s)') <= Cardinality(Live(s)) /\ Cardinality(Live(s)') \in Nat
      BY <3>1, LiveIsFinite, FS_Subset, FS_CardinalityType
    <3> QED BY <1>1, <3>2, LiveIsFinite
  <2>2. req[r].op = "startInsert"
    BY <2>1 DEF StartInsert
  <2>3. /\ Cardinality(Live(s)) <= req[r].n
        /\ Unlimited(req[r].u, req[r].o) \/ req[r].n < Limit(req[r].u, req[r].o)
    BY <2>1, <2>2 DEF StarterInv, NoStartCollision
  <2>4. req[r].n \in Nat /\ Limit(req[r].u, req[r].o) \in Nat
    BY <2>2, ReqFields DEF Limit, UjianRow, OverrideRow
  <2> QED BY <2>1, <2>2, <2>3, <2>4, LiveIsFinite
<1>2. IndInv /\ [Next]_vars => \A s \in Siswa :
          Cardinality(Live(s)') > Cardinality(Live(s)) => Room(s)
  BY <1>1
<1> QED BY <1>2, InductiveInvariant, PTL DEF Spec, LimitRespected

\* An attempt that is cancelled while no grader is at work is never graded.
THEOREM CancelIsSeen == Spec => CancelSeenUnderLock
<1> DEFINE Final(h) ==
             hasil[h].status = "dibatalkan" /\ ~SubmitLocked(h) =>
               ~SubmitLocked(h)' /\ hasil'[h].status = "dibatalkan"
<1>1. ASSUME IndInv, [Next]_vars, NEW h \in HasilId PROVE Final(h)
  <2> USE <1>1 DEF IndInv
  <2> SUFFICES ASSUME hasil[h].status = "dibatalkan", ~SubmitLocked(h)
               PROVE  ~SubmitLocked(h)' /\ hasil'[h].status = "dibatalkan"
    OBVIOUS
  <2>1. ASSUME NEW r \in Req PROVE ~(req'[r].op = "submitGrade" /\ req'[r].h = h)
    <3>1. ~(req[r].op = "submitGrade" /\ req[r].h = h)
      BY DEF SubmitLocked
    <3> QED BY <3>1, ReqMoves DEF Idle
  <2>2. ~(cron'.op = "grade" /\ cron'.h = h)
    <3>1. ~(cron.op = "grade" /\ cron.h = h)
      BY DEF SubmitLocked
    <3> QED BY <3>1, CronMoves DEF Idle
  <2>3. ASSUME NEW r \in Req, SubmitCommit(r) PROVE hasil'[h] = hasil[h]
    <3>1. req[r].h \in HasilId /\ req[r].h # h
      BY <2>3, ReqFields DEF SubmitCommit, SubmitLocked
    <3> QED BY <2>3, <3>1, FinaliseEffect DEF SubmitCommit
  <2>4. ASSUME CronCommit PROVE hasil'[h] = hasil[h]
    <3>1. cron.h \in HasilId /\ cron.h # h
      BY <2>4, CronFields DEF CronCommit, SubmitLocked
    <3> QED BY <2>4, <3>1, FinaliseEffect DEF CronCommit
  <2>5. hasil'[h].status = "dibatalkan"
    BY <2>3, <2>4, Writers, InsertEffect, CancelEffect
  <2> QED BY <2>1, <2>2, <2>5 DEF SubmitLocked
<1>2. IndInv /\ [Next]_vars => \A h \in HasilId : Final(h)
  BY <1>1
<1> QED BY <1>2, InductiveInvariant, PTL DEF Spec, CancelSeenUnderLock

\* A deleted attempt stays deleted and never runs again.
THEOREM DeletedStays == Spec => DeletedForGood
<1> DEFINE Gone(h) == hasil[h].deleted =>
                        hasil'[h].deleted /\ hasil'[h].status # "berlangsung"
<1>1. ASSUME IndInv, [Next]_vars, NEW h \in HasilId PROVE Gone(h)
  <2> USE <1>1 DEF IndInv
  <2> SUFFICES ASSUME hasil[h].deleted
               PROVE  hasil'[h].deleted /\ hasil'[h].status # "berlangsung"
    OBVIOUS
  <2>1. hasil[h].status \in {"selesai", "dibatalkan"}
    BY DEF RowInv
  <2>2. hasil'[h].deleted
    BY <2>1, Writers, InsertEffect, CancelEffect, GradingStep, FinaliseEffect
  <2>3. RowInv'
    BY RowNext
  <2> QED BY <2>2, <2>3 DEF RowInv
<1>2. IndInv /\ [Next]_vars => \A h \in HasilId : Gone(h)
  BY <1>1
<1> QED BY <1>2, InductiveInvariant, PTL DEF Spec, DeletedForGood

\* Grading and cancelling are final: no step of any request, sweep or crash undoes
\* either (ujian/submit.go, timer_cron.go, hasil.go).
THEOREM FinalStays == Spec => FinalIsFinal
  BY GradesStay, DeletedStays DEF FinalIsFinal

-----------------------------------------------------------------------------
(* UjianAttempt implements AttemptLife                                     *)

\* What the abstract attempts are, one at a time.
LEMMA LifeFields ==
    ASSUME NEW h \in HasilId
    PROVE  /\ LifeOwner[h] = hasil[h].siswa
           /\ LifePhase[h] = PhaseOf(hasil[h])
           /\ LifeGrade[h] = hasil[h].nilai
           /\ LifeOwner'[h] = hasil'[h].siswa
           /\ LifePhase'[h] = PhaseOf(hasil'[h])
           /\ LifeGrade'[h] = hasil'[h].nilai
BY DEF LifeOwner, LifePhase, LifeGrade, PhaseOf

\* A step that leaves every attempt but h alone changes the abstract attempts
\* at h only.
LEMMA LifeElsewhere ==
    ASSUME NEW h \in HasilId, \A k \in HasilId \ {h} : hasil'[k] = hasil[k]
    PROVE  /\ LifeOwner' = [LifeOwner EXCEPT ![h] = hasil'[h].siswa]
           /\ LifePhase' = [LifePhase EXCEPT ![h] = PhaseOf(hasil'[h])]
           /\ LifeGrade' = [LifeGrade EXCEPT ![h] = hasil'[h].nilai]
BY DEF LifeOwner, LifePhase, LifeGrade, PhaseOf

\* The same when h keeps its owner, or its grade.
LEMMA LifeKept ==
    ASSUME NEW h \in HasilId, \A k \in HasilId \ {h} : hasil'[k] = hasil[k]
    PROVE  /\ hasil'[h].siswa = hasil[h].siswa => LifeOwner' = LifeOwner
           /\ hasil'[h].nilai = hasil[h].nilai => LifeGrade' = LifeGrade
BY DEF LifeOwner, LifeGrade

\* Before the first Start there is no attempt.
LEMMA LifeInit == Init => Life!Init
<1> SUFFICES ASSUME Init PROVE Life!Init
  OBVIOUS
<1>1. NoHasil.status = "none" /\ NoHasil.nilai = -1 /\ NoHasil.siswa \in Siswa
  BY SetsFinite DEF NoHasil, NULL
<1>2. \A h \in HasilId : hasil[h] = NoHasil
  BY DEF Init
<1>3. LifeOwner \in [HasilId -> Siswa]
  BY <1>1, <1>2 DEF LifeOwner
<1>4. LifePhase = [h \in HasilId |-> "none"]
  BY <1>1, <1>2 DEF LifePhase, PhaseOf
<1>5. LifeGrade = [h \in HasilId |-> -1]
  BY <1>1, <1>2 DEF LifeGrade
<1> QED BY <1>3, <1>4, <1>5 DEF Life!Init

\* An INSERT opens an attempt of a student who has none running: a running
\* row of the student would be a live one, and the lock saw none.
LEMMA LifeOpen ==
    ASSUME IndInv, NEW r \in Req, StartInsert(r)
    PROVE  Life!Next \/ UNCHANGED Life!lifeVars
<1> USE DEF IndInv
<1>1. CASE hasil' = hasil
  BY <1>1 DEF Life!lifeVars, LifeOwner, LifePhase, LifeGrade, PhaseOf
<1>2. CASE hasil' # hasil
  <2>1. PICK h \in HasilId :
            /\ hasil[h].status = "none"
            /\ Running(req[r].siswa) = {}
            /\ hasil'[h].status = "berlangsung" /\ hasil'[h].siswa = req[r].siswa
            /\ hasil'[h].nilai = NULL
            /\ \A k \in HasilId \ {h} : hasil'[k] = hasil[k]
    BY <1>2, InsertEffect
  <2> DEFINE s == req[r].siswa
  <2>2. s \in Siswa
    BY ReqFields DEF StartInsert
  <2>3. LifePhase[h] = "none" /\ PhaseOf(hasil'[h]) = "running"
    BY <2>1, LifeFields DEF PhaseOf
  <2>4. Life!RunningOf(s) = {}
    <3>1. ASSUME NEW k \in HasilId, LifePhase[k] = "running", LifeOwner[k] = s
          PROVE  k \in Running(s)
      <4>1. hasil[k].status = "berlangsung" /\ hasil[k].siswa = s
        BY <3>1, LifeFields DEF PhaseOf
      <4>2. ~hasil[k].deleted
        BY <4>1 DEF RowInv
      <4> QED BY <4>1, <4>2 DEF Running, Live
    <3> QED BY <2>1, <3>1 DEF Life!RunningOf
  <2>5. hasil'[h].nilai = hasil[h].nilai
    BY <2>1, RowFields DEF RowInv
  <2>6. /\ LifeOwner' = [LifeOwner EXCEPT ![h] = s]
        /\ LifePhase' = [LifePhase EXCEPT ![h] = "running"]
        /\ LifeGrade' = LifeGrade
    BY <2>1, <2>3, <2>5, LifeElsewhere, LifeKept
  <2>7. Life!Open(h, s)
    BY <2>3, <2>4, <2>6 DEF Life!Open
  <2> QED BY <2>2, <2>7 DEF Life!Next
<1> QED BY <1>1, <1>2

\* A grading that commits scores an attempt that has no grade.
LEMMA LifeScore ==
    ASSUME IndInv, CronCommit \/ \E r \in Req : SubmitCommit(r)
    PROVE  Life!Next
<1> USE DEF IndInv
<1>1. PICK h \in HasilId, graded \in [Soal -> JawabanRow], at \in Nat :
          Finalise(h, graded, at) /\ hasil[h].status # "none" /\ hasil[h].nilai = NULL
  BY GradingStep
<1>2. /\ hasil'[h].status = "selesai" /\ hasil'[h].siswa = hasil[h].siswa
      /\ hasil'[h].nilai = Nilai(graded)
      /\ \A k \in HasilId \ {h} : hasil'[k] = hasil[k]
  BY <1>1, FinaliseEffect
<1>3. Nilai(graded) \in Nat
  BY CountsAreNat
<1>4. LifePhase[h] # "none" /\ LifeGrade[h] = -1 /\ PhaseOf(hasil'[h]) = "closed"
  BY <1>1, <1>2, LifeFields DEF PhaseOf, NULL
<1>5. /\ LifeOwner' = LifeOwner
      /\ LifePhase' = [LifePhase EXCEPT ![h] = "closed"]
      /\ LifeGrade' = [LifeGrade EXCEPT ![h] = Nilai(graded)]
      /\ LifeGrade'[h] = Nilai(graded)
  BY <1>2, <1>4, LifeElsewhere, LifeKept, LifeFields
<1>6. Life!Score(h)
  BY <1>3, <1>4, <1>5 DEF Life!Score
<1> QED BY <1>6 DEF Life!Next

\* A cancel closes its attempt and touches neither owner nor grade.
LEMMA LifeAbandon ==
    ASSUME IndInv, NEW r \in Req, CancelUpdate(r)
    PROVE  Life!Next
<1> USE DEF IndInv
<1> DEFINE h == req[r].h
<1>1. /\ h \in HasilId
      /\ hasil'[h].status = "dibatalkan" /\ hasil'[h].siswa = hasil[h].siswa
      /\ hasil'[h].nilai = hasil[h].nilai
      /\ \A k \in HasilId \ {h} : hasil'[k] = hasil[k]
  BY CancelEffect
<1>2. hasil[h].status # "none"
  BY DEF CancelUpdate, GraderInv
<1> HIDE DEF h
<1>3. LifePhase[h] # "none" /\ PhaseOf(hasil'[h]) = "closed"
  BY <1>1, <1>2, LifeFields DEF PhaseOf
<1>4. /\ LifeOwner' = LifeOwner /\ LifeGrade' = LifeGrade
      /\ LifePhase' = [LifePhase EXCEPT ![h] = "closed"]
  BY <1>1, <1>3, LifeElsewhere, LifeKept
<1>5. Life!Abandon(h)
  BY <1>3, <1>4 DEF Life!Abandon
<1> QED BY <1>1, <1>5 DEF Life!Next

\* Every step is one of the three, or leaves the abstract attempts alone.
LEMMA LifeStep == IndInv /\ [Next]_vars => [Life!Next]_(Life!lifeVars)
<1> SUFFICES ASSUME IndInv, [Next]_vars
             PROVE  Life!Next \/ UNCHANGED Life!lifeVars
  OBVIOUS
<1>1. CASE hasil' = hasil
  BY <1>1 DEF Life!lifeVars, LifeOwner, LifePhase, LifeGrade, PhaseOf
<1> QED BY <1>1, Writers, LifeOpen, LifeScore, LifeAbandon

\* The exam's handlers together implement the life of an attempt, for every
\* number of students, attempts and requests.
THEOREM RefinesLife == Spec => ImplementsLife
BY LifeInit, LifeStep, InductiveInvariant, PTL DEF Spec, ImplementsLife, Life!Spec
=============================================================================
