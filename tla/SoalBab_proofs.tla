--------------------------- MODULE SoalBab_proofs ---------------------------
(* Proofs about SoalBab for every number of students, questions, attempts  *)
(* and requests and for every bound: its types, the inductive invariant    *)
(* IndInv, the properties that follow from it, and AttemptLife.            *)
EXTENDS SoalBab, FiniteSetTheorems, TLAPS

-----------------------------------------------------------------------------
(* What the helpers return                                                 *)

\* The points and the correct verdicts of an attempt are counted by numbers.
LEMMA CountsAreNat ==
    ASSUME NEW rows \in [Soal -> JawabanRow]
    PROVE  Nilai(rows) \in Nat /\ Benar(rows) \in Nat
<1>1. IsFiniteSet(Soal \X (1..MaxPoin))
  <2>1. IsFiniteSet(1..MaxPoin)
    BY BoundsAreNat, FS_Interval
  <2> QED BY <2>1, SetsFinite, FS_Product
<1>2. IsFiniteSet({p \in Soal \X (1..MaxPoin) : p[2] <= rows[p[1]].poin})
  BY <1>1, FS_Subset
<1>3. IsFiniteSet({q \in Soal : rows[q].isBenar = "ya"})
  BY SetsFinite, FS_Subset
<1> QED BY <1>2, <1>3, FS_CardinalityType DEF Nilai, Benar

\* Rows with no more points and no more correct verdicts count for no more.
LEMMA CountsAreMonotone ==
    ASSUME NEW a \in [Soal -> JawabanRow], NEW b \in [Soal -> JawabanRow],
           \A q \in Soal : a[q].poin = 0 \/ a[q].poin = b[q].poin,
           \A q \in Soal : a[q].isBenar = "ya" => b[q].isBenar = "ya"
    PROVE  Nilai(a) <= Nilai(b) /\ Benar(a) <= Benar(b)
<1> DEFINE Points(x) == {p \in Soal \X (1..MaxPoin) : p[2] <= x[p[1]].poin}
           Right(x) == {q \in Soal : x[q].isBenar = "ya"}
<1>1. IsFiniteSet(Soal \X (1..MaxPoin))
  <2>1. IsFiniteSet(1..MaxPoin)
    BY BoundsAreNat, FS_Interval
  <2> QED BY <2>1, SetsFinite, FS_Product
<1>2. IsFiniteSet(Points(b)) /\ IsFiniteSet(Right(b))
  BY <1>1, SetsFinite, FS_Subset
<1>3. Points(a) \subseteq Points(b)
  <2> SUFFICES ASSUME NEW q \in Soal, NEW i \in 1..MaxPoin, i <= a[q].poin
               PROVE  i <= b[q].poin
    OBVIOUS
  <2> QED BY BoundsAreNat
<1>4. Right(a) \subseteq Right(b)
  OBVIOUS
<1> QED BY <1>2, <1>3, <1>4, FS_Subset DEF Nilai, Benar

\* An answer that was never given carries nothing.
LEMMA EmptyAnswer ==
    /\ NoJawaban \in JawabanRow /\ NoJawaban.jawaban = "-"
    /\ NoJawaban.isBenar = "null" /\ NoJawaban.poin = 0
    /\ \A a \in Jawab : /\ [NoJawaban EXCEPT !.jawaban = a] \in JawabanRow
                        /\ [NoJawaban EXCEPT !.jawaban = a].jawaban = a
                        /\ [NoJawaban EXCEPT !.jawaban = a].isBenar = "null"
                        /\ [NoJawaban EXCEPT !.jawaban = a].poin = 0
BY BoundsAreNat DEF NoJawaban, JawabanRow

\* Grading a row keeps its answer and yields an answer row.
LEMMA GradeRowType ==
    ASSUME soal \in [Soal -> SoalRow], NEW q \in Soal, NEW row \in JawabanRow
    PROVE  GradeRow(q, row) \in JawabanRow /\ GradeRow(q, row).jawaban = row.jawaban
<1>1. soal[q].poin \in 0..MaxPoin
  BY BoundsAreNat DEF SoalRow
<1> DEFINE right == soal[q].ada /\ row.jawaban = soal[q].kunci
           b == IF right THEN "ya" ELSE "tidak"
           p == IF right THEN soal[q].poin ELSE 0
<1>2. b \in {"null", "ya", "tidak"} /\ p \in 0..MaxPoin
  BY <1>1, BoundsAreNat
<1>3. GradeRow(q, row) = [row EXCEPT !.isBenar = b, !.poin = p]
  BY DEF GradeRow
<1> HIDE DEF b, p
<1> QED BY <1>2, <1>3 DEF JawabanRow

\* Grading an attempt yields answer rows.
LEMMA GradeType ==
    ASSUME NEW rows \in [Soal -> JawabanRow], soal \in [Soal -> SoalRow]
    PROVE  Grade(rows) \in Graded
<1>1. \A q \in Soal : rows[q] \in JawabanRow
  OBVIOUS
<1>2. \A q \in Soal : GradeRow(q, rows[q]) \in JawabanRow
  BY <1>1, GradeRowType
<1> QED BY <1>2, EmptyAnswer DEF Grade, Graded

\* What is eligible, drawn or counted is finite, and so are its parts.
LEMMA SetsAreFinite ==
    ASSUME NEW S, S \subseteq Soal \/ S \subseteq HasilId
    PROVE  IsFiniteSet(S) /\ Cardinality(S) \in Nat
BY SetsFinite, FS_Subset, FS_CardinalityType

\* The row an attempt id stands for before its INSERT.
LEMMA EmptyAttempt ==
    /\ NoHasil \in HasilRow /\ NoHasil.status = "none" /\ NoHasil.mode = "latihan"
    /\ NoHasil.nilai = NULL /\ NoHasil.siswa \in Siswa
<1>1. NoHasil.siswa \in Siswa
  BY SetsFinite DEF NoHasil
<1> QED BY <1>1 DEF NoHasil, HasilRow, Waktu

\* A question's partial update keeps its row a row.
LEMMA EditType ==
    ASSUME NEW row \in SoalRow, NEW e \in Edits
    PROVE  [f \in DOMAIN row |-> IF f = "version" THEN row.version + 1
                                 ELSE IF f \in DOMAIN e THEN e[f] ELSE row[f]] \in SoalRow
<1>1. DOMAIN row = {"ada", "kunci", "poin", "mode", "version"}
  BY DEF SoalRow
<1> QED BY <1>1, RowsTyped DEF SoalRow

-----------------------------------------------------------------------------
(* Type correctness                                                        *)

\* The initial tables and the idle goroutines are well typed.
LEMMA TypeInit == Init => TypeOK
<1> SUFFICES ASSUME Init PROVE TypeOK
  OBVIOUS
<1> USE DEF Init
<1>1. now \in Nat /\ fault \in Nat
  BY BoundsAreNat
<1>2. setting \in SettingRow /\ soal \in [Soal -> SoalRow]
  BY RowsTyped
<1>3. hasil \in [HasilId -> HasilRow]
  BY EmptyAttempt
<1>4. jawaban \in [HasilId -> [Soal -> JawabanRow]]
  BY EmptyAnswer
<1>5. gradeEvent \in [HasilId -> Nat]
  OBVIOUS
<1>6. req \in [Req -> ReqState] /\ cron \in CronState
  <2>1. Idle \in ReqState /\ Idle \in CronState
    BY DEF ReqState, CronState
  <2> QED BY <2>1
<1> QED BY <1>1, <1>2, <1>3, <1>4, <1>5, <1>6 DEF TypeOK

\* The fields a request has follow from what it is doing.
LEMMA ReqFields ==
    ASSUME TypeOK, NEW r \in Req
    PROVE  /\ req[r].op = "ulanganWait" =>
                req[r].siswa \in Siswa /\ req[r].set \in SettingValue
           /\ req[r].op = "ulanganInsert" =>
                /\ req[r].siswa \in Siswa /\ req[r].set \in SettingValue
                /\ req[r].n \in Nat /\ req[r].pool \subseteq Soal /\ req[r].t \in Nat
           /\ req[r].op = "latihanFound" => req[r].siswa \in Siswa
           /\ req[r].op = "latihanInsert" =>
                req[r].siswa \in Siswa /\ req[r].pool \subseteq Soal
           /\ req[r].op = "latihanKey" =>
                /\ req[r].h \in HasilId /\ req[r].soal \in Soal
                /\ req[r].jawaban \in Jawab
           /\ req[r].op = "save" =>
                /\ req[r].h \in HasilId /\ req[r].soal \in Soal
                /\ req[r].row \in JawabanRow
           /\ req[r].op \in {"finish", "submitWait", "cancel"} => req[r].h \in HasilId
           /\ req[r].op = "submitGrade" =>
                req[r].h \in HasilId /\ req[r].graded \in Graded
           /\ req[r].op = "settingFind" => req[r].new \in SettingValue
           /\ req[r].op = "settingTx" =>
                req[r].new \in SettingValue /\ req[r].expected \in Nat
           /\ req[r].op = "soalCas" =>
                req[r].soal \in Soal /\ req[r].edit \in Edits
<1>1. req[r] \in ReqState
  BY DEF TypeOK
<1> QED BY <1>1 DEF ReqState, Idle

\* The same for the cron.
LEMMA CronFields ==
    ASSUME TypeOK
    PROVE  /\ cron.op \in {"sweep", "grade"} => cron.todo \subseteq HasilId
           /\ cron.op = "grade" => cron.h \in HasilId /\ cron.graded \in Graded
BY DEF TypeOK, CronState, Idle

\* What a request may be doing next.
LEMMA ReqStates ==
    /\ Idle \in ReqState
    /\ \A s \in Siswa, x \in SettingValue :
          /\ [op |-> "ulanganWait", siswa |-> s, set |-> x] \in ReqState
          /\ \A n \in Nat, d \in SUBSET Soal, t \in Nat :
                [op |-> "ulanganInsert", siswa |-> s, set |-> x, n |-> n,
                 pool |-> d, t |-> t] \in ReqState
    /\ \A s \in Siswa :
          /\ [op |-> "latihanFound", siswa |-> s] \in ReqState
          /\ \A d \in SUBSET Soal :
                [op |-> "latihanInsert", siswa |-> s, pool |-> d] \in ReqState
    /\ \A h \in HasilId, q \in Soal :
          /\ \A a \in Jawab :
                [op |-> "latihanKey", h |-> h, soal |-> q, jawaban |-> a] \in ReqState
          /\ \A x \in JawabanRow :
                [op |-> "save", h |-> h, soal |-> q, row |-> x] \in ReqState
    /\ \A h \in HasilId :
          /\ [op |-> "finish", h |-> h] \in ReqState
          /\ [op |-> "submitWait", h |-> h] \in ReqState
          /\ [op |-> "cancel", h |-> h] \in ReqState
          /\ \A g \in Graded :
                [op |-> "submitGrade", h |-> h, graded |-> g] \in ReqState
    /\ \A x \in SettingValue :
          /\ [op |-> "settingFind", new |-> x] \in ReqState
          /\ \A v \in Nat : [op |-> "settingTx", new |-> x, expected |-> v] \in ReqState
    /\ \A q \in Soal, e \in Edits, v \in Nat :
          [op |-> "soalCas", soal |-> q, edit |-> e, version |-> v] \in ReqState
BY DEF ReqState

\* A sweep with rows left to do is a sweep, one without is over.
LEMMA SweepType ==
    ASSUME NEW todo \in SUBSET HasilId
    PROVE  Sweep(todo) \in CronState
BY DEF Sweep, CronState

\* An INSERT leaves the table alone or gives one unused id the row.
LEMMA InsertEffect ==
    ASSUME TypeOK, NEW row \in HasilRow, Insert(row)
    PROVE  /\ hasil' \in [HasilId -> HasilRow]
           /\ \/ hasil' = hasil
              \/ \E h \in HasilId :
                    /\ hasil[h].status = "none" /\ hasil'[h] = row
                    /\ \A k \in HasilId \ {h} : hasil'[k] = hasil[k]
<1>1. \/ hasil' = hasil
      \/ \E h \in HasilId : hasil[h].status = "none" /\ hasil' = [hasil EXCEPT ![h] = row]
  BY DEF Insert
<1> QED BY <1>1 DEF TypeOK

\* What a ulangan's Start inserts: a running attempt of its student without a grade.
LEMMA UlanganInserts ==
    ASSUME TypeOK, NEW r \in Req, UlanganInsert(r)
    PROVE  \E row \in HasilRow :
              /\ Insert(row) /\ row.status = "berlangsung" /\ row.mode = "ulangan"
              /\ row.siswa = req[r].siswa /\ row.nilai = NULL
<1> DEFINE deadline == req[r].t + req[r].set.durasi
           attemptNo == req[r].n + 1
           row == [NoHasil EXCEPT
                     !.status = "berlangsung", !.siswa = req[r].siswa,
                     !.mode = "ulangan", !.pool = req[r].pool, !.mulai = req[r].t,
                     !.deadline = deadline, !.attemptNo = attemptNo]
<1>1. /\ req[r].siswa \in Siswa /\ deadline \in Nat /\ attemptNo \in Nat
      /\ req[r].pool \subseteq Soal /\ req[r].t \in Nat
  BY ReqFields DEF UlanganInsert, SettingValue
<1>2. /\ row.status = "berlangsung" /\ row.mode = "ulangan"
      /\ row.siswa = req[r].siswa /\ row.nilai = NULL
  BY EmptyAttempt DEF HasilRow
<1>3. Insert(row)
  BY DEF UlanganInsert
<1> HIDE DEF deadline, attemptNo
<1>4. row \in HasilRow
  BY <1>1, EmptyAttempt DEF HasilRow, Waktu
<1> HIDE DEF row
<1> QED BY <1>2, <1>3, <1>4

\* What a latihan's Start inserts.
LEMMA LatihanInserts ==
    ASSUME TypeOK, NEW r \in Req, LatihanInsert(r)
    PROVE  \E row \in HasilRow :
              /\ Insert(row) /\ row.status = "berlangsung" /\ row.mode = "latihan"
              /\ row.nilai = NULL
<1> DEFINE row == [NoHasil EXCEPT
                     !.status = "berlangsung", !.siswa = req[r].siswa,
                     !.pool = req[r].pool, !.mulai = now, !.attemptNo = 1]
<1>1. req[r].siswa \in Siswa /\ req[r].pool \subseteq Soal /\ now \in Nat
  BY ReqFields DEF LatihanInsert, TypeOK
<1>2. row \in HasilRow
  BY <1>1, EmptyAttempt DEF HasilRow
<1>3. row.status = "berlangsung" /\ row.mode = "latihan" /\ row.nilai = NULL
  BY EmptyAttempt DEF HasilRow
<1>4. Insert(row)
  BY DEF LatihanInsert
<1> HIDE DEF row
<1> QED BY <1>2, <1>3, <1>4

\* A grading finishes its attempt with the grade, writes verdicts over the
\* answers it read, logs one event, and leaves every other attempt alone.
LEMMA FinaliseEffect ==
    ASSUME TypeOK, NEW h \in HasilId, NEW graded \in Graded, NEW at \in Waktu,
           Finalise(h, graded, at)
    PROVE  /\ hasil' \in [HasilId -> HasilRow]
           /\ jawaban' \in [HasilId -> [Soal -> JawabanRow]]
           /\ gradeEvent' \in [HasilId -> Nat]
           /\ hasil'[h].status = "selesai" /\ hasil'[h].siswa = hasil[h].siswa
           /\ hasil'[h].mode = hasil[h].mode
           /\ hasil'[h].nilai = Nilai(graded) /\ hasil'[h].benar = Benar(graded)
           /\ gradeEvent'[h] = gradeEvent[h] + 1
           /\ \A q \in Soal :
                /\ jawaban'[h][q].jawaban = jawaban[h][q].jawaban
                /\ \/ jawaban'[h][q] = jawaban[h][q]
                   \/ /\ jawaban'[h][q].poin = graded[q].poin
                      /\ jawaban'[h][q].isBenar = graded[q].isBenar
           /\ \A k \in HasilId \ {h} :
                /\ hasil'[k] = hasil[k] /\ gradeEvent'[k] = gradeEvent[k]
                /\ jawaban'[k] = jawaban[k]
<1> DEFINE row == [hasil[h] EXCEPT !.status = "selesai", !.selesai = at,
                     !.nilai = Nilai(graded), !.benar = Benar(graded),
                     !.total = Cardinality(hasil[h].pool)]
           Mark(q) == [jawaban[h][q] EXCEPT !.isBenar = graded[q].isBenar,
                                            !.poin = graded[q].poin]
           new == [q \in Soal |-> IF graded[q].jawaban = "-" THEN jawaban[h][q]
                                  ELSE Mark(q)]
<1>1. hasil[h] \in HasilRow /\ jawaban[h] \in [Soal -> JawabanRow]
  BY DEF TypeOK
<1>2. Nilai(graded) \in Nat /\ Benar(graded) \in Nat
  BY CountsAreNat DEF Graded
<1>3. Cardinality(hasil[h].pool) \in Nat
  BY <1>1, SetsAreFinite DEF HasilRow
<1>4. /\ row \in HasilRow
      /\ row.status = "selesai" /\ row.siswa = hasil[h].siswa
      /\ row.mode = hasil[h].mode
      /\ row.nilai = Nilai(graded) /\ row.benar = Benar(graded)
  BY <1>1, <1>2, <1>3 DEF HasilRow, Waktu
<1>5. hasil' = [hasil EXCEPT ![h] = row]
  BY DEF Finalise, TypeOK
<1>6. \A q \in Soal :
        /\ Mark(q) \in JawabanRow /\ Mark(q).jawaban = jawaban[h][q].jawaban
        /\ Mark(q).isBenar = graded[q].isBenar /\ Mark(q).poin = graded[q].poin
  <2> SUFFICES ASSUME NEW q \in Soal
               PROVE  /\ Mark(q) \in JawabanRow
                      /\ Mark(q).jawaban = jawaban[h][q].jawaban
                      /\ Mark(q).isBenar = graded[q].isBenar
                      /\ Mark(q).poin = graded[q].poin
    OBVIOUS
  <2>1. jawaban[h][q] \in JawabanRow /\ graded[q] \in JawabanRow
    BY <1>1 DEF Graded
  <2> QED BY <2>1 DEF JawabanRow
<1>7. jawaban' = [jawaban EXCEPT ![h] = new]
  BY DEF Finalise
<1> HIDE DEF row, Mark
<1>8. new \in [Soal -> JawabanRow]
  BY <1>1, <1>6
<1>9. \A q \in Soal : new[q] = jawaban[h][q] \/ new[q] = Mark(q)
  OBVIOUS
<1> HIDE DEF new
<1>10. /\ hasil' \in [HasilId -> HasilRow] /\ hasil'[h] = row
       /\ \A k \in HasilId \ {h} : hasil'[k] = hasil[k]
  BY <1>4, <1>5 DEF TypeOK
<1>11. /\ jawaban' \in [HasilId -> [Soal -> JawabanRow]] /\ jawaban'[h] = new
       /\ \A k \in HasilId \ {h} : jawaban'[k] = jawaban[k]
  BY <1>7, <1>8 DEF TypeOK
<1>12. /\ gradeEvent' \in [HasilId -> Nat] /\ gradeEvent'[h] = gradeEvent[h] + 1
       /\ \A k \in HasilId \ {h} : gradeEvent'[k] = gradeEvent[k]
  <2>1. gradeEvent' = [gradeEvent EXCEPT ![h] = gradeEvent[h] + 1]
    BY DEF Finalise
  <2> QED BY <2>1 DEF TypeOK
<1>13. \A q \in Soal :
          /\ jawaban'[h][q].jawaban = jawaban[h][q].jawaban
          /\ \/ jawaban'[h][q] = jawaban[h][q]
             \/ /\ jawaban'[h][q].poin = graded[q].poin
                /\ jawaban'[h][q].isBenar = graded[q].isBenar
  BY <1>6, <1>9, <1>11
<1> QED BY <1>4, <1>10, <1>11, <1>12, <1>13

\* A cancel or a Finish writes status and selesai_at of its row only.
LEMMA StatusEffect ==
    ASSUME TypeOK, NEW h \in HasilId, NEW st \in {"selesai", "dibatalkan"},
           hasil' = [hasil EXCEPT ![h].status = st, ![h].selesai = now]
    PROVE  /\ hasil' \in [HasilId -> HasilRow]
           /\ hasil'[h].status = st /\ hasil'[h].siswa = hasil[h].siswa
           /\ hasil'[h].mode = hasil[h].mode
           /\ hasil'[h].nilai = hasil[h].nilai /\ hasil'[h].benar = hasil[h].benar
           /\ \A k \in HasilId \ {h} : hasil'[k] = hasil[k]
<1> DEFINE row == [hasil[h] EXCEPT !.status = st, !.selesai = now]
<1>1. hasil[h] \in HasilRow /\ now \in Waktu
  BY DEF TypeOK, Waktu
<1>2. /\ row \in HasilRow
      /\ row.status = st /\ row.siswa = hasil[h].siswa /\ row.mode = hasil[h].mode
      /\ row.nilai = hasil[h].nilai /\ row.benar = hasil[h].benar
  BY <1>1 DEF HasilRow
<1>3. hasil' = [hasil EXCEPT ![h] = row]
  BY DEF TypeOK
<1> HIDE DEF row
<1>4. row \in HasilRow /\ hasil \in [HasilId -> HasilRow]
  BY <1>2 DEF TypeOK
<1>5. hasil'[h] = row /\ \A k \in HasilId \ {h} : hasil'[k] = hasil[k]
  BY <1>3, <1>4
<1>6. hasil' \in [HasilId -> HasilRow]
  BY <1>3, <1>4
<1> QED BY <1>2, <1>5, <1>6

\* Every step keeps the types.
LEMMA TypeNext == TypeOK /\ [Next]_vars => TypeOK'
<1> SUFFICES ASSUME TypeOK, [Next]_vars PROVE TypeOK'
  OBVIOUS
<1> USE DEF teacherVars, attemptVars
<1>0. \A r \in Req : \A x \in ReqState : Become(r, x) => req' \in [Req -> ReqState]
  BY DEF Become, TypeOK
<1>1. ASSUME NEW r \in Req, NEW s \in Siswa, UlanganFind(r, s) PROVE TypeOK'
  <2>1. setting.isi \in SettingValue
    BY DEF TypeOK, SettingRow
  <2>2. req' \in [Req -> ReqState]
    BY <1>0, <1>1, <2>1, ReqStates DEF UlanganFind
  <2> QED BY <1>1, <2>2 DEF UlanganFind, TypeOK
<1>2. ASSUME NEW r \in Req, NEW s \in Siswa, LatihanFind(r, s) PROVE TypeOK'
  <2>1. req' \in [Req -> ReqState]
    BY <1>0, <1>2, ReqStates DEF LatihanFind
  <2> QED BY <1>2, <2>1 DEF LatihanFind, TypeOK
<1>3. ASSUME NEW r \in Req, UlanganLock(r) PROVE TypeOK'
  <2> DEFINE s == req[r].siswa
             n == Cardinality(Counted(s))
             Drawn(d) == [op |-> "ulanganInsert", siswa |-> s, set |-> req[r].set,
                          n |-> n, pool |-> d, t |-> now]
  <2>1. s \in Siswa /\ req[r].set \in SettingValue /\ now \in Nat
    BY <1>3, ReqFields DEF UlanganLock, TypeOK
  <2>2. n \in Nat
    BY SetsAreFinite DEF Counted, Of
  <2>3. Eligible("ulangan") \subseteq Soal
    BY DEF Eligible
  <2>4. \A d \in SUBSET Soal : Drawn(d) \in ReqState
    BY <2>1, <2>2, ReqStates
  <2>5. \/ Become(r, Idle)
        \/ \E d \in SUBSET Eligible("ulangan") : Become(r, Drawn(d))
    BY <1>3 DEF UlanganLock
  <2> HIDE DEF Drawn
  <2>6. req' \in [Req -> ReqState]
    BY <1>0, <2>3, <2>4, <2>5, ReqStates
  <2> QED BY <1>3, <2>6 DEF UlanganLock, TypeOK
<1>4. ASSUME NEW r \in Req, UlanganInsert(r) \/ LatihanInsert(r) PROVE TypeOK'
  <2>1. hasil' \in [HasilId -> HasilRow]
    BY <1>4, UlanganInserts, LatihanInserts, InsertEffect
  <2>2. req' \in [Req -> ReqState]
    BY <1>0, <1>4, ReqStates DEF UlanganInsert, LatihanInsert
  <2> QED BY <1>4, <2>1, <2>2 DEF UlanganInsert, LatihanInsert, TypeOK
<1>5. ASSUME NEW r \in Req, LatihanPool(r) PROVE TypeOK'
  <2>1. req[r].siswa \in Siswa /\ Eligible("latihan") \subseteq Soal
    BY <1>5, ReqFields DEF LatihanPool, Eligible
  <2>2. req' \in [Req -> ReqState]
    BY <1>0, <1>5, <2>1, ReqStates DEF LatihanPool
  <2> QED BY <1>5, <2>2 DEF LatihanPool, TypeOK
<1>6. ASSUME NEW r \in Req, NEW h \in HasilId, NEW q \in Soal, NEW a \in Jawab,
             AnswerFind(r, h, q, a)
      PROVE  TypeOK'
  <2>1. req' \in [Req -> ReqState]
    BY <1>0, <1>6, EmptyAnswer, ReqStates DEF AnswerFind
  <2> QED BY <1>6, <2>1 DEF AnswerFind, TypeOK
<1>7. ASSUME NEW r \in Req, LatihanKey(r) PROVE TypeOK'
  <2> DEFINE row == GradeRow(req[r].soal, [NoJawaban EXCEPT !.jawaban = req[r].jawaban])
  <2>1. req[r].h \in HasilId /\ req[r].soal \in Soal /\ req[r].jawaban \in Jawab
    BY <1>7, ReqFields DEF LatihanKey
  <2>2. row \in JawabanRow
    BY <2>1, EmptyAnswer, GradeRowType DEF TypeOK
  <2>3. \/ Become(r, Idle)
        \/ Become(r, [op |-> "save", h |-> req[r].h, soal |-> req[r].soal, row |-> row])
    BY <1>7 DEF LatihanKey
  <2> HIDE DEF row
  <2>4. req' \in [Req -> ReqState]
    BY <1>0, <2>1, <2>2, <2>3, ReqStates
  <2> QED BY <1>7, <2>4 DEF LatihanKey, TypeOK
<1>8. ASSUME NEW r \in Req, AnswerSave(r) PROVE TypeOK'
  <2>1. /\ req[r].h \in HasilId /\ req[r].soal \in Soal
        /\ req[r].row \in JawabanRow
    BY <1>8, ReqFields DEF AnswerSave
  <2>2. jawaban' \in [HasilId -> [Soal -> JawabanRow]]
    BY <1>8, <2>1 DEF AnswerSave, TypeOK
  <2>3. req' \in [Req -> ReqState]
    BY <1>0, <1>8, ReqStates DEF AnswerSave
  <2> QED BY <1>8, <2>2, <2>3 DEF AnswerSave, TypeOK
<1>9. ASSUME NEW r \in Req, NEW h \in HasilId,
             FinishFind(r, h) \/ SubmitFind(r, h) \/ CancelFind(r, h)
      PROVE  TypeOK'
  <2>1. req' \in [Req -> ReqState]
    BY <1>0, <1>9, ReqStates DEF FinishFind, SubmitFind, CancelFind
  <2> QED BY <1>9, <2>1 DEF FinishFind, SubmitFind, CancelFind, TypeOK
<1>10. ASSUME NEW r \in Req, FinishUpdate(r) \/ CancelUpdate(r) PROVE TypeOK'
  <2>1. req[r].h \in HasilId
    BY <1>10, ReqFields DEF FinishUpdate, CancelUpdate
  <2>2. \E st \in {"selesai", "dibatalkan"} :
          hasil' = [hasil EXCEPT ![req[r].h].status = st, ![req[r].h].selesai = now]
    BY <1>10 DEF FinishUpdate, CancelUpdate
  <2>3. hasil' \in [HasilId -> HasilRow]
    BY <2>1, <2>2, StatusEffect
  <2>4. req' \in [Req -> ReqState]
    BY <1>0, <1>10, ReqStates DEF FinishUpdate, CancelUpdate
  <2> QED BY <1>10, <2>3, <2>4 DEF FinishUpdate, CancelUpdate, TypeOK
<1>11. ASSUME NEW r \in Req, SubmitLock(r) PROVE TypeOK'
  <2>1. req[r].h \in HasilId
    BY <1>11, ReqFields DEF SubmitLock
  <2>2. Grade(jawaban[req[r].h]) \in Graded
    BY <2>1, GradeType DEF TypeOK
  <2>3. req' \in [Req -> ReqState]
    BY <1>0, <1>11, <2>1, <2>2, ReqStates DEF SubmitLock
  <2> QED BY <1>11, <2>3 DEF SubmitLock, TypeOK
<1>12. ASSUME NEW r \in Req, SubmitCommit(r) PROVE TypeOK'
  <2>1. req[r].h \in HasilId /\ req[r].graded \in Graded /\ now \in Waktu
    BY <1>12, ReqFields DEF SubmitCommit, TypeOK, Waktu
  <2>2. Finalise(req[r].h, req[r].graded, now) \/ UNCHANGED attemptVars
    BY <1>12 DEF SubmitCommit
  <2>3. /\ hasil' \in [HasilId -> HasilRow]
        /\ jawaban' \in [HasilId -> [Soal -> JawabanRow]]
        /\ gradeEvent' \in [HasilId -> Nat]
    BY <2>1, <2>2, FinaliseEffect DEF TypeOK
  <2>4. req' \in [Req -> ReqState]
    BY <1>0, <1>12, ReqStates DEF SubmitCommit
  <2> QED BY <1>12, <2>3, <2>4 DEF SubmitCommit, TypeOK
<1>13. ASSUME NEW r \in Req, NEW x \in Settings, SettingCount(r, x) PROVE TypeOK'
  <2>1. req' \in [Req -> ReqState]
    BY <1>0, <1>13, RowsTyped, ReqStates DEF SettingCount
  <2> QED BY <1>13, <2>1 DEF SettingCount, TypeOK
<1>14. ASSUME NEW r \in Req, SettingFind(r) PROVE TypeOK'
  <2>1. req[r].new \in SettingValue /\ setting.version \in Nat
    BY <1>14, ReqFields DEF SettingFind, TypeOK, SettingRow
  <2>2. req' \in [Req -> ReqState]
    BY <1>0, <1>14, <2>1, ReqStates DEF SettingFind
  <2> QED BY <1>14, <2>2 DEF SettingFind, TypeOK
<1>15. ASSUME NEW r \in Req, SettingTx(r) PROVE TypeOK'
  <2>1. /\ req[r].new \in SettingValue
        /\ [req[r].new EXCEPT !.review = TRUE] \in SettingValue
    BY <1>15, ReqFields DEF SettingTx, SettingValue
  <2>2. setting.version + 1 \in Nat
    BY DEF TypeOK, SettingRow
  <2>3. \A x \in SettingValue, v \in Nat :
          [ada |-> TRUE, version |-> v, isi |-> x] \in SettingRow
    BY DEF SettingRow
  <2>4. setting' \in SettingRow
    BY <1>15, <2>1, <2>2, <2>3 DEF SettingTx, TypeOK
  <2>5. req' \in [Req -> ReqState]
    BY <1>0, <1>15, ReqStates DEF SettingTx
  <2> QED BY <1>15, <2>4, <2>5 DEF SettingTx, TypeOK
<1>16. ASSUME NEW r \in Req, NEW q \in Editable, NEW e \in Edits, SoalFind(r, q, e)
       PROVE  TypeOK'
  <2>1. q \in Soal /\ soal[q].version \in Nat
    BY SetsFinite DEF TypeOK, SoalRow
  <2>2. req' \in [Req -> ReqState]
    BY <1>0, <1>16, <2>1, ReqStates DEF SoalFind
  <2> QED BY <1>16, <2>2 DEF SoalFind, TypeOK
<1>17. ASSUME NEW r \in Req, SoalCas(r) PROVE TypeOK'
  <2> DEFINE q == req[r].soal
             e == req[r].edit
             Edited(row) == [f \in DOMAIN row |->
                               IF f = "version" THEN row.version + 1
                               ELSE IF f \in DOMAIN e THEN e[f] ELSE row[f]]
  <2>1. q \in Soal /\ e \in Edits /\ soal[q] \in SoalRow
    BY <1>17, ReqFields DEF SoalCas, TypeOK
  <2>2. Edited(soal[q]) \in SoalRow
    BY <2>1, EditType
  <2>3. soal' = soal \/ soal' = [soal EXCEPT ![q] = Edited(soal[q])]
    BY <1>17 DEF SoalCas
  <2> HIDE DEF Edited
  <2>4. soal' \in [Soal -> SoalRow]
    BY <2>1, <2>2, <2>3 DEF TypeOK
  <2>5. req' \in [Req -> ReqState]
    BY <1>0, <1>17, ReqStates DEF SoalCas
  <2> QED BY <1>17, <2>4, <2>5 DEF SoalCas, TypeOK
<1>18. ASSUME NEW S \in SUBSET Editable, NEW x \in SoalBaru, SoalCreate(S, x)
       PROVE  TypeOK'
  <2>1. soal' \in [Soal -> SoalRow]
    BY <1>18, RowsTyped DEF SoalCreate, TypeOK
  <2> QED BY <1>18, <2>1 DEF SoalCreate, TypeOK
<1>19. ASSUME NEW q \in Editable, SoalDelete(q) PROVE TypeOK'
  <2>1. q \in Soal /\ soal[q] \in SoalRow
    BY SetsFinite DEF TypeOK
  <2>2. [soal[q] EXCEPT !.ada = FALSE] \in SoalRow
    BY <2>1 DEF SoalRow
  <2>3. soal' = [soal EXCEPT ![q] = [soal[q] EXCEPT !.ada = FALSE]]
    BY <1>19, <2>1 DEF SoalDelete, TypeOK
  <2> QED BY <1>19, <2>2, <2>3 DEF SoalDelete, TypeOK
<1>20. ASSUME CronScan PROVE TypeOK'
  <2>1. \A b \in Batches(Expired) : b \subseteq HasilId
    BY DEF Batches, Expired
  <2>2. \A b \in SUBSET HasilId : [op |-> "sweep", todo |-> b] \in CronState
    BY DEF CronState
  <2> QED BY <1>20, <2>1, <2>2 DEF CronScan, TypeOK
<1>21. ASSUME CronLock PROVE TypeOK'
  <2>1. cron.todo \subseteq HasilId
    BY <1>21, CronFields DEF CronLock
  <2>2. \A h \in cron.todo : Sweep(cron.todo \ {h}) \in CronState
    BY <2>1, SweepType
  <2>3. \A h \in cron.todo : Grade(jawaban[h]) \in Graded
    BY <2>1, GradeType DEF TypeOK
  <2>4. \A h \in cron.todo :
          [op |-> "grade", todo |-> cron.todo \ {h}, h |-> h,
           graded |-> Grade(jawaban[h])] \in CronState
    BY <2>1, <2>3 DEF CronState
  <2>5. cron' \in CronState
    BY <1>21, <2>2, <2>4 DEF CronLock
  <2> QED BY <1>21, <2>5 DEF CronLock, TypeOK
<1>22. ASSUME CronCommit PROVE TypeOK'
  <2>1. cron.todo \subseteq HasilId /\ cron.h \in HasilId /\ cron.graded \in Graded
    BY <1>22, CronFields DEF CronCommit
  <2>2. hasil[cron.h].deadline \in Waktu
    BY <2>1 DEF TypeOK, HasilRow
  <2>3. \/ Finalise(cron.h, cron.graded, hasil[cron.h].deadline)
        \/ UNCHANGED attemptVars
    BY <1>22 DEF CronCommit
  <2>4. /\ hasil' \in [HasilId -> HasilRow]
        /\ jawaban' \in [HasilId -> [Soal -> JawabanRow]]
        /\ gradeEvent' \in [HasilId -> Nat]
    BY <2>1, <2>2, <2>3, FinaliseEffect DEF TypeOK
  <2>5. cron' \in CronState
    BY <1>22, <2>1, SweepType DEF CronCommit
  <2> QED BY <1>22, <2>4, <2>5 DEF CronCommit, TypeOK
<1>23. ASSUME CronFail PROVE TypeOK'
  <2>1. Sweep(cron.todo) \in CronState /\ fault' \in Nat
    BY <1>23, CronFields, SweepType DEF CronFail, TypeOK
  <2> QED BY <1>23, <2>1 DEF CronFail, TypeOK
<1>24. ASSUME NEW r \in Req, ReqFail(r) PROVE TypeOK'
  <2>1. req' \in [Req -> ReqState] /\ fault' \in Nat
    BY <1>0, <1>24, ReqStates DEF ReqFail, TypeOK
  <2> QED BY <1>24, <2>1 DEF ReqFail, TypeOK
<1>25. ASSUME Tick PROVE TypeOK'
  BY <1>25 DEF Tick, TypeOK
<1>26. ASSUME Crash PROVE TypeOK'
  <2>1. Idle \in ReqState /\ Idle \in CronState
    BY DEF ReqState, CronState
  <2> QED BY <1>26, <2>1 DEF Crash, TypeOK
<1>27. CASE UNCHANGED vars
  BY <1>27 DEF vars, TypeOK
<1> QED
  BY <1>1, <1>2, <1>3, <1>4, <1>5, <1>6, <1>7, <1>8, <1>9, <1>10, <1>11, <1>12,
     <1>13, <1>14, <1>15, <1>16, <1>17, <1>18, <1>19, <1>20, <1>21, <1>22,
     <1>23, <1>24, <1>25, <1>26, <1>27
  DEF Next, Step, StudentAction, TeacherAction, CronStep

-----------------------------------------------------------------------------
(* What a step does                                                        *)

\* Only these steps write hasil_soal_bab, jawaban_bab or event_bab.
LEMMA Writers ==
    ASSUME [Next]_vars
    PROVE  \/ UNCHANGED attemptVars
           \/ \E r \in Req : \/ UlanganInsert(r) \/ LatihanInsert(r) \/ AnswerSave(r)
                             \/ FinishUpdate(r) \/ SubmitCommit(r) \/ CancelUpdate(r)
           \/ CronCommit
<1> DEFINE Writes(r) == \/ UlanganInsert(r) \/ LatihanInsert(r) \/ AnswerSave(r)
                        \/ FinishUpdate(r) \/ SubmitCommit(r) \/ CancelUpdate(r)
<1>1. ASSUME NEW r \in Req, StudentAction(r)
      PROVE  UNCHANGED attemptVars \/ Writes(r)
  BY <1>1 DEF StudentAction, UlanganFind, LatihanFind, UlanganLock, LatihanPool,
     AnswerFind, LatihanKey, FinishFind, SubmitFind, SubmitLock
<1>2. ASSUME NEW r \in Req, TeacherAction(r) \/ ReqFail(r)
      PROVE  UNCHANGED attemptVars \/ Writes(r)
  BY <1>2 DEF TeacherAction, CancelFind, SettingCount, SettingFind, SettingTx,
     SoalFind, SoalCas, ReqFail
<1>3. ASSUME \/ \E S \in SUBSET Editable, x \in SoalBaru : SoalCreate(S, x)
             \/ \E q \in Editable : SoalDelete(q)
             \/ CronStep \/ CronFail \/ Tick \/ Crash \/ UNCHANGED vars
      PROVE  UNCHANGED attemptVars \/ CronCommit
  BY <1>3 DEF SoalCreate, SoalDelete, CronStep, CronScan, CronLock, CronFail,
     Tick, Crash, vars
<1> QED BY <1>1, <1>2, <1>3 DEF Next, Step

\* A grading that commits finds a ulangan without a grade: its lock has kept
\* every other grader away.
LEMMA GradingStep ==
    ASSUME IndInv, CronCommit \/ \E r \in Req : SubmitCommit(r)
    PROVE  \/ UNCHANGED attemptVars
           \/ \E h \in HasilId, graded \in Graded, at \in Waktu :
                /\ Finalise(h, graded, at)
                /\ hasil[h].mode = "ulangan" /\ hasil[h].nilai = NULL
                /\ \/ CronCommit /\ cron.h = h
                   \/ \E r \in Req : SubmitCommit(r) /\ req[r].h = h
<1> USE DEF IndInv
<1> DEFINE Goal ==
           \/ UNCHANGED attemptVars
           \/ \E h \in HasilId, graded \in Graded, at \in Waktu :
                /\ Finalise(h, graded, at)
                /\ hasil[h].mode = "ulangan" /\ hasil[h].nilai = NULL
                /\ \/ CronCommit /\ cron.h = h
                   \/ \E r \in Req : SubmitCommit(r) /\ req[r].h = h
<1>1. ASSUME NEW r \in Req, SubmitCommit(r) PROVE Goal
  <2>1. req[r].h \in HasilId /\ req[r].graded \in Graded /\ now \in Waktu
    BY <1>1, ReqFields DEF SubmitCommit, TypeOK, Waktu
  <2>2. hasil[req[r].h].mode = "ulangan"
    BY <1>1 DEF SubmitCommit, WorkInv
  <2>3. hasil[req[r].h].nilai = NULL
    BY <1>1, <2>1 DEF SubmitCommit, GraderInv, SubmitLocked
  <2>4. Finalise(req[r].h, req[r].graded, now) \/ UNCHANGED attemptVars
    BY <1>1 DEF SubmitCommit
  <2> QED BY <1>1, <2>1, <2>2, <2>3, <2>4
<1>2. ASSUME CronCommit PROVE Goal
  <2>1. cron.h \in HasilId /\ cron.graded \in Graded
    BY <1>2, CronFields DEF CronCommit
  <2>2. hasil[cron.h].mode = "ulangan"
    BY <1>2 DEF CronCommit, WorkInv
  <2>3. hasil[cron.h].nilai = NULL /\ hasil[cron.h].deadline \in Waktu
    BY <1>2, <2>1 DEF CronCommit, GraderInv, SubmitLocked, TypeOK, HasilRow
  <2>4. \/ Finalise(cron.h, cron.graded, hasil[cron.h].deadline)
        \/ UNCHANGED attemptVars
    BY <1>2 DEF CronCommit
  <2> QED BY <1>2, <2>1, <2>2, <2>3, <2>4
<1> QED BY <1>1, <1>2

\* What a step can do to an attempt: nothing, open it, grade a ulangan that has
\* no grade, finish a latihan, or cancel a ulangan.
Opened(h) ==
    /\ hasil[h].status = "none" /\ hasil'[h].status = "berlangsung"
    /\ hasil'[h].nilai = NULL
    /\ gradeEvent' = gradeEvent /\ jawaban' = jawaban
    /\ \/ hasil'[h].mode = "latihan"
       \/ hasil'[h].mode = "ulangan" /\ \E r \in Req :
             UlanganInsert(r) /\ hasil'[h].siswa = req[r].siswa
Kept(h) ==
    /\ hasil'[h].siswa = hasil[h].siswa /\ hasil'[h].mode = hasil[h].mode
    /\ hasil'[h].nilai = hasil[h].nilai /\ hasil'[h].benar = hasil[h].benar
    /\ gradeEvent' = gradeEvent /\ jawaban' = jawaban
Scored(h) ==
    /\ hasil[h].mode = "ulangan" /\ hasil[h].nilai = NULL
    /\ hasil'[h].status = "selesai" /\ hasil'[h].nilai \in Nat
    /\ hasil'[h].siswa = hasil[h].siswa /\ hasil'[h].mode = "ulangan"
    /\ gradeEvent'[h] = gradeEvent[h] + 1
    /\ \/ CronCommit /\ cron.h = h
       \/ \E r \in Req : SubmitCommit(r) /\ req[r].h = h
Finished(h) ==
    /\ hasil[h].status # "none" /\ hasil[h].mode = "latihan"
    /\ hasil'[h].status = "selesai" /\ Kept(h)
Cancelled(h) ==
    /\ hasil[h].mode = "ulangan" /\ hasil'[h].status = "dibatalkan" /\ Kept(h)
Same(h) == hasil'[h] = hasil[h] /\ gradeEvent'[h] = gradeEvent[h]

\* Every step moves one attempt at most, in one of those ways.
LEMMA RowMoves ==
    ASSUME IndInv, [Next]_vars
    PROVE  \/ hasil' = hasil /\ gradeEvent' = gradeEvent
           \/ \E h \in HasilId :
                /\ Opened(h) \/ Scored(h) \/ Finished(h) \/ Cancelled(h)
                /\ \A k \in HasilId \ {h} : Same(k)
<1> USE DEF IndInv
<1> DEFINE Goal ==
           \/ hasil' = hasil /\ gradeEvent' = gradeEvent
           \/ \E h \in HasilId :
                /\ Opened(h) \/ Scored(h) \/ Finished(h) \/ Cancelled(h)
                /\ \A k \in HasilId \ {h} : Same(k)
<1>1. ASSUME NEW r \in Req, UlanganInsert(r) PROVE Goal
  <2>1. PICK row \in HasilRow :
            /\ Insert(row) /\ row.status = "berlangsung" /\ row.mode = "ulangan"
            /\ row.siswa = req[r].siswa /\ row.nilai = NULL
    BY <1>1, UlanganInserts
  <2>2. gradeEvent' = gradeEvent /\ jawaban' = jawaban
    BY <1>1 DEF UlanganInsert
  <2> QED BY <1>1, <2>1, <2>2, InsertEffect DEF Opened, Same
<1>2. ASSUME NEW r \in Req, LatihanInsert(r) PROVE Goal
  <2>1. PICK row \in HasilRow :
            /\ Insert(row) /\ row.status = "berlangsung" /\ row.mode = "latihan"
            /\ row.nilai = NULL
    BY <1>2, LatihanInserts
  <2>2. gradeEvent' = gradeEvent /\ jawaban' = jawaban
    BY <1>2 DEF LatihanInsert
  <2> QED BY <2>1, <2>2, InsertEffect DEF Opened, Same
<1>3. ASSUME NEW r \in Req, FinishUpdate(r) PROVE Goal
  <2>1. /\ req[r].h \in HasilId /\ hasil[req[r].h].status # "none"
        /\ hasil[req[r].h].mode = "latihan"
    BY <1>3, ReqFields DEF FinishUpdate, WorkInv
  <2>2. /\ hasil' = [hasil EXCEPT ![req[r].h].status = "selesai", ![req[r].h].selesai = now]
        /\ gradeEvent' = gradeEvent /\ jawaban' = jawaban
    BY <1>3 DEF FinishUpdate
  <2>3. Finished(req[r].h) /\ \A k \in HasilId \ {req[r].h} : Same(k)
    BY <2>1, <2>2, StatusEffect DEF Finished, Kept, Same
  <2> QED BY <2>1, <2>3
<1>4. ASSUME NEW r \in Req, CancelUpdate(r) PROVE Goal
  <2>1. req[r].h \in HasilId /\ hasil[req[r].h].mode = "ulangan"
    BY <1>4, ReqFields DEF CancelUpdate, WorkInv
  <2>2. /\ hasil' = [hasil EXCEPT ![req[r].h].status = "dibatalkan", ![req[r].h].selesai = now]
        /\ gradeEvent' = gradeEvent /\ jawaban' = jawaban
    BY <1>4 DEF CancelUpdate
  <2>3. Cancelled(req[r].h) /\ \A k \in HasilId \ {req[r].h} : Same(k)
    BY <2>1, <2>2, StatusEffect DEF Cancelled, Kept, Same
  <2> QED BY <2>1, <2>3
<1>5. ASSUME CronCommit \/ \E r \in Req : SubmitCommit(r) PROVE Goal
  <2>1. CASE UNCHANGED attemptVars
    BY <2>1 DEF attemptVars
  <2>2. ASSUME NEW h \in HasilId, NEW graded \in Graded, NEW at \in Waktu,
               Finalise(h, graded, at),
               hasil[h].mode = "ulangan", hasil[h].nilai = NULL,
               \/ CronCommit /\ cron.h = h
               \/ \E r \in Req : SubmitCommit(r) /\ req[r].h = h
        PROVE  Goal
    <3>1. Nilai(graded) \in Nat
      BY CountsAreNat DEF Graded
    <3>2. Scored(h) /\ \A k \in HasilId \ {h} : Same(k)
      BY <2>2, <3>1, FinaliseEffect DEF Scored, Same
    <3> QED BY <3>2
  <2> QED BY <1>5, <2>1, <2>2, GradingStep
<1>6. ASSUME NEW r \in Req, AnswerSave(r) PROVE Goal
  BY <1>6 DEF AnswerSave
<1>7. CASE UNCHANGED attemptVars
  BY <1>7 DEF attemptVars
<1> QED BY <1>1, <1>2, <1>3, <1>4, <1>5, <1>6, <1>7, Writers

\* No step changes whose an attempt is, or of which kind, once it exists, or
\* makes it not exist.
LEMMA KindStays ==
    ASSUME IndInv, [Next]_vars, NEW h \in HasilId, hasil[h].status # "none"
    PROVE  /\ hasil'[h].status # "none" /\ hasil'[h].mode = hasil[h].mode
           /\ hasil'[h].siswa = hasil[h].siswa
BY RowMoves DEF Opened, Scored, Finished, Cancelled, Kept, Same

\* What a step can make of a request that goes on to write: each has checked
\* something about the state it leaves behind.
ToInsert(r) ==
    /\ UlanganLock(r) /\ req'[r].op = "ulanganInsert" /\ req'[r].siswa = req[r].siswa
    /\ ~StartLocked(req[r].siswa) /\ Running(req[r].siswa, "ulangan") = {}
    /\ req'[r].set.unlimited \/ req'[r].n < req'[r].set.batas
ToLatihan(r) ==
    /\ req'[r].op \in {"latihanKey", "finish"} /\ req'[r].h \in HasilId
    /\ hasil[req'[r].h].status # "none" /\ hasil[req'[r].h].mode = "latihan"
ToSave(r) ==
    /\ req'[r].op = "save" /\ req'[r].h \in HasilId
    /\ \/ /\ hasil[req'[r].h].status # "none"
          /\ req'[r].row.isBenar = "null" /\ req'[r].row.poin = 0
       \/ req[r].op = "latihanKey" /\ req[r].h = req'[r].h
ToUlangan(r) ==
    /\ req'[r].op \in {"submitWait", "cancel"} /\ req'[r].h \in HasilId
    /\ hasil[req'[r].h].mode = "ulangan"
ToGrade(r) ==
    /\ SubmitLock(r) /\ req'[r].op = "submitGrade" /\ req'[r].h = req[r].h
    /\ ~SubmitLocked(req[r].h)
    /\ hasil[req[r].h].status # "dibatalkan" /\ ~HasGrade(req[r].h)
ToSetting(r) == req'[r].op = "settingTx" /\ (~setting.ada => req'[r].expected = 0)

\* What a step does to a request.
LEMMA ReqMoves ==
    ASSUME TypeOK, [Next]_vars, NEW r \in Req
    PROVE  \/ req'[r] = req[r]
           \/ req'[r].op \in {"idle", "ulanganWait", "latihanFound", "latihanInsert",
                              "settingFind", "soalCas"}
           \/ ToInsert(r) \/ ToLatihan(r) \/ ToSave(r) \/ ToUlangan(r) \/ ToGrade(r)
           \/ ToSetting(r)
<1> DEFINE Goal ==
           \/ req'[r] = req[r]
           \/ req'[r].op \in {"idle", "ulanganWait", "latihanFound", "latihanInsert",
                              "settingFind", "soalCas"}
           \/ ToInsert(r) \/ ToLatihan(r) \/ ToSave(r) \/ ToUlangan(r) \/ ToGrade(r)
           \/ ToSetting(r)
<1>0. \A p \in Req : \A x : Become(p, x) => req'[r] = IF p = r THEN x ELSE req[r]
  BY DEF Become, TypeOK
<1>1. ASSUME NEW p \in Req, NEW s \in Siswa, UlanganFind(p, s) \/ LatihanFind(p, s)
      PROVE  Goal
  BY <1>0, <1>1 DEF UlanganFind, LatihanFind
<1>2. ASSUME NEW p \in Req, UlanganLock(p) PROVE Goal
  <2> DEFINE s == req[p].siswa
             Drawn(d) == [op |-> "ulanganInsert", siswa |-> s, set |-> req[p].set,
                          n |-> Cardinality(Counted(s)), pool |-> d, t |-> now]
  <2>1. CASE Become(p, Idle)
    BY <1>0, <2>1 DEF Idle
  <2>2. CASE ~Become(p, Idle)
    <3>1. /\ ~StartLocked(s) /\ Running(s, "ulangan") = {}
          /\ req[p].set.unlimited \/ ~(Cardinality(Counted(s)) >= req[p].set.batas)
          /\ \E d \in SUBSET Eligible("ulangan") : Become(p, Drawn(d))
      BY <1>2, <2>2 DEF UlanganLock
    <3>2. PICK d \in SUBSET Eligible("ulangan") : Become(p, Drawn(d))
      BY <3>1
    <3>3. CASE p # r
      BY <1>0, <3>2, <3>3
    <3>4. CASE p = r
      <4>1. req'[r] = Drawn(d)
        BY <1>0, <3>2, <3>4
      <4>2. /\ req'[r].op = "ulanganInsert" /\ req'[r].siswa = s
            /\ req'[r].set = req[r].set /\ req'[r].n = Cardinality(Counted(s))
        BY <3>4, <4>1
      <4>3. Cardinality(Counted(s)) \in Nat /\ req[r].set.batas \in Nat
        BY <1>2, <3>4, SetsAreFinite, ReqFields DEF Counted, Of, UlanganLock, SettingValue
      <4> HIDE DEF Drawn
      <4>4. ToInsert(r)
        BY <1>2, <3>1, <3>4, <4>2, <4>3 DEF ToInsert
      <4> QED BY <4>4
    <3> QED BY <3>3, <3>4
  <2> QED BY <2>1, <2>2
<1>3. ASSUME NEW p \in Req,
             \/ UlanganInsert(p) \/ LatihanInsert(p) \/ AnswerSave(p)
             \/ FinishUpdate(p) \/ SubmitCommit(p) \/ CancelUpdate(p)
             \/ SettingTx(p) \/ SoalCas(p) \/ ReqFail(p)
      PROVE  Goal
  <2>1. Become(p, Idle)
    BY <1>3 DEF UlanganInsert, LatihanInsert, AnswerSave, FinishUpdate, SubmitCommit,
       CancelUpdate, SettingTx, SoalCas, ReqFail
  <2> QED BY <1>0, <2>1 DEF Idle
<1>4. ASSUME NEW p \in Req, LatihanPool(p) PROVE Goal
  BY <1>0, <1>4 DEF LatihanPool, Idle
<1>5. ASSUME NEW p \in Req, NEW h \in HasilId, NEW q \in Soal, NEW a \in Jawab,
             AnswerFind(p, h, q, a)
      PROVE  Goal
  <2> DEFINE row == [NoJawaban EXCEPT !.jawaban = a]
             save == [op |-> "save", h |-> h, soal |-> q, row |-> row]
             key == [op |-> "latihanKey", h |-> h, soal |-> q, jawaban |-> a]
  <2>1. row.isBenar = "null" /\ row.poin = 0
    BY EmptyAnswer
  <2>2. /\ hasil[h].status = "berlangsung"
        /\ \/ Become(p, save)
           \/ hasil[h].mode = "latihan" /\ Become(p, key)
    BY <1>5 DEF AnswerFind
  <2> HIDE DEF row
  <2>3. /\ save.op = "save" /\ save.h = h /\ save.row = row
        /\ key.op = "latihanKey" /\ key.h = h
    OBVIOUS
  <2> HIDE DEF save, key
  <2>4. CASE p # r
    BY <1>0, <2>2, <2>4
  <2>5. CASE p = r /\ Become(p, save)
    BY <1>0, <2>1, <2>2, <2>3, <2>5 DEF ToSave
  <2>6. CASE p = r /\ hasil[h].mode = "latihan" /\ Become(p, key)
    BY <1>0, <2>2, <2>3, <2>6 DEF ToLatihan
  <2> QED BY <2>2, <2>4, <2>5, <2>6
<1>6. ASSUME NEW p \in Req, LatihanKey(p) PROVE Goal
  <2> DEFINE x == [op |-> "save", h |-> req[p].h, soal |-> req[p].soal,
                   row |-> GradeRow(req[p].soal, [NoJawaban EXCEPT !.jawaban = req[p].jawaban])]
  <2>1. Become(p, Idle) \/ Become(p, x)
    BY <1>6 DEF LatihanKey
  <2>2. x.op = "save" /\ x.h = req[p].h
    OBVIOUS
  <2>3. req[p].op = "latihanKey" /\ req[p].h \in HasilId
    BY <1>6, ReqFields DEF LatihanKey
  <2> HIDE DEF x
  <2> QED BY <1>0, <2>1, <2>2, <2>3 DEF Idle, ToSave
<1>7. ASSUME NEW p \in Req, NEW h \in HasilId,
             FinishFind(p, h) \/ SubmitFind(p, h) \/ CancelFind(p, h)
      PROVE  Goal
  <2>1. CASE FinishFind(p, h)
    BY <1>0, <2>1 DEF FinishFind, ToLatihan
  <2>2. CASE SubmitFind(p, h) \/ CancelFind(p, h)
    BY <1>0, <2>2 DEF SubmitFind, CancelFind, ToUlangan
  <2> QED BY <1>7, <2>1, <2>2
<1>8. ASSUME NEW p \in Req, SubmitLock(p) PROVE Goal
  <2> DEFINE h == req[p].h
             x == [op |-> "submitGrade", h |-> h, graded |-> Grade(jawaban[h])]
  <2>1. \/ Become(p, Idle)
        \/ hasil[h].status # "dibatalkan" /\ ~HasGrade(h) /\ Become(p, x)
    BY <1>8 DEF SubmitLock
  <2>2. x.op = "submitGrade" /\ x.h = h /\ ~SubmitLocked(h)
    BY <1>8 DEF SubmitLock
  <2> HIDE DEF x
  <2> QED BY <1>0, <1>8, <2>1, <2>2 DEF Idle, ToGrade
<1>9. ASSUME NEW p \in Req, SettingFind(p) PROVE Goal
  BY <1>0, <1>9 DEF SettingFind, ToSetting
<1>10. ASSUME NEW p \in Req, NEW x \in Settings, SettingCount(p, x) PROVE Goal
  BY <1>0, <1>10 DEF SettingCount
<1>11. ASSUME NEW p \in Req, NEW q \in Editable, NEW e \in Edits, SoalFind(p, q, e)
       PROVE  Goal
  BY <1>0, <1>11 DEF SoalFind
<1>12. ASSUME Crash PROVE Goal
  BY <1>12 DEF Crash, Idle
<1>13. ASSUME \/ \E S \in SUBSET Editable, x \in SoalBaru : SoalCreate(S, x)
              \/ \E q \in Editable : SoalDelete(q)
              \/ CronStep \/ CronFail \/ Tick \/ UNCHANGED vars
       PROVE  Goal
  BY <1>13 DEF SoalCreate, SoalDelete, CronStep, CronScan, CronLock, CronCommit,
     CronFail, Tick, vars
<1> HIDE DEF Goal
<1>14. ASSUME NEW p \in Req, StudentAction(p) PROVE Goal
  BY <1>1, <1>2, <1>3, <1>4, <1>5, <1>6, <1>7, <1>8, <1>14 DEF StudentAction
<1>15. ASSUME NEW p \in Req, TeacherAction(p) \/ ReqFail(p) PROVE Goal
  BY <1>3, <1>7, <1>9, <1>10, <1>11, <1>15 DEF TeacherAction
<1>16. Goal
  BY <1>12, <1>13, <1>14, <1>15 DEF Next, Step
<1> QED BY <1>16 DEF Goal

\* What a step does to the cron: it scans expired ulangan, drops what it has
\* dealt with, or locks one that is running.
LEMMA CronMoves ==
    ASSUME TypeOK, [Next]_vars
    PROVE  \/ cron' = cron
           \/ cron' = Idle
           \/ cron'.op = "sweep" /\ cron'.todo \subseteq Expired
           \/ /\ cron.op \in {"sweep", "grade"} /\ cron'.op = "sweep"
              /\ cron'.todo \subseteq cron.todo
           \/ /\ CronLock /\ cron.op = "sweep" /\ cron'.op = "grade"
              /\ cron'.todo \subseteq cron.todo /\ cron'.h \in cron.todo
              /\ ~SubmitLocked(cron'.h) /\ hasil[cron'.h].status = "berlangsung"
<1> DEFINE Goal ==
           \/ cron' = cron
           \/ cron' = Idle
           \/ cron'.op = "sweep" /\ cron'.todo \subseteq Expired
           \/ /\ cron.op \in {"sweep", "grade"} /\ cron'.op = "sweep"
              /\ cron'.todo \subseteq cron.todo
           \/ /\ CronLock /\ cron.op = "sweep" /\ cron'.op = "grade"
              /\ cron'.todo \subseteq cron.todo /\ cron'.h \in cron.todo
              /\ ~SubmitLocked(cron'.h) /\ hasil[cron'.h].status = "berlangsung"
<1>1. CASE CronScan
  BY <1>1 DEF CronScan, Batches
<1>2. CASE CronLock
  <2>1. cron.op = "sweep"
    BY <1>2 DEF CronLock
  <2>2. PICK h \in cron.todo :
          /\ ~SubmitLocked(h)
          /\ \/ cron' = Sweep(cron.todo \ {h})
             \/ /\ hasil[h].status = "berlangsung"
                /\ cron' = [op |-> "grade", todo |-> cron.todo \ {h}, h |-> h,
                            graded |-> Grade(jawaban[h])]
    BY <1>2 DEF CronLock
  <2>3. CASE cron' = Sweep(cron.todo \ {h})
    BY <2>1, <2>3 DEF Sweep
  <2>4. CASE cron' # Sweep(cron.todo \ {h})
    BY <1>2, <2>1, <2>2, <2>4
  <2> QED BY <2>3, <2>4
<1>3. CASE CronCommit \/ CronFail
  BY <1>3 DEF CronCommit, CronFail, Sweep
<1>4. CASE Crash
  BY <1>4 DEF Crash
<1>5. CASE \/ \E S \in SUBSET Editable, x \in SoalBaru : SoalCreate(S, x)
           \/ \E q \in Editable : SoalDelete(q)
           \/ Tick \/ UNCHANGED vars
  BY <1>5 DEF SoalCreate, SoalDelete, Tick, vars
<1>6. ASSUME NEW r \in Req, StudentAction(r) PROVE Goal
  <2>1. cron' = cron
    BY <1>6 DEF StudentAction, UlanganFind, LatihanFind, UlanganLock, UlanganInsert,
       LatihanPool, LatihanInsert, AnswerFind, LatihanKey, AnswerSave, FinishFind,
       SubmitFind, FinishUpdate, SubmitLock, SubmitCommit
  <2> QED BY <2>1
<1>7. ASSUME NEW r \in Req, TeacherAction(r) \/ ReqFail(r) PROVE Goal
  <2>1. cron' = cron
    BY <1>7 DEF TeacherAction, CancelFind, CancelUpdate, SettingCount, SettingFind,
       SettingTx, SoalFind, SoalCas, ReqFail
  <2> QED BY <2>1
<1> HIDE DEF Goal
<1>8. Goal
  BY <1>1, <1>2, <1>3, <1>4, <1>5, <1>6, <1>7 DEF Next, Step, CronStep, Goal
<1> QED BY <1>8 DEF Goal

-----------------------------------------------------------------------------
(* The parts of the inductive invariant                                    *)

\* No step leaves a grade on a running ulangan or on a latihan, a finished
\* ulangan without one, or a grade without its event.
LEMMA RowNext == IndInv /\ [Next]_vars => RowInv'
<1> SUFFICES ASSUME IndInv, [Next]_vars, NEW h \in HasilId
             PROVE  LET row == hasil'[h]
                    IN  /\ row.status = "none" => row.mode = "latihan"
                        /\ row.mode = "latihan" => row.nilai = NULL
                        /\ row.mode = "ulangan" /\ row.status = "selesai" => row.nilai # NULL
                        /\ row.mode = "ulangan" /\ row.status = "berlangsung" => row.nilai = NULL
                        /\ gradeEvent'[h] = IF row.nilai = NULL THEN 0 ELSE 1
  BY DEF RowInv
<1> USE DEF IndInv, RowInv
<1>1. CASE Same(h)
  BY <1>1 DEF Same
<1>2. CASE Opened(h)
  <2>1. hasil[h].nilai = NULL /\ gradeEvent'[h] = 0
    BY <1>2 DEF Opened
  <2> QED BY <1>2, <2>1 DEF Opened
<1>3. CASE Scored(h)
  <2>1. gradeEvent'[h] = 1 /\ hasil'[h].nilai # NULL
    BY <1>3 DEF Scored, NULL
  <2> QED BY <1>3, <2>1 DEF Scored
<1>4. CASE Finished(h)
  BY <1>4 DEF Finished, Kept
<1>5. CASE Cancelled(h)
  BY <1>5 DEF Cancelled, Kept
<1>6. Same(h) \/ Opened(h) \/ Scored(h) \/ Finished(h) \/ Cancelled(h)
  BY RowMoves DEF Same
<1> QED BY <1>1, <1>2, <1>3, <1>4, <1>5, <1>6

\* A goroutine keeps working on an attempt of the kind it has checked.
LEMMA WorkNext == IndInv /\ [Next]_vars => WorkInv'
<1> SUFFICES ASSUME IndInv, [Next]_vars PROVE WorkInv'
  OBVIOUS
<1> USE DEF IndInv
<1>1. \A h \in HasilId : hasil[h].mode = "ulangan" => hasil[h].status # "none"
  BY DEF RowInv
<1>2. \A h \in HasilId : hasil[h].mode = "ulangan" => hasil'[h].mode = "ulangan"
  BY <1>1, KindStays
<1>3. ASSUME NEW r \in Req
      PROVE  /\ req'[r].op \in {"submitWait", "submitGrade", "cancel"} =>
                  hasil'[req'[r].h].mode = "ulangan"
             /\ req'[r].op \in {"latihanKey", "save", "finish"} =>
                  hasil'[req'[r].h].status # "none"
             /\ req'[r].op \in {"latihanKey", "finish"} => hasil'[req'[r].h].mode = "latihan"
             /\ req'[r].op = "save" /\ hasil'[req'[r].h].mode = "ulangan" =>
                  req'[r].row.isBenar = "null" /\ req'[r].row.poin = 0
  <2> DEFINE h == req'[r].h
  <2>1. CASE req'[r] = req[r]
    <3>1. req[r].op \in {"submitWait", "submitGrade", "cancel"} =>
              h \in HasilId /\ hasil[h].mode = "ulangan"
      BY <2>1, ReqFields DEF WorkInv
    <3>2. req[r].op \in {"latihanKey", "save", "finish"} =>
              h \in HasilId /\ hasil[h].status # "none"
      BY <2>1, ReqFields DEF WorkInv
    <3>3. /\ req[r].op \in {"latihanKey", "finish"} => hasil[h].mode = "latihan"
          /\ req[r].op = "save" /\ hasil[h].mode = "ulangan" =>
                req[r].row.isBenar = "null" /\ req[r].row.poin = 0
      BY <2>1 DEF WorkInv
    <3> QED BY <1>2, <2>1, <3>1, <3>2, <3>3, KindStays
  <2>2. CASE ToLatihan(r)
    BY <2>2, KindStays DEF ToLatihan
  <2>3. CASE ToSave(r)
    <3>1. /\ req'[r].op = "save" /\ h \in HasilId /\ hasil[h].status # "none"
          /\ \/ hasil[h].mode = "latihan"
             \/ req'[r].row.isBenar = "null" /\ req'[r].row.poin = 0
      BY <2>3 DEF ToSave, WorkInv
    <3> QED BY <3>1, KindStays
  <2>4. CASE ToUlangan(r)
    BY <1>2, <2>4 DEF ToUlangan
  <2>5. CASE ToGrade(r)
    <3>1. /\ req'[r].op = "submitGrade" /\ req'[r].h = req[r].h
          /\ req[r].op = "submitWait"
      BY <2>5 DEF ToGrade, SubmitLock
    <3>2. req[r].h \in HasilId /\ hasil[req[r].h].mode = "ulangan"
      BY <3>1, ReqFields DEF WorkInv
    <3> QED BY <1>2, <3>1, <3>2
  <2>6. CASE \/ req'[r].op \in {"idle", "ulanganWait", "latihanFound", "latihanInsert",
                                "settingFind", "soalCas"}
             \/ ToInsert(r) \/ ToSetting(r)
    BY <2>6 DEF ToInsert, ToSetting
  <2> QED BY <2>1, <2>2, <2>3, <2>4, <2>5, <2>6, ReqMoves
<1>4. /\ cron'.op \in {"sweep", "grade"} => \A h \in cron'.todo : hasil'[h].mode = "ulangan"
      /\ cron'.op = "grade" => hasil'[cron'.h].mode = "ulangan"
  <2>1. \A h \in Expired : h \in HasilId /\ hasil[h].mode = "ulangan"
    BY DEF Expired
  <2>2. /\ cron.op \in {"sweep", "grade"} => \A h \in cron.todo :
              h \in HasilId /\ hasil[h].mode = "ulangan"
        /\ cron.op = "grade" => cron.h \in HasilId /\ hasil[cron.h].mode = "ulangan"
    BY CronFields DEF WorkInv
  <2> QED BY <1>2, <2>1, <2>2, CronMoves DEF Idle
<1> QED BY <1>3, <1>4 DEF WorkInv

\* No step gives an attempt a second grader, or a grader an attempt that has
\* its grade.
LEMMA GraderNext == IndInv /\ [Next]_vars => GraderInv'
<1> SUFFICES ASSUME IndInv, [Next]_vars PROVE GraderInv'
  OBVIOUS
<1> USE DEF IndInv
<1>1. ASSUME NEW h \in HasilId, NEW r \in Req, Grades(r, h)
      PROVE  /\ hasil[h].nilai = NULL /\ hasil[h].mode = "ulangan" /\ ~Sweeps(h)
             /\ \A p \in Req : Grades(p, h) => p = r
             /\ SubmitLocked(h)
  BY <1>1 DEF GraderInv, WorkInv, SubmitLocked, Grades
<1>2. ASSUME NEW h \in HasilId, Sweeps(h)
      PROVE  /\ hasil[h].nilai = NULL /\ hasil[h].mode = "ulangan"
             /\ \A p \in Req : ~Grades(p, h)
             /\ SubmitLocked(h)
  BY <1>1, <1>2 DEF GraderInv, WorkInv, SubmitLocked, Sweeps
<1>3. ASSUME NEW h \in HasilId, hasil[h].nilai = NULL, hasil[h].mode = "ulangan",
             hasil'[h].nilai # NULL
      PROVE  ~Sweeps(h)' /\ \A p \in Req : ~Grades(p, h)'
  <2>1. Scored(h)
    <3>1. hasil[h].status # "none"
      BY <1>3 DEF RowInv
    <3> QED BY <1>3, <3>1, RowMoves DEF Opened, Finished, Cancelled, Kept, Same
  <2>2. ASSUME NEW r \in Req, SubmitCommit(r), req[r].h = h
        PROVE  ~Sweeps(h)' /\ \A p \in Req : ~Grades(p, h)'
    <3>1. Grades(r, h) /\ cron' = cron /\ req' = [req EXCEPT ![r] = Idle]
      BY <2>2 DEF SubmitCommit, Grades, Become
    <3>2. ~Sweeps(h) /\ \A p \in Req \ {r} : ~Grades(p, h)
      BY <1>1, <3>1
    <3> QED BY <3>1, <3>2 DEF TypeOK, Idle, Grades, Sweeps
  <2>3. ASSUME CronCommit, cron.h = h
        PROVE  ~Sweeps(h)' /\ \A p \in Req : ~Grades(p, h)'
    <3>1. Sweeps(h) /\ cron'.op # "grade" /\ req' = req
      BY <2>3 DEF CronCommit, Sweep, Idle, Sweeps
    <3> QED BY <1>2, <3>1 DEF Sweeps, Grades
  <2> QED BY <2>1, <2>2, <2>3 DEF Scored
<1>4. ASSUME NEW r \in Req, NEW h \in HasilId, Grades(r, h)'
      PROVE  /\ hasil'[h].nilai = NULL /\ ~Sweeps(h)'
             /\ \A p \in Req : Grades(p, h)' => p = r
  <2>1. CASE req'[r] = req[r]
    <3>1. Grades(r, h)
      BY <1>4, <2>1 DEF Grades
    <3>2. hasil'[h].nilai = NULL
      BY <1>1, <1>3, <1>4, <3>1
    <3>3. ~Sweeps(h)'
      BY <1>1, <3>1, CronMoves DEF Idle, Sweeps
    <3>4. ASSUME NEW p \in Req, Grades(p, h)' PROVE p = r
      <4>1. CASE req'[p] = req[p]
        <5>1. Grades(p, h)
          BY <3>4, <4>1 DEF Grades
        <5> QED BY <1>1, <3>1, <5>1
      <4>2. CASE req'[p] # req[p]
        <5>1. ~ToGrade(p)
          BY <1>1, <3>1, <3>4 DEF ToGrade, Grades
        <5> QED BY <3>4, <4>2, <5>1, ReqMoves
            DEF Grades, ToInsert, ToLatihan, ToSave, ToUlangan, ToSetting
      <4> QED BY <4>1, <4>2
    <3> QED BY <3>2, <3>3, <3>4
  <2>2. CASE req'[r] # req[r]
    <3>1. ToGrade(r)
      BY <1>4, <2>2, ReqMoves
      DEF Grades, ToInsert, ToLatihan, ToSave, ToUlangan, ToSetting
    <3>2. /\ SubmitLock(r) /\ req[r].op = "submitWait" /\ req[r].h = h /\ ~SubmitLocked(h)
          /\ hasil[h].status # "dibatalkan" /\ ~HasGrade(h)
      BY <1>4, <3>1 DEF ToGrade, SubmitLock, Grades
    <3>3. /\ hasil' = hasil /\ cron' = cron
          /\ \A p \in Req \ {r} : req'[p] = req[p]
      BY <3>2 DEF SubmitLock, Become, attemptVars, TypeOK
    <3>4. hasil[h].mode = "ulangan" /\ hasil[h] \in HasilRow
      BY <3>2 DEF WorkInv, TypeOK
    <3>5. hasil[h].nilai = NULL
      BY <3>2, <3>4 DEF RowInv, HasGrade, HasilRow
    <3>6. ~Sweeps(h) /\ \A p \in Req : ~Grades(p, h)
      BY <3>2 DEF SubmitLocked, Sweeps, Grades
    <3> QED BY <3>3, <3>5, <3>6 DEF Grades, Sweeps
  <2> QED BY <2>1, <2>2
<1>5. ASSUME NEW h \in HasilId, Sweeps(h)' PROVE hasil'[h].nilai = NULL
  <2>1. CASE cron' = cron
    <3>1. hasil[h].nilai = NULL /\ hasil[h].mode = "ulangan"
      BY <1>2, <1>5, <2>1 DEF Sweeps
    <3> QED BY <1>3, <1>5, <3>1
  <2>2. CASE cron' # cron
    <3>1. /\ CronLock /\ hasil[h].status = "berlangsung" /\ cron.op = "sweep"
          /\ h \in cron.todo
      BY <1>5, <2>2, CronMoves DEF Idle, Sweeps
    <3>2. hasil' = hasil /\ hasil[h].mode = "ulangan"
      BY <3>1 DEF CronLock, attemptVars, WorkInv
    <3> QED BY <3>1, <3>2 DEF RowInv
  <2> QED BY <2>1, <2>2
<1> QED BY <1>4, <1>5 DEF GraderInv, SubmitLocked, Grades, Sweeps

\* A ulangan starts to run only by the INSERT of a Start for its student.
LEMMA RunningGrows ==
    ASSUME IndInv, [Next]_vars, NEW s, NEW h \in Running(s, "ulangan")',
           h \notin Running(s, "ulangan")
    PROVE  /\ \E r \in Req : UlanganInsert(r) /\ req[r].siswa = s
           /\ \A k \in Running(s, "ulangan")' : k = h \/ k \in Running(s, "ulangan")
<1>1. /\ h \in HasilId /\ hasil'[h].status = "berlangsung"
      /\ hasil'[h].mode = "ulangan" /\ hasil'[h].siswa = s
  BY DEF Running, Of
<1>2. ~Same(h)
  BY <1>1 DEF Same, Running, Of
<1>3. Opened(h) /\ \A k \in HasilId \ {h} : Same(k)
  BY <1>1, <1>2, RowMoves DEF Scored, Finished, Cancelled, Same
<1>4. \E r \in Req : UlanganInsert(r) /\ req[r].siswa = s
  BY <1>1, <1>3 DEF Opened
<1>5. \A k \in Running(s, "ulangan")' : k = h \/ k \in Running(s, "ulangan")
  BY <1>3 DEF Same, Running, Of
<1> QED BY <1>4, <1>5

\* No step lets two Starts of a student insert, or one insert beside a running
\* ulangan.
LEMMA StarterNext == IndInv /\ [Next]_vars => StarterInv'
<1> SUFFICES ASSUME IndInv, [Next]_vars, NEW s \in Siswa
             PROVE  /\ \A h, k \in Running(s, "ulangan")' : h = k
                    /\ \A r \in Req : Starts(r, s)' =>
                          /\ Running(s, "ulangan")' = {}
                          /\ req'[r].set.unlimited \/ req'[r].n < req'[r].set.batas
                          /\ \A p \in Req : Starts(p, s)' => p = r
  BY DEF StarterInv
<1> USE DEF IndInv
<1>1. ASSUME NEW r \in Req, Starts(r, s)
      PROVE  /\ Running(s, "ulangan") = {}
             /\ req[r].set.unlimited \/ req[r].n < req[r].set.batas
             /\ \A p \in Req : Starts(p, s) => p = r
             /\ StartLocked(s)
  BY <1>1 DEF StarterInv, Starts, StartLocked
<1>2. \A r \in Req : UlanganInsert(r) /\ req[r].siswa = s =>
          Starts(r, s) /\ ~Starts(r, s)'
  BY DEF UlanganInsert, Starts, Become, TypeOK, Idle
<1>3. ASSUME NEW h \in Running(s, "ulangan")', NEW k \in Running(s, "ulangan")'
      PROVE  h = k
  <2>1. CASE Running(s, "ulangan")' \subseteq Running(s, "ulangan")
    BY <2>1 DEF StarterInv
  <2>2. CASE ~(Running(s, "ulangan")' \subseteq Running(s, "ulangan"))
    <3>1. PICK g \in Running(s, "ulangan")' : g \notin Running(s, "ulangan")
      BY <2>2
    <3>2. \E r \in Req : UlanganInsert(r) /\ req[r].siswa = s
      BY <3>1, RunningGrows
    <3>3. Running(s, "ulangan") = {}
      BY <1>1, <1>2, <3>2
    <3> QED BY <3>1, <3>3, RunningGrows
  <2> QED BY <2>1, <2>2
<1>4. ASSUME NEW r \in Req, Starts(r, s)'
      PROVE  /\ Running(s, "ulangan")' = {}
             /\ req'[r].set.unlimited \/ req'[r].n < req'[r].set.batas
             /\ \A p \in Req : Starts(p, s)' => p = r
  <2>1. CASE req'[r] = req[r]
    <3>1. Starts(r, s)
      BY <1>4, <2>1 DEF Starts
    <3>2. ASSUME NEW h \in Running(s, "ulangan")' PROVE FALSE
      <4>1. h \notin Running(s, "ulangan")
        BY <1>1, <3>1
      <4>2. \E p \in Req : UlanganInsert(p) /\ req[p].siswa = s
        BY <4>1, RunningGrows
      <4> QED BY <1>1, <1>2, <1>4, <3>1, <4>2
    <3>3. ASSUME NEW p \in Req, Starts(p, s)' PROVE p = r
      <4>1. CASE req'[p] = req[p]
        <5>1. Starts(p, s)
          BY <3>3, <4>1 DEF Starts
        <5> QED BY <1>1, <3>1, <5>1
      <4>2. CASE req'[p] # req[p]
        <5>1. ToInsert(p)
          BY <3>3, <4>2, ReqMoves DEF Starts, ToLatihan, ToSave, ToUlangan, ToGrade, ToSetting
        <5>2. req[p].siswa = s
          BY <3>3, <5>1 DEF ToInsert, Starts
        <5> QED BY <1>1, <3>1, <5>1, <5>2 DEF ToInsert
      <4> QED BY <4>1, <4>2
    <3>4. req'[r].set.unlimited \/ req'[r].n < req'[r].set.batas
      BY <1>1, <2>1, <3>1
    <3> QED BY <3>2, <3>3, <3>4
  <2>2. CASE req'[r] # req[r]
    <3>1. ToInsert(r)
      BY <1>4, <2>2, ReqMoves DEF Starts, ToLatihan, ToSave, ToUlangan, ToGrade, ToSetting
    <3>2. /\ UlanganLock(r) /\ ~StartLocked(s) /\ Running(s, "ulangan") = {}
          /\ req'[r].set.unlimited \/ req'[r].n < req'[r].set.batas
      BY <1>4, <3>1 DEF ToInsert, Starts
    <3>3. hasil' = hasil /\ \A p \in Req \ {r} : req'[p] = req[p]
      BY <3>2 DEF UlanganLock, Become, attemptVars, TypeOK
    <3>4. Running(s, "ulangan")' = {}
      BY <3>2, <3>3 DEF Running, Of
    <3>5. \A p \in Req : Starts(p, s)' => p = r
      BY <3>2, <3>3 DEF Starts, StartLocked
    <3> QED BY <3>2, <3>4, <3>5
  <2> QED BY <2>1, <2>2
<1> QED BY <1>3, <1>4

\* What a step does to the answers of an attempt: nothing, an upsert, or the
\* verdicts of the grading of a ulangan that has no grade.
LEMMA AnswerMoves ==
    ASSUME IndInv, [Next]_vars, NEW h \in HasilId
    PROVE  \/ /\ jawaban'[h] = jawaban[h]
              /\ Same(h) \/ Opened(h) \/ Finished(h) \/ Cancelled(h)
           \/ \E r \in Req : AnswerSave(r) /\ req[r].h = h
           \/ \E graded \in Graded, at \in Waktu :
                Finalise(h, graded, at) /\ hasil[h].mode = "ulangan" /\ hasil[h].nilai = NULL
<1> USE DEF IndInv
<1>1. ASSUME jawaban'[h] = jawaban[h], gradeEvent'[h] = gradeEvent[h]
      PROVE  Same(h) \/ Opened(h) \/ Finished(h) \/ Cancelled(h)
  <2>1. gradeEvent[h] \in Nat
    BY DEF TypeOK
  <2>2. ~Scored(h)
    BY <1>1, <2>1 DEF Scored
  <2> QED BY <2>2, RowMoves DEF Same
<1>2. CASE UNCHANGED attemptVars
  BY <1>2 DEF attemptVars, Same
<1>3. ASSUME NEW r \in Req,
             UlanganInsert(r) \/ LatihanInsert(r) \/ FinishUpdate(r) \/ CancelUpdate(r)
      PROVE  jawaban' = jawaban /\ gradeEvent' = gradeEvent
  BY <1>3 DEF UlanganInsert, LatihanInsert, FinishUpdate, CancelUpdate
<1>4. ASSUME NEW r \in Req, AnswerSave(r), req[r].h # h
      PROVE  jawaban'[h] = jawaban[h] /\ Same(h)
  <2>1. req[r].h \in HasilId
    BY <1>4, ReqFields DEF AnswerSave
  <2> QED BY <1>4, <2>1 DEF AnswerSave, Same, TypeOK
<1>5. CASE CronCommit \/ \E r \in Req : SubmitCommit(r)
  BY <1>2, <1>5, GradingStep, FinaliseEffect DEF Same
<1> QED BY <1>1, <1>2, <1>3, <1>4, <1>5, Writers

\* No step marks an answer of a ulangan before its grade, or beyond it after.
LEMMA AnswerNext == IndInv /\ [Next]_vars => AnswerInv'
<1> SUFFICES ASSUME IndInv, [Next]_vars PROVE AnswerInv'
  OBVIOUS
<1> USE DEF IndInv
<1> DEFINE Clean(ans) == \A q \in Soal : ans[q].isBenar = "null" /\ ans[q].poin = 0
           Covered(row, ans) ==
             /\ row.status = "none" => Clean(ans)
             /\ row.mode = "ulangan" /\ row.nilai = NULL => Clean(ans)
             /\ row.nilai # NULL => Nilai(ans) <= row.nilai /\ Benar(ans) <= row.benar
<1>1. \A h \in HasilId : Covered(hasil[h], jawaban[h])
  BY DEF AnswerInv, Unmarked
<1>2. ASSUME \A h \in HasilId : Covered(hasil'[h], jawaban'[h]) PROVE AnswerInv'
  BY <1>2 DEF AnswerInv, Unmarked, Nilai, Benar
<1>3. SUFFICES ASSUME NEW h \in HasilId PROVE Covered(hasil'[h], jawaban'[h])
  BY <1>2
<1>4. jawaban[h] \in [Soal -> JawabanRow] /\ hasil[h] \in HasilRow
  BY DEF TypeOK
<1>5. ASSUME jawaban'[h] = jawaban[h],
             Same(h) \/ Opened(h) \/ Finished(h) \/ Cancelled(h)
      PROVE  Covered(hasil'[h], jawaban'[h])
  <2>1. CASE Same(h)
    BY <1>1, <1>5, <2>1 DEF Same
  <2>2. CASE Opened(h)
    BY <1>1, <1>5, <2>2 DEF Opened
  <2>3. CASE Finished(h)
    <3>1. hasil'[h].nilai = NULL
      BY <2>3 DEF Finished, Kept, RowInv
    <3> QED BY <2>3, <3>1 DEF Finished, Kept
  <2>4. CASE Cancelled(h)
    BY <1>1, <1>5, <2>4 DEF Cancelled, Kept
  <2> QED BY <1>5, <2>1, <2>2, <2>3, <2>4
<1>6. ASSUME NEW r \in Req, AnswerSave(r), req[r].h = h
      PROVE  Covered(hasil'[h], jawaban'[h])
  <2> DEFINE q == req[r].soal
             row == req[r].row
  <2>1. q \in Soal /\ row \in JawabanRow /\ hasil[h].status # "none"
    BY <1>6, ReqFields DEF AnswerSave, WorkInv
  <2>2. hasil[h].mode = "ulangan" => row.isBenar = "null" /\ row.poin = 0
    BY <1>6 DEF AnswerSave, WorkInv
  <2>3. hasil[h].nilai # NULL => hasil[h].mode = "ulangan"
    BY <1>4 DEF RowInv, HasilRow
  <2>4. /\ hasil' = hasil
        /\ jawaban' = jawaban \/ jawaban' = [jawaban EXCEPT ![h][q] = row]
    BY <1>6 DEF AnswerSave
  <2> HIDE DEF q, row
  <2>5. jawaban'[h] = jawaban[h] \/ jawaban'[h] = [jawaban[h] EXCEPT ![q] = row]
    BY <2>4 DEF TypeOK
  <2>6. jawaban'[h] \in [Soal -> JawabanRow]
    BY <1>4, <2>1, <2>5
  <2>7. \A p \in Soal : jawaban'[h][p] = jawaban[h][p] \/ jawaban'[h][p] = row
    BY <1>4, <2>1, <2>5
  <2>8. CASE hasil[h].nilai = NULL
    BY <1>1, <2>1, <2>2, <2>4, <2>7, <2>8
  <2>9. CASE hasil[h].nilai # NULL
    <3>1. \A p \in Soal : /\ jawaban'[h][p].poin = 0 \/ jawaban'[h][p].poin = jawaban[h][p].poin
                          /\ jawaban'[h][p].isBenar = "ya" => jawaban[h][p].isBenar = "ya"
      BY <2>2, <2>3, <2>7, <2>9
    <3>2. /\ Nilai(jawaban'[h]) <= Nilai(jawaban[h])
          /\ Benar(jawaban'[h]) <= Benar(jawaban[h])
      BY <1>4, <2>6, <3>1, CountsAreMonotone
    <3>3. hasil[h].benar \in Int /\ hasil[h].nilai \in Int
      BY <1>4 DEF HasilRow, Waktu, NULL
    <3>4. /\ Nilai(jawaban[h]) <= hasil[h].nilai /\ Benar(jawaban[h]) <= hasil[h].benar
          /\ Nilai(jawaban[h]) \in Nat /\ Benar(jawaban[h]) \in Nat
          /\ Nilai(jawaban'[h]) \in Nat /\ Benar(jawaban'[h]) \in Nat
      BY <1>1, <1>4, <2>6, <2>9, CountsAreNat
    <3> QED BY <2>1, <2>4, <2>9, <3>2, <3>3, <3>4
  <2> QED BY <2>8, <2>9
<1>7. ASSUME NEW graded \in Graded, NEW at \in Waktu, Finalise(h, graded, at),
             hasil[h].mode = "ulangan", hasil[h].nilai = NULL
      PROVE  Covered(hasil'[h], jawaban'[h])
  <2>1. /\ hasil'[h].status = "selesai"
        /\ hasil'[h].nilai = Nilai(graded) /\ hasil'[h].benar = Benar(graded)
        /\ jawaban'[h] \in [Soal -> JawabanRow]
    BY <1>7, FinaliseEffect
  <2>2. \A q \in Soal : jawaban[h][q].isBenar = "null" /\ jawaban[h][q].poin = 0
    BY <1>1, <1>7
  <2>3. \A q \in Soal :
          \/ jawaban'[h][q] = jawaban[h][q]
          \/ jawaban'[h][q].poin = graded[q].poin /\ jawaban'[h][q].isBenar = graded[q].isBenar
    BY <1>7, FinaliseEffect
  <2>4. \A q \in Soal :
          /\ jawaban'[h][q].poin = 0 \/ jawaban'[h][q].poin = graded[q].poin
          /\ jawaban'[h][q].isBenar = "ya" => graded[q].isBenar = "ya"
    BY <2>2, <2>3
  <2>5. /\ Nilai(jawaban'[h]) <= Nilai(graded) /\ Benar(jawaban'[h]) <= Benar(graded)
        /\ Nilai(graded) # NULL
    BY <2>1, <2>4, CountsAreMonotone, CountsAreNat DEF Graded, NULL
  <2> QED BY <2>1, <2>5
<1> HIDE DEF Covered
<1> QED BY <1>5, <1>6, <1>7, AnswerMoves

\* What a step does to soal_bab and to the setting.
LEMMA TeacherMoves ==
    ASSUME TypeOK, [Next]_vars
    PROVE  /\ \/ soal' = soal
              \/ UNCHANGED attemptVars /\ \A q \in Soal : soal[q].ada => soal'[q].ada
              \/ UNCHANGED attemptVars /\ \E q \in Editable : SoalDelete(q)
           /\ setting' = setting \/ \E r \in Req : SettingTx(r)
<1> DEFINE SoalMoves ==
             \/ soal' = soal
             \/ UNCHANGED attemptVars /\ \A q \in Soal : soal[q].ada => soal'[q].ada
             \/ UNCHANGED attemptVars /\ \E q \in Editable : SoalDelete(q)
           Goal == SoalMoves /\ (setting' = setting \/ \E r \in Req : SettingTx(r))
<1>1. ASSUME NEW r \in Req, StudentAction(r) PROVE Goal
  <2>1. UNCHANGED teacherVars
    BY <1>1 DEF StudentAction, UlanganFind, LatihanFind, UlanganLock, UlanganInsert,
       LatihanPool, LatihanInsert, AnswerFind, LatihanKey, AnswerSave, FinishFind,
       SubmitFind, FinishUpdate, SubmitLock, SubmitCommit
  <2> QED BY <2>1 DEF teacherVars
<1>2. ASSUME NEW r \in Req, SoalCas(r) PROVE Goal
  <2> DEFINE q == req[r].soal
             e == req[r].edit
             row == [f \in DOMAIN soal[q] |->
                       IF f = "version" THEN soal[q].version + 1
                       ELSE IF f \in DOMAIN e THEN e[f] ELSE soal[q][f]]
  <2>1. q \in Soal /\ e \in Edits /\ soal[q] \in SoalRow
    BY <1>2, ReqFields DEF SoalCas, TypeOK
  <2>2. "ada" \in DOMAIN soal[q] /\ "ada" \notin DOMAIN e
    BY <2>1, RowsTyped DEF SoalRow
  <2>3. row.ada = soal[q].ada
    BY <2>2
  <2>4. /\ soal' = soal \/ soal' = [soal EXCEPT ![q] = row]
        /\ UNCHANGED attemptVars /\ setting' = setting
    BY <1>2 DEF SoalCas
  <2> HIDE DEF row, q
  <2>5. \A p \in Soal : soal[p].ada => soal'[p].ada
    BY <2>1, <2>3, <2>4 DEF TypeOK
  <2> QED BY <2>4, <2>5
<1>3. ASSUME NEW r \in Req, TeacherAction(r) \/ ReqFail(r), ~SoalCas(r) PROVE Goal
  <2>1. soal' = soal /\ (setting' = setting \/ SettingTx(r))
    BY <1>3 DEF TeacherAction, CancelFind, CancelUpdate, SettingCount, SettingFind,
       SettingTx, SoalFind, ReqFail, teacherVars
  <2> QED BY <2>1
<1>4. ASSUME NEW S \in SUBSET Editable, NEW x \in SoalBaru, SoalCreate(S, x) PROVE Goal
  <2>1. x.ada
    BY RowsTyped
  <2>2. \A p \in Soal : soal[p].ada => soal'[p].ada
    BY <1>4, <2>1 DEF SoalCreate
  <2> QED BY <1>4, <2>2 DEF SoalCreate
<1>5. ASSUME NEW q \in Editable, SoalDelete(q) PROVE Goal
  BY <1>5 DEF SoalDelete
<1>6. ASSUME CronStep \/ CronFail \/ Tick \/ Crash \/ UNCHANGED vars PROVE Goal
  BY <1>6 DEF CronStep, CronScan, CronLock, CronCommit, CronFail, Tick, Crash, vars,
     teacherVars
<1> HIDE DEF Goal
<1>7. Goal
  BY <1>1, <1>2, <1>3, <1>4, <1>5, <1>6 DEF Next, Step
<1> QED BY <1>7 DEF Goal

\* No step leaves an answer without its question.
LEMMA KeyNext == IndInv /\ [Next]_vars => AnsweredQuestionKept'
<1> SUFFICES ASSUME IndInv, [Next]_vars, NEW h \in HasilId, NEW q \in Soal,
                    jawaban'[h][q].jawaban # "-"
             PROVE  soal'[q].ada
  BY DEF AnsweredQuestionKept
<1> USE DEF IndInv
<1>1. CASE UNCHANGED attemptVars
  <2>1. jawaban[h][q].jawaban # "-" /\ soal[q].ada
    BY <1>1 DEF attemptVars, AnsweredQuestionKept
  <2>2. ASSUME NEW p \in Editable, SoalDelete(p) PROVE p # q /\ soal'[q] = soal[q]
    BY <2>1, <2>2 DEF SoalDelete, TypeOK
  <2> QED BY <2>1, <2>2, TeacherMoves
<1>2. CASE ~UNCHANGED attemptVars
  <2>1. soal' = soal
    BY <1>2, TeacherMoves
  <2>2. CASE jawaban'[h] = jawaban[h]
    BY <2>1, <2>2 DEF AnsweredQuestionKept
  <2>3. ASSUME NEW r \in Req, AnswerSave(r), req[r].h = h PROVE soal[q].ada
    <3>1. CASE soal[req[r].soal].ada
      <4>1. req[r].soal = q \/ jawaban'[h][q] = jawaban[h][q]
        BY <2>3, <3>1 DEF AnswerSave, TypeOK
      <4> QED BY <3>1, <4>1 DEF AnsweredQuestionKept
    <3>2. CASE ~soal[req[r].soal].ada
      BY <2>3, <3>2 DEF AnswerSave, AnsweredQuestionKept
    <3> QED BY <3>1, <3>2
  <2>4. ASSUME NEW graded \in Graded, NEW at \in Waktu, Finalise(h, graded, at)
        PROVE  soal[q].ada
    <3>1. jawaban'[h][q].jawaban = jawaban[h][q].jawaban
      BY <2>4, FinaliseEffect
    <3> QED BY <3>1 DEF AnsweredQuestionKept
  <2> QED BY <2>1, <2>2, <2>3, <2>4, AnswerMoves
<1> QED BY <1>1, <1>2

\* No step leaves a save that expects a version of a setting that is not there.
LEMMA SettingNext == IndInv /\ [Next]_vars => SettingInv'
<1> SUFFICES ASSUME IndInv, [Next]_vars, ~setting'.ada
             PROVE  /\ setting'.version = 0
                    /\ \A r \in Req : req'[r].op = "settingTx" => req'[r].expected = 0
  BY DEF SettingInv
<1> USE DEF IndInv
<1>1. setting' = setting
  <2>1. ASSUME NEW r \in Req, SettingTx(r) PROVE setting'.ada \/ setting' = setting
    BY <2>1 DEF SettingTx
  <2> QED BY <2>1, TeacherMoves
<1>2. ~setting.ada /\ setting.version = 0
  BY <1>1 DEF SettingInv
<1>3. ASSUME NEW r \in Req, req'[r].op = "settingTx" PROVE req'[r].expected = 0
  <2>1. CASE req'[r] = req[r]
    BY <1>2, <1>3, <2>1 DEF SettingInv
  <2>2. CASE req'[r] # req[r]
    BY <1>2, <1>3, <2>2, ReqMoves
    DEF ToInsert, ToLatihan, ToSave, ToUlangan, ToGrade, ToSetting
  <2> QED BY <2>1, <2>2
<1> QED BY <1>1, <1>2, <1>3

-----------------------------------------------------------------------------
(* The invariant and what follows from it                                  *)

\* A bab without attempts satisfies the inductive invariant.
LEMMA IndInit == Init => IndInv
<1> SUFFICES ASSUME Init PROVE IndInv
  OBVIOUS
<1>1. TypeOK
  BY TypeInit
<1>2. /\ \A h \in HasilId : /\ hasil[h].status = "none" /\ hasil[h].mode = "latihan"
                            /\ hasil[h].nilai = NULL /\ gradeEvent[h] = 0
      /\ \A h \in HasilId, q \in Soal : /\ jawaban[h][q].isBenar = "null"
                                       /\ jawaban[h][q].poin = 0
                                       /\ jawaban[h][q].jawaban = "-"
      /\ \A r \in Req : req[r].op = "idle"
      /\ cron.op = "idle"
  BY EmptyAttempt, EmptyAnswer DEF Init, Idle
<1>3. RowInv /\ AnswerInv
  BY <1>2 DEF RowInv, AnswerInv, Unmarked
<1>4. WorkInv /\ GraderInv
  BY <1>2 DEF WorkInv, GraderInv, SubmitLocked, Grades
<1>5. StarterInv
  BY <1>2 DEF StarterInv, Starts, Running, Of
<1>6. AnsweredQuestionKept
  BY <1>2 DEF AnsweredQuestionKept
<1>7. SettingInv
  BY <1>2, RowsTyped DEF SettingInv, Init
<1> QED BY <1>1, <1>3, <1>4, <1>5, <1>6, <1>7 DEF IndInv

\* Every step of every handler, of the cron and of the clock keeps it.
LEMMA IndNext == IndInv /\ [Next]_vars => IndInv'
<1> SUFFICES ASSUME IndInv, [Next]_vars PROVE IndInv'
  OBVIOUS
<1>1. TypeOK'
  BY TypeNext DEF IndInv
<1> QED BY <1>1, RowNext, WorkNext, GraderNext, StarterNext, AnswerNext, KeyNext,
     SettingNext DEF IndInv

\* In every reachable state attempts, answers, questions, setting and goroutines
\* are well typed and consistent with each other.
THEOREM ChapterInvariant == Spec => []IndInv
BY IndInit, IndNext, PTL DEF Spec

\* However many students start at once, each has at most one ulangan that runs
\* or is about to be inserted, and room for it within the limit that was read.
THEOREM OneRunning == Spec => []OneRunningUlangan
<1>1. ASSUME IndInv, NEW s \in Siswa
      PROVE  LET starts == {r \in Req : req[r].op = "ulanganInsert" /\ req[r].siswa = s}
             IN  /\ Cardinality(Running(s, "ulangan")) + Cardinality(starts) <= 1
                 /\ \A r \in starts : req[r].set.unlimited \/ req[r].n < req[r].set.batas
  <2> DEFINE running == Running(s, "ulangan")
             starts == {r \in Req : Starts(r, s)}
  <2>1. /\ \A h, k \in running : h = k
        /\ \A r, p \in starts : running = {} /\ r = p
        /\ \A r \in starts : req[r].set.unlimited \/ req[r].n < req[r].set.batas
    BY <1>1 DEF IndInv, StarterInv
  <2>2. /\ running = {} \/ \E h : running = {h}
        /\ starts = {} \/ \E r : starts = {r}
        /\ running = {} \/ starts = {}
    BY <2>1
  <2> HIDE DEF running, starts
  <2>3. Cardinality(running) + Cardinality(starts) <= 1
    <3>1. Cardinality(running) \in {0, 1} /\ (running = {} => Cardinality(running) = 0)
      BY <2>2, FS_EmptySet, FS_Singleton
    <3>2. Cardinality(starts) \in {0, 1} /\ (starts = {} => Cardinality(starts) = 0)
      BY <2>2, FS_EmptySet, FS_Singleton
    <3> QED BY <2>2, <3>1, <3>2
  <2> QED BY <2>1, <2>3 DEF running, starts, Starts
<1>2. IndInv => OneRunningUlangan
  BY <1>1 DEF OneRunningUlangan
<1> QED BY <1>2, ChapterInvariant, PTL

\* Submit and the cron write one event per grade, and the grade covers every
\* point and verdict stored in the answers, late answers included.
THEOREM GradeCovers == Spec => []GradeCoversAnswers
<1>1. IndInv => GradeCoversAnswers
  BY DEF IndInv, RowInv, AnswerInv, GradeCoversAnswers
<1> QED BY <1>1, ChapterInvariant, PTL

\* No interleaving of a latihan answer's key, a switch of attempts and a grading
\* puts a verdict on an answer of a ulangan that still runs.
THEOREM VerdictHidden == Spec => []VerdictHiddenWhileRunning
<1>1. IndInv => VerdictHiddenWhileRunning
  BY DEF IndInv, RowInv, AnswerInv, Unmarked, VerdictHiddenWhileRunning
<1> QED BY <1>1, ChapterInvariant, PTL

\* A delete that meets an answer between its check and its upsert leaves no
\* answer without its question.
THEOREM AnsweredKept == Spec => []AnsweredQuestionKept
<1>1. IndInv => AnsweredQuestionKept
  BY DEF IndInv
<1> QED BY <1>1, ChapterInvariant, PTL

\* Of the saves that have read one version of the setting only one is stored.
THEOREM SettingKept == Spec => SettingNotOverwritten
<1> DEFINE Seen(r) == req[r].op = "settingTx" /\ setting' # setting /\ req'[r] = Idle =>
                        req[r].expected = setting.version
<1>1. ASSUME IndInv, [Next]_vars, NEW r \in Req PROVE Seen(r)
  <2> SUFFICES ASSUME req[r].op = "settingTx", setting' # setting, req'[r] = Idle
               PROVE  req[r].expected = setting.version
    OBVIOUS
  <2>1. PICK p \in Req : SettingTx(p)
    BY <1>1, TeacherMoves DEF IndInv
  <2>2. p = r
    BY <1>1, <2>1 DEF SettingTx, Become, Idle, IndInv, TypeOK
  <2> QED BY <1>1, <2>1, <2>2 DEF SettingTx, IndInv, SettingInv
<1>2. IndInv /\ [Next]_vars => \A r \in Req : Seen(r)
  BY <1>1
<1> QED BY <1>2, ChapterInvariant, PTL DEF Spec, SettingNotOverwritten

-----------------------------------------------------------------------------
(* The ulangan implement AttemptLife                                       *)

\* The student AttemptLife gives a row: whoever is sought for a latihan.
OwnerOf(row) == IF row.mode = "ulangan" THEN row.siswa ELSE NoHasil.siswa

\* What the abstract attempts are, one at a time, before and after a step.
LEMMA LifeFields ==
    ASSUME NEW h \in HasilId
    PROVE  /\ LifeOwner[h] = OwnerOf(hasil[h]) /\ LifeOwner'[h] = OwnerOf(hasil'[h])
           /\ LifePhase[h] = PhaseOf(hasil[h]) /\ LifePhase'[h] = PhaseOf(hasil'[h])
           /\ LifeGrade[h] = hasil[h].nilai /\ LifeGrade'[h] = hasil'[h].nilai
BY DEF LifeOwner, LifePhase, LifeGrade, OwnerOf, PhaseOf, NoHasil

\* A step that leaves every attempt but h alone changes the abstract ones at h.
LEMMA LifeElsewhere ==
    ASSUME NEW h \in HasilId, \A k \in HasilId \ {h} : Same(k)
    PROVE  /\ LifeOwner' = [LifeOwner EXCEPT ![h] = OwnerOf(hasil'[h])]
           /\ LifePhase' = [LifePhase EXCEPT ![h] = PhaseOf(hasil'[h])]
           /\ LifeGrade' = [LifeGrade EXCEPT ![h] = hasil'[h].nilai]
           /\ OwnerOf(hasil'[h]) = OwnerOf(hasil[h]) => LifeOwner' = LifeOwner
           /\ PhaseOf(hasil'[h]) = PhaseOf(hasil[h]) => LifePhase' = LifePhase
           /\ hasil'[h].nilai = hasil[h].nilai => LifeGrade' = LifeGrade
<1>1. \A k \in HasilId \ {h} : hasil'[k] = hasil[k]
  BY DEF Same
<1>2. LifeOwner = [k \in HasilId |-> OwnerOf(hasil[k])]
      /\ LifeOwner' = [k \in HasilId |-> OwnerOf(hasil'[k])]
  BY DEF LifeOwner, OwnerOf, NoHasil
<1>3. LifePhase = [k \in HasilId |-> PhaseOf(hasil[k])]
      /\ LifePhase' = [k \in HasilId |-> PhaseOf(hasil'[k])]
  BY DEF LifePhase, PhaseOf
<1>4. LifeGrade = [k \in HasilId |-> hasil[k].nilai]
      /\ LifeGrade' = [k \in HasilId |-> hasil'[k].nilai]
  BY DEF LifeGrade
<1> QED BY <1>1, <1>2, <1>3, <1>4

\* Before the first Start there is no attempt.
LEMMA LifeInit == Init => Life!Init
<1> SUFFICES ASSUME Init PROVE Life!Init
  OBVIOUS
<1>1. \A h \in HasilId : hasil[h].status = "none" /\ hasil[h].mode = "latihan"
                          /\ hasil[h].nilai = -1
  BY EmptyAttempt DEF Init, NULL
<1>2. LifeOwner \in [HasilId -> Siswa]
  BY <1>1, EmptyAttempt DEF LifeOwner
<1>3. LifePhase = [h \in HasilId |-> "none"]
  BY <1>1 DEF LifePhase, PhaseOf
<1>4. LifeGrade = [h \in HasilId |-> -1]
  BY <1>1 DEF LifeGrade
<1> QED BY <1>2, <1>3, <1>4 DEF Life!Init

\* The INSERT of a ulangan opens an attempt of a student who has none running;
\* that of a latihan is no step of AttemptLife.
LEMMA LifeOpen ==
    ASSUME IndInv, NEW h \in HasilId, Opened(h), \A k \in HasilId \ {h} : Same(k)
    PROVE  Life!Next \/ UNCHANGED Life!lifeVars
<1> USE DEF IndInv
<1>1. /\ hasil[h].status = "none" /\ hasil[h].mode = "latihan" /\ hasil[h].nilai = NULL
      /\ hasil'[h].status = "berlangsung" /\ hasil'[h].nilai = NULL
  BY DEF Opened, RowInv
<1>2. LifeGrade' = LifeGrade
  BY <1>1, LifeElsewhere
<1>3. CASE hasil'[h].mode = "latihan"
  <2>1. OwnerOf(hasil'[h]) = OwnerOf(hasil[h]) /\ PhaseOf(hasil'[h]) = PhaseOf(hasil[h])
    BY <1>1, <1>3 DEF OwnerOf, PhaseOf
  <2> QED BY <1>2, <2>1, LifeElsewhere DEF Life!lifeVars
<1>4. CASE hasil'[h].mode # "latihan"
  <2>1. PICK r \in Req :
          UlanganInsert(r) /\ hasil'[h].mode = "ulangan" /\ hasil'[h].siswa = req[r].siswa
    BY <1>4 DEF Opened
  <2> DEFINE s == req[r].siswa
  <2>2. s \in Siswa /\ Running(s, "ulangan") = {}
    BY <2>1, ReqFields DEF UlanganInsert, StarterInv, Starts
  <2>3. /\ OwnerOf(hasil'[h]) = s /\ PhaseOf(hasil'[h]) = "running"
        /\ LifePhase[h] = "none"
    BY <1>1, <2>1, LifeFields DEF OwnerOf, PhaseOf
  <2>4. Life!RunningOf(s) = {}
    <3>1. ASSUME NEW k \in HasilId, LifePhase[k] = "running", LifeOwner[k] = s
          PROVE  FALSE
      <4>1. hasil[k].status = "berlangsung" /\ hasil[k].mode # "latihan"
        BY <3>1, LifeFields DEF PhaseOf
      <4>2. hasil[k] \in HasilRow
        BY DEF TypeOK
      <4>3. hasil[k].mode = "ulangan" /\ hasil[k].siswa = s
        BY <3>1, <4>1, <4>2, LifeFields DEF OwnerOf, HasilRow
      <4> QED BY <2>2, <4>1, <4>3 DEF Running, Of
    <3> QED BY <3>1 DEF Life!RunningOf
  <2> HIDE DEF s
  <2>5. /\ LifeOwner' = [LifeOwner EXCEPT ![h] = s]
        /\ LifePhase' = [LifePhase EXCEPT ![h] = "running"]
    BY <2>3, LifeElsewhere
  <2>6. Life!Open(h, s)
    BY <1>2, <2>3, <2>4, <2>5 DEF Life!Open
  <2> QED BY <2>2, <2>6 DEF Life!Next
<1> QED BY <1>3, <1>4

\* A grading scores an attempt that has no grade.
LEMMA LifeScore ==
    ASSUME IndInv, NEW h \in HasilId, Scored(h), \A k \in HasilId \ {h} : Same(k)
    PROVE  Life!Next
<1>1. /\ hasil[h].mode = "ulangan" /\ hasil[h].status # "none" /\ hasil[h].nilai = NULL
      /\ hasil'[h].mode = "ulangan" /\ hasil'[h].status = "selesai"
      /\ hasil'[h].siswa = hasil[h].siswa /\ hasil'[h].nilai \in Nat
  BY DEF IndInv, RowInv, Scored
<1>2. /\ OwnerOf(hasil'[h]) = OwnerOf(hasil[h])
      /\ PhaseOf(hasil[h]) # "none" /\ PhaseOf(hasil'[h]) = "closed"
  BY <1>1 DEF OwnerOf, PhaseOf
<1>3. /\ LifePhase[h] # "none" /\ LifeGrade[h] = -1 /\ LifeGrade'[h] \in Nat
      /\ LifeGrade'[h] = hasil'[h].nilai
  BY <1>1, <1>2, LifeFields DEF NULL
<1>4. /\ LifeOwner' = LifeOwner
      /\ LifePhase' = [LifePhase EXCEPT ![h] = "closed"]
      /\ LifeGrade' = [LifeGrade EXCEPT ![h] = LifeGrade'[h]]
  BY <1>2, <1>3, LifeElsewhere
<1>5. Life!Score(h)
  BY <1>3, <1>4 DEF Life!Score
<1> QED BY <1>5 DEF Life!Next

\* A cancel closes its attempt and touches neither owner nor grade.
LEMMA LifeAbandon ==
    ASSUME IndInv, NEW h \in HasilId, Cancelled(h), \A k \in HasilId \ {h} : Same(k)
    PROVE  Life!Next
<1>1. /\ hasil[h].mode = "ulangan" /\ hasil[h].status # "none"
      /\ hasil'[h].mode = "ulangan" /\ hasil'[h].status = "dibatalkan"
      /\ hasil'[h].siswa = hasil[h].siswa /\ hasil'[h].nilai = hasil[h].nilai
  BY DEF IndInv, RowInv, Cancelled, Kept
<1>2. /\ OwnerOf(hasil'[h]) = OwnerOf(hasil[h])
      /\ PhaseOf(hasil[h]) # "none" /\ PhaseOf(hasil'[h]) = "closed"
  BY <1>1 DEF OwnerOf, PhaseOf
<1>3. LifePhase[h] # "none"
  BY <1>2, LifeFields
<1>4. /\ LifeOwner' = LifeOwner /\ LifeGrade' = LifeGrade
      /\ LifePhase' = [LifePhase EXCEPT ![h] = "closed"]
  BY <1>1, <1>2, LifeElsewhere
<1>5. Life!Abandon(h)
  BY <1>3, <1>4 DEF Life!Abandon
<1> QED BY <1>5 DEF Life!Next

\* Every step is one of the three, or leaves the abstract attempts alone.
LEMMA LifeStep == IndInv /\ [Next]_vars => [Life!Next]_(Life!lifeVars)
<1> SUFFICES ASSUME IndInv, [Next]_vars
             PROVE  Life!Next \/ UNCHANGED Life!lifeVars
  OBVIOUS
<1>1. CASE hasil' = hasil
  BY <1>1 DEF Life!lifeVars, LifeOwner, LifePhase, LifeGrade, PhaseOf, NoHasil
<1>2. ASSUME NEW h \in HasilId, Finished(h), \A k \in HasilId \ {h} : Same(k)
      PROVE  UNCHANGED Life!lifeVars
  <2>1. hasil[h].mode = "latihan" /\ hasil'[h].mode = "latihan"
        /\ hasil'[h].nilai = hasil[h].nilai
    BY <1>2 DEF Finished, Kept
  <2>2. OwnerOf(hasil'[h]) = OwnerOf(hasil[h]) /\ PhaseOf(hasil'[h]) = PhaseOf(hasil[h])
    BY <2>1 DEF OwnerOf, PhaseOf
  <2> QED BY <1>2, <2>1, <2>2, LifeElsewhere DEF Life!lifeVars
<1> QED BY <1>1, <1>2, RowMoves, LifeOpen, LifeScore, LifeAbandon

\* The handlers of a bab and the cron together implement the life of a ulangan,
\* for every number of students, attempts and requests.
THEOREM UlanganRefinesLife == Spec => ImplementsLife
BY LifeInit, LifeStep, ChapterInvariant, PTL DEF Spec, ImplementsLife, Life!Spec

=============================================================================
