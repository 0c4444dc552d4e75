------------------------- MODULE UjianAuthor_proofs -------------------------
(* An exam that is edited while it is taken: the attempts keep the          *)
(* invariant they have when nobody edits, no update of the teacher is lost, *)
(* no attempt outlives its exam and none mixes two sources of questions.    *)
EXTENDS UjianAuthor, UjianAttempt_proofs

-----------------------------------------------------------------------------
(* The rows, the edits and the author goroutines                           *)

\* The columns of an exam row.
LEMMA RowColumns ==
    ASSUME NEW u \in UjianRow
    PROVE  /\ DOMAIN u = Columns \cup {"version"}
           /\ u.status \in {"none", "draft", "published", "archived"}
           /\ u.waktuMulai \in Waktu /\ u.waktuSelesai \in Waktu
           /\ u.durasi \in Nat /\ u.batas \in Nat /\ u.unlimited \in BOOLEAN
           /\ u.mode \in Mode /\ u.sumber \subseteq Soal /\ u.jumlah \in Nat
           /\ u.version \in Nat
BY DEF UjianRow, Columns

\* What a partial update makes of a row: a row of the table with the version
\* it had, published or not but there, and with a source that is wholly the
\* old or wholly the new one.
LEMMA MergeEffect ==
    ASSUME NEW row \in UjianRow, NEW e \in Edits, NEW old,
           NEW w, w = Merge(row, [c \in Fields(old, e) |-> e[c]])
    PROVE  /\ w \in UjianRow /\ w.version = row.version
           /\ row.status # "none" => w.status # "none"
           /\ \A c \in SourceColumns : w[c] = IF ChangesSource(e) THEN e[c] ELSE row[c]
<1> DEFINE F == Fields(old, e)
<1>1. /\ F \subseteq DOMAIN e /\ F \subseteq Columns
      /\ ChangesSource(e) => SourceColumns \subseteq F
      /\ ~ChangesSource(e) => SourceColumns \cap F = {}
  BY EditsAreColumns DEF Fields, ChangesSource, SourceColumns
<1>2. /\ DOMAIN w = Columns \cup {"version"}
      /\ \A c \in Columns \cup {"version"} : w[c] = IF c \in F THEN e[c] ELSE row[c]
  BY RowColumns DEF Merge
<1> HIDE DEF F
<1>3. /\ w.status \in {"none", "draft", "published", "archived"}
      /\ row.status # "none" => w.status # "none"
  BY <1>1, <1>2, RowColumns, EditsAreColumns DEF Columns
<1>4. w.waktuMulai \in Waktu /\ w.waktuSelesai \in Waktu
  BY <1>1, <1>2, RowColumns, EditsAreColumns DEF Columns
<1>5. w.durasi \in Nat /\ w.batas \in Nat /\ w.unlimited \in BOOLEAN
  BY <1>1, <1>2, RowColumns, EditsAreColumns DEF Columns
<1>6. w.mode \in Mode /\ w.sumber \subseteq Soal /\ w.jumlah \in Nat
  BY <1>1, <1>2, RowColumns, EditsAreColumns DEF Columns, SourceColumns, ChangesSource
<1>7. w.version = row.version /\ w.version \in Nat
  BY <1>1, <1>2, RowColumns DEF Columns
<1>8. \A c \in SourceColumns : w[c] = IF ChangesSource(e) THEN e[c] ELSE row[c]
  BY <1>1, <1>2 DEF SourceColumns, Columns
<1>9. w = [status |-> w.status, waktuMulai |-> w.waktuMulai,
           waktuSelesai |-> w.waktuSelesai, durasi |-> w.durasi,
           batas |-> w.batas, unlimited |-> w.unlimited, mode |-> w.mode,
           sumber |-> w.sumber, jumlah |-> w.jumlah, version |-> w.version]
  <2>1. w = [c \in Columns \cup {"version"} |-> w[c]]
    BY <1>2, RowColumns DEF Merge
  <2> QED BY <2>1 DEF Columns
<1> QED BY <1>3, <1>4, <1>5, <1>6, <1>7, <1>8, <1>9 DEF UjianRow

\* What an author goroutine holds, by what it is doing.
LEMMA GuruFields ==
    ASSUME AuthorTypeOK, NEW g \in Guru
    PROVE  /\ guru[g].op \in {"idle", "updateProbe", "updateCas", "junction", "delete"}
           /\ guru[g].op \in {"updateProbe", "updateCas", "junction"} =>
                /\ guru[g].row \in UjianRow /\ guru[g].edit \in Edits
                /\ guru[g].version \in Nat
                /\ guru[g] = [op |-> guru[g].op, row |-> guru[g].row,
                              edit |-> guru[g].edit, version |-> guru[g].version]
           /\ guru[g].op = "junction" => ChangesSource(guru[g].edit)
           /\ guru[g].op = "idle" => guru[g] = Idle
BY DEF AuthorTypeOK, GuruState, Idle

\* What an author goroutine may be doing next.
LEMMA GuruStates ==
    /\ Idle \in GuruState
    /\ \A u \in UjianRow, e \in Edits, v \in Nat :
          /\ [op |-> "updateProbe", row |-> u, edit |-> e, version |-> v] \in GuruState
          /\ [op |-> "updateCas", row |-> u, edit |-> e, version |-> v] \in GuruState
          /\ ChangesSource(e) =>
                [op |-> "junction", row |-> u, edit |-> e, version |-> v] \in GuruState
    /\ \A v \in Nat : [op |-> "delete", version |-> v] \in GuruState
BY DEF GuruState

\* The columns of a source.
LEMMA SourceFields ==
    ASSUME NEW row
    PROVE  /\ SourceOf(row).mode = row.mode
           /\ SourceOf(row).sumber = row.sumber
           /\ SourceOf(row).jumlah = row.jumlah
BY DEF SourceOf, SourceColumns

-----------------------------------------------------------------------------
(* What the steps do                                                       *)

\* A student's step, the cron's, the bank's and a crash leave the exam alone,
\* and the author goroutines too unless they die with the server.
LEMMA StudentEffect ==
    ASSUME StudentStep \/ ServerCrash
    PROVE  /\ [Next]_vars /\ UNCHANGED examVars
           /\ guru' = guru \/ guru' = [g \in Guru |-> Idle]
<1>1. ASSUME NEW r \in Req, ReqAction(r) PROVE UNCHANGED examVars
  BY <1>1 DEF ReqAction, StartStep, SubmitStep, StartFind, StartWindow, StartLock,
     StartInsert, SaveCheck, SaveUpsert, SubmitFind, SubmitLock, SubmitCommit,
     SubmitOverflow, CancelFind, CancelUpdate, ReqFail
<1>2. ASSUME CronStep \/ CronFail PROVE UNCHANGED examVars
  BY <1>2 DEF CronStep, CronScan, CronLock, CronCommit, CronOverflow, CronFail
<1>3. ASSUME Tick \/ Crash \/ \E q \in Editable : BankAction(q)
      PROVE  UNCHANGED examVars
  BY <1>3 DEF Tick, Crash, BankAction, BankUpdate, BankDelete
<1> QED BY <1>1, <1>2, <1>3 DEF StudentStep, ServerCrash, Next, Step

\* An author's step leaves the attempts, their answers and whoever works on
\* them alone.
LEMMA AuthorEffect ==
    ASSUME [AuthorNext]_authorVars, ~(StudentStep \/ ServerCrash)
    PROVE  UNCHANGED attemptVars
BY DEF AuthorNext, AuthorAction, UpdateFind, UpdateProbe, UpdateCas, UpdateJunction,
   DeleteFind, DeleteCommit, AuthorFail, SusulanCreate, SusulanDelete, authorVars,
   attemptVars, examVars, vars

\* The UPDATE of an edit: nothing when another version is there by now,
\* otherwise a row one version on that is there and has the source of the edit
\* or the one it had.
LEMMA CasEffect ==
    ASSUME AuthorTypeOK, NEW g \in Guru, UpdateCas(g)
    PROVE  /\ guru[g].op = "updateCas" /\ guru[g].edit \in Edits
           /\ \A k \in Guru \ {g} : guru'[k] = guru[k]
           /\ \/ guru'[g] = Idle
              \/ /\ ChangesSource(guru[g].edit)
                 /\ guru'[g] = [op |-> "junction", row |-> guru[g].row,
                                edit |-> guru[g].edit, version |-> guru[g].version]
           /\ guru'[g].op \in {"idle", "junction"}
           /\ guru'[g].op = "junction" => guru'[g].edit = guru[g].edit
           /\ \/ ujian' = ujian
              \/ /\ CasMatches(g)
                 /\ ujian' \in UjianRow /\ ujian'.version = ujian.version + 1
                 /\ ujian'.status # "none"
                 /\ \A c \in SourceColumns :
                       ujian'[c] = IF ChangesSource(guru[g].edit)
                                     THEN guru[g].edit[c] ELSE ujian[c]
<1> DEFINE e == guru[g].edit
           w == Merge(ujian, [c \in Fields(guru[g].row, e) |-> e[c]])
<1>1. /\ guru[g].op = "updateCas"
      /\ guru \in [Guru -> GuruState]
      /\ guru[g].edit \in Edits /\ ujian \in UjianRow
      /\ guru[g] = [op |-> guru[g].op, row |-> guru[g].row,
                    edit |-> guru[g].edit, version |-> guru[g].version]
  BY GuruFields DEF UpdateCas, AuthorTypeOK, TypeOK
<1>2. CASE ~CasMatches(g)
  BY <1>1, <1>2 DEF UpdateCas, Idle
<1>3. CASE CasMatches(g)
  <2>1. /\ ujian' = [w EXCEPT !.version = @ + 1]
        /\ guru' = [guru EXCEPT ![g] =
              IF ChangesSource(e) THEN [guru[g] EXCEPT !.op = "junction"] ELSE Idle]
    BY <1>3 DEF UpdateCas
  <2>2. /\ w \in UjianRow /\ w.version = ujian.version
        /\ ujian.status # "none" => w.status # "none"
        /\ \A c \in SourceColumns : w[c] = IF ChangesSource(e) THEN e[c] ELSE ujian[c]
    BY <1>1, MergeEffect
  <2>3. [guru[g] EXCEPT !.op = "junction"] =
          [op |-> "junction", row |-> guru[g].row,
           edit |-> guru[g].edit, version |-> guru[g].version]
    BY <1>1
  <2> HIDE DEF w
  <2>4. /\ ujian' \in UjianRow /\ ujian'.version = ujian.version + 1
        /\ ujian'.status = w.status
    BY <2>1, <2>2 DEF UjianRow
  <2>5. \A c \in SourceColumns : ujian'[c] = w[c]
    <3>1. DOMAIN w = Columns \cup {"version"} /\ SourceColumns \subseteq Columns
      BY <2>2, RowColumns DEF SourceColumns, Columns
    <3> QED BY <2>1, <3>1 DEF SourceColumns
  <2>6. /\ \A k \in Guru \ {g} : guru'[k] = guru[k]
        /\ guru'[g] = IF ChangesSource(e) THEN [guru[g] EXCEPT !.op = "junction"] ELSE Idle
    BY <1>1, <2>1
  <2>7. /\ guru'[g].op \in {"idle", "junction"}
        /\ guru'[g].op = "junction" => guru'[g].edit = e
    BY <2>3, <2>6 DEF Idle
  <2> HIDE DEF e
  <2> QED BY <1>1, <1>3, <2>2, <2>3, <2>4, <2>5, <2>6, <2>7 DEF CasMatches, e
<1> QED BY <1>2, <1>3

\* What an author's step does to the exam row and to what its goroutine is
\* doing: a request that read the row begins, one goes on to its UPDATE, updates
\* or only rewrites the junction, one that deletes begins or deletes, or one
\* ends.
Edited(g) ==
    /\ \A k \in Guru \ {g} : guru'[k] = guru[k]
    /\ \/ UNCHANGED <<ujian, ujianSoal>> /\ guru'[g] = Idle
       \/ /\ UNCHANGED <<ujian, ujianSoal>>
          /\ guru'[g].op \in {"updateProbe", "updateCas"}
          /\ guru'[g].row = ujian /\ guru'[g].version \in 1..ujian.version
          /\ guru'[g].edit \in Edits
          /\ ChangesSource(guru'[g].edit) => SourceValid(guru'[g].edit)
       \/ UNCHANGED <<ujian, ujianSoal>> /\ guru'[g].op = "delete"
       \/ /\ UNCHANGED <<ujian, ujianSoal>>
          /\ guru[g].op = "updateProbe" /\ guru'[g].op = "updateCas"
          /\ guru'[g].row = guru[g].row
          /\ guru'[g].edit = guru[g].edit
          /\ guru'[g].version = guru[g].version
       \/ UpdateCas(g) /\ UNCHANGED ujianSoal
       \/ UpdateJunction(g) /\ UNCHANGED ujian /\ guru'[g] = Idle
       \/ /\ ~Attempted /\ ujianSoal' = {} /\ guru'[g] = Idle
          /\ ujian' = [ujian EXCEPT !.status = "none"]

\* Every author's step is one of these, or concerns only the susulan.
LEMMA ExamEffect ==
    ASSUME AuthorTypeOK, [AuthorNext]_authorVars, ~(StudentStep \/ ServerCrash)
    PROVE  UNCHANGED <<ujian, ujianSoal, guru>> \/ \E g \in Guru : Edited(g)
<1>0. guru \in [Guru -> GuruState]
  BY DEF AuthorTypeOK
<1> USE <1>0 DEF vars, examVars
<1>1. ASSUME NEW g \in Guru, NEW e \in Edits, NEW v \in 1..MaxVersion, UpdateFind(g, e, v)
      PROVE  Edited(g)
  BY <1>1 DEF UpdateFind, Edited
<1>2. ASSUME NEW g \in Guru, UpdateProbe(g) PROVE Edited(g)
  <2>1. /\ guru'[g] = Idle \/ guru'[g] = [guru[g] EXCEPT !.op = "updateCas"]
        /\ \A k \in Guru \ {g} : guru'[k] = guru[k]
        /\ guru[g].op = "updateProbe" /\ UNCHANGED <<ujian, ujianSoal>>
    BY <1>2 DEF UpdateProbe
  <2>2. guru[g] = [op |-> guru[g].op, row |-> guru[g].row,
                   edit |-> guru[g].edit, version |-> guru[g].version]
    BY <2>1, GuruFields
  <2>3. CASE guru'[g] = [guru[g] EXCEPT !.op = "updateCas"]
    <3>1. /\ guru'[g].op = "updateCas" /\ guru'[g].row = guru[g].row
          /\ guru'[g].edit = guru[g].edit /\ guru'[g].version = guru[g].version
      BY <2>2, <2>3
    <3> QED BY <2>1, <3>1 DEF Edited
  <2> QED BY <2>1, <2>3 DEF Edited
<1>3. ASSUME NEW g \in Guru, UpdateCas(g) PROVE Edited(g)
  BY <1>3, CasEffect DEF UpdateCas, Edited
<1>4. ASSUME NEW g \in Guru, UpdateJunction(g) PROVE Edited(g)
  <2>1. /\ guru'[g] = Idle /\ UNCHANGED ujian
        /\ \A k \in Guru \ {g} : guru'[k] = guru[k]
    BY <1>4 DEF UpdateJunction
  <2> QED BY <1>4, <2>1 DEF Edited
<1>5. ASSUME NEW g \in Guru, NEW v \in 1..MaxVersion, DeleteFind(g, v) PROVE Edited(g)
  BY <1>5 DEF DeleteFind, Edited
<1>6. ASSUME NEW g \in Guru, DeleteCommit(g) PROVE Edited(g)
  BY <1>6 DEF DeleteCommit, Edited
<1>7. ASSUME NEW g \in Guru, AuthorFail(g) PROVE Edited(g)
  BY <1>7 DEF AuthorFail, Edited
<1>8. ASSUME UNCHANGED authorVars \/ \E s \in Siswa : SusulanDelete(s)
                \/ \E o \in Susulans : SusulanCreate(s, o)
      PROVE  UNCHANGED <<ujian, ujianSoal, guru>>
  BY <1>8 DEF authorVars, SusulanDelete, SusulanCreate
<1> QED
  BY <1>1, <1>2, <1>3, <1>4, <1>5, <1>6, <1>7, <1>8 DEF AuthorNext, AuthorAction

-----------------------------------------------------------------------------
(* Types, and the attempts' own invariant                                  *)

LEMMA AuthorTypeNext ==
    ASSUME AuthorTypeOK, [AuthorNext]_authorVars
    PROVE  AuthorTypeOK'
<1>1. CASE StudentStep \/ ServerCrash
  <2>1. TypeOK'
    BY <1>1, StudentEffect, TypeNext DEF AuthorTypeOK
  <2> QED BY <1>1, <2>1, StudentEffect, GuruStates DEF AuthorTypeOK
<1>2. CASE ~(StudentStep \/ ServerCrash)
  <2>1. UNCHANGED attemptVars
    BY <1>2, AuthorEffect
  <2>2. /\ fault' \in Nat
        /\ ujian' \in UjianRow /\ ujianSoal' \subseteq Soal
        /\ override' \in [Siswa -> OverrideRow]
        /\ guru' \in [Guru -> GuruState]
    <3>0. /\ fault \in Nat
          /\ ujian \in UjianRow /\ ujianSoal \subseteq Soal
          /\ override \in [Siswa -> OverrideRow]
          /\ guru \in [Guru -> GuruState]
      BY DEF AuthorTypeOK, TypeOK
    <3> DEFINE Goal == /\ fault' \in Nat
                       /\ ujian' \in UjianRow /\ ujianSoal' \subseteq Soal
                       /\ override' \in [Siswa -> OverrideRow]
                       /\ guru' \in [Guru -> GuruState]
    <3>n. NoOverride \in OverrideRow
      BY DEF NoOverride, OverrideRow, Waktu, NULL
    <3>1. ASSUME NEW g \in Guru, NEW e \in Edits, NEW v \in 1..MaxVersion,
                 UpdateFind(g, e, v)
          PROVE  Goal
      <4>v. v \in Nat
        BY MaxVersionIsNat
      <4>1. [op |-> IF ChangesSource(e) \/ ChangesTiming(ujian, e)
                      THEN "updateProbe" ELSE "updateCas",
             row |-> ujian, edit |-> e, version |-> v] \in GuruState
        <5>1. CASE ChangesSource(e) \/ ChangesTiming(ujian, e)
          BY <3>0, <4>v, <5>1 DEF GuruState
        <5>2. CASE ~(ChangesSource(e) \/ ChangesTiming(ujian, e))
          BY <3>0, <4>v, <5>2 DEF GuruState
        <5> QED BY <5>1, <5>2
      <4> QED BY <3>0, <3>1, <4>1 DEF UpdateFind, vars
    <3>2. ASSUME NEW g \in Guru, UpdateProbe(g) PROVE Goal
      <4>1. [guru[g] EXCEPT !.op = "updateCas"] \in GuruState
        <5>1. /\ guru[g] = [op |-> guru[g].op, row |-> guru[g].row,
                            edit |-> guru[g].edit, version |-> guru[g].version]
              /\ guru[g].row \in UjianRow /\ guru[g].edit \in Edits
              /\ guru[g].version \in Nat
          BY <3>2, GuruFields DEF UpdateProbe
        <5>2. [guru[g] EXCEPT !.op = "updateCas"] =
                [op |-> "updateCas", row |-> guru[g].row,
                 edit |-> guru[g].edit, version |-> guru[g].version]
          BY <5>1
        <5> QED BY <5>1, <5>2 DEF GuruState
      <4> QED BY <3>0, <3>2, <4>1, GuruStates DEF UpdateProbe, vars
    <3>3. ASSUME NEW g \in Guru, UpdateCas(g) PROVE Goal
      <4>1. /\ guru'[g] \in GuruState /\ ujian' \in UjianRow
            /\ \A k \in Guru \ {g} : guru'[k] = guru[k]
        <5>1. /\ guru[g].row \in UjianRow /\ guru[g].edit \in Edits
              /\ guru[g].version \in Nat
          BY <3>3, GuruFields DEF UpdateCas
        <5>2. guru'[g] \in GuruState
          BY <3>3, <5>1, CasEffect, GuruStates
        <5> QED BY <3>0, <3>3, <5>2, CasEffect
      <4>2. /\ UNCHANGED <<fault, ujianSoal, override>>
            /\ guru' = [guru EXCEPT ![g] = guru'[g]]
        BY <3>0, <3>3 DEF UpdateCas
      <4>3. guru' \in [Guru -> GuruState]
        BY <3>0, <4>1, <4>2
      <4> QED BY <3>0, <4>1, <4>2, <4>3
    <3>4. ASSUME NEW g \in Guru, UpdateJunction(g) PROVE Goal
      <4>1. guru[g].edit \in Edits /\ "mode" \in DOMAIN guru[g].edit
        BY <3>4, GuruFields DEF UpdateJunction, ChangesSource
      <4>2. ujianSoal' = {} \/ ujianSoal' = guru[g].edit.sumber
        BY <3>4 DEF UpdateJunction
      <4>3. /\ UNCHANGED <<fault, ujian, override>>
            /\ guru' = [guru EXCEPT ![g] = Idle]
        BY <3>4 DEF UpdateJunction
      <4> QED BY <3>0, <4>1, <4>2, <4>3, EditsAreColumns, GuruStates
    <3>5. ASSUME NEW g \in Guru, NEW v \in 1..MaxVersion, DeleteFind(g, v) PROVE Goal
      <4>1. [op |-> "delete", version |-> v] \in GuruState
        BY GuruStates, MaxVersionIsNat
      <4> QED BY <3>0, <3>5, <4>1 DEF DeleteFind, vars
    <3>6. ASSUME NEW g \in Guru, DeleteCommit(g) PROVE Goal
      <4>1. [ujian EXCEPT !.status = "none"] \in UjianRow
        BY <3>0 DEF UjianRow
      <4> QED BY <3>0, <3>n, <3>6, <4>1, GuruStates DEF DeleteCommit, examVars
    <3>7. ASSUME NEW g \in Guru, AuthorFail(g) PROVE Goal
      BY <3>0, <3>7, GuruStates DEF AuthorFail, examVars
    <3>8. ASSUME NEW s \in Siswa, \/ SusulanDelete(s)
                                 \/ \E o \in Susulans : SusulanCreate(s, o)
          PROVE  Goal
      BY <3>0, <3>n, <3>8, SusulansAreRows DEF SusulanDelete, SusulanCreate
    <3>9. ASSUME UNCHANGED authorVars PROVE Goal
      BY <3>0, <3>9 DEF authorVars, vars
    <3> QED
      BY <1>2, <3>1, <3>2, <3>3, <3>4, <3>5, <3>6, <3>7, <3>8, <3>9
         DEF AuthorNext, AuthorAction
  <2> QED BY <2>1, <2>2 DEF AuthorTypeOK, TypeOK, attemptVars
<1> QED BY <1>1, <1>2

\* Editing an exam disturbs no attempt: the invariant of UjianAttempt holds as
\* it did, since no part of it but the types reads the exam's row.
LEMMA AttemptsNext ==
    ASSUME IndInv, AuthorTypeOK, [AuthorNext]_authorVars
    PROVE  IndInv'
<1>1. CASE StudentStep \/ ServerCrash
  BY <1>1, StudentEffect, IndNext
<1>2. CASE ~(StudentStep \/ ServerCrash)
  <2>1. UNCHANGED attemptVars
    BY <1>2, AuthorEffect
  <2> USE <2>1 DEF attemptVars, IndInv
  <2>2. TypeOK'
    BY AuthorTypeNext DEF AuthorTypeOK
  <2>3. RowInv' /\ AnswerInv' /\ TimeInv'
    BY DEF RowInv, OneGradeEvent, AnswerInv, LateAnswerNeverScores, TimeInv, FinishTimeSound
  <2>4. GraderInv' /\ StarterInv'
    BY DEF GraderInv, StarterInv, NoStartCollision, Running, Live
  <2> QED BY <2>2, <2>3, <2>4
<1> QED BY <1>1, <1>2

\* What a student's step does to a row of hasil_ujian: an attempt keeps the
\* questions it was given, and only a Start that has drawn makes one, of an exam
\* that is there.
LEMMA PoolEffect ==
    ASSUME IndInv, [Next]_vars, NEW h \in HasilId
    PROVE  \/ hasil[h].status = "none" /\ hasil'[h].status = "none"
           \/ hasil[h].status # "none" /\ hasil'[h].pool = hasil[h].pool
           \/ \E r \in Req : /\ req[r].op = "startInsert" /\ ujian.status # "none"
                            /\ hasil'[h].pool = req[r].pool
<1> DEFINE Goal == \/ hasil[h].status = "none" /\ hasil'[h].status = "none"
                   \/ hasil[h].status # "none" /\ hasil'[h].pool = hasil[h].pool
                   \/ \E r \in Req : /\ req[r].op = "startInsert" /\ ujian.status # "none"
                                    /\ hasil'[h].pool = req[r].pool
<1>0. hasil \in [HasilId -> HasilRow]
  BY DEF IndInv, TypeOK
<1>1. CASE hasil'[h] = hasil[h]
  BY <1>1
<1>2. ASSUME NEW r \in Req, StartInsert(r) PROVE Goal
  <2>1. CASE hasil' = hasil
    BY <2>1
  <2>2. CASE hasil' # hasil
    <3>1. /\ req[r].op = "startInsert" /\ ujian.status # "none"
          /\ \E k \in HasilId : hasil' = [hasil EXCEPT ![k] =
                [status |-> "berlangsung", siswa |-> req[r].siswa,
                 pool |-> req[r].pool, mulai |-> req[r].t,
                 deadline |-> req[r].t + Durasi(req[r].u, req[r].o),
                 selesai |-> NULL, nilai |-> NULL, benar |-> NULL,
                 total |-> NULL, attemptNo |-> req[r].n + 1,
                 deleted |-> FALSE]]
      BY <1>2, <2>2 DEF StartInsert
    <3>2. hasil'[h] = hasil[h] \/ hasil'[h].pool = req[r].pool
      BY <1>0, <3>1
    <3> QED BY <3>1, <3>2
  <2> QED BY <2>1, <2>2
<1>3. ASSUME CronCommit \/ \E r \in Req : SubmitCommit(r) PROVE Goal
  <2>1. PICK k \in HasilId, graded \in [Soal -> JawabanRow], at \in Nat :
            Finalise(k, graded, at) /\ hasil[k].status # "none"
    BY <1>3, GradingStep
  <2>2. hasil' = [hasil EXCEPT ![k].status = "selesai", ![k].selesai = at,
                               ![k].nilai = Nilai(graded),
                               ![k].benar = Benar(graded),
                               ![k].total = Cardinality(hasil[k].pool)]
    BY <2>1 DEF Finalise
  <2>3. hasil'[h] = hasil[h] \/ (h = k /\ hasil'[h].pool = hasil[h].pool)
    BY <1>0, <2>2 DEF HasilRow
  <2> QED BY <2>1, <2>3
<1>4. ASSUME NEW r \in Req, CancelUpdate(r) PROVE Goal
  <2>1. /\ hasil' = [hasil EXCEPT ![req[r].h].status = "dibatalkan",
                                  ![req[r].h].selesai = now, ![req[r].h].deleted = TRUE]
        /\ hasil[req[r].h].status # "none"
    BY <1>4 DEF CancelUpdate, IndInv, GraderInv
  <2>2. hasil'[h] = hasil[h] \/ (h = req[r].h /\ hasil'[h].pool = hasil[h].pool)
    BY <1>0, <2>1 DEF HasilRow
  <2> QED BY <2>1, <2>2
<1> QED BY <1>1, <1>2, <1>3, <1>4, Writers

-----------------------------------------------------------------------------
(* No lost update, no orphan                                               *)

\* What an update holds stays behind the exam's row, or is it.
LEMMA UpdateNext ==
    ASSUME AuthorTypeOK, UpdateInv, [AuthorNext]_authorVars
    PROVE  UpdateInv'
<1> DEFINE Behind(x) ==
             /\ x.version <= x.row.version
             /\ x.row.version <= ujian.version
             /\ ujian.status # "none" /\ x.row.version = ujian.version => x.row = ujian
<1>0. /\ ujian \in UjianRow /\ ujian.version \in Nat
      /\ \A g \in Guru : guru[g].op \in {"updateProbe", "updateCas"} =>
            /\ guru[g].row.version \in Nat /\ guru[g].version \in Nat
            /\ Behind(guru[g])
  BY GuruFields, RowColumns DEF AuthorTypeOK, TypeOK, UpdateInv
<1>1. CASE StudentStep \/ ServerCrash
  <2>1. ujian' = ujian /\ \A g \in Guru : guru'[g] = guru[g] \/ guru'[g] = Idle
    BY <1>1, StudentEffect DEF examVars
  <2> QED BY <1>0, <2>1 DEF UpdateInv, Idle
<1>2. CASE UNCHANGED <<ujian, ujianSoal, guru>>
  BY <1>2 DEF UpdateInv
<1>3. ASSUME NEW g \in Guru, Edited(g) PROVE UpdateInv'
  <2> SUFFICES ASSUME NEW k \in Guru, guru'[k].op \in {"updateProbe", "updateCas"}
               PROVE  /\ guru'[k].version <= guru'[k].row.version
                      /\ guru'[k].row.version <= ujian'.version
                      /\ ujian'.status # "none" /\ guru'[k].row.version = ujian'.version =>
                            guru'[k].row = ujian'
    BY DEF UpdateInv
  <2>0. k # g => guru'[k] = guru[k]
    BY <1>3 DEF Edited
  <2>1. CASE UNCHANGED ujian
    <3>1. CASE k # g
      BY <1>0, <2>0, <2>1, <3>1
    <3>2. CASE k = g /\ UpdateCas(g)
      <4>1. guru'[g].op \notin {"updateProbe", "updateCas"}
        BY <3>2, CasEffect
      <4> QED BY <3>2, <4>1
    <3>3. CASE k = g /\ ~UpdateCas(g)
      <4>1. \/ /\ guru'[g].row = ujian /\ guru'[g].version \in 1..ujian.version
            \/ /\ guru[g].op = "updateProbe" /\ guru'[g].row = guru[g].row
               /\ guru'[g].version = guru[g].version
        BY <1>3, <3>3 DEF Edited, Idle
      <4> QED BY <1>0, <2>1, <3>3, <4>1
    <3> QED BY <3>1, <3>2, <3>3
  <2>2. CASE UpdateCas(g) /\ ujian' # ujian
    <3>1. /\ ujian'.version = ujian.version + 1
          /\ guru'[g].op \notin {"updateProbe", "updateCas"}
      BY <2>2, CasEffect
    <3>2. guru'[k] = guru[k]
      BY <2>0, <3>1
    <3> QED BY <1>0, <3>1, <3>2
  <2>3. CASE guru'[g] = Idle /\ ujian' = [ujian EXCEPT !.status = "none"]
    <3>1. ujian'.status = "none" /\ ujian'.version = ujian.version
      BY <1>0, <2>3 DEF UjianRow
    <3>2. guru'[k] = guru[k]
      BY <2>0, <2>3 DEF Idle
    <3> QED BY <1>0, <3>1, <3>2
  <2> QED BY <1>3, <2>1, <2>2, <2>3 DEF Edited
<1> QED BY <1>1, <1>2, <1>3, ExamEffect

\* Neither the Start that inserts after a Delete has counted nor the Delete that
\* commits after a Start has counted leaves an attempt of no exam.
LEMMA OrphanNext ==
    ASSUME IndInv, AuthorTypeOK, NoOrphanAttempt, [AuthorNext]_authorVars
    PROVE  NoOrphanAttempt'
<1>0. ujian \in UjianRow
  BY DEF AuthorTypeOK, TypeOK
<1>1. CASE StudentStep \/ ServerCrash
  <2>1. [Next]_vars /\ ujian' = ujian
    BY <1>1, StudentEffect DEF examVars
  <2>2. ASSUME NEW h \in HasilId, hasil'[h].status # "none" PROVE ujian.status # "none"
    BY <2>1, <2>2, PoolEffect DEF NoOrphanAttempt, Attempted
  <2> QED BY <2>1, <2>2 DEF NoOrphanAttempt, Attempted
<1>2. CASE ~(StudentStep \/ ServerCrash)
  <2>1. hasil' = hasil
    BY <1>2, AuthorEffect DEF attemptVars
  <2>2. ASSUME NEW g \in Guru, Edited(g), Attempted
        PROVE  ujian'.status # "none"
    <3>1. ujian.status # "none"
      BY <2>2 DEF NoOrphanAttempt
    <3>2. ASSUME UpdateCas(g) PROVE ujian'.status # "none"
      BY <3>1, <3>2, CasEffect
    <3> QED BY <2>2, <3>1, <3>2 DEF Edited
  <2> QED BY <1>2, <2>1, <2>2, ExamEffect DEF NoOrphanAttempt, Attempted
<1> QED BY <1>1, <1>2

-----------------------------------------------------------------------------
(* One source                                                              *)

\* A saved source is told by its three columns.
LEMMA SavedByColumns ==
    ASSUME NEW a, NEW b, \A c \in SourceColumns : a[c] = b[c]
    PROVE  Saved(a) <=> Saved(b)
BY DEF Saved, SourceOf, SourceColumns

\* An edit that was accepted has a source that may be saved.
LEMMA ValidIsSaved ==
    ASSUME NEW e \in Edits, ChangesSource(e), SourceValid(e)
    PROVE  Saved(e)
<1>1. e.mode \in Mode /\ e.jumlah \in Nat
  BY EditsAreColumns DEF ChangesSource
<1>2. e.mode = "random" => e.jumlah > 0
  BY <1>1 DEF SourceValid
<1> QED BY <1>2 DEF Saved, Sources

\* Whatever is drawn for an exam with a saved source comes from one source: a
\* manual one by way of the junction, which may hold another source than the
\* row the Start has read, a random one from the bank.
LEMMA DrawnFromOne ==
    ASSUME AuthorTypeOK, SourceInv, NEW u \in UjianRow, Saved(u), Pool(u) # {},
           NEW d \in Draws(u)
    PROVE  \E c \in Sources : DrawnFrom(d, c)
<1>1. u.mode \in {"manual", "random"}
  BY DEF Pool, UjianRow, Mode
<1>2. CASE u.mode = "manual"
  <2>1. d = ujianSoal /\ ujianSoal # {}
    BY <1>2 DEF Draws, Pool
  <2>2. PICK c \in Sources : c.mode = "manual" /\ ujianSoal = c.sumber
    BY <2>1 DEF SourceInv
  <2> QED BY <2>1, <2>2 DEF DrawnFrom
<1>3. CASE u.mode = "random"
  <2> DEFINE p == Pool(u)
  <2>1. p = {q \in u.sumber : ~bank[q].deleted} /\ p # {}
    BY <1>3 DEF Pool
  <2>2. /\ u.jumlah \in Nat /\ u.jumlah > 0 /\ u.sumber \subseteq Soal
        /\ SourceOf(u) \in Sources
    BY <1>3, RowColumns DEF Saved
  <2>3. IsFiniteSet(p) /\ Cardinality(p) \in Nat /\ Cardinality(p) # 0
    <3>1. IsFiniteSet(p)
      BY <2>1, <2>2, SetsFinite, FS_Subset
    <3> QED BY <2>1, <3>1, FS_CardinalityType, FS_EmptySet
  <2> HIDE DEF p
  <2>4. \/ d \subseteq p /\ Cardinality(d) = u.jumlah
        \/ d = p /\ ~(u.jumlah < Cardinality(p))
    BY <1>3, <2>2 DEF Draws, p
  <2>5. d \subseteq u.sumber /\ Cardinality(d) \in 1..u.jumlah
    <3>1. d \subseteq u.sumber
      BY <2>1, <2>4
    <3> DEFINE j == u.jumlah
               n == Cardinality(d)
    <3>2. j \in Nat /\ j > 0 /\ n \in Nat
      BY <2>2, <2>3, <2>4
    <3>3. n = j \/ (n # 0 /\ ~(j < n))
      BY <2>3, <2>4
    <3> HIDE DEF j, n
    <3>4. n \in 1..j
      BY <3>2, <3>3
    <3> QED BY <3>1, <3>4 DEF j, n
  <2>6. DrawnFrom(d, SourceOf(u))
    BY <1>3, <2>5, SourceFields DEF DrawnFrom
  <2> QED BY <2>2, <2>6
<1> QED BY <1>1, <1>2, <1>3

\* What a Start that has read the exam comes from: the exam's row, or the row
\* it had read; and what it has drawn comes from that row.
LEMMA StartMoves ==
    ASSUME TypeOK, [Next]_vars, NEW r \in Req
    PROVE  /\ req'[r].op \in {"startFound", "startWait"} =>
                \/ req'[r] = req[r]
                \/ req'[r].u = ujian
                \/ req[r].op = "startFound" /\ req'[r].u = req[r].u
           /\ req'[r].op = "startInsert" =>
                \/ req'[r] = req[r]
                \/ /\ req[r].op = "startWait" /\ Pool(req[r].u) # {}
                   /\ req'[r].pool \in Draws(req[r].u)
<1> DEFINE Goal == /\ req'[r].op \in {"startFound", "startWait"} =>
                        \/ req'[r] = req[r]
                        \/ req'[r].u = ujian
                        \/ req[r].op = "startFound" /\ req'[r].u = req[r].u
                   /\ req'[r].op = "startInsert" =>
                        \/ req'[r] = req[r]
                        \/ /\ req[r].op = "startWait" /\ Pool(req[r].u) # {}
                           /\ req'[r].pool \in Draws(req[r].u)
<1>0. req \in [Req -> ReqState]
  BY DEF TypeOK
<1>1. ASSUME req'[r] = req[r] \/ req'[r] = Idle PROVE Goal
  BY <1>1 DEF Idle
<1>2. ASSUME NEW s \in Siswa, StartFind(r, s) PROVE Goal
  BY <1>0, <1>2 DEF StartFind
<1>3. ASSUME StartWindow(r) PROVE Goal
  <2>1. \/ req'[r] = Idle
        \/ /\ req[r].op = "startFound" /\ req'[r].op = "startWait"
           /\ req'[r].u = req[r].u
    BY <1>0, <1>3 DEF StartWindow
  <2> QED BY <2>1 DEF Idle
<1>4. ASSUME StartLock(r) PROVE Goal
  <2>1. \/ req'[r] = Idle
        \/ /\ req[r].op = "startWait" /\ Pool(req[r].u) # {}
           /\ \E d \in Draws(req[r].u) :
                 req'[r].op = "startInsert" /\ req'[r].pool = d
    BY <1>0, <1>4 DEF StartLock
  <2> QED BY <2>1 DEF Idle
<1>5. ASSUME NEW h \in HasilId, \/ SubmitFind(r, h) \/ CancelFind(r, h)
                               \/ \E q \in Soal, a \in Jawab : SaveCheck(r, h, q, a)
      PROVE  Goal
  <2>1. req'[r].op \in {"submitWait", "cancel", "save"}
    BY <1>0, <1>5 DEF SubmitFind, CancelFind, SaveCheck
  <2> QED BY <2>1
<1>6. ASSUME SubmitLock(r) PROVE Goal
  <2>1. req'[r] = Idle \/ req'[r].op = "submitGrade"
    BY <1>0, <1>6 DEF SubmitLock
  <2> QED BY <2>1 DEF Idle
<1>7. ASSUME StartInsert(r) \/ SaveUpsert(r) \/ SubmitCommit(r) \/ SubmitOverflow(r)
             \/ CancelUpdate(r) \/ ReqFail(r)
      PROVE  Goal
  <2>1. req'[r] = Idle
    BY <1>0, <1>7 DEF StartInsert, SaveUpsert, SubmitCommit, SubmitOverflow,
       CancelUpdate, ReqFail
  <2> QED BY <1>1, <2>1
<1>8. ASSUME NEW p \in Req \ {r}, ReqAction(p) PROVE Goal
  <2>1. req'[r] = req[r]
    BY <1>0, <1>8 DEF ReqAction, StartStep, SubmitStep, StartFind, StartWindow,
       StartLock, StartInsert, SaveCheck, SaveUpsert, SubmitFind, SubmitLock,
       SubmitCommit, SubmitOverflow, CancelFind, CancelUpdate, ReqFail
  <2> QED BY <1>1, <2>1
<1>9. ASSUME \/ CronStep \/ CronFail \/ Tick \/ Crash \/ UNCHANGED vars
             \/ \E q \in Editable : BankAction(q)
      PROVE  Goal
  <2>1. req'[r] = req[r] \/ req'[r] = Idle
    BY <1>9 DEF CronStep, BankAction, CronScan, CronLock, CronCommit, CronOverflow,
       CronFail, Crash, Tick, BankUpdate, BankDelete, vars
  <2> QED BY <1>1, <2>1
<1> HIDE DEF Goal
<1>10. ASSUME ReqAction(r) PROVE Goal
  BY <1>10, <1>2, <1>3, <1>4, <1>5, <1>6, <1>7 DEF ReqAction, StartStep, SubmitStep
<1>11. Goal
  BY <1>8, <1>9, <1>10 DEF Next, Step
<1> QED BY <1>11 DEF Goal

\* Every holder of a source goes on to hold a saved one.
LEMMA SourceNext ==
    ASSUME AuthorTypeOK, SourceInv, [AuthorNext]_authorVars
    PROVE  SourceInv'
<1> DEFINE Holds(x) ==
             x.op \in {"updateProbe", "updateCas", "junction"} /\ ChangesSource(x.edit) =>
                Saved(x.edit)
           OfOne(js) == js # {} => \E c \in Sources : c.mode = "manual" /\ js = c.sumber
           Read(x) == x.op \in {"startFound", "startWait"} => Saved(x.u)
<1>0. /\ Saved(ujian) /\ OfOne(ujianSoal)
      /\ \A r \in Req : Read(req[r])
      /\ \A g \in Guru : Holds(guru[g])
  BY DEF SourceInv
<1>s. ASSUME Saved(ujian'), OfOne(ujianSoal'), \A r \in Req : Read(req'[r]),
             \A g \in Guru : Holds(guru'[g])
      PROVE  SourceInv'
  BY <1>s DEF SourceInv, Saved, Sources, SourceOf, ChangesSource
<1>1. CASE StudentStep \/ ServerCrash
  <2>1. /\ [Next]_vars /\ ujian' = ujian /\ ujianSoal' = ujianSoal
        /\ \A g \in Guru : guru'[g] = guru[g] \/ guru'[g] = Idle
    BY <1>1, StudentEffect DEF examVars
  <2>2. \A g \in Guru : Holds(guru'[g])
    BY <1>0, <2>1 DEF Idle
  <2>3. ASSUME NEW r \in Req PROVE Read(req'[r])
    BY <1>0, <2>1, StartMoves DEF AuthorTypeOK
  <2> HIDE DEF Holds, OfOne, Read
  <2> QED BY <1>0, <1>s, <2>1, <2>2, <2>3
<1>2. CASE ~(StudentStep \/ ServerCrash)
  <2>1. req' = req
    BY <1>2, AuthorEffect DEF attemptVars
  <2>2. ASSUME UNCHANGED <<ujian, ujianSoal, guru>> PROVE SourceInv'
    BY <1>0, <1>s, <2>1, <2>2
  <2>3. ASSUME NEW g \in Guru, Edited(g) PROVE SourceInv'
    <3>0. \A k \in Guru \ {g} : guru'[k] = guru[k]
      BY <2>3 DEF Edited
    <3>1. Saved(ujian')
      <4>1. ASSUME UpdateCas(g), ujian' # ujian PROVE Saved(ujian')
        <5>1. /\ guru[g].op = "updateCas"
              /\ \A c \in SourceColumns :
                    ujian'[c] = IF ChangesSource(guru[g].edit)
                                  THEN guru[g].edit[c] ELSE ujian[c]
          BY <4>1, CasEffect
        <5>2. CASE ChangesSource(guru[g].edit)
          BY <1>0, <5>1, <5>2, SavedByColumns
        <5>3. CASE ~ChangesSource(guru[g].edit)
          BY <1>0, <5>1, <5>3, SavedByColumns
        <5> QED BY <5>2, <5>3
      <4>2. ASSUME ujian' = [ujian EXCEPT !.status = "none"] PROVE Saved(ujian')
        <5>1. ujian \in UjianRow
          BY DEF AuthorTypeOK, TypeOK
        <5>2. \A c \in SourceColumns : ujian'[c] = ujian[c]
          BY <4>2, <5>1 DEF UjianRow, SourceColumns
        <5> QED BY <1>0, <5>2, SavedByColumns
      <4> QED BY <1>0, <2>3, <4>1, <4>2 DEF Edited
    <3>2. OfOne(ujianSoal')
      <4>1. ASSUME UpdateJunction(g), ujianSoal' # {}
            PROVE  \E c \in Sources : c.mode = "manual" /\ ujianSoal' = c.sumber
        <5>1. /\ guru[g].edit \in Edits /\ ChangesSource(guru[g].edit)
              /\ guru[g].edit.mode = "manual" /\ ujianSoal' = guru[g].edit.sumber
          BY <4>1, GuruFields DEF UpdateJunction
        <5>2. SourceOf(guru[g].edit) \in Sources
          BY <5>1 DEF Sources
        <5> QED BY <5>1, <5>2, SourceFields
      <4> QED BY <1>0, <2>3, <4>1 DEF Edited
    <3>3. Holds(guru'[g])
      <4>1. ASSUME UpdateCas(g) PROVE Holds(guru'[g])
        BY <1>0, <4>1, CasEffect
      <4>2. ASSUME guru'[g].edit \in Edits, ChangesSource(guru'[g].edit),
                   SourceValid(guru'[g].edit)
            PROVE  Saved(guru'[g].edit)
        BY <4>2, ValidIsSaved
      <4>3. CASE guru[g].op = "updateProbe" /\ guru'[g].edit = guru[g].edit
        BY <1>0, <4>3
      <4>4. CASE guru'[g] = Idle \/ guru'[g].op = "delete"
        BY <4>4 DEF Idle
      <4>5. CASE /\ guru'[g].edit \in Edits
                 /\ ChangesSource(guru'[g].edit) => SourceValid(guru'[g].edit)
        BY <4>2, <4>5
      <4> HIDE DEF Holds
      <4> QED BY <2>3, <4>1, <4>3, <4>4, <4>5 DEF Edited
    <3> HIDE DEF Holds, OfOne, Read
    <3>4. \A k \in Guru : Holds(guru'[k])
      BY <1>0, <3>0, <3>3
    <3>5. \A r \in Req : Read(req'[r])
      BY <1>0, <2>1
    <3> QED BY <1>s, <3>1, <3>2, <3>4, <3>5
  <2> QED BY <1>2, <2>2, <2>3, ExamEffect
<1> QED BY <1>1, <1>2

\* What is drawn and what was given comes from one source.
LEMMA DrawNext ==
    ASSUME IndInv, AuthorTypeOK, SourceInv, DrawInv, [AuthorNext]_authorVars
    PROVE  DrawInv'
<1> DEFINE OfOne(d) == \E c \in Sources : DrawnFrom(d, c)
<1>0. /\ \A h \in HasilId : hasil[h].status # "none" => OfOne(hasil[h].pool)
      /\ \A r \in Req : req[r].op = "startInsert" => OfOne(req[r].pool)
  BY DEF DrawInv, PoolIsOneSource
<1>s. ASSUME \A h \in HasilId : hasil'[h].status # "none" => OfOne(hasil'[h].pool),
             \A r \in Req : req'[r].op = "startInsert" => OfOne(req'[r].pool)
      PROVE  DrawInv'
  BY <1>s DEF DrawInv, PoolIsOneSource, Sources, SourceOf, DrawnFrom
<1>1. CASE StudentStep \/ ServerCrash
  <2>1. [Next]_vars
    BY <1>1, StudentEffect
  <2>2. ASSUME NEW h \in HasilId, hasil'[h].status # "none" PROVE OfOne(hasil'[h].pool)
    <3> HIDE DEF OfOne
    <3> QED BY <1>0, <2>1, <2>2, PoolEffect
  <2>3. ASSUME NEW r \in Req, req'[r].op = "startInsert" PROVE OfOne(req'[r].pool)
    <3>1. CASE req'[r] = req[r]
      BY <1>0, <2>3, <3>1
    <3>2. CASE req'[r] # req[r]
      <4>1. /\ req[r].op = "startWait" /\ Pool(req[r].u) # {}
            /\ req'[r].pool \in Draws(req[r].u)
        BY <2>1, <2>3, <3>2, StartMoves DEF AuthorTypeOK
      <4>2. req[r].u \in UjianRow /\ Saved(req[r].u)
        BY <4>1, ReqFields DEF AuthorTypeOK, SourceInv
      <4> QED BY <4>1, <4>2, DrawnFromOne
    <3> QED BY <3>1, <3>2
  <2> HIDE DEF OfOne
  <2> QED BY <1>s, <2>2, <2>3
<1>2. CASE ~(StudentStep \/ ServerCrash)
  <2>1. hasil' = hasil /\ req' = req
    BY <1>2, AuthorEffect DEF attemptVars
  <2> HIDE DEF OfOne
  <2> QED BY <1>0, <1>s, <2>1
<1> QED BY <1>1, <1>2

-----------------------------------------------------------------------------
(* The theorems                                                            *)

LEMMA AuthorInvInit == AuthorInit => AuthorInv
<1> SUFFICES ASSUME AuthorInit PROVE AuthorInv
  OBVIOUS
<1>1. Init /\ IndInv /\ TypeOK
  BY IndInit DEF AuthorInit, IndInv
<1>2. AuthorTypeOK
  BY <1>1, GuruStates DEF AuthorTypeOK, AuthorInit
<1>3. /\ \A g \in Guru : guru[g].op = "idle"
      /\ \A r \in Req : req[r].op = "idle"
  BY <1>1 DEF AuthorInit, Init, Idle
<1>4. \A h \in HasilId : hasil[h].status = "none"
  BY <1>1 DEF Init, NoHasil
<1>5. UpdateInv /\ NoOrphanAttempt /\ DrawInv
  BY <1>3, <1>4 DEF UpdateInv, NoOrphanAttempt, Attempted, DrawInv, PoolIsOneSource
<1>6. SourceOf(ujian) \in Sources /\ Saved(ujian)
  BY <1>1, AwalAsksSome DEF Init, Sources, Saved
<1>7. ujianSoal # {} => SourceOf(ujian).mode = "manual" /\ ujianSoal = SourceOf(ujian).sumber
  BY <1>1, SourceFields DEF Init
<1>8. SourceInv
  BY <1>3, <1>6, <1>7 DEF SourceInv
<1> QED BY <1>1, <1>2, <1>5, <1>8 DEF AuthorInv

LEMMA AuthorInvNext == AuthorInv /\ [AuthorNext]_authorVars => AuthorInv'
<1> SUFFICES ASSUME AuthorInv, [AuthorNext]_authorVars PROVE AuthorInv'
  OBVIOUS
<1> QED
  BY AuthorTypeNext, AttemptsNext, UpdateNext, OrphanNext, SourceNext, DrawNext
     DEF AuthorInv

\* While an exam is edited, deleted and given susulans, in every reachable state
\* the attempts keep their invariant (IndInv of UjianAttempt: who grades and who
\* starts is alone, grades cover answers, times are in order) and the four
\* parts about the exam hold.
THEOREM AuthorInvariant == AuthorSpec => []AuthorInv
BY AuthorInvInit, AuthorInvNext, PTL DEF AuthorSpec

\* An attempt always has its exam (Service.Delete and hasil_ujian's foreign key
\* against FlowService.Start), whatever the number of teachers and students.
THEOREM NoOrphan == AuthorSpec => []NoOrphanAttempt
<1>1. AuthorInv => NoOrphanAttempt
  BY DEF AuthorInv
<1> QED BY <1>1, AuthorInvariant, PTL

\* The questions of an attempt come from one source the teacher saved
\* (Service.Update's two transactions against FlowService.Start's reads).
THEOREM PoolOfOneSource == AuthorSpec => []PoolIsOneSource
<1>1. AuthorInv => PoolIsOneSource
  BY DEF AuthorInv, DrawInv
<1> QED BY <1>1, AuthorInvariant, PTL

\* A successful UPDATE of Service.Update replaces the very row its checks were
\* made on: the version of the WHERE clause is the browser's, and no row of that
\* version but the exam's own can be what the handler has read.
THEOREM UpdatesKept == AuthorSpec => NoLostUpdate
<1> DEFINE Kept == ujian'.version > ujian.version =>
                     \E g \in Guru : guru[g].op = "updateCas" /\ guru[g].row = ujian
<1>1. ASSUME AuthorInv, [AuthorNext]_authorVars PROVE Kept
  <2> USE <1>1 DEF AuthorInv
  <2>0. ujian.version \in Nat /\ ujian \in UjianRow
    BY RowColumns DEF AuthorTypeOK, TypeOK
  <2> SUFFICES ASSUME ujian'.version > ujian.version
               PROVE  \E g \in Guru : guru[g].op = "updateCas" /\ guru[g].row = ujian
    OBVIOUS
  <2>1. ujian' # ujian
    BY <2>0
  <2>2. ~(StudentStep \/ ServerCrash)
    BY <2>1, StudentEffect DEF examVars
  <2>3. PICK g \in Guru : Edited(g)
    BY <2>1, <2>2, ExamEffect
  <2>4. ujian' # [ujian EXCEPT !.status = "none"]
    BY <2>0 DEF UjianRow
  <2>5. UpdateCas(g)
    BY <2>1, <2>3, <2>4 DEF Edited
  <2>6. guru[g].op = "updateCas" /\ CasMatches(g)
    BY <2>1, <2>5, CasEffect
  <2>7. /\ guru[g].version = ujian.version /\ ujian.status # "none"
        /\ guru[g].version <= guru[g].row.version
        /\ guru[g].row.version <= ujian.version
        /\ guru[g].row.version = ujian.version => guru[g].row = ujian
    BY <2>6 DEF CasMatches, UpdateInv
  <2>8. guru[g].row.version \in Nat
    BY <2>6, GuruFields, RowColumns
  <2>9. guru[g].row.version = ujian.version
    BY <2>0, <2>7, <2>8
  <2> QED BY <2>6, <2>7, <2>9
<1> QED BY <1>1, AuthorInvariant, PTL DEF AuthorSpec, NoLostUpdate

\* The attempts implement AttemptLife also while the exam they belong to is
\* edited, archived or given susulans: no step of an author is a step of an
\* attempt's life.
THEOREM AuthoredRefinesLife == AuthorSpec => ImplementsLife
<1>1. AuthorInit => Life!Init
  BY LifeInit DEF AuthorInit
<1>2. AuthorInv /\ [AuthorNext]_authorVars => [Life!Next]_(Life!lifeVars)
  <2> SUFFICES ASSUME AuthorInv, [AuthorNext]_authorVars
               PROVE  [Life!Next]_(Life!lifeVars)
    OBVIOUS
  <2>1. CASE StudentStep \/ ServerCrash
    BY <2>1, StudentEffect, LifeStep DEF AuthorInv
  <2>2. CASE ~(StudentStep \/ ServerCrash)
    <3>1. hasil' = hasil
      BY <2>2, AuthorEffect DEF attemptVars
    <3> QED BY <3>1 DEF Life!lifeVars, LifeOwner, LifePhase, LifeGrade, PhaseOf
  <2> QED BY <2>1, <2>2
<1> QED
  BY <1>1, <1>2, AuthorInvariant, PTL DEF AuthorSpec, ImplementsLife, Life!Spec

=============================================================================
