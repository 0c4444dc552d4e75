----------------------------- MODULE UjianAuthor -----------------------------
(* What a teacher does to an exam (Service.Update, Delete and the susulan   *)
(* handlers of internal/ujian/service.go) while its students                *)
(* take it: UjianAttempt composed with author goroutines.                   *)
(*                                                                          *)
(* None of these handlers opens a transaction around its steps: the row is  *)
(* read, the attempts are probed, the row is updated if its version is the  *)
(* one the browser saw, and the ujian_soal junction is rewritten in a       *)
(* transaction of its own.                                                  *)
EXTENDS UjianAttempt

CONSTANTS
    Guru,        \* goroutines that serve the teacher's requests
    Edits,       \* partial updates: functions from columns to values
    Susulans,    \* override rows a teacher may create
    MaxVersion   \* bound on the number of updates

Columns == {"status", "waktuMulai", "waktuSelesai", "durasi", "batas",
            "unlimited", "mode", "sumber", "jumlah"}
SourceColumns == {"mode", "sumber", "jumlah"}
\* UpdateInput has one field for the whole source, and a status is one of three.
ASSUME EditsAreColumns ==
    \A e \in Edits :
        /\ DOMAIN e \subseteq Columns
        /\ SourceColumns \cap DOMAIN e \in {{}, SourceColumns}
        /\ "status" \in DOMAIN e => e.status \in {"draft", "published", "archived"}
        /\ "waktuMulai" \in DOMAIN e => e.waktuMulai \in Waktu
        /\ "waktuSelesai" \in DOMAIN e => e.waktuSelesai \in Waktu
        /\ "durasi" \in DOMAIN e => e.durasi \in Nat
        /\ "batas" \in DOMAIN e => e.batas \in Nat
        /\ "unlimited" \in DOMAIN e => e.unlimited \in BOOLEAN
        /\ "mode" \in DOMAIN e => /\ e.mode \in Mode
                                 /\ e.sumber \subseteq Soal /\ e.jumlah \in Nat
\* Create refuses a random source that asks for no question.
ASSUME AwalAsksSome == \A u \in UjianAwal : u.mode = "random" => u.jumlah > 0
ASSUME SusulansAreRows == \A o \in Susulans : o \in OverrideRow /\ o.ada
ASSUME MaxVersionIsNat == MaxVersion \in Nat

VARIABLES
    guru  \* what each author goroutine is doing

authorVars == <<vars, guru>>
attemptVars == <<now, bank, hasil, jawaban, gradeEvent, req, cron>>

AuthorInit ==
    /\ Init
    /\ guru = [g \in Guru |-> Idle]

-----------------------------------------------------------------------------
(* Service.Update                                                          *)

Merge(row, e) == [c \in DOMAIN row |-> IF c \in DOMAIN e THEN e[c] ELSE row[c]]
ChangesSource(e) == "mode" \in DOMAIN e

\* The columns an edit writes: the window is written whenever it is sent, any
\* other column when it differs from the row that was read.
Fields(row, e) ==
    {c \in DOMAIN e : \/ c \in {"waktuMulai", "waktuSelesai"}
                      \/ ChangesSource(e) /\ c \in SourceColumns
                      \/ e[c] # row[c]}
ChangesTiming(row, e) ==
    Fields(row, e) \cap {"durasi", "waktuMulai", "waktuSelesai"} # {}

WindowOrdered(u) ==
    u.waktuMulai # NULL /\ u.waktuSelesai # NULL => u.waktuMulai <= u.waktuSelesai

\* Questions of a new source must be in the bank, and enough of them.
SourceValid(e) ==
    LET there == {q \in e.sumber : ~bank[q].deleted}
    IN  CASE e.mode = "manual" -> e.sumber # {} /\ there = e.sumber
          [] e.mode = "random" -> 0 < e.jumlah /\ e.jumlah <= Cardinality(there)
          [] OTHER -> FALSE

\* Mutant: the update is not conditional on the version.
CasMatchesAny(g) == ujian.status # "none"
\* The UPDATE .. WHERE id = ? AND version = ? finds its row.
CasMatches(g) == ujian.status # "none" /\ ujian.version = guru[g].version

\* The browser sends a version it has seen.
UpdateFind(g, e, v) ==
    /\ guru[g] = Idle
    /\ ujian.status # "none"
    /\ v \in 1..ujian.version
    /\ WindowOrdered(Merge(ujian, e))
    /\ ChangesSource(e) => SourceValid(e)
    /\ Fields(ujian, e) # {}
    /\ guru' = [guru EXCEPT ![g] =
          [op |-> IF ChangesSource(e) \/ ChangesTiming(ujian, e)
                    THEN "updateProbe" ELSE "updateCas",
           row |-> ujian, edit |-> e, version |-> v]]
    /\ UNCHANGED vars

\* HasActiveAttempts.
UpdateProbe(g) ==
    /\ guru[g].op = "updateProbe"
    /\ guru' = [guru EXCEPT ![g] =
          IF \E s \in Siswa : Running(s) # {} THEN Idle
          ELSE [@ EXCEPT !.op = "updateCas"]]
    /\ UNCHANGED vars

UpdateCas(g) ==
    /\ guru[g].op = "updateCas"
    /\ ujian.version < MaxVersion
    /\ LET e == guru[g].edit
           written == [c \in Fields(guru[g].row, e) |-> e[c]]
       IN  IF CasMatches(g)
             THEN /\ ujian' = [Merge(ujian, written) EXCEPT !.version = @ + 1]
                  /\ guru' = [guru EXCEPT ![g] =
                       IF ChangesSource(e) THEN [@ EXCEPT !.op = "junction"] ELSE Idle]
             ELSE /\ guru' = [guru EXCEPT ![g] = Idle]
                  /\ UNCHANGED ujian
    /\ UNCHANGED <<attemptVars, fault, ujianSoal, override>>

\* Mutant: the new questions are inserted, the old ones not deleted.
UpdateJunctionAdds(g) ==
    /\ guru[g].op = "junction"
    /\ LET e == guru[g].edit
       IN  ujianSoal' = IF ujian.status # "none" /\ e.mode = "manual"
                          THEN ujianSoal \cup e.sumber ELSE {}
    /\ guru' = [guru EXCEPT ![g] = Idle]
    /\ UNCHANGED <<attemptVars, fault, ujian, override>>
\* SetUjianSoalIDs: nothing to write to when the exam is gone.
UpdateJunction(g) ==
    /\ guru[g].op = "junction"
    /\ LET e == guru[g].edit
       IN  ujianSoal' = IF ujian.status # "none" /\ e.mode = "manual"
                          THEN e.sumber ELSE {}
    /\ guru' = [guru EXCEPT ![g] = Idle]
    /\ UNCHANGED <<attemptVars, fault, ujian, override>>

-----------------------------------------------------------------------------
(* Service.Delete: refused while attempts exist, cascades to the junction   *)
(* and the overrides; the foreign key of hasil_ujian restricts it.          *)

Attempted == \E h \in HasilId : hasil[h].status # "none"

DeleteFind(g, v) ==
    /\ guru[g] = Idle
    /\ ujian.status # "none"
    /\ v \in 1..ujian.version
    /\ ~Attempted
    /\ guru' = [guru EXCEPT ![g] = [op |-> "delete", version |-> v]]
    /\ UNCHANGED vars

\* Mutant: hasil_ujian.ujian_id restricts nothing.
DeleteCommitNoKey(g) ==
    /\ guru[g].op = "delete"
    /\ IF CasMatches(g)
         THEN /\ ujian' = [ujian EXCEPT !.status = "none"]
              /\ ujianSoal' = {}
              /\ override' = [s \in Siswa |-> NoOverride]
         ELSE UNCHANGED examVars
    /\ guru' = [guru EXCEPT ![g] = Idle]
    /\ UNCHANGED <<attemptVars, fault>>
DeleteCommit(g) ==
    /\ guru[g].op = "delete"
    /\ IF CasMatches(g) /\ ~Attempted
         THEN /\ ujian' = [ujian EXCEPT !.status = "none"]
              /\ ujianSoal' = {}
              /\ override' = [s \in Siswa |-> NoOverride]
         ELSE UNCHANGED examVars
    /\ guru' = [guru EXCEPT ![g] = Idle]
    /\ UNCHANGED <<attemptVars, fault>>

-----------------------------------------------------------------------------
(* CreateSusulan saves a row without a key, so it inserts: the unique key   *)
(* (ujian_id, siswa_id) refuses a second one.  DeleteSusulan.               *)

SusulanCreate(s, o) ==
    /\ ujian.status # "none"
    /\ ~override[s].ada
    /\ override' = [override EXCEPT ![s] = o]
    /\ UNCHANGED <<attemptVars, fault, ujian, ujianSoal, guru>>

SusulanDelete(s) ==
    /\ ujian.status # "none"
    /\ override[s].ada
    /\ override' = [override EXCEPT ![s] = NoOverride]
    /\ UNCHANGED <<attemptVars, fault, ujian, ujianSoal, guru>>

-----------------------------------------------------------------------------

\* A statement of an author's handler fails: what it wrote stays.
AuthorFail(g) ==
    /\ fault > 0
    /\ guru[g] # Idle
    /\ fault' = fault - 1
    /\ guru' = [guru EXCEPT ![g] = Idle]
    /\ UNCHANGED <<attemptVars, examVars>>

AuthorAction(g) ==
    \/ \E e \in Edits, v \in 1..MaxVersion : UpdateFind(g, e, v)
    \/ UpdateProbe(g)
    \/ UpdateCas(g)
    \/ UpdateJunction(g)
    \/ \E v \in 1..MaxVersion : DeleteFind(g, v)
    \/ DeleteCommit(g)
    \/ AuthorFail(g)

StudentStep == Step /\ UNCHANGED guru
ServerCrash == Crash /\ guru' = [g \in Guru |-> Idle]

AuthorNext ==
    \/ StudentStep
    \/ ServerCrash
    \/ \E g \in Guru : AuthorAction(g)
    \/ \E s \in Siswa, o \in Susulans : SusulanCreate(s, o)
    \/ \E s \in Siswa : SusulanDelete(s)

AuthorSpec == AuthorInit /\ [][AuthorNext]_authorVars

-----------------------------------------------------------------------------
(* Properties                                                              *)

GuruState ==
    {Idle}
    \cup [op : {"updateProbe", "updateCas"}, row : UjianRow, edit : Edits, version : Nat]
    \cup [op : {"junction"}, row : UjianRow, edit : {e \in Edits : ChangesSource(e)},
          version : Nat]
    \cup [op : {"delete"}, version : Nat]

\* The rows and the author goroutines hold what the code's types allow.
AuthorTypeOK ==
    /\ TypeOK
    /\ guru \in [Guru -> GuruState]

\* No lost update: the row an update replaces is the row it was validated
\* against, whatever other tabs of the teacher wrote in between.
NoLostUpdate ==
    [][ujian'.version > ujian.version =>
          \E g \in Guru : guru[g].op = "updateCas" /\ guru[g].row = ujian]_authorVars

\* No attempt without its exam: the count that Delete makes is stale when a
\* Start inserts after it, and the other way round.
NoOrphanAttempt == Attempted => ujian.status # "none"

\* The questions of an attempt come from one source the teacher once saved:
\* all of a manual one or as many as asked of a random one, never a mixture of
\* the sources before and after an edit and never nothing.
SourceOf(row) == [c \in SourceColumns |-> row[c]]
Sources == {SourceOf(u) : u \in UjianAwal}
           \cup {SourceOf(e) : e \in {d \in Edits : ChangesSource(d)}}
DrawnFrom(pool, c) ==
    IF c.mode = "manual" THEN pool = c.sumber
    ELSE pool \subseteq c.sumber /\ Cardinality(pool) \in 1..c.jumlah
PoolIsOneSource ==
    \A h \in HasilId : hasil[h].status # "none" =>
        \E c \in Sources : DrawnFrom(hasil[h].pool, c)

\* The inductive invariant behind the properties, in four parts beside that of
\* the attempts.

\* What an update holds when it comes to its UPDATE: no version is ahead of the
\* exam's, and a row that is not behind it is the exam's own.
UpdateInv ==
    \A g \in Guru : guru[g].op \in {"updateProbe", "updateCas"} =>
        /\ guru[g].version <= guru[g].row.version
        /\ guru[g].row.version <= ujian.version
        /\ ujian.status # "none" /\ guru[g].row.version = ujian.version =>
              guru[g].row = ujian

\* A source an exam may have: one the teacher saved, a random one asking for
\* at least one question.
Saved(row) == SourceOf(row) \in Sources /\ (row.mode = "random" => row.jumlah > 0)

\* The exam, every Start that has read it, every update about to write it and
\* the junction hold a saved source each, not always the same one.
SourceInv ==
    /\ Saved(ujian)
    /\ \A r \in Req : req[r].op \in {"startFound", "startWait"} => Saved(req[r].u)
    /\ \A g \in Guru : /\ guru[g].op \in {"updateProbe", "updateCas", "junction"}
                       /\ ChangesSource(guru[g].edit)
                       => Saved(guru[g].edit)
    /\ ujianSoal # {} => \E c \in Sources : c.mode = "manual" /\ ujianSoal = c.sumber

\* What was drawn and not yet inserted comes from one source too.
DrawInv ==
    /\ PoolIsOneSource
    /\ \A r \in Req : req[r].op = "startInsert" =>
          \E c \in Sources : DrawnFrom(req[r].pool, c)

AuthorInv ==
    IndInv /\ AuthorTypeOK /\ UpdateInv /\ NoOrphanAttempt /\ SourceInv /\ DrawInv

\* What the comments say and the code does not keep.

\* model.go: an edit of an exam with running attempts is refused.
EditBlockedWhileRunning ==
    [][(\E s \in Siswa : Running(s) # {}) =>
          /\ ujian'.durasi = ujian.durasi
          /\ ujian'.mode = ujian.mode /\ ujian'.sumber = ujian.sumber]_authorVars
=============================================================================
