----------------------------- MODULE ExamPlayer -----------------------------
(***************************************************************************)
(* The exam player of a student: UjianPlayer for an exam of the class and  *)
(* UlanganPlayer for the test of a chapter.  A choice shows at once in the *)
(* query cache, waits out a debounce of its own per question, and is then  *)
(* saved by a request that is retried twice on a network error; the items  *)
(* are refetched meanwhile to renew the image links; the countdown submits *)
(* by itself, and the service grades what it holds.                        *)
(***************************************************************************)
EXTENDS Browser

CONSTANTS
  Soal,      \* the questions of the attempt
  Jawab,     \* the letters
  MaxPick    \* bound: choices the student makes

ASSUME PlayerAssumption ==
  /\ IsFiniteSet(Soal) /\ Soal # {} /\ IsFiniteSet(Jawab)
  /\ Jawab \intersect {"none", "gone"} = {} /\ "none" \notin Soal /\ MaxPick \in Nat

Picks == 1..MaxPick
\* jawaban_siswa of an item; "gone" is the placeholder of a deleted question,
\* which has no options and no answer.
Item == Jawab \union {"none", "gone"}
Kinds == {"ujian", "ulangan"}
\* How often the mutation function repeats a save that met a network error.
SaveRetries == 2
\* Deadline and end of the grace period on the service's clock.
Deadline == 1
Late == 2

Unpicked == [soal |-> "none", jawaban |-> "none", at |-> "none", tries |-> 0]
Underway == {"sent", "lost", "saved", "refused"}
NoRead == [at |-> "idle", data |-> [q \in Soal |-> "none"]]

InitPlayer ==
  \E kind \in Kinds, lag \in {0, 1} :
    /\ ui = [screen |-> "player", kind |-> kind, mode |-> "playing", view |-> "pending",
             items |-> [q \in Soal |-> "none"], err |-> {}, confirm |-> FALSE,
             auto |-> FALSE, disabled |-> FALSE]
    /\ net = [read |-> NoRead, pick |-> [n \in Picks |-> Unpicked], submit |-> "idle"]
    /\ srv = [status |-> "berlangsung", saved |-> [q \in Soal |-> "none"],
              graded |-> [q \in Soal |-> "none"], gone |-> {}, now |-> 0, lag |-> lag]
    /\ past = [events |-> 0, picks |-> 0, mixed |-> {}]

InPlayer == ui.screen = "player"
Shows(kind) == InPlayer /\ ui.kind = kind
Playing == InPlayer /\ ui.mode = "playing"
Ready == Playing /\ ui.view = "items"
\* The student's clock may run behind the service's.
ClientNow == IF srv.now >= srv.lag THEN srv.now - srv.lag ELSE 0
PlayerLate == srv.now >= Deadline /\ ClientNow >= Deadline

Of(q) == {n \in Picks : net.pick[n].soal = q}
Newest(q) == CHOOSE n \in Of(q) : \A m \in Of(q) : m <= n
SaveUnderway(q) == \E n \in Of(q) : net.pick[n].at \in Underway
Unsettled(q) == \E n \in Of(q) : net.pick[n].at \in Underway \union {"timer"}
AllAnswered == \A q \in Soal : ui.items[q] \in Jawab

-----------------------------------------------------------------------------
(* The items query. *)

\* The first fetch, the refetch behind the images of a running attempt, and
\* the retry of the error screen.
ReadItems(kind) ==
  /\ Shows(kind) /\ Playing /\ net.read.at = "idle"
  /\ IF ui.view = "pending" THEN UNCHANGED past ELSE Spend
  /\ net' = [net EXCEPT !.read.at = "sent"]
  /\ UNCHANGED <<ui, srv>>

\* The items of a running attempt: the stored answers, and a placeholder
\* without its answer for a question that was deleted.
ServeItems ==
  /\ InPlayer /\ net.read.at = "sent"
  /\ net' = [net EXCEPT !.read =
       IF srv.status = "berlangsung"
       THEN [at |-> "ok", data |-> [q \in Soal |-> IF q \in srv.gone THEN "gone"
                                                   ELSE srv.saved[q]]]
       ELSE [@ EXCEPT !.at = "no"]]
  /\ past' = [past EXCEPT !.mixed = @ \union {q \in Soal : Unsettled(q)}]
  /\ UNCHANGED <<ui, srv>>

\* The data replace what the screen shows, the unsaved choices too.
ItemsArrive(kind) ==
  /\ Shows(kind) /\ net.read.at = "ok"
  /\ ui' = [ui EXCEPT !.items = net.read.data,
                      !.view = IF Playing THEN "items" ELSE @]
  /\ net' = [net EXCEPT !.read = NoRead]
  /\ UNCHANGED <<srv, past>>

\* hasil_not_active is not retried; a network error is, and ends in the error
\* screen all the same, whether or not there are items to show.
ItemsFail(kind) ==
  /\ Shows(kind)
  /\ \/ net.read.at = "no" /\ UNCHANGED past
     \/ net.read.at \in {"sent", "ok"} /\ Spend
  /\ ui' = [ui EXCEPT !.view = IF Playing THEN "error" ELSE @]
  /\ net' = [net EXCEPT !.read = NoRead]
  /\ UNCHANGED srv

-----------------------------------------------------------------------------
(* Choosing an answer. *)

\* Mutant: the debounce of the choice before is not cleared.
DebouncedTwice(q, v, p) ==
  [net.pick EXCEPT ![p] = [soal |-> q, jawaban |-> v, at |-> "timer", tries |-> 0]]

Debounced(q, v, p) ==
  [n \in Picks |->
     IF n = p THEN [soal |-> q, jawaban |-> v, at |-> "timer", tries |-> 0]
     ELSE IF net.pick[n].soal = q /\ net.pick[n].at = "timer"
     THEN [net.pick[n] EXCEPT !.at = "cleared"] ELSE net.pick[n]]

\* handleAnswer: the optimistic item, and a debounce that replaces the one the
\* question had.
HandleAnswer(q, v) ==
  /\ Ready /\ past.picks < MaxPick
  /\ ~ui.disabled /\ net.submit = "idle" /\ ~PlayerLate
  /\ LET p == past.picks + 1 IN
     /\ net' = [net EXCEPT !.pick = Debounced(q, v, p)]
     /\ past' = [past EXCEPT !.picks = p,
                             !.mixed = IF net.read.at = "ok" THEN @ \union {q} ELSE @]
  /\ ui' = [ui EXCEPT !.items[q] = v]
  /\ UNCHANGED srv

\* The card of a question offers the options that have a text or an image:
\* none for a deleted question.
UjianSoalCard(q, v) == Shows("ujian") /\ ui.items[q] # "gone" /\ HandleAnswer(q, v)
UlanganSoalCard(q, v) == Shows("ulangan") /\ ui.items[q] # "gone" /\ HandleAnswer(q, v)

\* 600 ms later the save is sent.
DebounceFires(kind, n) ==
  /\ Shows(kind) /\ net.pick[n].at = "timer"
  /\ net' = [net EXCEPT !.pick[n].at = "sent"]
  /\ past' = [past EXCEPT !.mixed =
                IF SaveUnderway(net.pick[n].soal) THEN @ \union {net.pick[n].soal} ELSE @]
  /\ UNCHANGED <<ui, srv>>

\* SaveAnswer: only into a running attempt, strictly before its deadline.
Answerable == srv.status = "berlangsung" /\ srv.now < Deadline
ServeAnswer(n) ==
  /\ InPlayer /\ net.pick[n].at = "sent"
  /\ IF Answerable
     THEN /\ srv' = [srv EXCEPT !.saved[net.pick[n].soal] = net.pick[n].jawaban]
          /\ net' = [net EXCEPT !.pick[n].at = "saved"]
     ELSE /\ net' = [net EXCEPT !.pick[n].at = "refused"]
          /\ UNCHANGED srv
  /\ UNCHANGED <<ui, past>>

\* The network may stay away for the retries of a save.
LoseAnswer(n) ==
  /\ InPlayer /\ net.pick[n].at \in {"sent", "saved", "refused"}
  /\ IF net.pick[n].tries > 0 THEN UNCHANGED past ELSE Spend
  /\ net' = [net EXCEPT !.pick[n].at = "lost"]
  /\ UNCHANGED <<ui, srv>>

\* The retry of the mutation, half a second or a second later.
RetryAnswer(kind, n) ==
  /\ Shows(kind) /\ net.pick[n].at = "lost" /\ net.pick[n].tries < SaveRetries
  /\ net' = [net EXCEPT !.pick[n].at = "sent", !.pick[n].tries = @ + 1]
  /\ UNCHANGED <<ui, srv, past>>

\* onSuccess and onError of the save: the question's error is cleared or set.
AnswerSettles(kind, n) ==
  LET q == net.pick[n].soal IN
  /\ Shows(kind)
  /\ \/ /\ net.pick[n].at = "saved"
        /\ net' = [net EXCEPT !.pick[n].at = "done"]
        /\ ui' = [ui EXCEPT !.err = @ \ {q}]
     \/ /\ \/ net.pick[n].at = "refused"
           \/ net.pick[n].at = "lost" /\ net.pick[n].tries = SaveRetries
        /\ net' = [net EXCEPT !.pick[n].at = "failed"]
        /\ ui' = [ui EXCEPT !.err = IF Playing THEN @ \union {q} ELSE @]
  /\ UNCHANGED <<srv, past>>

-----------------------------------------------------------------------------
(* Submitting and leaving. *)

\* The effect of an unmount clears the debounces; the saves under way go on.
Unmounted == [n \in Picks |-> IF net.pick[n].at = "timer"
                              THEN [net.pick[n] EXCEPT !.at = "cleared"] ELSE net.pick[n]]

\* The primary button of UjianPlayer and the button of UlanganPlayer: the one
\* leads to the confirmation once every question is answered, the other always.
UjianConfirm ==
  /\ Shows("ujian") /\ Ready /\ ~ui.disabled /\ net.submit = "idle"
  /\ AllAnswered /\ ~ui.confirm
  /\ ui' = [ui EXCEPT !.confirm = TRUE]
  /\ UNCHANGED <<net, srv, past>>

UlanganConfirm ==
  /\ Shows("ulangan") /\ Ready /\ ~ui.disabled /\ net.submit = "idle" /\ ~ui.confirm
  /\ ui' = [ui EXCEPT !.confirm = TRUE]
  /\ UNCHANGED <<net, srv, past>>

SubmitClick(kind) ==
  /\ Shows(kind) /\ Ready /\ ui.confirm /\ net.submit = "idle"
  /\ kind = "ujian" => AllAnswered
  /\ net' = [net EXCEPT !.submit = "sent"]
  /\ UNCHANGED <<ui, srv, past>>

\* The effect of the countdown, once until the submit fails.
AutoSubmit(kind) ==
  /\ Shows(kind) /\ Ready /\ PlayerLate
  /\ ~ui.auto /\ net.submit = "idle"
  /\ ui' = [ui EXCEPT !.auto = TRUE, !.confirm = FALSE]
  /\ net' = [net EXCEPT !.submit = "sent"]
  /\ UNCHANGED <<srv, past>>

Grade == [srv EXCEPT !.status = "selesai", !.graded = srv.saved]

\* Submit: graded until the grace period ends, the stored grade of an attempt
\* that is graded, refused for a cancelled one and after the grace period.
ServeSubmit ==
  /\ InPlayer /\ net.submit = "sent"
  /\ srv' = IF srv.status = "berlangsung" /\ srv.now < Late THEN Grade ELSE srv
  /\ net' = [net EXCEPT !.submit = IF srv'.status = "selesai" THEN "ok" ELSE "no"]
  /\ UNCHANGED <<ui, past>>

SubmitDone(kind) ==
  /\ Shows(kind) /\ net.submit = "ok"
  /\ ui' = [ui EXCEPT !.confirm = FALSE, !.mode = "result", !.err = {}]
  /\ net' = [net EXCEPT !.submit = "idle", !.pick = Unmounted]
  /\ UNCHANGED <<srv, past>>

\* A refusal and a lost message give the automatic submit back its chance.
SubmitFails(kind) ==
  /\ Shows(kind)
  /\ \/ net.submit = "no" /\ UNCHANGED past
     \/ net.submit \in {"sent", "ok"} /\ Spend
  /\ ui' = [ui EXCEPT !.auto = FALSE]
  /\ net' = [net EXCEPT !.submit = "idle"]
  /\ UNCHANGED srv

\* "Keluar" of UjianPlayer, and "Kembali ke lobi" of both error screens.
Leave(kind) ==
  /\ Shows(kind) /\ Playing /\ net.submit = "idle"
  /\ ui.view = "error" \/ (kind = "ujian" /\ ui.view = "items")
  /\ ui' = [ui EXCEPT !.mode = "lobby", !.err = {}, !.confirm = FALSE, !.auto = FALSE]
  /\ net' = [net EXCEPT !.pick = Unmounted]
  /\ UNCHANGED <<srv, past>>

\* The lobby's button, while the attempt runs: the items are still cached.
Return ==
  /\ InPlayer /\ ui.mode = "lobby" /\ srv.status = "berlangsung"
  /\ ui' = [ui EXCEPT !.mode = "playing",
                      !.view = IF @ = "items" THEN "items" ELSE "pending"]
  /\ UNCHANGED <<net, srv, past>>

-----------------------------------------------------------------------------
(* Time, and the others. *)

PlayerTick ==
  /\ InPlayer /\ srv.now <= Late
  /\ srv' = [srv EXCEPT !.now = @ + 1]
  /\ UNCHANGED <<ui, net, past>>

\* The grader that sweeps expired attempts.
CronGrades ==
  /\ InPlayer /\ srv.status = "berlangsung" /\ srv.now >= Late
  /\ srv' = Grade
  /\ UNCHANGED <<ui, net, past>>

\* A teacher deletes a question, cancels the attempt, or archives the class,
\* which the chapter's page hands to its player.
TeacherDeletes ==
  /\ InPlayer /\ Spend
  /\ \E q \in Soal \ srv.gone : srv' = [srv EXCEPT !.gone = @ \union {q}]
  /\ UNCHANGED <<ui, net>>

TeacherCancels ==
  /\ InPlayer /\ srv.status = "berlangsung" /\ Spend
  /\ srv' = [srv EXCEPT !.status = "dibatalkan"]
  /\ UNCHANGED <<ui, net>>

ChapterArchived ==
  /\ Shows("ulangan") /\ ~ui.disabled /\ Spend
  /\ ui' = [ui EXCEPT !.disabled = TRUE]
  /\ UNCHANGED <<net, srv>>

\* The two players: the same hooks over their own screens.
UjianPlayer ==
  \/ ReadItems("ujian") \/ ItemsArrive("ujian") \/ ItemsFail("ujian")
  \/ \E n \in Picks : \/ DebounceFires("ujian", n) \/ RetryAnswer("ujian", n)
                      \/ AnswerSettles("ujian", n)
  \/ AutoSubmit("ujian") \/ SubmitDone("ujian") \/ SubmitFails("ujian")
UlanganPlayer ==
  \/ ReadItems("ulangan") \/ ItemsArrive("ulangan") \/ ItemsFail("ulangan")
  \/ \E n \in Picks : \/ DebounceFires("ulangan", n) \/ RetryAnswer("ulangan", n)
                      \/ AnswerSettles("ulangan", n)
  \/ AutoSubmit("ulangan") \/ SubmitDone("ulangan") \/ SubmitFails("ulangan")

\* Their controls.
UjianPlayerView ==
  \/ \E q \in Soal, v \in Jawab : UjianSoalCard(q, v)
  \/ UjianConfirm \/ SubmitClick("ujian") \/ Leave("ujian")
UlanganPlayerView ==
  \/ \E q \in Soal, v \in Jawab : UlanganSoalCard(q, v)
  \/ UlanganConfirm \/ SubmitClick("ulangan") \/ Leave("ulangan")

PlayerService ==
  \/ ServeItems \/ ServeSubmit \/ CronGrades
  \/ \E n \in Picks : ServeAnswer(n) \/ LoseAnswer(n)

NextPlayer ==
  \/ UjianPlayer \/ UlanganPlayer \/ UjianPlayerView \/ UlanganPlayerView
  \/ PlayerService \/ Return \/ PlayerTick
  \/ TeacherDeletes \/ TeacherCancels \/ ChapterArchived

-----------------------------------------------------------------------------
(* Properties. *)

Pick == [soal : Soal \union {"none"}, jawaban : Jawab \union {"none"},
         at : Underway \union {"none", "timer", "cleared", "done", "failed"},
         tries : 0..SaveRetries]
PlayerScreen ==
  [screen : {"player"}, kind : Kinds, mode : {"playing", "lobby", "result"},
   view : {"pending", "items", "error"}, items : [Soal -> Item], err : SUBSET Soal,
   confirm : BOOLEAN, auto : BOOLEAN, disabled : BOOLEAN]
PlayerCalls ==
  [read : [at : {"idle", "sent", "ok", "no"}, data : [Soal -> Item]],
   pick : [Picks -> Pick], submit : {"idle", "sent", "ok", "no"}]
PlayerRows ==
  [status : {"berlangsung", "selesai", "dibatalkan"}, saved : [Soal -> Jawab \union {"none"}],
   graded : [Soal -> Jawab \union {"none"}], gone : SUBSET Soal, now : 0..Late + 1,
   lag : {0, 1}]
PlayerPast == [events : 0..MaxEvents, picks : 0..MaxPick, mixed : SUBSET Soal]

\* Items, saves, timers and rows hold what the code's types allow.
PlayerType ==
  ui \in PlayerScreen /\ net \in PlayerCalls /\ srv \in PlayerRows /\ past \in PlayerPast
PlayerTypeOK == InPlayer => PlayerType

\* The last choice of a question was saved by a request that nothing of the same
\* question overlapped: neither an older save or its retry, nor a refetch.
Settled(q) == /\ Of(q) # {} /\ q \notin past.mixed
              /\ net.pick[Newest(q)].at = "done"

\* What the player shows of a settled question is what the service holds, and no
\* error stands beside it, whatever the order of saves, refetches and retries
\* (handleAnswer, answerMu and itemsQuery).
SettledAgrees == InPlayer /\ Playing =>
  \A q \in Soal : Settled(q) /\ ui.items[q] # "gone" =>
    ui.items[q] = srv.saved[q] /\ q \notin ui.err

\* A grade counts the settled answers, whoever graded: the student, the
\* countdown or the sweep, also when a save of a question arrives afterwards.
SettledIsGraded == InPlayer /\ srv.status = "selesai" =>
  \A q \in Soal : Settled(q) => srv.graded[q] = net.pick[Newest(q)].jawaban

\* A choice whose save nothing of its question overlapped stands: on the screen, in
\* the stored answers and in the grade (UjianPlayer.tsx, UlanganPlayer.tsx).
SettledChoiceStands == SettledAgrees /\ SettledIsGraded

\* "Setelah submit, jawaban ini dinilai": the answers a student confirmed are
\* the ones that are graded.
ShownIsGraded == InPlayer /\ ui.mode = "result" =>
  \A q \in Soal : ui.items[q] \in Jawab => srv.graded[q] = ui.items[q]

-----------------------------------------------------------------------------
(* The inductive invariant of the proofs.                                  *)

SpecPlayer == InitPlayer /\ [][NextPlayer]_browser

\* The n-th choice is the last of question q.
Last(q, n) == n \in Of(q) /\ \A m \in Of(q) : m <= n

\* The choices made so far are numbered in order, and a question that was chosen has a
\* last one.
NumbersInv ==
  /\ \A n \in Picks : net.pick[n].soal # "none" <=> n <= past.picks
  /\ \A n \in Picks : n <= past.picks => net.pick[n].jawaban \in Jawab
  /\ \A n \in Picks : net.pick[n].at # "none" => n <= past.picks
  /\ \A q \in Soal : Of(q) # {} => \E n \in Picks : Last(q, n)

\* Only the last choice of a question waits for its debounce.
TimerInv == \A q \in Soal : \A n, m \in Of(q) : net.pick[n].at = "timer" => m <= n

\* Of a question whose saves nothing overlapped: the save of the last choice is alone on
\* its way, no refetch was served while it was, and what it saved is stored, shown and
\* graded.
Alone(q, n) ==
  LET p == net.pick[n] IN
  /\ p.at \in Underway \union {"done"} =>
       \A m \in Of(q) \ {n} : net.pick[m].at \notin Underway
  /\ net.read.at = "ok" => ~Unsettled(q)
  /\ net.read.at = "ok" /\ p.at = "done" => net.read.data[q] \in {p.jawaban, "gone"}
  /\ p.at \in {"saved", "done"} =>
       srv.saved[q] = p.jawaban /\ (srv.status = "selesai" => srv.graded[q] = p.jawaban)
  /\ p.at \in Underway \union {"timer", "done"} => ui.items[q] \in {p.jawaban, "gone"}
  /\ p.at = "done" => q \notin ui.err
AloneInv == \A q \in Soal \ past.mixed, n \in Picks : Last(q, n) => Alone(q, n)

PlayerInv == PlayerType /\ NumbersInv /\ TimerInv /\ AloneInv
=============================================================================
