----------------------------- MODULE ExamLobby -----------------------------
(***************************************************************************)
(* Around the player: the exam list and its cards (siswa/ujian), the       *)
(* section that switches between lobby, player, result and review          *)
(* (UjianSection) and its counterpart in a chapter (UlanganSection with    *)
(* UlanganLobby).  The screens decide from cached rows and the browser's   *)
(* clock what the service decides from its own.                            *)
(***************************************************************************)
EXTENDS Browser

CONSTANTS
  Exams,       \* the rows a teacher may store: [published, opens, closes,
               \* limit, unlimited, review, reviewAt]
  Grants,      \* the susulan rows: [opens, closes, max]
  MaxAttempt,  \* bound: attempts of the student
  EndTime      \* bound: the clock

ASSUME LobbyAssumption ==
  /\ Exams # {} /\ MaxAttempt \in Nat \ {0} /\ EndTime \in Nat
  /\ \A e \in Exams : /\ {e.opens, e.closes, e.reviewAt, e.limit} \subseteq Nat
                      /\ {e.published, e.unlimited, e.review} \subseteq BOOLEAN
  /\ \A g \in Grants : {g.opens, g.closes, g.max} \subseteq Nat

Attempts == 1..MaxAttempt
Statuses == {"none", "berlangsung", "selesai", "dibatalkan"}
NoHistory == [i \in Attempts |-> "none"]
NoExam == [published |-> FALSE, opens |-> 0, closes |-> 0, limit |-> 0,
           unlimited |-> FALSE, review |-> FALSE, reviewAt |-> 0]
NoGrant == [opens |-> 0, closes |-> 0, max |-> 0]
Resting == [at |-> "idle", data |-> NoExam]
Unread == [at |-> "idle", data |-> NoHistory]
NoSummary == [review |-> FALSE, reviewAt |-> 0]

InitLobby ==
  \E kind \in {"ujian", "ulangan"}, e \in Exams :
    /\ kind = "ulangan" => e.opens = 0 /\ e.closes > EndTime
    /\ ui = [screen |-> "lobby", kind |-> kind,
             mode |-> IF kind = "ujian" THEN "list" ELSE "lobby",
             exam |-> NoExam, hist |-> NoHistory, loaded |-> {}, failed |-> {},
             attempt |-> 0, summary |-> NoSummary, review |-> "none"]
    /\ net = [exam |-> Resting, hist |-> Unread, start |-> [at |-> "idle", attempt |-> 0],
              review |-> "idle"]
    /\ srv = [exam |-> e, grant |-> NoGrant, hist |-> NoHistory, now |-> 0]
    /\ past = [events |-> 0]

InLobby(kind) == ui.screen = "lobby" /\ ui.kind = kind
LobbyScreen == ui.screen = "lobby"
\* Both queries are enabled in the list, the lobby and the result.
Reading == LobbyScreen /\ ui.mode \in {"list", "lobby", "result"}
\* Behind the loading and the error card: both answers are there.
Displayed(mode) == /\ LobbyScreen /\ ui.mode = mode
                   /\ ui.loaded = {"exam", "hist"} /\ ui.failed = {}
Fresh == ui.exam = srv.exam /\ ui.hist = srv.hist

-----------------------------------------------------------------------------
(* What the screens compute from the cached rows. *)

\* computeWindow of the section and computeWindowState of the card.
WindowState(e) == IF srv.now < e.opens THEN "mendatang"
                  ELSE IF srv.now > e.closes THEN "berakhir" ELSE "aktif"
MatchesWindowFilter(filter) ==
  filter = "all" \/ filter = WindowState(ui.exam)

Inflight == {i \in Attempts : ui.hist[i] = "berlangsung"}
\* Mutant: a cancelled attempt counts too.
UsedAttemptsAll == Cardinality({i \in Attempts : ui.hist[i] # "none"})

UsedAttempts == Cardinality({i \in Attempts : ui.hist[i] \notin {"none", "dibatalkan"}})
AttemptsExhausted == ~ui.exam.unlimited /\ UsedAttempts >= ui.exam.limit

\* PrimaryCTA of the card.
CardLeads ==
  \/ Inflight # {}
  \/ WindowState(ui.exam) = "aktif" /\ ~AttemptsExhausted
\* The card's and the lobby's main button: resume, or PrimaryStartButton.
UjianStartOffered ==
  Inflight = {} /\ WindowState(ui.exam) = "aktif" /\ ~AttemptsExhausted

\* UlanganLobby counts the graded attempts only, but resumes a running one.
GradedAttempts == Cardinality({i \in Attempts : ui.hist[i] = "selesai"})
UlanganStartOffered ==
  /\ Inflight = {} /\ ui.exam.published
  /\ ui.exam.unlimited \/ ui.exam.limit > GradedAttempts

StartOffered == IF ui.kind = "ujian" THEN UjianStartOffered ELSE UlanganStartOffered

\* canReviewHasil and canReview: the row of an attempt in the history.
UjianReviewOffered(i) ==
  ui.hist[i] = "selesai" /\ ui.exam.review /\ ui.exam.reviewAt <= srv.now
UlanganReviewOffered(i) ==
  /\ ui.hist[i] = "selesai" /\ ui.exam.review
  /\ ui.exam.reviewAt > 0 => ui.exam.reviewAt <= srv.now
ReviewOffered(i) == IF ui.kind = "ujian" THEN UjianReviewOffered(i)
                                         ELSE UlanganReviewOffered(i)
\* canReviewResult: the policy in the answer of the submit, not the cached row.
ResultReviewOffered == ui.summary.review /\ ui.summary.reviewAt <= srv.now

-----------------------------------------------------------------------------
(* The queries. *)

\* (A refetch that would change nothing is left out.)
ReadExam(kind) ==
  /\ InLobby(kind) /\ Reading /\ net.exam.at = "idle"
  /\ "exam" \notin ui.loaded \/ (ui.exam # srv.exam)
  /\ net' = [net EXCEPT !.exam.at = "sent"]
  /\ ui' = [ui EXCEPT !.failed = @ \ {"exam"}]
  /\ UNCHANGED <<srv, past>>

ReadHistory(kind) ==
  /\ InLobby(kind) /\ Reading /\ net.hist.at = "idle"
  /\ "hist" \notin ui.loaded \/ (ui.hist # srv.hist)
  /\ net' = [net EXCEPT !.hist.at = "sent"]
  /\ ui' = [ui EXCEPT !.failed = @ \ {"hist"}]
  /\ UNCHANGED <<srv, past>>

\* A student sees published exams only; a chapter without a setting gives the
\* default view, which is not configured.
ServeExam ==
  /\ LobbyScreen /\ net.exam.at = "sent"
  /\ net' = [net EXCEPT !.exam = IF srv.exam.published \/ ui.kind = "ulangan"
                                 THEN [at |-> "ok", data |-> srv.exam]
                                 ELSE [@ EXCEPT !.at = "no"]]
  /\ UNCHANGED <<ui, srv, past>>

ServeHistory ==
  /\ LobbyScreen /\ net.hist.at = "sent"
  /\ net' = [net EXCEPT !.hist = [at |-> "ok", data |-> srv.hist]]
  /\ UNCHANGED <<ui, srv, past>>

ExamArrives(kind) ==
  /\ InLobby(kind) /\ net.exam.at = "ok"
  /\ ui' = [ui EXCEPT !.exam = net.exam.data, !.loaded = @ \union {"exam"}]
  /\ net' = [net EXCEPT !.exam = Resting]
  /\ UNCHANGED <<srv, past>>

HistoryArrives(kind) ==
  /\ InLobby(kind) /\ net.hist.at = "ok"
  /\ ui' = [ui EXCEPT !.hist = net.hist.data, !.loaded = @ \union {"hist"}]
  /\ net' = [net EXCEPT !.hist = Unread]
  /\ UNCHANGED <<srv, past>>

\* A refusal at once, a lost message after its retries; the error card of
\* UjianSection looks at the exam query only.
QueryFails(kind) ==
  /\ InLobby(kind)
  /\ \/ net.exam.at = "no" /\ UNCHANGED past
     \/ net.exam.at = "sent" /\ Spend
  /\ ui' = [ui EXCEPT !.failed = @ \union {"exam"}]
  /\ net' = [net EXCEPT !.exam = Resting]
  /\ UNCHANGED srv

-----------------------------------------------------------------------------
(* The controls. *)

\* The link of a card that its window filter shows.
OpenFromCard ==
  /\ InLobby("ujian") /\ Displayed("list")
  /\ \E f \in {"all", "aktif", "mendatang", "berakhir"} : MatchesWindowFilter(f)
  /\ CardLeads
  /\ ui' = [ui EXCEPT !.mode = "lobby"]
  /\ UNCHANGED <<net, srv, past>>

UjianLobbyStart ==
  /\ InLobby("ujian") /\ Displayed("lobby") /\ UjianStartOffered /\ net.start.at = "idle"
  /\ net' = [net EXCEPT !.start.at = "sent"]
  /\ UNCHANGED <<ui, srv, past>>

UlanganLobbyStart ==
  /\ InLobby("ulangan") /\ Displayed("lobby") /\ UlanganStartOffered /\ net.start.at = "idle"
  /\ net' = [net EXCEPT !.start.at = "sent"]
  /\ UNCHANGED <<ui, srv, past>>

\* "Lanjutkan" mounts the player of the cached running attempt.
LobbyResume(kind) ==
  /\ InLobby(kind) /\ Displayed("lobby") /\ net.start.at = "idle"
  /\ \E i \in Inflight : ui' = [ui EXCEPT !.mode = "playing", !.attempt = i]
  /\ UNCHANGED <<net, srv, past>>

\* Start: a window of the student's own if there is a susulan, the running
\* attempt if there is one, or a new one within the limit.
OpenFor(student) == IF student = NoGrant
                    THEN srv.exam.opens <= srv.now /\ srv.now <= srv.exam.closes
                    ELSE student.opens <= srv.now /\ srv.now <= student.closes
Running == {i \in Attempts : srv.hist[i] = "berlangsung"}
Taken == {i \in Attempts : srv.hist[i] \notin {"none", "dibatalkan"}}
WithinLimit == IF srv.grant # NoGrant THEN Cardinality(Taken) < srv.grant.max
               ELSE srv.exam.unlimited \/ Cardinality(Taken) < srv.exam.limit
Accepted == srv.exam.published /\ OpenFor(srv.grant) /\ (Running # {} \/ WithinLimit)

ServeStart ==
  /\ LobbyScreen /\ net.start.at = "sent"
  /\ \/ ~Accepted /\ UNCHANGED srv /\ net' = [net EXCEPT !.start.at = "no"]
     \/ /\ Accepted /\ Running # {} /\ UNCHANGED srv
        /\ \E i \in Running : net' = [net EXCEPT !.start = [at |-> "ok", attempt |-> i]]
     \/ /\ Accepted /\ Running = {}
        /\ \E i \in Attempts :
             /\ srv.hist[i] = "none" /\ \A j \in 1..i - 1 : srv.hist[j] # "none"
             /\ srv' = [srv EXCEPT !.hist[i] = "berlangsung"]
             /\ net' = [net EXCEPT !.start = [at |-> "ok", attempt |-> i]]
  /\ UNCHANGED <<ui, past>>

StartAnswered(kind) ==
  /\ InLobby(kind)
  /\ \/ /\ net.start.at = "ok" /\ UNCHANGED past
        /\ ui' = [ui EXCEPT !.mode = "playing", !.attempt = net.start.attempt,
                            !.loaded = @ \ {"hist"}]
     \/ net.start.at = "no" /\ UNCHANGED <<ui, past>>
     \/ net.start.at \in {"sent", "ok"} /\ Spend /\ UNCHANGED ui
  /\ net' = [net EXCEPT !.start = [at |-> "idle", attempt |-> 0]]
  /\ UNCHANGED srv

\* onDone: the attempt is graded by now, the answer carries the review policy.
PlayerDone(kind) ==
  /\ InLobby(kind) /\ ui.mode = "playing" /\ srv.hist[ui.attempt] # "dibatalkan"
  /\ srv' = [srv EXCEPT !.hist[ui.attempt] = "selesai"]
  /\ ui' = [ui EXCEPT !.mode = "result", !.loaded = @ \ {"hist"},
                      !.summary = [review |-> srv.exam.review, reviewAt |-> srv.exam.reviewAt]]
  /\ UNCHANGED <<net, past>>

PlayerAborts(kind) ==
  /\ InLobby(kind) /\ ui.mode = "playing"
  /\ ui' = [ui EXCEPT !.mode = "lobby", !.attempt = 0, !.loaded = @ \ {"hist"}]
  /\ UNCHANGED <<net, srv, past>>

\* "Lihat pembahasan" of a history row, and of the result, which needs no query.
OpenReview(kind) ==
  /\ InLobby(kind) /\ Displayed("lobby")
  /\ \E i \in Attempts : /\ ReviewOffered(i)
                        /\ ui' = [ui EXCEPT !.mode = "review", !.attempt = i]
  /\ UNCHANGED <<net, srv, past>>

OpenResultReview(kind) ==
  /\ InLobby(kind) /\ ui.mode = "result" /\ ResultReviewOffered
  /\ ui' = [ui EXCEPT !.mode = "review"]
  /\ UNCHANGED <<net, srv, past>>

Reviewable(i) ==
  srv.hist[i] = "selesai" /\ srv.exam.review /\ srv.exam.reviewAt <= srv.now

\* The review query, refused with 403 while the review is closed.
ReadReview(kind) ==
  /\ InLobby(kind) /\ ui.mode = "review" /\ ui.review = "none" /\ net.review = "idle"
  /\ net' = [net EXCEPT !.review = IF Reviewable(ui.attempt) THEN "ok" ELSE "no"]
  /\ UNCHANGED <<ui, srv, past>>

ReviewArrives(kind) ==
  /\ InLobby(kind) /\ net.review # "idle"
  /\ ui' = IF ui.mode # "review" THEN ui
           ELSE [ui EXCEPT !.review = IF net.review = "ok" THEN "shown" ELSE "refused"]
  /\ net' = [net EXCEPT !.review = "idle"]
  /\ UNCHANGED <<srv, past>>

BackToLobby(kind, mode) ==
  /\ InLobby(kind) /\ ui.mode = mode
  /\ ui' = [ui EXCEPT !.mode = "lobby", !.attempt = 0, !.review = "none"]
  /\ UNCHANGED <<net, srv, past>>

-----------------------------------------------------------------------------
(* The others. *)

LobbyTick ==
  /\ LobbyScreen /\ srv.now < EndTime
  /\ srv' = [srv EXCEPT !.now = @ + 1]
  /\ UNCHANGED <<ui, net, past>>

\* The sweep grades a running attempt, a teacher cancels one.
OthersEnd ==
  /\ LobbyScreen /\ Spend
  /\ \E i \in Running : \E s \in {"selesai", "dibatalkan"} : srv' = [srv EXCEPT !.hist[i] = s]
  /\ UNCHANGED <<ui, net>>

TeacherEdits ==
  /\ LobbyScreen /\ Spend
  /\ \E e \in Exams : /\ e # srv.exam
                      /\ ui.kind = "ulangan" => e.opens = 0 /\ e.closes > EndTime
                      /\ srv' = [srv EXCEPT !.exam = e]
  /\ UNCHANGED <<ui, net>>

GrantSusulan ==
  /\ InLobby("ujian") /\ srv.grant = NoGrant /\ Spend
  /\ \E g \in Grants : srv' = [srv EXCEPT !.grant = g]
  /\ UNCHANGED <<ui, net>>

-----------------------------------------------------------------------------
(* The screens, in the order of their files. *)

UjianSection == \/ ReadExam("ujian") \/ ReadHistory("ujian") \/ StartAnswered("ujian")
                \/ PlayerDone("ujian") \/ PlayerAborts("ujian")
UjianSectionCards == ExamArrives("ujian") \/ HistoryArrives("ujian") \/ QueryFails("ujian")
LobbyPanel == UjianLobbyStart \/ LobbyResume("ujian")
HistoryRow == OpenReview("ujian")
ResultPanel == OpenResultReview("ujian") \/ BackToLobby("ujian", "result")
UjianReview == ReadReview("ujian") \/ ReviewArrives("ujian")
UjianReviewBody == BackToLobby("ujian", "review")

UlanganSection == \/ ReadExam("ulangan") \/ ReadHistory("ulangan") \/ StartAnswered("ulangan")
                  \/ PlayerDone("ulangan") \/ PlayerAborts("ulangan")
UlanganSectionCards == ExamArrives("ulangan") \/ HistoryArrives("ulangan") \/ QueryFails("ulangan")
UlanganLobby == UlanganLobbyStart \/ LobbyResume("ulangan")
UlanganHistoryRow == OpenReview("ulangan")
UlanganResult == OpenResultReview("ulangan") \/ BackToLobby("ulangan", "result")
UlanganReview == ReadReview("ulangan") \/ ReviewArrives("ulangan")
UlanganReviewBody == BackToLobby("ulangan", "review")

NextLobby ==
  \/ OpenFromCard \/ UjianSection \/ UjianSectionCards \/ LobbyPanel \/ HistoryRow
  \/ ResultPanel \/ UjianReview \/ UjianReviewBody
  \/ UlanganSection \/ UlanganSectionCards \/ UlanganLobby \/ UlanganHistoryRow
  \/ UlanganResult \/ UlanganReview \/ UlanganReviewBody
  \/ ServeExam \/ ServeHistory \/ ServeStart
  \/ LobbyTick \/ OthersEnd \/ TeacherEdits \/ GrantSusulan

-----------------------------------------------------------------------------
(* Properties. *)

CallStates == {"idle", "sent", "ok", "no"}
LobbyUi ==
  [screen : {"lobby"}, kind : {"ujian", "ulangan"},
   mode : {"list", "lobby", "playing", "result", "review"}, exam : Exams \union {NoExam},
   hist : [Attempts -> Statuses], loaded : SUBSET {"exam", "hist"},
   failed : SUBSET {"exam", "hist"}, attempt : 0..MaxAttempt,
   summary : [review : BOOLEAN, reviewAt : Nat], review : {"none", "shown", "refused"}]
LobbyCalls ==
  [exam : [at : CallStates, data : Exams \union {NoExam}],
   hist : [at : CallStates, data : [Attempts -> Statuses]],
   start : [at : CallStates, attempt : 0..MaxAttempt], review : {"idle", "ok", "no"}]
LobbyRows ==
  [exam : Exams, grant : Grants \union {NoGrant}, hist : [Attempts -> Statuses],
   now : 0..EndTime]

\* Cached rows, calls and stored rows hold what the code's types allow.
LobbyType ==
  ui \in LobbyUi /\ net \in LobbyCalls /\ srv \in LobbyRows /\ past \in [events : Nat]
LobbyTypeOK == LobbyScreen => LobbyType

\* On rows that are up to date the start button of a student without a susulan
\* is offered exactly when the service would begin a new attempt: the browser's
\* count of attempts and window agree with Start's (LobbyPanel, UlanganLobby).
StartAgrees ==
  Displayed("lobby") /\ Fresh /\ srv.grant = NoGrant =>
    (StartOffered <=> Accepted /\ Running = {})

\* On rows that are up to date a review is offered exactly when the service
\* gives it: the button never leads to a refusal and never hides a review.
ReviewAgrees ==
  Displayed("lobby") /\ Fresh => \A i \in Attempts : ReviewOffered(i) <=> Reviewable(i)

\* What the lobby and the history offer on rows that are up to date is what the
\* service does when it is pressed (UjianSection.tsx, UlanganSection.tsx).
ButtonsAgree == StartAgrees /\ ReviewAgrees

\* "A per-siswa susulan override can open a separate window without changing the
\* main ujian schedule": a student whom the service would let start can start.
SusulanCanStart ==
  Displayed("lobby") /\ Fresh /\ Accepted => StartOffered \/ Inflight # {}

-----------------------------------------------------------------------------
(* The inductive invariant of the proofs.                                  *)

SpecLobby == InitLobby /\ [][NextLobby]_browser

\* The test of a chapter has no window.
WindowInv == ui.kind = "ulangan" => srv.exam.opens = 0 /\ srv.exam.closes > EndTime

\* A student gets to see no exam that is not published.
PublishedInv ==
  ui.kind = "ujian" =>
    /\ net.exam.at = "ok" => net.exam.data.published
    /\ "exam" \in ui.loaded => ui.exam.published

LobbyInv == LobbyType /\ WindowInv /\ PublishedInv
=============================================================================
