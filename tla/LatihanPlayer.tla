--------------------------- MODULE LatihanPlayer ---------------------------
(***************************************************************************)
(* The practice of a chapter (LatihanPlayer): start or resume an attempt,  *)
(* answer its questions one request at a time with the verdict beside each *)
(* answer, finish, read the summary and start again.  The component stays  *)
(* mounted over several attempts and keeps its state from one to the next. *)
(***************************************************************************)
EXTENDS Browser

CONSTANTS
  Butir,     \* the questions of the chapter
  MaxTry     \* bound: attempts of the student

ASSUME LatihanAssumption == Butir # {} /\ IsFiniteSet(Butir) /\ MaxTry \in Nat \ {0}

Options == {"right", "wrong"}       \* the letters, by what the key makes of them
Verdicts == {"none", "right", "wrong"}
Tries == 1..MaxTry
Blank == [q \in Butir |-> "none"]
Quiet == [at |-> "idle", hasil |-> 0]
NoAnswer == [at |-> "idle", hasil |-> 0, soal |-> CHOOSE q \in Butir : TRUE, jawaban |-> "right"]
NoItems == [at |-> "idle", hasil |-> 0, data |-> Blank]

InitLatihan ==
  /\ \E disabled \in BOOLEAN :
       ui = [screen |-> "latihan", hasil |-> 0, summary |-> FALSE, view |-> "pending",
             items |-> Blank, verdict |-> Blank, finishing |-> FALSE,
             confirm |-> FALSE, disabled |-> disabled]
  /\ net = [start |-> Quiet, read |-> NoItems, answer |-> NoAnswer, finish |-> Quiet]
  /\ srv = [tries |-> 0, running |-> FALSE, saved |-> Blank]
  /\ past = [events |-> 0, mixed |-> {}]

InLatihan == ui.screen = "latihan"
\* The screen with the questions: an attempt, no summary, and its items.
Practising == InLatihan /\ ui.hasil # 0 /\ ~ui.summary /\ ui.view = "items"

-----------------------------------------------------------------------------
\* "Mulai latihan" of the idle card.
LatihanStart ==
  /\ InLatihan /\ ~ui.summary /\ ui.hasil = 0
  /\ ~ui.disabled /\ net.start.at = "idle"
  /\ net' = [net EXCEPT !.start.at = "sent"]
  /\ UNCHANGED <<ui, srv, past>>

\* "Mulai latihan baru" of the summary.
LatihanRestart ==
  /\ InLatihan /\ ui.summary /\ ~ui.disabled /\ net.start.at = "idle"
  /\ net' = [net EXCEPT !.start.at = "sent"]
  /\ UNCHANGED <<ui, srv, past>>

\* The running attempt, or a new one.
ServeLatihanStart ==
  /\ InLatihan /\ net.start.at = "sent"
  /\ \/ srv.running /\ UNCHANGED srv
     \/ /\ ~srv.running /\ srv.tries < MaxTry
        /\ srv' = [tries |-> srv.tries + 1, running |-> TRUE, saved |-> Blank]
  /\ net' = [net EXCEPT !.start = [at |-> "ok", hasil |-> srv'.tries]]
  /\ UNCHANGED <<ui, past>>

\* setHasilID and setSummary; the items query of the attempt is enabled.
LatihanStarted ==
  /\ InLatihan /\ net.start.at = "ok"
  /\ ui' = [ui EXCEPT !.hasil = net.start.hasil, !.summary = FALSE,
                      !.view = "pending", !.items = Blank]
  /\ net' = [net EXCEPT !.start = Quiet]
  /\ UNCHANGED <<srv, past>>

LatihanRead ==
  /\ InLatihan /\ ui.hasil # 0 /\ ~ui.summary /\ net.read.at = "idle"
  /\ ui.view \in {"pending", "error"}
  /\ IF ui.view = "error" THEN Spend ELSE UNCHANGED past
  /\ ui' = [ui EXCEPT !.view = "pending"]
  /\ net' = [net EXCEPT !.read = [NoItems EXCEPT !.at = "sent", !.hasil = ui.hasil]]
  /\ UNCHANGED srv

\* The items with the stored answers and verdicts; none once it is finished.
ServeLatihanItems ==
  /\ InLatihan /\ net.read.at = "sent"
  /\ net' = [net EXCEPT !.read = IF srv.running /\ @.hasil = srv.tries
                                 THEN [@ EXCEPT !.at = "ok", !.data = srv.saved]
                                 ELSE [@ EXCEPT !.at = "no"]]
  /\ UNCHANGED <<ui, srv, past>>

\* The effect on the items fills in verdicts, but never over one of the session.
LatihanItems ==
  /\ InLatihan /\ net.read.at = "ok"
  /\ ui' = IF ui.hasil # net.read.hasil THEN ui
           ELSE [ui EXCEPT !.view = "items", !.items = net.read.data,
                           !.verdict = [q \in Butir |-> IF @[q] = "none" THEN net.read.data[q]
                                                        ELSE @[q]]]
  /\ net' = [net EXCEPT !.read = NoItems]
  /\ UNCHANGED <<srv, past>>

LatihanItemsFail ==
  /\ InLatihan
  /\ \/ net.read.at = "no" /\ UNCHANGED past
     \/ net.read.at \in {"sent", "ok"} /\ Spend
  /\ ui' = IF ui.hasil = net.read.hasil THEN [ui EXCEPT !.view = "error"] ELSE ui
  /\ net' = [net EXCEPT !.read = NoItems]
  /\ UNCHANGED srv

\* "Reset" of the error screen forgets the attempt, not the verdicts.
LatihanReset ==
  /\ InLatihan /\ ui.hasil # 0 /\ ~ui.summary /\ ui.view = "error"
  /\ ui' = [ui EXCEPT !.hasil = 0, !.view = "pending"]
  /\ UNCHANGED <<net, srv, past>>

\* Mutant: the verdict of the answer before stays.
LatihanAnswerKeeps(q, v) ==
  /\ Practising /\ ~ui.disabled /\ net.answer.at = "idle"
  /\ ui' = [ui EXCEPT !.items[q] = v]
  /\ net' = [net EXCEPT !.answer = [at |-> "sent", hasil |-> ui.hasil, soal |-> q, jawaban |-> v]]
  /\ UNCHANGED <<srv, past>>

\* handleAnswer, from the card of a question: one request at a time.
LatihanAnswer(q, v) ==
  /\ Practising /\ ~ui.disabled /\ net.answer.at = "idle"
  /\ ui' = [ui EXCEPT !.items[q] = v, !.verdict[q] = "none"]
  /\ net' = [net EXCEPT !.answer = [at |-> "sent", hasil |-> ui.hasil, soal |-> q, jawaban |-> v]]
  /\ UNCHANGED <<srv, past>>

\* Answer: refused once the attempt is finished, stored and judged before.
ServeLatihanAnswer ==
  LET r == net.answer IN
  /\ InLatihan /\ r.at = "sent"
  /\ IF srv.running /\ r.hasil = srv.tries
     THEN /\ srv' = [srv EXCEPT !.saved[r.soal] = r.jawaban]
          /\ net' = [net EXCEPT !.answer.at = "ok"]
     ELSE net' = [net EXCEPT !.answer.at = "no"] /\ UNCHANGED srv
  /\ UNCHANGED <<ui, past>>

\* onSuccess sets the verdict, whichever attempt is on the screen by now.
LatihanJudged ==
  /\ InLatihan /\ net.answer.at = "ok"
  /\ ui' = [ui EXCEPT !.verdict[net.answer.soal] = net.answer.jawaban]
  /\ net' = [net EXCEPT !.answer = NoAnswer]
  /\ past' = IF ui.hasil = net.answer.hasil THEN past
             ELSE [past EXCEPT !.mixed = @ \union {net.answer.soal}]
  /\ UNCHANGED srv

LatihanAnswerFails ==
  /\ InLatihan
  /\ \/ net.answer.at = "no" /\ UNCHANGED past
     \/ net.answer.at \in {"sent", "ok"} /\ Spend
  /\ net' = [net EXCEPT !.answer = NoAnswer]
  /\ UNCHANGED <<ui, srv>>

\* The button "Selesai" opens the confirmation, "Ya, selesai" sends it.
FinishOffered == ~ui.disabled /\ net.finish.at = "idle" /\ ~ui.finishing

LatihanConfirm ==
  /\ Practising /\ FinishOffered /\ ~ui.confirm
  /\ ui' = [ui EXCEPT !.confirm = TRUE]
  /\ UNCHANGED <<net, srv, past>>

LatihanFinish ==
  /\ Practising /\ ui.confirm /\ net.finish.at = "idle"
  /\ ui' = [ui EXCEPT !.finishing = TRUE]
  /\ net' = [net EXCEPT !.finish = [at |-> "sent", hasil |-> ui.hasil]]
  /\ UNCHANGED <<srv, past>>

ServeLatihanFinish ==
  /\ InLatihan /\ net.finish.at = "sent"
  /\ srv' = IF net.finish.hasil = srv.tries THEN [srv EXCEPT !.running = FALSE] ELSE srv
  /\ net' = [net EXCEPT !.finish.at = "ok"]
  /\ UNCHANGED <<ui, past>>

LatihanFinished ==
  /\ InLatihan /\ net.finish.at = "ok"
  /\ ui' = [ui EXCEPT !.summary = TRUE, !.hasil = 0, !.verdict = Blank, !.confirm = FALSE]
  /\ net' = [net EXCEPT !.finish = Quiet]
  /\ past' = [past EXCEPT !.mixed = {}]
  /\ UNCHANGED srv

LatihanFinishFails ==
  /\ InLatihan /\ net.finish.at \in {"sent", "ok"} /\ Spend
  /\ ui' = [ui EXCEPT !.finishing = FALSE]
  /\ net' = [net EXCEPT !.finish = Quiet]
  /\ UNCHANGED srv

NextLatihan ==
  \/ LatihanStart \/ LatihanRestart \/ ServeLatihanStart \/ LatihanStarted
  \/ LatihanRead \/ ServeLatihanItems \/ LatihanItems \/ LatihanItemsFail \/ LatihanReset
  \/ \E q \in Butir, v \in Options : LatihanAnswer(q, v)
  \/ ServeLatihanAnswer \/ LatihanJudged \/ LatihanAnswerFails
  \/ LatihanConfirm \/ LatihanFinish \/ ServeLatihanFinish
  \/ LatihanFinished \/ LatihanFinishFails

-----------------------------------------------------------------------------
(* Properties. *)

LatihanScreen ==
  [screen : {"latihan"}, hasil : 0..MaxTry, summary : BOOLEAN, view : {"pending", "items", "error"},
   items : [Butir -> Verdicts], verdict : [Butir -> Verdicts], finishing : BOOLEAN,
   confirm : BOOLEAN, disabled : BOOLEAN]
LatihanCall == [at : {"idle", "sent", "ok"}, hasil : 0..MaxTry]
LatihanItemsCall ==
  [at : {"idle", "sent", "ok", "no"}, hasil : 0..MaxTry, data : [Butir -> Verdicts]]
LatihanAnswerCall ==
  [at : {"idle", "sent", "ok", "no"}, hasil : 0..MaxTry, soal : Butir, jawaban : Options]
LatihanCalls ==
  [start : LatihanCall, read : LatihanItemsCall, answer : LatihanAnswerCall, finish : LatihanCall]
LatihanRows == [tries : 0..MaxTry, running : BOOLEAN, saved : [Butir -> Verdicts]]
LatihanPast == [events : Nat, mixed : SUBSET Butir]

\* Items, verdicts, calls and rows hold what the code's types allow.
LatihanType ==
  ui \in LatihanScreen /\ net \in LatihanCalls /\ srv \in LatihanRows /\ past \in LatihanPast
LatihanTypeOK == InLatihan => LatihanType

\* A verdict stands beside the answer it judges, over lost answers, resets and
\* later attempts, unless an answer of the attempt before came in late.
VerdictFitsAnswer == Practising =>
  \A q \in Butir \ past.mixed :
    ui.verdict[q] # "none" => ui.verdict[q] = ui.items[q]

\* "Mulai lagi -> start ulang", "re-attempt unlimited": every practice on the
\* screen can be finished.
PractiseEnds == Practising /\ ~ui.disabled /\ net.finish.at = "idle" => FinishOffered

-----------------------------------------------------------------------------
(* The inductive invariant of the proofs.                                  *)

SpecLatihan == InitLatihan /\ [][NextLatihan]_browser

\* The attempt on the screen is the last one, and only its questions can outlive it.
AttemptInv ==
  /\ ui.summary => ui.hasil = 0
  /\ ui.hasil # 0 => ui.hasil = srv.tries /\ (srv.running \/ Practising)

\* A start finds no attempt on the screen, a read no questions yet, and a finish
\* keeps them there until it is answered.
CallsInv ==
  /\ net.start.at # "idle" => ui.hasil = 0
  /\ net.start.at = "ok" => srv.running /\ net.start.hasil = srv.tries
  /\ net.read.at # "idle" =>
       ui.hasil # 0 /\ ~ui.summary /\ ui.view = "pending" /\ net.read.hasil = ui.hasil
  /\ net.finish.at # "idle" => Practising /\ net.finish.hasil = ui.hasil
  /\ net.finish.at = "ok" => ~srv.running

\* An answer under way is to the choice on the screen, or to an attempt that is over.
LateInv ==
  LET r == net.answer IN
  r.at # "idle" =>
    /\ r.hasil \in 1..srv.tries
    /\ IF ui.hasil = r.hasil THEN Practising /\ ui.items[r.soal] = r.jawaban
                             ELSE ~srv.running \/ r.hasil # srv.tries

\* Between two attempts there are no verdicts, but those of late answers.
VerdictInv ==
  \A q \in Butir \ past.mixed :
    ui.verdict[q] # "none" => Practising /\ ui.verdict[q] = ui.items[q]

LatihanInv == LatihanType /\ AttemptInv /\ CallsInv /\ LateInv /\ VerdictInv
=============================================================================
