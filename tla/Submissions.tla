---------------------------- MODULE Submissions ----------------------------
(***************************************************************************)
(* An assignment between one student and the teacher who grades: the       *)
(* student's panel (SubmissionPanel) with a second tab of the same student, *)
(* the teacher's list and grading dialog (SubmissionReviewList,            *)
(* GradeSubmissionDialog), and the service in between, which uploads the   *)
(* files before its transaction and cleans up after it.  A submit carries  *)
(* no version, a grade does.                                               *)
(***************************************************************************)
EXTENDS Browser

CONSTANT MaxSubmit  \* bound: submits of the student, each with files of its own

ASSUME SubmitAssumption == MaxSubmit \in Nat \ {0}

Works == 0..MaxSubmit                    \* what was handed in, 0 is nothing
Tabs == {"panel", "tab"}
NoSub == [version |-> 0, work |-> 0, files |-> FALSE, late |-> FALSE, score |-> "none"]
Submitted == [version : Nat, work : Works, files : BOOLEAN, late : BOOLEAN,
              score : {"none", "full", "cut"}]
NoSubmit == [at |-> "idle", work |-> 0, files |-> FALSE, late |-> FALSE, old |-> 0, version |-> 0]
NoGrade == [at |-> "idle", version |-> 0, preview |-> "none"]
NoReading == [at |-> "idle", sub |-> NoSub]

\* The stored submission keeps the objects of its files, one key for them all.
FilesOf(sub) == IF sub.files THEN {sub.work} ELSE {}

\* tugas is the assignment: late work allowed, a file required, a penalty set.
InitTugas ==
  \E allowed \in BOOLEAN :
    /\ ui = [screen |-> "tugas", view |-> "pending", sub |-> NoSub, files |-> FALSE,
             composer |-> FALSE, row |-> NoSub, target |-> NoSub, cut |-> TRUE]
    /\ net = [mine |-> NoReading, list |-> FALSE, grade |-> NoGrade,
              submit |-> [t \in Tabs |-> NoSubmit]]
    /\ srv = [sub |-> NoSub, over |-> FALSE, allowed |-> allowed, required |-> ~allowed,
              cut |-> TRUE, store |-> {}, sent |-> 0]
    /\ past = [events |-> 0, acked |-> 0, graded |-> NoSub, preview |-> "none",
               readWork |-> 0, orphan |-> FALSE]

InTugas == ui.screen = "tugas"
Graded(sub) == sub.score # "none"
Blocked == srv.over /\ ~srv.allowed

Score(late, cut) == IF late /\ cut THEN "cut" ELSE "full"

-----------------------------------------------------------------------------
(* The student's panel. *)

\* The first read, and "Coba lagi" of the error card.
ReadMine ==
  /\ InTugas /\ net.mine.at = "idle" /\ ui.view # "panel"
  /\ net' = [net EXCEPT !.mine = [at |-> "sent", sub |-> NoSub]]
  /\ UNCHANGED <<ui, srv, past>>

ServeMine ==
  /\ InTugas /\ net.mine.at = "sent"
  /\ net' = [net EXCEPT !.mine = [at |-> "ok", sub |-> srv.sub]]
  /\ UNCHANGED <<ui, srv, past>>

MineArrives ==
  /\ InTugas /\ net.mine.at = "ok"
  /\ ui' = [ui EXCEPT !.view = "panel", !.sub = net.mine.sub]
  /\ net' = [net EXCEPT !.mine = NoReading]
  /\ UNCHANGED <<srv, past>>

\* The error card takes the place of the panel, data in the cache or not; what was
\* picked stays.
MineFails ==
  /\ InTugas /\ net.mine.at \in {"sent", "ok"} /\ Spend
  /\ ui' = [ui EXCEPT !.view = "error"]
  /\ net' = [net EXCEPT !.mine = NoReading]
  /\ UNCHANGED srv

\* The card of what was handed in, and the composer: open until there is a
\* submission, then behind "Kirim ulang".
StatusCard == ui.view = "panel" /\ ui.sub # NoSub
ComposerShown ==
  /\ InTugas /\ ui.view = "panel" /\ ~Graded(ui.sub) /\ ~Blocked
  /\ net.submit["panel"].at = "idle"
Composer == ComposerShown /\ (ui.sub = NoSub \/ ui.composer)
OpenComposer ==
  /\ ComposerShown /\ StatusCard /\ ~ui.composer
  /\ ui' = [ui EXCEPT !.composer = TRUE]
  /\ UNCHANGED <<net, srv, past>>
CloseComposer ==
  /\ ComposerShown /\ StatusCard /\ ui.composer
  /\ ui' = [ui EXCEPT !.composer = FALSE, !.files = FALSE]
  /\ UNCHANGED <<net, srv, past>>
PickWork ==
  /\ Composer
  /\ ui' = [ui EXCEPT !.files = ~@]
  /\ UNCHANGED <<net, srv, past>>

Sent(tab, files) ==
  /\ srv.sent < MaxSubmit
  /\ srv' = [srv EXCEPT !.sent = @ + 1]
  /\ net' = [net EXCEPT !.submit[tab] = [NoSubmit EXCEPT !.at = "sent", !.work = srv'.sent,
                                                         !.files = files]]
SubmitWork ==
  /\ Composer
  /\ srv.required => ui.files
  /\ Sent("panel", ui.files)
  /\ UNCHANGED <<ui, past>>

\* The same student in another tab or on another device.
OtherTabSubmits ==
  /\ InTugas /\ net.submit["tab"].at = "idle" /\ past.events < MaxEvents
  /\ \E files \in BOOLEAN : (srv.required => files) /\ Sent("tab", files)
  /\ past' = [past EXCEPT !.events = @ + 1]
  /\ UNCHANGED ui

MineInvalidated == [at |-> "sent", sub |-> NoSub]
SubmitAnswered ==
  /\ InTugas /\ net.submit["panel"].at \in {"ok", "no"}
  /\ IF net.submit["panel"].at = "ok"
     THEN /\ ui' = [ui EXCEPT !.files = FALSE, !.composer = FALSE]
          /\ net' = [net EXCEPT !.submit["panel"] = NoSubmit, !.mine = MineInvalidated]
          /\ past' = [past EXCEPT !.acked = net.submit["panel"].version]
     ELSE /\ net' = [net EXCEPT !.submit["panel"] = NoSubmit]
          /\ UNCHANGED <<ui, past>>
  /\ UNCHANGED srv

\* The answer is lost: the composer keeps its files and offers the submit again.
LoseSubmit ==
  /\ InTugas /\ net.submit["panel"].at \in {"ok", "no"} /\ Spend
  /\ net' = [net EXCEPT !.submit["panel"] = NoSubmit]
  /\ UNCHANGED <<ui, srv>>

TabAnswered ==
  /\ InTugas /\ net.submit["tab"].at \in {"ok", "no"}
  /\ net' = [net EXCEPT !.submit["tab"] = NoSubmit]
  /\ UNCHANGED <<ui, srv, past>>

-----------------------------------------------------------------------------
(* Submit in the service. *)

\* The checks, late or not by the clock of this moment, and the upload, whose
\* failure deletes what it has put.
CheckSubmit(t) ==
  LET s == net.submit[t] IN
  /\ InTugas /\ s.at = "sent"
  /\ \/ /\ Blocked \/ (srv.required /\ ~s.files)
        /\ net' = [net EXCEPT !.submit[t].at = "no"] /\ UNCHANGED srv
     \/ /\ ~Blocked /\ (srv.required => s.files)
        /\ net' = [net EXCEPT !.submit[t].at = "lock", !.submit[t].late = srv.over]
        /\ srv' = [srv EXCEPT !.store = @ \union FilesOf(s)]
  /\ UNCHANGED <<ui, past>>

\* Mutants: the upload stays when the transaction rolls back; the version is counted
\* by the row's update and once more by a hook; graded work is replaced.
RollBackKeeps(t) == UNCHANGED srv /\ net' = [net EXCEPT !.submit[t].at = "no"]
ReplaceableAlways == TRUE

\* The transaction, which rolls back with the upload undone.
RollBack(t) ==
  /\ srv' = [srv EXCEPT !.store = @ \ FilesOf(net.submit[t])]
  /\ net' = [net EXCEPT !.submit[t].at = "no"]
Store(t, version, old) ==
  LET s == net.submit[t] IN
  /\ srv' = [srv EXCEPT !.sub = [version |-> version, work |-> s.work, files |-> s.files,
                                 late |-> s.late, score |-> "none"]]
  /\ net' = [net EXCEPT !.submit[t].at = "clean", !.submit[t].old = old,
                        !.submit[t].version = version]
Replaceable == ~Graded(srv.sub)
LockRow(t) ==
  /\ InTugas /\ net.submit[t].at = "lock"
  /\ \/ /\ srv.sub = NoSub                  \* nothing to lock
        /\ net' = [net EXCEPT !.submit[t].at = "create"] /\ UNCHANGED srv
     \/ ~Replaceable /\ RollBack(t)
     \/ /\ srv.sub # NoSub /\ Replaceable
        /\ Store(t, srv.sub.version + 1, IF srv.sub.files THEN srv.sub.work ELSE 0)
  /\ UNCHANGED <<ui, past>>

\* The unique index refuses a second row.
CreateRow(t) ==
  /\ InTugas /\ net.submit[t].at = "create"
  /\ \/ srv.sub # NoSub /\ RollBack(t)
     \/ srv.sub = NoSub /\ Store(t, 1, 0)
  /\ UNCHANGED <<ui, past>>

\* After the commit the objects of the replaced files go; a restart in between
\* leaves them.
CleanFiles(t) ==
  /\ InTugas /\ net.submit[t].at = "clean"
  /\ srv' = [srv EXCEPT !.store = @ \ {net.submit[t].old}]
  /\ net' = [net EXCEPT !.submit[t].at = "ok"]
  /\ UNCHANGED <<ui, past>>
Restart ==
  /\ InTugas /\ past.events < MaxEvents
  /\ \E t \in Tabs : net.submit[t].at \in {"lock", "create", "clean"}
  /\ net' = [net EXCEPT !.submit = [t \in Tabs |->
               IF net.submit[t].at \in {"lock", "create", "clean"} THEN NoSubmit
               ELSE net.submit[t]]]
  /\ past' = [past EXCEPT !.events = @ + 1, !.orphan = TRUE]
  /\ UNCHANGED <<ui, srv>>

DeadlinePasses ==
  /\ InTugas /\ ~srv.over
  /\ srv' = [srv EXCEPT !.over = TRUE]
  /\ UNCHANGED <<ui, net, past>>

-----------------------------------------------------------------------------
(* The teacher. *)

\* "Refresh" and the other filters.  The answer is as new as its arrival: an older
\* one is a list that was left standing.
ReadList ==
  /\ InTugas /\ ~net.list
  /\ net' = [net EXCEPT !.list = TRUE]
  /\ UNCHANGED <<ui, srv, past>>
ListArrives ==
  /\ InTugas /\ net.list
  /\ ui' = [ui EXCEPT !.row = srv.sub]
  /\ net' = [net EXCEPT !.list = FALSE]
  /\ UNCHANGED <<srv, past>>

\* The dialog keeps the row it was opened with, whatever the list reads meanwhile.
ReviewRow == InTugas /\ ui.row # NoSub
GradeDialog == InTugas /\ ui.target # NoSub
OpenGrade ==
  /\ ReviewRow /\ ~GradeDialog
  /\ ui' = [ui EXCEPT !.target = ui.row]
  /\ UNCHANGED <<net, srv, past>>
CloseGrade ==
  /\ GradeDialog
  /\ ui' = [ui EXCEPT !.target = NoSub]
  /\ UNCHANGED <<net, srv, past>>

\* "Nilai akhir" of the dialog: the penalty of the page's assignment for late work.
Preview == Score(ui.target.late, ui.cut)
SendGrade ==
  /\ GradeDialog /\ ~Graded(ui.target) /\ net.grade.at = "idle"
  /\ net' = [net EXCEPT !.grade = [at |-> "sent", version |-> ui.target.version,
                                   preview |-> Preview]]
  /\ past' = [past EXCEPT !.readWork = ui.target.work]
  /\ UNCHANGED <<ui, srv>>

\* Grade: under the row's lock, with the penalty read just before it.
ServeGrade ==
  /\ InTugas /\ net.grade.at = "sent"
  /\ \/ /\ Graded(srv.sub) \/ net.grade.version # srv.sub.version
        /\ net' = [net EXCEPT !.grade.at = "no"]
        /\ UNCHANGED <<srv, past>>
     \/ /\ ~Graded(srv.sub) /\ net.grade.version = srv.sub.version
        /\ srv' = [srv EXCEPT !.sub.score = Score(srv.sub.late, srv.cut),
                              !.sub.version = @ + 1]
        /\ past' = [past EXCEPT !.graded = srv'.sub, !.preview = net.grade.preview]
        /\ net' = [net EXCEPT !.grade.at = "ok"]
  /\ UNCHANGED ui

\* A saved grade reads the list again and closes the dialog; a refused one does
\* neither.
GradeAnswered ==
  /\ InTugas /\ net.grade.at \in {"ok", "no"}
  /\ IF net.grade.at = "ok"
     THEN /\ ui' = [ui EXCEPT !.target = NoSub]
          /\ net' = [net EXCEPT !.grade = NoGrade, !.list = TRUE]
     ELSE net' = [net EXCEPT !.grade = NoGrade] /\ UNCHANGED ui
  /\ UNCHANGED <<srv, past>>
LoseGrade ==
  /\ InTugas /\ net.grade.at # "idle" /\ Spend
  /\ net' = [net EXCEPT !.grade = NoGrade]
  /\ UNCHANGED <<ui, srv>>

\* Somebody takes the penalty off the assignment, which the page does not read again.
PenaltyEdited ==
  /\ InTugas /\ srv.cut /\ Spend
  /\ srv' = [srv EXCEPT !.cut = FALSE]
  /\ UNCHANGED <<ui, net>>

NextTugas ==
  \/ ReadMine \/ ServeMine \/ MineArrives \/ MineFails
  \/ OpenComposer \/ CloseComposer \/ PickWork \/ SubmitWork \/ OtherTabSubmits
  \/ SubmitAnswered \/ LoseSubmit \/ TabAnswered
  \/ \E t \in Tabs : CheckSubmit(t) \/ LockRow(t) \/ CreateRow(t) \/ CleanFiles(t)
  \/ Restart \/ DeadlinePasses
  \/ ReadList \/ ListArrives \/ OpenGrade \/ CloseGrade
  \/ SendGrade \/ ServeGrade \/ GradeAnswered \/ LoseGrade \/ PenaltyEdited
SpecTugas == InitTugas /\ [][NextTugas]_browser

-----------------------------------------------------------------------------
(* Properties. *)

\* Panel, dialog, calls, row and objects hold what the code's types allow.
MineCall == [at : {"idle", "sent", "ok"}, sub : Submitted]
Grading == [at : {"idle", "sent", "ok", "no"}, version : Nat, preview : {"none", "full", "cut"}]
Submitting == [at : {"idle", "sent", "lock", "create", "clean", "ok", "no"}, work : Works,
               files : BOOLEAN, late : BOOLEAN, old : Works, version : Nat]
Screen ==
  [screen : {"tugas"}, view : {"pending", "panel", "error"}, sub : Submitted, files : BOOLEAN,
   composer : BOOLEAN, row : Submitted, target : Submitted, cut : {TRUE}]
Calls == [mine : MineCall, list : BOOLEAN, grade : Grading, submit : [Tabs -> Submitting]]
Service ==
  [sub : Submitted, over : BOOLEAN, allowed : BOOLEAN, required : BOOLEAN, cut : BOOLEAN,
   store : SUBSET Works, sent : Works]
History ==
  [events : Nat, acked : Nat, graded : Submitted, preview : {"none", "full", "cut"},
   readWork : Works, orphan : BOOLEAN]
TugasType == ui \in Screen /\ net \in Calls /\ srv \in Service /\ past \in History
TugasTypeOK == ui.screen = "tugas" => TugasType

\* A grade is given to the work the teacher had before him and stays with it: no
\* resubmit of any tab slips in between or replaces graded work.
GradedAsRead ==
  ui.screen = "tugas" /\ past.graded # NoSub =>
    /\ srv.sub = past.graded
    /\ srv.sub.work = past.readWork

\* Unless the penalty was changed under the page, the stored final score is the one
\* the dialog previewed, also when the work became late by a resubmit meanwhile.
PreviewIsStored ==
  ui.screen = "tugas" /\ past.graded # NoSub /\ srv.cut = ui.cut => srv.sub.score = past.preview

\* A grade fits its work: it stays with the work the teacher read, and its stored
\* score is the one he was shown (SubmissionGradeDialog.tsx, submission/query.go).
GradeFitsWork == GradedAsRead /\ PreviewIsStored

\* The files a submission names are in the object store, whichever of two tabs
\* commits, fails or cleans up first; no other file is left once the submits are
\* done, but for a restart between two steps.
SubmittedFilesExist ==
  ui.screen = "tugas" =>
    /\ FilesOf(srv.sub) \subseteq srv.store
    /\ ((\A t \in Tabs : net.submit[t].at \in {"idle", "sent", "ok", "no"}) /\ ~past.orphan)
         => srv.store = FilesOf(srv.sub)

\* What the panel confirmed it also shows once it has read again: the confirmed
\* version or a later one.
ConfirmedIsShown ==
  InTugas /\ ui.view = "panel" /\ net.mine.at = "idle" => ui.sub.version >= past.acked

-----------------------------------------------------------------------------
(* The inductive invariant of the proofs.                                  *)

\* A submit that has not committed, and one that has files to clean up.
Uncommitted(t) == net.submit[t].at \in {"lock", "create"}
Cleaning(t) == net.submit[t].at = "clean"

\* Works are counted as they are sent: no two submits have one, and none that is
\* still to be stored or cleaned up is the stored one.
WorkInv ==
  /\ srv.sub.work <= srv.sent /\ (srv.sub.files => srv.sub.work # 0)
  /\ \A t \in Tabs :
       LET s == net.submit[t] IN
       /\ s.work <= srv.sent /\ s.old <= srv.sent
       /\ s.at \in {"sent", "lock", "create"} =>
            /\ s.work \notin {0, srv.sub.work}
            /\ \A u \in Tabs \ {t} :
                 /\ net.submit[u].at \in {"sent", "lock", "create"} => net.submit[u].work # s.work
                 /\ Cleaning(u) => net.submit[u].old # s.work
       /\ Cleaning(t) /\ s.old # 0 =>
            /\ s.old # srv.sub.work
            /\ \A u \in Tabs \ {t} : Cleaning(u) => net.submit[u].old # s.old

\* The store has the files of the stored submission and of every submit that may
\* still commit, and without a restart only those and the ones being cleaned up.
StoreInv ==
  /\ FilesOf(srv.sub) \subseteq srv.store
  /\ \A t \in Tabs : Uncommitted(t) => FilesOf(net.submit[t]) \subseteq srv.store
  /\ ~past.orphan => \A x \in srv.store :
       \/ x \in FilesOf(srv.sub)
       \/ \E t \in Tabs : Uncommitted(t) /\ x \in FilesOf(net.submit[t])
       \/ \E t \in Tabs : Cleaning(t) /\ x = net.submit[t].old

\* Of the rows the teacher has before him none is ahead of the dialog's, the list's
\* and the stored one, in this order; one of the stored version is the stored one.
Follows(row) ==
  /\ row.version <= srv.sub.version
  /\ row.version = srv.sub.version => row = srv.sub
  /\ row.version = 0 => row = NoSub
RowInv ==
  /\ Follows(ui.row) /\ Follows(ui.target)
  /\ (srv.sub.version = 0) = (srv.sub = NoSub)
  /\ ui.target # NoSub => ui.target.version <= ui.row.version

\* A grade on its way was made from a row no newer than those of the list and of
\* the dialog, and if that row is still the stored one it is the row that was read.
GradeInv ==
  net.grade.at = "sent" =>
    /\ net.grade.version # 0 /\ net.grade.version <= ui.row.version
    /\ ui.target # NoSub => net.grade.version <= ui.target.version
    /\ net.grade.version = srv.sub.version =>
         /\ past.readWork = srv.sub.work
         /\ net.grade.preview = Score(srv.sub.late, ui.cut)

\* Once there is a grade the teacher has the graded work before him, graded or as
\* it was before.
Ungraded(sub) == [sub EXCEPT !.score = "none", !.version = @ - 1]
GradedInv ==
  past.graded # NoSub =>
    /\ Graded(srv.sub) /\ srv.sub.version > 1
    /\ {ui.row, ui.target} \subseteq {NoSub, srv.sub, Ungraded(srv.sub)}
    /\ ui.row # NoSub

TugasInv ==
  /\ TugasType /\ WorkInv /\ StoreInv /\ RowInv /\ GradeInv /\ GradedInv
  /\ (Graded(srv.sub) => past.graded = srv.sub) /\ GradeFitsWork
=============================================================================
