------------------------ MODULE Submissions_proofs ------------------------
(***************************************************************************)
(* Proofs about Submissions: the assignment between the two tabs of a      *)
(* student, the service and the teacher, for every number of submits and   *)
(* of bounded events.  Every step is of one of a few kinds (Effect), told  *)
(* by what it does to the submits, to the objects and to the rows the      *)
(* teacher sees; the parts of TugasInv are proved from the kinds.          *)
(***************************************************************************)
EXTENDS Submissions, TLAPS

\* The marks for nothing handed in, read, graded or submitted.
LEMMA Nothing ==
    /\ NoSub \in Submitted /\ NoReading \in MineCall /\ NoGrade \in Grading
    /\ NoSubmit \in Submitting /\ 0 \in Works
    /\ [at |-> "sent", sub |-> NoSub] \in MineCall
BY SubmitAssumption DEF NoSub, Submitted, NoReading, MineCall, NoGrade, Grading, NoSubmit,
   Submitting, Works

\* The parts of the four records.
LEMMA Parts ==
    ASSUME TugasType
    PROVE  /\ {ui.sub, ui.row, ui.target, srv.sub, net.mine.sub, past.graded} \subseteq Submitted
           /\ net.mine \in MineCall /\ net.grade \in Grading
           /\ \A t \in Tabs : net.submit[t] \in Submitting
BY DEF TugasType, Screen, Calls, Service, History, MineCall

\* A call of one tab is replaced.
LEMMA SubmitReplaced ==
    ASSUME net \in Calls, NEW t \in Tabs, NEW s \in Submitting,
           net' = [net EXCEPT !.submit[t] = s]
    PROVE  /\ net' \in Calls
           /\ net'.submit[t] = s
           /\ \A u \in Tabs \ {t} : net'.submit[u] = net.submit[u]
           /\ net'.mine = net.mine /\ net'.list = net.list /\ net'.grade = net.grade
BY DEF Calls

LEMMA ScreenNext ==
    ASSUME TugasType, [NextTugas]_browser
    PROVE  ui' \in Screen
<1>0. ui \in Screen /\ srv.sub \in Submitted /\ net.mine.sub \in Submitted
  BY Parts DEF TugasType
<1> USE <1>0, Nothing DEF Screen
<1>1. ASSUME MineArrives \/ MineFails PROVE ui' \in Screen
  BY <1>1 DEF MineArrives, MineFails
<1>2. ASSUME OpenComposer \/ CloseComposer \/ PickWork PROVE ui' \in Screen
  BY <1>2 DEF OpenComposer, CloseComposer, PickWork
<1>3. ASSUME SubmitAnswered PROVE ui' \in Screen
  BY <1>3 DEF SubmitAnswered
<1>4. ASSUME ListArrives \/ OpenGrade \/ CloseGrade \/ GradeAnswered PROVE ui' \in Screen
  BY <1>4 DEF ListArrives, OpenGrade, CloseGrade, GradeAnswered
<1>5. ASSUME \/ ReadMine \/ ServeMine \/ LoseSubmit \/ TabAnswered \/ Restart \/ DeadlinePasses
             \/ SubmitWork \/ OtherTabSubmits \/ ReadList \/ UNCHANGED browser
             \/ SendGrade \/ ServeGrade \/ LoseGrade \/ PenaltyEdited
      PROVE  ui' \in Screen
  <2>1. ui' = ui
    BY <1>5 DEF ReadMine, ServeMine, LoseSubmit, TabAnswered, Restart, DeadlinePasses,
       SubmitWork, OtherTabSubmits, ReadList, SendGrade, ServeGrade, LoseGrade,
       PenaltyEdited, browser
  <2> QED BY <2>1
<1>6. ASSUME NEW t \in Tabs, CheckSubmit(t) \/ LockRow(t) \/ CreateRow(t) \/ CleanFiles(t)
      PROVE  ui' \in Screen
  BY <1>6 DEF CheckSubmit, LockRow, CreateRow, CleanFiles
<1> QED BY <1>1, <1>2, <1>3, <1>4, <1>5, <1>6 DEF NextTugas

-----------------------------------------------------------------------------
(* The kinds of steps                                                      *)

\* What a step leaves alone: the teacher's row, dialog and call, or the submits and
\* the objects.
TeacherRests ==
  /\ ui'.row = ui.row /\ ui'.target = ui.target /\ net'.grade = net.grade
  /\ past'.graded = past.graded /\ past'.preview = past.preview
  /\ past'.readWork = past.readWork /\ (srv'.cut => srv.cut)
SubmitsRest ==
  /\ net'.submit = net.submit /\ srv'.store = srv.store /\ srv'.sent = srv.sent
  /\ past'.orphan = past.orphan

\* The call of one tab goes on, the others stay where they are.
Goes(t, from, to) ==
  /\ net.submit[t].at = from /\ net'.submit[t].at = to
  /\ \A u \in Tabs \ {t} : net'.submit[u] = net.submit[u]
Carries(t) ==
  /\ net'.submit[t].work = net.submit[t].work /\ net'.submit[t].files = net.submit[t].files
  /\ net'.submit[t].old = net.submit[t].old

\* Answers and losses, a submit sent, refused or let through, the row that is not
\* there yet, the transaction rolled back or committed, the clean-up, a restart.
Settles ==
  /\ TeacherRests /\ srv'.sub = srv.sub /\ srv'.store = srv.store
  /\ srv'.sent = srv.sent /\ past'.orphan = past.orphan
  /\ \A t \in Tabs : \/ net'.submit[t] = net.submit[t]
                     \/ net.submit[t].at \in {"ok", "no"} /\ net'.submit[t] = NoSubmit
Sends(t) ==
  /\ TeacherRests /\ srv'.sub = srv.sub /\ srv'.store = srv.store
  /\ past'.orphan = past.orphan
  /\ Goes(t, "idle", "sent") /\ srv'.sent = srv.sent + 1
  /\ net'.submit[t].work = srv'.sent /\ net'.submit[t].old = 0
Refuses(t) ==
  /\ TeacherRests /\ srv' = srv /\ past' = past /\ Goes(t, "sent", "no") /\ Carries(t)
Uploads(t) ==
  /\ TeacherRests /\ srv'.sub = srv.sub /\ srv'.sent = srv.sent /\ past' = past
  /\ srv'.store = srv.store \union FilesOf(net.submit[t])
  /\ Goes(t, "sent", "lock") /\ Carries(t)
FindsNone(t) ==
  /\ TeacherRests /\ srv' = srv /\ past' = past /\ Goes(t, "lock", "create") /\ Carries(t)
RollsBack(t) ==
  /\ TeacherRests /\ srv'.sub = srv.sub /\ srv'.sent = srv.sent /\ past' = past
  /\ srv'.store = srv.store \ FilesOf(net.submit[t])
  /\ Uncommitted(t) /\ Goes(t, net.submit[t].at, "no") /\ Carries(t)
Commits(t) ==
  /\ TeacherRests /\ srv'.store = srv.store /\ srv'.sent = srv.sent /\ past' = past
  /\ ~Graded(srv.sub) /\ Uncommitted(t) /\ Goes(t, net.submit[t].at, "clean")
  /\ net'.submit[t].work = net.submit[t].work
  /\ net'.submit[t].old = IF srv.sub # NoSub /\ srv.sub.files THEN srv.sub.work ELSE 0
  /\ srv'.sub.version = srv.sub.version + 1 /\ srv'.sub.work = net.submit[t].work
  /\ srv'.sub.files = net.submit[t].files /\ srv'.sub.score = "none"
CleansUp(t) ==
  /\ TeacherRests /\ srv'.sub = srv.sub /\ srv'.sent = srv.sent /\ past' = past
  /\ srv'.store = srv.store \ {net.submit[t].old}
  /\ Goes(t, "clean", "ok") /\ Carries(t)
Restarts ==
  /\ TeacherRests /\ srv' = srv /\ past'.orphan
  /\ \A t \in Tabs : \/ net'.submit[t] = net.submit[t] /\ ~Uncommitted(t) /\ ~Cleaning(t)
                     \/ net'.submit[t] = NoSubmit

\* The list is read, the dialog opened or closed, a grade given up, sent, refused or
\* stored.
Lists ==
  /\ SubmitsRest /\ srv' = srv /\ past' = past
  /\ ui'.row = srv.sub /\ ui'.target = ui.target /\ net'.grade = net.grade
Opens ==
  /\ SubmitsRest /\ srv' = srv /\ past' = past /\ ui'.row = ui.row
  /\ ui.target = NoSub /\ ui'.target = ui.row /\ net'.grade = net.grade
Closes ==
  /\ SubmitsRest /\ srv'.sub = srv.sub /\ srv'.cut = srv.cut /\ ui'.row = ui.row
  /\ past'.graded = past.graded /\ past'.preview = past.preview
  /\ past'.readWork = past.readWork
  /\ ui'.target \in {ui.target, NoSub} /\ (net'.grade = net.grade \/ net'.grade.at = "idle")
GradeSent ==
  /\ SubmitsRest /\ srv' = srv /\ ui' = ui
  /\ past'.graded = past.graded /\ past'.preview = past.preview
  /\ past'.readWork = ui.target.work
  /\ ui.target # NoSub /\ ~Graded(ui.target)
  /\ net'.grade.at = "sent" /\ net'.grade.version = ui.target.version
  /\ net'.grade.preview = Score(ui.target.late, ui.cut)
GradeRefused ==
  /\ SubmitsRest /\ srv' = srv /\ past' = past /\ ui' = ui /\ net'.grade.at = "no"
GradeStored ==
  /\ SubmitsRest /\ srv'.cut = srv.cut /\ ui' = ui
  /\ net.grade.at = "sent" /\ ~Graded(srv.sub) /\ net.grade.version = srv.sub.version
  /\ srv'.sub = [srv.sub EXCEPT !.score = Score(srv.sub.late, srv.cut), !.version = @ + 1]
  /\ past'.graded = srv'.sub /\ past'.preview = net.grade.preview
  /\ past'.readWork = past.readWork /\ net'.grade.at = "ok"

Effect ==
  \/ Settles \/ Restarts \/ Lists \/ Opens \/ Closes \/ GradeSent \/ GradeRefused \/ GradeStored
  \/ \E t \in Tabs : \/ Sends(t) \/ Refuses(t) \/ Uploads(t) \/ FindsNone(t) \/ RollsBack(t)
                     \/ Commits(t) \/ CleansUp(t)

-----------------------------------------------------------------------------
(* Every step is of one kind, and typed                                    *)

LEMMA CheckEffect ==
    ASSUME TugasType, NEW t \in Tabs, CheckSubmit(t)
    PROVE  net' \in Calls /\ srv' \in Service /\ (Refuses(t) \/ Uploads(t))
<1> DEFINE s == net.submit[t]
           refused == [s EXCEPT !.at = "no"]
           passed == [s EXCEPT !.at = "lock", !.late = srv.over]
<1>0. /\ s.at = "sent" /\ s \in Submitting /\ srv.over \in BOOLEAN /\ net \in Calls
      /\ srv \in Service /\ UNCHANGED <<ui, past>>
  BY Parts DEF CheckSubmit, TugasType, Service
<1>1. /\ refused \in Submitting /\ passed \in Submitting
      /\ refused.at = "no" /\ passed.at = "lock"
      /\ refused.work = s.work /\ passed.work = s.work
      /\ refused.files = s.files /\ passed.files = s.files
      /\ refused.old = s.old /\ passed.old = s.old
  BY <1>0 DEF Submitting
<1>2. \/ net' = [net EXCEPT !.submit[t] = refused] /\ srv' = srv
      \/ /\ net' = [net EXCEPT !.submit[t] = passed]
         /\ srv' = [srv EXCEPT !.store = @ \union FilesOf(s)]
         /\ FilesOf(s) \subseteq Works
  <2>1. FilesOf(s) \subseteq Works
    BY <1>0 DEF FilesOf, Submitting
  <2>2. \/ net' = [net EXCEPT !.submit[t].at = "no"] /\ srv' = srv
        \/ /\ net' = [net EXCEPT !.submit[t].at = "lock", !.submit[t].late = srv.over]
           /\ srv' = [srv EXCEPT !.store = @ \union FilesOf(s)]
    BY DEF CheckSubmit
  <2>3. /\ [net EXCEPT !.submit[t].at = "no"] = [net EXCEPT !.submit[t] = refused]
        /\ [net EXCEPT !.submit[t].at = "lock", !.submit[t].late = srv.over]
             = [net EXCEPT !.submit[t] = passed]
    BY <1>0 DEF Calls
  <2> HIDE DEF refused, passed
  <2> QED BY <2>1, <2>2, <2>3
<1> HIDE DEF refused, passed
<1>3. CASE net' = [net EXCEPT !.submit[t] = refused] /\ srv' = srv
  BY <1>0, <1>1, <1>3, SubmitReplaced DEF Refuses, TeacherRests, Goes, Carries
<1>4. CASE /\ net' = [net EXCEPT !.submit[t] = passed]
           /\ srv' = [srv EXCEPT !.store = @ \union FilesOf(s)]
           /\ FilesOf(s) \subseteq Works
  <2>1. /\ srv' \in Service /\ srv'.sub = srv.sub /\ srv'.sent = srv.sent
        /\ srv'.store = srv.store \union FilesOf(s)
    BY <1>0, <1>4 DEF Service
  <2> QED BY <1>0, <1>1, <1>4, <2>1, SubmitReplaced DEF Uploads, TeacherRests, Goes, Carries
<1> QED BY <1>2, <1>3, <1>4

LEMMA RollBackEffect ==
    ASSUME TugasType, NEW t \in Tabs, Uncommitted(t), RollBack(t), UNCHANGED <<ui, past>>
    PROVE  net' \in Calls /\ srv' \in Service /\ RollsBack(t)
<1> DEFINE s == net.submit[t]
           refused == [s EXCEPT !.at = "no"]
<1>0. s \in Submitting /\ net \in Calls /\ srv \in Service
  BY Parts DEF TugasType
<1>1. /\ refused \in Submitting /\ refused.at = "no"
      /\ refused.work = s.work /\ refused.files = s.files /\ refused.old = s.old
  BY <1>0 DEF Submitting
<1>2. /\ net' = [net EXCEPT !.submit[t] = refused]
      /\ srv' = [srv EXCEPT !.store = @ \ FilesOf(s)]
  BY <1>0 DEF RollBack, Calls
<1> HIDE DEF refused
<1>3. /\ srv' \in Service /\ srv'.sub = srv.sub /\ srv'.sent = srv.sent
      /\ srv'.store = srv.store \ FilesOf(s) /\ srv'.cut = srv.cut
  BY <1>0, <1>2 DEF Service
<1> QED BY <1>0, <1>1, <1>2, <1>3, SubmitReplaced DEF RollsBack, TeacherRests, Goes, Carries

LEMMA CommitEffect ==
    ASSUME TugasType, NEW t \in Tabs, NEW v \in Nat, NEW old \in Works, Uncommitted(t),
           ~Graded(srv.sub), Store(t, v, old), UNCHANGED <<ui, past>>,
           v = srv.sub.version + 1,
           old = IF srv.sub # NoSub /\ srv.sub.files THEN srv.sub.work ELSE 0
    PROVE  net' \in Calls /\ srv' \in Service /\ Commits(t)
<1> DEFINE s == net.submit[t]
           done == [s EXCEPT !.at = "clean", !.old = old, !.version = v]
           sub == [version |-> v, work |-> s.work, files |-> s.files, late |-> s.late,
                   score |-> "none"]
<1>0. s \in Submitting /\ net \in Calls /\ srv \in Service
  BY Parts DEF TugasType
<1>1. /\ done \in Submitting /\ done.at = "clean" /\ done.work = s.work /\ done.old = old
  BY <1>0 DEF Submitting
<1>2. sub \in Submitted
  BY <1>0 DEF Submitting, Submitted
<1>3. /\ net' = [net EXCEPT !.submit[t] = done]
      /\ srv' = [srv EXCEPT !.sub = sub]
  BY <1>0 DEF Store, Calls
<1> HIDE DEF done
<1>4. /\ srv' \in Service /\ srv'.sub = sub /\ srv'.sent = srv.sent
      /\ srv'.store = srv.store /\ srv'.cut = srv.cut
  BY <1>0, <1>2, <1>3 DEF Service
<1> QED BY <1>0, <1>1, <1>3, <1>4, SubmitReplaced DEF Commits, TeacherRests, Goes

LEMMA LockEffect ==
    ASSUME TugasType, NEW t \in Tabs, LockRow(t)
    PROVE  net' \in Calls /\ srv' \in Service /\ (FindsNone(t) \/ RollsBack(t) \/ Commits(t))
<1> DEFINE s == net.submit[t]
           none == [s EXCEPT !.at = "create"]
<1>0. /\ s \in Submitting /\ net \in Calls /\ srv \in Service /\ srv.sub \in Submitted
      /\ s.at = "lock" /\ UNCHANGED <<ui, past>>
  BY Parts DEF TugasType, LockRow
<1>1. CASE net' = [net EXCEPT !.submit[t].at = "create"] /\ UNCHANGED srv
  <2>1. /\ none \in Submitting /\ none.at = "create"
        /\ none.work = s.work /\ none.files = s.files /\ none.old = s.old
    BY <1>0 DEF Submitting
  <2>2. net' = [net EXCEPT !.submit[t] = none]
    BY <1>0, <1>1 DEF Calls
  <2> HIDE DEF none
  <2> QED BY <1>0, <1>1, <2>1, <2>2, SubmitReplaced DEF FindsNone, TeacherRests, Goes, Carries
<1>2. CASE RollBack(t)
  BY <1>0, <1>2, RollBackEffect DEF Uncommitted
<1>3. CASE /\ srv.sub # NoSub /\ Replaceable
           /\ Store(t, srv.sub.version + 1, IF srv.sub.files THEN srv.sub.work ELSE 0)
  <2>1. srv.sub.version + 1 \in Nat /\ (IF srv.sub.files THEN srv.sub.work ELSE 0) \in Works
    BY <1>0, Nothing DEF Submitted
  <2> QED BY <1>0, <1>3, <2>1, CommitEffect DEF Uncommitted, Replaceable
<1> QED BY <1>1, <1>2, <1>3 DEF LockRow

LEMMA CreateEffect ==
    ASSUME TugasType, NEW t \in Tabs, CreateRow(t)
    PROVE  net' \in Calls /\ srv' \in Service /\ (RollsBack(t) \/ Commits(t))
<1>0. net.submit[t].at = "create" /\ UNCHANGED <<ui, past>>
  BY DEF CreateRow
<1>1. CASE RollBack(t)
  BY <1>0, <1>1, RollBackEffect DEF Uncommitted
<1>2. CASE srv.sub = NoSub /\ Store(t, 1, 0)
  BY <1>0, <1>2, Nothing, CommitEffect DEF Uncommitted, NoSub, Graded
<1> QED BY <1>1, <1>2 DEF CreateRow

LEMMA CleanEffect ==
    ASSUME TugasType, NEW t \in Tabs, CleanFiles(t)
    PROVE  net' \in Calls /\ srv' \in Service /\ CleansUp(t)
<1> DEFINE s == net.submit[t]
           done == [s EXCEPT !.at = "ok"]
<1>0. /\ s \in Submitting /\ net \in Calls /\ srv \in Service
      /\ s.at = "clean" /\ UNCHANGED <<ui, past>>
  BY Parts DEF TugasType, CleanFiles
<1>1. /\ done \in Submitting /\ done.at = "ok"
      /\ done.work = s.work /\ done.files = s.files /\ done.old = s.old
  BY <1>0 DEF Submitting
<1>2. /\ net' = [net EXCEPT !.submit[t] = done]
      /\ srv' = [srv EXCEPT !.store = @ \ {s.old}]
  BY <1>0 DEF CleanFiles, Calls
<1> HIDE DEF done
<1>3. /\ srv' \in Service /\ srv'.sub = srv.sub /\ srv'.sent = srv.sent
      /\ srv'.store = srv.store \ {s.old} /\ srv'.cut = srv.cut
  BY <1>0, <1>2 DEF Service
<1> QED BY <1>0, <1>1, <1>2, <1>3, SubmitReplaced DEF CleansUp, TeacherRests, Goes, Carries

LEMMA SentEffect ==
    ASSUME TugasType, NEW t \in Tabs, NEW files \in BOOLEAN, Sent(t, files),
           net.submit[t].at = "idle", ui' = ui, past'.graded = past.graded,
           past'.preview = past.preview, past'.readWork = past.readWork,
           past'.orphan = past.orphan
    PROVE  net' \in Calls /\ srv' \in Service /\ Sends(t)
<1> DEFINE s == [NoSubmit EXCEPT !.at = "sent", !.work = srv'.sent, !.files = files]
<1>0. net \in Calls /\ srv \in Service /\ srv.sent < MaxSubmit
  BY DEF Sent, TugasType
<1>2. /\ srv' \in Service /\ srv'.sent = srv.sent + 1 /\ srv'.sub = srv.sub
      /\ srv'.store = srv.store /\ srv'.cut = srv.cut
  BY <1>0, SubmitAssumption DEF Sent, Service, Works
<1>3. srv'.sent \in Works /\ net' = [net EXCEPT !.submit[t] = s]
  BY <1>2 DEF Sent, Service
<1>4. s \in Submitting /\ s.at = "sent" /\ s.work = srv'.sent /\ s.old = 0
  BY <1>3, Nothing DEF NoSubmit, Submitting
<1> HIDE DEF s
<1> QED BY <1>0, <1>2, <1>3, <1>4, SubmitReplaced DEF Sends, TeacherRests, Goes

LEMMA SendEffect ==
    ASSUME TugasType, SubmitWork \/ OtherTabSubmits
    PROVE  net' \in Calls /\ srv' \in Service /\ past' \in History /\ \E t \in Tabs : Sends(t)
<1>0. past \in History /\ ui.files \in BOOLEAN
  BY DEF TugasType, Screen
<1>1. CASE SubmitWork
  <2>1. /\ "panel" \in Tabs /\ Sent("panel", ui.files) /\ net.submit["panel"].at = "idle"
        /\ ui' = ui /\ past' = past
    BY <1>1 DEF SubmitWork, Composer, ComposerShown, Tabs
  <2> QED BY <1>0, <2>1, SentEffect
<1>2. CASE OtherTabSubmits
  <2>1. PICK files \in BOOLEAN : Sent("tab", files)
    BY <1>2 DEF OtherTabSubmits
  <2>2. "tab" \in Tabs /\ net.submit["tab"].at = "idle" /\ ui' = ui
    BY <1>2 DEF OtherTabSubmits, Tabs
  <2>3. /\ past' \in History /\ past'.graded = past.graded /\ past'.preview = past.preview
        /\ past'.readWork = past.readWork /\ past'.orphan = past.orphan
    BY <1>0, <1>2 DEF OtherTabSubmits, History
  <2> QED BY <2>1, <2>2, <2>3, SentEffect
<1> QED BY <1>1, <1>2

\* A bounded event changes nothing but the count.
LEMMA Spent ==
    ASSUME past \in History, Spend
    PROVE  /\ past' \in History /\ past'.graded = past.graded /\ past'.preview = past.preview
           /\ past'.readWork = past.readWork /\ past'.orphan = past.orphan
BY DEF Spend, History

\* The student's reads and answers and the clock.
LEMMA PanelEffect ==
    ASSUME TugasType,
           \/ ReadMine \/ ServeMine \/ MineArrives \/ MineFails
           \/ OpenComposer \/ CloseComposer \/ PickWork
           \/ DeadlinePasses \/ ReadList \/ PenaltyEdited
    PROVE  net' \in Calls /\ srv' \in Service /\ past' \in History /\ Settles
<1> DEFINE Typed == net' \in Calls /\ srv' \in Service /\ past' \in History /\ Settles
<1>0. /\ net \in Calls /\ srv \in Service /\ past \in History /\ ui \in Screen
      /\ srv.sub \in Submitted
  BY Parts DEF TugasType
<1> USE DEF Settles, TeacherRests
<1>1. CASE ReadMine
  <2>1. /\ net' \in Calls /\ net'.submit = net.submit /\ net'.grade = net.grade
    BY <1>0, <1>1, Nothing DEF ReadMine, Calls
  <2> QED BY <1>0, <1>1, <2>1 DEF ReadMine
<1>2. CASE ServeMine
  <2>1. [at |-> "ok", sub |-> srv.sub] \in MineCall
    BY <1>0 DEF MineCall
  <2>2. /\ net' \in Calls /\ net'.submit = net.submit /\ net'.grade = net.grade
    BY <1>0, <1>2, <2>1 DEF ServeMine, Calls
  <2> QED BY <1>0, <1>2, <2>2 DEF ServeMine
<1>3. CASE MineArrives
  <2>1. /\ net' \in Calls /\ net'.submit = net.submit /\ net'.grade = net.grade
    BY <1>0, <1>3, Nothing DEF MineArrives, Calls
  <2>2. ui'.row = ui.row /\ ui'.target = ui.target
    BY <1>0, <1>3 DEF MineArrives, Screen
  <2> QED BY <1>0, <1>3, <2>1, <2>2 DEF MineArrives
<1>4. CASE MineFails
  <2>1. /\ net' \in Calls /\ net'.submit = net.submit /\ net'.grade = net.grade
    BY <1>0, <1>4, Nothing DEF MineFails, Calls
  <2>2. ui'.row = ui.row /\ ui'.target = ui.target
    BY <1>0, <1>4 DEF MineFails, Screen
  <2> QED BY <1>0, <1>4, <2>1, <2>2, Spent DEF MineFails
<1>5. CASE OpenComposer
  BY <1>0, <1>5 DEF OpenComposer, Screen
<1>6. CASE CloseComposer
  BY <1>0, <1>6 DEF CloseComposer, Screen
<1>7. CASE PickWork
  BY <1>0, <1>7 DEF PickWork, Screen
<1>8. CASE DeadlinePasses
  <2>1. /\ srv' \in Service /\ srv'.sub = srv.sub /\ srv'.store = srv.store
        /\ srv'.sent = srv.sent /\ srv'.cut = srv.cut
    BY <1>0, <1>8 DEF DeadlinePasses, Service
  <2> QED BY <1>0, <1>8, <2>1 DEF DeadlinePasses
<1>9. CASE ReadList
  <2>1. /\ net' \in Calls /\ net'.submit = net.submit /\ net'.grade = net.grade
    BY <1>0, <1>9 DEF ReadList, Calls
  <2> QED BY <1>0, <1>9, <2>1 DEF ReadList
<1>10. CASE PenaltyEdited
  <2>1. /\ srv' \in Service /\ srv'.sub = srv.sub /\ srv'.store = srv.store
        /\ srv'.sent = srv.sent /\ ~srv'.cut
    BY <1>0, <1>10 DEF PenaltyEdited, Service
  <2> QED BY <1>0, <1>10, <2>1, Spent DEF PenaltyEdited
<1> QED BY <1>1, <1>2, <1>3, <1>4, <1>5, <1>6, <1>7, <1>8, <1>9, <1>10

LEMMA AnswerEffect ==
    ASSUME TugasType, SubmitAnswered \/ LoseSubmit \/ TabAnswered
    PROVE  net' \in Calls /\ srv' \in Service /\ past' \in History /\ Settles
<1>0. /\ net \in Calls /\ srv \in Service /\ past \in History /\ ui \in Screen
      /\ "panel" \in Tabs /\ "tab" \in Tabs /\ NoSubmit \in Submitting
      /\ \A t \in Tabs : net.submit[t] \in Submitting
  BY Parts, Nothing DEF TugasType, Tabs
<1> DEFINE Ended(t) == net.submit[t].at \in {"ok", "no"}
                         /\ net' = [net EXCEPT !.submit[t] = NoSubmit]
<1>1. ASSUME NEW t \in Tabs, Ended(t)
      PROVE  /\ net' \in Calls /\ net'.grade = net.grade
             /\ \A u \in Tabs : \/ net'.submit[u] = net.submit[u]
                                \/ net.submit[u].at \in {"ok", "no"} /\ net'.submit[u] = NoSubmit
  <2>1. /\ net' \in Calls /\ net'.grade = net.grade /\ net'.submit[t] = NoSubmit
        /\ \A u \in Tabs \ {t} : net'.submit[u] = net.submit[u]
    <3>1. net' = [net EXCEPT !.submit[t] = NoSubmit]
      BY <1>1
    <3> QED BY <1>0, <3>1, SubmitReplaced
  <2>2. net.submit[t].at \in {"ok", "no"}
    BY <1>1
  <2> HIDE DEF Ended
  <2>3. ASSUME NEW u \in Tabs
        PROVE  \/ net'.submit[u] = net.submit[u]
               \/ net.submit[u].at \in {"ok", "no"} /\ net'.submit[u] = NoSubmit
    BY <2>1, <2>2
  <2> QED BY <2>1, <2>3
<1>2. CASE SubmitAnswered /\ net.submit["panel"].at = "ok"
  <2>1. /\ past' \in History /\ past'.graded = past.graded /\ past'.preview = past.preview
        /\ past'.readWork = past.readWork /\ past'.orphan = past.orphan
    BY <1>0, <1>2 DEF SubmitAnswered, History, Submitting
  <2>2. ui'.row = ui.row /\ ui'.target = ui.target /\ srv' = srv
    BY <1>0, <1>2 DEF SubmitAnswered, Screen
  <2>3. /\ net' \in Calls /\ net'.grade = net.grade /\ net'.submit["panel"] = NoSubmit
        /\ \A u \in Tabs \ {"panel"} : net'.submit[u] = net.submit[u]
    <3>1. MineInvalidated \in MineCall
      BY Nothing DEF MineInvalidated
    <3>2. net' = [net EXCEPT !.submit["panel"] = NoSubmit, !.mine = MineInvalidated]
      BY <1>2 DEF SubmitAnswered
    <3> QED BY <1>0, <3>1, <3>2 DEF Calls
  <2> QED BY <1>0, <1>2, <2>1, <2>2, <2>3 DEF Settles, TeacherRests
<1>3. CASE SubmitAnswered /\ net.submit["panel"].at # "ok"
  <2>1. Ended("panel") /\ UNCHANGED <<ui, srv, past>>
    BY <1>3 DEF SubmitAnswered
  <2> QED BY <1>0, <1>1, <2>1 DEF Settles, TeacherRests
<1>4. CASE LoseSubmit
  <2>1. Ended("panel") /\ UNCHANGED <<ui, srv>> /\ Spend
    BY <1>4 DEF LoseSubmit
  <2> QED BY <1>0, <1>1, <2>1, Spent DEF Settles, TeacherRests
<1>5. CASE TabAnswered
  <2>1. Ended("tab") /\ UNCHANGED <<ui, srv, past>>
    BY <1>5 DEF TabAnswered
  <2> QED BY <1>0, <1>1, <2>1 DEF Settles, TeacherRests
<1> QED BY <1>2, <1>3, <1>4, <1>5

LEMMA RestartEffect ==
    ASSUME TugasType, Restart
    PROVE  net' \in Calls /\ srv' \in Service /\ past' \in History /\ Restarts
<1> DEFINE left == [t \in Tabs |-> IF net.submit[t].at \in {"lock", "create", "clean"}
                                  THEN NoSubmit ELSE net.submit[t]]
<1>0. /\ net \in Calls /\ srv \in Service /\ past \in History
      /\ UNCHANGED <<ui, srv>> /\ net' = [net EXCEPT !.submit = left]
  BY DEF TugasType, Restart
<1>1. left \in [Tabs -> Submitting]
  BY Parts, Nothing
<1>2. \A t \in Tabs : \/ left[t] = net.submit[t] /\ ~Uncommitted(t) /\ ~Cleaning(t)
                      \/ left[t] = NoSubmit
  BY DEF Uncommitted, Cleaning
<1> HIDE DEF left
<1>3. /\ net' \in Calls /\ net'.submit = left /\ net'.grade = net.grade
  BY <1>0, <1>1 DEF Calls
<1>4. /\ past' \in History /\ past'.graded = past.graded /\ past'.preview = past.preview
      /\ past'.readWork = past.readWork /\ past'.orphan
  <2>1. past' = [past EXCEPT !.events = @ + 1, !.orphan = TRUE]
    BY DEF Restart
  <2>2. past' \in History
    <3> DEFINE counted == [past EXCEPT !.events = @ + 1]
    <3>1. counted \in History /\ past' = [counted EXCEPT !.orphan = TRUE]
      BY <1>0, <2>1 DEF History
    <3> HIDE DEF counted
    <3> QED BY <3>1 DEF History
  <2>3. past'.orphan = TRUE
    BY <1>0, <2>1 DEF History
  <2> QED BY <1>0, <2>1, <2>2, <2>3 DEF History
<1> QED BY <1>0, <1>2, <1>3, <1>4 DEF Restarts, TeacherRests

\* The teacher's list, dialog and grade.
LEMMA TeacherEffect ==
    ASSUME TugasType, ListArrives \/ OpenGrade \/ CloseGrade \/ GradeAnswered \/ LoseGrade
    PROVE  net' \in Calls /\ srv' \in Service /\ past' \in History /\ (Lists \/ Opens \/ Closes)
<1>0. /\ net \in Calls /\ srv \in Service /\ past \in History /\ ui \in Screen
  BY DEF TugasType
<1> USE DEF SubmitsRest
<1>1. CASE ListArrives
  <2>1. net' \in Calls /\ net'.submit = net.submit /\ net'.grade = net.grade
    BY <1>0, <1>1 DEF ListArrives, Calls
  <2>2. ui'.row = srv.sub /\ ui'.target = ui.target
    BY <1>0, <1>1 DEF ListArrives, Screen
  <2> QED BY <1>0, <1>1, <2>1, <2>2 DEF ListArrives, Lists
<1>2. CASE OpenGrade
  <2>1. ui'.row = ui.row /\ ui'.target = ui.row /\ ui.target = NoSub
    BY <1>0, <1>2 DEF OpenGrade, ReviewRow, GradeDialog, Screen
  <2> QED BY <1>0, <1>2, <2>1 DEF OpenGrade, Opens
<1>3. CASE CloseGrade
  <2>1. ui'.row = ui.row /\ ui'.target = NoSub
    BY <1>0, <1>3 DEF CloseGrade, Screen
  <2> QED BY <1>0, <1>3, <2>1 DEF CloseGrade, Closes
<1>4. CASE GradeAnswered
  <2>1. net' \in Calls /\ net'.submit = net.submit /\ net'.grade.at = "idle"
    <3>1. \/ net' = [net EXCEPT !.grade = NoGrade, !.list = TRUE]
          \/ net' = [net EXCEPT !.grade = NoGrade]
      BY <1>4 DEF GradeAnswered
    <3>2. NoGrade \in Grading /\ NoGrade.at = "idle"
      BY Nothing DEF NoGrade
    <3> QED BY <1>0, <3>1, <3>2 DEF Calls
  <2>2. ui'.row = ui.row /\ ui'.target \in {ui.target, NoSub}
    BY <1>0, <1>4 DEF GradeAnswered, Screen
  <2> QED BY <1>0, <1>4, <2>1, <2>2 DEF GradeAnswered, Closes
<1>5. CASE LoseGrade
  <2>1. net' \in Calls /\ net'.submit = net.submit /\ net'.grade.at = "idle"
    BY <1>0, <1>5, Nothing DEF LoseGrade, Calls, NoGrade
  <2> QED BY <1>0, <1>5, <2>1, Spent DEF LoseGrade, Closes
<1> QED BY <1>1, <1>2, <1>3, <1>4, <1>5

LEMMA GradeEffect ==
    ASSUME TugasType, SendGrade \/ ServeGrade
    PROVE  /\ net' \in Calls /\ srv' \in Service /\ past' \in History
           /\ GradeSent \/ GradeRefused \/ GradeStored
<1>0. /\ net \in Calls /\ srv \in Service /\ past \in History /\ ui \in Screen
      /\ net.grade \in Grading /\ srv.sub \in Submitted /\ ui.target \in Submitted
      /\ srv.cut \in BOOLEAN
  BY Parts DEF TugasType, Service
<1> USE DEF SubmitsRest
<1>1. CASE SendGrade
  <2> DEFINE g == [at |-> "sent", version |-> ui.target.version, preview |-> Preview]
  <2>1. /\ g \in Grading /\ g.at = "sent" /\ g.version = ui.target.version
        /\ g.preview = Score(ui.target.late, ui.cut)
    BY <1>0 DEF Grading, Submitted, Preview, Score
  <2>2. net' = [net EXCEPT !.grade = g] /\ UNCHANGED <<ui, srv>>
    BY <1>1 DEF SendGrade
  <2>3. ui.target # NoSub /\ ~Graded(ui.target)
    BY <1>1 DEF SendGrade, GradeDialog
  <2> HIDE DEF g
  <2>4. net' \in Calls /\ net'.submit = net.submit /\ net'.grade = g
    BY <1>0, <2>1, <2>2 DEF Calls
  <2>5. /\ past' \in History /\ past'.graded = past.graded /\ past'.preview = past.preview
        /\ past'.readWork = ui.target.work /\ past'.orphan = past.orphan
    BY <1>0, <1>1 DEF SendGrade, History, Submitted
  <2> QED BY <1>0, <2>1, <2>2, <2>3, <2>4, <2>5 DEF GradeSent
<1>2. CASE ServeGrade /\ net' = [net EXCEPT !.grade.at = "no"] /\ UNCHANGED <<srv, past>>
  <2> DEFINE g == [net.grade EXCEPT !.at = "no"]
  <2>1. g \in Grading /\ g.at = "no"
    BY <1>0 DEF Grading
  <2>2. net' = [net EXCEPT !.grade = g] /\ ui' = ui
    BY <1>0, <1>2 DEF ServeGrade, Calls
  <2> HIDE DEF g
  <2>3. net' \in Calls /\ net'.submit = net.submit /\ net'.grade = g
    BY <1>0, <2>1, <2>2 DEF Calls
  <2> QED BY <1>0, <1>2, <2>1, <2>2, <2>3 DEF GradeRefused
<1>3. CASE /\ ServeGrade /\ ~Graded(srv.sub) /\ net.grade.version = srv.sub.version
           /\ srv' = [srv EXCEPT !.sub.score = Score(srv.sub.late, srv.cut),
                                 !.sub.version = @ + 1]
           /\ past' = [past EXCEPT !.graded = srv'.sub, !.preview = net.grade.preview]
           /\ net' = [net EXCEPT !.grade.at = "ok"]
  <2> DEFINE g == [net.grade EXCEPT !.at = "ok"]
             sub == [srv.sub EXCEPT !.score = Score(srv.sub.late, srv.cut), !.version = @ + 1]
  <2>1. g \in Grading /\ g.at = "ok"
    BY <1>0 DEF Grading
  <2>2. sub \in Submitted
    <3> DEFINE sc == Score(srv.sub.late, srv.cut)
               once == [srv.sub EXCEPT !.score = sc]
    <3>1. sc \in {"none", "full", "cut"}
      BY DEF Score
    <3> HIDE DEF sc
    <3>2. once \in Submitted
      BY <1>0, <3>1 DEF Submitted
    <3>3. sub = [once EXCEPT !.version = @ + 1]
      BY <1>0 DEF Submitted, sc
    <3> HIDE DEF once, sub
    <3> QED BY <3>2, <3>3 DEF Submitted
  <2>3. /\ net' = [net EXCEPT !.grade = g] /\ ui' = ui
        /\ srv' = [srv EXCEPT !.sub = sub]
        /\ net.grade.at = "sent"
    BY <1>0, <1>3 DEF ServeGrade, Calls, Service
  <2> HIDE DEF g, sub
  <2>4. net' \in Calls /\ net'.submit = net.submit /\ net'.grade = g
    BY <1>0, <2>1, <2>3 DEF Calls
  <2>5. /\ srv' \in Service /\ srv'.sub = sub /\ srv'.cut = srv.cut
        /\ srv'.store = srv.store /\ srv'.sent = srv.sent
    BY <1>0, <2>2, <2>3 DEF Service
  <2>6. net.grade.preview \in {"none", "full", "cut"}
    BY <1>0 DEF Grading
  <2>7. /\ past' \in History /\ past'.graded = sub /\ past'.preview = net.grade.preview
        /\ past'.readWork = past.readWork /\ past'.orphan = past.orphan
    BY <1>0, <1>3, <2>2, <2>5, <2>6 DEF History
  <2> QED BY <1>0, <1>3, <2>1, <2>3, <2>4, <2>5, <2>7 DEF GradeStored, sub
<1> QED BY <1>1, <1>2, <1>3 DEF ServeGrade

\* A step is typed and of one kind.
LEMMA StepEffect ==
    ASSUME TugasType, [NextTugas]_browser
    PROVE  TugasType' /\ Effect
<1>0. ui' \in Screen /\ net \in Calls /\ srv \in Service /\ past \in History
  BY ScreenNext DEF TugasType
<1> USE DEF Effect, TugasType
<1>1. CASE \/ ReadMine \/ ServeMine \/ MineArrives \/ MineFails
           \/ OpenComposer \/ CloseComposer \/ PickWork
           \/ DeadlinePasses \/ ReadList \/ PenaltyEdited
  BY <1>0, <1>1, PanelEffect
<1>2. CASE SubmitWork \/ OtherTabSubmits
  BY <1>0, <1>2, SendEffect
<1>3. CASE SubmitAnswered \/ LoseSubmit \/ TabAnswered
  BY <1>0, <1>3, AnswerEffect
<1>4. ASSUME NEW t \in Tabs, CheckSubmit(t)
      PROVE  TugasType' /\ Effect
  <2>1. past' = past
    BY <1>4 DEF CheckSubmit
  <2> QED BY <1>0, <1>4, <2>1, CheckEffect
<1>5. ASSUME NEW t \in Tabs, LockRow(t)
      PROVE  TugasType' /\ Effect
  <2>1. past' = past
    BY <1>5 DEF LockRow
  <2> QED BY <1>0, <1>5, <2>1, LockEffect
<1>6. ASSUME NEW t \in Tabs, CreateRow(t)
      PROVE  TugasType' /\ Effect
  <2>1. past' = past
    BY <1>6 DEF CreateRow
  <2> QED BY <1>0, <1>6, <2>1, CreateEffect
<1>7. ASSUME NEW t \in Tabs, CleanFiles(t)
      PROVE  TugasType' /\ Effect
  <2>1. past' = past
    BY <1>7 DEF CleanFiles
  <2> QED BY <1>0, <1>7, <2>1, CleanEffect
<1>8. CASE Restart
  BY <1>0, <1>8, RestartEffect
<1>9. CASE ListArrives \/ OpenGrade \/ CloseGrade \/ GradeAnswered \/ LoseGrade
  BY <1>0, <1>9, TeacherEffect
<1>10. CASE SendGrade \/ ServeGrade
  BY <1>0, <1>10, GradeEffect
<1>11. CASE UNCHANGED browser
  BY <1>0, <1>11 DEF browser, Settles, TeacherRests
<1> QED BY <1>1, <1>2, <1>3, <1>4, <1>5, <1>6, <1>7, <1>8, <1>9, <1>10, <1>11 DEF NextTugas

-----------------------------------------------------------------------------
(* The invariant is kept                                                   *)

\* What the types say of calls and rows, in any state.
LEMMA Numbers ==
    ASSUME NEW n \in Calls, NEW v \in Service
    PROVE  /\ v.sent \in Nat /\ v.sub \in Submitted /\ v.sub.work \in Nat
           /\ v.sub.version \in Nat /\ v.sub.files \in BOOLEAN
           /\ \A t \in Tabs :
                /\ n.submit[t].work \in Nat /\ n.submit[t].old \in Nat
                /\ n.submit[t].files \in BOOLEAN
<1>1. Works \subseteq Nat
  BY SubmitAssumption DEF Works
<1> QED BY <1>1 DEF Calls, Service, Submitting, Submitted

LEMMA WorkNext ==
    ASSUME TugasType, TugasType', Effect, WorkInv
    PROVE  WorkInv'
<1>0. /\ srv.sent \in Nat /\ srv.sub.work \in Nat
      /\ \A t \in Tabs : net.submit[t].work \in Nat /\ net.submit[t].old \in Nat
      /\ NoSubmit.at = "idle" /\ NoSubmit.work = 0 /\ NoSubmit.old = 0
  BY Numbers DEF TugasType, NoSubmit
<1>1. CASE Settles
  BY <1>0, <1>1 DEF WorkInv, Settles, Cleaning
<1>2. CASE Restarts
  BY <1>0, <1>2 DEF WorkInv, Restarts, Cleaning
<1>3. CASE Lists \/ Opens \/ Closes \/ GradeSent \/ GradeRefused
  BY <1>3 DEF WorkInv, Cleaning, Lists, Opens, Closes, GradeSent, GradeRefused, SubmitsRest
<1>4. CASE GradeStored
  BY <1>4, Numbers DEF WorkInv, Cleaning, GradeStored, SubmitsRest, TugasType, Submitted
<1>5. ASSUME NEW t \in Tabs, Sends(t) PROVE WorkInv'
  BY <1>0, <1>5 DEF WorkInv, Cleaning, Sends, Goes
<1>6. ASSUME NEW t \in Tabs, Refuses(t) PROVE WorkInv'
  BY <1>0, <1>6 DEF WorkInv, Cleaning, Refuses, Goes, Carries
<1>7. ASSUME NEW t \in Tabs, Uploads(t) PROVE WorkInv'
  BY <1>0, <1>7 DEF WorkInv, Cleaning, Uploads, Goes, Carries
<1>8. ASSUME NEW t \in Tabs, FindsNone(t) PROVE WorkInv'
  BY <1>0, <1>8 DEF WorkInv, Cleaning, FindsNone, Goes, Carries
<1>9. ASSUME NEW t \in Tabs, RollsBack(t) PROVE WorkInv'
  BY <1>0, <1>9 DEF WorkInv, Cleaning, RollsBack, Uncommitted, Goes, Carries
<1>10. ASSUME NEW t \in Tabs, Commits(t) PROVE WorkInv'
  BY <1>0, <1>10 DEF WorkInv, Cleaning, Commits, Uncommitted, Goes
<1>11. ASSUME NEW t \in Tabs, CleansUp(t) PROVE WorkInv'
  BY <1>0, <1>11 DEF WorkInv, Cleaning, CleansUp, Goes, Carries
<1> QED BY <1>1, <1>2, <1>3, <1>4, <1>5, <1>6, <1>7, <1>8, <1>9, <1>10, <1>11 DEF Effect

LEMMA StoreNext ==
    ASSUME TugasType, Effect, WorkInv, StoreInv
    PROVE  StoreInv'
<1>1. CASE Settles
  BY <1>1 DEF StoreInv, Settles, Cleaning, Uncommitted, FilesOf, NoSubmit
<1>2. CASE Restarts
  BY <1>2 DEF StoreInv, Restarts, Cleaning, Uncommitted, FilesOf, NoSubmit
<1>3. CASE Lists \/ Opens \/ Closes \/ GradeSent \/ GradeRefused
  BY <1>3 DEF StoreInv, Cleaning, Uncommitted, FilesOf, Lists, Opens, Closes,
     GradeSent, GradeRefused, SubmitsRest
<1>4. CASE GradeStored
  BY <1>4, Numbers DEF StoreInv, Cleaning, Uncommitted, FilesOf, GradeStored,
     SubmitsRest, TugasType, Submitted
<1>5. ASSUME NEW t \in Tabs, Sends(t) PROVE StoreInv'
  BY <1>5 DEF StoreInv, Cleaning, Uncommitted, FilesOf, Sends, Goes
<1>6. ASSUME NEW t \in Tabs, Refuses(t) PROVE StoreInv'
  BY <1>6 DEF StoreInv, Cleaning, Uncommitted, FilesOf, Refuses, Goes, Carries
<1>7. ASSUME NEW t \in Tabs, Uploads(t) PROVE StoreInv'
  BY <1>7 DEF StoreInv, Cleaning, Uncommitted, FilesOf, Uploads, Goes, Carries
<1>8. ASSUME NEW t \in Tabs, FindsNone(t) PROVE StoreInv'
  BY <1>8 DEF StoreInv, Cleaning, Uncommitted, FilesOf, FindsNone, Goes, Carries
<1>9. ASSUME NEW t \in Tabs, RollsBack(t) PROVE StoreInv'
  BY <1>9 DEF WorkInv, StoreInv, Cleaning, Uncommitted, FilesOf, RollsBack, Goes,
     Carries
<1>10. ASSUME NEW t \in Tabs, Commits(t) PROVE StoreInv'
  BY <1>10 DEF WorkInv, StoreInv, Cleaning, Uncommitted, FilesOf, Commits, Goes, NoSub
<1>11. ASSUME NEW t \in Tabs, CleansUp(t) PROVE StoreInv'
  BY <1>11 DEF WorkInv, StoreInv, Cleaning, Uncommitted, FilesOf, CleansUp, Goes, Carries
<1> QED BY <1>1, <1>2, <1>3, <1>4, <1>5, <1>6, <1>7, <1>8, <1>9, <1>10, <1>11 DEF Effect

\* The student's steps but the commit leave the stored submission and the teacher's
\* side alone.
LEMMA TeacherSide ==
    ASSUME Effect
    PROVE  \/ TeacherRests /\ srv'.sub = srv.sub
           \/ \E t \in Tabs : Commits(t)
           \/ Lists \/ Opens \/ Closes \/ GradeSent \/ GradeRefused \/ GradeStored
BY DEF Effect, Settles, Restarts, Sends, Refuses, Uploads, FindsNone, RollsBack, CleansUp

\* What the types say of the rows of the teacher, in any state.
LEMMA Rows ==
    ASSUME TugasType
    PROVE  /\ ui.row \in Submitted /\ ui.target \in Submitted /\ srv.sub \in Submitted
           /\ ui.row.version \in Nat /\ ui.target.version \in Nat /\ srv.sub.version \in Nat
           /\ net.grade.version \in Nat /\ ui.cut = TRUE
           /\ NoSub.version = 0 /\ NoSub.score = "none"
BY DEF TugasType, Screen, Service, Calls, Grading, Submitted, NoSub

\* The row a grade is stored in, and what it was before.
LEMMA StoredGrade ==
    ASSUME TugasType, GradeStored
    PROVE  /\ Ungraded(srv'.sub) = srv.sub /\ Graded(srv'.sub) /\ srv'.sub # NoSub
           /\ srv'.sub.score = Score(srv.sub.late, srv.cut)
           /\ srv'.sub.version = srv.sub.version + 1 /\ srv'.sub.work = srv.sub.work
<1> DEFINE sc == Score(srv.sub.late, srv.cut)
           sub == srv.sub
           graded == srv'.sub
<1>1. sc \in {"full", "cut"}
  BY DEF Score
<1>2. /\ sub \in Submitted /\ ~Graded(sub)
      /\ graded = [sub EXCEPT !.score = sc, !.version = @ + 1]
  BY Rows DEF GradeStored
<1> HIDE DEF sc, sub, graded
<1>3. /\ sub = [version |-> sub.version, work |-> sub.work, files |-> sub.files,
                late |-> sub.late, score |-> "none"]
      /\ sub.version \in Nat
  BY <1>2 DEF Submitted, Graded
<1>4. graded = [version |-> sub.version + 1, work |-> sub.work, files |-> sub.files,
                late |-> sub.late, score |-> sc]
  BY <1>2, <1>3
<1>5. Ungraded(graded) = [version |-> graded.version - 1, work |-> sub.work,
                          files |-> sub.files, late |-> sub.late, score |-> "none"]
  <2> DEFINE before == graded.version - 1
  <2>1. Ungraded(graded) = [graded EXCEPT !.score = "none", !.version = before]
    BY DEF Ungraded
  <2> HIDE DEF before
  <2>2. Ungraded(graded) = [version |-> before, work |-> sub.work, files |-> sub.files,
                            late |-> sub.late, score |-> "none"]
    BY <1>4, <2>1
  <2> QED BY <2>2 DEF before
<1>6. /\ graded.version = sub.version + 1 /\ graded.version - 1 = sub.version
      /\ graded.score = sc /\ graded.work = sub.work
  BY <1>3, <1>4
<1>7. Ungraded(graded) = sub
  BY <1>3, <1>5, <1>6
<1>8. Graded(graded) /\ graded # NoSub
  BY <1>1, <1>6 DEF Graded, NoSub
<1> QED BY <1>6, <1>7, <1>8 DEF sc, sub, graded

LEMMA RowNext ==
    ASSUME TugasType, Effect, RowInv
    PROVE  RowInv'
<1>1. CASE TeacherRests /\ srv'.sub = srv.sub
  BY <1>1 DEF TeacherRests, RowInv, Follows
<1>2. ASSUME NEW t \in Tabs, Commits(t) PROVE RowInv'
  BY <1>2, Rows DEF Commits, TeacherRests, RowInv, Follows
<1>3. CASE Lists
  BY <1>3, Rows DEF Lists, RowInv, Follows
<1>4. CASE Opens
  BY <1>4, Rows DEF Opens, RowInv, Follows
<1>5. CASE Closes
  BY <1>5, Rows DEF Closes, RowInv, Follows
<1>6. CASE GradeSent \/ GradeRefused
  BY <1>6, Rows DEF GradeSent, GradeRefused, RowInv, Follows
<1>7. CASE GradeStored
  <2>1. /\ srv'.sub.version = srv.sub.version + 1 /\ ui' = ui
        /\ srv'.sub # NoSub
    BY <1>7, StoredGrade DEF GradeStored
  <2> QED BY <2>1, Rows DEF RowInv, Follows
<1> QED BY <1>1, <1>2, <1>3, <1>4, <1>5, <1>6, <1>7, TeacherSide

LEMMA GradeNext ==
    ASSUME TugasType, TugasType', Effect, RowInv, GradeInv
    PROVE  GradeInv'
<1>0. ui'.cut = TRUE
  BY DEF TugasType, Screen
<1>1. CASE TeacherRests /\ srv'.sub = srv.sub
  BY <1>0, <1>1, Rows DEF TeacherRests, GradeInv
<1>2. ASSUME NEW t \in Tabs, Commits(t) PROVE GradeInv'
  <2>1. /\ ui'.row = ui.row /\ ui'.target = ui.target /\ net'.grade = net.grade
        /\ srv'.sub.version = srv.sub.version + 1
    BY <1>2 DEF Commits, TeacherRests
  <2>2. ui.row.version <= srv.sub.version
    BY DEF RowInv, Follows
  <2>3. ASSUME net.grade.at = "sent" PROVE net.grade.version # srv'.sub.version
    BY <2>1, <2>2, <2>3, Rows DEF GradeInv
  <2> QED BY <2>1, <2>3 DEF GradeInv
<1>3. CASE Lists
  <2>1. /\ ui'.row = srv.sub /\ ui'.target = ui.target /\ net'.grade = net.grade
        /\ srv' = srv /\ past' = past
    BY <1>3 DEF Lists
  <2>2. ui.row.version <= srv.sub.version
    BY DEF RowInv, Follows
  <2>3. ASSUME net.grade.at = "sent" PROVE net.grade.version <= srv.sub.version
    BY <2>2, <2>3, Rows DEF GradeInv
  <2> QED BY <1>0, <2>1, <2>3, Rows DEF GradeInv
<1>4. CASE Opens
  BY <1>0, <1>4, Rows DEF Opens, GradeInv, RowInv, Follows
<1>5. CASE Closes
  BY <1>0, <1>5, Rows DEF Closes, GradeInv, RowInv, Follows
<1>6. CASE GradeSent
  BY <1>0, <1>6, Rows DEF GradeSent, GradeInv, RowInv, Follows
<1>7. CASE GradeRefused \/ GradeStored
  BY <1>7 DEF GradeRefused, GradeStored, GradeInv
<1> QED BY <1>1, <1>2, <1>3, <1>4, <1>5, <1>6, <1>7, TeacherSide

\* What holds of the stored grade.
StoredGradeInv ==
  /\ GradedInv /\ (Graded(srv.sub) => past.graded = srv.sub) /\ GradeFitsWork

LEMMA StoredGradeNext ==
    ASSUME TugasType, TugasType', Effect, RowInv, RowInv', GradeInv, StoredGradeInv
    PROVE  StoredGradeInv'
<1>0. ui'.cut = TRUE /\ ui.screen = "tugas" /\ ui'.screen = "tugas"
  BY DEF TugasType, Screen
<1> USE DEF StoredGradeInv, GradeFitsWork, GradedAsRead, PreviewIsStored, GradedInv
<1>1. CASE TeacherRests /\ srv'.sub = srv.sub
  BY <1>0, <1>1, Rows DEF TeacherRests
<1>2. ASSUME NEW t \in Tabs, Commits(t) PROVE StoredGradeInv'
  BY <1>0, <1>2, Rows DEF Commits, TeacherRests, Graded
<1>3. CASE Lists
  BY <1>0, <1>3, Rows DEF Lists
<1>4. CASE Opens
  BY <1>0, <1>4, Rows DEF Opens
<1>5. CASE Closes
  BY <1>0, <1>5, Rows DEF Closes
<1>6. CASE GradeSent
  <2>1. /\ ui' = ui /\ srv' = srv /\ past'.graded = past.graded
        /\ past'.preview = past.preview /\ past'.readWork = ui.target.work
        /\ ui.target # NoSub /\ ~Graded(ui.target)
    BY <1>6 DEF GradeSent
  <2>2. Ungraded(srv.sub).work = srv.sub.work
    BY Rows DEF Ungraded, Submitted
  <2>3. ASSUME past.graded # NoSub PROVE srv.sub.work = ui.target.work
    BY <2>1, <2>2, <2>3
  <2> QED BY <1>0, <2>1, <2>3
<1>7. CASE GradeRefused
  BY <1>0, <1>7, Rows DEF GradeRefused
<1>8. CASE GradeStored
  <2>1. /\ Ungraded(srv'.sub) = srv.sub /\ Graded(srv'.sub) /\ srv'.sub # NoSub
        /\ srv'.sub.score = Score(srv.sub.late, srv.cut)
        /\ srv'.sub.version = srv.sub.version + 1 /\ srv'.sub.work = srv.sub.work
    BY <1>8, StoredGrade
  <2>2. /\ net.grade.version # 0 /\ net.grade.version <= ui.row.version
        /\ ui.target # NoSub => net.grade.version <= ui.target.version
        /\ past.readWork = srv.sub.work
        /\ net.grade.preview = Score(srv.sub.late, ui.cut)
    BY <1>8 DEF GradeStored, GradeInv
  <2>3. ui.row = srv.sub /\ ui.target \in {NoSub, srv.sub} /\ ui.row # NoSub
        /\ srv.sub.version > 0
    BY <1>8, <2>2, Rows DEF GradeStored, RowInv, Follows
  <2>4. /\ ui' = ui /\ srv'.cut = srv.cut /\ past'.graded = srv'.sub
        /\ past'.preview = net.grade.preview /\ past'.readWork = past.readWork
    BY <1>8 DEF GradeStored
  <2>5. srv'.sub.version > 1
    BY <2>1, <2>3, Rows
  <2>6. {ui'.row, ui'.target} \subseteq {NoSub, srv'.sub, Ungraded(srv'.sub)} /\ ui'.row # NoSub
    BY <2>1, <2>3, <2>4
  <2>7. srv'.cut = ui'.cut => srv'.sub.score = past'.preview
    BY <2>1, <2>2, <2>4
  <2>8. srv'.sub.work = past'.readWork
    BY <2>1, <2>2, <2>4
  <2> QED BY <2>1, <2>4, <2>5, <2>6, <2>7, <2>8
<1> QED BY <1>1, <1>2, <1>3, <1>4, <1>5, <1>6, <1>7, <1>8, TeacherSide

-----------------------------------------------------------------------------
(* The theorems                                                            *)

LEMMA TugasInit ==
    ASSUME InitTugas
    PROVE  TugasInv
<1> DEFINE idle == [t \in Tabs |-> NoSubmit]
<1>1. PICK allowed \in BOOLEAN :
         /\ ui = [screen |-> "tugas", view |-> "pending", sub |-> NoSub, files |-> FALSE,
                  composer |-> FALSE, row |-> NoSub, target |-> NoSub, cut |-> TRUE]
         /\ net = [mine |-> NoReading, list |-> FALSE, grade |-> NoGrade, submit |-> idle]
         /\ srv = [sub |-> NoSub, over |-> FALSE, allowed |-> allowed, required |-> ~allowed,
                   cut |-> TRUE, store |-> {}, sent |-> 0]
         /\ past = [events |-> 0, acked |-> 0, graded |-> NoSub, preview |-> "none",
                    readWork |-> 0, orphan |-> FALSE]
  BY DEF InitTugas
<1>2. /\ idle \in [Tabs -> Submitting]
      /\ \A t \in Tabs : idle[t].at = "idle" /\ idle[t].work = 0 /\ idle[t].old = 0
  BY Nothing DEF NoSubmit
<1> HIDE DEF idle
<1>3. TugasType
  <2>1. ui \in Screen
    BY <1>1, Nothing DEF Screen
  <2>2. net \in Calls
    BY <1>1, <1>2, Nothing DEF Calls
  <2>3. srv \in Service
    BY <1>1, Nothing DEF Service
  <2>4. past \in History
    BY <1>1, Nothing DEF History
  <2> QED BY <2>1, <2>2, <2>3, <2>4 DEF TugasType
<1>4. /\ NoSub.version = 0 /\ NoSub.work = 0 /\ NoSub.files = FALSE /\ NoSub.score = "none"
      /\ NoGrade.at = "idle"
  BY DEF NoSub, NoGrade
<1>5. WorkInv /\ StoreInv
  BY <1>1, <1>2, <1>4 DEF WorkInv, StoreInv, Cleaning, Uncommitted, FilesOf
<1>6. RowInv /\ GradeInv /\ GradedInv
  <2>1. /\ ui.row = NoSub /\ ui.target = NoSub /\ srv.sub = NoSub /\ past.graded = NoSub
        /\ net.grade.at = "idle"
    BY <1>1, <1>4
  <2>2. Follows(NoSub)
    BY <1>4, <2>1 DEF Follows
  <2> QED BY <1>4, <2>1, <2>2 DEF RowInv, GradeInv, GradedInv
<1>7. ~Graded(srv.sub) /\ GradeFitsWork
  BY <1>1, <1>4 DEF Graded, GradeFitsWork, GradedAsRead, PreviewIsStored
<1> QED BY <1>3, <1>5, <1>6, <1>7 DEF TugasInv

\* The records of the panel, the teacher's page, their calls, the service and the
\* object store keep to the code's types, and submits, files and rows keep in step,
\* in every state of the assignment screen.
THEOREM TugasInvariant == SpecTugas => []TugasInv
<1>1. InitTugas => TugasInv
  BY TugasInit
<1>2. TugasInv /\ [NextTugas]_browser => TugasInv'
  <2> SUFFICES ASSUME TugasInv, [NextTugas]_browser PROVE TugasInv'
    OBVIOUS
  <2>1. TugasType' /\ Effect
    BY StepEffect DEF TugasInv
  <2>2. WorkInv' /\ StoreInv'
    BY <2>1, WorkNext, StoreNext DEF TugasInv
  <2>3. RowInv' /\ GradeInv'
    BY <2>1, RowNext, GradeNext DEF TugasInv
  <2>4. StoredGradeInv'
    BY <2>1, <2>3, StoredGradeNext DEF TugasInv, StoredGradeInv
  <2> QED BY <2>1, <2>2, <2>3, <2>4 DEF TugasInv, StoredGradeInv
<1> QED BY <1>1, <1>2, PTL DEF SpecTugas

\* Panel, dialog, calls, row and objects hold what the code's types allow.
THEOREM TugasTyped == SpecTugas => []TugasTypeOK
<1>1. TugasInv => TugasTypeOK
  BY DEF TugasInv, TugasTypeOK
<1> QED BY <1>1, TugasInvariant, PTL

\* A grade stays with the work the teacher had before him when he gave it, whatever
\* either tab submits meanwhile, and its stored score is the one the dialog showed.
THEOREM GradeFits == SpecTugas => []GradeFitsWork
<1>1. TugasInv => GradeFitsWork
  BY DEF TugasInv
<1> QED BY <1>1, TugasInvariant, PTL

\* The files the stored submission names are in the object store, and once the
\* submits are done, without a restart between two of their steps, no others are.
THEOREM FilesExist == SpecTugas => []SubmittedFilesExist
<1>1. TugasInv => SubmittedFilesExist
  BY DEF TugasInv, StoreInv, SubmittedFilesExist, Uncommitted, Cleaning
<1> QED BY <1>1, TugasInvariant, PTL

\* Graded work is final: once a grade is stored no step of either tab, of a restart
\* or of the teacher changes the submission again.
THEOREM GradedIsFinal == SpecTugas => [][Graded(srv.sub) => srv'.sub = srv.sub]_browser
<1>1. TugasInv /\ TugasInv' /\ [NextTugas]_browser =>
         [Graded(srv.sub) => srv'.sub = srv.sub]_browser
  <2> SUFFICES ASSUME TugasInv, [NextTugas]_browser, Graded(srv.sub) PROVE srv'.sub = srv.sub
    OBVIOUS
  <2>1. Effect
    BY StepEffect DEF TugasInv
  <2> QED BY <2>1, TeacherSide DEF Commits, Lists, Opens, Closes, GradeSent, GradeRefused,
        GradeStored
<1> QED BY <1>1, TugasInvariant, PTL DEF SpecTugas
=============================================================================
