---------------------------- MODULE Staff_proofs ----------------------------
(***************************************************************************)
(* Proofs about the screens of the staff, for every number of versions,    *)
(* pages, requests and objects and every number of bounded events: the     *)
(* lists and forms of versioned rows (RowEditor), the account page         *)
(* (Accounts), the account lists (PagedList), the images of a question     *)
(* (QuestionImages) and the order of the chapters (Reorder).  Each part    *)
(* ends with its inductive invariant and what follows from it.             *)
(***************************************************************************)
EXTENDS RowEditor, Accounts, PagedList, QuestionImages, Reorder, FiniteSetTheorems,
        WellFoundedInduction, TLAPS

(***************************************************************************)
(* RowEditor                                                               *)
(***************************************************************************)

-----------------------------------------------------------------------------
(* Every screen is made of the same steps                                  *)

KindStep(kind) ==
  \/ ReadRows(kind) \/ RowsArrive(kind) \/ RowsFail(kind)
  \/ OpenForm(kind) \/ TypeForm(kind) \/ CloseForm(kind) \/ SaveForm(kind) \/ SaveAnswered(kind)
  \/ SwitchStatus(kind) \/ SwitchAnswered(kind)
  \/ AskDelete(kind) \/ LeaveDelete(kind) \/ ConfirmDelete(kind) \/ DeleteAnswered(kind)
  \/ AskArchive(kind)
RowsStep ==
  \/ \E kind \in RowKinds : KindStep(kind)
  \/ PickFiles \/ SettingAnswered
  \/ ServeRows \/ ServeSave \/ ServeFiles \/ LoseSave
  \/ ServeSwitch \/ ServeDelete \/ ServeArchive \/ OtherWrites

LEMMA StepsOfScreens == NextRows => RowsStep
<1>0. RowKinds = {"materi", "pengumuman", "tugas", "bab", "ujian", "bank", "soal",
                  "pengaturan", "setting"}
  BY DEF RowKinds, Snapshots, Followers
<1>1. ASSUME MateriQuery \/ MateriRows \/ MateriDelete \/ MateriDeleteDialog \/ MateriForm
          \/ MateriSubmit \/ MateriMutation \/ MateriFields
      PROVE  RowsStep
  BY <1>0, <1>1 DEF MateriQuery, MateriRows, MateriDelete, MateriDeleteDialog, MateriForm,
     MateriSubmit, MateriMutation, MateriFields, KindStep, RowsStep
<1>2. ASSUME PengumumanQuery \/ PengumumanRows \/ PengumumanDelete \/ PengumumanDeleteDialog
          \/ PengumumanMenu \/ PengumumanSwitch \/ PengumumanForm \/ PengumumanSubmit
          \/ PengumumanMutation \/ PengumumanFields \/ PengumumanFiles
      PROVE  RowsStep
  BY <1>0, <1>2 DEF PengumumanQuery, PengumumanRows, PengumumanDelete,
     PengumumanDeleteDialog, PengumumanMenu, PengumumanSwitch, PengumumanForm,
     PengumumanSubmit, PengumumanMutation, PengumumanFields, PengumumanFiles, KindStep,
     RowsStep
<1>3. ASSUME TugasQuery \/ TugasRows \/ TugasDelete \/ TugasDeleteDialog \/ TugasMenu
          \/ TugasSwitch \/ TugasForm \/ TugasSubmit \/ TugasMutation \/ TugasFields
      PROVE  RowsStep
  BY <1>0, <1>3 DEF TugasQuery, TugasRows, TugasDelete, TugasDeleteDialog, TugasMenu,
     TugasSwitch, TugasForm, TugasSubmit, TugasMutation, TugasFields, KindStep,
     RowsStep
<1>4. ASSUME BabQuery \/ BabRows \/ BabMenu \/ BabForm \/ BabSubmit \/ BabMutation \/ BabFields
      PROVE  RowsStep
  BY <1>0, <1>4 DEF BabQuery, BabRows, BabMenu, BabForm, BabSubmit, BabMutation, BabFields,
     KindStep, RowsStep
<1>5. ASSUME UjianQuery \/ UjianRows \/ UjianDelete \/ UjianForm \/ UjianSubmit \/ UjianMutation
          \/ UjianFields
      PROVE  RowsStep
  BY <1>0, <1>5 DEF UjianQuery, UjianRows, UjianDelete, UjianForm, UjianSubmit,
     UjianMutation, UjianFields, KindStep, RowsStep
<1>6. ASSUME BankQuery \/ BankRows \/ BankDelete \/ BankForm \/ BankSubmit \/ BankMutation
          \/ BankFields
      PROVE  RowsStep
  BY <1>0, <1>6 DEF BankQuery, BankRows, BankDelete, BankForm, BankSubmit, BankMutation,
     BankFields, KindStep, RowsStep
<1>7. ASSUME SoalQuery \/ SoalRows \/ SoalDelete \/ SoalForm \/ SoalSubmit \/ SoalMutation
          \/ SoalFields
      PROVE  RowsStep
  BY <1>0, <1>7 DEF SoalQuery, SoalRows, SoalDelete, SoalForm, SoalSubmit, SoalMutation,
     SoalFields, KindStep, RowsStep
<1>8. ASSUME \/ ArchiveDialog("bab") \/ ArchiveDialog("pengaturan")
             \/ ArchiveMutation("bab") \/ ArchiveMutation("pengaturan")
      PROVE  RowsStep
  BY <1>0, <1>8 DEF ArchiveDialog, ArchiveMutation, KindStep, RowsStep
<1>9. ASSUME PengaturanTab \/ PengaturanFields \/ BabPage \/ BabPageView
      PROVE  RowsStep
  BY <1>0, <1>9 DEF PengaturanTab, PengaturanFields, BabPage, BabPageView, KindStep, RowsStep
<1>10. ASSUME SettingQuery \/ SettingError \/ SettingFields \/ SettingSubmit
      PROVE  RowsStep
  BY <1>0, <1>10 DEF SettingQuery, SettingError, SettingFields, SettingSubmit, KindStep, RowsStep
<1> QED BY <1>1, <1>2, <1>3, <1>4, <1>5, <1>6, <1>7, <1>8, <1>9, <1>10 DEF NextRows, RowsStep

-----------------------------------------------------------------------------
(* The parts of the records                                                *)

LEMMA RowMarks ==
    /\ NoRow \in Stored /\ NoSave \in SaveCall /\ NoCall \in SwitchCall /\ NoCall \in DeleteCall
    /\ NoList \in ListCall /\ Invalidated \in ListCall
    /\ NoSave.at = "idle" /\ NoCall.at = "idle" /\ NoList.at = "idle" /\ Invalidated.at = "sent"
    /\ NoSave.row = NoRow /\ NoList.row = NoRow /\ Invalidated.row = NoRow
    /\ NoRow.version = 0 /\ NoRow.there = FALSE
BY DEF NoRow, NoSave, NoCall, NoList, Invalidated, Stored, SaveCall, SwitchCall, DeleteCall,
   ListCall, Content, NoContent

LEMMA RowParts ==
    ASSUME RowsType
    PROVE  /\ ui \in RowsScreen /\ net \in RowsCalls /\ srv \in Stored /\ past \in RowsPast
           /\ ui.row \in Stored /\ ui.base \in Stored /\ ui.kind \in RowKinds
           /\ net.list \in ListCall /\ net.save \in SaveCall
           /\ net.switch \in SwitchCall /\ net.del \in DeleteCall
           /\ net.list.row \in Stored /\ net.save.row \in Stored /\ net.save.c \in Content
           /\ ui.row.c \in Content /\ ui.base.c \in Content /\ ui.draft \in Content
           /\ ui.row.version \in Nat /\ ui.base.version \in Nat /\ srv.version \in Nat
           /\ net.list.row.version \in Nat /\ net.save.row.version \in Nat
           /\ net.save.version \in Nat /\ net.del.version \in Nat
           /\ {past.stale, past.clean, past.sent, past.blind} \subseteq BOOLEAN
           /\ {srv.there, srv.live} \subseteq BOOLEAN
BY DEF RowsType, RowsScreen, RowsCalls, RowsPast, ListCall, SaveCall, SwitchCall, DeleteCall,
   Stored

LEMMA Kinds == Snapshots \intersect Followers = {} /\ "setting" \in Followers
BY DEF Snapshots, Followers

\* One of the four calls is replaced.
LEMMA ListReplaced ==
    ASSUME net \in RowsCalls, NEW x \in ListCall, net' = [net EXCEPT !.list = x]
    PROVE  /\ net' \in RowsCalls /\ net'.list = x
           /\ net'.save = net.save /\ net'.switch = net.switch /\ net'.del = net.del
BY DEF RowsCalls
LEMMA SaveReplaced ==
    ASSUME net \in RowsCalls, NEW x \in SaveCall, net' = [net EXCEPT !.save = x]
    PROVE  /\ net' \in RowsCalls /\ net'.save = x
           /\ net'.list = net.list /\ net'.switch = net.switch /\ net'.del = net.del
BY DEF RowsCalls
LEMMA SwitchReplaced ==
    ASSUME net \in RowsCalls, NEW x \in SwitchCall, net' = [net EXCEPT !.switch = x]
    PROVE  /\ net' \in RowsCalls /\ net'.switch = x
           /\ net'.list = net.list /\ net'.save = net.save /\ net'.del = net.del
BY DEF RowsCalls
LEMMA DeleteReplaced ==
    ASSUME net \in RowsCalls, NEW x \in DeleteCall, net' = [net EXCEPT !.del = x]
    PROVE  /\ net' \in RowsCalls /\ net'.del = x
           /\ net'.list = net.list /\ net'.save = net.save /\ net'.switch = net.switch
BY DEF RowsCalls

\* A bounded event ends what the teacher may rely on.
LEMMA RowDisturbed ==
    ASSUME past \in RowsPast,
           past' = [past EXCEPT !.events = @ + 1, !.stale = TRUE, !.clean = FALSE, !.sent = FALSE]
    PROVE  /\ past' \in RowsPast /\ past'.stale /\ ~past'.clean /\ ~past'.sent
           /\ past'.blind = past.blind
<1> DEFINE counted == [past EXCEPT !.events = @ + 1]
<1>1. /\ counted \in RowsPast /\ counted.blind = past.blind
      /\ past' = [counted EXCEPT !.stale = TRUE, !.clean = FALSE, !.sent = FALSE]
  BY DEF RowsPast
<1> HIDE DEF counted
<1>2. past'.stale = TRUE /\ past'.clean = FALSE /\ past'.sent = FALSE
  BY <1>1 DEF RowsPast
<1>3. past' \in RowsPast /\ past'.blind = past.blind
  BY <1>1 DEF RowsPast
<1> QED BY <1>2, <1>3

\* A write of the row: its version and one field more.
LEMMA RowWritten ==
    ASSUME srv \in Stored, NEW c \in Content, NEW live \in BOOLEAN,
           \/ srv' = [srv EXCEPT !.version = @ + 1, !.c = c]
           \/ srv' = [srv EXCEPT !.version = @ + 1, !.live = live]
    PROVE  srv' \in Stored /\ srv'.version = srv.version + 1 /\ srv'.there = srv.there
<1> DEFINE next == [srv EXCEPT !.version = @ + 1]
<1>1. /\ next \in Stored /\ next.version = srv.version + 1 /\ next.there = srv.there
      /\ srv' = [next EXCEPT !.c = c] \/ srv' = [next EXCEPT !.live = live]
  BY DEF Stored
<1> HIDE DEF next
<1> QED BY <1>1 DEF Stored

\* What becomes of the screen when the cached row is replaced: the form stays as it
\* is, or one that follows is made from the new row.
LEMMA RowFollowed ==
    ASSUME RowsType, NEW row \in Stored, ui' = Follow(row)
    PROVE  /\ ui' \in RowsScreen /\ ui'.row = row /\ ui'.view = "rows"
           /\ ui'.kind = ui.kind /\ ui'.ask = ui.ask
           /\ \/ /\ ui.kind \in Followers /\ ui'.base = row
              \/ /\ ui'.base = ui.base
                 /\ ui'.form => ui.form
                 /\ ui'.form /\ ui.kind \in Followers => row.c = ui.row.c
<1>0. ui \in RowsScreen /\ row.c \in Content
  BY DEF RowsType, Stored
<1>1. CASE ui.kind \in Followers /\ row.there /\ MadeAnew(row)
  <2>1. ui' = [ui EXCEPT !.row = row, !.view = "rows", !.form = TRUE, !.base = row,
                         !.draft = row.c]
    BY <1>1 DEF Follow
  <2>2. ui' \in RowsScreen
    BY <1>0, <2>1 DEF RowsScreen
  <2>3. ui'.row = row /\ ui'.view = "rows" /\ ui'.base = row
    BY <1>0, <2>1 DEF RowsScreen
  <2>4. ui'.kind = ui.kind /\ ui'.ask = ui.ask
    BY <1>0, <2>1 DEF RowsScreen
  <2> QED BY <1>1, <2>2, <2>3, <2>4
<1>2. CASE ~(ui.kind \in Followers /\ row.there /\ MadeAnew(row))
  <2> DEFINE form == ui.form /\ (row.there \/ ui.kind \in Snapshots)
  <2>1. ui' = [ui EXCEPT !.row = row, !.view = "rows", !.form = form]
    BY <1>2 DEF Follow
  <2>2. form \in BOOLEAN /\ (form => ui.form)
    BY <1>0 DEF RowsScreen
  <2>3. form /\ ui.kind \in Followers => row.c = ui.row.c
    BY <1>2, Kinds DEF MadeAnew
  <2> HIDE DEF form
  <2>4. ui' \in RowsScreen /\ ui'.row = row /\ ui'.view = "rows" /\ ui'.form = form
        /\ ui'.kind = ui.kind /\ ui'.ask = ui.ask /\ ui'.base = ui.base
    BY <1>0, <2>1, <2>2 DEF RowsScreen
  <2> QED BY <2>2, <2>3, <2>4
<1> QED BY <1>1, <1>2

-----------------------------------------------------------------------------
(* The invariant is kept: the list                                         *)

LEMMA ReadKeeps ==
    ASSUME RowsInv, NEW kind, ReadRows(kind)
    PROVE  RowsInv'
<1>1. RowsType /\ UNCHANGED <<ui, srv, past>>
  BY DEF RowsInv, ReadRows
<1>2. /\ net' \in RowsCalls /\ net'.list = Invalidated
      /\ net'.save = net.save /\ net'.switch = net.switch /\ net'.del = net.del
  BY <1>1, RowMarks, RowParts, ListReplaced DEF ReadRows
<1> QED BY <1>1, <1>2, RowMarks, RowParts DEF RowsInv, RowsType, CopyInv, Lags, FormInv, CatchInv,
      OwnAnswer, CleanInv, OwnIdle, SentInv

LEMMA ServeRowsKeeps ==
    ASSUME RowsInv, ServeRows
    PROVE  RowsInv'
<1> DEFINE answer == [at |-> "ok", row |-> srv]
<1>1. RowsType /\ UNCHANGED <<ui, srv>>
  BY DEF RowsInv, ServeRows
<1>2. answer \in ListCall /\ answer.at = "ok" /\ answer.row = srv
  BY <1>1, RowParts DEF ListCall
<1>3. net' = [net EXCEPT !.list = answer]
  BY DEF ServeRows
<1> HIDE DEF answer
<1>4. /\ net' \in RowsCalls /\ net'.list = answer
      /\ net'.save = net.save /\ net'.switch = net.switch /\ net'.del = net.del
  BY <1>1, <1>2, <1>3, RowParts, ListReplaced
<1>5. /\ past' \in RowsPast /\ past'.clean = past.clean /\ past'.sent = past.sent
      /\ past'.blind = past.blind
  BY <1>1, RowParts DEF ServeRows, RowsPast
<1> QED BY <1>1, <1>2, <1>4, <1>5, RowParts DEF RowsInv, RowsType, CopyInv, Lags, FormInv,
      CatchInv, OwnAnswer, CleanInv, OwnIdle, SentInv

LEMMA ArriveKeeps ==
    ASSUME RowsInv, NEW kind, RowsArrive(kind)
    PROVE  RowsInv'
<1>1. RowsType /\ UNCHANGED <<srv, past>> /\ ui' = Follow(net.list.row) /\ net.list.at = "ok"
  BY DEF RowsInv, RowsArrive
<1>2. /\ net' \in RowsCalls /\ net'.list = NoList
      /\ net'.save = net.save /\ net'.switch = net.switch /\ net'.del = net.del
  BY <1>1, RowMarks, RowParts, ListReplaced DEF RowsArrive
<1>3. /\ ui' \in RowsScreen /\ ui'.row = net.list.row /\ ui'.view = "rows"
      /\ ui'.kind = ui.kind /\ ui'.ask = ui.ask
      /\ \/ ui.kind \in Followers /\ ui'.base = net.list.row
         \/ /\ ui'.base = ui.base
            /\ ui'.form => ui.form
            /\ ui'.form /\ ui.kind \in Followers => net.list.row.c = ui.row.c
  BY <1>1, RowParts, RowFollowed
<1> QED BY <1>1, <1>2, <1>3, RowMarks, RowParts, Kinds DEF RowsInv, RowsType, CopyInv, Lags, FormInv,
      CatchInv, OwnAnswer, CleanInv, OwnIdle, SentInv

LEMMA FailKeeps ==
    ASSUME RowsInv, NEW kind, RowsFail(kind)
    PROVE  RowsInv'
<1>1. RowsType /\ srv' = srv
  BY DEF RowsInv, RowsFail
<1>2. /\ net' \in RowsCalls /\ net'.list = NoList
      /\ net'.save = net.save /\ net'.switch = net.switch /\ net'.del = net.del
  BY <1>1, RowMarks, RowParts, ListReplaced DEF RowsFail
<1>3. /\ ui' \in RowsScreen /\ ui'.row = ui.row /\ ui'.base = ui.base /\ ui'.form = ui.form
      /\ ui'.kind = ui.kind /\ ui'.ask = ui.ask
  BY <1>1, RowParts DEF RowsFail, RowsScreen
<1>4. /\ past' \in RowsPast /\ past'.stale /\ ~past'.clean /\ ~past'.sent
      /\ past'.blind = past.blind
  BY <1>1, RowParts, RowDisturbed DEF RowsFail
<1> QED BY <1>1, <1>2, <1>3, <1>4, RowMarks, RowParts DEF RowsInv, RowsType, CopyInv, Lags, FormInv,
      CatchInv, OwnAnswer, CleanInv, OwnIdle, SentInv

-----------------------------------------------------------------------------
(* The form                                                                *)

LEMMA OpenKeeps ==
    ASSUME RowsInv, NEW kind, OpenForm(kind)
    PROVE  RowsInv'
<1>1. /\ RowsType /\ UNCHANGED <<net, srv>>
      /\ ui.kind \in Snapshots /\ ui.view = "rows" /\ ~ui.ask
  BY DEF RowsInv, OpenForm, Listed, InRows
<1>2. /\ ui' \in RowsScreen /\ ui'.row = ui.row /\ ui'.base = ui.row /\ ui'.kind = ui.kind
      /\ ui'.ask = ui.ask /\ ui'.view = ui.view
  BY <1>1, RowParts DEF OpenForm, RowsScreen
<1>3. /\ past' \in RowsPast /\ past'.clean = (NothingUnderway /\ ~past.stale)
      /\ past'.sent = past.sent /\ past'.stale = past.stale /\ past'.blind = past.blind
  BY <1>1, RowParts DEF OpenForm, RowsPast, NothingUnderway
<1> QED BY <1>1, <1>2, <1>3, RowParts, Kinds DEF RowsInv, RowsType, NothingUnderway, CopyInv,
      Lags, FormInv, CatchInv, OwnAnswer, CleanInv, OwnIdle, SentInv

LEMMA FieldsKeep ==
    ASSUME RowsInv, PickFiles \/ \E kind : TypeForm(kind) \/ CloseForm(kind)
    PROVE  RowsInv'
<1>1. RowsType /\ UNCHANGED <<net, srv, past>>
  BY DEF RowsInv, PickFiles, TypeForm, CloseForm
<1>2. /\ ui' \in RowsScreen /\ ui'.row = ui.row /\ ui'.base = ui.base /\ ui'.kind = ui.kind
      /\ ui'.ask = ui.ask /\ ui'.view = ui.view /\ (ui'.form => ui.form)
  <2>1. CASE PickFiles
    BY <1>1, <2>1, RowParts DEF PickFiles, RowsScreen
  <2>2. CASE \E kind : TypeForm(kind)
    <3>1. 1 - ui.draft \in Content
      BY <1>1, RowParts DEF Content
    <3> QED BY <1>1, <2>2, <3>1, RowParts DEF TypeForm, RowsScreen
  <2>3. CASE \E kind : CloseForm(kind)
    BY <1>1, <2>3, RowParts DEF CloseForm, RowsScreen
  <2> QED BY <2>1, <2>2, <2>3
<1> QED BY <1>1, <1>2, RowParts DEF RowsInv, RowsType, CopyInv, Lags, FormInv, CatchInv,
      OwnAnswer, CleanInv, OwnIdle, SentInv

LEMMA SaveKeeps ==
    ASSUME RowsInv, NEW kind, SaveForm(kind)
    PROVE  RowsInv'
<1> DEFINE row == IF kind \in Snapshots THEN ui.base ELSE ui.row
           call == [NoSave EXCEPT !.at = "sent", !.version = row.version, !.c = ui.draft,
                                  !.base = ui.base.c, !.files = ui.files]
<1>1. /\ RowsType /\ UNCHANGED <<ui, srv>> /\ ui.kind = kind /\ ui.form /\ ~ui.ask
      /\ ui.view = "rows" /\ net.save.at = "idle"
      /\ net' = [net EXCEPT !.save = call]
  BY DEF RowsInv, SaveForm, FormShown, InRows
<1>2. row \in Stored /\ row.version \in Nat
  BY <1>1, RowParts
<1>3. /\ call \in SaveCall /\ call.at = "sent" /\ call.version = row.version
      /\ call.base = ui.base.c /\ call.row = NoRow
  <2> HIDE DEF row
  <2>1. ui.files \in BOOLEAN
    BY <1>1, RowParts DEF RowsScreen
  <2> QED BY <1>1, <1>2, <2>1, RowMarks, RowParts DEF NoSave, SaveCall
<1>4. row.c = ui.base.c /\ Lags(row.version, row.c)
  BY <1>1, RowParts, Kinds DEF RowsInv, CopyInv, FormInv, RowKinds
<1>5. /\ past' \in RowsPast /\ past'.clean = past.clean /\ past'.stale = past.stale
      /\ past'.blind = past.blind
      /\ past'.sent = IF kind \in Snapshots THEN past.clean ELSE NothingUnderway /\ ~past.stale
  BY <1>1, RowParts DEF SaveForm, RowsPast, NothingUnderway
<1>6. past'.sent => row = srv /\ OwnIdle
  <2>1. CASE kind \in Snapshots
    BY <1>1, <1>5, <2>1 DEF RowsInv, CleanInv
  <2>2. CASE kind \notin Snapshots
    BY <1>1, <1>5, <2>2 DEF RowsInv, CatchInv, OwnAnswer, OwnIdle, NothingUnderway
  <2> QED BY <2>1, <2>2
<1> HIDE DEF row, call
<1>7. /\ net' \in RowsCalls /\ net'.save = call
      /\ net'.list = net.list /\ net'.switch = net.switch /\ net'.del = net.del
  BY <1>1, <1>3, RowParts, SaveReplaced
<1> QED BY <1>1, <1>2, <1>3, <1>4, <1>5, <1>6, <1>7, RowMarks, RowParts DEF RowsInv, RowsType,
      CopyInv, Lags, FormInv, CatchInv, OwnAnswer, CleanInv, OwnIdle, SentInv

LEMMA ServeSaveKeeps ==
    ASSUME RowsInv, ServeSave
    PROVE  RowsInv'
<1> DEFINE s == net.save
           answer(at) == [s EXCEPT !.at = at]
           done == [s EXCEPT !.at = IF s.files THEN "files" ELSE "ok",
                             !.row = IF ui.kind \in Followers THEN srv' ELSE NoRow]
<1>1. /\ RowsType /\ ui' = ui /\ s.at = "sent" /\ s \in SaveCall
  BY RowParts DEF RowsInv, ServeSave
<1>2. ASSUME srv' \in Stored
      PROVE  /\ done \in SaveCall /\ done.at \in {"files", "ok"} /\ done.row \in {srv', NoRow}
  BY <1>1, <1>2, RowMarks DEF SaveCall
<1>3. ASSUME NEW at \in {"gone", "conflict"}
      PROVE  /\ answer(at) \in SaveCall /\ answer(at).at = at /\ answer(at).row = s.row
  BY <1>1 DEF SaveCall
<1>4. /\ [net EXCEPT !.save.at = "gone"] = [net EXCEPT !.save = answer("gone")]
      /\ [net EXCEPT !.save.at = "conflict"] = [net EXCEPT !.save = answer("conflict")]
  BY <1>1, RowParts DEF RowsCalls
<1>5. \/ ~srv.there /\ net' = [net EXCEPT !.save = answer("gone")] /\ UNCHANGED <<srv, past>>
      \/ net' = [net EXCEPT !.save = done] /\ UNCHANGED <<srv, past>>
      \/ /\ srv.there /\ s.version # srv.version
         /\ net' = [net EXCEPT !.save = answer("conflict")] /\ UNCHANGED <<srv, past>>
      \/ /\ srv.there /\ s.version = srv.version
         /\ srv' = [srv EXCEPT !.version = @ + 1, !.c = s.c]
         /\ past' = [past EXCEPT !.blind = @ \/ s.base # srv.c]
         /\ net' = [net EXCEPT !.save = done]
  BY <1>4 DEF ServeSave
<1> HIDE DEF answer, done
<1>6. CASE ~srv.there /\ net' = [net EXCEPT !.save = answer("gone")] /\ UNCHANGED <<srv, past>>
  <2>1. /\ net' \in RowsCalls /\ net'.save.at = "gone" /\ net'.save.row = s.row
        /\ net'.list = net.list /\ net'.switch = net.switch /\ net'.del = net.del
    BY <1>1, <1>3, <1>6, RowParts, SaveReplaced
  <2> QED BY <1>1, <1>6, <2>1, RowParts DEF RowsInv, RowsType, CopyInv, Lags, FormInv, CatchInv,
      OwnAnswer, CleanInv, OwnIdle, SentInv
<1>7. CASE net' = [net EXCEPT !.save = done] /\ UNCHANGED <<srv, past>>
  <2>1. /\ net' \in RowsCalls /\ net'.save.at \in {"files", "ok"} /\ net'.save.row \in {srv, NoRow}
        /\ net'.list = net.list /\ net'.switch = net.switch /\ net'.del = net.del
    BY <1>1, <1>2, <1>7, RowParts, SaveReplaced
  <2> QED BY <1>1, <1>7, <2>1, RowMarks, RowParts DEF RowsInv, RowsType, CopyInv, Lags, FormInv,
      CatchInv, OwnAnswer, CleanInv, OwnIdle, SentInv
<1>8. CASE /\ srv.there /\ s.version # srv.version
           /\ net' = [net EXCEPT !.save = answer("conflict")] /\ UNCHANGED <<srv, past>>
  <2>1. /\ net' \in RowsCalls /\ net'.save.at = "conflict" /\ net'.save.row = s.row
        /\ net'.list = net.list /\ net'.switch = net.switch /\ net'.del = net.del
    BY <1>1, <1>3, <1>8, RowParts, SaveReplaced
  <2> QED BY <1>1, <1>8, <2>1, RowParts DEF RowsInv, RowsType, CopyInv, Lags, FormInv, CatchInv,
      OwnAnswer, CleanInv, OwnIdle, SentInv
<1>9. CASE /\ srv.there /\ s.version = srv.version
           /\ srv' = [srv EXCEPT !.version = @ + 1, !.c = s.c]
           /\ past' = [past EXCEPT !.blind = @ \/ s.base # srv.c]
           /\ net' = [net EXCEPT !.save = done]
  <2>1. /\ srv' \in Stored /\ srv'.version = srv.version + 1 /\ srv'.there = srv.there
    BY <1>1, <1>9, RowParts, RowWritten
  <2>2. /\ net' \in RowsCalls /\ net'.save.at \in {"files", "ok"}
        /\ net'.save.row \in {srv', NoRow}
        /\ net'.list = net.list /\ net'.switch = net.switch /\ net'.del = net.del
    BY <1>1, <1>2, <1>9, <2>1, RowParts, SaveReplaced
  <2>3. s.base = srv.c
    BY <1>1, <1>9 DEF RowsInv, CopyInv, Lags
  <2>4. past' = past
    BY <1>1, <1>9, <2>3, RowParts DEF RowsPast
  <2>5. CopyInv'
    <3>1. \A row \in {ui.row, ui.base, net.list.row} : row.version <= srv.version
      BY <1>9 DEF RowsInv, CopyInv, Lags
    <3>2. net.del.at = "sent" => net.del.version <= srv.version
      BY <1>9 DEF RowsInv, CopyInv, Lags
    <3> QED BY <1>1, <2>1, <2>2, <3>1, <3>2, RowMarks, RowParts DEF CopyInv, Lags
  <2> QED BY <1>1, <2>1, <2>2, <2>4, <2>5 DEF RowsInv, RowsType, FormInv, CatchInv, OwnAnswer,
        CleanInv, SentInv, OwnIdle
<1> QED BY <1>5, <1>6, <1>7, <1>8, <1>9

LEMMA ServeFilesKeeps ==
    ASSUME RowsInv, ServeFiles
    PROVE  RowsInv'
<1> DEFINE s == [net.save EXCEPT !.at = "ok"]
<1>1. RowsType /\ UNCHANGED <<ui, srv, past>> /\ net.save \in SaveCall /\ net.save.at = "files"
  BY RowParts DEF RowsInv, ServeFiles
<1>2. s \in SaveCall /\ s.at = "ok" /\ s.row = net.save.row /\ net' = [net EXCEPT !.save = s]
  BY <1>1, RowParts DEF ServeFiles, SaveCall, RowsCalls
<1> HIDE DEF s
<1>3. /\ net' \in RowsCalls /\ net'.save = s
      /\ net'.list = net.list /\ net'.switch = net.switch /\ net'.del = net.del
  BY <1>1, <1>2, RowParts, SaveReplaced
<1> QED BY <1>1, <1>2, <1>3, RowParts DEF RowsInv, RowsType, CopyInv, Lags, FormInv, CatchInv,
      OwnAnswer, CleanInv, OwnIdle, SentInv

LEMMA LoseKeeps ==
    ASSUME RowsInv, LoseSave
    PROVE  RowsInv'
<1>1. RowsType /\ UNCHANGED <<ui, srv>>
  BY DEF RowsInv, LoseSave
<1>2. /\ net' \in RowsCalls /\ net'.save = NoSave
      /\ net'.list = net.list /\ net'.switch = net.switch /\ net'.del = net.del
  BY <1>1, RowMarks, RowParts, SaveReplaced DEF LoseSave
<1>3. /\ past' \in RowsPast /\ past'.stale /\ ~past'.clean /\ ~past'.sent
      /\ past'.blind = past.blind
  BY <1>1, RowParts, RowDisturbed DEF LoseSave
<1> QED BY <1>1, <1>2, <1>3, RowMarks, RowParts DEF RowsInv, RowsType, CopyInv, Lags, FormInv,
      CatchInv, OwnAnswer, CleanInv, OwnIdle, SentInv

\* The calls after an answered save: the list is read again or left as it is.
LEMMA SaveEnds ==
    ASSUME net \in RowsCalls
    PROVE  /\ net' = [net EXCEPT !.save = NoSave, !.list = Invalidated] =>
                /\ net' \in RowsCalls /\ net'.save = NoSave /\ net'.list = Invalidated
                /\ net'.switch = net.switch /\ net'.del = net.del
           /\ net' = [net EXCEPT !.save = NoSave] =>
                /\ net' \in RowsCalls /\ net'.save = NoSave /\ net'.list = net.list
                /\ net'.switch = net.switch /\ net'.del = net.del
BY RowMarks DEF RowsCalls

LEMMA AnswerKeeps ==
    ASSUME RowsInv, NEW kind, SaveAnswered(kind)
    PROVE  RowsInv'
<1>1. RowsType /\ UNCHANGED <<srv, past>> /\ ui.kind = kind /\ kind \in RowKinds
  BY RowParts DEF RowsInv, SaveAnswered, InRows
<1>2. /\ net' \in RowsCalls /\ net'.save = NoSave
      /\ net'.list \in {Invalidated, net.list} /\ net'.switch = net.switch /\ net'.del = net.del
      /\ net.save.at = "ok" => net'.list = Invalidated
  BY <1>1, RowParts, SaveEnds DEF SaveAnswered
<1>3. CASE net.save.at \in {"conflict", "gone"} /\ ui' = ui
  BY <1>1, <1>2, <1>3, RowMarks, RowParts DEF RowsInv, RowsType, CopyInv, Lags, FormInv, CatchInv,
     OwnAnswer, CleanInv, OwnIdle, SentInv
<1>4. CASE net.save.at = "ok" /\ kind \in Followers /\ ui' = Follow(net.save.row)
  <2>1. net'.list = Invalidated
    BY <1>2, <1>4
  <2>2. /\ ui' \in RowsScreen /\ ui'.row = net.save.row /\ ui'.view = "rows"
        /\ ui'.kind = ui.kind /\ ui'.ask = ui.ask
        /\ \/ ui.kind \in Followers /\ ui'.base = net.save.row
           \/ /\ ui'.base = ui.base
              /\ ui'.form => ui.form
              /\ ui'.form /\ ui.kind \in Followers => net.save.row.c = ui.row.c
    BY <1>1, <1>4, RowParts, RowFollowed
  <2> QED BY <1>1, <1>2, <1>4, <2>1, <2>2, RowMarks, RowParts, Kinds DEF RowsInv, RowsType, CopyInv,
      Lags, FormInv, CatchInv, OwnAnswer, CleanInv, OwnIdle, SentInv
<1>5. CASE net.save.at = "ok" /\ ui' = [ui EXCEPT !.form = FALSE, !.files = FALSE]
  <2>1. /\ ui' \in RowsScreen /\ ui'.row = ui.row /\ ui'.base = ui.base /\ ~ui'.form
        /\ ui'.kind = ui.kind /\ ui'.ask = ui.ask /\ ui'.view = ui.view
    BY <1>1, <1>5, RowParts DEF RowsScreen
  <2>2. net'.list = Invalidated
    BY <1>2, <1>5
  <2> QED BY <1>1, <1>2, <2>1, <2>2, RowMarks, RowParts DEF RowsInv, RowsType, CopyInv, Lags,
      FormInv, CatchInv, OwnAnswer, CleanInv, OwnIdle, SentInv
<1> QED BY <1>1, <1>3, <1>4, <1>5 DEF SaveAnswered

LEMMA SettingKeeps ==
    ASSUME RowsInv, SettingAnswered
    PROVE  RowsInv'
<1>1. RowsType /\ srv' = srv /\ ui.kind = "setting"
  BY DEF RowsInv, SettingAnswered, InRows
<1>2. CASE /\ net.save.at = "ok" /\ ui' = Follow(net.save.row)
           /\ net' = [net EXCEPT !.save = NoSave]
           /\ past' = [past EXCEPT !.stale = @ \/ net.list.at = "ok" \/ net.save.row # srv]
  <2>1. /\ net' \in RowsCalls /\ net'.save = NoSave /\ net'.list = net.list
        /\ net'.switch = net.switch /\ net'.del = net.del
    BY <1>1, <1>2, RowParts, SaveEnds
  <2>2. /\ ui' \in RowsScreen /\ ui'.row = net.save.row /\ ui'.view = "rows"
        /\ ui'.kind = ui.kind /\ ui'.ask = ui.ask
        /\ \/ ui.kind \in Followers /\ ui'.base = net.save.row
           \/ /\ ui'.base = ui.base
              /\ ui'.form => ui.form
              /\ ui'.form /\ ui.kind \in Followers => net.save.row.c = ui.row.c
    BY <1>1, <1>2, RowParts, RowFollowed
  <2> DEFINE stale == past.stale \/ net.list.at = "ok" \/ net.save.row # srv
  <2>3. past' = [past EXCEPT !.stale = stale] /\ stale \in BOOLEAN
    BY <1>1, <1>2, RowParts DEF RowsPast
  <2>4. stale \/ (~past.stale /\ net.list.at # "ok" /\ net.save.row = srv)
    OBVIOUS
  <2> HIDE DEF stale
  <2>5. /\ past' \in RowsPast /\ past'.stale = stale /\ past'.clean = past.clean
        /\ past'.sent = past.sent /\ past'.blind = past.blind
    BY <1>1, <2>3, RowParts DEF RowsPast
  <2>6. net.list.at \in {"idle", "sent", "ok"}
    BY <1>1, RowParts DEF ListCall
  <2> QED BY <1>1, <1>2, <2>1, <2>2, <2>4, <2>5, <2>6, RowMarks, RowParts, Kinds DEF RowsInv,
      RowsType, CopyInv, Lags, FormInv, CatchInv, OwnAnswer, CleanInv, OwnIdle, SentInv
<1>3. CASE UNCHANGED <<ui, past>> /\ net.save.at \in {"conflict", "gone"}
  <2>1. /\ net' \in RowsCalls /\ net'.save = NoSave
        /\ net'.list \in {Invalidated, net.list} /\ net'.switch = net.switch /\ net'.del = net.del
    BY <1>1, <1>3, RowParts, SaveEnds DEF SettingAnswered
  <2> QED BY <1>1, <1>3, <2>1, RowMarks, RowParts DEF RowsInv, RowsType, CopyInv, Lags, FormInv,
      CatchInv, OwnAnswer, CleanInv, OwnIdle, SentInv
<1> QED BY <1>2, <1>3 DEF SettingAnswered

-----------------------------------------------------------------------------
(* The status switch, the delete and the writes of others                  *)

\* A write of the row under the teacher's calls: what they hold lags behind still.
LEMMA LagsOn ==
    ASSUME RowsType, CopyInv, srv.there, srv' \in Stored,
           srv'.version = srv.version + 1, srv'.there, ui'.row = ui.row, ui'.base = ui.base,
           net'.list.row = net.list.row, net'.save = net.save,
           net'.del.at = "sent" => net'.del = net.del
    PROVE  CopyInv'
<1>1. \A row \in {ui.row, ui.base, net.list.row, net.save.row} : row.version <= srv.version
  BY DEF CopyInv, Lags
<1>2. \A call \in {net.save, net.del} : call.at = "sent" => call.version <= srv.version
  BY DEF CopyInv, Lags
<1> QED BY <1>1, <1>2, RowParts DEF CopyInv, Lags

LEMMA SwitchKeeps ==
    ASSUME RowsInv, NEW kind, SwitchStatus(kind)
    PROVE  RowsInv'
<1> DEFINE call == [at |-> "sent", version |-> ui.row.version, base |-> ui.row.c]
<1>1. RowsType /\ UNCHANGED <<ui, srv>> /\ ~ui.form
  BY DEF RowsInv, SwitchStatus
<1>2. call \in SwitchCall /\ call.at = "sent" /\ net' = [net EXCEPT !.switch = call]
  BY <1>1, RowParts DEF SwitchStatus, SwitchCall
<1> HIDE DEF call
<1>3. /\ net' \in RowsCalls /\ net'.switch = call
      /\ net'.list = net.list /\ net'.save = net.save /\ net'.del = net.del
  BY <1>1, <1>2, RowParts, SwitchReplaced
<1>4. /\ past' \in RowsPast /\ ~past'.sent /\ past'.clean = past.clean
      /\ past'.stale = past.stale /\ past'.blind = past.blind
  BY <1>1, RowParts DEF SwitchStatus, RowsPast
<1>5. net.switch.at # "ok"
  BY DEF SwitchStatus
<1> QED BY <1>1, <1>2, <1>3, <1>4, <1>5, RowParts DEF RowsInv, RowsType, CopyInv, Lags, FormInv,
      CatchInv, OwnAnswer, CleanInv, OwnIdle, SentInv

LEMMA ServeSwitchKeeps ==
    ASSUME RowsInv, ServeSwitch
    PROVE  RowsInv'
<1> DEFINE answer(at) == [net.switch EXCEPT !.at = at]
<1>1. RowsType /\ UNCHANGED <<ui, past>> /\ net.switch.at = "sent"
  BY DEF RowsInv, ServeSwitch
<1>2. PICK at \in {"ok", "conflict", "gone"} :
         /\ net' = [net EXCEPT !.switch = answer(at)]
         /\ at = "ok" => srv.there /\ srv' = [srv EXCEPT !.version = @ + 1, !.live = ~@]
         /\ at # "ok" => srv' = srv
  BY <1>1, RowParts DEF ServeSwitch, RowsCalls
<1>3. answer(at) \in SwitchCall /\ answer(at).at = at
  BY <1>1, RowParts DEF SwitchCall
<1> HIDE DEF answer
<1>4. /\ net' \in RowsCalls /\ net'.switch.at = at
      /\ net'.list = net.list /\ net'.save = net.save /\ net'.del = net.del
  BY <1>1, <1>2, <1>3, RowParts, SwitchReplaced
<1>5. ~OwnIdle
  BY <1>1 DEF OwnIdle
<1>6. CASE at = "ok"
  <2>1. /\ srv' \in Stored /\ srv'.version = srv.version + 1 /\ srv'.there = srv.there
    BY <1>1, <1>2, <1>6, RowParts, RowWritten
  <2>2. CopyInv'
    BY <1>1, <1>2, <1>4, <1>6, <2>1, LagsOn DEF RowsInv
  <2> QED BY <1>1, <1>4, <1>5, <1>6, <2>1, <2>2 DEF RowsInv, RowsType, FormInv, CatchInv,
        OwnAnswer, CleanInv, SentInv
<1>7. CASE at # "ok"
  BY <1>1, <1>2, <1>4, <1>5, <1>7, RowParts DEF RowsInv, RowsType, CopyInv, Lags, FormInv, CatchInv,
     OwnAnswer, CleanInv, SentInv
<1> QED BY <1>6, <1>7

LEMMA SwitchAnsweredKeeps ==
    ASSUME RowsInv, NEW kind, SwitchAnswered(kind)
    PROVE  RowsInv'
<1> DEFINE list == IF net.switch.at = "gone" THEN net.list ELSE Invalidated
<1>1. RowsType /\ UNCHANGED <<ui, srv, past>> /\ net.switch.at # "idle"
  BY DEF RowsInv, SwitchAnswered
<1>2. /\ net' = [net EXCEPT !.switch = NoCall, !.list = list]
      /\ list \in ListCall /\ list.row \in {net.list.row, NoRow}
      /\ list.at = "sent" \/ (list = net.list /\ net.switch.at # "ok")
  BY <1>1, RowMarks, RowParts DEF SwitchAnswered
<1> HIDE DEF list
<1>3. /\ net' \in RowsCalls /\ net'.switch = NoCall /\ net'.list = list
      /\ net'.save = net.save /\ net'.del = net.del
  BY <1>1, <1>2, RowMarks, RowParts DEF RowsCalls
<1> QED BY <1>1, <1>2, <1>3, RowMarks, RowParts DEF RowsInv, RowsType, CopyInv, Lags, FormInv,
      CatchInv, OwnAnswer, CleanInv, OwnIdle, SentInv

\* The confirmation of a delete or an archive opens on a page without a form, but for
\* the settings of a chapter, whose form follows.
LEMMA AskKeeps ==
    ASSUME RowsInv, \E kind : AskDelete(kind) \/ AskArchive(kind) \/ LeaveDelete(kind)
    PROVE  RowsInv'
<1>1. RowsType /\ UNCHANGED <<net, srv, past>>
  BY DEF RowsInv, AskDelete, AskArchive, LeaveDelete
<1>2. /\ ui' \in RowsScreen /\ ui'.row = ui.row /\ ui'.base \in {ui.base, ui.row}
      /\ ui'.form = ui.form /\ ui'.kind = ui.kind /\ ui'.view = ui.view
      /\ ui'.ask => ~ui.form \/ ui.kind \notin Snapshots
      /\ ui'.base = ui.base \/ ~ui.form
  <2>1. CASE \E kind : AskDelete(kind)
    BY <1>1, <2>1, RowParts DEF AskDelete, RowsScreen
  <2>2. CASE \E kind : AskArchive(kind)
    <3>1. ui' = [ui EXCEPT !.ask = TRUE] /\ (~ui.form \/ ui.kind \notin Snapshots)
      BY <2>2 DEF AskArchive, Listed, InRows, Snapshots
    <3> QED BY <1>1, <3>1, RowParts DEF RowsScreen
  <2>3. CASE \E kind : LeaveDelete(kind)
    BY <1>1, <2>3, RowParts DEF LeaveDelete, RowsScreen
  <2> QED BY <2>1, <2>2, <2>3
<1> QED BY <1>1, <1>2, RowParts DEF RowsInv, RowsType, CopyInv, Lags, FormInv, CatchInv,
      OwnAnswer, CleanInv, OwnIdle, SentInv

LEMMA ConfirmKeeps ==
    ASSUME RowsInv, NEW kind, ConfirmDelete(kind)
    PROVE  RowsInv'
<1> DEFINE call == [at |-> "sent", version |-> ui.base.version, base |-> ui.base.c]
<1>1. RowsType /\ UNCHANGED <<ui, srv>> /\ ui.ask /\ net.del.at = "idle"
  BY DEF RowsInv, ConfirmDelete
<1>2. /\ call \in DeleteCall /\ call.at = "sent" /\ call.version = ui.base.version
      /\ call.base = ui.base.c /\ net' = [net EXCEPT !.del = call]
  BY <1>1, RowParts DEF ConfirmDelete, DeleteCall
<1> HIDE DEF call
<1>3. /\ net' \in RowsCalls /\ net'.del = call
      /\ net'.list = net.list /\ net'.save = net.save /\ net'.switch = net.switch
  BY <1>1, <1>2, RowParts, DeleteReplaced
<1>4. /\ past' \in RowsPast /\ ~past'.sent /\ past'.clean = past.clean
      /\ past'.stale = past.stale /\ past'.blind = past.blind
  BY <1>1, RowParts DEF ConfirmDelete, RowsPast
<1> QED BY <1>1, <1>2, <1>3, <1>4, RowParts DEF RowsInv, RowsType, CopyInv, Lags, FormInv,
      CatchInv, OwnAnswer, CleanInv, OwnIdle, SentInv

LEMMA ServeDeleteKeeps ==
    ASSUME RowsInv, ServeDelete
    PROVE  RowsInv'
<1> DEFINE answer(at) == [net.del EXCEPT !.at = at]
<1>1. RowsType /\ ui' = ui /\ net.del.at = "sent"
  BY DEF RowsInv, ServeDelete
<1>2. PICK at \in {"ok", "no"} :
         /\ net' = [net EXCEPT !.del = answer(at)]
         /\ at = "no" => UNCHANGED <<srv, past>>
         /\ at = "ok" => /\ srv' = NoRow
                         /\ srv.there
                         /\ ui.kind \in VersionedDelete => net.del.version = srv.version
                         /\ past' = [past EXCEPT !.blind = @ \/ (ui.kind \in VersionedDelete
                                                                 /\ net.del.base # srv.c)]
  BY <1>1, RowParts DEF ServeDelete, RowsCalls
<1>3. answer(at) \in DeleteCall /\ answer(at).at = at
  BY <1>1, RowParts DEF DeleteCall
<1> HIDE DEF answer
<1>4. /\ net' \in RowsCalls /\ net'.del.at = at
      /\ net'.list = net.list /\ net'.save = net.save /\ net'.switch = net.switch
  BY <1>1, <1>2, <1>3, RowParts, DeleteReplaced
<1>5. ~OwnIdle
  BY <1>1 DEF OwnIdle
<1>6. past' = past
  <2>1. CASE at = "ok"
    <3>1. ~(ui.kind \in VersionedDelete /\ net.del.base # srv.c)
      BY <1>1, <1>2, <2>1 DEF RowsInv, CopyInv, Lags
    <3> QED BY <1>1, <1>2, <2>1, <3>1, RowParts DEF RowsPast
  <2> QED BY <1>2, <2>1
<1>7. CASE at = "ok"
  BY <1>1, <1>2, <1>4, <1>5, <1>6, <1>7, RowMarks, RowParts DEF RowsInv, RowsType, CopyInv, Lags,
     FormInv,
     CatchInv, OwnAnswer, CleanInv, SentInv
<1>8. CASE at = "no"
  BY <1>1, <1>2, <1>4, <1>5, <1>8, RowParts DEF RowsInv, RowsType, CopyInv, Lags, FormInv, CatchInv,
     OwnAnswer, CleanInv, SentInv
<1> QED BY <1>7, <1>8

LEMMA ServeArchiveKeeps ==
    ASSUME RowsInv, ServeArchive
    PROVE  RowsInv'
<1> DEFINE answer(at) == [net.del EXCEPT !.at = at]
<1>1. RowsType /\ UNCHANGED <<ui, past>> /\ net.del.at = "sent"
  BY DEF RowsInv, ServeArchive
<1>2. PICK at \in {"ok", "no"} :
         /\ net' = [net EXCEPT !.del = answer(at)] /\ (at = "ok" <=> srv.there)
         /\ srv' = srv \/ (at = "ok" /\ srv' = [srv EXCEPT !.version = @ + 1, !.live = FALSE])
  <2>1. CASE srv.there
    BY <1>1, <2>1, RowParts DEF ServeArchive, RowsCalls
  <2>2. CASE ~srv.there
    BY <1>1, <2>2, RowParts DEF ServeArchive, RowsCalls
  <2> QED BY <2>1, <2>2
<1>3. answer(at) \in DeleteCall /\ answer(at).at = at
  BY <1>1, RowParts DEF DeleteCall
<1> HIDE DEF answer
<1>4. /\ net' \in RowsCalls /\ net'.del.at = at
      /\ net'.list = net.list /\ net'.save = net.save /\ net'.switch = net.switch
  BY <1>1, <1>2, <1>3, RowParts, DeleteReplaced
<1>5. ~OwnIdle
  BY <1>1 DEF OwnIdle
<1>6. CASE srv' = srv
  BY <1>1, <1>4, <1>5, <1>6, RowParts DEF RowsInv, RowsType, CopyInv, Lags, FormInv, CatchInv,
     OwnAnswer, CleanInv, SentInv
<1>7. CASE at = "ok" /\ srv' = [srv EXCEPT !.version = @ + 1, !.live = FALSE]
  <2>1. /\ srv' \in Stored /\ srv'.version = srv.version + 1 /\ srv'.there = srv.there
    BY <1>1, <1>7, RowParts, RowWritten
  <2>2. CopyInv'
    BY <1>1, <1>2, <1>4, <1>7, <2>1, LagsOn DEF RowsInv
  <2> QED BY <1>1, <1>4, <1>5, <1>7, <2>1, <2>2 DEF RowsInv, RowsType, FormInv, CatchInv,
        OwnAnswer, CleanInv, SentInv
<1> QED BY <1>2, <1>6, <1>7

LEMMA DeleteAnsweredKeeps ==
    ASSUME RowsInv, NEW kind, DeleteAnswered(kind)
    PROVE  RowsInv'
<1>1. RowsType /\ UNCHANGED <<srv, past>> /\ net.del.at \in {"ok", "no"}
  BY DEF RowsInv, DeleteAnswered
<1>2. /\ ui' \in RowsScreen /\ ui'.row = ui.row /\ ui'.base = ui.base /\ ui'.form = ui.form
      /\ ui'.kind = ui.kind /\ ui'.view = ui.view /\ (ui'.ask => ui.ask)
  BY <1>1, RowParts DEF DeleteAnswered, RowsScreen
<1>3. /\ net' \in RowsCalls /\ net'.del = NoCall
      /\ net'.save = net.save /\ net'.switch = net.switch
      /\ net'.list = Invalidated \/ (net'.list = net.list /\ net.del.at = "no")
  BY <1>1, RowMarks, RowParts DEF DeleteAnswered, RowsCalls
<1>4. ~OwnIdle
  BY <1>1 DEF OwnIdle
<1> QED BY <1>1, <1>2, <1>3, <1>4, RowMarks, RowParts DEF RowsInv, RowsType, CopyInv, Lags, FormInv,
      CatchInv, OwnAnswer, CleanInv, OwnIdle, SentInv

LEMMA OtherKeeps ==
    ASSUME RowsInv, OtherWrites
    PROVE  RowsInv'
<1>1. RowsType /\ UNCHANGED <<ui, net>> /\ srv.there
  BY DEF RowsInv, OtherWrites
<1>2. /\ past' \in RowsPast /\ past'.stale /\ ~past'.clean /\ ~past'.sent
      /\ past'.blind = past.blind
  BY <1>1, RowParts, RowDisturbed DEF OtherWrites
<1>3. CASE srv' = NoRow
  BY <1>1, <1>2, <1>3, RowMarks DEF RowsInv, RowsType, CopyInv, Lags, FormInv, CatchInv,
     OwnAnswer, CleanInv, OwnIdle, SentInv
<1>4. CASE srv' = [srv EXCEPT !.version = @ + 1, !.c = 1 - @]
  <2>1. 1 - srv.c \in Content
    BY <1>1 DEF RowsType, Stored, Content
  <2>2. srv' \in Stored /\ srv'.version = srv.version + 1 /\ srv'.there = srv.there
    BY <1>1, <1>4, <2>1, RowParts, RowWritten
  <2>3. CopyInv'
    BY <1>1, <2>2, LagsOn DEF RowsInv
  <2> QED BY <1>1, <1>2, <2>2, <2>3 DEF RowsInv, RowsType, FormInv, CatchInv, CleanInv, SentInv
<1> QED BY <1>3, <1>4 DEF OtherWrites

-----------------------------------------------------------------------------
(* The theorems                                                            *)

LEMMA RowsInitially ==
    ASSUME InitRows
    PROVE  RowsInv
<1>1. PICK kind \in RowKinds :
        /\ ui = [screen |-> "rows", kind |-> kind, view |-> "pending", row |-> NoRow,
                 form |-> FALSE, base |-> NoRow, draft |-> NoContent, files |-> FALSE,
                 ask |-> FALSE]
        /\ net = [list |-> NoList, save |-> NoSave, switch |-> NoCall, del |-> NoCall]
        /\ srv = [NoRow EXCEPT !.there = TRUE, !.version = 1, !.live = TRUE]
        /\ past = [events |-> 0, stale |-> FALSE, clean |-> FALSE, sent |-> FALSE, blind |-> FALSE]
  BY DEF InitRows
<1>2. srv \in Stored /\ srv.version = 1
  BY <1>1 DEF NoRow, Stored, Content, NoContent
<1>3. ui \in RowsScreen
  BY <1>1, RowMarks DEF RowsScreen, Content, NoContent
<1>4. net \in RowsCalls /\ past \in RowsPast
  BY <1>1, RowMarks DEF RowsCalls, RowsPast
<1>5. CopyInv
  BY <1>1, <1>2, RowMarks DEF CopyInv, Lags
<1> QED BY <1>1, <1>2, <1>3, <1>4, <1>5, RowMarks DEF RowsInv, RowsType, FormInv, CatchInv, CleanInv,
      SentInv

LEMMA RowsNext ==
    ASSUME RowsInv, [NextRows]_browser
    PROVE  RowsInv'
<1>1. CASE UNCHANGED browser
  BY <1>1 DEF browser, RowsInv, RowsType, CopyInv, Lags, FormInv, CatchInv, OwnAnswer, CleanInv,
     OwnIdle, SentInv
<1>2. ASSUME NEW kind \in RowKinds, KindStep(kind)
      PROVE  RowsInv'
  BY <1>2, ReadKeeps, ArriveKeeps, FailKeeps, OpenKeeps, FieldsKeep, SaveKeeps, AnswerKeeps,
     SwitchKeeps, SwitchAnsweredKeeps, AskKeeps, ConfirmKeeps, DeleteAnsweredKeeps DEF KindStep
<1>3. CASE \/ PickFiles \/ SettingAnswered
           \/ ServeRows \/ ServeSave \/ ServeFiles \/ LoseSave
           \/ ServeSwitch \/ ServeDelete \/ ServeArchive \/ OtherWrites
  BY <1>3, FieldsKeep, SettingKeeps, ServeRowsKeeps, ServeSaveKeeps, ServeFilesKeeps, LoseKeeps,
     ServeSwitchKeeps, ServeDeleteKeeps, ServeArchiveKeeps, OtherKeeps
<1> QED BY <1>1, <1>2, <1>3, StepsOfScreens DEF RowsStep

\* List, form, calls and row keep to the code's types, every copy of the row lags behind
\* the stored one, and a form opened on an up-to-date list keeps the teacher's other
\* calls away, in every state of every kind of list.
THEOREM RowsInvariant == SpecRows => []RowsInv
<1>1. InitRows => RowsInv
  BY RowsInitially
<1>2. RowsInv /\ [NextRows]_browser => RowsInv'
  BY RowsNext
<1> QED BY <1>1, <1>2, PTL DEF SpecRows

\* List, form, calls and row hold what the code's types allow.
THEOREM RowsTyped == SpecRows => []RowsTypeOK
<1>1. RowsInv => RowsTypeOK
  BY DEF RowsInv, RowsTypeOK
<1> QED BY <1>1, RowsInvariant, PTL

\* The version of a save tells content that was seen from content that was not: what
\* is accepted replaces what its form showed, and what is refused was overtaken by
\* somebody else's write or a lost message.
THEOREM NeverBlind == SpecRows => []NoBlindSave
<1>1. RowsInv => NoBlindSave
  BY DEF RowsInv, SentInv, NoBlindSave, NoBlindWrite, ConflictIsOthers
<1> QED BY <1>1, RowsInvariant, PTL

\* With every answer in and nobody else's write since the last read, the list shows
\* the stored row.
THEOREM CatchesUp == SpecRows => []ListCatchesUp
<1>1. RowsInv => ListCatchesUp
  BY DEF RowsInv, CatchInv, OwnAnswer, ListCatchesUp, NothingUnderway
<1> QED BY <1>1, RowsInvariant, PTL

(***************************************************************************)
(* Accounts                                                                *)
(***************************************************************************)

-----------------------------------------------------------------------------
(* The parts of the records of the account page                            *)

LEMMA AccountMarks ==
    /\ SomeUser \in User /\ NoRequest \in AccountCall /\ NoRequest.at = "idle"
    /\ NoUser = [at |-> "idle", user |-> SomeUser] /\ NoSessions = [at |-> "idle", live |-> FALSE]
    /\ NewPassword \in Nat /\ NewPassword = MaxCall + 1 /\ MaxCall \in Nat /\ 0 \in 0..MaxCall
BY AccountAssumption DEF SomeUser, User, Names, Roles, NoRequest, AccountCall, NoUser, NoSessions,
   NewPassword, ReadStates

LEMMA AccountParts ==
    ASSUME AccountType
    PROVE  /\ ui \in AccountScreen /\ net \in AccountCalls /\ srv \in AccountRows
           /\ past \in AccountPast
           /\ ui.user \in User /\ ui.plan \in Plans /\ ui.plan.calls \in 0..MaxCall
           /\ ui.shown \in 0..MaxCall /\ ui.old \in BOOLEAN
           /\ ui.tab \in {"detail", "sessions"} /\ ui.view \in {"pending", "user", "error"}
           /\ ui.sess \in {"unread", "some", "none", "error"}
           /\ net.user \in [at : ReadStates, user : User]
           /\ net.sess \in [at : ReadStates, live : BOOLEAN]
           /\ net.call \in [Ops -> AccountCall]
           /\ srv.user \in User /\ srv.pw \in 0..NewPassword
           /\ {srv.live, srv.peer, srv.third} \subseteq BOOLEAN
           /\ past.events \in Nat /\ past.calls \in Nat /\ past.resets \in Nat
           /\ {past.stale, past.staleSess, past.repw, past.signin, past.suspended} \subseteq BOOLEAN
<1>1. \A plan \in Plans : plan.calls \in 0..MaxCall
  BY AccountAssumption
<1> QED BY <1>1 DEF AccountType, AccountScreen, AccountCalls, AccountRows, AccountPast

\* The call of one dialog is replaced.
LEMMA CallReplaced ==
    ASSUME NEW calls \in [Ops -> AccountCall], NEW op \in Ops, NEW c \in AccountCall,
           NEW next, next = [calls EXCEPT ![op] = c]
    PROVE  /\ next \in [Ops -> AccountCall] /\ next[op] = c
           /\ \A o \in Ops : o # op => next[o] = calls[o]
OBVIOUS

\* One of the two reads or the calls are replaced.
LEMMA UserReadReplaced ==
    ASSUME net \in AccountCalls, NEW x \in [at : ReadStates, user : User],
           net' = [net EXCEPT !.user = x]
    PROVE  net' \in AccountCalls /\ net'.user = x /\ net'.sess = net.sess /\ net'.call = net.call
BY DEF AccountCalls
LEMMA SessReadReplaced ==
    ASSUME net \in AccountCalls, NEW x \in [at : ReadStates, live : BOOLEAN],
           net' = [net EXCEPT !.sess = x]
    PROVE  net' \in AccountCalls /\ net'.sess = x /\ net'.user = net.user /\ net'.call = net.call
BY DEF AccountCalls
LEMMA CallsReplaced ==
    ASSUME net \in AccountCalls, NEW x \in [Ops -> AccountCall],
           net' = [net EXCEPT !.call = x]
    PROVE  net' \in AccountCalls /\ net'.call = x /\ net'.user = net.user /\ net'.sess = net.sess
BY DEF AccountCalls

-----------------------------------------------------------------------------
(* The invariant is kept: the reads                                        *)

LEMMA ServeUserKeeps ==
    ASSUME AccountInv, ServeUser
    PROVE  AccountInv'
<1> DEFINE answer == [at |-> "ok", user |-> srv.user]
<1>1. AccountType /\ UNCHANGED <<ui, srv>> /\ net' = [net EXCEPT !.user = answer]
  BY DEF AccountInv, ServeUser
<1>2. answer \in [at : ReadStates, user : User] /\ answer.at = "ok" /\ answer.user = srv.user
  BY <1>1, AccountParts DEF ReadStates
<1> HIDE DEF answer
<1>3. net' \in AccountCalls /\ net'.user = answer /\ net'.sess = net.sess /\ net'.call = net.call
  BY <1>1, <1>2, AccountParts, UserReadReplaced
<1>4. /\ past' \in AccountPast /\ past'.calls = past.calls /\ past'.resets = past.resets
      /\ past'.staleSess = past.staleSess /\ past'.repw = past.repw /\ past'.signin = past.signin
  BY <1>1, AccountParts DEF ServeUser, AccountPast
<1>5. UserInv' /\ TabInv'
  BY <1>1, <1>2, <1>3 DEF AccountInv, UserInv, TabInv, ServeUser
<1> QED BY <1>1, <1>3, <1>4, <1>5 DEF AccountInv, AccountType, CallInv, CountInv,
      SessInv, SessionsShown, AccountShown, OnAccount, ResetInv, Works

LEMMA UserArrivesKeeps ==
    ASSUME AccountInv, UserArrives
    PROVE  AccountInv'
<1>1. /\ AccountType /\ UNCHANGED <<srv, past>> /\ net' = [net EXCEPT !.user = NoUser]
      /\ net.user.at = "ok"
  BY DEF AccountInv, UserArrives
<1>2. NoUser \in [at : ReadStates, user : User] /\ NoUser.at = "idle"
  BY AccountMarks DEF ReadStates
<1>3. net' \in AccountCalls /\ net'.user = NoUser /\ net'.sess = net.sess /\ net'.call = net.call
  BY <1>1, <1>2, AccountParts, UserReadReplaced
<1>4. /\ ui' \in AccountScreen /\ ui'.user = net.user.user /\ ui'.view = "user"
      /\ ui'.screen = ui.screen /\ ui'.plan = ui.plan /\ ui'.tab = ui.tab
      /\ ui'.shown = ui.shown /\ ui'.sess = ui.sess /\ ui'.old = ui.old
  BY <1>1, AccountParts DEF UserArrives, AccountScreen
<1> QED BY <1>1, <1>2, <1>3, <1>4, AccountParts DEF AccountInv, AccountType, CallInv, CountInv,
      UserInv, TabInv, SessInv, SessionsShown, AccountShown, OnAccount, ResetInv, Works

LEMMA UserFailsKeeps ==
    ASSUME AccountInv, UserFails
    PROVE  AccountInv'
<1>1. AccountType /\ srv' = srv /\ net' = [net EXCEPT !.user = NoUser]
  BY DEF AccountInv, UserFails
<1>2. NoUser \in [at : ReadStates, user : User] /\ NoUser.at = "idle"
  BY AccountMarks DEF ReadStates
<1>3. net' \in AccountCalls /\ net'.user = NoUser /\ net'.sess = net.sess /\ net'.call = net.call
  BY <1>1, <1>2, AccountParts, UserReadReplaced
<1>4. /\ ui' \in AccountScreen /\ ui'.view = "error" /\ ui'.shown = 0
      /\ ui'.plan = ui.plan /\ ui'.tab = ui.tab /\ ui'.sess = ui.sess /\ ui'.old = ui.old
  BY <1>1, AccountParts, AccountMarks DEF UserFails, AccountScreen
<1>5. /\ past' \in AccountPast /\ past'.calls = past.calls /\ past'.resets = past.resets
      /\ past'.stale = past.stale /\ past'.staleSess = past.staleSess
      /\ past'.repw = past.repw /\ past'.signin = past.signin
  BY <1>1, AccountParts DEF UserFails, Spend, AccountPast
<1> QED BY <1>1, <1>2, <1>3, <1>4, <1>5 DEF AccountInv, AccountType, CallInv, CountInv, UserInv,
      TabInv, SessInv, SessionsShown, AccountShown, OnAccount, ResetInv, Works

LEMMA ReopenKeeps ==
    ASSUME AccountInv, ReopenAccount
    PROVE  AccountInv'
<1> DEFINE read == [net.user EXCEPT !.at = "sent"]
<1>1. /\ AccountType /\ UNCHANGED <<srv, past>> /\ net' = [net EXCEPT !.user = read]
      /\ ui.view = "error"
  BY DEF AccountInv, ReopenAccount
<1>2. read \in [at : ReadStates, user : User] /\ read.at = "sent"
  BY <1>1, AccountParts DEF ReadStates
<1> HIDE DEF read
<1>3. net' \in AccountCalls /\ net'.user = read /\ net'.sess = net.sess /\ net'.call = net.call
  BY <1>1, <1>2, AccountParts, UserReadReplaced
<1>4. /\ ui' \in AccountScreen /\ ui'.tab = "detail" /\ ui'.view = ui.view /\ ui'.plan = ui.plan
      /\ ui'.shown = ui.shown /\ ui'.sess = ui.sess /\ ui'.old = ui.old
  BY <1>1, AccountParts DEF ReopenAccount, AccountScreen
<1> QED BY <1>1, <1>2, <1>3, <1>4 DEF AccountInv, AccountType, CallInv, CountInv, UserInv,
      TabInv, SessInv, SessionsShown, AccountShown, OnAccount, ResetInv, Works

-----------------------------------------------------------------------------
(* The sessions and the dialogs                                            *)

LEMMA TabBarKeeps ==
    ASSUME AccountInv, NEW tab \in {"detail", "sessions"}, TabBar(tab)
    PROVE  AccountInv'
<1> DEFINE read == [net.sess EXCEPT !.at = "sent"]
<1>1. AccountType /\ UNCHANGED <<srv, past>> /\ ui.view = "user" /\ ui.tab # tab
  BY DEF AccountInv, TabBar, AccountShown
<1>2. /\ ui' \in AccountScreen /\ ui'.tab = tab /\ ui'.view = ui.view /\ ui'.plan = ui.plan
      /\ ui'.user = ui.user /\ ui'.shown = ui.shown /\ ui'.sess = ui.sess /\ ui'.old = ui.old
  BY <1>1, AccountParts DEF TabBar, AccountScreen
<1>3. CASE net' = net /\ (tab = "sessions" => ui.sess # "unread" /\ ~ui.old)
  BY <1>1, <1>2, <1>3, AccountParts DEF AccountInv, AccountType, CallInv, CountInv, UserInv,
     TabInv, SessInv, SessionsShown, AccountShown, OnAccount, ResetInv, Works
<1>4. CASE net' = [net EXCEPT !.sess = read]
  <2>1. read \in [at : ReadStates, live : BOOLEAN] /\ read.at = "sent"
    BY <1>1, AccountParts DEF ReadStates
  <2> HIDE DEF read
  <2>2. net' \in AccountCalls /\ net'.sess = read /\ net'.user = net.user /\ net'.call = net.call
    BY <1>1, <1>4, <2>1, AccountParts, SessReadReplaced
  <2> QED BY <1>1, <1>2, <2>1, <2>2 DEF AccountInv, AccountType, CallInv, CountInv, UserInv,
        TabInv, SessInv, SessionsShown, AccountShown, OnAccount, ResetInv, Works
<1> QED BY <1>3, <1>4 DEF TabBar

LEMMA ServeSessionsKeeps ==
    ASSUME AccountInv, ServeSessions
    PROVE  AccountInv'
<1> DEFINE answer == [at |-> "ok", live |-> srv.live]
<1>1. AccountType /\ UNCHANGED <<ui, srv>> /\ net' = [net EXCEPT !.sess = answer]
  BY DEF AccountInv, ServeSessions
<1>2. answer \in [at : ReadStates, live : BOOLEAN] /\ answer.at = "ok" /\ answer.live = srv.live
  BY <1>1, AccountParts DEF ReadStates
<1> HIDE DEF answer
<1>3. net' \in AccountCalls /\ net'.sess = answer /\ net'.user = net.user /\ net'.call = net.call
  BY <1>1, <1>2, AccountParts, SessReadReplaced
<1>4. /\ past' \in AccountPast /\ past'.calls = past.calls /\ past'.resets = past.resets
      /\ past'.stale = past.stale /\ past'.repw = past.repw /\ past'.signin = past.signin
  BY <1>1, AccountParts DEF ServeSessions, AccountPast
<1> QED BY <1>1, <1>2, <1>3, <1>4 DEF AccountInv, AccountType, CallInv, CountInv, UserInv, TabInv,
      SessInv, SessionsShown, AccountShown, OnAccount, ResetInv, Works

LEMMA SessionsTabKeeps ==
    ASSUME AccountInv, SessionsTab
    PROVE  AccountInv'
<1>1. /\ AccountType /\ srv' = srv /\ net' = [net EXCEPT !.sess = NoSessions]
  BY DEF AccountInv, SessionsTab
<1>2. NoSessions \in [at : ReadStates, live : BOOLEAN] /\ NoSessions.at = "idle"
  BY AccountMarks DEF ReadStates
<1>3. net' \in AccountCalls /\ net'.sess = NoSessions /\ net'.user = net.user /\ net'.call = net.call
  BY <1>1, <1>2, AccountParts, SessReadReplaced
<1>4. /\ ui' \in AccountScreen /\ ui'.tab = ui.tab /\ ui'.view = ui.view /\ ui'.plan = ui.plan
      /\ ui'.user = ui.user /\ ui'.shown = ui.shown
      /\ \/ ui'.sess = "error"
         \/ net.sess.at = "ok" /\ ui'.sess = IF net.sess.live THEN "some" ELSE "none"
  BY <1>1, AccountParts DEF SessionsTab, AccountScreen
<1>5. /\ past' \in AccountPast /\ past'.calls = past.calls /\ past'.resets = past.resets
      /\ past'.stale = past.stale /\ past'.staleSess = past.staleSess
      /\ past'.repw = past.repw /\ past'.signin = past.signin
  BY <1>1, AccountParts DEF SessionsTab, Spend, AccountPast
<1> QED BY <1>1, <1>2, <1>3, <1>4, <1>5 DEF AccountInv, AccountType, CallInv, CountInv, UserInv,
      TabInv, SessInv, SessionsShown, AccountShown, OnAccount, ResetInv, Works

LEMMA DialogsKeep ==
    ASSUME AccountInv, OpenDialog \/ CloseDialog
    PROVE  AccountInv'
<1>1. AccountType /\ UNCHANGED <<net, srv, past>>
  BY DEF AccountInv, OpenDialog, CloseDialog
<1>2. ui.plan.ops \subseteq Ops
  <2>1. \A plan \in Plans : plan.ops \subseteq Ops
    BY AccountAssumption
  <2> QED BY <1>1, <2>1, AccountParts
<1>3. /\ ui' \in AccountScreen /\ ui'.tab = ui.tab /\ ui'.view = ui.view /\ ui'.plan = ui.plan
      /\ ui'.user = ui.user /\ ui'.sess = ui.sess /\ ui'.old = ui.old /\ ui'.shown \in {0, ui.shown}
  <2> DEFINE Dialog == {{}} \union {{op} : op \in Ops}
  <2>1. ui \in AccountScreen /\ 0 \in 0..MaxCall
    BY <1>1, AccountParts, AccountMarks
  <2>2. CASE CloseDialog
    <3>1. {} \in Dialog /\ ui' = [ui EXCEPT !.open = {}]
      BY <2>2 DEF CloseDialog
    <3> QED BY <2>1, <3>1 DEF AccountScreen
  <2>3. CASE OpenDialog
    <3>1. PICK op \in ui.plan.ops : ui' = [ui EXCEPT !.open = {op}, !.shown = 0]
      BY <2>3 DEF OpenDialog
    <3> DEFINE d == {op}
    <3>2. d \in Dialog
      BY <1>2, <3>1
    <3>3. ui' = [ui EXCEPT !.open = d, !.shown = 0]
      BY <3>1
    <3> HIDE DEF d
    <3> QED BY <2>1, <3>2, <3>3 DEF AccountScreen
  <2> QED BY <2>2, <2>3
<1>4. ui'.screen = ui.screen
  BY <1>1, <1>3, AccountParts DEF AccountScreen
<1>5. CallInv' /\ CountInv' /\ UserInv' /\ TabInv'
  BY <1>1, <1>3 DEF AccountInv, CallInv, CountInv, UserInv, TabInv
<1>6. SessInv' /\ ResetInv'
  BY <1>1, <1>3, <1>4 DEF AccountInv, SessInv, SessionsShown, AccountShown, OnAccount, ResetInv,
     Works
<1> QED BY <1>1, <1>3, <1>5, <1>6 DEF AccountInv, AccountType

LEMMA SubmitKeeps ==
    ASSUME AccountInv, NEW op \in Ops, NEW arg \in {"none"} \union Names \union Roles, Submit(op, arg),
           op = "name" => arg \in Names, op = "role" => arg \in Roles,
           op = "reset" => ui.shown = 0
    PROVE  AccountInv'
<1> DEFINE c == [NoRequest EXCEPT !.op = op, !.at = "sent", !.arg = arg]
           calls == [net.call EXCEPT ![op] = c]
<1>1. /\ AccountType /\ UNCHANGED <<ui, srv>> /\ net' = [net EXCEPT !.call = calls]
      /\ past.calls < ui.plan.calls /\ past' = [past EXCEPT !.calls = @ + 1]
      /\ net.call[op].at = "idle"
  BY DEF AccountInv, Submit
<1>2. c \in AccountCall /\ c.op = op /\ c.at = "sent" /\ c.arg = arg
  BY AccountMarks DEF AccountCall, NoRequest, ReadStates
<1> HIDE DEF c
<1>3. /\ calls \in [Ops -> AccountCall] /\ calls[op] = c
      /\ \A o \in Ops : o # op => calls[o] = net.call[o]
  BY <1>1, <1>2, AccountParts, CallReplaced
<1> HIDE DEF calls
<1>4. net' \in AccountCalls /\ net'.call = calls /\ net'.user = net.user /\ net'.sess = net.sess
  BY <1>1, <1>3, AccountParts, CallsReplaced
<1>5. /\ past' \in AccountPast /\ past'.calls = past.calls + 1 /\ past'.resets = past.resets
      /\ past'.stale = past.stale /\ past'.staleSess = past.staleSess
      /\ past'.repw = past.repw /\ past'.signin = past.signin
  BY <1>1, AccountParts DEF AccountPast
<1>6. CallInv'
  BY <1>2, <1>3, <1>4 DEF AccountInv, CallInv
<1>7. CountInv'
  <2>1. past.calls + 1 <= ui.plan.calls /\ past.resets < past.calls + 1
    BY <1>1, AccountParts DEF AccountInv, CountInv
  <2> QED BY <1>1, <1>5, <2>1, AccountParts DEF AccountInv, CountInv
<1>8. UserInv' /\ SessInv'
  BY <1>1, <1>2, <1>3, <1>4, <1>5 DEF AccountInv, UserInv, SessInv, SessionsShown, AccountShown,
     OnAccount
<1>9. ResetInv'
  BY <1>1, <1>2, <1>3, <1>4, <1>5 DEF AccountInv, ResetInv, Works, Ops
<1> QED BY <1>1, <1>4, <1>5, <1>6, <1>7, <1>8, <1>9 DEF AccountInv, AccountType, TabInv

-----------------------------------------------------------------------------
(* The answers                                                             *)

\* Whatever a dialog's answer does beside ending its call.
LEMMA AnswerEndsKeeps ==
    ASSUME AccountInv, NEW op \in Ops, Answer(op),
           net' \in AccountCalls, net'.call = Answered(op),
           ui' \in AccountScreen, ui'.plan = ui.plan, ui'.tab = ui.tab, ui'.sess = ui.sess, ui'.old,
           \/ op # "revoke" /\ ui'.view = "user" /\ net'.user.at = "sent"
           \/ op = "revoke" /\ ui'.view = ui.view /\ ui'.user = ui.user /\ net'.user = net.user,
           \/ net'.sess.at = "sent"
           \/ net'.sess = net.sess /\ ~(SessionsShown') /\ ~SessionsShown,
           \/ ui'.shown \in {0, ui.shown}
           \/ op = "reset" /\ ui'.shown = net.call["reset"].pw
    PROVE  AccountInv'
<1> DEFINE calls == Answered(op)
<1>1. AccountType /\ srv' = srv /\ net.call[op].at = "ok"
  BY DEF AccountInv, Answer
<1>2. /\ calls \in [Ops -> AccountCall] /\ calls[op] = NoRequest /\ NoRequest.at = "idle"
      /\ \A o \in Ops : o # op => calls[o] = net.call[o]
  BY <1>1, AccountParts, AccountMarks, CallReplaced DEF Answered
<1> HIDE DEF calls
<1>3. net'.call = calls
  BY DEF calls
<1>4. /\ past' \in AccountPast /\ past'.calls = past.calls /\ past'.resets = past.resets
      /\ past'.stale = past.stale
      /\ past'.staleSess = (past.staleSess \/ (net.sess.at = "ok" /\ ~SessionsShown))
      /\ past'.repw = past.repw /\ past'.signin = past.signin
  BY <1>1, AccountParts DEF Answer, AccountPast
<1>5. CallInv' /\ CountInv'
  <2>1. CallInv'
    BY <1>2, <1>3 DEF AccountInv, CallInv
  <2>2. net'.call["reset"].at \in {"sent", "write"} => net.call["reset"].at \in {"sent", "write"}
    BY <1>2, <1>3 DEF Ops
  <2> QED BY <1>4, <2>1, <2>2 DEF AccountInv, CountInv
<1>6. UserInv'
  <2>1. CASE net'.user.at = "sent"
    BY <2>1 DEF UserInv
  <2>2. CASE op = "revoke" /\ ui'.view = ui.view /\ ui'.user = ui.user /\ net'.user = net.user
    BY <1>1, <1>2, <1>3, <1>4, <2>2 DEF AccountInv, UserInv
  <2> QED BY <2>1, <2>2
<1>7. TabInv' /\ SessInv'
  BY <1>1, <1>2, <1>3, <1>4, AccountParts DEF AccountInv, TabInv, SessInv, SessionsShown,
     AccountShown, OnAccount
<1>8. ResetInv'
  BY <1>1, <1>2, <1>3, <1>4 DEF AccountInv, ResetInv, Works, Ops
<1> QED BY <1>1, <1>4, <1>5, <1>6, <1>7, <1>8, AccountParts DEF AccountInv, AccountType

LEMMA MutatedKeeps ==
    ASSUME AccountInv, NEW op \in Ops \ {"revoke"}, onUserMutated(op)
    PROVE  AccountInv'
<1> DEFINE read == [NoUser EXCEPT !.at = "sent"]
           sess == IF ui.tab = "sessions" THEN [NoSessions EXCEPT !.at = "sent"] ELSE net.sess
           calls == Answered(op)
<1>1. AccountType /\ Answer(op) /\ net.call[op].at = "ok"
      /\ net' = [net EXCEPT !.call = calls, !.user = read, !.sess = sess]
  BY DEF AccountInv, onUserMutated, Answer, UsersInvalidated
<1>2. /\ read \in [at : ReadStates, user : User] /\ read.at = "sent"
      /\ sess \in [at : ReadStates, live : BOOLEAN]
      /\ sess.at = "sent" \/ (sess = net.sess /\ ui.tab # "sessions")
      /\ calls \in [Ops -> AccountCall]
  BY <1>1, AccountParts, AccountMarks, CallReplaced DEF ReadStates, Answered
<1> HIDE DEF read, sess, calls
<1>3. net' \in AccountCalls /\ net'.call = calls /\ net'.user = read /\ net'.sess = sess
  BY <1>1, <1>2, AccountParts DEF AccountCalls
<1>4. net.call[op].user \in User
  BY <1>1, AccountParts DEF AccountCall
<1>5. /\ ui' \in AccountScreen /\ ui'.plan = ui.plan /\ ui'.tab = ui.tab /\ ui'.sess = ui.sess
      /\ ui'.old = TRUE /\ ui'.view = "user" /\ ui'.shown = ui.shown
  <2> DEFINE open == ui.open \ {op}
  <2>1. open \in {{}} \union {{o} : o \in Ops}
    BY <1>1, AccountParts DEF AccountScreen
  <2>2. ui' = [ui EXCEPT !.user = net.call[op].user, !.view = "user", !.open = open, !.old = TRUE]
    BY DEF onUserMutated
  <2> HIDE DEF open
  <2> QED BY <1>1, <1>4, <2>1, <2>2, AccountParts DEF AccountScreen
<1>6. net'.call = Answered(op)
  BY <1>3 DEF calls
<1>7. \/ net'.sess.at = "sent"
      \/ net'.sess = net.sess /\ ~(SessionsShown') /\ ~SessionsShown
  BY <1>2, <1>3, <1>5 DEF SessionsShown
<1> QED BY <1>1, <1>2, <1>3, <1>5, <1>6, <1>7, AnswerEndsKeeps

LEMMA PasswordResetKeeps ==
    ASSUME AccountInv, PasswordReset
    PROVE  AccountInv'
<1> DEFINE op == "reset"
           read == [NoUser EXCEPT !.at = "sent"]
           sess == IF ui.tab = "sessions" THEN [NoSessions EXCEPT !.at = "sent"] ELSE net.sess
           calls == Answered(op)
           shown == IF ui.view = "user" THEN net.call[op].pw ELSE 0
<1>1. AccountType /\ Answer(op) /\ op \in Ops /\ op # "revoke"
      /\ net' = [net EXCEPT !.call = calls, !.user = read, !.sess = sess]
      /\ ui' = [ui EXCEPT !.user = net.call[op].user, !.view = "user", !.old = TRUE,
                          !.shown = shown]
  BY DEF AccountInv, PasswordReset, UsersInvalidated, Ops
<1>2. /\ read \in [at : ReadStates, user : User] /\ read.at = "sent"
      /\ sess \in [at : ReadStates, live : BOOLEAN]
      /\ sess.at = "sent" \/ (sess = net.sess /\ ui.tab # "sessions")
      /\ calls \in [Ops -> AccountCall]
  BY <1>1, AccountParts, AccountMarks, CallReplaced DEF ReadStates, Answered
<1>3. net.call[op].user \in User /\ shown \in 0..MaxCall /\ shown \in {0, net.call[op].pw}
  BY <1>1, AccountParts, AccountMarks DEF AccountCall
<1> HIDE DEF read, sess, calls, shown
<1>4. net' \in AccountCalls /\ net'.call = calls /\ net'.user = read /\ net'.sess = sess
  BY <1>1, <1>2, AccountParts DEF AccountCalls
<1>5. /\ ui' \in AccountScreen /\ ui'.plan = ui.plan /\ ui'.tab = ui.tab /\ ui'.sess = ui.sess
      /\ ui'.old = TRUE /\ ui'.view = "user" /\ ui'.shown = shown
  BY <1>1, <1>3, AccountParts DEF AccountScreen
<1>6. net'.call = Answered(op)
  BY <1>4 DEF calls
<1>7. \/ net'.sess.at = "sent"
      \/ net'.sess = net.sess /\ ~(SessionsShown') /\ ~SessionsShown
  BY <1>2, <1>4, <1>5 DEF SessionsShown
<1> QED BY <1>1, <1>2, <1>3, <1>4, <1>5, <1>6, <1>7, AnswerEndsKeeps

LEMMA RevokedKeeps ==
    ASSUME AccountInv, revokeMutation
    PROVE  AccountInv'
<1> DEFINE op == "revoke"
           sess == IF SessionsShown THEN [NoSessions EXCEPT !.at = "sent"] ELSE net.sess
           calls == Answered(op)
           open == ui.open \ {op}
<1>1. AccountType /\ Answer(op) /\ op \in Ops
      /\ net' = [net EXCEPT !.call = calls, !.sess = sess]
      /\ ui' = [ui EXCEPT !.open = open, !.old = TRUE]
  BY DEF AccountInv, revokeMutation, Ops
<1>2. /\ sess \in [at : ReadStates, live : BOOLEAN]
      /\ sess.at = "sent" \/ (sess = net.sess /\ ~SessionsShown)
      /\ calls \in [Ops -> AccountCall]
      /\ open \in {{}} \union {{o} : o \in Ops}
  <2>1. open \in {{}} \union {{o} : o \in Ops}
    BY <1>1, AccountParts DEF AccountScreen
  <2>2. calls \in [Ops -> AccountCall]
    BY <1>1, AccountParts, AccountMarks, CallReplaced DEF Answered
  <2> QED BY <1>1, <2>1, <2>2, AccountParts, AccountMarks DEF ReadStates
<1> HIDE DEF sess, calls, open
<1>4. net' \in AccountCalls /\ net'.call = calls /\ net'.user = net.user /\ net'.sess = sess
  BY <1>1, <1>2, AccountParts DEF AccountCalls
<1>5. /\ ui' \in AccountScreen /\ ui'.plan = ui.plan /\ ui'.tab = ui.tab /\ ui'.sess = ui.sess
      /\ ui'.old = TRUE /\ ui'.view = ui.view /\ ui'.user = ui.user /\ ui'.shown = ui.shown
      /\ ui'.screen = ui.screen
  BY <1>1, <1>2, AccountParts DEF AccountScreen
<1>6. net'.call = Answered(op)
  BY <1>4 DEF calls
<1>7. \/ net'.sess.at = "sent"
      \/ net'.sess = net.sess /\ ~(SessionsShown') /\ ~SessionsShown
  BY <1>2, <1>4, <1>5 DEF SessionsShown, AccountShown, OnAccount
<1> QED BY <1>1, <1>2, <1>4, <1>5, <1>6, <1>7, AnswerEndsKeeps

LEMMA RefusedKeeps ==
    ASSUME AccountInv, Refused
    PROVE  AccountInv'
<1>1. PICK op \in Ops : net.call[op].at = "no" /\ net' = [net EXCEPT !.call = Answered(op)]
  BY DEF Refused, CallsAt
<1> DEFINE calls == Answered(op)
<1>2. AccountType /\ UNCHANGED <<ui, srv, past>>
  BY DEF AccountInv, Refused
<1>3. /\ calls \in [Ops -> AccountCall] /\ calls[op] = NoRequest /\ NoRequest.at = "idle"
      /\ \A o \in Ops : o # op => calls[o] = net.call[o]
  BY <1>2, AccountParts, AccountMarks, CallReplaced DEF Answered
<1> HIDE DEF calls
<1>4. net' \in AccountCalls /\ net'.call = calls /\ net'.user = net.user /\ net'.sess = net.sess
  BY <1>1, <1>2, <1>3, AccountParts, CallsReplaced DEF calls
<1>5. CallInv'
  BY <1>3, <1>4 DEF AccountInv, CallInv
<1>6. CountInv' /\ ResetInv'
  BY <1>2, <1>3, <1>4 DEF AccountInv, CountInv, ResetInv, Works, Ops
<1>7. UserInv' /\ SessInv'
  BY <1>1, <1>2, <1>3, <1>4 DEF AccountInv, UserInv, SessInv, SessionsShown, AccountShown,
     OnAccount
<1> QED BY <1>2, <1>4, <1>5, <1>6, <1>7 DEF AccountInv, AccountType, TabInv

-----------------------------------------------------------------------------
(* The service                                                             *)

LEMMA CheckKeeps ==
    ASSUME AccountInv, CheckCall
    PROVE  AccountInv'
<1>1. PICK op \in Ops :
        /\ net.call[op].at = "sent"
        /\ net' = [net EXCEPT !.call[op].at =
                     IF srv.peer /\ Allowed(net.call[op]) THEN "write" ELSE "no"]
  BY DEF CheckCall, CallsAt
<1> DEFINE at == IF srv.peer /\ Allowed(net.call[op]) THEN "write" ELSE "no"
           c == [net.call[op] EXCEPT !.at = at]
           calls == [net.call EXCEPT ![op] = c]
<1>2. AccountType /\ UNCHANGED <<ui, srv, past>>
  BY DEF AccountInv, CheckCall
<1>3. at \in {"write", "no"}
  OBVIOUS
<1> HIDE DEF at
<1>4. net.call[op] \in AccountCall
  BY <1>2, AccountParts
<1>5. /\ c \in AccountCall /\ c.at = at /\ c.op = net.call[op].op /\ c.arg = net.call[op].arg
      /\ net' = [net EXCEPT !.call = calls]
  BY <1>1, <1>2, <1>3, <1>4, AccountParts DEF AccountCall, at, AccountCalls
<1> HIDE DEF c
<1>6. /\ calls \in [Ops -> AccountCall] /\ calls[op] = c
      /\ \A o \in Ops : o # op => calls[o] = net.call[o]
  BY <1>2, <1>5, AccountParts, CallReplaced
<1> HIDE DEF calls
<1>7. net' \in AccountCalls /\ net'.call = calls /\ net'.user = net.user /\ net'.sess = net.sess
  BY <1>2, <1>5, <1>6, AccountParts, CallsReplaced
<1>8. CallInv'
  BY <1>1, <1>5, <1>6, <1>7 DEF AccountInv, CallInv
<1>9. CountInv' /\ ResetInv'
  BY <1>1, <1>2, <1>3, <1>5, <1>6, <1>7 DEF AccountInv, CountInv, ResetInv, Works, Ops
<1>10. UserInv' /\ SessInv'
  BY <1>1, <1>2, <1>3, <1>5, <1>6, <1>7 DEF AccountInv, UserInv, SessInv, SessionsShown,
     AccountShown, OnAccount
<1> QED BY <1>2, <1>7, <1>8, <1>9, <1>10 DEF AccountInv, AccountType, TabInv

\* What a call makes of the stored account.
LEMMA RowTyped ==
    ASSUME srv \in AccountRows, NEW c,
           c.op = "name" => c.arg \in Names, c.op = "role" => c.arg \in Roles
    PROVE  Row(c) \in User /\ (c.op = "revoke" => Row(c) = srv.user)
<1>1. srv.user \in User
  BY DEF AccountRows
<1> QED BY <1>1 DEF Row, User

LEMMA AppliedTyped ==
    ASSUME srv \in AccountRows, NEW c, NEW pw \in 0..NewPassword, srv' = Applied(c, pw),
           c.op = "name" => c.arg \in Names, c.op = "role" => c.arg \in Roles
    PROVE  /\ srv' \in AccountRows /\ srv'.user = Row(c)
           /\ srv'.pw = IF c.op \in {"reset", "change"} THEN pw ELSE srv.pw
           /\ srv'.live = ((srv.live \/ c.op = "login") /\ c.op \notin Revoking)
<1> DEFINE peer == srv.peer /\ c.op # "depose"
           word == IF c.op \in {"reset", "change"} THEN pw ELSE srv.pw
           live == srv.live \/ c.op = "login"
           left == live /\ c.op \notin Revoking
           row == Row(c)
           next == [srv EXCEPT !.user = row, !.peer = peer, !.pw = word, !.live = live]
<1>1. row \in User /\ peer \in BOOLEAN /\ word \in 0..NewPassword /\ {live, left} \subseteq BOOLEAN
  BY RowTyped DEF AccountRows
<1>2. next = Written(c, pw)
  BY DEF Written
<1>3. srv' = [next EXCEPT !.live = @ /\ c.op \notin Revoking]
  BY <1>2 DEF Applied, Revoked
<1> HIDE DEF row, peer, word, live
<1>4. /\ next \in AccountRows /\ next.user = row /\ next.pw = word /\ next.live = live
  BY <1>1 DEF AccountRows
<1> HIDE DEF next
<1>5. srv' = [next EXCEPT !.live = left]
  BY <1>3, <1>4
<1> HIDE DEF left
<1>6. srv' \in AccountRows /\ srv'.user = row /\ srv'.pw = word /\ srv'.live = left
  BY <1>1, <1>4, <1>5 DEF AccountRows
<1> QED BY <1>6 DEF row, word, live, left

LEMMA WriteKeeps ==
    ASSUME AccountInv, WriteCall
    PROVE  AccountInv'
<1> DEFINE new == past.resets + 1
<1>1. PICK op \in Ops :
        /\ net.call[op].at = "write"
        /\ srv' = Applied(net.call[op], new)
        /\ net' = [net EXCEPT !.call[op].at = "ok", !.call[op].user = Row(net.call[op]),
                              !.call[op].pw = IF op = "reset" THEN new ELSE 0]
        /\ past' = [past EXCEPT !.suspended = Suspended(net.call[op]),
                                !.resets = IF op = "reset" THEN new ELSE @,
                                !.repw = @ /\ op # "reset", !.signin = @ /\ op # "reset"]
  BY DEF WriteCall, CallsAt
<1>2. AccountType /\ ui' = ui
  BY DEF AccountInv, WriteCall
<1> DEFINE old == net.call[op]
           pw == IF op = "reset" THEN new ELSE 0
           row == Row(old)
           c == [old EXCEPT !.at = "ok", !.user = row, !.pw = pw]
           calls == [net.call EXCEPT ![op] = c]
<1>3. /\ old \in AccountCall /\ old.op = op
      /\ old.op = "name" => old.arg \in Names
      /\ old.op = "role" => old.arg \in Roles
  BY <1>1, <1>2, AccountParts DEF AccountInv, CallInv
<1>4. new \in Nat /\ new \in 0..NewPassword /\ (op = "reset" => new <= past.calls /\ new \in 0..MaxCall)
  <2>1. past.resets <= past.calls /\ past.calls <= ui.plan.calls /\ ui.plan.calls <= MaxCall
    BY <1>2, AccountParts, AccountMarks DEF AccountInv, CountInv
  <2>2. op = "reset" => past.resets < past.calls
    BY <1>1 DEF AccountInv, CountInv
  <2> QED BY <1>2, <2>1, <2>2, AccountParts, AccountMarks
<1>5. /\ srv' \in AccountRows /\ srv'.user = row
      /\ srv'.pw = IF op \in {"reset", "change"} THEN new ELSE srv.pw
      /\ srv'.live = ((srv.live \/ op = "login") /\ op \notin Revoking)
      /\ row \in User /\ (op = "revoke" => row = srv.user)
  BY <1>1, <1>2, <1>3, <1>4, AccountParts, AppliedTyped, RowTyped
<1>6. pw \in 0..MaxCall
  BY <1>4, AccountMarks
<1>7. net' = [net EXCEPT !.call = calls]
  BY ZenonT(40), <1>1, <1>2, <1>3, AccountParts DEF AccountCalls, AccountCall
<1> HIDE DEF new, pw, row
<1>8. c \in AccountCall /\ c.at = "ok" /\ c.op = op /\ c.arg = old.arg /\ c.pw = pw
  BY <1>3, <1>5, <1>6 DEF AccountCall, ReadStates
<1> HIDE DEF c
<1>9. /\ calls \in [Ops -> AccountCall] /\ calls[op] = c
      /\ \A o \in Ops : o # op => calls[o] = net.call[o]
  BY <1>2, <1>8, AccountParts, CallReplaced
<1> HIDE DEF calls
<1>10. net' \in AccountCalls /\ net'.call = calls /\ net'.user = net.user /\ net'.sess = net.sess
  BY <1>2, <1>7, <1>9, AccountParts, CallsReplaced
<1>11. /\ past' \in AccountPast /\ past'.calls = past.calls
       /\ past'.resets = IF op = "reset" THEN new ELSE past.resets
       /\ past'.repw = (past.repw /\ op # "reset") /\ past'.signin = (past.signin /\ op # "reset")
       /\ past'.stale = past.stale /\ past'.staleSess = past.staleSess
  <2> DEFINE suspended == Suspended(old)
             resets == IF op = "reset" THEN new ELSE past.resets
             repw == past.repw /\ op # "reset"
             signin == past.signin /\ op # "reset"
  <2>1. suspended \in BOOLEAN /\ resets \in Nat /\ repw \in BOOLEAN /\ signin \in BOOLEAN
    BY <1>2, <1>4, AccountParts DEF Suspended
  <2>2. past' = [past EXCEPT !.suspended = suspended, !.resets = resets, !.repw = repw,
                             !.signin = signin]
    BY <1>1, <1>2, AccountParts DEF AccountPast, new
  <2> HIDE DEF suspended, resets, repw, signin
  <2>3. /\ past' \in AccountPast /\ past'.calls = past.calls /\ past'.resets = resets
        /\ past'.repw = repw /\ past'.signin = signin
        /\ past'.stale = past.stale /\ past'.staleSess = past.staleSess
    BY ZenonT(40), <1>2, <2>1, <2>2, AccountParts DEF AccountPast
  <2> QED BY <2>3 DEF resets, repw, signin
<1>12. CallInv'
  BY <1>3, <1>8, <1>9, <1>10 DEF AccountInv, CallInv
<1>13. CountInv'
  BY SMTT(40), <1>1, <1>2, <1>4, <1>8, <1>9, <1>10, <1>11 DEF AccountInv, CountInv, Ops
<1>14. UserInv'
  BY ZenonT(40), <1>1, <1>2, <1>5, <1>8, <1>9, <1>10, <1>11 DEF AccountInv, UserInv
<1>15. SessInv'
  BY <1>8, <1>9, <1>10 DEF SessInv
<1>16. ResetInv'
  <2>1. CASE op = "reset"
    BY SMTT(40), <1>1, <1>2, <1>5, <1>8, <1>9, <1>10, <1>11, <2>1 DEF AccountInv, ResetInv, Works, Ops,
       Revoking, pw
  <2>2. CASE op # "reset"
    BY ZenonT(40), <1>1, <1>2, <1>5, <1>8, <1>9, <1>10, <1>11, <2>2, AccountParts
       DEF AccountInv, ResetInv,
       Works, Ops
  <2> QED BY <2>1, <2>2
<1> QED BY <1>2, <1>5, <1>10, <1>11, <1>12, <1>13, <1>14, <1>15, <1>16
     DEF AccountInv, AccountType, TabInv

LEMMA LoseCallKeeps ==
    ASSUME AccountInv, LoseCall
    PROVE  AccountInv'
<1>1. PICK op \in Ops : net' = [net EXCEPT !.call[op] = NoRequest]
  BY DEF LoseCall, CallsAt
<1> DEFINE calls == [net.call EXCEPT ![op] = NoRequest]
<1>2. AccountType /\ UNCHANGED <<ui, srv>>
      /\ past' = [past EXCEPT !.events = @ + 1, !.stale = TRUE, !.staleSess = TRUE]
  BY DEF AccountInv, LoseCall
<1>3. /\ calls \in [Ops -> AccountCall] /\ calls[op] = NoRequest /\ NoRequest.at = "idle"
      /\ \A o \in Ops : o # op => calls[o] = net.call[o]
  BY <1>2, AccountParts, AccountMarks, CallReplaced
<1>4. net' = [net EXCEPT !.call = calls]
  BY <1>1
<1> HIDE DEF calls
<1>5. net' \in AccountCalls /\ net'.call = calls /\ net'.user = net.user /\ net'.sess = net.sess
  BY <1>2, <1>3, <1>4, AccountParts, CallsReplaced
<1>6. /\ past' \in AccountPast /\ past'.stale /\ past'.staleSess /\ past'.calls = past.calls
      /\ past'.resets = past.resets /\ past'.repw = past.repw /\ past'.signin = past.signin
  <2>1. past \in AccountPast /\ past.events + 1 \in Nat
    BY <1>2, AccountParts
  <2> QED BY <1>2, <2>1 DEF AccountPast
<1>7. CallInv'
  BY <1>3, <1>5 DEF AccountInv, CallInv
<1>8. CountInv' /\ ResetInv'
  BY <1>2, <1>3, <1>5, <1>6 DEF AccountInv, CountInv, ResetInv, Works, Ops
<1> QED BY <1>2, <1>5, <1>6, <1>7, <1>8 DEF AccountInv, AccountType, TabInv, UserInv, SessInv

LEMMA OtherActsKeeps ==
    ASSUME AccountInv, OtherActs
    PROVE  AccountInv'
<1>1. PICK op \in Foreign, arg \in Roles \union {"none"} :
        LET c == [NoRequest EXCEPT !.op = op, !.arg = arg] IN
        /\ op = "role" => arg \in Roles
        /\ srv' = Applied(c, NewPassword)
        /\ past' = [past EXCEPT !.events = @ + 1, !.stale = TRUE, !.staleSess = TRUE,
                                !.suspended = Suspended(c), !.signin = @ \/ op = "login",
                                !.repw = @ \/ op \in {"reset", "change"}]
  BY ZenonT(40) DEF OtherActs
<1> DEFINE c == [NoRequest EXCEPT !.op = op, !.arg = arg]
<1>2. AccountType /\ UNCHANGED <<ui, net>>
  BY DEF AccountInv, OtherActs
<1>3. c.op = op /\ c.arg = arg /\ op # "name"
  BY DEF NoRequest, Foreign
<1>4. srv' = Applied(c, NewPassword)
  BY <1>1
<1>5. /\ srv' \in AccountRows
      /\ srv'.pw = IF op \in {"reset", "change"} THEN NewPassword ELSE srv.pw
      /\ srv'.live = ((srv.live \/ op = "login") /\ op \notin Revoking)
  <2>1. NewPassword \in 0..NewPassword
    BY AccountMarks
  <2> HIDE DEF c
  <2> QED BY <1>1, <1>2, <1>3, <1>4, <2>1, AccountParts, AppliedTyped
<1>6. /\ past' \in AccountPast /\ past'.stale /\ past'.staleSess /\ past'.calls = past.calls
      /\ past'.resets = past.resets
      /\ past'.repw = (past.repw \/ op \in {"reset", "change"})
      /\ past'.signin = (past.signin \/ op = "login")
  <2> DEFINE suspended == Suspended(c)
             repw == past.repw \/ op \in {"reset", "change"}
             signin == past.signin \/ op = "login"
             events == past.events + 1
  <2>1. suspended \in BOOLEAN /\ repw \in BOOLEAN /\ signin \in BOOLEAN /\ events \in Nat
    <3>1. past.suspended \in BOOLEAN /\ past.repw \in BOOLEAN /\ past.signin \in BOOLEAN
          /\ past.events \in Nat
      BY <1>2, AccountParts
    <3>2. suspended \in BOOLEAN
      BY <3>1, Zenon DEF Suspended
    <3>3. repw \in BOOLEAN /\ signin \in BOOLEAN
      BY <3>1, Zenon
    <3> QED BY <3>1, <3>2, <3>3
  <2>2. past' = [past EXCEPT !.events = events, !.stale = TRUE, !.staleSess = TRUE,
                             !.suspended = suspended, !.signin = signin, !.repw = repw]
    BY <1>1, <1>2, AccountParts DEF AccountPast
  <2> HIDE DEF suspended, repw, signin, events
  <2>3. /\ past' \in AccountPast /\ past'.stale = TRUE /\ past'.staleSess = TRUE
        /\ past'.calls = past.calls /\ past'.resets = past.resets
        /\ past'.repw = repw /\ past'.signin = signin
    BY ZenonT(40), <1>2, <2>1, <2>2, AccountParts DEF AccountPast
  <2> QED BY <2>3 DEF repw, signin
<1>7. ResetInv'
  <2>1. \A pw : Works(pw) => Works(pw)'
    BY <1>2, <1>5, <1>6, AccountParts DEF Works
  <2> QED BY <1>2, <2>1 DEF AccountInv, ResetInv
<1> QED BY <1>2, <1>5, <1>6, <1>7 DEF AccountInv, AccountType, CallInv, CountInv, TabInv, UserInv,
      SessInv

-----------------------------------------------------------------------------
(* The theorems                                                            *)

LEMMA AccountInitially == InitAccount => AccountInv
<1> SUFFICES ASSUME InitAccount PROVE AccountInv
  OBVIOUS
<1>1. ui \in AccountScreen /\ ui.view = "pending" /\ ui.tab = "detail" /\ ui.sess = "unread"
      /\ ui.shown = 0
  BY AccountMarks DEF InitAccount, AccountScreen
<1>2. ui.plan.calls \in 0..MaxCall
  BY <1>1, AccountAssumption DEF AccountScreen
<1>3. /\ net \in AccountCalls /\ net.user.at = "sent" /\ net.sess.at = "idle"
      /\ \A op \in Ops : net.call[op] = NoRequest
  <2> DEFINE calls == [op \in Ops |-> NoRequest]
             read == [NoUser EXCEPT !.at = "sent"]
  <2>1. calls \in [Ops -> AccountCall] /\ \A op \in Ops : calls[op] = NoRequest
    BY AccountMarks
  <2>2. read \in [at : ReadStates, user : User] /\ read.at = "sent"
    BY AccountMarks DEF ReadStates
  <2>3. NoSessions \in [at : ReadStates, live : BOOLEAN] /\ NoSessions.at = "idle"
    BY AccountMarks DEF ReadStates
  <2>4. net = [user |-> read, sess |-> NoSessions, call |-> calls]
    BY DEF InitAccount
  <2> HIDE DEF calls, read
  <2> QED BY <2>1, <2>2, <2>3, <2>4 DEF AccountCalls
<1>4. srv \in AccountRows
  <2>1. PICK role \in Roles, status \in {"active", "locked"} :
          srv = [user |-> [SomeUser EXCEPT !.role = role, !.status = status], pw |-> 0,
                 live |-> status = "active", peer |-> TRUE, third |-> role = "guru"]
    BY DEF InitAccount
  <2> DEFINE user == [SomeUser EXCEPT !.role = role, !.status = status]
  <2>2. user \in User
    BY DEF User, SomeUser, Roles, Names
  <2>3. 0 \in 0..NewPassword
    BY AccountMarks
  <2> HIDE DEF user
  <2> QED BY <2>1, <2>2, <2>3 DEF AccountRows, user
<1>5. past \in AccountPast /\ past.calls = 0 /\ past.resets = 0
  BY DEF InitAccount, AccountPast
<1> QED BY <1>1, <1>2, <1>3, <1>4, <1>5, AccountMarks DEF AccountInv, AccountType, CallInv, CountInv,
      UserInv, TabInv, SessInv, ResetInv, Ops

LEMMA AccountNext ==
    ASSUME AccountInv, [NextAccount]_browser
    PROVE  AccountInv'
<1>1. CASE UNCHANGED browser
  BY <1>1 DEF browser, AccountInv, AccountType, CallInv, CountInv, UserInv, TabInv, SessInv,
     SessionsShown, AccountShown, OnAccount, ResetInv, Works
<1>2. CASE \/ ServeUser \/ UserArrives \/ UserFails \/ ReopenAccount
           \/ (\E tab \in {"detail", "sessions"} : TabBar(tab)) \/ ServeSessions \/ SessionsTab
  BY <1>2, ServeUserKeeps, UserArrivesKeeps, UserFailsKeeps, ReopenKeeps, TabBarKeeps,
     ServeSessionsKeeps, SessionsTabKeeps
<1>3. CASE EditNameDialog \/ ChangeRoleDialog \/ ResetPasswordDialog \/ ConfirmActionDialog
  <2>1. CASE EditNameDialog
    <3>1. PICK name \in Names : Submit("name", name)
      BY <2>1 DEF EditNameDialog
    <3> QED BY <3>1, SubmitKeeps DEF Ops
  <2>2. CASE ChangeRoleDialog
    <3>1. PICK role \in Roles : Submit("role", role)
      BY <2>2 DEF ChangeRoleDialog
    <3> QED BY <3>1, SubmitKeeps DEF Ops
  <2>3. CASE ResetPasswordDialog
    BY <2>3, SubmitKeeps DEF ResetPasswordDialog, Ops
  <2>4. CASE ConfirmActionDialog
    <3>1. PICK op \in ui.open \ {"name", "role", "reset"} : Submit(op, "none")
      BY <2>4 DEF ConfirmActionDialog
    <3>2. op \in Ops
      BY <3>1 DEF AccountInv, AccountType, AccountScreen
    <3> QED BY <3>1, <3>2, SubmitKeeps
  <2> QED BY <1>3, <2>1, <2>2, <2>3, <2>4
<1>4. CASE NameSaved \/ RoleChanged \/ suspendMutation \/ unsuspendMutation \/ unlockMutation
  BY <1>4, MutatedKeeps DEF NameSaved, RoleChanged, suspendMutation, unsuspendMutation,
     unlockMutation, Ops
<1>5. CASE \/ PasswordReset \/ revokeMutation \/ OpenDialog \/ CloseDialog \/ Refused
           \/ CheckCall \/ WriteCall \/ LoseCall \/ OtherActs
  BY <1>5, PasswordResetKeeps, RevokedKeeps, DialogsKeep, RefusedKeeps, CheckKeeps, WriteKeeps,
     LoseCallKeeps, OtherActsKeeps
<1> QED BY <1>1, <1>2, <1>3, <1>4, <1>5 DEF NextAccount

\* Page, requests and rows keep to the code's types, what is on its way to the page or on
\* it is the stored account and its sessions unless somebody else wrote or the answer to a
\* write is still to come, and the password of an answered reset works.
THEOREM AccountInvariant == SpecAccount => []AccountInv
<1>1. InitAccount => AccountInv
  BY AccountInitially
<1>2. AccountInv /\ [NextAccount]_browser => AccountInv'
  BY AccountNext
<1> QED BY <1>1, <1>2, PTL DEF SpecAccount

\* The account page, its requests and rows hold what the code's types allow.
THEOREM AccountTyped == SpecAccount => []AccountTypeOK
<1>1. AccountInv => AccountTypeOK
  BY DEF AccountInv, AccountTypeOK
<1> QED BY <1>1, AccountInvariant, PTL

\* With every answer in and nobody else's change since the last read, the account page
\* shows the stored account and, on its tab, the stored sessions.
THEOREM AccountShownTrue == SpecAccount => []AccountCatchesUp
<1>1. AccountInv => AccountCatchesUp
  <2> SUFFICES ASSUME AccountInv, AccountShown, CallsDone PROVE AccountCatchesUp
    BY DEF AccountCatchesUp
  <2>1. AccountType /\ UserInv /\ TabInv /\ SessInv
    BY DEF AccountInv
  <2>2. \A op \in Ops : net.call[op].at = "idle"
    BY DEF CallsDone, CallsAt
  <2> QED BY <2>1, <2>2, AccountParts DEF AccountCatchesUp, UserInv, TabInv, SessInv, SessionsShown,
        AccountShown
<1> QED BY <1>1, AccountInvariant, PTL

\* The password on display is the one that works and no session of before is left, unless
\* another password was set or a login finished after the reset was written.
THEOREM ResetWorks == SpecAccount => []ResetTakesHold
<1>1. AccountInv => ResetTakesHold
  BY DEF AccountInv, ResetInv, Works, ResetTakesHold
<1> QED BY <1>1, AccountInvariant, PTL

(***************************************************************************)
(* PagedList                                                               *)
(***************************************************************************)

-----------------------------------------------------------------------------
(* The list pages                                                          *)

\* A pager that goes by its data does not stand in for it.
LEMMA Pagers ==
    ASSUME NEW p \in {q[2] : q \in ListPages}
    PROVE  /\ p.next \in {"nothing", "fetch", "data"} /\ p.prev \in {"nothing", "fetch", "data"}
           /\ p.next = "data" => ~p.keeps
           /\ p.hidden \in {"never", "empty", "single"}
<1>1. p \in {UsersPager, AttemptsPager, AuditPager, UserAuditPager, UserLoginsPager, SchoolsPager,
             ClassesPager, AdminClassesPager, BankPager, ClassAuditPager, StudentsPager}
  BY DEF ListPages
<1>2. CASE p \in {UsersPager, AttemptsPager, AuditPager, UserAuditPager, UserLoginsPager}
  BY <1>2 DEF UsersPager, AttemptsPager, AuditPager, UserAuditPager, UserLoginsPager
<1>3. CASE p \in {SchoolsPager, ClassesPager, AdminClassesPager}
  <2>1. /\ SchoolsPager.next = "nothing" /\ SchoolsPager.prev = "nothing"
        /\ SchoolsPager.hidden = "never"
    BY DEF SchoolsPager, UsersPager
  <2>2. /\ ClassesPager.next = "nothing" /\ ClassesPager.prev = "fetch"
        /\ ClassesPager.hidden = "never"
    BY DEF ClassesPager, UsersPager
  <2>3. AdminClassesPager = ClassesPager
    BY DEF AdminClassesPager, ClassesPager
  <2> QED BY <1>3, <2>1, <2>2, <2>3
<1>4. CASE p \in {BankPager, ClassAuditPager, StudentsPager}
  <2>1. /\ BankPager.next = "fetch" /\ BankPager.prev = "fetch" /\ BankPager.hidden = "empty"
    BY DEF BankPager, UsersPager
  <2>2. /\ ClassAuditPager.next = "data" /\ ClassAuditPager.prev = "data"
        /\ ClassAuditPager.hidden = "never" /\ ~ClassAuditPager.keeps
    BY DEF ClassAuditPager, UsersPager
  <2>3. /\ StudentsPager.next = "fetch" /\ StudentsPager.prev = "fetch"
        /\ StudentsPager.hidden = "single"
    BY DEF StudentsPager, UsersPager
  <2> QED BY <1>4, <2>1, <2>2, <2>3
<1> QED BY <1>1, <1>2, <1>3, <1>4

LEMMA ListParts ==
    ASSUME ListType
    PROVE  /\ ui \in ListScreen /\ srv \in [Filters -> 0..MaxPage] /\ past \in ListPast
           /\ ui.filter \in Filters /\ ui.typed \in Filters /\ ui.timer \in BOOLEAN
           /\ ui.page \in 1..MaxPage + 1 /\ ui.prev \in PageKeys /\ Key \in PageKeys
           /\ ui.failed \subseteq PageKeys /\ net \subseteq PageKeys
           /\ ui.cache \in [PageKeys -> 0..Unseen]
           /\ ui.pager \in {p[2] : p \in ListPages}
           /\ past.events \in Nat /\ past.fewer \in BOOLEAN
BY DEF ListType, ListScreen, ListPast, PageKeys, Key, Pages

LEMMA Numbers ==
    /\ MaxPage \in Nat /\ Unseen = MaxPage + 1 /\ 1 \in 1..MaxPage + 1
    /\ \A k \in PageKeys : k[1] \in Filters
BY ListAssumption DEF Unseen, PageKeys

-----------------------------------------------------------------------------
(* The invariant is kept: the controls                                     *)

\* A key is shown: it has its answer or is read.
LEMMA ShowKeeps ==
    ASSUME ListInv, NEW filter \in Filters, NEW page \in 1..MaxPage + 1, NEW typed \in Filters,
           NEW timer \in BOOLEAN, NEW beside \in SUBSET PageKeys,
           Show(filter, page, typed, timer, beside),
           ~timer => typed = filter,
           ~past.fewer /\ ui.pager.next # "nothing" => page = 1 \/ page <= srv[filter]
    PROVE  ListInv'
<1> DEFINE key == <<filter, page>>
<1>1. PICK read \in Reads(key) :
        /\ net' = net \union read \union beside
        /\ ui' = [ui EXCEPT !.typed = typed, !.timer = timer, !.filter = filter, !.page = page,
                            !.prev = IF ui.cache[Key] = Unseen THEN @ ELSE Key,
                            !.failed = @ \ {k \in read \union beside : ui.cache[k] = Unseen}]
  BY DEF Show
<1>2. ListType /\ UNCHANGED <<srv, past>>
  BY DEF ListInv, Show
<1>3. key \in PageKeys /\ read \subseteq {key} /\ (ui.cache[key] = Unseen => key \in read)
  BY <1>1 DEF PageKeys, Reads
<1> DEFINE prev == IF ui.cache[Key] = Unseen THEN ui.prev ELSE Key
           failed == ui.failed \ {k \in read \union beside : ui.cache[k] = Unseen}
<1>4. prev \in PageKeys /\ failed \subseteq PageKeys
  BY <1>2, ListParts
<1>5. ui' = [ui EXCEPT !.typed = typed, !.timer = timer, !.filter = filter, !.page = page,
                       !.prev = prev, !.failed = failed]
  BY <1>1, <1>2, ListParts DEF ListScreen
<1> HIDE DEF prev, failed
<1>6. /\ ui' \in ListScreen /\ ui'.form = ui.form /\ ui'.pager = ui.pager /\ ui'.typed = typed
      /\ ui'.timer = timer /\ ui'.filter = filter /\ ui'.page = page /\ ui'.cache = ui.cache
  BY <1>2, <1>4, <1>5, ListParts DEF ListScreen
<1>7. net' \subseteq PageKeys
  BY <1>1, <1>2, <1>3, ListParts
<1>8. KeyInv'
  BY <1>1, <1>3, <1>6 DEF KeyInv, Key, Fetching, Failed
<1>9. CountsInv'
  BY <1>2, <1>6 DEF ListInv, CountsInv
<1> QED BY <1>2, <1>6, <1>7, <1>8, <1>9 DEF ListInv, ListType, PauseInv

LEMMA RefilterKeeps ==
    ASSUME ListInv, NEW filter \in Filters, Refilter(filter)
    PROVE  ListInv'
<1> DEFINE beside == IF ui.cache[<<filter, ui.page>>] = Unseen THEN {<<filter, ui.page>>} ELSE {}
<1>1. ListType
  BY DEF ListInv
<1>2. <<filter, ui.page>> \in PageKeys
  BY <1>1, ListParts DEF PageKeys
<1>3. beside \in SUBSET PageKeys
  BY <1>2
<1>4. Show(filter, 1, filter, FALSE, beside)
  BY DEF Refilter
<1> HIDE DEF beside
<1> QED BY <1>3, <1>4, Numbers, ShowKeeps

LEMMA TypeKeeps ==
    ASSUME ListInv, NEW text \in Filters, Type(text)
    PROVE  ListInv'
<1>1. ListType /\ UNCHANGED <<net, srv, past>>
  BY DEF ListInv, Type
<1>2. /\ ui' \in ListScreen /\ ui'.form = ui.form /\ ui'.pager = ui.pager /\ ui'.timer = TRUE
      /\ ui'.filter = ui.filter /\ ui'.page = ui.page /\ ui'.cache = ui.cache
      /\ ui'.failed = ui.failed
  BY <1>1, ListParts DEF Type, ListScreen
<1> QED BY <1>1, <1>2 DEF ListInv, ListType, PauseInv, KeyInv, Key, Fetching, Failed, CountsInv

LEMMA SettlesKeeps ==
    ASSUME ListInv, TypedSettles
    PROVE  ListInv'
<1>1. ListType
  BY DEF ListInv
<1>2. CASE ui.typed = ui.filter
  <2>1. ui' = [ui EXCEPT !.timer = FALSE] /\ UNCHANGED <<net, srv, past>>
    BY <1>2 DEF TypedSettles
  <2>2. /\ ui' \in ListScreen /\ ui'.form = ui.form /\ ui'.pager = ui.pager
        /\ ui'.typed = ui.typed /\ ui'.filter = ui.filter /\ ui'.page = ui.page
        /\ ui'.cache = ui.cache /\ ui'.failed = ui.failed
    BY <1>1, <2>1, ListParts DEF ListScreen
  <2> QED BY <1>2, <2>1, <2>2 DEF ListInv, ListType, PauseInv, KeyInv, Key, Fetching, Failed,
        CountsInv
<1>3. CASE ui.typed # ui.filter
  BY <1>1, <1>3, ListParts, RefilterKeeps DEF TypedSettles
<1> QED BY <1>2, <1>3

LEMMA ResetKeeps ==
    ASSUME ListInv, ResetFilters
    PROVE  ListInv'
<1>1. ui.filter \in Filters
  BY ListParts DEF ListInv
<1>2. "all" \in Filters /\ {} \in SUBSET PageKeys
  BY DEF Filters
<1> QED BY <1>1, <1>2, Numbers, ShowKeeps DEF ResetFilters

\* Turning forward goes by the answer of the key, where the pager waits for it.
LEMMA TurnKeeps ==
    ASSUME ListInv, PrevPage \/ NextPage
    PROVE  ListInv'
<1>1. ListType /\ {} \in SUBSET PageKeys
  BY DEF ListInv
<1>2. ~ui.timer => ui.typed = ui.filter
  BY DEF ListInv, PauseInv
<1>3. CASE PrevPage
  <2>1. Show(ui.filter, ui.page - 1, ui.typed, ui.timer, {}) /\ ui.page > 1
    BY <1>3 DEF PrevPage, PrevOffered
  <2>2. ui.page - 1 \in 1..MaxPage + 1
    BY <1>1, <2>1, ListParts, Numbers
  <2>3. ~past.fewer /\ ui.pager.next # "nothing" => ui.page - 1 = 1 \/ ui.page - 1 <= srv[ui.filter]
    BY <1>1, <2>1, ListParts DEF ListInv, CountsInv
  <2> QED BY <1>1, <1>2, <2>1, <2>2, <2>3, ListParts, ShowKeeps
<1>4. CASE NextPage
  <2>1. /\ Show(ui.filter, ui.page + 1, ui.typed, ui.timer, {})
        /\ Observed # Unseen /\ ui.page < Observed /\ PagerFree(ui.pager.next)
    BY <1>4 DEF NextPage, NextOffered
  <2>2. Observed \in 0..Unseen
    BY <1>1, ListParts DEF Observed
  <2>3. ui.page + 1 \in 1..MaxPage + 1
    BY <1>1, <2>1, <2>2, ListParts, Numbers
  <2>4. ui.pager.next # "nothing" => Observed = ui.cache[Key]
    <3>1. ui.pager.next \in {"nothing", "fetch", "data"} /\ (ui.pager.next = "data" => ~ui.pager.keeps)
      BY <1>1, ListParts, Pagers
    <3>2. CASE ui.pager.next = "fetch"
      <4>1. ~Fetching
        BY <2>1, <3>2 DEF PagerFree
      <4> QED BY <4>1 DEF ListInv, KeyInv, Observed
    <3> QED BY <3>1, <3>2 DEF Observed
  <2>5. ~past.fewer /\ ui.pager.next # "nothing" => ui.page + 1 <= srv[ui.filter]
    <3>1. Key[1] = ui.filter /\ Key \in PageKeys
      BY <1>1, ListParts DEF Key
    <3>2. ~past.fewer /\ ui.cache[Key] # Unseen => ui.cache[Key] <= srv[ui.filter]
      BY <3>1 DEF ListInv, CountsInv
    <3>3. srv[ui.filter] \in Nat
      BY <1>1, ListParts, Numbers
    <3> QED BY <1>1, <2>1, <2>2, <2>4, <3>2, <3>3, ListParts, Numbers
  <2> QED BY <1>1, <1>2, <2>1, <2>3, <2>5, ListParts, ShowKeeps
<1> QED BY <1>3, <1>4

LEMMA RefreshKeeps ==
    ASSUME ListInv, RefreshPage
    PROVE  ListInv'
<1> DEFINE failed == IF ui.cache[Key] = Unseen THEN ui.failed \ {Key} ELSE ui.failed
<1>1. ListType /\ UNCHANGED <<srv, past>> /\ net' = net \union {Key}
  BY DEF ListInv, RefreshPage
<1>2. ui' = [ui EXCEPT !.failed = failed]
  BY <1>1, ListParts DEF RefreshPage, ListScreen
<1>3. failed \subseteq PageKeys /\ net' \subseteq PageKeys
  BY <1>1, ListParts
<1> HIDE DEF failed
<1>4. /\ ui' \in ListScreen /\ ui'.form = ui.form /\ ui'.pager = ui.pager /\ ui'.timer = ui.timer
      /\ ui'.typed = ui.typed /\ ui'.filter = ui.filter /\ ui'.page = ui.page
      /\ ui'.cache = ui.cache
  BY <1>1, <1>2, <1>3, ListParts DEF ListScreen
<1>5. KeyInv'
  BY <1>1, <1>4 DEF KeyInv, Fetching, Key
<1> QED BY <1>1, <1>3, <1>4, <1>5 DEF ListInv, ListType, PauseInv, CountsInv

-----------------------------------------------------------------------------
(* The answers and the rows                                                *)

LEMMA ArrivesKeeps ==
    ASSUME ListInv, NEW k \in PageKeys, PageArrives(k)
    PROVE  ListInv'
<1> DEFINE cache == [ui.cache EXCEPT ![k] = srv[k[1]]]
           failed == ui.failed \ {k}
<1>1. ListType /\ UNCHANGED <<srv, past>> /\ net' = net \ {k}
      /\ ui' = [ui EXCEPT !.cache = cache, !.failed = failed]
  BY DEF ListInv, PageArrives
<1>2. srv[k[1]] \in 0..Unseen /\ srv[k[1]] # Unseen
  BY <1>1, ListParts, Numbers
<1>3. /\ cache \in [PageKeys -> 0..Unseen] /\ cache[k] = srv[k[1]]
      /\ \A o \in PageKeys : o # k => cache[o] = ui.cache[o]
      /\ failed \subseteq PageKeys /\ net' \subseteq PageKeys
  BY <1>1, <1>2, ListParts
<1>4. /\ ui' \in ListScreen /\ ui'.form = ui.form /\ ui'.pager = ui.pager /\ ui'.timer = ui.timer
      /\ ui'.typed = ui.typed /\ ui'.filter = ui.filter /\ ui'.page = ui.page
      /\ ui'.cache = cache /\ ui'.failed = failed
  <2> HIDE DEF cache, failed
  <2> QED BY <1>1, <1>3, ListParts DEF ListScreen
<1>5. KeyInv'
  <2> HIDE DEF cache
  <2> QED BY <1>1, <1>2, <1>3, <1>4, ListParts DEF ListInv, KeyInv, Fetching, Failed, Key
<1>6. CountsInv'
  <2> HIDE DEF cache, failed
  <2>1. ~past.fewer => \A o \in PageKeys : cache[o] # Unseen => cache[o] <= srv[o[1]]
    <3>1. srv[k[1]] <= srv[k[1]]
      BY <1>2, Numbers
    <3> QED BY <1>3, <3>1 DEF ListInv, CountsInv
  <2> QED BY <1>1, <1>4, <2>1 DEF ListInv, CountsInv
<1> QED BY <1>1, <1>3, <1>4, <1>5, <1>6 DEF ListInv, ListType, PauseInv

LEMMA PageFailsKeeps ==
    ASSUME ListInv, NEW k \in PageKeys, PageFails(k)
    PROVE  ListInv'
<1> DEFINE failed == ui.failed \union {k}
<1>1. ListType /\ srv' = srv /\ net' = net \ {k} /\ ui' = [ui EXCEPT !.failed = failed]
      /\ past' = [past EXCEPT !.events = @ + 1]
  BY DEF ListInv, PageFails, Spend
<1>2. failed \subseteq PageKeys /\ net' \subseteq PageKeys
  BY <1>1, ListParts
<1>3. /\ ui' \in ListScreen /\ ui'.form = ui.form /\ ui'.pager = ui.pager /\ ui'.timer = ui.timer
      /\ ui'.typed = ui.typed /\ ui'.filter = ui.filter /\ ui'.page = ui.page
      /\ ui'.cache = ui.cache /\ ui'.failed = failed
  <2> HIDE DEF failed
  <2> QED BY <1>1, <1>2, ListParts DEF ListScreen
<1>4. past' \in ListPast /\ past'.fewer = past.fewer
  BY <1>1, ListParts DEF ListPast
<1>5. KeyInv'
  BY <1>1, <1>3 DEF ListInv, KeyInv, Fetching, Failed, Key
<1> QED BY <1>1, <1>2, <1>3, <1>4, <1>5 DEF ListInv, ListType, PauseInv, CountsInv

LEMMA ChangeKeeps ==
    ASSUME ListInv, OthersChange \/ OwnChange
    PROVE  ListInv'
<1>1. ListType /\ ui' = ui
  BY DEF ListInv, OthersChange, OwnChange
<1>2. PICK n \in Pages : RowsChange(n)
  BY DEF OthersChange, OwnChange
<1>3. net \subseteq net' /\ net' \subseteq PageKeys
  BY <1>1, ListParts DEF OthersChange, OwnChange
<1> DEFINE fewer == past.fewer \/ \E f \in Filters : n[f] < srv[f]
<1>4. srv' = n /\ past' \in ListPast /\ past'.fewer = fewer
  <2>1. fewer \in BOOLEAN
    BY <1>1, ListParts
  <2>2. srv' = n /\ past' = [past EXCEPT !.events = @ + 1, !.fewer = fewer]
    BY <1>1, <1>2, ListParts DEF RowsChange, ListPast
  <2> HIDE DEF fewer
  <2>3. past \in ListPast /\ past.events + 1 \in Nat
    BY <1>1, ListParts
  <2>4. past' = [events |-> past.events + 1, fewer |-> fewer]
    BY <2>2, <2>3 DEF ListPast
  <2> QED BY <2>1, <2>2, <2>3, <2>4 DEF ListPast
<1>5. CountsInv'
  <2> SUFFICES ASSUME ~fewer PROVE CountsInv'
    BY <1>4 DEF CountsInv
  <2>1. ~past.fewer /\ \A f \in Filters : srv[f] <= n[f]
    <3>3. ~past.fewer
      OBVIOUS
    <3>4. ASSUME NEW f \in Filters, n[f] < srv[f] PROVE FALSE
      BY <3>4, Zenon
    <3>1. \A f \in Filters : srv[f] \in Nat /\ n[f] \in Nat
      BY <1>1, <1>2, ListParts, Numbers DEF Pages
    <3> HIDE DEF fewer
    <3> QED BY <3>1, <3>3, <3>4
  <2>2. ASSUME NEW k \in PageKeys, ui.cache[k] # Unseen
        PROVE  ui.cache[k] <= n[k[1]]
    <3>1. ui.cache[k] <= srv[k[1]] /\ srv[k[1]] <= n[k[1]]
      BY <2>1, <2>2, Numbers DEF ListInv, CountsInv
    <3>2. ui.cache[k] \in Nat /\ srv[k[1]] \in Nat /\ n[k[1]] \in Nat
      BY <1>1, <1>2, ListParts, Numbers DEF Pages
    <3> QED BY <3>1, <3>2
  <2>3. ui.pager.next # "nothing" => ui.page = 1 \/ ui.page <= n[ui.filter]
    <3>1. ui.pager.next # "nothing" => ui.page = 1 \/ ui.page <= srv[ui.filter]
      BY <2>1 DEF ListInv, CountsInv
    <3>2. srv[ui.filter] <= n[ui.filter] /\ ui.page \in Nat /\ srv[ui.filter] \in Nat
          /\ n[ui.filter] \in Nat
      BY <1>1, <1>2, <2>1, ListParts, Numbers DEF Pages
    <3> QED BY <3>1, <3>2
  <2> QED BY <1>1, <1>4, <2>2, <2>3 DEF CountsInv
<1> QED BY <1>1, <1>3, <1>4, <1>5 DEF ListInv, ListType, PauseInv, KeyInv, Key, Fetching, Failed

-----------------------------------------------------------------------------
(* The theorems                                                            *)

LEMMA ListInitially == InitList => ListInv
<1> SUFFICES ASSUME InitList PROVE ListInv
  OBVIOUS
<1>1. PICK p \in ListPages, n \in Pages :
        /\ ui = [screen |-> "list", form |-> p[1], pager |-> p[2], typed |-> "all", timer |-> FALSE,
                 filter |-> "all", page |-> 1, prev |-> <<"all", 1>>, failed |-> {},
                 cache |-> [k \in PageKeys |-> Unseen]]
        /\ net = {<<"all", 1>>} /\ srv = n /\ past = [events |-> 0, fewer |-> FALSE]
  BY DEF InitList
<1> DEFINE cache == [k \in PageKeys |-> Unseen]
<1>2. /\ <<"all", 1>> \in PageKeys /\ "all" \in Filters /\ cache \in [PageKeys -> 0..Unseen]
      /\ \A k \in PageKeys : cache[k] = Unseen
  BY Numbers DEF PageKeys, Filters
<1>3. p[1] \in {q[1] : q \in ListPages} /\ p[2] \in {q[2] : q \in ListPages} /\ p = <<p[1], p[2]>>
  BY DEF ListPages
<1>4. ui.cache = cache /\ ui.form = p[1] /\ ui.pager = p[2]
  BY <1>1
<1> HIDE DEF cache
<1>5. ui \in ListScreen
  BY <1>1, <1>2, <1>3, <1>4, Numbers DEF ListScreen, cache
<1>6. ListType
  BY <1>1, <1>2, <1>3, <1>4, <1>5 DEF ListType, ListPast
<1> QED BY <1>1, <1>2, <1>4, <1>6 DEF ListInv, PauseInv, KeyInv, Key, Fetching, CountsInv

LEMMA ListNext ==
    ASSUME ListInv, [NextList]_browser
    PROVE  ListInv'
<1>1. CASE UNCHANGED browser
  BY <1>1 DEF browser, ListInv, ListType, PauseInv, KeyInv, Key, Fetching, Failed, CountsInv
<1>2. CASE NextList
  <2>1. ASSUME NEW f \in Filters, Choose(f) PROVE ListInv'
    BY <2>1, RefilterKeeps DEF Choose
  <2> QED BY <1>2, <2>1, TypeKeeps, SettlesKeeps, ResetKeeps, TurnKeeps, RefreshKeeps,
        ArrivesKeeps, PageFailsKeeps, ChangeKeeps DEF NextList
<1> QED BY <1>1, <1>2

\* List page, reads and rows keep to the code's types, only a running pause keeps the field
\* apart from the filter, the page's key is answered, waited for or failed, and while no
\* row goes away every cached answer and every waiting pager counts pages that exist.
THEOREM ListInvariant == SpecList => []ListInv
<1>1. InitList => ListInv
  BY ListInitially
<1>2. ListInv /\ [NextList]_browser => ListInv'
  BY ListNext
<1> QED BY <1>1, <1>2, PTL DEF SpecList

\* List page, reads and rows hold what the code's types allow.
THEOREM ListTyped == SpecList => []ListTypeOK
<1>1. ListInv => ListTypeOK
  BY DEF ListInv, ListTypeOK
<1> QED BY <1>1, ListInvariant, PTL

\* A list page whose pause is over and whose reads are in shows the rows of its filter and
\* page; a pager that waits for its answer stays on a page that exists while no row goes
\* away; and whoever is left behind the last page has a way back.
THEOREM PageHeld == SpecList => []PageHolds
<1>1. ListInv => PageHolds
  <2> SUFFICES ASSUME ListInv PROVE PageHolds
    OBVIOUS
  <2>1. RowsFitFilter /\ PageExists
    BY DEF ListInv, PauseInv, KeyInv, CountsInv, RowsFitFilter, PageExists
  <2>2. NotStranded
    <3> SUFFICES ASSUME InList, ui.pager.hidden # "single", ui.cache[Key] \in 1..MaxPage,
                        ui.page > ui.cache[Key], ~Fetching, ~Failed
                 PROVE  PrevOffered
      BY DEF NotStranded, WayBack
    <3>1. /\ ui.pager.prev \in {"nothing", "fetch", "data"}
          /\ ui.pager.hidden \in {"never", "empty", "single"}
      BY ListParts, Pagers DEF ListInv
    <3>2. ui.cache[Key] # Unseen
      BY Numbers
    <3>3. Observed = ui.cache[Key]
      BY <3>2 DEF Observed
    <3>4. ui.page > 1
      BY ListParts, Numbers DEF ListInv
    <3>5. PagerShown
      BY <3>1, <3>3 DEF PagerShown
    <3>6. PagerFree(ui.pager.prev)
      BY <3>1, <3>2, <3>3 DEF PagerFree
    <3> QED BY <3>4, <3>5, <3>6 DEF PrevOffered, Controls
  <2> QED BY <2>1, <2>2 DEF PageHolds
<1> QED BY <1>1, ListInvariant, PTL

(***************************************************************************)
(* QuestionImages                                                          *)
(***************************************************************************)

-----------------------------------------------------------------------------
(* The images of a question                                                *)

ImagesStep ==
  \/ \E kind \in {"bank", "soal"} :
       \/ OpenQuestion(kind) \/ CloseQuestion(kind) \/ SaveText(kind) \/ TextAnswered(kind)
       \/ \E d \in Dialogs : PickImage(kind, d) \/ DropImage(kind, d) \/ ImageAnswered(kind, d)
  \/ CheckText \/ WriteText
  \/ \E d \in Dialogs : CheckImage(d) \/ SelectKey(d) \/ UpdateKey(d) \/ CleanUp(d)

LEMMA StepsOfImages == NextImages => ImagesStep
BY DEF NextImages, ImagesStep, BankImages, BankImageCalls, BankQuestion, BankValidate,
   BankAnswered, SoalImages, SoalImageCalls, SoalQuestion, SoalValidate, SoalAnswered

LEMMA ImageMarks ==
    /\ MaxObject \in Nat /\ 0 \in Keys /\ Keys = 0..MaxObject /\ Objects = 1..MaxObject
    /\ NoImageCall \in ImageCall /\ NoImageCall.at = "idle" /\ NoImageCall.op = "upload"
    /\ NoImageCall.new = 0 /\ NoImageCall.old = 0
    /\ NoQuestion \in Question /\ NoQuestion.version = 1 /\ NoQuestion.text /\ NoQuestion.image = 0
    /\ NoTextSave \in TextSave /\ NoTextSave.at = "idle"
BY ImagesAssumption DEF Keys, Objects, NoImageCall, ImageCall, NoQuestion, Question, NoTextSave,
   TextSave

LEMMA ImageParts ==
    ASSUME ImagesType
    PROVE  /\ ui \in ImagesScreen /\ net \in ImagesCalls /\ srv \in ImagesRows
           /\ past \in ImagesPast
           /\ ui.base \in Question /\ ui.open \in BOOLEAN
           /\ net.save \in TextSave /\ net.call \in [Dialogs -> ImageCall]
           /\ srv.row \in Question /\ srv.row.version \in 1..3 /\ srv.row.text \in BOOLEAN
           /\ srv.row.image \in Keys /\ srv.row.image \in Nat
           /\ srv.store \subseteq Objects /\ srv.used \in Keys /\ srv.used \in Nat
           /\ past.events \in Nat /\ past.raced \in BOOLEAN /\ past.crossed \in BOOLEAN
BY ImageMarks DEF ImagesType, ImagesScreen, ImagesCalls, ImagesRows, ImagesPast, Question

\* The request of one dialog, or the save, is replaced.
LEMMA ImageCallReplaced ==
    ASSUME net \in ImagesCalls, NEW d \in Dialogs, NEW c \in ImageCall,
           net' = [net EXCEPT !.call[d] = c]
    PROVE  /\ net' \in ImagesCalls /\ net'.save = net.save /\ net'.call[d] = c
           /\ \A e \in Dialogs : e # d => net'.call[e] = net.call[e]
BY DEF ImagesCalls
LEMMA TextSaveReplaced ==
    ASSUME net \in ImagesCalls, NEW x \in TextSave, net' = [net EXCEPT !.save = x]
    PROVE  net' \in ImagesCalls /\ net'.save = x /\ net'.call = net.call
BY DEF ImagesCalls

-----------------------------------------------------------------------------
(* The invariant is kept: the dialog                                       *)

LEMMA QuestionKeeps ==
    ASSUME ImagesInv, \E kind : OpenQuestion(kind) \/ CloseQuestion(kind)
    PROVE  ImagesInv'
<1>1. ImagesType /\ UNCHANGED <<net, srv, past>>
  BY DEF ImagesInv, OpenQuestion, CloseQuestion
<1>2. ui' \in ImagesScreen
  BY <1>1, ImageMarks, ImageParts DEF OpenQuestion, CloseQuestion, ImagesScreen
<1> QED BY <1>1, <1>2 DEF ImagesInv, ImagesType, KeysInv, StoreInv, LeftInv, ShowsInv, Put,
      Deleting, Valid

LEMMA SaveTextKeeps ==
    ASSUME ImagesInv, NEW kind, SaveText(kind)
    PROVE  ImagesInv'
<1>1. ImagesType /\ UNCHANGED <<ui, srv, past>> /\ srv.row.version < 3
  BY DEF ImagesInv, SaveText
<1>2. PICK text \in BOOLEAN :
        net' = [net EXCEPT !.save = [at |-> "read", version |-> ui.base.version, text |-> text]]
  BY DEF SaveText
<1> DEFINE save == [at |-> "read", version |-> ui.base.version, text |-> text]
<1>3. save \in TextSave /\ save.at = "read"
  BY <1>1, ImageParts DEF TextSave, Question
<1> HIDE DEF save
<1>4. net' \in ImagesCalls /\ net'.save = save /\ net'.call = net.call
  BY <1>1, <1>2, <1>3, ImageParts, TextSaveReplaced DEF save
<1> QED BY <1>1, <1>3, <1>4 DEF ImagesInv, ImagesType, KeysInv, StoreInv, LeftInv, ShowsInv, Put,
      Deleting, Valid

LEMMA TextAnsweredKeeps ==
    ASSUME ImagesInv, NEW kind, TextAnswered(kind)
    PROVE  ImagesInv'
<1>1. ImagesType /\ UNCHANGED <<srv, past>> /\ net' = [net EXCEPT !.save = NoTextSave]
  BY DEF ImagesInv, TextAnswered
<1>2. net' \in ImagesCalls /\ net'.save = NoTextSave /\ net'.call = net.call
  BY <1>1, ImageMarks, ImageParts, TextSaveReplaced
<1>3. ui' \in ImagesScreen
  BY <1>1, ImageMarks, ImageParts DEF TextAnswered, ImagesScreen
<1> QED BY <1>1, <1>2, <1>3, ImageMarks DEF ImagesInv, ImagesType, KeysInv, StoreInv, LeftInv,
      ShowsInv, Put, Deleting, Valid

LEMMA CheckTextKeeps ==
    ASSUME ImagesInv, CheckText
    PROVE  ImagesInv'
<1> DEFINE at == IF Valid(net.save.text, srv.row.image) THEN "write" ELSE "no"
           save == [net.save EXCEPT !.at = at]
           raced == past.raced \/ \E d \in Dialogs : net.call[d].op = "delete" /\ InService(d)
<1>1. ImagesType /\ UNCHANGED <<ui, srv>> /\ net.save.at = "read"
  BY DEF ImagesInv, CheckText
<1>2. net' = [net EXCEPT !.save = save]
  BY <1>1, ImageParts DEF CheckText, ImagesCalls
<1>3. save \in TextSave /\ save.at = at /\ save.text = net.save.text
  BY <1>1, ImageParts DEF TextSave
<1> HIDE DEF save
<1>4. net' \in ImagesCalls /\ net'.save = save /\ net'.call = net.call
  BY <1>1, <1>2, <1>3, ImageParts, TextSaveReplaced
<1>5. past' \in ImagesPast /\ past'.raced = raced /\ past'.crossed = past.crossed
  <2>1. raced \in BOOLEAN /\ past' = [past EXCEPT !.raced = raced]
    BY <1>1, ImageParts DEF CheckText, ImagesPast
  <2> HIDE DEF raced
  <2> QED BY <1>1, <2>1, ImageParts DEF ImagesPast
<1>6. ShowsInv'
  <2>1. ~raced => ~past.raced /\ \A d \in Dialogs : ~Deleting(d)
    BY DEF Deleting, Put, InService
  <2> HIDE DEF raced
  <2>2. \A d \in Dialogs : Deleting(d)' <=> Deleting(d)
    BY <1>4 DEF Deleting, Put
  <2>3. save.at = "write" => Valid(save.text, srv.row.image)
    BY <1>3
  <2> QED BY <1>1, <1>3, <1>4, <1>5, <2>1, <2>2, <2>3 DEF ImagesInv, ShowsInv, Valid
<1> QED BY <1>1, <1>4, <1>5, <1>6 DEF ImagesInv, ImagesType, KeysInv, StoreInv, LeftInv, Put

LEMMA WriteTextKeeps ==
    ASSUME ImagesInv, WriteText
    PROVE  ImagesInv'
<1> DEFINE row == [srv.row EXCEPT !.version = @ + 1, !.text = net.save.text]
<1>1. ImagesType /\ UNCHANGED <<ui, past>> /\ net.save.at = "write" /\ srv.row.version < 3
  BY DEF ImagesInv, WriteText, ShowsInv
<1>2. PICK at \in {"ok", "no"} : net' = [net EXCEPT !.save.at = at]
  BY DEF WriteText
<1> DEFINE save == [net.save EXCEPT !.at = at]
<1>3. save \in TextSave /\ save.at = at /\ net' = [net EXCEPT !.save = save]
  BY <1>1, <1>2, ImageParts DEF TextSave, ImagesCalls
<1> HIDE DEF save
<1>4. net' \in ImagesCalls /\ net'.save = save /\ net'.call = net.call
  BY <1>1, <1>3, ImageParts, TextSaveReplaced
<1>5. \/ srv' = srv
      \/ srv' = [srv EXCEPT !.row = row]
  BY <1>1, ImageParts DEF WriteText, ImagesRows, Question
<1>6. /\ row \in Question /\ row.image = srv.row.image /\ row.text = net.save.text
  <2>1. srv.row.version + 1 \in 1..3 /\ net.save.text \in BOOLEAN
    BY <1>1, ImageParts DEF TextSave
  <2> QED BY <1>1, <2>1, ImageParts DEF Question
<1> HIDE DEF row
<1>7. /\ srv' \in ImagesRows /\ srv'.store = srv.store /\ srv'.used = srv.used
      /\ srv'.row.image = srv.row.image /\ srv'.row.text \in {srv.row.text, net.save.text}
  BY <1>1, <1>5, <1>6, ImageParts DEF ImagesRows
<1>8. KeysInv' /\ StoreInv' /\ LeftInv'
  BY <1>1, <1>4, <1>7 DEF ImagesInv, KeysInv, StoreInv, LeftInv, Put
<1>9. ShowsInv'
  <2>1. \A d \in Dialogs : Deleting(d)' <=> Deleting(d)
    BY <1>4 DEF Deleting, Put
  <2> QED BY <1>1, <1>3, <1>4, <1>7, <2>1 DEF ImagesInv, ShowsInv, Valid
<1> QED BY <1>1, <1>4, <1>7, <1>8, <1>9 DEF ImagesInv, ImagesType

-----------------------------------------------------------------------------
(* The requests of the cards                                               *)

LEMMA PickKeeps ==
    ASSUME ImagesInv, NEW kind, NEW d \in Dialogs, PickImage(kind, d)
    PROVE  ImagesInv'
<1> DEFINE new == srv.used + 1
           c == [at |-> "select", op |-> "upload", new |-> new, old |-> 0]
<1>1. /\ ImagesType /\ UNCHANGED <<ui, past>> /\ net.call[d].at = "idle" /\ srv.used < MaxObject
      /\ srv' = [srv EXCEPT !.used = new]
  BY DEF ImagesInv, PickImage
<1>2. new \in Keys /\ new \in Nat /\ new # 0 /\ srv.used < new
  BY <1>1, ImageParts, ImageMarks
<1>3. /\ srv' \in ImagesRows /\ srv'.used = new /\ srv'.row = srv.row /\ srv'.store = srv.store
  <2> HIDE DEF new
  <2> QED BY <1>1, <1>2, ImageParts DEF ImagesRows
<1>4. net' = [net EXCEPT !.call[d] = c]
  BY <1>3 DEF PickImage
<1>5. /\ c \in ImageCall /\ c.at = "select" /\ c.op = "upload" /\ c.new = new /\ c.old = 0
  <2> HIDE DEF new
  <2> QED BY <1>2, ImageMarks DEF ImageCall
<1> HIDE DEF new, c
<1>6. /\ net' \in ImagesCalls /\ net'.save = net.save /\ net'.call[d] = c
      /\ \A e \in Dialogs : e # d => net'.call[e] = net.call[e]
  BY <1>1, <1>4, <1>5, ImageParts, ImageCallReplaced
<1>7. /\ srv.row.image < new /\ \A k \in srv.store : k < new
      /\ \A e \in Dialogs : net.call[e].new < new /\ net.call[e].old < new
  <2>1. /\ srv.row.image <= srv.used /\ \A k \in srv.store : k <= srv.used
        /\ \A e \in Dialogs : net.call[e].new <= srv.used /\ net.call[e].old <= srv.used
    BY DEF ImagesInv, KeysInv
  <2>2. \A e \in Dialogs : net.call[e].new \in Nat /\ net.call[e].old \in Nat
    BY <1>1, ImageParts, ImageMarks DEF ImageCall
  <2>3. \A k \in srv.store : k \in Nat
    BY <1>1, ImageParts, ImageMarks
  <2> QED BY <1>1, <1>2, <2>1, <2>2, <2>3, ImageParts
<1>8. \A e \in Dialogs : Deleting(e)' <=> Deleting(e)
  BY <1>1, <1>5, <1>6 DEF Deleting, Put
<1>9. KeysInv'
  <2> SUFFICES /\ (\A k \in srv.store \union {srv.row.image} : k <= new)
               /\ \A e \in Dialogs : LET f == net'.call[e] IN
                    /\ f.new <= new /\ f.old <= new
                    /\ f.op = "upload" => f.at # "check" /\ (f.at \in {"select", "update"} => f.new # 0)
                    /\ f.op = "delete" => f.new = 0
                    /\ \A g \in Dialogs \ {e} : f.new = net'.call[g].new => f.new = 0
                    /\ f.at \in {"select", "update"} /\ f.new # 0 =>
                         f.new # srv.row.image /\ \A g \in Dialogs : net'.call[g].old # f.new
    BY <1>3 DEF KeysInv, Put
  <2>1. \A k \in srv.store \union {srv.row.image} : k <= new
    <3>1. \A k \in srv.store : k \in Nat
      BY <1>1, ImageParts, ImageMarks
    <3> QED BY <1>1, <1>2, <1>7, <3>1, ImageParts
  <2>2. ASSUME NEW e \in Dialogs
        PROVE  LET f == net'.call[e] IN
                 /\ f.new <= new /\ f.old <= new
                 /\ f.op = "upload" => f.at # "check" /\ (f.at \in {"select", "update"} => f.new # 0)
                 /\ f.op = "delete" => f.new = 0
                 /\ \A g \in Dialogs \ {e} : f.new = net'.call[g].new => f.new = 0
                 /\ f.at \in {"select", "update"} /\ f.new # 0 =>
                      f.new # srv.row.image /\ \A g \in Dialogs : net'.call[g].old # f.new
    <3>1. \A g \in Dialogs : net.call[g].new \in Nat /\ net.call[g].old \in Nat
      BY <1>1, ImageParts, ImageMarks DEF ImageCall
    <3>2. CASE e = d
      BY <1>1, <1>2, <1>5, <1>6, <1>7, <3>1, <3>2, ImageParts
    <3>3. CASE e # d
      <4>1. /\ net'.call[e] = net.call[e]
            /\ \A g \in Dialogs : net'.call[g].old \in {0, net.call[g].old}
            /\ \A g \in Dialogs : net'.call[g].new = net.call[g].new \/ net'.call[g].new = new
        BY <1>5, <1>6, <3>3
      <4> QED BY <1>1, <1>2, <1>5, <1>6, <1>7, <3>1, <3>3, <4>1, ImageParts
            DEF ImagesInv, KeysInv, Put
    <3> QED BY <3>2, <3>3
  <2> QED BY <2>1, <2>2
<1>10. StoreInv' /\ LeftInv'
  BY <1>1, <1>3, <1>5, <1>6 DEF ImagesInv, StoreInv, LeftInv
<1>11. ShowsInv'
  BY <1>1, <1>3, <1>6, <1>8 DEF ImagesInv, ShowsInv, Valid
<1> QED BY <1>1, <1>3, <1>6, <1>9, <1>10, <1>11 DEF ImagesInv, ImagesType

\* A request that names no key yet, or none any more.
LEMMA QuietKeeps ==
    ASSUME ImagesInv, NEW d \in Dialogs, NEW c \in ImageCall, net' = [net EXCEPT !.call[d] = c],
           ui' = ui, srv' = srv, past' = past,
           c.new = 0, c.old = 0,
           \/ c.op = "delete" /\ c.at = "check" /\ net.call[d].at = "idle"
           \/ c.op = "upload" /\ c.at = "idle" /\ net.call[d].at = "done"
    PROVE  ImagesInv'
<1>1. ImagesType /\ srv.used \in Nat
  BY ImageParts DEF ImagesInv
<1>2. /\ net' \in ImagesCalls /\ net'.save = net.save /\ net'.call[d] = c
      /\ \A e \in Dialogs : e # d => net'.call[e] = net.call[e]
  BY <1>1, ImageParts, ImageCallReplaced
<1>3. \A e \in Dialogs : /\ Put(e)' <=> Put(e) /\ e # d
                         /\ Deleting(e)' <=> Deleting(e)
  BY <1>2 DEF Deleting, Put
<1>4. KeysInv'
  BY <1>1, <1>2, <1>3 DEF ImagesInv, KeysInv
<1>5. StoreInv' /\ LeftInv'
  BY <1>2 DEF ImagesInv, StoreInv, LeftInv
<1>6. ShowsInv'
  BY <1>2, <1>3 DEF ImagesInv, ShowsInv
<1> QED BY <1>1, <1>2, <1>4, <1>5, <1>6 DEF ImagesInv, ImagesType

LEMMA DropKeeps ==
    ASSUME ImagesInv, NEW d \in Dialogs,
           \E kind : DropImage(kind, d) \/ ImageAnswered(kind, d)
    PROVE  ImagesInv'
<1> DEFINE c == [at |-> "check", op |-> "delete", new |-> 0, old |-> 0]
<1>1. UNCHANGED <<ui, srv, past>>
  BY DEF DropImage, ImageAnswered
<1>2. CASE net' = [net EXCEPT !.call[d] = c] /\ net.call[d].at = "idle"
  <2>1. c \in ImageCall /\ c.at = "check" /\ c.op = "delete" /\ c.new = 0 /\ c.old = 0
    BY ImageMarks DEF ImageCall
  <2> HIDE DEF c
  <2> QED BY <1>1, <1>2, <2>1, QuietKeeps
<1>3. CASE net' = [net EXCEPT !.call[d] = NoImageCall] /\ net.call[d].at = "done"
  BY <1>1, <1>3, ImageMarks, QuietKeeps
<1> QED BY <1>2, <1>3 DEF DropImage, ImageAnswered

-----------------------------------------------------------------------------
(* The service                                                             *)

LEMMA CheckImageKeeps ==
    ASSUME ImagesInv, NEW d \in Dialogs, CheckImage(d)
    PROVE  ImagesInv'
<1> DEFINE at == IF MayDelete THEN "select" ELSE "done"
           c == [net.call[d] EXCEPT !.at = at]
           raced == past.raced \/ net.save.at = "write"
<1>1. /\ ImagesType /\ UNCHANGED <<ui, srv>> /\ net.call[d].at = "check"
      /\ net.call[d].op = "delete"
  BY ImageParts DEF ImagesInv, CheckImage, KeysInv, ImageCall
<1>2. /\ c \in ImageCall /\ c.at = at /\ c.op = "delete" /\ c.new = net.call[d].new
      /\ c.old = net.call[d].old /\ net' = [net EXCEPT !.call[d] = c]
  <2>1. net.call[d] \in ImageCall
    BY <1>1, ImageParts
  <2> QED BY <1>1, <2>1, ImageParts DEF CheckImage, ImageCall, ImagesCalls
<1>3. at = "select" => srv.row.text
  BY DEF MayDelete
<1>3a. at \in {"select", "done"}
  OBVIOUS
<1> HIDE DEF at, c
<1>4. /\ net' \in ImagesCalls /\ net'.save = net.save /\ net'.call[d] = c
      /\ \A e \in Dialogs : e # d => net'.call[e] = net.call[e]
  BY <1>1, <1>2, ImageParts, ImageCallReplaced
<1>5. past' \in ImagesPast /\ past'.raced = raced /\ past'.crossed = past.crossed
  <2>1. raced \in BOOLEAN /\ past' = [past EXCEPT !.raced = raced]
    BY <1>1, ImageParts DEF CheckImage, ImagesPast
  <2> HIDE DEF raced
  <2> QED BY <1>1, <2>1, ImageParts DEF ImagesPast
<1>6. \A e \in Dialogs : Deleting(e)' => Deleting(e) \/ (e = d /\ srv.row.text)
  <2> TAKE e \in Dialogs
  <2>1. CASE e = d
    BY <1>2, <1>3, <1>3a, <1>4, <2>1 DEF Deleting, Put
  <2>2. CASE e # d
    BY <1>4, <2>2 DEF Deleting, Put
  <2> QED BY <2>1, <2>2
<1>7. KeysInv'
  <2>1. \A e \in Dialogs : /\ net'.call[e].new = net.call[e].new
                           /\ net'.call[e].old = net.call[e].old
                           /\ net'.call[e].op = net.call[e].op
                           /\ net'.call[e].at = "check" => net.call[e].at = "check"
                           /\ net'.call[e].new # 0 /\ Put(e)' => Put(e)
                           /\ net'.call[e].op = "upload" /\ Put(e)' => Put(e)
    BY <1>1, <1>2, <1>3a, <1>4 DEF Put, ImagesInv, KeysInv
  <2> QED BY <1>1, <2>1 DEF ImagesInv, KeysInv
<1>8. StoreInv' /\ LeftInv'
  BY <1>1, <1>2, <1>3a, <1>4, <1>5 DEF ImagesInv, StoreInv, LeftInv
<1>9. ShowsInv'
  <2> HIDE DEF raced
  <2>1. ~raced => ~past.raced /\ net.save.at # "write"
    BY DEF raced
  <2> QED BY <1>1, <1>4, <1>5, <1>6, <2>1 DEF ImagesInv, ShowsInv
<1> QED BY <1>1, <1>4, <1>5, <1>7, <1>8, <1>9 DEF ImagesInv, ImagesType

LEMMA SelectKeeps ==
    ASSUME ImagesInv, NEW d \in Dialogs, SelectKey(d)
    PROVE  ImagesInv'
<1> DEFINE o == net.call[d]
           c == [o EXCEPT !.at = "update", !.old = srv.row.image]
           store == ObjectsPut(o)
           crossed == past.crossed \/ \E e \in Dialogs \ {d} : net.call[e].at = "update"
<1>1. ImagesType /\ ui' = ui /\ o.at = "select" /\ o \in ImageCall
  BY ImageParts DEF ImagesInv, SelectKey
<1>2. /\ c \in ImageCall /\ c.at = "update" /\ c.op = o.op /\ c.new = o.new
      /\ c.old = srv.row.image /\ net' = [net EXCEPT !.call[d] = c]
  BY <1>1, ImageParts DEF SelectKey, ImageCall, ImagesCalls
<1>3. /\ o.op = "upload" => o.new # 0
      /\ o.op = "delete" => o.new = 0
      /\ o.new # 0 => o.new # srv.row.image /\ \A e \in Dialogs : net.call[e].old # o.new
      /\ o.op \in {"upload", "delete"} /\ o.new \in Keys /\ o.new <= srv.used
  BY <1>1 DEF ImagesInv, KeysInv, Put, ImageCall
<1>4. store = IF o.op = "upload" THEN srv.store \union {o.new} ELSE srv.store
  BY DEF ObjectsPut
<1> HIDE DEF c, store
<1>5. /\ net' \in ImagesCalls /\ net'.save = net.save /\ net'.call[d] = c
      /\ \A e \in Dialogs : e # d => net'.call[e] = net.call[e]
  BY <1>1, <1>2, ImageParts, ImageCallReplaced
<1>6. store \subseteq Objects
  BY <1>1, <1>3, <1>4, ImageParts, ImageMarks
<1>7. srv' \in ImagesRows /\ srv'.store = store /\ srv'.row = srv.row /\ srv'.used = srv.used
  BY <1>1, <1>6, ImageParts DEF SelectKey, ImagesRows, store
<1>8. past' \in ImagesPast /\ past'.raced = past.raced /\ past'.crossed = crossed
  <2>1. crossed \in BOOLEAN /\ past' = [past EXCEPT !.crossed = crossed]
    BY <1>1, ImageParts DEF SelectKey, ImagesPast
  <2> HIDE DEF crossed
  <2> QED BY <1>1, <2>1, ImageParts DEF ImagesPast
<1>9. \A e \in Dialogs : (Put(e)' <=> Put(e)) /\ (Deleting(e)' <=> Deleting(e))
  BY <1>1, <1>2, <1>5 DEF Deleting, Put
<1>10. KeysInv'
  <2>1. \A k \in store \union {srv.row.image} : k <= srv.used
    BY <1>3, <1>4 DEF ImagesInv, KeysInv
  <2>2. \A e \in Dialogs : /\ net'.call[e].new = net.call[e].new /\ net'.call[e].op = net.call[e].op
                           /\ net'.call[e].old \in {srv.row.image, net.call[e].old}
                           /\ net'.call[e].at = "check" => net.call[e].at = "check"
    BY <1>1, <1>2, <1>5
  <2> QED BY <1>7, <1>9, <2>1, <2>2 DEF ImagesInv, KeysInv
<1>11. StoreInv'
  BY <1>1, <1>2, <1>3, <1>4, <1>5, <1>7 DEF ImagesInv, StoreInv
<1>12. LeftInv'
  <2> SUFFICES ASSUME ~crossed PROVE LeftInv'
    BY <1>8 DEF LeftInv
  <2>1. ~past.crossed /\ \A e \in Dialogs \ {d} : net.call[e].at # "update"
    OBVIOUS
  <2>2. \A e \in Dialogs : net'.call[e].at = "update" =>
          /\ net'.call[e].old = srv.row.image
          /\ \A f \in Dialogs \ {e} : net'.call[f].at # "update"
    BY <1>1, <1>2, <1>5, <2>1
  <2>3. ASSUME NEW k \in store
        PROVE  \/ k = srv.row.image
               \/ \E e \in Dialogs : \/ net'.call[e].at = "update" /\ k = net'.call[e].new
                                     \/ net'.call[e].at = "clean" /\ k = net'.call[e].old
    <3>1. CASE k = o.new
      BY <1>2, <1>5, <3>1
    <3>2. CASE k \in srv.store
      <4>1. \/ k = srv.row.image
            \/ \E e \in Dialogs : \/ net.call[e].at = "update" /\ k = net.call[e].new
                                  \/ net.call[e].at = "clean" /\ k = net.call[e].old
        BY <2>1, <3>2 DEF ImagesInv, LeftInv
      <4> QED BY <1>1, <1>5, <4>1
    <3> QED BY <1>4, <3>1, <3>2
  <2> QED BY <1>7, <2>2, <2>3 DEF LeftInv
<1>13. ShowsInv'
  BY <1>5, <1>7, <1>8, <1>9 DEF ImagesInv, ShowsInv
<1> QED BY <1>1, <1>5, <1>7, <1>8, <1>10, <1>11, <1>12, <1>13 DEF ImagesInv, ImagesType

LEMMA UpdateKeeps ==
    ASSUME ImagesInv, NEW d \in Dialogs, UpdateKey(d)
    PROVE  ImagesInv'
<1> DEFINE o == net.call[d]
<1>1. ImagesType /\ ui' = ui /\ o.at = "update" /\ o \in ImageCall
  BY ImageParts DEF ImagesInv, UpdateKey
<1>2. /\ o.op = "upload" => o.new # 0 /\ o.new \in srv.store
      /\ o.op = "delete" => o.new = 0 /\ Deleting(d)
      /\ o.new # 0 => o.new # srv.row.image /\ \A e \in Dialogs : net.call[e].old # o.new
      /\ \A e \in Dialogs \ {d} : o.new = net.call[e].new => o.new = 0
      /\ o.op \in {"upload", "delete"} /\ o.new \in Keys /\ o.new <= srv.used
  BY <1>1 DEF ImagesInv, KeysInv, StoreInv, Put, Deleting, ImageCall
<1>3. CASE /\ srv' = [srv EXCEPT !.row.image = o.new]
           /\ net' = [net EXCEPT !.call[d].at = "clean"] /\ past' = past
  <2> DEFINE c == [o EXCEPT !.at = "clean"]
             row == [srv.row EXCEPT !.image = o.new]
  <2>1. /\ c \in ImageCall /\ c.at = "clean" /\ c.op = o.op /\ c.new = o.new /\ c.old = o.old
        /\ net' = [net EXCEPT !.call[d] = c]
    BY <1>1, <1>3, ImageParts DEF ImageCall, ImagesCalls
  <2>2. row \in Question /\ row.image = o.new /\ row.text = srv.row.text
        /\ row.version = srv.row.version /\ srv' = [srv EXCEPT !.row = row]
    BY <1>1, <1>2, <1>3, ImageParts DEF Question, ImagesRows
  <2> HIDE DEF c, row
  <2>3. /\ net' \in ImagesCalls /\ net'.save = net.save /\ net'.call[d] = c
        /\ \A e \in Dialogs : e # d => net'.call[e] = net.call[e]
    BY <1>1, <2>1, ImageParts, ImageCallReplaced
  <2>4. /\ srv' \in ImagesRows /\ srv'.store = srv.store /\ srv'.row = row /\ srv'.used = srv.used
    BY <1>1, <2>2, ImageParts DEF ImagesRows
  <2>5. \A e \in Dialogs : (Put(e)' <=> Put(e) /\ e # d) /\ (Deleting(e)' <=> Deleting(e) /\ e # d)
    BY <1>1, <2>1, <2>3 DEF Deleting, Put
  <2>6. \A e \in Dialogs : /\ net'.call[e].new = net.call[e].new /\ net'.call[e].op = net.call[e].op
                           /\ net'.call[e].old = net.call[e].old
                           /\ net'.call[e].at \in {"clean", net.call[e].at}
    BY <1>1, <2>1, <2>3
  <2>7. KeysInv'
    <3>1. \A k \in srv.store \union {row.image} : k <= srv.used
      BY <1>2, <2>2 DEF ImagesInv, KeysInv
    <3>2. ASSUME NEW e \in Dialogs, Put(e)', net'.call[e].new # 0
          PROVE  net'.call[e].new # row.image /\ \A f \in Dialogs : net'.call[f].old # net'.call[e].new
      BY <1>2, <2>2, <2>5, <2>6, <3>2 DEF ImagesInv, KeysInv
    <3> QED BY <2>4, <2>5, <2>6, <3>1, <3>2 DEF ImagesInv, KeysInv
  <2>8. StoreInv'
    <3>1. row.image # 0 => row.image \in srv.store
      BY <1>2, <2>2
    <3>2. ASSUME NEW e \in Dialogs, net'.call[e].at = "clean", net'.call[e].old # 0
          PROVE  net'.call[e].old # row.image
      BY <1>2, <2>2, <2>6, <3>2
    <3>3. ASSUME NEW e \in Dialogs, net'.call[e].at = "update", net'.call[e].op = "upload"
          PROVE  net'.call[e].new \in srv.store
      BY <2>1, <2>3, <3>3 DEF ImagesInv, StoreInv
    <3> QED BY <2>4, <3>1, <3>2, <3>3 DEF StoreInv
  <2>9. LeftInv'
    <3> SUFFICES ASSUME ~past.crossed PROVE LeftInv'
      BY <1>3 DEF LeftInv
    <3>1. /\ o.old = srv.row.image /\ \A e \in Dialogs \ {d} : net.call[e].at # "update"
      BY <1>1 DEF ImagesInv, LeftInv
    <3>2. \A e \in Dialogs : net'.call[e].at # "update"
      BY <2>1, <2>3, <3>1
    <3>3. ASSUME NEW k \in srv.store
          PROVE  k = row.image \/ \E e \in Dialogs : net'.call[e].at = "clean" /\ k = net'.call[e].old
      <4>1. \/ k = srv.row.image
            \/ \E e \in Dialogs : \/ net.call[e].at = "update" /\ k = net.call[e].new
                                  \/ net.call[e].at = "clean" /\ k = net.call[e].old
        BY DEF ImagesInv, LeftInv
      <4>2. CASE k = srv.row.image
        BY <2>1, <2>3, <3>1, <4>2
      <4>3. CASE k = o.new
        BY <2>2, <4>3
      <4>4. CASE \E e \in Dialogs : net.call[e].at = "clean" /\ k = net.call[e].old
        BY <1>1, <2>3, <4>4
      <4> QED BY <3>1, <4>1, <4>2, <4>3, <4>4
    <3> QED BY <2>4, <3>2, <3>3 DEF LeftInv
  <2>10. ShowsInv'
    <3> SUFFICES ASSUME ~past.raced PROVE ShowsInv'
      BY <1>3, <2>2, <2>3, <2>4 DEF ImagesInv, ShowsInv
    <3>1. CASE o.op = "upload"
      BY <1>2, <1>3, <2>2, <2>3, <2>4, <2>5, <3>1 DEF ImagesInv, ShowsInv, Valid
    <3>2. CASE o.op = "delete"
      <4>1. srv.row.text /\ net.save.at # "write"
        BY <1>2, <3>2 DEF ImagesInv, ShowsInv
      <4> QED BY <1>3, <2>2, <2>3, <2>4, <2>5, <4>1 DEF ImagesInv, ShowsInv, Valid
    <3> QED BY <1>2, <3>1, <3>2
  <2> QED BY <1>1, <1>3, <2>3, <2>4, <2>7, <2>8, <2>9, <2>10 DEF ImagesInv, ImagesType
<1>4. CASE /\ Spend /\ srv' = [srv EXCEPT !.store = @ \ {o.new}]
           /\ net' = [net EXCEPT !.call[d].at = "done"]
  <2> DEFINE c == [o EXCEPT !.at = "done"]
             store == srv.store \ {o.new}
  <2>1. /\ c \in ImageCall /\ c.at = "done" /\ c.op = o.op /\ c.new = o.new /\ c.old = o.old
        /\ net' = [net EXCEPT !.call[d] = c]
    BY <1>1, <1>4, ImageParts DEF ImageCall, ImagesCalls
  <2>2. store \subseteq Objects /\ srv' = [srv EXCEPT !.store = store]
    BY <1>1, <1>4, ImageParts DEF ImagesRows
  <2> HIDE DEF c
  <2>3. /\ net' \in ImagesCalls /\ net'.save = net.save /\ net'.call[d] = c
        /\ \A e \in Dialogs : e # d => net'.call[e] = net.call[e]
    BY <1>1, <2>1, ImageParts, ImageCallReplaced
  <2>4. /\ srv' \in ImagesRows /\ srv'.store = store /\ srv'.row = srv.row /\ srv'.used = srv.used
    <3> HIDE DEF store
    <3> QED BY <1>1, <2>2, ImageParts DEF ImagesRows
  <2>5. \A e \in Dialogs : (Put(e)' <=> Put(e) /\ e # d) /\ (Deleting(e)' <=> Deleting(e) /\ e # d)
    BY <1>1, <2>1, <2>3 DEF Deleting, Put
  <2>6. \A e \in Dialogs : /\ net'.call[e].new = net.call[e].new /\ net'.call[e].op = net.call[e].op
                           /\ net'.call[e].old = net.call[e].old
                           /\ net'.call[e].at \in {"done", net.call[e].at}
    BY <1>1, <2>1, <2>3
  <2>7. past' \in ImagesPast /\ past'.raced = past.raced /\ past'.crossed = past.crossed
    <3>1. past \in ImagesPast /\ past.events + 1 \in Nat
      BY <1>1, ImageParts
    <3> QED BY <1>4, <3>1 DEF Spend, ImagesPast
  <2>8. KeysInv'
    BY <2>4, <2>5, <2>6 DEF ImagesInv, KeysInv
  <2>9. StoreInv'
    <3>1. srv.row.image # 0 => srv.row.image \in store
      BY <1>2 DEF ImagesInv, StoreInv
    <3>2. ASSUME NEW e \in Dialogs, net'.call[e].at = "update", net'.call[e].op = "upload"
          PROVE  net'.call[e].new \in store
      <4>1. e # d /\ net.call[e].at = "update" /\ net.call[e].op = "upload"
        BY <2>1, <2>3, <3>2
      <4>2. net.call[e].new \in srv.store /\ net.call[e].new # o.new
        BY <1>1, <4>1 DEF ImagesInv, StoreInv, KeysInv, Put
      <4> QED BY <2>6, <4>2
    <3>3. ASSUME NEW e \in Dialogs, net'.call[e].at = "clean", net'.call[e].old # 0
          PROVE  net'.call[e].old # srv.row.image
      BY <2>1, <2>3, <3>3 DEF ImagesInv, StoreInv
    <3> QED BY <2>4, <3>1, <3>2, <3>3 DEF StoreInv
  <2>10. LeftInv'
    <3> SUFFICES ASSUME ~past.crossed PROVE LeftInv'
      BY <2>7 DEF LeftInv
    <3>1. \A e \in Dialogs \ {d} : net.call[e].at # "update"
      BY <1>1 DEF ImagesInv, LeftInv
    <3>2. \A e \in Dialogs : net'.call[e].at # "update"
      BY <2>1, <2>3, <3>1
    <3>3. ASSUME NEW k \in store
          PROVE  k = srv.row.image
                 \/ \E e \in Dialogs : net'.call[e].at = "clean" /\ k = net'.call[e].old
      <4>1. \/ k = srv.row.image
            \/ \E e \in Dialogs : \/ net.call[e].at = "update" /\ k = net.call[e].new
                                  \/ net.call[e].at = "clean" /\ k = net.call[e].old
        BY DEF ImagesInv, LeftInv
      <4>2. k # o.new
        OBVIOUS
      <4>3. CASE \E e \in Dialogs : net.call[e].at = "clean" /\ k = net.call[e].old
        BY <1>1, <2>3, <4>3
      <4> QED BY <3>1, <4>1, <4>2, <4>3
    <3> QED BY <2>4, <3>2, <3>3 DEF LeftInv
  <2>11. ShowsInv'
    BY <2>3, <2>4, <2>5, <2>7 DEF ImagesInv, ShowsInv
  <2> QED BY <1>1, <2>3, <2>4, <2>7, <2>8, <2>9, <2>10, <2>11 DEF ImagesInv, ImagesType
<1> QED BY <1>3, <1>4 DEF UpdateKey

LEMMA CleanUpKeeps ==
    ASSUME ImagesInv, NEW d \in Dialogs, CleanUp(d)
    PROVE  ImagesInv'
<1> DEFINE o == net.call[d]
           c == [o EXCEPT !.at = "done"]
           store == srv.store \ {o.old}
<1>1. ImagesType /\ UNCHANGED <<ui, past>> /\ o.at = "clean" /\ o \in ImageCall
  BY ImageParts DEF ImagesInv, CleanUp
<1>2. /\ c \in ImageCall /\ c.at = "done" /\ c.op = o.op /\ c.new = o.new /\ c.old = o.old
      /\ net' = [net EXCEPT !.call[d] = c]
  BY <1>1, ImageParts DEF CleanUp, ImageCall, ImagesCalls
<1>3. store \subseteq Objects /\ srv' = [srv EXCEPT !.store = store]
  BY <1>1, ImageParts DEF CleanUp, ImagesRows
<1> HIDE DEF c
<1>4. /\ net' \in ImagesCalls /\ net'.save = net.save /\ net'.call[d] = c
      /\ \A e \in Dialogs : e # d => net'.call[e] = net.call[e]
  BY <1>1, <1>2, ImageParts, ImageCallReplaced
<1>5. /\ srv' \in ImagesRows /\ srv'.store = store /\ srv'.row = srv.row /\ srv'.used = srv.used
  <2> HIDE DEF store
  <2> QED BY <1>1, <1>3, ImageParts DEF ImagesRows
<1>6. \A e \in Dialogs : (Put(e)' <=> Put(e)) /\ (Deleting(e)' <=> Deleting(e))
  BY <1>1, <1>2, <1>4 DEF Deleting, Put
<1>7. \A e \in Dialogs : /\ net'.call[e].new = net.call[e].new /\ net'.call[e].op = net.call[e].op
                         /\ net'.call[e].old = net.call[e].old
                         /\ net'.call[e].at \in {"done", net.call[e].at}
  BY <1>1, <1>2, <1>4
<1>8. KeysInv'
  BY <1>5, <1>6, <1>7 DEF ImagesInv, KeysInv
<1>9. StoreInv'
  <2>1. srv.row.image # 0 => srv.row.image \in store
    BY <1>1 DEF ImagesInv, StoreInv
  <2>2. ASSUME NEW e \in Dialogs, net'.call[e].at = "update", net'.call[e].op = "upload"
        PROVE  net'.call[e].new \in store
    <3>1. net.call[e].at = "update" /\ net.call[e].op = "upload"
      BY <1>7, <2>2
    <3>2. net.call[e].new \in srv.store /\ net.call[e].new # o.old
      BY <3>1 DEF ImagesInv, StoreInv, KeysInv, Put
    <3> QED BY <1>7, <3>2
  <2>3. ASSUME NEW e \in Dialogs, net'.call[e].at = "clean", net'.call[e].old # 0
        PROVE  net'.call[e].old # srv.row.image
    BY <1>7, <2>3 DEF ImagesInv, StoreInv
  <2> QED BY <1>5, <2>1, <2>2, <2>3 DEF StoreInv
<1>10. LeftInv'
  <2> SUFFICES ASSUME ~past.crossed PROVE LeftInv'
    BY <1>1 DEF LeftInv
  <2>1. \A e \in Dialogs : net'.call[e].at = "update" =>
          /\ net'.call[e].old = srv.row.image
          /\ \A f \in Dialogs \ {e} : net'.call[f].at # "update"
    BY <1>7 DEF ImagesInv, LeftInv
  <2>2. ASSUME NEW k \in store
        PROVE  \/ k = srv.row.image
               \/ \E e \in Dialogs : \/ net'.call[e].at = "update" /\ k = net'.call[e].new
                                     \/ net'.call[e].at = "clean" /\ k = net'.call[e].old
    <3>1. \/ k = srv.row.image
          \/ \E e \in Dialogs : \/ net.call[e].at = "update" /\ k = net.call[e].new
                                \/ net.call[e].at = "clean" /\ k = net.call[e].old
      BY DEF ImagesInv, LeftInv
    <3>2. k # o.old
      OBVIOUS
    <3> QED BY <1>1, <1>4, <3>1, <3>2
  <2> QED BY <1>5, <2>1, <2>2 DEF LeftInv
<1>11. ShowsInv'
  BY <1>1, <1>4, <1>5, <1>6 DEF ImagesInv, ShowsInv
<1> QED BY <1>1, <1>4, <1>5, <1>8, <1>9, <1>10, <1>11 DEF ImagesInv, ImagesType

-----------------------------------------------------------------------------
(* The theorems                                                            *)

LEMMA ImagesInitially == InitImages => ImagesInv
<1> SUFFICES ASSUME InitImages PROVE ImagesInv
  OBVIOUS
<1> DEFINE calls == [d \in Dialogs |-> NoImageCall]
<1>1. PICK kind \in {"bank", "soal"} :
        /\ ui = [screen |-> "images", kind |-> kind, open |-> FALSE, base |-> NoQuestion]
        /\ net = [save |-> NoTextSave, call |-> calls]
        /\ srv = [row |-> NoQuestion, store |-> {}, used |-> 0]
        /\ past = [events |-> 0, raced |-> FALSE, crossed |-> FALSE]
  BY DEF InitImages
<1>2. calls \in [Dialogs -> ImageCall] /\ \A d \in Dialogs : calls[d] = NoImageCall
  BY ImageMarks
<1> HIDE DEF calls
<1>3. ImagesType
  BY <1>1, <1>2, ImageMarks DEF ImagesType, ImagesScreen, ImagesCalls, ImagesRows, ImagesPast
<1>4. /\ srv.store = {} /\ srv.row = NoQuestion /\ srv.used = 0 /\ net.save = NoTextSave
      /\ \A d \in Dialogs : net.call[d] = NoImageCall
  BY <1>1, <1>2
<1> QED BY <1>3, <1>4, ImageMarks DEF ImagesInv, KeysInv, StoreInv, LeftInv, ShowsInv, Put, Deleting,
      Valid

LEMMA ImagesNext ==
    ASSUME ImagesInv, [NextImages]_browser
    PROVE  ImagesInv'
<1>1. CASE UNCHANGED browser
  BY <1>1 DEF browser, ImagesInv, ImagesType, KeysInv, StoreInv, LeftInv, ShowsInv, Put, Deleting,
     Valid
<1>2. CASE ImagesStep
  BY <1>2, QuestionKeeps, SaveTextKeeps, TextAnsweredKeeps, PickKeeps, DropKeeps, CheckTextKeeps,
     WriteTextKeeps, CheckImageKeeps, SelectKeeps, UpdateKeeps, CleanUpKeeps DEF ImagesStep
<1> QED BY <1>1, <1>2, StepsOfImages

\* Question, dialogs and objects keep to the code's types, no key is used twice, the objects
\* that are named or about to be are there and not cleaned up, all others are on their way
\* in or out unless two requests had selected the same key, and a save and a delete that
\* did not cross leave each other a question that is valid.
THEOREM ImagesInvariant == SpecImages => []ImagesInv
<1>1. InitImages => ImagesInv
  BY ImagesInitially
<1>2. ImagesInv /\ [NextImages]_browser => ImagesInv'
  BY ImagesNext
<1> QED BY <1>1, <1>2, PTL DEF SpecImages

\* Question, dialogs and objects hold what the code's types allow.
THEOREM ImagesTyped == SpecImages => []ImagesTypeOK
<1>1. ImagesInv => ImagesTypeOK
  BY DEF ImagesInv, ImagesTypeOK
<1> QED BY <1>1, ImagesInvariant, PTL

\* The image a question names is in the object store; with no request under way nothing
\* else is, unless two requests had selected the same old key; and the question has a
\* text or an image, unless a save and a delete crossed.
THEOREM ImagesKeepStep == SpecImages => []ImagesInStep
<1>1. ImagesInv => ImagesInStep
  <2> SUFFICES ASSUME ImagesInv PROVE ImagesInStep
    OBVIOUS
  <2>1. NamedImageExists /\ QuestionShowsSomething
    BY DEF ImagesInv, StoreInv, ShowsInv, NamedImageExists, QuestionShowsSomething
  <2>2. NoObjectLeft
    <3> SUFFICES ASSUME ~past.crossed, \A d \in Dialogs : ~InService(d)
                 PROVE  srv.store = {srv.row.image} \ {0}
      BY DEF NoObjectLeft
    <3>1. \A k \in srv.store : k = srv.row.image
      BY DEF ImagesInv, LeftInv, InService
    <3>2. 0 \notin srv.store
      BY ImageParts, ImageMarks DEF ImagesInv
    <3>3. srv.row.image # 0 => srv.row.image \in srv.store
      BY DEF ImagesInv, StoreInv
    <3> QED BY <3>1, <3>2, <3>3
  <2> QED BY <2>1, <2>2 DEF ImagesInStep
<1> QED BY <1>1, ImagesInvariant, PTL

(***************************************************************************)
(* Reorder                                                                 *)
(***************************************************************************)

-----------------------------------------------------------------------------
(* Induction, and the orders a list is made of                             *)

\* Induction over the numbers in a set, from the least number outside it.
LEMMA Induct ==
    ASSUME NEW S, 0 \in S, \A n \in Nat : n \in S => n + 1 \in S
    PROVE  Nat \subseteq S
<1> SUFFICES ASSUME Nat \ S # {} PROVE FALSE
  OBVIOUS
<1> DEFINE less == OpToRel(<, Nat)
<1>1. IsWellFoundedOn(less, Nat)
  BY NatLessThanWellFounded
<1>2. \A y, x \in Nat : y < x => <<y, x>> \in less
  BY DEF OpToRel
<1> HIDE DEF less
<1>3. PICK x \in Nat \ S : \A y \in Nat \ S : ~ (<<y, x>> \in less)
  <2> DEFINE T == Nat \ S
  <2>1. T \subseteq Nat /\ T # {}
    OBVIOUS
  <2> HIDE DEF T
  <2>2. \E x \in T : \A y \in T : ~ (<<y, x>> \in less)
    BY <1>1, <2>1, WFMin
  <2> QED BY <2>2 DEF T
<1>4. x - 1 \in Nat /\ x - 1 < x /\ x = (x - 1) + 1
  OBVIOUS
<1>5. x - 1 \in S
  BY <1>2, <1>3, <1>4
<1> QED BY <1>4, <1>5

\* The recursion of Without is well-founded.
KeptTo(order, out, f, k) ==
  f = [n \in 0..k |-> IF n = 0 THEN <<>>
                      ELSE IF order[n] \in out THEN f[n - 1] ELSE Append(f[n - 1], order[n])]
LEMMA KeptExists ==
    ASSUME NEW order \in Seq(Chapters), NEW out
    PROVE  \E f : KeptTo(order, out, f, Len(order))
<1> USE DEF KeptTo
<1> DEFINE Rec(f, k) == KeptTo(order, out, f, k)
           S == {k \in Nat : \E f : Rec(f, k)}
<1>1. 0 \in S
  <2> DEFINE f == [n \in 0..0 |-> <<>>]
  <2>1. Rec(f, 0)
    OBVIOUS
  <2> QED BY <2>1
<1>2. ASSUME NEW k \in Nat, k \in S
      PROVE  k + 1 \in S
  <2>1. PICK f : Rec(f, k)
    BY <1>2
  <2> DEFINE last == IF order[k + 1] \in out THEN f[k] ELSE Append(f[k], order[k + 1])
             g == [n \in 0..k + 1 |-> IF n = k + 1 THEN last ELSE f[n]]
  <2>2. ASSUME NEW n \in 0..k + 1
        PROVE  g[n] = IF n = 0 THEN <<>>
                      ELSE IF order[n] \in out THEN g[n - 1] ELSE Append(g[n - 1], order[n])
    <3>1. CASE n = k + 1
      BY <3>1
    <3>2. CASE n # k + 1
      <4>1. n \in 0..k /\ g[n] = f[n] /\ (n # 0 => n - 1 \in 0..k /\ g[n - 1] = f[n - 1])
        BY <3>2
      <4> QED BY <2>1, <4>1
    <3> QED BY <3>1, <3>2
  <2>3. Rec(g, k + 1)
    BY <2>2
  <2>4. \E h : Rec(h, k + 1)
    BY <2>3
  <2> HIDE DEF Rec
  <2> QED BY <2>4
<1> HIDE DEF S
<1>3. Len(order) \in S
  BY <1>1, <1>2, Induct
<1> QED BY <1>3 DEF S

\* What Without leaves is an order; and if nothing is missing, it is the whole.
LEMMA WithoutOrder ==
    ASSUME NEW order \in Orders, NEW out
    PROVE  /\ Without(order, out) \in Orders
           /\ Len(Without(order, out)) = Len(order) => Without(order, out) = order
<1> DEFINE F == CHOOSE f : KeptTo(order, out, f, Len(order))
<1>0. order \in Seq(Chapters) /\ Len(order) \in Nat
      /\ \A i, j \in 1..Len(order) : order[i] = order[j] => i = j
  BY DEF Orders
<1>1. Without(order, out) = F[Len(order)]
  BY DEF Without, KeptTo
<1>2. KeptTo(order, out, F, Len(order))
  BY <1>0, KeptExists
<1> HIDE DEF F
<1>3. /\ F[0] = <<>>
      /\ \A n \in 0..Len(order) : n # 0 =>
           F[n] = IF order[n] \in out THEN F[n - 1] ELSE Append(F[n - 1], order[n])
  <2>1. 0 \in 0..Len(order)
    BY <1>0
  <2> QED BY <1>2, <2>1, Zenon DEF KeptTo
<1> DEFINE Good(n) ==
             /\ F[n] \in Seq(Chapters) /\ Len(F[n]) <= n
             /\ \A i \in 1..Len(F[n]) : \E j \in 1..n : F[n][i] = order[j]
             /\ \A i, j \in 1..Len(F[n]) : F[n][i] = F[n][j] => i = j
             /\ Len(F[n]) = n => \A i \in 1..n : F[n][i] = order[i]
           S == {n \in Nat : n <= Len(order) => Good(n)}
<1>4. 0 \in S
  <2>1. F[0] \in Seq(Chapters) /\ Len(F[0]) = 0
    BY <1>3
  <2> HIDE DEF F
  <2>2. Good(0)
    BY <2>1
  <2> HIDE DEF Good
  <2> QED BY <2>2
<1>5. ASSUME NEW n \in Nat, n \in S, n + 1 <= Len(order)
      PROVE  Good(n + 1)
  <2> DEFINE k == F[n]
             e == order[n + 1]
  <2>1. Good(n) /\ n + 1 \in 0..Len(order) /\ e \in Chapters
    <3>1. n <= Len(order) /\ n + 1 \in 1..Len(order)
      BY <1>0, <1>5
    <3> HIDE DEF Good
    <3>2. Good(n)
      BY <1>5, <3>1
    <3> QED BY <1>0, <3>1, <3>2
  <2>2. F[n + 1] = IF e \in out THEN k ELSE Append(k, e)
    BY <1>3, <2>1
  <2>3. CASE e \in out
    BY <2>1, <2>2, <2>3
  <2>4. CASE e \notin out
    <3> DEFINE a == Append(k, e)
    <3>1. /\ F[n + 1] = a /\ k \in Seq(Chapters) /\ Len(k) \in Nat /\ Len(k) <= n
      BY <2>1, <2>2, <2>4
    <3>2. /\ a \in Seq(Chapters) /\ Len(a) = Len(k) + 1 /\ a[Len(k) + 1] = e
          /\ \A i \in 1..Len(k) : a[i] = k[i]
      BY <2>1, <3>1
    <3>3. \A i \in 1..Len(a) : i = Len(k) + 1 \/ i \in 1..Len(k)
      BY <3>1, <3>2
    <3> HIDE DEF a
    <3>4. \A i \in 1..Len(a) : \E j \in 1..n + 1 : a[i] = order[j]
      BY <2>1, <3>1, <3>2, <3>3
    <3>5. \A i \in 1..Len(k) : k[i] # e
      BY <1>0, <1>5, <2>1
    <3>6. ASSUME NEW i \in 1..Len(a), NEW j \in 1..Len(a), a[i] = a[j]
          PROVE  i = j
      <4>1. CASE i \in 1..Len(k) /\ j \in 1..Len(k)
        BY <2>1, <3>2, <3>6, <4>1
      <4>2. CASE i = Len(k) + 1 \/ j = Len(k) + 1
        BY <3>2, <3>3, <3>5, <3>6, <4>2
      <4> QED BY <3>3, <4>1, <4>2
    <3>7. Len(a) = n + 1 => \A i \in 1..n + 1 : a[i] = order[i]
      BY <2>1, <3>1, <3>2, <3>3
    <3> QED BY <3>1, <3>2, <3>4, <3>6, <3>7
  <2> QED BY <2>3, <2>4
<1> HIDE DEF Good
<1>6. Nat \subseteq S
  <2>1. \A n \in Nat : n \in S => n + 1 \in S
    BY <1>0, <1>5
  <2> HIDE DEF S
  <2> QED BY <1>4, <2>1, Induct
<1>7. Good(Len(order))
  BY <1>0, <1>6
<1> QED
  <2> DEFINE w == F[Len(order)]
  <2>1. w \in Orders
    BY <1>7 DEF Good, Orders
  <2>2. Len(w) = Len(order) => w = order
    BY <1>0, <1>7 DEF Good
  <2> QED BY <1>1, <2>1, <2>2

LEMMA Concatenated ==
    ASSUME NEW p \in Seq(Chapters), NEW q \in Seq(Chapters)
    PROVE  /\ p \o q \in Seq(Chapters) /\ Len(p \o q) = Len(p) + Len(q)
           /\ \A i \in 1..Len(p) : (p \o q)[i] = p[i]
           /\ \A i \in 1..Len(q) : (p \o q)[Len(p) + i] = q[i]
OBVIOUS

\* A moved chapter leaves an order of the same chapters.
LEMMA MovedOrder ==
    ASSUME NEW items \in Orders, NEW from \in 1..Len(items), NEW to \in 1..Len(items)
    PROVE  Moved(items, from, to) \in Orders /\ Len(Moved(items, from, to)) = Len(items)
<1> DEFINE n == Len(items)
           rest == RemoveAt(items, from)
           e == items[from]
           at(i) == IF i < from THEN i ELSE i + 1
           moved == InsertAt(rest, to, e)
           was(i) == IF i < to THEN at(i) ELSE IF i = to THEN from ELSE at(i - 1)
<1>1. /\ items \in Seq(Chapters) /\ n \in Nat /\ n >= 1 /\ e \in Chapters
      /\ \A i, j \in 1..n : items[i] = items[j] => i = j
  BY DEF Orders
<1>2. /\ rest \in Seq(Chapters) /\ Len(rest) = n - 1
      /\ \A i \in 1..n - 1 : rest[i] = items[at(i)]
  <2> DEFINE a == SubSeq(items, 1, from - 1)
             b == SubSeq(items, from + 1, n)
  <2>1. /\ a \in Seq(Chapters) /\ Len(a) = from - 1
        /\ \A i \in 1..from - 1 : a[i] = items[i]
    BY <1>1
  <2>2. /\ b \in Seq(Chapters) /\ Len(b) = n - from
        /\ \A i \in 1..n - from : b[i] = items[from + i]
    BY <1>1
  <2>3. rest = a \o b
    BY DEF RemoveAt
  <2> HIDE DEF a, b, rest
  <2>4. rest \in Seq(Chapters) /\ Len(rest) = n - 1
    BY <1>1, <2>1, <2>2, <2>3
  <2>5. ASSUME NEW i \in 1..n - 1
        PROVE  rest[i] = items[at(i)]
    <3>1. CASE i < from
      BY <1>1, <2>1, <2>2, <2>3, <3>1
    <3>2. CASE i >= from
      <4>1. rest[i] = b[i - (from - 1)] /\ i - (from - 1) \in 1..n - from
        BY <1>1, <2>1, <2>2, <2>3, <3>2
      <4> QED BY <1>1, <2>2, <3>2, <4>1
    <3> QED BY <1>1, <3>1, <3>2
  <2> QED BY <2>4, <2>5
<1> HIDE DEF rest
<1>3. /\ moved \in Seq(Chapters) /\ Len(moved) = n
      /\ \A i \in 1..n : moved[i] = IF i < to THEN rest[i] ELSE IF i = to THEN e ELSE rest[i - 1]
  <2> DEFINE a == SubSeq(rest, 1, to - 1)
             b == SubSeq(rest, to, n - 1)
  <2>1. /\ a \in Seq(Chapters) /\ Len(a) = to - 1 /\ \A i \in 1..to - 1 : a[i] = rest[i]
    BY <1>1, <1>2
  <2>2. /\ b \in Seq(Chapters) /\ Len(b) = n - to
        /\ \A i \in 1..n - to : b[i] = rest[to - 1 + i]
    BY <1>1, <1>2
  <2>3. moved = a \o <<e>> \o b
    BY <1>2 DEF InsertAt
  <2> DEFINE c == a \o <<e>>
  <2> HIDE DEF a, b, moved
  <2>4. /\ c \in Seq(Chapters) /\ Len(c) = to /\ c[to] = e /\ \A i \in 1..to - 1 : c[i] = rest[i]
    <3> DEFINE one == <<e>>
    <3>1. one \in Seq(Chapters) /\ Len(one) = 1 /\ one[1] = e
      BY <1>1
    <3> HIDE DEF one
    <3>2. /\ c \in Seq(Chapters) /\ Len(c) = Len(a) + Len(one)
          /\ \A i \in 1..Len(a) : c[i] = a[i]
          /\ \A i \in 1..Len(one) : c[Len(a) + i] = one[i]
      BY <2>1, <3>1, Concatenated DEF one
    <3>3. 1 \in 1..Len(one) /\ Len(a) + 1 = to
      BY <1>1, <2>1, <3>1
    <3> HIDE DEF c
    <3> QED BY <2>1, <3>1, <3>2, <3>3
  <2>5. moved = c \o b
    BY <2>3
  <2> HIDE DEF c
  <2>6. moved \in Seq(Chapters) /\ Len(moved) = n
    <3>1. moved \in Seq(Chapters) /\ Len(moved) = to + (n - to)
      BY <2>2, <2>4, <2>5, Concatenated
    <3>2. n \in Nat /\ to \in Nat
      BY <1>1
    <3> HIDE DEF n
    <3> QED BY <3>1, <3>2
  <2>7. ASSUME NEW i \in 1..n
        PROVE  moved[i] = IF i < to THEN rest[i] ELSE IF i = to THEN e ELSE rest[i - 1]
    <3>1. CASE i <= to
      <4>1. moved[i] = c[i]
        BY <1>1, <2>2, <2>4, <2>5, <3>1
      <4> QED BY <1>1, <2>4, <3>1, <4>1
    <3>2. CASE i > to
      <4>1. moved[i] = b[i - to] /\ i - to \in 1..n - to
        BY <1>1, <2>2, <2>4, <2>5, <3>2
      <4> QED BY <1>1, <2>2, <3>2, <4>1
    <3> QED BY <1>1, <3>1, <3>2
  <2> QED BY <2>6, <2>7
<1> HIDE DEF moved
<1>4. \A i \in 1..n : moved[i] = items[was(i)] /\ was(i) \in 1..n
  <2> SUFFICES ASSUME NEW i \in 1..n
               PROVE  moved[i] = items[was(i)] /\ was(i) \in 1..n
    OBVIOUS
  <2>1. CASE i < to
    BY <1>1, <1>2, <1>3, <2>1
  <2>2. CASE i = to
    BY <1>1, <1>3, <2>2
  <2>3. CASE i > to
    BY <1>1, <1>2, <1>3, <2>3
  <2> QED BY <1>1, <2>1, <2>2, <2>3
<1>5. \A i, j \in 1..n : was(i) = was(j) => i = j
  <2> SUFFICES ASSUME NEW i \in 1..n, NEW j \in 1..n, was(i) = was(j)
               PROVE  i = j
    OBVIOUS
  <2>1. n \in Nat /\ from \in 1..n /\ to \in 1..n
    BY <1>1
  <2> HIDE DEF n
  <2>2. CASE i < to
    BY <2>1, <2>2
  <2>3. CASE i = to
    BY <2>1, <2>3
  <2>4. CASE i > to
    BY <2>1, <2>4
  <2> QED BY <2>1, <2>2, <2>3, <2>4
<1> HIDE DEF was
<1>6. \A i, j \in 1..Len(moved) : moved[i] = moved[j] => i = j
  <2> SUFFICES ASSUME NEW i \in 1..n, NEW j \in 1..n, moved[i] = moved[j]
               PROVE  i = j
    BY <1>3
  <2>1. items[was(i)] = items[was(j)] /\ was(i) \in 1..n /\ was(j) \in 1..n
    BY <1>4
  <2>2. was(i) = was(j)
    BY <1>1, <2>1
  <2> QED BY <1>5, <2>2
<1>7. moved \in Orders
  BY <1>3, <1>6 DEF Orders
<1> QED BY <1>3, <1>7 DEF Moved, moved, rest

\* The order turned around.
LEMMA ReverseOrder ==
    ASSUME NEW order \in Orders
    PROVE  Reverse(order) \in Orders /\ Len(Reverse(order)) = Len(order)
<1> DEFINE n == Len(order)
           r == Reverse(order)
<1>1. /\ order \in Seq(Chapters) /\ n \in Nat
      /\ \A i, j \in 1..n : order[i] = order[j] => i = j
  BY DEF Orders
<1> DEFINE from(i) == n - i + 1
<1>2. \A i, j \in 1..n : from(i) \in 1..n /\ (from(i) = from(j) => i = j)
  BY <1>1
<1>3. r = [i \in 1..n |-> order[from(i)]]
  BY DEF Reverse
<1> HIDE DEF r, n, from
<1>4. r \in [1..n -> Chapters]
  BY <1>1, <1>2, <1>3 DEF n
<1>5. r \in Seq(Chapters) /\ Len(r) = n
  BY <1>1, <1>4
<1>6. \A i, j \in 1..n : r[i] = r[j] => i = j
  BY <1>1, <1>2, <1>3
<1> QED BY <1>5, <1>6 DEF Orders, r, n

\* The chapters in some order.
LEMMA SomeOrder ==
    /\ SetToSeq(Chapters) \in Orders /\ Len(SetToSeq(Chapters)) = Cardinality(Chapters)
    /\ Cardinality(Chapters) \in Nat
<1> DEFINE n == Cardinality(Chapters)
           s == SetToSeq(Chapters)
<1>1. n \in Nat /\ ExistsBijection(1..n, Chapters)
  BY ReorderAssumption, FS_CardinalityType
<1>2. \E f \in [1..n -> Chapters] : IsInjective(f)
  BY <1>1 DEF ExistsBijection, Bijection, Injection, IsInjective
<1>3. s \in [1..n -> Chapters] /\ IsInjective(s)
  BY <1>2 DEF SetToSeq
<1> HIDE DEF s
<1>4. s \in Seq(Chapters) /\ Len(s) = n
  BY <1>1, <1>3
<1> QED BY <1>1, <1>3, <1>4 DEF Orders, IsInjective, s

-----------------------------------------------------------------------------
(* Lists and versions                                                      *)

ChaptersCall == [at : {"idle", "sent", "ok"}, data : Lists]

LEMMA ReorderMarks ==
    /\ <<>> \in Orders /\ Fresh0 \in Versions /\ NoOrder \in Lists
    /\ NoDrag \in DragCall /\ NoDrag.at = "idle"
    /\ NoChapters \in ChaptersCall /\ NoChapters.at = "idle"
    /\ Reread \in ChaptersCall /\ Reread.at = "sent"
    /\ MaxDrag \in Nat /\ MaxEvents \in Nat
<1>1. <<>> \in Orders /\ Fresh0 \in Versions
  BY DEF Orders, Fresh0, Versions
<1> QED BY <1>1, ReorderAssumption, BrowserAssumption
        DEF NoOrder, Lists, NoDrag, DragCall, NoChapters, Reread, ChaptersCall

LEMMA ReorderParts ==
    ASSUME ReorderType
    PROVE  /\ ui.cache \in Lists /\ ui.cache.items \in Orders /\ ui.cache.ver \in Versions
           /\ ui.cache.read \in Orders /\ net.list \in ChaptersCall /\ net.list.data \in Lists
           /\ net.drag \in [Drags -> DragCall] /\ srv.order \in Orders /\ srv.ver \in Versions
           /\ srv.archived \in SUBSET Chapters
BY DEF ReorderType, ReorderScreen, Lists, ReorderCalls, ChaptersCall, ReorderRows

\* The list as served vouches for itself.
LEMMA VisibleVouches ==
    ASSUME ReorderType
    PROVE  Visible(srv) \in Lists /\ VouchList(srv, Visible(srv))
<1>1. srv.order \in Orders /\ Without(srv.order, srv.archived) \in Orders /\ srv.ver \in Versions
  BY ReorderParts, WithoutOrder
<1>2. \A b \in Chapters : srv.ver[b] <= srv.ver[b]
  BY <1>1 DEF Versions
<1> QED BY <1>1, <1>2 DEF Visible, Lists, VouchList, Vouch

\* A copy is a copy of the past once somebody has written.
LEMMA Overtaken ==
    ASSUME NEW s \in ReorderRows, NEW t \in ReorderRows,
           \A b \in Chapters : s.ver[b] <= t.ver[b],
           Chapters # {} => \E b \in Chapters : s.ver[b] < t.ver[b],
           NEW ver \in Versions, NEW order \in Orders, Vouch(s, ver, order)
    PROVE  Vouch(t, ver, order)
<1>1. \A b \in Chapters : ver[b] \in Nat /\ s.ver[b] \in Nat /\ t.ver[b] \in Nat
  BY DEF ReorderRows, Versions
<1>2. \A b \in Chapters : ver[b] <= t.ver[b]
  BY <1>1 DEF Vouch
<1>3. CASE Chapters = {}
  <2>1. \A o \in Orders : o = <<>>
    BY <1>3 DEF Orders
  <2> QED BY <1>2, <2>1 DEF Vouch, ReorderRows
<1>4. CASE Chapters # {}
  <2>1. PICK b \in Chapters : s.ver[b] < t.ver[b]
    BY <1>4
  <2>2. ver[b] # t.ver[b]
    BY <1>1, <2>1 DEF Vouch
  <2> QED BY <1>2, <2>2 DEF Vouch
<1> QED BY <1>3, <1>4

\* So every copy stays good when the stored rows move on.
LEMMA CopiesOvertaken ==
    ASSUME ReorderType, VouchInv, srv' \in ReorderRows,
           \A b \in Chapters : srv.ver[b] <= srv'.ver[b],
           Chapters # {} => \E b \in Chapters : srv.ver[b] < srv'.ver[b]
    PROVE  /\ ui.view = "rows" => VouchList(srv', ui.cache)
           /\ net.list.at = "ok" => VouchList(srv', net.list.data)
           /\ \A d \in Drags : Pending(d) => VouchDrag(srv', net.drag[d])
<1>1. srv \in ReorderRows
  BY DEF ReorderType
<1>2. ASSUME NEW list \in Lists, VouchList(srv, list)
      PROVE  VouchList(srv', list)
  BY <1>1, <1>2, Overtaken DEF VouchList, Lists
<1>3. \A d \in Drags : net.drag[d].previous \in Lists
  BY ReorderParts DEF DragCall
<1> QED BY <1>2, <1>3, ReorderParts DEF VouchInv, VouchDrag

-----------------------------------------------------------------------------
(* The steps                                                               *)

\* Reads leave the drags and the stored rows alone.
LEMMA ReadsKeep ==
    ASSUME ReorderInv, ReadChapters \/ ServeChapters \/ ChaptersArrive \/ ChaptersFail \/ ShowArchived
    PROVE  ReorderInv'
<1>1. ReorderType /\ srv' = srv /\ ~past.blind
  BY DEF ReorderInv, ReadChapters, ServeChapters, ChaptersArrive, ChaptersFail, ShowArchived
<1>2. PICK list \in ChaptersCall : net' = [net EXCEPT !.list = list]
  <2>1. [at |-> "ok", data |-> Visible(srv)] \in ChaptersCall
    BY <1>1, VisibleVouches DEF ChaptersCall
  <2> QED BY <2>1, ReorderMarks
       DEF ReadChapters, ServeChapters, ChaptersArrive, ChaptersFail, ShowArchived
<1>3. net' \in ReorderCalls /\ net'.list = list /\ net'.drag = net.drag
  BY <1>1, <1>2 DEF ReorderType, ReorderCalls, ChaptersCall
<1>4. past' \in ReorderPast /\ past'.blind = past.blind
  <2>1. past \in ReorderPast
    BY <1>1 DEF ReorderType
  <2>2. past.events < MaxEvents => past.events + 1 \in 0..MaxEvents
    BY <2>1, ReorderMarks DEF ReorderPast
  <2> QED BY <2>1, <2>2
       DEF ReadChapters, ServeChapters, ChaptersArrive, ChaptersFail, ShowArchived, ReorderPast
<1>5. ui' \in ReorderScreen
  BY <1>1, ReorderParts, ReorderMarks
     DEF ReadChapters, ServeChapters, ChaptersArrive, ChaptersFail, ShowArchived, ReorderType,
         ReorderScreen, ChaptersCall
<1>6. ReorderType'
  BY <1>1, <1>3, <1>4, <1>5 DEF ReorderType
<1>7. ~past'.blind /\ \A d \in Drags : Pending(d)' <=> Pending(d)
  BY <1>1, <1>3, <1>4 DEF Pending
<1>8. VouchInv' /\ SettleInv'
  <2>1. CASE ReadChapters
    <3>1. /\ ui' = ui /\ past' = past /\ list = Reread
      BY <1>1, <1>3, <2>1 DEF ReadChapters, ReorderType, ReorderCalls
    <3> QED BY <1>1, <1>3, <1>7, <3>1, ReorderMarks
            DEF ReorderInv, VouchInv, SettleInv, Pending
  <2>2. CASE ServeChapters
    <3>1. /\ ui' = ui /\ list.at = "ok" /\ list.data = Visible(srv)
      BY <1>3, <2>2 DEF ServeChapters
    <3>2. Visible(srv)' = Visible(srv)
      BY <1>1, <3>1 DEF Visible
    <3> QED BY <1>1, <1>3, <1>7, <3>1, <3>2, VisibleVouches
            DEF ReorderInv, VouchInv, SettleInv, Pending
  <2>3. CASE ChaptersArrive
    <3>1. /\ net.list.at = "ok" /\ past' = past /\ list.at = "idle"
          /\ ui'.view = "rows" /\ ui'.cache = net.list.data /\ ui'.all = ui.all
      BY <1>1, <1>3, <2>3, ReorderMarks DEF ChaptersArrive, ReorderType, ReorderScreen
    <3>2. Visible(srv)' = Visible(srv)
      BY <1>1, <3>1 DEF Visible
    <3> QED BY <1>1, <1>3, <1>7, <3>1, <3>2 DEF ReorderInv, VouchInv, SettleInv, Pending
  <2>4. CASE ChaptersFail
    <3>1. /\ past'.stale /\ list.at = "idle" /\ ui'.cache = ui.cache
          /\ ui'.view = "rows" => ui.view = "rows"
      BY <1>1, <1>3, <2>4, ReorderMarks
         DEF ChaptersFail, ReorderType, ReorderScreen, ReorderPast
    <3> QED BY <1>1, <1>3, <1>7, <3>1 DEF ReorderInv, VouchInv, SettleInv, Pending
  <2>5. CASE ShowArchived
    <3>1. ui'.view = "pending" /\ list.at = "sent"
      BY <1>1, <1>3, <2>5, ReorderMarks DEF ShowArchived, ReorderType, ReorderScreen
    <3> QED BY <1>1, <1>3, <1>7, <3>1 DEF ReorderInv, VouchInv, SettleInv, Pending
  <2> QED BY <2>1, <2>2, <2>3, <2>4, <2>5
<1> QED BY <1>6, <1>7, <1>8 DEF ReorderInv

\* A drag takes its versions and its order from one copy of the list.
LEMMA DragEndKeeps ==
    ASSUME ReorderInv, DragEnd
    PROVE  ReorderInv'
<1> DEFINE d == past.drags + 1
           items == ui.cache.items
<1>1. ReorderType /\ srv' = srv /\ ui.view = "rows" /\ past.drags < MaxDrag /\ ~past.blind
  BY DEF ReorderInv, DragEnd
<1>2. PICK from \in 1..Len(items), to \in 1..Len(items) :
        LET order == Moved(items, from, to) IN
        /\ net' = [list |-> NoChapters,
                   drag |-> [net.drag EXCEPT ![d] =
                     [at |-> "sent", order |-> order, ver |-> ui.cache.ver,
                      base |-> ui.cache.read, previous |-> ui.cache]]]
        /\ ui' = [ui EXCEPT !.cache.items = order]
        /\ past' = [past EXCEPT !.drags = @ + 1]
  BY DEF DragEnd
<1> DEFINE order == Moved(items, from, to)
           r == [at |-> "sent", order |-> order, ver |-> ui.cache.ver,
                 base |-> ui.cache.read, previous |-> ui.cache]
           list == [ui.cache EXCEPT !.items = order]
<1>3. order \in Orders /\ Len(order) = Len(items)
  BY <1>1, ReorderParts, MovedOrder
<1>4. d \in Drags /\ d \in 0..MaxDrag
  BY <1>1, ReorderMarks DEF ReorderType, ReorderPast, Drags
<1> HIDE DEF order
<1>5. /\ list \in Lists /\ list.items = order /\ list.ver = ui.cache.ver
      /\ list.read = ui.cache.read
      /\ r \in DragCall /\ r.at = "sent"
  BY <1>1, <1>3, ReorderParts DEF Lists, DragCall
<1>6. VouchList(srv, list) /\ VouchDrag(srv, r)
  <2>1. VouchList(srv, ui.cache)
    BY <1>1 DEF ReorderInv, VouchInv
  <2> QED BY <1>3, <1>5, <2>1 DEF VouchDrag, VouchList
<1>7. /\ ui' = [ui EXCEPT !.cache = list]
      /\ net' = [list |-> NoChapters, drag |-> [net.drag EXCEPT ![d] = r]]
      /\ past' = [past EXCEPT !.drags = d]
  BY <1>2 DEF order
<1> HIDE DEF list, r, d
<1>8. /\ ui' \in ReorderScreen /\ ui'.cache = list
      /\ past' \in ReorderPast /\ past'.blind = past.blind
  BY <1>1, <1>4, <1>5, <1>7 DEF ReorderType, ReorderScreen, ReorderPast
<1>9. /\ net' \in ReorderCalls /\ net'.list.at = "idle" /\ net'.drag[d] = r
      /\ \A c \in Drags : c # d => net'.drag[c] = net.drag[c]
  BY <1>1, <1>4, <1>5, <1>7, ReorderParts, ReorderMarks DEF ReorderCalls, ChaptersCall
<1>10. VouchInv'
  BY <1>1, <1>6, <1>8, <1>9 DEF ReorderInv, VouchInv, Pending
<1>11. SettleInv'
  BY <1>4, <1>5, <1>9 DEF SettleInv, Pending
<1> QED BY <1>1, <1>8, <1>9, <1>10, <1>11 DEF ReorderInv, ReorderType

\* Complete under the stored versions, a drag falls on the order it was made from.
LEMMA ServeDragKeeps ==
    ASSUME ReorderInv, NEW d \in Drags, ServeDrag(d)
    PROVE  ReorderInv'
<1> DEFINE r == net.drag[d]
<1>1. ReorderType /\ ui' = ui /\ r.at = "sent" /\ ~past.blind /\ VouchInv
  BY DEF ReorderInv, ServeDrag
<1>2. PICK at \in {"missing", "conflict", "ok"} : net' = [net EXCEPT !.drag[d].at = at]
  BY DEF ServeDrag
<1> DEFINE c == [r EXCEPT !.at = at]
<1>3. /\ r \in DragCall /\ c \in DragCall /\ c.at = at /\ c.order = r.order /\ c.ver = r.ver
      /\ c.base = r.base /\ c.previous = r.previous
  BY <1>1, ReorderParts DEF DragCall
<1>4. net' = [net EXCEPT !.drag = [net.drag EXCEPT ![d] = c]]
  BY <1>1, <1>2, ReorderParts DEF ReorderType, ReorderCalls
<1> HIDE DEF c
<1>5. /\ net' \in ReorderCalls /\ net'.list = net.list /\ net'.drag[d] = c
      /\ \A e \in Drags : e # d => net'.drag[e] = net.drag[e]
  BY <1>1, <1>3, <1>4, ReorderParts DEF ReorderType, ReorderCalls
<1>6. VouchDrag(srv, r) /\ r.order \in Orders
  BY <1>1, <1>3 DEF VouchInv, Pending, DragCall
<1>7. CASE srv' = srv /\ past' = past
  <2>1. VouchDrag(srv, c)
    BY <1>3, <1>6 DEF VouchDrag
  <2> QED BY <1>1, <1>2, <1>3, <1>5, <1>7, <2>1
          DEF ReorderInv, ReorderType, VouchInv, SettleInv, Pending
<1>8. ASSUME Complete(r.order), Current(r),
             srv' = [srv EXCEPT !.order = r.order, !.ver = [b \in Chapters |-> @[b] + 2]],
             past' = [past EXCEPT !.blind = @ \/ r.base # srv.order]
      PROVE  ReorderInv'
  <2>1. r.base = srv.order
    <3>1. r.base \in {srv.order, Without(srv.order, srv.archived)}
      BY <1>6, <1>8 DEF VouchDrag, VouchList, Vouch, Current
    <3>2. Len(r.base) = Len(srv.order)
      BY <1>6, <1>8 DEF VouchDrag, Complete
    <3> QED BY <1>1, <3>1, <3>2, ReorderParts, WithoutOrder
  <2>2. past' = past
    BY <1>1, <1>8, <2>1 DEF ReorderType, ReorderPast
  <2> DEFINE ver == [b \in Chapters |-> srv.ver[b] + 2]
  <2>3. /\ ver \in Versions /\ \A b \in Chapters : srv.ver[b] <= ver[b] /\ srv.ver[b] < ver[b]
    BY <1>1, ReorderParts DEF Versions
  <2>4. srv' = [srv EXCEPT !.order = r.order, !.ver = ver]
    BY <1>1, <1>8 DEF ReorderType, ReorderRows
  <2> HIDE DEF ver
  <2>5. /\ srv' \in ReorderRows /\ srv'.ver = ver /\ Len(srv'.order) = Cardinality(Chapters)
    BY <1>1, <1>6, <1>8, <2>3, <2>4 DEF ReorderType, ReorderRows, Complete
  <2>6. /\ ui.view = "rows" => VouchList(srv', ui.cache)
        /\ net.list.at = "ok" => VouchList(srv', net.list.data)
        /\ \A e \in Drags : Pending(e) => VouchDrag(srv', net.drag[e])
    BY <1>1, <2>3, <2>5, CopiesOvertaken
  <2>7. VouchDrag(srv', c)
    BY <1>1, <1>3, <2>6 DEF VouchDrag, Pending
  <2> QED BY <1>1, <1>2, <1>3, <1>5, <2>2, <2>5, <2>6, <2>7
          DEF ReorderInv, ReorderType, VouchInv, SettleInv, Pending
<1> QED BY <1>7, <1>8 DEF ServeDrag

\* Every settled drag has the list read again.
LEMMA DragSettledKeeps ==
    ASSUME ReorderInv, NEW d \in Drags, DragSaved(d) \/ DragRefused(d)
    PROVE  ReorderInv'
<1>1. /\ ReorderType /\ srv' = srv /\ ~past.blind /\ VouchInv /\ Pending(d)
      /\ net' = [list |-> Reread, drag |-> [net.drag EXCEPT ![d] = NoDrag]]
  BY DEF ReorderInv, DragSaved, DragRefused, Pending
<1>2. past' \in ReorderPast /\ past'.blind = past.blind
  <2>1. past \in ReorderPast
    BY <1>1 DEF ReorderType
  <2>2. past.events < MaxEvents => past.events + 1 \in 0..MaxEvents
    BY <2>1, ReorderMarks DEF ReorderPast
  <2> QED BY <2>1, <2>2 DEF DragSaved, DragRefused, Spend, ReorderPast
<1>3. /\ net' \in ReorderCalls /\ net'.list.at = "sent" /\ net'.drag[d].at = "idle"
      /\ \A c \in Drags : c # d => net'.drag[c] = net.drag[c]
  BY <1>1, ReorderParts, ReorderMarks DEF ReorderCalls, ChaptersCall
<1>4. /\ ui' \in ReorderScreen
      /\ ui'.view = "rows" => VouchList(srv, ui'.cache)
  <2>1. net.drag[d].previous \in Lists /\ VouchList(srv, net.drag[d].previous)
    BY <1>1, ReorderParts DEF VouchInv, VouchDrag, DragCall
  <2>2. ui' = ui \/ ui' = [ui EXCEPT !.cache = net.drag[d].previous]
    BY DEF DragSaved, DragRefused
  <2> QED BY <1>1, <2>1, <2>2 DEF ReorderType, ReorderScreen, VouchInv
<1> QED BY <1>1, <1>2, <1>3, <1>4
        DEF ReorderInv, ReorderType, VouchInv, SettleInv, Pending

\* Somebody else's write overtakes every copy.
LEMMA OthersKeep ==
    ASSUME ReorderInv, OthersReorder
    PROVE  ReorderInv'
<1>1. /\ ReorderType /\ UNCHANGED <<ui, net>> /\ ~past.blind /\ VouchInv
      /\ past.events < MaxEvents /\ past' = [past EXCEPT !.events = @ + 1, !.stale = TRUE]
  BY DEF ReorderInv, OthersReorder
<1>2. past' \in ReorderPast /\ past'.blind = past.blind /\ past'.stale
  <2>1. past \in ReorderPast /\ past.events + 1 \in 0..MaxEvents
    BY <1>1, ReorderMarks DEF ReorderType, ReorderPast
  <2> QED BY <1>1, <2>1 DEF ReorderPast
<1>3. /\ srv' \in ReorderRows /\ Len(srv'.order) = Cardinality(Chapters)
      /\ \A b \in Chapters : srv.ver[b] <= srv'.ver[b]
      /\ Chapters # {} => \E b \in Chapters : srv.ver[b] < srv'.ver[b]
  <2>1. CASE srv' = [srv EXCEPT !.order = Reverse(@), !.ver = [b \in Chapters |-> @[b] + 2]]
    <3> DEFINE ver == [b \in Chapters |-> srv.ver[b] + 2]
               order == Reverse(srv.order)
    <3>1. ver \in Versions /\ \A b \in Chapters : srv.ver[b] <= ver[b] /\ srv.ver[b] < ver[b]
      BY <1>1, ReorderParts DEF Versions
    <3>2. order \in Orders /\ Len(order) = Len(srv.order)
      BY <1>1, ReorderParts, ReverseOrder
    <3>3. srv' = [srv EXCEPT !.order = order, !.ver = ver]
      BY <1>1, <2>1 DEF ReorderType, ReorderRows
    <3> HIDE DEF ver, order
    <3> QED BY <1>1, <3>1, <3>2, <3>3 DEF ReorderType, ReorderRows
  <2>2. CASE \E b \in Chapters :
               srv' = [srv EXCEPT !.archived = @ \union {b}, !.ver[b] = @ + 1]
    <3>0. PICK b \in Chapters : srv' = [srv EXCEPT !.archived = @ \union {b}, !.ver[b] = @ + 1]
      BY <2>2
    <3> DEFINE ver == [srv.ver EXCEPT ![b] = @ + 1]
               archived == srv.archived \union {b}
    <3>1. /\ ver \in Versions /\ archived \in SUBSET Chapters /\ srv.ver[b] < ver[b]
          /\ \A c \in Chapters : srv.ver[c] <= ver[c]
      BY <1>1, ReorderParts DEF Versions
    <3>2. srv' = [srv EXCEPT !.archived = archived, !.ver = ver]
      BY <1>1, <3>0 DEF ReorderType, ReorderRows
    <3> HIDE DEF ver, archived
    <3> QED BY <1>1, <3>1, <3>2 DEF ReorderType, ReorderRows
  <2> QED BY <2>1, <2>2 DEF OthersReorder
<1> QED BY <1>1, <1>2, <1>3, CopiesOvertaken
        DEF ReorderInv, ReorderType, VouchInv, SettleInv, Pending

-----------------------------------------------------------------------------

LEMMA ReorderInitially == InitReorder => ReorderInv
<1> SUFFICES ASSUME InitReorder PROVE ReorderInv
  OBVIOUS
<1>1. PICK archived \in SUBSET Chapters :
        /\ ui = [screen |-> "reorder", all |-> FALSE, view |-> "pending", cache |-> NoOrder]
        /\ net = [list |-> NoChapters, drag |-> [d \in Drags |-> NoDrag]]
        /\ srv = [order |-> SetToSeq(Chapters), ver |-> Fresh0, archived |-> archived]
        /\ past = [events |-> 0, drags |-> 0, stale |-> FALSE, blind |-> FALSE]
  BY DEF InitReorder
<1>2. ui \in ReorderScreen /\ srv \in ReorderRows /\ past \in ReorderPast
  BY <1>1, ReorderMarks, SomeOrder DEF ReorderScreen, ReorderRows, ReorderPast
<1>3. net \in ReorderCalls
  BY <1>1, ReorderMarks DEF ReorderCalls, ChaptersCall
<1> QED BY <1>1, <1>2, <1>3, ReorderMarks, SomeOrder
        DEF ReorderInv, ReorderType, VouchInv, SettleInv, Pending

LEMMA ReorderNext ==
    ASSUME ReorderInv, [NextReorder]_browser
    PROVE  ReorderInv'
<1>1. CASE UNCHANGED browser
  BY <1>1 DEF browser, ReorderInv, ReorderType, VouchInv, SettleInv, Pending, Visible
<1>2. CASE NextReorder
  BY <1>2, ReadsKeep, DragEndKeeps, ServeDragKeeps, DragSettledKeeps, OthersKeep DEF NextReorder
<1> QED BY <1>1, <1>2

\* List, reads, drags and rows keep to the code's types, every copy of the list vouches for
\* the order it was read with, and with the drags settled the list is the stored one or read.
THEOREM ReorderInvariant == SpecReorder => []ReorderInv
<1>1. InitReorder => ReorderInv
  BY ReorderInitially
<1>2. ReorderInv /\ [NextReorder]_browser => ReorderInv'
  BY ReorderNext
<1> QED BY <1>1, <1>2, PTL DEF SpecReorder

\* Every order lists chapters at most once, and the stored one lists them all.
THEOREM ReorderTyped == SpecReorder => []ReorderTypeOK
<1>1. ReorderInv => ReorderTypeOK
  BY DEF ReorderInv, ReorderTypeOK
<1> QED BY <1>1, ReorderInvariant, PTL

\* No drag is stored over an order it was not made from, and once the drags and the read
\* they asked for are answered the list shows the stored order.
THEOREM DragsAreSettled == SpecReorder => []DragsSettle
<1>1. ReorderInv => DragsSettle
  BY DEF ReorderInv, DragsSettle, NoBlindDrag, OrderSettles, SettleInv
<1> QED BY <1>1, ReorderInvariant, PTL
=============================================================================
