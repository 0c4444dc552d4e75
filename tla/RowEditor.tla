----------------------------- MODULE RowEditor -----------------------------
(***************************************************************************)
(* A teacher's list of rows with its edit dialog, status switch and        *)
(* delete, while other teachers and admins work on the same rows: the      *)
(* materials, announcements, assignments, chapters, exams and questions of *)
(* a class, and the forms that edit one row in place (the settings of a    *)
(* chapter and of its test).  Every save carries the version its form was  *)
(* made from; the screens differ in what the form follows, what it sends   *)
(* and what it invalidates.  One row stands for the list.                  *)
(***************************************************************************)
EXTENDS Browser

CONSTANT MaxVersion  \* bound: versions of the row at which a write still starts

ASSUME RowAssumption == MaxVersion \in Nat \ {0}

\* The form is made from the row once, when it opens, or follows the cached row.
Snapshots == {"materi", "pengumuman", "tugas", "bab", "ujian", "bank", "soal"}
Followers == {"pengaturan", "setting"}
RowKinds == Snapshots \union Followers
\* Save is offered for a changed form only.
NeedChange == {"materi", "pengumuman", "tugas", "pengaturan", "setting"}
\* A PATCH that changes nothing answers the row without looking at the version.
NoOpAccepted == RowKinds \ {"setting"}
\* The delete carries the version of the listed row.
VersionedDelete == {"bank", "ujian"}
\* Another status by the menu of the row, archived by a dialog of its own.
Switched == {"tugas", "pengumuman"}
Deletable == {"materi", "tugas", "pengumuman", "soal", "bank", "ujian"}

\* What the fields hold.
Content == {0, 1}
NoContent == 0
NoRow == [there |-> FALSE, version |-> 0, c |-> NoContent, live |-> FALSE]
Stored == [there : BOOLEAN, version : Nat, c : Content, live : BOOLEAN]
NoSave == [at |-> "idle", version |-> 0, c |-> NoContent, base |-> NoContent,
           files |-> FALSE, row |-> NoRow]
NoCall == [at |-> "idle", version |-> 0, base |-> NoContent]
NoList == [at |-> "idle", row |-> NoRow]

InitRows ==
  \E kind \in RowKinds :
    /\ ui = [screen |-> "rows", kind |-> kind, view |-> "pending", row |-> NoRow,
             form |-> FALSE, base |-> NoRow, draft |-> NoContent, files |-> FALSE,
             ask |-> FALSE]
    /\ net = [list |-> NoList, save |-> NoSave, switch |-> NoCall, del |-> NoCall]
    /\ srv = [NoRow EXCEPT !.there = TRUE, !.version = 1, !.live = TRUE]
    /\ past = [events |-> 0, stale |-> FALSE, clean |-> FALSE, sent |-> FALSE, blind |-> FALSE]

InRows(kind) == ui.screen = "rows" /\ ui.kind = kind
Listed(kind) == InRows(kind) /\ ui.view = "rows" /\ ui.row.there
FormShown(kind) == InRows(kind) /\ ui.view = "rows" /\ ui.form /\ ~ui.ask
NothingUnderway == \A c \in {net.list, net.save, net.switch, net.del} : c.at = "idle"
\* invalidateQueries: an answer on its way is dropped, the list is read again.
Invalidated == [at |-> "sent", row |-> NoRow]
Changed == ui.draft # ui.base.c \/ ui.files

-----------------------------------------------------------------------------
(* The list and its cached row. *)

\* The first read, "Muat ulang" and the retry of the error card, none of them
\* while a read is under way.
ReadRows(kind) ==
  /\ InRows(kind) /\ net.list.at = "idle"
  /\ net' = [net EXCEPT !.list = Invalidated]
  /\ UNCHANGED <<ui, srv, past>>

ServeRows ==
  /\ ui.screen = "rows" /\ net.list.at = "sent"
  /\ net' = [net EXCEPT !.list = [at |-> "ok", row |-> srv]]
  /\ past' = [past EXCEPT !.stale = FALSE]
  /\ UNCHANGED <<ui, srv>>

\* Mutant: the form is made once, the version it sends goes on following the row.
MadeOnce(row) == ui.view # "rows"

\* A form that follows the row is made anew when what it shows has changed; the
\* setting's also when only the version has.
MadeAnew(row) ==
  \/ ui.view # "rows"
  \/ row.c # ui.row.c \/ row.live # ui.row.live
  \/ ui.kind = "setting" /\ row # ui.row
Follow(row) ==
  IF ui.kind \in Followers /\ row.there /\ MadeAnew(row)
  THEN [ui EXCEPT !.row = row, !.view = "rows", !.form = TRUE, !.base = row,
                  !.draft = row.c]
  ELSE [ui EXCEPT !.row = row, !.view = "rows", !.form = @ /\ (row.there \/ ui.kind \in Snapshots)]

RowsArrive(kind) ==
  /\ InRows(kind) /\ net.list.at = "ok"
  /\ ui' = Follow(net.list.row)
  /\ net' = [net EXCEPT !.list = NoList]
  /\ UNCHANGED <<srv, past>>

\* The retries of the query are spent: the error card, or the rows it had.
RowsFail(kind) ==
  /\ InRows(kind) /\ net.list.at \in {"sent", "ok"} /\ past.events < MaxEvents
  /\ ui' = IF ui.view = "rows" THEN ui ELSE [ui EXCEPT !.view = "error"]
  /\ net' = [net EXCEPT !.list = NoList]
  /\ past' = [past EXCEPT !.events = @ + 1, !.stale = TRUE, !.clean = FALSE, !.sent = FALSE]
  /\ UNCHANGED srv

-----------------------------------------------------------------------------
(* The form. *)

OpenForm(kind) ==
  /\ Listed(kind) /\ kind \in Snapshots /\ ~ui.form /\ ~ui.ask
  /\ kind = "bab" => ui.row.live
  /\ ui' = [ui EXCEPT !.form = TRUE, !.base = ui.row, !.draft = ui.row.c, !.files = FALSE]
  /\ past' = [past EXCEPT !.clean = NothingUnderway /\ ~past.stale]
  /\ UNCHANGED <<net, srv>>

\* The fields get another value; they are disabled while a save runs.
TypeForm(kind) ==
  /\ FormShown(kind) /\ net.save.at = "idle"
  /\ kind = "pengaturan" => ui.row.live
  /\ ui' = [ui EXCEPT !.draft = 1 - @]
  /\ UNCHANGED <<net, srv, past>>

\* The announcement's dialog collects files for the save.
PickFiles ==
  /\ FormShown("pengumuman") /\ net.save.at = "idle" /\ ~ui.files
  /\ ui' = [ui EXCEPT !.files = TRUE]
  /\ UNCHANGED <<net, srv, past>>

\* Escape and a click beside the dialog close it during a save as well.
CloseForm(kind) ==
  /\ FormShown(kind) /\ kind \in Snapshots
  /\ ui' = [ui EXCEPT !.form = FALSE, !.files = FALSE]
  /\ UNCHANGED <<net, srv, past>>

\* The version is the one of the form's row, which for a form that follows the
\* cached row is the cached row of this moment.
SaveForm(kind) ==
  /\ FormShown(kind) /\ net.save.at = "idle" /\ srv.version < MaxVersion
  /\ kind \in NeedChange => Changed
  /\ kind = "pengaturan" => ui.row.live
  /\ LET row == IF kind \in Snapshots THEN ui.base ELSE ui.row IN
     net' = [net EXCEPT !.save = [NoSave EXCEPT
       !.at = "sent", !.version = row.version, !.c = ui.draft, !.base = ui.base.c,
       !.files = ui.files]]
  /\ past' = [past EXCEPT !.sent = IF kind \in Snapshots THEN past.clean
                                   ELSE NothingUnderway /\ ~past.stale]
  /\ UNCHANGED <<ui, srv>>

\* Update: the row under its version guard.
Untouched(c) == ui.kind \in NoOpAccepted /\ c = srv.c
ServeSave ==
  LET s == net.save
      done == [s EXCEPT !.at = IF s.files THEN "files" ELSE "ok",
                        !.row = IF ui.kind \in Followers THEN srv' ELSE NoRow] IN
  /\ ui.screen = "rows" /\ s.at = "sent"
  /\ \/ ~srv.there /\ net' = [net EXCEPT !.save.at = "gone"] /\ UNCHANGED <<srv, past>>
     \/ /\ srv.there /\ Untouched(s.c)
        /\ UNCHANGED <<srv, past>>
        /\ net' = [net EXCEPT !.save = done]
     \/ /\ srv.there /\ ~Untouched(s.c) /\ s.version # srv.version
        /\ net' = [net EXCEPT !.save.at = "conflict"]
        /\ UNCHANGED <<srv, past>>
     \/ /\ srv.there /\ ~Untouched(s.c) /\ s.version = srv.version
        /\ srv' = [srv EXCEPT !.version = @ + 1, !.c = s.c]
        /\ past' = [past EXCEPT !.blind = @ \/ s.base # srv.c]
        /\ net' = [net EXCEPT !.save = done]
  /\ UNCHANGED ui

\* The announcement's new files follow the row in the same mutation.
ServeFiles ==
  /\ ui.screen = "rows" /\ net.save.at = "files"
  /\ net' = [net EXCEPT !.save.at = "ok"]
  /\ UNCHANGED <<ui, srv, past>>

\* onSuccess invalidates and closes the dialog, whichever dialog is open by now;
\* onError invalidates after a conflict and leaves the dialog as it is.
SaveAnswered(kind) ==
  /\ InRows(kind)
  /\ \/ /\ net.save.at = "ok"
        /\ ui' = IF kind \in Followers THEN Follow(net.save.row)
                 ELSE [ui EXCEPT !.form = FALSE, !.files = FALSE]
        /\ net' = [net EXCEPT !.save = NoSave, !.list = Invalidated]
     \/ /\ net.save.at = "conflict" /\ UNCHANGED ui
        /\ net' = [net EXCEPT !.save = NoSave, !.list = Invalidated]
     \/ /\ net.save.at = "gone" /\ UNCHANGED ui
        /\ net' = [net EXCEPT !.save = NoSave]
  /\ UNCHANGED <<srv, past>>

\* The setting's answer goes into the cache and nothing is read again: a read that
\* was served before the save, or a save before somebody else's, brings an older one back.
SettingAnswered ==
  /\ InRows("setting")
  /\ \/ /\ net.save.at = "ok"
        /\ ui' = Follow(net.save.row)
        /\ net' = [net EXCEPT !.save = NoSave]
        /\ past' = [past EXCEPT !.stale = @ \/ net.list.at = "ok" \/ net.save.row # srv]
     \/ /\ net.save.at = "conflict" /\ UNCHANGED <<ui, past>>
        /\ net' = [net EXCEPT !.save = NoSave, !.list = Invalidated]
     \/ /\ net.save.at = "gone" /\ UNCHANGED <<ui, past>>
        /\ net' = [net EXCEPT !.save = NoSave]
  /\ UNCHANGED srv

\* The request or its answer is lost, a retry is the teacher's: the same version.
LoseSave ==
  /\ ui.screen = "rows" /\ net.save.at \in {"sent", "ok", "conflict", "gone", "files"}
  /\ past.events < MaxEvents
  /\ net' = [net EXCEPT !.save = NoSave]
  /\ past' = [past EXCEPT !.events = @ + 1, !.stale = TRUE, !.clean = FALSE, !.sent = FALSE]
  /\ UNCHANGED <<ui, srv>>

-----------------------------------------------------------------------------
(* The status switch and the delete. *)

SwitchStatus(kind) ==
  /\ Listed(kind) /\ kind \in Switched /\ ~ui.form /\ ~ui.ask
  /\ net.switch.at = "idle" /\ srv.version < MaxVersion
  /\ net' = [net EXCEPT !.switch = [at |-> "sent", version |-> ui.row.version,
                                    base |-> ui.row.c]]
  /\ past' = [past EXCEPT !.sent = FALSE]
  /\ UNCHANGED <<ui, srv>>

ServeSwitch ==
  /\ ui.screen = "rows" /\ net.switch.at = "sent"
  /\ \/ /\ srv.there /\ net.switch.version = srv.version
        /\ srv' = [srv EXCEPT !.version = @ + 1, !.live = ~@]
        /\ net' = [net EXCEPT !.switch.at = "ok"]
     \/ /\ ~srv.there \/ net.switch.version # srv.version
        /\ net' = [net EXCEPT !.switch.at = IF srv.there THEN "conflict" ELSE "gone"]
        /\ UNCHANGED srv
  /\ UNCHANGED <<ui, past>>

\* Mutant: a switched row is not read again.
SwitchAnsweredQuiet(kind) ==
  /\ InRows(kind) /\ net.switch.at \in {"ok", "conflict", "gone"}
  /\ net' = [net EXCEPT !.switch = NoCall]
  /\ UNCHANGED <<ui, srv, past>>

SwitchAnswered(kind) ==
  /\ InRows(kind) /\ net.switch.at \in {"ok", "conflict", "gone"}
  /\ net' = [net EXCEPT !.switch = NoCall,
                        !.list = IF net.switch.at = "gone" THEN @ ELSE Invalidated]
  /\ UNCHANGED <<ui, srv, past>>

\* The confirmation, which cannot be left while its delete runs.
AskDelete(kind) ==
  /\ Listed(kind) /\ ~ui.ask
  /\ kind \in Deletable /\ ~ui.form
  /\ net.del.at = "idle"
  /\ ui' = [ui EXCEPT !.ask = TRUE, !.base = ui.row]
  /\ UNCHANGED <<net, srv, past>>

LeaveDelete(kind) ==
  /\ InRows(kind) /\ ui.ask /\ (kind \in Deletable => net.del.at = "idle")
  /\ ui' = [ui EXCEPT !.ask = FALSE]
  /\ UNCHANGED <<net, srv, past>>

ConfirmDelete(kind) ==
  /\ InRows(kind) /\ ui.ask /\ net.del.at = "idle"
  /\ net' = [net EXCEPT !.del = [at |-> "sent", version |-> ui.base.version,
                                 base |-> ui.base.c]]
  /\ past' = [past EXCEPT !.sent = FALSE]
  /\ UNCHANGED <<ui, srv>>

ServeDelete ==
  /\ ui.screen = "rows" /\ ui.kind \in Deletable /\ net.del.at = "sent"
  /\ \/ ~srv.there /\ net' = [net EXCEPT !.del.at = "no"] /\ UNCHANGED <<srv, past>>
     \/ /\ srv.there /\ ui.kind \in VersionedDelete /\ net.del.version # srv.version
        /\ net' = [net EXCEPT !.del.at = "no"]
        /\ UNCHANGED <<srv, past>>
     \/ /\ srv.there /\ (ui.kind \in VersionedDelete => net.del.version = srv.version)
        /\ srv' = NoRow
        /\ past' = [past EXCEPT !.blind = @ \/ (ui.kind \in VersionedDelete
                                                /\ net.del.base # srv.c)]
        /\ net' = [net EXCEPT !.del.at = "ok"]
  /\ UNCHANGED ui

\* A refusal leaves the confirmation open and the list as it is.
DeleteAnswered(kind) ==
  /\ InRows(kind)
  /\ \/ /\ net.del.at = "ok"
        /\ ui' = [ui EXCEPT !.ask = FALSE]
        /\ net' = [net EXCEPT !.del = NoCall, !.list = Invalidated]
     \/ /\ net.del.at = "no" /\ UNCHANGED ui
        /\ net' = [net EXCEPT !.del = NoCall]
  /\ UNCHANGED <<srv, past>>

\* The chapter is archived by its id alone; a chapter that is archived already
\* closes the dialog and reads the list again too.
AskArchive(kind) ==
  /\ Listed(kind) /\ kind \in {"bab", "pengaturan"} /\ ~ui.ask
  /\ kind = "bab" => ~ui.form
  /\ ui.row.live /\ net.del.at = "idle"
  /\ ui' = [ui EXCEPT !.ask = TRUE]
  /\ UNCHANGED <<net, srv, past>>

ServeArchive ==
  /\ ui.screen = "rows" /\ ui.kind \in {"bab", "pengaturan"} /\ net.del.at = "sent"
  /\ srv' = IF srv.there /\ srv.live THEN [srv EXCEPT !.version = @ + 1, !.live = FALSE]
            ELSE srv
  /\ net' = [net EXCEPT !.del.at = IF srv.there THEN "ok" ELSE "no"]
  /\ UNCHANGED <<ui, past>>

\* Another teacher or admin of the class edits or deletes the row.
OtherWrites ==
  /\ ui.screen = "rows" /\ srv.there /\ past.events < MaxEvents
  /\ \/ /\ srv.version < MaxVersion
        /\ srv' = [srv EXCEPT !.version = @ + 1, !.c = 1 - @]
     \/ srv' = NoRow
  /\ past' = [past EXCEPT !.events = @ + 1, !.stale = TRUE, !.clean = FALSE, !.sent = FALSE]
  /\ UNCHANGED <<ui, net>>

-----------------------------------------------------------------------------
(* The screens: what each is made of, in the order of its file. *)

MateriQuery == RowsArrive("materi") \/ RowsFail("materi")
MateriRows == ReadRows("materi") \/ AskDelete("materi")
MateriDelete == DeleteAnswered("materi")
MateriDeleteDialog == ConfirmDelete("materi") \/ LeaveDelete("materi")
MateriForm == OpenForm("materi")
MateriSubmit == SaveForm("materi")
MateriMutation == SaveAnswered("materi")
MateriFields == TypeForm("materi") \/ CloseForm("materi")

PengumumanQuery == RowsArrive("pengumuman") \/ RowsFail("pengumuman")
PengumumanRows == ReadRows("pengumuman") \/ AskDelete("pengumuman")
PengumumanDelete == DeleteAnswered("pengumuman")
PengumumanDeleteDialog == ConfirmDelete("pengumuman") \/ LeaveDelete("pengumuman")
PengumumanMenu == SwitchStatus("pengumuman")
PengumumanSwitch == SwitchAnswered("pengumuman")
PengumumanForm == OpenForm("pengumuman")
PengumumanSubmit == SaveForm("pengumuman")
PengumumanMutation == SaveAnswered("pengumuman")
PengumumanFields == TypeForm("pengumuman") \/ CloseForm("pengumuman")
PengumumanFiles == PickFiles

TugasQuery == RowsArrive("tugas") \/ RowsFail("tugas")
TugasRows == ReadRows("tugas") \/ AskDelete("tugas")
TugasDelete == DeleteAnswered("tugas")
TugasDeleteDialog == ConfirmDelete("tugas") \/ LeaveDelete("tugas")
TugasMenu == SwitchStatus("tugas")
TugasSwitch == SwitchAnswered("tugas")
TugasForm == OpenForm("tugas")
TugasSubmit == SaveForm("tugas")
TugasMutation == SaveAnswered("tugas")
TugasFields == TypeForm("tugas") \/ CloseForm("tugas")

BabQuery == RowsArrive("bab") \/ RowsFail("bab")
BabRows == ReadRows("bab")
BabMenu == AskArchive("bab")
BabForm == OpenForm("bab")
BabSubmit == SaveForm("bab")
BabMutation == SaveAnswered("bab")
BabFields == TypeForm("bab") \/ CloseForm("bab")

UjianQuery == RowsArrive("ujian") \/ RowsFail("ujian")
UjianRows == ReadRows("ujian") \/ AskDelete("ujian") \/ ConfirmDelete("ujian") \/ LeaveDelete("ujian")
UjianDelete == DeleteAnswered("ujian")
UjianForm == OpenForm("ujian")
UjianSubmit == SaveForm("ujian")
UjianMutation == SaveAnswered("ujian")
UjianFields == TypeForm("ujian") \/ CloseForm("ujian")

BankQuery == RowsArrive("bank") \/ RowsFail("bank")
BankRows == ReadRows("bank") \/ AskDelete("bank") \/ ConfirmDelete("bank") \/ LeaveDelete("bank")
BankDelete == DeleteAnswered("bank")
BankForm == OpenForm("bank")
BankSubmit == SaveForm("bank")
BankMutation == SaveAnswered("bank")
BankFields == TypeForm("bank") \/ CloseForm("bank")

SoalQuery == RowsArrive("soal") \/ RowsFail("soal")
SoalRows == ReadRows("soal") \/ AskDelete("soal") \/ ConfirmDelete("soal") \/ LeaveDelete("soal")
SoalDelete == DeleteAnswered("soal")
SoalForm == OpenForm("soal")
SoalSubmit == SaveForm("soal")
SoalMutation == SaveAnswered("soal")
SoalFields == TypeForm("soal") \/ CloseForm("soal")

ArchiveDialog(kind) == ConfirmDelete(kind) \/ LeaveDelete(kind)
ArchiveMutation(kind) == DeleteAnswered(kind)

PengaturanTab == SaveForm("pengaturan") \/ SaveAnswered("pengaturan")
PengaturanFields == TypeForm("pengaturan")
BabPage == RowsArrive("pengaturan") \/ RowsFail("pengaturan")
BabPageView == ReadRows("pengaturan") \/ AskArchive("pengaturan")

SettingQuery == RowsArrive("setting") \/ RowsFail("setting")
SettingError == ReadRows("setting")
SettingFields == TypeForm("setting")
SettingSubmit == SaveForm("setting")

NextRows ==
  \/ MateriQuery \/ MateriRows \/ MateriDelete \/ MateriDeleteDialog
    \/ MateriForm \/ MateriSubmit \/ MateriMutation \/ MateriFields
  \/ PengumumanQuery \/ PengumumanRows \/ PengumumanDelete \/ PengumumanDeleteDialog \/ PengumumanMenu \/ PengumumanSwitch
    \/ PengumumanForm \/ PengumumanSubmit \/ PengumumanMutation \/ PengumumanFields \/ PengumumanFiles
  \/ TugasQuery \/ TugasRows \/ TugasDelete \/ TugasDeleteDialog \/ TugasMenu \/ TugasSwitch
    \/ TugasForm \/ TugasSubmit \/ TugasMutation \/ TugasFields
  \/ BabQuery \/ BabRows \/ BabMenu
    \/ BabForm \/ BabSubmit \/ BabMutation \/ BabFields
  \/ UjianQuery \/ UjianRows \/ UjianDelete
    \/ UjianForm \/ UjianSubmit \/ UjianMutation \/ UjianFields
  \/ BankQuery \/ BankRows \/ BankDelete
    \/ BankForm \/ BankSubmit \/ BankMutation \/ BankFields
  \/ SoalQuery \/ SoalRows \/ SoalDelete
    \/ SoalForm \/ SoalSubmit \/ SoalMutation \/ SoalFields
  \/ ArchiveDialog("bab") \/ ArchiveDialog("pengaturan")
  \/ ArchiveMutation("bab") \/ ArchiveMutation("pengaturan")
  \/ PengaturanTab \/ PengaturanFields \/ BabPage \/ BabPageView
  \/ SettingQuery \/ SettingError \/ SettingFields \/ SettingSubmit \/ SettingAnswered
  \/ ServeRows \/ ServeSave \/ ServeFiles \/ LoseSave
  \/ ServeSwitch \/ ServeDelete \/ ServeArchive \/ OtherWrites
SpecRows == InitRows /\ [][NextRows]_browser

-----------------------------------------------------------------------------
(* Properties. *)

\* Form, list, calls and row hold what the code's types allow.
ListCall == [at : {"idle", "sent", "ok"}, row : Stored]
SaveCall == [at : {"idle", "sent", "files", "ok", "conflict", "gone"}, version : Nat,
             c : Content, base : Content, files : BOOLEAN, row : Stored]
SwitchCall == [at : {"idle", "sent", "ok", "conflict", "gone"}, version : Nat, base : Content]
DeleteCall == [at : {"idle", "sent", "ok", "no"}, version : Nat, base : Content]
RowsScreen ==
  [screen : {"rows"}, kind : RowKinds, view : {"pending", "rows", "error"}, row : Stored,
   form : BOOLEAN, base : Stored, draft : Content, files : BOOLEAN, ask : BOOLEAN]
RowsCalls == [list : ListCall, save : SaveCall, switch : SwitchCall, del : DeleteCall]
RowsPast == [events : Nat, stale : BOOLEAN, clean : BOOLEAN, sent : BOOLEAN, blind : BOOLEAN]
RowsType == ui \in RowsScreen /\ net \in RowsCalls /\ srv \in Stored /\ past \in RowsPast
RowsTypeOK == ui.screen = "rows" => RowsType

\* No accepted save, and no delete that carries a version, falls on content other
\* than the content its form or its list row showed: whether the form was made
\* once or follows the cached row, whatever was read again meanwhile.
NoBlindWrite == ui.screen = "rows" => ~past.blind

\* With every answer in and nobody else's write since the last read, the list is
\* the stored row: no success of a save, switch, archive or delete leaves it
\* behind, nor does a read that was overtaken by one.
ListCatchesUp ==
  ui.screen = "rows" /\ ui.view = "rows" /\ NothingUnderway /\ ~past.stale => ui.row = srv

\* "Sudah berubah": a save is refused for its version only if somebody else wrote,
\* a message was lost, or its form was made while a call of the teacher's own was
\* under way.
ConflictIsOthers == ui.screen = "rows" /\ net.save.at = "conflict" => ~past.sent

\* The version tells a save on content that was seen from one on content that was
\* not: no blind save goes through, and a save that is not blind is not refused for
\* what the teacher's own calls did (the edit dialogs).
NoBlindSave == NoBlindWrite /\ ConflictIsOthers

-----------------------------------------------------------------------------
(* The inductive invariant of the proofs.                                  *)

\* A copy of the row lags behind the stored one: while the row is there its version
\* is not ahead, and a copy of the stored version has the stored content.
Lags(version, c) ==
  srv.there => version <= srv.version /\ (version = srv.version => c = srv.c)

\* Every copy lags: the cached row, the form's, those of answers on their way, and
\* the pair of version and content a save or a delete is made from.
CopyInv ==
  /\ srv.there => srv.version # 0
  /\ \A row \in {ui.row, ui.base, net.list.row, net.save.row} : Lags(row.version, row.c)
  /\ \A call \in {net.save, net.del} : call.at = "sent" => Lags(call.version, call.base)

\* A form that follows the cached row shows its content, also while it sends the
\* version of a row it was not made from.
FormInv == ui.kind \in Followers /\ ui.form => ui.base.c = ui.row.c

\* With nobody else's write since the last read, the list is the stored row, or
\* about to become it, or one of the teacher's own calls has been served whose
\* answer reads again.
OwnAnswer ==
  net.save.at \in {"files", "ok"} \/ net.switch.at = "ok" \/ net.del.at = "ok"
CatchInv ==
  ~past.stale =>
    \/ net.list.at = "sent"
    \/ net.list.at = "ok" /\ net.list.row = srv
    \/ net.list.at = "idle" /\ (ui.view = "rows" => ui.row = srv)
    \/ OwnAnswer

\* A form opened on a list that was up to date stays up to date until its own save
\* is served: it keeps switch and delete shut.
OwnIdle == net.switch.at = "idle" /\ net.del.at = "idle"
CleanInv ==
  past.clean /\ ui.form /\ ui.kind \in Snapshots =>
    /\ ~ui.ask /\ OwnIdle
    /\ net.save.at \in {"files", "ok"} \/ ui.base = srv

\* So a save from such a form has the stored version until it is served.
SentInv ==
  past.sent =>
    /\ net.save.at # "conflict"
    /\ net.save.at = "sent" => net.save.version = srv.version /\ OwnIdle

RowsInv ==
  /\ RowsType /\ CopyInv /\ FormInv /\ CatchInv /\ CleanInv /\ SentInv
  /\ ~past.blind
=============================================================================
