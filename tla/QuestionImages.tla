--------------------------- MODULE QuestionImages ---------------------------
(***************************************************************************)
(* The edit dialog of a question with its image cards, for the bank of a   *)
(* teacher and for a chapter (BankSoalEditDialog, SoalBabEditDialog).  An  *)
(* image is changed at once by requests of its own, beside the save of the *)
(* text, and does not count as a version: the dialog decides on the row it *)
(* was opened with, the service checks, uploads, swaps the key and cleans  *)
(* up in separate steps.  One slot, the question's, stands for the six.    *)
(***************************************************************************)
EXTENDS Browser

CONSTANT MaxObject  \* bound: images uploaded

ASSUME ImagesAssumption == MaxObject \in Nat \ {0}

Objects == 1..MaxObject      \* the keys in the object store, 0 is no key
Keys == 0..MaxObject
\* The dialog and a second one, of an admin or another tab, on the same slot.
Dialogs == {"own", "other"}
NoImageCall == [at |-> "idle", op |-> "upload", new |-> 0, old |-> 0]
Question == [version : 1..3, text : BOOLEAN, image : Keys]
NoQuestion == [version |-> 1, text |-> TRUE, image |-> 0]
NoTextSave == [at |-> "idle", version |-> 1, text |-> TRUE]

InitImages ==
  \E kind \in {"bank", "soal"} :
    /\ ui = [screen |-> "images", kind |-> kind, open |-> FALSE, base |-> NoQuestion]
    /\ net = [save |-> NoTextSave, call |-> [d \in Dialogs |-> NoImageCall]]
    /\ srv = [row |-> NoQuestion, store |-> {}, used |-> 0]
    /\ past = [events |-> 0, raced |-> FALSE, crossed |-> FALSE]

InImages(kind) == ui.screen = "images" /\ ui.kind = kind
Card(kind, d) == InImages(kind) /\ (d = "own" => ui.open /\ net.save.at = "idle")
Valid(text, image) == text \/ image # 0
InService(d) == net.call[d].at \notin {"idle", "done"}

-----------------------------------------------------------------------------
(* The dialog. *)

\* The dialog opens on a row the list has read.
OpenQuestion(kind) ==
  /\ InImages(kind) /\ ~ui.open
  /\ ui' = [ui EXCEPT !.open = TRUE, !.base = srv.row]
  /\ UNCHANGED <<net, srv, past>>

\* The text is cleared or written.  validate: a text, or the image of the row the
\* dialog was opened with.  The button waits for a save, not for the image cards.
SaveText(kind) ==
  /\ InImages(kind) /\ ui.open /\ net.save.at = "idle" /\ srv.row.version < 3
  /\ \E text \in BOOLEAN :
       /\ Valid(text, ui.base.image)
       /\ net' = [net EXCEPT !.save = [at |-> "read", version |-> ui.base.version, text |-> text]]
  /\ UNCHANGED <<ui, srv, past>>

CloseQuestion(kind) ==
  /\ InImages(kind) /\ ui.open
  /\ ui' = [ui EXCEPT !.open = FALSE, !.base = NoQuestion]
  /\ UNCHANGED <<net, srv, past>>

\* The cards: a file is picked, or the image of the opened row is deleted; a card
\* is busy until its request is answered.
PickImage(kind, d) ==
  /\ Card(kind, d) /\ net.call[d].at = "idle" /\ srv.used < MaxObject
  /\ srv' = [srv EXCEPT !.used = @ + 1]
  /\ net' = [net EXCEPT !.call[d] = [at |-> "select", op |-> "upload", new |-> srv'.used, old |-> 0]]
  /\ UNCHANGED <<ui, past>>

DropImage(kind, d) ==
  /\ Card(kind, d) /\ net.call[d].at = "idle"
  /\ IF d = "own" THEN ui.base.image # 0 ELSE srv.row.image # 0
  /\ net' = [net EXCEPT !.call[d] = [at |-> "check", op |-> "delete", new |-> 0, old |-> 0]]
  /\ UNCHANGED <<ui, srv, past>>

\* The answers: a saved question closes the dialog, an image leaves it as it is.
ImageAnswered(kind, d) ==
  /\ InImages(kind) /\ net.call[d].at = "done"
  /\ net' = [net EXCEPT !.call[d] = NoImageCall]
  /\ UNCHANGED <<ui, srv, past>>

TextAnswered(kind) ==
  /\ InImages(kind) /\ net.save.at \in {"ok", "no"}
  /\ ui' = IF net.save.at = "ok" THEN [ui EXCEPT !.open = FALSE, !.base = NoQuestion] ELSE ui
  /\ net' = [net EXCEPT !.save = NoTextSave]
  /\ UNCHANGED <<srv, past>>

-----------------------------------------------------------------------------
(* The service. *)

\* Update reads the row, merges and checks it with the image it has now ...
CheckText ==
  /\ ui.screen = "images" /\ net.save.at = "read"
  /\ net' = [net EXCEPT !.save.at = IF Valid(net.save.text, srv.row.image) THEN "write" ELSE "no"]
  /\ past' = [past EXCEPT !.raced = @ \/ \E d \in Dialogs : net.call[d].op = "delete" /\ InService(d)]
  /\ UNCHANGED <<ui, srv>>

\* ... and writes the changed fields under the version.
WriteText ==
  /\ ui.screen = "images" /\ net.save.at = "write"
  /\ \/ /\ net.save.text = srv.row.text /\ UNCHANGED srv
        /\ net' = [net EXCEPT !.save.at = "ok"]
     \/ /\ net.save.text # srv.row.text /\ net.save.version = srv.row.version
        /\ srv' = [srv EXCEPT !.row.version = @ + 1, !.row.text = net.save.text]
        /\ net' = [net EXCEPT !.save.at = "ok"]
     \/ /\ net.save.text # srv.row.text /\ net.save.version # srv.row.version
        /\ UNCHANGED srv
        /\ net' = [net EXCEPT !.save.at = "no"]
  /\ UNCHANGED <<ui, past>>

\* DeleteImage: an empty slot is refused, and an image the question needs.
MayDelete == srv.row.image # 0 /\ srv.row.text
CheckImage(d) ==
  /\ ui.screen = "images" /\ net.call[d].at = "check"
  /\ net' = [net EXCEPT !.call[d].at = IF MayDelete THEN "select" ELSE "done"]
  /\ past' = [past EXCEPT !.raced = @ \/ net.save.at = "write"]
  /\ UNCHANGED <<ui, srv>>

ObjectsSwapped(c) == (srv.store \union ({c.new} \ {0})) \ {srv.row.image}

ObjectsPut(c) == IF c.op = "upload" THEN srv.store \union {c.new} ELSE srv.store
\* UploadImage puts the object first; UpdateSoalImageSlot selects the old key,
\* without a lock, ...
SelectKey(d) ==
  /\ ui.screen = "images" /\ net.call[d].at = "select"
  /\ net' = [net EXCEPT !.call[d].at = "update", !.call[d].old = srv.row.image]
  /\ srv' = [srv EXCEPT !.store = ObjectsPut(net.call[d])]
  /\ past' = [past EXCEPT !.crossed = @ \/ \E e \in Dialogs \ {d} : net.call[e].at = "update"]
  /\ UNCHANGED ui

\* ... and updates the column; a failed update deletes the new object again.
UpdateKey(d) ==
  /\ ui.screen = "images" /\ net.call[d].at = "update"
  /\ \/ /\ srv' = [srv EXCEPT !.row.image = net.call[d].new]
        /\ net' = [net EXCEPT !.call[d].at = "clean"]
        /\ UNCHANGED past
     \/ /\ Spend
        /\ srv' = [srv EXCEPT !.store = @ \ {net.call[d].new}]
        /\ net' = [net EXCEPT !.call[d].at = "done"]
  /\ UNCHANGED ui

\* The object that was replaced goes last.
CleanUp(d) ==
  /\ ui.screen = "images" /\ net.call[d].at = "clean"
  /\ srv' = [srv EXCEPT !.store = @ \ {net.call[d].old}]
  /\ net' = [net EXCEPT !.call[d].at = "done"]
  /\ UNCHANGED <<ui, past>>

BankImages == \E d \in Dialogs : PickImage("bank", d) \/ DropImage("bank", d)
BankImageCalls == \E d \in Dialogs : ImageAnswered("bank", d)
SoalImages == \E d \in Dialogs : PickImage("soal", d) \/ DropImage("soal", d)
SoalImageCalls == \E d \in Dialogs : ImageAnswered("soal", d)
BankQuestion == OpenQuestion("bank") \/ CloseQuestion("bank")
BankValidate == SaveText("bank")
BankAnswered == TextAnswered("bank")
SoalQuestion == OpenQuestion("soal") \/ CloseQuestion("soal")
SoalValidate == SaveText("soal")
SoalAnswered == TextAnswered("soal")

NextImages ==
  \/ BankImages \/ BankImageCalls \/ BankQuestion \/ BankValidate \/ BankAnswered
  \/ SoalImages \/ SoalImageCalls \/ SoalQuestion \/ SoalValidate \/ SoalAnswered
  \/ CheckText \/ WriteText
  \/ \E d \in Dialogs : CheckImage(d) \/ SelectKey(d) \/ UpdateKey(d) \/ CleanUp(d)

-----------------------------------------------------------------------------
(* Properties. *)

\* Dialog, calls, row and objects hold what the code's types allow.
ImageCall == [at : {"idle", "check", "select", "update", "clean", "done"},
              op : {"upload", "delete"}, new : Keys, old : Keys]
TextSave == [at : {"idle", "read", "write", "ok", "no"}, version : 1..3, text : BOOLEAN]
ImagesScreen == [screen : {"images"}, kind : {"bank", "soal"}, open : BOOLEAN, base : Question]
ImagesCalls == [save : TextSave, call : [Dialogs -> ImageCall]]
ImagesRows == [row : Question, store : SUBSET Objects, used : Keys]
ImagesPast == [events : Nat, raced : BOOLEAN, crossed : BOOLEAN]
ImagesType ==
  ui \in ImagesScreen /\ net \in ImagesCalls /\ srv \in ImagesRows /\ past \in ImagesPast
ImagesTypeOK == ui.screen = "images" => ImagesType

\* The key a question names is in the object store, whatever two dialogs upload,
\* replace and delete at once and whichever update fails.
NamedImageExists ==
  ui.screen = "images" => srv.row.image = 0 \/ srv.row.image \in srv.store

\* With no image request under way the store holds no other object of the slot,
\* unless two requests had selected the same old key.
NoObjectLeft ==
  ui.screen = "images" /\ ~past.crossed /\ (\A d \in Dialogs : ~InService(d)) =>
    srv.store = {srv.row.image} \ {0}

\* A stored question has a text or an image, although the dialog judges by the row
\* it was opened with; a save and a delete that crossed are left out.
QuestionShowsSomething ==
  ui.screen = "images" /\ ~past.raced => Valid(srv.row.text, srv.row.image)

\* Row and store keep in step: a named image exists, no other is left, and the
\* question shows something (banksoal/image.go).
ImagesInStep == NamedImageExists /\ NoObjectLeft /\ QuestionShowsSomething

\* "Validate post-delete row would still be valid": without that exception.
QuestionNeverBlank == ui.screen = "images" => Valid(srv.row.text, srv.row.image)

-----------------------------------------------------------------------------
(* The inductive invariant of the proofs.                                  *)

SpecImages == InitImages /\ [][NextImages]_browser

Put(d) == net.call[d].at \in {"select", "update"}
Deleting(d) == Put(d) /\ net.call[d].op = "delete"

\* No key is used twice: what a request is about to name is named by nobody and is
\* nobody's old key.
KeysInv ==
  /\ \A k \in srv.store \union {srv.row.image} : k <= srv.used
  /\ \A d \in Dialogs : LET c == net.call[d] IN
       /\ c.new <= srv.used /\ c.old <= srv.used
       /\ c.op = "upload" => c.at # "check" /\ (Put(d) => c.new # 0)
       /\ c.op = "delete" => c.new = 0
       /\ \A e \in Dialogs \ {d} : c.new = net.call[e].new => c.new = 0
       /\ Put(d) /\ c.new # 0 =>
            c.new # srv.row.image /\ \A e \in Dialogs : net.call[e].old # c.new

\* The objects that are named or about to be are there, and none of them is cleaned up.
StoreInv ==
  /\ srv.row.image # 0 => srv.row.image \in srv.store
  /\ \A d \in Dialogs : LET c == net.call[d] IN
       /\ c.at = "update" /\ c.op = "upload" => c.new \in srv.store
       /\ c.at = "clean" /\ c.old # 0 => c.old # srv.row.image

\* As long as no two requests had selected the same key, what else is there is about
\* to be named or to be cleaned up.
LeftInv ==
  ~past.crossed =>
    /\ \A d \in Dialogs : net.call[d].at = "update" =>
         /\ net.call[d].old = srv.row.image
         /\ \A e \in Dialogs \ {d} : net.call[e].at # "update"
    /\ \A k \in srv.store : \/ k = srv.row.image
                            \/ \E d \in Dialogs : LET c == net.call[d] IN
                                 (c.at = "update" /\ k = c.new) \/ (c.at = "clean" /\ k = c.old)

\* A save and a delete that did not cross exclude each other between their check and
\* their write, which therefore still holds.
ShowsInv ==
  /\ net.save.at \in {"read", "write"} => srv.row.version < 3
  /\ ~past.raced =>
       /\ Valid(srv.row.text, srv.row.image)
       /\ net.save.at = "write" =>
            Valid(net.save.text, srv.row.image) /\ \A d \in Dialogs : ~Deleting(d)
       /\ \A d \in Dialogs : Deleting(d) => srv.row.text

ImagesInv == ImagesType /\ KeysInv /\ StoreInv /\ LeftInv /\ ShowsInv
=============================================================================
