------------------------------ MODULE Reorder ------------------------------
(***************************************************************************)
(* The chapters of a class in their order (BabListSection, BabReorderList):*)
(* a drag shows its order at once, sends it with the versions of the       *)
(* cached chapters, and puts back what it replaced when it is refused.     *)
(* Nothing stops a second drag while the first is on its way.              *)
(***************************************************************************)
EXTENDS Browser, SequencesExt

CONSTANTS
  Chapters,  \* the chapters of the class
  MaxDrag    \* bound: drags of the teacher

ASSUME ReorderAssumption == IsFiniteSet(Chapters) /\ MaxDrag \in Nat \ {0}

Drags == 1..MaxDrag
Fresh0 == [b \in Chapters |-> 1]
\* A cached list: as shown, its versions, and the order it was last read with.
NoOrder == [items |-> <<>>, ver |-> Fresh0, read |-> <<>>]
NoDrag == [at |-> "idle", order |-> <<>>, ver |-> Fresh0, base |-> <<>>, previous |-> NoOrder]
NoChapters == [at |-> "idle", data |-> NoOrder]

InitReorder ==
  \E archived \in SUBSET Chapters :
    /\ ui = [screen |-> "reorder", all |-> FALSE, view |-> "pending", cache |-> NoOrder]
    /\ net = [list |-> NoChapters, drag |-> [d \in Drags |-> NoDrag]]
    /\ srv = [order |-> SetToSeq(Chapters), ver |-> Fresh0, archived |-> archived]
    /\ past = [events |-> 0, drags |-> 0, stale |-> FALSE, blind |-> FALSE]

InReorder == ui.screen = "reorder"
Pending(d) == net.drag[d].at # "idle"
\* An order without some of its chapters (the proofs cannot look into SelectSeq).
Without(order, out) ==
  LET Kept[n \in 0..Len(order)] ==
        IF n = 0 THEN <<>>
        ELSE IF order[n] \in out THEN Kept[n - 1] ELSE Append(Kept[n - 1], order[n])
  IN Kept[Len(order)]
\* ListByKelas: the chapters in their order, the archived ones on request.
Visible(s) == LET shown == IF ui.all THEN s.order ELSE Without(s.order, s.archived)
              IN [items |-> shown, ver |-> s.ver, read |-> shown]
Reread == [at |-> "sent", data |-> NoOrder]

ReadChapters ==
  /\ InReorder /\ net.list.at = "idle"
  /\ net' = [net EXCEPT !.list = Reread]
  /\ UNCHANGED <<ui, srv, past>>

ServeChapters ==
  /\ InReorder /\ net.list.at = "sent"
  /\ net' = [net EXCEPT !.list = [at |-> "ok", data |-> Visible(srv)]]
  /\ past' = [past EXCEPT !.stale = FALSE]
  /\ UNCHANGED <<ui, srv>>

ChaptersArrive ==
  /\ InReorder /\ net.list.at = "ok"
  /\ ui' = [ui EXCEPT !.view = "rows", !.cache = net.list.data]
  /\ net' = [net EXCEPT !.list = NoChapters]
  /\ UNCHANGED <<srv, past>>

ChaptersFail ==
  /\ InReorder /\ net.list.at \in {"sent", "ok"} /\ past.events < MaxEvents
  /\ ui' = [ui EXCEPT !.view = IF @ = "pending" THEN "error" ELSE @]
  /\ net' = [net EXCEPT !.list = NoChapters]
  /\ past' = [past EXCEPT !.events = @ + 1, !.stale = TRUE]
  /\ UNCHANGED srv

\* "Tampilkan yang diarsipkan" shows the list of another key, read anew.
\* (Bound: not while a drag is on its way.)
ShowArchived ==
  /\ InReorder /\ ui.view = "rows" /\ \A d \in Drags : ~Pending(d)
  /\ ui' = [ui EXCEPT !.all = ~@, !.view = "pending", !.cache = NoOrder]
  /\ net' = [net EXCEPT !.list = Reread]
  /\ UNCHANGED <<srv, past>>

\* arrayMove.
Moved(items, from, to) == InsertAt(RemoveAt(items, from), to, items[from])

\* handleDragEnd and onMutate: the order of the moved list, the versions of the
\* listed chapters; the read under way is cancelled, the cache replaced.
DragEnd ==
  /\ InReorder /\ ui.view = "rows" /\ past.drags < MaxDrag
  /\ LET d == past.drags + 1
         items == ui.cache.items IN
     \E from, to \in 1..Len(items) :
       LET order == Moved(items, from, to) IN
       /\ from # to
       /\ net' = [list |-> NoChapters,
                  drag |-> [net.drag EXCEPT ![d] =
                    [at |-> "sent", order |-> order, ver |-> ui.cache.ver,
                     base |-> ui.cache.read, previous |-> ui.cache]]]
       /\ ui' = [ui EXCEPT !.cache.items = order]
  /\ past' = [past EXCEPT !.drags = @ + 1]
  /\ UNCHANGED srv

\* Reorder: the whole class or nothing, under the versions, each row moved twice.
Complete(order) == Len(order) = Len(srv.order)
Current(r) == r.ver = srv.ver
ServeDrag(d) ==
  LET r == net.drag[d] IN
  /\ InReorder /\ r.at = "sent"
  /\ \/ /\ ~Complete(r.order)
        /\ net' = [net EXCEPT !.drag[d].at = "missing"]
        /\ UNCHANGED <<srv, past>>
     \/ /\ Complete(r.order) /\ ~Current(r)
        /\ net' = [net EXCEPT !.drag[d].at = "conflict"]
        /\ UNCHANGED <<srv, past>>
     \/ /\ Complete(r.order) /\ Current(r)
        /\ srv' = [srv EXCEPT !.order = r.order, !.ver = [b \in Chapters |-> @[b] + 2]]
        /\ past' = [past EXCEPT !.blind = @ \/ r.base # srv.order]
        /\ net' = [net EXCEPT !.drag[d].at = "ok"]
  /\ UNCHANGED ui

\* Mutant: a saved order is not read again.
DragSavedQuiet(d) ==
  /\ InReorder /\ net.drag[d].at = "ok"
  /\ net' = [net EXCEPT !.drag[d] = NoDrag]
  /\ UNCHANGED <<ui, srv, past>>

\* onSettled reads the list again.
DragSaved(d) ==
  /\ InReorder /\ net.drag[d].at = "ok"
  /\ net' = [list |-> Reread, drag |-> [net.drag EXCEPT ![d] = NoDrag]]
  /\ UNCHANGED <<ui, srv, past>>

\* onError puts back what this drag replaced, then onSettled.
DragRefused(d) ==
  /\ InReorder
  /\ \/ net.drag[d].at \in {"missing", "conflict"} /\ UNCHANGED past
     \/ net.drag[d].at \in {"sent", "ok"} /\ Spend
  /\ ui' = [ui EXCEPT !.cache = net.drag[d].previous]
  /\ net' = [list |-> Reread, drag |-> [net.drag EXCEPT ![d] = NoDrag]]
  /\ UNCHANGED srv

\* Somebody else turns the list around or archives a chapter.
OthersReorder ==
  /\ InReorder /\ past.events < MaxEvents
  /\ \/ srv' = [srv EXCEPT !.order = Reverse(@), !.ver = [b \in Chapters |-> @[b] + 2]]
     \/ \E b \in Chapters \ srv.archived :
          srv' = [srv EXCEPT !.archived = @ \union {b}, !.ver[b] = @ + 1]
  /\ past' = [past EXCEPT !.events = @ + 1, !.stale = TRUE]
  /\ UNCHANGED <<ui, net>>

NextReorder ==
  \/ ReadChapters \/ ServeChapters \/ ChaptersArrive \/ ChaptersFail \/ ShowArchived
  \/ DragEnd \/ OthersReorder
  \/ \E d \in Drags : ServeDrag(d) \/ DragSaved(d) \/ DragRefused(d)

-----------------------------------------------------------------------------
(* Properties. *)

\* Orders of chapters, each listed at most once; versions; cached lists.
Orders == {s \in Seq(Chapters) : \A i, j \in 1..Len(s) : s[i] = s[j] => i = j}
Versions == [Chapters -> Nat]
Lists == [items : Orders, ver : Versions, read : Orders]
ReorderScreen ==
  [screen : {"reorder"}, all : BOOLEAN, view : {"pending", "rows", "error"}, cache : Lists]
DragCall ==
  [at : {"idle", "sent", "ok", "missing", "conflict"}, order : Orders, ver : Versions,
   base : Orders, previous : Lists]
ReorderCalls ==
  [list : [at : {"idle", "sent", "ok"}, data : Lists], drag : [Drags -> DragCall]]
ReorderRows == [order : Orders, ver : Versions, archived : SUBSET Chapters]
ReorderPast == [events : 0..MaxEvents, drags : 0..MaxDrag, stale : BOOLEAN, blind : BOOLEAN]

\* Every order in the cache, in flight or stored lists chapters at most once, and the
\* stored one lists them all.
ReorderType ==
  /\ ui \in ReorderScreen /\ net \in ReorderCalls /\ srv \in ReorderRows
  /\ past \in ReorderPast /\ Len(srv.order) = Cardinality(Chapters)
ReorderTypeOK == InReorder => ReorderType

\* A stored order is only replaced by one that was dragged out of it: not over an
\* order somebody else has changed, nor after a roll-back to an order that a drag in
\* between has replaced.
NoBlindDrag == InReorder => ~past.blind

\* Once the drags and the read they asked for are answered, the list shows the
\* stored order and versions, whatever the roll-backs of overlapping drags put there.
OrderSettles ==
  InReorder /\ ui.view = "rows" /\ net.list.at = "idle" /\ ~past.stale
    /\ (\A d \in Drags : ~Pending(d)) => ui.cache = Visible(srv)

\* Drags settle: none falls on an order it was not made from, and in the end the
\* list is the stored one (BabReorderList.tsx, bab/reorder.go).
DragsSettle == NoBlindDrag /\ OrderSettles

\* "Geser untuk mengurutkan ulang": no drag of the list is refused as incomplete.
DragIsWhole == InReorder => \A d \in Drags : net.drag[d].at # "missing"

-----------------------------------------------------------------------------
(* The inductive invariant of the proofs.                                  *)

SpecReorder == InitReorder /\ [][NextReorder]_browser

\* A list that was read with these versions is not ahead of the stored rows s, and with
\* their versions it is the stored order, with or without the archived chapters.
Vouch(s, ver, order) ==
  /\ \A b \in Chapters : ver[b] <= s.ver[b]
  /\ ver = s.ver => order \in {s.order, Without(s.order, s.archived)}
VouchList(s, list) == Vouch(s, list.ver, list.read) /\ Len(list.items) = Len(list.read)

\* A drag is made of such a copy of the list.
VouchDrag(s, r) == /\ VouchList(s, r.previous) /\ Len(r.order) = Len(r.base)
                   /\ r.ver = r.previous.ver /\ r.base = r.previous.read

\* That holds wherever a copy of the list is: shown, on its way, dragged and replaced.
VouchInv ==
  /\ ui.view = "rows" => VouchList(srv, ui.cache)
  /\ net.list.at = "ok" => VouchList(srv, net.list.data)
  /\ \A d \in Drags : Pending(d) => VouchDrag(srv, net.drag[d])

\* With no drag under way and nobody else's change since the last read, the list is the
\* stored one, or on its way, or has been asked for.
SettleInv == ~past.stale /\ (\A d \in Drags : ~Pending(d)) =>
  /\ net.list.at = "ok" => net.list.data = Visible(srv)
  /\ net.list.at = "idle" /\ ui.view = "rows" => ui.cache = Visible(srv)

ReorderInv == ReorderType /\ VouchInv /\ SettleInv /\ ~past.blind
=============================================================================
