-------------------------------- MODULE Chat --------------------------------
(***************************************************************************)
(* One conversation of a student, on the screens that show it: the chat    *)
(* tab of the class's teacher, the monitor of the administrators, and the  *)
(* student's own box in the class and help page.  A screen polls, marks    *)
(* what it has read as read, sends, and those of the staff close the       *)
(* conversation with the version they have seen.  Whoever is at the other  *)
(* end writes in between.                                                  *)
(***************************************************************************)
EXTENDS Browser

CONSTANTS
  MaxChat,  \* bound: version of the conversation at which somebody still writes
  MaxText   \* bound: drafts typed

ASSUME ChatAssumption == MaxChat \in Nat \ {0} /\ MaxText \in Nat

Staff == {"guru", "admin"}
Pupils == {"box", "bantuan"}     \* the box of a class, the page "Bantuan Admin"
Conversation(version, unread, open) == [version |-> version, unread |-> unread, open |-> open]
NoConversation == Conversation(0, 0, TRUE)
NoThread == [at |-> "idle", conv |-> NoConversation, msgs |-> 0]
NoSend == [at |-> "idle", text |-> 0]
NoStatus == [at |-> "idle", version |-> 0, open |-> TRUE, msgs |-> 0]
Queries == {"list", "thread"}    \* those that somebody's write may leave behind

\* The counter of unread messages is the one of the screen's user, who has read the first
\* message or not.  The draft is a number, a new one each time it is typed.
InitChat ==
  \E kind \in Staff \union Pupils, unread \in {0, 1} :
    /\ ui = [screen |-> "chat", kind |-> kind, list |-> NoConversation,
             conv |-> NoConversation, msgs |-> 0, body |-> 0]
    /\ net = [list |-> IF kind \in Staff THEN "sent" ELSE "idle",
              thread |-> IF kind \in Staff THEN NoThread ELSE [NoThread EXCEPT !.at = "sent"],
              mark |-> {}, send |-> NoSend, status |-> NoStatus]
    /\ srv = [conv |-> Conversation(1, unread, kind \in Staff), msgs |-> 1]
    /\ past = [events |-> 0, typed |-> 0, stored |-> {}, stale |-> {}, clean |-> FALSE,
               twice |-> FALSE, unseen |-> FALSE]

InChat(kind) == ui.screen = "chat" /\ ui.kind = kind
Rereading == [NoThread EXCEPT !.at = "sent"]
ChatQuiet ==
  /\ {net.list, net.thread.at, net.send.at, net.status.at} = {"idle"}
  /\ net.mark = {}
\* A conversation that is not loaded yet is shown as the list has it.
Active == IF ui.conv.version # 0 THEN ui.conv ELSE ui.list

Quieted(c) == [c EXCEPT !.unread = 0]

\* The effect marks as read when the counter it watches changes, on the help page
\* when anything of the conversation does.
Marks(old, new) ==
  IF new.unread > 0 /\ (new.unread # old.unread \/ (ui.kind = "bantuan" /\ new # old))
  THEN net.mark \union {"sent"} ELSE net.mark

-----------------------------------------------------------------------------
(* The list of the staff and the conversation. *)

\* The poll, "Refresh", and for the conversation its selection.
ReadChats(kind) ==
  /\ InChat(kind) /\ net.list = "idle"
  /\ net' = [net EXCEPT !.list = "sent"]
  /\ UNCHANGED <<ui, srv, past>>
\* The list is about its counters: it shows them as they are when it gets there.
ChatsArrive(kind) ==
  /\ InChat(kind) /\ net.list = "sent"
  /\ ui' = [ui EXCEPT !.list = srv.conv]
  /\ net' = [net EXCEPT !.list = "idle", !.mark = Marks(ui.list, srv.conv)]
  /\ past' = [past EXCEPT !.stale = @ \ {"list"}]
  /\ UNCHANGED srv

ReadThread(kind) ==
  /\ InChat(kind) /\ net.thread.at = "idle"
  /\ kind \in Staff => ui.list.version # 0
  /\ net' = [net EXCEPT !.thread = Rereading]
  /\ UNCHANGED <<ui, srv, past>>
\* The row first, its messages after.
ServeConversation ==
  /\ ui.screen = "chat" /\ net.thread.at = "sent"
  /\ net' = [net EXCEPT !.thread = [@ EXCEPT !.at = "row", !.conv = srv.conv]]
  /\ past' = [past EXCEPT !.stale = @ \ {"thread"}]
  /\ UNCHANGED <<ui, srv>>
ServeMessages ==
  /\ ui.screen = "chat" /\ net.thread.at = "row"
  /\ net' = [net EXCEPT !.thread = [@ EXCEPT !.at = "ok", !.msgs = srv.msgs]]
  /\ UNCHANGED <<ui, srv, past>>
ThreadArrives(kind) ==
  /\ InChat(kind) /\ net.thread.at = "ok"
  /\ ui' = [ui EXCEPT !.conv = net.thread.conv, !.msgs = net.thread.msgs]
  /\ net' = [net EXCEPT !.thread = NoThread,
                        !.mark = IF kind \in Pupils THEN Marks(ui.conv, net.thread.conv) ELSE @]
  /\ UNCHANGED <<srv, past>>

\* What was read before stays, behind an error for the messages.
LoseRead ==
  /\ ui.screen = "chat" /\ past.events < MaxEvents
  /\ \/ net.list = "sent" /\ net' = [net EXCEPT !.list = "idle"]
     \/ net.thread.at = "sent" /\ net' = [net EXCEPT !.thread = NoThread]
  /\ past' = [past EXCEPT !.events = @ + 1, !.stale = Queries]
  /\ UNCHANGED <<ui, srv>>

\* The counter goes to zero, whatever has come in since it was read.
ServeMark ==
  /\ ui.screen = "chat" /\ "sent" \in net.mark
  /\ srv' = [srv EXCEPT !.conv = [Quieted(srv.conv) EXCEPT !.version = @ + 1]]
  /\ net' = [net EXCEPT !.mark = (@ \ {"sent"}) \union {"ok"}]
  /\ UNCHANGED <<ui, past>>

\* The answer is written into the cached conversation; the teacher's tab reads the
\* list again, the monitor everything, the student's screens nothing.
MarkAnswered(kind) ==
  /\ InChat(kind) /\ "ok" \in net.mark
  /\ ui' = [ui EXCEPT !.conv = Quieted(@)]
  /\ net' = [net EXCEPT !.mark = @ \ {"ok"}, !.list = IF kind \in Staff THEN "sent" ELSE @,
                        !.thread = IF kind = "admin" THEN Rereading ELSE @]
  /\ UNCHANGED <<srv, past>>

-----------------------------------------------------------------------------
(* Sending and closing. *)

\* The field stays open while a message is sent.
TypeText(kind) ==
  /\ InChat(kind) /\ past.typed < MaxText
  /\ kind \in Staff => Active.version # 0
  /\ ui' = [ui EXCEPT !.body = past.typed + 1]
  /\ past' = [past EXCEPT !.typed = @ + 1]
  /\ UNCHANGED <<net, srv>>

SendFree == net.send.at = "idle"
SendText(kind) ==
  /\ InChat(kind) /\ ui.body # 0 /\ SendFree /\ srv.conv.version < MaxChat
  /\ net' = [net EXCEPT !.send = [at |-> "sent", text |-> ui.body]]
  /\ past' = [past EXCEPT !.clean = FALSE]
  /\ UNCHANGED <<ui, srv>>

\* SendMessageTx: a student's message opens the conversation again.
ServeSend ==
  /\ ui.screen = "chat" /\ net.send.at = "sent"
  /\ srv' = [conv |-> [srv.conv EXCEPT !.version = @ + 1, !.open = @ \/ ui.kind \in Pupils],
             msgs |-> srv.msgs + 1]
  /\ net' = [net EXCEPT !.send.at = "ok"]
  /\ past' = [past EXCEPT !.stored = @ \union {net.send.text},
                          !.twice = @ \/ net.send.text \in past.stored]
  /\ UNCHANGED ui
\* Mutant: only the list is read again.
SendAnsweredListOnly(kind) ==
  /\ InChat(kind) /\ net.send.at = "ok"
  /\ ui' = [ui EXCEPT !.body = 0]
  /\ net' = [net EXCEPT !.send = NoSend, !.list = IF kind \in Staff THEN "sent" ELSE @]
  /\ UNCHANGED <<srv, past>>

SendAnswered(kind) ==
  /\ InChat(kind) /\ net.send.at = "ok"
  /\ ui' = [ui EXCEPT !.body = 0]
  /\ net' = [net EXCEPT !.send = NoSend, !.thread = Rereading,
                        !.list = IF kind \in Staff THEN "sent" ELSE @]
  /\ UNCHANGED <<srv, past>>

\* "Tutup chat", "Buka lagi"; a refusal is not shown, nor read again.
PressStatus(kind) ==
  /\ InChat(kind) /\ net.status.at = "idle" /\ Active.version # 0 /\ srv.conv.version < MaxChat
  /\ net' = [net EXCEPT !.status = [at |-> "sent", version |-> Active.version,
                                    open |-> ~Active.open, msgs |-> ui.msgs]]
  /\ past' = [past EXCEPT !.clean = ChatQuiet /\ past.stale = {}]
  /\ UNCHANGED <<ui, srv>>
\* Mutant: the version is not compared.
StatusCurrentAlways == TRUE

\* The version of the row the button was pressed on.
StatusCurrent == net.status.version = srv.conv.version
ServeStatus ==
  /\ ui.screen = "chat" /\ net.status.at = "sent"
  /\ \/ /\ StatusCurrent
        /\ srv' = [srv EXCEPT !.conv.version = @ + 1, !.conv.open = net.status.open]
        /\ net' = [net EXCEPT !.status.at = "ok"]
        /\ past' = [past EXCEPT !.unseen = @ \/ net.status.msgs \notin {0, srv.msgs}]
     \/ /\ ~StatusCurrent
        /\ net' = [net EXCEPT !.status.at = "conflict"]
        /\ UNCHANGED <<srv, past>>
  /\ UNCHANGED ui
StatusAnswered(kind) ==
  /\ InChat(kind)
  /\ \/ /\ net.status.at = "ok"
        /\ net' = [net EXCEPT !.status = NoStatus, !.list = "sent", !.thread = Rereading]
     \/ net.status.at = "conflict" /\ net' = [net EXCEPT !.status = NoStatus]
  /\ UNCHANGED <<ui, srv, past>>

\* A call or its answer is lost; the draft is kept and may be sent again.
LoseChat ==
  /\ ui.screen = "chat" /\ past.events < MaxEvents
  /\ \/ net.send.at \in {"sent", "ok"} /\ net' = [net EXCEPT !.send = NoSend]
     \/ net.status.at # "idle" /\ net' = [net EXCEPT !.status = NoStatus]
     \/ \E at \in net.mark : net' = [net EXCEPT !.mark = @ \ {at}]
  /\ past' = [past EXCEPT !.events = @ + 1, !.stale = Queries, !.clean = FALSE,
                          !.stored = @ \ {net.send.text}]
  /\ UNCHANGED <<ui, srv>>

\* The other end sends a message, somebody else of the staff sends, closes or opens, or
\* another reader marks.
OtherChats ==
  /\ ui.screen = "chat" /\ past.events < MaxEvents /\ srv.conv.version < MaxChat
  /\ \/ srv' = [conv |-> [srv.conv EXCEPT !.version = @ + 1, !.unread = @ + 1,
                                          !.open = @ \/ ui.kind \in Staff],
                msgs |-> srv.msgs + 1]
     \/ ui.kind \in Staff /\ srv' = [srv EXCEPT !.conv.version = @ + 1, !.msgs = @ + 1]
     \/ \E c \in {srv.conv, Quieted(srv.conv)} :
          srv' = [srv EXCEPT !.conv = [c EXCEPT !.version = @ + 1]]
     \/ srv' = [srv EXCEPT !.conv.version = @ + 1, !.conv.open = ~@]
  /\ past' = [past EXCEPT !.events = @ + 1, !.stale = Queries, !.clean = FALSE]
  /\ UNCHANGED <<ui, net>>

-----------------------------------------------------------------------------
(* The screens, in the order of their files. *)

GuruListQuery == ChatsArrive("guru")
GuruThreadQuery == ReadThread("guru") \/ ThreadArrives("guru")
GuruMarkRead == MarkAnswered("guru")
GuruSend == SendAnswered("guru")
GuruStatus == StatusAnswered("guru")
GuruListView == ReadChats("guru")
GuruThreadView == TypeText("guru") \/ SendText("guru") \/ PressStatus("guru")

AdminListQuery == ChatsArrive("admin")
AdminThreadQuery == ReadThread("admin") \/ ThreadArrives("admin")
AdminMarkRead == MarkAnswered("admin")
AdminSend == SendAnswered("admin")
AdminStatus == StatusAnswered("admin")
AdminListView == ReadChats("admin")
AdminThreadView == TypeText("admin") \/ SendText("admin") \/ PressStatus("admin")

BoxQuery == ThreadArrives("box")
BoxMarkRead == MarkAnswered("box")
BoxSend == SendAnswered("box")
BoxView == ReadThread("box") \/ TypeText("box") \/ SendText("box")

HelpQuery == ReadThread("bantuan") \/ ThreadArrives("bantuan")
HelpMarkRead == MarkAnswered("bantuan")
HelpSend == SendAnswered("bantuan")
HelpView == TypeText("bantuan") \/ SendText("bantuan")

NextChat ==
  \/ GuruListQuery \/ GuruThreadQuery \/ GuruMarkRead \/ GuruSend \/ GuruStatus
    \/ GuruListView \/ GuruThreadView
  \/ AdminListQuery \/ AdminThreadQuery \/ AdminMarkRead \/ AdminSend \/ AdminStatus
    \/ AdminListView \/ AdminThreadView
  \/ BoxQuery \/ BoxMarkRead \/ BoxSend \/ BoxView
  \/ HelpQuery \/ HelpMarkRead \/ HelpSend \/ HelpView
  \/ ServeConversation \/ ServeMessages \/ LoseRead \/ ServeMark
  \/ ServeSend \/ ServeStatus \/ LoseChat \/ OtherChats
SpecChat == InitChat /\ [][NextChat]_browser

-----------------------------------------------------------------------------
(* Properties. *)

\* Cached and stored conversations and calls hold what the code's types allow.
Conversations == [version : Nat, unread : Nat, open : BOOLEAN]
ThreadCall == [at : {"idle", "sent", "row", "ok"}, conv : Conversations, msgs : Nat]
SendCall == [at : {"idle", "sent", "ok"}, text : Nat]
StatusCall == [at : {"idle", "sent", "ok", "conflict"}, version : Nat, open : BOOLEAN, msgs : Nat]
ChatScreen == [screen : {"chat"}, kind : Staff \union Pupils, list : Conversations,
               conv : Conversations, msgs : Nat, body : Nat]
ChatCalls == [list : {"idle", "sent"}, thread : ThreadCall, mark : SUBSET {"sent", "ok"},
              send : SendCall, status : StatusCall]
ChatRows == [conv : Conversations, msgs : Nat]
ChatPast == [events : Nat, typed : Nat, stored : SUBSET Nat, stale : SUBSET Queries,
             clean : BOOLEAN, twice : BOOLEAN, unseen : BOOLEAN]
ChatType == ui \in ChatScreen /\ net \in ChatCalls /\ srv \in ChatRows /\ past \in ChatPast
ChatTypeOK == ui.screen = "chat" => ChatType

\* Nobody closes or opens a conversation over messages other than those on their
\* screen: the version they send is never newer than what they were shown.
ClosedKnowing == ui.screen = "chat" => ~past.unseen

\* A draft is not stored twice unless the answer to the first was lost.
SentOnce == ui.screen = "chat" => ~past.twice

\* With every answer in and nobody else writing since the conversation was read,
\* the screen shows its messages and whether it is open: reads of list and
\* conversation, marks and sends overlap without leaving an older one behind.
ChatCatchesUp ==
  ui.screen = "chat" /\ ChatQuiet /\ "thread" \notin past.stale /\ ui.conv.version # 0 =>
    ui.msgs = srv.msgs /\ ui.conv.open = srv.conv.open

\* The monitor's own marks do not make it refuse: pressed with every answer in and
\* nobody writing since list and conversation were read, "Tutup chat" goes through.
MonitorCloses == ui.screen = "chat" /\ ui.kind = "admin" /\ net.status.at = "conflict" => ~past.clean

\* A screen keeps in step with the conversation: what it sent is stored once, what
\* is stored it shows, and its own marks are not in its way (the chat screens).
ChatInStep == SentOnce /\ ChatCatchesUp /\ MonitorCloses

\* The teacher's tab does not read the conversation after its mark.
TeacherCloses == ui.screen = "chat" /\ net.status.at = "conflict" => ~past.clean

-----------------------------------------------------------------------------
(* The inductive invariant of the proofs.                                  *)

\* A version vouches for messages: it is not ahead of the stored one, and what was seen
\* with the stored version is what is stored.
Seen(version, msgs) ==
  version <= srv.conv.version /\ (version = srv.conv.version => msgs = srv.msgs)

\* What the screen shows, what is on its way to it and what a button was pressed on was
\* seen; nothing is on a screen whose conversation is not loaded.
SeenInv ==
  /\ srv.conv.version # 0 /\ ui.list.version <= srv.conv.version
  /\ Seen(ui.conv.version, ui.msgs) /\ (ui.conv.version = 0 => ui.msgs = 0)
  /\ net.thread.at \in {"row", "ok"} => net.thread.conv.version \in 1..srv.conv.version
  /\ net.thread.at = "ok" => Seen(net.thread.conv.version, net.thread.msgs)
  /\ net.status.at = "sent" /\ net.status.msgs # 0 => Seen(net.status.version, net.status.msgs)

\* A draft that is stored is the one whose answer is on its way, or is gone.
OnceInv ==
  /\ past.stored \subseteq 1..past.typed /\ {ui.body, net.send.text} \subseteq 0..past.typed
  /\ net.send.at = "sent" => net.send.text \notin past.stored \union {0}
  /\ ui.body \in past.stored => net.send.at = "ok" /\ ui.body = net.send.text

\* With nobody else's write since a query was read, what it shows is what is stored, or
\* it is about to be read, or a call has been served whose answer reads it again.  For
\* the conversation that is its messages and whether it is open; on the monitor, which
\* reads it after its marks, the version too.
OwnAnswer == net.send.at = "ok" \/ net.status.at = "ok"
MarkedUnread == "ok" \in net.mark
ListedInv ==
  ui.kind \in Staff /\ "list" \notin past.stale =>
    net.list = "sent" \/ ui.list = srv.conv \/ OwnAnswer \/ MarkedUnread
ShownInv ==
  "thread" \notin past.stale =>
    \/ net.thread.at = "sent" \/ OwnAnswer
    \/ net.thread.at = "row" /\ net.thread.conv.open = srv.conv.open
    \/ net.thread.at = "ok" /\ net.thread.conv.open = srv.conv.open /\ net.thread.msgs = srv.msgs
    \/ /\ net.thread.at = "idle"
       /\ ui.conv.version # 0 => ui.conv.open = srv.conv.open /\ ui.msgs = srv.msgs
MonitorInv ==
  ui.kind = "admin" /\ "thread" \notin past.stale =>
    \/ net.thread.at = "sent" \/ OwnAnswer \/ MarkedUnread
    \/ net.thread.at \in {"row", "ok"} /\ net.thread.conv.version = srv.conv.version
    \/ net.thread.at = "idle" /\ ui.conv.version \in {0, srv.conv.version}

\* A button of the monitor pressed on what is stored is served on it: no mark is on its
\* way, and the list has none to find.
PressedInv ==
  ui.kind = "admin" /\ past.clean =>
    /\ net.status.at # "conflict"
    /\ net.status.at = "sent" =>
         /\ net.status.version = srv.conv.version /\ ui.list.unread = srv.conv.unread
         /\ net.mark = {} /\ net.send.at # "sent"

ChatInv ==
  /\ ChatType /\ SeenInv /\ OnceInv /\ ListedInv /\ ShownInv /\ MonitorInv /\ PressedInv
  /\ ~past.twice /\ ~past.unseen
=============================================================================
