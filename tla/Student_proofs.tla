--------------------------- MODULE Student_proofs ---------------------------
(***************************************************************************)
(* Proofs about the screens a student meets, for every number of           *)
(* questions, letters, choices, tries, drafts and versions and every       *)
(* number of bounded events: the conversations of students and staff       *)
(* (Chat), the practice player (LatihanPlayer), the lobby (ExamLobby) and  *)
(* the player of an exam (ExamPlayer).  Each part ends with its inductive  *)
(* invariant and what follows from it.                                     *)
(***************************************************************************)
EXTENDS Chat, LatihanPlayer, ExamLobby, ExamPlayer, FiniteSetTheorems, TLAPS

(***************************************************************************)
(* Chat                                                                    *)
(***************************************************************************)

-----------------------------------------------------------------------------
(* Every screen is made of the same steps                                  *)

KindStep(kind) ==
  \/ ReadThread(kind) \/ ThreadArrives(kind) \/ MarkAnswered(kind)
  \/ TypeText(kind) \/ SendText(kind) \/ SendAnswered(kind)
  \/ /\ kind \in Staff
     /\ \/ ReadChats(kind) \/ ChatsArrive(kind)
        \/ PressStatus(kind) \/ StatusAnswered(kind)
ChatStep ==
  \/ \E kind \in Staff \union Pupils : KindStep(kind)
  \/ ServeConversation \/ ServeMessages \/ LoseRead \/ ServeMark
  \/ ServeSend \/ ServeStatus \/ LoseChat \/ OtherChats

LEMMA StepsOfScreens == NextChat => ChatStep
<1>0. Staff = {"guru", "admin"} /\ Pupils = {"box", "bantuan"}
  BY DEF Staff, Pupils
<1>1. ASSUME GuruListQuery \/ GuruThreadQuery \/ GuruMarkRead \/ GuruSend \/ GuruStatus
          \/ GuruListView \/ GuruThreadView
      PROVE  ChatStep
  BY <1>0, <1>1 DEF GuruListQuery, GuruThreadQuery, GuruMarkRead, GuruSend, GuruStatus,
     GuruListView, GuruThreadView, KindStep, ChatStep
<1>2. ASSUME AdminListQuery \/ AdminThreadQuery \/ AdminMarkRead \/ AdminSend \/ AdminStatus
          \/ AdminListView \/ AdminThreadView
      PROVE  ChatStep
  BY <1>0, <1>2 DEF AdminListQuery, AdminThreadQuery, AdminMarkRead, AdminSend, AdminStatus,
     AdminListView, AdminThreadView, KindStep, ChatStep
<1>3. ASSUME BoxQuery \/ BoxMarkRead \/ BoxSend \/ BoxView
      PROVE  ChatStep
  BY <1>0, <1>3 DEF BoxQuery, BoxMarkRead, BoxSend, BoxView, KindStep, ChatStep
<1>4. ASSUME HelpQuery \/ HelpMarkRead \/ HelpSend \/ HelpView
      PROVE  ChatStep
  BY <1>0, <1>4 DEF HelpQuery, HelpMarkRead, HelpSend, HelpView, KindStep, ChatStep
<1> QED BY <1>1, <1>2, <1>3, <1>4 DEF NextChat, ChatStep

-----------------------------------------------------------------------------
(* The parts of the records                                                *)

LEMMA BlankChat ==
    /\ NoConversation \in Conversations /\ NoThread \in ThreadCall /\ Rereading \in ThreadCall
    /\ NoSend \in SendCall /\ NoStatus \in StatusCall
    /\ NoConversation.version = 0 /\ NoThread.at = "idle" /\ Rereading.at = "sent"
    /\ NoSend.at = "idle" /\ NoSend.text = 0 /\ NoStatus.at = "idle" /\ NoStatus.msgs = 0
BY DEF NoConversation, Conversation, Conversations, NoThread, Rereading, ThreadCall, NoSend,
   SendCall, NoStatus, StatusCall

LEMMA ChatParts ==
    ASSUME ChatType
    PROVE  /\ ui \in ChatScreen /\ net \in ChatCalls /\ srv \in ChatRows /\ past \in ChatPast
           /\ {ui.list, ui.conv, srv.conv, net.thread.conv} \subseteq Conversations
           /\ {ui.list.version, ui.conv.version, srv.conv.version, net.thread.conv.version,
               net.status.version} \subseteq Nat
           /\ {ui.list.unread, ui.conv.unread, srv.conv.unread} \subseteq Nat
           /\ {ui.list.open, ui.conv.open, srv.conv.open, net.thread.conv.open,
               net.status.open} \subseteq BOOLEAN
           /\ {ui.msgs, ui.body, srv.msgs, net.thread.msgs, net.send.text, net.status.msgs,
               past.events, past.typed} \subseteq Nat
           /\ net.thread \in ThreadCall /\ net.send \in SendCall /\ net.status \in StatusCall
           /\ net.list \in {"idle", "sent"} /\ net.mark \subseteq {"sent", "ok"}
           /\ past.stored \subseteq Nat /\ past.stale \subseteq Queries
           /\ {past.clean, past.twice, past.unseen} \subseteq BOOLEAN
           /\ ui.kind \in Staff \union Pupils /\ ui.screen = "chat"
<1>1. ui \in ChatScreen /\ net \in ChatCalls /\ srv \in ChatRows /\ past \in ChatPast
  BY DEF ChatType
<1>2. /\ {ui.list, ui.conv} \subseteq Conversations /\ {ui.msgs, ui.body} \subseteq Nat
      /\ ui.kind \in Staff \union Pupils /\ ui.screen = "chat"
  BY <1>1 DEF ChatScreen
<1>3. /\ net.thread \in ThreadCall /\ net.send \in SendCall /\ net.status \in StatusCall
      /\ net.list \in {"idle", "sent"} /\ net.mark \subseteq {"sent", "ok"}
  BY <1>1 DEF ChatCalls
<1>4. srv.conv \in Conversations /\ srv.msgs \in Nat
  BY <1>1 DEF ChatRows
<1>5. /\ {past.events, past.typed} \subseteq Nat /\ past.stored \subseteq Nat
      /\ past.stale \subseteq Queries /\ {past.clean, past.twice, past.unseen} \subseteq BOOLEAN
  BY <1>1 DEF ChatPast
<1>6. net.thread.conv \in Conversations /\ net.thread.msgs \in Nat
  BY <1>3 DEF ThreadCall
<1>7. net.send.text \in Nat
  BY <1>3 DEF SendCall
<1>8. net.status.version \in Nat /\ net.status.msgs \in Nat /\ net.status.open \in BOOLEAN
  BY <1>3 DEF StatusCall
<1> QED BY <1>1, <1>2, <1>3, <1>4, <1>5, <1>6, <1>7, <1>8 DEF Conversations

\* One part of the calls is replaced.
LEMMA ThreadReplaced ==
    ASSUME net \in ChatCalls, NEW x \in ThreadCall, net' = [net EXCEPT !.thread = x]
    PROVE  /\ net' \in ChatCalls /\ net'.thread = x /\ net'.list = net.list
           /\ net'.mark = net.mark /\ net'.send = net.send /\ net'.status = net.status
BY DEF ChatCalls
LEMMA SendReplaced ==
    ASSUME net \in ChatCalls, NEW x \in SendCall, net' = [net EXCEPT !.send = x]
    PROVE  /\ net' \in ChatCalls /\ net'.send = x /\ net'.list = net.list
           /\ net'.mark = net.mark /\ net'.thread = net.thread /\ net'.status = net.status
BY DEF ChatCalls
LEMMA StatusReplaced ==
    ASSUME net \in ChatCalls, NEW x \in StatusCall, net' = [net EXCEPT !.status = x]
    PROVE  /\ net' \in ChatCalls /\ net'.status = x /\ net'.list = net.list
           /\ net'.mark = net.mark /\ net'.thread = net.thread /\ net'.send = net.send
BY DEF ChatCalls
LEMMA MarkReplaced ==
    ASSUME net \in ChatCalls, NEW x \in SUBSET {"sent", "ok"}, net' = [net EXCEPT !.mark = x]
    PROVE  /\ net' \in ChatCalls /\ net'.mark = x /\ net'.list = net.list
           /\ net'.thread = net.thread /\ net'.send = net.send /\ net'.status = net.status
BY DEF ChatCalls
LEMMA ListReplaced ==
    ASSUME net \in ChatCalls, NEW x \in {"idle", "sent"}, NEW y \in SUBSET {"sent", "ok"},
           net' = [net EXCEPT !.list = x, !.mark = y]
    PROVE  /\ net' \in ChatCalls /\ net'.list = x /\ net'.mark = y
           /\ net'.thread = net.thread /\ net'.send = net.send /\ net'.status = net.status
BY DEF ChatCalls

\* A bounded event leaves both queries behind.
LEMMA Disturbed ==
    ASSUME past \in ChatPast, NEW clean \in BOOLEAN, NEW stored \in SUBSET Nat,
           past' = [past EXCEPT !.events = @ + 1, !.stale = Queries, !.clean = clean,
                                !.stored = stored]
    PROVE  /\ past' \in ChatPast /\ past'.stale = Queries /\ past'.clean = clean
           /\ past'.stored = stored /\ past'.typed = past.typed
           /\ past'.twice = past.twice /\ past'.unseen = past.unseen
<1> DEFINE counted == [past EXCEPT !.events = @ + 1]
<1>1. /\ counted \in ChatPast /\ counted.typed = past.typed
      /\ counted.twice = past.twice /\ counted.unseen = past.unseen
  BY DEF ChatPast
<1>2. past' = [counted EXCEPT !.stale = Queries, !.clean = clean, !.stored = stored]
  BY DEF ChatPast
<1> HIDE DEF counted
<1> QED BY <1>1, <1>2 DEF ChatPast

\* A write of the conversation raises its version.
LEMMA Raised ==
    ASSUME NEW c \in Conversations, NEW open \in BOOLEAN
    PROVE  /\ [c EXCEPT !.version = @ + 1] \in Conversations
           /\ [c EXCEPT !.version = @ + 1].version = c.version + 1
           /\ [c EXCEPT !.version = @ + 1].open = c.open
           /\ [c EXCEPT !.version = @ + 1, !.open = open] \in Conversations
           /\ [c EXCEPT !.version = @ + 1, !.open = open].version = c.version + 1
<1> DEFINE next == [c EXCEPT !.version = @ + 1]
<1>1. next \in Conversations /\ next.version = c.version + 1 /\ next.open = c.open
  BY DEF Conversations
<1>2. [c EXCEPT !.version = @ + 1, !.open = open] = [next EXCEPT !.open = open]
  BY DEF Conversations
<1> HIDE DEF next
<1>3. /\ [next EXCEPT !.open = open] \in Conversations
      /\ [next EXCEPT !.open = open].version = next.version
  BY <1>1 DEF Conversations
<1> QED BY <1>1, <1>2, <1>3 DEF next

-----------------------------------------------------------------------------
(* The invariant is kept: the queries                                      *)

LEMMA ReadChatsKeeps ==
    ASSUME ChatInv, NEW kind, ReadChats(kind)
    PROVE  ChatInv'
<1>1. ChatType /\ UNCHANGED <<ui, srv, past>>
  BY DEF ChatInv, ReadChats
<1>2. /\ net' \in ChatCalls /\ net'.list = "sent"
      /\ net'.thread = net.thread /\ net'.mark = net.mark /\ net'.send = net.send
      /\ net'.status = net.status
  BY <1>1, ChatParts DEF ReadChats, ChatCalls
<1> QED BY <1>1, <1>2, ChatParts
   DEF ChatInv, ChatType, SeenInv, Seen, OnceInv, ListedInv, OwnAnswer, MarkedUnread,
   ShownInv, MonitorInv, PressedInv

LEMMA ChatsArriveKeeps ==
    ASSUME ChatInv, NEW kind, ChatsArrive(kind)
    PROVE  ChatInv'
<1> DEFINE mark == Marks(ui.list, srv.conv)
<1>1. ChatType /\ srv' = srv /\ net' = [net EXCEPT !.list = "idle", !.mark = mark]
  BY DEF ChatInv, ChatsArrive
<1>2. /\ mark \in SUBSET {"sent", "ok"}
      /\ mark = net.mark \/ (ui.list.unread # srv.conv.unread \/ ui.kind = "bantuan")
  BY <1>1, ChatParts DEF Marks
<1>3. net.mark \subseteq mark
  BY DEF Marks
<1> HIDE DEF mark
<1>4. /\ net' \in ChatCalls /\ net'.list = "idle" /\ net'.mark = mark
      /\ net'.thread = net.thread /\ net'.send = net.send /\ net'.status = net.status
  BY <1>1, <1>2, ChatParts, ListReplaced
<1>5. /\ ui' \in ChatScreen /\ ui'.list = srv.conv /\ ui'.conv = ui.conv /\ ui'.msgs = ui.msgs
      /\ ui'.body = ui.body /\ ui'.kind = ui.kind
  BY <1>1, ChatParts DEF ChatsArrive, ChatScreen
<1>6. /\ past' \in ChatPast /\ past'.stale = past.stale \ {"list"} /\ past'.clean = past.clean
      /\ past'.stored = past.stored /\ past'.typed = past.typed
      /\ past'.twice = past.twice /\ past'.unseen = past.unseen
  BY <1>1, ChatParts DEF ChatsArrive, ChatPast
<1> QED BY <1>1, <1>2, <1>3, <1>4, <1>5, <1>6, ChatParts
   DEF ChatInv, ChatType, SeenInv, Seen, OnceInv, ListedInv, OwnAnswer, MarkedUnread,
   ShownInv, MonitorInv, PressedInv

LEMMA ReadThreadKeeps ==
    ASSUME ChatInv, NEW kind, ReadThread(kind)
    PROVE  ChatInv'
<1>1. ChatType /\ UNCHANGED <<ui, srv, past>>
  BY DEF ChatInv, ReadThread
<1>2. /\ net' \in ChatCalls /\ net'.thread = Rereading /\ net'.list = net.list
      /\ net'.mark = net.mark /\ net'.send = net.send /\ net'.status = net.status
  BY <1>1, BlankChat, ChatParts, ThreadReplaced DEF ReadThread
<1> QED BY <1>1, <1>2, BlankChat, ChatParts
   DEF ChatInv, ChatType, SeenInv, Seen, OnceInv, ListedInv, OwnAnswer, MarkedUnread,
   ShownInv, MonitorInv, PressedInv

LEMMA ServeConversationKeeps ==
    ASSUME ChatInv, ServeConversation
    PROVE  ChatInv'
<1> DEFINE read == [net.thread EXCEPT !.at = "row", !.conv = srv.conv]
<1>1. ChatType /\ UNCHANGED <<ui, srv>> /\ net' = [net EXCEPT !.thread = read]
  BY DEF ChatInv, ServeConversation
<1>2. read \in ThreadCall /\ read.at = "row" /\ read.conv = srv.conv
  BY <1>1, ChatParts DEF ThreadCall
<1> HIDE DEF read
<1>3. /\ net' \in ChatCalls /\ net'.thread = read /\ net'.list = net.list
      /\ net'.mark = net.mark /\ net'.send = net.send /\ net'.status = net.status
  BY <1>1, <1>2, ChatParts, ThreadReplaced
<1>4. /\ past' \in ChatPast /\ past'.stale = past.stale \ {"thread"} /\ past'.clean = past.clean
      /\ past'.stored = past.stored /\ past'.typed = past.typed
      /\ past'.twice = past.twice /\ past'.unseen = past.unseen
  BY <1>1, ChatParts DEF ServeConversation, ChatPast
<1> QED BY <1>1, <1>2, <1>3, <1>4, ChatParts
   DEF ChatInv, ChatType, SeenInv, Seen, OnceInv, ListedInv, OwnAnswer, MarkedUnread,
   ShownInv, MonitorInv, PressedInv

LEMMA ServeMessagesKeeps ==
    ASSUME ChatInv, ServeMessages
    PROVE  ChatInv'
<1> DEFINE read == [net.thread EXCEPT !.at = "ok", !.msgs = srv.msgs]
<1>1. /\ ChatType /\ UNCHANGED <<ui, srv, past>> /\ net.thread.at = "row"
      /\ net' = [net EXCEPT !.thread = read]
  BY DEF ChatInv, ServeMessages
<1>2. /\ read \in ThreadCall /\ read.at = "ok" /\ read.msgs = srv.msgs
      /\ read.conv = net.thread.conv
  BY <1>1, ChatParts DEF ThreadCall
<1> HIDE DEF read
<1>3. /\ net' \in ChatCalls /\ net'.thread = read /\ net'.list = net.list
      /\ net'.mark = net.mark /\ net'.send = net.send /\ net'.status = net.status
  BY <1>1, <1>2, ChatParts, ThreadReplaced
<1> QED BY <1>1, <1>2, <1>3, ChatParts
   DEF ChatInv, ChatType, SeenInv, Seen, OnceInv, ListedInv, OwnAnswer, MarkedUnread,
   ShownInv, MonitorInv, PressedInv

LEMMA ThreadArrivesKeeps ==
    ASSUME ChatInv, NEW kind, ThreadArrives(kind)
    PROVE  ChatInv'
<1> DEFINE mark == IF kind \in Pupils THEN Marks(ui.conv, net.thread.conv) ELSE net.mark
<1>1. /\ ChatType /\ UNCHANGED <<srv, past>> /\ net.thread.at = "ok" /\ ui.kind = kind
      /\ net' = [net EXCEPT !.thread = NoThread, !.mark = mark]
  BY DEF ChatInv, ThreadArrives, InChat
<1>2. mark \in SUBSET {"sent", "ok"} /\ net.mark \subseteq mark
  BY <1>1, ChatParts DEF Marks
<1>3. ui.kind = "admin" => mark = net.mark
  BY <1>1 DEF Pupils
<1> HIDE DEF mark
<1>4. /\ net' \in ChatCalls /\ net'.list = net.list /\ net'.mark = mark
      /\ net'.thread = NoThread /\ net'.send = net.send /\ net'.status = net.status
  BY <1>1, <1>2, BlankChat, ChatParts DEF ChatCalls
<1>5. /\ ui' \in ChatScreen /\ ui'.conv = net.thread.conv /\ ui'.msgs = net.thread.msgs
      /\ ui'.list = ui.list /\ ui'.body = ui.body /\ ui'.kind = ui.kind
  BY <1>1, ChatParts DEF ThreadArrives, ChatScreen
<1> QED BY <1>1, <1>2, <1>3, <1>4, <1>5, BlankChat, ChatParts
   DEF ChatInv, ChatType, SeenInv, Seen, OnceInv, ListedInv, OwnAnswer, MarkedUnread,
   ShownInv, MonitorInv, PressedInv

LEMMA LoseReadKeeps ==
    ASSUME ChatInv, LoseRead
    PROVE  ChatInv'
<1>1. ChatType /\ UNCHANGED <<ui, srv>>
  BY DEF ChatInv, LoseRead
<1>2. /\ net' \in ChatCalls /\ net'.thread \in {net.thread, NoThread}
      /\ net'.mark = net.mark /\ net'.send = net.send /\ net'.status = net.status
  BY <1>1, BlankChat, ChatParts DEF LoseRead, ChatCalls
<1>3. /\ past' \in ChatPast /\ past'.stale = Queries /\ past'.clean = past.clean
      /\ past'.stored = past.stored /\ past'.typed = past.typed
      /\ past'.twice = past.twice /\ past'.unseen = past.unseen
  <2>1. past' = [past EXCEPT !.events = @ + 1, !.stale = Queries, !.clean = past.clean,
                             !.stored = past.stored]
    BY <1>1, ChatParts DEF LoseRead, ChatPast
  <2> QED BY <1>1, <2>1, ChatParts, Disturbed
<1>4. Queries = {"list", "thread"}
  BY DEF Queries
<1> QED BY <1>1, <1>2, <1>3, <1>4, BlankChat, ChatParts
   DEF ChatInv, ChatType, SeenInv, Seen, OnceInv, ListedInv, OwnAnswer, MarkedUnread,
   ShownInv, MonitorInv, PressedInv

-----------------------------------------------------------------------------
(* Marks, messages and the two buttons                                     *)

\* A write of the conversation raises its version.
LEMMA SeenOn ==
    ASSUME ChatType, SeenInv, UNCHANGED <<ui, net>>, ChatType',
           srv'.conv.version = srv.conv.version + 1
    PROVE  SeenInv'
BY ChatParts DEF SeenInv, Seen

LEMMA ServeMarkKeeps ==
    ASSUME ChatInv, ServeMark
    PROVE  ChatInv'
<1> DEFINE read == [Quieted(srv.conv) EXCEPT !.version = @ + 1]
           mark == (net.mark \ {"sent"}) \union {"ok"}
<1>1. /\ ChatType /\ UNCHANGED <<ui, past>> /\ "sent" \in net.mark
      /\ srv' = [srv EXCEPT !.conv = read] /\ net' = [net EXCEPT !.mark = mark]
  <2>1. srv' = [srv EXCEPT !.conv = read]
    BY Zenon DEF ServeMark
  <2>2. net' = [net EXCEPT !.mark = mark]
    BY Zenon DEF ServeMark
  <2> QED BY <2>1, <2>2 DEF ChatInv, ServeMark
<1>2. /\ read \in Conversations /\ read.version = srv.conv.version + 1
      /\ read.open = srv.conv.open
  <2>1. Quieted(srv.conv) \in Conversations
        /\ Quieted(srv.conv).version = srv.conv.version /\ Quieted(srv.conv).open = srv.conv.open
    BY <1>1, ChatParts DEF Quieted, Conversations
  <2> QED BY <2>1, Raised
<1>3. mark \in SUBSET {"sent", "ok"} /\ "ok" \in mark
  <2>1. net.mark \subseteq {"sent", "ok"}
    BY <1>1, ChatParts
  <2> QED BY <2>1
<1> HIDE DEF read, mark
<1>4. srv' \in ChatRows /\ srv'.conv = read /\ srv'.msgs = srv.msgs
  BY <1>1, <1>2, ChatParts DEF ChatRows
<1>5. /\ net' \in ChatCalls /\ net'.mark = mark /\ net'.list = net.list
      /\ net'.thread = net.thread /\ net'.send = net.send /\ net'.status = net.status
  BY <1>1, <1>3, ChatParts, MarkReplaced
<1>6. ChatType' /\ SeenInv'
  BY <1>1, <1>2, <1>4, <1>5, ChatParts DEF ChatInv, ChatType, SeenInv, Seen
<1> QED BY <1>1, <1>2, <1>3, <1>4, <1>5, <1>6, ChatParts DEF ChatInv, OnceInv, ListedInv,
      OwnAnswer, MarkedUnread, ShownInv, MonitorInv, PressedInv

LEMMA MarkAnsweredKeeps ==
    ASSUME ChatInv, NEW kind, MarkAnswered(kind)
    PROVE  ChatInv'
<1>1. ChatType /\ UNCHANGED <<srv, past>> /\ ui.kind = kind /\ "ok" \in net.mark
  BY DEF ChatInv, MarkAnswered, InChat
<1>2. Quieted(ui.conv) \in Conversations /\ Quieted(ui.conv).version = ui.conv.version
      /\ Quieted(ui.conv).open = ui.conv.open
  BY <1>1, ChatParts DEF Quieted, Conversations
<1>3. /\ ui' \in ChatScreen /\ ui'.conv = Quieted(ui.conv) /\ ui'.msgs = ui.msgs
      /\ ui'.list = ui.list /\ ui'.body = ui.body /\ ui'.kind = ui.kind
  BY <1>1, <1>2, ChatParts DEF MarkAnswered, ChatScreen
<1>4. /\ net' \in ChatCalls /\ net'.mark = net.mark \ {"ok"}
      /\ net'.list = IF kind \in Staff THEN "sent" ELSE net.list
      /\ net'.thread = IF kind = "admin" THEN Rereading ELSE net.thread
      /\ net'.send = net.send /\ net'.status = net.status
  BY <1>1, BlankChat, ChatParts DEF MarkAnswered, ChatCalls
<1> QED BY <1>1, <1>2, <1>3, <1>4, BlankChat, ChatParts
   DEF ChatInv, ChatType, SeenInv, Seen, OnceInv, ListedInv, OwnAnswer, MarkedUnread,
   ShownInv, MonitorInv, PressedInv

LEMMA TypeKeeps ==
    ASSUME ChatInv, NEW kind, TypeText(kind)
    PROVE  ChatInv'
<1>1. ChatType /\ UNCHANGED <<net, srv>>
  BY DEF ChatInv, TypeText
<1>2. /\ ui' \in ChatScreen /\ ui'.body = past.typed + 1 /\ ui'.msgs = ui.msgs
      /\ ui'.list = ui.list /\ ui'.conv = ui.conv /\ ui'.kind = ui.kind
  BY <1>1, ChatParts DEF TypeText, ChatScreen
<1>3. /\ past' \in ChatPast /\ past'.stale = past.stale /\ past'.clean = past.clean
      /\ past'.stored = past.stored /\ past'.typed = past.typed + 1
      /\ past'.twice = past.twice /\ past'.unseen = past.unseen
  BY <1>1, ChatParts DEF TypeText, ChatPast
<1>4. OnceInv'
  BY <1>1, <1>2, <1>3, ChatParts DEF ChatInv, OnceInv
<1> QED BY <1>1, <1>2, <1>3, <1>4, ChatParts DEF ChatInv, ChatType, SeenInv, Seen, ListedInv,
      OwnAnswer, MarkedUnread, ShownInv, MonitorInv, PressedInv

LEMMA SendKeeps ==
    ASSUME ChatInv, NEW kind, SendText(kind)
    PROVE  ChatInv'
<1> DEFINE call == [at |-> "sent", text |-> ui.body]
<1>1. /\ ChatType /\ UNCHANGED <<ui, srv>> /\ ui.body # 0 /\ net.send.at = "idle"
      /\ net' = [net EXCEPT !.send = call]
  BY DEF ChatInv, SendText, SendFree
<1>2. call \in SendCall /\ call.at = "sent" /\ call.text = ui.body
  BY <1>1, ChatParts DEF SendCall
<1> HIDE DEF call
<1>3. /\ net' \in ChatCalls /\ net'.send = call /\ net'.list = net.list
      /\ net'.mark = net.mark /\ net'.thread = net.thread /\ net'.status = net.status
  BY <1>1, <1>2, ChatParts, SendReplaced
<1>4. /\ past' \in ChatPast /\ past'.stale = past.stale /\ past'.clean = FALSE
      /\ past'.stored = past.stored /\ past'.typed = past.typed
      /\ past'.twice = past.twice /\ past'.unseen = past.unseen
  BY <1>1, ChatParts DEF SendText, ChatPast
<1> QED BY <1>1, <1>2, <1>3, <1>4, ChatParts
   DEF ChatInv, ChatType, SeenInv, Seen, OnceInv, ListedInv, OwnAnswer, MarkedUnread,
   ShownInv, MonitorInv, PressedInv

LEMMA ServeSendKeeps ==
    ASSUME ChatInv, ServeSend
    PROVE  ChatInv'
<1> DEFINE open == srv.conv.open \/ ui.kind \in Pupils
           conv == [srv.conv EXCEPT !.version = @ + 1, !.open = open]
           call == [net.send EXCEPT !.at = "ok"]
           twice == past.twice \/ net.send.text \in past.stored
<1>1. /\ ChatType /\ ui' = ui /\ net.send.at = "sent"
      /\ srv' = [conv |-> conv, msgs |-> srv.msgs + 1]
      /\ net' = [net EXCEPT !.send = call]
  BY DEF ChatInv, ServeSend
<1>2. conv \in Conversations /\ conv.version = srv.conv.version + 1
  <2>1. open \in BOOLEAN
    BY <1>1, ChatParts
  <2> HIDE DEF open
  <2> QED BY <1>1, <2>1, ChatParts, Raised
<1>3. call \in SendCall /\ call.at = "ok" /\ call.text = net.send.text
  BY <1>1, ChatParts DEF SendCall
<1>4. ~twice
  BY <1>1, ChatParts DEF ChatInv, OnceInv
<1>5. /\ past' \in ChatPast /\ past'.stale = past.stale /\ past'.clean = past.clean
      /\ past'.stored = past.stored \union {net.send.text} /\ past'.typed = past.typed
      /\ past'.twice = twice /\ past'.unseen = past.unseen
  <2>1. past' = [past EXCEPT !.stored = @ \union {net.send.text}, !.twice = twice]
    BY <1>1, ChatParts DEF ServeSend
  <2>2. twice \in BOOLEAN
    BY <1>1, ChatParts
  <2> HIDE DEF twice
  <2> QED BY <1>1, <2>1, <2>2, ChatParts DEF ChatPast
<1> HIDE DEF conv, call, twice
<1>6. srv' \in ChatRows /\ srv'.conv = conv
  BY <1>1, <1>2, ChatParts DEF ChatRows
<1>7. /\ net' \in ChatCalls /\ net'.send = call /\ net'.list = net.list
      /\ net'.mark = net.mark /\ net'.thread = net.thread /\ net'.status = net.status
  BY <1>1, <1>3, ChatParts, SendReplaced
<1>8. SeenInv'
  BY <1>1, <1>2, <1>6, <1>7, ChatParts DEF ChatInv, SeenInv, Seen
<1>9. OnceInv'
  BY <1>1, <1>3, <1>5, <1>7, ChatParts DEF ChatInv, OnceInv
<1> QED BY <1>1, <1>2, <1>3, <1>4, <1>5, <1>6, <1>7, <1>8, <1>9, ChatParts DEF ChatInv, ChatType,
      ListedInv, OwnAnswer, ShownInv, MonitorInv, PressedInv

LEMMA SendAnsweredKeeps ==
    ASSUME ChatInv, NEW kind, SendAnswered(kind)
    PROVE  ChatInv'
<1>1. ChatType /\ UNCHANGED <<srv, past>> /\ net.send.at = "ok" /\ ui.kind = kind
  BY DEF ChatInv, SendAnswered, InChat
<1>2. /\ ui' \in ChatScreen /\ ui'.body = 0 /\ ui'.msgs = ui.msgs
      /\ ui'.list = ui.list /\ ui'.conv = ui.conv /\ ui'.kind = ui.kind
  BY <1>1, ChatParts DEF SendAnswered, ChatScreen
<1>3. /\ net' \in ChatCalls /\ net'.send = NoSend /\ net'.thread = Rereading
      /\ net'.list = IF kind \in Staff THEN "sent" ELSE net.list
      /\ net'.mark = net.mark /\ net'.status = net.status
  BY <1>1, BlankChat, ChatParts DEF SendAnswered, ChatCalls
<1>4. OnceInv'
  BY <1>1, <1>2, <1>3, BlankChat, ChatParts DEF ChatInv, OnceInv
<1> QED BY <1>1, <1>2, <1>3, <1>4, BlankChat, ChatParts DEF ChatInv, ChatType, SeenInv, Seen, ListedInv,
      OwnAnswer, MarkedUnread, ShownInv, MonitorInv, PressedInv

LEMMA PressKeeps ==
    ASSUME ChatInv, NEW kind, kind \in Staff, PressStatus(kind)
    PROVE  ChatInv'
<1> DEFINE call == [at |-> "sent", version |-> Active.version, open |-> ~Active.open,
                    msgs |-> ui.msgs]
<1>1. /\ ChatType /\ UNCHANGED <<ui, srv>> /\ ui.kind = kind /\ net.status.at = "idle"
      /\ Active.version # 0 /\ net' = [net EXCEPT !.status = call]
  BY DEF ChatInv, PressStatus, InChat
<1>2. Active \in {ui.conv, ui.list} /\ (ui.conv.version # 0 => Active = ui.conv)
      /\ (ui.conv.version = 0 => Active = ui.list)
  BY DEF Active
<1>3. call \in StatusCall /\ call.at = "sent" /\ call.version = Active.version
      /\ call.msgs = ui.msgs
  BY <1>1, <1>2, ChatParts DEF StatusCall, Conversations
<1> HIDE DEF call
<1>4. /\ net' \in ChatCalls /\ net'.status = call /\ net'.list = net.list
      /\ net'.mark = net.mark /\ net'.thread = net.thread /\ net'.send = net.send
  BY <1>1, <1>3, ChatParts, StatusReplaced
<1>5. /\ past' \in ChatPast /\ past'.stale = past.stale
      /\ past'.clean = (ChatQuiet /\ past.stale = {})
      /\ past'.stored = past.stored /\ past'.typed = past.typed
      /\ past'.twice = past.twice /\ past'.unseen = past.unseen
  BY <1>1, ChatParts DEF PressStatus, ChatPast, ChatQuiet
<1>6. SeenInv'
  BY <1>1, <1>2, <1>3, <1>4, ChatParts DEF ChatInv, SeenInv, Seen
<1>7. PressedInv'
  <2> SUFFICES ASSUME ui.kind = "admin", ChatQuiet, past.stale = {}
               PROVE  /\ Active.version = srv.conv.version /\ ui.list.unread = srv.conv.unread
                      /\ net.mark = {} /\ net.send.at = "idle"
    BY <1>1, <1>3, <1>4, <1>5 DEF PressedInv
  <2>1. net.list = "idle" /\ net.thread.at = "idle" /\ net.send.at = "idle" /\ net.mark = {}
    BY DEF ChatQuiet
  <2>2. ui.list = srv.conv
    BY <1>1, <2>1 DEF ChatInv, ListedInv, OwnAnswer, MarkedUnread
  <2>3. ui.conv.version \in {0, srv.conv.version}
    BY <1>1, <2>1 DEF ChatInv, MonitorInv, OwnAnswer, MarkedUnread
  <2> QED BY <1>2, <2>1, <2>2, <2>3
<1> QED BY <1>1, <1>3, <1>4, <1>5, <1>6, <1>7, ChatParts DEF ChatInv, ChatType, OnceInv, ListedInv,
      OwnAnswer, MarkedUnread, ShownInv, MonitorInv

LEMMA ServeStatusKeeps ==
    ASSUME ChatInv, ServeStatus
    PROVE  ChatInv'
<1>1. ChatType /\ ui' = ui /\ net.status.at = "sent"
  BY DEF ChatInv, ServeStatus
<1>2. CASE StatusCurrent
  <2> DEFINE conv == [srv.conv EXCEPT !.version = @ + 1, !.open = net.status.open]
             call == [net.status EXCEPT !.at = "ok"]
             unseen == past.unseen \/ net.status.msgs \notin {0, srv.msgs}
  <2>1. /\ srv' = [srv EXCEPT !.conv.version = @ + 1, !.conv.open = net.status.open]
        /\ net' = [net EXCEPT !.status = call] /\ past' = [past EXCEPT !.unseen = unseen]
    BY <1>2 DEF ServeStatus
  <2>2. srv' = [srv EXCEPT !.conv = conv]
    BY <1>1, <2>1, ChatParts DEF ChatRows
  <2>3. conv \in Conversations /\ conv.version = srv.conv.version + 1
    BY <1>1, ChatParts, Raised
  <2>4. call \in StatusCall /\ call.at = "ok"
    BY <1>1, ChatParts DEF StatusCall
  <2>5. unseen = FALSE
    BY <1>1, <1>2 DEF ChatInv, SeenInv, Seen, StatusCurrent
  <2> HIDE DEF conv, call, unseen
  <2>6. srv' \in ChatRows /\ srv'.conv = conv
    BY <1>1, <2>2, <2>3, ChatParts DEF ChatRows
  <2>7. /\ net' \in ChatCalls /\ net'.status = call /\ net'.list = net.list
        /\ net'.mark = net.mark /\ net'.thread = net.thread /\ net'.send = net.send
    BY <1>1, <2>1, <2>4, ChatParts, StatusReplaced
  <2>8. /\ past' \in ChatPast /\ past'.stale = past.stale /\ past'.clean = past.clean
        /\ past'.stored = past.stored /\ past'.typed = past.typed
        /\ past'.twice = past.twice /\ ~past'.unseen
    BY <1>1, <2>1, <2>5, ChatParts DEF ChatPast
  <2>9. SeenInv'
    BY <1>1, <2>3, <2>4, <2>6, <2>7, ChatParts DEF ChatInv, SeenInv, Seen
  <2> QED BY <1>1, <2>3, <2>4, <2>6, <2>7, <2>8, <2>9, ChatParts DEF ChatInv, ChatType, OnceInv,
        ListedInv, OwnAnswer, ShownInv, MonitorInv, PressedInv
<1>3. CASE ~StatusCurrent
  <2> DEFINE call == [net.status EXCEPT !.at = "conflict"]
  <2>1. UNCHANGED <<srv, past>> /\ net' = [net EXCEPT !.status = call]
    BY <1>3 DEF ServeStatus
  <2>2. call \in StatusCall /\ call.at = "conflict"
    BY <1>1, ChatParts DEF StatusCall
  <2> HIDE DEF call
  <2>3. /\ net' \in ChatCalls /\ net'.status = call /\ net'.list = net.list
        /\ net'.mark = net.mark /\ net'.thread = net.thread /\ net'.send = net.send
    BY <1>1, <2>1, <2>2, ChatParts, StatusReplaced
  <2>4. ~(ui.kind = "admin" /\ past.clean)
    BY <1>1, <1>3 DEF ChatInv, PressedInv, StatusCurrent
  <2> QED BY <1>1, <2>1, <2>2, <2>3, <2>4, ChatParts
     DEF ChatInv, ChatType, SeenInv, Seen, OnceInv, ListedInv, OwnAnswer, MarkedUnread,
     ShownInv, MonitorInv, PressedInv
<1> QED BY <1>2, <1>3

LEMMA StatusAnsweredKeeps ==
    ASSUME ChatInv, NEW kind, StatusAnswered(kind)
    PROVE  ChatInv'
<1>1. ChatType /\ UNCHANGED <<ui, srv, past>>
  BY DEF ChatInv, StatusAnswered
<1>2. /\ net' \in ChatCalls /\ net'.status = NoStatus /\ net'.mark = net.mark
      /\ net'.send = net.send
      /\ \/ net'.list = "sent" /\ net'.thread = Rereading
         \/ net.status.at = "conflict" /\ net'.list = net.list /\ net'.thread = net.thread
  BY <1>1, BlankChat, ChatParts DEF StatusAnswered, ChatCalls
<1> QED BY <1>1, <1>2, BlankChat, ChatParts
   DEF ChatInv, ChatType, SeenInv, Seen, OnceInv, ListedInv, OwnAnswer, MarkedUnread,
   ShownInv, MonitorInv, PressedInv

LEMMA LoseChatKeeps ==
    ASSUME ChatInv, LoseChat
    PROVE  ChatInv'
<1>1. ChatType /\ UNCHANGED <<ui, srv>>
  BY DEF ChatInv, LoseChat
<1>2. /\ net' \in ChatCalls /\ net'.list = net.list /\ net'.thread = net.thread
      /\ net'.status \in {net.status, NoStatus} /\ net'.send \in {net.send, NoSend}
  BY <1>1, BlankChat, ChatParts DEF LoseChat, ChatCalls
<1>3. /\ past' \in ChatPast /\ past'.stale = Queries /\ past'.clean = FALSE
      /\ past'.stored = past.stored \ {net.send.text} /\ past'.typed = past.typed
      /\ past'.twice = past.twice /\ past'.unseen = past.unseen
  <2>1. past' = [past EXCEPT !.events = @ + 1, !.stale = Queries, !.clean = FALSE,
                             !.stored = @ \ {net.send.text}]
    BY DEF LoseChat
  <2>2. past.stored \ {net.send.text} \in SUBSET Nat
    BY <1>1, ChatParts
  <2> QED BY <1>1, <2>1, <2>2, ChatParts, Disturbed
<1>4. Queries = {"list", "thread"}
  BY DEF Queries
<1>5. OnceInv'
  BY <1>1, <1>2, <1>3, BlankChat, ChatParts DEF ChatInv, OnceInv
<1> QED BY <1>1, <1>2, <1>3, <1>4, <1>5, BlankChat, ChatParts DEF ChatInv, ChatType, SeenInv, Seen,
      ListedInv, ShownInv, MonitorInv, PressedInv

LEMMA OtherKeeps ==
    ASSUME ChatInv, OtherChats
    PROVE  ChatInv'
<1>1. ChatType /\ UNCHANGED <<ui, net>>
  BY DEF ChatInv, OtherChats
<1>2. /\ past' \in ChatPast /\ past'.stale = Queries /\ past'.clean = FALSE
      /\ past'.stored = past.stored /\ past'.typed = past.typed
      /\ past'.twice = past.twice /\ past'.unseen = past.unseen
  <2>1. past' = [past EXCEPT !.events = @ + 1, !.stale = Queries, !.clean = FALSE,
                             !.stored = past.stored]
    BY <1>1, ChatParts DEF OtherChats, ChatPast
  <2> QED BY <1>1, <2>1, ChatParts, Disturbed
<1>3. Queries = {"list", "thread"}
  BY DEF Queries
<1>4. srv' \in ChatRows /\ srv'.conv.version = srv.conv.version + 1
  <2>1. CASE /\ srv' = [conv |-> [srv.conv EXCEPT !.version = @ + 1, !.unread = @ + 1,
                                          !.open = @ \/ ui.kind \in Staff],
                         msgs |-> srv.msgs + 1]
    <3> DEFINE more == [srv.conv EXCEPT !.unread = @ + 1]
               open == srv.conv.open \/ ui.kind \in Staff
    <3>1. /\ more \in Conversations /\ more.version = srv.conv.version
      BY <1>1, ChatParts DEF Conversations
    <3>2. srv'.conv = [more EXCEPT !.version = @ + 1, !.open = open] /\ srv'.msgs = srv.msgs + 1
      BY <1>1, <2>1, ChatParts DEF Conversations
    <3>3. open \in BOOLEAN
      BY <1>1, ChatParts
    <3> HIDE DEF more, open
    <3>4. srv'.conv \in Conversations /\ srv'.conv.version = srv.conv.version + 1
      <4>1. /\ [more EXCEPT !.version = @ + 1, !.open = open] \in Conversations
            /\ [more EXCEPT !.version = @ + 1, !.open = open].version = more.version + 1
        BY <3>1, <3>3, Raised
      <4> QED BY <3>1, <3>2, <4>1
    <3>5. srv' = [conv |-> srv'.conv, msgs |-> srv.msgs + 1]
      BY <2>1
    <3> QED BY <1>1, <3>4, <3>5, ChatParts DEF ChatRows
  <2>2. CASE srv' = [srv EXCEPT !.conv.version = @ + 1, !.msgs = @ + 1]
    <3> DEFINE conv == [srv.conv EXCEPT !.version = @ + 1]
    <3>1. srv' = [srv EXCEPT !.conv = conv, !.msgs = srv.msgs + 1]
      BY <1>1, <2>2, ChatParts DEF ChatRows
    <3>2. conv \in Conversations /\ conv.version = srv.conv.version + 1
      BY <1>1, ChatParts, Raised
    <3>3. srv.msgs + 1 \in Nat
      BY <1>1, ChatParts
    <3> HIDE DEF conv
    <3> QED BY <1>1, <3>1, <3>2, <3>3, ChatParts DEF ChatRows
  <2>3. ASSUME NEW c \in {srv.conv, Quieted(srv.conv)},
               srv' = [srv EXCEPT !.conv = [c EXCEPT !.version = @ + 1]]
        PROVE  srv' \in ChatRows /\ srv'.conv.version = srv.conv.version + 1
    <3> DEFINE conv == [c EXCEPT !.version = @ + 1]
    <3>1. c \in Conversations /\ c.version = srv.conv.version
      BY <1>1, ChatParts DEF Quieted, Conversations
    <3>2. conv \in Conversations /\ conv.version = srv.conv.version + 1
      BY <3>1, Raised
    <3>3. srv' = [srv EXCEPT !.conv = conv]
      BY <2>3
    <3> HIDE DEF conv
    <3> QED BY <1>1, <3>2, <3>3, ChatParts DEF ChatRows
  <2>4. CASE srv' = [srv EXCEPT !.conv.version = @ + 1, !.conv.open = ~@]
    <3> DEFINE conv == [srv.conv EXCEPT !.version = @ + 1, !.open = ~srv.conv.open]
    <3>1. srv' = [srv EXCEPT !.conv = conv]
      BY <1>1, <2>4, ChatParts DEF ChatRows, Conversations
    <3>2. conv \in Conversations /\ conv.version = srv.conv.version + 1
      <4>1. (~srv.conv.open) \in BOOLEAN
        BY <1>1, ChatParts
      <4> QED BY <1>1, <4>1, ChatParts, Raised
    <3> HIDE DEF conv
    <3> QED BY <1>1, <3>1, <3>2, ChatParts DEF ChatRows
  <2> QED BY <2>1, <2>2, <2>3, <2>4 DEF OtherChats
<1>5. SeenInv'
  BY <1>1, <1>2, <1>4, SeenOn DEF ChatInv, ChatType
<1> QED BY <1>1, <1>2, <1>3, <1>4, <1>5, ChatParts DEF ChatInv, ChatType, OnceInv, ListedInv,
      ShownInv, MonitorInv, PressedInv

-----------------------------------------------------------------------------
(* The theorems                                                            *)

LEMMA ChatInitially ==
    ASSUME InitChat
    PROVE  ChatInv
<1>1. PICK kind \in Staff \union Pupils, unread \in {0, 1} :
        /\ ui = [screen |-> "chat", kind |-> kind, list |-> NoConversation,
                 conv |-> NoConversation, msgs |-> 0, body |-> 0]
        /\ net = [list |-> IF kind \in Staff THEN "sent" ELSE "idle",
                  thread |-> IF kind \in Staff THEN NoThread ELSE [NoThread EXCEPT !.at = "sent"],
                  mark |-> {}, send |-> NoSend, status |-> NoStatus]
        /\ srv = [conv |-> Conversation(1, unread, kind \in Staff), msgs |-> 1]
        /\ past = [events |-> 0, typed |-> 0, stored |-> {}, stale |-> {}, clean |-> FALSE,
                   twice |-> FALSE, unseen |-> FALSE]
  BY DEF InitChat
<1>2. /\ srv \in ChatRows /\ srv.conv.version = 1
  BY <1>1 DEF ChatRows, Conversation, Conversations
<1>3. ui \in ChatScreen
  BY <1>1, BlankChat DEF ChatScreen
<1>4. /\ net \in ChatCalls /\ net.thread.at \in {"idle", "sent"}
      /\ kind \in Staff => net.list = "sent"
  BY <1>1, BlankChat DEF ChatCalls, Rereading
<1>5. past \in ChatPast
  BY <1>1 DEF ChatPast
<1> QED BY <1>1, <1>2, <1>3, <1>4, <1>5, BlankChat
   DEF ChatInv, ChatType, SeenInv, Seen, OnceInv, ListedInv, OwnAnswer, MarkedUnread,
   ShownInv, MonitorInv, PressedInv

LEMMA ChatNext ==
    ASSUME ChatInv, [NextChat]_browser
    PROVE  ChatInv'
<1>1. CASE UNCHANGED browser
  BY <1>1 DEF browser, ChatInv, ChatType, SeenInv, Seen, OnceInv, ListedInv, OwnAnswer,
     MarkedUnread, ShownInv, MonitorInv, PressedInv
<1>2. ASSUME NEW kind \in Staff \union Pupils, KindStep(kind)
      PROVE  ChatInv'
  BY <1>2, ReadChatsKeeps, ChatsArriveKeeps, ReadThreadKeeps, ThreadArrivesKeeps,
     MarkAnsweredKeeps, TypeKeeps, SendKeeps, SendAnsweredKeeps, PressKeeps,
     StatusAnsweredKeeps DEF KindStep
<1>3. CASE \/ ServeConversation \/ ServeMessages \/ LoseRead \/ ServeMark
           \/ ServeSend \/ ServeStatus \/ LoseChat \/ OtherChats
  BY <1>3, ServeConversationKeeps, ServeMessagesKeeps, LoseReadKeeps, ServeMarkKeeps,
     ServeSendKeeps, ServeStatusKeeps, LoseChatKeeps, OtherKeeps
<1> QED BY <1>1, <1>2, <1>3, StepsOfScreens DEF ChatStep

\* Screen, calls and conversation keep to the code's types, every version on screen or in a
\* call vouches for the messages it was seen with, and the queries show what is stored or are
\* about to, in every state of every screen.
THEOREM ChatInvariant == SpecChat => []ChatInv
<1>1. InitChat => ChatInv
  BY ChatInitially
<1>2. ChatInv /\ [NextChat]_browser => ChatInv'
  BY ChatNext
<1> QED BY <1>1, <1>2, PTL DEF SpecChat

\* Nobody closes or opens a conversation over messages other than those on their screen.
THEOREM SeenIsClosed == SpecChat => []ClosedKnowing
<1>1. ChatInv => ClosedKnowing
  BY DEF ChatInv, ClosedKnowing
<1> QED BY <1>1, ChatInvariant, PTL

\* A draft is stored once, a screen with every answer in shows the stored conversation, and
\* the monitor's own marks do not make it refuse.
THEOREM ScreensInStep == SpecChat => []ChatInStep
<1>1. ChatInv => SentOnce
  BY DEF ChatInv, SentOnce
<1>2. ChatInv => ChatCatchesUp
  BY DEF ChatInv, ChatCatchesUp, ShownInv, OwnAnswer, ChatQuiet
<1>3. ChatInv => MonitorCloses
  BY DEF ChatInv, MonitorCloses, PressedInv
<1>4. ChatInv => ChatInStep
  BY <1>1, <1>2, <1>3 DEF ChatInStep
<1> QED BY <1>4, ChatInvariant, PTL

(***************************************************************************)
(* LatihanPlayer                                                           *)
(***************************************************************************)

LEMMA LatihanMarks ==
    /\ MaxTry \in Nat /\ 0 \in 0..MaxTry /\ Blank \in [Butir -> Verdicts]
    /\ \A q \in Butir : Blank[q] = "none"
    /\ Quiet \in LatihanCall /\ Quiet.at = "idle"
    /\ NoItems \in LatihanItemsCall /\ NoItems.at = "idle"
    /\ NoAnswer \in LatihanAnswerCall /\ NoAnswer.at = "idle"
<1>1. MaxTry \in Nat /\ 0 \in 0..MaxTry /\ Butir # {}
  BY LatihanAssumption
<1>2. (CHOOSE q \in Butir : TRUE) \in Butir
  BY <1>1
<1> QED BY <1>1, <1>2 DEF Blank, Quiet, NoItems, NoAnswer, LatihanCall, LatihanItemsCall,
      LatihanAnswerCall, Verdicts, Options

LEMMA LatihanParts ==
    ASSUME LatihanType
    PROVE  /\ ui.screen = "latihan" /\ ui.hasil \in 0..MaxTry /\ ui.summary \in BOOLEAN
           /\ ui.view \in {"pending", "items", "error"} /\ ui.finishing \in BOOLEAN
           /\ ui.items \in [Butir -> Verdicts] /\ ui.verdict \in [Butir -> Verdicts]
           /\ net.start \in LatihanCall /\ net.read \in LatihanItemsCall
           /\ net.answer \in LatihanAnswerCall /\ net.finish \in LatihanCall
           /\ srv.tries \in 0..MaxTry /\ srv.running \in BOOLEAN
           /\ srv.saved \in [Butir -> Verdicts]
           /\ past.events \in Nat /\ past.mixed \subseteq Butir
BY DEF LatihanType, LatihanScreen, LatihanCalls, LatihanRows, LatihanPast

LEMMA SpendTyped ==
    ASSUME past \in LatihanPast, Spend
    PROVE  past' \in LatihanPast /\ past'.mixed = past.mixed
<1>1. past.events + 1 \in Nat
  BY DEF LatihanPast
<1> QED BY <1>1 DEF Spend, LatihanPast

LEMMA StartKeeps ==
    ASSUME LatihanInv, LatihanStart \/ LatihanRestart
    PROVE  LatihanInv'
<1>1. /\ LatihanType /\ UNCHANGED <<ui, srv, past>> /\ ui.hasil = 0
      /\ net' = [net EXCEPT !.start.at = "sent"]
  BY DEF LatihanInv, AttemptInv, LatihanStart, LatihanRestart
<1>2. /\ net' \in LatihanCalls /\ net'.start.at = "sent"
      /\ net'.read = net.read /\ net'.answer = net.answer /\ net'.finish = net.finish
  BY <1>1 DEF LatihanType, LatihanCalls, LatihanCall
<1> QED BY <1>1, <1>2 DEF LatihanInv, LatihanType, AttemptInv, CallsInv, LateInv, VerdictInv,
      Practising, InLatihan

LEMMA ServeStartKeeps ==
    ASSUME LatihanInv, ServeLatihanStart
    PROVE  LatihanInv'
<1>1. /\ LatihanType /\ UNCHANGED <<ui, past>> /\ net.start.at = "sent" /\ ui.hasil = 0
      /\ net' = [net EXCEPT !.start = [at |-> "ok", hasil |-> srv'.tries]]
  BY DEF LatihanInv, CallsInv, ServeLatihanStart
<1>2. /\ srv' \in LatihanRows /\ srv'.running
      /\ \/ srv' = srv
         \/ ~srv.running /\ srv'.tries = srv.tries + 1
  <2>1. CASE srv.running /\ UNCHANGED srv
    BY <1>1, <2>1 DEF LatihanType
  <2>2. CASE /\ ~srv.running /\ srv.tries < MaxTry
             /\ srv' = [tries |-> srv.tries + 1, running |-> TRUE, saved |-> Blank]
    <3>1. srv.tries + 1 \in 0..MaxTry
      BY <1>1, <2>2, LatihanParts, LatihanMarks
    <3> QED BY <2>2, <3>1, LatihanMarks DEF LatihanRows
  <2> QED BY <2>1, <2>2 DEF ServeLatihanStart
<1>3. /\ net' \in LatihanCalls /\ net'.start.at = "ok" /\ net'.start.hasil = srv'.tries
      /\ net'.read = net.read /\ net'.answer = net.answer /\ net'.finish = net.finish
  <2>1. [at |-> "ok", hasil |-> srv'.tries] \in LatihanCall
    BY <1>2 DEF LatihanRows, LatihanCall
  <2> QED BY <1>1, <2>1 DEF LatihanType, LatihanCalls
<1>4. net.finish.at = "idle" /\ net.read.at = "idle"
  BY <1>1 DEF LatihanInv, CallsInv, Practising
<1>5. LateInv'
  <2> SUFFICES ASSUME net.answer.at # "idle"
               PROVE  /\ net.answer.hasil \in 1..srv'.tries
                      /\ ui.hasil # net.answer.hasil
                      /\ net.answer.hasil # srv'.tries
    BY <1>1, <1>3 DEF LateInv
  <2>1. /\ net.answer.hasil \in 1..srv.tries
        /\ ui.hasil # net.answer.hasil => ~srv.running \/ net.answer.hasil # srv.tries
    BY DEF LatihanInv, LateInv
  <2>2. srv.tries \in Nat
    BY <1>1, LatihanParts
  <2> QED BY <1>1, <1>2, <2>1, <2>2
<1> QED BY <1>1, <1>2, <1>3, <1>4, <1>5 DEF LatihanInv, LatihanType, AttemptInv, CallsInv,
      VerdictInv, Practising, InLatihan

LEMMA StartedKeeps ==
    ASSUME LatihanInv, LatihanStarted
    PROVE  LatihanInv'
<1>1. /\ LatihanType /\ UNCHANGED <<srv, past>> /\ ui.hasil = 0 /\ srv.running
      /\ net.start.hasil = srv.tries
      /\ ui' = [ui EXCEPT !.hasil = net.start.hasil, !.summary = FALSE,
                          !.view = "pending", !.items = Blank]
      /\ net' = [net EXCEPT !.start = Quiet]
  BY DEF LatihanInv, CallsInv, LatihanStarted
<1>2. /\ ui' \in LatihanScreen /\ ui'.hasil = srv.tries /\ ~ui'.summary /\ ui'.view = "pending"
      /\ ui'.verdict = ui.verdict
  BY <1>1, LatihanParts, LatihanMarks DEF LatihanType, LatihanScreen, LatihanCall
<1>3. /\ net' \in LatihanCalls /\ net'.start.at = "idle"
      /\ net'.read = net.read /\ net'.answer = net.answer /\ net'.finish = net.finish
  BY <1>1, LatihanMarks DEF LatihanType, LatihanCalls
<1>4. ~Practising /\ net.read.at = "idle" /\ net.finish.at = "idle"
  BY <1>1 DEF LatihanInv, CallsInv, Practising
<1>5. LateInv'
  BY <1>1, <1>2, <1>3 DEF LatihanInv, LateInv
<1> QED BY <1>1, <1>2, <1>3, <1>4, <1>5 DEF LatihanInv, LatihanType, AttemptInv, CallsInv,
      VerdictInv

LEMMA ReadItemsKeeps ==
    ASSUME LatihanInv, LatihanRead
    PROVE  LatihanInv'
<1>1. /\ LatihanType /\ srv' = srv /\ ui.hasil # 0 /\ ~ui.summary /\ ~Practising
      /\ ui' = [ui EXCEPT !.view = "pending"]
      /\ net' = [net EXCEPT !.read = [NoItems EXCEPT !.at = "sent", !.hasil = ui.hasil]]
      /\ ui.view \in {"pending", "error"}
  BY DEF LatihanInv, LatihanRead, Practising
<1>2. past' \in LatihanPast /\ past'.mixed = past.mixed
  BY <1>1, SpendTyped DEF LatihanRead, LatihanType
<1>3. /\ ui' \in LatihanScreen /\ ui'.hasil = ui.hasil /\ ui'.summary = ui.summary
      /\ ui'.view = "pending" /\ ui'.verdict = ui.verdict /\ ui'.items = ui.items
  BY <1>1 DEF LatihanType, LatihanScreen
<1>4. /\ net' \in LatihanCalls /\ net'.start = net.start /\ net'.read.hasil = ui.hasil
      /\ net'.answer = net.answer /\ net'.finish = net.finish
  <2>1. [NoItems EXCEPT !.at = "sent", !.hasil = ui.hasil] \in LatihanItemsCall
    BY <1>1, LatihanParts, LatihanMarks DEF LatihanItemsCall
  <2>2. [NoItems EXCEPT !.at = "sent", !.hasil = ui.hasil].hasil = ui.hasil
    BY LatihanMarks DEF LatihanItemsCall
  <2> QED BY <1>1, <2>1, <2>2 DEF LatihanType, LatihanCalls
<1>5. LateInv'
  BY <1>1, <1>3, <1>4 DEF LatihanInv, LateInv
<1> QED BY <1>1, <1>2, <1>3, <1>4, <1>5 DEF LatihanInv, LatihanType, AttemptInv, CallsInv,
      VerdictInv

LEMMA ServeItemsKeeps ==
    ASSUME LatihanInv, ServeLatihanItems
    PROVE  LatihanInv'
<1> DEFINE read == IF srv.running /\ net.read.hasil = srv.tries
                   THEN [net.read EXCEPT !.at = "ok", !.data = srv.saved]
                   ELSE [net.read EXCEPT !.at = "no"]
<1>1. LatihanType /\ UNCHANGED <<ui, srv, past>> /\ net.read.at = "sent"
  BY DEF LatihanInv, ServeLatihanItems
<1>2. read \in LatihanItemsCall /\ read.at # "idle" /\ read.hasil = net.read.hasil
  BY <1>1, LatihanParts DEF LatihanItemsCall
<1>3. net' = [net EXCEPT !.read = read]
  BY <1>1 DEF ServeLatihanItems, LatihanType, LatihanCalls
<1> HIDE DEF read
<1>4. /\ net' \in LatihanCalls /\ net'.start = net.start /\ net'.read = read
      /\ net'.answer = net.answer /\ net'.finish = net.finish
  BY <1>1, <1>2, <1>3 DEF LatihanType, LatihanCalls
<1> QED BY <1>1, <1>2, <1>4 DEF LatihanInv, LatihanType, AttemptInv, CallsInv, LateInv, VerdictInv,
      Practising, InLatihan

\* The questions that arrive find no verdict but those of late answers.
LEMMA ItemsKeep ==
    ASSUME LatihanInv, LatihanItems
    PROVE  LatihanInv'
<1> DEFINE verdict == [q \in Butir |-> IF ui.verdict[q] = "none" THEN net.read.data[q]
                                       ELSE ui.verdict[q]]
<1>1. /\ LatihanType /\ UNCHANGED <<srv, past>> /\ ~Practising
      /\ ui.hasil # 0 /\ ~ui.summary /\ ui.view = "pending" /\ net.read.hasil = ui.hasil
      /\ net' = [net EXCEPT !.read = NoItems]
  BY DEF LatihanInv, CallsInv, LatihanItems, Practising
<1>2. verdict \in [Butir -> Verdicts]
  BY <1>1, LatihanParts DEF LatihanItemsCall
<1>3. ui' = [ui EXCEPT !.view = "items", !.items = net.read.data, !.verdict = verdict]
  BY <1>1, LatihanParts DEF LatihanItems, LatihanType, LatihanScreen
<1>4. \A q \in Butir \ past.mixed : verdict[q] = net.read.data[q]
  BY <1>1 DEF LatihanInv, VerdictInv
<1> HIDE DEF verdict
<1>5. /\ ui' \in LatihanScreen /\ ui'.hasil = ui.hasil /\ ~ui'.summary /\ ui'.view = "items"
      /\ ui'.verdict = verdict /\ ui'.items = net.read.data /\ ui'.screen = ui.screen
  BY <1>1, <1>2, <1>3, LatihanParts DEF LatihanType, LatihanScreen, LatihanItemsCall
<1>6. Practising'
  BY <1>1, <1>5, LatihanParts DEF Practising, InLatihan
<1>7. /\ net' \in LatihanCalls /\ net'.start = net.start /\ net'.read.at = "idle"
      /\ net'.answer = net.answer /\ net'.finish = net.finish
  BY <1>1, LatihanMarks DEF LatihanType, LatihanCalls
<1>8. VerdictInv'
  BY <1>1, <1>4, <1>5, <1>6 DEF VerdictInv
<1>9. LateInv'
  BY <1>1, <1>5, <1>6, <1>7 DEF LatihanInv, LateInv
<1> QED BY <1>1, <1>5, <1>6, <1>7, <1>8, <1>9 DEF LatihanInv, LatihanType, AttemptInv, CallsInv

LEMMA ItemsFailKeeps ==
    ASSUME LatihanInv, LatihanItemsFail
    PROVE  LatihanInv'
<1>1. /\ LatihanType /\ srv' = srv /\ ~Practising
      /\ ui.hasil # 0 /\ ~ui.summary /\ ui.view = "pending"
      /\ ui' = [ui EXCEPT !.view = "error"] /\ net' = [net EXCEPT !.read = NoItems]
  BY DEF LatihanInv, CallsInv, LatihanItemsFail, Practising
<1>2. past' \in LatihanPast /\ past'.mixed = past.mixed
  BY <1>1, SpendTyped DEF LatihanItemsFail, LatihanType
<1>3. /\ ui' \in LatihanScreen /\ ui'.hasil = ui.hasil /\ ~ui'.summary
      /\ ui'.view = "error" /\ ui'.verdict = ui.verdict /\ ui'.items = ui.items
  BY <1>1 DEF LatihanType, LatihanScreen
<1>4. /\ net' \in LatihanCalls /\ net'.start = net.start /\ net'.read.at = "idle"
      /\ net'.answer = net.answer /\ net'.finish = net.finish
  BY <1>1, LatihanMarks DEF LatihanType, LatihanCalls
<1>5. LateInv'
  BY <1>1, <1>3, <1>4 DEF LatihanInv, LateInv
<1> QED BY <1>1, <1>2, <1>3, <1>4, <1>5 DEF LatihanInv, LatihanType, AttemptInv, CallsInv,
      VerdictInv

LEMMA ResetKeeps ==
    ASSUME LatihanInv, LatihanReset
    PROVE  LatihanInv'
<1>1. /\ LatihanType /\ UNCHANGED <<net, srv, past>> /\ ~Practising
      /\ ui.hasil # 0 /\ ~ui.summary /\ ui.view = "error"
      /\ ui' = [ui EXCEPT !.hasil = 0, !.view = "pending"]
      /\ net.read.at = "idle"
  BY DEF LatihanInv, CallsInv, LatihanReset, Practising
<1>2. /\ ui' \in LatihanScreen /\ ui'.hasil = 0 /\ ~ui'.summary
      /\ ui'.verdict = ui.verdict /\ ui'.items = ui.items
  BY <1>1, LatihanMarks DEF LatihanType, LatihanScreen
<1>3. LateInv'
  BY <1>1, <1>2 DEF LatihanInv, LateInv
<1> QED BY <1>1, <1>2, <1>3 DEF LatihanInv, LatihanType, AttemptInv, CallsInv, VerdictInv

LEMMA LatihanChoiceKeeps ==
    ASSUME LatihanInv, NEW q \in Butir, NEW v \in Options, LatihanAnswer(q, v)
    PROVE  LatihanInv'
<1> DEFINE items == [ui.items EXCEPT ![q] = v]
           verdict == [ui.verdict EXCEPT ![q] = "none"]
           answer == [at |-> "sent", hasil |-> ui.hasil, soal |-> q, jawaban |-> v]
<1>1. /\ LatihanType /\ UNCHANGED <<srv, past>> /\ Practising
      /\ net' = [net EXCEPT !.answer = answer]
  BY DEF LatihanInv, LatihanAnswer
<1>2. /\ items \in [Butir -> Verdicts] /\ verdict \in [Butir -> Verdicts] /\ items[q] = v
      /\ \A p \in Butir : p # q => items[p] = ui.items[p] /\ verdict[p] = ui.verdict[p]
      /\ verdict[q] = "none"
  BY <1>1, LatihanParts DEF Verdicts, Options
<1>3. ui' = [ui EXCEPT !.items = items, !.verdict = verdict]
  BY <1>1 DEF LatihanAnswer, LatihanType, LatihanScreen
<1>4. /\ answer \in LatihanAnswerCall /\ answer.hasil = ui.hasil /\ answer.soal = q
      /\ answer.jawaban = v
  BY <1>1, LatihanParts DEF LatihanAnswerCall
<1> HIDE DEF items, verdict, answer
<1>5. /\ ui' \in LatihanScreen /\ ui'.hasil = ui.hasil /\ ui'.summary = ui.summary
      /\ ui'.view = ui.view /\ ui'.screen = ui.screen /\ ui'.items = items /\ ui'.verdict = verdict
  BY <1>1, <1>2, <1>3 DEF LatihanType, LatihanScreen
<1>6. /\ net' \in LatihanCalls /\ net'.start = net.start /\ net'.read = net.read
      /\ net'.answer = answer /\ net'.finish = net.finish
  BY <1>1, <1>4 DEF LatihanType, LatihanCalls
<1>7. Practising'
  BY <1>1, <1>5 DEF Practising, InLatihan
<1>8. LateInv'
  <2>1. ui.hasil # 0 /\ ui.hasil = srv.tries /\ srv.tries \in Nat
    BY <1>1, LatihanParts DEF LatihanInv, AttemptInv, Practising
  <2> QED BY <1>1, <1>2, <1>4, <1>5, <1>6, <1>7, <2>1 DEF LateInv
<1>9. VerdictInv'
  BY <1>1, <1>2, <1>5, <1>7 DEF LatihanInv, VerdictInv
<1> QED BY <1>1, <1>5, <1>6, <1>7, <1>8, <1>9 DEF LatihanInv, LatihanType, AttemptInv, CallsInv

LEMMA ServeAnswerKeeps ==
    ASSUME LatihanInv, ServeLatihanAnswer
    PROVE  LatihanInv'
<1> DEFINE saved == [srv.saved EXCEPT ![net.answer.soal] = net.answer.jawaban]
           answer(at) == [net.answer EXCEPT !.at = at]
<1>1. LatihanType /\ UNCHANGED <<ui, past>> /\ net.answer.at = "sent"
  BY DEF LatihanInv, ServeLatihanAnswer
<1>2. saved \in [Butir -> Verdicts]
  BY <1>1, LatihanParts DEF Verdicts, Options, LatihanAnswerCall
<1>3. srv' = srv \/ srv' = [srv EXCEPT !.saved = saved]
  BY <1>1 DEF ServeLatihanAnswer, LatihanType, LatihanRows
<1>4. PICK at \in {"ok", "no"} : net' = [net EXCEPT !.answer = answer(at)]
  BY <1>1 DEF ServeLatihanAnswer, LatihanType, LatihanCalls
<1>5. /\ answer(at) \in LatihanAnswerCall /\ answer(at).hasil = net.answer.hasil
      /\ answer(at).soal = net.answer.soal /\ answer(at).jawaban = net.answer.jawaban
  BY <1>1, LatihanParts DEF LatihanAnswerCall
<1> HIDE DEF saved, answer
<1>6. srv' \in LatihanRows /\ srv'.tries = srv.tries /\ srv'.running = srv.running
  BY <1>1, <1>2, <1>3 DEF LatihanType, LatihanRows
<1>7. /\ net' \in LatihanCalls /\ net'.start = net.start /\ net'.read = net.read
      /\ net'.answer = answer(at) /\ net'.finish = net.finish
  BY <1>1, <1>4, <1>5 DEF LatihanType, LatihanCalls
<1>8. LateInv'
  BY <1>1, <1>5, <1>6, <1>7 DEF LatihanInv, LateInv, Practising, InLatihan
<1> QED BY <1>1, <1>6, <1>7, <1>8 DEF LatihanInv, LatihanType, AttemptInv, CallsInv, VerdictInv,
      Practising, InLatihan

\* The answer of the attempt on the screen judges what is chosen there.
LEMMA JudgedKeeps ==
    ASSUME LatihanInv, LatihanJudged
    PROVE  LatihanInv'
<1> DEFINE r == net.answer
           verdict == [ui.verdict EXCEPT ![r.soal] = r.jawaban]
<1>1. /\ LatihanType /\ srv' = srv /\ r.at = "ok" /\ r \in LatihanAnswerCall
      /\ net' = [net EXCEPT !.answer = NoAnswer]
  BY LatihanParts DEF LatihanInv, LatihanJudged
<1>2. /\ verdict \in [Butir -> Verdicts] /\ verdict[r.soal] = r.jawaban
      /\ \A q \in Butir : q # r.soal => verdict[q] = ui.verdict[q]
  BY <1>1, LatihanParts DEF Verdicts, Options, LatihanAnswerCall
<1>3. ui' = [ui EXCEPT !.verdict = verdict]
  BY <1>1 DEF LatihanJudged, LatihanType, LatihanScreen
<1> HIDE DEF verdict
<1>4. /\ ui' \in LatihanScreen /\ ui'.hasil = ui.hasil /\ ui'.summary = ui.summary
      /\ ui'.view = ui.view /\ ui'.screen = ui.screen /\ ui'.items = ui.items
      /\ ui'.verdict = verdict
  BY <1>1, <1>2, <1>3 DEF LatihanType, LatihanScreen
<1>5. /\ net' \in LatihanCalls /\ net'.start = net.start /\ net'.read = net.read
      /\ net'.answer.at = "idle" /\ net'.finish = net.finish
  BY <1>1, LatihanMarks DEF LatihanType, LatihanCalls
<1>6. /\ past' \in LatihanPast /\ past.mixed \subseteq past'.mixed
      /\ ui.hasil # r.hasil => r.soal \in past'.mixed
  <2>1. past.mixed \union {r.soal} \in SUBSET Butir
    BY <1>1, LatihanParts DEF LatihanAnswerCall
  <2> QED BY <1>1, <2>1 DEF LatihanJudged, LatihanType, LatihanPast
<1>7. Practising' <=> Practising
  BY <1>4 DEF Practising, InLatihan
<1>8. VerdictInv'
  <2> SUFFICES ASSUME NEW q \in Butir \ past'.mixed, verdict[q] # "none"
               PROVE  Practising /\ verdict[q] = ui.items[q]
    BY <1>4, <1>7 DEF VerdictInv
  <2>1. CASE q = r.soal
    BY <1>1, <1>2, <1>6, <2>1 DEF LatihanInv, LateInv
  <2>2. CASE q # r.soal
    BY <1>2, <1>6, <2>2 DEF LatihanInv, VerdictInv
  <2> QED BY <2>1, <2>2
<1> QED BY <1>1, <1>4, <1>5, <1>6, <1>7, <1>8 DEF LatihanInv, LatihanType, AttemptInv, CallsInv,
      LateInv

LEMMA AnswerFailsKeeps ==
    ASSUME LatihanInv, LatihanAnswerFails
    PROVE  LatihanInv'
<1>1. LatihanType /\ UNCHANGED <<ui, srv>> /\ net' = [net EXCEPT !.answer = NoAnswer]
  BY DEF LatihanInv, LatihanAnswerFails
<1>2. past' \in LatihanPast /\ past'.mixed = past.mixed
  BY <1>1, SpendTyped DEF LatihanAnswerFails, LatihanType
<1>3. /\ net' \in LatihanCalls /\ net'.start = net.start /\ net'.read = net.read
      /\ net'.answer.at = "idle" /\ net'.finish = net.finish
  BY <1>1, LatihanMarks DEF LatihanType, LatihanCalls
<1> QED BY <1>1, <1>2, <1>3 DEF LatihanInv, LatihanType, AttemptInv, CallsInv, LateInv, VerdictInv,
      Practising, InLatihan

LEMMA ConfirmKeeps ==
    ASSUME LatihanInv, LatihanConfirm
    PROVE  LatihanInv'
<1>1. LatihanType /\ UNCHANGED <<net, srv, past>> /\ ui' = [ui EXCEPT !.confirm = TRUE]
  BY DEF LatihanInv, LatihanConfirm
<1>2. /\ ui' \in LatihanScreen /\ ui'.hasil = ui.hasil /\ ui'.summary = ui.summary
      /\ ui'.view = ui.view /\ ui'.screen = ui.screen /\ ui'.items = ui.items
      /\ ui'.verdict = ui.verdict
  BY <1>1 DEF LatihanType, LatihanScreen
<1> QED BY <1>1, <1>2 DEF LatihanInv, LatihanType, AttemptInv, CallsInv, LateInv, VerdictInv,
      Practising, InLatihan

LEMMA FinishKeeps ==
    ASSUME LatihanInv, LatihanFinish
    PROVE  LatihanInv'
<1>1. /\ LatihanType /\ UNCHANGED <<srv, past>> /\ Practising
      /\ ui' = [ui EXCEPT !.finishing = TRUE]
      /\ net' = [net EXCEPT !.finish = [at |-> "sent", hasil |-> ui.hasil]]
  BY DEF LatihanInv, LatihanFinish
<1>2. /\ ui' \in LatihanScreen /\ ui'.hasil = ui.hasil /\ ui'.summary = ui.summary
      /\ ui'.view = ui.view /\ ui'.screen = ui.screen /\ ui'.items = ui.items
      /\ ui'.verdict = ui.verdict
  BY <1>1 DEF LatihanType, LatihanScreen
<1>3. /\ net' \in LatihanCalls /\ net'.start = net.start /\ net'.read = net.read
      /\ net'.answer = net.answer /\ net'.finish.at = "sent" /\ net'.finish.hasil = ui.hasil
  BY <1>1, LatihanParts DEF LatihanType, LatihanCalls, LatihanCall
<1> QED BY <1>1, <1>2, <1>3 DEF LatihanInv, LatihanType, AttemptInv, CallsInv, LateInv, VerdictInv,
      Practising, InLatihan

LEMMA ServeFinishKeeps ==
    ASSUME LatihanInv, ServeLatihanFinish
    PROVE  LatihanInv'
<1>1. /\ LatihanType /\ UNCHANGED <<ui, past>> /\ Practising /\ net.finish.hasil = ui.hasil
      /\ ui.hasil = srv.tries /\ net' = [net EXCEPT !.finish.at = "ok"] /\ net.start.at = "idle"
  BY DEF LatihanInv, CallsInv, AttemptInv, ServeLatihanFinish, Practising
<1>2. srv' \in LatihanRows /\ ~srv'.running /\ srv'.tries = srv.tries
  BY <1>1 DEF ServeLatihanFinish, LatihanType, LatihanRows
<1>3. /\ net' \in LatihanCalls /\ net'.start = net.start /\ net'.read = net.read
      /\ net'.answer = net.answer /\ net'.finish.hasil = ui.hasil
  BY <1>1 DEF LatihanType, LatihanCalls, LatihanCall
<1> QED BY <1>1, <1>2, <1>3 DEF LatihanInv, LatihanType, AttemptInv, CallsInv, LateInv, VerdictInv,
      Practising, InLatihan

LEMMA FinishedKeeps ==
    ASSUME LatihanInv, LatihanFinished
    PROVE  LatihanInv'
<1>1. /\ LatihanType /\ srv' = srv /\ ~srv.running /\ Practising
      /\ net.start.at = "idle" /\ net.read.at = "idle"
      /\ ui' = [ui EXCEPT !.summary = TRUE, !.hasil = 0, !.verdict = Blank, !.confirm = FALSE]
      /\ net' = [net EXCEPT !.finish = Quiet] /\ past' = [past EXCEPT !.mixed = {}]
  BY DEF LatihanInv, CallsInv, LatihanFinished, Practising
<1>2. ui' \in LatihanScreen /\ ui'.hasil = 0 /\ ui'.summary /\ ui'.verdict = Blank
  BY <1>1, LatihanMarks DEF LatihanType, LatihanScreen
<1>3. /\ net' \in LatihanCalls /\ net'.start = net.start /\ net'.read = net.read
      /\ net'.answer = net.answer /\ net'.finish.at = "idle"
  BY <1>1, LatihanMarks DEF LatihanType, LatihanCalls
<1>4. past' \in LatihanPast
  BY <1>1 DEF LatihanType, LatihanPast
<1>5. LateInv'
  BY <1>1, <1>2, <1>3 DEF LatihanInv, LateInv
<1> QED BY <1>1, <1>2, <1>3, <1>4, <1>5, LatihanMarks DEF LatihanInv, LatihanType, AttemptInv,
      CallsInv, VerdictInv

LEMMA FinishFailsKeeps ==
    ASSUME LatihanInv, LatihanFinishFails
    PROVE  LatihanInv'
<1>1. /\ LatihanType /\ srv' = srv /\ ui' = [ui EXCEPT !.finishing = FALSE]
      /\ net' = [net EXCEPT !.finish = Quiet]
  BY DEF LatihanInv, LatihanFinishFails
<1>2. past' \in LatihanPast /\ past'.mixed = past.mixed
  BY <1>1, SpendTyped DEF LatihanFinishFails, LatihanType
<1>3. /\ ui' \in LatihanScreen /\ ui'.hasil = ui.hasil /\ ui'.summary = ui.summary
      /\ ui'.view = ui.view /\ ui'.screen = ui.screen /\ ui'.items = ui.items
      /\ ui'.verdict = ui.verdict
  BY <1>1 DEF LatihanType, LatihanScreen
<1>4. /\ net' \in LatihanCalls /\ net'.start = net.start /\ net'.read = net.read
      /\ net'.answer = net.answer /\ net'.finish.at = "idle"
  BY <1>1, LatihanMarks DEF LatihanType, LatihanCalls
<1> QED BY <1>1, <1>2, <1>3, <1>4 DEF LatihanInv, LatihanType, AttemptInv, CallsInv, LateInv,
      VerdictInv, Practising, InLatihan

LEMMA LatihanInitially == InitLatihan => LatihanInv
<1> SUFFICES ASSUME InitLatihan PROVE LatihanInv
  OBVIOUS
<1>1. PICK disabled \in BOOLEAN :
        ui = [screen |-> "latihan", hasil |-> 0, summary |-> FALSE, view |-> "pending",
              items |-> Blank, verdict |-> Blank, finishing |-> FALSE,
              confirm |-> FALSE, disabled |-> disabled]
  BY DEF InitLatihan
<1>2. /\ net = [start |-> Quiet, read |-> NoItems, answer |-> NoAnswer, finish |-> Quiet]
      /\ srv = [tries |-> 0, running |-> FALSE, saved |-> Blank]
      /\ past = [events |-> 0, mixed |-> {}]
  BY DEF InitLatihan
<1>3. ui \in LatihanScreen
  BY <1>1, LatihanMarks DEF LatihanScreen
<1>4. net \in LatihanCalls /\ srv \in LatihanRows /\ past \in LatihanPast
  BY <1>2, LatihanMarks DEF LatihanCalls, LatihanRows, LatihanPast
<1> QED BY <1>1, <1>2, <1>3, <1>4, LatihanMarks DEF LatihanInv, LatihanType, AttemptInv, CallsInv,
      LateInv, VerdictInv

LEMMA LatihanNext ==
    ASSUME LatihanInv, [NextLatihan]_browser
    PROVE  LatihanInv'
<1>1. CASE UNCHANGED browser
  BY <1>1 DEF browser, LatihanInv, LatihanType, AttemptInv, CallsInv, LateInv, VerdictInv,
     Practising, InLatihan
<1>2. CASE NextLatihan
  BY <1>2, StartKeeps, ServeStartKeeps, StartedKeeps, ReadItemsKeeps, ServeItemsKeeps, ItemsKeep,
     ItemsFailKeeps, ResetKeeps, LatihanChoiceKeeps, ServeAnswerKeeps, JudgedKeeps,
     AnswerFailsKeeps, ConfirmKeeps, FinishKeeps, ServeFinishKeeps, FinishedKeeps,
     FinishFailsKeeps DEF NextLatihan
<1> QED BY <1>1, <1>2

\* Items, verdicts, calls and rows keep to the code's types, the attempt on the screen is the
\* last one, an answer under way is to the choice on the screen or to an attempt that is
\* over, and a verdict that no late answer brought stands beside the answer it judges.
THEOREM LatihanInvariant == SpecLatihan => []LatihanInv
<1>1. InitLatihan => LatihanInv
  BY LatihanInitially
<1>2. LatihanInv /\ [NextLatihan]_browser => LatihanInv'
  BY LatihanNext
<1> QED BY <1>1, <1>2, PTL DEF SpecLatihan

\* Items, verdicts, calls and rows hold what the code's types allow.
THEOREM LatihanTyped == SpecLatihan => []LatihanTypeOK
<1>1. LatihanInv => LatihanTypeOK
  BY DEF LatihanInv, LatihanTypeOK
<1> QED BY <1>1, LatihanInvariant, PTL

\* A verdict stands beside the answer it judges, over lost answers, resets and later
\* attempts, unless an answer of the attempt before came in late.
THEOREM VerdictsFit == SpecLatihan => []VerdictFitsAnswer
<1>1. LatihanInv => VerdictFitsAnswer
  BY DEF LatihanInv, VerdictInv, VerdictFitsAnswer
<1> QED BY <1>1, LatihanInvariant, PTL

(***************************************************************************)
(* ExamLobby                                                               *)
(***************************************************************************)

LobbyKinds == {"ujian", "ulangan"}
LobbyStep ==
  \/ \E kind \in LobbyKinds :
       \/ ReadExam(kind) \/ ReadHistory(kind) \/ ExamArrives(kind) \/ HistoryArrives(kind)
       \/ QueryFails(kind) \/ StartAnswered(kind) \/ PlayerDone(kind) \/ PlayerAborts(kind)
       \/ LobbyResume(kind) \/ OpenReview(kind) \/ OpenResultReview(kind)
       \/ ReadReview(kind) \/ ReviewArrives(kind)
       \/ \E mode \in {"result", "review"} : BackToLobby(kind, mode)
  \/ OpenFromCard \/ UjianLobbyStart \/ UlanganLobbyStart
  \/ ServeExam \/ ServeHistory \/ ServeStart
  \/ LobbyTick \/ OthersEnd \/ TeacherEdits \/ GrantSusulan

LEMMA StepsOfLobby == NextLobby => LobbyStep
<1>1. ASSUME UjianSection \/ UjianSectionCards \/ LobbyPanel \/ HistoryRow \/ ResultPanel
          \/ UjianReview \/ UjianReviewBody
      PROVE  LobbyStep
  BY <1>1 DEF LobbyStep, LobbyKinds, UjianSection, UjianSectionCards, LobbyPanel, HistoryRow,
     ResultPanel, UjianReview, UjianReviewBody
<1>2. ASSUME UlanganSection \/ UlanganSectionCards \/ UlanganLobby \/ UlanganHistoryRow
          \/ UlanganResult \/ UlanganReview \/ UlanganReviewBody
      PROVE  LobbyStep
  BY <1>2 DEF LobbyStep, LobbyKinds, UlanganSection, UlanganSectionCards, UlanganLobby,
     UlanganHistoryRow, UlanganResult, UlanganReview, UlanganReviewBody
<1> QED BY <1>1, <1>2 DEF NextLobby, LobbyStep

LEMMA LobbyMarks ==
    /\ MaxAttempt \in Nat \ {0} /\ EndTime \in Nat /\ Attempts = 1..MaxAttempt
    /\ NoHistory \in [Attempts -> Statuses] /\ "none" \in Statuses
    /\ Resting \in [at : CallStates, data : Exams \union {NoExam}] /\ Resting.at = "idle"
    /\ Unread \in [at : CallStates, data : [Attempts -> Statuses]]
BY LobbyAssumption DEF Attempts, NoHistory, Statuses, Resting, Unread, CallStates

LEMMA ExamFields ==
    ASSUME NEW e \in Exams
    PROVE  /\ e.opens \in Nat /\ e.closes \in Nat /\ e.reviewAt \in Nat /\ e.limit \in Nat
           /\ e.published \in BOOLEAN /\ e.unlimited \in BOOLEAN /\ e.review \in BOOLEAN
BY LobbyAssumption

LEMMA LobbyParts ==
    ASSUME LobbyType
    PROVE  /\ ui.screen = "lobby" /\ ui.kind \in {"ujian", "ulangan"}
           /\ ui.exam \in Exams \union {NoExam} /\ ui.hist \in [Attempts -> Statuses]
           /\ ui.loaded \in SUBSET {"exam", "hist"} /\ ui.failed \in SUBSET {"exam", "hist"}
           /\ ui.attempt \in 0..MaxAttempt
           /\ net.exam \in [at : CallStates, data : Exams \union {NoExam}]
           /\ net.hist \in [at : CallStates, data : [Attempts -> Statuses]]
           /\ net.start \in [at : CallStates, attempt : 0..MaxAttempt]
           /\ srv.exam \in Exams /\ srv.grant \in Grants \union {NoGrant}
           /\ srv.hist \in [Attempts -> Statuses] /\ srv.now \in 0..EndTime
           /\ past.events \in Nat
BY DEF LobbyType, LobbyUi, LobbyCalls, LobbyRows

LEMMA LobbySpend ==
    ASSUME past \in [events : Nat], Spend
    PROVE  past' \in [events : Nat]
BY DEF Spend

\* What the student does on the screen changes no query.
LEMMA ControlsKeep ==
    ASSUME LobbyInv, UNCHANGED <<net, srv, past>>, ui' \in LobbyUi,
           ui'.kind = ui.kind, ui'.exam = ui.exam, ui'.loaded \subseteq ui.loaded
    PROVE  LobbyInv'
BY DEF LobbyInv, LobbyType, WindowInv, PublishedInv

\* A call that changes its state brings no other exam.
LEMMA AsksKeep ==
    ASSUME LobbyInv, UNCHANGED <<srv, past>>, ui' \in LobbyUi, net' \in LobbyCalls,
           ui'.kind = ui.kind, ui'.exam = ui.exam, ui'.loaded \subseteq ui.loaded,
           net'.exam.at = "ok" => net'.exam = net.exam
    PROVE  LobbyInv'
BY DEF LobbyInv, LobbyType, WindowInv, PublishedInv

LEMMA LobbyReadKeeps ==
    ASSUME LobbyInv, NEW kind, ReadExam(kind) \/ ReadHistory(kind)
    PROVE  LobbyInv'
<1>1. LobbyType /\ UNCHANGED <<srv, past>>
  BY DEF LobbyInv, ReadExam, ReadHistory
<1>2. PICK name \in {"exam", "hist"} : ui' = [ui EXCEPT !.failed = @ \ {name}]
  BY DEF ReadExam, ReadHistory
<1>3. /\ ui' \in LobbyUi /\ ui'.kind = ui.kind /\ ui'.exam = ui.exam /\ ui'.loaded = ui.loaded
  <2>1. ui.failed \ {name} \in SUBSET {"exam", "hist"}
    BY <1>1, LobbyParts
  <2> QED BY <1>1, <1>2, <2>1 DEF LobbyType, LobbyUi
<1>4. net' \in LobbyCalls /\ (net'.exam.at = "ok" => net'.exam = net.exam)
  <2>1. CASE net' = [net EXCEPT !.exam.at = "sent"]
    BY <1>1, <2>1 DEF LobbyType, LobbyCalls, CallStates
  <2>2. CASE net' = [net EXCEPT !.hist.at = "sent"]
    BY <1>1, <2>2 DEF LobbyType, LobbyCalls, CallStates
  <2> QED BY <2>1, <2>2 DEF ReadExam, ReadHistory
<1> QED BY <1>1, <1>3, <1>4, AsksKeep

LEMMA ServeQueryKeeps ==
    ASSUME LobbyInv, ServeExam \/ ServeHistory
    PROVE  LobbyInv'
<1>1. LobbyType /\ UNCHANGED <<ui, srv, past>>
  BY DEF LobbyInv, ServeExam, ServeHistory
<1>2. CASE ServeExam
  <2>1. \/ /\ srv.exam.published \/ ui.kind = "ulangan"
           /\ net' = [net EXCEPT !.exam = [at |-> "ok", data |-> srv.exam]]
        \/ net' = [net EXCEPT !.exam.at = "no"]
    BY <1>1, <1>2 DEF ServeExam, LobbyType, LobbyCalls
  <2>2. net' \in LobbyCalls
    BY <1>1, <2>1, LobbyParts DEF LobbyType, LobbyCalls, CallStates
  <2>3. net'.exam.at = "ok" => net'.exam.data = srv.exam /\ (srv.exam.published \/ ui.kind = "ulangan")
    BY <1>1, <2>1 DEF LobbyType, LobbyCalls
  <2> QED BY <1>1, <2>2, <2>3 DEF LobbyInv, LobbyType, WindowInv, PublishedInv
<1>3. CASE ServeHistory
  <2>1. net' \in LobbyCalls /\ net'.exam = net.exam
    BY <1>1, <1>3, LobbyParts DEF ServeHistory, LobbyType, LobbyCalls, CallStates
  <2> QED BY <1>1, <2>1 DEF LobbyInv, LobbyType, WindowInv, PublishedInv
<1> QED BY <1>2, <1>3

LEMMA QueryArrivesKeeps ==
    ASSUME LobbyInv, NEW kind, ExamArrives(kind) \/ HistoryArrives(kind)
    PROVE  LobbyInv'
<1> DEFINE loaded(name) == ui.loaded \union {name}
<1>1. LobbyType /\ UNCHANGED <<srv, past>>
  BY DEF LobbyInv, ExamArrives, HistoryArrives
<1>2. loaded("exam") \in SUBSET {"exam", "hist"} /\ loaded("hist") \in SUBSET {"exam", "hist"}
  BY <1>1, LobbyParts
<1>3. CASE ExamArrives(kind)
  <2>1. ui' = [ui EXCEPT !.exam = net.exam.data, !.loaded = loaded("exam")]
    BY <1>1, <1>3 DEF ExamArrives, LobbyType, LobbyUi
  <2> HIDE DEF loaded
  <2>2. ui' \in LobbyUi /\ ui'.exam = net.exam.data /\ ui'.kind = ui.kind
    BY <1>1, <1>2, <2>1, LobbyParts DEF LobbyType, LobbyUi
  <2>3. net' \in LobbyCalls /\ net'.exam.at = "idle"
    BY <1>1, <1>3, LobbyMarks DEF ExamArrives, LobbyType, LobbyCalls
  <2> QED BY <1>1, <1>3, <2>2, <2>3 DEF ExamArrives, LobbyInv, LobbyType, WindowInv, PublishedInv
<1>4. CASE HistoryArrives(kind)
  <2>1. ui' = [ui EXCEPT !.hist = net.hist.data, !.loaded = loaded("hist")]
    BY <1>1, <1>4 DEF HistoryArrives, LobbyType, LobbyUi
  <2>2. "exam" \in loaded("hist") => "exam" \in ui.loaded
    OBVIOUS
  <2> HIDE DEF loaded
  <2>3. /\ ui' \in LobbyUi /\ ui'.exam = ui.exam /\ ui'.kind = ui.kind
        /\ ui'.loaded = loaded("hist")
    BY <1>1, <1>2, <2>1, LobbyParts DEF LobbyType, LobbyUi
  <2>4. net' \in LobbyCalls /\ net'.exam = net.exam
    BY <1>1, <1>4, LobbyMarks DEF HistoryArrives, LobbyType, LobbyCalls
  <2> QED BY <1>1, <2>2, <2>3, <2>4 DEF LobbyInv, LobbyType, WindowInv, PublishedInv
<1> QED BY <1>3, <1>4

LEMMA QueryFailsKeeps ==
    ASSUME LobbyInv, NEW kind, QueryFails(kind)
    PROVE  LobbyInv'
<1>1. LobbyType /\ srv' = srv /\ net' = [net EXCEPT !.exam = Resting]
  BY DEF LobbyInv, QueryFails
<1>2. past' \in [events : Nat]
  BY <1>1, LobbySpend DEF QueryFails, LobbyType
<1>3. ui' \in LobbyUi /\ ui'.exam = ui.exam /\ ui'.kind = ui.kind /\ ui'.loaded = ui.loaded
  <2>1. ui.failed \union {"exam"} \in SUBSET {"exam", "hist"}
    BY <1>1, LobbyParts
  <2> QED BY <1>1, <2>1 DEF QueryFails, LobbyType, LobbyUi
<1>4. net' \in LobbyCalls /\ net'.exam.at = "idle"
  BY <1>1, LobbyMarks DEF LobbyType, LobbyCalls
<1> QED BY <1>1, <1>2, <1>3, <1>4 DEF LobbyInv, LobbyType, WindowInv, PublishedInv

LEMMA LobbyStartKeeps ==
    ASSUME LobbyInv, UjianLobbyStart \/ UlanganLobbyStart
    PROVE  LobbyInv'
<1>1. LobbyType /\ UNCHANGED <<ui, srv, past>> /\ net' = [net EXCEPT !.start.at = "sent"]
  BY DEF LobbyInv, UjianLobbyStart, UlanganLobbyStart
<1>2. net' \in LobbyCalls /\ net'.exam = net.exam
  BY <1>1 DEF LobbyType, LobbyCalls, CallStates
<1> QED BY <1>1, <1>2, AsksKeep DEF LobbyType

\* Rows that change beside the exam.
LEMMA RowsKeep ==
    ASSUME LobbyInv, srv' \in LobbyRows, srv'.exam = srv.exam, net' \in LobbyCalls,
           net'.exam = net.exam, ui' \in LobbyUi, past' \in [events : Nat],
           ui'.kind = ui.kind, ui'.exam = ui.exam, ui'.loaded \subseteq ui.loaded
    PROVE  LobbyInv'
BY DEF LobbyInv, LobbyType, WindowInv, PublishedInv

LEMMA ServeLobbyStartKeeps ==
    ASSUME LobbyInv, ServeStart
    PROVE  LobbyInv'
<1>1. LobbyType /\ UNCHANGED <<ui, past>>
  BY DEF LobbyInv, ServeStart
<1>2. \/ srv' = srv
      \/ \E i \in Attempts : srv' = [srv EXCEPT !.hist[i] = "berlangsung"]
  BY DEF ServeStart
<1>3. srv' \in LobbyRows /\ srv'.exam = srv.exam
  BY <1>1, <1>2 DEF LobbyType, LobbyRows, Statuses
<1>4. \/ net' = [net EXCEPT !.start.at = "no"]
      \/ \E i \in Attempts : net' = [net EXCEPT !.start = [at |-> "ok", attempt |-> i]]
  BY DEF ServeStart, Running
<1>5. net' \in LobbyCalls /\ net'.exam = net.exam
  <2>1. CASE net' = [net EXCEPT !.start.at = "no"]
    BY <1>1, <2>1 DEF LobbyType, LobbyCalls, CallStates
  <2>2. ASSUME NEW i \in Attempts, net' = [net EXCEPT !.start = [at |-> "ok", attempt |-> i]]
        PROVE  net' \in LobbyCalls /\ net'.exam = net.exam
    <3>1. [at |-> "ok", attempt |-> i] \in [at : CallStates, attempt : 0..MaxAttempt]
      BY LobbyMarks DEF CallStates
    <3> QED BY <1>1, <2>2, <3>1 DEF LobbyType, LobbyCalls
  <2> QED BY <1>4, <2>1, <2>2
<1> QED BY <1>1, <1>3, <1>5, RowsKeep DEF LobbyType

LEMMA StartAnsweredKeeps ==
    ASSUME LobbyInv, NEW kind, StartAnswered(kind)
    PROVE  LobbyInv'
<1>1. LobbyType /\ srv' = srv /\ net' = [net EXCEPT !.start = [at |-> "idle", attempt |-> 0]]
  BY DEF LobbyInv, StartAnswered
<1>2. past' \in [events : Nat]
  BY <1>1, LobbySpend DEF StartAnswered, LobbyType
<1>3. /\ ui' \in LobbyUi /\ ui'.kind = ui.kind /\ ui'.exam = ui.exam
      /\ ui'.loaded \subseteq ui.loaded
  <2> DEFINE i == net.start.attempt
             loaded == ui.loaded \ {"hist"}
  <2>1. loaded \in SUBSET {"exam", "hist"} /\ loaded \subseteq ui.loaded /\ i \in 0..MaxAttempt
    BY <1>1, LobbyParts
  <2>2. ui' = ui \/ ui' = [ui EXCEPT !.mode = "playing", !.attempt = i, !.loaded = loaded]
    BY DEF StartAnswered
  <2> HIDE DEF i, loaded
  <2>3. ui \in LobbyUi
    BY <1>1 DEF LobbyType
  <2>4. CASE ui' = ui
    BY <2>3, <2>4
  <2>5. CASE ui' = [ui EXCEPT !.mode = "playing", !.attempt = i, !.loaded = loaded]
    BY <2>1, <2>3, <2>5 DEF LobbyUi
  <2> QED BY <2>2, <2>4, <2>5
<1>4. net' \in LobbyCalls /\ net'.exam = net.exam
  BY <1>1, LobbyMarks DEF LobbyType, LobbyCalls, CallStates
<1> QED BY <1>1, <1>2, <1>3, <1>4, RowsKeep DEF LobbyType

LEMMA PlayedKeeps ==
    ASSUME LobbyInv, NEW kind, PlayerDone(kind) \/ PlayerAborts(kind)
    PROVE  LobbyInv'
<1>1. LobbyType /\ UNCHANGED <<net, past>>
  BY DEF LobbyInv, PlayerDone, PlayerAborts
<1>2. ui.loaded \ {"hist"} \in SUBSET {"exam", "hist"} /\ 0 \in 0..MaxAttempt
  BY <1>1, LobbyParts, LobbyMarks
<1>3. CASE PlayerDone(kind)
  <2> DEFINE summary == [review |-> srv.exam.review, reviewAt |-> srv.exam.reviewAt]
  <2>1. summary \in [review : BOOLEAN, reviewAt : Nat]
    BY <1>1, LobbyParts, ExamFields
  <2>2. ui' = [ui EXCEPT !.mode = "result", !.loaded = @ \ {"hist"}, !.summary = summary]
    BY <1>3 DEF PlayerDone
  <2> HIDE DEF summary
  <2>3. /\ ui' \in LobbyUi /\ ui'.kind = ui.kind /\ ui'.exam = ui.exam
        /\ ui'.loaded \subseteq ui.loaded
    BY <1>1, <1>2, <2>1, <2>2 DEF LobbyType, LobbyUi
  <2>4. srv' \in LobbyRows /\ srv'.exam = srv.exam
    <3>1. [srv.hist EXCEPT ![ui.attempt] = "selesai"] \in [Attempts -> Statuses]
      BY <1>1, LobbyParts DEF Statuses
    <3> QED BY <1>1, <1>3, <3>1 DEF PlayerDone, LobbyType, LobbyRows
  <2> QED BY <1>1, <2>3, <2>4, RowsKeep DEF LobbyType
<1>4. CASE PlayerAborts(kind)
  <2>1. /\ ui' \in LobbyUi /\ ui'.kind = ui.kind /\ ui'.exam = ui.exam
        /\ ui'.loaded \subseteq ui.loaded
    BY <1>1, <1>2, <1>4 DEF PlayerAborts, LobbyType, LobbyUi
  <2> QED BY <1>1, <1>4, <2>1, ControlsKeep DEF PlayerAborts
<1> QED BY <1>3, <1>4

LEMMA LobbyControlsKeep ==
    ASSUME LobbyInv, NEW kind, NEW mode,
           \/ OpenFromCard \/ LobbyResume(kind) \/ OpenReview(kind) \/ OpenResultReview(kind)
           \/ BackToLobby(kind, mode)
    PROVE  LobbyInv'
<1>1. LobbyType /\ UNCHANGED <<net, srv, past>>
  BY DEF LobbyInv, OpenFromCard, LobbyResume, OpenReview, OpenResultReview, BackToLobby
<1>2. PICK m \in {"lobby", "playing", "review"}, i \in 0..MaxAttempt, r \in {ui.review, "none"} :
        ui' = [ui EXCEPT !.mode = m, !.attempt = i, !.review = r]
  <2>1. 0 \in 0..MaxAttempt /\ Attempts \subseteq 0..MaxAttempt /\ ui.attempt \in 0..MaxAttempt
    BY <1>1, LobbyParts, LobbyMarks
  <2>2. CASE OpenFromCard \/ OpenResultReview(kind)
    <3>1. PICK m \in {"lobby", "review"} : ui' = [ui EXCEPT !.mode = m]
      BY <2>2 DEF OpenFromCard, OpenResultReview
    <3>2. ui' = [ui EXCEPT !.mode = m, !.attempt = ui.attempt, !.review = ui.review]
      BY <1>1, <3>1 DEF LobbyType, LobbyUi
    <3> QED BY <2>1, <3>2
  <2>3. CASE LobbyResume(kind) \/ OpenReview(kind)
    <3>1. PICK m \in {"playing", "review"}, i \in Attempts :
            ui' = [ui EXCEPT !.mode = m, !.attempt = i]
      BY <2>3 DEF LobbyResume, OpenReview, Inflight
    <3>2. ui' = [ui EXCEPT !.mode = m, !.attempt = i, !.review = ui.review]
      BY <1>1, <3>1 DEF LobbyType, LobbyUi
    <3> QED BY <2>1, <3>2
  <2>4. CASE BackToLobby(kind, mode)
    BY <2>1, <2>4 DEF BackToLobby
  <2> QED BY <2>2, <2>3, <2>4
<1>3. ui' \in LobbyUi /\ ui'.kind = ui.kind /\ ui'.exam = ui.exam /\ ui'.loaded = ui.loaded
  BY <1>1, <1>2 DEF LobbyType, LobbyUi
<1> QED BY <1>1, <1>3, ControlsKeep

LEMMA ReviewKeeps ==
    ASSUME LobbyInv, NEW kind, ReadReview(kind) \/ ReviewArrives(kind)
    PROVE  LobbyInv'
<1>1. LobbyType /\ UNCHANGED <<srv, past>>
  BY DEF LobbyInv, ReadReview, ReviewArrives
<1>2. net' \in LobbyCalls /\ net'.exam = net.exam
  <2>1. PICK r \in {"idle", "ok", "no"} : net' = [net EXCEPT !.review = r]
    BY DEF ReadReview, ReviewArrives
  <2> QED BY <1>1, <2>1 DEF LobbyType, LobbyCalls
<1>3. ui' \in LobbyUi /\ ui'.kind = ui.kind /\ ui'.exam = ui.exam /\ ui'.loaded = ui.loaded
  <2>1. ui' = ui \/ \E r \in {"shown", "refused"} : ui' = [ui EXCEPT !.review = r]
    BY DEF ReadReview, ReviewArrives
  <2> QED BY <1>1, <2>1 DEF LobbyType, LobbyUi
<1> QED BY <1>1, <1>2, <1>3, AsksKeep

LEMMA OthersInLobbyKeep ==
    ASSUME LobbyInv, LobbyTick \/ OthersEnd \/ GrantSusulan \/ TeacherEdits
    PROVE  LobbyInv'
<1>1. LobbyType /\ UNCHANGED <<ui, net>>
  BY DEF LobbyInv, LobbyTick, OthersEnd, GrantSusulan, TeacherEdits
<1>2. past' \in [events : Nat]
  BY <1>1, LobbySpend DEF LobbyTick, OthersEnd, GrantSusulan, TeacherEdits, LobbyType
<1>3. CASE LobbyTick
  <2>1. srv.now + 1 \in 0..EndTime
    BY <1>1, <1>3, LobbyParts, LobbyMarks DEF LobbyTick
  <2>2. srv' \in LobbyRows /\ srv'.exam = srv.exam
    BY <1>1, <1>3, <2>1 DEF LobbyTick, LobbyType, LobbyRows
  <2> QED BY <1>1, <1>2, <2>2, RowsKeep DEF LobbyType
<1>4. CASE OthersEnd
  <2>1. PICK i \in Attempts, s \in Statuses : srv' = [srv EXCEPT !.hist[i] = s]
    BY <1>4 DEF OthersEnd, Running, Statuses
  <2>2. srv' \in LobbyRows /\ srv'.exam = srv.exam
    BY <1>1, <2>1 DEF LobbyType, LobbyRows
  <2> QED BY <1>1, <1>2, <2>2, RowsKeep DEF LobbyType
<1>5. CASE GrantSusulan
  <2>1. srv' \in LobbyRows /\ srv'.exam = srv.exam
    BY <1>1, <1>5 DEF GrantSusulan, LobbyType, LobbyRows
  <2> QED BY <1>1, <1>2, <2>1, RowsKeep DEF LobbyType
<1>6. CASE TeacherEdits
  <2>1. PICK e \in Exams : /\ ui.kind = "ulangan" => e.opens = 0 /\ e.closes > EndTime
                           /\ srv' = [srv EXCEPT !.exam = e]
    BY <1>6 DEF TeacherEdits
  <2>2. srv' \in LobbyRows /\ srv'.exam = e
    BY <1>1, <2>1 DEF LobbyType, LobbyRows
  <2> QED BY <1>1, <1>2, <2>1, <2>2 DEF LobbyInv, LobbyType, WindowInv, PublishedInv
<1> QED BY <1>3, <1>4, <1>5, <1>6

LEMMA LobbyInitially == InitLobby => LobbyInv
<1> SUFFICES ASSUME InitLobby PROVE LobbyInv
  OBVIOUS
<1>1. PICK kind \in {"ujian", "ulangan"}, e \in Exams :
        /\ kind = "ulangan" => e.opens = 0 /\ e.closes > EndTime
        /\ ui = [screen |-> "lobby", kind |-> kind,
                 mode |-> IF kind = "ujian" THEN "list" ELSE "lobby",
                 exam |-> NoExam, hist |-> NoHistory, loaded |-> {}, failed |-> {},
                 attempt |-> 0, summary |-> NoSummary, review |-> "none"]
        /\ net = [exam |-> Resting, hist |-> Unread, start |-> [at |-> "idle", attempt |-> 0],
                  review |-> "idle"]
        /\ srv = [exam |-> e, grant |-> NoGrant, hist |-> NoHistory, now |-> 0]
        /\ past = [events |-> 0]
  BY DEF InitLobby
<1>2. NoSummary \in [review : BOOLEAN, reviewAt : Nat] /\ 0 \in 0..MaxAttempt /\ 0 \in 0..EndTime
  BY LobbyMarks DEF NoSummary
<1>3. ui \in LobbyUi
  BY <1>1, <1>2, LobbyMarks DEF LobbyUi
<1>4. net \in LobbyCalls /\ srv \in LobbyRows /\ past \in [events : Nat]
  BY <1>1, <1>2, LobbyMarks DEF LobbyCalls, LobbyRows, CallStates
<1> QED BY <1>1, <1>3, <1>4, LobbyMarks DEF LobbyInv, LobbyType, WindowInv, PublishedInv

LEMMA LobbyNext ==
    ASSUME LobbyInv, [NextLobby]_browser
    PROVE  LobbyInv'
<1>1. CASE UNCHANGED browser
  BY <1>1 DEF browser, LobbyInv, LobbyType, WindowInv, PublishedInv
<1>2. CASE LobbyStep
  BY <1>2, LobbyReadKeeps, ServeQueryKeeps, QueryArrivesKeeps, QueryFailsKeeps, LobbyStartKeeps,
     ServeLobbyStartKeeps, StartAnsweredKeeps, PlayedKeeps, LobbyControlsKeep, ReviewKeeps,
     OthersInLobbyKeep DEF LobbyStep
<1> QED BY <1>1, <1>2, StepsOfLobby

\* Cached rows, calls and stored rows keep to the code's types, and a student's cached exam
\* is published.
THEOREM LobbyInvariant == SpecLobby => []LobbyInv
<1>1. InitLobby => LobbyInv
  BY LobbyInitially
<1>2. LobbyInv /\ [NextLobby]_browser => LobbyInv'
  BY LobbyNext
<1> QED BY <1>1, <1>2, PTL DEF SpecLobby

\* Cached rows, calls and stored rows hold what the code's types allow.
THEOREM LobbyTyped == SpecLobby => []LobbyTypeOK
<1>1. LobbyInv => LobbyTypeOK
  BY DEF LobbyInv, LobbyTypeOK
<1> QED BY <1>1, LobbyInvariant, PTL

LEMMA AttemptsCounted ==
    ASSUME NEW S \in SUBSET Attempts
    PROVE  Cardinality(S) \in Nat
<1>1. IsFiniteSet(Attempts)
  BY FS_Interval, LobbyMarks
<1> QED BY <1>1, FS_Subset, FS_CardinalityType

\* What the lobby and the history offer on rows that are up to date is what the service
\* does when it is pressed.
THEOREM ButtonsTrue == SpecLobby => []ButtonsAgree
<1>1. ASSUME LobbyInv, Displayed("lobby"), Fresh, srv.grant = NoGrant
      PROVE  StartOffered <=> Accepted /\ Running = {}
  <2> DEFINE e == srv.exam
  <2>1. /\ LobbyType /\ WindowInv /\ PublishedInv /\ ui.exam = e /\ ui.hist = srv.hist
        /\ "exam" \in ui.loaded
    BY <1>1 DEF LobbyInv, Displayed, Fresh
  <2>2. /\ srv.now \in Nat /\ srv.now <= EndTime /\ EndTime \in Nat
        /\ e.opens \in Nat /\ e.closes \in Nat /\ e.limit \in Nat
        /\ e.published \in BOOLEAN /\ e.unlimited \in BOOLEAN
    BY <2>1, LobbyParts, LobbyMarks, ExamFields
  <2>3. Inflight = Running /\ OpenFor(srv.grant) <=> e.opens <= srv.now /\ srv.now <= e.closes
    BY <1>1, <2>1 DEF Inflight, Running, OpenFor
  <2>4. WithinLimit <=> e.unlimited \/ Cardinality(Taken) < e.limit
    BY <1>1 DEF WithinLimit
  <2>5. Cardinality(Taken) \in Nat /\ Inflight = Running
    BY <2>1, AttemptsCounted DEF Taken, Inflight, Running
  <2>6. CASE ui.kind = "ujian"
    <3>1. UsedAttempts = Cardinality(Taken)
      BY <2>1 DEF UsedAttempts, Taken
    <3>2. AttemptsExhausted <=> ~e.unlimited /\ e.limit <= Cardinality(Taken)
      BY <2>1, <2>2, <2>5, <3>1 DEF AttemptsExhausted
    <3>3. WindowState(ui.exam) = "aktif" <=> e.opens <= srv.now /\ srv.now <= e.closes
      BY <2>1, <2>2 DEF WindowState
    <3>4. e.published
      BY <2>1, <2>6 DEF PublishedInv
    <3> HIDE DEF e
    <3> QED BY <1>1, <2>2, <2>3, <2>4, <2>5, <2>6, <3>2, <3>3, <3>4
         DEF StartOffered, UjianStartOffered, Accepted, e
  <2>7. CASE ui.kind # "ujian"
    <3>1. ui.kind = "ulangan"
      BY <2>1, <2>7, LobbyParts
    <3>2. e.opens <= srv.now /\ srv.now <= e.closes
      BY <2>1, <2>2, <3>1 DEF WindowInv
    <3>3. Running = {} => GradedAttempts = Cardinality(Taken)
      <4> SUFFICES ASSUME Running = {}
                   PROVE  {i \in Attempts : ui.hist[i] = "selesai"} = Taken
        BY DEF GradedAttempts
      <4>1. \A i \in Attempts : srv.hist[i] \in Statuses /\ srv.hist[i] # "berlangsung"
        BY <2>1, LobbyParts DEF Running
      <4> QED BY <2>1, <4>1 DEF Taken, Statuses
    <3>4. e.limit > Cardinality(Taken) <=> Cardinality(Taken) < e.limit
      BY <2>2, <2>5
    <3>5. StartOffered <=> Running = {} /\ e.published /\ (e.unlimited \/ e.limit > GradedAttempts)
      BY <2>1, <2>5, <3>1 DEF StartOffered, UlanganStartOffered
    <3>6. OpenFor(srv.grant)
      BY <1>1, <3>2 DEF OpenFor
    <3>7. Accepted /\ Running = {} <=> e.published /\ WithinLimit /\ Running = {}
      BY <3>6 DEF Accepted
    <3> QED BY <2>4, <3>3, <3>4, <3>5, <3>7
  <2> QED BY <2>6, <2>7
<1>2. ASSUME LobbyInv, Fresh, NEW i \in Attempts
      PROVE  ReviewOffered(i) <=> Reviewable(i)
  <2>1. /\ ui.exam = srv.exam /\ ui.hist = srv.hist /\ srv.exam.reviewAt \in Nat
        /\ srv.now \in Nat
    BY <1>2, LobbyParts, LobbyMarks, ExamFields DEF LobbyInv, Fresh
  <2>2. srv.exam.reviewAt > 0 \/ srv.exam.reviewAt <= srv.now
    BY <2>1
  <2> QED BY <2>1, <2>2 DEF ReviewOffered, UjianReviewOffered, UlanganReviewOffered, Reviewable
<1>3. LobbyInv => ButtonsAgree
  BY <1>1, <1>2 DEF ButtonsAgree, StartAgrees, ReviewAgrees
<1> QED BY <1>3, LobbyInvariant, PTL

(***************************************************************************)
(* ExamPlayer                                                              *)
(***************************************************************************)

PlayerStep ==
  \/ \E kind \in Kinds :
       \/ ReadItems(kind) \/ ItemsArrive(kind) \/ ItemsFail(kind)
       \/ \E n \in Picks : DebounceFires(kind, n) \/ RetryAnswer(kind, n) \/ AnswerSettles(kind, n)
       \/ AutoSubmit(kind) \/ SubmitDone(kind) \/ SubmitFails(kind)
       \/ SubmitClick(kind) \/ Leave(kind)
  \/ \E q \in Soal, v \in Jawab : HandleAnswer(q, v)
  \/ UjianConfirm \/ UlanganConfirm
  \/ ServeItems \/ ServeSubmit \/ CronGrades
  \/ \E n \in Picks : ServeAnswer(n) \/ LoseAnswer(n)
  \/ Return \/ PlayerTick \/ TeacherDeletes \/ TeacherCancels \/ ChapterArchived

LEMMA StepsOfPlayer == NextPlayer => PlayerStep
<1>1. ASSUME UjianPlayer \/ UlanganPlayer
      PROVE  PlayerStep
  BY <1>1 DEF PlayerStep, Kinds, UjianPlayer, UlanganPlayer
<1>2. ASSUME UjianPlayerView \/ UlanganPlayerView
      PROVE  PlayerStep
  BY <1>2 DEF PlayerStep, Kinds, UjianPlayerView, UlanganPlayerView, UjianSoalCard, UlanganSoalCard
<1>3. ASSUME PlayerService
      PROVE  PlayerStep
  BY <1>3 DEF PlayerStep, PlayerService
<1> QED BY <1>1, <1>2, <1>3 DEF NextPlayer, PlayerStep

LEMMA PlayerMarks ==
    /\ MaxPick \in Nat /\ Picks = 1..MaxPick /\ "none" \notin Soal /\ MaxEvents \in Nat
    /\ Jawab \intersect {"none", "gone"} = {}
    /\ Unpicked \in Pick
    /\ NoRead \in [at : {"idle", "sent", "ok", "no"}, data : [Soal -> Item]]
    /\ NoRead.at = "idle"
BY PlayerAssumption, BrowserAssumption DEF Picks, Unpicked, Pick, SaveRetries, NoRead, Item

LEMMA PlayerParts ==
    ASSUME PlayerType
    PROVE  /\ ui.screen = "player" /\ ui.items \in [Soal -> Item] /\ ui.err \in SUBSET Soal
           /\ net.read \in [at : {"idle", "sent", "ok", "no"}, data : [Soal -> Item]]
           /\ net.pick \in [Picks -> Pick] /\ net.submit \in {"idle", "sent", "ok", "no"}
           /\ srv.saved \in [Soal -> Jawab \union {"none"}]
           /\ srv.graded \in [Soal -> Jawab \union {"none"}]
           /\ srv.gone \in SUBSET Soal /\ srv.now \in 0..Late + 1
           /\ past.events \in 0..MaxEvents /\ past.picks \in 0..MaxPick
           /\ past.mixed \in SUBSET Soal
BY DEF PlayerType, PlayerScreen, PlayerCalls, PlayerRows, PlayerPast

LEMMA PlayerSpends ==
    ASSUME past \in PlayerPast, Spend
    PROVE  past' \in PlayerPast /\ past'.mixed = past.mixed /\ past'.picks = past.picks
<1>1. past.events + 1 \in 0..MaxEvents
  BY PlayerMarks DEF Spend, PlayerPast
<1> QED BY <1>1 DEF Spend, PlayerPast

\* The choices of a question, and which is the last, do not depend on how far their
\* saves are.
LEMMA SameQuestions ==
    ASSUME \A n \in Picks : net'.pick[n].soal = net.pick[n].soal
    PROVE  \A q \in Soal : /\ Of(q)' = Of(q)
                           /\ \A n \in Picks : Last(q, n)' <=> Last(q, n)
<1> SUFFICES ASSUME NEW q \in Soal
             PROVE  Of(q)' = Of(q) /\ \A n \in Picks : Last(q, n)' <=> Last(q, n)
  OBVIOUS
<1>1. Of(q)' = Of(q)
  BY DEF Of
<1> QED BY <1>1 DEF Last

LEMMA OnlyLast ==
    ASSUME NEW q \in Soal, NEW n \in Picks, NEW m \in Picks, Last(q, n), Last(q, m)
    PROVE  n = m
BY PlayerMarks DEF Last

-----------------------------------------------------------------------------
(* Steps beside the saves                                                  *)

LEMMA QuietPlayer ==
    ASSUME PlayerInv, PlayerType',
           net'.pick = net.pick, net'.read.at = "ok" => net'.read = net.read,
           past'.picks = past.picks, past'.mixed = past.mixed,
           ui'.items = ui.items, ui'.err \subseteq ui.err, srv'.saved = srv.saved,
           srv'.status = "selesai" =>
             \/ srv.status = "selesai" /\ srv'.graded = srv.graded
             \/ srv'.graded = srv.saved
    PROVE  PlayerInv'
<1>1. \A q \in Soal : /\ Of(q)' = Of(q) /\ (Unsettled(q)' <=> Unsettled(q))
                      /\ \A n \in Picks : Last(q, n)' <=> Last(q, n)
  BY SameQuestions DEF Unsettled, Of
<1>2. NumbersInv' /\ TimerInv'
  BY <1>1 DEF PlayerInv, NumbersInv, TimerInv
<1>3. AloneInv'
  <2> SUFFICES ASSUME NEW q \in Soal \ past.mixed, NEW n \in Picks, Last(q, n)
               PROVE  Alone(q, n)'
    BY <1>1 DEF AloneInv
  <2> QED BY <1>1 DEF PlayerInv, AloneInv, Alone
<1> QED BY <1>2, <1>3 DEF PlayerInv

LEMMA ReadItemsKept ==
    ASSUME PlayerInv, NEW kind, ReadItems(kind)
    PROVE  PlayerInv'
<1>1. PlayerType /\ UNCHANGED <<ui, srv>> /\ net' = [net EXCEPT !.read.at = "sent"]
  BY DEF PlayerInv, ReadItems
<1>2. past' \in PlayerPast /\ past'.mixed = past.mixed /\ past'.picks = past.picks
  BY <1>1, PlayerSpends DEF ReadItems, PlayerType
<1>3. net' \in PlayerCalls /\ net'.read.at = "sent" /\ net'.pick = net.pick
  BY <1>1 DEF PlayerType, PlayerCalls
<1> QED BY <1>1, <1>2, <1>3, QuietPlayer DEF PlayerType

LEMMA ItemsFailKept ==
    ASSUME PlayerInv, NEW kind, ItemsFail(kind)
    PROVE  PlayerInv'
<1>1. PlayerType /\ srv' = srv /\ net' = [net EXCEPT !.read = NoRead]
  BY DEF PlayerInv, ItemsFail
<1>2. past' \in PlayerPast /\ past'.mixed = past.mixed /\ past'.picks = past.picks
  BY <1>1, PlayerSpends DEF ItemsFail, PlayerType
<1>3. net' \in PlayerCalls /\ net'.read.at = "idle" /\ net'.pick = net.pick
  BY <1>1, PlayerMarks DEF PlayerType, PlayerCalls
<1>4. ui' \in PlayerScreen /\ ui'.items = ui.items /\ ui'.err = ui.err
  <2>1. ui' = [ui EXCEPT !.view = "error"] \/ ui' = [ui EXCEPT !.view = ui.view]
    BY DEF ItemsFail
  <2> QED BY <1>1, <2>1 DEF PlayerType, PlayerScreen
<1> QED BY <1>1, <1>2, <1>3, <1>4, QuietPlayer DEF PlayerType

LEMMA ControlsKept ==
    ASSUME PlayerInv, NEW kind,
           \/ UjianConfirm \/ UlanganConfirm \/ SubmitClick(kind) \/ AutoSubmit(kind) \/ Return
           \/ ChapterArchived
    PROVE  PlayerInv'
<1>1. PlayerType /\ srv' = srv
  BY DEF PlayerInv, UjianConfirm, UlanganConfirm, SubmitClick, AutoSubmit, Return, ChapterArchived
<1>2. past' \in PlayerPast /\ past'.mixed = past.mixed /\ past'.picks = past.picks
  BY <1>1, PlayerSpends DEF UjianConfirm, UlanganConfirm, SubmitClick, AutoSubmit, Return,
     ChapterArchived, PlayerType
<1>3. net' \in PlayerCalls /\ net'.read = net.read /\ net'.pick = net.pick
  <2>1. net' = net \/ net' = [net EXCEPT !.submit = "sent"]
    BY DEF UjianConfirm, UlanganConfirm, SubmitClick, AutoSubmit, Return, ChapterArchived
  <2> QED BY <1>1, <2>1 DEF PlayerType, PlayerCalls
<1>4. ui' \in PlayerScreen /\ ui'.items = ui.items /\ ui'.err = ui.err
  <2>1. \/ ui' = ui \/ ui' = [ui EXCEPT !.confirm = TRUE]
        \/ ui' = [ui EXCEPT !.auto = TRUE, !.confirm = FALSE]
        \/ ui' = [ui EXCEPT !.disabled = TRUE]
        \/ \E view \in {"items", "pending"} : ui' = [ui EXCEPT !.mode = "playing", !.view = view]
    BY DEF UjianConfirm, UlanganConfirm, SubmitClick, AutoSubmit, Return, ChapterArchived
  <2> QED BY <1>1, <2>1 DEF PlayerType, PlayerScreen
<1> QED BY <1>1, <1>2, <1>3, <1>4, QuietPlayer DEF PlayerType

LEMMA SubmitFailsKept ==
    ASSUME PlayerInv, NEW kind, SubmitFails(kind)
    PROVE  PlayerInv'
<1>1. /\ PlayerType /\ srv' = srv /\ ui' = [ui EXCEPT !.auto = FALSE]
      /\ net' = [net EXCEPT !.submit = "idle"]
  BY DEF PlayerInv, SubmitFails
<1>2. past' \in PlayerPast /\ past'.mixed = past.mixed /\ past'.picks = past.picks
  BY <1>1, PlayerSpends DEF SubmitFails, PlayerType
<1>3. net' \in PlayerCalls /\ net'.read = net.read /\ net'.pick = net.pick
  BY <1>1 DEF PlayerType, PlayerCalls
<1>4. ui' \in PlayerScreen /\ ui'.items = ui.items /\ ui'.err = ui.err
  BY <1>1 DEF PlayerType, PlayerScreen
<1> QED BY <1>1, <1>2, <1>3, <1>4, QuietPlayer DEF PlayerType

LEMMA RowsKept ==
    ASSUME PlayerInv,
           ServeSubmit \/ CronGrades \/ PlayerTick \/ TeacherDeletes \/ TeacherCancels
    PROVE  PlayerInv'
<1>1. PlayerType /\ ui' = ui
  BY DEF PlayerInv, ServeSubmit, CronGrades, PlayerTick, TeacherDeletes, TeacherCancels
<1>2. past' \in PlayerPast /\ past'.mixed = past.mixed /\ past'.picks = past.picks
  BY <1>1, PlayerSpends DEF ServeSubmit, CronGrades, PlayerTick, TeacherDeletes, TeacherCancels,
     PlayerType
<1>3. net' \in PlayerCalls /\ net'.read = net.read /\ net'.pick = net.pick
  <2>1. net' = net \/ \E at \in {"ok", "no"} : net' = [net EXCEPT !.submit = at]
    BY DEF ServeSubmit, CronGrades, PlayerTick, TeacherDeletes, TeacherCancels
  <2> QED BY <1>1, <2>1 DEF PlayerType, PlayerCalls
<1>4. /\ srv' \in PlayerRows /\ srv'.saved = srv.saved
      /\ srv'.status = "selesai" =>
           \/ srv.status = "selesai" /\ srv'.graded = srv.graded
           \/ srv'.graded = srv.saved
  <2>1. CASE srv' = srv
    BY <1>1, <2>1 DEF PlayerType
  <2>2. CASE srv' = Grade
    BY <1>1, <2>2, PlayerParts DEF Grade, PlayerType, PlayerRows
  <2>3. CASE PlayerTick
    <3>1. srv.now + 1 \in 0..Late + 1
      BY <1>1, <2>3, PlayerParts DEF PlayerTick, Late
    <3> QED BY <1>1, <2>3, <3>1 DEF PlayerTick, PlayerType, PlayerRows
  <2>4. CASE TeacherDeletes
    <3>1. PICK q \in Soal : srv' = [srv EXCEPT !.gone = @ \union {q}]
      BY <2>4 DEF TeacherDeletes
    <3>2. srv.gone \union {q} \in SUBSET Soal
      BY <1>1, PlayerParts
    <3> QED BY <1>1, <3>1, <3>2 DEF PlayerType, PlayerRows
  <2>5. CASE TeacherCancels
    BY <1>1, <2>5 DEF TeacherCancels, PlayerType, PlayerRows
  <2> QED BY <2>1, <2>2, <2>3, <2>4, <2>5 DEF ServeSubmit, CronGrades
<1> QED BY <1>1, <1>2, <1>3, <1>4, QuietPlayer DEF PlayerType

-----------------------------------------------------------------------------
(* The items                                                               *)

\* A read that is served with a save of the question under way is mixed; any other finds
\* the last choice stored, if it was saved.
LEMMA ServeItemsKept ==
    ASSUME PlayerInv, ServeItems
    PROVE  PlayerInv'
<1> DEFINE data == [q \in Soal |-> IF q \in srv.gone THEN "gone" ELSE srv.saved[q]]
           mixed == past.mixed \union {q \in Soal : Unsettled(q)}
<1>1. /\ PlayerType /\ UNCHANGED <<ui, srv>> /\ net.read.at = "sent"
      /\ past' = [past EXCEPT !.mixed = mixed]
  BY DEF PlayerInv, ServeItems
<1>2. \/ net' = [net EXCEPT !.read = [at |-> "ok", data |-> data]]
      \/ net' = [net EXCEPT !.read.at = "no"]
  BY <1>1 DEF ServeItems, PlayerType, PlayerCalls
<1>3. data \in [Soal -> Item] /\ \A q \in Soal : data[q] \in {srv.saved[q], "gone"}
  BY <1>1, PlayerParts DEF Item
<1>4. mixed \in SUBSET Soal /\ \A q \in Soal \ mixed : q \notin past.mixed /\ ~Unsettled(q)
  BY <1>1, PlayerParts
<1> HIDE DEF data, mixed
<1>5. past' \in PlayerPast /\ past'.mixed = mixed /\ past'.picks = past.picks
  BY <1>1, <1>4 DEF PlayerType, PlayerPast
<1>6. /\ net' \in PlayerCalls /\ net'.pick = net.pick
      /\ net'.read.at = "ok" => net'.read.data = data
  <2>1. CASE net' = [net EXCEPT !.read = [at |-> "ok", data |-> data]]
    BY <1>1, <1>3, <2>1 DEF PlayerType, PlayerCalls
  <2>2. CASE net' = [net EXCEPT !.read.at = "no"]
    BY <1>1, <2>2 DEF PlayerType, PlayerCalls
  <2> QED BY <1>2, <2>1, <2>2
<1>7. \A q \in Soal : /\ Of(q)' = Of(q) /\ (Unsettled(q)' <=> Unsettled(q))
                      /\ \A n \in Picks : Last(q, n)' <=> Last(q, n)
  BY <1>6, SameQuestions DEF Unsettled, Of
<1>8. NumbersInv' /\ TimerInv'
  BY <1>5, <1>6, <1>7 DEF PlayerInv, NumbersInv, TimerInv
<1>9. AloneInv'
  BY <1>1, <1>3, <1>4, <1>5, <1>6, <1>7 DEF PlayerInv, AloneInv, Alone
<1> QED BY <1>1, <1>5, <1>6, <1>8, <1>9 DEF PlayerInv, PlayerType

LEMMA ItemsArriveKept ==
    ASSUME PlayerInv, NEW kind, ItemsArrive(kind)
    PROVE  PlayerInv'
<1>1. /\ PlayerType /\ UNCHANGED <<srv, past>> /\ net.read.at = "ok"
      /\ net' = [net EXCEPT !.read = NoRead]
  BY DEF PlayerInv, ItemsArrive
<1>2. ui' \in PlayerScreen /\ ui'.items = net.read.data /\ ui'.err = ui.err
  <2>1. PICK view \in {"items", ui.view} : ui' = [ui EXCEPT !.items = net.read.data, !.view = view]
    BY DEF ItemsArrive
  <2> QED BY <1>1, <2>1, PlayerParts DEF PlayerType, PlayerScreen
<1>3. net' \in PlayerCalls /\ net'.pick = net.pick /\ net'.read.at = "idle"
  BY <1>1, PlayerMarks DEF PlayerType, PlayerCalls
<1>4. \A q \in Soal : /\ Of(q)' = Of(q)
                      /\ \A n \in Picks : Last(q, n)' <=> Last(q, n)
  BY <1>3, SameQuestions
<1>5. NumbersInv' /\ TimerInv'
  BY <1>1, <1>3, <1>4 DEF PlayerInv, NumbersInv, TimerInv
<1>6. \A q \in Soal \ past.mixed, n \in Picks : Last(q, n) =>
        /\ net.pick[n].at \notin Underway \union {"timer"}
        /\ net.pick[n].at = "done" => ui'.items[q] \in {net.pick[n].jawaban, "gone"}
  BY <1>1, <1>2 DEF PlayerInv, AloneInv, Alone, Unsettled, Last
<1>7. AloneInv'
  BY <1>1, <1>2, <1>3, <1>4, <1>6 DEF PlayerInv, AloneInv, Alone
<1> QED BY <1>1, <1>2, <1>3, <1>5, <1>7 DEF PlayerInv, PlayerType

-----------------------------------------------------------------------------
(* The saves                                                               *)

\* A save that takes a step stays the save of its choice.
LEMMA OnePick ==
    ASSUME PlayerInv, NEW n \in Picks, NEW c \in Pick, c.soal = net.pick[n].soal,
           c.jawaban = net.pick[n].jawaban, net.pick[n].at # "none", c.at # "timer",
           net' = [net EXCEPT !.pick[n] = c], past'.picks = past.picks
    PROVE  /\ net' \in PlayerCalls /\ net'.read = net.read /\ net'.submit = net.submit
           /\ net'.pick[n] = c /\ net.pick[n].soal \in Soal
           /\ \A m \in Picks : m # n => net'.pick[m] = net.pick[m]
           /\ \A q \in Soal : /\ Of(q)' = Of(q)
                              /\ \A m \in Picks : Last(q, m)' <=> Last(q, m)
           /\ NumbersInv' /\ TimerInv'
<1>1. PlayerType /\ NumbersInv /\ TimerInv
  BY DEF PlayerInv
<1>2. /\ [net.pick EXCEPT ![n] = c] \in [Picks -> Pick]
      /\ net' = [net EXCEPT !.pick = [net.pick EXCEPT ![n] = c]]
  BY <1>1, PlayerParts
<1>3. /\ net' \in PlayerCalls /\ net'.read = net.read /\ net'.submit = net.submit
      /\ net'.pick = [net.pick EXCEPT ![n] = c]
  BY <1>1, <1>2 DEF PlayerType, PlayerCalls
<1>4. net'.pick[n] = c /\ \A m \in Picks : m # n => net'.pick[m] = net.pick[m]
  BY <1>1, <1>3, PlayerParts
<1>5. \A m \in Picks : net'.pick[m].soal = net.pick[m].soal /\ net'.pick[m].jawaban = net.pick[m].jawaban
  BY <1>4
<1>6. \A q \in Soal : /\ Of(q)' = Of(q)
                      /\ \A m \in Picks : Last(q, m)' <=> Last(q, m)
  BY <1>5, SameQuestions
<1>7. net.pick[n].soal \in Soal
  <2>1. net.pick[n] \in Pick /\ n <= past.picks
    BY <1>1, PlayerParts DEF NumbersInv
  <2> QED BY <1>1, <2>1 DEF NumbersInv, Pick
<1>8. NumbersInv'
  BY <1>1, <1>4, <1>5, <1>6 DEF NumbersInv
<1>9. TimerInv'
  BY <1>1, <1>4, <1>6 DEF TimerInv, Of
<1> QED BY <1>3, <1>4, <1>6, <1>7, <1>8, <1>9

LEMMA PickMoved ==
    ASSUME PlayerType, NEW n \in Picks,
           NEW at \in Underway \union {"cleared", "done", "failed"}
    PROVE  /\ [net.pick[n] EXCEPT !.at = at] \in Pick
           /\ [net.pick[n] EXCEPT !.at = at].at = at
           /\ [net.pick[n] EXCEPT !.at = at].soal = net.pick[n].soal
           /\ [net.pick[n] EXCEPT !.at = at].jawaban = net.pick[n].jawaban
           /\ [net EXCEPT !.pick[n].at = at] = [net EXCEPT !.pick[n] = [net.pick[n] EXCEPT !.at = at]]
<1>1. net.pick[n] \in Pick
  BY PlayerParts
<1>2. [net EXCEPT !.pick[n].at = at] = [net EXCEPT !.pick[n] = [net.pick[n] EXCEPT !.at = at]]
  BY PlayerParts DEF PlayerType, PlayerCalls
<1> QED BY <1>1, <1>2 DEF Pick, Underway

\* A step that touches neither a question nor its saves.
LEMMA Untouched ==
    ASSUME PlayerInv, NEW q \in Soal \ past.mixed, NEW n \in Picks, Last(q, n), Of(q)' = Of(q),
           \A m \in Of(q) : net'.pick[m] = net.pick[m], net'.read = net.read,
           srv'.saved[q] = srv.saved[q], srv'.status = srv.status,
           srv'.graded[q] = srv.graded[q], ui'.items[q] = ui.items[q],
           q \in ui'.err => q \in ui.err
    PROVE  Alone(q, n)'
<1>1. n \in Of(q)
  BY DEF Last
<1>2. Unsettled(q)' <=> Unsettled(q)
  BY DEF Unsettled
<1> QED BY <1>1, <1>2 DEF PlayerInv, AloneInv, Alone

\* A save that is fired beside another of its question is mixed.
LEMMA FiresKept ==
    ASSUME PlayerInv, NEW kind, NEW n \in Picks, DebounceFires(kind, n)
    PROVE  PlayerInv'
<1> DEFINE c == [net.pick[n] EXCEPT !.at = "sent"]
           s == net.pick[n].soal
           mixed == IF SaveUnderway(s) THEN past.mixed \union {s} ELSE past.mixed
<1>1. /\ PlayerType /\ UNCHANGED <<ui, srv>> /\ net.pick[n].at = "timer"
      /\ net' = [net EXCEPT !.pick[n].at = "sent"] /\ past' = [past EXCEPT !.mixed = mixed]
  BY DEF PlayerInv, DebounceFires
<1>2. /\ c \in Pick /\ c.at = "sent" /\ c.soal = s /\ c.jawaban = net.pick[n].jawaban
      /\ net' = [net EXCEPT !.pick[n] = c]
  BY <1>1, PickMoved DEF Underway
<1>3. past'.picks = past.picks /\ past'.mixed = mixed
  BY <1>1 DEF PlayerType, PlayerPast
<1> HIDE DEF c
<1>4. /\ net' \in PlayerCalls /\ net'.read = net.read /\ net'.pick[n] = c /\ s \in Soal
      /\ \A m \in Picks : m # n => net'.pick[m] = net.pick[m]
      /\ \A q \in Soal : /\ Of(q)' = Of(q)
                         /\ \A m \in Picks : Last(q, m)' <=> Last(q, m)
      /\ NumbersInv' /\ TimerInv'
  BY <1>1, <1>2, <1>3, OnePick
<1>5. mixed \in SUBSET Soal /\ past.mixed \subseteq mixed /\ (s \notin mixed => ~SaveUnderway(s))
  BY <1>1, <1>4, PlayerParts
<1>6. past' \in PlayerPast
  BY <1>1, <1>5 DEF PlayerType, PlayerPast
<1> HIDE DEF mixed
<1>7. AloneInv'
  <2> SUFFICES ASSUME NEW q \in Soal \ mixed, NEW m \in Picks, Last(q, m)
               PROVE  Alone(q, m)'
    BY <1>1, <1>3, <1>4 DEF AloneInv
  <2>1. CASE q = s
    <3>1. n \in Of(q) /\ m = n
      <4>1. n \in Of(q)
        BY <2>1 DEF Of
      <4>2. m <= n /\ n <= m
        BY <1>1, <4>1 DEF PlayerInv, TimerInv, Last
      <4> QED BY <4>1, <4>2, PlayerMarks
    <3>2. net.read.at # "ok"
      BY <1>1, <1>5, <2>1, <3>1 DEF PlayerInv, AloneInv, Alone, Unsettled
    <3>3. \A k \in Of(q) : net.pick[k].at \notin Underway
      BY <1>5, <2>1 DEF SaveUnderway
    <3>4. ui.items[q] \in {c.jawaban, "gone"}
      BY <1>1, <1>2, <1>5, <3>1 DEF PlayerInv, AloneInv, Alone
    <3> QED BY <1>1, <1>2, <1>4, <3>1, <3>2, <3>3, <3>4 DEF Of, Alone, Underway
  <2>2. CASE q # s
    <3>1. \A k \in Of(q) : net'.pick[k] = net.pick[k]
      BY <1>4, <2>2 DEF Of
    <3> QED BY <1>1, <1>4, <1>5, <3>1, Untouched
  <2> QED BY <2>1, <2>2
<1> QED BY <1>1, <1>4, <1>6, <1>7 DEF PlayerInv, PlayerType

\* A served save is alone on its way, or the last choice of its question is not.
LEMMA ServeAnswerKept ==
    ASSUME PlayerInv, NEW n \in Picks, ServeAnswer(n)
    PROVE  PlayerInv'
<1> DEFINE s == net.pick[n].soal
           j == net.pick[n].jawaban
           saved == [srv.saved EXCEPT ![s] = j]
<1>1. PlayerType /\ UNCHANGED <<ui, past>> /\ net.pick[n].at = "sent"
  BY DEF PlayerInv, ServeAnswer
<1>2. PICK at \in {"saved", "refused"} :
        /\ net' = [net EXCEPT !.pick[n].at = at]
        /\ \/ /\ at = "saved" /\ srv.status = "berlangsung" /\ srv' = [srv EXCEPT !.saved[s] = j]
           \/ at = "refused" /\ srv' = srv
  BY DEF ServeAnswer, Answerable
<1> DEFINE c == [net.pick[n] EXCEPT !.at = at]
<1>3. /\ c \in Pick /\ c.at = at /\ c.soal = s /\ c.jawaban = j
      /\ net' = [net EXCEPT !.pick[n] = c]
  BY <1>1, <1>2, PickMoved DEF Underway
<1> HIDE DEF c
<1>4. /\ net' \in PlayerCalls /\ net'.read = net.read /\ net'.pick[n] = c /\ s \in Soal
      /\ \A m \in Picks : m # n => net'.pick[m] = net.pick[m]
      /\ \A q \in Soal : /\ Of(q)' = Of(q)
                         /\ \A m \in Picks : Last(q, m)' <=> Last(q, m)
      /\ NumbersInv' /\ TimerInv'
  BY <1>1, <1>3, OnePick
<1>5. /\ saved \in [Soal -> Jawab \union {"none"}] /\ saved[s] = j
      /\ \A q \in Soal : q # s => saved[q] = srv.saved[q]
  <2>1. j \in Jawab \union {"none"}
    BY <1>1, PlayerParts DEF Pick
  <2> QED BY <1>1, <1>4, <2>1, PlayerParts
<1>6. srv' = srv \/ srv' = [srv EXCEPT !.saved = saved]
  BY <1>1, <1>2 DEF PlayerType, PlayerRows
<1> HIDE DEF saved
<1>7. /\ srv' \in PlayerRows /\ srv'.status = srv.status /\ srv'.graded = srv.graded
      /\ \A q \in Soal : q # s => srv'.saved[q] = srv.saved[q]
      /\ at = "saved" => srv'.saved[s] = j
  <2>1. srv' \in PlayerRows /\ srv'.status = srv.status /\ srv'.graded = srv.graded
    BY <1>1, <1>5, <1>6 DEF PlayerType, PlayerRows
  <2>2. srv' = srv \/ srv'.saved = saved
    BY <1>1, <1>6 DEF PlayerType, PlayerRows
  <2>3. at = "saved" => srv'.saved[s] = j
    BY <1>1, <1>2, <1>4, PlayerParts DEF PlayerType, PlayerRows
  <2> QED BY <1>5, <2>1, <2>2, <2>3
<1>8. AloneInv'
  <2> SUFFICES ASSUME NEW q \in Soal \ past.mixed, NEW m \in Picks, Last(q, m)
               PROVE  Alone(q, m)'
    BY <1>1, <1>4 DEF AloneInv
  <2>1. CASE q # s
    <3>1. \A k \in Of(q) : net'.pick[k] = net.pick[k]
      BY <1>4, <2>1 DEF Of
    <3> QED BY <1>1, <1>4, <1>7, <2>1, <3>1, Untouched
  <2>2. CASE q = s
    <3>1. n \in Of(q) /\ m \in Of(q) /\ Alone(q, m)
      BY <2>2 DEF PlayerInv, AloneInv, Last, Of
    <3>2. net.read.at # "ok"
      BY <1>1, <3>1 DEF Alone, Unsettled, Underway
    <3>3. CASE m = n
      BY <1>1, <1>2, <1>3, <1>4, <1>7, <2>2, <3>1, <3>2, <3>3 DEF Alone, Underway, Of
    <3>4. CASE m # n
      <4>1. net.pick[m].at \notin Underway \union {"done"} /\ net'.pick[m] = net.pick[m]
        BY <1>1, <1>4, <3>1, <3>4 DEF Alone, Underway
      <4> QED BY <1>1, <1>4, <3>1, <3>2, <4>1 DEF Alone, Underway
    <3> QED BY <3>3, <3>4
  <2> QED BY <2>1, <2>2
<1> QED BY <1>1, <1>4, <1>7, <1>8 DEF PlayerInv, PlayerType

\* The network only delays a save.
LEMMA DelaysKept ==
    ASSUME PlayerInv, NEW kind, NEW n \in Picks, LoseAnswer(n) \/ RetryAnswer(kind, n)
    PROVE  PlayerInv'
<1> DEFINE s == net.pick[n].soal
<1>1. PlayerType /\ UNCHANGED <<ui, srv>> /\ net.pick[n].at \in Underway
  BY DEF PlayerInv, LoseAnswer, RetryAnswer, Underway
<1>2. past' \in PlayerPast /\ past'.mixed = past.mixed /\ past'.picks = past.picks
  BY <1>1, PlayerSpends DEF LoseAnswer, RetryAnswer, PlayerType
<1>3. PICK c \in Pick : /\ c.at \in {"lost", "sent"} /\ c.soal = s
                        /\ c.jawaban = net.pick[n].jawaban /\ net' = [net EXCEPT !.pick[n] = c]
  <2>1. CASE LoseAnswer(n)
    BY <1>1, <2>1, PickMoved DEF LoseAnswer, Underway
  <2>2. CASE RetryAnswer(kind, n)
    <3> DEFINE tries == net.pick[n].tries + 1
               c == [net.pick[n] EXCEPT !.at = "sent", !.tries = tries]
    <3>1. net.pick[n] \in Pick /\ tries \in 0..SaveRetries
      BY <1>1, <2>2, PlayerParts DEF RetryAnswer, Pick, SaveRetries
    <3>2. net' = [net EXCEPT !.pick[n] = c]
      <4>1. net' = [net EXCEPT !.pick[n].at = "sent", !.pick[n].tries = @ + 1]
        BY <2>2 DEF RetryAnswer
      <4>2. /\ net \in PlayerCalls /\ net.pick \in [Picks -> Pick] /\ net.pick[n] \in Pick
        BY <1>1, PlayerParts DEF PlayerType
      <4> QED BY <4>1, <4>2 DEF PlayerCalls, Pick
    <3> HIDE DEF tries
    <3>3. c \in Pick /\ c.at = "sent" /\ c.soal = s /\ c.jawaban = net.pick[n].jawaban
      BY <3>1 DEF Pick, Underway
    <3> QED BY <3>2, <3>3
  <2> QED BY <2>1, <2>2
<1>4. /\ net' \in PlayerCalls /\ net'.read = net.read /\ net'.pick[n] = c /\ s \in Soal
      /\ \A m \in Picks : m # n => net'.pick[m] = net.pick[m]
      /\ \A q \in Soal : /\ Of(q)' = Of(q)
                         /\ \A m \in Picks : Last(q, m)' <=> Last(q, m)
      /\ NumbersInv' /\ TimerInv'
  BY <1>1, <1>2, <1>3, OnePick DEF Underway
<1>5. AloneInv'
  <2> SUFFICES ASSUME NEW q \in Soal \ past.mixed, NEW m \in Picks, Last(q, m)
               PROVE  Alone(q, m)'
    BY <1>2, <1>4 DEF AloneInv
  <2>1. CASE q # s
    <3>1. \A k \in Of(q) : net'.pick[k] = net.pick[k]
      BY <1>4, <2>1 DEF Of
    <3> QED BY <1>1, <1>4, <2>1, <3>1, Untouched
  <2>2. CASE q = s
    <3>1. n \in Of(q) /\ m \in Of(q) /\ Alone(q, m)
      BY <2>2 DEF PlayerInv, AloneInv, Last, Of
    <3>2. net.read.at # "ok"
      BY <1>1, <3>1 DEF Alone, Unsettled
    <3>3. CASE m = n
      BY SMTT(30), <1>1, <1>3, <1>4, <2>2, <3>1, <3>2, <3>3 DEF Alone, Underway, Of
    <3>4. CASE m # n
      <4>1. net.pick[m].at \notin Underway \union {"done"} /\ net'.pick[m] = net.pick[m]
        BY <1>1, <1>4, <3>1, <3>4 DEF Alone, Underway
      <4> QED BY <1>1, <1>4, <3>1, <3>2, <4>1 DEF Alone, Underway
    <3> QED BY <3>3, <3>4
  <2> QED BY <2>1, <2>2
<1> QED BY <1>1, <1>2, <1>4, <1>5 DEF PlayerInv, PlayerType

\* The answer of a save concerns its question's error alone.
LEMMA SettlesKept ==
    ASSUME PlayerInv, NEW kind, NEW n \in Picks, AnswerSettles(kind, n)
    PROVE  PlayerInv'
<1> DEFINE s == net.pick[n].soal
<1>1. /\ PlayerType /\ UNCHANGED <<srv, past>> /\ net.pick[n].at \in Underway
  BY DEF PlayerInv, AnswerSettles, Underway
<1>2. PICK at \in {"done", "failed"} :
        /\ net' = [net EXCEPT !.pick[n].at = at]
        /\ at = "done" => net.pick[n].at = "saved" /\ ui' = [ui EXCEPT !.err = @ \ {s}]
        /\ at = "failed" => ui' = [ui EXCEPT !.err = IF Playing THEN @ \union {s} ELSE @]
  BY DEF AnswerSettles
<1> DEFINE c == [net.pick[n] EXCEPT !.at = at]
<1>3. /\ c \in Pick /\ c.at = at /\ c.soal = s /\ c.jawaban = net.pick[n].jawaban
      /\ net' = [net EXCEPT !.pick[n] = c]
  BY <1>1, <1>2, PickMoved
<1> HIDE DEF c
<1>4. /\ net' \in PlayerCalls /\ net'.read = net.read /\ net'.pick[n] = c /\ s \in Soal
      /\ \A m \in Picks : m # n => net'.pick[m] = net.pick[m]
      /\ \A q \in Soal : /\ Of(q)' = Of(q)
                         /\ \A m \in Picks : Last(q, m)' <=> Last(q, m)
      /\ NumbersInv' /\ TimerInv'
  BY <1>1, <1>3, OnePick DEF Underway
<1>5. /\ ui' \in PlayerScreen /\ ui'.items = ui.items
      /\ \A q \in Soal : q # s /\ q \in ui'.err => q \in ui.err
      /\ at = "done" => s \notin ui'.err
  <2> DEFINE err == IF at = "done" THEN ui.err \ {s}
                    ELSE IF Playing THEN ui.err \union {s} ELSE ui.err
  <2>1. err \in SUBSET Soal /\ (\A q \in Soal : q # s /\ q \in err => q \in ui.err)
        /\ (at = "done" => s \notin err)
    BY <1>1, <1>4, PlayerParts
  <2>2. ui' = [ui EXCEPT !.err = err]
    BY <1>2
  <2> HIDE DEF err
  <2> QED BY <1>1, <2>1, <2>2 DEF PlayerType, PlayerScreen
<1>6. AloneInv'
  <2> SUFFICES ASSUME NEW q \in Soal \ past.mixed, NEW m \in Picks, Last(q, m)
               PROVE  Alone(q, m)'
    BY <1>1, <1>4 DEF AloneInv
  <2>1. CASE q # s
    <3>1. \A k \in Of(q) : net'.pick[k] = net.pick[k]
      BY <1>4, <2>1 DEF Of
    <3> QED BY <1>1, <1>4, <1>5, <2>1, <3>1, Untouched
  <2>2. CASE q = s
    <3>1. n \in Of(q) /\ m \in Of(q) /\ Alone(q, m)
      BY <2>2 DEF PlayerInv, AloneInv, Last, Of
    <3>2. net.read.at # "ok"
      BY <1>1, <3>1 DEF Alone, Unsettled
    <3>3. CASE m = n
      BY <1>1, <1>2, <1>3, <1>4, <1>5, <2>2, <3>1, <3>2, <3>3 DEF Alone, Underway, Of
    <3>4. CASE m # n
      <4>1. net.pick[m].at \notin Underway \union {"done"} /\ net'.pick[m] = net.pick[m]
        BY <1>1, <1>4, <3>1, <3>4 DEF Alone, Underway
      <4> QED BY <1>1, <1>4, <1>5, <3>1, <3>2, <4>1 DEF Alone, Underway
    <3> QED BY <3>3, <3>4
  <2> QED BY <2>1, <2>2
<1> QED BY <1>1, <1>4, <1>5, <1>6 DEF PlayerInv, PlayerType

-----------------------------------------------------------------------------
(* Choosing and leaving                                                    *)

\* A choice is the last of its question, and the only one that waits.
LEMMA ChoiceKept ==
    ASSUME PlayerInv, NEW s \in Soal, NEW v \in Jawab, HandleAnswer(s, v)
    PROVE  PlayerInv'
<1> DEFINE p == past.picks + 1
           picks == Debounced(s, v, p)
           new == [soal |-> s, jawaban |-> v, at |-> "timer", tries |-> 0]
           mixed == IF net.read.at = "ok" THEN past.mixed \union {s} ELSE past.mixed
           items == [ui.items EXCEPT ![s] = v]
<1>1. /\ PlayerType /\ srv' = srv /\ past.picks < MaxPick
      /\ net' = [net EXCEPT !.pick = picks]
      /\ past' = [past EXCEPT !.picks = p, !.mixed = mixed]
      /\ ui' = [ui EXCEPT !.items = items]
  <2>1. PlayerType
    BY DEF PlayerInv
  <2> QED BY <2>1 DEF HandleAnswer, PlayerType, PlayerScreen, PlayerPast
<1>2. p \in Picks /\ p \in 0..MaxPick /\ past.picks \in Nat
  BY <1>1, PlayerParts, PlayerMarks
<1>3. /\ new \in Pick /\ v \in Item
      /\ mixed \in SUBSET Soal /\ past.mixed \subseteq mixed
      /\ s \notin mixed => net.read.at # "ok"
      /\ items \in [Soal -> Item] /\ items[s] = v
      /\ \A q \in Soal : q # s => items[q] = ui.items[q]
  BY <1>1, PlayerParts, PlayerMarks DEF Pick, SaveRetries, Item
<1>4. /\ picks \in [Picks -> Pick] /\ picks[p] = new
      /\ \A n \in Picks : n # p => \/ picks[n] = net.pick[n]
                                   \/ /\ net.pick[n].soal = s /\ net.pick[n].at = "timer"
                                      /\ picks[n] = [net.pick[n] EXCEPT !.at = "cleared"]
      /\ \A n \in Picks : n # p /\ net.pick[n].soal = s => picks[n].at # "timer"
  <2>1. \A n \in Picks : /\ net.pick[n] \in Pick /\ [net.pick[n] EXCEPT !.at = "cleared"] \in Pick
                         /\ [net.pick[n] EXCEPT !.at = "cleared"].at = "cleared"
    BY <1>1, PlayerParts DEF Pick
  <2> QED BY <1>2, <1>3, <2>1 DEF Debounced
<1>5. \A n \in Picks : n # p => /\ picks[n].soal = net.pick[n].soal
                                /\ picks[n].jawaban = net.pick[n].jawaban
                                /\ picks[n].at = net.pick[n].at
                                     \/ (net.pick[n].at = "timer" /\ picks[n].at = "cleared")
  <2>1. \A n \in Picks : /\ net.pick[n] \in Pick
                         /\ [net.pick[n] EXCEPT !.at = "cleared"].at = "cleared"
                         /\ [net.pick[n] EXCEPT !.at = "cleared"].soal = net.pick[n].soal
                         /\ [net.pick[n] EXCEPT !.at = "cleared"].jawaban = net.pick[n].jawaban
    BY <1>1, PlayerParts DEF Pick
  <2> HIDE DEF picks, new
  <2> QED BY <1>4, <2>1
<1> HIDE DEF picks, mixed, items
<1>6. /\ net' \in PlayerCalls /\ net'.pick = picks /\ net'.read = net.read
      /\ past' \in PlayerPast /\ past'.picks = p /\ past'.mixed = mixed
      /\ ui' \in PlayerScreen /\ ui'.items = items /\ ui'.err = ui.err
  BY <1>1, <1>2, <1>3, <1>4 DEF PlayerType, PlayerCalls, PlayerPast, PlayerScreen
<1>7. net.pick[p].soal = "none" /\ net.pick[p].at = "none"
  BY <1>1, <1>2 DEF PlayerInv, NumbersInv
<1>8. /\ Of(s)' = Of(s) \union {p} /\ \A q \in Soal : q # s => Of(q)' = Of(q)
  BY <1>2, <1>3, <1>4, <1>5, <1>6, <1>7, PlayerMarks DEF Of
<1>9. \A n \in Picks : n <= past.picks \/ n >= p
  BY <1>2, PlayerMarks
<1>10. \A n \in Of(s) : n <= p /\ n # p
  BY <1>2, <1>7, PlayerMarks DEF PlayerInv, NumbersInv, Of
<1>11. \A n \in Picks : Last(s, n)' <=> n = p
  <2> HIDE DEF p
  <2>1. p \in Nat /\ \A n \in Picks : n \in Nat
    BY <1>2, PlayerMarks
  <2>2. \A n \in Of(s)' : n <= p
    BY <1>8, <1>10, <2>1
  <2> SUFFICES ASSUME NEW n \in Picks
               PROVE  Last(s, n)' <=> n = p
    OBVIOUS
  <2>3. ASSUME n = p
        PROVE  Last(s, n)'
    BY <1>8, <2>2, <2>3 DEF Last
  <2>4. ASSUME Last(s, n)'
        PROVE  n = p
    <3>1. n \in Of(s)' /\ p <= n
      BY <1>8, <2>4 DEF Last
    <3> QED BY <2>1, <2>2, <3>1
  <2> QED BY <2>3, <2>4
<1>12. \A q \in Soal, n \in Picks : q # s => (Last(q, n)' <=> Last(q, n))
  BY <1>8 DEF Last
<1>13. NumbersInv'
  <2>1. \A n \in Picks : n <= p <=> n = p \/ n <= past.picks
    BY <1>2, PlayerMarks
  <2>2. ASSUME NEW q \in Soal, Of(q)' # {}
        PROVE  \E n \in Picks : Last(q, n)'
    <3>1. CASE q = s
      BY <1>2, <1>11, <3>1
    <3>2. CASE q # s
      <4>1. Of(q) # {}
        BY <1>8, <2>2, <3>2
      <4>2. PICK n \in Picks : Last(q, n)
        BY <4>1 DEF PlayerInv, NumbersInv
      <4> QED BY <1>12, <3>2, <4>2
    <3> QED BY <3>1, <3>2
  <2>3. new.soal = s /\ new.jawaban = v /\ s # "none"
    BY PlayerMarks
  <2> HIDE DEF p, new
  <2>4. ASSUME NEW n \in Picks
        PROVE  /\ picks[n].soal # "none" <=> n = p \/ n <= past.picks
               /\ n = p \/ n <= past.picks => picks[n].jawaban \in Jawab
               /\ picks[n].at # "none" => n = p \/ n <= past.picks
    <3>1. CASE n = p
      BY <1>4, <2>3, <3>1
    <3>2. CASE n # p
      BY <1>5, <3>2 DEF PlayerInv, NumbersInv
    <3> QED BY <3>1, <3>2
  <2> QED BY <1>6, <2>1, <2>2, <2>4 DEF NumbersInv
<1>14. TimerInv'
  <2> SUFFICES ASSUME NEW q \in Soal, NEW n \in Of(q)', NEW m \in Of(q)', picks[n].at = "timer"
               PROVE  m <= n
    BY <1>6 DEF TimerInv
  <2>1. CASE q = s
    <3>1. n = p
      BY <1>4, <1>8, <2>1 DEF Of
    <3> QED BY <1>8, <1>10, <1>2, <2>1, <3>1
  <2>2. CASE q # s
    BY <1>5, <1>7, <1>8, <2>2 DEF PlayerInv, TimerInv, Of
  <2> QED BY <2>1, <2>2
<1>15. AloneInv'
  <2> SUFFICES ASSUME NEW q \in Soal \ mixed, NEW n \in Picks, Last(q, n)'
               PROVE  Alone(q, n)'
    BY <1>6 DEF AloneInv
  <2>1. CASE q = s
    <3>1. n = p /\ net'.pick[n] = new
      BY <1>4, <1>6, <1>11, <2>1
    <3> QED BY <1>3, <1>6, <2>1, <3>1 DEF Alone, Underway
  <2>2. CASE q # s
    <3>1. Last(q, n) /\ q \in Soal \ past.mixed
      BY <1>3, <1>12, <2>2
    <3>2. \A m \in Of(q) : net'.pick[m] = net.pick[m]
      BY <1>4, <1>6, <1>7, <2>2, PlayerMarks DEF Of
    <3> QED BY <1>1, <1>3, <1>6, <1>8, <2>2, <3>1, <3>2, Untouched
  <2> QED BY <2>1, <2>2
<1> QED BY <1>1, <1>6, <1>13, <1>14, <1>15 DEF PlayerInv, PlayerType

\* Leaving clears the debounces.
LEMMA UnmountKept ==
    ASSUME PlayerInv, NEW kind, SubmitDone(kind) \/ Leave(kind)
    PROVE  PlayerInv'
<1> DEFINE picks == Unmounted
<1>1. PlayerType /\ UNCHANGED <<srv, past>>
  BY DEF PlayerInv, SubmitDone, Leave
<1>2. /\ picks \in [Picks -> Pick]
      /\ \A n \in Picks : \/ picks[n] = net.pick[n]
                          \/ /\ net.pick[n].at = "timer" /\ picks[n].at = "cleared"
                             /\ picks[n].soal = net.pick[n].soal
                             /\ picks[n].jawaban = net.pick[n].jawaban
  <2>1. \A n \in Picks : /\ net.pick[n] \in Pick
                         /\ [net.pick[n] EXCEPT !.at = "cleared"] \in Pick
                         /\ [net.pick[n] EXCEPT !.at = "cleared"].at = "cleared"
                         /\ [net.pick[n] EXCEPT !.at = "cleared"].soal = net.pick[n].soal
                         /\ [net.pick[n] EXCEPT !.at = "cleared"].jawaban = net.pick[n].jawaban
    BY <1>1, PlayerParts DEF Pick
  <2> QED BY <2>1 DEF Unmounted
<1>3. net' \in PlayerCalls /\ net'.pick = picks /\ net'.read = net.read
  <2>1. \/ net' = [net EXCEPT !.submit = "idle", !.pick = picks]
        \/ net' = [net EXCEPT !.pick = picks]
    BY DEF SubmitDone, Leave
  <2> HIDE DEF picks
  <2> QED BY <1>1, <1>2, <2>1 DEF PlayerType, PlayerCalls
<1>4. ui' \in PlayerScreen /\ ui'.items = ui.items /\ ui'.err = {}
  <2>1. \/ ui' = [ui EXCEPT !.confirm = FALSE, !.mode = "result", !.err = {}]
        \/ ui' = [ui EXCEPT !.mode = "lobby", !.err = {}, !.confirm = FALSE, !.auto = FALSE]
    BY DEF SubmitDone, Leave
  <2> QED BY <1>1, <2>1 DEF PlayerType, PlayerScreen
<1> HIDE DEF picks
<1>5. \A q \in Soal : /\ Of(q)' = Of(q)
                      /\ \A m \in Picks : Last(q, m)' <=> Last(q, m)
  BY <1>2, <1>3, SameQuestions
<1>6. NumbersInv'
  BY <1>1, <1>2, <1>3, <1>5 DEF PlayerInv, NumbersInv
<1>7. TimerInv'
  BY <1>2, <1>3, <1>5 DEF PlayerInv, TimerInv, Of
<1>8. AloneInv'
  <2> SUFFICES ASSUME NEW q \in Soal \ past.mixed, NEW n \in Picks, Last(q, n)
               PROVE  Alone(q, n)'
    BY <1>1, <1>5 DEF AloneInv
  <2>1. Alone(q, n) /\ n \in Of(q)
    BY DEF PlayerInv, AloneInv, Last
  <2>2. \A m \in Picks : picks[m].at \in Underway \union {"saved", "done", "timer"} => picks[m] = net.pick[m]
    BY <1>2 DEF Underway
  <2>3. Unsettled(q)' => Unsettled(q)
    BY <1>3, <1>5, <2>2 DEF Unsettled, Of
  <2> QED BY <1>1, <1>3, <1>4, <1>5, <2>1, <2>2, <2>3 DEF Alone, Underway, Of
<1> QED BY <1>1, <1>3, <1>4, <1>6, <1>7, <1>8 DEF PlayerInv, PlayerType

-----------------------------------------------------------------------------

LEMMA PlayerInitially == InitPlayer => PlayerInv
<1> SUFFICES ASSUME InitPlayer PROVE PlayerInv
  OBVIOUS
<1> DEFINE blank == [q \in Soal |-> "none"]
           picks == [n \in Picks |-> Unpicked]
<1>1. PICK kind \in Kinds, lag \in {0, 1} :
        /\ ui = [screen |-> "player", kind |-> kind, mode |-> "playing", view |-> "pending",
                 items |-> blank, err |-> {}, confirm |-> FALSE,
                 auto |-> FALSE, disabled |-> FALSE]
        /\ net = [read |-> NoRead, pick |-> picks, submit |-> "idle"]
        /\ srv = [status |-> "berlangsung", saved |-> blank,
                  graded |-> blank, gone |-> {}, now |-> 0, lag |-> lag]
        /\ past = [events |-> 0, picks |-> 0, mixed |-> {}]
  BY DEF InitPlayer
<1>2. /\ blank \in [Soal -> Item] /\ blank \in [Soal -> Jawab \union {"none"}]
      /\ picks \in [Picks -> Pick] /\ \A n \in Picks : picks[n] = Unpicked
      /\ 0 \in 0..MaxEvents /\ 0 \in 0..MaxPick /\ 0 \in 0..Late + 1
  BY PlayerMarks DEF Item, Late
<1> HIDE DEF blank, picks
<1>3. ui \in PlayerScreen
  BY <1>1, <1>2 DEF PlayerScreen
<1>4. net \in PlayerCalls /\ srv \in PlayerRows /\ past \in PlayerPast
  BY <1>1, <1>2, PlayerMarks DEF PlayerCalls, PlayerRows, PlayerPast
<1>5. \A q \in Soal : Of(q) = {}
  BY <1>1, <1>2, PlayerMarks DEF Of, Unpicked
<1>6. NumbersInv
  BY <1>1, <1>2, <1>5, PlayerMarks DEF NumbersInv, Unpicked
<1> QED BY <1>3, <1>4, <1>5, <1>6 DEF PlayerInv, PlayerType, TimerInv, AloneInv, Last

LEMMA PlayerNext ==
    ASSUME PlayerInv, [NextPlayer]_browser
    PROVE  PlayerInv'
<1>1. CASE UNCHANGED browser
  BY <1>1, QuietPlayer DEF browser, PlayerInv, PlayerType
<1>2. CASE PlayerStep
  BY <1>2, ReadItemsKept, ItemsFailKept, ControlsKept, SubmitFailsKept, RowsKept, ServeItemsKept,
     ItemsArriveKept, FiresKept, ServeAnswerKept, DelaysKept, SettlesKept, ChoiceKept, UnmountKept
     DEF PlayerStep
<1> QED BY <1>1, <1>2, StepsOfPlayer

\* Items, saves and rows keep to the code's types, choices are numbered in order, only the
\* last choice of a question waits for its debounce, and a save that nothing of its
\* question overlapped is alone on its way, then stored, shown and graded.
THEOREM PlayerInvariant == SpecPlayer => []PlayerInv
<1>1. InitPlayer => PlayerInv
  BY PlayerInitially
<1>2. PlayerInv /\ [NextPlayer]_browser => PlayerInv'
  BY PlayerNext
<1> QED BY <1>1, <1>2, PTL DEF SpecPlayer

\* Items, saves, timers and rows hold what the code's types allow.
THEOREM PlayerTyped == SpecPlayer => []PlayerTypeOK
<1>1. PlayerInv => PlayerTypeOK
  BY DEF PlayerInv, PlayerTypeOK
<1> QED BY <1>1, PlayerInvariant, PTL

\* A choice whose save nothing of its question overlapped stands: on the screen, in the
\* stored answers and in the grade, whoever graded.
THEOREM ChoicesStand == SpecPlayer => []SettledChoiceStands
<1>1. ASSUME PlayerInv, NEW q \in Soal, Settled(q)
      PROVE  LET j == net.pick[Newest(q)].jawaban IN
             /\ srv.saved[q] = j /\ q \notin ui.err /\ ui.items[q] \in {j, "gone"}
             /\ srv.status = "selesai" => srv.graded[q] = j
  <2>1. PICK n \in Picks : Last(q, n)
    BY <1>1 DEF PlayerInv, NumbersInv, Settled
  <2>2. Newest(q) \in Of(q) /\ \A m \in Of(q) : m <= Newest(q)
    BY <2>1 DEF Newest, Last
  <2>3. Newest(q) = n
    BY <2>1, <2>2, OnlyLast DEF Last, Of
  <2>4. q \in Soal \ past.mixed /\ net.pick[n].at = "done"
    BY <1>1, <2>3 DEF Settled
  <2>5. Alone(q, n)
    BY <1>1, <2>1, <2>4 DEF PlayerInv, AloneInv
  <2> QED BY <2>3, <2>4, <2>5 DEF Alone
<1>2. PlayerInv => SettledChoiceStands
  BY <1>1 DEF SettledChoiceStands, SettledAgrees, SettledIsGraded
<1> QED BY <1>2, PlayerInvariant, PTL
=============================================================================
