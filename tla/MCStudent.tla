----------------------------- MODULE MCStudent -----------------------------
(* The student's screens on small instances: the exam player, the practice *)
(* player, the exam lobby, the assignment panel and the chat.              *)
EXTENDS ExamPlayer, LatihanPlayer, ExamLobby, Submissions, Chat, TLC

\* An exam open from tick 0 to the end, one attempt, reviewed at once.
OpenExam ==
  [published |-> TRUE, opens |-> 0, closes |-> 9, limit |-> 1, unlimited |-> FALSE,
   review |-> TRUE, reviewAt |-> 0]
MCExams ==
  {OpenExam, [OpenExam EXCEPT !.published = FALSE],
   [OpenExam EXCEPT !.limit = 2, !.reviewAt = 1],
   [OpenExam EXCEPT !.opens = 1, !.closes = 1, !.review = FALSE],
   [OpenExam EXCEPT !.unlimited = TRUE]}
\* A susulan that opens when the exam may have closed.
MCGrants == {[opens |-> 2, closes |-> 2, max |-> 2]}

\* The staff starts on a conversation it has read; a message of the other end makes it
\* unread.
InitRead == InitChat /\ (ui.kind \in Staff => srv.conv.unread = 0)

Init == InitPlayer \/ InitLatihan \/ InitLobby \/ InitTugas \/ InitRead
Next == NextPlayer \/ NextLatihan \/ NextLobby \/ NextTugas \/ NextChat
Spec == Init /\ [][Next]_browser
=============================================================================
