------------------------------ MODULE MCStaff ------------------------------
(* The screens of teachers and administrators on small instances: a list   *)
(* of rows with its editor, the order of the chapters, the images of a     *)
(* question, the paged lists and the page of an account.                   *)
EXTENDS RowEditor, Reorder, QuestionImages, PagedList, Accounts, TLC

\* What a visit to an account is about.
MCPlans ==
  {[ops |-> {"name", "role"}, calls |-> 2],
   [ops |-> {"reset", "revoke"}, calls |-> 1],
   [ops |-> {"suspend", "unsuspend"}, calls |-> 2],
   [ops |-> {"unlock"}, calls |-> 1]}

Init == InitRows \/ InitReorder \/ InitImages \/ InitList \/ InitAccount
Next == NextRows \/ NextReorder \/ NextImages \/ NextList \/ NextAccount
Spec == Init /\ [][Next]_browser
=============================================================================
