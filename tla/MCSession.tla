----------------------------- MODULE MCSession -----------------------------
(* The session of two tabs of one browser on small instances. *)
EXTENDS Session, TLC

CONSTANTS t1, t2

MCTabs == {t1, t2}

\* One tab that visits every page, or two tabs on their landing pages.
Wanderer ==
  [opens  |-> (t1 :> {"login", "home", "foreign", "me", "security", "devices"})
              @@ (t2 :> {}),
   tokens |-> 2]
Neighbours == [opens |-> [t \in MCTabs |-> {"home"}], tokens |-> 3]

MCHabits == {Wanderer, Neighbours}
=============================================================================
