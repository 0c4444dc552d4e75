------------------------------ MODULE Browser ------------------------------
(***************************************************************************)
(* What the screens of the web application share.  A screen is a React     *)
(* component tree: it keeps state of its own, the query cache and the      *)
(* mutations in flight, and meets the service only through requests, whose *)
(* answers come back in any order.  Each screen's module gives these four  *)
(* variables the fields it needs and guards its actions with ui.screen, so *)
(* that screens compose by the disjunction of their next-state relations.  *)
(***************************************************************************)
EXTENDS Naturals, FiniteSets

CONSTANT MaxEvents  \* bound: lost messages, reloads, late changes by others

ASSUME BrowserAssumption == MaxEvents \in Nat

VARIABLES
  ui,    \* the screen: component state and query cache
  net,   \* its requests: sent, served and on the way back
  srv,   \* the rows of the service the screen is about
  past   \* history and the bounded events so far

browser == <<ui, net, srv, past>>

\* One of the bounded events happens.
Spend == past.events < MaxEvents /\ past' = [past EXCEPT !.events = @ + 1]
=============================================================================
