---------------------------- MODULE MCImportJob ----------------------------
(* Small instances of ImportJob: the CSV files of the jobs. *)
EXTENDS ImportJob, TLC

CONSTANTS j1, r1, r2, e1, e2

R(e, k) == [email |-> e, kode |-> k, valid |-> TRUE]
Bad(e) == [R(e, "") EXCEPT !.valid = FALSE]

\* One job: a row to enrol, and a row whose class does not exist.
OneFile == [j \in Jobs |-> <<R(e1, "known"), R(e2, "unknown")>>]
\* One job: a row of each kind.
EveryRow == [j \in Jobs |-> <<R(e1, "known"), R(e2, "unknown"), Bad(e1)>>]

Perms == Permutations(Req)
=============================================================================
