---------------------------- MODULE AttemptLife ----------------------------
(***************************************************************************)
(* What internal/ujian and internal/soalbab promise of graded attempts,    *)
(* without goroutines, locks, answers or clocks: a student has one running *)
(* attempt at a time, an attempt that was closed never runs again, and a   *)
(* grade is written once.  A grade may still reach an attempt that was     *)
(* just closed, because a cancel takes no lock.                            *)
(***************************************************************************)
EXTENDS Integers

CONSTANTS Siswa, HasilId

VARIABLES
    owner,  \* the student of each attempt
    phase,  \* "none" before it exists, "running", "closed"
    grade   \* its nilai_total, -1 before there is one

lifeVars == <<owner, phase, grade>>

Init ==
    /\ owner \in [HasilId -> Siswa]
    /\ phase = [h \in HasilId |-> "none"]
    /\ grade = [h \in HasilId |-> -1]

RunningOf(s) == {h \in HasilId : phase[h] = "running" /\ owner[h] = s}

Open(h, s) ==
    /\ phase[h] = "none"
    /\ RunningOf(s) = {}
    /\ owner' = [owner EXCEPT ![h] = s]
    /\ phase' = [phase EXCEPT ![h] = "running"]
    /\ grade' = grade

Score(h) ==
    /\ phase[h] # "none"
    /\ grade[h] = -1
    /\ phase' = [phase EXCEPT ![h] = "closed"]
    /\ grade'[h] \in Nat
    /\ grade' = [grade EXCEPT ![h] = grade'[h]]
    /\ owner' = owner

Abandon(h) ==
    /\ phase[h] # "none"
    /\ phase' = [phase EXCEPT ![h] = "closed"]
    /\ UNCHANGED <<owner, grade>>

Next ==
    \E h \in HasilId :
        \/ \E s \in Siswa : Open(h, s)
        \/ Score(h)
        \/ Abandon(h)

Spec == Init /\ [][Next]_lifeVars
=============================================================================
