---------------------------- MODULE MCUjianAuthor ----------------------------
(* Small instances of UjianAuthor.                                         *)
EXTENDS UjianAuthor, TLC

CONSTANTS q1, q2, r1, s1, g1, g2

\* A published exam with the first question, open from 0 to 1.
Published ==
    {[status |-> "published", waktuMulai |-> 0, waktuSelesai |-> 1, durasi |-> 1,
     batas |-> 1, unlimited |-> FALSE, mode |-> "manual", sumber |-> {q1},
     jumlah |-> 0, version |-> 1]}

BankOne == {[q \in Soal |-> [kunci |-> "a", poin |-> 1, deleted |-> FALSE]]}
OverrideNone == {[s \in Siswa |-> NoOverride]}

\* Each edit moves one end of the window, so that both together turn it
\* round, and replaces the source.
Later == "waktuMulai" :> 1 @@ "mode" :> "manual" @@ "sumber" :> {q2} @@ "jumlah" :> 0
Sooner == "waktuSelesai" :> 0 @@ "mode" :> "random" @@ "sumber" :> {q1, q2} @@ "jumlah" :> 1
Longer == "durasi" :> 2
WindowAndSource == {Later, Sooner}
Duration == {Longer}

Perms == Permutations(Guru)
NoSusulans == {}
OneSusulan == {[ada |-> TRUE, waktuMulai |-> NULL, waktuSelesai |-> 1,
                durasi |-> 2, maxAttempt |-> 1]}
=============================================================================
