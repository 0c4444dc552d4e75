--------------------------- MODULE MCUjianAttempt ---------------------------
(* Small instances of UjianAttempt: the exam, bank and override rows the   *)
(* configurations start from.                                              *)
EXTENDS UjianAttempt, TLC

CONSTANTS q1, q2, r1, r2, s1, s2

\* A published manual exam over all questions, open until tick 1.
Manual ==
    [status |-> "published", waktuMulai |-> NULL, waktuSelesai |-> 1,
     durasi |-> 1, batas |-> 2, unlimited |-> FALSE, mode |-> "manual",
     sumber |-> Soal, jumlah |-> 0, version |-> 1]
\* One question drawn at random, one attempt, one tick long.
Random == [Manual EXCEPT !.mode = "random", !.jumlah = 1, !.batas = 0]

ManualExam == {Manual}
OneOrTwoTries == {Manual, [Manual EXCEPT !.batas = 0]}
\* Exams a Start must refuse or limit differently.
MixedExams ==
    {Random, [Random EXCEPT !.waktuMulai = 1, !.unlimited = TRUE],
     [Manual EXCEPT !.mode = "", !.sumber = {}],
     [Manual EXCEPT !.status = "draft"]}

\* Every question worth p, with answer "a".
Bank(p) == [q \in Soal |-> [kunci |-> "a", poin |-> p, deleted |-> FALSE]]
BankOne == {Bank(1)}
BankMax == {Bank(MaxPoin)}

Susulan(from, d) == [ada |-> TRUE, waktuMulai |-> from, waktuSelesai |-> 2,
                     durasi |-> d, maxAttempt |-> 1]
OverrideNone == {[s \in Siswa |-> NoOverride]}
OverrideSome ==
    {[s \in Siswa |-> o] : o \in {NoOverride, Susulan(NULL, NULL), Susulan(2, 2)}}

Perms == Permutations(Req)
=============================================================================
