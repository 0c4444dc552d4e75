----------------------------- MODULE MCSoalBab -----------------------------
(* Small instances of SoalBab: the setting and question rows the           *)
(* configurations start from, and what the teacher may write.              *)
EXTENDS SoalBab, TLC

CONSTANTS q1, q2, r1, r2, s1, s2

\* One question, one tick, b attempts.
Isi(n, b) == [jumlah |-> n, durasi |-> 1, batas |-> b, unlimited |-> FALSE,
              review |-> FALSE]
Stored(x) == [ada |-> TRUE, isi |-> x, version |-> 1]
NoSetting == {[ada |-> FALSE, isi |-> Isi(1, 1), version |-> 0]}
OneTry == {Stored(Isi(1, 1))}
NoneOrOneTry == NoSetting \cup OneTry
TwoTries == {Stored(Isi(1, 2))}
\* The teacher may still save the setting, or has used up the bound on edits
\* and left the attempts unlimited.
SettingsOrTries ==
    NoneOrOneTry \cup {[ada |-> TRUE, isi |-> [Isi(1, 1) EXCEPT !.unlimited = TRUE],
                       version |-> MaxVersion]}

Row(m, p) == [ada |-> TRUE, kunci |-> "a", poin |-> p, mode |-> m, version |-> 1]
Absent == [Row("keduanya", 1) EXCEPT !.ada = FALSE, !.version = 0]
AllExam == {[q \in Soal |-> Row("ulangan", 1)]}
AllBoth == {[q \in Soal |-> Row("keduanya", 1)]}
OneAbsent == {[q \in Soal |-> IF q = q1 THEN Row("keduanya", 1) ELSE Absent]}

TwoSettings == {Isi(1, 1), Isi(1, 2)}
OneSetting == {Isi(1, 2)}
KeyEdits == {[kunci |-> "b"], [poin |-> MaxPoin], [mode |-> "latihan"]}
NewRows == {Row("ulangan", 1)}

Perms == Permutations(Req)
=============================================================================
