SPECIFICATION Spec
CONSTANTS
  r1 = r1
  r2 = r2
  s1 = s1
  s2 = s2
  q1 = q1
  q2 = q2
  Siswa = {s1}
  Enrolled = {s1}
  Soal = {q1, q2}
  Editable = {q1}
  Jawab = {"a"}
  HasilId = {1, 2}
  Req = {r1}
  Batch = 1
  Grace = 1
  MaxPoin = 2
  MaxNilai = 1
  MaxTime = 3
  MaxFault = 1
  UjianAwal <- MixedExams
  BankAwal <- BankMax
  OverrideAwal <- OverrideSome
CHECK_DEADLOCK FALSE
INVARIANTS FinishTimeSound
