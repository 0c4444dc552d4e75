SPECIFICATION Spec
CONSTANTS
  r1 = r1
  r2 = r2
  s1 = s1
  s2 = s2
  q1 = q1
  q2 = q2
  Siswa = {s1}
  Enrolled = {s1}
  Soal = {q1}
  Editable = {}
  Jawab = {"a"}
  HasilId = {1, 2}
  Req = {r1, r2}
  Batch = 1
  Grace = 1
  MaxPoin = 1
  MaxNilai = 9
  MaxTime = 2
  MaxFault = 1
  UjianAwal <- OneOrTwoTries
  BankAwal <- BankOne
  OverrideAwal <- OverrideNone
SYMMETRY Perms
INVARIANTS NoStartCollision OneGradeEvent LateAnswerNeverScores IndInv
PROPERTIES LimitRespected CancelSeenUnderLock FinalIsFinal ImplementsLife
