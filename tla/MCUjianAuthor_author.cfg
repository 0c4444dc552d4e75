SPECIFICATION AuthorSpec
CONSTANTS
  r1 = r1
  s1 = s1
  q1 = q1
  q2 = q2
  g1 = g1
  g2 = g2
  Siswa = {s1}
  Enrolled = {s1}
  Soal = {q1, q2}
  Editable = {}
  Jawab = {"a"}
  HasilId = {1}
  Req = {r1}
  Guru = {g1, g2}
  Batch = 1
  Grace = 1
  MaxPoin = 1
  MaxNilai = 9
  MaxTime = 0
  MaxFault = 1
  UjianAwal <- Published
  BankAwal <- BankOne
  OverrideAwal <- OverrideNone
  Edits <- WindowAndSource
  Susulans <- OneSusulan
  MaxVersion = 3
CHECK_DEADLOCK FALSE
SYMMETRY Perms
INVARIANTS NoOrphanAttempt 
PROPERTIES NoLostUpdate
