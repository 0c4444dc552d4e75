SPECIFICATION Spec
CONSTANTS
  r1 = r1
  r2 = r2
  s1 = s1
  s2 = s2
  q1 = q1
  q2 = q2
  Siswa = {s1}
  Soal = {q1}
  Jawab = {"a"}
  HasilId = {1, 2}
  Req = {r1, r2}
  Editable = {}
  Batch = 1
  Grace = 1
  MaxPoin = 1
  MaxNilai = 9
  MaxTime = 2
  MaxFault = 0
  MaxVersion = 2
  SettingAwal <- SettingsOrTries
  SoalAwal <- AllExam
  Settings <- OneSetting
  Edits = {}
  SoalBaru = {}
CHECK_DEADLOCK FALSE
SYMMETRY Perms
INVARIANTS OneRunningUlangan GradeCoversAnswers
PROPERTIES ImplementsLife SettingNotOverwritten
