SPECIFICATION Spec
CONSTANTS
  r1 = r1
  r2 = r2
  s1 = s1
  s2 = s2
  q1 = q1
  q2 = q2
  Siswa = {s1}
  Soal = {q1, q2}
  Jawab = {"a", "b"}
  HasilId = {1}
  Req = {r1, r2}
  Editable = {q1, q2}
  Batch = 1
  Grace = 1
  MaxPoin = 2
  MaxNilai = 1
  MaxTime = 1
  MaxFault = 0
  MaxVersion = 2
  SettingAwal <- OneTry
  SoalAwal <- OneAbsent
  Settings = {}
  Edits <- KeyEdits
  SoalBaru <- NewRows
CHECK_DEADLOCK FALSE
SYMMETRY Perms
INVARIANTS VerdictHiddenWhileRunning AnsweredQuestionKept
