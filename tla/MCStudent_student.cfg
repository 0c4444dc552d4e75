SPECIFICATION Spec
CONSTANTS
  Soal = {q1}
  Jawab = {a, b}
  MaxPick = 2
  Butir = {q1}
  MaxTry = 2
  Exams <- MCExams
  Grants <- MCGrants
  MaxAttempt = 2
  EndTime = 2
  MaxSubmit = 2
  MaxChat = 3
  MaxText = 1
  MaxEvents = 1
CHECK_DEADLOCK FALSE
INVARIANTS SettledChoiceStands  ButtonsAgree GradeFitsWork   ChatInStep
