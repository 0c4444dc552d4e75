-------------------------- MODULE ImportJob_proofs --------------------------
(* Proofs about ImportJob for every number of jobs, requests and addresses, *)
(* every file, TTL and bound: its types, the inductive invariant IndInv and *)
(* the two properties that follow from it.                                  *)
EXTENDS ImportJob, FiniteSetTheorems, TLAPS

-----------------------------------------------------------------------------
(* What the helpers do                                                      *)

JobRow == [status : Status, left : 0..PreviewTTL, evict : 0..CredentialsTTL,
           path : BOOLEAN, success : Nat, errors : SUBSET Nat]
ReqState == [pc : Pc, job : Jobs \cup {Nobody}, i : Nat, creds : SUBSET Emails,
             errors : SUBSET Nat]
ReqOK(x) ==
    /\ x \in ReqState
    /\ x.pc # "idle" => x.job \in Jobs
    /\ x.pc \in {"check", "create", "enroll"} => x.i \in 1..Len(File[x.job])

ReqTyped == req \in [Req -> ReqState] /\ \A r \in Req : ReqOK(req[r])
Others(r) == \A q \in Req : q # r => req'[q] = req[q]

\* The requests are typed one by one.
Typed ==
    /\ job \in [Jobs -> JobRow]
    /\ csv \subseteq Jobs
    /\ file \in [Jobs -> {NoFile} \cup SUBSET Emails]
    /\ made \in [Emails -> Jobs \cup {Nobody, Other}]
    /\ enrolled \subseteq Emails
    /\ ReqTyped
    /\ cleaner \in [pc : {"asleep", "csv", "credentials"}, todo : SUBSET Jobs,
                    due : SUBSET Jobs]
    /\ flips \in [Jobs -> Nat]
    /\ fault \in 0..MaxFault
LEMMA TypeByRequest == (TypeOK <=> Typed) /\ (TypeOK' <=> Typed')
<1>1. TypeOK <=> Typed
  BY DEF TypeOK, Typed, JobRow, ReqTyped, ReqState, ReqOK, Job
<1>2. TypeOK' <=> Typed'
  BY DEF TypeOK, Typed, JobRow, ReqTyped, ReqState, ReqOK, Job
<1> QED BY <1>1, <1>2

\* A request that becomes a well formed one leaves the others alone.
LEMMA Becomes ==
    ASSUME ReqTyped, NEW r \in Req, NEW x, ReqOK(x), req' = [req EXCEPT ![r] = x]
    PROVE  ReqTyped' /\ Others(r) /\ req'[r] = x
<1>1. x \in ReqState
  BY DEF ReqOK
<1>2. req'[r] = x /\ \A q \in Req : q # r => req'[q] = req[q]
  BY DEF ReqTyped
<1>3. req' \in [Req -> ReqState]
  BY <1>1 DEF ReqTyped
<1>4. \A q \in Req : ReqOK(req'[q])
  BY <1>2 DEF ReqTyped
<1> QED BY <1>2, <1>3, <1>4 DEF ReqTyped, Others, ReqOK

\* What a request is once it returns, or begins to work on a job.
LEMMA FreshRequests ==
    /\ ReqOK(Idle) /\ Idle.pc = "idle"
    /\ \A j \in Jobs, pc \in {"insert", "cancel", "flip"} :
          /\ ReqOK(Working(pc, j))
          /\ Working(pc, j).pc = pc /\ Working(pc, j).job = j
          /\ Working(pc, j).i = 1 /\ Working(pc, j).creds = {}
          /\ Working(pc, j).errors = {}
BY DEF ReqOK, ReqState, Idle, Working, Pc, NextOnFailure

LEMMA ReturnEffect ==
    ASSUME ReqTyped, NEW r \in Req, Return(r)
    PROVE  ReqTyped' /\ Others(r) /\ At(r, "idle")'
<1>1. req' = [req EXCEPT ![r] = Idle]
  BY DEF Return
<1>2. ReqOK(Idle) /\ Idle.pc = "idle"
  BY FreshRequests
<1>3. ReqTyped' /\ Others(r) /\ req'[r] = Idle
  BY <1>1, <1>2, Becomes
<1> QED BY <1>2, <1>3 DEF At

LEMMA BeginEffect ==
    ASSUME ReqTyped, NEW r \in Req, NEW j \in Jobs, NEW pc \in {"insert", "cancel", "flip"},
           req' = [req EXCEPT ![r] = Working(pc, j)]
    PROVE  /\ ReqTyped' /\ Others(r)
           /\ req'[r].pc = pc /\ req'[r].job = j
           /\ req'[r].i = 1 /\ req'[r].creds = {} /\ req'[r].errors = {}
<1>1. /\ ReqOK(Working(pc, j))
      /\ Working(pc, j).pc = pc /\ Working(pc, j).job = j
      /\ Working(pc, j).i = 1 /\ Working(pc, j).creds = {}
      /\ Working(pc, j).errors = {}
  BY FreshRequests
<1>2. ReqTyped' /\ Others(r) /\ req'[r] = Working(pc, j)
  BY <1>1, Becomes
<1> QED BY <1>1, <1>2

\* Goto changes the place of a request and nothing else.
Place(r, pc) ==
    /\ Others(r)
    /\ req'[r].pc = pc /\ req'[r].job = req[r].job /\ req'[r].i = req[r].i
    /\ req'[r].creds = req[r].creds /\ req'[r].errors = req[r].errors
LEMMA GotoEffect ==
    ASSUME ReqTyped, NEW r \in Req, NEW pc \in Pc, pc # "idle", req[r].pc # "idle",
           pc \in {"check", "create", "enroll"} => req[r].i \in 1..Len(File[Job(r)]),
           Goto(r, pc)
    PROVE  ReqTyped' /\ Place(r, pc)
<1>1. req[r] \in ReqState
  BY DEF ReqTyped
<1>2. req' = [req EXCEPT ![r] = [req[r] EXCEPT !.pc = pc]]
  BY DEF Goto, ReqTyped
<1>3. [req[r] EXCEPT !.pc = pc] \in ReqState
  BY <1>1 DEF ReqState
<1>4. /\ [req[r] EXCEPT !.pc = pc].pc = pc
      /\ [req[r] EXCEPT !.pc = pc].job = req[r].job
      /\ [req[r] EXCEPT !.pc = pc].i = req[r].i
      /\ [req[r] EXCEPT !.pc = pc].creds = req[r].creds
      /\ [req[r] EXCEPT !.pc = pc].errors = req[r].errors
  BY <1>1 DEF ReqState
<1>5. ReqOK([req[r] EXCEPT !.pc = pc])
  BY <1>3, <1>4 DEF ReqTyped, ReqOK, Job
<1> QED BY <1>2, <1>4, <1>5, Becomes DEF Place

\* A job's file is not empty.
LEMMA FileLength ==
    ASSUME NEW j \in Jobs
    PROVE  Len(File[j]) \in Nat \ {0} /\ \A i \in 1..Len(File[j]) : File[j][i] \in Row
<1>1. File[j] \in Seq(Row) /\ File[j] # <<>>
  BY FileTyped
<1> QED BY <1>1

\* NextRow writes the row down and moves on to the next one, or to the store.
Reported(r, cs, es) ==
    /\ Others(r)
    /\ req'[r].job = req[r].job /\ req'[r].i = req[r].i + 1
    /\ req'[r].creds = req[r].creds \cup cs /\ req'[r].errors = req[r].errors \cup es
    /\ req'[r].pc = IF req[r].i = Len(File[Job(r)]) THEN "put" ELSE "check"
LEMMA NextRowEffect ==
    ASSUME ReqTyped, NEW r \in Req, req[r].pc \in {"check", "create", "enroll"},
           NEW cs \in SUBSET Emails, NEW es \in SUBSET {req[r].i}, NextRow(r, cs, es)
    PROVE  ReqTyped' /\ Reported(r, cs, es)
<1>1. req[r] \in ReqState /\ Job(r) \in Jobs /\ req[r].i \in 1..Len(File[Job(r)])
  BY DEF ReqTyped, ReqOK, Job
<1>2. Len(File[Job(r)]) \in Nat
  BY <1>1, FileLength
<1> DEFINE pc == IF req[r].i = Len(File[Job(r)]) THEN "put" ELSE "check"
           i == req[r].i + 1
           c == req[r].creds \cup cs
           e == req[r].errors \cup es
           x == [[[[req[r] EXCEPT !.creds = c] EXCEPT !.errors = e] EXCEPT !.i = i]
                    EXCEPT !.pc = pc]
<1>3. req' = [req EXCEPT ![r] = x]
  BY DEF NextRow, ReqTyped
<1>4. c \in SUBSET Emails /\ e \in SUBSET Nat /\ i \in Nat /\ pc \in {"put", "check"}
  BY <1>1, <1>2 DEF ReqState
<1>5. pc = "check" => i \in 1..Len(File[Job(r)])
  BY <1>1, <1>2
<1>6. pc \in Pc
  BY <1>4 DEF Pc, NextOnFailure
<1> HIDE DEF pc, i, c, e
<1>7. /\ x.pc = pc /\ x.job = req[r].job /\ x.i = i /\ x.creds = c /\ x.errors = e
      /\ x \in ReqState
  BY <1>1, <1>4, <1>6 DEF ReqState
<1> HIDE DEF x
<1>8. ReqOK(x)
  BY <1>1, <1>4, <1>5, <1>7 DEF ReqOK, Job
<1>9. ReqTyped' /\ Others(r) /\ req'[r] = x
  BY <1>3, <1>8, Becomes
<1> QED BY <1>7, <1>9 DEF Reported, pc, i, c, e

\* SetStatus changes the status of one job.
StatusOf(j, s) ==
    /\ \A k \in Jobs : /\ job'[k].status = IF k = j THEN s ELSE job[k].status
                       /\ job'[k].path = job[k].path
                       /\ job'[k].success = job[k].success
                       /\ job'[k].errors = job[k].errors
LEMMA SetStatusEffect ==
    ASSUME job \in [Jobs -> JobRow], NEW j \in Jobs, NEW s \in Status, SetStatus(j, s)
    PROVE  job' \in [Jobs -> JobRow] /\ StatusOf(j, s)
<1> DEFINE v == IF s = "completed" THEN CredentialsTTL ELSE job[j].evict
           x == [[job[j] EXCEPT !.status = s] EXCEPT !.evict = v]
<1>1. job[j] \in JobRow
  OBVIOUS
<1>2. v \in 0..CredentialsTTL
  BY <1>1, BoundsAreNat DEF JobRow
<1>3. job' = [job EXCEPT ![j] = x]
  BY DEF SetStatus
<1> HIDE DEF v
<1>4. /\ x \in JobRow /\ x.status = s /\ x.path = job[j].path
      /\ x.success = job[j].success /\ x.errors = job[j].errors
  BY <1>1, <1>2 DEF JobRow
<1> HIDE DEF x
<1>5. job' \in [Jobs -> JobRow] /\ job'[j] = x /\ \A k \in Jobs : k # j => job'[k] = job[k]
  BY <1>3, <1>4
<1> QED BY <1>4, <1>5 DEF StatusOf

-----------------------------------------------------------------------------
(* Type correctness, and what each kind of step does, field by field        *)

\* The initial tables and the idle goroutines are well typed.
LEMMA TypeInit == Init => TypeOK
<1> SUFFICES ASSUME Init PROVE TypeOK
  OBVIOUS
<1>1. NoJob \in JobRow
  BY BoundsAreNat DEF NoJob, JobRow, Status
<1>2. ReqTyped
  BY FreshRequests DEF Init, ReqTyped, ReqOK
<1>3. cleaner \in [pc : {"asleep", "csv", "credentials"}, todo : SUBSET Jobs,
                   due : SUBSET Jobs]
  BY DEF Init, Asleep
<1> QED BY <1>1, <1>2, <1>3, BoundsAreNat, TypeByRequest DEF Typed, Init

Begun(r, j, pc) ==
    /\ At(r, "idle") /\ Others(r)
    /\ req'[r].pc = pc /\ req'[r].job = j
    /\ req'[r].i = 1 /\ req'[r].creds = {} /\ req'[r].errors = {}
Returned(r) == Others(r) /\ At(r, "idle")'
Later == fault' = fault \/ fault' = fault + 1

\* A request begins: an upload, a cancel or a confirm.
BeginUpload ==
    \E r \in Req, j \in Jobs :
        /\ job[j].status = "none" /\ \A q \in Req : At(q, "idle") \/ Job(q) # j
        /\ Begun(r, j, "insert")
        /\ csv' = csv \cup {j}
        /\ UNCHANGED <<job, file, made, cleaner, flips, fault>>
BeginOther ==
    \E r \in Req, j \in Jobs, pc \in {"cancel", "flip"} :
        /\ job[j].status = "preview"
        /\ Begun(r, j, pc)
        /\ UNCHANGED <<job, csv, file, made, cleaner, flips, fault>>

\* A request deletes an upload, or flips its job.
DeleteUpload ==
    \E r \in Req :
        /\ req[r].pc \in {"undo", "delete"}
        /\ Returned(r)
        /\ csv' = csv \ {Job(r)}
        /\ UNCHANGED <<job, file, made, cleaner, flips, fault>>
FlipTo(r, from, s) ==
    /\ At(r, from)
    /\ StatusOf(Job(r), s)
    /\ UNCHANGED <<csv, file, made, cleaner>>
Preview == \E r \in Req : FlipTo(r, "insert", "preview") /\ Returned(r) /\ UNCHANGED <<flips, fault>>
Cancel == \E r \in Req : FlipTo(r, "cancel", "cancelled") /\ Place(r, "delete") /\ UNCHANGED <<flips, fault>>
Confirm ==
    \E r \in Req :
        /\ FlipTo(r, "flip", "processing") /\ Place(r, "fetch") /\ fault' = fault
        /\ flips'[Job(r)] = flips[Job(r)] + 1
        /\ \A k \in Jobs : k # Job(r) => flips'[k] = flips[k]
Complete ==
    \E r \in Req : FlipTo(r, "done", "completed") /\ Returned(r) /\ UNCHANGED <<flips, fault>>
Failed ==
    \E r \in Req, pc \in {"fail", "fetch"} :
        FlipTo(r, pc, "failed") /\ Returned(r) /\ UNCHANGED flips /\ Later

\* A row begins, or it is reported, maybe after its account was made.
Scan ==
    \E r \in Req :
        /\ \/ At(r, "fetch") /\ (Place(r, "check") \/ Returned(r))
           \/ At(r, "check") /\ Place(r, "create")
        /\ UNCHANGED <<job, csv, file, made, cleaner, flips, fault>>
RowRefused ==
    \E r \in Req :
        /\ req[r].pc \in {"check", "create"}
        /\ Reported(r, {}, {req[r].i})
        /\ UNCHANGED <<job, csv, file, made, cleaner, flips>> /\ Later
AccountMade ==
    \E r \in Req :
        /\ At(r, "create") /\ made[Line(r).email] = Nobody
        /\ made' = [made EXCEPT ![Line(r).email] = Job(r)]
        /\ \/ Place(r, "enroll")
           \/ \E es \in SUBSET {req[r].i} : Reported(r, {Line(r).email}, es)
        /\ UNCHANGED <<job, csv, file, cleaner, flips, fault>>
RowEnrolled ==
    \E r \in Req :
        /\ At(r, "enroll")
        /\ \E es \in SUBSET {req[r].i} : Reported(r, {Line(r).email}, es)
        /\ UNCHANGED <<job, csv, file, made, cleaner, flips>> /\ Later

\* A confirm saves what it did, one call after the other.
SavesFile ==
    \E r \in Req :
        /\ At(r, "put") /\ Place(r, "counts")
        /\ file' = [file EXCEPT ![Job(r)] = req[r].creds]
        /\ UNCHANGED <<job, csv, made, cleaner, flips, fault>>
OnlyField(j, f, v) ==
    \A k \in Jobs :
        /\ job'[k].status = job[k].status
        /\ job'[k].path = IF k = j /\ f = "path" THEN v ELSE job[k].path
        /\ job'[k].success = IF k = j /\ f = "success" THEN v ELSE job[k].success
        /\ job'[k].errors = IF k = j /\ f = "errors" THEN v ELSE job[k].errors
SavesCount ==
    \E r \in Req :
        /\ \/ At(r, "counts") /\ Place(r, "errors")
           \/ At(r, "failcounts") /\ Place(r, "failerrors")
        /\ OnlyField(Job(r), "success", Cardinality(req[r].creds))
        /\ UNCHANGED <<csv, file, made, cleaner, flips, fault>>
SavesErrors ==
    \E r \in Req :
        /\ \/ At(r, "errors") /\ Place(r, "path")
           \/ At(r, "failerrors") /\ Place(r, "fail")
        /\ OnlyField(Job(r), "errors", IF req[r].errors = {} THEN job[Job(r)].errors
                                       ELSE req[r].errors)
        /\ UNCHANGED <<csv, file, made, cleaner, flips, fault>>
SavesPath ==
    \E r \in Req :
        /\ At(r, "path") /\ Place(r, "done")
        /\ OnlyField(Job(r), "path", TRUE)
        /\ UNCHANGED <<csv, file, made, cleaner, flips, fault>>

\* A call fails, an account is made elsewhere, or everything stops.
CallFails ==
    \E r \in Req :
        /\ \/ Returned(r)
           \/ At(r, "insert") /\ Place(r, "undo")
           \/ At(r, "put") /\ Place(r, "failcounts")
           \/ At(r, "counts") /\ Place(r, "errors")
           \/ At(r, "errors") /\ Place(r, "path")
           \/ At(r, "path") /\ Place(r, "done")
           \/ At(r, "failcounts") /\ Place(r, "failerrors")
           \/ At(r, "failerrors") /\ Place(r, "fail")
        /\ UNCHANGED <<job, csv, file, made, cleaner, flips>> /\ fault' = fault + 1
MadeElsewhere ==
    \E e \in Emails :
        /\ made[e] = Nobody
        /\ made' = [made EXCEPT ![e] = Other]
        /\ UNCHANGED <<job, csv, file, req, cleaner, flips, fault>>
Stops ==
    /\ \A q \in Req : At(q, "idle")'
    /\ cleaner'.pc = "asleep"
    /\ UNCHANGED <<job, csv, file, made, flips>> /\ fault' = fault + 1

\* The cleaner: a sweep, a delete, or nothing.
Expires ==
    /\ cleaner'.pc = "csv" /\ cleaner'.todo \subseteq Jobs
    /\ \A k \in Jobs :
          /\ k \in cleaner'.todo => job[k].status = "preview"
          /\ job'[k].status = IF k \in cleaner'.todo THEN "expired" ELSE job[k].status
          /\ job'[k].path = job[k].path
          /\ job'[k].success = job[k].success
          /\ job'[k].errors = job[k].errors
    /\ UNCHANGED <<csv, file, made, req, flips, fault>>
Sweeps ==
    /\ cleaner'.pc = "credentials" /\ cleaner'.todo \subseteq Jobs
    /\ \A k \in Jobs :
          /\ k \in cleaner'.todo => job[k].status = "completed"
          /\ job'[k].path = IF k \in cleaner'.todo THEN FALSE ELSE job[k].path
          /\ job'[k].status = job[k].status
          /\ job'[k].success = job[k].success
          /\ job'[k].errors = job[k].errors
    /\ UNCHANGED <<csv, file, made, req, flips, fault>>
Deletes ==
    \E j \in cleaner.todo :
        /\ cleaner'.pc = cleaner.pc /\ cleaner'.todo \subseteq cleaner.todo
        /\ \/ cleaner.pc = "csv" /\ csv' = csv \ {j} /\ file' = file
           \/ cleaner.pc = "credentials" /\ file' = [file EXCEPT ![j] = NoFile] /\ csv' = csv
        /\ UNCHANGED <<job, made, req, flips, fault>>
SkipsOrSleeps ==
    /\ \/ cleaner'.todo = {} \/ cleaner'.pc = "asleep"
       \/ cleaner'.pc = cleaner.pc /\ cleaner'.todo \subseteq cleaner.todo
    /\ UNCHANGED <<job, csv, file, made, req, flips>> /\ Later
Ages ==
    /\ \A k \in Jobs : /\ job'[k].status = job[k].status
                       /\ job'[k].path = job[k].path
                       /\ job'[k].success = job[k].success
                       /\ job'[k].errors = job[k].errors
    /\ UNCHANGED <<csv, file, made, req, cleaner, flips, fault>>

Effect ==
    \/ BeginUpload \/ BeginOther \/ DeleteUpload \/ Preview \/ Cancel \/ Confirm \/ Complete
    \/ Failed \/ Scan \/ RowRefused \/ AccountMade \/ RowEnrolled
    \/ SavesFile \/ SavesCount \/ SavesErrors \/ SavesPath
    \/ CallFails \/ MadeElsewhere \/ Stops
    \/ Expires \/ Sweeps \/ Deletes \/ SkipsOrSleeps \/ Ages

\* The table of jobs stays typed when one field of a row, or of all rows, changes.
LEMMA FieldEffect ==
    ASSUME job \in [Jobs -> JobRow], NEW j \in Jobs
    PROVE  /\ \A v \in Nat : job' = [job EXCEPT ![j].success = v] =>
                job' \in [Jobs -> JobRow] /\ OnlyField(j, "success", v)
           /\ \A v \in SUBSET Nat : job' = [job EXCEPT ![j].errors = v] =>
                job' \in [Jobs -> JobRow] /\ OnlyField(j, "errors", v)
           /\ job' = [job EXCEPT ![j].path = TRUE] =>
                job' \in [Jobs -> JobRow] /\ OnlyField(j, "path", TRUE)
<1>1. job[j] \in JobRow
  OBVIOUS
<1>2. ASSUME NEW x \in JobRow, job' = [job EXCEPT ![j] = x]
      PROVE  job' \in [Jobs -> JobRow] /\ job'[j] = x /\ \A k \in Jobs : k # j => job'[k] = job[k]
  BY <1>2
<1>3. ASSUME NEW v \in Nat, job' = [job EXCEPT ![j].success = v]
      PROVE  job' \in [Jobs -> JobRow] /\ OnlyField(j, "success", v)
  <2> DEFINE x == [job[j] EXCEPT !.success = v]
  <2>1. /\ x \in JobRow /\ x.status = job[j].status /\ x.path = job[j].path
        /\ x.success = v /\ x.errors = job[j].errors
    BY <1>1 DEF JobRow
  <2>2. job' = [job EXCEPT ![j] = x]
    BY <1>3
  <2> HIDE DEF x
  <2> QED BY <1>2, <2>1, <2>2 DEF OnlyField
<1>4. ASSUME NEW v \in SUBSET Nat, job' = [job EXCEPT ![j].errors = v]
      PROVE  job' \in [Jobs -> JobRow] /\ OnlyField(j, "errors", v)
  <2> DEFINE x == [job[j] EXCEPT !.errors = v]
  <2>1. /\ x \in JobRow /\ x.status = job[j].status /\ x.path = job[j].path
        /\ x.success = job[j].success /\ x.errors = v
    BY <1>1 DEF JobRow
  <2>2. job' = [job EXCEPT ![j] = x]
    BY <1>4
  <2> HIDE DEF x
  <2> QED BY <1>2, <2>1, <2>2 DEF OnlyField
<1>5. ASSUME job' = [job EXCEPT ![j].path = TRUE]
      PROVE  job' \in [Jobs -> JobRow] /\ OnlyField(j, "path", TRUE)
  <2> DEFINE x == [job[j] EXCEPT !.path = TRUE]
  <2>1. /\ x \in JobRow /\ x.status = job[j].status /\ x.path = TRUE
        /\ x.success = job[j].success /\ x.errors = job[j].errors
    BY <1>1 DEF JobRow
  <2>2. job' = [job EXCEPT ![j] = x]
    BY <1>5
  <2> HIDE DEF x
  <2> QED BY <1>2, <2>1, <2>2 DEF OnlyField
<1> QED BY <1>3, <1>4, <1>5

\* A step of an upload or a cancel keeps the types and has one of the effects.
LEMMA UploadEffects ==
    ASSUME TypeOK, NEW r \in Req, NEW j \in Jobs,
           \/ UploadPut(r, j) \/ CancelFind(r, j) \/ ConfirmFind(r, j)
           \/ UploadInsert(r) \/ UploadUndo(r) \/ CancelFlip(r) \/ CancelDelete(r)
    PROVE  TypeOK' /\ Effect
<1> DEFINE Goal == TypeOK' /\ Effect
<1>1. /\ job \in [Jobs -> JobRow] /\ csv \subseteq Jobs /\ ReqTyped
      /\ fault \in Nat /\ flips \in [Jobs -> Nat]
  BY TypeByRequest, BoundsAreNat DEF Typed
<1>2. req[r].pc # "idle" => Job(r) \in Jobs
  BY <1>1 DEF ReqTyped, ReqOK, Job
<1>3. ASSUME UploadPut(r, j) PROVE Goal
  <2>1. ReqTyped' /\ Begun(r, j, "insert")
    BY <1>1, <1>3, BeginEffect DEF UploadPut, Begun
  <2>2. TypeOK'
    BY <1>3, <2>1, TypeByRequest DEF Typed, UploadPut, TypeOK
  <2>3. BeginUpload
    BY <1>3, <2>1 DEF UploadPut, BeginUpload
  <2> QED BY <2>2, <2>3 DEF Effect
<1>4. ASSUME NEW pc \in {"cancel", "flip"}, At(r, "idle"), job[j].status = "preview",
             req' = [req EXCEPT ![r] = Working(pc, j)],
             UNCHANGED <<job, csv, file, made, enrolled, cleaner, flips, fault>>
      PROVE  Goal
  <2>1. ReqTyped' /\ Begun(r, j, pc)
    BY <1>1, <1>4, BeginEffect DEF Begun
  <2>2. TypeOK'
    BY <1>4, <2>1, TypeByRequest DEF Typed
  <2>3. BeginOther
    BY <1>4, <2>1 DEF BeginOther
  <2> QED BY <2>2, <2>3 DEF Effect
<1>5. ASSUME CancelFind(r, j) PROVE Goal
  <2> HIDE DEF Goal
  <2> QED BY <1>4, <1>5 DEF CancelFind
<1>6. ASSUME ConfirmFind(r, j) PROVE Goal
  <2> HIDE DEF Goal
  <2> QED BY <1>4, <1>6 DEF ConfirmFind
<1>7. ASSUME UploadInsert(r) PROVE Goal
  <2>1. job' \in [Jobs -> JobRow] /\ StatusOf(Job(r), "preview")
    BY <1>1, <1>2, <1>7, SetStatusEffect DEF UploadInsert, Status, At
  <2>2. ReqTyped' /\ Returned(r)
    BY <1>1, <1>7, ReturnEffect DEF UploadInsert, Returned
  <2>3. TypeOK'
    BY <1>7, <2>1, <2>2, TypeByRequest DEF Typed, UploadInsert
  <2>4. Preview
    BY <1>7, <2>1, <2>2 DEF UploadInsert, Preview, FlipTo
  <2> QED BY <2>3, <2>4 DEF Effect
<1>8. ASSUME UploadUndo(r) \/ CancelDelete(r) PROVE Goal
  <2>1. ReqTyped' /\ Returned(r)
    BY <1>1, <1>8, ReturnEffect DEF UploadUndo, CancelDelete, Returned
  <2>2. TypeOK'
    BY <1>8, <2>1, TypeByRequest DEF Typed, UploadUndo, CancelDelete
  <2>3. DeleteUpload
    BY <1>8, <2>1 DEF UploadUndo, CancelDelete, DeleteUpload, At
  <2> QED BY <2>2, <2>3 DEF Effect
<1>9. ASSUME CancelFlip(r) PROVE Goal
  <2>1. job' \in [Jobs -> JobRow] /\ StatusOf(Job(r), "cancelled")
    BY <1>1, <1>2, <1>9, SetStatusEffect DEF CancelFlip, Status, At
  <2>2. ReqTyped' /\ Place(r, "delete")
    <3>1. At(r, "cancel") /\ Goto(r, "delete")
      BY <1>9 DEF CancelFlip
    <3>2. "delete" \in Pc
      BY DEF Pc, NextOnFailure
    <3> QED BY <1>1, <3>1, <3>2, GotoEffect DEF At
  <2>3. TypeOK'
    BY <1>9, <2>1, <2>2, TypeByRequest DEF Typed, CancelFlip
  <2>4. Cancel
    BY <1>9, <2>1, <2>2 DEF CancelFlip, Cancel, FlipTo
  <2> QED BY <2>3, <2>4 DEF Effect
<1> QED BY <1>3, <1>5, <1>6, <1>7, <1>8, <1>9

\* What every step of a request may rely on.
LEMMA RequestFacts ==
    ASSUME TypeOK, NEW r \in Req
    PROVE  /\ Typed /\ fault \in Nat
           /\ req[r].creds \subseteq Emails /\ req[r].errors \subseteq Nat /\ req[r].i \in Nat
           /\ req[r].pc # "idle" => Job(r) \in Jobs
           /\ req[r].pc \in {"check", "create", "enroll"} =>
                /\ req[r].i \in 1..Len(File[Job(r)])
                /\ Line(r).email \in Emails
<1>1. Typed /\ fault \in Nat
  BY TypeByRequest, BoundsAreNat DEF Typed
<1>2. req[r] \in ReqState /\ ReqOK(req[r])
  BY <1>1 DEF Typed, ReqTyped
<1>3. /\ req[r].creds \subseteq Emails /\ req[r].errors \subseteq Nat /\ req[r].i \in Nat
      /\ req[r].pc # "idle" => Job(r) \in Jobs
      /\ req[r].pc \in {"check", "create", "enroll"} => req[r].i \in 1..Len(File[Job(r)])
  BY <1>2 DEF ReqState, ReqOK, Job
<1>4. ASSUME req[r].pc \in {"check", "create", "enroll"} PROVE Line(r).email \in Emails
  <2>1. Line(r) \in Row
    BY <1>3, <1>4, FileLength DEF Line
  <2> QED BY <2>1 DEF Row
<1> QED BY <1>1, <1>3, <1>4

\* The same of a step of a confirm up to its last row.
LEMMA RowEffects ==
    ASSUME TypeOK, WorkInv, NEW r \in Req,
           \/ ConfirmFlip(r) \/ ConfirmFetch(r) \/ ConfirmCheck(r) \/ ConfirmCreate(r)
           \/ ConfirmEnroll(r) \/ RowFail(r) \/ ConfirmCorrupt(r)
    PROVE  TypeOK' /\ Effect
<1> DEFINE Goal == TypeOK' /\ Effect
<1>1. /\ Typed /\ ReqTyped /\ fault \in Nat /\ job \in [Jobs -> JobRow] /\ flips \in [Jobs -> Nat]
      /\ req[r].pc # "idle" => Job(r) \in Jobs
  BY RequestFacts DEF Typed
<1>2. "fetch" \in Pc /\ "check" \in Pc /\ "create" \in Pc /\ "enroll" \in Pc
  BY DEF Pc, NextOnFailure
<1>3. ASSUME ConfirmFlip(r) PROVE Goal
  <2>1. job' \in [Jobs -> JobRow] /\ StatusOf(Job(r), "processing")
    BY <1>1, <1>3, SetStatusEffect DEF ConfirmFlip, Status, At
  <2>2. ReqTyped' /\ Place(r, "fetch")
    <3>1. At(r, "flip") /\ Goto(r, "fetch")
      BY <1>3 DEF ConfirmFlip
    <3> QED BY <1>1, <1>2, <3>1, GotoEffect DEF At
  <2>3. /\ flips' \in [Jobs -> Nat] /\ flips'[Job(r)] = flips[Job(r)] + 1
        /\ \A k \in Jobs : k # Job(r) => flips'[k] = flips[k]
    BY <1>1, <1>3 DEF ConfirmFlip, At
  <2>4. TypeOK'
    BY <1>1, <1>3, <2>1, <2>2, <2>3, TypeByRequest DEF Typed, ConfirmFlip
  <2>5. Confirm
    BY <1>3, <2>1, <2>2, <2>3 DEF ConfirmFlip, Confirm, FlipTo
  <2> QED BY <2>4, <2>5 DEF Effect
<1>4. ASSUME ConfirmFetch(r) PROVE Goal
  <2>1. ReqTyped' /\ (Place(r, "check") \/ Returned(r))
    <3>1. CASE Goto(r, "check")
      <4>1. At(r, "fetch") /\ Job(r) \in Jobs
        BY <1>1, <1>4 DEF ConfirmFetch, At
      <4>2. req[r].i \in 1..Len(File[Job(r)])
        BY <4>1, FileLength DEF WorkInv, OwnWork, At
      <4> QED BY <1>1, <1>2, <1>4, <3>1, <4>1, <4>2, GotoEffect DEF At
    <3>2. CASE Return(r)
      BY <1>1, <3>2, ReturnEffect DEF Returned
    <3> QED BY <1>4, <3>1, <3>2 DEF ConfirmFetch
  <2>2. TypeOK'
    BY <1>1, <1>4, <2>1, TypeByRequest DEF Typed, ConfirmFetch
  <2>3. Scan
    BY <1>4, <2>1 DEF ConfirmFetch, Scan
  <2> QED BY <2>2, <2>3 DEF Effect
<1>5. ASSUME req[r].pc \in {"check", "create"}, NextRow(r, {}, {req[r].i}),
             UNCHANGED <<job, csv, file, made, enrolled, cleaner, flips>>,
             Later, fault' \in 0..MaxFault
      PROVE  Goal
  <2>1. ReqTyped' /\ Reported(r, {}, {req[r].i})
    BY <1>1, <1>5, NextRowEffect
  <2>2. TypeOK'
    BY <1>1, <1>5, <2>1, TypeByRequest DEF Typed
  <2>3. RowRefused
    BY <1>5, <2>1 DEF RowRefused
  <2> QED BY <2>2, <2>3 DEF Effect
<1>6. ASSUME At(r, "enroll"), NEW es \in SUBSET {req[r].i}, NextRow(r, {Line(r).email}, es),
             UNCHANGED <<job, csv, file, made, cleaner, flips>>,
             enrolled' \subseteq Emails, Later, fault' \in 0..MaxFault
      PROVE  Goal
  <2>1. {Line(r).email} \in SUBSET Emails
    BY <1>6, RequestFacts DEF At
  <2>2. ReqTyped' /\ Reported(r, {Line(r).email}, es)
    BY <1>1, <1>6, <2>1, NextRowEffect DEF At
  <2>3. TypeOK'
    BY <1>1, <1>6, <2>2, TypeByRequest DEF Typed
  <2>4. RowEnrolled
    BY <1>6, <2>2 DEF RowEnrolled
  <2> QED BY <2>3, <2>4 DEF Effect
<1>7. /\ fault' = fault => Later /\ fault' \in 0..MaxFault
      /\ Fault => Later /\ fault' \in 0..MaxFault
  BY <1>1, BoundsAreNat DEF Typed, Later, Fault
<1>8. ASSUME ConfirmCheck(r) PROVE Goal
  <2>1. CASE Goto(r, "create")
    <3>1. At(r, "check") /\ req[r].i \in 1..Len(File[Job(r)])
      BY <1>8, RequestFacts DEF ConfirmCheck, At
    <3>2. ReqTyped' /\ Place(r, "create")
      BY <1>1, <1>2, <2>1, <3>1, GotoEffect DEF At
    <3>3. TypeOK'
      BY <1>1, <1>8, <3>2, TypeByRequest DEF Typed, ConfirmCheck
    <3>4. Scan
      BY <1>8, <3>2 DEF ConfirmCheck, Scan
    <3> QED BY <3>3, <3>4 DEF Effect
  <2>2. CASE NextRow(r, {}, {req[r].i})
    <3> HIDE DEF Goal
    <3> QED BY <1>5, <1>7, <1>8, <2>2 DEF ConfirmCheck, At
  <2> QED BY <1>8, <2>1, <2>2 DEF ConfirmCheck
<1>9. ASSUME ConfirmCreate(r) PROVE Goal
  <2>1. CASE made[Line(r).email] # Nobody /\ NextRow(r, {}, {req[r].i}) /\ UNCHANGED made
    <3> HIDE DEF Goal
    <3> QED BY <1>5, <1>7, <1>9, <2>1 DEF ConfirmCreate, At
  <2>2. CASE /\ made[Line(r).email] = Nobody
             /\ made' = [made EXCEPT ![Line(r).email] = Job(r)]
             /\ \/ Goto(r, "enroll") \/ NextRow(r, {Line(r).email}, {})
                \/ NextRow(r, {Line(r).email}, {req[r].i})
    <3>1. At(r, "create") /\ req[r].i \in 1..Len(File[Job(r)]) /\ Line(r).email \in Emails
      BY <1>9, RequestFacts DEF ConfirmCreate, At
    <3>2. /\ ReqTyped'
          /\ \/ Place(r, "enroll")
             \/ \E es \in SUBSET {req[r].i} : Reported(r, {Line(r).email}, es)
      <4>1. CASE Goto(r, "enroll")
        BY <1>1, <1>2, <3>1, <4>1, GotoEffect DEF At
      <4>2. ASSUME NEW es \in SUBSET {req[r].i}, NextRow(r, {Line(r).email}, es)
            PROVE  ReqTyped' /\ Reported(r, {Line(r).email}, es)
        <5>1. {Line(r).email} \in SUBSET Emails
          BY <3>1
        <5> QED BY <1>1, <3>1, <4>2, <5>1, NextRowEffect DEF At
      <4> QED BY <2>2, <4>1, <4>2
    <3>3. made' \in [Emails -> Jobs \cup {Nobody, Other}]
      BY <1>1, <2>2, <3>1 DEF Typed, At
    <3>4. TypeOK'
      BY <1>1, <1>9, <3>2, <3>3, TypeByRequest DEF Typed, ConfirmCreate
    <3>5. AccountMade
      BY <1>9, <2>2, <3>1, <3>2 DEF ConfirmCreate, AccountMade
    <3> QED BY <3>4, <3>5 DEF Effect
  <2> QED BY <1>9, <2>1, <2>2 DEF ConfirmCreate
<1>10. ASSUME ConfirmEnroll(r) PROVE Goal
  <2>1. enrolled' \subseteq Emails
    BY <1>1, <1>10, RequestFacts DEF ConfirmEnroll, At, Typed
  <2>2. {} \in SUBSET {req[r].i}
    OBVIOUS
  <2> HIDE DEF Goal
  <2> QED BY <1>6, <1>7, <1>10, <2>1, <2>2 DEF ConfirmEnroll
<1>11. ASSUME RowFail(r) PROVE Goal
  <2>1. {req[r].i} \in SUBSET {req[r].i} /\ enrolled' \subseteq Emails
    BY <1>1, <1>11 DEF RowFail, Typed
  <2>2. CASE At(r, "enroll")
    <3>1. NextRow(r, {Line(r).email}, {req[r].i})
      BY <1>11, <2>2 DEF RowFail
    <3> HIDE DEF Goal
    <3> QED BY <1>6, <1>7, <1>11, <2>1, <2>2, <3>1 DEF RowFail
  <2>3. CASE ~At(r, "enroll")
    <3>1. NextRow(r, {}, {req[r].i}) /\ req[r].pc \in {"check", "create"}
      BY <1>11, <2>3 DEF RowFail, At
    <3> HIDE DEF Goal
    <3> QED BY <1>5, <1>7, <1>11, <3>1 DEF RowFail
  <2> QED BY <2>2, <2>3
<1>12. ASSUME ConfirmCorrupt(r) PROVE Goal
  <2>1. job' \in [Jobs -> JobRow] /\ StatusOf(Job(r), "failed")
    BY <1>1, <1>12, SetStatusEffect DEF ConfirmCorrupt, Status, At
  <2>2. ReqTyped' /\ Returned(r)
    BY <1>1, <1>12, ReturnEffect DEF ConfirmCorrupt, Returned
  <2>3. TypeOK'
    BY <1>1, <1>7, <1>12, <2>1, <2>2, TypeByRequest DEF Typed, ConfirmCorrupt
  <2>4. Failed
    BY <1>7, <1>12, <2>1, <2>2 DEF ConfirmCorrupt, Failed, FlipTo
  <2> QED BY <2>3, <2>4 DEF Effect
<1> QED BY <1>3, <1>4, <1>8, <1>9, <1>10, <1>11, <1>12

\* The same of a step that saves what a confirm did, or of a call that fails.
LEMMA SaveEffects ==
    ASSUME TypeOK, NEW r \in Req,
           \/ ConfirmPut(r) \/ ConfirmCounts(r) \/ ConfirmErrors(r) \/ ConfirmPath(r)
           \/ ConfirmDone(r) \/ CallFail(r)
    PROVE  TypeOK' /\ Effect
<1> DEFINE Goal == TypeOK' /\ Effect
           Moved(from, to) == At(r, from) /\ Place(r, to)
<1>1. /\ Typed /\ ReqTyped /\ fault \in Nat /\ job \in [Jobs -> JobRow]
      /\ req[r].pc # "idle" => Job(r) \in Jobs
      /\ req[r].creds \subseteq Emails /\ req[r].errors \subseteq Nat
  BY RequestFacts DEF Typed
<1>2. ASSUME NEW to \in {"undo", "failcounts", "counts", "errors", "path", "done", "failerrors",
                         "fail"},
             Goto(r, to), req[r].pc # "idle"
      PROVE  ReqTyped' /\ Place(r, to)
  <2>1. to \in Pc
    BY DEF Pc, NextOnFailure
  <2> QED BY <1>1, <1>2, <2>1, GotoEffect
<1>3. ASSUME ConfirmPut(r) PROVE Goal
  <2>1. ReqTyped' /\ Place(r, "counts")
    BY <1>2, <1>3 DEF ConfirmPut, At
  <2>2. file' \in [Jobs -> {NoFile} \cup SUBSET Emails]
    BY <1>1, <1>3 DEF ConfirmPut, Typed
  <2>3. TypeOK'
    BY <1>1, <1>3, <2>1, <2>2, TypeByRequest DEF Typed, ConfirmPut
  <2>4. SavesFile
    BY <1>3, <2>1 DEF ConfirmPut, SavesFile
  <2> QED BY <2>3, <2>4 DEF Effect
<1>4. ASSUME ConfirmCounts(r) PROVE Goal
  <2>1. /\ ReqTyped'
        /\ Moved("counts", "errors") \/ Moved("failcounts", "failerrors")
    BY <1>2, <1>4 DEF ConfirmCounts, At
  <2>2. Cardinality(req[r].creds) \in Nat
    BY <1>1, EmailsFinite, FS_Subset, FS_CardinalityType
  <2>3. Job(r) \in Jobs
    BY <1>1, <1>4 DEF ConfirmCounts, At
  <2>4. job' \in [Jobs -> JobRow] /\ OnlyField(Job(r), "success", Cardinality(req[r].creds))
    BY <1>1, <1>4, <2>2, <2>3, FieldEffect DEF ConfirmCounts
  <2>5. TypeOK'
    BY <1>1, <1>4, <2>1, <2>4, TypeByRequest DEF Typed, ConfirmCounts
  <2>6. SavesCount
    BY <1>4, <2>1, <2>4 DEF ConfirmCounts, SavesCount
  <2> QED BY <2>5, <2>6 DEF Effect
<1>5. ASSUME ConfirmErrors(r) PROVE Goal
  <2>1. /\ ReqTyped'
        /\ Moved("errors", "path") \/ Moved("failerrors", "fail")
    BY <1>2, <1>5 DEF ConfirmErrors, At
  <2> DEFINE v == IF req[r].errors = {} THEN job[Job(r)].errors ELSE req[r].errors
  <2>2. Job(r) \in Jobs
    BY <1>1, <1>5 DEF ConfirmErrors, At
  <2>3. v \in SUBSET Nat
    BY <1>1, <2>2 DEF JobRow
  <2>4. job' = [job EXCEPT ![Job(r)].errors = v]
    BY <1>5 DEF ConfirmErrors
  <2>5. job' \in [Jobs -> JobRow] /\ OnlyField(Job(r), "errors", v)
    <3> HIDE DEF v
    <3> QED BY <1>1, <2>2, <2>3, <2>4, FieldEffect
  <2>6. TypeOK'
    BY <1>1, <1>5, <2>1, <2>5, TypeByRequest DEF Typed, ConfirmErrors
  <2>7. SavesErrors
    BY <1>5, <2>1, <2>5 DEF ConfirmErrors, SavesErrors
  <2> QED BY <2>6, <2>7 DEF Effect
<1>6. ASSUME ConfirmPath(r) PROVE Goal
  <2>1. ReqTyped' /\ Moved("path", "done")
    BY <1>2, <1>6 DEF ConfirmPath, At
  <2>2. Job(r) \in Jobs
    BY <1>1, <1>6 DEF ConfirmPath, At
  <2>3. job' \in [Jobs -> JobRow] /\ OnlyField(Job(r), "path", TRUE)
    BY <1>1, <1>6, <2>2, FieldEffect DEF ConfirmPath
  <2>4. TypeOK'
    BY <1>1, <1>6, <2>1, <2>3, TypeByRequest DEF Typed, ConfirmPath
  <2>5. SavesPath
    BY <1>6, <2>1, <2>3 DEF ConfirmPath, SavesPath
  <2> QED BY <2>4, <2>5 DEF Effect
<1>7. ASSUME ConfirmDone(r) PROVE Goal
  <2> DEFINE s == IF At(r, "done") THEN "completed" ELSE "failed"
  <2>1. Job(r) \in Jobs /\ s \in Status
    BY <1>1, <1>7 DEF ConfirmDone, At, Status
  <2>2. SetStatus(Job(r), s)
    BY <1>7 DEF ConfirmDone
  <2>3. job' \in [Jobs -> JobRow] /\ StatusOf(Job(r), s)
    <3> HIDE DEF s
    <3> QED BY <1>1, <2>1, <2>2, SetStatusEffect
  <2>4. ReqTyped' /\ Returned(r)
    BY <1>1, <1>7, ReturnEffect DEF ConfirmDone, Returned
  <2>5. TypeOK'
    BY <1>1, <1>7, <2>3, <2>4, TypeByRequest DEF Typed, ConfirmDone
  <2>6. CASE At(r, "done")
    BY <1>7, <2>3, <2>4, <2>5, <2>6 DEF ConfirmDone, Complete, FlipTo, Effect
  <2>7. CASE ~At(r, "done")
    <3>1. At(r, "fail") /\ StatusOf(Job(r), "failed")
      BY <1>7, <2>3, <2>7 DEF ConfirmDone
    <3> QED BY <1>7, <2>4, <2>5, <3>1 DEF ConfirmDone, Failed, FlipTo, Later, Effect
  <2> QED BY <2>6, <2>7
<1>8. ASSUME CallFail(r) PROVE Goal
  <2>1. /\ ReqTyped'
        /\ \/ Returned(r)
           \/ Moved("insert", "undo") \/ Moved("put", "failcounts")
           \/ Moved("counts", "errors") \/ Moved("errors", "path") \/ Moved("path", "done")
           \/ Moved("failcounts", "failerrors") \/ Moved("failerrors", "fail")
    <3>1. CASE Return(r)
      BY <1>1, <3>1, ReturnEffect DEF Returned
    <3>2. CASE /\ req[r].pc \in {"insert", "put", "counts", "errors", "path", "failcounts",
                                 "failerrors"}
               /\ Goto(r, NextOnFailure[req[r].pc])
      <4>1. /\ NextOnFailure["insert"] = "undo" /\ NextOnFailure["put"] = "failcounts"
            /\ NextOnFailure["counts"] = "errors" /\ NextOnFailure["errors"] = "path"
            /\ NextOnFailure["path"] = "done" /\ NextOnFailure["failcounts"] = "failerrors"
            /\ NextOnFailure["failerrors"] = "fail"
        BY DEF NextOnFailure
      <4> QED BY <1>2, <3>2, <4>1 DEF At
    <3> QED BY <1>8, <3>1, <3>2 DEF CallFail, NextOnFailure
  <2>2. fault' = fault + 1 /\ fault' \in 0..MaxFault
    BY <1>1, <1>8, BoundsAreNat DEF CallFail, Fault, Typed
  <2>3. TypeOK'
    BY <1>1, <1>8, <2>1, <2>2, TypeByRequest DEF Typed, CallFail
  <2>4. CallFails
    BY <1>8, <2>1, <2>2 DEF CallFail, CallFails
  <2> QED BY <2>3, <2>4 DEF Effect
<1> QED BY <1>3, <1>4, <1>5, <1>6, <1>7, <1>8

\* The same of the cleaner, the clock and the world outside.
LEMMA OtherEffects ==
    ASSUME TypeOK, CleanerStep \/ CleanerFail \/ Crash \/ Tick \/ \E e \in Emails : CreateUser(e)
    PROVE  TypeOK' /\ Effect
<1> DEFINE Goal == TypeOK' /\ Effect
           CleanerState == [pc : {"asleep", "csv", "credentials"}, todo : SUBSET Jobs,
                            due : SUBSET Jobs]
<1>1. /\ Typed /\ ReqTyped /\ fault \in Nat /\ job \in [Jobs -> JobRow]
      /\ cleaner \in CleanerState
  BY TypeByRequest, BoundsAreNat DEF Typed
<1>2. /\ fault' = fault => Later
      /\ Fault => fault' = fault + 1 /\ fault' \in 0..MaxFault /\ Later
  BY <1>1, BoundsAreNat DEF Typed, Later, Fault
<1>3. (\A k \in Jobs : job[k] \in JobRow) /\ (req' = req => ReqTyped')
  BY <1>1 DEF ReqTyped, ReqOK
<1>4. ASSUME ExpirePreview PROVE Goal
  <2> DEFINE old == {k \in Jobs : job[k].status = "preview" /\ job[k].left = 0}
             due == {k \in Jobs : job[k].evict = 0}
             x(k) == IF k \in old THEN [job[k] EXCEPT !.status = "expired"] ELSE job[k]
  <2>1. cleaner' = [pc |-> "csv", todo |-> old, due |-> due]
    BY <1>4 DEF ExpirePreview
  <2>2. cleaner' \in CleanerState /\ cleaner'.pc = "csv" /\ cleaner'.todo = old
    <3>1. old \in SUBSET Jobs /\ due \in SUBSET Jobs
      OBVIOUS
    <3> HIDE DEF old, due
    <3> QED BY <2>1, <3>1
  <2>3. job' = [k \in Jobs |-> x(k)]
    BY <1>4 DEF ExpirePreview
  <2>4. \A k \in Jobs : k \in old => job[k].status = "preview"
    OBVIOUS
  <2> HIDE DEF old
  <2>5. \A k \in Jobs : /\ x(k) \in JobRow
                        /\ x(k).status = IF k \in old THEN "expired" ELSE job[k].status
                        /\ x(k).path = job[k].path /\ x(k).success = job[k].success
                        /\ x(k).errors = job[k].errors
    BY <1>3 DEF JobRow, Status
  <2> HIDE DEF x
  <2>6. job' \in [Jobs -> JobRow]
    BY <2>3, <2>5
  <2>7. TypeOK'
    BY <1>1, <1>3, <1>4, <2>2, <2>6, TypeByRequest DEF Typed, ExpirePreview
  <2>8. Expires
    BY <1>4, <2>2, <2>3, <2>4, <2>5 DEF ExpirePreview, Expires
  <2> QED BY <2>7, <2>8 DEF Effect
<1>5. ASSUME ExpireCredentials PROVE Goal
  <2> DEFINE old == {k \in cleaner.due : /\ job[k].status = "completed"
                                         /\ job[k].path /\ job[k].evict = 0}
             x(k) == IF k \in old THEN [job[k] EXCEPT !.path = FALSE] ELSE job[k]
  <2>1. cleaner' = [pc |-> "credentials", todo |-> old, due |-> {}]
    BY <1>5 DEF ExpireCredentials
  <2>2. cleaner' \in CleanerState /\ cleaner'.pc = "credentials" /\ cleaner'.todo = old
    <3>1. old \in SUBSET Jobs
      BY <1>1
    <3> HIDE DEF old
    <3> QED BY <2>1, <3>1
  <2>3. job' = [k \in Jobs |-> x(k)]
    BY <1>5 DEF ExpireCredentials
  <2>4. \A k \in Jobs : k \in old => job[k].status = "completed"
    OBVIOUS
  <2> HIDE DEF old
  <2>5. \A k \in Jobs : /\ x(k) \in JobRow
                        /\ x(k).path = IF k \in old THEN FALSE ELSE job[k].path
                        /\ x(k).status = job[k].status /\ x(k).success = job[k].success
                        /\ x(k).errors = job[k].errors
    BY <1>3 DEF JobRow
  <2> HIDE DEF x
  <2>6. job' \in [Jobs -> JobRow]
    BY <2>3, <2>5
  <2>7. TypeOK'
    BY <1>1, <1>3, <1>5, <2>2, <2>6, TypeByRequest DEF Typed, ExpireCredentials
  <2>8. Sweeps
    BY <1>5, <2>2, <2>3, <2>4, <2>5 DEF ExpireCredentials, Sweeps
  <2> QED BY <2>7, <2>8 DEF Effect
<1>6. ASSUME NEW j \in Jobs, j \in cleaner.todo, cleaner' = [cleaner EXCEPT !.todo = @ \ {j}]
      PROVE  /\ cleaner' \in CleanerState /\ cleaner'.pc = cleaner.pc
             /\ cleaner'.todo \subseteq cleaner.todo
  BY <1>1, <1>6
<1>7. ASSUME NEW j \in Jobs, CsvDelete(j) PROVE Goal
  <2>1. TypeOK'
    BY <1>1, <1>3, <1>6, <1>7, TypeByRequest DEF Typed, CsvDelete
  <2>2. Deletes
    BY <1>6, <1>7 DEF CsvDelete, Deletes
  <2> QED BY <2>1, <2>2 DEF Effect
<1>8. ASSUME NEW j \in Jobs, CredentialsDelete(j) PROVE Goal
  <2>1. file' \in [Jobs -> {NoFile} \cup SUBSET Emails]
    BY <1>1, <1>8 DEF CredentialsDelete, Typed
  <2>2. TypeOK'
    BY <1>1, <1>3, <1>6, <1>8, <2>1, TypeByRequest DEF Typed, CredentialsDelete
  <2>3. Deletes
    BY <1>6, <1>8 DEF CredentialsDelete, Deletes
  <2> QED BY <2>2, <2>3 DEF Effect
<1>9. Asleep \in CleanerState /\ Asleep.pc = "asleep"
  BY DEF Asleep
<1>10. ASSUME CleanerSleep PROVE Goal
  <2>1. TypeOK'
    BY <1>1, <1>3, <1>9, <1>10, TypeByRequest DEF Typed, CleanerSleep
  <2>2. SkipsOrSleeps
    BY <1>2, <1>9, <1>10 DEF CleanerSleep, SkipsOrSleeps
  <2> QED BY <2>1, <2>2 DEF Effect
<1>11. ASSUME CleanerFail PROVE Goal
  <2>1. /\ cleaner' \in CleanerState
        /\ \/ cleaner'.todo = {}
           \/ cleaner'.pc = cleaner.pc /\ cleaner'.todo \subseteq cleaner.todo
    <3>1. CASE cleaner' = [pc |-> "csv", todo |-> {}, due |-> {j \in Jobs : job[j].evict = 0}]
      <4> DEFINE due == {j \in Jobs : job[j].evict = 0}
      <4>1. due \in SUBSET Jobs /\ cleaner' = [pc |-> "csv", todo |-> {}, due |-> due]
        BY <3>1
      <4> HIDE DEF due
      <4> QED BY <4>1
    <3>2. CASE cleaner' = [pc |-> "credentials", todo |-> {}, due |-> {}]
      BY <3>2
    <3>3. ASSUME NEW j \in cleaner.todo, cleaner' = [cleaner EXCEPT !.todo = @ \ {j}]
          PROVE  /\ cleaner' \in CleanerState
                 /\ cleaner'.pc = cleaner.pc /\ cleaner'.todo \subseteq cleaner.todo
      BY <1>1, <1>6, <3>3
    <3> QED BY <1>11, <3>1, <3>2, <3>3 DEF CleanerFail
  <2>2. TypeOK'
    BY <1>1, <1>3, <1>2, <1>11, <2>1, TypeByRequest DEF Typed, CleanerFail
  <2>3. SkipsOrSleeps
    BY <1>2, <1>11, <2>1 DEF CleanerFail, SkipsOrSleeps
  <2> QED BY <2>2, <2>3 DEF Effect
<1>12. ASSUME Crash PROVE Goal
  <2>1. req' = [r \in Req |-> Idle]
    BY <1>12 DEF Crash
  <2>2. ReqTyped' /\ \A q \in Req : At(q, "idle")'
    <3>1. ReqOK(Idle) /\ Idle.pc = "idle" /\ Idle \in ReqState
      BY FreshRequests DEF ReqOK
    <3>2. req' \in [Req -> ReqState] /\ \A q \in Req : req'[q] = Idle
      BY <2>1, <3>1
    <3>3. \A q \in Req : ReqOK(req'[q]) /\ req'[q].pc = "idle"
      BY <3>1, <3>2
    <3> QED BY <3>2, <3>3 DEF ReqTyped, ReqOK, At
  <2>3. TypeOK'
    BY <1>1, <1>2, <1>9, <1>12, <2>2, TypeByRequest DEF Typed, Crash
  <2>4. Stops
    BY <1>2, <1>9, <1>12, <2>2 DEF Crash, Stops
  <2> QED BY <2>3, <2>4 DEF Effect
<1>13. ASSUME Tick PROVE Goal
  <2> DEFINE aged(x) == CASE x.status = "preview"   -> [x EXCEPT !.left = Down(@)]
                          [] x.status = "completed" -> [x EXCEPT !.evict = Down(@)]
                          [] OTHER                  -> x
  <2>1. job' = [k \in Jobs |-> aged(job[k])]
    BY <1>13 DEF Tick
  <2>2. ASSUME NEW x \in JobRow
        PROVE  /\ aged(x) \in JobRow /\ aged(x).status = x.status /\ aged(x).path = x.path
               /\ aged(x).success = x.success /\ aged(x).errors = x.errors
    <3>1. Down(x.left) \in 0..PreviewTTL /\ Down(x.evict) \in 0..CredentialsTTL
      <4>1. x.left \in 0..PreviewTTL /\ x.evict \in 0..CredentialsTTL
        BY DEF JobRow
      <4> QED BY <4>1, BoundsAreNat DEF Down
    <3> DEFINE l == Down(x.left)
               e == Down(x.evict)
    <3>2. aged(x) \in {x, [x EXCEPT !.left = l], [x EXCEPT !.evict = e]}
      OBVIOUS
    <3> HIDE DEF l, e, aged
    <3>3. /\ [x EXCEPT !.left = l] \in JobRow /\ [x EXCEPT !.evict = e] \in JobRow
      BY <3>1 DEF JobRow, l, e
    <3> QED BY <3>2, <3>3 DEF JobRow
  <2> HIDE DEF aged
  <2>3. job' \in [Jobs -> JobRow]
    BY <1>3, <2>1, <2>2
  <2>4. TypeOK'
    BY <1>1, <1>3, <1>13, <2>3, TypeByRequest DEF Typed, Tick
  <2>5. Ages
    BY <1>3, <1>13, <2>1, <2>2 DEF Tick, Ages
  <2> QED BY <2>4, <2>5 DEF Effect
<1>14. ASSUME NEW e \in Emails, CreateUser(e) PROVE Goal
  <2>1. made' \in [Emails -> Jobs \cup {Nobody, Other}]
    BY <1>1, <1>14 DEF CreateUser, Typed
  <2>2. TypeOK'
    BY <1>1, <1>3, <1>14, <2>1, TypeByRequest DEF Typed, CreateUser
  <2>3. MadeElsewhere
    BY <1>14 DEF CreateUser, MadeElsewhere
  <2> QED BY <2>2, <2>3 DEF Effect
<1> QED BY <1>4, <1>5, <1>7, <1>8, <1>10, <1>11, <1>12, <1>13, <1>14 DEF CleanerStep

\* Every step keeps the types and has one of the effects.
LEMMA StepEffect ==
    ASSUME TypeOK, WorkInv, [Next]_vars
    PROVE  TypeOK' /\ Effect
<1>1. CASE UNCHANGED vars
  <2>1. Ages
    BY <1>1 DEF Ages, vars
  <2>2. Typed /\ ReqTyped
    BY TypeByRequest DEF Typed
  <2>3. ReqTyped'
    BY <1>1, <2>2 DEF ReqTyped, ReqOK, vars
  <2>4. TypeOK'
    BY <1>1, <2>2, <2>3, TypeByRequest DEF Typed, vars
  <2> QED BY <2>1, <2>4 DEF Effect
<1>2. ASSUME NEW r \in Req, NEW j \in Jobs,
             UploadPut(r, j) \/ CancelFind(r, j) \/ ConfirmFind(r, j)
      PROVE  TypeOK' /\ Effect
  BY <1>2, UploadEffects
<1>3. ASSUME NEW r \in Req,
             UploadInsert(r) \/ UploadUndo(r) \/ CancelFlip(r) \/ CancelDelete(r)
      PROVE  TypeOK' /\ Effect
  <2>1. Job(r) \in Jobs
    BY <1>3, RequestFacts DEF UploadInsert, UploadUndo, CancelFlip, CancelDelete, At
  <2> QED BY <1>3, <2>1, UploadEffects
<1>4. ASSUME NEW r \in Req, ReqStep(r) \/ CallFail(r) \/ RowFail(r) \/ ConfirmCorrupt(r)
      PROVE  TypeOK' /\ Effect
  BY <1>3, <1>4, RowEffects, SaveEffects DEF ReqStep
<1>5. CASE Next
  BY <1>2, <1>4, <1>5, OtherEffects DEF Next
<1> QED BY <1>1, <1>5

-----------------------------------------------------------------------------
(* Uploads                                                                  *)

\* What most steps do: requests stay on their side of the preview, jobs never go
\* back to it, and the cleaner takes no job that may still have it.
StaysOrLeaves(q) ==
    \/ req'[q].pc = "idle"
    \/ /\ req'[q].job = req[q].job
       /\ \/ req'[q].pc = req[q].pc
          \/ req[q].pc = "insert" /\ req'[q].pc = "undo"
          \/ /\ req[q].pc \notin {"idle"} \cup Uploading
             /\ req'[q].pc \notin {"idle", "delete"} \cup Uploading
NeverBack(k) ==
    \/ job'[k].status = job[k].status
    \/ job[k].status # "none" /\ job'[k].status \notin {"none", "preview"}
LEMMA UploadQuiet ==
    ASSUME TypeOK, UploadInv, csv' = csv,
           \A q \in Req : StaysOrLeaves(q), \A k \in Jobs : NeverBack(k),
           cleaner'.pc = "csv" => \A k \in cleaner'.todo :
              \/ cleaner.pc = "csv" /\ k \in cleaner.todo
              \/ k \in Jobs /\ job'[k].status \notin {"none", "preview"}
    PROVE  UploadInv'
<1>1. cleaner.todo \subseteq Jobs /\ \A q \in Req : req[q].pc # "idle" => Job(q) \in Jobs
  BY RequestFacts, TypeByRequest DEF Typed
<1>2. PreviewHasUpload'
  BY DEF UploadInv, PreviewHasUpload, NeverBack
<1>4. ASSUME NEW q \in Req, req'[q].pc # "idle"
      PROVE  req[q].pc # "idle" /\ req'[q].job = Job(q) /\ Job(q) \in Jobs
  BY <1>1, <1>4 DEF StaysOrLeaves, Job
<1>5. ASSUME NEW r \in Req, req'[r].pc \in Uploading
      PROVE  /\ job'[Job(r)'].status = "none" /\ Job(r)' \in csv'
             /\ \A q \in Req : At(q, "idle")' \/ Job(q)' # Job(r)' \/ q = r
  <2>1. req[r].pc \in Uploading /\ req'[r].job = Job(r) /\ Job(r) \in Jobs
    BY <1>4, <1>5 DEF StaysOrLeaves, Uploading
  <2>2. /\ job[Job(r)].status = "none" /\ Job(r) \in csv
        /\ \A q \in Req : At(q, "idle") \/ Job(q) # Job(r) \/ q = r
    BY <2>1 DEF UploadInv
  <2>3. \A q \in Req : req'[q].pc = "idle" \/ req'[q].job # Job(r) \/ q = r
    BY <1>4, <2>2 DEF At
  <2> QED BY <2>1, <2>2, <2>3 DEF NeverBack, At, Job
<1>6. ASSUME NEW r \in Req, req'[r].pc \notin {"idle"} \cup Uploading
      PROVE  job'[Job(r)'].status # "none"
  <2>1. req[r].pc \notin {"idle"} \cup Uploading /\ req'[r].job = Job(r) /\ Job(r) \in Jobs
    BY <1>4, <1>6 DEF StaysOrLeaves, Uploading
  <2> QED BY <2>1 DEF UploadInv, NeverBack, Job
<1>7. ASSUME NEW r \in Req, At(r, "delete")'
      PROVE  job'[Job(r)'].status # "preview"
  <2>1. At(r, "delete") /\ req'[r].job = Job(r) /\ Job(r) \in Jobs
    BY <1>4, <1>7 DEF StaysOrLeaves, At
  <2> QED BY <2>1 DEF UploadInv, NeverBack, Job
<1>8. cleaner'.pc = "csv" => \A k \in cleaner'.todo : job'[k].status \notin {"none", "preview"}
  BY <1>1 DEF UploadInv, NeverBack
<1> QED BY <1>2, <1>5, <1>6, <1>7, <1>8 DEF UploadInv

\* UploadInv is kept.
LEMMA UploadNext ==
    ASSUME TypeOK, UploadInv, Effect
    PROVE  UploadInv'
<1>1. /\ \A q \in Req : req[q].pc # "idle" => Job(q) \in Jobs
      /\ cleaner.todo \subseteq Jobs /\ csv \subseteq Jobs
  BY RequestFacts, TypeByRequest DEF Typed
<1> DEFINE Quiet == (\A q \in Req : StaysOrLeaves(q)) /\ (\A k \in Jobs : NeverBack(k))
<1>2. ASSUME csv' = csv, cleaner' = cleaner, Quiet PROVE UploadInv'
  BY <1>2, UploadQuiet
<1>3. ASSUME NEW r \in Req, NEW pc, Place(r, pc), csv' = csv, cleaner' = cleaner,
             req[r].pc \notin {"idle"} \cup Uploading,
             pc \notin {"idle", "delete"} \cup Uploading,
             \A k \in Jobs : NeverBack(k)
      PROVE  UploadInv'
  <2>1. \A q \in Req : StaysOrLeaves(q)
    BY <1>3 DEF Place, Others, StaysOrLeaves
  <2> QED BY <1>2, <1>3, <2>1
<1>4. ASSUME NEW r \in Req, Returned(r), csv' = csv, cleaner' = cleaner,
             \A k \in Jobs : NeverBack(k)
      PROVE  UploadInv'
  <2>1. \A q \in Req : StaysOrLeaves(q)
    BY <1>4 DEF Returned, Others, StaysOrLeaves, At
  <2> QED BY <1>2, <1>4, <2>1
<1>5. ASSUME NEW r \in Req, NEW cs, NEW es, Reported(r, cs, es), csv' = csv, cleaner' = cleaner,
             req[r].pc \in {"check", "create", "enroll"}, job' = job
      PROVE  UploadInv'
  <2>1. (\A q \in Req : StaysOrLeaves(q)) /\ \A k \in Jobs : NeverBack(k)
    BY <1>5 DEF Reported, Others, StaysOrLeaves, NeverBack, Uploading
  <2> QED BY <1>2, <1>5, <2>1
<1>6. job' = job => \A k \in Jobs : NeverBack(k)
  BY DEF NeverBack
<1>7. req' = req => \A q \in Req : StaysOrLeaves(q)
  BY DEF StaysOrLeaves
<1> HIDE DEF Quiet
<1>8. ASSUME BeginUpload PROVE UploadInv'
  <2>1. PICK r \in Req, j \in Jobs :
          /\ job[j].status = "none" /\ \A q \in Req : At(q, "idle") \/ Job(q) # j
          /\ Begun(r, j, "insert")
          /\ csv' = csv \cup {j}
          /\ UNCHANGED <<job, file, made, cleaner, flips, fault>>
    BY <1>8 DEF BeginUpload
  <2>2. /\ req'[r].pc = "insert" /\ req'[r].job = j
        /\ \A q \in Req : q # r => req'[q] = req[q]
    BY <2>1 DEF Begun, Others
  <2>3. \A q \in Req : q # r => At(q, "idle")' = At(q, "idle") /\ Job(q)' = Job(q)
    BY <2>2 DEF At, Job
  <2> QED BY <2>1, <2>2, <2>3 DEF UploadInv, PreviewHasUpload, Uploading, At, Job
<1>9. ASSUME BeginOther PROVE UploadInv'
  <2>1. PICK r \in Req, j \in Jobs, pc \in {"cancel", "flip"} :
          /\ job[j].status = "preview"
          /\ Begun(r, j, pc)
          /\ UNCHANGED <<job, csv, file, made, cleaner, flips, fault>>
    BY <1>9 DEF BeginOther
  <2>2. /\ req'[r].pc = pc /\ req'[r].job = j
        /\ \A q \in Req : q # r => req'[q] = req[q]
    BY <2>1 DEF Begun, Others
  <2> QED BY <2>1, <2>2 DEF UploadInv, PreviewHasUpload, Uploading, At, Job
<1>10. ASSUME DeleteUpload PROVE UploadInv'
  <2>1. PICK r \in Req :
          /\ req[r].pc \in {"undo", "delete"}
          /\ Returned(r)
          /\ csv' = csv \ {Job(r)}
          /\ UNCHANGED <<job, file, made, cleaner, flips, fault>>
    BY <1>10 DEF DeleteUpload
  <2>2. req'[r].pc = "idle" /\ \A q \in Req : q # r => req'[q] = req[q]
    BY <2>1 DEF Returned, Others, At
  <2>3. \A q \in Req : q # r /\ req[q].pc \in Uploading => Job(q) # Job(r)
    BY <2>1 DEF UploadInv, Uploading, At
  <2> QED BY <2>1, <2>2, <2>3 DEF UploadInv, PreviewHasUpload, Uploading, At, Job
<1>11. ASSUME Preview PROVE UploadInv'
  <2>1. PICK r \in Req : FlipTo(r, "insert", "preview") /\ Returned(r)
    BY <1>11 DEF Preview
  <2>2. req'[r].pc = "idle" /\ \A q \in Req : q # r => req'[q] = req[q]
    BY <2>1 DEF Returned, Others, At
  <2>3. /\ req[r].pc = "insert" /\ csv' = csv /\ cleaner' = cleaner
        /\ \A k \in Jobs : job'[k].status = IF k = Job(r) THEN "preview" ELSE job[k].status
    BY <2>1 DEF FlipTo, StatusOf, At
  <2>4. /\ Job(r) \in csv /\ job[Job(r)].status = "none"
        /\ \A q \in Req : req[q].pc = "idle" \/ Job(q) # Job(r) \/ q = r
    BY <2>3 DEF UploadInv, Uploading, At
  <2> QED BY <1>1, <2>2, <2>3, <2>4 DEF UploadInv, PreviewHasUpload, Uploading, At, Job
<1>12. ASSUME Cancel PROVE UploadInv'
  <2>1. PICK r \in Req : FlipTo(r, "cancel", "cancelled") /\ Place(r, "delete")
    BY <1>12 DEF Cancel
  <2>2. /\ req'[r].pc = "delete" /\ req'[r].job = Job(r)
        /\ \A q \in Req : q # r => req'[q] = req[q]
    BY <2>1 DEF Place, Others, Job
  <2>3. /\ req[r].pc = "cancel" /\ csv' = csv /\ cleaner' = cleaner
        /\ \A k \in Jobs : job'[k].status = IF k = Job(r) THEN "cancelled" ELSE job[k].status
    BY <2>1 DEF FlipTo, StatusOf, At
  <2>4. job[Job(r)].status # "none"
    BY <2>3 DEF UploadInv, Uploading
  <2> QED BY <1>1, <2>2, <2>3, <2>4 DEF UploadInv, PreviewHasUpload, Uploading, At, Job
<1>13. ASSUME NEW r \in Req, NEW from, NEW s \in {"processing", "completed", "failed"},
              FlipTo(r, from, s), from \notin {"idle"} \cup Uploading
       PROVE  csv' = csv /\ cleaner' = cleaner /\ \A k \in Jobs : NeverBack(k)
  <2>1. job[Job(r)].status # "none"
    BY <1>13 DEF FlipTo, UploadInv, At
  <2> QED BY <1>13, <2>1 DEF FlipTo, StatusOf, NeverBack
<1>14. ASSUME Confirm PROVE UploadInv'
  <2>1. PICK r \in Req : FlipTo(r, "flip", "processing") /\ Place(r, "fetch")
    BY <1>14 DEF Confirm
  <2>2. req[r].pc = "flip" /\ {"flip", "fetch"} \cap ({"idle", "delete"} \cup Uploading) = {}
    BY <2>1 DEF FlipTo, At, Uploading
  <2> QED BY <1>3, <1>13, <2>1, <2>2
<1>15. ASSUME Complete PROVE UploadInv'
  BY <1>4, <1>13, <1>15 DEF Complete, Uploading
<1>16. ASSUME Failed PROVE UploadInv'
  BY <1>4, <1>13, <1>16 DEF Failed, Uploading
<1>17. ASSUME Scan PROVE UploadInv'
  BY <1>3, <1>4, <1>6, <1>17 DEF Scan, Uploading, At
<1>18. ASSUME RowRefused PROVE UploadInv'
  BY <1>5, <1>18 DEF RowRefused
<1>19. ASSUME AccountMade PROVE UploadInv'
  BY <1>3, <1>5, <1>6, <1>19 DEF AccountMade, Uploading, At
<1>20. ASSUME RowEnrolled PROVE UploadInv'
  BY <1>5, <1>20 DEF RowEnrolled, At
<1>21. ASSUME SavesFile PROVE UploadInv'
  BY <1>3, <1>6, <1>21 DEF SavesFile, Uploading, At
<1>22. ASSUME NEW j, NEW f, NEW v, OnlyField(j, f, v) PROVE \A k \in Jobs : NeverBack(k)
  BY <1>22 DEF OnlyField, NeverBack
<1>23. ASSUME SavesCount PROVE UploadInv'
  BY <1>3, <1>22, <1>23 DEF SavesCount, Uploading, At
<1>24. ASSUME SavesErrors PROVE UploadInv'
  BY <1>3, <1>22, <1>24 DEF SavesErrors, Uploading, At
<1>25. ASSUME SavesPath PROVE UploadInv'
  BY <1>3, <1>22, <1>25 DEF SavesPath, Uploading, At
<1>26. ASSUME CallFails PROVE UploadInv'
  <2>1. PICK r \in Req :
          /\ \/ Returned(r)
             \/ At(r, "insert") /\ Place(r, "undo")
             \/ \E pc \in PastRows : req[r].pc \in PastRows /\ Place(r, pc)
          /\ UNCHANGED <<job, csv, file, made, cleaner, flips>>
    BY <1>26 DEF CallFails, PastRows, At
  <2>2. \A q \in Req : StaysOrLeaves(q)
    BY <2>1 DEF Returned, Place, Others, StaysOrLeaves, At, PastRows, Uploading
  <2> QED BY <1>2, <1>6, <2>1, <2>2 DEF Quiet
<1>27. ASSUME MadeElsewhere PROVE UploadInv'
  BY <1>2, <1>6, <1>7, <1>27 DEF MadeElsewhere, Quiet
<1>28. ASSUME Stops PROVE UploadInv'
  <2>1. \A q \in Req : StaysOrLeaves(q)
    BY <1>28 DEF Stops, StaysOrLeaves, At
  <2> QED BY <1>6, <1>28, <2>1, UploadQuiet DEF Stops
<1>29. ASSUME Expires PROVE UploadInv'
  <2>1. \A k \in Jobs : NeverBack(k)
    BY <1>29 DEF Expires, NeverBack
  <2> QED BY <1>7, <1>29, <2>1, UploadQuiet DEF Expires
<1>30. ASSUME Sweeps PROVE UploadInv'
  <2>1. \A k \in Jobs : NeverBack(k)
    BY <1>30 DEF Sweeps, NeverBack
  <2> QED BY <1>7, <1>30, <2>1, UploadQuiet DEF Sweeps
<1>31. ASSUME Deletes PROVE UploadInv'
  <2>1. CASE csv' = csv
    BY <1>6, <1>7, <1>31, <2>1, UploadQuiet DEF Deletes
  <2>2. CASE csv' # csv
    <3>1. PICK j \in cleaner.todo : cleaner.pc = "csv" /\ csv' = csv \ {j}
      BY <1>31, <2>2 DEF Deletes
    <3>2. /\ job' = job /\ req' = req
          /\ cleaner'.pc = cleaner.pc /\ cleaner'.todo \subseteq cleaner.todo
      BY <1>31 DEF Deletes
    <3>3. job[j].status \notin {"none", "preview"}
      BY <3>1 DEF UploadInv
    <3> QED BY <3>1, <3>2, <3>3 DEF UploadInv, PreviewHasUpload, Uploading, At, Job
  <2> QED BY <2>1, <2>2
<1>32. ASSUME SkipsOrSleeps PROVE UploadInv'
  BY <1>6, <1>7, <1>32, UploadQuiet DEF SkipsOrSleeps
<1>33. ASSUME Ages PROVE UploadInv'
  <2>1. \A k \in Jobs : NeverBack(k)
    BY <1>33 DEF Ages, NeverBack
  <2> QED BY <1>2, <1>7, <1>33, <2>1 DEF Ages, Quiet
<1> QED
  BY <1>8, <1>9, <1>10, <1>11, <1>12, <1>14, <1>15, <1>16, <1>17, <1>18, <1>19, <1>20, <1>21,
     <1>23, <1>24, <1>25, <1>26, <1>27, <1>28, <1>29, <1>30, <1>31, <1>32, <1>33 DEF Effect

-----------------------------------------------------------------------------
(* Accounts and credentials                                                 *)

\* What every step does to the accounts: one once made is never made again, and
\* only a job that was confirmed makes any.
Makes ==
    \A e \in Emails, j \in Jobs :
        /\ made[e] = j => made'[e] = j
        /\ made'[e] = j => made[e] = j \/ flips[j] > 0
Counted == \A j \in Jobs : flips'[j] \in {flips[j], flips[j] + 1}
Downloadable(j) ==
    /\ job'[j].status = "completed" => job[j].status = "completed" \/ flips[j] > 0
    /\ job'[j].path => job[j].path \/ flips[j] > 0
    /\ Evicts(j)' => Evicts(j) \/ flips[j] > 0
Stored(j) == file'[j] = file[j] \/ file'[j] = NoFile \/ file'[j] \subseteq MadeBy(j)
LEMMA WorkQuiet ==
    ASSUME TypeOK, WorkInv, Makes, Counted, \A j \in Jobs : Downloadable(j) /\ Stored(j),
           \A q \in Req : \/ req'[q] = req[q]
                          \/ req'[q].pc \in {"idle", "cancel", "delete"} \cup Uploading
                          \/ OwnWork(q)'
    PROVE  WorkInv'
<1>1. /\ \A q \in Req : req[q].pc # "idle" => Job(q) \in Jobs
      /\ flips \in [Jobs -> Nat]
  BY RequestFacts, TypeByRequest DEF Typed
<1>2. \A j \in Jobs : MadeBy(j) \subseteq MadeBy(j)'
  BY DEF Makes, MadeBy
<1>3. PasswordsWork'
  BY <1>2 DEF WorkInv, PasswordsWork, Stored
<1>4. ASSUME NEW j \in Jobs, flips'[j] = 0
      PROVE  MadeBy(j)' = {} /\ job'[j].status # "completed" /\ ~job'[j].path /\ ~Evicts(j)'
  <2>1. flips[j] = 0
    BY <1>1, <1>4 DEF Counted
  <2>2. MadeBy(j) = {} /\ job[j].status # "completed" /\ ~job[j].path /\ ~Evicts(j)
    BY <2>1 DEF WorkInv
  <2>3. MadeBy(j)' = {}
    BY <2>1, <2>2 DEF Makes, MadeBy
  <2> QED BY <2>1, <2>2, <2>3 DEF Downloadable
<1>5. ASSUME NEW q \in Req PROVE OwnWork(q)'
  <2>1. CASE req'[q] = req[q]
    <3>1. OwnWork(q)
      BY DEF WorkInv
    <3>2. req[q].pc = "idle" \/ Job(q) \in Jobs
      BY <1>1
    <3>3. Job(q) \in Jobs /\ flips[Job(q)] > 0 => flips'[Job(q)] > 0
      BY <1>1 DEF Counted
    <3>4. At(q, "enroll") => Line(q).email \in Emails
      BY RequestFacts DEF At
    <3>5. /\ req'[q].pc = req[q].pc /\ Job(q)' = Job(q) /\ Line(q)' = Line(q)
          /\ At(q, "enroll")' = At(q, "enroll")
      BY <2>1 DEF Job, Line, At
    <3>6. req[q].pc \in PastFlip \cup {"flip", "enroll"} => req[q].pc # "idle"
      BY DEF PastFlip, PastRows
    <3>7. At(q, "enroll") => req[q].pc # "idle"
      BY DEF At
    <3> QED BY <1>2, <2>1, <3>1, <3>2, <3>3, <3>4, <3>5, <3>6, <3>7 DEF OwnWork, Makes
  <2>2. CASE req'[q].pc \in {"idle", "cancel", "delete"} \cup Uploading
    BY <2>2 DEF OwnWork, PastFlip, PastRows, Uploading, At
  <2> QED BY <2>1, <2>2
<1> QED BY <1>3, <1>4, <1>5 DEF WorkInv

\* WorkInv is kept.
LEMMA WorkNext ==
    ASSUME TypeOK, WorkInv, Effect
    PROVE  WorkInv'
<1> DEFINE Elsewhere == {"idle", "cancel", "delete"} \cup Uploading
           Settled == \A q \in Req : req'[q] = req[q] \/ req'[q].pc \in Elsewhere \/ OwnWork(q)'
           Same(j) == Downloadable(j) /\ Stored(j)
<1>1. /\ \A q \in Req : req[q].pc # "idle" => Job(q) \in Jobs
      /\ flips \in [Jobs -> Nat] /\ Nobody \notin Jobs /\ Other \notin Jobs
      /\ made \in [Emails -> Jobs \cup {Nobody, Other}]
      /\ file \in [Jobs -> {NoFile} \cup SUBSET Emails]
  BY RequestFacts, TypeByRequest, FileTyped DEF Typed
<1>2. ASSUME Makes, Counted, \A j \in Jobs : Same(j), Settled PROVE WorkInv'
  BY <1>2, WorkQuiet
<1>3. /\ made' = made => Makes
      /\ flips' = flips => Counted
      /\ file' = file => \A j \in Jobs : Stored(j)
      /\ job' = job /\ cleaner' = cleaner => \A j \in Jobs : Downloadable(j)
      /\ req' = req => Settled
  BY DEF Makes, Counted, Stored, Downloadable, Evicts
<1>4. ASSUME NEW r \in Req, Others(r), req'[r].pc \in Elsewhere \/ OwnWork(r)' PROVE Settled
  BY <1>4 DEF Others
<1>5. ASSUME NEW r \in Req, Returned(r) PROVE Settled
  <2>1. Others(r) /\ req'[r].pc \in Elsewhere
    BY <1>5 DEF Returned, At
  <2> HIDE DEF Elsewhere, Settled
  <2> QED BY <1>4, <2>1
<1>6. ASSUME NEW r \in Req, NEW pc, Place(r, pc), made' = made, flips' = flips,
             \/ req[r].pc = "fetch" /\ pc = "check"
             \/ req[r].pc = "check" /\ pc = "create"
             \/ req[r].pc \in PastRows /\ pc \in PastRows
      PROVE  Settled
  <2>1. OwnWork(r) /\ req[r].pc \in PastFlip /\ pc \in PastFlip /\ pc \notin {"flip", "fetch", "enroll"}
    BY <1>6 DEF WorkInv, PastFlip, PastRows
  <2>2. /\ Job(r)' = Job(r) /\ MadeBy(Job(r))' = MadeBy(Job(r))
        /\ req'[r].pc = pc /\ req'[r].creds = req[r].creds /\ req'[r].i = req[r].i
    BY <1>6 DEF Place, Job, MadeBy
  <2>3. pc \in PastRows => req[r].pc \in PastRows
    BY <1>6 DEF PastRows
  <2>4. OwnWork(r)'
    BY <1>6, <2>1, <2>2, <2>3 DEF OwnWork, At
  <2>5. Others(r)
    BY <1>6 DEF Place
  <2> HIDE DEF Elsewhere, Settled
  <2> QED BY <1>4, <2>4, <2>5
<1>7. ASSUME NEW r \in Req, NEW cs \in SUBSET MadeBy(Job(r))', NEW es, Reported(r, cs, es),
             req[r].pc \in {"check", "create", "enroll"}, Makes, flips' = flips
      PROVE  Settled
  <2>1. OwnWork(r) /\ req[r].pc \in PastFlip /\ Job(r) \in Jobs
    BY <1>1, <1>7 DEF WorkInv, PastFlip
  <2>2. req[r].i \in 1..Len(File[Job(r)]) /\ Len(File[Job(r)]) \in Nat
    BY <1>7, <2>1, RequestFacts, FileLength
  <2>3. /\ Job(r)' = Job(r) /\ req'[r].creds = req[r].creds \cup cs /\ req'[r].i = req[r].i + 1
        /\ req'[r].pc = IF req[r].i = Len(File[Job(r)]) THEN "put" ELSE "check"
    BY <1>7 DEF Reported, Job
  <2>4. MadeBy(Job(r)) \subseteq MadeBy(Job(r))'
    BY <1>7, <2>1, <2>3 DEF Makes, MadeBy
  <2>5. flips'[Job(r)] > 0 /\ req'[r].creds \subseteq MadeBy(Job(r))'
    BY <1>7, <2>1, <2>3, <2>4 DEF OwnWork
  <2>6. req'[r].pc \in PastRows => req'[r].i > Len(File[Job(r)])
    BY <2>2, <2>3 DEF PastRows
  <2>7. OwnWork(r)'
    BY <2>3, <2>5, <2>6 DEF OwnWork, At
  <2>8. Others(r)
    BY <1>7 DEF Reported
  <2> HIDE DEF Elsewhere, Settled
  <2> QED BY <1>4, <2>7, <2>8
<1> HIDE DEF Settled, Same, Elsewhere
<1>8. ASSUME BeginUpload \/ BeginOther PROVE WorkInv'
  <2>1. PICK r \in Req, j \in Jobs, pc \in {"insert", "cancel", "flip"} : Begun(r, j, pc)
    BY <1>8 DEF BeginUpload, BeginOther
  <2>2. Others(r) /\ (req'[r].pc \in Elsewhere \/ OwnWork(r)')
    BY <2>1 DEF Begun, OwnWork, At, Elsewhere, Uploading, PastFlip, PastRows
  <2>3. UNCHANGED <<job, file, made, cleaner, flips>>
    BY <1>8 DEF BeginUpload, BeginOther
  <2> QED BY <1>2, <1>3, <1>4, <2>2, <2>3 DEF Same
<1>9. ASSUME DeleteUpload PROVE WorkInv'
  BY <1>2, <1>3, <1>5, <1>9 DEF DeleteUpload, Same
<1>10. ASSUME NEW r \in Req, NEW from, NEW s, FlipTo(r, from, s),
              s = "completed" => Job(r) \in Jobs /\ flips[Job(r)] > 0
       PROVE  /\ \A j \in Jobs : Same(j)
              /\ made' = made
  <2>1. UNCHANGED <<file, made, cleaner>> /\ StatusOf(Job(r), s)
    BY <1>10 DEF FlipTo
  <2> QED BY <1>10, <2>1 DEF Same, StatusOf, Downloadable, Stored, Evicts
<1>11. ASSUME Preview PROVE WorkInv'
  <2>1. PICK r \in Req : FlipTo(r, "insert", "preview") /\ Returned(r) /\ flips' = flips
    BY <1>11 DEF Preview
  <2> QED BY <1>2, <1>3, <1>5, <1>10, <2>1
<1>12. ASSUME Cancel PROVE WorkInv'
  <2>1. PICK r \in Req : FlipTo(r, "cancel", "cancelled") /\ Place(r, "delete") /\ flips' = flips
    BY <1>12 DEF Cancel
  <2>2. Others(r) /\ req'[r].pc \in Elsewhere
    BY <2>1 DEF Place, Elsewhere
  <2> QED BY <1>2, <1>3, <1>4, <1>10, <2>1, <2>2
<1>13. ASSUME Confirm PROVE WorkInv'
  <2>1. PICK r \in Req :
          /\ FlipTo(r, "flip", "processing") /\ Place(r, "fetch")
          /\ flips'[Job(r)] = flips[Job(r)] + 1
          /\ \A k \in Jobs : k # Job(r) => flips'[k] = flips[k]
    BY <1>13 DEF Confirm
  <2>2. At(r, "flip") /\ Job(r) \in Jobs /\ OwnWork(r)
    BY <1>1, <2>1 DEF FlipTo, WorkInv, At
  <2>3. Counted
    BY <1>1, <2>1, <2>2 DEF Counted
  <2>4. flips'[Job(r)] > 0
    BY <1>1, <2>1, <2>2
  <2>5. /\ Others(r) /\ Job(r)' = Job(r) /\ req'[r].pc = "fetch"
        /\ req'[r].i = 1 /\ req'[r].creds = {} /\ req'[r].errors = {}
    BY <2>1, <2>2 DEF Place, Job, OwnWork, At
  <2>6. OwnWork(r)'
    BY <2>4, <2>5 DEF OwnWork, At, PastRows
  <2> QED BY <1>2, <1>3, <1>4, <1>10, <2>1, <2>3, <2>5, <2>6
<1>14. ASSUME Complete PROVE WorkInv'
  <2>1. PICK r \in Req : FlipTo(r, "done", "completed") /\ Returned(r) /\ flips' = flips
    BY <1>14 DEF Complete
  <2>2. Job(r) \in Jobs /\ flips[Job(r)] > 0
    BY <1>1, <2>1 DEF FlipTo, WorkInv, OwnWork, At, PastFlip, PastRows
  <2> QED BY <1>2, <1>3, <1>5, <1>10, <2>1, <2>2
<1>15. ASSUME Failed PROVE WorkInv'
  <2>1. PICK r \in Req, pc \in {"fail", "fetch"} :
          FlipTo(r, pc, "failed") /\ Returned(r) /\ flips' = flips
    BY <1>15 DEF Failed
  <2> QED BY <1>2, <1>3, <1>5, <1>10, <2>1
<1>16. ASSUME Scan PROVE WorkInv'
  <2>1. UNCHANGED <<job, file, made, cleaner, flips>>
    BY <1>16 DEF Scan
  <2>2. Settled
    BY <1>5, <1>6, <1>16, <2>1 DEF Scan, At
  <2> QED BY <1>2, <1>3, <2>1, <2>2 DEF Same
<1>17. ASSUME RowRefused PROVE WorkInv'
  <2>1. UNCHANGED <<job, file, made, cleaner, flips>>
    BY <1>17 DEF RowRefused
  <2>2. Settled
    BY <1>3, <1>7, <1>17, <2>1 DEF RowRefused
  <2> QED BY <1>2, <1>3, <2>1, <2>2 DEF Same
<1>18. ASSUME AccountMade PROVE WorkInv'
  <2>1. PICK r \in Req :
          /\ At(r, "create") /\ made[Line(r).email] = Nobody
          /\ made' = [made EXCEPT ![Line(r).email] = Job(r)]
          /\ \/ Place(r, "enroll")
             \/ \E es \in SUBSET {req[r].i} : Reported(r, {Line(r).email}, es)
          /\ UNCHANGED <<job, file, cleaner, flips>>
    BY <1>18 DEF AccountMade
  <2>2. /\ Job(r) \in Jobs /\ Line(r).email \in Emails /\ OwnWork(r)
        /\ req[r].pc = "create" /\ flips[Job(r)] > 0
    BY <2>1, RequestFacts DEF WorkInv, OwnWork, At, PastFlip
  <2>3. /\ made'[Line(r).email] = Job(r)
        /\ \A e \in Emails : e # Line(r).email => made'[e] = made[e]
    BY <1>1, <2>1, <2>2
  <2>4. Makes
    BY <1>1, <2>1, <2>2, <2>3 DEF Makes
  <2>5. CASE Place(r, "enroll")
    <3>1. /\ Job(r)' = Job(r) /\ Line(r)' = Line(r) /\ req'[r].pc = "enroll"
          /\ req'[r].creds = req[r].creds /\ Others(r)
      BY <2>5 DEF Place, Job, Line
    <3>2. MadeBy(Job(r)) \subseteq MadeBy(Job(r))'
      BY <2>2, <2>4, <3>1 DEF Makes, MadeBy
    <3>3. OwnWork(r)'
      BY <2>1, <2>2, <2>3, <3>1, <3>2 DEF OwnWork, At, PastFlip, PastRows
    <3> QED BY <1>2, <1>3, <1>4, <2>1, <2>4, <3>1, <3>3 DEF Same
  <2>6. ASSUME NEW es, Reported(r, {Line(r).email}, es) PROVE WorkInv'
    <3>1. Job(r)' = Job(r)
      BY <2>6 DEF Reported, Job
    <3>2. {Line(r).email} \in SUBSET MadeBy(Job(r))'
      BY <2>2, <2>3, <3>1 DEF MadeBy
    <3>3. Settled
      BY <1>7, <2>1, <2>2, <2>4, <2>6, <3>2
    <3> QED BY <1>2, <1>3, <2>1, <2>4, <3>3 DEF Same
  <2> QED BY <2>1, <2>5, <2>6
<1>19. ASSUME RowEnrolled PROVE WorkInv'
  <2>1. PICK r \in Req :
          /\ At(r, "enroll")
          /\ \E es \in SUBSET {req[r].i} : Reported(r, {Line(r).email}, es)
    BY <1>19 DEF RowEnrolled
  <2>2. UNCHANGED <<job, file, made, cleaner, flips>>
    BY <1>19 DEF RowEnrolled
  <2>3. /\ Line(r).email \in Emails /\ made[Line(r).email] = Job(r) /\ req[r].pc = "enroll"
        /\ Job(r)' = Job(r)
    BY <2>1, RequestFacts DEF WorkInv, OwnWork, At, Reported, Job
  <2>4. {Line(r).email} \in SUBSET MadeBy(Job(r))'
    BY <2>2, <2>3 DEF MadeBy
  <2>5. Settled
    BY <1>3, <1>7, <2>1, <2>2, <2>3, <2>4
  <2> QED BY <1>2, <1>3, <2>2, <2>5 DEF Same
<1>20. ASSUME SavesFile PROVE WorkInv'
  <2>1. PICK r \in Req :
          /\ At(r, "put") /\ Place(r, "counts")
          /\ file' = [file EXCEPT ![Job(r)] = req[r].creds]
          /\ UNCHANGED <<job, made, cleaner, flips>>
    BY <1>20 DEF SavesFile
  <2>2. Job(r) \in Jobs /\ req[r].creds \subseteq MadeBy(Job(r))
    BY <1>1, <2>1 DEF WorkInv, OwnWork, At, PastFlip, PastRows
  <2>3. \A j \in Jobs : Stored(j)
    BY <1>1, <2>1, <2>2 DEF Stored
  <2>4. Settled
    BY <1>6, <2>1 DEF At, PastRows
  <2> QED BY <1>2, <1>3, <2>1, <2>3, <2>4 DEF Same
<1>21. ASSUME SavesCount \/ SavesErrors PROVE WorkInv'
  <2>1. PICK r \in Req :
          /\ \E pc \in PastRows : req[r].pc \in PastRows /\ Place(r, pc)
          /\ \A k \in Jobs : job'[k].status = job[k].status /\ job'[k].path = job[k].path
          /\ UNCHANGED <<file, made, cleaner, flips>>
    BY <1>21 DEF SavesCount, SavesErrors, OnlyField, PastRows, At
  <2>2. Settled
    BY <1>6, <2>1
  <2>3. \A j \in Jobs : Downloadable(j)
    BY <2>1 DEF Downloadable, Evicts
  <2> QED BY <1>2, <1>3, <2>1, <2>2, <2>3 DEF Same
<1>22. ASSUME SavesPath PROVE WorkInv'
  <2>1. PICK r \in Req :
          /\ At(r, "path") /\ Place(r, "done")
          /\ OnlyField(Job(r), "path", TRUE)
          /\ UNCHANGED <<file, made, cleaner, flips>>
    BY <1>22 DEF SavesPath
  <2>2. Settled
    BY <1>6, <2>1 DEF At, PastRows
  <2>3. flips[Job(r)] > 0
    BY <2>1 DEF WorkInv, OwnWork, At, PastFlip, PastRows
  <2>4. \A j \in Jobs : Downloadable(j)
    BY <2>1, <2>3 DEF Downloadable, Evicts, OnlyField
  <2> QED BY <1>2, <1>3, <2>1, <2>2, <2>4 DEF Same
<1>23. ASSUME CallFails PROVE WorkInv'
  <2>1. PICK r \in Req :
          /\ \/ Returned(r)
             \/ At(r, "insert") /\ Place(r, "undo")
             \/ \E pc \in PastRows : req[r].pc \in PastRows /\ Place(r, pc)
          /\ UNCHANGED <<job, csv, file, made, cleaner, flips>>
    BY <1>23 DEF CallFails, PastRows, At
  <2>2. CASE At(r, "insert") /\ Place(r, "undo")
    <3>1. Others(r) /\ req'[r].pc \in Elsewhere
      BY <2>2 DEF Place, Elsewhere, Uploading
    <3> QED BY <1>2, <1>3, <1>4, <2>1, <3>1 DEF Same
  <2>3. CASE ~(At(r, "insert") /\ Place(r, "undo"))
    <3>1. Settled
      BY <1>5, <1>6, <2>1, <2>3
    <3> QED BY <1>2, <1>3, <2>1, <3>1 DEF Same
  <2> QED BY <2>2, <2>3
<1>24. ASSUME MadeElsewhere PROVE WorkInv'
  <2>1. Makes
    BY <1>1, <1>24 DEF MadeElsewhere, Makes
  <2> QED BY <1>2, <1>3, <1>24, <2>1 DEF MadeElsewhere, Same
<1>25. ASSUME Stops PROVE WorkInv'
  <2>1. Settled
    BY <1>25 DEF Stops, Settled, Elsewhere, At
  <2>2. \A j \in Jobs : Downloadable(j)
    BY <1>25 DEF Stops, Downloadable, Evicts
  <2> QED BY <1>2, <1>3, <1>25, <2>1, <2>2 DEF Stops, Same
<1>26. ASSUME Expires PROVE WorkInv'
  <2>1. \A j \in Jobs : Downloadable(j)
    BY <1>26 DEF Expires, Downloadable, Evicts
  <2> QED BY <1>2, <1>3, <1>26, <2>1 DEF Expires, Same
<1>27. ASSUME Sweeps PROVE WorkInv'
  <2>1. \A j \in Jobs : job[j].status = "completed" => flips[j] > 0
    BY <1>1 DEF WorkInv
  <2>2. \A j \in Jobs : Downloadable(j)
    BY <1>27, <2>1 DEF Sweeps, Downloadable, Evicts
  <2> QED BY <1>2, <1>3, <1>27, <2>2 DEF Sweeps, Same
<1>28. ASSUME Deletes PROVE WorkInv'
  <2>1. \A j \in Jobs : Downloadable(j)
    BY <1>28 DEF Deletes, Downloadable, Evicts
  <2>2. \A j \in Jobs : Stored(j)
    BY <1>1, <1>28 DEF Deletes, Stored
  <2> QED BY <1>2, <1>3, <1>28, <2>1, <2>2 DEF Deletes, Same
<1>29. ASSUME SkipsOrSleeps PROVE WorkInv'
  <2>1. \A j \in Jobs : Downloadable(j)
    BY <1>29 DEF SkipsOrSleeps, Downloadable, Evicts
  <2> QED BY <1>2, <1>3, <1>29, <2>1 DEF SkipsOrSleeps, Same
<1>30. ASSUME Ages PROVE WorkInv'
  <2>1. \A j \in Jobs : Downloadable(j)
    BY <1>30 DEF Ages, Downloadable, Evicts
  <2> QED BY <1>2, <1>3, <1>30, <2>1 DEF Ages, Same
<1> QED
  BY <1>8, <1>9, <1>11, <1>12, <1>13, <1>14, <1>15, <1>16, <1>17, <1>18, <1>19, <1>20, <1>21,
     <1>22, <1>23, <1>24, <1>25, <1>26, <1>27, <1>28, <1>29, <1>30 DEF Effect

-----------------------------------------------------------------------------
(* A job confirmed once                                                     *)

SoleOf(j) ==
    /\ job[j].path => file[j] # NoFile /\ MadeBy(j) \subseteq file[j]
    /\ Evicts(j) => ~job[j].path
    /\ \A r \in Req : Imports(r, j) => SoleImport(r, j)

\* A job that a step does not concern: nothing of it changes but what an import
\* of it forgets.
Written == {"counts", "errors", "path", "done"}
ImportKept(q, j) ==
    \/ req'[q] = req[q]
    \/ ~Imports(q, j)'
    \/ /\ Imports(q, j) /\ ~At(q, "enroll") /\ ~At(q, "enroll")' /\ ~At(q, "done")
       /\ req'[q].creds = req[q].creds
       /\ req'[q].pc \in Written => req[q].pc \in Written
LEMMA SoleQuiet ==
    ASSUME TypeOK, NEW j \in Jobs, SoleOf(j), MadeBy(j)' = MadeBy(j), file'[j] = file[j],
           job'[j].path => job[j].path, Evicts(j)' => Evicts(j),
           job'[j].status = "completed" => job[j].status = "completed",
           \A q \in Req : ImportKept(q, j)
    PROVE  SoleOf(j)'
<1>1. \A q \in Req : Imports(q, j)' => Imports(q, j)
  BY DEF ImportKept, Imports, Job
<1>2. ASSUME NEW r \in Req, Imports(r, j)' PROVE SoleImport(r, j)'
  <2>1. Imports(r, j) /\ SoleImport(r, j)
    BY <1>1, <1>2 DEF SoleOf
  <2>2. \A q \in Req : Imports(q, j)' => q = r
    BY <1>1, <2>1 DEF SoleImport
  <2>3. /\ job'[j].status # "completed" /\ ~Evicts(j)'
    BY <2>1 DEF SoleImport
  <2>4. CASE req'[r] = req[r]
    <3>1. /\ req'[r].pc = req[r].pc /\ req'[r].creds = req[r].creds /\ Line(r)' = Line(r)
          /\ At(r, "enroll")' = At(r, "enroll") /\ At(r, "done")' = At(r, "done")
      BY <2>4 DEF Line, Job, At
    <3> QED BY <2>1, <2>2, <2>3, <3>1 DEF SoleImport
  <2>5. CASE req'[r] # req[r]
    <3>1. /\ ~At(r, "enroll") /\ ~At(r, "done") /\ req'[r].creds = req[r].creds
          /\ req'[r].pc \in Written => req[r].pc \in Written
      BY <1>2, <2>5 DEF ImportKept
    <3> QED BY <2>1, <2>2, <2>3, <3>1 DEF SoleImport, Written
  <2> QED BY <2>4, <2>5
<1>3. /\ job'[j].path => file'[j] # NoFile /\ MadeBy(j)' \subseteq file'[j]
      /\ Evicts(j)' => ~job'[j].path
  BY DEF SoleOf
<1> QED BY <1>2, <1>3 DEF SoleOf

\* SoleInv is kept.
LEMMA SoleNext ==
    ASSUME TypeOK, WorkInv, SoleInv, Effect
    PROVE  SoleInv'
<1> SUFFICES ASSUME NEW j \in Jobs, flips'[j] = 1 PROVE SoleOf(j)'
  BY DEF SoleInv, SoleOf
<1>1. /\ \A q \in Req : req[q].pc # "idle" => Job(q) \in Jobs
      /\ flips \in [Jobs -> Nat] /\ Nobody \notin Jobs /\ Other \notin Jobs
      /\ made \in [Emails -> Jobs \cup {Nobody, Other}]
      /\ file \in [Jobs -> {NoFile} \cup SUBSET Emails]
      /\ \A S \in SUBSET Emails : S # NoFile
      /\ \A q \in Req : req[q].creds \subseteq Emails
  BY RequestFacts, TypeByRequest, FileTyped DEF Typed
<1>2. CASE Confirm
  <2>1. PICK r \in Req :
          /\ FlipTo(r, "flip", "processing") /\ Place(r, "fetch")
          /\ flips'[Job(r)] = flips[Job(r)] + 1
          /\ \A k \in Jobs : k # Job(r) => flips'[k] = flips[k]
    BY <1>2 DEF Confirm
  <2>2. /\ UNCHANGED <<file, made, cleaner>> /\ At(r, "flip") /\ Job(r) \in Jobs
        /\ Others(r) /\ req'[r].pc = "fetch" /\ Job(r)' = Job(r) /\ req'[r].creds = req[r].creds
        /\ \A k \in Jobs : /\ job'[k].path = job[k].path
                           /\ k # Job(r) => job'[k].status = job[k].status
        /\ job'[Job(r)].status = "processing"
    BY <1>1, <2>1 DEF FlipTo, StatusOf, Place, At, Job
  <2>3. MadeBy(j)' = MadeBy(j) /\ Evicts(j)' = Evicts(j)
    BY <2>2 DEF MadeBy, Evicts
  <2>4. CASE j = Job(r)
    <3>1. flips[j] = 0
      BY <1>1, <2>1, <2>2, <2>4
    <3>2. MadeBy(j) = {} /\ ~job[j].path /\ ~Evicts(j) /\ \A q \in Req : ~Imports(q, j)
      BY <3>1 DEF WorkInv, OwnWork, Imports
    <3>3. \A q \in Req : q # r => ~Imports(q, j)'
      BY <2>2, <3>2 DEF Others, Imports, Job
    <3>4. SoleImport(r, j)'
      BY <2>2, <2>3, <2>4, <3>2, <3>3 DEF SoleImport
    <3> QED BY <2>2, <2>3, <3>2, <3>3, <3>4 DEF SoleOf
  <2>5. CASE j # Job(r)
    <3>1. SoleOf(j)
      BY <2>1, <2>5 DEF SoleInv, SoleOf
    <3>2. \A q \in Req : ImportKept(q, j)
      BY <2>2, <2>5 DEF ImportKept, Others, Imports, Job
    <3> QED BY <2>2, <2>3, <2>5, <3>1, <3>2, SoleQuiet
  <2> QED BY <2>4, <2>5
<1>3. ASSUME flips' = flips PROVE SoleOf(j) /\ flips[j] = 1
  BY <1>3 DEF SoleInv, SoleOf
<1>4. ASSUME flips' = flips, made' = made, file' = file, cleaner' = cleaner, job' = job,
             \A q \in Req : ImportKept(q, j)
      PROVE  SoleOf(j)'
  <2>1. MadeBy(j)' = MadeBy(j) /\ Evicts(j)' = Evicts(j)
    BY <1>4 DEF MadeBy, Evicts
  <2> QED BY <1>3, <1>4, <2>1, SoleQuiet
<1>5. ASSUME NEW r \in Req, Others(r), ImportKept(r, j) PROVE \A q \in Req : ImportKept(q, j)
  BY <1>5 DEF Others, ImportKept
<1>6. ASSUME NEW r \in Req, Returned(r) PROVE \A q \in Req : ImportKept(q, j)
  <2>1. Others(r) /\ ImportKept(r, j)
    BY <1>6 DEF Returned, ImportKept, Imports, At, PastFlip, PastRows
  <2> QED BY <1>5, <2>1
<1>7. ASSUME NEW r \in Req, NEW pc, Place(r, pc),
             \/ req[r].pc = "fetch" /\ pc = "check"
             \/ req[r].pc = "check" /\ pc = "create"
             \/ req[r].pc = "put" /\ pc = "failcounts"
             \/ req[r].pc \in Written \ {"done"} /\ pc \in Written
             \/ req[r].pc = "failcounts" /\ pc = "failerrors"
             \/ req[r].pc = "failerrors" /\ pc = "fail"
      PROVE  \A q \in Req : ImportKept(q, j)
  <2>1. Others(r) /\ ImportKept(r, j)
    BY <1>7 DEF Place, ImportKept, Imports, Job, At, PastFlip, PastRows, Written
  <2> QED BY <1>5, <2>1
<1>8. req' = req => \A q \in Req : ImportKept(q, j)
  BY DEF ImportKept
<1>9. CASE BeginUpload \/ BeginOther
  <2>1. PICK r \in Req, k \in Jobs, pc \in {"insert", "cancel", "flip"} : Begun(r, k, pc)
    BY <1>9 DEF BeginUpload, BeginOther
  <2>2. Others(r) /\ ImportKept(r, j)
    BY <2>1 DEF Begun, ImportKept, Imports, PastFlip, PastRows
  <2> QED BY <1>4, <1>5, <1>9, <2>2 DEF BeginUpload, BeginOther
<1>10. CASE DeleteUpload
  BY <1>4, <1>6, <1>10 DEF DeleteUpload
<1>11. ASSUME NEW r \in Req, NEW from, NEW s, FlipTo(r, from, s), s # "completed", flips' = flips,
              \A q \in Req : ImportKept(q, j)
       PROVE  SoleOf(j)'
  <2>1. /\ MadeBy(j)' = MadeBy(j) /\ Evicts(j)' = Evicts(j) /\ file' = file
        /\ job'[j].path = job[j].path
        /\ job'[j].status = "completed" => job[j].status = "completed"
    BY <1>11 DEF FlipTo, StatusOf, MadeBy, Evicts
  <2> QED BY <1>3, <1>11, <2>1, SoleQuiet
<1>12. CASE Preview
  BY <1>6, <1>11, <1>12 DEF Preview
<1>13. CASE Cancel
  <2>1. PICK r \in Req : FlipTo(r, "cancel", "cancelled") /\ Place(r, "delete") /\ flips' = flips
    BY <1>13 DEF Cancel
  <2>2. Others(r) /\ ImportKept(r, j)
    BY <2>1 DEF Place, ImportKept, Imports, PastFlip, PastRows
  <2> QED BY <1>5, <1>11, <2>1, <2>2
<1>14. CASE Complete
  <2>1. PICK r \in Req : FlipTo(r, "done", "completed") /\ Returned(r) /\ flips' = flips
    BY <1>14 DEF Complete
  <2>2. \A q \in Req : ImportKept(q, j)
    BY <1>6, <2>1
  <2>3. /\ MadeBy(j)' = MadeBy(j) /\ Evicts(j)' = Evicts(j) /\ file' = file
        /\ job'[j].path = job[j].path
        /\ job'[j].status = IF j = Job(r) THEN "completed" ELSE job[j].status
    BY <2>1 DEF FlipTo, StatusOf, MadeBy, Evicts
  <2>4. CASE j = Job(r)
    <3>1. SoleOf(j) /\ Imports(r, j)
      BY <1>3, <2>1, <2>4 DEF FlipTo, Imports, At, PastFlip, PastRows
    <3>2. \A q \in Req : Imports(q, j) => q = r
      BY <3>1 DEF SoleOf, SoleImport
    <3>3. \A q \in Req : ~Imports(q, j)'
      BY <2>1, <3>2 DEF Returned, Others, Imports, At, Job, PastFlip, PastRows
    <3> QED BY <2>3, <3>1, <3>3 DEF SoleOf
  <2>5. CASE j # Job(r)
    BY <1>3, <2>1, <2>2, <2>3, <2>5, SoleQuiet
  <2> QED BY <2>4, <2>5
<1>15. CASE Failed
  BY <1>6, <1>11, <1>15 DEF Failed
<1>16. CASE Scan
  BY <1>4, <1>6, <1>7, <1>16 DEF Scan, At
<1>17. CASE RowRefused
  <2>1. PICK r \in Req : req[r].pc \in {"check", "create"} /\ Reported(r, {}, {req[r].i})
    BY <1>17 DEF RowRefused
  <2>2. Others(r) /\ ImportKept(r, j)
    BY <2>1 DEF Reported, ImportKept, Imports, Job, At, PastFlip, PastRows, Written
  <2> QED BY <1>4, <1>5, <1>17, <2>2 DEF RowRefused
<1>18. CASE AccountMade
  <2>1. PICK r \in Req :
          /\ At(r, "create") /\ made[Line(r).email] = Nobody
          /\ made' = [made EXCEPT ![Line(r).email] = Job(r)]
          /\ \/ Place(r, "enroll")
             \/ \E es \in SUBSET {req[r].i} : Reported(r, {Line(r).email}, es)
          /\ UNCHANGED <<job, file, cleaner, flips>>
    BY <1>18 DEF AccountMade
  <2>2. /\ Job(r) \in Jobs /\ Line(r).email \in Emails /\ req[r].pc = "create"
        /\ Others(r) /\ Job(r)' = Job(r)
    BY <2>1, RequestFacts DEF At, Place, Reported, Job
  <2>3. /\ made'[Line(r).email] = Job(r)
        /\ \A e \in Emails : e # Line(r).email => made'[e] = made[e]
    BY <1>1, <2>1, <2>2
  <2>4. Evicts(j)' = Evicts(j)
    BY <2>1 DEF Evicts
  <2>5. CASE j = Job(r)
    <3>1. Imports(r, j) /\ SoleOf(j) /\ SoleImport(r, j)
      BY <1>3, <2>1, <2>2, <2>5 DEF SoleOf, Imports, PastFlip
    <3>2. ~job[j].path /\ MadeBy(j) \subseteq req[r].creds
      BY <2>2, <3>1 DEF SoleImport, At
    <3>3. MadeBy(j)' \subseteq req[r].creds \cup {Line(r).email}
      BY <2>3, <3>2 DEF MadeBy
    <3>4. \A q \in Req : Imports(q, j)' => q = r
      BY <2>2, <3>1 DEF SoleImport, Others, Imports, Job
    <3>5. CASE Place(r, "enroll")
      <4>1. Line(r)' = Line(r) /\ At(r, "enroll")' /\ req'[r].pc \notin Written
            /\ req'[r].creds = req[r].creds
        BY <3>5 DEF Place, Line, Job, At, Written
      <4>2. SoleImport(r, j)'
        BY <2>1, <2>4, <3>1, <3>2, <3>3, <3>4, <4>1 DEF SoleImport, Written
      <4> QED BY <2>1, <2>4, <3>1, <3>2, <3>4, <4>2 DEF SoleOf
    <3>6. ASSUME NEW es, Reported(r, {Line(r).email}, es) PROVE SoleOf(j)'
      <4>1. req'[r].creds = req[r].creds \cup {Line(r).email} /\ req'[r].pc \notin Written
        BY <3>6 DEF Reported, Written
      <4>2. SoleImport(r, j)'
        BY <2>1, <2>4, <3>1, <3>2, <3>3, <3>4, <4>1 DEF SoleImport, Written
      <4> QED BY <2>1, <2>4, <3>1, <3>2, <3>4, <4>2 DEF SoleOf
    <3> QED BY <2>1, <3>5, <3>6
  <2>6. CASE j # Job(r)
    <3>1. MadeBy(j)' = MadeBy(j)
      BY <1>1, <2>1, <2>3, <2>6 DEF MadeBy
    <3>2. \A q \in Req : ImportKept(q, j)
      BY <2>2, <2>6 DEF Others, ImportKept, Imports, Job
    <3> QED BY <1>3, <2>1, <2>4, <3>1, <3>2, SoleQuiet
  <2> QED BY <2>5, <2>6
<1>19. CASE RowEnrolled
  <2>1. PICK r \in Req :
          /\ At(r, "enroll")
          /\ \E es \in SUBSET {req[r].i} : Reported(r, {Line(r).email}, es)
    BY <1>19 DEF RowEnrolled
  <2>2. UNCHANGED <<job, file, made, cleaner, flips>>
    BY <1>19 DEF RowEnrolled
  <2>3. /\ req[r].pc = "enroll" /\ Others(r) /\ Job(r)' = Job(r)
        /\ req'[r].creds = req[r].creds \cup {Line(r).email} /\ req'[r].pc \notin Written
    BY <2>1 DEF At, Reported, Job, Written
  <2>4. CASE j = Job(r)
    <3>1. Imports(r, j) /\ SoleOf(j) /\ SoleImport(r, j)
      BY <1>3, <2>2, <2>3, <2>4 DEF SoleOf, Imports, PastFlip
    <3>2. ~job[j].path /\ MadeBy(j) \subseteq req'[r].creds
      BY <2>3, <3>1 DEF SoleImport, At
    <3>3. \A q \in Req : Imports(q, j)' => q = r
      BY <2>3, <3>1 DEF SoleImport, Others, Imports, Job
    <3>4. MadeBy(j)' = MadeBy(j) /\ Evicts(j)' = Evicts(j)
      BY <2>2 DEF MadeBy, Evicts
    <3>5. SoleImport(r, j)'
      BY <2>2, <2>3, <3>1, <3>2, <3>3, <3>4 DEF SoleImport, Written
    <3> QED BY <2>2, <3>1, <3>2, <3>3, <3>4, <3>5 DEF SoleOf
  <2>5. CASE j # Job(r)
    <3>1. \A q \in Req : ImportKept(q, j)
      BY <2>3, <2>5 DEF Others, ImportKept, Imports, Job
    <3> QED BY <1>4, <2>2, <3>1
  <2> QED BY <2>4, <2>5
<1>20. CASE SavesFile
  <2>1. PICK r \in Req :
          /\ At(r, "put") /\ Place(r, "counts")
          /\ file' = [file EXCEPT ![Job(r)] = req[r].creds]
          /\ UNCHANGED <<job, made, cleaner, flips>>
    BY <1>20 DEF SavesFile
  <2>2. /\ req[r].pc = "put" /\ Others(r) /\ Job(r)' = Job(r) /\ Job(r) \in Jobs
        /\ req'[r].creds = req[r].creds /\ req'[r].pc = "counts"
    BY <1>1, <2>1 DEF Place, At, Job
  <2>3. MadeBy(j)' = MadeBy(j) /\ Evicts(j)' = Evicts(j)
    BY <2>1 DEF MadeBy, Evicts
  <2>4. CASE j = Job(r)
    <3>1. Imports(r, j) /\ SoleOf(j) /\ SoleImport(r, j)
      BY <1>3, <2>1, <2>2, <2>4 DEF SoleOf, Imports, PastFlip, PastRows
    <3>2. ~job[j].path /\ MadeBy(j) \subseteq req[r].creds /\ file'[j] = req[r].creds
      BY <1>1, <2>1, <2>2, <2>4, <3>1 DEF SoleImport, At
    <3>3. \A q \in Req : Imports(q, j)' => q = r
      BY <2>2, <3>1 DEF SoleImport, Others, Imports, Job
    <3>4. SoleImport(r, j)'
      BY <2>1, <2>2, <2>3, <3>1, <3>2, <3>3 DEF SoleImport
    <3> QED BY <2>1, <2>3, <3>1, <3>2, <3>3, <3>4 DEF SoleOf
  <2>5. CASE j # Job(r)
    <3>1. \A q \in Req : ImportKept(q, j)
      BY <2>2, <2>5 DEF Others, ImportKept, Imports, Job
    <3>2. file'[j] = file[j]
      BY <1>1, <2>1, <2>2, <2>5
    <3> QED BY <1>3, <2>1, <2>3, <3>1, <3>2, SoleQuiet
  <2> QED BY <2>4, <2>5
<1>21. CASE SavesCount \/ SavesErrors
  <2>1. /\ \A k \in Jobs : job'[k].status = job[k].status /\ job'[k].path = job[k].path
        /\ UNCHANGED <<file, made, cleaner, flips>>
    BY <1>21 DEF SavesCount, SavesErrors, OnlyField
  <2>2. \A q \in Req : ImportKept(q, j)
    BY <1>7, <1>21 DEF SavesCount, SavesErrors, At, Written
  <2>3. MadeBy(j)' = MadeBy(j) /\ Evicts(j)' = Evicts(j)
    BY <2>1 DEF MadeBy, Evicts
  <2> QED BY <1>3, <2>1, <2>2, <2>3, SoleQuiet
<1>22. CASE SavesPath
  <2>1. PICK r \in Req :
          /\ At(r, "path") /\ Place(r, "done")
          /\ OnlyField(Job(r), "path", TRUE)
          /\ UNCHANGED <<file, made, cleaner, flips>>
    BY <1>22 DEF SavesPath
  <2>2. /\ req[r].pc = "path" /\ Others(r) /\ Job(r)' = Job(r) /\ Job(r) \in Jobs
        /\ req'[r].creds = req[r].creds /\ req'[r].pc = "done"
        /\ \A k \in Jobs : /\ job'[k].status = job[k].status
                           /\ job'[k].path = IF k = Job(r) THEN TRUE ELSE job[k].path
    BY <1>1, <2>1 DEF Place, At, Job, OnlyField
  <2>3. MadeBy(j)' = MadeBy(j) /\ Evicts(j)' = Evicts(j)
    BY <2>1 DEF MadeBy, Evicts
  <2>4. CASE j = Job(r)
    <3>1. Imports(r, j) /\ SoleOf(j) /\ SoleImport(r, j)
      BY <1>3, <2>1, <2>2, <2>4 DEF SoleOf, Imports, PastFlip, PastRows
    <3>2. MadeBy(j) \subseteq req[r].creds /\ file[j] = req[r].creds /\ file[j] # NoFile
      BY <1>1, <2>2, <3>1 DEF SoleImport, At
    <3>3. \A q \in Req : Imports(q, j)' => q = r
      BY <2>2, <3>1 DEF SoleImport, Others, Imports, Job
    <3>4. SoleImport(r, j)'
      BY <2>1, <2>2, <2>3, <3>1, <3>2, <3>3 DEF SoleImport, At
    <3>5. ~Evicts(j)
      BY <3>1 DEF SoleImport
    <3> QED BY <2>1, <2>3, <3>1, <3>2, <3>3, <3>4, <3>5 DEF SoleOf
  <2>5. CASE j # Job(r)
    <3>1. \A q \in Req : ImportKept(q, j)
      BY <2>2, <2>5 DEF Others, ImportKept, Imports, Job
    <3> QED BY <1>3, <2>1, <2>2, <2>3, <2>5, <3>1, SoleQuiet
  <2> QED BY <2>4, <2>5
<1>23. CASE CallFails
  <2>1. PICK r \in Req :
          \/ Returned(r)
          \/ At(r, "insert") /\ Place(r, "undo")
          \/ At(r, "put") /\ Place(r, "failcounts")
          \/ At(r, "counts") /\ Place(r, "errors")
          \/ At(r, "errors") /\ Place(r, "path")
          \/ At(r, "path") /\ Place(r, "done")
          \/ At(r, "failcounts") /\ Place(r, "failerrors")
          \/ At(r, "failerrors") /\ Place(r, "fail")
    BY <1>23 DEF CallFails
  <2>2. CASE At(r, "insert") /\ Place(r, "undo")
    <3>1. Others(r) /\ ImportKept(r, j)
      BY <2>2 DEF Place, ImportKept, Imports, PastFlip, PastRows
    <3> QED BY <1>4, <1>5, <1>23, <3>1 DEF CallFails
  <2>3. CASE ~(At(r, "insert") /\ Place(r, "undo"))
    <3>1. \A q \in Req : ImportKept(q, j)
      BY <1>6, <1>7, <2>1, <2>3 DEF At, Written
    <3> QED BY <1>4, <1>23, <3>1 DEF CallFails
  <2> QED BY <2>2, <2>3
<1>24. CASE MadeElsewhere
  <2>1. MadeBy(j)' = MadeBy(j) /\ Evicts(j)' = Evicts(j)
    BY <1>1, <1>24 DEF MadeElsewhere, MadeBy, Evicts
  <2> QED BY <1>3, <1>8, <1>24, <2>1, SoleQuiet DEF MadeElsewhere
<1>25. ASSUME UNCHANGED <<file, made, flips>>, \A q \in Req : ImportKept(q, j),
              job'[j].path => job[j].path, Evicts(j)' => Evicts(j),
              job'[j].status = "completed" => job[j].status = "completed"
       PROVE  SoleOf(j)'
  <2>1. MadeBy(j)' = MadeBy(j)
    BY <1>25 DEF MadeBy
  <2> QED BY <1>3, <1>25, <2>1, SoleQuiet
<1>26. CASE Stops
  <2>1. ~Evicts(j)' /\ \A q \in Req : ImportKept(q, j)
    BY <1>26 DEF Stops, Evicts, ImportKept, Imports, At, PastFlip, PastRows
  <2> QED BY <1>25, <1>26, <2>1 DEF Stops
<1>27. CASE Expires
  <2>1. ~Evicts(j)'
    BY <1>27 DEF Expires, Evicts
  <2> QED BY <1>8, <1>25, <1>27, <2>1 DEF Expires
<1>28. CASE Sweeps
  <2>1. SoleOf(j) /\ req' = req /\ file' = file
    BY <1>3, <1>28 DEF Sweeps
  <2>2. CASE j \in cleaner'.todo
    <3>1. job[j].status = "completed" /\ ~job'[j].path
      BY <1>28, <2>2 DEF Sweeps
    <3>2. \A q \in Req : ~Imports(q, j)
      BY <2>1, <3>1 DEF SoleOf, SoleImport
    <3>3. \A q \in Req : ~Imports(q, j)'
      BY <2>1, <3>2 DEF Imports, Job
    <3> QED BY <3>1, <3>3 DEF SoleOf
  <2>3. CASE j \notin cleaner'.todo
    <3>1. ~Evicts(j)' /\ job'[j].path = job[j].path /\ job'[j].status = job[j].status
      BY <1>28, <2>3 DEF Sweeps, Evicts
    <3> QED BY <1>8, <1>25, <1>28, <3>1 DEF Sweeps
  <2> QED BY <2>2, <2>3
<1>29. CASE Deletes
  <2>1. /\ job' = job /\ req' = req /\ made' = made /\ flips' = flips
        /\ Evicts(j)' => Evicts(j)
    BY <1>29 DEF Deletes, Evicts
  <2>2. CASE file'[j] = file[j]
    <3>1. MadeBy(j)' = MadeBy(j)
      BY <2>1 DEF MadeBy
    <3> QED BY <1>3, <1>8, <2>1, <2>2, <3>1, SoleQuiet
  <2>3. CASE file'[j] # file[j]
    <3>1. Evicts(j) /\ SoleOf(j)
      BY <1>1, <1>3, <1>29, <2>1, <2>3 DEF Deletes, Evicts
    <3>2. ~job[j].path /\ \A q \in Req : ~Imports(q, j)
      BY <3>1 DEF SoleOf, SoleImport
    <3>3. ~job'[j].path /\ \A q \in Req : ~Imports(q, j)'
      BY <2>1, <3>2 DEF Imports, Job
    <3> QED BY <3>3 DEF SoleOf
  <2> QED BY <2>2, <2>3
<1>30. CASE SkipsOrSleeps
  <2>1. Evicts(j)' => Evicts(j)
    BY <1>30 DEF SkipsOrSleeps, Evicts
  <2> QED BY <1>8, <1>25, <1>30, <2>1 DEF SkipsOrSleeps
<1>31. CASE Ages
  <2>1. Evicts(j)' = Evicts(j)
    BY <1>31 DEF Ages, Evicts
  <2> QED BY <1>8, <1>25, <1>31, <2>1 DEF Ages
<1> QED
  BY <1>2, <1>9, <1>10, <1>12, <1>13, <1>14, <1>15, <1>16, <1>17, <1>18, <1>19, <1>20, <1>21,
     <1>22, <1>23, <1>24, <1>26, <1>27, <1>28, <1>29, <1>30, <1>31 DEF Effect

-----------------------------------------------------------------------------
(* Reports                                                                  *)

\* The rows told stay told when more errors are reported and accounts stay made.
ToldLater(j, n, es) ==
    \A k \in 1..Len(File[j]) : k < n => k \in es \/ made'[File[j][k].email] = j
LEMMA RowsStayTold ==
    ASSUME NEW j \in Jobs, NEW n, NEW es, NEW more, es \subseteq more, RowsTold(j, n, es),
           \A e \in Emails : made[e] = j => made'[e] = j
    PROVE  ToldLater(j, n, more)
<1>1. \A k \in 1..Len(File[j]) : File[j][k].email \in Emails
  BY FileLength DEF Row
<1> QED BY <1>1 DEF RowsTold, ToldLater

\* One more row is told when it is an error or its account is made.
LEMMA NextRowTold ==
    ASSUME NEW j \in Jobs, NEW n \in Nat, NEW es, ToldLater(j, n, es),
           n \in es \/ made'[File[j][n].email] = j
    PROVE  ToldLater(j, n + 1, es)
<1>1. \A k \in 1..Len(File[j]) : k < n + 1 => k < n \/ k = n
  BY FileLength
<1> QED BY <1>1 DEF ToldLater

Tells(j) == \A r \in Req : Imports(r, j) => SoleReport(r, j)
Sound(j) ==
    job[j].status = "completed" /\ fault = 0 =>
        /\ job[j].success = Cardinality(MadeBy(j))
        /\ \A i \in 1..Len(File[j]) : i \in job[j].errors \/ made[File[j][i].email] = j

\* What a step that leaves the report of a job alone does.
Stays(j) ==
    /\ \A e \in Emails : made[e] = j => made'[e] = j
    /\ fault' = 0 => /\ fault = 0
                     /\ job'[j].success = job[j].success
                     /\ job'[j].errors = job[j].errors
Counting == {"errors", "path", "done"}
TellsOn(q, j) ==
    \/ req'[q] = req[q]
    \/ ~Imports(q, j)'
    \/ /\ Imports(q, j) /\ req'[q].i = req[q].i
       /\ req'[q].errors = req[q].errors /\ req'[q].creds = req[q].creds
       /\ req'[q].pc \in Counting =>
            \/ fault' # 0
            \/ req[q].pc \in Counting /\ (req'[q].pc = "errors" \/ req[q].pc # "errors")
    \/ SoleReport(q, j)'
LEMMA TellsQuiet ==
    ASSUME TypeOK, NEW j \in Jobs, Tells(j), Stays(j), \A q \in Req : TellsOn(q, j)
    PROVE  Tells(j)'
<1> SUFFICES ASSUME NEW r \in Req, Imports(r, j)' PROVE SoleReport(r, j)'
  BY DEF Tells
<1>1. CASE SoleReport(r, j)'
  BY <1>1
<1>2. CASE ~SoleReport(r, j)'
  <2>1. /\ Imports(r, j) /\ req'[r].i = req[r].i
        /\ req'[r].errors = req[r].errors /\ req'[r].creds = req[r].creds
        /\ req'[r].pc \in Counting =>
             \/ fault' # 0
             \/ req[r].pc \in Counting /\ (req'[r].pc = "errors" \/ req[r].pc # "errors")
    BY <1>2 DEF TellsOn, Imports, Job
  <2>2. SoleReport(r, j)
    BY <2>1 DEF Tells
  <2>3. ToldLater(j, req[r].i, req[r].errors)
    BY <2>2, RowsStayTold DEF SoleReport, Stays
  <2>4. fault' = 0 /\ req'[r].pc \in Counting => job'[j].success = Cardinality(req'[r].creds)
    BY <2>1, <2>2 DEF SoleReport, Stays, Counting
  <2>5. ASSUME fault' = 0, req'[r].pc \in {"path", "done"}
        PROVE  ToldLater(j, req[r].i, job'[j].errors)
    <3>1. RowsTold(j, req[r].i, job[j].errors)
      BY <2>1, <2>2, <2>5 DEF SoleReport, Stays, Counting
    <3> QED BY <2>5, <3>1, RowsStayTold DEF Stays
  <2> QED BY <2>1, <2>3, <2>4, <2>5 DEF SoleReport, RowsTold, ToldLater, Counting
<1> QED BY <1>1, <1>2
LEMMA SoundQuiet ==
    ASSUME TypeOK, NEW j \in Jobs, Sound(j), Stays(j), MadeBy(j)' = MadeBy(j),
           job'[j].status = "completed" => job[j].status = "completed"
    PROVE  Sound(j)'
<1> SUFFICES ASSUME job'[j].status = "completed", fault' = 0
             PROVE  /\ job'[j].success = Cardinality(MadeBy(j)')
                    /\ \A i \in 1..Len(File[j]) :
                          i \in job'[j].errors \/ made'[File[j][i].email] = j
  BY DEF Sound
<1>1. /\ job'[j].success = job[j].success /\ job'[j].errors = job[j].errors
      /\ job[j].success = Cardinality(MadeBy(j))
      /\ \A i \in 1..Len(File[j]) : i \in job[j].errors \/ made[File[j][i].email] = j
  BY DEF Sound, Stays
<1>2. \A k \in 1..Len(File[j]) : File[j][k].email \in Emails
  BY FileLength DEF Row
<1> QED BY <1>1, <1>2 DEF Stays

\* ReportInv and ReportSound are kept.
LEMMA ReportNext ==
    ASSUME TypeOK, WorkInv, SoleInv, ReportInv, ReportSound, Effect
    PROVE  ReportInv' /\ ReportSound'
<1> SUFFICES ASSUME NEW j \in Jobs, flips'[j] = 1 PROVE Tells(j)' /\ Sound(j)'
  BY DEF ReportInv, ReportSound, Tells, Sound
<1>1. /\ \A q \in Req : req[q].pc # "idle" => Job(q) \in Jobs
      /\ flips \in [Jobs -> Nat] /\ Nobody \notin Jobs /\ Other \notin Jobs
      /\ made \in [Emails -> Jobs \cup {Nobody, Other}]
      /\ fault \in Nat
      /\ \A q \in Req : req[q].i \in Nat
  BY RequestFacts, TypeByRequest, FileTyped, BoundsAreNat DEF Typed
<1>2. ASSUME flips' = flips
      PROVE  /\ Tells(j) /\ Sound(j)
             /\ \A r \in Req : Imports(r, j) => SoleImport(r, j) /\ SoleReport(r, j)
  BY <1>2 DEF ReportInv, ReportSound, SoleInv, Tells, Sound
<1>3. ASSUME flips' = flips, Stays(j), made' = made,
             job'[j].status = "completed" => job[j].status = "completed",
             \A q \in Req : TellsOn(q, j)
      PROVE  Tells(j)' /\ Sound(j)'
  <2>1. MadeBy(j)' = MadeBy(j)
    BY <1>3 DEF MadeBy
  <2> QED BY <1>2, <1>3, <2>1, TellsQuiet, SoundQuiet
<1>4. /\ made' = made /\ job' = job /\ Later => Stays(j)
      /\ made' = made /\ job' = job /\ fault' = fault => Stays(j)
      /\ made' = made /\ fault' = fault + 1 => Stays(j)
  BY <1>1 DEF Stays, Later
<1>5. ASSUME NEW r \in Req, Others(r), TellsOn(r, j) PROVE \A q \in Req : TellsOn(q, j)
  BY <1>5 DEF Others, TellsOn
<1>6. ASSUME NEW r \in Req, Returned(r) PROVE \A q \in Req : TellsOn(q, j)
  <2>1. Others(r) /\ TellsOn(r, j)
    BY <1>6 DEF Returned, TellsOn, Imports, At, PastFlip, PastRows
  <2> QED BY <1>5, <2>1
<1>7. ASSUME NEW r \in Req, NEW pc, Place(r, pc), req[r].pc \in PastFlip, pc \notin Counting
      PROVE  \A q \in Req : TellsOn(q, j)
  <2>1. Others(r) /\ TellsOn(r, j)
    BY <1>7 DEF Place, TellsOn, Imports, Job
  <2> QED BY <1>5, <2>1
<1>8. req' = req => \A q \in Req : TellsOn(q, j)
  BY DEF TellsOn
<1>9. CASE Confirm
  <2>1. PICK r \in Req :
          /\ FlipTo(r, "flip", "processing") /\ Place(r, "fetch") /\ fault' = fault
          /\ flips'[Job(r)] = flips[Job(r)] + 1
          /\ \A k \in Jobs : k # Job(r) => flips'[k] = flips[k]
    BY <1>9 DEF Confirm
  <2>2. /\ made' = made /\ At(r, "flip") /\ Job(r) \in Jobs /\ OwnWork(r)
        /\ Others(r) /\ req'[r].pc = "fetch" /\ Job(r)' = Job(r) /\ req'[r].i = req[r].i
        /\ \A k \in Jobs : /\ job'[k].success = job[k].success
                           /\ job'[k].errors = job[k].errors
                           /\ k # Job(r) => job'[k].status = job[k].status
        /\ job'[Job(r)].status = "processing"
    BY <1>1, <2>1 DEF FlipTo, StatusOf, Place, At, Job, WorkInv
  <2>3. CASE j = Job(r)
    <3>1. flips[j] = 0 /\ req[r].i = 1
      BY <1>1, <2>1, <2>2, <2>3 DEF OwnWork, At
    <3>2. \A q \in Req : ~Imports(q, j)
      BY <3>1 DEF WorkInv, OwnWork, Imports
    <3>3. \A q \in Req : q # r => ~Imports(q, j)'
      BY <2>2, <3>2 DEF Others, Imports, Job
    <3>4. SoleReport(r, j)'
      BY <2>2, <3>1 DEF SoleReport, RowsTold
    <3> QED BY <2>2, <2>3, <3>3, <3>4 DEF Tells, Sound
  <2>4. CASE j # Job(r)
    <3>1. Tells(j) /\ Sound(j)
      BY <2>1, <2>4 DEF ReportInv, ReportSound, Tells, Sound
    <3>2. Stays(j) /\ MadeBy(j)' = MadeBy(j) /\ job'[j].status = job[j].status
      BY <2>1, <2>2, <2>4 DEF Stays, MadeBy
    <3>3. \A q \in Req : TellsOn(q, j)
      BY <2>2, <2>4 DEF TellsOn, Others, Imports, Job
    <3> QED BY <3>1, <3>2, <3>3, TellsQuiet, SoundQuiet
  <2> QED BY <2>3, <2>4
<1>10. CASE BeginUpload \/ BeginOther
  <2>1. PICK r \in Req, k \in Jobs, pc \in {"insert", "cancel", "flip"} : Begun(r, k, pc)
    BY <1>10 DEF BeginUpload, BeginOther
  <2>2. Others(r) /\ TellsOn(r, j)
    BY <2>1 DEF Begun, TellsOn, Imports, PastFlip, PastRows
  <2> QED BY <1>3, <1>4, <1>5, <1>10, <2>2 DEF BeginUpload, BeginOther
<1>11. CASE DeleteUpload
  BY <1>3, <1>4, <1>6, <1>11 DEF DeleteUpload
<1>12. ASSUME NEW r \in Req, NEW from, NEW s, FlipTo(r, from, s), s # "completed", flips' = flips,
              Later, \A q \in Req : TellsOn(q, j)
       PROVE  Tells(j)' /\ Sound(j)'
  <2>1. /\ made' = made /\ Stays(j)
        /\ job'[j].status = "completed" => job[j].status = "completed"
    BY <1>1, <1>12 DEF FlipTo, StatusOf, Stays, Later
  <2> QED BY <1>3, <1>12, <2>1
<1>13. CASE Preview
  BY <1>6, <1>12, <1>13 DEF Preview, Later
<1>14. CASE Cancel
  <2>1. PICK r \in Req : /\ FlipTo(r, "cancel", "cancelled") /\ Place(r, "delete")
                         /\ flips' = flips /\ fault' = fault
    BY <1>14 DEF Cancel
  <2>2. Others(r) /\ TellsOn(r, j)
    BY <2>1 DEF Place, TellsOn, Imports, PastFlip, PastRows
  <2> QED BY <1>5, <1>12, <2>1, <2>2 DEF Later
<1>15. CASE Complete
  <2>1. PICK r \in Req : /\ FlipTo(r, "done", "completed") /\ Returned(r)
                         /\ flips' = flips /\ fault' = fault
    BY <1>15 DEF Complete
  <2>2. \A q \in Req : TellsOn(q, j)
    BY <1>6, <2>1
  <2>3. /\ made' = made /\ MadeBy(j)' = MadeBy(j) /\ Stays(j)
        /\ job'[j].success = job[j].success /\ job'[j].errors = job[j].errors
        /\ job'[j].status = IF j = Job(r) THEN "completed" ELSE job[j].status
    BY <2>1 DEF FlipTo, StatusOf, MadeBy, Stays
  <2>4. Tells(j)'
    BY <1>2, <2>1, <2>2, <2>3, TellsQuiet
  <2>5. ASSUME j = Job(r) PROVE Sound(j)'
    <3>1. /\ req[r].pc = "done" /\ Imports(r, j) /\ SoleImport(r, j) /\ SoleReport(r, j)
          /\ OwnWork(r)
      BY <1>2, <2>1, <2>5 DEF FlipTo, Imports, At, PastFlip, PastRows, WorkInv
    <3>2. MadeBy(j) = req[r].creds
      BY <3>1, <2>5 DEF SoleImport, OwnWork, At, PastFlip, PastRows
    <3>3. req[r].i > Len(File[j])
      BY <2>5, <3>1 DEF OwnWork, PastRows
    <3>4. fault = 0 => /\ job[j].success = Cardinality(req[r].creds)
                       /\ RowsTold(j, req[r].i, job[j].errors)
      BY <3>1 DEF SoleReport
    <3>5. \A k \in 1..Len(File[j]) : k < req[r].i
      BY <1>1, <3>3, FileLength
    <3> QED BY <2>1, <2>3, <3>2, <3>4, <3>5 DEF Sound, RowsTold
  <2>6. ASSUME j # Job(r) PROVE Sound(j)'
    BY <1>2, <2>1, <2>3, <2>6, SoundQuiet
  <2> QED BY <2>4, <2>5, <2>6
<1>16. CASE Failed
  BY <1>6, <1>12, <1>16 DEF Failed
<1>17. CASE Scan
  <2>1. \A q \in Req : TellsOn(q, j)
    BY <1>6, <1>7, <1>17 DEF Scan, At, PastFlip, Counting
  <2> QED BY <1>3, <1>4, <1>17, <2>1 DEF Scan
<1>18. ASSUME NEW r \in Req, NEW cs, NEW es, Reported(r, cs, es), flips' = flips,
              req[r].pc \in {"check", "create", "enroll"},
              \A e \in Emails : made[e] = j => made'[e] = j,
              Job(r) = j => req[r].i \in es \/ made'[Line(r).email] = j
       PROVE  \A q \in Req : TellsOn(q, j)
  <2>1. CASE Job(r) = j
    <3>1. Imports(r, j) /\ SoleReport(r, j)
      BY <1>2, <1>18, <2>1 DEF Imports, PastFlip
    <3>2. /\ req'[r].i = req[r].i + 1 /\ req'[r].errors = req[r].errors \cup es
          /\ req'[r].pc \in {"put", "check"} /\ Others(r)
      BY <1>18 DEF Reported
    <3>3. ToldLater(j, req[r].i, req[r].errors \cup es)
      BY <1>18, <3>1, RowsStayTold DEF SoleReport
    <3>4. req[r].i \in req[r].errors \cup es \/ made'[File[j][req[r].i].email] = j
      BY <1>18, <2>1 DEF Line
    <3>5. ToldLater(j, req[r].i + 1, req[r].errors \cup es)
      BY <1>1, <3>3, <3>4, NextRowTold
    <3>6. SoleReport(r, j)'
      BY <3>2, <3>5 DEF SoleReport, RowsTold, ToldLater
    <3> QED BY <1>5, <3>2, <3>6 DEF TellsOn
  <2>2. CASE Job(r) # j
    <3>1. Others(r) /\ TellsOn(r, j)
      BY <1>18, <2>2 DEF Reported, TellsOn, Imports, Job
    <3> QED BY <1>5, <3>1
  <2> QED BY <2>1, <2>2
<1>19. CASE RowRefused
  <2>1. PICK r \in Req : req[r].pc \in {"check", "create"} /\ Reported(r, {}, {req[r].i})
    BY <1>19 DEF RowRefused
  <2>2. UNCHANGED <<made, job, flips>> /\ Later
    BY <1>19 DEF RowRefused
  <2>3. \A q \in Req : TellsOn(q, j)
    BY <1>18, <2>1, <2>2
  <2> QED BY <1>3, <1>4, <2>2, <2>3
<1>20. CASE AccountMade
  <2>1. PICK r \in Req :
          /\ At(r, "create") /\ made[Line(r).email] = Nobody
          /\ made' = [made EXCEPT ![Line(r).email] = Job(r)]
          /\ \/ Place(r, "enroll")
             \/ \E es \in SUBSET {req[r].i} : Reported(r, {Line(r).email}, es)
          /\ UNCHANGED <<job, flips, fault>>
    BY <1>20 DEF AccountMade
  <2>2. Job(r) \in Jobs /\ Line(r).email \in Emails /\ req[r].pc = "create"
    BY <2>1, RequestFacts DEF At
  <2>3. /\ made'[Line(r).email] = Job(r)
        /\ \A e \in Emails : e # Line(r).email => made'[e] = made[e]
    BY <1>1, <2>1, <2>2
  <2>4. (\A e \in Emails : made[e] = j => made'[e] = j) /\ Stays(j)
    BY <1>1, <2>1, <2>2, <2>3 DEF Stays
  <2>5. \A q \in Req : TellsOn(q, j)
    <3>1. CASE Place(r, "enroll")
      BY <1>7, <2>2, <3>1 DEF PastFlip, Counting
    <3>2. ASSUME NEW es, Reported(r, {Line(r).email}, es) PROVE \A q \in Req : TellsOn(q, j)
      BY <1>18, <2>1, <2>2, <2>3, <2>4, <3>2
    <3> QED BY <2>1, <3>1, <3>2
  <2>6. Tells(j)'
    BY <1>2, <2>1, <2>4, <2>5, TellsQuiet
  <2>7. CASE j = Job(r)
    <3>1. SoleImport(r, j)
      BY <1>2, <2>1, <2>2, <2>7 DEF Imports, PastFlip
    <3> QED BY <2>1, <2>6, <3>1 DEF Sound, SoleImport
  <2>8. CASE j # Job(r)
    <3>1. MadeBy(j)' = MadeBy(j)
      BY <1>1, <2>1, <2>3, <2>8 DEF MadeBy
    <3> QED BY <1>2, <2>1, <2>4, <2>6, <3>1, SoundQuiet
  <2> QED BY <2>7, <2>8
<1>21. CASE RowEnrolled
  <2>1. PICK r \in Req :
          /\ At(r, "enroll")
          /\ \E es \in SUBSET {req[r].i} : Reported(r, {Line(r).email}, es)
    BY <1>21 DEF RowEnrolled
  <2>2. UNCHANGED <<made, job, flips>> /\ Later
    BY <1>21 DEF RowEnrolled
  <2>3. made[Line(r).email] = Job(r) /\ req[r].pc = "enroll"
    BY <2>1 DEF WorkInv, OwnWork, At
  <2>4. \A q \in Req : TellsOn(q, j)
    BY <1>18, <2>1, <2>2, <2>3
  <2> QED BY <1>3, <1>4, <2>2, <2>4
<1>22. CASE SavesFile
  <2>1. \A q \in Req : TellsOn(q, j)
    BY <1>7, <1>22 DEF SavesFile, At, PastFlip, PastRows, Counting
  <2> QED BY <1>3, <1>4, <1>22, <2>1 DEF SavesFile
<1>23. CASE SavesCount
  <2>1. PICK r \in Req :
          /\ \/ At(r, "counts") /\ Place(r, "errors")
             \/ At(r, "failcounts") /\ Place(r, "failerrors")
          /\ OnlyField(Job(r), "success", Cardinality(req[r].creds))
          /\ UNCHANGED <<made, flips, fault>>
    BY <1>23 DEF SavesCount
  <2>2. /\ req[r].pc \in PastFlip /\ Others(r) /\ Job(r)' = Job(r)
        /\ req'[r].pc \in {"errors", "failerrors"} /\ req'[r].i = req[r].i
        /\ req'[r].creds = req[r].creds /\ req'[r].errors = req[r].errors
    BY <2>1 DEF Place, Job, At, PastFlip, PastRows
  <2>3. /\ job'[j].status = job[j].status /\ job'[j].errors = job[j].errors
        /\ job'[j].success = IF j = Job(r) THEN Cardinality(req[r].creds) ELSE job[j].success
    BY <2>1 DEF OnlyField
  <2>4. CASE j = Job(r)
    <3>1. Imports(r, j) /\ SoleImport(r, j) /\ SoleReport(r, j)
      BY <1>2, <2>1, <2>2, <2>4 DEF Imports
    <3>2. \A q \in Req : Imports(q, j)' => q = r
      BY <2>2, <3>1 DEF SoleImport, Others, Imports, Job
    <3>3. SoleReport(r, j)'
      BY <2>1, <2>2, <2>3, <2>4, <3>1 DEF SoleReport, RowsTold
    <3> QED BY <2>3, <3>1, <3>2, <3>3 DEF Tells, Sound, SoleImport
  <2>5. CASE j # Job(r)
    <3>1. Stays(j) /\ \A q \in Req : TellsOn(q, j)
      BY <2>1, <2>2, <2>3, <2>5 DEF Stays, TellsOn, Others, Imports, Job
    <3> QED BY <1>3, <2>1, <2>3, <3>1
  <2> QED BY <2>4, <2>5
<1>24. CASE SavesErrors
  <2>1. PICK r \in Req :
          /\ \/ At(r, "errors") /\ Place(r, "path")
             \/ At(r, "failerrors") /\ Place(r, "fail")
          /\ OnlyField(Job(r), "errors", IF req[r].errors = {} THEN job[Job(r)].errors
                                         ELSE req[r].errors)
          /\ UNCHANGED <<made, flips, fault>>
    BY <1>24 DEF SavesErrors
  <2>2. /\ req[r].pc \in PastFlip /\ Others(r) /\ Job(r)' = Job(r)
        /\ req'[r].pc \in {"path", "fail"} /\ (req'[r].pc = "path" => req[r].pc = "errors")
        /\ req'[r].i = req[r].i
        /\ req'[r].creds = req[r].creds /\ req'[r].errors = req[r].errors
    BY <2>1 DEF Place, Job, At, PastFlip, PastRows
  <2>3. /\ job'[j].status = job[j].status /\ job'[j].success = job[j].success
        /\ j # Job(r) => job'[j].errors = job[j].errors
        /\ j = Job(r) => req[r].errors \subseteq job'[j].errors
    BY <2>1 DEF OnlyField
  <2>4. CASE j = Job(r)
    <3>1. Imports(r, j) /\ SoleImport(r, j) /\ SoleReport(r, j)
      BY <1>2, <2>1, <2>2, <2>4 DEF Imports
    <3>2. \A q \in Req : Imports(q, j)' => q = r
      BY <2>2, <3>1 DEF SoleImport, Others, Imports, Job
    <3>3. RowsTold(j, req[r].i, req[r].errors) /\ RowsTold(j, req[r].i, job'[j].errors)
      BY <2>3, <2>4, <3>1 DEF SoleReport, RowsTold
    <3>4. SoleReport(r, j)'
      BY <2>1, <2>2, <2>3, <2>4, <3>1, <3>3 DEF SoleReport, RowsTold
    <3> QED BY <2>3, <3>1, <3>2, <3>4 DEF Tells, Sound, SoleImport
  <2>5. CASE j # Job(r)
    <3>1. Stays(j) /\ \A q \in Req : TellsOn(q, j)
      BY <2>1, <2>2, <2>3, <2>5 DEF Stays, TellsOn, Others, Imports, Job
    <3> QED BY <1>3, <2>1, <2>3, <3>1
  <2> QED BY <2>4, <2>5
<1>25. CASE SavesPath
  <2>1. PICK r \in Req :
          /\ At(r, "path") /\ Place(r, "done")
          /\ OnlyField(Job(r), "path", TRUE)
          /\ UNCHANGED <<made, flips, fault>>
    BY <1>25 DEF SavesPath
  <2>2. Others(r) /\ TellsOn(r, j)
    BY <2>1 DEF Place, TellsOn, Imports, Job, At, PastFlip, PastRows, Counting
  <2>3. Stays(j) /\ job'[j].status = job[j].status
    BY <2>1 DEF Stays, OnlyField
  <2> QED BY <1>3, <1>5, <2>1, <2>2, <2>3
<1>26. CASE CallFails
  <2>1. PICK r \in Req :
          \/ Returned(r)
          \/ At(r, "insert") /\ Place(r, "undo")
          \/ \E pc \in PastRows : req[r].pc \in PastRows /\ Place(r, pc)
    BY <1>26 DEF CallFails, PastRows, At
  <2>2. UNCHANGED <<made, job, flips>> /\ fault' = fault + 1 /\ fault' # 0
    BY <1>1, <1>26 DEF CallFails
  <2>3. CASE Returned(r)
    BY <1>3, <1>4, <1>6, <2>2, <2>3
  <2>4. CASE ~Returned(r)
    <3>1. Others(r) /\ TellsOn(r, j)
      BY <2>1, <2>2, <2>4 DEF Place, TellsOn, Imports, Job, At, PastFlip, PastRows
    <3> QED BY <1>3, <1>4, <1>5, <2>2, <3>1
  <2> QED BY <2>3, <2>4
<1>27. CASE MadeElsewhere
  <2>1. /\ Stays(j) /\ MadeBy(j)' = MadeBy(j)
        /\ UNCHANGED <<job, req, flips>>
    BY <1>1, <1>27 DEF MadeElsewhere, MadeBy, Stays
  <2> QED BY <1>2, <1>8, <2>1, TellsQuiet, SoundQuiet
<1>28. CASE Stops
  <2>1. \A q \in Req : TellsOn(q, j)
    BY <1>28 DEF Stops, TellsOn, Imports, At, PastFlip, PastRows
  <2> QED BY <1>3, <1>4, <1>28, <2>1 DEF Stops
<1>29. CASE Expires \/ Sweeps \/ Ages
  <2>1. /\ UNCHANGED <<made, req, flips, fault>>
        /\ job'[j].success = job[j].success /\ job'[j].errors = job[j].errors
        /\ job'[j].status = "completed" => job[j].status = "completed"
    BY <1>29 DEF Expires, Sweeps, Ages
  <2>2. Stays(j)
    BY <2>1 DEF Stays
  <2> QED BY <1>3, <1>8, <2>1, <2>2
<1>30. CASE Deletes \/ SkipsOrSleeps
  <2>1. UNCHANGED <<made, req, flips, job>> /\ Later
    BY <1>30 DEF Deletes, SkipsOrSleeps, Later
  <2> QED BY <1>3, <1>4, <1>8, <2>1
<1> QED
  BY <1>9, <1>10, <1>11, <1>13, <1>14, <1>15, <1>16, <1>17, <1>19, <1>20, <1>21,
     <1>22, <1>23, <1>24, <1>25, <1>26, <1>27, <1>28, <1>29, <1>30 DEF Effect

-----------------------------------------------------------------------------
(* The invariant                                                            *)

LEMMA InvariantInit == Init => IndInv
<1> SUFFICES ASSUME Init PROVE IndInv
  OBVIOUS
<1>1. TypeOK
  BY TypeInit
<1>2. \A r \in Req : req[r].pc = "idle"
  BY FreshRequests DEF Init
<1>3. /\ \A j \in Jobs : /\ job[j].status = "none" /\ ~job[j].path
                         /\ file[j] = NoFile /\ flips[j] = 0
      /\ cleaner.pc = "asleep"
  BY DEF Init, NoJob, Asleep
<1>4. \A j \in Jobs : MadeBy(j) = {}
  BY FileTyped DEF Init, MadeBy
<1>5. UploadInv
  BY <1>2, <1>3 DEF UploadInv, PreviewHasUpload, Uploading, At
<1>6. WorkInv
  BY <1>2, <1>3, <1>4 DEF WorkInv, PasswordsWork, OwnWork, Evicts, At, PastFlip, PastRows
<1>7. SoleInv /\ ReportInv /\ ReportSound
  BY <1>3 DEF SoleInv, ReportInv, ReportSound
<1> QED BY <1>1, <1>5, <1>6, <1>7 DEF IndInv

\* Whatever requests, cleaner and crashes interleave, the rows, the objects and
\* the goroutines are typed, uploads are there while they may be asked for, and
\* a confirm knows what it made: the inductive invariant of the import
\* (importjob/service.go, cleanup.go).
THEOREM ImportInvariant == Spec => []IndInv
<1>1. IndInv /\ [Next]_vars => IndInv'
  <2> SUFFICES ASSUME IndInv, [Next]_vars PROVE IndInv'
    OBVIOUS
  <2>1. TypeOK' /\ Effect
    BY StepEffect DEF IndInv
  <2> QED BY <2>1, UploadNext, WorkNext, SoleNext, ReportNext DEF IndInv
<1> QED BY <1>1, InvariantInit, PTL DEF Spec

\* What a completed job reports is what it did, for every file and every number
\* of jobs, requests and failures: the passwords listed work, no account of a job
\* confirmed once is missing from its credentials, and without failed calls the
\* counts and errors are those of what was made (importjob/service.go:410-560).
THEOREM ReportsAreTrue == Spec => []ReportTrue
<1>1. IndInv => ReportTrue
  BY DEF IndInv, ReportTrue, WorkInv, SoleInv, EveryPasswordListed
<1> QED BY <1>1, ImportInvariant, PTL

\* A preview that may still be confirmed has its upload: no cancel, sweep or
\* undone insert takes the object of a job that is, or will be, in preview
\* (importjob/service.go:240-315, cleanup.go).
THEOREM UploadsKept == Spec => []PreviewHasUpload
<1>1. IndInv => PreviewHasUpload
  BY DEF IndInv, UploadInv
<1> QED BY <1>1, ImportInvariant, PTL
=============================================================================
