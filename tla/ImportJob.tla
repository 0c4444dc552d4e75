----------------------------- MODULE ImportJob -----------------------------
(***************************************************************************)
(* Bulk import of student accounts (internal/importjob): an administrator  *)
(* uploads a CSV, confirms or cancels the preview, and an hourly cleaner   *)
(* expires old previews and evicts credentials files.                      *)
(*                                                                         *)
(* A request is cut at every call to the database or to the object store:  *)
(* no transaction spans two of them, and any of them may fail.  A TTL is   *)
(* the time the row has left, so that the clock needs no bound.  What a    *)
(* password is does not matter: an account is created once, so that a      *)
(* credentials file is the set of the e-mail addresses it has a line for.  *)
(***************************************************************************)
EXTENDS Integers, FiniteSets, Sequences

CONSTANTS
    Jobs,           \* import jobs
    Emails,         \* e-mail addresses of accounts
    Req,            \* goroutines that serve HTTP requests
    File,           \* the rows of each job's CSV
    PreviewTTL,     \* ticks a preview stays confirmable
    CredentialsTTL, \* ticks a credentials file stays downloadable
    NoFile,         \* no credentials object under the key
    MaxFault        \* bound on the number of failed calls and crashes

Nobody == "nobody"    \* the account does not exist
Other  == "other"     \* the account was made by something else than an import

Row == [email : Emails, kode : {"", "known", "unknown"}, valid : BOOLEAN]
Status == {"none", "preview", "processing", "completed", "expired",
           "cancelled", "failed"}

ASSUME FileTyped ==
    /\ File \in [Jobs -> Seq(Row) \ {<<>>}]
    /\ Nobody \notin Jobs /\ Other \notin Jobs
    /\ \A S \in SUBSET Emails : S # NoFile
    /\ \A j \in Jobs : \A i, k \in 1..Len(File[j]) :
          \* the parser marks the second row of an address as a duplicate
          (i # k /\ File[j][i].valid /\ File[j][k].valid)
             => File[j][i].email # File[j][k].email
ASSUME EmailsFinite == IsFiniteSet(Emails)
ASSUME BoundsAreNat ==
    /\ PreviewTTL \in Nat \ {0} /\ CredentialsTTL \in Nat \ {0} /\ MaxFault \in Nat

VARIABLES
    job,      \* import_jobs
    csv,      \* jobs whose upload is in the object store
    file,     \* the credentials object of each job
    made,     \* users: which job, if any, made the account of an address
    enrolled, \* accounts enrolled in the class of their row
    req,      \* what each request is doing
    cleaner,  \* what the cleaner is doing
    flips,    \* history: how often each job was flipped to processing
    fault     \* failed calls so far

vars == <<job, csv, file, made, enrolled, req, cleaner, flips, fault>>

NoJob == [status |-> "none", left |-> PreviewTTL, evict |-> CredentialsTTL,
          path |-> FALSE, success |-> 0, errors |-> {}]
Working(pc, j) == [pc |-> pc, job |-> j, i |-> 1, creds |-> {}, errors |-> {}]
Idle == Working("idle", Nobody)
Asleep == [pc |-> "asleep", todo |-> {}, due |-> {}]

Init ==
    /\ job = [j \in Jobs |-> NoJob]
    /\ csv = {}
    /\ file = [j \in Jobs |-> NoFile]
    /\ made \in [Emails -> {Nobody, Other}]
    /\ enrolled = {}
    /\ req = [r \in Req |-> Idle]
    /\ cleaner = Asleep
    /\ flips = [j \in Jobs |-> 0]
    /\ fault = 0

---------------------------------------------------------------------------
\* A request moves on, or returns.
Goto(r, pc) == req' = [req EXCEPT ![r].pc = pc]
Return(r) == req' = [req EXCEPT ![r] = Idle]
At(r, pc) == req[r].pc = pc
Job(r) == req[r].job
Line(r) == File[Job(r)][req[r].i]

\* SetStatus: the UPDATE names the row by id alone.
SetStatus(j, s) ==
    job' = [job EXCEPT ![j].status = s,
                       ![j].evict = IF s = "completed" THEN CredentialsTTL ELSE @]

---------------------------------------------------------------------------
\* PreviewUpload: the object first, then the row; a failed insert takes the
\* object back.
UploadPut(r, j) ==
    /\ At(r, "idle")
    /\ job[j].status = "none" /\ \A q \in Req : At(q, "idle") \/ Job(q) # j
    /\ j \notin csv
    /\ csv' = csv \cup {j}
    /\ req' = [req EXCEPT ![r] = Working("insert", j)]
    /\ UNCHANGED <<job, file, made, enrolled, cleaner, flips, fault>>

UploadInsert(r) ==
    /\ At(r, "insert")
    /\ SetStatus(Job(r), "preview")
    /\ Return(r)
    /\ UNCHANGED <<csv, file, made, enrolled, cleaner, flips, fault>>

UploadUndo(r) ==
    /\ At(r, "undo")
    /\ csv' = csv \ {Job(r)}
    /\ Return(r)
    /\ UNCHANGED <<job, file, made, enrolled, cleaner, flips, fault>>

---------------------------------------------------------------------------

\* Cancel: the status first, then the object.
CancelFind(r, j) ==
    /\ At(r, "idle")
    /\ job[j].status = "preview"
    /\ req' = [req EXCEPT ![r] = Working("cancel", j)]
    /\ UNCHANGED <<job, csv, file, made, enrolled, cleaner, flips, fault>>

\* Mutant: the call returns with the object still in the store.
CancelFlipOnly(r) ==
    /\ At(r, "cancel")
    /\ SetStatus(Job(r), "cancelled")
    /\ Return(r)
    /\ UNCHANGED <<csv, file, made, enrolled, cleaner, flips, fault>>
CancelFlip(r) ==
    /\ At(r, "cancel")
    /\ SetStatus(Job(r), "cancelled")
    /\ Goto(r, "delete")
    /\ UNCHANGED <<csv, file, made, enrolled, cleaner, flips, fault>>

CancelDelete(r) ==
    /\ At(r, "delete")
    /\ csv' = csv \ {Job(r)}
    /\ Return(r)
    /\ UNCHANGED <<job, file, made, enrolled, cleaner, flips, fault>>

---------------------------------------------------------------------------
\* Confirm: the guards, then the flip to processing, then the rows one by one.
ConfirmFind(r, j) ==
    /\ At(r, "idle")
    /\ job[j].status = "preview" /\ job[j].left > 0
    /\ req' = [req EXCEPT ![r] = Working("flip", j)]
    /\ UNCHANGED <<job, csv, file, made, enrolled, cleaner, flips, fault>>

ConfirmFlip(r) ==
    /\ At(r, "flip")
    /\ SetStatus(Job(r), "processing")
    /\ flips' = [flips EXCEPT ![Job(r)] = @ + 1]
    /\ Goto(r, "fetch")
    /\ UNCHANGED <<csv, file, made, enrolled, cleaner, fault>>

\* The upload is read and parsed again; if it is gone, the call returns.
ConfirmFetch(r) ==
    /\ At(r, "fetch")
    /\ IF Job(r) \in csv
       THEN Goto(r, "check")
       ELSE Return(r)
    /\ UNCHANGED <<job, csv, file, made, enrolled, cleaner, flips, fault>>

\* The row is done with: cs are the accounts it adds to the credentials, es
\* the failures it reports.
NextRow(r, cs, es) ==
    req' = [req EXCEPT ![r].creds = @ \cup cs, ![r].errors = @ \cup es,
                       ![r].i = @ + 1,
                       ![r].pc = IF req[r].i = Len(File[Job(r)]) THEN "put" ELSE "check"]

ConfirmCheck(r) ==
    /\ At(r, "check")
    /\ IF Line(r).valid /\ made[Line(r).email] = Nobody
       THEN Goto(r, "create")
       ELSE NextRow(r, {}, {req[r].i})
    /\ UNCHANGED <<job, csv, file, made, enrolled, cleaner, flips, fault>>

\* users.email is unique: the INSERT of an address taken meanwhile fails.
ConfirmCreate(r) ==
    LET e == Line(r).email
    IN  /\ At(r, "create")
        /\ \/ /\ made[e] # Nobody
              /\ NextRow(r, {}, {req[r].i})
              /\ UNCHANGED made
           \/ /\ made[e] = Nobody
              /\ made' = [made EXCEPT ![e] = Job(r)]
              /\ \/ Line(r).kode = "" /\ NextRow(r, {e}, {})
                 \/ Line(r).kode = "unknown" /\ NextRow(r, {e}, {req[r].i})
                 \/ Line(r).kode = "known" /\ Goto(r, "enroll")
        /\ UNCHANGED <<job, csv, file, enrolled, cleaner, flips, fault>>

ConfirmEnroll(r) ==
    /\ At(r, "enroll")
    /\ enrolled' = enrolled \cup {Line(r).email}
    /\ NextRow(r, {Line(r).email}, {})
    /\ UNCHANGED <<job, csv, file, made, cleaner, flips, fault>>

ConfirmPut(r) ==
    /\ At(r, "put")
    /\ file' = [file EXCEPT ![Job(r)] = req[r].creds]
    /\ Goto(r, "counts")
    /\ UNCHANGED <<job, csv, made, enrolled, cleaner, flips, fault>>

\* persistFailures: three UPDATEs, each tried whatever the others gave.
ConfirmCounts(r) ==
    /\ At(r, "counts") \/ At(r, "failcounts")
    /\ job' = [job EXCEPT ![Job(r)].success = Cardinality(req[r].creds)]
    /\ Goto(r, IF At(r, "counts") THEN "errors" ELSE "failerrors")
    /\ UNCHANGED <<csv, file, made, enrolled, cleaner, flips, fault>>

ConfirmErrors(r) ==
    /\ At(r, "errors") \/ At(r, "failerrors")
    /\ job' = [job EXCEPT ![Job(r)].errors = IF req[r].errors = {} THEN @
                                             ELSE req[r].errors]
    /\ Goto(r, IF At(r, "errors") THEN "path" ELSE "fail")
    /\ UNCHANGED <<csv, file, made, enrolled, cleaner, flips, fault>>

ConfirmPath(r) ==
    /\ At(r, "path")
    /\ job' = [job EXCEPT ![Job(r)].path = TRUE]
    /\ Goto(r, "done")
    /\ UNCHANGED <<csv, file, made, enrolled, cleaner, flips, fault>>

ConfirmDone(r) ==
    /\ At(r, "done") \/ At(r, "fail")
    /\ SetStatus(Job(r), IF At(r, "done") THEN "completed" ELSE "failed")
    /\ Return(r)
    /\ UNCHANGED <<csv, file, made, enrolled, cleaner, flips, fault>>

---------------------------------------------------------------------------

\* RunOnce: the previews first, then the credentials.  Each sweep is a
\* transaction that returns the rows it changed; their objects go one by one.
ExpirePreview ==
    LET old == {j \in Jobs : job[j].status = "preview" /\ job[j].left = 0}
    IN  /\ cleaner.pc = "asleep"
        /\ job' = [j \in Jobs |-> IF j \in old THEN [job[j] EXCEPT !.status = "expired"]
                                  ELSE job[j]]
        /\ cleaner' = [pc |-> "csv", todo |-> old,
                       due |-> {j \in Jobs : job[j].evict = 0}]
        /\ UNCHANGED <<csv, file, made, enrolled, req, flips, fault>>

CsvDelete(j) ==
    /\ cleaner.pc = "csv" /\ j \in cleaner.todo
    /\ csv' = csv \ {j}
    /\ cleaner' = [cleaner EXCEPT !.todo = @ \ {j}]
    /\ UNCHANGED <<job, file, made, enrolled, req, flips, fault>>

\* The cutoff is taken when the pass starts: due.
ExpireCredentials ==
    LET old == {j \in cleaner.due : /\ job[j].status = "completed"
                                    /\ job[j].path /\ job[j].evict = 0}
    IN  /\ cleaner.pc = "csv" /\ cleaner.todo = {}
        /\ job' = [j \in Jobs |-> IF j \in old THEN [job[j] EXCEPT !.path = FALSE]
                                  ELSE job[j]]
        /\ cleaner' = [pc |-> "credentials", todo |-> old, due |-> {}]
        /\ UNCHANGED <<csv, file, made, enrolled, req, flips, fault>>

CredentialsDelete(j) ==
    /\ cleaner.pc = "credentials" /\ j \in cleaner.todo
    /\ file' = [file EXCEPT ![j] = NoFile]
    /\ cleaner' = [cleaner EXCEPT !.todo = @ \ {j}]
    /\ UNCHANGED <<job, csv, made, enrolled, req, flips, fault>>

CleanerSleep ==
    /\ cleaner.pc = "credentials" /\ cleaner.todo = {}
    /\ cleaner' = Asleep
    /\ UNCHANGED <<job, csv, file, made, enrolled, req, flips, fault>>

---------------------------------------------------------------------------
\* An administrator creates an account by hand (admin.Handler.CreateUser).
CreateUser(e) ==
    /\ made[e] = Nobody
    /\ made' = [made EXCEPT ![e] = Other]
    /\ UNCHANGED <<job, csv, file, enrolled, req, cleaner, flips, fault>>

Fault == fault < MaxFault /\ fault' = fault + 1

\* A call fails before the rows, or after them where the code only logs it.
NextOnFailure ==
    [insert |-> "undo", undo |-> "idle", cancel |-> "idle", delete |-> "idle",
     flip |-> "idle", fetch |-> "idle", put |-> "failcounts", counts |-> "errors",
     errors |-> "path", path |-> "done", done |-> "idle",
     failcounts |-> "failerrors", failerrors |-> "fail", fail |-> "idle"]

CallFail(r) ==
    /\ Fault
    /\ req[r].pc \in DOMAIN NextOnFailure
    /\ LET pc == NextOnFailure[req[r].pc]
       IN  IF pc = "idle" THEN Return(r) ELSE Goto(r, pc)
    /\ UNCHANGED <<job, csv, file, made, enrolled, cleaner, flips>>

\* Mutant: a failed enrolment drops the account from the credentials.
RowFailForgets(r) ==
    /\ Fault
    /\ req[r].pc \in {"check", "create", "enroll"}
    /\ NextRow(r, {}, {req[r].i})
    /\ UNCHANGED <<job, csv, file, made, enrolled, cleaner, flips>>

\* A call for a row fails: a failure of that row.  An account already made
\* keeps its line in the credentials.
RowFail(r) ==
    /\ Fault
    /\ req[r].pc \in {"check", "create", "enroll"}
    /\ NextRow(r, IF At(r, "enroll") THEN {Line(r).email} ELSE {}, {req[r].i})
    /\ UNCHANGED <<job, csv, file, made, enrolled, cleaner, flips>>

\* The upload no longer parses, or has fewer rows: the job fails.
ConfirmCorrupt(r) ==
    /\ Fault
    /\ At(r, "fetch") /\ Job(r) \in csv
    /\ SetStatus(Job(r), "failed")
    /\ Return(r)
    /\ UNCHANGED <<csv, file, made, enrolled, cleaner, flips>>

\* A sweep or a delete of the cleaner fails: it goes on with the rest.
CleanerFail ==
    /\ Fault
    /\ \/ /\ cleaner.pc = "asleep"
          /\ cleaner' = [pc |-> "csv", todo |-> {}, due |-> {j \in Jobs : job[j].evict = 0}]
       \/ /\ cleaner.pc = "csv" /\ cleaner.todo = {}
          /\ cleaner' = [pc |-> "credentials", todo |-> {}, due |-> {}]
       \/ \E j \in cleaner.todo : cleaner' = [cleaner EXCEPT !.todo = @ \ {j}]
    /\ UNCHANGED <<job, csv, file, made, enrolled, req, flips>>

\* The process stops and starts again; its first sweep fires immediately.
Crash ==
    /\ Fault
    /\ req' = [r \in Req |-> Idle]
    /\ cleaner' = Asleep
    /\ UNCHANGED <<job, csv, file, made, enrolled, flips>>

Down(n) == IF n > 0 THEN n - 1 ELSE 0

\* Time passes for the TTLs that still matter.
Tick ==
    LET aged(x) == CASE x.status = "preview"   -> [x EXCEPT !.left = Down(@)]
                     [] x.status = "completed" -> [x EXCEPT !.evict = Down(@)]
                     [] OTHER                  -> x
    IN  /\ job' = [j \in Jobs |-> aged(job[j])]
        /\ job' # job
        /\ UNCHANGED <<csv, file, made, enrolled, req, cleaner, flips, fault>>

ReqStep(r) ==
    \/ UploadInsert(r) \/ UploadUndo(r)
    \/ CancelFlip(r) \/ CancelDelete(r)
    \/ ConfirmFlip(r) \/ ConfirmFetch(r) \/ ConfirmCheck(r) \/ ConfirmCreate(r)
    \/ ConfirmEnroll(r) \/ ConfirmPut(r) \/ ConfirmCounts(r) \/ ConfirmErrors(r)
    \/ ConfirmPath(r) \/ ConfirmDone(r)

CleanerStep ==
    \/ ExpirePreview \/ ExpireCredentials \/ CleanerSleep
    \/ \E j \in Jobs : CsvDelete(j) \/ CredentialsDelete(j)

Next ==
    \/ \E r \in Req, j \in Jobs : UploadPut(r, j) \/ CancelFind(r, j) \/ ConfirmFind(r, j)
    \/ \E r \in Req : ReqStep(r) \/ CallFail(r) \/ RowFail(r) \/ ConfirmCorrupt(r)
    \/ \E e \in Emails : CreateUser(e)
    \/ CleanerStep \/ CleanerFail \/ Crash \/ Tick

Spec == Init /\ [][Next]_vars

\* A request that was let in runs to its end, the cleaner wakes every hour and
\* time passes; nobody has to upload, confirm or cancel.
FairSpec == Spec /\ (\A r \in Req : WF_vars(ReqStep(r))) /\ WF_vars(CleanerStep) /\ WF_vars(Tick)

---------------------------------------------------------------------------
Pc == {"idle"} \cup DOMAIN NextOnFailure \cup {"check", "create", "enroll"}
\* Every row, object and goroutine is well formed; a row being imported is a
\* row of the file.
TypeOK ==
    /\ job \in [Jobs -> [status : Status, left : 0..PreviewTTL, evict : 0..CredentialsTTL,
                        path : BOOLEAN, success : Nat, errors : SUBSET Nat]]
    /\ csv \subseteq Jobs
    /\ file \in [Jobs -> {NoFile} \cup SUBSET Emails]
    /\ made \in [Emails -> Jobs \cup {Nobody, Other}]
    /\ enrolled \subseteq Emails
    /\ req \in [Req -> [pc : Pc, job : Jobs \cup {Nobody}, i : Nat, creds : SUBSET Emails,
                      errors : SUBSET Nat]]
    /\ \A r \in Req : req[r].pc # "idle" => Job(r) \in Jobs
    /\ \A r \in Req : req[r].pc \in {"check", "create", "enroll"}
                      => req[r].i \in 1..Len(File[Job(r)])
    /\ cleaner \in [pc : {"asleep", "csv", "credentials"}, todo : SUBSET Jobs,
                    due : SUBSET Jobs]
    /\ flips \in [Jobs -> Nat]
    /\ fault \in 0..MaxFault

MadeBy(j) == {e \in Emails : made[e] = j}

\* A credentials file has no line for an account its job did not make: the
\* password in it is the account's (importjob/service.go:516-525, a row that
\* loses the race for an address is a failure, not a success).
PasswordsWork ==
    \A j \in Jobs : file[j] # NoFile => file[j] \subseteq MadeBy(j)

\* A preview an administrator may still confirm has its upload, whatever
\* requests and sweeps are half way (importjob/service.go:313-315).
PreviewHasUpload ==
    \A j \in Jobs : job[j].status = "preview" => j \in csv

\* A job confirmed once whose credentials can be downloaded lists every account
\* it made, also those whose enrolment failed (importjob/service.go:532-534).
EveryPasswordListed ==
    \A j \in Jobs : (flips[j] = 1 /\ job[j].status = "completed" /\ job[j].path)
                       => file[j] # NoFile /\ MadeBy(j) \subseteq file[j]

\* Without failed calls, the report of a job confirmed once is right: as many
\* successes as accounts made, and every other row of the file an error.
ReportSound ==
    \A j \in Jobs : (job[j].status = "completed" /\ flips[j] = 1 /\ fault = 0) =>
        /\ job[j].success = Cardinality(MadeBy(j))
        /\ \A i \in 1..Len(File[j]) :
              i \in job[j].errors \/ made[File[j][i].email] = j

\* What a completed job reports is what it did: the passwords it lists work, every
\* account it made is listed, and the counts are right (importjob/service.go).
ReportTrue == PasswordsWork /\ EveryPasswordListed /\ ReportSound

\* A preview is confirmed, cancelled or expired in the end, also after failed
\* sweeps and restarts (importjob/cleanup.go:5-9).
PreviewLeaves ==
    \A j \in Jobs : (job[j].status = "preview") ~> (job[j].status # "preview")

\* The credentials of a completed job stop being downloadable
\* (importjob/cleanup.go:11-15).
CredentialsEvicted ==
    \A j \in Jobs : (job[j].status = "completed" /\ job[j].path)
                       ~> ~(job[j].status = "completed" /\ job[j].path)

\* Without failed calls, the upload of a job that was cancelled or that expired
\* leaves the store, unless a confirm has taken the job back
\* (importjob/service.go:303-304, cleanup.go:5-9).
UploadsSwept ==
    \A j \in Jobs : (job[j].status \in {"cancelled", "expired"} /\ j \in csv)
                       ~> (\/ j \notin csv
                           \/ job[j].status \notin {"cancelled", "expired"}
                           \/ fault > 0)

\* What an import stores is there as long as it is needed and not for ever: the
\* upload of a preview, previews, credentials, uploads (importjob/cleanup.go).
StoreSettles ==
    []PreviewHasUpload /\ PreviewLeaves /\ CredentialsEvicted /\ UploadsSwept

\* What the comments say and the code does not keep.

\* A job is flipped to processing once: the flip "acts as a lock so a parallel
\* confirm on the same job hits StatusNotInPreview and bails"
\* (importjob/service.go:388-389).
OneConfirm == \A j \in Jobs : flips[j] <= 1
-----------------------------------------------------------------------------
(* The inductive invariant of the proofs.                                  *)

Uploading == {"insert", "undo"}
PastRows == {"put", "counts", "errors", "path", "done", "failcounts", "failerrors", "fail"}
PastFlip == {"fetch", "check", "create", "enroll"} \cup PastRows
Imports(r, j) == req[r].pc \in PastFlip /\ Job(r) = j
Evicts(j) == cleaner.pc = "credentials" /\ j \in cleaner.todo

\* An upload is alone with a job that has no row yet, nobody else works on such a
\* job, and an upload is deleted only after its preview is over for good.
UploadInv ==
    /\ PreviewHasUpload
    /\ \A r \in Req : req[r].pc \in Uploading =>
          /\ job[Job(r)].status = "none" /\ Job(r) \in csv
          /\ \A q \in Req : At(q, "idle") \/ Job(q) # Job(r) \/ q = r
    /\ \A r \in Req : req[r].pc \notin {"idle"} \cup Uploading => job[Job(r)].status # "none"
    /\ \A r \in Req : At(r, "delete") => job[Job(r)].status # "preview"
    /\ cleaner.pc = "csv" =>
          \A j \in cleaner.todo : job[j].status \notin {"none", "preview"}

\* A confirm, alone or not, starts from nothing, and what it has written down it
\* has made, in the store too; a job nobody has confirmed has made nothing.
OwnWork(r) ==
    /\ req[r].pc \in PastFlip => flips[Job(r)] > 0 /\ req[r].creds \subseteq MadeBy(Job(r))
    /\ req[r].pc \in {"flip", "fetch"} =>
          req[r].i = 1 /\ req[r].creds = {} /\ req[r].errors = {}
    /\ At(r, "enroll") => made[Line(r).email] = Job(r)
    /\ req[r].pc \in PastRows => req[r].i > Len(File[Job(r)])
WorkInv ==
    /\ PasswordsWork
    /\ \A j \in Jobs : flips[j] = 0 =>
          MadeBy(j) = {} /\ job[j].status # "completed" /\ ~job[j].path /\ ~Evicts(j)
    /\ \A r \in Req : OwnWork(r)

\* A job confirmed once is imported by one request, which has every account of
\* the job written down, in the store before the path, and which is gone once
\* the job is completed or its credentials are evicted.
SoleImport(r, j) ==
    /\ \A q \in Req : Imports(q, j) => q = r
    /\ \A e \in MadeBy(j) \ req[r].creds : At(r, "enroll") /\ e = Line(r).email
    /\ job[j].status # "completed" /\ ~Evicts(j)
    /\ job[j].path => At(r, "done")
    /\ req[r].pc \in {"counts", "errors", "path", "done"} => file[j] = req[r].creds
SoleInv ==
    \A j \in Jobs : flips[j] = 1 =>
        /\ job[j].path => file[j] # NoFile /\ MadeBy(j) \subseteq file[j]
        /\ Evicts(j) => ~job[j].path
        /\ \A r \in Req : Imports(r, j) => SoleImport(r, j)

\* The rows a job confirmed once has behind it are reported or made, and without
\* failed calls the counts it saves are those of what it made.
RowsTold(j, n, es) ==
    \A k \in 1..Len(File[j]) : k < n => k \in es \/ made[File[j][k].email] = j
SoleReport(r, j) ==
    /\ RowsTold(j, req[r].i, req[r].errors)
    /\ fault = 0 /\ req[r].pc \in {"errors", "path", "done"} =>
          job[j].success = Cardinality(req[r].creds)
    /\ fault = 0 /\ req[r].pc \in {"path", "done"} => RowsTold(j, req[r].i, job[j].errors)
ReportInv ==
    \A j \in Jobs : flips[j] = 1 => \A r \in Req : Imports(r, j) => SoleReport(r, j)

IndInv == TypeOK /\ UploadInv /\ WorkInv /\ SoleInv /\ ReportInv /\ ReportSound
=============================================================================
