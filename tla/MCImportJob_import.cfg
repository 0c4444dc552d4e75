SPECIFICATION FairSpec
CONSTANTS
    j1 = j1
    e1 = e1
    e2 = e2
    r1 = r1
    r2 = r2
    Jobs = {j1}
    Emails = {e1, e2}
    Req = {r1, r2}
    File <- EveryRow
    NoFile = NoFile
    PreviewTTL = 1
    CredentialsTTL = 1
    MaxFault = 1
INVARIANTS ReportTrue
PROPERTIES StoreSettles
