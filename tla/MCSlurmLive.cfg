SPECIFICATION FairSpec

CONSTANTS
    r1 = r1
    e1 = e1
    e2 = e2
    j1 = j1
    j2 = j2
    n1 = n1
    Reservations = {r1}
    Externals = {e1, e2}
    Jobs = {j1}
    Nodes = {}
    Ends = {"COMPLETED", "CANCELLED", "FAILED"}
    Local = Local
    NoJob = NoJob

PROPERTIES
    CommitIsAnswered
    PurgedIsUnmapped
    ListedIsMapped

