SPECIFICATION OfficeSpec
CONSTANTS
    c0 = c0
    c1 = c1
    c2 = c2
    c3 = c3
    clientUid = clientUid
    added = added
    x1 = x1
    x2 = x2
    Commit = {c0, c1, c2, c3}
    Column = {clientUid, added}
    Needs <- MCNeeds
    Boots = {c0, c1, c2}
    Fits = {c0, c1, c3}
    UidColumn = clientUid
    Row = {r1, r2}
    Uid = {u1, u2}
    NoRow = NoRow
    MaxDeploys = 3
    None = None
    Text = {nothing, x1, x2, bad}
    Bad = bad
    Empty = nothing
    Token = {}
    Flight = {f1, f2}
    MaxSaves = 2
    Visitor = {v1}
    Lead = {l1, l2}
    Admin = {a1, a2}
    Status = {new, contacted, dead}
    NewStatus = new
    Limit = 1
    MaxPicks = 2
    PageSize = 2
    MaxCalls = 5
SYMMETRY Symmetry
INVARIANTS
    OfficeTypeOK
    ThankedIsStored
    ShownWasHad
    WalkMissesNothing
    OpenIsComplete
    DeployedAnswers
    RolledBackToPrev
PROPERTIES
    CleanSaveKeeps
    UidNeverRewritten
CHECK_DEADLOCK FALSE
