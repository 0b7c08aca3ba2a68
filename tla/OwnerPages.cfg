SPECIFICATION PagesSpec
CONSTANTS
    Call = {c1}
    Notes = {n0, n1}
    NoNotes = n0
    Filters = {"any", "resolved"}
    MaxTurns = 1
    Contact = {k1}
    Value = {v1, v2}
    Watched = v1
    Flight = {f1, f2}
    MaxWrites = 2
    Nil = Nil
INVARIANTS
    PagesTypeOK
PROPERTIES
    OneThingAtATime
    RefreshConverges
    NoResurrection
    SavedIsShown
CHECK_DEADLOCK FALSE
