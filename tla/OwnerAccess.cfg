SPECIFICATION LiveSpec
CONSTANTS
    Business = {b1, b2}
    Email = {e1}
    Password = {p1}
    Link = {l1}
    Device = {d1}
    Limit <- ScaledLimit
    Window <- ScaledWindow
    Oldest <- ScaledOldest
    None = None
INVARIANTS
    LinksOnce
    NeverShadowed
    GuessesBounded
PROPERTY OwnerGetsIn
CHECK_DEADLOCK FALSE
