SPECIFICATION Spec
CONSTANTS
    b1 = b1
    b2 = b2
    n1 = n1
    t1 = t1
    t2 = t2
    Business = {b1, b2}
    Number = {n1}
    Call = {c1}
    Dialled <- MCDialled
    Field = {"calledNumber", "customerName", "serviceRequested"}
    Kept = {"serviceRequested"}
    Token = {t1, t2}
    OwnerOf <- MCOwnerOf
    NoToken = NoToken
    None = None
INVARIANTS
    OnlyToBorrowers
PROPERTIES
    NotifiedOnce
    RowKept
CHECK_DEADLOCK TRUE
