SPECIFICATION LiveSpec
CONSTANTS
    Business = {b1, b2}
    Number = {n1, n2}
    Request = {r1, r2}
    LowStock = 0
    SmtpReady = TRUE
    None = None
INVARIANTS
    HadNumber
PROPERTIES
    NeverRestarts
    Onboarded
CHECK_DEADLOCK FALSE
