SPECIFICATION Spec
CONSTANTS
    Business = {b1, b2}
    Customer = {c1, c2}
    Session = {s1, s2}
    Request = {r1, r2}
    Report = {"active", "cancelled", "payment"}
    MaxReports = 1
    None = None
SYMMETRY Symmetry
INVARIANTS
    TypeOK
    BilledForOwnCheckout
    PayerKnown
PROPERTIES
    SetForGood
CHECK_DEADLOCK FALSE
