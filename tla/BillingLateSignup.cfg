SPECIFICATION Spec
CONSTANTS
    Business = {b1}
    Customer = {c1, c2}
    Session = {s1, s2}
    Request = {r1}
    Report = {"active"}
    MaxReports = 1
    None = None
SYMMETRY Symmetry
PROPERTIES
    OnlyDodoMovesStatus
CHECK_DEADLOCK FALSE
