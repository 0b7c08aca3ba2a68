SPECIFICATION LiveSpec
CONSTANTS
    Business = {b1}
    Customer = {c1}
    Session = {s1, s2}
    Request = {r1}
    Report = {"active", "on_hold"}
    MaxReports = 2
    None = None
PROPERTIES
    PaidIsServed
CHECK_DEADLOCK FALSE
