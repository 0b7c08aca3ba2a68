SPECIFICATION Spec
CONSTANTS
    Business = {b1}
    Browser = {w1}
    Session = {s1}
    Poll = {p1}
    Proofs = {{"trial"}, {"subscription"}}
    None = None
PROPERTIES
    DeclinedMayTryAgain
CHECK_DEADLOCK FALSE
