SPECIFICATION Spec
CONSTANTS
    Business = {b1, b2}
    Browser = {w1}
    Session = {s1, s2}
    Poll = {p1, p2}
    Proofs = {{"trial"}, {"subscription"}, {"trial", "session"}}
    None = None
SYMMETRY Symmetry
INVARIANTS
    TypeOK
    ConfirmedIsSignedIn
PROPERTIES
    SessionProved
CHECK_DEADLOCK FALSE
