SPECIFICATION LiveSpec
CONSTANTS
    n1 = n1
    Business = {b1}
    Number = {n1}
    Call = {c1}
    Dialled <- MCDialled
    Handler = {h1, h2}
    Status = {"active", "on_hold", "cancelled"}
    ForwardTo = TRUE
    None = None
INVARIANTS
    AgentGated
    ForwardingProven
    StampMeansTold
PROPERTIES
    CallerReached
CHECK_DEADLOCK FALSE
