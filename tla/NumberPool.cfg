SPECIFICATION Spec
CONSTANTS
    near = near
    abroad = abroad
    home = home
    away = away
    Business = {b1, b2, b3}
    Number = {n1, n2}
    homeNumbers = {n1}
    Phone = {n1, n2, near, abroad}
    AreaOf <- MCAreaOf
    NoArea = NoArea
    NoNumber = NoNumber
    NoPhone = NoPhone
    Absent = Absent
    Available = Available
INVARIANTS
    UniqueNumber
    NoStrandedEntry
PROPERTIES
    ExclusiveLending
    LocalFirst
CHECK_DEADLOCK TRUE
