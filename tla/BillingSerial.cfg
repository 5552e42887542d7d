\* One request or delivery at a time; events late, in any order, or never.
CONSTANTS
    Requests = {r1, r2}
    Subscribers = {r1, r2}
    Handlers = {h1}
    Payments = {p1}
    MaxUses = 1
    MaxCrashes = 0
    Kinds = {"CONFIRMED", "OVERDUE", "CREATED", "DELETED"}
    Overlap = FALSE
    Faults = FALSE
SPECIFICATION Spec
INVARIANTS
    ChargedIsOpen
    ChargedOnce
    CouponLimit
    GraceEnds
PROPERTIES
    CancelledStays
\* When everything was reported and everybody is done, nothing is left to do.
CHECK_DEADLOCK FALSE
