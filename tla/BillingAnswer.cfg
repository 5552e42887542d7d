\* Two deliveries of one event overlap, and the first one raises.
CONSTANTS
    Requests = {r1}
    Subscribers = {r1}
    Handlers = {h1, h2}
    Payments = {p1}
    MaxUses = 0
    MaxCrashes = 0
    Kinds = {"CONFIRMED"}
    Overlap = TRUE
    Faults = TRUE
SPECIFICATION Spec
INVARIANTS
    AlreadyProcessed
CHECK_DEADLOCK FALSE
