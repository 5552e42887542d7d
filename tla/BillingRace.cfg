\* Two requests and two webhook deliveries overlap; one delivery may die.
CONSTANTS
    Requests = {r1, r2}
    Subscribers = {r1}
    Handlers = {h1, h2}
    Payments = {p1}
    MaxUses = 0
    MaxCrashes = 1
    Kinds = {"CONFIRMED", "OVERDUE"}
    Overlap = TRUE
    Faults = TRUE
SPECIFICATION Spec
INVARIANTS
    StandingHasCause
    EventsMatched
    RecordedIsDone
PROPERTIES
    EventsOnce
\* When everything was reported and everybody is done, nothing is left to do.
CHECK_DEADLOCK FALSE
