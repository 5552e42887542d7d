\* Two workers and three requests race for one campaign; a process may die.
CONSTANTS
    Campaigns = {c1}
    Users = {u1, u2}
    Mailed = {u1}
    ChannelSets <- BothChannels
    Workers = {w1, w2}
    Requests = {r1, r2, r3}
    Ops = {"create", "cancel", "send_now"}
    SendTimes = {0, 1}
    Horizon = 1
    MaxCrashes = 1
SYMMETRY ProcSymmetry
SPECIFICATION Spec
INVARIANTS
    CopiesGranted
    StatsHonest
PROPERTIES
    ClaimsKeepLedger
