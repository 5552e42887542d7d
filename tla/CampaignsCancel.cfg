\* A worker claims a campaign while its cancellation is under way.
CONSTANTS
    Campaigns = {c1}
    Users = {u1}
    Mailed = {u1}
    ChannelSets <- BothChannels
    Workers = {w1}
    Requests = {r1, r2}
    Ops = {"create", "cancel"}
    SendTimes = {0, 1}
    Horizon = 1
    MaxCrashes = 0
SPECIFICATION Spec
INVARIANTS
    CancelledIsQuiet
