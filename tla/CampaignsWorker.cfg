\* One worker, two campaigns, created and perhaps cancelled; fairness.
CONSTANTS
    Campaigns = {c1, c2}
    Users = {u1}
    Mailed = {u1}
    ChannelSets <- OneChannel
    Workers = {w1}
    Requests = {r1, r2, r3}
    Ops = {"create", "cancel"}
    SendTimes = {0, 1}
    Horizon = 1
    MaxCrashes = 1
SPECIFICATION FairSpec
PROPERTIES
    DueIsTaken
    ClaimSettles
