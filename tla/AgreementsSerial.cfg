\* One request at a time, any await may raise; every operation, a deadline.
CONSTANTS
    o = o
    a = a
    b = b
    r1 = r1
    r2 = r2
    Users = {o, a, b}
    Owner = o
    NoUser = NoUser
    Lists <- UnlinkedLists
    Minutas <- TwoMinutas
    Pdfs = {pdf1}
    NoFile = NoFile
    Deadlines = {0, 1}
    Horizon = 2
    Requests = {r1}
    Ops = {"get", "look", "download", "update", "upload", "participants", "fields", "send", "cancel", "view", "sign", "reject"}
    Logged = {"signed", "expired", "completed"}
    MayFail = TRUE
SPECIFICATION Spec
INVARIANTS
    TrailHonest
PROPERTIES
    SealKept
