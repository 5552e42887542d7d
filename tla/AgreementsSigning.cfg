\* Two signatories, overlapping requests that view and sign; fairness.
CONSTANTS
    o = o
    a = a
    b = b
    r1 = r1
    r2 = r2
    Users = {o, a, b}
    Owner = o
    NoUser = NoUser
    Lists <- TwoLists
    Minutas <- NoMinutas
    Pdfs = {pdf1}
    NoFile = NoFile
    Deadlines = {0}
    Horizon = 0
    Requests = {r1, r2}
    Ops = {"view", "sign"}
    Logged = {"signed"}
    MayFail = FALSE
SPECIFICATION SigningSpec
PROPERTIES
    EndsSealed
