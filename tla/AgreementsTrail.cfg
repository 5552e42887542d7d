\* The traceability the certificate attests, with two overlapping signatures.
CONSTANTS
    o = o
    a = a
    b = b
    r1 = r1
    r2 = r2
    Users = {o, a, b}
    Owner = o
    NoUser = NoUser
    Lists <- TwoLists
    Minutas <- NoMinutas
    Pdfs = {pdf1}
    NoFile = NoFile
    Deadlines = {0}
    Horizon = 0
    Requests = {r1, r2}
    Ops = {"upload", "participants", "fields", "send", "sign"}
    Logged = {"signed"}
    MayFail = FALSE
SYMMETRY RequestSymmetry
SPECIFICATION Spec
INVARIANTS
    CertifiedTrail
