SPECIFICATION ServicesSpec
CONSTANTS
    Requests = {r1, r2}
    Threads = {t1, t2, t3}
    ThreadMoves = 5
    Minutas = {i1, i2}
    Agreed = {i1, i2}
    Templates = {"k", "e"}
    Unlocked = {"e"}
    MaxRevision = 2
    MinutaMoves = 4
    CoreCount = 2
    Clauses = {"fixed", "loose", "core twin"}
    ClauseTitle <- ClauseTitles
    LooseClauses = {"loose"}
    MaxEdits = 2
    LayoutMoves = 2
    Kinds = {"license", "address"}
    Required = {"license"}
    DeskMoves = 4
    Uids = {i1, i2}
    Emails = {i1, i2}
    AccountMoves = 3
    PostIds = {i1, i2}
    Horizon = 2
    PostMoves = 3
    Persons = {i1, i2}
    MemberMoves = 3
    Owners = {i1, i2}
    MarketMoves = 3
    Firms = {f1}
    GraceDays = {0, 1}
    DefaultGrace = 1
    LastDay = 2
    PaywallMoves = 3
    Signers = {i1, i2}
    Fonts = {"allura"}
    StampMoves = 3
    Readers = {i1, i2}
    Stranger = "stranger"
    NewsEvents = 1
    NewsMoves = 3
SYMMETRY ServicesSymmetry
CHECK_DEADLOCK FALSE
INVARIANTS
    NeverLockedOut
    HistoryLinked
    RepliesFit
    AgreedAsSubmitted
    
    
    ApprovedWasReviewed
    DeskFits
    
    
    MembersAgree
    DoorsHold
    MarketFair
    PaywallFair
    StampsTrue
    
