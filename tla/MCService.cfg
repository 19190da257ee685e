SPECIFICATION ServiceSpec
CONSTANTS
    \* Accounts
    Players = {p1, p2}
    Requests = {s1, s2}
    Nobody = Nobody
    Free = Free
    \* RateLimiter
    Callers = {p1, p2}
    Keys = {s1, s2}
    EventLimit = 2
    WindowLen = 3
    Second = 2
    Stall = 1
    MaxTime = 5
    \* AccessKeys
    Kids = {p1, p2}
    Visitors = {s1, s2}
    Tokens <- TwoTokens
    MaxAge = 2
    RetryGap = 1
    Skew = 1
    FetchTime = 1
    MaxMinute = 2
    \* Migrations
    Members = {m1, m2, m3}
    Versions = {1, 2, 3, 4}
    Releases <- SomeReleases
    RefVersion = 3
    Refs = {f1, f2, f3}
    MaxTwice = 2
    \* Connection
    Goroutines = {g1, g2, g3}
    \* BoardPage
    Drills = {"parry", "mental-stack"}
    StackDrill = "mental-stack"
    MaxLoads = 4
    \* Scoring
    Samples <- EdgeSamples
    Misfires <- EdgeMisfires
    MaxHits = 4
    Ladders <- EdgeLadders
    Defeats <- EdgeDefeats
    Elapsed <- EdgeElapsed
    Runs <- SmallRuns
    MaxRuns = 3
    \* Names
    WholeTerms <- SomeWhole
    TokenTerms <- SomeWords
    SubstringTerms <- SomeParts
    Reserved <- SomeReserved
    AnonymousName <- SomeAnonymous
    MinNameLen = 3
    MaxNameLen = 4
    MaxTyped = 5
SYMMETRY Symmetry
INVARIANTS
    ServiceTypeOK
    ForgottenIsErased
    GoneMeansGone
    SpanBound
    AdviceHolds
    KeysFollowed
    AppliedOnce
    EveryoneNamed
    NobodyWaitsForItself
    PageFaithful
    AcceptedIsStorable
    GradesEarned
    BestLeads
    NamesHold
PROPERTIES
    OnlyOwnerErases
    UpgradesAtomic
CHECK_DEADLOCK FALSE
