SPECIFICATION MCSpec
CONSTANTS
    w1 = w1
    p1 = p1
    p2 = p2
    b1 = b1
    b2 = b2
    x1 = x1
    m1 = m1
    NoBrawler = NoBrawler
    NoMap = NoMap
    Unset = Unset
    Worker = {w1}
    TeamBattle = {b1, b2}
    Showdown = {}
    Duel = {}
    Home = {p1}
    Away = {p2}
    Brawler = {x1}
    Lineups <- MCLineups
    DefaultMin = 2
    Request <- MCRequest
    TypeOf <- MCTypeOf
    MapOf <- MCMapOf
    BucketOf <- MCBucketOf
INVARIANTS
    AnalyticsTypeOK
    NeverOverstates
    NothingLost
    StoredIsReported
    MapsPredict
