SPECIFICATION MCSpec
CONSTANTS
    w1 = w1
    w2 = w2
    p1 = p1
    p2 = p2
    b1 = b1
    b2 = b2
    x1 = x1
    NoBrawler = NoBrawler
    Worker = {w1, w2}
    TeamBattle = {b1}
    Showdown = {b2}
    Duel = {}
    Home = {p1}
    Away = {p2}
    Brawler = {x1}
    Lineups <- MCLineups
SYMMETRY WorkerSymmetry
INVARIANTS
    IInv
    TeamResultsTrue
    FinishedIsStored
    ParticipantsSound
PROPERTIES
    ActiveStays
    IsLedger
