SPECIFICATION MCSpec
CONSTANTS
    w1 = w1
    p1 = p1
    p2 = p2
    b1 = b1
    x1 = x1
    NoBrawler = NoBrawler
    Worker = {w1}
    TeamBattle = {b1}
    Showdown = {}
    Duel = {}
    Home = {p1}
    Away = {p2}
    Brawler = {x1}
    Lineups <- MCLineups
INVARIANT ResultsCredited
