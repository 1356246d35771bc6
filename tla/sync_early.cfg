CONSTANTS
    t1 = t1
    t2 = t2
    a = a
    b = b
    d1 = d1
    d2 = d2
    h1 = h1
    h2 = h2
    None = None
    Tasks = {t1, t2}
    People = {a, b}
    Days = {d1, d2}
    Handlers = {h1, h2}
    Team0 <- PairTeam
    Day0 <- FirstDay
SPECIFICATION Spec
INVARIANT
    InSyncFromProposal
