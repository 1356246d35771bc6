CONSTANTS
    a = a
    b = b
    c1 = c1
    c2 = c2
    None = None
    NoDay = NoDay
    Projects = {x, y}
    Holidays <- Holiday
    Capacity <- Hours
    HorizonDays = 6
    DayHours = 2
    SlotHours = 2
    Team <- Both
    Templates <- AllTemplates
    FirstDay = 3
    LastDay = 4
    Deadlines <- SomeDeadlines
    Leaves <- Away
    Clerks = {c1, c2}
    Offices <- Busy
SPECIFICATION Spec
INVARIANTS
    TypeOK
    HoursConserved
    LinksKept
    OverloadForced
    OverloadReported
    ChainIsLowerBound
    BoardHoldsLoad
    EnteredIsWhole
    AllClearIsTrue
