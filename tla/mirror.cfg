CONSTANTS
    film = film
    twin = twin
    shoot = shoot
    cut = cut
    call = call
    None = None
    Handlers = {h1, h2}
    Projects = {film, twin}
    Tasks = {shoot, cut, call}
    ProjectOf <- Project
    NameOf <- Name
    TitleOf <- Title
    PlanOf <- Plan
    ColumnsOf <- Columns
    New <- Unknown
    Bare <- Always
    Moods <- SomeMoods
    ParentIs = "database"
    Troubles = 1
SPECIFICATION Spec
CHECK_DEADLOCK FALSE
INVARIANTS
    TypeOK
    FailuresCounted
    RowUnlessRefused
    StaleOnce
    DoneIsTicked
PROPERTIES
    MirrorsOneWay
    PushingEnds
