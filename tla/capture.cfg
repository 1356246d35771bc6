CONSTANTS
    admin = admin
    member = member
    ann = ann
    bob = bob
    nobody = nobody
    film = film
    trip = trip
    shoot = shoot
    noon = noon
    None = None
    Inbox = Inbox
    Seeded <- OneProject
    Handlers = {h1, h2}
    Users = {admin, member}
    Admins = {admin}
    Known = {ann, bob}
    Wants <- AllWants
    Calls <- AllCalls
    Answers <- FewCalls
    People <- Roster
    Today = noon
    Typed = {None, film}
    Budgets <- SomeBudgets
SPECIFICATION Spec
CHECK_DEADLOCK FALSE
INVARIANTS
    TypeOK
    NoTwins
    WholeUnlessCut
    CardsTrue
    
    NothingMadeUp
    PressedIsTaken
PROPERTY
    TurnEnds
