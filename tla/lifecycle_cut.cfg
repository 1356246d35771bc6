CONSTANTS
    Plans = {p1, p2, p3}
    Users = {u1}
    Handlers = {h1, h2}
    NoPlan = NoPlan
    NoUser = NoUser
    AgentWired = TRUE
    Aborts = TRUE
    Resets = FALSE
SPECIFICATION Spec
SYMMETRY Interchangeable
INVARIANTS
    TypeOK
    StoredBeforeNamed
    ConfirmedOnce
PROPERTIES
    RetireNeedsReplacement
    DecidedOnce
