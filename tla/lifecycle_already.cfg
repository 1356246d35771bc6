CONSTANTS
    Plans = {p1, p2}
    Users = {u1}
    Handlers = {h1}
    NoPlan = NoPlan
    NoUser = NoUser
    AgentWired = FALSE
    Aborts = FALSE
    Resets = FALSE
SPECIFICATION Spec
INVARIANT
    AlreadyCommittedIsTrue
