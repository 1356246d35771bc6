CONSTANTS
    Plans = {p1, p2}
    Users = {u1}
    Handlers = {h1, h2}
    NoPlan = NoPlan
    NoUser = NoUser
    AgentWired = FALSE
    Aborts = FALSE
    Resets = TRUE
SPECIFICATION FairSpec
INVARIANTS
    DecisionCompleted
    ProposalReachable
PROPERTIES
    CommitShows
    HandlersFinish
