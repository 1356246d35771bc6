CONSTANTS
    ann = ann
    bob = bob
    cyd = cyd
    dan = dan
    member = member
    boss = boss
    dm = dm
    team = team
    group = group
    None = None
    Files <- AllFiles
    Codes <- CodeOrder
    Persons <- Name
    Outside = {dan}
    Hours <- Booked
    Handlers = {h1, h2}
    Users = {member, boss}
    PersonOf <- Person
    Admins = {boss}
    Chats = {dm, team, group}
    Private = {dm}
    TeamChat = team
    Messages <- AllMessages
    Needs <- AllNeeds
    MinInterval = 1
    ArmWindow = 1
    MaxTurns = 2
    Budgets <- SomeBudgets
SPECIFICATION Spec
CHECK_DEADLOCK FALSE
INVARIANTS
    TypeOK
    TemplateOfOneFile
    HeardOnPurpose
PROPERTY
    LearnedIsKept
