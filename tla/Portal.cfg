\* Up to two requests of the portal, which may overlap, and up to three of its users.
SPECIFICATION MCSpec
CONSTANTS
    root = root
    ann = ann
    Admins = {root}
    Users = {root, ann}
    Hosts = {"a", "b"}
    MaxGroup = 3
    MaxTpl = 3
    MaxStrategy = 3
    MaxExpression = 2
    MaxPlugin = 2
    MaxCluster = 2
    MaxAction = 3
    MaxFlight = 2
    MaxRequests = 2
    MaxUp = 2
    MaxFails = 1
    Keys = {"cpu", "mem"}
    Start <- MCStart
    MaxDepth = 3
    Builtin = {"mem"}
    Names = {"ann", "bob"}
    Values = {1, 2}
    MaxUser = 4
    MaxSession = 4
    MaxTeam = 2
    MaxMember = 4
    MaxPending = 2
    MaxCalls = 3
    UicStart <- MCUicStart
INVARIANTS  AnswersSound  WritesStay 
PROPERTY FollowsTables
CHECK_DEADLOCK FALSE
