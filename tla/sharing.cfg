SPECIFICATION Spec
CONSTANTS
    a1 = a1
    a2 = a2
    a3 = a3
    u1 = u1
    u2 = u2
    Agent = {a1, a2, a3, a4}
    User = {u1, u2}
    Superuser = {}
    Skill = {s1, s2}
    Name = {n1}
    File = {}
    MaxVersion = 2
    UserOf <- TwoUsers
    NoAgent = NoAgent
    NoUser = NoUser
    NoName = NoName
    HasCuratorKey = TRUE
    StoreMayFail = TRUE
    MayReindex = TRUE
SYMMETRY Symmetric
INVARIANTS
    OwnersLive
    SearchAgreesWithGet
PROPERTIES
    LastAgentStays
