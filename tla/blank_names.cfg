SPECIFICATION Spec
CONSTANTS
    a1 = a1
    a2 = a2
    a3 = a3
    u1 = u1
    u2 = u2
    Agent = {a1}
    User = {u1}
    Superuser = {u1}
    Skill = {s1}
    Name = {n1}
    File = {f1, f2}
    MaxVersion = 2
    UserOf <- TwoUsers
    NoAgent = NoAgent
    NoUser = NoUser
    NoName = NoName
    HasCuratorKey = TRUE
    StoreMayFail = FALSE
    MayReindex = FALSE
SYMMETRY Symmetric
INVARIANTS
    EveryVersionIntact
