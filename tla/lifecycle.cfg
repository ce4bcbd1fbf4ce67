SPECIFICATION Spec
CONSTANTS
    a1 = a1
    a2 = a2
    a3 = a3
    u1 = u1
    u2 = u2
    Agent = {a1}
    User = {u1}
    Superuser = {u1}
    Skill = {s1, s2}
    Name = {n1, n2}
    File = {}
    MaxVersion = 3
    UserOf <- TwoUsers
    NoAgent = NoAgent
    NoUser = NoUser
    NoName = NoName
    HasCuratorKey = TRUE
    StoreMayFail = TRUE
    MayReindex = TRUE
SYMMETRY Symmetric
INVARIANTS
    TypeOK
    CurrentIsAVersion
    VersionsHaveNoGap
    IndexWithinVersions
PROPERTIES
    ImplementsVault
