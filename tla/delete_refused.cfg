SPECIFICATION ConnSpec
CONSTANTS
    a1 = a1
    u1 = u1
    Agent = {a1}
    User = {u1}
    Superuser = {u1}
    Skill = {s1}
    Name = {n1}
    File = {}
    Thread = {t1, t2}
    MaxVersion = 2
    UserOf <- OneOwned
    NoAgent = NoAgent
    NoUser = NoUser
    NoName = NoName
    NoThread = NoThread
    Store = Store
    HasCuratorKey = TRUE
    StoreMayFail = TRUE
    MayReindex = FALSE
    StoreSharesDb = TRUE
    MayCrash = FALSE
SYMMETRY Symmetric
INVARIANTS
    OwnerCanDelete
