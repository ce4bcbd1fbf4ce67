SPECIFICATION AcctSpec
CONSTANTS
    p1 = p1
    p2 = p2
    a1 = a1
    a2 = a2
    k1 = k1
    k2 = k2
    k3 = k3
    admin = admin
    u1 = u1
    Proc = {p1, p2}
    Agent = {a1, a2}
    Key = {k1, k2, k3}
    Token = {t1}
    User = {admin, u1}
    NoProc = NoProc
    NoUser = NoUser
    NoAgent = NoAgent
    Admin = admin
    NameOf <- SameName
    OwnerOf <- OfOneUser
SYMMETRY Symmetric
INVARIANTS
    AcctTypeOK
    EndedIsRefused
    RotationKeepsAccess
    OneLiveKey
