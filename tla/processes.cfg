SPECIFICATION ProcSpec
CONSTANTS
    Proc = {p1, p2}
    NoProc = NoProc
    File = {f1}
    MaxVersion = 4
INVARIANTS
    ProcTypeOK
    NewestIsReleased
    ReleasedStaysFindable
    RowlessIsLate
PROPERTIES
    AlarmsAreRaced
    ReleaseBecomesFindable
