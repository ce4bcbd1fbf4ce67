SPECIFICATION RankSpec
CONSTANTS
    Version <- Versions
    Published <- FirstOnes
    Verified <- SecondSkill
    StandingOf <- Standings
    PlaceOf <- ByName
    Backend = {"sqlite_vec", "pgvector", "qdrant"}
    Near <- EveryOrder
    MetaWeight = 3
    BodyWeight = 2
    MinScore = 2
    StoreFactor = 2
    StoreMin = 3
    PoolFactor = 1
    PoolMin = 2
    PageSize = 1
    MaxLimit = 2
    MaxPage = 2
    MaxChanges = 1
INVARIANTS
    RankTypeOK
    AnswerIsReadable
    NothingBetterIsMissed
    PagesAgree
