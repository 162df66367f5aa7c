\* One request of any kind, three chunks of two documents; every call may
\* raise and access to both documents comes and goes meanwhile.
CONSTANTS
    Docs = {"d1", "d2"}
    Users = {"ann"}
    Groups = {}
    GroupsOf <- NoGroups
    Chunks = {"c1", "c2", "c3"}
    DocOf <- TwoInD1
    Searcher = "ann"
    Changing <- OneDirectOnePublic
    TopK = 2
    RrfK = 60
    Scale = 15249024
    MinScores <- NoneOrTwoLists
    Kinds <- EveryKind
    CallsRaise = TRUE
    NoFilter = NoFilter
SPECIFICATION ReducedSpec
INVARIANTS
    HitsWereVisible
    FusionRespectsLists
PROPERTIES
    SearchAnswered
CHECK_DEADLOCK FALSE
