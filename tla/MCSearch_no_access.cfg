\* One request of a user who has access to nothing, when nothing fails.
CONSTANTS
    Docs = {"d1", "d2"}
    Users = {"ann"}
    Groups = {}
    GroupsOf <- NoGroups
    Chunks = {"c1", "c2", "c3"}
    DocOf <- TwoInD1
    Searcher = "ann"
    Changing = {}
    TopK = 2
    RrfK = 60
    Scale = 15249024
    MinScores = {0}
    Kinds <- AllThree
    CallsRaise = FALSE
    NoFilter = NoFilter
SPECIFICATION Spec
INVARIANTS
    HitsNeedAccess
CHECK_DEADLOCK FALSE
