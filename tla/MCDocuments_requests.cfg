\* Two requests of any kind that overlap, on a document created before and on
\* new ones: any call raises, sagas fail, access is granted and revoked.
CONSTANTS
    Docs = {"d1", "d2"}
    Users = {"ann", "bob"}
    Groups = {"staff"}
    GroupsOf <- GroupOfBob
    Requests = {1, 2}
    NoRow = NoRow
    Earlier = Earlier
    OwnerOf <- D1OfAnn
    Limit = 1
    Offsets <- FirstAndSecond
    Shares <- StaffWrites
    CallsRaise = TRUE
SPECIFICATION OrderedSpec
INVARIANTS
    TypeOK
    AnswersOnlyToGranted
    OwnerKeepsDocument
    LostUpdateOnlyOfTitle
    DeletedEventIsFinal
PROPERTIES
    RequestsAnswered
CHECK_DEADLOCK FALSE
