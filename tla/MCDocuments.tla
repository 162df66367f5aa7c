----------------------------- MODULE MCDocuments -----------------------------
\* Model-checking instance of the requests on documents.
EXTENDS DocumentRequests

GroupOfBob == [ann |-> {}, bob |-> {"staff"}]
D1OfAnn == [d \in {"d1"} |-> "ann"]
StaffWrites == {<<<<"group", "staff">>, "write">>}
FirstAndSecond == {0, 1}

\* Requests are interchangeable: one order of their coming is enough
\* (symmetry reduction that keeps liveness sound).
InOrder == \A r, s \in Requests : (r < s /\ at[s] # "idle") => at[r] # "idle"

OrderedSpec ==
    /\ Init /\ [][Next /\ InOrder']_vars
    /\ \A r \in Requests : WF_vars(RequestStep(r))
=============================================================================
