------------------------------ MODULE MCSearch ------------------------------
\* Model-checking instance of the search requests.
EXTENDS HybridSearch

TwoInD1 == [c \in {"c1", "c2", "c3"} |-> IF c = "c3" THEN "d2" ELSE "d1"]
NoGroups == [u \in {"ann"} |-> {}]
OneDirectOnePublic ==
    {[doc |-> "d1", principal |-> <<"user", "ann">>, permission |-> "read"],
     [doc |-> "d2", principal |-> Public, permission |-> "read"]}

\* No minimum, and one only a chunk of two lists reaches; in units of one
\* part in 61 * 62 * 63 * 64, as there are four ranks.
NoneOrTwoLists == {0, 370000}

\* All three searches; two, by their types or by their weights; each kind
\* alone; and the type that leaves nothing to do.
EveryKind ==
    {r \in Unified :
        \/ r.types \in {{}, {"hybrid"}} /\ r.weighted = {} /\ ~r.blank /\ r.min = 0
        \/ r.types = {"sparse", "dense"} /\ r.weighted = {} /\ ~r.blank
        \/ r.types = {} /\ r.weighted = {"sparse", "graph"} /\ r.min = 0}
        \union Alone

\* What the API asks for.
AllThree == {[alone |-> FALSE, types |-> Fused, weighted |-> {}, blank |-> FALSE, min |-> 0]}

\* Three reductions that lose no answer: c1 and c2 are interchangeable, so the
\* dense list has c1 ahead of c2; the answer of a store touches nothing
\* another step reads, so one order of them is enough; and a change of access
\* that comes when every search has read can only make `could` larger or
\* `blind` true, and what is asserted holds the more.
Reduced ==
    /\ \A n \in DOMAIN hits'["dense"] :
          hits'["dense"][n] = "c2" => \E m \in 1..n - 1 : hits'["dense"][m] = "c1"
    /\ \A t \in Branches : branch[t] = "query" => branch'[t] # "query"
    /\ acl' # acl => \E t \in Branches : branch[t] = "start"

ReducedSpec ==
    /\ Init /\ [][Next /\ Reduced]_vars
    /\ \A t \in Branches : WF_vars(BranchStep(t))
    /\ WF_vars(Answers)
=============================================================================
