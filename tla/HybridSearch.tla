---------------------------- MODULE HybridSearch ----------------------------
(***************************************************************************)
(* A search request: SearchService.unified_search runs up to three         *)
(* searches side by side, each of which asks for the user's documents by   *)
(* itself, and fuses the lists that came back (Reciprocal Rank Fusion).    *)
(* Entries of the access table come and go while the request is served.    *)
(* The searches the service offers on their own (dense, sparse, hybrid,    *)
(* graph, by entity) are the same branches, run alone.                     *)
(*                                                                         *)
(* A store is external: it answers with any chunks of the documents asked  *)
(* for, at most as many as asked for and none twice.  Of the weights of    *)
(* unified_search_with_weights only the types they name matter: the        *)
(* numbers multiply a score the fusion does not read.                      *)
(***************************************************************************)
EXTENDS AccessControl, Sequences, FiniteSetsExt

CONSTANTS
    Chunks,
    DocOf,       \* [Chunks -> Docs]
    Searcher,    \* the user_id of the request
    Changing,    \* the entries that are granted and revoked meanwhile
    TopK,
    RrfK,        \* 60
    Scale,       \* scores are multiples of 1/Scale
    MinScores,   \* values of min_score, in units of 1/Scale
    Kinds,       \* the requests that are sent
    CallsRaise,  \* whether a call of the access table, model or a store may raise
    NoFilter     \* None where a list of documents is expected

ASSUME SearchAssumption ==
    /\ IsFiniteSet(Chunks) /\ DocOf \in [Chunks -> Docs]
    /\ Searcher \in Users /\ Changing \subseteq Entries
    /\ TopK \in Nat \ {0} /\ RrfK \in Nat /\ 0 \in MinScores /\ MinScores \subseteq Nat
    /\ CallsRaise \in BOOLEAN
    /\ \A docs \in SUBSET Docs : docs # NoFilter
    /\ Scale \in Nat \ {0} /\ \A n \in 1..2 * TopK : Scale % (RrfK + n) = 0

Fused == {"dense", "sparse", "graph"}
InGraph == {"graph", "entity"}
Branches == Fused \union InGraph \union {"hybrid"}
Unified == [alone : {FALSE}, types : SUBSET (Fused \union {"hybrid"}),
            weighted : SUBSET Fused, blank : BOOLEAN, min : MinScores]
Alone == [alone : {TRUE}, types : {{t} : t \in Branches},
          weighted : {{}}, blank : BOOLEAN, min : MinScores]

ASSUME KindsAssumption == Kinds \subseteq Unified \union Alone

VARIABLES
    graphRepo,  \* whether the service was given a Neo4j repository
    at,         \* "idle", "searching", "answered" or "failed"
    req,        \* the request
    branch,     \* what each search is doing
    filter,     \* the documents each search asks its store for
    hits,       \* the list each search came back with
    answer,     \* the list the caller gets
    could,      \* history: the documents the user could see since the start
    blind       \* history: whether there were none at some moment since then

vars == <<acl, graphRepo, at, req, branch, filter, hits, answer, could, blind>>

\* The types of a request that names none: those it gives weights for, or all.
Default(r) == IF r.weighted = {} THEN Fused ELSE r.weighted

\* "hybrid" is not a search unified_search runs.
Tasks(r) ==
    IF r.alone THEN r.types
    ELSE (IF r.types = {} THEN Default(r) ELSE r.types) \intersect Fused

\* unified_search over-fetches for the fusion.
Limit == IF req.alone THEN TopK ELSE 2 * TopK

\* What a store may answer when asked for documents.
Lists(docs) ==
    LET those == IF docs = NoFilter THEN Chunks ELSE {c \in Chunks : DocOf[c] \in docs}
    IN  UNION {{s \in [1..n -> those] : IsInjective(s)} :
               n \in 0..Min({Limit, Cardinality(those)})}

-----------------------------------------------------------------------------
(* Reciprocal Rank Fusion, in integers: Scale makes every share whole. *)

\* Wrong: the share of a hit grows with its rank.
ShareOfLast(rank) == Scale - Scale \div (RrfK + rank)

Share(rank) == Scale \div (RrfK + rank)

PlaceIn(s, c) == CHOOSE n \in DOMAIN s : s[n] = c
Rank(c, t) == PlaceIn(hits[t], c)
Used == {t \in Tasks(req) : branch[t] = "done"}
Found == UNION {Range(hits[t]) : t \in Used}
In(c) == {t \in Used : c \in Range(hits[t])}
ShareIn(c, t) == IF t \in Used /\ c \in Range(hits[t]) THEN Share(Rank(c, t)) ELSE 0
Score(c) == ShareIn(c, "dense") + ShareIn(c, "sparse") + ShareIn(c, "graph")

\* Equal scores keep the order of `merged`: by the first list a chunk is in
\* (dense, sparse, graph), then by its rank there.
Place == [dense |-> 1, sparse |-> 2, graph |-> 3]
Before(c, d) ==
    LET first(e) == CHOOSE t \in In(e) : \A u \in In(e) : Place[t] <= Place[u]
        f == first(c)
        g == first(d)
    IN  Place[f] < Place[g] \/ (f = g /\ Rank(c, f) < Rank(d, g))

\* What _merge_search_results may return, before the filter on min_score: the
\* best TopK in order.  Sums of three floats that are equal as rationals may
\* differ in the last bit, so of two such hits either may come first.
Merges ==
    LET found == Found
        score == [c \in found |-> Score(c)]
        mayPrecede(c, d) ==
            \/ score[c] > score[d]
            \/ score[c] = score[d] /\ (Before(c, d) \/ (In(c) = Fused /\ In(d) = Fused))
    IN  {s \in [1..Min({TopK, Cardinality(found)}) -> found] :
            /\ IsInjective(s)
            /\ \A i \in DOMAIN s : \A c \in found \ {s[j] : j \in 1..i} : mayPrecede(s[i], c)}

\* The list of those hits of s that are kept, in their order: there is one.
Keeps(s, kept) ==
    {r \in [1..Cardinality(kept) -> kept] :
        /\ Range(r) = kept
        /\ \A i, j \in DOMAIN r : i < j => PlaceIn(s, r[i]) < PlaceIn(s, r[j])}

\* Every hit carries the fused score by now.
AtLeastMin(s) ==
    IF req.min = 0 THEN {s} ELSE Keeps(s, {c \in Range(s) : Score(c) >= req.min})

\* A search run alone filters on the scores of its store, which are any: so a
\* positive min_score keeps some of the hits.
SomeOf(s) ==
    IF req.min = 0 THEN {s} ELSE UNION {Keeps(s, kept) : kept \in SUBSET Range(s)}

-----------------------------------------------------------------------------
NoRequest == [alone |-> FALSE, types |-> {}, weighted |-> {}, blank |-> FALSE, min |-> 0]

Init ==
    /\ acl \in SUBSET Changing
    /\ graphRepo \in BOOLEAN
    /\ at = "idle" /\ req = NoRequest
    /\ branch = [t \in Branches |-> "off"]
    /\ filter = [t \in Branches |-> {}]
    /\ hits = [t \in Branches |-> <<>>]
    /\ answer = <<>> /\ could = {} /\ blind = FALSE

Submit ==
    /\ at = "idle" /\ at' = "searching"
    /\ req' \in Kinds
    /\ branch' = [t \in Branches |-> IF t \in Tasks(req') THEN "start" ELSE "off"]
    /\ could' = AccessibleDocs(Searcher)
    /\ blind' = (AccessibleDocs(Searcher) = {})
    /\ UNCHANGED <<acl, graphRepo, filter, hits, answer>>

Returns(t, s) ==
    /\ branch' = [branch EXCEPT ![t] = "done"]
    /\ hits' = [hits EXCEPT ![t] = s]
    /\ UNCHANGED <<acl, graphRepo, at, req, answer, could, blind>>

\* Nothing to look for or nowhere to look.
GivesUp(t) == IF t \in InGraph THEN ~graphRepo ELSE t = "sparse" /\ req.blank

Skip(t) ==
    /\ branch[t] = "start" /\ GivesUp(t)
    /\ Returns(t, <<>>) /\ UNCHANGED filter

\* Wrong: what one search asks for is taken from the whole access table.
FilterOfAnyone(docs) == IF docs = {} THEN NoFilter ELSE {e.doc : e \in Changing}

\* What the search asks its store for: an empty list becomes no filter.
Filter(docs) == IF docs = {} THEN NoFilter ELSE docs

\* The keyword is the longest word that is no stop word, or else the whole
\* query: only a blank one has none.
NoKeyword(t) == t = "graph" /\ req.blank

\* A search in the graph needs a document to look in and a keyword.
ReadAccess(t) ==
    LET docs == AccessibleDocs(Searcher)
    IN  /\ branch[t] = "start" /\ ~GivesUp(t)
        /\ IF t \in InGraph /\ (docs = {} \/ NoKeyword(t))
           THEN Returns(t, <<>>) /\ UNCHANGED filter
           ELSE /\ branch' = [branch EXCEPT ![t] = "query"]
                /\ filter' = [filter EXCEPT ![t] = Filter(docs)]
                /\ UNCHANGED <<acl, graphRepo, at, req, hits, answer, could, blind>>

\* The model made no vector of the query.
NoVector(t) ==
    /\ branch[t] = "query" /\ t \notin InGraph
    /\ Returns(t, <<>>) /\ UNCHANGED filter

StoreAnswers(t) ==
    /\ branch[t] = "query"
    /\ \E s \in Lists(filter[t]) : Returns(t, s)
    /\ UNCHANGED filter

\* Wrong: the search is started again.
RaisesRetries(t) ==
    /\ CallsRaise /\ branch[t] \in {"start", "query"} /\ ~GivesUp(t)
    /\ branch' = [branch EXCEPT ![t] = "start"]
    /\ UNCHANGED <<acl, graphRepo, at, req, filter, hits, answer, could, blind>>

\* The access table, the model or the store raises.  The repository of the
\* graph does so always: it has no search_by_keyword and no search_by_entity.
Raises(t) ==
    /\ CallsRaise /\ branch[t] \in {"start", "query"} /\ ~GivesUp(t)
    /\ branch' = [branch EXCEPT ![t] = "raised"]
    /\ UNCHANGED <<acl, graphRepo, at, req, filter, hits, answer, could, blind>>

\* gather(return_exceptions=True): waits for all, a failed one has no list.
Merge ==
    /\ at = "searching" /\ ~req.alone
    /\ \A t \in Tasks(req) : branch[t] \in {"done", "raised"}
    /\ at' = "answered"
    /\ \E s \in Merges : answer' \in AtLeastMin(s)
    /\ UNCHANGED <<acl, graphRepo, req, branch, filter, hits, could, blind>>

\* Run alone, a search passes its exception on.
ReturnAlone ==
    /\ at = "searching" /\ req.alone
    /\ \E t \in Tasks(req) :
        \/ branch[t] = "raised" /\ at' = "failed" /\ UNCHANGED answer
        \/ branch[t] = "done" /\ at' = "answered" /\ answer' \in SomeOf(hits[t])
    /\ UNCHANGED <<acl, graphRepo, req, branch, filter, hits, could, blind>>

\* Someone grants or revokes, or a document goes, while the request runs.
AccessChanges ==
    /\ at = "searching"
    /\ \E e \in Changing :
        \/ e \notin acl /\ Grant(e.doc, e.principal, e.permission)
        \/ e \in acl /\ Revoke(e.doc, e.principal)
        \/ e \in acl /\ DropEntries(e.doc)
    /\ could' = could \union AccessibleDocs(Searcher)'
    /\ blind' = (blind \/ AccessibleDocs(Searcher)' = {})
    /\ UNCHANGED <<graphRepo, at, req, branch, filter, hits, answer>>

BranchStep(t) ==
    Skip(t) \/ ReadAccess(t) \/ NoVector(t) \/ StoreAnswers(t) \/ Raises(t)
Answers == Merge \/ ReturnAlone
Next == Submit \/ (\E t \in Branches : BranchStep(t)) \/ Answers \/ AccessChanges

\* A call of a client ends, with an answer or an exception: every search and
\* the gather proceed.
Spec ==
    /\ Init /\ [][Next]_vars
    /\ \A t \in Branches : WF_vars(BranchStep(t))
    /\ WF_vars(Answers)

-----------------------------------------------------------------------------
\* Each hit is of a document the user could see at some moment of the request,
\* although no two searches need have read the same access table and it may
\* have changed since.  For users who could see something all the while.
HitsWereVisible ==
    at = "answered" /\ ~blind => \A c \in Range(answer) : DocOf[c] \in could

\* The same of every user: who may see nothing gets nothing ("Empty list means
\* no access").  It does not hold: the searches hand the repository no list at
\* all where the list of documents is empty.
HitsNeedAccess ==
    at = "answered" => \A c \in Range(answer) : DocOf[c] \in could

\* The fusion respects the lists: a chunk that comes earlier than another in
\* every list the other is in comes earlier in the answer, whichever searches
\* failed and wherever top_k and min_score cut.
FusionRespectsLists ==
    at = "answered" /\ ~req.alone =>
        \A j \in DOMAIN answer : \A c \in Found :
            (\A t \in In(answer[j]) :
                c \in Range(hits[t]) /\ Rank(c, t) < Rank(answer[j], t))
            => \E i \in 1..j - 1 : answer[i] = c

\* Every request is answered, though searches fail and access changes.
SearchAnswered == (at = "searching") ~> (at \in {"answered", "failed"})
=============================================================================
