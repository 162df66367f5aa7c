-------------------------- MODULE HybridSearch_proofs --------------------------
(***************************************************************************)
(* A search request, for any collection, any access table that changes     *)
(* meanwhile, any failures, any top_k, min_score and RRF constant: every   *)
(* hit was visible if something was all the while, and the fusion respects *)
(* the lists.                                                              *)
(***************************************************************************)
EXTENDS HybridSearch, FiniteSetTheorems, TLAPS

-----------------------------------------------------------------------------
(* Shares of a score.                                                      *)

LEMMA Shares ==
  ASSUME NEW a \in 1 .. 2 * TopK
  PROVE  Share(a) \in Nat \ {0} /\ Scale = Share(a) * (RrfK + a)
<1> DEFINE k == RrfK + a
           q == Share(a)
<1>1. k \in Nat \ {0} /\ Scale \in Nat \ {0} /\ Scale % k = 0
  BY SearchAssumption
<1>2. q = Scale \div k
  BY DEF Share
<1> HIDE DEF k, q
<1>3. q \in Nat /\ Scale = k * q + (Scale % k)
  BY <1>1, <1>2
<1>4. Scale = k * q
  BY <1>1, <1>3
<1>5. q # 0
  BY <1>1, <1>4
<1> QED BY <1>1, <1>3, <1>4, <1>5 DEF k, q

LEMMA SharesFall ==
  ASSUME NEW a \in 1 .. 2 * TopK, NEW b \in 1 .. 2 * TopK, a < b
  PROVE  Share(a) > Share(b)
<1> DEFINE p == Share(a)
           q == Share(b)
           k == RrfK + a
           l == RrfK + b
<1>1. p \in Nat \ {0} /\ q \in Nat \ {0} /\ p * k = q * l
  BY Shares
<1>2. k \in Nat /\ l \in Nat /\ k < l
  BY SearchAssumption
<1> HIDE DEF p, q, k, l
<1>3. q * k < q * l
  BY <1>1, <1>2
<1>4. p * k > q * k
  BY <1>1, <1>3
<1>5. p > q
  BY <1>1, <1>2, <1>4
<1> QED BY <1>5 DEF p, q

-----------------------------------------------------------------------------
(* Types, and where a request and its searches can be.                     *)

States == {"off", "start", "query", "done", "raised"}

TypeInv ==
    /\ at \in {"idle", "searching", "answered", "failed"}
    /\ branch \in [Branches -> States]
    /\ filter \in [Branches -> (SUBSET Docs) \union {NoFilter}]
    /\ hits \in [Branches -> Seq(Chunks)]
    /\ req \in Unified \union Alone \union {NoRequest}
    /\ acl \subseteq Entries
    /\ blind \in BOOLEAN

\* Only the searches of the request run, and only while it is served.
Running ==
    /\ \A t \in Branches : branch[t] # "off" => at # "idle" /\ t \in Tasks(req)
    /\ at # "searching" => \A t \in Branches : branch[t] \notin {"start", "query"}

\* No list is longer than asked for or names a chunk twice.
ListsInv ==
    /\ \A t \in Branches : Len(hits[t]) <= Limit /\ IsInjective(hits[t])
    /\ at = "idle" => req = NoRequest /\ \A t \in Branches : hits[t] = <<>>

\* Unless there were none at some moment: what a search asks for, and what it
\* found, is of documents seen since the start.
Seen(c) == blind \/ DocOf[c] \in could
VisibleInv ==
    /\ at # "idle" => /\ AccessibleDocs(Searcher) \subseteq could
                      /\ blind \/ AccessibleDocs(Searcher) # {}
    /\ \A t \in Branches :
        /\ branch[t] = "query" => blind \/ (filter[t] # NoFilter /\ filter[t] \subseteq could)
        /\ branch[t] = "done" => \A c \in Range(hits[t]) : Seen(c)

SearchInv == TypeInv /\ Running /\ ListsInv /\ VisibleInv

LEMMA TasksAre ==
  ASSUME NEW r \in Unified \union Alone \union {NoRequest}
  PROVE  /\ Tasks(r) \subseteq Branches
         /\ ~r.alone => Tasks(r) \subseteq Fused
<1>1. Fused \subseteq Branches /\ Branches = {"dense", "sparse", "graph", "entity", "hybrid"}
  BY DEF Branches, InGraph, Fused
<1>2. CASE r \in Alone
  <2>1. r.alone /\ r.types \subseteq Branches
    BY <1>2 DEF Alone
  <2> QED BY <2>1 DEF Tasks
<1>3. CASE r \in Unified \union {NoRequest}
  <2>1. r.alone = FALSE
    <3>1. CASE r \in Unified
      BY <3>1 DEF Unified
    <3>2. CASE r = NoRequest
      BY <3>2 DEF NoRequest
    <3> QED BY <1>3, <3>1, <3>2
  <2>2. Tasks(r) \subseteq Fused
    BY <2>1 DEF Tasks
  <2> QED BY <1>1, <2>2
<1> QED BY <1>2, <1>3

LEMMA AccessibleAreDocs ==
  ASSUME acl \subseteq Entries
  PROVE  AccessibleDocs(Searcher) \subseteq Docs
  BY DEF AccessibleDocs, Entries

LEMMA MinIs ==
  ASSUME NEW a \in Nat, NEW b \in Nat
  PROVE  Min({a, b}) \in Nat /\ Min({a, b}) <= a
<1>1. \E x \in {a, b} : \A y \in {a, b} : x <= y
  <2>1. a <= b \/ b <= a
    OBVIOUS
  <2> QED BY <2>1
<1>2. Min({a, b}) \in {a, b} /\ \A y \in {a, b} : Min({a, b}) <= y
  BY <1>1 DEF Min
<1> QED BY <1>2

\* What a store answers.
LEMMA ListsAre ==
  ASSUME NEW docs, NEW s \in Lists(docs), Limit \in Nat
  PROVE  /\ s \in Seq(Chunks) /\ Len(s) <= Limit /\ IsInjective(s)
         /\ \A c \in Range(s) : docs = NoFilter \/ DocOf[c] \in docs
<1> DEFINE those == IF docs = NoFilter THEN Chunks ELSE {c \in Chunks : DocOf[c] \in docs}
           m == Min({Limit, Cardinality(those)})
<1>1. those \subseteq Chunks /\ IsFiniteSet(those)
  <2>1. those \subseteq Chunks
    OBVIOUS
  <2> QED BY <2>1, SearchAssumption, FS_Subset
<1>2. Cardinality(those) \in Nat
  BY <1>1, FS_CardinalityType
<1>3. PICK n \in 0..m : s \in [1..n -> those] /\ IsInjective(s)
  BY DEF Lists
<1>4. \A c \in those : docs = NoFilter \/ DocOf[c] \in docs
  OBVIOUS
<1> HIDE DEF those
<1>5. m \in Nat /\ m <= Limit
  BY <1>2, MinIs
<1> HIDE DEF m
<1>6. n \in Nat /\ n <= Limit
  BY <1>5
<1>7. s \in Seq(those) /\ Len(s) = n
  BY <1>3, <1>6
<1>8. s \in Seq(Chunks)
  BY <1>1, <1>3, <1>6
<1>9. \A c \in Range(s) : c \in those
  BY <1>3 DEF Range
<1> QED BY <1>3, <1>4, <1>6, <1>7, <1>8, <1>9

-----------------------------------------------------------------------------
(* The searches.                                                           *)

\* A search that comes back with a list that may be returned.
LEMMA ReturnKeeps ==
  ASSUME SearchInv, NEW t \in Branches, branch[t] \in {"start", "query"}, NEW s, Returns(t, s),
         UNCHANGED filter, s \in Seq(Chunks), Len(s) <= Limit, IsInjective(s),
         \A c \in Range(s) : Seen(c)
  PROVE  SearchInv'
<1>1. /\ branch' = [branch EXCEPT ![t] = "done"] /\ hits' = [hits EXCEPT ![t] = s]
      /\ acl' = acl /\ at' = at /\ req' = req /\ could' = could /\ blind' = blind /\ filter' = filter
  BY DEF Returns
<1>2. TypeInv /\ Running /\ ListsInv /\ VisibleInv
  BY DEF SearchInv
<1>3. at = "searching" /\ t \in Tasks(req)
  BY <1>2 DEF Running, TypeInv
<1>4. TypeInv'
  BY <1>1, <1>2 DEF TypeInv, States
<1>5. Tasks(req)' = Tasks(req) /\ Limit' = Limit
  BY <1>1 DEF Tasks, Default, Limit
<1>6. Running'
  BY <1>1, <1>2, <1>3, <1>5 DEF Running, TypeInv
<1>7. \A u \in Branches : /\ u # t => branch'[u] = branch[u] /\ hits'[u] = hits[u]
                          /\ u = t => branch'[u] = "done" /\ hits'[u] = s
  BY <1>1, <1>2 DEF TypeInv
<1>8. ListsInv'
  <2>1. \A u \in Branches : Len(hits'[u]) <= Limit /\ IsInjective(hits'[u])
    BY <1>2, <1>7 DEF ListsInv
  <2> QED BY <1>1, <1>3, <1>5, <2>1 DEF ListsInv
<1>9. VisibleInv'
  <2>1. AccessibleDocs(Searcher)' = AccessibleDocs(Searcher)
    BY <1>1 DEF AccessibleDocs
  <2>2. \A c : Seen(c)' <=> Seen(c)
    BY <1>1 DEF Seen
  <2>3. \A u \in Branches : branch'[u] = "done" => \A c \in Range(hits'[u]) : Seen(c)
    BY <1>2, <1>7 DEF VisibleInv
  <2>4. \A u \in Branches : branch'[u] = "query" => blind' \/ (filter'[u] # NoFilter /\ filter'[u] \subseteq could')
    BY <1>1, <1>2, <1>7 DEF VisibleInv
  <2> QED BY <1>1, <1>2, <2>1, <2>2, <2>3, <2>4 DEF VisibleInv
<1> QED BY <1>4, <1>6, <1>8, <1>9 DEF SearchInv

\* A search that goes on without a list.
LEMMA GoesOnKeeps ==
  ASSUME SearchInv, NEW t \in Branches, branch[t] \in {"start", "query"},
         NEW to \in {"query", "raised"}, branch' = [branch EXCEPT ![t] = to],
         NEW f \in (SUBSET Docs) \union {NoFilter}, filter' = [filter EXCEPT ![t] = f],
         to = "query" => blind \/ (f # NoFilter /\ f \subseteq could),
         UNCHANGED <<acl, at, req, hits, could, blind>>
  PROVE  SearchInv'
<1>1. acl' = acl /\ at' = at /\ req' = req /\ could' = could /\ blind' = blind /\ hits' = hits
  OBVIOUS
<1>2. TypeInv /\ Running /\ ListsInv /\ VisibleInv
  BY DEF SearchInv
<1>3. at = "searching" /\ t \in Tasks(req)
  BY <1>2 DEF Running, TypeInv
<1>4. TypeInv'
  BY <1>1, <1>2 DEF TypeInv, States
<1>5. Tasks(req)' = Tasks(req) /\ Limit' = Limit
  BY <1>1 DEF Tasks, Default, Limit
<1>6. \A u \in Branches : /\ u # t => branch'[u] = branch[u] /\ filter'[u] = filter[u]
                          /\ u = t => branch'[u] = to /\ filter'[u] = f
  BY <1>2 DEF TypeInv
<1>7. Running'
  BY <1>1, <1>2, <1>3, <1>5, <1>6 DEF Running
<1>8. ListsInv'
  BY <1>1, <1>2, <1>5 DEF ListsInv
<1>9. VisibleInv'
  <2>1. AccessibleDocs(Searcher)' = AccessibleDocs(Searcher)
    BY <1>1 DEF AccessibleDocs
  <2>2. \A u \in Branches : branch'[u] = "done" => \A c \in Range(hits'[u]) : Seen(c)'
    BY <1>1, <1>2, <1>6 DEF VisibleInv, Seen
  <2>3. \A u \in Branches : branch'[u] = "query" => blind' \/ (filter'[u] # NoFilter /\ filter'[u] \subseteq could')
    BY <1>1, <1>2, <1>6 DEF VisibleInv
  <2> QED BY <1>1, <1>2, <2>1, <2>2, <2>3 DEF VisibleInv
<1> QED BY <1>4, <1>7, <1>8, <1>9 DEF SearchInv

LEMMA LimitIs == SearchInv => Limit \in Nat
  BY SearchAssumption DEF Limit

LEMMA BranchKeeps ==
  ASSUME SearchInv, NEW t \in Branches, BranchStep(t)
  PROVE  SearchInv'
<1>1. TypeInv /\ VisibleInv /\ Running
  BY DEF SearchInv
<1>2. Limit \in Nat
  BY LimitIs
<1>3. ASSUME branch[t] \in {"start", "query"}, Returns(t, <<>>), UNCHANGED filter
      PROVE  SearchInv'
  <2>1. /\ <<>> \in Seq(Chunks) /\ Len(<<>>) <= Limit /\ IsInjective(<<>>)
        /\ \A c \in Range(<<>>) : Seen(c)
    BY <1>2 DEF IsInjective, Range
  <2> QED BY <1>3, <2>1, ReturnKeeps
<1>4. CASE Skip(t)
  BY <1>3, <1>4 DEF Skip
<1>5. CASE NoVector(t)
  BY <1>3, <1>5 DEF NoVector
<1>6. CASE ReadAccess(t)
  <2> DEFINE docs == AccessibleDocs(Searcher)
  <2>1. /\ branch[t] = "start"
        /\ \/ Returns(t, <<>>) /\ UNCHANGED filter
           \/ /\ branch' = [branch EXCEPT ![t] = "query"]
              /\ filter' = [filter EXCEPT ![t] = Filter(docs)]
              /\ UNCHANGED <<acl, at, req, hits, could, blind>>
    BY <1>6 DEF ReadAccess
  <2>2. docs \subseteq Docs /\ docs \subseteq could /\ (blind \/ docs # {})
    BY <1>1, <2>1, AccessibleAreDocs DEF TypeInv, VisibleInv, Running
  <2>3. /\ Filter(docs) \in (SUBSET Docs) \union {NoFilter}
        /\ blind \/ (Filter(docs) # NoFilter /\ Filter(docs) \subseteq could)
    BY <2>2, SearchAssumption DEF Filter
  <2> HIDE DEF docs
  <2> QED BY <1>3, <2>1, <2>3, GoesOnKeeps
<1>7. CASE StoreAnswers(t)
  <2>1. PICK s \in Lists(filter[t]) : Returns(t, s) /\ UNCHANGED filter /\ branch[t] = "query"
    BY <1>7 DEF StoreAnswers
  <2>2. /\ s \in Seq(Chunks) /\ Len(s) <= Limit /\ IsInjective(s)
        /\ \A c \in Range(s) : filter[t] = NoFilter \/ DocOf[c] \in filter[t]
    BY <1>2, <2>1, ListsAre
  <2>3. blind \/ (filter[t] # NoFilter /\ filter[t] \subseteq could)
    BY <1>1, <2>1 DEF VisibleInv
  <2>4. \A c \in Range(s) : Seen(c)
    BY <2>2, <2>3 DEF Seen
  <2> QED BY <2>1, <2>2, <2>4, ReturnKeeps
<1>8. CASE Raises(t)
  <2>1. /\ branch[t] \in {"start", "query"} /\ branch' = [branch EXCEPT ![t] = "raised"]
        /\ filter' = filter /\ UNCHANGED <<acl, at, req, hits, could, blind>>
    BY <1>8 DEF Raises
  <2>2. filter' = [filter EXCEPT ![t] = filter[t]] /\ filter[t] \in (SUBSET Docs) \union {NoFilter}
    BY <1>1, <2>1 DEF TypeInv
  <2> QED BY <2>1, <2>2, GoesOnKeeps
<1> QED BY <1>4, <1>5, <1>6, <1>7, <1>8 DEF BranchStep

LEMMA NextSearchInv ==
  ASSUME SearchInv, [Next]_vars
  PROVE  SearchInv'
<1>1. TypeInv /\ Running /\ ListsInv /\ VisibleInv
  BY DEF SearchInv
<1>2. CASE UNCHANGED vars
  <2>1. UNCHANGED <<acl, at, req, branch, filter, hits, could, blind>>
    BY <1>2 DEF vars
  <2> QED BY <1>1, <2>1 DEF SearchInv, TypeInv, Running, ListsInv, VisibleInv, Tasks, Default,
                            Limit, AccessibleDocs, Seen
<1>3. CASE Submit
  <2>1. /\ at = "idle" /\ at' = "searching" /\ req' \in Kinds
        /\ branch' = [t \in Branches |-> IF t \in Tasks(req') THEN "start" ELSE "off"]
        /\ could' = AccessibleDocs(Searcher) /\ blind' = (AccessibleDocs(Searcher) = {})
        /\ acl' = acl /\ filter' = filter /\ hits' = hits
    BY <1>3 DEF Submit
  <2>2. req' \in Unified \union Alone
    BY <2>1, KindsAssumption
  <2>3. TypeInv'
    BY <1>1, <2>1, <2>2 DEF TypeInv, States
  <2>4. \A t \in Branches : branch'[t] = IF t \in Tasks(req') THEN "start" ELSE "off"
    BY <2>1
  <2>5. Running'
    BY <2>1, <2>4 DEF Running, Tasks, Default
  <2>6. \A t \in Branches : hits'[t] = <<>>
    BY <1>1, <2>1 DEF ListsInv
  <2>7. Limit' \in Nat
    BY SearchAssumption DEF Limit
  <2>8. Len(<<>>) <= Limit' /\ IsInjective(<<>>)
    BY <2>7 DEF IsInjective
  <2>9. ListsInv'
    BY <2>1, <2>6, <2>8 DEF ListsInv
  <2>10. VisibleInv'
    BY <2>1, <2>4 DEF VisibleInv, AccessibleDocs
  <2> QED BY <2>3, <2>5, <2>9, <2>10 DEF SearchInv
<1>4. CASE \E t \in Branches : BranchStep(t)
  BY <1>4, BranchKeeps
<1>5. CASE Answers
  <2>1. /\ at = "searching" /\ at' \in {"answered", "failed"}
        /\ UNCHANGED <<acl, req, branch, filter, hits, could, blind>>
        /\ \A t \in Tasks(req) : branch[t] \in {"done", "raised"}
    <3>1. CASE Merge
      BY <3>1 DEF Merge
    <3>2. CASE ReturnAlone
      <4>1. /\ at = "searching" /\ req.alone /\ at' \in {"answered", "failed"}
            /\ UNCHANGED <<acl, req, branch, filter, hits, could, blind>>
        BY <3>2 DEF ReturnAlone
      <4>2. PICK t \in Tasks(req) : branch[t] \in {"done", "raised"}
        BY <3>2 DEF ReturnAlone
      <4>3. req \in Alone
        <5>1. req \notin Unified
          BY <4>1 DEF Unified
        <5>2. req # NoRequest
          BY <4>1 DEF NoRequest
        <5> QED BY <1>1, <5>1, <5>2 DEF TypeInv
      <4>4. PICK u \in Branches : req.types = {u}
        BY <4>3 DEF Alone
      <4>5. Tasks(req) = {u}
        BY <4>1, <4>4 DEF Tasks
      <4> QED BY <4>1, <4>2, <4>5
    <3> QED BY <1>5, <3>1, <3>2 DEF Answers
  <2>2. TypeInv'
    BY <1>1, <2>1 DEF TypeInv
  <2>3. Tasks(req)' = Tasks(req) /\ Limit' = Limit
    BY <2>1 DEF Tasks, Default, Limit
  <2>4. Running'
    BY <1>1, <2>1, <2>3 DEF Running
  <2>5. ListsInv'
    BY <1>1, <2>1, <2>3 DEF ListsInv
  <2>6. VisibleInv'
    BY <1>1, <2>1 DEF VisibleInv, AccessibleDocs, Seen
  <2> QED BY <2>2, <2>4, <2>5, <2>6 DEF SearchInv
<1>6. CASE AccessChanges
  <2>1. /\ at = "searching" /\ could' = could \union AccessibleDocs(Searcher)'
        /\ blind' = (blind \/ AccessibleDocs(Searcher)' = {})
        /\ UNCHANGED <<at, req, branch, filter, hits>>
    BY <1>6 DEF AccessChanges
  <2>2. acl' \subseteq Entries
    <3>1. PICK e \in Changing : \/ Grant(e.doc, e.principal, e.permission)
                                \/ Revoke(e.doc, e.principal)
                                \/ DropEntries(e.doc)
      BY <1>6 DEF AccessChanges
    <3>2. e \in Entries
      BY SearchAssumption
    <3>3. [doc |-> e.doc, principal |-> e.principal, permission |-> e.permission] \in Entries
      BY <3>2 DEF Entries
    <3> QED BY <1>1, <3>1, <3>3 DEF TypeInv, Grant, Revoke, DropEntries
  <2>3. TypeInv'
    BY <1>1, <2>1, <2>2 DEF TypeInv
  <2>4. Tasks(req)' = Tasks(req) /\ Limit' = Limit
    BY <2>1 DEF Tasks, Default, Limit
  <2>5. Running'
    BY <1>1, <2>1, <2>4 DEF Running
  <2>6. ListsInv'
    BY <1>1, <2>1, <2>4 DEF ListsInv
  <2>7. \A c : Seen(c) => Seen(c)'
    BY <2>1 DEF Seen
  <2>8. VisibleInv'
    BY <1>1, <2>1, <2>7 DEF VisibleInv
  <2> QED BY <2>3, <2>5, <2>6, <2>8 DEF SearchInv
<1> QED BY <1>2, <1>3, <1>4, <1>5, <1>6 DEF Next

LEMMA InitSearchInv == Init => SearchInv
<1> SUFFICES ASSUME Init PROVE SearchInv
  OBVIOUS
<1>1. /\ acl \in SUBSET Changing /\ at = "idle" /\ req = NoRequest
      /\ branch = [t \in Branches |-> "off"] /\ filter = [t \in Branches |-> {}]
      /\ hits = [t \in Branches |-> <<>>] /\ blind = FALSE
  BY DEF Init
<1>2. TypeInv
  <2>1. acl \subseteq Entries
    BY <1>1, SearchAssumption
  <2>2. branch \in [Branches -> States] /\ at \in {"idle", "searching", "answered", "failed"}
    BY <1>1 DEF States
  <2>3. filter \in [Branches -> (SUBSET Docs) \union {NoFilter}] /\ hits \in [Branches -> Seq(Chunks)]
    BY <1>1
  <2>4. req \in Unified \union Alone \union {NoRequest} /\ blind \in BOOLEAN
    BY <1>1
  <2> QED BY <2>1, <2>2, <2>3, <2>4 DEF TypeInv
<1>3. Running /\ VisibleInv
  BY <1>1 DEF Running, VisibleInv
<1>4. Limit \in Nat
  BY SearchAssumption DEF Limit
<1>5. Len(<<>>) <= Limit /\ IsInjective(<<>>)
  BY <1>4 DEF IsInjective
<1>6. \A t \in Branches : hits[t] = <<>>
  BY <1>1
<1>7. ListsInv
  BY <1>1, <1>5, <1>6 DEF ListsInv
<1> QED BY <1>2, <1>3, <1>7 DEF SearchInv

-----------------------------------------------------------------------------
(* Every hit was visible.                                                  *)

LEMMA UsedAre ==
  ASSUME SearchInv
  PROVE  /\ Used \subseteq Branches
         /\ ~req.alone => Used \subseteq Fused
         /\ \A c \in Found : \E t \in Used : c \in Range(hits[t])
         /\ \A t \in Used : Range(hits[t]) \subseteq Chunks /\ Range(hits[t]) \subseteq Found
<1>1. /\ req \in Unified \union Alone \union {NoRequest}
      /\ hits \in [Branches -> Seq(Chunks)]
  BY DEF SearchInv, TypeInv
<1>2. Used \subseteq Tasks(req)
  BY DEF Used
<1>3. Used \subseteq Branches /\ (~req.alone => Used \subseteq Fused)
  BY <1>1, <1>2, TasksAre
<1>4. \A c \in Found : \E t \in Used : c \in Range(hits[t])
  BY DEF Found
<1>5. ASSUME NEW t \in Used
      PROVE  Range(hits[t]) \subseteq Chunks /\ Range(hits[t]) \subseteq Found
  <2>1. hits[t] \in Seq(Chunks)
    BY <1>1, <1>3
  <2>2. Range(hits[t]) \subseteq Chunks
    BY <2>1 DEF Range
  <2> QED BY <2>2 DEF Found
<1> QED BY <1>3, <1>4, <1>5

LEMMA KeepsThose ==
  ASSUME NEW s, NEW kept, NEW r \in Keeps(s, kept)
  PROVE  Range(r) = kept
  BY DEF Keeps

LEMMA MergesFound ==
  ASSUME NEW s \in Merges
  PROVE  Range(s) \subseteq Found
<1>1. s \in [1..Min({TopK, Cardinality(Found)}) -> Found]
  BY DEF Merges
<1> QED BY <1>1 DEF Range

LEMMA AnswerFound ==
  ASSUME SearchInv, at = "searching", at' = "answered", Answers
  PROVE  \A c \in Range(answer') : \E t \in Used : c \in Range(hits[t])
<1>1. CASE Merge
  <2>1. PICK s \in Merges : answer' \in AtLeastMin(s)
    BY <1>1 DEF Merge
  <2>2. Range(answer') \subseteq Range(s)
    <3>1. CASE req.min = 0
      BY <2>1, <3>1 DEF AtLeastMin
    <3>2. CASE req.min # 0
      BY <2>1, <3>2, KeepsThose DEF AtLeastMin
    <3> QED BY <3>1, <3>2
  <2> QED BY <2>1, <2>2, MergesFound, UsedAre
<1>2. CASE ReturnAlone
  <2>1. PICK t \in Tasks(req) : branch[t] = "done" /\ answer' \in SomeOf(hits[t])
    BY <1>2 DEF ReturnAlone
  <2>2. Range(answer') \subseteq Range(hits[t])
    <3>1. CASE req.min = 0
      BY <2>1, <3>1 DEF SomeOf
    <3>2. CASE req.min # 0
      <4>1. PICK kept \in SUBSET Range(hits[t]) : answer' \in Keeps(hits[t], kept)
        BY <2>1, <3>2 DEF SomeOf
      <4> QED BY <4>1, KeepsThose
    <3> QED BY <3>1, <3>2
  <2>3. t \in Used
    BY <2>1 DEF Used
  <2> QED BY <2>2, <2>3
<1> QED BY <1>1, <1>2 DEF Answers

\* Once answered, nothing changes any more.
LEMMA AnsweredStays ==
  ASSUME SearchInv, at = "answered", [Next]_vars
  PROVE  UNCHANGED <<at, req, branch, filter, hits, answer, could, blind>>
<1>1. CASE UNCHANGED vars
  BY <1>1 DEF vars
<1>2. ASSUME NEW t \in Branches, BranchStep(t) PROVE FALSE
  <2>1. branch[t] \in {"start", "query"}
    BY <1>2 DEF BranchStep, Skip, ReadAccess, NoVector, StoreAnswers, Raises
  <2> QED BY <2>1 DEF SearchInv, Running
<1> QED BY <1>1, <1>2 DEF Next, Submit, Answers, Merge, ReturnAlone, AccessChanges

\* Only an answer brings a request to "answered".
LEMMA BecomesAnswered ==
  ASSUME SearchInv, [Next]_vars, at' = "answered", at # "answered"
  PROVE  at = "searching" /\ Answers /\ UNCHANGED <<req, branch, filter, hits, could, blind>>
<1>1. ~(UNCHANGED vars) /\ ~Submit /\ ~AccessChanges
  BY DEF vars, Submit, AccessChanges
<1>2. ASSUME NEW t \in Branches, BranchStep(t) PROVE FALSE
  <2>1. at' = at
    BY <1>2 DEF BranchStep, Skip, ReadAccess, NoVector, StoreAnswers, Raises, Returns
  <2> QED BY <2>1
<1>3. Answers
  BY <1>1, <1>2 DEF Next
<1> QED BY <1>3 DEF Answers, Merge, ReturnAlone

LEMMA NextVisible ==
  ASSUME SearchInv, HitsWereVisible, [Next]_vars
  PROVE  HitsWereVisible'
<1>1. CASE at = "answered"
  <2>1. UNCHANGED <<at, req, branch, filter, hits, answer, could, blind>>
    BY <1>1, AnsweredStays
  <2> QED BY <2>1 DEF HitsWereVisible
<1>2. CASE at # "answered" /\ at' = "answered"
  <2>1. at = "searching" /\ Answers /\ could' = could /\ blind' = blind
    BY <1>2, BecomesAnswered
  <2>2. ASSUME NEW c \in Range(answer')
        PROVE  Seen(c)
    <3>1. PICK t \in Used : c \in Range(hits[t])
      BY <1>2, <2>1, AnswerFound
    <3>2. t \in Branches /\ branch[t] = "done"
      BY UsedAre DEF Used
    <3> QED BY <3>1, <3>2 DEF SearchInv, VisibleInv
  <2> QED BY <2>1, <2>2 DEF HitsWereVisible, Seen
<1>3. CASE at' # "answered"
  BY <1>3 DEF HitsWereVisible
<1> QED BY <1>1, <1>2, <1>3

\* Whatever changes in the access table while a request runs, and whichever of
\* its searches fail: each hit of its answer is of a document its user could
\* see at some moment of the request, provided that there was one at each.
THEOREM HitsVisible == Spec => []HitsWereVisible
<1>1. Init => SearchInv /\ HitsWereVisible
  BY InitSearchInv DEF Init, HitsWereVisible
<1>2. SearchInv /\ HitsWereVisible /\ [Next]_vars => SearchInv' /\ HitsWereVisible'
  BY NextSearchInv, NextVisible
<1> QED BY <1>1, <1>2, PTL DEF Spec

-----------------------------------------------------------------------------
(* The fusion respects the lists.                                          *)

\* The place of a hit in a list it is in.
LEMMA PlaceIs ==
  ASSUME NEW s, NEW c \in Range(s)
  PROVE  PlaceIn(s, c) \in DOMAIN s /\ s[PlaceIn(s, c)] = c
<1>1. \E n \in DOMAIN s : s[n] = c
  BY DEF Range
<1> QED BY <1>1 DEF PlaceIn

LEMMA RanksAre ==
  ASSUME SearchInv, ~req.alone, NEW t \in Used, NEW c \in Range(hits[t])
  PROVE  Rank(c, t) \in 1 .. 2 * TopK /\ hits[t][Rank(c, t)] = c
<1>1. t \in Branches
  BY UsedAre
<1>2. hits[t] \in Seq(Chunks) /\ Len(hits[t]) <= Limit
  BY <1>1 DEF SearchInv, TypeInv, ListsInv
<1>3. Limit = 2 * TopK /\ TopK \in Nat
  BY SearchAssumption DEF Limit
<1>4. DOMAIN hits[t] = 1..Len(hits[t]) /\ Len(hits[t]) \in Nat
  BY <1>2
<1>5. Rank(c, t) \in DOMAIN hits[t] /\ hits[t][Rank(c, t)] = c
  BY PlaceIs DEF Rank
<1> QED BY <1>2, <1>3, <1>4, <1>5

LEMMA ShareInIs ==
  ASSUME SearchInv, ~req.alone, NEW t \in Fused, NEW c
  PROVE  ShareIn(c, t) \in Nat /\ (t \in In(c) => ShareIn(c, t) > 0)
<1>1. CASE t \in Used /\ c \in Range(hits[t])
  <2>1. Rank(c, t) \in 1 .. 2 * TopK
    BY <1>1, RanksAre
  <2>2. Share(Rank(c, t)) \in Nat \ {0}
    BY <2>1, Shares
  <2> QED BY <1>1, <2>2 DEF ShareIn
<1>2. CASE ~(t \in Used /\ c \in Range(hits[t]))
  BY <1>2 DEF ShareIn, In
<1> QED BY <1>1, <1>2

\* A chunk that comes earlier than d in every list d is in has more points.
LEMMA EarlierScoresMore ==
  ASSUME SearchInv, ~req.alone, NEW c \in Found, NEW d \in Found,
         \A t \in In(d) : c \in Range(hits[t]) /\ Rank(c, t) < Rank(d, t)
  PROVE  Score(c) > Score(d) /\ Score(c) \in Nat /\ Score(d) \in Nat /\ c # d
<1>1. Used \subseteq Fused /\ Fused = {"dense", "sparse", "graph"}
  BY UsedAre DEF Fused
<1>2. \A t \in Fused : ShareIn(c, t) \in Nat /\ ShareIn(d, t) \in Nat
  BY ShareInIs
<1>3. ASSUME NEW t \in Fused PROVE IF t \in In(d) THEN ShareIn(c, t) > ShareIn(d, t)
                                   ELSE ShareIn(c, t) >= ShareIn(d, t)
  <2>1. CASE t \in In(d)
    <3>1. t \in Used /\ d \in Range(hits[t]) /\ c \in Range(hits[t]) /\ Rank(c, t) < Rank(d, t)
      BY <2>1 DEF In
    <3>2. Rank(c, t) \in 1 .. 2 * TopK /\ Rank(d, t) \in 1 .. 2 * TopK
      BY <3>1, RanksAre
    <3>3. Share(Rank(c, t)) > Share(Rank(d, t))
      BY <3>1, <3>2, SharesFall
    <3> QED BY <2>1, <3>1, <3>3 DEF ShareIn
  <2>2. CASE t \notin In(d)
    <3>1. ShareIn(d, t) = 0
      BY <2>2 DEF In, ShareIn
    <3>2. ShareIn(c, t) >= 0
      BY <1>2
    <3> QED BY <2>2, <3>1, <3>2
  <2> QED BY <2>1, <2>2
<1>4. PICK t \in In(d) : TRUE
  <2>1. PICK t \in Used : d \in Range(hits[t])
    BY UsedAre
  <2> QED BY <2>1 DEF In
<1>5. t \in Fused /\ Rank(c, t) < Rank(d, t) /\ Rank(d, t) \in 1 .. 2 * TopK
  <2>1. t \in Used /\ d \in Range(hits[t])
    BY <1>4 DEF In
  <2> QED BY <1>1, <1>4, <2>1, RanksAre
<1>6. c # d
  BY <1>5, SearchAssumption
<1> DEFINE a == ShareIn(c, "dense")
           b == ShareIn(c, "sparse")
           e == ShareIn(c, "graph")
           x == ShareIn(d, "dense")
           y == ShareIn(d, "sparse")
           z == ShareIn(d, "graph")
<1>7. a \in Nat /\ b \in Nat /\ e \in Nat /\ x \in Nat /\ y \in Nat /\ z \in Nat
  BY <1>1, <1>2
<1>8. "dense" \in Fused /\ "sparse" \in Fused /\ "graph" \in Fused
  BY <1>1
<1>9. ASSUME NEW u \in Fused PROVE ShareIn(c, u) >= ShareIn(d, u)
  <2>1. ShareIn(c, u) \in Nat /\ ShareIn(d, u) \in Nat
    BY <1>2
  <2> QED BY <1>3, <2>1
<1>10. a >= x /\ b >= y /\ e >= z
  BY <1>8, <1>9
<1>11. a > x \/ b > y \/ e > z
  <2>1. ShareIn(c, t) > ShareIn(d, t)
    BY <1>3, <1>4, <1>5
  <2>2. t = "dense" \/ t = "sparse" \/ t = "graph"
    BY <1>1, <1>5
  <2> QED BY <2>1, <2>2
<1>12. Score(c) = a + b + e /\ Score(d) = x + y + z
  BY DEF Score
<1> HIDE DEF a, b, e, x, y, z
<1> QED BY <1>6, <1>7, <1>10, <1>11, <1>12

\* The best hits, in the order of their scores.
LEMMA BestFirst ==
  ASSUME SearchInv, NEW s \in Merges, NEW i \in DOMAIN s, NEW c \in Found,
         Score(c) \in Nat, Score(s[i]) \in Nat, Score(c) > Score(s[i]), c # s[i]
  PROVE  \E k \in 1 .. i - 1 : s[k] = c
<1> DEFINE N == Min({TopK, Cardinality(Found)})
<1>1. s \in [1..N -> Found] /\ i \in 1..N
  BY DEF Merges
<1>2. s[i] \in Found
  BY <1>1
<1>3. c \notin Found \ {s[j] : j \in 1..i}
  <2>1. SUFFICES ASSUME c \in Found \ {s[j] : j \in 1..i} PROVE FALSE
    OBVIOUS
  <2>2. \/ [e \in Found |-> Score(e)][s[i]] > [e \in Found |-> Score(e)][c]
        \/ [e \in Found |-> Score(e)][s[i]] = [e \in Found |-> Score(e)][c]
    BY <2>1 DEF Merges
  <2>3. Score(s[i]) > Score(c) \/ Score(s[i]) = Score(c)
    BY <1>2, <2>2
  <2> QED BY <2>3
<1>4. PICK k \in 1..i : s[k] = c
  BY <1>3
<1>5. k # i
  BY <1>4
<1> QED BY <1>1, <1>4, <1>5

\* A merge has no hit twice and no gap.
LEMMA MergeShape ==
  ASSUME SearchInv, NEW s \in Merges
  PROVE  /\ DOMAIN s \subseteq Int
         /\ \A k \in DOMAIN s : PlaceIn(s, s[k]) = k /\ \A n \in 1..k : n \in DOMAIN s
<1> DEFINE N == Min({TopK, Cardinality(Found)})
<1>1. IsInjective(s) /\ DOMAIN s = 1..N
  BY DEF Merges
<1>2. N \in Nat
  <2>1. \A t \in Used : Range(hits[t]) \subseteq Chunks
    BY UsedAre
  <2>2. Found \subseteq Chunks
    BY <2>1, UsedAre
  <2>3. Cardinality(Found) \in Nat
    BY <2>2, SearchAssumption, FS_Subset, FS_CardinalityType
  <2> QED BY <2>3, SearchAssumption, MinIs
<1>3. ASSUME NEW k \in DOMAIN s PROVE PlaceIn(s, s[k]) = k
  <2>1. s[k] \in Range(s)
    BY DEF Range
  <2>2. PlaceIn(s, s[k]) \in DOMAIN s /\ s[PlaceIn(s, s[k])] = s[k]
    BY <2>1, PlaceIs
  <2> QED BY <1>1, <2>2 DEF IsInjective
<1> HIDE DEF N
<1> QED BY <1>1, <1>2, <1>3

\* Neither cut changes the order.
LEMMA FusedInOrder ==
  ASSUME SearchInv, ~req.alone, NEW s \in Merges, NEW r \in AtLeastMin(s),
         NEW j \in DOMAIN r, NEW c \in Found,
         \A t \in In(r[j]) : c \in Range(hits[t]) /\ Rank(c, t) < Rank(r[j], t)
  PROVE  \E i \in 1 .. j - 1 : r[i] = c
<1> DEFINE d == r[j]
           kept == {e \in Range(s) : Score(e) >= req.min}
<1>1. r = s \/ (req.min # 0 /\ r \in Keeps(s, kept))
  BY DEF AtLeastMin
<1>2. d \in Range(s)
  <2>1. d \in Range(r)
    BY DEF Range
  <2>2. CASE r = s
    BY <2>1, <2>2
  <2>3. CASE r \in Keeps(s, kept)
    BY <2>1, <2>3, KeepsThose
  <2> QED BY <1>1, <2>2, <2>3
<1>3. d \in Found
  BY <1>2, MergesFound
<1>4. Score(c) > Score(d) /\ Score(c) \in Nat /\ Score(d) \in Nat /\ c # d
  BY <1>3, EarlierScoresMore
<1>5. CASE r = s
  BY <1>4, <1>5, BestFirst
<1>6. CASE r \in Keeps(s, kept)
  <2>1. /\ r \in [1..Cardinality(kept) -> kept] /\ Range(r) = kept
        /\ \A m, n \in DOMAIN r : m < n => PlaceIn(s, r[m]) < PlaceIn(s, r[n])
    BY <1>6 DEF Keeps
  <2>2. /\ DOMAIN s \subseteq Int
        /\ \A n \in DOMAIN s : PlaceIn(s, s[n]) = n /\ \A m \in 1..n : m \in DOMAIN s
    BY MergeShape
  <2>3. PICK i \in DOMAIN s : s[i] = d
    BY <1>2 DEF Range
  <2>4. PICK k \in 1 .. i - 1 : s[k] = c /\ k \in DOMAIN s
    <3>1. PICK k \in 1 .. i - 1 : s[k] = c
      BY <1>4, <2>3, BestFirst
    <3>2. k \in 1..i
      BY <2>2, <2>3
    <3>3. k \in DOMAIN s
      BY <2>2, <2>3, <3>2
    <3> QED BY <3>1, <3>3
  <2>5. d \in kept
    <3>1. d \in Range(r)
      BY DEF Range
    <3> QED BY <2>1, <3>1
  <2>6. Score(c) >= req.min
    <3>1. req.min \in Nat
      <4>1. CASE req \in Unified \union Alone
        BY <4>1, SearchAssumption DEF Unified, Alone
      <4>2. CASE req = NoRequest
        BY <4>2 DEF NoRequest
      <4> QED BY <4>1, <4>2 DEF SearchInv, TypeInv
    <3>2. Score(d) >= req.min
      BY <2>5
    <3> QED BY <1>4, <3>1, <3>2
  <2>7. c \in kept
    BY <2>4, <2>6 DEF Range
  <2>8. PICK m \in DOMAIN r : r[m] = c
    BY <2>1, <2>7 DEF Range
  <2>9. PlaceIn(s, c) = k /\ PlaceIn(s, d) = i /\ k < i /\ i \in Int /\ k \in Int
    BY <2>2, <2>3, <2>4
  <2>10. Cardinality(kept) \in Nat
    <3>1. \A t \in Used : Range(hits[t]) \subseteq Chunks
      BY UsedAre
    <3>2. Found \subseteq Chunks
      BY <3>1, UsedAre
    <3>3. kept \subseteq Chunks
      BY <3>2, MergesFound
    <3> QED BY <3>3, SearchAssumption, FS_Subset, FS_CardinalityType
  <2> HIDE DEF kept, d
  <2>11. m \in 1..Cardinality(kept) /\ j \in 1..Cardinality(kept)
    BY <2>1, <2>8
  <2>12. r[j] = d
    BY DEF d
  <2>13. m < j
    BY <2>1, <2>8, <2>9, <2>10, <2>11, <2>12
  <2> QED BY <2>8, <2>10, <2>11, <2>13
<1> QED BY <1>1, <1>5, <1>6

LEMMA NextFusion ==
  ASSUME SearchInv, FusionRespectsLists, [Next]_vars
  PROVE  FusionRespectsLists'
<1>1. CASE at = "answered"
  <2>1. UNCHANGED <<at, req, branch, filter, hits, answer, could, blind>>
    BY <1>1, AnsweredStays
  <2> QED BY <2>1 DEF FusionRespectsLists, Found, In, Rank, Used, Tasks, Default
<1>2. CASE at # "answered" /\ at' = "answered" /\ ~req'.alone
  <2>1. Answers /\ req' = req /\ branch' = branch /\ hits' = hits
    BY <1>2, BecomesAnswered
  <2>2. Merge
    BY <1>2, <2>1 DEF Answers, ReturnAlone
  <2>3. PICK s \in Merges : answer' \in AtLeastMin(s)
    BY <2>2 DEF Merge
  <2>4. Used' = Used
    BY <2>1 DEF Used, Tasks, Default
  <2>5. ASSUME NEW j \in DOMAIN answer', NEW c \in Found,
               \A t \in In(answer'[j]) : c \in Range(hits[t]) /\ Rank(c, t) < Rank(answer'[j], t)
        PROVE  \E i \in 1 .. j - 1 : answer'[i] = c
    <3>1. ~req.alone
      BY <1>2, <2>1
    <3> QED BY <2>3, <2>5, <3>1, FusedInOrder
  <2> QED BY <2>1, <2>4, <2>5 DEF FusionRespectsLists, Found, In, Rank
<1>3. CASE ~(at' = "answered" /\ ~req'.alone)
  BY <1>3 DEF FusionRespectsLists
<1> QED BY <1>1, <1>2, <1>3

\* Whichever searches failed, and wherever top_k and min_score cut: a chunk
\* ahead of a hit in every list that hit is in is ahead of it in the answer of
\* unified_search.
THEOREM FusionRespects == Spec => []FusionRespectsLists
<1>1. Init => SearchInv /\ FusionRespectsLists
  BY InitSearchInv DEF Init, FusionRespectsLists
<1>2. SearchInv /\ FusionRespectsLists /\ [Next]_vars => SearchInv' /\ FusionRespectsLists'
  BY NextSearchInv, NextFusion
<1> QED BY <1>1, <1>2, PTL DEF Spec

=============================================================================
