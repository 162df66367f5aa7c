------------------------ MODULE DocumentRequests_proofs ------------------------
(***************************************************************************)
(* The requests on documents, for any number of requests, documents, users *)
(* and groups, with sagas that fail and calls that raise: types, what a    *)
(* user is shown, that a deleted document stays deleted, which updates can *)
(* be lost and that owners keep their documents.                           *)
(***************************************************************************)
EXTENDS DocumentRequests, SequenceTheorems, FiniteSetTheorems, TLAPS

ForOne(r) == op[r] \in {"get", "update", "delete"}

\* Where each kind of request can be, and what it has read by then.
ShapeOf(r) ==
    /\ at[r] = "idle" <=> op[r] = "none"
    /\ op[r] = "create" => at[r] \in {"saga", "sagaEnd", "grant", "send", "done"}
    /\ op[r] = "list" => at[r] \in {"acl", "page", "chunks", "done"}
    /\ op[r] = "get" => at[r] \in {"check", "read", "chunks", "done"}
    /\ op[r] = "update" =>
        at[r] \in {"check", "read", "version", "saga", "sagaEnd", "write", "chunks",
                   "send", "reread", "done"}
    /\ op[r] = "delete" => at[r] \in {"check", "read", "saga", "sagaEnd", "send", "done"}
    /\ at[r] = "idle" => docs[r] = {}
    /\ at[r] \in {"idle", "check", "read"} => seen[r] = NoRow
    /\ op[r] = "update" /\ at[r] \in {"version", "saga", "write"} => seen[r] # NoRow

Shape == \A r \in Requests : ShapeOf(r)

FullRows == [Fields -> Requests \union {Earlier}]
Tracked == \A d \in Docs : row[d] # NoRow => lastSet[d] \in FullRows

\* Every entry there is was noted.
Noted == acl \subseteq everHad

TypeInv == TypeOK /\ Shape /\ Tracked /\ Noted

-----------------------------------------------------------------------------
(* Types.                                                                  *)

LEMMA NewestFirst ==
  ASSUME NEW S, NEW s \in Seq(S), IsInjective(s), NEW x \in S, x \notin Range(s)
  PROVE  /\ <<x>> \o s \in Seq(S) /\ IsInjective(<<x>> \o s)
         /\ Range(<<x>> \o s) = Range(s) \union {x}
<1> DEFINE t == <<x>> \o s
<1>1. /\ t \in Seq(S) /\ Len(t) = 1 + Len(s)
      /\ \A i \in 1 .. 1 + Len(s) : t[i] = IF i <= 1 THEN <<x>>[i] ELSE s[i - 1]
  BY ConcatProperties
<1>2. /\ DOMAIN t = 1 .. 1 + Len(s) /\ DOMAIN s = 1 .. Len(s) /\ Len(s) \in Nat
  BY <1>1
<1>3. t[1] = x /\ \A i \in 1 .. Len(s) : t[i + 1] = s[i]
  BY <1>1, <1>2
<1>4. \A i \in 1 .. 1 + Len(s) : i = 1 \/ (i - 1 \in 1 .. Len(s) /\ t[i] = s[i - 1])
  BY <1>1, <1>2
<1>5. \A i \in 1 .. Len(s) : s[i] # x
  BY <1>2 DEF Range
<1> HIDE DEF t
<1>6. IsInjective(t)
  <2>1. SUFFICES ASSUME NEW i \in 1 .. 1 + Len(s), NEW j \in 1 .. 1 + Len(s), t[i] = t[j]
                 PROVE  i = j
    BY <1>2 DEF IsInjective
  <2>2. CASE i = 1 \/ j = 1
    BY <1>2, <1>3, <1>4, <1>5, <2>1, <2>2
  <2>3. CASE i # 1 /\ j # 1
    <3>1. i - 1 \in DOMAIN s /\ j - 1 \in DOMAIN s /\ s[i - 1] = s[j - 1]
      BY <1>2, <1>4, <2>1, <2>3
    <3>2. i - 1 = j - 1
      BY <3>1 DEF IsInjective
    <3> QED BY <1>2, <3>2
  <2> QED BY <2>2, <2>3
<1>7. Range(t) = Range(s) \union {x}
  <2>1. \A i \in DOMAIN t : t[i] \in Range(s) \union {x}
    BY <1>2, <1>3, <1>4 DEF Range
  <2>2. \A i \in DOMAIN s : i + 1 \in DOMAIN t /\ t[i + 1] = s[i]
    BY <1>2, <1>3
  <2>3. 1 \in DOMAIN t
    BY <1>2
  <2> QED BY <1>3, <2>1, <2>2, <2>3 DEF Range
<1> QED BY <1>1, <1>6, <1>7 DEF t

\* A table in some order: each of its rows is listed once.
LEMMA SomeOrder ==
  ASSUME NEW S, IsFiniteSet(S)
  PROVE  /\ SetToSeq(S) \in Seq(S) /\ IsInjective(SetToSeq(S))
         /\ Range(SetToSeq(S)) = S
<1> DEFINE n == Cardinality(S)
           f == SetToSeq(S)
<1>1. n \in Nat /\ ExistsBijection(1..n, S)
  BY FS_CardinalityType
<1>2. \E g \in [1..n -> S] : IsInjective(g)
  BY <1>1 DEF ExistsBijection, Bijection, Injection
<1>3. f \in [1..n -> S] /\ IsInjective(f)
  BY <1>2 DEF SetToSeq
<1>4. f \in Injection(1..n, S) /\ Cardinality(1..n) = n
  BY <1>1, <1>3, FS_Interval DEF Injection
<1>5. f \in Surjection(1..n, S)
  BY <1>4, FS_Injection
<1>6. Range(f) = S
  BY <1>3, <1>5 DEF Surjection, Range
<1>7. f \in Seq(S)
  BY <1>1, <1>3, SeqDef
<1> QED BY <1>3, <1>6, <1>7

LEMMA InitTypeInv == Init => TypeInv
<1> SUFFICES ASSUME Init PROVE TypeInv
  OBVIOUS
<1> USE RequestsAssumption
<1>1. \A d \in DOMAIN OwnerOf : d \in Docs /\ OwnerOf[d] \in Users
  OBVIOUS
<1>2. (CHOOSE u \in Users : TRUE) \in Users /\ (CHOOSE d \in Docs : TRUE) \in Docs
  OBVIOUS
<1>3. row \in [Docs -> Rows]
  BY DEF Init, Rows
<1>4. newest \in Seq(Docs) /\ IsInjective(newest)
  <2>1. newest \in Seq(DOMAIN OwnerOf) /\ IsInjective(newest)
    BY SomeOrder DEF Init
  <2> QED BY <2>1, SeqMonotonic
<1>5. acl \in SUBSET Entries
  <2>1. \A d \in DOMAIN OwnerOf : AdminEntry(d, OwnerOf[d]) \in Entries
    BY <1>1 DEF AdminEntry, Entries, Principals, Permissions
  <2> QED BY <2>1 DEF Init
<1>6. TypeOK
  BY <1>2, <1>3, <1>4, <1>5 DEF Init, TypeOK, Steps, Rows
<1>7. Shape
  BY DEF Init, Shape, ShapeOf
<1>8. Tracked
  BY DEF Init, Tracked, FullRows
<1>9. Noted
  BY DEF Init, Noted
<1> QED BY <1>6, <1>7, <1>8, <1>9 DEF TypeInv

Statuses == {0, 200, 201, 204, 400, 403, 404, 500}

LEMMA AnswerType ==
  ASSUME NEW r \in Requests, op[r] \in Operations, NEW result
  PROVE  Answer(r, result) \in Statuses
  BY DEF Operations, Answer, CreateAnswer, ListAnswer, GetAnswer, UpdateAnswer,
         DeleteAnswer, Statuses

\* Who awaits what.
LEMMA WhoIsAt ==
  ASSUME TypeInv, NEW r \in Requests
  PROVE  /\ at[r] \in Steps /\ op[r] \in Operations \union {"none"}
         /\ at[r] # "idle" => op[r] \in Operations
         /\ at[r] \in {"acl", "page"} => op[r] = "list"
         /\ at[r] \in {"check", "read"} => op[r] \in {"get", "update", "delete"}
         /\ at[r] \in {"version", "write", "reread"} => op[r] = "update"
         /\ at[r] \in {"saga", "sagaEnd", "send"} => op[r] \in {"create", "update", "delete"}
         /\ at[r] = "grant" => op[r] = "create"
         /\ at[r] = "chunks" => op[r] \in {"list", "get", "update"}
         /\ at[r] \in {"check", "read"} => seen[r] = NoRow
         /\ op[r] = "update" /\ at[r] \in {"version", "saga", "write"} => seen[r] # NoRow
<1>1. ShapeOf(r) /\ at[r] \in Steps /\ op[r] \in Operations \union {"none"}
  BY DEF TypeInv, Shape, TypeOK
<1> QED BY <1>1 DEF ShapeOf, Operations

\* What a step of a request leaves alone: what it was asked, the documents
\* there are, and the other requests.
OnlyOwn(r) ==
    /\ UNCHANGED <<newest, op, user, doc, asks>>
    /\ \E step \in Steps : at' = [at EXCEPT ![r] = step]
    /\ \E w \in Rows : seen' = [seen EXCEPT ![r] = w]
    /\ \E ds \in SUBSET Docs : docs' = [docs EXCEPT ![r] = ds]
    /\ \E x \in Statuses : answer' = [answer EXCEPT ![r] = x]

\* Leaving a field as it is.
LEMMA AsItWas ==
  ASSUME TypeOK, NEW r \in Requests
  PROVE  /\ \E step \in Steps : at = [at EXCEPT ![r] = step]
         /\ \E w \in Rows : seen = [seen EXCEPT ![r] = w]
         /\ \E ds \in SUBSET Docs : docs = [docs EXCEPT ![r] = ds]
         /\ \E x \in Statuses : answer = [answer EXCEPT ![r] = x]
<1>1. at[r] \in Steps /\ at = [at EXCEPT ![r] = at[r]]
  BY DEF TypeOK
<1>2. seen[r] \in Rows /\ seen = [seen EXCEPT ![r] = seen[r]]
  BY DEF TypeOK
<1>3. docs[r] \in SUBSET Docs /\ docs = [docs EXCEPT ![r] = docs[r]]
  BY DEF TypeOK
<1>4. answer[r] \in Statuses /\ answer = [answer EXCEPT ![r] = answer[r]]
  BY DEF TypeOK, Statuses
<1> QED BY <1>1, <1>2, <1>3, <1>4

LEMMA StepsOwn ==
  ASSUME TypeInv, NEW r \in Requests, RequestStep(r)
  PROVE  OnlyOwn(r)
<1>0. TypeOK /\ doc[r] \in Docs /\ docs[r] \in SUBSET Docs
  BY DEF TypeInv, TypeOK
<1>1. at[r] \notin {"idle", "done"}
  BY DEF RequestStep, Accessible, ListPage, Check, ReadRow, Version, Chunks, SagaWrites,
         SagaSucceeds, SagaFails, GrantOwner, WriteMetadata, Send, Reread, CallRaises
<1>2. op[r] \in Operations
  BY <1>1, WhoIsAt
<1>3. ASSUME NEW step \in Steps, GoTo(r, step), UNCHANGED docs
      PROVE  /\ \E p \in Steps : at' = [at EXCEPT ![r] = p]
             /\ \E ds \in SUBSET Docs : docs' = [docs EXCEPT ![r] = ds]
             /\ \E x \in Statuses : answer' = [answer EXCEPT ![r] = x]
  BY <1>0, <1>3, AsItWas DEF GoTo
<1>4. ASSUME NEW result, NEW ds \in SUBSET Docs, End(r, result, ds)
      PROVE  /\ \E p \in Steps : at' = [at EXCEPT ![r] = p]
             /\ \E x \in SUBSET Docs : docs' = [docs EXCEPT ![r] = x]
             /\ \E x \in Statuses : answer' = [answer EXCEPT ![r] = x]
  <2>1. "done" \in Steps
    BY DEF Steps
  <2> QED BY <1>2, <1>4, <2>1, AnswerType DEF End
<1>5. ASSUME UNCHANGED seen PROVE \E w \in Rows : seen' = [seen EXCEPT ![r] = w]
  BY <1>0, <1>5, AsItWas
<1>a. {} \in SUBSET Docs /\ {doc[r]} \in SUBSET Docs
  BY <1>0
<1>b. /\ "page" \in Steps /\ "chunks" \in Steps /\ "read" \in Steps /\ "version" \in Steps
      /\ "saga" \in Steps /\ "sagaEnd" \in Steps /\ "write" \in Steps /\ "grant" \in Steps
      /\ "send" \in Steps /\ "reread" \in Steps
  BY DEF Steps
<1>6. CASE Accessible(r)
  <2>1. AccessibleDocs(user[r]) \in SUBSET Docs
    BY <1>0 DEF AccessibleDocs, TypeOK, Entries
  <2>2. CASE AccessibleDocs(user[r]) = {}
    BY <1>4, <1>5, <1>6, <1>a, <2>2 DEF Accessible, OnlyOwn, tables
  <2>3. CASE AccessibleDocs(user[r]) # {}
    <3>1. GoTo(r, "page") /\ docs' = [docs EXCEPT ![r] = AccessibleDocs(user[r])]
      BY <1>6, <2>3 DEF Accessible
    <3>2. /\ at' = [at EXCEPT ![r] = "page"]
          /\ \E x \in Statuses : answer' = [answer EXCEPT ![r] = x]
      BY <1>0, <3>1, AsItWas DEF GoTo
    <3> QED BY <1>5, <1>6, <1>b, <2>1, <3>1, <3>2 DEF Accessible, OnlyOwn, tables
  <2> QED BY <2>2, <2>3
<1>7. CASE ListPage(r)
  <2>1. PICK offset \in Offsets : docs' = [docs EXCEPT ![r] = Page(offset, docs[r])]
    BY <1>7 DEF ListPage
  <2>2. Page(offset, docs[r]) \in SUBSET Docs
    <3>1. \A S, T : S \intersect T \subseteq T
      OBVIOUS
    <3>2. Page(offset, docs[r]) \subseteq docs[r]
      BY <3>1 DEF Page
    <3> QED BY <1>0, <3>2
  <2>3. /\ at' = [at EXCEPT ![r] = "chunks"]
        /\ \E x \in Statuses : answer' = [answer EXCEPT ![r] = x]
    BY <1>0, <1>7, AsItWas DEF GoTo, ListPage
  <2> QED BY <1>5, <1>7, <1>b, <2>1, <2>2, <2>3 DEF ListPage, OnlyOwn, tables
<1>8. CASE Check(r)
  BY <1>3, <1>4, <1>5, <1>8, <1>a, <1>b DEF Check, OnlyOwn, tables
<1>9. CASE ReadRow(r)
  <2>1. StoredRow(r) \in Rows
    BY <1>0 DEF StoredRow, TypeOK
  <2>2. \/ \E result : End(r, result, {})
        \/ \E step \in {"chunks", "saga", "version", "write"} : GoTo(r, step) /\ UNCHANGED docs
    <3>1. op[r] \in {"get", "update", "delete"}
      BY <1>9, WhoIsAt DEF ReadRow
    <3> QED BY <1>9, <3>1 DEF ReadRow
  <2>3. /\ UNCHANGED <<newest, op, user, doc, asks>>
        /\ seen' = [seen EXCEPT ![r] = StoredRow(r)]
    BY <1>9 DEF ReadRow, tables
  <2> QED BY <1>3, <1>4, <1>a, <1>b, <2>1, <2>2, <2>3 DEF OnlyOwn
<1>10. CASE Version(r) \/ SagaSucceeds(r)
  BY <1>3, <1>5, <1>10, <1>b DEF Version, SagaSucceeds, OnlyOwn, tables
<1>11. CASE Chunks(r)
  <2>1. \/ \E result : \E ds \in SUBSET Docs : End(r, result, ds)
        \/ GoTo(r, "send") /\ UNCHANGED docs
    BY <1>0, <1>11, <1>a DEF Chunks
  <2>2. UNCHANGED <<newest, op, user, doc, asks, seen>>
    BY <1>11 DEF Chunks, tables
  <2> QED BY <1>3, <1>4, <1>5, <1>b, <2>1, <2>2 DEF OnlyOwn
<1>12. CASE SagaWrites(r)
  BY <1>3, <1>4, <1>5, <1>12, <1>a, <1>b DEF SagaWrites, OnlyOwn
<1>13. CASE SagaFails(r)
  BY <1>4, <1>5, <1>13, <1>a DEF SagaFails, OnlyOwn
<1>14. CASE GrantOwner(r)
  BY <1>3, <1>5, <1>14, <1>b DEF GrantOwner, OnlyOwn
<1>15. CASE WriteMetadata(r)
  BY <1>3, <1>5, <1>15, <1>b DEF WriteMetadata, OnlyOwn
<1>16. CASE Send(r)
  <2>1. op[r] \in {"create", "update", "delete"}
    BY <1>16, WhoIsAt DEF Send
  <2>2. \/ \E result : \E ds \in SUBSET Docs : End(r, result, ds)
        \/ GoTo(r, "reread") /\ UNCHANGED docs
    BY <1>16, <1>a, <2>1 DEF Send
  <2>3. UNCHANGED <<newest, op, user, doc, asks, seen>>
    BY <1>16 DEF Send
  <2> QED BY <1>3, <1>4, <1>5, <1>b, <2>2, <2>3 DEF OnlyOwn
<1>17. CASE Reread(r)
  BY <1>4, <1>5, <1>17, <1>a DEF Reread, OnlyOwn, tables
<1>18. CASE CallRaises(r)
  BY <1>4, <1>5, <1>18, <1>a DEF CallRaises, OnlyOwn
<1> QED BY <1>6, <1>7, <1>8, <1>9, <1>10, <1>11, <1>12, <1>13, <1>14, <1>15, <1>16, <1>17,
           <1>18 DEF RequestStep

\* Where a step of a request can lead.
Leads(r) ==
    /\ at[r] \notin {"idle", "done"}
    /\ at'[r] \notin {"idle", "acl", "check"}
    /\ at'[r] = "page" => op[r] = "list"
    /\ at'[r] = "read" => at[r] = "check" /\ seen'[r] = seen[r]
    /\ at'[r] = "chunks" => \/ op[r] = "list"
                            \/ op[r] = "get" /\ at[r] = "read"
                            \/ op[r] = "update" /\ at[r] \in {"read", "write"}
    /\ at'[r] = "version" => op[r] = "update" /\ at[r] = "read"
    /\ at'[r] = "write" => op[r] = "update" /\ at[r] = "read"
    /\ at'[r] = "reread" => op[r] = "update" /\ at[r] = "send"
    /\ at'[r] = "saga" => \/ op[r] = "delete" /\ at[r] = "read"
                          \/ op[r] = "update" /\ at[r] = "version"
    /\ at'[r] = "sagaEnd" => op[r] \in {"create", "update", "delete"} /\ at[r] = "saga"
    /\ at'[r] = "grant" => op[r] = "create" /\ at[r] = "sagaEnd"
    /\ at'[r] = "send" => \/ op[r] = "create" /\ at[r] = "grant"
                          \/ op[r] = "delete" /\ at[r] = "sagaEnd"
                          \/ op[r] = "update" /\ at[r] \in {"sagaEnd", "chunks"}
    /\ at[r] # "read" => seen'[r] = seen[r]
    /\ at[r] = "read" => UNCHANGED <<tables, history>>
    /\ at[r] = "read" /\ at'[r] # "done" => seen'[r] = row[doc[r]] /\ row[doc[r]] # NoRow
    /\ at[r] = "read" => seen'[r] = row[doc[r]] \/ seen'[r] = NoRow

LEMMA StepLeads ==
  ASSUME TypeInv, NEW r \in Requests, RequestStep(r)
  PROVE  Leads(r)
<1> USE DEF Leads
<1>0. at \in [Requests -> Steps] /\ seen \in [Requests -> Rows]
  BY DEF TypeInv, TypeOK
<1>1. /\ \A step : GoTo(r, step) => at'[r] = step
      /\ \A result, ds : End(r, result, ds) => at'[r] = "done"
  BY <1>0 DEF GoTo, End
<1>2. UNCHANGED seen => seen'[r] = seen[r]
  OBVIOUS
<1>3. CASE Accessible(r)
  BY <1>1, <1>2, <1>3, WhoIsAt DEF Accessible
<1>4. CASE ListPage(r)
  BY <1>1, <1>2, <1>4, WhoIsAt DEF ListPage
<1>5. CASE Check(r)
  BY <1>1, <1>2, <1>5, WhoIsAt DEF Check
<1>6. CASE ReadRow(r)
  <2>0. at[r] = "read" /\ seen'[r] = StoredRow(r) /\ UNCHANGED <<tables, history>>
    BY <1>0, <1>6 DEF ReadRow
  <2>1. op[r] \in {"get", "update", "delete"}
    BY <2>0, WhoIsAt
  <2>2. \/ at'[r] = "done"
        \/ /\ StoredRow(r) # NoRow
           /\ \/ op[r] = "get" /\ at'[r] = "chunks"
              \/ op[r] = "delete" /\ at'[r] = "saga"
              \/ op[r] = "update" /\ at'[r] \in {"version", "chunks", "write"}
    BY <1>1, <1>6, <2>1 DEF ReadRow
  <2> QED BY <2>0, <2>2 DEF StoredRow
<1>7. CASE Version(r)
  BY <1>1, <1>2, <1>7, WhoIsAt DEF Version
<1>8. CASE Chunks(r)
  BY <1>1, <1>2, <1>8, WhoIsAt DEF Chunks
<1>9. CASE SagaWrites(r)
  BY <1>1, <1>2, <1>9, WhoIsAt DEF SagaWrites
<1>10. CASE SagaSucceeds(r)
  BY <1>1, <1>2, <1>10, WhoIsAt DEF SagaSucceeds
<1>11. CASE SagaFails(r)
  BY <1>1, <1>2, <1>11, WhoIsAt DEF SagaFails
<1>12. CASE GrantOwner(r)
  BY <1>1, <1>2, <1>12, WhoIsAt DEF GrantOwner
<1>13. CASE WriteMetadata(r)
  BY <1>1, <1>2, <1>13, WhoIsAt DEF WriteMetadata
<1>14. CASE Send(r)
  BY <1>1, <1>2, <1>14, WhoIsAt DEF Send
<1>15. CASE Reread(r)
  BY <1>1, <1>2, <1>15, WhoIsAt DEF Reread
<1>16. CASE CallRaises(r)
  <2>1. at[r] = "read" => UNCHANGED <<tables, history>> /\ seen[r] = NoRow
    BY <1>16, WhoIsAt DEF CallRaises, tables, history
  <2> QED BY <1>1, <1>2, <1>16, <2>1, WhoIsAt DEF CallRaises
<1> QED BY <1>3, <1>4, <1>5, <1>6, <1>7, <1>8, <1>9, <1>10, <1>11, <1>12, <1>13, <1>14,
           <1>15, <1>16 DEF RequestStep

-----------------------------------------------------------------------------
(* What the steps of a request do to the tables.                           *)

Updates(r) == op[r] = "update" /\ at[r] \in {"saga", "write"} /\ WriteUpdate(r)

Pending(r) == op[r] = "create" /\ at[r] = "saga"

Creates(r) == Pending(r) /\ WriteCreate(r)

Removes(r) ==
    /\ \/ op[r] = "delete" /\ at[r] = "saga"
       \/ op[r] = "create" /\ at[r] = "sagaEnd"
    /\ RemoveRow(doc[r])

Grants(r) ==
    /\ op[r] = "create" /\ at[r] = "grant"
    /\ row[doc[r]] # NoRow
    /\ Grant(doc[r], <<"user", user[r]>>, "admin")
    /\ NotesGrants
    /\ UNCHANGED <<row, lastSet>>

Quiet(r) == UNCHANGED <<row, acl, history>> /\ at'[r] # "sagaEnd"

LEMMA StepEffects ==
  ASSUME TypeInv, NEW r \in Requests, RequestStep(r)
  PROVE  Quiet(r) \/ Updates(r) \/ Creates(r) \/ Removes(r) \/ Grants(r)
<1>0. /\ at \in [Requests -> Steps]
      /\ \A step : GoTo(r, step) => at'[r] = step
      /\ \A result, ds : End(r, result, ds) => at'[r] = "done"
  BY DEF TypeInv, TypeOK, GoTo, End
<1>1. CASE Accessible(r) \/ ListPage(r) \/ Check(r) \/ ReadRow(r) \/ Version(r) \/ Chunks(r)
  <2>1. at[r] # "saga" /\ UNCHANGED <<row, acl, history>>
    BY <1>1 DEF Accessible, ListPage, Check, ReadRow, Version, Chunks, tables
  <2>2. Leads(r)
    BY StepLeads
  <2> QED BY <2>1, <2>2 DEF Quiet, Leads
<1>2. CASE SagaSucceeds(r) \/ Send(r) \/ Reread(r)
  <2>1. at[r] # "saga" /\ UNCHANGED <<row, acl, history>>
    BY <1>2 DEF SagaSucceeds, Send, Reread, tables
  <2>2. Leads(r)
    BY StepLeads
  <2> QED BY <2>1, <2>2 DEF Quiet, Leads
<1>3. CASE SagaWrites(r)
  <2>1. op[r] \in {"create", "update", "delete"} /\ at[r] = "saga"
    BY <1>3, WhoIsAt DEF SagaWrites
  <2> QED BY <1>0, <1>3, <2>1 DEF SagaWrites, Quiet, Updates, Creates, Removes, Pending
<1>4. CASE SagaFails(r)
  BY <1>0, <1>4 DEF SagaFails, Quiet, Removes
<1>5. CASE GrantOwner(r)
  <2>1. op[r] = "create" /\ at[r] = "grant"
    BY <1>5, WhoIsAt DEF GrantOwner
  <2>2. UNCHANGED acl => UNCHANGED everHad
    BY <1>5 DEF GrantOwner, NotesGrants, TypeInv, Noted
  <2> QED BY <1>0, <1>5, <2>1, <2>2 DEF GrantOwner, Grants, Quiet, history
<1>6. CASE WriteMetadata(r)
  <2>1. op[r] = "update" /\ at[r] = "write"
    BY <1>6, WhoIsAt DEF WriteMetadata
  <2> QED BY <1>6, <2>1 DEF WriteMetadata, Updates
<1>7. CASE CallRaises(r)
  <2>1. at[r] = "write" => op[r] = "update"
    BY WhoIsAt
  <2> QED BY <1>0, <1>7, <2>1 DEF CallRaises, Updates, Quiet
<1> QED BY <1>1, <1>2, <1>3, <1>4, <1>5, <1>6, <1>7 DEF RequestStep

\* Only Send sends.
LEMMA StepEvents ==
  ASSUME TypeInv, NEW r \in Requests, RequestStep(r)
  PROVE  \/ UNCHANGED events
         \/ /\ at[r] = "send" /\ op[r] \in {"create", "update", "delete"}
            /\ events' = events \union {<<Topic(op[r]), doc[r]>>}
<1>1. CASE Send(r)
  <2>1. at[r] = "send" /\ op[r] \in {"create", "update", "delete"}
    BY <1>1, WhoIsAt DEF Send
  <2> QED BY <1>1, <2>1 DEF Send, Sent
<1>2. CASE ~Send(r)
  BY <1>2 DEF RequestStep, Accessible, ListPage, Check, ReadRow, Version, Chunks, SagaWrites,
         SagaSucceeds, SagaFails, GrantOwner, WriteMetadata, Reread, CallRaises, tables
<1> QED BY <1>1, <1>2

\* A request in the middle of an update writes a row like the others.
LEMMA UpdatedRowType ==
  ASSUME TypeInv, NEW r \in Requests, op[r] = "update", at[r] \in {"saga", "write"},
         row[doc[r]] # NoRow
  PROVE  /\ UpdatedRow(r) \in FullRows
         /\ \A f \in Fields : UpdatedRow(r)[f] =
              IF f \in asks[r] THEN r
              ELSE IF "content" \in asks[r] THEN seen[r][f] ELSE row[doc[r]][f]
<1>1. seen[r] # NoRow
  BY WhoIsAt
<1>2. /\ seen[r] \in Rows /\ doc[r] \in Docs /\ row[doc[r]] \in Rows /\ asks[r] \in SUBSET Fields
  BY DEF TypeInv, TypeOK
<1>3. seen[r] \in FullRows /\ row[doc[r]] \in FullRows
  BY <1>1, <1>2 DEF Rows, FullRows
<1>4. UpdatedRow(r) = [f \in Fields |-> IF f \in asks[r] THEN r
              ELSE IF "content" \in asks[r] THEN seen[r][f] ELSE row[doc[r]][f]]
  BY DEF UpdatedRow
<1> QED BY <1>2, <1>3, <1>4 DEF FullRows

LEMMA StepTypes ==
  ASSUME TypeInv, NEW r \in Requests, RequestStep(r)
  PROVE  TypeInv'
<1>0. /\ TypeOK /\ doc[r] \in Docs /\ user[r] \in Users /\ row \in [Docs -> Rows]
      /\ lastSet \in [Docs -> Rows] /\ acl \in SUBSET Entries /\ everHad \in SUBSET Entries
      /\ acl \subseteq everHad /\ asks[r] \in SUBSET Fields
  BY DEF TypeInv, TypeOK, Noted
<1>1. OnlyOwn(r) /\ Leads(r)
  BY StepsOwn, StepLeads
<1>2. /\ row' \in [Docs -> Rows] /\ lastSet' \in [Docs -> Rows] /\ acl' \in SUBSET Entries
      /\ everHad' \in SUBSET Entries /\ acl' \subseteq everHad' /\ Tracked'
  <2>1. CASE Quiet(r)
    BY <1>0, <2>1 DEF Quiet, history, TypeInv, Tracked
  <2>2. CASE Updates(r)
    <3>1. CASE row[doc[r]] = NoRow
      <4>1. UpdatedRow(r) = NoRow
        BY <3>1 DEF UpdatedRow
      <4>2. row' = [row EXCEPT ![doc[r]] = NoRow] /\ lastSet' = [lastSet EXCEPT ![doc[r]] = NoRow]
        BY <2>2, <3>1, <4>1 DEF Updates, WriteUpdate
      <4>3. UNCHANGED <<acl, everHad>>
        BY <2>2 DEF Updates, WriteUpdate
      <4> QED BY <1>0, <4>2, <4>3 DEF TypeInv, Tracked, Rows
    <3>2. CASE row[doc[r]] # NoRow
      <4>1. UpdatedRow(r) \in FullRows
        BY <2>2, <3>2, UpdatedRowType DEF Updates
      <4>2. lastSet[doc[r]] \in FullRows
        BY <1>0, <3>2 DEF TypeInv, Tracked
      <4> DEFINE new == [f \in Fields |-> IF f \in asks[r] THEN r ELSE lastSet[doc[r]][f]]
      <4>3. new \in FullRows
        BY <4>2 DEF FullRows
      <4>4. row' = [row EXCEPT ![doc[r]] = UpdatedRow(r)] /\ lastSet' = [lastSet EXCEPT ![doc[r]] = new]
        BY <2>2, <3>2 DEF Updates, WriteUpdate
      <4>5. UNCHANGED <<acl, everHad>>
        BY <2>2 DEF Updates, WriteUpdate
      <4>6. FullRows \subseteq Rows
        BY DEF FullRows, Rows
      <4> HIDE DEF new
      <4> QED BY <1>0, <4>1, <4>3, <4>4, <4>5, <4>6 DEF TypeInv, Tracked
    <3> QED BY <3>1, <3>2
  <2>3. CASE Creates(r)
    <3> DEFINE new == [f \in Fields |-> r]
    <3>1. new \in FullRows /\ new \in Rows
      BY DEF FullRows, Rows
    <3>2. /\ row' = [row EXCEPT ![doc[r]] = new] /\ lastSet' = [lastSet EXCEPT ![doc[r]] = new]
          /\ UNCHANGED <<acl, everHad>>
      BY <2>3 DEF Creates, WriteCreate
    <3> HIDE DEF new
    <3> QED BY <1>0, <3>1, <3>2 DEF TypeInv, Tracked
  <2>4. CASE Removes(r)
    BY <1>0, <2>4 DEF Removes, RemoveRow, DropEntries, TypeInv, Tracked, Rows
  <2>5. CASE Grants(r)
    <3>1. AdminEntry(doc[r], user[r]) \in Entries
      BY <1>0 DEF AdminEntry, Entries, Principals, Permissions
    <3>2. acl' = acl \union {AdminEntry(doc[r], user[r])} /\ everHad' = everHad \union acl'
      BY <2>5 DEF Grants, Grant, NotesGrants, AdminEntry
    <3> QED BY <1>0, <2>5, <3>1, <3>2 DEF Grants, TypeInv, Tracked
  <2> QED BY <2>1, <2>2, <2>3, <2>4, <2>5, StepEffects
<1>3. events' \subseteq {"document.created", "document.updated", "document.deleted"} \X Docs
  <2>1. op[r] \in {"create", "update", "delete"} =>
          Topic(op[r]) \in {"document.created", "document.updated", "document.deleted"}
    BY DEF Topic
  <2> QED BY <1>0, <2>1, StepEvents DEF TypeOK
<1>4. TypeOK'
  <2>1. /\ newest' \in Seq(Docs) /\ IsInjective(newest')
        /\ op' \in [Requests -> Operations \union {"none"}]
        /\ user' \in [Requests -> Users] /\ doc' \in [Requests -> Docs]
        /\ asks' \in [Requests -> SUBSET Fields]
    <3>1. UNCHANGED <<newest, op, user, doc, asks>>
      BY <1>1 DEF OnlyOwn
    <3> QED BY <1>0, <3>1 DEF TypeOK
  <2>2. /\ at' \in [Requests -> Steps] /\ seen' \in [Requests -> Rows]
        /\ docs' \in [Requests -> SUBSET Docs] /\ answer' \in [Requests -> Statuses]
    BY <1>0, <1>1 DEF OnlyOwn, TypeOK, Statuses
  <2> QED BY <1>2, <1>3, <2>1, <2>2 DEF TypeOK, Statuses
<1>5. Shape'
  <2>1. SUFFICES ASSUME NEW s \in Requests PROVE ShapeOf(s)'
    BY DEF Shape
  <2>2. ShapeOf(s) /\ UNCHANGED op
    BY <1>1 DEF TypeInv, Shape, OnlyOwn
  <2>3. CASE s # r
    <3>1. at'[s] = at[s] /\ seen'[s] = seen[s] /\ docs'[s] = docs[s]
      BY <1>0, <1>1, <2>3 DEF OnlyOwn, TypeOK
    <3> QED BY <2>2, <3>1 DEF ShapeOf
  <2>4. CASE s = r
    <3>1. at'[r] \in Steps
      BY <1>4 DEF TypeOK
    <3>2. op'[r] = op[r]
      BY <2>2
    <3>3. Leads(r)
      BY <1>1
    <3> QED BY <2>2, <2>4, <3>1, <3>2, <3>3, SMTT(60) DEF ShapeOf, Leads, Steps
  <2> QED BY <2>3, <2>4
<1> QED BY <1>2, <1>4, <1>5 DEF TypeInv, Noted

\* A request that comes: what it is, and where it starts.
Starts(r, u) ==
    /\ at[r] = "idle"
    /\ \E o \in Operations, k \in Steps :
          /\ op' = [op EXCEPT ![r] = o] /\ at' = [at EXCEPT ![r] = k]
          /\ o = "create" => k \in {"saga", "done"}
          /\ o = "list" => k = "acl"
          /\ o \in {"get", "update", "delete"} => k = "check"
    /\ user' = [user EXCEPT ![r] = u]
    /\ \E d \in Docs : doc' = [doc EXCEPT ![r] = d]
    /\ \E fs \in SUBSET Fields : asks' = [asks EXCEPT ![r] = fs]
    /\ \E x \in Statuses : answer' = [answer EXCEPT ![r] = x]
    /\ UNCHANGED <<row, acl, events, seen, docs, history>>

AnyComes(r, u) ==
    \/ ComeBlank(r, u) \/ ComeList(r, u)
    \/ \E d \in Docs : \/ ComeCreate(r, u, d)
                      \/ \E o \in Operations : ComeForOne(r, o, u, d)

LEMMA ComesStart ==
  ASSUME TypeInv, NEW r \in Requests, NEW u \in Users, AnyComes(r, u)
  PROVE  Starts(r, u)
<1>0. /\ doc[r] \in Docs /\ doc = [doc EXCEPT ![r] = doc[r]]
      /\ asks[r] \in SUBSET Fields /\ asks = [asks EXCEPT ![r] = asks[r]]
      /\ answer[r] \in Statuses /\ answer = [answer EXCEPT ![r] = answer[r]]
  BY DEF TypeInv, TypeOK, Statuses
<1>1. /\ "create" \in Operations /\ "list" \in Operations /\ 400 \in Statuses
      /\ "saga" \in Steps /\ "done" \in Steps /\ "acl" \in Steps /\ "check" \in Steps
  BY DEF Operations, Steps, Statuses
<1>2. CASE ComeBlank(r, u)
  <2>1. CreateAnswer("ValueError") = 400
    BY DEF CreateAnswer
  <2>2. \E x \in Statuses : answer' = [answer EXCEPT ![r] = x]
    BY <1>1, <1>2, <2>1 DEF ComeBlank
  <2>3. doc' = doc /\ asks' = asks /\ Come(r, "create", u) /\ at' = [at EXCEPT ![r] = "done"]
    BY <1>2 DEF ComeBlank
  <2> QED BY <1>0, <1>1, <2>2, <2>3 DEF Come, Starts
<1>3. CASE ComeList(r, u)
  BY <1>0, <1>1, <1>3 DEF ComeList, Come, GoTo, Starts
<1>4. ASSUME NEW d \in Docs, ComeCreate(r, u, d) PROVE Starts(r, u)
  BY <1>0, <1>1, <1>4 DEF ComeCreate, Come, GoTo, Starts
<1>5. ASSUME NEW d \in Docs, NEW o \in Operations, ComeForOne(r, o, u, d) PROVE Starts(r, u)
  <2>1. \E fs \in SUBSET Fields : asks' = [asks EXCEPT ![r] = fs]
    BY <1>0, <1>5 DEF ComeForOne
  <2> QED BY <1>0, <1>1, <1>5, <2>1 DEF ComeForOne, Come, GoTo, Starts
<1> QED BY <1>2, <1>3, <1>4, <1>5 DEF AnyComes

\* What a request is about is drawn by then.
LEMMA ComesDraw ==
  ASSUME TypeInv, NEW r \in Requests, NEW u \in Users, AnyComes(r, u)
  PROVE  /\ newest' \in Seq(Docs) /\ IsInjective(newest')
         /\ Range(newest) \subseteq Range(newest')
         /\ \/ op'[r] = "list"
            \/ op'[r] = "create" /\ at'[r] = "done"
            \/ /\ op'[r] = "create" /\ at'[r] = "saga" /\ doc'[r] \notin Range(newest)
               /\ Range(newest') = Range(newest) \union {doc'[r]}
            \/ /\ op'[r] \in {"get", "update", "delete"} /\ at'[r] = "check"
               /\ doc'[r] \in Range(newest)
<1>0. /\ newest \in Seq(Docs) /\ IsInjective(newest)
      /\ at \in [Requests -> Steps] /\ op \in [Requests -> Operations \union {"none"}]
      /\ doc \in [Requests -> Docs]
  BY DEF TypeInv, TypeOK
<1>1. CASE ComeBlank(r, u)
  BY <1>0, <1>1 DEF ComeBlank, Come
<1>2. CASE ComeList(r, u)
  BY <1>0, <1>2 DEF ComeList, Come
<1>3. ASSUME NEW d \in Docs, ComeCreate(r, u, d)
      PROVE  /\ newest' \in Seq(Docs) /\ IsInjective(newest')
             /\ Range(newest') = Range(newest) \union {d}
             /\ op'[r] = "create" /\ at'[r] = "saga" /\ doc'[r] = d /\ d \notin Range(newest)
  BY <1>0, <1>3, NewestFirst DEF ComeCreate, Come, GoTo
<1>4. ASSUME NEW d \in Docs, NEW o \in Operations, ComeForOne(r, o, u, d)
      PROVE  /\ UNCHANGED newest /\ doc'[r] = d /\ d \in Range(newest) /\ at'[r] = "check"
             /\ op'[r] \in {"get", "update", "delete"}
  BY <1>0, <1>4 DEF ComeForOne, Come, GoTo
<1>5. CASE \E d \in Docs : ComeCreate(r, u, d)
  BY <1>3, <1>5
<1>6. CASE \E d \in Docs, o \in Operations : ComeForOne(r, o, u, d)
  BY <1>0, <1>4, <1>6
<1> QED BY <1>1, <1>2, <1>5, <1>6 DEF AnyComes

LEMMA ComeTypes ==
  ASSUME TypeInv, NEW r \in Requests, NEW u \in Users, AnyComes(r, u)
  PROVE  TypeInv'
<1>0. TypeOK /\ Shape
  BY DEF TypeInv
<1>1. Starts(r, u)
  BY ComesStart
<1>2. TypeOK'
  <2>1. newest' \in Seq(Docs) /\ IsInjective(newest')
    BY ComesDraw
  <2>2. UNCHANGED <<row, acl, events, seen, docs, lastSet, everHad>>
    BY <1>1 DEF Starts, history
  <2>3. /\ at' \in [Requests -> Steps] /\ op' \in [Requests -> Operations \union {"none"}]
        /\ user' \in [Requests -> Users] /\ doc' \in [Requests -> Docs]
        /\ asks' \in [Requests -> SUBSET Fields] /\ answer' \in [Requests -> Statuses]
    BY <1>0, <1>1 DEF Starts, TypeOK, Statuses
  <2> QED BY <1>0, <2>1, <2>2, <2>3 DEF TypeOK, Statuses
<1>3. Shape'
  <2>1. SUFFICES ASSUME NEW s \in Requests PROVE ShapeOf(s)'
    BY DEF Shape
  <2>2. ShapeOf(s) /\ ShapeOf(r) /\ docs'[s] = docs[s] /\ seen'[s] = seen[s]
    BY <1>0, <1>1 DEF Shape, Starts
  <2>3. CASE s # r
    <3>1. at'[s] = at[s] /\ op'[s] = op[s]
      BY <1>0, <1>1, <2>3 DEF Starts, TypeOK
    <3> QED BY <2>2, <3>1 DEF ShapeOf
  <2>4. CASE s = r
    <3>1. seen[r] = NoRow /\ docs[r] = {}
      BY <1>1, <2>2 DEF ShapeOf, Starts
    <3>2. /\ op'[r] \in Operations
          /\ op'[r] = "create" => at'[r] \in {"saga", "done"}
          /\ op'[r] = "list" => at'[r] = "acl"
          /\ op'[r] \in {"get", "update", "delete"} => at'[r] = "check"
      BY <1>0, <1>1 DEF Starts, TypeOK
    <3> QED BY <2>2, <2>4, <3>1, <3>2 DEF ShapeOf, Operations
  <2> QED BY <2>3, <2>4
<1>4. Tracked' /\ Noted'
  BY <1>1 DEF Starts, history, TypeInv, Tracked, Noted
<1> QED BY <1>2, <1>3, <1>4 DEF TypeInv

LEMMA OthersTypes ==
  ASSUME TypeInv,
         \/ UNCHANGED vars
         \/ \E d \in Docs, principal \in Principals, p \in Permissions : GrantAccess(d, principal, p)
         \/ \E d \in Docs, principal \in Principals : RevokeAccess(d, principal)
  PROVE  /\ TypeInv'
         /\ UNCHANGED <<row, newest, events, request, lastSet>>
<1>1. UNCHANGED <<row, newest, events, request, lastSet>>
  BY DEF vars, tables, history, GrantAccess, RevokeAccess
<1>2. acl' \in SUBSET Entries /\ everHad' \in SUBSET Entries /\ acl' \subseteq everHad'
  <2>1. acl \in SUBSET Entries /\ everHad \in SUBSET Entries /\ acl \subseteq everHad
    BY DEF TypeInv, TypeOK, Noted
  <2>2. CASE UNCHANGED vars
    BY <2>1, <2>2 DEF vars, tables, history
  <2>3. ASSUME NEW d \in Docs, NEW principal \in Principals, NEW p \in Permissions,
               GrantAccess(d, principal, p)
        PROVE  acl' \in SUBSET Entries /\ everHad' \in SUBSET Entries /\ acl' \subseteq everHad'
    <3>1. [doc |-> d, principal |-> principal, permission |-> p] \in Entries
      BY DEF Entries
    <3> QED BY <2>1, <2>3, <3>1 DEF GrantAccess, Grant, NotesGrants
  <2>4. ASSUME NEW d \in Docs, NEW principal \in Principals, RevokeAccess(d, principal)
        PROVE  acl' \in SUBSET Entries /\ everHad' \in SUBSET Entries /\ acl' \subseteq everHad'
    BY <2>1, <2>4 DEF RevokeAccess, Revoke, history
  <2> QED BY <2>2, <2>3, <2>4
<1>3. TypeOK'
  BY <1>1, <1>2 DEF TypeInv, TypeOK, request
<1>4. Shape' /\ Tracked' /\ Noted'
  BY <1>1, <1>2 DEF TypeInv, Shape, ShapeOf, Tracked, Noted, request
<1> QED BY <1>1, <1>3, <1>4 DEF TypeInv

LEMMA NextTypeInv == TypeInv /\ [Next]_vars => TypeInv'
<1> SUFFICES ASSUME TypeInv, [Next]_vars PROVE TypeInv'
  OBVIOUS
<1>1. CASE \E r \in Requests, u \in Users : AnyComes(r, u)
  BY <1>1, ComeTypes
<1>2. CASE \E r \in Requests : RequestStep(r)
  BY <1>2, StepTypes
<1> QED BY <1>1, <1>2, OthersTypes DEF Next, AnyComes

\* Types are kept, whatever requests come, fail or raise.
THEOREM TypeCorrect == Spec => []TypeOK
<1>1. TypeInv => TypeOK
  BY DEF TypeInv
<1> QED BY <1>1, InitTypeInv, NextTypeInv, PTL DEF Spec

-----------------------------------------------------------------------------
(* A deleted document stays deleted.                                       *)

\* Nothing is about a document before it is drawn.
Drawn == Range(newest)
DrawnInv ==
    /\ \A d \in Docs : row[d] # NoRow => d \in Drawn
    /\ \A e \in everHad : e.doc \in Drawn
    /\ \A r \in Requests : ForOne(r) \/ Pending(r) => doc[r] \in Drawn

\* Before it is written a new document has no row and no entries; requests on
\* it do not come past reading the row.
PendingInv == \A s \in Requests : Pending(s) =>
    /\ row[doc[s]] = NoRow
    /\ \A e \in everHad : e.doc # doc[s]
    /\ \A r \in Requests : doc[r] = doc[s] =>
        /\ ForOne(r) => at[r] \in {"check", "read", "done"}
        /\ Pending(r) => r = s

\* A document whose deletion has been written.
Deleted(d) ==
    \/ <<"document.deleted", d>> \in events
    \/ \E r \in Requests : op[r] = "delete" /\ doc[r] = d /\ at[r] \in {"sagaEnd", "send"}

DeletedInv == \A d \in Docs : Deleted(d) =>
    row[d] = NoRow /\ d \in Drawn /\ \A s \in Requests : Pending(s) => doc[s] # d

\* The foreign key of the ACL entries.
EntriesHaveRows == \A e \in acl : row[e.doc] # NoRow

RowsInv == DrawnInv /\ PendingInv /\ DeletedInv /\ EntriesHaveRows

\* What a step of a request does to the others, and to itself.
LEMMA OtherRequests ==
  ASSUME TypeInv, NEW r \in Requests, RequestStep(r)
  PROVE  /\ UNCHANGED <<newest, op, user, doc, asks>>
         /\ \A s \in Requests : s # r =>
              at'[s] = at[s] /\ seen'[s] = seen[s] /\ docs'[s] = docs[s]
         /\ Leads(r)
         /\ \A s \in Requests : Pending(s)' => Pending(s) /\ s # r
         /\ \A s \in Requests : ForOne(s)' <=> ForOne(s)
<1>1. OnlyOwn(r) /\ Leads(r)
  BY StepsOwn, StepLeads
<1>2. UNCHANGED <<newest, op, user, doc, asks>>
  BY <1>1 DEF OnlyOwn
<1>3. \A s \in Requests : s # r =>
        at'[s] = at[s] /\ seen'[s] = seen[s] /\ docs'[s] = docs[s]
  BY <1>1 DEF OnlyOwn, TypeInv, TypeOK
<1>4. ASSUME NEW s \in Requests, Pending(s)' PROVE Pending(s) /\ s # r
  <2>1. op[s] = "create" /\ at'[s] = "saga"
    BY <1>2, <1>4 DEF Pending
  <2>2. s # r
    BY <1>1, <2>1 DEF Leads
  <2> QED BY <1>3, <2>1, <2>2 DEF Pending
<1> QED BY <1>1, <1>2, <1>3, <1>4 DEF ForOne

\* Which rows and entries a step of a request adds and removes.
LEMMA RowsAfter ==
  ASSUME TypeInv, NEW r \in Requests, RequestStep(r)
  PROVE  /\ \A d \in Docs : row'[d] # NoRow => row[d] # NoRow \/ (d = doc[r] /\ Creates(r))
         /\ \A d \in Docs : row'[d] = NoRow /\ row[d] # NoRow =>
              \A e \in acl' : e.doc # d
         /\ \A e \in everHad' : e \in everHad \/ (e.doc = doc[r] /\ Grants(r))
         /\ \A e \in acl' : e \in acl \/ (e.doc = doc[r] /\ Grants(r))
<1>0. /\ doc[r] \in Docs /\ row \in [Docs -> Rows] /\ acl \subseteq everHad
  BY DEF TypeInv, TypeOK, Noted
<1>1. CASE Quiet(r)
  BY <1>1 DEF Quiet, history
<1>2. CASE Updates(r)
  <2>1. /\ row' = [row EXCEPT ![doc[r]] = UpdatedRow(r)] /\ UNCHANGED <<acl, everHad>>
        /\ op[r] = "update" /\ at[r] \in {"saga", "write"}
    BY <1>2 DEF Updates, WriteUpdate
  <2>2. row[doc[r]] = NoRow => UpdatedRow(r) = NoRow
    BY DEF UpdatedRow
  <2>3. row[doc[r]] # NoRow => UpdatedRow(r) # NoRow
    <3>1. SUFFICES ASSUME row[doc[r]] # NoRow PROVE UpdatedRow(r) # NoRow
      OBVIOUS
    <3>2. UpdatedRow(r) \in FullRows
      BY <2>1, <3>1, UpdatedRowType
    <3> QED BY <3>2, RequestsAssumption DEF FullRows
  <2> QED BY <1>0, <2>1, <2>2, <2>3
<1>3. CASE Creates(r)
  <2> DEFINE new == [f \in Fields |-> r]
  <2>1. row' = [row EXCEPT ![doc[r]] = new] /\ UNCHANGED <<acl, everHad>>
    BY <1>3 DEF Creates, WriteCreate
  <2>2. new # NoRow
    <3>1. new \in FullRows
      BY DEF FullRows
    <3> QED BY <3>1, RequestsAssumption DEF FullRows
  <2> HIDE DEF new
  <2> QED BY <1>0, <1>3, <2>1, <2>2
<1>4. CASE Removes(r)
  BY <1>0, <1>4 DEF Removes, RemoveRow, DropEntries
<1>5. CASE Grants(r)
  BY <1>0, <1>5 DEF Grants, Grant, NotesGrants
<1> QED BY <1>1, <1>2, <1>3, <1>4, <1>5, StepEffects

LEMMA InitRows == Init => RowsInv
<1> SUFFICES ASSUME Init PROVE RowsInv
  OBVIOUS
<1>1. Drawn = DOMAIN OwnerOf
  BY SomeOrder, RequestsAssumption DEF Init, Drawn
<1>2. \A d \in Docs : row[d] # NoRow => d \in DOMAIN OwnerOf
  BY DEF Init
<1>3. \A e \in acl : e.doc \in DOMAIN OwnerOf
  BY DEF Init, AdminEntry
<1>4. \A r \in Requests : at[r] = "idle" /\ op[r] = "none"
  BY DEF Init
<1>5. DrawnInv
  BY <1>1, <1>2, <1>3, <1>4 DEF DrawnInv, Init, ForOne, Pending
<1>6. PendingInv /\ DeletedInv
  BY <1>4 DEF PendingInv, Pending, DeletedInv, Deleted, Init
<1>7. EntriesHaveRows
  <2>1. \A d \in DOMAIN OwnerOf : d \in Docs /\ row[d] = [f \in Fields |-> Earlier]
    BY RequestsAssumption DEF Init
  <2>2. [f \in Fields |-> Earlier] \in FullRows
    BY DEF FullRows
  <2>3. \A d \in DOMAIN OwnerOf : row[d] # NoRow
    BY <2>1, <2>2, RequestsAssumption DEF FullRows
  <2> QED BY <1>3, <2>3 DEF EntriesHaveRows
<1> QED BY <1>5, <1>6, <1>7 DEF RowsInv

LEMMA StepRows ==
  ASSUME TypeInv, RowsInv, NEW r \in Requests, RequestStep(r)
  PROVE  RowsInv'
<1>0. /\ DrawnInv /\ PendingInv /\ DeletedInv /\ EntriesHaveRows
      /\ doc \in [Requests -> Docs] /\ row \in [Docs -> Rows] /\ everHad \in SUBSET Entries
      /\ acl \in SUBSET Entries
  BY DEF RowsInv, TypeInv, TypeOK
<1>1. /\ UNCHANGED <<newest, op, user, doc, asks>>
      /\ \A s \in Requests : s # r => at'[s] = at[s]
      /\ Leads(r)
      /\ \A s \in Requests : Pending(s)' => Pending(s) /\ s # r
      /\ \A s \in Requests : ForOne(s)' <=> ForOne(s)
  BY OtherRequests
<1>2. /\ \A d \in Docs : row'[d] # NoRow => row[d] # NoRow \/ (d = doc[r] /\ Creates(r))
      /\ \A d \in Docs : row'[d] = NoRow /\ row[d] # NoRow =>
           \A e \in acl' : e.doc # d
      /\ \A e \in everHad' : e \in everHad \/ (e.doc = doc[r] /\ Grants(r))
      /\ \A e \in acl' : e \in acl \/ (e.doc = doc[r] /\ Grants(r))
  BY RowsAfter
<1>3. Grants(r) => row[doc[r]] # NoRow
  BY DEF Grants
<1>4. Creates(r) => Pending(r)
  BY DEF Creates
<1>5. DrawnInv'
  <2>1. Drawn' = Drawn
    BY <1>1 DEF Drawn
  <2>2. \A d \in Docs : row'[d] # NoRow => d \in Drawn
    BY <1>0, <1>2, <1>4 DEF DrawnInv
  <2>3. \A e \in everHad' : e.doc \in Drawn
    BY <1>0, <1>2, <1>3 DEF DrawnInv
  <2>4. \A s \in Requests : ForOne(s)' \/ Pending(s)' => doc'[s] \in Drawn
    BY <1>0, <1>1 DEF DrawnInv
  <2> QED BY <2>1, <2>2, <2>3, <2>4 DEF DrawnInv
<1>6. PendingInv'
  <2>1. SUFFICES ASSUME NEW s \in Requests, Pending(s)'
                 PROVE  /\ row'[doc[s]] = NoRow
                        /\ \A e \in everHad' : e.doc # doc[s]
                        /\ \A q \in Requests : doc[q] = doc[s] =>
                             /\ ForOne(q)' => at'[q] \in {"check", "read", "done"}
                             /\ Pending(q)' => q = s
    BY <1>1 DEF PendingInv
  <2>2. Pending(s) /\ s # r
    BY <1>1, <2>1
  <2>3. /\ row[doc[s]] = NoRow /\ \A e \in everHad : e.doc # doc[s]
        /\ \A q \in Requests : doc[q] = doc[s] =>
             /\ ForOne(q) => at[q] \in {"check", "read", "done"}
             /\ Pending(q) => q = s
    BY <1>0, <2>2 DEF PendingInv
  <2>4. row'[doc[s]] = NoRow
    BY <1>0, <1>2, <1>4, <2>2, <2>3
  <2>5. \A e \in everHad' : e.doc # doc[s]
    BY <1>2, <1>3, <2>3
  <2>6. ASSUME NEW q \in Requests, doc[q] = doc[s], ForOne(q)
        PROVE  at'[q] \in {"check", "read", "done"}
    <3>1. at[q] \in {"check", "read", "done"}
      BY <2>3, <2>6
    <3>2. CASE q # r
      BY <1>1, <3>1, <3>2
    <3>3. CASE q = r
      <4>1. op[r] \in {"get", "update", "delete"}
        BY <2>6, <3>3 DEF ForOne
      <4>2. at[r] = "read" => at'[r] = "done"
        BY <1>1, <2>3, <2>6, <3>3 DEF Leads
      <4>3. at'[r] \in Steps /\ at[r] # "done"
        <5>1. TypeInv'
          BY StepTypes
        <5> QED BY <1>1, <5>1 DEF TypeInv, TypeOK, Leads
      <4>4. at[r] = "check" => at'[r] \in {"read", "done"}
        BY <1>1, <4>1, <4>3 DEF Leads, Steps
      <4> QED BY <3>1, <3>3, <4>2, <4>3, <4>4
    <3> QED BY <3>2, <3>3
  <2> QED BY <1>1, <2>3, <2>4, <2>5, <2>6
<1>7. DeletedInv'
  <2>1. SUFFICES ASSUME NEW d \in Docs, Deleted(d)'
                 PROVE  row'[d] = NoRow /\ d \in Drawn /\ \A s \in Requests : Pending(s)' => doc[s] # d
    BY <1>1 DEF DeletedInv, Drawn
  <2>2. CASE Deleted(d)
    <3>1. row[d] = NoRow /\ d \in Drawn /\ \A s \in Requests : Pending(s) => doc[s] # d
      BY <1>0, <2>2 DEF DeletedInv
    <3> QED BY <1>1, <1>2, <1>4, <3>1
  <2>3. CASE ~Deleted(d)
    <3>1. op[r] = "delete" /\ doc[r] = d /\ at[r] = "saga" /\ at'[r] = "sagaEnd"
      <4>1. /\ <<"document.deleted", d>> \notin events
            /\ \A q \in Requests : ~(op[q] = "delete" /\ doc[q] = d /\ at[q] \in {"sagaEnd", "send"})
        BY <2>3 DEF Deleted
      <4>2. <<"document.deleted", d>> \notin events'
        <5>1. SUFFICES ASSUME <<"document.deleted", d>> \in events' PROVE FALSE
          OBVIOUS
        <5>2. /\ at[r] = "send" /\ op[r] \in {"create", "update", "delete"}
              /\ <<Topic(op[r]), doc[r]>> = <<"document.deleted", d>>
          BY <4>1, <5>1, StepEvents
        <5>3. Topic(op[r]) = "document.deleted" /\ doc[r] = d
          BY <5>2
        <5>4. op[r] = "delete"
          BY <5>2, <5>3 DEF Topic
        <5> QED BY <4>1, <5>2, <5>3, <5>4
      <4>3. PICK q \in Requests : op[q] = "delete" /\ doc[q] = d /\ at'[q] \in {"sagaEnd", "send"}
        BY <1>1, <2>1, <4>2 DEF Deleted
      <4>4. q = r
        BY <1>1, <4>1, <4>3
      <4> QED BY <1>1, <4>1, <4>3, <4>4 DEF Leads
    <3>2. ~Quiet(r) /\ ~Updates(r) /\ ~Creates(r) /\ ~Grants(r)
      BY <3>1 DEF Quiet, Updates, Creates, Pending, Grants
    <3>3. Removes(r)
      BY <3>2, StepEffects
    <3>4. row'[d] = NoRow
      BY <1>0, <3>1, <3>3 DEF Removes, RemoveRow
    <3>5. d \in Drawn
      BY <1>0, <3>1 DEF DrawnInv, ForOne
    <3>6. \A s \in Requests : Pending(s) => doc[s] # d
      <4>1. SUFFICES ASSUME NEW s \in Requests, Pending(s), doc[s] = d PROVE FALSE
        OBVIOUS
      <4>2. ForOne(r) => at[r] \in {"check", "read", "done"}
        BY <1>0, <3>1, <4>1 DEF PendingInv
      <4> QED BY <3>1, <4>2 DEF ForOne
    <3> QED BY <1>1, <3>4, <3>5, <3>6
  <2> QED BY <2>2, <2>3
<1>8. EntriesHaveRows'
  <2>1. SUFFICES ASSUME NEW e \in acl' PROVE row'[e.doc] # NoRow
    BY DEF EntriesHaveRows
  <2>2. row[e.doc] # NoRow /\ e.doc \in Docs
    BY <1>0, <1>2, <1>3 DEF EntriesHaveRows, Entries
  <2> QED BY <1>2, <2>1, <2>2
<1> QED BY <1>5, <1>6, <1>7, <1>8 DEF RowsInv

LEMMA ComeRows ==
  ASSUME TypeInv, RowsInv, NEW r \in Requests, NEW u \in Users, AnyComes(r, u)
  PROVE  RowsInv'
<1>0. /\ DrawnInv /\ PendingInv /\ DeletedInv /\ EntriesHaveRows
      /\ at \in [Requests -> Steps] /\ op \in [Requests -> Operations \union {"none"}]
      /\ doc \in [Requests -> Docs]
  BY DEF RowsInv, TypeInv, TypeOK
<1>1. /\ UNCHANGED <<row, acl, events, everHad>>
      /\ \A s \in Requests : s # r => at'[s] = at[s] /\ op'[s] = op[s] /\ doc'[s] = doc[s]
  BY <1>0, ComesStart DEF Starts, history
<1>2. /\ \A s \in Requests : s # r => (Pending(s)' <=> Pending(s)) /\ (ForOne(s)' <=> ForOne(s))
  BY <1>1 DEF Pending, ForOne
<1>3. /\ Drawn \subseteq Drawn'
      /\ Pending(r)' => doc'[r] \notin Drawn /\ doc'[r] \in Drawn'
      /\ ForOne(r)' => doc'[r] \in Drawn /\ at'[r] = "check"
      /\ ~(op'[r] = "delete" /\ at'[r] \in {"sagaEnd", "send"})
  BY ComesDraw DEF Drawn, Pending, ForOne
<1>4. DrawnInv'
  BY <1>0, <1>1, <1>2, <1>3 DEF DrawnInv
<1>5. PendingInv'
  <2>1. SUFFICES ASSUME NEW s \in Requests, Pending(s)'
                 PROVE  /\ row'[doc'[s]] = NoRow
                        /\ \A e \in everHad' : e.doc # doc'[s]
                        /\ \A q \in Requests : doc'[q] = doc'[s] =>
                             /\ ForOne(q)' => at'[q] \in {"check", "read", "done"}
                             /\ Pending(q)' => q = s
    BY DEF PendingInv
  <2>2. CASE s # r
    <3>1. Pending(s) /\ doc'[s] = doc[s] /\ doc[s] \in Drawn
      BY <1>0, <1>1, <1>2, <2>1, <2>2 DEF DrawnInv
    <3>2. /\ row[doc[s]] = NoRow /\ \A e \in everHad : e.doc # doc[s]
          /\ \A q \in Requests : doc[q] = doc[s] =>
               /\ ForOne(q) => at[q] \in {"check", "read", "done"}
               /\ Pending(q) => q = s
      BY <1>0, <3>1 DEF PendingInv
    <3>3. ASSUME NEW q \in Requests, doc'[q] = doc'[s]
          PROVE  /\ ForOne(q)' => at'[q] \in {"check", "read", "done"}
                 /\ Pending(q)' => q = s
      BY <1>1, <1>2, <1>3, <3>1, <3>2, <3>3
    <3> QED BY <1>1, <3>1, <3>2, <3>3
  <2>3. CASE s = r
    <3>1. doc'[r] \notin Drawn
      BY <1>3, <2>1, <2>3
    <3>2. \A e \in everHad : e.doc # doc'[r]
      BY <1>0, <3>1 DEF DrawnInv
    <3>3. row[doc'[r]] = NoRow
      <4>1. doc'[r] \in Docs
        <5>1. TypeInv'
          BY ComeTypes
        <5> QED BY <5>1 DEF TypeInv, TypeOK
      <4> QED BY <1>0, <3>1, <4>1 DEF DrawnInv
    <3>4. \A q \in Requests : q # r /\ doc'[q] = doc'[r] => ~ForOne(q)' /\ ~Pending(q)'
      BY <1>0, <1>1, <1>2, <3>1 DEF DrawnInv
    <3>5. ~ForOne(r)'
      BY <2>1, <2>3 DEF ForOne, Pending
    <3> QED BY <1>1, <2>3, <3>2, <3>3, <3>4, <3>5
  <2> QED BY <2>2, <2>3
<1>6. DeletedInv'
  <2>1. SUFFICES ASSUME NEW d \in Docs, Deleted(d)'
                 PROVE  row'[d] = NoRow /\ d \in Drawn' /\ \A s \in Requests : Pending(s)' => doc'[s] # d
    BY DEF DeletedInv
  <2>2. Deleted(d)
    BY <1>1, <1>3, <2>1 DEF Deleted
  <2>3. row[d] = NoRow /\ d \in Drawn /\ \A s \in Requests : Pending(s) => doc[s] # d
    BY <1>0, <2>2 DEF DeletedInv
  <2> QED BY <1>1, <1>2, <1>3, <2>3
<1>7. EntriesHaveRows'
  BY <1>0, <1>1 DEF EntriesHaveRows
<1> QED BY <1>4, <1>5, <1>6, <1>7 DEF RowsInv

\* Who is granted and revoked access from outside, and what comes of it.
GrantsOrRevokes ==
    \/ \E d \in Docs, principal \in Principals, p \in Permissions : GrantAccess(d, principal, p)
    \/ \E d \in Docs, principal \in Principals : RevokeAccess(d, principal)

LEMMA OthersRows ==
  ASSUME TypeInv, RowsInv, UNCHANGED vars \/ GrantsOrRevokes
  PROVE  RowsInv'
<1>1. UNCHANGED <<row, newest, events, request, lastSet>>
  BY OthersTypes DEF GrantsOrRevokes
<1>2. /\ \A e \in acl' : e \in acl \/ row[e.doc] # NoRow
      /\ \A e \in everHad' : e \in everHad \/ (e.doc \in Docs /\ row[e.doc] # NoRow)
  <2>0. acl \subseteq everHad
    BY DEF TypeInv, Noted
  <2>1. CASE UNCHANGED vars
    BY <2>1 DEF vars, tables, history
  <2>2. ASSUME NEW d \in Docs, NEW principal \in Principals, NEW p \in Permissions,
               GrantAccess(d, principal, p)
        PROVE  /\ \A e \in acl' : e \in acl \/ row[e.doc] # NoRow
               /\ \A e \in everHad' : e \in everHad \/ (e.doc \in Docs /\ row[e.doc] # NoRow)
    BY <2>0, <2>2 DEF GrantAccess, Grant, NotesGrants
  <2>3. ASSUME NEW d \in Docs, NEW principal \in Principals, RevokeAccess(d, principal)
        PROVE  acl' \subseteq acl /\ everHad' = everHad
    BY <2>3 DEF RevokeAccess, Revoke, history
  <2> QED BY <2>1, <2>2, <2>3 DEF GrantsOrRevokes
<1>3. /\ DrawnInv /\ PendingInv /\ DeletedInv /\ EntriesHaveRows
      /\ doc \in [Requests -> Docs]
  BY DEF RowsInv, TypeInv, TypeOK
<1>4. /\ UNCHANGED <<at, op, doc>> /\ Drawn' = Drawn
      /\ \A s \in Requests : (Pending(s)' <=> Pending(s)) /\ (ForOne(s)' <=> ForOne(s))
      /\ \A d \in Docs : Deleted(d)' <=> Deleted(d)
  BY <1>1 DEF request, Drawn, Pending, ForOne, Deleted
<1>5. DrawnInv'
  BY <1>1, <1>2, <1>3, <1>4 DEF DrawnInv
<1>6. PendingInv'
  <2>1. SUFFICES ASSUME NEW s \in Requests, Pending(s)
                 PROVE  /\ row'[doc[s]] = NoRow
                        /\ \A e \in everHad' : e.doc # doc[s]
                        /\ \A q \in Requests : doc[q] = doc[s] =>
                             /\ ForOne(q) => at[q] \in {"check", "read", "done"}
                             /\ Pending(q) => q = s
    BY <1>4 DEF PendingInv
  <2> QED BY <1>1, <1>2, <1>3, <2>1 DEF PendingInv
<1>7. DeletedInv'
  BY <1>1, <1>3, <1>4 DEF DeletedInv
<1>8. EntriesHaveRows'
  BY <1>1, <1>2, <1>3 DEF EntriesHaveRows
<1> QED BY <1>5, <1>6, <1>7, <1>8 DEF RowsInv

\* A step is one of these.
LEMMA StepKinds ==
  ASSUME [Next]_vars
  PROVE  \/ \E r \in Requests, u \in Users : AnyComes(r, u)
         \/ \E r \in Requests : RequestStep(r)
         \/ UNCHANGED vars \/ GrantsOrRevokes
  BY DEF Next, AnyComes, GrantsOrRevokes

LEMMA NextRows == TypeInv /\ RowsInv /\ [Next]_vars => RowsInv'
  BY StepKinds, ComeRows, StepRows, OthersRows

\* Once document.deleted is sent the document is gone for good, with its
\* access rights, for any number of requests under way.
THEOREM DeletedIsGone == Spec => []DeletedEventIsFinal
<1>1. ASSUME TypeInv, RowsInv PROVE DeletedEventIsFinal
  <2>1. \A d \in Docs : <<"document.deleted", d>> \in events => row[d] = NoRow
    BY <1>1 DEF RowsInv, DeletedInv, Deleted
  <2> QED BY <1>1, <2>1 DEF RowsInv, EntriesHaveRows, DeletedEventIsFinal
<1> QED BY <1>1, InitTypeInv, NextTypeInv, InitRows, NextRows, PTL DEF Spec

-----------------------------------------------------------------------------
(* What a user is shown.                                                   *)

\* An entry gave the user of r the document d to read.
Granted(r, d) ==
    \E e \in everHad : e.doc = d /\ AppliesTo(e, user[r]) /\ Includes(e.permission, "read")

\* Past the check, and whatever is kept to be returned.
GrantedInv == \A r \in Requests :
    /\ op[r] \in {"get", "update"} /\ at[r] \notin {"check", "done"} => Granted(r, doc[r])
    /\ op[r] \in {"list", "get", "update"} => \A d \in docs[r] : Granted(r, d)

\* Any permission includes reading.
LEMMA AllIncludeRead == \A p \in Permissions : Includes(p, "read")
  BY DEF Permissions, Includes

\* An entry that lets a user pass is one that was granted.
LEMMA PassedIsGranted ==
  ASSUME TypeInv, NEW r \in Requests
  PROVE  /\ \A d, q : CheckAccess(user[r], d, q) => Granted(r, d)
         /\ \A d \in AccessibleDocs(user[r]) : Granted(r, d)
<1>1. /\ acl \subseteq everHad
      /\ \A e \in acl : e.permission \in Permissions
  BY DEF TypeInv, TypeOK, Noted, Entries
<1>2. \A e \in acl : AppliesTo(e, user[r]) => Granted(r, e.doc)
  BY <1>1, AllIncludeRead DEF Granted
<1>3. \A d, q : CheckAccess(user[r], d, q) => Granted(r, d)
  BY <1>2 DEF CheckAccess
<1>4. \A d \in AccessibleDocs(user[r]) : Granted(r, d)
  BY <1>2 DEF AccessibleDocs
<1> QED BY <1>3, <1>4

\* What a step of a request keeps to be returned, and who passes the check.
LEMMA StepShows ==
  ASSUME TypeInv, NEW r \in Requests, RequestStep(r)
  PROVE  /\ op[r] \in {"list", "get", "update"} =>
              \/ docs'[r] \subseteq docs[r]
              \/ op[r] = "list" /\ docs'[r] = AccessibleDocs(user[r])
              \/ op[r] \in {"get", "update"} /\ at[r] # "check" /\ docs'[r] = {doc[r]}
         /\ at[r] = "check" =>
              at'[r] = "done" \/ CheckAccess(user[r], doc[r], Needed(op[r]))
<1>0. docs \in [Requests -> SUBSET Docs] /\ at \in [Requests -> Steps]
  BY DEF TypeInv, TypeOK
<1>1. /\ UNCHANGED docs => docs'[r] = docs[r]
      /\ \A result, ds : End(r, result, ds) => docs'[r] = ds /\ at'[r] = "done"
      /\ \A ds : ds = {} => ds \subseteq docs[r]
  BY <1>0 DEF End
<1>2. CASE Accessible(r)
  <2>1. op[r] = "list" /\ at[r] = "acl"
    BY <1>2, WhoIsAt DEF Accessible
  <2>2. docs'[r] = {} \/ docs'[r] = AccessibleDocs(user[r])
    BY <1>0, <1>1, <1>2 DEF Accessible
  <2> QED BY <1>1, <2>1, <2>2
<1>3. CASE ListPage(r)
  <2>1. PICK offset \in Offsets : docs' = [docs EXCEPT ![r] = Page(offset, docs[r])]
    BY <1>3 DEF ListPage
  <2>2. Page(offset, docs[r]) \subseteq docs[r]
    <3>1. \A S, T : S \intersect T \subseteq T
      OBVIOUS
    <3> QED BY <3>1 DEF Page
  <2> QED BY <1>0, <1>3, <2>1, <2>2 DEF ListPage
<1>4. CASE Check(r)
  <2>1. at[r] = "check"
    BY <1>4 DEF Check
  <2>2. CASE CheckAccess(user[r], doc[r], Needed(op[r]))
    BY <1>1, <1>4, <2>1, <2>2 DEF Check
  <2>3. CASE ~CheckAccess(user[r], doc[r], Needed(op[r]))
    BY <1>1, <1>4, <2>1, <2>3 DEF Check
  <2> QED BY <2>2, <2>3
<1>5. CASE ReadRow(r)
  <2>1. at[r] = "read"
    BY <1>5 DEF ReadRow
  <2>2. op[r] \in {"get", "update", "delete"}
    BY <2>1, WhoIsAt
  <2>3. UNCHANGED docs \/ \E result : End(r, result, {})
    BY <1>5, <2>2 DEF ReadRow
  <2> QED BY <1>1, <2>1, <2>3
<1>6. CASE Version(r) \/ SagaSucceeds(r) \/ GrantOwner(r) \/ WriteMetadata(r)
  BY <1>1, <1>6 DEF Version, SagaSucceeds, GrantOwner, WriteMetadata
<1>7. CASE Chunks(r)
  <2>1. at[r] = "chunks"
    BY <1>7 DEF Chunks
  <2>2. op[r] \in {"list", "get", "update"}
    BY <2>1, WhoIsAt
  <2>3. CASE op[r] = "list"
    BY <1>1, <1>7, <2>1, <2>3 DEF Chunks
  <2>4. CASE op[r] = "get"
    BY <1>1, <1>7, <2>1, <2>4 DEF Chunks
  <2>5. CASE op[r] = "update"
    BY <1>1, <1>7, <2>1, <2>5 DEF Chunks
  <2> QED BY <2>2, <2>3, <2>4, <2>5
<1>8. CASE SagaWrites(r) \/ SagaFails(r)
  <2>1. at[r] # "check"
    BY <1>8 DEF SagaWrites, SagaFails
  <2>2. UNCHANGED docs \/ \E result : End(r, result, {})
    BY <1>8 DEF SagaWrites, SagaFails
  <2> QED BY <1>1, <2>1, <2>2
<1>9. CASE Send(r)
  <2>1. at[r] = "send"
    BY <1>9 DEF Send
  <2>2. op[r] = "update" => UNCHANGED docs
    BY <1>9 DEF Send
  <2>3. op[r] \in {"create", "update", "delete"}
    BY <2>1, WhoIsAt
  <2> QED BY <1>1, <2>1, <2>2, <2>3
<1>10. CASE Reread(r)
  <2>1. at[r] = "reread"
    BY <1>10 DEF Reread
  <2>2. op[r] = "update"
    BY <2>1, WhoIsAt
  <2>3. \E result : End(r, result, {}) \/ End(r, result, {doc[r]})
    BY <1>10 DEF Reread
  <2> QED BY <1>1, <2>1, <2>2, <2>3
<1>11. CASE CallRaises(r)
  <2>1. End(r, "error", {})
    BY <1>11 DEF CallRaises
  <2> QED BY <1>1, <2>1
<1> QED BY <1>2, <1>3, <1>4, <1>5, <1>6, <1>7, <1>8, <1>9, <1>10, <1>11 DEF RequestStep

LEMMA InitGranted == Init => GrantedInv
  BY DEF Init, GrantedInv

LEMMA StepGranted ==
  ASSUME TypeInv, GrantedInv, NEW r \in Requests, RequestStep(r)
  PROVE  GrantedInv'
<1>1. /\ UNCHANGED <<op, user, doc>>
      /\ \A s \in Requests : s # r => at'[s] = at[s] /\ docs'[s] = docs[s]
      /\ Leads(r)
  BY OtherRequests
<1>2. everHad \subseteq everHad'
  BY StepEffects DEF Quiet, history, Updates, WriteUpdate, Creates, WriteCreate, Removes,
     RemoveRow, Grants, NotesGrants
<1>3. ASSUME NEW s \in Requests, NEW d, Granted(s, d) PROVE Granted(s, d)'
  BY <1>1, <1>2, <1>3 DEF Granted
<1>4. SUFFICES ASSUME NEW s \in Requests
               PROVE  /\ op[s] \in {"get", "update"} /\ at'[s] \notin {"check", "done"} =>
                           Granted(s, doc[s])
                      /\ op[s] \in {"list", "get", "update"} => \A d \in docs'[s] : Granted(s, d)
  BY <1>1, <1>3 DEF GrantedInv
<1>5. /\ op[s] \in {"get", "update"} /\ at[s] \notin {"check", "done"} => Granted(s, doc[s])
      /\ op[s] \in {"list", "get", "update"} => \A d \in docs[s] : Granted(s, d)
  BY DEF GrantedInv
<1>6. CASE s # r
  BY <1>1, <1>5, <1>6
<1>7. CASE s = r
  <2>1. /\ \A d, q : CheckAccess(user[r], d, q) => Granted(r, d)
        /\ \A d \in AccessibleDocs(user[r]) : Granted(r, d)
    BY PassedIsGranted
  <2>2. at[r] # "done"
    BY <1>1 DEF Leads
  <2>3. /\ op[r] \in {"list", "get", "update"} =>
             \/ docs'[r] \subseteq docs[r]
             \/ op[r] = "list" /\ docs'[r] = AccessibleDocs(user[r])
             \/ op[r] \in {"get", "update"} /\ at[r] # "check" /\ docs'[r] = {doc[r]}
        /\ at[r] = "check" =>
             at'[r] = "done" \/ CheckAccess(user[r], doc[r], Needed(op[r]))
    BY StepShows
  <2>4. op[r] \in {"get", "update"} /\ at'[r] # "done" => Granted(r, doc[r])
    BY <1>5, <1>7, <2>1, <2>2, <2>3
  <2>5. op[r] \in {"list", "get", "update"} => \A d \in docs'[r] : Granted(r, d)
    BY <1>5, <1>7, <2>1, <2>2, <2>3
  <2> QED BY <1>7, <2>4, <2>5
<1> QED BY <1>6, <1>7

LEMMA ComeGranted ==
  ASSUME TypeInv, GrantedInv, NEW r \in Requests, NEW u \in Users, AnyComes(r, u)
  PROVE  GrantedInv'
<1>0. /\ at \in [Requests -> Steps] /\ op \in [Requests -> Operations \union {"none"}]
      /\ doc \in [Requests -> Docs] /\ user \in [Requests -> Users]
  BY DEF TypeInv, TypeOK
<1>1. Starts(r, u)
  BY ComesStart
<1>2. /\ UNCHANGED <<everHad, docs>>
      /\ \A s \in Requests : s # r =>
           at'[s] = at[s] /\ op'[s] = op[s] /\ doc'[s] = doc[s] /\ user'[s] = user[s]
      /\ op'[r] \in {"get", "update"} => at'[r] = "check"
  BY <1>0, <1>1 DEF Starts, history
<1>3. docs[r] = {}
  BY <1>1 DEF Starts, TypeInv, Shape, ShapeOf
<1>4. \A s \in Requests : \A d : s # r /\ Granted(s, d) => Granted(s, d)'
  BY <1>2 DEF Granted
<1> QED BY <1>2, <1>3, <1>4 DEF GrantedInv

LEMMA OthersGranted ==
  ASSUME TypeInv, GrantedInv, UNCHANGED vars \/ GrantsOrRevokes
  PROVE  GrantedInv'
<1>1. UNCHANGED <<op, at, doc, user, docs>>
  BY OthersTypes DEF GrantsOrRevokes, request
<1>2. everHad \subseteq everHad'
  BY DEF vars, history, GrantsOrRevokes, GrantAccess, RevokeAccess, NotesGrants
<1>3. \A s \in Requests : \A d : Granted(s, d) => Granted(s, d)'
  BY <1>1, <1>2 DEF Granted
<1> QED BY <1>1, <1>3 DEF GrantedInv

\* Whatever list, get and update return is of documents the user was granted
\* to read, however grants, revocations, creates and deletes move between the
\* calls.
THEOREM ShownToGranted == Spec => []AnswersOnlyToGranted
<1>1. TypeInv /\ GrantedInv /\ [Next]_vars => GrantedInv'
  BY StepKinds, ComeGranted, StepGranted, OthersGranted
<1>2. GrantedInv => AnswersOnlyToGranted
  BY DEF GrantedInv, Granted, AnswersOnlyToGranted
<1> QED BY <1>1, <1>2, InitTypeInv, NextTypeInv, InitGranted, PTL DEF Spec

-----------------------------------------------------------------------------
(* Which updates are lost.                                                 *)

\* An update of the content of d that read the title d has now.
ReadTitle(s, d) ==
    /\ op[s] = "update" /\ doc[s] = d /\ asks[s] = {"content"}
    /\ seen[s] # NoRow /\ seen[s].title = row[d].title

LEMMA LostUpdateIs ==
    LostUpdateOnlyOfTitle <=>
        \A d \in Docs : row[d] # NoRow =>
            /\ row[d].content = lastSet[d].content
            /\ row[d].title = lastSet[d].title \/ \E s \in Requests : ReadTitle(s, d)
  BY DEF LostUpdateOnlyOfTitle, ReadTitle

\* What a request has read stays as it was, once it has read.
LEMMA TitlesStayRead ==
  ASSUME TypeInv, [Next]_vars, NEW s \in Requests, NEW d \in Docs, ReadTitle(s, d),
         row'[d] = row[d]
  PROVE  ReadTitle(s, d)'
<1>1. ASSUME op'[s] = op[s], doc'[s] = doc[s], asks'[s] = asks[s], seen'[s] = seen[s]
      PROVE  ReadTitle(s, d)'
  BY <1>1 DEF ReadTitle
<1>2. op[s] = "update" /\ seen[s] # NoRow /\ at[s] # "read" /\ at[s] # "idle"
  <2>1. op[s] = "update" /\ seen[s] # NoRow
    BY DEF ReadTitle
  <2> QED BY <2>1 DEF TypeInv, Shape, ShapeOf
<1>3. ASSUME NEW r \in Requests, NEW u \in Users, AnyComes(r, u) PROVE ReadTitle(s, d)'
  <2>1. Starts(r, u)
    BY <1>3, ComesStart
  <2>2. s # r
    BY <1>2, <2>1 DEF Starts
  <2> QED BY <1>1, <2>1, <2>2 DEF Starts, TypeInv, TypeOK
<1>4. ASSUME NEW r \in Requests, RequestStep(r) PROVE ReadTitle(s, d)'
  <2>1. /\ UNCHANGED <<op, doc, asks>>
        /\ \A q \in Requests : q # r => seen'[q] = seen[q]
        /\ Leads(r)
    BY <1>4, OtherRequests
  <2>2. seen'[s] = seen[s]
    BY <1>2, <2>1 DEF Leads
  <2> QED BY <1>1, <2>1, <2>2
<1>5. CASE UNCHANGED vars \/ GrantsOrRevokes
  <2>1. UNCHANGED request
    BY <1>5, OthersTypes DEF GrantsOrRevokes
  <2> QED BY <1>1, <2>1 DEF request
<1> QED BY <1>3, <1>4, <1>5, StepKinds

\* Both fields of what is written follow what the requests gave, but for the
\* title that an update of the content alone puts back.
LEMMA StepLost ==
  ASSUME TypeInv, LostUpdateOnlyOfTitle, [Next]_vars, NEW r \in Requests, RequestStep(r)
  PROVE  LostUpdateOnlyOfTitle'
<1>0. /\ doc[r] \in Docs /\ row \in [Docs -> Rows] /\ lastSet \in [Docs -> Rows]
      /\ asks[r] \in SUBSET Fields
  BY DEF TypeInv, TypeOK
<1>1. SUFFICES ASSUME NEW d \in Docs, row'[d] # NoRow
               PROVE  /\ row'[d].content = lastSet'[d].content
                      /\ row'[d].title = lastSet'[d].title \/ \E s \in Requests : ReadTitle(s, d)'
  BY DEF LostUpdateOnlyOfTitle, ReadTitle
<1>2. ASSUME row'[d] = row[d], lastSet'[d] = lastSet[d]
      PROVE  /\ row'[d].content = lastSet'[d].content
             /\ row'[d].title = lastSet'[d].title \/ \E s \in Requests : ReadTitle(s, d)'
  <2>1. /\ row[d].content = lastSet[d].content
        /\ row[d].title = lastSet[d].title \/ \E s \in Requests : ReadTitle(s, d)
    BY <1>1, <1>2, LostUpdateIs
  <2> QED BY <1>2, <2>1, TitlesStayRead
<1>3. CASE Quiet(r)
  BY <1>2, <1>3 DEF Quiet, history
<1>4. CASE Updates(r)
  <2>1. /\ row' = [row EXCEPT ![doc[r]] = UpdatedRow(r)]
        /\ op[r] = "update" /\ at[r] \in {"saga", "write"}
    BY <1>4 DEF Updates, WriteUpdate
  <2>2. CASE d # doc[r]
    <3>1. lastSet'[d] = lastSet[d]
      BY <1>0, <1>4, <2>2 DEF Updates, WriteUpdate
    <3> QED BY <1>0, <1>2, <2>1, <2>2, <3>1
  <2>3. CASE d = doc[r]
    <3>1. row[d] # NoRow
      BY <1>0, <1>1, <2>1, <2>3 DEF UpdatedRow
    <3>2. \A f \in Fields : row'[d][f] =
              IF f \in asks[r] THEN r
              ELSE IF "content" \in asks[r] THEN seen[r][f] ELSE row[d][f]
      BY <1>0, <2>1, <2>3, <3>1, UpdatedRowType
    <3>3. \A f \in Fields : lastSet'[d][f] = IF f \in asks[r] THEN r ELSE lastSet[d][f]
      <4>1. lastSet' = [lastSet EXCEPT ![d] =
                [f \in Fields |-> IF f \in asks[r] THEN r ELSE lastSet[d][f]]]
        BY <1>4, <2>3, <3>1 DEF Updates, WriteUpdate
      <4> QED BY <1>0, <4>1
    <3>4. /\ row[d].content = lastSet[d].content
          /\ row[d].title = lastSet[d].title \/ \E s \in Requests : ReadTitle(s, d)
      BY <3>1, LostUpdateIs
    <3>5. "title" \in Fields /\ "content" \in Fields
      BY DEF Fields
    <3>6. row'[d].content = lastSet'[d].content
      BY <3>2, <3>3, <3>4, <3>5
    <3>7. row'[d].title = lastSet'[d].title \/ \E s \in Requests : ReadTitle(s, d)'
      <4>1. CASE "title" \in asks[r]
        BY <3>2, <3>3, <3>5, <4>1
      <4>2. CASE "title" \notin asks[r] /\ "content" \in asks[r]
        <5>1. asks[r] = {"content"}
          BY <1>0, <4>2 DEF Fields
        <5>2. row'[d].title = seen[r].title
          BY <3>2, <3>5, <4>2
        <5>3. seen[r] # NoRow
          BY <2>1, WhoIsAt
        <5>4. UNCHANGED <<op, doc, asks>> /\ seen'[r] = seen[r]
          BY <2>1, OtherRequests DEF Leads
        <5> QED BY <2>1, <2>3, <5>1, <5>2, <5>3, <5>4 DEF ReadTitle
      <4>3. CASE "title" \notin asks[r] /\ "content" \notin asks[r]
        <5>1. row'[d].title = row[d].title /\ lastSet'[d].title = lastSet[d].title
          BY <3>2, <3>3, <3>5, <4>3
        <5>2. row'[d] = row[d]
          <6>1. row'[d] = UpdatedRow(r) /\ row[d] \in FullRows
            BY <1>0, <2>1, <2>3, <3>1 DEF FullRows, Rows
          <6>2. UpdatedRow(r) = [f \in Fields |-> row[d][f]]
            BY <1>0, <2>3, <3>1, <4>3 DEF UpdatedRow, Fields
          <6> QED BY <6>1, <6>2 DEF FullRows
        <5> QED BY <3>4, <5>1, <5>2, TitlesStayRead
      <4> QED BY <4>1, <4>2, <4>3
    <3> QED BY <3>6, <3>7
  <2> QED BY <2>2, <2>3
<1>5. CASE Creates(r)
  <2> DEFINE new == [f \in Fields |-> r]
  <2>1. row' = [row EXCEPT ![doc[r]] = new] /\ lastSet' = [lastSet EXCEPT ![doc[r]] = new]
    BY <1>5 DEF Creates, WriteCreate
  <2> HIDE DEF new
  <2>2. CASE d = doc[r]
    <3>1. row'[d] = new /\ lastSet'[d] = new
      BY <1>0, <2>1, <2>2
    <3> QED BY <3>1
  <2>3. CASE d # doc[r]
    BY <1>0, <1>2, <2>1, <2>3
  <2> QED BY <2>2, <2>3
<1>6. CASE Removes(r)
  <2>1. /\ row' = [row EXCEPT ![doc[r]] = NoRow] /\ lastSet' = [lastSet EXCEPT ![doc[r]] = NoRow]
    BY <1>6 DEF Removes, RemoveRow
  <2>2. d # doc[r]
    BY <1>0, <1>1, <2>1
  <2> QED BY <1>0, <1>2, <2>1, <2>2
<1>7. CASE Grants(r)
  BY <1>2, <1>7 DEF Grants
<1> QED BY <1>3, <1>4, <1>5, <1>6, <1>7, StepEffects

\* New content is never undone by another request; a new title only by an
\* update of the content alone that had read the row before.
THEOREM OnlyTitlesAreLost == Spec => []LostUpdateOnlyOfTitle
<1>1. Init => LostUpdateOnlyOfTitle
  BY DEF Init, LostUpdateOnlyOfTitle
<1>2. ASSUME TypeInv, LostUpdateOnlyOfTitle, [Next]_vars PROVE LostUpdateOnlyOfTitle'
  <2>1. CASE UNCHANGED <<row, lastSet>>
    <3>1. ASSUME NEW d \in Docs, row[d] # NoRow
          PROVE  /\ row[d].content = lastSet[d].content
                 /\ row[d].title = lastSet[d].title \/ \E s \in Requests : ReadTitle(s, d)'
      BY <1>2, <2>1, <3>1, LostUpdateIs, TitlesStayRead
    <3> QED BY <2>1, <3>1 DEF LostUpdateOnlyOfTitle, ReadTitle
  <2>2. ASSUME NEW r \in Requests, NEW u \in Users, AnyComes(r, u) PROVE LostUpdateOnlyOfTitle'
    BY <1>2, <2>1, <2>2, ComesStart DEF Starts, history
  <2>3. ASSUME NEW r \in Requests, RequestStep(r) PROVE LostUpdateOnlyOfTitle'
    BY <1>2, <2>3, StepLost
  <2>4. CASE UNCHANGED vars \/ GrantsOrRevokes
    BY <1>2, <2>1, <2>4, OthersTypes DEF GrantsOrRevokes
  <2> QED BY <1>2, <2>2, <2>3, <2>4, StepKinds
<1> QED BY <1>1, <1>2, InitTypeInv, NextTypeInv, PTL DEF Spec

-----------------------------------------------------------------------------
(* Owners keep their documents, unless someone revokes an owner's access:  *)
(* revoke_access would do it.                                              *)

NoOwnerRevoked == \A d \in Docs, u \in Users :
    RevokeAccess(d, <<"user", u>>) => AdminEntry(d, u) \notin acl

\* An admin's entry lasts as long as the row.
EntriesLast == \A d \in Docs, u \in Users :
    AdminEntry(d, u) \in everHad /\ row[d] # NoRow => AdminEntry(d, u) \in acl
OldHaveOwners == \A d \in DOMAIN OwnerOf : AdminEntry(d, OwnerOf[d]) \in everHad
RowsHaveCreators == \A d \in Docs : row[d] # NoRow =>
    d \in DOMAIN OwnerOf \/ \E r \in Requests : op[r] = "create" /\ doc[r] = d

OwnerInv == EntriesLast /\ OldHaveOwners /\ RowsHaveCreators

LEMMA InitOwner == Init => OwnerInv
<1> SUFFICES ASSUME Init PROVE OwnerInv
  OBVIOUS
<1>1. EntriesLast
  BY DEF Init, EntriesLast
<1>2. OldHaveOwners
  BY DEF Init, OldHaveOwners
<1>3. RowsHaveCreators
  BY DEF Init, RowsHaveCreators
<1> QED BY <1>1, <1>2, <1>3 DEF OwnerInv

\* Entries that were ever there are never forgotten.
LEMMA EntriesNoted == TypeInv /\ [Next]_vars => everHad \subseteq everHad'
<1> SUFFICES ASSUME TypeInv, [Next]_vars PROVE everHad \subseteq everHad'
  OBVIOUS
<1>1. ASSUME NEW r \in Requests, NEW u \in Users, AnyComes(r, u) PROVE everHad \subseteq everHad'
  BY <1>1, ComesStart DEF Starts, history
<1>2. ASSUME NEW r \in Requests, RequestStep(r) PROVE everHad \subseteq everHad'
  BY <1>2, StepEffects DEF Quiet, history, Updates, WriteUpdate, Creates, WriteCreate,
     Removes, RemoveRow, Grants, NotesGrants
<1>3. CASE UNCHANGED vars \/ GrantsOrRevokes
  BY <1>3 DEF vars, history, GrantsOrRevokes, GrantAccess, RevokeAccess, NotesGrants
<1> QED BY <1>1, <1>2, <1>3, StepKinds

LEMMA StepOwner ==
  ASSUME TypeInv, RowsInv, OwnerInv, NEW r \in Requests, RequestStep(r)
  PROVE  EntriesLast' /\ RowsHaveCreators'
<1>0. /\ doc[r] \in Docs /\ row \in [Docs -> Rows] /\ acl \subseteq everHad
      /\ EntriesLast /\ RowsHaveCreators /\ PendingInv
  BY DEF TypeInv, TypeOK, Noted, OwnerInv, RowsInv
<1>1. \A d \in Docs : row'[d] # NoRow => row[d] # NoRow \/ (d = doc[r] /\ Creates(r))
  BY RowsAfter
<1>2. UNCHANGED <<op, doc>>
  BY OtherRequests
<1>3. RowsHaveCreators'
  BY <1>0, <1>1, <1>2 DEF RowsHaveCreators, Creates, Pending
<1>4. ASSUME NEW d \in Docs, NEW u \in Users, AdminEntry(d, u) \in everHad', row'[d] # NoRow
      PROVE  AdminEntry(d, u) \in acl'
  <2>0. AdminEntry(d, u).doc = d
    BY DEF AdminEntry
  <2>1. CASE Quiet(r) \/ Updates(r)
    <3>1. UNCHANGED <<acl, everHad>> /\ (UNCHANGED row \/ ~Creates(r))
      BY <2>1 DEF Quiet, history, Updates, WriteUpdate, Creates, Pending
    <3> QED BY <1>0, <1>1, <1>4, <3>1 DEF EntriesLast
  <2>2. CASE Creates(r)
    <3>1. UNCHANGED <<acl, everHad>> /\ Pending(r)
      BY <2>2 DEF Creates, WriteCreate
    <3>2. d # doc[r]
      BY <1>0, <1>4, <2>0, <3>1 DEF PendingInv
    <3> QED BY <1>0, <1>1, <1>4, <3>1, <3>2 DEF EntriesLast
  <2>3. CASE Removes(r)
    <3>1. /\ row' = [row EXCEPT ![doc[r]] = NoRow] /\ acl' = {e \in acl : e.doc # doc[r]}
          /\ UNCHANGED everHad
      BY <2>3 DEF Removes, RemoveRow, DropEntries
    <3>2. d # doc[r] /\ row[d] # NoRow
      BY <1>0, <1>4, <3>1
    <3> QED BY <1>0, <1>4, <2>0, <3>1, <3>2 DEF EntriesLast
  <2>4. CASE Grants(r)
    <3>1. UNCHANGED row /\ everHad' = everHad \union acl' /\ acl \subseteq acl'
      BY <2>4 DEF Grants, Grant, NotesGrants
    <3> QED BY <1>0, <1>4, <3>1 DEF EntriesLast
  <2> QED BY <2>1, <2>2, <2>3, <2>4, StepEffects
<1> QED BY <1>3, <1>4 DEF EntriesLast, AdminEntry

LEMMA OthersOwner ==
  ASSUME TypeInv, OwnerInv, UNCHANGED vars \/ GrantsOrRevokes, [NoOwnerRevoked]_vars
  PROVE  EntriesLast' /\ RowsHaveCreators'
<1>0. EntriesLast /\ RowsHaveCreators /\ UNCHANGED <<row, op, doc>>
  BY OthersTypes DEF OwnerInv, GrantsOrRevokes, request
<1>1. RowsHaveCreators'
  BY <1>0 DEF RowsHaveCreators
<1>2. ASSUME NEW d \in Docs, NEW u \in Users, AdminEntry(d, u) \in everHad', row[d] # NoRow
      PROVE  AdminEntry(d, u) \in acl'
  <2>1. CASE UNCHANGED vars
    BY <1>0, <1>2, <2>1 DEF vars, tables, history, EntriesLast
  <2>2. ASSUME NEW c \in Docs, NEW principal \in Principals, NEW p \in Permissions,
               GrantAccess(c, principal, p)
        PROVE  AdminEntry(d, u) \in acl'
    BY <1>0, <1>2, <2>2 DEF GrantAccess, Grant, NotesGrants, EntriesLast
  <2>3. ASSUME NEW c \in Docs, NEW principal \in Principals, RevokeAccess(c, principal),
               ~UNCHANGED vars
        PROVE  AdminEntry(d, u) \in acl'
    <3>1. AdminEntry(d, u) \in acl
      BY <1>0, <1>2, <2>3 DEF RevokeAccess, history, EntriesLast
    <3>2. acl' = {e \in acl : e.doc # c \/ e.principal # principal}
      BY <2>3 DEF RevokeAccess, Revoke
    <3>3. AdminEntry(d, u).doc = d /\ AdminEntry(d, u).principal = <<"user", u>>
      BY DEF AdminEntry
    <3>4. ~(c = d /\ principal = <<"user", u>>)
      <4>1. NoOwnerRevoked
        BY <2>3
      <4>2. RevokeAccess(d, <<"user", u>>) => AdminEntry(d, u) \notin acl
        BY <4>1 DEF NoOwnerRevoked
      <4> QED BY <2>3, <3>1, <4>2
    <3> QED BY <3>1, <3>2, <3>3, <3>4
  <2> QED BY <2>1, <2>2, <2>3 DEF GrantsOrRevokes
<1> QED BY <1>0, <1>1, <1>2 DEF EntriesLast, AdminEntry

LEMMA NextOwner ==
  ASSUME TypeInv, RowsInv, OwnerInv, [Next]_vars, [NoOwnerRevoked]_vars
  PROVE  OwnerInv'
<1>1. OldHaveOwners'
  BY EntriesNoted DEF OwnerInv, OldHaveOwners, AdminEntry
<1>2. EntriesLast' /\ RowsHaveCreators'
  <2>1. ASSUME NEW r \in Requests, NEW u \in Users, AnyComes(r, u)
        PROVE  EntriesLast' /\ RowsHaveCreators'
    <3>1. Starts(r, u)
      BY <2>1, ComesStart
    <3>2. UNCHANGED <<row, acl, everHad>>
      BY <3>1 DEF Starts, history
    <3>3. op[r] = "none"
      BY <3>1 DEF Starts, TypeInv, Shape, ShapeOf
    <3>4. \A s \in Requests : op[s] = "create" => op'[s] = "create" /\ doc'[s] = doc[s]
      <4>1. \A s \in Requests : s # r => op'[s] = op[s] /\ doc'[s] = doc[s]
        BY <3>1 DEF Starts, TypeInv, TypeOK
      <4> QED BY <3>3, <4>1
    <3>5. EntriesLast'
      BY <3>2 DEF OwnerInv, EntriesLast, AdminEntry
    <3>6. RowsHaveCreators'
      BY <3>2, <3>4 DEF OwnerInv, RowsHaveCreators
    <3> QED BY <3>5, <3>6
  <2> QED BY <2>1, StepKinds, StepOwner, OthersOwner
<1> QED BY <1>1, <1>2 DEF OwnerInv

\* Who created a document can administer it as long as it exists, whatever
\* updates, failed ones too, and grants and revocations of other entries do,
\* if the owner's grant was made and nobody revokes it.
THEOREM OwnersKeep == Spec /\ [][NoOwnerRevoked]_vars => []OwnerKeepsDocument
<1>1. ASSUME TypeInv, OwnerInv PROVE OwnerKeepsDocument
  <2>1. ASSUME NEW d \in Docs, NEW u \in Users, row[d] # NoRow, AdminEntry(d, u) \in everHad
        PROVE  CheckAccess(u, d, "admin")
    <3>1. AdminEntry(d, u) \in acl
      BY <1>1, <2>1 DEF OwnerInv, EntriesLast
    <3> QED BY <3>1 DEF CheckAccess, AdminEntry, AppliesTo, Sufficient
  <2>2. ASSUME NEW d \in DOMAIN OwnerOf, row[d] # NoRow PROVE CheckAccess(OwnerOf[d], d, "admin")
    <3>1. d \in Docs /\ OwnerOf[d] \in Users
      BY RequestsAssumption
    <3> QED BY <1>1, <2>1, <2>2, <3>1 DEF OwnerInv, OldHaveOwners
  <2>3. \A d \in Docs : row[d] # NoRow =>
           d \in DOMAIN OwnerOf \/ \E r \in Requests : op[r] = "create" /\ doc[r] = d
    BY <1>1 DEF OwnerInv, RowsHaveCreators
  <2>4. \A r \in Requests : user[r] \in Users
    BY <1>1 DEF TypeInv, TypeOK
  <2> QED BY <2>1, <2>2, <2>3, <2>4 DEF OwnerKeepsDocument
<1>2. /\ TypeInv /\ RowsInv /\ OwnerInv /\ [Next]_vars /\ [NoOwnerRevoked]_vars => OwnerInv'
  BY NextOwner
<1> QED BY <1>1, <1>2, InitTypeInv, NextTypeInv, InitRows, NextRows, InitOwner, PTL DEF Spec

=============================================================================
