--------------------------- MODULE DocumentRequests ---------------------------
(***************************************************************************)
(* The requests of the REST API on documents: the router, DocumentService  *)
(* and the access checks it makes, one action for each await.              *)
(*                                                                         *)
(* A saga is taken by what the module SagaCoordinator leaves of it in      *)
(* PostgreSQL: one write of the row, then success or failure.  A field of  *)
(* a row is identified with the request that wrote it: "title" stands for  *)
(* title, status and security_level, which the code treats alike.          *)
(***************************************************************************)
EXTENDS AccessControl, Sequences, SequencesExt

CONSTANTS
    Requests,
    NoRow,
    OwnerOf,     \* the owners of the documents that were there before,
    Earlier,     \* written by the requests before these
    Limit,       \* the page size and
    Offsets,     \* the offsets that clients list with
    Shares,      \* what others than the owner are granted: <<principal, permission>>
    CallsRaise   \* TRUE: any call of a repository or of Kafka may raise

Fields == {"title", "content"}

ASSUME RequestsAssumption ==
    /\ NoRow \notin [Fields -> Requests \union {Earlier}] /\ Earlier \notin Requests
    /\ Users # {} /\ Docs # {} /\ IsFiniteSet(DOMAIN OwnerOf)
    /\ OwnerOf \in [DOMAIN OwnerOf -> Users] /\ DOMAIN OwnerOf \subseteq Docs
    /\ Limit \in Nat \ {0}
    /\ Offsets \subseteq Nat
    /\ Shares \subseteq Principals \X Permissions
    /\ CallsRaise \in BOOLEAN

VARIABLES
    row,      \* the documents table
    newest,   \* the documents in the order of created_at DESC
    events,   \* what was sent to Kafka: <<topic, doc>>
    at,       \* the call a request awaits, "idle" before it comes, "done" after
    op,       \* what the request is: create, list, get, update or delete
    user,
    doc,      \* the document it is about
    asks,     \* the fields a create or update gives
    seen,     \* the row it has read
    docs,     \* list: accessible_uuids; then, as for the others, what is returned
    answer,   \* the status of the response
    lastSet,  \* the requests that last gave each field of a document (history)
    everHad   \* the ACL entries there ever were (history)

tables == <<row, newest, acl, events>>
request == <<at, op, user, doc, asks, seen, docs, answer>>
history == <<lastSet, everHad>>
vars == <<tables, request, history>>

Operations == {"create", "list", "get", "update", "delete"}
Rows == [Fields -> Requests \union {Earlier}] \union {NoRow}
Steps == {"idle", "acl", "page", "check", "read", "version", "saga", "sagaEnd",
          "write", "chunks", "grant", "send", "reread", "done"}

TypeOK ==
    /\ row \in [Docs -> Rows]
    /\ newest \in Seq(Docs) /\ IsInjective(newest)
    /\ acl \in SUBSET Entries
    /\ events \subseteq {"document.created", "document.updated", "document.deleted"} \X Docs
    /\ at \in [Requests -> Steps]
    /\ op \in [Requests -> Operations \union {"none"}]
    /\ user \in [Requests -> Users]
    /\ doc \in [Requests -> Docs]
    /\ asks \in [Requests -> SUBSET Fields]
    /\ seen \in [Requests -> Rows]
    /\ docs \in [Requests -> SUBSET Docs]
    /\ answer \in [Requests -> {0, 200, 201, 204, 400, 403, 404, 500}]
    /\ lastSet \in [Docs -> Rows]
    /\ everHad \in SUBSET Entries

AdminEntry(d, u) == [doc |-> d, principal |-> <<"user", u>>, permission |-> "admin"]

\* Some documents were created before.
Init ==
    /\ row = [d \in Docs |-> IF d \in DOMAIN OwnerOf THEN [f \in Fields |-> Earlier] ELSE NoRow]
    /\ newest = SetToSeq(DOMAIN OwnerOf)
    /\ acl = {AdminEntry(d, OwnerOf[d]) : d \in DOMAIN OwnerOf}
    /\ events = {}
    /\ at = [r \in Requests |-> "idle"]
    /\ op = [r \in Requests |-> "none"]
    /\ user = [r \in Requests |-> CHOOSE u \in Users : TRUE]
    /\ doc = [r \in Requests |-> CHOOSE d \in Docs : TRUE]
    /\ asks = [r \in Requests |-> {}]
    /\ seen = [r \in Requests |-> NoRow]
    /\ docs = [r \in Requests |-> {}]
    /\ answer = [r \in Requests |-> 0]
    /\ lastSet = row
    /\ everHad = acl

-----------------------------------------------------------------------------
(* The router: the status for what the service returns or raises.          *)

CreateAnswer(result) ==
    CASE result = "ok" -> 201 [] result = "ValueError" -> 400 [] OTHER -> 500
ListAnswer(result) == IF result = "ok" THEN 200 ELSE 500
GetAnswer(result) ==
    CASE result = "ok" -> 200 [] result = "None" -> 404
      [] result = "PermissionError" -> 403 [] OTHER -> 500
UpdateAnswer(result) ==
    CASE result = "ok" -> 200 [] result = "PermissionError" -> 403
      [] result = "not found" -> 404 [] result = "ValueError" -> 400 [] OTHER -> 500
DeleteAnswer(result) ==
    CASE result = "ok" -> 204 [] result = "PermissionError" -> 403
      [] result = "not found" -> 404 [] OTHER -> 500

Answer(r, result) ==
    CASE op[r] = "create" -> CreateAnswer(result)
      [] op[r] = "list"   -> ListAnswer(result)
      [] op[r] = "get"    -> GetAnswer(result)
      [] op[r] = "update" -> UpdateAnswer(result)
      [] op[r] = "delete" -> DeleteAnswer(result)

\* Request r goes on to the await called step.
GoTo(r, step) == at' = [at EXCEPT ![r] = step] /\ UNCHANGED answer

\* Request r ends: the service returns (with data of the documents ds) or
\* raises.
End(r, result, ds) ==
    /\ at' = [at EXCEPT ![r] = "done"]
    /\ answer' = [answer EXCEPT ![r] = Answer(r, result)]
    /\ docs' = [docs EXCEPT ![r] = ds]

NotesGrants == everHad' = everHad \union acl'

-----------------------------------------------------------------------------
\* A request comes.  The document of a create is one that never was.
Come(r, o, u) ==
    /\ at[r] = "idle"
    /\ op' = [op EXCEPT ![r] = o]
    /\ user' = [user EXCEPT ![r] = u]
    /\ UNCHANGED <<row, acl, events, seen, docs, history>>

ComeCreate(r, u, d) ==
    /\ Come(r, "create", u)
    /\ d \notin Range(newest)
    /\ newest' = <<d>> \o newest
    /\ doc' = [doc EXCEPT ![r] = d]
    /\ GoTo(r, "saga")
    /\ UNCHANGED asks

\* Blank content is refused before anything is awaited.
ComeBlank(r, u) ==
    /\ Come(r, "create", u)
    /\ at' = [at EXCEPT ![r] = "done"]
    /\ answer' = [answer EXCEPT ![r] = CreateAnswer("ValueError")]
    /\ UNCHANGED <<newest, doc, asks>>

ComeList(r, u) ==
    /\ Come(r, "list", u)
    /\ GoTo(r, "acl")
    /\ UNCHANGED <<newest, doc, asks>>

ComeForOne(r, o, u, d) ==
    /\ o \in {"get", "update", "delete"}
    /\ Come(r, o, u)
    /\ d \in Range(newest)
    /\ doc' = [doc EXCEPT ![r] = d]
    /\ IF o = "update" THEN \E given \in SUBSET Fields : asks' = [asks EXCEPT ![r] = given]
                       ELSE UNCHANGED asks
    /\ GoTo(r, "check")
    /\ UNCHANGED newest

-----------------------------------------------------------------------------
(* Reading.                                                                *)

\* list_documents asks for the accessible documents first.
Accessible(r) ==
    /\ at[r] = "acl"
    /\ IF AccessibleDocs(user[r]) = {}
       THEN End(r, "ok", {})
       ELSE GoTo(r, "page") /\ docs' = [docs EXCEPT ![r] = AccessibleDocs(user[r])]
    /\ UNCHANGED <<tables, op, user, doc, asks, seen, history>>

\* Wrong: the page is returned as it is.
PageUnfiltered(offset, accessible) ==
    LET stored == SelectSeq(newest, LAMBDA d : row[d] # NoRow)
    IN  {stored[i] : i \in {j \in DOMAIN stored : offset < j /\ j <= offset + Limit}}

\* limit and offset select rows of the whole table; only then those the user
\* may not see are dropped.
Page(offset, accessible) ==
    LET stored == SelectSeq(newest, LAMBDA d : row[d] # NoRow)
    IN  {stored[i] : i \in {j \in DOMAIN stored : offset < j /\ j <= offset + Limit}}
            \intersect accessible

ListPage(r) ==
    /\ at[r] = "page"
    /\ \E offset \in Offsets :
          docs' = [docs EXCEPT ![r] = Page(offset, docs[r])]
    /\ GoTo(r, "chunks")
    /\ UNCHANGED <<tables, op, user, doc, asks, seen, history>>

\* The access check of get, update and delete.
Needed(o) == CASE o = "get" -> "read" [] o = "update" -> "write" [] o = "delete" -> "admin"

Check(r) ==
    /\ at[r] = "check"
    /\ IF CheckAccess(user[r], doc[r], Needed(op[r]))
       THEN GoTo(r, "read") /\ UNCHANGED docs
       ELSE End(r, "PermissionError", {})
    /\ UNCHANGED <<tables, op, user, doc, asks, seen, history>>

\* The statement of get_document.
StoredRow(r) == row[doc[r]]

\* get_document, and what the operation does with the row.  An update with
\* content that is blank after all raises here.
ReadRow(r) ==
    /\ at[r] = "read"
    /\ seen' = [seen EXCEPT ![r] = StoredRow(r)]
    /\ IF StoredRow(r) = NoRow
       THEN End(r, IF op[r] = "get" THEN "None" ELSE "not found", {})
       ELSE CASE op[r] = "get" -> GoTo(r, "chunks") /\ UNCHANGED docs
              [] op[r] = "delete" -> GoTo(r, "saga") /\ UNCHANGED docs
              [] op[r] = "update" ->
                   IF "content" \in asks[r]
                   THEN \/ GoTo(r, "version") /\ UNCHANGED docs
                        \/ End(r, "ValueError", {})
                   ELSE /\ GoTo(r, IF asks[r] = {} THEN "chunks" ELSE "write")
                        /\ UNCHANGED docs
    /\ UNCHANGED <<tables, op, user, doc, asks, history>>

\* get_next_version_no: nothing uses the number but the saga's version data,
\* which no step stores.
Version(r) ==
    /\ at[r] = "version"
    /\ GoTo(r, "saga")
    /\ UNCHANGED <<tables, op, user, doc, asks, seen, docs, history>>

\* Counting the chunks: the last call of get and list.
Chunks(r) ==
    /\ at[r] = "chunks"
    /\ CASE op[r] = "list" -> End(r, "ok", docs[r])
         [] op[r] = "get"  -> End(r, "ok", {doc[r]})
         [] OTHER          -> GoTo(r, "send") /\ UNCHANGED docs
    /\ UNCHANGED <<tables, op, user, doc, asks, seen, history>>

-----------------------------------------------------------------------------
(* Writing.                                                                *)

\* Wrong: an update of metadata writes the whole row it has read.
UpdatedRowWhole(r) ==
    IF row[doc[r]] = NoRow THEN NoRow
    ELSE [f \in Fields |-> IF f \in asks[r] THEN r ELSE seen[r][f]]

\* Wrong: the saga writes the row whether it is there or not.
UpdatedRowUpserts(r) ==
    IF row[doc[r]] = NoRow /\ "content" \notin asks[r] THEN NoRow
    ELSE [f \in Fields |->
            IF f \in asks[r] THEN r
            ELSE IF "content" \in asks[r] THEN seen[r][f]
            ELSE row[doc[r]][f]]

\* What an update makes of the row.  With content the saga writes every
\* column, the ones not asked for with the values read before; without, the
\* statement sets only what is asked for.  A row that has gone stays so.
UpdatedRow(r) ==
    IF row[doc[r]] = NoRow THEN NoRow
    ELSE [f \in Fields |->
            IF f \in asks[r] THEN r
            ELSE IF "content" \in asks[r] THEN seen[r][f]
            ELSE row[doc[r]][f]]

WriteUpdate(r) ==
    /\ row' = [row EXCEPT ![doc[r]] = UpdatedRow(r)]
    /\ lastSet' = [lastSet EXCEPT ![doc[r]] =
            IF row[doc[r]] = NoRow THEN NoRow
            ELSE [f \in Fields |-> IF f \in asks[r] THEN r ELSE @[f]]]
    /\ UNCHANGED <<acl, everHad>>

WriteCreate(r) ==
    /\ row' = [row EXCEPT ![doc[r]] = [f \in Fields |-> r]]
    /\ lastSet' = [lastSet EXCEPT ![doc[r]] = [f \in Fields |-> r]]
    /\ UNCHANGED <<acl, everHad>>

\* The row goes, and with it its ACL entries.
RemoveRow(d) ==
    /\ row' = [row EXCEPT ![d] = NoRow]
    /\ lastSet' = [lastSet EXCEPT ![d] = NoRow]
    /\ DropEntries(d)
    /\ UNCHANGED everHad

\* The saga's write of the row; it may fail before that.
SagaWrites(r) ==
    /\ at[r] = "saga"
    /\ \/ /\ CASE op[r] = "create" -> WriteCreate(r)
               [] op[r] = "update" -> WriteUpdate(r)
               [] op[r] = "delete" -> RemoveRow(doc[r])
          /\ GoTo(r, "sagaEnd")
          /\ UNCHANGED docs
       \/ /\ End(r, "RuntimeError", {})
          /\ UNCHANGED <<row, acl, history>>
    /\ UNCHANGED <<newest, events, op, user, doc, asks, seen>>

SagaSucceeds(r) ==
    /\ at[r] = "sagaEnd"
    /\ GoTo(r, IF op[r] = "create" THEN "grant" ELSE "send")
    /\ UNCHANGED <<tables, op, user, doc, asks, seen, docs, history>>

\* Wrong: a saga that failed runs again.
SagaFailsRetries(r) ==
    /\ at[r] = "sagaEnd"
    /\ GoTo(r, "saga")
    /\ UNCHANGED <<tables, op, user, doc, asks, seen, docs, history>>

\* The saga fails after the write, or an exception leaves it.  A create is
\* compensated by deleting the row, unless that raises; the writes of the
\* others stay.
SagaFails(r) ==
    /\ at[r] = "sagaEnd"
    /\ \/ op[r] = "create" /\ RemoveRow(doc[r])
       \/ UNCHANGED <<row, acl, history>>
    /\ End(r, "RuntimeError", {})
    /\ UNCHANGED <<newest, events, op, user, doc, asks, seen>>

\* Wrong: type and id of the principal are swapped.
GrantOwnerSwapped(r) ==
    /\ at[r] = "grant"
    /\ \/ row[doc[r]] # NoRow /\ Grant(doc[r], <<user[r], "user">>, "admin")
       \/ (row[doc[r]] = NoRow \/ CallsRaise) /\ UNCHANGED acl
    /\ NotesGrants
    /\ GoTo(r, "send")
    /\ UNCHANGED <<row, newest, events, op, user, doc, asks, seen, docs, lastSet>>

\* The owner's ADMIN entry.  Without the row the foreign key refuses it; an
\* error is swallowed.
GrantOwner(r) ==
    /\ at[r] = "grant"
    /\ \/ row[doc[r]] # NoRow /\ Grant(doc[r], <<"user", user[r]>>, "admin")
       \/ (row[doc[r]] = NoRow \/ CallsRaise) /\ UNCHANGED acl
    /\ NotesGrants
    /\ GoTo(r, "send")
    /\ UNCHANGED <<row, newest, events, op, user, doc, asks, seen, docs, lastSet>>

\* update_document of the repository, when there is no new content.
WriteMetadata(r) ==
    /\ at[r] = "write"
    /\ WriteUpdate(r)
    /\ GoTo(r, "chunks")
    /\ UNCHANGED <<newest, events, op, user, doc, asks, seen, docs>>

Topic(o) == CASE o = "create" -> "document.created"
              [] o = "update" -> "document.updated"
              [] o = "delete" -> "document.deleted"

\* send_and_wait of the producer.
Sent(topic, d) == events' = events \union {<<topic, d>>}

\* The event is sent, or not: an error is swallowed.  A create or delete is
\* over then.
Send(r) ==
    /\ at[r] = "send"
    /\ \/ Sent(Topic(op[r]), doc[r])
       \/ CallsRaise /\ UNCHANGED events
    /\ CASE op[r] = "update" -> GoTo(r, "reread") /\ UNCHANGED docs
         [] op[r] = "create" -> End(r, "ok", {doc[r]})
         [] op[r] = "delete" -> End(r, "ok", {})
    /\ UNCHANGED <<row, newest, acl, op, user, doc, asks, seen, history>>

\* An update returns the row as it is now.
Reread(r) ==
    /\ at[r] = "reread"
    /\ IF StoredRow(r) = NoRow THEN End(r, "RuntimeError", {}) ELSE End(r, "ok", {doc[r]})
    /\ UNCHANGED <<tables, op, user, doc, asks, seen, history>>

\* A call outside the sagas raises; nothing in the service catches it.  A
\* write may have taken effect.
CallRaises(r) ==
    /\ CallsRaise
    /\ at[r] \in {"acl", "page", "check", "read", "version", "chunks", "write", "reread"}
    /\ \/ at[r] = "write" /\ WriteUpdate(r)
       \/ UNCHANGED <<row, acl, history>>
    /\ End(r, "error", {})
    /\ UNCHANGED <<newest, events, op, user, doc, asks, seen>>

-----------------------------------------------------------------------------
\* AclService.grant_access, grant_public_access and revoke_access: no request
\* of the API makes these calls, but they may come at any time.
GrantAccess(d, principal, p) ==
    /\ <<principal, p>> \in Shares
    /\ row[d] # NoRow
    /\ Grant(d, principal, p)
    /\ NotesGrants
    /\ UNCHANGED <<row, newest, events, request, lastSet>>

RevokeAccess(d, principal) ==
    /\ \E p \in Permissions : <<principal, p>> \in Shares
    /\ Revoke(d, principal)
    /\ UNCHANGED <<row, newest, events, request, history>>

RequestStep(r) ==
    \/ Accessible(r) \/ ListPage(r) \/ Check(r) \/ ReadRow(r) \/ Version(r) \/ Chunks(r)
    \/ SagaWrites(r) \/ SagaSucceeds(r) \/ SagaFails(r) \/ GrantOwner(r)
    \/ WriteMetadata(r) \/ Send(r) \/ Reread(r) \/ CallRaises(r)

Next ==
    \/ \E r \in Requests, u \in Users :
          \/ ComeBlank(r, u) \/ ComeList(r, u)
          \/ \E d \in Docs : \/ ComeCreate(r, u, d)
                            \/ \E o \in Operations : ComeForOne(r, o, u, d)
    \/ \E r \in Requests : RequestStep(r)
    \/ \E d \in Docs, principal \in Principals, p \in Permissions : GrantAccess(d, principal, p)
    \/ \E d \in Docs, principal \in Principals : RevokeAccess(d, principal)

Spec == Init /\ [][Next]_vars

\* The event loop resumes every request whose call has answered.
FairSpec == Spec /\ \A r \in Requests : WF_vars(RequestStep(r))

-----------------------------------------------------------------------------
\* Whatever a user is shown, by list, get or update, is a document of which
\* an entry for them gave them to read, by the hierarchy of permissions,
\* however grants, revocations, creates and deletes move between the calls.
AnswersOnlyToGranted ==
    \A r \in Requests : (op[r] \in {"list", "get", "update"} /\ at[r] = "done") =>
        \A d \in docs[r] : \E e \in everHad :
            e.doc = d /\ AppliesTo(e, user[r]) /\ Includes(e.permission, "read")

\* Who created a document can administer it as long as it exists, whatever
\* updates, failed ones too, and grants to others do, if the owner's grant
\* was made at all (GrantOwner swallows its failure).
OwnerKeepsDocument ==
    \A d \in Docs : row[d] # NoRow =>
        \/ d \in DOMAIN OwnerOf /\ CheckAccess(OwnerOf[d], d, "admin")
        \/ \E r \in Requests :
              /\ op[r] = "create" /\ doc[r] = d
              /\ AdminEntry(d, user[r]) \in everHad => CheckAccess(user[r], d, "admin")

\* New content is never undone by another request.  A new title is, but only
\* by an update of the content that did not ask for a title and had read
\* the row before.
LostUpdateOnlyOfTitle ==
    \A d \in Docs : row[d] # NoRow =>
        /\ row[d].content = lastSet[d].content
        /\ \/ row[d].title = lastSet[d].title
           \/ \E r \in Requests : /\ op[r] = "update" /\ doc[r] = d
                                  /\ asks[r] = {"content"}
                                  /\ seen[r] # NoRow /\ seen[r].title = row[d].title

\* Once document.deleted is sent the document is gone for good, with its
\* access rights, although updates and the owner's grant may be under way.
DeletedEventIsFinal ==
    \A d \in Docs : <<"document.deleted", d>> \in events =>
        row[d] = NoRow /\ \A e \in acl : e.doc # d

\* Every request is answered, whatever raises.
RequestsAnswered == \A r \in Requests : (at[r] # "idle") ~> (at[r] = "done")
=============================================================================
