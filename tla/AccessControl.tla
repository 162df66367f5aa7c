---------------------------- MODULE AccessControl ----------------------------
(***************************************************************************)
(* Who may do what with which document: the acl_entries table, as          *)
(* PostgresRepository queries it and AclService is asked.                  *)
(*                                                                         *)
(* An entry is [doc, principal, permission] with principal <<type, id>>;   *)
(* the table is a set because the four columns are its unique key.  What a *)
(* query never looks at, granted_by and expires_at, is left out: an entry  *)
(* that has expired counts like any other.                                 *)
(***************************************************************************)
EXTENDS Naturals

CONSTANTS
    Docs,     \* documents, one for each doc_uuid ever drawn
    Users,
    Groups,
    GroupsOf  \* the groups a user names in X-User-Groups

ASSUME AccessAssumption == GroupsOf \in [Users -> SUBSET Groups]

VARIABLE acl

Permissions == {"read", "write", "delete", "admin"}
Public == <<"org", "ALL">>
Principals == ({"user"} \X Users) \union ({"group"} \X Groups) \union {Public}
Entries == [doc : Docs, principal : Principals, permission : Permissions]

\* Permission.includes of the service: admin > delete > write > read.
Includes(p, q) ==
    LET level == [read |-> 0, write |-> 1, delete |-> 2, admin |-> 3]
    IN  level[p] >= level[q]

\* The permissions check_access accepts for q.  Unlike in the hierarchy of
\* the service, "delete" stands for itself only.
Sufficient(q) ==
    CASE q = "read"  -> {"read", "write", "admin"}
      [] q = "write" -> {"write", "admin"}
      [] q = "admin" -> {"admin"}
      [] OTHER       -> {q}

\* The entries a query for this user matches.  No caller passes user_org, so
\* of the organisations only 'ALL' counts; roles are never matched.
AppliesTo(e, u) ==
    \/ e.principal = <<"user", u>>
    \/ \E g \in GroupsOf[u] : e.principal = <<"group", g>>
    \/ e.principal = Public

CheckAccess(u, d, q) ==
    \E e \in acl : e.doc = d /\ e.permission \in Sufficient(q) /\ AppliesTo(e, u)

\* get_accessible_doc_uuids: an entry of any permission will do.
AccessibleDocs(u) == {e.doc : e \in {f \in acl : AppliesTo(f, u)}}

\* Wrong: what a document had before is replaced.
GrantReplaces(d, principal, p) ==
    acl' = {e \in acl : e.doc # d}
            \union {[doc |-> d, principal |-> principal, permission |-> p]}

\* The upsert.
Grant(d, principal, p) ==
    acl' = acl \union {[doc |-> d, principal |-> principal, permission |-> p]}

\* Every entry of this principal on this document.
Revoke(d, principal) ==
    acl' = {e \in acl : e.doc # d \/ e.principal # principal}

\* ON DELETE CASCADE of the document's row.
DropEntries(d) == acl' = {e \in acl : e.doc # d}
=============================================================================
