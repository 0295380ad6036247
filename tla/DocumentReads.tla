--------------------------- MODULE DocumentReads ---------------------------
(***************************************************************************)
(* Who reads a document while others delete it, reindex it, change who may   *)
(* read it and change the roles of users: the read and ACL handlers of       *)
(* services/api/main.py, the MCP server, authenticate and                    *)
(* can_access_document (auth.py), the cache of popular documents (cache.py,  *)
(* whose counts are left out: which document is popular is a free choice)    *)
(* and the three queries of a search (store.py). Every statement of a        *)
(* request is a step, as each has a transaction of its own or, in a search,  *)
(* a snapshot of its own. A request of the API authenticates first and goes  *)
(* on with the role it read; the MCP server goes on with the one it read     *)
(* when its process started.                                                 *)
(***************************************************************************)
EXTENDS Naturals, FiniteSets

CONSTANTS
    Users,            \* users who read
    Owners,           \* users who own documents
    Groups,
    Docs,
    Requests,         \* requests that may be under way at once
    None,             \* "nothing"
    MaxGenerations    \* bound on how often documents are indexed

Principals == Users \union Groups
Maybe(S) == S \union {None}
Generations == 1..MaxGenerations
Row == [generation: Generations, visibility: {"workspace", "restricted"}, owner: Owners]
\* What a read returns: the row it read, and whether there were chunks with it.
Value == [generation: Generations, chunks: BOOLEAN]

ASSUME DocumentReadsAssumption ==
    /\ Users \intersect Groups = {}
    /\ MaxGenerations \in Nat
    /\ None \notin Principals \union Owners \union Docs \union Row \union Value

VARIABLES
    managing,     \* users with the role manager or owner
    server,       \* the process of the MCP server, if there is one
    row,          \* row[d]: the documents row, its chunks with it, or None
    acl,          \* acl[d]: principals with an entry in document_acl
    members,      \* members[g]: group_members
    cache,        \* cache[d]: the value cached in Redis, or None
    request,      \* request[r]: where a request stands
    generation,   \* history: rows inserted so far
    open,         \* history: <<r, d>> where r's user could read d since r began
    shown,        \* history: documents the server's user could read since it started
    excused       \* history: documents whose cached value may be out of date

tables == <<managing, row, acl, members>>
vars == <<tables, server, cache, request, generation, open, shown, excused>>

\* Whom a process or a request acts for, with the role as it was read.
Server == [user: Maybe(Users), manages: BOOLEAN]
NoServer == [user |-> None, manages |-> FALSE]

Request ==
    [kind: {"none", "get", "tool", "download", "acl", "graph", "versions", "search",
            "delete", "grant", "revoke"},
     pc: {"idle", "admit", "versions", "cache", "row", "chunks", "fill", "keyword",
          "vector", "graph", "change", "invalidate", "answered"},
     user: Maybe(Users), manages: BOOLEAN, doc: Maybe(Docs), principal: Maybe(Principals),
     value: Maybe(Value), found: SUBSET Docs]
Idle == [kind |-> "none", pc |-> "idle", user |-> None, manages |-> FALSE, doc |-> None,
         principal |-> None, value |-> None, found |-> {}]

TypeOK ==
    /\ managing \subseteq Users
    /\ server \in Server
    /\ row \in [Docs -> Maybe(Row)]
    /\ acl \in [Docs -> SUBSET Principals]
    /\ members \in [Groups -> SUBSET Users]
    /\ cache \in [Docs -> Maybe(Value)]
    /\ request \in [Requests -> Request]
    /\ generation \in 0..MaxGenerations
    /\ open \subseteq Requests \X Docs
    /\ shown \subseteq Docs
    /\ excused \subseteq Docs
    /\ \A d \in Docs : row[d] = None => acl[d] = {}

Init ==
    /\ managing \in SUBSET Users
    /\ server = NoServer
    /\ row = [d \in Docs |-> None]
    /\ acl = [d \in Docs |-> {}]
    /\ members = [g \in Groups |-> {}]
    /\ cache = [d \in Docs |-> None]
    /\ request = [r \in Requests |-> Idle]
    /\ generation = 0
    /\ open = {}
    /\ shown = {}
    /\ excused = {}

-----------------------------------------------------------------------------
\* The entries of the ACL that name a user or a group of his.
Listed(u, d) == acl[d] \intersect ({u} \union {g \in Groups : u \in members[g]}) # {}

\* The condition of list_documents and of each query of search.
Visible(u, d) ==
    /\ row[d] # None
    /\ row[d].visibility = "workspace" \/ row[d].owner = u \/ Listed(u, d)

\* can_access_document: managers and owners of the workspace read everything;
\* `manages` is what the caller's context says of the role of u.
CanAccess(u, manages, d) == row[d] # None /\ (manages \/ Visible(u, d))

\* What u may read, by the role he has now.
Readable(u, d) == CanAccess(u, u \in managing, d)

\* What a reader of the row and its chunks gets at this moment.
Current(d) == [generation |-> row[d].generation, chunks |-> TRUE]

\* Fault for checking: the ACL outlives its document.
RemoveKeepsAcl(d) == row' = [row EXCEPT ![d] = None] /\ UNCHANGED acl

\* The row goes, and with it, by the foreign keys, its ACL.
Remove(d) ==
    /\ row' = [row EXCEPT ![d] = None]
    /\ acl' = [acl EXCEPT ![d] = {}]

\* Requests that hold what they read of a document and may cache it.
Readers(d) == {r \in Requests :
    request[r].kind = "get" /\ request[r].doc = d /\ request[r].pc \in {"chunks", "fill"}}

\* Nothing that is out of date is left of d.
Forgotten(d) == IF Readers(d) = {} THEN excused \ {d} ELSE excused

Goto(r, pc) == request' = [request EXCEPT ![r].pc = pc]
End(r) == request' = [request EXCEPT ![r] = Idle]

-----------------------------------------------------------------------------
(***************************************************************************)
(* The workers, the groups and Redis.                                       *)
(***************************************************************************)
\* A worker inserts the row of a document: open to the workspace, no ACL.
Insert(d) ==
    /\ row[d] = None
    /\ generation < MaxGenerations
    /\ generation' = generation + 1
    /\ \E u \in Owners :
        row' = [row EXCEPT ![d] = [generation |-> generation + 1, visibility |-> "workspace", owner |-> u]]
    /\ UNCHANGED <<managing, server, acl, members, cache, request, excused>>

\* A worker replaces the document of a name by one with another id: the row
\* goes; the worker knows nothing of the cache.
Replace(d) ==
    /\ row[d] # None
    /\ Remove(d)
    /\ excused' = IF cache[d] = None /\ Readers(d) = {} THEN excused ELSE excused \union {d}
    /\ UNCHANGED <<managing, server, members, cache, request, generation>>

\* add_group_member and remove_group_member.
ChangeMembers(g, u) ==
    /\ members' = [members EXCEPT ![g] = IF u \in @ THEN @ \ {u} ELSE @ \union {u}]
    /\ UNCHANGED <<managing, server, row, acl, cache, request, generation, excused>>

\* change_user_role and accept_invitation write another role.
ChangeRole(u) ==
    /\ managing' = IF u \in managing THEN managing \ {u} ELSE managing \union {u}
    /\ UNCHANGED <<server, row, acl, members, cache, request, generation, excused>>

\* The TTL of a cached value runs out.
Expire(d) ==
    /\ cache[d] # None
    /\ cache' = [cache EXCEPT ![d] = None]
    /\ excused' = Forgotten(d)
    /\ UNCHANGED <<tables, server, request, generation>>

\* The MCP server authenticates once, when its process starts.
StartServer(u) ==
    /\ server = NoServer
    /\ server' = [user |-> u, manages |-> u \in managing]
    /\ UNCHANGED <<tables, cache, request, generation, excused>>

\* Its requests end with the process.
StopServer ==
    /\ server # NoServer
    /\ server' = NoServer
    /\ request' = [r \in Requests |-> IF request[r].kind = "tool" THEN Idle ELSE request[r]]
    /\ UNCHANGED <<tables, cache, generation, excused>>

-----------------------------------------------------------------------------
(***************************************************************************)
(* Reads.                                                                   *)
(***************************************************************************)
\* Fault for checking: what is cached is answered without asking for access.
AdmittedUnlessCached(q) == CanAccess(q.user, q.manages, q.doc) \/ (q.kind = "get" /\ cache[q.doc] # None)

\* can_access_document gets the context the request goes on with.
Admitted(q) == CanAccess(q.user, q.manages, q.doc)

Begin(r, kind, pc, u, manages, d) ==
    /\ request[r].pc = "idle"
    /\ request' = [request EXCEPT ![r] = [Idle EXCEPT !.kind = kind, !.pc = pc, !.user = u,
                                                     !.manages = manages, !.doc = d]]
    /\ UNCHANGED <<tables, server, cache, generation, excused>>

\* authenticate reads the role of the user.
Authenticate(r, kind, pc) ==
    \E u \in Users, d \in Docs : Begin(r, kind, pc, u, u \in managing, d)

\* GET /v1/documents/{id}.
BeginGet(r) == Authenticate(r, "get", "admit")

\* get_document and graph of the MCP server, which has no cache, and its search
\* and list: for the user, and with the role, of the process.
BeginTool(r) ==
    /\ server # NoServer
    /\ \E d \in Docs :
        \/ Begin(r, "tool", "admit", server.user, server.manages, d)
        \/ \E pc \in {"keyword", "graph"} : Begin(r, "search", pc, server.user, FALSE, d)

\* GET .../download: the row, then the object, which ObjectTiers models.
BeginDownload(r) == Authenticate(r, "download", "admit")

\* GET .../acl, for managers (require_role): the row, then its entries.
BeginAcl(r) == \E u \in managing, d \in Docs : Begin(r, "acl", "row", u, TRUE, d)

\* GET .../graph reads the graph without looking at the row.
BeginGraph(r) == Authenticate(r, "graph", "admit")

\* GET .../lineage: its events outlive the document.
BeginLineage(r) == Authenticate(r, "graph", "admit")

\* GET .../versions reads the row before it asks for access.
BeginVersions(r) == Authenticate(r, "versions", "row")

\* POST /v1/search and the agent: three queries, of which a mode may skip the
\* second. They ask for the user only, whatever his role.
BeginSearch(r) == \E u \in Users, d \in Docs : Begin(r, "search", "keyword", u, FALSE, d)

\* GET /v1/documents: one query, with the condition of those of a search.
BeginList(r) == \E u \in Users, d \in Docs : Begin(r, "search", "graph", u, FALSE, d)

\* What a handler does first once it has asked for access.
Opening == [get |-> "cache", tool |-> "row", download |-> "row", graph |-> "chunks", versions |-> "versions"]

\* The ACL comes before everything else, before the cache too; then the role has
\* done its work.
Admit(r) ==
    /\ request[r].pc = "admit"
    /\ \/ /\ Admitted(request[r])
          /\ request' = [request EXCEPT ![r].pc = Opening[request[r].kind], ![r].manages = FALSE]
       \/ ~Admitted(request[r]) /\ End(r)
    /\ UNCHANGED <<tables, server, cache, generation, excused>>

\* The versions of the name the row had, whatever has become of the row.
ReadVersions(r) ==
    /\ request[r].pc = "versions"
    /\ Goto(r, "answered")
    /\ UNCHANGED <<tables, server, cache, generation, excused>>

\* A hit is the answer; a miss, and any error of Redis, goes on to the database.
ReadCache(r) ==
    LET q == request[r]
    IN  /\ q.pc = "cache"
        /\ \/ /\ cache[q.doc] # None
              /\ request' = [request EXCEPT ![r].pc = "answered", ![r].value = cache[q.doc]]
           \/ Goto(r, "row")
        /\ UNCHANGED <<tables, server, cache, generation, excused>>

\* What a handler does once it has the row.
AfterRow == [get |-> "chunks", tool |-> "chunks", download |-> "answered", acl |-> "answered", versions |-> "admit"]

\* get_document of the store.
ReadRow(r) ==
    LET q == request[r]
    IN  /\ q.pc = "row"
        /\ IF row[q.doc] = None THEN End(r)
           ELSE request' = [request EXCEPT ![r].pc = AfterRow[q.kind],
                                ![r].value = IF q.kind = "get" THEN Current(q.doc) ELSE None]
        /\ UNCHANGED <<tables, server, cache, generation, excused>>

\* chunks_for_document, the graph or the lineage: empty once the row is gone.
ReadChunks(r) ==
    LET q == request[r]
    IN  /\ q.pc = "chunks"
        /\ request' = [request EXCEPT
                ![r].value = IF @ = None THEN None ELSE [@ EXCEPT !.chunks = row[q.doc] # None],
                ![r].pc = IF q.kind = "get" THEN "fill" ELSE "answered"]
        /\ UNCHANGED <<tables, server, cache, generation, excused>>

\* record_and_cache counts the read and caches what is read often; any error
\* of Redis is swallowed.
Fill(r) ==
    /\ request[r].pc = "fill"
    /\ Goto(r, "answered")
    /\ \/ UNCHANGED cache
       \/ cache' = [cache EXCEPT ![request[r].doc] = request[r].value]
    /\ UNCHANGED <<tables, server, generation, excused>>

\* The keyword, the vector and the graph query of a search each find some of
\* what the user may see by then.
Query(r) ==
    LET q == request[r]
    IN  /\ q.pc \in {"keyword", "vector", "graph"}
        /\ \E hits \in SUBSET {d \in Docs : Visible(q.user, d)} :
            request' = [request EXCEPT ![r].found = @ \union hits,
                            ![r].pc = CASE q.pc = "keyword" -> "vector"
                                        [] q.pc = "vector" -> "graph"
                                        [] q.pc = "graph" -> "answered"]
        /\ UNCHANGED <<tables, server, cache, generation, excused>>

Finish(r) ==
    /\ request[r].pc = "answered"
    /\ End(r)
    /\ UNCHANGED <<tables, server, cache, generation, excused>>

-----------------------------------------------------------------------------
(***************************************************************************)
(* Deletions and changes of the ACL, by managers (require_role). Nothing     *)
(* else of the manager matters to them, so who he is is left out.            *)
(***************************************************************************)
Change(r, kind, pc, d, p) ==
    /\ request[r].pc = "idle"
    /\ request' = [request EXCEPT ![r] = [Idle EXCEPT !.kind = kind, !.pc = pc, !.doc = d, !.principal = p]]

\* A grant first looks whether the document exists, in a transaction of its own.
BeginGrant(r, p) ==
    /\ \E d \in Docs : row[d] # None /\ Change(r, "grant", "change", d, p)
    /\ UNCHANGED <<tables, server, cache, generation, excused>>

\* DELETE /v1/documents/{id}.
Delete(r) ==
    /\ \E d \in Docs :
        /\ row[d] # None
        /\ Change(r, "delete", "invalidate", d, None)
        /\ Remove(d)
        /\ excused' = IF Readers(d) = {} THEN excused ELSE excused \union {d}
    /\ UNCHANGED <<managing, server, members, cache, generation>>

\* The foreign key refuses an entry for a document that is gone.
Grant(r) ==
    LET d == request[r].doc
    IN  /\ request[r].kind = "grant" /\ request[r].pc = "change"
        /\ IF row[d] = None
           THEN End(r) /\ UNCHANGED <<row, acl>>
           ELSE /\ acl' = [acl EXCEPT ![d] = @ \union {request[r].principal}]
                /\ row' = [row EXCEPT ![d].visibility = "restricted"]
                /\ request' = [request EXCEPT ![r].pc = "invalidate", ![r].principal = None]
        /\ UNCHANGED <<managing, server, members, cache, generation, excused>>

\* Fault for checking: the last entry gone, the document is everybody's again.
RevokeResets(r, p) ==
    /\ \E d \in Docs :
        /\ p \in acl[d]
        /\ Change(r, "revoke", "invalidate", d, None)
        /\ acl' = [acl EXCEPT ![d] = @ \ {p}]
        /\ row' = IF acl[d] = {p} THEN [row EXCEPT ![d].visibility = "workspace"] ELSE row
    /\ UNCHANGED <<managing, server, members, cache, generation, excused>>

\* The visibility stays as it is, whatever is left of the ACL.
Revoke(r, p) ==
    /\ \E d \in Docs :
        /\ p \in acl[d]
        /\ Change(r, "revoke", "invalidate", d, None)
        /\ acl' = [acl EXCEPT ![d] = @ \ {p}]
    /\ UNCHANGED <<managing, server, row, members, cache, generation, excused>>

\* Fault for checking: only changes of the ACL drop the cached value.
InvalidateAcl(r) ==
    LET d == request[r].doc
    IN  /\ request[r].pc = "invalidate"
        /\ cache' = IF request[r].kind = "delete" THEN cache ELSE [cache EXCEPT ![d] = None]
        /\ End(r)
        /\ UNCHANGED <<tables, server, generation, excused>>

\* What a deletion that drops nothing leaves in the cache is out of date.
Left(r) == IF request[r].kind = "delete" THEN excused \union {request[r].doc} ELSE excused

\* The cached value is dropped after the change; an error of Redis is swallowed.
Invalidate(r) ==
    LET d == request[r].doc
    IN  /\ request[r].pc = "invalidate"
        /\ \/ cache' = [cache EXCEPT ![d] = None] /\ excused' = Forgotten(d)
           \/ UNCHANGED cache /\ excused' = Left(r)
        /\ End(r)
        /\ UNCHANGED <<tables, server, generation>>

\* A handler raises, or its process dies; what it has committed stays.
Die(r) ==
    /\ request[r].pc # "idle"
    /\ excused' = IF request[r].pc = "invalidate" THEN Left(r) ELSE excused
    /\ End(r)
    /\ UNCHANGED <<tables, server, cache, generation>>

-----------------------------------------------------------------------------
ReadStep(r) ==
    \/ BeginGet(r) \/ BeginTool(r) \/ BeginDownload(r) \/ BeginAcl(r) \/ BeginGraph(r)
    \/ BeginLineage(r) \/ BeginVersions(r) \/ BeginSearch(r) \/ BeginList(r)
    \/ Admit(r) \/ ReadVersions(r) \/ ReadCache(r) \/ ReadRow(r) \/ ReadChunks(r)
    \/ Fill(r) \/ Query(r) \/ Finish(r)

ChangeStep(r) ==
    \/ Delete(r) \/ Grant(r) \/ Invalidate(r) \/ Die(r)
    \/ \E p \in Principals : BeginGrant(r, p) \/ Revoke(r, p)

OutsideStep ==
    \/ \E d \in Docs : Insert(d) \/ Replace(d) \/ Expire(d)
    \/ \E g \in Groups, u \in Users : ChangeMembers(g, u)
    \/ \E u \in Users : ChangeRole(u) \/ StartServer(u)
    \/ StopServer

\* Requests under way to documents their users can read, and what the user of
\* the MCP server can read.
Openings == {e \in Requests \X Docs :
                request[e[1]].user # None /\ Readable(request[e[1]].user, e[2])}
Showing == {d \in Docs : server.user # None /\ Readable(server.user, d)}

Next ==
    /\ OutsideStep \/ \E r \in Requests : ReadStep(r) \/ ChangeStep(r)
    /\ open' = {e \in open : request'[e[1]].pc # "idle"} \union Openings'
    /\ shown' = (IF server' = NoServer THEN {} ELSE shown) \union Showing'

Spec == Init /\ [][Next]_vars

-----------------------------------------------------------------------------
(***************************************************************************)
(* Properties.                                                              *)
(***************************************************************************)
\* The documents in the answer to a request.
Answer(q) == IF q.kind = "search" THEN q.found ELSE {q.doc}

\* Whatever changes between the steps of a request, and whatever the cache
\* holds, a document is in its answer only if its user could read it at some
\* moment since the request began. An MCP server started by a manager answers
\* what he could read at some moment since it was started.
AnswersAreOpen ==
    \A r \in Requests : request[r].pc = "answered" =>
        \A d \in Answer(request[r]) :
            \/ <<r, d>> \in open
            \/ request[r].kind = "tool" /\ server.manages /\ d \in shown

\* A cached value that is not the one a reader would get now has a cause: its
\* deletion is about to invalidate it, a reader had read it before, Redis failed
\* to drop it or the deletion died before, or a worker replaced the document,
\* which invalidates nothing. Once the value is dropped the cause is over.
StaleCacheHasCause ==
    \A d \in Docs : (cache[d] # None /\ d \notin excused) =>
        \/ row[d] # None /\ cache[d] = Current(d)
        \/ \E r \in Requests : request[r].kind = "delete" /\ request[r].doc = d /\ request[r].pc = "invalidate"

\* Nobody comes to read a document but by a new entry in its ACL, by joining a
\* group, by becoming a manager, or because it is indexed anew: taking entries
\* away opens it to nobody.
AccessGrowsByGrant ==
    [][\A u \in Users, d \in Docs : ~Readable(u, d) /\ Readable(u, d)' =>
        \/ row[d] = None
        \/ acl'[d] \ acl[d] # {}
        \/ \E g \in Groups : u \in members'[g] \ members[g]
        \/ u \in managing' \ managing]_vars
=============================================================================
