----------------------- MODULE DocumentReads_proofs ------------------------
(***************************************************************************)
(* Proofs about DocumentReads, for any users, groups and documents and any  *)
(* number of requests at once: type correctness, that an answer holds only  *)
(* what its reader could read since he asked, that a stale value in the     *)
(* cache has one of the named causes, and what access grows by.             *)
(***************************************************************************)
EXTENDS DocumentReads, TLAPS

\* What a request has to do at each of its steps, and for whom.
RequestOK(q) ==
    /\ q \in Request
    /\ q.pc = "idle" => q = Idle
    /\ q.pc = "admit" => q.kind \in {"get", "tool", "download", "graph", "versions"}
    /\ q.pc = "versions" => q.kind = "versions"
    /\ q.pc \in {"cache", "fill"} => q.kind = "get"
    /\ q.pc = "row" => q.kind \in {"get", "tool", "download", "acl", "versions"}
    /\ q.pc = "row" /\ q.kind = "acl" => q.manages
    /\ q.pc = "chunks" => q.kind \in {"get", "tool", "graph"}
    /\ q.pc \in {"keyword", "vector", "graph"} => q.kind = "search"
    /\ q.pc = "change" => q.kind = "grant" /\ q.principal # None
    /\ q.pc = "invalidate" => q.kind \in {"delete", "grant", "revoke"}
    /\ q.pc = "answered" => q.kind \in {"get", "tool", "download", "acl", "graph", "versions", "search"}
    /\ q.pc \notin {"idle", "change", "invalidate"} => q.user # None
    /\ q.pc # "idle" => q.doc # None
    /\ q.kind # "search" => q.found = {}
    /\ q.manages => q.user # None /\ q.pc \notin {"change", "invalidate"}

\* A request may answer its document: its user could read it since it began, or
\* could when the MCP server that answers was started by a manager.
May(r, q, o, srv, sh) == <<r, q.doc>> \in o \/ (q.kind = "tool" /\ srv.manages /\ q.doc \in sh)

\* What a request has been admitted to it may answer; what a search has found,
\* and what there is of a document for whoever authenticated as a manager, could
\* be read since it began; and tools act for the server.
Opened(r, q, o, rows, srv, sh) ==
    /\ q.pc \in {"versions", "cache", "chunks", "fill"} => May(r, q, o, srv, sh)
    /\ q.pc = "row" /\ q.kind \in {"get", "tool", "download"} => May(r, q, o, srv, sh)
    /\ q.pc = "answered" /\ q.kind # "search" => May(r, q, o, srv, sh)
    /\ \A d \in q.found : <<r, d>> \in o
    /\ q.manages /\ q.kind # "tool" /\ rows[q.doc] # None => <<r, q.doc>> \in o
    /\ q.kind = "tool" => srv # NoServer /\ q.user = srv.user /\ (q.manages => srv.manages)

\* The server acts for a user; one that was started by a manager could be shown
\* whatever document there is.
ServerOK(rows, srv, sh) ==
    /\ srv # NoServer => srv.user \in Users
    /\ srv.manages => \A d \in Docs : rows[d] # None => d \in sh

\* What a reader holds and may cache is current while its document is not
\* excused.
IsHeld(q, rows, exc) ==
    q.pc \in {"chunks", "fill"} /\ q.kind = "get" /\ q.doc \notin exc =>
        rows[q.doc] # None /\ q.value = [generation |-> rows[q.doc].generation, chunks |-> TRUE]

IInv ==
    /\ TypeOK
    /\ \A r \in Requests : /\ RequestOK(request[r])
                           /\ Opened(r, request[r], open, row, server, shown)
                           /\ IsHeld(request[r], row, excused)
    /\ ServerOK(row, server, shown)
    /\ StaleCacheHasCause

\* How a step records who can read what.
Tracks ==
    /\ open' = {e \in open : request'[e[1]].pc # "idle"} \union Openings'
    /\ shown' = (IF server' = NoServer THEN {} ELSE shown) \union Showing'

-----------------------------------------------------------------------------
\* "Nothing" is none of what it stands beside.
LEMMA NoneIsNothing ==
  /\ None \notin Users /\ None \notin Groups /\ None \notin Principals /\ None \notin Docs
  /\ None \notin Row /\ None \notin Value
  BY DocumentReadsAssumption DEF Principals

LEMMA IdleIsOK ==
  /\ RequestOK(Idle) /\ \A r, o, rows, srv, sh : Opened(r, Idle, o, rows, srv, sh)
  /\ \A rows, exc : IsHeld(Idle, rows, exc)
  BY DEF RequestOK, Idle, Request, Maybe, Opened, IsHeld

\* A request of the invariant.
LEMMA Known ==
  ASSUME IInv, NEW r \in Requests
  PROVE  /\ request[r] \in Request /\ RequestOK(request[r])
         /\ Opened(r, request[r], open, row, server, shown) /\ IsHeld(request[r], row, excused)
         /\ request \in [Requests -> Request]
         /\ request[r].user \in Users \union {None} /\ request[r].doc \in Docs \union {None}
         /\ request[r].value \in Value \union {None} /\ request[r].found \subseteq Docs
  BY DEF IInv, TypeOK, RequestOK, Request, Maybe

\* Who can read a document once a step is over could read it since his request
\* began.
LEMMA Admits ==
  ASSUME UNCHANGED tables, Tracks, NEW r \in Requests, NEW d \in Docs, NEW u,
         request'[r].user = u, u # None, Readable(u, d)
  PROVE  <<r, d>> \in open'
<1>1. Readable(u, d)'
  BY DEF tables, Readable, CanAccess, Visible, Listed
<1> QED
  BY <1>1 DEF Tracks, Openings

\* What a request has been open to stays so until it is over.
LEMMA Keeps ==
  ASSUME IInv, Tracks, NEW r \in Requests, NEW d, <<r, d>> \in open, request'[r].pc # "idle"
  PROVE  <<r, d>> \in open'
  BY DEF Tracks, IInv, TypeOK

\* What the server has been shown stays so until it stops.
LEMMA ShownStays ==
  ASSUME Tracks, server' = server, server # NoServer
  PROVE  shown \subseteq shown'
  BY DEF Tracks

\* Documents come to be open to the whole workspace.
RowsAppear == \A d \in Docs : row'[d] # None => row[d] # None \/ row'[d].visibility = "workspace"

\* A request that goes on with its document, with the role it has or without it.
LEMMA CarriesOn ==
  ASSUME IInv, Tracks, server' = server, RowsAppear, NEW r \in Requests, NEW q, request'[r] = q,
         request[r].pc # "idle", q.pc # "idle", q.kind = request[r].kind, q.user = request[r].user,
         q.doc = request[r].doc, q.manages \in BOOLEAN, q.manages => request[r].manages
  PROVE  /\ q.manages /\ q.kind # "tool" /\ row'[q.doc] # None => <<r, q.doc>> \in open'
         /\ q.kind = "tool" => server' # NoServer /\ q.user = server'.user /\ (q.manages => server'.manages)
         /\ May(r, request[r], open, server, shown) => May(r, q, open', server', shown')
         /\ \A d : <<r, d>> \in open => <<r, d>> \in open'
<1>1. \A d : <<r, d>> \in open => <<r, d>> \in open'
  BY Keeps
<1>2. q.kind = "tool" => server' # NoServer /\ q.user = server'.user /\ (q.manages => server'.manages)
  BY Known DEF Opened
<1>3. May(r, request[r], open, server, shown) => May(r, q, open', server', shown')
  BY <1>1, <1>2, ShownStays DEF May
<1>4. ASSUME q.manages, q.kind # "tool", row'[q.doc] # None PROVE <<r, q.doc>> \in open'
  <2>1. q.doc \in Docs /\ q.user # None
    BY <1>4, Known DEF RequestOK
  <2>2. CASE row[q.doc] # None
    BY <1>1, <1>4, <2>2, Known DEF Opened
  <2>3. CASE row[q.doc] = None
    <3>1. Readable(q.user, q.doc)'
      BY <1>4, <2>1, <2>3 DEF RowsAppear, Readable, CanAccess, Visible
    <3> QED
      BY <2>1, <3>1 DEF Tracks, Openings
  <2> QED
    BY <2>2, <2>3
<1> QED
  BY <1>1, <1>2, <1>3, <1>4

\* Requests forget nothing before they are over.
LEMMA StaysOpened ==
  ASSUME IInv, Tracks, server' = server, RowsAppear, NEW s \in Requests, request'[s] = request[s]
  PROVE  Opened(s, request[s], open', row', server', shown')
<1>1. CASE request[s].pc = "idle"
  BY <1>1, Known, IdleIsOK DEF RequestOK
<1>2. CASE request[s].pc # "idle"
  <2>1. request[s].manages \in BOOLEAN
    BY Known DEF Request
  <2> QED
    BY <1>2, <2>1, CarriesOn, Known DEF Opened
<1> QED
  BY <1>1, <1>2

LEMMA OpenStays ==
  ASSUME IInv, Tracks, server' = server, RowsAppear,
         NEW r \in Requests, NEW q, request' = [request EXCEPT ![r] = q],
         Opened(r, q, open', row', server', shown')
  PROVE  \A s \in Requests : Opened(s, request'[s], open', row', server', shown')
  BY StaysOpened, Known

\* The server could be shown what comes to be.
LEMMA ServerStays ==
  ASSUME IInv, Tracks, server' = server, RowsAppear
  PROVE  ServerOK(row', server', shown')
<1>1. (server # NoServer => server.user \in Users) /\ (server.manages => server # NoServer)
  BY DEF IInv, ServerOK, NoServer
<1>2. ASSUME server.manages, NEW d \in Docs, row'[d] # None PROVE d \in shown'
  <2>1. CASE row[d] # None
    BY <1>1, <1>2, <2>1, ShownStays DEF IInv, ServerOK
  <2>2. CASE row[d] = None
    <3>1. (\A u : Readable(u, d)') /\ server'.user # None
      BY <1>1, <1>2, <2>2, NoneIsNothing DEF RowsAppear, Readable, CanAccess, Visible
    <3> QED
      BY <3>1 DEF Tracks, Showing
  <2> QED
    BY <2>1, <2>2
<1> QED
  BY <1>1, <1>2 DEF ServerOK

\* A step's records stay of requests and documents.
LEMMA OpenType == ASSUME TypeOK, Tracks PROVE open' \subseteq Requests \X Docs /\ shown' \subseteq Docs
  BY DEF TypeOK, Tracks, Openings, Showing

\* A request reads, or begins to: its step changes no document.
LEMMA ReadGoesOn ==
  ASSUME IInv, Tracks, NEW r \in Requests, NEW q, request' = [request EXCEPT ![r] = q], RequestOK(q),
         UNCHANGED <<tables, server, generation, excused>>,
         cache' = cache \/ \E d \in Docs : /\ cache' = [cache EXCEPT ![d] = request[r].value]
                                           /\ request[r].pc = "fill" /\ request[r].doc = d,
         request[r].pc # "invalidate", Opened(r, q, open', row, server, shown'), IsHeld(q, row, excused)
  PROVE  IInv'
<1> USE DEF tables
<1>0. RowsAppear
  BY DEF RowsAppear
<1>1. \A s \in Requests : Opened(s, request'[s], open', row', server', shown')
  BY <1>0, OpenStays
<1>2. request'[r] = q /\ \A s \in Requests \ {r} : request'[s] = request[s]
  BY Known
<1>3. \A s \in Requests : RequestOK(request'[s]) /\ IsHeld(request'[s], row', excused')
  BY <1>2, Known DEF IsHeld, Current
<1>4. cache' \in [Docs -> Maybe(Value)]
  BY Known DEF IInv, TypeOK, Maybe
<1>5. TypeOK'
  BY <1>3, <1>4, OpenType, Known DEF IInv, TypeOK, RequestOK
<1>6. StaleCacheHasCause'
  <2> SUFFICES ASSUME NEW d \in Docs, cache'[d] # None, d \notin excused
               PROVE  \/ row[d] # None /\ cache'[d] = Current(d)
                      \/ \E s \in Requests :
                            request'[s].kind = "delete" /\ request'[s].doc = d /\ request'[s].pc = "invalidate"
    BY DEF StaleCacheHasCause, Current
  <2>1. CASE cache'[d] = cache[d]
    <3>1. CASE row[d] # None /\ cache[d] = Current(d)
      BY <2>1, <3>1
    <3>2. CASE \E s \in Requests :
                  request[s].kind = "delete" /\ request[s].doc = d /\ request[s].pc = "invalidate"
      BY <1>2, <3>2
    <3> QED
      BY <2>1, <3>1, <3>2 DEF IInv, StaleCacheHasCause
  <2>2. CASE request[r].pc = "fill" /\ request[r].doc = d /\ cache'[d] = request[r].value
    BY <2>2, Known DEF IsHeld, RequestOK, Current
  <2> QED
    BY <2>1, <2>2 DEF IInv, TypeOK
<1> QED
  BY <1>0, <1>1, <1>3, <1>5, <1>6, ServerStays DEF IInv

\* A request begins to read.
LEMMA BeginRead ==
  ASSUME IInv, Tracks, NEW r \in Requests, NEW u \in Users, NEW d \in Docs, NEW kind, NEW pc, NEW manages \in BOOLEAN,
         Begin(r, kind, pc, u, manages, d),
         \/ kind = "search" /\ pc \in {"keyword", "graph"} /\ ~manages
         \/ kind \in {"get", "download", "graph"} /\ pc = "admit" /\ manages = (u \in managing)
         \/ kind = "versions" /\ pc = "row" /\ manages = (u \in managing)
         \/ kind = "acl" /\ pc = "row" /\ manages /\ u \in managing
         \/ kind = "tool" /\ pc = "admit" /\ server # NoServer /\ u = server.user /\ manages = server.manages
  PROVE  IInv'
<1> DEFINE q == [Idle EXCEPT !.kind = kind, !.pc = pc, !.user = u, !.manages = manages, !.doc = d]
<1>1. /\ q.kind = kind /\ q.pc = pc /\ q.user = u /\ q.doc = d /\ q.manages = manages
      /\ q.found = {} /\ q.value = None /\ q.principal = None
  BY DEF Idle
<1>2. q \in Request
  BY DEF Idle, Request, Maybe
<1>3. /\ request' = [request EXCEPT ![r] = q] /\ request[r].pc = "idle"
      /\ UNCHANGED <<tables, server, cache, generation, excused>>
  BY DEF Begin
<1> HIDE DEF q
<1>4. RequestOK(q)
  BY <1>1, <1>2, NoneIsNothing DEF RequestOK
<1>5. ASSUME manages, kind # "tool", row[d] # None PROVE <<r, d>> \in open'
  <2>1. request'[r].user = u /\ u # None
    BY <1>1, <1>3, Known, NoneIsNothing
  <2>2. Readable(u, d)
    BY <1>5 DEF Readable, CanAccess
  <2> QED
    BY <1>3, <2>1, <2>2, Admits
<1>6. Opened(r, q, open', row, server, shown')
  BY <1>1, <1>5 DEF Opened
<1>7. IsHeld(q, row, excused)
  BY <1>1 DEF IsHeld
<1> QED
  BY <1>3, <1>4, <1>6, <1>7, ReadGoesOn

LEMMA BeginReads ==
  ASSUME IInv, Tracks, NEW r \in Requests,
         \/ BeginGet(r) \/ BeginTool(r) \/ BeginDownload(r) \/ BeginAcl(r) \/ BeginGraph(r)
         \/ BeginLineage(r) \/ BeginVersions(r) \/ BeginSearch(r) \/ BeginList(r)
  PROVE  IInv'
<1>1. CASE BeginTool(r)
  <2>1. server # NoServer /\ server.user \in Users /\ server.manages \in BOOLEAN
    BY <1>1 DEF BeginTool, IInv, ServerOK, TypeOK, Server
  <2> QED
    BY <1>1, <2>1, BeginRead DEF BeginTool
<1>2. CASE BeginAcl(r)
  <2>1. managing \subseteq Users
    BY DEF IInv, TypeOK
  <2> QED
    BY <1>2, <2>1, BeginRead DEF BeginAcl
<1>3. ASSUME NEW kind, NEW pc, Authenticate(r, kind, pc),
             (kind \in {"get", "download", "graph"} /\ pc = "admit") \/ (kind = "versions" /\ pc = "row")
      PROVE  IInv'
  <2>1. PICK u \in Users, d \in Docs : Begin(r, kind, pc, u, u \in managing, d)
    BY <1>3 DEF Authenticate
  <2>2. (u \in managing) \in BOOLEAN
    OBVIOUS
  <2> DEFINE manages == u \in managing
  <2>3. Begin(r, kind, pc, u, manages, d) /\ manages \in BOOLEAN /\ manages = (u \in managing)
    BY <2>1, <2>2
  <2> HIDE DEF manages
  <2> QED
    BY <1>3, <2>3, BeginRead
<1>4. CASE BeginSearch(r) \/ BeginList(r)
  BY <1>4, BeginRead DEF BeginSearch, BeginList
<1> QED
  BY <1>1, <1>2, <1>3, <1>4 DEF BeginGet, BeginDownload, BeginGraph, BeginLineage, BeginVersions

\* A request gets to its next step.
LEMMA Goes ==
  ASSUME IInv, NEW r \in Requests, NEW pc, Goto(r, pc), pc \in {"row", "answered"}
  PROVE  \E q \in Request :
            /\ request' = [request EXCEPT ![r] = q] /\ request'[r] = q
            /\ q.pc = pc /\ q.kind = request[r].kind /\ q.user = request[r].user
            /\ q.manages = request[r].manages /\ q.doc = request[r].doc /\ q.found = request[r].found
<1> DEFINE q == [request[r] EXCEPT !.pc = pc]
<1>1. request' = [request EXCEPT ![r] = q]
  BY Known DEF Goto
<1>2. q \in Request
  BY Known DEF Request
<1>3. /\ q.pc = pc /\ q.kind = request[r].kind /\ q.user = request[r].user
      /\ q.manages = request[r].manages /\ q.doc = request[r].doc /\ q.found = request[r].found
  BY Known DEF Request
<1> HIDE DEF q
<1> QED
  BY <1>1, <1>2, <1>3, Known

LEMMA EndRead ==
  ASSUME IInv, Tracks, NEW r \in Requests, End(r), request[r].pc # "invalidate",
         UNCHANGED <<tables, server, cache, generation, excused>>
  PROVE  IInv'
  BY IdleIsOK, ReadGoesOn DEF End

\* A request goes on reading, with what it may answer.
LEMMA ReadsOn ==
  ASSUME IInv, Tracks, NEW r \in Requests, NEW q \in Request,
         request' = [request EXCEPT ![r] = q], request'[r] = q,
         request[r].pc \notin {"idle", "invalidate"}, q.pc # "idle", RequestOK(q),
         q.kind = request[r].kind, q.user = request[r].user, q.doc = request[r].doc,
         q.found = request[r].found, q.manages => request[r].manages,
         UNCHANGED <<tables, server, generation, excused>>,
         cache' = cache \/ \E d \in Docs : /\ cache' = [cache EXCEPT ![d] = request[r].value]
                                           /\ request[r].pc = "fill" /\ request[r].doc = d,
         May(r, request[r], open, server, shown) \/ q.pc = "admit"
           \/ <<r, q.doc>> \in open',
         IsHeld(q, row, excused)
  PROVE  IInv'
<1>1. RowsAppear /\ row' = row /\ server' = server
  BY DEF RowsAppear, tables
<1>2. q.manages \in BOOLEAN
  BY DEF Request
<1>3. /\ q.manages /\ q.kind # "tool" /\ row[q.doc] # None => <<r, q.doc>> \in open'
      /\ q.kind = "tool" => server # NoServer /\ q.user = server.user /\ (q.manages => server.manages)
      /\ May(r, request[r], open, server, shown) => May(r, q, open', server, shown')
      /\ \A d : <<r, d>> \in open => <<r, d>> \in open'
  BY <1>1, <1>2, CarriesOn
<1>4. \A d \in q.found : <<r, d>> \in open'
  BY <1>3, Known DEF Opened
<1>5. Opened(r, q, open', row, server, shown')
  BY <1>3, <1>4 DEF Opened, May
<1> QED
  BY <1>5, ReadGoesOn

\* can_access_document with the role that the request carries.
LEMMA AdmitStep ==
  ASSUME IInv, Tracks, NEW r \in Requests, Admit(r)
  PROVE  IInv'
<1> DEFINE k == request[r].kind
           d == request[r].doc
           q == [request[r] EXCEPT !.pc = Opening[k], !.manages = FALSE]
<1>1. /\ UNCHANGED <<tables, server, cache, generation, excused>> /\ request[r].pc = "admit"
      /\ k \in {"get", "tool", "download", "graph", "versions"}
      /\ request[r].user # None /\ d # None /\ d \in Docs /\ request[r].found = {}
  BY Known DEF Admit, RequestOK
<1>2. CASE End(r)
  BY <1>1, <1>2, EndRead
<1>3. CASE Admitted(request[r]) /\ request' = [request EXCEPT ![r] = q]
  <2>1. /\ Opening[k] \in {"cache", "row", "chunks", "versions"}
        /\ Opening[k] = "cache" => k = "get"
        /\ Opening[k] = "row" => k \in {"tool", "download"}
        /\ Opening[k] = "chunks" => k = "graph"
        /\ Opening[k] = "versions" => k = "versions"
    BY <1>1 DEF Opening
  <2>2. /\ q \in Request /\ q.pc = Opening[k] /\ q.kind = k /\ q.user = request[r].user /\ q.doc = d
        /\ q.found = {} /\ q.manages = FALSE
    BY <1>1, <2>1, Known DEF Request
  <2> HIDE DEF q
  <2>3. request'[r] = q
    BY <1>3, Known
  <2>4. RequestOK(q) /\ IsHeld(q, row, excused)
    BY <1>1, <2>1, <2>2, NoneIsNothing DEF RequestOK, IsHeld
  <2>5. row[d] # None /\ (request[r].manages \/ Visible(request[r].user, d))
    BY <1>3 DEF Admitted, CanAccess
  <2>6. CASE Visible(request[r].user, d)
    <3>1. Readable(request[r].user, d)
      BY <2>5, <2>6 DEF Readable, CanAccess
    <3>2. <<r, d>> \in open'
      BY <1>1, <2>2, <2>3, <3>1, Admits
    <3> QED
      BY <1>1, <1>3, <2>1, <2>2, <2>3, <2>4, <3>2, ReadsOn
  <2>7. CASE request[r].manages
    <3>1. May(r, request[r], open, server, shown)
      BY <1>1, <2>5, <2>7, Known DEF Opened, May, IInv, ServerOK
    <3> QED
      BY <1>1, <1>3, <2>1, <2>2, <2>3, <2>4, <3>1, ReadsOn
  <2> QED
    BY <2>5, <2>6, <2>7
<1> QED
  BY <1>2, <1>3, Known DEF Admit

LEMMA VersionsStep ==
  ASSUME IInv, Tracks, NEW r \in Requests, ReadVersions(r)
  PROVE  IInv'
<1>1. /\ UNCHANGED <<tables, server, cache, generation, excused>> /\ Goto(r, "answered")
      /\ request[r].kind = "versions" /\ request[r].user # None /\ request[r].doc # None
      /\ request[r].pc = "versions" /\ request[r].found = {}
  BY Known DEF ReadVersions, RequestOK
<1>2. PICK q \in Request :
         /\ request' = [request EXCEPT ![r] = q] /\ request'[r] = q
         /\ q.pc = "answered" /\ q.kind = request[r].kind /\ q.user = request[r].user
         /\ q.manages = request[r].manages /\ q.doc = request[r].doc /\ q.found = request[r].found
  BY <1>1, Goes
<1>3. RequestOK(q) /\ IsHeld(q, row, excused) /\ May(r, request[r], open, server, shown)
  BY <1>1, <1>2, Known DEF RequestOK, IsHeld, Opened
<1> QED
  BY <1>1, <1>2, <1>3, ReadsOn

LEMMA CacheSteps ==
  ASSUME IInv, Tracks, NEW r \in Requests, ReadCache(r) \/ Fill(r)
  PROVE  IInv'
<1>1. UNCHANGED <<tables, server, generation, excused>>
  BY DEF ReadCache, Fill
<1>2. /\ request[r].kind = "get" /\ request[r].doc \in Docs /\ request[r].user # None
      /\ request[r].pc \in {"cache", "fill"} /\ request[r].found = {}
      /\ May(r, request[r], open, server, shown)
  BY Known DEF ReadCache, Fill, RequestOK, Opened
<1>3. cache' = cache \/ \E d \in Docs : /\ cache' = [cache EXCEPT ![d] = request[r].value]
                                        /\ request[r].pc = "fill" /\ request[r].doc = d
  BY <1>2 DEF ReadCache, Fill
<1>4. ASSUME NEW q \in Request, request' = [request EXCEPT ![r] = q], request'[r] = q,
             q.pc \in {"row", "answered"}, q.kind = request[r].kind, q.user = request[r].user,
             q.manages = request[r].manages, q.doc = request[r].doc, q.found = request[r].found
      PROVE  IInv'
  <2>1. RequestOK(q) /\ IsHeld(q, row, excused)
    BY <1>2, <1>4, NoneIsNothing DEF RequestOK, IsHeld
  <2> QED
    BY <1>1, <1>2, <1>3, <1>4, <2>1, ReadsOn
<1>5. CASE Goto(r, "row") \/ Goto(r, "answered")
  <2>1. PICK pc \in {"row", "answered"} : Goto(r, pc)
    BY <1>5
  <2> QED
    BY <1>4, <2>1, Goes
<1>6. CASE /\ ReadCache(r)
           /\ request' = [request EXCEPT ![r].pc = "answered", ![r].value = cache[request[r].doc]]
  <2> DEFINE q == [request[r] EXCEPT !.pc = "answered", !.value = cache[request[r].doc]]
  <2>1. cache[request[r].doc] \in Maybe(Value)
    BY <1>2 DEF IInv, TypeOK
  <2>2. /\ q \in Request /\ q.pc = "answered" /\ q.kind = request[r].kind /\ q.user = request[r].user
        /\ q.manages = request[r].manages /\ q.doc = request[r].doc /\ q.found = request[r].found
    BY <2>1, Known DEF Request
  <2>3. request' = [request EXCEPT ![r] = q] /\ request'[r] = q
    BY <1>6, Known
  <2> HIDE DEF q
  <2> QED
    BY <1>4, <2>2, <2>3
<1> QED
  BY <1>5, <1>6 DEF ReadCache, Fill

\* The row and its chunks, read one after the other.
LEMMA RowSteps ==
  ASSUME IInv, Tracks, NEW r \in Requests, ReadRow(r) \/ ReadChunks(r)
  PROVE  IInv'
<1> DEFINE k == request[r].kind
           d == request[r].doc
<1>1. UNCHANGED <<tables, server, cache, generation, excused>>
  BY DEF ReadRow, ReadChunks
<1>2. /\ d \in Docs /\ request[r].user # None /\ request[r].found = {}
      /\ request[r].pc \in {"row", "chunks"} /\ k \in {"get", "tool", "download", "acl", "graph", "versions"}
  BY Known DEF ReadRow, ReadChunks, RequestOK
<1>3. CASE End(r)
  BY <1>1, <1>2, <1>3, EndRead
<1>4. ASSUME NEW q \in Request, request' = [request EXCEPT ![r] = q], request'[r] = q,
             q.kind = k, q.user = request[r].user, q.manages = request[r].manages, q.doc = d, q.found = {},
             q.pc = "admit" <=> k = "versions",
             q.pc = "chunks" => k \in {"get", "tool"},
             q.pc = "fill" => k = "get", q.pc \in {"admit", "chunks", "fill", "answered"},
             k # "versions" => May(r, request[r], open, server, shown),
             q.pc \in {"chunks", "fill"} /\ k = "get" /\ d \notin excused =>
                row[d] # None /\ q.value = Current(d)
      PROVE  IInv'
  <2>1. RequestOK(q)
    BY <1>2, <1>4, NoneIsNothing, Known DEF RequestOK
  <2>2. IsHeld(q, row, excused)
    BY <1>2, <1>4 DEF IsHeld, Current
  <2> QED
    BY <1>1, <1>2, <1>4, <2>1, <2>2, ReadsOn
<1>5. CASE ReadRow(r) /\ row[d] # None
  <2> DEFINE v == IF k = "get" THEN Current(d) ELSE None
             q == [request[r] EXCEPT !.pc = AfterRow[k], !.value = v]
  <2>1. request' = [request EXCEPT ![r] = q] /\ request'[r] = q /\ request[r].pc = "row"
    BY <1>5, Known DEF ReadRow
  <2>2. /\ k \in {"get", "tool", "download", "acl", "versions"}
        /\ k = "acl" => request[r].manages
    BY <2>1, Known DEF RequestOK
  <2>3. /\ k \in {"get", "tool"} => AfterRow[k] = "chunks"
        /\ k = "versions" => AfterRow[k] = "admit"
        /\ k \in {"download", "acl"} => AfterRow[k] = "answered"
    BY DEF AfterRow
  <2>4. v \in Maybe(Value)
    BY <1>2, <1>5 DEF IInv, TypeOK, Maybe, Current, Row, Value
  <2>5. /\ q \in Request /\ q.pc = AfterRow[k] /\ q.value = v /\ q.kind = k /\ q.user = request[r].user
        /\ q.manages = request[r].manages /\ q.doc = d /\ q.found = {}
    BY <1>2, <2>2, <2>3, <2>4, Known DEF Request
  <2> HIDE DEF q
  <2>6. k # "versions" => May(r, request[r], open, server, shown)
    BY <1>5, <2>1, <2>2, Known DEF Opened, May
  <2> QED
    BY <1>2, <1>4, <1>5, <2>1, <2>2, <2>3, <2>5, <2>6
<1>6. CASE ReadChunks(r)
  <2> DEFINE v == IF request[r].value = None THEN None ELSE [request[r].value EXCEPT !.chunks = row[d] # None]
             q == [request[r] EXCEPT !.value = v, !.pc = IF k = "get" THEN "fill" ELSE "answered"]
  <2>1. v \in Maybe(Value)
    BY Known DEF Maybe, Value
  <2>2. request' = [request EXCEPT ![r] = q] /\ request'[r] = q /\ request[r].pc = "chunks"
    BY <1>6, Known DEF ReadChunks
  <2>3. /\ q \in Request /\ q.pc = (IF k = "get" THEN "fill" ELSE "answered") /\ q.value = v /\ q.kind = k
        /\ q.user = request[r].user /\ q.manages = request[r].manages /\ q.doc = d /\ q.found = {}
    <3> DEFINE pc == IF k = "get" THEN "fill" ELSE "answered"
    <3>1. pc \in {"fill", "answered"} /\ q = [request[r] EXCEPT !.value = v, !.pc = pc]
      OBVIOUS
    <3> HIDE DEF v, pc, q
    <3>2. /\ q \in Request /\ q.pc = pc /\ q.value = v /\ q.kind = k
          /\ q.user = request[r].user /\ q.manages = request[r].manages /\ q.doc = d /\ q.found = {}
      BY <1>2, <2>1, <3>1, Known DEF Request
    <3> QED
      BY <3>2 DEF pc
  <2> HIDE DEF q
  <2>4. May(r, request[r], open, server, shown)
    BY <2>2, Known DEF Opened
  <2>5. ASSUME k = "get", d \notin excused PROVE row[d] # None /\ v = Current(d)
    <3>1. row[d] # None /\ request[r].value = Current(d)
      BY <2>2, <2>5, Known DEF IsHeld, Current
    <3>2. Current(d) \in Value
      BY <1>2, <3>1 DEF IInv, TypeOK, Maybe, Current, Row, Value
    <3>3. (row[d] # None) = TRUE
      BY <3>1
    <3>4. v = [Current(d) EXCEPT !.chunks = TRUE]
      BY <3>1, <3>2, <3>3, NoneIsNothing, Zenon
    <3> QED
      BY <3>1, <3>4 DEF Current
  <2>6. k # "versions"
    BY <2>2, Known DEF RequestOK
  <2> HIDE DEF v
  <2> QED
    BY <1>4, <2>2, <2>3, <2>4, <2>5, <2>6
<1> QED
  BY <1>3, <1>5, <1>6 DEF ReadRow

\* A query of a search finds what its user may see at that moment.
LEMMA QueryStep ==
  ASSUME IInv, Tracks, NEW r \in Requests, Query(r)
  PROVE  IInv'
<1> DEFINE u == request[r].user
           next == CASE request[r].pc = "keyword" -> "vector"
                     [] request[r].pc = "vector" -> "graph"
                     [] request[r].pc = "graph" -> "answered"
           q(hits) == [request[r] EXCEPT !.found = request[r].found \union hits, !.pc = next]
<1>1. /\ UNCHANGED <<tables, server, cache, generation, excused>>
      /\ request[r].pc \in {"keyword", "vector", "graph"}
  BY DEF Query
<1>2. request[r].kind = "search" /\ u # None /\ request[r].doc # None /\ request[r].principal \in Maybe(Principals)
  BY <1>1, Known DEF RequestOK, Request
<1>3. PICK hits \in SUBSET {d \in Docs : Visible(u, d)} : request' = [request EXCEPT ![r] = q(hits)]
  BY Known DEF Query
<1>4. next \in {"vector", "graph", "answered"}
  BY <1>1
<1> HIDE DEF next
<1>5. /\ q(hits) \in Request /\ q(hits).pc = next /\ q(hits).kind = "search" /\ q(hits).user = u
      /\ q(hits).manages = request[r].manages /\ q(hits).doc = request[r].doc /\ q(hits).found = request[r].found \union hits
  BY <1>2, <1>4, Known DEF Request
<1> HIDE DEF q
<1>6. request'[r] = q(hits)
  BY <1>3, Known
<1>7. RequestOK(q(hits))
  BY <1>2, <1>4, <1>5, Known DEF RequestOK
<1>8. ASSUME NEW d \in q(hits).found PROVE <<r, d>> \in open'
  <2>1. CASE d \in request[r].found
    <3>1. <<r, d>> \in open
      BY <2>1, Known DEF Opened
    <3> QED
      BY <1>4, <1>5, <1>6, <3>1, Keeps
  <2>2. CASE d \in hits
    <3>1. d \in Docs /\ Readable(u, d)
      BY <2>2 DEF Readable, CanAccess, Visible
    <3> QED
      BY <1>1, <1>2, <1>5, <1>6, <3>1, Admits
  <2> QED
    BY <1>5, <1>8, <2>1, <2>2
<1>9. request[r].manages /\ row[request[r].doc] # None => <<r, request[r].doc>> \in open'
  <2>1. request[r].manages /\ row[request[r].doc] # None => <<r, request[r].doc>> \in open
    BY <1>2, Known DEF Opened
  <2> QED
    BY <1>4, <1>5, <1>6, <2>1, Keeps
<1>10. Opened(r, q(hits), open', row, server, shown') /\ IsHeld(q(hits), row, excused)
  BY <1>4, <1>5, <1>8, <1>9 DEF Opened, IsHeld
<1> QED
  BY <1>1, <1>3, <1>7, <1>10, ReadGoesOn

-----------------------------------------------------------------------------
(***************************************************************************)
(* Changes: of documents, of who may read them, and of the cache.           *)
(***************************************************************************)
RowKept(d) == row[d] # None => row'[d] # None /\ row'[d].generation = row[d].generation

Deleting(d) ==
    \E r \in Requests : request[r].kind = "delete" /\ request[r].doc = d /\ request[r].pc = "invalidate"

\* A cached value gets out of date by a deletion that is about to drop it, or
\* by what is excused.
LEMMA StaleStays ==
  ASSUME IInv, \A d \in excused : d \in excused' \/ cache'[d] = None,
         \A d \in Docs : cache'[d] \in {cache[d], None},
         \A d \in Docs : d \in excused' \/ cache'[d] = None \/ RowKept(d) \/ Deleting(d)',
         \A d \in Docs : Deleting(d) => Deleting(d)' \/ d \in excused' \/ cache'[d] = None
  PROVE  StaleCacheHasCause'
<1> SUFFICES ASSUME NEW d \in Docs, cache'[d] # None, d \notin excused', ~Deleting(d)'
             PROVE  row'[d] # None /\ cache'[d] = Current(d)'
  BY DEF StaleCacheHasCause, Deleting
<1>1. RowKept(d) /\ ~Deleting(d) /\ cache'[d] = cache[d] /\ d \notin excused
  OBVIOUS
<1>2. row[d] # None /\ cache[d] = Current(d)
  BY <1>1 DEF IInv, StaleCacheHasCause, Deleting
<1> QED
  BY <1>1, <1>2 DEF RowKept, Current

\* What a reader holds gets out of date by what is excused only.
LEMMA HeldStays ==
  ASSUME IInv, \A d \in excused : d \in excused' \/ Readers(d) = {},
         \A d \in Docs : d \in excused' \/ RowKept(d) \/ Readers(d) = {}
  PROVE  \A r \in Requests : IsHeld(request[r], row', excused')
<1> SUFFICES ASSUME NEW r \in Requests, request[r].pc \in {"chunks", "fill"}, request[r].kind = "get",
                    request[r].doc \notin excused'
             PROVE  LET d == request[r].doc
                    IN  row'[d] # None /\ request[r].value = [generation |-> row'[d].generation, chunks |-> TRUE]
  BY DEF IsHeld
<1>1. request[r].doc \in Docs /\ r \in Readers(request[r].doc)
  BY Known DEF RequestOK, Readers
<1>2. RowKept(request[r].doc) /\ request[r].doc \notin excused
  BY <1>1
<1> QED
  BY <1>2, Known DEF IsHeld, RowKept

\* A step that is no read: it ends a request, or begins to change something.
LEMMA ChangeGoesOn ==
  ASSUME IInv, Tracks, server' = server, RowsAppear, managing' \subseteq Users,
         \/ request' = request
         \/ \E r \in Requests, q \in Request :
               /\ request' = [request EXCEPT ![r] = q]
               /\ RequestOK(q) /\ ~q.manages /\ q.pc \in {"idle", "change", "invalidate"},
         row' \in [Docs -> Maybe(Row)], acl' \in [Docs -> SUBSET Principals],
         \A d \in Docs : row'[d] = None => acl'[d] = {},
         members' \in [Groups -> SUBSET Users], cache' \in [Docs -> Maybe(Value)],
         generation' \in 0..MaxGenerations, excused' \subseteq Docs,
         \A r \in Requests : IsHeld(request[r], row', excused'), StaleCacheHasCause'
  PROVE  IInv'
<1>1. /\ open' \subseteq Requests \X Docs /\ shown' \subseteq Docs /\ server' \in Server
      /\ ServerOK(row', server', shown')
  BY OpenType, ServerStays DEF IInv, TypeOK
<1>2. CASE request' = request
  <2>1. \A s \in Requests : Opened(s, request[s], open', row', server', shown')
    BY <1>2, StaysOpened
  <2>2. TypeOK'
    BY <1>1, <1>2 DEF IInv, TypeOK
  <2> QED
    BY <1>1, <1>2, <2>1, <2>2, Known DEF IInv
<1>3. ASSUME NEW r \in Requests, NEW q \in Request, request' = [request EXCEPT ![r] = q],
             RequestOK(q), ~q.manages, q.pc \in {"idle", "change", "invalidate"}
      PROVE  IInv'
  <2>1. q.found = {} /\ ~q.manages /\ q.kind # "tool"
    BY <1>3 DEF RequestOK, Idle
  <2>2. Opened(r, q, open', row', server', shown') /\ IsHeld(q, row', excused')
    BY <1>3, <2>1 DEF Opened, IsHeld
  <2>3. \A s \in Requests : Opened(s, request'[s], open', row', server', shown')
    BY <1>3, <2>2, OpenStays
  <2>4. request'[r] = q /\ \A s \in Requests \ {r} : request'[s] = request[s]
    BY <1>3, Known
  <2>5. \A s \in Requests : RequestOK(request'[s]) /\ IsHeld(request'[s], row', excused')
    BY <1>3, <2>2, <2>4, Known
  <2>6. TypeOK'
    BY <1>1, <1>3, Known DEF IInv, TypeOK
  <2> QED
    BY <1>1, <2>3, <2>5, <2>6 DEF IInv
<1> QED
  BY <1>2, <1>3

\* The workers, the groups, the roles and the expiry of a cached value.
LEMMA TableSteps ==
  ASSUME IInv, Tracks,
         \/ \E d \in Docs : Insert(d) \/ Replace(d) \/ Expire(d)
         \/ \E g \in Groups, u \in Users : ChangeMembers(g, u)
         \/ \E u \in Users : ChangeRole(u)
  PROVE  IInv'
<1> USE DEF IInv, TypeOK, tables
<1>1. request' = request /\ server' = server /\ \A d \in Docs : Deleting(d)' <=> Deleting(d)
  BY DEF Insert, Replace, Expire, ChangeMembers, ChangeRole, Deleting
<1>2. ASSUME NEW d \in Docs, Insert(d) PROVE IInv'
  <2>1. PICK u \in Owners :
           row' = [row EXCEPT ![d] = [generation |-> generation + 1, visibility |-> "workspace", owner |-> u]]
    BY <1>2 DEF Insert
  <2>2. /\ generation + 1 \in Generations /\ generation' \in 0..MaxGenerations
        /\ row[d] = None /\ UNCHANGED <<managing, acl, members, cache, excused>>
    BY <1>2, DocumentReadsAssumption DEF Insert, Generations
  <2>3. [generation |-> generation + 1, visibility |-> "workspace", owner |-> u] \in Row
    BY <2>2 DEF Row
  <2>4. row' \in [Docs -> Maybe(Row)] /\ \A e \in Docs : row'[e] = None => acl'[e] = {}
    BY <2>1, <2>2, <2>3, NoneIsNothing DEF Maybe
  <2>5. (\A e \in Docs : RowKept(e)) /\ RowsAppear
    BY <2>1, <2>2 DEF RowKept, RowsAppear
  <2> QED
    BY <1>1, <2>2, <2>4, <2>5, HeldStays, StaleStays, ChangeGoesOn
<1>3. ASSUME NEW d \in Docs, Replace(d) PROVE IInv'
  <2>1. /\ row' = [row EXCEPT ![d] = None] /\ acl' = [acl EXCEPT ![d] = {}]
        /\ UNCHANGED <<managing, members, cache, generation>>
        /\ excused \subseteq excused' /\ excused' \subseteq Docs
    BY <1>3 DEF Replace, Remove
  <2>2. d \in excused' \/ (cache'[d] = None /\ Readers(d) = {})
    BY <1>3 DEF Replace
  <2>3. row' \in [Docs -> Maybe(Row)] /\ acl' \in [Docs -> SUBSET Principals]
        /\ \A e \in Docs : row'[e] = None => acl'[e] = {}
    BY <2>1 DEF Maybe
  <2>4. RowsAppear /\ \A e \in Docs : e # d => RowKept(e)
    BY <2>1 DEF RowKept, RowsAppear
  <2> QED
    BY <1>1, <2>1, <2>2, <2>3, <2>4, HeldStays, StaleStays, ChangeGoesOn
<1>4. ASSUME NEW d \in Docs, Expire(d) PROVE IInv'
  <2>1. cache' = [cache EXCEPT ![d] = None] /\ UNCHANGED <<managing, row, acl, members, generation>>
        /\ excused' = Forgotten(d)
    BY <1>4 DEF Expire
  <2>2. cache' \in [Docs -> Maybe(Value)] /\ RowsAppear
        /\ \A e \in Docs : RowKept(e) /\ cache'[e] \in {cache[e], None}
    BY <2>1 DEF Maybe, RowKept, RowsAppear
  <2>3. excused' \subseteq Docs
        /\ \A e \in excused : e \in excused' \/ (cache'[e] = None /\ Readers(e) = {})
    BY <2>1 DEF Forgotten
  <2> QED
    BY <1>1, <2>1, <2>2, <2>3, HeldStays, StaleStays, ChangeGoesOn
<1>5. ASSUME NEW g \in Groups, NEW u \in Users, ChangeMembers(g, u) PROVE IInv'
  <2>1. members' \in [Groups -> SUBSET Users] /\ UNCHANGED <<managing, row, acl, cache, generation, excused>>
    BY <1>5 DEF ChangeMembers
  <2>2. RowsAppear /\ \A e \in Docs : RowKept(e)
    BY <2>1 DEF RowKept, RowsAppear
  <2> QED
    BY <1>1, <2>1, <2>2, HeldStays, StaleStays, ChangeGoesOn
<1>6. ASSUME NEW u \in Users, ChangeRole(u) PROVE IInv'
  <2>1. managing' \subseteq Users /\ UNCHANGED <<row, acl, members, cache, generation, excused>>
    BY <1>6 DEF ChangeRole
  <2>2. RowsAppear /\ \A e \in Docs : RowKept(e)
    BY <2>1 DEF RowKept, RowsAppear
  <2> QED
    BY <1>1, <2>1, <2>2, HeldStays, StaleStays, ChangeGoesOn
<1> QED
  BY <1>2, <1>3, <1>4, <1>5, <1>6

\* Without a server no request is a tool's.
LEMMA NoTools == ASSUME IInv, server = NoServer, NEW r \in Requests PROVE request[r].kind # "tool"
  BY Known DEF Opened

\* The MCP server starts: its manager could be shown whatever there is.
LEMMA StartStep ==
  ASSUME IInv, Tracks, NEW u \in Users, StartServer(u)
  PROVE  IInv'
<1>1. /\ server = NoServer /\ server' = [user |-> u, manages |-> u \in managing] /\ server'.user = u
      /\ UNCHANGED <<managing, row, acl, members, cache, request, generation, excused>>
  BY DEF StartServer, tables
<1>2. (u \in managing) \in BOOLEAN
  OBVIOUS
<1>3. server' \in Server /\ server' # NoServer /\ server'.manages = (u \in managing)
  BY <1>1, <1>2, NoneIsNothing DEF Server, NoServer, Maybe
<1>4. ASSUME server'.manages, NEW d \in Docs, row'[d] # None PROVE d \in shown'
  <2>1. Readable(u, d)' /\ server'.user = u /\ u # None
    BY <1>1, <1>3, <1>4, NoneIsNothing DEF Readable, CanAccess
  <2> QED
    BY <2>1 DEF Tracks, Showing
<1>5. ServerOK(row', server', shown')
  BY <1>1, <1>4 DEF ServerOK
<1>6. ASSUME NEW r \in Requests PROVE Opened(r, request[r], open', row, server', shown')
  <2>1. CASE request[r].pc = "idle"
    BY <2>1, Known, IdleIsOK DEF RequestOK
  <2>2. CASE request[r].pc # "idle"
    <3>1. \A d : <<r, d>> \in open => <<r, d>> \in open'
      BY <1>1, <2>2, Keeps
    <3>2. request[r].kind # "tool"
      BY <1>1, NoTools
    <3> QED
      BY <1>1, <3>1, <3>2, Known DEF Opened, May
  <2> QED
    BY <2>1, <2>2
<1>7. TypeOK' /\ StaleCacheHasCause'
  BY <1>1, <1>3, OpenType DEF IInv, TypeOK, StaleCacheHasCause, Current
<1> QED
  BY <1>1, <1>5, <1>6, <1>7, Known DEF IInv

\* It stops, and its requests with it.
LEMMA StopStep ==
  ASSUME IInv, Tracks, StopServer
  PROVE  IInv'
<1>1. /\ server' = NoServer /\ UNCHANGED <<managing, row, acl, members, cache, generation, excused>>
      /\ \A r \in Requests : request'[r] = IF request[r].kind = "tool" THEN Idle ELSE request[r]
      /\ request' = [r \in Requests |-> IF request[r].kind = "tool" THEN Idle ELSE request[r]]
  BY DEF StopServer, tables
<1>2. NoServer \in Server /\ ServerOK(row', server', shown')
  BY <1>1 DEF NoServer, Server, Maybe, ServerOK
<1>3. ASSUME NEW r \in Requests
      PROVE  /\ RequestOK(request'[r]) /\ IsHeld(request'[r], row, excused)
             /\ Opened(r, request'[r], open', row, server', shown')
  <2>1. CASE request[r].kind = "tool" \/ request[r].pc = "idle"
    <3>1. request'[r] = Idle
      BY <1>1, <2>1, Known DEF RequestOK
    <3> QED
      BY <3>1, IdleIsOK
  <2>2. CASE request[r].kind # "tool" /\ request[r].pc # "idle"
    <3>1. request'[r] = request[r]
      BY <1>1, <2>2
    <3>2. \A d : <<r, d>> \in open => <<r, d>> \in open'
      BY <2>2, <3>1, Keeps
    <3> QED
      BY <2>2, <3>1, <3>2, Known DEF Opened, May
  <2> QED
    BY <2>1, <2>2
<1>4. request' \in [Requests -> Request]
  BY <1>1, <1>3 DEF RequestOK
<1>5. TypeOK'
  BY <1>1, <1>2, <1>4, OpenType DEF IInv, TypeOK
<1>6. StaleCacheHasCause'
  <2>1. \A r \in Requests : request[r].kind = "delete" => request'[r] = request[r]
    BY <1>1
  <2>2. \A d \in Docs : Current(d)' = Current(d)
    BY <1>1 DEF Current
  <2> QED
    BY <1>1, <2>1, <2>2 DEF IInv, StaleCacheHasCause
<1> QED
  BY <1>1, <1>2, <1>3, <1>5, <1>6 DEF IInv

LEMMA OutsideSteps == ASSUME IInv, Tracks, OutsideStep PROVE IInv'
  BY TableSteps, StartStep, StopStep DEF OutsideStep

\* A change begins, some with what they do to the tables.
LEMMA Changes ==
  ASSUME IInv, NEW r \in Requests, NEW kind \in {"delete", "grant", "revoke"}, NEW pc \in {"change", "invalidate"},
         NEW d \in Docs, NEW p \in Principals \union {None}, Change(r, kind, pc, d, p),
         pc = "change" => kind = "grant" /\ p # None
  PROVE  \E q \in Request :
            /\ request' = [request EXCEPT ![r] = q] /\ request'[r] = q /\ RequestOK(q)
            /\ q.pc = pc /\ q.kind = kind /\ q.doc = d /\ ~q.manages
            /\ request[r].pc = "idle"
<1> DEFINE q == [Idle EXCEPT !.kind = kind, !.pc = pc, !.doc = d, !.principal = p]
<1>1. q.kind = kind /\ q.pc = pc /\ q.doc = d /\ q.principal = p /\ q.found = {} /\ ~q.manages
  BY DEF Idle
<1>2. q \in Request
  BY DEF Idle, Request, Maybe
<1>3. request' = [request EXCEPT ![r] = q] /\ request[r].pc = "idle"
  BY DEF Change
<1> HIDE DEF q
<1>4. RequestOK(q)
  BY <1>1, <1>2, NoneIsNothing DEF RequestOK
<1> QED
  BY <1>1, <1>2, <1>3, <1>4, Known

\* The deletions that are about to drop a cached value still are, unless the
\* step is one's end.
LEMMA DeletingStays ==
  ASSUME IInv, NEW r \in Requests, NEW q, request' = [request EXCEPT ![r] = q],
         request[r].pc # "invalidate" \/ request[r].kind # "delete"
  PROVE  \A d \in Docs : Deleting(d) => Deleting(d)'
<1>1. request'[r] = q /\ \A s \in Requests \ {r} : request'[s] = request[s]
  BY Known
<1> QED
  BY <1>1 DEF Deleting

LEMMA ChangeSteps ==
  ASSUME IInv, Tracks, NEW r \in Requests, ChangeStep(r)
  PROVE  IInv'
<1> USE DEF IInv, TypeOK, tables
<1>1. ASSUME NEW p \in Principals, BeginGrant(r, p) PROVE IInv'
  <2>1. PICK d \in Docs : Change(r, "grant", "change", d, p)
    BY <1>1 DEF BeginGrant
  <2>2. UNCHANGED <<managing, server, row, acl, members, cache, generation, excused>>
    BY <1>1 DEF BeginGrant
  <2>3. PICK q \in Request :
           /\ request' = [request EXCEPT ![r] = q] /\ RequestOK(q) /\ ~q.manages
           /\ q.pc = "change" /\ request[r].pc = "idle"
    BY <2>1, Changes, NoneIsNothing
  <2>4. RowsAppear /\ \A e \in Docs : RowKept(e)
    BY <2>2 DEF RowKept, RowsAppear
  <2> QED
    BY <2>2, <2>3, <2>4, DeletingStays, HeldStays, StaleStays, ChangeGoesOn
<1>2. CASE Delete(r)
  <2>1. PICK d \in Docs :
           /\ Change(r, "delete", "invalidate", d, None)
           /\ row' = [row EXCEPT ![d] = None] /\ acl' = [acl EXCEPT ![d] = {}]
           /\ excused' = IF Readers(d) = {} THEN excused ELSE excused \union {d}
    BY <1>2 DEF Delete, Remove
  <2>2. UNCHANGED <<managing, server, members, cache, generation>>
    BY <1>2 DEF Delete
  <2>3. PICK q \in Request :
           /\ request' = [request EXCEPT ![r] = q] /\ request'[r] = q /\ RequestOK(q)
           /\ q.pc = "invalidate" /\ q.kind = "delete" /\ q.doc = d /\ ~q.manages /\ request[r].pc = "idle"
    BY <2>1, Changes
  <2>4. row' \in [Docs -> Maybe(Row)] /\ acl' \in [Docs -> SUBSET Principals]
        /\ \A e \in Docs : row'[e] = None => acl'[e] = {}
    BY <2>1 DEF Maybe
  <2>5. RowsAppear /\ \A e \in Docs : e # d => RowKept(e)
    BY <2>1 DEF RowKept, RowsAppear
  <2>6. Deleting(d)' /\ (d \in excused' \/ Readers(d) = {}) /\ excused \subseteq excused' /\ excused' \subseteq Docs
    BY <2>1, <2>3 DEF Deleting
  <2>7. \A e \in Docs : Deleting(e) => Deleting(e)'
    BY <2>3, DeletingStays
  <2>8. \A s \in Requests : IsHeld(request[s], row', excused')
    BY <2>5, <2>6, HeldStays
  <2>9. StaleCacheHasCause'
    BY <2>2, <2>5, <2>6, <2>7, StaleStays
  <2> QED
    BY <2>2, <2>3, <2>4, <2>5, <2>6, <2>8, <2>9, ChangeGoesOn
<1>3. CASE Grant(r)
  <2> DEFINE d == request[r].doc
             q == [request[r] EXCEPT !.pc = "invalidate", !.principal = None]
  <2>1. /\ d \in Docs /\ request[r].principal \in Principals /\ request[r].kind = "grant"
        /\ request[r].pc = "change" /\ request[r].found = {}
        /\ UNCHANGED <<managing, server, members, cache, generation, excused>>
    BY <1>3, Known DEF Grant, RequestOK, Request, Maybe
  <2>2. CASE row[d] = None
    <3>1. request' = [request EXCEPT ![r] = Idle] /\ UNCHANGED <<row, acl>>
      BY <1>3, <2>2 DEF Grant, End
    <3>2. RowsAppear /\ \A e \in Docs : RowKept(e)
      BY <3>1 DEF RowKept, RowsAppear
    <3>3. RequestOK(Idle) /\ Idle.pc = "idle" /\ ~Idle.manages /\ Idle \in Request
      BY IdleIsOK DEF RequestOK, Idle
    <3> QED
      BY <2>1, <3>1, <3>2, <3>3, DeletingStays, HeldStays, StaleStays, ChangeGoesOn
  <2>3. CASE row[d] # None
    <3>1. /\ acl' = [acl EXCEPT ![d] = @ \union {request[r].principal}]
          /\ row' = [row EXCEPT ![d].visibility = "restricted"]
          /\ request' = [request EXCEPT ![r] = q]
      BY <1>3, <2>3, Known DEF Grant
    <3>2. /\ q \in Request /\ q.pc = "invalidate" /\ q.kind = "grant" /\ q.doc = d /\ q.found = {}
          /\ q.manages = request[r].manages
      BY <2>1, Known DEF Request, Maybe
    <3> HIDE DEF q
    <3>3. RequestOK(q) /\ ~q.manages
      BY <2>1, <3>2, NoneIsNothing, Known DEF RequestOK
    <3>4. row[d] \in Row
      BY <2>1, <2>3 DEF Maybe
    <3>5. /\ row'[d] \in Row /\ row'[d].generation = row[d].generation
          /\ \A e \in Docs \ {d} : row'[e] = row[e]
      BY <2>1, <3>1, <3>4 DEF Row
    <3>6. row' \in [Docs -> Maybe(Row)] /\ acl' \in [Docs -> SUBSET Principals]
      BY <2>1, <3>1, <3>5 DEF Maybe
    <3>7. RowsAppear /\ \A e \in Docs : RowKept(e) /\ (row'[e] = None => acl'[e] = {})
      BY <2>1, <2>3, <3>1, <3>5, NoneIsNothing DEF RowKept, RowsAppear
    <3>8. \A e \in Docs : Deleting(e) => Deleting(e)'
      BY <2>1, <3>1, DeletingStays
    <3>9. (\A s \in Requests : IsHeld(request[s], row', excused')) /\ StaleCacheHasCause'
      BY <2>1, <3>7, <3>8, HeldStays, StaleStays
    <3> QED
      BY <2>1, <3>1, <3>2, <3>3, <3>6, <3>7, <3>9, ChangeGoesOn
  <2> QED
    BY <2>2, <2>3
<1>4. ASSUME NEW p \in Principals, Revoke(r, p) PROVE IInv'
  <2>1. PICK d \in Docs :
           /\ Change(r, "revoke", "invalidate", d, None)
           /\ acl' = [acl EXCEPT ![d] = @ \ {p}]
    BY <1>4 DEF Revoke
  <2>2. UNCHANGED <<managing, server, row, members, cache, generation, excused>>
    BY <1>4 DEF Revoke
  <2>3. PICK q \in Request :
           /\ request' = [request EXCEPT ![r] = q] /\ RequestOK(q) /\ ~q.manages
           /\ q.pc = "invalidate" /\ request[r].pc = "idle"
    BY <2>1, Changes
  <2>4. /\ acl' \in [Docs -> SUBSET Principals] /\ RowsAppear
        /\ \A e \in Docs : RowKept(e) /\ (row'[e] = None => acl'[e] = {})
    BY <2>1, <2>2 DEF RowKept, RowsAppear
  <2> QED
    BY <2>2, <2>3, <2>4, DeletingStays, HeldStays, StaleStays, ChangeGoesOn
<1>5. CASE Invalidate(r) \/ Die(r)
  <2> DEFINE d == request[r].doc
  <2>1. /\ UNCHANGED <<managing, server, row, acl, members, generation>>
        /\ request' = [request EXCEPT ![r] = Idle] /\ request[r].pc # "idle" /\ d \in Docs
    BY <1>5, Known DEF Invalidate, Die, End, RequestOK
  <2>2. RequestOK(Idle) /\ Idle.pc = "idle" /\ ~Idle.manages /\ Idle \in Request
    BY IdleIsOK DEF RequestOK, Idle
  <2>3. cache' = cache \/ cache' = [cache EXCEPT ![d] = None]
    BY <1>5 DEF Invalidate, Die
  <2>4. /\ cache' \in [Docs -> Maybe(Value)] /\ RowsAppear
        /\ \A e \in Docs : cache'[e] \in {cache[e], None} /\ RowKept(e)
    BY <2>1, <2>3 DEF Maybe, RowKept, RowsAppear
  <2>5. /\ excused' \subseteq Docs
        /\ \A e \in excused : e \in excused' \/ (cache'[e] = None /\ Readers(e) = {})
    BY <1>5, <2>1 DEF Invalidate, Die, Left, Forgotten
  <2>6. request[r].kind = "delete" /\ request[r].pc = "invalidate" => cache'[d] = None \/ d \in excused'
    BY <1>5, <2>1 DEF Invalidate, Die, Left
  <2>7. \A e \in Docs : Deleting(e) => Deleting(e)' \/ e \in excused' \/ cache'[e] = None
    <3>1. \A s \in Requests \ {r} : request'[s] = request[s]
      BY <2>1
    <3> QED
      BY <2>6, <3>1 DEF Deleting
  <2>8. \A s \in Requests : IsHeld(request[s], row', excused')
    BY <2>4, <2>5, HeldStays
  <2>9. StaleCacheHasCause'
    BY <2>4, <2>5, <2>7, StaleStays
  <2> QED
    BY <2>1, <2>2, <2>4, <2>5, <2>8, <2>9, ChangeGoesOn
<1> QED
  BY <1>1, <1>2, <1>3, <1>4, <1>5 DEF ChangeStep

-----------------------------------------------------------------------------
(***************************************************************************)
(* The theorems.                                                            *)
(***************************************************************************)
LEMMA InitInv == Init => IInv
<1> SUFFICES ASSUME Init PROVE IInv
  OBVIOUS
<1>1. \A r \in Requests : request[r] = Idle
  BY DEF Init
<1>2. \A r \in Requests : /\ RequestOK(request[r]) /\ IsHeld(request[r], row, excused)
                          /\ Opened(r, request[r], open, row, server, shown)
  BY <1>1, IdleIsOK
<1>3. TypeOK
  BY IdleIsOK, DocumentReadsAssumption DEF Init, TypeOK, Maybe, RequestOK, Server, NoServer
<1>4. StaleCacheHasCause /\ ServerOK(row, server, shown)
  BY DEF Init, StaleCacheHasCause, ServerOK, NoServer
<1> QED
  BY <1>2, <1>3, <1>4 DEF IInv

LEMMA StepInv == IInv /\ [Next]_vars => IInv'
<1> SUFFICES ASSUME IInv, [Next]_vars PROVE IInv'
  OBVIOUS
<1>1. CASE UNCHANGED vars
  <2>1. TypeOK' /\ StaleCacheHasCause'
    BY <1>1 DEF IInv, TypeOK, StaleCacheHasCause, Current, vars, tables
  <2> QED
    BY <1>1, <2>1, Known DEF IInv, vars, tables
<1>2. CASE Next
  <2>1. Tracks
    BY <1>2 DEF Next, Tracks
  <2>2. ASSUME NEW r \in Requests, Finish(r) PROVE IInv'
    BY <2>1, <2>2, EndRead DEF Finish
  <2>3. ASSUME NEW r \in Requests, ReadStep(r) PROVE IInv'
    BY <2>1, <2>2, <2>3, BeginReads, AdmitStep, VersionsStep, CacheSteps, RowSteps, QueryStep DEF ReadStep
  <2> QED
    BY <1>2, <2>1, <2>3, ChangeSteps, OutsideSteps DEF Next
<1> QED
  BY <1>1, <1>2

\* The inductive invariant: what a request that has passed its check may still
\* read, and that what it holds of a document is current unless excused.
THEOREM Invariance == Spec => []IInv
  BY InitInv, StepInv, PTL DEF Spec

\* All states are well-typed, and a document that is gone has no ACL.
THEOREM TypeCorrect == Spec => []TypeOK
<1>1. IInv => TypeOK
  BY DEF IInv
<1> QED
  BY <1>1, Invariance, PTL

\* A document is in the answer to a request only if its user could read it at
\* some moment since the request began (can_access_document and the queries of
\* a search come in transactions of their own, before and beside the reads), or,
\* for the tools of an MCP server started by a manager, since that was started.
THEOREM AnswersWereOpen == Spec => []AnswersAreOpen
<1>1. IInv => AnswersAreOpen
  BY DEF IInv, Opened, May, Answer, AnswersAreOpen
<1> QED
  BY <1>1, Invariance, PTL

\* A stale value in the cache has one of the named causes.
THEOREM StaleCacheHasCauses == Spec => []StaleCacheHasCause
<1>1. IInv => StaleCacheHasCause
  BY DEF IInv
<1> QED
  BY <1>1, Invariance, PTL

\* Taking entries out of an ACL, deleting or taking a role away opens a document
\* to nobody: who comes to read it got an entry, a group or the role of a manager,
\* or the document is indexed anew.
THEOREM AccessGrowsByGrants == Spec => AccessGrowsByGrant
<1> DEFINE Grows ==
      \A u \in Users, d \in Docs : ~Readable(u, d) /\ Readable(u, d)' =>
         \/ row[d] = None
         \/ acl'[d] \ acl[d] # {}
         \/ \E g \in Groups : u \in members'[g] \ members[g]
         \/ u \in managing' \ managing
<1>1. IInv /\ [Next]_vars => [Grows]_vars
  <2> SUFFICES ASSUME IInv, Next, NEW u \in Users, NEW d \in Docs, ~Readable(u, d), Readable(u, d)',
                      row[d] # None, acl'[d] \ acl[d] = {}, u \notin managing' \ managing,
                      \A g \in Groups : u \notin members'[g] \ members[g]
               PROVE  FALSE
    OBVIOUS
  <2>1. u \notin managing' /\ ~Visible(u, d) /\ Visible(u, d)' /\ row'[d] # None
    BY DEF Readable, CanAccess
  <2>2. ~Listed(u, d)'
    BY <2>1 DEF Visible, Listed
  <2>3. row[d].visibility # "workspace" /\ row[d].owner # u
        /\ (row'[d].visibility = "workspace" \/ row'[d].owner = u)
    BY <2>1, <2>2 DEF Visible
  <2>4. row' # row
    BY <2>3
  <2>5. row \in [Docs -> Maybe(Row)]
    BY DEF IInv, TypeOK
  <2>6. CASE \E e \in Docs : Insert(e) \/ Replace(e)
    BY <2>1, <2>3, <2>5, <2>6 DEF Insert, Replace, Remove
  <2>7. CASE \E r \in Requests : Delete(r)
    BY <2>1, <2>3, <2>5, <2>7 DEF Delete, Remove
  <2>8. ASSUME NEW r \in Requests, Grant(r) PROVE FALSE
    <3>1. row' = [row EXCEPT ![request[r].doc].visibility = "restricted"]
      BY <2>4, <2>8 DEF Grant
    <3>2. row[d] \in Row
      BY <2>5 DEF Maybe
    <3>3. row'[d].owner = row[d].owner /\ row'[d].visibility \in {row[d].visibility, "restricted"}
      BY <2>5, <3>1, <3>2 DEF Row
    <3> QED
      BY <2>3, <3>3
  <2>9. ASSUME NEW r \in Requests, ReadStep(r) PROVE FALSE
    BY <2>4, <2>9
    DEF ReadStep, tables, BeginGet, BeginTool, BeginDownload, BeginAcl, BeginGraph, BeginLineage, BeginVersions,
        BeginSearch, BeginList, Authenticate, Begin, Admit, ReadVersions, ReadCache, ReadRow, ReadChunks, Fill,
        Query, Finish
  <2>10. ASSUME NEW r \in Requests, ChangeStep(r) PROVE FALSE
    BY <2>4, <2>7, <2>8, <2>10 DEF ChangeStep, tables, BeginGrant, Revoke, Invalidate, Die
  <2>11. CASE OutsideStep
    BY <2>4, <2>6, <2>11 DEF OutsideStep, tables, Expire, ChangeMembers, ChangeRole, StartServer, StopServer
  <2> QED
    BY <2>9, <2>10, <2>11 DEF Next
<1> QED
  BY <1>1, Invariance, PTL DEF Spec, AccessGrowsByGrant
=============================================================================
