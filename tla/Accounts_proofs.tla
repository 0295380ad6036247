-------------------------- MODULE Accounts_proofs --------------------------
(***************************************************************************)
(* Proofs about Accounts, for any people, workspaces, tabs and keyrings and *)
(* any number of calls at once: type correctness with the foreign keys,     *)
(* that refresh tokens and invitations are used once, and that a session    *)
(* ends for the named causes only.                                          *)
(***************************************************************************)
EXTENDS Accounts, FiniteSetTheorems, TLAPS

\* The members m include whom a token is for.
IsMember(t, m) == t # None => m[t.ws][t.user] # None

\* What a call holds at each of its steps, where m are the members.
CallOK(q, m) ==
    /\ q \in Call
    /\ q.pc = "idle" => q.kind = None /\ q.profile = None /\ q.refresh = None
    /\ q.pc # "idle" => /\ q.kind # None
                        /\ q.profile \in IF q.kind \in {"request", "login"} THEN Tabs ELSE Keyrings
    /\ q.pc = "authenticate" => q.kind \in {"request", "admin"} /\ q.refresh = None
    /\ q.pc = "act" => q.kind = "admin" /\ q.user # None /\ q.ws # None /\ q.role # None /\ q.refresh = None
    /\ q.pc \in {"select", "revoke"} => q.kind = "request" /\ q.refresh # None
    /\ q.pc = "accept" => q.kind = "join" /\ q.user # None /\ q.invite # None /\ q.refresh = None
    /\ q.pc \in {"issue", "insert"} =>
          q.user # None /\ q.ws # None /\ q.refresh = None /\ m[q.ws][q.user] # None
    /\ q.pc = "insert" => q.kind \in {"request", "login"} /\ q.access # None /\ q.access.user = q.user
    /\ q.pc = "save" => /\ q.access # None
                        /\ IF q.kind \in {"request", "login"}
                           THEN q.refresh # None /\ q.refresh.user = q.access.user
                           ELSE q.refresh = None
    /\ q.kind = "login" /\ q.pc = "save" => q.user = q.access.user
    /\ IsMember(q.access, m) /\ IsMember(q.refresh, m)

TypeInv ==
    /\ status \in [Users -> {"none", "active", "disabled"}]
    /\ member \in [Founders -> [Users -> Roles \union {None}]]
    /\ \A w \in Founders, u \in Users : member[w][u] # None => status[u] # "none"
    /\ open \subseteq Invitation
    /\ live \subseteq Refresh /\ \A t \in live : IsMember(t, member)
    /\ profile \in [Profiles -> [access: Access \union {None}, refresh: Refresh \union {None}]]
    /\ \A p \in Profiles : IsMember(profile[p].access, member) /\ IsMember(profile[p].refresh, member)
    /\ \A c \in Calls : CallOK(call[c], member)
    /\ call \in [Calls -> Call]
    /\ intact \subseteq Tabs

\* The locks of SELECT ... FOR UPDATE: the row a transaction has read is there
\* until it commits, and no other one has read it.
RowsLocked ==
    /\ \A c \in Calls : /\ call[c].pc = "revoke" => call[c].refresh \in live
                        /\ call[c].pc = "accept" => call[c].invite \in open
    /\ \A c, d \in Calls : c # d =>
          /\ call[c].pc = "revoke" /\ call[d].pc = "revoke" => call[c].refresh # call[d].refresh
          /\ call[c].pc = "accept" /\ call[d].pc = "accept" => call[c].invite # call[d].invite

\* A refresh token belongs to one profile, and at first to the call that is
\* about to store it alone.
TokensApart ==
    /\ \A p, q \in Profiles : p # q /\ profile[p].refresh # None => profile[p].refresh # profile[q].refresh
    /\ \A c \in Calls, p \in Profiles :
          call[c].refresh # None /\ call[c].refresh = profile[p].refresh => call[c].profile = p /\ call[c].pc # "save"
    /\ \A c, d \in Calls :
          c # d /\ call[c].refresh # None /\ call[c].refresh = call[d].refresh =>
             call[c].profile = call[d].profile /\ call[c].pc # "save"
    /\ \A c \in Calls : call[c].pc = "save" /\ call[c].refresh # None => call[c].refresh \in live

\* What a request of a tab with an untroubled session is about to do will
\* succeed: it holds the token of the tab, or one that replaces it.
Renews(c, p) ==
    LET u == profile[p].refresh.user
    IN  /\ call[c].pc \in {"select", "revoke"} =>
              call[c].refresh = profile[p].refresh /\ call[c].refresh \in live
        /\ call[c].pc = "issue" => call[c].user = u
        /\ call[c].pc \in {"insert", "save"} =>
              call[c].access # None /\ call[c].access.user = u /\ call[c].access.valid
        /\ call[c].pc = "authenticate" /\ call[c].retried =>
              call[c].access # None /\ call[c].access.user = u /\ call[c].access.valid

RenewingFor(c, p) == call[c].profile = p /\ Renewing(c)

SessionOK(p) ==
    /\ profile[p].refresh # None
    /\ status[profile[p].refresh.user] = "active"
    /\ \A c, d \in Calls : RenewingFor(c, p) /\ RenewingFor(d, p) => c = d
    /\ \A c \in Calls : call[c].profile = p /\ call[c].kind = "request" => Renews(c, p)
    /\ (\A c \in Calls : ~RenewingFor(c, p)) => profile[p].refresh \in live

IInv == TypeInv /\ RowsLocked /\ TokensApart /\ \A p \in intact : SessionOK(p)

-----------------------------------------------------------------------------
(***************************************************************************)
(* New refresh tokens.                                                      *)
(***************************************************************************)
\* "Nothing" is none of what it stands beside.
LEMMA NoneIsNothing ==
  /\ None \notin Users /\ None \notin Roles /\ None \notin Profiles /\ None \notin Kinds
  /\ None \notin Access /\ None \notin Refresh /\ None \notin Invitation /\ None \notin Founders
  BY AccountsAssumption

\* Profiles and calls hold fewer tokens than there are serials.
LEMMA FewTokens ==
  IsFiniteSet(HeldRefresh) /\ Cardinality(HeldRefresh) < Cardinality(Serials) /\ IsFiniteSet(Serials)
<1> DEFINE P == {profile[p].refresh : p \in Profiles}
           C == {call[c].refresh : c \in Calls}
           np == Cardinality(Profiles)
           nc == Cardinality(Calls)
<1>1. np \in Nat /\ nc \in Nat
  BY FS_CardinalityType, AccountsAssumption
<1>2. IsFiniteSet(P) /\ Cardinality(P) <= np
  <2>1. [p \in Profiles |-> profile[p].refresh] \in Surjection(Profiles, P)
    BY DEF Surjection
  <2> QED
    BY <2>1, FS_Surjection, AccountsAssumption
<1>3. IsFiniteSet(C) /\ Cardinality(C) <= nc
  <2>1. [c \in Calls |-> call[c].refresh] \in Surjection(Calls, C)
    BY DEF Surjection
  <2> QED
    BY <2>1, FS_Surjection, AccountsAssumption
<1>4. /\ Cardinality(P) \in Nat /\ Cardinality(C) \in Nat
      /\ IsFiniteSet(P \intersect C) /\ Cardinality(P \intersect C) \in Nat
  BY <1>2, <1>3, FS_CardinalityType, FS_Intersection
<1>5. /\ IsFiniteSet(P \union C)
      /\ Cardinality(P \union C) = Cardinality(P) + Cardinality(C) - Cardinality(P \intersect C)
  BY <1>2, <1>3, FS_Union
<1>6. HeldRefresh = P \union C
  BY DEF HeldRefresh
<1>7. IsFiniteSet(Serials) /\ Cardinality(Serials) = nc + np + 1
  <2> HIDE DEF np, nc
  <2> DEFINE n == nc + np + 1
  <2>1. n \in Nat /\ 1 \in Int /\ n \in Int /\ ~(1 > n)
    BY <1>1
  <2>2. IsFiniteSet(1..n) /\ Cardinality(1..n) = n - 1 + 1
    BY <2>1, FS_Interval
  <2>3. Serials = 1..n
    BY DEF Serials, np, nc
  <2> QED
    BY <2>1, <2>2, <2>3
<1> HIDE DEF np, nc, P, C
<1> QED
  BY <1>1, <1>2, <1>3, <1>4, <1>5, <1>6, <1>7

\* A new refresh token is for whom it is issued and in nobody's hands.
LEMMA NewIsNew ==
  ASSUME NEW u \in Users, NEW w \in Founders
  PROVE  /\ NewRefresh(u, w) \in Refresh
         /\ NewRefresh(u, w) \notin HeldRefresh
         /\ NewRefresh(u, w).user = u /\ NewRefresh(u, w).ws = w
<1> DEFINE token(n) == [user |-> u, ws |-> w, serial |-> n]
           new == {n \in Serials : token(n) \notin HeldRefresh}
<1>1. new # {}
  <2> SUFFICES ASSUME \A n \in Serials : token(n) \in HeldRefresh PROVE FALSE
    OBVIOUS
  <2> DEFINE f == [n \in Serials |-> token(n)]
  <2>1. f \in [Serials -> HeldRefresh]
    OBVIOUS
  <2> HIDE DEF f
  <2>2. PICK x, y \in Serials : x # y /\ f[x] = f[y]
    BY <2>1, FewTokens, FS_PigeonHole
  <2> QED
    BY <2>2 DEF f
<1>2. new \in SUBSET Nat
  BY DEF Serials
<1>3. \E n \in new : \A k \in new : n <= k
  <2> HIDE DEF new
  <2>1. \E n \in new : \A k \in new : ~(<<k, n>> \in OpToRel(<, Nat))
    BY <1>1, <1>2, WFMin, NatLessThanWellFounded, Zenon
  <2>2. \E n \in new : \A k \in new : ~(k < n)
    BY <1>2, <2>1, Zenon DEF OpToRel
  <2> QED
    BY <1>2, <2>2
<1>4. (CHOOSE n \in new : \A k \in new : n <= k) \in new
  BY <1>3
<1> QED
  BY <1>4 DEF NewRefresh, Refresh

-----------------------------------------------------------------------------
(***************************************************************************)
(* Types, and what the calls hold.                                          *)
(***************************************************************************)
MembersStay == \A w \in Founders, u \in Users : member[w][u] # None => member'[w][u] # None

\* At first there is nothing.
LEMMA InitType == Init => TypeInv
  BY NoneIsNothing, AccountsAssumption
  DEF Init, TypeInv, CallOK, Call, NoCall, NoSession, IsMember

\* Who was a member when a token was issued still is.
LEMMA TokensStay ==
  ASSUME MembersStay, NEW t \in Access \union Refresh \union {None}, IsMember(t, member)
  PROVE  IsMember(t, member')
  BY DEF MembersStay, IsMember, Access, Refresh

\* A step changes one call.
LEMMA OneCall ==
  ASSUME TypeInv, NEW c \in Calls, NEW q, Become(c, q)
  PROVE  call'[c] = q /\ \A d \in Calls : d # c => call'[d] = call[d]
  BY DEF TypeInv, Become

\* What a call holds stays in order while nobody loses his membership.
LEMMA CallStays ==
  ASSUME MembersStay, NEW q, CallOK(q, member)
  PROVE  CallOK(q, member')
<1>1. q.access \in Access \union {None} /\ q.refresh \in Refresh \union {None}
  BY DEF CallOK, Call
<1>2. IsMember(q.access, member') /\ IsMember(q.refresh, member')
  BY <1>1, TokensStay DEF CallOK
<1>3. q.user # None /\ q.ws # None => q.user \in Users /\ q.ws \in Founders
  BY DEF CallOK, Call
<1> QED
  BY <1>2, <1>3 DEF CallOK, MembersStay

LEMMA CallGoesOn ==
  ASSUME TypeInv, MembersStay, NEW c \in Calls, NEW q, CallOK(q, member'), Become(c, q)
  PROVE  call' \in [Calls -> Call] /\ \A d \in Calls : CallOK(call'[d], member')
<1>1. \A d \in Calls : CallOK(call'[d], member')
  <2> SUFFICES ASSUME NEW d \in Calls PROVE CallOK(call'[d], member')
    OBVIOUS
  <2>1. CASE d = c
    BY <2>1, OneCall
  <2>2. CASE d # c
    <3>1. CallOK(call[d], member)
      BY DEF TypeInv
    <3>2. CallOK(call[d], member')
      BY <3>1, CallStays
    <3> QED
      BY <2>2, <3>2, OneCall
  <2> QED
    BY <2>1, <2>2
<1> QED
  BY <1>1 DEF Become, TypeInv, CallOK

\* Steps that leave the rows of users and members alone, and store at most
\* what the call holds.
LEMMA QuietStep ==
  ASSUME TypeInv, NEW c \in Calls, NEW q, CallOK(q, member), Become(c, q),
         UNCHANGED <<status, member>>, open' \subseteq Invitation,
         live' \subseteq Refresh, \A t \in live' : IsMember(t, member),
         profile' \in [Profiles -> [access : Access \union {None}, refresh : Refresh \union {None}]],
         \A p \in Profiles : IsMember(profile'[p].access, member) /\ IsMember(profile'[p].refresh, member),
         intact' \subseteq Tabs
  PROVE  TypeInv'
<1>1. MembersStay
  BY DEF MembersStay
<1>2. call' \in [Calls -> Call] /\ \A d \in Calls : CallOK(call'[d], member')
  BY <1>1, CallGoesOn
<1> QED
  BY <1>2 DEF TypeInv

\* Steps that change nothing but one call and the history.
LEMMA OwnStep ==
  ASSUME TypeInv, NEW c \in Calls, NEW q, CallOK(q, member), Become(c, q),
         UNCHANGED <<status, member, open, live, profile>>, intact' \subseteq Tabs
  PROVE  TypeInv'
  BY QuietStep DEF TypeInv

LEMMA EmptyCall == CallOK(NoCall, member) /\ CallOK(NoCall, member')
  BY NoneIsNothing DEF CallOK, NoCall, Call, IsMember

\* What is known of a call that is under way.
LEMMA Holds ==
  ASSUME TypeInv, NEW c \in Calls
  PROVE  /\ call[c] \in Call /\ CallOK(call[c], member)
         /\ call[c].pc # "idle" => /\ call[c].profile \in Profiles
                                   /\ call[c].kind \in Kinds
                                   /\ call[c].kind \in {"request", "login"} <=> call[c].profile \in Tabs
  BY AccountsAssumption DEF TypeInv, CallOK, Call, Profiles

LEMMA BeginType ==
  ASSUME TypeInv, NEW c \in Calls, NEW p \in Profiles,
         \/ BeginRequest(c, p) \/ BeginAdmin(c, p) \/ Login(c, p) \/ SelectInvitation(c, p)
  PROVE  TypeInv'
<1> USE NoneIsNothing
<1>1. ASSUME NEW kind \in {"request", "admin"}, Begin(c, p, kind), UNCHANGED <<status, member>>,
             p \in IF kind = "request" THEN Tabs ELSE Keyrings
      PROVE  TypeInv'
  <2> DEFINE q == [NoCall EXCEPT !.pc = "authenticate", !.kind = kind, !.profile = p, !.access = profile[p].access]
  <2>1. Become(c, q)
    BY <1>1 DEF Begin
  <2>2. profile[p].access \in Access \union {None} /\ IsMember(profile[p].access, member)
    BY DEF TypeInv
  <2>3. CallOK(q, member)
    BY <1>1, <2>2 DEF CallOK, Call, NoCall, IsMember, Kinds
  <2> HIDE DEF q
  <2> QED
    BY <1>1, <2>1, <2>3, OwnStep DEF Begin, TypeInv
<1>2. CASE Login(c, p)
  <2>1. PICK u \in Uses[p] \intersect Founders, w \in Founders :
           /\ member[w][u] # None
           /\ Become(c, [NoCall EXCEPT !.pc = "issue", !.kind = "login", !.profile = p, !.user = u, !.ws = w])
    BY <1>2 DEF Login
  <2> DEFINE q == [NoCall EXCEPT !.pc = "issue", !.kind = "login", !.profile = p, !.user = u, !.ws = w]
  <2>2. u \in Users /\ p \in Tabs
    BY <1>2, AccountsAssumption DEF Login
  <2>3. CallOK(q, member)
    BY <2>1, <2>2 DEF CallOK, Call, NoCall, IsMember, Kinds
  <2> HIDE DEF q
  <2> QED
    BY <1>2, <2>1, <2>3, OwnStep DEF Login, TypeInv, q
<1>3. CASE SelectInvitation(c, p)
  <2> DEFINE q(i, u) == [NoCall EXCEPT !.pc = "accept", !.kind = "join", !.profile = p, !.invite = i, !.user = u]
  <2>1. PICK i \in open, u \in Uses[p] : Become(c, q(i, u))
    BY <1>3 DEF SelectInvitation
  <2>2. u \in Users /\ i \in Invitation /\ p \in Keyrings
    BY <1>3, AccountsAssumption DEF SelectInvitation, TypeInv
  <2>3. CallOK(q(i, u), member)
    BY <2>2 DEF CallOK, Call, NoCall, IsMember, Kinds
  <2> HIDE DEF q
  <2> QED
    BY <1>3, <2>1, <2>3, OwnStep DEF SelectInvitation, TypeInv
<1> QED
  BY <1>1, <1>2, <1>3 DEF BeginRequest, BeginAdmin

\* A refused call renews the session of its tab, ends it or gives up.
LEMMA DeniedCall ==
  ASSUME TypeInv, NEW c \in Calls, call[c].pc = "authenticate", Denied(c)
  PROVE  LET p == call[c].profile
             q == [call[c] EXCEPT !.pc = "select", !.access = None, !.refresh = profile[p].refresh]
         IN  \/ /\ p \in Tabs /\ profile[p].refresh # None /\ ~call[c].retried
                /\ Become(c, q) /\ CallOK(q, member) /\ profile' = profile
                /\ intact' = IF \E d \in Others(c, p) : Renewing(d) THEN intact \ {p} ELSE intact
             \/ /\ Become(c, NoCall) /\ intact' = intact
                /\ \/ /\ p \in Tabs /\ LogOutClient(p)
                      /\ profile[p].refresh = None \/ call[c].retried
                   \/ p \in Keyrings /\ profile' = profile
<1> DEFINE p == call[c].profile
           q == [call[c] EXCEPT !.pc = "select", !.access = None, !.refresh = profile[p].refresh]
<1>1. ASSUME p \in Tabs, profile[p].refresh # None PROVE CallOK(q, member)
  <2>1. profile[p].refresh \in Refresh /\ IsMember(profile[p].refresh, member)
    BY <1>1 DEF TypeInv, Profiles
  <2>2. call[c].kind = "request" /\ call[c].profile \in Tabs
    BY <1>1, Holds DEF CallOK, Profiles
  <2>3. q \in Call
    BY <2>1, Holds DEF Call
  <2>4. /\ q.pc = "select" /\ q.kind = "request" /\ q.profile \in Tabs
        /\ q.access = None /\ q.refresh = profile[p].refresh
    BY <2>2, Holds DEF Call
  <2> HIDE DEF q
  <2> QED
    BY <1>1, <2>1, <2>3, <2>4, NoneIsNothing DEF CallOK, IsMember, Kinds
<1> QED
  BY <1>1 DEF Denied, End

LEMMA LogOutType ==
  ASSUME TypeInv, NEW p \in Profiles, LogOutClient(p)
  PROVE  /\ profile' \in [Profiles -> [access : Access \union {None}, refresh : Refresh \union {None}]]
         /\ \A o \in Profiles : IsMember(profile'[o].access, member) /\ IsMember(profile'[o].refresh, member)
  BY DEF TypeInv, LogOutClient, NoSession, IsMember

LEMMA AuthenticateType ==
  ASSUME TypeInv, NEW c \in Calls, Authenticate(c)
  PROVE  TypeInv'
<1> DEFINE t == call[c].access
           p == call[c].profile
<1>1. call[c].pc = "authenticate" /\ UNCHANGED <<status, member, open, live>>
  BY DEF Authenticate
<1>2. p \in Profiles /\ t \in Access \union {None}
  BY <1>1, Holds DEF Call
<1>3. CASE Denied(c)
  <2> DEFINE q == [call[c] EXCEPT !.pc = "select", !.access = None, !.refresh = profile[p].refresh]
  <2>1. CASE Become(c, q) /\ CallOK(q, member) /\ profile' = profile /\ intact' \subseteq intact
    <3> HIDE DEF q
    <3> QED
      BY <1>1, <2>1, OwnStep DEF TypeInv
  <2>2. CASE Become(c, NoCall) /\ intact' = intact /\ (LogOutClient(p) \/ profile' = profile)
    BY <1>1, <1>2, <2>2, EmptyCall, LogOutType, QuietStep DEF TypeInv
  <2> QED
    BY <1>1, <1>3, <2>1, <2>2, DeniedCall
<1>4. CASE Authentic(t) /\ UNCHANGED <<profile, intact>> /\ End(c)
  BY <1>1, <1>4, EmptyCall, OwnStep DEF End, TypeInv
<1>5. CASE /\ Authentic(t) /\ UNCHANGED <<profile, intact>> /\ call[c].kind # "request"
           /\ Become(c, [call[c] EXCEPT !.pc = "act", !.access = None, !.user = t.user,
                                        !.ws = t.ws, !.role = member[t.ws][t.user]])
  <2> DEFINE q == [call[c] EXCEPT !.pc = "act", !.access = None, !.user = t.user,
                                  !.ws = t.ws, !.role = member[t.ws][t.user]]
  <2>1. t.user \in Users /\ t.ws \in Founders /\ member[t.ws][t.user] \in Roles
    BY <1>2, <1>5 DEF Authentic, Access, TypeInv
  <2>2. call[c].kind = "admin" /\ call[c].refresh = None /\ call[c].profile \in Keyrings
    BY <1>1, <1>5, Holds DEF CallOK
  <2>3. q \in Call
    BY <2>1, Holds DEF Call
  <2>4. /\ q.pc = "act" /\ q.kind = "admin" /\ q.profile \in Keyrings
        /\ q.access = None /\ q.refresh = None /\ q.user # None /\ q.ws # None /\ q.role # None
    BY <2>1, <2>2, Holds, NoneIsNothing DEF Call
  <2>5. Become(c, q)
    BY <1>5
  <2> HIDE DEF q
  <2>6. CallOK(q, member)
    BY <2>3, <2>4, NoneIsNothing DEF CallOK, IsMember, Kinds
  <2> QED
    BY <1>1, <1>5, <2>5, <2>6, OwnStep DEF TypeInv
<1> QED
  BY <1>3, <1>4, <1>5 DEF Authenticate

\* Steps that add to users and members.
LEMMA GrowingStep ==
  ASSUME TypeInv, NEW c \in Calls, NEW q, CallOK(q, member'), Become(c, q),
         NEW u \in Users, NEW w \in Founders, NEW r \in Roles,
         status' = status \/ status' = Registered(u), status'[u] # "none",
         member' = [member EXCEPT ![w][u] = r], open' \subseteq open,
         UNCHANGED <<live, profile, intact>>
  PROVE  TypeInv'
<1>1. member' \in [Founders -> [Users -> Roles \union {None}]]
  BY DEF TypeInv
<1>2. MembersStay
  BY NoneIsNothing DEF MembersStay, TypeInv
<1>3. call' \in [Calls -> Call] /\ \A d \in Calls : CallOK(call'[d], member')
  BY <1>2, CallGoesOn
<1>4. /\ \A t \in live : IsMember(t, member')
      /\ \A p \in Profiles : IsMember(profile[p].access, member') /\ IsMember(profile[p].refresh, member')
  BY <1>2, TokensStay DEF TypeInv
<1>5. status' \in [Users -> {"none", "active", "disabled"}]
  BY DEF TypeInv, Registered
<1>6. ASSUME NEW x \in Founders, NEW y \in Users, member'[x][y] # None PROVE status'[y] # "none"
  <2>1. CASE y = u
    BY <2>1
  <2>2. CASE y # u
    <3>1. member[x][y] # None
      BY <1>6, <2>2 DEF TypeInv
    <3> QED
      BY <3>1 DEF TypeInv, Registered
  <2> QED
    BY <2>1, <2>2
<1> QED
  BY <1>1, <1>3, <1>4, <1>5, <1>6 DEF TypeInv

LEMMA RegisteredIsActive ==
  ASSUME TypeInv, NEW u \in Users, status' = Registered(u) PROVE status'[u] # "none"
  BY DEF TypeInv, Registered

LEMMA SetupType ==
  ASSUME TypeInv, NEW c \in Calls, NEW p \in Profiles, Setup(c, p)
  PROVE  TypeInv'
<1> DEFINE q(u) == [NoCall EXCEPT !.pc = "issue", !.kind = "setup", !.profile = p, !.user = u, !.ws = u]
<1>1. PICK u \in Uses[p] \intersect Founders :
         /\ status' = Registered(u)
         /\ member' = [member EXCEPT ![u][u] = "owner"]
         /\ Become(c, q(u))
  BY DEF Setup
<1>2. u \in Users /\ u \in Founders /\ "owner" \in Roles /\ p \in Keyrings
  BY AccountsAssumption DEF Setup, Roles, RoleLevel
<1>3. member'[u][u] = "owner"
  BY <1>1, <1>2 DEF TypeInv
<1>4. CallOK(q(u), member')
  BY <1>2, <1>3, NoneIsNothing DEF CallOK, Call, NoCall, IsMember, Kinds
<1> HIDE DEF q
<1> QED
  BY <1>1, <1>2, <1>4, RegisteredIsActive, GrowingStep DEF Setup

LEMMA AcceptType ==
  ASSUME TypeInv, NEW c \in Calls, Accept(c)
  PROVE  TypeInv'
<1> DEFINE i == call[c].invite
           u == call[c].user
           q == [call[c] EXCEPT !.pc = "issue", !.ws = i.ws, !.invite = None]
<1>1. call[c].pc = "accept"
  BY DEF Accept
<1>2. i \in Invitation /\ u \in Users /\ call[c].kind = "join" /\ call[c].profile \in Keyrings
      /\ call[c].refresh = None /\ i.ws \in Founders /\ i.role \in Roles
  BY <1>1, Holds, AccountsAssumption DEF CallOK, Call, Invitation
<1>3. member' = [member EXCEPT ![i.ws][u] = i.role] /\ status' = Registered(u) /\ Become(c, q)
  BY DEF Accept
<1>4. q \in Call
  <2>1. ASSUME NEW w \in Founders PROVE [call[c] EXCEPT !.pc = "issue", !.ws = w, !.invite = None] \in Call
    BY Holds DEF Call
  <2> QED
    BY <1>2, <2>1
<1>5. /\ q.pc = "issue" /\ q.kind = "join" /\ q.profile \in Keyrings /\ q.refresh = None
      /\ q.user = u /\ q.ws = i.ws /\ q.access = call[c].access
  BY <1>2, Holds DEF Call
<1>6. member'[i.ws][u] # None
  BY <1>2, <1>3, NoneIsNothing DEF TypeInv
<1>7. MembersStay
  BY <1>2, <1>3, NoneIsNothing DEF MembersStay, TypeInv
<1>8. IsMember(call[c].access, member')
  BY <1>7, Holds, TokensStay DEF CallOK, Call
<1> HIDE DEF q
<1>9. CallOK(q, member')
  BY <1>2, <1>4, <1>5, <1>6, <1>8, NoneIsNothing DEF CallOK, IsMember, Kinds
<1>10. status'[u] # "none" /\ open' \subseteq open /\ UNCHANGED <<live, profile, intact>>
  BY <1>2, <1>3, RegisteredIsActive DEF Accept
<1>11. Become(c, q)
  BY <1>3 DEF q
<1> HIDE DEF i, u
<1> QED
  BY <1>2, <1>3, <1>9, <1>10, <1>11, GrowingStep

LEMMA ChangeRoleType ==
  ASSUME TypeInv, NEW c \in Calls, ChangeRole(c)
  PROVE  TypeInv'
<1> DEFINE w == call[c].ws
<1>1. PICK u \in Users, r \in GivenRoles : member[w][u] # None /\ member' = [member EXCEPT ![w][u] = r]
  BY DEF ChangeRole
<1>2. w \in Founders /\ r \in Roles
  BY Holds, AccountsAssumption DEF ChangeRole, CallOK, Call
<1>3. status'[u] # "none"
  BY <1>1, <1>2 DEF ChangeRole, TypeInv
<1> QED
  BY <1>1, <1>2, <1>3, EmptyCall, GrowingStep DEF ChangeRole, End

\* Disabling a user leaves the tokens of everybody in place.
LEMMA RevokedType ==
  ASSUME NEW t \in Access \union {None}, NEW u
  PROVE  /\ Revoked(t, u) \in Access \union {None}
         /\ Revoked(t, u) = None <=> t = None
         /\ t # None => /\ Revoked(t, u).user = t.user /\ Revoked(t, u).ws = t.ws
                        /\ t.user # u => Revoked(t, u) = t
  BY NoneIsNothing DEF Revoked, Access

LEMMA RevokedMember ==
  ASSUME NEW t \in Access \union {None}, NEW u, IsMember(t, member)
  PROVE  IsMember(Revoked(t, u), member)
  BY RevokedType DEF IsMember

\* What disabling u makes of a call.
LEMMA DisabledCall ==
  ASSUME NEW q, NEW u, CallOK(q, member)
  PROVE  CallOK([q EXCEPT !.access = Revoked(@, u)], member)
<1> DEFINE n == [q EXCEPT !.access = Revoked(@, u)]
<1>1. /\ q \in Call /\ q.access \in Access \union {None} /\ IsMember(q.access, member)
  BY DEF CallOK, Call
<1>2. n \in Call /\ n.access = Revoked(q.access, u)
      /\ n.pc = q.pc /\ n.kind = q.kind /\ n.profile = q.profile /\ n.refresh = q.refresh
      /\ n.invite = q.invite /\ n.user = q.user /\ n.ws = q.ws /\ n.role = q.role /\ n.retried = q.retried
  BY <1>1, RevokedType DEF Call
<1>3. IsMember(Revoked(q.access, u), member)
  BY <1>1, RevokedMember
<1> HIDE DEF n
<1>4. CallOK(n, member)
  BY <1>1, <1>2, <1>3, RevokedType DEF CallOK
<1> QED
  BY <1>4 DEF n

LEMMA DisableType ==
  ASSUME TypeInv, NEW c \in Calls, Disable(c)
  PROVE  TypeInv'
<1>1. PICK u \in Users \ {call[c].user} :
        /\ status[u] # "none"
        /\ status' = [status EXCEPT ![u] = "disabled"]
        /\ profile' = [p \in Profiles |-> [profile[p] EXCEPT !.access = Revoked(@, u)]]
        /\ call' = [d \in Calls |-> IF d = c THEN NoCall ELSE [call[d] EXCEPT !.access = Revoked(@, u)]]
        /\ intact' \subseteq intact
  BY DEF Disable
<1>2. UNCHANGED <<member, open, live>>
  BY DEF Disable
<1>3. \A d \in Calls : CallOK(call'[d], member)
  BY <1>1, Holds, EmptyCall, DisabledCall
<1>4. call' \in [Calls -> Call]
  BY <1>1, <1>3 DEF CallOK
<1>5. \A p \in Profiles :
        /\ profile'[p] \in [access : Access \union {None}, refresh : Refresh \union {None}]
        /\ profile'[p].access = Revoked(profile[p].access, u) /\ profile'[p].refresh = profile[p].refresh
  <2> SUFFICES ASSUME NEW p \in Profiles
               PROVE  /\ profile'[p] \in [access : Access \union {None}, refresh : Refresh \union {None}]
                      /\ profile'[p].access = Revoked(profile[p].access, u)
                      /\ profile'[p].refresh = profile[p].refresh
    OBVIOUS
  <2>1. profile[p] \in [access : Access \union {None}, refresh : Refresh \union {None}]
    BY DEF TypeInv
  <2>2. Revoked(profile[p].access, u) \in Access \union {None}
    BY <2>1, RevokedType
  <2> QED
    BY <1>1, <2>1, <2>2
<1>6. \A p \in Profiles : IsMember(profile'[p].access, member) /\ IsMember(profile'[p].refresh, member)
  BY <1>5, RevokedMember DEF TypeInv
<1>7. profile' \in [Profiles -> [access : Access \union {None}, refresh : Refresh \union {None}]]
  BY <1>1, <1>5
<1>8. status' \in [Users -> {"none", "active", "disabled"}] /\ \A y \in Users : status[y] # "none" => status'[y] # "none"
  BY <1>1 DEF TypeInv
<1> QED
  BY <1>1, <1>2, <1>3, <1>4, <1>6, <1>7, <1>8 DEF TypeInv

\* Steps of a call on the server.
LEMMA ServerType ==
  ASSUME TypeInv, NEW c \in Calls,
         \/ Rejected(c) \/ Switch(c) \/ Invite(c) \/ SelectRefresh(c) \/ Revoke(c)
         \/ Issue(c) \/ InsertRefresh(c) \/ RenewalError(c) \/ Die(c)
  PROVE  TypeInv'
<1>1. CASE Rejected(c)
  BY <1>1, EmptyCall, OwnStep DEF Rejected, End, TypeInv
<1>2. CASE Switch(c)
  <2> DEFINE q(w) == [call[c] EXCEPT !.pc = "issue", !.ws = w, !.role = None]
  <2>1. PICK w \in Founders : member[w][call[c].user] # None /\ Become(c, q(w))
    BY <1>2 DEF Switch
  <2>2. call[c].pc = "act" /\ UNCHANGED <<status, member, open, live, profile, intact>>
    BY <1>2 DEF Switch
  <2>3. q(w) \in Call
    BY Holds DEF Call
  <2>4. /\ q(w).pc = "issue" /\ q(w).kind = "admin" /\ q(w).profile \in Keyrings /\ q(w).refresh = None
        /\ q(w).user = call[c].user /\ q(w).user # None /\ q(w).ws = w /\ q(w).access = call[c].access
    BY <2>2, Holds DEF Call, CallOK
  <2> HIDE DEF q
  <2>5. CallOK(q(w), member)
    BY <2>1, <2>3, <2>4, Holds, NoneIsNothing DEF CallOK, IsMember, Kinds
  <2> QED
    BY <2>1, <2>2, <2>5, OwnStep DEF TypeInv
<1>3. CASE Invite(c)
  <2>1. open' \subseteq Invitation
    BY <1>3 DEF Invite, CreateInvitation, TypeInv
  <2> QED
    BY <1>3, <2>1, EmptyCall, QuietStep DEF Invite, End, TypeInv
<1>4. CASE SelectRefresh(c)
  <2>1. call[c].pc = "select" /\ UNCHANGED <<status, member, open, live, intact>>
    BY <1>4 DEF SelectRefresh
  <2> DEFINE q == [call[c] EXCEPT !.pc = "revoke"]
  <2>2. CASE Become(c, q) /\ UNCHANGED profile
    <3>1. q \in Call
      BY Holds DEF Call
    <3>2. /\ q.pc = "revoke" /\ q.kind = call[c].kind /\ q.profile = call[c].profile
          /\ q.refresh = call[c].refresh /\ q.access = call[c].access
      BY Holds DEF Call
    <3>3. Become(c, q)
      BY <2>2
    <3> HIDE DEF q
    <3>4. CallOK(q, member)
      BY <2>1, <3>1, <3>2, Holds DEF CallOK
    <3> QED
      BY <2>1, <2>2, <3>3, <3>4, OwnStep DEF TypeInv
  <2>3. CASE LogOutClient(call[c].profile) /\ End(c)
    BY <2>1, <2>3, Holds, EmptyCall, LogOutType, QuietStep DEF End, TypeInv
  <2> QED
    BY <1>4, <2>2, <2>3 DEF SelectRefresh
<1>5. CASE Revoke(c)
  <2> DEFINE r == call[c].refresh
             q == [call[c] EXCEPT !.pc = "issue", !.refresh = None, !.user = r.user, !.ws = r.ws]
  <2>1. call[c].pc = "revoke" /\ live' \subseteq live /\ UNCHANGED <<status, member, open, profile, intact>>
    BY <1>5 DEF Revoke
  <2>2. r \in Refresh /\ r.user \in Users /\ r.ws \in Founders /\ member[r.ws][r.user] # None
        /\ call[c].kind = "request" /\ call[c].profile \in Tabs
    BY <2>1, Holds DEF CallOK, Call, Refresh, IsMember
  <2>3. q \in Call
    BY <2>2, Holds DEF Call
  <2>4. /\ q.pc = "issue" /\ q.kind = "request" /\ q.profile \in Tabs /\ q.refresh = None
        /\ q.user = r.user /\ q.ws = r.ws /\ q.access = call[c].access
    BY <2>2, Holds DEF Call
  <2>5. Become(c, q)
    BY <1>5 DEF Revoke
  <2> HIDE DEF q
  <2>6. CallOK(q, member)
    BY <2>2, <2>3, <2>4, Holds, NoneIsNothing DEF CallOK, IsMember, Kinds
  <2> QED
    BY <2>1, <2>5, <2>6, QuietStep DEF TypeInv
<1>6. CASE Issue(c)
  <2> DEFINE renewable == call[c].kind \in {"request", "login"}
             t == [user |-> call[c].user, ws |-> call[c].ws, lasting |-> ~renewable, valid |-> TRUE]
             q == [call[c] EXCEPT !.pc = IF renewable THEN "insert" ELSE "save", !.access = t]
  <2>1. call[c].pc = "issue" /\ UNCHANGED <<status, member, open, live, profile, intact>>
    BY <1>6 DEF Issue
  <2>2. call[c].user \in Users /\ call[c].ws \in Founders /\ member[call[c].ws][call[c].user] # None
        /\ call[c].refresh = None
    BY <2>1, Holds DEF CallOK, Call
  <2>3. t \in Access /\ t.user = call[c].user /\ t.ws = call[c].ws
    BY <2>2 DEF Access
  <2>4. Become(c, q)
    BY <1>6 DEF Issue
  <2> HIDE DEF t
  <2>5. q \in Call
    <3>1. ASSUME NEW pc \in {"insert", "save"} PROVE [call[c] EXCEPT !.pc = pc, !.access = t] \in Call
      BY <2>3, Holds DEF Call
    <3> QED
      BY <3>1
  <2>6. /\ q.pc = (IF renewable THEN "insert" ELSE "save") /\ q.kind = call[c].kind /\ q.profile = call[c].profile
        /\ q.user = call[c].user /\ q.ws = call[c].ws /\ q.refresh = None /\ q.access = t
    BY <2>2, Holds DEF Call
  <2> HIDE DEF q
  <2>7. CallOK(q, member)
    BY <2>1, <2>2, <2>3, <2>5, <2>6, Holds, NoneIsNothing DEF CallOK, IsMember
  <2> QED
    BY <2>1, <2>4, <2>7, OwnStep DEF TypeInv
<1>7. CASE InsertRefresh(c)
  <2> DEFINE r == NewRefresh(call[c].user, call[c].ws)
             q == [call[c] EXCEPT !.pc = "save", !.refresh = r]
  <2>1. call[c].pc = "insert" /\ UNCHANGED <<status, member, open, profile, intact>>
        /\ live' \subseteq live \union {r}
    BY <1>7 DEF InsertRefresh
  <2>2. call[c].user \in Users /\ call[c].ws \in Founders /\ member[call[c].ws][call[c].user] # None
        /\ call[c].access # None /\ call[c].access.user = call[c].user /\ call[c].kind \in {"request", "login"}
    BY <2>1, Holds DEF CallOK, Call
  <2>3. r \in Refresh /\ r.user = call[c].user /\ r.ws = call[c].ws
    BY <2>2, NewIsNew
  <2>4. Become(c, q)
    BY <1>7 DEF InsertRefresh
  <2> HIDE DEF r
  <2>5. q \in Call
    BY <2>3, Holds DEF Call
  <2>6. /\ q.pc = "save" /\ q.kind = call[c].kind /\ q.profile = call[c].profile
        /\ q.user = call[c].user /\ q.refresh = r /\ q.access = call[c].access
    BY Holds DEF Call
  <2> HIDE DEF q
  <2>7. CallOK(q, member)
    BY <2>1, <2>2, <2>3, <2>5, <2>6, Holds, NoneIsNothing DEF CallOK, IsMember
  <2>8. live' \subseteq Refresh /\ \A t \in live' : IsMember(t, member)
    BY <2>1, <2>2, <2>3 DEF TypeInv, IsMember
  <2> QED
    BY <2>1, <2>4, <2>7, <2>8, QuietStep DEF TypeInv
<1>8. CASE Die(c)
  <2>1. intact' \subseteq intact
    BY <1>8 DEF Die
  <2> QED
    BY <1>8, <2>1, EmptyCall, OwnStep DEF Die, End, TypeInv
<1>9. CASE RenewalError(c)
  <2>1. /\ call[c].profile \in Profiles /\ LogOutClient(call[c].profile) /\ Become(c, NoCall)
        /\ UNCHANGED <<status, member, open, live>> /\ intact' \subseteq intact
    BY <1>9, Holds DEF RenewalError, Renewing, End, CallOK
  <2> QED
    BY <2>1, EmptyCall, LogOutType, QuietStep DEF TypeInv
<1> QED
  BY <1>1, <1>2, <1>3, <1>4, <1>5, <1>6, <1>7, <1>8, <1>9

\* Steps of the clients, and time.
LEMMA ClientType ==
  ASSUME TypeInv, NEW c \in Calls,
         SaveInTab(c) \/ \E kind \in {"setup", "join", "admin"} : SaveAccess(c, kind)
  PROVE  TypeInv'
<1> DEFINE p == call[c].profile
           t == call[c].access
           r == call[c].refresh
<1>1. /\ call[c].pc = "save" /\ UNCHANGED <<status, member, open, live>>
      /\ p \in Profiles /\ t \in Access \union {None} /\ r \in Refresh \union {None}
      /\ IsMember(t, member) /\ IsMember(r, member)
  BY Holds DEF SaveInTab, SaveAccess, CallOK, Call
<1>2. CASE SaveInTab(c)
  <2>1. profile' = [profile EXCEPT ![p] = [access |-> t, refresh |-> r]]
    BY <1>2 DEF SaveInTab, SaveTokens
  <2>2. /\ profile' \in [Profiles -> [access : Access \union {None}, refresh : Refresh \union {None}]]
        /\ \A o \in Profiles : IsMember(profile'[o].access, member) /\ IsMember(profile'[o].refresh, member)
    BY <1>1, <2>1 DEF TypeInv
  <2>3. intact' \subseteq Tabs
    BY <1>2 DEF SaveInTab, Opened, TypeInv
  <2> DEFINE q == [NoCall EXCEPT !.pc = "authenticate", !.kind = "request", !.retried = TRUE,
                                 !.profile = p, !.access = t]
  <2>4. Become(c, NoCall) \/ Become(c, q)
    BY <1>2 DEF SaveInTab, End
  <2>5. CallOK(q, member)
    <3>1. p \in Tabs
      BY <1>2 DEF SaveInTab
    <3>2. q \in Call
      BY <1>1 DEF Call, NoCall, Kinds
    <3>3. q.pc = "authenticate" /\ q.kind = "request" /\ q.profile = p /\ q.refresh = None /\ q.access = t
      BY DEF NoCall
    <3> HIDE DEF q
    <3> QED
      BY <1>1, <3>1, <3>2, <3>3, NoneIsNothing DEF CallOK, IsMember, Kinds
  <2> HIDE DEF q
  <2> QED
    BY <1>1, <2>2, <2>3, <2>4, <2>5, EmptyCall, QuietStep DEF TypeInv
<1>3. CASE \E kind \in {"setup", "join", "admin"} : SaveAccess(c, kind)
  <2>1. profile' = [profile EXCEPT ![p].access = t] /\ End(c) /\ UNCHANGED intact
    BY <1>3 DEF SaveAccess
  <2>2. /\ profile' \in [Profiles -> [access : Access \union {None}, refresh : Refresh \union {None}]]
        /\ \A o \in Profiles : IsMember(profile'[o].access, member) /\ IsMember(profile'[o].refresh, member)
    BY <1>1, <2>1 DEF TypeInv
  <2> QED
    BY <1>1, <2>1, <2>2, EmptyCall, QuietStep DEF End, TypeInv
<1> QED
  BY <1>2, <1>3

\* Every step keeps the types and what the calls hold.
LEMMA StepType == TypeInv /\ [Next]_vars => TypeInv'
<1> SUFFICES ASSUME TypeInv, [Next]_vars PROVE TypeInv'
  OBVIOUS
<1>1. ASSUME NEW c \in Calls, Step(c) \/ RenewalError(c) \/ Die(c) PROVE TypeInv'
  BY <1>1, AuthenticateType, ServerType, ChangeRoleType, DisableType, AcceptType, ClientType
  DEF Step, SaveSetUp, SaveJoined, SaveSwitched
<1>2. ASSUME NEW p \in Tabs, LogOut(p) PROVE TypeInv'
  <2>1. p \in Profiles
    BY DEF Profiles
  <2> QED
    BY <1>2, <2>1, LogOutType DEF LogOut, TypeInv
<1>3. ASSUME NEW p \in Profiles, ExpireAccess(p) PROVE TypeInv'
  <2> DEFINE t == [profile[p].access EXCEPT !.valid = FALSE]
  <2>1. profile' = [profile EXCEPT ![p].access = t] /\ UNCHANGED <<status, member, open, live, call, intact>>
    BY <1>3 DEF ExpireAccess
  <2>2. profile[p].access \in Access
    BY <1>3 DEF ExpireAccess, TypeInv
  <2>3. t \in Access /\ t.user = profile[p].access.user /\ t.ws = profile[p].access.ws
    BY <2>2 DEF Access
  <2> HIDE DEF t
  <2>4. IsMember(t, member)
    BY <2>2, <2>3, NoneIsNothing DEF IsMember, TypeInv
  <2> QED
    BY <2>1, <2>3, <2>4 DEF TypeInv
<1>4. ASSUME NEW r \in live, ExpireRefresh(r) PROVE TypeInv'
  BY <1>4 DEF ExpireRefresh, TypeInv
<1>5. ASSUME NEW i \in open, ExpireInvitation(i) PROVE TypeInv'
  BY <1>5 DEF ExpireInvitation, TypeInv
<1>6. CASE UNCHANGED vars
  BY <1>6 DEF vars, TypeInv
<1> QED
  BY <1>1, <1>2, <1>3, <1>4, <1>5, <1>6, BeginType, SetupType DEF Next

-----------------------------------------------------------------------------
(***************************************************************************)
(* Where tokens and locks come from and go to.                              *)
(***************************************************************************)
\* A step that is none of the call: at most its access token is revoked.
Kept(c) ==
    /\ call'[c].pc = call[c].pc /\ call'[c].kind = call[c].kind /\ call'[c].profile = call[c].profile
    /\ call'[c].refresh = call[c].refresh /\ call'[c].invite = call[c].invite
    /\ call'[c].user = call[c].user /\ call'[c].retried = call[c].retried

\* The steps that give a call a lock or a refresh token.
GetsToken(c) ==
    /\ call[c].pc = "authenticate" /\ call'[c].pc = "select"
    /\ call'[c].refresh = profile[call[c].profile].refresh /\ call'[c].profile = call[c].profile
    /\ UNCHANGED <<open, live, profile>>
LocksToken(c) ==
    /\ call[c].pc = "select" /\ call'[c].pc = "revoke"
    /\ call'[c].refresh = call[c].refresh /\ call'[c].profile = call[c].profile
    /\ call[c].refresh \in live /\ Unlocked(c, call[c].refresh)
    /\ UNCHANGED <<open, live, profile>>
LocksInvitation(c) ==
    /\ call[c].pc = "idle" /\ call'[c].pc = "accept" /\ call'[c].refresh = None
    /\ call'[c].invite \in open /\ Unlocked(c, call'[c].invite)
    /\ UNCHANGED <<open, live, profile>>
MakesToken(c) ==
    /\ call[c].pc = "insert" /\ call'[c].pc = "save" /\ call'[c].profile = call[c].profile
    /\ call'[c].refresh \in Refresh \ HeldRefresh
    /\ live' = (live \intersect HeldRefresh) \union {call'[c].refresh}
    /\ UNCHANGED <<open, profile>>

\* Those that take a row away.
UsesToken(c) ==
    /\ call[c].pc = "revoke" /\ call'[c].pc = "issue" /\ call'[c].refresh = None
    /\ live' = live \ {call[c].refresh}
    /\ UNCHANGED <<open, profile>>
UsesInvitation(c) ==
    /\ call[c].pc = "accept" /\ call'[c].pc = "issue" /\ call'[c].refresh = None
    /\ open' = open \ {call[c].invite}
    /\ UNCHANGED <<live, profile>>

\* Those that store the token of a call, or forget that of a tab.
StoresToken(c) ==
    /\ call[c].pc = "save" /\ call'[c].refresh = None /\ call'[c].pc \in {"idle", "authenticate"}
    /\ profile' = [profile EXCEPT ![call[c].profile] =
                      [access |-> call[c].access, refresh |-> call[c].refresh]]
    /\ UNCHANGED <<open, live>>
HoldsNone(c) ==
    /\ call'[c].refresh = None /\ call'[c].pc \notin {"revoke", "accept"}
    /\ \A p \in Profiles : profile'[p].refresh \in {profile[p].refresh, None}
    /\ live' = live /\ open \subseteq open'

CallStep(c) ==
    /\ \A d \in Calls \ {c} : Kept(d)
    /\ \/ GetsToken(c) \/ LocksToken(c) \/ LocksInvitation(c) \/ MakesToken(c)
       \/ UsesToken(c) \/ UsesInvitation(c) \/ StoresToken(c) \/ HoldsNone(c)

\* Steps of no call: a logout, and time, which takes no row that a call holds.
OtherStep ==
    /\ call' = call
    /\ \A p \in Profiles : profile'[p].refresh \in {profile[p].refresh, None}
    /\ live' \subseteq live /\ \A r \in live \ live' : \A c \in Calls : call[c].refresh # r
    /\ open' \subseteq open /\ \A i \in open \ open' : \A c \in Calls : call[c].invite # i

LEMMA StepFlow == TypeInv /\ [Next]_vars => OtherStep \/ \E c \in Calls : CallStep(c)
<1> SUFFICES ASSUME TypeInv, [Next]_vars PROVE OtherStep \/ \E c \in Calls : CallStep(c)
  OBVIOUS
<1>1. TypeInv'
  BY StepType
<1>2. call \in [Calls -> Call]
  BY DEF TypeInv
<1>3. NoCall.pc = "idle" /\ NoCall.refresh = None
  BY DEF NoCall
<1>4. ASSUME NEW c \in Calls, End(c), live' = live, open \subseteq open',
             \A p \in Profiles : profile'[p].refresh \in {profile[p].refresh, None}
      PROVE  CallStep(c)
  BY <1>2, <1>3, <1>4 DEF CallStep, HoldsNone, End, Become, Kept
<1>5. ASSUME NEW p \in Profiles, LogOutClient(p)
      PROVE  \A o \in Profiles : profile'[o].refresh \in {profile[o].refresh, None}
  BY <1>5 DEF LogOutClient, NoSession, TypeInv
<1>6. ASSUME NEW c \in Calls, NEW p \in Profiles, BeginRequest(c, p) \/ BeginAdmin(c, p) PROVE CallStep(c)
  <2>1. PICK kind : Begin(c, p, kind)
    BY <1>6 DEF BeginRequest, BeginAdmin
  <2>2. call'[c].refresh = None /\ call'[c].pc = "authenticate" /\ \A d \in Calls \ {c} : Kept(d)
    BY <1>2, <2>1 DEF Begin, NoCall, Become, Kept
  <2> QED
    BY <2>1, <2>2 DEF Begin, CallStep, HoldsNone
<1>7. ASSUME NEW c \in Calls, NEW p \in Profiles, Setup(c, p) \/ Login(c, p) PROVE CallStep(c)
  <2>1. PICK kind, u, w :
           Become(c, [NoCall EXCEPT !.pc = "issue", !.kind = kind, !.profile = p, !.user = u, !.ws = w])
    BY <1>7 DEF Setup, Login
  <2>2. call'[c].refresh = None /\ call'[c].pc = "issue" /\ \A d \in Calls \ {c} : Kept(d)
    BY <1>2, <2>1 DEF NoCall, Become, Kept
  <2> QED
    BY <1>7, <2>2 DEF Setup, Login, CallStep, HoldsNone
<1>8. ASSUME NEW c \in Calls, NEW p \in Profiles, SelectInvitation(c, p) PROVE CallStep(c)
  <2>1. PICK i \in open, u \in Uses[p] :
           /\ Unlocked(c, i)
           /\ Become(c, [NoCall EXCEPT !.pc = "accept", !.kind = "join", !.profile = p, !.invite = i, !.user = u])
    BY <1>8 DEF SelectInvitation
  <2>2. /\ call'[c].refresh = None /\ call'[c].pc = "accept" /\ call'[c].invite = i
        /\ \A d \in Calls \ {c} : Kept(d)
    BY <2>1, <1>2 DEF NoCall, Become, Kept
  <2> QED
    BY <1>8, <2>1, <2>2 DEF SelectInvitation, CallStep, LocksInvitation
<1>9. ASSUME NEW c \in Calls, Authenticate(c) PROVE CallStep(c)
  <2>1. call[c].pc = "authenticate" /\ UNCHANGED <<status, member, open, live>> /\ call[c].profile \in Profiles
    BY <1>9, Holds DEF Authenticate
  <2>2. CASE End(c) /\ UNCHANGED profile
    BY <1>4, <2>1, <2>2
  <2>3. CASE Denied(c)
    <3>1. CASE Become(c, [call[c] EXCEPT !.pc = "select", !.access = None,
                                         !.refresh = profile[call[c].profile].refresh]) /\ profile' = profile
      <4>1. /\ call'[c].refresh = profile[call[c].profile].refresh /\ call'[c].pc = "select"
            /\ call'[c].profile = call[c].profile /\ \A d \in Calls \ {c} : Kept(d)
        BY <3>1, <1>2 DEF Call, Become, Kept
      <4> QED
        BY <2>1, <3>1, <4>1 DEF CallStep, GetsToken
    <3>2. CASE End(c) /\ (LogOutClient(call[c].profile) \/ profile' = profile)
      BY <1>4, <1>5, <2>1, <3>2
    <3> QED
      BY <2>1, <2>3, <3>1, <3>2, DeniedCall DEF End
  <2>4. CASE call'[c].pc = "act" /\ UNCHANGED profile /\ \A d \in Calls \ {c} : Kept(d)
    <3>1. call'[c].refresh = None
      BY <1>1, <2>4 DEF TypeInv, CallOK
    <3> QED
      BY <2>1, <2>4, <3>1 DEF CallStep, HoldsNone
  <2>5. ASSUME NEW u, NEW w, NEW r, UNCHANGED profile,
               Become(c, [call[c] EXCEPT !.pc = "act", !.access = None, !.user = u, !.ws = w, !.role = r])
        PROVE  CallStep(c)
    BY <1>2, <2>4, <2>5 DEF Call, Become, Kept
  <2> QED
    BY <1>9, <2>2, <2>3, <2>5 DEF Authenticate
<1>10. ASSUME NEW c \in Calls,
              Rejected(c) \/ Invite(c) \/ ChangeRole(c) \/ RenewalError(c) \/ Die(c)
       PROVE  CallStep(c)
  <2>1. CASE RenewalError(c)
    <3>1. call[c].profile \in Profiles /\ LogOutClient(call[c].profile) /\ UNCHANGED <<open, live>> /\ End(c)
      BY <2>1, Holds DEF RenewalError, Renewing, CallOK
    <3> QED
      BY <1>4, <1>5, <3>1
  <2> QED
    BY <1>4, <1>10, <2>1 DEF Rejected, Invite, CreateInvitation, ChangeRole, Die
<1>11. ASSUME NEW c \in Calls, Switch(c) \/ Issue(c) PROVE CallStep(c)
  <2>1. call[c].refresh = None
    BY <1>11, Holds DEF Switch, Issue, CallOK
  <2>2. UNCHANGED <<open, live, profile>>
    BY <1>11 DEF Switch, Issue
  <2>3. CASE Switch(c)
    <3>1. PICK w : Become(c, [call[c] EXCEPT !.pc = "issue", !.ws = w, !.role = None])
      BY <2>3 DEF Switch
    <3>2. call'[c].pc = "issue" /\ call'[c].refresh = call[c].refresh /\ \A d \in Calls \ {c} : Kept(d)
      BY <1>2, <3>1 DEF Call, Become, Kept
    <3> QED
      BY <2>1, <2>2, <3>2 DEF CallStep, HoldsNone
  <2>4. CASE Issue(c)
    <3>0. PICK pc \in {"insert", "save"} :
            \E t : Become(c, [call[c] EXCEPT !.pc = pc, !.access = t])
      BY <2>4 DEF Issue
    <3>1. PICK t : Become(c, [call[c] EXCEPT !.pc = pc, !.access = t])
      BY <3>0
    <3>2. call'[c].pc = pc /\ call'[c].refresh = call[c].refresh /\ \A d \in Calls \ {c} : Kept(d)
      BY <1>2, <3>1 DEF Call, Become, Kept
    <3> QED
      BY <2>1, <2>2, <3>2 DEF CallStep, HoldsNone
  <2> QED
    BY <1>11, <2>3, <2>4
<1>12. ASSUME NEW c \in Calls, Disable(c) PROVE CallStep(c)
  <2>1. PICK u \in Users \ {call[c].user} :
          /\ profile' = [p \in Profiles |-> [profile[p] EXCEPT !.access = Revoked(@, u)]]
          /\ call' = [d \in Calls |-> IF d = c THEN NoCall ELSE [call[d] EXCEPT !.access = Revoked(@, u)]]
    BY <1>12 DEF Disable
  <2>2. \A d \in Calls \ {c} : Kept(d)
    BY <2>1, Holds DEF Kept, Call
  <2>3. \A p \in Profiles : profile'[p].refresh = profile[p].refresh
    BY <2>1 DEF TypeInv
  <2> QED
    BY <1>3, <1>12, <2>1, <2>2, <2>3 DEF Disable, CallStep, HoldsNone
<1>13. ASSUME NEW c \in Calls, Accept(c) PROVE CallStep(c)
  <2>1. /\ call[c].pc = "accept" /\ open' = open \ {call[c].invite} /\ UNCHANGED <<live, profile>>
        /\ Become(c, [call[c] EXCEPT !.pc = "issue", !.ws = call[c].invite.ws, !.invite = None])
    BY <1>13 DEF Accept
  <2>2. call'[c].pc = "issue" /\ \A d \in Calls \ {c} : Kept(d)
    BY <1>2, <2>1 DEF Call, Become, Kept
  <2>3. call'[c].refresh = None
    BY <1>1, <2>2 DEF TypeInv, CallOK
  <2> QED
    BY <2>1, <2>2, <2>3 DEF CallStep, UsesInvitation
<1>14. ASSUME NEW c \in Calls, SelectRefresh(c) PROVE CallStep(c)
  <2>1. call[c].pc = "select" /\ Unlocked(c, call[c].refresh) /\ UNCHANGED <<open, live>>
        /\ call[c].profile \in Profiles
    BY <1>14, Holds DEF SelectRefresh
  <2>2. CASE call[c].refresh \in live /\ Become(c, [call[c] EXCEPT !.pc = "revoke"]) /\ UNCHANGED profile
    <3>1. /\ call'[c].pc = "revoke" /\ call'[c].refresh = call[c].refresh /\ call'[c].profile = call[c].profile
          /\ \A d \in Calls \ {c} : Kept(d)
      BY <1>2, <2>2 DEF Call, Become, Kept
    <3> QED
      BY <2>1, <2>2, <3>1 DEF CallStep, LocksToken
  <2>3. CASE LogOutClient(call[c].profile) /\ End(c)
    BY <1>4, <1>5, <2>1, <2>3
  <2> QED
    BY <1>14, <2>2, <2>3 DEF SelectRefresh
<1>15. ASSUME NEW c \in Calls, Revoke(c) PROVE CallStep(c)
  <2>1. /\ call[c].pc = "revoke" /\ live' = live \ {call[c].refresh} /\ UNCHANGED <<open, profile>>
        /\ Become(c, [call[c] EXCEPT !.pc = "issue", !.refresh = None,
                                     !.user = call[c].refresh.user, !.ws = call[c].refresh.ws])
    BY <1>15 DEF Revoke
  <2>2. call'[c].pc = "issue" /\ call'[c].refresh = None /\ \A d \in Calls \ {c} : Kept(d)
    BY <1>2, <2>1 DEF Call, Become, Kept
  <2> QED
    BY <2>1, <2>2 DEF CallStep, UsesToken
<1>16. ASSUME NEW c \in Calls, InsertRefresh(c) PROVE CallStep(c)
  <2> DEFINE r == NewRefresh(call[c].user, call[c].ws)
  <2>1. /\ call[c].pc = "insert" /\ live' = (live \intersect HeldRefresh) \union {r} /\ UNCHANGED <<open, profile>>
        /\ Become(c, [call[c] EXCEPT !.pc = "save", !.refresh = r])
    BY <1>16 DEF InsertRefresh
  <2>2. r \in Refresh \ HeldRefresh
    BY <2>1, Holds, NewIsNew DEF CallOK, Call
  <2> HIDE DEF r
  <2>3. /\ call'[c].pc = "save" /\ call'[c].refresh = r /\ call'[c].profile = call[c].profile
        /\ \A d \in Calls \ {c} : Kept(d)
    BY <1>2, <2>1 DEF Call, Become, Kept
  <2> QED
    BY <2>1, <2>2, <2>3 DEF CallStep, MakesToken
<1>17. ASSUME NEW c \in Calls, SaveInTab(c) PROVE CallStep(c)
  <2> DEFINE q(p, t) == [NoCall EXCEPT !.pc = "authenticate", !.kind = "request", !.retried = TRUE,
                                       !.profile = p, !.access = t]
  <2>1. Become(c, NoCall) \/ Become(c, q(call[c].profile, call[c].access))
    BY <1>17 DEF SaveInTab, End
  <2>2. ASSUME NEW p, NEW t PROVE q(p, t).pc = "authenticate" /\ q(p, t).refresh = None
    BY DEF NoCall
  <2> HIDE DEF q
  <2>3. call'[c].refresh = None /\ call'[c].pc \in {"idle", "authenticate"} /\ \A d \in Calls \ {c} : Kept(d)
    BY <1>2, <1>3, <2>1, <2>2 DEF Become, Kept
  <2> QED
    BY <1>17, <2>3 DEF SaveInTab, SaveTokens, CallStep, StoresToken
<1>18. ASSUME NEW c \in Calls, NEW kind, SaveAccess(c, kind) PROVE CallStep(c)
  <2>1. \A p \in Profiles : profile'[p].refresh = profile[p].refresh
    BY <1>18 DEF SaveAccess, TypeInv
  <2> QED
    BY <1>4, <1>18, <2>1 DEF SaveAccess
<1>19. ASSUME NEW p \in Tabs, LogOut(p) PROVE OtherStep
  BY <1>5, <1>19 DEF LogOut, OtherStep, Profiles
<1>20. ASSUME NEW p \in Profiles, ExpireAccess(p) PROVE OtherStep
  BY <1>20 DEF ExpireAccess, OtherStep, TypeInv
<1>21. ASSUME NEW r \in live, ExpireRefresh(r) PROVE OtherStep
  BY <1>21 DEF ExpireRefresh, OtherStep
<1>22. ASSUME NEW i \in open, ExpireInvitation(i) PROVE OtherStep
  BY <1>22 DEF ExpireInvitation, OtherStep
<1>23. CASE UNCHANGED vars
  BY <1>23 DEF vars, OtherStep
<1> QED
  BY <1>6, <1>7, <1>8, <1>9, <1>10, <1>11, <1>12, <1>13, <1>14, <1>15, <1>16, <1>17, <1>18, <1>19, <1>20,
     <1>21, <1>22, <1>23
  DEF Next, Step, SaveSetUp, SaveJoined, SaveSwitched

\* A row that is locked stays until the transaction that has locked it is over,
\* and no other one locks it before.
LEMMA StepLocks == TypeInv /\ RowsLocked /\ [Next]_vars => RowsLocked'
<1> SUFFICES ASSUME TypeInv, RowsLocked, [Next]_vars PROVE RowsLocked'
  OBVIOUS
<1>1. CASE OtherStep
  BY <1>1 DEF OtherStep, RowsLocked
<1>2. ASSUME NEW c \in Calls, CallStep(c) PROVE RowsLocked'
  <2>1. \A d \in Calls \ {c} : /\ call'[d].pc = call[d].pc /\ call'[d].refresh = call[d].refresh
                               /\ call'[d].invite = call[d].invite
    BY <1>2 DEF CallStep, Kept
  <2>2. CASE GetsToken(c) \/ StoresToken(c) \/ HoldsNone(c)
    <3>1. call'[c].pc \notin {"revoke", "accept"} /\ live' = live /\ open \subseteq open'
      BY <2>2 DEF GetsToken, StoresToken, HoldsNone
    <3> QED
      BY <2>1, <3>1 DEF RowsLocked
  <2>3. CASE LocksToken(c) \/ LocksInvitation(c)
    <3>1. live' = live /\ open' = open
      BY <2>3 DEF LocksToken, LocksInvitation
    <3>2. CASE LocksToken(c)
      BY <2>1, <3>1, <3>2 DEF LocksToken, Unlocked, RowsLocked
    <3>3. CASE LocksInvitation(c)
      BY <2>1, <3>1, <3>3 DEF LocksInvitation, Unlocked, RowsLocked
    <3> QED
      BY <2>3, <3>2, <3>3
  <2>4. CASE MakesToken(c)
    <3>1. \A d \in Calls : call[d].refresh \in HeldRefresh
      BY DEF HeldRefresh
    <3> QED
      BY <2>1, <2>4, <3>1 DEF MakesToken, RowsLocked
  <2>5. CASE UsesToken(c)
    BY <2>1, <2>5 DEF UsesToken, RowsLocked
  <2>6. CASE UsesInvitation(c)
    BY <2>1, <2>6 DEF UsesInvitation, RowsLocked
  <2> QED
    BY <1>2, <2>2, <2>3, <2>4, <2>5, <2>6 DEF CallStep
<1> QED
  BY <1>1, <1>2, StepFlow

\* A new token is in one call's hands, goes from there to the profile of the
\* call, and from there only to calls of that profile.
LEMMA StepApart == TypeInv /\ TokensApart /\ [Next]_vars => TokensApart'
<1> SUFFICES ASSUME TypeInv, TokensApart, [Next]_vars PROVE TokensApart'
  OBVIOUS
<1>1. CASE OtherStep
  BY <1>1 DEF OtherStep, TokensApart
<1>2. ASSUME NEW c \in Calls, CallStep(c) PROVE TokensApart'
  <2>1. \A d \in Calls \ {c} : /\ call'[d].pc = call[d].pc /\ call'[d].refresh = call[d].refresh
                               /\ call'[d].profile = call[d].profile
    BY <1>2 DEF CallStep, Kept
  <2>2. CASE GetsToken(c)
    <3>1. call[c].profile \in Profiles
      BY <2>2, Holds DEF GetsToken
    <3> QED
      BY <2>1, <2>2, <3>1 DEF GetsToken, TokensApart
  <2>3. CASE LocksToken(c)
    BY <2>1, <2>3 DEF LocksToken, TokensApart
  <2>4. CASE LocksInvitation(c)
    BY <2>1, <2>4 DEF LocksInvitation, TokensApart
  <2>5. CASE MakesToken(c)
    <3>1. /\ \A d \in Calls : call[d].refresh \in HeldRefresh
          /\ \A p \in Profiles : profile[p].refresh \in HeldRefresh
      BY DEF HeldRefresh
    <3> QED
      BY <2>1, <2>5, <3>1 DEF MakesToken, TokensApart
  <2>6. CASE UsesToken(c)
    BY <2>1, <2>6 DEF UsesToken, TokensApart
  <2>7. CASE UsesInvitation(c)
    BY <2>1, <2>7 DEF UsesInvitation, TokensApart
  <2>8. CASE StoresToken(c)
    <3>1. call[c].profile \in Profiles
      BY <2>8, Holds DEF StoresToken
    <3>2. \A p \in Profiles : profile'[p].refresh = IF p = call[c].profile THEN call[c].refresh ELSE profile[p].refresh
      BY <2>8 DEF StoresToken, TypeInv
    <3> QED
      BY <2>1, <2>8, <3>1, <3>2 DEF StoresToken, TokensApart
  <2>9. CASE HoldsNone(c)
    BY <2>1, <2>9 DEF HoldsNone, TokensApart
  <2> QED
    BY <1>2, <2>2, <2>3, <2>4, <2>5, <2>6, <2>7, <2>8, <2>9 DEF CallStep
<1> QED
  BY <1>1, <1>2, StepFlow

LEMMA InitLocks == Init => RowsLocked /\ TokensApart /\ \A p \in intact : SessionOK(p)
  BY DEF Init, RowsLocked, TokensApart, NoCall, NoSession

-----------------------------------------------------------------------------
(***************************************************************************)
(* Sessions.                                                                *)
(***************************************************************************)
\* A session goes on while its token stays where it is, and no call begins or
\* ends to renew it.
LEMMA SessionStays ==
  ASSUME NEW p, SessionOK(p), profile'[p].refresh = profile[p].refresh,
         status'[profile[p].refresh.user] = "active",
         profile[p].refresh \in live => profile[p].refresh \in live',
         \A d \in Calls :
            \/ /\ Kept(d)
               /\ call[d].access # None /\ call[d].access.user = profile[p].refresh.user =>
                     call'[d].access = call[d].access
            \/ /\ ~RenewingFor(d, p) /\ ~RenewingFor(d, p)'
               /\ call'[d].profile = p /\ call'[d].kind = "request" =>
                     call'[d].pc = "authenticate" /\ ~call'[d].retried
  PROVE  SessionOK(p)'
<1>1. \A d \in Calls : RenewingFor(d, p)' <=> RenewingFor(d, p)
  BY DEF Kept, RenewingFor, Renewing
<1>2. ASSUME NEW d \in Calls, call'[d].profile = p, call'[d].kind = "request" PROVE Renews(d, p)'
  <2>1. CASE /\ Kept(d)
             /\ call[d].access # None /\ call[d].access.user = profile[p].refresh.user =>
                   call'[d].access = call[d].access
    <3>1. Renews(d, p)
      BY <1>2, <2>1 DEF SessionOK, Kept
    <3> QED
      BY <2>1, <3>1 DEF Renews, Kept
  <2>2. CASE call'[d].pc = "authenticate" /\ ~call'[d].retried
    BY <2>2 DEF Renews
  <2> QED
    BY <1>2, <2>1, <2>2
<1> QED
  BY <1>1, <1>2 DEF SessionOK

\* The only call that renews a session may go on doing so.
LEMMA RenewalGoesOn ==
  ASSUME NEW p, SessionOK(p), UNCHANGED <<profile, status>>, NEW c \in Calls,
         \A d \in Calls \ {c} : call'[d] = call[d] /\ ~RenewingFor(d, p),
         RenewingFor(c, p)', Renews(c, p)'
  PROVE  SessionOK(p)'
<1>1. \A d \in Calls \ {c} : ~RenewingFor(d, p)'
  BY DEF RenewingFor, Renewing
<1>2. ASSUME NEW d \in Calls \ {c}, call'[d].profile = p, call'[d].kind = "request" PROVE Renews(d, p)'
  <2>1. Renews(d, p) /\ call'[d] = call[d] /\ ~Renewing(d)
    BY <1>2 DEF SessionOK, RenewingFor
  <2>2. call[d].pc \notin {"select", "revoke", "issue", "insert", "save"}
    BY <1>2, <2>1 DEF Renewing
  <2> QED
    BY <2>1, <2>2 DEF Renews
<1> QED
  BY <1>1, <1>2 DEF SessionOK

LEMMA AuthenticateSession ==
  ASSUME IInv, NEW c \in Calls, Authenticate(c), NEW p \in intact', p \in intact
  PROVE  SessionOK(p)'
<1> DEFINE t == call[c].access
           u == profile[p].refresh.user
<1>1. /\ TypeInv /\ SessionOK(p) /\ p \in Tabs /\ p \in Profiles
      /\ call[c].pc = "authenticate" /\ UNCHANGED <<status, member, open, live>>
  BY DEF IInv, Authenticate, TypeInv, Profiles
<1>2. ~RenewingFor(c, p)
  BY <1>1 DEF RenewingFor, Renewing
<1>3. ASSUME NEW q, Become(c, q), q.pc \in {"idle", "act"}, q.kind # "request",
             profile'[p].refresh = profile[p].refresh
      PROVE  SessionOK(p)'
  <2>1. call'[c] = q /\ \A d \in Calls \ {c} : call'[d] = call[d]
    BY <1>1, <1>3, OneCall
  <2>2. ~RenewingFor(c, p)'
    BY <1>3, <2>1 DEF RenewingFor, Renewing
  <2>3. \A d \in Calls \ {c} : Kept(d) /\ call'[d].access = call[d].access
    BY <2>1 DEF Kept
  <2>4. status'[profile[p].refresh.user] = "active"
    BY <1>1 DEF SessionOK
  <2> QED
    BY <1>1, <1>2, <1>3, <2>1, <2>2, <2>3, <2>4, SessionStays
<1>4. NoCall.pc = "idle" /\ NoCall.kind # "request"
  BY NoneIsNothing DEF NoCall, Kinds
<1>5. CASE Authentic(t) /\ UNCHANGED profile
  <2>1. CASE End(c)
    BY <1>3, <1>4, <1>5, <2>1 DEF End
  <2>2. CASE call[c].kind # "request"
             /\ Become(c, [call[c] EXCEPT !.pc = "act", !.access = None, !.user = t.user,
                                          !.ws = t.ws, !.role = member[t.ws][t.user]])
    <3> DEFINE q == [call[c] EXCEPT !.pc = "act", !.access = None, !.user = t.user,
                                    !.ws = t.ws, !.role = member[t.ws][t.user]]
    <3>1. q.pc = "act" /\ q.kind = call[c].kind /\ Become(c, q)
      BY <1>1, <2>2, Holds DEF Call
    <3> HIDE DEF q
    <3> QED
      BY <1>3, <1>5, <2>2, <3>1
  <2> QED
    BY <1>5, <2>1, <2>2 DEF Authenticate
<1>6. CASE ~Authentic(t) /\ Denied(c)
  <2> DEFINE o == call[c].profile
             q == [call[c] EXCEPT !.pc = "select", !.access = None, !.refresh = profile[o].refresh]
  <2>1. CASE /\ o \in Tabs /\ profile[o].refresh # None
             /\ Become(c, q) /\ CallOK(q, member) /\ profile' = profile
             /\ intact' = IF \E d \in Others(c, o) : Renewing(d) THEN intact \ {o} ELSE intact
    <3>1. call'[c] = q /\ \A d \in Calls \ {c} : call'[d] = call[d]
      BY <1>1, <2>1, OneCall
    <3>2. q.pc = "select" /\ q.kind = call[c].kind /\ q.profile = o /\ q.refresh = profile[o].refresh
      BY <1>1, Holds DEF Call
    <3>3. q.kind = "request"
      BY <2>1, <3>2 DEF CallOK
    <3> HIDE DEF q
    <3>4. CASE p = o
      <4>1. \A d \in Calls \ {c} : ~RenewingFor(d, p)
        BY <2>1, <3>4 DEF Others, RenewingFor
      <4>2. profile[p].refresh \in live
        BY <1>1, <1>2, <4>1 DEF SessionOK
      <4>3. RenewingFor(c, p)' /\ Renews(c, p)'
        BY <1>1, <2>1, <3>1, <3>2, <3>3, <3>4, <4>2 DEF RenewingFor, Renewing, Renews
      <4> QED
        BY <1>1, <2>1, <3>1, <4>1, <4>3, RenewalGoesOn
    <3>5. CASE p # o
      <4>1. ~RenewingFor(c, p)' /\ call'[c].profile # p
        BY <3>1, <3>2, <3>5 DEF RenewingFor
      <4>2. \A d \in Calls \ {c} : Kept(d) /\ call'[d].access = call[d].access
        BY <3>1 DEF Kept
      <4>3. status'[profile[p].refresh.user] = "active"
        BY <1>1 DEF SessionOK
      <4> QED
        BY <1>1, <1>2, <2>1, <4>1, <4>2, <4>3, SessionStays
    <3> QED
      BY <3>4, <3>5
  <2>2. CASE /\ Become(c, NoCall)
             /\ \/ /\ o \in Tabs /\ LogOutClient(o)
                   /\ profile[o].refresh = None \/ call[c].retried
                \/ o \in Keyrings /\ profile' = profile
    <3>1. ASSUME p = o PROVE FALSE
      <4>1. profile[p].refresh # None /\ o \notin Keyrings
        BY <1>1, <3>1, AccountsAssumption DEF SessionOK
      <4>2. call[c].retried /\ call[c].kind = "request"
        BY <1>1, <2>2, <3>1, <4>1, Holds DEF CallOK
      <4>3. t # None /\ t.user = u /\ t.valid
        BY <1>1, <3>1, <4>2 DEF SessionOK, Renews
      <4>4. status[t.user] = "active" /\ member[t.ws][t.user] # None
        BY <1>1, <4>3, Holds DEF SessionOK, CallOK, IsMember
      <4> QED
        BY <1>6, <4>3, <4>4 DEF Authentic
    <3>2. profile'[p] = profile[p]
      BY <1>1, <2>2, <3>1 DEF LogOutClient, TypeInv
    <3> QED
      BY <1>3, <1>4, <2>2, <3>2
  <2> QED
    BY <1>1, <1>6, <2>1, <2>2, DeniedCall
<1> QED
  BY <1>5, <1>6 DEF Authenticate

\* Calls that are none of a tab's renewals, whatever they do to others.
LEMMA OtherCallSession ==
  ASSUME IInv, NEW p \in intact, NEW c \in Calls, NEW q, Become(c, q), ~RenewingFor(c, p),
         q.profile = p => q.kind # "request" \/ (q.pc = "authenticate" /\ ~q.retried),
         profile'[p].refresh = profile[p].refresh,
         status' = status \/ \E u \in Users : status' = Registered(u),
         profile[p].refresh \in live => profile[p].refresh \in live'
  PROVE  SessionOK(p)'
<1>1. TypeInv /\ SessionOK(p) /\ p \in Profiles
  BY DEF IInv, TypeInv, Profiles
<1>2. call'[c] = q /\ \A d \in Calls \ {c} : call'[d] = call[d]
  BY <1>1, OneCall
<1>3. ~RenewingFor(c, p)'
  BY <1>2 DEF RenewingFor, Renewing
<1>4. \A d \in Calls \ {c} : Kept(d) /\ call'[d].access = call[d].access
  BY <1>2 DEF Kept
<1>5. status'[profile[p].refresh.user] = "active"
  <2>1. profile[p].refresh.user \in Users /\ status[profile[p].refresh.user] = "active"
    BY <1>1 DEF SessionOK, TypeInv, Refresh
  <2> QED
    BY <1>1, <2>1 DEF Registered, TypeInv
<1> QED
  BY <1>1, <1>2, <1>3, <1>4, <1>5, SessionStays

LEMMA BeginSession ==
  ASSUME IInv, NEW p \in intact, NEW c \in Calls, NEW o \in Profiles,
         BeginRequest(c, o) \/ BeginAdmin(c, o) \/ Setup(c, o) \/ Login(c, o) \/ SelectInvitation(c, o)
  PROVE  SessionOK(p)'
<1>1. call[c].pc = "idle" /\ UNCHANGED <<live, profile>>
  BY DEF BeginRequest, BeginAdmin, Begin, Setup, Login, SelectInvitation
<1>2. ~RenewingFor(c, p)
  BY <1>1 DEF RenewingFor, Renewing
<1>3. status' = status \/ \E u \in Users : status' = Registered(u)
  BY AccountsAssumption DEF BeginRequest, BeginAdmin, Setup, Login, SelectInvitation
<1>4. ASSUME NEW q, Become(c, q), q.kind # "request" \/ (q.pc = "authenticate" /\ ~q.retried)
      PROVE  SessionOK(p)'
  BY <1>1, <1>2, <1>3, <1>4, OtherCallSession
<1>5. ASSUME NEW kind, Begin(c, o, kind) PROVE SessionOK(p)'
  <2> DEFINE q == [NoCall EXCEPT !.pc = "authenticate", !.kind = kind, !.profile = o, !.access = profile[o].access]
  <2>1. Become(c, q) /\ q.pc = "authenticate" /\ ~q.retried
    BY <1>5 DEF Begin, NoCall
  <2> HIDE DEF q
  <2> QED
    BY <1>4, <2>1
<1>6. CASE Setup(c, o) \/ Login(c, o)
  <2> DEFINE q(kind, u, w) == [NoCall EXCEPT !.pc = "issue", !.kind = kind, !.profile = o, !.user = u, !.ws = w]
  <2>0. PICK kind \in {"setup", "login"} : \E u, w : Become(c, q(kind, u, w))
    BY <1>6 DEF Setup, Login
  <2>1. PICK u, w : Become(c, q(kind, u, w))
    BY <2>0
  <2>2. q(kind, u, w).kind # "request"
    BY DEF NoCall
  <2> HIDE DEF q
  <2> QED
    BY <1>4, <2>1, <2>2
<1>7. CASE SelectInvitation(c, o)
  <2> DEFINE q(i, u) == [NoCall EXCEPT !.pc = "accept", !.kind = "join", !.profile = o, !.invite = i, !.user = u]
  <2>1. PICK i, u : Become(c, q(i, u))
    BY <1>7 DEF SelectInvitation
  <2>2. q(i, u).kind # "request"
    BY DEF NoCall
  <2> HIDE DEF q
  <2> QED
    BY <1>4, <2>1, <2>2
<1> QED
  BY <1>5, <1>6, <1>7 DEF BeginRequest, BeginAdmin

\* The steps of commands, whose profile is a keyring.
LEMMA CommandSession ==
  ASSUME IInv, NEW p \in intact, NEW c \in Calls,
         \/ Rejected(c) \/ Switch(c) \/ Invite(c) \/ ChangeRole(c) \/ Accept(c)
         \/ \E kind \in {"setup", "join", "admin"} : SaveAccess(c, kind)
  PROVE  SessionOK(p)'
<1>1. /\ TypeInv /\ p \in Tabs /\ p \in Profiles
      /\ call[c].pc \in {"act", "accept", "save"} /\ call[c].kind \notin {"request", "login"}
      /\ call[c].user \in Users \union {None}
  <2>1. TypeInv /\ p \in Tabs /\ p \in Profiles
    BY DEF IInv, TypeInv, Profiles
  <2> QED
    BY <2>1, Holds DEF Rejected, Switch, Invite, ChangeRole, Accept, SaveAccess, CallOK, Call
<1>2. call[c].profile \in Keyrings /\ call[c].profile # p
  BY <1>1, Holds, AccountsAssumption DEF Profiles
<1>3. ~RenewingFor(c, p) /\ NoCall.kind # "request" /\ live' = live
  BY <1>2, NoneIsNothing DEF RenewingFor, NoCall, Kinds, Rejected, Switch, Invite, ChangeRole, Accept, SaveAccess
<1>4. status' = status \/ \E u \in Users : status' = Registered(u)
  <2>1. CASE Accept(c)
    <3>1. call[c].user \in Users
      BY <1>1, <2>1, Holds DEF Accept, CallOK
    <3> QED
      BY <2>1, <3>1 DEF Accept
  <2> QED
    BY <2>1 DEF Rejected, Switch, Invite, ChangeRole, SaveAccess
<1>5. profile'[p].refresh = profile[p].refresh
  BY <1>1, <1>2 DEF Rejected, Switch, Invite, ChangeRole, Accept, SaveAccess, TypeInv
<1>6. CASE End(c)
  BY <1>3, <1>4, <1>5, <1>6, OtherCallSession DEF End
<1>7. CASE Switch(c)
  <2> DEFINE q(w) == [call[c] EXCEPT !.pc = "issue", !.ws = w, !.role = None]
  <2>1. PICK w : Become(c, q(w))
    BY <1>7 DEF Switch
  <2>2. q(w).profile = call[c].profile
    BY <1>1, Holds DEF Call
  <2> HIDE DEF q
  <2> QED
    BY <1>2, <1>3, <1>4, <1>5, <2>1, <2>2, OtherCallSession
<1>8. CASE Accept(c)
  <2> DEFINE q == [call[c] EXCEPT !.pc = "issue", !.ws = call[c].invite.ws, !.invite = None]
  <2>1. Become(c, q)
    BY <1>8 DEF Accept
  <2>2. q.profile = call[c].profile
    BY <1>1, Holds DEF Call
  <2> HIDE DEF q
  <2> QED
    BY <1>2, <1>3, <1>4, <1>5, <2>1, <2>2, OtherCallSession
<1> QED
  BY <1>6, <1>7, <1>8 DEF Rejected, Invite, ChangeRole, SaveAccess

\* Disabling a user ends his sessions and touches no other one.
LEMMA DisableSession ==
  ASSUME IInv, NEW p \in intact', NEW c \in Calls, Disable(c)
  PROVE  SessionOK(p)'
<1>1. PICK u \in Users \ {call[c].user} :
        /\ status' = [status EXCEPT ![u] = "disabled"]
        /\ profile' = [o \in Profiles |-> [profile[o] EXCEPT !.access = Revoked(@, u)]]
        /\ call' = [d \in Calls |-> IF d = c THEN NoCall ELSE [call[d] EXCEPT !.access = Revoked(@, u)]]
        /\ intact' = {o \in intact : profile[o].refresh.user # u}
  BY DEF Disable
<1>2. /\ TypeInv /\ p \in intact /\ p \in Profiles /\ SessionOK(p) /\ profile[p].refresh.user # u
      /\ live' = live /\ call[c].pc = "act"
  BY <1>1 DEF IInv, TypeInv, Profiles, Disable
<1>3. profile'[p].refresh = profile[p].refresh
  BY <1>1, <1>2 DEF TypeInv
<1>4. status'[profile[p].refresh.user] = "active"
  BY <1>1, <1>2 DEF SessionOK, TypeInv, Refresh
<1>5. ~RenewingFor(c, p) /\ ~RenewingFor(c, p)' /\ call'[c].kind # "request"
  BY <1>1, <1>2, NoneIsNothing DEF RenewingFor, Renewing, NoCall, Kinds
<1>6. ASSUME NEW d \in Calls \ {c}
      PROVE  /\ Kept(d)
             /\ call[d].access # None /\ call[d].access.user = profile[p].refresh.user =>
                   call'[d].access = call[d].access
  <2>1. call[d] \in Call /\ call[d].access \in Access \union {None}
    BY <1>2, Holds DEF Call
  <2>2. call'[d] = [call[d] EXCEPT !.access = Revoked(@, u)]
    BY <1>1
  <2>3. Kept(d) /\ call'[d].access = Revoked(call[d].access, u)
    BY <2>1, <2>2 DEF Kept, Call
  <2> QED
    BY <1>2, <2>1, <2>3, RevokedType
<1> QED
  BY <1>2, <1>3, <1>4, <1>5, <1>6, SessionStays

\* A renewal of the tab's session takes its next step.
LEMMA RenewalStep ==
  ASSUME IInv, NEW p \in intact, NEW c \in Calls, RenewingFor(c, p), NEW q, Become(c, q),
         UNCHANGED <<profile, status>>, RenewingFor(c, p)', Renews(c, p)'
  PROVE  SessionOK(p)'
<1>1. TypeInv /\ SessionOK(p)
  BY DEF IInv
<1>2. \A d \in Calls \ {c} : call'[d] = call[d] /\ ~RenewingFor(d, p)
  BY <1>1, OneCall DEF SessionOK
<1> QED
  BY <1>1, <1>2, RenewalGoesOn

\* The steps of a renewal, and those that a login shares with it.
LEMMA RenewSession ==
  ASSUME IInv, NEW p \in intact, NEW c \in Calls,
         SelectRefresh(c) \/ Revoke(c) \/ Issue(c) \/ InsertRefresh(c)
  PROVE  SessionOK(p)'
<1>1. /\ TypeInv /\ SessionOK(p) /\ p \in Tabs /\ p \in Profiles
      /\ UNCHANGED status /\ call[c] \in Call /\ CallOK(call[c], member)
      /\ call[c].pc \in {"select", "revoke", "issue", "insert"}
  BY Holds DEF IInv, TypeInv, Profiles, SelectRefresh, Revoke, Issue, InsertRefresh
<1>2. RenewingFor(c, p) => call[c].profile = p /\ call[c].kind = "request" /\ Renews(c, p)
  BY <1>1 DEF RenewingFor, Renewing, SessionOK
<1>3. ~RenewingFor(c, p) => call[c].profile # p \/ call[c].kind # "request"
  BY <1>1 DEF RenewingFor, Renewing
<1>4. CASE SelectRefresh(c)
  <2> DEFINE q == [call[c] EXCEPT !.pc = "revoke"]
  <2>1. q.pc = "revoke" /\ q.kind = call[c].kind /\ q.profile = call[c].profile /\ q.refresh = call[c].refresh
    BY <1>1 DEF Call
  <2> HIDE DEF q
  <2>2. call[c].pc = "select" /\ live' = live
    BY <1>4 DEF SelectRefresh
  <2>3. CASE Become(c, q) /\ UNCHANGED profile
    <3>1. call'[c] = q
      BY <1>1, <2>3, OneCall
    <3>2. CASE RenewingFor(c, p)
      <4>1. RenewingFor(c, p)' /\ Renews(c, p)'
        BY <1>2, <2>1, <2>2, <2>3, <3>1, <3>2 DEF RenewingFor, Renewing, Renews
      <4> QED
        BY <1>1, <2>3, <3>2, <4>1, RenewalStep
    <3>3. CASE ~RenewingFor(c, p)
      BY <1>1, <1>3, <2>1, <2>2, <2>3, <3>3, OtherCallSession
    <3> QED
      BY <3>2, <3>3
  <2>4. CASE call[c].refresh \notin live /\ LogOutClient(call[c].profile) /\ End(c)
    <3>1. ~RenewingFor(c, p) /\ call[c].profile # p
      BY <1>1, <1>2, <1>3, <2>2, <2>4 DEF Renews, CallOK
    <3>2. profile'[p] = profile[p]
      BY <1>1, <2>4, <3>1 DEF LogOutClient, TypeInv
    <3>3. NoCall.kind # "request"
      BY NoneIsNothing DEF NoCall, Kinds
    <3> QED
      BY <1>1, <2>2, <2>4, <3>1, <3>2, <3>3, OtherCallSession DEF End
  <2> QED
    BY <1>4, <2>3, <2>4 DEF SelectRefresh, q
<1>5. CASE Revoke(c)
  <2> DEFINE r == call[c].refresh
             q == [call[c] EXCEPT !.pc = "issue", !.refresh = None, !.user = r.user, !.ws = r.ws]
  <2>1. q.pc = "issue" /\ q.kind = call[c].kind /\ q.profile = call[c].profile /\ q.user = r.user
    BY <1>1 DEF Call
  <2>2. call[c].pc = "revoke" /\ live' = live \ {r} /\ UNCHANGED profile /\ Become(c, q)
    BY <1>5 DEF Revoke
  <2> HIDE DEF q
  <2>3. call'[c] = q
    BY <1>1, <2>2, OneCall
  <2>4. CASE RenewingFor(c, p)
    <3>1. RenewingFor(c, p)' /\ Renews(c, p)'
      BY <1>2, <2>1, <2>2, <2>3, <2>4 DEF RenewingFor, Renewing, Renews
    <3> QED
      BY <1>1, <2>2, <2>4, <3>1, RenewalStep
  <2>5. CASE ~RenewingFor(c, p)
    <3>1. call[c].profile # p /\ r # None
      BY <1>1, <1>3, <2>2, <2>5 DEF CallOK
    <3>2. profile[p].refresh # r
      BY <1>1, <3>1 DEF IInv, TokensApart
    <3> QED
      BY <1>1, <2>1, <2>2, <2>5, <3>1, <3>2, OtherCallSession
  <2> QED
    BY <2>4, <2>5
<1>6. CASE Issue(c)
  <2> DEFINE renewable == call[c].kind \in {"request", "login"}
             t == [user |-> call[c].user, ws |-> call[c].ws, lasting |-> ~renewable, valid |-> TRUE]
             q == [call[c] EXCEPT !.pc = IF renewable THEN "insert" ELSE "save", !.access = t]
  <2>1. /\ q.pc = (IF renewable THEN "insert" ELSE "save") /\ q.kind = call[c].kind
        /\ q.profile = call[c].profile /\ q.access = t
    BY <1>1 DEF Call
  <2>2. call[c].pc = "issue" /\ UNCHANGED <<live, profile>> /\ Become(c, q)
    BY <1>6 DEF Issue
  <2> HIDE DEF q
  <2>3. call'[c] = q
    BY <1>1, <2>2, OneCall
  <2>4. CASE RenewingFor(c, p)
    <3>1. t.user = profile[p].refresh.user /\ t.valid
      BY <1>2, <2>2, <2>4 DEF Renews
    <3>2. t # None
      <4>1. t \in Access
        BY <1>1, <2>2 DEF CallOK, Call, Access
      <4> QED
        BY <4>1, NoneIsNothing
    <3> HIDE DEF t
    <3>3. RenewingFor(c, p)' /\ Renews(c, p)'
      BY <1>2, <2>1, <2>2, <2>3, <2>4, <3>1, <3>2 DEF RenewingFor, Renewing, Renews
    <3> QED
      BY <1>1, <2>2, <2>4, <3>3, RenewalStep
  <2>5. CASE ~RenewingFor(c, p)
    BY <1>1, <1>3, <2>1, <2>2, <2>5, OtherCallSession
  <2> QED
    BY <2>4, <2>5
<1>7. CASE InsertRefresh(c)
  <2> DEFINE r == NewRefresh(call[c].user, call[c].ws)
             q == [call[c] EXCEPT !.pc = "save", !.refresh = r]
  <2>1. q.pc = "save" /\ q.kind = call[c].kind /\ q.profile = call[c].profile /\ q.access = call[c].access
    BY <1>1 DEF Call
  <2>2. /\ call[c].pc = "insert" /\ live' = (live \intersect HeldRefresh) \union {r}
        /\ UNCHANGED profile /\ Become(c, q)
    BY <1>7 DEF InsertRefresh
  <2> HIDE DEF q, r
  <2>3. call'[c] = q
    BY <1>1, <2>2, OneCall
  <2>4. CASE RenewingFor(c, p)
    <3>1. RenewingFor(c, p)' /\ Renews(c, p)'
      BY <1>2, <2>1, <2>2, <2>3, <2>4 DEF RenewingFor, Renewing, Renews
    <3> QED
      BY <1>1, <2>2, <2>4, <3>1, RenewalStep
  <2>5. CASE ~RenewingFor(c, p)
    <3>1. profile[p].refresh \in HeldRefresh
      BY <1>1 DEF HeldRefresh
    <3> QED
      BY <1>1, <1>3, <2>1, <2>2, <2>5, <3>1, OtherCallSession
  <2> QED
    BY <2>4, <2>5
<1> QED
  BY <1>4, <1>5, <1>6, <1>7

\* A tab stores the tokens of a login, which opens a session, or of a renewal.
LEMMA SaveSession ==
  ASSUME IInv, NEW p \in intact', NEW c \in Calls, SaveInTab(c)
  PROVE  SessionOK(p)'
<1> DEFINE o == call[c].profile
           q == [NoCall EXCEPT !.pc = "authenticate", !.kind = "request", !.retried = TRUE,
                               !.profile = o, !.access = call[c].access]
<1>1. /\ TypeInv /\ TokensApart /\ call[c].pc = "save" /\ o \in Tabs /\ o \in Profiles
      /\ UNCHANGED <<status, member, open, live>> /\ call[c] \in Call /\ CallOK(call[c], member)
      /\ intact \subseteq Profiles
  BY Holds DEF IInv, SaveInTab, TypeInv, Profiles
<1>2. /\ call[c].kind \in {"request", "login"} /\ call[c].access # None
      /\ call[c].refresh # None /\ call[c].refresh.user = call[c].access.user
      /\ call[c].refresh \in live
  BY <1>1, Holds DEF CallOK, TokensApart
<1>3. /\ profile'[o].refresh = call[c].refresh
      /\ \A b \in Profiles \ {o} : profile'[b] = profile[b]
  BY <1>1 DEF SaveInTab, SaveTokens, TypeInv
<1>4. /\ q.pc = "authenticate" /\ q.kind = "request" /\ q.retried /\ q.profile = o /\ q.access = call[c].access
      /\ NoCall.kind # "request" /\ NoCall.profile # o
  BY <1>1, NoneIsNothing DEF NoCall, Kinds
<1> HIDE DEF q
<1>5. CASE call[c].kind = "login"
  <2>1. Become(c, NoCall) /\ call'[c] = NoCall /\ \A d \in Calls \ {c} : call'[d] = call[d]
    BY <1>1, <1>5, OneCall DEF SaveInTab, End
  <2>2. CASE p = o
    <3>1. Others(c, o) = {} /\ status[call[c].user] = "active"
      BY <1>5, <2>2 DEF SaveInTab, Opened
    <3>2. \A d \in Calls : call'[d].profile # o
      BY <1>4, <2>1, <3>1 DEF Others
    <3>3. status'[profile'[p].refresh.user] = "active"
      BY <1>1, <1>2, <1>3, <1>5, <2>2, <3>1 DEF CallOK
    <3> QED
      BY <1>1, <1>2, <1>3, <2>2, <3>2, <3>3 DEF SessionOK, RenewingFor
  <2>3. CASE p # o
    <3>1. p \in intact
      BY <1>5, <2>3 DEF SaveInTab, Opened
    <3>2. ~RenewingFor(c, p)
      BY <1>5 DEF RenewingFor, Renewing
    <3> QED
      BY <1>1, <1>3, <1>4, <2>1, <2>3, <3>1, <3>2, OtherCallSession
  <2> QED
    BY <2>2, <2>3
<1>6. CASE call[c].kind = "request"
  <2>1. Become(c, q) /\ call'[c] = q /\ (\A d \in Calls \ {c} : call'[d] = call[d]) /\ p \in intact
    BY <1>1, <1>6, OneCall DEF SaveInTab, Opened, q
  <2>2. CASE p = o
    <3>1. SessionOK(p) /\ RenewingFor(c, p) /\ Renews(c, p)
      BY <1>1, <1>6, <2>1, <2>2 DEF IInv, RenewingFor, Renewing, SessionOK
    <3>2. \A d \in Calls \ {c} : ~RenewingFor(d, p) /\ ~RenewingFor(d, p)'
      BY <2>1, <3>1 DEF SessionOK, RenewingFor, Renewing
    <3>3. call[c].access.user = profile[p].refresh.user /\ call[c].access.valid
      BY <1>1, <3>1 DEF Renews
    <3>4. profile'[p].refresh.user = profile[p].refresh.user
      BY <1>2, <1>3, <2>2, <3>3
    <3>5. ~RenewingFor(c, p)' /\ Renews(c, p)'
      BY <1>2, <1>4, <2>1, <3>3, <3>4 DEF RenewingFor, Renewing, Renews
    <3>6. ASSUME NEW d \in Calls \ {c}, call'[d].profile = p, call'[d].kind = "request" PROVE Renews(d, p)'
      <4>1. Renews(d, p) /\ call'[d] = call[d] /\ ~Renewing(d)
        BY <2>1, <3>1, <3>2, <3>6 DEF SessionOK, RenewingFor
      <4>2. call[d].pc \notin {"select", "revoke", "issue", "insert", "save"}
        BY <3>6, <4>1 DEF Renewing
      <4> QED
        BY <3>4, <4>1, <4>2 DEF Renews
    <3> QED
      BY <1>1, <1>2, <1>3, <2>2, <3>1, <3>2, <3>4, <3>5, <3>6 DEF SessionOK
  <2>3. CASE p # o
    <3>1. ~RenewingFor(c, p)
      BY <2>3 DEF RenewingFor
    <3> QED
      BY <1>1, <1>3, <1>4, <2>1, <2>3, <3>1, OtherCallSession
  <2> QED
    BY <2>2, <2>3
<1> QED
  BY <1>2, <1>5, <1>6

\* A renewal that dies before its transaction commits leaves the tab its token.
LEMMA DieSession ==
  ASSUME IInv, NEW p \in intact', NEW c \in Calls, Die(c)
  PROVE  SessionOK(p)'
<1>1. /\ TypeInv /\ UNCHANGED <<status, live, profile>> /\ Become(c, NoCall) /\ p \in intact
      /\ RenewingFor(c, p) => call[c].pc \in {"select", "revoke"}
  BY DEF IInv, Die, End, RenewingFor
<1>2. NoCall.kind # "request"
  BY NoneIsNothing DEF NoCall, Kinds
<1>3. CASE RenewingFor(c, p)
  <2>1. SessionOK(p) /\ Renews(c, p)
    BY <1>1, <1>3 DEF IInv, SessionOK, RenewingFor, Renewing
  <2>2. profile[p].refresh \in live
    BY <1>1, <1>3, <2>1 DEF Renews
  <2>3. call'[c] = NoCall /\ \A d \in Calls \ {c} : call'[d] = call[d] /\ ~RenewingFor(d, p)
    BY <1>1, <1>3, <2>1, OneCall DEF SessionOK
  <2>4. \A d \in Calls : ~RenewingFor(d, p)'
    BY <1>2, <2>3 DEF RenewingFor, Renewing
  <2>5. ASSUME NEW d \in Calls, call'[d].profile = p, call'[d].kind = "request" PROVE Renews(d, p)'
    <3>1. d # c /\ call'[d] = call[d]
      BY <1>2, <2>3, <2>5
    <3>2. Renews(d, p) /\ ~Renewing(d)
      BY <2>1, <2>3, <2>5, <3>1 DEF SessionOK, RenewingFor
    <3>3. call[d].pc \notin {"select", "revoke", "issue", "insert", "save"}
      BY <2>5, <3>1, <3>2 DEF Renewing
    <3> QED
      BY <1>1, <3>1, <3>2, <3>3 DEF Renews
  <2> QED
    BY <1>1, <2>1, <2>2, <2>4, <2>5 DEF SessionOK
<1>4. CASE ~RenewingFor(c, p)
  BY <1>1, <1>2, <1>4, OtherCallSession
<1> QED
  BY <1>3, <1>4

\* The error logs its own tab out, whose session is no longer intact.
LEMMA ErrorSession ==
  ASSUME IInv, NEW p \in intact', NEW c \in Calls, RenewalError(c)
  PROVE  SessionOK(p)'
<1> DEFINE o == call[c].profile
<1>1. /\ TypeInv /\ UNCHANGED <<status, live>> /\ Become(c, NoCall) /\ p \in intact /\ p # o
      /\ LogOutClient(o)
  BY DEF IInv, RenewalError, End
<1>2. p \in Profiles /\ profile'[p] = profile[p]
  BY <1>1 DEF TypeInv, Profiles, LogOutClient
<1>3. ~RenewingFor(c, p) /\ NoCall.kind # "request"
  BY <1>1, NoneIsNothing DEF RenewingFor, NoCall, Kinds
<1> QED
  BY <1>1, <1>2, <1>3, OtherCallSession

\* Logouts and time: they touch other sessions only.
LEMMA OtherSession ==
  ASSUME IInv, NEW p \in intact',
         \/ \E o \in Tabs : LogOut(o)
         \/ \E o \in Profiles : ExpireAccess(o)
         \/ \E r \in live : ExpireRefresh(r)
         \/ \E i \in open : ExpireInvitation(i)
         \/ UNCHANGED vars
  PROVE  SessionOK(p)'
<1>1. UNCHANGED <<status, call>> /\ p \in intact
  BY DEF LogOut, ExpireAccess, ExpireRefresh, ExpireInvitation, vars
<1>2. TypeInv /\ SessionOK(p) /\ p \in Profiles
  BY <1>1 DEF IInv, TypeInv, Profiles
<1>3. profile'[p].refresh = profile[p].refresh
  <2>1. ASSUME NEW o \in Tabs, LogOut(o) PROVE profile'[p].refresh = profile[p].refresh
    <3>1. p # o
      BY <2>1 DEF LogOut
    <3> QED
      BY <1>2, <2>1, <3>1 DEF LogOut, LogOutClient, TypeInv
  <2>2. ASSUME NEW o \in Profiles, ExpireAccess(o) PROVE profile'[p].refresh = profile[p].refresh
    BY <1>2, <2>2 DEF ExpireAccess, TypeInv
  <2> QED
    BY <2>1, <2>2 DEF ExpireRefresh, ExpireInvitation, vars
<1>4. profile[p].refresh \in live => profile[p].refresh \in live'
  BY <1>1 DEF LogOut, ExpireAccess, ExpireRefresh, ExpireInvitation, vars
<1>5. status'[profile[p].refresh.user] = "active" /\ \A d \in Calls : Kept(d) /\ call'[d].access = call[d].access
  BY <1>1, <1>2 DEF SessionOK, Kept
<1> QED
  BY <1>2, <1>3, <1>4, <1>5, SessionStays

LEMMA StepSession == IInv /\ [Next]_vars => \A p \in intact' : SessionOK(p)'
<1> SUFFICES ASSUME IInv, [Next]_vars, NEW p \in intact' PROVE SessionOK(p)'
  OBVIOUS
<1>1. ASSUME NEW c \in Calls, NEW o \in Profiles,
             BeginRequest(c, o) \/ BeginAdmin(c, o) \/ Setup(c, o) \/ Login(c, o) \/ SelectInvitation(c, o)
      PROVE  SessionOK(p)'
  <2>1. p \in intact
    BY <1>1 DEF BeginRequest, BeginAdmin, Begin, Setup, Login, SelectInvitation
  <2> QED
    BY <1>1, <2>1, BeginSession
<1>2. ASSUME NEW c \in Calls, Authenticate(c) PROVE SessionOK(p)'
  <2>1. p \in intact
    BY <1>2 DEF Authenticate, Denied
  <2> QED
    BY <1>2, <2>1, AuthenticateSession
<1>3. ASSUME NEW c \in Calls,
             \/ Rejected(c) \/ Switch(c) \/ Invite(c) \/ ChangeRole(c) \/ Accept(c)
             \/ SaveSetUp(c) \/ SaveJoined(c) \/ SaveSwitched(c)
      PROVE  SessionOK(p)'
  <2>1. p \in intact
    BY <1>3 DEF Rejected, Switch, Invite, ChangeRole, Accept, SaveAccess, SaveSetUp, SaveJoined, SaveSwitched
  <2> QED
    BY <1>3, <2>1, CommandSession DEF SaveSetUp, SaveJoined, SaveSwitched
<1>4. ASSUME NEW c \in Calls, SelectRefresh(c) \/ Revoke(c) \/ Issue(c) \/ InsertRefresh(c) PROVE SessionOK(p)'
  <2>1. p \in intact
    BY <1>4 DEF SelectRefresh, Revoke, Issue, InsertRefresh
  <2> QED
    BY <1>4, <2>1, RenewSession
<1> QED
  BY <1>1, <1>2, <1>3, <1>4, DisableSession, SaveSession, ErrorSession, DieSession, OtherSession DEF Next, Step

-----------------------------------------------------------------------------
(***************************************************************************)
(* The theorems.                                                            *)
(***************************************************************************)
LEMMA StepInv == IInv /\ [Next]_vars => IInv'
  BY StepType, StepLocks, StepApart, StepSession DEF IInv

\* The inductive invariant: what calls hold at each of their steps, whose rows
\* they have locked, which tokens belong to whom, and what renews a session.
THEOREM Invariance == Spec => []IInv
<1>1. Init => IInv
  BY InitType, InitLocks DEF IInv
<1> QED
  BY <1>1, StepInv, PTL DEF Spec

\* All states are well-typed, and the foreign keys of the tables hold: members
\* and whoever a token is for have a row.
THEOREM TypeCorrect == Spec => []TypeOK
<1>1. IInv => TypeOK
  <2> SUFFICES ASSUME IInv PROVE TypeOK
    OBVIOUS
  <2>1. ASSUME NEW t \in live \union (HeldAccess \ {None}) PROVE member[t.ws][t.user] # None
    <3>1. IsMember(t, member) /\ t # None
      BY <2>1, NoneIsNothing DEF HeldAccess, IInv, TypeInv, CallOK
    <3> QED
      BY <3>1 DEF IsMember
  <2> QED
    BY <2>1 DEF IInv, TypeInv, TypeOK
<1> QED
  BY <1>1, Invariance, PTL

\* A refresh token has one successor and an invitation one guest, however many
\* requests present them at once (the FOR UPDATE of auth.py).
THEOREM TokensUsedOnce == Spec => UsedOnce
<1>1. IInv /\ [Next]_vars =>
        [\A c \in Calls :
           /\ call[c].pc = "revoke" /\ call'[c].pc = "issue" => call[c].refresh \in live
           /\ call[c].pc = "accept" /\ call'[c].pc = "issue" => call[c].invite \in open]_vars
  BY DEF IInv, RowsLocked
<1> QED
  BY <1>1, Invariance, PTL DEF Spec, UsedOnce

\* Who has logged in and not logged out can renew his session, unless one of
\* the named causes has ended it.
THEOREM SessionsEndWithCauses == Spec => []SessionsEndWithCause
<1>1. IInv => SessionsEndWithCause
  BY DEF IInv, SessionsEndWithCause, SessionOK, RenewingFor
<1> QED
  BY <1>1, Invariance, PTL
=============================================================================
