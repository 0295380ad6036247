------------------------------ MODULE Accounts ------------------------------
(***************************************************************************)
(* Users, workspaces, invitations and tokens (services/api/auth.py and the   *)
(* account handlers of main.py), with the two kinds of client that keep a    *)
(* session: tabs of the web application (services/web/app.js), where several *)
(* requests run at once and renew the session when refused, and keyrings of  *)
(* the command line, which its commands read and write one entry at a time.  *)
(* Every transaction is a step, so a login, a renewal or a join takes        *)
(* several. A token that nobody holds any more is left out.                  *)
(***************************************************************************)
EXTENDS Naturals, FiniteSets

CONSTANTS
    Users,         \* people, by their e-mail address
    Founders,      \* users who run setup; a founder's workspace has his name
    Tabs, Keyrings,
    Uses,          \* Uses[p]: the users who log in, join or set up in profile p
    GivenRoles,    \* bound: the roles that invitations and role changes give
    GivenEmails,   \* bound: the addresses of invitations, or None for any guest
    Calls,         \* requests and commands that may be under way at once
    None           \* "nothing"

Profiles == Tabs \union Keyrings
RoleLevel == [viewer |-> 1, editor |-> 2, manager |-> 3, owner |-> 4]
Roles == DOMAIN RoleLevel
Allows(role, minimum) == RoleLevel[role] >= RoleLevel[minimum]

Kinds == {"request", "admin", "login", "join", "setup"}

\* An access token with its row: valid while neither revoked nor expired.
Access == [user: Users, ws: Founders, lasting: BOOLEAN, valid: BOOLEAN]
\* Refresh tokens of a user that exist side by side differ in serial; a profile
\* and a call hold one each.
Serials == 1..(Cardinality(Calls) + Cardinality(Profiles) + 1)
Refresh == [user: Users, ws: Founders, serial: Serials]
Invitation == [ws: Founders, email: GivenEmails, role: GivenRoles \ {"owner"}]

ASSUME AccountsAssumption ==
    /\ IsFiniteSet(Calls) /\ IsFiniteSet(Profiles)
    /\ Founders \subseteq Users
    /\ Tabs \intersect Keyrings = {}
    /\ Uses \in [Profiles -> SUBSET Users]
    /\ GivenRoles \subseteq Roles
    /\ GivenEmails \subseteq Users \union {None}
    /\ None \notin Users \union Roles \union Profiles \union Kinds \union Access \union Refresh \union Invitation

VARIABLES
    status,        \* status[u]: "none" without a users row
    member,        \* member[w][u]: role of u in the workspace of w, or None
    open,          \* invitations that are neither accepted nor expired
    live,          \* refresh tokens that are neither revoked nor expired
    profile,       \* profile[p]: the tokens a client has stored
    call,          \* call[c]: a request or a command
    intact         \* history: tabs with a session that nothing has endangered

vars == <<status, member, open, live, profile, call, intact>>

NoSession == [access |-> None, refresh |-> None]

\* A call holds its tokens until they are replaced by new ones.
Call == [pc: {"idle", "authenticate", "act", "select", "revoke", "accept",
              "issue", "insert", "save"},
         kind: Kinds \union {None}, profile: Profiles \union {None},
         access: Access \union {None}, refresh: Refresh \union {None},
         invite: Invitation \union {None}, user: Users \union {None}, ws: Founders \union {None},
         role: Roles \union {None}, retried: BOOLEAN]
NoCall == [pc |-> "idle", kind |-> None, profile |-> None, access |-> None, refresh |-> None,
           invite |-> None, user |-> None, ws |-> None, role |-> None, retried |-> FALSE]

HeldAccess == {profile[p].access : p \in Profiles} \union {call[c].access : c \in Calls}
HeldRefresh == {profile[p].refresh : p \in Profiles} \union {call[c].refresh : c \in Calls}

\* Foreign keys: members and whoever a token is for have a users row.
TypeOK ==
    /\ status \in [Users -> {"none", "active", "disabled"}]
    /\ member \in [Founders -> [Users -> Roles \union {None}]]
    /\ \A w \in Founders, u \in Users : member[w][u] # None => status[u] # "none"
    /\ open \subseteq Invitation
    /\ live \subseteq Refresh
    /\ \A t \in live \union (HeldAccess \ {None}) : member[t.ws][t.user] # None
    /\ profile \in [Profiles -> [access: Access \union {None}, refresh: Refresh \union {None}]]
    /\ call \in [Calls -> Call]
    /\ intact \subseteq Tabs

Init ==
    /\ status = [u \in Users |-> "none"]
    /\ member = [w \in Founders |-> [u \in Users |-> None]]
    /\ open = {} /\ live = {}
    /\ profile = [p \in Profiles |-> NoSession]
    /\ call = [c \in Calls |-> NoCall]
    /\ intact = {}

-----------------------------------------------------------------------------
(***************************************************************************)
(* Helpers.                                                                 *)
(***************************************************************************)
\* A new refresh token is none of those anybody holds.
NewRefresh(u, w) ==
    LET new == {n \in Serials : [user |-> u, ws |-> w, serial |-> n] \notin HeldRefresh}
    IN  [user |-> u, ws |-> w, serial |-> CHOOSE n \in new : \A k \in new : n <= k]

\* The rows of the access tokens of u are revoked.
Revoked(t, u) == IF t # None /\ t.user = u THEN [t EXCEPT !.valid = FALSE] ELSE t

\* Fault for checking: the users row is not inserted.
RegisteredNot(u) == status

\* INSERT INTO users ON CONFLICT (email): the status of a known user stays.
Registered(u) == [status EXCEPT ![u] = IF @ = "none" THEN "active" ELSE @]

Become(c, now) == call' = [call EXCEPT ![c] = now]
End(c) == Become(c, NoCall)

Others(c, p) == {d \in Calls \ {c} : call[d].profile = p}

\* Fault for checking: without FOR UPDATE.
UnlockedAlways(c, row) == TRUE

\* FOR UPDATE: no other transaction has read the row and not committed yet.
Unlocked(c, row) == \A d \in Calls \ {c} :
    /\ call[d].pc = "revoke" => call[d].refresh # row
    /\ call[d].pc = "accept" => call[d].invite # row

\* The call is about to replace the tokens of its tab.
Renewing(c) ==
    call[c].kind = "request" /\ call[c].pc \in {"select", "revoke", "issue", "insert", "save"}

-----------------------------------------------------------------------------
(***************************************************************************)
(* Calls begin.                                                             *)
(***************************************************************************)
Begin(c, p, kind) ==
    /\ call[c].pc = "idle"
    /\ Become(c, [NoCall EXCEPT !.pc = "authenticate", !.kind = kind, !.profile = p,
                                !.access = profile[p].access])
    /\ UNCHANGED <<open, live, profile, intact>>

\* api() sends the token of the tab, or none.
BeginRequest(c, p) == p \in Tabs /\ Begin(c, p, "request") /\ UNCHANGED <<status, member>>

\* Commands of administration.py and invite; which one shows when it acts.
BeginAdmin(c, p) ==
    /\ p \in Keyrings /\ profile[p].access # None
    /\ Begin(c, p, "admin")
    /\ UNCHANGED <<status, member>>

\* bootstrap_owner: user, organization, workspace and membership in one
\* transaction.
Setup(c, p) == \E u \in Uses[p] \intersect Founders :
    /\ p \in Keyrings /\ call[c].pc = "idle"
    /\ status' = Registered(u)
    /\ member' = [member EXCEPT ![u][u] = "owner"]
    /\ Become(c, [NoCall EXCEPT !.pc = "issue", !.kind = "setup", !.profile = p, !.user = u, !.ws = u])
    /\ UNCHANGED <<open, live, profile, intact>>

\* login reads the user and a membership; only founders have a password. The
\* request may name the workspace.
Login(c, p) == \E u \in Uses[p] \intersect Founders, w \in Founders :
    /\ p \in Tabs /\ call[c].pc = "idle"
    /\ status[u] = "active" /\ member[u][u] # None /\ member[w][u] # None
    /\ Become(c, [NoCall EXCEPT !.pc = "issue", !.kind = "login", !.profile = p, !.user = u, !.ws = w])
    /\ UNCHANGED <<status, member, open, live, profile, intact>>

\* accept_invitation finds and locks the invitation.
SelectInvitation(c, p) == \E i \in open, u \in Uses[p] :
    /\ p \in Keyrings /\ call[c].pc = "idle"
    /\ i.email # None => i.email = u
    /\ Unlocked(c, i)
    /\ Become(c, [NoCall EXCEPT !.pc = "accept", !.kind = "join", !.profile = p, !.invite = i, !.user = u])
    /\ UNCHANGED <<status, member, open, live, profile, intact>>

-----------------------------------------------------------------------------
(***************************************************************************)
(* The server.                                                              *)
(***************************************************************************)
\* authenticate joins the token, the active user and the membership.
Authentic(t) == t # None /\ t.valid /\ status[t.user] = "active" /\ member[t.ws][t.user] # None

LogOutClient(p) == profile' = [profile EXCEPT ![p] = NoSession]

\* 401: api() renews the session once, then logs out; a command gives up.
Denied(c) ==
    LET p == call[c].profile
    IN  \/ /\ p \in Tabs /\ profile[p].refresh # None /\ ~call[c].retried
           /\ Become(c, [call[c] EXCEPT !.pc = "select", !.access = None, !.refresh = profile[p].refresh])
           /\ intact' = IF \E d \in Others(c, p) : Renewing(d) THEN intact \ {p} ELSE intact
           /\ UNCHANGED profile
        \/ /\ p \in Tabs
           /\ profile[p].refresh = None \/ call[c].retried
           /\ LogOutClient(p) /\ End(c) /\ UNCHANGED intact
        \/ p \in Keyrings /\ End(c) /\ UNCHANGED <<profile, intact>>

Authenticate(c) ==
    LET t == call[c].access
    IN  /\ call[c].pc = "authenticate"
        /\ \/ ~Authentic(t) /\ Denied(c)
           \/ /\ Authentic(t)
              /\ IF call[c].kind = "request" THEN End(c)
                 ELSE Become(c, [call[c] EXCEPT !.pc = "act", !.access = None, !.user = t.user,
                                                !.ws = t.ws, !.role = member[t.ws][t.user]])
              /\ UNCHANGED <<profile, intact>>
        /\ UNCHANGED <<status, member, open, live>>

\* 403: the role is too low, 404: an unknown user or workspace, 400: himself.
Rejected(c) ==
    /\ call[c].pc = "act"
    /\ End(c)
    /\ UNCHANGED <<status, member, open, live, profile, intact>>

\* switch_workspace reads the membership and issues a token.
Switch(c) ==
    /\ call[c].pc = "act"
    /\ \E w \in Founders :
        /\ member[w][call[c].user] # None
        /\ Become(c, [call[c] EXCEPT !.pc = "issue", !.ws = w, !.role = None])
    /\ UNCHANGED <<status, member, open, live, profile, intact>>

\* create_invitation requires a manager, as authenticated.
CreateInvitation(role, w) ==
    /\ Allows(role, "manager")
    /\ \E i \in Invitation : i.ws = w /\ open' = open \union {i}

\* Bound: one open invitation.
Invite(c) ==
    /\ call[c].pc = "act" /\ open = {}
    /\ End(c)
    /\ CreateInvitation(call[c].role, call[c].ws)
    /\ UNCHANGED <<status, member, live, profile, intact>>

\* change_user_role requires an owner, who may change his own role too.
ChangeRole(c) ==
    LET w == call[c].ws
    IN  /\ call[c].pc = "act"
        /\ End(c)
        /\ Allows(call[c].role, "owner")
        /\ \E u \in Users, r \in GivenRoles :
              member[w][u] # None /\ member' = [member EXCEPT ![w][u] = r]
        /\ UNCHANGED <<status, open, live, profile, intact>>

\* disable_user requires an owner and another user; it revokes the access
\* tokens the user has by now, and no refresh token.
Disable(c) ==
    /\ call[c].pc = "act"
    /\ Allows(call[c].role, "owner")
    /\ \E u \in Users \ {call[c].user} :
        /\ status[u] # "none"
        /\ status' = [status EXCEPT ![u] = "disabled"]
        /\ profile' = [p \in Profiles |-> [profile[p] EXCEPT !.access = Revoked(@, u)]]
        /\ call' = [d \in Calls |-> IF d = c THEN NoCall ELSE [call[d] EXCEPT !.access = Revoked(@, u)]]
        /\ intact' = {p \in intact : profile[p].refresh.user # u}
    /\ UNCHANGED <<member, open, live>>

\* accept_invitation commits: the role of a member is overwritten.
Accept(c) ==
    LET i == call[c].invite
    IN  /\ call[c].pc = "accept"
        /\ status' = Registered(call[c].user)
        /\ member' = [member EXCEPT ![i.ws][call[c].user] = i.role]
        /\ open' = open \ {i}
        /\ Become(c, [call[c] EXCEPT !.pc = "issue", !.ws = i.ws, !.invite = None])
        /\ UNCHANGED <<live, profile, intact>>

\* refresh_access_token finds and locks the token; with 401 the tab logs out, as
\* with any other refusal (RenewalError).
SelectRefresh(c) ==
    LET r == call[c].refresh
    IN  /\ call[c].pc = "select"
        /\ Unlocked(c, r)
        /\ \/ r \in live /\ Become(c, [call[c] EXCEPT !.pc = "revoke"]) /\ UNCHANGED profile
           \/ r \notin live /\ LogOutClient(call[c].profile) /\ End(c)
        /\ UNCHANGED <<status, member, open, live, intact>>

\* Its first transaction commits; nobody looks at the status of the user.
Revoke(c) ==
    LET r == call[c].refresh
    IN  /\ call[c].pc = "revoke"
        /\ live' = live \ {r}
        /\ Become(c, [call[c] EXCEPT !.pc = "issue", !.refresh = None, !.user = r.user, !.ws = r.ws])
        /\ UNCHANGED <<status, member, open, profile, intact>>

\* Logins and renewals last 15 minutes and get a refresh token; the others last.
Issue(c) ==
    LET renewable == call[c].kind \in {"request", "login"}
        t == [user |-> call[c].user, ws |-> call[c].ws, lasting |-> ~renewable, valid |-> TRUE]
    IN  /\ call[c].pc = "issue"
        /\ Become(c, [call[c] EXCEPT !.pc = IF renewable THEN "insert" ELSE "save", !.access = t])
        /\ UNCHANGED <<status, member, open, live, profile, intact>>

InsertRefresh(c) ==
    LET r == NewRefresh(call[c].user, call[c].ws)
    IN  /\ call[c].pc = "insert"
        /\ live' = (live \intersect HeldRefresh) \union {r}
        /\ Become(c, [call[c] EXCEPT !.pc = "save", !.refresh = r])
        /\ UNCHANGED <<status, member, open, profile, intact>>

-----------------------------------------------------------------------------
(***************************************************************************)
(* The clients.                                                             *)
(***************************************************************************)
\* A login of an active user opens a session; calls that overlap with it may end
\* it again.
Opened(c) ==
    LET p == call[c].profile
    IN  intact' = IF call[c].kind # "login" THEN intact
                  ELSE IF Others(c, p) = {} /\ status[call[c].user] = "active" THEN intact \union {p}
                  ELSE intact \ {p}

\* Fault for checking: the tab keeps the refresh token it has.
SaveTokensOld(c) ==
    LET p == call[c].profile
    IN  profile' = [profile EXCEPT ![p].access = call[c].access,
                                   ![p].refresh = IF @ = None THEN call[c].refresh ELSE @]

SaveTokens(c) ==
    LET p == call[c].profile
    IN  profile' = [profile EXCEPT ![p] = [access |-> call[c].access, refresh |-> call[c].refresh]]

\* A tab saves both tokens and sends the refused request again.
SaveInTab(c) ==
    /\ call[c].pc = "save" /\ call[c].profile \in Tabs
    /\ SaveTokens(c)
    /\ Opened(c)
    /\ IF call[c].kind = "login" THEN End(c)
       ELSE Become(c, [NoCall EXCEPT !.pc = "authenticate", !.kind = "request", !.retried = TRUE,
                                     !.profile = call[c].profile, !.access = call[c].access])
    /\ UNCHANGED <<status, member, open, live>>

\* A keyring keeps the access token, the only one its commands are given.
SaveAccess(c, kind) ==
    /\ call[c].pc = "save" /\ call[c].kind = kind
    /\ profile' = [profile EXCEPT ![call[c].profile].access = call[c].access]
    /\ End(c)
    /\ UNCHANGED <<status, member, open, live, intact>>

SaveSetUp(c) == SaveAccess(c, "setup")
SaveJoined(c) == SaveAccess(c, "join")
SaveSwitched(c) == SaveAccess(c, "admin")

\* The button of the web application.
LogOut(p) ==
    /\ p \in Tabs /\ profile[p] # NoSession
    /\ LogOutClient(p)
    /\ intact' = intact \ {p}
    /\ UNCHANGED <<status, member, open, live, call>>

\* The answer to a renewal is an error, and api() logs out: the proxy has no
\* server to ask (502), the rate limiter refuses (429), or a transaction fails
\* (500), after which the earlier ones stand.
RenewalError(c) ==
    LET p == call[c].profile
    IN  /\ Renewing(c)
        /\ LogOutClient(p) /\ End(c)
        /\ intact' = intact \ {p}
        /\ UNCHANGED <<status, member, open, live>>

\* The command or the tab dies, or no answer comes; open transactions roll
\* back. A renewal that has revoked the old token loses the session.
Die(c) ==
    /\ call[c].pc # "idle"
    /\ intact' = IF Renewing(c) /\ call[c].pc \notin {"select", "revoke"}
                 THEN intact \ {call[c].profile} ELSE intact
    /\ End(c)
    /\ UNCHANGED <<status, member, open, live, profile>>

\* Time: no token expires in the hands of a call, which is far shorter; one that
\* is found expired could have expired before the call began.
ExpireAccess(p) ==
    LET t == profile[p].access
    IN  /\ t # None /\ \A c \in Calls : call[c].profile # p
        /\ t.valid /\ ~t.lasting
        /\ profile' = [profile EXCEPT ![p].access = [t EXCEPT !.valid = FALSE]]
        /\ UNCHANGED <<status, member, open, live, call, intact>>

ExpireRefresh(r) ==
    /\ r \in live /\ \A c \in Calls : call[c].refresh # r
    /\ live' = live \ {r}
    /\ intact' = {p \in intact : profile[p].refresh # r}
    /\ UNCHANGED <<status, member, open, profile, call>>

ExpireInvitation(i) ==
    /\ i \in open /\ \A c \in Calls : call[c].invite # i
    /\ open' = open \ {i}
    /\ UNCHANGED <<status, member, live, profile, call, intact>>

-----------------------------------------------------------------------------
Step(c) ==
    \/ Authenticate(c) \/ Rejected(c) \/ Switch(c) \/ Invite(c) \/ ChangeRole(c) \/ Disable(c) \/ Accept(c)
    \/ SelectRefresh(c) \/ Revoke(c) \/ Issue(c) \/ InsertRefresh(c)
    \/ SaveInTab(c) \/ SaveSetUp(c) \/ SaveJoined(c) \/ SaveSwitched(c)

Next ==
    \/ \E c \in Calls, p \in Profiles :
        \/ BeginRequest(c, p) \/ BeginAdmin(c, p)
        \/ Setup(c, p) \/ Login(c, p) \/ SelectInvitation(c, p)
    \/ \E c \in Calls : Step(c) \/ RenewalError(c) \/ Die(c)
    \/ \E p \in Tabs : LogOut(p)
    \/ \E p \in Profiles : ExpireAccess(p)
    \/ \E r \in live : ExpireRefresh(r)
    \/ \E i \in open : ExpireInvitation(i)

Spec == Init /\ [][Next]_vars

-----------------------------------------------------------------------------
(***************************************************************************)
(* Properties.                                                              *)
(***************************************************************************)
\* A refresh token has one successor and an invitation one guest, however many
\* calls present them at once: what a call uses up was not used before.
UsedOnce ==
    [][\A c \in Calls :
        /\ call[c].pc = "revoke" /\ call'[c].pc = "issue" => call[c].refresh \in live
        /\ call[c].pc = "accept" /\ call'[c].pc = "issue" => call[c].invite \in open]_vars

\* Who has logged in and not logged out can renew his session, unless his
\* refresh token expired, the answer to a renewal was an error, a call died
\* between the revocation of a token and the storing of its successor, two
\* requests of a tab renewed it at once, another call overlapped with the login,
\* or an owner has disabled him.
SessionsEndWithCause ==
    \A p \in intact :
        \/ profile[p].refresh # None /\ profile[p].refresh \in live
        \/ \E c \in Calls : call[c].profile = p /\ Renewing(c)

=============================================================================
