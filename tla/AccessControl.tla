--------------------------- MODULE AccessControl ---------------------------
(***************************************************************************)
(* internal/auth behind internal/httpserver: accounts, sessions and the    *)
(* requests that go by them.                                               *)
(*                                                                         *)
(* A request reads its session and account once (authRequired), its token  *)
(* after that (csrfRequired), and then goes by what it has read, whatever  *)
(* has become of session and account since.  Each statement is a           *)
(* transaction of its own, but those of UpdateAccess: it reads in a        *)
(* snapshot, and what it writes fails if anything was written since, of    *)
(* any table.  A request that is refused, fails or is canceled ends        *)
(* (GiveUp); which it is makes no difference here.  Passwords and bodies   *)
(* are the clients', and valid; a session's tokens are numbered.           *)
(***************************************************************************)
EXTENDS Naturals, Sequences

CONSTANTS
  Users,                  \* usernames, that are their ids; unique
  Requests,               \* of one at a time each
  Given,                  \* roles that are asked for
  SessionTTL, MaxAge,
  MaxTime, MaxLogins, MaxTokens       \* bounds of the model

VARIABLES
  now,
  user,       \* table users: role and disabled, or NoUser
  session,    \* table sessions: of, expires, proof, token, revoked, in the order of the logins
  request,    \* the requests being served
  stale,      \* those of UpdateAccess whose snapshot is no longer the newest
  entitled    \* history: whose account was an enabled administrator's when they began

vars == <<now, user, session, request, stale, entitled>>

Roles == {"viewer", "operator", "admin"}
NoUser == [role |-> "none", disabled |-> FALSE]
Idle == [pc |-> "idle"]
Exists(u) == user[u] # NoUser
Administrator(a) == a.role = "admin" /\ ~a.disabled

Init ==
  /\ now = 1
  /\ user = [u \in Users |-> NoUser] /\ session = <<>>
  /\ request = [r \in Requests |-> Idle]
  /\ stale = {} /\ entitled = {}

-----------------------------------------------------------------------------
\* rbac.go:grants, of what is asked here.
Allowed(role, capability) == capability = "users:manage" /\ role = "admin"

Managing == {"create", "access"}
Routes == Managing \cup {"logout", "reauth", "csrf"}

Goes(r, step) == request' = [request EXCEPT ![r] = step]
Ends(r) == Goes(r, Idle)
Its(r) == session[request[r].session]

\* A write of the request: the snapshots of the others are no longer the newest.
Writes(r) == stale' = {x \in Requests \ {r} : request[x].pc = "decided"}

GiveUp(r) ==
  /\ request[r] # Idle /\ Ends(r) /\ stale' = stale \ {r}
  /\ UNCHANGED <<now, user, session, entitled>>

-----------------------------------------------------------------------------
(* POST /setup/admin *)

\* Count, the answer being 0.
BeginSetup(r) ==
  /\ request[r] = Idle /\ \A u \in Users : ~Exists(u)
  /\ Goes(r, [pc |-> "setup"])
  /\ UNCHANGED <<now, user, session, stale, entitled>>

\* UserStore.Create, of a name that is not taken.
Create(r, u, role) ==
  /\ ~Exists(u)
  /\ user' = [user EXCEPT ![u] = [role |-> role, disabled |-> FALSE]]
  /\ Ends(r) /\ Writes(r)
  /\ UNCHANGED <<now, session, entitled>>

EndSetup(r, u) == request[r].pc = "setup" /\ Create(r, u, "admin")

(* POST /auth/login *)

MayAuthenticate(u) == Exists(u) /\ ~user[u].disabled

BeginLogin(r, u) ==
  /\ request[r] = Idle /\ MayAuthenticate(u)
  /\ Goes(r, [pc |-> "login", of |-> u])
  /\ UNCHANGED <<now, user, session, stale, entitled>>

\* SessionStore.Create
EndLogin(r) ==
  /\ request[r].pc = "login" /\ Len(session) < MaxLogins
  /\ session' = Append(session, [of |-> request[r].of, expires |-> now + SessionTTL,
                                 proof |-> now, token |-> 1, revoked |-> FALSE])
  /\ Ends(r) /\ Writes(r)
  /\ UNCHANGED <<now, user, entitled>>

-----------------------------------------------------------------------------
(* What needs a session *)

\* authRequired: Resolve, whose note of when the session was last seen may fail.
MayResolve(s) == ~session[s].revoked /\ ~user[session[s].of].disabled /\ now <= session[s].expires

Resolve(r, s, route, token) ==
  /\ request[r] = Idle /\ MayResolve(s)
  /\ Goes(r, [pc |-> "resolved", route |-> route, session |-> s, token |-> token,
              role |-> user[session[s].of].role, proof |-> session[s].proof])
  /\ entitled' = IF Administrator(user[session[s].of]) THEN entitled \cup {r} ELSE entitled \ {r}
  /\ Writes(r) \/ UNCHANGED stale
  /\ UNCHANGED <<now, user, session>>

\* csrfRequired, requireCapability and freshAuthentication, as the route has them.
Admissible(q) ==
  /\ q.route # "csrf" => q.token = session[q.session].token /\ ~session[q.session].revoked
  /\ q.route \in Managing => Allowed(q.role, "users:manage") /\ now <= q.proof + MaxAge

Admit(r) ==
  /\ request[r].pc = "resolved" /\ Admissible(request[r])
  /\ Goes(r, [request[r] EXCEPT !.pc = "admitted"])
  /\ UNCHANGED <<now, user, session, stale, entitled>>

Serves(r, route) == request[r].pc = "admitted" /\ request[r].route = route

Logout(r) ==
  /\ Serves(r, "logout")
  /\ session' = [session EXCEPT ![request[r].session].revoked = TRUE]
  /\ Ends(r) /\ Writes(r)
  /\ UNCHANGED <<now, user, entitled>>

RotateCSRF(r) ==
  /\ Serves(r, "csrf") /\ ~Its(r).revoked /\ Its(r).token < MaxTokens
  /\ session' = [session EXCEPT ![request[r].session].token = @ + 1]
  /\ Ends(r) /\ Writes(r)
  /\ UNCHANGED <<now, user, entitled>>

\* reauthenticate: the password, then MarkReauthenticated.
Prove(r) ==
  /\ Serves(r, "reauth") /\ MayAuthenticate(Its(r).of)
  /\ Goes(r, [request[r] EXCEPT !.pc = "proved"])
  /\ UNCHANGED <<now, user, session, stale, entitled>>

MarkReauthenticated(r) ==
  /\ request[r].pc = "proved" /\ ~Its(r).revoked
  /\ session' = [session EXCEPT ![request[r].session].proof = now]
  /\ Ends(r) /\ Writes(r)
  /\ UNCHANGED <<now, user, entitled>>

CreateUser(r, u, role) == Serves(r, "create") /\ Create(r, u, role)

-----------------------------------------------------------------------------
(* UpdateAccess *)

LastAdministrator(u) == {x \in Users : Administrator(user[x])} = {u}

\* The reads of the transaction and what it makes of them.
Decide(r, u, access) ==
  /\ Serves(r, "access") /\ Exists(u)
  /\ ~Administrator(access) => ~LastAdministrator(u)
  /\ Goes(r, [pc |-> "decided", target |-> u, access |-> access])
  /\ UNCHANGED <<now, user, session, stale, entitled>>

\* The write succeeds on the newest snapshot only; the fault is to read before the transaction.
ReadsBefore(r) == TRUE
MayWrite(r) == r \notin stale

UpdateAccess(r) ==
  /\ request[r].pc = "decided" /\ MayWrite(r)
  /\ user' = [user EXCEPT ![request[r].target] = request[r].access]
  /\ Ends(r) /\ Writes(r)
  /\ UNCHANGED <<now, session, entitled>>

Tick ==
  /\ now < MaxTime /\ now' = now + 1
  /\ UNCHANGED <<user, session, request, stale, entitled>>

Next ==
  \/ \E r \in Requests :
       \/ GiveUp(r) \/ BeginSetup(r) \/ EndLogin(r) \/ Admit(r)
       \/ Logout(r) \/ RotateCSRF(r) \/ Prove(r) \/ MarkReauthenticated(r) \/ UpdateAccess(r)
       \/ \E u \in Users : EndSetup(r, u) \/ BeginLogin(r, u)
       \/ \E u \in Users, role \in Given : CreateUser(r, u, role)
       \/ \E u \in Users, role \in Given, d \in BOOLEAN : Decide(r, u, [role |-> role, disabled |-> d])
       \/ \E s \in DOMAIN session, route \in Routes : \E t \in 1 .. session[s].token :
            Resolve(r, s, route, t)
  \/ Tick

Spec == Init /\ [][Next]_vars

-----------------------------------------------------------------------------
(* Accounts change by the setup of the first, which began when there was     *)
(* none, or by a request that began as an enabled administrator's; and once  *)
(* there is an account, there is an enabled administrator, in whichever      *)
(* order requests demote and disable one another (users.go: "preserving the  *)
(* invariant that at least one enabled administrator always exists").        *)
AccessIsGoverned ==
  [][user' # user =>
       /\ \E u \in Users : Administrator(user'[u])
       /\ \E r \in Requests : request'[r] # request[r] /\ (request[r].pc = "setup" \/ r \in entitled)]_vars
=============================================================================
