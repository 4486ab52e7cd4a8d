------------------------------ MODULE Accounts ------------------------------
(***************************************************************************)
(* Users, their refresh sessions, the limit on failed logins, and the      *)
(* roles their permissions come from.                                      *)
(*                                                                         *)
(* A user keeps a copy of the permissions of its role, so whoever changes  *)
(* a role writes two collections; whoever changes a user must also end its *)
(* sessions; and a login or refresh reads the user some calls before it    *)
(* stores a session.  Every call of the database or of Redis is a step.    *)
(*                                                                         *)
(* A set of permissions is one value.  All logins come from one client, so *)
(* the failures are counted per user name.                                 *)
(***************************************************************************)
EXTENDS Naturals, FiniteSets

CONSTANTS
  Users,        \* user ids, each used once
  Fixed,        \* the preset roles, those of administrators left out
  Templates,    \* custom roles, by id; each is created once
  Grants,       \* sets of permissions
  NoGrant,      \* of a custom role that is not there
  Requests,     \* a bound: each request is one call of the API, and names the token it issues
  Updates,      \* a bound: how often a user or its permissions are changed
  MaxFailures,  \* login_max_failures
  Nothing,
  Environments  \* which events can occur together, see EventKinds

EventKinds == {
  "sessions",     \* users log in, refresh and log out
  "users",        \* users are created, changed and deleted
  "roles",        \* roles are created, changed and deleted
  "together",     \* requests overlap
  "redis_error",  \* a call of Redis raises
  "crash" }       \* the API process ends

Roles == Fixed \union Templates
Tokens == Requests

ASSUME RolesAssumption == Fixed \intersect Templates = {}
ASSUME NothingAssumption == Nothing \notin Requests \union Users \union Roles \union Grants
ASSUME NoGrantAssumption == NoGrant \notin Grants
ASSUME BoundsAssumption ==
  Updates \in Nat /\ MaxFailures \in Nat \ {0} /\ IsFiniteSet(Requests)
ASSUME EnvironmentsAssumption == Environments \subseteq SUBSET EventKinds

VARIABLES
  events,     \* what the environment may do in this behaviour
  status,     \* of a user: "none", "active", "disabled", or "deleted"
  role,       \* the role of a user, or the custom role it is bound to
  grant,      \* the permissions stored with a user
  changes,    \* how often a user or its permissions were changed: no field of the code
  preset,     \* ROLE_MENU_PERMISSIONS and ROLE_ACTION_PERMISSIONS
  granted,    \* the permissions of a role: its override, its preset, or its template
  disabled,   \* preset roles that are deleted
  sessions,   \* refresh_sessions
  issued,     \* every token and what it was issued for: no field of the code
  failures,   \* login failures in Redis
  expiring,   \* users whose failures have a time to live
  req         \* the requests

accounts == <<status, role, grant, changes>>
roles == <<preset, granted, disabled>>
tokens == <<sessions, issued>>
limits == <<failures, expiring>>
vars == <<events, accounts, roles, tokens, limits, req>>

(* A session knows, for our purpose, the state of the user its login saw.  *)
Session == [token : Tokens, user : Users, changes : 0..Updates]

Steps == {"idle", "counting", "verifying", "incrementing", "expiring", "clearing", "issuing",
          "taking", "reading", "leaving", "inserting", "updating", "deleting", "revoking",
          "saving", "spreading", "binding", "dropping", "defining", "checking", "disabling", "done"}

Request == [at : Steps,
            user : Users \union {Nothing},
            role : Roles \union {Nothing},
            grant : Grants \union {Nothing},
            status : {"active", "disabled"},
            right : BOOLEAN,                     \* the password is right
            token : Tokens \union {Nothing},     \* the cookie it was sent
            changes : 0..Updates]                \* the user as its login saw it

NewRequest == [at |-> "idle", user |-> Nothing, role |-> Nothing, grant |-> Nothing, status |-> "active",
               right |-> TRUE, token |-> Nothing, changes |-> 0]

TypeOK ==
  /\ events \in Environments
  /\ status \in [Users -> {"none", "active", "disabled", "deleted"}]
  /\ role \in [Users -> Roles]
  /\ grant \in [Users -> Grants]
  /\ changes \in [Users -> 0..Updates]
  /\ preset \in [Fixed -> Grants]
  /\ granted \in [Roles -> Grants \union {NoGrant}]
  /\ disabled \subseteq Fixed
  /\ sessions \subseteq Session
  /\ issued \subseteq [token : Tokens, from : Tokens \union {Nothing}]
  /\ failures \in [Users -> 0..(MaxFailures + Cardinality(Requests))]
  /\ expiring \subseteq Users
  /\ req \in [Requests -> Request]

There(u) == status[u] \in {"active", "disabled"}

(* Users as create_user makes them, with their sessions.                   *)
Init ==
  /\ events \in Environments
  /\ preset \in [Fixed -> Grants]
  /\ \E t \in [Templates -> Grants \union {NoGrant}] :
       granted = [x \in Roles |-> IF x \in Fixed THEN preset[x] ELSE t[x]]
  /\ disabled = {}
  /\ status \in [Users -> {"none", "active"}]
  /\ role \in [Users -> Roles]
  /\ \A u \in Users : granted[role[u]] # NoGrant
  /\ grant = [u \in Users |-> granted[role[u]]]
  /\ changes = [u \in Users |-> 0]
  /\ sessions = {}
  /\ issued = {}
  /\ failures = [u \in Users |-> 0]
  /\ expiring = {}
  /\ req = [r \in Requests |-> NewRequest]

-----------------------------------------------------------------------------
(* Requests.                                                               *)

Busy(r) == req[r].at \notin {"idle", "done"}
Quiet == \A r \in Requests : ~Busy(r)

Set(r, q) == req' = [req EXCEPT ![r] = q]
At(r, s) == Set(r, [req[r] EXCEPT !.at = s])
End(r) == Set(r, [NewRequest EXCEPT !.at = "done"])

Start(r, event) ==
  /\ event \in events
  /\ req[r].at = "idle"
  /\ "together" \in events \/ Quiet
  /\ UNCHANGED <<events, accounts, roles, tokens, limits>>

Crash(r) ==
  /\ "crash" \in events
  /\ Busy(r)
  /\ End(r)
  /\ UNCHANGED <<events, accounts, roles, tokens, limits>>

-----------------------------------------------------------------------------
(* login                                                                   *)

StartLogin(r) ==
  /\ Start(r, "sessions")
  /\ \E u \in Users, right \in BOOLEAN :
       Set(r, [NewRequest EXCEPT !.at = "counting", !.user = u, !.right = right])

(* A count that cannot be read is 0.                                       *)
CountFailures(r) ==
  /\ req[r].at = "counting"
  /\ \/ failures[req[r].user] < MaxFailures /\ At(r, "verifying")
     \/ failures[req[r].user] >= MaxFailures /\ End(r)
     \/ "redis_error" \in events /\ At(r, "verifying")
  /\ UNCHANGED <<events, accounts, roles, tokens, limits>>

Verify(r) ==
  /\ req[r].at = "verifying"
  /\ LET u == req[r].user IN
       IF status[u] = "active" /\ req[r].right
         THEN Set(r, [req[r] EXCEPT !.at = "clearing", !.changes = changes[u]])
         ELSE At(r, "incrementing")
  /\ UNCHANGED <<events, accounts, roles, tokens, limits>>

(* INCR, which keeps a time to live; the first failure is to set one.      *)
Increment(r) ==
  /\ req[r].at = "incrementing"
  /\ LET u == req[r].user IN
       \/ /\ failures' = [failures EXCEPT ![u] = @ + 1]
          /\ IF failures[u] = 0 THEN At(r, "expiring") ELSE End(r)
       \/ "redis_error" \in events /\ End(r) /\ UNCHANGED failures
  /\ UNCHANGED <<events, accounts, roles, tokens, expiring>>

(* EXPIRE, of a key that is still there.                                   *)
SetExpiry(r) ==
  /\ req[r].at = "expiring"
  /\ End(r)
  /\ LET u == req[r].user IN
       \/ expiring' = IF failures[u] = 0 THEN expiring ELSE expiring \union {u}
       \/ "redis_error" \in events /\ UNCHANGED expiring
  /\ UNCHANGED <<events, accounts, roles, tokens, failures>>

ClearFailures(r) ==
  /\ req[r].at = "clearing"
  /\ At(r, "issuing")
  /\ LET u == req[r].user IN
       \/ failures' = [failures EXCEPT ![u] = 0] /\ expiring' = expiring \ {u}
       \/ "redis_error" \in events /\ UNCHANGED limits
  /\ UNCHANGED <<events, accounts, roles, tokens>>

(* login_failure_window_seconds are over.                                  *)
Expire(u) ==
  /\ u \in expiring
  /\ failures' = [failures EXCEPT ![u] = 0]
  /\ expiring' = expiring \ {u}
  /\ UNCHANGED <<events, accounts, roles, tokens, req>>

(* issue_tokens                                                            *)
IssueTokens(r) ==
  /\ req[r].at = "issuing"
  /\ sessions' = sessions \union {[token |-> r, user |-> req[r].user, changes |-> req[r].changes]}
  /\ issued' = issued \union {[token |-> r, from |-> req[r].token]}
  /\ End(r)
  /\ UNCHANGED <<events, accounts, roles, limits>>

-----------------------------------------------------------------------------
(* refresh and logout, with any token that was ever issued.                *)

StartRefresh(r) ==
  /\ Start(r, "sessions")
  /\ \E x \in issued : Set(r, [NewRequest EXCEPT !.at = "taking", !.token = x.token])

(* Slip: the session is only read.                                         *)
ReadSession(r) ==
  /\ req[r].at = "taking"
  /\ LET found == {s \in sessions : s.token = req[r].token} IN
       IF found = {}
         THEN End(r)
         ELSE \E s \in found :
                Set(r, [req[r] EXCEPT !.at = "reading", !.user = s.user, !.changes = s.changes])
  /\ UNCHANGED <<events, accounts, roles, tokens, limits>>

(* find_one_and_delete                                                     *)
TakeSession(r) ==
  /\ req[r].at = "taking"
  /\ LET found == {s \in sessions : s.token = req[r].token} IN
       /\ sessions' = sessions \ found
       /\ IF found = {}
            THEN End(r)
            ELSE \E s \in found :
                   Set(r, [req[r] EXCEPT !.at = "reading", !.user = s.user, !.changes = s.changes])
  /\ UNCHANGED <<events, accounts, roles, issued, limits>>

ReadUser(r) ==
  /\ req[r].at = "reading"
  /\ IF status[req[r].user] = "active" THEN At(r, "issuing") ELSE End(r)
  /\ UNCHANGED <<events, accounts, roles, tokens, limits>>

StartLogout(r) ==
  /\ Start(r, "sessions")
  /\ \E x \in issued : Set(r, [NewRequest EXCEPT !.at = "leaving", !.token = x.token])

Logout(r) ==
  /\ req[r].at = "leaving"
  /\ sessions' = {s \in sessions : s.token # req[r].token}
  /\ End(r)
  /\ UNCHANGED <<events, accounts, roles, issued, limits>>

-----------------------------------------------------------------------------
(* Users.                                                                  *)

(* normalize_menu_permissions: a preset role brings its preset, whatever   *)
(* override it has; a custom one what its form showed, which GET /roles    *)
(* read when the form was opened.                                          *)
Body(x) == IF x \in Fixed THEN preset[x] ELSE granted[x]

(* Slip: the form shows roles that are deleted.                            *)
EveryRole == Roles

Offered == {x \in Roles : granted[x] # NoGrant /\ x \notin disabled}

StartCreateUser(r) ==
  /\ Start(r, "users")
  /\ \E u \in Users, x \in Offered :
       /\ status[u] = "none" /\ \A other \in Requests : req[other].user # u
       /\ Set(r, [NewRequest EXCEPT !.at = "inserting", !.user = u, !.role = x, !.grant = Body(x)])

(* No request looks whether the role is still there.                       *)
InsertUser(r) ==
  /\ req[r].at = "inserting"
  /\ LET u == req[r].user IN
       /\ status' = [status EXCEPT ![u] = "active"]
       /\ role' = [role EXCEPT ![u] = req[r].role]
       /\ grant' = [grant EXCEPT ![u] = req[r].grant]
  /\ End(r)
  /\ UNCHANGED <<events, changes, roles, tokens, limits>>

StartUpdateUser(r) ==
  /\ Start(r, "users")
  /\ \E u \in Users, x \in Offered, s \in {"active", "disabled"} :
       /\ There(u)
       /\ Set(r, [NewRequest EXCEPT !.at = "updating", !.user = u, !.role = x, !.grant = Body(x), !.status = s])

(* A user that is deleted meanwhile is not updated.                        *)
UpdateUser(r) ==
  /\ req[r].at = "updating"
  /\ LET u == req[r].user IN
       IF There(u)
         THEN /\ changes[u] < Updates
              /\ status' = [status EXCEPT ![u] = req[r].status]
              /\ role' = [role EXCEPT ![u] = req[r].role]
              /\ grant' = [grant EXCEPT ![u] = req[r].grant]
              /\ changes' = [changes EXCEPT ![u] = @ + 1]
         ELSE UNCHANGED accounts
  /\ At(r, "revoking")
  /\ UNCHANGED <<events, roles, tokens, limits>>

StartDeleteUser(r) ==
  /\ Start(r, "users")
  /\ \E u \in Users : There(u) /\ Set(r, [NewRequest EXCEPT !.at = "deleting", !.user = u])

DeleteUser(r) ==
  /\ req[r].at = "deleting"
  /\ status' = [status EXCEPT ![req[r].user] = "deleted"]
  /\ At(r, "revoking")
  /\ UNCHANGED <<events, role, grant, changes, roles, tokens, limits>>

RevokeSessions(r) ==
  /\ req[r].at = "revoking"
  /\ sessions' = {s \in sessions : s.user # req[r].user}
  /\ End(r)
  /\ UNCHANGED <<events, accounts, roles, issued, limits>>

-----------------------------------------------------------------------------
(* Roles.                                                                  *)

CreateTemplate(r) ==
  /\ "roles" \in events
  /\ req[r].at = "idle"
  /\ "together" \in events \/ Quiet
  /\ \E x \in Templates, g \in Grants :
       /\ granted[x] = NoGrant /\ \A other \in Requests : req[other].role # x
       /\ \A u \in Users : role[u] # x
       /\ granted' = [granted EXCEPT ![x] = g]
  /\ End(r)
  /\ UNCHANGED <<events, accounts, preset, disabled, tokens, limits>>

StartUpdateRole(r) ==
  /\ Start(r, "roles")
  /\ \E x \in Roles, g \in Grants : Set(r, [NewRequest EXCEPT !.at = "saving", !.role = x, !.grant = g])

(* update_role_template changes a role that is there, and                  *)
(* update_role_definition any preset role, which is there again.           *)
SaveRole(r) ==
  /\ req[r].at = "saving"
  /\ LET x == req[r].role IN
       IF granted[x] = NoGrant
         THEN End(r) /\ UNCHANGED <<granted, disabled>>
         ELSE /\ granted' = [granted EXCEPT ![x] = req[r].grant]
              /\ disabled' = disabled \ {x}
              /\ At(r, "spreading")
  /\ UNCHANGED <<events, accounts, preset, tokens, limits>>

(* update_many: the permissions of the role's users change, their sessions *)
(* stay.                                                                   *)
SpreadRole(r) ==
  /\ req[r].at = "spreading"
  /\ LET changed == {u \in Users : There(u) /\ role[u] = req[r].role /\ grant[u] # req[r].grant} IN
       /\ \A u \in changed : changes[u] < Updates
       /\ grant' = [u \in Users |-> IF u \in changed THEN req[r].grant ELSE grant[u]]
       /\ changes' = [u \in Users |-> IF u \in changed THEN changes[u] + 1 ELSE changes[u]]
  /\ End(r)
  /\ UNCHANGED <<events, status, role, roles, tokens, limits>>

StartDeleteRole(r) ==
  /\ Start(r, "roles")
  /\ \E x \in Roles :
       /\ granted[x] # NoGrant
       /\ Set(r, [NewRequest EXCEPT !.at = "binding", !.role = x])

(* Slip: only active users count.                                          *)
BoundActive(x) == \E u \in Users : status[u] = "active" /\ role[u] = x

Bound(x) == \E u \in Users : There(u) /\ role[u] = x

FindBoundUsers(r) ==
  /\ req[r].at = "binding"
  /\ IF Bound(req[r].role) THEN End(r) ELSE At(r, "dropping")
  /\ UNCHANGED <<events, accounts, roles, tokens, limits>>

(* delete_role_definition keeps the override and marks it.                 *)
DropRole(r) ==
  /\ req[r].at = "dropping"
  /\ LET x == req[r].role IN
       IF x \in Fixed
         THEN disabled' = disabled \union {x} /\ UNCHANGED granted
         ELSE granted' = [granted EXCEPT ![x] = NoGrant] /\ UNCHANGED disabled
  /\ End(r)
  /\ UNCHANGED <<events, accounts, preset, tokens, limits>>

-----------------------------------------------------------------------------
Step(r) ==
  \/ CountFailures(r) \/ Verify(r) \/ Increment(r) \/ SetExpiry(r) \/ ClearFailures(r) \/ IssueTokens(r)
  \/ TakeSession(r) \/ ReadUser(r) \/ Logout(r)
  \/ InsertUser(r) \/ UpdateUser(r) \/ DeleteUser(r) \/ RevokeSessions(r)
  \/ SaveRole(r) \/ SpreadRole(r) \/ FindBoundUsers(r) \/ DropRole(r)

Begin(r) ==
  \/ StartLogin(r) \/ StartRefresh(r) \/ StartLogout(r)
  \/ StartCreateUser(r) \/ StartUpdateUser(r) \/ StartDeleteUser(r)
  \/ CreateTemplate(r) \/ StartUpdateRole(r) \/ StartDeleteRole(r)

Next == (\E r \in Requests : Begin(r) \/ Step(r) \/ Crash(r)) \/ \E u \in Users : Expire(u)

Spec == Init /\ [][Next]_vars

(* Requests go on, and Redis removes what has expired.                     *)
FairSpec ==
  /\ Spec
  /\ \A r \in Requests : WF_vars(Step(r))
  /\ \A u \in Users : WF_vars(Expire(u))

-----------------------------------------------------------------------------
(* Requests come one after the other and none ends half-way.               *)
Orderly == Quiet /\ events \intersect {"together", "crash"} = {}

(* A refresh token is good for one new token, also when two requests send  *)
(* it at the same time.                                                    *)
TokensAreSingle ==
  \A x, y \in issued : x.from = y.from /\ x.from # Nothing => x = y

(* When a user, or its permissions, have been changed, or it has been      *)
(* deleted, only logins since then have a session.                         *)
ChangedUsersHaveNoSession ==
  Quiet => \A s \in sessions : status[s.user] = "active" /\ s.changes = changes[s.user]

(* Tokens are good for one use, and changed users have no session where    *)
(* only update_user and delete_user change them and requests come one      *)
(* after the other.  (A change of a role revokes no session, and a login   *)
(* or refresh that read the user before a change stores its session after  *)
(* the others are gone.)                                                   *)
SessionsAreCurrent ==
  /\ TokensAreSingle
  /\ events \intersect {"roles", "together", "crash"} = {} => ChangedUsersHaveNoSession

(* A user has the permissions of its role, and the role is there.  A       *)
(* preset role whose permissions were changed is another matter: a user    *)
(* that is saved later gets the preset.                                    *)
GrantsFollowRoles ==
  Orderly =>
    \A u \in Users : There(u) =>
      /\ granted[role[u]] # NoGrant /\ role[u] \notin disabled
      /\ role[u] \in Templates \/ ~({"users", "roles"} \subseteq events) => grant[u] = granted[role[u]]

(* A user that is locked out can try again some time later.                *)
LockoutEnds ==
  \A u \in Users : failures[u] >= MaxFailures ~> failures[u] < MaxFailures
=============================================================================
