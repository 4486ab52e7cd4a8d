--------------------------- MODULE AccountsProofs ---------------------------
(* Theorems about Accounts for any number of users, roles and requests.    *)
EXTENDS Accounts, FiniteSetTheorems, TLAPS

-----------------------------------------------------------------------------
(* Each request that failed to log in has added at most one failure, and   *)
(* has left these steps.                                                   *)
Uncounted == {"idle", "counting", "verifying", "incrementing"}
Counted == {r \in Requests : req[r].at \notin Uncounted}

FailuresAreCounted == \A u \in Users : failures[u] <= Cardinality(Counted)

UserSteps == {"counting", "verifying", "incrementing", "expiring", "clearing", "issuing", "reading",
              "inserting", "updating", "deleting", "revoking"}
RoleSteps == {"inserting", "updating", "saving", "spreading", "binding", "dropping"}
GrantSteps == {"inserting", "updating", "saving", "spreading"}

(* A request knows what its step works on.                                 *)
Equipped(q) ==
  /\ q.at \in UserSteps => q.user \in Users
  /\ q.at \in RoleSteps => q.role \in Roles
  /\ q.at \in GrantSteps => q.grant \in Grants

StepsAreEquipped == \A r \in Requests : Equipped(req[r])

TypeInv == TypeOK /\ FailuresAreCounted /\ StepsAreEquipped

LEMMA CountedIsFinite ==
  ASSUME NEW S \in SUBSET Requests
  PROVE  /\ IsFiniteSet(S) /\ Cardinality(S) \in Nat
         /\ Cardinality(S) <= Cardinality(Requests) /\ Cardinality(Requests) \in Nat
BY FS_Subset, FS_CardinalityType, BoundsAssumption

LEMMA TypeInit == Init => TypeInv
<1> SUFFICES ASSUME Init PROVE TypeInv
  OBVIOUS
<1> USE DEF Init, NewRequest
<1>1. /\ events \in Environments /\ disabled \subseteq Fixed /\ sessions \subseteq Session
      /\ status \in [Users -> {"none", "active", "disabled", "deleted"}]
      /\ role \in [Users -> Roles] /\ preset \in [Fixed -> Grants] /\ expiring \subseteq Users
      /\ issued \subseteq [token : Tokens, from : Tokens \union {Nothing}]
  OBVIOUS
<1>2. granted \in [Roles -> Grants \union {NoGrant}]
  BY DEF Roles
<1>3. grant \in [Users -> Grants]
  BY <1>1, <1>2
<1>4. changes \in [Users -> 0..Updates] /\ 0 \in 0..Updates
  BY BoundsAssumption
<1>5. req \in [Requests -> Request]
  BY <1>4 DEF Request, Steps
<1>6. Cardinality(Counted) \in Nat /\ Cardinality(Requests) \in Nat
  BY CountedIsFinite DEF Counted
<1>7. failures \in [Users -> 0..(MaxFailures + Cardinality(Requests))] /\ FailuresAreCounted
  BY <1>6, BoundsAssumption DEF FailuresAreCounted
<1>8. StepsAreEquipped
  BY DEF StepsAreEquipped, Equipped, UserSteps, RoleSteps, GrantSteps
<1> QED
  BY <1>1, <1>2, <1>3, <1>4, <1>5, <1>7, <1>8 DEF TypeInv, TypeOK

(* A step of one request takes no request out of the count, and one that   *)
(* leaves the failures alone, or clears them, keeps them counted.          *)
LEMMA CountGrows ==
  ASSUME TypeInv, Counted \subseteq Counted',
         \A u \in Users : failures'[u] = failures[u] \/ failures'[u] = 0
  PROVE  FailuresAreCounted'
<1>1. Counted' \subseteq Requests
  BY DEF Counted
<1>2. /\ IsFiniteSet(Counted') /\ Cardinality(Counted') \in Nat
      /\ Cardinality(Counted) \in Nat /\ Cardinality(Counted) <= Cardinality(Counted')
  BY <1>1, FS_Subset, CountedIsFinite
<1> QED
  BY <1>2 DEF FailuresAreCounted, TypeInv, TypeOK

RequestsKeepTypes ==
  req' \in [Requests -> Request] /\ StepsAreEquipped' /\ Counted \subseteq Counted'

LEMMA SetKeepsTypes ==
  ASSUME TypeOK, StepsAreEquipped, NEW r \in Requests, NEW q \in Request, Set(r, q), Equipped(q),
         q.at \in Uncounted => req[r].at \in Uncounted
  PROVE  RequestsKeepTypes
BY DEF TypeOK, Set, StepsAreEquipped, Counted, RequestsKeepTypes

LEMMA AtKeepsTypes ==
  ASSUME TypeOK, StepsAreEquipped, NEW r \in Requests, NEW s \in Steps, At(r, s),
         s \in UserSteps => req[r].user \in Users,
         s \in RoleSteps => req[r].role \in Roles,
         s \in GrantSteps => req[r].grant \in Grants,
         s \in Uncounted => req[r].at \in Uncounted
  PROVE  RequestsKeepTypes
<1> DEFINE q == [req[r] EXCEPT !.at = s]
<1>1. /\ q \in Request /\ q.at = s
      /\ q.user = req[r].user /\ q.role = req[r].role /\ q.grant = req[r].grant
  BY DEF TypeOK, Request
<1>2. Set(r, q)
  BY DEF At
<1> HIDE DEF q
<1> QED
  BY <1>1, <1>2, SetKeepsTypes DEF Equipped

LEMMA NewRequestIsOne == NewRequest \in Request
<1>1. 0 \in 0..Updates
  BY BoundsAssumption
<1> QED
  BY <1>1 DEF NewRequest, Request, Steps

LEMMA EndKeepsTypes ==
  ASSUME TypeOK, StepsAreEquipped, NEW r \in Requests, End(r)
  PROVE  RequestsKeepTypes
<1> DEFINE q == [NewRequest EXCEPT !.at = "done"]
<1>1. q \in Request /\ q.at = "done"
  BY NewRequestIsOne DEF Request, NewRequest, Steps
<1>2. Set(r, q)
  BY DEF End
<1> HIDE DEF q
<1> QED
  BY <1>1, <1>2, SetKeepsTypes DEF Equipped, UserSteps, RoleSteps, GrantSteps, Uncounted

(* Logging in, which counts the failures.                                  *)
LEMMA LoginKeepsTypes ==
  ASSUME TypeInv, NEW r \in Requests,
         \/ StartLogin(r) \/ CountFailures(r) \/ Verify(r) \/ Increment(r) \/ SetExpiry(r)
         \/ ClearFailures(r) \/ Crash(r)
  PROVE  TypeInv'
<1> USE DEF accounts, roles, tokens, limits
<1>0. TypeOK /\ StepsAreEquipped /\ FailuresAreCounted /\ 0 \in 0..Updates
  BY BoundsAssumption DEF TypeInv
<1>1. /\ RequestsKeepTypes
      /\ UNCHANGED <<events, accounts, roles, tokens>> /\ expiring' \subseteq Users
  <2> USE <1>0 DEF RequestsKeepTypes, Uncounted, UserSteps, RoleSteps, GrantSteps
  <2>0. req[r].at \in UserSteps => req[r].user \in Users
    BY DEF StepsAreEquipped, Equipped
  <2>1. CASE StartLogin(r)
    <3>1. PICK u \in Users, right \in BOOLEAN :
            Set(r, [NewRequest EXCEPT !.at = "counting", !.user = u, !.right = right])
      BY <2>1 DEF StartLogin
    <3>2. /\ [NewRequest EXCEPT !.at = "counting", !.user = u, !.right = right] \in Request
          /\ Equipped([NewRequest EXCEPT !.at = "counting", !.user = u, !.right = right])
      BY NewRequestIsOne DEF Request, Steps, Equipped, NewRequest
    <3> QED BY <3>1, <3>2, <2>1, SetKeepsTypes DEF StartLogin, Start, NewRequest, TypeOK
  <2>2. CASE Crash(r)
    BY <2>2, EndKeepsTypes DEF Crash, TypeOK
  <2>3. CASE CountFailures(r)
    BY <2>3, <2>0, AtKeepsTypes, EndKeepsTypes DEF CountFailures, Steps, TypeOK
  <2>4. CASE Verify(r)
    <3> DEFINE q == [req[r] EXCEPT !.at = "clearing", !.changes = changes[req[r].user]]
    <3>1. CASE At(r, "incrementing")
      BY <3>1, <2>4, <2>0, AtKeepsTypes DEF Verify, Steps, TypeOK
    <3>2. CASE Set(r, q)
      <4>1. changes[req[r].user] \in 0..Updates
        BY <2>4, <2>0 DEF Verify, TypeOK
      <4>2. q \in Request /\ q.at = "clearing" /\ q.user = req[r].user
        BY ZenonT(40), <4>1 DEF TypeOK, Request, Steps
      <4>3. Equipped(q)
        BY <4>2, <2>4, <2>0 DEF Equipped, Verify
      <4> HIDE DEF q
      <4> QED BY <3>2, <4>2, <4>3, <2>4, SetKeepsTypes DEF Verify, TypeOK
    <3> QED BY <2>4, <3>1, <3>2 DEF Verify
  <2>5. CASE Increment(r)
    BY <2>5, <2>0, AtKeepsTypes, EndKeepsTypes DEF Increment, Steps, TypeOK
  <2>6. CASE SetExpiry(r)
    <3>1. RequestsKeepTypes
      BY <2>6, EndKeepsTypes DEF SetExpiry
    <3> QED BY <2>6, <2>0, <3>1 DEF SetExpiry, TypeOK
  <2>7. CASE ClearFailures(r)
    BY <2>7, <2>0, AtKeepsTypes DEF ClearFailures, Steps, TypeOK
  <2> QED BY <2>1, <2>2, <2>3, <2>4, <2>5, <2>6, <2>7
<1>2. Counted \subseteq Counted'
  BY <1>1 DEF RequestsKeepTypes
<1>4. failures' \in [Users -> 0..(MaxFailures + Cardinality(Requests))] /\ FailuresAreCounted'
  <2>1. CASE Increment(r) /\ failures' # failures
    <3> DEFINE u == req[r].user
    <3>1. /\ r \notin Counted /\ r \in Counted' /\ u \in Users
          /\ failures' = [failures EXCEPT ![u] = @ + 1]
      BY <2>1, <1>0 DEF Increment, Counted, Uncounted, TypeOK, Request, StepsAreEquipped, Equipped, UserSteps,
             At, Set, End, NewRequest
    <3>2. Counted \union {r} \in SUBSET Counted' /\ Counted' \in SUBSET Requests
      BY <3>1, <1>2 DEF Counted
    <3>3. Cardinality(Counted \union {r}) = Cardinality(Counted) + 1
      BY <3>1, CountedIsFinite, FS_AddElement DEF Counted
    <3>4. Cardinality(Counted \union {r}) <= Cardinality(Counted')
      BY <3>2, CountedIsFinite, FS_Subset
    <3>5. /\ Cardinality(Counted) \in Nat /\ Cardinality(Counted') \in Nat
          /\ Cardinality(Counted') <= Cardinality(Requests) /\ Cardinality(Requests) \in Nat
      BY <3>2, CountedIsFinite DEF Counted
    <3>6. \A v \in Users : failures'[v] \in Nat /\ failures'[v] <= Cardinality(Counted')
      BY <3>1, <3>3, <3>4, <3>5, <1>0 DEF FailuresAreCounted, TypeOK
    <3>7. failures' \in [Users -> 0..(MaxFailures + Cardinality(Requests))]
      BY <3>1, <3>5, <3>6, <1>0, BoundsAssumption DEF TypeOK
    <3> QED BY <3>6, <3>7 DEF FailuresAreCounted
  <2>2. CASE ~(Increment(r) /\ failures' # failures)
    <3>1. \/ failures' = failures
          \/ failures' = [failures EXCEPT ![req[r].user] = 0]
      BY <2>2 DEF StartLogin, Start, CountFailures, Verify, Increment, SetExpiry, ClearFailures, Crash
    <3>2. Cardinality(Requests) \in Nat
      BY CountedIsFinite
    <3>3. failures' \in [Users -> 0..(MaxFailures + Cardinality(Requests))]
      BY <3>1, <3>2, <1>0, BoundsAssumption DEF TypeOK
    <3>4. \A u \in Users : failures'[u] = failures[u] \/ failures'[u] = 0
      BY <3>1, <1>0 DEF TypeOK
    <3> QED BY <3>3, <3>4, <1>2, CountGrows
  <2> QED BY <2>1, <2>2
<1> QED
  BY <1>0, <1>1, <1>4 DEF TypeInv, TypeOK, RequestsKeepTypes

(* Refresh, logout and the tokens they and a login issue.                  *)
LEMMA SessionKeepsTypes ==
  ASSUME TypeInv, NEW r \in Requests,
         \/ IssueTokens(r) \/ StartRefresh(r) \/ TakeSession(r) \/ ReadUser(r)
         \/ StartLogout(r) \/ Logout(r)
  PROVE  TypeInv'
<1> USE DEF accounts, roles, limits
<1>0. /\ TypeOK /\ StepsAreEquipped
      /\ req[r].at \in UserSteps => req[r].user \in Users
  BY DEF TypeInv, StepsAreEquipped, Equipped
<1>1. RequestsKeepTypes
  <2> USE <1>0 DEF Uncounted, UserSteps, RoleSteps, GrantSteps
  <2>1. ASSUME NEW s \in {"taking", "leaving"}, NEW x \in issued,
               Set(r, [NewRequest EXCEPT !.at = s, !.token = x.token]), req[r].at = "idle"
        PROVE  RequestsKeepTypes
    <3> DEFINE q == [NewRequest EXCEPT !.at = s, !.token = x.token]
    <3>1. q \in Request /\ Equipped(q) /\ q.at = s
      BY NewRequestIsOne DEF Request, Steps, Equipped, NewRequest, TypeOK
    <3>2. Set(r, q) /\ req[r].at = "idle"
      BY <2>1
    <3> HIDE DEF q
    <3> QED BY <3>1, <3>2, SetKeepsTypes
  <2>2. CASE StartRefresh(r) \/ StartLogout(r)
    BY <2>1, <2>2 DEF StartRefresh, StartLogout, Start
  <2>3. CASE TakeSession(r)
    <3> DEFINE q(s) == [req[r] EXCEPT !.at = "reading", !.user = s.user, !.changes = s.changes]
    <3>1. ASSUME NEW s \in sessions, Set(r, q(s)) PROVE RequestsKeepTypes
      <4>1. q(s) \in Request /\ q(s).at = "reading" /\ q(s).user \in Users
        BY ZenonT(40) DEF Request, Steps, TypeOK, Session
      <4> HIDE DEF q
      <4> QED BY <4>1, <3>1, SetKeepsTypes DEF Equipped
    <3> QED BY <2>3, <3>1, EndKeepsTypes DEF TakeSession
  <2>4. CASE ReadUser(r)
    BY <2>4, AtKeepsTypes, EndKeepsTypes DEF ReadUser, Steps
  <2>5. CASE IssueTokens(r) \/ Logout(r)
    BY <2>5, EndKeepsTypes DEF IssueTokens, Logout
  <2> QED BY <2>2, <2>3, <2>4, <2>5
<1>2. sessions' \subseteq Session /\ issued' \subseteq [token : Tokens, from : Tokens \union {Nothing}]
  <2>1. CASE IssueTokens(r)
    <3>1. req[r].user \in Users /\ req[r].changes \in 0..Updates /\ req[r].token \in Tokens \union {Nothing}
      BY <2>1, <1>0 DEF IssueTokens, UserSteps, TypeOK, Request
    <3> QED BY <2>1, <1>0, <3>1 DEF IssueTokens, TypeOK, Session, Tokens
  <2>2. CASE ~IssueTokens(r)
    BY <2>2, <1>0 DEF TypeOK, tokens, StartRefresh, Start, TakeSession, ReadUser, StartLogout, Logout
  <2> QED BY <2>1, <2>2
<1>3. UNCHANGED <<events, accounts, roles, limits>>
  BY DEF tokens, IssueTokens, StartRefresh, Start, TakeSession, ReadUser, StartLogout, Logout
<1> QED
  BY <1>0, <1>1, <1>2, <1>3, CountGrows DEF TypeInv, TypeOK, RequestsKeepTypes

(* Creating, changing and deleting users.                                  *)
LEMMA UserKeepsTypes ==
  ASSUME TypeInv, NEW r \in Requests,
         \/ StartCreateUser(r) \/ InsertUser(r) \/ StartUpdateUser(r) \/ UpdateUser(r)
         \/ StartDeleteUser(r) \/ DeleteUser(r) \/ RevokeSessions(r)
  PROVE  TypeInv'
<1> USE DEF accounts, roles, tokens, limits
<1>0. TypeOK /\ StepsAreEquipped /\ Equipped(req[r]) /\ req[r] \in Request
  BY DEF TypeInv, StepsAreEquipped, TypeOK
<1>1. RequestsKeepTypes
  <2> USE <1>0 DEF Uncounted, UserSteps, RoleSteps, GrantSteps
  <2>1. \A x \in Offered : Body(x) \in Grants
    BY DEF Offered, Body, TypeOK, Roles
  <2>2. CASE StartCreateUser(r)
    <3> PICK u \in Users, x \in Offered :
          Set(r, [NewRequest EXCEPT !.at = "inserting", !.user = u, !.role = x, !.grant = Body(x)])
      BY <2>2 DEF StartCreateUser
    <3> DEFINE q == [NewRequest EXCEPT !.at = "inserting", !.user = u, !.role = x, !.grant = Body(x)]
    <3>1. q \in Request /\ Equipped(q) /\ q.at = "inserting"
      BY <2>1, NewRequestIsOne DEF Request, Steps, Equipped, NewRequest, Offered
    <3>2. Set(r, q) /\ req[r].at = "idle"
      BY <2>2 DEF StartCreateUser, Start
    <3> HIDE DEF q
    <3> QED BY <3>1, <3>2, SetKeepsTypes
  <2>3. CASE StartUpdateUser(r)
    <3> PICK u \in Users, x \in Offered, s \in {"active", "disabled"} :
          Set(r, [NewRequest EXCEPT !.at = "updating", !.user = u, !.role = x, !.grant = Body(x), !.status = s])
      BY <2>3 DEF StartUpdateUser
    <3> DEFINE q == [NewRequest EXCEPT !.at = "updating", !.user = u, !.role = x, !.grant = Body(x), !.status = s]
    <3>1. q \in Request /\ Equipped(q) /\ q.at = "updating"
      BY ZenonT(40), <2>1, NewRequestIsOne DEF Request, Steps, Equipped, NewRequest, Offered
    <3>2. Set(r, q) /\ req[r].at = "idle"
      BY <2>3 DEF StartUpdateUser, Start
    <3> HIDE DEF q
    <3> QED BY <3>1, <3>2, SetKeepsTypes
  <2>4. CASE StartDeleteUser(r)
    <3> PICK u \in Users : Set(r, [NewRequest EXCEPT !.at = "deleting", !.user = u])
      BY <2>4 DEF StartDeleteUser
    <3> DEFINE q == [NewRequest EXCEPT !.at = "deleting", !.user = u]
    <3>1. q \in Request /\ Equipped(q) /\ q.at = "deleting"
      BY NewRequestIsOne DEF Request, Steps, Equipped, NewRequest
    <3>2. Set(r, q) /\ req[r].at = "idle"
      BY <2>4 DEF StartDeleteUser, Start
    <3> HIDE DEF q
    <3> QED BY <3>1, <3>2, SetKeepsTypes
  <2>5. CASE UpdateUser(r) \/ DeleteUser(r)
    BY <2>5, AtKeepsTypes DEF UpdateUser, DeleteUser, Steps, Equipped
  <2>6. CASE InsertUser(r) \/ RevokeSessions(r)
    BY <2>6, EndKeepsTypes DEF InsertUser, RevokeSessions
  <2> QED BY <2>2, <2>3, <2>4, <2>5, <2>6
<1>2. /\ status' \in [Users -> {"none", "active", "disabled", "deleted"}]
      /\ role' \in [Users -> Roles] /\ grant' \in [Users -> Grants]
      /\ changes' \in [Users -> 0..Updates]
  <2> USE <1>0 DEF TypeOK, UserSteps, RoleSteps, GrantSteps, Equipped
  <2>1. CASE InsertUser(r)
    BY <2>1 DEF InsertUser
  <2>2. CASE UpdateUser(r) /\ There(req[r].user)
    <3> DEFINE u == req[r].user
    <3>1. u \in Users /\ req[r].role \in Roles /\ req[r].grant \in Grants /\ req[r].status \in {"active", "disabled"}
      BY <2>2 DEF UpdateUser, Request
    <3>2. /\ changes[u] < Updates /\ changes' = [changes EXCEPT ![u] = @ + 1]
          /\ status' = [status EXCEPT ![u] = req[r].status]
          /\ role' = [role EXCEPT ![u] = req[r].role]
          /\ grant' = [grant EXCEPT ![u] = req[r].grant]
      BY <2>2 DEF UpdateUser
    <3>3. changes[u] + 1 \in 0..Updates
      BY <3>1, <3>2, BoundsAssumption
    <3> QED BY <3>1, <3>2, <3>3
  <2>3. CASE DeleteUser(r)
    BY <2>3 DEF DeleteUser
  <2>4. CASE UpdateUser(r) /\ ~There(req[r].user)
    <3>1. UNCHANGED accounts
      BY <2>4 DEF UpdateUser
    <3> QED BY <3>1
  <2>5. CASE StartCreateUser(r) \/ StartUpdateUser(r) \/ StartDeleteUser(r) \/ RevokeSessions(r)
    <3>1. UNCHANGED accounts
      BY <2>5 DEF StartCreateUser, StartUpdateUser, StartDeleteUser, RevokeSessions, Start
    <3> QED BY <3>1
  <2> QED BY <2>1, <2>2, <2>3, <2>4, <2>5
<1>3. UNCHANGED <<events, roles, issued, limits>> /\ sessions' \subseteq sessions
  BY DEF StartCreateUser, InsertUser, StartUpdateUser, UpdateUser, StartDeleteUser, DeleteUser,
         RevokeSessions, Start
<1> QED
  BY <1>0, <1>1, <1>2, <1>3, CountGrows DEF TypeInv, TypeOK, RequestsKeepTypes

(* Creating, changing and deleting roles.                                  *)
LEMMA RoleKeepsTypes ==
  ASSUME TypeInv, NEW r \in Requests,
         \/ CreateTemplate(r) \/ StartUpdateRole(r) \/ SaveRole(r) \/ SpreadRole(r)
         \/ StartDeleteRole(r) \/ FindBoundUsers(r) \/ DropRole(r)
  PROVE  TypeInv'
<1> USE DEF accounts, roles, tokens, limits
<1>0. TypeOK /\ StepsAreEquipped /\ Equipped(req[r])
  BY DEF TypeInv, StepsAreEquipped
<1>1. RequestsKeepTypes
  <2> USE <1>0 DEF Uncounted, UserSteps, RoleSteps, GrantSteps
  <2>1. CASE StartUpdateRole(r)
    <3> PICK x \in Roles, g \in Grants :
          Set(r, [NewRequest EXCEPT !.at = "saving", !.role = x, !.grant = g])
      BY <2>1 DEF StartUpdateRole
    <3> DEFINE q == [NewRequest EXCEPT !.at = "saving", !.role = x, !.grant = g]
    <3>1. q \in Request /\ Equipped(q) /\ q.at = "saving"
      BY NewRequestIsOne DEF Request, Steps, Equipped, NewRequest
    <3>2. Set(r, q) /\ req[r].at = "idle"
      BY <2>1 DEF StartUpdateRole, Start
    <3> HIDE DEF q
    <3> QED BY <3>1, <3>2, SetKeepsTypes
  <2>2. CASE StartDeleteRole(r)
    <3> PICK x \in Roles : Set(r, [NewRequest EXCEPT !.at = "binding", !.role = x])
      BY <2>2 DEF StartDeleteRole
    <3> DEFINE q == [NewRequest EXCEPT !.at = "binding", !.role = x]
    <3>1. q \in Request /\ Equipped(q) /\ q.at = "binding"
      BY NewRequestIsOne DEF Request, Steps, Equipped, NewRequest
    <3>2. Set(r, q) /\ req[r].at = "idle"
      BY <2>2 DEF StartDeleteRole, Start
    <3> HIDE DEF q
    <3> QED BY <3>1, <3>2, SetKeepsTypes
  <2>3. CASE SaveRole(r) \/ FindBoundUsers(r)
    BY <2>3, AtKeepsTypes, EndKeepsTypes DEF SaveRole, FindBoundUsers, Steps, Equipped
  <2>4. CASE CreateTemplate(r) \/ SpreadRole(r) \/ DropRole(r)
    BY <2>4, EndKeepsTypes DEF CreateTemplate, SpreadRole, DropRole
  <2> QED BY <2>1, <2>2, <2>3, <2>4
<1>2. granted' \in [Roles -> Grants \union {NoGrant}] /\ disabled' \subseteq Fixed
  <2> USE <1>0 DEF TypeOK, Equipped, RoleSteps, GrantSteps, Roles
  <2>1. CASE CreateTemplate(r) \/ SaveRole(r) \/ DropRole(r)
    BY <2>1 DEF CreateTemplate, SaveRole, DropRole
  <2>2. CASE ~(CreateTemplate(r) \/ SaveRole(r) \/ DropRole(r))
    BY <2>2 DEF StartUpdateRole, SpreadRole, StartDeleteRole, FindBoundUsers, Start
  <2> QED BY <2>1, <2>2
<1>3. grant' \in [Users -> Grants]
  <2>1. CASE SpreadRole(r)
    BY <2>1, <1>0 DEF SpreadRole, TypeOK, Equipped, GrantSteps
  <2>2. CASE ~SpreadRole(r)
    BY <2>2, <1>0 DEF TypeOK, CreateTemplate, StartUpdateRole, Start, SaveRole, StartDeleteRole,
       FindBoundUsers, DropRole
  <2> QED BY <2>1, <2>2
<1>4. changes' \in [Users -> 0..Updates]
  <2>1. CASE SpreadRole(r)
    <3> DEFINE changed == {u \in Users : There(u) /\ role[u] = req[r].role /\ grant[u] # req[r].grant}
    <3>1. /\ \A u \in changed : changes[u] < Updates
          /\ changes' = [u \in Users |-> IF u \in changed THEN changes[u] + 1 ELSE changes[u]]
      BY <2>1 DEF SpreadRole
    <3>2. \A u \in Users : changes[u] \in 0..Updates
      BY <1>0 DEF TypeOK
    <3>3. \A u \in changed : changes[u] + 1 \in 0..Updates
      BY <3>1, <3>2, BoundsAssumption
    <3> HIDE DEF changed
    <3> QED BY <3>1, <3>2, <3>3
  <2>2. CASE ~SpreadRole(r)
    BY <2>2, <1>0 DEF TypeOK, CreateTemplate, StartUpdateRole, Start, SaveRole, StartDeleteRole,
       FindBoundUsers, DropRole
  <2> QED BY <2>1, <2>2
<1>5. UNCHANGED <<events, status, role, preset, tokens, limits>>
  BY DEF CreateTemplate, StartUpdateRole, Start, SaveRole, SpreadRole, StartDeleteRole, FindBoundUsers,
     DropRole
<1> QED
  BY <1>0, <1>1, <1>2, <1>3, <1>4, <1>5, CountGrows DEF TypeInv, TypeOK, RequestsKeepTypes

LEMMA TypeInvariant == Spec => []TypeInv
<1>1. TypeInv /\ [Next]_vars => TypeInv'
  <2> SUFFICES ASSUME TypeInv, [Next]_vars PROVE TypeInv'
    OBVIOUS
  <2>1. CASE \E u \in Users : Expire(u)
    <3>1. /\ failures' \in [Users -> 0..(MaxFailures + Cardinality(Requests))]
          /\ \A u \in Users : failures'[u] = failures[u] \/ failures'[u] = 0
      BY <2>1, CountedIsFinite, BoundsAssumption DEF Expire, TypeInv, TypeOK
    <3>2. UNCHANGED <<events, accounts, roles, tokens, req>> /\ expiring' \subseteq expiring
      BY <2>1 DEF Expire
    <3>3. FailuresAreCounted'
      BY <3>1, <3>2, CountGrows DEF Counted
    <3> QED BY <3>1, <3>2, <3>3 DEF TypeInv, TypeOK, StepsAreEquipped, accounts, roles, tokens
  <2>2. CASE UNCHANGED vars
    <3>1. FailuresAreCounted'
      BY <2>2, CountGrows DEF Counted, vars, limits
    <3> QED BY <2>2, <3>1 DEF vars, accounts, roles, tokens, limits, TypeInv, TypeOK, StepsAreEquipped
  <2> QED
    BY <2>1, <2>2, LoginKeepsTypes, SessionKeepsTypes, UserKeepsTypes, RoleKeepsTypes
    DEF Next, Begin, Step
<1> QED
  BY <1>1, TypeInit, PTL DEF Spec

(* Every variable keeps its type; no user has more failures than requests  *)
(* failed, so that the counter needs no bound of its own.                  *)
THEOREM TypeCorrect == Spec => []TypeOK
<1>1. TypeInv => TypeOK
  BY DEF TypeInv
<1> QED
  BY <1>1, TypeInvariant, PTL

-----------------------------------------------------------------------------
(* A refresh that took its session away.                                   *)
Refreshing(r) == req[r].at \in {"reading", "issuing"} /\ req[r].token # Nothing

(* What is known of the tokens that were used: they are gone, and nobody   *)
(* else uses them.                                                         *)
TokensInv ==
  /\ \A s \in sessions : req[s.token].at = "done"
  /\ \A x \in issued : req[x.token].at = "done" /\ (x.from # Nothing => req[x.from].at = "done")
  /\ \A r \in Requests : req[r].token # Nothing =>
       req[r].at \in {"taking", "leaving", "reading", "issuing"} /\ req[req[r].token].at = "done"
  /\ \A r \in Requests : Refreshing(r) =>
       /\ \A s \in sessions : s.token # req[r].token
       /\ \A x \in issued : x.from # req[r].token
       /\ \A q \in Requests : Refreshing(q) /\ req[q].token = req[r].token => q = r
  /\ \A x \in issued : x.from # Nothing => \A s \in sessions : s.token # x.from
  /\ TokensAreSingle

(* A step of a request does nothing to the others.                         *)
LEMMA Frame ==
  ASSUME TypeOK, NEW r \in Requests, Begin(r) \/ Step(r) \/ Crash(r)
  PROVE  /\ events' = events
         /\ req[r].at # "done"
         /\ \A q \in Requests : q # r => req'[q] = req[q]
<1>0. Start(r, "sessions") \/ Start(r, "users") \/ Start(r, "roles") => req[r].at = "idle" /\ events' = events
  BY DEF Start
<1>1. CASE Crash(r)
  BY <1>1 DEF Crash, Busy, End, Set, TypeOK
<1>2. CASE StartLogin(r) \/ StartRefresh(r) \/ StartLogout(r)
  BY <1>0, <1>2 DEF StartLogin, StartRefresh, StartLogout, Set, TypeOK
<1>3. CASE StartCreateUser(r) \/ StartUpdateUser(r) \/ StartDeleteUser(r)
  BY <1>0, <1>3 DEF StartCreateUser, StartUpdateUser, StartDeleteUser, Set, TypeOK
<1>4. CASE CreateTemplate(r) \/ StartUpdateRole(r) \/ StartDeleteRole(r)
  BY <1>0, <1>4 DEF CreateTemplate, StartUpdateRole, StartDeleteRole, Set, End, TypeOK
<1>5. CASE CountFailures(r) \/ Verify(r) \/ Increment(r) \/ SetExpiry(r) \/ ClearFailures(r)
  BY <1>5 DEF CountFailures, Verify, Increment, SetExpiry, ClearFailures, Set, At, End, TypeOK
<1>6. CASE IssueTokens(r) \/ TakeSession(r) \/ ReadUser(r) \/ Logout(r)
  BY <1>6 DEF IssueTokens, TakeSession, ReadUser, Logout, Set, At, End, TypeOK
<1>7. CASE InsertUser(r) \/ UpdateUser(r) \/ DeleteUser(r) \/ RevokeSessions(r)
  BY <1>7 DEF InsertUser, UpdateUser, DeleteUser, RevokeSessions, Set, At, End, TypeOK
<1>8. CASE SaveRole(r) \/ SpreadRole(r) \/ FindBoundUsers(r) \/ DropRole(r)
  BY <1>8 DEF SaveRole, SpreadRole, FindBoundUsers, DropRole, Set, At, End, TypeOK
<1> QED
  BY <1>1, <1>2, <1>3, <1>4, <1>5, <1>6, <1>7, <1>8 DEF Begin, Step

LEMMA Moves ==
  ASSUME TypeOK, NEW r \in Requests
  PROVE  /\ \A q : Set(r, q) => req'[r] = q
         /\ \A s : At(r, s) =>
              /\ req'[r].at = s
              /\ req'[r].user = req[r].user /\ req'[r].role = req[r].role /\ req'[r].grant = req[r].grant
              /\ req'[r].token = req[r].token /\ req'[r].changes = req[r].changes
              /\ req'[r].status = req[r].status
         /\ End(r) => req'[r].at = "done" /\ req'[r].token = Nothing
BY DEF TypeOK, Request, Set, At, End, NewRequest

(* How the requests begin.                                                 *)
LEMMA Beginnings ==
  ASSUME TypeOK, NEW r \in Requests
  PROVE  /\ StartLogin(r) => req'[r].at = "counting" /\ req'[r].token = Nothing
         /\ StartRefresh(r) => req'[r].at = "taking" /\ \E x \in issued : req'[r].token = x.token
         /\ StartLogout(r) => req'[r].at = "leaving" /\ \E x \in issued : req'[r].token = x.token
         /\ StartCreateUser(r) =>
              /\ req'[r].at = "inserting" /\ req'[r].token = Nothing
              /\ status[req'[r].user] = "none"
              /\ req'[r].role \in Offered /\ req'[r].grant = Body(req'[r].role)
         /\ StartUpdateUser(r) =>
              /\ req'[r].at = "updating" /\ req'[r].token = Nothing
              /\ req'[r].role \in Offered /\ req'[r].grant = Body(req'[r].role)
         /\ StartDeleteUser(r) => req'[r].at = "deleting" /\ req'[r].token = Nothing
         /\ StartUpdateRole(r) => req'[r].at = "saving" /\ req'[r].token = Nothing
         /\ StartDeleteRole(r) => req'[r].at = "binding" /\ req'[r].token = Nothing
<1>1. \A q : Set(r, q) => req'[r] = q
  BY Moves
<1>2. StartLogin(r) => req'[r].at = "counting" /\ req'[r].token = Nothing
  BY <1>1 DEF StartLogin, NewRequest
<1>3. StartRefresh(r) => req'[r].at = "taking" /\ \E x \in issued : req'[r].token = x.token
  BY <1>1 DEF StartRefresh, NewRequest
<1>4. StartLogout(r) => req'[r].at = "leaving" /\ \E x \in issued : req'[r].token = x.token
  BY <1>1 DEF StartLogout, NewRequest
<1>5. ASSUME StartCreateUser(r)
      PROVE  /\ req'[r].at = "inserting" /\ req'[r].token = Nothing
             /\ status[req'[r].user] = "none"
             /\ req'[r].role \in Offered /\ req'[r].grant = Body(req'[r].role)
  <2>1. PICK u \in Users, x \in Offered :
          /\ status[u] = "none"
          /\ req'[r] = [NewRequest EXCEPT !.at = "inserting", !.user = u, !.role = x, !.grant = Body(x)]
    BY <1>1, <1>5 DEF StartCreateUser
  <2> QED BY <2>1 DEF NewRequest
<1>6. ASSUME StartUpdateUser(r)
      PROVE  /\ req'[r].at = "updating" /\ req'[r].token = Nothing
             /\ req'[r].role \in Offered /\ req'[r].grant = Body(req'[r].role)
  <2>1. PICK u \in Users, x \in Offered, s \in {"active", "disabled"} :
          req'[r] = [NewRequest EXCEPT !.at = "updating", !.user = u, !.role = x, !.grant = Body(x),
                                       !.status = s]
    BY <1>1, <1>6 DEF StartUpdateUser
  <2> QED BY <2>1 DEF NewRequest
<1>7. StartDeleteUser(r) => req'[r].at = "deleting" /\ req'[r].token = Nothing
  BY <1>1 DEF StartDeleteUser, NewRequest
<1>8. StartUpdateRole(r) => req'[r].at = "saving" /\ req'[r].token = Nothing
  BY <1>1 DEF StartUpdateRole, NewRequest
<1>9. StartDeleteRole(r) => req'[r].at = "binding" /\ req'[r].token = Nothing
  BY <1>1 DEF StartDeleteRole, NewRequest
<1> QED
  BY <1>2, <1>3, <1>4, <1>5, <1>6, <1>7, <1>8, <1>9

LEMMA Taking ==
  ASSUME TypeOK, NEW r \in Requests, TakeSession(r)
  PROVE  /\ req[r].at = "taking" /\ issued' = issued /\ req'[r].at \in {"reading", "done"}
         /\ sessions' = sessions \ {s \in sessions : s.token = req[r].token}
         /\ req'[r].at = "done" => req'[r].token = Nothing
         /\ req'[r].at = "reading" =>
              \E s \in sessions :
                /\ s.token = req[r].token /\ req'[r].token = req[r].token
                /\ req'[r].user = s.user /\ req'[r].changes = s.changes
<1> DEFINE found == {s \in sessions : s.token = req[r].token}
<1>1. /\ req[r].at = "taking" /\ issued' = issued /\ sessions' = sessions \ found
      /\ \/ End(r)
         \/ \E s \in found : Set(r, [req[r] EXCEPT !.at = "reading", !.user = s.user, !.changes = s.changes])
  BY DEF TakeSession
<1>2. ASSUME NEW s \in found,
             Set(r, [req[r] EXCEPT !.at = "reading", !.user = s.user, !.changes = s.changes])
      PROVE  /\ req'[r].at = "reading" /\ req'[r].token = req[r].token
             /\ req'[r].user = s.user /\ req'[r].changes = s.changes
  <2>1. req'[r] = [req[r] EXCEPT !.at = "reading", !.user = s.user, !.changes = s.changes]
    BY <1>2, Moves
  <2>2. req[r] \in Request
    BY DEF TypeOK
  <2> QED BY <2>1, <2>2 DEF Request
<1> QED
  BY <1>1, <1>2, Moves

LEMMA Verifying ==
  ASSUME TypeOK, NEW r \in Requests, Verify(r)
  PROVE  /\ req[r].at = "verifying" /\ req'[r].at \in {"clearing", "incrementing"}
         /\ req'[r].token = req[r].token /\ req'[r].user = req[r].user
         /\ req'[r].at = "clearing" =>
              status[req[r].user] = "active" /\ req'[r].changes = changes[req[r].user]
         /\ UNCHANGED <<accounts, tokens>>
<1> DEFINE q == [req[r] EXCEPT !.at = "clearing", !.changes = changes[req[r].user]]
<1>1. /\ req[r].at = "verifying" /\ UNCHANGED <<accounts, tokens>>
      /\ (status[req[r].user] = "active" /\ Set(r, q)) \/ At(r, "incrementing")
  BY DEF Verify
<1>2. ASSUME Set(r, q)
      PROVE  /\ req'[r].at = "clearing" /\ req'[r].changes = changes[req[r].user]
             /\ req'[r].token = req[r].token /\ req'[r].user = req[r].user
  <2>1. req'[r] = q
    BY <1>2, Moves
  <2>2. req[r] \in Request
    BY DEF TypeOK
  <2> QED BY <2>1, <2>2 DEF Request
<1> HIDE DEF q
<1>3. At(r, "incrementing") =>
        /\ req'[r].at = "incrementing" /\ req'[r].token = req[r].token /\ req'[r].user = req[r].user
  BY Moves
<1> QED
  BY <1>1, <1>2, <1>3

(* What a step of r may do to the tokens without a closer look: sessions   *)
(* go, and r sends a token that was issued.                                *)
LEMMA Unused ==
  ASSUME TypeOK, TokensInv, NEW r \in Requests, req[r].at # "done",
         \A q \in Requests : q # r => req'[q] = req[q],
         sessions' \subseteq sessions, issued' = issued,
         Refreshing(r)' => Refreshing(r) /\ req'[r].token = req[r].token,
         req'[r].token # Nothing =>
           /\ req'[r].at \in {"taking", "leaving", "reading", "issuing"}
           /\ req'[r].token = req[r].token \/ \E x \in issued : x.token = req'[r].token
  PROVE  TokensInv'
<1> USE DEF TypeOK, TokensInv, Tokens, Session
<1>0. \A q \in Requests : req[q].token \in Requests \union {Nothing}
  BY DEF Request
<1>1. \A q \in Requests : req[q].at = "done" => req'[q].at = "done"
  OBVIOUS
<1>2. \A s \in sessions' : s \in sessions /\ s.token \in Requests
  OBVIOUS
<1>3. \A x \in issued' : x.token \in Requests /\ (x.from # Nothing => x.from \in Requests)
  OBVIOUS
<1>4. \A q \in Requests : Refreshing(q)' => Refreshing(q) /\ req'[q].token = req[q].token
  BY DEF Refreshing
<1>5. \A q \in Requests : req'[q].token # Nothing =>
        req'[q].at \in {"taking", "leaving", "reading", "issuing"} /\ req'[req'[q].token].at = "done"
  BY <1>0, <1>1, <1>3
<1>6. (\A q \in Requests : Refreshing(q) =>
         /\ \A s \in sessions : s.token # req[q].token
         /\ \A x \in issued : x.from # req[q].token
         /\ \A p \in Requests : Refreshing(p) /\ req[p].token = req[q].token => p = q)'
  BY <1>4
<1>7. TokensAreSingle'
  BY DEF TokensAreSingle
<1> QED
  BY <1>1, <1>2, <1>3, <1>5, <1>6, <1>7

LEMMA TokensStep ==
  ASSUME TypeOK, TokensInv, NEW r \in Requests, Begin(r) \/ Step(r) \/ Crash(r)
  PROVE  TokensInv'
<1>0. /\ req[r].at # "done" /\ req[r] \in Request
      /\ \A q \in Requests : q # r => req'[q] = req[q]
  BY Frame DEF TypeOK
<1>1. CASE IssueTokens(r)
  <2> DEFINE s == [token |-> r, user |-> req[r].user, changes |-> req[r].changes]
             x == [token |-> r, from |-> req[r].token]
  <2> USE DEF TokensInv
  <2>1. sessions' = sessions \union {s} /\ issued' = issued \union {x}
    BY <1>1 DEF IssueTokens
  <2>2. req'[r].at = "done" /\ req'[r].token = Nothing /\ req[r].at = "issuing"
    BY <1>1 DEF IssueTokens, End, Set, TypeOK, NewRequest
  <2>3. \A q \in Requests : req[q].token \in Requests \union {Nothing}
    BY DEF TypeOK, Request, Tokens
  <2>4. /\ \A y \in issued : y.token \in Requests /\ (y.from # Nothing => y.from \in Requests)
        /\ \A y \in sessions : y.token \in Requests
    BY DEF TypeOK, Tokens, Session
  <2>5. \A q \in Requests : req[q].at = "done" => req'[q].at = "done" /\ q # r
    BY <1>0, <2>2
  <2>6. \A q \in Requests : Refreshing(q)' => Refreshing(q) /\ req'[q].token = req[q].token /\ q # r
    BY <1>0, <2>2 DEF Refreshing
  <2>7. s.token = r /\ x.token = r /\ x.from = req[r].token
    OBVIOUS
  <2> HIDE DEF s, x
  <2>8. /\ \A y \in sessions' : req'[y.token].at = "done"
        /\ \A y \in issued' : req'[y.token].at = "done" /\ (y.from # Nothing => req'[y.from].at = "done")
    BY <2>1, <2>2, <2>3, <2>4, <2>5, <2>7
  <2>9. \A q \in Requests : req'[q].token # Nothing =>
          req'[q].at \in {"taking", "leaving", "reading", "issuing"} /\ req'[req'[q].token].at = "done"
    BY <1>0, <2>2, <2>3, <2>5
  <2>10. \A q \in Requests : Refreshing(q)' =>
           /\ \A y \in sessions' : y.token # req'[q].token
           /\ \A y \in issued' : y.from # req'[q].token
           /\ \A p \in Requests : Refreshing(p)' /\ req'[p].token = req'[q].token => p = q
    <3> TAKE q \in Requests
    <3> HAVE Refreshing(q)'
    <3>1. Refreshing(q) /\ req'[q].token = req[q].token /\ q # r /\ req[req[q].token].at = "done"
      BY <2>6 DEF Refreshing
    <3>2. req[q].token # r
      BY <3>1, <2>2
    <3>3. req[q].token # req[r].token
      BY <3>1, <2>2 DEF Refreshing
    <3> QED BY <2>1, <2>6, <2>7, <3>1, <3>2, <3>3
  <2>11. \A y \in issued' : y.from # Nothing => \A z \in sessions' : z.token # y.from
    <3>1. \A y \in issued : y.from # Nothing => y.from # r
      BY <2>2
    <3>2. req[r].token # Nothing => Refreshing(r) /\ req[r].token # r
      BY <2>2 DEF Refreshing
    <3> QED BY <2>1, <2>7, <3>1, <3>2
  <2>12. TokensAreSingle'
    <3>1. \A y \in issued : y.from # Nothing => y.from # x.from
      BY <2>2, <2>7 DEF Refreshing
    <3> QED BY <2>1, <3>1 DEF TokensAreSingle
  <2> QED BY <2>8, <2>9, <2>10, <2>11, <2>12
<1>2. CASE TakeSession(r) /\ Refreshing(r)'
  <2> DEFINE t == req[r].token
             found == {s \in sessions : s.token = t}
  <2>1. req'[r].at = "reading"
    BY <1>2, Taking DEF Refreshing
  <2>2. /\ sessions' = sessions \ found /\ issued' = issued /\ req[r].at = "taking"
        /\ req'[r].at = "reading" /\ req'[r].token = t /\ found # {}
    BY <1>2, <2>1, Taking
  <2> USE DEF TokensInv
  <2>3. t # Nothing /\ t \in Requests /\ req[t].at = "done" /\ ~Refreshing(r)
    BY <1>0, <1>2, <2>2 DEF Refreshing, Request, Tokens
  <2>4. \A q \in Requests : Refreshing(q) => req[q].token # t
    BY <2>2
  <2>5. \A q \in Requests : q # r => (Refreshing(q)' <=> Refreshing(q))
    BY <1>0 DEF Refreshing
  <2>6. \A q \in Requests : req[q].token \in Requests \union {Nothing}
    BY DEF TypeOK, Request, Tokens
  <2>7. /\ \A y \in issued : y.token \in Requests /\ (y.from # Nothing => y.from \in Requests)
        /\ \A y \in sessions : y.token \in Requests
    BY DEF TypeOK, Tokens, Session
  <2>8. \A q \in Requests : req[q].at = "done" => req'[q].at = "done"
    BY <1>0
  <2>9. \A x \in issued : x.from # t
    BY <2>2, <2>3
  <2> HIDE DEF t
  <2>10. /\ \A y \in sessions' : req'[y.token].at = "done"
         /\ \A y \in issued' : req'[y.token].at = "done" /\ (y.from # Nothing => req'[y.from].at = "done")
         /\ \A y \in issued' : y.from # Nothing => \A z \in sessions' : z.token # y.from
    BY <2>2, <2>7, <2>8
  <2>11. \A q \in Requests : req'[q].token # Nothing =>
           req'[q].at \in {"taking", "leaving", "reading", "issuing"} /\ req'[req'[q].token].at = "done"
    BY <1>0, <2>2, <2>3, <2>6, <2>8
  <2>12. \A q \in Requests : Refreshing(q)' =>
           /\ \A y \in sessions' : y.token # req'[q].token
           /\ \A y \in issued' : y.from # req'[q].token
           /\ \A p \in Requests : Refreshing(p)' /\ req'[p].token = req'[q].token => p = q
    <3> TAKE q \in Requests
    <3> HAVE Refreshing(q)'
    <3>1. CASE q = r
      <4>1. \A y \in sessions' : y.token # t
        BY <2>2
      <4>2. \A p \in Requests : Refreshing(p)' /\ req'[p].token = t => p = r
        BY <1>0, <2>4, <2>5
      <4> QED BY <3>1, <4>1, <4>2, <2>2, <2>9
    <3>2. CASE q # r
      <4>1. Refreshing(q) /\ req'[q] = req[q] /\ req[q].token # t
        BY <3>2, <1>0, <2>4, <2>5
      <4> QED BY <4>1, <1>0, <2>2, <2>5
    <3> QED BY <3>1, <3>2
  <2>13. TokensAreSingle'
    BY <2>2 DEF TokensAreSingle
  <2> QED BY <2>10, <2>11, <2>12, <2>13
<1>3. CASE ~IssueTokens(r) /\ ~(TakeSession(r) /\ Refreshing(r)')
  <2> SUFFICES /\ sessions' \subseteq sessions /\ issued' = issued
               /\ Refreshing(r)' => Refreshing(r) /\ req'[r].token = req[r].token
               /\ req'[r].token # Nothing =>
                    /\ req'[r].at \in {"taking", "leaving", "reading", "issuing"}
                    /\ req'[r].token = req[r].token \/ \E x \in issued : x.token = req'[r].token
    BY <1>0, Unused
  <2> USE <1>0, <1>3, Moves DEF tokens
  <2>0. req[r].token # Nothing => req[r].at \in {"taking", "leaving", "reading", "issuing"}
    BY DEF TokensInv
  <2>1. CASE StartRefresh(r) \/ StartLogout(r)
    BY <2>1, Beginnings DEF StartRefresh, StartLogout, Start, Refreshing
  <2>2. CASE StartLogin(r) \/ StartCreateUser(r) \/ StartUpdateUser(r) \/ StartDeleteUser(r)
    BY <2>2, Beginnings DEF StartLogin, StartCreateUser, StartUpdateUser, StartDeleteUser, Start, Refreshing
  <2>3. CASE StartUpdateRole(r) \/ StartDeleteRole(r)
    BY <2>3, Beginnings DEF StartUpdateRole, StartDeleteRole, Start, Refreshing
  <2>4. CASE Verify(r)
    BY <2>0, <2>4, Verifying DEF Refreshing
  <2>5. CASE TakeSession(r)
    BY <2>5, Taking DEF Refreshing
  <2>6. CASE ReadUser(r)
    BY <2>0, <2>6 DEF ReadUser, Refreshing
  <2>7. CASE CountFailures(r) \/ Increment(r) \/ ClearFailures(r) \/ UpdateUser(r) \/ DeleteUser(r)
    <3>1. req[r].token = Nothing
      BY <2>0, <2>7 DEF CountFailures, Increment, ClearFailures, UpdateUser, DeleteUser
    <3>2. req'[r].token = Nothing
      BY <2>7, <3>1 DEF CountFailures, Increment, ClearFailures, UpdateUser, DeleteUser
    <3> QED BY <2>7, <3>2 DEF CountFailures, Increment, ClearFailures, UpdateUser, DeleteUser, Refreshing
  <2>8. CASE SaveRole(r) \/ FindBoundUsers(r)
    <3>1. req[r].token = Nothing
      BY <2>0, <2>8 DEF SaveRole, FindBoundUsers
    <3>2. req'[r].token = Nothing
      BY <2>8, <3>1 DEF SaveRole, FindBoundUsers
    <3> QED BY <2>8, <3>2 DEF SaveRole, FindBoundUsers, Refreshing
  <2>9. CASE \/ SetExpiry(r) \/ Logout(r) \/ InsertUser(r) \/ RevokeSessions(r) \/ CreateTemplate(r)
              \/ SpreadRole(r) \/ DropRole(r) \/ Crash(r)
    BY <2>9 DEF SetExpiry, Logout, InsertUser, RevokeSessions, CreateTemplate, SpreadRole, DropRole, Crash,
       Refreshing
  <2> QED
    BY <1>3, <2>1, <2>2, <2>3, <2>4, <2>5, <2>6, <2>7, <2>8, <2>9 DEF Begin, Step
<1> QED
  BY <1>1, <1>2, <1>3

LEMMA TokensInvariant == Spec => []TokensInv
<1>1. Init => TokensInv
  BY DEF Init, TokensInv, NewRequest, Refreshing, TokensAreSingle
<1>2. TypeOK /\ TokensInv /\ [Next]_vars => TokensInv'
  <2> SUFFICES ASSUME TypeOK, TokensInv, [Next]_vars PROVE TokensInv'
    OBVIOUS
  <2>1. CASE (\E u \in Users : Expire(u)) \/ UNCHANGED vars
    <3>1. UNCHANGED <<req, sessions, issued>>
      BY <2>1 DEF Expire, vars, tokens
    <3> QED BY <3>1 DEF TokensInv, Refreshing, TokensAreSingle
  <2> QED
    BY <2>1, TokensStep DEF Next
<1> QED
  BY <1>1, <1>2, TypeCorrect, PTL DEF Spec

-----------------------------------------------------------------------------
(* One request after the other, and none ends half-way.                    *)
Serial == events \intersect {"together", "crash"} = {}

OneIsBusy == \A q, r \in Requests : Busy(q) /\ Busy(r) => q = r

LEMMA OnlyOneIsBusy ==
  ASSUME TypeOK, Serial, OneIsBusy, NEW r \in Requests, Begin(r) \/ Step(r) \/ Crash(r)
  PROVE  /\ OneIsBusy' /\ (Begin(r) \/ Step(r))
         /\ \A q \in Requests : q # r => req'[q] = req[q] /\ req[q].at \in {"idle", "done"}
<1>1. ~Crash(r)
  BY DEF Crash, Serial
<1>2. CASE Begin(r)
  <2>1. Quiet
    BY <1>2 DEF Begin, Serial, StartLogin, StartRefresh, StartLogout, StartCreateUser, StartUpdateUser,
       StartDeleteUser, CreateTemplate, StartUpdateRole, StartDeleteRole, Start
  <2> QED BY <1>2, <2>1, Frame DEF Quiet, Busy, OneIsBusy
<1>3. CASE Step(r)
  <2>1. Busy(r)
    BY <1>3 DEF Busy, Step, CountFailures, Verify, Increment, SetExpiry, ClearFailures, IssueTokens,
       TakeSession, ReadUser, Logout, InsertUser, UpdateUser, DeleteUser, RevokeSessions, SaveRole,
       SpreadRole, FindBoundUsers, DropRole
  <2> QED BY <1>3, <2>1, Frame DEF Busy, OneIsBusy
<1> QED
  BY <1>1, <1>2, <1>3

Current(u, n) == status[u] = "active" /\ n = changes[u]

(* A session that is not current is one that is about to be revoked, a     *)
(* login or refresh knows the user as it is, and no role is changed.       *)
CurrentFacts ==
  /\ OneIsBusy
  /\ \A s \in sessions :
       Current(s.user, s.changes) \/ \E r \in Requests : req[r].at = "revoking" /\ req[r].user = s.user
  /\ \A r \in Requests :
       /\ req[r].at \in {"clearing", "reading", "issuing"} => Current(req[r].user, req[r].changes)
       /\ req[r].at = "inserting" => status[req[r].user] = "none"
       /\ req[r].at \notin {"saving", "spreading"}

RolesStay == "roles" \notin events

CurrentInv == Serial /\ RolesStay => CurrentFacts

(* What holds after a step of r, when nothing else is going on.            *)
CurrentAt(r) ==
  /\ \A s \in sessions :
       Current(s.user, s.changes) \/ (req[r].at = "revoking" /\ req[r].user = s.user)
  /\ req[r].at \in {"clearing", "reading", "issuing"} => Current(req[r].user, req[r].changes)
  /\ req[r].at = "inserting" => status[req[r].user] = "none"
  /\ req[r].at \notin {"saving", "spreading"}

LEMMA CurrentStep ==
  ASSUME TypeInv, CurrentFacts, RolesStay, NEW r \in Requests, Begin(r) \/ Step(r),
         \A q \in Requests : q # r => req[q].at \in {"idle", "done"}
  PROVE  CurrentAt(r)'
<1>0. /\ TypeOK /\ CurrentAt(r)
      /\ req[r].at \in UserSteps => req[r].user \in Users
      /\ \A s \in sessions : s.user \in Users
  BY DEF TypeInv, TypeOK, StepsAreEquipped, Equipped, CurrentFacts, CurrentAt, Session
<1> USE <1>0 DEF accounts, tokens, CurrentAt, Current
<1>1. CASE Begin(r)
  <2>1. /\ UNCHANGED <<sessions, status, changes>> /\ req[r].at = "idle"
        /\ req'[r].at \notin {"clearing", "reading", "issuing", "saving", "spreading"}
        /\ req'[r].at = "inserting" => StartCreateUser(r)
    <3>1. ~CreateTemplate(r) /\ ~StartUpdateRole(r) /\ ~StartDeleteRole(r)
      BY DEF CreateTemplate, StartUpdateRole, StartDeleteRole, Start, RolesStay
    <3>2. CASE StartLogin(r) \/ StartRefresh(r) \/ StartLogout(r)
      BY <3>2, Beginnings DEF Start, StartLogin, StartRefresh, StartLogout
    <3>3. CASE StartCreateUser(r) \/ StartUpdateUser(r) \/ StartDeleteUser(r)
      BY <3>3, Beginnings DEF Start, StartCreateUser, StartUpdateUser, StartDeleteUser
    <3> QED BY <1>1, <3>1, <3>2, <3>3 DEF Begin
  <2> QED BY <2>1, Beginnings
<1>2. CASE Verify(r)
  BY <1>2, Verifying
<1>3. CASE TakeSession(r)
  <2>1. UNCHANGED <<status, changes>> /\ sessions' \subseteq sessions
    BY <1>3, Taking DEF TakeSession
  <2> QED BY <1>3, <2>1, Taking
<1>4. CASE ReadUser(r) \/ ClearFailures(r)
  <2>1. /\ UNCHANGED <<sessions, status, changes>> /\ req[r].at \in {"reading", "clearing"}
        /\ \/ req'[r].at = "done"
           \/ /\ req'[r].at = "issuing" /\ req'[r].user = req[r].user /\ req'[r].changes = req[r].changes
    BY <1>4, Moves DEF ReadUser, ClearFailures
  <2> QED BY <2>1
<1>5. CASE IssueTokens(r)
  <2>1. /\ UNCHANGED <<status, changes>> /\ req[r].at = "issuing" /\ req'[r].at = "done"
        /\ sessions' = sessions \union {[token |-> r, user |-> req[r].user, changes |-> req[r].changes]}
    BY <1>5, Moves DEF IssueTokens
  <2> QED BY <2>1
<1>6. CASE InsertUser(r)
  <2>1. /\ req[r].at = "inserting" /\ req'[r].at = "done" /\ req[r].user \in Users
        /\ status' = [status EXCEPT ![req[r].user] = "active"] /\ UNCHANGED <<sessions, changes>>
    BY <1>6, Moves DEF InsertUser, UserSteps
  <2>2. \A v \in Users : v # req[r].user => status'[v] = status[v]
    BY <2>1 DEF TypeOK
  <2>3. \A s \in sessions : s.user # req[r].user
    BY <2>1
  <2> QED BY <2>1, <2>2, <2>3
<1>7. CASE UpdateUser(r)
  <2> DEFINE u == req[r].user
  <2>1. /\ req[r].at = "updating" /\ req'[r].at = "revoking" /\ req'[r].user = u /\ u \in Users
        /\ sessions' = sessions
    BY <1>7, Moves DEF UpdateUser, UserSteps
  <2>2. \A v \in Users : v # u => status'[v] = status[v] /\ changes'[v] = changes[v]
    <3>1. CASE There(u)
      BY <1>7, <3>1 DEF UpdateUser, TypeOK
    <3>2. CASE ~There(u)
      BY <1>7, <3>2 DEF UpdateUser
    <3> QED BY <3>1, <3>2
  <2> QED BY <2>1, <2>2
<1>8. CASE DeleteUser(r)
  <2> DEFINE u == req[r].user
  <2>1. /\ req[r].at = "deleting" /\ req'[r].at = "revoking" /\ req'[r].user = u /\ u \in Users
        /\ status' = [status EXCEPT ![u] = "deleted"] /\ UNCHANGED <<sessions, changes>>
    BY <1>8, Moves DEF DeleteUser, UserSteps
  <2>2. \A v \in Users : v # u => status'[v] = status[v]
    BY <2>1 DEF TypeOK
  <2> QED BY <2>1, <2>2
<1>9. CASE RevokeSessions(r)
  BY <1>9, Moves DEF RevokeSessions
<1>10. CASE CountFailures(r) \/ Increment(r) \/ SetExpiry(r) \/ Logout(r)
  <2>1. /\ UNCHANGED <<status, changes>> /\ sessions' \subseteq sessions /\ req[r].at # "revoking"
        /\ req'[r].at \in {"verifying", "expiring", "done"}
    <3>1. CASE CountFailures(r) \/ Increment(r)
      BY <3>1, Moves DEF CountFailures, Increment
    <3>2. CASE SetExpiry(r) \/ Logout(r)
      BY <3>2, Moves DEF SetExpiry, Logout
    <3> QED BY <1>10, <3>1, <3>2
  <2> QED BY <2>1
<1>11. ~SaveRole(r) /\ ~SpreadRole(r)
  BY DEF SaveRole, SpreadRole
<1>12. CASE FindBoundUsers(r) \/ DropRole(r)
  <2>1. /\ UNCHANGED <<status, changes, sessions>> /\ req[r].at # "revoking"
        /\ req'[r].at \in {"dropping", "done"}
    BY <1>12, Moves DEF FindBoundUsers, DropRole
  <2> QED BY <2>1
<1> QED
  BY <1>1, <1>2, <1>3, <1>4, <1>5, <1>6, <1>7, <1>8, <1>9, <1>10, <1>11, <1>12 DEF Step

LEMMA CurrentInvariant == Spec => []CurrentInv
<1>1. Init => CurrentInv
  BY DEF Init, NewRequest, CurrentInv, CurrentFacts, OneIsBusy, Busy
<1>2. TypeInv /\ CurrentInv /\ [Next]_vars => CurrentInv'
  <2> SUFFICES ASSUME TypeInv, CurrentInv, [Next]_vars, Serial', RolesStay' PROVE CurrentFacts'
    BY DEF CurrentInv
  <2>0. TypeOK
    BY DEF TypeInv
  <2>1. CASE (\E u \in Users : Expire(u)) \/ UNCHANGED vars
    <3>1. UNCHANGED <<events, req, sessions, status, changes>>
      BY <2>1 DEF Expire, vars, tokens, accounts
    <3> QED BY <3>1 DEF CurrentInv, CurrentFacts, Serial, RolesStay, Current, OneIsBusy, Busy
  <2>2. ASSUME NEW r \in Requests, Begin(r) \/ Step(r) \/ Crash(r) PROVE CurrentFacts'
    <3>1. Serial /\ RolesStay /\ CurrentFacts /\ OneIsBusy
      BY <2>0, <2>2, Frame DEF CurrentInv, Serial, RolesStay, CurrentFacts
    <3>2. /\ OneIsBusy' /\ (Begin(r) \/ Step(r))
          /\ \A q \in Requests : q # r => req'[q] = req[q] /\ req[q].at \in {"idle", "done"}
      BY <2>0, <2>2, <3>1, OnlyOneIsBusy
    <3>3. CurrentAt(r)'
      BY <3>1, <3>2, CurrentStep
    <3>4. \A q \in Requests : q # r => req'[q].at \in {"idle", "done"}
      BY <3>2
    <3>5. \A q \in Requests :
            /\ req'[q].at \in {"clearing", "reading", "issuing"} => Current(req[q].user, req[q].changes)'
            /\ req'[q].at = "inserting" => status'[req'[q].user] = "none"
            /\ req'[q].at \notin {"saving", "spreading"}
      BY <3>3, <3>4 DEF CurrentAt
    <3> QED BY <3>2, <3>3, <3>5 DEF CurrentAt, CurrentFacts
  <2> QED
    BY <2>1, <2>2 DEF Next
<1> QED
  BY <1>1, <1>2, TypeInvariant, PTL DEF Spec

(* A refresh token is exchanged at most once, however requests overlap,    *)
(* end half-way or repeat it; and where requests come one after the other  *)
(* and no role is changed, every session is of an active user that, with   *)
(* its permissions, is as its login saw it.                                *)
THEOREM SessionsHold == Spec => []SessionsAreCurrent
<1>1. TypeOK /\ TokensInv /\ CurrentInv => SessionsAreCurrent
  BY DEF TokensInv, CurrentInv, CurrentFacts, SessionsAreCurrent, ChangedUsersHaveNoSession, Serial,
         RolesStay, Quiet, Busy, Current
<1> QED
  BY <1>1, TypeCorrect, TokensInvariant, CurrentInvariant, PTL

-----------------------------------------------------------------------------
(* The permissions of a role are also those that a form of a user shows,   *)
(* unless a preset role is changed beside the users.                       *)
FormsAreExact(x) == x \in Templates \/ ~({"users", "roles"} \subseteq events)

GrantFacts ==
  /\ OneIsBusy
  /\ "roles" \notin events => \A x \in Fixed : granted[x] = preset[x]
  /\ \A x \in Fixed : granted[x] # NoGrant
  /\ \A u \in Users : There(u) =>
       /\ granted[role[u]] # NoGrant /\ role[u] \notin disabled
       /\ FormsAreExact(role[u]) =>
            \/ grant[u] = granted[role[u]]
            \/ \E r \in Requests : req[r].at = "spreading" /\ req[r].role = role[u]
  /\ \A r \in Requests :
       /\ req[r].at \in {"inserting", "updating"} =>
            /\ "users" \in events
            /\ granted[req[r].role] # NoGrant /\ req[r].role \notin disabled
            /\ FormsAreExact(req[r].role) => req[r].grant = granted[req[r].role]
       /\ req[r].at \in {"saving", "spreading", "binding", "dropping"} => "roles" \in events
       /\ req[r].at = "spreading" => granted[req[r].role] = req[r].grant
       /\ req[r].at = "dropping" => ~Bound(req[r].role)

GrantInv == Serial => GrantFacts

(* What holds after a step of r, when nothing else is going on.            *)
UserHasGrant(u, r) ==
  There(u) =>
    /\ granted[role[u]] # NoGrant /\ role[u] \notin disabled
    /\ FormsAreExact(role[u]) =>
         grant[u] = granted[role[u]] \/ (req[r].at = "spreading" /\ req[r].role = role[u])

RequestHasGrant(r) ==
  /\ req[r].at \in {"inserting", "updating"} =>
       /\ "users" \in events
       /\ granted[req[r].role] # NoGrant /\ req[r].role \notin disabled
       /\ FormsAreExact(req[r].role) => req[r].grant = granted[req[r].role]
  /\ req[r].at \in {"saving", "spreading", "binding", "dropping"} => "roles" \in events
  /\ req[r].at = "spreading" => granted[req[r].role] = req[r].grant
  /\ req[r].at = "dropping" => ~Bound(req[r].role)

PresetsHold ==
  /\ "roles" \notin events => \A x \in Fixed : granted[x] = preset[x]
  /\ \A x \in Fixed : granted[x] # NoGrant

LEMMA GrantStep ==
  ASSUME TypeInv, GrantFacts, NEW r \in Requests, Begin(r) \/ Step(r),
         \A q \in Requests : q # r => req[q].at \in {"idle", "done"}
  PROVE  PresetsHold' /\ RequestHasGrant(r)' /\ \A u \in Users : UserHasGrant(u, r)'
<1>0. /\ TypeOK /\ PresetsHold /\ RequestHasGrant(r) /\ \A u \in Users : UserHasGrant(u, r)
      /\ req[r].at \in UserSteps => req[r].user \in Users
      /\ req[r].at \in RoleSteps => req[r].role \in Roles
      /\ req[r].at \in GrantSteps => req[r].grant \in Grants
      /\ \A u \in Users : role[u] \in Roles
      /\ events' = events
  <2>1. TypeOK /\ Equipped(req[r]) /\ events' = events
    BY Frame DEF TypeInv, StepsAreEquipped
  <2>2. PresetsHold /\ RequestHasGrant(r)
    BY DEF GrantFacts, PresetsHold, RequestHasGrant
  <2>3. \A u \in Users : UserHasGrant(u, r)
    BY DEF GrantFacts, UserHasGrant
  <2> QED BY <2>1, <2>2, <2>3 DEF TypeOK, Equipped
<1> USE <1>0 DEF accounts, roles
<1>1. CASE UNCHANGED <<accounts, roles>> /\ req[r].at # "spreading" /\ RequestHasGrant(r)'
  BY <1>1 DEF PresetsHold, UserHasGrant, There, FormsAreExact
<1>2. CASE Begin(r) /\ ~CreateTemplate(r)
  <2>1. UNCHANGED <<accounts, roles>> /\ req[r].at = "idle"
    BY <1>2 DEF Begin, StartLogin, StartRefresh, StartLogout, StartCreateUser, StartUpdateUser,
       StartDeleteUser, StartUpdateRole, StartDeleteRole, Start
  <2>2. CASE StartCreateUser(r) \/ StartUpdateUser(r)
    <3> DEFINE x == req'[r].role
    <3>1. /\ req'[r].at \in {"inserting", "updating"} /\ "users" \in events
          /\ x \in Offered /\ req'[r].grant = Body(x)
      BY <2>2, Beginnings DEF StartCreateUser, StartUpdateUser, Start
    <3>2. granted[x] # NoGrant /\ x \notin disabled /\ x \in Roles
      BY <3>1 DEF Offered
    <3>3. FormsAreExact(x) => Body(x) = granted[x]
      BY <3>1, <3>2, RolesAssumption DEF FormsAreExact, Body, PresetsHold, Roles
    <3>4. RequestHasGrant(r)'
      BY <2>1, <3>1, <3>2, <3>3 DEF RequestHasGrant, FormsAreExact
    <3> QED BY <1>1, <2>1, <3>4
  <2>3. CASE StartUpdateRole(r) \/ StartDeleteRole(r)
    <3>1. req'[r].at \in {"saving", "binding"} /\ "roles" \in events
      BY <2>3, Beginnings DEF StartUpdateRole, StartDeleteRole, Start
    <3> QED BY <1>1, <2>1, <3>1 DEF RequestHasGrant
  <2>4. CASE StartLogin(r) \/ StartRefresh(r) \/ StartLogout(r) \/ StartDeleteUser(r)
    <3>1. req'[r].at \in {"counting", "taking", "leaving", "deleting"}
      BY <2>4, Beginnings
    <3> QED BY <1>1, <2>1, <3>1 DEF RequestHasGrant
  <2> QED BY <1>2, <2>2, <2>3, <2>4 DEF Begin
<1>3. CASE CreateTemplate(r)
  <2>1. PICK x \in Templates, g \in Grants :
          /\ \A u \in Users : role[u] # x
          /\ granted' = [granted EXCEPT ![x] = g]
    BY <1>3 DEF CreateTemplate
  <2>2. /\ "roles" \in events /\ req[r].at = "idle" /\ req'[r].at = "done"
        /\ UNCHANGED <<accounts, preset, disabled>>
    BY <1>3, Moves DEF CreateTemplate
  <2>3. \A y \in Roles : y # x => granted'[y] = granted[y]
    BY <2>1 DEF TypeOK
  <2>4. PresetsHold'
    BY <2>1, <2>2, <2>3, RolesAssumption DEF PresetsHold, Roles
  <2>5. RequestHasGrant(r)'
    BY <2>2 DEF RequestHasGrant
  <2>6. \A u \in Users : UserHasGrant(u, r)'
    BY <2>1, <2>2, <2>3 DEF UserHasGrant, There, FormsAreExact
  <2> QED BY <2>4, <2>5, <2>6
<1>4. CASE InsertUser(r) \/ (UpdateUser(r) /\ There(req[r].user))
  <2>0. req[r].user \in Users /\ req[r].role \in Roles
    BY <1>4 DEF InsertUser, UpdateUser, UserSteps, RoleSteps
  <2> PICK w \in Users, x \in Roles : w = req[r].user /\ x = req[r].role
    BY <2>0
  <2>1. /\ req[r].at \in {"inserting", "updating"} /\ req'[r].at \in {"done", "revoking"} /\ UNCHANGED roles
        /\ role' = [role EXCEPT ![w] = x] /\ grant' = [grant EXCEPT ![w] = req[r].grant]
        /\ \E n : status' = [status EXCEPT ![w] = n]
    BY <1>4, Moves DEF InsertUser, UpdateUser
  <2>3. role'[w] = x /\ grant'[w] = req[r].grant
    BY <2>1 DEF TypeOK
  <2>4. \A u \in Users : u # w => role'[u] = role[u] /\ grant'[u] = grant[u] /\ status'[u] = status[u]
    BY <2>1 DEF TypeOK
  <2>5. PresetsHold' /\ RequestHasGrant(r)'
    BY <2>1 DEF PresetsHold, RequestHasGrant
  <2>6. UserHasGrant(w, r)'
    BY <2>1, <2>3 DEF UserHasGrant, RequestHasGrant, FormsAreExact
  <2>7. \A u \in Users : u # w => UserHasGrant(u, r)'
    BY <2>1, <2>4 DEF UserHasGrant, There, FormsAreExact
  <2> QED BY <2>5, <2>6, <2>7
<1>5. CASE DeleteUser(r)
  <2>1. /\ UNCHANGED <<role, grant, changes, roles>> /\ req[r].at = "deleting" /\ req'[r].at = "revoking"
        /\ status' = [status EXCEPT ![req[r].user] = "deleted"] /\ req[r].user \in Users
    BY <1>5, Moves DEF DeleteUser, UserSteps
  <2>2. \A u \in Users : There(u)' => There(u)
    BY <2>1 DEF There, TypeOK
  <2>3. PresetsHold' /\ RequestHasGrant(r)'
    BY <2>1 DEF PresetsHold, RequestHasGrant
  <2> QED BY <2>1, <2>2, <2>3 DEF UserHasGrant, FormsAreExact
<1>6. CASE SaveRole(r)
  <2> DEFINE x == req[r].role
  <2>1. /\ req[r].at = "saving" /\ UNCHANGED <<accounts, preset>> /\ "roles" \in events
        /\ x \in Roles /\ req[r].grant \in Grants
    BY <1>6 DEF SaveRole, RequestHasGrant, RoleSteps, GrantSteps
  <2>2. CASE granted[x] = NoGrant
    <3>1. UNCHANGED roles /\ req'[r].at = "done"
      BY <1>6, <2>2, Moves DEF SaveRole
    <3>2. RequestHasGrant(r)'
      BY <3>1 DEF RequestHasGrant
    <3> QED BY <1>1, <2>1, <3>1, <3>2
  <2>3. CASE granted[x] # NoGrant
    <3>1. /\ granted' = [granted EXCEPT ![x] = req[r].grant] /\ disabled' = disabled \ {x}
          /\ req'[r].at = "spreading" /\ req'[r].role = x /\ req'[r].grant = req[r].grant
      BY <1>6, <2>3, Moves DEF SaveRole
    <3>2. /\ granted'[x] = req[r].grant /\ granted'[x] # NoGrant
          /\ \A y \in Roles : y # x => granted'[y] = granted[y]
      BY <2>1, <3>1, NoGrantAssumption DEF TypeOK
    <3>3. PresetsHold'
      BY <2>1, <3>2 DEF PresetsHold, Roles
    <3>4. RequestHasGrant(r)'
      BY <2>1, <3>1, <3>2 DEF RequestHasGrant
    <3>5. \A u \in Users : UserHasGrant(u, r)'
      BY <2>1, <3>1, <3>2 DEF UserHasGrant, There, FormsAreExact
    <3> QED BY <3>3, <3>4, <3>5
  <2> QED BY <2>2, <2>3
<1>7. CASE SpreadRole(r)
  <2> DEFINE x == req[r].role
  <2>1. /\ req[r].at = "spreading" /\ UNCHANGED <<status, role, roles>> /\ req'[r].at = "done"
        /\ granted[x] = req[r].grant
    BY <1>7, Moves DEF SpreadRole, RequestHasGrant
  <2>2. \A u \in Users : grant'[u] = IF There(u) /\ role[u] = x THEN req[r].grant ELSE grant[u]
    BY <1>7 DEF SpreadRole
  <2>3. PresetsHold' /\ RequestHasGrant(r)'
    BY <2>1 DEF PresetsHold, RequestHasGrant
  <2>4. \A u \in Users : UserHasGrant(u, r)'
    BY <2>1, <2>2 DEF UserHasGrant, There, FormsAreExact
  <2> QED BY <2>3, <2>4
<1>8. CASE FindBoundUsers(r)
  <2>1. /\ UNCHANGED <<accounts, roles>> /\ req[r].at = "binding"
        /\ req'[r].at = "done" \/ (req'[r].at = "dropping" /\ ~Bound(req'[r].role))
    BY <1>8, Moves DEF FindBoundUsers
  <2>2. RequestHasGrant(r)'
    BY <2>1 DEF RequestHasGrant, Bound, There
  <2> QED BY <1>1, <2>1, <2>2
<1>9. CASE DropRole(r)
  <2> DEFINE x == req[r].role
  <2>1. /\ req[r].at = "dropping" /\ UNCHANGED <<accounts, preset>> /\ req'[r].at = "done"
        /\ \A u \in Users : There(u) => role[u] # x
        /\ x \in Roles
    BY <1>9, Moves DEF DropRole, RequestHasGrant, Bound, RoleSteps
  <2>2. \/ x \in Fixed /\ disabled' = disabled \union {x} /\ granted' = granted
        \/ x \notin Fixed /\ granted' = [granted EXCEPT ![x] = NoGrant] /\ disabled' = disabled
    BY <1>9 DEF DropRole
  <2>3. \A y \in Roles : y # x \/ y \in Fixed => granted'[y] = granted[y]
    BY <2>1, <2>2 DEF TypeOK
  <2>4. \A y \in Roles : y # x => (y \in disabled' <=> y \in disabled)
    BY <2>2
  <2>5. PresetsHold' /\ RequestHasGrant(r)'
    BY <2>1, <2>3 DEF PresetsHold, RequestHasGrant, Roles
  <2>6. \A u \in Users : UserHasGrant(u, r)'
    BY <2>1, <2>3, <2>4 DEF UserHasGrant, There, FormsAreExact
  <2> QED BY <2>5, <2>6
<1>10. CASE UpdateUser(r) /\ ~There(req[r].user)
  <2>1. UNCHANGED <<accounts, roles>> /\ req[r].at = "updating" /\ req'[r].at = "revoking"
    BY <1>10, Moves DEF UpdateUser
  <2> QED BY <1>1, <2>1 DEF RequestHasGrant
<1>11. CASE CountFailures(r) \/ Verify(r) \/ Increment(r) \/ SetExpiry(r) \/ ClearFailures(r)
  <2>1. /\ UNCHANGED <<accounts, roles>> /\ req[r].at # "spreading"
        /\ req'[r].at \in {"verifying", "incrementing", "expiring", "clearing", "issuing", "done"}
    <3>1. CASE CountFailures(r) \/ Increment(r)
      BY <3>1, Moves DEF CountFailures, Increment
    <3>2. CASE Verify(r)
      BY <3>2, Verifying DEF Verify
    <3>3. CASE SetExpiry(r) \/ ClearFailures(r)
      BY <3>3, Moves DEF SetExpiry, ClearFailures
    <3> QED BY <1>11, <3>1, <3>2, <3>3
  <2> QED BY <1>1, <2>1 DEF RequestHasGrant
<1>12. CASE IssueTokens(r) \/ TakeSession(r) \/ ReadUser(r) \/ Logout(r) \/ RevokeSessions(r)
  <2>1. /\ UNCHANGED <<accounts, roles>> /\ req[r].at # "spreading"
        /\ req'[r].at \in {"reading", "issuing", "done"}
    <3>1. CASE TakeSession(r)
      BY <3>1, Taking DEF TakeSession
    <3>2. CASE IssueTokens(r) \/ ReadUser(r) \/ Logout(r) \/ RevokeSessions(r)
      BY <3>2, Moves DEF IssueTokens, ReadUser, Logout, RevokeSessions
    <3> QED BY <1>12, <3>1, <3>2
  <2> QED BY <1>1, <2>1 DEF RequestHasGrant
<1> QED
  BY <1>2, <1>3, <1>4, <1>5, <1>6, <1>7, <1>8, <1>9, <1>10, <1>11, <1>12 DEF Step

LEMMA GrantInvariant == Spec => []GrantInv
<1>1. Init => GrantInv
  <2> SUFFICES ASSUME Init PROVE GrantFacts
    BY DEF GrantInv
  <2>1. /\ \A x \in Fixed : granted[x] = preset[x] /\ granted[x] # NoGrant
        /\ \A r \in Requests : req[r].at = "idle"
        /\ \A u \in Users : granted[role[u]] # NoGrant /\ grant[u] = granted[role[u]]
        /\ disabled = {}
    <3>1. \A x \in Fixed : granted[x] = preset[x] /\ granted[x] # NoGrant
      BY NoGrantAssumption DEF Init, Roles
    <3>2. \A u \in Users : granted[role[u]] # NoGrant /\ grant[u] = granted[role[u]]
      BY DEF Init
    <3> QED BY <3>1, <3>2 DEF Init, NewRequest
  <2> QED BY <2>1 DEF GrantFacts, OneIsBusy, Busy
<1>2. TypeInv /\ GrantInv /\ [Next]_vars => GrantInv'
  <2> SUFFICES ASSUME TypeInv, GrantInv, [Next]_vars, Serial' PROVE GrantFacts'
    BY DEF GrantInv
  <2>0. TypeOK
    BY DEF TypeInv
  <2>1. CASE (\E u \in Users : Expire(u)) \/ UNCHANGED vars
    <3>1. UNCHANGED <<events, req, accounts, roles>>
      BY <2>1 DEF Expire, vars
    <3> QED
      BY <3>1 DEF GrantInv, GrantFacts, Serial, OneIsBusy, Busy, accounts, roles, There, FormsAreExact, Bound
  <2>2. ASSUME NEW r \in Requests, Begin(r) \/ Step(r) \/ Crash(r) PROVE GrantFacts'
    <3>1. Serial /\ GrantFacts /\ OneIsBusy
      BY <2>0, <2>2, Frame DEF GrantInv, Serial, GrantFacts
    <3>2. /\ OneIsBusy' /\ (Begin(r) \/ Step(r))
          /\ \A q \in Requests : q # r => req'[q] = req[q] /\ req[q].at \in {"idle", "done"}
      BY <2>0, <2>2, <3>1, OnlyOneIsBusy
    <3>3. PresetsHold' /\ RequestHasGrant(r)' /\ \A u \in Users : UserHasGrant(u, r)'
      BY <3>1, <3>2, GrantStep
    <3>4. \A q \in Requests : q # r => RequestHasGrant(q)'
      BY <3>2 DEF RequestHasGrant
    <3>5. \A q \in Requests : RequestHasGrant(q)'
      BY <3>3, <3>4
    <3>6. (\A u \in Users : There(u) =>
             /\ granted[role[u]] # NoGrant /\ role[u] \notin disabled
             /\ FormsAreExact(role[u]) =>
                  \/ grant[u] = granted[role[u]]
                  \/ \E q \in Requests : req[q].at = "spreading" /\ req[q].role = role[u])'
      BY <3>3 DEF UserHasGrant
    <3> QED BY <3>2, <3>3, <3>5, <3>6 DEF PresetsHold, RequestHasGrant, GrantFacts
  <2> QED
    BY <2>1, <2>2 DEF Next
<1> QED
  BY <1>1, <1>2, TypeInvariant, PTL DEF Spec

(* Where requests come one after the other, a user has the permissions of  *)
(* a role that is there, whatever was done to users and roles before.      *)
THEOREM GrantsHold == Spec => []GrantsFollowRoles
<1>1. GrantInv => GrantsFollowRoles
  BY DEF GrantInv, GrantFacts, GrantsFollowRoles, Orderly, Serial, Quiet, Busy, FormsAreExact
<1> QED
  BY <1>1, GrantInvariant, PTL
=============================================================================
