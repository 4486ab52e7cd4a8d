----------------------------- MODULE MCAccounts -----------------------------
(* Environments for the model-checking runs of Accounts.                   *)
EXTENDS Accounts, TLC

(* One request after the other.                                            *)
Logins == {"sessions"}
Administration == {"sessions", "users"}
Management == {"users", "roles"}

(* Requests that overlap, or end half-way.                                 *)
LoginsTogether == {"sessions", "together"}
Disturbed == {"sessions", "users", "redis_error", "crash"}
RolesTogether == {"roles", "users", "together"}

EveryEnvironment ==
  {Logins, Administration, Management, LoginsTogether, Disturbed, RolesTogether}

RedisFails == {{"sessions", "redis_error"}}

(* Sessions of users whose role, or who themselves, are changed.           *)
RolesChange == {{"sessions", "roles"}}
UsersChangeTogether == {{"sessions", "users", "together"}}

Symmetry == Permutations(Requests) \union Permutations(Users) \union Permutations(Grants)
=============================================================================
