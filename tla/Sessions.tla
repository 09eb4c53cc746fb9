------------------------------ MODULE Sessions ------------------------------
(***************************************************************************)
(* Accounts and sessions: AuthService.Register, Login, Logout, ParseToken  *)
(* and SeedAdmin, UserService.UpdateStatus, and the process that keeps the *)
(* current token of each user in memory only.  One action is one query or  *)
(* one critical section of one request, with the local code around it.     *)
(*                                                                         *)
(* A login issues at most one token, named after the login; its id carries *)
(* the time in nanoseconds, so no two are equal.  Passwords are not kept:  *)
(* whether one matches is part of the choice of LoginLoad.                 *)
(***************************************************************************)
EXTENDS Naturals

CONSTANTS Names,       \* usernames
          AdminName,   \* ADMIN_USERNAME
          Registers, Logins, Logouts, Changes,   \* requests
          NoAccount, NoToken,
          MaxCrashes   \* bound on the restarts

Roles == {"admin", "teacher", "student"}
Statuses == {"active", "disabled"}
Account == [role : Roles, status : Statuses]
Calls == Logouts \cup Changes
Requests == Registers \cup Logins \cup Calls

ASSUME SessionAssumption ==
    /\ AdminName \in Names
    /\ NoAccount \notin Account
    /\ NoToken \notin Logins
    /\ Registers \cap Logins = {} /\ Registers \cap Calls = {}
    /\ Logins \cap Calls = {}
    /\ Logouts \cap Changes = {}
    /\ MaxCrashes \in Nat

VARIABLES
    phase,      \* of the process: down, seeding (before it listens), serving
    seed,       \* where SeedAdmin stands: find, create
    accounts,   \* table users: the row of a name, or NoAccount
    tokens,     \* AuthService.tokens: the current token of a user
    expired,    \* tokens older than JWT_EXPIRE_HOURS
    pc,         \* of each request
    name,       \* the user it is about: asked for, or in its token
    role,       \* the role asked for, or in its token
    before,     \* logins answered when this login began (history)
    crashes     \* (bound)

vars == <<phase, seed, accounts, tokens, expired, pc, name, role, before, crashes>>

-----------------------------------------------------------------------------
Running == {"create", "store", "act"}
Ended == {"done", "refused", "failed"}

TypeOK == /\ phase \in {"down", "seeding", "serving"}
          /\ seed \in {"find", "create"}
          /\ accounts \in [Names -> Account \cup {NoAccount}]
          /\ tokens \in [Names -> Logins \cup {NoToken}]
          /\ expired \subseteq Logins
          /\ pc \in [Requests -> {"idle"} \cup Running \cup Ended]
          /\ name \in [Requests -> Names]
          /\ role \in [Requests -> Roles]
          /\ before \in [Logins -> SUBSET Logins]
          /\ crashes \in 0..MaxCrashes

\* The first start over an empty table users, or a later one over the
\* accounts registered so far.
Init == /\ phase = "seeding" /\ seed = "find"
        /\ accounts \in [Names -> Account \cup {NoAccount}]
        /\ \A n \in Names : accounts[n] # NoAccount =>
              (accounts[n].role = "admin" <=> n = AdminName)
        /\ tokens = [n \in Names |-> NoToken]
        /\ expired = {}
        /\ pc = [q \in Requests |-> "idle"]
        /\ name = [q \in Requests |-> AdminName]
        /\ role = [q \in Requests |-> "student"]
        /\ before = [l \in Logins |-> {}]
        /\ crashes = 0

Exists(n) == accounts[n] # NoAccount
NewAccount(r) == [role |-> r, status |-> "active"]

Goto(q, to) == pc' = [pc EXCEPT ![q] = to]
\* Request q goes on to `to` with the user n and the role r it has read.
Bind(q, to, n, r) == /\ Goto(q, to)
                     /\ name' = [name EXCEPT ![q] = n]
                     /\ role' = [role EXCEPT ![q] = r]

-----------------------------------------------------------------------------
(* POST /auth/register: students and teachers.                             *)

RegisterFind(q) ==
    /\ phase = "serving" /\ pc[q] = "idle"
    /\ \E n \in Names, r \in Roles \ {"admin"} :
          Bind(q, IF Exists(n) THEN "refused" ELSE "create", n, r)
    /\ UNCHANGED <<phase, seed, accounts, tokens, expired, before, crashes>>

\* Mutant of RegisterCreate: the table has no unique index and the newest row
\* is found.
RegisterCreateUnindexed(q) ==
    /\ pc[q] = "create"
    /\ accounts' = [accounts EXCEPT ![name[q]] = NewAccount(role[q])]
    /\ Goto(q, "done")
    /\ UNCHANGED <<phase, seed, tokens, expired, name, role, before, crashes>>

\* The unique index on username refuses a second account.
RegisterCreate(q) ==
    /\ pc[q] = "create"
    /\ IF Exists(name[q])
       THEN Goto(q, "refused") /\ UNCHANGED accounts
       ELSE /\ accounts' = [accounts EXCEPT ![name[q]] = NewAccount(role[q])]
            /\ Goto(q, "done")
    /\ UNCHANGED <<phase, seed, tokens, expired, name, role, before, crashes>>

-----------------------------------------------------------------------------
(* POST /auth/login                                                        *)

\* The account is read, its status and the password checked, and the token
\* issued with the role read.
LoginLoad(l) ==
    /\ phase = "serving" /\ pc[l] = "idle"
    /\ \E n \in Names :
          \/ /\ Exists(n) /\ accounts[n].status = "active"
             /\ Bind(l, "store", n, accounts[n].role)
          \/ Goto(l, "refused") /\ UNCHANGED <<name, role>>
    /\ before' = [before EXCEPT ![l] = {k \in Logins : pc[k] = "done"}]
    /\ UNCHANGED <<phase, seed, accounts, tokens, expired, crashes>>

\* Mutant of LoginStore: a session in force is kept.
LoginStoreFirst(l) ==
    /\ pc[l] = "store"
    /\ tokens' = [tokens EXCEPT ![name[l]] = IF @ = NoToken THEN l ELSE @]
    /\ Goto(l, "done")
    /\ UNCHANGED <<phase, seed, accounts, expired, name, role, before, crashes>>

LoginStore(l) ==
    /\ pc[l] = "store"
    /\ tokens' = [tokens EXCEPT ![name[l]] = l]
    /\ Goto(l, "done")
    /\ UNCHANGED <<phase, seed, accounts, expired, name, role, before, crashes>>

-----------------------------------------------------------------------------
(* Calls with a token: POST /auth/logout and, for admins, PUT              *)
(* /users/:id/status.                                                      *)

\* Mutant of Accepted: a user the map does not know is let in.
AcceptedUnlessReplaced(l) == /\ pc[l] = "done"
                             /\ tokens[name[l]] \in {l, NoToken}
                             /\ l \notin expired

\* ParseToken: the token of an answered login, current and not too old.
Accepted(l) == /\ pc[l] = "done"
               /\ tokens[name[l]] = l
               /\ l \notin expired

\* The middleware Auth and RequireRole; what follows trusts their result.
Authenticate(c) ==
    /\ phase = "serving" /\ pc[c] = "idle"
    /\ \/ \E l \in Logins : /\ Accepted(l)
                            /\ c \in Changes => role[l] = "admin"
                            /\ Bind(c, "act", name[l], role[l])
       \/ Goto(c, "refused") /\ UNCHANGED <<name, role>>
    /\ UNCHANGED <<phase, seed, accounts, tokens, expired, before, crashes>>

\* Mutant of Logout: the whole map is cleared.
LogoutAll(c) ==
    /\ pc[c] = "act"
    /\ tokens' = [n \in Names |-> NoToken]
    /\ Goto(c, "done")
    /\ UNCHANGED <<phase, seed, accounts, expired, name, role, before, crashes>>

\* Whatever token of the user is current by now is deleted.
Logout(c) ==
    /\ pc[c] = "act"
    /\ tokens' = [tokens EXCEPT ![name[c]] = NoToken]
    /\ Goto(c, "done")
    /\ UNCHANGED <<phase, seed, accounts, expired, name, role, before, crashes>>

\* UpdateUserStatus of any user, the caller included; sessions are kept.
UpdateStatus(c) ==
    /\ pc[c] = "act"
    /\ \E n \in Names, s \in Statuses :
          IF Exists(n)
          THEN /\ accounts' = [accounts EXCEPT ![n].status = s]
               /\ Goto(c, "done")
          ELSE Goto(c, "refused") /\ UNCHANGED accounts
    /\ UNCHANGED <<phase, seed, tokens, expired, name, role, before, crashes>>

\* A query errs or the client goes away; Login's critical section and
\* Logout's have no query left that could.
Fail(q) ==
    /\ phase = "serving"
    /\ pc[q] = "create" \/ (pc[q] = "act" /\ q \in Changes)
    /\ Goto(q, "failed")
    /\ UNCHANGED <<phase, seed, accounts, tokens, expired, name, role, before, crashes>>

-----------------------------------------------------------------------------
(* The process and the clock.                                              *)

Expire(l) ==
    /\ pc[l] = "done"
    /\ expired' = expired \cup {l}
    /\ UNCHANGED <<phase, seed, accounts, tokens, pc, name, role, before, crashes>>

\* The map and the requests in flight are lost; the table stays.
Crash ==
    /\ phase # "down" /\ crashes < MaxCrashes
    /\ phase' = "down"
    /\ tokens' = [n \in Names |-> NoToken]
    /\ pc' = [q \in Requests |-> IF pc[q] \in Running THEN "failed" ELSE pc[q]]
    /\ crashes' = crashes + 1
    /\ UNCHANGED <<seed, accounts, expired, name, role, before>>

\* Mutant of Boot: the server listens before the admin is there.
BootListening ==
    /\ phase = "down"
    /\ phase' = "serving" /\ seed' = "find"
    /\ UNCHANGED <<accounts, tokens, expired, pc, name, role, before, crashes>>

Boot ==
    /\ phase = "down"
    /\ phase' = "seeding" /\ seed' = "find"
    /\ UNCHANGED <<accounts, tokens, expired, pc, name, role, before, crashes>>

\* An error of a query ends the process, which is a Crash.
SeedFind ==
    /\ phase = "seeding" /\ seed = "find"
    /\ IF Exists(AdminName)
       THEN phase' = "serving" /\ UNCHANGED seed
       ELSE seed' = "create" /\ UNCHANGED phase
    /\ UNCHANGED <<accounts, tokens, expired, pc, name, role, before, crashes>>

\* Nobody else writes the table before the server listens.
SeedCreate ==
    /\ phase = "seeding" /\ seed = "create"
    /\ accounts' = [accounts EXCEPT ![AdminName] = NewAccount("admin")]
    /\ phase' = "serving"
    /\ UNCHANGED <<seed, tokens, expired, pc, name, role, before, crashes>>

Next == \/ \E q \in Registers : RegisterFind(q) \/ RegisterCreate(q)
        \/ \E l \in Logins : LoginLoad(l) \/ LoginStore(l) \/ Expire(l)
        \/ \E c \in Calls : Authenticate(c)
        \/ \E c \in Logouts : Logout(c)
        \/ \E c \in Changes : UpdateStatus(c)
        \/ \E q \in Requests : Fail(q)
        \/ Crash \/ Boot \/ SeedFind \/ SeedCreate

Spec == Init /\ [][Next]_vars

-----------------------------------------------------------------------------
(* Safety.                                                                 *)

\* However registrations of one name overlap (service_auth.go:49), at most one
\* is answered with success and the account has the role it asked for.
OneAccountPerName ==
    \A q \in Registers : pc[q] = "done" =>
        /\ Exists(name[q]) /\ accounts[name[q]].role = role[q]
        /\ \A p \in Registers \ {q} : pc[p] = "done" => name[p] # name[q]

\* README.md:13 "one device at a time": a login that began after another login
\* of the same user was answered ends that session for good, although tokens
\* are built before the lock is taken (service_auth.go:89).
LastLoginWins ==
    \A l \in Logins : \A k \in before[l] :
        pc[l] = "done" /\ name[k] = name[l] => ~Accepted(k)

\* The role a request acts with was read when its user logged in
\* (service_auth.go:139): it is still the role of the account.
TokenRoleCurrent ==
    \A q \in Logins \cup Calls : pc[q] \in {"store", "act", "done"} =>
        Exists(name[q]) /\ accounts[name[q]].role = role[q]

\* While the server listens the account named ADMIN_USERNAME is an admin's: no
\* registration takes the name, whenever a start is interrupted
\* (service_auth.go:142).
AdminReserved ==
    phase = "serving" => Exists(AdminName) /\ accounts[AdminName].role = "admin"

\* Nobody acts with a role his account does not have: what the token says is
\* what the account says, and the reserved name is nobody else's.
RolesStand == TokenRoleCurrent /\ AdminReserved

(* Action properties.                                                      *)

\* A session ends only by expiry, restart, or a later step of a login or a
\* logout of its own user.
SessionEnds ==
    [][\A l \in Logins : Accepted(l) /\ ~Accepted(l)' =>
          \/ phase' = "down"
          \/ l \in expired'
          \/ \E q \in Logins \cup Logouts :
                /\ name[q] = name[l]
                /\ pc[q] \in {"store", "act"} /\ pc'[q] = "done"]_vars

\* What the service promises about sessions: see SingleSession.  A token that
\* was replaced, logged out, lost by a restart or too old is never accepted again.
Ledger == INSTANCE SingleSession WITH
    Users <- Names, Tokens <- Logins,
    inForce <- {<<name[l], l>> : l \in {k \in Logins : Accepted(k)}},
    spent <- {l \in Logins : pc[l] = "done" /\ ~Accepted(l)}

ImplementsLedger == Ledger!SessionSpec
=============================================================================
