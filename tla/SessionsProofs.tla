--------------------------- MODULE SessionsProofs ---------------------------
(***************************************************************************)
(* Theorems about Sessions.tla, for any number of users, of requests and   *)
(* of restarts.                                                            *)
(***************************************************************************)
EXTENDS Sessions, TLAPS

USE SessionAssumption

-----------------------------------------------------------------------------
(* Types.                                                                  *)

\* Moving a request on keeps the type of pc.
LEMMA GotoType ==
    ASSUME TypeOK, NEW q \in Requests,
           NEW to \in {"idle"} \cup Running \cup Ended, Goto(q, to)
    PROVE  pc' \in [Requests -> {"idle"} \cup Running \cup Ended]
  BY DEF TypeOK, Goto

\* So does moving it on with a name and a role.
LEMMA BindType ==
    ASSUME TypeOK, NEW q \in Requests, NEW n \in Names, NEW r \in Roles,
           NEW to \in {"idle"} \cup Running \cup Ended, Bind(q, to, n, r)
    PROVE  /\ pc' \in [Requests -> {"idle"} \cup Running \cup Ended]
           /\ name' \in [Requests -> Names]
           /\ role' \in [Requests -> Roles]
<1>1. pc' \in [Requests -> {"idle"} \cup Running \cup Ended]
  BY GotoType DEF Bind
<1>2. name' \in [Requests -> Names] /\ role' \in [Requests -> Roles]
  BY DEF TypeOK, Bind
<1> QED BY <1>1, <1>2

\* A new account is an account.
LEMMA NewAccountType == \A r \in Roles : NewAccount(r) \in Account
  BY DEF NewAccount, Account, Roles, Statuses

\* An account that is there has a role and a status.
LEMMA AccountType ==
    ASSUME TypeOK, NEW n \in Names, Exists(n)
    PROVE  accounts[n] \in Account
  BY DEF TypeOK, Exists

\* Every step keeps the types.
LEMMA TypeStep == TypeOK /\ [Next]_vars => TypeOK'
<1> SUFFICES ASSUME TypeOK, [Next]_vars PROVE TypeOK'
  OBVIOUS
<1> USE DEF Running, Ended
<1>1. ASSUME NEW q \in Registers, RegisterFind(q) PROVE TypeOK'
  <2>1. PICK n \in Names, r \in Roles \ {"admin"} :
           Bind(q, IF Exists(n) THEN "refused" ELSE "create", n, r)
    BY <1>1 DEF RegisterFind
  <2>2. /\ pc' \in [Requests -> {"idle"} \cup Running \cup Ended]
        /\ name' \in [Requests -> Names]
        /\ role' \in [Requests -> Roles]
    BY <2>1, BindType DEF Requests
  <2> QED BY <1>1, <2>2 DEF TypeOK, RegisterFind
<1>2. ASSUME NEW q \in Registers, RegisterCreate(q) PROVE TypeOK'
  <2>1. pc' \in [Requests -> {"idle"} \cup Running \cup Ended]
    BY <1>2, GotoType DEF RegisterCreate, Requests
  <2>2. accounts' \in [Names -> Account \cup {NoAccount}]
    BY <1>2, NewAccountType DEF RegisterCreate, TypeOK, Requests
  <2> QED BY <1>2, <2>1, <2>2 DEF TypeOK, RegisterCreate
<1>3. ASSUME NEW l \in Logins, LoginLoad(l) PROVE TypeOK'
  <2>1. PICK n \in Names :
           \/ /\ Exists(n) /\ accounts[n].status = "active"
              /\ Bind(l, "store", n, accounts[n].role)
           \/ Goto(l, "refused") /\ UNCHANGED <<name, role>>
    BY <1>3 DEF LoginLoad
  <2>2. /\ pc' \in [Requests -> {"idle"} \cup Running \cup Ended]
        /\ name' \in [Requests -> Names]
        /\ role' \in [Requests -> Roles]
    <3>1. CASE Exists(n) /\ Bind(l, "store", n, accounts[n].role)
      <4>1. accounts[n].role \in Roles
        BY <3>1, AccountType DEF Account
      <4> QED BY <3>1, <4>1, BindType DEF Requests
    <3>2. CASE Goto(l, "refused") /\ UNCHANGED <<name, role>>
      BY <3>2, GotoType DEF Requests, TypeOK
    <3> QED BY <2>1, <3>1, <3>2
  <2>3. before' \in [Logins -> SUBSET Logins]
    BY <1>3 DEF LoginLoad, TypeOK
  <2> QED BY <1>3, <2>2, <2>3 DEF TypeOK, LoginLoad
<1>4. ASSUME NEW l \in Logins, LoginStore(l) PROVE TypeOK'
  <2>1. pc' \in [Requests -> {"idle"} \cup Running \cup Ended]
    BY <1>4, GotoType DEF LoginStore, Requests
  <2>2. tokens' \in [Names -> Logins \cup {NoToken}]
    BY <1>4 DEF LoginStore, TypeOK
  <2> QED BY <1>4, <2>1, <2>2 DEF TypeOK, LoginStore
<1>5. ASSUME NEW l \in Logins, Expire(l) PROVE TypeOK'
  BY <1>5 DEF Expire, TypeOK
<1>6. ASSUME NEW c \in Calls, Authenticate(c) PROVE TypeOK'
  <2>1. /\ pc' \in [Requests -> {"idle"} \cup Running \cup Ended]
        /\ name' \in [Requests -> Names]
        /\ role' \in [Requests -> Roles]
    <3>1. ASSUME NEW l \in Logins, Bind(c, "act", name[l], role[l])
          PROVE  /\ pc' \in [Requests -> {"idle"} \cup Running \cup Ended]
                 /\ name' \in [Requests -> Names]
                 /\ role' \in [Requests -> Roles]
      <4>1. name[l] \in Names /\ role[l] \in Roles
        BY DEF TypeOK, Requests
      <4> QED BY <3>1, <4>1, BindType DEF Requests
    <3>2. CASE Goto(c, "refused") /\ UNCHANGED <<name, role>>
      BY <3>2, GotoType DEF Requests, TypeOK
    <3> QED BY <1>6, <3>1, <3>2 DEF Authenticate
  <2> QED BY <1>6, <2>1 DEF TypeOK, Authenticate
<1>7. ASSUME NEW c \in Logouts, Logout(c) PROVE TypeOK'
  <2>1. pc' \in [Requests -> {"idle"} \cup Running \cup Ended]
    BY <1>7, GotoType DEF Logout, Requests, Calls
  <2>2. tokens' \in [Names -> Logins \cup {NoToken}]
    BY <1>7 DEF Logout, TypeOK
  <2> QED BY <1>7, <2>1, <2>2 DEF TypeOK, Logout
<1>8. ASSUME NEW c \in Changes, UpdateStatus(c) PROVE TypeOK'
  <2>1. pc' \in [Requests -> {"idle"} \cup Running \cup Ended]
    BY <1>8, GotoType DEF UpdateStatus, Requests, Calls
  <2>2. accounts' \in [Names -> Account \cup {NoAccount}]
    <3>1. ASSUME NEW n \in Names, NEW s \in Statuses, Exists(n),
                 accounts' = [accounts EXCEPT ![n].status = s]
          PROVE  accounts' \in [Names -> Account \cup {NoAccount}]
      <4>1. [accounts[n] EXCEPT !.status = s] \in Account
        BY <3>1, AccountType DEF Account
      <4> QED BY <3>1, <4>1 DEF TypeOK
    <3> QED BY <1>8, <3>1 DEF UpdateStatus, TypeOK
  <2> QED BY <1>8, <2>1, <2>2 DEF TypeOK, UpdateStatus
<1>9. ASSUME NEW q \in Requests, Fail(q) PROVE TypeOK'
  <2>1. pc' \in [Requests -> {"idle"} \cup Running \cup Ended]
    BY <1>9, GotoType DEF Fail
  <2> QED BY <1>9, <2>1 DEF TypeOK, Fail
<1>10. CASE Crash
  BY <1>10 DEF Crash, TypeOK
<1>11. CASE Boot \/ SeedFind
  BY <1>11 DEF Boot, SeedFind, TypeOK
<1>12. CASE SeedCreate
  <2>1. accounts' \in [Names -> Account \cup {NoAccount}]
    BY <1>12, NewAccountType DEF SeedCreate, TypeOK, Roles
  <2> QED BY <1>12, <2>1 DEF SeedCreate, TypeOK
<1>13. CASE UNCHANGED vars
  BY <1>13 DEF vars, TypeOK
<1> QED BY <1>1, <1>2, <1>3, <1>4, <1>5, <1>6, <1>7, <1>8, <1>9, <1>10, <1>11,
           <1>12, <1>13 DEF Next

\* The variables of Sessions always have their types: no request is ever at a
\* point its handler does not have.
THEOREM TypeCorrect == Spec => []TypeOK
<1>1. Init => TypeOK
  BY DEF Init, TypeOK, Requests, Roles
<1>2. TypeOK /\ [Next]_vars => TypeOK'
  BY TypeStep
<1> QED BY <1>1, <1>2, PTL DEF Spec

-----------------------------------------------------------------------------
(* Accounts, roles and the order of logins.                                *)

\* Requests run only while the server listens.
Quiet == phase # "serving" => \A q \in Requests : pc[q] \notin Running

\* The reserved name: an account of that name is an admin's, none is there when
\* SeedAdmin is about to create it, one is there while the server listens.
Reserved == /\ Exists(AdminName) => accounts[AdminName].role = "admin"
            /\ phase = "seeding" /\ seed = "create" => ~Exists(AdminName)
            /\ phase = "serving" => Exists(AdminName)

\* Logins that were answered when a login began are answered, and once that
\* login is answered too the map has no token of theirs for its user.
Replaced ==
    \A l \in Logins : \A k \in before[l] :
        /\ pc[k] = "done"
        /\ pc[l] = "done" /\ name[k] = name[l] => tokens[name[l]] # k

\* Only tokens of answered logins grow old.
OldAnswered == \A l \in expired : pc[l] = "done"

\* The inductive invariant.
SessionInv == /\ TypeOK
              /\ Quiet
              /\ Reserved
              /\ OneAccountPerName
              /\ TokenRoleCurrent
              /\ Replaced
              /\ OldAnswered

\* In every initial state.
LEMMA SessionInvInit == Init => SessionInv
<1> SUFFICES ASSUME Init PROVE SessionInv
  OBVIOUS
<1>1. TypeOK
  BY DEF Init, TypeOK, Requests, Roles
<1>2. \A q \in Requests : pc[q] = "idle"
  BY DEF Init
<1>3. Quiet /\ TokenRoleCurrent /\ OneAccountPerName
  BY <1>2 DEF Quiet, TokenRoleCurrent, OneAccountPerName, Requests, Running, Calls
<1>4. Reserved /\ Replaced /\ OldAnswered
  BY DEF Init, Reserved, Replaced, OldAnswered, Exists
<1> QED BY <1>1, <1>3, <1>4 DEF SessionInv

\* What a step other than a registration's last, SeedCreate and a change of
\* status leaves: the accounts.  What every step leaves: who is there, and his role.
AccountsKeep == \A n \in Names : Exists(n) =>
                    Exists(n)' /\ accounts'[n].role = accounts[n].role

\* Names and roles of requests that are under way or answered.
BindingsKeep == \A q \in Requests : pc[q] # "idle" =>
                    name'[q] = name[q] /\ role'[q] = role[q]

\* Answers stand.
AnswersKeep == \A q \in Requests : pc[q] = "done" => pc'[q] = "done"

\* Every step keeps accounts, bindings and answers.
LEMMA StepKeeps ==
    ASSUME TypeOK, Quiet, Reserved, [Next]_vars
    PROVE  AccountsKeep /\ BindingsKeep /\ AnswersKeep
<1> USE DEF AccountsKeep, BindingsKeep, AnswersKeep, Exists
<1>1. ASSUME NEW q \in Registers, RegisterFind(q)
      PROVE  AccountsKeep /\ BindingsKeep /\ AnswersKeep
  BY <1>1 DEF RegisterFind, Bind, Goto, TypeOK, Requests
<1>2. ASSUME NEW q \in Registers, RegisterCreate(q)
      PROVE  AccountsKeep /\ BindingsKeep /\ AnswersKeep
  BY <1>2 DEF RegisterCreate, Goto, TypeOK, Requests
<1>3. ASSUME NEW l \in Logins, LoginLoad(l)
      PROVE  AccountsKeep /\ BindingsKeep /\ AnswersKeep
  BY <1>3 DEF LoginLoad, Bind, Goto, TypeOK, Requests
<1>4. ASSUME NEW l \in Logins, LoginStore(l) \/ Expire(l)
      PROVE  AccountsKeep /\ BindingsKeep /\ AnswersKeep
  BY <1>4 DEF LoginStore, Expire, Goto, TypeOK, Requests
<1>5. ASSUME NEW c \in Calls, Authenticate(c)
      PROVE  AccountsKeep /\ BindingsKeep /\ AnswersKeep
  BY <1>5 DEF Authenticate, Bind, Goto, TypeOK, Requests
<1>6. ASSUME NEW c \in Logouts, Logout(c)
      PROVE  AccountsKeep /\ BindingsKeep /\ AnswersKeep
  BY <1>6 DEF Logout, Goto, TypeOK, Requests, Calls
<1>7. ASSUME NEW c \in Changes, UpdateStatus(c)
      PROVE  AccountsKeep /\ BindingsKeep /\ AnswersKeep
  <2>1. BindingsKeep /\ AnswersKeep
    BY <1>7 DEF UpdateStatus, Goto, TypeOK, Requests, Calls
  <2>2. ASSUME NEW n \in Names, NEW s \in Statuses, Exists(n),
               accounts' = [accounts EXCEPT ![n].status = s]
        PROVE  AccountsKeep
    <3>1. /\ [accounts[n] EXCEPT !.status = s] \in Account
          /\ [accounts[n] EXCEPT !.status = s].role = accounts[n].role
      BY <2>2, AccountType DEF Account
    <3> QED BY <2>2, <3>1 DEF TypeOK
  <2>3. ASSUME UNCHANGED accounts PROVE AccountsKeep
    BY <2>3
  <2> QED BY <1>7, <2>1, <2>2, <2>3 DEF UpdateStatus
<1>8. ASSUME NEW q \in Requests, Fail(q)
      PROVE  AccountsKeep /\ BindingsKeep /\ AnswersKeep
  BY <1>8 DEF Fail, Goto, TypeOK
<1>9. CASE Crash \/ Boot \/ SeedFind
  BY <1>9 DEF Crash, Boot, SeedFind, TypeOK, Running
<1>10. CASE SeedCreate
  BY <1>10 DEF SeedCreate, TypeOK, Reserved
<1>11. CASE UNCHANGED vars
  BY <1>11 DEF vars
<1> QED BY <1>1, <1>2, <1>3, <1>4, <1>5, <1>6, <1>7, <1>8, <1>9, <1>10, <1>11
        DEF Next

\* No step starts a request while the server is not listening.
LEMMA QuietStep ==
    ASSUME TypeOK, Quiet, [Next]_vars
    PROVE  Quiet'
<1> USE DEF Quiet
<1>1. ASSUME NEW q \in Requests, NEW to, Goto(q, to), UNCHANGED phase,
             phase = "serving" \/ to \notin Running
      PROVE  Quiet'
  BY <1>1 DEF Goto, TypeOK
<1>2. ASSUME NEW q \in Registers, RegisterFind(q) \/ RegisterCreate(q) PROVE Quiet'
  <2>1. q \in Requests
    BY DEF Requests
  <2> QED BY <1>1, <1>2, <2>1 DEF RegisterFind, RegisterCreate, Bind, Running
<1>3. ASSUME NEW l \in Logins, LoginLoad(l) \/ LoginStore(l) PROVE Quiet'
  <2>1. l \in Requests
    BY DEF Requests
  <2> QED BY <1>1, <1>3, <2>1 DEF LoginLoad, LoginStore, Bind, Running
<1>4. ASSUME NEW c \in Calls, Authenticate(c) PROVE Quiet'
  <2>1. c \in Requests
    BY DEF Requests
  <2> QED BY <1>1, <1>4, <2>1 DEF Authenticate, Bind, Running
<1>5. ASSUME NEW c \in Calls, Logout(c) \/ UpdateStatus(c) PROVE Quiet'
  <2>1. c \in Requests
    BY DEF Requests
  <2> QED BY <1>1, <1>5, <2>1 DEF Logout, UpdateStatus, Running
<1>6. ASSUME NEW q \in Requests, Fail(q) PROVE Quiet'
  BY <1>1, <1>6 DEF Fail, Running
<1>7. CASE Crash
  BY <1>7 DEF Crash, TypeOK, Running
<1>8. CASE Boot \/ SeedFind \/ SeedCreate \/ UNCHANGED vars \/ \E l \in Logins : Expire(l)
  BY <1>8 DEF Boot, SeedFind, SeedCreate, Expire, vars
<1> QED BY <1>2, <1>3, <1>4, <1>5, <1>6, <1>7, <1>8 DEF Next, Calls

\* The reserved name stays an admin's.
LEMMA ReservedStep ==
    ASSUME TypeOK, Quiet, Reserved, [Next]_vars
    PROVE  Reserved'
<1> USE DEF Reserved, Exists
<1>1. ASSUME NEW q \in Registers, RegisterCreate(q) PROVE Reserved'
  <2>1. phase = "serving"
    BY <1>1 DEF RegisterCreate, Quiet, Requests, Running
  <2>2. accounts'[AdminName] = accounts[AdminName]
    BY <1>1, <2>1 DEF RegisterCreate, TypeOK
  <2> QED BY <1>1, <2>1, <2>2 DEF RegisterCreate
<1>2. ASSUME NEW c \in Changes, UpdateStatus(c) PROVE Reserved'
  <2>1. phase = "serving"
    BY <1>2 DEF UpdateStatus, Quiet, Requests, Calls, Running
  <2>2. AccountsKeep
    BY StepKeeps, <1>2 DEF Next
  <2> QED BY <1>2, <2>1, <2>2 DEF UpdateStatus, AccountsKeep
<1>3. CASE SeedCreate
  <2>1. accounts'[AdminName] = [role |-> "admin", status |-> "active"]
    BY <1>3 DEF SeedCreate, TypeOK, NewAccount
  <2>2. accounts'[AdminName] \in Account
    BY <2>1 DEF Account, Roles, Statuses
  <2> QED BY <1>3, <2>1, <2>2 DEF SeedCreate
<1>4. CASE Crash \/ Boot \/ SeedFind
  BY <1>4 DEF Crash, Boot, SeedFind
<1>5. ASSUME UNCHANGED <<phase, seed, accounts>> PROVE Reserved'
  BY <1>5
<1> QED BY <1>1, <1>2, <1>3, <1>4, <1>5
        DEF Next, vars, RegisterFind, LoginLoad, LoginStore, Expire, Authenticate,
            Logout, Fail

\* Only a registration's last step answers a registration with success.
LEMMA NewRegistrations ==
    ASSUME TypeOK, [Next]_vars, NEW q \in Registers, pc[q] # "done", pc'[q] = "done"
    PROVE  RegisterCreate(q)
<1> q \in Requests /\ q \notin Logins /\ q \notin Calls
  BY DEF Requests
<1> USE DEF Requests, Calls, Goto, Bind, TypeOK
<1>1. ASSUME NEW p \in Registers, RegisterFind(p) PROVE FALSE
  BY <1>1 DEF RegisterFind
<1>2. ASSUME NEW p \in Registers, RegisterCreate(p) PROVE p = q
  BY <1>2 DEF RegisterCreate
<1>3. ASSUME NEW l \in Logins, LoginLoad(l) \/ LoginStore(l) \/ Expire(l) PROVE FALSE
  BY <1>3 DEF LoginLoad, LoginStore, Expire
<1>4. ASSUME NEW c \in Calls, Authenticate(c) \/ Logout(c) \/ UpdateStatus(c) PROVE FALSE
  BY <1>4 DEF Authenticate, Logout, UpdateStatus
<1>5. ASSUME NEW p \in Requests, Fail(p) PROVE FALSE
  BY <1>5 DEF Fail
<1>6. CASE Crash \/ Boot \/ SeedFind \/ SeedCreate \/ UNCHANGED vars
  BY <1>6 DEF Crash, Boot, SeedFind, SeedCreate, vars
<1> QED BY <1>1, <1>2, <1>3, <1>4, <1>5, <1>6 DEF Next

\* At most one registration of a name succeeds, and the account is as it asked.
LEMMA OneAccountStep ==
    ASSUME TypeOK, Quiet, Reserved, OneAccountPerName, [Next]_vars
    PROVE  OneAccountPerName'
<1> USE DEF OneAccountPerName
<1>1. AccountsKeep /\ BindingsKeep /\ AnswersKeep
  BY StepKeeps
<1>2. \A q \in Registers : q \in Requests /\ name[q] \in Names
  BY DEF Requests, TypeOK
<1>3. CASE \A q \in Registers : pc'[q] = "done" => pc[q] = "done"
  BY <1>1, <1>2, <1>3 DEF AccountsKeep, BindingsKeep, AnswersKeep, Exists
<1>4. ASSUME NEW q \in Registers, pc[q] # "done", pc'[q] = "done"
      PROVE  OneAccountPerName'
  <2>1. RegisterCreate(q)
    BY <1>4, NewRegistrations
  <2>2. /\ ~Exists(name[q])
        /\ accounts' = [accounts EXCEPT ![name[q]] = NewAccount(role[q])]
        /\ pc' = [pc EXCEPT ![q] = "done"] /\ name' = name /\ role' = role
    BY <2>1, <1>4, <1>2 DEF RegisterCreate, Goto, TypeOK
  <2>3. \A p \in Registers \ {q} : pc'[p] = "done" => pc[p] = "done" /\ name[p] # name[q]
    BY <2>2, <1>2 DEF TypeOK
  <2>4. Exists(name[q])' /\ accounts'[name[q]].role = role[q]
    <3>1. accounts'[name[q]] = NewAccount(role[q])
      BY <2>2, <1>2 DEF TypeOK
    <3>2. role[q] \in Roles
      BY <1>2 DEF TypeOK
    <3>3. NewAccount(role[q]) \in Account
      BY <3>2, NewAccountType
    <3> QED BY <3>1, <3>3, <2>2 DEF Exists, NewAccount
  <2>5. \A p \in Registers \ {q} : pc'[p] = "done" =>
           accounts'[name[p]] # NoAccount /\ accounts'[name[p]].role = role[p]
    BY <2>3, <1>1, <1>2 DEF AccountsKeep, Exists
  <2> QED BY <2>2, <2>3, <2>4, <2>5 DEF Exists
<1> QED BY <1>3, <1>4

\* Requests that act for a user.
Acting(q) == pc[q] \in {"store", "act", "done"}

\* Only a login's first step and the middleware let a request act for a user.
LEMMA NewActing ==
    ASSUME TypeOK, [Next]_vars, NEW q \in Logins \cup Calls, ~Acting(q), Acting(q)'
    PROVE  (q \in Logins /\ LoginLoad(q)) \/ (q \in Calls /\ Authenticate(q))
<1> q \in Requests /\ q \notin Registers
  BY DEF Requests
<1> USE DEF Acting, Requests, Calls, Goto, Bind, TypeOK
<1>1. ASSUME NEW p \in Registers, RegisterFind(p) \/ RegisterCreate(p) PROVE FALSE
  BY <1>1 DEF RegisterFind, RegisterCreate
<1>2. ASSUME NEW l \in Logins, LoginLoad(l) PROVE q = l
  BY <1>2 DEF LoginLoad
<1>3. ASSUME NEW l \in Logins, LoginStore(l) \/ Expire(l) PROVE FALSE
  BY <1>3 DEF LoginStore, Expire
<1>4. ASSUME NEW c \in Calls, Authenticate(c) PROVE q = c
  BY <1>4 DEF Authenticate
<1>5. ASSUME NEW c \in Calls, Logout(c) \/ UpdateStatus(c) PROVE FALSE
  BY <1>5 DEF Logout, UpdateStatus
<1>6. ASSUME NEW p \in Requests, Fail(p) PROVE FALSE
  BY <1>6 DEF Fail
<1>7. CASE Crash \/ Boot \/ SeedFind \/ SeedCreate \/ UNCHANGED vars
  BY <1>7 DEF Crash, Boot, SeedFind, SeedCreate, vars
<1> QED BY <1>1, <1>2, <1>3, <1>4, <1>5, <1>6, <1>7 DEF Next

\* The role a request acts with stays the role of the account.
LEMMA RoleStep ==
    ASSUME TypeOK, Quiet, Reserved, TokenRoleCurrent, [Next]_vars
    PROVE  TokenRoleCurrent'
<1> USE DEF TokenRoleCurrent
<1>1. AccountsKeep /\ BindingsKeep
  BY StepKeeps
<1>2. SUFFICES ASSUME NEW q \in Logins \cup Calls, Acting(q)'
               PROVE  Exists(name[q])' /\ accounts'[name'[q]].role = role'[q]
  BY DEF Acting
<1>3. q \in Requests
  BY DEF Requests
<1>4. CASE Acting(q)
  <2>1. pc[q] # "idle" /\ Exists(name[q]) /\ accounts[name[q]].role = role[q]
    BY <1>4 DEF Acting
  <2>2. name'[q] = name[q] /\ role'[q] = role[q] /\ name[q] \in Names
    BY <2>1, <1>1, <1>3 DEF BindingsKeep, TypeOK
  <2> QED BY <2>1, <2>2, <1>1 DEF AccountsKeep, Exists
<1>5. CASE ~Acting(q) /\ q \in Logins /\ LoginLoad(q)
  <2>1. PICK n \in Names : Exists(n) /\ Bind(q, "store", n, accounts[n].role)
    BY <1>2, <1>3, <1>5 DEF LoginLoad, Goto, Acting, TypeOK
  <2> QED BY <2>1, <1>3, <1>5 DEF Bind, LoginLoad, TypeOK, Exists
<1>6. CASE ~Acting(q) /\ q \in Calls /\ Authenticate(q)
  <2>1. PICK l \in Logins : Accepted(l) /\ Bind(q, "act", name[l], role[l])
    BY <1>2, <1>3, <1>6 DEF Authenticate, Goto, Acting, TypeOK
  <2>2. Exists(name[l]) /\ accounts[name[l]].role = role[l]
    BY <2>1 DEF Accepted
  <2> QED BY <2>1, <2>2, <1>3, <1>6 DEF Bind, Authenticate, TypeOK, Exists
<1> QED BY <1>2, <1>4, <1>5, <1>6, NewActing

\* Tokens that were current when a login began are not current after it.
LEMMA ReplacedStep ==
    ASSUME TypeOK, Replaced, BindingsKeep, AnswersKeep, [Next]_vars
    PROVE  Replaced'
<1> USE DEF Replaced
<1> \A l \in Logins : l \in Requests
  BY DEF Requests
<1> SUFFICES ASSUME NEW l \in Logins, NEW k \in before'[l]
             PROVE  /\ pc'[k] = "done"
                    /\ pc'[l] = "done" /\ name'[k] = name'[l] => tokens'[name'[l]] # k
  OBVIOUS
<1>1. ASSUME NEW j \in Logins, LoginLoad(j)
      PROVE  /\ pc'[k] = "done"
             /\ pc'[l] = "done" /\ name'[k] = name'[l] => tokens'[name'[l]] # k
  <2>1. tokens' = tokens /\ before' = [before EXCEPT ![j] = {i \in Logins : pc[i] = "done"}]
    BY <1>1 DEF LoginLoad
  <2>2. pc'[j] # "done"
    BY <1>1 DEF LoginLoad, Goto, Bind, TypeOK
  <2>3. CASE l = j
    BY <2>1, <2>2, <2>3 DEF AnswersKeep, TypeOK
  <2>4. CASE l # j
    <3>1. k \in before[l] /\ k \in Logins
      BY <2>1, <2>4 DEF TypeOK
    <3>2. pc'[l] = pc[l]
      BY <1>1, <2>4 DEF LoginLoad, Goto, Bind, TypeOK
    <3> QED BY <3>1, <3>2, <2>1 DEF AnswersKeep, BindingsKeep
  <2> QED BY <2>3, <2>4
<1>2. ASSUME before' = before
      PROVE  k \in Logins /\ k \in before[l] /\ pc[k] = "done" /\ pc'[k] = "done"
             /\ name'[k] = name[k]
  BY <1>2 DEF TypeOK, AnswersKeep, BindingsKeep
<1>3. ASSUME NEW j \in Logins, LoginStore(j)
      PROVE  /\ pc'[k] = "done"
             /\ pc'[l] = "done" /\ name'[k] = name'[l] => tokens'[name'[l]] # k
  <2>1. /\ before' = before /\ name' = name /\ pc[j] = "store"
        /\ tokens' = [tokens EXCEPT ![name[j]] = j]
        /\ pc' = [pc EXCEPT ![j] = "done"]
    BY <1>3 DEF LoginStore, Goto
  <2>2. k # j
    BY <2>1, <1>2
  <2>3. name[l] \in Names /\ name[j] \in Names
    BY DEF TypeOK
  <2>4. CASE l = j
    BY <2>1, <2>2, <2>3, <2>4, <1>2 DEF TypeOK
  <2>5. CASE l # j
    BY <2>1, <2>2, <2>3, <2>5, <1>2 DEF TypeOK
  <2> QED BY <2>4, <2>5
<1>4. ASSUME before' = before, name' = name, pc'[l] = "done" => pc[l] = "done",
             \A n \in Names : tokens'[n] \in {tokens[n], NoToken}
      PROVE  /\ pc'[k] = "done"
             /\ pc'[l] = "done" /\ name'[k] = name'[l] => tokens'[name'[l]] # k
  <2>1. name[l] \in Names
    BY DEF TypeOK
  <2> QED BY <1>2, <1>4, <2>1
<1>5. ASSUME before' = before, tokens' = tokens, pc'[l] = pc[l]
      PROVE  /\ pc'[k] = "done"
             /\ pc'[l] = "done" /\ name'[k] = name'[l] => tokens'[name'[l]] # k
  <2>1. pc[l] = "done" => name'[l] = name[l]
    BY DEF BindingsKeep
  <2> QED BY <1>2, <1>5, <2>1
<1>6. ASSUME NEW q \in Registers, RegisterFind(q) \/ RegisterCreate(q)
      PROVE  /\ pc'[k] = "done"
             /\ pc'[l] = "done" /\ name'[k] = name'[l] => tokens'[name'[l]] # k
  <2>1. pc'[l] = pc[l]
    BY <1>6 DEF RegisterFind, RegisterCreate, Bind, Goto, TypeOK
  <2> QED BY <1>5, <1>6, <2>1 DEF RegisterFind, RegisterCreate
<1>7. ASSUME NEW c \in Calls, Authenticate(c) \/ UpdateStatus(c)
      PROVE  /\ pc'[k] = "done"
             /\ pc'[l] = "done" /\ name'[k] = name'[l] => tokens'[name'[l]] # k
  <2>1. pc'[l] = pc[l]
    BY <1>7 DEF Authenticate, UpdateStatus, Bind, Goto, TypeOK
  <2> QED BY <1>5, <1>7, <2>1 DEF Authenticate, UpdateStatus
<1>8. ASSUME NEW c \in Calls, Logout(c)
      PROVE  /\ pc'[k] = "done"
             /\ pc'[l] = "done" /\ name'[k] = name'[l] => tokens'[name'[l]] # k
  <2>1. pc'[l] = pc[l]
    BY <1>8 DEF Logout, Goto, TypeOK
  <2>2. \A n \in Names : tokens'[n] \in {tokens[n], NoToken}
    BY <1>8 DEF Logout, TypeOK
  <2> QED BY <1>4, <1>8, <2>1, <2>2 DEF Logout
<1>9. ASSUME NEW q \in Requests, Fail(q)
      PROVE  /\ pc'[k] = "done"
             /\ pc'[l] = "done" /\ name'[k] = name'[l] => tokens'[name'[l]] # k
  <2>1. pc'[l] = "done" => pc[l] = "done"
    BY <1>9 DEF Fail, Goto, TypeOK
  <2> QED BY <1>4, <1>9, <2>1 DEF Fail
<1>10. CASE Crash
  <2>1. pc'[l] = "done" => pc[l] = "done"
    BY <1>10 DEF Crash, TypeOK
  <2>2. \A n \in Names : tokens'[n] \in {tokens[n], NoToken}
    BY <1>10 DEF Crash
  <2> QED BY <1>4, <1>10, <2>1, <2>2 DEF Crash
<1>11. CASE Boot \/ SeedFind \/ SeedCreate \/ UNCHANGED vars \/ \E j \in Logins : Expire(j)
  BY <1>5, <1>11 DEF Boot, SeedFind, SeedCreate, vars, Expire
<1> QED BY <1>1, <1>3, <1>6, <1>7, <1>8, <1>9, <1>10, <1>11 DEF Next, Calls

\* Every step keeps the invariant.
LEMMA SessionInvStep == SessionInv /\ [Next]_vars => SessionInv'
<1> SUFFICES ASSUME SessionInv, [Next]_vars PROVE SessionInv'
  OBVIOUS
<1> USE DEF SessionInv
<1>1. TypeOK'
  BY TypeStep
<1>2. Quiet' /\ Reserved'
  BY QuietStep, ReservedStep
<1>3. OneAccountPerName' /\ TokenRoleCurrent'
  BY OneAccountStep, RoleStep
<1>4. AccountsKeep /\ BindingsKeep /\ AnswersKeep
  BY StepKeeps
<1>5. Replaced'
  BY <1>4, ReplacedStep
<1>6. OldAnswered'
  <2>1. \A l \in expired : pc'[l] = "done"
    BY <1>4 DEF OldAnswered, AnswersKeep, TypeOK, Requests
  <2>2. \A l \in Logins : Expire(l) => pc'[l] = "done" /\ expired' = expired \cup {l}
    BY DEF Expire
  <2>3. expired' = expired \/ \E l \in Logins : Expire(l)
    BY DEF Next, vars, RegisterFind, RegisterCreate, LoginLoad, LoginStore,
           Authenticate, Logout, UpdateStatus, Fail, Crash, Boot, SeedFind, SeedCreate
  <2> QED BY <2>1, <2>2, <2>3 DEF OldAnswered
<1> QED BY <1>1, <1>2, <1>3, <1>5, <1>6

\* The invariant always holds.
LEMMA SessionInvariant == Spec => []SessionInv
BY SessionInvInit, SessionInvStep, PTL DEF Spec

\* Of overlapping registrations of one name at most one succeeds, and later
\* registrations and restarts never change whose account it is.
THEOREM RegistrationsUnique == Spec => []OneAccountPerName
<1>1. SessionInv => OneAccountPerName
  BY DEF SessionInv
<1> QED BY <1>1, SessionInvariant, PTL

\* However a start is interrupted and whoever registers, the reserved name is an
\* admin's while the server listens, and no request acts with a stale role.
THEOREM RolesCorrect == Spec => []RolesStand
<1>1. SessionInv => RolesStand
  BY DEF SessionInv, Reserved, RolesStand, AdminReserved
<1> QED BY <1>1, SessionInvariant, PTL

\* A login ends the sessions answered before it began, in whatever order
\* overlapping logins store their tokens, and for good.
THEOREM LoginsReplace == Spec => []LastLoginWins
<1>1. SessionInv => LastLoginWins
  BY DEF SessionInv, Replaced, LastLoginWins, Accepted
<1> QED BY <1>1, SessionInvariant, PTL

-----------------------------------------------------------------------------
(* How sessions end.                                                       *)

\* What a step may do to the sessions: a login's last step opens one for its
\* user, others may end some, and none comes into force otherwise.
Opens(j) == /\ pc[j] = "store" /\ pc' = [pc EXCEPT ![j] = "done"]
            /\ tokens' = [tokens EXCEPT ![name[j]] = j]
            /\ UNCHANGED <<name, expired>>
EndsOnly == /\ \A l \in Logins : pc'[l] = "done" => pc[l] = "done"
            /\ \A n \in Names : tokens'[n] \in {tokens[n], NoToken}
            /\ expired \subseteq expired'

\* Every step is one or the other.
LEMMA StepSessions ==
    ASSUME TypeOK, [Next]_vars
    PROVE  EndsOnly \/ \E j \in Logins : LoginStore(j) /\ Opens(j)
<1> USE DEF EndsOnly
<1> \A l \in Logins : l \in Requests
  BY DEF Requests
<1>1. ASSUME NEW q \in Registers, RegisterFind(q) \/ RegisterCreate(q) PROVE EndsOnly
  <2>1. q \in Requests /\ q \notin Logins
    BY DEF Requests
  <2> QED BY <1>1, <2>1 DEF RegisterFind, RegisterCreate, Bind, Goto, TypeOK
<1>2. ASSUME NEW l \in Logins, LoginLoad(l) PROVE EndsOnly
  BY <1>2 DEF LoginLoad, Bind, Goto, TypeOK
<1>3. ASSUME NEW l \in Logins, LoginStore(l) PROVE Opens(l)
  BY <1>3 DEF LoginStore, Opens, Goto
<1>4. ASSUME NEW l \in Logins, Expire(l) PROVE EndsOnly
  BY <1>4 DEF Expire
<1>5. ASSUME NEW c \in Calls, Authenticate(c) \/ Logout(c) \/ UpdateStatus(c) PROVE EndsOnly
  <2>1. c \in Requests /\ c \notin Logins
    BY DEF Requests
  <2>2. \A l \in Logins : pc'[l] = pc[l]
    BY <1>5, <2>1 DEF Authenticate, Logout, UpdateStatus, Bind, Goto, TypeOK
  <2>3. \A n \in Names : tokens'[n] \in {tokens[n], NoToken}
    BY <1>5 DEF Authenticate, Logout, UpdateStatus, TypeOK
  <2> QED BY <1>5, <2>2, <2>3 DEF Authenticate, Logout, UpdateStatus
<1>6. ASSUME NEW q \in Requests, Fail(q) PROVE EndsOnly
  BY <1>6 DEF Fail, Goto, TypeOK
<1>7. CASE Crash
  BY <1>7 DEF Crash, TypeOK
<1>8. CASE Boot \/ SeedFind \/ SeedCreate \/ UNCHANGED vars
  BY <1>8 DEF Boot, SeedFind, SeedCreate, vars
<1> QED BY <1>1, <1>2, <1>3, <1>4, <1>5, <1>6, <1>7, <1>8 DEF Next, Calls

\* A session ends only by its age, by a restart, or by a step of a login or of
\* a logout of its own user.
LEMMA SessionEndsStep ==
    ASSUME TypeOK, [Next]_vars, NEW l \in Logins, Accepted(l), ~Accepted(l)'
    PROVE  \/ phase' = "down"
           \/ l \in expired'
           \/ \E q \in Logins \cup Logouts :
                 /\ name[q] = name[l]
                 /\ pc[q] \in {"store", "act"} /\ pc'[q] = "done"
<1> l \in Requests /\ name[l] \in Names /\ pc[l] = "done" /\ tokens[name[l]] = l
  BY DEF Requests, TypeOK, Accepted
<1> USE DEF Accepted
<1>1. ASSUME NEW j \in Logins, LoginStore(j) PROVE name[j] = name[l] /\ pc[j] = "store" /\ pc'[j] = "done"
  <2>1. j \in Requests /\ name[j] \in Names
    BY DEF Requests, TypeOK
  <2> QED BY <1>1, <2>1 DEF LoginStore, Goto, TypeOK
<1>2. ASSUME NEW c \in Logouts, Logout(c) PROVE name[c] = name[l] /\ pc[c] = "act" /\ pc'[c] = "done"
  <2>1. c \in Requests /\ name[c] \in Names /\ c \notin Logins
    BY DEF Requests, Calls, TypeOK
  <2> QED BY <1>2, <2>1 DEF Logout, Goto, TypeOK
<1>3. ASSUME NEW q \in Registers \cup Calls,
             RegisterFind(q) \/ RegisterCreate(q) \/ Authenticate(q) \/ UpdateStatus(q)
      PROVE  FALSE
  <2>1. q \in Requests /\ q # l
    BY DEF Requests
  <2>2. pc'[l] = pc[l] /\ name'[l] = name[l] /\ tokens' = tokens /\ expired' = expired
    BY <1>3, <2>1 DEF RegisterFind, RegisterCreate, Authenticate, UpdateStatus, Bind, Goto, TypeOK
  <2> QED BY <2>2
<1>4. ASSUME NEW j \in Logins, LoginLoad(j) PROVE FALSE
  <2>1. j \in Requests /\ j # l
    BY <1>4 DEF Requests, LoginLoad
  <2>2. pc'[l] = pc[l] /\ name'[l] = name[l] /\ tokens' = tokens /\ expired' = expired
    BY <1>4, <2>1 DEF LoginLoad, Bind, Goto, TypeOK
  <2> QED BY <2>2
<1>5. ASSUME NEW j \in Logins, Expire(j) PROVE l \in expired'
  BY <1>5 DEF Expire
<1>6. ASSUME NEW q \in Requests, Fail(q) PROVE FALSE
  <2>1. pc'[l] = pc[l]
    BY <1>6 DEF Fail, Goto, TypeOK
  <2> QED BY <1>6, <2>1 DEF Fail
<1>7. CASE Crash
  BY <1>7 DEF Crash
<1>8. CASE Boot \/ SeedFind \/ SeedCreate \/ UNCHANGED vars
  BY <1>8 DEF Boot, SeedFind, SeedCreate, vars
<1> QED BY <1>1, <1>2, <1>3, <1>4, <1>5, <1>6, <1>7, <1>8 DEF Next, Calls

\* No step of another user, and nothing else the server does, ends a session.
THEOREM SessionsEndByTheirUser == Spec => SessionEnds
<1>1. TypeOK /\ [Next]_vars =>
        [\A l \in Logins : Accepted(l) /\ ~Accepted(l)' =>
          \/ phase' = "down"
          \/ l \in expired'
          \/ \E q \in Logins \cup Logouts :
                /\ name[q] = name[l]
                /\ pc[q] \in {"store", "act"} /\ pc'[q] = "done"]_vars
  BY SessionEndsStep
<1> QED BY <1>1, TypeCorrect, PTL DEF Spec, SessionEnds

-----------------------------------------------------------------------------
(* The refinement of SingleSession.                                        *)

\* The values of the variables of SingleSession.
Valid == {<<name[l], l>> : l \in {k \in Logins : Accepted(k)}}
Spent == {l \in Logins : pc[l] = "done" /\ ~Accepted(l)}

\* The logins whose token is accepted.
Current == {l \in Logins : Accepted(l)}

\* The sessions of a set of accepted logins.
SessionsOf(A) == {<<name[l], l>> : l \in A}

\* Their tokens are the logins.
LEMMA TokensOfSessions ==
    ASSUME NEW A
    PROVE  {s[2] : s \in SessionsOf(A)} = A
<1>1. \A l \in A : <<name[l], l>> \in SessionsOf(A) /\ <<name[l], l>>[2] = l
  BY DEF SessionsOf
<1>2. \A s \in SessionsOf(A) : s[2] \in A
  BY DEF SessionsOf
<1> QED BY <1>1, <1>2

\* Ending any sessions in force is a step of SingleSession.
LEMMA EndIsStep ==
    ASSUME NEW S \in SUBSET Valid, Ledger!End(S)
    PROVE  Ledger!SessionNext
  BY DEF Ledger!SessionNext, Valid

\* A step that opens no session ends some, or changes none.
LEMMA EndsStep ==
    ASSUME TypeOK, TypeOK', EndsOnly, BindingsKeep, AnswersKeep
    PROVE  [Ledger!SessionNext]_<<Valid, Spent>>
<1> DEFINE gone == Current \ Current'
<1> PICK S : S = SessionsOf(gone)
  OBVIOUS
<1> \A l \in Logins : l \in Requests /\ name[l] \in Names
  BY DEF Requests, TypeOK
<1>0. \A l : l \in gone <=> l \in Logins /\ Accepted(l) /\ ~Accepted(l)'
  BY DEF Current
<1> HIDE DEF gone
<1>1. \A l \in Logins : Accepted(l)' => Accepted(l)
  BY DEF EndsOnly, BindingsKeep, Accepted
<1>2. \A l \in Logins : Accepted(l) => pc'[l] = "done" /\ name'[l] = name[l]
  BY DEF Accepted, BindingsKeep, AnswersKeep
<1>3. Valid' = Valid \ S
  <2>1. \A l, k \in Logins : <<name[l], l>> = <<name[k], k>> => l = k
    OBVIOUS
  <2>2. ASSUME NEW s \in Valid' PROVE s \in Valid \ S
    <3>1. PICK l \in Logins : Accepted(l)' /\ s = <<name'[l], l>>
      BY <2>2 DEF Valid
    <3>2. s = <<name[l], l>> /\ Accepted(l)
      BY <3>1, <1>1, <1>2
    <3>3. s \notin S
      BY <3>1, <3>2, <1>0 DEF SessionsOf
    <3> QED BY <3>2, <3>3 DEF Valid
  <2>3. ASSUME NEW s \in Valid, s \notin S PROVE s \in Valid'
    <3>1. PICK l \in Logins : Accepted(l) /\ s = <<name[l], l>>
      BY <2>3 DEF Valid
    <3>2. Accepted(l)' /\ s = <<name'[l], l>>
      BY <2>3, <3>1, <1>0, <1>2 DEF SessionsOf
    <3> QED BY <3>2 DEF Valid
  <2> QED BY <2>2, <2>3
<1>4. Spent' = Spent \cup gone
  <2>1. \A l \in Logins : (pc'[l] = "done" /\ ~Accepted(l)') <=>
                          ((pc[l] = "done" /\ ~Accepted(l)) \/ l \in gone)
    BY <1>0, <1>1, <1>2 DEF EndsOnly, AnswersKeep
  <2> QED BY <2>1, <1>0 DEF Spent
<1>5. S \in SUBSET Valid
  BY <1>0 DEF SessionsOf, Valid
<1>6. Ledger!TokensOf(S) = gone
  BY TokensOfSessions DEF Ledger!TokensOf
<1>7. CASE gone = {}
  <2>1. S = {}
    BY <1>7 DEF SessionsOf
  <2> QED BY <2>1, <1>3, <1>4, <1>7
<1>8. CASE gone # {}
  <2>1. S # {}
    BY <1>8 DEF SessionsOf
  <2>2. Ledger!End(S)
    BY <2>1, <1>3, <1>4, <1>6 DEF Ledger!End, Valid, Spent
  <2> QED BY <2>2, <1>5, EndIsStep
<1> QED BY <1>7, <1>8

\* The last step of a login opens its session and ends the others of its user.
LEMMA OpensStep ==
    ASSUME TypeOK, OldAnswered, NEW j \in Logins, Opens(j)
    PROVE  Ledger!SessionNext
<1> DEFINE u == name[j]
           ended == {l \in Logins : Accepted(l) /\ name[l] = u}
           old == {s \in Valid : s[1] = u}
<1> USE DEF Accepted
<1>1. /\ j \in Requests /\ u \in Names /\ pc[j] # "done" /\ j \notin expired
      /\ \A l \in Logins : l \in Requests /\ name[l] \in Names
  BY DEF Requests, TypeOK, Opens, OldAnswered
<1>2. \A l \in Logins : Accepted(l)' <=> l = j \/ (Accepted(l) /\ name[l] # u)
  BY <1>1 DEF Opens, TypeOK
<1>3. \A l \in Logins : pc'[l] = "done" <=> l = j \/ pc[l] = "done"
  BY <1>1 DEF Opens, TypeOK
<1>4. old = SessionsOf(ended)
  BY DEF Valid, SessionsOf
<1>5. Ledger!TokensOf(old) = ended
  BY <1>4, TokensOfSessions DEF Ledger!TokensOf
<1>6. Ledger!TokensOf(Valid) = {l \in Logins : Accepted(l)}
  <2>1. Valid = SessionsOf({l \in Logins : Accepted(l)})
    BY DEF Valid, SessionsOf
  <2> QED BY <2>1, TokensOfSessions DEF Ledger!TokensOf
<1>7. j \notin Spent \cup Ledger!TokensOf(Valid)
  BY <1>1, <1>6 DEF Spent
<1>8. Spent' = Spent \cup ended
  BY <1>1, <1>2, <1>3 DEF Spent
<1>9. Valid' = (Valid \ old) \cup {<<u, j>>}
  <2>1. name' = name
    BY DEF Opens
  <2>2. ASSUME NEW s \in Valid' PROVE s \in (Valid \ old) \cup {<<u, j>>}
    <3>1. PICK l \in Logins : Accepted(l)' /\ s = <<name'[l], l>>
      BY <2>2 DEF Valid
    <3>2. CASE l = j
      BY <3>1, <3>2, <2>1
    <3>3. CASE Accepted(l) /\ name[l] # u
      BY <3>1, <3>3, <2>1 DEF Valid
    <3> QED BY <3>1, <3>2, <3>3, <1>2
  <2>3. <<u, j>> \in Valid'
    BY <1>2, <2>1 DEF Valid
  <2>4. ASSUME NEW s \in Valid, s \notin old PROVE s \in Valid'
    <3>1. PICK l \in Logins : Accepted(l) /\ s = <<name[l], l>>
      BY DEF Valid
    <3>2. s[1] = name[l]
      BY <3>1
    <3>3. name[l] # u
      BY <2>4, <3>2
    <3>4. Accepted(l)'
      BY <3>1, <3>3, <1>2
    <3> QED BY <3>1, <3>4, <2>1 DEF Valid
  <2> QED BY <2>2, <2>3, <2>4
<1>10. Ledger!Open(u, j)
  BY <1>5, <1>7, <1>8, <1>9 DEF Ledger!Open, Valid, Spent
<1> QED BY <1>10, <1>1 DEF Ledger!SessionNext

\* The service keeps the promise "one account, one device" of SingleSession: at
\* most one token of a user is in force, a login ends the user's previous
\* session, and a token that has ended is never in force again.
THEOREM SessionsRefine == Spec => ImplementsLedger
<1>1. Init => Ledger!SessionInit
  <2> SUFFICES ASSUME Init PROVE Ledger!SessionInit
    OBVIOUS
  <2>1. \A l \in Logins : pc[l] = "idle"
    BY DEF Init, Requests
  <2> QED BY <2>1 DEF Ledger!SessionInit, Accepted
<1>2. SessionInv /\ SessionInv' /\ [Next]_vars => [Ledger!SessionNext]_<<Valid, Spent>>
  <2> SUFFICES ASSUME SessionInv, SessionInv', [Next]_vars
               PROVE  [Ledger!SessionNext]_<<Valid, Spent>>
    OBVIOUS
  <2>1. BindingsKeep /\ AnswersKeep
    BY StepKeeps DEF SessionInv
  <2>2. CASE EndsOnly
    BY <2>1, <2>2, EndsStep DEF SessionInv
  <2>3. CASE \E j \in Logins : LoginStore(j) /\ Opens(j)
    BY <2>3, OpensStep DEF SessionInv
  <2> QED BY <2>2, <2>3, StepSessions DEF SessionInv
<1> QED BY <1>1, <1>2, SessionInvariant, PTL
        DEF Spec, ImplementsLedger, Ledger!SessionSpec, Valid, Spent
=============================================================================
