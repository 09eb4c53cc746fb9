---------------------------- MODULE SingleSession ----------------------------
(***************************************************************************)
(* What AuthService promises about sessions ("one account, one device"):   *)
(* a user has at most one token in force, opening a session ends the       *)
(* user's previous one, and a token that is no longer in force never is    *)
(* again.                                                                  *)
(***************************************************************************)
CONSTANTS Users, Tokens

VARIABLES inForce,    \* pairs <<user, token>>
          spent       \* tokens that once were in force and are not any more

SessionInit == inForce = {} /\ spent = {}

TokensOf(S) == {s[2] : s \in S}

\* A login puts a new token in force, instead of the user's old one.
Open(u, t) ==
    LET old == {s \in inForce : s[1] = u}
    IN  /\ t \notin spent \cup TokensOf(inForce)
        /\ inForce' = (inForce \ old) \cup {<<u, t>>}
        /\ spent' = spent \cup TokensOf(old)

\* Logout, expiry and restart end sessions.
End(S) == /\ S # {}
          /\ inForce' = inForce \ S
          /\ spent' = spent \cup TokensOf(S)

SessionNext == \/ \E u \in Users, t \in Tokens : Open(u, t)
               \/ \E S \in SUBSET inForce : End(S)

SessionSpec == SessionInit /\ [][SessionNext]_<<inForce, spent>>
=============================================================================
