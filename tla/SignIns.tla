------------------------------ MODULE SignIns ------------------------------
(***************************************************************************)
(* What the session of the backend promises to those who use it: at most   *)
(* one token is in use; a token is used in one stretch, for one user, and  *)
(* once it is out of use it never comes back.  How a token is obtained,    *)
(* renewed or revoked, and what time does to it, is not seen here.         *)
(***************************************************************************)
CONSTANTS Tokens, Users, Nobody

VARIABLES
  stage,   \* of each token: "fresh", "active" or "retired"
  who      \* the user of the active token

Init == /\ stage = [t \in Tokens |-> "fresh"]
        /\ who = Nobody

\* A fresh token takes the place of the active one, if there is one.
SignIn(t, u) ==
  /\ stage[t] = "fresh"
  /\ stage' = [s \in Tokens |-> IF s = t THEN "active"
                                ELSE IF stage[s] = "active" THEN "retired"
                                ELSE stage[s]]
  /\ who' = u

\* Tokens go out of use: the active one, and those that will never be active.
Retire(S) ==
  /\ stage' = [t \in Tokens |-> IF t \in S THEN "retired" ELSE stage[t]]
  /\ who' = IF \E t \in S : stage[t] = "active" THEN Nobody ELSE who

Next == \/ \E t \in Tokens, u \in Users : SignIn(t, u)
        \/ \E S \in SUBSET Tokens : Retire(S)

Spec == Init /\ [][Next]_<<stage, who>>
=============================================================================
