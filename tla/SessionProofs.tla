--------------------------- MODULE SessionProofs ---------------------------
(***************************************************************************)
(* Proofs about Session, for any number of login attempts and users and    *)
(* for any deadline, renewal window and lease bound.                       *)
(***************************************************************************)
EXTENDS Session, TLAPS

(***************************************************************************)
(* Types                                                                   *)
(***************************************************************************)

LEMMA Minus1Type == ASSUME NEW b \in Nat, NEW n \in 0..b PROVE Minus1(n) \in 0..b
  BY DEF Minus1

LEMMA NullTypes ==
  /\ NoSession \in SessionRecords
  /\ NoTimer \in Timers
  /\ IdleRenewal \in Renewals
  BY TimesAreTicks DEF NoSession, SessionRecords, NoTimer, Timers, IdleRenewal, Renewals, IntervalCap

LEMMA TypeInit == Init => TypeOK
  BY NullTypes, TimesAreTicks DEF Init, TypeOK

\* Whatever an attempt returns, and wherever its loop goes on, types are kept.
LEMMA ReturnType ==
  ASSUME TypeOK, NEW l \in Logins, NEW r \in SessionRecords, Return(l, r)
  PROVE  /\ pc' \in [Logins -> {"idle", "starting", "waiting", "polling", "returning", "done"}]
         /\ timer' \in [Logins -> Timers]
         /\ result' \in [Logins -> SessionRecords]
  BY NullTypes DEF Return, TypeOK

LEMMA EnterSelectType ==
  ASSUME TypeOK, NEW l \in Logins, NEW d \in 0..LoginTimeout, NEW i \in 1..IntervalCap,
         EnterSelect(l, d, i)
  PROVE  /\ pc' \in [Logins -> {"idle", "starting", "waiting", "polling", "returning", "done"}]
         /\ timer' \in [Logins -> Timers]
         /\ result' \in [Logins -> SessionRecords]
<1>1. CASE l \in cancelled \/ d = 0
  BY <1>1, NullTypes, ReturnType DEF EnterSelect
<1>2. CASE ~(l \in cancelled \/ d = 0)
  <2>1. [deadline |-> d, wake |-> i, interval |-> i] \in Timers
    BY TimesAreTicks DEF Timers, IntervalCap
  <2> QED BY <1>2, <2>1 DEF EnterSelect, TypeOK
<1> QED BY <1>1, <1>2

LEMMA TypeStep == TypeOK /\ [Next]_vars => TypeOK'
<1> SUFFICES ASSUME TypeOK, [Next]_vars PROVE TypeOK'
  OBVIOUS
<1> USE NullTypes
<1>1. ASSUME NEW l \in Logins, StartLogin(l) PROVE TypeOK'
  BY <1>1 DEF StartLogin, TypeOK, serverVars
<1>2. ASSUME NEW l \in Logins, Challenge(l) PROVE TypeOK'
  <2>1. PICK i \in 1..IntervalCap : EnterSelect(l, LoginTimeout, i)
    BY <1>2 DEF Challenge
  <2>2. LoginTimeout \in 0..LoginTimeout
    BY TimesAreTicks
  <2> QED BY <1>2, <2>1, <2>2, EnterSelectType DEF Challenge, TypeOK, runtimeVars, serverVars
<1>3. ASSUME NEW l \in Logins, StartFails(l) PROVE TypeOK'
  BY <1>3, ReturnType DEF StartFails, TypeOK, runtimeVars, serverVars
<1>4. ASSUME NEW l \in Logins, Stop(l) PROVE TypeOK'
  BY <1>4, ReturnType DEF Stop, TypeOK, runtimeVars, serverVars
<1>5. ASSUME NEW l \in Logins, StartPoll(l) PROVE TypeOK'
  BY <1>5 DEF StartPoll, TypeOK, runtimeVars, serverVars
<1>6. ASSUME NEW l \in Logins, PollPending(l) PROVE TypeOK'
  <2>1. PICK f \in {1, 2} :
          EnterSelect(l, timer[l].deadline,
                      IF f * timer[l].interval > IntervalCap THEN IntervalCap
                                                             ELSE f * timer[l].interval)
    BY <1>6 DEF PollPending
  <2>2. timer[l].deadline \in 0..LoginTimeout /\ timer[l].interval \in 1..IntervalCap
    BY DEF TypeOK, Timers
  <2>3. (IF f * timer[l].interval > IntervalCap THEN IntervalCap ELSE f * timer[l].interval)
          \in 1..IntervalCap
    BY <2>2, TimesAreTicks DEF IntervalCap
  <2> QED BY <1>6, <2>1, <2>2, <2>3, EnterSelectType DEF PollPending, TypeOK, runtimeVars, serverVars
<1>7. ASSUME NEW l \in Logins, PollComplete(l) PROVE TypeOK'
  <2>1. PICK i \in Identities, time \in Leases, renewable \in BOOLEAN :
          /\ Grant(l, i, time)
          /\ Return(l, [token |-> l, identity |-> i, left |-> time, renewable |-> renewable])
    BY <1>7 DEF PollComplete
  <2>2. [token |-> l, identity |-> i, left |-> time, renewable |-> renewable] \in SessionRecords
    BY TimesAreTicks DEF SessionRecords, Leases
  <2>3. lease' \in [Logins -> 0..MaxLease] /\ owner' \in [Logins -> Identities \cup {NoIdentity}]
    BY <2>1, TimesAreTicks DEF Grant, TypeOK, Leases
  <2> QED BY <1>7, <2>1, <2>2, <2>3, ReturnType DEF PollComplete, TypeOK, runtimeVars
<1>8. ASSUME NEW l \in Logins, PollDiscarded(l) PROVE TypeOK'
  <2>1. lease' \in [Logins -> 0..MaxLease] /\ owner' \in [Logins -> Identities \cup {NoIdentity}]
    BY <1>8, TimesAreTicks DEF PollDiscarded, Grant, TypeOK, Leases
  <2> QED BY <1>8, <2>1, ReturnType DEF PollDiscarded, TypeOK, runtimeVars
<1>9. ASSUME NEW l \in Logins, PollRefused(l) PROVE TypeOK'
  BY <1>9, ReturnType DEF PollRefused, TypeOK, runtimeVars, serverVars
<1>10. ASSUME NEW l \in Logins, FinishLogin(l) PROVE TypeOK'
  BY <1>10 DEF FinishLogin, TypeOK, serverVars
<1>11. ASSUME NEW l \in Logins, RevokeAnswered(l) PROVE TypeOK'
  BY <1>11, TimesAreTicks DEF RevokeAnswered, TypeOK, runtimeVars, loginVars
<1>12. ASSUME CancelLogin PROVE TypeOK'
  BY <1>12 DEF CancelLogin, TakeLoginCancel, TypeOK, loginVars, serverVars
<1>13. ASSUME Logout PROVE TypeOK'
  BY <1>13 DEF Logout, TakeLoginCancel, TypeOK, SessionRecords, loginVars, serverVars
<1>14. ASSUME DropExpiredSession PROVE TypeOK'
  BY <1>14 DEF DropExpiredSession, TypeOK, loginVars, serverVars
<1>15. ASSUME RenewStep PROVE TypeOK'
  <2>1. CASE RenewBegin
    <3>1. session.token \in Logins \cup {NoLogin} /\ session.identity \in Identities \cup {NoIdentity}
      BY DEF TypeOK, SessionRecords
    <3>2. [IdleRenewal EXCEPT !.pc = "requested", !.token = session.token,
                              !.identity = session.identity] \in Renewals
      BY <3>1 DEF Renewals
    <3> QED BY <2>1, <3>2 DEF RenewBegin, TypeOK, runtimeVars, loginVars, serverVars
  <2>2. CASE RenewGranted
    <3>1. PICK time \in Leases, renewable \in BOOLEAN :
            /\ lease' = [lease EXCEPT ![renewal.token] = time]
            /\ renewal' = [renewal EXCEPT !.pc = "granted", !.left = time, !.renewable = renewable]
      BY <2>2 DEF RenewGranted
    <3>2. time \in 0..MaxLease
      BY TimesAreTicks DEF Leases
    <3>3. renewal' \in Renewals
      BY <3>1, <3>2 DEF TypeOK, Renewals
    <3>4. lease' \in [Logins -> 0..MaxLease]
      BY <3>1, <3>2 DEF TypeOK
    <3> QED BY <2>2, <3>3, <3>4 DEF RenewGranted, TypeOK, runtimeVars, loginVars
  <2>3. CASE RenewFails
    BY <2>3 DEF RenewFails, TypeOK, runtimeVars, loginVars, serverVars
  <2>4. CASE RenewApply
    <3>1. renewal.left \in 0..MaxLease /\ renewal.renewable \in BOOLEAN
      BY DEF TypeOK, Renewals
    <3>2. session' \in SessionRecords
      BY <2>4, <3>1 DEF RenewApply, TypeOK, SessionRecords
    <3> QED BY <2>4, <3>2 DEF RenewApply, TypeOK, loginVars, serverVars
  <2> QED BY <1>15, <2>1, <2>2, <2>3, <2>4 DEF RenewStep
<1>16. ASSUME BeginExit PROVE TypeOK'
  BY <1>16 DEF BeginExit, TypeOK, SessionRecords, loginVars, serverVars
<1>17. ASSUME Exit PROVE TypeOK'
  BY <1>17 DEF Exit, TypeOK, serverVars
<1>18. ASSUME Tick PROVE TypeOK'
  <2>1. session' \in SessionRecords
    <3>1. Minus1(session.left) \in 0..MaxLease
      BY Minus1Type, TimesAreTicks DEF TypeOK, SessionRecords
    <3> QED BY <1>18, <3>1 DEF Tick, TypeOK, SessionRecords
  <2>2. timer' \in [Logins -> Timers]
    <3> SUFFICES ASSUME NEW l \in Logins
                 PROVE  [timer[l] EXCEPT !.deadline = Minus1(@), !.wake = Minus1(@)] \in Timers
      BY <1>18 DEF Tick
    <3>1. /\ timer[l] \in Timers
          /\ Minus1(timer[l].deadline) \in 0..LoginTimeout
          /\ Minus1(timer[l].wake) \in 0..IntervalCap
      BY Minus1Type, TimesAreTicks DEF TypeOK, Timers, IntervalCap
    <3> QED BY <3>1 DEF Timers
  <2>3. result' \in [Logins -> SessionRecords]
    <3> SUFFICES ASSUME NEW l \in Logins
                 PROVE  [result[l] EXCEPT !.left = Minus1(@)] \in SessionRecords
      BY <1>18 DEF Tick
    <3>1. result[l] \in SessionRecords /\ Minus1(result[l].left) \in 0..MaxLease
      BY Minus1Type, TimesAreTicks DEF TypeOK, SessionRecords
    <3> QED BY <3>1 DEF SessionRecords
  <2>4. lease' \in [Logins -> 0..MaxLease]
    <3> SUFFICES ASSUME NEW l \in Logins PROVE Minus1(lease[l]) \in 0..MaxLease
      BY <1>18 DEF Tick
    <3> QED BY Minus1Type, TimesAreTicks DEF TypeOK
  <2> QED BY <1>18, <2>1, <2>2, <2>3, <2>4 DEF Tick, TypeOK
<1>19. CASE UNCHANGED vars
  BY <1>19 DEF vars, TypeOK
<1> QED BY <1>1, <1>2, <1>3, <1>4, <1>5, <1>6, <1>7, <1>8, <1>9, <1>10, <1>11, <1>12, <1>13,
           <1>14, <1>15, <1>16, <1>17, <1>18, <1>19 DEF Next, LoginStep

\* The fields of RuntimeState, of the tasks and of the server keep their shape
\* in every run, whatever the number of logins and the times are.
THEOREM TypeCorrect == Spec => []TypeOK
  BY TypeInit, TypeStep, PTL DEF Spec
-----------------------------------------------------------------------------
(***************************************************************************)
(* The login_cancel slot                                                   *)
(*                                                                         *)
(* CancelSlotIsLive is not inductive alone: StartLogin puts its own, new   *)
(* token there, which must not have been cancelled before.                 *)
(***************************************************************************)

OnlyStartedAttemptsAreCancelled == \A l \in cancelled : pc[l] # "idle"

SlotInv == /\ CancelSlotIsLive
           /\ AttemptsExcludeEachOther
           /\ OnlyStartedAttemptsAreCancelled

LEMMA SlotInit == Init => SlotInv
  BY NoLoginIsNotALogin
     DEF Init, SlotInv, CancelSlotIsLive, AttemptsExcludeEachOther, InProgress, Running,
         OnlyStartedAttemptsAreCancelled

\* The steps of an attempt that neither end nor start it leave the slot alone.
\* They keep it running, and sign nobody in.
LEMMA SlotKept ==
  ASSUME TypeOK, SlotInv, UNCHANGED runtimeVars, NEW l \in Logins,
         Running(l), pc' \in [Logins -> {"idle", "starting", "waiting", "polling", "returning", "done"}],
         \E s \in {"starting", "waiting", "polling", "returning"} : pc' = [pc EXCEPT ![l] = s]
  PROVE  SlotInv'
<1> USE DEF runtimeVars, TypeOK
<1>1. CancelSlotIsLive'
  BY DEF SlotInv, CancelSlotIsLive, Running
<1>2. AttemptsExcludeEachOther'
  BY DEF SlotInv, AttemptsExcludeEachOther, InProgress, Running, SignedIn
<1>3. OnlyStartedAttemptsAreCancelled'
  BY DEF SlotInv, OnlyStartedAttemptsAreCancelled
<1> QED BY <1>1, <1>2, <1>3 DEF SlotInv

\* A step that changes neither pc nor the slot nor who is signed in.
LEMMA SlotUntouched ==
  ASSUME SlotInv, UNCHANGED <<pc, loginCancel, cancelled>>, SignedIn' => SignedIn
  PROVE  SlotInv'
  BY DEF SlotInv, CancelSlotIsLive, AttemptsExcludeEachOther, InProgress, Running,
         OnlyStartedAttemptsAreCancelled

LEMMA SlotTaken ==
  ASSUME TypeOK, SlotInv, TakeLoginCancel, UNCHANGED pc, SignedIn' => SignedIn
  PROVE  SlotInv'
<1> USE NoLoginIsNotALogin DEF TakeLoginCancel, TypeOK
<1>1. CancelSlotIsLive'
  BY DEF CancelSlotIsLive
<1>2. AttemptsExcludeEachOther'
  BY DEF SlotInv, AttemptsExcludeEachOther, InProgress, Running
<1>3. OnlyStartedAttemptsAreCancelled'
  BY DEF SlotInv, OnlyStartedAttemptsAreCancelled, CancelSlotIsLive, Running
<1> QED BY <1>1, <1>2, <1>3 DEF SlotInv

LEMMA SlotStep == TypeOK /\ SlotInv /\ [Next]_vars => SlotInv'
<1> SUFFICES ASSUME TypeOK, SlotInv, [Next]_vars PROVE SlotInv'
  OBVIOUS
<1> USE NoLoginIsNotALogin
<1>1. ASSUME NEW l \in Logins, StartLogin(l) PROVE SlotInv'
  <2>1. CancelSlotIsLive'
    BY <1>1 DEF StartLogin, SlotInv, CancelSlotIsLive, OnlyStartedAttemptsAreCancelled, Running, TypeOK
  <2>2. AttemptsExcludeEachOther'
    BY <1>1 DEF StartLogin, SlotInv, AttemptsExcludeEachOther, InProgress, Running, SignedIn, TypeOK
  <2>3. OnlyStartedAttemptsAreCancelled'
    BY <1>1 DEF StartLogin, SlotInv, OnlyStartedAttemptsAreCancelled, TypeOK
  <2> QED BY <2>1, <2>2, <2>3 DEF SlotInv
<1>2. ASSUME NEW l \in Logins, Challenge(l) PROVE SlotInv'
  <2>1. PICK i \in 1..IntervalCap : EnterSelect(l, LoginTimeout, i)
    BY <1>2 DEF Challenge
  <2> QED BY <1>2, <2>1, SlotKept DEF Challenge, EnterSelect, Return, Running, TypeOK
<1>3. ASSUME NEW l \in Logins, StartFails(l) PROVE SlotInv'
  BY <1>3, SlotKept DEF StartFails, Return, Running, TypeOK
<1>4. ASSUME NEW l \in Logins, Stop(l) PROVE SlotInv'
  BY <1>4, SlotKept DEF Stop, Return, Running, TypeOK
<1>5. ASSUME NEW l \in Logins, StartPoll(l) PROVE SlotInv'
  BY <1>5, SlotKept DEF StartPoll, Running, TypeOK
<1>6. ASSUME NEW l \in Logins, PollPending(l) PROVE SlotInv'
  <2>1. \E s \in {"waiting", "returning"} : pc' = [pc EXCEPT ![l] = s]
    BY <1>6 DEF PollPending, EnterSelect, Return
  <2>2. Running(l) /\ UNCHANGED runtimeVars
    BY <1>6 DEF PollPending, Running
  <2> QED BY <2>1, <2>2, SlotKept DEF TypeOK
<1>7. ASSUME NEW l \in Logins, PollComplete(l) PROVE SlotInv'
  <2>1. pc' = [pc EXCEPT ![l] = "returning"]
    BY <1>7 DEF PollComplete, Return
  <2>2. Running(l) /\ UNCHANGED runtimeVars
    BY <1>7 DEF PollComplete, Running
  <2> QED BY <2>1, <2>2, SlotKept DEF TypeOK
<1>8. ASSUME NEW l \in Logins, PollDiscarded(l) PROVE SlotInv'
  BY <1>8, SlotKept DEF PollDiscarded, Return, Running, TypeOK
<1>9. ASSUME NEW l \in Logins, PollRefused(l) PROVE SlotInv'
  BY <1>9, SlotKept DEF PollRefused, Return, Running, TypeOK
<1>10. ASSUME NEW l \in Logins, FinishLogin(l) PROVE SlotInv'
  <2>1. CancelSlotIsLive'
    BY <1>10 DEF FinishLogin, CancelSlotIsLive
  <2>2. AttemptsExcludeEachOther'
    BY <1>10 DEF FinishLogin, SlotInv, AttemptsExcludeEachOther, InProgress, Running, TypeOK
  <2>3. OnlyStartedAttemptsAreCancelled'
    BY <1>10 DEF FinishLogin, SlotInv, OnlyStartedAttemptsAreCancelled, TypeOK
  <2> QED BY <2>1, <2>2, <2>3 DEF SlotInv
<1>11. ASSUME NEW l \in Logins, RevokeAnswered(l) PROVE SlotInv'
  BY <1>11, SlotUntouched DEF RevokeAnswered, runtimeVars, loginVars, SignedIn
<1>12. ASSUME CancelLogin PROVE SlotInv'
  BY <1>12, SlotTaken DEF CancelLogin, loginVars, SignedIn
<1>13. ASSUME Logout PROVE SlotInv'
  BY <1>13, SlotTaken DEF Logout, loginVars, SignedIn, NoSession
<1>14. ASSUME DropExpiredSession PROVE SlotInv'
  BY <1>14, SlotUntouched DEF DropExpiredSession, loginVars, SignedIn, NoSession
<1>15. ASSUME RenewStep PROVE SlotInv'
  <2>1. CASE RenewBegin
    BY <2>1, SlotUntouched DEF RenewBegin, runtimeVars, loginVars, SignedIn
  <2>2. CASE RenewGranted
    BY <2>2, SlotUntouched DEF RenewGranted, runtimeVars, loginVars, SignedIn
  <2>3. CASE RenewFails
    BY <2>3, SlotUntouched DEF RenewFails, runtimeVars, loginVars, SignedIn
  <2>4. CASE RenewApply
    BY <2>4, SlotUntouched DEF RenewApply, loginVars, SignedIn
  <2> QED BY <1>15, <2>1, <2>2, <2>3, <2>4 DEF RenewStep
<1>16. ASSUME BeginExit PROVE SlotInv'
  BY <1>16, SlotUntouched DEF BeginExit, loginVars, SignedIn, NoSession
<1>17. ASSUME Exit PROVE SlotInv'
  <2>1. \A l \in Logins : pc'[l] \notin {"starting", "waiting", "polling", "returning"}
    BY <1>17 DEF Exit, Running, TypeOK
  <2>2. \A l \in Logins : pc'[l] = "idle" => pc[l] = "idle"
    BY <1>17 DEF Exit
  <2> QED BY <1>17, <2>1, <2>2
          DEF Exit, SlotInv, CancelSlotIsLive, AttemptsExcludeEachOther, InProgress, Running,
              OnlyStartedAttemptsAreCancelled, TypeOK
<1>18. ASSUME Tick PROVE SlotInv'
  <2>1. session'.token = session.token
    BY <1>18 DEF Tick, TypeOK, SessionRecords
  <2> QED BY <1>18, <2>1, SlotUntouched DEF Tick, SignedIn
<1>19. CASE UNCHANGED vars
  BY <1>19, SlotUntouched DEF vars, SignedIn
<1> QED BY <1>1, <1>2, <1>3, <1>4, <1>5, <1>6, <1>7, <1>8, <1>9, <1>10, <1>11, <1>12, <1>13,
           <1>14, <1>15, <1>16, <1>17, <1>18, <1>19 DEF Next, LoginStep

\* login_cancel never holds a token that is of no use: a login that is refused
\* because another one is in progress can be made possible by cancel_login.
THEOREM SlotIsLive == Spec => []CancelSlotIsLive
<1>1. SlotInv => CancelSlotIsLive
  BY DEF SlotInv
<1> QED BY <1>1, TypeInit, TypeStep, SlotInit, SlotStep, PTL DEF Spec

\* As long as nobody has cancelled an attempt, two attempts never run together,
\* and none runs beside a session.
THEOREM AttemptsAreExclusive == Spec => []AttemptsExcludeEachOther
<1>1. SlotInv => AttemptsExcludeEachOther
  BY DEF SlotInv
<1> QED BY <1>1, TypeInit, TypeStep, SlotInit, SlotStep, PTL DEF Spec
-----------------------------------------------------------------------------
(***************************************************************************)
(* Tokens and the identities they belong to                                *)
(*                                                                         *)
(* A token that is held anywhere has been granted to its owner, who never  *)
(* changes (Grant happens once per attempt).  Where its attempt is tells   *)
(* who can hold it: the attempt itself while it returns, the session, a    *)
(* logout or a renewal once it is done.                                    *)
(***************************************************************************)

ResultInv == \A l \in Logins :
  result[l].token # NoLogin => /\ result[l].token = l
                               /\ pc[l] = "returning"
                               /\ owner[l] # NoIdentity
                               /\ result[l].identity = owner[l]

SessionInv == SignedIn => /\ pc[session.token] = "done"
                          /\ session.token \notin revoking
                          /\ owner[session.token] # NoIdentity
                          /\ session.identity = owner[session.token]

RenewalInv == renewal.pc # "sleeping" => /\ renewal.token \in Logins
                                         /\ owner[renewal.token] # NoIdentity
                                         /\ renewal.identity = owner[renewal.token]

RevokingInv == \A l \in revoking : pc[l] = "done"

TokenInv == ResultInv /\ SessionInv /\ RenewalInv /\ RevokingInv

LEMMA TokenInit == Init => TokenInv
  BY DEF Init, TokenInv, ResultInv, SessionInv, RenewalInv, RevokingInv, SignedIn, NoSession, IdleRenewal

\* A step of an attempt that is not at its end and obtains no token.
LEMMA TokenKept ==
  ASSUME TypeOK, TokenInv, UNCHANGED <<session, renewal, revoking, owner>>, NEW l \in Logins,
         pc[l] \in {"idle", "starting", "waiting", "polling"},
         \E s \in {"starting", "waiting", "polling", "returning"} : pc' = [pc EXCEPT ![l] = s],
         result' = result \/ result' = [result EXCEPT ![l] = NoSession]
  PROVE  TokenInv'
<1> USE DEF TypeOK, TokenInv
<1>1. ResultInv'
  BY DEF ResultInv, NoSession
<1>2. SessionInv'
  BY DEF SessionInv, SignedIn, SessionRecords
<1>3. RenewalInv'
  BY DEF RenewalInv
<1>4. RevokingInv'
  BY DEF RevokingInv
<1> QED BY <1>1, <1>2, <1>3, <1>4

\* A step of the session, the renewal loop or a revocation, that signs nobody
\* in and begins no renewal.
SignsNobodyIn ==
  /\ UNCHANGED <<pc, result, owner>>
  /\ \/ session'.token = NoLogin
     \/ session'.token = session.token /\ session'.identity = session.identity
  /\ \/ renewal' = renewal
     \/ renewal'.pc = "sleeping"
     \/ renewal.pc # "sleeping" /\ renewal'.token = renewal.token
          /\ renewal'.identity = renewal.identity
  /\ revoking' \subseteq revoking \cup ({session.token} \ {NoLogin})
  /\ session'.token = session.token => revoking' \subseteq revoking

LEMMA TokenUntouched == ASSUME TypeOK, TokenInv, SignsNobodyIn PROVE TokenInv'
<1> USE DEF TypeOK, TokenInv, SignsNobodyIn
<1>1. ResultInv'
  BY DEF ResultInv
<1>2. SessionInv'
  BY DEF SessionInv, SignedIn
<1>3. RenewalInv'
  BY DEF RenewalInv
<1>4. RevokingInv'
  BY DEF RevokingInv, SessionInv, SignedIn
<1> QED BY <1>1, <1>2, <1>3, <1>4

LEMMA TokenStep == TypeOK /\ TokenInv /\ [Next]_vars => TokenInv'
<1> SUFFICES ASSUME TypeOK, TokenInv, [Next]_vars PROVE TokenInv'
  OBVIOUS
<1> USE NoLoginIsNotALogin
<1>1. ASSUME NEW l \in Logins, StartLogin(l) PROVE TokenInv'
  BY <1>1, TokenKept DEF StartLogin, serverVars
<1>2. ASSUME NEW l \in Logins, Challenge(l) PROVE TokenInv'
  <2>1. PICK i \in 1..IntervalCap : EnterSelect(l, LoginTimeout, i)
    BY <1>2 DEF Challenge
  <2> QED BY <1>2, <2>1, TokenKept DEF Challenge, EnterSelect, Return, runtimeVars, serverVars
<1>3. ASSUME NEW l \in Logins, StartFails(l) PROVE TokenInv'
  BY <1>3, TokenKept DEF StartFails, Return, runtimeVars, serverVars
<1>4. ASSUME NEW l \in Logins, Stop(l) PROVE TokenInv'
  BY <1>4, TokenKept DEF Stop, Return, runtimeVars, serverVars
<1>5. ASSUME NEW l \in Logins, StartPoll(l) PROVE TokenInv'
  BY <1>5, TokenKept DEF StartPoll, runtimeVars, serverVars
<1>6. ASSUME NEW l \in Logins, PollPending(l) PROVE TokenInv'
  <2>1. /\ \E s \in {"waiting", "returning"} : pc' = [pc EXCEPT ![l] = s]
        /\ result' = result \/ result' = [result EXCEPT ![l] = NoSession]
    BY <1>6 DEF PollPending, EnterSelect, Return
  <2>2. pc[l] = "polling" /\ UNCHANGED <<session, renewal, revoking, owner>>
    BY <1>6 DEF PollPending, runtimeVars, serverVars
  <2> QED BY <2>1, <2>2, TokenKept
<1>7. ASSUME NEW l \in Logins, PollComplete(l) PROVE TokenInv'
  <2>1. PICK i \in Identities, time \in Leases, renewable \in BOOLEAN :
          /\ Grant(l, i, time)
          /\ Return(l, [token |-> l, identity |-> i, left |-> time, renewable |-> renewable])
    BY <1>7 DEF PollComplete
  <2>2. /\ owner[l] = NoIdentity /\ owner' = [owner EXCEPT ![l] = i]
        /\ pc[l] = "polling" /\ pc' = [pc EXCEPT ![l] = "returning"]
        /\ result' = [result EXCEPT ![l] =
                        [token |-> l, identity |-> i, left |-> time, renewable |-> renewable]]
        /\ UNCHANGED <<session, renewal, revoking>>
    BY <1>7, <2>1 DEF PollComplete, Grant, Return, runtimeVars
  <2>3. ResultInv'
    BY <2>2, NoIdentityIsNotAnIdentity DEF TokenInv, ResultInv, TypeOK
  <2>4. SessionInv'
    BY <2>2 DEF TokenInv, SessionInv, SignedIn, TypeOK, SessionRecords
  <2>5. RenewalInv'
    BY <2>2 DEF TokenInv, RenewalInv, TypeOK
  <2>6. RevokingInv'
    BY <2>2 DEF TokenInv, RevokingInv, TypeOK
  <2> QED BY <2>3, <2>4, <2>5, <2>6 DEF TokenInv
<1>8. ASSUME NEW l \in Logins, PollDiscarded(l) PROVE TokenInv'
  <2>1. PICK i \in Identities : owner[l] = NoIdentity /\ owner' = [owner EXCEPT ![l] = i]
    BY <1>8 DEF PollDiscarded, Grant
  <2>2. /\ pc[l] = "polling" /\ pc' = [pc EXCEPT ![l] = "returning"]
        /\ result' = [result EXCEPT ![l] = NoSession]
        /\ UNCHANGED <<session, renewal, revoking>>
    BY <1>8 DEF PollDiscarded, Return, runtimeVars
  <2>3. ResultInv'
    BY <2>1, <2>2 DEF TokenInv, ResultInv, TypeOK, NoSession
  <2>4. SessionInv'
    BY <2>1, <2>2 DEF TokenInv, SessionInv, SignedIn, TypeOK, SessionRecords
  <2>5. RenewalInv'
    BY <2>1, <2>2 DEF TokenInv, RenewalInv, TypeOK
  <2>6. RevokingInv'
    BY <2>2 DEF TokenInv, RevokingInv, TypeOK
  <2> QED BY <2>3, <2>4, <2>5, <2>6 DEF TokenInv
<1>9. ASSUME NEW l \in Logins, PollRefused(l) PROVE TokenInv'
  BY <1>9, TokenKept DEF PollRefused, Return, runtimeVars, serverVars
<1>10. ASSUME NEW l \in Logins, FinishLogin(l) PROVE TokenInv'
  <2>1. /\ pc[l] = "returning" /\ pc' = [pc EXCEPT ![l] = "done"]
        /\ session' = IF result[l].token = NoLogin THEN session ELSE result[l]
        /\ result' = [result EXCEPT ![l] = NoSession]
        /\ UNCHANGED <<renewal, revoking, owner>>
    BY <1>10 DEF FinishLogin, serverVars
  <2>2. ResultInv'
    BY <2>1 DEF TokenInv, ResultInv, TypeOK, NoSession
  <2>3. SessionInv'
    <3>1. CASE result[l].token = NoLogin
      BY <2>1, <3>1 DEF TokenInv, SessionInv, SignedIn, TypeOK, SessionRecords
    <3>2. CASE result[l].token # NoLogin
      <4>1. session'.token = l /\ session'.identity = owner[l] /\ owner[l] # NoIdentity
        BY <2>1, <3>2 DEF TokenInv, ResultInv
      <4>2. l \notin revoking /\ pc'[l] = "done"
        BY <2>1 DEF TokenInv, RevokingInv, TypeOK
      <4> QED BY <2>1, <4>1, <4>2 DEF SessionInv
    <3> QED BY <3>1, <3>2
  <2>4. RenewalInv' /\ RevokingInv'
    BY <2>1 DEF TokenInv, RenewalInv, RevokingInv, TypeOK
  <2> QED BY <2>2, <2>3, <2>4 DEF TokenInv
<1>11. ASSUME NEW l \in Logins, RevokeAnswered(l) PROVE TokenInv'
  <2>1. SignsNobodyIn
    BY <1>11 DEF RevokeAnswered, SignsNobodyIn, runtimeVars, loginVars
  <2> QED BY <2>1, TokenUntouched
<1>12. ASSUME CancelLogin PROVE TokenInv'
  <2>1. SignsNobodyIn
    BY <1>12 DEF CancelLogin, SignsNobodyIn, loginVars, serverVars
  <2> QED BY <2>1, TokenUntouched
<1>13. ASSUME Logout PROVE TokenInv'
  <2>1. SignsNobodyIn
    BY <1>13 DEF Logout, SignsNobodyIn, loginVars, serverVars, NoSession
  <2> QED BY <2>1, TokenUntouched
<1>14. ASSUME DropExpiredSession PROVE TokenInv'
  <2>1. SignsNobodyIn
    BY <1>14 DEF DropExpiredSession, SignsNobodyIn, loginVars, serverVars, NoSession
  <2> QED BY <2>1, TokenUntouched
<1>15. ASSUME RenewStep PROVE TokenInv'
  <2>1. CASE RenewBegin
    <3>1. /\ UNCHANGED <<session, pc, result, revoking, owner>>
          /\ SignedIn
          /\ renewal'.token = session.token /\ renewal'.identity = session.identity
      BY <2>1 DEF RenewBegin, IdleRenewal, runtimeVars, loginVars, serverVars
    <3>2. RenewalInv'
      BY <3>1 DEF TokenInv, SessionInv, RenewalInv, SignedIn, TypeOK, SessionRecords
    <3> QED BY <3>1, <3>2 DEF TokenInv, ResultInv, SessionInv, RevokingInv, SignedIn
  <2>2. CASE RenewGranted
    <3>1. renewal.pc # "sleeping" /\ renewal'.token = renewal.token
            /\ renewal'.identity = renewal.identity
      BY <2>2 DEF RenewGranted, TypeOK, Renewals
    <3>2. SignsNobodyIn
      BY <2>2, <3>1 DEF RenewGranted, SignsNobodyIn, runtimeVars, loginVars
    <3> QED BY <3>2, TokenUntouched
  <2>3. CASE RenewFails
    <3>1. SignsNobodyIn
      BY <2>3 DEF RenewFails, IdleRenewal, SignsNobodyIn, runtimeVars, loginVars, serverVars
    <3> QED BY <3>1, TokenUntouched
  <2>4. CASE RenewApply
    <3>1. session'.token = session.token /\ session'.identity = session.identity
      BY <2>4 DEF RenewApply, TypeOK, SessionRecords
    <3>2. SignsNobodyIn
      BY <2>4, <3>1 DEF RenewApply, IdleRenewal, SignsNobodyIn, loginVars, serverVars
    <3> QED BY <3>2, TokenUntouched
  <2> QED BY <1>15, <2>1, <2>2, <2>3, <2>4 DEF RenewStep
<1>16. ASSUME BeginExit PROVE TokenInv'
  <2>1. SignsNobodyIn
    BY <1>16 DEF BeginExit, SignsNobodyIn, loginVars, serverVars, NoSession
  <2> QED BY <2>1, TokenUntouched
<1>17. ASSUME Exit PROVE TokenInv'
  BY <1>17 DEF Exit, TokenInv, ResultInv, SessionInv, RenewalInv, RevokingInv, SignedIn,
               NoSession, IdleRenewal
<1>18. ASSUME Tick PROVE TokenInv'
  <2>1. session'.token = session.token /\ session'.identity = session.identity
    BY <1>18 DEF Tick, TypeOK, SessionRecords
  <2>2. \A l \in Logins : result'[l].token = result[l].token /\ result'[l].identity = result[l].identity
    BY <1>18 DEF Tick, TypeOK, SessionRecords
  <2>3. UNCHANGED <<pc, renewal, revoking, owner>>
    BY <1>18 DEF Tick
  <2> QED BY <2>1, <2>2, <2>3
          DEF TokenInv, ResultInv, SessionInv, RenewalInv, RevokingInv, SignedIn
<1>19. CASE UNCHANGED vars
  BY <1>19 DEF vars, TokenInv, ResultInv, SessionInv, RenewalInv, RevokingInv, SignedIn
<1> QED BY <1>1, <1>2, <1>3, <1>4, <1>5, <1>6, <1>7, <1>8, <1>9, <1>10, <1>11, <1>12, <1>13,
           <1>14, <1>15, <1>16, <1>17, <1>18, <1>19 DEF Next, LoginStep

\* A token has one holder: a token that was handed over for revocation, or that
\* an attempt is about to return, is not the session's.
THEOREM OneHolder == Spec => []TokenHasOneHolder
<1>1. TypeOK /\ TokenInv => TokenHasOneHolder
  BY NoLoginIsNotALogin
     DEF TokenInv, ResultInv, SessionInv, RevokingInv, TokenHasOneHolder, SignedIn, TypeOK
<1> QED BY <1>1, TypeInit, TypeStep, TokenInit, TokenStep, PTL DEF Spec

\* The identity beside a token, in the session and in a renewal, is that of the
\* user the token was granted to.
THEOREM IdentityIsOwner == Spec => []IdentityIsTheTokensOwner
<1>1. TokenInv => IdentityIsTheTokensOwner
  BY DEF TokenInv, SessionInv, RenewalInv, IdentityIsTheTokensOwner
<1> QED BY <1>1, TypeInit, TypeStep, TokenInit, TokenStep, PTL DEF Spec
-----------------------------------------------------------------------------
(***************************************************************************)
(* Who may write the session                                               *)
(***************************************************************************)

\* Every step but the return of a login keeps the session's token or drops it.
LEMMA SessionWriters ==
  ASSUME TypeOK, [Next]_vars, session'.token \notin {NoLogin, session.token}
  PROVE  \E l \in Logins : FinishLogin(l) /\ result[l].token # NoLogin /\ session' = result[l]
<1>1. ASSUME NEW l \in Logins, FinishLogin(l)
      PROVE  FinishLogin(l) /\ result[l].token # NoLogin /\ session' = result[l]
  BY <1>1 DEF FinishLogin
<1>2. ASSUME NEW l \in Logins, Challenge(l) \/ StartFails(l) \/ Stop(l) \/ StartPoll(l)
                                \/ PollPending(l) \/ PollComplete(l) \/ PollDiscarded(l)
                                \/ PollRefused(l)
      PROVE  FALSE
  BY <1>2 DEF Challenge, StartFails, Stop, StartPoll, PollPending, PollComplete, PollDiscarded,
              PollRefused, runtimeVars
<1>3. ASSUME NEW l \in Logins, StartLogin(l) \/ RevokeAnswered(l) PROVE FALSE
  BY <1>3 DEF StartLogin, RevokeAnswered, runtimeVars
<1>4. ASSUME CancelLogin \/ Logout \/ DropExpiredSession \/ BeginExit \/ Exit PROVE FALSE
  BY <1>4 DEF CancelLogin, Logout, DropExpiredSession, BeginExit, Exit, NoSession
<1>5. ASSUME RenewStep PROVE FALSE
  <2>1. ASSUME RenewApply PROVE FALSE
    BY <2>1 DEF RenewApply, TypeOK, SessionRecords
  <2> QED BY <1>5, <2>1 DEF RenewStep, RenewBegin, RenewGranted, RenewFails, runtimeVars
<1>6. ASSUME Tick PROVE FALSE
  BY <1>6 DEF Tick, TypeOK, SessionRecords
<1>7. ASSUME UNCHANGED vars PROVE FALSE
  BY <1>7 DEF vars
<1> QED BY <1>1, <1>2, <1>3, <1>4, <1>5, <1>6, <1>7 DEF Next, LoginStep

\* Only a login attempt that returns signs a user in, with its own token: the
\* renewal loop revives no session that was dropped while it awaited OpenBao.
THEOREM LoginsSignIn == Spec => OnlyLoginsSignIn
<1>1. ASSUME TypeOK, TokenInv, [Next]_vars, session'.token \notin {NoLogin, session.token}
      PROVE  pc[session'.token] = "returning" /\ pc'[session'.token] = "done"
  <2>1. PICK l \in Logins :
          FinishLogin(l) /\ result[l].token # NoLogin /\ session' = result[l]
    BY <1>1, SessionWriters
  <2>2. session'.token = l
    BY <1>1, <2>1 DEF TokenInv, ResultInv
  <2> QED BY <1>1, <2>1, <2>2 DEF FinishLogin, TypeOK
<1> QED BY <1>1, TypeInit, TypeStep, TokenInit, TokenStep, PTL DEF Spec, OnlyLoginsSignIn

\* A login overwrites a session only when an attempt was cancelled before.
THEOREM ReplacementNeedsACancel == Spec => SessionsAreReplacedOnlyAfterACancel
<1>1. ASSUME TypeOK, SlotInv, [Next]_vars, SignedIn, session'.token \notin {NoLogin, session.token}
      PROVE  cancelled # {}
  <2>1. PICK l \in Logins : FinishLogin(l)
    BY <1>1, SessionWriters
  <2>2. l \in InProgress
    BY <2>1 DEF FinishLogin, InProgress, Running
  <2> QED BY <1>1, <2>2 DEF SlotInv, AttemptsExcludeEachOther
<1> QED BY <1>1, TypeInit, TypeStep, SlotInit, SlotStep, PTL
        DEF Spec, SessionsAreReplacedOnlyAfterACancel

\* A session that is dropped before it expires is handed to a revocation by the step
\* that drops it: `logout' and the exit take token and session under one lock, and no
\* other step than the discovery of an expiry drops a session.
THEOREM DroppedAreRevoked == Spec => DroppedTokensAreRevoked
<1>1. ASSUME TypeOK, [Next]_vars, SignedIn, session'.token = NoLogin, session.left > 0,
             exiting' # "exited"
      PROVE  session.token \in revoking'
  <2> USE <1>1 DEF SignedIn
  <2>1. CASE Logout \/ BeginExit
    BY <2>1 DEF Logout, BeginExit
  <2>2. CASE DropExpiredSession
    BY <2>2 DEF DropExpiredSession
  <2>3. CASE Exit
    BY <2>3 DEF Exit
  <2>4. ASSUME NEW l \in Logins, StartLogin(l) \/ LoginStep(l) \/ RevokeAnswered(l) PROVE FALSE
    BY <2>4 DEF StartLogin, RevokeAnswered, LoginStep, Challenge, StartFails, Stop, StartPoll,
       PollPending, PollComplete, PollDiscarded, PollRefused, FinishLogin, runtimeVars
  <2>5. CASE CancelLogin \/ UNCHANGED vars
    BY <2>5 DEF CancelLogin, vars
  <2>6. CASE RenewStep
    <3>1. ASSUME RenewApply PROVE FALSE
      BY <3>1 DEF RenewApply, TypeOK, SessionRecords
    <3> QED BY <2>6, <3>1 DEF RenewStep, RenewBegin, RenewGranted, RenewFails, runtimeVars
  <2>7. CASE Tick
    BY <2>7 DEF Tick, TypeOK, SessionRecords
  <2> QED BY <2>1, <2>2, <2>3, <2>4, <2>5, <2>6, <2>7 DEF Next
<1> QED BY <1>1, TypeInit, TypeStep, PTL DEF Spec, DroppedTokensAreRevoked
-----------------------------------------------------------------------------
(***************************************************************************)
(* Session implements SignIns, for every value of the constants.  A step   *)
(* of Session either is the return of a login with a token, which is       *)
(* SignIn, or leaves the session's token alone or drops it, and ends       *)
(* attempts without reviving one: that is Retire, possibly of no token.    *)
(***************************************************************************)

\* Without a session no user is shown.
NobodyInv == ~SignedIn => session.identity = NoIdentity

RInv == TypeOK /\ TokenInv /\ NobodyInv

\* A step that keeps the session's token or drops it, and keeps ended attempts ended.
Quiet ==
  /\ \/ session'.token = session.token /\ session'.identity = session.identity
     \/ session'.token = NoLogin /\ session'.identity = NoIdentity
  /\ \A l \in Logins : pc[l] = "done" => pc'[l] = "done"

LEMMA StepKinds ==
  ASSUME TypeOK, [Next]_vars
  PROVE  \/ Quiet
         \/ \E l \in Logins : FinishLogin(l) /\ result[l].token # NoLogin
<1>1. ASSUME NEW l \in Logins, FinishLogin(l), result[l].token = NoLogin PROVE Quiet
  BY <1>1 DEF FinishLogin, Quiet, TypeOK
<1>2. ASSUME NEW l \in Logins, StartLogin(l) \/ StartFails(l) \/ Stop(l) \/ StartPoll(l)
                                \/ PollComplete(l) \/ PollDiscarded(l) \/ PollRefused(l)
      PROVE  Quiet
  BY <1>2 DEF StartLogin, StartFails, Stop, StartPoll, PollComplete, PollDiscarded, PollRefused,
              Return, Quiet, TypeOK, runtimeVars, Running
<1>3. ASSUME NEW l \in Logins, Challenge(l) \/ PollPending(l) PROVE Quiet
  <2>1. PICK d, i : EnterSelect(l, d, i)
    BY <1>3 DEF Challenge, PollPending
  <2>2. pc[l] # "done" /\ UNCHANGED session
    BY <1>3 DEF Challenge, PollPending, runtimeVars
  <2>3. \/ pc' = [pc EXCEPT ![l] = "waiting"]
        \/ pc' = [pc EXCEPT ![l] = "returning"]
    BY <2>1 DEF EnterSelect, Return
  <2> QED BY <2>2, <2>3 DEF Quiet, TypeOK
<1>4. ASSUME NEW l \in Logins, RevokeAnswered(l) PROVE Quiet
  BY <1>4 DEF RevokeAnswered, Quiet, runtimeVars, loginVars
<1>5. ASSUME CancelLogin \/ Logout \/ DropExpiredSession \/ BeginExit PROVE Quiet
  BY <1>5 DEF CancelLogin, Logout, DropExpiredSession, BeginExit, NoSession, Quiet, loginVars
<1>6. ASSUME Exit PROVE Quiet
  BY <1>6 DEF Exit, NoSession, Quiet
<1>7. ASSUME RenewStep PROVE Quiet
  <2>1. ASSUME RenewApply PROVE Quiet
    BY <2>1 DEF RenewApply, TypeOK, SessionRecords, Quiet, loginVars
  <2> QED BY <1>7, <2>1 DEF RenewStep, RenewBegin, RenewGranted, RenewFails, Quiet, runtimeVars, loginVars
<1>8. ASSUME Tick PROVE Quiet
  BY <1>8 DEF Tick, TypeOK, SessionRecords, Quiet
<1>9. ASSUME UNCHANGED vars PROVE Quiet
  BY <1>9 DEF vars, Quiet
<1> QED BY <1>1, <1>2, <1>3, <1>4, <1>5, <1>6, <1>7, <1>8, <1>9 DEF Next, LoginStep

LEMMA NobodyStep == RInv /\ [Next]_vars => NobodyInv'
<1> SUFFICES ASSUME RInv, [Next]_vars PROVE NobodyInv'
  OBVIOUS
<1>1. CASE Quiet
  BY <1>1 DEF RInv, Quiet, NobodyInv, SignedIn
<1>2. ASSUME NEW l \in Logins, FinishLogin(l), result[l].token # NoLogin PROVE NobodyInv'
  BY <1>2 DEF FinishLogin, NobodyInv, SignedIn
<1> QED BY <1>1, <1>2, StepKinds DEF RInv

\* The initial state of a run has no active token, and no user.
LEMMA ViewInit == Init => View!Init
  BY NoLoginIsNotALogin DEF Init, View!Init, Stage, NoSession

\* A login that returns with its token is SignIn: the token was never in use.
LEMMA FinishIsSignIn ==
  ASSUME RInv, NEW l \in Logins, FinishLogin(l), result[l].token # NoLogin
  PROVE  \E i \in Identities : View!SignIn(l, i)
<1>1. /\ pc[l] = "returning" /\ pc' = [pc EXCEPT ![l] = "done"]
      /\ session'.token = l /\ session'.identity = owner[l]
      /\ owner[l] \in Identities
  BY DEF FinishLogin, RInv, TokenInv, ResultInv, TypeOK
<1>2. session.token # l
  BY <1>1, NoLoginIsNotALogin DEF RInv, TokenInv, SessionInv, SignedIn
<1>3. Stage[l] = "fresh"
  BY <1>1, <1>2 DEF Stage
<1>4. Stage' = [s \in Logins |-> IF s = l THEN "active"
                                 ELSE IF Stage[s] = "active" THEN "retired"
                                 ELSE Stage[s]]
  <2>1. ASSUME NEW s \in Logins, s # l, session.token = s PROVE pc'[s] = "done"
    BY <1>1, <2>1, NoLoginIsNotALogin DEF RInv, TokenInv, SessionInv, SignedIn, TypeOK
  <2>2. \A s \in Logins : s # l => pc'[s] = pc[s]
    BY <1>1 DEF RInv, TypeOK
  <2> QED BY <1>1, <2>1, <2>2 DEF Stage
<1> QED BY <1>1, <1>3, <1>4 DEF View!SignIn

\* Every other step retires the tokens that are out of use after it.
LEMMA QuietIsRetire ==
  ASSUME RInv, Quiet
  PROVE  \E S \in SUBSET Logins : View!Retire(S)
<1> DEFINE S == {l \in Logins : Stage'[l] = "retired"}
<1>1. ASSUME NEW l \in Logins, Stage[l] = "retired" PROVE Stage'[l] = "retired"
  BY <1>1, NoLoginIsNotALogin DEF Quiet, Stage
<1>2. ASSUME NEW l \in Logins, Stage[l] = "active", Stage'[l] # "active"
      PROVE  Stage'[l] = "retired" /\ session'.token = NoLogin /\ session'.identity = NoIdentity
  <2>1. session.token = l /\ session'.token # l
    BY <1>2 DEF Stage
  <2>2. pc[l] = "done"
    BY <2>1, NoLoginIsNotALogin DEF RInv, TokenInv, SessionInv, SignedIn
  <2> QED BY <2>1, <2>2 DEF Quiet, Stage
<1>3. ASSUME NEW l \in Logins, Stage[l] = "fresh" PROVE Stage'[l] \in {"fresh", "retired"}
  BY <1>3, NoLoginIsNotALogin DEF Quiet, Stage
<1>4. ASSUME NEW l \in Logins PROVE Stage[l] \in {"fresh", "active", "retired"}
  BY DEF Stage
<1>5. Stage' = [l \in Logins |-> IF l \in S THEN "retired" ELSE Stage[l]]
  <2>1. \A l \in Logins : Stage'[l] = IF l \in S THEN "retired" ELSE Stage[l]
    BY <1>1, <1>2, <1>3, <1>4
  <2> HIDE DEF S
  <2> QED BY <2>1 DEF Stage
<1>6. session'.identity = IF \E l \in S : Stage[l] = "active" THEN NoIdentity ELSE session.identity
  <2>1. CASE \E l \in S : Stage[l] = "active"
    BY <1>2, <2>1
  <2>2. CASE ~\E l \in S : Stage[l] = "active"
    <3>1. CASE ~SignedIn
      BY <2>2, <3>1 DEF RInv, NobodyInv, Quiet
    <3>2. CASE SignedIn
      <4>1. session.token \in Logins /\ Stage[session.token] = "active"
        BY <3>2 DEF SignedIn, RInv, TypeOK, SessionRecords, Stage
      <4>2. Stage'[session.token] = "active"
        BY <1>2, <2>2, <4>1
      <4>3. session'.token = session.token
        BY <4>1, <4>2 DEF Stage
      <4> QED BY <2>2, <3>2, <4>3 DEF Quiet, SignedIn
    <3> QED BY <3>1, <3>2
  <2> QED BY <2>1, <2>2
<1> HIDE DEF S
<1>7. View!Retire(S)
  BY <1>5, <1>6 DEF View!Retire
<1>8. S \in SUBSET Logins
  BY DEF S
<1> QED BY <1>7, <1>8

\* The session, behind its mutex and with all that awaits around it, serves its
\* users as SignIns promises: tokens are used in one stretch and for one user.
THEOREM Refinement == Spec => ImplementsSignIns
<1>1. Init => RInv
  BY TypeInit, TokenInit DEF RInv, NobodyInv, Init, NoSession
<1>2. RInv /\ [Next]_vars => RInv'
  BY TypeStep, TokenStep, NobodyStep DEF RInv
<1>3. RInv /\ [Next]_vars => [View!Next]_<<Stage, session.identity>>
  <2> SUFFICES ASSUME RInv, [Next]_vars PROVE View!Next
    OBVIOUS
  <2>1. CASE Quiet
    BY <2>1, QuietIsRetire DEF View!Next
  <2>2. CASE \E l \in Logins : FinishLogin(l) /\ result[l].token # NoLogin
    BY <2>2, FinishIsSignIn DEF View!Next
  <2> QED BY <2>1, <2>2, StepKinds DEF RInv
<1> QED BY <1>1, <1>2, <1>3, ViewInit, PTL DEF Spec, ImplementsSignIns, View!Spec
=============================================================================
