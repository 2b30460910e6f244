------------------------------ MODULE Session ------------------------------
(***************************************************************************)
(* The OpenBao session kept by the Rust backend: RuntimeState (state.rs)   *)
(* behind its tokio mutex, the commands login, cancel_login and logout,    *)
(* the renewal loop and the tray's exit (lib.rs), and the tokens as the    *)
(* OpenBao server sees them (api.rs: poll_oidc, renew, revoke).            *)
(*                                                                         *)
(* One action is what a task does between two await points, or under one   *)
(* acquisition of the mutex.  A login attempt obtains at most one token,   *)
(* so an attempt also names its token, and a CancellationToken is named by *)
(* the attempt it was created for.                                         *)
(*                                                                         *)
(* Instants are kept as the time that is left until them, in ticks: the    *)
(* session's `left' is expires_at - unix_now(), clamped at 0.              *)
(***************************************************************************)
EXTENDS Naturals, FiniteSets

CONSTANTS
  Logins,         \* the calls of login that are made
  Identities,     \* the display identities OpenBao may map a user to
  NoLogin,        \* no attempt, and no token
  NoIdentity,     \* no user
  LoginTimeout,   \* the 300 s deadline of poll_until_complete, in ticks
  RenewWindow,    \* the 300 s before expiry in which a session is renewed
  MaxLease        \* bound on a lease granted by OpenBao, in ticks

ASSUME TimesAreTicks == /\ LoginTimeout \in Nat \ {0}
                        /\ RenewWindow \in Nat
                        /\ MaxLease \in Nat \ {0}
ASSUME NoLoginIsNotALogin == NoLogin \notin Logins
ASSUME NoIdentityIsNotAnIdentity == NoIdentity \notin Identities

\* A sleep longer than the deadline never fires before it, so an interval
\* is kept only up to the first value beyond the deadline.
IntervalCap == LoginTimeout + 1

Leases == 1..MaxLease
SessionRecords == [token     : Logins \cup {NoLogin},
                   identity  : Identities \cup {NoIdentity},
                   left      : 0..MaxLease,
                   renewable : BOOLEAN]
NoSession == [token |-> NoLogin, identity |-> NoIdentity, left |-> 0, renewable |-> FALSE]

VARIABLES
  session,      \* RuntimeState::session
  loginCancel,  \* RuntimeState::login_cancel, as the attempt it cancels
  cancelled,    \* the CancellationTokens that were cancelled
  pc,           \* where each login attempt is
  timer,        \* the deadline, next wake-up and poll interval of each attempt
  result,       \* what run_login returned to each attempt
  renewal,      \* the one task of session_renewal_loop
  revoking,     \* tokens in a revoke-self request sent by logout
  exiting,      \* "no", "revoking" (revoke_before_exit) or "exited"
  lease,        \* OpenBao: time for which it still accepts each token
  owner         \* OpenBao: who authenticated to obtain each token

vars == <<session, loginCancel, cancelled, pc, timer, result, renewal,
          revoking, exiting, lease, owner>>
runtimeVars == <<session, loginCancel, cancelled>>
loginVars == <<pc, timer, result>>
serverVars == <<lease, owner>>

\* Variant: unsigned subtraction that does not saturate.
Minus1Unchecked(n) == n - 1

Minus1(n) == IF n = 0 THEN 0 ELSE n - 1
SignedIn == session.token # NoLogin
Running(l) == pc[l] \in {"starting", "waiting", "polling", "returning"}
InProgress == {l \in Logins : Running(l)}

NoTimer == [deadline |-> 0, wake |-> 0, interval |-> 1]
IdleRenewal == [pc |-> "sleeping", token |-> NoLogin, identity |-> NoIdentity,
                left |-> 0, renewable |-> FALSE]

Init ==
  /\ session = NoSession
  /\ loginCancel = NoLogin
  /\ cancelled = {}
  /\ pc = [l \in Logins |-> "idle"]
  /\ timer = [l \in Logins |-> NoTimer]
  /\ result = [l \in Logins |-> NoSession]
  /\ renewal = IdleRenewal
  /\ revoking = {}
  /\ exiting = "no"
  /\ lease = [l \in Logins |-> 0]
  /\ owner = [l \in Logins |-> NoIdentity]

(***************************************************************************)
(* login                                                                   *)
(***************************************************************************)

\* Variant: a second attempt may start.
StartLoginBesideAnother(l) ==
  /\ exiting # "exited"
  /\ pc[l] = "idle"
  /\ ~SignedIn
  /\ loginCancel' = l
  /\ pc' = [pc EXCEPT ![l] = "starting"]
  /\ UNCHANGED <<session, cancelled, timer, result, renewal, revoking, exiting, serverVars>>

\* login: neither a session (expired or not) nor a login_cancel is there.
\* A call that finds one of them returns without changing anything.
StartLogin(l) ==
  /\ exiting # "exited"
  /\ pc[l] = "idle"
  /\ ~SignedIn
  /\ loginCancel = NoLogin
  /\ loginCancel' = l
  /\ pc' = [pc EXCEPT ![l] = "starting"]
  /\ UNCHANGED <<session, cancelled, timer, result, renewal, revoking, exiting, serverVars>>

\* run_login hands its Result back to login, which still has to take the lock.
Return(l, r) ==
  /\ pc' = [pc EXCEPT ![l] = "returning"]
  /\ timer' = [timer EXCEPT ![l] = NoTimer]
  /\ result' = [result EXCEPT ![l] = r]

\* A turn of the loop in poll_until_complete: select! polls its three futures
\* at once.  The interval is positive, so the sleep is not ready; a cancelled
\* token or a passed deadline is seen here, otherwise the task parks.
EnterSelect(l, deadline, interval) ==
  IF l \in cancelled \/ deadline = 0
  THEN Return(l, NoSession)
  ELSE /\ pc' = [pc EXCEPT ![l] = "waiting"]
       /\ timer' = [timer EXCEPT ![l] =
                      [deadline |-> deadline, wake |-> interval, interval |-> interval]]
       /\ UNCHANGED result

\* require_minimum_version, begin_oidc and opening the browser succeed.
\* Cancellation is not observed before the poll loop is entered.
Challenge(l) ==
  /\ exiting # "exited"
  /\ pc[l] = "starting"
  /\ \E interval \in 1..IntervalCap : EnterSelect(l, LoginTimeout, interval)
  /\ UNCHANGED <<runtimeVars, renewal, revoking, exiting, serverVars>>

\* One of them fails, or the version is too old.
StartFails(l) ==
  /\ exiting # "exited"
  /\ pc[l] = "starting"
  /\ Return(l, NoSession)
  /\ UNCHANGED <<runtimeVars, renewal, revoking, exiting, serverVars>>

\* The parked select! is woken: a branch that is ready is taken.  When several
\* are ready the choice is random, so a cancelled login may poll once more.
Stop(l) ==
  /\ exiting # "exited"
  /\ pc[l] = "waiting"
  /\ l \in cancelled \/ timer[l].deadline = 0
  /\ Return(l, NoSession)
  /\ UNCHANGED <<runtimeVars, renewal, revoking, exiting, serverVars>>

StartPoll(l) ==
  /\ exiting # "exited"
  /\ pc[l] = "waiting"
  /\ timer[l].wake = 0
  /\ pc' = [pc EXCEPT ![l] = "polling"]
  /\ UNCHANGED <<runtimeVars, timer, result, renewal, revoking, exiting, serverVars>>
-----------------------------------------------------------------------------
\* Inside the sleep branch poll_oidc is awaited without select!: neither the
\* cancellation nor the deadline is looked at until it answers.

\* Variant: the deadline is that of one wait, not of the attempt.
PollPendingAnew(l) ==
  /\ exiting # "exited"
  /\ pc[l] = "polling"
  /\ EnterSelect(l, LoginTimeout, timer[l].interval)
  /\ UNCHANGED <<runtimeVars, renewal, revoking, exiting, serverVars>>

\* authorization_pending, or slow_down, which doubles the interval.
PollPending(l) ==
  /\ exiting # "exited"
  /\ pc[l] = "polling"
  /\ \E factor \in {1, 2} :
       LET wanted == factor * timer[l].interval
       IN  EnterSelect(l, timer[l].deadline,
                       IF wanted > IntervalCap THEN IntervalCap ELSE wanted)
  /\ UNCHANGED <<runtimeVars, renewal, revoking, exiting, serverVars>>

\* OpenBao grants the token of this attempt to the user i.
Grant(l, i, time) ==
  /\ owner[l] = NoIdentity
  /\ owner' = [owner EXCEPT ![l] = i]
  /\ lease' = [lease EXCEPT ![l] = time]

\* The token arrives with both mapped claims.
PollComplete(l) ==
  /\ exiting # "exited"
  /\ pc[l] = "polling"
  /\ \E i \in Identities, time \in Leases, renewable \in BOOLEAN :
       /\ Grant(l, i, time)
       /\ Return(l, [token |-> l, identity |-> i, left |-> time, renewable |-> renewable])
  /\ UNCHANGED <<runtimeVars, renewal, revoking, exiting>>

\* The token is granted, but the answer is lost or unreadable, or a mapped
\* claim is missing or blank: the token is dropped, and never revoked.
PollDiscarded(l) ==
  /\ exiting # "exited"
  /\ pc[l] = "polling"
  /\ \E i \in Identities, time \in Leases : Grant(l, i, time)
  /\ Return(l, NoSession)
  /\ UNCHANGED <<runtimeVars, renewal, revoking, exiting>>

\* OpenBao refuses the poll, or cannot be reached.
PollRefused(l) ==
  /\ exiting # "exited"
  /\ pc[l] = "polling"
  /\ Return(l, NoSession)
  /\ UNCHANGED <<runtimeVars, renewal, revoking, exiting, serverVars>>
-----------------------------------------------------------------------------
\* Variant: login_cancel is left behind.
FinishLoginKeepsSlot(l) ==
  /\ exiting # "exited"
  /\ pc[l] = "returning"
  /\ pc' = [pc EXCEPT ![l] = "done"]
  /\ session' = IF result[l].token = NoLogin THEN session ELSE result[l]
  /\ result' = [result EXCEPT ![l] = NoSession]
  /\ UNCHANGED <<loginCancel, cancelled, timer, renewal, revoking, exiting, serverVars>>

\* The second critical section of login.  login_cancel is cleared whoever it
\* belongs to by now, and a session that is there is overwritten.
FinishLogin(l) ==
  /\ exiting # "exited"
  /\ pc[l] = "returning"
  /\ pc' = [pc EXCEPT ![l] = "done"]
  /\ loginCancel' = NoLogin
  /\ session' = IF result[l].token = NoLogin THEN session ELSE result[l]
  /\ result' = [result EXCEPT ![l] = NoSession]
  /\ UNCHANGED <<cancelled, timer, renewal, revoking, exiting, serverVars>>

(***************************************************************************)
(* cancel_login, logout and the expiry found by with_active_session        *)
(***************************************************************************)

TakeLoginCancel ==
  /\ cancelled' = cancelled \cup ({loginCancel} \ {NoLogin})
  /\ loginCancel' = NoLogin

CancelLogin ==
  /\ exiting # "exited"
  /\ TakeLoginCancel
  /\ UNCHANGED <<session, loginVars, renewal, revoking, exiting, serverVars>>

\* Variant: the session stays until the revocation has answered.
LogoutKeepsSession ==
  /\ exiting # "exited"
  /\ TakeLoginCancel
  /\ revoking' = revoking \cup ({session.token} \ {NoLogin})
  /\ UNCHANGED <<session, loginVars, renewal, exiting, serverVars>>

Logout ==
  /\ exiting # "exited"
  /\ TakeLoginCancel
  /\ session' = NoSession
  /\ revoking' = revoking \cup ({session.token} \ {NoLogin})
  /\ UNCHANGED <<loginVars, renewal, exiting, serverVars>>

\* The revoke-self request of a logout ends: OpenBao revoked the token or it
\* did not (the error is returned, the token is gone from memory all the same).
RevokeAnswered(l) ==
  /\ exiting # "exited"
  /\ l \in revoking
  /\ revoking' = revoking \ {l}
  /\ \/ lease' = [lease EXCEPT ![l] = 0]
     \/ UNCHANGED lease
  /\ UNCHANGED <<runtimeVars, loginVars, renewal, exiting, owner>>

\* Variant: a session that is about to expire counts as expired.
DropExpiringSession ==
  /\ exiting # "exited"
  /\ SignedIn /\ session.left <= 1
  /\ session' = NoSession
  /\ UNCHANGED <<loginCancel, cancelled, loginVars, renewal, revoking, exiting, serverVars>>

\* Any command that reads the session drops it once it has expired.
DropExpiredSession ==
  /\ exiting # "exited"
  /\ SignedIn /\ session.left = 0
  /\ session' = NoSession
  /\ UNCHANGED <<loginCancel, cancelled, loginVars, renewal, revoking, exiting, serverVars>>

(***************************************************************************)
(* session_renewal_loop                                                    *)
(***************************************************************************)

\* Under the lock: copy token and identity of a session that is about to
\* expire (one that has expired already is not excluded).
RenewBegin ==
  /\ exiting # "exited"
  /\ renewal.pc = "sleeping"
  /\ SignedIn /\ session.renewable /\ session.left <= RenewWindow
  /\ renewal' = [IdleRenewal EXCEPT !.pc = "requested", !.token = session.token,
                                    !.identity = session.identity]
  /\ UNCHANGED <<runtimeVars, loginVars, revoking, exiting, serverVars>>

\* OpenBao renews a token it still accepts; the answer is on its way.
RenewGranted ==
  /\ exiting # "exited"
  /\ renewal.pc = "requested"
  /\ lease[renewal.token] > 0
  /\ \E time \in Leases, renewable \in BOOLEAN :
       /\ lease' = [lease EXCEPT ![renewal.token] = time]
       /\ renewal' = [renewal EXCEPT !.pc = "granted", !.left = time, !.renewable = renewable]
  /\ UNCHANGED <<runtimeVars, loginVars, revoking, exiting, owner>>

\* Variant: an error ends the task.
RenewFailsForGood ==
  /\ exiting # "exited"
  /\ renewal.pc \in {"requested", "granted"}
  /\ renewal' = [IdleRenewal EXCEPT !.pc = "ended"]
  /\ UNCHANGED <<runtimeVars, loginVars, revoking, exiting, serverVars>>

\* The renewal is refused, or the request or its answer is lost: a warning.
RenewFails ==
  /\ exiting # "exited"
  /\ renewal.pc \in {"requested", "granted"}
  /\ renewal' = IdleRenewal
  /\ UNCHANGED <<runtimeVars, loginVars, revoking, exiting, serverVars>>

\* Variants: the session that was copied is put back; the renewed token goes into
\* whatever session is there.
RenewApplyRestores ==
  /\ exiting # "exited"
  /\ renewal.pc = "granted"
  /\ session' = [token |-> renewal.token, identity |-> renewal.identity,
                 left |-> renewal.left, renewable |-> renewal.renewable]
  /\ renewal' = IdleRenewal
  /\ UNCHANGED <<loginCancel, cancelled, loginVars, revoking, exiting, serverVars>>

RenewApplyToAnyone ==
  /\ exiting # "exited"
  /\ renewal.pc = "granted"
  /\ session' = IF SignedIn
                THEN [session EXCEPT !.token = renewal.token, !.left = renewal.left,
                                     !.renewable = renewal.renewable]
                ELSE session
  /\ renewal' = IdleRenewal
  /\ UNCHANGED <<loginCancel, cancelled, loginVars, revoking, exiting, serverVars>>

\* Under the lock again: the lease goes to the session that is there now, if
\* it shows the identity that was copied; its token is not compared.
RenewApply ==
  /\ exiting # "exited"
  /\ renewal.pc = "granted"
  /\ session' = IF SignedIn /\ session.identity = renewal.identity
                THEN [session EXCEPT !.left = renewal.left, !.renewable = renewal.renewable]
                ELSE session
  /\ renewal' = IdleRenewal
  /\ UNCHANGED <<loginCancel, cancelled, loginVars, revoking, exiting, serverVars>>

(***************************************************************************)
(* The tray's exit, and time                                               *)
(***************************************************************************)

\* revoke_before_exit takes the session; the login tasks run on meanwhile.
BeginExit ==
  /\ exiting = "no"
  /\ exiting' = "revoking"
  /\ session' = NoSession
  /\ revoking' = revoking \cup ({session.token} \ {NoLogin})
  /\ UNCHANGED <<loginCancel, cancelled, loginVars, renewal, serverVars>>

\* The revocation has answered or its 2 s have passed; every task is gone.
Exit ==
  /\ exiting = "revoking"
  /\ exiting' = "exited"
  /\ session' = NoSession /\ loginCancel' = NoLogin
  /\ pc' = [l \in Logins |-> IF Running(l) THEN "done" ELSE pc[l]]
  /\ timer' = [l \in Logins |-> NoTimer]
  /\ result' = [l \in Logins |-> NoSession]
  /\ renewal' = IdleRenewal
  /\ revoking' = {}
  /\ UNCHANGED <<cancelled, serverVars>>

Tick ==
  /\ session' = [session EXCEPT !.left = Minus1(@)]
  /\ timer' = [l \in Logins |-> [timer[l] EXCEPT !.deadline = Minus1(@), !.wake = Minus1(@)]]
  /\ result' = [l \in Logins |-> [result[l] EXCEPT !.left = Minus1(@)]]
  /\ lease' = [l \in Logins |-> Minus1(lease[l])]
  /\ UNCHANGED <<loginCancel, cancelled, pc, renewal, revoking, exiting, owner>>
-----------------------------------------------------------------------------
LoginStep(l) == \/ Challenge(l) \/ StartFails(l) \/ Stop(l) \/ StartPoll(l)
                \/ PollPending(l) \/ PollComplete(l) \/ PollDiscarded(l) \/ PollRefused(l)
                \/ FinishLogin(l)

RenewStep == RenewBegin \/ RenewGranted \/ RenewFails \/ RenewApply

Next == \/ \E l \in Logins : StartLogin(l) \/ LoginStep(l) \/ RevokeAnswered(l)
        \/ CancelLogin \/ Logout \/ DropExpiredSession
        \/ RenewStep
        \/ BeginExit \/ Exit
        \/ Tick

Spec == Init /\ [][Next]_vars

\* The tasks are polled by the runtime, every request ends within the 30 s of
\* the HTTP client, and time passes.  Users owe nothing.
Fairness == /\ \A l \in Logins : WF_vars(LoginStep(l)) /\ WF_vars(RevokeAnswered(l))
            /\ WF_vars(RenewStep)
            /\ WF_vars(Exit)
            /\ WF_vars(Tick)

FairSpec == Spec /\ Fairness
(***************************************************************************)
(* Properties                                                              *)
(***************************************************************************)

Timers == [deadline : 0..LoginTimeout, wake : 0..IntervalCap, interval : 1..IntervalCap]
Renewals == [pc : {"sleeping", "requested", "granted"}, token : Logins \cup {NoLogin},
             identity : Identities \cup {NoIdentity}, left : 0..MaxLease, renewable : BOOLEAN]

\* The fields of RuntimeState, of the tasks and of the server keep their shape.
TypeOK ==
  /\ session \in SessionRecords
  /\ loginCancel \in Logins \cup {NoLogin}
  /\ cancelled \in SUBSET Logins
  /\ pc \in [Logins -> {"idle", "starting", "waiting", "polling", "returning", "done"}]
  /\ timer \in [Logins -> Timers]
  /\ result \in [Logins -> SessionRecords]
  /\ renewal \in Renewals
  /\ revoking \in SUBSET Logins
  /\ exiting \in {"no", "revoking", "exited"}
  /\ lease \in [Logins -> 0..MaxLease]
  /\ owner \in [Logins -> Identities \cup {NoIdentity}]

\* What login_cancel holds is always of use: it belongs to an attempt that is
\* still running and that has not been cancelled yet.  (A stale one would make
\* every later login fail with `already in progress' until the app is restarted.)
CancelSlotIsLive ==
  loginCancel # NoLogin => Running(loginCancel) /\ loginCancel \notin cancelled

\* As long as nobody has cancelled an attempt, the attempts exclude each other:
\* the one that runs is the one login_cancel belongs to, and none runs while a
\* session is there.
AttemptsExcludeEachOther ==
  cancelled = {} => \A l \in InProgress : loginCancel = l /\ ~SignedIn

\* A token is in the hands of one party: the attempt that is about to return it,
\* the session, or the logouts that revoke it.  In particular a token handed
\* over for revocation never is the session's token again, whatever a renewal
\* that was under way does.
TokenHasOneHolder ==
  /\ \A l \in Logins :
       result[l].token # NoLogin => /\ result[l].token = l
                                    /\ pc[l] = "returning"
                                    /\ session.token # l
                                    /\ l \notin revoking
  /\ SignedIn => pc[session.token] = "done" /\ session.token \notin revoking

\* The identity that is shown, and that is put into certificate requests, is
\* that of the user who authenticated for the token that is used with it,
\* through renewals, cancelled attempts and changes of user.
IdentityIsTheTokensOwner ==
  /\ SignedIn => session.identity = owner[session.token]
  /\ renewal.pc # "sleeping" => renewal.identity = owner[renewal.token]

\* Nothing but the return of a login attempt signs a user in: the renewal loop,
\* which writes the session after an await, revives none that was dropped.
OnlyLoginsSignIn ==
  [][ session'.token \notin {NoLogin, session.token}
        => pc[session'.token] = "returning" /\ pc'[session'.token] = "done" ]_vars

\* A session is overwritten by another login only after an attempt has been
\* cancelled; otherwise it ends by a logout, by expiry or by the exit.
SessionsAreReplacedOnlyAfterACancel ==
  [][ SignedIn /\ session'.token \notin {NoLogin, session.token} => cancelled # {} ]_vars

\* A session that is dropped before it expires is handed to a revocation by the
\* step that drops it: OpenBao is told of every sign-out.  (The session of a login
\* that completes while the exit revokes another one dies with the process.)
DroppedTokensAreRevoked ==
  [][ SignedIn /\ session'.token = NoLogin /\ session.left > 0 /\ exiting' # "exited"
        => session.token \in revoking' ]_vars

\* Every attempt comes to an end: the deadline bounds the polls, and cancel,
\* failure and slow_down do not keep the task alive.
AttemptsEnd == \A l \in Logins : pc[l] = "starting" ~> pc[l] = "done"

\* The renewal loop survives failed renewals and changes of session: a renewable
\* session that comes near its expiry is picked up, or ends by other means.
NearExpiry(l) == session.token = l /\ session.renewable /\ session.left <= RenewWindow
RenewalIsTried == \A l \in Logins : NearExpiry(l) ~> renewal.token = l \/ ~NearExpiry(l)

\* The session as its users see it: a token is the session's in one stretch, for
\* the one user it was granted to, and never again once it was signed out,
\* overwritten or given up.  Renewals, polls and revocations change none of it.
Stage == [l \in Logins |-> IF session.token = l THEN "active"
                           ELSE IF pc[l] = "done" THEN "retired"
                           ELSE "fresh"]
View == INSTANCE SignIns WITH Tokens <- Logins, Users <- Identities, Nobody <- NoIdentity,
                              stage <- Stage, who <- session.identity
ImplementsSignIns == View!Spec
-----------------------------------------------------------------------------
(* What the documentation says and the code does not do. *)

\* docs/SECURITY.md: "Authentication polls ... support cancellation."  An attempt
\* that polls and was not cancelled would be the one that cancel_login cancels.
PollsCanBeCancelled ==
  \A l \in Logins : pc[l] \in {"waiting", "polling"} /\ l \notin cancelled => loginCancel = l
=============================================================================
