-------------------------------- MODULE Page --------------------------------
(***************************************************************************)
(* The page (app.js) in front of the session of the backend: its variables *)
(* status and loginPending, the session button, and the refreshes that read *)
(* the state of the backend and render it.                                 *)
(*                                                                         *)
(* A handler of the page runs to its next await without interruption; an   *)
(* invoke is a call that the backend executes and answers at a later time, *)
(* and the answers of different calls may arrive in any order.  The        *)
(* backend is that of Session without its clocks: a login is refused, or   *)
(* runs until it succeeds or fails, and a session may expire.              *)
(***************************************************************************)
EXTENDS Naturals

CONSTANTS
  Logins, Cancels, Logouts,  \* the calls the session button can make
  Refreshes,   \* bound: the refreshes that are under way at the same time
  MaxEvents,   \* bound: no renewal while this many session-changed events wait
  None         \* no session, no login; also: the page has no status yet

ASSUME CallsDiffer == /\ None \notin Logins \cup Cancels \cup Logouts
                      /\ Logins \cap (Cancels \cup Logouts) = {} /\ Cancels \cap Logouts = {}
ASSUME ThereAreRefreshes == Refreshes # {} /\ Refreshes \cap {"shown", "overtaken"} = {}
ASSUME BoundIsANumber == MaxEvents \in Nat

VARIABLES
  session,       \* backend: RuntimeState::session, as the login it is of
  expired,       \* backend: whether that session's lease has run out
  slot,          \* backend: RuntimeState::login_cancel, as the login it cancels
  cancelled,     \* backend: the CancellationTokens that were cancelled
  events,        \* the session-changed events that are on their way
  call,          \* where each call is: see CallStates
  refresh,       \* the refreshes, and the session in the answer they wait for
  status,        \* page: the session in `status', once there is one
  loginPending,  \* page
  label,         \* page: the text of the session button
  clean,         \* history: logins begun with no other login or cancel under way,
                 \* and not overtaken by their cancellation
  lapsed,        \* history: expiry has ended the session since status was last read
  latest         \* history: the refresh that was answered last, until the page has
                 \* its answer; then "shown", or "overtaken" by an older answer

vars == <<session, expired, slot, cancelled, events, call, refresh, status, loginPending,
          label, clean, lapsed, latest>>
backend == <<session, expired, slot, cancelled, events, lapsed>>
page == <<refresh, status, loginPending, label, latest>>

\* idle -> invoked -> running (-> revoking) -> answered or failed -> done
CallStates == {"idle", "invoked", "running", "revoking", "answered", "failed", "done"}
UnderWay(C) == {c \in C : call[c] \notin {"idle", "done"}}
Goto(c, state) == call' = [call EXCEPT ![c] = state]

NoRefresh == [at |-> "idle", answer |-> None]
Unread == "unread"
ASSUME UnreadIsNoSession == Unread \notin Logins \cup {None}

Init ==
  /\ session = None /\ expired = FALSE /\ slot = None /\ cancelled = {} /\ events = 0
  /\ call = [c \in Logins \cup Cancels \cup Logouts |-> "idle"]
  \* refresh() is called when the page is loaded.
  /\ refresh = [[i \in Refreshes |-> NoRefresh] EXCEPT ![CHOOSE i \in Refreshes : TRUE].at = "asked"]
  /\ status = Unread /\ loginPending = FALSE /\ label = "Sign in"
  /\ clean = {} /\ lapsed = FALSE /\ latest = "shown"

(***************************************************************************)
(* The session button                                                      *)
(***************************************************************************)

\* renderSession
LabelFor(pending, s) == IF pending THEN "Cancel" ELSE IF s \in Logins THEN "Sign out" ELSE "Sign in"

ClickCancel(c) ==
  /\ loginPending
  /\ call[c] = "idle" /\ Goto(c, "invoked")
  /\ UNCHANGED <<backend, page, clean>>

ClickLogout(c) ==
  /\ ~loginPending /\ status \in Logins
  /\ call[c] = "idle" /\ Goto(c, "invoked")
  /\ UNCHANGED <<backend, page, clean>>

ClickLogin(c) ==
  /\ ~loginPending /\ status = None
  /\ call[c] = "idle" /\ Goto(c, "invoked")
  /\ clean' = IF UnderWay(Logins \cup Cancels) = {} THEN clean \cup {c} ELSE clean
  /\ loginPending' = TRUE
  /\ label' = LabelFor(TRUE, status)
  /\ UNCHANGED <<backend, refresh, status, latest>>

\* refresh() is called: a first await of get_app_status.
Idle == {i \in Refreshes : refresh[i].at = "idle"}
Refresh == /\ Idle # {}
           /\ refresh' = [refresh EXCEPT ![CHOOSE i \in Idle : TRUE].at = "asked"]

\* Variant: the page waits for the session-changed event instead.
ReturnLoginUnrefreshed(c) ==
  /\ call[c] \in {"answered", "failed"} /\ Goto(c, "done")
  /\ loginPending' = FALSE
  /\ UNCHANGED <<backend, refresh, status, label, clean, latest>>

\* The `finally' of a login: loginPending is cleared, whoever has set it, and the
\* label stays until the refresh has its answer.
ReturnLogin(c) ==
  /\ call[c] \in {"answered", "failed"} /\ Goto(c, "done")
  /\ loginPending' = FALSE
  /\ Refresh
  /\ UNCHANGED <<backend, status, label, clean, latest>>

\* Variant: the label is left to the next refresh.
ReturnCancelUnrendered(c) ==
  /\ call[c] = "answered" /\ Goto(c, "done")
  /\ loginPending' = FALSE
  /\ UNCHANGED <<backend, refresh, status, label, clean, latest>>

\* The `finally' of a cancellation: it renders, but does not refresh.
ReturnCancel(c) ==
  /\ call[c] = "answered" /\ Goto(c, "done")
  /\ loginPending' = FALSE
  /\ label' = LabelFor(FALSE, status)
  /\ UNCHANGED <<backend, refresh, status, clean, latest>>

\* Variant: the page relies on the event of the backend.
ReturnLogoutUnrefreshed(c) ==
  /\ call[c] \in {"answered", "failed"} /\ Goto(c, "done")
  /\ UNCHANGED <<backend, page, clean>>

ReturnLogout(c) ==
  /\ call[c] \in {"answered", "failed"} /\ Goto(c, "done")
  /\ Refresh
  /\ UNCHANGED <<backend, status, loginPending, label, clean, latest>>

(***************************************************************************)
(* The backend                                                             *)
(***************************************************************************)

\* Variant: the slot is filled only when the browser has been opened.
StartLoginUnregistered(c) ==
  /\ call[c] = "invoked"
  /\ Goto(c, IF session = None /\ slot = None THEN "running" ELSE "answered")
  /\ UNCHANGED <<backend, page, clean>>

\* login: a session is returned as it is, a login under way is an error.
StartLogin(c) ==
  /\ call[c] = "invoked"
  /\ IF session = None /\ slot = None
     THEN Goto(c, "running") /\ slot' = c
     ELSE Goto(c, "answered") /\ UNCHANGED slot
  /\ UNCHANGED <<session, expired, cancelled, events, lapsed, page, clean>>

LoginSucceeds(c) ==
  /\ call[c] = "running" /\ Goto(c, "answered")
  /\ slot' = None
  /\ session' = c /\ expired' = FALSE /\ lapsed' = FALSE
  /\ events' = events + 1
  /\ UNCHANGED <<cancelled, page, clean>>

LoginFails(c) ==
  /\ call[c] = "running" /\ Goto(c, "failed")
  /\ slot' = None
  /\ UNCHANGED <<session, expired, cancelled, events, lapsed, page, clean>>

TakeSlot == slot' = None /\ cancelled' = cancelled \cup ({slot} \ {None})

\* cancel_login; a login that has not registered yet is not stopped by it.
CancelLogin(c) ==
  /\ call[c] = "invoked" /\ Goto(c, "answered")
  /\ TakeSlot
  /\ clean' = {d \in clean : call[d] # "invoked"}
  /\ UNCHANGED <<session, expired, events, lapsed, page>>

\* Variant: what is known of the lease is not dropped with the session.
LogoutKeepsExpiry(c) ==
  /\ call[c] = "invoked"
  /\ TakeSlot
  /\ session' = None
  /\ IF session = None THEN Goto(c, "answered") /\ events' = events + 1
                       ELSE Goto(c, "revoking") /\ UNCHANGED events
  /\ UNCHANGED <<expired, lapsed, page, clean>>

Logout(c) ==
  /\ call[c] = "invoked"
  /\ TakeSlot
  /\ session' = None /\ expired' = FALSE
  /\ IF session = None THEN Goto(c, "answered") /\ events' = events + 1
                       ELSE Goto(c, "revoking") /\ UNCHANGED events
  /\ UNCHANGED <<lapsed, page, clean>>

\* The event is sent after the revocation, and not at all if it fails.
Revoked(c) ==
  /\ call[c] = "revoking"
  /\ \/ Goto(c, "answered") /\ events' = events + 1
     \/ Goto(c, "failed") /\ UNCHANGED events
  /\ UNCHANGED <<session, expired, slot, cancelled, lapsed, page, clean>>

Expire ==
  /\ session # None /\ expired' = TRUE
  /\ UNCHANGED <<session, slot, cancelled, events, lapsed, call, page, clean>>

\* session_renewal_loop: a renewable session gets a new lease, and the page an event.
Renew ==
  /\ session # None /\ events < MaxEvents
  /\ expired' = FALSE
  /\ events' = events + 1
  /\ UNCHANGED <<session, slot, cancelled, lapsed, call, page, clean>>

\* with_active_session: a session that has expired is dropped, without an event.
ReadSession ==
  /\ session' = IF expired THEN None ELSE session
  /\ lapsed' = (lapsed \/ expired)
  /\ expired' = FALSE
  /\ UNCHANGED <<slot, cancelled, events>>

(***************************************************************************)
(* refresh                                                                 *)
(***************************************************************************)

\* listen("session-changed", refresh)
Hear ==
  /\ events > 0 /\ events' = events - 1
  /\ Refresh
  /\ UNCHANGED <<session, expired, slot, cancelled, lapsed, call, status, loginPending, label,
                 clean, latest>>

\* get_app_status shows the session that is there, expired or not.
AnswerStatus(i) ==
  /\ refresh[i].at = "asked"
  /\ refresh' = [refresh EXCEPT ![i] = [at |-> "answered", answer |-> session]]
  /\ lapsed' = FALSE /\ latest' = i
  /\ UNCHANGED <<session, expired, slot, cancelled, events, call, status, loginPending, label, clean>>

\* The answer arrives; the session button is rendered and the roots are listed.
TakeStatus(i) ==
  /\ refresh[i].at = "answered"
  /\ refresh' = [refresh EXCEPT ![i] = [NoRefresh EXCEPT !.at = "listing"]]
  /\ status' = refresh[i].answer
  /\ latest' = IF latest = i THEN "shown"
               ELSE IF latest = "shown" THEN "overtaken" ELSE latest
  /\ label' = LabelFor(loginPending, refresh[i].answer)
  /\ UNCHANGED <<backend, call, loginPending, clean>>

\* refreshCertificateStatus: list_certificate_status, if `status' has a session.
ListStatus(i) ==
  /\ refresh[i].at = "listing"
  /\ refresh' = [refresh EXCEPT ![i] = NoRefresh]
  /\ IF status \in Logins THEN ReadSession ELSE UNCHANGED backend
  /\ UNCHANGED <<call, status, loginPending, label, clean, latest>>
-----------------------------------------------------------------------------
LoginStep(c) == StartLogin(c) \/ LoginSucceeds(c) \/ LoginFails(c) \/ ReturnLogin(c)
CancelStep(c) == CancelLogin(c) \/ ReturnCancel(c)
LogoutStep(c) == Logout(c) \/ Revoked(c) \/ ReturnLogout(c)
RefreshStep(i) == AnswerStatus(i) \/ TakeStatus(i) \/ ListStatus(i)

Next == \/ \E c \in Logins : ClickLogin(c) \/ LoginStep(c)
        \/ \E c \in Cancels : ClickCancel(c) \/ CancelStep(c)
        \/ \E c \in Logouts : ClickLogout(c) \/ LogoutStep(c)
        \/ \E i \in Refreshes : RefreshStep(i)
        \/ Hear
        \/ Expire \/ Renew

Spec == Init /\ [][Next]_vars

\* Calls are executed and answered, events delivered, and a login attempt ends
\* (Session: AttemptsEnd).  Nobody has to click, and renewals may not happen.
FairSpec ==
  /\ Spec
  /\ \A c \in Logins : WF_vars(LoginStep(c))
  /\ \A c \in Cancels : WF_vars(CancelStep(c))
  /\ \A c \in Logouts : WF_vars(LogoutStep(c))
  /\ \A i \in Refreshes : WF_vars(RefreshStep(i))
  /\ WF_vars(Hear)

(***************************************************************************)
(* Properties                                                              *)
(***************************************************************************)

\* The state of page and backend keeps its shape.
TypeOK ==
  /\ session \in Logins \cup {None} /\ slot \in Logins \cup {None}
  /\ expired \in BOOLEAN /\ (expired => session # None)
  /\ cancelled \in SUBSET Logins /\ clean \in SUBSET Logins
  /\ events \in Nat
  /\ call \in [Logins \cup Cancels \cup Logouts -> CallStates]
  /\ refresh \in [Refreshes -> [at : {"idle", "asked", "answered", "listing"},
                                answer : Logins \cup {None}]]
  /\ status \in Logins \cup {None, Unread}
  /\ loginPending \in BOOLEAN /\ lapsed \in BOOLEAN
  /\ latest \in Refreshes \cup {"shown", "overtaken"}
  /\ label \in {"Sign in", "Cancel", "Sign out"}

\* When nothing is under way between page and backend, the page shows the session
\* that is there: every login, logout and renewal is followed by a refresh that
\* reads the state after it.  Two things make it wrong for good: an expired session
\* is dropped without an event, and answers may arrive in the wrong order.
Quiet ==
  /\ events = 0
  /\ \A i \in Refreshes : refresh[i].at = "idle"
  /\ \A c \in Logins \cup Logouts : call[c] \in {"idle", "running", "done"}
QuietPageIsRight == Quiet => status = session \/ lapsed \/ latest = "overtaken"

\* A login that was begun with no other login or cancellation under way can be
\* cancelled for as long as it runs: the button says so, and the backend has the
\* slot.  (A login that is begun while a cancelled one has not returned yet loses
\* both to the return of the first; a cancellation that overtakes its login in the
\* backend leaves it running behind a button that says "Sign in".)
CleanLoginsCanBeCancelled ==
  \A c \in clean : call[c] = "running" /\ c \notin cancelled =>
    slot = c /\ loginPending /\ label = "Cancel"

\* A click does what the button says, unless the refresh that follows the return of
\* a login has not been answered yet.
Announced(text) == label = text \/ \E i \in Refreshes : refresh[i].at \in {"asked", "answered"}
ClicksDoWhatTheLabelSays ==
  [][ /\ \A c \in Logins : call[c] = "idle" /\ call'[c] = "invoked" => Announced("Sign in")
      /\ \A c \in Cancels : call[c] = "idle" /\ call'[c] = "invoked" => Announced("Cancel")
      /\ \A c \in Logouts : call[c] = "idle" /\ call'[c] = "invoked" => Announced("Sign out")
    ]_vars

\* The button comes to say what a click would do.
LabelIsRight == label = LabelFor(loginPending, status)
LabelSettles == ~LabelIsRight ~> LabelIsRight

\* What a user makes of the session by clicks is what Session makes of it by its clocks
\* and tasks: both implement SignIns.  A login stands for its token and for its user.
Stage == [c \in Logins |-> IF session = c THEN "active"
                           ELSE IF call[c] \in {"answered", "failed", "done"} THEN "retired"
                           ELSE "fresh"]
View == INSTANCE SignIns WITH Tokens <- Logins, Users <- Logins, Nobody <- None,
                              stage <- Stage, who <- session
ImplementsSignIns == View!Spec
=============================================================================
