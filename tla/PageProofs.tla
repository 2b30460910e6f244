----------------------------- MODULE PageProofs -----------------------------
(***************************************************************************)
(* Proofs about Page, for any number of logins, cancellations, sign-outs,  *)
(* refreshes and waiting events.                                           *)
(***************************************************************************)
EXTENDS Page, TLAPS

Calls == Logins \cup Cancels \cup Logouts

(***************************************************************************)
(* Types, and what steps have in common                                    *)
(***************************************************************************)

Answers == [at : {"idle", "asked", "answered", "listing"}, answer : Logins \cup {None}]

LEMMA LabelType == \A p, s : LabelFor(p, s) \in {"Sign in", "Cancel", "Sign out"}
  BY DEF LabelFor

LEMMA GotoType ==
  ASSUME TypeOK, NEW c \in Calls, NEW state \in CallStates, Goto(c, state)
  PROVE  /\ call' \in [Calls -> CallStates] /\ call'[c] = state
         /\ \A d \in Calls : d # c => call'[d] = call[d]
  BY DEF TypeOK, Goto, Calls

\* A refresh that is asked for takes the place of an idle one.
LEMMA RefreshAsked ==
  ASSUME TypeOK, Refresh
  PROVE  /\ refresh' \in [Refreshes -> Answers]
         /\ \E i \in Refreshes :
              /\ refresh[i].at = "idle" /\ refresh'[i].at = "asked"
              /\ \A j \in Refreshes : j # i => refresh'[j] = refresh[j]
<1> DEFINE i == CHOOSE j \in Idle : TRUE
<1>1. i \in Refreshes /\ refresh[i].at = "idle"
  BY DEF Refresh, Idle
<1>2. refresh' = [refresh EXCEPT ![i].at = "asked"]
  BY DEF Refresh
<1> HIDE DEF i
<1> QED BY <1>1, <1>2 DEF TypeOK, Answers

LEMMA TypeInit == Init => TypeOK
<1> DEFINE i == CHOOSE j \in Refreshes : TRUE
<1> SUFFICES ASSUME Init PROVE TypeOK
  OBVIOUS
<1>1. refresh = [[j \in Refreshes |-> NoRefresh] EXCEPT ![i].at = "asked"]
  BY DEF Init
<1>2. i \in Refreshes
  BY ThereAreRefreshes
<1> HIDE DEF i
<1>3. refresh \in [Refreshes -> Answers]
  BY <1>1, <1>2 DEF NoRefresh, Answers
<1>4. call \in [Calls -> CallStates]
  BY DEF Init, CallStates, Calls
<1> QED BY <1>3, <1>4 DEF Init, TypeOK, Answers, Calls

\* The conjuncts of TypeOK, by the variables that change together.
SessionOK == /\ session \in Logins \cup {None}
             /\ expired \in BOOLEAN /\ (expired => session # None) /\ lapsed \in BOOLEAN
SlotOK == slot \in Logins \cup {None} /\ cancelled \in SUBSET Logins
EventsOK == events \in Nat
BackendOK == SessionOK /\ SlotOK /\ EventsOK
ButtonOK ==
  /\ status \in Logins \cup {None, Unread} /\ loginPending \in BOOLEAN
  /\ label \in {"Sign in", "Cancel", "Sign out"}
HistoryOK == clean \in SUBSET Logins /\ latest \in Refreshes \cup {"shown", "overtaken"}
RefreshesOK == refresh \in [Refreshes -> Answers]
CallsOK == call \in [Calls -> CallStates]

LEMMA TypeStep == TypeOK /\ [Next]_vars => TypeOK'
<1> SUFFICES ASSUME TypeOK, [Next]_vars PROVE TypeOK'
  OBVIOUS
<1>0. TypeOK <=> BackendOK /\ ButtonOK /\ HistoryOK /\ RefreshesOK /\ CallsOK
  BY DEF TypeOK, Answers, Calls, BackendOK, SessionOK, SlotOK, EventsOK, ButtonOK, HistoryOK,
         RefreshesOK, CallsOK
<1>00. TypeOK' <=> BackendOK' /\ ButtonOK' /\ HistoryOK' /\ RefreshesOK' /\ CallsOK'
  BY DEF TypeOK, Answers, Calls, BackendOK, SessionOK, SlotOK, EventsOK, ButtonOK, HistoryOK,
         RefreshesOK, CallsOK
<1>f. /\ UNCHANGED <<session, expired, lapsed>> => SessionOK'
      /\ UNCHANGED <<slot, cancelled>> => SlotOK'
      /\ UNCHANGED events => EventsOK'
      /\ UNCHANGED backend => BackendOK'
      /\ UNCHANGED <<status, loginPending, label>> => ButtonOK'
      /\ UNCHANGED <<clean, latest>> => HistoryOK'
      /\ UNCHANGED refresh => RefreshesOK'
      /\ UNCHANGED call => CallsOK'
  <2>1. UNCHANGED <<session, expired, lapsed>> => SessionOK'
    BY <1>0 DEF BackendOK, SessionOK
  <2>2. UNCHANGED <<slot, cancelled>> => SlotOK'
    BY <1>0 DEF BackendOK, SlotOK
  <2>3. UNCHANGED events => EventsOK'
    BY <1>0 DEF BackendOK, EventsOK
  <2>4. UNCHANGED backend => BackendOK'
    BY <2>1, <2>2, <2>3 DEF backend, BackendOK
  <2>5. UNCHANGED <<status, loginPending, label>> => ButtonOK'
    BY <1>0 DEF ButtonOK
  <2> QED BY <1>0, <2>1, <2>2, <2>3, <2>4, <2>5 DEF HistoryOK, RefreshesOK, CallsOK
<1>s. SessionOK /\ SlotOK /\ EventsOK
  BY <1>0 DEF BackendOK
<1>1. ASSUME NEW c \in Logins, ClickLogin(c) PROVE TypeOK'
  <2>1. CallsOK'
    BY <1>1, GotoType DEF ClickLogin, Calls, CallStates, CallsOK
  <2>2. ButtonOK' /\ HistoryOK'
    BY <1>0, <1>1, LabelType DEF ClickLogin, ButtonOK, HistoryOK
  <2>3. BackendOK' /\ RefreshesOK'
    BY <1>f, <1>1 DEF ClickLogin
  <2> QED BY <1>00, <2>1, <2>2, <2>3
<1>2. ASSUME NEW c \in Calls, ClickCancel(c) \/ ClickLogout(c) PROVE TypeOK'
  <2>1. CallsOK'
    BY <1>2, GotoType DEF ClickCancel, ClickLogout, CallStates, CallsOK
  <2>2. UNCHANGED <<backend, page, clean>>
    BY <1>2 DEF ClickCancel, ClickLogout
  <2> QED BY <1>00, <1>f, <2>1, <2>2 DEF page
<1>3. ASSUME NEW c \in Calls, ReturnLogin(c) \/ ReturnLogout(c) PROVE TypeOK'
  <2>1. CallsOK'
    BY <1>3, GotoType DEF ReturnLogin, ReturnLogout, CallStates, CallsOK
  <2>2. RefreshesOK'
    BY <1>3, RefreshAsked DEF ReturnLogin, ReturnLogout, RefreshesOK
  <2>3. /\ UNCHANGED <<backend, status, label, clean, latest>>
        /\ loginPending' \in {FALSE, loginPending}
    BY <1>3 DEF ReturnLogin, ReturnLogout
  <2>4. ButtonOK'
    BY <1>0, <2>3 DEF ButtonOK
  <2> QED BY <1>00, <1>f, <2>1, <2>2, <2>3, <2>4
<1>4. ASSUME NEW c \in Calls, ReturnCancel(c) PROVE TypeOK'
  <2>1. CallsOK'
    BY <1>4, GotoType DEF ReturnCancel, CallStates, CallsOK
  <2>2. ButtonOK'
    BY <1>0, <1>4, LabelType DEF ReturnCancel, ButtonOK
  <2>3. UNCHANGED <<backend, refresh, clean, latest>>
    BY <1>4 DEF ReturnCancel
  <2> QED BY <1>00, <1>f, <2>1, <2>2, <2>3
<1>5. ASSUME NEW c \in Logins, StartLogin(c) \/ LoginSucceeds(c) \/ LoginFails(c) PROVE TypeOK'
  <2>1. CallsOK'
    BY <1>5, GotoType DEF StartLogin, LoginSucceeds, LoginFails, Calls, CallStates, CallsOK
  <2>2. BackendOK'
    <3>1. SessionOK'
      <4>1. \/ UNCHANGED <<session, expired, lapsed>>
            \/ session' = c /\ expired' = FALSE /\ lapsed' = FALSE
        BY <1>5 DEF StartLogin, LoginSucceeds, LoginFails
      <4>2. CASE session' = c /\ expired' = FALSE /\ lapsed' = FALSE
        BY <4>2 DEF SessionOK
      <4> QED BY <1>f, <4>1, <4>2
    <3>2. SlotOK'
      BY <1>s, <1>5 DEF StartLogin, LoginSucceeds, LoginFails, SlotOK
    <3>3. events' \in {events, events + 1}
      BY <1>5 DEF StartLogin, LoginSucceeds, LoginFails
    <3> QED BY <1>s, <3>1, <3>2, <3>3 DEF BackendOK, EventsOK
  <2>3. UNCHANGED <<page, clean>>
    BY <1>5 DEF StartLogin, LoginSucceeds, LoginFails
  <2> QED BY <1>00, <1>f, <2>1, <2>2, <2>3 DEF page
<1>6. ASSUME NEW c \in Calls, CancelLogin(c) \/ Logout(c) \/ Revoked(c) PROVE TypeOK'
  <2>1. CallsOK'
    BY <1>6, GotoType DEF CancelLogin, Logout, Revoked, CallStates, CallsOK
  <2>2. BackendOK'
    <3>1. SessionOK'
      <4>1. \/ UNCHANGED <<session, expired, lapsed>>
            \/ session' = None /\ expired' = FALSE /\ lapsed' = lapsed
        BY <1>6 DEF CancelLogin, Logout, Revoked
      <4>2. CASE session' = None /\ expired' = FALSE /\ lapsed' = lapsed
        BY <1>s, <4>2 DEF SessionOK
      <4> QED BY <1>f, <4>1, <4>2
    <3>2. SlotOK'
      BY <1>s, <1>6 DEF CancelLogin, Logout, Revoked, TakeSlot, SlotOK
    <3>3. events' \in {events, events + 1}
      BY <1>6 DEF CancelLogin, Logout, Revoked
    <3> QED BY <1>s, <3>1, <3>2, <3>3 DEF BackendOK, EventsOK
  <2>3. UNCHANGED page /\ clean' \subseteq clean
    BY <1>6 DEF CancelLogin, Logout, Revoked
  <2>4. HistoryOK'
    BY <1>0, <2>3 DEF HistoryOK, page
  <2> QED BY <1>00, <1>f, <2>1, <2>2, <2>3, <2>4 DEF page
<1>7. CASE Expire \/ Renew
  <2>1. UNCHANGED <<call, page, clean>>
    BY <1>7 DEF Expire, Renew
  <2>2. BackendOK'
    <3>1. SessionOK'
      <4>1. /\ UNCHANGED <<session, lapsed>> /\ session # None
            /\ expired' = TRUE \/ expired' = FALSE
        BY <1>7 DEF Expire, Renew
      <4>2. session' # None /\ session' \in Logins \cup {None} /\ lapsed' \in BOOLEAN
        BY <1>s, <4>1 DEF SessionOK
      <4> QED BY <4>1, <4>2 DEF SessionOK
    <3>2. UNCHANGED <<slot, cancelled>> /\ events' \in {events, events + 1}
      BY <1>7 DEF Expire, Renew
    <3> QED BY <1>s, <1>f, <3>1, <3>2 DEF BackendOK, EventsOK
  <2> QED BY <1>00, <1>f, <2>1, <2>2 DEF page
<1>8. CASE Hear
  <2>1. RefreshesOK'
    BY <1>8, RefreshAsked DEF Hear, RefreshesOK
  <2>2. UNCHANGED <<call, status, loginPending, label, clean, latest>>
    BY <1>8 DEF Hear
  <2>3. BackendOK'
    <3>1. UNCHANGED <<session, expired, slot, cancelled, lapsed>>
      BY <1>8 DEF Hear
    <3>2. EventsOK'
      BY <1>s, <1>8 DEF Hear, EventsOK
    <3> QED BY <1>f, <3>1, <3>2 DEF BackendOK
  <2> QED BY <1>00, <1>f, <2>1, <2>2, <2>3
<1>9. ASSUME NEW i \in Refreshes, AnswerStatus(i) PROVE TypeOK'
  <2>1. RefreshesOK'
    BY <1>0, <1>s, <1>9 DEF AnswerStatus, Answers, SessionOK, RefreshesOK
  <2>2. UNCHANGED <<session, expired, slot, cancelled, events, call, status, loginPending,
                    label, clean>> /\ lapsed' = FALSE /\ latest' = i
    BY <1>9 DEF AnswerStatus
  <2>3. SessionOK' /\ HistoryOK'
    BY <1>0, <1>s, <2>2 DEF SessionOK, HistoryOK
  <2> QED BY <1>00, <1>f, <2>1, <2>2, <2>3 DEF BackendOK
<1>10. ASSUME NEW i \in Refreshes, TakeStatus(i) PROVE TypeOK'
  <2>1. RefreshesOK' /\ refresh[i].answer \in Logins \cup {None}
    BY <1>0, <1>10 DEF TakeStatus, Answers, NoRefresh, RefreshesOK
  <2>2. ButtonOK' /\ HistoryOK'
    BY <1>0, <1>10, <2>1, LabelType DEF TakeStatus, ButtonOK, HistoryOK
  <2>3. UNCHANGED <<backend, call>>
    BY <1>10 DEF TakeStatus
  <2> QED BY <1>00, <1>f, <2>1, <2>2, <2>3
<1>11. ASSUME NEW i \in Refreshes, ListStatus(i) PROVE TypeOK'
  <2>1. BackendOK'
    <3>1. SessionOK'
      BY <1>s, <1>11 DEF ListStatus, ReadSession, backend, SessionOK
    <3>2. UNCHANGED <<slot, cancelled, events>>
      BY <1>11 DEF ListStatus, ReadSession, backend
    <3> QED BY <1>f, <3>1, <3>2 DEF BackendOK
  <2>2. RefreshesOK'
    BY <1>0, <1>11 DEF ListStatus, NoRefresh, Answers, RefreshesOK
  <2>3. UNCHANGED <<call, status, loginPending, label, clean, latest>>
    BY <1>11 DEF ListStatus
  <2> QED BY <1>00, <1>f, <2>1, <2>2, <2>3
<1>12. CASE UNCHANGED vars
  BY <1>00, <1>f, <1>12 DEF vars, backend
<1> QED
  BY <1>1, <1>2, <1>3, <1>4, <1>5, <1>6, <1>7, <1>8, <1>9, <1>10, <1>11, <1>12
     DEF Next, LoginStep, CancelStep, LogoutStep, RefreshStep, Calls

\* The state of page and backend keeps its shape.
THEOREM TypeCorrect == Spec => []TypeOK
  BY TypeInit, TypeStep, PTL DEF Spec
-----------------------------------------------------------------------------
(***************************************************************************)
(* The inductive invariants                                                *)
(***************************************************************************)

\* The calls that refresh the page when they return, from the moment on at which they
\* can have changed the session.
Returning == {c \in Logins : call[c] \in {"answered", "failed"}}
             \cup {c \in Logouts : call[c] \in {"answered", "failed", "revoking"}}

\* A read of the session is certain to come: of an event, of a refresh that has not
\* been answered, or of the return of a call.
ReadComing ==
  \/ events > 0
  \/ \E i \in Refreshes : refresh[i].at = "asked"
  \/ Returning # {}

\* Unless a read is coming, the answer given last is the session that is there, be it
\* on its way or shown; but for what QuietPageIsRight excepts.
Current ==
  \/ lapsed
  \/ latest \in Refreshes /\ refresh[latest].at = "answered" /\ refresh[latest].answer = session
  \/ latest = "shown" /\ status = session
  \/ latest = "overtaken"
Fresh == ReadComing \/ Current

\* A clean login that may still run is the only one, the button shows it, no
\* cancellation is about to clear the button, and the slot is its own.
Cancellable(c) ==
  /\ loginPending /\ label = "Cancel"
  /\ \A d \in Logins : d # c => call[d] \in {"idle", "done"}
  /\ \A x \in Cancels : call[x] # "answered"
  /\ call[c] = "running" => slot = c
CleanInv ==
  \A c \in clean : /\ call[c] # "idle"
                   /\ c \notin cancelled /\ call[c] \in {"invoked", "running"} => Cancellable(c)

\* The button is wrong only while a refresh is on its way that will render it.
LabelInv == LabelIsRight \/ \E i \in Refreshes : refresh[i].at \in {"asked", "answered"}

\* The session is that of a login that has been answered.
Ended == {"answered", "failed", "done"}
SessionInv == session # None => call[session] \in Ended
-----------------------------------------------------------------------------
(***************************************************************************)
(* What the page shows when nothing is under way                           *)
(***************************************************************************)

LEMMA FreshStep == TypeOK /\ Fresh /\ [Next]_vars => Fresh'
<1> SUFFICES ASSUME TypeOK, Fresh, [Next]_vars PROVE Fresh'
  OBVIOUS
<1>1. ASSUME Returning' # {} \/ \E i \in Refreshes : refresh'[i].at = "asked" PROVE Fresh'
  BY <1>1 DEF Fresh, ReadComing
<1>2. ASSUME Returning \subseteq Returning',
             UNCHANGED <<events, refresh, session, lapsed, status, latest>>
      PROVE  Fresh'
  <2>1. ReadComing => ReadComing'
    BY <1>2 DEF ReadComing
  <2>2. Current => Current'
    BY <1>2 DEF Current
  <2> QED BY <2>1, <2>2 DEF Fresh
<1>3. ASSUME NEW c \in Calls, NEW state \in CallStates, Goto(c, state),
             call[c] \in {"idle", "invoked"} \/ c \in Cancels
      PROVE  Returning \subseteq Returning'
  BY <1>3, GotoType, CallsDiffer DEF Returning, Calls
<1>4. ASSUME NEW c \in Calls, ClickLogin(c) \/ ClickCancel(c) \/ ClickLogout(c) PROVE Fresh'
  <2>1. Returning \subseteq Returning'
    BY <1>3, <1>4 DEF ClickLogin, ClickCancel, ClickLogout, CallStates
  <2> QED BY <1>2, <1>4, <2>1 DEF ClickLogin, ClickCancel, ClickLogout, backend, page
<1>5. ASSUME NEW c \in Calls, StartLogin(c) PROVE Fresh'
  <2>1. Returning \subseteq Returning'
    BY <1>3, <1>5 DEF StartLogin, CallStates
  <2> QED BY <1>2, <1>5, <2>1 DEF StartLogin, page
<1>6. ASSUME NEW c \in Cancels, CancelLogin(c) PROVE Fresh'
  <2>1. Returning \subseteq Returning'
    BY <1>3, <1>6 DEF CancelLogin, CallStates, Calls
  <2> QED BY <1>2, <1>6, <2>1 DEF CancelLogin, page
<1>7. ASSUME NEW c \in Cancels, ReturnCancel(c) PROVE Fresh'
  <2>1. Returning \subseteq Returning'
    BY <1>3, <1>7 DEF ReturnCancel, CallStates, Calls
  <2> QED BY <1>2, <1>7, <2>1 DEF ReturnCancel, backend
<1>8. ASSUME NEW c \in Logins, LoginSucceeds(c) \/ LoginFails(c) PROVE Fresh'
  <2>1. call'[c] \in {"answered", "failed"}
    BY <1>8, GotoType DEF LoginSucceeds, LoginFails, CallStates, Calls
  <2> QED BY <1>1, <2>1 DEF Returning
<1>9. ASSUME NEW c \in Logouts, Logout(c) \/ Revoked(c) PROVE Fresh'
  <2>1. call'[c] \in {"answered", "failed", "revoking"}
    BY <1>9, GotoType DEF Logout, Revoked, CallStates, Calls
  <2> QED BY <1>1, <2>1 DEF Returning
<1>10. ASSUME NEW c \in Calls, ReturnLogin(c) \/ ReturnLogout(c) PROVE Fresh'
  BY <1>1, <1>10, RefreshAsked DEF ReturnLogin, ReturnLogout
<1>11. CASE Hear
  BY <1>1, <1>11, RefreshAsked DEF Hear
<1>12. CASE Expire
  BY <1>2, <1>12 DEF Expire, page, Returning
<1>13. CASE Renew
  <2>1. events' > 0
    <3>1. events \in Nat
      BY DEF TypeOK
    <3>2. events' = events + 1
      BY <1>13 DEF Renew
    <3> QED BY <3>1, <3>2
  <2> QED BY <2>1 DEF Fresh, ReadComing
<1>14. ASSUME NEW i \in Refreshes, AnswerStatus(i) PROVE Fresh'
  <2>1. latest' = i /\ session' = session
    BY <1>14 DEF AnswerStatus
  <2>2. refresh'[i] = [at |-> "answered", answer |-> session]
    BY <1>14 DEF AnswerStatus, TypeOK
  <2> QED BY <2>1, <2>2 DEF Fresh, Current
<1>15. ASSUME NEW i \in Refreshes, TakeStatus(i) PROVE Fresh'
  <2>1. /\ refresh[i].at = "answered" /\ status' = refresh[i].answer
        /\ UNCHANGED <<session, events, lapsed, call>>
    BY <1>15 DEF TakeStatus, backend
  <2>2. \A j \in Refreshes : j # i => refresh'[j] = refresh[j]
    BY <1>15 DEF TakeStatus, TypeOK
  <2>3. latest' = IF latest = i THEN "shown" ELSE IF latest = "shown" THEN "overtaken" ELSE latest
    BY <1>15 DEF TakeStatus
  <2>4. ReadComing => ReadComing'
    BY <2>1, <2>2 DEF ReadComing, Returning
  <2>5. Current => Current'
    BY <2>1, <2>2, <2>3, ThereAreRefreshes DEF Current
  <2> QED BY <2>4, <2>5 DEF Fresh
<1>16. ASSUME NEW i \in Refreshes, ListStatus(i) PROVE Fresh'
  <2>1. refresh[i].at = "listing" /\ UNCHANGED <<events, call, status, latest>>
    BY <1>16 DEF ListStatus, ReadSession, backend
  <2>2. \A j \in Refreshes : j # i => refresh'[j] = refresh[j]
    BY <1>16 DEF ListStatus, TypeOK
  <2>3. lapsed' = TRUE \/ UNCHANGED <<session, lapsed>>
    BY <1>16 DEF ListStatus, ReadSession, backend, TypeOK
  <2>4. ReadComing => ReadComing'
    BY <2>1, <2>2 DEF ReadComing, Returning
  <2>5. Current => Current'
    BY <2>1, <2>2, <2>3 DEF Current
  <2> QED BY <2>4, <2>5 DEF Fresh
<1>17. CASE UNCHANGED vars
  BY <1>2, <1>17 DEF vars, Returning
<1> QED
  BY <1>4, <1>5, <1>6, <1>7, <1>8, <1>9, <1>10, <1>11, <1>12, <1>13, <1>14, <1>15, <1>16, <1>17
     DEF Next, LoginStep, CancelStep, LogoutStep, RefreshStep, Calls

\* When nothing is under way between page and backend, the page shows the session that
\* is there, unless it has expired or answers came in the wrong order.
THEOREM QuietPage == Spec => []QuietPageIsRight
<1>1. Init => Fresh
  <2> DEFINE i == CHOOSE j \in Refreshes : TRUE
  <2>1. i \in Refreshes
    BY ThereAreRefreshes
  <2>2. Init => refresh = [[j \in Refreshes |-> NoRefresh] EXCEPT ![i].at = "asked"]
    BY DEF Init
  <2> HIDE DEF i
  <2>3. Init => refresh[i].at = "asked"
    BY <2>1, <2>2 DEF NoRefresh
  <2> QED BY <2>1, <2>3 DEF Fresh, ReadComing
<1>2. TypeOK /\ Fresh => QuietPageIsRight
  <2> SUFFICES ASSUME TypeOK, Fresh, Quiet, ~lapsed, latest # "overtaken" PROVE status = session
    BY DEF QuietPageIsRight
  <2>1. Returning = {}
    BY DEF Quiet, Returning
  <2>2. ~ReadComing
    BY <2>1 DEF Quiet, ReadComing
  <2>3. ~(latest \in Refreshes /\ refresh[latest].at = "answered")
    BY DEF Quiet
  <2> QED BY <2>2, <2>3 DEF Fresh, Current
<1> QED BY <1>1, <1>2, TypeInit, TypeStep, FreshStep, PTL DEF Spec
-----------------------------------------------------------------------------
(***************************************************************************)
(* Logins that can be cancelled                                            *)
(***************************************************************************)

LEMMA CleanStep == TypeOK /\ CleanInv /\ [Next]_vars => CleanInv'
<1> DEFINE Good(c) == /\ call'[c] # "idle"
                      /\ c \notin cancelled' /\ call'[c] \in {"invoked", "running"} => Cancellable(c)'
<1> SUFFICES ASSUME TypeOK, CleanInv, [Next]_vars, NEW c \in clean', c \in Logins PROVE Good(c)
  BY TypeStep DEF CleanInv, TypeOK
<1>1. ASSUME c \in clean, call'[c] = call[c], cancelled' = cancelled,
             c \notin cancelled /\ call[c] \in {"invoked", "running"} => Cancellable(c)'
      PROVE  Good(c)
  BY <1>1 DEF CleanInv
\* The calls of the logins are left alone, and so is what Cancellable is about.
<1>2. ASSUME c \in clean, \A d \in Logins : call'[d] = call[d],
             \A x \in Cancels : call'[x] = "answered" => call[x] = "answered",
             UNCHANGED <<cancelled, slot, loginPending, label>>
      PROVE  Good(c)
  BY <1>1, <1>2 DEF CleanInv, Cancellable
<1>3. ASSUME NEW d \in Logins, ClickLogin(d) PROVE Good(c)
  <2>1. call[d] = "idle" /\ call'[d] = "invoked" /\ ~loginPending
        /\ \A e \in Calls : e # d => call'[e] = call[e]
    BY <1>3, GotoType DEF ClickLogin, CallStates, Calls
  <2>2. loginPending' = TRUE /\ label' = "Cancel" /\ UNCHANGED cancelled
    BY <1>3 DEF ClickLogin, LabelFor, backend
  <2>3. CASE c \in clean
    BY <1>1, <2>1, <2>2, <2>3 DEF CleanInv, Cancellable, Calls
  <2>4. CASE c \notin clean
    <3>1. c = d /\ UnderWay(Logins \cup Cancels) = {}
      BY <1>3, <2>4 DEF ClickLogin
    <3>2. \A e \in Logins \cup Cancels : e # d => call'[e] \in {"idle", "done"}
      BY <2>1, <3>1 DEF UnderWay, Calls
    <3>3. d \notin Cancels
      BY CallsDiffer
    <3> QED BY <2>1, <2>2, <3>1, <3>2, <3>3 DEF Cancellable
  <2> QED BY <2>3, <2>4
<1>4. ASSUME NEW x \in Cancels \cup Logouts, ClickCancel(x) \/ ClickLogout(x) PROVE Good(c)
  <2>1. call'[x] = "invoked" /\ \A e \in Calls : e # x => call'[e] = call[e]
    BY <1>4, GotoType DEF ClickCancel, ClickLogout, CallStates, Calls
  <2>2. UNCHANGED <<cancelled, slot, loginPending, label, clean>>
    BY <1>4 DEF ClickCancel, ClickLogout, backend, page
  <2> QED BY <1>2, <2>1, <2>2, CallsDiffer DEF Calls
<1>5. ASSUME NEW d \in Logins, ReturnLogin(d) PROVE Good(c)
  <2>1. call[d] \in {"answered", "failed"} /\ call'[d] = "done"
        /\ \A e \in Calls : e # d => call'[e] = call[e]
    BY <1>5, GotoType DEF ReturnLogin, CallStates, Calls
  <2>2. UNCHANGED <<cancelled, clean>>
    BY <1>5 DEF ReturnLogin, backend
  <2> QED BY <1>1, <2>1, <2>2 DEF CleanInv, Cancellable, Calls
<1>6. ASSUME NEW x \in Cancels, ReturnCancel(x) PROVE Good(c)
  <2>1. call[x] = "answered" /\ \A e \in Calls : e # x => call'[e] = call[e]
    BY <1>6, GotoType DEF ReturnCancel, CallStates, Calls
  <2>2. UNCHANGED <<cancelled, clean>>
    BY <1>6 DEF ReturnCancel, backend
  <2> QED BY <1>1, <2>1, <2>2, CallsDiffer DEF CleanInv, Cancellable, Calls
<1>7. ASSUME NEW x \in Logouts, ReturnLogout(x) \/ Revoked(x) PROVE Good(c)
  <2>1. \A e \in Calls : e # x => call'[e] = call[e]
    BY <1>7, GotoType DEF ReturnLogout, Revoked, CallStates, Calls
  <2>2. UNCHANGED <<cancelled, slot, loginPending, label, clean>>
    BY <1>7 DEF ReturnLogout, Revoked, backend, page
  <2> QED BY <1>2, <2>1, <2>2, CallsDiffer DEF Calls
<1>8. ASSUME NEW d \in Logins, StartLogin(d) PROVE Good(c)
  <2>1. /\ call[d] = "invoked" /\ call'[d] \in {"running", "answered"}
        /\ call'[d] = "running" => slot' = d
        /\ \A e \in Calls : e # d => call'[e] = call[e]
    BY <1>8, GotoType DEF StartLogin, CallStates, Calls
  <2>2. UNCHANGED <<cancelled, loginPending, label, clean>>
    BY <1>8 DEF StartLogin, page
  <2>3. CASE c = d
    BY <2>1, <2>2, <2>3, CallsDiffer DEF CleanInv, Cancellable, Calls
  <2>4. CASE c # d
    BY <1>1, <2>1, <2>2, <2>4 DEF CleanInv, Cancellable, Calls
  <2> QED BY <2>3, <2>4
<1>9. ASSUME NEW d \in Logins, LoginSucceeds(d) \/ LoginFails(d) PROVE Good(c)
  <2>1. /\ call[d] = "running" /\ call'[d] \in {"answered", "failed"}
        /\ \A e \in Calls : e # d => call'[e] = call[e]
    BY <1>9, GotoType DEF LoginSucceeds, LoginFails, CallStates, Calls
  <2>2. UNCHANGED <<cancelled, clean>>
    BY <1>9 DEF LoginSucceeds, LoginFails
  <2> QED BY <1>1, <2>1, <2>2 DEF CleanInv, Cancellable, Calls
<1>10. ASSUME NEW x \in Cancels, CancelLogin(x) PROVE Good(c)
  <2>1. call'[c] = call[c] /\ c \in clean /\ call[c] # "invoked"
    BY <1>10, GotoType, CallsDiffer DEF CancelLogin, CallStates, Calls
  <2>2. slot = c => c \in cancelled'
    BY <1>10, CallsDiffer DEF CancelLogin, TakeSlot
  <2>3. cancelled \subseteq cancelled'
    BY <1>10 DEF CancelLogin, TakeSlot
  <2> QED BY <2>1, <2>2, <2>3 DEF CleanInv, Cancellable
<1>11. ASSUME NEW x \in Logouts, Logout(x) PROVE Good(c)
  <2>1. \A e \in Calls : e # x => call'[e] = call[e]
    BY <1>11, GotoType DEF Logout, CallStates, Calls
  <2>2. cancelled \subseteq cancelled' /\ (slot = c => c \in cancelled')
    BY <1>11, CallsDiffer DEF Logout, TakeSlot
  <2>3. UNCHANGED <<loginPending, label, clean>>
    BY <1>11 DEF Logout, page
  <2> QED BY <2>1, <2>2, <2>3, CallsDiffer DEF CleanInv, Cancellable, Calls
<1>12. ASSUME Expire \/ Renew \/ Hear \/ (\E i \in Refreshes : AnswerStatus(i) \/ ListStatus(i))
       PROVE  Good(c)
  <2>1. UNCHANGED <<call, cancelled, slot, loginPending, label, clean>>
    BY <1>12 DEF Expire, Renew, Hear, AnswerStatus, ListStatus, ReadSession, backend, page
  <2> QED BY <1>2, <2>1
<1>13. ASSUME NEW i \in Refreshes, TakeStatus(i) PROVE Good(c)
  <2>1. /\ UNCHANGED <<call, cancelled, slot, loginPending, clean>>
        /\ loginPending => label' = "Cancel"
    BY <1>13 DEF TakeStatus, LabelFor, backend
  <2> QED BY <1>1, <2>1 DEF CleanInv, Cancellable
<1>14. CASE UNCHANGED vars
  BY <1>2, <1>14 DEF vars
<1> QED
  BY <1>3, <1>4, <1>5, <1>6, <1>7, <1>8, <1>9, <1>10, <1>11, <1>12, <1>13, <1>14
     DEF Next, LoginStep, CancelStep, LogoutStep, RefreshStep

\* A login that was begun with nothing else under way can be cancelled for as long as it
\* runs: the button offers it, and the backend has the slot for it.
THEOREM CleanLogins == Spec => []CleanLoginsCanBeCancelled
<1>1. Init => CleanInv
  BY DEF Init, CleanInv
<1>2. TypeOK /\ CleanInv => CleanLoginsCanBeCancelled
  BY DEF CleanInv, Cancellable, CleanLoginsCanBeCancelled
<1> QED BY <1>1, <1>2, TypeInit, TypeStep, CleanStep, PTL DEF Spec
-----------------------------------------------------------------------------
(***************************************************************************)
(* What the button says                                                    *)
(***************************************************************************)

LEMMA LabelStep == TypeOK /\ LabelInv /\ [Next]_vars => LabelInv'
<1> SUFFICES ASSUME TypeOK, LabelInv, [Next]_vars PROVE LabelInv'
  OBVIOUS
<1>1. ASSUME UNCHANGED <<status, loginPending, label>>,
             \A i \in Refreshes : refresh[i].at \in {"asked", "answered"}
                                    => refresh'[i].at \in {"asked", "answered"}
      PROVE  LabelInv'
  BY <1>1 DEF LabelInv, LabelIsRight, LabelFor
<1>2. ASSUME \E i \in Refreshes : refresh'[i].at = "asked" PROVE LabelInv'
  BY <1>2 DEF LabelInv
<1>3. ASSUME NEW c \in Logins, ClickLogin(c) PROVE LabelInv'
  BY <1>3 DEF ClickLogin, LabelInv, LabelIsRight, LabelFor
<1>4. ASSUME NEW c \in Calls, ReturnCancel(c) PROVE LabelInv'
  BY <1>4 DEF ReturnCancel, LabelInv, LabelIsRight, LabelFor
<1>5. ASSUME NEW c \in Calls, ReturnLogin(c) \/ ReturnLogout(c) PROVE LabelInv'
  BY <1>2, <1>5, RefreshAsked DEF ReturnLogin, ReturnLogout
<1>6. CASE Hear
  BY <1>2, <1>6, RefreshAsked DEF Hear
<1>7. ASSUME NEW c \in Calls,
             \/ ClickCancel(c) \/ ClickLogout(c)
             \/ StartLogin(c) \/ LoginSucceeds(c) \/ LoginFails(c)
             \/ CancelLogin(c) \/ Logout(c) \/ Revoked(c)
      PROVE  LabelInv'
  <2>1. UNCHANGED page
    BY <1>7 DEF ClickCancel, ClickLogout, StartLogin, LoginSucceeds, LoginFails, CancelLogin,
                Logout, Revoked
  <2> QED BY <1>1, <2>1 DEF page
<1>8. CASE Expire \/ Renew
  BY <1>1, <1>8 DEF Expire, Renew, page
<1>9. ASSUME NEW i \in Refreshes, AnswerStatus(i) \/ ListStatus(i) PROVE LabelInv'
  <2>1. UNCHANGED <<status, loginPending, label>>
    BY <1>9 DEF AnswerStatus, ListStatus
  <2>2. refresh[i].at = "listing" \/ refresh'[i].at = "answered"
    <3>1. ASSUME AnswerStatus(i) PROVE refresh'[i].at = "answered"
      BY <3>1 DEF AnswerStatus, TypeOK
    <3>2. ASSUME ListStatus(i) PROVE refresh[i].at = "listing"
      BY <3>2 DEF ListStatus
    <3> QED BY <1>9, <3>1, <3>2
  <2>3. PICK answer : refresh' = [refresh EXCEPT ![i] = answer]
    BY <1>9 DEF AnswerStatus, ListStatus
  <2>4. \A j \in Refreshes : j # i => refresh'[j] = refresh[j]
    BY <2>3 DEF TypeOK
  <2> QED BY <1>1, <2>1, <2>2, <2>4
<1>10. ASSUME NEW i \in Refreshes, TakeStatus(i) PROVE LabelInv'
  BY <1>10 DEF TakeStatus, LabelInv, LabelIsRight, LabelFor
<1>11. CASE UNCHANGED vars
  BY <1>1, <1>11 DEF vars
<1> QED
  BY <1>3, <1>4, <1>5, <1>6, <1>7, <1>8, <1>9, <1>10, <1>11
     DEF Next, LoginStep, CancelStep, LogoutStep, RefreshStep, Calls

\* Calls are only made by clicks.
LEMMA ClicksMakeCalls ==
  ASSUME TypeOK, [Next]_vars, NEW c \in Calls, call[c] = "idle", call'[c] = "invoked"
  PROVE  \/ c \in Logins /\ ClickLogin(c)
         \/ c \in Cancels /\ ClickCancel(c)
         \/ c \in Logouts /\ ClickLogout(c)
<1>1. ASSUME NEW d \in Calls, NEW state \in CallStates \ {"invoked"}, Goto(d, state) PROVE FALSE
  BY <1>1, GotoType
<1>2. ASSUME NEW d \in Calls, Goto(d, "invoked") PROVE c = d
  BY <1>2, GotoType DEF CallStates
<1>3. ASSUME NEW d \in Logins, LoginStep(d) PROVE FALSE
  BY <1>1, <1>3 DEF LoginStep, StartLogin, LoginSucceeds, LoginFails, ReturnLogin, CallStates, Calls
<1>4. ASSUME NEW d \in Cancels, CancelStep(d) PROVE FALSE
  BY <1>1, <1>4 DEF CancelStep, CancelLogin, ReturnCancel, CallStates, Calls
<1>5. ASSUME NEW d \in Logouts, LogoutStep(d) PROVE FALSE
  BY <1>1, <1>5 DEF LogoutStep, Logout, Revoked, ReturnLogout, CallStates, Calls
<1>6. ASSUME Expire \/ Renew \/ Hear \/ (\E i \in Refreshes : RefreshStep(i)) \/ UNCHANGED vars
      PROVE  FALSE
  BY <1>6 DEF Expire, Renew, Hear, RefreshStep, AnswerStatus, TakeStatus, ListStatus, vars
<1>7. ASSUME NEW d \in Logins, ClickLogin(d) PROVE c = d
  BY <1>2, <1>7 DEF ClickLogin, Calls
<1>8. ASSUME NEW d \in Cancels, ClickCancel(d) PROVE c = d
  BY <1>2, <1>8 DEF ClickCancel, Calls
<1>9. ASSUME NEW d \in Logouts, ClickLogout(d) PROVE c = d
  BY <1>2, <1>9 DEF ClickLogout, Calls
<1> QED BY <1>3, <1>4, <1>5, <1>6, <1>7, <1>8, <1>9 DEF Next

\* A click does what the button says, unless the answer that will render it is awaited.
THEOREM ClicksAsLabelled == Spec => ClicksDoWhatTheLabelSays
<1> DEFINE A == /\ \A c \in Logins : call[c] = "idle" /\ call'[c] = "invoked" => Announced("Sign in")
                /\ \A c \in Cancels : call[c] = "idle" /\ call'[c] = "invoked" => Announced("Cancel")
                /\ \A c \in Logouts : call[c] = "idle" /\ call'[c] = "invoked" => Announced("Sign out")
<1>1. Init => LabelInv
  BY UnreadIsNoSession DEF Init, LabelInv, LabelIsRight, LabelFor
<1>2. TypeOK /\ LabelInv /\ [Next]_vars => A
  <2> SUFFICES ASSUME TypeOK, LabelInv, [Next]_vars PROVE A
    OBVIOUS
  <2>1. LabelIsRight \/ \A text : Announced(text)
    BY DEF LabelInv, Announced
  <2>2. ASSUME NEW c \in Logins, call[c] = "idle", call'[c] = "invoked" PROVE Announced("Sign in")
    <3>1. ~loginPending /\ status = None
      BY <2>2, ClicksMakeCalls, CallsDiffer DEF ClickLogin, Calls
    <3> QED BY <2>1, <3>1, CallsDiffer DEF Announced, LabelIsRight, LabelFor
  <2>3. ASSUME NEW c \in Cancels, call[c] = "idle", call'[c] = "invoked" PROVE Announced("Cancel")
    <3>1. loginPending
      BY <2>3, ClicksMakeCalls, CallsDiffer DEF ClickCancel, Calls
    <3> QED BY <2>1, <3>1 DEF Announced, LabelIsRight, LabelFor
  <2>4. ASSUME NEW c \in Logouts, call[c] = "idle", call'[c] = "invoked" PROVE Announced("Sign out")
    <3>1. ~loginPending /\ status \in Logins
      BY <2>4, ClicksMakeCalls, CallsDiffer DEF ClickLogout, Calls
    <3> QED BY <2>1, <3>1 DEF Announced, LabelIsRight, LabelFor
  <2> QED BY <2>2, <2>3, <2>4
<1> QED BY <1>1, <1>2, TypeInit, TypeStep, LabelStep, PTL DEF Spec, ClicksDoWhatTheLabelSays
-----------------------------------------------------------------------------
(***************************************************************************)
(* Page implements SignIns                                                 *)
(***************************************************************************)

LEMMA ViewInit == Init => View!Init
  BY CallsDiffer DEF Init, View!Init, Stage

\* A step other than the success of a login keeps the session or drops it, and calls
\* that have been answered stay so.
Retiring ==
  /\ session' \in {session, None}
  /\ \A c \in Logins : call[c] \in Ended => call'[c] \in Ended

LEMMA StepKinds ==
  ASSUME TypeOK, [Next]_vars
  PROVE  Retiring \/ \E c \in Logins : LoginSucceeds(c)
<1>1. ASSUME NEW c \in Calls, NEW state \in CallStates, Goto(c, state),
             call[c] \notin Ended \/ state \in Ended \/ c \notin Logins, session' \in {session, None}
      PROVE  Retiring
  BY <1>1, GotoType DEF Retiring, Calls
<1>2. ASSUME NEW c \in Logins, ClickLogin(c) \/ StartLogin(c) \/ LoginFails(c) \/ ReturnLogin(c)
      PROVE  Retiring
  BY <1>1, <1>2
     DEF ClickLogin, StartLogin, LoginFails, ReturnLogin, CallStates, Calls, Ended, backend
<1>3. ASSUME NEW c \in Cancels, ClickCancel(c) \/ CancelStep(c) PROVE Retiring
  BY <1>1, <1>3, CallsDiffer
     DEF ClickCancel, CancelStep, CancelLogin, ReturnCancel, CallStates, Calls, backend
<1>4. ASSUME NEW c \in Logouts, ClickLogout(c) \/ LogoutStep(c) PROVE Retiring
  BY <1>1, <1>4, CallsDiffer
     DEF ClickLogout, LogoutStep, Logout, Revoked, ReturnLogout, CallStates, Calls, backend
<1>5. ASSUME Expire \/ Renew \/ Hear \/ (\E i \in Refreshes : RefreshStep(i)) \/ UNCHANGED vars
      PROVE  Retiring
  <2>1. call' = call /\ session' \in {session, None}
    BY <1>5 DEF Expire, Renew, Hear, RefreshStep, AnswerStatus, TakeStatus, ListStatus, ReadSession,
                backend, vars
  <2> QED BY <2>1 DEF Retiring
<1> QED BY <1>2, <1>3, <1>4, <1>5 DEF Next, LoginStep

LEMMA SessionStep == TypeOK /\ SessionInv /\ [Next]_vars => SessionInv'
<1> SUFFICES ASSUME TypeOK, SessionInv, [Next]_vars PROVE SessionInv'
  OBVIOUS
<1>1. CASE Retiring
  BY <1>1 DEF Retiring, SessionInv, TypeOK
<1>2. ASSUME NEW c \in Logins, LoginSucceeds(c) PROVE SessionInv'
  BY <1>2, GotoType DEF LoginSucceeds, SessionInv, Ended, CallStates, Calls
<1> QED BY <1>1, <1>2, StepKinds

LEMMA SuccessIsSignIn ==
  ASSUME TypeOK, SessionInv, NEW c \in Logins, LoginSucceeds(c)
  PROVE  View!SignIn(c, c)
<1>1. /\ session' = c /\ call[c] = "running" /\ call'[c] = "answered"
      /\ \A d \in Logins : d # c => call'[d] = call[d]
  BY GotoType DEF LoginSucceeds, CallStates, Calls
<1>2. session # c
  BY <1>1, CallsDiffer DEF SessionInv, Ended
<1>3. \A d \in Logins : Stage'[d] = IF d = c THEN "active"
                                    ELSE IF Stage[d] = "active" THEN "retired" ELSE Stage[d]
  BY <1>1, CallsDiffer DEF Stage, SessionInv, Ended
<1>4. Stage' = [d \in Logins |-> IF d = c THEN "active"
                                 ELSE IF Stage[d] = "active" THEN "retired" ELSE Stage[d]]
  BY <1>3 DEF Stage
<1>5. Stage[c] = "fresh"
  BY <1>1, <1>2 DEF Stage
<1> QED BY <1>1, <1>4, <1>5 DEF View!SignIn

LEMMA RetiringIsRetire ==
  ASSUME TypeOK, SessionInv, Retiring
  PROVE  \E S \in SUBSET Logins : View!Retire(S)
<1> DEFINE S == {c \in Logins : Stage'[c] = "retired"}
<1>1. \A c \in Logins : Stage'[c] = IF c \in S THEN "retired" ELSE Stage[c]
  BY CallsDiffer DEF Retiring, Stage, SessionInv, Ended
<1>2. session' = IF \E c \in S : Stage[c] = "active" THEN None ELSE session
  BY CallsDiffer DEF Retiring, Stage, SessionInv, Ended, TypeOK
<1>3. S \in SUBSET Logins
  OBVIOUS
<1> HIDE DEF S
<1>4. Stage' = [c \in Logins |-> IF c \in S THEN "retired" ELSE Stage[c]]
  BY <1>1 DEF Stage
<1> QED BY <1>2, <1>3, <1>4 DEF View!Retire

\* However a user clicks, the session behind the page is one that SignIns allows: a login
\* makes at most one session, and what has ended never comes back.
THEOREM Refinement == Spec => ImplementsSignIns
<1>1. Init => SessionInv
  BY DEF Init, SessionInv
<1>2. TypeOK /\ SessionInv /\ [Next]_vars => [View!Next]_<<Stage, session>>
  <2> SUFFICES ASSUME TypeOK, SessionInv, [Next]_vars PROVE View!Next
    OBVIOUS
  <2>1. CASE Retiring
    BY <2>1, RetiringIsRetire DEF View!Next
  <2>2. CASE \E c \in Logins : LoginSucceeds(c)
    BY <2>2, SuccessIsSignIn DEF View!Next
  <2> QED BY <2>1, <2>2, StepKinds
<1> QED BY <1>1, <1>2, TypeInit, TypeStep, SessionStep, ViewInit, PTL
        DEF Spec, ImplementsSignIns, View!Spec
=============================================================================
