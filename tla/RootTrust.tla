----------------------------- MODULE RootTrust -----------------------------
(***************************************************************************)
(* The root certificates in CurrentUser\Root: install_root and             *)
(* remove_root, the rollover by check_root_update and approve_root_update, *)
(* and the gate ensure_roots_installed (lib.rs, certificates.rs).          *)
(*                                                                         *)
(* install_root and remove_root are synchronous commands: they run on the  *)
(* main thread, one at a time.  The others are asynchronous and run beside *)
(* them.  Each look at the store is a process of its own; one that fails   *)
(* counts as `not there'.                                                  *)
(***************************************************************************)
EXTENDS FiniteSets

CONSTANTS
  Roots,         \* the ids of the configured roots
  Certs,         \* the root certificates there are
  Embedded,      \* the certificate configured for each root
  Subject,       \* the subject of each certificate
  Checks,        \* the clicks on `Check update'
  NoRoot, NoCert

ASSUME EmbeddedType == Embedded \in [Roots -> Certs]
ASSUME NothingIsDistinct == NoRoot \notin Roots /\ NoCert \notin Certs

VARIABLES
  store,      \* the certificates in CurrentUser\Root
  pending,    \* RuntimeState::pending_root
  pc,         \* where each check, with the approval it leads to, is
  check,      \* the root and the certificate of each check
  job,        \* the command on the main thread
  gate,       \* one call of ensure_roots_installed, and what it has seen
  confirmed,  \* history: the certificates the user said yes to
  present     \* history: what was in the store at some time of the gate's call

vars == <<store, pending, pc, check, job, gate, confirmed, present>>

NoPending == [root |-> NoRoot, cert |-> NoCert]
\* misread is a history variable: a look has missed the certificate.
NoJob == [op |-> "none", root |-> NoRoot, step |-> "idle", misread |-> FALSE]

Init ==
  /\ store \in SUBSET Certs
  /\ pending = NoPending
  /\ pc = [k \in Checks |-> "idle"]
  /\ check = [k \in Checks |-> NoPending]
  /\ job = NoJob
  /\ gate = [pc |-> "idle", left |-> {}]
  /\ confirmed = {} /\ present = {}

\* What a look at the store reports: TRUE only if the certificate is there, and
\* FALSE also if the process could not be run or failed.
Probe(c) == {(c \in store), FALSE}
Rivals(c) == {d \in store : d # c /\ Subject[d] = Subject[c]}
ProbeRivals(c) == {Rivals(c) # {}, FALSE}

SetStore(certs) == /\ store' = certs
                   /\ present' = IF gate.pc = "checking" THEN present \cup certs ELSE present
Goto(k, label) == pc' = [pc EXCEPT ![k] = label]
End(k) == Goto(k, "done") /\ check' = [check EXCEPT ![k] = NoPending]

(***************************************************************************)
(* check_root_update and approve_root_update                               *)
(***************************************************************************)

BeginCheck(k) ==
  /\ pc[k] = "idle"
  /\ \E r \in Roots : check' = [check EXCEPT ![k].root = r]
  /\ Goto(k, "reading")
  /\ UNCHANGED <<store, pending, job, gate, confirmed, present>>

\* read_pem: OpenBao returns a self-signed CA certificate.
ReadPem(k) ==
  /\ pc[k] = "reading"
  /\ \E c \in Certs : check' = [check EXCEPT ![k].cert = c]
  /\ Goto(k, "read")
  /\ UNCHANGED <<store, pending, job, gate, confirmed, present>>

\* No session, no answer, or not a root certificate.
CheckFails(k) ==
  /\ pc[k] = "reading"
  /\ End(k)
  /\ UNCHANGED <<store, pending, job, gate, confirmed, present>>

\* It is kept as the pending root, in place of any other, and shown to the user.
Preview(k) ==
  /\ pc[k] = "read"
  /\ pending' = check[k]
  /\ \E installed \in Probe(check[k].cert) :
       IF installed THEN End(k) ELSE Goto(k, "previewed") /\ UNCHANGED check
  /\ UNCHANGED <<store, job, gate, confirmed, present>>

\* The dialog with the fingerprint.
Confirm(k) ==
  /\ pc[k] = "previewed"
  /\ confirmed' = confirmed \cup {check[k].cert}
  /\ Goto(k, "confirmed")
  /\ UNCHANGED <<store, pending, check, job, gate, present>>

Decline(k) ==
  /\ pc[k] = "previewed"
  /\ End(k)
  /\ UNCHANGED <<store, pending, job, gate, confirmed, present>>

\* Variant: whatever is pending by now is what was approved.
ApproveUnfiltered(k) ==
  /\ pc[k] = "confirmed"
  /\ pending' = NoPending
  /\ check' = [check EXCEPT ![k] = pending]
  /\ Goto(k, "approved")
  /\ UNCHANGED <<store, job, gate, confirmed, present>>

\* approve_root_update takes the pending root; it has to be the one confirmed.
\* What is installed is what was taken, which is kept as the check's own now.
Approve(k) ==
  /\ pc[k] = "confirmed"
  /\ pending' = NoPending
  /\ IF pending = check[k]
     THEN check' = [check EXCEPT ![k] = pending] /\ Goto(k, "approved")
     ELSE End(k)
  /\ UNCHANGED <<store, job, gate, confirmed, present>>

\* install_refreshed_root: a certificate of the same subject is no obstacle.
ProbeApproved(k) ==
  /\ pc[k] = "approved"
  /\ \E installed \in Probe(check[k].cert) :
       IF installed THEN End(k) ELSE Goto(k, "adding") /\ UNCHANGED check
  /\ UNCHANGED <<store, pending, job, gate, confirmed, present>>

\* certutil -addstore, then a verification whose outcome only the user sees.
AddApproved(k) ==
  /\ pc[k] = "adding"
  /\ SetStore(store \cup {check[k].cert})
  /\ End(k)
  /\ UNCHANGED <<pending, job, gate, confirmed>>

AddApprovedFails(k) ==
  /\ pc[k] = "adding"
  /\ End(k)
  /\ UNCHANGED <<store, pending, job, gate, confirmed, present>>

(***************************************************************************)
(* install_root and remove_root, on the main thread                        *)
(***************************************************************************)

Step(label) == job' = [job EXCEPT !.step = label]

\* The command looks for its certificate, and goes on.
Look(installed, label) ==
  /\ installed \in Probe(Embedded[job.root])
  /\ job' = [job EXCEPT !.step = label,
                        !.misread = @ \/ (~installed /\ Embedded[job.root] \in store)]

\* The user confirms, whatever the list that is shown was based on.
BeginInstall(r) ==
  /\ job.step \in {"idle", "ok", "error"}
  /\ job' = [NoJob EXCEPT !.op = "install", !.root = r, !.step = "probe"]
  /\ confirmed' = confirmed \cup {Embedded[r]}
  /\ UNCHANGED <<store, pending, pc, check, gate, present>>

BeginRemove(r) ==
  /\ job.step \in {"idle", "ok", "error"}
  /\ job' = [NoJob EXCEPT !.op = "remove", !.root = r, !.step = "probe"]
  /\ UNCHANGED <<store, pending, pc, check, gate, confirmed, present>>

\* inspect_root: is the certificate installed already?
InspectInstalled ==
  /\ job.step = "probe"
  /\ \E installed \in BOOLEAN :
       Look(installed, IF job.op = "remove" THEN (IF installed THEN "delete" ELSE "ok")
                                            ELSE (IF installed THEN "ok" ELSE "compare"))
  /\ UNCHANGED <<store, pending, pc, check, gate, confirmed, present>>

\* inspect_root: is there another certificate with its subject?
InspectConflict ==
  /\ job.step = "compare"
  /\ \E conflict \in ProbeRivals(Embedded[job.root]) :
       Step(IF conflict THEN "error" ELSE "add")
  /\ UNCHANGED <<store, pending, pc, check, gate, confirmed, present>>

AddRoot ==
  /\ job.step = "add"
  /\ SetStore(store \cup {Embedded[job.root]})
  /\ Step("verify")
  /\ UNCHANGED <<pending, pc, check, gate, confirmed>>

DeleteRoot ==
  /\ job.step = "delete"
  /\ SetStore(store \ {Embedded[job.root]})
  /\ Step("verify")
  /\ UNCHANGED <<pending, pc, check, gate, confirmed>>

\* certutil fails, or the certificate could not be staged.
CommandFails ==
  /\ job.step \in {"add", "delete"}
  /\ Step("error")
  /\ UNCHANGED <<store, pending, pc, check, gate, confirmed, present>>

\* Variant: the exit code of certutil is enough.
VerifyNothing ==
  /\ job.step = "verify"
  /\ Step("ok")
  /\ UNCHANGED <<store, pending, pc, check, gate, confirmed, present>>

\* The store is looked at once more before the command reports success.
Verify ==
  /\ job.step = "verify"
  /\ \E installed \in BOOLEAN :
       Look(installed, IF installed = (job.op = "install") THEN "ok" ELSE "error")
  /\ UNCHANGED <<store, pending, pc, check, gate, confirmed, present>>

(***************************************************************************)
(* ensure_roots_installed, before a login or a connection                  *)
(***************************************************************************)

BeginGate ==
  /\ gate.pc \in {"idle", "passed", "refused"}
  /\ gate' = [pc |-> "checking", left |-> Roots]
  /\ present' = store
  /\ UNCHANGED <<store, pending, pc, check, job, confirmed>>

\* Variant: one installed root is enough.
CheckAnyRoot ==
  /\ gate.pc = "checking" /\ gate.left # {}
  /\ \E r \in gate.left : /\ TRUE \in Probe(Embedded[r])
                          /\ gate' = [gate EXCEPT !.left = {}]
  /\ UNCHANGED <<store, pending, pc, check, job, confirmed, present>>

CheckRoot ==
  /\ gate.pc = "checking" /\ gate.left # {}
  /\ \E r \in gate.left, installed \in BOOLEAN :
       /\ installed \in Probe(Embedded[r])
       /\ gate' = IF installed THEN [gate EXCEPT !.left = @ \ {r}]
                  ELSE [pc |-> "refused", left |-> {}]
  /\ UNCHANGED <<store, pending, pc, check, job, confirmed, present>>

PassGate ==
  /\ gate.pc = "checking" /\ gate.left = {}
  /\ gate' = [gate EXCEPT !.pc = "passed"]
  /\ UNCHANGED <<store, pending, pc, check, job, confirmed, present>>
-----------------------------------------------------------------------------
CheckStep(k) ==
  \/ BeginCheck(k) \/ ReadPem(k) \/ CheckFails(k) \/ Preview(k)
  \/ Confirm(k) \/ Decline(k) \/ Approve(k)
  \/ ProbeApproved(k) \/ AddApproved(k) \/ AddApprovedFails(k)

JobStep ==
  \/ \E r \in Roots : BeginInstall(r) \/ BeginRemove(r)
  \/ InspectInstalled \/ InspectConflict
  \/ AddRoot \/ DeleteRoot \/ CommandFails \/ Verify

GateStep == BeginGate \/ CheckRoot \/ PassGate

Next == (\E k \in Checks : CheckStep(k)) \/ JobStep \/ GateStep

Spec == Init /\ [][Next]_vars

(***************************************************************************)
(* Properties                                                              *)
(***************************************************************************)

PendingRoots == [root : Roots \cup {NoRoot}, cert : Certs \cup {NoCert}]
Jobs == [op : {"none", "install", "remove"}, root : Roots \cup {NoRoot},
         step : {"idle", "probe", "compare", "add", "delete", "verify", "ok", "error"},
         misread : BOOLEAN]

\* The store, the pending root and the calls keep their shape.
TypeOK ==
  /\ store \in SUBSET Certs
  /\ pending \in PendingRoots
  /\ pc \in [Checks -> {"idle", "reading", "read", "previewed", "confirmed", "approved",
                        "adding", "done"}]
  /\ check \in [Checks -> PendingRoots]
  /\ job \in Jobs
  /\ gate \in [pc : {"idle", "checking", "passed", "refused"}, left : SUBSET Roots]
  /\ confirmed \in SUBSET Certs
  /\ present \in SUBSET Certs

\* No certificate becomes trusted that the user has not said yes to, even when a
\* second check replaces the pending root while the dialog of the first is open.
OnlyConfirmedRootsAreTrusted == [][ store' \ store \subseteq confirmed ]_vars

\* The gate lets a login through only if every configured root was in the store at
\* some time of the call.
GateSawEveryRoot ==
  gate.pc = "passed" => \A r \in Roots : Embedded[r] \in present

\* When a command says that it has trusted or removed a root, that is so at that
\* moment, whatever a rollover has done to the store meanwhile; only a look that
\* failed can make a removal report what it did not do, never an installation.
ReportedCommandsAreDone ==
  [][ job.step # "ok" /\ job'.step = "ok" =>
        IF job.op = "install" THEN Embedded[job.root] \in store'
        ELSE Embedded[job.root] \notin store' \/ job'.misread ]_vars
=============================================================================
