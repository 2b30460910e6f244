-------------------------- MODULE RootTrustProofs --------------------------
(***************************************************************************)
(* Proofs about RootTrust, for any roots, certificates and checks.         *)
(***************************************************************************)
EXTENDS RootTrust, TLAPS

LEMMA ProbeIsBoolean ==
  ASSUME NEW c
  PROVE  Probe(c) \subseteq BOOLEAN /\ ProbeRivals(c) \subseteq BOOLEAN
  BY DEF Probe, ProbeRivals

LEMMA NullTypes == NoPending \in PendingRoots /\ NoJob \in Jobs
  BY DEF NoPending, PendingRoots, NoJob, Jobs

\* What the invariant is about: the shape of the state, and where certificates that
\* are about to be added come from.  A certificate is confirmed before it is
\* approved, and a main-thread installation begins with a confirmation.
Shown == {"read", "previewed"}
Agreed == {"confirmed", "approved", "adding"}

ConfirmedInv ==
  /\ \A k \in Checks : pc[k] \in Shown \cup Agreed => check[k].cert \in Certs
  /\ \A k \in Checks : pc[k] \in Agreed => check[k].cert \in confirmed
  /\ job.op = "none" => job.step = "idle"
  /\ job.op # "none" => job.root \in Roots
  /\ job.op = "install" => Embedded[job.root] \in confirmed
  /\ job.step \in {"compare", "add"} => job.op = "install"

Inv == TypeOK /\ ConfirmedInv

LEMMA InvInit == Init => Inv
  BY NullTypes DEF Init, Inv, TypeOK, ConfirmedInv, NoJob, Shown, Agreed

LEMMA CheckStepInv ==
  ASSUME Inv, NEW k \in Checks, CheckStep(k)
  PROVE  Inv'
<1> USE NullTypes DEF Inv, Goto, End, Shown, Agreed
<1>1. CASE BeginCheck(k)
  BY <1>1 DEF BeginCheck, TypeOK, ConfirmedInv, PendingRoots
<1>2. CASE ReadPem(k)
  BY <1>2 DEF ReadPem, TypeOK, ConfirmedInv, PendingRoots
<1>3. CASE CheckFails(k)
  BY <1>3 DEF CheckFails, TypeOK, ConfirmedInv
<1>4. CASE Preview(k)
  BY <1>4 DEF Preview, TypeOK, ConfirmedInv
<1>5. CASE Confirm(k)
  BY <1>5 DEF Confirm, TypeOK, ConfirmedInv
<1>6. CASE Decline(k)
  BY <1>6 DEF Decline, TypeOK, ConfirmedInv
<1>7. CASE Approve(k)
  BY <1>7 DEF Approve, TypeOK, ConfirmedInv
<1>8. CASE ProbeApproved(k)
  BY <1>8 DEF ProbeApproved, TypeOK, ConfirmedInv
<1>9. CASE AddApproved(k)
  BY <1>9 DEF AddApproved, SetStore, TypeOK, ConfirmedInv
<1>10. CASE AddApprovedFails(k)
  BY <1>10 DEF AddApprovedFails, TypeOK, ConfirmedInv
<1> QED BY <1>1, <1>2, <1>3, <1>4, <1>5, <1>6, <1>7, <1>8, <1>9, <1>10 DEF CheckStep

LEMMA JobStepInv ==
  ASSUME Inv, JobStep
  PROVE  Inv'
<1> USE EmbeddedType DEF Inv
<1>1. ASSUME NEW r \in Roots, BeginInstall(r) PROVE Inv'
  <2>1. job' = [op |-> "install", root |-> r, step |-> "probe", misread |-> FALSE]
    BY <1>1 DEF BeginInstall, NoJob
  <2>2. job' \in Jobs
    BY <2>1 DEF Jobs
  <2>3. Embedded[r] \in Certs
    BY <1>1
  <2>4. TypeOK'
    BY <1>1, <2>2, <2>3 DEF BeginInstall, TypeOK
  <2>5. ConfirmedInv'
    BY <1>1, <2>1 DEF BeginInstall, ConfirmedInv
  <2> QED BY <2>4, <2>5
<1>2. ASSUME NEW r \in Roots, BeginRemove(r) PROVE Inv'
  BY <1>2 DEF BeginRemove, TypeOK, ConfirmedInv, NoJob, Jobs
<1>3. CASE InspectInstalled
  <2>1. job.op \in {"install", "remove"} /\ job.root \in Roots
    BY <1>3 DEF InspectInstalled, TypeOK, ConfirmedInv, Jobs
  <2>2. PICK installed \in BOOLEAN :
          Look(installed, IF job.op = "remove" THEN (IF installed THEN "delete" ELSE "ok")
                                               ELSE (IF installed THEN "ok" ELSE "compare"))
    BY <1>3 DEF InspectInstalled
  <2>3. /\ job'.op = job.op /\ job'.root = job.root /\ job'.misread \in BOOLEAN
        /\ job'.step \in {"delete", "ok", "compare"}
        /\ job'.step = "compare" => job.op = "install"
        /\ job' \in Jobs
    BY <2>1, <2>2 DEF Look, TypeOK, Jobs
  <2>4. TypeOK'
    BY <1>3, <2>3 DEF InspectInstalled, TypeOK
  <2>5. ConfirmedInv'
    BY <1>3, <2>1, <2>3 DEF InspectInstalled, ConfirmedInv
  <2> QED BY <2>4, <2>5
<1>4. CASE InspectConflict
  BY <1>4 DEF InspectConflict, Step, TypeOK, ConfirmedInv, Jobs
<1>5. CASE AddRoot
  BY <1>5 DEF AddRoot, SetStore, Step, TypeOK, ConfirmedInv, Jobs
<1>6. CASE DeleteRoot
  BY <1>6 DEF DeleteRoot, SetStore, Step, TypeOK, ConfirmedInv, Jobs
<1>7. CASE CommandFails
  BY <1>7 DEF CommandFails, Step, TypeOK, ConfirmedInv, Jobs
<1>8. CASE Verify
  <2>1. PICK installed \in BOOLEAN :
          Look(installed, IF installed = (job.op = "install") THEN "ok" ELSE "error")
    BY <1>8 DEF Verify
  <2>2. /\ job'.op = job.op /\ job'.root = job.root
        /\ job'.step \in {"ok", "error"}
        /\ job' \in Jobs
    BY <2>1 DEF Look, TypeOK, Jobs
  <2>3. TypeOK'
    BY <1>8, <2>2 DEF Verify, TypeOK
  <2>4. ConfirmedInv'
    BY <1>8, <2>2 DEF Verify, TypeOK, ConfirmedInv, Jobs
  <2> QED BY <2>3, <2>4
<1> QED BY <1>1, <1>2, <1>3, <1>4, <1>5, <1>6, <1>7, <1>8 DEF JobStep

LEMMA GateStepInv ==
  ASSUME Inv, GateStep
  PROVE  Inv'
  BY DEF Inv, GateStep, BeginGate, CheckRoot, PassGate, TypeOK, ConfirmedInv

LEMMA InvStep == Inv /\ [Next]_vars => Inv'
<1> SUFFICES ASSUME Inv, [Next]_vars PROVE Inv'
  OBVIOUS
<1>1. CASE UNCHANGED vars
  BY <1>1 DEF vars, Inv, TypeOK, ConfirmedInv
<1> QED BY <1>1, CheckStepInv, JobStepInv, GateStepInv DEF Next

\* The store, the pending root and the calls keep their shape.
THEOREM TypeCorrect == Spec => []TypeOK
<1>1. Inv => TypeOK
  BY DEF Inv
<1> QED BY <1>1, InvInit, InvStep, PTL DEF Spec

\* The store grows only in AddApproved and AddRoot.
LEMMA StoreWriters ==
  ASSUME [Next]_vars, NEW c, c \in store' \ store
  PROVE  \/ \E k \in Checks : AddApproved(k) /\ c = check[k].cert
         \/ AddRoot /\ c = Embedded[job.root]
<1>1. ASSUME NEW k \in Checks, CheckStep(k), ~AddApproved(k) PROVE FALSE
  BY <1>1 DEF CheckStep, BeginCheck, ReadPem, CheckFails, Preview, Confirm, Decline, Approve,
              ProbeApproved, AddApprovedFails
<1>2. ASSUME NEW k \in Checks, AddApproved(k) PROVE c = check[k].cert
  BY <1>2 DEF AddApproved, SetStore
<1>3. ASSUME JobStep, ~AddRoot PROVE FALSE
  BY <1>3 DEF JobStep, BeginInstall, BeginRemove, InspectInstalled, InspectConflict,
              DeleteRoot, SetStore, CommandFails, Verify
<1>4. ASSUME AddRoot PROVE c = Embedded[job.root]
  BY <1>4 DEF AddRoot, SetStore
<1>5. ASSUME GateStep PROVE FALSE
  BY <1>5 DEF GateStep, BeginGate, CheckRoot, PassGate
<1>6. ASSUME UNCHANGED vars PROVE FALSE
  BY <1>6 DEF vars
<1> QED BY <1>1, <1>2, <1>3, <1>4, <1>5, <1>6 DEF Next

\* Whatever the checks, approvals, installations and removals that overlap, no
\* certificate becomes trusted that the user has not confirmed.
THEOREM ConfirmedOnly == Spec => OnlyConfirmedRootsAreTrusted
<1>1. Inv /\ [Next]_vars => [store' \ store \subseteq confirmed]_vars
  <2> SUFFICES ASSUME Inv, [Next]_vars, NEW c \in store' \ store PROVE c \in confirmed
    OBVIOUS
  <2>1. ASSUME NEW k \in Checks, AddApproved(k), c = check[k].cert PROVE c \in confirmed
    BY <2>1 DEF Inv, ConfirmedInv, AddApproved, Agreed
  <2>2. ASSUME AddRoot, c = Embedded[job.root] PROVE c \in confirmed
    BY <2>2 DEF Inv, ConfirmedInv, AddRoot
  <2> QED BY <2>1, <2>2, StoreWriters
<1> QED BY <1>1, InvInit, InvStep, PTL DEF Spec, OnlyConfirmedRootsAreTrusted

\* A command ends with a look at the store, and a look that finds the certificate is
\* never wrong.
THEOREM CommandsAreDone == Spec => ReportedCommandsAreDone
<1> DEFINE Done == job.step # "ok" /\ job'.step = "ok" =>
        IF job.op = "install" THEN Embedded[job.root] \in store'
        ELSE Embedded[job.root] \notin store' \/ job'.misread
<1>1. Inv /\ [Next]_vars => [Done]_vars
  <2> SUFFICES ASSUME Inv, [Next]_vars, job.step # "ok", job'.step = "ok"
               PROVE  Done
    OBVIOUS
  <2>1. job \in Jobs
    BY DEF Inv, TypeOK
  <2>2. InspectInstalled \/ Verify
    <3>1. ASSUME NEW k \in Checks, CheckStep(k) PROVE job' = job
      BY <3>1 DEF CheckStep, BeginCheck, ReadPem, CheckFails, Preview, Confirm, Decline, Approve,
                  ProbeApproved, AddApproved, AddApprovedFails
    <3>2. ASSUME GateStep PROVE job' = job
      BY <3>2 DEF GateStep, BeginGate, CheckRoot, PassGate
    <3>3. ASSUME JobStep, ~InspectInstalled, ~Verify PROVE job'.step # "ok"
      BY <2>1, <3>3 DEF JobStep, BeginInstall, BeginRemove, InspectConflict, AddRoot, DeleteRoot,
                        CommandFails, Step, NoJob, Jobs
    <3>4. job' # job
      OBVIOUS
    <3> QED BY <3>1, <3>2, <3>3, <3>4 DEF Next, vars
  <2>3. CASE InspectInstalled
    <3>1. PICK installed \in BOOLEAN :
            Look(installed, IF job.op = "remove" THEN (IF installed THEN "delete" ELSE "ok")
                                                 ELSE (IF installed THEN "ok" ELSE "compare"))
      BY <2>3 DEF InspectInstalled
    <3>2. /\ job'.misread = (job.misread \/ (~installed /\ Embedded[job.root] \in store))
          /\ job'.step = IF job.op = "remove" THEN (IF installed THEN "delete" ELSE "ok")
                                              ELSE (IF installed THEN "ok" ELSE "compare")
      BY <2>1, <3>1 DEF Look, Jobs
    <3>3. installed => Embedded[job.root] \in store
      BY <3>1 DEF Look, Probe
    <3>4. store' = store
      BY <2>3 DEF InspectInstalled
    <3>5. CASE installed
      <4>1. job.op # "remove"
        BY <3>2, <3>5
      <4>2. job.op = "install"
        BY <2>1, <2>3, <4>1 DEF Inv, ConfirmedInv, InspectInstalled, Jobs
      <4> QED BY <3>3, <3>4, <3>5, <4>2
    <3>6. CASE ~installed
      <4>1. job.op = "remove"
        BY <3>2, <3>6
      <4> QED BY <3>2, <3>4, <3>6, <4>1
    <3> QED BY <3>5, <3>6
  <2>4. CASE Verify
    BY <2>1, <2>4 DEF Verify, Look, Probe, Jobs
  <2> QED BY <2>2, <2>3, <2>4
<1> QED BY <1>1, InvInit, InvStep, PTL DEF Spec, ReportedCommandsAreDone

\* What the gate has ticked off was in the store during its call.
GateInv ==
  /\ gate.pc = "checking" => store \subseteq present
  /\ gate.pc \in {"checking", "passed"} => \A r \in Roots \ gate.left : Embedded[r] \in present
  /\ gate.pc = "passed" => gate.left = {}

LEMMA GateInvStep == TypeOK /\ GateInv /\ [Next]_vars => GateInv'
<1> SUFFICES ASSUME TypeOK, GateInv, [Next]_vars PROVE GateInv'
  OBVIOUS
<1>1. ASSUME NEW certs, SetStore(certs), UNCHANGED gate PROVE GateInv'
  BY <1>1 DEF GateInv, SetStore
<1>2. ASSUME UNCHANGED <<store, gate, present>> PROVE GateInv'
  BY <1>2 DEF GateInv
<1>3. ASSUME NEW k \in Checks, CheckStep(k) PROVE GateInv'
  BY <1>1, <1>2, <1>3 DEF CheckStep, BeginCheck, ReadPem, CheckFails, Preview, Confirm, Decline,
              Approve, ProbeApproved, AddApproved, AddApprovedFails
<1>4. CASE JobStep
  BY <1>1, <1>2, <1>4 DEF JobStep, BeginInstall, BeginRemove, InspectInstalled, InspectConflict,
              AddRoot, DeleteRoot, CommandFails, Verify
<1>5. CASE BeginGate
  BY <1>5 DEF BeginGate, GateInv
<1>6. CASE CheckRoot
  <2>1. PICK r \in gate.left, installed \in BOOLEAN :
          /\ installed \in Probe(Embedded[r])
          /\ gate' = IF installed THEN [gate EXCEPT !.left = @ \ {r}]
                     ELSE [pc |-> "refused", left |-> {}]
    BY <1>6 DEF CheckRoot
  <2>2. gate.pc = "checking" /\ store' = store /\ present' = present
    BY <1>6 DEF CheckRoot
  <2>3. CASE installed
    <3>1. gate' = [gate EXCEPT !.left = @ \ {r}]
      BY <2>1, <2>3
    <3>2. gate'.pc = "checking" /\ gate'.left = gate.left \ {r}
      BY <2>2, <3>1 DEF TypeOK
    <3>3. Embedded[r] \in present
      BY <2>1, <2>2, <2>3 DEF Probe, GateInv
    <3> QED BY <2>2, <3>2, <3>3 DEF GateInv
  <2>4. CASE ~installed
    <3>1. gate'.pc = "refused"
      BY <2>1, <2>4
    <3> QED BY <3>1 DEF GateInv
  <2> QED BY <2>3, <2>4
<1>7. CASE PassGate
  BY <1>7 DEF PassGate, GateInv, TypeOK
<1>8. CASE UNCHANGED vars
  BY <1>2, <1>8 DEF vars
<1> QED BY <1>3, <1>4, <1>5, <1>6, <1>7, <1>8 DEF Next, GateStep

\* The gate passes only on roots that were all in the store at some time of its call.
THEOREM GateSaw == Spec => []GateSawEveryRoot
<1>1. Init => GateInv
  BY DEF Init, GateInv
<1>2. GateInv => GateSawEveryRoot
  BY DEF GateInv, GateSawEveryRoot
<1>3. Inv => TypeOK
  BY DEF Inv
<1> QED BY <1>1, <1>2, <1>3, GateInvStep, InvInit, InvStep, PTL DEF Spec
=============================================================================
