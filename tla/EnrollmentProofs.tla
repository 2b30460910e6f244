-------------------------- MODULE EnrollmentProofs --------------------------
(***************************************************************************)
(* Proofs about Enrollment, for any number of calls and users and chains   *)
(* of any length, with and without the faults.                             *)
(***************************************************************************)
EXTENDS Enrollment, TLAPS

(***************************************************************************)
(* Types                                                                   *)
(***************************************************************************)

LEMMA NoCallIsACall == NoCall \in Calls
  BY DEF NoCall, Calls

LEMMA TypeInit == Init => TypeOK
  BY NoCallIsACall, IntermediatesIsANumber DEF Init, TypeOK

\* An error path keeps the types of what it touches.
LEMMA AbortType ==
  ASSUME TypeOK, NEW r \in Requests, Abort(r)
  PROVE  /\ keys' \in SUBSET Requests /\ abandoned' \in SUBSET Requests
         /\ pc' \in [Requests -> UnderWay \cup {"idle", "done", "failed"}]
         /\ \A q \in Requests : pc'[q] # "idle" => pc[q] # "idle" \/ q = r
  BY DEF Abort, DeleteKey, Goto, TypeOK

LEMMA RequestStepType ==
  ASSUME TypeOK, NEW r \in Requests, RequestStep(r) PROVE TypeOK'
<1> USE DEF TypeOK, Goto, keyVars, stores, serverVars
<1>1. CASE ListExisting(r) \/ ListRefuses(r)
  BY <1>1 DEF ListExisting, ListRefuses, UnderWay
<1>2. CASE Generate(r) \/ GenerateUnread(r)
  BY <1>2 DEF Generate, GenerateUnread, UnderWay
<1>3. CASE GenerateRejected(r)
  BY <1>3 DEF GenerateRejected, DeleteKey
<1>4. CASE ReadSan(r)
  BY <1>4 DEF ReadSan, Calls, UnderWay
<1>5. CASE ReadSanFails(r) \/ AcceptFails(r)
  BY <1>5, AbortType DEF ReadSanFails, AcceptFails
<1>6. CASE Sign(r)
  BY <1>6 DEF Sign, Calls, UnderWay
<1>7. CASE SignFails(r)
  BY <1>7, AbortType DEF SignFails
<1>8. CASE Stage(r)
  BY <1>8, IntermediatesIsANumber DEF Stage
<1>9. CASE Accept(r)
  BY <1>9 DEF Accept
<1> QED BY <1>1, <1>2, <1>3, <1>4, <1>5, <1>6, <1>7, <1>8, <1>9 DEF RequestStep

LEMMA OtherStepType ==
  ASSUME TypeOK,
         \/ \E u \in Users \cup {NoUser} : ChangeUser(u)
         \/ \E r \in Requests : BeginRequest(r) \/ BeginRemoval(r) \/ RemovalStep(r)
         \/ ExitAndRestart
  PROVE  TypeOK'
<1> USE DEF TypeOK, Goto, keyVars, stores, serverVars
<1>1. ASSUME NEW u \in Users \cup {NoUser}, ChangeUser(u) PROVE TypeOK'
  BY <1>1 DEF ChangeUser
<1>2. ASSUME NEW r \in Requests, BeginRequest(r) PROVE TypeOK'
  BY <1>2 DEF BeginRequest, Overlap, Others, Calls, UnderWay
<1>3. ASSUME NEW r \in Requests, BeginRemoval(r) \/ RemovalStep(r) PROVE TypeOK'
  BY <1>3 DEF BeginRemoval, RemovalStep, RevokeCertificate, RevokeFails, DeleteCertificate
<1>4. CASE ExitAndRestart
  <2>1. PICK made \in SUBSET {r \in Requests : pc[r] = "generating"},
             accepted \in SUBSET {r \in Requests : pc[r] = "accepting" /\ call[r].valid} :
          /\ keys' = keys \cup made
          /\ store' = store \cup {r \in accepted : staged[r] = Intermediates}
          /\ staged' = [r \in Requests |-> IF r \in accepted /\ staged[r] < Intermediates
                                           THEN staged[r] + 1 ELSE staged[r]]
    BY <1>4 DEF ExitAndRestart
  <2>2. staged' \in [Requests -> 0 .. Intermediates]
    BY <2>1, IntermediatesIsANumber
  <2>3. keys' \in SUBSET Requests /\ store' \in SUBSET Requests
    BY <2>1
  <2>4. abandoned' \in SUBSET Requests
    BY <1>4, <2>3 DEF ExitAndRestart
  <2>5. /\ pc' \in [Requests -> UnderWay \cup {"idle", "done", "failed"}]
        /\ \A r \in Requests : pc'[r] # "idle" => pc[r] # "idle"
    BY <1>4 DEF ExitAndRestart, UnderWay
  <2> QED BY <1>4, <2>2, <2>3, <2>4, <2>5 DEF ExitAndRestart
<1> QED BY <1>1, <1>2, <1>3, <1>4

LEMMA TypeStep == TypeOK /\ [Next]_vars => TypeOK'
<1> SUFFICES ASSUME TypeOK, [Next]_vars PROVE TypeOK'
  OBVIOUS
<1>1. CASE UNCHANGED vars
  BY <1>1 DEF vars, TypeOK
<1> QED BY <1>1, RequestStepType, OtherStepType DEF Next

\* The state of calls, keys, certificates and removals keeps its shape.
THEOREM TypeCorrect == Spec => []TypeOK
  BY TypeInit, TypeStep, PTL DEF Spec

(***************************************************************************)
(* Keys and chains                                                         *)
(*                                                                         *)
(* A call has its key between certreq -new and its end, and none before.   *)
(* What is in the store belongs to a call that has ended, so that no       *)
(* clean-up is left that could take its key.                               *)
(***************************************************************************)
KeyInv ==
  /\ \A r \in Requests : pc[r] \in {"idle", "listing", "generating"} => r \notin keys
  /\ \A r \in Requests : pc[r] \in {"reading", "signing", "accepting"} => r \in keys
  /\ \A r \in store : pc[r] \in {"done", "failed"}
  /\ InstalledCertificatesAreUsable
  /\ LeftoverKeysAreExplained

LEMMA KeyInit == Init => KeyInv
  BY DEF Init, KeyInv, InstalledCertificatesAreUsable, LeftoverKeysAreExplained

\* A call that ends with an error has no certificate, and its key is deleted or
\* recorded.
LEMMA AbortKey ==
  ASSUME TypeOK, KeyInv, NEW r \in Requests, pc[r] \in UnderWay, Abort(r),
         store' = store, staged' = staged
  PROVE  KeyInv'
  BY DEF Abort, DeleteKey, Goto, UnderWay, TypeOK, KeyInv,
         InstalledCertificatesAreUsable, LeftoverKeysAreExplained

LEMMA KeyStep == TypeOK /\ KeyInv /\ [Next]_vars => KeyInv'
<1> SUFFICES ASSUME TypeOK, KeyInv, [Next]_vars PROVE KeyInv'
  OBVIOUS
<1> USE DEF KeyInv, InstalledCertificatesAreUsable, LeftoverKeysAreExplained, keyVars, stores
<1>1. CASE UNCHANGED vars
  BY <1>1 DEF vars
<1>2. ASSUME NEW u \in Users \cup {NoUser}, ChangeUser(u) PROVE KeyInv'
  BY <1>2 DEF ChangeUser
<1>3. ASSUME NEW r \in Requests, BeginRequest(r) PROVE KeyInv'
  BY <1>3 DEF BeginRequest, Goto, TypeOK
<1>4. ASSUME NEW r \in Requests, RequestStep(r) PROVE KeyInv'
  <2>1. CASE ListExisting(r) \/ ListRefuses(r)
    BY <2>1 DEF ListExisting, ListRefuses, Goto, TypeOK
  <2>2. CASE Generate(r) \/ GenerateUnread(r)
    BY <2>2 DEF Generate, GenerateUnread, Goto, TypeOK
  <2>3. CASE GenerateRejected(r)
    BY <2>3, AbortKey DEF GenerateRejected, Abort, UnderWay
  <2>4. CASE ReadSan(r) \/ Sign(r)
    BY <2>4 DEF ReadSan, Sign, Goto, TypeOK
  <2>5. CASE ReadSanFails(r) \/ SignFails(r) \/ AcceptFails(r)
    BY <2>5, AbortKey DEF ReadSanFails, SignFails, AcceptFails, UnderWay
  <2>6. CASE Stage(r)
    BY <2>6 DEF Stage, TypeOK
  <2>7. CASE Accept(r)
    BY <2>7 DEF Accept, Goto, TypeOK
  <2> QED BY <1>4, <2>1, <2>2, <2>3, <2>4, <2>5, <2>6, <2>7 DEF RequestStep
<1>5. ASSUME NEW r \in Requests, BeginRemoval(r) \/ RemovalStep(r) PROVE KeyInv'
  BY <1>5 DEF BeginRemoval, RemovalStep, RevokeCertificate, RevokeFails, DeleteCertificate
<1>6. CASE ExitAndRestart
  <2>1. PICK made \in SUBSET {r \in Requests : pc[r] = "generating"},
             accepted \in SUBSET {r \in Requests : pc[r] = "accepting" /\ call[r].valid} :
          /\ keys' = keys \cup made
          /\ store' = store \cup {r \in accepted : staged[r] = Intermediates}
          /\ staged' = [r \in Requests |-> IF r \in accepted /\ staged[r] < Intermediates
                                           THEN staged[r] + 1 ELSE staged[r]]
    BY <1>6 DEF ExitAndRestart
  <2>2. \A r \in Requests : /\ pc[r] \in UnderWay => pc'[r] = "failed"
                            /\ pc[r] \notin UnderWay => pc'[r] = pc[r]
    BY <1>6 DEF ExitAndRestart
  <2>3. \A r \in Requests : pc'[r] \in {"idle", "listing", "generating"} => r \notin keys'
    BY <2>1, <2>2 DEF TypeOK, UnderWay
  <2>4. \A r \in Requests : pc'[r] \notin {"reading", "signing", "accepting"}
    BY <2>2 DEF TypeOK, UnderWay
  <2>5. \A r \in store' : pc'[r] \in {"done", "failed"}
    BY <2>1, <2>2 DEF TypeOK, UnderWay
  <2>6. InstalledCertificatesAreUsable'
    BY <2>1, IntermediatesIsANumber DEF TypeOK
  <2>7. LeftoverKeysAreExplained'
    BY <1>6, <2>1, <2>2 DEF ExitAndRestart, TypeOK, UnderWay
  <2> QED BY <2>3, <2>4, <2>5, <2>6, <2>7
<1> QED BY <1>1, <1>2, <1>3, <1>4, <1>5, <1>6 DEF Next

LEMMA KeyInvariant == Spec => []KeyInv
<1>1. TypeOK /\ KeyInv /\ [Next]_vars => KeyInv'
  BY KeyStep
<1> QED BY <1>1, KeyInit, TypeCorrect, PTL DEF Spec

\* Installed certificates have their key and their chain.
THEOREM CertificatesAreUsable == Spec => []InstalledCertificatesAreUsable
<1>1. KeyInv => InstalledCertificatesAreUsable
  BY DEF KeyInv
<1> QED BY <1>1, KeyInvariant, PTL

\* Every error after certreq -new passes through a deletion of the key.
THEOREM KeysAreDeleted == Spec => []LeftoverKeysAreExplained
<1>1. KeyInv => LeftoverKeysAreExplained
  BY DEF KeyInv
<1> QED BY <1>1, KeyInvariant, PTL

(***************************************************************************)
(* Names                                                                   *)
(*                                                                         *)
(* Until the SAN claim is read, a call whose session has not changed is    *)
(* for the user who is signed in.                                          *)
(***************************************************************************)
NameInv ==
  /\ \A r \in Requests : pc[r] = "idle" => call[r].san = NoUser
  /\ \A r \in Requests : pc[r] \in {"listing", "generating", "reading"} =>
       call[r].san = NoUser /\ (r \in switched \/ user = call[r].identity)
  /\ \A r \in Requests : call[r].san \notin {NoUser, call[r].identity} => r \in switched

LEMMA NameInit == Init => NameInv
  BY DEF Init, NoCall, NameInv

LEMMA NameStep == TypeOK /\ NameInv /\ [Next]_vars => NameInv'
<1> SUFFICES ASSUME TypeOK, NameInv, [Next]_vars PROVE NameInv'
  OBVIOUS
<1> USE DEF NameInv
<1>1. CASE UNCHANGED vars
  BY <1>1 DEF vars
<1>2. ASSUME NEW u \in Users \cup {NoUser}, ChangeUser(u) PROVE NameInv'
  BY <1>2 DEF ChangeUser, UnderWay
<1>3. ASSUME NEW r \in Requests, BeginRequest(r) PROVE NameInv'
  <2>1. /\ pc[r] = "idle" /\ pc' = [pc EXCEPT ![r] = "listing"]
        /\ call'[r].identity = user /\ call'[r].san = call[r].san
        /\ \A q \in Requests \ {r} : call'[q] = call[q]
        /\ user' = user /\ switched' = switched
    BY <1>3 DEF BeginRequest, Goto, TypeOK, Calls
  <2> QED BY <2>1 DEF TypeOK
<1>4. ASSUME NEW r \in Requests, RequestStep(r) PROVE NameInv'
  <2>1. CASE ListExisting(r) \/ ListRefuses(r)
    BY <2>1 DEF ListExisting, ListRefuses, Goto, TypeOK
  <2>2. CASE Generate(r) \/ GenerateUnread(r) \/ GenerateRejected(r)
    BY <2>2 DEF Generate, GenerateUnread, GenerateRejected, Goto, TypeOK
  <2>3. CASE ReadSan(r)
    <3>1. /\ pc[r] = "reading" /\ pc' = [pc EXCEPT ![r] = "signing"]
          /\ call'[r].identity = call[r].identity /\ call'[r].san \in {user, NoUser}
          /\ \A q \in Requests \ {r} : call'[q] = call[q]
          /\ user' = user /\ switched' = switched
      BY <2>3 DEF ReadSan, Goto, TypeOK, Calls
    <3> QED BY <3>1 DEF TypeOK
  <2>4. CASE Sign(r)
    <3>1. /\ pc' = [pc EXCEPT ![r] = "accepting"]
          /\ \A q \in Requests : call'[q].san = call[q].san /\ call'[q].identity = call[q].identity
          /\ user' = user /\ switched' = switched
      BY <2>4 DEF Sign, Goto, TypeOK, Calls
    <3> QED BY <3>1 DEF TypeOK
  <2>5. CASE ReadSanFails(r) \/ SignFails(r) \/ AcceptFails(r)
    BY <2>5 DEF ReadSanFails, SignFails, AcceptFails, Abort, Goto, TypeOK
  <2>6. CASE Stage(r) \/ Accept(r)
    BY <2>6 DEF Stage, Accept, Goto, TypeOK
  <2> QED BY <1>4, <2>1, <2>2, <2>3, <2>4, <2>5, <2>6 DEF RequestStep
<1>5. ASSUME NEW r \in Requests, BeginRemoval(r) \/ RemovalStep(r) PROVE NameInv'
  BY <1>5 DEF BeginRemoval, RemovalStep, RevokeCertificate, RevokeFails, DeleteCertificate
<1>6. CASE ExitAndRestart
  BY <1>6 DEF ExitAndRestart, TypeOK, UnderWay
<1> QED BY <1>1, <1>2, <1>3, <1>4, <1>5, <1>6 DEF Next

\* A certificate names two users only if the session changed during its call.
THEOREM NamesAgree == Spec => []TwoNamesOnlyAfterASwitch
<1>1. TypeOK /\ NameInv /\ [Next]_vars => NameInv'
  BY NameStep
<1>2. TypeOK /\ NameInv => TwoNamesOnlyAfterASwitch
  BY DEF TypeOK, NameInv, TwoNamesOnlyAfterASwitch
<1> QED BY <1>1, <1>2, NameInit, TypeCorrect, PTL DEF Spec

(***************************************************************************)
(* Twins                                                                   *)
(*                                                                         *)
(* A call that has passed its look at the inventory found none of its      *)
(* identity, or was confirmed; so what is there of that identity came by a *)
(* call beside it.                                                         *)
(***************************************************************************)
PastListing == {"generating", "reading", "signing", "accepting"}
Twins(r, s) ==
  r # s /\ call[r].identity = call[s].identity /\ ~call[r].replace /\ ~call[s].replace

TwinInv ==
  /\ \A r, s \in Requests : r # s /\ pc[r] \in UnderWay /\ pc[s] \in UnderWay => r \in overlapped
  /\ \A r \in Requests, s \in store :
       pc[r] \in PastListing /\ Twins(r, s) => {r, s} \subseteq overlapped
  /\ TwinsComeFromOverlaps

LEMMA TwinInit == Init => TwinInv
  BY DEF Init, TwinInv, TwinsComeFromOverlaps, UnderWay

\* What a step keeps as long as it neither begins a call nor installs a certificate.
LEMMA QuietTwins ==
  ASSUME TypeOK, TwinInv,
         overlapped' = overlapped, store' \subseteq store,
         \A q \in Requests : /\ call'[q].identity = call[q].identity
                             /\ call'[q].replace = call[q].replace
                             /\ pc'[q] \in UnderWay => pc[q] \in UnderWay
                             /\ pc'[q] \in PastListing => pc[q] \in PastListing
  PROVE  TwinInv'
  BY DEF TypeOK, TwinInv, Twins, TwinsComeFromOverlaps

LEMMA TwinStep == TypeOK /\ KeyInv /\ TwinInv /\ [Next]_vars => TwinInv'
<1> SUFFICES ASSUME TypeOK, KeyInv, TwinInv, [Next]_vars PROVE TwinInv'
  OBVIOUS
<1>1. CASE UNCHANGED vars
  BY <1>1, QuietTwins DEF vars
<1>2. ASSUME NEW u \in Users \cup {NoUser}, ChangeUser(u) PROVE TwinInv'
  BY <1>2, QuietTwins DEF ChangeUser, stores
<1>3. ASSUME NEW r \in Requests, BeginRequest(r) PROVE TwinInv'
  <2>1. /\ pc[r] = "idle" /\ pc' = [pc EXCEPT ![r] = "listing"]
        /\ \A q \in Requests \ {r} : call'[q] = call[q]
        /\ overlapped' = overlapped \cup (IF Others(r) = {} THEN {} ELSE {r} \cup Others(r))
        /\ store' = store /\ r \notin store
    BY <1>3 DEF BeginRequest, Overlap, Goto, TypeOK, KeyInv, stores
  <2>2. \A q, s \in Requests : q # s /\ pc'[q] \in UnderWay /\ pc'[s] \in UnderWay => q \in overlapped'
    BY <2>1 DEF TypeOK, TwinInv, Others, UnderWay
  <2>3. \A q \in Requests, s \in store' :
          pc'[q] \in PastListing /\ Twins(q, s)' => {q, s} \subseteq overlapped'
    BY <2>1 DEF TypeOK, TwinInv, Twins, PastListing
  <2>4. TwinsComeFromOverlaps'
    BY <2>1 DEF TypeOK, TwinInv, TwinsComeFromOverlaps
  <2> QED BY <2>2, <2>3, <2>4 DEF TwinInv
<1>4. ASSUME NEW r \in Requests, RequestStep(r) PROVE TwinInv'
  <2>1. CASE ListExisting(r)
    <3>1. \A s \in store : Twins(r, s) => FALSE
      BY <2>1 DEF ListExisting, Matching, Twins
    <3> QED BY <2>1, <3>1 DEF ListExisting, Goto, TypeOK, TwinInv, Twins,
              TwinsComeFromOverlaps, UnderWay, PastListing, stores
  <2>2. CASE \/ ListRefuses(r) \/ Generate(r) \/ GenerateUnread(r) \/ GenerateRejected(r)
             \/ ReadSanFails(r) \/ SignFails(r) \/ AcceptFails(r)
    BY <2>2, QuietTwins DEF ListRefuses, Generate, GenerateUnread, GenerateRejected, ReadSanFails,
       SignFails, AcceptFails, Abort, Goto, TypeOK, UnderWay, PastListing, stores
  <2>3. CASE ReadSan(r) \/ Sign(r)
    <3>1. \A q \in Requests : call'[q].identity = call[q].identity /\ call'[q].replace = call[q].replace
      BY <2>3 DEF ReadSan, Sign, TypeOK, Calls
    <3> QED BY <2>3, <3>1, QuietTwins DEF ReadSan, Sign, Goto, TypeOK, UnderWay, PastListing, stores
  <2>4. CASE Stage(r)
    BY <2>4, QuietTwins DEF Stage
  <2>5. CASE Accept(r)
    <3>1. /\ pc[r] = "accepting" /\ pc' = [pc EXCEPT ![r] = "done"]
          /\ store' = store \cup {r} /\ call' = call /\ overlapped' = overlapped
      BY <2>5 DEF Accept, Goto
    <3> QED BY <3>1 DEF TypeOK, TwinInv, Twins, TwinsComeFromOverlaps, UnderWay, PastListing
  <2> QED BY <1>4, <2>1, <2>2, <2>3, <2>4, <2>5 DEF RequestStep
<1>5. ASSUME NEW r \in Requests, BeginRemoval(r) \/ RemovalStep(r) PROVE TwinInv'
  BY <1>5, QuietTwins DEF BeginRemoval, RemovalStep, RevokeCertificate, RevokeFails,
     DeleteCertificate, stores
<1>6. CASE ExitAndRestart
  <2>1. PICK accepted \in SUBSET {r \in Requests : pc[r] = "accepting"} :
          store' = store \cup accepted
    <3>1. PICK chosen \in SUBSET {r \in Requests : pc[r] = "accepting" /\ call[r].valid} :
            store' = store \cup {r \in chosen : staged[r] = Intermediates}
      BY <1>6 DEF ExitAndRestart
    <3> QED BY <3>1
  <2>2. /\ \A q \in Requests : pc'[q] \notin UnderWay
        /\ call' = call /\ overlapped' = overlapped
    BY <1>6 DEF ExitAndRestart, TypeOK, UnderWay
  <2>3. TwinsComeFromOverlaps'
    BY <2>1, <2>2 DEF TypeOK, TwinInv, Twins, TwinsComeFromOverlaps, UnderWay, PastListing
  <2> QED BY <2>2, <2>3 DEF TwinInv, UnderWay, PastListing
<1> QED BY <1>1, <1>2, <1>3, <1>4, <1>5, <1>6 DEF Next

\* Two certificates of one identity, neither confirmed as a replacement, come from
\* calls that overlapped.
THEOREM TwinsOverlap == Spec => []TwinsComeFromOverlaps
<1>1. TypeOK /\ KeyInv /\ TwinInv /\ [Next]_vars => TwinInv'
  BY TwinStep
<1>2. TwinInv => TwinsComeFromOverlaps
  BY DEF TwinInv
<1> QED BY <1>1, <1>2, TwinInit, KeyInvariant, TypeCorrect, PTL DEF Spec

(***************************************************************************)
(* Removals                                                                *)
(***************************************************************************)

\* A removal that goes on after its revocation was confirmed.
RemovalInv == \A r \in Requests : removal[r] = "deleting" => r \in revoked

LEMMA RemovalStepInv == TypeOK /\ RemovalInv /\ [Next]_vars => RemovalInv'
<1> SUFFICES ASSUME TypeOK, RemovalInv, [Next]_vars PROVE RemovalInv'
  OBVIOUS
<1> USE DEF RemovalInv, serverVars
<1>1. CASE UNCHANGED vars
  BY <1>1 DEF vars
<1>2. ASSUME NEW r \in Requests, BeginRemoval(r) \/ RemovalStep(r) PROVE RemovalInv'
  BY <1>2 DEF TypeOK, BeginRemoval, RemovalStep, RevokeCertificate, RevokeFails, DeleteCertificate
<1>3. CASE ExitAndRestart
  BY <1>3 DEF ExitAndRestart
<1>4. ASSUME \/ \E u \in Users \cup {NoUser} : ChangeUser(u)
             \/ \E r \in Requests : BeginRequest(r) \/ RequestStep(r)
      PROVE  removal' = removal /\ revoked' = revoked
  BY <1>4 DEF ChangeUser, BeginRequest, RequestStep, ListExisting, ListRefuses, Generate,
     GenerateRejected, GenerateUnread, ReadSan, ReadSanFails, Sign, SignFails, Stage, Accept,
     AcceptFails
<1> QED BY <1>1, <1>2, <1>3, <1>4 DEF Next

\* What the user asked to revoke leaves the store only when it is revoked.
THEOREM RevokedFirst == Spec => RemovalRevokesFirst
<1> DEFINE Kept == \A r \in store \ store' : removal[r] # "deletingOnly" => r \in revoked
<1>1. Init => RemovalInv
  BY DEF Init, RemovalInv
<1>2. TypeOK /\ RemovalInv /\ [Next]_vars => RemovalInv'
  BY RemovalStepInv
<1>3. TypeOK /\ RemovalInv /\ [Next]_vars => [Kept]_vars
  <2> SUFFICES ASSUME TypeOK, RemovalInv, Next, NEW r \in store, r \notin store'
               PROVE  removal[r] = "deletingOnly" \/ r \in revoked
    BY DEF vars
  <2>1. \E q \in Requests : DeleteCertificate(q)
    BY DEF Next, ChangeUser, BeginRequest, RequestStep, ListExisting, ListRefuses, Generate,
       GenerateRejected, GenerateUnread, ReadSan, ReadSanFails, Sign, SignFails, Stage, Accept,
       AcceptFails, BeginRemoval, RemovalStep, RevokeCertificate, RevokeFails, ExitAndRestart, stores
  <2> QED BY <2>1 DEF DeleteCertificate, RemovalInv
<1> QED BY <1>1, <1>2, <1>3, TypeCorrect, PTL DEF Spec, RemovalRevokesFirst
=============================================================================
