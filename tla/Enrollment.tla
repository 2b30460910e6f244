----------------------------- MODULE Enrollment -----------------------------
(***************************************************************************)
(* Software-key certificates: issue_certificate and                        *)
(* remove_personal_certificate (lib.rs) with PendingRequest                *)
(* (certificates.rs), for one certificate profile.                         *)
(*                                                                         *)
(* A call of issue_certificate names its key container, its CSR and the    *)
(* certificate that comes of it.  A container is created by certreq -new   *)
(* and deleted by delete_key_container, a best-effort certutil command     *)
(* that the error paths and Drop run; certreq -accept binds the signed     *)
(* certificate to it and puts the certificate into CurrentUser\My.         *)
(***************************************************************************)
EXTENDS Naturals, FiniteSets

CONSTANTS
  Requests,      \* the calls of issue_certificate
  Users,         \* the identities a session can belong to
  NoUser,        \* no session; also: no SAN is asked for
  HasSanClaim,   \* whether the profile configures a san_claim
  Intermediates, \* the length of a chain between a certificate and its root
  Faults         \* which of the faults "delete" (a key is not deleted) and
                 \* "exit" (the application ends) happen

ASSUME NoUserIsNotAUser == NoUser \notin Users
ASSUME SanClaimIsABoolean == HasSanClaim \in BOOLEAN
ASSUME IntermediatesIsANumber == Intermediates \in Nat
ASSUME FaultsAreKnown == Faults \subseteq {"delete", "exit"}

VARIABLES
  user,       \* whose session RuntimeState::session is
  switched,   \* history: the calls under way when the session changed
  overlapped, \* history: the calls that were under way beside another
  pc,         \* where each call is
  call,       \* the local variables of each call
  keys,       \* the named CNG key containers that exist
  staged,     \* how many of a certificate's intermediates are in CurrentUser\CA
  store,      \* the certificates in CurrentUser\My
  abandoned,  \* history: keys nothing in the application will delete
  removal,    \* where the removal of each certificate is
  issued,     \* OpenBao: certificates it has signed
  revoked     \* OpenBao: certificates it has revoked

vars == <<user, switched, overlapped, pc, call, keys, staged, store, abandoned,
          removal, issued, revoked>>
keyVars == <<keys, abandoned>>
serverVars == <<issued, revoked>>
stores == <<staged, store>>

UnderWay == {"listing", "generating", "reading", "signing", "accepting"}
Calls == [identity : Users \cup {NoUser}, san : Users \cup {NoUser},
          replace : BOOLEAN, valid : BOOLEAN]
NoCall == [identity |-> NoUser, san |-> NoUser, replace |-> FALSE, valid |-> FALSE]

Init ==
  /\ user = NoUser
  /\ switched = {} /\ overlapped = {}
  /\ pc = [r \in Requests |-> "idle"]
  /\ call = [r \in Requests |-> NoCall]
  /\ keys = {} /\ store = {} /\ abandoned = {}
  /\ staged = [r \in Requests |-> 0]
  /\ removal = [r \in Requests |-> "none"]
  /\ issued = {} /\ revoked = {}

Others(r) == {q \in Requests \ {r} : pc[q] \in UnderWay}
Overlap(r) == overlapped' = overlapped \cup (IF Others(r) = {} THEN {} ELSE {r} \cup Others(r))
Goto(r, label) == pc' = [pc EXCEPT ![r] = label]

\* login, logout, expiry, a login that overwrites another session: what Session
\* models in detail, seen from here.
ChangeUser(u) ==
  /\ u # user
  /\ user' = u
  /\ switched' = switched \cup {r \in Requests : pc[r] \in UnderWay}
  /\ UNCHANGED <<overlapped, pc, call, keyVars, stores, removal, serverVars>>

(***************************************************************************)
(* issue_certificate                                                       *)
(***************************************************************************)

\* Variant: nobody has to be signed in.
BeginRequestSignedOut(r) ==
  /\ pc[r] = "idle"
  /\ call' = [call EXCEPT ![r].identity = user]
  /\ Overlap(r)
  /\ Goto(r, "listing")
  /\ UNCHANGED <<user, switched, keyVars, stores, removal, serverVars>>

\* with_active_session: token and common name are copied, the lock released.
BeginRequest(r) ==
  /\ pc[r] = "idle"
  /\ user # NoUser
  /\ \E replace \in BOOLEAN :
       call' = [call EXCEPT ![r].identity = user, ![r].replace = replace]
  /\ Overlap(r)
  /\ Goto(r, "listing")
  /\ UNCHANGED <<user, switched, keyVars, stores, removal, serverVars>>

Matching(r) == {c \in store : call[c].identity = call[r].identity}

\* Variant: a certificate that is there is no obstacle.
ListExistingAnyway(r) ==
  /\ pc[r] = "listing"
  /\ Goto(r, "generating")
  /\ UNCHANGED <<user, switched, overlapped, call, keyVars, stores, removal, serverVars>>

\* certificates_for_profile over the store, listed by a PowerShell process.
ListExisting(r) ==
  /\ pc[r] = "listing"
  /\ Matching(r) = {} \/ call[r].replace
  /\ Goto(r, "generating")
  /\ UNCHANGED <<user, switched, overlapped, call, keyVars, stores, removal, serverVars>>

\* A matching certificate needs a confirmed replacement; listing may also fail.
ListRefuses(r) ==
  /\ pc[r] = "listing"
  /\ Goto(r, "failed")
  /\ UNCHANGED <<user, switched, overlapped, call, keyVars, stores, removal, serverVars>>

\* delete_key_container, by an error path or by Drop.  Its result is ignored.
DeleteKey(r) ==
  \/ keys' = keys \ {r} /\ UNCHANGED abandoned
  \/ "delete" \in Faults /\ keys' = keys \cup {r} /\ abandoned' = abandoned \cup {r}

\* certreq -new creates the container and writes a CSR that is read back.
Generate(r) ==
  /\ pc[r] = "generating"
  /\ keys' = keys \cup {r}
  /\ Goto(r, "reading")
  /\ UNCHANGED <<user, switched, overlapped, call, abandoned, stores, removal, serverVars>>

\* certreq fails or writes something else: the container is deleted.
GenerateRejected(r) ==
  /\ pc[r] = "generating"
  /\ DeleteKey(r)
  /\ Goto(r, "failed")
  /\ UNCHANGED <<user, switched, overlapped, call, stores, removal, serverVars>>

\* certreq -new succeeds but its output cannot be read: the error returns before
\* there is a PendingRequest whose Drop would delete the container.
GenerateUnread(r) ==
  /\ pc[r] = "generating"
  /\ keys' = keys \cup {r}
  /\ abandoned' = abandoned \cup {r}
  /\ Goto(r, "failed")
  /\ UNCHANGED <<user, switched, overlapped, call, stores, removal, serverVars>>

\* Variant: the claim comes from a cache that the calls share.
ReadSanFromCache(r) ==
  /\ pc[r] = "reading"
  /\ \E q \in Requests : call' = [call EXCEPT ![r].san = call[q].identity]
  /\ Goto(r, "signing")
  /\ UNCHANGED <<user, switched, overlapped, keyVars, stores, removal, serverVars>>

\* The SAN claim is read from the session that is there by now.
ReadSan(r) ==
  /\ pc[r] = "reading"
  /\ HasSanClaim => user # NoUser
  /\ call' = [call EXCEPT ![r].san = IF HasSanClaim THEN user ELSE NoUser]
  /\ Goto(r, "signing")
  /\ UNCHANGED <<user, switched, overlapped, keyVars, stores, removal, serverVars>>

\* An error drops the PendingRequest, and Drop deletes the container.
Abort(r) == DeleteKey(r) /\ Goto(r, "failed")

\* There is no session any more, or the new one lacks the claim.
ReadSanFails(r) ==
  /\ pc[r] = "reading"
  /\ HasSanClaim
  /\ Abort(r)
  /\ UNCHANGED <<user, switched, overlapped, call, stores, removal, serverVars>>

\* OpenBao signs; what it returns may fail validate_issued_certificate.
Sign(r) ==
  /\ pc[r] = "signing"
  /\ issued' = issued \cup {r}
  /\ \E valid \in BOOLEAN : call' = [call EXCEPT ![r].valid = valid]
  /\ Goto(r, "accepting")
  /\ UNCHANGED <<user, switched, overlapped, keyVars, stores, removal, revoked>>

\* OpenBao refuses, or its answer is lost after it has signed.
SignFails(r) ==
  /\ pc[r] = "signing"
  /\ issued' \in {issued, issued \cup {r}}
  /\ Abort(r)
  /\ UNCHANGED <<user, switched, overlapped, call, stores, removal, revoked>>

\* Variant: `accepted' is not set, and Drop deletes the container.
AcceptThenDrop(r) ==
  /\ pc[r] = "accepting"
  /\ call[r].valid /\ staged[r] = Intermediates
  /\ store' = store \cup {r}
  /\ keys' = keys \ {r}
  /\ Goto(r, "done")
  /\ UNCHANGED <<user, switched, overlapped, call, abandoned, staged, removal, serverVars>>

\* accept: the certificate is valid; certutil -addstore puts its intermediates into
\* the CA store one by one, from where nothing in the application removes them.
Stage(r) ==
  /\ pc[r] = "accepting"
  /\ call[r].valid /\ staged[r] < Intermediates
  /\ staged' = [staged EXCEPT ![r] = @ + 1]
  /\ UNCHANGED <<user, switched, overlapped, pc, call, keyVars, store, removal, serverVars>>

\* certreq -accept installs the certificate; `accepted' keeps Drop from deleting
\* the container.
Accept(r) ==
  /\ pc[r] = "accepting"
  /\ call[r].valid /\ staged[r] = Intermediates
  /\ store' = store \cup {r}
  /\ Goto(r, "done")
  /\ UNCHANGED <<user, switched, overlapped, call, keyVars, staged, removal, serverVars>>

\* Variant: `accepted' is set before the certificate is.
AcceptFailsKeepsKey(r) ==
  /\ pc[r] = "accepting"
  /\ Goto(r, "failed")
  /\ UNCHANGED <<user, switched, overlapped, call, keyVars, stores, removal, serverVars>>

\* The certificate is not valid, or one of the commands fails.
AcceptFails(r) ==
  /\ pc[r] = "accepting"
  /\ Abort(r)
  /\ UNCHANGED <<user, switched, overlapped, call, stores, removal, serverVars>>
-----------------------------------------------------------------------------
(***************************************************************************)
(* remove_personal_certificate                                             *)
(***************************************************************************)

\* With `revoke' (the default) the token of the session is needed first.
BeginRemoval(r) ==
  /\ r \in store /\ removal[r] = "none"
  /\ \/ user # NoUser /\ removal' = [removal EXCEPT ![r] = "revoking"]
     \/ removal' = [removal EXCEPT ![r] = "deletingOnly"]
  /\ UNCHANGED <<user, switched, overlapped, pc, call, keyVars, stores, serverVars>>

RevokeCertificate(r) ==
  /\ removal[r] = "revoking"
  /\ revoked' = revoked \cup {r}
  /\ removal' = [removal EXCEPT ![r] = "deleting"]
  /\ UNCHANGED <<user, switched, overlapped, pc, call, keyVars, stores, issued>>

\* The error is returned; OpenBao may have revoked the certificate all the same.
RevokeFails(r) ==
  /\ removal[r] = "revoking"
  /\ revoked' \in {revoked, revoked \cup {r}}
  /\ removal' = [removal EXCEPT ![r] = "none"]
  /\ UNCHANGED <<user, switched, overlapped, pc, call, keyVars, stores, issued>>

\* certutil -delstore: the certificate goes, its key container stays.
DeleteCertificate(r) ==
  /\ removal[r] \in {"deleting", "deletingOnly"}
  /\ store' \in {store, store \ {r}}
  /\ removal' = [removal EXCEPT ![r] = "none"]
  /\ UNCHANGED <<user, switched, overlapped, pc, call, keyVars, staged, serverVars>>
-----------------------------------------------------------------------------
\* The application ends and is started again.  A Windows command that runs at
\* that moment may complete on its own; no destructor runs.
ExitAndRestart ==
  /\ "exit" \in Faults
  /\ \E made \in SUBSET {r \in Requests : pc[r] = "generating"},
        accepted \in SUBSET {r \in Requests : pc[r] = "accepting" /\ call[r].valid} :
       /\ keys' = keys \cup made
       /\ store' = store \cup {r \in accepted : staged[r] = Intermediates}
       /\ staged' = [r \in Requests |-> IF r \in accepted /\ staged[r] < Intermediates
                                        THEN staged[r] + 1 ELSE staged[r]]
  /\ abandoned' = abandoned \cup {r \in keys' : pc[r] \in UnderWay}
  /\ pc' = [r \in Requests |-> IF pc[r] \in UnderWay THEN "failed" ELSE pc[r]]
  /\ user' = NoUser
  /\ removal' = [r \in Requests |-> "none"]
  /\ UNCHANGED <<switched, overlapped, call, serverVars>>

RequestStep(r) ==
  \/ ListExisting(r) \/ ListRefuses(r)
  \/ Generate(r) \/ GenerateRejected(r) \/ GenerateUnread(r)
  \/ ReadSan(r) \/ ReadSanFails(r)
  \/ Sign(r) \/ SignFails(r)
  \/ Stage(r) \/ Accept(r) \/ AcceptFails(r)

RemovalStep(r) == RevokeCertificate(r) \/ RevokeFails(r) \/ DeleteCertificate(r)

Next == \/ \E u \in Users \cup {NoUser} : ChangeUser(u)
        \/ \E r \in Requests : BeginRequest(r) \/ RequestStep(r)
                                 \/ BeginRemoval(r) \/ RemovalStep(r)
        \/ ExitAndRestart

Spec == Init /\ [][Next]_vars

(***************************************************************************)
(* Properties                                                              *)
(***************************************************************************)

\* The state of calls, keys, certificates and removals keeps its shape; a call
\* that has begun knows for whom.
TypeOK ==
  /\ user \in Users \cup {NoUser}
  /\ switched \in SUBSET Requests
  /\ overlapped \in SUBSET Requests
  /\ pc \in [Requests -> UnderWay \cup {"idle", "done", "failed"}]
  /\ call \in [Requests -> Calls]
  /\ \A r \in Requests : pc[r] # "idle" => call[r].identity \in Users
  /\ keys \in SUBSET Requests
  /\ staged \in [Requests -> 0 .. Intermediates]
  /\ store \in SUBSET Requests
  /\ abandoned \in SUBSET Requests
  /\ removal \in [Requests -> {"none", "revoking", "deleting", "deletingOnly"}]
  /\ issued \in SUBSET Requests
  /\ revoked \in SUBSET Requests

\* Every certificate of the application in CurrentUser\My can be used: no clean-up
\* deletes its key, and its chain is there, through exits between any two commands.
InstalledCertificatesAreUsable == \A r \in store : r \in keys /\ staged[r] = Intermediates

\* A call that failed left a key container behind only if the deletion failed,
\* the CSR could not be read, or the application ended: every path that returns
\* an error after certreq -new passes through a deletion.
LeftoverKeysAreExplained ==
  \A r \in keys : pc[r] = "failed" => r \in abandoned

\* A certificate names two users (one in the common name, another in the SAN)
\* only if the session changed while its call was under way, between the two
\* reads of the session.
TwoNamesOnlyAfterASwitch ==
  \A r \in store : call[r].san \notin {NoUser, call[r].identity} => r \in switched

\* README.md: "explicit replacement confirmation".  Of two certificates with the same
\* identity one was confirmed as a replacement, unless their calls overlapped: the
\* inventory is looked at once, and several awaits before the installation.
TwinsComeFromOverlaps ==
  \A r, s \in store :
    /\ r # s /\ call[r].identity = call[s].identity
    /\ ~call[r].replace /\ ~call[s].replace
    => {r, s} \subseteq overlapped

\* A certificate that the user asked to revoke and remove leaves the store only
\* after OpenBao has confirmed the revocation.
RemovalRevokesFirst ==
  [][ \A r \in store \ store' : removal[r] # "deletingOnly" => r \in revoked ]_vars
-----------------------------------------------------------------------------
(* What the documentation says and the code does not do. *)

\* docs/SECURITY.md: "A failed issuance deletes its named CNG key container."
FailedIssuanceDeletesItsKey == \A r \in Requests : pc[r] = "failed" => r \notin keys

=============================================================================
