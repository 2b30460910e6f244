---------------------------- MODULE YubiKeySlot ----------------------------
(***************************************************************************)
(* One PIV slot of a YubiKey, as issue_yubikey_certificate and             *)
(* remove_yubikey_certificate (lib.rs, certificates.rs) use it.            *)
(*                                                                         *)
(* Every access to the key is a ykman process of its own, with a limit of  *)
(* 45 s after which it is killed: a command that counts as failed may have *)
(* taken effect on the key or not.  Nothing orders the commands of two     *)
(* calls.  A call names the private key it may generate and the            *)
(* certificate OpenBao may sign for it; a certificate records the private  *)
(* key it is for.  The user acts on the page's row of the slot (app.js),   *)
(* which shows what was in the slot when it was last listed.               *)
(***************************************************************************)
EXTENDS Naturals, FiniteSets

CONSTANTS
  Requests,   \* the calls of issue_yubikey_certificate for this slot
  Removals,   \* the calls of remove_yubikey_certificate for this slot
  Refreshes,  \* the calls of list_yubikey_certificates that may run side by side
  OldKey,     \* the key that is in the slot at first, in some behaviours
  OldCert,    \* the certificate that is in the slot at first, in some behaviours
  NoKey, NoCert,
  MaxActive   \* bound on the calls that run at the same time

ASSUME NamesDiffer == /\ {OldKey, NoKey} \cap Requests = {} /\ OldKey # NoKey
                      /\ {OldCert, NoCert} \cap Requests = {} /\ OldCert # NoCert
                      /\ Removals \cap Requests = {}
ASSUME BoundIsANumber == MaxActive \in Nat

PrivateKeys == Requests \cup {OldKey}
Certificates == Requests \cup {OldCert}

VARIABLES
  key,      \* the private key in the slot
  cert,     \* the certificate in the slot
  certKey,  \* the private key each certificate is for
  pc,       \* where each call is
  call,     \* the local variables of each call of issue_yubikey_certificate
  row,      \* yubiKeySlots and the buttons made of it: the slot as the page shows it
  look,     \* what each refresh has seen of the slot
  target,   \* what each removal was given by the row its button is in
  revoked,  \* OpenBao: the certificates it has revoked
  overlapped  \* history: two calls have run at the same time

slotVars == <<key, cert>>
pageVars == <<row, look>>
vars == <<slotVars, certKey, pc, call, pageVars, target, revoked, overlapped>>

\* History: missedKey and missedCert say that a look at the slot did not see what was
\* there; old says that a certificate was imported after the look at the slot.
NoCall == [replace |-> FALSE, missedKey |-> FALSE, missedCert |-> FALSE, generated |-> FALSE,
           public |-> NoKey, signer |-> NoKey, valid |-> FALSE]
NoTarget == [cert |-> NoCert, old |-> FALSE]
NoRow == [buttons |-> FALSE, key |-> FALSE, cert |-> NoCert, old |-> FALSE]
NoLook == [step |-> "idle", key |-> FALSE, cert |-> NoCert, old |-> FALSE]

Init ==
  /\ key \in {OldKey, NoKey} /\ cert \in {OldCert, NoCert}
  /\ certKey = [c \in Certificates |-> IF c = OldCert THEN OldKey ELSE NoKey]
  /\ pc = [r \in Requests \cup Removals |-> "idle"]
  /\ call = [r \in Requests |-> NoCall]
  /\ row = NoRow
  /\ look = [f \in Refreshes |-> NoLook]
  /\ target = [m \in Removals |-> NoTarget]
  /\ revoked = {}
  /\ overlapped = FALSE

Active == {r \in Requests \cup Removals : pc[r] \notin {"idle", "done", "failed"}}
Goto(r, label) == pc' = [pc EXCEPT ![r] = label]

\* The locals of a call end with it.
End(r, label) ==
  /\ Goto(r, label)
  /\ call' = [call EXCEPT ![r] = [NoCall EXCEPT !.missedKey = call[r].missedKey,
                                                        !.missedCert = call[r].missedCert]]
  /\ UNCHANGED <<certKey, target, revoked, overlapped>>

Fail(r) == End(r, "failed")

EndRemoval(m, label) ==
  /\ Goto(m, label)
  /\ target' = [target EXCEPT ![m] = NoTarget]
  /\ UNCHANGED <<certKey, call, pageVars, overlapped>>

(***************************************************************************)
(* The page's row of the slot: refreshYubiKeyCertificates                  *)
(***************************************************************************)

\* The page lists the slots at every refresh, when the user asks for it, and after a
\* request or a removal that succeeded; after one that failed it does not.  Until the
\* answer is there, the row and its buttons stay as they are.
\* ykman piv keys info: a failure may count as no key.
ListKey(f) ==
  /\ look[f].step = "idle"
  /\ \E seen \in {FALSE, key # NoKey} :
       look' = [look EXCEPT ![f] = [NoLook EXCEPT !.step = "listCert", !.key = seen]]
  /\ UNCHANGED <<slotVars, certKey, pc, call, row, target, revoked, overlapped>>

\* ykman piv certificates export: a failure counts as no certificate.
ListCert(f) ==
  /\ look[f].step = "listCert"
  /\ \E seen \in {NoCert, cert} :
       look' = [look EXCEPT ![f].step = "answered", ![f].cert = seen]
  /\ UNCHANGED <<slotVars, certKey, pc, call, row, target, revoked, overlapped>>

TakeList(f) ==
  /\ look[f].step = "answered"
  /\ row' = [buttons |-> TRUE, key |-> look[f].key, cert |-> look[f].cert, old |-> look[f].old]
  /\ look' = [look EXCEPT ![f] = NoLook]
  /\ UNCHANGED <<slotVars, certKey, pc, call, target, revoked, overlapped>>

\* The listing fails at any command: an error takes the place of the rows, and
\* yubiKeySlots keeps what it was.
ListFails(f) ==
  /\ row' = [row EXCEPT !.buttons = FALSE]
  /\ look' = [look EXCEPT ![f] = NoLook]
  /\ UNCHANGED <<slotVars, certKey, pc, call, target, revoked, overlapped>>

\* A certificate was imported: what shows another is old from now on.
RowsGetOld ==
  /\ row' = [row EXCEPT !.old = (row.cert # NoCert)]
  /\ look' = [f \in Refreshes |-> [look[f] EXCEPT !.old = (look[f].cert # NoCert)]]

(***************************************************************************)
(* issue_yubikey_certificate: generate_yubikey_csr                         *)
(***************************************************************************)

\* `Request on YubiKey' is refused by the page if the slot was listed as occupied;
\* `Re-request' is a button of the certificate that was listed.
BeginRequest(r) ==
  /\ pc[r] = "idle" /\ Cardinality(Active) < MaxActive
  /\ \E replace \in BOOLEAN :
       /\ IF replace THEN row.buttons /\ row.cert # NoCert ELSE ~row.key /\ row.cert = NoCert
       /\ call' = [call EXCEPT ![r].replace = replace]
  /\ overlapped' = (overlapped \/ Active # {})
  /\ Goto(r, "checkKey")
  /\ UNCHANGED <<slotVars, certKey, pageVars, target, revoked>>

\* Variant: a replacement generates a key of its own.
CheckKeyReplaces(r) ==
  /\ pc[r] = "checkKey"
  /\ key = NoKey \/ call[r].replace
  /\ call' = [call EXCEPT ![r].generated = TRUE]
  /\ Goto(r, "checkCert")
  /\ UNCHANGED <<slotVars, certKey, pageVars, target, revoked, overlapped>>

\* yubikey_slot_has_key decides whether a key will be generated.  A failure counts as
\* no key if its text says "not found", "not present", "empty" or the like.
CheckKey(r) ==
  /\ pc[r] = "checkKey"
  /\ \E seen \in {FALSE, key # NoKey} :
       /\ seen => call[r].replace
       /\ call' = [call EXCEPT ![r].generated = ~seen, ![r].missedKey = (~seen /\ key # NoKey)]
  /\ Goto(r, "checkCert")
  /\ UNCHANGED <<slotVars, certKey, pageVars, target, revoked, overlapped>>

\* Variant: only the key is looked for.
CheckCertNever(r) ==
  /\ pc[r] = "checkCert"
  /\ Goto(r, IF call[r].generated THEN "generate" ELSE "export")
  /\ UNCHANGED <<slotVars, certKey, call, pageVars, target, revoked, overlapped>>

\* yubikey_slot_has_certificate: an export that fails counts as no certificate.
CheckCert(r) ==
  /\ pc[r] = "checkCert"
  /\ call' = [call EXCEPT ![r].missedCert = (cert # NoCert /\ ~call[r].replace)]
  /\ Goto(r, IF call[r].generated THEN "generate" ELSE "export")
  /\ UNCHANGED <<slotVars, certKey, pageVars, target, revoked, overlapped>>

\* The slot is occupied and `replace_existing' is not set, or ykman fails.
CheckRefuses(r) ==
  /\ pc[r] \in {"checkKey", "checkCert"}
  /\ Fail(r)
  /\ UNCHANGED <<slotVars, pageVars>>

\* Variant: the output of a failed export is used.
ExportKeyUnchecked(r) ==
  /\ pc[r] = "export"
  /\ call' = [call EXCEPT ![r].public = key]
  /\ Goto(r, "request")
  /\ UNCHANGED <<slotVars, certKey, pageVars, target, revoked, overlapped>>

\* ykman piv keys export: the public half of the key in the slot.
ExportKey(r) ==
  /\ pc[r] = "export"
  /\ key # NoKey
  /\ call' = [call EXCEPT ![r].public = key]
  /\ Goto(r, "request")
  /\ UNCHANGED <<slotVars, certKey, pageVars, target, revoked, overlapped>>

ExportFails(r) ==
  /\ pc[r] = "export"
  /\ Fail(r)
  /\ UNCHANGED <<slotVars, pageVars>>

\* ykman piv keys generate replaces whatever key the slot holds by now.
GenerateKey(r) ==
  /\ pc[r] = "generate"
  /\ key' = r
  /\ call' = [call EXCEPT ![r].public = r]
  /\ Goto(r, "request")
  /\ UNCHANGED <<cert, certKey, pageVars, target, revoked, overlapped>>

\* It fails, or is killed before or after the key was generated.
GenerateFails(r) ==
  /\ pc[r] = "generate"
  /\ key' \in {key, r}
  /\ Fail(r)
  /\ UNCHANGED <<cert, pageVars>>

\* ykman piv certificates request: a CSR for the public key, signed by the slot.
RequestCsr(r) ==
  /\ pc[r] = "request"
  /\ key # NoKey
  /\ call' = [call EXCEPT ![r].signer = key]
  /\ Goto(r, "sign")
  /\ UNCHANGED <<slotVars, certKey, pageVars, target, revoked, overlapped>>

\* Variant: the key is deleted whoever generated it.
CleanUpAnyKey(r) == key' \in {key, NoKey}

\* delete_yubikey_key, if this call has generated a key.  It deletes whatever key
\* the slot holds by now, and may fail without notice.
CleanUp(r) == IF call[r].generated THEN key' \in {key, NoKey} ELSE UNCHANGED key

RequestCsrFails(r) ==
  /\ pc[r] = "request"
  /\ CleanUp(r)
  /\ Fail(r)
  /\ UNCHANGED <<cert, pageVars>>
-----------------------------------------------------------------------------
(***************************************************************************)
(* sign_csr and import_yubikey_certificate                                 *)
(***************************************************************************)

\* OpenBao signs a CSR whose signature matches its public key.  The certificate
\* it returns may fail validate_issued_certificate.
Sign(r) ==
  /\ pc[r] = "sign"
  /\ call[r].signer = call[r].public
  /\ \E valid \in BOOLEAN : call' = [call EXCEPT ![r].valid = valid]
  /\ certKey' = [certKey EXCEPT ![r] = call[r].public]
  /\ Goto(r, "import")
  /\ UNCHANGED <<slotVars, pageVars, target, revoked, overlapped>>

\* An error of OpenBao or of the network: the key that was generated stays.
SignFails(r) ==
  /\ pc[r] = "sign"
  /\ Fail(r)
  /\ UNCHANGED <<slotVars, pageVars>>

\* The certificate is not valid, or could not be staged.
Reject(r) ==
  /\ pc[r] = "import"
  /\ CleanUp(r)
  /\ Fail(r)
  /\ UNCHANGED <<cert, pageVars>>

\* ykman piv certificates import --verify: the key in the slot has to match.
Import(r) ==
  /\ pc[r] = "import" /\ call[r].valid
  /\ key = certKey[r]
  /\ cert' = r
  /\ RowsGetOld
  /\ End(r, "done")
  /\ UNCHANGED key

\* It fails, before or after it has written the certificate.
ImportBroken(r) ==
  /\ pc[r] = "import" /\ call[r].valid
  /\ \/ UNCHANGED <<cert, pageVars>>
     \/ key = certKey[r] /\ cert' = r /\ RowsGetOld
  /\ Fail(r)

\* It reports a failure: the key is cleaned up.
ImportRefused(r) == ImportBroken(r) /\ CleanUp(r)

\* It is killed after 45 s: the key is left alone.
ImportKilled(r) == ImportBroken(r) /\ UNCHANGED key
-----------------------------------------------------------------------------
(***************************************************************************)
(* remove_yubikey_certificate                                              *)
(***************************************************************************)

\* The button carries the serial number of the row it is in, whatever the slot holds by now.
BeginRemoval(m) ==
  /\ pc[m] = "idle" /\ Cardinality(Active) < MaxActive
  /\ row.buttons /\ row.cert # NoCert
  /\ target' = [target EXCEPT ![m] = [cert |-> row.cert, old |-> row.old]]
  /\ overlapped' = (overlapped \/ Active # {})
  /\ Goto(m, "revoke")
  /\ UNCHANGED <<slotVars, certKey, call, pageVars, revoked>>

\* OpenBao revokes that serial number.
Revoke(m) ==
  /\ pc[m] = "revoke"
  /\ revoked' = revoked \cup {target[m].cert}
  /\ Goto(m, "delete")
  /\ UNCHANGED <<slotVars, certKey, call, pageVars, target, overlapped>>

\* Variant: the error of the revocation is only logged.
RevokeFailsGoesOn(m) ==
  /\ pc[m] = "revoke"
  /\ Goto(m, "delete")
  /\ UNCHANGED <<slotVars, certKey, call, pageVars, target, revoked, overlapped>>

\* The revocation fails, or its answer is lost.
RevokeFails(m) ==
  /\ pc[m] = "revoke"
  /\ revoked' \in {revoked, revoked \cup {target[m].cert}}
  /\ EndRemoval(m, "failed")
  /\ UNCHANGED slotVars

\* ykman piv certificates delete: whatever certificate the slot holds by now.
Delete(m) ==
  /\ pc[m] = "delete"
  /\ cert' = NoCert
  /\ EndRemoval(m, "done")
  /\ UNCHANGED <<key, revoked>>

DeleteFails(m) ==
  /\ pc[m] = "delete"
  /\ cert' \in {cert, NoCert}
  /\ EndRemoval(m, "failed")
  /\ UNCHANGED <<key, revoked>>
-----------------------------------------------------------------------------
RequestStep(r) ==
  \/ CheckKey(r) \/ CheckCert(r) \/ CheckRefuses(r)
  \/ ExportKey(r) \/ ExportFails(r) \/ GenerateKey(r) \/ GenerateFails(r)
  \/ RequestCsr(r) \/ RequestCsrFails(r)
  \/ Sign(r) \/ SignFails(r)
  \/ Reject(r) \/ Import(r) \/ ImportRefused(r) \/ ImportKilled(r)

RemovalStep(m) == Revoke(m) \/ RevokeFails(m) \/ Delete(m) \/ DeleteFails(m)

RefreshStep(f) == ListKey(f) \/ ListCert(f) \/ TakeList(f) \/ ListFails(f)

Next == \/ \E r \in Requests : BeginRequest(r) \/ RequestStep(r)
        \/ \E m \in Removals : BeginRemoval(m) \/ RemovalStep(m)
        \/ \E f \in Refreshes : RefreshStep(f)

Spec == Init /\ [][Next]_vars

(***************************************************************************)
(* Properties                                                              *)
(***************************************************************************)

Calls == [replace : BOOLEAN, missedKey : BOOLEAN, missedCert : BOOLEAN, generated : BOOLEAN,
          public : PrivateKeys \cup {NoKey}, signer : PrivateKeys \cup {NoKey}, valid : BOOLEAN]
Targets == [cert : Certificates \cup {NoCert}, old : BOOLEAN]
Rows == [buttons : BOOLEAN, key : BOOLEAN, cert : Certificates \cup {NoCert}, old : BOOLEAN]
Looks == [step : {"idle", "listCert", "answered"}, key : BOOLEAN,
          cert : Certificates \cup {NoCert}, old : BOOLEAN]
Labels == {"idle", "checkKey", "checkCert", "export", "generate", "request", "sign", "import",
           "revoke", "delete", "done", "failed"}

\* The slot, the certificates, the rows and the calls keep their shape; a CSR is for a key.
TypeOK ==
  /\ key \in PrivateKeys \cup {NoKey}
  /\ cert \in Certificates \cup {NoCert}
  /\ certKey \in [Certificates -> PrivateKeys \cup {NoKey}]
  /\ pc \in [Requests \cup Removals -> Labels]
  /\ call \in [Requests -> Calls]
  /\ \A r \in Requests : pc[r] \in {"request", "sign", "import"} => call[r].public # NoKey
  /\ row \in Rows
  /\ look \in [Refreshes -> Looks]
  /\ target \in [Removals -> Targets]
  /\ revoked \in SUBSET Certificates
  /\ overlapped \in BOOLEAN

\* As long as no two calls overlap and no look has missed a key, a certificate whose
\* request was reported as done keeps its private key beside it for as long as it is in
\* the slot: neither a later request nor the clean-up after a failed one takes it away.
CertificatesKeepTheirKeys ==
  ~overlapped /\ (\A r \in Requests : ~call[r].missedKey)
    => (cert \in Requests /\ pc[cert] = "done" => key = certKey[cert])

\* As long as no two calls overlap: a private key leaves the slot only by the
\* clean-up of the call that generated it, while that call runs, or is overwritten by
\* a call whose look has missed it.  A retry after a failure or a timeout that sees the
\* key that is there does not overwrite it.
KeysAreNeverOverwritten ==
  [][ ~overlapped /\ key # NoKey /\ key' # key
        => \/ key' = NoKey /\ key \in Active
           \/ key' \in Requests /\ call[key'].missedKey ]_vars

\* As long as no two calls overlap, a certificate in the slot is replaced only by a
\* call that asked for it, whatever was killed or failed before; or by one whose
\* look at the slot has failed, which counts as an empty slot.
CertificatesAreReplacedOnRequest ==
  [][ ~overlapped /\ cert # NoCert /\ cert' \notin {cert, NoCert}
        => call[cert'].replace \/ call[cert'].missedCert ]_vars

\* As long as no two calls overlap, a certificate that is removed from the slot was
\* revoked, unless the row the user picked had been looked at before the certificate
\* was imported: whatever fails, and in whatever order the listings are answered.
UnrevokedRemovalsAreByOldRows ==
  [][ ~overlapped /\ cert # NoCert /\ cert' = NoCert /\ cert \notin revoked
        => \E m \in Removals : pc[m] = "delete" /\ target[m].old ]_vars
-----------------------------------------------------------------------------
(* What the page tells its user and the code does not do. *)

LooksMissed == \E r \in Requests : call[r].missedKey \/ call[r].missedCert

\* app.js: "Certificate revoked in OpenBao and removed from the YubiKey slot."  As long
\* as no two calls overlap and no look of a call has failed, the certificate that
\* leaves the slot is one that was revoked.
RemovedCertificatesAreRevoked ==
  [][ ~overlapped /\ ~LooksMissed /\ cert # NoCert /\ cert' = NoCert => cert \in revoked ]_vars
=============================================================================
