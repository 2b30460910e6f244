------------------------- MODULE YubiKeySlotProofs -------------------------
(***************************************************************************)
(* Proofs about YubiKeySlot, for any number of calls and refreshes and any *)
(* bound on the calls that run at the same time.                           *)
(***************************************************************************)
EXTENDS YubiKeySlot, TLAPS

(***************************************************************************)
(* Types                                                                   *)
(***************************************************************************)

LEMMA NothingHasItsType ==
  NoCall \in Calls /\ NoRow \in Rows /\ NoLook \in Looks /\ NoTarget \in Targets
  BY DEF NoCall, Calls, NoRow, Rows, NoLook, Looks, NoTarget, Targets

LEMMA TypeInit == Init => TypeOK
  BY NothingHasItsType DEF Init, TypeOK, PrivateKeys, Certificates, Labels

\* A call that ends keeps the history only.
LEMMA EndType ==
  ASSUME TypeOK, NEW r \in Requests, NEW label \in {"done", "failed"}, End(r, label),
         key' \in PrivateKeys \cup {NoKey}, cert' \in Certificates \cup {NoCert},
         row' \in Rows, look' \in [Refreshes -> Looks]
  PROVE  TypeOK'
<1>1. call' \in [Requests -> Calls] /\ \A q \in Requests : q # r => call'[q] = call[q]
  BY DEF End, TypeOK, NoCall, Calls
<1>2. pc' \in [Requests \cup Removals -> Labels] /\ pc'[r] = label
  BY DEF End, Goto, TypeOK, Labels
<1>3. \A q \in Requests : q # r => pc'[q] = pc[q]
  BY DEF End, Goto, TypeOK
<1> QED BY <1>1, <1>2, <1>3 DEF End, TypeOK

LEMMA OldRowsType == ASSUME TypeOK, RowsGetOld PROVE row' \in Rows /\ look' \in [Refreshes -> Looks]
<1>1. (row.cert # NoCert) \in BOOLEAN /\ \A f \in Refreshes : (look[f].cert # NoCert) \in BOOLEAN
  OBVIOUS
<1>2. row' \in Rows
  BY <1>1 DEF TypeOK, RowsGetOld, Rows
<1>3. \A f \in Refreshes : [look[f] EXCEPT !.old = (look[f].cert # NoCert)] \in Looks
  BY <1>1 DEF TypeOK, Looks
<1> QED BY <1>2, <1>3 DEF RowsGetOld

LEMMA RefreshStepType == ASSUME TypeOK, NEW f \in Refreshes, RefreshStep(f) PROVE TypeOK'
<1>1. row' \in Rows
  <2>1. CASE TakeList(f)
    BY <2>1 DEF TypeOK, TakeList, Rows, Looks
  <2>2. CASE ListFails(f)
    BY <2>2 DEF TypeOK, ListFails, Rows
  <2>3. CASE ListKey(f) \/ ListCert(f)
    BY <2>3 DEF TypeOK, ListKey, ListCert
  <2> QED BY <2>1, <2>2, <2>3 DEF RefreshStep
<1>2. look' \in [Refreshes -> Looks]
  <2>1. CASE ListKey(f)
    <3>1. (key # NoKey) \in BOOLEAN
      OBVIOUS
    <3>2. PICK seen \in {FALSE, key # NoKey} :
            look' = [look EXCEPT ![f] = [NoLook EXCEPT !.step = "listCert", !.key = seen]]
      BY <2>1 DEF ListKey
    <3>3. seen \in BOOLEAN
      BY <3>1
    <3>4. [NoLook EXCEPT !.step = "listCert", !.key = seen] \in Looks
      BY <3>3, NothingHasItsType DEF Looks
    <3> QED BY <3>2, <3>4 DEF TypeOK
  <2>2. CASE ListCert(f)
    <3>1. PICK seen \in Certificates \cup {NoCert} :
            look' = [look EXCEPT ![f].step = "answered", ![f].cert = seen]
      BY <2>2 DEF TypeOK, ListCert
    <3>2. [look[f] EXCEPT !.step = "answered", !.cert = seen] \in Looks
      BY DEF TypeOK, Looks
    <3>3. look' = [look EXCEPT ![f] = [look[f] EXCEPT !.step = "answered", !.cert = seen]]
      BY <3>1 DEF TypeOK, Looks
    <3> QED BY <3>2, <3>3 DEF TypeOK
  <2>3. CASE TakeList(f) \/ ListFails(f)
    BY <2>3, NothingHasItsType DEF TypeOK, TakeList, ListFails
  <2> QED BY <2>1, <2>2, <2>3 DEF RefreshStep
<1>3. UNCHANGED <<slotVars, certKey, pc, call, target, revoked, overlapped>>
  BY DEF RefreshStep, ListKey, ListCert, TakeList, ListFails
<1> QED BY <1>1, <1>2, <1>3 DEF TypeOK, slotVars

LEMMA RequestStepType ==
  ASSUME TypeOK, NEW r \in Requests, BeginRequest(r) \/ RequestStep(r) PROVE TypeOK'
<1> USE DEF TypeOK, Goto, slotVars, pageVars, PrivateKeys, Certificates
<1>1. CASE BeginRequest(r)
  BY <1>1 DEF BeginRequest, Calls, Labels
<1>2. CASE CheckKey(r) \/ CheckCert(r)
  <2>1. PICK g \in BOOLEAN, m \in BOOLEAN :
          \/ call' = [call EXCEPT ![r].generated = g, ![r].missedKey = m]
          \/ call' = [call EXCEPT ![r].missedCert = m]
    BY <1>2 DEF CheckKey, CheckCert
  <2>2. /\ call' \in [Requests -> Calls]
        /\ \A q \in Requests : call'[q].public = call[q].public
    BY <2>1 DEF Calls
  <2>3. pc' \in [Requests \cup Removals -> Labels] /\ pc'[r] \in {"checkCert", "generate", "export"}
    BY <1>2 DEF CheckKey, CheckCert, Labels
  <2> QED BY <1>2, <2>2, <2>3 DEF CheckKey, CheckCert
<1>3. CASE CheckRefuses(r) \/ ExportFails(r) \/ SignFails(r)
  BY <1>3, EndType DEF CheckRefuses, ExportFails, SignFails, Fail
<1>4. CASE ExportKey(r) \/ GenerateKey(r)
  BY <1>4, NamesDiffer DEF ExportKey, GenerateKey, Calls, Labels
<1>5. CASE GenerateFails(r) \/ RequestCsrFails(r) \/ Reject(r)
  BY <1>5, EndType DEF GenerateFails, RequestCsrFails, Reject, CleanUp, Fail
<1>6. CASE RequestCsr(r)
  BY <1>6 DEF RequestCsr, Calls, Labels
<1>7. CASE Sign(r)
  BY <1>7 DEF Sign, Calls, Labels
<1>8. CASE Import(r)
  BY <1>8, EndType, OldRowsType DEF Import
<1>9. CASE ImportRefused(r) \/ ImportKilled(r)
  <2>1. /\ key' \in PrivateKeys \cup {NoKey} /\ cert' \in Certificates \cup {NoCert}
        /\ row' \in Rows /\ look' \in [Refreshes -> Looks]
    BY <1>9, OldRowsType DEF ImportRefused, ImportKilled, ImportBroken, CleanUp
  <2> QED BY <1>9, <2>1, EndType DEF ImportRefused, ImportKilled, ImportBroken, Fail
<1> QED BY <1>1, <1>2, <1>3, <1>4, <1>5, <1>6, <1>7, <1>8, <1>9 DEF RequestStep

\* A removal knows what it was asked to remove.
TargetInv == \A m \in Removals : pc[m] \in {"revoke", "delete"} => target[m].cert # NoCert

LEMMA RemovalStepType ==
  ASSUME TypeOK, TargetInv, NEW m \in Removals, BeginRemoval(m) \/ RemovalStep(m) PROVE TypeOK'
<1> USE NamesDiffer DEF TypeOK, Goto, slotVars, pageVars
<1>1. target' \in [Removals -> Targets]
  <2>1. CASE BeginRemoval(m)
    <3>1. [cert |-> row.cert, old |-> row.old] \in Targets
      BY DEF Rows, Targets
    <3> QED BY <2>1, <3>1 DEF BeginRemoval
  <2>2. CASE RemovalStep(m)
    BY <2>2, NothingHasItsType DEF RemovalStep, Revoke, RevokeFails, Delete, DeleteFails, EndRemoval
  <2> QED BY <2>1, <2>2
<1>2. pc' \in [Requests \cup Removals -> Labels] /\ \A r \in Requests : pc'[r] = pc[r]
  BY DEF BeginRemoval, RemovalStep, Revoke, RevokeFails, Delete, DeleteFails, EndRemoval, Labels
<1>3. revoked' \in SUBSET Certificates
  <2>1. pc[m] = "revoke" => target[m].cert \in Certificates
    BY DEF TargetInv, Targets
  <2> QED BY <2>1 DEF BeginRemoval, RemovalStep, Revoke, RevokeFails, Delete, DeleteFails
<1>4. /\ UNCHANGED <<key, certKey, call, row, look>>
      /\ cert' \in {cert, NoCert}
      /\ overlapped' \in BOOLEAN
  BY DEF BeginRemoval, RemovalStep, Revoke, RevokeFails, Delete, DeleteFails, EndRemoval
<1> QED BY <1>1, <1>2, <1>3, <1>4

\* What all steps of a request have in common.
LEMMA RequestsKeep ==
  ASSUME TypeOK, NEW r \in Requests, BeginRequest(r) \/ RequestStep(r)
  PROVE  /\ target' = target /\ revoked' = revoked
         /\ \A b \in Requests \cup Removals : b # r => pc'[b] = pc[b]
         /\ \A q \in Requests : q # r => call'[q] = call[q] /\ certKey'[q] = certKey[q]
<1> USE DEF TypeOK, Goto
<1>1. CASE BeginRequest(r)
  BY <1>1 DEF BeginRequest
<1>2. CASE RequestStep(r)
  <2>1. \A b \in Requests \cup Removals : b # r => pc'[b] = pc[b]
    BY <1>2 DEF RequestStep, CheckKey, CheckCert, CheckRefuses, ExportKey, ExportFails,
       GenerateKey, GenerateFails, RequestCsr, RequestCsrFails, Sign, SignFails, Reject, Import,
       ImportRefused, ImportKilled, ImportBroken, Fail, End
  <2>2. target' = target /\ revoked' = revoked
    BY <1>2 DEF RequestStep, CheckKey, CheckCert, CheckRefuses, ExportKey, ExportFails,
       GenerateKey, GenerateFails, RequestCsr, RequestCsrFails, Sign, SignFails, Reject, Import,
       ImportRefused, ImportKilled, ImportBroken, Fail, End
  <2>3. certKey' = certKey \/ certKey' = [certKey EXCEPT ![r] = call[r].public]
    BY <1>2 DEF RequestStep, CheckKey, CheckCert, CheckRefuses, ExportKey, ExportFails,
       GenerateKey, GenerateFails, RequestCsr, RequestCsrFails, Sign, SignFails, Reject, Import,
       ImportRefused, ImportKilled, ImportBroken, Fail, End
  <2>4. \A q \in Requests : q # r => call'[q] = call[q]
    <3>1. CASE CheckKey(r)
      BY <3>1 DEF CheckKey
    <3>2. CASE Fail(r) \/ End(r, "done")
      BY <3>2 DEF Fail, End
    <3>3. CASE CheckCert(r) \/ ExportKey(r) \/ GenerateKey(r) \/ RequestCsr(r) \/ Sign(r)
      BY <3>3 DEF CheckCert, ExportKey, GenerateKey, RequestCsr, Sign
    <3> QED BY <1>2, <3>1, <3>2, <3>3 DEF RequestStep, CheckRefuses, ExportFails, GenerateFails,
            RequestCsrFails, SignFails, Reject, Import, ImportRefused, ImportKilled, ImportBroken
  <2> QED BY <2>1, <2>2, <2>3, <2>4 DEF Certificates
<1> QED BY <1>1, <1>2

\* What all steps of a removal have in common.
LEMMA RemovalsKeep ==
  ASSUME TypeOK, NEW m \in Removals, BeginRemoval(m) \/ RemovalStep(m)
  PROVE  /\ UNCHANGED <<key, certKey, call, row, look>>
         /\ cert' \in {cert, NoCert}
         /\ \A b \in Requests \cup Removals : b # m => pc'[b] = pc[b]
         /\ \A n \in Removals : n # m => target'[n] = target[n]
<1> USE DEF TypeOK, Goto, slotVars, pageVars
<1>1. CASE BeginRemoval(m)
  BY <1>1 DEF BeginRemoval
<1>2. CASE RemovalStep(m)
  BY <1>2 DEF RemovalStep, Revoke, RevokeFails, Delete, DeleteFails, EndRemoval
<1> QED BY <1>1, <1>2

\* A refresh only looks.
LEMMA RefreshesKeep ==
  ASSUME NEW f \in Refreshes, RefreshStep(f)
  PROVE  UNCHANGED <<key, cert, certKey, pc, call, target, revoked, overlapped>>
  BY DEF RefreshStep, ListKey, ListCert, TakeList, ListFails, slotVars

LEMMA TargetStep ==
  ASSUME TypeOK, TargetInv, Next PROVE TargetInv'
<1> USE NamesDiffer DEF TargetInv
<1>1. ASSUME NEW r \in Requests, BeginRequest(r) \/ RequestStep(r) PROVE TargetInv'
  BY <1>1, RequestsKeep
<1>2. ASSUME NEW m \in Removals, BeginRemoval(m) \/ RemovalStep(m) PROVE TargetInv'
  <2>1. pc'[m] \in {"revoke", "delete"} => target'[m].cert # NoCert
    BY <1>2 DEF TypeOK, Goto, BeginRemoval, RemovalStep, Revoke, RevokeFails, Delete, DeleteFails,
       EndRemoval
  <2> QED BY <1>2, <2>1, RemovalsKeep
<1>3. ASSUME NEW f \in Refreshes, RefreshStep(f) PROVE TargetInv'
  BY <1>3, RefreshesKeep
<1> QED BY <1>1, <1>2, <1>3 DEF Next

\* OpenBao signs for a key.
SignedInv == \A r \in Requests : pc[r] \in {"import", "done"} => certKey[r] # NoKey

LEMMA SignedStep ==
  ASSUME TypeOK, SignedInv, Next PROVE SignedInv'
<1> USE NamesDiffer DEF SignedInv
<1>1. ASSUME NEW r \in Requests, BeginRequest(r) \/ RequestStep(r) PROVE SignedInv'
  <2>1. pc'[r] \in {"import", "done"} => certKey'[r] # NoKey
    <3> USE DEF TypeOK, Goto, Certificates
    <3>1. CASE Sign(r)
      BY <3>1 DEF Sign
    <3>2. CASE Import(r)
      BY <3>2 DEF Import, End
    <3>3. CASE ~Sign(r) /\ ~Import(r)
      BY <1>1, <3>3 DEF BeginRequest, RequestStep, CheckKey, CheckCert, CheckRefuses, ExportKey,
         ExportFails, GenerateKey, GenerateFails, RequestCsr, RequestCsrFails, SignFails, Reject,
         ImportRefused, ImportKilled, ImportBroken, Fail, End
    <3> QED BY <3>1, <3>2, <3>3
  <2> QED BY <1>1, <2>1, RequestsKeep
<1>2. ASSUME NEW m \in Removals, BeginRemoval(m) \/ RemovalStep(m) PROVE SignedInv'
  BY <1>2, RemovalsKeep
<1>3. ASSUME NEW f \in Refreshes, RefreshStep(f) PROVE SignedInv'
  BY <1>3, RefreshesKeep
<1> QED BY <1>1, <1>2, <1>3 DEF Next

TypeInv == TypeOK /\ TargetInv /\ SignedInv

LEMMA TypeInvariant == Spec => []TypeInv
<1>1. Init => TypeInv
  BY TypeInit DEF Init, TypeInv, TargetInv, SignedInv
<1>2. TypeInv /\ [Next]_vars => TypeInv'
  <2>1. CASE UNCHANGED vars
    BY <2>1 DEF vars, slotVars, pageVars, TypeInv, TypeOK, TargetInv, SignedInv
  <2>2. CASE Next
    <3>1. ASSUME TypeInv PROVE TypeOK'
      BY <2>2, <3>1, RequestStepType, RemovalStepType, RefreshStepType DEF Next, TypeInv
    <3> QED BY <2>2, <3>1, TargetStep, SignedStep DEF TypeInv
  <2> QED BY <2>1, <2>2
<1> QED BY <1>1, <1>2, PTL DEF Spec

\* The slot, the certificates, the rows and the calls keep their shape.
THEOREM TypeCorrect == Spec => []TypeOK
<1>1. TypeInv => TypeOK
  BY DEF TypeInv
<1> QED BY <1>1, TypeInvariant, PTL
-----------------------------------------------------------------------------
(***************************************************************************)
(* The steps that change the slot, and what the page shows of it           *)
(***************************************************************************)

\* The steps of a request that change the certificate in the slot make all rows old.
LEMMA RequestsAge ==
  ASSUME NEW r \in Requests, BeginRequest(r) \/ RequestStep(r)
  PROVE  \/ cert' = cert /\ UNCHANGED <<row, look>>
         \/ cert' = r /\ pc[r] = "import" /\ key = certKey[r] /\ RowsGetOld
  BY DEF BeginRequest, RequestStep, CheckKey, CheckCert, CheckRefuses, ExportKey, ExportFails,
     GenerateKey, GenerateFails, RequestCsr, RequestCsrFails, Sign, SignFails, Reject, Import,
     ImportRefused, ImportKilled, ImportBroken, slotVars, pageVars

\* The steps of a request that change the key in the slot.
LEMMA RequestKeySteps ==
  ASSUME NEW r \in Requests, BeginRequest(r) \/ RequestStep(r), key' # key
  PROVE  \/ pc[r] = "generate" /\ key' = r
         \/ pc[r] \in {"request", "import"} /\ call[r].generated /\ key' = NoKey
  BY DEF BeginRequest, RequestStep, CheckKey, CheckCert, CheckRefuses, ExportKey, ExportFails,
     GenerateKey, GenerateFails, RequestCsr, RequestCsrFails, Sign, SignFails, Reject, Import,
     ImportRefused, ImportKilled, ImportBroken, CleanUp, slotVars

\* The steps of a removal that change the certificate in the slot.
LEMMA RemovalCertSteps ==
  ASSUME NEW m \in Removals, BeginRemoval(m) \/ RemovalStep(m), cert' # cert
  PROVE  pc[m] = "delete" /\ cert' = NoCert
  BY DEF BeginRemoval, RemovalStep, Revoke, RevokeFails, Delete, DeleteFails, slotVars

\* A row that shows a certificate and is not old shows the one that is in the slot, if
\* there is one at all; so does the answer of a refresh.
RowInv ==
  /\ row.cert # NoCert /\ ~row.old => cert \in {row.cert, NoCert}
  /\ \A f \in Refreshes :
       look[f].cert # NoCert /\ ~look[f].old => cert \in {look[f].cert, NoCert}

LEMMA RowStep ==
  ASSUME TypeOK, RowInv, Next PROVE RowInv'
<1> USE DEF RowInv
<1>1. ASSUME NEW r \in Requests, BeginRequest(r) \/ RequestStep(r) PROVE RowInv'
  <2>1. CASE RowsGetOld
    <3>1. row'.old = (row'.cert # NoCert)
      BY <2>1 DEF RowsGetOld, TypeOK, Rows
    <3>2. \A f \in Refreshes : look'[f].old = (look'[f].cert # NoCert)
      BY <2>1 DEF RowsGetOld, TypeOK, Looks
    <3> QED BY <3>1, <3>2
  <2>2. CASE cert' = cert /\ UNCHANGED <<row, look>>
    BY <2>2
  <2> QED BY <1>1, <2>1, <2>2, RequestsAge
<1>2. ASSUME NEW m \in Removals, BeginRemoval(m) \/ RemovalStep(m) PROVE RowInv'
  BY <1>2, RemovalsKeep
<1>3. ASSUME NEW f \in Refreshes, RefreshStep(f) PROVE RowInv'
  <2>1. cert' = cert
    BY <1>3, RefreshesKeep
  <2>2. CASE ListKey(f)
    <3>1. row' = row /\ look'[f].cert = NoCert
      BY <2>2 DEF ListKey, TypeOK, NoLook
    <3>2. \A g \in Refreshes : g # f => look'[g] = look[g]
      BY <2>2 DEF ListKey, TypeOK
    <3> QED BY <2>1, <3>1, <3>2
  <2>3. CASE ListCert(f)
    <3>1. row' = row /\ look'[f].cert \in {NoCert, cert}
      BY <2>3 DEF ListCert, TypeOK, Looks
    <3>2. \A g \in Refreshes : g # f => look'[g] = look[g]
      BY <2>3 DEF ListCert, TypeOK
    <3> QED BY <2>1, <3>1, <3>2
  <2>4. CASE TakeList(f) \/ ListFails(f)
    <3>1. \/ row'.cert = row.cert /\ row'.old = row.old
          \/ row'.cert = look[f].cert /\ row'.old = look[f].old
      BY <2>4 DEF TakeList, ListFails, TypeOK, Rows
    <3>2. look'[f].cert = NoCert /\ \A g \in Refreshes : g # f => look'[g] = look[g]
      BY <2>4 DEF TakeList, ListFails, TypeOK, NoLook
    <3> QED BY <2>1, <3>1, <3>2
  <2> QED BY <1>3, <2>2, <2>3, <2>4 DEF RefreshStep
<1> QED BY <1>1, <1>2, <1>3 DEF Next
-----------------------------------------------------------------------------
(***************************************************************************)
(* A call that has the slot to itself                                      *)
(***************************************************************************)

\* What an issuance knows of the slot: the key it is going to generate finds no other,
\* unless its look has missed it; the key it has generated is there; no certificate is
\* in the slot that it was not asked to replace, unless its look has missed that.
RequestKnows(r) ==
  /\ pc[r] \in {"idle", "checkKey"} => ~call[r].missedKey
  /\ pc[r] = "generate" => call[r].generated
  /\ pc[r] = "export" => ~call[r].generated
  /\ pc[r] \in {"checkCert", "generate"} /\ call[r].generated /\ ~call[r].missedKey => key = NoKey
  /\ pc[r] \in {"request", "sign", "import"} /\ call[r].generated => key = r
  /\ pc[r] \in {"export", "generate", "request", "sign", "import"} /\ ~call[r].replace
        /\ ~call[r].missedCert => cert = NoCert

\* What a removal knows, unless its row was old: the certificate of the row is still
\* there, or none is; and it is revoked before it is deleted.
RemovalKnows(m) ==
  /\ pc[m] \in {"revoke", "delete"} /\ ~target[m].old => cert \in {target[m].cert, NoCert}
  /\ pc[m] = "delete" => target[m].cert \in revoked

AloneInv ==
  ~overlapped => /\ \A a, b \in Active : a = b
                 /\ \A r \in Requests : RequestKnows(r)
                 /\ \A m \in Removals : RemovalKnows(m)

\* A call that moves is active, or becomes so.
LEMMA Moves ==
  ASSUME TypeOK, NEW a \in Requests \cup Removals,
         \/ a \in Requests /\ (BeginRequest(a) \/ RequestStep(a))
         \/ a \in Removals /\ (BeginRemoval(a) \/ RemovalStep(a))
  PROVE  (overlapped' = overlapped /\ a \in Active) \/ overlapped' = (overlapped \/ Active # {})
<1>1. CASE a \in Requests /\ BeginRequest(a)
  BY <1>1 DEF BeginRequest
<1>2. CASE a \in Requests /\ RequestStep(a)
  BY <1>2 DEF RequestStep, CheckKey, CheckCert, CheckRefuses, ExportKey, ExportFails, GenerateKey,
     GenerateFails, RequestCsr, RequestCsrFails, Sign, SignFails, Reject, Import, ImportRefused,
     ImportKilled, ImportBroken, Fail, End, Active
<1>3. CASE a \in Removals /\ (BeginRemoval(a) \/ RemovalStep(a))
  BY <1>3 DEF BeginRemoval, RemovalStep, Revoke, RevokeFails, Delete, DeleteFails, EndRemoval, Active
<1> QED BY <1>1, <1>2, <1>3

\* Without overlapping calls, all but the one that moves are at rest.
LEMMA OthersRest ==
  ASSUME TypeOK, AloneInv, ~overlapped', NEW a \in Requests \cup Removals,
         \A b \in Requests \cup Removals : b # a => pc'[b] = pc[b],
         (overlapped' = overlapped /\ a \in Active) \/ overlapped' = (overlapped \/ Active # {})
  PROVE  /\ ~overlapped
         /\ \A b \in Requests \cup Removals : b # a => pc'[b] \in {"idle", "done", "failed"}
         /\ \A b \in Active : b = a
  BY DEF TypeOK, AloneInv, Active

LEMMA RequestKnowsStep ==
  ASSUME TypeOK, NEW r \in Requests, RequestKnows(r), BeginRequest(r) \/ RequestStep(r)
  PROVE  RequestKnows(r)'
<1> USE DEF RequestKnows, TypeOK, Goto, slotVars
<1>1. CASE BeginRequest(r)
  BY <1>1 DEF BeginRequest, Calls
<1>2. CASE CheckKey(r)
  <2>1. pc'[r] = "checkCert" /\ key' = key
    BY <1>2 DEF CheckKey
  <2>2. call'[r].generated /\ ~call'[r].missedKey => key = NoKey
    BY <1>2 DEF CheckKey, Calls
  <2> QED BY <2>1, <2>2
<1>3. CASE CheckCert(r)
  <2>1. /\ pc'[r] = IF call[r].generated THEN "generate" ELSE "export"
        /\ key' = key /\ cert' = cert /\ pc[r] = "checkCert"
    BY <1>3 DEF CheckCert
  <2>2. /\ call'[r].replace = call[r].replace
        /\ call'[r].generated = call[r].generated
        /\ call'[r].missedKey = call[r].missedKey
    BY <1>3 DEF CheckCert, Calls
  <2>3. call'[r].missedCert = (cert # NoCert /\ ~call[r].replace)
    BY <1>3 DEF CheckCert, Calls
  <2> QED BY <2>1, <2>2, <2>3
<1>4. CASE ExportKey(r) \/ GenerateKey(r)
  BY <1>4 DEF ExportKey, GenerateKey, Calls
<1>5. CASE RequestCsr(r) \/ Sign(r)
  BY <1>5 DEF RequestCsr, Sign, Calls
<1>6. CASE pc' = [pc EXCEPT ![r] = "failed"] \/ pc' = [pc EXCEPT ![r] = "done"]
  BY <1>6
<1> QED BY <1>1, <1>2, <1>3, <1>4, <1>5, <1>6 DEF RequestStep, CheckRefuses, ExportFails,
        GenerateFails, RequestCsrFails, SignFails, Reject, Import, ImportRefused, ImportKilled,
        ImportBroken, Fail, End

LEMMA RemovalKnowsStep ==
  ASSUME TypeOK, RowInv, NEW m \in Removals, RemovalKnows(m), BeginRemoval(m) \/ RemovalStep(m)
  PROVE  RemovalKnows(m)'
  BY DEF RemovalKnows, RowInv, TypeOK, Goto, slotVars, BeginRemoval, RemovalStep, Revoke,
     RevokeFails, Delete, DeleteFails, EndRemoval

LEMMA AloneStep ==
  ASSUME TypeOK, RowInv, AloneInv, Next PROVE AloneInv'
<1>1. ASSUME NEW a \in Requests, BeginRequest(a) \/ RequestStep(a), ~overlapped'
      PROVE  /\ \A b, c \in Active' : b = c
             /\ \A r \in Requests : RequestKnows(r)'
             /\ \A m \in Removals : RemovalKnows(m)'
  <2>1. \A b \in Requests \cup Removals : b # a => pc'[b] = pc[b]
    BY <1>1, RequestsKeep
  <2>2. /\ ~overlapped
        /\ \A b \in Requests \cup Removals : b # a => pc'[b] \in {"idle", "done", "failed"}
        /\ \A b \in Active : b = a
    BY <1>1, <2>1, Moves, OthersRest
  <2>3. \A b, c \in Active' : b = c
    BY <2>2 DEF Active
  <2>4. ASSUME NEW r \in Requests PROVE RequestKnows(r)'
    <3>1. RequestKnows(r)
      BY <2>2 DEF AloneInv
    <3>2. CASE r = a
      BY <1>1, <3>1, <3>2, RequestKnowsStep
    <3>3. CASE r # a
      BY <1>1, <2>1, <2>2, <3>1, <3>3, RequestsKeep DEF RequestKnows
    <3> QED BY <3>2, <3>3
  <2>5. ASSUME NEW m \in Removals PROVE RemovalKnows(m)'
    BY <2>2, NamesDiffer DEF RemovalKnows
  <2> QED BY <2>3, <2>4, <2>5
<1>2. ASSUME NEW a \in Removals, BeginRemoval(a) \/ RemovalStep(a), ~overlapped'
      PROVE  /\ \A b, c \in Active' : b = c
             /\ \A r \in Requests : RequestKnows(r)'
             /\ \A m \in Removals : RemovalKnows(m)'
  <2>1. \A b \in Requests \cup Removals : b # a => pc'[b] = pc[b]
    BY <1>2, RemovalsKeep
  <2>2. /\ ~overlapped
        /\ \A b \in Requests \cup Removals : b # a => pc'[b] \in {"idle", "done", "failed"}
        /\ \A b \in Active : b = a
    BY <1>2, <2>1, Moves, OthersRest
  <2>3. \A b, c \in Active' : b = c
    BY <2>2 DEF Active
  <2>4. ASSUME NEW r \in Requests PROVE RequestKnows(r)'
    <3>1. RequestKnows(r) /\ r # a
      BY <2>2, NamesDiffer DEF AloneInv
    <3> QED BY <1>2, <2>1, <2>2, <3>1, RemovalsKeep DEF RequestKnows
  <2>5. ASSUME NEW m \in Removals PROVE RemovalKnows(m)'
    <3>1. CASE m = a
      BY <1>2, <2>2, <3>1, RemovalKnowsStep DEF AloneInv
    <3>2. CASE m # a
      BY <2>2, <3>2 DEF RemovalKnows
    <3> QED BY <3>1, <3>2
  <2> QED BY <2>3, <2>4, <2>5
<1>3. ASSUME NEW f \in Refreshes, RefreshStep(f) PROVE AloneInv'
  BY <1>3, RefreshesKeep DEF AloneInv, Active, RequestKnows, RemovalKnows
<1> QED BY <1>1, <1>2, <1>3 DEF Next, AloneInv
-----------------------------------------------------------------------------
(***************************************************************************)
(* Finished certificates and their keys                                    *)
(***************************************************************************)

Undisturbed == ~overlapped /\ \A r \in Requests : ~call[r].missedKey
Finished == cert \in Requests /\ pc[cert] = "done"
Generating(r) ==
  /\ pc[r] \in {"checkCert", "export", "generate", "request", "sign", "import"}
  /\ call[r].generated

\* The key of a finished certificate is beside it; a call that has found no key, and so
\* has generated or will generate one, finds no finished certificate either.
KeptInv == Undisturbed => /\ Finished => key = certKey[cert]
                          /\ \A r \in Requests : Generating(r) => ~Finished

\* A look that has missed a key is not forgotten.
LEMMA MissedStays ==
  ASSUME TypeOK, NEW r \in Requests, RequestKnows(r), BeginRequest(r) \/ RequestStep(r),
         ~call'[r].missedKey
  PROVE  ~call[r].missedKey
<1>1. CASE BeginRequest(r) \/ CheckKey(r)
  BY <1>1 DEF BeginRequest, CheckKey, RequestKnows
<1>2. CASE CheckCert(r) \/ ExportKey(r) \/ GenerateKey(r) \/ RequestCsr(r) \/ Sign(r)
  BY <1>2 DEF CheckCert, ExportKey, GenerateKey, RequestCsr, Sign, TypeOK, Calls
<1>3. CASE End(r, "failed") \/ End(r, "done")
  BY <1>3 DEF End, TypeOK, Calls, NoCall
<1> QED BY <1>1, <1>2, <1>3 DEF RequestStep, CheckRefuses, ExportFails, GenerateFails,
        RequestCsrFails, SignFails, Reject, Import, ImportRefused, ImportKilled, ImportBroken, Fail

\* A call decides in CheckKey whether it generates a key.
LEMMA GeneratingStays ==
  ASSUME TypeOK, NEW r \in Requests, BeginRequest(r) \/ RequestStep(r), Generating(r)'
  PROVE  \/ Generating(r)
         \/ CheckKey(r) /\ (call'[r].missedKey \/ key = NoKey)
<1> USE DEF Generating, TypeOK, Goto
<1>1. CASE BeginRequest(r)
  BY <1>1 DEF BeginRequest
<1>2. CASE CheckKey(r)
  <2>1. PICK seen \in {FALSE, key # NoKey} :
          call' = [call EXCEPT ![r].generated = ~seen, ![r].missedKey = (~seen /\ key # NoKey)]
    BY <1>2 DEF CheckKey
  <2>2. call'[r].generated = ~seen /\ call'[r].missedKey = (~seen /\ key # NoKey)
    BY <2>1 DEF Calls
  <2> QED BY <1>2, <2>2
<1>3. CASE CheckCert(r) \/ ExportKey(r) \/ GenerateKey(r) \/ RequestCsr(r) \/ Sign(r)
  <2>1. pc[r] \in {"checkCert", "export", "generate", "request", "sign", "import"}
    BY <1>3 DEF CheckCert, ExportKey, GenerateKey, RequestCsr, Sign
  <2>2. call'[r].generated = call[r].generated
    <3>1. CASE CheckCert(r)
      <4>1. PICK m \in BOOLEAN : call' = [call EXCEPT ![r].missedCert = m]
        BY <3>1 DEF CheckCert
      <4> QED BY <4>1 DEF Calls
    <3>2. CASE ExportKey(r) \/ GenerateKey(r) \/ RequestCsr(r)
      <4>1. PICK k : call' = [call EXCEPT ![r].public = k] \/ call' = [call EXCEPT ![r].signer = k]
        BY <3>2 DEF ExportKey, GenerateKey, RequestCsr
      <4> QED BY <4>1 DEF Calls
    <3>3. CASE Sign(r)
      BY <3>3 DEF Sign, Calls
    <3> QED BY <1>3, <3>1, <3>2, <3>3
  <2> QED BY <2>1, <2>2
<1>4. CASE pc' = [pc EXCEPT ![r] = "failed"] \/ pc' = [pc EXCEPT ![r] = "done"]
  BY <1>4
<1> QED BY <1>1, <1>2, <1>3, <1>4 DEF RequestStep, CheckRefuses, ExportFails,
        GenerateFails, RequestCsrFails, SignFails, Reject, Import, ImportRefused, ImportKilled,
        ImportBroken, Fail, End

\* The only step that finishes a call is Import.
LEMMA OnlyImportFinishes ==
  ASSUME TypeOK, NEW r \in Requests, BeginRequest(r) \/ RequestStep(r), ~Import(r)
  PROVE  pc'[r] # "done" /\ (certKey' = certKey \/ pc[r] = "sign")
<1> USE DEF TypeOK, Goto
<1>1. pc'[r] # "done"
  BY DEF BeginRequest, RequestStep, CheckKey, CheckCert, CheckRefuses, ExportKey, ExportFails,
     GenerateKey, GenerateFails, RequestCsr, RequestCsrFails, Sign, SignFails, Reject,
     ImportRefused, ImportKilled, ImportBroken, Fail, End
<1>2. certKey' = certKey \/ pc[r] = "sign"
  BY DEF BeginRequest, RequestStep, CheckKey, CheckCert, CheckRefuses, ExportKey, ExportFails,
     GenerateKey, GenerateFails, RequestCsr, RequestCsrFails, Sign, SignFails, Reject,
     ImportRefused, ImportKilled, ImportBroken, Fail, End
<1> QED BY <1>1, <1>2

LEMMA KeptStep ==
  ASSUME TypeInv, AloneInv, KeptInv, Next PROVE KeptInv'
<1> SUFFICES ASSUME Undisturbed'
             PROVE  /\ Finished' => key' = certKey'[cert']
                    /\ \A r \in Requests : Generating(r)' => ~Finished'
  BY DEF KeptInv
<1> USE NamesDiffer
<1>0. TypeOK
  BY DEF TypeInv
<1>1. ASSUME NEW r \in Requests, BeginRequest(r) \/ RequestStep(r)
      PROVE  /\ Finished' => key' = certKey'[cert']
             /\ \A q \in Requests : Generating(q)' => ~Finished'
  <2>1. /\ \A b \in Requests \cup Removals : b # r => pc'[b] = pc[b]
        /\ \A q \in Requests : q # r => call'[q] = call[q] /\ certKey'[q] = certKey[q]
    BY <1>0, <1>1, RequestsKeep
  <2>2. /\ ~overlapped
        /\ \A b \in Requests \cup Removals : b # r => pc'[b] \in {"idle", "done", "failed"}
    BY <1>0, <1>1, <2>1, Moves, OthersRest DEF Undisturbed
  <2>3. RequestKnows(r)
    BY <2>2 DEF AloneInv
  <2>4. Undisturbed
    BY <1>0, <1>1, <2>1, <2>2, <2>3, MissedStays DEF Undisturbed
  <2>5. \A q \in Requests : q # r => ~Generating(q)'
    BY <2>2 DEF Generating
  <2>6. CASE Import(r)
    <3>1. pc'[r] = "done" /\ cert' = r /\ key' = certKey'[r]
      BY <1>0, <2>6 DEF Import, End, Goto, TypeOK
    <3>2. ~Generating(r)'
      BY <3>1 DEF Generating
    <3> QED BY <2>5, <3>1, <3>2
  <2>7. CASE ~Import(r)
    <3>1. pc'[r] # "done" /\ (certKey' = certKey \/ pc[r] = "sign")
      BY <1>0, <1>1, <2>7, OnlyImportFinishes
    <3>2. Finished' => Finished /\ cert' = cert /\ cert # r /\ certKey'[cert] = certKey[cert]
      BY <1>1, <2>1, <3>1, RequestsAge DEF Finished
    <3>3. Finished => key = certKey[cert] /\ certKey[cert] # NoKey /\ ~Generating(r)
      BY <2>4 DEF KeptInv, Finished, TypeInv, SignedInv
    <3>4. key' # key => Generating(r)
      BY <1>1, <2>3, RequestKeySteps DEF RequestKnows, Generating
    <3>5. Generating(r)' => Generating(r) \/ key = NoKey
      BY <1>0, <1>1, GeneratingStays DEF Undisturbed
    <3> QED BY <2>5, <3>2, <3>3, <3>4, <3>5
  <2> QED BY <2>6, <2>7
<1>2. ASSUME NEW m \in Removals, BeginRemoval(m) \/ RemovalStep(m)
      PROVE  /\ Finished' => key' = certKey'[cert']
             /\ \A q \in Requests : Generating(q)' => ~Finished'
  <2>1. /\ key' = key /\ certKey' = certKey /\ call' = call /\ cert' \in {cert, NoCert}
        /\ \A q \in Requests : pc'[q] = pc[q]
    BY <1>0, <1>2, RemovalsKeep
  <2>2. overlapped' = overlapped \/ overlapped' = (overlapped \/ Active # {})
    BY <1>0, <1>2, Moves
  <2>3. Undisturbed
    BY <1>0, <2>1, <2>2 DEF Undisturbed, TypeOK
  <2>4. Finished' => Finished /\ cert' = cert
    BY <2>1 DEF Finished
  <2> QED BY <2>1, <2>3, <2>4 DEF KeptInv, Generating
<1>3. ASSUME NEW f \in Refreshes, RefreshStep(f) PROVE KeptInv'
  BY <1>3, RefreshesKeep DEF KeptInv, Undisturbed, Finished, Generating
<1> QED BY <1>1, <1>2, <1>3 DEF Next, KeptInv

IInv == TypeInv /\ RowInv /\ AloneInv /\ KeptInv

LEMMA Invariant == Spec => []IInv
<1>1. Init => IInv
  <2>1. Init => TypeInv
    BY TypeInit DEF Init, TypeInv, TargetInv, SignedInv
  <2>2. Init => RowInv
    BY DEF Init, RowInv, NoRow, NoLook
  <2>3. Init => AloneInv
    BY DEF Init, AloneInv, Active, RequestKnows, RemovalKnows, NoCall
  <2>4. Init => KeptInv
    BY DEF Init, KeptInv, Finished, Generating
  <2> QED BY <2>1, <2>2, <2>3, <2>4 DEF IInv
<1>2. IInv /\ [Next]_vars => IInv'
  <2>1. CASE UNCHANGED vars
    BY <2>1 DEF vars, slotVars, pageVars, IInv, TypeInv, TypeOK, TargetInv, SignedInv, RowInv,
       AloneInv, Active, RequestKnows, RemovalKnows, KeptInv, Undisturbed, Finished, Generating
  <2>2. CASE IInv /\ Next
    <3>1. TypeOK'
      BY <2>2, RequestStepType, RemovalStepType, RefreshStepType DEF Next, IInv, TypeInv
    <3>2. TypeInv'
      BY <2>2, <3>1, TargetStep, SignedStep DEF IInv, TypeInv
    <3> QED BY <2>2, <3>2, RowStep, AloneStep, KeptStep DEF IInv, TypeInv
  <2> QED BY <2>1, <2>2
<1> QED BY <1>1, <1>2, PTL DEF Spec
-----------------------------------------------------------------------------
(***************************************************************************)
(* Theorems                                                                *)
(***************************************************************************)

\* As long as no two calls overlap and no look has missed a key, a certificate whose
\* request was reported as done keeps its private key beside it.
THEOREM KeysKept == Spec => []CertificatesKeepTheirKeys
<1>1. IInv => CertificatesKeepTheirKeys
  BY DEF IInv, KeptInv, Undisturbed, Finished, CertificatesKeepTheirKeys
<1> QED BY <1>1, Invariant, PTL

\* As long as no two calls overlap, a key leaves the slot only by the clean-up of the
\* call that generated it, or is overwritten by a call whose look has missed it.
THEOREM KeysStay == Spec => KeysAreNeverOverwritten
<1>1. ASSUME IInv, Next, ~overlapped, key # NoKey, key' # key
      PROVE  \/ key' = NoKey /\ key \in Active
             \/ key' \in Requests /\ call[key'].missedKey
  <2>1. PICK r \in Requests : BeginRequest(r) \/ RequestStep(r)
    BY <1>1, RemovalsKeep, RefreshesKeep DEF Next, IInv, TypeInv
  <2>2. RequestKnows(r)
    BY <1>1 DEF IInv, AloneInv
  <2>3. \/ pc[r] = "generate" /\ key' = r
        \/ pc[r] \in {"request", "import"} /\ call[r].generated /\ key' = NoKey
    BY <1>1, <2>1, RequestKeySteps
  <2>4. CASE pc[r] = "generate" /\ key' = r
    BY <1>1, <2>2, <2>4 DEF RequestKnows
  <2>5. CASE pc[r] \in {"request", "import"} /\ call[r].generated /\ key' = NoKey
    BY <2>2, <2>5 DEF RequestKnows, Active
  <2> QED BY <2>3, <2>4, <2>5
<1>2. IInv /\ [Next]_vars
        => [~overlapped /\ key # NoKey /\ key' # key
              => \/ key' = NoKey /\ key \in Active
                 \/ key' \in Requests /\ call[key'].missedKey]_vars
  BY <1>1 DEF vars
<1> QED BY <1>2, Invariant, PTL DEF Spec, KeysAreNeverOverwritten

\* As long as no two calls overlap, a certificate is replaced only by a call that asked
\* for it, or by one whose look at the slot has failed.
THEOREM ReplacedOnRequest == Spec => CertificatesAreReplacedOnRequest
<1>1. ASSUME IInv, Next, ~overlapped, cert # NoCert, cert' \notin {cert, NoCert}
      PROVE  call[cert'].replace \/ call[cert'].missedCert
  <2>1. PICK r \in Requests : BeginRequest(r) \/ RequestStep(r)
    BY <1>1, RemovalsKeep, RefreshesKeep DEF Next, IInv, TypeInv
  <2>2. cert' = r /\ pc[r] = "import"
    BY <1>1, <2>1, RequestsAge
  <2> QED BY <1>1, <2>2 DEF IInv, AloneInv, RequestKnows
<1>2. IInv /\ [Next]_vars
        => [~overlapped /\ cert # NoCert /\ cert' \notin {cert, NoCert}
              => call[cert'].replace \/ call[cert'].missedCert]_vars
  BY <1>1 DEF vars
<1> QED BY <1>2, Invariant, PTL DEF Spec, CertificatesAreReplacedOnRequest

\* As long as no two calls overlap, a certificate that is removed from the slot was
\* revoked, unless its row had been looked at before the certificate was imported.
THEOREM UnrevokedOnlyByOldRows == Spec => UnrevokedRemovalsAreByOldRows
<1>1. ASSUME IInv, Next, ~overlapped, cert # NoCert, cert' = NoCert, cert \notin revoked
      PROVE  \E m \in Removals : pc[m] = "delete" /\ target[m].old
  <2>1. \A r \in Requests : ~(BeginRequest(r) \/ RequestStep(r))
    BY <1>1, RequestsAge, NamesDiffer
  <2>2. PICK m \in Removals : BeginRemoval(m) \/ RemovalStep(m)
    BY <1>1, <2>1, RefreshesKeep DEF Next
  <2>3. pc[m] = "delete"
    BY <1>1, <2>2, RemovalCertSteps
  <2>4. target[m].old
    BY <1>1, <2>3 DEF IInv, AloneInv, RemovalKnows
  <2> QED BY <2>3, <2>4
<1>2. IInv /\ [Next]_vars
        => [~overlapped /\ cert # NoCert /\ cert' = NoCert /\ cert \notin revoked
              => \E m \in Removals : pc[m] = "delete" /\ target[m].old]_vars
  BY <1>1 DEF vars
<1> QED BY <1>2, Invariant, PTL DEF Spec, UnrevokedRemovalsAreByOldRows
=============================================================================
