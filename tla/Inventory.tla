------------------------------ MODULE Inventory ------------------------------
(***************************************************************************)
(* The certificates of CurrentUser\My over several profiles: which of what *)
(* OpenBao signs is accepted, which profiles a certificate is taken for by *)
(* the backend and by the page, which button its row gets, and where it is *)
(* revoked when that button is clicked.                                    *)
(*                                                                         *)
(* Rows are rendered from a listing and from the page's `status', and stay *)
(* as they are until they are rendered again, whoever signs in meanwhile.  *)
(* An issuance is one step here; Enrollment takes it apart.                *)
(***************************************************************************)
EXTENDS Naturals, Sequences, FiniteSetsExt

CONSTANTS
  Users,
  Claims,      \* the claims of each user: [Users -> [claims -> names]]
  Profiles,    \* DeploymentConfig::profiles, a sequence
  KnownMounts, \* the mounts whose issuer the page knows by name
  Serials,     \* bound: the certificates
  Strangers,   \* certificates of others that are in the store: [serials -> certificates]
  Answers,     \* bound: the contents of the certificates that OpenBao may sign
  Removals,    \* bound: the removals that are under way at the same time
  Nobody, NoMount, NoClaim, Unissued, Unlisted

ProfileIds == DOMAIN Profiles
Mounts == {Profiles[i].mount : i \in ProfileIds}

\* DeploymentConfig::validate; a purpose stands for the EKU that it requires.
ValidProfile(p) == p.purpose \in p.ekus
ASSUME ProfilesAreASequence == Len(Profiles) \in Nat /\ ProfileIds = 1..Len(Profiles)
ASSUME ProfilesAreValid == \A i \in ProfileIds : ValidProfile(Profiles[i])
ASSUME NoMountIsNoMount == NoMount \notin Mounts /\ KnownMounts \subseteq Mounts
ASSUME StrangersAreNotOfOpenBao ==
  /\ DOMAIN Strangers \subseteq Serials
  /\ \A s \in DOMAIN Strangers : Strangers[s] # Unissued /\ Strangers[s].mount = NoMount

\* A certificate of profile i for user u, with the contents a, in the store with its key.
Installed(a, i, u) ==
  [cn |-> a.cn, sans |-> a.sans, ekus |-> a.ekus, keyed |-> TRUE,
   mount |-> Profiles[i].mount, profile |-> i, owner |-> u]
ASSUME UnissuedIsNoCertificate ==
  \A a \in Answers, i \in ProfileIds, u \in Users : Installed(a, i, u) # Unissued
ASSUME NamesDiffer == /\ Nobody \notin Users
                      /\ Removals \cap {"none", "local", "disabled", "revoke"} = {}

VARIABLES
  user,      \* backend: whose session there is
  status,    \* page: the user in `status'
  cert,      \* the certificates that exist
  store,     \* the serial numbers of those in CurrentUser\My
  expired,   \* the serial numbers of those past notAfter
  revoked,   \* OpenBao: the serial numbers it has revoked
  listing,   \* the answer of list_all_personal_certificates, not rendered yet
  rows,      \* page: the row of each certificate
  removal    \* the calls of remove_personal_certificate

vars == <<user, status, cert, store, expired, revoked, listing, rows, removal>>

NoRow == [button |-> "none", mount |-> NoMount, shownTo |-> Nobody]
Idle == [at |-> "idle"]

Init ==
  /\ user = Nobody /\ status = Nobody
  /\ cert = [s \in Serials |-> IF s \in DOMAIN Strangers THEN Strangers[s] ELSE Unissued]
  /\ store = DOMAIN Strangers
  /\ expired = {} /\ revoked = {}
  /\ listing = Unlisted
  /\ rows = [s \in Serials |-> NoRow]
  /\ removal = [r \in Removals |-> Idle]

(***************************************************************************)
(* Certificates and profiles                                               *)
(***************************************************************************)

IdentityOf(u, p) == Claims[u][p.subjectClaim]
SanOf(u, p) == IF p.sanClaim = NoClaim THEN {} ELSE {Claims[u][p.sanClaim]}
NamesIn(c) == {c.cn} \cup c.sans

\* Variant: the certificate's own EKUs are not looked at.
ValidatedWithoutEkus(c, p, u) ==
  c.sound /\ c.cn = IdentityOf(u, p) /\ SanOf(u, p) \subseteq c.sans

\* validate_issued_certificate; `sound' stands for validity, key and chain.
UsageFor(purpose) == {"digitalSignature"} \cup
                     (IF purpose = "document-signing" THEN {"nonRepudiation"} ELSE {})
Validated(c, p, u) ==
  /\ c.sound
  /\ c.cn = IdentityOf(u, p)
  /\ SanOf(u, p) \subseteq c.sans
  /\ p.ekus \subseteq c.ekus
  /\ UsageFor(p.purpose) \subseteq c.usage

\* certificates_for_profile (backend)
CertificatesForProfile(all, p, u) ==
  {s \in all : LET c == cert[s] IN
     /\ c.keyed
     /\ IdentityOf(u, p) \in NamesIn(c)
     /\ c.ekus = {} \/ p.ekus \subseteq c.ekus}

\* Variant: without a session nothing is matched.
MatchesSignedIn(c, u) ==
  {i \in ProfileIds : u # Nobody /\ IdentityOf(u, Profiles[i]) \in NamesIn(c)}

\* matchingConfiguredProfiles (page): by name if someone is signed in, else by EKU.
Matches(c, u) ==
  {i \in ProfileIds : LET p == Profiles[i] IN
     IF u = Nobody THEN p.ekus \subseteq c.ekus
     ELSE ({IdentityOf(u, p)} \cup SanOf(u, p)) \cap NamesIn(c) # {}}

\* Variant: the mount of the first profile is as good as any.
MountOfFirstProfile(c, u) == Profiles[1].mount

\* pkiMountForCertificate: the first profile that matches.
MountFor(c, u) ==
  IF Matches(c, u) # {} THEN Profiles[Min(Matches(c, u))].mount
  ELSE IF Cardinality(Mounts) = 1 THEN Profiles[1].mount ELSE NoMount

\* refreshInstalledCertificates: the row of a certificate.
Manageable(c, u) == Matches(c, u) # {} \/ c.mount \in KnownMounts
RowOf(s, u) ==
  LET c == cert[s]
      button == IF ~c.keyed /\ c.ekus = {} THEN "none"
                ELSE IF Manageable(c, u)
                     THEN IF u # Nobody /\ MountFor(c, u) # NoMount THEN "revoke" ELSE "disabled"
                     ELSE IF s \in expired THEN "local" ELSE "none"
  IN [button |-> button, mount |-> MountFor(c, u), shownTo |-> u]

(***************************************************************************)
(* Actions                                                                 *)
(***************************************************************************)

\* The session changes; the page hears of it later (Page).
ChangeUser ==
  /\ user' \in (Users \cup {Nobody}) \ {user}
  /\ UNCHANGED <<status, cert, store, expired, revoked, listing, rows, removal>>

TakeStatus ==
  /\ status' = user
  /\ UNCHANGED <<user, cert, store, expired, revoked, listing, rows, removal>>

Expire(s) ==
  /\ cert[s] # Unissued
  /\ expired' = expired \cup {s}
  /\ UNCHANGED <<user, status, cert, store, revoked, listing, rows, removal>>

\* <mount>/sign/<role>: the names in the certificate are among those of the request,
\* or it is for someone else; EKUs and key usage are up to the role.
Signable(p, u) == {a \in Answers : a.sans \subseteq SanOf(u, p) \cup {a.cn}}

\* A certificate of profile i is signed, accepted and installed with its key.
Issue(i, s) ==
  /\ user # Nobody
  /\ cert[s] = Unissued
  /\ \E a \in Signable(Profiles[i], user) :
       /\ Validated(a, Profiles[i], user)
       /\ cert' = [cert EXCEPT ![s] = Installed(a, i, user)]
  /\ store' = store \cup {s}
  /\ UNCHANGED <<user, status, expired, revoked, listing, rows, removal>>

List ==
  /\ listing = Unlisted
  /\ listing' = store
  /\ UNCHANGED <<user, status, cert, store, expired, revoked, rows, removal>>

Render ==
  /\ listing # Unlisted
  /\ rows' = [s \in Serials |-> IF s \in listing THEN RowOf(s, status) ELSE NoRow]
  /\ listing' = Unlisted
  /\ UNCHANGED <<user, status, cert, store, expired, revoked, removal>>

\* Variant: the mount is left to the backend to infer.
BeginWithoutMount(r, s, step) ==
  /\ removal[r] = Idle
  /\ removal' = [removal EXCEPT ![r] = [at |-> step, serial |-> s, mount |-> NoMount,
                                        shownTo |-> rows[s].shownTo, button |-> rows[s].button]]
  /\ UNCHANGED <<user, status, cert, store, expired, revoked, listing>>

\* The call takes what the row says, when it is clicked.
Begin(r, s, step) ==
  /\ removal[r] = Idle
  /\ removal' = [removal EXCEPT ![r] = [at |-> step, serial |-> s, mount |-> rows[s].mount,
                                        shownTo |-> rows[s].shownTo, button |-> rows[s].button]]
  /\ UNCHANGED <<user, status, cert, store, expired, revoked, listing>>

ClickRevoke(r, s) ==
  /\ rows[s].button = "revoke"
  /\ status # Nobody /\ rows[s].mount # NoMount
  /\ rows' = [rows EXCEPT ![s].button = r]
  /\ Begin(r, s, "revoke")

ClickLocal(r, s) ==
  /\ rows[s].button = "local"
  /\ rows' = [rows EXCEPT ![s].button = r]
  /\ Begin(r, s, "delete")

\* The `finally' of the click, unless the button was rendered anew.
Return(r) ==
  LET s == removal[r].serial IN
  /\ removal' = [removal EXCEPT ![r] = Idle]
  /\ rows' = [rows EXCEPT ![s].button =
                IF @ # r THEN @ ELSE removal[r].button]

\* infer_certificate_pki_mount
MountIsConfigured(mount) == mount \in Mounts

\* <mount>/revoke: a mount knows the certificates it has issued.
Revocable(r) == cert[removal[r].serial].mount = removal[r].mount

Revoke(r) ==
  /\ removal[r].at = "revoke"
  /\ MountIsConfigured(removal[r].mount) /\ user # Nobody
  /\ Revocable(r)
  /\ revoked' = revoked \cup {removal[r].serial}
  /\ removal' = [removal EXCEPT ![r].at = "delete"]
  /\ UNCHANGED <<user, status, cert, store, expired, listing, rows>>

\* Refused, not reached, or its answer lost.
RevokeFails(r) ==
  /\ removal[r].at = "revoke"
  /\ \/ UNCHANGED revoked
     \/ Revocable(r) /\ revoked' = revoked \cup {removal[r].serial}
  /\ Return(r)
  /\ UNCHANGED <<user, status, cert, store, expired, listing>>

\* certutil -delstore
Delete(r) ==
  /\ removal[r].at = "delete" /\ removal[r].serial \in store
  /\ store' = store \ {removal[r].serial}
  /\ Return(r)
  /\ UNCHANGED <<user, status, cert, expired, revoked, listing>>

DeleteFails(r) ==
  /\ removal[r].at = "delete"
  /\ Return(r)
  /\ UNCHANGED <<user, status, cert, store, expired, revoked, listing>>
-----------------------------------------------------------------------------
Next == \/ ChangeUser \/ TakeStatus \/ List \/ Render
        \/ \E s \in Serials : Expire(s) \/ \E i \in ProfileIds : Issue(i, s)
        \/ \E r \in Removals :
             \/ \E s \in Serials : ClickRevoke(r, s) \/ ClickLocal(r, s)
             \/ Revoke(r) \/ RevokeFails(r) \/ Delete(r) \/ DeleteFails(r)

Spec == Init /\ [][Next]_vars

(***************************************************************************)
(* Properties                                                              *)
(***************************************************************************)

\* The certificates, rows and calls keep their shape; a certificate is being revoked
\* at a configured mount, for a row that offered it.
TypeOK ==
  /\ user \in Users \cup {Nobody} /\ status \in Users \cup {Nobody}
  /\ \A s \in Serials : cert[s] = Unissued \/ cert[s].mount \in Mounts \cup {NoMount}
  /\ store \in SUBSET {s \in Serials : cert[s] # Unissued}
  /\ expired \in SUBSET Serials /\ revoked \in SUBSET Serials
  /\ listing \in (SUBSET Serials) \cup {Unlisted}
  /\ \A s \in Serials :
       /\ rows[s].button \in {"none", "local", "disabled", "revoke"} \cup Removals
       /\ rows[s].mount \in Mounts \cup {NoMount} /\ rows[s].shownTo \in Users \cup {Nobody}
  /\ \A r \in Removals : removal[r] # Idle =>
       /\ removal[r].at \in {"revoke", "delete"} /\ removal[r].serial \in Serials
       /\ removal[r].button \in {"revoke", "local"}
       /\ removal[r].at = "revoke" => removal[r].mount \in Mounts /\ removal[r].button = "revoke"

Issued == {s \in Serials : cert[s] # Unissued /\ cert[s].mount # NoMount}

\* What was accepted for a profile is found again by the inventory of that profile,
\* as long as its user is the one who asks: else the next request would not ask
\* whether to replace it, and the page would show the profile as empty.
AcceptedCertificatesAreFound ==
  \A s \in Issued \cap store :
    s \in CertificatesForProfile(store, Profiles[cert[s].profile], cert[s].owner)

\* A certificate leaves the store unrevoked only if it has expired, and, if OpenBao
\* has issued it, only by a row that was rendered while someone else was signed in:
\* its owner is offered the revocation, and so is a page without a session.
UnrevokedRemovalsAreOfStrangers ==
  [][ \A s \in store \ (store' \cup revoked) :
        /\ s \in expired
        /\ s \in Issued => \E r \in Removals :
             /\ removal[r] # Idle /\ removal[r].serial = s
             /\ removal[r].shownTo \notin {cert[s].owner, Nobody} ]_vars

\* The revocation of a certificate is sent to the mount that has issued it.  The run
\* `inventory' checks it where the profiles tell their users by different claims;
\* `inventory_mount' for the profiles of deployment.example.json, where the same
\* name matches every profile and the first one's mount is taken.
RevocationsGoToTheIssuer ==
  \A r \in Removals : removal[r] # Idle /\ removal[r].at = "revoke" /\ removal[r].serial \in Issued
    => removal[r].mount = cert[removal[r].serial].mount
=============================================================================
