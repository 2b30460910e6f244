# TLA+ models of the OpenBao certificate client

OpenBao GUI is a Tauri application for Windows: a Rust backend
(`src/src-tauri/src`) that signs a user in to OpenBao through OIDC, and requests,
installs, revokes and removes certificates in the Windows store or on a YubiKey;
and a page (`src/src/app.js`) that calls its commands. Hardly any of it computes
much. What is difficult is that everything happens in steps (an HTTP request, a
`certutil`, `certreq`, PowerShell or `ykman` process, a dialog), that the user can
start the next thing while one is under way, and that each step may fail, be
killed, or have had its effect although it reported none. The models are about that.

1. [The system](#1-the-system)
2. [Modules, and how they correspond to the code](#2-modules-and-how-they-correspond-to-the-code)
3. [Runs](#3-runs)
4. [Bounds, and why they are enough](#4-bounds-and-why-they-are-enough)
5. [Fairness](#5-fairness)
6. [Proofs](#6-proofs)
7. [Where the code does not do what is said of it](#7-where-the-code-does-not-do-what-is-said-of-it)
8. [Not modelled](#8-not-modelled)
9. [Plan](#9-plan)

To run a check: `tlc -config MCSession.cfg MCSession.tla`. To check proofs:
`tlapm SessionProofs.tla`.

## 1. The system

| Component | State | Operations | What makes it correct |
|---|---|---|---|
| Session lifecycle (`lib.rs`, `state.rs`) | `RuntimeState` behind a tokio mutex: `session`, `login_cancel`; the tasks' locals; the tokens at OpenBao | `login`, `cancel_login`, `logout`, `with_active_session`, `session_renewal_loop`, `revoke_before_exit` | one holder for every token; the identity shown is the token's; sign-out is told to OpenBao; attempts end and can be cancelled |
| Software-key enrollment (`lib.rs`, `certificates.rs`) | CNG key containers, `CurrentUser\My` and `CurrentUser\CA`, the `PendingRequest` of each call | `issue_certificate`, `PendingRequest::generate/accept/drop`, `remove_personal_certificate` | no certificate without its key and chain, no key left behind by a failure, revoke before remove |
| Issued-certificate validation (`certificates.rs`) | none that lasts | `validate_issued_certificate`, `validate_chain` | accepted means anchored; the walk ends |
| YubiKey PIV slot (`lib.rs`, `certificates.rs`, `app.js`) | key and certificate in the slot; `yubiKeySlots` and the page's row of it | `issue_yubikey_certificate`, `remove_yubikey_certificate`, `list_yubikey_certificates`, through `ykman` | nothing that was seen is overwritten unasked; a finished certificate keeps its key; what is removed was revoked |
| Root trust (`lib.rs`, `certificates.rs`, `app.js`) | `CurrentUser\Root`, `pending_root` | `install_root`, `remove_root`, `check_root_update`, `approve_root_update`, `ensure_roots_installed` | only confirmed roots are trusted; logins need every root |
| OpenBao HTTP client (`api.rs`) | none | `begin_oidc`, `poll_oidc`, `renew`, `revoke`, `read_pem`, `sign_csr`, `revoke_certificate` | callers cope with refused, lost and unreadable answers |
| Inventory and matching (`lib.rs`, `certificates.rs`, `app.js`) | the rows of the page | `certificates_for_profile`, `matchingConfiguredProfiles`, `pkiMountForCertificate`, `infer_certificate_pki_mount`, removal by a row | what was accepted is found again; a certificate is revoked by its issuer, and removed unrevoked only where it is nobody's business to revoke it |
| Server settings (`lib.rs`, `config.rs`, `app.js`) | the settings file, what the start made of it | `save_server_settings`, `reset_server_settings`, fallback at start | what was answered is what the next start applies; not begun under a session or login |
| Deployment configuration (`config.rs`) | an embedded constant | its validation and the override at start | a profile asks for the EKU of its purpose |
| Redaction (`redaction.rs`, `error.rs`) | none | `redact` and the error types | no token reaches a log or the page |
| Frontend (`app.js`) | `status`, `loginPending`, button states | the event handlers, `refresh` | a page that has settled shows the session that is there; a click does what its button says; a running login can be cancelled |
| Tray and window (`lib.rs`, `main.rs`) | window visibility | show, hide, exit | exit ends everything, after a revocation |
| Lab, scripts, CI, policies | | | outside the program |

**How they interact.** The page invokes backend commands; the asynchronous ones run
as tokio tasks side by side, the synchronous ones (`install_root`, `remove_root`)
one at a time on the main thread. The only shared memory is `RuntimeState`, and no
command holds its mutex over an `await` that leaves the process: a command locks,
copies what it needs, unlocks, awaits, and locks again to write. The Windows stores,
the key containers and the YubiKey are shared through processes of their own, with
no lock at all. The renewal loop is one background task; the tray's exit ends the
process two seconds after it was asked to, whatever is running.

**What is hard.** The return of a login after it was cancelled, or beside another
one; a lease that is written into a session which is not the one that was copied; a
token that OpenBao granted but nobody received; a key container between `certreq
-new` and `certreq -accept`; a change of user between the two reads of the session
in one issuance; a `ykman` process that was killed and had done its work; a slot or
store that is looked at by one process and changed by another; a look that fails and
counts as "not there"; a chain with loops and unreadable entries; two handles on one
settings file; a page whose refreshes overtake each other and whose rows outlive the
session they were rendered for; one name that several profiles share. `PROJECT.json`
lists each of these at its line, with the properties that watch it.

## 2. Modules, and how they correspond to the code

Each component module has its state as variables, one action per stretch of code
between two points where other tasks can run, and its properties at the end.
Operators that a comment calls a *variant* stand before the operator they vary and
are used by no specification: each is the plausible mistake (a guard dropped, a
reset forgotten, a check off by one) that the property listed with it in
`PROJECT.json` would catch; substituting a variant for its original makes TLC
report a violation.

### Session (and SignIns)

`session`, `loginCancel` and `cancelled` are the fields of `RuntimeState` and the
state of the `CancellationToken`s; `pc`, `timer`, `result` are the login tasks;
`renewal` is the renewal task; `revoking` the `revoke-self` requests under way;
`lease` and `owner` are OpenBao's own record of each token. A login attempt obtains
at most one token, so an attempt also names its token.

* `login` is `StartLogin` (first critical section), `Challenge`/`StartFails` (version
  check, `begin_oidc`, browser), the turns of `poll_until_complete`
  (`EnterSelect`, `Stop`, `StartPoll`, `PollPending`, `PollComplete`,
  `PollDiscarded`, `PollRefused`) and `FinishLogin` (second critical section).
* `select!` is modelled as it works: its futures are polled when the loop turns, the
  branch that is ready is taken, at random when several are; and `poll_oidc` is
  awaited *inside* the taken branch, where neither cancellation nor deadline is seen.
* A poll has four outcomes; in `PollDiscarded` OpenBao has granted a token and the
  client has none (lost answer, missing claim).
* `RenewBegin`, `RenewGranted`, `RenewFails` and `RenewApply` are one turn of the
  renewal loop with the await in its middle.
* Instants are kept as time left. `Tick` passes one unit of it everywhere.

`SignIns` is the abstract specification: a token is fresh, active or retired, at most
one is active, it is used in one stretch and for one user. `Session` implements it
under the mapping `Stage` (`ImplementsSignIns`).

### Enrollment

One certificate profile. `keys` are the CNG containers, `staged` counts a certificate's
intermediates in `CurrentUser\CA`, `store` the certificates in `CurrentUser\My`, `call`
the locals of each `issue_certificate`, `issued` and `revoked` OpenBao's record.
`Generate`, `GenerateRejected` and `GenerateUnread` are the ways out of
`PendingRequest::generate`; `Stage` is one `certutil -addstore` and `Accept` the `certreq
-accept` of `PendingRequest::accept`; every later error goes through `Drop` (`Abort`).
The session appears as `user`, changed by `ChangeUser` at any time: that is what `Session`
allows, seen from here. `ExitAndRestart` ends the process between any two commands, without
destructors; a Windows command that runs may still complete. `abandoned`, `switched` and
`overlapped` are history variables, used by properties only.

### YubiKeySlot

One PIV slot. Each `ykman` command of `issue_yubikey_certificate`,
`remove_yubikey_certificate` and `list_yubikey_certificates` is an action, with its success, its
failure, and the 45-second kill with or without an effect; an import that reports a failure may
have taken effect, too. Calls interleave at every command. `certKey` records which private key a
certificate is for; `import --verify` compares it with the key in the slot.

* A look at the slot may miss what is there: a failed `certificates export` counts as no
  certificate, and a failed `keys info` as no key if its text says "not found", "not present" or
  the like (`CheckKey`, `CheckCert`, `ListKey`, `ListCert`).
* `row` is `yubiKeySlots` and the buttons made of it. It changes when a listing is answered
  (`TakeList`) or fails (`ListFails`), and not before; `look` is a listing under way. Any number of
  them may start at any time: a refresh of the page starts one, and so does a request or a
  removal that has succeeded, but not one that has failed.
* A removal is given the serial number of its row (`target`), revokes that, and deletes what the
  slot holds by then. An ordinary request is refused by the page if the row showed something.
* `overlapped`, the `missedKey` and `missedCert` of a call and the `old` of a row, a look or a
  target are history variables. `old` says that a certificate was imported since the look at the
  slot. The properties need them: what the slot promises differs between calls that overlap and
  calls that do not, between looks that saw the slot and looks that did not, and between rows of
  the certificate that is in the slot and older ones.

### RootTrust

`store` is `CurrentUser\Root`; `pending` is `pending_root`; `check` and `pc` are the
clicks on *Check update* with the dialog and the approval they lead to; `job` is the
command on the main thread; `gate` one call of `ensure_roots_installed`. Looks at the
store are actions of their own (`Probe`, `ProbeRivals`), and may
report "not there" falsely, as `root_is_user_installed` and
`subject_has_other_certificate` do. `confirmed`, `present` and the `misread` of a job are
history variables.

### ChainValidation

`validate_chain`: a step is a turn of its loop. A certificate is two names, the key it
is for and the key that signed it, which is all the walk looks at. The walk is greedy
and does not go back: it takes the *first* unused entry that could have issued the
current one.

### Settings

The settings file as its value and its length: `fs::write` truncates (`Open`), and writes
through a handle of its own at offset 0 (`Write`), so that what two overlapping calls leave
may be neither text (`Torn`); a write that fails or is interrupted leaves a prefix. `Load` and
`Fallback` are what a start makes of the file. `attached` are the open handles; `promised`,
`surprised` and `overlapped` are history variables.

### Page

The session button of `app.js` in front of a backend that is `Session` without its clocks.
An `invoke` is a call with a state of its own (`invoked`, executed by the backend, `answered`,
returned to the handler), so that calls and answers overtake each other; a refresh is three
awaits (`AnswerStatus`, `TakeStatus`, `ListStatus`). `loginPending`, `status` and `label`
change where the handlers change them, the label only where something is rendered.
`clean`, `lapsed` and `latest` are history variables; `latest` follows the answer that was given
last until the page shows it, or an older one in its place. `Session` has every login's polls and
timers; `Page` has what the user can make of it. What the two make of the session agrees as far
as `SignIns` tells: both implement it, `Page` with the logins as tokens and as users.

### Inventory

The certificates in `CurrentUser\My` over several profiles. A certificate is its names, EKUs,
whether it has a key, and who issued it. The code decides in four places what a certificate
is for, by rules that differ: at acceptance (`Validated`), in the backend's inventory
(`CertificatesForProfile`: name and EKUs), in the page (`Matches`: name alone, or EKUs alone
when nobody is signed in), and for its mount (`MountFor`: the first match). `RowOf` turns
them into the button of a row; a row keeps its button and its mount until it is rendered
again, whoever signs in meanwhile, and the calls take what the row says.

### MC modules

Each component has an MC module that extends it by a symmetry set, or by the values of
structured constants: in `MCInventory` two users with their claims, a certificate of a
stranger, and two deployments, one whose profiles tell users by claims of their own and one
cut from `deployment.example.json`.

## 3. Runs

| Run (cfg) | Asks | Answer |
|---|---|---|
| `session` (MCSession) | Do overlapping attempts with cancellations, renewals, logouts, expiry and exit keep tokens and identities apart? Does `Session` implement `SignIns`? Does every attempt end, and does the renewal loop keep renewing? | yes; the last two under the fairness of section 5 |
| `enrollment` (MCEnrollment) | Do certificates keep their keys and chains, are left-over keys explained, does a certificate name two users only after a change of user, do unconfirmed twins come from overlapping calls only? | yes |
| `yubikey` (MCYubiKeySlot) | With retries after any failure, kill or missed look, and clicks on rows of any age, but calls that do not overlap: is the key of a finished certificate ever lost, a key or certificate that was seen ever overwritten unasked, or a certificate removed unrevoked by a row that is not older than it? | no |
| `roots` (MCRootTrust) | With overlapping rollovers, and looks that fail: is an unconfirmed root ever trusted, does the gate ever pass on a root that was absent, does a command whose looks were right ever report what it has not done? | no |
| `chain` (MCChainValidation) | Over every leaf and every chain: accepted implies anchored, and anchored implies accepted where issuers are unambiguous; is the loop error reachable? | yes, yes, no |
| `settings` (MCSettings) | Does the next start apply what the last call that was alone has answered, through failed and interrupted writes and restarts? Are the settings written beside a login only by a call that was checked before it began? | yes, yes |
| `page` (MCPage) | Does a page that has settled show the session that is there? Can a login be cancelled while it runs? Does a click do what the button says, and does the button come to say it? | yes, up to the expiry and overlaps the properties name; the last under the fairness of section 5 |
| `inventory` (MCInventory) | Is what was accepted found again, revoked where it was issued, and removed unrevoked only after its expiry from a row that was rendered for someone else? | yes, where profiles tell users by claims of their own |
| the four runs of section 7 | a sentence of the documentation, a message of the page, or a check of the backend | violated |

Deadlock is checked where the system can always go on (`enrollment`, `yubikey`, `roots`,
`settings`, `inventory`), and not where it may stop: every login of the instance has been used and
the application has exited (`session`), all clicks have been made (`page`), the chain has been
walked (`chain`).

## 4. Bounds, and why they are enough

* `session`: 2 logins, 2 identities, `LoginTimeout` 2 ticks, `RenewWindow` 1, `MaxLease` 2.
  Two logins are what it takes for one that was cancelled and one that starts before it has
  returned, or for a session and the attempt that overwrites it; two identities tell whose
  session a renewal is written to. A lease of 2 has an instant inside the renewal window, one
  before it, and one at expiry; with a timeout of 2 a poll answers "pending" or "slow_down"
  between two waits. `IntervalCap` is `LoginTimeout + 1`: a sleep longer than the deadline never
  fires before it. The run uses no symmetry, as it checks liveness. What it checks of
  safety is proved for any number of logins.
* `enrollment`: 2 calls, 2 users, chains of 2 intermediates, both faults. The properties
  relate a call to itself or to one other call; the proofs are for any number.
* `yubikey`: 2 requests, 1 removal and 1 listing at a time, of which any 2 calls run at once: a
  failure with its retry or a replacement, and a removal by the row that was listed before,
  between or after them. Every look may miss what is there. The proofs are for any number of
  calls and listings.
* The violations need less: `yubikey_stale_row` has one request, one removal and one listing,
  `session_uncancellable` 2 logins of one user.
* `roots`: 2 configured roots and a third certificate with the subject of one of them; 2
  checks, as a check replaces the pending root of one other. Every look may fail.
* `chain`: 2 names, 2 keys, chains of up to 3 entries, unreadable ones included: loops,
  repeated entries, self-issued certificates that are not the root, and two entries that
  could both have issued a third all occur. The proofs are for chains of any length.
* `settings`: 3 calls, so that a third finds what two overlapping ones have left; a short and
  a long valid text, whose order decides what an overwritten file holds, and an invalid one.
* `page`: 2 logins, 1 cancellation, 1 sign-out, 2 refreshes at the same time, 1 waiting event:
  a login that is cancelled, another that starts before the first has returned, and two
  answers that arrive in the wrong order. A refresh that is asked for while both are under way
  waits for one to end; `MaxEvents` only limits renewals, which nothing else does. The proofs
  are for any number of calls and refreshes.
* `inventory`: 2 users, 2 profiles with a mount each, one certificate of OpenBao and one of a
  stranger that has a user's name, 2 removals at a time. `Answers` has every combination of
  right and wrong names, EKUs and key usages for both users and both profiles.

The counters that the code does not bound are bounded by these constants only; guards that
exist for the sake of a bound are those with `MaxActive`, `MaxEvents`, and the number of
`Refreshes` and `Removals` under way.

## 5. Fairness

`Session` and `Page` have liveness properties. In `Session`, `Fairness` is weak fairness of a
login attempt's steps, of the answers to `revoke-self`, of the renewal task's steps, of the exit, and of
time. The code justifies each: tokio polls a task that is ready, `reqwest` is built with a
30 s timeout so that every request ends, the exit is bounded by its own 2 s timeout.
Fairness is of an attempt's steps together: it has to go on, nothing says which way, so
nothing is assumed of OpenBao's answers. No fairness is assumed of users, who may never
cancel, log out or look at the session again.

`FairSpec` of `Page` is weak fairness of each call, each refresh and the delivery of events:
the backend executes and answers what was invoked (the requests it makes end after 30 s), and
the page's handlers run when their answer is there. That a login ends rests on `AttemptsEnd`
of `Session`. No fairness is assumed of clicks, renewals or expiry.

## 6. Proofs

For every number of logins, identities, roots, certificates and checks, every lease and
timeout, chains and texts of every length, and any users, claims, profiles and certificates.
The assumptions are those named in the modules: distinctness of the null values, natural
numbers for times, a deadline and a longest lease of at least one tick, texts that are not
empty, calls of the session button that are of one kind only, at least one refresh, and profiles that
are a sequence whose members ask for the EKU of their purpose.

| Theorem | Module | States |
|---|---|---|
| `TypeCorrect` | SessionProofs, EnrollmentProofs, YubiKeySlotProofs, RootTrustProofs, ChainValidationProofs, SettingsProofs, InventoryProofs, PageProofs | the type invariant |
| `SlotIsLive`, `AttemptsAreExclusive` | SessionProofs | `CancelSlotIsLive`, `AttemptsExcludeEachOther` |
| `OneHolder`, `IdentityIsOwner` | SessionProofs | `TokenHasOneHolder`, `IdentityIsTheTokensOwner` |
| `DroppedAreRevoked` | SessionProofs | `DroppedTokensAreRevoked` |
| `LoginsSignIn`, `ReplacementNeedsACancel` | SessionProofs | `OnlyLoginsSignIn`, `SessionsAreReplacedOnlyAfterACancel`, which no run repeats: `ImplementsSignIns` and `AttemptsExcludeEachOther` would fail with them |
| `Refinement` | SessionProofs | `ImplementsSignIns` |
| `CertificatesAreUsable`, `KeysAreDeleted` | EnrollmentProofs | `InstalledCertificatesAreUsable`, `LeftoverKeysAreExplained` |
| `NamesAgree`, `TwinsOverlap` | EnrollmentProofs | `TwoNamesOnlyAfterASwitch`, `TwinsComeFromOverlaps` |
| `RevokedFirst` | EnrollmentProofs | `RemovalRevokesFirst` |
| `KeysKept`, `KeysStay` | YubiKeySlotProofs | `CertificatesKeepTheirKeys`, `KeysAreNeverOverwritten` |
| `ReplacedOnRequest`, `UnrevokedOnlyByOldRows` | YubiKeySlotProofs | `CertificatesAreReplacedOnRequest`, `UnrevokedRemovalsAreByOldRows` |
| `ConfirmedOnly` | RootTrustProofs | `OnlyConfirmedRootsAreTrusted` |
| `CommandsAreDone`, `GateSaw` | RootTrustProofs | `ReportedCommandsAreDone`, `GateSawEveryRoot` |
| `Anchors`, `NoLoop` | ChainValidationProofs | `AcceptedChainsAreAnchored`, `LoopIsNeverReported` |
| `AnchoredAccepted` | ChainValidationProofs | `AnchoredChainsAreAccepted` |
| `AnswersTakeEffect`, `SurprisedWriters` | SettingsProofs | `LastAnswerTakesEffect`, `OnlySurprisedCallsWrite` |
| `AcceptedAreFound`, `UnrevokedAreOfStrangers` | InventoryProofs | `AcceptedCertificatesAreFound`, `UnrevokedRemovalsAreOfStrangers` |
| `RevokedAtTheIssuer` | InventoryProofs | `RevocationsGoToTheIssuer`, if no name is asked for at two mounts (`ClaimsTellMountsApart`) |
| `QuietPage`, `CleanLogins` | PageProofs | `QuietPageIsRight`, `CleanLoginsCanBeCancelled` |
| `ClicksAsLabelled` | PageProofs | `ClicksDoWhatTheLabelSays` |
| `Refinement` | PageProofs | `ImplementsSignIns` of `Page`, which no run repeats |

**Session.** `SlotInv` is the inductive invariant of the cancel slot: besides the two
properties it says that only started attempts were cancelled, without which the attempt
that `StartLogin` puts into the slot could be one cancelled already. `TokenInv` is that of
the tokens: a result belongs to the attempt that returns it and to the user OpenBao
granted it to (`ResultInv`); the session's token is that of a finished attempt
(`SessionInv`); a renewal's token was in the session once (`RenewalInv`); what is being
revoked belongs to finished attempts and is not in the session (`RevokingInv`). The last
two are what `RenewApply` needs: it compares identities and not tokens, and keeps the
token of the session that is there. `SignsNobodyIn` collects what all steps other than
`FinishLogin` have in common, so that the invariant is proved for them once.

**Refinement.** `StepKinds` sorts the steps: `FinishLogin` with a token is `SignIn`; every
other step is quiet (it keeps the session's token and user or drops both, and brings no
attempt back), and a quiet step is `Retire` of the tokens that are out of use after it.
The added invariant `NobodyInv` says that no user is shown when there is no token.

**Enrollment.** Four invariants, each proved from the types and, where it needs it, from
`KeyInv`. `KeyInv`: a call has its key between `certreq -new` and its end and none before, and
what is in the store belongs to a call that has ended, so that no clean-up is left that could
take its key. `NameInv`: until the SAN claim is read, a call whose session has not changed is
for the user who is signed in. `TwinInv`: a call that has passed its look at the inventory
without a confirmation has no twin in the store except from a call beside it; `QuietTwins`
collects what all steps have in common that neither begin a call nor install a certificate.
`RemovalInv`: a removal that has come to its deletion was revoked.

**YubiKeySlot.** The types need to know that a removal under way has a target (`TargetInv`) and
that OpenBao signs for a key (`SignedInv`). `AloneInv`: as long as no calls have overlapped, at
most one is active, and it knows the slot. `RequestKnows` says that the key it is going to
generate finds no other, unless its look has missed it, that the key it has generated is there
until it cleans it up, and that the slot has no certificate it was not asked to replace, unless
its look has missed that; `RemovalKnows` that the certificate of its row is still there unless
the row was old, and was revoked before the deletion. The latter rests on `RowInv`: a row, or the
answer of a listing, that shows a certificate and is not old shows the one in the slot, if there is
one. `KeptInv` says besides `CertificatesKeepTheirKeys` that a call that has found no key finds no
finished certificate either, which is what its own key generation and clean-up could harm. The
lemma `OthersRest` spares every step the other calls.

**RootTrust.** `ConfirmedInv` says that the certificate of a check whose dialog was
confirmed, and the embedded certificate of an installation, are in `confirmed`; a pending
root that was replaced is not, and the comparison in `Approve` is what keeps it out.
`ReportedCommandsAreDone` is about one step, the look that ends a command: a look that finds
the certificate is never wrong, and one that misses it is recorded in `misread`. `GateInv`
says that every root the gate has ticked off was in the store at some time during its call
(`present`).

**ChainValidation.** `WalkInv` says that the path so far is one and ends at the current
certificate, `TurnInv` that the turns count the visited entries. At the last turn every
entry has been visited, so there are no candidates, and `Stop` reports that no issuer was
found: `NoLoop` is an argument by cardinality, with the library's theorems on finite sets.
That the greedy walk misses nothing is stated with the least set of entries that holds the
leaf's issuers and is closed under going on from them (`Closed`, `Reached`); a set that the
walk's own course shows to be closed then bounds everything that could have been reached.
`SearchInv` says that a walk that has not met a self-issued certificate has visited its path and
nothing else, and why it ended. From it, `SearchIsClosed` takes the issuers of every certificate
whose issuer was looked for: unambiguous issuers make each of them like an entry of the path or
like the refused root, so the set leads nowhere new and has no anchor.

**Settings.** `OverlapInv` says that two calls under way know of each other, `WriterInv` that
a call that is writing has withdrawn every promise and, if it is alone, has an empty file
before it: then a text written from offset 0 is the whole file (`WholeText`). `PromiseInv`
follows the file to the next start. `SurprisedInv`, that a call under way beside a session
was there before it, is what the second theorem needs.

**Inventory.** The types are strengthened by the shapes of the records and by `KnownInv`:
lists, rows and calls speak of certificates that exist, so that what is said of one stays
true (`Remains`). `IssuedInv` is what acceptance leaves: a certificate of OpenBao has its key,
its owner's identity in the subject and no name beside those of the request. `LinkInv` ties a
busy button to the call that was made by it, without which the end of a call could give a
row back a button it never had. `LocalInv` and `HomeInv` then carry two facts from the
rendering of a row to the last command of its call: that a local removal was offered to a
stranger, and that a revocation goes to the issuer. Only the latter needs
`ClaimsTellMountsApart`, which the profiles of the run `inventory` satisfy and those of
`inventory_mount` do not. That a set of matches has a first member is taken from the
library's theorem on well-founded orders.

**Page.** Four invariants beside the types. `Fresh`: either a read of the session is certain to
come (`ReadComing`: of an event, of a refresh not yet answered, or of the return of a call that
may have changed the session), or the answer given last, on its way or shown, is the session
that is there, but for what the property excepts. It is what the order of the code's steps rests
on: the session changes before its event is sent and before the call is answered, and a
handler asks for its refresh in the stretch in which it returns. `CleanInv`: a clean login that
may still run is the only one that does, the button shows it, and no cancellation has been answered
whose handler is still to clear the button; the last is what another login, begun too early, loses.
`LabelInv`: the button is wrong only while an answer is awaited that will render it.
`SessionInv`: the session is that of a login that has been answered, so that the success of a
login is `SignIn` of a fresh token; every other step keeps the session or drops it
(`Retiring`), which is `Retire`.

*Model-checked only:* the liveness properties, which are out of the prover's reach (`AttemptsEnd`
and the renewal loop's in `Session`, `LabelSettles` in `Page`), and the four violations, which
are no theorems. Every invariant and every action property that a passing run checks is proved.

## 7. Where the code does not do what is said of it

Each is a run that TLC ends with a behaviour of the code; `PROJECT.json` quotes the
sentence and the lines.

* `session_uncancellable`: when a cancelled login returns, it clears the cancel slot of the
  login that was started since, which nothing can cancel any more.
* `yubikey_stale_row`: a button removes what is in the slot and revokes what its row showed. After
  a re-request these differ until the slot is listed again: for the seconds the listing takes, or,
  if the request failed although its import had taken effect, until the user refreshes. The
  new certificate then leaves the slot unrevoked. `UnrevokedRemovalsAreByOldRows`, which is
  proved, says that without overlapping calls this is the only way.
* `enrollment_leftover`: a CSR that cannot be read back leaves its key container behind.
* `inventory_mount`: the page takes the mount of the first profile that matches a
  certificate by name, without looking at its EKUs. In `deployment.example.json` every
  profile has the subject claim `email`, so each certificate of a user is revoked at the mount
  of the first profile. OpenBao refuses, as the endpoint is scoped at the mount, and the
  certificate can be neither revoked nor removed from the page. *Re-request* on a YubiKey takes
  the first match in the same way, and so may ask for a certificate of another profile.

Other things the models show, which the properties name as their exceptions:

* A login that is cancelled while its poll is under way still signs its user in:
  `poll_oidc` is awaited inside the taken branch of `select!` (`docs/SECURITY.md:19`: polls
  "support cancellation").
* A cancellation that reaches the backend before its login stops nothing, and leaves it
  running behind a button that says "Sign in" (`CleanLoginsCanBeCancelled`).
* An expired session is dropped only when a command reads it, and without an event, so that an
  idle client keeps it and its page goes on showing it (`QuietPageIsRight`;
  `docs/TESTING.md:64` expects the local session to be cleared).
* An older answer of `get_app_status` may replace a newer one for good (`QuietPageIsRight`).
* Two requests that overlap may both install a certificate without a confirmed replacement
  (`TwinsComeFromOverlaps` allows no others). The page disables a button while its request
  runs, so this takes a page that was rendered again meanwhile, which its refresh does; the
  backend does not exclude it. On a YubiKey, where each profile has a button of its own for any
  slot, the requests of two profiles may both find the slot empty, and one overwrite or delete the
  key of the other's certificate, and a removal that overlaps a
  re-request revokes the certificate of its row and deletes the one in the slot.
* A failed look counts as "not there": a key whose `keys info` fails with such a text, or a
  certificate whose export fails, is overwritten by an ordinary request (the exceptions of
  `KeysAreNeverOverwritten` and `CertificatesAreReplacedOnRequest`), `remove_root` reports success
  without having removed anything, and a rival root is no conflict.
* An import that reports a failure may have written its certificate, whose key is then deleted.
* Server settings are written after the lock was released that excluded a login; a login that
  begins then runs beside the write.
* A renewed lease may be written into a later session of the same user, whose token is another.
* A row that was rendered while someone else was signed in lets an expired certificate be
  removed unrevoked (`UnrevokedRemovalsAreOfStrangers`).
* The chain walk is greedy: with cross-signed issuers it may refuse a certificate that has a
  path to an embedded root, which is why `AnchoredChainsAreAccepted` asks for unambiguous issuers.

## 8. Not modelled

* What other programs do to the Windows stores and the YubiKey.
* More than one slot or YubiKey at a time, and more than one profile in `Enrollment`: the
  calls for different ones share nothing but the session. Several profiles are in `Inventory`.
* The content of certificates beyond names, keys, EKUs, key usage and validity as an outcome;
  parsing of PowerShell and `ykman` output; the form of serial numbers.
* The request forms of the page: `Enrollment` and `YubiKeySlot` allow every call they can make.
  The row of a YubiKey slot has the buttons of a certificate that the page lets the user manage;
  which certificates these are, and at which mount they are revoked, is decided as in `Inventory`.
  Sessions are not in `YubiKeySlot`: that a call has none is one of its failures.
* That `certreq -accept` reports a failure after it has installed the certificate: the outcomes
  of `Accept` and `AcceptFails` are told apart by its status.
* A session in a process that crashes: it was in memory only, so a restart is the initial
  state with more tokens left to expire at OpenBao.
* The checks of `config.rs` on ids, segments, claims, fingerprints and addresses: each looks
  at one string of an embedded constant, at start, and no state depends on the order.
* `redaction.rs` and `error.rs`: scans of one string, about exactly the text that the models
  leave out.
* Window handling, and everything outside the program (lab, scripts, policies, CI).
* Wording, logging, URL and JSON encoding.

## 9. Plan

Done, in this order: `SignIns` and `Session` with their proofs, `Enrollment`,
`YubiKeySlot`, `RootTrust` with proofs, `ChainValidation` with proofs, `Settings`, `Page`,
`Inventory`, and the proofs about `Enrollment`, `YubiKeySlot`, `Settings`, `Inventory` and
`Page`.
What is left is small: a run for `ImplementsSignIns` of `Page` beside its theorem.
