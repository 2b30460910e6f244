-------------------------- MODULE ChainValidation --------------------------
(***************************************************************************)
(* validate_chain (certificates.rs): from the certificate OpenBao signed,  *)
(* through the certificates that came with it, to an embedded root.  A     *)
(* step is a turn of its loop.  A certificate is what the walk looks at:   *)
(* two names, the key it is for and the key that signed it.                *)
(***************************************************************************)
EXTENDS Naturals, Sequences, FiniteSets

CONSTANTS
  Names, Keys,
  TrustedRoots,   \* the certificates with the embedded fingerprints
  Unreadable,     \* an entry that is PEM but no X.509 certificate
  MaxEntries      \* bound on the entries of a chain

Certificates == [subject : Names, issuer : Names, key : Keys, signer : Keys]

ASSUME UnreadableIsNoCertificate == Unreadable \notin Certificates
ASSUME MaxEntriesType == MaxEntries \in Nat

VARIABLES
  leaf,      \* the certificate to validate
  chain,     \* `entries': the chain as OpenBao and the configuration give it
  current,   \* the certificate whose issuer is looked for
  visited,   \* the entries that were used
  path,      \* `intermediates', as entries
  turn,      \* turns of the loop begun so far
  outcome

vars == <<leaf, chain, current, visited, path, turn, outcome>>

Chains == UNION {[1..n -> Certificates \cup {Unreadable}] : n \in 0..MaxEntries}

Init ==
  /\ leaf \in Certificates
  /\ chain \in Chains
  /\ current = leaf
  /\ visited = {} /\ path = <<>> /\ turn = 1
  /\ outcome = "running"

Issued(parent, child) == child.issuer = parent.subject /\ child.signer = parent.key
SelfIssued(cert) == cert.subject = cert.issuer
IsAnchor(cert) == SelfIssued(cert) /\ cert \in TrustedRoots /\ cert.signer = cert.key

\* Variants: names are compared, signatures are not; the first unreadable entry
\* ends the search.
CandidatesByName ==
  {i \in DOMAIN chain \ visited : chain[i] # Unreadable /\ chain[i].subject = current.issuer}

CandidatesUpToUnreadable ==
  {i \in DOMAIN chain \ visited :
     (\A j \in 1..i : chain[j] # Unreadable) /\ Issued(chain[i], current)}

Candidates ==
  {i \in DOMAIN chain \ visited : chain[i] # Unreadable /\ Issued(chain[i], current)}

\* Variant: as many turns as there are entries.
InLoopOneShort == outcome = "running" /\ turn <= Len(chain)

\* The loop runs at most once more than there are entries.
InLoop == outcome = "running" /\ turn <= Len(chain) + 1

\* The first entry that could have issued `current' is taken, and no other is
\* tried later.
Take(i) ==
  /\ InLoop
  /\ i \in Candidates /\ \A j \in Candidates : i <= j
  /\ visited' = visited \cup {i}
  /\ turn' = turn + 1
  /\ UNCHANGED <<leaf, chain>>

\* Variant: entries are counted from zero.
TakeIntermediateFromZero(i) ==
  /\ Take(i)
  /\ ~SelfIssued(chain[i])
  /\ path' = Append(path, i - 1)
  /\ current' = chain[i]
  /\ UNCHANGED outcome

TakeIntermediate(i) ==
  /\ Take(i)
  /\ ~SelfIssued(chain[i])
  /\ path' = Append(path, i)
  /\ current' = chain[i]
  /\ UNCHANGED outcome

\* The walk ends at the first self-issued certificate.
TakeRoot(i) ==
  /\ Take(i)
  /\ SelfIssued(chain[i])
  /\ outcome' = IF IsAnchor(chain[i]) THEN "trusted" ELSE "untrusted root"
  /\ UNCHANGED <<current, path>>

\* No entry issued `current', or the loop ran out of turns.
Stop ==
  /\ outcome = "running"
  /\ InLoop => Candidates = {}
  /\ outcome' = IF InLoop THEN "no issuer" ELSE "loop"
  /\ UNCHANGED <<leaf, chain, current, visited, path, turn>>

Next == \/ \E i \in DOMAIN chain : TakeIntermediate(i) \/ TakeRoot(i)
        \/ Stop

Spec == Init /\ [][Next]_vars

(***************************************************************************)
(* Properties                                                              *)
(***************************************************************************)

\* The walk's variables keep their shape.
TypeOK ==
  /\ leaf \in Certificates
  /\ chain \in Chains
  /\ current \in Certificates
  /\ visited \in SUBSET (DOMAIN chain)
  /\ path \in Seq(Nat \ {0})
  /\ turn \in Nat \ {0}
  /\ outcome \in {"running", "trusted", "untrusted root", "no issuer", "loop"}

\* A path through the chain: each entry issued the one before it, the first one
\* the leaf; none is used twice, and none is self-issued.
Child(p, j) == IF j = 1 THEN leaf ELSE chain[p[j - 1]]
IsPath(p) == \A j \in 1..Len(p) :
  /\ chain[p[j]] \in Certificates
  /\ ~SelfIssued(chain[p[j]])
  /\ Issued(chain[p[j]], Child(p, j))
  /\ \A k \in 1..(j - 1) : p[k] # p[j]

\* What is accepted is a path from the leaf to an embedded root, and the path is
\* exactly what goes to the store of intermediate CAs: no root, nothing unrelated.
AcceptedChainsAreAnchored ==
  outcome = "trusted" =>
    /\ IsPath(path)
    /\ \E r \in DOMAIN chain : /\ chain[r] \in Certificates
                               /\ IsAnchor(chain[r])
                               /\ Issued(chain[r], Child(path, Len(path) + 1))

\* The turns suffice: whatever loops the chain has, entries are used up first.
LoopIsNeverReported == outcome # "loop"

\* The entries that are reached from the leaf, without going on from a self-issued
\* one: those that no set leaves out which has the issuers of the leaf and, with an
\* entry to go on from, that entry's issuers.
Readable == {i \in DOMAIN chain : chain[i] # Unreadable}
Issuers(cert) == {i \in Readable : Issued(chain[i], cert)}
Closed(X) == /\ Issuers(leaf) \subseteq X
             /\ \A i \in X : ~SelfIssued(chain[i]) => Issuers(chain[i]) \subseteq X
Reached == {i \in Readable : \A X \in SUBSET Readable : Closed(X) => i \in X}
Anchored == \E i \in Reached : IsAnchor(chain[i])

\* Names and keys identify the issuers: there is no cross-signed certificate.
Unambiguous ==
  \A cert \in {leaf} \cup {chain[i] : i \in Readable} :
    \A i, j \in Issuers(cert) : chain[i] = chain[j]

\* Where issuers are unambiguous, a certificate that has a path to an embedded root
\* is accepted, in whatever order and with whatever else the chain is given.
AnchoredChainsAreAccepted ==
  outcome \in {"untrusted root", "no issuer", "loop"} /\ Unambiguous => ~Anchored
=============================================================================
