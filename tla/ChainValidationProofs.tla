----------------------- MODULE ChainValidationProofs -----------------------
(***************************************************************************)
(* Proofs about ChainValidation, for chains of any length.                 *)
(***************************************************************************)
EXTENDS ChainValidation, FiniteSetTheorems, SequenceTheorems, TLAPS

\* A chain is a sequence of entries.
LEMMA ChainShape ==
  ASSUME chain \in Chains
  PROVE  /\ Len(chain) \in Nat
         /\ DOMAIN chain = 1..Len(chain)
         /\ \A i \in DOMAIN chain : chain[i] \in Certificates \cup {Unreadable}
<1>1. PICK n \in 0..MaxEntries : chain \in [1..n -> Certificates \cup {Unreadable}]
  BY DEF Chains
<1>2. chain \in Seq(Certificates \cup {Unreadable})
  BY <1>1
<1> QED BY <1>2

LEMMA ChainIsFinite ==
  ASSUME TypeOK
  PROVE  /\ IsFiniteSet(DOMAIN chain)
         /\ Cardinality(DOMAIN chain) = Len(chain)
<1>1. Len(chain) \in Nat /\ DOMAIN chain = 1..Len(chain)
  BY ChainShape DEF TypeOK
<1> DEFINE n == Len(chain)
<1>3. n \in Nat
  BY <1>1
<1>2. IsFiniteSet(1..n) /\ Cardinality(1..n) = n
  <2> HIDE DEF n
  <2>1. IsFiniteSet(1..n) /\ Cardinality(1..n) = IF 1 > n THEN 0 ELSE n - 1 + 1
    BY <1>3, FS_Interval
  <2> QED BY <1>3, <2>1
<1> QED BY <1>1, <1>2

\* The walk so far: the path leads from the leaf to `current', over entries that
\* were visited, and each turn has visited one entry more.
WalkInv ==
  /\ IsPath(path)
  /\ \A j \in 1..Len(path) : path[j] \in visited
  /\ outcome # "trusted" => current = Child(path, Len(path) + 1)

TurnInv == Cardinality(visited) = turn - 1 /\ outcome # "loop"

AnchorInv ==
  outcome = "trusted" =>
    \E r \in DOMAIN chain : /\ chain[r] \in Certificates
                            /\ IsAnchor(chain[r])
                            /\ Issued(chain[r], Child(path, Len(path) + 1))

Inv == TypeOK /\ WalkInv /\ TurnInv /\ AnchorInv

LEMMA InvInit == Init => Inv
<1> SUFFICES ASSUME Init PROVE Inv
  OBVIOUS
<1>1. TypeOK
  BY DEF Init, TypeOK
<1>2. WalkInv
  BY DEF Init, WalkInv, IsPath, Child
<1>3. TurnInv
  BY FS_EmptySet DEF Init, TurnInv
<1> QED BY <1>1, <1>2, <1>3 DEF Inv, AnchorInv, Init

\* What every step that takes an entry has in common.
LEMMA Taken ==
  ASSUME Inv, NEW i \in DOMAIN chain, Take(i)
  PROVE  /\ i \notin visited /\ chain[i] \in Certificates /\ Issued(chain[i], current)
         /\ visited' \in SUBSET (DOMAIN chain)
         /\ turn' \in Nat \ {0} /\ turn' = turn + 1
         /\ Cardinality(visited') = turn' - 1
         /\ outcome = "running"
<1>1. /\ i \notin visited /\ chain[i] \in Certificates /\ Issued(chain[i], current)
      /\ outcome = "running"
  BY ChainShape DEF Take, InLoop, Candidates, Inv, TypeOK
<1>2. IsFiniteSet(visited)
  BY ChainIsFinite, FS_Subset DEF Inv, TypeOK
<1>3. Cardinality(visited') = Cardinality(visited) + 1
  BY <1>1, <1>2, FS_AddElement DEF Take
<1> QED BY <1>1, <1>3 DEF Take, Inv, TypeOK, TurnInv

LEMMA IntermediateStep ==
  ASSUME Inv, NEW i \in DOMAIN chain, TakeIntermediate(i)
  PROVE  Inv'
<1>1. Take(i) /\ path' = Append(path, i) /\ current' = chain[i] /\ ~SelfIssued(chain[i])
        /\ UNCHANGED <<leaf, chain, outcome>> /\ visited' = visited \cup {i}
  BY DEF TakeIntermediate, Take
<1>0. path \in Seq(Nat \ {0}) /\ chain \in Chains
  BY DEF Inv, TypeOK
<1>2. path \in Seq(Nat \ {0}) /\ Len(path) \in Nat
  BY <1>0, LenProperties
<1>8. i \in Nat \ {0}
  <2>1. Len(chain) \in Nat /\ DOMAIN chain = 1..Len(chain)
    BY <1>0, ChainShape
  <2> QED BY <2>1
<1>9. path' \in Seq(Nat \ {0})
  BY <1>1, <1>2, <1>8, AppendProperties
<1>3. TypeOK'
  BY <1>1, <1>9, Taken DEF Inv, TypeOK
<1>4. /\ Len(path') = Len(path) + 1
      /\ path'[Len(path) + 1] = i
      /\ \A j \in 1..Len(path) : path'[j] = path[j]
  BY <1>1, <1>2, <1>8, AppendProperties
<1>5. WalkInv'
  <2>1. \A j \in 1..Len(path) : Child(path', j) = Child(path, j)
    BY <1>1, <1>2, <1>4 DEF Child
  <2>2. Child(path', Len(path) + 1) = Child(path, Len(path) + 1)
    BY <1>1, <1>2, <1>4 DEF Child
  <2>3. current = Child(path, Len(path) + 1)
    BY <1>1, Taken DEF Inv, WalkInv
  <2>4. IsPath(path)'
    <3>1. ASSUME NEW j \in 1..Len(path')
          PROVE  /\ chain[path'[j]] \in Certificates
                 /\ ~SelfIssued(chain[path'[j]])
                 /\ Issued(chain[path'[j]], Child(path', j))
                 /\ \A k \in 1..(j - 1) : path'[k] # path'[j]
      <4>1. CASE j = Len(path) + 1
        <5>1. \A k \in 1..Len(path) : path[k] # i
          BY <1>1, Taken DEF Inv, WalkInv
        <5>2. Issued(chain[i], Child(path', j)) /\ chain[i] \in Certificates
          BY <1>1, <2>2, <2>3, <4>1, Taken
        <5> QED BY <1>1, <1>2, <1>4, <4>1, <5>1, <5>2
      <4>2. CASE j # Len(path) + 1
        <5>1. j \in 1..Len(path) /\ \A k \in 1..(j - 1) : k \in 1..Len(path)
          BY <1>2, <1>4, <4>2
        <5>2. /\ chain[path[j]] \in Certificates
              /\ ~SelfIssued(chain[path[j]])
              /\ Issued(chain[path[j]], Child(path, j))
              /\ \A k \in 1..(j - 1) : path[k] # path[j]
          BY <5>1 DEF Inv, WalkInv, IsPath
        <5> QED BY <1>4, <2>1, <5>1, <5>2
      <4> QED BY <4>1, <4>2
    <3>2. \A j \in 1..Len(path') : Child(path, j)' = Child(path', j)
      BY <1>1 DEF Child
    <3> QED BY <1>1, <3>1, <3>2 DEF IsPath
  <2>5. \A j \in 1..Len(path') : path'[j] \in visited'
    BY <1>1, <1>2, <1>4 DEF Inv, WalkInv
  <2>6. current' = Child(path, Len(path) + 1)'
    <3>1. Len(path') + 1 # 1 /\ (Len(path') + 1) - 1 = Len(path) + 1
      BY <1>2, <1>4
    <3> QED BY <1>1, <1>4, <3>1 DEF Child
  <2> QED BY <2>4, <2>5, <2>6 DEF WalkInv
<1>6. TurnInv'
  BY <1>1, Taken DEF TurnInv, Inv
<1>7. AnchorInv'
  BY <1>1, Taken DEF AnchorInv
<1> QED BY <1>3, <1>5, <1>6, <1>7 DEF Inv

LEMMA RootStep ==
  ASSUME Inv, NEW i \in DOMAIN chain, TakeRoot(i)
  PROVE  Inv'
<1>1. /\ Take(i) /\ UNCHANGED <<leaf, chain, current, path>>
      /\ visited' = visited \cup {i}
      /\ outcome' = IF IsAnchor(chain[i]) THEN "trusted" ELSE "untrusted root"
  BY DEF TakeRoot, Take
<1>2. TypeOK'
  BY <1>1, Taken DEF Inv, TypeOK
<1>3. current = Child(path, Len(path) + 1)
  BY <1>1, Taken DEF Inv, WalkInv
<1>4. WalkInv'
  BY <1>1, <1>3 DEF Inv, WalkInv, IsPath, Child
<1>5. TurnInv'
  BY <1>1, Taken DEF TurnInv
<1>6. AnchorInv'
  BY <1>1, <1>3, Taken DEF AnchorInv, Child
<1> QED BY <1>2, <1>4, <1>5, <1>6 DEF Inv

\* The loop never runs out of turns: when all entries are visited there is no
\* candidate left, and the turn before has said so.
LEMMA StopStep ==
  ASSUME Inv, Stop
  PROVE  Inv'
<1>1. outcome = "running" /\ UNCHANGED <<leaf, chain, current, visited, path, turn>>
        /\ outcome' = IF InLoop THEN "no issuer" ELSE "loop"
  BY DEF Stop
<1>2. InLoop
  <2>1. chain \in Chains /\ turn \in Nat
    BY DEF Inv, TypeOK
  <2>2. Len(chain) \in Nat
    BY <2>1, ChainShape
  <2>3. Cardinality(visited) <= Len(chain)
    BY ChainIsFinite, FS_Subset DEF Inv, TypeOK
  <2>4. turn - 1 <= Len(chain)
    BY <2>3 DEF Inv, TurnInv
  <2>5. turn <= Len(chain) + 1
    BY <2>1, <2>2, <2>4
  <2> QED BY <1>1, <2>5 DEF InLoop
<1>3. outcome' = "no issuer"
  BY <1>1, <1>2
<1> QED BY <1>1, <1>3 DEF Inv, TypeOK, WalkInv, IsPath, Child, TurnInv, AnchorInv

LEMMA InvStep == Inv /\ [Next]_vars => Inv'
<1> SUFFICES ASSUME Inv, [Next]_vars PROVE Inv'
  OBVIOUS
<1>1. CASE UNCHANGED vars
  BY <1>1 DEF vars, Inv, TypeOK, WalkInv, IsPath, Child, TurnInv, AnchorInv, IsAnchor
<1> QED BY <1>1, IntermediateStep, RootStep, StopStep DEF Next

\* The walk's variables keep their shape.
THEOREM TypeCorrect == Spec => []TypeOK
<1>1. Inv => TypeOK
  BY DEF Inv
<1> QED BY <1>1, InvInit, InvStep, PTL DEF Spec

\* A chain that is accepted leads from the leaf to an embedded root, and what is
\* staged for the store of intermediate CAs is that path and nothing else.
THEOREM Anchors == Spec => []AcceptedChainsAreAnchored
<1>1. Inv => AcceptedChainsAreAnchored
  BY DEF Inv, WalkInv, AnchorInv, AcceptedChainsAreAnchored
<1> QED BY <1>1, InvInit, InvStep, PTL DEF Spec

\* The error "the signed certificate chain contains a loop" is never returned.
THEOREM NoLoop == Spec => []LoopIsNeverReported
<1>1. Inv => LoopIsNeverReported
  BY DEF Inv, TurnInv, LoopIsNeverReported
<1> QED BY <1>1, InvInit, InvStep, PTL DEF Spec
-----------------------------------------------------------------------------
(***************************************************************************)
(* What is refused                                                         *)
(***************************************************************************)

\* While the walk has not come to a self-issued certificate it has used the entries of
\* its path and no other; and it ends for the reason that it gives.
SearchInv ==
  /\ outcome \in {"running", "no issuer"} => \A i \in visited : \E j \in 1..Len(path) : path[j] = i
  /\ outcome = "no issuer" => Issuers(current) \subseteq visited
  /\ outcome = "untrusted root" =>
       \E r \in Issuers(current) : SelfIssued(chain[r]) /\ ~IsAnchor(chain[r])

LEMMA SearchStep == Inv /\ SearchInv /\ [Next]_vars => SearchInv'
<1> SUFFICES ASSUME Inv, SearchInv, [Next]_vars PROVE SearchInv'
  OBVIOUS
<1>1. ASSUME NEW i \in DOMAIN chain, TakeIntermediate(i) PROVE SearchInv'
  <2>1. /\ path' = Append(path, i) /\ visited' = visited \cup {i}
        /\ outcome = "running" /\ outcome' = "running"
    BY <1>1, Taken DEF TakeIntermediate, Take
  <2>2. path \in Seq(Nat \ {0}) /\ Len(path) \in Nat
    BY LenProperties DEF Inv, TypeOK
  <2>3. i \in Nat \ {0}
    <3>1. Len(chain) \in Nat /\ DOMAIN chain = 1..Len(chain)
      BY ChainShape DEF Inv, TypeOK
    <3> QED BY <3>1
  <2>4. /\ Len(path') = Len(path) + 1
        /\ path'[Len(path) + 1] = i
        /\ \A j \in 1..Len(path) : path'[j] = path[j]
    BY <2>1, <2>2, <2>3, AppendProperties
  <2>5. ASSUME NEW v \in visited' PROVE \E j \in 1..Len(path') : path'[j] = v
    <3>1. CASE v = i
      BY <2>2, <2>4, <3>1
    <3>2. CASE v # i
      <4>1. PICK j \in 1..Len(path) : path[j] = v
        BY <2>1, <3>2 DEF SearchInv
      <4> QED BY <2>2, <2>4, <4>1
    <3> QED BY <3>1, <3>2
  <2> QED BY <2>1, <2>5 DEF SearchInv
<1>2. ASSUME NEW i \in DOMAIN chain, TakeRoot(i) PROVE SearchInv'
  <2>1. /\ Take(i) /\ SelfIssued(chain[i]) /\ UNCHANGED <<chain, current>>
        /\ outcome' = IF IsAnchor(chain[i]) THEN "trusted" ELSE "untrusted root"
    BY <1>2 DEF TakeRoot, Take
  <2>2. i \in Issuers(current)
    BY <2>1, Taken, UnreadableIsNoCertificate DEF Issuers, Readable
  <2>3. (i \in Issuers(current))' /\ SelfIssued(chain'[i])
    BY <2>1, <2>2 DEF Issuers, Readable
  <2> QED BY <2>1, <2>3 DEF SearchInv, IsAnchor
<1>3. CASE Stop
  <2>1. /\ outcome = "running" /\ UNCHANGED <<chain, current, visited, path>>
        /\ outcome' \in {"no issuer", "loop"}
        /\ outcome' = "no issuer" => Candidates = {}
    BY <1>3 DEF Stop
  <2>2. outcome' = "no issuer" => Issuers(current) \subseteq visited
    BY <2>1 DEF Candidates, Issuers, Readable
  <2>3. Issuers(current)' = Issuers(current)
    BY <2>1 DEF Issuers, Readable
  <2> QED BY <2>1, <2>2, <2>3 DEF SearchInv
<1>4. CASE UNCHANGED vars
  BY <1>4 DEF vars, SearchInv, Issuers, Readable, IsAnchor
<1> QED BY <1>1, <1>2, <1>3, <1>4 DEF Next

\* The certificates whose issuers were looked for, with the one the walk stopped at.
Sought == {Child(path, j) : j \in 1..(Len(path) + 1)}

LEMMA Places ==
  ASSUME NEW n \in Nat
  PROVE  /\ 1 \in 1..(n + 1)
         /\ \A j \in 1..n : j + 1 \in 1..(n + 1) /\ j + 1 # 1 /\ (j + 1) - 1 = j
         /\ \A j \in 1..(n + 1) : j # 1 => j - 1 \in 1..n
         /\ \A j \in 1..(n + 1) : j \in 1..n \/ j = n + 1
  OBVIOUS

\* The issuers of these are a set that the leaf's issuers lead not out of, and none of
\* them is an embedded root.
LEMMA SearchIsClosed ==
  ASSUME Inv, SearchInv, Unambiguous, outcome \in {"untrusted root", "no issuer"}
  PROVE  \E X \in SUBSET Readable : Closed(X) /\ \A i \in X : ~IsAnchor(chain[i])
<1> DEFINE X == UNION {Issuers(cert) : cert \in Sought}
<1>1. path \in Seq(Nat \ {0}) /\ Len(path) \in Nat
  BY LenProperties DEF Inv, TypeOK
<1>2. ASSUME NEW j \in 1..Len(path)
      PROVE  /\ path[j] \in Issuers(Child(path, j)) /\ ~SelfIssued(chain[path[j]])
             /\ chain[path[j]] = Child(path, j + 1) /\ Child(path, j + 1) \in Sought
  <2>1. /\ chain[path[j]] \in Certificates /\ ~SelfIssued(chain[path[j]])
        /\ Issued(chain[path[j]], Child(path, j)) /\ path[j] \in DOMAIN chain
    BY DEF Inv, TypeOK, WalkInv, IsPath
  <2>2. path[j] \in Issuers(Child(path, j))
    BY <2>1, UnreadableIsNoCertificate DEF Issuers, Readable
  <2>3. j + 1 \in 1..(Len(path) + 1) /\ j + 1 # 1 /\ (j + 1) - 1 = j
    BY <1>1, Places
  <2>4. chain[path[j]] = Child(path, j + 1)
    BY <2>3 DEF Child
  <2> QED BY <2>1, <2>2, <2>3, <2>4 DEF Sought
<1>3. ASSUME NEW cert \in Sought, NEW i \in Issuers(cert), NEW k \in Issuers(cert)
      PROVE  chain[i] = chain[k]
  <2>1. PICK j \in 1..(Len(path) + 1) : cert = Child(path, j)
    BY DEF Sought
  <2>2. CASE j = 1
    BY <2>1, <2>2 DEF Child, Unambiguous
  <2>3. CASE j # 1
    <3>1. j - 1 \in 1..Len(path) /\ cert = chain[path[j - 1]]
      BY <1>1, <2>1, <2>3, Places DEF Child
    <3>2. path[j - 1] \in Readable
      BY <1>2, <3>1 DEF Issuers
    <3> QED BY <3>1, <3>2 DEF Unambiguous
  <2> QED BY <2>2, <2>3
\* An issuer is like an entry of the path, or like the root the walk has refused.
<1>4. ASSUME NEW cert \in Sought, NEW i \in Issuers(cert)
      PROVE  \/ \E j \in 1..Len(path) : chain[i] = chain[path[j]]
             \/ SelfIssued(chain[i]) /\ ~IsAnchor(chain[i])
  <2>1. PICK j \in 1..(Len(path) + 1) : cert = Child(path, j)
    BY DEF Sought
  <2>2. CASE j \in 1..Len(path)
    BY <1>2, <1>3, <2>1, <2>2
  <2>3. CASE j = Len(path) + 1
    <3>1. cert = current
      BY <2>1, <2>3 DEF Inv, WalkInv
    <3>2. CASE outcome = "no issuer"
      <4>1. i \in visited
        BY <3>1, <3>2 DEF SearchInv
      <4> QED BY <3>2, <4>1 DEF SearchInv
    <3>3. CASE outcome = "untrusted root"
      <4>1. PICK r \in Issuers(current) : SelfIssued(chain[r]) /\ ~IsAnchor(chain[r])
        BY <3>3 DEF SearchInv
      <4> QED BY <1>3, <3>1, <4>1
    <3> QED BY <3>2, <3>3
  <2> QED BY <1>1, <2>2, <2>3, Places
<1>5. ASSUME NEW i \in X PROVE ~IsAnchor(chain[i])
  <2>1. PICK cert \in Sought : i \in Issuers(cert)
    OBVIOUS
  <2>2. CASE \E j \in 1..Len(path) : chain[i] = chain[path[j]]
    BY <1>2, <2>2 DEF IsAnchor
  <2> QED BY <1>4, <2>1, <2>2
<1>6. ASSUME NEW i \in X, ~SelfIssued(chain[i]) PROVE Issuers(chain[i]) \subseteq X
  <2>1. PICK j \in 1..Len(path) : chain[i] = chain[path[j]]
    BY <1>4, <1>6
  <2> QED BY <1>2, <2>1
<1>7. Issuers(leaf) \subseteq X
  <2>1. leaf \in Sought
    BY <1>1, Places DEF Sought, Child
  <2> QED BY <2>1
<1>8. X \in SUBSET Readable
  BY DEF Issuers
<1> HIDE DEF X
<1> QED BY <1>5, <1>6, <1>7, <1>8 DEF Closed

\* Where no certificate is cross-signed, the walk refuses a certificate only if none of
\* the paths through the chain leads from it to an embedded root.
THEOREM AnchoredAccepted == Spec => []AnchoredChainsAreAccepted
<1>1. Init => SearchInv
  BY DEF Init, SearchInv
<1>2. Inv /\ SearchInv => AnchoredChainsAreAccepted
  BY SearchIsClosed DEF Inv, TurnInv, AnchoredChainsAreAccepted, Anchored, Reached
<1> QED BY <1>1, <1>2, InvInit, InvStep, SearchStep, PTL DEF Spec
=============================================================================
