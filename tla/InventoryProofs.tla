-------------------------- MODULE InventoryProofs --------------------------
(***************************************************************************)
(* Proofs about Inventory, for any users, claims, profiles and             *)
(* certificates, and any number of removals.                               *)
(***************************************************************************)
EXTENDS Inventory, FiniteSetTheorems, WellFoundedInduction, TLAPS

(***************************************************************************)
(* Profiles and mounts                                                     *)
(***************************************************************************)

LEMMA MinIsThere ==
  ASSUME NEW S \in SUBSET Nat, S # {} PROVE Min(S) \in S
<1>1. PICK x \in S : \A y \in S : ~ (<<y, x>> \in OpToRel(<, Nat))
  BY WFMin, NatLessThanWellFounded
<1>2. \A y \in S : x =< y
  <2>1. \A y \in S : ~(y < x)
    BY <1>1 DEF OpToRel
  <2> QED BY <2>1
<1> QED BY <1>2 DEF Min

LEMMA FirstMatch ==
  ASSUME NEW c, NEW u, Matches(c, u) # {}
  PROVE  Min(Matches(c, u)) \in Matches(c, u) /\ Min(Matches(c, u)) \in ProfileIds
<1>1. Matches(c, u) \subseteq ProfileIds /\ ProfileIds \subseteq Nat
  BY ProfilesAreASequence DEF Matches
<1> QED BY <1>1, MinIsThere

\* If there is one mount, it is that of the first profile.
LEMMA OnlyMount ==
  ASSUME Cardinality(Mounts) = 1
  PROVE  Mounts = {Profiles[1].mount}
<1>1. IsFiniteSet(Mounts)
  <2> DEFINE f == [i \in ProfileIds |-> Profiles[i].mount]
  <2>1. f \in Surjection(ProfileIds, Mounts)
    BY DEF Surjection, Mounts
  <2>2. IsFiniteSet(ProfileIds)
    BY ProfilesAreASequence, FS_Interval
  <2> HIDE DEF f
  <2> QED BY <2>1, <2>2, FS_Surjection
<1>2. PICK m : Mounts = {m}
  BY <1>1, FS_Singleton
<1>3. 1 \in ProfileIds
  <2>1. PICK i \in ProfileIds : TRUE
    BY <1>2 DEF Mounts
  <2> QED BY <2>1, ProfilesAreASequence
<1> QED BY <1>2, <1>3 DEF Mounts

LEMMA MountForType == \A c, u : MountFor(c, u) \in Mounts \cup {NoMount}
<1> SUFFICES ASSUME NEW c, NEW u PROVE MountFor(c, u) \in Mounts \cup {NoMount}
  OBVIOUS
<1>1. CASE Matches(c, u) # {}
  BY <1>1, FirstMatch DEF MountFor, Mounts
<1>2. CASE Matches(c, u) = {}
  BY <1>2, OnlyMount DEF MountFor
<1> QED BY <1>1, <1>2

\* What a rendered row says.
LEMMA RowFields ==
  ASSUME NEW s, NEW u
  PROVE  /\ RowOf(s, u) = [button |-> RowOf(s, u).button, mount |-> RowOf(s, u).mount,
                           shownTo |-> RowOf(s, u).shownTo]
         /\ RowOf(s, u).mount = MountFor(cert[s], u) /\ RowOf(s, u).shownTo = u
         /\ RowOf(s, u).button \in {"none", "local", "disabled", "revoke"}
         /\ RowOf(s, u).button = "local" => s \in expired /\ ~Manageable(cert[s], u)
         /\ RowOf(s, u).button = "revoke" => u # Nobody /\ MountFor(cert[s], u) # NoMount
  BY DEF RowOf

(***************************************************************************)
(* Types                                                                   *)
(***************************************************************************)

Known == {s \in Serials : cert[s] # Unissued}

CertTypes ==
  /\ user \in Users \cup {Nobody} /\ status \in Users \cup {Nobody}
  /\ \A s \in Serials : cert[s] = Unissued \/ cert[s].mount \in Mounts \cup {NoMount}
  /\ store \in SUBSET {s \in Serials : cert[s] # Unissued}
  /\ expired \in SUBSET Serials /\ revoked \in SUBSET Serials
  /\ listing \in (SUBSET Serials) \cup {Unlisted}
RowTypes ==
  \A s \in Serials :
    /\ rows[s].button \in {"none", "local", "disabled", "revoke"} \cup Removals
    /\ rows[s].mount \in Mounts \cup {NoMount} /\ rows[s].shownTo \in Users \cup {Nobody}
CallTypes ==
  \A r \in Removals : removal[r] # Idle =>
    /\ removal[r].at \in {"revoke", "delete"} /\ removal[r].serial \in Serials
    /\ removal[r].button \in {"revoke", "local"}
    /\ removal[r].at = "revoke" => removal[r].mount \in Mounts /\ removal[r].button = "revoke"

\* The functions are functions, and the records are records.
CertShape == cert = [s \in Serials |-> cert[s]]
RowShape ==
  /\ rows = [s \in Serials |-> rows[s]]
  /\ \A s \in Serials : rows[s] = [button |-> rows[s].button, mount |-> rows[s].mount,
                                   shownTo |-> rows[s].shownTo]
CallShape ==
  /\ removal = [r \in Removals |-> removal[r]]
  /\ \A r \in Removals : removal[r] # Idle =>
       removal[r] = [at |-> removal[r].at, serial |-> removal[r].serial,
                     mount |-> removal[r].mount, shownTo |-> removal[r].shownTo,
                     button |-> removal[r].button]

\* Lists, rows and calls speak of certificates that exist.
KnownInv ==
  /\ expired \subseteq Known
  /\ listing # Unlisted => listing \subseteq Known
  /\ \A s \in Serials : rows[s].button # "none" => s \in Known
  /\ \A r \in Removals : removal[r] # Idle => removal[r].serial \in Known

TypeInv ==
  CertTypes /\ RowTypes /\ CallTypes /\ CertShape /\ RowShape /\ CallShape /\ KnownInv

LEMMA TypeParts == TypeInv => TypeOK
  BY DEF TypeInv, CertTypes, RowTypes, CallTypes, TypeOK

LEMMA TypeInit == Init => TypeInv
<1> SUFFICES ASSUME Init PROVE TypeInv
  OBVIOUS
<1>1. CertTypes
  <2>1. /\ \A s \in Serials : cert[s] = Unissued \/ cert[s].mount \in Mounts \cup {NoMount}
        /\ \A s \in DOMAIN Strangers : cert[s] # Unissued
    BY StrangersAreNotOfOpenBao DEF Init
  <2>2. store \in SUBSET {s \in Serials : cert[s] # Unissued}
    BY <2>1, StrangersAreNotOfOpenBao DEF Init
  <2>3. user = Nobody /\ status = Nobody /\ expired = {} /\ revoked = {} /\ listing = Unlisted
    BY DEF Init
  <2> HIDE DEF Init
  <2> QED BY <2>1, <2>2, <2>3 DEF CertTypes
<1>2. RowTypes /\ RowShape /\ \A s \in Serials : rows[s].button = "none"
  BY DEF Init, NoRow, RowTypes, RowShape
<1>3. CallTypes /\ CallShape /\ \A r \in Removals : removal[r] = Idle
  BY DEF Init, CallTypes, CallShape
<1>4. CertShape /\ expired = {} /\ listing = Unlisted
  BY DEF Init, CertShape
<1>5. KnownInv
  BY <1>2, <1>3, <1>4 DEF KnownInv
<1> QED BY <1>1, <1>2, <1>3, <1>4, <1>5 DEF TypeInv

\* The certificate that an issuance adds, and those that were there.
LEMMA IssueFields ==
  ASSUME TypeInv, NEW s \in Serials, NEW i \in ProfileIds, Issue(i, s)
  PROVE  /\ Known' = Known \cup {s} /\ s \notin Known
         /\ \A t \in Serials : t # s => cert'[t] = cert[t]
         /\ \E a \in Answers : /\ user \in Users /\ cert'[s] = Installed(a, i, user)
                               /\ a.sans \subseteq SanOf(user, Profiles[i]) \cup {a.cn}
                               /\ Validated(a, Profiles[i], user)
         /\ CertShape'
<1>1. user \in Users
  BY DEF Issue, TypeInv, CertTypes
<1>2. PICK a \in Answers : /\ cert' = [cert EXCEPT ![s] = Installed(a, i, user)]
                           /\ a.sans \subseteq SanOf(user, Profiles[i]) \cup {a.cn}
                           /\ Validated(a, Profiles[i], user)
  BY DEF Issue, Signable
<1>3. Installed(a, i, user) # Unissued
  BY <1>1, UnissuedIsNoCertificate
<1>4. cert[s] = Unissued
  BY DEF Issue
<1>5. /\ cert'[s] = Installed(a, i, user) /\ \A t \in Serials : t # s => cert'[t] = cert[t]
      /\ CertShape'
  BY <1>2 DEF TypeInv, CertShape
<1>6. Known' = Known \cup {s} /\ s \notin Known
  BY <1>3, <1>4, <1>5 DEF Known
<1> QED BY <1>1, <1>2, <1>5, <1>6

LEMMA IssueType ==
  ASSUME TypeInv, NEW s \in Serials, NEW i \in ProfileIds, Issue(i, s)
  PROVE  TypeInv'
<1>1. Known' = Known \cup {s} /\ CertShape'
  BY IssueFields
<1>2. CertTypes'
  <2>1. \A t \in Serials : cert'[t] = Unissued \/ cert'[t].mount \in Mounts \cup {NoMount}
    <3> TAKE t \in Serials
    <3>1. CASE t = s
      <4>1. PICK a \in Answers : cert'[s] = Installed(a, i, user)
        BY IssueFields
      <4>2. cert'[s].mount = Profiles[i].mount
        BY <4>1 DEF Installed
      <4> QED BY <3>1, <4>2 DEF Mounts
    <3>2. CASE t # s
      BY <3>2, IssueFields DEF TypeInv, CertTypes
    <3> QED BY <3>1, <3>2
  <2>2. store' \in SUBSET Known'
    BY <1>1 DEF Issue, TypeInv, CertTypes, Known
  <2>3. UNCHANGED <<user, status, expired, revoked, listing>>
    BY DEF Issue
  <2> QED BY <2>1, <2>2, <2>3 DEF TypeInv, CertTypes, Known
<1>3. UNCHANGED <<expired, listing, rows, removal>>
  BY DEF Issue
<1>4. RowTypes' /\ CallTypes' /\ RowShape' /\ CallShape'
  BY <1>3 DEF TypeInv, RowTypes, CallTypes, RowShape, CallShape
<1>5. KnownInv'
  BY <1>1, <1>3 DEF TypeInv, KnownInv
<1> QED BY <1>1, <1>2, <1>4, <1>5 DEF TypeInv

LEMMA RenderType ==
  ASSUME TypeInv, Render PROVE TypeInv'
<1>1. /\ UNCHANGED <<user, status, cert, store, expired, revoked, removal>>
      /\ listing' = Unlisted /\ Known' = Known
  BY DEF Render, Known
<1>2. CertTypes' /\ CertShape' /\ CallTypes' /\ CallShape'
  BY <1>1 DEF TypeInv, CertTypes, CertShape, CallTypes, CallShape
<1>3. rows' = [s \in Serials |-> rows'[s]]
  BY DEF Render
<1>4. \A s \in Serials :
        /\ rows'[s].button \in {"none", "local", "disabled", "revoke"}
        /\ rows'[s].mount \in Mounts \cup {NoMount} /\ rows'[s].shownTo \in Users \cup {Nobody}
        /\ rows'[s] = [button |-> rows'[s].button, mount |-> rows'[s].mount,
                       shownTo |-> rows'[s].shownTo]
        /\ rows'[s].button # "none" => s \in Known
  <2> TAKE s \in Serials
  <2>1. CASE s \in listing
    <3>1. rows'[s] = RowOf(s, status)
      BY <2>1 DEF Render
    <3>2. s \in Known
      BY <2>1 DEF Render, TypeInv, KnownInv
    <3>3. status \in Users \cup {Nobody}
      BY DEF TypeInv, CertTypes
    <3>4. MountFor(cert[s], status) \in Mounts \cup {NoMount}
      BY MountForType
    <3> QED BY <3>1, <3>2, <3>3, <3>4, RowFields
  <2>2. CASE s \notin listing
    <3>1. rows'[s] = NoRow
      BY <2>2 DEF Render
    <3> QED BY <3>1 DEF NoRow
  <2> QED BY <2>1, <2>2
<1>5. RowTypes' /\ RowShape'
  BY <1>3, <1>4 DEF RowTypes, RowShape
<1>6. KnownInv'
  BY <1>1, <1>4 DEF TypeInv, KnownInv
<1> QED BY <1>2, <1>5, <1>6 DEF TypeInv

\* A click, whichever it is, and what it does to the row and the call.
LEMMA Clicked ==
  ASSUME TypeInv, NEW r \in Removals, NEW s \in Serials, ClickRevoke(r, s) \/ ClickLocal(r, s)
  PROVE  /\ removal[r] = Idle /\ removal'[r] # Idle
         /\ \/ /\ rows[s].button = "revoke" /\ rows[s].mount # NoMount
               /\ removal'[r].at = "revoke"
            \/ rows[s].button = "local" /\ removal'[r].at = "delete"
         /\ removal'[r].serial = s /\ removal'[r].button = rows[s].button
         /\ removal'[r].shownTo = rows[s].shownTo /\ removal'[r].mount = rows[s].mount
         /\ \A q \in Removals : q # r => removal'[q] = removal[q]
         /\ rows'[s].button = r /\ rows'[s].mount = rows[s].mount
         /\ rows'[s].shownTo = rows[s].shownTo
         /\ \A t \in Serials : t # s => rows'[t] = rows[t]
         /\ RowShape' /\ CallShape'
         /\ UNCHANGED <<user, status, cert, store, expired, revoked, listing>>
<1>1. PICK step \in {"revoke", "delete"} :
        /\ Begin(r, s, step)
        /\ rows' = [rows EXCEPT ![s].button = r]
        /\ \/ step = "revoke" /\ rows[s].button = "revoke" /\ rows[s].mount # NoMount
           \/ step = "delete" /\ rows[s].button = "local"
  BY DEF ClickRevoke, ClickLocal
<1> DEFINE new == [at |-> step, serial |-> s, mount |-> rows[s].mount,
                   shownTo |-> rows[s].shownTo, button |-> rows[s].button]
<1>2. removal' = [removal EXCEPT ![r] = new] /\ removal[r] = Idle
      /\ UNCHANGED <<user, status, cert, store, expired, revoked, listing>>
  BY <1>1 DEF Begin
<1>3. /\ removal'[r] = new /\ removal' = [q \in Removals |-> removal'[q]]
      /\ \A q \in Removals : q # r => removal'[q] = removal[q]
  BY <1>2 DEF TypeInv, CallShape
<1>4. /\ removal'[r] = [at |-> removal'[r].at, serial |-> removal'[r].serial,
                        mount |-> removal'[r].mount, shownTo |-> removal'[r].shownTo,
                        button |-> removal'[r].button]
      /\ removal'[r].at = step
      /\ removal'[r].serial = s /\ removal'[r].button = rows[s].button
      /\ removal'[r].shownTo = rows[s].shownTo /\ removal'[r].mount = rows[s].mount
  BY <1>3
<1>5. removal'[r] # Idle
  BY <1>4 DEF Idle
<1>6. CallShape'
  BY <1>3, <1>4 DEF TypeInv, CallShape
<1>7. /\ rows' = [t \in Serials |-> rows'[t]]
      /\ \A t \in Serials : t # s => rows'[t] = rows[t]
      /\ rows'[s] = [rows[s] EXCEPT !.button = r]
  BY <1>1 DEF TypeInv, RowShape
<1>8. /\ rows'[s].button = r /\ rows'[s].mount = rows[s].mount
      /\ rows'[s].shownTo = rows[s].shownTo
      /\ rows'[s] = [button |-> rows'[s].button, mount |-> rows'[s].mount,
                     shownTo |-> rows'[s].shownTo]
  BY <1>7 DEF TypeInv, RowShape
<1>9. RowShape'
  BY <1>7, <1>8 DEF TypeInv, RowShape
<1> HIDE DEF new
<1> QED BY <1>1, <1>2, <1>3, <1>4, <1>5, <1>6, <1>7, <1>8, <1>9

LEMMA ClickType ==
  ASSUME TypeInv, NEW r \in Removals, NEW s \in Serials, ClickRevoke(r, s) \/ ClickLocal(r, s)
  PROVE  TypeInv'
<1>1. UNCHANGED <<user, status, cert, store, expired, revoked, listing>> /\ Known' = Known
  BY Clicked DEF Known
<1>2. CertTypes' /\ CertShape'
  BY <1>1 DEF TypeInv, CertTypes, CertShape
<1>3. /\ \A t \in Serials : t # s => rows'[t] = rows[t]
      /\ \A q \in Removals : q # r => removal'[q] = removal[q]
  BY Clicked
<1>4. RowTypes'
  <2>1. /\ rows'[s].button = r /\ rows'[s].mount = rows[s].mount
        /\ rows'[s].shownTo = rows[s].shownTo
    BY Clicked
  <2> QED BY <1>3, <2>1 DEF TypeInv, RowTypes
<1>5. CallTypes'
  <2>1. /\ removal'[r].at \in {"revoke", "delete"} /\ removal'[r].serial \in Serials
        /\ removal'[r].button \in {"revoke", "local"}
    BY Clicked
  <2>2. removal'[r].at = "revoke" => removal'[r].mount \in Mounts /\ removal'[r].button = "revoke"
    BY Clicked DEF TypeInv, RowTypes
  <2> QED BY <1>3, <2>1, <2>2 DEF TypeInv, CallTypes
<1>6. KnownInv'
  <2>1. s \in Known /\ removal'[r].serial = s
    BY Clicked DEF TypeInv, KnownInv
  <2> QED BY <1>1, <1>3, <2>1 DEF TypeInv, KnownInv
<1>7. RowShape' /\ CallShape'
  BY Clicked
<1> QED BY <1>2, <1>4, <1>5, <1>6, <1>7 DEF TypeInv

LEMMA AtIsNotIdle ==
  ASSUME NEW r, removal[r].at \in {"revoke", "delete"} PROVE removal[r] # Idle
  BY DEF Idle

\* The end of a call, and what it does to the row.
LEMMA Returned ==
  ASSUME TypeInv, NEW r \in Removals, removal[r] # Idle, Return(r)
  PROVE  /\ \A q \in Removals : removal'[q] = IF q = r THEN Idle ELSE removal[q]
         /\ \A t \in Serials :
              /\ rows'[t].mount = rows[t].mount /\ rows'[t].shownTo = rows[t].shownTo
              /\ \/ /\ t = removal[r].serial /\ rows[t].button = r
                    /\ rows'[t].button = removal[r].button
                 \/ /\ t # removal[r].serial \/ rows[t].button # r
                    /\ rows'[t].button = rows[t].button
         /\ RowShape' /\ CallShape'
<1> DEFINE s == removal[r].serial
           b == IF rows[s].button # r THEN rows[s].button ELSE removal[r].button
<1>1. s \in Serials
  BY DEF TypeInv, CallTypes
<1>2. removal' = [removal EXCEPT ![r] = Idle] /\ rows' = [rows EXCEPT ![s].button = b]
  BY DEF Return
<1>3. (\A q \in Removals : removal'[q] = IF q = r THEN Idle ELSE removal[q]) /\ CallShape'
  BY <1>2 DEF TypeInv, CallShape
<1> HIDE DEF b
<1>4. /\ rows' = [t \in Serials |-> rows'[t]]
      /\ \A t \in Serials : t # s => rows'[t] = rows[t]
      /\ rows'[s] = [rows[s] EXCEPT !.button = b]
  BY <1>1, <1>2 DEF TypeInv, RowShape
<1>5. /\ rows'[s].button = b /\ rows'[s].mount = rows[s].mount
      /\ rows'[s].shownTo = rows[s].shownTo
      /\ rows'[s] = [button |-> rows'[s].button, mount |-> rows'[s].mount,
                     shownTo |-> rows'[s].shownTo]
  BY <1>1, <1>4 DEF TypeInv, RowShape
<1>6. RowShape'
  BY <1>4, <1>5 DEF TypeInv, RowShape
<1>7. ASSUME NEW t \in Serials
      PROVE  /\ rows'[t].mount = rows[t].mount /\ rows'[t].shownTo = rows[t].shownTo
             /\ \/ /\ t = removal[r].serial /\ rows[t].button = r
                   /\ rows'[t].button = removal[r].button
                \/ /\ t # removal[r].serial \/ rows[t].button # r
                   /\ rows'[t].button = rows[t].button
  <2>1. CASE t = s
    BY <1>5, <2>1 DEF b
  <2>2. CASE t # s
    BY <1>4, <2>2
  <2> QED BY <2>1, <2>2
<1> QED BY <1>3, <1>6, <1>7

LEMMA ReturnType ==
  ASSUME TypeInv, NEW r \in Removals, RevokeFails(r) \/ Delete(r) \/ DeleteFails(r)
  PROVE  TypeInv'
<1>1. removal[r] # Idle /\ Return(r)
  <2>1. removal[r].at \in {"revoke", "delete"} /\ Return(r)
    BY DEF RevokeFails, Delete, DeleteFails
  <2> QED BY <2>1, AtIsNotIdle
<1>2. RowShape' /\ CallShape'
  BY <1>1, Returned
<1>3. /\ UNCHANGED <<user, status, cert, expired, listing>> /\ Known' = Known
      /\ store' \subseteq store /\ revoked' \subseteq Serials
  <2>1. removal[r].serial \in Serials
    BY <1>1 DEF TypeInv, CallTypes
  <2> QED BY <2>1 DEF RevokeFails, Delete, DeleteFails, Known, TypeInv, CertTypes
<1>4. CertTypes' /\ CertShape'
  BY <1>3 DEF TypeInv, CertTypes, CertShape
<1>5. \A q \in Removals : removal'[q] = IF q = r THEN Idle ELSE removal[q]
  BY <1>1, Returned
<1>6. CallTypes'
  BY <1>5 DEF TypeInv, CallTypes
<1>7. \A t \in Serials :
        /\ rows'[t].mount = rows[t].mount /\ rows'[t].shownTo = rows[t].shownTo
        /\ \/ t = removal[r].serial /\ rows'[t].button = removal[r].button
           \/ rows'[t].button = rows[t].button
  BY <1>1, Returned
<1>8. RowTypes'
  <2>1. removal[r].button \in {"revoke", "local"}
    BY <1>1 DEF TypeInv, CallTypes
  <2> QED BY <1>7, <2>1 DEF TypeInv, RowTypes
<1>9. KnownInv'
  <2>1. removal[r].serial \in Known
    BY <1>1 DEF TypeInv, KnownInv
  <2> QED BY <1>3, <1>5, <1>7, <2>1 DEF TypeInv, KnownInv
<1> QED BY <1>2, <1>4, <1>6, <1>8, <1>9 DEF TypeInv

\* What a revocation leaves of the call.
LEMMA Revoked ==
  ASSUME TypeInv, NEW r \in Removals, Revoke(r)
  PROVE  /\ rows' = rows /\ removal[r] # Idle /\ removal'[r] # Idle
         /\ \A q \in Removals : q # r => removal'[q] = removal[q]
         /\ removal'[r].serial = removal[r].serial /\ removal'[r].mount = removal[r].mount
         /\ removal'[r].shownTo = removal[r].shownTo /\ removal'[r].button = removal[r].button
         /\ removal'[r].at = "delete" /\ removal[r].serial \in revoked'
         /\ CallShape'
<1>1. removal[r] # Idle
  <2>1. removal[r].at \in {"revoke", "delete"}
    BY DEF Revoke
  <2> QED BY <2>1, AtIsNotIdle
<1>2. /\ removal'[r] = [removal[r] EXCEPT !.at = "delete"]
      /\ removal' = [q \in Removals |-> removal'[q]]
      /\ \A q \in Removals : q # r => removal'[q] = removal[q]
  BY DEF Revoke, TypeInv, CallShape
<1>3. /\ removal'[r].serial = removal[r].serial /\ removal'[r].mount = removal[r].mount
      /\ removal'[r].shownTo = removal[r].shownTo /\ removal'[r].button = removal[r].button
      /\ removal'[r].at = "delete"
      /\ removal'[r] = [at |-> removal'[r].at, serial |-> removal'[r].serial,
                        mount |-> removal'[r].mount, shownTo |-> removal'[r].shownTo,
                        button |-> removal'[r].button]
  BY <1>1, <1>2 DEF TypeInv, CallShape
<1>4. CallShape'
  BY <1>2, <1>3 DEF TypeInv, CallShape
<1>5. rows' = rows /\ removal[r].serial \in revoked'
  BY DEF Revoke
<1>6. removal'[r] # Idle
  BY <1>3 DEF Idle
<1> QED BY <1>1, <1>2, <1>3, <1>4, <1>5, <1>6

LEMMA RevokeType ==
  ASSUME TypeInv, NEW r \in Removals, Revoke(r) PROVE TypeInv'
<1>1. /\ UNCHANGED <<user, status, cert, store, expired, listing, rows>> /\ Known' = Known
      /\ revoked' = revoked \cup {removal[r].serial}
  BY DEF Revoke, Known
<1>2. removal[r].serial \in Serials /\ removal[r].serial \in Known
  BY Revoked DEF TypeInv, CallTypes, KnownInv
<1>3. CertTypes' /\ CertShape' /\ RowTypes' /\ RowShape'
  BY <1>1, <1>2 DEF TypeInv, CertTypes, CertShape, RowTypes, RowShape
<1>4. /\ \A q \in Removals : q # r => removal'[q] = removal[q]
      /\ removal'[r].serial = removal[r].serial /\ removal'[r].button = removal[r].button
      /\ removal'[r].at = "delete"
  BY Revoked
<1>5. CallTypes'
  <2>1. removal[r].button \in {"revoke", "local"}
    BY Revoked DEF TypeInv, CallTypes
  <2> QED BY <1>2, <1>4, <2>1 DEF TypeInv, CallTypes
<1>6. KnownInv'
  BY <1>1, <1>2, <1>4 DEF TypeInv, KnownInv
<1>7. CallShape'
  BY Revoked
<1> QED BY <1>3, <1>5, <1>6, <1>7 DEF TypeInv

LEMMA TypeInvariant == Spec => []TypeInv
<1>1. TypeInv /\ [Next]_vars => TypeInv'
  <2> SUFFICES ASSUME TypeInv, [Next]_vars PROVE TypeInv'
    OBVIOUS
  <2>1. CASE ChangeUser \/ TakeStatus \/ List \/ (\E s \in Serials : Expire(s)) \/ UNCHANGED vars
    <3>1. UNCHANGED <<rows, removal, cert, store, revoked>>
      BY <2>1 DEF vars, ChangeUser, TakeStatus, List, Expire
    <3>2. CertTypes'
      BY <2>1 DEF vars, ChangeUser, TakeStatus, List, Expire, TypeInv, CertTypes
    <3>3. expired' \subseteq Known /\ (listing' # Unlisted => listing' \subseteq Known)
      BY <2>1 DEF vars, ChangeUser, TakeStatus, List, Expire, TypeInv, CertTypes, KnownInv, Known
    <3>4. CertShape' /\ RowShape' /\ CallShape' /\ RowTypes' /\ CallTypes' /\ Known' = Known
      BY <3>1 DEF TypeInv, CertShape, RowShape, CallShape, RowTypes, CallTypes, Known
    <3>5. KnownInv'
      BY <3>1, <3>3, <3>4 DEF TypeInv, KnownInv
    <3> QED BY <3>2, <3>4, <3>5 DEF TypeInv
  <2> QED BY <2>1, IssueType, RenderType, ClickType, RevokeType, ReturnType DEF Next
<1> QED BY <1>1, TypeInit, PTL DEF Spec

\* The certificates, rows and calls keep their shape.
THEOREM TypeCorrect == Spec => []TypeOK
  BY TypeParts, TypeInvariant, PTL
-----------------------------------------------------------------------------
(***************************************************************************)
(* What was accepted                                                       *)
(***************************************************************************)

\* The identity a request gets for a profile.
NamesOf(u, p) == {IdentityOf(u, p)} \cup SanOf(u, p)

\* A certificate of OpenBao is what was accepted for its owner and its profile.
IssuedInv ==
  \A s \in Issued :
    /\ cert[s].profile \in ProfileIds /\ cert[s].owner \in Users /\ cert[s].keyed
    /\ cert[s].mount = Profiles[cert[s].profile].mount
    /\ cert[s].cn = IdentityOf(cert[s].owner, Profiles[cert[s].profile])
    /\ NamesIn(cert[s]) \subseteq NamesOf(cert[s].owner, Profiles[cert[s].profile])
    /\ Profiles[cert[s].profile].ekus \subseteq cert[s].ekus

LEMMA IssuedStep ==
  ASSUME TypeInv, IssuedInv, [Next]_vars PROVE IssuedInv'
<1>1. CASE cert' = cert
  BY <1>1 DEF IssuedInv, Issued
<1>2. ASSUME NEW s \in Serials, NEW i \in ProfileIds, Issue(i, s) PROVE IssuedInv'
  <2>1. PICK a \in Answers : /\ user \in Users /\ cert'[s] = Installed(a, i, user)
                             /\ a.sans \subseteq SanOf(user, Profiles[i]) \cup {a.cn}
                             /\ Validated(a, Profiles[i], user)
    BY <1>2, IssueFields
  <2>2. \A t \in Serials : t # s => cert'[t] = cert[t]
    BY <1>2, IssueFields
  <2>3. /\ cert'[s].profile = i /\ cert'[s].owner = user /\ cert'[s].keyed
        /\ cert'[s].mount = Profiles[i].mount
        /\ cert'[s].cn = a.cn /\ cert'[s].sans = a.sans /\ cert'[s].ekus = a.ekus
    BY <2>1 DEF Installed
  <2>4. a.cn = IdentityOf(user, Profiles[i]) /\ Profiles[i].ekus \subseteq a.ekus
    BY <2>1 DEF Validated
  <2>5. NamesIn(cert'[s]) \subseteq NamesOf(user, Profiles[i])
    BY <2>1, <2>3, <2>4 DEF NamesIn, NamesOf
  <2>6. \A t \in Issued' : t # s => t \in Issued
    BY <2>2 DEF Issued
  <2> SUFFICES ASSUME NEW t \in Issued'
               PROVE  /\ cert'[t].profile \in ProfileIds /\ cert'[t].owner \in Users
                      /\ cert'[t].keyed
                      /\ cert'[t].mount = Profiles[cert'[t].profile].mount
                      /\ cert'[t].cn = IdentityOf(cert'[t].owner, Profiles[cert'[t].profile])
                      /\ NamesIn(cert'[t]) \subseteq NamesOf(cert'[t].owner, Profiles[cert'[t].profile])
                      /\ Profiles[cert'[t].profile].ekus \subseteq cert'[t].ekus
    BY DEF IssuedInv
  <2>7. CASE t = s
    BY <2>1, <2>3, <2>4, <2>5, <2>7
  <2>8. CASE t # s
    <3>1. t \in Issued /\ cert'[t] = cert[t]
      BY <2>2, <2>6, <2>8 DEF Issued
    <3> QED BY <3>1 DEF IssuedInv
  <2> QED BY <2>7, <2>8
<1>3. \/ cert' = cert
      \/ \E s \in Serials, i \in ProfileIds : Issue(i, s)
  BY DEF Next, vars, ChangeUser, TakeStatus, List, Render, Expire, ClickRevoke, ClickLocal, Begin,
     Revoke, RevokeFails, Delete, DeleteFails
<1> QED BY <1>1, <1>2, <1>3

LEMMA IssuedInvariant == Spec => []IssuedInv
<1>1. Init => IssuedInv
  BY StrangersAreNotOfOpenBao DEF Init, IssuedInv, Issued
<1> QED BY <1>1, IssuedStep, TypeInvariant, PTL DEF Spec

\* What was accepted for a profile is found again by the inventory of that profile.
THEOREM AcceptedAreFound == Spec => []AcceptedCertificatesAreFound
<1>1. IssuedInv => AcceptedCertificatesAreFound
  BY DEF IssuedInv, AcceptedCertificatesAreFound, CertificatesForProfile, NamesIn
<1> QED BY <1>1, IssuedInvariant, PTL
-----------------------------------------------------------------------------
(***************************************************************************)
(* Rows and calls                                                          *)
(***************************************************************************)

\* A button that is busy belongs to the call that was made by it, which knows what
\* the row said.
LinkInv ==
  \A s \in Serials, r \in Removals : rows[s].button = r =>
    /\ removal[r] # Idle /\ removal[r].serial = s
    /\ removal[r].shownTo = rows[s].shownTo /\ removal[r].mount = rows[s].mount

\* A certificate that may be deleted without being revoked, for a row shown to u.
IsStrangerTo(s, u) == s \in expired /\ (s \in Issued => u \notin {cert[s].owner, Nobody})

RowIsLocal(s) == rows[s].button = "local" => IsStrangerTo(s, rows[s].shownTo)
CallIsLocal(r) == removal[r] # Idle =>
  /\ removal[r].button = "local" => IsStrangerTo(removal[r].serial, removal[r].shownTo)
  /\ removal[r].at = "delete" => removal[r].button = "local" \/ removal[r].serial \in revoked
LocalInv == (\A s \in Serials : RowIsLocal(s)) /\ (\A r \in Removals : CallIsLocal(r))

\* What is said of a certificate remains true.
LEMMA Remains ==
  ASSUME TypeInv, [Next]_vars
  PROVE  /\ revoked \subseteq revoked' /\ expired \subseteq expired'
         /\ \A s \in Known : cert'[s] = cert[s] /\ (s \in Issued' <=> s \in Issued)
<1>1. CASE cert' = cert
  <2>1. expired \subseteq expired' /\ revoked \subseteq revoked'
    BY DEF Next, vars, ChangeUser, TakeStatus, List, Render, Expire, Issue, ClickRevoke, ClickLocal,
       Begin, Revoke, RevokeFails, Delete, DeleteFails
  <2> QED BY <1>1, <2>1 DEF Issued
<1>2. ASSUME NEW t \in Serials, NEW i \in ProfileIds, Issue(i, t)
      PROVE  /\ revoked \subseteq revoked' /\ expired \subseteq expired'
             /\ \A s \in Known : cert'[s] = cert[s] /\ (s \in Issued' <=> s \in Issued)
  <2>1. \A s \in Known : cert'[s] = cert[s]
    BY <1>2, IssueFields DEF Known
  <2>2. expired' = expired /\ revoked' = revoked
    BY <1>2 DEF Issue
  <2> QED BY <2>1, <2>2 DEF Issued, Known
<1>3. \/ cert' = cert
      \/ \E s \in Serials, i \in ProfileIds : Issue(i, s)
  BY DEF Next, vars, ChangeUser, TakeStatus, List, Render, Expire, ClickRevoke, ClickLocal, Begin,
     Revoke, RevokeFails, Delete, DeleteFails
<1> QED BY <1>1, <1>2, <1>3

\* How a step changes the rows and the calls.
LEMMA RowSteps ==
  ASSUME [Next]_vars
  PROVE  \/ UNCHANGED <<rows, removal>>
         \/ Render
         \/ \E r \in Removals, s \in Serials : ClickRevoke(r, s) \/ ClickLocal(r, s)
         \/ \E r \in Removals : Revoke(r)
         \/ \E r \in Removals : removal[r] # Idle /\ Return(r)
<1>1. ASSUME NEW r \in Removals, RevokeFails(r) \/ Delete(r) \/ DeleteFails(r)
      PROVE  removal[r] # Idle /\ Return(r)
  <2>1. removal[r].at \in {"revoke", "delete"} /\ Return(r)
    BY <1>1 DEF RevokeFails, Delete, DeleteFails
  <2> QED BY <2>1, AtIsNotIdle
<1> QED BY <1>1 DEF Next, vars, ChangeUser, TakeStatus, List, Expire, Issue

\* The buttons of rows that were just rendered are not busy.
LEMMA RenderedRow ==
  ASSUME TypeInv, Render, NEW s \in Serials
  PROVE  \/ s \in listing /\ s \in Known /\ rows'[s] = RowOf(s, status)
         \/ rows'[s] = NoRow
  BY DEF Render, TypeInv, KnownInv

LEMMA LinkStep ==
  ASSUME TypeInv, LinkInv, [Next]_vars PROVE LinkInv'
<1> SUFFICES ASSUME NEW t \in Serials, NEW q \in Removals, rows'[t].button = q
             PROVE  /\ removal'[q] # Idle /\ removal'[q].serial = t
                    /\ removal'[q].shownTo = rows'[t].shownTo /\ removal'[q].mount = rows'[t].mount
  BY DEF LinkInv
<1>1. CASE UNCHANGED <<rows, removal>>
  BY <1>1 DEF LinkInv
<1>2. CASE Render
  <2>1. rows'[t].button \in {"none", "local", "disabled", "revoke"}
    BY <1>2, RenderedRow, RowFields DEF NoRow
  <2> QED BY <2>1, NamesDiffer
<1>3. ASSUME NEW r \in Removals, NEW s \in Serials, ClickRevoke(r, s) \/ ClickLocal(r, s)
      PROVE  /\ removal'[q] # Idle /\ removal'[q].serial = t
             /\ removal'[q].shownTo = rows'[t].shownTo /\ removal'[q].mount = rows'[t].mount
  <2>1. CASE t = s
    <3>1. /\ removal'[r] # Idle /\ removal'[r].serial = s
          /\ removal'[r].shownTo = rows[s].shownTo /\ removal'[r].mount = rows[s].mount
      BY <1>3, Clicked
    <3>2. /\ rows'[s].button = r /\ rows'[s].mount = rows[s].mount
          /\ rows'[s].shownTo = rows[s].shownTo
      BY <1>3, Clicked
    <3> QED BY <2>1, <3>1, <3>2
  <2>2. CASE t # s
    <3>1. rows'[t] = rows[t]
      BY <1>3, <2>2, Clicked
    <3>2. removal[r] = Idle
      BY <1>3, Clicked
    <3>3. q # r
      BY <3>1, <3>2 DEF LinkInv
    <3>4. removal'[q] = removal[q]
      BY <1>3, <3>3, Clicked
    <3> QED BY <3>1, <3>4 DEF LinkInv
  <2> QED BY <2>1, <2>2
<1>4. ASSUME NEW r \in Removals, Revoke(r)
      PROVE  /\ removal'[q] # Idle /\ removal'[q].serial = t
             /\ removal'[q].shownTo = rows'[t].shownTo /\ removal'[q].mount = rows'[t].mount
  <2>1. rows' = rows /\ \A p \in Removals : p # r => removal'[p] = removal[p]
    BY <1>4, Revoked
  <2>2. /\ removal[q] # Idle /\ removal[q].serial = t
        /\ removal[q].shownTo = rows[t].shownTo /\ removal[q].mount = rows[t].mount
    BY <2>1 DEF LinkInv
  <2>3. /\ removal'[r].serial = removal[r].serial /\ removal'[r].mount = removal[r].mount
        /\ removal'[r].shownTo = removal[r].shownTo /\ removal'[r] # Idle
    BY <1>4, Revoked
  <2>4. CASE q = r
    BY <2>1, <2>2, <2>3, <2>4
  <2>5. CASE q # r
    BY <2>1, <2>2, <2>5
  <2> QED BY <2>4, <2>5
<1>5. ASSUME NEW r \in Removals, removal[r] # Idle, Return(r)
      PROVE  /\ removal'[q] # Idle /\ removal'[q].serial = t
             /\ removal'[q].shownTo = rows'[t].shownTo /\ removal'[q].mount = rows'[t].mount
  <2>1. rows'[t].mount = rows[t].mount /\ rows'[t].shownTo = rows[t].shownTo
    BY <1>5, Returned
  <2>2. rows'[t].button = rows[t].button /\ (t # removal[r].serial \/ rows[t].button # r)
    <3>1. CASE rows'[t].button = removal[r].button
      <4>1. removal[r].button \in {"revoke", "local"}
        BY <1>5 DEF TypeInv, CallTypes
      <4> QED BY <3>1, <4>1, NamesDiffer
    <3> QED BY <1>5, <3>1, Returned
  <2>3. removal[q] # Idle /\ removal[q].serial = t
        /\ removal[q].shownTo = rows[t].shownTo /\ removal[q].mount = rows[t].mount
    BY <2>2 DEF LinkInv
  <2>4. q # r
    BY <2>2, <2>3
  <2>5. removal'[q] = removal[q]
    BY <1>5, <2>4, Returned
  <2> QED BY <2>1, <2>3, <2>5
<1> QED BY <1>1, <1>2, <1>3, <1>4, <1>5, RowSteps

\* A row that offers the local removal was shown to a stranger.
LEMMA LocalRow ==
  ASSUME TypeInv, IssuedInv, NEW s \in Known, RowOf(s, status).button = "local"
  PROVE  IsStrangerTo(s, status)
<1>1. s \in expired /\ Matches(cert[s], status) = {}
  BY RowFields DEF Manageable
<1>2. ASSUME s \in Issued, status \in {cert[s].owner, Nobody} PROVE FALSE
  <2> DEFINE i == cert[s].profile
  <2>1. /\ i \in ProfileIds /\ cert[s].cn = IdentityOf(cert[s].owner, Profiles[i])
        /\ Profiles[i].ekus \subseteq cert[s].ekus
    BY <1>2 DEF IssuedInv
  <2>2. i \in Matches(cert[s], status)
    BY <1>2, <2>1 DEF Matches, NamesIn
  <2> QED BY <1>1, <2>2
<1> QED BY <1>1, <1>2 DEF IsStrangerTo

LEMMA LocalStep ==
  ASSUME TypeInv, IssuedInv, LinkInv, LocalInv, [Next]_vars PROVE LocalInv'
<1>1. \A t \in Serials : rows[t].button # "none" => t \in Known
  BY DEF TypeInv, KnownInv
<1>2. \A q \in Removals : removal[q] # Idle => removal[q].serial \in Known
  BY DEF TypeInv, KnownInv
<1>3. /\ revoked \subseteq revoked' /\ expired \subseteq expired'
      /\ \A s \in Known : cert'[s] = cert[s] /\ (s \in Issued' <=> s \in Issued)
  BY Remains
<1>4. ASSUME NEW t \in Serials, rows'[t] = rows[t] PROVE RowIsLocal(t)'
  BY <1>1, <1>3, <1>4 DEF LocalInv, RowIsLocal, IsStrangerTo
<1>5. ASSUME NEW q \in Removals, removal'[q] = removal[q] PROVE CallIsLocal(q)'
  BY <1>2, <1>3, <1>5 DEF LocalInv, CallIsLocal, IsStrangerTo
<1>6. CASE UNCHANGED <<rows, removal>>
  BY <1>4, <1>5, <1>6 DEF LocalInv
<1>7. CASE Render
  <2>1. ASSUME NEW t \in Serials PROVE RowIsLocal(t)'
    <3>1. CASE t \in Known /\ rows'[t] = RowOf(t, status) /\ rows'[t].button = "local"
      <4>1. IsStrangerTo(t, status) /\ rows'[t].shownTo = status
        BY <3>1, LocalRow, RowFields
      <4> QED BY <1>3, <3>1, <4>1 DEF RowIsLocal, IsStrangerTo
    <3>2. CASE rows'[t] = NoRow
      BY <3>2 DEF NoRow, RowIsLocal
    <3> QED BY <1>7, <3>1, <3>2, RenderedRow DEF RowIsLocal
  <2> QED BY <1>5, <1>7, <2>1 DEF Render, LocalInv
<1>8. ASSUME NEW r \in Removals, NEW s \in Serials, ClickRevoke(r, s) \/ ClickLocal(r, s)
      PROVE  LocalInv'
  <2>1. RowIsLocal(s)'
    <3>1. rows'[s].button # "local"
      BY <1>8, Clicked, NamesDiffer
    <3> QED BY <3>1 DEF RowIsLocal
  <2>2. CallIsLocal(r)'
    <3>1. CASE removal'[r].at = "revoke" /\ removal'[r].button = "revoke"
      BY <3>1 DEF CallIsLocal
    <3>2. CASE rows[s].button = "local" /\ removal'[r].button = "local"
      <4>1. removal'[r].serial = s /\ removal'[r].shownTo = rows[s].shownTo
        BY <1>8, Clicked
      <4>2. s \in Known /\ IsStrangerTo(s, rows[s].shownTo)
        BY <1>1, <3>2 DEF LocalInv, RowIsLocal
      <4> QED BY <1>3, <3>2, <4>1, <4>2 DEF CallIsLocal, IsStrangerTo
    <3> QED BY <1>8, <3>1, <3>2, Clicked
  <2>3. /\ \A p \in Removals : p # r => removal'[p] = removal[p]
        /\ \A t \in Serials : t # s => rows'[t] = rows[t]
    BY <1>8, Clicked
  <2> QED BY <1>4, <1>5, <2>1, <2>2, <2>3 DEF LocalInv
<1>9. ASSUME NEW r \in Removals, Revoke(r) PROVE LocalInv'
  <2>1. CallIsLocal(r)'
    <3>1. /\ removal[r] # Idle /\ removal'[r].serial = removal[r].serial
          /\ removal'[r].shownTo = removal[r].shownTo /\ removal'[r].button = removal[r].button
          /\ removal[r].serial \in revoked'
      BY <1>9, Revoked
    <3>2. removal[r].serial \in Known
      BY <1>2, <3>1
    <3>3. removal[r].button = "local" => IsStrangerTo(removal[r].serial, removal[r].shownTo)
      BY <3>1 DEF LocalInv, CallIsLocal
    <3> QED BY <1>3, <3>1, <3>2, <3>3 DEF CallIsLocal, IsStrangerTo
  <2>2. rows' = rows /\ \A p \in Removals : p # r => removal'[p] = removal[p]
    BY <1>9, Revoked
  <2> QED BY <1>4, <1>5, <2>1, <2>2 DEF LocalInv
<1>10. ASSUME NEW r \in Removals, removal[r] # Idle, Return(r) PROVE LocalInv'
  <2>1. ASSUME NEW t \in Serials, rows'[t].button = "local" PROVE RowIsLocal(t)'
    <3>1. rows'[t].shownTo = rows[t].shownTo
      BY <1>10, Returned
    <3>2. CASE t = removal[r].serial /\ rows[t].button = r /\ removal[r].button = "local"
      <4>1. IsStrangerTo(t, removal[r].shownTo) /\ removal[r].shownTo = rows[t].shownTo
        BY <1>10, <3>2 DEF LocalInv, CallIsLocal, LinkInv
      <4>2. t \in Known
        BY <1>2, <1>10, <3>2
      <4> QED BY <1>3, <3>1, <4>1, <4>2 DEF RowIsLocal, IsStrangerTo
    <3>3. CASE rows[t].button = "local"
      <4>1. t \in Known /\ IsStrangerTo(t, rows[t].shownTo)
        BY <1>1, <3>3 DEF LocalInv, RowIsLocal
      <4> QED BY <1>3, <3>1, <4>1 DEF RowIsLocal, IsStrangerTo
    <3> QED BY <1>10, <2>1, <3>2, <3>3, Returned
  <2>2. \A p \in Removals : removal'[p] = IF p = r THEN Idle ELSE removal[p]
    BY <1>10, Returned
  <2>3. CallIsLocal(r)'
    BY <2>2 DEF CallIsLocal
  <2>4. \A t \in Serials : RowIsLocal(t)'
    BY <2>1 DEF RowIsLocal
  <2> QED BY <1>5, <2>2, <2>3, <2>4 DEF LocalInv
<1> QED BY <1>6, <1>7, <1>8, <1>9, <1>10, RowSteps

RowInv == IssuedInv /\ LinkInv /\ LocalInv

LEMMA RowInvariant == Spec => []RowInv
<1>1. Init => RowInv
  <2> SUFFICES ASSUME Init PROVE RowInv
    OBVIOUS
  <2>1. \A s \in Serials : rows[s].button = "none"
    BY DEF Init, NoRow
  <2>2. \A r \in Removals : removal[r] = Idle
    BY DEF Init
  <2>3. IssuedInv
    BY StrangersAreNotOfOpenBao DEF Init, IssuedInv, Issued
  <2> QED BY <2>1, <2>2, <2>3, NamesDiffer DEF RowInv, LinkInv, LocalInv, RowIsLocal, CallIsLocal
<1>2. TypeInv /\ RowInv /\ [Next]_vars => RowInv'
  BY IssuedStep, LinkStep, LocalStep DEF RowInv
<1> QED BY <1>1, <1>2, TypeInvariant, PTL DEF Spec

\* A certificate leaves the store unrevoked only if it has expired, and, if OpenBao
\* has issued it, only by a row shown to someone who is neither its owner nor nobody.
THEOREM UnrevokedAreOfStrangers == Spec => UnrevokedRemovalsAreOfStrangers
<1> DEFINE A == \A s \in store \ (store' \cup revoked) :
                  /\ s \in expired
                  /\ s \in Issued => \E r \in Removals :
                       /\ removal[r] # Idle /\ removal[r].serial = s
                       /\ removal[r].shownTo \notin {cert[s].owner, Nobody}
<1>1. RowInv /\ [Next]_vars => A
  <2> SUFFICES ASSUME RowInv, [Next]_vars, NEW s \in store \ (store' \cup revoked)
               PROVE  /\ s \in expired
                      /\ s \in Issued => \E r \in Removals :
                           /\ removal[r] # Idle /\ removal[r].serial = s
                           /\ removal[r].shownTo \notin {cert[s].owner, Nobody}
    OBVIOUS
  <2>1. PICK r \in Removals : Delete(r) /\ s = removal[r].serial
    BY DEF Next, vars, ChangeUser, TakeStatus, List, Render, Expire, Issue, ClickRevoke, ClickLocal,
       Begin, Revoke, RevokeFails, Delete, DeleteFails
  <2>2. removal[r].at = "delete" /\ removal[r] # Idle
    <3>1. removal[r].at = "delete"
      BY <2>1 DEF Delete
    <3> QED BY <3>1, AtIsNotIdle
  <2>3. IsStrangerTo(s, removal[r].shownTo)
    BY <2>1, <2>2 DEF RowInv, LocalInv, CallIsLocal
  <2> QED BY <2>1, <2>2, <2>3 DEF IsStrangerTo
<1> QED BY <1>1, RowInvariant, PTL DEF Spec, UnrevokedRemovalsAreOfStrangers
-----------------------------------------------------------------------------
(***************************************************************************)
(* Where certificates are revoked                                          *)
(***************************************************************************)

\* No name is asked for at two mounts.
ClaimsTellMountsApart ==
  \A u, v \in Users, i, j \in ProfileIds :
    NamesOf(u, Profiles[i]) \cap NamesOf(v, Profiles[j]) # {}
      => Profiles[i].mount = Profiles[j].mount

IsHome(s, mount) == s \in Issued => mount = cert[s].mount

RowIsHome(s) == rows[s].button = "revoke" => IsHome(s, rows[s].mount)
CallIsHome(r) == removal[r] # Idle /\ removal[r].button = "revoke"
                   => IsHome(removal[r].serial, removal[r].mount)
HomeInv == (\A s \in Serials : RowIsHome(s)) /\ (\A r \in Removals : CallIsHome(r))

LEMMA HomeRow ==
  ASSUME ClaimsTellMountsApart, TypeInv, IssuedInv, NEW s \in Known,
         RowOf(s, status).button = "revoke"
  PROVE  IsHome(s, RowOf(s, status).mount)
<1> SUFFICES ASSUME s \in Issued PROVE MountFor(cert[s], status) = cert[s].mount
  BY RowFields DEF IsHome
<1> DEFINE j == cert[s].profile
           v == cert[s].owner
<1>1. /\ j \in ProfileIds /\ v \in Users /\ cert[s].mount = Profiles[j].mount
      /\ NamesIn(cert[s]) \subseteq NamesOf(v, Profiles[j])
  BY DEF IssuedInv
<1>2. status \in Users /\ MountFor(cert[s], status) # NoMount
  BY RowFields DEF TypeInv, CertTypes
<1> HIDE DEF j, v
<1>3. CASE Matches(cert[s], status) # {}
  <2> DEFINE i == Min(Matches(cert[s], status))
  <2>1. i \in Matches(cert[s], status) /\ i \in ProfileIds
    BY <1>3, FirstMatch
  <2>2. MountFor(cert[s], status) = Profiles[i].mount
    BY <1>3 DEF MountFor
  <2> HIDE DEF i
  <2>3. NamesOf(status, Profiles[i]) \cap NamesIn(cert[s]) # {}
    BY <1>2, <2>1, NamesDiffer DEF Matches, NamesOf
  <2>4. NamesOf(status, Profiles[i]) \cap NamesOf(v, Profiles[j]) # {}
    BY <1>1, <2>3
  <2> QED BY <1>1, <1>2, <2>1, <2>2, <2>4 DEF ClaimsTellMountsApart
<1>4. CASE Matches(cert[s], status) = {}
  <2>1. Cardinality(Mounts) = 1 /\ MountFor(cert[s], status) = Profiles[1].mount
    BY <1>2, <1>4 DEF MountFor
  <2>2. Mounts = {Profiles[1].mount} /\ cert[s].mount \in Mounts
    BY <1>1, <2>1, OnlyMount DEF Mounts
  <2> QED BY <2>1, <2>2
<1> QED BY <1>3, <1>4

LEMMA HomeStep ==
  ASSUME ClaimsTellMountsApart, TypeInv, IssuedInv, LinkInv, HomeInv, [Next]_vars PROVE HomeInv'
<1>1. \A t \in Serials : rows[t].button # "none" => t \in Known
  BY DEF TypeInv, KnownInv
<1>2. \A q \in Removals : removal[q] # Idle => removal[q].serial \in Known
  BY DEF TypeInv, KnownInv
<1>3. \A s \in Known : cert'[s] = cert[s] /\ (s \in Issued' <=> s \in Issued)
  BY Remains
<1>4. ASSUME NEW t \in Serials, rows'[t] = rows[t] PROVE RowIsHome(t)'
  BY <1>1, <1>3, <1>4 DEF HomeInv, RowIsHome, IsHome
<1>5. ASSUME NEW q \in Removals, removal'[q] = removal[q] PROVE CallIsHome(q)'
  BY <1>2, <1>3, <1>5 DEF HomeInv, CallIsHome, IsHome
<1>6. CASE UNCHANGED <<rows, removal>>
  BY <1>4, <1>5, <1>6 DEF HomeInv
<1>7. CASE Render
  <2>1. ASSUME NEW t \in Serials PROVE RowIsHome(t)'
    <3>1. CASE t \in Known /\ rows'[t] = RowOf(t, status) /\ rows'[t].button = "revoke"
      <4>1. IsHome(t, rows'[t].mount)
        BY <3>1, HomeRow
      <4> QED BY <1>3, <3>1, <4>1 DEF RowIsHome, IsHome
    <3>2. CASE rows'[t] = NoRow
      BY <3>2 DEF NoRow, RowIsHome
    <3> QED BY <1>7, <3>1, <3>2, RenderedRow DEF RowIsHome
  <2> QED BY <1>5, <1>7, <2>1 DEF Render, HomeInv
<1>8. ASSUME NEW r \in Removals, NEW s \in Serials, ClickRevoke(r, s) \/ ClickLocal(r, s)
      PROVE  HomeInv'
  <2>1. RowIsHome(s)'
    <3>1. rows'[s].button # "revoke"
      BY <1>8, Clicked, NamesDiffer
    <3> QED BY <3>1 DEF RowIsHome
  <2>2. CallIsHome(r)'
    <3>1. CASE rows[s].button = "revoke"
      <4>1. removal'[r].serial = s /\ removal'[r].mount = rows[s].mount
        BY <1>8, Clicked
      <4>2. s \in Known /\ IsHome(s, rows[s].mount)
        BY <1>1, <3>1 DEF HomeInv, RowIsHome
      <4> QED BY <1>3, <4>1, <4>2 DEF CallIsHome, IsHome
    <3>2. CASE rows[s].button = "local"
      <4>1. removal'[r].button = "local"
        BY <1>8, <3>2, Clicked
      <4> QED BY <4>1 DEF CallIsHome
    <3> QED BY <1>8, <3>1, <3>2, Clicked
  <2>3. /\ \A p \in Removals : p # r => removal'[p] = removal[p]
        /\ \A t \in Serials : t # s => rows'[t] = rows[t]
    BY <1>8, Clicked
  <2> QED BY <1>4, <1>5, <2>1, <2>2, <2>3 DEF HomeInv
<1>9. ASSUME NEW r \in Removals, Revoke(r) PROVE HomeInv'
  <2>1. CallIsHome(r)'
    <3>1. /\ removal[r] # Idle /\ removal'[r].serial = removal[r].serial
          /\ removal'[r].mount = removal[r].mount /\ removal'[r].button = removal[r].button
      BY <1>9, Revoked
    <3>2. removal[r].serial \in Known
      BY <1>2, <3>1
    <3>3. removal[r].button = "revoke" => IsHome(removal[r].serial, removal[r].mount)
      BY <3>1 DEF HomeInv, CallIsHome
    <3> QED BY <1>3, <3>1, <3>2, <3>3 DEF CallIsHome, IsHome
  <2>2. rows' = rows /\ \A p \in Removals : p # r => removal'[p] = removal[p]
    BY <1>9, Revoked
  <2> QED BY <1>4, <1>5, <2>1, <2>2 DEF HomeInv
<1>10. ASSUME NEW r \in Removals, removal[r] # Idle, Return(r) PROVE HomeInv'
  <2>1. ASSUME NEW t \in Serials, rows'[t].button = "revoke" PROVE RowIsHome(t)'
    <3>1. rows'[t].mount = rows[t].mount
      BY <1>10, Returned
    <3>2. CASE t = removal[r].serial /\ rows[t].button = r /\ removal[r].button = "revoke"
      <4>1. IsHome(t, removal[r].mount) /\ removal[r].mount = rows[t].mount
        BY <1>10, <3>2 DEF HomeInv, CallIsHome, LinkInv
      <4>2. t \in Known
        BY <1>2, <1>10, <3>2
      <4> QED BY <1>3, <3>1, <4>1, <4>2 DEF RowIsHome, IsHome
    <3>3. CASE rows[t].button = "revoke"
      <4>1. t \in Known /\ IsHome(t, rows[t].mount)
        BY <1>1, <3>3 DEF HomeInv, RowIsHome
      <4> QED BY <1>3, <3>1, <4>1 DEF RowIsHome, IsHome
    <3> QED BY <1>10, <2>1, <3>2, <3>3, Returned
  <2>2. \A p \in Removals : removal'[p] = IF p = r THEN Idle ELSE removal[p]
    BY <1>10, Returned
  <2>3. CallIsHome(r)'
    BY <2>2 DEF CallIsHome
  <2>4. \A t \in Serials : RowIsHome(t)'
    BY <2>1 DEF RowIsHome
  <2> QED BY <1>5, <2>2, <2>3, <2>4 DEF HomeInv
<1> QED BY <1>6, <1>7, <1>8, <1>9, <1>10, RowSteps

\* If no name is asked for at two mounts, the revocation of a certificate is sent to
\* the mount that has issued it.
THEOREM RevokedAtTheIssuer == ClaimsTellMountsApart => (Spec => []RevocationsGoToTheIssuer)
<1> SUFFICES ASSUME ClaimsTellMountsApart PROVE Spec => []RevocationsGoToTheIssuer
  OBVIOUS
<1>1. Init => HomeInv
  <2> SUFFICES ASSUME Init PROVE HomeInv
    OBVIOUS
  <2>1. \A s \in Serials : rows[s].button = "none"
    BY DEF Init, NoRow
  <2>2. \A r \in Removals : removal[r] = Idle
    BY DEF Init
  <2> QED BY <2>1, <2>2 DEF HomeInv, RowIsHome, CallIsHome
<1>2. TypeInv /\ RowInv /\ HomeInv /\ [Next]_vars => HomeInv'
  BY HomeStep DEF RowInv
<1>3. TypeInv /\ HomeInv => RevocationsGoToTheIssuer
  BY DEF TypeInv, CallTypes, HomeInv, CallIsHome, IsHome, RevocationsGoToTheIssuer
<1> QED BY <1>1, <1>2, <1>3, TypeInvariant, RowInvariant, PTL DEF Spec
=============================================================================
