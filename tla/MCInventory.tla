---------------------------- MODULE MCInventory ----------------------------
(* Inventory for two deployments: one whose profiles have claims of their   *)
(* own, and the one of deployment.example.json, cut to two of its profiles. *)
EXTENDS Inventory, TLC

CONSTANTS alice, bob, s1, foreign

MCUsers == {alice, bob}
MCClaims == alice :> [name |-> "alice", email |-> "alice@home", alias |-> "al@home"]
         @@ bob :> [name |-> "bob", email |-> "bob@home", alias |-> "bo@home"]

Mtls(subject, san) ==
  [mount |-> "pki_user_mtls", subjectClaim |-> subject, sanClaim |-> san,
   purpose |-> "mtls", ekus |-> {"mtls"}]
Signing(subject, san) ==
  [mount |-> "pki_document_signing", subjectClaim |-> subject, sanClaim |-> san,
   purpose |-> "document-signing", ekus |-> {"document-signing"}]

DistinctProfiles == <<Mtls("name", NoClaim), Signing("email", "alias")>>
ExampleProfiles == <<Mtls("email", "email"), Signing("email", NoClaim)>>

\* A certificate of another authority for the address of alice.
MCStrangers == foreign :> [cn |-> "Alice A.", sans |-> {"alice@home"}, ekus |-> {"mtls"},
                           keyed |-> TRUE, mount |-> NoMount]

\* Names as asked for or not, EKUs as asked for, too few or too many.
MCAnswers ==
  [cn : {"alice", "bob", "alice@home", "bob@home"},
   sans : {{}, {"alice"}, {"bob"}, {"al@home"}, {"bo@home"}, {"alice@home"}, {"bob@home"},
           {"alice@home", "al@home"}, {"bob@home", "bo@home"}},
   ekus : {{"mtls"}, {"document-signing"}, {"mtls", "document-signing"}, {}},
   usage : {{"digitalSignature"}, {"digitalSignature", "nonRepudiation"}},
   sound : BOOLEAN]

Symmetry == Permutations(Removals)
=============================================================================
