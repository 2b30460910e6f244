--------------------------- MODULE SettingsProofs ---------------------------
(***************************************************************************)
(* Proofs about Settings, for any number of calls and texts of any length. *)
(***************************************************************************)
EXTENDS Settings, TLAPS

(***************************************************************************)
(* Types                                                                   *)
(***************************************************************************)

\* A call submits settings that validate, or removes the file.
SubmittedInv ==
  \A c \in Calls : /\ submitted[c] \in Valid \cup {Absent}
                   /\ pc[c] = "open" => submitted[c] # Absent

TypeInv == TypeOK /\ SubmittedInv

LEMMA TypeInit == Init => TypeInv
<1> SUFFICES ASSUME Init PROVE TypeInv
  OBVIOUS
<1>1. /\ file \in Files
      /\ file.value \in Servers \cup {Absent}
  <2>1. CASE file = NoFile
    BY <2>1 DEF NoFile, Files
  <2>2. ASSUME NEW s \in Valid, file = Holding(s) PROVE file \in Files /\ file.value \in Servers \cup {Absent}
    BY <2>2, ValidAreServers, TextsAreNotEmpty DEF Holding, Files
  <2> QED BY <2>1, <2>2 DEF Init
<1> QED BY <1>1 DEF Init, TypeInv, TypeOK, SubmittedInv

\* Writing the beginning of a text over a file leaves a file.
LEMMA OverwrittenType ==
  ASSUME NEW f \in Files, NEW s \in Servers, NEW n \in Nat PROVE Overwritten(f, s, n) \in Files
  BY DEF Overwritten, Files, Longer

LEMMA BeginType ==
  ASSUME TypeInv, NEW c \in Calls, NEW v \in Valid \cup {Absent}, Begin(c, v) PROVE TypeInv'
<1> USE ValidAreServers DEF TypeInv, TypeOK, SubmittedInv, Begin, Goto, processVars, UnderWay
<1>1. TypeOK'
  OBVIOUS
<1>2. SubmittedInv'
  OBVIOUS
<1> QED BY <1>1, <1>2

LEMMA WriteType ==
  ASSUME TypeInv, NEW c \in Calls, Write(c) \/ WriteInterrupted(c) PROVE TypeInv'
<1> USE ValidAreServers, TextsAreNotEmpty
    DEF TypeInv, TypeOK, SubmittedInv, Goto, processVars, historyVars
<1>1. submitted[c] \in Servers /\ pc[c] = "open"
  BY DEF Write, WriteInterrupted
<1>2. Length[submitted[c]] \in Nat /\ \A n \in 0..Length[submitted[c]] - 1 : n \in Nat
  BY <1>1
<1>3. \A n \in Nat : Overwritten(file, submitted[c], n) \in Files
  BY <1>1, OverwrittenType
<1>4. CASE Write(c)
  BY <1>1, <1>2, <1>3, <1>4 DEF Write, Answer
<1>5. CASE WriteInterrupted(c)
  <2>1. file' \in Files
    BY <1>2, <1>3, <1>5 DEF WriteInterrupted
  <2> QED BY <1>1, <1>5, <2>1 DEF WriteInterrupted
<1> QED BY <1>4, <1>5

LEMMA CallType ==
  ASSUME TypeInv, NEW c \in Calls, CallStep(c) PROVE TypeInv'
<1> USE DEF TypeInv, TypeOK, SubmittedInv, Goto, processVars, historyVars
<1>1. CASE BeginSave(c) \/ BeginReset(c)
  BY <1>1, BeginType DEF BeginSave, BeginReset
<1>2. CASE Open(c)
  BY <1>2 DEF Open, Files
<1>3. CASE Write(c) \/ WriteInterrupted(c)
  BY <1>3, WriteType
<1>4. CASE Remove(c)
  BY <1>4 DEF Remove, Answer, Files, NoFile
<1>5. CASE Refused(c)
  BY <1>5 DEF Refused
<1> QED BY <1>1, <1>2, <1>3, <1>4, <1>5 DEF CallStep

LEMMA TypeInvariant == Spec => []TypeInv
<1>1. TypeInv /\ [Next]_vars => TypeInv'
  <2> SUFFICES ASSUME TypeInv, [Next]_vars PROVE TypeInv'
    OBVIOUS
  <2> USE DEF TypeInv, TypeOK, SubmittedInv
  <2>1. CASE UNCHANGED vars
    BY <2>1 DEF vars, processVars, historyVars
  <2>2. CASE \E c \in Calls : CallStep(c)
    BY <2>2, CallType
  <2>3. CASE AuthChanges
    BY <2>3 DEF AuthChanges, UnderWay
  <2>4. CASE Exit
    BY <2>4 DEF Exit, UnderWay, historyVars
  <2>5. CASE Start
    <3>1. \A l \in {Load(file), Fallback} :
            l.server \in Servers \cup {Embedded} /\ l.override \in BOOLEAN
      <4>1. Fallback.server = Embedded /\ Fallback.override = FALSE
        BY DEF Fallback
      <4>2. CASE file.value \in Valid
        <5>1. Load(file).server = file.value /\ Load(file).override = TRUE
          BY <4>2 DEF Load
        <5> QED BY <4>1, <4>2, <5>1, ValidAreServers
      <4>3. CASE file.value \notin Valid
        BY <4>1, <4>3 DEF Load
      <4> QED BY <4>2, <4>3
    <3> QED BY <2>5, <3>1 DEF Start, historyVars
  <2> QED BY <2>1, <2>2, <2>3, <2>4, <2>5 DEF Next
<1> QED BY <1>1, TypeInit, PTL DEF Spec

\* The state of the process, the file and the calls keeps its shape.
THEOREM TypeCorrect == Spec => []TypeOK
<1>1. TypeInv => TypeOK
  BY DEF TypeInv
<1> QED BY <1>1, TypeInvariant, PTL
-----------------------------------------------------------------------------
(***************************************************************************)
(* The file and the answers                                                *)
(***************************************************************************)

\* A call that is under way beside another is known to be.
OverlapInv == \A c, d \in UnderWay : c # d => c \in overlapped

\* A call that has the file to itself has emptied it.
WriterInv ==
  \A c \in Calls : pc[c] = "open" =>
    /\ promised = Unknown
    /\ c \notin overlapped => c \in attached /\ file = [value |-> Torn, length |-> 0]

\* What was promised is in the file, and is nothing the next start would refuse.
PromiseInv ==
  promised # Unknown => file.value = promised /\ promised \in Valid \cup {Absent}

LEMMA OverlapStep ==
  ASSUME TypeInv, OverlapInv, [Next]_vars PROVE OverlapInv'
<1> USE DEF TypeInv, TypeOK, OverlapInv, UnderWay, Goto, historyVars
<1>1. CASE UNCHANGED vars \/ AuthChanges \/ Exit \/ Start
  BY <1>1 DEF vars, AuthChanges, Exit, Start
<1>2. ASSUME NEW c \in Calls, CallStep(c) PROVE OverlapInv'
  <2>1. CASE \E v : Begin(c, v)
    BY <2>1 DEF Begin
  <2>2. CASE Open(c) \/ Write(c) \/ WriteInterrupted(c) \/ Remove(c) \/ Refused(c)
    BY <2>2 DEF Open, Write, WriteInterrupted, Remove, Refused, Answer
  <2> QED BY <1>2, <2>1, <2>2 DEF CallStep, BeginSave, BeginReset
<1> QED BY <1>1, <1>2 DEF Next

\* A text that is written over an empty file is the file.
LEMMA WholeText ==
  ASSUME NEW s \in Servers
  PROVE  Overwritten([value |-> Torn, length |-> 0], s, Length[s]).value = s
  BY TextsAreNotEmpty DEF Overwritten

LEMMA FileStep ==
  ASSUME TypeInv, OverlapInv, WriterInv, PromiseInv, [Next]_vars PROVE WriterInv' /\ PromiseInv'
<1> USE DEF TypeInv, TypeOK, SubmittedInv, WriterInv, PromiseInv, Goto, historyVars
<1>1. CASE UNCHANGED vars \/ AuthChanges \/ Exit \/ Start
  BY <1>1 DEF vars, AuthChanges, Exit, Start, UnderWay
<1>2. ASSUME NEW c \in Calls, CallStep(c) PROVE WriterInv' /\ PromiseInv'
  <2>1. CASE \E v : Begin(c, v)
    BY <2>1 DEF Begin, UnderWay
  <2> DEFINE Others == \A d \in Calls : d # c /\ pc[d] = "open" => c \in overlapped /\ d \in overlapped
  <2>2. ASSUME pc[c] \in {"checked", "open"} PROVE Others
    BY <2>2 DEF OverlapInv, UnderWay
  <2>3. CASE Open(c)
    BY <2>2, <2>3 DEF Open
  <2>4. CASE Write(c)
    <3>1. submitted[c] \in Servers
      BY <2>4, ValidAreServers DEF Write
    <3>2. c \notin overlapped => file'.value = submitted[c]
      BY <2>4, <3>1, WholeText DEF Write
    <3> QED BY <2>2, <2>4, <3>2 DEF Write, Answer
  <2>5. CASE WriteInterrupted(c)
    BY <2>2, <2>5 DEF WriteInterrupted
  <2>6. CASE Remove(c)
    BY <2>2, <2>6 DEF Remove, Answer, NoFile
  <2>7. CASE Refused(c)
    BY <2>7 DEF Refused
  <2> QED BY <1>2, <2>1, <2>3, <2>4, <2>5, <2>6, <2>7 DEF CallStep, BeginSave, BeginReset
<1> QED BY <1>1, <1>2 DEF Next

FileInv == OverlapInv /\ WriterInv /\ PromiseInv

LEMMA FileInvariant == Spec => []FileInv
<1>1. Init => FileInv
  BY DEF Init, FileInv, OverlapInv, WriterInv, PromiseInv, UnderWay, NoFile, Holding
<1>2. TypeInv /\ FileInv /\ [Next]_vars => FileInv'
  BY OverlapStep, FileStep DEF FileInv
<1> QED BY <1>1, <1>2, TypeInvariant, PTL DEF Spec

\* What the last call that returned Ok has written is what the next start applies.
THEOREM AnswersTakeEffect == Spec => []LastAnswerTakesEffect
<1>1. FileInv => LastAnswerTakesEffect
  BY DEF FileInv, PromiseInv, LastAnswerTakesEffect, Load
<1> QED BY <1>1, FileInvariant, PTL
-----------------------------------------------------------------------------
(***************************************************************************)
(* The file and the session                                                *)
(***************************************************************************)

\* A call that is under way beside a session or a login was there before it.
SurprisedInv == auth # "out" => UnderWay \subseteq surprised

LEMMA SurprisedInvariant == Spec => []SurprisedInv
<1> USE DEF SurprisedInv, UnderWay, TypeInv, TypeOK, Goto, processVars, historyVars
<1>1. Init => SurprisedInv
  BY DEF Init
<1>2. TypeInv /\ SurprisedInv /\ [Next]_vars => SurprisedInv'
  <2> SUFFICES ASSUME TypeInv, SurprisedInv, [Next]_vars PROVE SurprisedInv'
    OBVIOUS
  <2>1. CASE UNCHANGED vars \/ AuthChanges \/ Exit \/ Start
    BY <2>1 DEF vars, AuthChanges, Exit, Start
  <2>2. ASSUME NEW c \in Calls, CallStep(c) PROVE SurprisedInv'
    BY <2>2 DEF CallStep, BeginSave, BeginReset, Begin, Open, Write, WriteInterrupted, Remove,
       Refused, Answer
  <2> QED BY <2>1, <2>2 DEF Next
<1> QED BY <1>1, <1>2, TypeInvariant, PTL DEF Spec

\* The file changes beside a session or a login only by a call that had looked
\* before the login began.
THEOREM SurprisedWriters == Spec => OnlySurprisedCallsWrite
<1> DEFINE A == file' # file /\ auth # "out" => \E c \in surprised : pc'[c] # pc[c]
<1>1. ASSUME TypeInv, SurprisedInv, Next PROVE A
  <2>1. CASE AuthChanges \/ Exit \/ Start
    BY <2>1 DEF AuthChanges, Exit, Start
  <2>2. ASSUME NEW c \in Calls, CallStep(c), file' # file
        PROVE  c \in UnderWay /\ pc'[c] # pc[c]
    BY <1>1, <2>2 DEF CallStep, BeginSave, BeginReset, Begin, Open, Write, WriteInterrupted, Remove,
       Refused, Answer, Goto, UnderWay, TypeInv, TypeOK
  <2> QED BY <1>1, <2>1, <2>2 DEF Next, SurprisedInv
<1>2. UNCHANGED vars => A
  BY DEF vars
<1> QED BY <1>1, <1>2, TypeInvariant, SurprisedInvariant, PTL DEF Spec, OnlySurprisedCallsWrite
=============================================================================
