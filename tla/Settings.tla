------------------------------ MODULE Settings ------------------------------
(***************************************************************************)
(* The per-user server settings: save_server_settings and                  *)
(* reset_server_settings (lib.rs), the file server.json they leave, and    *)
(* what the next start makes of it (config.rs, lib.rs: setup).             *)
(*                                                                         *)
(* The commands look at the runtime state under its lock, release it, and  *)
(* then write with std::fs::write, which opens and truncates the file and  *)
(* writes it from its beginning: two steps, and a write over what another  *)
(* handle has written meanwhile leaves the longer of the two texts' tail.  *)
(***************************************************************************)
EXTENDS Naturals, FiniteSets

CONSTANTS
  Calls,      \* the calls of the two commands
  Servers,    \* the settings that may be submitted
  Valid,      \* those that validate_server_settings accepts
  Length,     \* of each, the length of its JSON text
  Embedded,   \* the server of the embedded deployment
  Absent,     \* there is no file
  Torn,       \* the file holds something that is not settings
  Unknown     \* nothing was promised

ASSUME ValidAreServers == Valid \subseteq Servers
ASSUME TextsAreNotEmpty == Length \in [Servers -> Nat \ {0}]
ASSUME MarksAreNotServers ==
  /\ Servers \cap {Embedded, Absent, Torn, Unknown} = {}
  /\ Cardinality({Embedded, Absent, Torn, Unknown}) = 4

VARIABLES
  running,     \* whether the application runs
  config,      \* AppState::config, the server in it
  override,    \* AppState::server_override
  auth,        \* session and login_cancel: "out" (neither), "pending" or "in"
  file,        \* server.json: what it holds, and its length
  attached,    \* the open handles that still are of server.json
  pc,          \* where each call is
  submitted,   \* what each call is to leave in the file
  promised,    \* history: what the last call that returned Ok has promised
  overlapped,  \* history: the calls that were under way beside another
  surprised    \* history: the calls under way when a login began

vars == <<running, config, override, auth, file, attached, pc, submitted,
          promised, overlapped, surprised>>
processVars == <<running, config, override, auth>>
historyVars == <<overlapped, surprised>>

Files == [value : Servers \cup {Absent, Torn}, length : Nat]
NoFile == [value |-> Absent, length |-> 0]
Holding(s) == [value |-> s, length |-> Length[s]]

Fallback == [server |-> Embedded, override |-> FALSE]

\* load_with_server_settings, and what setup makes of an error.
Load(f) == IF f.value \in Valid THEN [server |-> f.value, override |-> TRUE] ELSE Fallback

UnderWay == {c \in Calls : pc[c] \in {"checked", "open"}}

Init ==
  /\ running = FALSE /\ auth = "out"
  /\ config = Embedded /\ override = FALSE
  /\ file \in {NoFile} \cup {Holding(s) : s \in Valid}
  /\ promised = file.value
  /\ attached = {}
  /\ pc = [c \in Calls |-> "idle"]
  /\ submitted = [c \in Calls |-> Absent]
  /\ overlapped = {} /\ surprised = {}

Goto(c, label) == pc' = [pc EXCEPT ![c] = label]

\* Variant: nobody looks whether there is a session or a login.
BeginAtAnyTime(c, value) ==
  /\ running
  /\ pc[c] = "idle"
  /\ submitted' = [submitted EXCEPT ![c] = value]
  /\ overlapped' = overlapped \cup (IF UnderWay = {} THEN {} ELSE UnderWay \cup {c})
  /\ Goto(c, "checked")
  /\ UNCHANGED <<processVars, file, attached, promised, surprised>>

\* A call passes ensure_server_settings_editable and releases the lock.
Begin(c, value) ==
  /\ running
  /\ pc[c] = "idle"
  /\ auth = "out"
  /\ submitted' = [submitted EXCEPT ![c] = value]
  /\ overlapped' = overlapped \cup (IF UnderWay = {} THEN {} ELSE UnderWay \cup {c})
  /\ Goto(c, "checked")
  /\ UNCHANGED <<processVars, file, attached, promised, surprised>>

\* The settings are valid: they differ from those of the embedded deployment in
\* four fields, and validate() looks at the deployment they result in.
BeginSave(c) == \E s \in Valid : Begin(c, s)

\* The button is enabled by the override that this start has found.
BeginReset(c) == override /\ Begin(c, Absent)

\* Variant: the file is opened without being truncated.
OpenWithoutTruncating(c) ==
  /\ pc[c] = "checked" /\ submitted[c] # Absent
  /\ file' = IF file.value = Absent THEN [value |-> Torn, length |-> 0] ELSE file
  /\ attached' = attached \cup {c}
  /\ promised' = Unknown
  /\ Goto(c, "open")
  /\ UNCHANGED <<processVars, submitted, historyVars>>

\* fs::write begins: the file is created or emptied.
Open(c) ==
  /\ pc[c] = "checked" /\ submitted[c] # Absent
  /\ file' = [value |-> Torn, length |-> 0]
  /\ attached' = attached \cup {c}
  /\ promised' = Unknown
  /\ Goto(c, "open")
  /\ UNCHANGED <<processVars, submitted, historyVars>>

Longer(m, n) == IF m > n THEN m ELSE n

\* The first n bytes of the text of s are written over what the file holds.
Overwritten(f, s, n) ==
  [value  |-> IF n = Length[s] /\ f.length <= n THEN s
              ELSE IF n = 0 \/ f.value = s THEN f.value ELSE Torn,
   length |-> Longer(f.length, n)]

\* A call returns Ok: it vouches for the file if it was alone.
Answer(c) ==
  /\ promised' = IF c \in overlapped THEN Unknown ELSE submitted[c]
  /\ Goto(c, "done")

\* Variant: the handle is leaked.
WriteKeepsHandle(c) ==
  /\ pc[c] = "open"
  /\ file' = IF c \in attached THEN Overwritten(file, submitted[c], Length[submitted[c]])
             ELSE file
  /\ Answer(c)
  /\ UNCHANGED <<processVars, attached, submitted, historyVars>>

\* The rest of fs::write.  A handle whose file was removed writes into nothing.
Write(c) ==
  /\ pc[c] = "open"
  /\ file' = IF c \in attached THEN Overwritten(file, submitted[c], Length[submitted[c]])
             ELSE file
  /\ attached' = attached \ {c}
  /\ Answer(c)
  /\ UNCHANGED <<processVars, submitted, historyVars>>

\* The write fails, or the process is killed in it, after some of the bytes.
WriteInterrupted(c) ==
  /\ pc[c] = "open"
  /\ \E n \in 0..Length[submitted[c]] - 1 :
       file' = IF c \in attached THEN Overwritten(file, submitted[c], n) ELSE file
  /\ attached' = attached \ {c}
  /\ Goto(c, "failed")
  /\ UNCHANGED <<processVars, submitted, promised, historyVars>>

\* remove_file; that there is no file is no error.
Remove(c) ==
  /\ pc[c] = "checked" /\ submitted[c] = Absent
  /\ file' = NoFile
  /\ attached' = {}
  /\ Answer(c)
  /\ UNCHANGED <<processVars, submitted, historyVars>>

\* The directory, the file or the removal is refused: nothing has changed.
Refused(c) ==
  /\ pc[c] = "checked"
  /\ Goto(c, "failed")
  /\ UNCHANGED <<processVars, file, attached, submitted, promised, historyVars>>

\* Logins, sign-outs and expiry, which Session models in detail, seen from here.
AuthChanges ==
  /\ running
  /\ auth' \in {"out", "pending", "in"} \ {auth}
  /\ surprised' = surprised \cup (IF auth = "out" THEN UnderWay ELSE {})
  /\ UNCHANGED <<running, config, override, file, attached, pc, submitted, promised, overlapped>>

\* The application ends, with whatever is under way.
Exit ==
  /\ running
  /\ running' = FALSE /\ auth' = "out"
  /\ pc' = [c \in Calls |-> IF c \in UnderWay THEN "failed" ELSE pc[c]]
  /\ attached' = {}
  /\ UNCHANGED <<config, override, file, submitted, promised, historyVars>>

\* setup: the file is read, and applied if it parses and validates.  A file that
\* cannot be read counts as one that does not parse.
Start ==
  /\ ~running
  /\ running' = TRUE
  /\ \E loaded \in {Load(file), Fallback} :
       config' = loaded.server /\ override' = loaded.override
  /\ UNCHANGED <<auth, file, attached, pc, submitted, promised, historyVars>>

CallStep(c) == \/ BeginSave(c) \/ BeginReset(c)
               \/ Open(c) \/ Write(c) \/ WriteInterrupted(c)
               \/ Remove(c) \/ Refused(c)

Next == \/ \E c \in Calls : CallStep(c)
        \/ AuthChanges
        \/ Exit \/ Start

Spec == Init /\ [][Next]_vars

(***************************************************************************)
(* Properties                                                              *)
(***************************************************************************)

\* The state of the process, the file and the calls keeps its shape; a handle
\* belongs to a call that is writing.
TypeOK ==
  /\ running \in BOOLEAN /\ override \in BOOLEAN
  /\ config \in Servers \cup {Embedded}
  /\ auth \in {"out", "pending", "in"}
  /\ file \in Files
  /\ pc \in [Calls -> {"idle", "checked", "open", "done", "failed"}]
  /\ submitted \in [Calls -> Servers \cup {Absent}]
  /\ attached \in SUBSET {c \in Calls : pc[c] = "open"}
  /\ promised \in Servers \cup {Absent, Unknown}
  /\ overlapped \in SUBSET Calls /\ surprised \in SUBSET Calls

\* What the last call that returned Ok has written is what the next start applies,
\* whatever failed or was interrupted before, as long as no call overlapped it:
\* no error, exit or shorter text leaves a file behind that is then ignored.
LastAnswerTakesEffect ==
  promised # Unknown =>
    /\ file.value = promised
    /\ promised # Absent => Load(file) = [server |-> promised, override |-> TRUE]

\* The file changes beside a session or a login only by a call that had looked
\* before the login began, and released the lock.
OnlySurprisedCallsWrite ==
  [][ file' # file /\ auth # "out" => \E c \in surprised : pc'[c] # pc[c] ]_vars
=============================================================================
