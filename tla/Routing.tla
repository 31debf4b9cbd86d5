------------------------------ MODULE Routing ------------------------------
(***************************************************************************)
(* configure_routing and restore_routing of lifecycle.py: pointing Claude  *)
(* Code's settings file at the gateway and putting back what was there, by *)
(* way of a state file beside it.                                          *)
(*                                                                         *)
(* Each read and write of a file is a step.  A write is two: a temporary   *)
(* file, then os.replace.  Either may fail.  A command may be killed       *)
(* between any two steps, and whoever else edits the settings does so      *)
(* between or, if EditsInFlight, during commands.                          *)
(***************************************************************************)
EXTENDS Naturals

CONSTANTS
  Commands,       \* invocations of zibbo that may be under way at once
  Gateways,       \* the values of ANTHROPIC_BASE_URL that route to a gateway
  Endpoints,      \* the user's own
  NoUrl,          \* the variable's absence
  OneAtATime,     \* commands do not overlap
  Crashes,        \* commands may be killed
  EditsInFlight,  \* settings are edited during commands
  EditsUrl,       \* and so is the variable
  MaxCalls, MaxEdits

ASSUME RoutingAssumption ==
  /\ NoUrl \in Endpoints /\ Gateways \cap Endpoints = {}
  /\ OneAtATime \in BOOLEAN /\ Crashes \in BOOLEAN
  /\ EditsInFlight \in BOOLEAN /\ EditsUrl \in BOOLEAN
  /\ MaxCalls \in Nat /\ MaxEdits \in Nat
  /\ "not saved" \notin Endpoints

VARIABLES
  target,     \* the settings file
  backup,     \* the state file
  targetTmp,  \* what a write left for os.replace, beside the one
  backupTmp,  \* and beside the other
  at,         \* at[c]: where each command is, and what it holds
  calls, edits

files == <<target, backup, targetTmp, backupTmp>>
vars  == <<target, backup, targetTmp, backupTmp, at, calls, edits>>

Urls  == Gateways \cup Endpoints
Forms == {"missing", "object", "invalid"}

\* A settings file: whether it parses, the variable, and all else it says, which
\* is how many edits of it the file shows.
File(form, url, other) == [form |-> form, url |-> url, other |-> other]
Missing == File("missing", NoUrl, 0)
\* A state file: none, somebody else's, or ours with the original variable.
State(form, url) == [form |-> form, url |-> url]
NoState == State("none", NoUrl)

\* What a command holds that has just read the files.
Holding(op, url, pc, result) ==
  [pc |-> pc, op |-> op, url |-> url, data |-> target, made |-> FALSE, result |-> result,
   before |-> <<target, backup, edits>>]

Init ==
  /\ target \in {Missing} \cup {File("object", u, 0) : u \in Endpoints}
  /\ backup \in {NoState, State("foreign", NoUrl)}
  /\ targetTmp = Missing /\ backupTmp = NoState
  /\ calls = 0 /\ edits = 0
  /\ at = [c \in Commands |-> Holding("none", NoUrl, "idle", "none")]

At(c, pc) == at[c].pc = pc
Go(c, pc) == at' = [at EXCEPT ![c].pc = pc]
End(c, result) == at' = [at EXCEPT ![c].pc = "idle", ![c].result = result]

\* A command begins.
Begin(c) ==
  /\ At(c, "idle") /\ calls < MaxCalls /\ calls' = calls + 1
  /\ OneAtATime => \A d \in Commands : At(d, "idle")
  /\ UNCHANGED <<files, edits>>

-----------------------------------------------------------------------------
(* configure_routing.                                                      *)

\* _load(target): a SettingsError, already routed, or on to the state file.
Configure(c, g) ==
  /\ Begin(c)
  /\ \/ target.form = "invalid"
        /\ at' = [at EXCEPT ![c] = Holding("connect", g, "idle", "error")]
     \/ target.form # "invalid" /\ target.url = g
        /\ at' = [at EXCEPT ![c] = Holding("connect", g, "idle", "already")]
     \/ target.form # "invalid" /\ target.url # g
        /\ at' = [at EXCEPT ![c] = Holding("connect", g, "find", "none")]

\* Mutant: the state is only ever looked up.
FindNoState(c) ==
  /\ At(c, "find")
  /\ IF backup.form = "foreign" THEN End(c, "error") ELSE Go(c, "write")
  /\ UNCHANGED <<files, calls, edits>>

\* The state is recorded once, and never over a file that is not ours.
FindState(c) ==
  /\ At(c, "find")
  /\ \/ backup.form = "none" /\ Go(c, "record")
     \/ backup.form = "foreign" /\ End(c, "error")
     \/ backup.form = "ours" /\ Go(c, "write")
  /\ UNCHANGED <<files, calls, edits>>

RecordState(c) ==
  /\ At(c, "record") /\ Go(c, "install state")
  /\ backupTmp' = State("ours", at[c].data.url)
  /\ UNCHANGED <<target, backup, targetTmp, calls, edits>>

InstallState(c) ==
  /\ At(c, "install state") /\ backupTmp # NoState
  /\ backup' = backupTmp /\ backupTmp' = NoState
  /\ at' = [at EXCEPT ![c].pc = "write", ![c].made = TRUE]
  /\ UNCHANGED <<target, targetTmp, calls, edits>>

\* An OSError in either step; a failed replace takes the temporary file away.
FailState(c) ==
  /\ \/ At(c, "record") /\ UNCHANGED backupTmp
     \/ At(c, "install state") /\ backupTmp' = NoState
  /\ End(c, "error")
  /\ UNCHANGED <<target, backup, targetTmp, calls, edits>>

-----------------------------------------------------------------------------
(* _atomic_write(target), for both operations.                             *)

\* Mutant: the settings are written from scratch.
WriteAnew(c) ==
  /\ At(c, "write") /\ Go(c, "install")
  /\ targetTmp' = File("object", at[c].url, 0)
  /\ UNCHANGED <<target, backup, backupTmp, calls, edits>>

Write(c) ==
  /\ At(c, "write") /\ Go(c, "install")
  /\ targetTmp' = File("object", at[c].url, at[c].data.other)
  /\ UNCHANGED <<target, backup, backupTmp, calls, edits>>

Install(c) ==
  /\ At(c, "install") /\ targetTmp # Missing
  /\ target' = targetTmp /\ targetTmp' = Missing
  /\ IF at[c].op = "connect" THEN End(c, "routed") ELSE Go(c, "forget")
  /\ UNCHANGED <<backup, backupTmp, calls, edits>>

\* Mutant: configure does not look back at the state it recorded.
FailWriteForgetful(c) ==
  /\ \/ At(c, "write") /\ UNCHANGED targetTmp
     \/ At(c, "install") /\ targetTmp' = Missing
  /\ End(c, "error")
  /\ UNCHANGED <<target, backup, backupTmp, calls, edits>>

\* An OSError: configure takes back the state it recorded.
FailWrite(c) ==
  /\ \/ At(c, "write") /\ UNCHANGED targetTmp
     \/ At(c, "install") /\ targetTmp' = Missing
  /\ IF at[c].op = "connect" /\ at[c].made THEN Go(c, "roll back") ELSE End(c, "error")
  /\ UNCHANGED <<target, backup, backupTmp, calls, edits>>

RollBack(c) ==
  /\ At(c, "roll back") /\ backup' = NoState /\ End(c, "error")
  /\ UNCHANGED <<target, targetTmp, backupTmp, calls, edits>>

-----------------------------------------------------------------------------
(* restore_routing.                                                        *)

\* Mutant: the variable is removed whatever it was.
RestoreRemoving(c) ==
  /\ Begin(c)
  /\ IF backup.form = "ours"
     THEN at' = [at EXCEPT ![c] = Holding("disconnect", NoUrl, "load", "none")]
     ELSE at' = [at EXCEPT ![c] = Holding("disconnect", NoUrl, "idle", "nothing")]

\* _read_state: without our state there is nothing to do.
Restore(c) ==
  /\ Begin(c)
  /\ IF backup.form = "ours"
     THEN at' = [at EXCEPT ![c] = Holding("disconnect", backup.url, "load", "none")]
     ELSE at' = [at EXCEPT ![c] = Holding("disconnect", NoUrl, "idle", "nothing")]

\* _load(target); the variable is written back only where there is one.
LoadTarget(c) ==
  /\ At(c, "load")
  /\ \/ target.form = "invalid" /\ End(c, "error")
     \/ target.form = "object" /\ target.url # NoUrl
        /\ at' = [at EXCEPT ![c].pc = "write", ![c].data = target]
     \/ target.form # "invalid" /\ target.url = NoUrl /\ Go(c, "forget")
  /\ UNCHANGED <<files, calls, edits>>

Forget(c) ==
  /\ At(c, "forget") /\ backup' = NoState /\ End(c, "restored")
  /\ UNCHANGED <<target, targetTmp, backupTmp, calls, edits>>

-----------------------------------------------------------------------------
\* The command is killed.
Crash(c) ==
  /\ Crashes /\ ~At(c, "idle") /\ End(c, "killed")
  /\ UNCHANGED <<files, calls, edits>>

\* The user, or Claude Code, edits the settings.
Edit ==
  /\ edits < MaxEdits /\ edits' = edits + 1
  /\ EditsInFlight \/ \A c \in Commands : At(c, "idle")
  /\ \/ target.form # "invalid" /\ target' = [target EXCEPT !.form = "object", !.other = @ + 1]
     \/ target.form = "object" /\ target' = [target EXCEPT !.form = "invalid"]
     \/ target.form = "invalid" /\ target' = [target EXCEPT !.form = "object"]
     \/ EditsUrl /\ \E u \in Endpoints \ {target.url} : target' = [target EXCEPT !.form = "object", !.url = u]
     \/ EditsUrl /\ target.form # "missing" /\ target' = Missing
  /\ UNCHANGED <<backup, targetTmp, backupTmp, at, calls>>

Step(c) ==
  \/ \E g \in Gateways : Configure(c, g)
  \/ FindState(c) \/ RecordState(c) \/ InstallState(c) \/ FailState(c)
  \/ Write(c) \/ Install(c) \/ FailWrite(c) \/ RollBack(c)
  \/ Restore(c) \/ LoadTarget(c) \/ Forget(c)
  \/ Crash(c)

Next == Edit \/ \E c \in Commands : Step(c)

Spec == Init /\ [][Next]_vars

-----------------------------------------------------------------------------
(* Properties.                                                             *)

States == [form : {"none", "foreign", "ours"}, url : Urls]
Files  == [form : Forms, url : Urls, other : Nat]
Locals ==
  [pc : {"idle", "find", "record", "install state", "write", "install", "roll back",
         "load", "forget"},
   op : {"none", "connect", "disconnect"}, url : Urls, data : Files, made : BOOLEAN,
   result : {"none", "error", "already", "routed", "nothing", "restored", "killed"},
   before : Files \X States \X Nat]

\* Every variable has its type.
TypeOK ==
  /\ target \in Files /\ targetTmp \in Files
  /\ backup \in States /\ backupTmp \in States
  /\ at \in [Commands -> Locals]
  /\ calls \in Nat /\ edits \in Nat

AtRest == \A c \in Commands : At(c, "idle")

\* Whenever Claude Code is routed through a gateway, the state that leads back
\* to the user's own endpoint is on disk: at every instant, wherever a command
\* failed or was killed.
WayBack == target.url \in Gateways => backup.form = "ours" /\ backup.url \in Endpoints

\* The settings are read, changed and written back whole, while Claude Code and
\* its user edit them too.  From its first step to its last a command takes back
\* no edit that was made before it began; one made between its read and its
\* replace is lost, against the docstring of configure_routing, and the property
\* leaves that open.  Nor does a command touch a state file it found to be
\* somebody else's.
SettledEditsSurvive ==
  [][\A c \in Commands : ~At(c, "idle") =>
       /\ target'.other >= at[c].before[1].other
       /\ at[c].before[2].form = "foreign" => backup' = at[c].before[2]]_vars

\* Transactional: a command that ends in a SettingsError leaves the state file
\* and the variable as it found them, though it had written one, and all of the
\* settings unless somebody edited them meanwhile.
NoTrace ==
  [][\A c \in Commands :
       at[c].pc # "idle" /\ at'[c].pc = "idle" /\ at'[c].result = "error" =>
         /\ backup' = at[c].before[2] /\ target'.url = at[c].before[1].url
         /\ edits = at[c].before[3] => target' = at[c].before[1]]_vars

\* Connect and disconnect are a switch, thrown in one step, that remembers what
\* was there before the first of several connects.
Switch == INSTANCE RoutingSwitch WITH
  url      <- target.url,
  saved    <- IF target.url \in Gateways THEN backup.url ELSE "not saved",
  NotSaved <- "not saved"
ImplementsSwitch == Switch!Spec
=============================================================================
