------------------------------ MODULE Plugins ------------------------------
(***************************************************************************)
(* PluginManager: the life of each plugin from discovery to unloading.     *)
(* What its operations do to the records, the registry and the detector is *)
(* in PluginWorld.                                                         *)
(*                                                                         *)
(* What a candidate turns out to be is decided when it is imported: its    *)
(* import may fail, naming nothing; its metadata may name it and a later   *)
(* step fail; or it yields a transformer and sniffers.  Everything runs on *)
(* the event loop without an await, so each call is one step.              *)
(***************************************************************************)
EXTENDS PluginWorld

VARIABLES
  phase,  \* "loading", "attaching" or "attached"
  next    \* the candidate to be loaded, then attached, next

vars == <<phase, next, records, registry, detector>>

Failed(c) == [NoRecord EXCEPT !.state = "failed", !.owner = c]
Built(c, n, sniffers) ==
  [state |-> IF n \in DisabledNames THEN "disabled" ELSE "loaded",
   owner |-> c, transformer |-> TRUE, sniffers |-> sniffers]

\* Sniffers a plugin may bring: none, one, or two, even two of one name.
Sniffings == {<<>>} \cup {<<s>> : s \in SnifferNames} \cup {<<s, t>> : s, t \in SnifferNames}

Init ==
  /\ phase = "loading" /\ next = 1
  /\ records = [n \in Names |-> NoRecord]
  /\ registry = {[name |-> n, owner |-> Gateway] :
                   n \in BuiltIns \cup IF PromptEnabled THEN {Prompt} ELSE {}}
  /\ detector = {[name |-> s, owner |-> Gateway] : s \in BuiltInSniffers}

-----------------------------------------------------------------------------
(* load().                                                                 *)

\* The record goes in under its name, unless the name is taken.
Keep(n, record) ==
  records' = IF records[n].state = "unknown" THEN [records EXCEPT ![n] = record] ELSE records

Loading(c) ==
  /\ phase = "loading" /\ next = c /\ c \in Candidates
  /\ next' = next + 1
  /\ UNCHANGED <<phase, registry, detector>>

\* It fails before its metadata is accepted: importing it raises, or what that
\* returns has no metadata, another API version or is lossy.  The record keeps
\* the provisional name.
LoadUnnamed(c) ==
  /\ Loading(c)
  /\ Keep(Provisional[c], Failed(c))

\* Its metadata names it, and construction or validation fails.
LoadNamed(c, n) ==
  /\ Loading(c) /\ records[n].state = "unknown"
  /\ Keep(n, Failed(c))

\* DuplicatePluginError: the name has a record.
LoadDuplicate(c, n) ==
  /\ Loading(c) /\ records[n].state # "unknown"
  /\ Keep(n, Failed(c))

Load(c, n, sniffers) ==
  /\ Loading(c) /\ records[n].state = "unknown"
  /\ Keep(n, Built(c, n, sniffers))

Loaded ==
  /\ phase = "loading" /\ next \notin Candidates
  /\ phase' = "attaching" /\ next' = 1
  /\ UNCHANGED <<records, registry, detector>>

-----------------------------------------------------------------------------
(* attach(), enable() and disable().                                       *)

\* attach() registers the loaded records in the order they were loaded in.
Attach(c) ==
  /\ phase = "attaching" /\ next = c /\ c \in Candidates
  /\ next' = next + 1
  /\ IF \E n \in Names : records[n].owner = c /\ records[n].state = "loaded"
     THEN \E n \in Names :
            /\ records[n].owner = c /\ records[n].state = "loaded"
            /\ Become(Registered(World, n))
     ELSE UNCHANGED <<records, registry, detector>>
  /\ UNCHANGED phase

\* The lifespan, once the plugins are attached, sets the prompt switch.
Attached ==
  /\ phase = "attaching" /\ next \notin Candidates
  /\ phase' = "attached"
  /\ Become(Prompting(World, PromptEnabled))
  /\ UNCHANGED next

\* enable("prompt") and disable("prompt") of the internal API.
SetPrompt(on) ==
  /\ phase = "attached"
  /\ Become(Prompting(World, on))
  /\ UNCHANGED <<phase, next>>

Known(n) == phase = "attached" /\ records[n].state # "unknown"

Enable(n) ==
  /\ Known(n) /\ records[n].state \notin {"enabled", "failed"}
  /\ Become(Registered([World EXCEPT !.records[n].state = "loaded"], n))
  /\ UNCHANGED <<phase, next>>

Disable(n) ==
  /\ Known(n)
  /\ Become([Unregistered(World, n) EXCEPT !.records[n].state = "disabled"])
  /\ UNCHANGED <<phase, next>>

Unload(n) ==
  /\ Known(n)
  /\ Become([Unregistered(World, n) EXCEPT !.records[n] = NoRecord])
  /\ UNCHANGED <<phase, next>>

Next ==
  \/ \E c \in Candidates :
       \/ LoadUnnamed(c)
       \/ \E n \in Names :
            \/ LoadNamed(c, n) \/ LoadDuplicate(c, n)
            \/ \E sniffers \in Sniffings : Load(c, n, sniffers)
  \/ Loaded \/ Attached
  \/ \E c \in Candidates : Attach(c)
  \/ \E on \in BOOLEAN : SetPrompt(on)
  \/ \E n \in Names : Enable(n) \/ Disable(n) \/ Unload(n)

Spec == Init /\ [][Next]_vars
=============================================================================
