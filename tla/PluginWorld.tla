---------------------------- MODULE PluginWorld ----------------------------
(***************************************************************************)
(* What the plugin manager's operations change: its records, the           *)
(* transformer registry and the content detector plugins attach to, which  *)
(* the prompt switch changes too.  Each operation is a function of such a  *)
(* world; when they are called is in Plugins, which extends this module.   *)
(***************************************************************************)
EXTENDS Integers, Sequences, FiniteSets

CONSTANTS
  Candidates,      \* discovered candidates; their order is their precedence
  Provisional,     \* Provisional[n]: the name the n-th is discovered under
  Names,           \* names metadata may give
  SnifferNames,    \* names of sniffers plugins bring
  DisabledNames,   \* plugins_disabled
  BuiltIns,        \* names of the builtin transformers
  BuiltInSniffers, \* names of the default sniffers
  PromptEnabled    \* prompt_optimization_enabled at boot

Prompt        == "prompt"
PromptSniffer == "prompt-structure"
Gateway       == 0     \* who owns what is no plugin's

ASSUME CandidatesAssumption ==
  /\ IsFiniteSet(Candidates) /\ Candidates = 1..Cardinality(Candidates)
  /\ Provisional \in [Candidates -> Names]
  /\ Prompt \notin BuiltIns /\ PromptSniffer \notin BuiltInSniffers
  /\ PromptEnabled \in BOOLEAN

VARIABLES
  records,    \* _records: what is known under each name
  registry,   \* TransformerRegistry: [name, owner]
  detector    \* ContentDetector: [name, owner]

Named(things)    == {t.name : t \in things}
Remove(things, n) == {t \in things : t.name # n}

NoRecord == [state |-> "unknown", owner |-> Gateway, transformer |-> FALSE, sniffers |-> <<>>]

-----------------------------------------------------------------------------
(* The operations.                                                         *)

\* The names add_sniffer has added when it raises, or all of them.
Added(sniffers, taken) ==
  {i \in DOMAIN sniffers : \A j \in 1..i :
     sniffers[j] \notin taken /\ \A k \in 1..(j - 1) : sniffers[k] # sniffers[j]}

\* _register: the transformer, then each sniffer; any refusal takes back what
\* this very call had added.
Registered(world, n) ==
  LET record == world.records[n]
      refused == n \in Named(world.registry)
      complete == Added(record.sniffers, Named(world.detector)) = DOMAIN record.sniffers
  IN
  IF ~record.transformer THEN world
  ELSE IF refused \/ ~complete
  THEN [world EXCEPT !.records[n].state = "failed"]
  ELSE [records  |-> [world.records EXCEPT ![n].state = "enabled"],
        registry |-> world.registry \cup {[name |-> n, owner |-> record.owner]},
        detector |-> world.detector \cup
          {[name |-> record.sniffers[i], owner |-> record.owner] : i \in DOMAIN record.sniffers}]

World == [records |-> records, registry |-> registry, detector |-> detector]
Become(world) ==
  /\ records' = world.records /\ registry' = world.registry /\ detector' = world.detector

\* Mutant: the sniffers are left behind.
UnregisteredHalf(world, n) ==
  IF world.records[n].state # "enabled" THEN world
  ELSE [world EXCEPT !.registry = Remove(@, n)]

\* _unregister, when the record is enabled.
Unregistered(world, n) ==
  LET mine == {world.records[n].sniffers[i] : i \in DOMAIN world.records[n].sniffers} IN
  IF world.records[n].state # "enabled" THEN world
  ELSE [world EXCEPT !.registry = Remove(@, n), !.detector = {t \in @ : t.name \notin mine}]

\* apply_prompt_optimization.
Prompting(world, on) ==
  IF on
  THEN [world EXCEPT
         !.registry = IF Prompt \in Named(@) THEN @
                      ELSE @ \cup {[name |-> Prompt, owner |-> Gateway]},
         !.detector = IF PromptSniffer \in Named(@) THEN @
                      ELSE @ \cup {[name |-> PromptSniffer, owner |-> Gateway]}]
  ELSE [world EXCEPT !.registry = Remove(@, Prompt), !.detector = Remove(@, PromptSniffer)]

-----------------------------------------------------------------------------
(* Properties.                                                             *)

Enabled == {n \in Names : records[n].state = "enabled"}

\* The report tells the truth, whatever failed, was rolled back, switched or unloaded
\* before: the builtins are there; every plugin's transformer and sniffer in the
\* registry and the detector belongs to a plugin it calls enabled, and the transformer
\* and sniffers of each such plugin are there, unless they are under the two names the
\* prompt switch adds and removes without asking whose they are; and a name stands for
\* one thing.
RegistryIsTheReport ==
  LET BuiltIn(names) == {[name |-> n, owner |-> Gateway] : n \in names}
      Transformers   == {[name |-> n, owner |-> records[n].owner] : n \in Enabled}
      Sniffers       == UNION {{[name |-> records[n].sniffers[i], owner |-> records[n].owner] :
                                  i \in DOMAIN records[n].sniffers} : n \in Enabled}
  IN
  /\ BuiltIn(BuiltIns) \subseteq registry /\ BuiltIn(BuiltInSniffers) \subseteq detector
  /\ {t \in registry : t.owner # Gateway} \subseteq Transformers
  /\ {t \in Transformers : t.name # Prompt} \subseteq registry
  /\ {t \in detector : t.owner # Gateway} \subseteq Sniffers
  /\ {t \in Sniffers : t.name # PromptSniffer} \subseteq detector
  /\ \A t, u \in registry : t.name = u.name => t = u
  /\ \A t, u \in detector : t.name = u.name => t = u
=============================================================================
