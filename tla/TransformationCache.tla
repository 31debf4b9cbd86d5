------------------------- MODULE TransformationCache -------------------------
(***************************************************************************)
(* TransformationCache over its two backends, as the threads of several    *)
(* gateways use it: look up, and on a miss transform and put.  The memory  *)
(* backend is the gateway's own (MemoryCache has its inside); a Redis      *)
(* server is shared by the gateways of one prefix and outlives them.       *)
(*                                                                         *)
(* A gateway that restarts may come back as another deployment: upgraded,  *)
(* or with other settings.  A command to Redis may be carried out or not,  *)
(* and answered or not; a server that is down does neither.                *)
(***************************************************************************)
EXTENDS Integers, FiniteSets

CONSTANTS
  Gateways, Threads,
  GatewayOf,      \* the gateway each thread belongs to
  Contents,       \* what keys tell apart of a request: kind, content hash,
                  \* transformer fingerprint, encoding and qualifier together
  Renderable,     \* contents whose transformation completes
  Deployments,    \* what a gateway may run as; see Deployment
  Fingerprinted,  \* the settings options_fingerprint reads
  Undecodable,    \* forms of damage from_bytes rejects
  Explosive,      \* forms of damage it raises on
  MaxLookups, MaxSpoils, MaxRestarts  \* bounds of the model

\* A deployment: settings is a function of the settings that shape output;
\* url is "none", "good" or one that Redis.from_url cannot parse.
ASSUME DeploymentAssumption == \A d \in Deployments :
  /\ DOMAIN d = {"version", "settings", "redis", "url", "package", "prefix"}
  /\ Fingerprinted \subseteq DOMAIN d.settings
  /\ d.redis \in BOOLEAN /\ d.package \in BOOLEAN
  /\ d.url \in {"none", "good", "bad"}
  /\ d.prefix \notin Gateways
ASSUME ThreadsAssumption ==
  /\ IsFiniteSet(Threads) /\ GatewayOf \in [Threads -> Gateways]
  /\ Renderable \subseteq Contents
  /\ "sound" \notin Undecodable \cup Explosive
  /\ MaxLookups \in Nat /\ MaxSpoils \in Nat /\ MaxRestarts \in Nat

VARIABLES
  deployed,  \* the deployment each gateway runs as
  client,    \* RedisCacheBackend._client and _unavailable of each gateway
  held,      \* [place, key, value] of every backend
  stats,     \* CacheStats of each gateway
  call,      \* where each thread is, with which content; idle, its last one
  answer,    \* what each thread's last lookup or readiness probe led to
  lookups, spoils, restarts,  \* history: what the bounds count
  lost,      \* history: deletes of an unusable entry that were not carried out
  rendered   \* history: transformations each gateway ran after a miss

process == <<deployed, client, stats, rendered>>
history == <<lookups, spoils, restarts, lost>>
vars    == <<process, held, call, answer, history>>

-----------------------------------------------------------------------------
(* Keys, entries and backends.                                             *)

\* Mutant: the options are left out of the key.
FingerprintOfNothing(d) == [s \in {} |-> d.settings[s]]

Fingerprint(d) == [s \in Fingerprinted |-> d.settings[s]]

Key(c, d) == [content |-> c, version |-> d.version, options |-> Fingerprint(d)]

\* What a deployment makes of a content: it depends on every setting.
Rendering(c, d) == [content |-> c, version |-> d.version, settings |-> d.settings]
Nothing         == [content |-> "none"]
Raised          == [content |-> "raised"]
Entry(c, d)     == [form |-> "sound", of |-> Rendering(c, d)]

\* Redis without a URL falls back to memory.
UsesRedis(d) == d.redis /\ d.url # "none"
Place(g)     == IF UsesRedis(deployed[g]) THEN deployed[g].prefix ELSE g

Zero == [hits |-> 0, misses |-> 0, stores |-> 0, errors |-> 0, corrupted |-> 0]
Idle == [step |-> "idle", content |-> "none"]

Runs(t)       == deployed[GatewayOf[t]]
KeyOf(t)      == Key(call[t].content, Runs(t))
Slot(t)       == {x \in held : x.place = Place(GatewayOf[t]) /\ x.key = KeyOf(t)}
At(t, step)   == call[t].step = step
Go(t, step)   == call' = [call EXCEPT ![t].step = step]
Answer(t, a)  == answer' = [answer EXCEPT ![t] = a]
Count(t, es)  == stats' = [stats EXCEPT ![GatewayOf[t]] =
                   [e \in DOMAIN Zero |-> IF e \in es THEN @[e] + 1 ELSE @[e]]]

Init ==
  /\ deployed \in [Gateways -> Deployments]
  /\ client = [g \in Gateways |-> "none"]
  /\ held = {}
  /\ stats = [g \in Gateways |-> Zero]
  /\ call = [t \in Threads |-> Idle]
  /\ answer = [t \in Threads |-> Nothing]
  /\ lookups = 0 /\ spoils = 0 /\ restarts = 0 /\ lost = 0
  /\ rendered = [g \in Gateways |-> 0]

-----------------------------------------------------------------------------
(* _redis and _guard.                                                      *)

\* from_url parses the URL when the client is first built, outside the guard.
Refuses(g) == LET d == deployed[g] IN
  UsesRedis(d) /\ client[g] = "none" /\ d.package /\ d.url = "bad"

\* The client is built once; a missing package is latched.
Connected(g) == IF UsesRedis(deployed[g]) /\ client[g] = "none"
                THEN IF deployed[g].package THEN "built" ELSE "unavailable"
                ELSE client[g]

\* What may become of a command.
Outcomes(g) ==
  IF ~UsesRedis(deployed[g]) THEN {"answered"}
  ELSE IF Connected(g) = "unavailable" THEN {"undone"}
  ELSE {"answered", "unanswered", "undone"}

Command(t) ==
  /\ ~Refuses(GatewayOf[t])
  /\ client' = [client EXCEPT ![GatewayOf[t]] = Connected(GatewayOf[t])]
  /\ UNCHANGED <<deployed, rendered>>

-----------------------------------------------------------------------------
(* One thread: look up, and on a miss transform and put.                   *)

Lookup(t, c) ==
  /\ At(t, "idle") /\ lookups < MaxLookups
  /\ lookups' = lookups + 1
  /\ call' = [call EXCEPT ![t] = [step |-> "get", content |-> c]]
  /\ Answer(t, Nothing)
  /\ UNCHANGED <<process, held, spoils, restarts, lost>>

\* The exception leaves the pipeline and the route.
Raise(t) ==
  /\ Go(t, "idle") /\ Answer(t, Raised)
  /\ UNCHANGED <<held, stats, history>>

\* Only a get meets it: the thread's other commands find the client built.
UrlRaises(t) ==
  /\ At(t, "get") /\ Refuses(GatewayOf[t])
  /\ Raise(t)
  /\ UNCHANGED <<deployed, client, rendered>>

Miss(t) ==
  /\ At(t, "get") /\ Command(t)
  /\ \E o \in Outcomes(GatewayOf[t]) : o # "answered" \/ Slot(t) = {}
  /\ Count(t, {"misses"}) /\ Go(t, "transform")
  /\ UNCHANGED <<held, answer, history>>

Hit(t) ==
  /\ At(t, "get") /\ Command(t) /\ "answered" \in Outcomes(GatewayOf[t])
  /\ \E x \in Slot(t) : x.value.form = "sound" /\ Answer(t, x.value.of)
  /\ Count(t, {"hits"}) /\ Go(t, "idle")
  /\ UNCHANGED <<held, history>>

\* Mutant: an unusable entry is not counted as a miss.
CorruptedOnly(t) ==
  /\ At(t, "get") /\ Command(t) /\ "answered" \in Outcomes(GatewayOf[t])
  /\ \E x \in Slot(t) : x.value.form \in Undecodable
  /\ Count(t, {"corrupted"}) /\ Go(t, "delete")
  /\ UNCHANGED <<held, answer, history>>

\* An unusable entry counts as a miss, and is dropped next.
Corrupted(t) ==
  /\ At(t, "get") /\ Command(t) /\ "answered" \in Outcomes(GatewayOf[t])
  /\ \E x \in Slot(t) : x.value.form \in Undecodable
  /\ Count(t, {"corrupted", "misses"}) /\ Go(t, "delete")
  /\ UNCHANGED <<held, answer, history>>

DecodeRaises(t) ==
  /\ At(t, "get") /\ Command(t) /\ "answered" \in Outcomes(GatewayOf[t])
  /\ \E x \in Slot(t) : x.value.form \in Explosive
  /\ Raise(t)

\* Mutant: the unusable entry stays.
DeleteNothing(t) ==
  /\ At(t, "delete") /\ Command(t)
  /\ held' = held /\ lost' = lost
  /\ Go(t, "transform")
  /\ UNCHANGED <<stats, answer, lookups, spoils, restarts>>

\* By now the key may hold another gateway's fresh entry, which goes too.
Delete(t) ==
  /\ At(t, "delete") /\ Command(t)
  /\ \E o \in Outcomes(GatewayOf[t]) :
       /\ held' = IF o = "undone" THEN held ELSE held \ Slot(t)
       /\ lost' = IF o = "undone" THEN lost + 1 ELSE lost
  /\ Go(t, "transform")
  /\ UNCHANGED <<stats, answer, lookups, spoils, restarts>>

\* The pipeline runs the transformation; only a completed one is put.
Transform(t) ==
  /\ At(t, "transform")
  /\ IF call[t].content \in Renderable
     THEN Answer(t, Rendering(call[t].content, Runs(t))) /\ Go(t, "put")
     ELSE UNCHANGED answer /\ Go(t, "idle")
  /\ rendered' = [rendered EXCEPT ![GatewayOf[t]] = @ + 1]
  /\ UNCHANGED <<deployed, client, stats, held, history>>

\* The memory backend refuses an entry larger than its whole budget.
Put(t) ==
  /\ At(t, "put") /\ Command(t)
  /\ \E o \in Outcomes(GatewayOf[t]) \cup {"undone"} :
       /\ held' = IF o = "undone" THEN held
                  ELSE (held \ Slot(t)) \cup
                         {[place |-> Place(GatewayOf[t]), key |-> KeyOf(t),
                           value |-> Entry(call[t].content, Runs(t))]}
       /\ Count(t, IF o = "answered" THEN {"stores"} ELSE {"errors"})
  /\ Go(t, "idle")
  /\ UNCHANGED <<answer, history>>

-----------------------------------------------------------------------------
(* The readiness probe, and what happens to gateways and to the store.     *)

\* Registered for Redis alone.  The ping is guarded like any command, so that
\* it says ok or degraded; an exception would make it unhealthy.
Probe(t) ==
  /\ At(t, "idle") /\ UsesRedis(Runs(t))
  /\ IF Refuses(GatewayOf[t]) THEN Answer(t, Raised) /\ UNCHANGED process
     ELSE Command(t) /\ UNCHANGED <<stats, answer>>
  /\ UNCHANGED <<held, call, history>>

\* Crashed or closed; its threads end where they are.
Restart(g) ==
  /\ restarts < MaxRestarts /\ restarts' = restarts + 1
  /\ \E d \in Deployments : deployed' = [deployed EXCEPT ![g] = d]
  /\ client' = [client EXCEPT ![g] = "none"]
  /\ stats' = [stats EXCEPT ![g] = Zero]
  /\ rendered' = [rendered EXCEPT ![g] = 0]
  /\ held' = {x \in held : x.place # g}
  /\ call' = [t \in Threads |-> IF GatewayOf[t] = g THEN Idle ELSE call[t]]
  /\ answer' = [t \in Threads |-> IF GatewayOf[t] = g THEN Nothing ELSE answer[t]]
  /\ lost' = lost + Cardinality({t \in Threads : GatewayOf[t] = g /\ At(t, "delete")})
  /\ UNCHANGED <<lookups, spoils>>

\* Expiry, eviction, a flushed server.
Lose ==
  /\ \E x \in held : held' = held \ {x}
  /\ UNCHANGED <<process, call, answer, history>>

\* A value of another schema, or a damaged one, comes to stand under a key.
Spoil ==
  /\ spoils < MaxSpoils /\ spoils' = spoils + 1
  /\ \E d \in Deployments, c \in Contents, f \in Undecodable \cup Explosive :
       LET slot == {x \in held : x.place = d.prefix /\ x.key = Key(c, d)}
       IN  held' = (held \ slot) \cup
             {[place |-> d.prefix, key |-> Key(c, d), value |-> [form |-> f, of |-> Nothing]]}
  /\ UNCHANGED <<process, call, answer, lookups, restarts, lost>>

Step(t) ==
  \/ UrlRaises(t) \/ Miss(t) \/ Hit(t) \/ Corrupted(t) \/ DecodeRaises(t)
  \/ Delete(t) \/ Transform(t) \/ Put(t)

Next ==
  \/ \E t \in Threads : Step(t) \/ Probe(t) \/ \E c \in Contents : Lookup(t, c)
  \/ \E g \in Gateways : Restart(g)
  \/ Lose \/ Spoil

Spec == Init /\ [][Next]_vars

-----------------------------------------------------------------------------
(* Properties.                                                             *)

Renderings == {Rendering(c, d) : c \in Contents, d \in Deployments}
Values     == [form : {"sound"} \cup Undecodable \cup Explosive, of : Renderings \cup {Nothing}]
Places     == Gateways \cup {d.prefix : d \in Deployments}
AllKeys    == {Key(c, d) : c \in Contents, d \in Deployments}

\* Every variable keeps its type, and a place holds one value per key.
TypeOK ==
  /\ deployed \in [Gateways -> Deployments]
  /\ client \in [Gateways -> {"none", "built", "unavailable"}]
  /\ held \subseteq [place : Places, key : AllKeys, value : Values]
  /\ \A x, y \in held : x.place = y.place /\ x.key = y.key => x = y
  /\ stats \in [Gateways -> [DOMAIN Zero -> Nat]]
  /\ call \in [Threads -> {Idle} \cup
                 [step : {"idle", "get", "delete", "transform", "put"}, content : Contents]]
  /\ answer \in [Threads -> Renderings \cup {Nothing, Raised}]
  /\ lookups \in Nat /\ spoils \in Nat /\ restarts \in Nat /\ lost \in Nat
  /\ rendered \in [Gateways -> Nat]

\* Renderings the cache takes for one another: of one content, by one version, under
\* the same value of each setting options_fingerprint reads.
Alike(a, b) ==
  /\ a.content = b.content /\ a.version = b.version
  /\ \A s \in Fingerprinted : a.settings[s] = b.settings[s]

\* A lookup is answered with what this deployment would have made of this content
\* itself, whichever gateway, version or fingerprinted setting filled the store before
\* and whatever was restarted or lost.  Settings the fingerprint leaves out, such as
\* prompt_optimization_min_chars, may be another's, although the docstring of
\* options_fingerprint promises every setting.
ServedAsKeyed ==
  \A t \in Threads :
    answer[t] \in {Nothing, Raised} \/ Alike(answer[t], Rendering(call[t].content, Runs(t)))

Working(g) ==
  {t \in Threads : GatewayOf[t] = g /\ call[t].step \in {"delete", "transform"}}

\* Each miss costs one transformation, and each transformation was a miss,
\* corrupted entries and outages included.
MissesAreWork ==
  \A g \in Gateways : stats[g].misses = rendered[g] + Cardinality(Working(g))

ThreadsOf(g) == {t \in Threads : GatewayOf[t] = g}

\* An entry that from_bytes rejects costs each thread of a gateway one miss at most
\* before it is gone, unless a delete was lost on the way.  Nothing like it holds of an
\* entry from_bytes raises on: no delete follows, and it stands until it is replaced,
\* evicted or expired.
PoisonPasses ==
  \A g \in Gateways : stats[g].corrupted <= Cardinality(ThreadsOf(g)) * (spoils + lost)
=============================================================================
