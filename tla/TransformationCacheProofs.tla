--------------------- MODULE TransformationCacheProofs ---------------------
(***************************************************************************)
(* Proofs about TransformationCache: whatever gateways, deployments,       *)
(* restarts, outages and damage, a lookup is answered with what the        *)
(* deployment would have made of the content itself, up to the settings    *)
(* that its fingerprint leaves out.                                        *)
(***************************************************************************)
EXTENDS TransformationCache, FiniteSetTheorems, TLAPS

-----------------------------------------------------------------------------
(* The inductive invariant.                                                *)

\* A sound entry is what a deployment with its key made of the key's content.
HeldSound ==
  \A x \in held : x.value.form = "sound" =>
    \E c \in Contents, d \in Deployments : x.key = Key(c, d) /\ x.value = Entry(c, d)

Inv == TypeOK /\ HeldSound /\ ServedAsKeyed

-----------------------------------------------------------------------------
(* Lemmas.                                                                 *)

Steps == {"idle", "get", "delete", "transform", "put"}

\* The keys of two deployments differ unless both make the like of the content.
LEMMA KeyDecides ==
  ASSUME NEW c \in Contents, NEW e \in Contents,
         NEW d \in Deployments, NEW f \in Deployments, Key(c, d) = Key(e, f)
  PROVE  Alike(Rendering(c, d), Rendering(e, f))
<1>1. c = e /\ d.version = f.version /\ Fingerprint(d) = Fingerprint(f)
  BY DEF Key
<1>2. ASSUME NEW s \in Fingerprinted PROVE d.settings[s] = f.settings[s]
  <2>1. Fingerprint(d)[s] = d.settings[s] /\ Fingerprint(f)[s] = f.settings[s]
    BY <1>2 DEF Fingerprint
  <2> QED BY <1>1, <2>1
<1> QED BY <1>1, <1>2 DEF Alike, Rendering

\* A thread that is doing something does it for a content.
LEMMA Busy ==
  ASSUME TypeOK, NEW t \in Threads, call[t].step # "idle"
  PROVE  /\ call[t].content \in Contents
         /\ Runs(t) \in Deployments
         /\ Rendering(call[t].content, Runs(t)) \in Renderings
         /\ KeyOf(t) \in AllKeys
         /\ GatewayOf[t] \in Gateways
<1>1. GatewayOf[t] \in Gateways
  BY ThreadsAssumption
<1>2. Runs(t) \in Deployments
  BY <1>1 DEF TypeOK, Runs
<1>3. call[t].content \in Contents
  BY DEF TypeOK, Idle
<1> QED BY <1>1, <1>2, <1>3 DEF Renderings, AllKeys, KeyOf

\* One step of a thread keeps the type of calls.
LEMMA CallTyped ==
  ASSUME TypeOK, NEW t \in Threads, NEW s \in Steps, Go(t, s), call[t].step # "idle"
  PROVE  /\ call' \in [Threads -> {Idle} \cup
                         [step : {"idle", "get", "delete", "transform", "put"}, content : Contents]]
         /\ \A u \in Threads : call'[u].content = call[u].content
<1> DEFINE Calls == [step : Steps, content : Contents]
<1>1. call \in [Threads -> {Idle} \cup Calls]
  BY DEF TypeOK, Steps
<1>2. call[t] \in Calls
  BY <1>1 DEF Idle
<1>3. call' = [call EXCEPT ![t] = [call[t] EXCEPT !.step = s]]
  BY DEF Go
<1>4. [call[t] EXCEPT !.step = s] \in Calls /\ [call[t] EXCEPT !.step = s].content = call[t].content
  BY <1>2
<1>5. call' \in [Threads -> {Idle} \cup Calls]
  BY <1>1, <1>3, <1>4
<1>6. \A u \in Threads : call'[u].content = call[u].content
  BY <1>1, <1>3, <1>4
<1> QED BY <1>5, <1>6 DEF Steps

\* Counting keeps the type of the counters.
LEMMA StatsTyped ==
  ASSUME TypeOK, NEW t \in Threads, NEW es, Count(t, es)
  PROVE  stats' \in [Gateways -> [DOMAIN Zero -> Nat]]
<1>1. GatewayOf[t] \in Gateways
  BY ThreadsAssumption
<1> DEFINE more == [e \in DOMAIN Zero |-> IF e \in es THEN stats[GatewayOf[t]][e] + 1
                                          ELSE stats[GatewayOf[t]][e]]
<1>2. more \in [DOMAIN Zero -> Nat]
  <2>1. stats[GatewayOf[t]] \in [DOMAIN Zero -> Nat]
    BY <1>1 DEF TypeOK
  <2> HIDE DEF Zero
  <2> QED BY <2>1
<1>3. stats' = [stats EXCEPT ![GatewayOf[t]] = more]
  BY DEF Count
<1> HIDE DEF more
<1> QED BY <1>1, <1>2, <1>3 DEF TypeOK

\* A command builds the client at most.
LEMMA CommandTyped ==
  ASSUME TypeOK, NEW t \in Threads, Command(t)
  PROVE  /\ client' \in [Gateways -> {"none", "built", "unavailable"}]
         /\ UNCHANGED <<deployed, rendered>>
BY ThreadsAssumption DEF TypeOK, Command, Connected

\* An answer that does not change is still what the content it was given for
\* would be made into.
LEMMA ServedKept ==
  ASSUME ServedAsKeyed, UNCHANGED <<deployed, answer>>,
         \A u \in Threads : call'[u].content = call[u].content
  PROVE  ServedAsKeyed'
BY DEF ServedAsKeyed, Runs, Rendering, Alike

\* So is an answer given now: none, an exception, or the like of this deployment's own.
LEMMA ServedNow ==
  ASSUME TypeOK, ServedAsKeyed, UNCHANGED deployed, NEW t \in Threads,
         \A u \in Threads : call'[u].content = call[u].content,
         NEW a, a \in {Nothing, Raised} \/ Alike(a, Rendering(call[t].content, Runs(t))),
         Answer(t, a)
  PROVE  ServedAsKeyed'
<1>1. ASSUME NEW u \in Threads
      PROVE  answer'[u] \in {Nothing, Raised} \/ Alike(answer'[u], Rendering(call[u].content, Runs(u)))
  BY DEF ServedAsKeyed, TypeOK, Answer
<1>2. \A u \in Threads : Runs(u)' = Runs(u)
  BY DEF Runs
<1> QED BY <1>1, <1>2 DEF ServedAsKeyed, Rendering, Alike

-----------------------------------------------------------------------------
(* Each action keeps the invariant.                                        *)

\* What an action leaves of the store is typed and sound.
LEMMA HeldShrinks ==
  ASSUME TypeOK, HeldSound, held' \subseteq held
  PROVE  /\ HeldSound'
         /\ held' \subseteq [place : Places, key : AllKeys, value : Values]
         /\ \A x, y \in held' : x.place = y.place /\ x.key = y.key => x = y
BY DEF TypeOK, HeldSound

LEMMA InvInit ==
  ASSUME Init
  PROVE  Inv
<1>1. TypeOK
  BY DEF Init, TypeOK, Zero
<1>2. HeldSound /\ ServedAsKeyed
  BY DEF Init, HeldSound, ServedAsKeyed
<1> QED BY <1>1, <1>2 DEF Inv

LEMMA LookupKeeps ==
  ASSUME Inv, NEW t \in Threads, NEW c \in Contents, Lookup(t, c)
  PROVE  Inv'
<1> USE DEF Inv
<1>1. TypeOK'
  BY DEF TypeOK, Lookup, process, Answer
<1>2. HeldSound'
  BY DEF Lookup, HeldSound
<1>3. ServedAsKeyed'
  <2>1. ASSUME NEW u \in Threads
        PROVE  \/ answer'[u] \in {Nothing, Raised}
               \/ Alike(answer'[u], Rendering(call'[u].content, Runs(u)))
    BY <2>1 DEF Lookup, Answer, ServedAsKeyed, TypeOK
  <2> QED BY <2>1 DEF Lookup, process, Runs, Rendering, Alike, ServedAsKeyed
<1> QED BY <1>1, <1>2, <1>3

LEMMA UrlRaisesKeeps ==
  ASSUME Inv, NEW t \in Threads, UrlRaises(t)
  PROVE  Inv'
<1> USE DEF Inv
<1>1. Go(t, "idle") /\ Answer(t, Raised) /\ UNCHANGED <<deployed, client, rendered, held, stats, history>>
  BY DEF UrlRaises, Raise
<1>2. call[t].step # "idle"
  BY DEF UrlRaises, At
<1>3. TypeOK'
  BY <1>1, <1>2, CallTyped DEF TypeOK, Steps, Answer, history
<1>4. HeldSound'
  BY <1>1, HeldShrinks
<1>5. ServedAsKeyed'
  BY <1>1, <1>2, CallTyped, ServedNow DEF Steps
<1> QED BY <1>3, <1>4, <1>5

LEMMA MissKeeps ==
  ASSUME Inv, NEW t \in Threads, Miss(t)
  PROVE  Inv'
<1> USE DEF Inv
<1>1. Go(t, "transform") /\ Count(t, {"misses"}) /\ UNCHANGED <<held, answer, history>>
  BY DEF Miss
<1>2. call[t].step # "idle" /\ Command(t)
  BY DEF Miss, At
<1>3. TypeOK'
  BY <1>1, <1>2, CallTyped, StatsTyped, CommandTyped DEF TypeOK, Steps, history
<1>4. HeldSound'
  BY <1>1, HeldShrinks
<1>5. ServedAsKeyed'
  BY <1>1, <1>2, CallTyped, CommandTyped, ServedKept DEF Steps
<1> QED BY <1>3, <1>4, <1>5

LEMMA HitKeeps ==
  ASSUME Inv, NEW t \in Threads, Hit(t)
  PROVE  Inv'
<1> USE DEF Inv
<1>1. Go(t, "idle") /\ Count(t, {"hits"}) /\ UNCHANGED <<held, history>>
  BY DEF Hit
<1>2. call[t].step # "idle" /\ Command(t)
  BY DEF Hit, At
<1>3. PICK x \in Slot(t) : x.value.form = "sound" /\ Answer(t, x.value.of)
  BY DEF Hit
<1>4. x \in held /\ x.key = KeyOf(t)
  BY <1>3 DEF Slot
<1>5. PICK c \in Contents, d \in Deployments : x.key = Key(c, d) /\ x.value = Entry(c, d)
  BY <1>3, <1>4 DEF HeldSound
<1>6. x.value.of \in Renderings
  BY <1>5 DEF Entry, Renderings
<1>7. Alike(x.value.of, Rendering(call[t].content, Runs(t)))
  <2>1. Key(c, d) = Key(call[t].content, Runs(t))
    BY <1>4, <1>5 DEF KeyOf
  <2>2. Alike(Rendering(c, d), Rendering(call[t].content, Runs(t)))
    BY <1>2, <2>1, Busy, KeyDecides
  <2> QED BY <1>5, <2>2 DEF Entry
<1>8. TypeOK'
  BY <1>1, <1>2, <1>3, <1>6, CallTyped, StatsTyped, CommandTyped
  DEF TypeOK, Steps, history, Answer
<1>9. HeldSound'
  BY <1>1, HeldShrinks
<1>10. ServedAsKeyed'
  BY <1>1, <1>2, <1>3, <1>7, CallTyped, CommandTyped, ServedNow DEF Steps
<1> QED BY <1>8, <1>9, <1>10

LEMMA CorruptedKeeps ==
  ASSUME Inv, NEW t \in Threads, Corrupted(t)
  PROVE  Inv'
<1> USE DEF Inv
<1>1. Go(t, "delete") /\ Count(t, {"corrupted", "misses"}) /\ UNCHANGED <<held, answer, history>>
  BY DEF Corrupted
<1>2. call[t].step # "idle" /\ Command(t)
  BY DEF Corrupted, At
<1>3. TypeOK'
  BY <1>1, <1>2, CallTyped, StatsTyped, CommandTyped DEF TypeOK, Steps, history
<1>4. HeldSound'
  BY <1>1, HeldShrinks
<1>5. ServedAsKeyed'
  BY <1>1, <1>2, CallTyped, CommandTyped, ServedKept DEF Steps
<1> QED BY <1>3, <1>4, <1>5

LEMMA DecodeRaisesKeeps ==
  ASSUME Inv, NEW t \in Threads, DecodeRaises(t)
  PROVE  Inv'
<1> USE DEF Inv
<1>1. Go(t, "idle") /\ Answer(t, Raised) /\ UNCHANGED <<held, stats, history>>
  BY DEF DecodeRaises, Raise
<1>2. call[t].step # "idle" /\ Command(t)
  BY DEF DecodeRaises, At
<1>3. TypeOK'
  BY <1>1, <1>2, CallTyped, CommandTyped DEF TypeOK, Steps, Answer, history
<1>4. HeldSound'
  BY <1>1, HeldShrinks
<1>5. ServedAsKeyed'
  BY <1>1, <1>2, CallTyped, CommandTyped, ServedNow DEF Steps
<1> QED BY <1>3, <1>4, <1>5

LEMMA DeleteKeeps ==
  ASSUME Inv, NEW t \in Threads, Delete(t)
  PROVE  Inv'
<1> USE DEF Inv
<1>1. /\ Go(t, "transform") /\ UNCHANGED <<stats, answer, lookups, spoils, restarts>>
      /\ held' \subseteq held /\ lost' \in {lost, lost + 1}
  BY DEF Delete
<1>2. call[t].step # "idle" /\ Command(t)
  BY DEF Delete, At
<1>3. TypeOK'
  BY <1>1, <1>2, CallTyped, CommandTyped, HeldShrinks DEF TypeOK, Steps
<1>4. HeldSound'
  BY <1>1, HeldShrinks
<1>5. ServedAsKeyed'
  BY <1>1, <1>2, CallTyped, CommandTyped, ServedKept DEF Steps
<1> QED BY <1>3, <1>4, <1>5

LEMMA TransformKeeps ==
  ASSUME Inv, NEW t \in Threads, Transform(t)
  PROVE  Inv'
<1> USE DEF Inv
<1> DEFINE own == Rendering(call[t].content, Runs(t))
<1>1. /\ UNCHANGED <<deployed, client, stats, held, history>>
      /\ rendered' = [rendered EXCEPT ![GatewayOf[t]] = @ + 1]
      /\ \/ Answer(t, own) /\ Go(t, "put")
         \/ UNCHANGED answer /\ Go(t, "idle")
  BY DEF Transform
<1>2. call[t].step # "idle"
  BY DEF Transform, At
<1>3. rendered' \in [Gateways -> Nat]
  BY <1>1, <1>2, Busy DEF TypeOK
<1>4. HeldSound'
  BY <1>1, HeldShrinks
<1>5. own \in Renderings
  BY <1>2, Busy
<1>7. Alike(own, Rendering(call[t].content, Runs(t)))
  BY DEF Alike
<1> HIDE DEF own
<1>6. TypeOK'
  BY <1>1, <1>2, <1>3, <1>5, CallTyped DEF TypeOK, Steps, Answer, history
<1>8. ServedAsKeyed'
  BY <1>1, <1>2, <1>7, CallTyped, ServedNow, ServedKept DEF Steps
<1> QED BY <1>4, <1>6, <1>8

LEMMA PutKeeps ==
  ASSUME Inv, NEW t \in Threads, Put(t)
  PROVE  Inv'
<1> USE DEF Inv
<1> DEFINE new == [place |-> Place(GatewayOf[t]), key |-> KeyOf(t),
                   value |-> Entry(call[t].content, Runs(t))]
<1>1. /\ Go(t, "idle") /\ UNCHANGED <<answer, history>>
      /\ held' = held \/ held' = (held \ Slot(t)) \cup {new}
      /\ Count(t, {"stores"}) \/ Count(t, {"errors"})
  BY DEF Put
<1>2. call[t].step # "idle" /\ Command(t)
  BY DEF Put, At
<1>3. new \in [place : Places, key : AllKeys, value : Values]
  <2>1. Place(GatewayOf[t]) \in Places
    BY <1>2, Busy DEF Place, Places, TypeOK
  <2>2. Entry(call[t].content, Runs(t)) \in Values
    BY <1>2, Busy DEF Values, Entry
  <2> QED BY <1>2, <2>1, <2>2, Busy
<1>4. \A x \in held \ Slot(t) : ~(x.place = new.place /\ x.key = new.key)
  BY DEF Slot
<1>5. /\ held' \subseteq [place : Places, key : AllKeys, value : Values]
      /\ \A x, y \in held' : x.place = y.place /\ x.key = y.key => x = y
  <2> HIDE DEF new
  <2> QED BY <1>1, <1>3, <1>4 DEF TypeOK
<1>6. TypeOK'
  BY <1>1, <1>2, <1>5, CallTyped, StatsTyped, CommandTyped DEF TypeOK, Steps, history
<1>7. HeldSound'
  <2>1. \E c \in Contents, d \in Deployments : new.key = Key(c, d) /\ new.value = Entry(c, d)
    BY <1>2, Busy DEF KeyOf
  <2> HIDE DEF new
  <2> QED BY <1>1, <2>1 DEF HeldSound
<1>8. ServedAsKeyed'
  BY <1>1, <1>2, CallTyped, CommandTyped, ServedKept DEF Steps
<1> QED BY <1>6, <1>7, <1>8

LEMMA ProbeKeeps ==
  ASSUME Inv, NEW t \in Threads, Probe(t)
  PROVE  Inv'
<1> USE DEF Inv
<1>1. UNCHANGED <<held, call, history, stats, deployed, rendered>>
  BY DEF Probe, Command, process
<1>2. client' \in [Gateways -> {"none", "built", "unavailable"}]
  BY CommandTyped DEF Probe, TypeOK, process
<1>3. Answer(t, Raised) \/ UNCHANGED answer
  BY DEF Probe
<1>4. TypeOK'
  BY <1>1, <1>2, <1>3 DEF TypeOK, Answer, history
<1>5. HeldSound'
  BY <1>1, HeldShrinks
<1>6. ServedAsKeyed'
  BY <1>1, <1>3, ServedNow, ServedKept
<1> QED BY <1>4, <1>5, <1>6

LEMMA RestartKeeps ==
  ASSUME Inv, NEW g \in Gateways, Restart(g)
  PROVE  Inv'
<1> USE DEF Inv
<1>1. PICK d \in Deployments : deployed' = [deployed EXCEPT ![g] = d]
  BY DEF Restart
<1>2. deployed' \in [Gateways -> Deployments]
  BY <1>1 DEF TypeOK
<1>3. Cardinality({t \in Threads : GatewayOf[t] = g /\ At(t, "delete")}) \in Nat
  BY FS_Subset, FS_CardinalityType, ThreadsAssumption
<1>4. held' \subseteq held
  BY DEF Restart
<1>5. stats' \in [Gateways -> [DOMAIN Zero -> Nat]]
  <2>1. Zero \in [DOMAIN Zero -> Nat]
    BY DEF Zero
  <2> QED BY <2>1 DEF Restart, TypeOK
<1>6. TypeOK'
  BY <1>2, <1>3, <1>4, <1>5, HeldShrinks DEF TypeOK, Restart
<1>7. HeldSound'
  BY <1>4, HeldShrinks
<1>8. ServedAsKeyed'
  <2>1. ASSUME NEW t \in Threads, GatewayOf[t] # g
        PROVE  /\ answer'[t] = answer[t] /\ call'[t] = call[t] /\ Runs(t)' = Runs(t)
               /\ \/ answer[t] \in {Nothing, Raised}
                  \/ Alike(answer[t], Rendering(call[t].content, Runs(t)))
    BY <1>1, <2>1, ThreadsAssumption DEF TypeOK, Restart, Runs, ServedAsKeyed
  <2>2. ASSUME NEW t \in Threads, GatewayOf[t] = g
        PROVE  answer'[t] = Nothing
    BY <2>2 DEF Restart
  <2> QED BY <2>1, <2>2 DEF ServedAsKeyed, Rendering, Alike
<1> QED BY <1>6, <1>7, <1>8

LEMMA LoseKeeps ==
  ASSUME Inv, Lose
  PROVE  Inv'
<1> USE DEF Inv
<1>1. held' \subseteq held /\ UNCHANGED <<process, call, answer, history>>
  BY DEF Lose
<1>2. TypeOK' /\ HeldSound'
  BY <1>1, HeldShrinks DEF TypeOK, process, history
<1>3. ServedAsKeyed'
  BY <1>1, ServedKept DEF process
<1> QED BY <1>2, <1>3

LEMMA SpoilKeeps ==
  ASSUME Inv, Spoil
  PROVE  Inv'
<1> USE DEF Inv
<1>1. PICK d \in Deployments, c \in Contents, f \in Undecodable \cup Explosive :
        held' = (held \ {x \in held : x.place = d.prefix /\ x.key = Key(c, d)}) \cup
          {[place |-> d.prefix, key |-> Key(c, d), value |-> [form |-> f, of |-> Nothing]]}
  BY DEF Spoil
<1> DEFINE damaged == [place |-> d.prefix, key |-> Key(c, d), value |-> [form |-> f, of |-> Nothing]]
           slot    == {x \in held : x.place = d.prefix /\ x.key = Key(c, d)}
<1>2. damaged \in [place : Places, key : AllKeys, value : Values]
  BY DEF Places, AllKeys, Values
<1>3. damaged.value.form # "sound"
  BY ThreadsAssumption
<1>4. held' = (held \ slot) \cup {damaged}
  BY <1>1
<1>5. \A x \in held \ slot : ~(x.place = damaged.place /\ x.key = damaged.key)
  OBVIOUS
<1> HIDE DEF damaged, slot
<1>6. TypeOK'
  BY <1>2, <1>4, <1>5 DEF TypeOK, Spoil, process
<1>7. HeldSound'
  BY <1>3, <1>4 DEF HeldSound
<1>8. ServedAsKeyed'
  BY ServedKept DEF Spoil, process
<1> QED BY <1>6, <1>7, <1>8

-----------------------------------------------------------------------------
(* Theorems.                                                               *)

LEMMA InvInductive ==
  ASSUME Inv, [Next]_vars
  PROVE  Inv'
<1>1. CASE UNCHANGED vars
  <2>1. UNCHANGED <<process, held, call, answer, history>>
    BY <1>1 DEF vars
  <2>2. TypeOK' /\ HeldSound'
    BY <2>1, HeldShrinks DEF Inv, TypeOK, process, history
  <2>3. ServedAsKeyed'
    BY <2>1, ServedKept DEF Inv, process
  <2> QED BY <2>2, <2>3 DEF Inv
<1>2. ASSUME NEW t \in Threads, Step(t)
      PROVE  Inv'
  BY <1>2, UrlRaisesKeeps, MissKeeps, HitKeeps, CorruptedKeeps, DecodeRaisesKeeps,
     DeleteKeeps, TransformKeeps, PutKeeps DEF Step
<1> QED BY <1>1, <1>2, ProbeKeeps, LookupKeeps, RestartKeeps, LoseKeeps, SpoilKeeps DEF Next

\* Every variable keeps its type, and no backend holds two values under a key
\* (TransformationCache.put, delete).
THEOREM CacheTypes == Spec => []TypeOK
<1>1. Init => Inv
  BY InvInit
<1>2. Inv /\ [Next]_vars => Inv'
  BY InvInductive
<1>3. Inv => TypeOK
  BY DEF Inv
<1> QED BY <1>1, <1>2, <1>3, PTL DEF Spec

\* A lookup is answered with what this deployment would have made of this content
\* itself, up to the settings options_fingerprint leaves out, whatever gateways,
\* versions, settings, restarts, outages and damage came before (CacheKey,
\* TransformationCache.get).
THEOREM ServedAsKeyedAlways == Spec => []ServedAsKeyed
<1>1. Init => Inv
  BY InvInit
<1>2. Inv /\ [Next]_vars => Inv'
  BY InvInductive
<1>3. Inv => ServedAsKeyed
  BY DEF Inv
<1> QED BY <1>1, <1>2, <1>3, PTL DEF Spec

-----------------------------------------------------------------------------
(* Misses and transformations.                                             *)

\* A thread that starts to work makes one more, one that stops one less, and
\* any other step of a thread none.
LEMMA WorkingMoves ==
  ASSUME TypeOK, NEW t \in Threads, NEW s \in Steps, Go(t, s), NEW g \in Gateways
  PROVE  /\ Cardinality(Working(g)) \in Nat
         /\ GatewayOf[t] = g /\ call[t].step = "get" /\ s \in {"delete", "transform"} =>
              Cardinality(Working(g)') = Cardinality(Working(g)) + 1
         /\ GatewayOf[t] = g /\ call[t].step = "transform" /\ s \in {"idle", "put"} =>
              Cardinality(Working(g)') = Cardinality(Working(g)) - 1
         /\ (\/ GatewayOf[t] # g
             \/ call[t].step = "delete" /\ s = "transform"
             \/ call[t].step \in {"get", "put"} /\ s = "idle")
              => Working(g)' = Working(g)
<1>1. IsFiniteSet(Working(g))
  BY ThreadsAssumption, FS_Subset DEF Working
<1>2. Cardinality(Working(g)) \in Nat
  BY <1>1, FS_CardinalityType
<1>3. call' = [call EXCEPT ![t].step = s] /\ call \in [Threads -> {Idle} \cup
        [step : {"idle", "get", "delete", "transform", "put"}, content : Contents]]
  BY DEF Go, TypeOK
<1>4. call'[t].step = s /\ \A u \in Threads \ {t} : call'[u] = call[u]
  BY <1>3 DEF Idle
<1>5. ASSUME GatewayOf[t] = g, call[t].step = "get", s \in {"delete", "transform"}
      PROVE  Cardinality(Working(g)') = Cardinality(Working(g)) + 1
  <2>1. t \notin Working(g) /\ Working(g)' = Working(g) \cup {t}
    BY <1>4, <1>5 DEF Working
  <2> QED BY <1>1, <2>1, FS_AddElement
<1>6. ASSUME GatewayOf[t] = g, call[t].step = "transform", s \in {"idle", "put"}
      PROVE  Cardinality(Working(g)') = Cardinality(Working(g)) - 1
  <2>1. t \in Working(g) /\ Working(g)' = Working(g) \ {t}
    BY <1>4, <1>6 DEF Working
  <2> QED BY <1>1, <2>1, FS_RemoveElement
<1>7. ASSUME \/ GatewayOf[t] # g
             \/ call[t].step = "delete" /\ s = "transform"
             \/ call[t].step \in {"get", "put"} /\ s = "idle"
      PROVE  Working(g)' = Working(g)
  BY <1>4, <1>7 DEF Working
<1> QED BY <1>2, <1>5, <1>6, <1>7

\* Counting an event adds one to its counter of one gateway.
LEMMA Counted ==
  ASSUME TypeOK, NEW t \in Threads, NEW es, Count(t, es), NEW g \in Gateways
  PROVE  stats'[g].misses =
           IF GatewayOf[t] = g /\ "misses" \in es THEN stats[g].misses + 1 ELSE stats[g].misses
<1>1. stats'[g] = IF GatewayOf[t] = g
                  THEN [e \in DOMAIN Zero |-> IF e \in es THEN stats[g][e] + 1 ELSE stats[g][e]]
                  ELSE stats[g]
  BY DEF Count, TypeOK
<1>2. "misses" \in DOMAIN Zero
  BY DEF Zero
<1> HIDE DEF Zero
<1> QED BY <1>1, <1>2

LEMMA MissesKept ==
  ASSUME TypeOK, MissesAreWork, [Next]_vars
  PROVE  MissesAreWork'
<1> SUFFICES ASSUME NEW g \in Gateways
             PROVE  stats'[g].misses = rendered'[g] + Cardinality(Working(g)')
  BY DEF MissesAreWork
<1>1. stats[g].misses = rendered[g] + Cardinality(Working(g)) /\ rendered[g] \in Nat
  BY DEF MissesAreWork, TypeOK
<1>2. ASSUME UNCHANGED <<stats, rendered>>, Working(g)' = Working(g)
      PROVE  stats'[g].misses = rendered'[g] + Cardinality(Working(g)')
  BY <1>1, <1>2
<1>3. CASE UNCHANGED vars
  BY <1>2, <1>3 DEF vars, process, Working
<1>4. ASSUME NEW t \in Threads, UrlRaises(t) \/ DecodeRaises(t) \/ Hit(t) \/ Put(t)
      PROVE  stats'[g].misses = rendered'[g] + Cardinality(Working(g)')
  <2>1. call[t].step \in {"get", "put"} /\ Go(t, "idle") /\ UNCHANGED rendered
    BY <1>4 DEF UrlRaises, DecodeRaises, Raise, Hit, Put, Command, At
  <2>2. Working(g)' = Working(g)
    BY <2>1, WorkingMoves DEF Steps
  <2>3. UNCHANGED stats \/ Count(t, {"hits"}) \/ Count(t, {"stores"}) \/ Count(t, {"errors"})
    BY <1>4 DEF UrlRaises, DecodeRaises, Raise, Hit, Put
  <2>4. stats'[g].misses = stats[g].misses
    BY <2>3, Counted
  <2> QED BY <1>1, <2>1, <2>2, <2>4
<1>5. ASSUME NEW t \in Threads, Miss(t) \/ Corrupted(t)
      PROVE  stats'[g].misses = rendered'[g] + Cardinality(Working(g)')
  <2>1. call[t].step = "get" /\ (Go(t, "transform") \/ Go(t, "delete")) /\ UNCHANGED rendered
    BY <1>5 DEF Miss, Corrupted, Command, At
  <2>2. Count(t, {"misses"}) \/ Count(t, {"corrupted", "misses"})
    BY <1>5 DEF Miss, Corrupted
  <2>3. CASE GatewayOf[t] = g
    <3>1. stats'[g].misses = stats[g].misses + 1
      BY <2>2, <2>3, Counted
    <3>2. Cardinality(Working(g)') = Cardinality(Working(g)) + 1
      BY <2>1, <2>3, WorkingMoves DEF Steps
    <3>3. Cardinality(Working(g)) \in Nat
      BY <2>1, WorkingMoves DEF Steps
    <3> QED BY <1>1, <2>1, <3>1, <3>2, <3>3
  <2>4. CASE GatewayOf[t] # g
    <3>1. stats'[g].misses = stats[g].misses
      BY <2>2, <2>4, Counted
    <3>2. Working(g)' = Working(g)
      BY <2>1, <2>4, WorkingMoves DEF Steps
    <3> QED BY <1>1, <2>1, <3>1, <3>2
  <2> QED BY <2>3, <2>4
<1>6. ASSUME NEW t \in Threads, Delete(t)
      PROVE  stats'[g].misses = rendered'[g] + Cardinality(Working(g)')
  <2>1. call[t].step = "delete" /\ Go(t, "transform") /\ UNCHANGED <<stats, rendered>>
    BY <1>6 DEF Delete, Command, At
  <2>2. Working(g)' = Working(g)
    BY <2>1, WorkingMoves DEF Steps
  <2> QED BY <1>2, <2>1, <2>2
<1>7. ASSUME NEW t \in Threads, Transform(t)
      PROVE  stats'[g].misses = rendered'[g] + Cardinality(Working(g)')
  <2>1. /\ call[t].step = "transform" /\ UNCHANGED stats
        /\ Go(t, "put") \/ Go(t, "idle")
        /\ rendered' = [rendered EXCEPT ![GatewayOf[t]] = @ + 1]
    BY <1>7 DEF Transform, At
  <2>2. CASE GatewayOf[t] = g
    <3>1. rendered'[g] = rendered[g] + 1
      BY <2>1, <2>2 DEF TypeOK
    <3>2. Cardinality(Working(g)') = Cardinality(Working(g)) - 1
      BY <2>1, <2>2, WorkingMoves DEF Steps
    <3>3. Cardinality(Working(g)) \in Nat
      BY <2>1, WorkingMoves DEF Steps
    <3> QED BY <1>1, <2>1, <3>1, <3>2, <3>3
  <2>3. CASE GatewayOf[t] # g
    <3>1. rendered'[g] = rendered[g]
      BY <2>1, <2>3 DEF TypeOK
    <3>2. Working(g)' = Working(g)
      BY <2>1, <2>3, WorkingMoves DEF Steps
    <3> QED BY <1>1, <2>1, <3>1, <3>2
  <2> QED BY <2>2, <2>3
<1>8. ASSUME NEW t \in Threads, NEW c \in Contents, Lookup(t, c)
      PROVE  stats'[g].misses = rendered'[g] + Cardinality(Working(g)')
  <2>1. \A u \in Threads : call'[u].step \in {"delete", "transform"} <=>
                           call[u].step \in {"delete", "transform"}
    BY <1>8 DEF Lookup, At, TypeOK
  <2>2. Working(g)' = Working(g)
    BY <2>1 DEF Working
  <2> QED BY <1>2, <1>8, <2>2 DEF Lookup, process
<1>9. ASSUME NEW t \in Threads, Probe(t)
      PROVE  stats'[g].misses = rendered'[g] + Cardinality(Working(g)')
  BY <1>2, <1>9 DEF Probe, Command, process, Working
<1>10. ASSUME NEW h \in Gateways, Restart(h)
       PROVE  stats'[g].misses = rendered'[g] + Cardinality(Working(g)')
  <2>1. CASE h = g
    <3>1. stats'[g].misses = 0 /\ rendered'[g] = 0
      BY <1>10, <2>1 DEF Restart, Zero, TypeOK
    <3>2. Working(g)' = {}
      BY <1>10, <2>1 DEF Restart, Working, Idle
    <3> QED BY <3>1, <3>2, FS_EmptySet
  <2>2. CASE h # g
    <3>1. stats'[g] = stats[g] /\ rendered'[g] = rendered[g]
      BY <1>10, <2>2 DEF Restart, TypeOK
    <3>2. Working(g)' = Working(g)
      BY <1>10, <2>2 DEF Restart, Working
    <3> QED BY <1>1, <3>1, <3>2
  <2> QED BY <2>1, <2>2
<1>11. ASSUME Lose \/ Spoil
       PROVE  stats'[g].misses = rendered'[g] + Cardinality(Working(g)')
  BY <1>2, <1>11 DEF Lose, Spoil, process, Working
<1> QED BY <1>3, <1>4, <1>5, <1>6, <1>7, <1>8, <1>9, <1>10, <1>11 DEF Next, Step

\* Each miss costs one transformation and each transformation was a miss, for any
\* gateways, threads, outages and damage (TransformationCache.get, CacheStats).
THEOREM MissesAlwaysWork == Spec => []MissesAreWork
<1>1. Init => Inv /\ MissesAreWork
  <2>1. ASSUME Init
        PROVE  MissesAreWork
    <3>1. \A g \in Gateways : Working(g) = {}
      BY <2>1 DEF Init, Working, Idle
    <3>2. \A g \in Gateways : stats[g].misses = 0 /\ rendered[g] = 0
      BY <2>1 DEF Init, Zero
    <3>3. Cardinality({}) = 0
      BY FS_EmptySet
    <3> QED BY <3>1, <3>2, <3>3 DEF MissesAreWork
  <2> QED BY <2>1, InvInit
<1>2. Inv /\ MissesAreWork /\ [Next]_vars => Inv' /\ MissesAreWork'
  BY InvInductive, MissesKept DEF Inv
<1> QED BY <1>1, <1>2, PTL DEF Spec

-----------------------------------------------------------------------------
(* How often damage is met.                                                *)

\* Entries that from_bytes rejects, and the meetings still to come: a thread has
\* not met an entry until it is about to drop it.
Damaged        == {x \in held : x.value.form \in Undecodable}
Dropping(t, x) == At(t, "delete") /\ x \in Slot(t)
Unmet(g)       == {p \in ThreadsOf(g) \X Damaged : ~Dropping(p[1], p[2])}

\* Each damage and each lost delete pays for one meeting of every thread.
Balanced(g) ==
  stats[g].corrupted + Cardinality(Unmet(g)) <= Cardinality(ThreadsOf(g)) * (spoils + lost)

PoisonInv == IsFiniteSet(held) /\ \A g \in Gateways : Balanced(g)

LEMMA ThreadsFinite ==
  ASSUME NEW g
  PROVE  /\ IsFiniteSet(ThreadsOf(g)) /\ Cardinality(ThreadsOf(g)) \in Nat
         /\ \A t \in ThreadsOf(g) : Cardinality(ThreadsOf(g)) >= 1
<1>1. IsFiniteSet(ThreadsOf(g)) /\ Cardinality(ThreadsOf(g)) \in Nat
  BY ThreadsAssumption, FS_Subset, FS_CardinalityType DEF ThreadsOf
<1>2. ThreadsOf(g) # {} => Cardinality(ThreadsOf(g)) # 0
  BY <1>1, FS_EmptySet
<1> QED BY <1>1, <1>2

LEMMA UnmetFinite ==
  ASSUME IsFiniteSet(held), NEW g
  PROVE  IsFiniteSet(Unmet(g)) /\ Cardinality(Unmet(g)) \in Nat
<1>1. IsFiniteSet(Damaged)
  BY FS_Subset DEF Damaged
<1>2. IsFiniteSet(ThreadsOf(g) \X Damaged)
  BY <1>1, FS_Product, ThreadsFinite
<1>3. IsFiniteSet(Unmet(g))
  BY <1>2, FS_Subset DEF Unmet
<1> QED BY <1>3, FS_CardinalityType

\* A meeting is still to come after a step only if it was before, or is one of N.
LEMMA FewNewMeetings ==
  ASSUME NEW g, NEW N,
         \A u \in ThreadsOf(g), x \in Damaged' : x \in Damaged \/ <<u, x>> \in N,
         \A u \in ThreadsOf(g), x \in Damaged' : Dropping(u, x) =>
           \/ call'[u] = call[u] /\ deployed'[GatewayOf[u]] = deployed[GatewayOf[u]]
           \/ <<u, x>> \in N
  PROVE  Unmet(g)' \subseteq Unmet(g) \cup N
<1> SUFFICES ASSUME NEW u \in ThreadsOf(g), NEW x \in Damaged', ~Dropping(u, x)', <<u, x>> \notin N
             PROVE  <<u, x>> \in Unmet(g)
  BY DEF Unmet, ThreadsOf
<1>1. x \in Damaged /\ x \in held'
  BY DEF Damaged
<1>2. Dropping(u, x) => Dropping(u, x)'
  BY <1>1 DEF Dropping, At, Slot, Place, KeyOf, Key, Fingerprint, UsesRedis, Runs
<1> QED BY <1>1, <1>2 DEF Unmet

\* The balance holds on when the new meetings are paid for.
LEMMA PaidFor ==
  ASSUME TypeOK, TypeOK', PoisonInv, IsFiniteSet(held'), NEW g \in Gateways,
         NEW N, IsFiniteSet(N), Unmet(g)' \subseteq Unmet(g) \cup N,
         stats'[g].corrupted <= stats[g].corrupted,
         NEW k \in Nat, spoils' + lost' = spoils + lost + k,
         Cardinality(N) <= Cardinality(ThreadsOf(g)) * k
  PROVE  Balanced(g)'
<1>1. IsFiniteSet(Unmet(g)) /\ Cardinality(Unmet(g)) \in Nat /\ Cardinality(N) \in Nat
  BY UnmetFinite, FS_CardinalityType DEF PoisonInv
<1>2. /\ IsFiniteSet(Unmet(g) \cup N)
      /\ Cardinality(Unmet(g) \cup N)
           = Cardinality(Unmet(g)) + Cardinality(N) - Cardinality(Unmet(g) \cap N)
  BY <1>1, FS_Union
<1>3. Cardinality(Unmet(g) \cap N) \in Nat
  BY <1>1, FS_Intersection, FS_CardinalityType
<1>4. Cardinality(Unmet(g)') <= Cardinality(Unmet(g) \cup N) /\ Cardinality(Unmet(g)') \in Nat
  BY <1>2, FS_Subset, FS_CardinalityType
<1>5. stats[g].corrupted \in Nat /\ stats'[g].corrupted \in Nat
  BY DEF TypeOK, Zero
<1> DEFINE n == Cardinality(ThreadsOf(g))
<1>6. n \in Nat /\ spoils + lost \in Nat
  BY ThreadsFinite DEF TypeOK
<1>7. \A a, b, c \in Nat : a * (b + c) = a * b + a * c /\ a * b \in Nat /\ a * c \in Nat
  OBVIOUS
<1> HIDE DEF n
<1>8. n * (spoils' + lost') = n * (spoils + lost) + n * k
  BY <1>6, <1>7
<1>9. stats[g].corrupted + Cardinality(Unmet(g)) <= n * (spoils + lost)
  BY DEF PoisonInv, Balanced, n
<1>10. n * (spoils + lost) \in Nat /\ n * k \in Nat
  BY <1>6, <1>7
<1>11. Cardinality(N) <= n * k
  BY DEF n
<1>12. stats'[g].corrupted + Cardinality(Unmet(g)') <= n * (spoils' + lost')
  BY <1>1, <1>2, <1>3, <1>4, <1>5, <1>8, <1>9, <1>10, <1>11
<1> QED BY <1>12 DEF Balanced, n, ThreadsOf

\* Counting an event adds one to its counter of one gateway.
LEMMA CorruptionCounted ==
  ASSUME TypeOK, NEW t \in Threads, NEW es, Count(t, es), NEW g \in Gateways
  PROVE  stats'[g].corrupted = IF GatewayOf[t] = g /\ "corrupted" \in es
                               THEN stats[g].corrupted + 1 ELSE stats[g].corrupted
<1>1. stats'[g] = IF GatewayOf[t] = g
                  THEN [e \in DOMAIN Zero |-> IF e \in es THEN stats[g][e] + 1 ELSE stats[g][e]]
                  ELSE stats[g]
  BY DEF Count, TypeOK
<1>2. "corrupted" \in DOMAIN Zero
  BY DEF Zero
<1> HIDE DEF Zero
<1> QED BY <1>1, <1>2

\* A step that brings no damage and leaves alone the threads about to drop some.
LEMMA Quiet ==
  ASSUME TypeOK, TypeOK', PoisonInv, UNCHANGED <<deployed, spoils, lost>>, NEW g \in Gateways,
         stats'[g].corrupted = stats[g].corrupted, IsFiniteSet(held'),
         \A x \in held' : x \in held \/ x.value.form \notin Undecodable,
         \A u \in ThreadsOf(g) : At(u, "delete") => call'[u] = call[u]
  PROVE  Balanced(g)'
<1>1. Unmet(g)' \subseteq Unmet(g) \cup {}
  <2>1. \A u \in ThreadsOf(g), x \in Damaged' : x \in Damaged
    BY DEF Damaged
  <2>2. \A u \in ThreadsOf(g), x \in Damaged' : Dropping(u, x) => call'[u] = call[u]
    BY DEF Dropping
  <2> QED BY <2>1, <2>2, FewNewMeetings
<1>2. IsFiniteSet({}) /\ Cardinality({}) = 0 /\ Cardinality(ThreadsOf(g)) \in Nat
  BY FS_EmptySet, ThreadsFinite
<1>3. Cardinality({}) <= Cardinality(ThreadsOf(g)) * 0 /\ spoils' + lost' = spoils + lost + 0
  BY <1>2 DEF TypeOK
<1>4. stats'[g].corrupted <= stats[g].corrupted
  BY DEF TypeOK, Zero
<1> QED BY <1>1, <1>2, <1>3, <1>4, PaidFor

\* The thread that acts is the only one whose call changes.
LEMMA OthersWait ==
  ASSUME TypeOK, NEW t \in Threads, NEW s, Go(t, s), call[t].step # "delete"
  PROVE  \A u \in Threads : At(u, "delete") => call'[u] = call[u]
BY DEF TypeOK, Go, At

LEMMA CorruptedPays ==
  ASSUME TypeOK, TypeOK', PoisonInv, NEW t \in Threads, Corrupted(t), NEW g \in Gateways
  PROVE  Balanced(g)'
<1>1. PICK x \in Slot(t) : x.value.form \in Undecodable
  BY DEF Corrupted
<1>2. /\ call[t].step = "get" /\ Go(t, "delete") /\ Count(t, {"corrupted", "misses"})
      /\ UNCHANGED <<deployed, held, spoils, lost>>
  BY DEF Corrupted, At, Command, history
<1>3. call'[t] = [call[t] EXCEPT !.step = "delete"] /\ \A u \in Threads : u # t => call'[u] = call[u]
  BY <1>2 DEF Go, TypeOK
<1>4. \A u \in Threads : At(u, "delete") => call'[u] = call[u]
  BY <1>2, OthersWait
<1>5. CASE GatewayOf[t] # g
  <2>1. stats'[g].corrupted = stats[g].corrupted
    BY <1>2, <1>5, CorruptionCounted
  <2> QED BY <1>2, <1>4, <2>1, Quiet DEF PoisonInv, ThreadsOf
<1>6. CASE GatewayOf[t] = g
  <2>1. call'[t].step = "delete" /\ call'[t].content = call[t].content
    <3>1. call[t] \in [step : {"idle", "get", "delete", "transform", "put"}, content : Contents]
      BY <1>2 DEF TypeOK, Idle
    <3> QED BY <1>3, <3>1
  <2>2. Dropping(t, x)'
    BY <1>1, <1>2, <2>1 DEF Dropping, At, Slot, Place, KeyOf, Key, Fingerprint, UsesRedis, Runs
  <2>3. <<t, x>> \in Unmet(g)
    BY <1>1, <1>2, <1>6 DEF Unmet, Damaged, Dropping, At, Slot, ThreadsOf
  <2>4. Unmet(g)' \subseteq Unmet(g)
    <3>1. \A u \in ThreadsOf(g), y \in Damaged' : y \in Damaged
      BY <1>2 DEF Damaged
    <3>2. \A u \in ThreadsOf(g), y \in Damaged' : Dropping(u, y) => call'[u] = call[u]
      BY <1>4 DEF Dropping, ThreadsOf
    <3>3. Unmet(g)' \subseteq Unmet(g) \cup {}
      BY <1>2, <3>1, <3>2, FewNewMeetings
    <3> QED BY <3>3
  <2>5. Unmet(g)' \subseteq Unmet(g) \ {<<t, x>>}
    BY <2>2, <2>4 DEF Unmet
  <2>6. /\ IsFiniteSet(Unmet(g) \ {<<t, x>>})
        /\ Cardinality(Unmet(g) \ {<<t, x>>}) = Cardinality(Unmet(g)) - 1
    BY <2>3, UnmetFinite, FS_RemoveElement DEF PoisonInv
  <2>7. Cardinality(Unmet(g)') <= Cardinality(Unmet(g)) - 1 /\ Cardinality(Unmet(g)') \in Nat
    BY <2>5, <2>6, FS_Subset, FS_CardinalityType
  <2>8. stats'[g].corrupted = stats[g].corrupted + 1 /\ stats[g].corrupted \in Nat
    BY <1>2, <1>6, CorruptionCounted DEF TypeOK, Zero
  <2>9. Cardinality(Unmet(g)) \in Nat
    BY UnmetFinite DEF PoisonInv
  <2>10. stats'[g].corrupted + Cardinality(Unmet(g)') <= stats[g].corrupted + Cardinality(Unmet(g))
    BY <2>7, <2>8, <2>9
  <2>11. Cardinality(ThreadsOf(g)) * (spoils + lost) \in Int
    BY ThreadsFinite DEF TypeOK
  <2>12. stats'[g].corrupted + Cardinality(Unmet(g)') <= Cardinality(ThreadsOf(g)) * (spoils + lost)
    BY <2>7, <2>8, <2>9, <2>10, <2>11 DEF PoisonInv, Balanced
  <2> QED BY <1>2, <2>12 DEF Balanced, ThreadsOf
<1> QED BY <1>5, <1>6

LEMMA DeletePays ==
  ASSUME TypeOK, TypeOK', PoisonInv, NEW t \in Threads, Delete(t), NEW g \in Gateways
  PROVE  Balanced(g)'
<1>1. /\ call[t].step = "delete" /\ Go(t, "transform")
      /\ UNCHANGED <<deployed, stats, spoils>>
      /\ \/ held' = held /\ lost' = lost + 1
         \/ held' = held \ Slot(t) /\ lost' = lost
  BY DEF Delete, At, Command
<1>2. \A u \in Threads : u # t => call'[u] = call[u]
  BY <1>1 DEF Go, TypeOK
<1>3. IsFiniteSet(held')
  BY <1>1, FS_Subset DEF PoisonInv
<1>4. stats'[g].corrupted <= stats[g].corrupted
  BY <1>1 DEF TypeOK, Zero
<1>5. \A u \in ThreadsOf(g) : deployed'[GatewayOf[u]] = deployed[GatewayOf[u]]
  BY <1>1
<1>6. Cardinality(ThreadsOf(g)) \in Nat /\ spoils \in Nat /\ lost \in Nat
  BY ThreadsFinite DEF TypeOK
<1>7. \A u \in ThreadsOf(g), y \in Damaged' : y \in Damaged
  BY <1>1 DEF Damaged
<1>8. CASE held' = held /\ lost' = lost + 1
  <2> DEFINE N == {p \in ThreadsOf(g) \X Slot(t) : p[1] = t}
  <2>1. Unmet(g)' \subseteq Unmet(g) \cup N
    <3>1. \A u \in ThreadsOf(g), y \in Damaged' : Dropping(u, y) => call'[u] = call[u] \/ <<u, y>> \in N
      BY <1>2 DEF Dropping, ThreadsOf
    <3> HIDE DEF N
    <3> QED BY <1>5, <1>7, <3>1, FewNewMeetings
  <2>2. N = {} \/ (t \in ThreadsOf(g) /\ \E x : N = {<<t, x>>})
    <3>1. \A x, y \in Slot(t) : x = y
      BY DEF Slot, TypeOK
    <3>2. ASSUME NEW p \in N
          PROVE  t \in ThreadsOf(g) /\ N = {<<t, p[2]>>}
      BY <3>1
    <3> QED BY <3>2
  <2> HIDE DEF N
  <2>3. /\ IsFiniteSet(N)
        /\ Cardinality(N) = 0 \/ (t \in ThreadsOf(g) /\ Cardinality(N) = 1)
    BY <2>2, FS_EmptySet, FS_Singleton
  <2>4. Cardinality(N) <= Cardinality(ThreadsOf(g)) * 1
    BY <1>6, <2>3, ThreadsFinite
  <2>5. spoils' + lost' = spoils + lost + 1
    BY <1>1, <1>6, <1>8
  <2> QED BY <1>3, <1>4, <2>1, <2>3, <2>4, <2>5, PaidFor
<1>9. CASE held' = held \ Slot(t) /\ lost' = lost
  <2>1. \A u \in ThreadsOf(g), y \in Damaged' : Dropping(u, y) => call'[u] = call[u]
    BY <1>2, <1>9 DEF Dropping, Damaged, ThreadsOf
  <2>2. Unmet(g)' \subseteq Unmet(g) \cup {}
    BY <1>5, <1>7, <2>1, FewNewMeetings
  <2>3. IsFiniteSet({}) /\ Cardinality({}) <= Cardinality(ThreadsOf(g)) * 0
    BY <1>6, FS_EmptySet
  <2>4. spoils' + lost' = spoils + lost + 0
    BY <1>1, <1>6, <1>9
  <2> QED BY <1>3, <1>4, <2>2, <2>3, <2>4, PaidFor
<1> QED BY <1>1, <1>8, <1>9

LEMMA RestartPays ==
  ASSUME TypeOK, TypeOK', PoisonInv, NEW h \in Gateways, Restart(h), NEW g \in Gateways
  PROVE  Balanced(g)'
<1> DEFINE K == {t \in Threads : GatewayOf[t] = h /\ At(t, "delete")}
           N == {p \in (K \cap ThreadsOf(g)) \X held : p[2] \in Slot(p[1])}
<1>1. /\ held' \subseteq held /\ UNCHANGED spoils /\ lost' = lost + Cardinality(K)
      /\ \A u \in Threads : GatewayOf[u] # h => call'[u] = call[u]
      /\ \A f \in Gateways : f # h => deployed'[f] = deployed[f]
  BY DEF Restart, TypeOK
<1>2. IsFiniteSet(held')
  BY <1>1, FS_Subset DEF PoisonInv
<1>3. Unmet(g)' \subseteq Unmet(g) \cup N
  <2>1. \A u \in ThreadsOf(g), y \in Damaged' : y \in Damaged
    BY <1>1 DEF Damaged
  <2>2. ASSUME NEW u \in ThreadsOf(g), NEW y \in Damaged', Dropping(u, y), GatewayOf[u] = h
        PROVE  <<u, y>> \in N
    BY <2>1, <2>2 DEF Dropping, Damaged, ThreadsOf
  <2>3. \A u \in ThreadsOf(g) : u \in Threads /\ GatewayOf[u] \in Gateways
    BY ThreadsAssumption DEF ThreadsOf
  <2>4. \A u \in ThreadsOf(g), y \in Damaged' : Dropping(u, y) =>
          \/ call'[u] = call[u] /\ deployed'[GatewayOf[u]] = deployed[GatewayOf[u]]
          \/ <<u, y>> \in N
    BY <1>1, <2>2, <2>3
  <2> HIDE DEF N
  <2> QED BY <2>1, <2>4, FewNewMeetings
<1>4. /\ IsFiniteSet(K) /\ Cardinality(K) \in Nat
      /\ IsFiniteSet(K \cap ThreadsOf(g)) /\ Cardinality(K \cap ThreadsOf(g)) \in Nat
      /\ Cardinality(K \cap ThreadsOf(g)) <= Cardinality(K)
      /\ Cardinality(K \cap ThreadsOf(g)) <= Cardinality(ThreadsOf(g))
  <2>1. IsFiniteSet(K)
    BY ThreadsAssumption, FS_Subset
  <2> HIDE DEF K
  <2> QED BY <2>1, ThreadsFinite, FS_Intersection, FS_CardinalityType
<1>5. IsFiniteSet(N) /\ Cardinality(N) <= Cardinality(K \cap ThreadsOf(g)) /\ Cardinality(N) \in Nat
  <2> DEFINE L == K \cap ThreadsOf(g)
             who == [p \in N |-> p[1]]
  <2>1. who \in [N -> L]
    OBVIOUS
  <2>2. ASSUME NEW p \in N, NEW q \in N, who[p] = who[q]
        PROVE  p = q
    <3>1. /\ p[1] = q[1] /\ p[2] \in Slot(p[1]) /\ q[2] \in Slot(p[1])
          /\ p = <<p[1], p[2]>> /\ q = <<q[1], q[2]>>
      BY <2>2
    <3>2. \A x, y \in Slot(p[1]) : x = y
      BY DEF Slot, TypeOK
    <3> QED BY <3>1, <3>2
  <2>3. who \in Injection(N, L)
    BY <2>1, <2>2 DEF Injection, IsInjective
  <2>4. IsFiniteSet(L)
    BY <1>4
  <2> HIDE DEF who, N, L
  <2>5. IsFiniteSet(N) /\ Cardinality(N) <= Cardinality(L)
    BY <2>3, <2>4, FS_Injection
  <2> QED BY <2>5, FS_CardinalityType DEF L
<1>6. Cardinality(N) <= Cardinality(ThreadsOf(g)) * Cardinality(K)
  <2>1. \A a, b, c, m \in Nat : m <= c /\ c <= a /\ c <= b => m <= a * b
    <3> TAKE a, b, c, m \in Nat
    <3>1. CASE a = 0
      BY <3>1
    <3>2. CASE a >= 1
      <4>1. \A x, y \in Nat : x >= 1 => y <= x * y
        OBVIOUS
      <4>2. b <= a * b /\ a * b \in Nat
        BY <3>2, <4>1
      <4> QED BY <4>2
    <3> QED BY <3>1, <3>2
  <2> HIDE DEF N, K
  <2> QED BY <1>4, <1>5, <2>1, ThreadsFinite
<1>7. stats'[g].corrupted <= stats[g].corrupted
  BY DEF Restart, TypeOK, Zero
<1>8. spoils' + lost' = spoils + lost + Cardinality(K)
  BY <1>1, <1>4 DEF TypeOK
<1> HIDE DEF N, K
<1> QED BY <1>2, <1>3, <1>4, <1>5, <1>6, <1>7, <1>8, PaidFor

LEMMA SpoilPays ==
  ASSUME TypeOK, TypeOK', PoisonInv, Spoil, NEW g \in Gateways
  PROVE  Balanced(g)' /\ IsFiniteSet(held')
<1>1. PICK d \in Deployments, c \in Contents, f \in Undecodable \cup Explosive :
        LET slot == {x \in held : x.place = d.prefix /\ x.key = Key(c, d)}
        IN  held' = (held \ slot) \cup
              {[place |-> d.prefix, key |-> Key(c, d), value |-> [form |-> f, of |-> Nothing]]}
  BY DEF Spoil
<1> DEFINE new == [place |-> d.prefix, key |-> Key(c, d), value |-> [form |-> f, of |-> Nothing]]
           N == ThreadsOf(g) \X {new}
<1>2. PICK rest \in SUBSET held : held' = rest \cup {new}
  BY <1>1
<1>3. spoils' = spoils + 1 /\ UNCHANGED <<call, deployed, stats, lost>>
  BY DEF Spoil, process
<1> HIDE DEF new
<1>4. IsFiniteSet(held')
  <2>1. IsFiniteSet(rest)
    BY FS_Subset DEF PoisonInv
  <2> QED BY <1>2, <2>1, FS_AddElement
<1>5. Unmet(g)' \subseteq Unmet(g) \cup N
  <2>1. \A u \in ThreadsOf(g), y \in Damaged' : y \in Damaged \/ <<u, y>> \in N
    BY <1>2 DEF Damaged
  <2>2. \A u \in ThreadsOf(g) : call'[u] = call[u] /\ deployed'[GatewayOf[u]] = deployed[GatewayOf[u]]
    BY <1>3
  <2> HIDE DEF N
  <2> QED BY <2>1, <2>2, FewNewMeetings
<1>6. Cardinality(ThreadsOf(g)) \in Nat
  BY ThreadsFinite
<1>7. IsFiniteSet(N) /\ Cardinality(N) = Cardinality(ThreadsOf(g)) * 1
  <2>1. IsFiniteSet({new}) /\ Cardinality({new}) = 1
    BY FS_Singleton
  <2> QED BY <2>1, FS_Product, ThreadsFinite
<1>8. stats'[g].corrupted <= stats[g].corrupted
  BY <1>3 DEF TypeOK, Zero
<1>9. spoils' + lost' = spoils + lost + 1
  BY <1>3 DEF TypeOK
<1> HIDE DEF N
<1>10. Cardinality(N) <= Cardinality(ThreadsOf(g)) * 1
  BY <1>6, <1>7
<1> QED BY <1>4, <1>5, <1>7, <1>8, <1>9, <1>10, PaidFor

\* The store stays finite.
LEMMA HeldFinite ==
  ASSUME IsFiniteSet(held), [Next]_vars
  PROVE  IsFiniteSet(held')
<1>1. ASSUME NEW rest \in SUBSET held, NEW new, held' = rest \cup {new}
      PROVE  IsFiniteSet(held')
  <2>1. IsFiniteSet(rest)
    BY FS_Subset
  <2> QED BY <1>1, <2>1, FS_AddElement
<1>2. held' \subseteq held \/ \E new : \E rest \in SUBSET held : held' = rest \cup {new}
  <2>1. ASSUME Spoil
        PROVE  \E new : \E rest \in SUBSET held : held' = rest \cup {new}
    BY <2>1 DEF Spoil
  <2>2. ASSUME NEW t \in Threads, Put(t)
        PROVE  held' \subseteq held \/ \E new : \E rest \in SUBSET held : held' = rest \cup {new}
    BY <2>2 DEF Put
  <2> QED BY <2>1, <2>2 DEF Next, Step, UrlRaises, Miss, Hit, Corrupted, DecodeRaises, Raise, Delete,
             Transform, Probe, Lookup, Restart, Lose, vars
<1> QED BY <1>1, <1>2, FS_Subset

LEMMA PoisonKept ==
  ASSUME TypeOK, TypeOK', PoisonInv, [Next]_vars
  PROVE  PoisonInv'
<1>1. IsFiniteSet(held')
  BY HeldFinite DEF PoisonInv
<1> SUFFICES ASSUME NEW g \in Gateways PROVE Balanced(g)'
  BY <1>1 DEF PoisonInv
<1>2. \A u \in ThreadsOf(g) : u \in Threads
  BY DEF ThreadsOf
<1>3. CASE UNCHANGED vars
  BY <1>1, <1>3, Quiet DEF vars, process, history
<1>4. ASSUME NEW t \in Threads, NEW c \in Contents, Lookup(t, c)
      PROVE  Balanced(g)'
  <2>1. \A u \in ThreadsOf(g) : At(u, "delete") => call'[u] = call[u]
    BY <1>2, <1>4 DEF Lookup, At, TypeOK
  <2> QED BY <1>1, <1>4, <2>1, Quiet DEF Lookup, process
<1>5. ASSUME NEW t \in Threads, Probe(t)
      PROVE  Balanced(g)'
  BY <1>1, <1>5, Quiet DEF Probe, Command, process, history
<1>6. ASSUME NEW t \in Threads, UrlRaises(t) \/ DecodeRaises(t) \/ Transform(t)
      PROVE  Balanced(g)'
  <2>1. /\ call[t].step \in {"get", "transform"} /\ (Go(t, "idle") \/ Go(t, "put"))
        /\ UNCHANGED <<deployed, held, stats, spoils, lost>>
    BY <1>6 DEF UrlRaises, DecodeRaises, Transform, Raise, Command, At, history
  <2>2. \A u \in Threads : At(u, "delete") => call'[u] = call[u]
    BY <2>1, OthersWait
  <2> QED BY <1>1, <1>2, <2>1, <2>2, Quiet
<1>7. ASSUME NEW t \in Threads, Miss(t) \/ Hit(t)
      PROVE  Balanced(g)'
  <2>1. /\ call[t].step = "get" /\ (Go(t, "transform") \/ Go(t, "idle"))
        /\ Count(t, {"misses"}) \/ Count(t, {"hits"})
        /\ UNCHANGED <<deployed, held, spoils, lost>>
    BY <1>7 DEF Miss, Hit, Command, At, history
  <2>2. \A u \in Threads : At(u, "delete") => call'[u] = call[u]
    BY <2>1, OthersWait
  <2>3. stats'[g].corrupted = stats[g].corrupted
    BY <2>1, CorruptionCounted
  <2> QED BY <1>1, <1>2, <2>1, <2>2, <2>3, Quiet
<1>8. ASSUME NEW t \in Threads, Put(t)
      PROVE  Balanced(g)'
  <2>1. /\ call[t].step = "put" /\ Go(t, "idle")
        /\ Count(t, {"stores"}) \/ Count(t, {"errors"})
        /\ UNCHANGED <<deployed, spoils, lost>>
    BY <1>8 DEF Put, Command, At, history
  <2>2. \A x \in held' : x \in held \/ x.value.form = "sound"
    BY <1>8 DEF Put, Entry
  <2>3. \A x \in held' : x \in held \/ x.value.form \notin Undecodable
    BY <2>2, ThreadsAssumption
  <2>4. \A u \in Threads : At(u, "delete") => call'[u] = call[u]
    BY <2>1, OthersWait
  <2>5. stats'[g].corrupted = stats[g].corrupted
    BY <2>1, CorruptionCounted
  <2> QED BY <1>1, <1>2, <2>1, <2>3, <2>4, <2>5, Quiet
<1>9. CASE Lose
  <2>1. held' \subseteq held /\ UNCHANGED <<deployed, stats, call, spoils, lost>>
    BY <1>9 DEF Lose, process, history
  <2> QED BY <1>1, <2>1, Quiet
<1> QED
  BY <1>3, <1>4, <1>5, <1>6, <1>7, <1>8, <1>9, CorruptedPays, DeletePays, RestartPays, SpoilPays
  DEF Next, Step

\* An entry that from_bytes rejects is met by each thread once at most, and once more
\* for each delete that is lost, whatever the gateways, restarts and outages; of
\* entries it raises on this says nothing (TransformationCache.get).
THEOREM PoisonAlwaysPasses == Spec => []PoisonPasses
<1>1. Init => Inv /\ PoisonInv
  <2>1. ASSUME Init, NEW g \in Gateways
        PROVE  Balanced(g)
    <3>1. stats[g].corrupted = 0 /\ Unmet(g) = {} /\ spoils + lost = 0
      BY <2>1 DEF Init, Zero, Unmet, Damaged
    <3>2. Cardinality({}) = 0 /\ Cardinality(ThreadsOf(g)) * 0 = 0
      BY FS_EmptySet, ThreadsFinite
    <3> QED BY <3>1, <3>2 DEF Balanced
  <2> QED BY <2>1, InvInit, FS_EmptySet DEF PoisonInv, Init
<1>2. Inv /\ PoisonInv /\ [Next]_vars => Inv' /\ PoisonInv'
  BY InvInductive, PoisonKept DEF Inv
<1>3. Inv /\ PoisonInv => PoisonPasses
  <2> SUFFICES ASSUME Inv, PoisonInv, NEW g \in Gateways
               PROVE  stats[g].corrupted <= Cardinality(ThreadsOf(g)) * (spoils + lost)
    BY DEF PoisonPasses
  <2>1. /\ Cardinality(Unmet(g)) \in Nat /\ stats[g].corrupted \in Nat
        /\ Cardinality(ThreadsOf(g)) * (spoils + lost) \in Int
    BY UnmetFinite, ThreadsFinite DEF PoisonInv, Inv, TypeOK, Zero
  <2> QED BY <2>1 DEF PoisonInv, Balanced
<1> QED BY <1>1, <1>2, <1>3, PTL DEF Spec
=============================================================================
