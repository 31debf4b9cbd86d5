----------------------------- MODULE Readiness -----------------------------
(***************************************************************************)
(* What start-up prepares and what may stall the gateway: the resolution   *)
(* of a model to a token counter, whose encoding is downloaded on first    *)
(* use, and the readiness probe, over the event loop and the worker        *)
(* threads all of them share.                                              *)
(*                                                                         *)
(* A call for a counter runs in a thread (start-up, a large request) or on *)
(* the loop (a small one), which it blocks until it returns.  A step is    *)
(* what a thread does between two accesses to shared objects, or what the  *)
(* loop does between two awaits.  asyncio's timeout cancels the task: it   *)
(* gives the limiter's token back, and leaves the thread to itself.        *)
(***************************************************************************)
EXTENDS Counters, FiniteSets

CONSTANTS
  Checks,     \* readiness checks
  Backends,   \* tokenizer settings the gateway may have: "auto", "tiktoken", "heuristic"
  Stores,     \* the cache it may have: "memory", "redis", "unparsable" (redis, wrong URL)
  Threads     \* tokens of anyio's limiter

ASSUME ChecksAssumption ==
  {Prewarm, Nobody} \cap Checks = {} /\ Threads \in Nat \ {0} /\ IsFiniteSet(Calls \cup Checks)

VARIABLES
  store,      \* the cache backend
  serving,    \* has start-up finished?
  counters,   \* TokenCounterFactory._cache
  encodings,  \* _encodings and _failed
  lock,       \* who holds _lock
  check,      \* where each readiness check is
  verdict     \* its answer

vars == <<backend, store, serving, counters, encodings, lock, downloads, failures, pc, got, check, verdict>>
tokenizer == <<counters, encodings, lock, downloads, failures, pc, got>>
health    == <<check, verdict>>
settings  == <<backend, store>>

Init ==
  /\ backend \in Backends /\ store \in Stores
  /\ serving = FALSE
  /\ counters = [e \in Encodings |-> "none"]
  /\ encodings = [e \in Encodings |-> "unknown"]
  /\ lock = Nobody
  /\ downloads = [e \in Encodings |-> 0] /\ failures = [e \in Encodings |-> 0]
  /\ pc = [c \in Jobs |-> "idle"]
  /\ got = [c \in Jobs |-> "none"]
  /\ check = [k \in Checks |-> "idle"]
  /\ verdict = [k \in Checks |-> "none"]

At(c, p) == pc[c] = p
Go(c, p) == pc' = [pc EXCEPT ![c] = p]

Working   == {c \in Jobs : pc[c] \in {"looking", "loading", "locking", "locked"}}
LoopFree  == Working \cap Inline = {}
FreeToken == Cardinality(Working \ Inline) + Cardinality({k \in Checks : check[k] = "pinging"})
             < Threads

-----------------------------------------------------------------------------
(* for_model.                                                              *)

\* The job has its counter: a thread goes back to the pool, or the loop goes on.
Return(c, counter) == Go(c, "done") /\ got' = [got EXCEPT ![c] = counter]

\* Before start-up is over only prewarm runs.
Begin(c) ==
  /\ At(c, "idle") /\ Go(c, "looking")
  /\ IF c = Prewarm THEN ~serving ELSE serving
  /\ IF c \in Inline THEN LoopFree ELSE FreeToken
  /\ UNCHANGED <<settings, serving, counters, encodings, lock, downloads, failures, got, health>>

Look(c) ==
  /\ At(c, "looking")
  /\ LET cached == counters[Encoding(c)] IN
       IF backend = "heuristic" THEN Return(c, "heuristic")
       ELSE IF cached # "none" THEN Return(c, cached)
       ELSE Go(c, "loading") /\ UNCHANGED got
  /\ UNCHANGED <<settings, serving, counters, encodings, lock, downloads, failures, health>>

\* The counter is kept for the encoding.
Keep(c, counter) ==
  /\ Return(c, counter) /\ counters' = [counters EXCEPT ![Encoding(c)] = counter]

\* TiktokenUnavailableError: approximate counts, kept unless tiktoken was asked for.
Unavailable(c) ==
  IF backend = "tiktoken" THEN Return(c, "heuristic") /\ UNCHANGED counters
  ELSE Keep(c, "heuristic")

\* load_encoding, before the lock.
Load(c) ==
  /\ At(c, "loading")
  /\ CASE encodings[Encoding(c)] = "loaded" -> Keep(c, "exact")
       [] encodings[Encoding(c)] = "failed" -> Unavailable(c)
       [] OTHER -> Go(c, "locking") /\ UNCHANGED <<got, counters>>
  /\ UNCHANGED <<settings, serving, encodings, lock, downloads, failures, health>>

Lock(c) ==
  /\ At(c, "locking") /\ lock = Nobody
  /\ lock' = c /\ Go(c, "locked")
  /\ UNCHANGED <<settings, serving, counters, encodings, downloads, failures, got, health>>

\* Mutant: a failure another thread met is not looked for again under the lock.
FetchedOnly(e) == encodings[e] = "loaded"

\* The check again, under the lock: another thread may have settled it.
Settled(e) == encodings[e] # "unknown"

\* tiktoken.get_encoding, which the network answers or not.
Download(c) ==
  LET e == Encoding(c) IN
  /\ At(c, "locked") /\ lock' = Nobody
  /\ IF Settled(e) THEN UNCHANGED <<encodings, downloads, failures>>
     ELSE /\ downloads' = [downloads EXCEPT ![e] = @ + 1]
          /\ \/ encodings' = [encodings EXCEPT ![e] = "loaded"] /\ UNCHANGED failures
             \/ encodings' = [encodings EXCEPT ![e] = "failed"]
                /\ failures' = [failures EXCEPT ![e] = @ + 1]
  /\ IF encodings'[e] = "loaded" THEN Keep(c, "exact") ELSE Unavailable(c)
  /\ UNCHANGED <<settings, serving, health>>

\* Mutant: traffic is served while the default encoding is being loaded.
ServeAtOnce ==
  /\ ~serving /\ serving' = TRUE /\ pc[Prewarm] # "idle"
  /\ UNCHANGED <<settings, tokenizer, health>>

\* The lifespan has awaited prewarm.
Serve ==
  /\ ~serving /\ serving' = TRUE /\ At(Prewarm, "done")
  /\ UNCHANGED <<settings, tokenizer, health>>

-----------------------------------------------------------------------------
(* /health/ready.                                                          *)

Arrive(k) ==
  /\ check[k] = "idle" /\ serving /\ LoopFree
  /\ check' = [check EXCEPT ![k] = "arrived"]
  /\ UNCHANGED <<settings, serving, tokenizer, verdict>>

Answer(k, v) ==
  /\ check' = [check EXCEPT ![k] = "done"]
  /\ verdict' = [verdict EXCEPT ![k] = v]

\* aggregate_status of no component, and of one.
NoProbe == "ok"

\* The dependencies take a thread for a moment; then the probes start, if there is one.
Resolve(k) ==
  /\ check[k] = "arrived" /\ FreeToken /\ LoopFree
  /\ IF store = "memory" THEN Answer(k, NoProbe)
     ELSE check' = [check EXCEPT ![k] = "waiting"] /\ UNCHANGED verdict
  /\ UNCHANGED <<settings, serving, tokenizer>>

\* The ping has got a thread.
Ping(k) ==
  /\ check[k] = "waiting" /\ FreeToken
  /\ check' = [check EXCEPT ![k] = "pinging"]
  /\ UNCHANGED <<settings, serving, tokenizer, verdict>>

\* It was answered, or was not; with a URL that cannot be parsed it raises.
Pong(k) ==
  /\ check[k] = "pinging" /\ LoopFree
  /\ \E v \in IF store = "redis" THEN {"ok", "degraded"} ELSE {"unhealthy"} : Answer(k, v)
  /\ UNCHANGED <<settings, serving, tokenizer>>

\* Mutant: a probe that has not begun is waited for.
TimedPinging == {"pinging"}

\* The time of a probe runs from before it asks for a thread.
Timed == {"waiting", "pinging"}

TimeOut(k) ==
  /\ check[k] \in Timed /\ LoopFree
  /\ Answer(k, "unhealthy")
  /\ UNCHANGED <<settings, serving, tokenizer>>

-----------------------------------------------------------------------------

Work(c)   == Begin(c) \/ Look(c) \/ Load(c) \/ Lock(c) \/ Download(c)
Serves(k) == Resolve(k) \/ Pong(k) \/ TimeOut(k)

Next ==
  \/ \E c \in Jobs : Work(c)
  \/ Serve
  \/ \E k \in Checks : Arrive(k) \/ Ping(k) \/ Serves(k)

Spec == Init /\ [][Next]_vars

\* Threads run, a download ends, a lock and the limiter are handed on, the loop runs what is
\* ready and fires timers that are due.  A ping may hang, and no call need come.
FairSpec ==
  /\ Spec
  /\ WF_vars(Serve) /\ WF_vars(Begin(Prewarm))
  /\ \A c \in Jobs : WF_vars(At(c, "looking") /\ Look(c)) /\ WF_vars(Load(c)) /\ WF_vars(Lock(c))
                     /\ WF_vars(Download(c))
  /\ \A k \in Checks : WF_vars(Resolve(k)) /\ WF_vars(TimeOut(k))

-----------------------------------------------------------------------------
(* Properties.                                                             *)

\* A readiness check that came is answered, be the threads busy, the loop stalled by a
\* download, or the ping hung.
ReadinessAnswers == \A k \in Checks : check[k] = "arrived" ~> check[k] = "done"

=============================================================================
