# Zibbo, specified and checked

TLA+ specifications of the Zibbo gateway (`src/gateway`), the TLC runs that
model-check them and the proofs TLAPS checks. Zibbo sits between a client such
as Claude Code and an LLM provider: it rewrites the text and the documents of a
request into fewer tokens, forwards the result, and relays the answer. A
command line tool starts and stops the gateway and points Claude Code at it.

Every definition is translated from the source; `PROJECT.json` ("map") names the
lines each one stands for. Nothing here restates what a document says the
program does, except as a property to be checked.

## 1. The system

| part | state | operations | talks to |
|---|---|---|---|
| optimization pipeline `optimizers/pipeline.py` | one request's progress: segment in hand, cache key, detected type, results, rewritten payload | `transform` (inline, or in a worker thread above a size), `preview` | policy, detector, registry, cache, documents, tokenizers |
| policy `optimizers/policy.py` | none | `decide` | the kill switch |
| registry and detector `optimizers/registry.py`, `detector.py` | lists of transformers and sniffers | register, unregister, select; add, remove, detect | pipeline, plugins, prompt switch |
| runtime switches `runtime.py`, `api/routes/internal.py` | kill switch, prompt flag | enable, disable | registry and detector, through `apply_prompt_optimization` |
| transformation cache `cache/service.py`, `models.py` | hit, miss and error counters | keys, get, put, (de)serialization | a backend |
| cache backends `cache/memory.py`, `redis.py` | LRU of bytes with a byte counter and a lock; a lazily built Redis client | get, set, delete, clear, probe | pipeline threads; a Redis server other gateways share |
| proxy transport `providers/proxy.py` | connection of each response, relay state, counters | `forward`, buffered and streamed, with retries | httpx, Starlette, the caller |
| plugins `plugins/manager.py`, `discovery.py` | records by name | load, attach, enable, disable, unload | registry, detector |
| routing `lifecycle.py` | Claude Code's settings file, the state file beside it | configure, restore | Claude Code and its user, who edit the same file |
| gateway process `lifecycle.py`, `cli.py` | the pid file, a child process | start, connect, disconnect, stop, banner | other commands, other gateways, the operating system |
| application `main.py`, `api/`, `errors.py`, `middleware/` | one request's life: its id, dependencies, answer | the proxy route, `/internal`, `/health`, error handlers, restart | everything above, through worker threads and awaits |
| providers, headers, credentials `providers/auth.py`, `headers.py`, `base.py` | none | choose a provider, strip, inject, default, shape errors | the route, the transport |
| analytics `analytics/` | all-time and daily windows, recent events | record, today, recent | the proxy route writes, `/internal` reads |
| tokenizers `tokenizers/` | counters by encoding, a set of failed encodings, a lock | resolve, prewarm, download | start-up, pipeline threads, the loop |
| health `health.py` | registered probes | run all, each under a timeout | `/health/ready`, the cache, the worker threads |
| text transformers `transformers/prompt.py`, `text.py`, `html.py` | none | pure rewriting of a text | pipeline |
| documents `documents/` | extractors by format | detect a format, extract, convert tables and XML | pipeline |
| extraction of segments `extraction.py`, `schemas.py` | none | walk a payload, put results back | pipeline |
| settings, logging, reports of the command line | none that other parts depend on | parse, format, print | |

What makes it hard:

* **Threads against the loop.** Requests of 128 KiB and more are optimized in
  worker threads. The loop meanwhile changes the registry, the detector and the
  flag one after the other, and every thread shares one cache.
* **A cache hit skips everything**: detection, transformation, counting and the
  never-grow guard. What another request stored is applied as it is, so the key
  has to carry all that matters.
* **Connections have many ends.** The provider can fail at every await, the
  caller can hang up at every await, and `aclose` is reached on four ways.
* **A store that outlives its writers.** A Redis server is shared by replicas of
  several versions and settings, keeps what they wrote when they are gone, loses
  commands and answers, and may come to hold damaged values.
* **Two files, no transaction.** Routing writes settings and a state file; a
  command can fail or be killed between the two.
* **Processes known by their port.** Commands tell whether *a* gateway answers,
  not *which*, while gateways start, crash and are launched by hand.
* **One set of worker threads** serves offloaded transformations, the dependencies
  of every route, the readiness probe and start-up; one download blocks the loop.
* **Midnight and restarts** come between a number and the date it is shown with,
  and between a switch and the request it is meant for.
* **Rewriting feeds itself**: what one pass over a prompt leaves bare is the next
  one's duplicate, and a removed element leaves its text to its neighbours.
* **Plugins fail half way**, and compete for names with each other, with the
  builtins and with the prompt switch.

`PROJECT.json` lists each of these as hazards, at its line, with the properties
that would catch it going wrong.

## 2. The modules

| module | models | state ↔ code |
|---|---|---|
| `Policy` | the policy engine: ordered rules, first objection wins | operators only |
| `Transformation` | segments, transformers, sniffers, `detect`, `select`, the guards of `_compute_text` and `_compute_document` | operators; what a sniffer claims, a transformer does and a text costs are constants |
| `Optimizer` | the pipeline, the cache behind it, the switches in front | one action per step of `_run`; `registry`, `sniffers`, `promptFlag`, `optimizing`, `cache` are the shared objects |
| `Cacheless` | the promise: each request answered in one step, without a cache | `answer` |
| `OptimizerRefinement` | the mapping of `Optimizer` to `Cacheless` | |
| `TransformationCache` | the cache service over either backend, for the threads of several gateways | `held` = what the backends hold, `client` = `_client` and `_unavailable`, `stats` = `CacheStats`, `deployed` = version and settings, `call` = where a thread is |
| `MemoryCache` | the in-memory backend, clock read and lock included | `store` = `_store`, `used` = `_bytes`, `lock` = `_lock` |
| `ByteStore` | the contract of `CacheBackend` | what is held under each key |
| `Transport` | `ProxyService` and `_StreamRelay` | `upstream` = the response's connection, `closed` = `_closed`, `metrics` = `ProxyMetrics`, `pc` = the await |
| `PluginWorld` | what the operations of `PluginManager`, and the prompt switch, do to records, registry and detector | `records` = `_records` |
| `Plugins` | `PluginWorld`: when they are called, from loading to unloading | `phase` and `next` = how far the lifespan is |
| `Routing` | `configure_routing`, `restore_routing` | `target`, `backup` and the temporary files beside them |
| `RoutingSwitch` | the promise: an atomic switch that remembers the first endpoint | |
| `Lifecycle` | start, connect, disconnect, stop, banner, alone or two at once | `pidfile`, `proc` = what runs under each pid, `ours` = the pids commands started, `routed` = the scopes whose settings route, `host` = what the machine may do |
| `Service` | the application from arrival to answer: routes, dependencies, switches, analytics, credentials, errors, restart | `pc` = the await a request is at, `analytics` = `AnalyticsEngine`, `switches` = `RuntimeControl`, `deployed` = settings and environment, `sent` and `answer` = the two messages |
| `Counters` | what a call for a token counter is, and what is promised it | `pc`, `got` = where a call is and the counter it got |
| `Readiness` | `Counters`: encodings and their counters, prewarming, `/health/ready` | `counters` = `_cache`, `encodings` = `_encodings` and `_failed`, `lock` = `_lock` |
| `PromptDedup` | the prompt transformer and the normalizer | operators on sequences of lines |
| `HtmlMarkdown` | the HTML transformer | operators on pages, sequences of nodes in document order |
| `Documents` | the format decision, tables, XML | operators on uploads, rows and trees |
| `Payload` | `extraction.py` and the adapters of `schemas.py`: a body's segments, and writing results back | a body = fields and messages, each unread, a string or a list of parts; a place = field or message, and part |
| `MC*` | instances for TLC; `MCTexts` writes texts, pages, tables, trees, uploads and requests piece by piece | |
| `Sums` | sums over finite sets, for the proofs | |
| `*Proofs` | theorems and proofs | |

`Optimizer` extends `Policy` and `Transformation`; `Cacheless` extends the same
two, so that the promise and the implementation share the rewriting and differ
in threads, steps and cache. `Optimizer` sees the cache as a set of entries that
may go or not answer; `TransformationCache` sees a request as one lookup, and is about
what `Optimizer` takes for granted: keys across deployments, decoding, outages and
counters. `Lifecycle` treats writing or restoring one
settings file as one step: `Routing` implements `RoutingSwitch`, which says so
for commands that do not overlap. `Service` has `Optimizer`'s transformation and `Transport`'s forward
as one outcome each, and is about what surrounds them.

### Grain of atomicity

* `Optimizer`: a step is the code between two accesses to shared objects. A
  request below the offload threshold holds the event loop, so no toggle and no
  other start happens while one runs (`LoopFree`), though worker threads go on.
  The three assignments of `apply_prompt_optimization` are three steps.
* `TransformationCache`: each command to a backend is a step, between which other
  gateways and the server's own losses come. A command of Redis has three
  outcomes: carried out and answered, carried out and not answered, neither.
* `MemoryCache`: the clock is read before the lock is taken; everything under
  the lock is one critical section per iteration of the eviction loop.
* `Transport`: a step is what the loop does between two awaits.
* `Plugins`: no await anywhere, so a call is a step.
* `Routing`: each read, each write of a temporary file, each `os.replace` and
  each unlink is a step.
* `Lifecycle`: each probe, each file access and each signal is a step.
* `Service`: what the loop does between two awaits, or one worker thread does.
  The dependencies of a route are plain functions, which FastAPI runs in worker
  threads; they read what start-up fixed, so all of one request's are one step
  that needs a free thread.
* `Readiness`: each access of a thread to the shared dictionaries and the lock is a
  step. A call on the loop blocks it until it returns. A timeout of `asyncio`
  gives the limiter's token back and abandons the thread.
* `MCTexts`: a step adds a line, a node, a row or an upload, so that every text up
  to the bound is a state.

A mutant of a definition stands just before it (`KeepWithoutReplacing` before
`Keep`), marked "Mutant". It is the definition with one plausible bug, no part
of any specification; each property of a passing run is violated once its mutant
replaces the original.

## 3. The runs

| run | question | instance, and why it is enough |
|---|---|---|
| `pipeline` | does anything go wrong when offloaded requests interleave with each other, with the loop, with toggles and evictions, and is the cache ever visible in an answer? | two requests, two threads, two toggles, and two worlds, of which `mcSpec` picks one at the start. In the first, offloaded and small requests of prose, which the prompt sniffer claims, and a page that shrinks in one encoding and grows in the other. In the second, requests of every kind (each skip reason, each segment kind, failing transformer, failing extraction, text without a UTF-8 form, previews) on the loop; the second request meets what the first stored. Every invariant relates at most two requests through one entry, and off-on-off needs two toggles. `AnswersAsCacheless` is about the second world, because `stale` shows that threads do make the cache visible |
| `memory` | budget, accounting, eviction order, the contract | two callers, three keys, two entries, four bytes; values of half, all and more than the byte budget, so that each bound is met alone and with the other; expiry between a call's clock and its critical section |
| `replicas` | is a shared, unreliable, long-lived store ever visible, other than as work done again? | two gateways with a thread each, three lookups, one damaged entry, one restart. They start alike; the restart makes one of them an upgrade, another setting the fingerprint reads or one it does not, a gateway without the package, without a URL or with a wrong one. Three lookups let each gateway fill, meet and refill an entry of the other |
| `transport` | are connections, counters and errors right at every point of failure? | a stream of up to two chunks and two buffered requests, one retry. The requests share only the counters; two chunks give a first, a middle and a last await |
| `plugins` | do report, registry and detector agree? | two candidates (the fewest that compete), names that clash with each other, with a builtin, with the prompt switch and with the disabled list, up to two sniffers each, even of one name |
| `routing` | is there always a way back? | six commands to two gateways, three edits from outside, between commands and at any step of one, each write failing, each command killed at each step |
| `lifecycle` | is a stranger's gateway ever stopped, do the settings ever point at a dead one in silence, does each command end? | three commands, three pids, two scopes, gateways launched by hand, on three hosts: `calm`, which hands pids out again; `rough`, with crashes and slow starts and stops; `crowded`, with crashes and two commands at once. One of three commands can find what two others left |
| `service` | are statistics, switches, credentials and answers right across awaits, midnights and restarts? | three requests, of which the first changes something, the second comes after it or between, and the third asks what came of it; one worker thread, so that all compete for it; two days, one restart, two deployments that differ in every setting; one recent event kept |
| `readiness` | is an encoding fetched once, does the loop stall, is readiness answered? | two small requests and a large one, one of the default encoding and two of another, start-up and two checks over two threads; every tokenizer setting and cache |
| `texts` | do the text transformers and converters keep what they are given? | every text of five lines over eleven kinds of line (blank, fence, two headings, items, prose with an echo, indented ones), every page of four nodes over the tags the content model of HTML lets stand in each other, tables of four rows of up to three cells, XML trees of four nodes, uploads of three bytes with every opening, member and declared type, requests of four fields, messages and parts of ten kinds, under every provider and endpoint and for every set of segments that change. Each pass looks at a line, the one before it and its heading; the constants of the code (4096 bytes, 12 columns, 50 rows, depth 100, 50,000 nodes) are 2, 2, 2, 2 and 3, so that each bound is passed |
| `stale` | *violated*: prompt optimization off, and yet its output | two requests, two threads, two toggles |
| `sections` | *violated*: an item leaves its section | texts of eight lines of two headings, one item and blank lines |

`CHECK_DEADLOCK FALSE` stands where the instance ends: all requests answered,
or the bound on calls, lookups, toggles or edits reached. `memory` and `plugins` never
stop, and are checked for deadlock.

Bounds of the model: `MaxToggles` (calls of the switches), `MaxClock`,
`MaxChunks`, `MaxCalls`, `MaxOverlapping` (commands at once), `MaxEdits`, `MaxLookups`,
`MaxSpoils` (damaged entries), `MaxRestarts`, `MaxDay`, and `MaxLines`, `MaxNodes`,
`MaxRows` and `MaxParts` of `MCTexts`; each is a guard, none changes what an action does.

### Fairness

* `Transport`: the event loop runs what is ready, and httpx's timeouts bound
  each wait for the provider; a caller reads what it is sent or hangs up. Without
  the last assumption a caller that does neither keeps its connection, in the
  code too.
* `Lifecycle`: a command's own steps, whose waits are bounded by a count of
  polls; a starting gateway comes up or exits, a signalled one exits. A ready
  gateway may run for ever, and nobody needs to call anything.
* `Service`: the loop runs what is ready, a free thread goes to somebody (anyio's
  limiter is a queue), a provider's silence ends in a timeout. Nobody need ask anything,
  midnights and restarts need not come.
* `Readiness`: threads run, a download ends or fails, the lock and the
  limiter are handed on, timers that are due fire once the loop is free. A ping may
  hang for ever.

## 4. What is proved

For every value of the constants, under the named `ASSUME`s of the modules, which
TLC evaluates on each instance:

* `OptimizerProofs`. `NeverGrowsAlways`, `OwnContentAlways`,
  `OnlyCompletedCachedAlways`, `TypeCorrect`: for any number of requests, threads,
  toggles and evictions, with any transformers, sniffers and token counts. None
  is inductive alone: a hit is safe because of what the cache holds. `IInv` adds
  `CacheSound` (an entry is what some transformer that does not raise, or a
  successful extraction, made of the content in its key, counted in the encoding
  in its key, and within the guard), `CacheUnique`, and `Progress` (the key in hand is that
  of the segment in hand; before a store, the last result is sound). There is a
  lemma per action. `LockstepAlways` has an invariant of its own over the phases
  of a toggle. `ReportAlwaysMatches` rests on `Traced`: there are as many replacements as
  results that claim one, each is claimed by one, and all are of segments up to the
  one in hand, so that no segment is replaced twice. The facts about `Detect`, `Select`, `Measured` and `Extracted` are
  lemmas at the head of the module.
  Two theorems are about requests on the loop (`OnLoop`: none is big enough for a thread and
  small enough to be optimized), with any number of requests, toggles and evictions
  between them. `NamespacesAlwaysHold` rests on `Alone`: one request is under way at a time,
  no toggle is while it is, and so the key, the type and the rendering it has computed are
  still those of the registry and the sniffers in force. `CachelessImplemented` maps each step to
  a step of `Cacheless` or a stutter. Documents with the same bytes share an entry however
  base64 spells them, so `Cacheless` may read a document as any spelling of it (`Readings`): an
  answer is that of a pipeline without a cache for the same bytes, and may cost more than this
  spelling did (point 4 of section 6). Its invariant `OnCourse` says what the request under way
  has written is what `Cacheless` replaces in the segments it has done with, and that
  none of these has broken it; at the end the body cannot be serialized
  exactly if `Cacheless` says the request breaks. `stale` (`OffMeansOff`) is what threads do.
* `TransformationCacheProofs`. `CacheTypes`, `MissesAlwaysWork` and
  `PoisonAlwaysPasses` for any gateways, threads, deployments,
  losses and damage. `PoisonPasses` counts, and counts by gateway: for each of its threads, a
  gateway meets an entry that `from_bytes` rejects at most as often as entries were damaged and
  commands lost. An entry it raises on is not deleted, and not counted (point 8 of section 6).
  It is inductive with `Balanced`, which charges ahead: what a gateway has met, and the
  meetings that are still to come (`Unmet`), stay within that product.
  `ServedAsKeyedAlways` says of settings what `options_fingerprint` reads of them; of those it
  leaves out it says nothing (point 8 of section 6). The inductive invariant is `HeldSound`: a
  decodable entry is a rendering its key names.
* `TransportProofs`. `TruncationAlwaysShows`, `NothingEverLeftOpen`,
  `TransportTypes`: for any requests, attempts and chunks. The invariant ties
  `pc`, `upstream`, `closed` and `body` of each request together.
  `OnlyDropsEverRunAgain` counts what the provider ran against the connections that dropped: a
  dropped send may have been run (`Seen`), is repeated all the same, and nothing else is.
* `RoutingProofs`. `RoutingTypes` holds for overlapping commands too.
  `WayBackAlways`, `SettledEditsAlwaysSurvive` and `SwitchImplemented` (each step of
  `Routing` is a step of `RoutingSwitch` or a stutter) assume `Sequential`: one
  command at a time, and no edit of the endpoint itself. Failures, kills, any
  number of commands, endpoints and gateways are covered, and edits of the other settings
  between commands and at any step of one.
  The invariant says what a command holds in memory agrees with the disk: what
  it read of the settings is no older than its beginning (`Settled`), its recorded original is
  an endpoint, and a temporary file is either absent or its own.

* `MemoryCacheProofs`. `WithinBudgetAlways`, `NoNeedlessEvictionAlways`, and
  `ByteStoreImplemented`: each step of `MemoryCache` is a step of the contract `ByteStore` or a
  stutter, for any finite set of keys and any callers, sizes and budgets. The invariant `IInv` says
  that the counter is what the stored values weigh, that no key is stored twice, that a set in
  the eviction loop has its own entry at the recent end (so the loop, which takes the
  oldest first, stops before it), and that the value it stores fits the budget alone.
* `Sums`. A weight, and each number of a window of the analytics, is a fold over a set, which
  takes its elements in an order nobody knows. Induction theorems are out of the prover's reach: that the order does
  not matter (`SumRemove`), and how a sum follows what is summed (`SumChange`, `SumExtends`,
  `EvenShare` and the others), is proved by a smallest counterexample instead, a
  subset of which every smaller one obeys.
* `ProcessProofs`, about the gateway as a process of the machine: the commands of `Lifecycle`, which
  it extends, the start-up of `Readiness`, which is its instance `R`
  and shares `Counters` with it, and the plugins, whose `Plugins` is its instance `P` and
  shares `PluginWorld` with it.
  `OnlyOwnStoppedAlways` holds for any commands, overlapping ones among them, any pids, and hosts
  that crash and are slow: its invariant is `Owned`, that a pid the pid file or a command
  has, as child or as victim, is of a process some command spawned. 
  `DeadRouteAlwaysReported` is about hosts that are `Smooth` and needs what a command has seen to last,
  between its steps and through those of the processes, `InTurn`: one command is under way
  at a time (`Alone`), a gateway that was seen to answer still answers (`Upheld`), none is
  going away but the one a command waits for (`Signalling`), and what a command holds fits where
  it is (`Knows`).
  `LockExcludes`, `OneCounterAlways` (with tiktoken asked for, up to what follows a failure), `LoopStallsForStrangersOnlyAlways` and
  `SettledForGood` are about `R`, for any threads, encodings and checks. The invariant says
  that an encoding not settled was never downloaded and has no counter kept, that a job which is done
  has the counter of its encoding, and that none but strangers to the default encoding
  wait once start-up is over.
  `RegistryIsAlwaysTheReport` is about `P`, for any candidates, names and sniffers, those the prompt
  switch adds and removes among them: nothing is there that no enabled plugin registered, and what
  an enabled one registered is there, except under these two names (point 5 of section 6). The
  invariant adds `Owners`: two names on record never
  have one owner, or taking out one plugin's sniffers could take another's.
* `ServiceProofs`. `KillSwitchAlwaysHolds` and `OneCredentialAlways`, for any
  requests, threads and deployments, over midnights and restarts: the policy reads the kill switch
  on the loop, and what it read is not asked again, however long a request waits for a thread. `AsksAssumption` and
  `DeploymentsAssumption` say what a request and a deployment may be, among it that no
  caller's header has the value written `"configured"`: the tag by which the model tells the
  gateway's key from a caller's.
  `StatsAlwaysOfOneDay`, for any transformers and reports, any number of events, days
  and lives: its invariant `NumbersInv` keeps the books (`Accounts`). The session's window adds up to the events
  of this life and the day's window to those of the engine's day, and no event of this life is of a
  later day, so that a day which rolls over begins with no events. What was told stays
  what the log says of as much of it as there was (`Honest`): the log only grows.
  `ReportsAssumption` says what a report may be: one that was applied names a transformer, as
  `_run` applies only what some transformer changed; else a saving would be credited to nobody.
* `TransportProofs` also has `CountersAlwaysAgree`: the counters, which all requests share, are
  the cardinalities of sets of requests with the same story. The invariant adds where a
  request without a response can be (`Standing`), so that each step moves one request between
  these sets.

Only model-checked: liveness (`AlwaysReleased`, `CommandsEnd`, `EveryRequestAnswered`,
`ReadinessAnswers`), which is beyond the prover, and the six invariants of the texts (`MCTexts`), whose operators are
recursive. The
type invariants of `Optimizer`, `TransformationCache`, `Transport`, `Routing` and `MemoryCache` are
proved, and TLC need not check them.

## 5. What is not modelled, and why

* What a sniffer claims of a text, a transformer makes of it, a document
  extracts to and a text costs: constants of `Transformation`, with the
  assumptions the code justifies. `PromptDedup`, `HtmlMarkdown`, `Documents` and `Payload` are
  the algorithms themselves, about texts on their own. JSON compaction is a parse and a print by
  the standard library, and stays a constant; so do the sniffers, which weigh
  regular expressions, and the PDF and DOCX extractors, which walk what
  pdfplumber and python-docx make of a file. The delimiter of a CSV is guessed by
  counting: `Documents` begins at its rows.
* `PromptDedup`: white space at the end of lines, and the option
  `collapse_inline_whitespace`, which is off. `HtmlMarkdown`: attributes other
  than those that mark noise; the escaping of Markdown. What the parser mends: a page is
  what the content model of HTML lets stand.
* `Optimizer`: a request *is* its sequence of segments. `Payload` is the walk that finds them
  and the writing back, over bodies that are objects, as the pipeline requires; what a part
  holds beyond text, document and `cache_control` is left out.
* `TransformationCache`: the bytes of an entry. What matters of them is whether
  `from_bytes` accepts, rejects or raises on them. Redis's own pool and timeouts
  are the three outcomes of a command. `clear` is called by tests alone.
* `Service`: the values of headers other than credentials, query strings, the URL, log lines and
  the parsing of settings, which decide nothing another part depends on. The read-only
  reports of the command line only render what `/internal` answers.
* `Readiness`: probes plugins could register; the code registers the cache's.
* `Transport`: the pool itself; the timeouts' lengths; the sleep between retries.
* `Routing`: a failing unlink of the state file; symbolic links.
* `Lifecycle`: a pid file that cannot be written, and a command killed (the
  plugin's hook is, after 20 s).
* `Plugins`: the code of a plugin after it is loaded is a transformer of
  `Transformation`. Directory and entry point discovery are an order of candidates.
* `Optimizer`: `Transform` and the switch read the flag on the loop; only one
  toggle is under way at a time, since each runs on the loop without an await.
* Undefined behaviour: none in this Python code; dictionary and list operations
  on shared objects are atomic under the interpreter lock, which the grain of
  steps takes for granted.

## 6. Where code and documents disagree

Kept as runs with a finding: `stale`, `sections`. The models show
these too, once a constant admits them, or show them as what a property has to leave out:

1. `Optimizer`, offloaded requests: a prompt may be detected with the sniffer in
   place and find its transformer gone (`optimizers/pipeline.py:385`;
   `optimizers/__init__.py:103` "never disagree").
2. `Optimizer`, `Raise`: a lone surrogate has no UTF-8 form, and its cache key
   raises out of a pipeline that "Never raises" (`pipeline.py:107`). Compacted JSON with such
   an escape raises where it is put back, too.
3. `Transport`, `Seen`: a server that took the whole request and closed
   the connection raises `RemoteProtocolError` too, which is retried, so the provider
   runs the request twice (`providers/proxy.py:185`; "cannot double-submit",
   `proxy.py:166`); `OnlyDropsRunAgain` says that nothing else does. The body of a rejected stream is read with no handler, so a stalled
   4xx becomes a 500, not the 504 of `docs/ARCHITECTURE.md:324`
   (`providers/proxy.py:259`); a buffered body that breaks is mapped but not counted
   (`proxy.py:234`; "surfaced to the caller", `proxy.py:101`), which `CountersAgree` leaves open; `docs/COMPATIBILITY.md:61` says the gateway does not retry.
4. `Optimizer`, two spellings of a document: a rendering cached from a wasteful
   base64 spelling is served to a compact one and grows it (`pipeline.py:262`;
   "the guarantee is unconditional", `pipeline.py:326`).
5. `Plugins`: a failed plugin keeps its name from a working one
   (`plugins/manager.py:201`); a refused duplicate leaves no record
   (`manager.py:180`; "Always present", `manager.py:69`); a failed plugin, disabled and enabled again, is "loaded"
   (`manager.py:346`; "failed to load and cannot be enabled", `manager.py:336`); a plugin named `prompt`
   is taken away by the prompt switch and still reported as enabled, which `RegistryIsTheReport`
   leaves open for the two names of the switch.
6. `Routing`, `Crashes`: a killed command leaves a state file without routing
   (`lifecycle.py:208`; "state exists ⇔ routed", `lifecycle.py:282`). With
   `OneAtATime = FALSE` a disconnect during a connect leaves no way back, an edit between a
   command's read and its replace is lost (`lifecycle.py:219`), with `EditsUrl = TRUE`
   an endpoint the user set while routed is overwritten by disconnect.
7. `Lifecycle`: on a host that `overlaps`, the pid file may name the child that lost the
   race for the port (`cli.py:1361`), a connect may be recorded by one command and its
   gateway killed by another's stop, a rollback may kill the other command's child, and
   two commands write the state file without a lock (`lifecycle.py:206`). On a `slow` one
   a connect that failed leaves its gateway starting (`cli.py:1391`; "everything succeeds or
   nothing persists", `cli.py:1381`); where it
   `crashes`, one that replaced a gateway it had seen running (`cli.py:1392`); where it also
   `recycles` pids, `stop` may signal a stranger (`lifecycle.py:395`). `stop` restores the
   user's settings only, so a project stays routed (`cli.py:1453`).
8. `TransformationCache`: a Redis URL that cannot be parsed raises into every request
   and makes readiness unhealthy (`cache/redis.py:63`; "a bad URL or a down server
   surfaces at get/set and is handled there", `redis.py:51`). An entry with an
   infinite number raises `OverflowError` past `from_bytes`, is not deleted, and
   raises again (`cache/models.py:146`; "must never raise into the request path",
   `models.py:130`). `options_fingerprint` leaves out settings that shape output, such as
   `prompt_optimization_min_chars`, so that a restarted gateway serves what its
   old settings made, which `ServedAsKeyed` leaves open (`cache/__init__.py:67`; "every setting that can change a
   transformation's output").
9. `Service`: `/stats` carries yesterday's date while today is empty
   (`analytics/engine.py:136`), which `StatsAreOfOneDay` leaves out; the "ground truth" of
   `/internal/claude` forgets a request after a hundred others, and counts one before it is
   forwarded (`api/routes/internal.py:119`); an unexpected error has no
   `x-zibbo-request-id` ("Our id, always", `middleware/request_context.py:89`) and the
   shape of OpenAI on Anthropic's route (`errors.py:56`); the doctor's probe of the cache
   blocks the loop; nothing raises the `upstream_timeout` entry of Anthropic's error map.
10. `Readiness`: a tokenizer failure is latched, while `tokenizers/registry.py:55` means to
   "keep trying, so a transient outage recovers", and `OneCounter` leaves open which it is; a probe that times out because the
   threads are busy makes readiness 503, which `main.py:270` "must not fail"; readiness'
   own dependencies wait for a thread outside its timeout; only the default
   encoding is prewarmed ("never lands inside a user's request", `main.py:275`), which
   `LoopStallsForStrangersOnly` says of it alone.
11. `PromptDedup`, `Plain`: "holds exactly" fails for an indented first line
   (`"  Foo. Foo."` becomes `"Foo. Foo."` and then `"Foo."`) and for blank lines in a fence, where
   the normalizer also drops equal paragraphs ("never touch the inside of a code fence");
   `~~~` closes a fence of backticks; equal blocks under different headings are one.
   A sentence removed from one line re-spaces the lines after it (`prompt.py:244`).
12. `HtmlMarkdown`, `Regular`: text after a comment between blocks, a caption, and what stands
   in a table or a list outside rows and items are lost; a table in a table comes twice;
   text after a list in an item moves before it; an image in `<pre>` loses its
   alternative text; two paragraphs of one item are joined.
13. `Documents`, `Astray` and `Split`: "A document is never corrupted" (`documents/__init__.py:12`), but an
   XML document that declares another encoding, and a text with a bad byte after the
   first 4096, are decoded with replacement characters (`text_formats.py:37`); a text whose
   4096th byte falls inside a character is taken for binary (`detection.py:103`, "crude but
   reliable"); the UTF-16 branch of `_decode` is never reached. In a CSV a `|` of the header is
   escaped in the fenced form too and line breaks become spaces (`csv_table.py:56`); text after a comment in XML is
   lost (`xml_tree.py:61`).
14. `extraction.py`: a `role: tool` content that is a string is a segment, and so is a text a
   machine's part carries, though "function results are left alone" (`schemas.py:39`; also `:8`
   and `:146`), which `OnlyItsOwnPlace` leaves out (`Spoken`); a top-level
   `file_data`, as `input_file` blocks have it, is not read; the texts of a message come before
   its documents, though "in document order" (`extraction.py:108`); a document that becomes a
   text loses its other keys, such as a title, and keeps `cache_control` alone, which the
   comment names among those that must not linger (`extraction.py:74`) and a test wants kept:
   `OnlyItsOwnPlace` leaves the mark open.

## 7. Plan

Done: the pipeline, its cache, its switches; the cache service and both backends; the
transport; plugins; routing; the gateway's process, with overlapping commands; the
application with analytics, credentials and restarts; tokenizers and readiness; the prompt, HTML, table
and XML transformations and the format decision; the walk of a payload and back; the proofs of section 4.

Next, in this order:

1. The structure of the sniffers' claims (`detector.py`): which of two wins on a text that both
   could claim.
