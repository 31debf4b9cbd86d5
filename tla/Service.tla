------------------------------ MODULE Service ------------------------------
(***************************************************************************)
(* The application: requests from their arrival to the answer, through the *)
(* routes, the worker threads, the switches and the analytics.             *)
(*                                                                         *)
(* A step is what the event loop does between two awaits, or what one      *)
(* worker thread does.  The dependencies of a route are plain functions,   *)
(* which FastAPI runs in worker threads: they read what start-up fixed, so *)
(* all of one request's are one step that needs a free thread.  Optimizer  *)
(* has the inside of a transformation and Transport that of a forward;     *)
(* here each is its outcome.  A restart loses what is under way.           *)
(***************************************************************************)
EXTENDS Integers, Sequences, FiniteSets, Functions

CONSTANTS
  Requests,     \* requests, numbered as they arrive, over every life of the process
  Asks,         \* Asks[r]: what the r-th may ask
  Deployments,  \* settings the gateway may have been started with
  Reports,      \* what the pipeline may report of a request it may optimize
  Transformers, \* names of transformers
  Naming,       \* providers that put an id of their own on a response
  Threads,      \* worker threads (anyio's limiter)
  Recent,       \* events the analytics engine keeps
  MaxDay,       \* bound of the model: UTC days
  MaxRestarts   \* bound of the model

Providers == {"openai", "anthropic", "groq"}
Internal  == {"stats", "claude", "status", "logs", "benchmark", "doctor", "version",
              "enable", "disable"}
Ops       == {"proxy", "live", "summary"} \cup Internal
Signals   == <<"bedrock", "vertex", "foundry", "auth_token", "api_key", "api_key_helper",
               "oauth_token">>

Report == [applied : BOOLEAN, reason : {"none", "disabled", "denied", "other"}, before : Nat,
           after : Nat, transformers : SUBSET Transformers, hits : Nat, lookups : Nat]

ASSUME AsksAssumption ==
  \A r \in Requests : \A a \in Asks[r] :
    /\ a.op \in Ops /\ a.provider \in Providers /\ a.large \in BOOLEAN
    /\ \A h \in DOMAIN a.headers : a.headers[h] # "configured"  \* what the gateway adds
ASSUME DeploymentsAssumption ==
  \A d \in Deployments : {d.optimization, d.prompt} \subseteq BOOLEAN
ASSUME ReportsAssumption ==
  /\ IsFiniteSet(Transformers) /\ Reports \subseteq Report
  /\ \A p \in Reports : /\ p.after <= p.before /\ p.hits <= p.lookups
                        /\ p.reason # "disabled"
                        /\ p.applied => p.reason = "none" /\ p.transformers # {}
ASSUME BoundsAssumption == {Recent, MaxDay, Threads} \subseteq Nat \ {0} /\ MaxRestarts \in Nat

VARIABLES
  clock,      \* the UTC day
  life,       \* which start of the process this is
  deployed,   \* its settings and environment
  switches,   \* RuntimeControl
  analytics,  \* AnalyticsEngine
  pc,         \* where each request is
  ask,        \* what it asks
  report,     \* what the pipeline reported of it
  sent,       \* what went to the provider
  answer,     \* status and headers of its answer
  told,       \* the content of its answer
  seen,       \* ghost: values of the kill switch from its arrival to the policy's decision
  log         \* ghost: every event of every life, in order

vars == <<clock, life, deployed, switches, analytics, pc, ask, report, sent, answer, told,
          seen, log>>

At(r, p) == pc[r] = p
Go(r, p) == pc' = [pc EXCEPT ![r] = p]

-----------------------------------------------------------------------------
(* Analytics.                                                              *)

Zeros == [t \in Transformers |-> 0]
Empty == [requests |-> 0, optimized |-> 0, skipped |-> 0, before |-> 0, after |-> 0,
          hits |-> 0, misses |-> 0, count |-> Zeros, saved |-> Zeros]

\* One event into a window.
Add(w, p) ==
  LET n     == Cardinality(p.transformers)
      share == IF n = 0 THEN 0 ELSE (p.before - p.after) \div n
      did   == [w EXCEPT !.optimized = @ + 1, !.before = @ + p.before, !.after = @ + p.after,
                  !.count = [t \in Transformers |-> @[t] + IF t \in p.transformers THEN 1 ELSE 0],
                  !.saved = [t \in Transformers |-> @[t] + IF t \in p.transformers THEN share ELSE 0]]
      sorted == IF p.applied THEN did ELSE [w EXCEPT !.skipped = @ + 1]
  IN  [sorted EXCEPT !.requests = @ + 1, !.hits = @ + p.hits, !.misses = @ + p.lookups - p.hits]

NewAnalytics(day) == [allTime |-> Empty, today |-> Empty, date |-> day, recent |-> <<>>]

\* Mutant: the date moves on and the window does not.
RolledDate(a) == [a EXCEPT !.date = clock]

\* _roll_day_if_needed.
Rolled(a) == IF a.date = clock THEN a ELSE [a EXCEPT !.date = clock, !.today = Empty]

\* The bounded deque of events, oldest first.
Pushed(events, e) ==
  LET all == Append(events, e)
  IN  SubSeq(all, IF Len(all) > Recent THEN Len(all) - Recent + 1 ELSE 1, Len(all))

\* classify_auth_header: by the names of headers, and the scheme of one.
Method(headers) ==
  IF "x-api-key" \in DOMAIN headers THEN "api_key"
  ELSE IF "authorization" \in DOMAIN headers /\ headers["authorization"] # "basic"
       THEN "oauth_token" ELSE "none"

\* event_from_report, and the kind of credential the caller showed.
Event(r, p) ==
  [provider |-> ask[r].provider, method |-> Method(ask[r].headers), report |-> p]

\* record: both windows, and the event itself.
Recorded(a, e) ==
  [a EXCEPT !.allTime = Add(@, e.report), !.today = Add(@, e.report), !.recent = Pushed(@, e)]

\* _record_analytics, in the loop step that has the report.
Record(r, p) ==
  /\ analytics' = Recorded(Rolled(analytics), Event(r, p))
  /\ log' = Append(log, [report |-> p, day |-> clock, life |-> life])

-----------------------------------------------------------------------------
(* Answers, and what the layers outside the routes put on them.            *)

NoAnswer == [status |-> 0, zibbo |-> FALSE, id |-> "none", shape |-> "none",
             optimization |-> "none"]

\* RequestContextMiddleware, as the response passes.
Stamped(a) == [a EXCEPT !.zibbo = TRUE, !.id = IF @ = "none" THEN "own" ELSE @]

\* _json_error.
Rendered(status, shape) ==
  [NoAnswer EXCEPT !.status = status, !.shape = shape, !.id = "own"]

Refused(status) == Stamped(Rendered(status, "openai"))

\* ServerErrorMiddleware, which renders this, is outside RequestContextMiddleware.
Unexpected == Rendered(500, "openai")

NothingTold == [day |-> 0, life |-> 0, asOf |-> 0, date |-> 0, today |-> Empty,
                allTime |-> Empty, events |-> <<>>, observed |-> 0, method |-> "none",
                detected |-> "none", switches |-> [optimization |-> FALSE, prompt |-> FALSE],
                healthy |-> TRUE]

Answered(r, a, content) ==
  /\ Go(r, "done")
  /\ answer' = [answer EXCEPT ![r] = a]
  /\ told' = [told EXCEPT ![r] = content]

-----------------------------------------------------------------------------
(* Starting.                                                               *)

NoAsk    == [op |-> "live", provider |-> "openai", large |-> FALSE, headers |-> <<>>,
             peer |-> "loopback", feature |-> "none", content |-> FALSE]
NoReport == [applied |-> FALSE, reason |-> "none", before |-> 0, after |-> 0,
             transformers |-> {}, hits |-> 0, lookups |-> 0]
Disabled == [NoReport EXCEPT !.reason = "disabled"]
NotSent  == [to |-> "none", headers |-> <<>>]

Seeded(d) == [optimization |-> d.optimization, prompt |-> d.prompt]

Init ==
  /\ clock = 1 /\ life = 1
  /\ deployed \in Deployments
  /\ switches = Seeded(deployed)
  /\ analytics = NewAnalytics(1)
  /\ pc = [r \in Requests |-> "idle"]
  /\ ask = [r \in Requests |-> NoAsk]
  /\ report = [r \in Requests |-> NoReport]
  /\ sent = [r \in Requests |-> NotSent]
  /\ answer = [r \in Requests |-> NoAnswer]
  /\ told = [r \in Requests |-> NothingTold]
  /\ seen = [r \in Requests |-> {}]
  /\ log = <<>>

UnderWay == {r \in Requests : pc[r] \notin {"idle", "done"}}

\* The process ends and is started again, with the same settings.
Restart ==
  /\ life <= MaxRestarts
  /\ life' = life + 1
  /\ switches' = Seeded(deployed)
  /\ analytics' = NewAnalytics(clock)
  /\ pc' = [r \in Requests |-> IF r \in UnderWay THEN "done" ELSE pc[r]]
  /\ UNCHANGED <<clock, deployed, ask, report, sent, answer, told, seen, log>>

Midnight ==
  /\ clock < MaxDay /\ clock' = clock + 1
  /\ UNCHANGED <<life, deployed, switches, analytics, pc, ask, report, sent, answer, told,
                 seen, log>>

-----------------------------------------------------------------------------
(* Arrival, routing and dependencies.                                      *)

Arrive(r) ==
  /\ At(r, "idle") /\ \A q \in Requests : q < r => ~At(q, "idle")
  /\ Go(r, "arrived")
  /\ \E a \in Asks[r] : ask' = [ask EXCEPT ![r] = a]
  /\ seen' = [seen EXCEPT ![r] = {switches.optimization}]
  /\ UNCHANGED <<clock, life, deployed, switches, analytics, report, sent, answer, told, log>>

Unrouted(r) == ask[r].op = "proxy" /\ ask[r].provider \notin deployed.mounted

NotFound(r) ==
  /\ At(r, "arrived") /\ Unrouted(r)
  /\ Answered(r, Refused(404), NothingTold)
  /\ UNCHANGED <<clock, life, deployed, switches, analytics, ask, report, sent, seen, log>>

\* /health/live has no dependency.
Live(r) ==
  /\ At(r, "arrived") /\ ask[r].op = "live"
  /\ Answered(r, Stamped([NoAnswer EXCEPT !.status = 200]), NothingTold)
  /\ UNCHANGED <<clock, life, deployed, switches, analytics, ask, report, sent, seen, log>>

\* Mutant: a thread that ran a transformation is not given back.
BusyForEver == {r \in Requests : pc[r] \in {"offloaded", "transformed", "forwarding", "done"}
                                 /\ ask[r].large}
Busy        == {r \in Requests : pc[r] = "offloaded"}
FreeThread  == Cardinality(Busy) < Threads

\* _bearer_token: of either header, the first.
Presented(headers) ==
  IF "authorization" \in DOMAIN headers /\ headers["authorization"] # "basic"
  THEN headers["authorization"]
  ELSE IF "x-zibbo-token" \in DOMAIN headers THEN headers["x-zibbo-token"] ELSE "none"

\* require_local: 0 lets the request in.
Refusal(a) ==
  IF ~deployed.remote THEN IF a.peer = "loopback" THEN 0 ELSE 404
  ELSE IF ~deployed.token THEN 503
  ELSE IF Presented(a.headers) = "token" THEN 0 ELSE 401

Resolve(r) ==
  /\ At(r, "arrived") /\ ask[r].op # "live" /\ ~Unrouted(r)
  /\ FreeThread
  /\ LET refusal == IF ask[r].op \in Internal THEN Refusal(ask[r]) ELSE 0
     IN  IF refusal = 0 THEN Go(r, "handling") /\ UNCHANGED <<answer, told>>
         ELSE Answered(r, Refused(refusal), NothingTold)
  /\ UNCHANGED <<clock, life, deployed, switches, analytics, ask, report, sent, seen, log>>

-----------------------------------------------------------------------------
(* What goes to a provider.                                                *)

Stripped == {"connection", "keep-alive", "proxy-authenticate", "proxy-authorization",
             "proxy-connection", "te", "trailer", "transfer-encoding", "upgrade", "host",
             "content-length", "expect"}

\* Mutant: Anthropic's strategy knows its own header only.
AcceptedByName(p) == IF p = "anthropic" THEN {"x-api-key"} ELSE {"authorization"}

\* credential_headers: what counts as a credential of the caller's.
Accepted(p) == IF p = "anthropic" THEN {"x-api-key", "authorization"} ELSE {"authorization"}
Placed(p)   == IF p = "anthropic" THEN "x-api-key" ELSE "authorization"
\* _inject.
Injected(p, headers) ==
  [h \in DOMAIN headers \cup {Placed(p)} |-> IF h = Placed(p) THEN "configured" ELSE headers[h]]

\* The provider's default headers; what is there wins.
Defaults(p) == IF p = "anthropic" THEN {"anthropic-version"} ELSE {}
Defaulted(p, headers) ==
  [h \in DOMAIN headers \cup Defaults(p) |-> IF h \in DOMAIN headers THEN headers[h] ELSE "configured"]

\* build_request.
Forwarded(p, headers) ==
  LET kept  == [h \in DOMAIN headers \ Stripped |-> headers[h]]
      keyed == IF DOMAIN kept \cap Accepted(p) # {} \/ p \notin deployed.keys THEN kept
               ELSE Injected(p, kept)
  IN  Defaulted(p, keyed)

\* The envelope a provider's errors are rendered in.
Shape(p) == IF p = "anthropic" THEN "anthropic" ELSE "openai"

-----------------------------------------------------------------------------
(* The proxy route.                                                        *)

\* What may be reported of a request the policy decides about now.
Outcomes == IF switches.optimization THEN Reports ELSE {Disabled}

\* Mutant: the thread asks the policy again.
WorkedAnew == {p \in Outcomes : p.reason # "denied"}

\* What a worker thread may report: all it is given was allowed, and it reads no switch.
Worked == {p \in Reports : p.reason # "denied"}

\* The report is there: record it, and forward up to the first await.
Forward(r, p) ==
  LET provider == ask[r].provider
  IN  /\ Go(r, "awaiting")
      /\ Record(r, p)
      /\ sent' = [sent EXCEPT ![r] = [to |-> provider,
                                      headers |-> Forwarded(provider, ask[r].headers)]]

\* The body has come.  The policy decides on the loop; a small body is transformed there, and
\* one of any size that is turned away goes on as it came.
Transform(r) ==
  /\ At(r, "handling") /\ ask[r].op = "proxy"
  /\ \E p \in Outcomes : /\ ask[r].large => p.reason \in {"disabled", "denied"}
                        /\ report' = [report EXCEPT ![r] = p] /\ Forward(r, p)
  /\ UNCHANGED <<clock, life, deployed, switches, ask, answer, told, seen>>

\* A large one that is allowed waits for a thread, and stays allowed.
Offload(r) ==
  /\ At(r, "handling") /\ ask[r].op = "proxy" /\ ask[r].large /\ switches.optimization
  /\ Go(r, "queued")
  /\ UNCHANGED <<clock, life, deployed, switches, analytics, ask, report, sent, answer, told,
                 seen, log>>

StartWorker(r) ==
  /\ At(r, "queued") /\ FreeThread /\ Go(r, "offloaded")
  /\ \E p \in Worked : report' = [report EXCEPT ![r] = p]
  /\ UNCHANGED <<clock, life, deployed, switches, analytics, ask, sent, answer, told, seen, log>>

FinishWorker(r) ==
  /\ At(r, "offloaded") /\ Go(r, "transformed")
  /\ UNCHANGED <<clock, life, deployed, switches, analytics, ask, report, sent, answer, told,
                 seen, log>>

Resume(r) ==
  /\ At(r, "transformed") /\ Forward(r, report[r])
  /\ UNCHANGED <<clock, life, deployed, switches, ask, report, answer, told, seen>>

\* The pipeline raised.
Raise(r) ==
  /\ \/ At(r, "handling") /\ ask[r].op = "proxy" /\ ~ask[r].large /\ switches.optimization
     \/ At(r, "transformed")
  /\ Answered(r, Unexpected, NothingTold)
  /\ UNCHANGED <<clock, life, deployed, switches, analytics, ask, report, sent, seen, log>>

Noted(p) == IF p.applied THEN "applied" ELSE IF p.reason # "none" THEN "skipped" ELSE "none"

\* The provider answered.
Relay(r) ==
  /\ At(r, "awaiting")
  /\ LET id == IF ask[r].provider \in Naming THEN "provider" ELSE "none"
     IN  Answered(r, Stamped([NoAnswer EXCEPT !.status = 200, !.id = id,
                                              !.optimization = Noted(report[r])]), NothingTold)
  /\ UNCHANGED <<clock, life, deployed, switches, analytics, ask, report, sent, seen, log>>

\* UpstreamError; UpstreamTimeoutError differs in its status alone.
Fail(r) ==
  /\ At(r, "awaiting")
  /\ Answered(r, Stamped(Rendered(502, Shape(ask[r].provider))), NothingTold)
  /\ UNCHANGED <<clock, life, deployed, switches, analytics, ask, report, sent, seen, log>>

\* Something no handler is for.
Break(r) ==
  /\ At(r, "awaiting")
  /\ Answered(r, Unexpected, NothingTold)
  /\ UNCHANGED <<clock, life, deployed, switches, analytics, ask, report, sent, seen, log>>

-----------------------------------------------------------------------------
(* The internal routes, each of them one step.                             *)

Asked(r, op) == At(r, "handling") /\ ask[r].op = op
Tell(r, content) ==
  Answered(r, Stamped([NoAnswer EXCEPT !.status = 200]),
           [content EXCEPT !.day = clock, !.life = life, !.asOf = Len(log)])

\* Mutant: reading does not roll the day over.
TodayUnrolled == analytics
\* today(), which writes.
Today == Rolled(analytics)

\* The date is read before today() rolls it over.
Stats(r) ==
  /\ Asked(r, "stats")
  /\ analytics' = Today
  /\ Tell(r, [NothingTold EXCEPT !.date = analytics.date, !.today = Today.today,
                                 !.allTime = analytics.allTime])
  /\ UNCHANGED <<clock, life, deployed, switches, ask, report, sent, seen, log>>

Latest(n) == [i \in 1..(IF n < Len(analytics.recent) THEN n ELSE Len(analytics.recent)) |->
                analytics.recent[Len(analytics.recent) + 1 - i]]

\* detect_auth: the first signal wins; in a Claude Code session none means a subscription.
Detected ==
  LET found == {i \in DOMAIN Signals : Signals[i] \in deployed.signals}
  IN  IF found # {} THEN Signals[CHOOSE i \in found : \A j \in found : i <= j]
      ELSE IF "claude_code" \in deployed.signals THEN "subscription" ELSE "none"

Claude(r) ==
  /\ Asked(r, "claude")
  /\ LET theirs == SelectSeq(Latest(200), LAMBDA e : e.provider = "anthropic")
         known  == SelectSeq(theirs, LAMBDA e : e.method # "none")
     IN  Tell(r, [NothingTold EXCEPT
              !.observed = Len(theirs), !.switches = switches, !.detected = Detected,
              !.method = IF known = <<>> THEN "none" ELSE Head(known).method])
  /\ UNCHANGED <<clock, life, deployed, switches, analytics, ask, report, sent, seen, log>>

Logs(r) ==
  /\ Asked(r, "logs")
  /\ \E limit \in 1..Recent : Tell(r, [NothingTold EXCEPT !.events = Latest(limit)])
  /\ UNCHANGED <<clock, life, deployed, switches, analytics, ask, report, sent, seen, log>>

\* Content goes through preview, which leaves no event; without any, the last event is told.
Benchmark(r) ==
  /\ Asked(r, "benchmark")
  /\ Tell(r, [NothingTold EXCEPT !.events = IF ask[r].content THEN <<>> ELSE Latest(1)])
  /\ UNCHANGED <<clock, life, deployed, switches, analytics, ask, report, sent, seen, log>>

\* The probe of the cache runs on the loop: nothing else does meanwhile.
Doctor(r) ==
  /\ Asked(r, "doctor")
  /\ \E reachable \in IF deployed.cache = "redis" THEN BOOLEAN ELSE {TRUE} :
       Tell(r, [NothingTold EXCEPT !.switches = switches, !.healthy = reachable])
  /\ UNCHANGED <<clock, life, deployed, switches, analytics, ask, report, sent, seen, log>>

Status(r) ==
  /\ Asked(r, "status")
  /\ Tell(r, [NothingTold EXCEPT !.switches = switches])
  /\ UNCHANGED <<clock, life, deployed, switches, analytics, ask, report, sent, seen, log>>

\* Routes that tell what start-up fixed: /internal/version and /health.
Describe(r) ==
  /\ Asked(r, "version") \/ Asked(r, "summary")
  /\ Tell(r, NothingTold)
  /\ UNCHANGED <<clock, life, deployed, switches, analytics, ask, report, sent, seen, log>>

Undecided == {r \in Requests : pc[r] \in {"arrived", "handling"}}

\* enable and disable; Optimizer has what the prompt feature changes besides.
Toggle(r) ==
  \E on \in BOOLEAN :
    /\ Asked(r, IF on THEN "enable" ELSE "disable")
    /\ switches' = IF ask[r].feature = "prompt" THEN [switches EXCEPT !.prompt = on]
                   ELSE [switches EXCEPT !.optimization = on]
    /\ seen' = [q \in Requests |->
                  IF q \in Undecided THEN seen[q] \cup {switches'.optimization} ELSE seen[q]]
    /\ Tell(r, [NothingTold EXCEPT !.switches = switches'])
    /\ UNCHANGED <<clock, life, deployed, analytics, ask, report, sent, log>>

-----------------------------------------------------------------------------

\* What the process does for a request once it has arrived.
Step(r) ==
  \/ NotFound(r) \/ Live(r) \/ Resolve(r)
  \/ Transform(r) \/ Offload(r) \/ StartWorker(r) \/ FinishWorker(r) \/ Resume(r) \/ Raise(r)
  \/ Relay(r) \/ Fail(r) \/ Break(r)
  \/ Stats(r) \/ Claude(r) \/ Logs(r) \/ Benchmark(r) \/ Doctor(r) \/ Status(r) \/ Describe(r)
  \/ Toggle(r)

Next == (\E r \in Requests : Arrive(r) \/ Step(r)) \/ Restart \/ Midnight

Spec == Init /\ [][Next]_vars

\* The loop runs what is ready, and anyio's limiter is a queue; a provider's silence ends
\* in a timeout.
FairSpec == Spec /\ \A r \in Requests : WF_vars(Step(r))

-----------------------------------------------------------------------------
(* Properties.                                                             *)

\* What a window has to say of events, given as a function from their numbers to what was
\* reported of them.
Totals(w, events) ==
  LET all      == DOMAIN events
      applied  == {i \in all : events[i].applied}
      saved    == w.before - w.after
      credited == SumFunctionOnSet(w.saved, Transformers)
  IN  /\ w.requests = Cardinality(all)
      /\ w.optimized = Cardinality(applied) /\ w.skipped = Cardinality(all \ applied)
      /\ w.before = SumFunctionOnSet([i \in all |-> events[i].before], applied)
      /\ w.after = SumFunctionOnSet([i \in all |-> events[i].after], applied)
      /\ w.hits = SumFunctionOnSet([i \in all |-> events[i].hits], all)
      /\ w.hits + w.misses = SumFunctionOnSet([i \in all |-> events[i].lookups], all)
      /\ \A t \in Transformers :
           w.count[t] = Cardinality({i \in applied : t \in events[i].transformers})
      /\ credited <= saved
      /\ saved - credited
           <= SumFunctionOnSet([i \in all |-> Cardinality(events[i].transformers)], applied)

\* The first n events of the log, those of a life and those of a day of it.
EventsOf(l, n)       == [i \in {j \in 1..n : log[j].life = l} |-> log[i].report]
EventsOfDay(l, d, n) == [i \in {j \in 1..n : log[j].life = l /\ log[j].day = d} |-> log[i].report]

\* However many midnights pass unnoticed, /internal/stats tells of the day it is asked on and
\* of this life of the process, and dates numbers that are not zero with that day.
StatsAreOfOneDay ==
  \A r \in Requests :
    LET t == told[r] IN
    (At(r, "done") /\ ask[r].op = "stats" /\ answer[r].status = 200) =>
      /\ Totals(t.allTime, EventsOf(t.life, t.asOf))
      /\ Totals(t.today, EventsOfDay(t.life, t.day, t.asOf))
      /\ t.today.requests > 0 => t.date = t.day

\* A request is handed to the pipeline, or turned away as disabled, only if the kill switch
\* stood that way at some moment between its arrival and the policy's decision on the loop:
\* what is thrown while it waits for a thread, or by a restart, is for later requests, and
\* neither stops it nor lets it in (runtime.py: "takes effect on the very next request").
KillSwitchHolds ==
  \A r \in Requests :
    /\ At(r, "queued") => TRUE \in seen[r]
    /\ (pc[r] \in {"offloaded", "transformed", "awaiting"} \/ sent[r] # NotSent) =>
         (report[r].reason # "disabled") \in seen[r]

\* What a provider is sent holds one party's credential: the caller's if it brought one the
\* provider reads, under whichever header, and the configured key only otherwise.  Nothing
\* meant for this hop goes on (providers/auth.py, headers.py).
OneCredential ==
  \A r \in Requests : sent[r] # NotSent =>
    LET readable == IF sent[r].to = "anthropic" THEN {"authorization", "x-api-key"}
                    ELSE {"authorization"}
        brought  == readable \cap DOMAIN ask[r].headers
        ours     == {h \in readable \cap DOMAIN sent[r].headers :
                       sent[r].headers[h] = "configured"}
    IN  /\ Cardinality(ours) = IF brought = {} /\ sent[r].to \in deployed.keys THEN 1 ELSE 0
        /\ \A h \in brought : sent[r].headers[h] = ask[r].headers[h]
        /\ DOMAIN sent[r].headers \cap Stripped = {}

\* A request that arrived is answered, or lost in a restart, however the transformations,
\* which share the worker threads with every route's dependencies, keep them busy.  (The
\* requests are finitely many, so that in the end none is under way.)
EveryRequestAnswered == []<>(UnderWay = {})

=============================================================================
