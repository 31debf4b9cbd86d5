---------------------------- MODULE ServiceProofs ----------------------------
(***************************************************************************)
(* Proofs about Service, for any requests, settings, reports and threads.  *)
(*                                                                         *)
(* Most steps only answer a request (Answering).  What the kill switch     *)
(* promises needs that it still stands as one of the values seen by every  *)
(* request whose fate is open (Watched); what a provider is sent, that it  *)
(* is a function of what was asked and of the deployment (Faithful).       *)
(*                                                                         *)
(* What the numbers promise needs the books behind them: the windows of    *)
(* the engine add up to the events of this life and of its day, and no     *)
(* event of this life is of a later day (Accounts).  The property is of    *)
(* answers already given, and the log only grows: an answer names how much *)
(* of the log there was (Honest).                                          *)
(***************************************************************************)
EXTENDS Service, Sums, SequenceTheorems

Points == {"idle", "arrived", "handling", "queued", "offloaded", "transformed", "awaiting", "done"}

TypeOK ==
  /\ deployed \in Deployments
  /\ switches \in [optimization : BOOLEAN, prompt : BOOLEAN]
  /\ pc \in [Requests -> Points]
  /\ seen \in [Requests -> SUBSET BOOLEAN]
  /\ DOMAIN ask = Requests /\ DOMAIN sent = Requests
  /\ \A r \in Requests : ~At(r, "idle") => ask[r] \in Asks[r]
  /\ report \in [Requests -> Reports \cup {Disabled, NoReport}]

\* A request whose fate is open has seen how the kill switch stands.
Watched == \A r \in Undecided : switches.optimization \in seen[r]

\* Nothing is sent before there is a report.
Unsent == \A r \in Requests : pc[r] \in {"idle", "arrived", "handling", "queued"} => sent[r] = NotSent

\* What is sent is made of what was asked.
Faithful ==
  \A r \in Requests : sent[r] # NotSent =>
    sent[r] = [to |-> ask[r].provider, headers |-> Forwarded(ask[r].provider, ask[r].headers)]

IInv == TypeOK /\ Watched /\ Unsent /\ Faithful /\ KillSwitchHolds

\* A step that answers r, or turns it away, and moves nothing the proofs are about.
Answering(r) ==
  /\ r \in Requests /\ ~At(r, "idle") /\ pc' = [pc EXCEPT ![r] = "done"]
  /\ UNCHANGED <<deployed, switches, ask, report, sent, seen>>

\* The steps that do.
Answers(r) ==
  \/ NotFound(r) \/ Live(r) \/ Raise(r) \/ Relay(r) \/ Fail(r) \/ Break(r)
  \/ Stats(r) \/ Claude(r) \/ Logs(r) \/ Benchmark(r) \/ Doctor(r) \/ Status(r) \/ Describe(r)

-----------------------------------------------------------------------------
\* The initial state.
LEMMA InitInvariant == Init => IInv
<1> SUFFICES ASSUME Init PROVE IInv
  OBVIOUS
<1>1. TypeOK
  BY DeploymentsAssumption DEF Init, TypeOK, Points, Seeded, At
<1>2. Watched /\ Unsent /\ Faithful /\ KillSwitchHolds
  BY DEF Init, Watched, Undecided, Unsent, Faithful, KillSwitchHolds, At
<1> QED
  BY <1>1, <1>2 DEF IInv

LEMMA AnswersAnswer ==
  ASSUME NEW r \in Requests, Answers(r) PROVE Answering(r)
<1> USE DEF Answering, Answered, At, Go
<1>1. CASE NotFound(r) \/ Live(r)
  BY <1>1 DEF NotFound, Live
<1>2. CASE Raise(r) \/ Relay(r) \/ Fail(r) \/ Break(r)
  BY <1>2 DEF Raise, Relay, Fail, Break
<1>3. CASE Stats(r) \/ Logs(r) \/ Benchmark(r) \/ Status(r)
  BY <1>3 DEF Stats, Logs, Benchmark, Status, Asked, Tell
<1>4. CASE Claude(r)
  BY <1>4 DEF Claude, Asked, Tell
<1>5. CASE Doctor(r) \/ Describe(r)
  BY <1>5 DEF Doctor, Describe, Asked, Tell
<1> QED
  BY <1>1, <1>2, <1>3, <1>4, <1>5 DEF Answers

\* An answer changes no report, no switch and nothing that was sent.
LEMMA AnsweringKeeps ==
  ASSUME IInv, NEW r \in Requests, Answering(r) PROVE IInv'
<1> USE DEF Answering, IInv, At
<1>1. TypeOK'
  BY DEF TypeOK, Points
<1>2. Watched' /\ Unsent'
  BY DEF Watched, Undecided, Unsent, TypeOK
<1>3. Faithful'
  BY DEF Faithful, Forwarded
<1>4. KillSwitchHolds'
  BY DEF KillSwitchHolds, TypeOK
<1> QED
  BY <1>1, <1>2, <1>3, <1>4

LEMMA ArriveKeeps ==
  ASSUME IInv, NEW r \in Requests, Arrive(r) PROVE IInv'
<1> USE DEF Arrive, IInv, At, Go
<1>1. TypeOK'
  BY DEF TypeOK, Points
<1>2. Watched' /\ Unsent'
  BY DEF Watched, Undecided, Unsent, TypeOK
<1>3. Faithful'
  <2> SUFFICES ASSUME NEW q \in Requests, sent'[q] # NotSent
               PROVE  sent'[q] = [to |-> ask'[q].provider,
                                  headers |-> Forwarded(ask[q].provider, ask[q].headers)']
    BY DEF Faithful
  <2>1. q # r /\ ask'[q] = ask[q] /\ sent'[q] = sent[q]
    BY DEF Unsent, TypeOK
  <2>2. sent[q] = [to |-> ask[q].provider,
                   headers |-> Forwarded(ask[q].provider, ask[q].headers)]
    BY <2>1 DEF Faithful
  <2>3. Forwarded(ask[q].provider, ask[q].headers)' = Forwarded(ask[q].provider, ask[q].headers)
    BY <2>1 DEF Forwarded
  <2> QED
    BY <2>1, <2>2, <2>3
<1>4. KillSwitchHolds'
  BY DEF KillSwitchHolds, TypeOK, Unsent
<1> QED
  BY <1>1, <1>2, <1>3, <1>4

\* Steps that only move a request on.
LEMMA MovingKeeps ==
  ASSUME IInv, NEW r \in Requests, Resolve(r) \/ Offload(r) \/ FinishWorker(r) PROVE IInv'
<1> USE DEF IInv
<1>1. CASE Answering(r)
  BY <1>1, AnsweringKeeps
<1>2. CASE /\ \/ At(r, "arrived") /\ pc' = [pc EXCEPT ![r] = "handling"]
              \/ /\ At(r, "handling") /\ pc' = [pc EXCEPT ![r] = "queued"]
                 /\ switches.optimization
              \/ At(r, "offloaded") /\ pc' = [pc EXCEPT ![r] = "transformed"]
           /\ UNCHANGED <<deployed, switches, ask, report, sent, seen>>
  <2> USE <1>2 DEF At
  <2>1. TypeOK'
    BY DEF TypeOK, Points
  <2>2. Watched' /\ Unsent'
    BY DEF Watched, Undecided, Unsent, TypeOK
  <2>3. Faithful'
    BY DEF Faithful, Forwarded
  <2>4. At(r, "handling") => switches.optimization \in seen[r]
    BY DEF Watched, Undecided
  <2>5. switches.optimization \in BOOLEAN
    BY DEF TypeOK
  <2>6. KillSwitchHolds'
    BY <2>4, <2>5 DEF KillSwitchHolds, TypeOK, Unsent
  <2> QED
    BY <2>1, <2>2, <2>3, <2>6
<1> QED
  BY <1>1, <1>2 DEF Resolve, Offload, FinishWorker, Answering, Answered, At, Go

\* The pipeline reports as the switch stands at that moment.
LEMMA OutcomesFollow ==
  ASSUME TypeOK, NEW p \in Outcomes
  PROVE  /\ p \in Reports \cup {Disabled}
         /\ (p.reason # "disabled") = switches.optimization
BY ReportsAssumption DEF Outcomes, Disabled, NoReport, TypeOK

LEMMA TransformKeeps ==
  ASSUME IInv, NEW r \in Requests, Transform(r) PROVE IInv'
<1> USE DEF IInv, At, Go
<1>1. PICK p \in Outcomes : report' = [report EXCEPT ![r] = p] /\ Forward(r, p)
  BY DEF Transform
<1>2. /\ p \in Reports \cup {Disabled}
      /\ (p.reason # "disabled") = switches.optimization
  BY OutcomesFollow
<1>3. /\ pc[r] = "handling" /\ pc' = [pc EXCEPT ![r] = "awaiting"]
      /\ sent' = [sent EXCEPT ![r] = [to |-> ask[r].provider,
                                      headers |-> Forwarded(ask[r].provider, ask[r].headers)]]
      /\ UNCHANGED <<deployed, switches, ask, seen>>
  BY <1>1 DEF Transform, Forward
<1>4. TypeOK'
  BY <1>1, <1>2, <1>3 DEF TypeOK, Points
<1>5. Watched' /\ Unsent'
  BY <1>3 DEF Watched, Undecided, Unsent, TypeOK
<1>6. Faithful'
  <2> SUFFICES ASSUME NEW q \in Requests, sent'[q] # NotSent
               PROVE  sent'[q] = [to |-> ask'[q].provider,
                                  headers |-> Forwarded(ask[q].provider, ask[q].headers)']
    BY DEF Faithful
  <2>1. Forwarded(ask[q].provider, ask[q].headers)' = Forwarded(ask[q].provider, ask[q].headers)
    BY <1>3 DEF Forwarded
  <2>2. sent[q]' = [to |-> ask[q].provider,
                    headers |-> Forwarded(ask[q].provider, ask[q].headers)]
    <3>1. CASE q = r
      BY <1>3, <3>1 DEF TypeOK
    <3>2. CASE q # r
      BY <1>3, <3>2 DEF TypeOK, Faithful
    <3> QED
      BY <3>1, <3>2
  <2> QED
    BY <1>3, <2>1, <2>2
<1>7. KillSwitchHolds'
  <2>1. switches.optimization \in seen[r]
    BY <1>3 DEF Watched, Undecided
  <2> QED
    BY <1>1, <1>2, <1>3, <2>1 DEF KillSwitchHolds, TypeOK
<1> QED
  BY <1>4, <1>5, <1>6, <1>7

\* What the thread reports was allowed before it waited.
LEMMA StartWorkerKeeps ==
  ASSUME IInv, NEW r \in Requests, StartWorker(r) PROVE IInv'
<1> USE DEF IInv, At, Go
<1>1. PICK p \in Worked : report' = [report EXCEPT ![r] = p]
  BY DEF StartWorker
<1>2. p \in Reports /\ p.reason # "disabled"
  BY ReportsAssumption DEF Worked
<1>3. /\ pc[r] = "queued" /\ pc' = [pc EXCEPT ![r] = "offloaded"]
      /\ UNCHANGED <<deployed, switches, ask, sent, seen>>
  BY DEF StartWorker
<1>4. TypeOK'
  BY <1>1, <1>2, <1>3 DEF TypeOK, Points
<1>5. Watched' /\ Unsent'
  BY <1>3 DEF Watched, Undecided, Unsent, TypeOK
<1>6. Faithful'
  BY <1>3 DEF Faithful, Forwarded
<1>7. KillSwitchHolds'
  <2>1. TRUE \in seen[r]
    BY <1>3 DEF KillSwitchHolds
  <2> QED
    BY <1>1, <1>2, <1>3, <2>1 DEF KillSwitchHolds, TypeOK
<1> QED
  BY <1>4, <1>5, <1>6, <1>7

LEMMA ResumeKeeps ==
  ASSUME IInv, NEW r \in Requests, Resume(r) PROVE IInv'
<1> USE DEF IInv, At, Go
<1>1. /\ pc[r] = "transformed" /\ pc' = [pc EXCEPT ![r] = "awaiting"]
      /\ sent' = [sent EXCEPT ![r] = [to |-> ask[r].provider,
                                      headers |-> Forwarded(ask[r].provider, ask[r].headers)]]
      /\ UNCHANGED <<deployed, switches, ask, report, seen>>
  BY DEF Resume, Forward
<1>2. TypeOK'
  BY <1>1 DEF TypeOK, Points
<1>3. Watched' /\ Unsent'
  BY <1>1 DEF Watched, Undecided, Unsent, TypeOK
<1>4. Faithful'
  <2> SUFFICES ASSUME NEW q \in Requests, sent'[q] # NotSent
               PROVE  sent'[q] = [to |-> ask'[q].provider,
                                  headers |-> Forwarded(ask[q].provider, ask[q].headers)']
    BY DEF Faithful
  <2>1. Forwarded(ask[q].provider, ask[q].headers)' = Forwarded(ask[q].provider, ask[q].headers)
    BY <1>1 DEF Forwarded
  <2>2. sent[q]' = [to |-> ask[q].provider,
                    headers |-> Forwarded(ask[q].provider, ask[q].headers)]
    <3>1. CASE q = r
      BY <1>1, <3>1 DEF TypeOK
    <3>2. CASE q # r
      BY <1>1, <3>2 DEF TypeOK, Faithful
    <3> QED
      BY <3>1, <3>2
  <2> QED
    BY <1>1, <2>1, <2>2
<1>5. KillSwitchHolds'
  BY <1>1 DEF KillSwitchHolds, TypeOK
<1> QED
  BY <1>2, <1>3, <1>4, <1>5

\* Every request whose fate is open sees the switch being thrown.
LEMMA ToggleKeeps ==
  ASSUME IInv, NEW r \in Requests, Toggle(r) PROVE IInv'
<1> USE DEF IInv, At, Go
<1>1. PICK on \in BOOLEAN :
        /\ pc[r] = "handling" /\ pc' = [pc EXCEPT ![r] = "done"]
        /\ \/ switches' = [switches EXCEPT !.prompt = on]
           \/ switches' = [switches EXCEPT !.optimization = on]
        /\ seen' = [q \in Requests |->
                      IF q \in Undecided THEN seen[q] \cup {switches'.optimization} ELSE seen[q]]
        /\ UNCHANGED <<deployed, ask, report, sent>>
  BY DEF Toggle, Asked, Tell, Answered
<1>2. switches' \in [optimization : BOOLEAN, prompt : BOOLEAN]
  BY <1>1 DEF TypeOK
<1>3. TypeOK'
  BY <1>1, <1>2 DEF TypeOK, Points
<1>4. Watched'
  BY <1>1, <1>2 DEF Watched, Undecided, TypeOK
<1>5. Unsent'
  BY <1>1 DEF Unsent, TypeOK
<1>6. Faithful'
  BY <1>1 DEF Faithful, Forwarded
<1>7. KillSwitchHolds'
  BY <1>1 DEF KillSwitchHolds, TypeOK
<1> QED
  BY <1>3, <1>4, <1>5, <1>6, <1>7

\* A restart ends what is under way, so that no request's fate is open when the switches
\* are what the settings say again.
LEMMA RestartKeeps ==
  ASSUME IInv, Restart PROVE IInv'
<1> USE DEF Restart, IInv, At
<1>1. TypeOK'
  BY DeploymentsAssumption DEF TypeOK, Points, Seeded, UnderWay
<1>2. Undecided' = {}
  BY DEF Undecided, UnderWay, TypeOK
<1>3. Watched' /\ Unsent'
  BY <1>2 DEF Watched, Unsent, UnderWay, TypeOK
<1>4. Faithful'
  BY DEF Faithful, Forwarded
<1>5. KillSwitchHolds'
  BY DEF KillSwitchHolds, TypeOK, UnderWay
<1> QED
  BY <1>1, <1>3, <1>4, <1>5

LEMMA NextInvariant == IInv /\ [Next]_vars => IInv'
<1> SUFFICES ASSUME IInv, [Next]_vars PROVE IInv'
  OBVIOUS
<1>1. CASE UNCHANGED <<deployed, switches, pc, ask, report, sent, seen>>
  <2>1. TypeOK'
    BY <1>1 DEF IInv, TypeOK, At
  <2>2. Watched'
    BY <1>1 DEF IInv, Watched, Undecided
  <2>3. Unsent'
    BY <1>1 DEF IInv, Unsent
  <2>4. Faithful'
    BY <1>1 DEF IInv, Faithful, Forwarded
  <2>5. KillSwitchHolds'
    BY <1>1 DEF IInv, KillSwitchHolds, At
  <2> QED
    BY <2>1, <2>2, <2>3, <2>4, <2>5 DEF IInv
<1>2. CASE UNCHANGED vars \/ Midnight
  BY <1>1, <1>2 DEF vars, Midnight
<1>3. ASSUME NEW r \in Requests, Step(r) PROVE IInv'
  BY <1>3, AnswersAnswer, AnsweringKeeps, MovingKeeps, TransformKeeps, StartWorkerKeeps,
     ResumeKeeps, ToggleKeeps DEF Step, Answers
<1> QED
  BY <1>2, <1>3, ArriveKeeps, RestartKeeps DEF Next

LEMMA InvariantAlways == Spec => []IInv
BY InitInvariant, NextInvariant, PTL DEF Spec

-----------------------------------------------------------------------------
(* The kill switch.                                                        *)

\* A request is optimized, or turned away as disabled, only as the switch stood at some moment
\* between its arrival and its report: across threads, toggles and restarts (runtime.py).
THEOREM KillSwitchAlwaysHolds == Spec => []KillSwitchHolds
<1>1. IInv => KillSwitchHolds
  BY DEF IInv
<1> QED
  BY <1>1, InvariantAlways, PTL

-----------------------------------------------------------------------------
(* Credentials.                                                            *)

\* What build_request makes of headers none of which is the gateway's own.
LEMMA ForwardedOnce ==
  ASSUME NEW p \in Providers, NEW headers,
         \A h \in DOMAIN headers : headers[h] # "configured"
  PROVE  LET out     == Forwarded(p, headers)
             brought == Accepted(p) \cap DOMAIN headers
             ours    == {h \in Accepted(p) \cap DOMAIN out : out[h] = "configured"}
         IN  /\ ours = IF brought = {} /\ p \in deployed.keys THEN {Placed(p)} ELSE {}
             /\ \A h \in brought : out[h] = headers[h]
             /\ DOMAIN out \cap Stripped = {}
<1> DEFINE kept    == [h \in DOMAIN headers \ Stripped |-> headers[h]]
           keyed   == IF DOMAIN kept \cap Accepted(p) # {} \/ p \notin deployed.keys THEN kept
                      ELSE Injected(p, kept)
           out     == Forwarded(p, headers)
           brought == Accepted(p) \cap DOMAIN headers
           ours    == {h \in Accepted(p) \cap DOMAIN out : out[h] = "configured"}
<1>1. Accepted(p) \cap Stripped = {} /\ Placed(p) \in Accepted(p)
  BY DEF Accepted, Stripped, Placed
<1>2. Defaults(p) \cap (Accepted(p) \cup Stripped) = {}
  BY DEF Defaults, Accepted, Stripped
<1>3. DOMAIN kept \cap Accepted(p) = brought
  BY <1>1
<1>4. out = Defaulted(p, keyed)
  BY DEF Forwarded
<1>5. CASE brought # {} \/ p \notin deployed.keys
  <2>1. keyed = kept
    BY <1>3, <1>5
  <2> HIDE DEF keyed
  <2>2. /\ DOMAIN out = (DOMAIN headers \ Stripped) \cup Defaults(p)
        /\ \A h \in DOMAIN headers \ Stripped : out[h] = headers[h]
    BY <1>4, <2>1 DEF Defaulted
  <2> QED
    BY <1>1, <1>2, <1>5, <2>2
<1>6. CASE brought = {} /\ p \in deployed.keys
  <2>1. keyed = Injected(p, kept)
    BY <1>3, <1>6
  <2> HIDE DEF keyed
  <2>2. /\ DOMAIN keyed = (DOMAIN headers \ Stripped) \cup {Placed(p)}
        /\ keyed[Placed(p)] = "configured"
        /\ \A h \in DOMAIN headers \ Stripped : h # Placed(p) => keyed[h] = headers[h]
    BY <2>1 DEF Injected
  <2>3. /\ DOMAIN out = (DOMAIN headers \ Stripped) \cup {Placed(p)} \cup Defaults(p)
        /\ \A h \in DOMAIN keyed : out[h] = keyed[h]
    BY <1>4, <2>2 DEF Defaulted
  <2> QED
    BY <1>1, <1>2, <1>6, <2>2, <2>3
<1> QED
  BY <1>5, <1>6

\* What a provider is sent holds one party's credential, the caller's if it brought one, and
\* nothing meant for this hop (providers/auth.py, headers.py).
THEOREM OneCredentialAlways == Spec => []OneCredential
<1>1. IInv => OneCredential
  <2> SUFFICES ASSUME IInv, NEW r \in Requests, sent[r] # NotSent
               PROVE  LET readable == IF sent[r].to = "anthropic" THEN {"authorization", "x-api-key"}
                                      ELSE {"authorization"}
                          brought  == readable \cap DOMAIN ask[r].headers
                          ours     == {h \in readable \cap DOMAIN sent[r].headers :
                                         sent[r].headers[h] = "configured"}
                      IN  /\ Cardinality(ours)
                               = IF brought = {} /\ sent[r].to \in deployed.keys THEN 1 ELSE 0
                          /\ \A h \in brought : sent[r].headers[h] = ask[r].headers[h]
                          /\ DOMAIN sent[r].headers \cap Stripped = {}
    BY DEF OneCredential
  <2> DEFINE p    == ask[r].provider
             hdrs == ask[r].headers
             out  == Forwarded(p, hdrs)
             ours == {h \in Accepted(p) \cap DOMAIN out : out[h] = "configured"}
  <2>1. ask[r] \in Asks[r]
    BY DEF IInv, TypeOK, Unsent, At
  <2>2. p \in Providers /\ \A h \in DOMAIN hdrs : hdrs[h] # "configured"
    BY <2>1, AsksAssumption
  <2>3. sent[r] = [to |-> p, headers |-> out]
    BY DEF IInv, Faithful
  <2> HIDE DEF p, hdrs, out
  <2>4. /\ ours = IF Accepted(p) \cap DOMAIN hdrs = {} /\ p \in deployed.keys
                  THEN {Placed(p)} ELSE {}
        /\ \A h \in Accepted(p) \cap DOMAIN hdrs : out[h] = hdrs[h]
        /\ DOMAIN out \cap Stripped = {}
    BY <2>2, ForwardedOnce DEF out
  <2>5. Cardinality({Placed(p)}) = 1 /\ Cardinality({}) = 0
    BY FS_Singleton, FS_EmptySet
  <2>6. Accepted(p) = IF sent[r].to = "anthropic" THEN {"authorization", "x-api-key"}
                      ELSE {"authorization"}
    BY <2>3 DEF Accepted
  <2>7. sent[r].to = p /\ sent[r].headers = out /\ ask[r].headers = hdrs
    BY <2>3 DEF hdrs
  <2> QED
    BY <2>4, <2>5, <2>6, <2>7
<1> QED
  BY <1>1, InvariantAlways, PTL

-----------------------------------------------------------------------------
(* Windows and the events they are of.                                     *)

\* What a report says is possible, and what a window holds.
Reported == {p \in Report : /\ p.after <= p.before /\ p.hits <= p.lookups
                            /\ p.applied => p.transformers # {}}
Window == [requests : Nat, optimized : Nat, skipped : Nat, before : Nat, after : Nat,
           hits : Nat, misses : Int, count : [Transformers -> Nat], saved : [Transformers -> Nat]]

\* The events of a window, and one more.
Applied(events) == {i \in DOMAIN events : events[i].applied}
With(events, i, p) == [j \in DOMAIN events \cup {i} |-> IF j = i THEN p ELSE events[j]]

\* The share of each transformer.
Share(p) == IF Cardinality(p.transformers) = 0 THEN 0
            ELSE (p.before - p.after) \div Cardinality(p.transformers)

\* What Totals says, part by part.
Counts(w, events) ==
  /\ w.requests = Cardinality(DOMAIN events)
  /\ w.optimized = Cardinality(Applied(events))
  /\ w.skipped = Cardinality(DOMAIN events \ Applied(events))
  /\ \A t \in Transformers :
       w.count[t] = Cardinality({i \in Applied(events) : t \in events[i].transformers})
Tokens(w, events) ==
  /\ w.before = SumFunctionOnSet([i \in DOMAIN events |-> events[i].before], Applied(events))
  /\ w.after = SumFunctionOnSet([i \in DOMAIN events |-> events[i].after], Applied(events))
Lookups(w, events) ==
  /\ w.hits = SumFunctionOnSet([i \in DOMAIN events |-> events[i].hits], DOMAIN events)
  /\ w.hits + w.misses = SumFunctionOnSet([i \in DOMAIN events |-> events[i].lookups], DOMAIN events)
Credits(w, events) ==
  LET credited == SumFunctionOnSet(w.saved, Transformers)
      uses     == SumFunctionOnSet([i \in DOMAIN events |-> Cardinality(events[i].transformers)],
                                   Applied(events))
  IN  credited <= w.before - w.after /\ w.before - w.after - credited <= uses

LEMMA TotalsParts ==
  \A w, events : Totals(w, events) <=>
    Counts(w, events) /\ Tokens(w, events) /\ Lookups(w, events) /\ Credits(w, events)
<1> TAKE w, events
<1> QED
  BY Zenon DEF Totals, Counts, Tokens, Lookups, Credits, Applied

\* Some events and what is said of them.
Events(events) == /\ IsFiniteSet(DOMAIN events) /\ events \in [DOMAIN events -> Reported]

\* The report's own numbers.
LEMMA ReportNumbers ==
  ASSUME NEW p \in Reported
  PROVE  /\ p.applied \in BOOLEAN
         /\ p.before \in Nat /\ p.after \in Nat /\ p.after <= p.before
         /\ p.hits \in Nat /\ p.lookups \in Nat
         /\ p.transformers \subseteq Transformers /\ IsFiniteSet(p.transformers)
         /\ Cardinality(p.transformers) \in Nat
         /\ p.applied => Cardinality(p.transformers) > 0
         /\ Share(p) \in Nat
<1>1. /\ p.applied \in BOOLEAN
      /\ p.before \in Nat /\ p.after \in Nat /\ p.after <= p.before
      /\ p.hits \in Nat /\ p.lookups \in Nat
      /\ p.transformers \subseteq Transformers
      /\ p.applied => p.transformers # {}
  BY DEF Reported, Report
<1>2. IsFiniteSet(p.transformers) /\ Cardinality(p.transformers) \in Nat
  BY <1>1, ReportsAssumption, FS_Subset, FS_CardinalityType
<1>3. p.transformers # {} => Cardinality(p.transformers) # 0
  BY <1>2, FS_EmptySet
<1>4. Share(p) \in Nat
  <2>1. CASE Cardinality(p.transformers) = 0
    BY <2>1 DEF Share
  <2>2. CASE Cardinality(p.transformers) # 0
    <3>1. p.before - p.after \in Nat /\ Cardinality(p.transformers) > 0
      BY <1>1, <1>2, <2>2
    <3> QED
      BY <1>2, <2>2, <3>1, EvenShare DEF Share
  <2> QED
    BY <2>1, <2>2
<1> QED
  BY <1>1, <1>2, <1>3, <1>4

\* One more event, of all and of the applied ones.
Extended(more, events, i, p) ==
  /\ DOMAIN more = DOMAIN events \cup {i} /\ more[i] = p
  /\ \A j \in DOMAIN events : more[j] = events[j]
  /\ Applied(more) = IF p.applied THEN Applied(events) \cup {i} ELSE Applied(events)
  /\ IsFiniteSet(Applied(events)) /\ i \notin Applied(events)
  /\ Applied(events) \subseteq DOMAIN events

LEMMA WithOne ==
  ASSUME NEW events, Events(events), NEW i, i \notin DOMAIN events, NEW p \in Reported
  PROVE  Events(With(events, i, p)) /\ Extended(With(events, i, p), events, i, p)
<1> DEFINE more == With(events, i, p)
<1>1. IsFiniteSet(DOMAIN events \cup {i})
  BY FS_AddElement DEF Events
<1>2. /\ DOMAIN more = DOMAIN events \cup {i} /\ more[i] = p
      /\ \A j \in DOMAIN events : more[j] = events[j]
      /\ more = [j \in DOMAIN more |-> more[j]]
  BY DEF With
<1> HIDE DEF more
<1>3. Events(more)
  BY <1>1, <1>2 DEF Events
<1>4. Applied(more) = IF p.applied THEN Applied(events) \cup {i} ELSE Applied(events)
  BY <1>2 DEF Applied
<1>5. /\ IsFiniteSet(Applied(events)) /\ i \notin Applied(events)
      /\ Applied(events) \subseteq DOMAIN events
  BY FS_Subset DEF Applied, Events
<1>6. Extended(more, events, i, p)
  BY <1>2, <1>4, <1>5 DEF Extended
<1> QED
  BY <1>3, <1>6 DEF more

\* What one event changes in a window.
Grown(v, w, p) ==
  /\ v \in Window
  /\ v.requests = w.requests + 1 /\ v.hits = w.hits + p.hits
  /\ v.misses = w.misses + p.lookups - p.hits
  /\ p.applied =>
       /\ v.optimized = w.optimized + 1 /\ v.skipped = w.skipped
       /\ v.before = w.before + p.before /\ v.after = w.after + p.after
       /\ \A t \in Transformers :
            /\ v.count[t] = w.count[t] + IF t \in p.transformers THEN 1 ELSE 0
            /\ v.saved[t] = w.saved[t] + IF t \in p.transformers THEN Share(p) ELSE 0
  /\ ~p.applied =>
       /\ v.optimized = w.optimized /\ v.skipped = w.skipped + 1
       /\ v.before = w.before /\ v.after = w.after
       /\ v.count = w.count /\ v.saved = w.saved

LEMMA AddParts ==
  ASSUME NEW w \in Window, NEW p \in Reported
  PROVE  Grown(Add(w, p), w, p)
<1> DEFINE v == Add(w, p)
           count == [t \in Transformers |-> w.count[t] + IF t \in p.transformers THEN 1 ELSE 0]
           saved == [t \in Transformers |-> w.saved[t] + IF t \in p.transformers THEN Share(p) ELSE 0]
<1>1. /\ p.applied \in BOOLEAN /\ p.before \in Nat /\ p.after \in Nat
      /\ p.hits \in Nat /\ p.lookups \in Nat /\ Share(p) \in Nat
  BY ReportNumbers
<1>2. count \in [Transformers -> Nat] /\ saved \in [Transformers -> Nat]
  BY <1>1 DEF Window
<1> DEFINE did == [w EXCEPT !.optimized = @ + 1, !.before = @ + p.before, !.after = @ + p.after,
                            !.count = count, !.saved = saved]
           not == [w EXCEPT !.skipped = @ + 1]
           Sorted(u) == [u EXCEPT !.requests = @ + 1, !.hits = @ + p.hits,
                                  !.misses = @ + p.lookups - p.hits]
<1>3. v = Sorted(IF p.applied THEN did ELSE not)
  BY Zenon DEF Add, Share
<1>4. ASSUME NEW u \in Window
      PROVE  /\ Sorted(u) \in Window
             /\ Sorted(u).requests = u.requests + 1 /\ Sorted(u).hits = u.hits + p.hits
             /\ Sorted(u).misses = u.misses + p.lookups - p.hits
             /\ Sorted(u).optimized = u.optimized /\ Sorted(u).skipped = u.skipped
             /\ Sorted(u).before = u.before /\ Sorted(u).after = u.after
             /\ Sorted(u).count = u.count /\ Sorted(u).saved = u.saved
  <2>1. /\ u.requests \in Nat /\ u.hits \in Nat /\ u.misses \in Int
        /\ DOMAIN u = {"requests", "optimized", "skipped", "before", "after", "hits", "misses",
                       "count", "saved"}
    BY DEF Window
  <2>2. u.requests + 1 \in Nat /\ u.hits + p.hits \in Nat /\ u.misses + p.lookups - p.hits \in Int
    BY <1>1, <2>1
  <2>3. Sorted(u) \in Window
    BY <2>2 DEF Window
  <2>4. /\ Sorted(u).requests = u.requests + 1 /\ Sorted(u).hits = u.hits + p.hits
        /\ Sorted(u).misses = u.misses + p.lookups - p.hits
    BY <2>1
  <2>5. /\ Sorted(u).optimized = u.optimized /\ Sorted(u).skipped = u.skipped
        /\ Sorted(u).before = u.before /\ Sorted(u).after = u.after
        /\ Sorted(u).count = u.count /\ Sorted(u).saved = u.saved
    BY <2>1
  <2> QED
    BY <2>3, <2>4, <2>5
<1>5. \A t \in Transformers :
        /\ count[t] = w.count[t] + IF t \in p.transformers THEN 1 ELSE 0
        /\ saved[t] = w.saved[t] + IF t \in p.transformers THEN Share(p) ELSE 0
  OBVIOUS
<1> HIDE DEF count, saved
<1>6. /\ did \in Window /\ did.requests = w.requests /\ did.hits = w.hits /\ did.misses = w.misses
      /\ did.optimized = w.optimized + 1 /\ did.skipped = w.skipped
      /\ did.before = w.before + p.before /\ did.after = w.after + p.after
      /\ did.count = count /\ did.saved = saved
  <2>1. /\ w.optimized \in Nat /\ w.before \in Nat /\ w.after \in Nat
        /\ DOMAIN w = {"requests", "optimized", "skipped", "before", "after", "hits", "misses",
                       "count", "saved"}
    BY DEF Window
  <2>2. w.optimized + 1 \in Nat /\ w.before + p.before \in Nat /\ w.after + p.after \in Nat
    BY <1>1, <2>1
  <2>3. did \in Window
    BY <1>2, <2>2 DEF Window
  <2>4. /\ did.optimized = w.optimized + 1
        /\ did.before = w.before + p.before /\ did.after = w.after + p.after
        /\ did.count = count /\ did.saved = saved
    BY <2>1
  <2>5. /\ did.requests = w.requests /\ did.hits = w.hits /\ did.misses = w.misses
        /\ did.skipped = w.skipped
    BY <2>1
  <2> QED
    BY <2>3, <2>4, <2>5
<1>7. /\ not \in Window /\ not.requests = w.requests /\ not.hits = w.hits /\ not.misses = w.misses
      /\ not.optimized = w.optimized /\ not.skipped = w.skipped + 1
      /\ not.before = w.before /\ not.after = w.after
      /\ not.count = w.count /\ not.saved = w.saved
  BY DEF Window
<1> HIDE DEF did, not, Sorted, v
<1>8. CASE p.applied
  <2>1. v = Sorted(did)
    BY <1>3, <1>8
  <2>2. Grown(v, w, p)
    BY <1>4, <1>5, <1>6, <1>8, <2>1 DEF Grown
  <2> QED
    BY <2>2 DEF v
<1>9. CASE ~p.applied
  <2>1. v = Sorted(not)
    BY <1>3, <1>9
  <2>2. Grown(v, w, p)
    BY <1>4, <1>7, <1>9, <2>1 DEF Grown
  <2> QED
    BY <2>2 DEF v
<1> QED
  BY <1>8, <1>9

LEMMA CountsAdd ==
  ASSUME NEW w \in Window, NEW events, Events(events), NEW i, i \notin DOMAIN events,
         NEW p \in Reported, Counts(w, events)
  PROVE  Counts(Add(w, p), With(events, i, p))
<1> DEFINE more == With(events, i, p)
           v == Add(w, p)
           all == DOMAIN events
           applied == Applied(events)
           users(t) == {j \in applied : t \in events[j].transformers}
           now(t) == {j \in Applied(more) : t \in more[j].transformers}
<1>1. Extended(more, events, i, p)
  BY WithOne
<1>2. Grown(v, w, p)
  BY AddParts
<1> HIDE DEF more, v
<1> SUFFICES Counts(v, more)
  BY DEF more, v
<1> USE DEF Extended, Grown
<1>3. IsFiniteSet(all) /\ Cardinality(all \cup {i}) = Cardinality(all) + 1
  BY FS_AddElement DEF Events
<1>4. Cardinality(applied \cup {i}) = Cardinality(applied) + 1
  BY <1>1, FS_AddElement
<1>5. IsFiniteSet(all \ applied) /\ Cardinality((all \ applied) \cup {i}) = Cardinality(all \ applied) + 1
  <2>1. IsFiniteSet(all \ applied) /\ i \notin all \ applied
    BY <1>3, FS_Subset
  <2> QED
    BY <2>1, FS_AddElement
<1>6. \A t : IsFiniteSet(users(t)) /\ Cardinality(users(t) \cup {i}) = Cardinality(users(t)) + 1
  <2> TAKE t
  <2>1. IsFiniteSet(users(t)) /\ i \notin users(t)
    BY <1>1, FS_Subset
  <2> QED
    BY <2>1, FS_AddElement
<1>7. /\ w.requests = Cardinality(all) /\ w.optimized = Cardinality(applied)
      /\ w.skipped = Cardinality(all \ applied)
      /\ \A t \in Transformers : w.count[t] = Cardinality(users(t)) /\ w.count[t] \in Nat
  BY DEF Counts, Window
<1>8. v.requests = Cardinality(DOMAIN more)
  BY <1>1, <1>2, <1>3, <1>7
<1>9. CASE p.applied
  <2>1. Applied(more) = applied \cup {i} /\ DOMAIN more \ Applied(more) = all \ applied
    BY <1>1, <1>9
  <2>2. \A t : now(t) = IF t \in p.transformers THEN users(t) \cup {i} ELSE users(t)
    BY <1>1, <2>1
  <2>3. \A t \in Transformers : v.count[t] = Cardinality(now(t))
    <3> TAKE t \in Transformers
    <3>1. v.count[t] = Cardinality(users(t)) + IF t \in p.transformers THEN 1 ELSE 0
      BY <1>2, <1>7, <1>9
    <3>2. now(t) = IF t \in p.transformers THEN users(t) \cup {i} ELSE users(t)
      BY <2>2
    <3>3. Cardinality(users(t)) \in Nat
      BY <1>7
    <3>4. Cardinality(users(t) \cup {i}) = Cardinality(users(t)) + 1
      BY <1>6
    <3> HIDE DEF users, now
    <3> QED
      BY <3>1, <3>2, <3>3, <3>4
  <2>4. v.optimized = Cardinality(Applied(more)) /\ v.skipped = Cardinality(DOMAIN more \ Applied(more))
    BY <1>2, <1>4, <1>7, <1>9, <2>1
  <2> QED
    BY <1>8, <2>3, <2>4 DEF Counts
<1>10. CASE ~p.applied
  <2>1. Applied(more) = applied /\ DOMAIN more \ Applied(more) = (all \ applied) \cup {i}
    BY <1>1, <1>10
  <2>2. \A t : now(t) = users(t)
    BY <1>1, <2>1
  <2>3. \A t \in Transformers : v.count[t] = Cardinality(now(t))
    BY <1>2, <1>7, <1>10, <2>2
  <2>4. v.optimized = Cardinality(Applied(more)) /\ v.skipped = Cardinality(DOMAIN more \ Applied(more))
    BY <1>2, <1>5, <1>7, <1>10, <2>1
  <2> QED
    BY <1>8, <2>3, <2>4 DEF Counts
<1> QED
  BY <1>9, <1>10

\* A number summed over some events, with one more event.
SumsMore(e, f, some, i) ==
  /\ SumFunctionOnSet(f, some) = SumFunctionOnSet(e, some)
  /\ SumFunctionOnSet(f, some \cup {i}) = SumFunctionOnSet(e, some) + f[i]
  /\ SumFunctionOnSet(e, some) \in Int

LEMMA SumWith ==
  ASSUME NEW all, NEW some \in SUBSET all, IsFiniteSet(some), NEW i, i \notin all,
         NEW e, NEW f, \A j \in all : e[j] = f[j] /\ f[j] \in Int, f[i] \in Int
  PROVE  SumsMore(e, f, some, i)
<1>1. \A j \in some : e[j] = f[j] /\ e[j] \in Int /\ f[j] \in Int
  OBVIOUS
<1>2. i \notin some /\ \A j \in some \cup {i} : f[j] \in Int
  BY <1>1
<1>3. SumFunctionOnSet(f, some) = SumFunctionOnSet(e, some)
  BY <1>1, SumCongruent
<1>4. SumFunctionOnSet(f, some \cup {i}) = SumFunctionOnSet(e, some) + f[i]
  BY <1>2, <1>3, SumAdd
<1>5. SumFunctionOnSet(e, some) \in Int
  BY <1>1, SumType
<1> QED
  BY <1>3, <1>4, <1>5 DEF SumsMore

LEMMA TokensAdd ==
  ASSUME NEW w \in Window, NEW events, Events(events), NEW i, i \notin DOMAIN events,
         NEW p \in Reported, Tokens(w, events)
  PROVE  Tokens(Add(w, p), With(events, i, p))
<1> DEFINE more == With(events, i, p)
           v == Add(w, p)
           all == DOMAIN events
           applied == Applied(events)
           before(es) == [j \in DOMAIN es |-> es[j].before]
           after(es) == [j \in DOMAIN es |-> es[j].after]
<1>1. Extended(more, events, i, p)
  BY WithOne
<1>2. Grown(v, w, p)
  BY AddParts
<1> HIDE DEF more, v
<1> SUFFICES Tokens(v, more)
  BY DEF more, v
<1>3. \A j \in all : events[j] \in Reported
  BY DEF Events
<1>4. \A j \in all : events[j].before \in Int /\ events[j].after \in Int
  BY <1>3, ReportNumbers
<1>5. p.before \in Int /\ p.after \in Int
  BY ReportNumbers
<1>6. /\ \A j \in all : before(events)[j] = before(more)[j] /\ before(more)[j] \in Int
      /\ before(more)[i] = p.before /\ before(more)[i] \in Int
      /\ \A j \in all : after(events)[j] = after(more)[j] /\ after(more)[j] \in Int
      /\ after(more)[i] = p.after /\ after(more)[i] \in Int
  BY <1>1, <1>4, <1>5 DEF Extended
<1> HIDE DEF before, after
<1>7. applied \in SUBSET all /\ IsFiniteSet(applied)
  BY <1>1 DEF Extended
<1>8. /\ SumFunctionOnSet(before(more), applied) = SumFunctionOnSet(before(events), applied)
      /\ SumFunctionOnSet(before(more), applied \cup {i}) = SumFunctionOnSet(before(events), applied) + p.before
  <2>1. SumsMore(before(events), before(more), applied, i)
    BY <1>6, <1>7, SumWith
  <2> QED
    BY <1>6, <2>1 DEF SumsMore
<1>9. /\ SumFunctionOnSet(after(more), applied) = SumFunctionOnSet(after(events), applied)
      /\ SumFunctionOnSet(after(more), applied \cup {i}) = SumFunctionOnSet(after(events), applied) + p.after
  <2>1. SumsMore(after(events), after(more), applied, i)
    BY <1>6, <1>7, SumWith
  <2> QED
    BY <1>6, <2>1 DEF SumsMore
<1>10. /\ w.before = SumFunctionOnSet(before(events), applied)
       /\ w.after = SumFunctionOnSet(after(events), applied)
  BY DEF Tokens, before, after
<1>11. /\ v.before = SumFunctionOnSet(before(more), Applied(more))
       /\ v.after = SumFunctionOnSet(after(more), Applied(more))
  BY <1>1, <1>2, <1>8, <1>9, <1>10 DEF Extended, Grown
<1> QED
  BY <1>11 DEF Tokens, before, after

LEMMA LookupsAdd ==
  ASSUME NEW w \in Window, NEW events, Events(events), NEW i, i \notin DOMAIN events,
         NEW p \in Reported, Lookups(w, events)
  PROVE  Lookups(Add(w, p), With(events, i, p))
<1> DEFINE more == With(events, i, p)
           v == Add(w, p)
           all == DOMAIN events
           hits(es) == [j \in DOMAIN es |-> es[j].hits]
           lookups(es) == [j \in DOMAIN es |-> es[j].lookups]
<1>1. Extended(more, events, i, p)
  BY WithOne
<1>2. Grown(v, w, p)
  BY AddParts
<1> HIDE DEF more, v
<1> SUFFICES Lookups(v, more)
  BY DEF more, v
<1>3. \A j \in all : events[j] \in Reported
  BY DEF Events
<1>4. \A j \in all : events[j].hits \in Int /\ events[j].lookups \in Int
  BY <1>3, ReportNumbers
<1>5. p.hits \in Int /\ p.lookups \in Int /\ w.hits \in Int /\ w.misses \in Int
  BY ReportNumbers DEF Window
<1>6. /\ \A j \in all : hits(events)[j] = hits(more)[j] /\ hits(more)[j] \in Int
      /\ hits(more)[i] = p.hits /\ hits(more)[i] \in Int
      /\ \A j \in all : lookups(events)[j] = lookups(more)[j] /\ lookups(more)[j] \in Int
      /\ lookups(more)[i] = p.lookups /\ lookups(more)[i] \in Int
  BY <1>1, <1>4, <1>5 DEF Extended
<1> HIDE DEF hits, lookups
<1>7. all \in SUBSET all /\ IsFiniteSet(all)
  BY DEF Events
<1>8. SumFunctionOnSet(hits(more), all \cup {i}) = SumFunctionOnSet(hits(events), all) + p.hits
  <2>1. SumsMore(hits(events), hits(more), all, i)
    BY <1>6, <1>7, SumWith
  <2> QED
    BY <1>6, <2>1 DEF SumsMore
<1>9. SumFunctionOnSet(lookups(more), all \cup {i}) = SumFunctionOnSet(lookups(events), all) + p.lookups
  <2>1. SumsMore(lookups(events), lookups(more), all, i)
    BY <1>6, <1>7, SumWith
  <2> QED
    BY <1>6, <2>1 DEF SumsMore
<1>10. /\ w.hits = SumFunctionOnSet(hits(events), all)
       /\ w.hits + w.misses = SumFunctionOnSet(lookups(events), all)
  BY DEF Lookups, hits, lookups
<1>11. v.hits = w.hits + p.hits /\ v.hits + v.misses = w.hits + w.misses + p.lookups
  BY <1>2, <1>5 DEF Grown
<1>12. /\ v.hits = SumFunctionOnSet(hits(more), DOMAIN more)
       /\ v.hits + v.misses = SumFunctionOnSet(lookups(more), DOMAIN more)
  BY <1>1, <1>8, <1>9, <1>10, <1>11 DEF Extended
<1> QED
  BY <1>12 DEF Lookups, hits, lookups

\* The shares of one request come to what it saved, but for less than one token each.
LEMMA CreditsAdd ==
  ASSUME NEW w \in Window, NEW events, Events(events), NEW i, i \notin DOMAIN events,
         NEW p \in Reported, Credits(w, events)
  PROVE  Credits(Add(w, p), With(events, i, p))
<1> DEFINE more == With(events, i, p)
           v == Add(w, p)
           all == DOMAIN events
           applied == Applied(events)
           uses(es) == [j \in DOMAIN es |-> Cardinality(es[j].transformers)]
           n == Cardinality(p.transformers)
           given == n * Share(p)
           shares == [t \in Transformers |-> IF t \in p.transformers THEN Share(p) ELSE 0]
<1>1. Extended(more, events, i, p)
  BY WithOne
<1>2. Grown(v, w, p)
  BY AddParts
<1> HIDE DEF more, v
<1> SUFFICES Credits(v, more)
  BY DEF more, v
<1>3. \A j \in all : events[j] \in Reported
  BY DEF Events
<1>4. \A j \in all : Cardinality(events[j].transformers) \in Int
  BY <1>3, ReportNumbers
<1>5. /\ p.transformers \in SUBSET Transformers /\ n \in Nat /\ Share(p) \in Nat
      /\ p.before \in Nat /\ p.after \in Nat /\ p.after <= p.before
      /\ p.applied => n > 0
  BY ReportNumbers
<1>6. /\ \A j \in all : uses(events)[j] = uses(more)[j] /\ uses(more)[j] \in Int
      /\ uses(more)[i] = n /\ uses(more)[i] \in Int
  BY <1>1, <1>4, <1>5 DEF Extended
<1>7. applied \in SUBSET all /\ IsFiniteSet(applied)
  BY <1>1 DEF Extended
<1> HIDE DEF uses
<1>8. /\ SumFunctionOnSet(uses(more), applied) = SumFunctionOnSet(uses(events), applied)
      /\ SumFunctionOnSet(uses(more), applied \cup {i}) = SumFunctionOnSet(uses(events), applied) + n
      /\ SumFunctionOnSet(uses(events), applied) \in Int
  <2>1. SumsMore(uses(events), uses(more), applied, i)
    BY <1>6, <1>7, SumWith
  <2> QED
    BY <1>6, <2>1 DEF SumsMore
<1>9. /\ SumFunctionOnSet(w.saved, Transformers) <= w.before - w.after
      /\ w.before - w.after - SumFunctionOnSet(w.saved, Transformers)
           <= SumFunctionOnSet(uses(events), applied)
  BY DEF Credits, uses
<1>10. IsFiniteSet(Transformers) /\ \A t \in Transformers : w.saved[t] \in Int
  BY ReportsAssumption DEF Window
<1>11. SumFunctionOnSet(w.saved, Transformers) \in Int /\ w.before \in Int /\ w.after \in Int
  BY <1>10, SumType DEF Window
<1>12. CASE p.applied
  <2>1. given \in Int /\ given <= p.before - p.after /\ p.before - p.after - given <= n
    <3>1. p.before - p.after \in Nat /\ n > 0
      BY <1>5, <1>12
    <3>2. Share(p) = (p.before - p.after) \div n
      BY <3>1 DEF Share
    <3> QED
      BY <1>5, <3>1, <3>2, EvenShare
  <2>2. \A t \in Transformers : shares[t] \in Int /\ v.saved[t] = w.saved[t] + shares[t]
    BY <1>2, <1>5, <1>12 DEF Grown
  <2>3. SumFunctionOnSet(shares, Transformers) = given
    <3>1. \A t \in Transformers : shares[t] = IF t \in p.transformers THEN Share(p) ELSE 0
      OBVIOUS
    <3> HIDE DEF shares
    <3> QED
      BY <1>5, <1>10, <3>1, SumOfSame
  <2> HIDE DEF shares, given
  <2>4. SumFunctionOnSet(v.saved, Transformers) = SumFunctionOnSet(w.saved, Transformers) + given
    <3>1. SumFunctionOnSet(v.saved, Transformers)
            = SumFunctionOnSet(w.saved, Transformers) + SumFunctionOnSet(shares, Transformers)
      BY <1>10, <2>2, SumOfBoth
    <3> QED
      BY <2>3, <3>1
  <2>5. v.before = w.before + p.before /\ v.after = w.after + p.after
    BY <1>2, <1>12 DEF Grown
  <2>6. SumFunctionOnSet(uses(more), Applied(more)) = SumFunctionOnSet(uses(events), applied) + n
    BY <1>1, <1>8, <1>12 DEF Extended
  <2>7. /\ SumFunctionOnSet(v.saved, Transformers) <= v.before - v.after
        /\ v.before - v.after - SumFunctionOnSet(v.saved, Transformers)
             <= SumFunctionOnSet(uses(more), Applied(more))
    BY <1>5, <1>8, <1>9, <1>11, <2>1, <2>4, <2>5, <2>6
  <2> QED
    BY <2>7 DEF Credits, uses
<1>13. CASE ~p.applied
  <2>1. /\ v.saved = w.saved /\ v.before = w.before /\ v.after = w.after
        /\ SumFunctionOnSet(uses(more), Applied(more)) = SumFunctionOnSet(uses(events), applied)
    BY <1>1, <1>2, <1>8, <1>13 DEF Extended, Grown
  <2>2. /\ SumFunctionOnSet(v.saved, Transformers) <= v.before - v.after
        /\ v.before - v.after - SumFunctionOnSet(v.saved, Transformers)
             <= SumFunctionOnSet(uses(more), Applied(more))
    BY <1>9, <2>1
  <2> QED
    BY <2>2 DEF Credits, uses
<1> QED
  BY <1>12, <1>13

\* One event added to a window and to the events it is of.
LEMMA TotalsAdd ==
  ASSUME NEW w \in Window, NEW events, Events(events), NEW i, i \notin DOMAIN events,
         NEW p \in Reported, Totals(w, events)
  PROVE  Totals(Add(w, p), With(events, i, p)) /\ Add(w, p) \in Window
<1>1. Counts(w, events) /\ Tokens(w, events) /\ Lookups(w, events) /\ Credits(w, events)
  BY TotalsParts
<1>2. Counts(Add(w, p), With(events, i, p)) /\ Tokens(Add(w, p), With(events, i, p))
  BY <1>1, CountsAdd, TokensAdd
<1>3. Lookups(Add(w, p), With(events, i, p)) /\ Credits(Add(w, p), With(events, i, p))
  BY <1>1, LookupsAdd, CreditsAdd
<1>4. Grown(Add(w, p), w, p)
  BY AddParts
<1> QED
  BY <1>2, <1>3, <1>4, TotalsParts DEF Grown

\* An empty window is of no events.
LEMMA TotalsNothing ==
  ASSUME NEW events, DOMAIN events = {}
  PROVE  Totals(Empty, events) /\ Empty \in Window
<1>1. IsFiniteSet({}) /\ Cardinality({}) = 0
  BY FS_EmptySet
<1>2. Applied(events) = {}
  BY DEF Applied
<1>3. \A t : {i \in Applied(events) : t \in events[i].transformers} = {}
  BY <1>2
<1>4. Empty \in Window /\ \A t \in Transformers : Empty.count[t] = 0 /\ Empty.saved[t] = 0
  BY DEF Empty, Zeros, Window
<1>5. SumFunctionOnSet(Empty.saved, Transformers) = 0
  BY <1>4, ReportsAssumption, SumOfZeros
<1>6. /\ Empty.requests = 0 /\ Empty.optimized = 0 /\ Empty.skipped = 0 /\ Empty.before = 0
      /\ Empty.after = 0 /\ Empty.hits = 0 /\ Empty.misses = 0
  BY DEF Empty
<1>7. Counts(Empty, events)
  <2>1. DOMAIN events \ Applied(events) = {}
    OBVIOUS
  <2> QED
    BY <1>1, <1>2, <1>3, <1>4, <1>6, <2>1 DEF Counts
<1>8. Tokens(Empty, events) /\ Lookups(Empty, events)
  BY <1>2, <1>6, SumOfNothing DEF Tokens, Lookups
<1>9. Credits(Empty, events)
  BY <1>2, <1>5, <1>6, SumOfNothing DEF Credits
<1> QED
  BY <1>4, <1>7, <1>8, <1>9, TotalsParts

-----------------------------------------------------------------------------
(* The numbers.                                                            *)

Entry == [report : Reported, day : Nat, life : Nat]

\* EventsOf and EventsOfDay, of any log.
OfLife(es, l, n)   == [i \in {j \in 1..n : es[j].life = l} |-> es[i].report]
OfDay(es, l, d, n) == [i \in {j \in 1..n : es[j].life = l /\ es[j].day = d} |-> es[i].report]

\* The engine's account of a log in a life: the windows add up, and nothing of this life is of
\* a later day than the engine's.
Accounts(a, es, l, c) ==
  /\ DOMAIN a = {"allTime", "today", "date", "recent"}
  /\ a.allTime \in Window /\ a.today \in Window /\ a.date \in Nat
  /\ es \in Seq(Entry) /\ l \in Nat /\ c \in Nat
  /\ Totals(a.allTime, OfLife(es, l, Len(es)))
  /\ Totals(a.today, OfDay(es, l, a.date, Len(es)))
  /\ a.date <= c
  /\ \A i \in 1..Len(es) : es[i].life <= l /\ (es[i].life = l => es[i].day <= a.date)

\* What was told adds up to the events there were then.
Honest(es, t) ==
  /\ t.asOf \in 0..Len(es)
  /\ Totals(t.allTime, OfLife(es, t.life, t.asOf))
  /\ Totals(t.today, OfDay(es, t.life, t.day, t.asOf))
  /\ t.today.requests > 0 => t.date = t.day

\* Some events of a log.
LEMMA SomeEvents ==
  ASSUME NEW es \in Seq(Entry), NEW l, NEW d, NEW n \in 0..Len(es)
  PROVE  Events(OfLife(es, l, n)) /\ Events(OfDay(es, l, d, n))
<1>1. IsFiniteSet(1..n)
  BY FS_Interval
<1>2. \A i \in 1..n : es[i] \in Entry
  BY LenProperties
<1>3. \A i \in 1..n : es[i].report \in Reported
  BY <1>2 DEF Entry
<1>4. /\ IsFiniteSet({j \in 1..n : es[j].life = l})
      /\ IsFiniteSet({j \in 1..n : es[j].life = l /\ es[j].day = d})
  <2>1. \A S \in SUBSET (1..n) : IsFiniteSet(S)
    BY <1>1, FS_Subset
  <2> QED
    BY <2>1
<1> QED
  BY <1>3, <1>4 DEF Events, OfLife, OfDay

\* The engine's day, rolled over.
LEMMA RolledAccounts ==
  ASSUME NEW a, NEW es, NEW l, Accounts(a, es, l, clock)
  PROVE  /\ Accounts(Rolled(a), es, l, clock)
         /\ Rolled(a).date = clock /\ Rolled(a).allTime = a.allTime
         /\ Rolled(a).today.requests > 0 => a.date = clock
<1>1. CASE a.date = clock
  BY <1>1 DEF Rolled
<1>2. CASE a.date # clock
  <2> DEFINE b == [a EXCEPT !.date = clock, !.today = Empty]
  <2>1. Rolled(a) = b
    BY <1>2 DEF Rolled
  <2>2. /\ DOMAIN b = DOMAIN a /\ b.date = clock /\ b.today = Empty /\ b.allTime = a.allTime
    BY DEF Accounts
  <2> HIDE DEF b
  <2>3. DOMAIN OfDay(es, l, clock, Len(es)) = {}
    <3>1. Len(es) \in Nat /\ \A i \in 1..Len(es) : es[i] \in Entry
      BY LenProperties DEF Accounts
    <3>2. \A i \in 1..Len(es) : es[i].day \in Nat
      BY <3>1 DEF Entry
    <3>3. a.date < clock
      BY <1>2 DEF Accounts
    <3>4. \A i \in 1..Len(es) : es[i].life = l => es[i].day # clock
      BY <3>2, <3>3 DEF Accounts
    <3> QED
      BY <3>4 DEF OfDay
  <2>4. Totals(Empty, OfDay(es, l, clock, Len(es))) /\ Empty \in Window
    BY <2>3, TotalsNothing
  <2>5. \A i \in 1..Len(es) : es[i].life <= l /\ (es[i].life = l => es[i].day <= clock)
    <3>1. \A i \in 1..Len(es) : es[i] \in Entry
      BY LenProperties DEF Accounts
    <3>2. \A i \in 1..Len(es) : es[i].day \in Nat
      BY <3>1 DEF Entry
    <3> QED
      BY <3>2 DEF Accounts
  <2>6. Accounts(b, es, l, clock)
    BY <2>2, <2>4, <2>5 DEF Accounts
  <2>7. Empty.requests = 0
    BY DEF Empty
  <2> QED
    BY <2>1, <2>2, <2>6, <2>7
<1> QED
  BY <1>1, <1>2

\* The log with one more event.
LEMMA AppendedEvents ==
  ASSUME NEW es \in Seq(Entry), NEW x \in Entry, NEW l, NEW d, NEW n \in 0..Len(es)
  PROVE  /\ Append(es, x) \in Seq(Entry) /\ Len(Append(es, x)) = Len(es) + 1
         /\ Append(es, x)[Len(es) + 1] = x
         /\ \A i \in 1..Len(es) : Append(es, x)[i] = es[i]
         /\ OfLife(Append(es, x), l, n) = OfLife(es, l, n)
         /\ OfDay(Append(es, x), l, d, n) = OfDay(es, l, d, n)
<1> DEFINE more == Append(es, x)
<1>1. /\ more \in Seq(Entry) /\ Len(more) = Len(es) + 1 /\ more[Len(es) + 1] = x
      /\ \A i \in 1..Len(es) : more[i] = es[i]
  BY AppendProperties
<1>2. \A i \in 1..n : more[i] = es[i]
  BY <1>1, LenProperties
<1> HIDE DEF more
<1>3. OfLife(more, l, n) = OfLife(es, l, n)
  BY <1>2 DEF OfLife
<1>4. OfDay(more, l, d, n) = OfDay(es, l, d, n)
  BY <1>2 DEF OfDay
<1> QED
  BY <1>1, <1>3, <1>4 DEF more

\* What was told stays true of a longer log.
LEMMA AppendedHonest ==
  ASSUME NEW es \in Seq(Entry), NEW x \in Entry, NEW t, Honest(es, t)
  PROVE  Honest(Append(es, x), t)
<1>1. t.asOf \in 0..Len(es)
  BY DEF Honest
<1>2. /\ Len(Append(es, x)) = Len(es) + 1
      /\ OfLife(Append(es, x), t.life, t.asOf) = OfLife(es, t.life, t.asOf)
      /\ OfDay(Append(es, x), t.life, t.day, t.asOf) = OfDay(es, t.life, t.day, t.asOf)
  BY <1>1, AppendedEvents
<1>3. t.asOf \in 0..Len(Append(es, x))
  BY <1>1, <1>2, LenProperties
<1> QED
  BY <1>2, <1>3 DEF Honest

\* An event of the day the engine is at.
LEMMA RecordedAccounts ==
  ASSUME NEW a, NEW es, NEW l, NEW c, Accounts(a, es, l, c), a.date = c,
         NEW e, e.report \in Reported
  PROVE  Accounts(Recorded(a, e), Append(es, [report |-> e.report, day |-> c, life |-> l]), l, c)
<1> DEFINE x == [report |-> e.report, day |-> c, life |-> l]
           more == Append(es, x)
           n == Len(es)
           b == Recorded(a, e)
<1>1. es \in Seq(Entry) /\ n \in Nat /\ x \in Entry
  BY LenProperties DEF Accounts, Entry
<1>2. /\ more \in Seq(Entry) /\ Len(more) = n + 1 /\ more[n + 1] = x
      /\ \A i \in 1..n : more[i] = es[i]
  <2> HIDE DEF x
  <2> QED
    BY <1>1, AppendedEvents
<1>3. x.report = e.report /\ x.day = c /\ x.life = l
  OBVIOUS
<1>4. /\ DOMAIN b = DOMAIN a /\ b.date = a.date
      /\ b.allTime = Add(a.allTime, e.report) /\ b.today = Add(a.today, e.report)
  BY DEF Accounts, Recorded
<1> HIDE DEF x, more, b
<1>5. OfLife(more, l, n + 1) = With(OfLife(es, l, n), n + 1, e.report)
  <2>1. {j \in 1..(n + 1) : more[j].life = l} = {j \in 1..n : es[j].life = l} \cup {n + 1}
    BY <1>1, <1>2, <1>3
  <2>2. \A j \in {k \in 1..n : es[k].life = l} : j # n + 1 /\ more[j].report = es[j].report
    BY <1>1, <1>2
  <2> QED
    BY <1>2, <1>3, <2>1, <2>2 DEF OfLife, With
<1>6. OfDay(more, l, c, n + 1) = With(OfDay(es, l, c, n), n + 1, e.report)
  <2>1. {j \in 1..(n + 1) : more[j].life = l /\ more[j].day = c}
          = {j \in 1..n : es[j].life = l /\ es[j].day = c} \cup {n + 1}
    BY <1>1, <1>2, <1>3
  <2>2. \A j \in {k \in 1..n : es[k].life = l /\ es[k].day = c} :
          j # n + 1 /\ more[j].report = es[j].report
    BY <1>1, <1>2
  <2> QED
    BY <1>2, <1>3, <2>1, <2>2 DEF OfDay, With
<1>7. /\ Events(OfLife(es, l, n)) /\ n + 1 \notin DOMAIN OfLife(es, l, n)
      /\ Events(OfDay(es, l, c, n)) /\ n + 1 \notin DOMAIN OfDay(es, l, c, n)
  <2>1. n + 1 \notin 1..n /\ n \in 0..Len(es)
    BY <1>1
  <2>2. n + 1 \notin DOMAIN OfLife(es, l, n) /\ n + 1 \notin DOMAIN OfDay(es, l, c, n)
    BY <2>1 DEF OfLife, OfDay
  <2> HIDE DEF n
  <2> QED
    BY <1>1, <2>1, <2>2, SomeEvents
<1>8. Totals(b.allTime, OfLife(more, l, n + 1)) /\ b.allTime \in Window
  <2>1. a.allTime \in Window /\ Totals(a.allTime, OfLife(es, l, n))
    BY DEF Accounts
  <2> QED
    BY <1>4, <1>5, <1>7, <2>1, TotalsAdd
<1>9. Totals(b.today, OfDay(more, l, c, n + 1)) /\ b.today \in Window
  <2>1. a.today \in Window /\ Totals(a.today, OfDay(es, l, c, n))
    BY DEF Accounts
  <2> QED
    BY <1>4, <1>6, <1>7, <2>1, TotalsAdd
<1>10. \A i \in 1..(n + 1) : more[i].life <= l /\ (more[i].life = l => more[i].day <= c)
  <2> TAKE i \in 1..(n + 1)
  <2>1. CASE i = n + 1
    BY <1>2, <1>3, <2>1 DEF Accounts
  <2>2. CASE i # n + 1
    <3>1. i \in 1..n /\ more[i] = es[i]
      BY <1>1, <1>2, <2>2
    <3> QED
      BY <3>1 DEF Accounts
  <2> QED
    BY <2>1, <2>2
<1>11. Accounts(b, more, l, c)
  <2>1. l \in Nat /\ c \in Nat /\ c <= c /\ b.date = c
    BY <1>4 DEF Accounts
  <2>2. DOMAIN b = {"allTime", "today", "date", "recent"}
    BY <1>4 DEF Accounts
  <2> QED
    BY <1>2, <1>8, <1>9, <1>10, <2>1, <2>2 DEF Accounts
<1> QED
  BY <1>11 DEF b, more, x

\* A day goes by unnoticed.
LEMMA LaterAccounts ==
  ASSUME NEW a, NEW es, NEW l, NEW c, Accounts(a, es, l, c)
  PROVE  Accounts(a, es, l, c + 1)
BY DEF Accounts

\* A new life has no events.
LEMMA NewAccounts ==
  ASSUME NEW es \in Seq(Entry), NEW l \in Nat, NEW c \in Nat,
         \A i \in 1..Len(es) : es[i].life < l
  PROVE  Accounts(NewAnalytics(c), es, l, c)
<1> DEFINE a == NewAnalytics(c)
<1>1. /\ DOMAIN a = {"allTime", "today", "date", "recent"}
      /\ a.allTime = Empty /\ a.today = Empty /\ a.date = c
  BY DEF NewAnalytics
<1> HIDE DEF a
<1>2. \A i \in 1..Len(es) : es[i].life \in Nat
  <2>1. \A i \in 1..Len(es) : es[i] \in Entry
    BY LenProperties
  <2> QED
    BY <2>1 DEF Entry
<1>3. DOMAIN OfLife(es, l, Len(es)) = {} /\ DOMAIN OfDay(es, l, c, Len(es)) = {}
  BY <1>2 DEF OfLife, OfDay
<1>4. /\ Totals(Empty, OfLife(es, l, Len(es))) /\ Totals(Empty, OfDay(es, l, c, Len(es)))
      /\ Empty \in Window
  BY <1>3, TotalsNothing
<1>5. \A i \in 1..Len(es) : es[i].life <= l /\ (es[i].life = l => es[i].day <= c)
  BY <1>2
<1>6. Accounts(a, es, l, c)
  BY <1>1, <1>4, <1>5 DEF Accounts
<1> QED
  BY <1>6 DEF a

\* Nobody is told anything before the end, and a request on its way to a provider is no
\* question for numbers.
Waiting ==
  /\ DOMAIN answer = Requests /\ DOMAIN told = Requests
  /\ \A r \in Requests :
       /\ ~At(r, "done") => answer[r].status # 200
       /\ pc[r] \in {"queued", "offloaded", "transformed", "awaiting"} => ask[r].op = "proxy"

Told(r) == At(r, "done") /\ ask[r].op = "stats" /\ answer[r].status = 200

NumbersInv ==
  /\ TypeOK /\ Waiting
  /\ Accounts(analytics, log, life, clock)
  /\ \A r \in Requests : Told(r) => Honest(log, told[r])

\* A step that answers r with no numbers.
Numberless(r) ==
  /\ pc' = [pc EXCEPT ![r] = "done"]
  /\ \E a : answer' = [answer EXCEPT ![r] = a] /\ (ask[r].op = "stats" => a.status # 200)
  /\ \E t : told' = [told EXCEPT ![r] = t]
  /\ UNCHANGED <<clock, life, analytics, ask, log>>

\* A step that takes r on without an answer.
Onward(r) ==
  /\ \E to \in {"arrived", "handling", "queued", "offloaded", "transformed", "awaiting"} :
       /\ pc' = [pc EXCEPT ![r] = to]
       /\ to \in {"queued", "offloaded", "transformed", "awaiting"} => ask'[r].op = "proxy"
  /\ ~At(r, "done")
  /\ \A q \in Requests : q # r => ask'[q] = ask[q]
  /\ UNCHANGED <<clock, life, answer, told>>

LEMMA NumberlessKeeps ==
  ASSUME NumbersInv, TypeOK', NEW r \in Requests, Numberless(r) PROVE NumbersInv'
<1> USE DEF NumbersInv, Numberless
<1>1. Waiting'
  BY DEF Waiting, TypeOK, At
<1>2. Accounts(analytics, log, life, clock)'
  OBVIOUS
<1>3. ASSUME NEW q \in Requests, Told(q)' PROVE Honest(log, told[q])'
  <2>1. CASE q = r
    BY <1>3, <2>1 DEF Told, Waiting
  <2>2. CASE q # r
    <3>1. Told(q) /\ told'[q] = told[q] /\ log' = log
      BY <1>3, <2>2 DEF Told, Waiting, TypeOK, At
    <3> QED
      BY <3>1
  <2> QED
    BY <2>1, <2>2
<1> QED
  BY <1>1, <1>2, <1>3

LEMMA OnwardKeeps ==
  ASSUME NumbersInv, TypeOK', NEW r \in Requests, Onward(r), Accounts(analytics, log, life, clock)',
         log' = log \/ \E x \in Entry : log' = Append(log, x)
  PROVE  NumbersInv'
<1> USE DEF NumbersInv, Onward
<1>1. Waiting'
  BY DEF Waiting, TypeOK, At
<1>2. ASSUME NEW q \in Requests, Told(q)' PROVE Honest(log, told[q])'
  <2>1. Told(q) /\ told'[q] = told[q]
    BY <1>2 DEF Told, TypeOK, At
  <2>2. Honest(log, told[q]) /\ log \in Seq(Entry)
    BY <2>1 DEF Accounts
  <2>3. Honest(log', told[q])
    BY <2>2, AppendedHonest
  <2> QED
    BY <2>1, <2>3
<1> QED
  BY <1>1, <1>2

\* The status an answer is given stays.
LEMMA StatusStays ==
  ASSUME NEW status, NEW shape
  PROVE  Rendered(status, shape).status = status /\ Stamped(Rendered(status, shape)).status = status
<1>1. /\ Rendered(status, shape).status = status
      /\ "status" \in DOMAIN Rendered(status, shape)
  BY DEF Rendered, NoAnswer
<1>2. Stamped(Rendered(status, shape)).status = Rendered(status, shape).status
  BY <1>1 DEF Stamped
<1> QED
  BY <1>1, <1>2

LEMMA AnsweredNumberless ==
  ASSUME NEW r \in Requests, NEW a, NEW content, Answered(r, a, content),
         ask[r].op = "stats" => a.status # 200, UNCHANGED <<clock, life, analytics, ask, log>>
  PROVE  Numberless(r)
<1>1. /\ pc' = [pc EXCEPT ![r] = "done"] /\ answer' = [answer EXCEPT ![r] = a]
      /\ told' = [told EXCEPT ![r] = content]
  BY DEF Answered, Go
<1>2. \E b : answer' = [answer EXCEPT ![r] = b] /\ (ask[r].op = "stats" => b.status # 200)
  <2> DEFINE Put(b) == answer' = [answer EXCEPT ![r] = b]
             Fits(b) == ask[r].op = "stats" => b.status # 200
  <2>1. Put(a) /\ Fits(a)
    BY <1>1
  <2> HIDE DEF Put, Fits
  <2>2. \E b : Put(b) /\ Fits(b)
    BY <2>1
  <2> QED
    BY <2>2 DEF Put, Fits
<1>3. \E t : told' = [told EXCEPT ![r] = t]
  BY <1>1
<1> QED
  BY <1>1, <1>2, <1>3 DEF Numberless

LEMMA ToldNumberless ==
  ASSUME NEW r \in Requests, NEW content, Tell(r, content), ask[r].op # "stats",
         UNCHANGED <<clock, life, analytics, ask, log>>
  PROVE  Numberless(r)
BY AnsweredNumberless DEF Tell

\* Every answer but that of /internal/stats.
LEMMA NumberlessAnswers ==
  ASSUME Waiting, NEW r \in Requests, Answers(r) \/ Toggle(r), ~Stats(r)
  PROVE  Numberless(r)
<1>1. CASE NotFound(r)
  <2>1. Refused(404).status # 200
    BY StatusStays DEF Refused
  <2> QED
    BY <1>1, <2>1, AnsweredNumberless DEF NotFound
<1>2. CASE Live(r)
  BY <1>2, AnsweredNumberless DEF Live
<1>3. CASE Raise(r) \/ Break(r)
  <2>1. Unexpected.status # 200
    BY StatusStays DEF Unexpected
  <2>2. Answered(r, Unexpected, NothingTold) /\ UNCHANGED <<clock, life, analytics, ask, log>>
    BY <1>3 DEF Raise, Break
  <2> QED
    BY <2>1, <2>2, AnsweredNumberless
<1>4. CASE Fail(r)
  <2> DEFINE a == Stamped(Rendered(502, Shape(ask[r].provider)))
  <2>1. a.status # 200
    BY StatusStays
  <2>2. Answered(r, a, NothingTold) /\ UNCHANGED <<clock, life, analytics, ask, log>>
    BY <1>4 DEF Fail
  <2> HIDE DEF a
  <2> QED
    BY <2>1, <2>2, AnsweredNumberless
<1>5. CASE Relay(r)
  <2>1. ask[r].op # "stats"
    BY <1>5 DEF Relay, Waiting, At
  <2>2. \E a : Answered(r, a, NothingTold)
    BY <1>5 DEF Relay
  <2>3. UNCHANGED <<clock, life, analytics, ask, log>>
    BY <1>5 DEF Relay
  <2> QED
    BY <2>1, <2>2, <2>3, AnsweredNumberless
<1>6. CASE \/ Logs(r) \/ Benchmark(r) \/ Status(r) \/ Claude(r)
         \/ Doctor(r) \/ Describe(r) \/ Toggle(r)
  <2>1. UNCHANGED <<clock, life, analytics, ask, log>>
    BY <1>6 DEF Logs, Benchmark, Status, Claude, Doctor, Describe, Toggle
  <2>2. ask[r].op # "stats"
    BY <1>6 DEF Logs, Benchmark, Status, Claude, Doctor, Describe, Toggle, Asked
  <2>3. \E content : Tell(r, content)
    <3>1. CASE Logs(r)
      BY <3>1 DEF Logs
    <3>2. CASE Benchmark(r) \/ Status(r) \/ Describe(r)
      BY <3>2 DEF Benchmark, Status, Describe
    <3>3. CASE Claude(r)
      BY <3>3 DEF Claude
    <3>4. CASE Doctor(r)
      BY <3>4 DEF Doctor
    <3>5. CASE Toggle(r)
      BY <3>5 DEF Toggle
    <3> QED
      BY <1>6, <3>1, <3>2, <3>3, <3>4, <3>5
  <2> QED
    BY <2>1, <2>2, <2>3, ToldNumberless
<1> QED
  BY <1>1, <1>2, <1>3, <1>4, <1>5, <1>6 DEF Answers

LEMMA ResolveKeepsNumbers ==
  ASSUME NumbersInv, TypeOK', NEW r \in Requests, Resolve(r) PROVE NumbersInv'
<1> DEFINE refusal == IF ask[r].op \in Internal THEN Refusal(ask[r]) ELSE 0
<1>1. CASE refusal = 0
  <2>1. /\ At(r, "arrived") /\ Go(r, "handling")
        /\ UNCHANGED <<clock, life, analytics, ask, log, answer, told>>
    BY <1>1 DEF Resolve
  <2>2. Onward(r)
    BY <2>1 DEF Onward, Go, At
  <2>3. Accounts(analytics, log, life, clock)' /\ log' = log
    BY <2>1 DEF NumbersInv
  <2> QED
    BY <2>2, <2>3, OnwardKeeps
<1>2. CASE refusal # 0
  <2>1. /\ Answered(r, Refused(refusal), NothingTold)
        /\ UNCHANGED <<clock, life, analytics, ask, log>>
    BY <1>2 DEF Resolve
  <2>2. refusal \in {404, 503, 401}
    BY <1>2 DEF Refusal
  <2> HIDE DEF refusal
  <2>3. Refused(refusal).status # 200
    BY <2>2 DEF Refused, Stamped, Rendered, NoAnswer
  <2>4. Numberless(r)
    BY <2>1, <2>3, AnsweredNumberless
  <2> QED
    BY <2>4, NumberlessKeeps
<1> QED
  BY <1>1, <1>2

\* What the pipeline may have reported is possible.
LEMMA ReportsPossible == \A p \in Reports \cup {Disabled, NoReport} : p \in Reported
<1>1. \A p \in Reports : p \in Reported
  BY ReportsAssumption DEF Reported
<1>2. NoReport \in Reported
  BY DEF Reported, Report, NoReport
<1>3. Disabled \in Reported
  <2>1. NoReport \in Report /\ ~NoReport.applied
    BY DEF Report, NoReport
  <2>2. /\ Disabled \in Report /\ Disabled.applied = NoReport.applied
        /\ Disabled.before = NoReport.before /\ Disabled.after = NoReport.after
        /\ Disabled.hits = NoReport.hits /\ Disabled.lookups = NoReport.lookups
    BY <2>1 DEF Disabled, Report
  <2> QED
    BY <1>2, <2>1, <2>2 DEF Reported
<1> QED
  BY <1>1, <1>2, <1>3

LEMMA RecordKeepsAccounts ==
  ASSUME NumbersInv, NEW r \in Requests, NEW p \in Reported, Record(r, p), UNCHANGED <<clock, life>>
  PROVE  /\ Accounts(analytics, log, life, clock)'
         /\ \E x \in Entry : log' = Append(log, x)
<1> DEFINE e == Event(r, p)
           x == [report |-> p, day |-> clock, life |-> life]
<1>1. Accounts(analytics, log, life, clock)
  BY DEF NumbersInv
<1>2. Accounts(Rolled(analytics), log, life, clock) /\ Rolled(analytics).date = clock
  BY <1>1, RolledAccounts
<1>3. e.report = p
  BY DEF Event
<1>4. analytics' = Recorded(Rolled(analytics), e) /\ log' = Append(log, x)
  BY DEF Record
<1> HIDE DEF e
<1>5. Accounts(Recorded(Rolled(analytics), e), Append(log, [report |-> e.report, day |-> clock, life |-> life]), life, clock)
  BY <1>2, <1>3, RecordedAccounts
<1>6. Accounts(analytics', log', life', clock')
  BY <1>3, <1>4, <1>5
<1>7. x \in Entry
  BY <1>1 DEF Accounts, Entry
<1> QED
  BY <1>4, <1>6, <1>7

LEMMA ForwardKeepsNumbers ==
  ASSUME NumbersInv, TypeOK', NEW r \in Requests, Transform(r) \/ Resume(r) PROVE NumbersInv'
<1>1. PICK p \in Reported : Forward(r, p)
  <2>1. CASE Transform(r)
    <3>1. PICK p \in Outcomes : Forward(r, p)
      BY <2>1 DEF Transform
    <3>2. p \in Reports \cup {Disabled, NoReport}
      BY DEF Outcomes
    <3> QED
      BY <3>1, <3>2, ReportsPossible
  <2>2. CASE Resume(r)
    <3>1. Forward(r, report[r])
      BY <2>2 DEF Resume
    <3>2. report[r] \in Reports \cup {Disabled, NoReport}
      BY DEF NumbersInv, TypeOK
    <3> QED
      BY <3>1, <3>2, ReportsPossible
  <2> QED
    BY <2>1, <2>2
<1>2. UNCHANGED <<clock, life, ask, answer, told>> /\ (At(r, "handling") \/ At(r, "transformed"))
  BY DEF Transform, Resume
<1>3. ask[r].op = "proxy"
  BY DEF Transform, Resume, NumbersInv, Waiting, At
<1>4. Onward(r)
  BY <1>1, <1>2, <1>3 DEF Onward, Forward, Go, At
<1>5. /\ Accounts(analytics, log, life, clock)'
      /\ \E x \in Entry : log' = Append(log, x)
  BY <1>1, <1>2, RecordKeepsAccounts DEF Forward
<1> QED
  BY <1>4, <1>5, OnwardKeeps

LEMMA MovingKeepsNumbers ==
  ASSUME NumbersInv, TypeOK', NEW r \in Requests,
         Arrive(r) \/ Offload(r) \/ StartWorker(r) \/ FinishWorker(r)
  PROVE  NumbersInv'
<1>1. Onward(r)
  <2> USE DEF Onward, Go, At, NumbersInv, Waiting
  <2>1. CASE Arrive(r)
    <3>1. PICK a \in Asks[r] : ask' = [ask EXCEPT ![r] = a]
      BY <2>1 DEF Arrive
    <3>2. \A q \in Requests : q # r => ask'[q] = ask[q]
      BY <3>1 DEF TypeOK
    <3> QED
      BY <2>1, <3>2 DEF Arrive
  <2>2. CASE Offload(r)
    BY <2>2 DEF Offload
  <2>3. CASE StartWorker(r)
    BY <2>3 DEF StartWorker
  <2>4. CASE FinishWorker(r)
    BY <2>4 DEF FinishWorker
  <2> QED
    BY <2>1, <2>2, <2>3, <2>4
<1>2. UNCHANGED <<clock, life, analytics, log>>
  BY DEF Arrive, Offload, StartWorker, FinishWorker
<1>3. Accounts(analytics, log, life, clock)'
  BY <1>2 DEF NumbersInv
<1> QED
  BY <1>1, <1>2, <1>3, OnwardKeeps

\* /internal/stats reads the date before it rolls the day over, and yet dates no number but
\* zeros with a day that is over.
LEMMA StatsKeepsNumbers ==
  ASSUME NumbersInv, TypeOK', NEW r \in Requests, Stats(r) PROVE NumbersInv'
<1> DEFINE t == [NothingTold EXCEPT !.date = analytics.date, !.today = Today.today,
                                    !.allTime = analytics.allTime,
                                    !.day = clock, !.life = life, !.asOf = Len(log)]
<1>1. Accounts(analytics, log, life, clock)
  BY DEF NumbersInv
<1>2. /\ Accounts(Today, log, life, clock) /\ Today.date = clock
      /\ Today.today.requests > 0 => analytics.date = clock
  BY <1>1, RolledAccounts DEF Today
<1>3. /\ analytics' = Today /\ pc' = [pc EXCEPT ![r] = "done"]
      /\ told' = [told EXCEPT ![r] = t]
      /\ UNCHANGED <<clock, life, ask, log>>
      /\ \E a : answer' = [answer EXCEPT ![r] = a]
  BY DEF Stats, Tell, Answered, Go
<1>4. /\ t.date = analytics.date /\ t.today = Today.today /\ t.allTime = analytics.allTime
      /\ t.day = clock /\ t.life = life /\ t.asOf = Len(log)
  BY DEF NothingTold
<1> HIDE DEF t
<1>5. Honest(log, t)
  <2>1. Len(log) \in 0..Len(log)
    BY <1>1, LenProperties DEF Accounts
  <2> QED
    BY <1>1, <1>2, <1>4, <2>1 DEF Honest, Accounts
<1>6. Waiting'
  BY <1>3 DEF NumbersInv, Waiting, TypeOK, At
<1>7. Accounts(analytics, log, life, clock)'
  BY <1>2, <1>3
<1>8. ASSUME NEW q \in Requests, Told(q)' PROVE Honest(log, told[q])'
  <2>1. CASE q = r
    BY <1>3, <1>5, <2>1 DEF NumbersInv, Waiting
  <2>2. CASE q # r
    <3>1. Told(q) /\ told'[q] = told[q] /\ log' = log
      BY <1>3, <1>8, <2>2 DEF Told, NumbersInv, Waiting, TypeOK, At
    <3> QED
      BY <3>1 DEF NumbersInv
  <2> QED
    BY <2>1, <2>2
<1> QED
  BY <1>6, <1>7, <1>8 DEF NumbersInv

LEMMA RestartKeepsNumbers ==
  ASSUME NumbersInv, TypeOK', Restart PROVE NumbersInv'
<1>1. Accounts(analytics, log, life, clock)
  BY DEF NumbersInv
<1>2. Accounts(NewAnalytics(clock), log, life + 1, clock)
  <2>1. log \in Seq(Entry) /\ life + 1 \in Nat /\ clock \in Nat
    BY <1>1 DEF Accounts
  <2>2. \A i \in 1..Len(log) : log[i].life < life + 1
    <3>1. \A i \in 1..Len(log) : log[i] \in Entry
      BY <2>1, LenProperties
    <3>2. \A i \in 1..Len(log) : log[i].life \in Nat
      BY <3>1 DEF Entry
    <3> QED
      BY <1>1, <3>2 DEF Accounts
  <2> QED
    BY <2>1, <2>2, NewAccounts
<1>3. /\ analytics' = NewAnalytics(clock) /\ life' = life + 1
      /\ UNCHANGED <<clock, ask, answer, told, log>>
      /\ pc' = [q \in Requests |-> IF q \in UnderWay THEN "done" ELSE pc[q]]
  BY DEF Restart
<1>4. Waiting'
  BY <1>3 DEF NumbersInv, Waiting, At, UnderWay
<1>5. Accounts(analytics, log, life, clock)'
  BY <1>2, <1>3
<1>6. ASSUME NEW q \in Requests, Told(q)' PROVE Honest(log, told[q])'
  <2>1. Told(q)
    BY <1>3, <1>6 DEF Told, NumbersInv, Waiting, UnderWay, At
  <2> QED
    BY <1>3, <2>1 DEF NumbersInv
<1> QED
  BY <1>4, <1>5, <1>6 DEF NumbersInv

LEMMA MidnightKeepsNumbers ==
  ASSUME NumbersInv, TypeOK', Midnight PROVE NumbersInv'
<1>1. /\ clock' = clock + 1
      /\ UNCHANGED <<life, analytics, pc, ask, answer, told, log>>
  BY DEF Midnight
<1>2. Accounts(analytics, log, life, clock + 1)
  BY LaterAccounts DEF NumbersInv
<1>3. Accounts(analytics, log, life, clock)'
  BY <1>1, <1>2
<1>4. Waiting'
  BY <1>1 DEF NumbersInv, Waiting, At
<1>5. \A q \in Requests : Told(q)' => Honest(log, told[q])'
  BY <1>1 DEF NumbersInv, Told, At
<1> QED
  BY <1>3, <1>4, <1>5 DEF NumbersInv

LEMMA InitNumbers == Init => NumbersInv
<1> SUFFICES ASSUME Init PROVE NumbersInv
  OBVIOUS
<1>1. TypeOK
  BY InitInvariant DEF IInv
<1>2. Waiting
  BY DEF Init, Waiting, NoAnswer, At
<1>3. Accounts(analytics, log, life, clock)
  <2>1. log = <<>> /\ life = 1 /\ clock = 1 /\ analytics = NewAnalytics(1)
    BY DEF Init
  <2>2. <<>> \in Seq(Entry) /\ \A i \in 1..Len(<<>>) : <<>>[i].life < 1
    BY EmptySeq
  <2> QED
    BY <2>1, <2>2, NewAccounts
<1>4. \A r \in Requests : ~Told(r)
  BY DEF Init, Told, At
<1> QED
  BY <1>1, <1>2, <1>3, <1>4 DEF NumbersInv

LEMMA NextNumbers == IInv /\ NumbersInv /\ [Next]_vars => NumbersInv'
<1> SUFFICES ASSUME IInv, NumbersInv, [Next]_vars PROVE NumbersInv'
  OBVIOUS
<1>1. TypeOK'
  BY NextInvariant DEF IInv
<1>2. CASE UNCHANGED vars
  <2>1. UNCHANGED <<clock, life, analytics, pc, ask, answer, told, log>>
    BY <1>2 DEF vars
  <2>2. Waiting'
    BY <2>1 DEF NumbersInv, Waiting, At
  <2>3. Accounts(analytics, log, life, clock)' /\ \A q \in Requests : Told(q)' => Honest(log, told[q])'
    BY <2>1 DEF NumbersInv, Told, At
  <2> QED
    BY <1>1, <2>2, <2>3 DEF NumbersInv
<1>3. ASSUME NEW r \in Requests, Step(r) PROVE NumbersInv'
  <2>1. CASE (Answers(r) \/ Toggle(r)) /\ ~Stats(r)
    <3>1. Numberless(r)
      BY <2>1, NumberlessAnswers DEF NumbersInv
    <3> QED
      BY <1>1, <3>1, NumberlessKeeps
  <2>2. CASE Stats(r)
    BY <1>1, <2>2, StatsKeepsNumbers
  <2>3. CASE Resolve(r)
    BY <1>1, <2>3, ResolveKeepsNumbers
  <2>4. CASE Transform(r) \/ Resume(r)
    BY <1>1, <2>4, ForwardKeepsNumbers
  <2>5. CASE Offload(r) \/ StartWorker(r) \/ FinishWorker(r)
    BY <1>1, <2>5, MovingKeepsNumbers
  <2> QED
    BY <1>3, <2>1, <2>2, <2>3, <2>4, <2>5 DEF Step, Answers
<1> QED
  BY <1>1, <1>2, <1>3, MovingKeepsNumbers, RestartKeepsNumbers, MidnightKeepsNumbers DEF Next

\* However many midnights pass unnoticed, /internal/stats tells of the day it is asked on and
\* of this life of the process, and its numbers are those of the events recorded then: totals,
\* counts and shares (analytics/engine.py).
THEOREM StatsAlwaysOfOneDay == Spec => []StatsAreOfOneDay
<1>1. NumbersInv => StatsAreOfOneDay
  <2> SUFFICES ASSUME NumbersInv, NEW r \in Requests,
                      At(r, "done") /\ ask[r].op = "stats" /\ answer[r].status = 200
               PROVE  LET t == told[r] IN
                      /\ Totals(t.allTime, EventsOf(t.life, t.asOf))
                      /\ Totals(t.today, EventsOfDay(t.life, t.day, t.asOf))
                      /\ t.today.requests > 0 => t.date = t.day
    BY DEF StatsAreOfOneDay
  <2>1. Honest(log, told[r])
    BY DEF NumbersInv, Told
  <2>2. \A l, d, n : EventsOf(l, n) = OfLife(log, l, n) /\ EventsOfDay(l, d, n) = OfDay(log, l, d, n)
    BY DEF EventsOf, OfLife, EventsOfDay, OfDay
  <2> QED
    BY <2>1, <2>2 DEF Honest
<1>2. Init => IInv /\ NumbersInv
  BY InitInvariant, InitNumbers
<1>3. IInv /\ NumbersInv /\ [Next]_vars => (IInv /\ NumbersInv)'
  BY NextInvariant, NextNumbers
<1> QED
  BY <1>1, <1>2, <1>3, PTL DEF Spec
=============================================================================
