------------------------------ MODULE Optimizer ------------------------------
(***************************************************************************)
(* TransformationPipeline with the transformation cache behind it and the  *)
(* runtime toggles in front of it.                                         *)
(*                                                                         *)
(* The gateway runs one event loop.  A request smaller than the offload    *)
(* threshold is optimized on the loop, which it holds from its first step  *)
(* to its last; a larger one is queued for a worker thread and interleaves *)
(* with everything else.  The toggles of /internal/enable and /disable run *)
(* on the loop, so they exclude small requests and race with large ones.   *)
(***************************************************************************)
EXTENDS Policy, Transformation

CONSTANTS
  Requests,          \* identities of the requests one run may carry
  Shapes,            \* what a request may be; see RequestShape
  AdaptedPaths,      \* paths some PayloadAdapter of the provider matches
  OffloadThreshold,  \* settings.optimization_offload_threshold_bytes
  Threads,           \* tokens of anyio's worker thread limiter
  CacheEnabled,      \* settings.cache_enabled
  DocumentsEnabled,  \* settings.documents_enabled
  MaxToggles         \* bound of the model: calls to /internal/enable and /disable

\* preview is a call of /internal/benchmark; valid says the body parses as a
\* JSON object.
RequestShape ==
  [preview : BOOLEAN, post : BOOLEAN, size : Nat, json : BOOLEAN,
   path : AllowedPaths \cup DeniedPaths \cup AdaptedPaths, valid : BOOLEAN,
   segments : Seq(Segments), encoding : Encodings]

\* /internal/benchmark takes one piece of text and runs it on the loop.
ASSUME ShapesAssumption ==
  /\ Shapes \subseteq RequestShape
  /\ \A s \in Shapes : s.preview => s.size = 0 /\ Len(s.segments) = 1 /\ s.segments[1] \in Text
ASSUME SizesAssumption ==
  /\ OffloadThreshold \in Nat \ {0} /\ Threads \in Nat \ {0} /\ MaxToggles \in Nat
  /\ CacheEnabled \in BOOLEAN /\ DocumentsEnabled \in BOOLEAN

VARIABLES
  optimizing,  \* RuntimeControl._optimization_enabled
  promptFlag,  \* RuntimeControl._prompt_optimization_enabled
  registry,    \* TransformerRegistry._transformers
  sniffers,    \* ContentDetector._sniffers
  toggling,    \* how far a prompt toggle on the loop has come
  toggles,     \* toggle calls so far, bounded by MaxToggles
  cache,       \* what the backend holds: [key, entry] records
  shape,       \* the request's input, never changed
  pc,          \* where the request is in transform / _run / _transform_segment
  at,          \* index of the segment in hand
  key,         \* the cache key computed for it
  detected,    \* the type detected for it
  results,     \* results so far
  written,     \* replacements Segment.replace has written into the payload
  report,      \* the TransformationReport
  seen         \* history: prompt settings in force while the request ran

control == <<optimizing, promptFlag, registry, sniffers, toggling, toggles>>
job     == <<pc, at, key, detected, results, written, report>>
vars    == <<control, cache, shape, job, seen>>

-----------------------------------------------------------------------------
NoKey  == [kind |-> "none", content |-> "none", version |-> {}, encoding |-> "none"]
NoType == "none"

\* Mutant: the registry fingerprint is computed once, at boot.
TextKeyOfBoot(c, version, e) ==
  [kind |-> "text", content |-> c, version |-> BaseTransformers, encoding |-> e]

\* Mutant: the hash covers only a prefix, which all text here shares.
TextKeyOfPrefix(c, version, e) ==
  [kind |-> "text", content |-> CHOOSE x \in Text : TRUE, version |-> version, encoding |-> e]

TextKey(c, version, e) ==
  [kind |-> "text", content |-> c, version |-> version, encoding |-> e]
DocumentKey(d, e) ==
  [kind |-> "document", content |-> Data[d], version |-> {Extractor}, encoding |-> e]

Segment(r)   == shape[r].segments[at[r]]
Encoding(r)  == shape[r].encoding
Offloaded(r) == shape[r].size >= OffloadThreshold

Steps      == {"parse", "key", "lookup", "detect", "apply", "extract", "store", "finish"}
Running(r) == pc[r] \in Steps
LoopFree   == toggling = "idle" /\ \A r \in Requests : Running(r) => Offloaded(r)
Workers    == {r \in Requests : Running(r) /\ Offloaded(r)}

\* A report that forwards the original body.
Skipped(reason) == [applied |-> FALSE, reason |-> reason, body |-> {}, results |-> <<>>]
NoReport        == Skipped("none")

Go(r, step) == pc' = [pc EXCEPT ![r] = step]

\* The segment in hand is finished: the next one, or the report.
Onward(r) ==
  /\ Go(r, IF at[r] < Len(shape[r].segments) THEN "key" ELSE "finish")
  /\ at' = [at EXCEPT ![r] = IF @ < Len(shape[r].segments) THEN @ + 1 ELSE @]
  /\ key' = [key EXCEPT ![r] = NoKey]
  /\ detected' = [detected EXCEPT ![r] = NoType]

\* Mutant: a result served or computed is listed but never written.
KeepWithoutReplacing(r, result) ==
  results' = [results EXCEPT ![r] = Append(@, result)] /\ UNCHANGED written

\* A result joins the list; if it changed the segment, its content replaces it.
Keep(r, result) ==
  /\ results' = [results EXCEPT ![r] = Append(@, result)]
  /\ written' = [written EXCEPT ![r] =
       IF result.changed THEN @ \cup {[at |-> at[r], by |-> result.by, of |-> result.of]}
                         ELSE @]

Answer(r, answer) == Go(r, "done") /\ report' = [report EXCEPT ![r] = answer]

\* An exception the pipeline does not catch leaves transform() and the route.
Raise(r) == Go(r, "raised") /\ UNCHANGED <<at, key, detected, results, written, report>>

Init ==
  /\ optimizing \in BOOLEAN
  /\ promptFlag \in BOOLEAN
  /\ registry = IF promptFlag THEN Transformers ELSE BaseTransformers
  /\ sniffers = IF promptFlag THEN Sniffers ELSE BaseSniffers
  /\ toggling = "idle" /\ toggles = 0
  /\ cache = {}
  /\ shape \in [Requests -> Shapes]
  /\ pc = [r \in Requests |-> "new"]
  /\ at = [r \in Requests |-> 1]
  /\ key = [r \in Requests |-> NoKey]
  /\ detected = [r \in Requests |-> NoType]
  /\ results = [r \in Requests |-> <<>>]
  /\ written = [r \in Requests |-> {}]
  /\ report = [r \in Requests |-> NoReport]
  /\ seen = [r \in Requests |-> {}]

-----------------------------------------------------------------------------
(* transform() and preview(): the policy, and which thread runs the rest.  *)

Transform(r) ==
  /\ pc[r] = "new" /\ ~shape[r].preview /\ LoopFree
  /\ LET decision == Decide(shape[r], optimizing) IN
       IF decision # Allow
       THEN Answer(r, Skipped(decision))
       ELSE Go(r, IF Offloaded(r) THEN "queued" ELSE "parse") /\ UNCHANGED report
  /\ seen' = [seen EXCEPT ![r] = {promptFlag}]
  /\ UNCHANGED <<control, cache, shape, at, key, detected, results, written>>

\* Never gated by the kill switch.
Preview(r) ==
  /\ pc[r] = "new" /\ shape[r].preview /\ LoopFree
  /\ Go(r, "key")
  /\ seen' = [seen EXCEPT ![r] = {promptFlag}]
  /\ UNCHANGED <<control, cache, shape, at, key, detected, results, written, report>>

StartWorker(r) ==
  /\ pc[r] = "queued" /\ Cardinality(Workers) < Threads
  /\ Go(r, "parse")
  /\ UNCHANGED <<control, cache, shape, at, key, detected, results, written, report, seen>>

-----------------------------------------------------------------------------
(* _run: parse the body, then one segment after the other.                 *)

Rejection(s) ==
  IF ~s.valid THEN "malformed_payload"
  ELSE IF s.path \notin AdaptedPaths THEN "no_payload_adapter"
  ELSE IF s.segments = <<>> THEN "no_optimizable_segments" ELSE "none"

Parse(r) ==
  /\ pc[r] = "parse"
  /\ IF Rejection(shape[r]) = "none"
     THEN Go(r, "key") /\ UNCHANGED report
     ELSE Answer(r, Skipped(Rejection(shape[r])))
  /\ UNCHANGED <<control, cache, shape, at, key, detected, results, written, seen>>

SkipSegment(r) ==
  /\ pc[r] = "key"
  /\ Segment(r) \in Short \/ (Segment(r) \in Documents /\ ~DocumentsEnabled)
  /\ Onward(r)
  /\ UNCHANGED <<control, cache, shape, results, written, report, seen>>

\* text_key hashes the text's UTF-8 bytes, which a lone surrogate has none of.
ComputeTextKey(r) ==
  /\ pc[r] = "key" /\ Segment(r) \in Text \ Short
  /\ IF ~CacheEnabled THEN Go(r, "detect") /\ UNCHANGED <<at, key, detected, results, written, report>>
     ELSE IF Segment(r) \in Unencodable THEN Raise(r)
     ELSE /\ Go(r, "lookup")
          /\ key' = [key EXCEPT ![r] = TextKey(Segment(r), registry, Encoding(r))]
          /\ UNCHANGED <<at, detected, results, written, report>>
  /\ UNCHANGED <<control, cache, shape, seen>>

ComputeDocumentKey(r) ==
  /\ pc[r] = "key" /\ Segment(r) \in Documents /\ DocumentsEnabled
  /\ IF ~CacheEnabled THEN Go(r, "extract") /\ UNCHANGED key
     ELSE /\ Go(r, "lookup")
          /\ key' = [key EXCEPT ![r] = DocumentKey(Segment(r), Encoding(r))]
  /\ UNCHANGED <<control, cache, shape, at, detected, results, written, report, seen>>

Cached(k) == {x \in cache : x.key = k}

Hit(r) ==
  /\ pc[r] = "lookup"
  /\ \E x \in Cached(key[r]) : Keep(r, [x.entry EXCEPT !.hit = TRUE])
  /\ Onward(r)
  /\ UNCHANGED <<control, cache, shape, report, seen>>

\* Nothing there, or a backend that did not answer.
Miss(r) ==
  /\ pc[r] = "lookup"
  /\ Go(r, IF Segment(r) \in Documents THEN "extract" ELSE "detect")
  /\ UNCHANGED <<control, cache, shape, at, key, detected, results, written, report, seen>>

DetectType(r) ==
  /\ pc[r] = "detect"
  /\ detected' = [detected EXCEPT ![r] = Detect(sniffers, Segment(r))]
  /\ Go(r, "apply")
  /\ UNCHANGED <<control, cache, shape, at, key, results, written, report, seen>>

Chosen(r) == Select(registry, detected[r])
NoOutput(r) == Chosen(r) # NoTransformer => Effect[Chosen(r)][Segment(r)] = "raise"

\* No transformer, or one that raised: the segment stays as it is, unreported.
PassThrough(r) ==
  /\ pc[r] = "apply" /\ NoOutput(r)
  /\ Onward(r)
  /\ UNCHANGED <<control, cache, shape, results, written, report, seen>>

\* Measuring a text that has no UTF-8 form raises once its transformer has run.
ApplyTransformer(r) ==
  /\ pc[r] = "apply" /\ ~NoOutput(r)
  /\ IF Segment(r) \in Unencodable THEN Raise(r)
     ELSE /\ Keep(r, Measured(Chosen(r), Segment(r), Encoding(r)))
          /\ IF CacheEnabled THEN Go(r, "store") /\ UNCHANGED <<at, key, detected>> ELSE Onward(r)
          /\ UNCHANGED report
  /\ UNCHANGED <<control, cache, shape, seen>>

\* Mutant: a failed extraction is cached like any other.
ExtractDocumentAnyway(r) ==
  /\ pc[r] = "extract"
  /\ Keep(r, Extracted(Segment(r), Encoding(r)))
  /\ IF CacheEnabled THEN Go(r, "store") /\ UNCHANGED <<at, key, detected>> ELSE Onward(r)
  /\ UNCHANGED <<control, cache, shape, report, seen>>

\* Only a successful extraction is cached.
ExtractDocument(r) ==
  /\ pc[r] = "extract"
  /\ Keep(r, Extracted(Segment(r), Encoding(r)))
  /\ IF CacheEnabled /\ Segment(r) \in Extractable
     THEN Go(r, "store") /\ UNCHANGED <<at, key, detected>>
     ELSE Onward(r)
  /\ UNCHANGED <<control, cache, shape, report, seen>>

\* A put is best-effort: the backend may be down, or the entry over its budget.
Put(k, entry) == {x \in cache : x.key # k} \cup {[key |-> k, entry |-> entry]}

Store(r) ==
  /\ pc[r] = "store"
  /\ cache' \in {cache, Put(key[r], results[r][Len(results[r])])}
  /\ Onward(r)
  /\ UNCHANGED <<control, shape, results, written, report, seen>>

-----------------------------------------------------------------------------
(* The report.                                                             *)

Changed(r) == \E i \in DOMAIN results[r] : results[r][i].changed
Untouched(r) ==
  {i \in DOMAIN shape[r].segments : \A w \in written[r] : w.at # i}

\* A changed payload is serialized again, and a preview without a result is
\* measured: both need the UTF-8 form of what is left in place.
Unserializable(r) ==
  /\ Changed(r) \/ (shape[r].preview /\ results[r] = <<>>)
  /\ \E i \in Untouched(r) : shape[r].segments[i] \in Unencodable

Finish(r) ==
  /\ pc[r] = "finish"
  /\ IF Unserializable(r) THEN Raise(r)
     ELSE /\ Answer(r,
               IF shape[r].preview THEN [Skipped("preview") EXCEPT !.results = results[r]]
               ELSE IF ~Changed(r) THEN Skipped("content_already_optimal")
               ELSE [applied |-> TRUE, reason |-> "none",
                     body |-> written[r], results |-> results[r]])
          /\ UNCHANGED <<at, key, detected, results, written>>
  /\ UNCHANGED <<control, cache, shape, seen>>

-----------------------------------------------------------------------------
(* The runtime toggles, and the backend losing entries.                    *)

SetOptimization(enabled) ==
  /\ LoopFree /\ toggles < MaxToggles
  /\ optimizing' = enabled /\ toggles' = toggles + 1
  /\ UNCHANGED <<promptFlag, registry, sniffers, toggling, cache, shape, job, seen>>

\* _set_prompt_optimization and apply_prompt_optimization: three assignments a
\* worker thread may read between.
SetPrompt(enabled) ==
  /\ LoopFree /\ toggles < MaxToggles
  /\ promptFlag' = enabled /\ toggling' = "registering" /\ toggles' = toggles + 1
  /\ seen' = [r \in Requests |->
               IF pc[r] \in Steps \cup {"queued"} THEN seen[r] \cup {enabled} ELSE seen[r]]
  /\ UNCHANGED <<optimizing, registry, sniffers, cache, shape, job>>

MoveTransformer ==
  /\ toggling = "registering"
  /\ registry' = IF promptFlag THEN registry \cup {Prompt} ELSE registry \ {Prompt}
  /\ toggling' = "sniffing"
  /\ UNCHANGED <<optimizing, promptFlag, sniffers, toggles, cache, shape, job, seen>>

\* Mutant: disabling leaves the sniffer where it is.
MoveSnifferOnlyIn ==
  /\ toggling = "sniffing"
  /\ sniffers' = sniffers \cup {PromptSniffer}
  /\ toggling' = "idle"
  /\ UNCHANGED <<optimizing, promptFlag, registry, toggles, cache, shape, job, seen>>

MoveSniffer ==
  /\ toggling = "sniffing"
  /\ sniffers' = IF promptFlag THEN sniffers \cup {PromptSniffer} ELSE sniffers \ {PromptSniffer}
  /\ toggling' = "idle"
  /\ UNCHANGED <<optimizing, promptFlag, registry, toggles, cache, shape, job, seen>>

\* LRU eviction, expiry, a corrupt entry deleted on read, a Redis restart.
Evict ==
  /\ \E x \in cache : cache' = cache \ {x}
  /\ UNCHANGED <<control, shape, job, seen>>

Process(r) ==
  \/ Parse(r) \/ SkipSegment(r) \/ ComputeTextKey(r) \/ ComputeDocumentKey(r)
  \/ Hit(r) \/ Miss(r) \/ DetectType(r) \/ PassThrough(r) \/ ApplyTransformer(r)
  \/ ExtractDocument(r) \/ Store(r) \/ Finish(r)

Toggle == MoveTransformer \/ MoveSniffer

Next ==
  \/ \E r \in Requests : Transform(r) \/ Preview(r) \/ StartWorker(r) \/ Process(r)
  \/ \E enabled \in BOOLEAN : SetOptimization(enabled) \/ SetPrompt(enabled)
  \/ Toggle \/ Evict

Spec == Init /\ [][Next]_vars

-----------------------------------------------------------------------------
(* Properties.                                                             *)

TextOf(r, w) == shape[r].segments[w.at]

Keys ==
  [kind : {"text"}, content : Text, version : SUBSET Transformers, encoding : Encodings]
    \cup [kind : {"document"}, content : {Data[d] : d \in Documents},
          version : {{Extractor}}, encoding : Encodings]
Writes  == [at : Nat, by : Authors, of : Segments]
Reports == [applied : BOOLEAN, reason : SkipReasons \cup {"none", "preview"},
            body : SUBSET Writes, results : Seq(Results)]

\* Every variable keeps its type; the index of the segment in hand stays in
\* the payload while a segment is being processed.
TypeOK ==
  /\ optimizing \in BOOLEAN /\ promptFlag \in BOOLEAN
  /\ registry \in SUBSET Transformers /\ sniffers \in SUBSET Sniffers
  /\ toggling \in {"idle", "registering", "sniffing"} /\ toggles \in 0..MaxToggles
  /\ cache \in SUBSET [key : Keys, entry : Results]
  /\ shape \in [Requests -> Shapes]
  /\ pc \in [Requests -> Steps \cup {"new", "queued", "done", "raised"}]
  /\ at \in [Requests -> Nat \ {0}]
  /\ key \in [Requests -> Keys \cup {NoKey}]
  /\ detected \in [Requests -> Types \cup {NoType}]
  /\ results \in [Requests -> Seq(Results)]
  /\ written \in [Requests -> SUBSET Writes]
  /\ report \in [Requests -> Reports]
  /\ seen \in [Requests -> SUBSET BOOLEAN]

\* What replaces a text segment, computed now or served from the cache, never
\* costs more tokens than the segment it replaces, counted in the encoding of
\* the request that carries it (the never-grow guard of _compute_text, which a
\* hit skips).
NeverGrows ==
  \A r \in Requests : \A w \in written[r] :
    TextOf(r, w) \in Text =>
      TokensAfter[Encoding(r)][w.by][w.of] <= Tokens[Encoding(r)][TextOf(r, w)]

\* A segment is only ever replaced by a rendering of its own content, however
\* many requests share the cache: the same text, or a document with the same
\* bytes, media type and filename (CacheKey).
OwnContent ==
  \A r \in Requests : \A w \in written[r] :
    \/ TextOf(r, w) \in Text /\ w.of = TextOf(r, w)
    \/ TextOf(r, w) \in Documents /\ w.of \in Documents /\ Data[w.of] = Data[TextOf(r, w)]

\* The report describes the body that is forwarded: one result per replaced
\* segment, by the same transformer, and no replacement at all in the body of a
\* skipped request.
ReportMatchesBody ==
  \A r \in Requests : pc[r] = "done" =>
    LET claimed == {i \in DOMAIN report[r].results : report[r].results[i].changed}
    IN  /\ Cardinality(claimed) = Cardinality(report[r].body) \/ shape[r].preview
        /\ report[r].applied <=> report[r].body # {}
        /\ \A w \in report[r].body : \E i \in claimed :
             report[r].results[i].by = w.by /\ report[r].results[i].of = w.of

\* "It never caches a failed or partial transformation": no entry comes from a document that
\* did not extract, from a transformer that raises on that text, or from one whose output was
\* discarded for its cost, and each is of the content its key names.
OnlyCompletedCached ==
  \A x \in cache :
    /\ x.key.kind = "text" =>
         /\ x.entry.by \in Transformers /\ x.entry.of = x.key.content
         /\ Effect[x.entry.by][x.entry.of] # "raise"
         /\ x.entry.changed => TokensAfter[x.key.encoding][x.entry.by][x.entry.of]
                                 <= Tokens[x.key.encoding][x.entry.of]
    /\ x.key.kind = "document" =>
         x.entry.of \in Extractable /\ Data[x.entry.of] = x.key.content

\* Whenever the loop is between toggles, the flag that /internal/status
\* reports, the registry and the detector agree about prompt optimization.
Lockstep ==
  toggling = "idle" => /\ promptFlag <=> Prompt \in registry
                       /\ promptFlag <=> PromptSniffer \in sniffers

\* The sniffers a registry is in lockstep with.
SniffersFor(version) == IF Prompt \in version THEN Sniffers ELSE BaseSniffers

\* No request is big enough for a worker thread and small enough to be optimized.
OnLoop ==
  \A r \in Requests : shape[r].size < OffloadThreshold \/ shape[r].size > MaxBodyBytes

\* "The two states occupy different cache namespaces": on the loop, a cached text
\* result is what the registry named in its key makes of that text.
NamespacesHold ==
  OnLoop => \A x \in cache : x.key.kind = "text" =>
    x.entry = Measured(Select(x.key.version, Detect(SniffersFor(x.key.version), x.key.content)),
                       x.key.content, x.key.encoding)

\* "A cache entry produced while the feature was off is never mistaken for one
\* produced while it was on": a request that ran while prompt optimization was
\* off throughout is not given the prompt transformer's output.
OffMeansOff ==
  \A r \in Requests : seen[r] = {FALSE} => \A w \in written[r] : w.by # Prompt
=============================================================================
