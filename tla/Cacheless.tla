------------------------------ MODULE Cacheless ------------------------------
(***************************************************************************)
(* What the optimizer promises, without a cache, threads or steps: a       *)
(* request is answered in one step, and its answer is a function of the    *)
(* request and of the two switches as they stand at that step.             *)
(*                                                                         *)
(* docs/CACHE.md and the cache package promise that a reused result is the *)
(* result the transformation would have produced; Optimizer implements     *)
(* this specification as long as no request is offloaded to a thread.  One *)
(* freedom is left: base64 spells the same bytes in several ways, which    *)
(* share an entry, so a document may be read as another spelling of it.    *)
(***************************************************************************)
EXTENDS Policy, Transformation

CONSTANTS Requests, Shapes, AdaptedPaths, CacheEnabled, DocumentsEnabled

VARIABLES
  optimizing,  \* the kill switch
  prompt,      \* prompt optimization is on
  shape,       \* the requests
  answer       \* what each has been answered

ideal == <<optimizing, prompt, shape, answer>>

\* The transformer that takes text c while prompt optimization stands at `on`.
Taker(c, on) ==
  IF on THEN Select(Transformers, Detect(Sniffers, c))
        ELSE Select(BaseTransformers, Detect(BaseSniffers, c))

Author(c, on) == IF c \in Documents THEN Extractor ELSE Taker(c, on)

HasOutput(c, on) == Taker(c, on) # NoTransformer /\ Effect[Taker(c, on)][c] # "raise"

\* Whether segment c of a request in encoding e is replaced.
Rewrites(c, e, on) ==
  IF c \in Documents THEN DocumentsEnabled /\ Extracted(c, e).changed
  ELSE c \notin Short /\ HasOutput(c, on) /\ Measured(Taker(c, on), c, e).changed

\* What a segment may be read as.
Spellings(c) == IF c \in Documents THEN {d \in Documents : Data[d] = Data[c]} ELSE {c}
Readings(s) ==
  {as \in [DOMAIN s.segments -> UNION {Spellings(s.segments[i]) : i \in DOMAIN s.segments}] :
     \A i \in DOMAIN s.segments : as[i] \in Spellings(s.segments[i])}

Body(s, on, as) ==
  {[at |-> i, by |-> Author(as[i], on), of |-> as[i]] :
     i \in {j \in DOMAIN s.segments : Rewrites(as[j], s.encoding, on)}}

\* A text without a UTF-8 form breaks the request when its key is computed,
\* when it is measured, and when a changed body is serialized around it.
Breaks(s, on, as) ==
  \E i \in DOMAIN s.segments :
    LET c == s.segments[i] IN
    /\ c \in Unencodable
    /\ \/ c \notin Short /\ (CacheEnabled \/ HasOutput(c, on) \/ s.preview)
       \/ s.preview
       \/ Body(s, on, as) # {}

Refusal(s, enabled) ==
  IF s.preview THEN "none"
  ELSE IF Decide(s, enabled) # Allow THEN Decide(s, enabled)
  ELSE IF ~s.valid THEN "malformed_payload"
  ELSE IF s.path \notin AdaptedPaths THEN "no_payload_adapter"
  ELSE IF s.segments = <<>> THEN "no_optimizable_segments" ELSE "none"

Pending == [status |-> "pending", body |-> {}]

Answered(s, enabled, on, as) ==
  IF Refusal(s, enabled) # "none" THEN [status |-> Refusal(s, enabled), body |-> {}]
  ELSE IF Breaks(s, on, as) THEN [status |-> "raised", body |-> {}]
  ELSE [status |-> "answered", body |-> Body(s, on, as)]

Init ==
  /\ optimizing \in BOOLEAN /\ prompt \in BOOLEAN
  /\ shape \in [Requests -> Shapes]
  /\ answer = [r \in Requests |-> Pending]

Serve(r) ==
  /\ answer[r] = Pending
  /\ \E as \in Readings(shape[r]) :
       answer' = [answer EXCEPT ![r] = Answered(shape[r], optimizing, prompt, as)]
  /\ UNCHANGED <<optimizing, prompt, shape>>

Switch ==
  /\ optimizing' \in BOOLEAN /\ prompt' \in BOOLEAN
  /\ UNCHANGED <<shape, answer>>

Next == Switch \/ \E r \in Requests : Serve(r)

Spec == Init /\ [][Next]_ideal
=============================================================================
