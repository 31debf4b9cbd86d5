------------------------- MODULE OptimizerRefinement -------------------------
(***************************************************************************)
(* Where no request reaches the offload threshold, Optimizer implements    *)
(* Cacheless: whatever is cached, evicted or toggled between requests,     *)
(* each is answered with what a pipeline without a cache would have        *)
(* answered under the switches in force, documents as some spelling of     *)
(* their bytes.  A request counts as answered at its last step.            *)
(***************************************************************************)
EXTENDS Optimizer

\* A preview's body is discarded; its answer is what was written to it.
AnswerOf(r) ==
  CASE pc[r] = "raised" -> [status |-> "raised", body |-> {}]
    [] pc[r] = "done" /\ shape[r].preview -> [status |-> "answered", body |-> written[r]]
    [] pc[r] = "done" /\ ~shape[r].preview ->
         IF report[r].reason \in {"none", "content_already_optimal"}
         THEN [status |-> "answered", body |-> report[r].body]
         ELSE [status |-> report[r].reason, body |-> {}]
    [] OTHER -> [status |-> "pending", body |-> {}]

Ideal == INSTANCE Cacheless WITH
  prompt <- Prompt \in registry,
  answer <- [r \in Requests |-> AnswerOf(r)]

\* On the loop, the answers are those of a pipeline without a cache, but that a document may
\* be given what another spelling of the same bytes would be (pipeline.py:262).
AnswersAsCacheless == (OnLoop => Ideal!Init) /\ [][OnLoop => Ideal!Next]_(Ideal!ideal)
=============================================================================
