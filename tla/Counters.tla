------------------------------ MODULE Counters ------------------------------
(***************************************************************************)
(* The calls for a token counter and what they are promised, however       *)
(* Readiness, which extends this module, resolves them.                    *)
(***************************************************************************)
EXTENDS Integers

CONSTANTS
  Calls,      \* requests that need a token counter
  Inline,     \* those below the offload threshold
  Encodings,  \* names of encodings
  Default,    \* tokenizer_default_encoding
  Models      \* Models[c]: the encoding of a call's model

Prewarm == "prewarm"
Nobody  == "nobody"
Jobs    == Calls \cup {Prewarm}

ASSUME CallsAssumption ==
  /\ Inline \subseteq Calls /\ {Prewarm, Nobody} \cap Calls = {}
  /\ Default \in Encodings /\ Models \in [Calls -> Encodings]

VARIABLES
  backend,    \* the tokenizer setting
  downloads,  \* ghost: downloads of each encoding
  failures,   \* ghost: those that failed
  pc,         \* where each job is
  got         \* the counter it got

Encoding(c) == IF c = Prewarm THEN Default ELSE Models[c]

\* What may be tried again: registry.py says that where tiktoken was asked for, an encoding
\* that could not be had is ("keep trying, so a transient outage recovers").  Whether it is,
\* is left open: in fact load_encoding remembers the failure, and nothing is.
Retries(e) == IF backend = "tiktoken" THEN failures[e] ELSE 0

\* However many threads ask at once, an encoding is downloaded at most once in the life of the
\* process, retries apart, and everybody who asks for it gets the same counter unless there is
\* something to retry: token counts, and the cache keys that name their counter, do not change
\* under way (tokenizers/tiktoken_counter.py).
OneCounter ==
  /\ \A e \in Encodings : downloads[e] <= 1 + Retries(e)
  /\ \A c, d \in Jobs :
       (pc[c] = "done" /\ pc[d] = "done" /\ Encoding(c) = Encoding(d)) =>
         got[c] = got[d] \/ Retries(Encoding(c)) > 0

\* Once it serves, the loop never waits for the lock or for a download of the default
\* encoding, which start-up has settled: only a model of another encoding can stall it.
LoopStallsForStrangersOnly ==
  \A c \in Inline : pc[c] \in {"locking", "locked"} => Encoding(c) # Default

=============================================================================
