--------------------------- MODULE Transformation ---------------------------
(***************************************************************************)
(* The pure half of the optimizer: what detection, selection and one       *)
(* transformer make of one segment, given the registry and the sniffers in *)
(* force.  Contents, token counts and the effect of each transformer are   *)
(* parameters; the choices the pipeline makes between them are not.        *)
(***************************************************************************)
EXTENDS Integers, Sequences, FiniteSets

CONSTANTS
  Text,             \* text segments a request may carry
  Documents,        \* base64 documents a request may carry, as they are spelled
  Short,            \* text below options.min_segment_chars
  Unencodable,      \* text with a lone surrogate: json.loads accepts it, UTF-8 does not
  Data,             \* Data[d]: the decoded bytes, media type and filename of a document
  Extractable,      \* documents the DocumentService turns into Markdown
  Types, Unknown,   \* ContentType
  BaseTransformers, \* the boot registry: html, json, text and the plugins'
  Prompt,           \* PromptTransformer, the one a toggle adds and removes
  Handles,          \* Handles[t]: the types transformer t can handle
  Rank,             \* Rank[t]: its place in the (priority, name) order
  BaseSniffers,     \* default_sniffers() and the plugins'
  PromptSniffer,    \* the sniffer that moves with Prompt
  Position,         \* Position[s]: its place in the detector's list
  Claim,            \* Claim[s][c]: the type sniffer s claims for text c
  Confidence,       \* Confidence[s][c]: its confidence in hundredths; Abstains for None
  Effect,           \* Effect[t][c]: "raise", "none" (no steps) or "some" (steps applied)
  Encodings,        \* tokenizer encodings
  Tokens,           \* Tokens[e][c]: tokens of segment c
  TokensAfter,      \* TokensAfter[e][t][c]: tokens of what t makes of c
  Extractor,        \* stands for document:<format> as the author of a result
  NoTransformer

Segments     == Text \cup Documents
Transformers == BaseTransformers \cup {Prompt}
Sniffers     == BaseSniffers \cup {PromptSniffer}
Authors      == Transformers \cup {Extractor}
Abstains     == -1

ASSUME ContentsAssumption ==
  /\ Text \cap Documents = {}
  /\ Short \subseteq Text /\ Unencodable \subseteq Text /\ Extractable \subseteq Documents

\* TransformerRegistry.register refuses a second transformer of the same name.
ASSUME TransformersAssumption ==
  /\ Prompt \notin BaseTransformers
  /\ Extractor \notin Transformers /\ NoTransformer \notin Authors
  /\ Handles \in [Transformers -> SUBSET Types]
  /\ Rank \in [Transformers -> Nat]
  /\ \A t, o \in Transformers : Rank[t] = Rank[o] => t = o
  /\ Effect \in [Transformers -> [Text -> {"raise", "none", "some"}]]

ASSUME SniffersAssumption ==
  /\ PromptSniffer \notin BaseSniffers
  /\ Unknown \in Types
  /\ Position \in [Sniffers -> Nat]
  /\ \A s, o \in Sniffers : Position[s] = Position[o] => s = o
  /\ Claim \in [Sniffers -> [Text -> Types]]
  /\ Confidence \in [Sniffers -> [Text -> Abstains..100]]

ASSUME TokensAssumption ==
  /\ Tokens \in [Encodings -> [Segments -> Nat]]
  /\ TokensAfter \in [Encodings -> [Authors -> [Segments -> Nat]]]

\* Extraction sees the decoded bytes, never how they were spelled in base64.
ASSUME ExtractionAssumption ==
  \A d, o \in Documents : Data[d] = Data[o] =>
    /\ d \in Extractable <=> o \in Extractable
    /\ \A e \in Encodings : TokensAfter[e][Extractor][d] = TokensAfter[e][Extractor][o]

-----------------------------------------------------------------------------
\* ContentDetector.detect: the most confident claim, the earlier sniffer on a
\* tie; the pipeline passes no declared type, so the threshold decides nothing.
Detect(sniffers, c) ==
  LET claimants == {s \in sniffers : Confidence[s][c] # Abstains}
      Wins(s)   == \A o \in claimants :
                     \/ Confidence[s][c] > Confidence[o][c]
                     \/ Confidence[s][c] = Confidence[o][c] /\ Position[s] <= Position[o]
  IN  IF claimants = {} THEN Unknown ELSE Claim[CHOOSE s \in claimants : Wins(s)][c]

\* TransformerRegistry.select: the first in (priority, name) order that handles it.
Select(registry, type) ==
  LET able == {t \in registry : type \in Handles[t]}
  IN  IF able = {} THEN NoTransformer
                   ELSE CHOOSE t \in able : \A o \in able : Rank[t] <= Rank[o]

\* A TransformationResult: who produced it, from which segment, the token
\* counts it reports, whether it changed the segment, and whether the cache
\* served it.
Result(author, c, before, after, changed) ==
  [by |-> author, of |-> c, before |-> before, after |-> after,
   changed |-> changed, hit |-> FALSE]

\* Mutant: the guard that discards a transformation that costs more is gone.
MeasuredUnguarded(t, c, e) ==
  IF Effect[t][c] = "some"
  THEN Result(t, c, Tokens[e][c], TokensAfter[e][t][c], TRUE)
  ELSE Result(t, c, Tokens[e][c], Tokens[e][c], FALSE)

\* The part of _compute_text after a transformer ran without raising: a result
\* that costs more tokens than the original is replaced by "no change".
Measured(t, c, e) ==
  IF Effect[t][c] = "some" /\ TokensAfter[e][t][c] <= Tokens[e][c]
  THEN Result(t, c, Tokens[e][c], TokensAfter[e][t][c], TRUE)
  ELSE Result(t, c, Tokens[e][c], Tokens[e][c], FALSE)

\* _compute_document: a failed extraction reports no tokens; a successful one
\* is used only if it is strictly cheaper than the base64.
Extracted(d, e) ==
  IF d \notin Extractable THEN Result(Extractor, d, 0, 0, FALSE)
  ELSE IF TokensAfter[e][Extractor][d] < Tokens[e][d]
       THEN Result(Extractor, d, Tokens[e][d], TokensAfter[e][Extractor][d], TRUE)
       ELSE Result(Extractor, d, Tokens[e][d], Tokens[e][d], FALSE)

Results ==
  [by : Authors, of : Segments, before : Nat, after : Nat,
   changed : BOOLEAN, hit : BOOLEAN]
=============================================================================
