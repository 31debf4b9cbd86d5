---------------------------- MODULE MCOptimizer ----------------------------
(***************************************************************************)
(* Instances of Optimizer for TLC.                                         *)
(*                                                                         *)
(* "prose" is text with duplicate lines, which PromptSniffer claims while  *)
(* it is there; "page" is HTML that shrinks in one encoding and grows in   *)
(* the other; "table" is claimed by a plugin's sniffer and makes the       *)
(* plugin's transformer raise; "magic" looks like a PDF, a type no         *)
(* transformer handles; "tiny" is below the segment floor; "lone" and      *)
(* "tinylone" hold a lone surrogate.  "pdf" is cheaper as Markdown; "note"  *)
(* and "wrapped" are two spellings of one document, the first of them      *)
(* cheaper than its Markdown; "scan" extracts to nothing.                  *)
(***************************************************************************)
EXTENDS OptimizerRefinement, TLC

mcText        == {"prose", "page", "table", "magic", "tiny", "lone", "tinylone"}
mcDocuments   == {"pdf", "note", "wrapped", "scan"}
mcShort       == {"tiny", "tinylone"}
mcUnencodable == {"lone", "tinylone"}
mcData        == [d \in mcDocuments |-> IF d = "wrapped" THEN "note" ELSE d]
mcExtractable == {"pdf", "note", "wrapped"}
mcTypes       == {"html", "csv", "text", "prompt", "pdf", "unknown"}

mcBaseTransformers == {"html", "csv", "text"}
mcHandles == ("html" :> {"html"}) @@ ("csv" :> {"csv"}) @@ ("prompt" :> {"prompt"})
               @@ ("text" :> {"text", "unknown"})
mcRank == ("html" :> 10) @@ ("csv" :> 30) @@ ("prompt" :> 90) @@ ("text" :> 100)

mcBaseSniffers == {"magic-bytes", "html-structure", "fallback", "csv"}
mcSniffers     == mcBaseSniffers \cup {"prompt-structure"}
mcPosition == ("magic-bytes" :> 1) @@ ("html-structure" :> 2) @@ ("fallback" :> 3)
                @@ ("csv" :> 4) @@ ("prompt-structure" :> 5)
mcClaim == [s \in mcSniffers |-> [c \in mcText |->
  CASE s = "magic-bytes" -> "pdf" [] s = "html-structure" -> "html" [] s = "csv" -> "csv"
    [] s = "prompt-structure" -> "prompt" [] OTHER -> "text"]]
mcConfidence == [s \in mcSniffers |-> [c \in mcText |->
  CASE s = "magic-bytes" /\ c = "magic" -> 100
    [] s = "html-structure" /\ c = "page" -> 99
    [] s = "csv" /\ c = "table" -> 80
    [] s = "prompt-structure" /\ c = "prose" -> 80
    [] s = "fallback" -> 10
    [] OTHER -> -1]]

mcEffect == [t \in mcBaseTransformers \cup {"prompt"} |-> [c \in mcText |->
  CASE t = "csv" -> "raise" [] t = "text" /\ c = "table" -> "none" [] OTHER -> "some"]]

mcEncodings == {"o200k", "cl100k"}
mcTokens == [e \in mcEncodings |-> [c \in mcText \cup mcDocuments |->
  CASE c = "wrapped" -> 7 [] c = "pdf" -> 6 [] c = "note" -> 4 [] OTHER -> 5]]
mcTokensAfter == [e \in mcEncodings |->
  [t \in mcBaseTransformers \cup {"prompt", "document"} |-> [c \in mcText \cup mcDocuments |->
    CASE t = "document" -> 5
      [] t = "html" -> IF e = "o200k" THEN 4 ELSE 6
      [] t = "prompt" -> 3
      [] OTHER -> 4]]]

Request(size, segments, encoding) ==
  [preview |-> FALSE, post |-> TRUE, size |-> size, json |-> TRUE,
   path |-> "messages", valid |-> TRUE, segments |-> segments, encoding |-> encoding]
Benchmark(c) ==
  [Request(0, <<c>>, "o200k") EXCEPT !.preview = TRUE]

Small == 1
Large == 2
Oversized == 4

\* Prose in every lane: small, offloaded, benchmarked, and beside a page.
proseShapes ==
  {Request(Small, <<"prose">>, "o200k"), Request(Large, <<"prose">>, "o200k"),
   Request(Large, <<"page", "prose">>, "cl100k"), Benchmark("prose")}

\* The rest runs on the loop.  One request per way through a segment;
segmentShapes ==
  {Request(Small, <<"page">>, "o200k"), Request(Small, <<"tiny", "page">>, "cl100k"),
   Request(Small, <<"table", "magic", "page">>, "o200k"),
   Request(Small, <<"note", "pdf">>, "o200k"), Request(Small, <<"scan", "wrapped">>, "o200k"),
   Request(Small, <<"lone">>, "o200k"), Request(Small, <<"page", "tinylone">>, "o200k"),
   Benchmark("tinylone")}

\* one per reason not to optimize;
skippedShapes ==
  {[Request(Small, <<"page">>, "o200k") EXCEPT !.post = FALSE],
   Request(0, <<>>, "o200k"), Request(Oversized, <<"page">>, "o200k"),
   [Request(Small, <<"page">>, "o200k") EXCEPT !.json = FALSE],
   [Request(Small, <<"page">>, "o200k") EXCEPT !.path = "files"],
   [Request(Small, <<>>, "o200k") EXCEPT !.valid = FALSE],
   [Request(Small, <<"page">>, "o200k") EXCEPT !.path = "embeddings"],
   Request(Small, <<>>, "o200k")}

\* and several segments that share what is cached or fail one after another.
mixedShapes ==
  {Request(Small, <<"prose">>, "o200k"), Request(Small, <<"page", "table">>, "cl100k"),
   Request(Small, <<"page", "tinylone", "prose">>, "o200k"),
   Request(Small, <<"pdf", "lone">>, "o200k"), Benchmark("prose")}

loopShapes == segmentShapes \cup skippedShapes \cup mixedShapes
allShapes  == proseShapes \cup loopShapes

\* Either the requests race in threads, or all of them are served on the loop.
mcInit ==
  /\ Init
  /\ (\A r \in Requests : shape[r] \in proseShapes) \/ (\A r \in Requests : shape[r] \in loopShapes)
mcSpec == mcInit /\ [][Next]_vars

symmetry == Permutations(Requests)
=============================================================================
