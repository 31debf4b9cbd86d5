---------------------------- MODULE MCReadiness ----------------------------
(***************************************************************************)
(* Instance of Readiness for TLC: two small requests and a large one; one  *)
(* of the small ones uses the default encoding, the others another.        *)
(***************************************************************************)
EXTENDS Readiness, TLC

mcModels == "small" :> "o200k" @@ "tiny" :> "cl100k" @@ "large" :> "cl100k"
=============================================================================
