---------------------------- MODULE MCTransport ----------------------------
(***************************************************************************)
(* Instances of Transport for TLC: one caller that wants a stream, one     *)
(* that does not, and their symmetries within a kind.                      *)
(***************************************************************************)
EXTENDS Transport, TLC

symmetry == Permutations(Streaming) \cup Permutations(Requests \ Streaming)
=============================================================================
