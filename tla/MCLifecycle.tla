---------------------------- MODULE MCLifecycle ----------------------------
(***************************************************************************)
(* Instances of Lifecycle for TLC: a machine where everything is slow or  *)
(* fails, one that does nothing worse than hand out pids again, and one    *)
(* where commands overlap.                                                 *)
(***************************************************************************)
EXTENDS Lifecycle

calm    == [crashes |-> FALSE, slow |-> FALSE, recycles |-> TRUE, overlaps |-> FALSE]
rough   == [crashes |-> TRUE, slow |-> TRUE, recycles |-> FALSE, overlaps |-> FALSE]
crowded == [crashes |-> TRUE, slow |-> FALSE, recycles |-> FALSE, overlaps |-> TRUE]
mcHosts == {calm, rough, crowded}
=============================================================================
