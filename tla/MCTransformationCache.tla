----------------------- MODULE MCTransformationCache -----------------------
(***************************************************************************)
(* Instances of TransformationCache for TLC: replicas of one service, old  *)
(* and new, on one Redis server; a gateway without the package, and one    *)
(* without a URL, which falls back to memory, and one with a wrong URL.    *)
(* The fingerprint reads html_preserve_links, and not                      *)
(* prompt_optimization_min_chars.                                          *)
(***************************************************************************)
EXTENDS TransformationCache

CONSTANTS g1, g2, t1, t2

replica(version, links) ==
  [version |-> version,
   settings |-> [html_preserve_links |-> links, prompt_optimization_min_chars |-> 240],
   redis |-> TRUE, url |-> "good", package |-> TRUE, prefix |-> "zibbo"]

mcDeployments ==
  {replica("old", TRUE), replica("new", TRUE), replica("new", FALSE),
   [replica("new", FALSE) EXCEPT !.settings.prompt_optimization_min_chars = 0],
   [replica("old", TRUE) EXCEPT !.package = FALSE],
   [replica("old", TRUE) EXCEPT !.url = "none"],
   [replica("old", TRUE) EXCEPT !.url = "bad"]}

mcGatewayOf == [t \in Threads |-> IF t = t1 THEN g1 ELSE g2]

\* The gateways change places together with their threads.
symmetry == {[x \in Gateways \cup Threads |->
  CASE x = g1 -> g2 [] x = g2 -> g1 [] x = t1 -> t2 [] x = t2 -> t1]}

\* The gateways start as one deployment; a restart changes that of one.
RolloutInit == Init /\ deployed[g1] = deployed[g2]
RolloutSpec == RolloutInit /\ [][Next]_vars
=============================================================================
