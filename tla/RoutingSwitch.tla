--------------------------- MODULE RoutingSwitch ---------------------------
(***************************************************************************)
(* What connect and disconnect promise about ANTHROPIC_BASE_URL: a switch  *)
(* between the user's own endpoint and a gateway's, each way in one step.  *)
(***************************************************************************)
CONSTANTS
  Gateways,    \* the values that route through a gateway
  Endpoints,   \* the user's own values, the absence of the variable included
  NotSaved

VARIABLES
  url,         \* what Claude Code will use
  saved        \* what disconnect puts back

Init == url \in Endpoints /\ saved = NotSaved

\* configure_routing; a second one keeps the first one's record.
Connect(g) ==
  /\ url # g /\ url' = g
  /\ saved' = IF saved = NotSaved THEN url ELSE saved

\* restore_routing.
Disconnect == saved # NotSaved /\ url' = saved /\ saved' = NotSaved

Next == Disconnect \/ \E g \in Gateways : Connect(g)
Spec == Init /\ [][Next]_<<url, saved>>
=============================================================================
