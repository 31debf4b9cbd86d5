------------------------------- MODULE Policy -------------------------------
(***************************************************************************)
(* The policy engine: may this request be transformed?                     *)
(*                                                                         *)
(* PolicyEngine.decide consults five rules in a fixed order and takes the  *)
(* first decision.  Every rule but the last can only object or abstain;    *)
(* the endpoint rule never abstains, so a request that no rule objects to  *)
(* has been allowed by an endpoint rule, never by default.                 *)
(*                                                                         *)
(* A request is a record with the fields the rules look at: post (its      *)
(* method is POST), size (the length of its body), json (the essence of    *)
(* its Content-Type is application/json) and path.                         *)
(***************************************************************************)
EXTENDS Naturals, Sequences, FiniteSetsExt

CONSTANTS
  AllowedPaths,  \* paths an EndpointPolicy's allow lists match
  DeniedPaths,   \* paths its denied prefixes match
  MaxBodyBytes   \* settings.optimization_max_body_bytes

ASSUME MaxBodyAssumption == MaxBodyBytes \in Nat

\* EndpointPolicy.permits: a denied prefix wins over every allow list.
Permits(path) == path \notin DeniedPaths /\ path \in AllowedPaths

\* The rules in the order PolicyEngine.from_settings lists them; BodySizeRule
\* has two objections.  `enabled` is the live kill switch.
Objections(request, enabled) ==
  << [reason |-> "optimization_disabled",    holds |-> ~enabled],
     [reason |-> "method_not_eligible",      holds |-> ~request.post],
     [reason |-> "empty_body",               holds |-> request.size = 0],
     [reason |-> "body_too_large",           holds |-> request.size > MaxBodyBytes],
     [reason |-> "content_type_not_eligible", holds |-> ~request.json],
     [reason |-> "endpoint_not_eligible",    holds |-> ~Permits(request.path)] >>

Allow == "allow"

\* PolicyEngine.decide: the reason of the first rule that objects, or Allow.
Decide(request, enabled) ==
  LET rules   == Objections(request, enabled)
      against == {i \in DOMAIN rules : rules[i].holds}
  IN  IF against = {} THEN Allow ELSE rules[Min(against)].reason

SkipReasons ==
  {"optimization_disabled", "method_not_eligible", "empty_body", "body_too_large",
   "content_type_not_eligible", "endpoint_not_eligible", "malformed_payload",
   "no_payload_adapter", "no_optimizable_segments", "content_already_optimal"}
=============================================================================
