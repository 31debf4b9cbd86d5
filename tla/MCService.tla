----------------------------- MODULE MCService -----------------------------
(***************************************************************************)
(* Instance of Service for TLC.                                            *)
(***************************************************************************)
EXTENDS Service, TLC

mcTransformers == {"html", "text"}

\* Five tokens saved between two transformers: the share is rounded down.
mcReports ==
  {[applied |-> TRUE, reason |-> "none", before |-> 9, after |-> 4,
    transformers |-> {"html", "text"}, hits |-> 1, lookups |-> 3],
   [applied |-> FALSE, reason |-> "other", before |-> 6, after |-> 6,
    transformers |-> {}, hits |-> 0, lookups |-> 1],
   [applied |-> FALSE, reason |-> "denied", before |-> 0, after |-> 0,
    transformers |-> {}, hits |-> 0, lookups |-> 0]}

Internally(op) == [NoAsk EXCEPT !.op = op]
Proxied(p, large, headers) ==
  [NoAsk EXCEPT !.op = "proxy", !.provider = p, !.large = large, !.headers = headers]

Small  == Proxied("openai", FALSE, "proxy-authorization" :> "caller")
Large  == Proxied("anthropic", TRUE, "authorization" :> "caller")
Remote == {[Internally("enable") EXCEPT !.peer = "remote", !.headers = h] :
             h \in {"x-zibbo-token" :> "token", "authorization" :> "caller"}}

\* The first is optimized or turns optimization off, the second comes after or between, the
\* third asks what came of it.
mcAsks ==
  1 :> {Small, Large, Internally("disable"), Internally("doctor")}
  @@ 2 :> {Proxied("anthropic", TRUE, <<>>), Internally("stats")} \cup Remote
  @@ 3 :> {Proxied("groq", FALSE, <<>>), [Internally("enable") EXCEPT !.feature = "prompt"]}
          \cup {Internally(op) : op \in {"stats", "claude", "status", "logs", "benchmark",
                                         "live", "summary", "version"}}

mcDeployments ==
  {[optimization |-> TRUE, prompt |-> FALSE, remote |-> FALSE, token |-> FALSE,
    keys |-> {"openai", "anthropic"}, mounted |-> {"openai", "anthropic"},
    cache |-> "redis", signals |-> {"claude_code"}],
   [optimization |-> FALSE, prompt |-> TRUE, remote |-> TRUE, token |-> TRUE,
    keys |-> {}, mounted |-> {"openai", "anthropic"},
    cache |-> "memory", signals |-> {"api_key", "oauth_token"}]}
=============================================================================
