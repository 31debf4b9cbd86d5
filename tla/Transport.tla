----------------------------- MODULE Transport -----------------------------
(***************************************************************************)
(* ProxyService: relays a request to the provider and the response back to *)
(* the caller, buffered or as a stream.                                    *)
(*                                                                         *)
(* A step is what the event loop does between two awaits.  The provider    *)
(* and the network decide each await's outcome; a streaming caller may     *)
(* hang up at any of them, which cancels the relay.  httpx itself releases *)
(* the connection of a response read to its end or to an error; any other  *)
(* response holds its connection until the gateway closes it.              *)
(***************************************************************************)
EXTENDS Integers, FiniteSets

CONSTANTS
  Requests,           \* requests handed to forward
  Streaming,          \* those whose body says "stream": true
  ReconnectAttempts,  \* extra sends after a dropped connection
  MaxChunks           \* bound of the model: chunks in a streamed body

ASSUME RequestsAssumption ==
  IsFiniteSet(Requests) /\ Streaming \subseteq Requests
ASSUME AttemptsAssumption == ReconnectAttempts \in Nat /\ MaxChunks \in Nat

VARIABLES
  pc,         \* which await each request is at
  attempt,    \* the attempt _open_upstream is making
  processed,  \* how many sends of a request the provider processed
  dropped,    \* how many of its sends ended in a dropped connection
  upstream,   \* the connection of the provider's response
  closed,     \* _StreamRelay._closed
  body,       \* how far the provider's body got, as the gateway saw it
  given,      \* chunks the relay has had from the provider
  heard,      \* what the caller has received
  fault,      \* the failure the request ran into
  metrics     \* ProxyMetrics

sends == <<processed, dropped>>
relay == <<attempt, sends, closed, given>>
vars  == <<pc, attempt, processed, dropped, upstream, closed, body, given, heard, fault, metrics>>

Faults   == {"none", "timeout", "transport", "undecodable"}
Statuses == {"none", "relayed", "502", "504", "500"}
Points   == {"new", "opening", "reading", "rejecting", "headers", "pulling",
             "handing", "framing", "background", "releasing", "done"}
Heard    == [status : Statuses, chunks : 0..MaxChunks, frame : BOOLEAN,
             over : {"no", "clean", "cut"}]
Silence  == [status |-> "none", chunks |-> 0, frame |-> FALSE, over |-> "no"]

Init ==
  /\ pc = [r \in Requests |-> "new"]
  /\ attempt = [r \in Requests |-> 0]
  /\ processed = [r \in Requests |-> 0]
  /\ dropped = [r \in Requests |-> 0]
  /\ upstream = [r \in Requests |-> "none"]
  /\ closed = [r \in Requests |-> FALSE]
  /\ body = [r \in Requests |-> "flowing"]
  /\ given = [r \in Requests |-> 0]
  /\ heard = [r \in Requests |-> Silence]
  /\ fault = [r \in Requests |-> "none"]
  /\ metrics = [recovered |-> 0, exhausted |-> 0, failures |-> 0]

At(r, p) == pc[r] = p
Go(r, p) == pc' = [pc EXCEPT ![r] = p]

\* The request is over, with one ordinary response.
Respond(r, s) ==
  /\ Go(r, "done")
  /\ heard' = [heard EXCEPT ![r].status = s, ![r].over = "clean"]

Forward(r) ==
  /\ At(r, "new") /\ Go(r, "opening")
  /\ attempt' = [attempt EXCEPT ![r] = 1]
  /\ UNCHANGED <<sends, upstream, closed, body, given, heard, fault, metrics>>

-----------------------------------------------------------------------------
(* _open_upstream.                                                         *)

\* What the provider made of a send that brought no response: it may have run the
\* request all the same, since RemoteProtocolError comes from a connection that was up.
Seen(r) == \E n \in {0, 1} : processed' = [processed EXCEPT ![r] = @ + n]
Drop(r) == Seen(r) /\ dropped' = [dropped EXCEPT ![r] = @ + 1]

\* Mutant: every response that opens counts as a recovery.
OpenRecovering(r, rejected) ==
  /\ At(r, "opening")
  /\ Go(r, IF r \notin Streaming THEN "reading" ELSE IF rejected THEN "rejecting" ELSE "headers")
  /\ processed' = [processed EXCEPT ![r] = @ + 1]
  /\ upstream' = [upstream EXCEPT ![r] = "open"]
  /\ metrics' = [metrics EXCEPT !.recovered = @ + 1]
  /\ UNCHANGED <<attempt, dropped, closed, body, given, heard, fault>>

\* A response, its body unread.
Open(r, rejected) ==
  /\ At(r, "opening")
  /\ Go(r, IF r \notin Streaming THEN "reading" ELSE IF rejected THEN "rejecting" ELSE "headers")
  /\ processed' = [processed EXCEPT ![r] = @ + 1]
  /\ upstream' = [upstream EXCEPT ![r] = "open"]
  /\ metrics' = [metrics EXCEPT !.recovered = IF attempt[r] > 1 THEN @ + 1 ELSE @]
  /\ UNCHANGED <<attempt, dropped, closed, body, given, heard, fault>>

\* ConnectError, or RemoteProtocolError: the next attempt.
Retry(r) ==
  /\ At(r, "opening") /\ attempt[r] <= ReconnectAttempts
  /\ Drop(r)
  /\ attempt' = [attempt EXCEPT ![r] = @ + 1]
  /\ UNCHANGED <<pc, upstream, closed, body, given, heard, fault, metrics>>

\* The same on the last attempt.
Exhaust(r) ==
  /\ At(r, "opening") /\ attempt[r] > ReconnectAttempts
  /\ Drop(r)
  /\ Respond(r, "502")
  /\ fault' = [fault EXCEPT ![r] = "transport"]
  /\ metrics' = [metrics EXCEPT !.exhausted = @ + 1, !.failures = @ + 1]
  /\ UNCHANGED <<attempt, upstream, closed, body, given>>

\* Mutant: a send that timed out or broke is sent again.
FailOpenRetrying(r, cause) ==
  /\ At(r, "opening") /\ cause \in {"timeout", "transport"}
  /\ attempt[r] <= ReconnectAttempts
  /\ Seen(r)
  /\ attempt' = [attempt EXCEPT ![r] = @ + 1]
  /\ UNCHANGED <<pc, dropped, upstream, closed, body, given, heard, fault, metrics>>

\* TimeoutException, or any other TransportError: the provider may be at work.
FailOpen(r, cause) ==
  /\ At(r, "opening") /\ cause \in {"timeout", "transport"}
  /\ Seen(r)
  /\ Respond(r, IF cause = "timeout" THEN "504" ELSE "502")
  /\ fault' = [fault EXCEPT ![r] = cause]
  /\ metrics' = [metrics EXCEPT !.failures = @ + 1]
  /\ UNCHANGED <<attempt, dropped, upstream, closed, body, given>>

-----------------------------------------------------------------------------
(* The body, buffered.                                                     *)

\* aread() has it all: relayed with the provider's status.
ReadBody(r) ==
  /\ At(r, "reading") \/ At(r, "rejecting")
  /\ body' = [body EXCEPT ![r] = "complete"]
  /\ upstream' = [upstream EXCEPT ![r] = "released"]
  /\ Respond(r, "relayed")
  /\ UNCHANGED <<relay, fault, metrics>>

\* aread() raises.  Only _forward_buffered maps it, and what is neither a
\* timeout nor a transport error nobody maps: an unhandled exception.  httpx
\* releases the connection of a read that fails; that of a rejected stream whose
\* body does not decode is released with the abandoned response, by no close of
\* the gateway's own.
FailRead(r, cause) ==
  /\ At(r, "reading") \/ At(r, "rejecting")
  /\ body' = [body EXCEPT ![r] = "broken"]
  /\ upstream' = [upstream EXCEPT ![r] = "released"]
  /\ Respond(r, CASE At(r, "reading") /\ cause = "timeout" -> "504"
                  [] At(r, "reading") /\ cause = "transport" -> "502"
                  [] OTHER -> "500")
  /\ fault' = [fault EXCEPT ![r] = cause]
  /\ UNCHANGED <<relay, metrics>>

-----------------------------------------------------------------------------
(* The body, streamed: StreamingResponse drives _StreamRelay.              *)

StartResponse(r) ==
  /\ At(r, "headers") /\ Go(r, "pulling")
  /\ heard' = [heard EXCEPT ![r].status = "relayed"]
  /\ UNCHANGED <<relay, upstream, body, fault, metrics>>

\* __anext__ has a chunk; the response sends it.
Chunk(r) ==
  /\ At(r, "pulling") /\ body[r] = "flowing" /\ given[r] < MaxChunks
  /\ Go(r, "handing")
  /\ given' = [given EXCEPT ![r] = @ + 1]
  /\ UNCHANGED <<attempt, sends, upstream, closed, body, heard, fault, metrics>>

Deliver(r) ==
  /\ At(r, "handing") /\ Go(r, "pulling")
  /\ heard' = [heard EXCEPT ![r].chunks = @ + 1]
  /\ UNCHANGED <<relay, upstream, body, fault, metrics>>

\* The response is finished; its background task comes next.
Finished(r, how) ==
  /\ Go(r, "background")
  /\ heard' = [heard EXCEPT ![r].over = how]

\* The provider's body ends: the relay closes, the stop goes on to the caller.
EndOfBody(r) ==
  /\ At(r, "pulling") /\ body[r] = "flowing"
  /\ body' = [body EXCEPT ![r] = "complete"]
  /\ closed' = [closed EXCEPT ![r] = TRUE]
  /\ upstream' = [upstream EXCEPT ![r] = "released"]
  /\ Finished(r, "clean")
  /\ UNCHANGED <<attempt, sends, given, fault, metrics>>

\* Mutant: a broken stream just stops.
StreamFailsSilently(r, cause) ==
  /\ At(r, "pulling") /\ body[r] = "flowing" /\ cause # "undecodable"
  /\ body' = [body EXCEPT ![r] = "broken"]
  /\ closed' = [closed EXCEPT ![r] = TRUE]
  /\ upstream' = [upstream EXCEPT ![r] = "released"]
  /\ Finished(r, "clean")
  /\ fault' = [fault EXCEPT ![r] = cause]
  /\ UNCHANGED <<attempt, sends, given, metrics>>

\* _fail: the relay is exhausted and closed, and returns the error frame.
StreamFails(r, cause) ==
  /\ At(r, "pulling") /\ body[r] = "flowing" /\ cause # "undecodable"
  /\ Go(r, "framing")
  /\ body' = [body EXCEPT ![r] = "broken"]
  /\ closed' = [closed EXCEPT ![r] = TRUE]
  /\ upstream' = [upstream EXCEPT ![r] = "released"]
  /\ fault' = [fault EXCEPT ![r] = cause]
  /\ UNCHANGED <<attempt, sends, given, heard, metrics>>

DeliverFrame(r) ==
  /\ At(r, "framing") /\ Go(r, "pulling")
  /\ heard' = [heard EXCEPT ![r].frame = TRUE]
  /\ UNCHANGED <<relay, upstream, body, fault, metrics>>

\* The exhausted relay stops.
Stop(r) ==
  /\ At(r, "pulling") /\ body[r] # "flowing"
  /\ Finished(r, "clean")
  /\ UNCHANGED <<relay, upstream, body, fault, metrics>>

\* Any other exception: shielded close, and the response is torn down without
\* its background task.
StreamRaises(r) ==
  /\ At(r, "pulling") /\ body[r] = "flowing"
  /\ Go(r, "done")
  /\ body' = [body EXCEPT ![r] = "broken"]
  /\ closed' = [closed EXCEPT ![r] = TRUE]
  /\ upstream' = [upstream EXCEPT ![r] = "released"]
  /\ heard' = [heard EXCEPT ![r].over = "cut"]
  /\ fault' = [fault EXCEPT ![r] = "undecodable"]
  /\ UNCHANGED <<attempt, sends, given, metrics>>

\* The caller is gone, and the response's task is cancelled where it waits.
\* Only a cancelled __anext__ closes the relay, in a task that outlives it.
HangUp(r) ==
  /\ pc[r] \in {"headers", "pulling", "handing", "framing"}
  /\ Finished(r, "cut")
  /\ IF At(r, "pulling") /\ body[r] = "flowing"
     THEN /\ closed' = [closed EXCEPT ![r] = TRUE]
          /\ upstream' = [upstream EXCEPT ![r] = "closing"]
     ELSE UNCHANGED <<closed, upstream>>
  /\ UNCHANGED <<attempt, sends, body, given, fault, metrics>>

\* Mutant: aclose() does nothing for a relay that never yielded.
BackgroundIfStarted(r) ==
  /\ At(r, "background")
  /\ IF closed[r] \/ given[r] = 0
     THEN Go(r, "done") /\ UNCHANGED <<closed, upstream>>
     ELSE /\ Go(r, "releasing")
          /\ closed' = [closed EXCEPT ![r] = TRUE]
          /\ upstream' = [upstream EXCEPT ![r] = "closing"]
  /\ UNCHANGED <<attempt, sends, body, given, heard, fault, metrics>>

\* BackgroundTask(relay.aclose): at once if the relay is closed or closing.
Background(r) ==
  /\ At(r, "background")
  /\ IF closed[r]
     THEN Go(r, "done") /\ UNCHANGED <<closed, upstream>>
     ELSE /\ Go(r, "releasing")
          /\ closed' = [closed EXCEPT ![r] = TRUE]
          /\ upstream' = [upstream EXCEPT ![r] = "closing"]
  /\ UNCHANGED <<attempt, sends, body, given, heard, fault, metrics>>

\* Mutant: unshielded, a close goes on only while the response waits for it.
ReleasedUnshielded(r) ==
  /\ upstream[r] = "closing" /\ At(r, "releasing")
  /\ upstream' = [upstream EXCEPT ![r] = "released"]
  /\ Go(r, "done")
  /\ UNCHANGED <<relay, body, heard, fault, metrics>>

\* response.aclose() returns.
Released(r) ==
  /\ upstream[r] = "closing"
  /\ upstream' = [upstream EXCEPT ![r] = "released"]
  /\ pc' = [pc EXCEPT ![r] = IF @ = "releasing" THEN "done" ELSE @]
  /\ UNCHANGED <<relay, body, heard, fault, metrics>>

-----------------------------------------------------------------------------
Work(r) ==
  \/ \E rejected \in BOOLEAN : Open(r, rejected)
  \/ Retry(r) \/ Exhaust(r)
  \/ \E cause \in Faults \ {"none"} : FailOpen(r, cause) \/ FailRead(r, cause) \/ StreamFails(r, cause)
  \/ ReadBody(r)
  \/ StartResponse(r) \/ Chunk(r) \/ EndOfBody(r) \/ Stop(r) \/ StreamRaises(r)
  \/ Background(r)

Next ==
  \E r \in Requests :
    Forward(r) \/ Work(r) \/ Deliver(r) \/ DeliverFrame(r) \/ HangUp(r) \/ Released(r)

Spec == Init /\ [][Next]_vars

\* The event loop runs every ready task, and the timeouts bound every await of
\* the provider; a caller takes what it is sent or hangs up.
FairSpec ==
  /\ Spec
  /\ \A r \in Requests :
       /\ WF_vars(Work(r))
       /\ WF_vars(Deliver(r) \/ DeliverFrame(r) \/ HangUp(r))
       /\ WF_vars(Released(r))

-----------------------------------------------------------------------------
(* Properties.                                                             *)

Counters == [recovered : Nat, exhausted : Nat, failures : Nat]

TypeOK ==
  /\ pc \in [Requests -> Points]
  /\ attempt \in [Requests -> 0..ReconnectAttempts + 1]
  /\ processed \in [Requests -> Nat]
  /\ dropped \in [Requests -> Nat]
  /\ upstream \in [Requests -> {"none", "open", "closing", "released"}]
  /\ closed \in [Requests -> BOOLEAN]
  /\ body \in [Requests -> {"flowing", "complete", "broken"}]
  /\ given \in [Requests -> 0..MaxChunks]
  /\ heard \in [Requests -> Heard]
  /\ fault \in [Requests -> Faults]
  /\ metrics \in Counters

\* A caller whose response came to a clean end has the provider's whole body, or
\* a status or an error frame that says it has not: a stream that broke never
\* looks like one that finished.
TruncationShows ==
  \A r \in Requests : heard[r].over = "clean" /\ heard[r].status = "relayed" /\ ~heard[r].frame =>
    body[r] = "complete" /\ heard[r].chunks = given[r]

\* No finished request leaves a connection of the pool behind: it is released,
\* or a close that nothing cancels is under way.
NothingLeftOpen == \A r \in Requests : At(r, "done") => upstream[r] # "open"

\* A connection that was opened is released, whatever the provider and the
\* caller do: before, between and after the chunks.
AlwaysReleased ==
  \A r \in Requests : upstream[r] = "open" ~> upstream[r] = "released"

\* The provider runs a request once, and once more for each connection of it that
\* dropped at most: a send that timed out, broke in another way or was answered is
\* never repeated, and the reconnects bound the rest.  That a dropped send was never
\* processed, which _open_upstream's docstring concludes from its missing answer, is
\* not assumed here and does not hold.
OnlyDropsRunAgain ==
  \A r \in Requests :
    processed[r] <= 1 + dropped[r] /\ processed[r] <= 1 + ReconnectAttempts

\* The counters tell the story of the requests: each one that got its response after
\* the first attempt has recovered once; each one that never got a response has
\* failed once, nothing is a failure that its caller was not told of, and a spent
\* retry is one of the failures.  Whether a body that breaks while it is read counts
\* is left open: the docstring of record_transport_failure says so, the code does not.
CountersAgree ==
  LET Reached(r)   == upstream[r] # "none"
      Ended        == {r \in Requests : At(r, "done")}
      Unanswered   == {r \in Ended : ~Reached(r)}
      Told         == {r \in Ended : heard[r].status \in {"502", "504"}}
      Recovered    == {r \in Requests : Reached(r) /\ attempt[r] > 1}
  IN
  /\ metrics.recovered = Cardinality(Recovered)
  /\ Cardinality(Unanswered) <= metrics.failures /\ metrics.failures <= Cardinality(Told)
  /\ metrics.exhausted <= Cardinality({r \in Unanswered : attempt[r] = ReconnectAttempts + 1})

=============================================================================
