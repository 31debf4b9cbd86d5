--------------------------- MODULE TransportProofs ---------------------------
(***************************************************************************)
(* Proofs about Transport, for any number of requests, attempts and chunks.*)
(*                                                                         *)
(* TypeOK is inductive by itself.  The other invariants follow from facts  *)
(* about one request at a time: where it is, what the provider has given   *)
(* and what the caller has heard (Story), who holds its connection         *)
(* (Holding), and how its connections dropped and its provider ran it      *)
(* (Runs).  The counters need one more, that a request without a response  *)
(* is where none has come yet, or over and its caller told (Standing):     *)
(* then every step leaves the sets they count alone, or adds its own       *)
(* request.                                                                *)
(***************************************************************************)
EXTENDS Transport, FiniteSetTheorems, TLAPS

Story(r) ==
  /\ pc[r] \in {"new", "opening", "reading", "rejecting", "headers", "pulling", "handing", "framing"} =>
       heard[r].over = "no"
  /\ pc[r] \in {"new", "opening", "reading", "rejecting", "headers", "framing"} =>
       heard[r].chunks = given[r]
  /\ pc[r] \in {"new", "opening", "headers", "handing"} => body[r] = "flowing"
  /\ At(r, "pulling") => heard[r].chunks = given[r] /\ (body[r] = "flowing" \/ heard[r].frame)
  /\ At(r, "handing") => heard[r].chunks + 1 = given[r]
  /\ heard[r].over = "clean" /\ heard[r].status = "relayed" /\ ~heard[r].frame =>
       body[r] = "complete" /\ heard[r].chunks = given[r]

Holding(r) ==
  /\ closed[r] => upstream[r] # "open"
  /\ pc[r] \in {"new", "opening"} => upstream[r] = "none" /\ ~closed[r]
  /\ pc[r] \in {"releasing", "done"} => upstream[r] # "open"

Runs(r) ==
  /\ pc[r] = "new" => attempt[r] = 0 /\ processed[r] = 0 /\ dropped[r] = 0
  /\ pc[r] = "opening" => dropped[r] + 1 = attempt[r] /\ processed[r] <= dropped[r]
  /\ processed[r] <= 1 + dropped[r] /\ processed[r] <= attempt[r]

Standing(r) ==
  /\ pc[r] \in {"new", "opening"} => upstream[r] = "none"
  /\ upstream[r] = "none" => pc[r] \in {"new", "opening", "done"}
  /\ upstream[r] = "none" /\ pc[r] = "done" => heard[r].status \in {"502", "504"}

\* What the counters count.
Unanswered == {r \in Requests : At(r, "done") /\ upstream[r] = "none"}
Told       == {r \in Requests : At(r, "done") /\ heard[r].status \in {"502", "504"}}
Recovered  == {r \in Requests : upstream[r] # "none" /\ attempt[r] > 1}
Spent      == {r \in Unanswered : attempt[r] = ReconnectAttempts + 1}

Counted ==
  /\ metrics.failures = Cardinality(Unanswered)
  /\ metrics.recovered = Cardinality(Recovered)
  /\ metrics.exhausted <= Cardinality(Spent)

-----------------------------------------------------------------------------
\* The initial state is well typed.
LEMMA InitTypes == Init => TypeOK
BY AttemptsAssumption
   DEF Init, TypeOK, Points, Statuses, Faults, Heard, Silence, Counters

\* What a step may do to what a caller has heard keeps its type.
LEMMA HearTypes ==
  ASSUME heard \in [Requests -> Heard], NEW r \in Requests
  PROVE  /\ \A s \in Statuses :
              [heard EXCEPT ![r].status = s, ![r].over = "clean"] \in [Requests -> Heard]
         /\ \A s \in Statuses : [heard EXCEPT ![r].status = s] \in [Requests -> Heard]
         /\ \A n \in 0..MaxChunks : [heard EXCEPT ![r].chunks = n] \in [Requests -> Heard]
         /\ [heard EXCEPT ![r].frame = TRUE] \in [Requests -> Heard]
         /\ \A o \in {"clean", "cut"} : [heard EXCEPT ![r].over = o] \in [Requests -> Heard]
<1>1. ASSUME NEW h \in Heard PROVE [heard EXCEPT ![r] = h] \in [Requests -> Heard]
  OBVIOUS
<1>2. heard[r] \in Heard
  OBVIOUS
<1>3. ASSUME NEW s \in Statuses PROVE [heard[r] EXCEPT !.status = s, !.over = "clean"] \in Heard
  BY <1>2 DEF Heard
<1>4. ASSUME NEW s \in Statuses PROVE [heard[r] EXCEPT !.status = s] \in Heard
  BY <1>2 DEF Heard
<1>5. ASSUME NEW n \in 0..MaxChunks PROVE [heard[r] EXCEPT !.chunks = n] \in Heard
  BY <1>2 DEF Heard
<1>6. [heard[r] EXCEPT !.frame = TRUE] \in Heard
  BY <1>2 DEF Heard
<1>7. ASSUME NEW o \in {"clean", "cut"} PROVE [heard[r] EXCEPT !.over = o] \in Heard
  BY <1>2 DEF Heard
<1> QED
  BY <1>1, <1>3, <1>4, <1>5, <1>6, <1>7

\* The counters only ever grow by one.
LEMMA CountTypes ==
  ASSUME metrics \in Counters
  PROVE  /\ [metrics EXCEPT !.exhausted = @ + 1, !.failures = @ + 1] \in Counters
         /\ [metrics EXCEPT !.failures = @ + 1] \in Counters
<1>1. [metrics EXCEPT !.failures = @ + 1] \in Counters
  BY DEF Counters
<1>2. [metrics EXCEPT !.exhausted = @ + 1] \in Counters
  BY DEF Counters
<1>3. ASSUME NEW m \in Counters PROVE [m EXCEPT !.failures = @ + 1] \in Counters
  BY DEF Counters
<1>4. [metrics EXCEPT !.exhausted = @ + 1, !.failures = @ + 1] \in Counters
  BY <1>2, <1>3 DEF Counters
<1> QED
  BY <1>1, <1>4

\* Every step of a request keeps the types.
LEMMA StepTypes == TypeOK /\ (\A r \in Requests : Story(r)) /\ [Next]_vars => TypeOK'
<1> SUFFICES ASSUME TypeOK, \A r \in Requests : Story(r), [Next]_vars PROVE TypeOK'
  OBVIOUS
<1> USE AttemptsAssumption DEF TypeOK, Points, Statuses, Faults, Counters, At, Go, sends
<1>0. CASE UNCHANGED vars
  BY <1>0 DEF vars
<1>1. ASSUME NEW r \in Requests, Forward(r) PROVE TypeOK'
  BY <1>1 DEF Forward
<1>2. ASSUME NEW r \in Requests, NEW rejected \in BOOLEAN, Open(r, rejected) PROVE TypeOK'
  BY <1>2 DEF Open
<1>3. ASSUME NEW r \in Requests, Retry(r) PROVE TypeOK'
  BY <1>3 DEF Retry, Drop, Seen
<1>4. ASSUME NEW r \in Requests, Exhaust(r) PROVE TypeOK'
  <2>1. heard' \in [Requests -> Heard]
    BY <1>4, HearTypes DEF Exhaust, Respond
  <2>2. metrics' \in Counters
    BY <1>4, CountTypes DEF Exhaust
  <2> QED
    BY <1>4, <2>1, <2>2 DEF Exhaust, Drop, Seen, Respond
<1>5. ASSUME NEW r \in Requests, NEW cause \in Faults, FailOpen(r, cause) PROVE TypeOK'
  <2>1. heard' \in [Requests -> Heard]
    BY <1>5, HearTypes DEF FailOpen, Respond
  <2>2. metrics' \in Counters
    BY <1>5, CountTypes DEF FailOpen
  <2> QED
    BY <1>5, <2>1, <2>2 DEF FailOpen, Seen, Respond
<1>6. ASSUME NEW r \in Requests, NEW cause \in Faults, FailRead(r, cause) PROVE TypeOK'
  BY <1>6, HearTypes DEF FailRead, Respond, relay
<1>7. ASSUME NEW r \in Requests, NEW cause \in Faults, StreamFails(r, cause) PROVE TypeOK'
  BY <1>7 DEF StreamFails
<1>8. ASSUME NEW r \in Requests, ReadBody(r) PROVE TypeOK'
  BY <1>8, HearTypes DEF ReadBody, Respond, relay
<1>9. ASSUME NEW r \in Requests, StartResponse(r) PROVE TypeOK'
  BY <1>9, HearTypes DEF StartResponse, relay
<1>10. ASSUME NEW r \in Requests, Chunk(r) PROVE TypeOK'
  BY <1>10 DEF Chunk
<1>11. ASSUME NEW r \in Requests, EndOfBody(r) PROVE TypeOK'
  BY <1>11, HearTypes DEF EndOfBody, Finished
<1>12. ASSUME NEW r \in Requests, Stop(r) PROVE TypeOK'
  BY <1>12, HearTypes DEF Stop, Finished, relay
<1>13. ASSUME NEW r \in Requests, StreamRaises(r) PROVE TypeOK'
  BY <1>13, HearTypes DEF StreamRaises
<1>14. ASSUME NEW r \in Requests, Background(r) PROVE TypeOK'
  <2>1. CASE closed[r]
    BY <1>14, <2>1 DEF Background
  <2>2. CASE ~closed[r]
    <3>1. /\ pc' \in [Requests -> Points] /\ closed' \in [Requests -> BOOLEAN]
          /\ upstream' \in [Requests -> {"none", "open", "closing", "released"}]
      BY <1>14, <2>2 DEF Background
    <3> QED
      BY <1>14, <3>1 DEF Background
  <2> QED
    BY <2>1, <2>2
<1>15. ASSUME NEW r \in Requests, DeliverFrame(r) PROVE TypeOK'
  BY <1>15, HearTypes DEF DeliverFrame, relay
<1>16. ASSUME NEW r \in Requests, HangUp(r) PROVE TypeOK'
  <2>1. heard' \in [Requests -> Heard]
    BY <1>16, HearTypes DEF HangUp, Finished
  <2>2. CASE At(r, "pulling") /\ body[r] = "flowing"
    BY <1>16, <2>1, <2>2 DEF HangUp, Finished
  <2>3. CASE ~(At(r, "pulling") /\ body[r] = "flowing")
    BY <1>16, <2>1, <2>3 DEF HangUp, Finished
  <2> QED
    BY <2>2, <2>3
<1>17. ASSUME NEW r \in Requests, Released(r) PROVE TypeOK'
  BY <1>17 DEF Released, relay
<1>18. ASSUME NEW r \in Requests, Deliver(r) PROVE TypeOK'
  <2>1. heard[r] \in Heard /\ heard[r].chunks + 1 = given[r]
    BY <1>18 DEF Deliver, Story
  <2>2. given[r] \in 0..MaxChunks
    OBVIOUS
  <2>3. heard[r].chunks + 1 \in 0..MaxChunks
    BY <2>1, <2>2, Zenon
  <2>4. heard' = [heard EXCEPT ![r].chunks = heard[r].chunks + 1]
    BY <1>18 DEF Deliver
  <2>5. heard' \in [Requests -> Heard]
    BY <2>3, <2>4, HearTypes
  <2> QED
    BY <1>18, <2>5 DEF Deliver, relay
<1> QED
  BY <1>0, <1>1, <1>2, <1>3, <1>4, <1>5, <1>6, <1>7, <1>8, <1>9, <1>10, <1>11, <1>12,
     <1>13, <1>14, <1>15, <1>16, <1>17, <1>18 DEF Next, Work

\* No step of one request tells another's story, and its own goes on as Story says.
LEMMA StepStory ==
  TypeOK /\ (\A r \in Requests : Story(r)) /\ [Next]_vars => (\A r \in Requests : Story(r))'
<1> SUFFICES ASSUME TypeOK, \A q \in Requests : Story(q), [Next]_vars, NEW r \in Requests
             PROVE  Story(r)'
  OBVIOUS
<1>a. Story(r) /\ heard \in [Requests -> Heard] /\ given[r] \in Nat /\ heard[r].chunks \in Nat
  BY AttemptsAssumption DEF TypeOK, Heard
<1> USE DEF At, Go, sends
<1>0. CASE UNCHANGED vars
  BY <1>a, <1>0 DEF vars, Story
<1>1. ASSUME NEW q \in Requests, Forward(q) PROVE Story(r)'
  BY <1>1, <1>a DEF Forward, Story, TypeOK
<1>2. ASSUME NEW q \in Requests, NEW rejected \in BOOLEAN, Open(q, rejected) PROVE Story(r)'
  BY <1>2, <1>a DEF Open, Story, TypeOK
<1>3. ASSUME NEW q \in Requests, Retry(q) PROVE Story(r)'
  BY <1>3, <1>a DEF Retry, Story, TypeOK
<1>4. ASSUME NEW q \in Requests, Exhaust(q) PROVE Story(r)'
  BY <1>4, <1>a DEF Exhaust, Respond, Story, TypeOK, Heard
<1>5. ASSUME NEW q \in Requests, NEW cause \in Faults, FailOpen(q, cause) PROVE Story(r)'
  BY <1>5, <1>a DEF FailOpen, Respond, Story, TypeOK, Heard
<1>6. ASSUME NEW q \in Requests, NEW cause \in Faults, FailRead(q, cause) PROVE Story(r)'
  BY <1>6, <1>a DEF FailRead, Respond, Story, TypeOK, Heard, relay
<1>7. ASSUME NEW q \in Requests, NEW cause \in Faults, StreamFails(q, cause) PROVE Story(r)'
  BY <1>7, <1>a DEF StreamFails, Story, TypeOK
<1>8. ASSUME NEW q \in Requests, ReadBody(q) PROVE Story(r)'
  BY <1>8, <1>a DEF ReadBody, Respond, Story, TypeOK, Heard, relay
<1>9. ASSUME NEW q \in Requests, StartResponse(q) PROVE Story(r)'
  BY <1>9, <1>a DEF StartResponse, Story, TypeOK, Heard, relay
<1>10. ASSUME NEW q \in Requests, Chunk(q) PROVE Story(r)'
  BY <1>10, <1>a DEF Chunk, Story, TypeOK
<1>11. ASSUME NEW q \in Requests, EndOfBody(q) PROVE Story(r)'
  BY <1>11, <1>a DEF EndOfBody, Finished, Story, TypeOK, Heard
<1>12. ASSUME NEW q \in Requests, Stop(q) PROVE Story(r)'
  BY <1>12, <1>a DEF Stop, Finished, Story, TypeOK, Heard, relay
<1>13. ASSUME NEW q \in Requests, StreamRaises(q) PROVE Story(r)'
  BY <1>13, <1>a DEF StreamRaises, Story, TypeOK, Heard
<1>14. ASSUME NEW q \in Requests, Background(q) PROVE Story(r)'
  BY <1>14, <1>a DEF Background, Story, TypeOK
<1>15. ASSUME NEW q \in Requests, DeliverFrame(q) PROVE Story(r)'
  BY <1>15, <1>a DEF DeliverFrame, Story, TypeOK, Heard, relay
<1>16. ASSUME NEW q \in Requests, HangUp(q) PROVE Story(r)'
  BY <1>16, <1>a DEF HangUp, Finished, Story, TypeOK, Heard
<1>17. ASSUME NEW q \in Requests, Released(q) PROVE Story(r)'
  BY <1>17, <1>a DEF Released, Story, TypeOK, relay
<1>18. ASSUME NEW q \in Requests, Deliver(q) PROVE Story(r)'
  BY <1>18, <1>a DEF Deliver, Story, TypeOK, Heard, relay
<1> QED
  BY <1>0, <1>1, <1>2, <1>3, <1>4, <1>5, <1>6, <1>7, <1>8, <1>9, <1>10, <1>11, <1>12,
     <1>13, <1>14, <1>15, <1>16, <1>17, <1>18 DEF Next, Work

\* A connection is held only by a relay that has not closed.
LEMMA StepHolding ==
  TypeOK /\ (\A r \in Requests : Holding(r)) /\ [Next]_vars => (\A r \in Requests : Holding(r))'
<1> SUFFICES ASSUME TypeOK, \A q \in Requests : Holding(q), [Next]_vars, NEW r \in Requests
             PROVE  Holding(r)'
  OBVIOUS
<1>a. Holding(r)
  OBVIOUS
<1> USE DEF At, Go, Holding, TypeOK, sends
<1>0. CASE UNCHANGED vars
  BY <1>a, <1>0 DEF vars
<1>1. ASSUME NEW q \in Requests, Forward(q) PROVE Holding(r)'
  BY <1>1, <1>a DEF Forward
<1>2. ASSUME NEW q \in Requests, NEW rejected \in BOOLEAN, Open(q, rejected) PROVE Holding(r)'
  BY <1>2, <1>a DEF Open
<1>3. ASSUME NEW q \in Requests, Retry(q) PROVE Holding(r)'
  BY <1>3, <1>a DEF Retry
<1>4. ASSUME NEW q \in Requests, Exhaust(q) PROVE Holding(r)'
  BY <1>4, <1>a DEF Exhaust, Respond
<1>5. ASSUME NEW q \in Requests, NEW cause \in Faults, FailOpen(q, cause) PROVE Holding(r)'
  BY <1>5, <1>a DEF FailOpen, Respond
<1>6. ASSUME NEW q \in Requests, NEW cause \in Faults, FailRead(q, cause) PROVE Holding(r)'
  BY <1>6, <1>a DEF FailRead, Respond, relay
<1>7. ASSUME NEW q \in Requests, NEW cause \in Faults, StreamFails(q, cause) PROVE Holding(r)'
  BY <1>7, <1>a DEF StreamFails
<1>8. ASSUME NEW q \in Requests, ReadBody(q) PROVE Holding(r)'
  BY <1>8, <1>a DEF ReadBody, Respond, relay
<1>9. ASSUME NEW q \in Requests, StartResponse(q) PROVE Holding(r)'
  BY <1>9, <1>a DEF StartResponse, relay
<1>10. ASSUME NEW q \in Requests, Chunk(q) PROVE Holding(r)'
  BY <1>10, <1>a DEF Chunk
<1>11. ASSUME NEW q \in Requests, EndOfBody(q) PROVE Holding(r)'
  BY <1>11, <1>a DEF EndOfBody, Finished
<1>12. ASSUME NEW q \in Requests, Stop(q) PROVE Holding(r)'
  BY <1>12, <1>a DEF Stop, Finished, relay
<1>13. ASSUME NEW q \in Requests, StreamRaises(q) PROVE Holding(r)'
  BY <1>13, <1>a DEF StreamRaises
<1>14. ASSUME NEW q \in Requests, Background(q) PROVE Holding(r)'
  BY <1>14, <1>a DEF Background
<1>15. ASSUME NEW q \in Requests, DeliverFrame(q) PROVE Holding(r)'
  BY <1>15, <1>a DEF DeliverFrame, relay
<1>16. ASSUME NEW q \in Requests, HangUp(q) PROVE Holding(r)'
  BY <1>16, <1>a DEF HangUp, Finished
<1>17. ASSUME NEW q \in Requests, Released(q) PROVE Holding(r)'
  BY <1>17, <1>a DEF Released, relay
<1>18. ASSUME NEW q \in Requests, Deliver(q) PROVE Holding(r)'
  BY <1>18, <1>a DEF Deliver, relay
<1> QED
  BY <1>0, <1>1, <1>2, <1>3, <1>4, <1>5, <1>6, <1>7, <1>8, <1>9, <1>10, <1>11, <1>12,
     <1>13, <1>14, <1>15, <1>16, <1>17, <1>18 DEF Next, Work

\* Only a drop is followed by another send, and only a send is run.
LEMMA StepRuns ==
  TypeOK /\ (\A r \in Requests : Runs(r)) /\ [Next]_vars => (\A r \in Requests : Runs(r))'
<1> SUFFICES ASSUME TypeOK, \A q \in Requests : Runs(q), [Next]_vars, NEW r \in Requests
             PROVE  Runs(r)'
  OBVIOUS
<1>a. Runs(r) /\ processed[r] \in Nat /\ dropped[r] \in Nat /\ attempt[r] \in Nat
  BY AttemptsAssumption DEF TypeOK
<1> USE DEF At, Go, Runs, TypeOK
<1>0. CASE UNCHANGED <<pc, attempt, processed, dropped>>
  BY <1>a, <1>0
<1>1. ASSUME NEW q \in Requests, Forward(q) PROVE Runs(r)'
  BY <1>1, <1>a DEF Forward, sends
<1>2. ASSUME NEW q \in Requests, NEW rejected \in BOOLEAN, Open(q, rejected) PROVE Runs(r)'
  BY <1>2, <1>a DEF Open
<1>3. ASSUME NEW q \in Requests, Retry(q) \/ Exhaust(q) PROVE Runs(r)'
  <2>1. PICK n \in {0, 1} : processed' = [processed EXCEPT ![q] = @ + n]
    BY <1>3 DEF Retry, Exhaust, Drop, Seen
  <2>2. CASE Retry(q)
    BY <2>1, <2>2, <1>a DEF Retry, Drop
  <2>3. CASE Exhaust(q)
    BY <2>1, <2>3, <1>a DEF Exhaust, Drop, Respond
  <2> QED
    BY <1>3, <2>2, <2>3
<1>4. ASSUME NEW q \in Requests, NEW cause \in Faults, FailOpen(q, cause) PROVE Runs(r)'
  BY <1>4, <1>a DEF FailOpen, Seen, Respond
<1>5. ASSUME NEW q \in Requests, UNCHANGED <<attempt, processed, dropped>>,
             pc[q] \notin {"new", "opening"}, \E p \in Points \ {"new", "opening"} : Go(q, p)
      PROVE  Runs(r)'
  BY <1>5, <1>a
<1>6. ASSUME NEW q \in Requests, NEW cause \in Faults, FailRead(q, cause) \/ StreamFails(q, cause)
      PROVE  Runs(r)'
  BY <1>6, <1>5 DEF FailRead, StreamFails, Respond, relay, sends, Points
<1>7. ASSUME NEW q \in Requests, ReadBody(q) \/ StartResponse(q) \/ Chunk(q) \/ EndOfBody(q)
      PROVE  Runs(r)'
  BY <1>7, <1>5
     DEF ReadBody, StartResponse, Chunk, EndOfBody, Respond, Finished, relay, sends, Points
<1>8. ASSUME NEW q \in Requests,
             Stop(q) \/ StreamRaises(q) \/ Background(q) \/ DeliverFrame(q) \/ Deliver(q)
      PROVE  Runs(r)'
  BY <1>8, <1>5
     DEF Stop, StreamRaises, Background, DeliverFrame, Deliver, Finished, relay, sends, Points
<1>9. ASSUME NEW q \in Requests, HangUp(q) PROVE Runs(r)'
  BY <1>9, <1>5 DEF HangUp, Finished, sends, Points
<1>10. ASSUME NEW q \in Requests, Released(q) PROVE Runs(r)'
  BY <1>10, <1>a DEF Released, relay, sends
<1> QED
  BY <1>0, <1>1, <1>2, <1>3, <1>4, <1>6, <1>7, <1>8, <1>9, <1>10 DEF Next, Work, vars

-----------------------------------------------------------------------------
(* The counters.                                                           *)

\* The sets are finite, and one more request makes them one larger.
LEMMA OneMore ==
  ASSUME NEW S \in SUBSET Requests, NEW r \in Requests, r \notin S
  PROVE  Cardinality(S) \in Nat /\ Cardinality(S \cup {r}) = Cardinality(S) + 1
<1>1. IsFiniteSet(S)
  BY FS_Subset, RequestsAssumption
<1> QED
  BY <1>1, FS_AddElement, FS_CardinalityType

\* A step that keeps a response, keeps the attempt it took, and ends nothing without one
\* leaves the sets as they are.
LEMMA QuietKeepsCounted ==
  ASSUME Counted, metrics' = metrics,
         \A r \in Requests : /\ (upstream'[r] = "none") = (upstream[r] = "none")
                             /\ upstream[r] = "none" => (pc'[r] = "done") = (pc[r] = "done")
                             /\ attempt'[r] # attempt[r] => upstream[r] = "none" /\ pc[r] # "done"
  PROVE  Counted'
<1>1. Unanswered' = Unanswered
  BY DEF Unanswered, At
<1>2. Recovered' = Recovered
  BY DEF Recovered
<1>3. Spent' = Spent
  BY <1>1 DEF Spent, Unanswered, At
<1> QED
  BY <1>1, <1>2, <1>3 DEF Counted

\* Every step of a request keeps Standing.
LEMMA StepStanding ==
  TypeOK /\ (\A r \in Requests : Standing(r)) /\ [Next]_vars => (\A r \in Requests : Standing(r))'
<1> SUFFICES ASSUME TypeOK, \A q \in Requests : Standing(q), [Next]_vars, NEW r \in Requests
             PROVE  Standing(r)'
  OBVIOUS
<1>a. Standing(r)
  OBVIOUS
<1> USE DEF At, Go, Standing, TypeOK, sends
<1>0. CASE UNCHANGED vars
  BY <1>a, <1>0 DEF vars
<1>1. ASSUME NEW q \in Requests, Forward(q) \/ Retry(q) PROVE Standing(r)'
  BY <1>1, <1>a DEF Forward, Retry
<1>2. ASSUME NEW q \in Requests, NEW rejected \in BOOLEAN, Open(q, rejected) PROVE Standing(r)'
  BY <1>2, <1>a DEF Open
<1>3. ASSUME NEW q \in Requests, NEW cause \in Faults, Exhaust(q) \/ FailOpen(q, cause)
      PROVE  Standing(r)'
  <2>1. PICK s \in {"502", "504"} : Respond(q, s)
    BY <1>3 DEF Exhaust, FailOpen
  <2>2. heard'[q].status = s /\ \A p \in Requests \ {q} : heard'[p] = heard[p]
    BY <2>1 DEF Respond, Heard
  <2>3. pc' = [pc EXCEPT ![q] = "done"] /\ UNCHANGED upstream
    BY <1>3 DEF Exhaust, FailOpen, Respond
  <2> QED
    BY <2>2, <2>3, <1>a
<1>4. ASSUME NEW q \in Requests, NEW cause \in Faults, FailRead(q, cause) \/ ReadBody(q)
      PROVE  Standing(r)'
  BY <1>4, <1>a DEF FailRead, ReadBody, Respond, relay
<1>5. ASSUME NEW q \in Requests, NEW cause \in Faults, StreamFails(q, cause) \/ StreamRaises(q)
      PROVE  Standing(r)'
  BY <1>5, <1>a DEF StreamFails, StreamRaises
<1>6. ASSUME NEW q \in Requests, StartResponse(q) \/ Chunk(q) \/ Deliver(q) \/ DeliverFrame(q)
      PROVE  Standing(r)'
  BY <1>6, <1>a DEF StartResponse, Chunk, Deliver, DeliverFrame, relay
<1>7. ASSUME NEW q \in Requests, EndOfBody(q) \/ Stop(q) PROVE Standing(r)'
  BY <1>7, <1>a DEF EndOfBody, Stop, Finished, relay
<1>8. ASSUME NEW q \in Requests, Background(q) PROVE Standing(r)'
  BY <1>8, <1>a DEF Background
<1>9. ASSUME NEW q \in Requests, HangUp(q) PROVE Standing(r)'
  BY <1>9, <1>a DEF HangUp, Finished
<1>10. ASSUME NEW q \in Requests, Released(q) PROVE Standing(r)'
  BY <1>10, <1>a DEF Released, relay
<1>11. \A q \in Requests : Work(q) => Standing(r)'
  <2> SUFFICES ASSUME NEW q \in Requests, Work(q) PROVE Standing(r)'
    OBVIOUS
  <2>1. "timeout" \in Faults
    BY DEF Faults
  <2> QED
    BY <2>1, <1>1, <1>2, <1>3, <1>4, <1>5, <1>6, <1>7, <1>8 DEF Work
<1> QED
  BY <1>0, <1>1, <1>6, <1>9, <1>10, <1>11 DEF Next

\* A step counts its request when it puts it among those counted.
LEMMA StepCounted ==
  TypeOK /\ (\A r \in Requests : Standing(r)) /\ Counted /\ [Next]_vars => Counted'
<1> SUFFICES ASSUME TypeOK, \A q \in Requests : Standing(q), Counted, [Next]_vars PROVE Counted'
  OBVIOUS
<1>0. CASE UNCHANGED vars
  BY <1>0, QuietKeepsCounted DEF vars
<1>1. ASSUME NEW q \in Requests, Forward(q) \/ Retry(q) PROVE Counted'
  BY <1>1, QuietKeepsCounted DEF Forward, Retry, At, Go, TypeOK, Standing
<1>2. ASSUME NEW q \in Requests, NEW rejected \in BOOLEAN, Open(q, rejected) PROVE Counted'
  <2>1. /\ pc[q] = "opening" /\ pc'[q] # "done" /\ upstream[q] = "none"
        /\ upstream' = [upstream EXCEPT ![q] = "open"] /\ attempt' = attempt
        /\ \A r \in Requests : r # q => pc'[r] = pc[r]
        /\ metrics' = [metrics EXCEPT !.recovered = IF attempt[q] > 1 THEN @ + 1 ELSE @]
    BY <1>2 DEF Open, At, Go, TypeOK, Standing
  <2>2. Unanswered' = Unanswered
    BY <2>1 DEF Unanswered, At, TypeOK
  <2>3. Spent' = Spent
    BY <2>1, <2>2 DEF Spent
  <2>4. Recovered' = IF attempt[q] > 1 THEN Recovered \cup {q} ELSE Recovered
    BY <2>1 DEF Recovered, TypeOK
  <2>5. q \notin Recovered /\ Recovered \in SUBSET Requests
    BY <2>1 DEF Recovered
  <2>6. /\ metrics'.failures = metrics.failures /\ metrics'.exhausted = metrics.exhausted
        /\ metrics'.recovered = IF attempt[q] > 1 THEN metrics.recovered + 1 ELSE metrics.recovered
    BY <2>1 DEF TypeOK, Counters
  <2> QED
    BY <2>2, <2>3, <2>4, <2>5, <2>6, OneMore DEF Counted
<1>3. ASSUME NEW q \in Requests, NEW cause \in Faults, Exhaust(q) \/ FailOpen(q, cause)
      PROVE  Counted'
  <2>1. /\ pc[q] = "opening" /\ pc' = [pc EXCEPT ![q] = "done"] /\ upstream[q] = "none"
        /\ UNCHANGED <<upstream, attempt>>
    BY <1>3 DEF Exhaust, FailOpen, Respond, At, Go, TypeOK, Standing
  <2>2. Unanswered' = Unanswered \cup {q}
    BY <2>1 DEF Unanswered, At, TypeOK
  <2>3. Recovered' = Recovered
    BY <2>1 DEF Recovered
  <2>4. /\ q \notin Unanswered /\ Unanswered \in SUBSET Requests
        /\ q \notin Spent /\ Spent \in SUBSET Requests
    BY <2>1 DEF Unanswered, Spent, At
  <2>5. Spent' = IF attempt[q] = ReconnectAttempts + 1 THEN Spent \cup {q} ELSE Spent
    BY <2>1, <2>2 DEF Spent
  <2>6. /\ metrics'.failures = metrics.failures + 1 /\ metrics'.recovered = metrics.recovered
        /\ \/ metrics'.exhausted = metrics.exhausted
           \/ metrics'.exhausted = metrics.exhausted + 1 /\ attempt[q] = ReconnectAttempts + 1
    <3>1. CASE FailOpen(q, cause)
      BY <3>1 DEF FailOpen, TypeOK, Counters
    <3>2. CASE Exhaust(q)
      <4>1. attempt[q] > ReconnectAttempts /\ attempt[q] \in 0..ReconnectAttempts + 1
        BY <3>2 DEF Exhaust, TypeOK
      <4> QED
        BY <3>2, <4>1, AttemptsAssumption DEF Exhaust, TypeOK, Counters
    <3> QED
      BY <1>3, <3>1, <3>2
  <2>7. metrics.exhausted \in Nat
    BY DEF TypeOK, Counters
  <2>8. Cardinality(Spent) \in Nat /\ Cardinality(Spent \cup {q}) = Cardinality(Spent) + 1
    BY <2>4, OneMore
  <2>9. Cardinality(Unanswered \cup {q}) = Cardinality(Unanswered) + 1
    BY <2>4, OneMore
  <2> QED
    BY <2>2, <2>3, <2>5, <2>6, <2>7, <2>8, <2>9 DEF Counted
<1>4. ASSUME NEW q \in Requests, NEW cause \in Faults, FailRead(q, cause) \/ ReadBody(q)
      PROVE  Counted'
  BY <1>4, QuietKeepsCounted DEF FailRead, ReadBody, Respond, relay, At, Go, TypeOK, Standing
<1>5. ASSUME NEW q \in Requests, NEW cause \in Faults, StreamFails(q, cause) \/ StreamRaises(q)
      PROVE  Counted'
  BY <1>5, QuietKeepsCounted DEF StreamFails, StreamRaises, At, Go, TypeOK, Standing
<1>6. ASSUME NEW q \in Requests, StartResponse(q) \/ Chunk(q) \/ Deliver(q) \/ DeliverFrame(q)
      PROVE  Counted'
  BY <1>6, QuietKeepsCounted
     DEF StartResponse, Chunk, Deliver, DeliverFrame, relay, At, Go, TypeOK, Standing
<1>7. ASSUME NEW q \in Requests, EndOfBody(q) \/ Stop(q) PROVE Counted'
  BY <1>7, QuietKeepsCounted DEF EndOfBody, Stop, Finished, relay, At, Go, TypeOK, Standing
<1>8. ASSUME NEW q \in Requests, Background(q) PROVE Counted'
  BY <1>8, QuietKeepsCounted DEF Background, At, Go, TypeOK, Standing
<1>9. ASSUME NEW q \in Requests, HangUp(q) PROVE Counted'
  BY <1>9, QuietKeepsCounted DEF HangUp, Finished, At, Go, TypeOK, Standing
<1>10. ASSUME NEW q \in Requests, Released(q) PROVE Counted'
  BY <1>10, QuietKeepsCounted DEF Released, relay, At, Go, TypeOK, Standing
<1>11. ASSUME NEW q \in Requests, Work(q) PROVE Counted'
  <2>1. "timeout" \in Faults
    BY DEF Faults
  <2> QED
    BY <2>1, <1>11, <1>1, <1>2, <1>3, <1>4, <1>5, <1>6, <1>7, <1>8 DEF Work
<1> QED
  BY <1>0, <1>1, <1>6, <1>9, <1>10, <1>11 DEF Next

-----------------------------------------------------------------------------
\* The variables keep their types, in every reachable state: the attempts stay
\* within the one send and the reconnects of the settings.
THEOREM TransportTypes == Spec => []TypeOK
<1>1. Init => TypeOK /\ \A r \in Requests : Story(r)
  BY InitTypes DEF Init, Story, At, Silence
<1>2. TypeOK /\ (\A r \in Requests : Story(r)) /\ [Next]_vars
        => (TypeOK /\ \A r \in Requests : Story(r))'
  BY StepTypes, StepStory
<1> QED
  BY <1>1, <1>2, PTL DEF Spec

\* A stream cut short never reaches its caller as a complete one, whatever
\* breaks it and wherever the caller hangs up.
THEOREM TruncationAlwaysShows == Spec => []TruncationShows
<1>1. Init => TypeOK /\ \A r \in Requests : Story(r)
  BY InitTypes DEF Init, Story, At, Silence
<1>2. TypeOK /\ (\A r \in Requests : Story(r)) /\ [Next]_vars
        => (TypeOK /\ \A r \in Requests : Story(r))'
  BY StepTypes, StepStory
<1>3. (\A r \in Requests : Story(r)) => TruncationShows
  BY DEF Story, TruncationShows
<1> QED
  BY <1>1, <1>2, <1>3, PTL DEF Spec

\* No finished request leaves a connection of the pool behind it.
THEOREM NothingEverLeftOpen == Spec => []NothingLeftOpen
<1>1. Init => \A r \in Requests : Holding(r)
  BY DEF Init, Holding
<1>2. (\A r \in Requests : Holding(r)) => NothingLeftOpen
  BY DEF Holding, NothingLeftOpen, At
<1> QED
  BY <1>1, <1>2, StepHolding, TransportTypes, PTL DEF Spec

\* A request runs again at the provider only for a connection that dropped, and never
\* more often than there are attempts: no timeout, no broken response and no answered
\* send is repeated.  Nothing is assumed of what a dropped send did.
THEOREM OnlyDropsEverRunAgain == Spec => []OnlyDropsRunAgain
<1>1. Init => \A r \in Requests : Runs(r)
  BY DEF Init, Runs
<1>2. TypeOK /\ (\A r \in Requests : Runs(r)) => OnlyDropsRunAgain
  BY AttemptsAssumption DEF TypeOK, Runs, OnlyDropsRunAgain
<1> QED
  BY <1>1, <1>2, StepRuns, TransportTypes, PTL DEF Spec

\* ProxyMetrics tells the story of the requests: recoveries are counted once each,
\* each request without a response is a failure, each failure was told to its caller,
\* and a retry is exhausted at most once per request that spent all its attempts.
THEOREM CountersAlwaysAgree == Spec => []CountersAgree
<1>1. Init => (\A r \in Requests : Standing(r)) /\ Counted
  <2> SUFFICES ASSUME Init PROVE (\A r \in Requests : Standing(r)) /\ Counted
    OBVIOUS
  <2>1. Unanswered = {} /\ Recovered = {} /\ Spent = {}
    BY DEF Init, Unanswered, Recovered, Spent, At
  <2> QED
    BY <2>1, FS_EmptySet DEF Init, Standing, Counted
<1>2. (\A r \in Requests : Standing(r)) /\ Counted => CountersAgree
  <2> SUFFICES ASSUME \A r \in Requests : Standing(r), Counted PROVE CountersAgree
    OBVIOUS
  <2>1. IsFiniteSet(Told) /\ IsFiniteSet(Unanswered)
    BY FS_Subset, RequestsAssumption DEF Told, Unanswered
  <2>2. Unanswered \subseteq Told
    BY DEF Unanswered, Told, Standing, At
  <2>3. Cardinality(Unanswered) <= Cardinality(Told) /\ Cardinality(Unanswered) \in Nat
    BY <2>1, <2>2, FS_Subset, FS_CardinalityType
  <2> DEFINE Ended == {r \in Requests : At(r, "done")}
  <2>4. /\ Told = {r \in Ended : heard[r].status \in {"502", "504"}}
        /\ Unanswered = {r \in Ended : ~(upstream[r] # "none")}
    BY DEF Told, Unanswered
  <2>5. Spent = {r \in {q \in Ended : ~(upstream[q] # "none")} : attempt[r] = ReconnectAttempts + 1}
    BY <2>4 DEF Spent
  <2>6. Recovered = {r \in Requests : upstream[r] # "none" /\ attempt[r] > 1}
    BY DEF Recovered
  <2> QED
    BY <2>3, <2>4, <2>5, <2>6 DEF Counted, CountersAgree
<1> QED
  BY <1>1, <1>2, StepStanding, StepCounted, TransportTypes, PTL DEF Spec
=============================================================================
