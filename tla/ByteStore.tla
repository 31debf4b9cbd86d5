------------------------------ MODULE ByteStore ------------------------------
(***************************************************************************)
(* The contract of CacheBackend: a byte store that may forget, at any time *)
(* and anything, but never answers a key with what another key was given.  *)
(* "set" says whether the value was stored: if it says so, the value is    *)
(* there when set returns, whatever had to make room for it.               *)
(***************************************************************************)
CONSTANTS
  Callers, Keys, Values,
  Missing  \* what get returns for a miss, no value

VARIABLES
  held,     \* what the store holds under each key
  pending,  \* what each caller is doing, with which key and value
  answer    \* what its last call returned

bytes == <<held, pending, answer>>

Idle  == [doing |-> "idle"]
Calls == [doing : {"reading", "writing", "written", "removing"}, key : Keys,
          value : Values \cup {Missing}]

\* The store may have lost anything.
Forgets(before, after) == \A k \in Keys : after[k] \in {before[k], Missing}

Init ==
  /\ held = [k \in Keys |-> Missing]
  /\ pending = [c \in Callers |-> Idle]
  /\ answer = [c \in Callers |-> Missing]

Return(c, a) ==
  /\ pending' = [pending EXCEPT ![c] = Idle]
  /\ answer' = [answer EXCEPT ![c] = a]

Call(c) ==
  /\ pending[c] = Idle
  /\ pending'[c] \in Calls /\ pending'[c].doing # "written"
  /\ pending' = [pending EXCEPT ![c] = pending'[c]]
  /\ UNCHANGED <<held, answer>>

\* get: the value, or a miss for any reason.
Read(c) ==
  /\ pending[c] # Idle /\ pending[c].doing = "reading"
  /\ Forgets(held, held')
  /\ Return(c, held'[pending[c].key])

\* set, from the moment the value is there until it returns True.
Write(c) ==
  /\ pending[c] # Idle /\ pending[c].doing = "writing"
  /\ held' = [held EXCEPT ![pending[c].key] = pending[c].value]
  /\ pending' = [pending EXCEPT ![c].doing = "written"]
  /\ UNCHANGED answer

Written(c) ==
  /\ pending[c] # Idle /\ pending[c].doing = "written"
  /\ held[pending[c].key] = pending[c].value
  /\ Return(c, "stored")
  /\ UNCHANGED held

Refuse(c) ==
  /\ pending[c] = Idle
  /\ Return(c, "refused")
  /\ UNCHANGED held

\* delete and clear: gone when it returns.
Drop(c) ==
  /\ pending[c] # Idle /\ pending[c].doing = "removing"
  /\ Forgets(held, held') /\ held'[pending[c].key] = Missing
  /\ Return(c, Missing)

Forget ==
  /\ Forgets(held, held')
  /\ \A c \in Callers : pending[c] # Idle /\ pending[c].doing = "written" =>
       held'[pending[c].key] = held[pending[c].key]
  /\ UNCHANGED <<pending, answer>>

Next ==
  \/ \E c \in Callers :
       Call(c) \/ Read(c) \/ Write(c) \/ Written(c) \/ Refuse(c) \/ Drop(c)
  \/ Forget

Spec == Init /\ [][Next]_bytes
=============================================================================
