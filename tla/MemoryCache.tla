----------------------------- MODULE MemoryCache -----------------------------
(***************************************************************************)
(* InMemoryCacheBackend: an LRU byte cache under one lock, bounded in      *)
(* entries and in bytes.  The event loop and the worker threads call it.   *)
(*                                                                         *)
(* A call reads the clock before it takes the lock, so time may pass and   *)
(* other calls may run in between.  The critical section of a get, delete  *)
(* or clear is one step; that of a set is one step per iteration of the    *)
(* eviction loop, with the lock held throughout.                           *)
(***************************************************************************)
EXTENDS Integers, SequencesExt, FiniteSets

CONSTANTS
  Callers,     \* threads that may be inside the cache at once
  Keys,        \* digests
  Values,      \* serialized entries
  Size,        \* Size[v]: length of v in bytes
  MaxEntries, MaxBytes,
  Lifetimes,   \* ttl_seconds a store may be given; 0 stands for no expiry
  MaxClock     \* bound of the model: the last instant of time.monotonic()

Missing == "missing"
Free    == "free"
Never   == -1

ASSUME BudgetAssumption == MaxEntries \in Nat \ {0} /\ MaxBytes \in Nat \ {0}
ASSUME EntriesAssumption ==
  /\ IsFiniteSet(Keys) /\ Size \in [Values -> Nat] /\ Missing \notin Values
  /\ Free \notin Callers /\ Lifetimes \subseteq Nat /\ MaxClock \in Nat

VARIABLES
  clock,   \* time.monotonic()
  store,   \* _store: entries, the least recently used first
  used,    \* _bytes
  lock,    \* who holds _lock
  call,    \* what each caller is doing
  answer   \* what its last call returned

vars == <<clock, store, used, lock, call, answer>>

Idle      == [op |-> "idle"]
Doing(op) == {c \in Callers : call[c].op = op}

Entries(k)      == {i \in DOMAIN store : store[i].key = k}
Found(k)        == CHOOSE i \in Entries(k) : TRUE
Expired(x, now) == x.expires # Never /\ x.expires <= now

\* _discard: _store.pop(key, None) and the subtraction that goes with it.
Without(k)   == IF Entries(k) = {} THEN store ELSE RemoveAt(store, Found(k))
Remaining(k) == IF Entries(k) = {} THEN used ELSE used - Size[store[Found(k)].value]

Init ==
  /\ clock = 0 /\ store = <<>> /\ used = 0 /\ lock = Free
  /\ call = [c \in Callers |-> Idle]
  /\ answer = [c \in Callers |-> Missing]

Return(c, a) ==
  /\ call' = [call EXCEPT ![c] = Idle]
  /\ answer' = [answer EXCEPT ![c] = a]

-----------------------------------------------------------------------------
(* Outside the lock.                                                       *)

Enter(c, op, k, v, time) ==
  /\ call[c] = Idle
  /\ call' = [call EXCEPT ![c] = [op |-> op, key |-> k, value |-> v, time |-> time]]
  /\ UNCHANGED <<clock, store, used, lock, answer>>

CallGet(c, k)    == Enter(c, "get", k, Missing, clock)
CallDelete(c, k) == Enter(c, "delete", k, Missing, 0)
CallClear(c, k)  == Enter(c, "clear", k, Missing, 0)

CallSet(c, k, v, ttl) ==
  /\ Size[v] <= MaxBytes
  /\ Enter(c, "set", k, v, IF ttl = 0 THEN Never ELSE clock + ttl)

RefuseSet(c, v) ==
  /\ call[c] = Idle /\ Size[v] > MaxBytes
  /\ Return(c, "refused")
  /\ UNCHANGED <<clock, store, used, lock>>

Tick == clock < MaxClock /\ clock' = clock + 1 /\ UNCHANGED <<store, used, lock, call, answer>>

-----------------------------------------------------------------------------
(* Under the lock.                                                         *)

\* A miss; an expired entry, discarded; or a hit, moved to the recent end.
Get(c) ==
  LET k == call[c].key
      live == {i \in Entries(k) : ~Expired(store[i], call[c].time)}
  IN
  /\ c \in Doing("get") /\ lock = Free
  /\ IF live = {}
     THEN store' = Without(k) /\ used' = Remaining(k) /\ Return(c, Missing)
     ELSE \E i \in live :
            /\ store' = Append(Without(k), store[i]) /\ Return(c, store[i].value)
            /\ UNCHANGED used
  /\ UNCHANGED <<clock, lock>>

Delete(c) ==
  /\ c \in Doing("delete") /\ lock = Free
  /\ store' = Without(call[c].key) /\ used' = Remaining(call[c].key)
  /\ Return(c, Missing)
  /\ UNCHANGED <<clock, lock>>

Clear(c) ==
  /\ c \in Doing("clear") /\ lock = Free
  /\ store' = <<>> /\ used' = 0 /\ Return(c, Missing)
  /\ UNCHANGED <<clock, lock>>

\* Mutant: an entry that replaces another is counted on top of it.
InsertUndiscounted(c) ==
  /\ c \in Doing("set") /\ lock = Free /\ lock' = c
  /\ store' = Append(Without(call[c].key),
                     [key |-> call[c].key, value |-> call[c].value, expires |-> call[c].time])
  /\ used' = used + Size[call[c].value]
  /\ UNCHANGED <<clock, call, answer>>

\* The entry goes in, replacing one of the same key; the lock stays taken.
Insert(c) ==
  /\ c \in Doing("set") /\ lock = Free /\ lock' = c
  /\ store' = Append(Without(call[c].key),
                     [key |-> call[c].key, value |-> call[c].value, expires |-> call[c].time])
  /\ used' = Remaining(call[c].key) + Size[call[c].value]
  /\ UNCHANGED <<clock, call, answer>>

\* Mutant: a full cache counts as over its budget.
OverWhenFull == store # <<>> /\ (Len(store) >= MaxEntries \/ used > MaxBytes)

Over == store # <<>> /\ (Len(store) > MaxEntries \/ used > MaxBytes)

\* Mutant: popitem() takes the newest entry.
EvictNewest(c) ==
  /\ lock = c /\ Over
  /\ store' = Front(store) /\ used' = used - Size[Last(store).value]
  /\ UNCHANGED <<clock, lock, call, answer>>

\* One iteration of _evict_to_fit.
EvictOldest(c) ==
  /\ lock = c /\ Over
  /\ store' = Tail(store) /\ used' = used - Size[Head(store).value]
  /\ UNCHANGED <<clock, lock, call, answer>>

\* The loop is done: set releases the lock and returns True.
Stored(c) ==
  /\ lock = c /\ ~Over
  /\ lock' = Free /\ Return(c, "stored")
  /\ UNCHANGED <<clock, store, used>>

Serve(c) == Get(c) \/ Delete(c) \/ Clear(c) \/ Insert(c) \/ EvictOldest(c) \/ Stored(c)

Next ==
  \/ \E c \in Callers :
       \/ \E k \in Keys : CallGet(c, k) \/ CallDelete(c, k) \/ CallClear(c, k)
       \/ \E k \in Keys, v \in Values, ttl \in Lifetimes : CallSet(c, k, v, ttl)
       \/ \E v \in Values : RefuseSet(c, v)
       \/ Serve(c)
  \/ Tick

Spec == Init /\ [][Next]_vars

-----------------------------------------------------------------------------
(* Properties.                                                             *)

\* What a reader of the key would find, were the clock to stand still; and its bytes.
Held(k) == IF Entries(k) = {} THEN Missing ELSE store[Found(k)].value
Weight  == [k \in Keys |-> IF Held(k) = Missing THEN 0 ELSE Size[Held(k)]]
Total   == SumFunctionOnSet(Weight, Keys)

\* Bounded on two axes: with the lock free, the cache holds at most its number
\* of entries and of bytes.  The byte counter that bounds it is the size of what is
\* stored, through replacement, expiry, eviction and deletion, and a key is stored once.
WithinBudget ==
  /\ lock = Free => Len(store) <= MaxEntries /\ Total <= MaxBytes
  /\ used = Total
  /\ \A k \in Keys : Cardinality(Entries(k)) <= 1

\* A set evicts only what has to go: when the loop pops an entry, the cache with
\* that entry still in it would break one of the two bounds.
NoNeedlessEviction ==
  [][\A c \in Callers : lock = c /\ Len(store') < Len(store) =>
       Len(store) > MaxEntries \/ Total > MaxBytes]_vars

\* The cache as a byte store: what it holds, and what its callers are doing.
Holding == [k \in Keys |-> Held(k)]
Pending == [c \in Callers |->
  IF call[c] = Idle THEN [doing |-> "idle"]
  ELSE [doing |-> CASE lock = c -> "written"
                    [] lock # c /\ c \in Doing("get") -> "reading"
                    [] lock # c /\ c \in Doing("set") -> "writing"
                    [] OTHER -> "removing",
        key |-> call[c].key, value |-> call[c].value]]

Contract == INSTANCE ByteStore WITH held <- Holding, pending <- Pending

\* The contract of CacheBackend: no key is answered with another's value, and a
\* set that returns True has stored its value, whatever it had to evict.
StoresAsByteStore == Contract!Spec
=============================================================================
