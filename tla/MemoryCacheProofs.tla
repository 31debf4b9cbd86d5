--------------------------- MODULE MemoryCacheProofs -------------------------
(***************************************************************************)
(* Proofs about MemoryCache, for any callers, keys, values and budgets:    *)
(* the byte counter is what the entries weigh, the budgets hold whenever   *)
(* the lock is free, and the cache implements the contract ByteStore.      *)
(***************************************************************************)
EXTENDS MemoryCache, Sums

-----------------------------------------------------------------------------
(* What a sequence of entries shows under each key, and what that weighs.   *)

Records == [key : Keys, value : Values, expires : Int]
Contents == [Keys -> Values \cup {Missing}]

Spots(s, k) == {i \in DOMAIN s : s[i].key = k}
Shown(s)    == [k \in Keys |-> IF Spots(s, k) = {} THEN Missing
                               ELSE s[CHOOSE i \in Spots(s, k) : TRUE].value]
Unique(s)   == \A i, j \in DOMAIN s : s[i].key = s[j].key => i = j

Heavy(v)  == IF v = Missing THEN 0 ELSE Size[v]
Weighs(h) == SumFunctionOnSet([k \in Keys |-> Heavy(h[k])], Keys)

LEMMA ShownIsHeld ==
  /\ Holding = Shown(store) /\ Holding' = Shown(store')
  /\ Total = Weighs(Shown(store)) /\ Total' = Weighs(Shown(store'))
<1>1. Holding = Shown(store) /\ Holding' = Shown(store')
  BY DEF Holding, Held, Entries, Found, Shown, Spots
<1>2. Weight = [k \in Keys |-> Heavy(Shown(store)[k])]
  BY DEF Weight, Heavy, Held, Entries, Found, Shown, Spots
<1>3. Weight' = [k \in Keys |-> Heavy(Shown(store')[k])]
  BY DEF Weight, Heavy, Held, Entries, Found, Shown, Spots
<1> QED BY <1>1, <1>2, <1>3 DEF Total, Weighs

\* What is shown under a key is the value of its entry, if there is one.
LEMMA Looks ==
  ASSUME NEW s \in Seq(Records), Unique(s)
  PROVE  /\ Shown(s) \in Contents
         /\ \A i \in 1..Len(s) : s[i].key \in Keys /\ Shown(s)[s[i].key] = s[i].value
         /\ \A i \in 1..Len(s) : s[i].value \in Values /\ Size[s[i].value] \in Nat
         /\ \A k \in Keys : (\A i \in 1..Len(s) : s[i].key # k) => Shown(s)[k] = Missing
<1>1. DOMAIN s = 1..Len(s) /\ \A i \in 1..Len(s) : s[i] \in Records
  OBVIOUS
<1>2. ASSUME NEW k \in Keys, Spots(s, k) # {}
      PROVE  \E i \in 1..Len(s) : s[i].key = k /\ Shown(s)[k] = s[i].value
  BY <1>1, <1>2 DEF Shown, Spots
<1>3. ASSUME NEW k \in Keys, Spots(s, k) = {}
      PROVE  Shown(s)[k] = Missing
  BY <1>3 DEF Shown
<1>4. ASSUME NEW i \in 1..Len(s)
      PROVE  s[i].key \in Keys /\ Shown(s)[s[i].key] = s[i].value
  <2>1. s[i].key \in Keys /\ i \in Spots(s, s[i].key)
    BY <1>1 DEF Records, Spots
  <2> QED BY <1>1, <1>2, <2>1 DEF Unique
<1>5. \A k \in Keys : Shown(s)[k] \in Values \cup {Missing}
  BY <1>1, <1>2, <1>3 DEF Records
<1>6. \A k \in Keys : (\A i \in 1..Len(s) : s[i].key # k) => Shown(s)[k] = Missing
  BY <1>1, <1>3 DEF Spots
<1>7. Shown(s) \in Contents
  BY <1>5 DEF Contents, Shown
<1>8. \A i \in 1..Len(s) : s[i].value \in Values /\ Size[s[i].value] \in Nat
  BY <1>1, EntriesAssumption DEF Records
<1> QED BY <1>4, <1>6, <1>7, <1>8

\* Two contents are the same when they agree under every key.
LEMMA SameContents ==
  ASSUME NEW g \in Contents, NEW h \in Contents, \A k \in Keys : g[k] = h[k]
  PROVE  g = h
BY DEF Contents

\* An entry taken out.
LEMMA TakenOut ==
  ASSUME NEW s \in Seq(Records), Unique(s), NEW at \in 1..Len(s)
  PROVE  /\ RemoveAt(s, at) \in Seq(Records) /\ Unique(RemoveAt(s, at))
         /\ Len(RemoveAt(s, at)) = Len(s) - 1
         /\ \A i \in 1..Len(s) - 1 :
              /\ RemoveAt(s, at)[i] = IF i < at THEN s[i] ELSE s[i + 1]
              /\ RemoveAt(s, at)[i].key # s[at].key
         /\ Shown(RemoveAt(s, at)) = [Shown(s) EXCEPT ![s[at].key] = Missing]
<1> DEFINE t == RemoveAt(s, at)
           front == SubSeq(s, 1, at - 1)
           back == SubSeq(s, at + 1, Len(s))
<1>1. /\ front \in Seq(Records) /\ Len(front) = at - 1 /\ \A i \in 1..at - 1 : front[i] = s[i]
      /\ back \in Seq(Records) /\ Len(back) = Len(s) - at /\ \A i \in 1..Len(s) - at : back[i] = s[at + i]
  OBVIOUS
<1>2. t = front \o back
  BY DEF RemoveAt
<1> HIDE DEF t, front, back
<1>3. t \in Seq(Records) /\ Len(t) = Len(s) - 1 /\ DOMAIN t = 1..Len(s) - 1
  BY <1>1, <1>2
<1>4. ASSUME NEW i \in 1..Len(s) - 1
      PROVE  t[i] = IF i < at THEN s[i] ELSE s[i + 1]
  <2>1. CASE i < at
    BY <1>1, <1>2, <2>1
  <2>2. CASE i >= at
    <3>1. t[i] = back[i - (at - 1)] /\ i - (at - 1) \in 1..Len(s) - at
      BY <1>1, <1>2, <2>2
    <3> QED BY <1>1, <2>2, <3>1
  <2> QED BY <2>1, <2>2
<1>5. Unique(t)
  <2> SUFFICES ASSUME NEW i \in 1..Len(s) - 1, NEW j \in 1..Len(s) - 1, t[i].key = t[j].key
               PROVE  i = j
    BY <1>3 DEF Unique
  <2> QED BY <1>4 DEF Unique
<1>6. \A i \in 1..Len(s) - 1 : t[i].key # s[at].key
  BY <1>4 DEF Unique
<1>7. /\ Shown(t) \in Contents
      /\ \A i \in 1..Len(t) : t[i].key \in Keys /\ Shown(t)[t[i].key] = t[i].value
      /\ \A k \in Keys : (\A i \in 1..Len(t) : t[i].key # k) => Shown(t)[k] = Missing
  BY <1>3, <1>5, Looks
<1>8. /\ Shown(s) \in Contents
      /\ \A i \in 1..Len(s) : s[i].key \in Keys /\ Shown(s)[s[i].key] = s[i].value
      /\ \A k \in Keys : (\A i \in 1..Len(s) : s[i].key # k) => Shown(s)[k] = Missing
  BY Looks
<1>9. [Shown(s) EXCEPT ![s[at].key] = Missing] \in Contents
  BY <1>8 DEF Contents
<1>10. ASSUME NEW k \in Keys
       PROVE  Shown(t)[k] = [Shown(s) EXCEPT ![s[at].key] = Missing][k]
  <2>1. CASE k = s[at].key
    BY <1>3, <1>6, <1>7, <1>8, <2>1 DEF Contents
  <2>2. CASE k # s[at].key
    <3>1. [Shown(s) EXCEPT ![s[at].key] = Missing][k] = Shown(s)[k]
      BY <1>8, <2>2 DEF Contents
    <3>2. ASSUME NEW j \in 1..Len(s), s[j].key = k
          PROVE  Shown(t)[k] = Shown(s)[k]
      <4>1. j # at
        BY <2>2, <3>2
      <4>2. PICK i \in 1..Len(s) - 1 : t[i] = s[j]
        <5>1. CASE j < at
          BY <1>4, <5>1
        <5>2. CASE j > at
          <6>1. j - 1 \in 1..Len(s) - 1 /\ ~(j - 1 < at) /\ (j - 1) + 1 = j
            BY <5>2
          <6> QED BY <1>4, <6>1
        <5> QED BY <4>1, <5>1, <5>2
      <4>3. i \in 1..Len(t) /\ t[i] = s[j]
        BY <1>3, <4>2
      <4>4. Shown(t)[k] = s[j].value
        BY <1>7, <3>2, <4>3
      <4>5. Shown(s)[k] = s[j].value
        BY <1>8, <3>2
      <4> QED BY <4>4, <4>5
    <3>3. ASSUME \A j \in 1..Len(s) : s[j].key # k
          PROVE  Shown(t)[k] = Shown(s)[k]
      <4>1. \A i \in 1..Len(t) : t[i].key # k
        BY <1>3, <1>4, <3>3
      <4> QED BY <1>7, <1>8, <3>3, <4>1
    <3> QED BY <3>1, <3>2, <3>3
  <2> QED BY <2>1, <2>2
<1>11. Shown(t) = [Shown(s) EXCEPT ![s[at].key] = Missing]
  BY <1>7, <1>9, <1>10, SameContents
<1> QED BY <1>3, <1>4, <1>5, <1>6, <1>11 DEF t

\* An entry put in.
LEMMA PutIn ==
  ASSUME NEW s \in Seq(Records), Unique(s), NEW x \in Records,
         \A i \in 1..Len(s) : s[i].key # x.key
  PROVE  /\ Append(s, x) \in Seq(Records) /\ Unique(Append(s, x))
         /\ Len(Append(s, x)) = Len(s) + 1 /\ Append(s, x)[Len(s) + 1] = x
         /\ Shown(Append(s, x)) = [Shown(s) EXCEPT ![x.key] = x.value]
<1> DEFINE t == Append(s, x)
<1>1. /\ t \in Seq(Records) /\ Len(t) = Len(s) + 1 /\ DOMAIN t = 1..Len(s) + 1
      /\ \A i \in 1..Len(s) : t[i] = s[i] /\ t[Len(s) + 1] = x
      /\ t[Len(s) + 1] = x
  OBVIOUS
<1> HIDE DEF t
<1>2. Unique(t)
  BY <1>1 DEF Unique
<1>3. /\ Shown(t) \in Contents
      /\ \A i \in 1..Len(t) : t[i].key \in Keys /\ Shown(t)[t[i].key] = t[i].value
      /\ \A k \in Keys : (\A i \in 1..Len(t) : t[i].key # k) => Shown(t)[k] = Missing
  BY <1>1, <1>2, Looks
<1>4. /\ Shown(s) \in Contents
      /\ \A i \in 1..Len(s) : s[i].key \in Keys /\ Shown(s)[s[i].key] = s[i].value
      /\ \A k \in Keys : (\A i \in 1..Len(s) : s[i].key # k) => Shown(s)[k] = Missing
  BY Looks
<1>5. x.key \in Keys /\ x.value \in Values
  BY DEF Records
<1>6. [Shown(s) EXCEPT ![x.key] = x.value] \in Contents
  BY <1>4, <1>5 DEF Contents
<1>7. ASSUME NEW k \in Keys
      PROVE  Shown(t)[k] = [Shown(s) EXCEPT ![x.key] = x.value][k]
  <2>1. CASE k = x.key
    <3>1. Shown(t)[x.key] = x.value
      BY <1>1, <1>3
    <3> QED BY <1>4, <2>1, <3>1 DEF Contents
  <2>2. CASE k # x.key
    <3>1. [Shown(s) EXCEPT ![x.key] = x.value][k] = Shown(s)[k]
      BY <1>4, <2>2 DEF Contents
    <3>2. ASSUME NEW j \in 1..Len(s), s[j].key = k
          PROVE  Shown(t)[k] = Shown(s)[k]
      BY <1>1, <1>3, <1>4, <3>2
    <3>3. ASSUME \A j \in 1..Len(s) : s[j].key # k
          PROVE  Shown(t)[k] = Shown(s)[k]
      <4>1. \A i \in 1..Len(t) : t[i].key # k
        BY <1>1, <2>2, <3>3
      <4> QED BY <1>3, <1>4, <3>3, <4>1
    <3> QED BY <3>1, <3>2, <3>3
  <2> QED BY <2>1, <2>2
<1>8. Shown(t) = [Shown(s) EXCEPT ![x.key] = x.value]
  BY <1>3, <1>6, <1>7, SameContents
<1> QED BY <1>1, <1>2, <1>8 DEF t

\* One key's value changed.
LEMMA WeighsChange ==
  ASSUME NEW h \in Contents, NEW k \in Keys, NEW v \in Values \cup {Missing}
  PROVE  /\ Weighs([h EXCEPT ![k] = v]) = Weighs(h) + (Heavy(v) - Heavy(h[k]))
         /\ Weighs(h) \in Int /\ Heavy(v) \in Nat /\ Heavy(h[k]) \in Nat
<1> DEFINE g == [h EXCEPT ![k] = v]
           before == [q \in Keys |-> Heavy(h[q])]
           after == [q \in Keys |-> Heavy(g[q])]
<1>1. \A w \in Values \cup {Missing} : Heavy(w) \in Nat
  BY EntriesAssumption DEF Heavy
<1>2. /\ \A q \in Keys : h[q] \in Values \cup {Missing} /\ g[q] \in Values \cup {Missing}
      /\ g[k] = v /\ \A q \in Keys : q # k => g[q] = h[q]
  BY DEF Contents
<1> HIDE DEF g
<1>3. /\ \A q \in Keys : after[q] \in Int /\ before[q] \in Int
      /\ \A q \in Keys : q # k => after[q] = before[q]
      /\ after[k] = Heavy(v) /\ before[k] = Heavy(h[k])
  BY <1>1, <1>2
<1>4. Weighs(g) = SumFunctionOnSet(after, Keys) /\ Weighs(h) = SumFunctionOnSet(before, Keys)
  BY DEF Weighs
<1> HIDE DEF before, after
<1>5. SumFunctionOnSet(after, Keys) = SumFunctionOnSet(before, Keys) + (after[k] - before[k])
  BY <1>3, SumChange, EntriesAssumption
<1>6. SumFunctionOnSet(before, Keys) \in Int
  BY <1>3, SumType, EntriesAssumption
<1> QED BY <1>1, <1>2, <1>3, <1>4, <1>5, <1>6 DEF g

\* Nothing weighs nothing.
LEMMA WeighsNothing ==
  ASSUME NEW s, s = <<>>
  PROVE  /\ s \in Seq(Records) /\ Unique(s)
         /\ Shown(s) \in Contents /\ Weighs(Shown(s)) = 0 /\ \A k \in Keys : Shown(s)[k] = Missing
<1> DEFINE none == [k \in Keys |-> Heavy(Shown(s)[k])]
<1>1. s \in Seq(Records) /\ Unique(s) /\ Len(s) = 0
  BY DEF Unique
<1>2. Shown(s) \in Contents /\ \A k \in Keys : Shown(s)[k] = Missing
  <2>1. \A i \in 1..Len(s) : FALSE
    BY <1>1
  <2> QED BY ONLY <1>1, <2>1, Looks
<1>3. \A k \in Keys : none[k] = 0
  BY <1>2 DEF Heavy
<1>4. Weighs(Shown(s)) = SumFunctionOnSet(none, Keys)
  BY DEF Weighs
<1> HIDE DEF none
<1> QED BY <1>1, <1>2, <1>3, <1>4, SumOfZeros, EntriesAssumption

-----------------------------------------------------------------------------
(* The inductive invariant.                                                *)

Calls == [op : {"get", "set", "delete", "clear"}, key : Keys,
          value : Values \cup {Missing}, time : Int]

TypeOK ==
  /\ clock \in Nat /\ store \in Seq(Records) /\ used \in Int
  /\ lock \in Callers \cup {Free}
  /\ call \in [Callers -> {Idle} \cup Calls]
  /\ answer \in [Callers -> Values \cup {Missing, "stored", "refused"}]

\* A set got past the check of its size.
Admitted == \A c \in Callers : call[c].op = "set" =>
  call[c].value \in Values /\ Size[call[c].value] <= MaxBytes

\* While set holds the lock, what it stored is the most recent entry.
Inserted == lock # Free =>
  /\ call[lock].op = "set" /\ store # <<>>
  /\ store[Len(store)].key = call[lock].key /\ store[Len(store)].value = call[lock].value

Bounded == lock = Free => Len(store) <= MaxEntries /\ used <= MaxBytes

IInv == TypeOK /\ Unique(store) /\ used = Total /\ Admitted /\ Inserted /\ Bounded

\* _discard: the entry goes, and its bytes with it.
LEMMA Discards ==
  ASSUME IInv, NEW k \in Keys
  PROVE  /\ Without(k) \in Seq(Records) /\ Unique(Without(k))
         /\ Len(Without(k)) <= Len(store)
         /\ Entries(k) # {} => Len(Without(k)) = Len(store) - 1
         /\ \A i \in 1..Len(Without(k)) : Without(k)[i].key # k
         /\ Shown(Without(k)) = [Shown(store) EXCEPT ![k] = Missing]
         /\ Remaining(k) = Weighs(Shown(Without(k))) /\ Remaining(k) \in Int /\ Remaining(k) <= used
<1>1. /\ store \in Seq(Records) /\ Unique(store) /\ Len(store) \in Nat /\ DOMAIN store = 1..Len(store)
      /\ used = Weighs(Shown(store))
  BY ShownIsHeld DEF IInv, TypeOK
<1>2. /\ Shown(store) \in Contents
      /\ \A i \in 1..Len(store) : /\ store[i].key \in Keys /\ store[i].value \in Values
                                  /\ Shown(store)[store[i].key] = store[i].value
      /\ \A q \in Keys : (\A i \in 1..Len(store) : store[i].key # q) => Shown(store)[q] = Missing
  BY <1>1, Looks
<1>3. /\ Weighs([Shown(store) EXCEPT ![k] = Missing]) = used + (Heavy(Missing) - Heavy(Shown(store)[k]))
      /\ used \in Int /\ Heavy(Missing) = 0 /\ Heavy(Shown(store)[k]) \in Nat
  BY <1>1, <1>2, WeighsChange DEF Heavy
<1>4. CASE Entries(k) = {}
  <2>1. Without(k) = store /\ Remaining(k) = used
    BY <1>4 DEF Without, Remaining
  <2>2. \A i \in 1..Len(store) : store[i].key # k
    BY <1>1, <1>4 DEF Entries
  <2>3. Shown(store) = [Shown(store) EXCEPT ![k] = Missing]
    BY <1>2, <2>2 DEF Contents
  <2> QED BY <1>1, <1>3, <1>4, <2>1, <2>2, <2>3
<1>5. CASE Entries(k) # {}
  <2> DEFINE at == Found(k)
  <2>1. at \in 1..Len(store) /\ store[at].key = k
    BY <1>1, <1>5 DEF Found, Entries
  <2>2. Without(k) = RemoveAt(store, at) /\ Remaining(k) = used - Size[store[at].value]
    BY <1>5 DEF Without, Remaining
  <2> HIDE DEF at
  <2>3. /\ Without(k) \in Seq(Records) /\ Unique(Without(k)) /\ Len(Without(k)) = Len(store) - 1
        /\ \A i \in 1..Len(store) - 1 : Without(k)[i].key # k
        /\ Shown(Without(k)) = [Shown(store) EXCEPT ![k] = Missing]
    <3>1. /\ RemoveAt(store, at) \in Seq(Records) /\ Unique(RemoveAt(store, at))
          /\ Len(RemoveAt(store, at)) = Len(store) - 1
          /\ \A i \in 1..Len(store) - 1 :
               /\ RemoveAt(store, at)[i] = IF i < at THEN store[i] ELSE store[i + 1]
               /\ RemoveAt(store, at)[i].key # store[at].key
          /\ Shown(RemoveAt(store, at)) = [Shown(store) EXCEPT ![store[at].key] = Missing]
      BY ONLY <1>1, <2>1, TakenOut, Zenon
    <3> QED BY <2>1, <2>2, <3>1
  <2>4. store[at].value \in Values /\ Shown(store)[k] = store[at].value
    BY ONLY <1>2, <2>1
  <2>5. Heavy(Shown(store)[k]) = Size[store[at].value]
    BY <2>4, EntriesAssumption DEF Heavy
  <2> QED BY <1>1, <1>3, <2>2, <2>3, <2>5
<1> QED BY <1>4, <1>5

\* An entry goes in at the recent end, in the place of one of the same key.
LEMMA Replaces ==
  ASSUME IInv, NEW x \in Records, store' = Append(Without(x.key), x)
  PROVE  /\ store' \in Seq(Records) /\ Unique(store')
         /\ Len(store') = Len(Without(x.key)) + 1 /\ store'[Len(store')] = x
         /\ Shown(store') = [Shown(store) EXCEPT ![x.key] = x.value]
         /\ Weighs(Shown(store')) = Remaining(x.key) + Size[x.value]
<1>1. x.key \in Keys /\ x.value \in Values /\ Heavy(x.value) = Size[x.value]
  BY EntriesAssumption DEF Records, Heavy
<1> DEFINE k == x.key
           s == Without(k)
<1>2. /\ s \in Seq(Records) /\ Unique(s) /\ \A i \in 1..Len(s) : s[i].key # k
      /\ Shown(s) = [Shown(store) EXCEPT ![k] = Missing]
      /\ Remaining(k) = Weighs(Shown(s))
  BY <1>1, Discards
<1> HIDE DEF s
<1>3. /\ store' \in Seq(Records) /\ Unique(store') /\ Len(store') = Len(s) + 1
      /\ store'[Len(s) + 1] = x /\ Shown(store') = [Shown(s) EXCEPT ![k] = x.value]
  BY <1>2, PutIn DEF s
<1>4. Shown(store) \in Contents /\ Shown(s) \in Contents
  BY <1>2, Looks DEF IInv, TypeOK
<1>5. Shown(store') = [Shown(store) EXCEPT ![k] = x.value]
  BY <1>2, <1>3, <1>4 DEF Contents
<1>6. Shown(s)[k] = Missing
  BY <1>1, <1>2, <1>4 DEF Contents
<1>7. Weighs(Shown(store')) = Weighs(Shown(s)) + (Heavy(x.value) - Heavy(Shown(s)[k])) /\ Weighs(Shown(s)) \in Int
      /\ Heavy(x.value) \in Nat
  BY <1>1, <1>3, <1>4, WeighsChange
<1>8. Weighs(Shown(store')) = Remaining(k) + Size[x.value]
  BY <1>1, <1>2, <1>6, <1>7 DEF Heavy
<1> QED BY <1>3, <1>5, <1>8 DEF s

\* popitem(last=False): the loop stops before it would take what set just stored.
LEMMA Evicts ==
  ASSUME IInv, NEW c \in Callers, EvictOldest(c)
  PROVE  /\ Len(store) >= 2 /\ store' \in Seq(Records) /\ Unique(store')
         /\ Len(store') = Len(store) - 1 /\ store'[Len(store')] = store[Len(store)]
         /\ store[1].key \in Keys /\ store[1].key # call[c].key
         /\ Shown(store') = [Shown(store) EXCEPT ![store[1].key] = Missing]
         /\ used' = Weighs(Shown(store')) /\ used' \in Int
<1>1. /\ lock = c /\ lock # Free /\ Over /\ store' = Tail(store) /\ used' = used - Size[Head(store).value]
  BY EntriesAssumption DEF EvictOldest
<1>2. /\ store \in Seq(Records) /\ Unique(store) /\ store # <<>>
      /\ Len(store) \in Nat /\ Len(store) # 0
      /\ used = Weighs(Shown(store)) /\ used \in Int
      /\ store[Len(store)].key = call[c].key /\ store[Len(store)].value = call[c].value
      /\ call[c].op = "set"
  BY <1>1, ShownIsHeld DEF IInv, TypeOK, Inserted
<1>3. /\ Shown(store) \in Contents
      /\ \A i \in 1..Len(store) : /\ store[i].key \in Keys /\ store[i].value \in Values
                                  /\ Size[store[i].value] \in Nat
                                  /\ Shown(store)[store[i].key] = store[i].value
  BY ONLY <1>2, Looks
<1>4. Tail(store) = RemoveAt(store, 1) /\ 1 \in 1..Len(store)
  <2>1. SubSeq(store, 1, 0) = <<>> /\ SubSeq(store, 2, Len(store)) = Tail(store)
    BY <1>2
  <2>2. <<>> \o Tail(store) = Tail(store)
    BY <1>2
  <2> QED BY <1>2, <2>1, <2>2 DEF RemoveAt
<1>5. /\ store' \in Seq(Records) /\ Unique(store') /\ Len(store') = Len(store) - 1
      /\ Shown(store') = [Shown(store) EXCEPT ![store[1].key] = Missing]
      /\ \A i \in 1..Len(store) - 1 : store'[i] = store[i + 1]
  <2>1. /\ RemoveAt(store, 1) \in Seq(Records) /\ Unique(RemoveAt(store, 1))
        /\ Len(RemoveAt(store, 1)) = Len(store) - 1
        /\ \A i \in 1..Len(store) - 1 :
             /\ RemoveAt(store, 1)[i] = IF i < 1 THEN store[i] ELSE store[i + 1]
             /\ RemoveAt(store, 1)[i].key # store[1].key
        /\ Shown(RemoveAt(store, 1)) = [Shown(store) EXCEPT ![store[1].key] = Missing]
    BY ONLY <1>2, <1>4, TakenOut, Zenon
  <2>2. store' = RemoveAt(store, 1)
    BY <1>1, <1>4
  <2>3. \A i \in 1..Len(store) - 1 : ~(i < 1)
    OBVIOUS
  <2> QED BY ONLY <2>1, <2>2, <2>3
<1>6. store[1].value \in Values /\ Size[store[1].value] \in Nat /\ Head(store) = store[1]
  BY <1>2, <1>3, <1>4
<1>7. Shown(store)[store[1].key] = store[1].value /\ store[1].key \in Keys
  BY <1>3, <1>4
<1>8. /\ Weighs(Shown(store')) = used + (Heavy(Missing) - Heavy(store[1].value))
      /\ Heavy(Missing) = 0 /\ Heavy(store[1].value) = Size[store[1].value]
  <2>1. Heavy(Missing) = 0 /\ Heavy(store[1].value) = Size[store[1].value]
    BY <1>6, EntriesAssumption DEF Heavy
  <2>2. Weighs([Shown(store) EXCEPT ![store[1].key] = Missing])
          = Weighs(Shown(store)) + (Heavy(Missing) - Heavy(Shown(store)[store[1].key]))
    BY ONLY <1>3, <1>7, WeighsChange
  <2> QED BY <1>2, <1>5, <1>7, <2>1, <2>2
<1>9. used' = Weighs(Shown(store')) /\ used' \in Int
  BY <1>1, <1>2, <1>6, <1>8
<1>10. Len(store) >= 2
  <2>1. ASSUME Len(store) = 1
        PROVE  FALSE
    <3>1. store' = <<>>
      BY ONLY <1>5, <2>1
    <3>2. Weighs(Shown(store')) = 0
      BY <3>1, WeighsNothing
    <3>3. used = Size[store[1].value]
      BY <1>1, <1>2, <1>6, <1>9, <3>2
    <3>4. Size[store[1].value] <= MaxBytes
      <4>1. Size[call[c].value] <= MaxBytes
        BY <1>2 DEF IInv, Admitted
      <4> QED BY <1>2, <2>1, <4>1
    <3> QED BY <1>1, <1>6, <2>1, <3>3, <3>4, BudgetAssumption DEF Over
  <2>2. Len(store) \in Nat /\ Len(store) # 0 /\ Len(store) # 1
    BY <1>2, <2>1
  <2>3. \A n \in Nat : n # 0 /\ n # 1 => n >= 2
    OBVIOUS
  <2> QED BY <2>2, <2>3, Zenon
<1>11. store[1].key # call[c].key /\ store'[Len(store')] = store[Len(store)]
  BY <1>2, <1>5, <1>10 DEF Unique
<1> QED BY <1>5, <1>7, <1>9, <1>10, <1>11

LEMMA InitInvariant == Init => IInv
<1> SUFFICES ASSUME Init PROVE IInv
  OBVIOUS
<1>1. Weighs(Shown(store)) = 0 /\ Unique(store)
  BY WeighsNothing DEF Init
<1>2. TypeOK
  BY DEF Init, TypeOK
<1>3. used = Total
  BY <1>1, ShownIsHeld DEF Init
<1>4. Admitted /\ Inserted /\ Bounded
  BY BudgetAssumption DEF Init, Admitted, Inserted, Bounded, Idle
<1> QED BY <1>1, <1>2, <1>3, <1>4 DEF IInv

\* A caller that is inside has said what it wants.
LEMMA Inside ==
  ASSUME TypeOK, NEW c \in Callers, call[c] # Idle
  PROVE  call[c] \in Calls
BY DEF TypeOK

\* Entries come and go under the lock alone.
LEMMA OutsideKeeps ==
  ASSUME IInv, NEW c \in Callers, UNCHANGED <<store, used, lock>>, clock' \in Nat,
         NEW req \in {Idle} \cup Calls, call[c] = Idle, call' = [call EXCEPT ![c] = req],
         req.op = "set" => req.value \in Values /\ Size[req.value] <= MaxBytes,
         answer' \in [Callers -> Values \cup {Missing, "stored", "refused"}]
  PROVE  IInv'
<1>1. TypeOK'
  BY DEF IInv, TypeOK
<1>2. lock # Free => lock # c /\ lock \in Callers
  BY DEF IInv, TypeOK, Inserted, Idle
<1>3. \A d \in Callers : call'[d] = IF d = c THEN req ELSE call[d]
  BY DEF IInv, TypeOK
<1>4. Unique(store)' /\ (used = Total)'
  BY ShownIsHeld DEF IInv, Unique
<1>5. Admitted' /\ Inserted' /\ Bounded'
  BY <1>2, <1>3 DEF IInv, Admitted, Inserted, Bounded
<1> QED BY <1>1, <1>4, <1>5 DEF IInv

\* A call that is over leaves the lock free.
LEMMA ReturnKeeps ==
  ASSUME IInv, NEW c \in Callers, UNCHANGED clock, lock' = Free,
         NEW a \in Values \cup {Missing, "stored", "refused"}, Return(c, a),
         store' \in Seq(Records), Unique(store'), used' \in Int, used' = Weighs(Shown(store')),
         Len(store') <= MaxEntries, used' <= MaxBytes
  PROVE  IInv'
<1>1. call' \in [Callers -> {Idle} \cup Calls] /\ \A d \in Callers : call'[d] = IF d = c THEN Idle ELSE call[d]
  BY DEF IInv, TypeOK, Return
<1>2. answer' \in [Callers -> Values \cup {Missing, "stored", "refused"}]
  BY DEF IInv, TypeOK, Return
<1>3. TypeOK'
  BY <1>1, <1>2 DEF IInv, TypeOK
<1>4. Unique(store)' /\ (used = Total)'
  BY ShownIsHeld DEF Unique
<1>5. Admitted' /\ Inserted' /\ Bounded'
  BY <1>1 DEF IInv, Admitted, Inserted, Bounded, Idle
<1> QED BY <1>3, <1>4, <1>5 DEF IInv

\* What a get that finds a live entry does to the store: nothing shows of it.
LEMMA HitMoves ==
  ASSUME IInv, NEW i \in DOMAIN store, store' = Append(Without(store[i].key), store[i])
  PROVE  /\ store' \in Seq(Records) /\ Unique(store') /\ Len(store') = Len(store)
         /\ Shown(store') = Shown(store)
         /\ Shown(store)[store[i].key] = store[i].value /\ store[i].value \in Values
<1> DEFINE x == store[i]
<1>1. i \in 1..Len(store) /\ x \in Records /\ x.key \in Keys /\ Entries(x.key) # {}
  <2>1. store \in Seq(Records)
    BY DEF IInv, TypeOK
  <2>2. i \in 1..Len(store) /\ x \in Records
    BY <2>1
  <2>3. i \in Entries(x.key)
    BY DEF Entries
  <2> QED BY <2>2, <2>3 DEF Records
<1>2. store \in Seq(Records) /\ Unique(store) /\ Len(store) \in Nat
  BY DEF IInv, TypeOK
<1>3. /\ Shown(store) \in Contents /\ Shown(store)[x.key] = x.value
      /\ x.value \in Values
  BY <1>1, <1>2, Looks
<1>4. Len(Without(x.key)) = Len(store) - 1
  BY <1>1, Discards
<1> HIDE DEF x
<1>5. store' = Append(Without(x.key), x)
  BY DEF x
<1>6. /\ store' \in Seq(Records) /\ Unique(store') /\ Len(store') = Len(Without(x.key)) + 1
      /\ Shown(store') = [Shown(store) EXCEPT ![x.key] = x.value]
  BY <1>1, <1>5, Replaces
<1>7. [Shown(store) EXCEPT ![x.key] = x.value] = Shown(store)
  BY <1>1, <1>3 DEF Contents
<1> QED BY <1>2, <1>3, <1>4, <1>6, <1>7 DEF x

LEMMA GetKeeps ==
  ASSUME IInv, NEW c \in Callers, Get(c)
  PROVE  IInv'
<1> DEFINE k == call[c].key
           live == {i \in Entries(k) : ~Expired(store[i], call[c].time)}
<1>1. k \in Keys /\ lock = Free /\ lock' = Free /\ UNCHANGED clock
  BY Inside DEF Get, Doing, Idle, IInv, Calls
<1>2. Len(store) <= MaxEntries /\ used <= MaxBytes /\ Len(store) \in Nat /\ used \in Int
      /\ MaxBytes \in Nat /\ MaxEntries \in Nat
  BY <1>1, BudgetAssumption DEF IInv, Bounded, TypeOK
<1>3. CASE live = {}
  <2>1. store' = Without(k) /\ used' = Remaining(k) /\ Return(c, Missing)
    BY <1>3 DEF Get
  <2>2. /\ store' \in Seq(Records) /\ Unique(store') /\ Len(store') <= Len(store)
        /\ used' = Weighs(Shown(store')) /\ used' \in Int /\ used' <= used
    BY <1>1, <2>1, Discards
  <2>3. Len(store') \in Nat
    BY <2>2
  <2>4. Len(store') <= MaxEntries /\ used' <= MaxBytes
    BY <1>2, <2>2, <2>3
  <2> QED BY <1>1, <2>1, <2>2, <2>4, ReturnKeeps
<1>4. CASE live # {}
  <2>1. PICK i \in live : store' = Append(Without(k), store[i]) /\ Return(c, store[i].value) /\ UNCHANGED used
    BY <1>4 DEF Get
  <2>2. i \in DOMAIN store /\ store[i].key = k
    BY <2>1 DEF Entries
  <2>3. /\ store' \in Seq(Records) /\ Unique(store') /\ Len(store') = Len(store)
        /\ Shown(store') = Shown(store) /\ store[i].value \in Values
    BY <2>1, <2>2, HitMoves
  <2>4. used' = Weighs(Shown(store'))
    BY <2>1, <2>3, ShownIsHeld DEF IInv
  <2> QED BY <1>1, <1>2, <2>1, <2>3, <2>4, ReturnKeeps
<1> QED BY <1>3, <1>4

LEMMA DeleteKeeps ==
  ASSUME IInv, NEW c \in Callers, Delete(c)
  PROVE  IInv'
<1> DEFINE k == call[c].key
<1>1. /\ k \in Keys /\ lock = Free /\ lock' = Free /\ UNCHANGED clock
      /\ store' = Without(k) /\ used' = Remaining(k) /\ Return(c, Missing)
  BY Inside DEF Delete, Doing, Idle, IInv, Calls
<1>2. Len(store) <= MaxEntries /\ used <= MaxBytes /\ Len(store) \in Nat /\ used \in Int
      /\ MaxBytes \in Nat /\ MaxEntries \in Nat
  BY <1>1, BudgetAssumption DEF IInv, Bounded, TypeOK
<1>3. /\ store' \in Seq(Records) /\ Unique(store') /\ Len(store') <= Len(store)
      /\ used' = Weighs(Shown(store')) /\ used' \in Int /\ used' <= used
  BY <1>1, Discards
<1>4. Len(store') \in Nat
  BY <1>3
<1>5. Len(store') <= MaxEntries /\ used' <= MaxBytes
  BY <1>2, <1>3, <1>4
<1> QED BY <1>1, <1>3, <1>5, ReturnKeeps

LEMMA ClearKeeps ==
  ASSUME IInv, NEW c \in Callers, Clear(c)
  PROVE  IInv'
<1>1. /\ lock' = Free /\ UNCHANGED clock /\ store' = <<>> /\ used' = 0 /\ Return(c, Missing)
  BY DEF Clear
<1>2. store' \in Seq(Records) /\ Unique(store') /\ Weighs(Shown(store')) = 0
  BY <1>1, WeighsNothing
<1>3. Len(store') <= MaxEntries /\ used' <= MaxBytes
  BY <1>1, BudgetAssumption
<1> QED BY <1>1, <1>2, <1>3, ReturnKeeps

LEMMA InsertKeeps ==
  ASSUME IInv, NEW c \in Callers, Insert(c)
  PROVE  IInv'
<1> DEFINE x == [key |-> call[c].key, value |-> call[c].value, expires |-> call[c].time]
<1>1. /\ call[c] \in Calls /\ call[c].op = "set" /\ call[c].value \in Values
      /\ lock' = c /\ c # Free /\ UNCHANGED <<clock, call, answer>>
  BY Inside, EntriesAssumption DEF Insert, Doing, Idle, IInv, Admitted
<1>2. x \in Records /\ x.key = call[c].key /\ x.value = call[c].value
  BY <1>1 DEF Records, Calls
<1>3. store' = Append(Without(x.key), x) /\ used' = Remaining(x.key) + Size[x.value]
  BY DEF Insert
<1> HIDE DEF x
<1>4. /\ store' \in Seq(Records) /\ Unique(store') /\ Len(store') = Len(Without(x.key)) + 1
      /\ store'[Len(store')] = x /\ Weighs(Shown(store')) = Remaining(x.key) + Size[x.value]
  BY <1>2, <1>3, Replaces
<1>5. Remaining(x.key) \in Int /\ Size[x.value] \in Int /\ Without(x.key) \in Seq(Records)
  <2>1. x.key \in Keys /\ x.value \in Values
    BY <1>2 DEF Records
  <2>2. Remaining(x.key) \in Int /\ Without(x.key) \in Seq(Records)
    BY <2>1, Discards
  <2> QED BY <2>1, <2>2, EntriesAssumption
<1>6. TypeOK'
  BY <1>1, <1>3, <1>4, <1>5 DEF IInv, TypeOK
<1>7. Unique(store)' /\ (used = Total)'
  BY <1>3, <1>4, ShownIsHeld DEF Unique
<1>8. store' # <<>>
  BY <1>4, <1>5
<1>9. Admitted' /\ Inserted' /\ Bounded'
  BY <1>1, <1>2, <1>4, <1>8 DEF IInv, Admitted, Inserted, Bounded
<1> QED BY <1>6, <1>7, <1>9 DEF IInv

LEMMA EvictOldestKeeps ==
  ASSUME IInv, NEW c \in Callers, EvictOldest(c)
  PROVE  IInv'
<1>1. /\ lock = c /\ lock' = c /\ c # Free /\ UNCHANGED <<clock, call, answer>>
  BY EntriesAssumption DEF EvictOldest
<1>2. /\ Len(store) >= 2 /\ store' \in Seq(Records) /\ Unique(store')
      /\ Len(store') = Len(store) - 1 /\ store'[Len(store')] = store[Len(store)]
      /\ used' = Weighs(Shown(store')) /\ used' \in Int
  BY Evicts
<1>3. TypeOK'
  BY <1>1, <1>2 DEF IInv, TypeOK
<1>4. Unique(store)' /\ (used = Total)'
  BY <1>2, ShownIsHeld DEF Unique
<1>5. store' # <<>>
  BY <1>2 DEF IInv, TypeOK
<1>6. Admitted' /\ Inserted' /\ Bounded'
  BY <1>1, <1>2, <1>5 DEF IInv, Admitted, Inserted, Bounded
<1> QED BY <1>3, <1>4, <1>6 DEF IInv

LEMMA StoredKeeps ==
  ASSUME IInv, NEW c \in Callers, Stored(c)
  PROVE  IInv'
<1>1. /\ lock = c /\ lock # Free /\ ~Over /\ lock' = Free /\ Return(c, "stored")
      /\ UNCHANGED <<clock, store, used>>
  BY EntriesAssumption DEF Stored
<1>2. /\ store \in Seq(Records) /\ Unique(store) /\ used = Weighs(Shown(store)) /\ used \in Int
      /\ store # <<>>
  BY <1>1, ShownIsHeld DEF IInv, TypeOK, Inserted
<1>3. Len(store) <= MaxEntries /\ used <= MaxBytes
  BY <1>1, <1>2, BudgetAssumption DEF Over
<1> QED BY <1>1, <1>2, <1>3, ReturnKeeps

LEMMA NextKeeps ==
  ASSUME IInv, [Next]_vars
  PROVE  IInv'
<1>1. CASE UNCHANGED vars
  <2>1. Unique(store)' /\ (used = Total)'
    BY <1>1, ShownIsHeld DEF IInv, Unique, vars
  <2> QED BY <1>1, <2>1 DEF vars, IInv, TypeOK, Admitted, Inserted, Bounded
<1>2. CASE Tick
  <2>1. UNCHANGED <<store, used, lock, call, answer>> /\ clock' \in Nat
    BY <1>2 DEF Tick, IInv, TypeOK
  <2>2. Unique(store)' /\ (used = Total)'
    BY <2>1, ShownIsHeld DEF IInv, Unique
  <2> QED BY <2>1, <2>2 DEF IInv, TypeOK, Admitted, Inserted, Bounded
<1>3. ASSUME NEW c \in Callers, NEW k \in Keys, CallGet(c, k) \/ CallDelete(c, k) \/ CallClear(c, k)
      PROVE  IInv'
  <2>1. PICK op \in {"get", "delete", "clear"}, time \in {clock, 0} : Enter(c, op, k, Missing, time)
    BY <1>3 DEF CallGet, CallDelete, CallClear
  <2> DEFINE req == [op |-> op, key |-> k, value |-> Missing, time |-> time]
  <2>2. req \in Calls /\ req.op # "set"
    BY DEF Calls, IInv, TypeOK
  <2> QED BY <2>1, <2>2, OutsideKeeps DEF Enter, IInv, TypeOK
<1>4. ASSUME NEW c \in Callers, NEW k \in Keys, NEW v \in Values, NEW ttl \in Lifetimes, CallSet(c, k, v, ttl)
      PROVE  IInv'
  <2>1. Size[v] <= MaxBytes /\ \E time \in Int : Enter(c, "set", k, v, time)
    BY <1>4, EntriesAssumption DEF CallSet, Never, IInv, TypeOK
  <2>2. PICK time \in Int : Enter(c, "set", k, v, time)
    BY <2>1
  <2> DEFINE req == [op |-> "set", key |-> k, value |-> v, time |-> time]
  <2>3. req \in Calls /\ req.value = v
    BY DEF Calls
  <2> QED BY <2>1, <2>2, <2>3, OutsideKeeps DEF Enter, IInv, TypeOK
<1>5. ASSUME NEW c \in Callers, NEW v \in Values, RefuseSet(c, v)
      PROVE  IInv'
  <2>1. /\ call[c] = Idle /\ call' = [call EXCEPT ![c] = Idle] /\ Idle.op # "set"
        /\ UNCHANGED <<clock, store, used, lock>>
    BY <1>5 DEF RefuseSet, Return, Idle
  <2>2. answer' \in [Callers -> Values \cup {Missing, "stored", "refused"}]
    BY <1>5 DEF RefuseSet, Return, IInv, TypeOK
  <2> QED BY <2>1, <2>2, OutsideKeeps DEF IInv, TypeOK
<1>6. ASSUME NEW c \in Callers, Serve(c)
      PROVE  IInv'
  BY <1>6, GetKeeps, DeleteKeeps, ClearKeeps, InsertKeeps, EvictOldestKeeps, StoredKeeps DEF Serve
<1> QED BY <1>1, <1>2, <1>3, <1>4, <1>5, <1>6 DEF Next

-----------------------------------------------------------------------------
(* The theorems.                                                           *)

LEMMA InvariantAlways == Spec => []IInv
<1> QED BY InitInvariant, NextKeeps, PTL DEF Spec

\* Within its budget: what it counts is what it holds, each key once, and no more
\* than it may hold whenever the lock is free.
THEOREM WithinBudgetAlways == Spec => []WithinBudget
<1>1. IInv => WithinBudget
  <2> SUFFICES ASSUME IInv PROVE WithinBudget
    OBVIOUS
  <2>1. ASSUME NEW k \in Keys
        PROVE  Cardinality(Entries(k)) <= 1
    <3>1. \A i, j \in Entries(k) : i = j
      BY DEF IInv, Unique, Entries
    <3>2. CASE Entries(k) = {}
      BY <3>2, FS_EmptySet
    <3>3. CASE Entries(k) # {}
      <4>1. PICK i : Entries(k) = {i}
        BY <3>1, <3>3
      <4>2. Cardinality({i}) = 1
        BY FS_Singleton
      <4> QED BY <4>1, <4>2
    <3> QED BY <3>2, <3>3
  <2> QED BY <2>1 DEF WithinBudget, IInv, Bounded
<1> QED BY <1>1, InvariantAlways, PTL

\* Only the eviction loop makes the cache smaller while the lock is held, and only
\* while it is over its budget.
THEOREM NoNeedlessEvictionAlways == Spec => NoNeedlessEviction
<1>1. IInv /\ [Next]_vars
        => [\A c \in Callers : lock = c /\ Len(store') < Len(store) =>
              Len(store) > MaxEntries \/ Total > MaxBytes]_vars
  <2> SUFFICES ASSUME IInv, [Next]_vars, NEW c \in Callers, lock = c, Len(store') < Len(store)
               PROVE  Len(store) > MaxEntries \/ Total > MaxBytes
    OBVIOUS
  <2>1. lock # Free /\ lock \in Callers /\ call[lock].op = "set" /\ Len(store) \in Nat
    BY EntriesAssumption DEF IInv, TypeOK, Inserted
  <2>2. Len(store') # Len(store) /\ store' # store
    BY <2>1
  <2>3. PICK d \in Callers : Serve(d)
    BY <2>2 DEF Next, vars, CallGet, CallDelete, CallClear, CallSet, Enter, RefuseSet, Tick
  <2>4. EvictOldest(d)
    BY <2>1, <2>2, <2>3 DEF Serve, Get, Delete, Clear, Insert, Stored
  <2> QED BY <2>4 DEF EvictOldest, Over, IInv
<1> QED BY <1>1, InvariantAlways, PTL DEF Spec, NoNeedlessEviction

-----------------------------------------------------------------------------
(* The cache is a byte store.                                              *)

\* What a caller is doing, by what it asked for and whether the lock is its own.
Asked(q, mine) ==
  IF q = Idle THEN [doing |-> "idle"]
  ELSE [doing |-> IF mine THEN "written" ELSE IF q.op = "get" THEN "reading"
                  ELSE IF q.op = "set" THEN "writing" ELSE "removing",
        key |-> q.key, value |-> q.value]

LEMMA AskedNothing == \A mine \in BOOLEAN : Asked(Idle, mine) = [doing |-> "idle"]
BY DEF Asked

LEMMA AskedSomething ==
  ASSUME NEW q \in Calls, NEW mine \in BOOLEAN
  PROVE  /\ Asked(q, mine) \in Contract!Calls /\ Asked(q, mine) # [doing |-> "idle"]
         /\ Asked(q, mine).key = q.key /\ Asked(q, mine).value = q.value
         /\ mine => Asked(q, mine).doing = "written"
         /\ Asked(q, mine).doing = "written" => mine
         /\ ~mine /\ q.op = "get" => Asked(q, mine).doing = "reading"
         /\ ~mine /\ q.op = "set" => Asked(q, mine).doing = "writing"
         /\ ~mine /\ q.op \notin {"get", "set"} => Asked(q, mine).doing = "removing"
BY DEF Asked, Calls, Idle, Contract!Calls

LEMMA PendingIs ==
  /\ Pending = [c \in Callers |-> Asked(call[c], lock = c)]
  /\ Pending' = [c \in Callers |-> Asked(call'[c], lock' = c)]
BY DEF Pending, Doing, Asked

\* A step of one caller is a step of what it is doing.
LEMMA PendingMoves ==
  ASSUME IInv, NEW c \in Callers,
         \A d \in Callers : d # c => call'[d] = call[d] /\ (lock' = d <=> lock = d)
  PROVE  Pending' = [Pending EXCEPT ![c] = Asked(call'[c], lock' = c)]
<1>1. \A d \in Callers : d # c => Asked(call'[d], lock' = d) = Asked(call[d], lock = d)
  BY DEF Asked
<1> QED BY <1>1, PendingIs

LEMMA Returns ==
  ASSUME IInv, NEW c \in Callers, NEW a, Return(c, a),
         \A d \in Callers : d # c => (lock' = d <=> lock = d)
  PROVE  Contract!Return(c, a)
<1>1. call'[c] = Idle /\ \A d \in Callers : d # c => call'[d] = call[d]
  BY DEF Return, IInv, TypeOK
<1>2. Pending' = [Pending EXCEPT ![c] = Asked(call'[c], lock' = c)]
  BY <1>1, PendingMoves
<1>3. Asked(call'[c], lock' = c) = [doing |-> "idle"]
  BY <1>1 DEF Asked
<1> QED BY <1>2, <1>3 DEF Return, Contract!Return, Contract!Idle

\* A caller about to be served: what it asked for.
LEMMA Asks ==
  ASSUME IInv, NEW c \in Callers, call[c] # Idle
  PROVE  /\ call[c] \in Calls
         /\ Pending[c] = Asked(call[c], lock = c)
         /\ Pending[c] \in Contract!Calls /\ Pending[c] # Contract!Idle
         /\ Pending[c].key = call[c].key /\ Pending[c].value = call[c].value
         /\ lock = c <=> Pending[c].doing = "written"
         /\ lock # c /\ call[c].op = "get" => Pending[c].doing = "reading"
         /\ lock # c /\ call[c].op = "set" => Pending[c].doing = "writing"
         /\ lock # c /\ call[c].op \notin {"get", "set"} => Pending[c].doing = "removing"
<1>1. call[c] \in Calls
  BY Inside DEF IInv
<1>2. Pending[c] = Asked(call[c], lock = c)
  BY PendingIs
<1> DEFINE mine == lock = c
<1>3. mine \in BOOLEAN
  OBVIOUS
<1> HIDE DEF mine
<1>4. /\ Asked(call[c], mine) \in Contract!Calls /\ Asked(call[c], mine) # [doing |-> "idle"]
      /\ Asked(call[c], mine).key = call[c].key /\ Asked(call[c], mine).value = call[c].value
  BY <1>1, <1>3, AskedSomething
<1>5. /\ mine <=> Asked(call[c], mine).doing = "written"
      /\ ~mine /\ call[c].op = "get" => Asked(call[c], mine).doing = "reading"
      /\ ~mine /\ call[c].op = "set" => Asked(call[c], mine).doing = "writing"
      /\ ~mine /\ call[c].op \notin {"get", "set"} => Asked(call[c], mine).doing = "removing"
  BY <1>1, <1>3, AskedSomething
<1> QED BY <1>1, <1>2, <1>4, <1>5 DEF mine, Contract!Idle

\* What is stored keeps its shape.
LEMMA HoldingIs ==
  ASSUME IInv
  PROVE  /\ Holding \in Contents
         /\ \A k \in Keys, v \in Values \cup {Missing} :
              Holding' = [Holding EXCEPT ![k] = v]
              => Holding'[k] = v /\ \A q \in Keys : q # k => Holding'[q] = Holding[q]
<1>1. Holding \in Contents
  BY ShownIsHeld, Looks DEF IInv, TypeOK
<1> QED BY <1>1 DEF Contents

\* To hold less is to forget.
LEMMA LessIsForgotten ==
  ASSUME IInv, NEW k \in Keys, Holding' = [Holding EXCEPT ![k] = Missing]
  PROVE  Contract!Forgets(Holding, Holding') /\ Holding'[k] = Missing
BY HoldingIs DEF Contract!Forgets

LEMMA EnterCalls ==
  ASSUME IInv, NEW c \in Callers, call[c] = Idle, UNCHANGED <<store, lock, answer>>,
         NEW req \in Calls, call' = [call EXCEPT ![c] = req]
  PROVE  Contract!Call(c)
<1>1. lock # c
  <2>1. c # Free
    BY EntriesAssumption
  <2>2. lock # Free => call[lock].op = "set"
    BY DEF IInv, Inserted
  <2> QED BY <2>1, <2>2 DEF Idle
<1>2. call'[c] = req /\ \A d \in Callers : d # c => call'[d] = call[d]
  BY DEF IInv, TypeOK
<1>3. Pending' = [Pending EXCEPT ![c] = Asked(req, lock' = c)]
  BY <1>2, PendingMoves
<1>4. Pending[c] = [doing |-> "idle"]
  BY PendingIs DEF Asked
<1>5. /\ Asked(req, lock' = c) \in Contract!Calls
      /\ Asked(req, lock' = c).doing # "written"
  BY <1>1, AskedSomething
<1>6. Pending'[c] = Asked(req, lock' = c)
  BY <1>3, PendingIs
<1>7. Holding' = Holding
  BY ShownIsHeld
<1> QED BY <1>3, <1>4, <1>5, <1>6, <1>7 DEF Contract!Call, Contract!Idle

LEMMA GetReads ==
  ASSUME IInv, NEW c \in Callers, Get(c)
  PROVE  Contract!Read(c)
<1> DEFINE k == call[c].key
           live == {i \in Entries(k) : ~Expired(store[i], call[c].time)}
<1>1. call[c] # Idle /\ call[c].op = "get" /\ lock = Free /\ lock' = lock /\ lock # c
  BY EntriesAssumption DEF Get, Doing, Idle
<1>2. k \in Keys /\ Pending[c].doing = "reading" /\ Pending[c].key = k /\ Pending[c] # Contract!Idle
  BY <1>1, Asks DEF Calls
<1>3. CASE live = {}
  <2>1. store' = Without(k) /\ Return(c, Missing)
    BY <1>3 DEF Get
  <2>2. Holding' = [Holding EXCEPT ![k] = Missing]
    BY <1>2, <2>1, Discards, ShownIsHeld
  <2>3. Contract!Forgets(Holding, Holding') /\ Holding'[k] = Missing
    BY <1>2, <2>2, LessIsForgotten
  <2>4. Contract!Return(c, Missing)
    BY <1>1, <2>1, Returns
  <2> QED BY <1>2, <2>3, <2>4 DEF Contract!Read
<1>4. CASE live # {}
  <2>1. PICK i \in live : store' = Append(Without(k), store[i]) /\ Return(c, store[i].value)
    BY <1>4 DEF Get
  <2>2. i \in DOMAIN store /\ store[i].key = k
    BY <2>1 DEF Entries
  <2>3. Shown(store') = Shown(store) /\ Shown(store)[k] = store[i].value
    BY <2>1, <2>2, HitMoves
  <2>4. Holding' = Holding /\ Holding'[k] = store[i].value
    BY <2>3, ShownIsHeld
  <2>5. Contract!Return(c, store[i].value)
    BY <1>1, <2>1, Returns
  <2> QED BY <1>2, <2>4, <2>5 DEF Contract!Read, Contract!Forgets
<1> QED BY <1>3, <1>4

LEMMA DropDrops ==
  ASSUME IInv, NEW c \in Callers, Delete(c) \/ Clear(c)
  PROVE  Contract!Drop(c)
<1> DEFINE k == call[c].key
<1>1. /\ call[c] # Idle /\ call[c].op \notin {"get", "set"} /\ lock = Free /\ lock' = lock /\ lock # c
      /\ Return(c, Missing)
  BY EntriesAssumption DEF Delete, Clear, Doing, Idle
<1>2. k \in Keys /\ Pending[c].doing = "removing" /\ Pending[c].key = k /\ Pending[c] # Contract!Idle
  BY <1>1, Asks DEF Calls
<1>3. Contract!Forgets(Holding, Holding') /\ Holding'[k] = Missing
  <2>1. CASE Delete(c)
    <3>1. Holding' = [Holding EXCEPT ![k] = Missing]
      BY <1>2, <2>1, Discards, ShownIsHeld DEF Delete
    <3> QED BY <1>2, <3>1, LessIsForgotten
  <2>2. CASE Clear(c)
    <3>1. \A q \in Keys : Holding'[q] = Missing
      BY <2>2, WeighsNothing, ShownIsHeld DEF Clear
    <3> QED BY <1>2, <3>1 DEF Contract!Forgets
  <2> QED BY <2>1, <2>2
<1>4. Contract!Return(c, Missing)
  BY <1>1, Returns
<1> QED BY <1>2, <1>3, <1>4 DEF Contract!Drop

LEMMA InsertWrites ==
  ASSUME IInv, NEW c \in Callers, Insert(c)
  PROVE  Contract!Write(c)
<1> DEFINE x == [key |-> call[c].key, value |-> call[c].value, expires |-> call[c].time]
<1>1. /\ call[c] # Idle /\ call[c].op = "set" /\ lock = Free /\ lock' = c /\ lock # c /\ c # Free
      /\ \A d \in Callers : lock # d
      /\ UNCHANGED <<call, answer>> /\ call[c].value \in Values
  BY EntriesAssumption DEF Insert, Doing, Idle, IInv, Admitted
<1>2. /\ call[c] \in Calls /\ Pending[c] = Asked(call[c], lock = c) /\ Pending[c].doing = "writing"
      /\ Pending[c].key = x.key /\ Pending[c].value = x.value /\ Pending[c] # Contract!Idle
  BY <1>1, Asks
<1>3. x \in Records /\ store' = Append(Without(x.key), x)
  BY <1>1, <1>2 DEF Insert, Records, Calls
<1> HIDE DEF x
<1>4. Holding' = [Holding EXCEPT ![x.key] = x.value]
  BY <1>3, Replaces, ShownIsHeld
<1>5. Pending' = [Pending EXCEPT ![c] = Asked(call[c], TRUE)]
  <2>1. Asked(call'[c], lock' = c) = Asked(call[c], TRUE)
    BY <1>1 DEF Asked
  <2> QED BY <1>1, <2>1, PendingMoves
<1>6. Asked(call[c], TRUE) = [Pending[c] EXCEPT !.doing = "written"]
  BY <1>1, <1>2 DEF Asked
<1> QED BY <1>1, <1>2, <1>4, <1>5, <1>6 DEF Contract!Write

LEMMA EvictForgets ==
  ASSUME IInv, NEW c \in Callers, EvictOldest(c)
  PROVE  Contract!Forget
<1> DEFINE k == store[1].key
<1>1. lock = c /\ c # Free /\ UNCHANGED <<lock, call, answer>>
  BY EntriesAssumption DEF EvictOldest
<1>2. k \in Keys /\ k # call[c].key /\ Holding' = [Holding EXCEPT ![k] = Missing]
  BY Evicts, ShownIsHeld
<1>3. Contract!Forgets(Holding, Holding')
  BY <1>2, LessIsForgotten
<1>4. Pending' = Pending
  BY <1>1, PendingIs
<1>5. ASSUME NEW d \in Callers, Pending[d] # Contract!Idle, Pending[d].doing = "written"
      PROVE  Holding'[Pending[d].key] = Holding[Pending[d].key]
  <2>1. call[d] # Idle
    BY <1>5, PendingIs DEF Asked, Contract!Idle
  <2>2. d = c /\ Pending[d].key = call[c].key /\ call[c].key \in Keys
    BY <1>1, <1>5, <2>1, Asks DEF Calls
  <2> QED BY <1>2, <2>2, HoldingIs
<1> QED BY <1>1, <1>3, <1>4, <1>5 DEF Contract!Forget

LEMMA StoredIsWritten ==
  ASSUME IInv, NEW c \in Callers, Stored(c)
  PROVE  Contract!Written(c)
<1>1. lock = c /\ c # Free /\ lock' = Free /\ Return(c, "stored") /\ UNCHANGED store
  BY EntriesAssumption DEF Stored
<1>2. /\ call[c].op = "set" /\ call[c] # Idle /\ store \in Seq(Records) /\ Unique(store) /\ store # <<>>
      /\ store[Len(store)].key = call[c].key /\ store[Len(store)].value = call[c].value
  BY <1>1 DEF IInv, TypeOK, Inserted, Idle
<1>3. Pending[c].doing = "written" /\ Pending[c] # Contract!Idle
      /\ Pending[c].key = call[c].key /\ Pending[c].value = call[c].value
  BY <1>1, <1>2, Asks
<1>4. Len(store) \in 1..Len(store)
  BY <1>2
<1>5. Holding[call[c].key] = call[c].value
  BY <1>2, <1>4, Looks, ShownIsHeld
<1>6. Holding' = Holding
  BY <1>1, ShownIsHeld
<1>7. Contract!Return(c, "stored")
  <2>1. \A d \in Callers : d # Free
    BY EntriesAssumption
  <2> QED BY <1>1, <2>1, Returns
<1> QED BY <1>3, <1>5, <1>6, <1>7 DEF Contract!Written

LEMMA NextStores ==
  ASSUME IInv, [Next]_vars
  PROVE  [Contract!Next]_(Contract!bytes)
<1>1. CASE UNCHANGED vars
  BY <1>1, ShownIsHeld, PendingIs DEF vars, Contract!bytes
<1>2. CASE Tick
  BY <1>2, ShownIsHeld, PendingIs DEF Tick, Contract!bytes
<1>3. ASSUME NEW c \in Callers, NEW k \in Keys, CallGet(c, k) \/ CallDelete(c, k) \/ CallClear(c, k)
      PROVE  Contract!Call(c)
  <2>1. PICK op \in {"get", "delete", "clear"}, time \in {clock, 0} : Enter(c, op, k, Missing, time)
    BY <1>3 DEF CallGet, CallDelete, CallClear
  <2> DEFINE req == [op |-> op, key |-> k, value |-> Missing, time |-> time]
  <2>2. req \in Calls
    BY DEF Calls, IInv, TypeOK
  <2> QED BY <2>1, <2>2, EnterCalls DEF Enter
<1>4. ASSUME NEW c \in Callers, NEW k \in Keys, NEW v \in Values, NEW ttl \in Lifetimes, CallSet(c, k, v, ttl)
      PROVE  Contract!Call(c)
  <2>1. \E time \in Int : Enter(c, "set", k, v, time)
    BY <1>4, EntriesAssumption DEF CallSet, Never, IInv, TypeOK
  <2>2. PICK time \in Int : Enter(c, "set", k, v, time)
    BY <2>1
  <2> DEFINE req == [op |-> "set", key |-> k, value |-> v, time |-> time]
  <2>3. req \in Calls
    BY DEF Calls
  <2> QED BY <2>2, <2>3, EnterCalls DEF Enter
<1>5. ASSUME NEW c \in Callers, NEW v \in Values, RefuseSet(c, v)
      PROVE  Contract!Refuse(c)
  <2>1. call[c] = Idle /\ Return(c, "refused") /\ UNCHANGED <<store, lock>>
    BY <1>5 DEF RefuseSet
  <2>2. Pending[c] = Contract!Idle
    BY <2>1, PendingIs DEF Asked, Contract!Idle
  <2>3. Contract!Return(c, "refused") /\ Holding' = Holding
    BY <2>1, Returns, ShownIsHeld
  <2> QED BY <2>2, <2>3 DEF Contract!Refuse
<1>6. ASSUME NEW c \in Callers, Serve(c)
      PROVE  Contract!Next
  BY <1>6, GetReads, DropDrops, InsertWrites, EvictForgets, StoredIsWritten DEF Serve, Contract!Next
<1> QED BY <1>1, <1>2, <1>3, <1>4, <1>5, <1>6 DEF Next, Contract!Next

\* The cache keeps the contract of CacheBackend: no caller is answered with the
\* value of another key, and one that is told its value was stored finds it there
\* when it is told, however much had to go to make room.
THEOREM ByteStoreImplemented == Spec => StoresAsByteStore
<1>1. Init => Contract!Init
  <2> SUFFICES ASSUME Init PROVE Contract!Init
    OBVIOUS
  <2>1. Shown(store) \in Contents /\ \A k \in Keys : Shown(store)[k] = Missing
    BY WeighsNothing DEF Init
  <2>2. Holding = [k \in Keys |-> Missing]
    BY <2>1, ShownIsHeld DEF Contents
  <2>3. Pending = [c \in Callers |-> Contract!Idle]
    BY PendingIs DEF Init, Asked, Contract!Idle
  <2> QED BY <2>2, <2>3 DEF Init, Contract!Init
<1>2. IInv /\ [Next]_vars => [Contract!Next]_(Contract!bytes)
  BY NextStores
<1> QED BY <1>1, <1>2, InvariantAlways, PTL DEF Spec, StoresAsByteStore, Contract!Spec
=============================================================================
