---------------------------- MODULE ProcessProofs ----------------------------
(***************************************************************************)
(* Proofs about the gateway as a process of the machine: first the         *)
(* commands that start and stop it (Lifecycle), for any commands, pids and *)
(* hosts, then what its start-up prepares (Readiness, which is R here),    *)
(* for any calls, checks, encodings and threads, and last the plugins it   *)
(* loads (Plugins, which is P here), for any candidates, names and         *)
(* sniffers.                                                               *)
(*                                                                         *)
(* Commands.  A pid that a command or the pid file has is of a process     *)
(* that some command spawned, whatever overlaps or crashes (Owned).  Where *)
(* commands take turns, what one of them has seen lasts: a gateway that    *)
(* answered still answers (Upheld), none is going away but the one that is *)
(* waited for (Signalling).                                                *)
(*                                                                         *)
(* Start-up.  An encoding is settled once, under the lock, and never       *)
(* again; so what a job got is a function of the encoding and the setting  *)
(* (Counted), and the counters that are kept can only repeat it            *)
(* (Counting).  That start-up settles the default encoding before a        *)
(* request begins is Prepared.                                             *)
(*                                                                         *)
(* Plugins.  Every call takes a world (records, registry, detector) to the *)
(* next, so the invariant is one of worlds, and each operator on worlds    *)
(* keeps it.  That the report is true (Truth) is not enough: when a        *)
(* plugin's sniffers are taken out by name, no other plugin's may go, and  *)
(* two plugins never have one owner (Owners).  That holds since a          *)
(* candidate is loaded once.                                               *)
(***************************************************************************)
EXTENDS Lifecycle, Counters, PluginWorld, FiniteSetTheorems, TLAPS

CONSTANTS Checks, Backends, Stores, Threads

VARIABLES store, serving, counters, encodings, lock, check, verdict, phase, next

R == INSTANCE Readiness
P == INSTANCE Plugins

-----------------------------------------------------------------------------
(* The commands.                                                           *)

Recorded == Pids \cup {NoPid, CHOOSE p \in Pids : TRUE}

Points == {"idle", "was running", "running", "spawn", "poll", "ask", "record", "configure",
           "read pid", "check", "kill", "drain", "clear", "restore"}

Position == [pc : Points, name : {"none", "connect", "banner", "disconnect", "stop"},
             scope : Scopes, wasRunning : BOOLEAN, child : Pids \cup {NoPid},
             victim : Recorded, result : {"none", "ok", "error"}]

States == {"free", "starting", "ready", "signalled", "stranger"}

TypeOK ==
  /\ host \in HostKind
  /\ proc \in [Pids -> States]
  /\ ours \in SUBSET Pids /\ pidfile \in Recorded
  /\ at \in [Commands -> Position]

\* Where pids are not given away, a pid that the pid file or a command has is of a process
\* that some command spawned.
Owned ==
  ~host.recycles =>
    \A p \in Pids :
      p = pidfile \/ (\E c \in Commands : at[c].child = p \/ at[c].victim = p) => p \in ours

\* Commands take turns.
Alone == \A c, d \in Commands : ~At(c, "idle") /\ ~At(d, "idle") => c = d

\* A gateway that is going away is that which a command waits for.
Signalling ==
  \A p \in Pids : proc[p] = "signalled" => \E c \in Commands : At(c, "drain") /\ at[c].victim = p

\* A command that has seen a gateway answer, and ended none since.
Seen(c) ==
  \/ at[c].pc \in {"record", "configure"}
  \/ at[c].pc = "running" /\ at[c].wasRunning
  \/ at[c].pc \in {"read pid", "check", "kill"} /\ at[c].name = "connect"

Up     == \E p \in Pids : proc[p] = "ready"
Upheld == \A c \in Commands : Seen(c) => Up

\* What a command does not have before it spawns, and does after; the roll-back is not for a
\* connect that found a gateway.
Knows(c) ==
  /\ at[c].pc \in {"was running", "running", "spawn"} => at[c].child = NoPid
  /\ at[c].pc \in {"poll", "ask", "record"} => at[c].child # NoPid
  /\ at[c].wasRunning => at[c].pc \in {"running", "configure"} /\ at[c].child = NoPid
  /\ at[c].pc \in {"was running", "configure"} => at[c].name = "connect"
  /\ at[c].name = "connect" => at[c].pc # "restore"

InTurn == Alone /\ Signalling /\ Upheld /\ \A c \in Commands : Knows(c)

IInv == TypeOK /\ Owned /\ (Smooth => InTurn)

-----------------------------------------------------------------------------
\* The record of a command that is not under way.
LEMMA IdleIs ==
  /\ Idle \in Position /\ Idle.pc = "idle" /\ Idle.name = "none" /\ Idle.child = NoPid
  /\ Idle.victim = NoPid /\ Idle.wasRunning = FALSE
BY LifecycleAssumption DEF Idle, Position, Points, Recorded

\* The invariant holds at first.
LEMMA InitInvariant == Init => IInv
<1> SUFFICES ASSUME Init PROVE IInv
  OBVIOUS
<1>1. host \in HostKind
  BY LifecycleAssumption DEF Init
<1>2. TypeOK
  BY <1>1, IdleIs DEF Init, TypeOK, States, Recorded
<1>3. Owned
  BY IdleIs, LifecycleAssumption DEF Init, Owned
<1>4. Alone /\ Upheld /\ \A c \in Commands : Knows(c)
  BY IdleIs DEF Init, Alone, Upheld, Seen, Knows, At
<1>5. Signalling
  BY DEF Init, Signalling
<1> QED
  BY <1>2, <1>3, <1>4, <1>5 DEF IInv, InTurn

\* What each step of a command does to where it is: it moves that command alone.
LEMMA Moves ==
  ASSUME TypeOK, NEW c \in Commands, Step(c)
  PROVE  /\ at'[c] \in Position /\ at' = [at EXCEPT ![c] = at'[c]]
         /\ UNCHANGED host
<1> USE DEF At, Go, End, Started, Stopped, world
<1>1. at[c] \in Position /\ at \in [Commands -> Position]
  BY DEF TypeOK
<1>2. /\ \A point \in Points : [at[c] EXCEPT !.pc = point] \in Position
      /\ \A result \in {"ok", "error"} : [Idle EXCEPT !.result = result] \in Position
  BY <1>1, IdleIs DEF Position
<1>3. CASE WasRunning(c)
  <2> DEFINE now == [at[c] EXCEPT !.wasRunning = Reachable, !.pc = "running"]
  <2>1. now \in Position
    BY <1>1 DEF Position, Points, Reachable
  <2>2. at' = [at EXCEPT ![c] = now] /\ host' = host
    BY <1>1, <1>3 DEF WasRunning
  <2> QED
    BY <1>1, <2>1, <2>2
<1>4. CASE Running(c) \/ Refuse(c) \/ Poll(c) \/ Ask(c) \/ StartTimesOut(c)
  BY <1>1, <1>2, <1>4 DEF Running, Refuse, Poll, Ask, StartTimesOut, Points
<1>5. CASE Spawn(c)
  <2>1. PICK p \in Pids : at' = [at EXCEPT ![c].child = p, ![c].pc = "poll"]
    BY <1>5 DEF Spawn, Free
  <2> DEFINE now == [at[c] EXCEPT !.child = p, !.pc = "poll"]
  <2>2. now \in Position
    BY <1>1 DEF Position, Points
  <2>3. at' = [at EXCEPT ![c] = now] /\ host' = host
    BY <1>1, <1>5, <2>1 DEF Spawn
  <2> QED
    BY <1>1, <2>2, <2>3
<1>6. CASE Record(c) \/ Configure(c) \/ ConfigureFails(c)
  BY <1>1, <1>2, <1>6 DEF Record, Configure, ConfigureFails, Points
<1>7. CASE ReadPid(c)
  <2> DEFINE now == [at[c] EXCEPT !.victim = pidfile, !.pc = "check"]
  <2>1. now \in Position
    BY <1>1 DEF Position, Points, TypeOK
  <2>2. CASE at' = [at EXCEPT ![c] = now]
    BY <1>1, <1>7, <2>1, <2>2 DEF ReadPid
  <2>3. CASE \/ at' = [at EXCEPT ![c].pc = "restore"]
             \/ at' = [at EXCEPT ![c] = [Idle EXCEPT !.result = "error"]]
    BY <1>1, <1>2, <1>7, <2>3 DEF ReadPid, Points
  <2> QED
    BY <1>1, <1>7, <2>2, <2>3 DEF ReadPid
<1>8. CASE Check(c) \/ Kill(c) \/ Drain(c) \/ Clear(c)
  BY <1>1, <1>2, <1>8 DEF Check, Kill, Drain, Clear, Points
<1>9. CASE Restore(c) \/ RestoreFails(c)
  BY <1>1, <1>2, <1>9 DEF Restore, RestoreFails
<1> QED
  BY <1>3, <1>4, <1>5, <1>6, <1>7, <1>8, <1>9 DEF Step

\* What it does to the processes and their records.
LEMMA StepTypes ==
  ASSUME TypeOK, NEW c \in Commands, Step(c)
  PROVE  TypeOK'
<1>1. at' \in [Commands -> Position] /\ host' = host
  BY Moves DEF TypeOK
<1>2. proc' \in [Pids -> States]
  <2>1. CASE Spawn(c) \/ Kill(c)
    BY <2>1 DEF Spawn, Kill, Becomes, TypeOK, States
  <2>2. CASE proc' = proc
    BY <2>2 DEF TypeOK
  <2> QED
    BY <2>1, <2>2 DEF Step, WasRunning, Running, Refuse, Poll, Ask, StartTimesOut, Record,
       Configure, ConfigureFails, ReadPid, Check, Drain, Clear, Restore, RestoreFails, world
<1>3. ours' \in SUBSET Pids
  <2>1. CASE Spawn(c)
    BY <2>1 DEF Spawn, Free, TypeOK
  <2>2. CASE ours' = ours
    BY <2>2 DEF TypeOK
  <2> QED
    BY <2>1, <2>2 DEF Step, WasRunning, Running, Refuse, Poll, Ask, StartTimesOut, Record,
       Configure, ConfigureFails, ReadPid, Check, Kill, Drain, Clear, Restore, RestoreFails, world
<1>4. pidfile' \in Recorded
  <2>1. CASE Record(c)
    BY <2>1 DEF Record, TypeOK, Position, Recorded
  <2>2. CASE pidfile' \in {pidfile, NoPid}
    BY <2>2 DEF TypeOK, Recorded
  <2> QED
    BY <2>1, <2>2 DEF Step, WasRunning, Running, Refuse, Spawn, Poll, Ask, StartTimesOut, Configure,
       ConfigureFails, ReadPid, Check, Kill, Drain, Clear, Restore, RestoreFails, world
<1> QED
  BY <1>1, <1>2, <1>3, <1>4 DEF TypeOK

\* A command that goes on keeps what it knows.
LEMMA GoesOn ==
  ASSUME TypeOK, NEW c \in Commands, NEW point, Go(c, point)
  PROVE  /\ at'[c].pc = point /\ at'[c].name = at[c].name /\ at'[c].scope = at[c].scope
         /\ at'[c].wasRunning = at[c].wasRunning /\ at'[c].result = at[c].result
         /\ at'[c].child = at[c].child /\ at'[c].victim = at[c].victim
BY DEF Go, TypeOK, Position

\* One that ends forgets it.
LEMMA Ends ==
  ASSUME TypeOK, NEW c \in Commands, NEW result, End(c, result)
  PROVE  /\ at'[c].pc = "idle" /\ at'[c].name = "none" /\ at'[c].wasRunning = FALSE
         /\ at'[c].child = NoPid /\ at'[c].victim = NoPid /\ at'[c].result = result
BY DEF End, TypeOK, Idle

\* The steps at which one learns something: that a gateway answers, the child, the pid to stop.
LEMMA Sees ==
  ASSUME TypeOK, NEW c \in Commands, WasRunning(c)
  PROVE  /\ at'[c].pc = "running" /\ at'[c].wasRunning = Reachable
         /\ at'[c].name = at[c].name /\ at'[c].child = at[c].child /\ at'[c].victim = at[c].victim
<1>1. at'[c] = [at[c] EXCEPT !.wasRunning = Reachable, !.pc = "running"]
  BY DEF WasRunning, TypeOK
<1>2. at[c] \in Position
  BY DEF TypeOK
<1> QED
  BY <1>1, <1>2 DEF Position

LEMMA Spawns ==
  ASSUME TypeOK, NEW c \in Commands, Spawn(c)
  PROVE  /\ at'[c].pc = "poll" /\ at'[c].wasRunning = at[c].wasRunning
         /\ at'[c].name = at[c].name /\ at'[c].victim = at[c].victim
         /\ at'[c].child \in Pids /\ ours' = ours \cup {at'[c].child}
         /\ proc' = [proc EXCEPT ![at'[c].child] = "starting"]
<1>1. PICK p \in Pids : /\ ours' = ours \cup {p} /\ proc' = [proc EXCEPT ![p] = "starting"]
                        /\ at' = [at EXCEPT ![c].child = p, ![c].pc = "poll"]
  BY DEF Spawn, Free, Becomes
<1>2. at'[c] = [at[c] EXCEPT !.child = p, !.pc = "poll"]
  BY <1>1 DEF TypeOK
<1>3. at[c] \in Position
  BY DEF TypeOK
<1>4. /\ at'[c].pc = "poll" /\ at'[c].wasRunning = at[c].wasRunning
      /\ at'[c].name = at[c].name /\ at'[c].victim = at[c].victim /\ at'[c].child = p
  BY <1>2, <1>3 DEF Position
<1> QED
  BY <1>1, <1>4

LEMMA Reads ==
  ASSUME TypeOK, NEW c \in Commands, ReadPid(c), pidfile # NoPid
  PROVE  /\ at'[c].pc = "check" /\ at'[c].wasRunning = at[c].wasRunning
         /\ at'[c].name = at[c].name /\ at'[c].child = at[c].child /\ at'[c].victim = pidfile
<1>1. at'[c] = [at[c] EXCEPT !.victim = pidfile, !.pc = "check"]
  BY DEF ReadPid, TypeOK
<1>2. at[c] \in Position
  BY DEF TypeOK
<1> QED
  BY <1>1, <1>2 DEF Position

\* Where its pids come from.
LEMMA Records ==
  ASSUME TypeOK, NEW c \in Commands, Step(c)
  PROVE  /\ ours \subseteq ours'
         /\ at'[c].child \in {at[c].child, NoPid} \cup ours'
         /\ at'[c].victim \in {at[c].victim, pidfile, NoPid}
         /\ pidfile' \in {pidfile, NoPid, at[c].child}
<1> USE DEF Started, Stopped, world
<1>1. CASE WasRunning(c)
  BY <1>1, Sees DEF WasRunning
<1>2. CASE Running(c) \/ Refuse(c) \/ Poll(c) \/ Ask(c) \/ StartTimesOut(c)
  BY <1>2, GoesOn, Ends DEF Running, Refuse, Poll, Ask, StartTimesOut
<1>3. CASE Spawn(c)
  BY <1>3, Spawns DEF Spawn
<1>4. CASE Record(c) \/ Configure(c) \/ ConfigureFails(c)
  BY <1>4, GoesOn, Ends DEF Record, Configure, ConfigureFails
<1>5. CASE ReadPid(c)
  <2>1. CASE pidfile # NoPid
    BY <1>5, <2>1, Reads DEF ReadPid
  <2> QED
    BY <1>5, <2>1, GoesOn, Ends DEF ReadPid
<1>6. CASE Check(c) \/ Kill(c) \/ Drain(c) \/ Clear(c)
  BY <1>6, GoesOn, Ends DEF Check, Kill, Drain, Clear
<1>7. CASE Restore(c) \/ RestoreFails(c)
  BY <1>7, Ends DEF Restore, RestoreFails
<1> QED
  BY <1>1, <1>2, <1>3, <1>4, <1>5, <1>6, <1>7 DEF Step

\* No step of a command brings in a pid that is not of a spawned process.
LEMMA StepOwned ==
  ASSUME TypeOK, Owned, NEW c \in Commands, Step(c)
  PROVE  Owned'
<1> SUFFICES ASSUME ~host.recycles, NEW p \in Pids,
                    p = pidfile' \/ \E d \in Commands : at'[d].child = p \/ at'[d].victim = p
             PROVE  p \in ours'
  BY Moves DEF Owned
<1>1. ours \subseteq ours' /\ p # NoPid
  BY Records, LifecycleAssumption
<1>2. CASE p = pidfile'
  BY <1>1, <1>2, Records DEF Owned
<1>3. ASSUME NEW d \in Commands, at'[d].child = p \/ at'[d].victim = p PROVE p \in ours'
  <2>1. CASE d = c
    BY <1>1, <1>3, <2>1, Records DEF Owned
  <2>2. CASE d # c
    <3>1. at'[d] = at[d]
      BY <2>2, Moves DEF TypeOK
    <3> QED
      BY <1>1, <1>3, <3>1 DEF Owned
  <2> QED
    BY <2>1, <2>2
<1> QED
  BY <1>2, <1>3

-----------------------------------------------------------------------------
(* The steps that are not a command's.                                     *)

\* What they do to a process.  None of a child of a command that is under way is given away,
\* and a gateway that is ready stays so unless it crashes.
LEMMA Processes ==
  ASSUME TypeOK, NEW p \in Pids, ComesUp(p) \/ Exits(p) \/ LaunchElsewhere(p) \/ Recycle(p)
  PROVE  /\ UNCHANGED <<host, pidfile, routed, at, calls>>
         /\ TypeOK'
         /\ ~host.recycles => ours' = ours
         /\ \A q \in Pids : q # p => proc'[q] = proc[q]
         /\ proc'[p] # "signalled"
         /\ ~host.crashes /\ proc[p] = "ready" => proc'[p] = "ready"
         /\ \A c \in Commands :
              ~At(c, "idle") /\ at[c].child = p /\ proc[p] \in {"signalled", "free"}
              => proc'[p] = "free"
<1> USE DEF TypeOK, Becomes, States
<1>1. CASE ComesUp(p)
  BY <1>1 DEF ComesUp
<1>2. CASE Exits(p)
  BY <1>2 DEF Exits
<1>3. CASE LaunchElsewhere(p)
  BY <1>3 DEF LaunchElsewhere, Free
<1>4. CASE Recycle(p)
  BY <1>4 DEF Recycle, Free
<1> QED
  BY <1>1, <1>2, <1>3, <1>4

LEMMA ProcessesKeep ==
  ASSUME IInv, NEW p \in Pids, ComesUp(p) \/ Exits(p) \/ LaunchElsewhere(p) \/ Recycle(p)
  PROVE  IInv'
<1> USE Processes DEF IInv
<1>1. TypeOK'
  OBVIOUS
<1>2. Owned'
  BY DEF Owned
<1>3. Smooth' => InTurn'
  <2> SUFFICES ASSUME ~host.crashes, InTurn PROVE InTurn'
    BY DEF Smooth
  <2>1. Alone'
    BY DEF InTurn, Alone, At
  <2>2. Signalling'
    BY DEF InTurn, Signalling, At
  <2>3. Upheld'
    <3>1. Up => Up'
      BY DEF Up
    <3> QED
      BY <3>1 DEF InTurn, Upheld, Seen
  <2>4. ASSUME NEW c \in Commands PROVE Knows(c)'
    BY DEF InTurn, Knows
  <2> QED
    BY <2>1, <2>2, <2>3, <2>4 DEF InTurn
<1> QED
  BY <1>1, <1>2, <1>3

-----------------------------------------------------------------------------
(* Commands that take turns.                                               *)

\* A step of the one command under way: it is enough to look at that one.
LEMMA OneByOne ==
  ASSUME IInv, Smooth, NEW c \in Commands, ~At(c, "idle"), TypeOK',
         \A d \in Commands : d # c => at'[d] = at[d],
         \A p \in Pids : proc'[p] = "signalled" => at'[c].pc = "drain" /\ at'[c].victim = p,
         Seen(c)' => Up', Knows(c)'
  PROVE  InTurn'
<1>1. \A d \in Commands : d # c => at'[d].pc = "idle"
  BY DEF IInv, InTurn, Alone, At
<1>2. Alone'
  BY <1>1 DEF Alone, At
<1>3. Signalling'
  BY DEF Signalling, At
<1>4. Upheld'
  BY <1>1 DEF Upheld, Seen, Up
<1>5. ASSUME NEW d \in Commands, d # c PROVE Knows(d)'
  BY <1>1, <1>5 DEF IInv, InTurn, Knows
<1> QED
  BY <1>2, <1>3, <1>4, <1>5 DEF InTurn

\* Nothing is going away but what a command waits for.
LEMMA Quiet ==
  ASSUME IInv, Smooth, NEW c \in Commands, ~At(c, "idle"), ~At(c, "drain")
  PROVE  /\ \A p \in Pids : proc[p] # "signalled"
         /\ Reachable => Up
<1>1. \A p \in Pids : proc[p] # "signalled"
  BY DEF IInv, InTurn, Alone, Signalling, At
<1> QED
  BY <1>1 DEF Reachable, Answering, Up

\* Steps that leave the processes alone, of a command that waits for none.
LEMMA Looking ==
  ASSUME IInv, Smooth, NEW c \in Commands, Step(c), ~At(c, "idle"), ~At(c, "drain"),
         UNCHANGED proc, Seen(c)' => Up, Knows(c)'
  PROVE  InTurn'
<1>1. TypeOK' /\ \A d \in Commands : d # c => at'[d] = at[d]
  BY StepTypes, Moves DEF IInv, TypeOK
<1>2. \A p \in Pids : proc'[p] # "signalled"
  BY Quiet
<1>3. Up' = Up
  BY DEF Up
<1> QED
  BY <1>1, <1>2, <1>3, OneByOne

\* A command that has ended has nothing to keep.
LEMMA Ending ==
  ASSUME TypeOK, NEW c \in Commands, NEW result, End(c, result)
  PROVE  ~Seen(c)' /\ Knows(c)'
BY Ends DEF Seen, Knows

\* Before there is a gateway.
LEMMA StartsInTurn ==
  ASSUME IInv, Smooth, NEW c \in Commands, Step(c),
         WasRunning(c) \/ Running(c) \/ Refuse(c) \/ Poll(c) \/ Ask(c)
  PROVE  InTurn'
<1> USE DEF At
<1>0. TypeOK /\ Knows(c) /\ (Seen(c) => Up)
  BY DEF IInv, InTurn, Upheld
<1>1. ~At(c, "idle") /\ ~At(c, "drain") /\ UNCHANGED proc /\ UNCHANGED pidfile
  BY DEF WasRunning, Running, Refuse, Poll, Ask, world
<1>2. Reachable => Up
  BY <1>1, Quiet
<1>3. ASSUME NEW result, End(c, result) PROVE InTurn'
  BY <1>0, <1>1, <1>3, Ending, Looking
<1>4. CASE WasRunning(c)
  <2>1. at[c].pc = "was running" /\ at[c].name = "connect" /\ at[c].child = NoPid
    BY <1>0, <1>4 DEF WasRunning, Knows
  <2> QED
    BY <1>0, <1>1, <1>2, <1>4, <2>1, Sees, Looking DEF Seen, Knows
<1>5. CASE Running(c)
  <2>1. at[c].pc = "running" /\ at[c].child = NoPid
    BY <1>0, <1>5 DEF Running, Knows
  <2>2. CASE Reachable /\ at[c].name = "connect"
    <3>1. Go(c, "configure")
      BY <1>5, <2>2 DEF Running, Started
    <3>2. at'[c].pc = "configure" /\ at'[c].name = "connect" /\ at'[c].child = NoPid
      BY <1>0, <2>1, <2>2, <3>1, GoesOn
    <3>3. Knows(c)'
      BY <3>2 DEF Knows
    <3> QED
      BY <1>1, <1>2, <2>2, <3>3, Looking
  <2>3. CASE Reachable /\ at[c].name # "connect"
    BY <1>3, <1>5, <2>3 DEF Running, Started
  <2>4. CASE ~Reachable
    <3>1. Go(c, "spawn")
      BY <1>5, <2>4 DEF Running
    <3>2. ~at[c].wasRunning
      BY <1>0, <2>1, <2>4 DEF Seen, Up, Reachable, Answering
    <3>3. at'[c].pc = "spawn" /\ at'[c].wasRunning = at[c].wasRunning /\ at'[c].child = NoPid
      BY <1>0, <2>1, <3>1, GoesOn
    <3>4. ~Seen(c)' /\ Knows(c)'
      BY <3>2, <3>3 DEF Seen, Knows
    <3> QED
      BY <1>1, <3>4, Looking
  <2> QED
    BY <2>2, <2>3, <2>4
<1>6. CASE Refuse(c)
  BY <1>3, <1>6 DEF Refuse
<1>9. ASSUME NEW point \in {"poll", "ask", "record"}, Go(c, point),
             at[c].child # NoPid, at[c].wasRunning = FALSE
      PROVE  Knows(c)' /\ (point # "record" => ~Seen(c)')
  <2>1. at'[c].pc = point /\ at'[c].child # NoPid /\ at'[c].wasRunning = FALSE
    BY <1>0, <1>9, GoesOn
  <2> QED
    BY <1>9, <2>1 DEF Seen, Knows
<1>7. CASE Poll(c)
  <2>1. at[c].pc = "poll" /\ at[c].child # NoPid /\ at[c].wasRunning = FALSE
    BY <1>0, <1>7 DEF Poll, Knows, TypeOK, Position
  <2>2. CASE Go(c, "ask")
    BY <1>1, <1>9, <2>1, <2>2, Looking
  <2> QED
    BY <1>3, <1>7, <2>2 DEF Poll
<1>8. CASE Ask(c)
  <2>1. at[c].pc = "ask" /\ at[c].child # NoPid /\ at[c].wasRunning = FALSE
    BY <1>0, <1>8 DEF Ask, Knows, TypeOK, Position
  <2>2. CASE Reachable /\ Go(c, "record")
    BY <1>1, <1>2, <1>9, <2>1, <2>2, Looking
  <2>3. CASE Go(c, "poll")
    BY <1>1, <1>9, <2>1, <2>3, Looking
  <2> QED
    BY <1>8, <2>2, <2>3 DEF Ask
<1> QED
  BY <1>4, <1>5, <1>6, <1>7, <1>8

\* The child it spawns is its own.
LEMMA SpawnInTurn ==
  ASSUME IInv, Smooth, NEW c \in Commands, Step(c), Spawn(c)
  PROVE  InTurn'
<1>1. /\ TypeOK /\ TypeOK' /\ Knows(c) /\ at[c].pc = "spawn"
      /\ \A d \in Commands : d # c => at'[d] = at[d]
  BY StepTypes, Moves DEF IInv, InTurn, TypeOK, Spawn, At
<1>2. \A p \in Pids : proc[p] # "signalled"
  BY <1>1, Quiet DEF At
<1>3. \A p \in Pids : proc'[p] # "signalled"
  BY <1>1, <1>2, Spawns DEF TypeOK
<1>4. at'[c].pc = "poll" /\ at'[c].child # NoPid /\ at'[c].wasRunning = FALSE
  BY <1>1, Spawns, LifecycleAssumption DEF Knows, TypeOK, Position
<1>5. ~Seen(c)' /\ Knows(c)'
  BY <1>4 DEF Seen, Knows
<1> QED
  BY <1>1, <1>3, <1>5, OneByOne DEF At

\* From the record to the roll-back: the gateway that answered still does.
LEMMA RecordInTurn ==
  ASSUME IInv, Smooth, NEW c \in Commands, Step(c),
         Record(c) \/ Configure(c) \/ ConfigureFails(c)
  PROVE  InTurn'
<1>1. /\ TypeOK /\ Knows(c) /\ (Seen(c) => Up)
      /\ at[c].pc \in {"record", "configure"} /\ UNCHANGED proc
  BY DEF IInv, InTurn, Upheld, Record, Configure, ConfigureFails, world, At
<1>2. Up /\ ~At(c, "idle") /\ ~At(c, "drain")
  BY <1>1 DEF Seen, At
<1>3. ASSUME NEW result, End(c, result) PROVE InTurn'
  BY <1>1, <1>2, <1>3, Ending, Looking
<1>4. CASE Record(c) /\ Go(c, "configure") /\ at[c].name = "connect"
  <2>1. /\ at'[c].pc = "configure" /\ at'[c].name = "connect" /\ pidfile' = at'[c].child
        /\ at'[c].wasRunning = at[c].wasRunning
    BY <1>1, <1>4, GoesOn DEF Record
  <2>2. at[c].wasRunning = FALSE
    BY <1>1, <1>4 DEF Record, At, Knows, TypeOK, Position
  <2>3. Knows(c)'
    BY <2>1, <2>2 DEF Knows
  <2> QED
    BY <1>1, <1>2, <2>3, Looking
<1>5. CASE ConfigureFails(c) /\ Go(c, "read pid") /\ ~at[c].wasRunning
  <2>1. /\ at'[c].pc = "read pid" /\ at'[c].name = at[c].name /\ at'[c].child = at[c].child
        /\ at'[c].wasRunning = FALSE /\ pidfile' = pidfile /\ at[c].pc = "configure"
    <3>1. UNCHANGED <<pidfile, proc>> /\ at[c].pc = "configure"
      BY <1>1, <1>5 DEF ConfigureFails, world, At
    <3>2. at[c].wasRunning = FALSE
      BY <1>1, <1>5 DEF TypeOK, Position
    <3> QED
      BY <1>1, <1>5, <3>1, <3>2, GoesOn
  <2>2. Knows(c)'
    BY <1>1, <2>1 DEF Knows
  <2> QED
    BY <1>1, <1>2, <2>2, Looking
<1> QED
  BY <1>3, <1>4, <1>5 DEF Record, Started, Configure, ConfigureFails

\* The steps of a stop that look and forget.
LEMMA StopInTurn ==
  ASSUME IInv, Smooth, NEW c \in Commands, Step(c), ReadPid(c) \/ Check(c) \/ Clear(c)
  PROVE  InTurn'
<1>1. /\ TypeOK /\ Knows(c) /\ (Seen(c) => Up)
      /\ at[c].pc \in {"read pid", "check", "clear"} /\ UNCHANGED proc
      /\ at[c].wasRunning = FALSE
  BY DEF IInv, InTurn, Upheld, ReadPid, Check, Clear, world, At, Knows, TypeOK, Position
<1>2. ~At(c, "idle") /\ ~At(c, "drain")
  BY <1>1 DEF At
<1>3. ASSUME Stopped(c) PROVE InTurn'
  <2>1. CASE at[c].name = "connect"
    BY <1>1, <1>2, <1>3, <2>1, Ending, Looking DEF Stopped
  <2>2. CASE at[c].name # "connect"
    <3>1. at'[c].pc = "restore" /\ at'[c].name # "connect" /\ at'[c].wasRunning = FALSE
      BY <1>1, <1>3, <2>2, GoesOn DEF Stopped
    <3>2. ~Seen(c)' /\ Knows(c)'
      BY <3>1 DEF Seen, Knows
    <3> QED
      BY <1>1, <1>2, <3>2, Looking
  <2> QED
    BY <2>1, <2>2
<1>4. CASE ReadPid(c) /\ pidfile # NoPid
  <2>1. /\ at'[c].pc = "check" /\ at'[c].name = at[c].name /\ at'[c].child = at[c].child
        /\ at'[c].wasRunning = FALSE /\ at'[c].victim = pidfile /\ at[c].pc = "read pid"
    BY <1>1, <1>4, Reads DEF ReadPid, At
  <2>2. Knows(c)' /\ (Seen(c)' => Seen(c))
    BY <1>1, <2>1 DEF Seen, Knows
  <2> QED
    BY <1>1, <1>2, <2>2, Looking
<1>5. CASE Check(c) /\ Go(c, "kill")
  <2>1. /\ at'[c].pc = "kill" /\ at'[c].name = at[c].name /\ at'[c].child = at[c].child
        /\ at'[c].wasRunning = FALSE /\ at'[c].victim = at[c].victim /\ at[c].pc = "check"
    BY <1>1, <1>5, GoesOn DEF Check, At
  <2>2. Knows(c)' /\ (Seen(c)' => Seen(c))
    BY <1>1, <2>1 DEF Seen, Knows
  <2> QED
    BY <1>1, <1>2, <2>2, Looking
<1> QED
  BY <1>3, <1>4, <1>5 DEF ReadPid, Check, Clear

LEMMA KillInTurn ==
  ASSUME IInv, Smooth, NEW c \in Commands, Step(c), Kill(c)
  PROVE  InTurn'
<1>1. /\ TypeOK /\ TypeOK' /\ Knows(c) /\ at[c].pc = "kill"
      /\ \A d \in Commands : d # c => at'[d] = at[d]
  BY StepTypes, Moves DEF IInv, InTurn, TypeOK, Kill, At
<1>2. \A p \in Pids : proc[p] # "signalled"
  BY <1>1, Quiet DEF At
<1>3. /\ at'[c].pc = "drain" /\ at'[c].name = at[c].name /\ at'[c].child = at[c].child
      /\ at'[c].wasRunning = at[c].wasRunning /\ at'[c].victim = at[c].victim
  BY <1>1, GoesOn DEF Kill
<1>4. /\ \A p \in Pids : p # at[c].victim => proc'[p] = proc[p]
      /\ at[c].victim \in Pids => proc'[at[c].victim] \in {"signalled", "free"}
  BY <1>1 DEF Kill, Becomes, TypeOK
<1>5. \A p \in Pids : proc'[p] = "signalled" => at'[c].pc = "drain" /\ at'[c].victim = p
  BY <1>2, <1>3, <1>4
<1>6. ~Seen(c)' /\ Knows(c)'
  BY <1>1, <1>3 DEF Seen, Knows
<1> QED
  BY <1>1, <1>5, <1>6, OneByOne DEF At

\* The wait ends only when the gateway it is for is gone.
LEMMA DrainInTurn ==
  ASSUME IInv, Smooth, NEW c \in Commands, Step(c), Drain(c)
  PROVE  InTurn'
<1>1. /\ TypeOK /\ TypeOK' /\ Knows(c) /\ at[c].pc = "drain" /\ proc' = proc
      /\ \A d \in Commands : d # c => at'[d] = at[d]
  BY StepTypes, Moves DEF IInv, InTurn, TypeOK, Drain, At, world
<1>2. ASSUME NEW p \in Pids, proc[p] = "signalled" PROVE FALSE
  <2>1. PICK d \in Commands : At(d, "drain") /\ at[d].victim = p
    BY <1>2 DEF IInv, InTurn, Signalling
  <2>2. d = c
    BY <1>1, <2>1 DEF IInv, InTurn, Alone, At
  <2> QED
    BY <1>2, <2>1, <2>2 DEF Drain, Smooth, Reachable, Answering
<1>3. /\ at'[c].pc = "clear" /\ at'[c].name = at[c].name /\ at'[c].child = at[c].child
      /\ at'[c].wasRunning = at[c].wasRunning
  BY <1>1, GoesOn DEF Drain
<1>4. ~Seen(c)' /\ Knows(c)'
  BY <1>1, <1>3 DEF Seen, Knows
<1> QED
  BY <1>1, <1>2, <1>4, OneByOne DEF At

LEMMA StepInTurn == ASSUME IInv, Smooth, NEW c \in Commands, Step(c) PROVE InTurn'
<1>1. CASE StartTimesOut(c)
  BY <1>1 DEF StartTimesOut, Smooth
<1>2. CASE Restore(c) \/ RestoreFails(c)
  <2>1. ~At(c, "idle") /\ ~At(c, "drain") /\ UNCHANGED proc /\ \E result : End(c, result)
    BY <1>2 DEF Restore, RestoreFails, world, At
  <2> QED
    BY <2>1, Ending, Looking DEF IInv
<1> QED
  BY <1>1, <1>2, StartsInTurn, SpawnInTurn, RecordInTurn, StopInTurn, KillInTurn, DrainInTurn
     DEF Step

-----------------------------------------------------------------------------
(* Calls.                                                                  *)

LEMMA CallKeeps ==
  ASSUME IInv, NEW c \in Commands,
         NEW name \in {"connect", "banner", "disconnect", "stop"}, NEW scope \in Scopes,
         NEW point \in {"was running", "running", "restore", "read pid"},
         Call(c, name, scope, point), point = "was running" <=> name = "connect"
  PROVE  IInv'
<1> DEFINE now == [Idle EXCEPT !.name = name, !.scope = scope, !.pc = point]
<1>1. /\ now \in Position /\ now.pc = point /\ now.name = name /\ now.child = NoPid
      /\ now.victim = NoPid /\ now.wasRunning = FALSE
  BY IdleIs DEF Position, Points, Idle
<1>2. at' = [at EXCEPT ![c] = now] /\ UNCHANGED <<host, proc, ours, pidfile, routed>>
  BY DEF Call, world
<1> HIDE DEF now
<1>3. at'[c] = now /\ \A d \in Commands : d # c => at'[d] = at[d]
  BY <1>2 DEF IInv, TypeOK
<1>4. TypeOK'
  BY <1>1, <1>2 DEF IInv, TypeOK
<1>5. Owned'
  <2>1. /\ ~host.recycles => (\A p \in Pids : p = pidfile => p \in ours)
        /\ \A p \in Pids : p # NoPid
    BY LifecycleAssumption DEF IInv, Owned
  <2>2. ASSUME ~host.recycles, NEW p \in Pids, NEW d \in Commands,
               at'[d].child = p \/ at'[d].victim = p
        PROVE  p \in ours
    <3>1. d # c
      BY <1>1, <1>3, <2>1, <2>2
    <3>2. at[d].child = p \/ at[d].victim = p
      BY <1>3, <2>2, <3>1
    <3> QED
      BY <2>2, <3>2 DEF IInv, Owned
  <2> QED
    BY <1>2, <2>1, <2>2 DEF Owned
<1>6. ASSUME Smooth PROVE InTurn'
  <2>1. \A d \in Commands : At(d, "idle")
    BY <1>6 DEF Call, Smooth
  <2>2. Alone'
    BY <1>3, <2>1 DEF Alone, At
  <2>3. Signalling'
    BY <1>2, <1>6, <2>1 DEF IInv, InTurn, Signalling, At
  <2>4. ~Seen(c)' /\ Knows(c)'
    BY <1>1, <1>3 DEF Seen, Knows
  <2>5. ASSUME NEW d \in Commands, d # c PROVE ~Seen(d)' /\ Knows(d)'
    BY <1>3, <1>6, <2>1, <2>5 DEF IInv, InTurn, Seen, Knows, At
  <2> QED
    BY <2>2, <2>3, <2>4, <2>5 DEF InTurn, Upheld
<1> QED
  BY <1>2, <1>4, <1>5, <1>6 DEF IInv, Smooth

LEMMA NextInvariant == IInv /\ [Next]_vars => IInv'
<1> SUFFICES ASSUME IInv, [Next]_vars PROVE IInv'
  OBVIOUS
<1>1. CASE UNCHANGED vars
  <2>1. UNCHANGED <<host, proc, ours, pidfile, at>>
    BY <1>1 DEF vars
  <2>2. TypeOK' /\ Owned'
    BY <2>1 DEF IInv, TypeOK, Owned
  <2>3. ASSUME InTurn PROVE Alone' /\ Signalling'
    BY <2>1, <2>3 DEF InTurn, Alone, Signalling, At
  <2>4. ASSUME InTurn PROVE Upheld'
    BY <2>1, <2>4 DEF InTurn, Upheld, Up, Seen
  <2>5. ASSUME InTurn, NEW c \in Commands PROVE Knows(c)'
    BY <2>1, <2>5 DEF InTurn, Knows
  <2> QED
    BY <2>1, <2>2, <2>3, <2>4, <2>5 DEF IInv, InTurn, Smooth
<1>2. ASSUME NEW c \in Commands, NEW scope \in Scopes, Connect(c, scope) \/ Disconnect(c, scope)
      PROVE  IInv'
  <2>1. CASE Connect(c, scope)
    BY <2>1, CallKeeps DEF Connect
  <2>2. CASE Disconnect(c, scope)
    BY <2>2, CallKeeps DEF Disconnect
  <2> QED
    BY <1>2, <2>1, <2>2
<1>3. ASSUME NEW c \in Commands, Banner(c) \/ StopCommand(c) PROVE IInv'
  <2>1. CASE Banner(c)
    BY <2>1, CallKeeps, LifecycleAssumption DEF Banner
  <2>2. CASE StopCommand(c)
    BY <2>2, CallKeeps, LifecycleAssumption DEF StopCommand
  <2> QED
    BY <1>3, <2>1, <2>2
<1>4. ASSUME NEW c \in Commands, Step(c) PROVE IInv'
  BY <1>4, StepTypes, StepOwned, StepInTurn, Moves DEF IInv, Smooth
<1>5. ASSUME NEW p \in Pids, ComesUp(p) \/ Exits(p) \/ LaunchElsewhere(p) \/ Recycle(p) PROVE IInv'
  BY <1>5, ProcessesKeep
<1> QED
  BY <1>1, <1>2, <1>3, <1>4, <1>5 DEF Next

LEMMA InvariantAlways == Spec => []IInv
BY InitInvariant, NextInvariant, PTL DEF Spec

-----------------------------------------------------------------------------
(* The theorems.                                                           *)

\* Only its own steps move a command that is under way.
LEMMA Mover ==
  ASSUME IInv, [Next]_vars, NEW c \in Commands, ~At(c, "idle"), at'[c] # at[c]
  PROVE  Step(c)
<1>1. ASSUME NEW d \in Commands, NEW name, NEW scope, NEW point, Call(d, name, scope, point)
      PROVE  FALSE
  <2>1. d # c
    BY <1>1 DEF Call
  <2> QED
    BY <1>1, <2>1 DEF Call, IInv, TypeOK
<1>2. ASSUME NEW d \in Commands, NEW scope,
             Connect(d, scope) \/ Disconnect(d, scope) \/ Banner(d) \/ StopCommand(d)
      PROVE  FALSE
  BY <1>1, <1>2 DEF Connect, Disconnect, Banner, StopCommand
<1>3. ASSUME NEW d \in Commands, Step(d) PROVE d = c
  <2>1. at' = [at EXCEPT ![d] = at'[d]]
    BY <1>3, Moves DEF IInv
  <2> QED
    BY <2>1 DEF IInv, TypeOK
<1>4. ASSUME NEW p \in Pids, ComesUp(p) \/ Exits(p) \/ LaunchElsewhere(p) \/ Recycle(p) PROVE FALSE
  <2>1. at' = at
    BY <1>4, Processes DEF IInv
  <2> QED
    BY <2>1
<1>5. Next
  BY DEF vars
<1> QED
  BY <1>2, <1>3, <1>4, <1>5 DEF Next

\* The steps at which a command ends, and how.
LEMMA Endings ==
  ASSUME TypeOK, NEW c \in Commands, Step(c), at'[c].pc = "idle"
  PROVE  \/ Running(c) /\ Reachable /\ End(c, "ok")
         \/ Refuse(c) \/ StartTimesOut(c) \/ RestoreFails(c) \/ Configure(c) \/ Restore(c)
         \/ Poll(c) /\ proc[at[c].child] = "free" /\ End(c, "error")
         \/ Record(c) /\ End(c, "ok")
         \/ ConfigureFails(c) /\ at[c].wasRunning /\ End(c, "error")
         \/ ReadPid(c) /\ pidfile = NoPid /\ End(c, "error")
         \/ Check(c) /\ ~Reachable /\ End(c, "error")
         \/ Clear(c) /\ End(c, "error")
<1>1. ASSUME NEW point, point # "idle", Go(c, point) PROVE FALSE
  BY <1>1, GoesOn
<1>2. ~WasRunning(c)
  BY Sees
<1>3. ~Spawn(c)
  BY Spawns
<1>4. ~(ReadPid(c) /\ pidfile # NoPid)
  BY Reads
<1>5. ~(Ask(c) \/ Kill(c) \/ Drain(c))
  BY <1>1 DEF Ask, Kill, Drain
<1>6. /\ Started(c) => End(c, "ok")
      /\ Stopped(c) => End(c, "error")
  BY <1>1 DEF Started, Stopped
<1>7. Running(c) => Reachable /\ End(c, "ok")
  BY <1>1, <1>6 DEF Running
<1>8. Poll(c) => proc[at[c].child] = "free" /\ End(c, "error")
  BY <1>1 DEF Poll
<1>9. Record(c) => End(c, "ok")
  BY <1>6 DEF Record
<1>10. ConfigureFails(c) => at[c].wasRunning /\ End(c, "error")
  BY <1>1 DEF ConfigureFails
<1>11. ReadPid(c) => pidfile = NoPid /\ End(c, "error")
  BY <1>4, <1>6 DEF ReadPid
<1>12. Check(c) => ~Reachable /\ End(c, "error")
  BY <1>1, <1>6 DEF Check
<1>13. Clear(c) => End(c, "error")
  BY <1>6 DEF Clear
<1> QED
  BY <1>2, <1>3, <1>5, <1>7, <1>8, <1>9, <1>10, <1>11, <1>12, <1>13 DEF Step

\* Where the system does not give pids away, no command ends a process that no command started,
\* whatever crashes, is slow or overlaps (cli.py: stop_gateway and its pid file).
THEOREM OnlyOwnStoppedAlways == Spec => OnlyOwnStopped
<1>1. IInv /\ [Next]_vars
        => [~host.recycles =>
              \A p \in Pids :
                /\ \E c \in Commands : At(c, "kill") /\ at'[c].pc = "drain" /\ at'[c].victim = p
                /\ proc[p] # "free"
                => p \in ours]_vars
  <2> SUFFICES ASSUME IInv, [Next]_vars, ~host.recycles, NEW p \in Pids, NEW c \in Commands,
                      At(c, "kill"), at'[c].pc = "drain", at'[c].victim = p
               PROVE  p \in ours
    OBVIOUS
  <2>1. Step(c)
    BY Mover DEF At
  <2>2. p = at[c].victim \/ p = pidfile
    BY <2>1, Records, LifecycleAssumption DEF IInv
  <2> QED
    BY <2>2 DEF IInv, Owned
<1> QED
  BY <1>1, InvariantAlways, PTL DEF Spec, OnlyOwnStopped

\* Where nothing crashes or outlasts a wait and commands take turns, a command about the
\* user's settings that says it succeeded leaves them either not routed or with a gateway
\* that answers (cli.py: connect, stop, banner --start).
THEOREM DeadRouteAlwaysReported == Spec => DeadRouteIsReported
<1>1. IInv /\ [Next]_vars
        => [Smooth =>
              \A c \in Commands :
                at[c].scope = "user" /\ at[c].pc # "idle" /\ at'[c].pc = "idle"
                    /\ at'[c].result = "ok"
                  => "user" \notin routed' \/ Reachable']_vars
  <2> SUFFICES ASSUME IInv, [Next]_vars, Smooth, NEW c \in Commands, at[c].scope = "user",
                      at[c].pc # "idle", at'[c].pc = "idle", at'[c].result = "ok"
               PROVE  "user" \notin routed' \/ Reachable'
    OBVIOUS
  <2>1. Step(c) /\ TypeOK /\ (Seen(c) => Up)
    BY Mover DEF IInv, InTurn, Upheld, At
  <2>2. Up => Reachable
    BY DEF Up, Reachable, Answering
  <2>3. (UNCHANGED proc /\ Reachable) => Reachable'
    BY DEF Reachable, Answering
  <2>4. CASE Running(c) /\ Reachable
    BY <2>3, <2>4 DEF Running, world
  <2>5. CASE Record(c) \/ Configure(c)
    BY <2>1, <2>2, <2>3, <2>5 DEF Record, Configure, Seen, At
  <2>6. CASE Restore(c)
    BY <2>6 DEF Restore
  <2>7. ASSUME End(c, "error") PROVE FALSE
    <3>1. at'[c].result = "error"
      BY <2>1, <2>7 DEF End, TypeOK, Idle
    <3> QED
      BY <3>1
  <2>8. ~(Refuse(c) \/ StartTimesOut(c) \/ RestoreFails(c))
    BY <2>7 DEF Refuse, StartTimesOut, RestoreFails
  <2> QED
    BY <2>1, <2>4, <2>5, <2>6, <2>7, <2>8, Endings
<1> QED
  BY <1>1, InvariantAlways, PTL DEF Spec, DeadRouteIsReported

-----------------------------------------------------------------------------
(* What start-up prepares.                                                 *)


Stages   == {"idle", "looking", "loading", "locking", "locked", "done"}
Outcomes == {"unknown", "loaded", "failed"}

RTypes ==
  /\ serving \in BOOLEAN
  /\ counters \in [Encodings -> {"none", "exact", "heuristic"}]
  /\ encodings \in [Encodings -> Outcomes]
  /\ lock \in Jobs \cup {Nobody}
  /\ downloads \in [Encodings -> Nat] /\ failures \in [Encodings -> Nat]
  /\ pc \in [Jobs -> Stages]
  /\ got \in [Jobs -> {"none", "exact", "heuristic"}]

\* The counter of an encoding that is settled.
Counted(e) == IF encodings[e] = "loaded" THEN "exact" ELSE "heuristic"

\* Who holds the lock.
Exclusive == \A c \in Jobs : R!At(c, "locked") => lock = c

\* An encoding that is not settled has not been downloaded, and no counter of it is kept.
Settling ==
  \A e \in Encodings :
    /\ downloads[e] = IF encodings[e] = "unknown" THEN 0 ELSE 1
    /\ failures[e] = IF encodings[e] = "failed" THEN 1 ELSE 0
    /\ counters[e] # "none" => encodings[e] # "unknown" /\ counters[e] = Counted(e)

\* A job that looked for an encoding has its counter when it is done.
Counting ==
  \A c \in Jobs :
    /\ backend = "heuristic" => ~ pc[c] \in {"loading", "locking", "locked"}
    /\ R!At(c, "done") => IF backend = "heuristic" THEN got[c] = "heuristic"
                        ELSE encodings[Encoding(c)] # "unknown" /\ got[c] = Counted(Encoding(c))

\* Requests begin when start-up is over; those that wait have met an encoding not settled.
Prepared ==
  /\ serving => R!At(Prewarm, "done")
  /\ \A c \in Calls : ~R!At(c, "idle") => serving
  /\ \A c \in Calls : pc[c] \in {"locking", "locked"} => Encoding(c) # Default

RInv == RTypes /\ Settling /\ Counting /\ Prepared

-----------------------------------------------------------------------------
\* The jobs, their encodings, and what the instance calls them.
LEMMA JobsAre ==
  /\ R!Jobs = Jobs /\ R!Prewarm = Prewarm /\ R!Nobody = Nobody
  /\ Prewarm \in Jobs /\ Prewarm \notin Calls /\ Nobody \notin Jobs
  /\ Inline \subseteq Calls /\ Default \in Encodings /\ Models \in [Calls -> Encodings]
  /\ \A c \in Jobs : R!Encoding(c) = Encoding(c) /\ Encoding(c) \in Encodings
BY CallsAssumption DEF R!Jobs, R!Encoding, R!Prewarm, R!Nobody, Jobs, Encoding, Prewarm, Nobody

\* The invariant holds at first.
LEMMA RInitInvariant == ASSUME R!Init PROVE RInv
<1>1. RTypes
  BY JobsAre DEF R!Init, RTypes, Stages, Outcomes
<1>2. Settling
  BY DEF R!Init, Settling
<1>3. Counting /\ Prepared
  BY JobsAre DEF R!Init, Counting, Prepared, R!At, Jobs
<1> QED
  BY <1>1, <1>2, <1>3 DEF RInv

\* A job that begins.
LEMMA BeginKeeps ==
  ASSUME RInv, NEW c \in Jobs, R!Begin(c) PROVE RInv'
<1> USE JobsAre DEF RInv, R!Begin, R!At, R!Go, R!settings, R!health
<1>1. RTypes'
  BY DEF RTypes, Stages
<1>2. Settling'
  BY DEF Settling, Counted
<1>3. Counting'
  BY DEF Counting, Counted, RTypes, Encoding
<1>4. Prepared'
  BY DEF Prepared, RTypes, Encoding, Jobs
<1> QED
  BY <1>1, <1>2, <1>3, <1>4

\* A job that looks for a counter that is kept.
LEMMA LookKeeps ==
  ASSUME RInv, NEW c \in Jobs, R!Look(c) PROVE RInv'
<1> USE JobsAre
    DEF RInv, R!Look, R!Return, R!At, R!Go, R!settings, R!health
<1>1. RTypes'
  BY DEF RTypes, Stages
<1>2. Settling'
  BY DEF Settling, Counted
<1>3. Counting'
  BY DEF Counting, Counted, RTypes, Encoding, Settling
<1>4. Prepared'
  BY DEF Prepared, RTypes, Encoding, Jobs
<1> QED
  BY <1>1, <1>2, <1>3, <1>4

\* A job that finds its encoding settled, or goes for the lock; start-up has settled the
\* default encoding before any request gets here.
LEMMA LoadKeeps ==
  ASSUME RInv, NEW c \in Jobs, R!Load(c) PROVE RInv'
<1> USE JobsAre
    DEF RInv, R!Load, R!Keep, R!Unavailable, R!Return, R!At, R!Go,
        R!settings, R!health
<1>1. RTypes'
  BY DEF RTypes, Stages, Outcomes
<1>2. Settling'
  BY DEF Settling, Counted, RTypes, Outcomes
<1>3. Counting'
  BY DEF Counting, Counted, RTypes, Encoding, Outcomes
<1>4. Prepared'
  <2>1. c \in Calls /\ R!At(c, "locking")' => Encoding(c) # Default
    BY DEF Prepared, Counting, RTypes, Outcomes, Encoding, Jobs
  <2> QED
    BY <2>1 DEF Prepared, RTypes, Encoding, Jobs
<1> QED
  BY <1>1, <1>2, <1>3, <1>4

LEMMA LockKeeps ==
  ASSUME RInv, NEW c \in Jobs, R!Lock(c) PROVE RInv'
<1> USE JobsAre DEF RInv, R!Lock, R!At, R!Go, R!settings, R!health
<1>1. RTypes'
  BY DEF RTypes, Stages
<1>2. Settling'
  BY DEF Settling, Counted
<1>3. Counting'
  BY DEF Counting, Counted, RTypes, Encoding
<1>4. Prepared'
  BY DEF Prepared, RTypes, Encoding, Jobs
<1> QED
  BY <1>1, <1>2, <1>3, <1>4

\* A download settles an encoding that was not, and leaves one that was alone.
LEMMA DownloadSettles ==
  ASSUME RInv, NEW c \in Jobs, R!Download(c)
  PROVE  /\ encodings' \in [Encodings -> Outcomes]
         /\ encodings'[Encoding(c)] \in {"loaded", "failed"}
         /\ \A e \in Encodings : encodings[e] # "unknown" => encodings'[e] = encodings[e]
         /\ \A e \in Encodings : e # Encoding(c) => encodings'[e] = encodings[e]
BY JobsAre DEF RInv, RTypes, Outcomes, R!Download, R!Settled

LEMMA DownloadKeeps ==
  ASSUME RInv, NEW c \in Jobs, R!Download(c) PROVE RInv'
<1> USE JobsAre, DownloadSettles
    DEF RInv, R!Keep, R!Unavailable, R!Return, R!At, R!Go, R!settings, R!health
<1>0. backend # "heuristic"
  BY DEF Counting, R!Download
<1>1. RTypes'
  BY SMTT(20) DEF RTypes, Stages, Outcomes, R!Download, R!Settled
<1>2. Settling'
  <2>1. ASSUME NEW e \in Encodings
        PROVE  /\ downloads'[e] = IF encodings'[e] = "unknown" THEN 0 ELSE 1
               /\ failures'[e] = IF encodings'[e] = "failed" THEN 1 ELSE 0
    BY DEF Settling, RTypes, Outcomes, R!Download, R!Settled
  <2>2. ASSUME NEW e \in Encodings, counters'[e] # "none"
        PROVE  encodings'[e] # "unknown" /\ counters'[e] = Counted(e)'
    BY <2>2 DEF Settling, RTypes, Outcomes, R!Download, Counted
  <2> QED
    BY <2>1, <2>2 DEF Settling
<1>3. Counting'
  BY <1>0 DEF Counting, Counted, RTypes, Encoding, Outcomes, R!Download
<1>4. Prepared'
  BY DEF Prepared, RTypes, Encoding, Jobs, R!Download
<1> QED
  BY <1>1, <1>2, <1>3, <1>4

\* Every step keeps the invariant; the readiness checks touch none of it.
LEMMA RNextInvariant == RInv /\ [R!Next]_(R!vars) => RInv'
<1> SUFFICES ASSUME RInv, [R!Next]_(R!vars) PROVE RInv'
  OBVIOUS
<1>1. ASSUME UNCHANGED <<backend, serving, R!tokenizer>> PROVE RInv'
  BY <1>1 DEF RInv, RTypes, Settling, Counting, Prepared, Counted, R!At, R!tokenizer, Encoding
<1>2. CASE UNCHANGED R!vars
  BY <1>1, <1>2 DEF R!vars, R!tokenizer
<1>3. ASSUME NEW c \in Jobs, R!Work(c) PROVE RInv'
  BY <1>3, BeginKeeps, LookKeeps, LoadKeeps, LockKeeps, DownloadKeeps DEF R!Work
<1>4. CASE R!Serve
  BY <1>4, JobsAre DEF R!Serve, R!settings, R!tokenizer, R!health, RInv, RTypes, Settling, Counting,
              Prepared, Counted, R!At, Encoding
<1>5. ASSUME NEW k \in Checks, R!Arrive(k) \/ R!Ping(k) \/ R!Serves(k) PROVE RInv'
  BY <1>1, <1>5 DEF R!Arrive, R!Ping, R!Serves, R!Resolve, R!Pong, R!TimeOut, R!settings
<1> QED
  BY <1>2, <1>3, <1>4, <1>5, JobsAre DEF R!Next

LEMMA RInvariantAlways == R!Spec => []RInv
<1>1. RInv /\ [R!Next]_(R!vars) => RInv'
  BY RNextInvariant
<1> QED
  BY <1>1, RInitInvariant, PTL DEF R!Spec

-----------------------------------------------------------------------------
(* The lock.                                                               *)

\* Only a holder of the lock is where it is needed.
LEMMA NextExclusive == RInv /\ Exclusive /\ [R!Next]_(R!vars) => Exclusive'
<1> SUFFICES ASSUME RInv, Exclusive, [R!Next]_(R!vars) PROVE Exclusive'
  OBVIOUS
<1> USE DEF Exclusive, R!At, R!Go, RInv, RTypes
<1>1. ASSUME UNCHANGED <<lock, pc>> PROVE Exclusive'
  BY <1>1
<1>2. ASSUME NEW c \in Jobs, R!Work(c) PROVE Exclusive'
  <2>1. CASE R!Begin(c) \/ R!Look(c) \/ R!Load(c)
    BY <2>1 DEF R!Begin, R!Look, R!Load, R!Keep, R!Unavailable, R!Return
  <2>2. CASE R!Lock(c)
    BY <2>2, JobsAre DEF R!Lock, Jobs, Prewarm, Nobody
  <2>3. CASE R!Download(c)
    BY <2>3 DEF R!Download, R!Keep, R!Unavailable, R!Return
  <2> QED
    BY <1>2, <2>1, <2>2, <2>3 DEF R!Work
<1>3. CASE R!Serve
  BY <1>1, <1>3 DEF R!Serve, R!tokenizer
<1>4. ASSUME NEW k \in Checks, R!Arrive(k) \/ R!Ping(k) \/ R!Serves(k) PROVE Exclusive'
  BY <1>1, <1>4 DEF R!Arrive, R!Ping, R!Serves, R!Resolve, R!Pong, R!TimeOut, R!tokenizer
<1>5. CASE UNCHANGED R!vars
  BY <1>1, <1>5 DEF R!vars
<1> QED
  BY <1>2, <1>3, <1>4, <1>5, JobsAre DEF R!Next

\* One thread at a time settles an encoding: load_encoding is under _lock.
THEOREM LockExcludes == R!Spec => []Exclusive
<1>1. R!Init => Exclusive
  BY JobsAre DEF R!Init, Exclusive, R!At
<1> QED
  BY <1>1, NextExclusive, RInvariantAlways, PTL DEF R!Spec

-----------------------------------------------------------------------------
(* The theorems.                                                           *)

\* However many threads race for it, an encoding is downloaded at most once, and all who ask
\* for it get one counter; what is to become of one that could not be had where tiktoken was
\* asked for is left open (tokenizers/tiktoken_counter.py, registry.py).
THEOREM OneCounterAlways == R!Spec => []OneCounter
<1>1. RInv => OneCounter
  BY JobsAre DEF RInv, RTypes, Settling, Counting, OneCounter, Retries, R!At
<1> QED
  BY <1>1, RInvariantAlways, PTL

\* Once the gateway serves, no request on the loop waits for the default encoding
\* (main.py: prewarm before the first request).
THEOREM LoopStallsForStrangersOnlyAlways == R!Spec => []LoopStallsForStrangersOnly
<1>1. RInv => LoopStallsForStrangersOnly
  BY JobsAre DEF RInv, Prepared, LoopStallsForStrangersOnly
<1> QED
  BY <1>1, RInvariantAlways, PTL

\* What an encoding was found to be at first it is for the life of the process: no retry
\* turns an approximate counter into an exact one under way, though the comment in
\* registry.py says that one does where tiktoken was asked for.
THEOREM SettledForGood ==
  R!Spec => [][\A e \in Encodings : R!Settled(e) => encodings'[e] = encodings[e]]_(R!vars)
<1>1. RInv /\ [R!Next]_(R!vars)
        => [\A e \in Encodings : R!Settled(e) => encodings'[e] = encodings[e]]_(R!vars)
  <2> SUFFICES ASSUME RInv, R!Next, NEW e \in Encodings, R!Settled(e)
               PROVE  encodings'[e] = encodings[e]
    BY DEF RInv
  <2>1. ASSUME NEW c \in Jobs, R!Work(c) PROVE encodings'[e] = encodings[e]
    <3>1. CASE R!Download(c)
      BY <3>1, DownloadSettles DEF R!Settled
    <3> QED
      BY <2>1, <3>1 DEF R!Work, R!Begin, R!Look, R!Load, R!Lock
  <2>2. ASSUME NEW k \in Checks, R!Arrive(k) \/ R!Ping(k) \/ R!Serves(k)
        PROVE  encodings'[e] = encodings[e]
    BY <2>2 DEF R!Arrive, R!Ping, R!Serves, R!Resolve, R!Pong, R!TimeOut, R!tokenizer
  <2> QED
    BY <2>1, <2>2, JobsAre DEF R!Next, R!Serve, R!tokenizer
<1> QED
  BY <1>1, RInvariantAlways, PTL DEF R!Spec

-----------------------------------------------------------------------------
(* The plugins.                                                            *)

PluginStates == {"unknown", "loaded", "enabled", "disabled", "failed"}
PluginRecord ==
  [state : PluginStates, owner : Nat, transformer : BOOLEAN, sniffers : Seq(SnifferNames)]
Things(names) == [name : names, owner : Nat]
Worlds == [records  : [Names -> PluginRecord],
           registry : SUBSET Things(Names \cup BuiltIns \cup {Prompt}),
           detector : SUBSET Things(SnifferNames \cup BuiltInSniffers \cup {PromptSniffer})]

On(w, n)   == w.records[n].state = "enabled"
Mine(w, n) == [name |-> n, owner |-> w.records[n].owner]
\* The names of a plugin's sniffers, and the sniffers.
Brings(w, n) == {w.records[n].sniffers[i] : i \in DOMAIN w.records[n].sniffers}
Sniffer(w, n, s) == [name |-> s, owner |-> w.records[n].owner]
Ours(s) == [name |-> s, owner |-> Gateway]

\* A name with a record was loaded from one candidate, and no other name was.
Owners(w) ==
  /\ \A n \in Names : w.records[n].state # "unknown" => w.records[n].owner \in Candidates
  /\ \A m, n \in Names : /\ w.records[m].state # "unknown" /\ w.records[n].state # "unknown"
                         /\ w.records[m].owner = w.records[n].owner
                         => m = n

\* RegistryIsTheReport, of a world and thing by thing: the prompt switch may have taken
\* what goes by its own two names.
Truth(w) ==
  /\ \A b \in BuiltIns : Ours(b) \in w.registry
  /\ \A b \in BuiltInSniffers : Ours(b) \in w.detector
  /\ \A n \in Names : On(w, n) /\ n # Prompt => Mine(w, n) \in w.registry
  /\ \A t \in w.registry : t.owner # Gateway => \E n \in Names : On(w, n) /\ t = Mine(w, n)
  /\ \A n \in Names : On(w, n) =>
       \A s \in Brings(w, n) \ {PromptSniffer} : Sniffer(w, n, s) \in w.detector
  /\ \A t \in w.detector : t.owner # Gateway =>
       \E n \in Names : On(w, n) /\ \E s \in Brings(w, n) : t = Sniffer(w, n, s)
  /\ \A t, u \in w.registry : t.name = u.name => t = u
  /\ \A t, u \in w.detector : t.name = u.name => t = u

Good(w) == w \in Worlds /\ Owners(w) /\ Truth(w)

PluginsInv ==
  /\ phase \in {"loading", "attaching", "attached"} /\ next \in Nat
  /\ Good(World)
  /\ phase = "loading" =>
       \A n \in Names : records[n].state # "unknown" => records[n].owner < next

-----------------------------------------------------------------------------
(* What the operators on worlds do.                                        *)

\* The operations P calls are those of PluginWorld.
LEMMA SameOperations ==
  /\ P!NoRecord = NoRecord /\ P!World = World
  /\ \A w : P!Become(w) <=> Become(w)
  /\ \A w, n : P!Registered(w, n) = Registered(w, n) /\ P!Unregistered(w, n) = Unregistered(w, n)
  /\ \A w, on : P!Prompting(w, on) = Prompting(w, on)
  /\ P!Gateway = Gateway /\ P!Prompt = Prompt
<1>1. /\ P!Gateway = Gateway /\ P!Prompt = Prompt /\ P!PromptSniffer = PromptSniffer
  BY DEF P!Gateway, Gateway, P!Prompt, Prompt, P!PromptSniffer, PromptSniffer
<1>2. P!NoRecord = NoRecord
  BY <1>1 DEF P!NoRecord, NoRecord
<1>3. P!World = World /\ \A w : P!Become(w) <=> Become(w)
  BY DEF P!World, World, P!Become, Become
<1>4. /\ \A things : P!Named(things) = Named(things)
      /\ \A things, n : P!Remove(things, n) = Remove(things, n)
      /\ \A sniffers, taken : P!Added(sniffers, taken) = Added(sniffers, taken)
  BY DEF P!Named, Named, P!Remove, Remove, P!Added, Added
<1>5. \A w, n : P!Registered(w, n) = Registered(w, n)
  BY <1>4 DEF P!Registered, Registered
<1>6. \A w, n : P!Unregistered(w, n) = Unregistered(w, n)
  BY <1>4 DEF P!Unregistered, Unregistered
<1>7. \A w, on : P!Prompting(w, on) = Prompting(w, on)
  BY <1>1, <1>4 DEF P!Prompting, Prompting
<1> QED
  BY <1>1, <1>2, <1>3, <1>5, <1>6, <1>7

\* The gateway is no candidate.
LEMMA CandidatesArePositive == \A c \in Candidates : c \in Nat /\ c # Gateway
<1>1. Cardinality(Candidates) \in Nat
  BY CandidatesAssumption, FS_CardinalityType
<1> HIDE DEF Gateway
<1>2. \A c \in 1..Cardinality(Candidates) : c \in Nat /\ c # 0
  BY <1>1
<1> QED
  BY <1>2, CandidatesAssumption DEF Gateway

\* A world is its parts.
LEMMA WorldParts ==
  ASSUME NEW w \in Worlds
  PROVE  /\ w.records \in [Names -> PluginRecord]
         /\ w.registry \subseteq Things(Names \cup BuiltIns \cup {Prompt})
         /\ w.detector \subseteq Things(SnifferNames \cup BuiltInSniffers \cup {PromptSniffer})
BY DEF Worlds

\* What a plugin brings is among the sniffers plugins may bring.
LEMMA BroughtNames ==
  ASSUME NEW w \in Worlds, NEW n \in Names PROVE Brings(w, n) \subseteq SnifferNames
BY DEF Worlds, PluginRecord, Brings

\* A world whose records alone differ, and only where nothing is enabled, is as true.
LEMMA RecordsAlone ==
  ASSUME NEW w, Good(w), NEW v \in Worlds, Owners(v),
         v.registry = w.registry, v.detector = w.detector,
         \A n \in Names : On(v, n) = On(w, n) /\ (On(w, n) => v.records[n] = w.records[n])
  PROVE  Good(v)
BY DEF Good, Truth, On, Mine, Brings, Sniffer, Ours

\* One record's state set to something else than enabled.
As(w, n, s) == [w EXCEPT !.records[n].state = s]
LEMMA Marked ==
  ASSUME NEW w, Good(w), NEW n \in Names, ~On(w, n), w.records[n].state # "unknown",
         NEW s \in {"loaded", "disabled", "failed"}
  PROVE  Good(As(w, n, s))
<1> DEFINE v == [w EXCEPT !.records[n].state = s]
<1>1. w \in Worlds
  BY DEF Good
<1>2. /\ v.registry = w.registry /\ v.detector = w.detector
      /\ v.records = [w.records EXCEPT ![n].state = s]
  BY <1>1 DEF Worlds
<1>3. w.records \in [Names -> PluginRecord]
  BY <1>1 DEF Worlds
<1>4. [w.records[n] EXCEPT !.state = s] \in PluginRecord
  BY <1>3 DEF PluginRecord, PluginStates
<1>5. v.records \in [Names -> PluginRecord]
  BY <1>2, <1>3, <1>4
<1>6. v \in Worlds
  BY <1>1, <1>5 DEF Worlds
<1>7. \A m \in Names : /\ v.records[m].owner = w.records[m].owner
                       /\ m # n => v.records[m] = w.records[m]
                       /\ v.records[n].state = s
  BY <1>2, <1>3 DEF PluginRecord
<1>8. Owners(v)
  BY <1>7 DEF Owners, Good
<1>9. \A m \in Names : On(v, m) = On(w, m) /\ (On(w, m) => v.records[m] = w.records[m])
  BY <1>7 DEF On
<1> HIDE DEF v
<1>10. Good(v)
  BY <1>2, <1>6, <1>8, <1>9, RecordsAlone
<1> QED
  BY <1>10 DEF v, As

\* When _register refuses nothing, none of the plugin's names was taken.
LEMMA NothingTaken ==
  ASSUME NEW w \in Worlds, NEW n \in Names,
         Added(w.records[n].sniffers, Named(w.detector)) = DOMAIN w.records[n].sniffers
  PROVE  \A s \in Brings(w, n) : \A t \in w.detector : t.name # s
<1>1. w.records[n].sniffers \in Seq(SnifferNames)
  BY DEF Worlds, PluginRecord
<1>2. \A i \in DOMAIN w.records[n].sniffers : i \in 1..i
  BY <1>1
<1> QED
  BY <1>2 DEF Added, Named, Brings

\* _register keeps the report true, and either adds all of a plugin or none of it.
LEMMA RegisteredKeeps ==
  ASSUME NEW w, Good(w), NEW n \in Names, ~On(w, n), w.records[n].state # "unknown"
  PROVE  Good(Registered(w, n))
<1> DEFINE record   == w.records[n]
           refused  == n \in Named(w.registry)
           complete == Added(record.sniffers, Named(w.detector)) = DOMAIN record.sniffers
           v == [records  |-> [w.records EXCEPT ![n].state = "enabled"],
                 registry |-> w.registry \cup {[name |-> n, owner |-> record.owner]},
                 detector |-> w.detector \cup
                   {[name |-> record.sniffers[i], owner |-> record.owner] :
                      i \in DOMAIN record.sniffers}]
<1>1. CASE ~record.transformer
  BY <1>1 DEF Registered
<1>2. CASE record.transformer /\ (refused \/ ~complete)
  <2>1. Registered(w, n) = As(w, n, "failed")
    BY <1>2 DEF Registered, As
  <2> QED
    BY <2>1, Marked
<1>3. CASE record.transformer /\ ~refused /\ complete
  <2>1. Registered(w, n) = v
    BY <1>3 DEF Registered
  <2>2. w \in Worlds /\ w.records \in [Names -> PluginRecord] /\ record \in PluginRecord
    BY DEF Good, Worlds
  <2>3. [record EXCEPT !.state = "enabled"] \in PluginRecord
    BY <2>2 DEF PluginRecord, PluginStates
  <2>4. v.records \in [Names -> PluginRecord]
    BY <2>2, <2>3
  <2>5. \A m \in Names : /\ v.records[m].owner = w.records[m].owner
                         /\ v.records[m].sniffers = w.records[m].sniffers
                         /\ m # n => v.records[m] = w.records[m]
                         /\ v.records[n].state = "enabled"
    BY <2>2 DEF PluginRecord
  <2>6. /\ \A m \in Names : On(v, m) <=> On(w, m) \/ m = n
        /\ \A m \in Names : Mine(v, m) = Mine(w, m) /\ Brings(v, m) = Brings(w, m)
        /\ \A m \in Names : \A s : Sniffer(v, m, s) = Sniffer(w, m, s)
    BY <2>5 DEF On, Mine, Brings, Sniffer
  <2>7. /\ v.registry = w.registry \cup {Mine(w, n)}
        /\ v.detector = w.detector \cup {Sniffer(w, n, s) : s \in Brings(w, n)}
    <3>1. {[name |-> record.sniffers[i], owner |-> record.owner] : i \in DOMAIN record.sniffers}
            = {Sniffer(w, n, s) : s \in Brings(w, n)}
      BY DEF Sniffer, Brings
    <3> QED
      BY <3>1 DEF Mine
  <2>8. \A s \in Brings(w, n) : \A t \in w.detector : t.name # s
    BY <1>3, <2>2, NothingTaken
  <2>9. \A t \in w.registry : t.name # n
    BY <1>3 DEF Named
  <2>10. record.owner \in Nat /\ record.owner # Gateway
    BY CandidatesArePositive DEF Good, Owners
  <2>11. Mine(w, n) \in Things(Names) /\ Mine(w, n).name = n
    BY <2>10 DEF Mine, Things
  <2>12. \A s \in Brings(w, n) :
           Sniffer(w, n, s) \in Things(SnifferNames) /\ Sniffer(w, n, s).name = s
    BY <2>2, <2>10, BroughtNames DEF Sniffer, Things
  <2>13. v \in Worlds
    <3>1. v.registry \subseteq Things(Names \cup BuiltIns \cup {Prompt})
      BY <2>2, <2>7, <2>11 DEF Worlds, Things
    <3>2. v.detector \subseteq Things(SnifferNames \cup BuiltInSniffers \cup {PromptSniffer})
      BY <2>2, <2>7, <2>12 DEF Worlds, Things
    <3> QED
      BY <2>4, <3>1, <3>2 DEF Worlds
  <2>14. Owners(v)
    BY <2>5 DEF Owners, Good
  <2> HIDE DEF v
  <2>15. Truth(v)
    <3>1. Truth(w)
      BY DEF Good
    <3>2. /\ \A b \in BuiltIns : Ours(b) \in v.registry
          /\ \A b \in BuiltInSniffers : Ours(b) \in v.detector
      BY <2>7, <3>1 DEF Truth
    <3>3. \A m \in Names : On(v, m) /\ m # Prompt => Mine(v, m) \in v.registry
      BY <2>6, <2>7, <3>1 DEF Truth
    <3>4. \A t \in v.registry : t.owner # Gateway => \E m \in Names : On(v, m) /\ t = Mine(v, m)
      BY <2>6, <2>7, <3>1 DEF Truth
    <3>5. \A m \in Names : On(v, m) =>
            \A s \in Brings(v, m) \ {PromptSniffer} : Sniffer(v, m, s) \in v.detector
      BY <2>6, <2>7, <3>1 DEF Truth
    <3>6. \A t \in v.detector : t.owner # Gateway =>
            \E m \in Names : On(v, m) /\ \E s \in Brings(v, m) : t = Sniffer(v, m, s)
      BY <2>6, <2>7, <3>1 DEF Truth
    <3>7. \A t, u \in v.registry : t.name = u.name => t = u
      BY <2>7, <2>9, <2>11, <3>1 DEF Truth
    <3>8. \A t, u \in v.detector : t.name = u.name => t = u
      BY <2>7, <2>8, <2>12, <3>1 DEF Truth
    <3> QED
      BY <3>2, <3>3, <3>4, <3>5, <3>6, <3>7, <3>8 DEF Truth
  <2> QED
    BY <2>1, <2>13, <2>14, <2>15 DEF Good
<1> QED
  BY <1>1, <1>2, <1>3

\* _unregister takes out a plugin's transformer and sniffers and no one else's: what is left is
\* what Good says it is with the record no longer enabled, whatever becomes of the record.
LEMMA UnregisteredKeeps ==
  ASSUME NEW w, Good(w), NEW n \in Names, w.records[n].state # "unknown",
         NEW record \in PluginRecord,
         \/ record = NoRecord
         \/ record = [w.records[n] EXCEPT !.state = "disabled"]
  PROVE  Good([Unregistered(w, n) EXCEPT !.records[n] = record])
<1> DEFINE v == [Unregistered(w, n) EXCEPT !.records[n] = record]
<1>1. w \in Worlds /\ Owners(w) /\ Truth(w)
  BY DEF Good
<1>2. record.state \in {"unknown", "disabled"}
      /\ (record.state # "unknown" => record.owner = w.records[n].owner)
  <2>1. w.records[n] \in PluginRecord
    BY <1>1 DEF Worlds
  <2> QED
    BY <2>1 DEF NoRecord, PluginRecord
<1>3. /\ v.records = [w.records EXCEPT ![n] = record]
      /\ v.registry = IF On(w, n) THEN {t \in w.registry : t.name # n} ELSE w.registry
      /\ v.detector = IF On(w, n) THEN {t \in w.detector : t.name \notin Brings(w, n)}
                      ELSE w.detector
  BY <1>1 DEF Unregistered, Worlds, On, Brings, Remove
<1>4. v \in Worlds
  <2> DEFINE Parts == Things(Names \cup BuiltIns \cup {Prompt})
             Sniffs == Things(SnifferNames \cup BuiltInSniffers \cup {PromptSniffer})
  <2>1. /\ w.records \in [Names -> PluginRecord] /\ w.registry \in SUBSET Parts
        /\ w.detector \in SUBSET Sniffs
    BY <1>1 DEF Worlds
  <2>2. v = [records |-> v.records, registry |-> v.registry, detector |-> v.detector]
    <3>1. w = [records |-> w.records, registry |-> w.registry, detector |-> w.detector]
      BY <1>1 DEF Worlds
    <3>2. CASE w.records[n].state # "enabled"
      BY <3>1, <3>2 DEF Unregistered
    <3>3. CASE w.records[n].state = "enabled"
      <4> DEFINE b == Remove(w.registry, n)
                 c == {t \in w.detector : t.name \notin Brings(w, n)}
      <4>1. Unregistered(w, n) = [w EXCEPT !.registry = b, !.detector = c]
        BY <3>3 DEF Unregistered, Brings
      <4> HIDE DEF b, c
      <4>2. Unregistered(w, n) = [records |-> w.records, registry |-> b, detector |-> c]
        BY <3>1, <4>1
      <4> QED
        BY <4>2
    <3> QED
      BY <3>2, <3>3
  <2> HIDE DEF Parts, Sniffs, v
  <2>3. v.records \in [Names -> PluginRecord]
    BY <1>3, <2>1
  <2>4. v.registry \in SUBSET Parts /\ v.detector \in SUBSET Sniffs
    BY <1>3, <2>1
  <2>5. Worlds = [records : [Names -> PluginRecord], registry : SUBSET Parts, detector : SUBSET Sniffs]
    BY DEF Worlds, Parts, Sniffs
  <2> QED
    BY <2>2, <2>3, <2>4, <2>5
<1> HIDE DEF v
<1>6. v.registry \subseteq w.registry /\ v.detector \subseteq w.detector
  BY <1>1, <1>3
<1>8. \A m \in Names : m # n => v.records[m] = w.records[m]
  BY <1>1, <1>3 DEF Worlds
<1>9. v.records[n] = record
  BY <1>1, <1>3 DEF Worlds
<1>10. Owners(v)
  BY <1>1, <1>2, <1>8, <1>9 DEF Owners
<1>11. \A m \in Names : On(v, m) <=> On(w, m) /\ m # n
  BY <1>2, <1>8, <1>9 DEF On
<1>12. \A m \in Names : m # n => /\ Mine(v, m) = Mine(w, m) /\ Brings(v, m) = Brings(w, m)
                                 /\ \A s : Sniffer(v, m, s) = Sniffer(w, m, s)
  BY <1>8 DEF Mine, Brings, Sniffer
<1>13. /\ \A s : Ours(s).name = s /\ Ours(s).owner = Gateway
       /\ \A m \in Names : Mine(w, m).name = m /\ Mine(w, m).owner = w.records[m].owner
       /\ \A m \in Names : \A s : /\ Sniffer(w, m, s).name = s
                                  /\ Sniffer(w, m, s).owner = w.records[m].owner
  BY DEF Ours, Mine, Sniffer
<1>14. w.records[n].owner # Gateway
  BY <1>1, CandidatesArePositive DEF Owners
<1>15. \A b \in BuiltIns : Ours(b) \in v.registry
  <2> SUFFICES ASSUME NEW b \in BuiltIns, On(w, n), b = n PROVE FALSE
    BY <1>1, <1>3, <1>13 DEF Truth
  <2>1. Mine(w, n) \in w.registry /\ Ours(b) \in w.registry
    BY <1>1, CandidatesAssumption DEF Truth
  <2>2. Mine(w, n) = Ours(b)
    BY <1>1, <1>13, <2>1 DEF Truth
  <2> QED
    BY <1>13, <1>14, <2>2
<1>16. \A b \in BuiltInSniffers : Ours(b) \in v.detector
  <2> SUFFICES ASSUME NEW b \in BuiltInSniffers, On(w, n), b \in Brings(w, n) PROVE FALSE
    BY <1>1, <1>3, <1>13 DEF Truth
  <2>1. Sniffer(w, n, b) \in w.detector /\ Ours(b) \in w.detector
    BY <1>1, CandidatesAssumption DEF Truth
  <2>2. Sniffer(w, n, b) = Ours(b)
    BY <1>1, <1>13, <2>1 DEF Truth
  <2> QED
    BY <1>13, <1>14, <2>2
<1>17. \A m \in Names : On(v, m) /\ m # Prompt => Mine(v, m) \in v.registry
  BY <1>1, <1>3, <1>11, <1>12, <1>13 DEF Truth
<1>18. \A t \in v.registry : t.owner # Gateway => \E m \in Names : On(v, m) /\ t = Mine(v, m)
  <2> SUFFICES ASSUME NEW t \in v.registry, t.owner # Gateway
               PROVE  \E m \in Names : On(v, m) /\ t = Mine(v, m)
    OBVIOUS
  <2>1. PICK m \in Names : On(w, m) /\ t = Mine(w, m)
    BY <1>1, <1>6 DEF Truth
  <2>2. m # n
    BY <1>3, <1>13, <2>1
  <2> QED
    BY <1>11, <1>12, <2>1, <2>2
<1>19. \A m \in Names : On(v, m) =>
         \A s \in Brings(v, m) \ {PromptSniffer} : Sniffer(v, m, s) \in v.detector
  <2> SUFFICES ASSUME NEW m \in Names, On(v, m), NEW s \in Brings(w, m) \ {PromptSniffer}
               PROVE  Sniffer(w, m, s) \in v.detector
    BY <1>11, <1>12
  <2>1. m # n /\ On(w, m) /\ Sniffer(w, m, s) \in w.detector
    BY <1>1, <1>11 DEF Truth
  <2>2. ASSUME On(w, n), s \in Brings(w, n) PROVE FALSE
    <3>1. Sniffer(w, n, s) \in w.detector
      BY <1>1, <2>2 DEF Truth
    <3>2. Sniffer(w, n, s) = Sniffer(w, m, s)
      BY <1>1, <1>13, <2>1, <3>1 DEF Truth
    <3>3. w.records[n].owner = w.records[m].owner
      BY <1>13, <3>2
    <3>4. w.records[m].state # "unknown"
      BY <2>1 DEF On
    <3> QED
      BY <1>1, <2>1, <3>3, <3>4 DEF Owners
  <2> QED
    BY <1>3, <1>13, <2>1, <2>2
<1>20. \A t \in v.detector : t.owner # Gateway =>
         \E m \in Names : On(v, m) /\ \E s \in Brings(v, m) : t = Sniffer(v, m, s)
  <2> SUFFICES ASSUME NEW t \in v.detector, t.owner # Gateway
               PROVE  \E m \in Names : On(v, m) /\ \E s \in Brings(v, m) : t = Sniffer(v, m, s)
    OBVIOUS
  <2>1. PICK m \in Names : On(w, m) /\ \E s \in Brings(w, m) : t = Sniffer(w, m, s)
    BY <1>1, <1>6 DEF Truth
  <2>2. m # n
    BY <1>3, <1>13, <2>1
  <2> QED
    BY <1>11, <1>12, <2>1, <2>2
<1>21. /\ \A t, u \in v.registry : t.name = u.name => t = u
       /\ \A t, u \in v.detector : t.name = u.name => t = u
  BY <1>1, <1>6 DEF Truth
<1>22. Good(v)
  BY <1>4, <1>10, <1>15, <1>16, <1>17, <1>18, <1>19, <1>20, <1>21 DEF Good, Truth
<1> QED
  BY <1>22 DEF v

\* The prompt switch moves what goes by its own two names alone.
LEMMA PromptingKeeps ==
  ASSUME NEW w, Good(w), NEW on \in BOOLEAN PROVE Good(Prompting(w, on))
<1> DEFINE v == Prompting(w, on)
<1>1. w \in Worlds /\ Owners(w) /\ Truth(w)
  BY DEF Good
<1>2. /\ v.records = w.records
      /\ v = [records |-> v.records, registry |-> v.registry, detector |-> v.detector]
      /\ \/ v.registry = w.registry \cup {Ours(Prompt)} /\ Prompt \notin Named(w.registry)
         \/ v.registry = w.registry
         \/ v.registry = Remove(w.registry, Prompt)
      /\ \/ v.detector = w.detector \cup {Ours(PromptSniffer)} /\ PromptSniffer \notin Named(w.detector)
         \/ v.detector = w.detector
         \/ v.detector = Remove(w.detector, PromptSniffer)
  BY <1>1 DEF Prompting, Worlds, Ours
<1> HIDE DEF v
<1>3. /\ w.records \in [Names -> PluginRecord]
      /\ w.registry \in SUBSET Things(Names \cup BuiltIns \cup {Prompt})
      /\ w.detector \in SUBSET Things(SnifferNames \cup BuiltInSniffers \cup {PromptSniffer})
  BY <1>1 DEF Worlds
<1>4. /\ \A s : Ours(s).name = s /\ Ours(s).owner = Gateway
      /\ \A m \in Names : Mine(w, m).name = m
      /\ \A m \in Names : \A s : Sniffer(w, m, s).name = s
  BY DEF Ours, Mine, Sniffer
<1>5. Ours(Prompt) \in Things({Prompt}) /\ Ours(PromptSniffer) \in Things({PromptSniffer})
  BY DEF Ours, Things, Gateway
<1>6. v \in Worlds
  <2>1. v.registry \in SUBSET Things(Names \cup BuiltIns \cup {Prompt})
    BY <1>2, <1>3, <1>5 DEF Things, Remove
  <2>2. v.detector \in SUBSET Things(SnifferNames \cup BuiltInSniffers \cup {PromptSniffer})
    BY <1>2, <1>3, <1>5 DEF Things, Remove
  <2> QED
    BY <1>2, <1>3, <2>1, <2>2 DEF Worlds
<1>7. Owners(v)
  BY <1>1, <1>2 DEF Owners
<1>8. \A m \in Names : /\ On(v, m) = On(w, m)
                       /\ Mine(v, m) = Mine(w, m) /\ Brings(v, m) = Brings(w, m)
                       /\ \A s : Sniffer(v, m, s) = Sniffer(w, m, s)
  BY <1>2 DEF On, Mine, Brings, Sniffer
<1>9. \A t : /\ t \in v.registry /\ t.owner # Gateway => t \in w.registry
             /\ t \in v.detector /\ t.owner # Gateway => t \in w.detector
             /\ t \in w.registry /\ t.name # Prompt => t \in v.registry
             /\ t \in w.detector /\ t.name # PromptSniffer => t \in v.detector
  BY <1>2, <1>4 DEF Remove
<1>10. /\ \A b \in BuiltIns : Ours(b) \in v.registry
       /\ \A b \in BuiltInSniffers : Ours(b) \in v.detector
  BY <1>1, <1>4, <1>9, CandidatesAssumption DEF Truth
<1>11. \A m \in Names : On(v, m) /\ m # Prompt => Mine(v, m) \in v.registry
  BY <1>1, <1>4, <1>8, <1>9 DEF Truth
<1>12. \A t \in v.registry : t.owner # Gateway => \E m \in Names : On(v, m) /\ t = Mine(v, m)
  BY <1>1, <1>8, <1>9 DEF Truth
<1>13. \A m \in Names : On(v, m) =>
         \A s \in Brings(v, m) \ {PromptSniffer} : Sniffer(v, m, s) \in v.detector
  BY <1>1, <1>4, <1>8, <1>9 DEF Truth
<1>14. \A t \in v.detector : t.owner # Gateway =>
         \E m \in Names : On(v, m) /\ \E s \in Brings(v, m) : t = Sniffer(v, m, s)
  BY <1>1, <1>8, <1>9 DEF Truth
<1>15. \A t, u \in v.registry : t.name = u.name => t = u
  BY <1>1, <1>2, <1>4 DEF Truth, Named, Remove
<1>16. \A t, u \in v.detector : t.name = u.name => t = u
  BY <1>1, <1>2, <1>4 DEF Truth, Named, Remove
<1>17. Good(v)
  BY <1>1, <1>6, <1>7, <1>10, <1>11, <1>12, <1>13, <1>14, <1>15, <1>16 DEF Good, Truth
<1> QED
  BY <1>17 DEF v

-----------------------------------------------------------------------------
(* The calls.                                                              *)

\* The variables become the world's parts.
LEMMA BecomeKeeps ==
  ASSUME NEW w, Good(w), Become(w) PROVE Good(World)'
<1>1. w = [records |-> w.records, registry |-> w.registry, detector |-> w.detector]
  BY DEF Good, Worlds
<1>2. World' = w
  BY <1>1 DEF World, Become
<1> QED
  BY <1>2

\* What a world says of the variables.
LEMMA WorldIsTheVariables ==
  /\ World.records = records /\ World.registry = registry /\ World.detector = detector
  /\ World'.records = records' /\ World'.registry = registry' /\ World'.detector = detector'
BY DEF World

\* What load() keeps for the candidate whose turn it is: never an enabled record.
LEMMA KeepKeeps ==
  ASSUME PluginsInv, NEW c, P!Loading(c), NEW n \in Names, NEW record \in PluginRecord,
         P!Keep(n, record),
         record.owner = c, record.state \notin {"unknown", "enabled"}
  PROVE  PluginsInv'
<1>1. /\ c \in Candidates /\ c = next /\ c \in Nat /\ phase = "loading"
      /\ UNCHANGED <<phase, registry, detector>> /\ next' = next + 1
  BY CandidatesArePositive DEF P!Loading
<1>2. CASE records[n].state # "unknown"
  <2>1. records' = records
    BY <1>2 DEF P!Keep
  <2>2. World' = World
    BY <1>1, <2>1 DEF World
  <2>3. \A m \in Names : records[m].owner \in Nat
    BY DEF PluginsInv, Good, Worlds, World, PluginRecord
  <2> QED
    BY <1>1, <2>1, <2>2, <2>3 DEF PluginsInv
<1>3. CASE records[n].state = "unknown"
  <2> DEFINE w == World
             v == World'
  <2>1. Good(w) /\ w \in Worlds
    BY DEF PluginsInv, Good
  <2>2. records \in [Names -> PluginRecord]
    BY <2>1 DEF Worlds, World
  <2>3. records' = [records EXCEPT ![n] = record]
    BY <1>3 DEF P!Keep
  <2>4. records' \in [Names -> PluginRecord]
    BY <2>2, <2>3
  <2>5. \A m \in Names : m # n => records'[m] = records[m]
    BY <2>2, <2>3
  <2>6. records'[n] = record
    BY <2>2, <2>3
  <2>7. \A m \in Names : records[m].owner \in Nat
                         /\ (records[m].state # "unknown" => records[m].owner < c)
    BY <1>1, <2>2 DEF PluginsInv, PluginRecord
  <2>8. \A m \in Names : records'[m].state # "unknown" => records'[m].owner < next'
    <3> TAKE m \in Names
    <3>1. CASE m = n
      BY <1>1, <2>6, <3>1 DEF PluginsInv
    <3>2. CASE m # n
      BY <1>1, <2>5, <2>7, <3>2
    <3> QED
      BY <3>1, <3>2
  <2>9. /\ w.records = records /\ w.registry = registry /\ w.detector = detector
        /\ v.records = records' /\ v.registry = registry /\ v.detector = detector
        /\ v = [records |-> v.records, registry |-> v.registry, detector |-> v.detector]
    BY <1>1 DEF World
  <2> HIDE DEF w, v
  <2>10. v \in Worlds
    <3>1. /\ registry \in SUBSET Things(Names \cup BuiltIns \cup {Prompt})
          /\ detector \in SUBSET Things(SnifferNames \cup BuiltInSniffers \cup {PromptSniffer})
      BY <2>1, <2>9 DEF Worlds
    <3> QED
      BY <2>4, <2>9, <3>1 DEF Worlds
  <2>11. Owners(v)
    <3>1. \A m \in Names : v.records[m].state # "unknown" => v.records[m].owner \in Candidates
      BY <1>1, <2>1, <2>5, <2>6, <2>9 DEF Good, Owners
    <3>2. ASSUME NEW m \in Names, NEW k \in Names, m # k, v.records[m].state # "unknown",
                 v.records[k].state # "unknown", v.records[m].owner = v.records[k].owner
          PROVE  FALSE
      <4>1. CASE m = n
        BY <1>1, <2>5, <2>6, <2>7, <2>9, <3>2, <4>1
      <4>2. CASE k = n
        BY <1>1, <2>5, <2>6, <2>7, <2>9, <3>2, <4>2
      <4>3. CASE m # n /\ k # n
        BY <2>1, <2>5, <2>9, <3>2, <4>3 DEF Good, Owners
      <4> QED
        BY <4>1, <4>2, <4>3
    <3> QED
      BY <3>1, <3>2 DEF Owners
  <2>12. \A m \in Names : On(v, m) = On(w, m) /\ (On(w, m) => v.records[m] = w.records[m])
    BY <1>3, <2>5, <2>6, <2>9 DEF On
  <2>13. Good(v)
    BY <2>1, <2>9, <2>10, <2>11, <2>12, RecordsAlone
  <2> QED
    BY <1>1, <2>8, <2>13 DEF PluginsInv, v
<1> QED
  BY <1>2, <1>3

\* The two kinds of record load() makes.
LEMMA LoadedRecords ==
  ASSUME NEW c \in Candidates
  PROVE  /\ P!Failed(c) \in PluginRecord /\ P!Failed(c).owner = c
         /\ P!Failed(c).state \notin {"unknown", "enabled"}
         /\ \A n \in Names, sniffers \in P!Sniffings :
              /\ P!Built(c, n, sniffers) \in PluginRecord /\ P!Built(c, n, sniffers).owner = c
              /\ P!Built(c, n, sniffers).state \notin {"unknown", "enabled"}
<1>1. c \in Nat
  BY CandidatesArePositive
<1>2. P!Sniffings \subseteq Seq(SnifferNames)
  <2>1. /\ <<>> \in Seq(SnifferNames)
        /\ \A s \in SnifferNames : <<s>> \in Seq(SnifferNames)
        /\ \A s, t \in SnifferNames : <<s, t>> \in Seq(SnifferNames)
    OBVIOUS
  <2>2. ASSUME NEW x \in P!Sniffings PROVE x \in Seq(SnifferNames)
    <3>1. \/ x = <<>>
          \/ \E s \in SnifferNames : x = <<s>>
          \/ \E s, t \in SnifferNames : x = <<s, t>>
      BY DEF P!Sniffings
    <3> QED
      BY <2>1, <3>1, Zenon
  <2> QED
    BY <2>2
<1>3. /\ P!Failed(c) \in PluginRecord /\ P!Failed(c).owner = c
      /\ P!Failed(c).state \notin {"unknown", "enabled"}
  <2>1. NoRecord \in PluginRecord
    BY DEF NoRecord, PluginRecord, PluginStates, Gateway
  <2> QED
    BY <1>1, <2>1, SameOperations DEF P!Failed, PluginRecord, PluginStates
<1>4. ASSUME NEW n \in Names, NEW sniffers \in P!Sniffings
      PROVE  /\ P!Built(c, n, sniffers) \in PluginRecord /\ P!Built(c, n, sniffers).owner = c
             /\ P!Built(c, n, sniffers).state \notin {"unknown", "enabled"}
  <2>1. sniffers \in Seq(SnifferNames)
    BY <1>2
  <2> QED
    BY <1>1, <2>1 DEF P!Built, PluginRecord, PluginStates
<1> QED
  BY <1>3, <1>4

LEMMA PluginLoadKeeps ==
  ASSUME PluginsInv, NEW c \in Candidates,
         \/ P!LoadUnnamed(c)
         \/ \E n \in Names : \/ P!LoadNamed(c, n) \/ P!LoadDuplicate(c, n)
                             \/ \E sniffers \in P!Sniffings : P!Load(c, n, sniffers)
  PROVE  PluginsInv'
<1>1. CASE P!LoadUnnamed(c)
  <2>1. Provisional[c] \in Names
    BY CandidatesAssumption
  <2> QED
    BY <1>1, <2>1, KeepKeeps, LoadedRecords DEF P!LoadUnnamed
<1>2. CASE \E n \in Names : P!LoadNamed(c, n) \/ P!LoadDuplicate(c, n)
  BY <1>2, KeepKeeps, LoadedRecords DEF P!LoadNamed, P!LoadDuplicate
<1>3. ASSUME NEW n \in Names, NEW sniffers \in P!Sniffings, P!Load(c, n, sniffers) PROVE PluginsInv'
  BY <1>3, KeepKeeps, LoadedRecords DEF P!Load
<1> QED
  BY <1>1, <1>2, <1>3

\* A call after the candidates are loaded, which takes the world to another good one.
LEMMA PluginCallKeeps ==
  ASSUME PluginsInv, NEW w, Good(w), Become(w), phase \in {"attaching", "attached"},
         phase' \in {"attaching", "attached"}, next' \in Nat
  PROVE  PluginsInv'
BY BecomeKeeps DEF PluginsInv

LEMMA AttachKeeps ==
  ASSUME PluginsInv, NEW c \in Candidates, P!Attach(c) PROVE PluginsInv'
<1>1. phase = "attaching" /\ phase' = phase /\ next' \in Nat
  BY DEF P!Attach, PluginsInv
<1>2. Good(World)
  BY DEF PluginsInv
<1>3. CASE UNCHANGED <<records, registry, detector>>
  <2>1. Become(World)
    BY <1>3 DEF Become, World
  <2> QED
    BY <1>1, <1>2, <2>1, PluginCallKeeps
<1>4. ASSUME NEW n \in Names, records[n].state = "loaded", Become(Registered(World, n))
      PROVE  PluginsInv'
  <2>1. ~On(World, n) /\ World.records[n].state # "unknown"
    BY <1>4, WorldIsTheVariables DEF On
  <2>2. Good(Registered(World, n))
    BY <1>2, <2>1, RegisteredKeeps
  <2> QED
    BY <1>1, <1>4, <2>2, PluginCallKeeps
<1> QED
  BY <1>3, <1>4, SameOperations DEF P!Attach

LEMMA PromptKeeps ==
  ASSUME PluginsInv, P!Attached \/ \E on \in BOOLEAN : P!SetPrompt(on) PROVE PluginsInv'
<1>1. PICK on \in BOOLEAN : Become(Prompting(World, on))
  BY CandidatesAssumption, SameOperations DEF P!Attached, P!SetPrompt
<1>2. /\ phase \in {"attaching", "attached"} /\ phase' \in {"attaching", "attached"}
      /\ next' \in Nat
  BY DEF P!Attached, P!SetPrompt, PluginsInv
<1>3. Good(Prompting(World, on))
  BY PromptingKeeps DEF PluginsInv
<1> QED
  BY <1>1, <1>2, <1>3, PluginCallKeeps

LEMMA EnableKeeps ==
  ASSUME PluginsInv, NEW n \in Names, P!Enable(n) PROVE PluginsInv'
<1>1. Good(World) /\ World \in Worlds
  BY DEF PluginsInv, Good
<1>2. /\ World.records[n].state \notin {"unknown", "enabled"}
      /\ phase = "attached" /\ phase' = phase /\ next' \in Nat
  BY WorldIsTheVariables DEF P!Enable, P!Known, PluginsInv
<1>3. Good(As(World, n, "loaded"))
  BY <1>1, <1>2, Marked DEF On
<1>4. As(World, n, "loaded").records[n].state = "loaded"
  BY <1>1 DEF As, Worlds, PluginRecord
<1>5. Good(Registered(As(World, n, "loaded"), n))
  BY <1>3, <1>4, RegisteredKeeps DEF On
<1>6. Become(Registered(As(World, n, "loaded"), n))
  BY SameOperations DEF P!Enable, As
<1> QED
  BY <1>2, <1>5, <1>6, PluginCallKeeps

LEMMA DisableKeeps ==
  ASSUME PluginsInv, NEW n \in Names, P!Disable(n) \/ P!Unload(n) PROVE PluginsInv'
<1>1. Good(World) /\ World \in Worlds /\ World.records[n] \in PluginRecord
  BY DEF PluginsInv, Good, Worlds
<1>2. /\ World.records[n].state # "unknown"
      /\ phase = "attached" /\ phase' = phase /\ next' \in Nat
  BY WorldIsTheVariables DEF P!Disable, P!Unload, P!Known, PluginsInv
<1>3. CASE P!Unload(n)
  <2>1. NoRecord \in PluginRecord
    BY DEF NoRecord, PluginRecord, PluginStates, Gateway
  <2>2. Good([Unregistered(World, n) EXCEPT !.records[n] = NoRecord])
    BY <1>1, <1>2, <2>1, UnregisteredKeeps
  <2> QED
    BY <1>2, <1>3, <2>2, PluginCallKeeps, SameOperations DEF P!Unload
<1>4. CASE P!Disable(n)
  <2> DEFINE record == [World.records[n] EXCEPT !.state = "disabled"]
  <2>1. record \in PluginRecord
    BY <1>1 DEF PluginRecord, PluginStates
  <2>2. Good([Unregistered(World, n) EXCEPT !.records[n] = record])
    BY <1>1, <1>2, <2>1, UnregisteredKeeps
  <2>3. Unregistered(World, n).records = World.records
    BY <1>1 DEF Unregistered, Worlds
  <2>4. [Unregistered(World, n) EXCEPT !.records[n] = record]
          = [Unregistered(World, n) EXCEPT !.records[n].state = "disabled"]
    BY <2>3
  <2> QED
    BY <1>2, <1>4, <2>2, <2>4, PluginCallKeeps, SameOperations DEF P!Disable
<1> QED
  BY <1>3, <1>4

-----------------------------------------------------------------------------
\* The builtins are there, and nothing else.
LEMMA PluginsInit == P!Init => PluginsInv
<1> SUFFICES ASSUME P!Init PROVE PluginsInv
  OBVIOUS
<1> USE SameOperations
<1>1. \A n \in Names : World.records[n] = NoRecord
  BY DEF P!Init, World
<1>2. NoRecord \in PluginRecord
  BY DEF NoRecord, PluginRecord, PluginStates, Gateway
<1>3. World \in Worlds
  BY <1>2 DEF P!Init, World, Worlds, Things, Gateway
<1>4. Owners(World)
  BY <1>1 DEF Owners, NoRecord
<1>5. Truth(World)
  BY <1>1, WorldIsTheVariables DEF Truth, P!Init, Ours, On, NoRecord
<1>6. \A n \in Names : records[n].state = "unknown"
  BY DEF P!Init, NoRecord
<1> QED
  BY <1>3, <1>4, <1>5, <1>6 DEF P!Init, PluginsInv, Good

LEMMA PluginsNext == PluginsInv /\ [P!Next]_(P!vars) => PluginsInv'
<1> SUFFICES ASSUME PluginsInv, [P!Next]_(P!vars) PROVE PluginsInv'
  OBVIOUS
<1>1. CASE UNCHANGED P!vars
  BY <1>1 DEF P!vars, PluginsInv, World
<1>2. CASE P!Loaded
  <2>1. World' = World
    BY <1>2 DEF P!Loaded, World
  <2> QED
    BY <1>2, <2>1 DEF P!Loaded, PluginsInv
<1> QED
  BY <1>1, <1>2, PluginLoadKeeps, AttachKeeps, PromptKeeps, EnableKeeps, DisableKeeps DEF P!Next

\* Thing by thing, the property is Truth.
LEMMA TruthIsTheProperty == Good(World) => RegistryIsTheReport
<1> SUFFICES ASSUME Good(World) PROVE RegistryIsTheReport
  OBVIOUS
<1> DEFINE w == World
<1>1. Truth(w) /\ Owners(w) /\ w \in Worlds
  BY DEF Good
<1>2. w.records = records /\ w.registry = registry /\ w.detector = detector
  BY WorldIsTheVariables
<1> HIDE DEF w
<1>3. \A n \in Names : On(w, n) => w.records[n].owner # Gateway
  BY <1>1, CandidatesArePositive DEF Owners, On
<1>4. /\ \A m \in Names : Mine(w, m).owner = w.records[m].owner
      /\ \A m \in Names : \A s : Sniffer(w, m, s).owner = w.records[m].owner
  BY DEF Mine, Sniffer
<1> DEFINE Transformers == {[name |-> n, owner |-> records[n].owner] : n \in Enabled}
           Sniffers == UNION {{[name |-> records[n].sniffers[i], owner |-> records[n].owner] :
                                 i \in DOMAIN records[n].sniffers} : n \in Enabled}
<1>5. Transformers = {Mine(w, n) : n \in Enabled}
  BY <1>2 DEF Mine
<1>6. Sniffers = UNION {{Sniffer(w, n, s) : s \in Brings(w, n)} : n \in Enabled}
  <2>1. \A n \in Names : {Sniffer(w, n, s) : s \in Brings(w, n)}
          = {[name |-> records[n].sniffers[i], owner |-> records[n].owner] :
               i \in DOMAIN records[n].sniffers}
    BY <1>2 DEF Sniffer, Brings
  <2> QED
    BY <2>1 DEF Enabled
<1> HIDE DEF Transformers, Sniffers
<1>7. \A n \in Names : n \in Enabled <=> On(w, n)
  BY <1>2 DEF Enabled, On
<1>8. /\ \A m \in Names : Mine(w, m).name = m
      /\ \A m \in Names : \A s : Sniffer(w, m, s).name = s
  BY DEF Mine, Sniffer
<1>9. Enabled \subseteq Names
  BY DEF Enabled
<1>10. {t \in registry : t.owner # Gateway} \subseteq Transformers
  BY <1>1, <1>2, <1>5, <1>7 DEF Truth
<1>11. {t \in Transformers : t.name # Prompt} \subseteq registry
  BY <1>1, <1>2, <1>5, <1>7, <1>8, <1>9 DEF Truth
<1>12. {t \in detector : t.owner # Gateway} \subseteq Sniffers
  BY <1>1, <1>2, <1>6, <1>7 DEF Truth
<1>13. {t \in Sniffers : t.name # PromptSniffer} \subseteq detector
  <2> SUFFICES ASSUME NEW t \in Sniffers, t.name # PromptSniffer PROVE t \in detector
    OBVIOUS
  <2>1. PICK n \in Enabled : \E s \in Brings(w, n) : t = Sniffer(w, n, s)
    BY <1>6
  <2>2. PICK s \in Brings(w, n) : t = Sniffer(w, n, s)
    BY <2>1
  <2>3. n \in Names /\ On(w, n) /\ s # PromptSniffer
    BY <1>7, <1>8, <1>9, <2>2
  <2> QED
    BY <1>1, <1>2, <2>2, <2>3 DEF Truth
<1>14. /\ {[name |-> n, owner |-> Gateway] : n \in BuiltIns} \subseteq registry
       /\ {[name |-> n, owner |-> Gateway] : n \in BuiltInSniffers} \subseteq detector
       /\ \A t, u \in registry : t.name = u.name => t = u
       /\ \A t, u \in detector : t.name = u.name => t = u
  BY <1>1, <1>2 DEF Truth, Ours
<1> QED
  BY <1>10, <1>11, <1>12, <1>13, <1>14 DEF RegistryIsTheReport, Transformers, Sniffers

\* The report of the plugins is true of the registry and the detector, through every
\* failed import, refused name, rollback, toggle and unload, whatever the plugins and
\* their sniffers are called (manager.py): only what goes by the prompt switch's two
\* names may be gone while its plugin is called enabled.
THEOREM RegistryIsAlwaysTheReport == P!Spec => []RegistryIsTheReport
<1>1. PluginsInv /\ [P!Next]_(P!vars) => PluginsInv'
  BY PluginsNext
<1>2. PluginsInv => RegistryIsTheReport
  BY TruthIsTheProperty DEF PluginsInv
<1> QED
  BY <1>1, <1>2, PluginsInit, PTL DEF P!Spec
=============================================================================
