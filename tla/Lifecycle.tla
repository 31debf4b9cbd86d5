----------------------------- MODULE Lifecycle -----------------------------
(***************************************************************************)
(* zibbo start, stop, connect, disconnect and banner --start: commands     *)
(* that start the gateway and stop it, route Claude Code through it and    *)
(* back, and know it by its port and by the pid file.                      *)
(*                                                                         *)
(* Writing and restoring the settings of a scope is one step: Routing      *)
(* shows that it is.  Between any two steps of a command a gateway may     *)
(* come up, be launched by hand, crash, or be dealt with by another        *)
(* command: the plugin's hook runs banner --start in every new session.    *)
(***************************************************************************)
EXTENDS Naturals

CONSTANTS
  Commands,      \* invocations of zibbo that may be under way at once
  Pids,
  NoPid,
  Scopes,        \* "user", "project"
  Hosts,         \* what the machine may be like; see HostKind
  MaxCalls,        \* bounds of the model: calls of commands that take turns
  MaxOverlapping   \* and of commands that overlap

\* crashes: a running gateway may exit.  slow: starting one may outlast the wait
\* of ten seconds, and stopping one that of six.  recycles: the system gives the
\* pid of a gateway that is gone to other processes.  overlaps: a command may be
\* called while another is under way.
HostKind == [crashes : BOOLEAN, slow : BOOLEAN, recycles : BOOLEAN, overlaps : BOOLEAN]

ASSUME LifecycleAssumption ==
  /\ NoPid \notin Pids /\ "user" \in Scopes /\ {MaxCalls, MaxOverlapping} \subseteq Nat
  /\ Hosts \subseteq HostKind

VARIABLES
  host,     \* the machine, never changed
  proc,     \* proc[p]: what runs under pid p
  ours,     \* the pids of the processes that commands spawned
  pidfile,  \* ~/.zibbo/gateway.json
  routed,   \* the scopes whose settings route through the gateway
  at,       \* at[c]: where each command is, and what it knows
  calls

world == <<host, proc, ours, pidfile, routed>>
vars  == <<host, proc, ours, pidfile, routed, at, calls>>

Answering == {p \in Pids : proc[p] \in {"ready", "signalled"}}
Reachable == Answering # {}

Idle == [pc |-> "idle", name |-> "none", scope |-> "user", wasRunning |-> FALSE,
         child |-> NoPid, victim |-> NoPid, result |-> "none"]

\* Nothing was ever started, or an earlier connect left things as it should.
Init ==
  /\ host \in Hosts
  /\ pidfile \in {NoPid, CHOOSE p \in Pids : TRUE}
  /\ proc = [p \in Pids |-> IF p = pidfile THEN "ready" ELSE "free"]
  /\ ours = Pids \cap {pidfile}
  /\ routed = IF pidfile = NoPid THEN {} ELSE {"user"}
  /\ at = [c \in Commands |-> Idle] /\ calls = 0

At(c, pc) == at[c].pc = pc
Go(c, pc) == at' = [at EXCEPT ![c].pc = pc]
End(c, result) == at' = [at EXCEPT ![c] = [Idle EXCEPT !.result = result]]

Becomes(p, what) == proc' = [proc EXCEPT ![p] = what]

\* Pids the system may hand out: a dead child keeps its own until it is polled.
Free == {p \in Pids : proc[p] = "free" /\ \A c \in Commands : ~At(c, "idle") => at[c].child # p}

Call(c, name, scope, pc) ==
  /\ \A d \in Commands : At(d, "idle") \/ (host.overlaps /\ d # c)
  /\ calls < (IF host.overlaps THEN MaxOverlapping ELSE MaxCalls) /\ calls' = calls + 1
  /\ at' = [at EXCEPT ![c] = [Idle EXCEPT !.name = name, !.scope = scope, !.pc = pc]]
  /\ UNCHANGED world

Connect(c, scope)    == Call(c, "connect", scope, "was running")
Banner(c)            == Call(c, "banner", "user", "running")
Disconnect(c, scope) == Call(c, "disconnect", scope, "restore")
StopCommand(c)       == Call(c, "stop", "user", "read pid")

-----------------------------------------------------------------------------
(* _start_gateway, after connect has looked for itself.                    *)

WasRunning(c) ==
  /\ At(c, "was running")
  /\ at' = [at EXCEPT ![c].wasRunning = Reachable, ![c].pc = "running"]
  /\ UNCHANGED <<world, calls>>

Started(c) == IF at[c].name = "connect" THEN Go(c, "configure") ELSE End(c, "ok")

Running(c) ==
  /\ At(c, "running")
  /\ IF Reachable THEN Started(c) ELSE Go(c, "spawn")
  /\ UNCHANGED <<world, calls>>

\* The port is taken, or the package is not installed.
Refuse(c) == At(c, "spawn") /\ End(c, "error") /\ UNCHANGED <<world, calls>>

Spawn(c) ==
  /\ At(c, "spawn") /\ ~Reachable
  /\ \E p \in Free :
       /\ Becomes(p, "starting") /\ ours' = ours \cup {p}
       /\ at' = [at EXCEPT ![c].child = p, ![c].pc = "poll"]
  /\ UNCHANGED <<host, pidfile, routed, calls>>

Poll(c) ==
  /\ At(c, "poll")
  /\ IF proc[at[c].child] = "free" THEN End(c, "error") ELSE Go(c, "ask")
  /\ UNCHANGED <<world, calls>>

\* reachable(): somebody answers.
Ask(c) ==
  /\ At(c, "ask")
  /\ IF Reachable THEN Go(c, "record") ELSE Go(c, "poll")
  /\ UNCHANGED <<world, calls>>

\* The wait is over; the child is left to itself.
StartTimesOut(c) ==
  /\ host.slow /\ At(c, "poll") /\ proc[at[c].child] # "free"
  /\ End(c, "error") /\ UNCHANGED <<world, calls>>

\* write_pidfile.
Record(c) ==
  /\ At(c, "record") /\ pidfile' = at[c].child /\ Started(c)
  /\ UNCHANGED <<host, proc, ours, routed, calls>>

-----------------------------------------------------------------------------
(* configure_routing, and the roll-back of a gateway started this call.    *)

Configure(c) ==
  /\ At(c, "configure") /\ routed' = routed \cup {at[c].scope} /\ End(c, "ok")
  /\ UNCHANGED <<host, proc, ours, pidfile, calls>>

ConfigureFails(c) ==
  /\ At(c, "configure")
  /\ IF at[c].wasRunning THEN End(c, "error") ELSE Go(c, "read pid")
  /\ UNCHANGED <<world, calls>>

-----------------------------------------------------------------------------
(* stop_gateway, then restore_routing.                                     *)

\* The roll-back of connect ends there; stop goes on to the settings.
Stopped(c) == IF at[c].name = "connect" THEN End(c, "error") ELSE Go(c, "restore")

ReadPid(c) ==
  /\ At(c, "read pid")
  /\ IF pidfile = NoPid THEN Stopped(c)
     ELSE at' = [at EXCEPT ![c].victim = pidfile, ![c].pc = "check"]
  /\ UNCHANGED <<world, calls>>

\* Nothing answers: the pid may be anyone's by now, and is forgotten.
Check(c) ==
  /\ At(c, "check")
  /\ IF Reachable THEN Go(c, "kill") /\ UNCHANGED pidfile
     ELSE Stopped(c) /\ pidfile' = NoPid
  /\ UNCHANGED <<host, proc, ours, routed, calls>>

\* Mutant: whoever holds the port is terminated.
KillWhoAnswers(c) ==
  /\ At(c, "kill") /\ Reachable
  /\ \E p \in Answering :
       /\ Becomes(p, "signalled")
       /\ at' = [at EXCEPT ![c].pc = "drain", ![c].victim = p]
  /\ UNCHANGED <<host, ours, pidfile, routed, calls>>

\* _terminate: a gateway that answers goes on answering for a while.
Kill(c) ==
  /\ At(c, "kill") /\ Go(c, "drain")
  /\ LET p == at[c].victim IN
     Becomes(p, IF p \in Answering THEN "signalled" ELSE "free")
  /\ UNCHANGED <<host, ours, pidfile, routed, calls>>

\* Mutant: the wait has no end.
DrainUntilGone(c) ==
  /\ At(c, "drain") /\ ~Reachable /\ Go(c, "clear")
  /\ UNCHANGED <<world, calls>>

\* The port closes, or six seconds pass: in vain, if another gateway holds it.
Drain(c) ==
  /\ At(c, "drain")
  /\ ~Reachable \/ host.slow \/ proc[at[c].victim] # "signalled"
  /\ Go(c, "clear")
  /\ UNCHANGED <<world, calls>>

\* clear_pidfile.
Clear(c) ==
  /\ At(c, "clear") /\ pidfile' = NoPid /\ Stopped(c)
  /\ UNCHANGED <<host, proc, ours, routed, calls>>

\* Mutant: the settings stay.
RestoreNothing(c) == At(c, "restore") /\ End(c, "ok") /\ UNCHANGED <<world, calls>>

Restore(c) ==
  /\ At(c, "restore") /\ routed' = routed \ {at[c].scope} /\ End(c, "ok")
  /\ UNCHANGED <<host, proc, ours, pidfile, calls>>

RestoreFails(c) == At(c, "restore") /\ End(c, "error") /\ UNCHANGED <<world, calls>>

Step(c) ==
  \/ WasRunning(c) \/ Running(c) \/ Refuse(c) \/ Spawn(c) \/ Poll(c) \/ Ask(c)
  \/ StartTimesOut(c) \/ Record(c) \/ Configure(c) \/ ConfigureFails(c)
  \/ ReadPid(c) \/ Check(c) \/ Kill(c) \/ Drain(c) \/ Clear(c)
  \/ Restore(c) \/ RestoreFails(c)

-----------------------------------------------------------------------------
(* The processes themselves.                                               *)

\* A gateway binds the port, if nobody holds it.
ComesUp(p) ==
  /\ proc[p] = "starting" /\ ~Reachable /\ Becomes(p, "ready")
  /\ UNCHANGED <<host, ours, pidfile, routed, at, calls>>

\* It exits: the port was taken or it fails to start, it was signalled, or it crashes.
Exits(p) ==
  /\ proc[p] \in {"starting", "signalled"} \/ (host.crashes /\ proc[p] = "ready")
  /\ Becomes(p, "free")
  /\ UNCHANGED <<host, ours, pidfile, routed, at, calls>>

\* Somebody starts a gateway with uvicorn or docker.
LaunchElsewhere(p) ==
  /\ host.recycles \/ p \notin ours
  /\ p \in Free /\ ~Reachable
  /\ Becomes(p, "ready") /\ ours' = ours \ {p}
  /\ UNCHANGED <<host, pidfile, routed, at, calls>>

\* The pid goes to some other program.
Recycle(p) ==
  /\ host.recycles /\ p \in Free
  /\ Becomes(p, "stranger") /\ ours' = ours \ {p}
  /\ UNCHANGED <<host, pidfile, routed, at, calls>>

Next ==
  \/ \E c \in Commands :
       \/ \E scope \in Scopes : Connect(c, scope) \/ Disconnect(c, scope)
       \/ Banner(c) \/ StopCommand(c) \/ Step(c)
  \/ \E p \in Pids : ComesUp(p) \/ Exits(p) \/ LaunchElsewhere(p) \/ Recycle(p)

Spec == Init /\ [][Next]_vars

\* Commands run on; a gateway that starts comes up or exits, a signalled one exits.
FairSpec ==
  /\ Spec
  /\ \A c \in Commands : WF_vars(Step(c))
  /\ \A p \in Pids : WF_vars(ComesUp(p) \/ (proc[p] # "ready" /\ Exits(p)))

-----------------------------------------------------------------------------
(* Properties.                                                             *)

\* Nothing crashes, nothing outlasts a wait, and commands take turns.
Smooth == ~host.crashes /\ ~host.slow /\ ~host.overlaps

\* "And never a gateway someone launched another way": as long as no pid is handed
\* out again, no command ends a process that no command started, though several
\* start, stop and forget gateways at once.
OnlyOwnStopped ==
  [][~host.recycles =>
       \A p \in Pids :
         /\ \E c \in Commands : At(c, "kill") /\ at'[c].pc = "drain" /\ at'[c].victim = p
         /\ proc[p] # "free"
         => p \in ours]_vars

\* "Claude Code is never left pointing at a gateway that is going away": a command
\* about the user's settings that says it succeeded leaves them either not routed
\* or with a gateway that answers, whatever commands that failed left before it.  The
\* settings of a project are left out: stop restores the user's alone.
DeadRouteIsReported ==
  [][Smooth =>
       \A c \in Commands :
         at[c].scope = "user" /\ at[c].pc # "idle" /\ at'[c].pc = "idle" /\ at'[c].result = "ok"
           => "user" \notin routed' \/ Reachable']_vars

\* Every command ends.
CommandsEnd == \A c \in Commands : ~At(c, "idle") ~> At(c, "idle")
=============================================================================
