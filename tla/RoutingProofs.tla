---------------------------- MODULE RoutingProofs ----------------------------
(***************************************************************************)
(* Proofs about Routing for commands that run one at a time, whatever of   *)
(* their writes fails and wherever they are killed, while others edit the  *)
(* settings between any two of their steps, but for the one variable.      *)
(*                                                                         *)
(* The invariant says of the one command under way what it still knows of  *)
(* the files (Held), and of the state file that it leads back (Backed).    *)
(* Settled adds what it owes the edits made before it began.               *)
(***************************************************************************)
EXTENDS Routing, TLAPS

Sequential == OneAtATime = TRUE /\ EditsUrl = FALSE

Alone == \A c, d \in Commands : ~At(c, "idle") /\ ~At(d, "idle") => c = d

Held(c) ==
  /\ at[c].pc \in {"find", "record", "install state", "write", "install"} =>
       at[c].data.url = target.url
  /\ at[c].pc \in {"find", "record", "install state", "roll back"} => at[c].op = "connect"
  /\ at[c].pc \in {"load", "forget"} => at[c].op = "disconnect"
  /\ at[c].pc # "idle" /\ at[c].op = "connect" => at[c].url \in Gateways
  /\ at[c].pc \in {"find", "record", "install state", "write", "install"} /\ at[c].op = "connect" =>
       target.url # at[c].url
  /\ at[c].pc # "idle" /\ at[c].op # "connect" => at[c].op = "disconnect" /\ at[c].url = backup.url
  /\ at[c].pc \in {"find", "record", "install state"} => at[c].made = FALSE
  /\ at[c].pc \in {"record", "install state"} => backup.form = "none"
  /\ At(c, "install state") => backupTmp = State("ours", target.url)
  /\ at[c].pc \in {"write", "install", "roll back", "load", "forget"} => backup.form = "ours"
  /\ At(c, "install") => targetTmp = File("object", at[c].url, at[c].data.other)
  /\ at[c].made /\ at[c].op = "connect" /\ at[c].pc \in {"write", "install"} => target.url \in Endpoints
  /\ at[c].pc \in {"roll back", "forget"} => target.url \in Endpoints

Backed ==
  backup.form = "ours" =>
    backup.url \in Endpoints /\ (target.url \in Endpoints => backup.url = target.url)

Inv == TypeOK /\ Alone /\ (\A c \in Commands : Held(c)) /\ Backed /\ WayBack

-----------------------------------------------------------------------------
(* Types.                                                                  *)

\* The parts of what a command holds.
LEMMA LocalTypes ==
  ASSUME NEW l \in Locals
  PROVE  /\ l.url \in Urls /\ l.data \in Files /\ l.made \in BOOLEAN
         /\ l.op \in {"none", "connect", "disconnect"} /\ l.before \in Files \X States \X Nat
BY DEF Locals

\* A command that moves on keeps all else it holds.
LEMMA GoMoves ==
  ASSUME at \in [Commands -> Locals], NEW c \in Commands,
         NEW pc \in {"find", "record", "install state", "write", "install", "roll back", "load", "forget"},
         Go(c, pc)
  PROVE  /\ at' \in [Commands -> Locals]
         /\ at'[c].pc = pc /\ at'[c].op = at[c].op /\ at'[c].url = at[c].url
         /\ at'[c].data = at[c].data /\ at'[c].made = at[c].made /\ at'[c].before = at[c].before
         /\ \A d \in Commands \ {c} : at'[d] = at[d]
<1>1. at[c] \in Locals
  OBVIOUS
<1>2. [at[c] EXCEPT !.pc = pc] \in Locals
  BY <1>1 DEF Locals
<1>3. at' = [at EXCEPT ![c] = [at[c] EXCEPT !.pc = pc]]
  BY DEF Go
<1>4. at'[c] = [at[c] EXCEPT !.pc = pc] /\ \A d \in Commands \ {c} : at'[d] = at[d]
  BY <1>3
<1>5. at' \in [Commands -> Locals]
  BY <1>2, <1>3
<1> QED
  BY <1>1, <1>4, <1>5 DEF Locals

\* A command that ends does too.
LEMMA EndMoves ==
  ASSUME at \in [Commands -> Locals], NEW c \in Commands,
         NEW result \in {"error", "already", "routed", "nothing", "restored", "killed"},
         End(c, result)
  PROVE  /\ at' \in [Commands -> Locals]
         /\ at'[c].pc = "idle"
         /\ \A d \in Commands \ {c} : at'[d] = at[d]
<1>1. at[c] \in Locals
  OBVIOUS
<1>2. [at[c] EXCEPT !.pc = "idle", !.result = result] \in Locals
  BY <1>1 DEF Locals
<1>3. at' = [at EXCEPT ![c] = [at[c] EXCEPT !.pc = "idle", !.result = result]]
  BY DEF End
<1>4. at'[c] = [at[c] EXCEPT !.pc = "idle", !.result = result] /\ \A d \in Commands \ {c} : at'[d] = at[d]
  BY <1>3
<1>5. at' \in [Commands -> Locals]
  BY <1>2, <1>3
<1> QED
  BY <1>1, <1>4, <1>5 DEF Locals

\* A command that begins.
LEMMA HoldingTypes ==
  TypeOK =>
    \A op \in {"none", "connect", "disconnect"}, url \in Urls, pc \in {"idle", "find", "load"},
       result \in {"none", "error", "already", "nothing"} :
      /\ Holding(op, url, pc, result) \in Locals
      /\ Holding(op, url, pc, result).pc = pc /\ Holding(op, url, pc, result).op = op
      /\ Holding(op, url, pc, result).url = url
      /\ Holding(op, url, pc, result).data = target /\ Holding(op, url, pc, result).made = FALSE
<1> SUFFICES ASSUME TypeOK, NEW op \in {"none", "connect", "disconnect"}, NEW url \in Urls,
                    NEW pc \in {"idle", "find", "load"},
                    NEW result \in {"none", "error", "already", "nothing"}
             PROVE  /\ Holding(op, url, pc, result) \in Locals
                    /\ Holding(op, url, pc, result).pc = pc /\ Holding(op, url, pc, result).op = op
                    /\ Holding(op, url, pc, result).url = url
                    /\ Holding(op, url, pc, result).data = target
                    /\ Holding(op, url, pc, result).made = FALSE
  OBVIOUS
<1> QED
  BY DEF Holding, Locals, TypeOK

\* The fields of a file, and a file of fields.
LEMMA FileTypes ==
  /\ \A f \in Files : f.form \in Forms /\ f.url \in Urls /\ f.other \in Nat
  /\ \A form \in Forms, url \in Urls, n \in Nat :
       /\ File(form, url, n) \in Files
       /\ File(form, url, n).form = form /\ File(form, url, n).url = url /\ File(form, url, n).other = n
BY DEF Files, File, Forms

LEMMA StateTypes ==
  /\ \A s \in States : s.form \in {"none", "foreign", "ours"} /\ s.url \in Urls
  /\ \A form \in {"none", "foreign", "ours"}, url \in Urls :
       /\ State(form, url) \in States
       /\ State(form, url).form = form /\ State(form, url).url = url
BY DEF States, State

LEMMA NothingTypes ==
  /\ Missing \in Files /\ Missing.form = "missing" /\ Missing.url = NoUrl /\ Missing.other = 0
  /\ NoState \in States /\ NoState.form = "none"
BY RoutingAssumption DEF Missing, File, Files, Forms, Urls, NoState, State, States

\* What an edit makes of the settings.
LEMMA EditTypes ==
  ASSUME NEW f \in Files, NEW g
  PROVE  /\ \A form \in Forms :
              g = [f EXCEPT !.form = form] => g \in Files /\ g.url = f.url /\ g.other = f.other
         /\ \A form \in Forms, u \in Urls :
              g = [f EXCEPT !.form = form, !.url = u] => g \in Files
BY DEF Files

\* An edit leaves the settings well typed and, unless EditsUrl, the variable
\* alone; to the rest it only adds.
LEMMA EditsElsewhere ==
  ASSUME target \in Files, Edit
  PROVE  /\ target' \in Files
         /\ EditsUrl = FALSE => target'.url = target.url /\ target'.other >= target.other
<1>0. target.other \in Nat /\ Endpoints \subseteq Urls /\ "object" \in Forms
  BY FileTypes DEF Urls, Forms
<1>1. CASE target' = [target EXCEPT !.form = "object", !.other = @ + 1]
  <2>1. PICK n \in Nat : n = target.other + 1
    BY <1>0
  <2>2. target' = [target EXCEPT !.form = "object", !.other = n]
    BY <1>1, <2>1, Zenon
  <2>3. target' \in Files /\ target'.url = target.url /\ target'.other = n
    BY <1>0, <2>2 DEF Files
  <2> QED
    BY <1>0, <2>1, <2>3
<1>2. CASE \E form \in Forms : target' = [target EXCEPT !.form = form]
  <2>1. target' \in Files /\ target'.url = target.url /\ target'.other = target.other
    BY <1>2, EditTypes
  <2> QED
    BY <1>0, <2>1
<1>3. CASE EditsUrl /\ \E u \in Endpoints : target' = [target EXCEPT !.form = "object", !.url = u]
  BY <1>0, <1>3, EditTypes
<1>4. CASE EditsUrl /\ target' = Missing
  BY <1>4, NothingTypes
<1> QED
  BY <1>1, <1>2, <1>3, <1>4 DEF Edit, Forms

LEMMA InitTypes == Init => TypeOK
<1> SUFFICES ASSUME Init PROVE TypeOK
  OBVIOUS
<1>1. target \in Files /\ backup \in States /\ targetTmp \in Files /\ backupTmp \in States
  <2>1. ASSUME NEW u \in Endpoints PROVE File("object", u, 0) \in Files
    BY FileTypes DEF Forms, Urls
  <2>2. State("foreign", NoUrl) \in States
    BY RoutingAssumption, StateTypes DEF Urls
  <2> QED
    BY <2>1, <2>2, NothingTypes DEF Init
<1>2. Holding("none", NoUrl, "idle", "none") \in Locals
  BY <1>1, RoutingAssumption DEF Init, Holding, Locals, Urls
<1> QED
  BY <1>1, <1>2 DEF Init, TypeOK

\* Every step of a command keeps the types.
LEMMA StepTypes == ASSUME TypeOK, NEW c \in Commands, Step(c) PROVE TypeOK'
<1>0. /\ at \in [Commands -> Locals] /\ at[c] \in Locals /\ calls \in Nat /\ edits \in Nat
      /\ target \in Files /\ targetTmp \in Files /\ backup \in States /\ backupTmp \in States
  BY DEF TypeOK
<1>1. ASSUME NEW g \in Gateways, Configure(c, g) PROVE TypeOK'
  <2>1. PICK pc \in {"idle", "find"}, result \in {"none", "error", "already"} :
          at' = [at EXCEPT ![c] = Holding("connect", g, pc, result)]
    BY <1>1 DEF Configure
  <2>2. Holding("connect", g, pc, result) \in Locals
    <3>1. pc \in {"idle", "find", "load"} /\ result \in {"none", "error", "already", "nothing"}
      OBVIOUS
    <3>2. g \in Urls
      BY DEF Urls
    <3> QED
      BY <3>1, <3>2, HoldingTypes
  <2>3. at' \in [Commands -> Locals]
    BY <1>0, <2>1, <2>2
  <2> QED
    BY <1>0, <1>1, <2>3 DEF Configure, Begin, files, TypeOK
<1>2. CASE FindState(c)
  BY <1>0, <1>2, GoMoves, EndMoves DEF FindState, files, TypeOK
<1>3. CASE RecordState(c)
  <2>1. State("ours", at[c].data.url) \in States
    BY <1>0, LocalTypes, FileTypes, StateTypes
  <2> QED
    BY <1>0, <1>3, <2>1, GoMoves DEF RecordState, TypeOK
<1>4. CASE InstallState(c)
  <2>1. [at[c] EXCEPT !.pc = "write", !.made = TRUE] \in Locals
    BY <1>0 DEF Locals
  <2>2. at' = [at EXCEPT ![c] = [at[c] EXCEPT !.pc = "write", !.made = TRUE]]
    BY <1>4 DEF InstallState
  <2>3. at' \in [Commands -> Locals]
    BY <1>0, <2>1, <2>2
  <2> QED
    BY <1>0, <1>4, <2>3, NothingTypes DEF InstallState, TypeOK
<1>5. CASE FailState(c)
  BY <1>0, <1>5, EndMoves, NothingTypes DEF FailState, TypeOK
<1>6. CASE Write(c)
  <2>1. File("object", at[c].url, at[c].data.other) \in Files
    BY <1>0, LocalTypes, FileTypes DEF Forms
  <2> QED
    BY <1>0, <1>6, <2>1, GoMoves DEF Write, TypeOK
<1>7. CASE Install(c)
  BY <1>0, <1>7, GoMoves, EndMoves, NothingTypes DEF Install, TypeOK
<1>8. CASE FailWrite(c)
  BY <1>0, <1>8, GoMoves, EndMoves, NothingTypes DEF FailWrite, TypeOK
<1>9. CASE RollBack(c)
  BY <1>0, <1>9, EndMoves, NothingTypes DEF RollBack, TypeOK
<1>10. CASE Restore(c)
  <2>1. PICK pc \in {"idle", "load"}, result \in {"none", "nothing"}, url \in {NoUrl, backup.url} :
          at' = [at EXCEPT ![c] = Holding("disconnect", url, pc, result)]
    BY <1>10 DEF Restore
  <2>2. Holding("disconnect", url, pc, result) \in Locals
    <3>1. pc \in {"idle", "find", "load"} /\ result \in {"none", "error", "already", "nothing"}
      OBVIOUS
    <3>2. url \in Urls
      <4>1. backup.url \in Urls
        BY <1>0, StateTypes
      <4>2. NoUrl \in Urls
        BY RoutingAssumption DEF Urls
      <4> QED
        BY <4>1, <4>2
    <3> QED
      BY <3>1, <3>2, HoldingTypes
  <2>3. at' \in [Commands -> Locals]
    BY <1>0, <2>1, <2>2
  <2> QED
    BY <1>0, <1>10, <2>3 DEF Restore, Begin, files, TypeOK
<1>11. CASE LoadTarget(c)
  <2>1. CASE at' = [at EXCEPT ![c].pc = "write", ![c].data = target]
    <3>1. [at[c] EXCEPT !.pc = "write", !.data = target] \in Locals
      BY <1>0 DEF Locals
    <3>2. at' = [at EXCEPT ![c] = [at[c] EXCEPT !.pc = "write", !.data = target]]
      BY <2>1
    <3>3. at' \in [Commands -> Locals]
      BY <1>0, <3>1, <3>2
    <3> QED
      BY <1>0, <1>11, <3>3 DEF LoadTarget, files, TypeOK
  <2>2. CASE End(c, "error") \/ Go(c, "forget")
    BY <1>0, <1>11, <2>2, GoMoves, EndMoves DEF LoadTarget, files, TypeOK
  <2> QED
    BY <1>11, <2>1, <2>2 DEF LoadTarget
<1>12. CASE Forget(c)
  BY <1>0, <1>12, EndMoves, NothingTypes DEF Forget, TypeOK
<1>13. CASE Crash(c)
  BY <1>0, <1>13, EndMoves DEF Crash, files, TypeOK
<1> QED
  BY <1>1, <1>2, <1>3, <1>4, <1>5, <1>6, <1>7, <1>8, <1>9, <1>10, <1>11, <1>12, <1>13 DEF Step

LEMMA EditKeepsTypes == TypeOK /\ Edit => TypeOK'
<1> SUFFICES ASSUME TypeOK, Edit PROVE TypeOK'
  OBVIOUS
<1>1. target \in Files /\ edits \in Nat
  BY DEF TypeOK
<1>2. target' \in Files
  BY <1>1, EditsElsewhere
<1>3. edits' = edits + 1 /\ UNCHANGED <<backup, targetTmp, backupTmp, at, calls>>
  BY DEF Edit
<1> QED
  BY <1>1, <1>2, <1>3 DEF TypeOK

\* Every reachable state is well typed, however commands overlap and whoever
\* edits the settings.
THEOREM RoutingTypes == Spec => []TypeOK
<1>1. TypeOK /\ [Next]_vars => TypeOK'
  <2> SUFFICES ASSUME TypeOK, [Next]_vars PROVE TypeOK'
    OBVIOUS
  <2>1. CASE UNCHANGED vars
    BY <2>1 DEF vars, TypeOK
  <2>2. CASE Next
    BY <2>2, StepTypes, EditKeepsTypes DEF Next
  <2> QED
    BY <2>1, <2>2
<1> QED
  BY <1>1, InitTypes, PTL DEF Spec

-----------------------------------------------------------------------------
(* The invariant.                                                          *)

\* A variable is the user's or a gateway's.
LEMMA EitherUrl ==
  TypeOK => /\ target.url \in Gateways \/ target.url \in Endpoints
            /\ ~(target.url \in Gateways /\ target.url \in Endpoints)
BY FileTypes, RoutingAssumption DEF TypeOK, Urls

\* A command under way is the only one.
LEMMA OthersIdle ==
  ASSUME Alone, NEW c \in Commands, ~At(c, "idle")
  PROVE  \A d \in Commands \ {c} : At(d, "idle")
BY DEF Alone

\* What has to be shown of a step of one command.
LEMMA StepOfOne ==
  ASSUME NEW c \in Commands, TypeOK',
         \A d \in Commands \ {c} : at'[d] = at[d] /\ At(d, "idle"),
         Held(c)', Backed', WayBack'
  PROVE  Inv'
<1>1. \A d \in Commands \ {c} : at'[d].pc = "idle"
  BY DEF At
<1>2. Alone'
  BY <1>1 DEF Alone, At
<1>3. ASSUME NEW d \in Commands \ {c} PROVE Held(d)'
  BY <1>1, <1>3 DEF Held, At
<1> QED
  BY <1>2, <1>3 DEF Inv

\* A command that has ended holds nothing any more.
LEMMA EndedHolds == ASSUME NEW c \in Commands, at'[c].pc = "idle" PROVE Held(c)'
BY DEF Held, At

\* The first step of a command.
LEMMA BeginKeeps ==
  ASSUME Sequential, Inv, TypeOK', NEW c \in Commands,
         (\E g \in Gateways : Configure(c, g)) \/ Restore(c)
  PROVE  Inv'
<1>0. TypeOK /\ Backed /\ WayBack /\ at \in [Commands -> Locals]
  BY DEF Inv, TypeOK
<1>1. Begin(c)
  BY DEF Configure, Restore
<1>2. \A d \in Commands : At(d, "idle")
  BY <1>1 DEF Begin, Sequential
<1>3. Backed' /\ WayBack'
  BY <1>0, <1>1 DEF Begin, files, Backed, WayBack
<1>4. ASSUME NEW g \in Gateways, Configure(c, g)
      PROVE  (\A d \in Commands \ {c} : at'[d] = at[d]) /\ Held(c)'
  <2>1. g \in Urls
    BY DEF Urls
  <2>2. CASE target.form # "invalid" /\ target.url # g /\ at' = [at EXCEPT ![c] = Holding("connect", g, "find", "none")]
    <3>1. at'[c] = Holding("connect", g, "find", "none") /\ \A d \in Commands \ {c} : at'[d] = at[d]
      BY <1>0, <2>2
    <3>2. /\ at'[c].pc = "find" /\ at'[c].op = "connect" /\ at'[c].url = g
          /\ at'[c].data = target /\ at'[c].made = FALSE
      BY <1>0, <2>1, <3>1, HoldingTypes
    <3>3. target' = target
      BY <1>1 DEF Begin, files
    <3> QED
      BY <2>2, <3>1, <3>2, <3>3 DEF Held, At
  <2>3. CASE \E result \in {"error", "already"} : at' = [at EXCEPT ![c] = Holding("connect", g, "idle", result)]
    <3>1. PICK result \in {"error", "already"} : at' = [at EXCEPT ![c] = Holding("connect", g, "idle", result)]
      BY <2>3
    <3>2. at'[c] = Holding("connect", g, "idle", result) /\ \A d \in Commands \ {c} : at'[d] = at[d]
      BY <1>0, <3>1
    <3>3. at'[c].pc = "idle"
      BY <1>0, <2>1, <3>2, HoldingTypes
    <3> QED
      BY <3>2, <3>3, EndedHolds
  <2> QED
    BY <1>4, <2>2, <2>3 DEF Configure
<1>5. ASSUME Restore(c)
      PROVE  (\A d \in Commands \ {c} : at'[d] = at[d]) /\ Held(c)'
  <2>1. backup.url \in Urls /\ NoUrl \in Urls
    BY <1>0, StateTypes, RoutingAssumption DEF TypeOK, Urls
  <2>2. CASE backup.form = "ours"
    <3>1. at'[c] = Holding("disconnect", backup.url, "load", "none") /\ \A d \in Commands \ {c} : at'[d] = at[d]
      BY <1>0, <1>5, <2>2 DEF Restore
    <3>2. /\ at'[c].pc = "load" /\ at'[c].op = "disconnect" /\ at'[c].url = backup.url
          /\ at'[c].made = FALSE
      BY <1>0, <2>1, <3>1, HoldingTypes
    <3>3. backup' = backup
      BY <1>1 DEF Begin, files
    <3> QED
      BY <2>2, <3>1, <3>2, <3>3 DEF Held, At
  <2>3. CASE backup.form # "ours"
    <3>1. at'[c] = Holding("disconnect", NoUrl, "idle", "nothing") /\ \A d \in Commands \ {c} : at'[d] = at[d]
      BY <1>0, <1>5, <2>3 DEF Restore
    <3>2. at'[c].pc = "idle"
      BY <1>0, <2>1, <3>1, HoldingTypes
    <3> QED
      BY <3>1, <3>2, EndedHolds
  <2> QED
    BY <2>2, <2>3
<1>6. (\A d \in Commands \ {c} : at'[d] = at[d]) /\ Held(c)'
  BY <1>4, <1>5
<1> QED
  BY <1>2, <1>3, <1>6, StepOfOne

\* A later step of a command.
LEMMA MoveKeeps ==
  ASSUME Inv, TypeOK', NEW c \in Commands, ~At(c, "idle"), Step(c)
  PROVE  Inv'
<1>0. /\ TypeOK /\ Alone /\ Held(c) /\ Backed /\ WayBack
      /\ at \in [Commands -> Locals] /\ at[c] \in Locals
      /\ target \in Files /\ backup \in States
  BY DEF Inv, TypeOK
<1>a. \A d \in Commands \ {c} : At(d, "idle")
  BY <1>0, OthersIdle
<1>b. /\ target.url \in Gateways \/ target.url \in Endpoints
      /\ ~(target.url \in Gateways /\ target.url \in Endpoints)
  BY <1>0, EitherUrl
<1>c. ASSUME UNCHANGED <<target, backup>> PROVE Backed' /\ WayBack'
  BY <1>0, <1>c DEF Backed, WayBack
<1>d. ASSUME NEW result \in {"error", "already", "routed", "nothing", "restored", "killed"},
             End(c, result), Backed', WayBack'
      PROVE  Inv'
  <2>1. Held(c)' /\ \A d \in Commands \ {c} : at'[d] = at[d]
    BY <1>0, <1>d, EndMoves, EndedHolds
  <2> QED
    BY <1>a, <1>d, <2>1, StepOfOne
<1>e. ASSUME NEW pc \in {"find", "record", "install state", "write", "install", "roll back", "load", "forget"},
             Go(c, pc), Held(c)', Backed', WayBack'
      PROVE  Inv'
  <2>1. \A d \in Commands \ {c} : at'[d] = at[d]
    BY <1>0, <1>e, GoMoves
  <2> QED
    BY <1>a, <1>e, <2>1, StepOfOne
<1>1. CASE FindState(c)
  <2>0. UNCHANGED <<target, backup>>
    BY <1>1 DEF FindState, files
  <2>1. CASE End(c, "error")
    BY <1>c, <1>d, <2>0, <2>1
  <2>2. CASE backup.form = "none" /\ Go(c, "record")
    <3>1. Held(c)'
      BY <1>0, <1>1, <2>0, <2>2, GoMoves DEF Held, At, FindState
    <3> QED
      BY <1>c, <1>e, <2>0, <2>2, <3>1
  <2>3. CASE backup.form = "ours" /\ Go(c, "write")
    <3>1. Held(c)'
      BY <1>0, <1>1, <2>0, <2>3, GoMoves DEF Held, At, FindState
    <3> QED
      BY <1>c, <1>e, <2>0, <2>3, <3>1
  <2> QED
    BY <1>1, <2>1, <2>2, <2>3 DEF FindState
<1>2. CASE RecordState(c)
  <2>1. Held(c)'
    BY <1>0, <1>2, GoMoves DEF Held, At, RecordState
  <2> QED
    BY <1>2, <1>c, <1>e, <2>1 DEF RecordState
<1>3. CASE InstallState(c)
  <2>1. at' = [at EXCEPT ![c] = [at[c] EXCEPT !.pc = "write", !.made = TRUE]]
    BY <1>3 DEF InstallState
  <2>2. at'[c] = [at[c] EXCEPT !.pc = "write", !.made = TRUE] /\ \A d \in Commands \ {c} : at'[d] = at[d]
    BY <1>0, <2>1
  <2>3. /\ at'[c].pc = "write" /\ at'[c].op = at[c].op /\ at'[c].url = at[c].url
        /\ at'[c].data = at[c].data
    BY <1>0, <2>2 DEF Locals
  <2>4. backup' = State("ours", target.url) /\ target' = target
    BY <1>0, <1>3 DEF InstallState, Held
  <2>5. backup'.form = "ours" /\ backup'.url = target.url
    BY <1>0, <2>4, FileTypes, StateTypes
  <2>6. target.url \in Endpoints
    BY <1>0, <1>3, <1>b DEF InstallState, Held, At, WayBack
  <2>7. Held(c)'
    BY <1>0, <1>3, <2>3, <2>4, <2>5, <2>6 DEF Held, At, InstallState
  <2>8. Backed' /\ WayBack'
    BY <2>4, <2>5, <2>6 DEF Backed, WayBack
  <2> QED
    BY <1>a, <2>2, <2>7, <2>8, StepOfOne
<1>4. CASE FailState(c)
  BY <1>4, <1>c, <1>d DEF FailState
<1>5. CASE Write(c)
  <2>1. Held(c)'
    BY <1>0, <1>5, GoMoves DEF Held, At, Write
  <2> QED
    BY <1>5, <1>c, <1>e, <2>1 DEF Write
<1>6. CASE Install(c)
  <2>1. target' = File("object", at[c].url, at[c].data.other) /\ backup' = backup /\ backup.form = "ours"
    BY <1>0, <1>6 DEF Install, Held, At
  <2>2. target'.form = "object" /\ target'.url = at[c].url
    BY <1>0, <2>1, FileTypes, LocalTypes DEF Forms
  <2>3. CASE at[c].op = "connect"
    <3>1. at[c].url \in Gateways /\ at[c].url \notin Endpoints
      BY <1>0, <1>6, <2>3, RoutingAssumption DEF Install, Held, At
    <3>2. Backed' /\ WayBack'
      BY <1>0, <2>1, <2>2, <3>1 DEF Backed, WayBack
    <3> QED
      BY <1>6, <1>d, <2>3, <3>2 DEF Install
  <2>4. CASE at[c].op # "connect"
    <3>1. at[c].op = "disconnect" /\ at[c].url = backup.url /\ backup.url \in Endpoints
      BY <1>0, <1>6, <2>1, <2>4 DEF Install, Held, At, Backed
    <3>2. at[c].url \notin Gateways
      BY <3>1, RoutingAssumption
    <3>3. Backed' /\ WayBack'
      BY <2>1, <2>2, <3>1, <3>2 DEF Backed, WayBack
    <3>4. Go(c, "forget")
      BY <1>6, <2>4 DEF Install
    <3>5. Held(c)'
      BY <1>0, <2>1, <2>2, <2>4, <3>1, <3>4, GoMoves DEF Held, At
    <3> QED
      BY <1>e, <3>3, <3>4, <3>5
  <2> QED
    BY <2>3, <2>4
<1>7. CASE FailWrite(c)
  <2>0. UNCHANGED <<target, backup>>
    BY <1>7 DEF FailWrite
  <2>1. CASE at[c].op = "connect" /\ at[c].made
    <3>1. Go(c, "roll back")
      BY <1>7, <2>1 DEF FailWrite
    <3>2. Held(c)'
      BY <1>0, <1>7, <2>0, <2>1, <3>1, GoMoves DEF Held, At, FailWrite
    <3> QED
      BY <1>c, <1>e, <2>0, <3>1, <3>2
  <2>2. CASE End(c, "error")
    BY <1>c, <1>d, <2>0, <2>2
  <2> QED
    BY <1>7, <2>1, <2>2 DEF FailWrite
<1>8. ASSUME backup' = NoState, target' = target, target.url \in Endpoints
      PROVE  Backed' /\ WayBack'
  BY <1>8, <1>b, NothingTypes DEF Backed, WayBack
<1>9. CASE RollBack(c)
  <2>1. target.url \in Endpoints
    BY <1>0, <1>9 DEF RollBack, Held, At
  <2> QED
    BY <1>8, <1>9, <1>d, <2>1 DEF RollBack
<1>10. CASE LoadTarget(c)
  <2>0. UNCHANGED <<target, backup>>
    BY <1>10 DEF LoadTarget, files
  <2>1. CASE End(c, "error")
    BY <1>c, <1>d, <2>0, <2>1
  <2>2. CASE target.form = "object" /\ at' = [at EXCEPT ![c].pc = "write", ![c].data = target]
    <3>1. at' = [at EXCEPT ![c] = [at[c] EXCEPT !.pc = "write", !.data = target]]
      BY <2>2
    <3>2. at'[c] = [at[c] EXCEPT !.pc = "write", !.data = target] /\ \A d \in Commands \ {c} : at'[d] = at[d]
      BY <1>0, <3>1
    <3>3. /\ at'[c].pc = "write" /\ at'[c].op = at[c].op /\ at'[c].url = at[c].url
          /\ at'[c].data = target
      BY <1>0, <3>2 DEF Locals
    <3>4. Held(c)'
      BY <1>0, <1>10, <2>0, <2>2, <3>3 DEF Held, At, LoadTarget
    <3> QED
      BY <1>a, <1>c, <2>0, <3>2, <3>4, StepOfOne
  <2>3. CASE target.url = NoUrl /\ Go(c, "forget")
    <3>1. Held(c)'
      BY <1>0, <1>10, <2>0, <2>3, GoMoves, RoutingAssumption DEF Held, At, LoadTarget
    <3> QED
      BY <1>c, <1>e, <2>0, <2>3, <3>1
  <2> QED
    BY <1>10, <2>1, <2>2, <2>3 DEF LoadTarget
<1>11. CASE Forget(c)
  <2>1. target.url \in Endpoints
    BY <1>0, <1>11 DEF Forget, Held, At
  <2> QED
    BY <1>8, <1>11, <1>d, <2>1 DEF Forget
<1>12. CASE Crash(c)
  BY <1>12, <1>c, <1>d DEF Crash, files
<1>13. CASE (\E g \in Gateways : Configure(c, g)) \/ Restore(c)
  BY <1>13 DEF Configure, Restore, Begin
<1> QED
  BY <1>1, <1>2, <1>3, <1>4, <1>5, <1>6, <1>7, <1>9, <1>10, <1>11, <1>12, <1>13 DEF Step

\* Editing the settings, but for the variable.
LEMMA EditKeeps == ASSUME Sequential, Inv, TypeOK', Edit PROVE Inv'
<1>1. UNCHANGED <<at, backup, targetTmp, backupTmp>>
  BY DEF Edit
<1>2. target'.url = target.url
  BY EditsElsewhere DEF Inv, TypeOK, Sequential
<1>3. Alone'
  BY <1>1 DEF Inv, Alone, At
<1>4. ASSUME NEW c \in Commands PROVE Held(c)'
  <2>1. Held(c)
    BY DEF Inv
  <2> QED
    BY <1>1, <1>2, <2>1 DEF Held, At
<1>5. Backed' /\ WayBack'
  BY <1>1, <1>2 DEF Inv, Backed, WayBack
<1> QED
  BY <1>3, <1>4, <1>5 DEF Inv

LEMMA InvInductive == ASSUME Sequential PROVE Inv /\ [Next]_vars => Inv'
<1> SUFFICES ASSUME Inv, [Next]_vars PROVE Inv'
  OBVIOUS
<1>1. CASE UNCHANGED vars
  <2>1. UNCHANGED <<target, backup, targetTmp, backupTmp, at, calls, edits>>
    BY <1>1 DEF vars
  <2>2. TypeOK'
    BY <2>1 DEF Inv, TypeOK
  <2>3. Alone' /\ Backed' /\ WayBack'
    BY <2>1 DEF Inv, Alone, Backed, WayBack, At
  <2>4. ASSUME NEW c \in Commands PROVE Held(c)'
    <3>1. /\ Held(c) /\ at' = at /\ target' = target /\ backup' = backup
          /\ targetTmp' = targetTmp /\ backupTmp' = backupTmp
      BY <2>1 DEF Inv
    <3> QED
      BY <3>1 DEF Held, At
  <2> QED
    BY <2>2, <2>3, <2>4 DEF Inv
<1>2. CASE Edit
  BY <1>2, EditKeeps, EditKeepsTypes DEF Inv
<1>3. ASSUME NEW c \in Commands, Step(c) PROVE Inv'
  <2>1. TypeOK'
    BY <1>3, StepTypes DEF Inv
  <2>2. CASE ~At(c, "idle")
    BY <1>3, <2>1, <2>2, MoveKeeps
  <2>3. CASE At(c, "idle")
    <3>1. (\E g \in Gateways : Configure(c, g)) \/ Restore(c)
      BY <1>3, <2>3
         DEF Step, At, FindState, RecordState, InstallState, FailState, Write, Install,
             FailWrite, RollBack, LoadTarget, Forget, Crash
    <3> QED
      BY <2>1, <3>1, BeginKeeps
  <2> QED
    BY <2>2, <2>3
<1> QED
  BY <1>1, <1>2, <1>3 DEF Next

\* Before any command, the variable is the user's and no state file is ours.
LEMMA InitInv == Init => Inv
<1> SUFFICES ASSUME Init PROVE Inv
  OBVIOUS
<1>1. TypeOK
  BY InitTypes
<1>2. \A c \in Commands : at[c].pc = "idle"
  BY DEF Init, Holding
<1>3. target.url \in Endpoints
  <2>1. \A u \in Endpoints : File("object", u, 0).url = u
    BY FileTypes DEF Forms, Urls
  <2> QED
    BY <2>1, NothingTypes, RoutingAssumption DEF Init
<1>4. backup.form # "ours"
  <2>1. State("foreign", NoUrl).form = "foreign"
    BY StateTypes, RoutingAssumption DEF Urls
  <2> QED
    BY <2>1, NothingTypes DEF Init
<1>5. WayBack /\ Backed
  BY <1>3, <1>4, RoutingAssumption DEF WayBack, Backed
<1> QED
  BY <1>1, <1>2, <1>5 DEF Inv, Alone, Held, At

LEMMA InvAlways == ASSUME Sequential PROVE Spec => []Inv
<1>1. Inv /\ [Next]_vars => Inv'
  BY InvInductive
<1> QED
  BY <1>1, InitInv, PTL DEF Spec

\* For commands one at a time, killed or failing anywhere: whenever Claude Code
\* is routed, the state file that leads back is on disk.
THEOREM WayBackAlways == ASSUME Sequential PROVE Spec => []WayBack
<1>1. Inv => WayBack
  BY DEF Inv
<1> QED
  BY <1>1, InvAlways, PTL

-----------------------------------------------------------------------------
(* What the steps of a command do to the files.                            *)

\* The settings change by Install alone, to what the command read but for the
\* variable.
LEMMA TargetMoves ==
  ASSUME Inv, NEW c \in Commands, Step(c)
  PROVE  \/ target' = target
         \/ /\ Install(c) /\ target'.url = at[c].url /\ target'.other = at[c].data.other
            /\ backup' = backup /\ backup.form = "ours"
<1>0. at[c] \in Locals /\ target \in Files /\ Held(c)
  BY DEF Inv, TypeOK
<1>1. CASE Install(c)
  <2>1. /\ target' = File("object", at[c].url, at[c].data.other)
        /\ backup' = backup /\ backup.form = "ours"
    BY <1>0, <1>1 DEF Install, Held, At
  <2>2. target'.url = at[c].url /\ target'.other = at[c].data.other
    BY <1>0, <2>1, FileTypes, LocalTypes DEF Forms
  <2> QED
    BY <1>1, <2>1, <2>2
<1>2. CASE ~Install(c)
  BY <1>2
     DEF Step, Configure, Restore, Begin, files, FindState, RecordState, InstallState, FailState,
         Write, FailWrite, RollBack, LoadTarget, Forget, Crash
<1> QED
  BY <1>1, <1>2

\* The state file changes by recording where there was none, and by forgetting
\* what is ours while the variable is the user's.
LEMMA BackupMoves ==
  ASSUME Inv, NEW c \in Commands, Step(c)
  PROVE  \/ backup' = backup
         \/ target' = target /\ backup.form \in {"none", "ours"} /\ target.url \in Endpoints
<1>0. TypeOK /\ Held(c) /\ WayBack
  BY DEF Inv
<1>1. CASE InstallState(c)
  <2>1. backup.form = "none" /\ target' = target
    BY <1>0, <1>1 DEF InstallState, Held, At
  <2> QED
    BY <1>0, <2>1, EitherUrl DEF WayBack
<1>2. CASE RollBack(c) \/ Forget(c)
  BY <1>0, <1>2 DEF RollBack, Forget, Held, At
<1>3. CASE ~InstallState(c) /\ ~RollBack(c) /\ ~Forget(c)
  BY <1>3
     DEF Step, Configure, Restore, Begin, files, FindState, RecordState, FailState,
         Write, Install, FailWrite, LoadTarget, Crash
<1> QED
  BY <1>1, <1>2, <1>3

\* Where a command holds the settings it read.
Holds(c) == at[c].pc \in {"find", "record", "install state", "write", "install"}

\* What it owes the edits made before it began: they are in the settings, and in
\* what it is going to write.
Settled(c) ==
  ~At(c, "idle") =>
    /\ target.other >= at[c].before[1].other
    /\ Holds(c) => at[c].data.other >= at[c].before[1].other
    /\ at[c].before[2].form = "foreign" => backup = at[c].before[2]

\* A command that moves on remembers what it found, and holds what it held or
\* has just read.
LEMMA MovesRemember ==
  ASSUME TypeOK, NEW c \in Commands, ~At(c, "idle"), Step(c), at'[c].pc # "idle"
  PROVE  /\ at'[c].before = at[c].before
         /\ \/ ~Holds(c)'
            \/ Holds(c) /\ at'[c].data = at[c].data
            \/ at'[c].data = target
<1>0. at \in [Commands -> Locals] /\ at[c] \in Locals
  BY DEF TypeOK
<1>1. ASSUME NEW result \in {"error", "already", "routed", "nothing", "restored", "killed"}
      PROVE  ~End(c, result)
  BY <1>0, <1>1, EndMoves
<1>2. CASE Go(c, "forget") \/ Go(c, "roll back")
  BY <1>0, <1>2, GoMoves DEF Holds
<1>3. CASE Holds(c) /\ \E pc \in {"find", "record", "install state", "write", "install"} : Go(c, pc)
  BY <1>0, <1>3, GoMoves
<1>4. CASE InstallState(c)
  <2>1. at' = [at EXCEPT ![c] = [at[c] EXCEPT !.pc = "write", !.made = TRUE]]
    BY <1>4 DEF InstallState
  <2>2. at'[c] = [at[c] EXCEPT !.pc = "write", !.made = TRUE]
    BY <1>0, <2>1
  <2>3. at'[c].before = at[c].before /\ at'[c].data = at[c].data
    BY <1>0, <2>2 DEF Locals
  <2>4. Holds(c)
    BY <1>4 DEF InstallState, Holds, At
  <2> QED
    BY <2>2, <2>3, <2>4
<1>5. CASE at' = [at EXCEPT ![c].pc = "write", ![c].data = target]
  <2>1. at' = [at EXCEPT ![c] = [at[c] EXCEPT !.pc = "write", !.data = target]]
    BY <1>5
  <2>2. at'[c] = [at[c] EXCEPT !.pc = "write", !.data = target]
    BY <1>0, <2>1
  <2>3. at'[c].before = at[c].before /\ at'[c].data = target
    BY <1>0, <2>2 DEF Locals
  <2> QED
    BY <2>2, <2>3
<1>6. ~(\E g \in Gateways : Configure(c, g)) /\ ~Restore(c)
  BY DEF Configure, Restore, Begin
<1> QED
  BY <1>1, <1>2, <1>3, <1>4, <1>5, <1>6
     DEF Step, FindState, RecordState, FailState, Write, Install, FailWrite, RollBack,
         LoadTarget, Forget, Crash, Holds, At

\* A step of one command leaves what the others hold.
LEMMA OthersStay ==
  ASSUME TypeOK, NEW c \in Commands, Step(c)
  PROVE  \A d \in Commands \ {c} : at'[d] = at[d]
<1>0. at \in [Commands -> Locals]
  BY DEF TypeOK
<1>1. \E l : at' = [at EXCEPT ![c] = l]
  BY DEF Step, Configure, Restore, FindState, RecordState, InstallState, FailState, Write, Install,
         FailWrite, RollBack, LoadTarget, Forget, Crash, Go, End
<1> QED
  BY <1>0, <1>1

\* A command that begins owes what it finds.
LEMMA BeginsSettled ==
  ASSUME TypeOK, NEW c \in Commands,
         (\E g \in Gateways : Configure(c, g)) \/ Restore(c)
  PROVE  Settled(c)'
<1>0. at \in [Commands -> Locals] /\ target \in Files /\ backup \in States
  BY DEF TypeOK
<1>1. PICK op, url, pc, result : at' = [at EXCEPT ![c] = Holding(op, url, pc, result)]
  BY DEF Configure, Restore
<1>2. /\ at'[c].before = <<target, backup, edits>> /\ at'[c].data = target
  BY <1>0, <1>1 DEF Holding
<1>3. target' = target /\ backup' = backup /\ target.other \in Nat
  BY <1>0, FileTypes DEF Configure, Restore, Begin, files
<1>4. at'[c].before[1] = target /\ at'[c].before[2] = backup /\ target.other >= target.other
  BY <1>2, <1>3
<1> QED
  BY <1>2, <1>3, <1>4 DEF Settled

\* What a step of a command leaves of the edits made before it.
LEMMA StepSettles ==
  ASSUME Inv, NEW c \in Commands, Step(c), ~At(c, "idle"), Settled(c)
  PROVE  /\ target'.other >= at[c].before[1].other
         /\ at[c].before[2].form = "foreign" => backup' = at[c].before[2]
         /\ Settled(c)'
<1>0. TypeOK
  BY DEF Inv
<1>1. target'.other >= at[c].before[1].other
  <2>1. Install(c) => Holds(c)
    BY DEF Install, At, Holds
  <2> QED
    BY <2>1, TargetMoves DEF Settled
<1>2. at[c].before[2].form = "foreign" => backup' = at[c].before[2]
  BY BackupMoves DEF Settled
<1>3. CASE at'[c].pc = "idle"
  BY <1>1, <1>2, <1>3 DEF Settled, At
<1>4. CASE at'[c].pc # "idle"
  BY <1>0, <1>1, <1>2, <1>4, MovesRemember DEF Settled
<1> QED
  BY <1>1, <1>2, <1>3, <1>4

\* An edit only adds to what is owed.
LEMMA EditSettles ==
  ASSUME Sequential, Inv, Edit, NEW c \in Commands, Settled(c), ~At(c, "idle")
  PROVE  /\ target'.other >= at[c].before[1].other
         /\ at[c].before[2].form = "foreign" => backup' = at[c].before[2]
         /\ Settled(c)'
<1>1. /\ at[c].before[1].other \in Nat /\ target.other \in Nat /\ target'.other \in Nat
      /\ target'.other >= target.other
  <2>1. target \in Files /\ at[c].before[1] \in Files
    BY LocalTypes DEF Inv, TypeOK
  <2> QED
    BY <2>1, EditsElsewhere, FileTypes DEF Sequential
<1>2. target'.other >= at[c].before[1].other
  BY <1>1 DEF Settled
<1>3. at' = at /\ backup' = backup
  BY DEF Edit
<1> QED
  BY <1>2, <1>3 DEF Settled, At, Holds

\* Whoever else edits the settings between any two steps of a command: no edit
\* made before the command began is taken back by it, and no state file that is
\* somebody else's is touched.
THEOREM SettledEditsAlwaysSurvive == ASSUME Sequential PROVE Spec => SettledEditsSurvive
<1> DEFINE AllSettled == \A c \in Commands : Settled(c)
<1>1. Init => AllSettled
  BY DEF Init, Holding, Settled, At
<1>2. ASSUME Inv, AllSettled, [Next]_vars
      PROVE  /\ AllSettled'
             /\ [\A c \in Commands : ~At(c, "idle") =>
                   /\ target'.other >= at[c].before[1].other
                   /\ at[c].before[2].form = "foreign" => backup' = at[c].before[2]]_vars
  <2>1. CASE UNCHANGED vars
    <3>1. UNCHANGED <<at, target, backup>>
      BY <2>1 DEF vars
    <3>2. AllSettled'
      BY <1>2, <3>1 DEF Settled, At, Holds
    <3> QED
      BY <2>1, <3>2
  <2>2. CASE Edit
    <3>1. ASSUME NEW c \in Commands, At(c, "idle") PROVE Settled(c)'
      BY <2>2, <3>1 DEF Edit, Settled, At
    <3> QED
      BY <1>2, <2>2, <3>1, EditSettles
  <2>3. ASSUME NEW d \in Commands, Step(d), ~At(d, "idle")
        PROVE  /\ AllSettled'
               /\ \A c \in Commands : ~At(c, "idle") =>
                   /\ target'.other >= at[c].before[1].other
                   /\ at[c].before[2].form = "foreign" => backup' = at[c].before[2]
    <3>1. \A c \in Commands \ {d} : At(c, "idle")
      BY <1>2, <2>3, OthersIdle DEF Inv
    <3>2. \A c \in Commands \ {d} : at'[c] = at[c]
      BY <1>2, <2>3, OthersStay DEF Inv
    <3>3. \A c \in Commands \ {d} : Settled(c)'
      BY <3>1, <3>2 DEF Settled, At
    <3> QED
      BY <1>2, <2>3, <3>1, <3>3, StepSettles
  <2>4. ASSUME NEW d \in Commands, Step(d), At(d, "idle")
        PROVE  AllSettled' /\ \A c \in Commands : At(c, "idle")
    <3>1. (\E g \in Gateways : Configure(d, g)) \/ Restore(d)
      BY <2>4
         DEF Step, At, FindState, RecordState, InstallState, FailState, Write, Install,
             FailWrite, RollBack, LoadTarget, Forget, Crash
    <3>2. \A c \in Commands : At(c, "idle")
      BY <3>1 DEF Configure, Restore, Begin, Sequential
    <3>3. \A c \in Commands \ {d} : at'[c] = at[c]
      BY <1>2, <2>4, OthersStay DEF Inv
    <3>4. \A c \in Commands \ {d} : Settled(c)'
      BY <3>2, <3>3 DEF Settled, At
    <3> QED
      BY <1>2, <3>1, <3>2, <3>4, BeginsSettled DEF Inv
  <2> QED
    BY <1>2, <2>1, <2>2, <2>3, <2>4 DEF Next
<1> QED
  <2>1. Inv /\ AllSettled /\ [Next]_vars => AllSettled'
    BY <1>2
  <2>2. Inv /\ AllSettled /\ [Next]_vars =>
          [\A c \in Commands : ~At(c, "idle") =>
             /\ target'.other >= at[c].before[1].other
             /\ at[c].before[2].form = "foreign" => backup' = at[c].before[2]]_vars
    BY <1>2
  <2> QED
    BY <1>1, <2>1, <2>2, InvAlways, PTL DEF Spec, SettledEditsSurvive

\* Whatever fails and wherever they are killed, commands one at a time are the
\* atomic switch of RoutingSwitch: each step of one is a step of it or none.
THEOREM SwitchImplemented == ASSUME Sequential PROVE Spec => ImplementsSwitch
<1> DEFINE Saved == IF target.url \in Gateways THEN backup.url ELSE "not saved"
<1>1. Init => Switch!Init
  <2> SUFFICES ASSUME Init PROVE Switch!Init
    OBVIOUS
  <2>1. target.url \in Endpoints
    <3>1. \A u \in Endpoints : File("object", u, 0).url = u
      BY FileTypes DEF Forms, Urls
    <3> QED
      BY <3>1, NothingTypes, RoutingAssumption DEF Init
  <2> QED
    BY <2>1, RoutingAssumption DEF Switch!Init
<1>2. Inv /\ Inv' /\ [Next]_vars => [Switch!Next]_<<target.url, Saved>>
  <2> SUFFICES ASSUME Inv, Inv', [Next]_vars PROVE [Switch!Next]_<<target.url, Saved>>
    OBVIOUS
  <2>0. /\ TypeOK /\ WayBack /\ Backed
        /\ target.url \in Gateways \/ target.url \in Endpoints
    BY EitherUrl DEF Inv
  <2>1. ASSUME target'.url = target.url, target.url \in Gateways => backup' = backup
        PROVE  UNCHANGED <<target.url, Saved>>
    BY <2>1
  <2>2. CASE UNCHANGED vars
    BY <2>1, <2>2 DEF vars
  <2>3. CASE Edit
    <3>1. target'.url = target.url
      BY <2>0, <2>3, EditsElsewhere DEF TypeOK, Sequential
    <3> QED
      BY <2>1, <2>3, <3>1 DEF Edit
  <2>4. ASSUME NEW c \in Commands, Step(c), target' = target
        PROVE  UNCHANGED <<target.url, Saved>>
    <3>1. target.url \in Gateways => backup' = backup
      BY <2>4, BackupMoves, RoutingAssumption
    <3> QED
      BY <2>1, <2>4, <3>1
  <2>5. ASSUME NEW c \in Commands, Install(c), target'.url = at[c].url, backup' = backup,
               backup.form = "ours"
        PROVE  [Switch!Next]_<<target.url, Saved>>
    <3>0. Held(c) /\ ~At(c, "idle") /\ At(c, "install")
      BY <2>5 DEF Inv, Install, At
    <3>1. backup.url \in Endpoints /\ backup.url # "not saved" /\ (target.url \in Endpoints => backup.url = target.url)
      BY <2>0, <2>5, RoutingAssumption DEF Backed
    <3>2. CASE at[c].op = "connect"
      <4>1. at[c].url \in Gateways /\ target.url # at[c].url
        BY <3>0, <3>2 DEF Held, At
      <4>2. Saved' = backup.url /\ Saved' = IF Saved = "not saved" THEN target.url ELSE Saved
        BY <2>0, <2>5, <3>1, <4>1, RoutingAssumption
      <4>3. Switch!Connect(at[c].url)
        BY <2>5, <4>1, <4>2 DEF Switch!Connect
      <4> QED
        BY <4>1, <4>3 DEF Switch!Next
    <3>3. CASE at[c].op # "connect"
      <4>1. at[c].url = backup.url
        BY <3>0, <3>3 DEF Held, At
      <4>2. target'.url = backup.url /\ target'.url \notin Gateways
        BY <2>5, <3>1, <4>1, RoutingAssumption
      <4>3. CASE target.url \in Gateways
        <5>1. Switch!Disconnect
          BY <3>1, <4>2, <4>3 DEF Switch!Disconnect
        <5> QED
          BY <5>1 DEF Switch!Next
      <4>4. CASE target.url \in Endpoints
        BY <3>1, <4>2, <4>4, RoutingAssumption
      <4> QED
        BY <2>0, <4>3, <4>4
    <3> QED
      BY <3>2, <3>3
  <2>6. ASSUME NEW c \in Commands, Step(c) PROVE [Switch!Next]_<<target.url, Saved>>
    BY <2>4, <2>5, <2>6, TargetMoves
  <2> QED
    BY <2>2, <2>1, <2>3, <2>6 DEF Next
<1> QED
  BY <1>1, <1>2, InvAlways, PTL DEF Spec, ImplementsSwitch, Switch!Spec
=============================================================================
