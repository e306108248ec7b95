------------------------------- MODULE Runner -------------------------------
(***************************************************************************)
(* One invocation of runPlaybook: the up-front secret phase, the SSH       *)
(* connection, the module loop with its recipes and when(...) blocks, the  *)
(* signal lists they own, the control-plane meta (sshd port changes and    *)
(* reboots), SIGINT/SIGTERM, the teardown and the exit code.               *)
(*                                                                         *)
(* A server definition is a tree of member lists.  The root list is        *)
(* server(...).run; a recipe and a when(...) block are lists that are      *)
(* members of another list.  The run walks the tree with a stack of        *)
(* frames, one per list being executed.  What a module's check and apply   *)
(* answer is chosen from the sets the constants give: the modules          *)
(* themselves are out of scope here.                                       *)
(*                                                                         *)
(* Everything between two awaits of the source runs without interruption;  *)
(* a shutdown signal arrives while the run waits for something.            *)
(***************************************************************************)
EXTENDS Integers, Sequences, FiniteSets

CONSTANTS
  Modules,          \* leaf modules
  Lists,            \* server(...).run, the recipes, the when(...) blocks
  Root,             \* server(...).run
  Kind,             \* [Lists -> {"run", "recipe", "when"}]
  Indices,          \* numbers for the server definitions a run may be given
  Definitions,      \* [Indices -> the members and the signals of every list]
  Checks,           \* [Modules -> SUBSET {"ok", "needs", "throws"}]
  Results,          \* [Modules -> SUBSET Result]
  ConfiguredPorts,  \* definition.ssh.ports
  ReportedPorts     \* the ports sshd.port meta entries name

NoPort == 0
Ports == ConfiguredPorts \cup ReportedPorts

(* A ModuleResult: its status, its control flags and its control-plane     *)
(* meta.  "throws" is a rejected promise.                                  *)
Statuses == {"ok", "changed", "failed", "skipped", "throws"}
Result == [status : Statuses, flush : BOOLEAN, stop : BOOLEAN,
           port : ReportedPorts \cup {NoPort}, reboot : BOOLEAN]

Answer(status) == [status |-> status, flush |-> FALSE, stop |-> FALSE,
                   port |-> NoPort, reboot |-> FALSE]

(* Every list ranks above the lists among its members.                     *)
Ranks == [Lists -> 1 .. Cardinality(Lists)]
Nested(members, rank) ==
  \A l \in Lists : \A i \in DOMAIN members[l] :
    members[l][i] \in Lists => rank[members[l][i]] < rank[l]

ASSUME RunnerAssumption ==
  /\ Root \in Lists /\ Modules \cap Lists = {}
  /\ Kind \in [Lists -> {"run", "recipe", "when"}]
  /\ \A l \in Lists : Kind[l] = "run" <=> l = Root
  /\ \A d \in Indices : \A l \in Lists :
       /\ Definitions[d].members[l] \in Seq(Modules \cup (Lists \ {Root}))
       /\ Definitions[d].signals[l] \in Seq(Modules)
       /\ Kind[l] = "when" => Definitions[d].signals[l] = <<>>
  \* A list is made of members that exist already: none contains itself.
  /\ IsFiniteSet(Lists)
  /\ \A d \in Indices : \E rank \in Ranks : Nested(Definitions[d].members, rank)
  /\ Checks \in [Modules -> SUBSET {"ok", "needs", "throws"}]
  /\ Results \in [Modules -> SUBSET Result]
  \* Only signals.flush asks for a flush, and it does not fail (builtins.ts:288).
  /\ \A m \in Modules : \A r \in Results[m] : r.flush => r.status # "failed"
  /\ ConfiguredPorts \subseteq Nat \ {NoPort}
  /\ ReportedPorts \subseteq Nat \ {NoPort}

VARIABLES
  server,     \* the index of the definition this run was given
  phase,      \* what the run is waiting for, or about to do
  stack,      \* the frames of the lists being executed, the innermost last
  result,     \* the result travelling from a member to its list
  failedStat, \* stats.failed > 0
  shutdown,   \* SIGINT/SIGTERM received: 0, 1 or 2
  conn,       \* the port of the live connection, or NoPort
  committing, \* a handshake succeeded, its host key is being recorded
  ports,      \* runtime.ports of the connection
  added,      \* the ports the port change in progress added
  listening,  \* the ports sshd listens on
  exit,       \* how the process ended
  failed,     \* history: some module or signal failed outside a shutdown
  owed,       \* history: lists with signals and a change not yet signalled
  due         \* history: control-plane meta reported and not yet handled

link == <<conn, committing, ports, added, listening>>
history == <<failed, owed, due>>
vars == <<server, phase, stack, result, failedStat, shutdown, link, exit, history>>

Members == Definitions[server].members
Signals == Definitions[server].signals        \* <<>> where the list has none

(***************************************************************************)
(* A frame is the local state of one loop: runModuleLoop's loopState, a    *)
(* RecipeState or a ConditionalApplyState.  "hooked" says whether the      *)
(* runner's onSignalStep and signalHooks reached this list.                *)
(***************************************************************************)
Frame(l, hooked) == [list |-> l, idx |-> 1, at |-> "member", sig |-> 1,
                     pending |-> FALSE, status |-> "ok", stop |-> FALSE,
                     flush |-> FALSE, hooked |-> hooked]

Top == stack[Len(stack)]
Scope == Top.list
SetTop(f) == stack' = [stack EXCEPT ![Len(stack)] = f]
Pop == stack' = SubSeq(stack, 1, Len(stack) - 1)
Member == Members[Scope][Top.idx]
InSignals == Top.at # "member"
HasSignals(l) == Signals[l] # <<>>
OpenLists == {stack[i].list : i \in DOMAIN stack}

Failing == result.status \in {"failed", "throws"}
ControlDue(r) == /\ r.status \notin {"failed", "throws"}
                 /\ r.port # NoPort \/ r.reboot

(* check() of a list asks its children in order, so it answers "ok" only   *)
(* when all of them can; a block asks its guard first.                     *)
CanBeOk[x \in Modules \cup Lists] ==
  IF x \in Modules THEN "ok" \in Checks[x]
  ELSE \A i \in DOMAIN Members[x] : CanBeOk[Members[x][i]]

CanThrow[x \in Modules \cup Lists] ==
  IF x \in Modules THEN "throws" \in Checks[x]
  ELSE Kind[x] = "when" \/ \E i \in DOMAIN Members[x] : CanThrow[Members[x][i]]

CheckAnswers(x) ==
  IF x \in Modules THEN Checks[x]
  ELSE {"needs"} \cup {a \in {"ok"} : CanBeOk[x]} \cup {a \in {"throws"} : CanThrow[x]}

Init ==
  /\ server \in Indices
  /\ phase = "prewarm" /\ stack = <<Frame(Root, TRUE)>> /\ result = Answer("ok")
  /\ failedStat = FALSE /\ shutdown = 0
  /\ conn = NoPort /\ committing = FALSE /\ ports = ConfiguredPorts /\ added = {}
  /\ listening = ConfiguredPorts
  /\ exit = "none" /\ failed = FALSE /\ owed = {} /\ due = 0

(***************************************************************************)
(* Before the loop: prewarmRunSecrets, then connectAndRegister, which      *)
(* looks for a shutdown before and after connect().                        *)
(***************************************************************************)
Prewarm ==
  /\ phase = "prewarm"
  /\ phase' = IF shutdown = 0 THEN "connect" ELSE "teardown"
  /\ UNCHANGED <<stack, result, failedStat, shutdown, link, exit, history>>

PrewarmFails ==
  /\ phase = "prewarm"
  /\ phase' = IF shutdown = 0 THEN "abort" ELSE "teardown"
  /\ UNCHANGED <<stack, result, failedStat, shutdown, link, exit, history>>

Connecting == phase \in {"connect", "portConnect", "rebootConnect"}

(* Transport.connect succeeded on one of the known ports.  The shutdown    *)
(* handler aborts a handshake, never what follows it.                      *)
Handshake ==
  /\ Connecting /\ ~committing /\ shutdown = 0
  /\ ports \cap listening # {}
  /\ committing' = TRUE
  /\ UNCHANGED <<phase, stack, result, failedStat, shutdown, conn, ports, added,
                 listening, exit, history>>

(* commitAcceptedHostKeyAndRegisterClient: the client is registered after  *)
(* the await on the host key, whatever happened meanwhile.                 *)
Register ==
  /\ Connecting /\ committing
  /\ \E p \in ports \cap listening : conn' = p
  /\ committing' = FALSE
  /\ phase' = CASE phase = "connect" -> IF shutdown = 0 THEN "loop" ELSE "teardown"
                [] phase = "portConnect" -> IF result.reboot THEN "reboot" ELSE "absorb"
                [] phase = "rebootConnect" -> "absorb"
  /\ UNCHANGED <<stack, result, failedStat, shutdown, ports, added, listening,
                 exit, history>>

(* Where an error of the control plane surfaces: a recipe's hook runs      *)
(* outside the try of its loop, every other caller catches it like an      *)
(* error of the module itself.                                             *)
HookThrows ==
  /\ result' = Answer("throws")
  /\ phase' = IF Kind[Scope] = "recipe" /\ ~InSignals THEN "escape" ELSE "absorb"
  /\ failed' = (failed \/ shutdown = 0)

(* The connection or the reconnect window is exhausted, or was aborted.    *)
(* A failed port change takes its ports back when no connection is up.     *)
ConnectFails ==
  /\ Connecting
  /\ committing' = FALSE
  /\ IF phase = "connect"
     THEN /\ phase' = IF shutdown = 0 THEN "abort" ELSE "teardown"
          /\ UNCHANGED <<ports, result, failed>>
     ELSE /\ HookThrows
          /\ ports' = IF phase = "portConnect" /\ conn = NoPort THEN ports \ added ELSE ports
  /\ UNCHANGED <<stack, failedStat, shutdown, conn, added, listening, exit, owed, due>>

(***************************************************************************)
(* The loops.  Each looks for a shutdown before it starts a member.        *)
(***************************************************************************)
NextMember ==
  /\ phase = "loop"
  /\ phase' = IF shutdown # 0 \/ Top.idx > Len(Members[Scope]) THEN "finish" ELSE "check"
  /\ UNCHANGED <<stack, result, failedStat, shutdown, link, exit, history>>

(* Mutant: the second look at the shutdown is missing.                     *)
InterruptedBeforeApply_Never == FALSE

(* Between check() and apply() every loop looks again, except the root's   *)
(* branch for recipes, which leaves it to the recipe's own loop.           *)
InterruptedBeforeApply ==
  /\ shutdown # 0
  /\ ~(Scope = Root /\ Member \in Lists /\ Kind[Member] = "recipe")

(* A member that needs nothing is not a step: no meta, no flush, no        *)
(* change.                                                                 *)
Check ==
  /\ phase = "check"
  /\ \E a \in CheckAnswers(Member) :
       /\ result' = Answer(IF a = "needs" THEN "ok" ELSE a)
       /\ failed' = (failed \/ (a = "throws" /\ shutdown = 0))
       /\ SetTop([Top EXCEPT !.idx = IF a = "ok" THEN @ + 1 ELSE @])
       /\ phase' = CASE a = "ok" -> "loop"
                     [] a = "throws" -> "absorb"
                     [] OTHER -> IF InterruptedBeforeApply THEN "finish" ELSE "start"
  /\ UNCHANGED <<failedStat, shutdown, link, exit, owed, due>>

StartLeaf ==
  /\ phase = "start" /\ Member \in Modules
  /\ phase' = "apply"
  /\ UNCHANGED <<stack, result, failedStat, shutdown, link, exit, history>>

(* A recipe is handed the runner's signal hooks by the root and by a       *)
(* recipe; a when(...) block does not have them to pass on.                *)
EnterList ==
  /\ phase = "start" /\ Member \in Lists
  /\ stack' = Append(stack, Frame(Member, Top.hooked /\ Kind[Member] = "recipe"))
  /\ phase' = "loop"
  /\ UNCHANGED <<result, failedStat, shutdown, link, exit, history>>

(* The guard of the block was false when check() memorised it.             *)
SkipBlock ==
  /\ phase = "start" /\ Member \in Lists /\ Kind[Member] = "when"
  /\ result' = Answer("skipped")
  /\ phase' = "report"
  /\ UNCHANGED <<stack, failedStat, shutdown, link, exit, history>>

(* The module's apply settles.  A module that reports a port has moved     *)
(* sshd to it; the established connection survives that, and the module    *)
(* may have registered the port and moved the connection over itself.      *)
ApplyEnds ==
  /\ phase = "apply"
  /\ \E r \in Results[IF InSignals THEN Signals[Scope][Top.sig] ELSE Member] :
       /\ result' = r
       /\ failed' = (failed \/ r.status = "failed" \/ (r.status = "throws" /\ shutdown = 0))
       /\ due' = due + (IF ControlDue(r) THEN 1 ELSE 0)
       /\ owed' = owed \cup (IF r.status = "changed" /\ ~InSignals
                             THEN {l \in OpenLists : HasSignals(l)} ELSE {})
       /\ listening' = IF r.port # NoPort THEN {r.port} ELSE listening
       /\ \E moved \in {p \in {r.port} \ {NoPort} : conn # NoPort} \cup {conn} :
            /\ conn' = moved
            /\ ports' = ports \cup ({moved} \ {NoPort})
       /\ phase' = IF r.status = "throws" THEN "absorb" ELSE "report"
  /\ UNCHANGED <<stack, failedStat, shutdown, committing, added, exit>>

(***************************************************************************)
(* applyRunnerControlPlaneMeta: the runner's hook sees every step of every *)
(* list; the steps of a signal list only where onSignalStep reached it.    *)
(* Failed steps and steps without such meta are skipped.                   *)
(***************************************************************************)
(* Mutant: the steps of a signal list do not reach the runner's hook.      *)
Hooked_MembersOnly == ~InSignals

Hooked == ~InSignals \/ Top.hooked

NoControlPlane ==
  /\ phase = "report"
  /\ ~(Hooked /\ ControlDue(result))
  /\ phase' = "absorb"
  /\ UNCHANGED <<stack, result, failedStat, shutdown, link, exit, history>>

(* handlePortChange: the ports become known first.  A reboot will          *)
(* reconnect anyway, and a module that moved the connection is done.       *)
PortChange ==
  /\ phase = "report" /\ Hooked /\ ControlDue(result) /\ result.port # NoPort
  /\ ports' = ports \cup {result.port}
  /\ added' = {result.port} \ ports
  /\ due' = due - 1
  /\ IF result.reboot \/ conn = result.port
     THEN /\ phase' = IF result.reboot THEN "reboot" ELSE "absorb"
          /\ UNCHANGED conn
     ELSE /\ phase' = "portConnect"
          /\ conn' = NoPort
  /\ UNCHANGED <<stack, result, failedStat, shutdown, committing, listening, exit,
                 failed, owed>>

Reboot ==
  /\ phase = "report" /\ Hooked /\ ControlDue(result) /\ result.port = NoPort
  /\ phase' = "reboot"
  /\ due' = due - 1
  /\ UNCHANGED <<stack, result, failedStat, shutdown, link, exit, failed, owed>>

(* The grace period ends, at once when a shutdown aborts it, and the       *)
(* reconnect starts by dropping the transport.                             *)
GraceEnds ==
  /\ phase = "reboot"
  /\ phase' = "rebootConnect"
  /\ conn' = NoPort
  /\ UNCHANGED <<stack, result, failedStat, shutdown, committing, ports, added,
                 listening, exit, history>>

(***************************************************************************)
(* What each loop makes of a member's result.                              *)
(***************************************************************************)
Throws == result.status = "throws"

(* A thrown error is an interruption under a shutdown and a failure        *)
(* otherwise; the root catches it in handleCaughtStepError.                *)
RootAbsorbs ==
  LET interrupted == Throws /\ shutdown # 0
      bad == Failing /\ ~interrupted
      stats == failedStat \/ bad
      pend == Top.pending \/ result.status = "changed"
      flush == /\ result.flush /\ shutdown = 0 /\ pend
               /\ ~stats /\ HasSignals(Root)
      break == Failing \/ result.stop
  IN /\ phase = "absorb" /\ Kind[Scope] = "run" /\ ~InSignals
     /\ failedStat' = stats
     /\ SetTop([Top EXCEPT !.pending = pend, !.stop = @ \/ result.stop,
                           !.idx = @ + 1, !.sig = 1,
                           !.at = IF flush THEN "flush" ELSE @])
     /\ phase' = CASE flush -> "signal" [] ~flush /\ break -> "finish" [] OTHER -> "loop"
     /\ UNCHANGED <<result, shutdown, link, exit, history>>

(* executeRecipeChildStep catches; a failed child forgets what is pending  *)
(* only when it threw.                                                     *)
RecipeAbsorbs ==
  LET pend == Top.pending \/ result.status = "changed"
      flush == ~Throws /\ result.flush /\ pend /\ HasSignals(Scope)
      interrupted == Throws /\ shutdown # 0
  IN /\ phase = "absorb" /\ Kind[Scope] = "recipe" /\ ~InSignals
     /\ IF interrupted THEN UNCHANGED stack
        ELSE SetTop([Top EXCEPT
               !.pending = pend /\ ~Throws,
               !.status = IF Failing THEN "failed"
                          ELSE IF result.status = "changed" THEN "changed" ELSE @,
               !.stop = (@ \/ result.stop) /\ ~Throws,
               !.idx = @ + 1, !.sig = 1,
               !.at = IF flush THEN "flush" ELSE @])
     /\ phase' = CASE flush -> "signal"
                   [] ~flush /\ (Failing \/ result.stop) -> "finish"
                   [] OTHER -> "loop"
     /\ UNCHANGED <<result, failedStat, shutdown, link, exit, history>>

(* A when(...) block hands a failed child's result out as its own and      *)
(* catches nothing.                                                        *)
BlockAbsorbs ==
  /\ phase = "absorb" /\ Kind[Scope] = "when"
  /\ IF Failing
     THEN /\ Pop
          /\ phase' = IF Throws THEN "absorb" ELSE "report"
     ELSE /\ SetTop([Top EXCEPT
               !.status = IF result.status = "changed" THEN "changed" ELSE @,
               !.stop = @ \/ result.stop,
               !.flush = @ \/ result.flush,
               !.idx = @ + 1])
          /\ phase' = IF result.stop THEN "finish" ELSE "loop"
  /\ UNCHANGED <<result, failedStat, shutdown, link, exit, history>>

(* An error of the recipe's hook leaves the recipe and is thrown by its    *)
(* apply.                                                                  *)
Escape ==
  /\ phase = "escape"
  /\ Pop
  /\ phase' = "absorb"
  /\ UNCHANGED <<result, failedStat, shutdown, link, exit, history>>

(***************************************************************************)
(* runSignalModules: no check, the first failure ends the list, a          *)
(* shutdown ends it without failing it.                                    *)
(***************************************************************************)
StartSignal ==
  /\ phase = "signal" /\ shutdown = 0 /\ Top.sig <= Len(Signals[Scope])
  /\ phase' = "apply"
  /\ UNCHANGED <<stack, result, failedStat, shutdown, link, exit, history>>

(* Mutant: the flush does not clear what is pending.                       *)
AfterSignals_StillPending(f, bad) ==
  [f EXCEPT !.at = "member", !.pending = @ /\ Top.at = "flush",
            !.status = IF bad THEN "failed" ELSE @]

(* What the owner does once its list has run: nothing is pending any more, *)
(* a failed list fails a recipe and ends the run.                          *)
AfterSignals(f, bad) ==
  [f EXCEPT !.pending = FALSE, !.at = "member",
            !.status = IF bad THEN "failed" ELSE @]

(* Mutant: a failed list does not end the loop that owns it.               *)
SignalListEnds_Continues(bad) ==
  /\ SetTop(AfterSignals(Top, FALSE))
  /\ phase' = IF Top.at = "end" \/ Top.stop THEN "finish" ELSE "loop"

SignalListEnds(bad) ==
  /\ SetTop(AfterSignals(Top, bad))
  /\ phase' = IF Top.at = "end" \/ bad \/ Top.status = "failed" \/ Top.stop
              THEN "finish" ELSE "loop"

SignalsDone ==
  /\ phase = "signal" /\ (shutdown # 0 \/ Top.sig > Len(Signals[Scope]))
  /\ SignalListEnds(FALSE)
  /\ owed' = IF Top.sig > Len(Signals[Scope]) THEN owed \ {Scope} ELSE owed
  /\ UNCHANGED <<result, failedStat, shutdown, link, exit, failed, due>>

SignalFails ==
  /\ phase = "absorb" /\ InSignals /\ Failing
  /\ failedStat' = (failedStat \/ Top.hooked)
  /\ SignalListEnds(TRUE)
  /\ failed' = TRUE
  /\ UNCHANGED <<result, shutdown, link, exit, owed, due>>

(* Mutant: the list of signals starts over.                                *)
NextSignal_Repeats ==
  /\ phase = "absorb" /\ InSignals /\ ~Failing
  /\ phase' = "signal"
  /\ UNCHANGED <<stack, result, failedStat, shutdown, link, exit, history>>

NextSignal ==
  /\ phase = "absorb" /\ InSignals /\ ~Failing
  /\ SetTop([Top EXCEPT !.sig = @ + 1])
  /\ phase' = "signal"
  /\ UNCHANGED <<result, failedStat, shutdown, link, exit, history>>

(***************************************************************************)
(* The end of a list.                                                      *)
(***************************************************************************)
WantsEndSignals ==
  /\ Top.pending /\ HasSignals(Scope)
  /\ CASE Kind[Scope] = "run" -> shutdown = 0 /\ ~failedStat
       [] Kind[Scope] = "recipe" -> Top.status = "changed"
       [] OTHER -> FALSE

EndSignals ==
  /\ phase = "finish" /\ WantsEndSignals
  /\ SetTop([Top EXCEPT !.at = "end", !.sig = 1])
  /\ phase' = "signal"
  /\ UNCHANGED <<result, failedStat, shutdown, link, exit, history>>

(* Mutant: a list reports its own status as its last member left it.       *)
ListResult_LastMember ==
  [Answer(result.status) EXCEPT !.stop = Top.stop, !.flush = Top.flush]

(* A recipe's flush request stays in its own scope, a block's does not;    *)
(* control-plane meta is never handed on, the hook has seen it.            *)
ListResult ==
  [Answer(Top.status) EXCEPT !.stop = Top.stop, !.flush = Top.flush]

LeaveList ==
  /\ phase = "finish" /\ Scope # Root /\ ~WantsEndSignals
  /\ Pop
  /\ result' = ListResult
  /\ phase' = "report"
  /\ UNCHANGED <<failedStat, shutdown, link, exit, history>>

RunDone ==
  /\ phase = "finish" /\ Scope = Root /\ ~WantsEndSignals
  /\ phase' = "teardown"
  /\ UNCHANGED <<stack, result, failedStat, shutdown, link, exit, history>>

(* The handlers are removed, the connection is closed and the exit code is *)
(* set without an await in between; an error that no shutdown explains is  *)
(* left to the command line.                                               *)
ExitCode ==
  CASE phase = "abort" -> "error"
    [] shutdown # 0 -> "signal"
    [] failedStat -> "failed"
    [] OTHER -> "ok"

(* Mutant: the disconnect of the first signal is taken for the teardown.   *)
Teardown_Trusting ==
  /\ phase \in {"teardown", "abort"}
  /\ phase' = "ended"
  /\ exit' = ExitCode
  /\ conn' = IF shutdown = 0 THEN NoPort ELSE conn
  /\ UNCHANGED <<stack, result, failedStat, shutdown, committing, ports, added,
                 listening, history>>

Teardown ==
  /\ phase \in {"teardown", "abort"}
  /\ phase' = "ended"
  /\ exit' = ExitCode
  /\ conn' = NoPort
  /\ UNCHANGED <<stack, result, failedStat, shutdown, committing, ports, added,
                 listening, history>>

(***************************************************************************)
(* SIGINT and SIGTERM arrive while the run awaits something.  The first    *)
(* one disconnects in the microtask after the handler, which runs before   *)
(* anything else can; the second one ends the process.                     *)
(***************************************************************************)
Waiting == phase \in {"prewarm", "connect", "check", "apply", "reboot",
                      "portConnect", "rebootConnect"}

Interrupt ==
  /\ Waiting /\ shutdown = 0
  /\ shutdown' = 1
  /\ conn' = NoPort
  /\ UNCHANGED <<phase, stack, result, failedStat, committing, ports, added,
                 listening, exit, history>>

Kill ==
  /\ Waiting /\ shutdown = 1
  /\ shutdown' = 2
  /\ phase' = "ended" /\ exit' = "signal" /\ conn' = NoPort
  /\ UNCHANGED <<stack, result, failedStat, committing, ports, added, listening,
                 history>>

Step ==
  \/ Prewarm \/ PrewarmFails \/ Handshake \/ Register \/ ConnectFails
  \/ NextMember \/ Check \/ StartLeaf \/ EnterList \/ SkipBlock \/ ApplyEnds
  \/ NoControlPlane \/ PortChange \/ Reboot \/ GraceEnds
  \/ RootAbsorbs \/ RecipeAbsorbs \/ BlockAbsorbs \/ Escape
  \/ StartSignal \/ SignalsDone \/ SignalFails \/ NextSignal
  \/ EndSignals \/ LeaveList \/ RunDone \/ Teardown

Progress == Step /\ UNCHANGED server
ShutdownSignal == (Interrupt \/ Kill) /\ UNCHANGED server

Next == Progress \/ ShutdownSignal

Spec == Init /\ [][Next]_vars

(* Every awaited operation settles: commands and connection attempts have  *)
(* timeouts, the reconnect loop a deadline.  No signal is owed to anyone.  *)
FairSpec == Spec /\ WF_vars(Progress)

(***************************************************************************)
(* Properties.                                                             *)
(***************************************************************************)
TypeOK ==
  /\ server \in Indices
  /\ phase \in {"prewarm", "connect", "loop", "check", "start", "apply", "report",
               "reboot", "portConnect", "rebootConnect", "absorb", "escape",
               "signal", "finish", "teardown", "abort", "ended"}
  /\ Len(stack) \in 1..Cardinality(Lists)
  /\ \A i \in DOMAIN stack :
       stack[i] \in [list : Lists, idx : Nat \ {0}, at : {"member", "flush", "end"},
                    sig : Nat \ {0}, pending : BOOLEAN,
                    status : {"ok", "changed", "failed"}, stop : BOOLEAN,
                    flush : BOOLEAN, hooked : BOOLEAN]
  /\ result \in Result
  /\ failedStat \in BOOLEAN /\ shutdown \in 0..2 /\ committing \in BOOLEAN
  /\ conn \in Ports \cup {NoPort}
  /\ ports \subseteq Ports /\ added \subseteq Ports /\ listening \subseteq Ports
  /\ exit \in {"none", "ok", "failed", "error", "signal"}
  /\ failed \in BOOLEAN /\ owed \subseteq Lists /\ due \in Nat

(* A run that exits 0 did all of it: nothing failed anywhere in the tree,  *)
(* and every list whose members changed something ran its signals to the   *)
(* end after the last change.  The change travels up through nested        *)
(* recipes and blocks, flushes reset it, each loop keeps its own flag.     *)
SuccessIsComplete ==
  exit = "ok" => ~failed /\ shutdown = 0 /\ owed = {}

(* Signals run only for a change of their scope that no signal run has     *)
(* served yet: a flush and the end of the list do not serve one twice.     *)
SignalsNeedChange ==
  InSignals => Scope \in owed

StartsWork == phase' = "apply" /\ phase # "apply"

(* After the first failed member, signal, reconnect or rejected check,     *)
(* nothing is applied any more, in any enclosing list.                     *)
NothingAfterFailure == [][StartsWork => ~failed]_vars

(* After the first SIGINT/SIGTERM nothing new is applied, not even what    *)
(* was checked before the signal arrived.                                  *)
NothingAfterShutdown == [][StartsWork => shutdown = 0]_vars

(* A signal list whose modules never ask for a port change or a reboot.    *)
HarmlessSignals(d, l) ==
  \A i \in DOMAIN Definitions[d].signals[l] :
    \A r \in Results[Definitions[d].signals[l][i]] : ~ControlDue(r)

(* The when(...) blocks of a definition and the lists inside of them own   *)
(* only such signal lists.                                                 *)
Guards(d, guarded) ==
  /\ \A l \in Lists : Kind[l] = "when" => l \in guarded
  /\ \A l \in guarded :
       /\ HarmlessSignals(d, l)
       /\ \A i \in DOMAIN Definitions[d].members[l] :
            Definitions[d].members[l][i] \in Lists => Definitions[d].members[l][i] \in guarded

(* ... so that every port change and every reboot is reported where the    *)
(* runner's onSignalStep looks.                                            *)
SignalsReachTheHook == \A d \in Indices : \E guarded \in SUBSET Lists : Guards(d, guarded)

(* A reported port change or reboot is dealt with before anything else     *)
(* runs: the next apply never talks to a connection that is about to be    *)
(* lost.                                                                   *)
ControlPlaneIsPrompt == [][StartsWork => due = 0]_vars

(* The run never works over a port it does not know, so a later reconnect  *)
(* can find the way back, and a failed port change costs none of the ports *)
(* the operator configured.                                                *)
PortsStayKnown ==
  /\ conn # NoPort => conn \in ports
  /\ ConfiguredPorts \subseteq ports

(* The run ends with no connection up or on its way up, also when the      *)
(* signal hit the window in which a client is connected but not yet        *)
(* registered.                                                             *)
NothingLeftConnected == phase = "ended" => conn = NoPort

(* The run knows the connection it has, and leaves none behind.            *)
ConnectionIsKnown == TypeOK /\ PortsStayKnown /\ NothingLeftConnected

(* The run ends, whatever the modules answer.                              *)
RunEnds == <>(phase = "ended")

=============================================================================
