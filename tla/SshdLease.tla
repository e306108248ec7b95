------------------------------ MODULE SshdLease ------------------------------
(***************************************************************************)
(* The sshd commit lease of packages/paratix/src/modules: withSshdCommit-  *)
(* Lease (sshdCommitLock.ts), its acquisition (sshdLeaseAcquisition.ts)    *)
(* and the mutex life cycle that runs it (mutexLock.ts, flagLock.ts).      *)
(*                                                                         *)
(* Several controllers change the sshd configuration of one host.  Each    *)
(* call owns a fresh token.  Everything it does on the host is a remote    *)
(* shell ("exec") that first takes one kernel lock (flock); the lease      *)
(* itself is a directory with a holder marker whose mtime is refreshed by  *)
(* a heartbeat and that anybody may remove once it is older than Stale.    *)
(* Remote shells die at any point, and outlive the controller that started *)
(* them when the connection drops, an exec times out or the controller     *)
(* crashes.                                                                *)
(*                                                                         *)
(* The program only ever asks whether an age exceeds the threshold, and of *)
(* one thing: the marker if there is one, otherwise the directory and the  *)
(* preparation file, whose creation is the directory's last change and so  *)
(* has the same mtime.  One age, which grows with Tick and saturates one   *)
(* above the threshold, stands for them.                                   *)
(***************************************************************************)
EXTENDS Naturals, TLC

CONSTANTS
    Tokens,     \* the calls of withSshdCommitLease, each with its UUID
    Recovery,   \* the calls with allowPending: the host-certificate owner
    Execs,      \* identities of the remote shells that may live at once
    NoToken,    \* no marker, no preparation file, nobody
    NoExec,     \* the kernel lock is free
    Stale       \* effective age (in ticks) above which evidence is stale

ASSUME TokensAssumption ==
    /\ NoToken \notin Tokens
    /\ NoExec \notin Execs
    /\ Recovery \subseteq Tokens
    /\ Stale \in Nat

VARIABLES
    ctl,        \* what each controller is doing; "gone": returned or crashed
    lost,       \* its MutexLockHandle's latched "lost"
    exec,       \* the remote shells
    flock,      \* the exec that holds the kernel lock
    dir,        \* the lease directory exists
    marker,     \* first line of <dir>/holder
    prep,       \* token of <dir>/holder.pending-<token>
    age,        \* age of the marker; without one, of directory and prep
    pending,    \* an unresolved host-certificate Pending file exists
    retired,    \* history: tokens whose marker was removed
    writer,     \* the token of the latest write to the sshd configuration
    wrote       \* history: the tokens that wrote

fsVars == <<dir, marker, prep, age, retired>>
configVars == <<pending, writer, wrote>>
vars == <<ctl, lost, exec, flock, fsVars, configVars>>

-----------------------------------------------------------------------------
(* Remote shells.                                                          *)

Kinds == {"acquire", "command", "refresh", "release"}

\* Program points at which the shell holds the kernel lock.
Locked == {"guard", "body", "inspect", "rmdir", "mkdir", "prepare",
           "publish", "report", "compare"}

\* "failed" stands for the exits 73 to 76, any other failure and a killed shell.
Codes == {"none", "ok", "contended", "failed"}

ExecRecord ==
    [owner : Tokens \cup {NoToken}, kind : Kinds,
     pc : Locked \cup {"free", "flock", "exited"},
     code : Codes, awaited : BOOLEAN]

FreeExec == [owner |-> NoToken, kind |-> "command", pc |-> "free",
             code |-> "none", awaited |-> FALSE]

Is(e, kind, pc) == exec[e].kind = kind /\ exec[e].pc = pc
Owner(e) == exec[e].owner

\* lockedCommand + base.exec: the controller opens a channel and the shell
\* begins by waiting for the kernel lock.
Spawn(c, kind) ==
    \E e \in Execs :
        /\ exec[e].pc = "free"
        /\ exec' = [exec EXCEPT ![e] = [owner |-> c, kind |-> kind, pc |-> "flock",
                                        code |-> "none", awaited |-> TRUE]]

\* `flock -x -w 30 9`, then the first statement of the prepared command.
FirstStep == [acquire |-> "inspect", command |-> "guard",
              refresh |-> "guard", release |-> "compare"]

Goto(e, pc) == exec' = [exec EXCEPT ![e].pc = pc]

\* The shell ends: the kernel drops its lock.  An exit code nobody waits for
\* any more is dropped with the channel.
Exit(e, code) ==
    /\ exec' = [exec EXCEPT ![e] =
                   IF @.awaited THEN [@ EXCEPT !.pc = "exited", !.code = code]
                   ELSE FreeExec]
    /\ flock' = IF flock = e THEN NoExec ELSE flock

\* Mutant: the prepared command runs without the kernel lock.
TakeFlock_WithoutLock(e) ==
    /\ exec[e].pc = "flock"
    /\ flock' = e
    /\ Goto(e, FirstStep[exec[e].kind])
    /\ UNCHANGED <<ctl, lost, fsVars, configVars>>

TakeFlock(e) ==
    /\ exec[e].pc = "flock"
    /\ flock = NoExec
    /\ flock' = e
    /\ Goto(e, FirstStep[exec[e].kind])
    /\ UNCHANGED <<ctl, lost, fsVars, configVars>>

\* Exit 73: the 30 s wait for a living holder ran out.
FlockTimeout(e) ==
    /\ exec[e].pc = "flock"
    /\ flock # NoExec
    /\ Exit(e, "failed")
    /\ UNCHANGED <<ctl, lost, fsVars, configVars>>

\* The remote shell is killed (or its host-side session is) at any point.
Die(e) ==
    /\ exec[e].pc \notin {"free", "exited"}
    /\ Exit(e, "failed")
    /\ UNCHANGED <<ctl, lost, fsVars, configVars>>

-----------------------------------------------------------------------------
(* Lease acquisition: acquisitionCommand, one shell under the kernel lock. *)

\* Mutant: the mtime test never matches.
StaleMarker_Never == FALSE

StaleMarker == marker # NoToken /\ age > Stale

\* A directory without a marker is an interrupted initialization once it is
\* old, and so is the preparation file in it if there is one.
StaleInitialization ==
    /\ dir /\ marker = NoToken
    /\ age > Stale

\* preparationGuard (exit 76): a preparation file beside a holder marker is
\* evidence nobody may remove.
UnsafeEvidence == marker # NoToken /\ prep # NoToken

ReclaimMarker(e) ==
    /\ Is(e, "acquire", "inspect")
    /\ ~UnsafeEvidence /\ StaleMarker
    /\ marker' = NoToken
    /\ retired' = retired \cup {marker}
    /\ age' = 0    \* the directory's mtime moves with its entries
    /\ Goto(e, "rmdir")
    /\ UNCHANGED <<ctl, lost, flock, dir, prep, configVars>>

ReclaimInitialization(e) ==
    /\ Is(e, "acquire", "inspect")
    /\ StaleInitialization
    /\ prep' = NoToken
    /\ age' = IF prep = NoToken THEN age ELSE 0
    /\ Goto(e, "rmdir")
    /\ UNCHANGED <<ctl, lost, flock, dir, marker, retired, configVars>>

\* Fresh evidence stays: mkdir decides.  Unsafe evidence ends the attempt.
NothingToReclaim(e) ==
    /\ Is(e, "acquire", "inspect")
    /\ UnsafeEvidence \/ ~(StaleMarker \/ StaleInitialization)
    /\ IF UnsafeEvidence THEN Exit(e, "failed")
       ELSE Goto(e, "mkdir") /\ UNCHANGED flock
    /\ UNCHANGED <<ctl, lost, fsVars, configVars>>

RemoveDirectory(e) ==
    /\ Is(e, "acquire", "rmdir")
    /\ dir' = FALSE
    /\ age' = 0
    /\ Goto(e, "mkdir")
    /\ UNCHANGED <<ctl, lost, flock, marker, prep, retired, configVars>>

\* Mutant: mkdir -p succeeds on an existing lease.
MakeDirectory_Parents(e) ==
    /\ Is(e, "acquire", "mkdir")
    /\ dir' = TRUE
    /\ age' = 0
    /\ Goto(e, "prepare")
    /\ UNCHANGED <<ctl, lost, flock, marker, prep, retired, configVars>>

MakeDirectory(e) ==
    /\ Is(e, "acquire", "mkdir")
    /\ ~dir
    /\ dir' = TRUE
    /\ age' = 0
    /\ Goto(e, "prepare")
    /\ UNCHANGED <<ctl, lost, flock, marker, prep, retired, configVars>>

\* Mutant: the contended exit code is mistaken for success.
Contended_AsAcquired(e) ==
    /\ Is(e, "acquire", "mkdir")
    /\ dir
    /\ Exit(e, "ok")
    /\ UNCHANGED <<ctl, lost, fsVars, configVars>>

\* mkdir failed: exit 77.
Contended(e) ==
    /\ Is(e, "acquire", "mkdir")
    /\ dir
    /\ Exit(e, "contended")
    /\ UNCHANGED <<ctl, lost, fsVars, configVars>>

WritePreparation(e) ==
    /\ Is(e, "acquire", "prepare")
    /\ prep' = Owner(e)
    /\ age' = 0
    /\ Goto(e, "publish")
    /\ UNCHANGED <<ctl, lost, flock, dir, marker, retired, configVars>>

\* mv -T -n: the marker keeps the mtime of the preparation file.
PublishMarker(e) ==
    /\ Is(e, "acquire", "publish")
    /\ marker' = prep
    /\ prep' = NoToken
    /\ age' = age
    /\ Goto(e, "report")
    /\ UNCHANGED <<ctl, lost, flock, dir, retired, configVars>>

\* The readback equals the token and is printed.
ReportToken(e) ==
    /\ Is(e, "acquire", "report")
    /\ Exit(e, IF marker = Owner(e) THEN "ok" ELSE "failed")
    /\ UNCHANGED <<ctl, lost, fsVars, configVars>>

-----------------------------------------------------------------------------
(* The fence of a guarded command, its body, the heartbeat, the release.   *)

\* flockRefreshGuard: the directory and the marker exist, the token is ours,
\* the marker is not stale.  When it accepts it has touched the marker.
\* Mutant: the guard checks that some fresh marker exists, not whose it is.
HoldsFreshLease_AnyToken(t) == dir /\ marker # NoToken /\ age <= Stale

HoldsFreshLease(t) == dir /\ marker = t /\ age <= Stale

FenceRefuses(e) ==
    /\ exec[e].pc = "guard"
    /\ ~HoldsFreshLease(Owner(e))
    /\ Exit(e, "failed")
    /\ UNCHANGED <<ctl, lost, fsVars, configVars>>

\* The heartbeat's exec is the guard alone.
Refresh(e) ==
    /\ Is(e, "refresh", "guard")
    /\ HoldsFreshLease(Owner(e))
    /\ age' = 0
    /\ Exit(e, "ok")
    /\ UNCHANGED <<ctl, lost, dir, marker, prep, retired, configVars>>

\* Exit 75: the guard has refreshed the marker, an unresolved Pending stops
\* every writer but its recovery owner.
PendingBlocks(e) ==
    /\ Is(e, "command", "guard")
    /\ HoldsFreshLease(Owner(e))
    /\ pending /\ Owner(e) \notin Recovery
    /\ age' = 0
    /\ Exit(e, "failed")
    /\ UNCHANGED <<ctl, lost, dir, marker, prep, retired, configVars>>

\* Mutant: the Pending check is dropped from the fence.
EnterBody_PendingUnchecked(e) ==
    /\ Is(e, "command", "guard")
    /\ HoldsFreshLease(Owner(e))
    /\ age' = 0
    /\ Goto(e, "body")
    /\ UNCHANGED <<ctl, lost, flock, dir, marker, prep, retired, configVars>>

EnterBody(e) ==
    /\ Is(e, "command", "guard")
    /\ HoldsFreshLease(Owner(e))
    /\ ~pending \/ Owner(e) \in Recovery
    /\ age' = 0
    /\ Goto(e, "body")
    /\ UNCHANGED <<ctl, lost, flock, dir, marker, prep, retired, configVars>>

\* A body is any prepared command: it writes sshd's files any number of times ...
BodyWrites(e) ==
    /\ Is(e, "command", "body")
    /\ writer' = Owner(e)
    /\ wrote' = wrote \cup {Owner(e)}
    /\ UNCHANGED <<ctl, lost, exec, flock, fsVars, pending>>

\* ... the recovery owner also publishes and removes the Pending manifest ...
BodyMovesPending(e) ==
    /\ Is(e, "command", "body")
    /\ Owner(e) \in Recovery
    /\ pending' = ~pending
    /\ UNCHANGED <<ctl, lost, exec, flock, fsVars, writer, wrote>>

\* ... and ends.
BodyEnds(e) ==
    /\ Is(e, "command", "body")
    /\ Exit(e, "ok")
    /\ UNCHANGED <<ctl, lost, fsVars, configVars>>

\* releaseFlagLock: token comparison, rm -f marker, then rmdir.
ReleaseRefuses(e) ==
    /\ Is(e, "release", "compare")
    /\ marker # Owner(e)
    /\ Exit(e, "failed")
    /\ UNCHANGED <<ctl, lost, fsVars, configVars>>

ReleaseMarker(e) ==
    /\ Is(e, "release", "compare")
    /\ marker = Owner(e)
    /\ marker' = NoToken
    /\ retired' = retired \cup {marker}
    /\ age' = 0    \* the directory's mtime moves with its entries
    /\ Goto(e, "rmdir")
    /\ UNCHANGED <<ctl, lost, flock, dir, prep, configVars>>

ReleaseDirectory(e) ==
    /\ Is(e, "release", "rmdir")
    /\ dir' = FALSE
    /\ age' = 0
    /\ Exit(e, "ok")
    /\ UNCHANGED <<ctl, lost, marker, prep, retired, configVars>>

-----------------------------------------------------------------------------
(* Controllers.                                                            *)

Awaits(c, kind) ==
    \E e \in Execs : Owner(e) = c /\ exec[e].kind = kind /\ exec[e].awaited

Become(c, state) == ctl' = [ctl EXCEPT ![c] = state]

\* acquireMutex: the first attempt, and another one after waitForRetry.
TryAcquire(c) ==
    /\ ctl[c] \in {"idle", "waiting"}
    /\ Spawn(c, "acquire")
    /\ Become(c, "acquiring")
    /\ UNCHANGED <<lost, flock, fsVars, configVars>>

\* The wait budget is exhausted.
GiveUp(c) ==
    /\ ctl[c] = "waiting"
    /\ Become(c, "gone")
    /\ UNCHANGED <<lost, exec, flock, fsVars, configVars>>

\* The section runs its fenced commands one after the other.
RunCommand(c) ==
    /\ ctl[c] = "section"
    /\ ~Awaits(c, "command")
    /\ Spawn(c, "command")
    /\ UNCHANGED <<ctl, lost, flock, fsVars, configVars>>

\* The heartbeat timer: refreshes never overlap and stop once the handle is lost.
Heartbeat(c) ==
    /\ ctl[c] = "section"
    /\ ~lost[c]
    /\ ~Awaits(c, "refresh")
    /\ Spawn(c, "refresh")
    /\ UNCHANGED <<ctl, lost, flock, fsVars, configVars>>

\* The section returned or threw; heartbeat.stop() clears the timer ...
EndSection(c) ==
    /\ ctl[c] = "section"
    /\ ~Awaits(c, "command")
    /\ Become(c, "stopping")
    /\ UNCHANGED <<lost, exec, flock, fsVars, configVars>>

\* Mutant: heartbeat.stop() never resolves once the handle is lost.
StartRelease_UnlessLost(c) ==
    /\ ctl[c] = "stopping"
    /\ ~lost[c] /\ ~Awaits(c, "refresh")
    /\ Spawn(c, "release")
    /\ Become(c, "releasing")
    /\ UNCHANGED <<lost, flock, fsVars, configVars>>

\* ... and awaits an in-flight refresh before the release runs.
StartRelease(c) ==
    /\ ctl[c] = "stopping"
    /\ ~Awaits(c, "refresh")
    /\ Spawn(c, "release")
    /\ Become(c, "releasing")
    /\ lost' = [lost EXCEPT ![c] = FALSE]    \* the handle is out of scope
    /\ UNCHANGED <<flock, fsVars, configVars>>

\* Mutant: an unexpected outcome of the acquisition is kept as the state.
Settle_KeepsCode(e, code) ==
    LET c == Owner(e) IN
    CASE exec[e].kind = "acquire" ->
            /\ Become(c, CASE code = "ok" -> "section"
                           [] code = "contended" -> "waiting"
                           [] OTHER -> code)
            /\ lost' = lost
      [] exec[e].kind = "command" -> UNCHANGED <<ctl, lost>>
      [] exec[e].kind = "refresh" ->
            /\ lost' = [lost EXCEPT ![c] = @ \/ code # "ok"]
            /\ ctl' = ctl
      [] exec[e].kind = "release" -> Become(c, "gone") /\ lost' = lost

\* What the controller does with the outcome of an exec.  A rejected exec and
\* an unexpected exit code end an acquisition alike, latch the handle as lost,
\* and are swallowed by releaseQuietly.
Settle(e, code) ==
    LET c == Owner(e) IN
    CASE exec[e].kind = "acquire" ->
            /\ Become(c, CASE code = "ok" -> "section"
                           [] code = "contended" -> "waiting"
                           [] OTHER -> "gone")
            /\ lost' = lost
      [] exec[e].kind = "command" -> UNCHANGED <<ctl, lost>>
      [] exec[e].kind = "refresh" ->
            /\ lost' = [lost EXCEPT ![c] = @ \/ code # "ok"]
            /\ ctl' = ctl
      [] exec[e].kind = "release" -> Become(c, "gone") /\ lost' = lost

Deliver(e) ==
    /\ exec[e].pc = "exited"
    /\ Settle(e, exec[e].code)
    /\ exec' = [exec EXCEPT ![e] = FreeExec]
    /\ UNCHANGED <<flock, fsVars, configVars>>

\* The exec timed out or its connection dropped: the controller goes on
\* without an answer, the remote shell goes on without a controller.
LoseReply(e) ==
    /\ exec[e].awaited
    /\ Settle(e, "failed")
    /\ exec' = [exec EXCEPT ![e] = IF @.pc = "exited" THEN FreeExec
                                   ELSE [@ EXCEPT !.awaited = FALSE]]
    /\ UNCHANGED <<flock, fsVars, configVars>>

Active == {"acquiring", "waiting", "section", "stopping", "releasing"}

\* The controller process ends at any point; its remote shells live on.
Crash(c) ==
    /\ ctl[c] \in Active
    /\ Become(c, "gone")
    /\ exec' = [e \in Execs |->
                   IF Owner(e) # c THEN exec[e]
                   ELSE IF exec[e].pc = "exited" THEN FreeExec
                   ELSE [exec[e] EXCEPT !.awaited = FALSE]]
    /\ lost' = [lost EXCEPT ![c] = FALSE]
    /\ UNCHANGED <<flock, fsVars, configVars>>

Tick ==
    /\ dir /\ age <= Stale
    /\ age' = age + 1
    /\ UNCHANGED <<ctl, lost, exec, flock, dir, marker, prep, retired, configVars>>

-----------------------------------------------------------------------------

Init ==
    /\ ctl = [c \in Tokens |-> "idle"]
    /\ lost = [c \in Tokens |-> FALSE]
    /\ exec = [e \in Execs |-> FreeExec]
    /\ flock = NoExec
    /\ dir = FALSE
    /\ marker = NoToken
    /\ prep = NoToken
    /\ age = 0
    /\ pending = FALSE
    /\ retired = {}
    /\ writer = NoToken
    /\ wrote = {}

\* One step of a remote shell that does not end it from outside.
ShellStep(e) ==
    \/ TakeFlock(e) \/ FlockTimeout(e)
    \/ ReclaimMarker(e) \/ ReclaimInitialization(e)
    \/ NothingToReclaim(e) \/ RemoveDirectory(e) \/ MakeDirectory(e)
    \/ Contended(e) \/ WritePreparation(e) \/ PublishMarker(e) \/ ReportToken(e)
    \/ FenceRefuses(e) \/ Refresh(e) \/ PendingBlocks(e) \/ EnterBody(e)
    \/ BodyEnds(e)
    \/ ReleaseRefuses(e) \/ ReleaseMarker(e) \/ ReleaseDirectory(e)

ControllerStep(c) ==
    \/ TryAcquire(c) \/ GiveUp(c) \/ RunCommand(c) \/ Heartbeat(c)
    \/ EndSection(c) \/ StartRelease(c) \/ Crash(c)

Next ==
    \/ Tick
    \/ \E c \in Tokens : ControllerStep(c)
    \/ \E e \in Execs :
          \/ ShellStep(e) \/ BodyWrites(e) \/ BodyMovesPending(e) \/ Die(e)
          \/ Deliver(e) \/ LoseReply(e)

Spec == Init /\ [][Next]_vars

\* A controller's timers and continuations run while its process lives, a
\* section comes to its end, a remote shell that is not killed runs on, and
\* time passes.  Nothing makes a shell die, a reply get lost or a controller
\* crash, start or give up.
Fairness ==
    /\ WF_vars(Tick)
    /\ \A e \in Execs : WF_vars(ShellStep(e) \/ Deliver(e))
    /\ \A c \in Tokens :
          /\ SF_vars(EndSection(c))
          /\ SF_vars(StartRelease(c))
          /\ SF_vars(ctl[c] = "waiting" /\ TryAcquire(c))

FairSpec == Spec /\ Fairness

(* The fair behaviours in which the commands write nothing: what they       *)
(* write plays no part in progress.                                         *)
LiveSpec == Init /\ [][Next /\ UNCHANGED configVars]_vars /\ Fairness

(* Remote shells are interchangeable: for the safety run only.              *)
ExecSymmetry == Permutations(Execs)

-----------------------------------------------------------------------------
(* Properties.                                                             *)

(* The type of the state. *)
TypeOK ==
    /\ ctl \in [Tokens -> Active \cup {"idle", "gone"}]
    /\ lost \in [Tokens -> BOOLEAN]
    /\ exec \in [Execs -> ExecRecord]
    /\ flock \in Execs \cup {NoExec}
    /\ dir \in BOOLEAN
    /\ marker \in Tokens \cup {NoToken}
    /\ prep \in Tokens \cup {NoToken}
    /\ age \in 0 .. Stale + 1
    /\ pending \in BOOLEAN
    /\ retired \subseteq Tokens
    /\ writer \in Tokens \cup {NoToken}
    /\ wrote \subseteq Tokens

(* The lease is what CommitLease promises: one grant per token, no grant    *)
(* while it is held, and every write of sshd's files by the present holder, *)
(* whichever shells outlived their controllers (sshdCommitLock.ts:19-20).   *)
Lease == INSTANCE CommitLease WITH holder <- marker

LeaseRefinement == Lease!LeaseSpec

(* The writes of one call are contiguous: no delayed command of an earlier  *)
(* section writes after another section has (the fence of lockedCommand).   *)
ContiguousWrites == Lease!ContiguousWrites

(* A living body blocks reclamation as well as mutation: while a prepared   *)
(* command runs, the marker is its own (sshdCommitLock.ts:19-20).           *)
BodyHoldsLease ==
    \A e \in Execs : Is(e, "command", "body") => dir /\ marker = Owner(e)

(* Only the recovery owner's command runs while a host-certificate Pending  *)
(* is unresolved, although Pending is checked once, before the body.        *)
PendingStopsWriters ==
    \A e \in Execs : Is(e, "command", "body") /\ pending => Owner(e) \in Recovery

(* However often acquisitions, reclaims and releases are killed half-way,   *)
(* what they leave is evidence a later acquisition can judge: never a       *)
(* marker beside a preparation file, never either without the directory     *)
(* (preparationGuard would refuse with exit 76 for ever).                   *)
EvidenceRecoverable ==
    /\ ~UnsafeEvidence
    /\ marker # NoToken \/ prep # NoToken => dir

(* A section only runs for a token that was really granted the lease: a     *)
(* lost or late acquisition reply never lets a controller in.               *)
SectionWasGranted ==
    \A c \in Tokens :
        ctl[c] \in {"section", "stopping", "releasing"} =>
            marker = c \/ c \in retired

(* Once a controller is in its section it runs to the end of its release,   *)
(* whatever happens to its heartbeat and its commands (runMutexSection).    *)
SectionCompletes ==
    \A c \in Tokens : ctl[c] = "section" ~> ctl[c] = "gone"

(* The lease of a controller that is gone does not survive those who ask    *)
(* for it: it is reclaimed unless nobody waits any more.                    *)
AbandonedLeaseReclaimed ==
    \A c \in Tokens :
        marker = c /\ ctl[c] = "gone" ~>
            marker # c \/ \A d \in Tokens : ctl[d] \notin {"acquiring", "waiting"}

=============================================================================
