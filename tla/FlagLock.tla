------------------------------- MODULE FlagLock -------------------------------
(***************************************************************************)
(* The flag lock of packages/paratix/src/modules: the mkdir lock with its  *)
(* holder marker (flagLock.ts, flagLockScripts.ts), the wait in rounds     *)
(* (flagLockWait.ts), the mutex section with its heartbeat (mutexLock.ts)  *)
(* and applyWithFlagLock (moduleHelpers.ts).                               *)
(*                                                                         *)
(* Nothing on the target makes a remote script atomic: this lock takes no  *)
(* kernel lock.  at[a] is the next step of the script that call a runs, or *)
(* waits for; while a's controller lives the script's outcome decides the  *)
(* next one, afterwards the script runs to its own end or is killed.       *)
(***************************************************************************)
EXTENDS Naturals

CONSTANTS
    Calls,        \* calls of withMutexLock and applyWithFlagLock; also tokens
    Mixes,        \* which of them may be calls of applyWithFlagLock
    ReclaimAge,   \* effective stale threshold (flagLockAgeThreshold)
    GuardAge,     \* effective age the refresh guard still accepts
    MaxRounds,    \* the wait budget, in rounds
    MaxFaults,    \* bound: crashes, lost replies and failing commands
    None

\* validateMutexLockTiming; the first round always runs.
ASSUME FlagLockAssumption ==
    /\ Mixes \subseteq SUBSET Calls
    /\ None \notin Calls \cup Nat \cup [token : Calls \cup {None}, age : Nat]
    /\ ReclaimAge \in Nat /\ GuardAge \in 0 .. ReclaimAge
    /\ MaxRounds \in Nat \ {0} /\ MaxFaults \in Nat

VARIABLES
    flagCalls,    \* the calls of applyWithFlagLock: historic marker, no
                  \* heartbeat; chosen once
    dirAge,       \* age of the lock directory; None: there is none
    marker,       \* its holder file [token, age], or None; an empty file has
                  \* the token None
    flag,         \* the flag file
    at,           \* next step of a call's script
    live,         \* the call's controller still waits for it
    tok,          \* STALE_TOKEN of a reclaim, then the acquired holder token
    beat,         \* next step of the heartbeat's refresh script
    lost,         \* the handle's latch
    rounds,       \* rounds charged to the wait budget
    claimed,      \* the initial reclaim was used
    late,         \* calls whose script was running at the last Tick
    since,        \* time since the call last renewed the lock it created; None
                  \* while it has none
    applied,      \* how many calls completed their apply
    faults

lockVars == <<dirAge, marker>>
waitVars == <<rounds, claimed, late>>
beatVars == <<beat, lost>>
vars == <<flagCalls, dirAge, marker, flag, at, live, tok, beat, lost, rounds, claimed, late, since, applied, faults>>

-----------------------------------------------------------------------------
Ages == 0 .. ReclaimAge + 1     \* the oldest stands for every older one
Stale(age) == age > ReclaimAge
First(a) == IF a \in flagCalls THEN "start" ELSE "mkdir"
InSection(a) == at[a] \in {"recheck", "work"}

Goto(a, step) == at' = [at EXCEPT ![a] = step]
\* The script is over: its controller, if it lives, goes on.
Then(a, next) == Goto(a, IF live[a] THEN next ELSE "end")
Fault == faults < MaxFaults /\ faults' = faults + 1

\* Between two renewals the call let more time pass than the stale threshold.
\* A renewal, and the end of the lock, leave an overrun on record.
Overran(a) == since[a] # None /\ Stale(since[a])
Renews(a) == since' = [since EXCEPT ![a] = IF @ = None \/ Overran(a) THEN @ ELSE 0]
Leaves(a) == since' = [since EXCEPT ![a] = IF Overran(a) THEN @ ELSE None]

\* rm -f: unlinking an entry renews the directory's mtime.
UnlinkMarker ==
    /\ marker' = None
    /\ dirAge' = IF marker # None THEN 0 ELSE dirAge

\* rmdir: fails on a missing or a non-empty directory.
RmdirWorks == dirAge # None /\ marker = None

\* awk 'NR==1{print $1}': nothing for an empty or a missing marker.
FirstField == IF marker = None THEN None ELSE marker.token

-----------------------------------------------------------------------------
(* acquireFlagLock and writeFlagLockHolderMarker.                          *)

\* tryApplyWithFlagLock's shouldRunFlagApply.
CheckFlag(a) ==
    /\ at[a] = "start"
    /\ Then(a, IF flag THEN "end" ELSE "mkdir")
    /\ UNCHANGED <<flagCalls, lockVars, flag, live, tok, beatVars, waitVars, since, applied, faults>>

\* Mutant: mkdir -p.
MakeDirectory_Parents(a) ==
    /\ at[a] = "mkdir"
    /\ dirAge' = IF dirAge = None THEN 0 ELSE dirAge
    /\ since' = [since EXCEPT ![a] = 0]
    /\ Then(a, "write")
    /\ UNCHANGED <<flagCalls, marker, flag, live, tok, beatVars, waitVars, applied, faults>>

MakeDirectory(a) ==
    /\ at[a] = "mkdir"
    /\ IF dirAge = None
       THEN dirAge' = 0 /\ since' = [since EXCEPT ![a] = 0] /\ Then(a, "write")
       ELSE UNCHANGED <<dirAge, since>> /\ Then(a, "contended")
    /\ UNCHANGED <<flagCalls, marker, flag, live, tok, beatVars, waitVars, applied, faults>>

\* The redirection > marker creates the file, or empties whatever marker there
\* is, before printf writes its line.
Redirect(token) ==
    /\ dirAge # None
    /\ marker' = [token |-> token, age |-> 0]
    /\ dirAge' = IF marker = None THEN 0 ELSE dirAge

\* printf > marker fails without a directory, before the file is opened
\* (EROFS), or after it (ENOSPC): then an empty marker stays.
WriteMarker(a) ==
    /\ at[a] = "write"
    /\ \/ Redirect(a) /\ Renews(a) /\ Then(a, "readback") /\ UNCHANGED faults
       \/ dirAge = None /\ Then(a, "drop-dir") /\ UNCHANGED <<lockVars, since, faults>>
       \/ /\ dirAge # None /\ Fault
          /\ Redirect(None) \/ UNCHANGED lockVars
          /\ Then(a, "drop-dir")
          /\ UNCHANGED since
    /\ UNCHANGED <<flagCalls, flag, live, tok, beatVars, waitVars, applied>>

\* verifySuppliedHolderToken; the historic marker accepts any token.
Accepted(a) == FirstField # None /\ (a \in flagCalls \/ FirstField = a)

ReadBack(a) ==
    /\ at[a] = "readback"
    /\ \/ /\ Accepted(a)
          /\ tok' = [tok EXCEPT ![a] = FirstField]
          /\ Then(a, IF a \in flagCalls THEN "recheck" ELSE "work")
          /\ UNCHANGED faults
       \/ /\ FirstField # None /\ ~Accepted(a)
          /\ Then(a, "end")
          /\ UNCHANGED <<tok, faults>>
       \/ /\ IF FirstField = None THEN UNCHANGED faults ELSE Fault
          /\ Then(a, "drop-marker")
          /\ UNCHANGED tok
    /\ UNCHANGED <<flagCalls, lockVars, flag, live, beatVars, waitVars, since, applied>>

\* R-0000670: after a failed readback the marker goes, then the directory.
DropMarker(a) ==
    /\ at[a] = "drop-marker"
    /\ UnlinkMarker
    /\ Then(a, "drop-dir")
    /\ UNCHANGED <<flagCalls, flag, live, tok, beatVars, waitVars, since, applied, faults>>

\* Mutant: the directory of a failed acquisition stays.
DropDirectory_Keeps(a) ==
    /\ at[a] = "drop-dir"
    /\ Goto(a, "end")
    /\ UNCHANGED <<flagCalls, lockVars, flag, live, tok, beatVars, waitVars, since, applied, faults>>

\* After a failed write only this: rmdir does not remove an empty marker.
DropDirectory(a) ==
    /\ at[a] = "drop-dir"
    /\ dirAge' = IF RmdirWorks THEN None ELSE dirAge
    /\ IF marker = None THEN Leaves(a) ELSE UNCHANGED since
    /\ Goto(a, "end")
    /\ UNCHANGED <<flagCalls, marker, flag, live, tok, beatVars, waitVars, applied, faults>>

-----------------------------------------------------------------------------
(* waitForMutexLockRound and waitForFlagLockResolution.                    *)

\* An exhausted budget ends the call; the first contention tries a reclaim.
Contended(a) ==
    /\ at[a] = "contended"
    /\ Goto(a, IF rounds[a] >= MaxRounds THEN "end" ELSE IF claimed[a] THEN "poll" ELSE "look")
    /\ claimed' = [claimed EXCEPT ![a] = TRUE]
    /\ UNCHANGED <<flagCalls, lockVars, flag, live, tok, beatVars, rounds, late, since, applied, faults>>

\* Mutant: a round is not charged to the budget.
Poll_Uncharged(a) ==
    /\ at[a] = "poll"
    /\ Then(a, IF dirAge = None THEN First(a) ELSE "look")
    /\ UNCHANGED <<flagCalls, lockVars, flag, live, tok, beatVars, waitVars, since, applied, faults>>

Poll(a) ==
    /\ at[a] = "poll"
    /\ LET released == dirAge = None \/ (a \in flagCalls /\ flag) IN
       Then(a, IF released THEN First(a) ELSE "look")
    /\ rounds' = [rounds EXCEPT ![a] = @ + 1]
    /\ UNCHANGED <<flagCalls, lockVars, flag, live, tok, beatVars, claimed, late, since, applied, faults>>

-----------------------------------------------------------------------------
(* buildStaleFlagLockReclaimCommand, step by step.                         *)

\* [ -d lock ], [ -f marker ] and the first awk: the awk decides.
ReclaimLook(a) ==
    /\ at[a] = "look"
    /\ \/ dirAge = None /\ Then(a, "contended") /\ UNCHANGED tok
       \/ /\ dirAge # None /\ marker # None
          /\ tok' = [tok EXCEPT ![a] = FirstField]
          /\ Goto(a, "age")
       \/ dirAge # None /\ marker = None /\ Goto(a, "dir-age") /\ UNCHANGED tok
    /\ late' = late \ {a}
    /\ UNCHANGED <<flagCalls, lockVars, flag, live, beatVars, rounds, claimed, since, applied, faults>>

\* find -mmin finds the marker, or the directory, old enough.
ReclaimAges(a) ==
    IF at[a] = "age" THEN marker # None /\ Stale(marker.age)
    ELSE dirAge # None /\ Stale(dirAge)

ReclaimAgeProbe(a) ==
    /\ at[a] \in {"age", "dir-age", "dir-again"}
    /\ IF ReclaimAges(a)
       THEN Goto(a, IF at[a] = "age" THEN "again" ELSE IF at[a] = "dir-age" THEN "dir-again" ELSE "rm")
       ELSE Then(a, "contended")
    /\ UNCHANGED <<flagCalls, lockVars, flag, live, tok, beatVars, waitVars, since, applied, faults>>

\* The second awk: is it still the token that was found stale?  Two empty
\* outputs are equal.
ReclaimCompare(a) ==
    /\ at[a] = "again"
    /\ IF FirstField = tok[a] THEN Goto(a, "rm") ELSE Then(a, "contended")
    /\ UNCHANGED <<flagCalls, lockVars, flag, live, tok, beatVars, waitVars, since, applied, faults>>

ReclaimMarker(a) ==
    /\ at[a] = "rm"
    /\ UnlinkMarker
    /\ Goto(a, "rmdir")
    /\ UNCHANGED <<flagCalls, flag, live, tok, beatVars, waitVars, since, applied, faults>>

ReclaimDirectory(a) ==
    /\ at[a] = "rmdir"
    /\ dirAge' = IF RmdirWorks THEN None ELSE dirAge
    /\ Then(a, IF RmdirWorks THEN First(a) ELSE "contended")
    /\ UNCHANGED <<flagCalls, marker, flag, live, tok, beatVars, waitVars, since, applied, faults>>

-----------------------------------------------------------------------------
(* The section: runMutexSection and runLockedFlagApply.                    *)

Recheck(a) ==
    /\ at[a] = "recheck"
    /\ Goto(a, IF flag THEN "release" ELSE "work")
    /\ UNCHANGED <<flagCalls, lockVars, flag, live, tok, beatVars, waitVars, since, applied, faults>>

\* A successful apply leaves the flag (setFlag, setVersionedFlag).
Work(a) ==
    /\ at[a] = "work"
    /\ \/ a \in flagCalls /\ flag' = TRUE /\ applied' = applied + 1
       \/ UNCHANGED <<flag, applied>>
    /\ Goto(a, "stop")
    /\ UNCHANGED <<flagCalls, lockVars, live, tok, beatVars, waitVars, since, faults>>

\* heartbeat.stop awaits a refresh in flight before the release.
StopHeartbeat(a) ==
    /\ at[a] = "stop"
    /\ beat[a] = "none" \/ lost[a]
    /\ Goto(a, "release")
    /\ UNCHANGED <<flagCalls, lockVars, flag, live, tok, beatVars, waitVars, since, applied, faults>>

ReleaseCompare(a) ==
    /\ at[a] = "release"
    /\ Goto(a, IF tok[a] # None /\ FirstField = tok[a] THEN "release-rm" ELSE "end")
    /\ late' = late \ {a}
    /\ UNCHANGED <<flagCalls, lockVars, flag, live, tok, beatVars, rounds, claimed, since, applied, faults>>

ReleaseMarker(a) ==
    /\ at[a] = "release-rm"
    /\ UnlinkMarker
    /\ Goto(a, "release-rmdir")
    /\ UNCHANGED <<flagCalls, flag, live, tok, beatVars, waitVars, since, applied, faults>>

ReleaseDirectory(a) ==
    /\ at[a] = "release-rmdir"
    /\ dirAge' = IF RmdirWorks THEN None ELSE dirAge
    /\ IF marker = None THEN Leaves(a) ELSE UNCHANGED since
    /\ Goto(a, "end")
    /\ UNCHANGED <<flagCalls, marker, flag, live, tok, beatVars, waitVars, applied, faults>>

-----------------------------------------------------------------------------
(* startMutexLockHeartbeat and buildFlagLockRefreshGuard, step by step.    *)

Beat(a, step) == beat' = [beat EXCEPT ![a] = step]

HeartbeatStarts(a) ==
    /\ at[a] = "work" /\ live[a] /\ a \notin flagCalls
    /\ beat[a] = "none" /\ ~lost[a]
    /\ Beat(a, "token")
    /\ UNCHANGED <<flagCalls, lockVars, flag, at, live, tok, lost, waitVars, since, applied, faults>>

\* Mutant: the guard refreshes a marker of any age.
GuardAccepts_AnyAge(a) ==
    marker # None /\ (beat[a] = "token" => FirstField = tok[a])

\* The token comparison, then the age comparison, of the guard.
GuardAccepts(a) ==
    /\ marker # None
    /\ beat[a] = "token" => FirstField = tok[a]
    /\ beat[a] = "age" => marker.age <= GuardAge

HeartbeatProbes(a) ==
    /\ beat[a] \in {"token", "age"}
    /\ IF GuardAccepts(a)
       THEN Beat(a, IF beat[a] = "token" THEN "age" ELSE "touch") /\ UNCHANGED lost
       ELSE Beat(a, "none") /\ lost' = [lost EXCEPT ![a] = TRUE]
    /\ UNCHANGED <<flagCalls, lockVars, flag, at, live, tok, waitVars, since, applied, faults>>

\* touch -c also succeeds when there is no marker any more.
HeartbeatTouches(a) ==
    /\ beat[a] \in {"touch", "late"}
    /\ marker' = IF marker # None THEN [marker EXCEPT !.age = 0] ELSE None
    /\ IF marker # None /\ FirstField = tok[a] THEN Renews(a) ELSE UNCHANGED since
    /\ Beat(a, "none")
    /\ UNCHANGED <<flagCalls, dirAge, flag, at, live, tok, lost, waitVars, applied, faults>>

\* The refresh exec throws; its remote script may live on.
HeartbeatThrows(a) ==
    /\ beat[a] # "none" /\ live[a] /\ ~lost[a]
    /\ Fault
    /\ lost' = [lost EXCEPT ![a] = TRUE]
    /\ UNCHANGED <<flagCalls, lockVars, flag, at, live, tok, beat, waitVars, since, applied>>

-----------------------------------------------------------------------------
(* The environment.                                                        *)

\* The controller dies, or the exec of its current script throws.
Crash(a) ==
    /\ live[a] /\ at[a] # "end"
    /\ Fault
    /\ live' = [live EXCEPT ![a] = FALSE]
    /\ IF at[a] \in {"contended", "recheck", "work", "stop"} THEN Goto(a, "end") ELSE UNCHANGED at
    /\ UNCHANGED <<flagCalls, lockVars, flag, tok, beatVars, waitVars, since, applied>>

\* The remote script of a vanished controller is killed.
Kill(a) ==
    /\ ~live[a]
    /\ \/ at[a] # "end" /\ Goto(a, "end") /\ UNCHANGED beat
       \/ beat[a] # "none" /\ Beat(a, "none") /\ UNCHANGED at
    /\ UNCHANGED <<flagCalls, lockVars, flag, live, tok, lost, waitVars, since, applied, faults>>

\* Time passes.  A script is a handful of processes: it runs, from its first
\* look to its last step, within one unit of time, so over at most one Tick.
Scripts == {"age", "again", "dir-age", "dir-again", "rm", "rmdir", "release-rm", "release-rmdir"}
Older(age) == IF Stale(age) THEN age ELSE age + 1
Tick ==
    /\ \A a \in Calls : beat[a] # "late" /\ (a \in late => at[a] \notin Scripts)
    /\ beat' = [a \in Calls |-> IF beat[a] \in {"touch"} THEN "late" ELSE beat[a]]
    /\ late' = {a \in Calls : at[a] \in Scripts}
    /\ dirAge' = IF dirAge = None THEN None ELSE Older(dirAge)
    /\ marker' = IF marker = None THEN None ELSE [marker EXCEPT !.age = Older(@)]
    /\ since' = [a \in Calls |-> IF since[a] = None THEN None ELSE Older(since[a])]
    /\ UNCHANGED <<flagCalls, flag, at, live, tok, lost, rounds, claimed, applied, faults>>

-----------------------------------------------------------------------------

Init ==
    /\ flagCalls \in Mixes
    /\ dirAge = None /\ marker = None /\ flag = FALSE
    /\ at = [a \in Calls |-> First(a)]
    /\ live = [a \in Calls |-> TRUE]
    /\ tok = [a \in Calls |-> None]
    /\ beat = [a \in Calls |-> "none"]
    /\ lost = [a \in Calls |-> FALSE]
    /\ rounds = [a \in Calls |-> 0]
    /\ claimed = [a \in Calls |-> FALSE]
    /\ late = {}
    /\ since = [a \in Calls |-> None]
    /\ applied = 0
    /\ faults = 0

Acquires(a) ==
    \/ CheckFlag(a) \/ MakeDirectory(a) \/ WriteMarker(a) \/ ReadBack(a)
    \/ DropMarker(a) \/ DropDirectory(a) \/ Contended(a) \/ Poll(a)

Reclaims(a) ==
    \/ ReclaimLook(a) \/ ReclaimAgeProbe(a) \/ ReclaimCompare(a)
    \/ ReclaimMarker(a) \/ ReclaimDirectory(a)

Finishes(a) ==
    \/ Recheck(a) \/ Work(a) \/ StopHeartbeat(a)
    \/ ReleaseCompare(a) \/ ReleaseMarker(a) \/ ReleaseDirectory(a)

Refreshes(a) == HeartbeatProbes(a) \/ HeartbeatTouches(a)

Next ==
    \/ \E a \in Calls :
          \/ Acquires(a) \/ Reclaims(a) \/ Finishes(a)
          \/ HeartbeatStarts(a) \/ Refreshes(a) \/ HeartbeatThrows(a)
          \/ Crash(a) \/ Kill(a)
    \/ Tick

Spec == Init /\ [][Next]_vars

\* Scripts run and controllers react; time need not pass for the budget.
FairSpec ==
    Spec /\ \A a \in Calls : WF_vars(Acquires(a) \/ Reclaims(a) \/ Finishes(a)) /\ WF_vars(Refreshes(a))

-----------------------------------------------------------------------------
(* Properties.                                                             *)

(* The type of the state. *)
TypeOK ==
    /\ dirAge \in Ages \cup {None}
    /\ marker \in [token : Calls \cup {None}, age : Ages] \cup {None}
    /\ marker # None => dirAge # None
    /\ tok \in [Calls -> Calls \cup {None}]
    /\ rounds \in [Calls -> 0 .. MaxRounds]
    /\ since \in [Calls -> Ages \cup {None}]
    /\ applied \in Nat /\ faults \in 0 .. MaxFaults

(* Two sections run at a time only after a call outlived the stale          *)
(* threshold without renewing its lock (withMutexLock).                     *)
MutualExclusion ==
    \A a, b \in Calls :
        a # b /\ InSection(a) /\ InSection(b) => \E c \in Calls : Overran(c)

(* The apply behind a flag completes once, unless a section overran         *)
(* (tryApplyWithFlagLock checks the flag before and under the lock).        *)
AppliedOnce == applied > 1 => \E a \in Calls : Overran(a)

(* One holder at a time, and one apply per flag.                            *)
OneHolder == TypeOK /\ MutualExclusion /\ AppliedOnce

(* Calls that were not cut off leave no lock behind, whichever readback    *)
(* failed and however long they took, with one exception: the empty marker *)
(* of a write that failed after its redirection, which the rmdir that      *)
(* follows does not remove (writeFlagLockHolderMarker; R-0000670 promises  *)
(* more).                                                                  *)
NoLockLeft ==
    (\A a \in Calls : at[a] = "end" /\ live[a]) =>
        \/ dirAge = None
        \/ marker # None /\ marker.token = None /\ faults > 0

(* A reclaim removes the marker it found stale, never one that a call       *)
(* acting in time wrote since (tryReclaimStaleFlagLock).                    *)
ReclaimSparesNewHolder ==
    [][\A a \in Calls : at[a] = "rm" /\ at'[a] = "rmdir" /\ FirstField # None =>
          FirstField = tok[a] \/ Overran(FirstField)]_vars

(* A marker the guard has refreshed is younger than the reclaim threshold   *)
(* and is not reclaimed (buildFlagLockRefreshGuard).                        *)
RefreshedIsNotReclaimed ==
    [][\A a \in Calls :
          /\ at[a] = "rm" /\ at'[a] = "rmdir"
          /\ FirstField # None /\ FirstField = tok[a]
          => Stale(marker.age)]_vars

(* Every call comes to an end, also when nobody releases the lock: the wait *)
(* budget is charged in every round (createFlagLockWaitBudget).             *)
CallsEnd == <>(\A a \in Calls : live[a] => at[a] = "end")

=============================================================================
