----------------------------- MODULE TimerUnit ------------------------------
(***************************************************************************)
(* timer.scheduled and timer.absent: a service and a timer below           *)
(* /etc/systemd/system, what systemd has loaded of them, and whether the   *)
(* timer is enabled and counts.                                            *)
(***************************************************************************)
EXTENDS Remote, TLC

Units == {"service", "timer"}
Contents == {"none", "old", "ours", "link"}

Activation(h) == [enabled |-> h.enabled, active |-> h.active]

Fresh(run) == Call(run) @@ [need |-> {}, snaps |-> {}, orig |-> host, all |-> TRUE, undo |-> "none"]

TypeOK ==
    /\ pc \in {"check", "match", "snapshot", "write", "reload", "probe", "enable", "reload stale", "restart", "exists",
               "activation", "disable", "residual", "remove", "restore", "reload back", "activate back", "done"}
    /\ {host.file, host.loaded} \subseteq [Units -> Contents] /\ {host.enabled, host.active} \subseteq BOOLEAN
    /\ host.counts \in Contents /\ ctl.need \subseteq Units /\ ctl.snaps \subseteq Units /\ ctl.result \in Results
    /\ ctl.undo \in {"none", "write", "reload", "removal", "activation"} /\ faults \in 0..MaxFaults

Init ==
    /\ \E wanted \in {"present", "absent"}, service \in {"none", "old", "ours"}, timer \in Contents, enabled, active \in BOOLEAN :
          /\ timer = "none" => ~enabled
          /\ LET file == [u \in Units |-> IF u = "timer" THEN timer ELSE service]
             IN host = [wanted |-> wanted, file |-> file, loaded |-> file, enabled |-> enabled, active |-> active,
                        counts |-> IF active THEN timer ELSE "none"]
    /\ faults = 0 /\ pc = "check" /\ ctl = Fresh(1)

\* fileMatches: a regular file with our content and mode.
Matches(h) == {u \in Units : h.file[u] = "ours"}

InState(h) ==
    IF h.wanted = "present" THEN Matches(h) = Units /\ h.enabled /\ h.active
    ELSE (\A u \in Units : h.file[u] = "none") /\ ~h.enabled /\ ~h.active

\* checkPresent and checkAbsent: a failing probe is never taken for the state.
Check ==
    /\ pc = "check"
    /\ LET apply == Goto(IF host.wanted = "present" THEN "match" ELSE "exists")
       IN Ask(IF InState(host) THEN Return("checked") ELSE apply, apply)

\* The rollback that follows: of the files, of systemd's view, of the timer.
Undo(what) == ctl' = [ctl EXCEPT !.undo = what] /\ pc' = IF what = "activation" THEN "activate back" ELSE "restore"

Loaded(h) == [h EXCEPT !.loaded = h.file]

\* `enable` and `start` take the unit systemd has loaded; a timer that runs
\* goes on counting by its old calendar.
Started(h) == [h EXCEPT !.active = TRUE, !.counts = IF h.active THEN @ ELSE h.loaded["timer"]]
EnabledNow(h) == Started([h EXCEPT !.enabled = TRUE])

-----------------------------------------------------------------------------
(* applyPresent                                                            *)

\* A file that cannot be read or stated does not match.
Match ==
    /\ pc = "match"
    /\ \E blind \in SUBSET Matches(host) :
          /\ IF blind = {} THEN UNCHANGED faults ELSE Fault
          /\ ctl' = [ctl EXCEPT !.need = (Units \ Matches(host)) \cup blind]
          /\ pc' = "snapshot" /\ UNCHANGED host

\* readFileSnapshot of what will be written; describeSnapshotPairFailure.
Snapshot ==
    /\ pc = "snapshot"
    /\ LET kept == ctl' = [ctl EXCEPT !.snaps = @ \cup ctl.need, !.orig = host]
       IN IF ctl.need = {} THEN Locally(kept /\ pc' = "probe")
          ELSE Exec(host, kept /\ pc' = "write", Return("failed"))

\* writeTimerUnitFiles: any exception rolls back; writeFile takes no link.
Write ==
    /\ pc = "write"
    /\ LET u == IF "service" \in ctl.need THEN "service" ELSE "timer"
           work == [host EXCEPT !.file[u] = "ours"]
           next == IF ctl.need = {u} THEN pc' = "reload" ELSE pc' = "write"
       IN IF host.file[u] = "link" THEN Locally(Undo("write"))
          ELSE \/ host' = work /\ ctl' = [ctl EXCEPT !.need = @ \ {u}] /\ next /\ UNCHANGED faults
               \/ host' \in {host, work} /\ Undo("write") /\ Fault

\* reloadDaemonAfterTimerSync, and the reload after a removal.
Reload ==
    /\ pc = "reload"
    /\ Exec(Loaded(host), IF host.wanted = "present" THEN Goto("enable") ELSE Return("changed"), Undo("reload"))

\* Both matched: probeFullyActiveForPresent.
Probe ==
    /\ pc = "probe"
    /\ LET counted == host.enabled /\ host.active
       IN Ask(IF counted THEN Return("ok") ELSE Goto("enable"), Goto("enable") \/ Return("failed"))

Enable ==
    /\ pc = "enable"
    /\ Exec(EnabledNow(host),
            CASE ctl.snaps = {} -> Goto("reload stale") [] "timer" \in ctl.snaps -> Goto("restart") [] OTHER -> Return("changed"),
            Return("failed"))

\* restartTimerIfNeeded: for a changed timer, and where nothing was written.
ReloadStale ==
    /\ pc = "reload stale"
    /\ Exec(Loaded(host), Goto("restart"), Return("failed"))

\* restartSystemdUnit; the journal it reads for a failure changes nothing.
Restart ==
    /\ pc = "restart"
    /\ LET work == [host EXCEPT !.active = TRUE, !.counts = host.loaded["timer"]]
       IN Exec(work, Return("changed"), Return("failed"))

-----------------------------------------------------------------------------
(* applyAbsent                                                             *)

\* The files, then readTimerActivationSnapshot.
Exists ==
    /\ pc = "exists"
    /\ Ask(Goto("activation"), Return("failed"))

TakeActivation ==
    /\ pc = "activation"
    /\ LET kept == ctl' = [ctl EXCEPT !.orig = host, !.snaps = {u \in Units : host.file[u] # "none"}] /\ pc' = "disable"
       IN Ask(IF InState(host) THEN Return("ok") ELSE kept, Return("failed"))

\* disableTimerForAbsent: without a unit file systemctl says there is none.
Disable ==
    /\ pc = "disable"
    /\ LET work == [host EXCEPT !.enabled = FALSE, !.active = FALSE, !.counts = "none"]
       IN IF host.loaded["timer"] = "none" THEN Ask(Goto("residual"), Goto("residual"))
          ELSE \/ Exec(work, Goto("remove"), Undo("activation"))
               \/ host' = [host EXCEPT !.enabled = FALSE] /\ Undo("activation") /\ Fault

Residual ==
    /\ pc = "residual"
    /\ Ask(IF host.enabled \/ host.active THEN Return("failed") ELSE Goto("remove"), Return("failed"))

\* removeAbsentUnitFiles: first the snapshots (handleAbsentSnapshotFailure),
\* then both files in one command.
Remove ==
    /\ pc = "remove"
    /\ LET gone(us) == [host EXCEPT !.file = [u \in Units |-> IF u \in us THEN "none" ELSE host.file[u]]]
       IN \/ Exec(gone(Units), Goto("reload"), Undo("removal"))
          \/ host' = gone({"timer"}) /\ Undo("removal") /\ Fault
          \/ host' = host /\ ctl.snaps # {} /\ Undo("activation") /\ Fault

-----------------------------------------------------------------------------
(* Rollback                                                                *)

\* restoreUnitFileSnapshots: first the service; the first failure ends it.
Restore ==
    /\ pc = "restore"
    /\ LET left == {u \in ctl.snaps : host.file[u] # ctl.orig.file[u]}
           u == IF "service" \in left THEN "service" ELSE "timer"
           work == [host EXCEPT !.file[u] = IF ctl.orig.file[u] = "link" THEN "old" ELSE ctl.orig.file[u]]
           next == CASE ctl.undo = "write" -> Return("restored")
                     [] ctl.undo = "reload" /\ host.wanted = "present" -> Return("restored")
                     [] OTHER -> Goto("reload back")
           bad == IF host.wanted = "present" THEN Return("failed")
                  ELSE ctl' = [ctl EXCEPT !.undo = "activation", !.all = FALSE] /\ pc' = "activate back"
       IN IF \E v \in ctl.snaps : host.file[v] = "link" THEN Locally(bad)
          ELSE IF left = {} THEN Locally(next)
          ELSE IF work.file[u] = host.file[u] THEN Locally(next)
          ELSE \/ host' = work /\ UNCHANGED <<ctl, pc, faults>>
               \/ host' \in {host, work} /\ bad /\ Fault

\* The absent path reloads the restored files; present leaves that out.
ReloadBack ==
    /\ pc = "reload back"
    /\ LET bad == ctl' = [ctl EXCEPT !.undo = "activation", !.all = FALSE] /\ pc' = "activate back"
       IN Exec(Loaded(host), ctl' = [ctl EXCEPT !.undo = "activation"] /\ pc' = "activate back", bad)

\* restoreTimerActivationForAbsent, by the helper and once more by
\* handleAbsentRemoveFailure.
ActivateBack ==
    /\ pc = "activate back"
    /\ LET want == ctl.orig
           work == CASE want.enabled /\ want.active -> EnabledNow(host)
                     [] want.enabled -> [host EXCEPT !.enabled = TRUE]
                     [] want.active -> Started(host)
                     [] OTHER -> host
           ok == IF ctl.all THEN Return("restored") ELSE Return("failed")
       IN IF ~want.enabled /\ ~want.active THEN Locally(ok)
          ELSE IF host.loaded["timer"] = "none" THEN Ask(Return("failed"), Return("failed"))
          ELSE Exec(work, ok, Return("failed"))

Section ==
    \/ Check \/ Match \/ Snapshot \/ Write \/ Reload \/ Probe \/ Enable \/ ReloadStale \/ Restart
    \/ Exists \/ TakeActivation \/ Disable \/ Residual \/ Remove \/ Restore \/ ReloadBack \/ ActivateBack
Next == Section \/ Again(Fresh(ctl.run + 1))
Spec == Init /\ [][Next]_vars

-----------------------------------------------------------------------------
(* Properties                                                              *)

\* What this call wrote is what systemd loaded and what the timer counts by;
\* what it found in place it takes on trust (restartTimerIfNeeded).
ReportsAreTrue ==
    ctl.result = "changed" =>
        /\ InState(host) /\ host.loaded = host.file
        /\ host.wanted = "present" => host.counts = "ours" \/ ctl.snaps = {"service"}

\* "Restored" is files, systemd's view, enablement and activity
\* (restoreUnitFileSnapshotsAfterReloadFailure, restoreTimerActivationForAbsent).
FailuresAreTrue ==
    ctl.result = "restored" =>
        /\ \A u \in Units : host.file[u] = IF ctl.orig.file[u] = "link" /\ host.file[u] = "old" THEN "old" ELSE ctl.orig.file[u]
        /\ Activation(host) = Activation(ctl.orig)

\* A run without faults ends with the timer as asked, unless its file is a
\* link or systemd has it loaded without a file (timer.ts).
CleanRunConverges == Ended /\ Clean => InState(host) \/ host.file["timer"] = "link" \/ host.loaded["timer"] = "none"

\* A schedule that changed is picked up (timer.scheduled).
ScheduleIsPickedUp ==
    Ended /\ Clean /\ host.wanted = "present" /\ ctl.result \in {"checked", "ok", "changed"} => host.counts = "ours"
=============================================================================
