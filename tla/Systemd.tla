------------------------------ MODULE Systemd -------------------------------
(***************************************************************************)
(* service.enabled, disabled, running, stopped, reload and restart, and    *)
(* systemd.masked, unmasked and daemonReload: one probe, one command.      *)
(* systemd.unit: a unit file, what systemd has loaded of it, and the flag  *)
(* that says the second followed the first.  A fault after the write puts  *)
(* the old file back, but not over what somebody wrote since.              *)
(***************************************************************************)
EXTENDS Remote, TLC

Asked == {"enabled", "disabled", "running", "stopped", "masked", "unmasked", "reload", "restart"}
Contents == {"none", "old", "ours", "edited", "link"}

UnitFile == host.ask = "unit"

Fresh(run) == Call(run) @@ [snap |-> "none", was |-> IF UnitFile THEN host.loaded ELSE "none", why |-> "none"]

TypeOK ==
    /\ pc \in {"check", "probe", "command", "journal", "snapshot", "write", "reload", "flag", "look", "restore", "reload back", "done"}
    /\ ctl.why \in {"none", "write", "reload", "flag"} /\ ctl.result \in Results /\ faults \in 0..MaxFaults
    /\ IF UnitFile THEN {host.file, host.loaded, ctl.snap} \subseteq Contents /\ {host.flag, host.mode} \subseteq BOOLEAN
       ELSE /\ host.unit \in {"missing", "plain", "masked"} /\ {host.enabled, host.active, host.broken} \subseteq BOOLEAN
            /\ host.ask \in Asked

\* `broken`: the service does not start; a masked one cannot be enabled.
Service(ask, unit, enabled, active, broken) ==
    [ask |-> ask, unit |-> unit, enabled |-> enabled, active |-> active, broken |-> broken, fresh |-> FALSE]

File(file, mode, flag) ==
    [ask |-> "unit", file |-> file, loaded |-> file, mode |-> mode, flag |-> flag, edited |-> FALSE]

Init ==
    /\ \/ \E ask \in Asked, unit \in {"missing", "plain", "masked"}, enabled, active, broken \in BOOLEAN :
             /\ unit = "missing" => ~enabled /\ ~active
             /\ unit = "masked" => ~enabled
             /\ host = Service(ask, unit, enabled, active, broken)
       \/ \E file \in Contents \ {"edited"}, mode, flag \in BOOLEAN :
             /\ flag => file = "ours"
             /\ host = File(file, mode, flag)
    /\ faults = 0 /\ pc = "check" /\ ctl = Fresh(1)

-----------------------------------------------------------------------------
(* Services                                                                *)

Always == host.ask \in {"reload", "restart"}

InState(h) ==
    CASE h.ask = "enabled" -> h.enabled
      [] h.ask = "disabled" -> ~h.enabled
      [] h.ask = "running" -> h.active
      [] h.ask = "stopped" -> ~h.active
      [] h.ask = "masked" -> h.unit = "masked"
      [] h.ask = "unmasked" -> h.unit # "masked"
      [] OTHER -> FALSE

\* probeServiceEnabled, probeServiceActive, isUnitMasked.  A systemctl that
\* fails says so by its code; where it says 1 instead, which also means
\* disabled, the answer is taken.
Answer(ok, go, unclear) ==
    \/ host' = host /\ (IF InState(host) THEN ok ELSE go) /\ UNCHANGED faults
    \/ host' = host /\ unclear /\ Fault
    \/ host' = host /\ host.ask \in {"enabled", "running"} /\ go /\ Fault
    \/ host' = host /\ host.ask \in {"disabled", "stopped"} /\ ok /\ Fault
    \/ host' = host /\ Return("raised") /\ Fault

Check ==
    /\ pc = "check" /\ ~UnitFile
    /\ IF Always THEN Locally(Goto("command"))
       ELSE Answer(Return("checked"), Goto("probe"), Goto("probe"))

\* A missing unit is disabled and stopped enough, and no unit to enable.
Probe ==
    /\ pc = "probe"
    /\ IF host.unit = "missing" /\ host.ask \in {"enabled", "running"} THEN Ask(Return("failed"), Return("failed"))
       ELSE Answer(Return("ok"), Goto("command"), Return("failed"))

Work(h) ==
    CASE h.ask = "enabled" -> [h EXCEPT !.enabled = h.unit = "plain"]
      [] h.ask = "disabled" -> [h EXCEPT !.enabled = FALSE]
      [] h.ask = "running" -> [h EXCEPT !.active = TRUE, !.fresh = TRUE]
      [] h.ask = "stopped" -> [h EXCEPT !.active = FALSE]
      [] h.ask = "masked" -> [h EXCEPT !.unit = "masked", !.enabled = FALSE]
      [] h.ask = "unmasked" -> [h EXCEPT !.unit = "plain"]
      [] h.ask = "reload" -> [h EXCEPT !.fresh = TRUE]
      [] h.ask = "restart" -> [h EXCEPT !.active = TRUE, !.fresh = TRUE]

\* What systemctl refuses whatever the connection does.
Refuses(h) ==
    \/ h.unit # "plain" /\ h.ask \in {"enabled", "running", "reload", "restart"}
    \/ h.broken /\ h.ask \in {"running", "restart"}
    \/ h.ask = "reload" /\ ~h.active

Command ==
    /\ pc = "command"
    /\ LET bad == IF host.ask = "restart" THEN Goto("journal") ELSE Return("failed")
           down == [host EXCEPT !.active = FALSE]
       IN IF Refuses(host) THEN Exec(IF host.ask = "restart" /\ host.unit = "plain" THEN down ELSE host, bad, bad)
          ELSE Exec(Work(host), Return("changed"), bad)

\* restartSystemdUnit reads the journal for its message: nothing it meets
\* there, not even a lost connection, changes the outcome.
Journal ==
    /\ pc = "journal"
    /\ \/ Locally(Return("failed"))
       \/ host' = host /\ Return("failed") /\ Fault

-----------------------------------------------------------------------------
(* systemd.unit                                                            *)

UnitInState(h) == h.file = "ours" /\ h.mode /\ h.flag

CheckUnit ==
    /\ pc = "check" /\ UnitFile
    /\ Ask(IF UnitInState(host) THEN Return("checked") ELSE Goto("snapshot"), Goto("snapshot"))

\* snapshotUnitFile reads through a link; a file it cannot read ends the call.
Snapshot ==
    /\ pc = "snapshot"
    /\ Exec(host, ctl' = [ctl EXCEPT !.snap = host.file] /\ pc' = "write", Return("failed"))

\* writeSystemdUnitFile; writeFile takes no link, and any exception restores
\* without a look at what is there now.
Write ==
    /\ pc = "write"
    /\ LET work == [host EXCEPT !.file = "ours", !.mode = TRUE]
           bad == ctl' = [ctl EXCEPT !.why = "write"] /\ pc' = "restore"
       IN IF host.file = "link" THEN Locally(bad)
          ELSE \/ host' = work /\ Goto("reload") /\ UNCHANGED faults
               \/ host' \in {host, work} /\ bad /\ Fault

Loaded(h) == [h EXCEPT !.loaded = h.file]

\* reloadSystemdDaemon.
Reload ==
    /\ pc = "reload"
    /\ Exec(Loaded(host), Goto("flag"), ctl' = [ctl EXCEPT !.why = "reload"] /\ pc' = "look")

\* setVersionedFlag.
Flag ==
    /\ pc = "flag"
    /\ Exec([host EXCEPT !.flag = TRUE], Return("changed"), ctl' = [ctl EXCEPT !.why = "flag"] /\ pc' = "look")

\* restoreUnitFileSnapshotIfCurrentMatches: skipped where the file is not ours.
Look ==
    /\ pc = "look"
    /\ LET skip == Return("diverged")
       IN CASE host.file = "link" -> Ask(Return("failed"), Return("failed"))
            [] host.file = "ours" -> Ask(Goto("restore"), Return("failed") \/ skip)
            [] OTHER -> Ask(skip, Return("failed") \/ skip)

\* restoreUnitFileSnapshot: an exception is reported after a failed write or
\* reload and passed on after a failed flag.
Restore ==
    /\ pc = "restore"
    /\ LET work == [host EXCEPT !.file = ctl.snap]
           bad == Return(IF ctl.why = "flag" THEN "raised" ELSE "failed")
       IN IF host.file = "link" \/ ctl.snap = "link" THEN Locally(bad)
          ELSE \/ /\ host' = work /\ UNCHANGED faults
                  /\ IF ctl.why = "flag" THEN Goto("reload back") ELSE Return("restored")
               \/ host' \in {host, work} /\ bad /\ Fault

\* rollbackUnitAfterFlagPersistenceFailure.
ReloadBack ==
    /\ pc = "reload back"
    /\ Exec(Loaded(host), Return("restored"), Return("failed"))

\* Somebody edits the unit between two commands.
Edit ==
    /\ pc \in {"reload", "flag", "look"} /\ host.file = "ours" /\ Fault
    /\ host' = [host EXCEPT !.file = "edited", !.edited = TRUE]
    /\ UNCHANGED <<ctl, pc>>

Section ==
    \/ Check \/ Probe \/ Command \/ Journal
    \/ CheckUnit \/ Snapshot \/ Write \/ Reload \/ Flag \/ Look \/ Restore \/ ReloadBack
Next == Section \/ Edit \/ Again(Fresh(ctl.run + 1))
Spec == Init /\ [][Next]_vars

-----------------------------------------------------------------------------
(* Properties                                                              *)

\* Without faults an answer is the state; with them only "disabled" and
\* "stopped" are taken from a probe that may have failed.  systemd has loaded
\* the file that check() calls ok (buildSystemdUnitReloadFlag); an edit after
\* the reload leaves the old one loaded.
ReportsAreTrue ==
    IF UnitFile THEN ctl.result \in {"checked", "changed"} => host.loaded = "ours" \/ host.edited
    ELSE /\ ctl.result \in {"checked", "ok"} /\ host.ask \notin {"disabled", "stopped"} => InState(host)
         /\ ctl.result = "changed" => InState(host) \/ (Always /\ host.fresh)

\* A restart that failed is a failure, never an exception of its journal.  After
\* a rollback file and systemd are what they were, unless the reload saw an
\* edit.
FailuresAreTrue ==
    IF UnitFile THEN ctl.result = "restored" => host.file = ctl.snap /\ host.loaded \in {ctl.snap, ctl.was, "edited"}
    ELSE Always /\ ctl.result = "changed" => host.active

\* A rollback does not take an edit back (restoreUnitFileSnapshotIfCurrentMatches).
EditsSurvive == UnitFile /\ host.edited /\ ctl.run = 1 => host.file = "edited"

\* A run without faults ends with unit file, enablement and activity as
\* asked, unless systemd itself refuses (service.ts, systemd.ts).
CleanRunConverges ==
    Ended /\ Clean =>
        IF UnitFile THEN UnitInState(host) \/ host.file = "link"
        ELSE InState(host) \/ Always \/ (ctl.result = "failed" /\ Refuses(host))
=============================================================================
