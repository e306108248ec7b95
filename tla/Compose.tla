------------------------------ MODULE Compose ------------------------------
(***************************************************************************)
(* The compose modules.  compose.systemd: a unit file for a stack, with    *)
(* its mode and owner, the mask (a link to /dev/null at the same path) and *)
(* what systemd has loaded; a failing step restores the file, the mask and *)
(* the loaded unit.  compose.config (a compose file that is written        *)
(* beside, validated and renamed), compose.up, compose.down, compose.pull  *)
(* and compose.restart: a project of two services as the runtime's compose *)
(* command shows it.                                                       *)
(***************************************************************************)
EXTENDS Remote, TLC

\* Of a unit "mask" is the link systemctl mask makes, "link" any other one,
\* "bad" a file that was written and reads back empty or different.
Files == {"none", "ours", "old", "bad", "link", "mask"}
Regular(file) == file \in {"ours", "old", "bad"}
Meta == {"root 0644", "other"}

Services == {"a", "b"}
States == {"none", "running", "exited"}
Images == 0..1  \* the image here and the one of the registry, by version

Is(kind) == host.kind = kind

Fresh(run) == Call(run) @@ [orig |-> host, refused |-> FALSE, shell |-> FALSE, before |-> 0]

TypeOK ==
    /\ pc \in {"check", "snapshot", "prepare", "write", "verify", "temp", "rewrite", "drop temp",
               "own", "reload", "undo file", "undo owner", "undo mask", "undo load",
               "volumes", "runtime", "links", "stage", "fill", "validate", "activate", "drop",
               "up", "down", "images", "before", "pull", "after", "pull blind", "restart", "done"}
    /\ host.file \in Files
    /\ Is("unit") => host.meta \in Meta /\ host.loaded \in Files /\ host.temp \in BOOLEAN
    /\ ~Is("unit") => host.state \in [Services -> States] /\ {host.here, host.there} \subseteq Images
    /\ ctl.result \in Results /\ ctl.before \in Images \union {2} /\ faults \in 0..MaxFaults

UnitInit ==
    /\ \E file \in Files \ {"bad"}, meta \in Meta :
          host = [kind |-> "unit", file |-> file, meta |-> meta, loaded |-> file, temp |-> FALSE]
    /\ faults = 0 /\ pc = "check" /\ ctl = Fresh(1)

\* `all`: ps also lists containers that stopped, as podman's does; `volumes`:
\* those of the project, which down removes if `prune` was asked for.
Base == [runtime |-> TRUE, project |-> TRUE, dirLink |-> FALSE, file |-> "none", mode |-> "0600", valid |-> TRUE,
         temp |-> "none", all |-> FALSE, state |-> [s \in Services |-> "none"], volumes |-> FALSE, prune |-> FALSE,
         here |-> 0, there |-> 0]

ProjectInit ==
    /\ \/ \E file \in {"none", "ours", "old", "link"}, mode \in {"0600", "other"}, valid, link \in BOOLEAN :
             host = [kind |-> "config", file |-> file, mode |-> mode, valid |-> valid, dirLink |-> link] @@ Base
       \/ \E kind \in {"up", "down", "restart"}, state \in [Services -> States], all, volumes, prune \in BOOLEAN,
             found \in {{"runtime", "project"}, {"runtime"}, {"project"}} :
             /\ volumes \/ prune => kind = "down"
             /\ host = [kind |-> kind, state |-> state, all |-> all, volumes |-> volumes, prune |-> prune,
                        project |-> "project" \in found, runtime |-> "runtime" \in found] @@ Base
       \/ \E here, there \in Images : host = [kind |-> "pull", here |-> here, there |-> there] @@ Base
    /\ faults = 0 /\ pc = "check" /\ ctl = Fresh(1)

Init == UnitInit \/ ProjectInit

\* composeCommand ps --format json, and what parseContainerStates reads of it.
Listed(h) == {s \in Services : h.state[s] = "running" \/ (h.all /\ h.state[s] = "exited")}

Running(h) == Listed(h) # {} /\ \A s \in Listed(h) : h.state[s] = "running"

\* checkComposeSystemdUnit does not ask what systemd has loaded.
\* isComposeAbsentProject: a command that finds no project says that nothing
\* is up; checkComposeDownNoContainers looks for volumes if they are to go.
InState(h) ==
    CASE h.kind = "unit" -> h.file = "ours" /\ h.meta = "root 0644"
      [] h.kind = "config" -> h.file = "ours" /\ h.mode = "0600"
      [] h.kind = "up" -> h.project /\ Running(h)
      [] h.kind = "down" -> ~h.project \/ Listed(h) = {}
      [] OTHER -> FALSE

-----------------------------------------------------------------------------
(* compose.systemd                                                         *)

CheckUnit ==
    /\ pc = "check" /\ Is("unit")
    /\ Ask(IF InState(host) THEN Return("checked") ELSE Goto("snapshot"), Goto("snapshot"))

\* snapshotComposeSystemdTarget; a failing `stat` ends the call.
Snapshot ==
    /\ pc = "snapshot"
    /\ Ask(ctl' = [ctl EXCEPT !.orig = host] /\ pc' = "prepare",
           IF Regular(host.file) THEN Return("failed") ELSE ctl' = [ctl EXCEPT !.orig = host] /\ pc' = "prepare")

\* systemctl unmask.
Prepare ==
    /\ pc = "prepare"
    /\ Exec([host EXCEPT !.file = IF @ = "mask" THEN "none" ELSE @], Goto("write"), Return("failed"))

Undo == Goto("undo file")

\* writeComposeSystemdUnitFile: no symlink, then a write that may have done
\* its work when it throws, or leave something else than was asked for.
Write ==
    /\ pc = "write"
    /\ IF host.file \in {"link", "mask"}
       THEN Locally(ctl' = [ctl EXCEPT !.refused = TRUE] /\ pc' = "undo file")
       ELSE \E file \in {"ours", "bad"}, meta \in Meta :
               LET work == [host EXCEPT !.file = file, !.meta = meta]
               IN \/ Exec(work, Goto("verify"), Undo)
                  \/ host' = work /\ Undo /\ Fault

\* verifyNonEmptySystemdUnit, after the write and after the shell fallback.
Verify ==
    /\ pc = "verify"
    /\ Must(host, Goto(IF host.file = "ours" THEN "own" ELSE IF ctl.shell THEN "undo file" ELSE "temp"))

\* allocateComposeSystemdTemporaryPath, beside the unit file.
Allocate ==
    /\ pc = "temp"
    /\ Exec([host EXCEPT !.temp = TRUE], Goto("rewrite"), Undo)

\* rewriteComposeSystemdUnitViaShell: write, chmod, look for a symlink and
\* rename, in one command.
Rewrite ==
    /\ pc = "rewrite"
    /\ IF host.file \in {"link", "mask"} THEN Locally(Goto("drop temp"))
       ELSE \E file \in {"ours", "bad"} :
               Exec([host EXCEPT !.file = file, !.temp = FALSE],
                    ctl' = [ctl EXCEPT !.shell = TRUE] /\ pc' = "verify", Goto("drop temp"))

\* cleanupComposeSystemdTemporaryPath.
DropTemp ==
    /\ pc = "drop temp"
    /\ Attempt([host EXCEPT !.temp = FALSE], Undo)

\* renderGuardedChownCommand takes no symlink.
Own ==
    /\ pc = "own"
    /\ IF host.file \in {"link", "mask"} THEN Locally(Undo)
       ELSE Exec([host EXCEPT !.meta = "root 0644"], Goto("reload"), Undo)

\* systemctl daemon-reload.
Loaded == [host EXCEPT !.loaded = host.file]

Reload ==
    /\ pc = "reload"
    /\ Exec(Loaded, Return("changed"), Undo)

-----------------------------------------------------------------------------
(* rollbackComposeSystemdTargetAfterFailure: an exception is caught and    *)
(* told as well.                                                           *)

Restore(work, ok) ==
    \/ Exec(work, ok, Return("failed"))
    \/ host' \in {host, work} /\ Return("failed") /\ Fault

Kept == ctl.orig.file \notin {"none", "link", "mask"}

UndoFile ==
    /\ pc = "undo file"
    /\ IF Kept
       THEN \E meta \in Meta : Restore([host EXCEPT !.file = ctl.orig.file, !.meta = meta], Goto("undo owner"))
       ELSE Restore([host EXCEPT !.file = "none"], Goto("undo mask"))

UndoOwner ==
    /\ pc = "undo owner"
    /\ IF host.file \in {"link", "mask"} THEN Locally(Return("failed"))
       ELSE Restore([host EXCEPT !.meta = ctl.orig.meta], Goto("undo mask"))

UndoMask ==
    /\ pc = "undo mask"
    /\ IF ctl.orig.file = "mask" THEN Restore([host EXCEPT !.file = "mask"], Goto("undo load"))
       ELSE Locally(Goto("undo load"))

UndoLoad ==
    /\ pc = "undo load"
    /\ Restore(Loaded, Return(IF ctl.refused THEN "refused" ELSE "restored"))

\* Somebody links the path to another file.
Plant ==
    /\ pc \in {"write", "rewrite"} /\ host.file # "link" /\ Fault
    /\ host' = [host EXCEPT !.file = "link"]
    /\ UNCHANGED <<ctl, pc>>

-----------------------------------------------------------------------------
(* The compose project: check                                              *)

Check ==
    /\ pc = "check" /\ ~Is("unit")
    /\ IF Is("pull") \/ Is("restart") THEN Locally(Goto("runtime"))
       ELSE Ask(IF ~(Is("config") \/ host.runtime) \/ ~InState(host) THEN Goto("runtime")
                ELSE IF Is("down") /\ host.project /\ host.prune THEN Goto("volumes")
                ELSE Return("checked"),
                Goto("runtime"))

\* composeProjectVolumesExist.
Volumes ==
    /\ pc = "volumes"
    /\ Ask(IF host.volumes THEN Goto("runtime") ELSE Return("checked"), Goto("runtime"))

\* requireComposeRuntime, at the start of every apply().
Runtime ==
    /\ pc = "runtime"
    /\ Ask(IF ~host.runtime THEN Return("failed")
           ELSE Goto(CASE Is("config") -> "links" [] Is("pull") -> "images" [] OTHER -> host.kind),
           Return("failed"))

-----------------------------------------------------------------------------
(* config                                                                  *)

\* ensureComposeProjectDirectoryNotSymlinked, for the directory and the ones
\* above it.
Links ==
    /\ pc = "links"
    /\ Ask(IF host.dirLink THEN Return("refused") ELSE Goto("stage"), Goto("stage"))

\* createComposeStagingPath.
Stage ==
    /\ pc = "stage"
    /\ Exec([host EXCEPT !.temp = "empty"], Goto("fill"), Return("failed"))

\* The steps after mktemp are in a try with a finally: an exception is thrown
\* on when the staging file was removed.
Try(work, ok, bad) ==
    \/ Exec(work, ok, bad)
    \/ /\ host' \in {host, work} /\ Fault
       /\ ctl' = [ctl EXCEPT !.result = "raised"] /\ pc' = "drop"

Leave(r) == ctl' = [ctl EXCEPT !.result = r] /\ pc' = "drop"

\* writeComposeStagingFile.
Fill ==
    /\ pc = "fill"
    /\ Try([host EXCEPT !.temp = "ours"], Goto("validate"), Leave("raised"))

\* validateStagedComposeFile.
Validate ==
    /\ pc = "validate"
    /\ Try(host, IF host.valid THEN Goto("activate") ELSE Leave("failed"), Leave("failed"))

\* activateStagedComposeFile: mv -T takes the place of a link too.
Activate ==
    /\ pc = "activate"
    /\ Try([host EXCEPT !.file = "ours", !.mode = "0600", !.temp = "none"], Leave("changed"), Leave("failed"))

\* removeComposeStagingFile.
Drop ==
    /\ pc = "drop"
    /\ Attempt([host EXCEPT !.temp = "none"], Return(ctl.result))

-----------------------------------------------------------------------------
(* up, down and restart                                                    *)

AllAre(state) == [s \in Services |-> state]

\* composeUpReportedChange: what the command says of its own work.
Told == IF host.state = AllAre("running") THEN "ok" ELSE "changed"

Up ==
    /\ pc = "up"
    /\ IF ~host.project THEN Ask(Return("failed"), Return("failed"))
       ELSE Exec([host EXCEPT !.state = AllAre("running")],
                 Return(Told), Return("failed"))

Downed == [host EXCEPT !.state = AllAre("none"), !.volumes = @ /\ ~host.prune]

Down ==
    /\ pc = "down"
    /\ IF ~host.project THEN Ask(Return("ok"), Return("failed"))
       ELSE Exec(Downed, Return("changed"), Return("failed"))

\* `down && up -d` in one command, which may fail between the two.
Restart ==
    /\ pc = "restart"
    /\ IF ~host.project THEN Ask(Return("failed"), Return("failed"))
       ELSE \/ Exec([host EXCEPT !.state = AllAre("running")], Return("changed"), Return("failed"))
            \/ host' = [host EXCEPT !.state = AllAre("none")] /\ Return("failed") /\ Fault

-----------------------------------------------------------------------------
(* pull                                                                    *)

Unknown == 2  \* the identifier of an image that could not be inspected

\* resolveComposeConfigImages: output that cannot be read is not a failure.
ConfigImages ==
    /\ pc = "images"
    /\ Ask(Goto("before"), Goto("pull blind"))

\* snapshotComposeImagesBeforePull.
Before ==
    /\ pc = "before"
    /\ LET saw(id) == ctl' = [ctl EXCEPT !.before = id] /\ pc' = "pull"
       IN Ask(saw(host.here), saw(Unknown))

Pull ==
    /\ pc \in {"pull", "pull blind"}
    /\ Exec([host EXCEPT !.here = host.there],
            IF pc = "pull" THEN Goto("after") ELSE Return("changed"), Return("failed"))

\* snapshotComposeImagesAfterPull and composeImageSnapshotChanged.
After ==
    /\ pc = "after"
    /\ Ask(Return(IF host.here = ctl.before THEN "ok" ELSE "changed"), Return("failed"))

\* A container stops by itself.
Stop ==
    /\ ~Is("unit") /\ Fault /\ UNCHANGED <<ctl, pc>>
    /\ pc \in {"check", "runtime", "volumes"}
    /\ \E s \in Services : host.state[s] = "running" /\ host' = [host EXCEPT !.state[s] = "exited"]

-----------------------------------------------------------------------------

Section ==
    \/ CheckUnit \/ Snapshot \/ Prepare \/ Write \/ Verify \/ Allocate \/ Rewrite \/ DropTemp \/ Own \/ Reload
    \/ UndoFile \/ UndoOwner \/ UndoMask \/ UndoLoad
    \/ Check \/ Volumes \/ Runtime \/ Links \/ Stage \/ Fill \/ Validate \/ Activate \/ Drop
    \/ Up \/ Down \/ Restart \/ ConfigImages \/ Before \/ Pull \/ After
Next == Section \/ Plant \/ Stop \/ Again(Fresh(ctl.run + 1))
Spec == Init /\ [][Next]_vars

-----------------------------------------------------------------------------
(* Properties                                                              *)

\* What is reported is what the host shows.  Of a unit "changed" is also what
\* systemd has loaded (applyComposeSystemdUnit).  Of a project every listed
\* container runs, or none is left; a pull says "ok" only when no image changed
\* (compose.up, compose.down, compose.pull).  A project that is not found counts
\* as down.
ReportsAreTrue ==
    /\ ctl.result \in {"checked", "changed"} /\ (Is("unit") \/ Is("config")) => InState(host)
    /\ ctl.result = "changed" /\ Is("unit") => host.loaded = "ours"
    /\ ctl.result = "changed" /\ Is("config") => host.valid
    /\ ctl.result \in {"ok", "changed"} /\ (Is("up") \/ Is("restart")) => host.state = AllAre("running")
    /\ ctl.result \in {"checked", "changed"} /\ Is("down") /\ host.project =>
          Listed(host) = {} /\ (host.prune => ~host.volumes)
    /\ ctl.result = "ok" /\ Is("pull") => host.here = ctl.orig.here /\ host.here = host.there

\* The failure of the first step is told alone only when the file, its owner,
\* the mask and the loaded unit are back; a link other than the mask counts as
\* no file (rollbackComposeSystemdTargetAfterFailure).  A compose file that does
\* not validate never takes the place of the old one (applyComposeConfig).
FailuresAreTrue ==
    /\ Is("unit") /\ ctl.result \in {"restored", "refused"} =>
          /\ host.file = IF ctl.orig.file = "link" THEN "none" ELSE ctl.orig.file
          /\ Regular(host.file) => host.meta = ctl.orig.meta
          /\ host.loaded = host.file
    /\ Is("config") /\ ctl.result \in {"failed", "refused"} => host.file = ctl.orig.file

\* The test of the refusal expects that nothing was written and systemd was
\* not told to reload (compose.test.ts, R-0000192).
RefusalLeavesTheLink == Is("unit") /\ ctl.result = "refused" => host.file \in {"link", "mask"}

\* No file is left beside the unit unless the connection died.  The staging
\* file of a configuration is removed on every way out; the removal itself may
\* fail.
NothingIsLeft ==
    /\ Is("unit") /\ Ended /\ host.temp => faults > 0
    /\ Is("config") /\ Ended /\ ctl.run = 1 /\ host.temp # "none" => faults > 0

\* A run without faults installs the unit, or says that it put the old one back
\* or refused.  Of a project it ends in the desired state, where the runtime and
\* the project exist and the written configuration is valid; pull and restart
\* ask for a change of state of their own (compose.ts).
CleanRunConverges ==
    Ended /\ Clean =>
        \/ InState(host)
        \/ Is("unit") /\ ctl.result \in {"restored", "refused"}
        \/ Is("config") /\ (~host.valid \/ host.dirLink)
        \/ ~Is("unit") /\ ~Is("config") /\ ~(host.runtime /\ host.project)
        \/ Is("pull") /\ host.here = host.there
        \/ Is("restart") /\ host.state = AllAre("running")
=============================================================================
