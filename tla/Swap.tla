--------------------------------- MODULE Swap ---------------------------------
(***************************************************************************)
(* swap.file: a file the kernel swaps to and its line in /etc/fstab.  A    *)
(* file of the wrong size is replaced by one prepared beside it while the  *)
(* old one waits at `<path>.paratix-backup`; an absent file is kept as a   *)
(* hard link until the table no longer names it.                           *)
(***************************************************************************)
EXTENDS Remote, TLC

\* "alien" is a link, a directory or a file without a swap signature.
Contents == {"none", "want", "old", "alien"}

Was == [file |-> host.file, on |-> host.on, bak |-> host.bak, snap |-> host.snap, tmp |-> host.tmp]

Fresh(run) ==
    Call(run) @@ [was |-> Was, mine |-> FALSE, replace |-> FALSE, snapped |-> FALSE, off |-> FALSE, did |-> FALSE, kept |-> FALSE,
                  then |-> "done", seen |-> [fstab |-> "none", theirs |-> FALSE]]

TypeOK ==
    /\ pc \in {"check", "assess", "classify", "mktemp", "init", "off", "back up", "moved", "publish", "verify", "clean", "mode", "enable",
               "snap rm", "snap", "rm", "fstab", "look", "write", "undo off", "restore", "on again", "finish", "done"}
    /\ {host.file, host.bak, host.snap} \subseteq Contents /\ host.fstab \in {"none", "want", "other"} /\ host.tmp \in 0..MaxRuns
    /\ ctl.then \in {"done", "on again", "restore"} /\ ctl.result \in Results /\ faults \in 0..MaxFaults

Init ==
    /\ \E kind \in {"present", "absent"}, file \in Contents, on, mode \in BOOLEAN, bak \in {"none", "old"}, fstab \in {"none", "want", "other"} :
          /\ on => file \in {"want", "old"}
          /\ mode => file = "want" /\ kind = "present"
          /\ kind = "absent" => bak = "none" /\ file # "want"
          /\ host = [kind |-> kind, file |-> file, on |-> on, mode |-> mode, bak |-> bak, snap |-> "none", tmp |-> 0, fstab |-> fstab,
                     theirs |-> FALSE, edited |-> FALSE, late |-> FALSE, blind |-> FALSE]
    /\ faults = 0 /\ pc = "check" /\ ctl = Fresh(1)

Is(kind) == host.kind = kind
IsSwap(f) == f \in {"want", "old"}
Persisted(h) == h.fstab = (IF h.kind = "present" THEN "want" ELSE "none")

\* checkPresent, checkAbsent
InState ==
    /\ IF Is("present") THEN host.file = "want" /\ host.mode /\ host.on ELSE host.file = "none" /\ ~host.on
    /\ Persisted(host)

\* ssh.exists and ssh.test take every failure for "no".
Blind(next) == next /\ host' = [host EXCEPT !.blind = TRUE] /\ Fault

Then(c, l) == ctl' = c /\ pc' = l
Finished == IF ctl.did THEN Return("changed") ELSE Return("ok")

Check ==
    /\ pc = "check"
    /\ Ask(IF InState THEN Return("checked") ELSE Goto(IF Is("present") THEN "assess" ELSE "classify"), Goto("assess"))

\* needsSwapRecreation
Assess ==
    /\ pc = "assess"
    /\ IF Is("absent") THEN Locally(Goto("classify"))
       ELSE \/ Ask(Goto(IF host.file = "want" THEN "mode" ELSE "classify"), Return("failed"))
            \/ Blind(Goto("classify"))

\* classifySwapFilePath: only a regular file with a swap signature is touched.
Classify ==
    /\ pc = "classify"
    /\ LET managed == IF Is("present") THEN Then([ctl EXCEPT !.replace = TRUE], "mktemp") ELSE Then([ctl EXCEPT !.snapped = TRUE], "off")
           missing == IF Is("present") THEN Goto("mktemp") ELSE Goto("off")
       IN \/ Ask(CASE host.file = "alien" -> Return("failed")
                   [] host.file = "none" -> missing
                   [] OTHER -> managed, Return("failed"))
          \/ IsSwap(host.file) /\ Blind(missing)

-----------------------------------------------------------------------------
(* swapFileCreateHelpers.ts, swapBackupHelpers.ts                          *)

MkTemp ==
    /\ pc = "mktemp"
    /\ Exec([host EXCEPT !.tmp = @ + 1], Then([ctl EXCEPT !.mine = TRUE], "init"), Return("failed"))

\* cleanupSwapTemporaryFile, and what follows it.
CleanUp(next) == Then([ctl EXCEPT !.then = next], "clean")
Clear ==
    /\ pc = "clean"
    /\ LET next == IF ctl.then = "done" THEN Return("failed") ELSE Goto(ctl.then)
       IN Attempt(IF ctl.mine THEN [host EXCEPT !.tmp = @ - 1] ELSE host, next)

\* fallocate or dd, chmod, mkswap
Initialize ==
    /\ pc = "init"
    /\ Exec(host, Goto(IF ctl.replace THEN "off" ELSE "publish"), CleanUp("done"))

\* disableSwap
Off ==
    /\ pc = "off"
    /\ Exec([host EXCEPT !.on = FALSE],
            Then([ctl EXCEPT !.off = host.on, !.did = @ \/ host.on],
                 IF Is("present") THEN "back up" ELSE IF ctl.snapped THEN "snap rm" ELSE "fstab"),
            IF Is("present") THEN CleanUp("done") ELSE Return("failed"))

\* handleSwapBackupFailure
BackupFailure == CleanUp(IF ctl.off THEN "on again" ELSE "done")

\* moveSwapToBackup: `mv -n` leaves a backup of earlier alone ...
BackUp ==
    /\ pc = "back up"
    /\ Exec(IF host.bak = "none" THEN [host EXCEPT !.bak = host.file, !.file = "none"] ELSE host, Goto("moved"), BackupFailure)

\* ... and the file is still in its place.
Moved ==
    /\ pc = "moved"
    /\ \/ Ask(IF host.file = "none" THEN Goto("publish") ELSE BackupFailure, FALSE)
       \/ UNCHANGED host /\ Fault /\ Then([ctl EXCEPT !.kept = TRUE, !.then = IF ctl.off THEN "on again" ELSE "done"], "clean")

\* handleSwapPublishFailure
PublishFailure(c) == Then([c EXCEPT !.then = IF ctl.replace THEN "restore" ELSE "done"], "clean")

\* publishSwapTemporaryFile: `mv -n` again, and the inode is compared.
Publish ==
    /\ pc = "publish"
    /\ Exec(IF host.file = "none" THEN [host EXCEPT !.file = "want", !.mode = TRUE, !.tmp = @ - 1] ELSE host,
            Then([ctl EXCEPT !.mine = host.file # "none"], "verify"), PublishFailure(ctl))

Verify ==
    /\ pc = "verify"
    /\ Ask(IF ctl.mine THEN PublishFailure(ctl) ELSE Then([ctl EXCEPT !.did = TRUE], "enable"), PublishFailure(ctl))

\* The pipeline's rollback re-enables the old file whether it was in use or not.
Fail == IF ctl.replace THEN Then([ctl EXCEPT !.off = TRUE], "undo off") ELSE Return("failed")

Mode ==
    /\ pc = "mode"
    /\ Exec([host EXCEPT !.mode = TRUE], Then([ctl EXCEPT !.did = @ \/ ~host.mode], "enable"), Return("failed"))

Enable ==
    /\ pc = "enable"
    /\ Exec([host EXCEPT !.on = TRUE], Then([ctl EXCEPT !.did = @ \/ ~host.on], "fstab"), Fail)

-----------------------------------------------------------------------------
(* swapAbsentFlow.ts                                                       *)

\* handleAbsentSwapRemovalFailure
RemovalFailure(c) == IF ctl.off THEN Then(c, "on again") ELSE Then([c EXCEPT !.result = "failed"], "done")

SnapRm ==
    /\ pc = "snap rm"
    /\ Exec([host EXCEPT !.snap = "none"], Goto("snap"), RemovalFailure([ctl EXCEPT !.snapped = FALSE]))

Snap ==
    /\ pc = "snap"
    /\ Exec([host EXCEPT !.snap = host.file], Goto("rm"), RemovalFailure([ctl EXCEPT !.snapped = FALSE]))

\* removeSwapFile: when rm fails, the link counts as never made.
Rm ==
    /\ pc = "rm"
    /\ \/ Exec([host EXCEPT !.file = "none"], Then([ctl EXCEPT !.did = TRUE], "fstab"),
               RemovalFailure([ctl EXCEPT !.snapped = FALSE, !.kept = TRUE]))
       \/ Blind(Goto("fstab"))

-----------------------------------------------------------------------------
(* ensureSwapFstabState: in a mutex section, which turns an exception into *)
(* a failure.                                                              *)

Caught(work, ok, bad) ==
    \/ host' = work /\ ok /\ UNCHANGED faults
    \/ host' \in {host, work} /\ bad /\ Fault

Undo == IF Is("present") THEN Fail ELSE IF ctl.snapped THEN Goto("restore") ELSE Return("failed")
Table(h) == [fstab |-> h.fstab, theirs |-> h.theirs]
Done(c) ==
    IF ctl.replace \/ ctl.snapped THEN Then(c, "finish")
    ELSE Then([c EXCEPT !.result = IF c.did THEN "changed" ELSE "ok"], "done")

\* The mutex and the read.
Fstab ==
    /\ pc = "fstab"
    /\ Caught(host, IF Persisted(host) THEN Done(ctl) ELSE Then([ctl EXCEPT !.seen = Table(host)], "look"), Undo)

\* guardedWriteFile reads again ...
Look ==
    /\ pc = "look"
    /\ Caught(host, IF Table(host) = ctl.seen THEN Goto("write") ELSE Undo, Undo)

\* ... and writes.
Write ==
    /\ pc = "write"
    /\ LET line == IF Is("present") THEN "want" ELSE "none"
       IN Caught([host EXCEPT !.fstab = line, !.theirs = ctl.seen.theirs], Done([ctl EXCEPT !.did = TRUE]), Undo)

-----------------------------------------------------------------------------
(* rollbackManagedSwapBackup, rollbackAbsentSwapAfterFstabFailure          *)

UndoOff ==
    /\ pc = "undo off"
    /\ Exec([host EXCEPT !.on = FALSE], Goto("restore"), Return("failed"))

\* restoreSwapBackup: here `mv` overwrites.
Restore ==
    /\ pc = "restore"
    /\ LET back == IF Is("present") THEN [host EXCEPT !.file = host.bak, !.bak = "none"]
                   ELSE [host EXCEPT !.file = host.snap, !.snap = "none"]
       IN Exec(back, IF ctl.off THEN Goto("on again") ELSE Return("failed"), Return("failed"))

\* enableSwap, reactivateSwap
OnAgain ==
    /\ pc = "on again"
    /\ Exec([host EXCEPT !.on = @ \/ IsSwap(host.file)], Return("failed"), Return("failed"))

\* finalizeManagedSwapBackup, cleanupAbsentSwapSnapshot
Finish ==
    /\ pc = "finish"
    /\ Attempt(IF Is("present") THEN [host EXCEPT !.bak = "none"] ELSE [host EXCEPT !.snap = "none"], Finished)

Section ==
    \/ Check \/ Assess \/ Classify \/ MkTemp \/ Clear \/ Initialize \/ Off \/ BackUp \/ Moved \/ Publish \/ Verify \/ Mode \/ Enable
    \/ SnapRm \/ Snap \/ Rm \/ Fstab \/ Look \/ Write \/ UndoOff \/ Restore \/ OnAgain \/ Finish

\* Somebody adds a line of their own to the table, at any time; between the
\* two halves of guardedWriteFile it is late.
Edit ==
    /\ ~Ended /\ ~host.edited /\ Fault
    /\ host' = [host EXCEPT !.theirs = TRUE, !.edited = TRUE, !.late = pc = "write"]
    /\ UNCHANGED <<ctl, pc>>

Next == Section \/ Edit \/ Again(Fresh(ctl.run + 1))
Spec == Init /\ [][Next]_vars

-----------------------------------------------------------------------------

\* "ok" and "changed" mean that the swap file is there as asked, in use and
\* persisted, or gone (swap.ts).
ReportsAreTrue == ctl.result \in {"checked", "ok", "changed"} /\ ~host.blind => InState

\* One failing command of a reported failure never costs the swap space that
\* was there: the old file is back in its place and in use.
FailuresAreTrue ==
    ctl.result = "failed" /\ faults <= ctl.from + 1 /\ IsSwap(ctl.was.file) /\ ctl.was.bak = "none"
    /\ ~(Is("present") /\ ctl.kept) =>
       host.file = ctl.was.file /\ (ctl.was.on => host.on)

\* Nor does it leave a file beside it.
NothingIsLeft ==
    ctl.result = "failed" /\ faults <= ctl.from + 1 /\ ~ctl.kept /\ ctl.was.bak = "none" =>
       host.tmp = ctl.was.tmp /\ host.bak = ctl.was.bak /\ host.snap \in {"none", ctl.was.snap}

\* A line somebody adds to /etc/fstab is lost only if it comes between the
\* two halves of guardedWriteFile (swapFstabHelpers.ts).
EditsSurvive == host.edited => host.theirs \/ host.late

\* A backup of an interrupted run blocks every later replacement.
CleanRunConverges == Ended /\ Clean /\ ~host.blind => InState \/ host.file = "alien" \/ host.bak # "none"

\* "the snapshot was not created on the early-exit path"
EarlyExitHasNoSnapshot == Is("absent") /\ ctl.result = "failed" /\ faults <= ctl.from + 1 => host.snap \in {"none", ctl.was.snap}
=============================================================================
