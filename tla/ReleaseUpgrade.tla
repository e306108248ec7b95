--------------------------- MODULE ReleaseUpgrade ---------------------------
(***************************************************************************)
(* releaseUpgrade.upgrade: Ubuntu's do-release-upgrade, or Debian's        *)
(* sources pointed at the new suite and upgraded under a mutex, with the   *)
(* sources put back when that fails.                                       *)
(***************************************************************************)
EXTENDS Remote, TLC

\* /etc/apt/sources.list and one file below sources.list.d.
Lists == {1, 2}
\* "other" names no suite of ours; "torn" is what a failed write leaves.
Contents == {"none", "old", "new", "torn", "edited", "other", "link"}

Fresh(run) == Call(run) @@ [i |-> 1, snaps |-> {}, target |-> FALSE, locked |-> FALSE, lost |-> FALSE, orig |-> host.list]

TypeOK ==
    /\ pc \in {"check", "distro", "ubuntu update", "do upgrade", "stable", "lock", "current", "read", "reread", "write",
               "find", "update", "configure", "upgrade", "autoremove", "restore", "refresh", "meta", "unlock", "done"}
    /\ host.list \in [Lists -> Contents] /\ host.system \in {"old", "half", "new"} /\ host.codename \in {"old", "new"}
    /\ host.index \in {"old", "new"} /\ host.mutex \in BOOLEAN /\ ctl.i \in 1..3 /\ ctl.snaps \subseteq Lists
    /\ ctl.result \in Results /\ faults \in 0..MaxFaults

\* Another host may hold the mutex; resolveHost may find no address.
Init ==
    /\ \/ \E list \in [Lists -> {"none", "old", "other", "link"}], codename \in {"old", "new"}, resolves \in BOOLEAN :
             /\ codename = "new" => list = [i \in Lists |-> "none"]
             /\ host = [distro |-> "debian", list |-> list, codename |-> codename, system |-> codename, resolves |-> resolves,
                        index |-> "old", mutex |-> FALSE, edited |-> {}]
       \/ \E distro \in {"ubuntu", "none"}, codename \in {"old", "new"}, resolves \in BOOLEAN :
             host = [distro |-> distro, list |-> [i \in Lists |-> "none"], codename |-> codename, system |-> codename,
                     resolves |-> resolves, index |-> "old", mutex |-> FALSE, edited |-> {}]
    /\ faults = 0 /\ pc = "check" /\ ctl = Fresh(1)

\* check() catches everything on the Debian side: readDebianCurrentCodename
\* against getDebianStableCodename, which is kept for this connection.
Check ==
    /\ pc = "check"
    /\ LET cached == ctl' = [ctl EXCEPT !.target = host.distro = "debian"] /\ pc' = "distro"
       IN \/ /\ host' = host /\ UNCHANGED faults
             /\ IF host.distro # "none" /\ host.codename = "new" THEN Return("checked") ELSE cached
          \/ host' = host /\ (Goto("distro") \/ cached) /\ Fault

\* detectDistro reads /etc/os-release and throws when it cannot.
Distro ==
    /\ pc = "distro"
    /\ Must(host, CASE host.distro = "none" -> Return("refused")
                    [] host.distro = "ubuntu" -> Goto("ubuntu update")
                    [] OTHER -> Goto("stable"))

-----------------------------------------------------------------------------
(* applyUbuntu                                                             *)

UbuntuUpdate ==
    /\ pc = "ubuntu update"
    /\ Exec(host, Goto("do upgrade"), Return("failed"))

Upgraded(h) == [h EXCEPT !.system = "new", !.codename = "new"]

\* The release tool stops half way; os-release may already be the new one.
Interrupted(h) == {[h EXCEPT !.system = "half", !.codename = c] : c \in {h.codename, "new"}}

DoUpgrade ==
    /\ pc = "do upgrade"
    /\ \/ Exec(Upgraded(host), Goto("meta"), Return("failed"))
       \/ host' \in Interrupted(host) /\ Return("failed") /\ Fault

-----------------------------------------------------------------------------
(* applyDebian                                                             *)

\* readDebianCurrentCodename, getDebianStableCodename: a signed InRelease,
\* taken from the cache when check() read it.
Stable ==
    /\ pc = "stable"
    /\ IF ctl.target THEN Ask(IF host.codename = "new" THEN Return("ok") ELSE Goto("lock"), Return("failed"))
       ELSE Ask(IF host.codename = "new" THEN Return("ok") ELSE ctl' = [ctl EXCEPT !.target = TRUE] /\ pc' = "lock",
                Return("failed"))

\* withMutexLock.
Lock ==
    /\ pc = "lock"
    /\ ~host.mutex
    /\ Exec([host EXCEPT !.mutex = TRUE], ctl' = [ctl EXCEPT !.locked = TRUE] /\ pc' = "current", Return("failed"))

\* The outcome waits until the mutex is released.
Leave(r) == ctl' = [ctl EXCEPT !.result = r] /\ pc' = "unlock"

\* runDebianUpgradeCriticalSection looks again: another controller may have
\* finished the upgrade.
Current ==
    /\ pc = "current"
    /\ \/ Ask(IF host.codename = "new" THEN Leave("ok") ELSE ctl' = [ctl EXCEPT !.orig = host.list] /\ pc' = "read",
              Leave("failed"))
       \/ host' = host /\ Leave("raised") /\ Fault

\* failAfterSourcesRewriteError: also for a lost answer.
Rewritten(work, ok) ==
    \/ host' = work /\ ok /\ UNCHANGED faults
    \/ host' = host /\ ctl' = [ctl EXCEPT !.result = "restored", !.i = 1] /\ pc' = "restore" /\ Fault

NextList == ctl' = [ctl EXCEPT !.i = @ + 1] /\ pc' = IF ctl.i = 1 THEN "find" ELSE "update"

\* snapshotSourcesFileSafely: a link and a file that vanished are left out;
\* rewriteAptSourcesContent: so is one that names no suite of the old release.
Read ==
    /\ pc = "read"
    /\ Rewritten(host, IF host.list[ctl.i] = "old" THEN Goto("reread") ELSE NextList)

\* rewriteSourcesFile: the file is read a second time.
Reread ==
    /\ pc = "reread"
    /\ LET now == host.list[ctl.i]
       IN \/ now = "old" /\ Rewritten(host, Goto("write"))
          \/ now \in {"none", "link"} /\ Rewritten(host, NextList)
          \/ /\ now = "edited" /\ UNCHANGED <<host, faults>>
             /\ ctl' = [ctl EXCEPT !.result = "restored", !.i = 1] /\ pc' = "restore"

\* writeSourcesFileWithRegisteredSnapshot: the snapshot stays registered when
\* the command failed and may have written, and goes when it refused a link or
\* when the connection gave no answer at all.
Write ==
    /\ pc = "write"
    /\ LET i == ctl.i
           work == [host EXCEPT !.list[i] = "new"]
           kept == ctl' = [ctl EXCEPT !.snaps = @ \cup {i}, !.result = "restored", !.i = 1] /\ pc' = "restore"
           gone == ctl' = [ctl EXCEPT !.result = "restored", !.i = 1, !.lost = TRUE] /\ pc' = "restore"
       IN IF host.list[i] = "link" THEN Rewritten(host, ctl' = [ctl EXCEPT !.result = "restored", !.i = 1] /\ pc' = "restore")
          ELSE \/ /\ host' = work /\ UNCHANGED faults
                  /\ ctl' = [ctl EXCEPT !.snaps = @ \cup {i}, !.i = i + 1] /\ pc' = IF i = 1 THEN "find" ELSE "update"
               \/ host' \in {host, [host EXCEPT !.list[i] = "torn"]} /\ kept /\ Fault
               \/ host' \in {host, work} /\ gone /\ Fault

\* replaceCodenameInSourcesList enumerates sources.list.d.
Find ==
    /\ pc = "find"
    /\ Rewritten(host, Goto("read"))

\* runDebianUpgradePipeline, an exception counting as a failure.
Broken == ctl' = [ctl EXCEPT !.result = "diverged", !.i = 1] /\ pc' = "restore"

Pipeline(l, work, torn, next) ==
    /\ pc = l
    /\ \/ host' = work /\ Goto(next) /\ UNCHANGED faults
       \/ host' \in {host, work} \cup torn /\ Broken /\ Fault

Suite == IF \E i \in Lists : host.list[i] = "new" THEN "new" ELSE "old"

Update == Pipeline("update", [host EXCEPT !.index = Suite], {}, "configure")

Configure == Pipeline("configure", host, {}, "upgrade")

\* full-upgrade installs what the index offers.
FullUpgrade ==
    LET moved == host.index = "new"
    IN Pipeline("upgrade", IF moved THEN Upgraded(host) ELSE host, IF moved THEN Interrupted(host) ELSE {}, "autoremove")

Autoremove == Pipeline("autoremove", host, {}, "meta")

\* restoreSourcesSnapshots: unguarded, but never through a link, and a failure
\* leaves the other files their turn; then, after a failed pipeline, the
\* restored sources are read (handleDebianPipelineFailure).
Restore ==
    /\ pc = "restore"
    /\ IF ctl.i = 3 THEN Locally(CASE ctl.result = "diverged" -> Goto("refresh") [] OTHER -> Leave(ctl.result))
       ELSE IF ctl.i \notin ctl.snaps THEN Locally(ctl' = [ctl EXCEPT !.i = @ + 1] /\ UNCHANGED pc)
       ELSE LET work == [host EXCEPT !.list[ctl.i] = "old"]
                bad == ctl' = [ctl EXCEPT !.i = @ + 1, !.result = "failed"] /\ UNCHANGED pc
            IN IF host.list[ctl.i] \in {"link", "none"} THEN Locally(bad)
               ELSE \/ host' = work /\ UNCHANGED faults /\ ctl' = [ctl EXCEPT !.i = @ + 1] /\ UNCHANGED pc
                    \/ host' \in {host, work} /\ bad /\ Fault

Refresh ==
    /\ pc = "refresh"
    /\ \/ Exec([host EXCEPT !.index = Suite], Leave("restored"), Leave("failed"))
       \/ host' \in {host, [host EXCEPT !.index = Suite]} /\ Leave("raised") /\ Fault

\* buildRebootMeta; for Debian inside the mutex.
Meta ==
    /\ pc = "meta"
    /\ LET r == IF host.resolves THEN "changed" ELSE "failed"
       IN Locally(IF ctl.locked THEN Leave(r) ELSE Return(r))

Unlock ==
    /\ pc = "unlock"
    /\ LET work == [host EXCEPT !.mutex = FALSE]
       IN \/ host' = work /\ Return(ctl.result) /\ UNCHANGED faults
          \/ host' \in {host, work} /\ Return(ctl.result) /\ Fault

-----------------------------------------------------------------------------
(* Others                                                                  *)

\* The sources are edited between the two reads, or replaced by a link.
Edit ==
    /\ pc \in {"reread", "write", "restore"} /\ ctl.i \in Lists /\ Fault /\ host.list[ctl.i] # "link"
    /\ \/ pc = "reread" /\ host' = [host EXCEPT !.list[ctl.i] = "edited", !.edited = @ \cup {ctl.i}]
       \/ host' = [host EXCEPT !.list[ctl.i] = "link"]
    /\ UNCHANGED <<ctl, pc>>

\* While we wait for the mutex another controller does the upgrade; a mutex
\* left behind is reclaimed (mutexLock.ts).
OtherController ==
    /\ pc = "lock"
    /\ \/ host.mutex /\ host' = [host EXCEPT !.mutex = FALSE] /\ UNCHANGED <<ctl, pc, faults>>
       \/ /\ ~host.mutex /\ host.codename = "old" /\ Fault /\ UNCHANGED <<ctl, pc>>
          /\ host' = [Upgraded(host) EXCEPT !.list = [i \in Lists |-> IF host.list[i] = "old" THEN "new" ELSE host.list[i]]]

Section ==
    \/ Check \/ Distro \/ UbuntuUpdate \/ DoUpgrade \/ Stable \/ Lock \/ Current \/ Read \/ Reread \/ Write \/ Find
    \/ Update \/ Configure \/ FullUpgrade \/ Autoremove \/ Restore \/ Refresh \/ Meta \/ Unlock
Next == Section \/ Edit \/ OtherController \/ Again(Fresh(ctl.run + 1))
Spec == Init /\ [][Next]_vars

-----------------------------------------------------------------------------
(* Properties                                                              *)

\* After "changed" the pipeline went through with what the sources offered; a
\* host that still calls itself old had no source to rewrite.
ReportsAreTrue ==
    ctl.result = "changed" /\ Ended => host.system = "new" \/ \A i \in Lists : ctl.orig[i] # "old" \/ host.list[i] # "new"

\* A failure after which nothing is said about the rollback left no source of
\* this run at the new suite, except one whose write was never answered.
FailuresAreTrue ==
    ctl.result = "restored" /\ Ended =>
        \A i \in Lists : \/ host.list[i] = ctl.orig[i] \/ host.list[i] \in {"edited", "link"}
                         \/ ctl.lost

\* An edit between the two reads is never overwritten (rewriteSourcesFile).
EditsSurvive == \A i \in host.edited : host.list[i] \in {"edited", "link"}

\* The mutex is kept only by a call whose release was not answered.
NothingIsLeft == Ended /\ host.mutex => faults > 0

\* A run without faults upgrades a host whose sources name the old suite and
\* are not edited meanwhile (releaseUpgrade.ts).
CleanRunConverges ==
    Ended /\ Clean =>
        \/ host.codename = "new" \/ host.distro = "none"
        \/ \A i \in Lists : ctl.orig[i] # "old"
        \/ host.edited # {}

\* The sources never point at the new suite while the upgrade itself failed
\* (SourcesSnapshot).
NoNewSuiteAfterFailure == ctl.result = "restored" /\ Ended => \A i \in Lists : host.list[i] = "new" => ctl.orig[i] = "new"

\* "ok" when the host is already up to date (releaseUpgrade.upgrade).
OkIsUpToDate == ctl.result = "checked" => host.system = "new"
=============================================================================
