------------------------------ MODULE NetRoute ------------------------------
(***************************************************************************)
(* net.route: a route of one destination and device in three layers - the  *)
(* kernel's table, systemd-networkd's drop-in (and the file older versions *)
(* wrote) and what networkd has loaded - with a flag that says that the    *)
(* drop-in was loaded.  A failing layer rolls the earlier ones back.       *)
(***************************************************************************)
EXTENDS Remote, TLC

\* "other" is a route to the same destination and device over another gateway.
Routes == {"none", "ours", "other"}
Files == {"none", "ours", "foreign", "link"}

\* What is found where the file should be, by a test that takes no symlink.
Regular(file) == file \in {"ours", "foreign"}

Fresh(run) == Call(run) @@ [orig |-> host, snap |-> host, reload |-> FALSE, changed |-> FALSE, claim |-> {}]

TypeOK ==
    /\ pc \in {"check", "snapshot", "prepare", "replace", "write", "reload", "flag",
               "undo dropin", "undo legacy", "undo live", "reload back",
               "delete", "remove", "remove legacy", "undelete", "reload absent", "done"}
    /\ host.live \in Routes /\ {host.dropin, host.legacy} \subseteq Files
    /\ ctl.result \in Results /\ ctl.claim \subseteq {"live", "dropin"} /\ faults \in 0..MaxFaults

Init ==
    /\ \E want \in {"present", "absent"}, live \in Routes, dropin, legacy \in Files, flag \in BOOLEAN :
          host = [want |-> want, live |-> live, dropin |-> dropin, legacy |-> legacy,
                  loaded |-> dropin, flag |-> flag]
    /\ faults = 0 /\ pc = "check" /\ ctl = Fresh(1)

Present == host.want = "present"

\* checkRouteState and checkPresentRouteState.
InState(h) ==
    IF h.want = "present" THEN h.live = "ours" /\ h.dropin = "ours" /\ h.flag
    ELSE h.live # "ours" /\ h.dropin \notin {"ours", "link"} /\ h.legacy \notin {"ours", "link"}

Check ==
    /\ pc = "check"
    /\ Ask(IF InState(host) THEN Return("checked") ELSE Goto("snapshot"), Goto("snapshot"))

\* captureRouteMutationSnapshot: `replace` would take away any route of this
\* destination and device, `del` only the exact one; links are not kept.
Snapshot ==
    /\ pc = "snapshot"
    /\ LET file(f) == IF Regular(f) THEN f ELSE "none"
           live == IF Present \/ host.live = "ours" THEN host.live ELSE "none"
       IN Ask(/\ ctl' = [ctl EXCEPT !.orig = host, !.snap = [host EXCEPT !.live = live, !.dropin = file(@), !.legacy = file(@)]]
              /\ pc' = IF Present THEN "prepare" ELSE "delete",
              Return("failed"))

-----------------------------------------------------------------------------
(* present                                                                 *)

\* preparePresentRouteMutation: no symlink, the directory, the live route.
Prepare ==
    /\ pc = "prepare"
    /\ IF host.dropin = "link" THEN Locally(Return("refused"))
       ELSE Ask(Goto("replace"), Return("failed"))

Replace ==
    /\ pc = "replace"
    /\ Exec([host EXCEPT !.live = "ours"], Goto("write"), Return("failed"))

\* The rollback starts; a write that throws is caught, whatever it did.
Undo(reload) == ctl' = [ctl EXCEPT !.reload = reload] /\ pc' = "undo dropin"

Write ==
    /\ pc = "write"
    /\ IF host.dropin = "link" THEN Locally(Undo(FALSE))
       ELSE LET work == [host EXCEPT !.dropin = "ours"]
            IN \/ Exec(work, Goto("reload"), Undo(FALSE))
               \/ host' = work /\ Undo(FALSE) /\ Fault

\* reloadNetworkctlForRoute.
Reloaded == [host EXCEPT !.loaded = host.dropin]

Reload ==
    /\ pc = "reload"
    /\ Exec(Reloaded, Goto("flag"), Undo(FALSE))

\* setVersionedFlag.
Flag ==
    /\ pc = "flag"
    /\ Exec([host EXCEPT !.flag = TRUE], Return("changed"), Undo(TRUE))

-----------------------------------------------------------------------------
(* Rollback                                                                *)

\* rollbackRouteDropin, for the drop-in and for the legacy file.
UndoDropin ==
    /\ pc = "undo dropin"
    /\ Exec([host EXCEPT !.dropin = ctl.snap.dropin], Goto("undo legacy"), Return("failed"))

UndoLegacy ==
    /\ pc = "undo legacy"
    /\ Exec([host EXCEPT !.legacy = ctl.snap.legacy], Goto("undo live"), Return("failed"))

Claim(layers) == ctl' = [ctl EXCEPT !.result = "restored", !.claim = layers] /\ pc' = "done"

\* rollbackLiveRoute: `del` fails when the route is not there.
UndoLive ==
    /\ pc = "undo live"
    /\ LET next == IF ctl.reload THEN Goto("reload back") ELSE Claim({"live", "dropin"})
       IN IF ctl.snap.live = "none" /\ host.live # "ours" THEN Ask(Return("failed"), Return("failed"))
          ELSE Exec([host EXCEPT !.live = ctl.snap.live], next, Return("failed"))

ReloadBack ==
    /\ pc = "reload back"
    /\ Exec(Reloaded, Claim({"live", "dropin"}), Return("failed"))

-----------------------------------------------------------------------------
(* absent                                                                  *)

Done(changed, l) == ctl' = [ctl EXCEPT !.changed = @ \/ changed] /\ pc' = l

\* deleteLiveRouteIfPresent.
Delete ==
    /\ pc = "delete"
    /\ IF host.live # "ours" THEN Ask(Goto("remove"), Goto("remove"))
       ELSE Exec([host EXCEPT !.live = "none"], Done(TRUE, "remove"), Return("failed"))

\* Only a live route that this call deleted is put back.
FailedRemoval == IF ctl.changed /\ ctl.snap.live = "ours" /\ host.live = "none"
                 THEN Goto("undelete") ELSE Return("failed")

\* removeRouteDropinIfExpected: a foreign file stays.
RemoveDropin ==
    /\ pc = "remove"
    /\ IF host.dropin \in {"ours", "link"}
       THEN Exec([host EXCEPT !.dropin = "none"], Done(TRUE, "remove legacy"), FailedRemoval)
       ELSE Locally(Goto("remove legacy"))

\* removeLegacyRouteDropinIfExpected.
RemoveLegacy ==
    /\ pc = "remove legacy"
    /\ IF host.legacy \in {"ours", "link"}
       THEN Exec([host EXCEPT !.legacy = "none"], Done(TRUE, "reload absent"), FailedRemoval)
       ELSE Locally(Goto("reload absent"))

\* rollbackAbsentRouteOnPersistenceFailure says "live route was rolled back".
Undelete ==
    /\ pc = "undelete"
    /\ Exec([host EXCEPT !.live = ctl.snap.live], Claim({"live"}), Return("failed"))

ReloadAbsent ==
    /\ pc = "reload absent"
    /\ IF ~ctl.changed THEN Locally(Return("ok"))
       ELSE Exec(Reloaded, Return("changed"), Undo(FALSE))

-----------------------------------------------------------------------------

\* Somebody puts a symlink at the drop-in's path.
Plant ==
    /\ ~Ended /\ host.dropin # "link" /\ Fault
    /\ host' = [host EXCEPT !.dropin = "link"]
    /\ UNCHANGED <<ctl, pc>>

Section ==
    \/ Check \/ Snapshot \/ Prepare \/ Replace \/ Write \/ Reload \/ Flag
    \/ UndoDropin \/ UndoLegacy \/ UndoLive \/ ReloadBack
    \/ Delete \/ RemoveDropin \/ RemoveLegacy \/ Undelete \/ ReloadAbsent
Next == Section \/ Plant \/ Again(Fresh(ctl.run + 1))
Spec == Init /\ [][Next]_vars

-----------------------------------------------------------------------------
(* Properties                                                              *)

\* "changed" and check()'s "ok" hold in the table and on disk, and a route
\* that was set up in this run is loaded by networkd (checkRouteState).
ReportsAreTrue ==
    ctl.result \in {"checked", "changed", "ok"} =>
        \/ host.dropin = "link"
        \/ /\ InState(host)
           /\ ctl.result = "changed" => host.loaded = host.dropin

\* "route state was rolled back" is true of the table, the drop-in and the
\* legacy file, "live route was rolled back" of the table; a symlink counts as
\* no file, and one may be planted after the rollback (rollbackRouteMutationAfterFailure).
FailuresAreTrue ==
    LET file(f) == IF Regular(f) THEN f ELSE "none"
    IN /\ "live" \in ctl.claim => host.live = ctl.orig.live
       /\ "dropin" \in ctl.claim =>
             /\ host.dropin = "link" \/ host.dropin = file(ctl.orig.dropin)
             /\ file(host.legacy) = file(ctl.orig.legacy)

\* A run without faults ends with the route as wanted, unless a symlink takes
\* the drop-in's place.
CleanRunConverges == Ended /\ Clean => InState(host) \/ (Present /\ host.dropin = "link")
=============================================================================
