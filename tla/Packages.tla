------------------------------ MODULE Packages ------------------------------
(***************************************************************************)
(* package.installed, absent, update and upgrade, of two packages: `pin`,  *)
(* named with a version, and `any`, without one.  "rest" is what dpkg      *)
(* keeps of a removed package: its configuration and its version.          *)
(***************************************************************************)
EXTENDS Remote, TLC

States == {"none", "rest", "low", "want", "high"}

Fresh(run) == Call(run) @@ [pm |-> "none", checking |-> TRUE, down |-> FALSE]

TypeOK ==
    /\ pc \in {"check", "detect", "look", "split", "downgrade", "install", "verify", "scan", "remove", "flagged", "commands",
               "flag", "done"}
    /\ {host.pin, host.any} \subseteq States /\ host.pm \in {"none", "apt", "dnf"} /\ host.flag \in BOOLEAN
    /\ host.dpkg \in {"clean", "half", "upgraded"} /\ ctl.pm \in {"none", "apt", "dnf"} /\ ctl.result \in Results
    /\ faults \in 0..MaxFaults

Installed(state) == state \notin {"none", "rest"}

Base == [pm |-> "apt", pin |-> "none", any |-> "none", purge |-> FALSE, flag |-> FALSE, dpkg |-> "clean"]

\* apk behaves like apt without remnants, yum like dnf.
Init ==
    /\ \/ \E kind \in {"installed", "absent"}, pm \in {"none", "apt", "dnf"}, pin \in States,
              any \in {"none", "rest", "want"}, purge \in BOOLEAN :
             /\ (pm # "apt" => pin # "rest" /\ any # "rest") /\ (kind = "installed" => ~purge)
             /\ host = [kind |-> kind, pm |-> pm, pin |-> pin, any |-> any, purge |-> purge] @@ Base
       \/ \E kind \in {"update", "upgrade"}, pm \in {"none", "apt", "dnf"}, dpkg \in {"clean", "half"} :
             host = [kind |-> kind, pm |-> pm, dpkg |-> dpkg] @@ Base
    /\ faults = 0 /\ pc = "check" /\ ctl = Fresh(1)

Is(kind) == host.kind = kind
Flagged == Is("update") \/ Is("upgrade")

\* isPackageSatisfied: `any` by dpkg's status or rpm -q, `pin` by the version
\* the database prints (getInstalledVersion, versionsEqual).
Satisfied(h) == h.pin \in {"want", "rest"} /\ Installed(h.any)

\* hasAnyInstalledPackage; with purge, hasAnyDpkgRemnant.
Present(h) ==
    IF h.purge /\ h.pm = "apt" THEN h.pin # "none" \/ h.any # "none" ELSE Installed(h.pin) \/ Installed(h.any)

\* A query that fails is no proof of absence only where the caller asks
\* whether anything is left to purge.
Blind == IF Is("absent") /\ ~(host.purge /\ ctl.pm = "apt") THEN "absent" ELSE "present"

Check ==
    /\ pc = "check"
    /\ IF Flagged THEN Ask(IF host.flag THEN Return("checked") ELSE Goto("flagged"), Goto("flagged"))
       ELSE Locally(Goto("detect"))

\* detectPackageManager: one probe after the other, one that fails passes for
\* no, and only a result is kept for the next call on this connection.
Detect ==
    /\ pc = "detect"
    /\ LET found(pm) ==
               CASE pm # "none" -> ctl' = [ctl EXCEPT !.pm = pm] /\ pc' = IF Flagged THEN "commands" ELSE "look"
                 [] ctl.checking -> ctl' = [ctl EXCEPT !.checking = FALSE] /\ pc' = "detect"
                 [] OTHER -> Return("failed")
       IN IF ctl.pm # "none" THEN Locally(found(ctl.pm)) ELSE Ask(found(host.pm), found("none"))

\* The query of check(), and the same again in apply().
Look ==
    /\ pc = "look"
    /\ LET done == IF ctl.checking THEN Return("checked") ELSE Return("ok")
           go == IF ctl.checking THEN ctl' = [ctl EXCEPT !.checking = FALSE] /\ pc' = "look"
                 ELSE Goto(IF Is("installed") THEN "split" ELSE "remove")
           blind == CASE Blind = "absent" -> done
                      [] Is("absent") /\ ~ctl.checking -> Return("failed")
                      [] OTHER -> go
           fits == IF Is("installed") THEN Satisfied(host) ELSE ~Present(host)
       IN Ask(IF fits THEN done ELSE go, blind)

-----------------------------------------------------------------------------
(* runVersionedInstall                                                     *)

\* collectDowngradeTokens; without an answer the package counts as not higher.
Split ==
    /\ pc = "split"
    /\ IF ctl.pm = "apt" THEN Locally(Goto("install"))
       ELSE Ask(Goto(IF host.pin = "high" THEN "downgrade" ELSE "install"), Goto("install"))

Downgrade ==
    /\ pc = "downgrade"
    /\ Exec([host EXCEPT !.pin = "want"], ctl' = [ctl EXCEPT !.down = TRUE] /\ pc' = "install", Return("failed"))

\* apt takes a lower version (--allow-downgrades), dnf leaves a higher one
\* alone and says so with success.
Install ==
    /\ pc = "install"
    /\ LET pin == IF ctl.down \/ (ctl.pm = "dnf" /\ host.pin = "high") THEN host.pin ELSE "want"
           any == IF Installed(host.any) THEN host.any ELSE "want"
       IN \/ Exec([host EXCEPT !.pin = pin, !.any = any], Goto("verify"), Return("failed"))
          \/ host' = [host EXCEPT !.pin = pin] /\ Return("failed") /\ Fault

\* collectStillMissingPackages.
Verify ==
    /\ pc = "verify"
    /\ Ask(IF Satisfied(host) THEN Return("changed") ELSE Return("failed"), Return("failed"))

-----------------------------------------------------------------------------
(* removePackages and purgeAptPackages                                     *)

Remove ==
    /\ pc = "remove"
    /\ LET left(state) == CASE host.purge /\ ctl.pm = "apt" -> "none"
                            [] ctl.pm = "apt" /\ Installed(state) -> "rest"
                            [] ctl.pm = "apt" -> state
                            [] OTHER -> "none"
       IN \/ Exec([host EXCEPT !.pin = left(@), !.any = left(@)], Return("changed"), Return("failed"))
          \/ host' = [host EXCEPT !.pin = left(@)] /\ Return("failed") /\ Fault

-----------------------------------------------------------------------------
(* update and upgrade                                                      *)

\* hasFlag, before anything is detected.
HasFlag ==
    /\ pc = "flagged"
    /\ LET go == ctl' = [ctl EXCEPT !.checking = FALSE] /\ pc' = "detect"
       IN Ask(IF host.flag THEN Return("ok") ELSE go, go)

\* UPDATE_COMMANDS and UPGRADE_COMMANDS: apt repairs what was interrupted
\* before it upgrades; a refresh of the index needs no repair.
Commands ==
    /\ pc = "commands"
    /\ LET dpkg == IF Is("upgrade") THEN "upgraded" ELSE host.dpkg
       IN \/ Exec([host EXCEPT !.dpkg = dpkg], Goto("flag"), Return("failed"))
          \/ Is("upgrade") /\ host' = [host EXCEPT !.dpkg = "half"] /\ Return("failed") /\ Fault

SetFlag ==
    /\ pc = "flag"
    /\ Exec([host EXCEPT !.flag = TRUE], Return("changed"), Return("failed"))

Section ==
    \/ Check \/ Detect \/ Look \/ Split \/ Downgrade \/ Install \/ Verify \/ Remove \/ HasFlag \/ Commands \/ SetFlag
Next == Section \/ Again(Fresh(ctl.run + 1))
Spec == Init /\ [][Next]_vars

-----------------------------------------------------------------------------
(* Properties                                                              *)

\* Faults or not: what is reported installed has the version; what is reported
\* purged has left nothing.  A plain absent trusts its query (hasAnyDpkgRemnant).
ReportsAreTrue ==
    ctl.result \in {"checked", "ok", "changed"} =>
        CASE Is("installed") -> Satisfied(host)
          [] Is("absent") -> Present(host) => ~Clean /\ ~(host.purge /\ host.pm = "apt")
          [] Flagged -> host.flag /\ (Is("upgrade") => host.dpkg = "upgraded")

\* A run without faults ends with the packages as asked, where a package
\* manager is found (package.ts).
CleanRunConverges ==
    Ended /\ Clean =>
        CASE host.pm = "none" -> ctl.result = "failed" \/ host.flag
          [] Is("installed") -> Satisfied(host)
          [] Is("absent") -> ~Present(host)
          [] Flagged -> host.flag

\* A package that is reported installed is installed (getInstalledVersion).
PinnedIsInstalled == Is("installed") /\ Clean /\ ctl.result \in {"checked", "ok", "changed"} => Installed(host.pin)
=============================================================================
