--------------------------------- MODULE Apt ----------------------------------
(***************************************************************************)
(* apt.repository (a list file or a PPA), apt.debconf and apt.distUpgrade: *)
(* what is on disk, what apt has read of it, and the versioned flag that   *)
(* says that the second followed the first.                                *)
(*                                                                         *)
(* apt.key: a key is downloaded into a temporary file, its fingerprint is  *)
(* compared, and it is written as a keyring beside the old one and renamed *)
(* over it.  gpg gets a directory of its own each time.                    *)
(***************************************************************************)
EXTENDS Remote, TLC

Files == {"none", "ours", "old", "edited", "link"}
Regular(file) == file \in {"ours", "old", "edited"}

Keys == {"none", "empty", "ours", "other", "two"}

Is(kind) == host.kind = kind

Fresh(run) ==
    Call(run) @@ IF Is("key") THEN [checking |-> TRUE, orig |-> host.ring]
                 ELSE [snap |-> "none", inode |-> 0, orig |-> host.file]

TypeOK ==
    /\ pc \in {"check", "link", "snapshot", "current", "write", "update", "undo", "undo write", "update back", "flag",
               "add", "select", "configure", "dist update", "upgrade", "inspect", "drop home", "directory", "mkdir",
               "directory again", "temp", "curl", "show", "key link", "home", "stage directory", "stage", "dearmor", "chmod",
               "publish", "clean", "drop temp", "done"}
    /\ ctl.result \in Results /\ faults \in 0..MaxFaults
    /\ IF Is("key")
       THEN /\ host.dir \in {"none", "dir", "link"} /\ host.ring \in Keys \cup {"link"} /\ host.served \in Keys
            /\ {host.temp, host.stage} \subseteq Keys /\ {host.home, host.readable, host.foreign} \subseteq BOOLEAN
       ELSE /\ host.file \in Files /\ host.index \in Files /\ host.flag \in BOOLEAN /\ host.inode \in 0..1
            /\ host.db \in {"none", "old", "ours"} /\ host.dpkg \in {"clean", "half", "upgraded"} /\ ctl.snap \in Files

Base == [file |-> "none", index |-> "none", mode |-> TRUE, inode |-> 0, flag |-> FALSE, good |-> TRUE, edited |-> FALSE,
         installed |-> FALSE, password |-> FALSE, db |-> "none", purged |-> FALSE, dpkg |-> "clean"]

\* `good`: apt-get update accepts our source; `password`: a question whose
\* value debconf-show leaves out.
SourcesInit ==
    \/ \E file \in Files \ {"edited"}, mode, good, flag \in BOOLEAN :
          /\ flag => file = "ours"
          /\ host = [kind |-> "list", file |-> file, index |-> file, mode |-> mode, good |-> good, flag |-> flag] @@ Base
    \/ \E file \in {"none", "ours"} : host = [kind |-> "ppa", file |-> file, index |-> file] @@ Base
    \/ \E installed, password \in BOOLEAN, db \in {"none", "old", "ours"} :
          host = [kind |-> "debconf", installed |-> installed, password |-> password, db |-> db] @@ Base
    \/ \E dpkg \in {"clean", "half"} : host = [kind |-> "dist", dpkg |-> dpkg] @@ Base

\* `served` is what the URL sends: our key, another one, or two primary keys.
KeyInit ==
    \E dir \in {"none", "dir", "link"}, ring \in {"none", "ours", "other", "link"}, served \in {"ours", "other", "two"} :
       /\ dir = "none" => ring = "none"
       /\ host = [kind |-> "key", dir |-> dir, ring |-> ring, served |-> served, readable |-> TRUE, temp |-> "none",
                  stage |-> "none", home |-> FALSE, foreign |-> FALSE]

Init ==
    /\ SourcesInit \/ KeyInit
    /\ faults = 0 /\ pc = "check" /\ ctl = Fresh(1)

\* extractSinglePrimaryFingerprint: the expected one and no second.
Matches(key) == key = "ours"

\* isAptPackageInstalled: what debconf shows of an installed package, the flag
\* for one whose selections wait for its installation.
SelectionsMatch(h) == IF h.installed THEN h.db = "ours" /\ ~h.password ELSE h.flag

InState(h) ==
    CASE h.kind = "list" -> h.file = "ours" /\ h.mode /\ h.flag
      [] h.kind = "ppa" -> h.file = "ours"
      [] h.kind = "debconf" -> SelectionsMatch(h)
      [] h.kind = "dist" -> h.flag
      [] h.kind = "key" -> Matches(h.ring)

Check ==
    /\ pc = "check" /\ ~Is("key")
    /\ LET apply == Goto(CASE Is("list") -> "link" [] Is("ppa") -> "add" [] Is("debconf") -> "select" [] OTHER -> "configure")
       IN Ask(IF InState(host) THEN Return("checked") ELSE apply, apply)

-----------------------------------------------------------------------------
(* repository: a list file                                                 *)

\* isSymlink: a test that fails finds none.
Link ==
    /\ pc = "link"
    /\ Ask(IF host.file = "link" THEN Return("refused") ELSE Goto("snapshot"), Goto("snapshot"))

\* snapshotAptRepository: the content and which inode it is.
Snapshot ==
    /\ pc = "snapshot"
    /\ Must(host, /\ ctl' = [ctl EXCEPT !.snap = IF Regular(host.file) THEN host.file ELSE "none", !.inode = host.inode,
                                         !.orig = host.file]
                  /\ pc' = "current")

\* ensureAptRepositorySnapshotStillCurrent.
Current ==
    /\ pc = "current"
    /\ LET file == IF host.file = "link" THEN "link" ELSE host.file
       IN Ask(IF file = ctl.snap /\ (file = "none" \/ host.inode = ctl.inode) THEN Goto("write") ELSE Return("busy"),
              Return("busy"))

Write ==
    /\ pc = "write"
    /\ Must([host EXCEPT !.file = "ours", !.mode = TRUE, !.edited = FALSE], Goto("update"))

Updated == [host EXCEPT !.index = host.file]

\* apt-get update.
Update ==
    /\ pc = "update"
    /\ IF host.file = "ours" /\ ~host.good THEN Ask(Goto("undo"), Goto("undo"))
       ELSE Exec(Updated, Goto("flag"), Goto("undo"))

\* detectAptRepositoryDriftBeforeRollback, where there is something to restore.
Undo ==
    /\ pc = "undo"
    /\ IF ctl.snap = "none" THEN Locally(Goto("undo write"))
       ELSE Ask(IF host.file = "ours" THEN Goto("undo write") ELSE Return("diverged"), Return("diverged"))

\* restoreAptRepository.
UndoWrite ==
    /\ pc = "undo write"
    /\ Exec([host EXCEPT !.file = ctl.snap, !.mode = TRUE, !.edited = FALSE], Goto("update back"), Return("failed"))

\* rollbackRepositoryAfterUpdateFailure reads the restored sources again.
UpdateBack ==
    /\ pc = "update back"
    /\ Exec(Updated, Return("restored"), Return("failed"))

\* setVersionedFlag: the flags of older contents go.
Flag ==
    /\ pc = "flag"
    /\ Exec([host EXCEPT !.flag = TRUE], Return("changed"), Return("failed"))

\* buildPpaRepository: add-apt-repository reads the sources itself.
AddPpa ==
    /\ pc = "add"
    /\ Exec([host EXCEPT !.file = "ours", !.index = "ours"], Return("changed"), Return("failed"))

-----------------------------------------------------------------------------
(* debconf and distUpgrade                                                 *)

\* buildDebconfSelectionsText and debconf-set-selections.
Select ==
    /\ pc = "select"
    /\ Exec([host EXCEPT !.db = "ours"], Goto("flag"), Return("failed"))

\* An interrupted upgrade is repaired before the next one.
Configure ==
    /\ pc = "configure"
    /\ Exec([host EXCEPT !.dpkg = "clean"], Goto("dist update"), Return("failed"))

DistUpdate ==
    /\ pc = "dist update"
    /\ Exec(host, Goto("upgrade"), Return("failed"))

DistUpgrade ==
    /\ pc = "upgrade"
    /\ \/ Exec([host EXCEPT !.dpkg = "upgraded"], Goto("flag"), Return("failed"))
       \/ host' = [host EXCEPT !.dpkg = "half"] /\ Return("failed") /\ Fault

-----------------------------------------------------------------------------
(* key                                                                     *)

\* A finally follows: the outcome waits in ctl.result.
Leave(r, l) == ctl' = [ctl EXCEPT !.result = r] /\ pc' = l

Try(work, ok, bad, l) ==
    \/ Exec(work, ok, bad)
    \/ host' \in {host, work} /\ Leave("raised", l) /\ Fault

\* check(): a regular file, and not a link.
CheckKey ==
    /\ pc = "check" /\ Is("key")
    /\ Ask(Goto(IF host.ring \in Keys \ {"none"} THEN "inspect" ELSE "directory"), Goto("directory"))

-----------------------------------------------------------------------------
(* inspectOpenPgpFingerprint, of the keyring and of the download           *)

\* allocateGpgHomedir.
Inspect ==
    /\ pc \in {"inspect", "show"}
    /\ ~host.home
    /\ IF pc = "inspect" THEN Must([host EXCEPT !.home = TRUE], UNCHANGED <<ctl, pc>>)
       ELSE Try([host EXCEPT !.home = TRUE], UNCHANGED <<ctl, pc>>, Leave("failed", "drop temp"), "drop temp")

\* verifyAptKeyFingerprint.
Show ==
    /\ pc \in {"inspect", "show"} /\ host.home
    /\ LET good == Matches(IF pc = "inspect" THEN host.ring ELSE host.temp)
           bad == Leave("failed", "drop home")
       IN Try(host, IF good THEN Leave(IF pc = "inspect" THEN "checked" ELSE "", "drop home") ELSE bad, bad, "drop home")

\* The finally of every use of a gpg directory.
DropHome ==
    /\ pc = "drop home"
    /\ Attempt([host EXCEPT !.home = FALSE],
               IF ctl.checking
               THEN IF ctl.result \in {"checked", "raised"} THEN Return(ctl.result) ELSE Leave("", "directory")
               ELSE IF ctl.result = "" THEN Goto("key link") ELSE Goto("drop temp"))

-----------------------------------------------------------------------------

\* ensureAptKeyringDirectorySymlinkFree: realpath -m takes a missing path.
Directory ==
    /\ pc = "directory"
    /\ Ask(IF host.dir = "link" THEN Return("refused")
           ELSE ctl' = [ctl EXCEPT !.checking = FALSE] /\ pc' = "mkdir",
           Return("failed"))

Mkdir ==
    /\ pc = "mkdir"
    /\ Exec([host EXCEPT !.dir = IF @ = "none" THEN "dir" ELSE @], Goto("directory again"), Return("failed"))

DirectoryAgain ==
    /\ pc = "directory again"
    /\ Ask(IF host.dir = "link" THEN Return("refused") ELSE Goto("temp"), Return("failed"))

\* createValidatedAptKeyTemporaryPath.
Temp ==
    /\ pc = "temp"
    /\ Must([host EXCEPT !.temp = "empty"], Goto("curl"))

\* downloadVerifyAndImportAptKey.
Curl ==
    /\ pc = "curl"
    /\ Try([host EXCEPT !.temp = host.served], Goto("show"), Leave("failed", "drop temp"), "drop temp")

KeyLink ==
    /\ pc = "key link"
    /\ Try(host, IF host.ring = "link" THEN Leave("refused", "drop temp") ELSE Goto("home"), Goto("home"), "drop temp")

-----------------------------------------------------------------------------
(* dearmorAptKeyToKeyring                                                  *)

Home ==
    /\ pc = "home"
    /\ Try([host EXCEPT !.home = TRUE], Goto("stage directory"), Leave("failed", "drop temp"), "drop temp")

StageDirectory ==
    /\ pc = "stage directory"
    /\ Try(host, IF host.dir = "link" THEN Leave("refused", "drop home") ELSE Goto("stage"),
           Leave("failed", "drop home"), "drop home")

\* allocateAptKeyStagingPath: nothing is cleaned up when the answer is lost.
Stage ==
    /\ pc = "stage"
    /\ Try([host EXCEPT !.stage = "empty"], Goto("dearmor"), Leave("raised", "drop home"), "drop home")

\* buildDearmorCommand.
Dearmor ==
    /\ pc = "dearmor"
    /\ Try([host EXCEPT !.stage = host.temp], Goto("chmod"), Leave("failed", "clean"), "clean")

Chmod ==
    /\ pc = "chmod"
    /\ Try(host, Goto("publish"), Leave("failed", "clean"), "clean")

\* publishAptKeyStagingAtomically: one command looks, renames, and removes the
\* staging file when it does not.
Publish ==
    /\ pc = "publish"
    /\ LET dropped == [host EXCEPT !.stage = "none"]
           refused == host.dir = "link" \/ host.ring = "link"
           work == IF refused THEN dropped
                   ELSE [host EXCEPT !.ring = host.stage, !.readable = TRUE, !.stage = "none"]
       IN \/ host' = work /\ Leave(IF refused THEN "refused" ELSE "changed", "drop home") /\ UNCHANGED faults
          \/ host' = dropped /\ Leave("failed", "drop home") /\ Fault
          \/ host' \in {host, work} /\ Leave("raised", "clean") /\ Fault

\* cleanupAptKeyStagingPath.
DropStage ==
    /\ pc = "clean"
    /\ Attempt([host EXCEPT !.stage = "none"], Goto("drop home"))

\* applyAptKey's finally.
DropTemp ==
    /\ pc = "drop temp"
    /\ Attempt([host EXCEPT !.temp = "none"], Return(ctl.result))

-----------------------------------------------------------------------------
(* Others                                                                  *)

\* Another tool writes the list: other content, or the same in a new file.
Edit ==
    /\ Is("list") /\ pc \in {"snapshot", "current", "write", "undo", "undo write"} /\ host.file # "link" /\ Fault
    /\ \/ host' = [host EXCEPT !.file = "edited", !.edited = TRUE]
       \/ host' = [host EXCEPT !.inode = 1] /\ host.inode = 0
    /\ UNCHANGED <<ctl, pc>>

\* A package is installed, or purged with its answers; no flag follows.
Purge ==
    /\ Is("debconf") /\ Ended /\ ctl.run < MaxRuns /\ Fault
    /\ host' = [host EXCEPT !.installed = ~@, !.db = IF host.installed THEN "none" ELSE @, !.purged = @ \/ host.installed]
    /\ UNCHANGED pc /\ ctl' = [ctl EXCEPT !.result = ""]

\* A link appears where the keyring or its directory was.
PlantLink ==
    /\ pc \in {"mkdir", "directory again", "curl", "key link", "stage", "publish"} /\ ~host.foreign /\ Fault
    /\ \/ host' = [host EXCEPT !.ring = "link", !.foreign = TRUE]
       \/ host' = [host EXCEPT !.dir = "link", !.foreign = TRUE]
    /\ UNCHANGED <<ctl, pc>>

Section ==
    \/ Check \/ Link \/ Snapshot \/ Current \/ Write \/ Update \/ Undo \/ UndoWrite \/ UpdateBack \/ Flag \/ AddPpa
    \/ Select \/ Configure \/ DistUpdate \/ DistUpgrade
    \/ CheckKey \/ Inspect \/ Show \/ DropHome \/ Directory \/ Mkdir \/ DirectoryAgain \/ Temp \/ Curl \/ KeyLink
    \/ Home \/ StageDirectory \/ Stage \/ Dearmor \/ Chmod \/ Publish \/ DropStage \/ DropTemp
Next == Section \/ Edit \/ Purge \/ PlantLink \/ Again(Fresh(ctl.run + 1))
Spec == Init /\ [][Next]_vars

-----------------------------------------------------------------------------
(* Properties                                                              *)

\* apt has read what the list says; the selections are in the database, also
\* when they wait for the package, unless it was purged since (apt.repository,
\* apt.debconf); an upgrade was finished.  Only a key with the one expected
\* fingerprint is ever reported, and apt can read it
\* (downloadVerifyAndImportAptKey).
ReportsAreTrue ==
    ctl.result \in {"checked", "changed"} =>
        CASE Is("list") \/ Is("ppa") -> host.file = "ours" /\ host.index = "ours"
          [] Is("debconf") -> host.db = "ours" \/ host.purged
          [] Is("dist") -> host.dpkg = "upgraded" /\ host.flag
          [] Is("key") -> Ended /\ ~host.foreign => Matches(host.ring) /\ host.readable

\* After a rollback the list and what apt has read are the old ones
\* (rollbackRepositoryAfterUpdateFailure).  A call that failed or refused left
\* the keyring as it was: never another key, never half of one
\* (dearmorAndPublishKeyring).
FailuresAreTrue ==
    /\ ctl.result = "restored" => host.file = ctl.snap /\ host.index = ctl.snap
    /\ Is("key") /\ ctl.result \in {"failed", "refused"} =>
          host.ring = IF host.foreign /\ host.ring = "link" THEN "link" ELSE ctl.orig

\* A list that changed after the snapshot is neither overwritten nor rolled
\* back; only where there was none before is no look taken (restoreAptRepository).
\* What was turned into a link meanwhile is not replaced (publishAptKeyStagingAtomically).
EditsSurvive ==
    /\ ctl.result \in {"busy", "diverged"} /\ host.edited => host.file = "edited"
    /\ Is("key") /\ host.foreign => "link" \in {host.ring, host.dir}

\* The key, gpg's directory and the staged keyring.
NothingIsLeft == Is("key") /\ Ended /\ (host.temp # "none" \/ host.home \/ host.stage # "none") => faults > 0

\* A run without faults ends in the desired state, unless a link is refused,
\* the source is bad, or debconf was asked for a password, which nobody can
\* read back (apt.ts); or the server serves another key or a link is in the
\* way (aptKeyHelpers.ts).
CleanRunConverges ==
    Ended /\ Clean =>
        \/ InState(host)
        \/ Is("list") /\ (host.file = "link" \/ ~host.good)
        \/ Is("debconf") /\ (host.password \/ ctl.result = "")
        \/ Is("key") /\ (host.served # "ours" \/ "link" \in {host.dir, host.ring})
=============================================================================
