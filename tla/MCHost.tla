-------------------------------- MODULE MCHost --------------------------------
(***************************************************************************)
(* Model checking of the modules that work on a host: the units are        *)
(* explored side by side, one per behaviour, each with the part of the     *)
(* host it touches.  A property holds of every unit that states it.        *)
(***************************************************************************)
EXTENDS Access

Config      == INSTANCE SshdConfig
Archive     == INSTANCE ArchiveExtract
Links       == INSTANCE ArchiveLinks
Listing     == INSTANCE ArchiveListing
Route       == INSTANCE NetRoute
Edits       == INSTANCE FileEdits
Meta        == INSTANCE FileMetadata
NetConf     == INSTANCE NetConfig
Sftp        == INSTANCE SftpTransfer
Files       == INSTANCE Upload
Dial        == INSTANCE Connect
Sink        == INSTANCE Secrets
Trust       == INSTANCE KnownHosts
Stack       == INSTANCE Compose
Fetch       == INSTANCE Download
Clone       == INSTANCE GitClone
Rsync       == INSTANCE RsyncTransfer
Apt         == INSTANCE Apt
Packages    == INSTANCE Packages
Release     == INSTANCE ReleaseUpgrade
Timer       == INSTANCE TimerUnit
Units       == INSTANCE Systemd
Crontab     == INSTANCE Cron
Mounts      == INSTANCE Mount
Swaps       == INSTANCE Swap
RemoteKnown == INSTANCE RemoteKnownHosts

\* The units whose failure could lock the operator out are Access; the
\* others stand beside them.
Init ==
    \/ AccessInit
    \/ unit = "config" /\ Config!Init
    \/ unit = "archive" /\ Archive!Init
    \/ unit = "links" /\ Links!Init
    \/ unit = "listing" /\ Listing!Init
    \/ unit = "route" /\ Route!Init
    \/ unit = "edits" /\ Edits!Init
    \/ unit = "metadata" /\ Meta!Init
    \/ unit = "netconf" /\ NetConf!Init
    \/ unit = "sftp" /\ Sftp!Init
    \/ unit = "upload" /\ Files!Init
    \/ unit = "connect" /\ Dial!Init
    \/ unit = "mask" /\ Sink!StreamInit
    \/ unit = "trust" /\ Trust!Init
    \/ unit = "secrets" /\ Sink!RunsInit
    \/ unit = "unitfile" /\ Stack!UnitInit
    \/ unit = "project" /\ Stack!ProjectInit
    \/ unit = "download" /\ Fetch!Init
    \/ unit = "clone" /\ Clone!Init
    \/ unit = "rsync" /\ Rsync!Init
    \/ unit = "apt" /\ Apt!Init
    \/ unit = "packages" /\ Packages!Init
    \/ unit = "release" /\ Release!Init
    \/ unit = "timer" /\ Timer!Init
    \/ unit = "systemd" /\ Units!Init
    \/ unit = "cron" /\ Crontab!Init
    \/ unit = "mount" /\ Mounts!ModuleInit
    \/ unit = "mount options" /\ Mounts!OptionsInit
    \/ unit = "swap" /\ Swaps!Init
    \/ unit = "known hosts" /\ RemoteKnown!Init

\* One step of a module's own code, for the modules with a loop, a rollback
\* or a wait whose liveness is cheap to explore.
Live == {"port", "config", "archive", "route", "metadata", "netconf", "sftp", "upload", "connect", "secrets", "unitfile", "download", "clone", "rsync", "apt", "packages", "systemd", "ufw", "mount", "certs", "swap", "authorized keys", "known hosts"}

Section ==
    \/ unit = "port" /\ Port!Section /\ UNCHANGED unit
    \/ unit = "config" /\ Config!Section /\ UNCHANGED unit
    \/ unit = "archive" /\ Archive!Section /\ UNCHANGED unit
    \/ unit = "route" /\ Route!Section /\ UNCHANGED unit
    \/ unit = "metadata" /\ Meta!Section /\ UNCHANGED unit
    \/ unit = "netconf" /\ NetConf!Section /\ UNCHANGED unit
    \/ unit = "sftp" /\ Sftp!Section /\ UNCHANGED unit
    \/ unit = "upload" /\ Files!Section /\ UNCHANGED unit
    \/ unit = "connect" /\ Dial!Section /\ UNCHANGED unit
    \/ unit = "secrets" /\ Sink!Section /\ UNCHANGED unit
    \/ unit = "unitfile" /\ Stack!Section /\ UNCHANGED unit
    \/ unit = "download" /\ Fetch!Section /\ UNCHANGED unit
    \/ unit = "clone" /\ Clone!Section /\ UNCHANGED unit
    \/ unit = "rsync" /\ Rsync!Section /\ UNCHANGED unit
    \/ unit = "apt" /\ Apt!Section /\ UNCHANGED unit
    \/ unit = "packages" /\ Packages!Section /\ UNCHANGED unit
    \/ unit = "systemd" /\ Units!Section /\ UNCHANGED unit
    \/ unit = "ufw" /\ Firewall!Section /\ UNCHANGED unit
    \/ unit = "mount" /\ Mounts!Section /\ UNCHANGED unit
    \/ unit = "certs" /\ CertFiles!Section /\ UNCHANGED unit
    \/ unit = "swap" /\ Swaps!Section /\ UNCHANGED unit
    \/ unit = "authorized keys" /\ AuthKeys!Section /\ UNCHANGED unit
    \/ unit = "known hosts" /\ RemoteKnown!Section /\ UNCHANGED unit

Next ==
    \/ AccessNext
    \/ unit = "config" /\ Config!Next /\ UNCHANGED unit
    \/ unit = "archive" /\ Archive!Next /\ UNCHANGED unit
    \/ unit = "links" /\ Links!Next /\ UNCHANGED unit
    \/ unit = "listing" /\ Listing!Next /\ UNCHANGED unit
    \/ unit = "route" /\ Route!Next /\ UNCHANGED unit
    \/ unit = "edits" /\ Edits!Next /\ UNCHANGED unit
    \/ unit = "metadata" /\ Meta!Next /\ UNCHANGED unit
    \/ unit = "netconf" /\ NetConf!Next /\ UNCHANGED unit
    \/ unit = "sftp" /\ Sftp!Next /\ UNCHANGED unit
    \/ unit = "upload" /\ Files!Next /\ UNCHANGED unit
    \/ unit = "connect" /\ Dial!Next /\ UNCHANGED unit
    \/ unit = "mask" /\ Sink!Next /\ UNCHANGED unit
    \/ unit = "trust" /\ Trust!Next /\ UNCHANGED unit
    \/ unit = "secrets" /\ Sink!Next /\ UNCHANGED unit
    \/ unit = "unitfile" /\ Stack!Next /\ UNCHANGED unit
    \/ unit = "project" /\ Stack!Next /\ UNCHANGED unit
    \/ unit = "download" /\ Fetch!Next /\ UNCHANGED unit
    \/ unit = "clone" /\ Clone!Next /\ UNCHANGED unit
    \/ unit = "rsync" /\ Rsync!Next /\ UNCHANGED unit
    \/ unit = "apt" /\ Apt!Next /\ UNCHANGED unit
    \/ unit = "packages" /\ Packages!Next /\ UNCHANGED unit
    \/ unit = "release" /\ Release!Next /\ UNCHANGED unit
    \/ unit = "timer" /\ Timer!Next /\ UNCHANGED unit
    \/ unit = "systemd" /\ Units!Next /\ UNCHANGED unit
    \/ unit = "cron" /\ Crontab!Next /\ UNCHANGED unit
    \/ unit = "mount" /\ Mounts!Next /\ UNCHANGED unit
    \/ unit = "mount options" /\ Mounts!Next /\ UNCHANGED unit
    \/ unit = "swap" /\ Swaps!Next /\ UNCHANGED unit
    \/ unit = "known hosts" /\ RemoteKnown!Next /\ UNCHANGED unit

Spec == Init /\ [][Next]_<<vars, unit>> /\ WF_<<vars, unit>>(Section)

-----------------------------------------------------------------------------

\* Every unit keeps to its own types.
TypeOK ==
    /\ unit = "port" => Port!TypeOK
    /\ unit = "config" => Config!TypeOK
    /\ unit = "archive" => Archive!TypeOK
    /\ unit = "links" => Links!TypeOK
    /\ unit = "listing" => Listing!TypeOK
    /\ unit = "route" => Route!TypeOK
    /\ unit = "edits" => Edits!TypeOK
    /\ unit = "metadata" => Meta!TypeOK
    /\ unit = "netconf" => NetConf!TypeOK
    /\ unit = "sftp" => Sftp!TypeOK
    /\ unit = "upload" => Files!TypeOK
    /\ unit = "connect" => Dial!TypeOK
    /\ unit = "mask" => Sink!TypeOK
    /\ unit = "trust" => Trust!TypeOK
    /\ unit = "secrets" => Sink!TypeOK
    /\ unit = "unitfile" => Stack!TypeOK
    /\ unit = "project" => Stack!TypeOK
    /\ unit = "download" => Fetch!TypeOK
    /\ unit = "clone" => Clone!TypeOK
    /\ unit = "rsync" => Rsync!TypeOK
    /\ unit = "apt" => Apt!TypeOK
    /\ unit = "packages" => Packages!TypeOK
    /\ unit = "release" => Release!TypeOK
    /\ unit = "timer" => Timer!TypeOK
    /\ unit = "systemd" => Units!TypeOK
    /\ unit = "cron" => Crontab!TypeOK
    /\ unit = "ufw" => Firewall!TypeOK
    /\ unit = "mount" => Mounts!TypeOK
    /\ unit = "mount options" => Mounts!TypeOK
    /\ unit = "certs" => CertFiles!TypeOK
    /\ unit = "swap" => Swaps!TypeOK
    /\ unit = "authorized keys" => AuthKeys!TypeOK
    /\ unit = "known hosts" => RemoteKnown!TypeOK

\* "changed", "ok" and the "ok" of check() are true of the host, not only
\* of the file the module looked at; where a failed probe counts as "no",
\* or a case is out of the module's reach, the unit says so.
ReportsAreTrue ==
    /\ unit = "port" => Port!ReportsAreTrue
    /\ unit = "config" => Config!ReportsAreTrue
    /\ unit = "archive" => Archive!ReportsAreTrue
    /\ unit = "links" => Links!ReportsAreTrue
    /\ unit = "listing" => Listing!ReportsAreTrue
    /\ unit = "route" => Route!ReportsAreTrue
    /\ unit = "edits" => Edits!ReportsAreTrue
    /\ unit = "metadata" => Meta!ReportsAreTrue
    /\ unit = "netconf" => NetConf!ReportsAreTrue
    /\ unit = "sftp" => Sftp!ReportsAreTrue
    /\ unit = "upload" => Files!ReportsAreTrue
    /\ unit = "connect" => Dial!ReportsAreTrue
    /\ unit = "mask" => Sink!ReportsAreTrue
    /\ unit = "trust" => Trust!ReportsAreTrue
    /\ unit = "secrets" => Sink!ReportsAreTrue
    /\ unit = "unitfile" => Stack!ReportsAreTrue
    /\ unit = "project" => Stack!ReportsAreTrue
    /\ unit = "download" => Fetch!ReportsAreTrue
    /\ unit = "clone" => Clone!ReportsAreTrue
    /\ unit = "rsync" => Rsync!ReportsAreTrue
    /\ unit = "apt" => Apt!ReportsAreTrue
    /\ unit = "packages" => Packages!ReportsAreTrue
    /\ unit = "release" => Release!ReportsAreTrue
    /\ unit = "timer" => Timer!ReportsAreTrue
    /\ unit = "systemd" => Units!ReportsAreTrue
    /\ unit = "cron" => Crontab!ReportsAreTrue
    /\ unit = "ufw" => Firewall!ReportsAreTrue
    /\ unit = "mount" => Mounts!ReportsAreTrue
    /\ unit = "mount options" => Mounts!ReportsAreTrue
    /\ unit = "certs" => CertFiles!ReportsAreTrue
    /\ unit = "swap" => Swaps!ReportsAreTrue
    /\ unit = "authorized keys" => AuthKeys!ReportsAreTrue
    /\ unit = "known hosts" => RemoteKnown!ReportsAreTrue

\* A failure that claims the previous state is back is true of every layer
\* it touched.
FailuresAreTrue ==
    /\ unit = "port" => Port!FailuresAreTrue
    /\ unit = "config" => Config!FailuresAreTrue
    /\ unit = "archive" => Archive!FailuresAreTrue
    /\ unit = "links" => Links!FailuresAreTrue
    /\ unit = "route" => Route!FailuresAreTrue
    /\ unit = "edits" => Edits!FailuresAreTrue
    /\ unit = "netconf" => NetConf!FailuresAreTrue
    /\ unit = "sftp" => Sftp!FailuresAreTrue
    /\ unit = "upload" => Files!FailuresAreTrue
    /\ unit = "mask" => Sink!FailuresAreTrue
    /\ unit = "secrets" => Sink!FailuresAreTrue
    /\ unit = "unitfile" => Stack!FailuresAreTrue
    /\ unit = "project" => Stack!FailuresAreTrue
    /\ unit = "download" => Fetch!FailuresAreTrue
    /\ unit = "apt" => Apt!FailuresAreTrue
    /\ unit = "release" => Release!FailuresAreTrue
    /\ unit = "timer" => Timer!FailuresAreTrue
    /\ unit = "systemd" => Units!FailuresAreTrue
    /\ unit = "mount" => Mounts!FailuresAreTrue
    /\ unit = "mount options" => Mounts!FailuresAreTrue
    /\ unit = "certs" => CertFiles!FailuresAreTrue
    /\ unit = "swap" => Swaps!FailuresAreTrue
    /\ unit = "known hosts" => RemoteKnown!FailuresAreTrue

\* Whatever an earlier, interrupted run left behind, a run without faults
\* ends in the desired state: no check() takes a half-applied state for the
\* whole.
CleanRunConverges ==
    /\ unit = "port" => Port!CleanRunConverges
    /\ unit = "config" => Config!CleanRunConverges
    /\ unit = "archive" => Archive!CleanRunConverges
    /\ unit = "listing" => Listing!CleanRunConverges
    /\ unit = "route" => Route!CleanRunConverges
    /\ unit = "edits" => Edits!CleanRunConverges
    /\ unit = "metadata" => Meta!CleanRunConverges
    /\ unit = "netconf" => NetConf!CleanRunConverges
    /\ unit = "sftp" => Sftp!CleanRunConverges
    /\ unit = "upload" => Files!CleanRunConverges
    /\ unit = "connect" => Dial!CleanRunConverges
    /\ unit = "trust" => Trust!CleanRunConverges
    /\ unit = "unitfile" => Stack!CleanRunConverges
    /\ unit = "project" => Stack!CleanRunConverges
    /\ unit = "download" => Fetch!CleanRunConverges
    /\ unit = "clone" => Clone!CleanRunConverges
    /\ unit = "rsync" => Rsync!CleanRunConverges
    /\ unit = "apt" => Apt!CleanRunConverges
    /\ unit = "packages" => Packages!CleanRunConverges
    /\ unit = "release" => Release!CleanRunConverges
    /\ unit = "timer" => Timer!CleanRunConverges
    /\ unit = "systemd" => Units!CleanRunConverges
    /\ unit = "cron" => Crontab!CleanRunConverges
    /\ unit = "ufw" => Firewall!CleanRunConverges
    /\ unit = "mount" => Mounts!CleanRunConverges
    /\ unit = "mount options" => Mounts!CleanRunConverges
    /\ unit = "certs" => CertFiles!CleanRunConverges
    /\ unit = "swap" => Swaps!CleanRunConverges
    /\ unit = "authorized keys" => AuthKeys!CleanRunConverges
    /\ unit = "known hosts" => RemoteKnown!CleanRunConverges

\* Temporary files, staging directories and locks outlive a call only if
\* its connection died.
NothingIsLeft ==
    /\ unit = "config" => Config!NothingIsLeft
    /\ unit = "archive" => Archive!NothingIsLeft
    /\ unit = "edits" => Edits!NothingIsLeft
    /\ unit = "sftp" => Sftp!NothingIsLeft
    /\ unit = "upload" => Files!NothingIsLeft
    /\ unit = "connect" => Dial!NothingIsLeft
    /\ unit = "mask" => Sink!NothingIsLeft
    /\ unit = "secrets" => Sink!NothingIsLeft
    /\ unit = "unitfile" => Stack!NothingIsLeft
    /\ unit = "project" => Stack!NothingIsLeft
    /\ unit = "download" => Fetch!NothingIsLeft
    /\ unit = "clone" => Clone!NothingIsLeft
    /\ unit = "rsync" => Rsync!NothingIsLeft
    /\ unit = "apt" => Apt!NothingIsLeft
    /\ unit = "release" => Release!NothingIsLeft
    /\ unit = "certs" => CertFiles!NothingIsLeft
    /\ unit = "swap" => Swaps!NothingIsLeft
    /\ unit = "authorized keys" => AuthKeys!NothingIsLeft
    /\ unit = "known hosts" => RemoteKnown!NothingIsLeft

\* What others wrote between two commands of a module is not overwritten by
\* its success, except in the windows between a last look and the write
\* that a unit names (`late`).
EditsSurvive ==
    /\ unit = "config" => Config!EditsSurvive
    /\ unit = "edits" => Edits!EditsSurvive
    /\ unit = "metadata" => Meta!EditsSurvive
    /\ unit = "netconf" => NetConf!EditsSurvive
    /\ unit = "trust" => Trust!EditsSurvive
    /\ unit = "download" => Fetch!EditsSurvive
    /\ unit = "clone" => Clone!EditsSurvive
    /\ unit = "apt" => Apt!EditsSurvive
    /\ unit = "release" => Release!EditsSurvive
    /\ unit = "systemd" => Units!EditsSurvive
    /\ unit = "cron" => Crontab!EditsSurvive
    /\ unit = "mount" => Mounts!EditsSurvive
    /\ unit = "mount options" => Mounts!EditsSurvive
    /\ unit = "certs" => CertFiles!EditsSurvive
    /\ unit = "swap" => Swaps!EditsSurvive
    /\ unit = "known hosts" => RemoteKnown!EditsSurvive

\* Every call of check() and apply() comes to an end: no module waits for
\* something nobody does, and no rollback starts over.
RunsEnd == []<>(IF unit \in Live THEN Ended ELSE TRUE)
=============================================================================
