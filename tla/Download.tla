------------------------------ MODULE Download ------------------------------
(***************************************************************************)
(* download.url, download.github and download.large: curl into a temporary *)
(* file beside the destination, the checksum and the attributes are put on *)
(* it, then it is renamed.  Without a checksum a marker beside the         *)
(* destination records what was downloaded; large downloads have a flag.   *)
(***************************************************************************)
EXTENDS Remote, TLC

\* What the destination may hold; "new" has the checksum that is asked for.
Contents == {"none", "new", "old", "bad", "link", "dir"}
Markers == {"none", "new", "old", "bad", "link"}
Regular(h) == h.dest \in {"new", "old", "bad"}

Fresh(run) == Call(run) @@ [orig |-> host.dest, healed |-> FALSE]

TypeOK ==
    /\ pc \in {"check", "match", "match links", "heal mode", "heal owner", "links", "directory", "temp", "curl",
               "verify", "chmod", "chown", "finalize", "move", "drop", "flag", "marker", "done"}
    /\ host.dest \in Contents /\ host.marker \in Markers /\ host.temp \in Contents \union {"empty"}
    /\ {host.mode, host.owner, host.flag, host.pinned, host.large, host.force} \subseteq BOOLEAN
    /\ ctl.result \in Results /\ faults \in 0..MaxFaults

\* `pinned`: a checksum was given; without one allowUnverifiedDownload is
\* (validateIntegrityConfiguration).  `served` is what the URL answers.
Init ==
    /\ \E dest \in {"none", "new", "old", "link", "dir"}, marker \in {"none", "new", "old", "link"},
          pinned, large, flag, force, mode, owner \in BOOLEAN, served \in {"new", "bad"} :
          /\ (pinned => marker = "none") /\ (force => ~large) /\ (flag => large)
          /\ mode = owner \/ (pinned /\ dest = "new")
          /\ dest \in {"new", "old"} \/ (mode /\ marker = "none")
          /\ served = "bad" => pinned
          /\ host = [dest |-> dest, marker |-> marker, pinned |-> pinned, large |-> large, flag |-> flag,
                     force |-> force, mode |-> mode, owner |-> owner, served |-> served, temp |-> "none",
                     was |-> dest]
    /\ faults = 0 /\ pc = "check" /\ ctl = Fresh(1)

Attributes(h) == h.mode /\ h.owner
Unverified(h) == ~h.pinned

\* checkLargeDownload, checkDownload and compareUnverifiedHashMarker.
InState(h) ==
    /\ h.large => h.flag
    /\ Regular(h) /\ Attributes(h)
    /\ IF Unverified(h) THEN h.marker = h.dest ELSE h.dest = "new"

Settled(h) == InState(h) /\ ~h.force

\* Large downloads look again when they hold the flag's lock.
Check ==
    /\ pc = "check"
    /\ Ask(IF Settled(host) THEN Return("checked") ELSE Goto("match"), Goto("match"))

\* destinationContentMatchesSha256: the attributes alone may be wrong.
Match ==
    /\ pc = "match"
    /\ Ask(IF host.pinned /\ ~host.force /\ host.dest = "new" THEN Goto("match links") ELSE Goto("links"),
           Goto("links"))

\* ensureDownloadDestinationNotSymlinked; a test that fails finds no link.
NoLink(next) == Ask(IF host.dest = "link" THEN Return("refused") ELSE next, next)

\* Large downloads set their flag whatever performDownload did, short of a failure.
Result(r) == IF host.large THEN ctl' = [ctl EXCEPT !.result = r] /\ pc' = "flag" ELSE Return(r)

MatchLinks ==
    /\ pc = "match links"
    /\ NoLink(Goto("heal mode"))

-----------------------------------------------------------------------------
(* applyDriftedFileAttributes                                              *)

HealMode ==
    /\ pc = "heal mode"
    /\ IF host.mode THEN Ask(Goto("heal owner"), Goto("heal owner"))
       ELSE IF host.dest = "link" THEN Locally(Return("failed"))
       ELSE Exec([host EXCEPT !.mode = TRUE], ctl' = [ctl EXCEPT !.healed = TRUE] /\ pc' = "heal owner",
                 Return("failed"))

HealOwner ==
    /\ pc = "heal owner"
    /\ IF host.owner THEN Locally(Result(IF ctl.healed THEN "changed" ELSE "ok"))
       ELSE IF host.dest = "link" THEN Locally(Return("failed"))
       ELSE Exec([host EXCEPT !.owner = TRUE], Result("changed"), Return("failed"))

-----------------------------------------------------------------------------
(* runCurlDownload                                                         *)

Links ==
    /\ pc = "links"
    /\ NoLink(Goto("directory"))

\* createDownloadTargetDirectory makes the missing ancestors one by one.
Directory ==
    /\ pc = "directory"
    /\ Ask(Goto("temp"), Return("failed"))

\* allocateTemporaryDownloadParameters.
Allocate ==
    /\ pc = "temp"
    /\ Must([host EXCEPT !.temp = "empty"], Goto("curl"))

Leave(r) == ctl' = [ctl EXCEPT !.result = r] /\ pc' = "drop"

\* From here on a finally removes the temporary file, after an exception too.
Try(work, ok, bad) ==
    \/ Exec(work, ok, bad)
    \/ host' \in {host, work} /\ Leave("raised") /\ Fault

\* curl -f: an answer that is an error is no download.
Served(h) == [h EXCEPT !.temp = h.served]

\* executeCurlDownload.
Curl ==
    /\ pc = "curl"
    /\ Try(Served(host), Goto("verify"), Leave("failed"))

\* verifyChecksum, of the temporary file.
Verify ==
    /\ pc = "verify"
    /\ IF Unverified(host) THEN Locally(Goto("chmod"))
       ELSE Try(host, IF host.temp = "new" THEN Goto("chmod") ELSE Leave("refused"), Leave("refused"))

\* applyFileAttributes, of the temporary file.
Chmod ==
    /\ pc = "chmod"
    /\ Try(host, Goto("chown"), Leave("failed"))

Chown ==
    /\ pc = "chown"
    /\ Try(host, Goto("finalize"), Leave("failed"))

\* finalizeDownloadedFile looks for a directory and for links, then a command
\* of its own looks again and renames.
Finalize ==
    /\ pc = "finalize"
    /\ Try(host, IF host.dest \in {"dir", "link"} THEN Leave("failed") ELSE Goto("move"), Goto("move"))

Move ==
    /\ pc = "move"
    /\ IF host.dest \in {"dir", "link"} THEN Locally(Leave("failed"))
       ELSE Try([host EXCEPT !.dest = host.temp, !.mode = TRUE, !.owner = TRUE, !.temp = "none", !.was = "new"],
                Leave("changed"), Leave("failed"))

\* cleanupTemporaryDownloadFile: a failure is a warning.
Drop ==
    /\ pc = "drop"
    /\ LET work == [host EXCEPT !.temp = "none"]
           next == CASE ctl.result = "changed" /\ host.large -> Goto("flag")
                     [] ctl.result = "changed" /\ Unverified(host) -> Goto("marker")
                     [] OTHER -> Return(ctl.result)
       IN \/ host' = work /\ next /\ UNCHANGED faults
          \/ host' \in {host, work} /\ next /\ Fault

-----------------------------------------------------------------------------

\* setVersionedFlag, before the marker is written.
Flag ==
    /\ pc = "flag"
    /\ Exec([host EXCEPT !.flag = TRUE],
            IF ctl.result = "changed" /\ Unverified(host) THEN Goto("marker") ELSE Return(ctl.result),
            Return("failed"))

\* writeUnverifiedHashMarker hashes the destination as it is now; a marker that
\* cannot be written is ignored, a link is left alone.
Marker ==
    /\ pc = "marker"
    /\ IF host.marker = "link" THEN Ask(Return("changed"), Return("changed"))
       ELSE LET work == IF Regular(host) THEN [host EXCEPT !.marker = host.dest] ELSE host
            IN \/ host' = work /\ Return("changed") /\ UNCHANGED faults
               \/ host' \in {host, work} /\ Return("changed") /\ Fault

\* Somebody replaces the destination by a link.
Plant ==
    /\ ~Ended /\ host.dest # "link" /\ Fault
    /\ pc \in {"match links", "heal owner", "finalize", "move"}
    /\ host' = [host EXCEPT !.dest = "link", !.was = "link"]
    /\ UNCHANGED <<ctl, pc>>

Section ==
    \/ Check \/ Match \/ MatchLinks \/ HealMode \/ HealOwner \/ Links \/ Directory \/ Allocate \/ Curl \/ Verify
    \/ Chmod \/ Chown \/ Finalize \/ Move \/ Drop \/ Flag \/ Marker
Next == Section \/ Plant \/ Again(Fresh(ctl.run + 1))
Spec == Init /\ [][Next]_vars

-----------------------------------------------------------------------------
(* Properties                                                              *)

\* What was reported is there, with its attributes and, for a large download,
\* its flag; an unverified one is what the URL served (performDownload).
ReportsAreTrue ==
    Ended /\ ctl.result \in {"checked", "changed", "ok"} /\ host.dest # "link" =>
        /\ Regular(host) /\ host.mode /\ host.owner
        /\ host.pinned => host.dest = "new"
        /\ host.large => host.flag
        /\ ctl.result = "changed" => host.dest = IF host.pinned THEN "new" ELSE host.served

\* A download that fails its checksum leaves the destination as it was, and
\* one without it never reaches the destination (verifyChecksum).
FailuresAreTrue ==
    /\ Ended /\ ctl.result = "refused" => host.dest \in {ctl.orig, "link"}
    /\ host.pinned => host.dest # "bad"

\* A link at the destination is never replaced (finalizeDownloadedFile).
EditsSurvive == host.was = "link" => host.dest = "link"

\* The temporary file outlives the call only if a command was lost.
NothingIsLeft == Ended /\ host.temp # "none" => faults > 0

\* A run without faults ends with the wanted file, unless something that is
\* no file is in the way or the server serves what the checksum refuses
\* (download.ts).
CleanRunConverges ==
    Ended /\ Clean =>
        \/ InState(host)
        \/ host.dest \in {"dir", "link"}
        \/ host.pinned /\ host.served = "bad"
        \/ ~host.pinned /\ host.marker = "link"
=============================================================================
