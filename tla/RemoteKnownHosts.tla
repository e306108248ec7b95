--------------------------- MODULE RemoteKnownHosts ---------------------------
(***************************************************************************)
(* ssh.knownHosts and ssh.knownHostsCertAuthority: the known_hosts file of *)
(* a user of the remote host.  Both rewrite it under one lock by way of a  *)
(* temporary file; only the second one compares the file with what it has  *)
(* read before the rename.                                                 *)
(***************************************************************************)
EXTENDS Remote, TLC

\* Lines about the host, or about the certificate authority: "stale" is a
\* key that is not the trusted one, "both" a stale line beside the right one.
Entries == {"none", "want", "stale", "both"}
Content(h) == [file |-> h.file, entry |-> h.entry, theirs |-> h.theirs]

Fresh(run) == Call(run) @@ [seen |-> Content(host), mode |-> "replace", mine |-> FALSE, out |-> "", was |-> host.tmp]

TypeOK ==
    /\ pc \in {"check", "lock", "scan", "dir", "lookup", "inspect", "again", "prepare", "mktemp", "stage", "replace", "publish", "confirm",
               "rm", "done"}
    /\ host.dir \in {"none", "good", "loose", "link"} /\ host.file \in {"none", "good", "loose", "link"} /\ host.entry \in Entries
    /\ ctl.mode \in {"append", "replace"} /\ host.tmp \in 0..MaxRuns /\ ctl.result \in Results /\ faults \in 0..MaxFaults

\* `scan`: the host answers with the trusted key.
Init ==
    /\ \E kind \in {"host", "ca"}, present, scan \in BOOLEAN, dir, file \in {"none", "good", "loose", "link"}, entry \in Entries :
          /\ file # "none" => dir # "none"
          /\ file = "none" => entry = "none"
          /\ ~(kind = "host" /\ present) => scan
          /\ host = [kind |-> kind, present |-> present, scan |-> scan, dir |-> dir, file |-> file, entry |-> entry, theirs |-> FALSE,
                     tmp |-> 0, bak |-> 0, edited |-> FALSE, late |-> FALSE, blind |-> FALSE]
    /\ faults = 0 /\ pc = "check" /\ ctl = Fresh(1)

Is(kind) == host.kind = kind
Linked == host.dir = "link" \/ host.file = "link"
Secure == host.dir = "good" /\ host.file = "good"

\* hasMatchingKnownHostTrustAnchor: every line about the host is the trusted
\* one.  The modes are the business of the second module alone.
InState ==
    /\ host.entry = (IF host.present THEN "want" ELSE "none")
    /\ Is("ca") /\ host.present => Secure

\* A lookup that fails with exit code 1, or a test that fails, means "no".
Blind(next) == next /\ host' = [host EXCEPT !.blind = TRUE] /\ Fault

\* ssh-keygen does not look for a host in a file that is not there.
Answered == ~Linked /\ (Is("ca") \/ host.file # "none")

\* apply() of both and check() of the second one turn every exception into
\* a failure.
Caught(work, ok, bad) ==
    \/ host' = work /\ ok /\ UNCHANGED faults
    \/ host' \in {host, work} /\ bad /\ Fault
Failed == Return("failed")

Check ==
    /\ pc = "check"
    /\ LET answer == IF Answered /\ InState THEN Return("checked") ELSE Goto("lock")
       IN IF Is("ca") THEN Caught(host, answer, Goto("lock"))
          ELSE \/ Ask(answer, Goto("lock"))
               \/ ~host.present /\ Blind(Return("checked"))

\* resolveKnownHostsPaths, withKnownHostsLock
Lock ==
    /\ pc = "lock"
    /\ Caught(host, CASE Linked -> Failed
                      [] Is("ca") -> Goto("inspect")
                      [] OTHER -> Goto(IF host.present THEN "scan" ELSE "lookup"), Failed)

-----------------------------------------------------------------------------
(* ssh.knownHosts                                                          *)

\* No key is accepted that the trust anchor does not name.
Scan ==
    /\ pc = "scan"
    /\ Caught(host, IF host.scan THEN Goto("dir") ELSE Failed, Failed)

Dir ==
    /\ pc = "dir"
    /\ Caught([host EXCEPT !.dir = "good"], Goto("lookup"), Failed)

\* resolveExistingKnownHostLines, reconcileKnownHostsState
Lookup ==
    /\ pc = "lookup"
    /\ LET to(mode) == ctl' = [ctl EXCEPT !.mode = mode] /\ pc' = "mktemp"
       IN \/ Caught(host, CASE InState -> Return("ok")
                            [] host.entry = "none" -> to("append")
                            [] OTHER -> to("replace"), Failed)
          \/ IF host.present THEN Blind(to("append")) ELSE Blind(Return("ok"))

\* A lost answer leaves a file nobody knows of.
MkTemp ==
    /\ pc = "mktemp"
    /\ Caught([host EXCEPT !.tmp = @ + 1], ctl' = [ctl EXCEPT !.mine = TRUE] /\ pc' = "stage", Failed)

Leave(r) == ctl' = [ctl EXCEPT !.out = r] /\ pc' = "rm"

Wanted(entry) ==
    CASE ~host.present -> "none"
      [] Is("ca") \/ ctl.mode = "replace" \/ entry = "none" -> "want"
      [] entry = "stale" -> "both"
      [] OTHER -> entry

\* knownHostsStageCommand reads the file now; stageKnownHosts writes what was
\* computed from the snapshot.
Stage ==
    /\ pc = "stage"
    /\ LET now == IF Is("ca") THEN ctl.seen ELSE Content(host)
       IN Caught(host, ctl' = [ctl EXCEPT !.seen = now] /\ pc' = IF Is("ca") THEN "publish" ELSE "replace", Leave("failed"))

Renamed == [host EXCEPT !.file = "good", !.entry = Wanted(ctl.seen.entry), !.theirs = ctl.seen.theirs, !.tmp = @ - 1]

\* A killed shell may leave the hard link it makes first.
Rename(ok) ==
    \/ host' = Renamed /\ ctl' = [ctl EXCEPT !.mine = FALSE, !.out = "changed"] /\ pc' = ok /\ UNCHANGED faults
    \/ /\ Fault /\ pc' = "rm"
       /\ \E h \in {host, Renamed}, left \in {0, 1} :
             /\ left = 1 => host.file # "none"
             /\ host' = [h EXCEPT !.bak = @ + left]
             /\ ctl' = [ctl EXCEPT !.mine = h.tmp = host.tmp, !.out = "failed"]

Replace ==
    /\ pc = "replace"
    /\ Rename("rm")

\* The finally block; its own failure replaces the result.
Rm ==
    /\ pc = "rm"
    /\ LET gone == IF ctl.mine THEN [host EXCEPT !.tmp = @ - 1] ELSE host
       IN Caught(gone, Return(ctl.out), Return(ctl.out) \/ Failed)

-----------------------------------------------------------------------------
(* ssh.knownHostsCertAuthority                                             *)

\* inspectKnownHosts, reconcileKnownHostsCa
Inspect ==
    /\ pc = "inspect"
    /\ Caught(host, CASE Linked -> Failed
                      [] InState -> Return("ok")
                      [] OTHER -> ctl' = [ctl EXCEPT !.seen = Content(host)] /\ pc' = "again", Failed)

Same == Content(host) = ctl.seen

\* writeKnownHosts: the same file before the directory is touched ...
Look ==
    /\ pc = "again"
    /\ Caught(host, IF Same THEN Goto("prepare") ELSE Failed, Failed)

\* ... after it ...
Prepare ==
    /\ pc = "prepare"
    /\ Caught([host EXCEPT !.dir = "good"], IF Same THEN Goto("mktemp") ELSE Failed, Failed)

\* ... and in the shell that renames.
Publish ==
    /\ pc = "publish"
    /\ IF Same THEN Rename("confirm") ELSE Locally(Leave("failed"))

Confirm ==
    /\ pc = "confirm"
    /\ Caught(host, Leave(IF InState /\ host.theirs = ctl.seen.theirs THEN "changed" ELSE "failed"), Leave("failed"))

Section ==
    \/ Check \/ Lock \/ Scan \/ Dir \/ Lookup \/ MkTemp \/ Stage \/ Replace \/ Rm
    \/ Inspect \/ Look \/ Prepare \/ Publish \/ Confirm

\* The user's ssh adds a line, at any time; between the copy and the rename
\* of ssh.knownHosts it is late.
Edit ==
    /\ ~Ended /\ host.file \in {"good", "loose"} /\ ~host.edited /\ Fault
    /\ host' = [host EXCEPT !.theirs = TRUE, !.edited = TRUE, !.late = pc = "replace"]
    /\ UNCHANGED <<ctl, pc>>

Next == Section \/ Edit \/ Again(Fresh(ctl.run + 1))
Spec == Init /\ [][Next]_vars

-----------------------------------------------------------------------------

\* "ok" and "changed" mean that the file holds the trusted entry and no stale
\* one (sshKnownHostsFiles.ts).
ReportsAreTrue == ctl.result \in {"checked", "ok", "changed"} /\ ~host.blind => InState

\* A key the anchor does not name is taken out and put in by nobody: a
\* failure leaves the old lines or the wanted ones.
FailuresAreTrue ==
    ctl.result = "failed" /\ ~host.blind => host.entry \in {ctl.seen.entry, IF host.present THEN "want" ELSE "none"}

\* Lines others add stay, whenever the second module runs into them
\* (sshKnownHostsCertAuthority.ts); the first one loses those that come
\* between its copy and its rename (replaceKnownHostsAtomically).
EditsSurvive == host.edited => host.theirs \/ host.late

\* A call without faults leaves no temporary file.
NothingIsLeft == ctl.result \in {"changed", "failed"} /\ ~host.blind /\ faults = ctl.from => host.tmp = ctl.was

\* A run without faults ends with the trusted entry, unless a link is in the
\* way or the host's key cannot be scanned.
CleanRunConverges == Ended /\ Clean /\ ~host.blind => InState \/ Linked \/ ~host.scan
=============================================================================
