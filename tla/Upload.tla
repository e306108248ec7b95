-------------------------------- MODULE Upload --------------------------------
(***************************************************************************)
(* writeFile, uploadFile and downloadFile: a file goes through a temporary  *)
(* file (of root beside the target, of another user in /tmp and from there *)
(* through a second one), is measured, moved over the target and hashed;   *)
(* writeFile tries once more through a shell when the hash is wrong.       *)
(***************************************************************************)
EXTENDS Remote, TLC

\* "bad" has the right size and the wrong bytes.
Contents == {"none", "empty", "short", "bad", "new"}
Targets == {"none", "old", "other", "link", "directory"}

Fresh(run) == Call(run) @@ [why |-> "", hash |-> "unknown", lost |-> FALSE, orig |-> host.target]

TypeOK ==
    /\ pc \in {"check", "transfer", "stage", "finalize", "classify", "shell", "base64", "shell finalize",
               "verify", "stage file", "cat", "fetch", "clean", "done"}
    /\ host.target \in Targets \cup Contents
    /\ {host.temp, host.fallback, host.staged} \subseteq Contents /\ host.beside \in {"none", "new", "bad"}
    /\ ctl.result \in Results /\ ctl.why \in Results /\ faults \in 0..MaxFaults

Init ==
    /\ \E kind \in {"write", "upload", "download"}, root, linked \in BOOLEAN, target \in Targets \ {"other"} :
          host = [kind |-> kind, root |-> root, linked |-> linked, target |-> target, kept |-> TRUE,
                  temp |-> "none", beside |-> "none", fallback |-> "none",
                  directory |-> FALSE, staged |-> "none", local |-> "old", edited |-> FALSE]
    /\ faults = 0 /\ pc = "check" /\ ctl = Fresh(1)

Leave(why, lost) == ctl' = [ctl EXCEPT !.why = why, !.lost = @ \/ lost] /\ pc' = "clean"

\* A command of the try block: it fails, or its answer is lost, and then the
\* finally block runs.
Try(work, ok) ==
    \/ host' = work /\ ok /\ UNCHANGED faults
    \/ host' = host /\ Leave("failed", FALSE) /\ Fault
    \/ host' \in {host, work} /\ Leave("raised", TRUE) /\ Fault

\* A command before the try block: nothing is cleaned up after it.
Before(work, ok) ==
    \/ host' = work /\ ok /\ UNCHANGED faults
    \/ host' = host /\ Return("failed") /\ Fault
    \/ host' \in {host, work} /\ ctl' = [ctl EXCEPT !.result = "raised", !.lost = TRUE] /\ pc' = "done" /\ Fault

\* createRemoteWritableTempPath: the directory of root's temporary file may
\* have no symlink; createRemoteStagingDirectory for a download.
Make ==
    /\ pc = "check"
    /\ IF host.kind = "download"
       THEN IF host.root THEN Locally(Goto("fetch"))
            ELSE Before([host EXCEPT !.directory = TRUE], Goto("stage file"))
       ELSE IF host.root /\ host.linked THEN Locally(Return("refused"))
       ELSE Before([host EXCEPT !.temp = "empty"], Goto("transfer"))

\* sftpUpload, sftpUploadContent: success may be claimed for a file that was
\* cut off or damaged.
Transfer ==
    /\ pc = "transfer"
    /\ \/ Try([host EXCEPT !.temp = "new"], Goto("stage"))
       \/ \E content \in {"empty", "short", "bad"} :
             host' = [host EXCEPT !.temp = content] /\ (Goto("stage") \/ Leave("failed", FALSE)) /\ Fault

Measured(content) == content \in {"bad", "new"}

\* stageRemoteTempFile: chmod and the size, of which nothing is doubted.
Stage ==
    /\ pc = "stage"
    /\ Try(host, IF Measured(host.temp) THEN Goto("finalize") ELSE Leave("failed", FALSE))

\* The scripts refuse a link, a directory, and a link in the path.
Guarded == host.target \notin {"link", "directory"} /\ ~host.linked

\* The script of another user than root, up to where it stops: the trap
\* removes the second temporary file unless the shell is killed.
Halfway(source) == {
    [host EXCEPT !.temp = IF source = "temp" THEN "none" ELSE @,
                 !.fallback = IF source = "fallback" THEN "none" ELSE @],
    [host EXCEPT !.temp = IF source = "temp" THEN "none" ELSE @,
                 !.fallback = IF source = "fallback" THEN "none" ELSE @, !.beside = host[source]]}

\* mv -T over the target; only the script of root keeps no owner.
Moved(source) == [host EXCEPT !.target = host[source], !.kept = ~host.root,
                              !.temp = IF source = "temp" THEN "none" ELSE @,
                              !.fallback = IF source = "fallback" THEN "none" ELSE @]

Finalized(source, ok) ==
    IF ~Guarded THEN Locally(Leave("refused", FALSE))
    ELSE \/ Try(Moved(source), ok)
         \/ ~host.root /\ Fault /\ \E half \in Halfway(source) :
               host' = half /\ Leave("raised", half.beside # "none")

\* finalizeAndHashRemoteFile: the same script prints the hash, or that there
\* is none; the temporary file is the target's from here on.
Finalize ==
    /\ pc = "finalize"
    /\ \/ Finalized("temp", ctl' = [ctl EXCEPT !.hash = host.temp] /\ pc' = "classify")
       \/ Guarded /\ host' = Moved("temp") /\ ctl' = [ctl EXCEPT !.hash = "unknown"] /\ pc' = "classify" /\ Fault

\* classifyRemoteHash, ensureRemoteUploadFile and ensureRemoteWriteFile.
Classify ==
    /\ pc = "classify"
    /\ Locally(IF ctl.hash = "new" THEN Return("changed")
               ELSE IF ctl.hash = "unknown" \/ host.kind = "upload" THEN Return("failed")
               ELSE Goto("shell"))

\* rewriteRemoteFileViaShell.
Shell ==
    /\ pc = "shell"
    /\ IF host.linked THEN Locally(Return("failed"))
       ELSE Before([host EXCEPT !.fallback = "empty"], Goto("base64"))

Base64 ==
    /\ pc = "base64"
    /\ \/ Try([host EXCEPT !.fallback = "new"], Goto("shell finalize"))
       \/ host' = [host EXCEPT !.fallback = "short"] /\ Leave("failed", FALSE) /\ Fault

\* finalizeRemoteTempFile.
ShellFinalize ==
    /\ pc = "shell finalize"
    /\ Finalized("fallback", Leave("", FALSE))

\* verifyRemoteWriteFile reads what is there now.
Verify ==
    /\ pc = "verify"
    /\ Ask(Return(IF host.target = "new" THEN "changed" ELSE "failed"), Return("failed"))

-----------------------------------------------------------------------------
(* Download                                                                *)

StageFile ==
    /\ pc = "stage file"
    /\ Try([host EXCEPT !.staged = "empty"], Goto("cat"))

\* cat > as root into the user's own file.
Cat ==
    /\ pc = "cat"
    /\ \/ Try([host EXCEPT !.staged = "new"], Goto("fetch"))
       \/ host' = [host EXCEPT !.staged = "short"] /\ Leave("failed", FALSE) /\ Fault

\* sftpDownload renames a local temporary file.
Fetch ==
    /\ pc = "fetch"
    /\ LET from == IF host.root THEN "new" ELSE host.staged
       IN Try([host EXCEPT !.local = from], Leave("changed", FALSE))

-----------------------------------------------------------------------------

\* cleanupRemoteTempFile, cleanupPrivilegedRemoteTempFile and
\* cleanupRemoteStagingDirectory: a failure is only a warning.
CleanUp ==
    /\ pc = "clean"
    /\ LET swept == [host EXCEPT !.temp = "none", !.fallback = "none", !.staged = "none", !.directory = FALSE]
           after == IF ctl.why = "" THEN Goto("verify") ELSE Return(ctl.why)
       IN \/ host' = swept /\ after /\ UNCHANGED faults
          \/ /\ UNCHANGED host /\ Fault
             /\ ctl' = [ctl EXCEPT !.lost = TRUE, !.result = ctl.why]
             /\ pc' = IF ctl.why = "" THEN "verify" ELSE "done"

\* Somebody else changes the target.
Edit ==
    /\ ~Ended /\ Guarded /\ Fault
    /\ host' = [host EXCEPT !.target = "other", !.edited = TRUE, !.kept = TRUE]
    /\ UNCHANGED <<ctl, pc>>

Section ==
    \/ Make \/ Transfer \/ Stage \/ Finalize \/ Classify \/ Shell \/ Base64 \/ ShellFinalize \/ Verify
    \/ StageFile \/ Cat \/ Fetch \/ CleanUp
Next == Section \/ Edit
Spec == Init /\ [][Next]_vars

-----------------------------------------------------------------------------
(* Properties                                                              *)

\* Success means that the file is whole, whatever the transfer claimed.
ReportsAreTrue == ctl.result = "changed" =>
    IF host.kind = "download" THEN host.local = "new"
    ELSE /\ host.target = "new" \/ host.edited
         /\ ~host.root => host.kept

\* No failure leaves a cut-off file at the target, or at the local path, and a
\* refusal leaves everything as it was.
FailuresAreTrue ==
    /\ host.target \notin {"empty", "short"} /\ host.local \in {"old", "new"}
    /\ ctl.result = "refused" => host.target = ctl.orig \/ host.edited

\* Temporary files outlive a call only when an answer was lost or the removal failed.
NothingIsLeft == Ended /\ ~ctl.lost =>
    /\ {host.temp, host.beside, host.fallback, host.staged} = {"none"}
    /\ ~host.directory

\* A transfer without faults succeeds, or refuses a target that is a link or
\* no file (ssh.ts).
CleanRunConverges == Ended /\ Clean =>
    ctl.result = IF host.kind # "download" /\ ~Guarded THEN "refused" ELSE "changed"
=============================================================================
