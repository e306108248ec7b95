---------------------------- MODULE SftpTransfer ----------------------------
(***************************************************************************)
(* One SFTP transfer (sftpDownload, sftpUpload, sftpUploadContent): opening *)
(* the session races a timer and the abort of the connection, and then the *)
(* streams race them again.  Whoever comes first settles the promise; what *)
(* comes later has to find nothing to do.  A download goes to a temporary  *)
(* file that is renamed.  `faults` counts what goes wrong.                 *)
(***************************************************************************)
EXTENDS Remote, TLC

\* Bound: chunks of a transfer.
Size == 2

Fresh(run) == Call(run) @@ [armed |-> {}, opening |-> FALSE, unlink |-> FALSE]

TypeOK ==
    /\ pc \in {"check", "open", "pipe", "rename", "done"}
    /\ host.bytes \in 0..Size /\ host.session \in {"none", "open", "ended"}
    /\ host.temp \in {"none", "short", "full"} /\ host.file \in {"old", "short", "full"}
    /\ ctl.armed \subseteq {"timer", "abort", "streams"} /\ ctl.result \in Results

Init ==
    /\ \E down, aborted \in BOOLEAN :
          host = [down |-> down, aborted |-> aborted, bytes |-> 0, session |-> "none", temp |-> "none",
                  file |-> "old", early |-> FALSE, closed |-> FALSE]
    /\ faults = 0 /\ pc = "check" /\ ctl = Fresh(1)

\* Every way to settle disarms everything; a late event has no listener.
Settle(result, unlink) ==
    /\ ctl' = [ctl EXCEPT !.result = result, !.armed = {}, !.unlink = unlink]
    /\ pc' = "done"

\* openSftp: an aborted connection is not asked for a session.
Open ==
    /\ pc = "check"
    /\ IF host.aborted THEN Locally(Settle("failed", FALSE))
       ELSE Locally(ctl' = [ctl EXCEPT !.armed = {"timer", "abort"}, !.opening = TRUE] /\ pc' = "open")

\* acceptSession, at most once: wireStreams arms its own timer and listeners.
Session ==
    /\ ctl.opening
    /\ \/ /\ pc = "open" /\ UNCHANGED faults
          /\ host' = [host EXCEPT !.session = "open", !.temp = "short"]
          /\ ctl' = [ctl EXCEPT !.opening = FALSE, !.armed = {"timer", "abort", "streams"}]
          /\ pc' = "pipe"
       \/ /\ pc = "open" /\ Fault  \* a stream cannot be created
          /\ host' = [host EXCEPT !.session = "ended"]
          /\ ctl' = [ctl EXCEPT !.opening = FALSE, !.armed = {}, !.result = "failed"]
          /\ pc' = "done"

\* The session of a call that is settled is ended.
LateSession ==
    /\ ctl.opening /\ pc = "done"
    /\ host' = [host EXCEPT !.session = "ended"]
    /\ ctl' = [ctl EXCEPT !.opening = FALSE]
    /\ UNCHANGED <<pc, faults>>

OpenFails ==
    /\ ctl.opening
    /\ UNCHANGED host
    /\ IF pc = "open" THEN Fault /\ ctl' = [ctl EXCEPT !.opening = FALSE, !.armed = {}, !.result = "failed"] /\ pc' = "done"
       ELSE ctl' = [ctl EXCEPT !.opening = FALSE] /\ UNCHANGED <<pc, faults>>

\* The open timer closes the whole connection.
OpenTimeout ==
    /\ pc = "open" /\ "timer" \in ctl.armed /\ Fault
    /\ host' = [host EXCEPT !.closed = TRUE]
    /\ Settle("failed", FALSE)

\* disconnect(): a listener settles the call while there is one.
Abort ==
    /\ ~host.aborted /\ Fault
    /\ IF "abort" \in ctl.armed
       THEN /\ host' = [host EXCEPT !.aborted = TRUE, !.session = IF pc = "pipe" THEN "ended" ELSE @]
            /\ Settle("failed", pc = "pipe" /\ host.down)
       ELSE host' = [host EXCEPT !.aborted = TRUE] /\ UNCHANGED <<ctl, pc>>

Flow ==
    /\ pc = "pipe" /\ host.bytes < Size
    /\ host' = [host EXCEPT !.bytes = @ + 1, !.temp = IF host.bytes + 1 = Size THEN "full" ELSE "short"]
    /\ UNCHANGED <<ctl, pc, faults>>

\* resolveOnce: the session ends; a download is renamed first.
Finished(h) ==
    /\ host' = [h EXCEPT !.session = "ended"]
    /\ IF host.down THEN ctl' = [ctl EXCEPT !.armed = {}] /\ pc' = "rename"
       ELSE Settle("changed", FALSE)

Finish == pc = "pipe" /\ host.bytes = Size /\ Finished(host) /\ UNCHANGED faults

\* The remote writer may close before it finished; that counts as success and
\* is left to the caller's size check.  A local file closes early only when
\* it is destroyed, and then nobody listens.
Close == pc = "pipe" /\ ~host.down /\ Fault /\ Finished([host EXCEPT !.early = TRUE])

\* rejectOnce, by either stream or the timer: the streams are destroyed.
StreamError ==
    /\ pc = "pipe" /\ "streams" \in ctl.armed /\ Fault
    /\ host' = [host EXCEPT !.session = "ended"]
    /\ Settle("failed", host.down)

Rename ==
    /\ pc = "rename"
    /\ \/ host' = [host EXCEPT !.file = host.temp, !.temp = "none"] /\ Settle("changed", FALSE) /\ UNCHANGED faults
       \/ UNCHANGED host /\ Settle("failed", TRUE) /\ Fault

\* rejectWithCleanup does not wait for the unlink.
Unlink ==
    /\ ctl.unlink
    /\ ctl' = [ctl EXCEPT !.unlink = FALSE] /\ host' = [host EXCEPT !.temp = "none"]
    /\ UNCHANGED <<pc, faults>>

Section == Open \/ Session \/ LateSession \/ OpenFails \/ OpenTimeout \/ Flow \/ Finish \/ Close \/ StreamError \/ Rename \/ Unlink
Next == Section \/ Abort
Spec == Init /\ [][Next]_vars

-----------------------------------------------------------------------------
(* Properties                                                              *)

\* A resolved download is whole; an upload is, unless its stream closed early.
ReportsAreTrue == ctl.result = "changed" =>
    IF host.down THEN host.file = "full" ELSE host.temp = "full" \/ host.early

\* A rejected download leaves the local file alone (temporaryPath).
FailuresAreTrue == ctl.result = "failed" => host.file = "old"

\* A settled transfer holds no session, no timer and no listener, and its
\* temporary file is gone or about to be removed (createTransferSettlement).
NothingIsLeft == Ended =>
    /\ ctl.armed = {} /\ host.session # "open"
    /\ host.down /\ host.temp # "none" => ctl.unlink

\* A transfer without faults succeeds, unless the connection was aborted
\* (sftp.ts).
CleanRunConverges == Ended /\ Clean => ctl.result = "changed" \/ host.aborted
=============================================================================
