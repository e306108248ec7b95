---------------------------- MODULE RsyncTransfer ----------------------------
(***************************************************************************)
(* rsync.sync: check() and apply() each run a child process on the         *)
(* controller, with a known_hosts file made of the host key the session    *)
(* verified.  The child is stopped by a timeout or by the shutdown of the  *)
(* runner, first with SIGTERM, then with SIGKILL.                          *)
(***************************************************************************)
EXTENDS Remote, TLC

Child == {"none", "running", "terminated", "exited"}

Fresh(run) == Call(run) @@ [phase |-> "check", code |-> "none", output |-> FALSE, pending |-> FALSE, trusted |-> FALSE]

TypeOK ==
    /\ pc \in {"check", "spawn", "wire", "wait", "settled", "done"}
    /\ host.tree \in {"stale", "partial", "same"} /\ host.child \in Child /\ host.trust \in BOOLEAN
    /\ ctl.result \in Results /\ ctl.phase \in {"check", "apply"} /\ ctl.code \in {"none", "zero", "other"}
    /\ faults \in 0..MaxFaults

\* `evidence`: the connection knows the key it verified and is not one with a
\* password.
Init ==
    /\ \E tree \in {"stale", "same"}, evidence \in BOOLEAN :
          host = [tree |-> tree, evidence |-> evidence, child |-> "none", trust |-> FALSE, abort |-> FALSE]
    /\ faults = 0 /\ pc = "check" /\ ctl = Fresh(1)

Dry == ctl.phase = "check"

\* check() turns every failure and every difference into "needs-apply", apply()
\* tells a failure.
NotSame == IF Dry THEN ctl' = [Fresh(ctl.run) EXCEPT !.from = ctl.from, !.phase = "apply"] /\ pc' = "check"
          ELSE Return("failed")

\* executeRsync: without evidence nothing is started; the trust anchor is
\* written to a file of its own.
Start ==
    /\ pc = "check" /\ host.child \in {"none", "exited"}
    /\ IF ~host.evidence THEN Locally(NotSame)
       ELSE host' = [host EXCEPT !.trust = TRUE] /\ Goto("spawn") /\ UNCHANGED faults

\* runRsyncProcess: a program that cannot be started is an "error" event.
Spawn ==
    /\ pc = "spawn"
    /\ \/ host' = [host EXCEPT !.child = "running"] /\ Goto("wire") /\ UNCHANGED faults
       \/ host' = [host EXCEPT !.child = "exited"] /\ ctl' = [ctl EXCEPT !.pending = TRUE] /\ pc' = "settled" /\ Fault

\* killRsyncChildEscalating.
Killed(h) == [h EXCEPT !.child = IF @ = "running" THEN "terminated" ELSE @]

\* attachProcessLifecycle: a runner that is shutting down already stops the
\* child at once, and the call settles before the child has closed.
Wire ==
    /\ pc = "wire"
    /\ IF host.abort
       THEN host' = Killed(host) /\ ctl' = [ctl EXCEPT !.pending = TRUE] /\ pc' = "settled" /\ UNCHANGED faults
       ELSE Locally(Goto("wait"))

\* failOnClose: the call waits for "close" and fails then.
StopChild ==
    /\ pc = "wait"
    /\ host' = Killed(host) /\ ctl' = [ctl EXCEPT !.pending = TRUE]
    /\ UNCHANGED <<pc, faults>>

Timeout == ~ctl.pending /\ StopChild

Aborted == host.abort /\ ~ctl.pending /\ StopChild

\* "close": resolveOnce takes the first result.
Settle ==
    /\ pc = "wait" /\ host.child = "exited"
    /\ Locally(Goto("settled"))

\* cleanupVerifiedKnownHostsFile, then createRsyncError or the output.
Finish ==
    /\ pc = "settled"
    /\ host' = [host EXCEPT !.trust = FALSE] /\ UNCHANGED faults
    /\ IF ctl.pending \/ ctl.code # "zero" THEN NotSame
       ELSE IF ctl.output THEN IF Dry THEN NotSame ELSE Return("changed")
       ELSE Return(IF Dry THEN "checked" ELSE "ok")

-----------------------------------------------------------------------------
(* The child                                                               *)

\* The child tells every difference and, unless it is a dry run, removes it.
Close ==
    /\ host.child \in {"running", "terminated"} /\ host.trust
    /\ \/ /\ host' = [host EXCEPT !.child = "exited", !.tree = IF Dry THEN @ ELSE "same"]
          /\ ctl' = [ctl EXCEPT !.code = "zero", !.output = host.tree # "same"]
          /\ UNCHANGED <<pc, faults>>
       \/ \* an error on the way, or a stale trust anchor
          /\ host' = [host EXCEPT !.child = "exited", !.tree = IF Dry \/ @ = "same" THEN @ ELSE "partial"]
          /\ ctl' = [ctl EXCEPT !.code = "other", !.output = host.tree # "same"]
          /\ Fault /\ UNCHANGED pc

\* SIGTERM, and after the grace period SIGKILL.
Die ==
    /\ host.child = "terminated"
    /\ host' = [host EXCEPT !.child = "exited", !.tree = IF Dry \/ @ = "same" THEN @ ELSE "partial"]
    /\ ctl' = IF pc = "wait" THEN [ctl EXCEPT !.code = "other"] ELSE ctl
    /\ UNCHANGED <<pc, faults>>

\* SIGINT to the controller.
Shutdown ==
    /\ ~Ended /\ ~host.abort /\ Fault
    /\ host' = [host EXCEPT !.abort = TRUE]
    /\ UNCHANGED <<ctl, pc>>

\* A new process has a signal of its own; children of the old one are gone.
Restart ==
    /\ Ended /\ ctl.run < MaxRuns /\ host.child \in {"none", "exited"}
    /\ host' = [host EXCEPT !.abort = FALSE, !.tree = IF @ = "partial" THEN "stale" ELSE @]
    /\ ctl' = Fresh(ctl.run + 1) /\ pc' = "check" /\ UNCHANGED faults

Section == Start \/ Spawn \/ Wire \/ Timeout \/ Aborted \/ Settle \/ Finish \/ Die
Next == Section \/ Close \/ Shutdown \/ Restart
Spec == Init /\ [][Next]_vars

-----------------------------------------------------------------------------
(* Properties                                                              *)

\* Only a child that ran to its end says that both sides are the same; what a
\* killed one had printed is no report (runRsyncProcess).
ReportsAreTrue == ctl.result \in {"checked", "changed", "ok"} => host.tree = "same"

\* The known_hosts file is removed on every way out, and a child outlives its
\* call only when the runner was shutting down as it started.
NothingIsLeft ==
    Ended => ~host.trust /\ (host.child \notin {"none", "exited"} => host.abort)

\* A run without faults ends with equal trees, unless there is no host key to
\* trust or the runner stops it (rsyncProcess.ts).
CleanRunConverges == Ended /\ Clean => host.tree = "same" \/ ~host.evidence \/ ctl.pending
=============================================================================
