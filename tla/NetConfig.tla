----------------------------- MODULE NetConfig -----------------------------
(***************************************************************************)
(* net.interface (a netplan or networkd file and the command that applies  *)
(* it, with a rollback of both) and net.resolv (/etc/resolv.conf).         *)
(* net.waitFor polls a port or a file until it is there, the time is up or *)
(* the runner's abort signal fires; net.request asks a URL once.  Time is  *)
(* counted in poll intervals.                                              *)
(***************************************************************************)
EXTENDS Remote, TLC

Files == {"none", "ours", "old", "link"}

\* Bound: poll intervals in a timeout.
Timeout == 3

Configs == {"interface", "resolv"}
Waits == {"waitFor", "request"}

Fresh(run) ==
    Call(run) @@ (IF host.kind \in Configs THEN [orig |-> host, link |-> FALSE] ELSE [left |-> Timeout, seen |-> FALSE])

TypeOK ==
    /\ pc \in {"check", "look", "snapshot", "look again", "write", "apply", "restore", "apply back",
               "poll", "judge", "delay", "request", "done"}
    /\ ctl.result \in Results /\ faults \in 0..MaxFaults
    /\ host.kind \in Configs => host.file \in Files /\ host.live \in {"none", "ours", "old"}
    /\ host.kind \in Waits => host.met \in BOOLEAN /\ host.aborted \in BOOLEAN /\ ctl.left \in 0..Timeout

\* `static`: addresses or a gateway are wanted, which the kernel can be asked
\* for; without them the file is all there is to see.
InitConfig ==
    \E kind \in Configs, file \in Files, live \in {"none", "ours", "old"}, static \in BOOLEAN :
        host = [kind |-> kind, file |-> file, live |-> live, static |-> static, was |-> file]

InitWait ==
    \E kind \in Waits, met \in BOOLEAN :
        host = [kind |-> kind, met |-> met, aborted |-> FALSE, changes |-> 0]

Init ==
    /\ InitConfig \/ InitWait
    /\ faults = 0 /\ pc = "check" /\ ctl = Fresh(1)

Interface == host.kind = "interface"

\* interfaceLiveStateMatches: link, addresses and default route.
LiveMatches(h) == h.kind = "resolv" \/ ~h.static \/ h.live = "ours"

InState(h) == h.file = "ours" /\ LiveMatches(h)

Check ==
    /\ pc = "check" /\ host.kind \in Configs
    /\ Ask(IF InState(host) THEN Return("checked") ELSE Goto("look"), Goto("look"))

\* isSymlink, once before the file is read and once before it is written.
Look ==
    /\ pc = "look"
    /\ Ask(IF host.file = "link" THEN Return("refused")
           ELSE Goto(IF Interface THEN "snapshot" ELSE "look again"),
           Return("failed"))

\* captureInterfaceConfigSnapshot.
Snapshot ==
    /\ pc = "snapshot"
    /\ Ask(ctl' = [ctl EXCEPT !.orig = host] /\ pc' = "look again", Return("failed"))

LookAgain ==
    /\ pc = "look again"
    /\ Ask(IF host.file = "link" THEN Return("refused") ELSE Goto("write"), Return("failed"))

\* writeFile renames a new file over the path; a write that throws is told and
\* the command is not run, whatever the write did.
Write ==
    /\ pc = "write"
    /\ LET work == [host EXCEPT !.file = "ours"]
       IN \/ Exec(work, IF Interface THEN Goto("apply") ELSE Return("changed"), Return("failed"))
          \/ host' = work /\ Return("failed") /\ Fault

\* netplan apply or networkctl reload: the kernel follows the file.
Applied == [host EXCEPT !.live = IF host.file \in {"ours", "old"} THEN host.file ELSE "none"]

Apply ==
    /\ pc = "apply"
    /\ Exec(Applied, Return("changed"), Goto("restore"))

\* rollbackInterfaceConfig: the old content, or no file.
Restore ==
    /\ pc = "restore"
    /\ Exec([host EXCEPT !.file = IF ctl.orig.file = "link" THEN "none" ELSE ctl.orig.file],
            Goto("apply back"), Return("failed"))

\* The restored file is applied again, since a failing command may have done
\* a part of its work.
ApplyBack ==
    /\ pc = "apply back"
    /\ Exec(Applied, Return("restored"), Return("failed"))

-----------------------------------------------------------------------------
(* net.waitFor and net.request                                             *)

CheckWait ==
    /\ pc = "check" /\ host.kind \in Waits
    /\ LET next == IF host.kind = "waitFor" THEN "poll" ELSE "request"
       IN Ask(IF host.met THEN Return("checked") ELSE Goto(next), Goto(next))

Aborted == ctl' = [ctl EXCEPT !.result = "refused"] /\ pc' = "done"

\* runWaitForPoll: the time, the signal, and then the probe.
Poll ==
    /\ pc = "poll"
    /\ IF ctl.left = 0 THEN Locally(Return("failed"))
       ELSE IF host.aborted THEN Locally(Aborted)
       ELSE Ask(IF host.met THEN ctl' = [ctl EXCEPT !.result = "changed", !.seen = TRUE] /\ pc' = "done"
                ELSE Goto("judge"),
                Goto("judge"))

\* The signal is looked at again after the answer.
Judge ==
    /\ pc = "judge"
    /\ Locally(IF host.aborted THEN Aborted ELSE Goto("delay"))

\* waitForNextPoll: the delay ends early when the signal fires.
Delay ==
    /\ pc = "delay"
    /\ Locally(IF host.aborted THEN Aborted ELSE ctl' = [ctl EXCEPT !.left = @ - 1] /\ pc' = "poll")

\* checkHttpCondition: every error of curl is an unmet expectation.
Request ==
    /\ pc = "request"
    /\ UNCHANGED host
    /\ \/ UNCHANGED faults /\ IF host.met THEN ctl' = [ctl EXCEPT !.result = "ok", !.seen = TRUE] /\ pc' = "done"
                              ELSE Return("failed")
       \/ Fault /\ Return("failed")

-----------------------------------------------------------------------------
(* The environment                                                         *)

\* Somebody replaces the file by a symlink.
Plant ==
    /\ pc \in {"look", "snapshot", "look again"} /\ host.file # "link" /\ Fault
    /\ host' = [host EXCEPT !.file = "link", !.was = "link"]
    /\ UNCHANGED <<ctl, pc>>

\* The condition comes and goes; the operator interrupts the run.
Comes ==
    /\ ~Ended /\ host.kind \in Waits /\ host.changes < 2
    /\ host' = [host EXCEPT !.met = ~@, !.changes = @ + 1]
    /\ UNCHANGED <<ctl, pc, faults>>

Interrupt ==
    /\ ~Ended /\ host.kind \in Waits /\ ~host.aborted
    /\ host' = [host EXCEPT !.aborted = TRUE]
    /\ UNCHANGED <<ctl, pc, faults>>

Section ==
    \/ Check \/ Look \/ Snapshot \/ LookAgain \/ Write \/ Apply \/ Restore \/ ApplyBack
    \/ CheckWait \/ Poll \/ Judge \/ Delay \/ Request
Next == Section \/ Plant \/ Comes \/ Interrupt \/ (host.kind \in Configs /\ Again(Fresh(ctl.run + 1)))
Spec == Init /\ [][Next]_vars

-----------------------------------------------------------------------------
(* Properties                                                              *)

\* "changed" was applied to the kernel; check() says "ok" only for a file and,
\* where addresses or a gateway are wanted, for a live state that agree.  The
\* success of a wait was seen on the host by this call.
ReportsAreTrue ==
    IF host.kind \in Configs
    THEN /\ ctl.result \in {"checked", "changed"} => InState(host)
         /\ ctl.result = "changed" /\ Interface => host.live = "ours"
    ELSE ctl.result \in {"changed", "ok"} => ctl.seen

\* After a rollback that was applied the kernel follows the old file again
\* (rollbackInterfaceApplyFailure).  "Not met within the timeout" is said only
\* after the whole time, and "aborted" only of a run that was interrupted
\* (waitForCondition).
FailuresAreTrue ==
    /\ host.kind \in Configs /\ ctl.result = "restored" =>
          /\ host.file = ctl.orig.file
          /\ host.live = IF host.file = "none" THEN "none" ELSE host.file
    /\ host.kind = "waitFor" /\ ctl.result = "failed" => ctl.left = 0
    /\ host.kind \in Waits /\ ctl.result = "refused" => host.aborted

\* A symlink is never replaced by a file of ours.
EditsSurvive == host.kind \in Configs /\ host.was = "link" => host.file = "link"

\* A run without faults ends with file and live state as asked, unless the
\* file is a link (net.ts); a condition that is met from the start is never
\* missed.
CleanRunConverges ==
    Ended /\ Clean =>
        IF host.kind \in Configs THEN InState(host) \/ host.file = "link"
        ELSE host.changes = 0 /\ host.met => ctl.result = "checked"
=============================================================================
