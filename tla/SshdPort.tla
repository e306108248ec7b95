------------------------------ MODULE SshdPort ------------------------------
(***************************************************************************)
(* sshd.port(target) of modules/sshd.ts: one run checks the host, rewrites *)
(* the Port of sshd_config, moves sshd from its socket unit to its service *)
(* and restarts it, then proves the new listener or rolls four layers back *)
(* (file, service boot state, socket activation, daemon).  Every command   *)
(* may fail, and the connection may drop before or after its work.  A      *)
(* later run of the playbook finds whatever an earlier one left.           *)
(*                                                                         *)
(* The commit lease around the section is SshdLease's; here one controller *)
(* works.  "new" is the target port, "old" the port sshd was set up on.    *)
(***************************************************************************)
EXTENDS Naturals, FiniteSets

CONSTANTS
    MaxFaults,  \* bound: commands that fail or drop the connection
    MaxRuns     \* bound: runs of the playbook

VARIABLES
    host,    \* the remote system
    ctl,     \* what the controller's process remembers
    pc,      \* the next await of check() or apply()
    faults   \* faults so far

vars == <<host, ctl, pc, faults>>

Ports == {"old", "new"}
Results == {"", "ok", "checked", "changed", "refused", "rolledback", "diverged", "lost", "raised"}

TypeOK ==
    /\ host.file \in Ports /\ host.daemon \in Ports \union {"none"}
    /\ {host.svcBoot, host.sock, host.sockBoot, host.sockActive, host.binds, host.ufwAllows} \subseteq BOOLEAN
    /\ ctl.ports \subseteq Ports /\ ctl.port \in Ports /\ ctl.saved \in Ports
    /\ ctl.result \in Results
    /\ ctl.layer \in 1..5
    /\ faults \in 0..MaxFaults

\* Who listens: the socket unit on its own port, and the daemon.
Listening(h) ==
    (IF h.sockActive THEN {"old"} ELSE {}) \union ({h.daemon} \ {"none"})

\* Who will listen after a reboot.
AfterReboot(h) ==
    (IF h.sockBoot THEN {"old"} ELSE {}) \union
    (IF h.svcBoot /\ (h.file = "new" => h.binds) THEN {h.file} ELSE {})

\* A port the controller can open a session on.
Reachable(h, p) == p \in Listening(h) /\ (p = "new" => h.ufwAllows)

\* What the controller forgets when a new process starts.
Fresh(run, port, configured) ==
    [run |-> run, port |-> port, configured |-> configured, session |-> TRUE,
     ports |-> configured \union {port}, saved |-> "old",
     snap |-> [sock |-> FALSE, boot |-> FALSE, active |-> FALSE],
     unit |-> FALSE, svcWasOff |-> FALSE, booted |-> FALSE, sent |-> FALSE, before |-> {},
     layer |-> 1, undone |-> TRUE, why |-> "", from |-> faults, result |-> ""]

\* sshd listens on "old", by its socket unit or by its service.
Init ==
    /\ \E sock, sockBoot, svcBoot, binds, ufw \in BOOLEAN, file \in Ports :
          /\ sockBoot => sock
          /\ host = [file |-> file, daemon |-> IF sock THEN "none" ELSE "old",
                     svcBoot |-> svcBoot, sock |-> sock, sockBoot |-> sockBoot,
                     sockActive |-> sock, binds |-> binds, ufwAllows |-> ufw]
    /\ pc = "check" /\ faults = 0
    /\ \E configured \in {{"new"}, {"old"}, Ports} : ctl = Fresh(1, "old", configured)

-----------------------------------------------------------------------------
(* Commands                                                                *)

Result(r) == ctl' = [ctl EXCEPT !.result = r] /\ pc' = "done"

Fault == faults < MaxFaults /\ faults' = faults + 1

\* Where a lost session leads: inside the restart it is the expected
\* disconnect, a rollback layer counts it as a failure, and anywhere else
\* the exception ends the module.
LostAt(where) ==
    IF where \in {"disable", "unit", "boot", "restart"} THEN "reconnect"
    ELSE IF where = "rollback" THEN "rollback" ELSE "done"

\* The connection drops under a command that would have left the host as h.
Drop(h) ==
    /\ ctl.session /\ Fault
    /\ host' \in {host, h}
    /\ pc' = LostAt(pc)
    /\ ctl' = [ctl EXCEPT !.session = FALSE, !.sent = @ \/ pc = "restart",
                          !.undone = @ /\ pc # "rollback",
                          !.layer = IF pc = "rollback" THEN @ + 1 ELSE @,
                          !.result = IF LostAt(pc) = "done" THEN "raised" ELSE @]

\* One command: its work, with the state it leaves, or its failure, or a drop.
Command(done, known, next, onFailure) ==
    \/ /\ ctl.session
       /\ host' = done /\ ctl' = known /\ pc' = next /\ UNCHANGED faults
    \/ /\ ctl.session /\ Fault /\ UNCHANGED host
       /\ IF onFailure = "done" THEN Result("raised") ELSE pc' = onFailure /\ UNCHANGED ctl
    \/ Drop(done)

\* The reply of the live-port probe: whether sshd or systemd owns the port.
\* An unknown error of `ss` reads as no listener, a known one is no answer.
Probe(port, yes, no, hard) ==
    \/ (IF port \in Listening(host) THEN yes ELSE no) /\ UNCHANGED faults
    \/ Fault /\ (no \/ hard)

-----------------------------------------------------------------------------
(* check() and the guards of apply()                                       *)

\* The socket unit would start sshd at the next boot and the service not.
BootPathNeedsApply(h) == h.sock /\ h.sockBoot /\ ~h.svcBoot

\* check(): every Port of the file is the target, the boot path does not
\* need the service, and the port is live.  A hard probe error warns and
\* needs apply.
Check ==
    /\ pc = "check"
    /\ \/ /\ host.file = "new" /\ ~BootPathNeedsApply(host) /\ "new" \in Listening(host)
          /\ Result("checked") /\ UNCHANGED faults
       \/ /\ ~(host.file = "new" /\ ~BootPathNeedsApply(host) /\ "new" \in Listening(host))
          /\ pc' = "guard" /\ UNCHANGED <<ctl, faults>>
       \/ /\ Fault /\ pc' = "guard"
          /\ UNCHANGED ctl
    /\ UNCHANGED host

\* The target has to be one of the static ssh.ports, and the firewall has to
\* admit it; a firewall that cannot be read is refused as well.
Guard ==
    /\ pc = "guard"
    /\ \/ /\ "new" \in ctl.configured /\ host.ufwAllows
          /\ pc' = "read" /\ UNCHANGED <<ctl, faults>>
       \/ /\ ~("new" \in ctl.configured /\ host.ufwAllows)
          /\ Result("refused") /\ UNCHANGED faults
       \/ Fault /\ Result("refused")
    /\ UNCHANGED host

\* Under the lease: read sshd_config and compare it with its rewrite.
Read ==
    /\ pc = "read"
    /\ Command(host,
               [ctl EXCEPT !.saved = host.file, !.before = AfterReboot(host)],
               IF host.file = "new" THEN "same" ELSE "write", "done")

\* Mutant: a file that names the target is taken for a daemon that is on it.
ConfigUnchanged_Trusting ==
    /\ pc = "same"
    /\ Result("ok")
    /\ UNCHANGED <<host, faults>>

\* The file already names the target.  A live target is success.  Otherwise
\* the firewall is asked again and the port of this session, which must be a
\* configured one, becomes the rollback's port.
ConfigUnchanged ==
    /\ pc = "same"
    /\ Probe("new",
             Result("ok"),
             IF host.ufwAllows /\ ctl.port \in ctl.configured
             THEN pc' = "capture" /\ ctl' = [ctl EXCEPT !.saved = ctl.port]
             ELSE Result("refused"),
             Result("refused"))
    /\ UNCHANGED host

\* The prospective file is validated, the guarded write compares and writes.
\* A write that failed after its work is undone; that rewrite may fail too.
Write ==
    /\ pc = "write"
    /\ LET written == [host EXCEPT !.file = "new"]
       IN \/ host' = written /\ pc' = "recheck" /\ UNCHANGED <<ctl, faults>>
          \/ Fault /\ Result("refused") /\ UNCHANGED host
          \/ Fault /\ Result("diverged") /\ host' = written
          \/ Drop(written)

\* The firewall again, after the write.  Refused, the file is written back,
\* three attempts that are verified.
Recheck ==
    /\ pc = "recheck"
    /\ \/ host.ufwAllows /\ pc' = "capture" /\ UNCHANGED <<host, ctl, faults>>
       \/ /\ ~host.ufwAllows
          /\ host' = [host EXCEPT !.file = ctl.saved]
          /\ Result("refused") /\ UNCHANGED faults
       \/ Fault /\ Result("refused") /\ host' = [host EXCEPT !.file = ctl.saved]
       \/ Fault /\ Result("diverged") /\ UNCHANGED host

-----------------------------------------------------------------------------
(* The restart                                                             *)

\* addPort(target), then what the socket unit looks like.
CaptureSocket ==
    /\ pc = "capture"
    /\ host' = host /\ UNCHANGED faults
    /\ ctl' = [ctl EXCEPT !.ports = @ \union {"new"},
                          !.snap = [sock |-> host.sock, boot |-> host.sockBoot, active |-> host.sockActive]]
    /\ pc' = "disable"

\* systemctl disable --now of the socket unit.
DisableSocket ==
    /\ pc = "disable"
    /\ IF ctl.snap.sock
       THEN Command([host EXCEPT !.sockBoot = FALSE, !.sockActive = FALSE], ctl, "unit", "undo")
       ELSE pc' = "unit" /\ UNCHANGED <<host, ctl, faults>>

\* sshd.service or ssh.service; a host with neither fails here.
ResolveUnit ==
    /\ pc = "unit"
    /\ Command(host, [ctl EXCEPT !.unit = TRUE], "boot", "undo")

\* The service takes over the boot path of an enabled socket unit.  Only a
\* call that returns tells the controller what the state was.
EnableServiceBoot ==
    /\ pc = "boot"
    /\ Command([host EXCEPT !.svcBoot = @ \/ ctl.snap.boot],
               [ctl EXCEPT !.booted = TRUE, !.svcWasOff = ~host.svcBoot], "restart", "undo")

\* A restarted sshd takes its port from the file, or the sockets of an
\* active unit.
Restarted(h) ==
    [h EXCEPT !.daemon = IF h.sockActive THEN "old"
                         ELSE IF h.file = "new" /\ ~h.binds THEN "none" ELSE h.file]

RestartService ==
    /\ pc = "restart"
    /\ Command(Restarted(host), [ctl EXCEPT !.sent = TRUE], "verify", "undo")

-----------------------------------------------------------------------------
(* After the restart                                                       *)

\* reconnect() tries the candidate ports; the server may also not answer.
Reconnects(candidates, won, lost) ==
    \/ /\ \E p \in candidates : Reachable(host, p)
       /\ won /\ UNCHANGED faults
    \/ (\A p \in candidates : ~Reachable(host, p)) /\ lost /\ UNCHANGED faults
    \/ Fault /\ lost

Reconnect ==
    /\ pc = "reconnect"
    /\ Reconnects(ctl.ports,
                  ctl' = [ctl EXCEPT !.session = TRUE] /\ pc' = "verify",
                  pc' = "fallback" /\ UNCHANGED ctl)
    /\ UNCHANGED host

\* The reconnect list after the target is given up; the last port stays.
WithoutTarget == IF ctl.ports = {"new"} THEN ctl.ports ELSE ctl.ports \ {"new"}

\* Mutant: the fallback forgets the port the session came from.
Fallback_NoOriginal ==
    /\ pc = "fallback"
    /\ Reconnects({"new"},
                  ctl' = [ctl EXCEPT !.session = TRUE, !.why = "verify"] /\ pc' = "rollback",
                  Result("lost"))
    /\ UNCHANGED host

\* The session did not come back: drop the target, offer the original port
\* and try once more; then roll back over that session, or report the loss.
Fallback ==
    /\ pc = "fallback"
    /\ LET candidates == WithoutTarget \union {ctl.port}
       IN Reconnects(candidates,
             ctl' = [ctl EXCEPT !.session = TRUE, !.ports = candidates, !.why = "verify"]
                /\ pc' = "rollback",
             ctl' = [ctl EXCEPT !.ports = candidates, !.result = "lost"] /\ pc' = "done")
    /\ UNCHANGED host

\* Five seconds of probes.  No listener, or no answer, rolls back.
Verify ==
    /\ pc = "verify"
    /\ Probe("new",
             Result("changed"),
             ctl' = [ctl EXCEPT !.why = "verify", !.ports = WithoutTarget] /\ pc' = "rollback",
             ctl' = [ctl EXCEPT !.why = "verify", !.ports = WithoutTarget] /\ pc' = "rollback")
    /\ UNCHANGED host

\* A step of the restart failed without a disconnect.
RestartFailed ==
    /\ pc = "undo"
    /\ ctl' = [ctl EXCEPT !.why = "restart", !.ports = WithoutTarget]
    /\ pc' = "rollback"
    /\ UNCHANGED <<host, faults>>

-----------------------------------------------------------------------------
(* The rollback: every layer is attempted, whatever became of the others   *)

\* restoreSocketActivatedSsh: enable, start, or both, as it was captured.
SocketRestored(h) ==
    [h EXCEPT !.sockBoot = @ \/ (ctl.snap.sock /\ ctl.snap.boot),
              !.sockActive = @ \/ (ctl.snap.sock /\ ctl.snap.active)]

\* The daemon's layer.  After a failed restart it is restarted if its unit is
\* known; after a failed verification only if it is not on the original port.
DaemonRestored(h) ==
    IF ctl.why = "restart" THEN (IF ctl.unit THEN Restarted(h) ELSE h)
    ELSE IF ctl.port \in Listening(h) THEN h ELSE Restarted(h)

\* What layer n puts back.
Layer(n) ==
    CASE n = 1 -> [host EXCEPT !.file = ctl.saved]
      [] n = 2 -> [host EXCEPT !.svcBoot = @ /\ ~(ctl.booted /\ ctl.svcWasOff)]
      [] n = 3 -> SocketRestored(host)
      [] n = 4 -> DaemonRestored(host)

\* Mutant: a layer waits for a lost session to come back.
RollbackLayer_Stuck ==
    /\ pc = "rollback" /\ ctl.layer <= 4
    /\ \/ /\ ctl.session
          /\ host' = Layer(ctl.layer)
          /\ ctl' = [ctl EXCEPT !.layer = @ + 1]
          /\ UNCHANGED <<pc, faults>>
       \/ Drop(Layer(ctl.layer))

\* A failed layer is noted and the next one is tried all the same.
RollbackLayer ==
    /\ pc = "rollback" /\ ctl.layer <= 4
    /\ \/ /\ ctl.session
          /\ host' = Layer(ctl.layer)
          /\ ctl' = [ctl EXCEPT !.layer = @ + 1]
          /\ pc' = pc /\ UNCHANGED faults
       \/ /\ ctl.session => Fault
          /\ ~ctl.session => UNCHANGED faults
          /\ ctl' = [ctl EXCEPT !.layer = @ + 1, !.undone = FALSE]
          /\ UNCHANGED <<host, pc>>
       \/ Drop(Layer(ctl.layer))

\* The failures of the layers are merged into the module's error.
RollbackDone ==
    /\ pc = "rollback" /\ ctl.layer = 5
    /\ Result(IF ctl.undone THEN "rolledback" ELSE "diverged")
    /\ UNCHANGED <<host, faults>>

-----------------------------------------------------------------------------

\* Another hand closes or opens the firewall for the target.
FirewallEdited ==
    /\ pc # "done" /\ Fault
    /\ host' = [host EXCEPT !.ufwAllows = ~@]
    /\ UNCHANGED <<ctl, pc>>

\* The playbook is run again: a new process connects on a configured port.
RunAgain ==
    /\ pc = "done" /\ ctl.run < MaxRuns
    /\ \E p \in ctl.configured :
          /\ Reachable(host, p)
          /\ ctl' = Fresh(ctl.run + 1, p, ctl.configured)
    /\ pc' = "check"
    /\ UNCHANGED <<host, faults>>

Section == Check \/ Guard \/ Read \/ ConfigUnchanged \/ Write \/ Recheck
           \/ CaptureSocket \/ DisableSocket \/ ResolveUnit \/ EnableServiceBoot \/ RestartService
           \/ Reconnect \/ Fallback \/ Verify \/ RestartFailed \/ RollbackLayer \/ RollbackDone

Next == Section \/ FirewallEdited \/ RunAgain
Spec == Init /\ [][Next]_vars

-----------------------------------------------------------------------------
(* Properties                                                              *)

\* "changed" is a promise about the daemon and about the next boot: sshd
\* answers on the target now, and if the restart was sent on a host that came
\* up with sshd before, it comes up with sshd on the target
\* (ensureSshServiceBootEnabled).
ChangedIsServed ==
    ctl.result = "changed" =>
        /\ "new" \in Listening(host) /\ host.file = "new" /\ "new" \in ctl.ports
        /\ (ctl.sent /\ ctl.before # {}) => "new" \in AfterReboot(host)

\* A disconnect is "the restart aborted the SSH session itself" (R-0000283,
\* sshd.ts:917): a run that takes it for the restart and reports "changed"
\* leaves a host that still starts sshd.
ChangedSurvivesReboot ==
    (ctl.result = "changed" /\ ctl.before # {}) => AfterReboot(host) # {}

\* check() says ok only when a reboot would not move sshd off the target.
CheckedSurvivesReboot ==
    ctl.result = "checked" => (AfterReboot(host) # {} => "new" \in AfterReboot(host))

\* What apply() and check() report is true of the daemon and of the next
\* boot.
ReportsAreTrue == ChangedIsServed /\ CheckedSurvivesReboot

\* An error that says "rolled back to previous config and port" is true: the
\* file is back, the port the session came from answers, and the boot path that was there
\* still leads to a listener (R-0000557, R-0000628).
FailuresAreTrue ==
    ctl.result = "rolledback" =>
        /\ host.file = ctl.saved
        /\ ctl.port # "new" => ctl.port \in Listening(host) \intersect ctl.ports
        /\ ctl.before # {} => AfterReboot(host) # {}

\* Two faults are not enough to lose a host that still answers on the port
\* the session came from: the drop, and one failed attempt to come back
\* (recoverFromReconnectFailureAfterDisconnect).
AccessIsKept ==
    (ctl.result = "lost" /\ faults - ctl.from <= 2) => ~Reachable(host, ctl.port)

\* Whatever earlier runs left behind, a run without a fault on a host whose
\* firewall admits the target and whose sshd can bind it puts sshd there.
CleanRunConverges ==
    (pc = "done" /\ ctl.from = faults /\ host.binds /\ host.ufwAllows /\ ctl.configured = Ports)
        => "new" \in Listening(host) /\ host.file = "new"
=============================================================================
