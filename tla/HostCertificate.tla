--------------------------- MODULE HostCertificate ---------------------------
(***************************************************************************)
(* The host-certificate transaction of packages/paratix/src/modules: the   *)
(* Pending manifest and its snapshots (sshHostCertificatePending.ts), the  *)
(* commit, rollback and recovery programs (sshHostCertificateRecovery.ts,  *)
(* sshHostCertificateCommit.ts) and the sections that run them             *)
(* (sshHostCertificateApply.ts).                                           *)
(*                                                                         *)
(* One transaction replaces two files, the certificate and sshd_config,    *)
(* and reloads sshd.  Its manifest is the only durable record of how far   *)
(* it got.  A section is a sequence of guarded remote commands; a command  *)
(* is a function of the host, so that a shell the controller gave up on    *)
(* can still apply it later.  Sections exclude each other and later        *)
(* commands of an ended section are refused: SshdLease.tla.                *)
(***************************************************************************)
EXTENDS Naturals

CONSTANTS
    Certs,      \* host certificates the signer may issue
    Absent,     \* there is no certificate file
    Foreign,    \* a certificate file an administrator put there
    None,       \* no manifest, no manifest-next, no command
    MaxFaults,  \* bound: interrupted commands, crashes and reboots
    MaxEdits    \* bound: external edits by an administrator

VARIABLES
    host,       \* the target's files, and what sshd has loaded
    pc,         \* next command of the section; "idle": no section runs
    cur,        \* the manifest the section believes in
    after,      \* where the section goes after a cleanup
    orphan,     \* an abandoned command whose shell still holds the kernel lock
    fenced,     \* the section's lease ran out: every command is refused
    faults,
    edits

sectionVars == <<cur, after>>
vars == <<host, pc, cur, after, orphan, fenced, faults, edits>>

-----------------------------------------------------------------------------
(* The host.                                                               *)

\* base counts the administrator's edits of the configuration's other lines.
Configs == [base : 0 .. MaxEdits, mapped : BOOLEAN]
Pairs == [cert : Certs \cup {Absent, Foreign}, config : Configs]
Phases == {"prepared", "rollback", "complete-new", "complete-old"}
Manifests == [orig : Pairs, cand : Pairs, deps : 0 .. MaxEdits, phase : Phases]

ASSUME CertificateAssumption ==
    /\ Absent \notin Certs /\ Foreign \notin Certs /\ Absent # Foreign
    /\ None \notin Manifests
    /\ MaxFaults \in Nat /\ MaxEdits \in Nat

Hosts ==
    [files : Pairs,                             \* the two active files
     live : Pairs,                              \* as loaded by the last reload
     deps : 0 .. MaxEdits,                      \* the host key and the includes
     manifest : Manifests \cup {None},
     next : Manifests \cup {None},              \* <directory>/manifest-next
     dir : {"none", "partial", "complete"}]     \* the transaction's snapshots;
                                 \* its name is random, a leftover one is inert

Complete(m) == m.phase \in {"complete-new", "complete-old"}

\* The files a complete manifest vouches for.
Target(m) == IF m.phase = "complete-new" THEN m.cand ELSE m.orig

Roles == {"cert", "config"}

\* The recorded old or the recorded new state, never foreign bytes.
Recorded(m, role, h) == h.files[role] \in {m.orig[role], m.cand[role]}

-----------------------------------------------------------------------------
(* Guarded commands as functions of the host.  marker is the manifest the  *)
(* command asserts (assertMarker), goal the manifest it writes.            *)

Command(op, marker, goal) == [op |-> op, marker |-> marker, goal |-> goal]

\* Mutant: the configuration is published before the certificate it names.
Publish_ConfigFirst(role, m, kind) ==
    LET r == IF role = "cert" THEN "config" ELSE "cert" IN
    [op |-> "publish", marker |-> m, role |-> r, to |-> m[kind][r]]

\* publishHostFile: one role's candidate or original becomes active.
Publish(role, m, kind) ==
    [op |-> "publish", marker |-> m, role |-> role, to |-> m[kind][role]]

Asserts(c, h) ==
    /\ h.manifest = c.marker
    /\ h.deps = c.marker.deps

Verified(c, h) ==
    /\ Asserts(c, h)
    /\ IF Complete(c.marker) THEN h.files = Target(c.marker)
       ELSE h.dir = "complete" /\ \A r \in Roles : Recorded(c.marker, r, h)

\* publishHostPending: the first manifest, over the untouched old state.
Announceable(c, h) ==
    /\ h.manifest = None
    /\ h.deps = c.goal.deps
    /\ h.dir = "complete" /\ h.next # None
    /\ h.files = c.goal.orig

\* transitionHostPending: a completion also asserts both files.
Movable(c, h) ==
    /\ Asserts(c, h)
    /\ Complete(c.goal) => h.files = Target(c.goal)
    /\ h.next # None

\* Mutant: a candidate or an original replaces whatever it finds.
Publishable_AnyBytes(c, h) == Asserts(c, h) /\ h.dir = "complete"

Publishable(c, h) ==
    /\ Asserts(c, h)
    /\ h.dir = "complete"
    /\ Recorded(c.marker, c.role, h)

\* Mutant: the cleanup insists on a snapshot directory.
Removable_WithSnapshots(c, h) == Asserts(c, h) /\ h.dir = "complete"

\* cleanupHostPending tolerates snapshots that are already gone.
Removable(c, h) == Asserts(c, h)

\* The shell gets past its assertions.
Accepts(c, h) ==
    CASE c.op \in {"read", "check", "reload", "mkdir", "discard"} -> TRUE
      [] c.op = "exists" -> h.manifest # None
      [] c.op = "verify" -> Verified(c, h)
      [] c.op \in {"snapshots", "write-next"} -> h.dir # "none"
      [] c.op = "announce" -> Announceable(c, h)
      [] c.op = "move" -> Movable(c, h)
      [] c.op = "publish" -> Publishable(c, h)
      [] c.op = "remove" -> Removable(c, h)

\* The host after the command ran to its end.
Effect(c, h) ==
    CASE c.op \in {"read", "check", "exists", "verify"} -> h
      [] c.op = "mkdir" -> [h EXCEPT !.dir = "partial", !.next = None]
      [] c.op = "snapshots" -> [h EXCEPT !.dir = "complete"]
      [] c.op = "write-next" -> [h EXCEPT !.next = c.goal]
      [] c.op \in {"announce", "move"} -> [h EXCEPT !.manifest = h.next, !.next = None]
      [] c.op = "publish" -> [h EXCEPT !.files[c.role] = c.to]
      [] c.op = "reload" -> [h EXCEPT !.live = h.files]
      [] c.op = "discard" -> [h EXCEPT !.dir = "none", !.next = None]
      [] c.op = "remove" -> [h EXCEPT !.dir = "none", !.next = None, !.manifest = None]

\* Where a kill may leave it.  Only the two deletions have several steps; the
\* manifest, a sibling of the directory, goes last.
Interrupted(c, h) ==
    {h, Effect(c, h)} \cup
    CASE c.op = "discard" -> {[h EXCEPT !.dir = "partial"]}
      [] c.op = "remove" -> {[h EXCEPT !.dir = "partial"],
                             [h EXCEPT !.dir = "none", !.next = None]}
      [] OTHER -> {}

-----------------------------------------------------------------------------
(* What a section sees of a command it issued.                             *)

Fault == faults < MaxFaults /\ faults' = faults + 1

Succeeds(c) ==
    /\ ~fenced
    /\ Accepts(c, host)
    /\ host' = Effect(c, host)
    /\ UNCHANGED <<orphan, fenced, faults>>

\* The command is refused; or it is killed, or sshd or systemd refuses; or its
\* channel times out while its shell holds the kernel lock, and by then the
\* marker its guard touched is stale (120 s against 60 s).
Fails(c) ==
    \/ /\ fenced \/ ~Accepts(c, host)
       /\ UNCHANGED <<host, orphan, fenced, faults>>
    \/ /\ Fault
       /\ ~fenced /\ Accepts(c, host)
       /\ host' \in Interrupted(c, host)
       /\ UNCHANGED <<orphan, fenced>>
    \/ /\ Fault
       /\ ~fenced
       /\ orphan' = c
       /\ fenced' = TRUE
       /\ UNCHANGED host

\* The remote command the section has issued and waits for.
Issued ==
    LET Phase(phase) == [cur EXCEPT !.phase = phase] IN
    CASE pc \in {"read", "failed"} -> Command("read", None, None)
      [] pc \in {"verify", "activate", "restore", "clean"} -> Command("verify", cur, None)
      \* requireReloadOnly, the candidate's validity, sshd -t and sshd -T
      [] pc \in {"validate", "validate-new", "assert-live", "validate-old", "check-old"} ->
            Command("check", None, None)
      [] pc = "put-cert" -> Publish("cert", cur, "cand")
      [] pc = "put-config" -> Publish("config", cur, "cand")
      [] pc = "back-cert" -> Publish("cert", cur, "orig")
      [] pc = "back-config" -> Publish("config", cur, "orig")
      [] pc \in {"reload-new", "reload-old"} -> Command("reload", None, None)
      [] pc = "mark-new" -> Command("write-next", None, Phase("complete-new"))
      [] pc = "move-new" -> Command("move", cur, Phase("complete-new"))
      [] pc = "mark-rollback" -> Command("write-next", None, Phase("rollback"))
      [] pc = "move-rollback" -> Command("move", cur, Phase("rollback"))
      [] pc = "mark-old" -> Command("write-next", None, Phase("complete-old"))
      [] pc = "move-old" -> Command("move", cur, Phase("complete-old"))
      [] pc = "write-next" -> Command("write-next", None, cur)
      [] pc = "announce" -> Command("announce", None, cur)
      [] pc = "remove" -> Command("remove", cur, None)
      [] pc = "unpublished" -> Command("exists", None, None)
      [] pc \in {"mkdir", "snapshots", "discard"} -> Command(pc, None, None)
      [] OTHER -> None

Step(at, then, otherwise) ==
    /\ pc = at
    /\ \/ Succeeds(Issued) /\ pc' = then
       \/ Fails(Issued) /\ pc' = otherwise
    /\ UNCHANGED <<sectionVars, edits>>

-----------------------------------------------------------------------------
(* recoverHostPending, at the start of every section.                      *)

StartSection ==
    /\ pc = "idle" /\ orphan = None
    /\ pc' = "read"
    /\ fenced' = FALSE
    /\ after' = "inspect"
    /\ cur' = None
    /\ UNCHANGED <<host, orphan, faults, edits>>

ReadPending ==
    /\ pc = "read"
    /\ \/ /\ Succeeds(Issued)
          /\ cur' = host.manifest
          /\ pc' = IF host.manifest = None THEN "inspect" ELSE "verify"
       \/ Fails(Issued) /\ cur' = cur /\ pc' = "idle"
    /\ UNCHANGED <<after, edits>>

\* Mutant: rollback is left for activation while the candidate looks valid.
VerifyPending_ResumesRollback ==
    pc = "verify" /\ \E way \in {"activate", "restore"} :
        /\ Complete(cur) => way = "activate"
        /\ Step("verify", IF Complete(cur) THEN "clean" ELSE way, "idle")

\* Another policy or an expired candidate is restored, as is a rollback that
\* was interrupted; a valid candidate of the same policy is resumed.
VerifyPending ==
    pc = "verify" /\ \E way \in {"activate", "restore"} :
        /\ (Complete(cur) \/ cur.phase = "rollback") => way = "restore"
        /\ Step("verify", IF Complete(cur) THEN "clean" ELSE way, "idle")

-----------------------------------------------------------------------------
(* commitHostPending: activatePendingCandidate, then the completion.       *)

\* requireReloadOnly, the candidate's validity and validateHostCandidate.
ActivateVerify == Step("activate", "validate-new", "failed")
ActivateValidate == Step("validate-new", "put-cert", "failed")

PutCertificate == Step("put-cert", "put-config", "failed")
PutConfig == Step("put-config", "assert-live", "failed")

\* Mutant: the candidate is marked complete without a reload.
AssertLive_NoReload ==
    Step("assert-live", "mark-new", "failed")

\* assertLiveConfiguration; no reload if neither file changes its bytes.
AssertLive ==
    Step("assert-live", IF cur.orig # cur.cand THEN "reload-new" ELSE "mark-new", "failed")

ReloadNew == Step("reload-new", "mark-new", "failed")

MarkNew == Step("mark-new", "move-new", "failed")

\* transitionHostPending's move; the section then believes in the new phase.
Move(at, phase, then, otherwise) ==
    /\ pc = at
    /\ \/ Succeeds(Issued) /\ cur' = [cur EXCEPT !.phase = phase] /\ pc' = then
       \/ Fails(Issued) /\ cur' = cur /\ pc' = otherwise
    /\ UNCHANGED <<after, edits>>

MoveNew == Move("move-new", "complete-new", "clean", "failed")

\* Mutant: a failure after the completion is rolled back like any other.
CommitFailure_RollsBack ==
    /\ pc = "failed"
    /\ \/ /\ Succeeds(Issued)
          /\ cur' = IF host.manifest = None THEN cur ELSE host.manifest
          /\ pc' = "restore"
       \/ Fails(Issued) /\ cur' = cur /\ pc' = "idle"
    /\ after' = "idle"
    /\ UNCHANGED edits

\* handleCommitFailure: re-read the durable phase, it may be complete by now.
CommitFailure ==
    /\ pc = "failed"
    /\ \/ /\ Succeeds(Issued)
          /\ cur' = IF host.manifest = None THEN cur ELSE host.manifest
          /\ pc' = IF Complete(cur') THEN "idle" ELSE "restore"
       \/ Fails(Issued) /\ cur' = cur /\ pc' = "idle"
    /\ after' = "idle"
    /\ UNCHANGED edits

-----------------------------------------------------------------------------
(* restoreHostPending.                                                     *)

RestoreVerify ==
    Step("restore", IF cur.phase = "rollback" THEN "validate-old" ELSE "mark-rollback", "idle")
MarkRollback == Step("mark-rollback", "move-rollback", "idle")
MoveRollback == Move("move-rollback", "rollback", "validate-old", "idle")
ValidateRestore == Step("validate-old", "back-cert", "idle")
BackCertificate == Step("back-cert", "back-config", "idle")
BackConfig == Step("back-config", "check-old", "idle")

RestoreCheck == Step("check-old", "reload-old", "idle")
ReloadOld == Step("reload-old", "mark-old", "idle")
MarkOld == Step("mark-old", "move-old", "idle")
MoveOld == Move("move-old", "complete-old", "clean", "idle")

\* cleanupHostPending: failures keep the completed manifest.
CleanupVerify == Step("clean", "remove", "idle")
CleanupRemove == Step("remove", after, "idle")

-----------------------------------------------------------------------------
(* commitUnderLease: inspect, prepare, validate, publish.                  *)

\* A section that only recovers or confirms ends here, and so does one that
\* finds the target converged.
EndSection ==
    /\ pc = "inspect"
    /\ pc' = "idle"
    /\ UNCHANGED <<host, sectionVars, orphan, fenced, faults, edits>>

\* inspectHostTarget reads the old state and derives the new one; a current
\* certificate is reused when only its mapping is missing.
Inspect ==
    /\ pc = "inspect"
    /\ \E c \in Certs :
          LET new == [cert |-> c, config |-> [host.files.config EXCEPT !.mapped = TRUE]] IN
          /\ new # host.files
          /\ cur' = [orig |-> host.files, cand |-> new, deps |-> host.deps,
                     phase |-> "prepared"]
    /\ after' = "idle"
    /\ pc' = "mkdir"
    /\ UNCHANGED <<host, orphan, fenced, faults, edits>>

MakeDirectory == Step("mkdir", "snapshots", "idle")
WriteSnapshots == Step("snapshots", "validate", "discard")
ValidateCandidate == Step("validate", "write-next", "unpublished")
WriteNext == Step("write-next", "announce", "unpublished")

\* Mutant: the snapshots of a failed announcement go without a look at it.
Announce_Discards == Step("announce", "activate", "discard")

Announce == Step("announce", "activate", "unpublished")

\* publishValidated's finally block.  test() is false for every exit code but
\* zero, also when the shell could not tell, and throws when it was killed.
Unpublished ==
    /\ pc = "unpublished"
    /\ \/ Succeeds(Issued) /\ pc' = "idle"
       \/ Fails(Issued) /\ fenced' = fenced /\ pc' = "discard"
       \/ Fails(Issued) /\ faults' # faults /\ pc' = "idle"
    /\ UNCHANGED <<sectionVars, edits>>

Discard == Step("discard", "idle", "idle")

-----------------------------------------------------------------------------
(* The environment.                                                        *)

\* The controller or its connection is gone; its last command lives on.
Crash ==
    /\ pc # "idle"
    /\ Fault
    /\ pc' = "idle"
    /\ orphan' = IF fenced THEN orphan ELSE Issued
    /\ UNCHANGED <<host, sectionVars, fenced, edits>>

\* An abandoned shell resumes, or is killed wherever it is.
OrphanEnds ==
    /\ orphan # None
    /\ host' \in IF Accepts(orphan, host) THEN Interrupted(orphan, host) ELSE {host}
    /\ orphan' = None
    /\ UNCHANGED <<pc, sectionVars, fenced, faults, edits>>

\* The target reboots: shells and connections are gone, sshd reads its files.
Reboot ==
    /\ Fault
    /\ host' = [host EXCEPT !.live = host.files]
    /\ orphan' = None
    /\ pc' = "idle"
    /\ UNCHANGED <<sectionVars, fenced, edits>>

\* An administrator edits a file outside of Paratix.
Edit ==
    /\ edits < MaxEdits
    /\ edits' = edits + 1
    /\ \/ host' = [host EXCEPT !.files.config.base = @ + 1]
       \/ host' = [host EXCEPT !.files.cert = Foreign]
       \/ host' = [host EXCEPT !.deps = @ + 1]
    /\ UNCHANGED <<pc, sectionVars, orphan, fenced, faults>>

-----------------------------------------------------------------------------

Init ==
    /\ LET bare == [cert |-> Absent, config |-> [base |-> 0, mapped |-> FALSE]] IN
       host = [files |-> bare, live |-> bare, deps |-> 0, manifest |-> None,
               next |-> None, dir |-> "none"]
    /\ pc = "idle"
    /\ cur = None
    /\ after = "idle"
    /\ orphan = None
    /\ fenced = FALSE
    /\ faults = 0
    /\ edits = 0

Recover == ReadPending \/ VerifyPending

Activate ==
    \/ ActivateVerify \/ ActivateValidate \/ PutCertificate \/ PutConfig
    \/ AssertLive \/ ReloadNew \/ MarkNew \/ MoveNew \/ CommitFailure

Restore ==
    \/ RestoreVerify \/ MarkRollback \/ MoveRollback \/ ValidateRestore
    \/ BackCertificate \/ BackConfig \/ RestoreCheck \/ ReloadOld \/ MarkOld \/ MoveOld
    \/ CleanupVerify \/ CleanupRemove

Prepare ==
    \/ MakeDirectory \/ WriteSnapshots \/ ValidateCandidate \/ WriteNext \/ Announce
    \/ Unpublished \/ Discard

Section == Recover \/ Activate \/ Restore \/ Prepare

Next ==
    \/ StartSection \/ Section \/ EndSection \/ Inspect
    \/ Crash \/ OrphanEnds \/ Reboot \/ Edit

Spec == Init /\ [][Next]_vars

\* The operator reruns the module, a running section and an abandoned shell
\* come to an end.  Nothing makes a fault or an edit happen.
FairSpec ==
    /\ Spec
    /\ WF_vars(StartSection)
    /\ WF_vars(Section \/ EndSection)
    /\ WF_vars(OrphanEnds)

-----------------------------------------------------------------------------
(* Properties.                                                             *)

Settled == edits = 0
InPhase(phase) == host.manifest # None /\ host.manifest.phase = phase

(* The type of the state. *)
TypeOK ==
    /\ host \in Hosts
    /\ cur \in Manifests \cup {None}
    /\ after \in {"inspect", "idle"}
    /\ fenced \in BOOLEAN
    /\ orphan # None => fenced \/ pc = "idle"
    /\ faults \in 0 .. MaxFaults /\ edits \in 0 .. MaxEdits

(* A completed manifest tells the truth: both files are the recorded new    *)
(* (or old) ones and sshd has loaded them, whatever was interrupted before  *)
(* (ADR 0009: effective checks, reload, then the completing transition).    *)
CompletionIsTrue ==
    Settled /\ host.manifest # None /\ Complete(host.manifest) =>
        host.files = Target(host.manifest) /\ host.live = host.files

(* When no Pending is left the daemon serves exactly what is on disk, and a *)
(* configuration that names a certificate finds one.                        *)
NoPendingMeansSettled ==
    Settled /\ host.manifest = None =>
        /\ host.live = host.files
        /\ host.files.config.mapped => host.files.cert # Absent

(* A settled host agrees with its manifest, or with the lack of one.        *)
ManifestIsTrue == TypeOK /\ CompletionIsTrue /\ NoPendingMeansSettled

(* The certificate precedes the configuration that references it            *)
(* (activatePendingCandidate).                                              *)
CertificateFirst ==
    Settled /\ InPhase("prepared") =>
        LET m == host.manifest IN
        host.files.config = m.cand.config /\ m.cand.config # m.orig.config =>
            host.files.cert = m.cand.cert

(* Completion is final: what fails afterwards retains the completed         *)
(* manifest and never triggers a rollback (commitHostPending).              *)
CompletionIsFinal ==
    [][host.manifest # None /\ Complete(host.manifest) =>
          host'.manifest \in {host.manifest, None}]_vars

(* Once a rollback is recorded no candidate is published any more, not by a *)
(* shell that was abandoned during the activation either.                   *)
RollbackOnlyRestores ==
    [][Settled /\ Settled' /\ InPhase("rollback") =>
          \A r \in Roles : host'.files[r] \in {host.files[r], host.manifest.orig[r]}]_vars

(* External edits are never overwritten with an older recorded state: they  *)
(* fail the recovery closed (ADR 0009).                                     *)
EditsSurvive ==
    [][/\ host'.files.config.base >= host.files.config.base
       /\ host.manifest # None /\ host.files.cert = Foreign
             /\ host.manifest.orig.cert # Foreign => host'.files.cert = Foreign]_vars

(* An unfinished Pending keeps the snapshots every recovery needs.          *)
PendingIsRecoverable ==
    host.manifest # None /\ ~Complete(host.manifest) => host.dir = "complete"

(* One fault at any point of a rotation leaves those snapshots whole.       *)
OneFaultIsRecoverable == faults <= 1 => PendingIsRecoverable

(* A Pending that still has its snapshots, and that no edit stands in the   *)
(* way of, is resolved by the reruns.                                       *)
RecoveryConverges ==
    host.manifest # None /\ Settled ~>
        host.manifest = None \/ ~Settled \/ ~PendingIsRecoverable

=============================================================================
