------------------------ MODULE HostCertificateProofs ------------------------
(***************************************************************************)
(* Proofs about HostCertificate for any certificates and any number of     *)
(* faults and external edits.                                              *)
(*                                                                         *)
(* A command can reach the host long after the section that issued it has  *)
(* ended, so the invariant follows the command and not the section:        *)
(*   Legit(c)     what the host still owes a command under way, issued or  *)
(*                abandoned, so that running it, or a part of it, is right; *)
(*   SectionInv   what a section knows between two of its commands, which  *)
(*                is what makes the next one legitimate;                   *)
(*   OrphanInv    an abandoned command stays legitimate, because nobody    *)
(*                else writes until it has ended;                          *)
(*   HostInv      what the files, the daemon, the manifest and the         *)
(*                snapshots say about each other.                          *)
(***************************************************************************)
EXTENDS HostCertificate, TLAPS

(* A manifest that a section made of the state it found: the candidate     *)
(* differs from the original, and neither names a certificate that is not  *)
(* there.                                                                  *)
Sound(m) ==
    /\ m \in Manifests
    /\ m.cand.cert \in Certs
    /\ m.cand.config = [m.orig.config EXCEPT !.mapped = TRUE]
    /\ m.cand # m.orig
    /\ Settled /\ m.orig.config.mapped => m.orig.cert # Absent

Served == host.live = host.files

LegitPublish(c) ==
    /\ Sound(c.marker) /\ c.role \in Roles
    /\ \/ /\ c.marker.phase = "prepared" /\ c.to = c.marker.cand[c.role]
          /\ Settled /\ c.role = "config" => host.files.cert = c.marker.cand.cert
       \/ c.marker.phase = "rollback" /\ c.to = c.marker.orig[c.role]

LegitMove(c) ==
    /\ Sound(c.goal) /\ c.goal.phase # "prepared" /\ host.next = c.goal
    /\ c.marker \in Manifests /\ ~Complete(c.marker)
    /\ Settled /\ Complete(c.goal) => Served

Legit(c) ==
    /\ c.op \in {"read", "check", "exists", "verify", "mkdir", "snapshots", "write-next",
                 "announce", "move", "publish", "reload", "discard", "remove"}
    /\ c.op = "mkdir" => host.manifest = None
    /\ c.op = "discard" => host.manifest = None \/ faults >= 2
    /\ c.op = "write-next" => c.goal \in Manifests
    /\ c.op = "announce" => Sound(c.goal) /\ c.goal.phase = "prepared" /\ host.next = c.goal
    /\ c.op = "move" => LegitMove(c)
    /\ c.op = "publish" => LegitPublish(c)
    /\ c.op = "remove" => c.marker \in Manifests /\ Complete(c.marker)

-----------------------------------------------------------------------------

Activating == {"activate", "validate-new", "put-cert", "put-config", "assert-live",
               "reload-new", "mark-new", "move-new", "failed"}
Preparing == {"mkdir", "snapshots", "validate", "write-next", "announce"}
RollingBack == {"validate-old", "back-cert", "back-config", "check-old", "reload-old",
                "mark-old", "move-old"}
Restoring == {"restore", "mark-rollback", "move-rollback"} \cup RollingBack
Withdrawing == {"unpublished", "discard"}
Cleaning == {"clean", "remove"}
Reading == {"idle", "read", "verify", "inspect"}
Points == Reading \cup Activating \cup Preparing \cup Restoring \cup Withdrawing \cup Cleaning

(* What the section believes in.                                           *)
Belief ==
    /\ pc \in {"verify"} \cup Activating \cup Preparing \cup Restoring \cup Cleaning => Sound(cur)
    /\ pc \in Activating \cup Preparing \cup {"mark-rollback", "move-rollback"} => cur.phase = "prepared"
    /\ pc = "restore" => ~Complete(cur)
    /\ pc \in RollingBack => cur.phase = "rollback"
    /\ pc \in Cleaning => Complete(cur)

(* What the host looks like to a section whose commands are accepted.      *)
Knowledge ==
    /\ pc \in {"inspect"} \cup Preparing => host.manifest = None
    /\ pc = "unpublished" => host.manifest = None \/ faults >= 1
    /\ pc = "discard" => host.manifest = None \/ faults >= 2
    /\ pc = "announce" => host.next = cur
    /\ pc = "move-new" => host.next = [cur EXCEPT !.phase = "complete-new"]
    /\ pc = "move-rollback" => host.next = [cur EXCEPT !.phase = "rollback"]
    /\ pc = "move-old" => host.next = [cur EXCEPT !.phase = "complete-old"]
    /\ Settled /\ pc = "put-config" => host.files.cert = cur.cand.cert
    /\ Settled /\ pc \in {"mark-new", "move-new", "mark-old", "move-old"} => Served

SectionInv ==
    /\ pc \in Points
    /\ Belief
    /\ ~fenced => Knowledge
    /\ fenced => pc \in {"idle", "failed"} \cup Withdrawing

OrphanInv ==
    /\ orphan # None => Legit(orphan)
    /\ pc # "idle" /\ ~fenced => orphan = None

HostInv ==
    /\ host.manifest # None => Sound(host.manifest)
    /\ CompletionIsTrue
    /\ NoPendingMeansSettled
    /\ CertificateFirst
    /\ OneFaultIsRecoverable
    /\ host.files.config.base <= edits /\ host.deps <= edits

IInv == TypeOK /\ HostInv /\ OrphanInv /\ SectionInv

-----------------------------------------------------------------------------
(* What a command does to the host.                                        *)

(* A manifest in another phase is a manifest.                              *)
LEMMA ManifestType ==
  ASSUME NEW m \in Manifests
  PROVE  /\ m # None
         /\ m.orig \in Pairs /\ m.cand \in Pairs /\ m.phase \in Phases
         /\ m.orig.cert \in Certs \cup {Absent, Foreign} /\ m.cand.cert \in Certs \cup {Absent, Foreign}
         /\ m.orig.config \in Configs /\ m.cand.config \in Configs
         /\ \A p \in Phases : [m EXCEPT !.phase = p] \in Manifests
  BY CertificateAssumption DEF Manifests, Pairs

(* The phase of a manifest says nothing about its soundness.               *)
LEMMA SoundPhase ==
  ASSUME NEW m, Sound(m), NEW p \in Phases
  PROVE  /\ Sound([m EXCEPT !.phase = p])
         /\ [m EXCEPT !.phase = p].phase = p
         /\ [m EXCEPT !.phase = p].orig = m.orig /\ [m EXCEPT !.phase = p].cand = m.cand
  BY DEF Sound, Manifests

(* A command leaves a host of the same shape.                              *)
LEMMA EffectType ==
  ASSUME TypeOK, NEW c, Legit(c), Accepts(c, host), host' \in Interrupted(c, host)
  PROVE  host' \in Hosts
<1>1. host \in Hosts
  BY DEF TypeOK
<1>2. CASE c.op \in {"read", "check", "exists", "verify"}
  BY <1>1, <1>2 DEF Interrupted, Effect
<1>3. CASE c.op = "mkdir"
  BY <1>1, <1>3 DEF Interrupted, Effect, Hosts
<1>4. CASE c.op = "snapshots"
  BY <1>1, <1>4 DEF Interrupted, Effect, Hosts
<1>5. CASE c.op = "write-next"
  BY <1>1, <1>5 DEF Interrupted, Effect, Hosts, Legit
<1>6. CASE c.op \in {"announce", "move"}
  BY <1>1, <1>6 DEF Interrupted, Effect, Hosts
<1>7. CASE c.op = "publish"
  <2>1. Sound(c.marker) /\ c.role \in Roles /\ c.to \in {c.marker.cand[c.role], c.marker.orig[c.role]}
    BY <1>7 DEF Legit, LegitPublish
  <2>2. CASE c.role = "cert"
    <3>1. c.to \in Certs \cup {Absent, Foreign}
      BY <2>1, <2>2 DEF Sound, Manifests, Pairs
    <3>2. QED
      BY <1>1, <1>7, <2>2, <3>1 DEF Interrupted, Effect, Hosts, Pairs
  <2>3. CASE c.role = "config"
    <3>1. c.to \in Configs
      BY <2>1, <2>3 DEF Sound, Manifests, Pairs
    <3>2. QED
      BY <1>1, <1>7, <2>3, <3>1 DEF Interrupted, Effect, Hosts, Pairs
  <2>4. QED
    BY <2>1, <2>2, <2>3 DEF Roles
<1>8. CASE c.op = "reload"
  BY <1>1, <1>8 DEF Interrupted, Effect, Hosts
<1>9. CASE c.op \in {"discard", "remove"}
  BY <1>1, <1>9 DEF Interrupted, Effect, Hosts
<1>10. QED
  BY <1>2, <1>3, <1>4, <1>5, <1>6, <1>7, <1>8, <1>9 DEF Legit

(* What the invariant of the host looks at stays, or faults are counted.   *)
LEMMA HostUntouched ==
  ASSUME HostInv, edits' = edits, faults' \in {faults, faults + 1}, faults \in Nat,
         host'.files = host.files, host'.live \in {host.live, host.files},
         host'.deps = host.deps, host'.manifest = host.manifest,
         host.manifest = None \/ Complete(host.manifest) \/ host'.dir \in {host.dir, "complete"} \/ faults' >= 2
  PROVE  HostInv'
<1>1. host'.manifest # None => Sound(host.manifest)'
  BY DEF HostInv, Sound, Settled
<1>2. CompletionIsTrue' /\ NoPendingMeansSettled'
  BY DEF HostInv, CompletionIsTrue, NoPendingMeansSettled, Settled
<1>3. CertificateFirst'
  BY DEF HostInv, CertificateFirst, InPhase, Settled
<1>4. OneFaultIsRecoverable'
  BY DEF HostInv, OneFaultIsRecoverable, PendingIsRecoverable
<1>5. QED
  BY <1>1, <1>2, <1>3, <1>4 DEF HostInv

(* publishHostPending writes the first manifest over the state it records. *)
LEMMA AnnounceKeeps ==
  ASSUME TypeOK, HostInv, NEW c, Legit(c), c.op = "announce", Accepts(c, host),
         host' = Effect(c, host), edits' = edits, faults' \in {faults, faults + 1}
  PROVE  HostInv'
<1>1. /\ Sound(c.goal) /\ c.goal.phase = "prepared" /\ host.next = c.goal
      /\ host.dir = "complete" /\ host.files = c.goal.orig
  BY DEF Legit, Accepts, Announceable
<1>2. /\ host'.manifest = c.goal /\ host'.files = host.files /\ host'.dir = "complete"
      /\ host'.deps = host.deps
  BY <1>1 DEF Effect, TypeOK, Hosts
<1>3. host'.manifest # None /\ ~Complete(host'.manifest)
  BY <1>1, <1>2, ManifestType DEF Sound, Complete
<1>4. Sound(host.manifest)'
  BY <1>1, <1>2 DEF Sound, Settled
<1>5. CertificateFirst'
  BY <1>1, <1>2 DEF CertificateFirst, InPhase
<1>6. QED
  BY <1>2, <1>3, <1>4, <1>5
     DEF HostInv, CompletionIsTrue, NoPendingMeansSettled, OneFaultIsRecoverable, PendingIsRecoverable, Settled

(* transitionHostPending: a completion is written over both of its files,  *)
(* which sshd has loaded.                                                  *)
LEMMA MoveKeeps ==
  ASSUME TypeOK, HostInv, NEW c, Legit(c), c.op = "move", Accepts(c, host),
         host' = Effect(c, host), edits' = edits, faults' \in {faults, faults + 1}
  PROVE  HostInv'
<1>1. /\ Sound(c.goal) /\ c.goal.phase # "prepared" /\ host.next = c.goal
      /\ ~Complete(c.marker) /\ host.manifest = c.marker /\ c.marker \in Manifests
      /\ Complete(c.goal) => host.files = Target(c.goal)
      /\ Settled /\ Complete(c.goal) => Served
  BY DEF Legit, LegitMove, Accepts, Movable, Asserts
<1>2. /\ host'.manifest = c.goal /\ host'.files = host.files /\ host'.live = host.live
      /\ host'.dir = host.dir /\ host'.deps = host.deps
  BY <1>1 DEF Effect, TypeOK, Hosts
<1>3. host'.manifest # None /\ host.manifest # None
  BY <1>1, <1>2, ManifestType DEF Sound
<1>4. Sound(host.manifest)'
  BY <1>1, <1>2 DEF Sound, Settled
<1>5. CompletionIsTrue' /\ CertificateFirst' /\ NoPendingMeansSettled'
  BY <1>1, <1>2, <1>3 DEF CompletionIsTrue, CertificateFirst, NoPendingMeansSettled, InPhase, Settled, Served
<1>6. OneFaultIsRecoverable'
  BY <1>1, <1>2, <1>3 DEF HostInv, OneFaultIsRecoverable, PendingIsRecoverable, TypeOK
<1>7. QED
  BY <1>2, <1>4, <1>5, <1>6 DEF HostInv

(* publishHostFile: the candidate's configuration follows its certificate, *)
(* and a complete manifest publishes nothing.                              *)
LEMMA PublishKeeps ==
  ASSUME TypeOK, HostInv, NEW c, Legit(c), c.op = "publish", Accepts(c, host),
         host' = Effect(c, host), edits' = edits, faults' \in {faults, faults + 1}
  PROVE  HostInv'
<1>1. /\ Sound(c.marker) /\ c.role \in Roles /\ host.manifest = c.marker
      /\ Recorded(c.marker, c.role, host) /\ host.manifest # None
      /\ ~Complete(c.marker) /\ c.marker.phase \in {"prepared", "rollback"}
  BY ManifestType DEF Legit, LegitPublish, Accepts, Publishable, Asserts, Sound, Complete
<1>2. /\ host'.manifest = host.manifest /\ host'.dir = host.dir /\ host'.deps = host.deps
      /\ c.role = "cert" => host'.files.cert = c.to /\ host'.files.config = host.files.config
      /\ c.role = "config" => host'.files.config = c.to /\ host'.files.cert = host.files.cert
  BY DEF Effect, TypeOK, Hosts, Pairs
<1>3. Sound(host.manifest)'
  BY <1>1, <1>2 DEF Sound, Settled
<1>4. CertificateFirst'
  <2> SUFFICES ASSUME Settled, c.marker.phase = "prepared",
                      host'.files.config = c.marker.cand.config,
                      c.marker.cand.config # c.marker.orig.config
               PROVE  host'.files.cert = c.marker.cand.cert
    BY <1>1, <1>2 DEF CertificateFirst, InPhase, Settled
  <2>1. c.to = c.marker.cand[c.role] /\ (c.role = "config" => host.files.cert = c.marker.cand.cert)
    BY DEF Legit, LegitPublish
  <2>2. QED
    BY <1>1, <1>2, <2>1 DEF Roles
<1>5. host'.files.config.base <= edits
  <2>1. CASE c.role = "cert"
    BY <1>2, <2>1 DEF HostInv
  <2>2. CASE c.role = "config"
    <3>1. host.files.config.base = c.marker.orig.config.base
      BY <1>1, <2>2 DEF Recorded, Sound, Manifests, Pairs, Configs
    <3>2. c.to.base = c.marker.orig.config.base
      BY <2>2 DEF Legit, LegitPublish, Sound, Manifests, Pairs, Configs
    <3>3. QED
      BY <1>2, <2>2, <3>1, <3>2 DEF HostInv
  <2>3. QED
    BY <1>1, <2>1, <2>2 DEF Roles
<1>6. OneFaultIsRecoverable'
  BY <1>1, <1>2 DEF HostInv, OneFaultIsRecoverable, PendingIsRecoverable, TypeOK
<1>7. QED
  BY <1>1, <1>2, <1>3, <1>4, <1>5, <1>6 DEF HostInv, CompletionIsTrue, NoPendingMeansSettled

(* cleanupHostPending: without its manifest the host is settled, because   *)
(* the manifest was a completed one.                                       *)
LEMMA RemoveKeeps ==
  ASSUME TypeOK, HostInv, NEW c, Legit(c), c.op = "remove", Accepts(c, host),
         host' \in Interrupted(c, host), edits' = edits, faults' \in {faults, faults + 1}
  PROVE  HostInv'
<1>1. /\ c.marker \in Manifests /\ Complete(c.marker) /\ host.manifest = c.marker
      /\ host.manifest # None
  BY ManifestType DEF Legit, Accepts, Removable, Asserts
<1>2. /\ host'.files = host.files /\ host'.live = host.live /\ host'.deps = host.deps
      /\ host'.manifest \in {host.manifest, None}
  BY DEF Interrupted, Effect, TypeOK, Hosts
<1>3. CASE host'.manifest = host.manifest
  BY <1>1, <1>2, <1>3, HostUntouched DEF TypeOK
<1>4. CASE host'.manifest = None
  <2>1. Settled => /\ host.files = Target(c.marker) /\ Served
                   /\ host.files.config.mapped => host.files.cert # Absent
    <3>1. Sound(c.marker)
      BY <1>1 DEF HostInv
    <3>2. Settled => host.files \in {c.marker.cand, c.marker.orig} /\ host.files = Target(c.marker) /\ Served
      BY <1>1 DEF HostInv, CompletionIsTrue, Served, Target
    <3>3. QED
      BY <3>1, <3>2, CertificateAssumption DEF Sound
  <2>2. QED
    BY <1>2, <1>4, <2>1
       DEF HostInv, CompletionIsTrue, NoPendingMeansSettled, CertificateFirst, InPhase, OneFaultIsRecoverable,
           PendingIsRecoverable, Settled, Served
<1>5. QED
  BY <1>2, <1>3, <1>4

(* Whatever becomes of a legitimate command, the host stays consistent.    *)
LEMMA CommandKeeps ==
  ASSUME TypeOK, HostInv, NEW c, Legit(c), Accepts(c, host),
         host' \in Interrupted(c, host), edits' = edits, faults' \in {faults, faults + 1}
  PROVE  HostInv'
<1>1. CASE host' = host
  BY <1>1, HostUntouched DEF TypeOK
<1>2. CASE host' # host /\ c.op = "announce"
  BY <1>2, AnnounceKeeps DEF Interrupted
<1>3. CASE host' # host /\ c.op = "move"
  BY <1>3, MoveKeeps DEF Interrupted
<1>4. CASE host' # host /\ c.op = "publish"
  BY <1>4, PublishKeeps DEF Interrupted
<1>5. CASE c.op = "remove"
  BY <1>5, RemoveKeeps
<1>6. CASE c.op \in {"read", "check", "exists", "verify"}
  BY <1>1, <1>6 DEF Interrupted, Effect
<1>7. CASE c.op \in {"mkdir", "snapshots", "write-next", "reload", "discard"}
  <2>1. /\ host'.files = host.files /\ host'.live \in {host.live, host.files}
        /\ host'.deps = host.deps /\ host'.manifest = host.manifest
    BY <1>7 DEF Interrupted, Effect, TypeOK, Hosts
  <2>2. \/ host.manifest = None \/ faults' >= 2
        \/ host'.dir \in {host.dir, "complete"}
    BY <1>7 DEF Interrupted, Effect, TypeOK, Hosts, Legit
  <2>3. QED
    BY <2>1, <2>2, HostUntouched DEF TypeOK
<1>8. QED
  BY <1>1, <1>2, <1>3, <1>4, <1>5, <1>6, <1>7 DEF Legit

-----------------------------------------------------------------------------
(* The commands of a section and of an abandoned shell.                    *)

(* What a section issues is legitimate by what it believes.                *)
LEMMA IssuedLegit ==
  ASSUME IInv, ~fenced, pc \notin {"idle", "inspect"}
  PROVE  Legit(Issued)
<1> USE DEF IInv, SectionInv, Belief, Knowledge
<1> USE DEF Points, Reading, Activating, Preparing, RollingBack, Restoring, Withdrawing, Cleaning
<1>1. CASE pc \in {"read", "failed", "verify", "activate", "restore", "clean", "validate", "validate-new",
                   "assert-live", "validate-old", "check-old", "reload-new", "reload-old",
                   "unpublished"}
  <2>1. Issued.op \in {"read", "verify", "check", "reload", "exists"}
    BY <1>1 DEF Issued, Command
  <2>2. QED
    BY <2>1 DEF Legit
<1>2. CASE pc = "remove"
  BY <1>2 DEF Issued, Command, Legit, Sound
<1>3. CASE pc \in {"put-cert", "put-config"}
  <2>1. /\ Issued.op = "publish" /\ Issued.marker = cur /\ Issued.to = cur.cand[Issued.role]
        /\ Issued.role = IF pc = "put-cert" THEN "cert" ELSE "config"
    BY <1>3 DEF Issued, Publish
  <2>2. QED
    BY <1>3, <2>1 DEF Legit, LegitPublish, Roles
<1>4. CASE pc \in {"back-cert", "back-config"}
  <2>1. /\ Issued.op = "publish" /\ Issued.marker = cur /\ Issued.to = cur.orig[Issued.role]
        /\ Issued.role = IF pc = "back-cert" THEN "cert" ELSE "config"
    BY <1>4 DEF Issued, Publish
  <2>2. QED
    BY <1>4, <2>1 DEF Legit, LegitPublish, Roles
<1>5. CASE pc \in {"mark-new", "mark-rollback", "mark-old"}
  <2>1. Issued.op = "write-next"
        /\ \E p \in Phases : Issued.goal = [cur EXCEPT !.phase = p]
    BY <1>5 DEF Issued, Command, Phases
  <2>2. QED
    BY <1>5, <2>1, ManifestType DEF Legit, Sound
<1>6. CASE pc = "write-next"
  BY <1>6 DEF Issued, Command, Legit, Sound
<1>7. CASE pc = "announce"
  BY <1>7 DEF Issued, Command, Legit
<1>8. CASE pc \in {"move-new", "move-rollback", "move-old"}
  <2> DEFINE p == IF pc = "move-new" THEN "complete-new"
                  ELSE IF pc = "move-old" THEN "complete-old" ELSE "rollback"
  <2>1. /\ Issued.op = "move" /\ Issued.marker = cur
        /\ Issued.goal = [cur EXCEPT !.phase = p] /\ p \in Phases
    BY <1>8 DEF Issued, Command, Phases
  <2>2. Sound(Issued.goal) /\ Issued.goal.phase = p
    BY <1>8, <2>1, SoundPhase
  <2>3. cur \in Manifests /\ ~Complete(cur)
    BY <1>8 DEF Sound, Complete
  <2>4. Settled /\ Complete(Issued.goal) => Served
    BY <1>8, <2>2 DEF Complete
  <2>5. QED
    BY <1>8, <2>1, <2>2, <2>3, <2>4 DEF Legit, LegitMove
<1>9. CASE pc \in {"mkdir", "snapshots", "discard"}
  <2>1. Issued.op = pc
    BY <1>9 DEF Issued, Command
  <2>2. QED
    BY <1>9, <2>1 DEF Legit
<1>10. QED
  BY <1>1, <1>2, <1>3, <1>4, <1>5, <1>6, <1>7, <1>8, <1>9

(* A command that is given up stays legitimate: nobody else writes.        *)
LEMMA Abandoned ==
  ASSUME NEW c, Legit(c), orphan' = c, host' = host, edits' = edits,
         faults \in Nat, faults' \in {faults, faults + 1}
  PROVE  Legit(orphan)'
<1>1. LegitPublish(c) => LegitPublish(orphan)'
  BY DEF LegitPublish, Sound, Settled
<1>2. LegitMove(c) => LegitMove(orphan)'
  BY DEF LegitMove, Sound, Settled, Served
<1>3. QED
  BY <1>1, <1>2 DEF Legit, Sound, Settled

(* What has become of the host and of the shells once the section knows    *)
(* how its command ended.                                                  *)
LEMMA Outcome ==
  ASSUME IInv, pc \notin {"idle", "inspect"}, Succeeds(Issued) \/ Fails(Issued), edits' = edits
  PROVE  /\ host' \in Hosts /\ HostInv'
         /\ orphan' # None => Legit(orphan)'
         /\ ~fenced' => ~fenced /\ orphan' = None
         /\ fenced => fenced'
         /\ fenced' \in BOOLEAN /\ faults' \in 0 .. MaxFaults
         /\ faults' \in {faults, faults + 1}
         /\ fenced' \/ host' = host \/ (Legit(Issued) /\ Accepts(Issued, host) /\ host' \in Interrupted(Issued, host))
<1> USE DEF IInv
<1>1. /\ fenced' \in BOOLEAN /\ faults' \in 0 .. MaxFaults /\ faults \in Nat
      /\ faults' \in {faults, faults + 1}
      /\ fenced => fenced'
  <2>1. fenced' \in BOOLEAN /\ (fenced => fenced')
    BY Zenon DEF TypeOK, Succeeds, Fails
  <2>2. faults' = faults \/ (faults < MaxFaults /\ faults' = faults + 1)
    BY DEF Succeeds, Fails, Fault
  <2>3. QED
    BY <2>1, <2>2, CertificateAssumption DEF TypeOK
<1>2. CASE host' = host /\ UNCHANGED <<orphan, fenced>>
  <2>1. HostInv'
    BY <1>1, <1>2, HostUntouched
  <2>2. orphan' # None => Legit(orphan)'
    BY <1>1, <1>2, Abandoned DEF OrphanInv
  <2>3. ~fenced' => ~fenced /\ orphan' = None
    BY <1>2 DEF OrphanInv
  <2>4. QED
    BY <1>1, <1>2, <2>1, <2>2, <2>3 DEF TypeOK
<1>3. CASE /\ ~fenced /\ Accepts(Issued, host) /\ host' \in Interrupted(Issued, host)
           /\ UNCHANGED <<orphan, fenced>>
  <2>1. Legit(Issued) /\ orphan = None
    BY <1>3, IssuedLegit DEF OrphanInv
  <2>2. HostInv' /\ host' \in Hosts
    BY <1>1, <1>3, <2>1, CommandKeeps, EffectType
  <2>3. QED
    BY <1>1, <1>3, <2>1, <2>2
<1>4. CASE ~fenced /\ fenced' /\ orphan' = Issued /\ host' = host
  <2>1. Legit(Issued)
    BY <1>4, IssuedLegit
  <2>2. HostInv' /\ Legit(orphan)'
    BY <1>1, <1>4, <2>1, HostUntouched, Abandoned
  <2>3. QED
    BY <1>1, <1>4, <2>1, <2>2 DEF TypeOK
<1>5. QED
  BY <1>2, <1>3, <1>4 DEF Succeeds, Fails, Interrupted

-----------------------------------------------------------------------------
(* From one command of a section to the next.                              *)

(* The points at which a section needs to know nothing about the host.     *)
Blind == {"idle", "read", "verify", "activate", "validate-new", "put-cert", "assert-live",
          "reload-new", "failed", "restore", "mark-rollback", "validate-old", "back-cert",
          "back-config", "check-old", "reload-old", "clean", "remove"}

(* At these points a section knows nothing of the host.                    *)
LEMMA BlindPoint ==
  ASSUME pc' \in Blind, Belief', fenced' => pc' \in {"idle", "failed"}
  PROVE  SectionInv'
  BY DEF Blind, SectionInv, Knowledge, Points, Reading, Activating, Preparing, RollingBack,
         Restoring, Withdrawing, Cleaning

(* A section that believes in the same manifest believes in the same way.  *)
LEMMA BeliefStays ==
  ASSUME SectionInv, cur' = cur, edits' = edits,
         \/ pc' \in {"idle"}
         \/ pc \in Activating /\ pc' \in Activating
         \/ pc \in RollingBack /\ pc' \in RollingBack
         \/ pc \in Preparing /\ pc' \in Preparing \cup {"activate"} \cup Withdrawing
         \/ pc \in Withdrawing /\ pc' \in Withdrawing
         \/ pc \in Cleaning /\ pc' \in Cleaning \cup {"inspect"}
         \/ pc \in {"mark-rollback", "move-rollback"} /\ pc' \in {"mark-rollback", "move-rollback"}
  PROVE  Belief'
  BY DEF SectionInv, Belief, Sound, Settled, Activating, Preparing, RollingBack, Restoring, Withdrawing, Cleaning

(* A step that issues or awaits a command keeps the invariant.             *)
LEMMA CommandStep ==
  ASSUME IInv, pc \notin {"idle", "inspect"}, Succeeds(Issued) \/ Fails(Issued), edits' = edits,
         cur' \in Manifests \cup {None}, after' \in {"inspect", "idle"}, SectionInv'
  PROVE  IInv'
<1>1. /\ host' \in Hosts /\ HostInv'
      /\ orphan' # None => Legit(orphan)'
      /\ ~fenced' => orphan' = None
      /\ fenced' \in BOOLEAN /\ faults' \in 0 .. MaxFaults
  BY Outcome
<1>2. TypeOK'
  BY <1>1 DEF IInv, TypeOK
<1>3. OrphanInv'
  BY <1>1 DEF OrphanInv
<1>4. QED
  BY <1>1, <1>2, <1>3 DEF IInv

(* commitHostPending: the files are published and loaded in their order.   *)
LEMMA ActivateSection ==
  ASSUME IInv, edits' = edits, cur' = cur,
         \/ ActivateVerify \/ ActivateValidate \/ PutCertificate \/ PutConfig
         \/ AssertLive \/ ReloadNew \/ MarkNew
  PROVE  SectionInv'
<1> USE DEF Activating
<1>1. pc \in Activating \ {"move-new", "failed"} /\ (Succeeds(Issued) \/ Fails(Issued))
  BY DEF ActivateVerify, ActivateValidate, PutCertificate, PutConfig, AssertLive, ReloadNew, MarkNew, Step
<1>2. ~fenced /\ Sound(cur) /\ cur.phase = "prepared"
  BY <1>1 DEF IInv, SectionInv, Belief, Withdrawing
<1>3. \/ Fails(Issued) /\ pc' = "failed"
      \/ Succeeds(Issued) /\ pc' \in Activating
  BY DEF ActivateVerify, ActivateValidate, PutCertificate, PutConfig, AssertLive, ReloadNew, MarkNew, Step
<1>4. Belief'
  BY <1>1, <1>3, BeliefStays DEF IInv
<1>5. CASE Fails(Issued) /\ pc' = "failed"
  BY <1>4, <1>5, BlindPoint DEF Blind
<1>6. CASE Succeeds(Issued) /\ pc' \in Blind
  BY <1>2, <1>4, <1>6, BlindPoint DEF Succeeds
<1>7. CASE Succeeds(Issued) /\ PutCertificate
  <2>1. (pc = "put-cert" /\ pc' = "put-config") \/ pc' = "failed"
    BY <1>7 DEF PutCertificate, Step
  <2>2. CASE pc' = "failed"
    BY <1>2, <1>4, <1>7, <2>2, BlindPoint DEF Blind, Succeeds
  <2>3. CASE pc = "put-cert" /\ pc' = "put-config"
    <3>1. host' = [host EXCEPT !.files["cert"] = cur.cand["cert"]] /\ fenced' = fenced
      BY <1>7, <2>3 DEF Succeeds, Issued, Publish, Effect
    <3>2. host'.files.cert = cur.cand.cert
      BY <3>1 DEF IInv, TypeOK, Hosts, Pairs
    <3>3. QED
      BY <1>2, <1>4, <2>3, <3>1, <3>2 DEF SectionInv, Knowledge, Points, Cleaning, Preparing
  <2>4. QED
    BY <2>1, <2>2, <2>3
<1>8. CASE Succeeds(Issued) /\ ReloadNew
  <2>1. pc = "reload-new" /\ pc' \in {"mark-new", "failed"}
    BY <1>8 DEF ReloadNew, Step
  <2>2. CASE pc' = "failed"
    BY <1>2, <1>4, <1>8, <2>2, BlindPoint DEF Blind, Succeeds
  <2>3. CASE pc' = "mark-new"
    <3>1. host' = [host EXCEPT !.live = host.files] /\ fenced' = fenced
      BY <1>8, <2>1 DEF Succeeds, Issued, Command, Effect
    <3>2. Served'
      BY <3>1 DEF IInv, TypeOK, Hosts, Served
    <3>3. QED
      BY <1>2, <1>4, <2>3, <3>1, <3>2 DEF SectionInv, Knowledge, Points, Cleaning, Preparing
  <2>4. QED
    BY <2>1, <2>2, <2>3
<1>9. CASE Succeeds(Issued) /\ MarkNew
  <2>1. pc = "mark-new" /\ pc' \in {"move-new", "failed"}
    BY <1>9 DEF MarkNew, Step
  <2>2. CASE pc' = "failed"
    BY <1>2, <1>4, <1>9, <2>2, BlindPoint DEF Blind, Succeeds
  <2>3. CASE pc' = "move-new"
    <3>1. host' = [host EXCEPT !.next = [cur EXCEPT !.phase = "complete-new"]] /\ fenced' = fenced
      BY <1>9, <2>1 DEF Succeeds, Issued, Command, Effect
    <3>2. /\ host'.next = [cur EXCEPT !.phase = "complete-new"]
          /\ host'.live = host.live /\ host'.files = host.files
      BY <3>1 DEF IInv, TypeOK, Hosts
    <3>3. Settled' => Served'
      BY <1>2, <2>1, <3>2 DEF IInv, SectionInv, Knowledge, Settled, Served
    <3>4. QED
      BY <1>2, <1>4, <2>3, <3>1, <3>2, <3>3 DEF SectionInv, Knowledge, Points, Cleaning, Preparing
  <2>4. QED
    BY <2>1, <2>2, <2>3
<1>10. CASE Succeeds(Issued) /\ AssertLive
  <2>1. pc' \in {"reload-new", "failed"}
    BY <1>2, <1>10 DEF AssertLive, Step, Sound
  <2>2. QED
    BY <1>2, <1>4, <1>10, <2>1, BlindPoint DEF Blind, Succeeds
<1>11. CASE Succeeds(Issued) /\ (ActivateVerify \/ ActivateValidate \/ PutConfig)
  BY <1>6, <1>11 DEF ActivateVerify, ActivateValidate, PutConfig, Step, Blind
<1>12. QED
  BY <1>3, <1>5, <1>7, <1>8, <1>9, <1>10, <1>11

(* A section that resolved a Pending goes on only when it is gone.         *)
LEMMA CleanupSection ==
  ASSUME IInv, edits' = edits, cur' = cur, CleanupVerify \/ CleanupRemove
  PROVE  SectionInv'
<1> USE DEF Cleaning
<1>1. pc \in Cleaning /\ (Succeeds(Issued) \/ Fails(Issued))
  BY DEF CleanupVerify, CleanupRemove, Step
<1>2. ~fenced
  BY <1>1 DEF IInv, SectionInv, Withdrawing
<1>3. CASE pc' = "idle"
  BY <1>1, <1>3, BeliefStays, BlindPoint DEF IInv, Blind
<1>4. CASE pc' = "remove" /\ Succeeds(Issued)
  BY <1>1, <1>2, <1>4, BeliefStays, BlindPoint DEF IInv, Blind, Succeeds
<1>5. CASE pc = "remove" /\ pc' = "inspect" /\ Succeeds(Issued)
  <2>1. host'.manifest = None /\ fenced' = fenced
    BY <1>5 DEF Succeeds, Issued, Command, Effect, IInv, TypeOK, Hosts
  <2>2. Belief'
    BY <1>1, <1>5, BeliefStays DEF IInv
  <2>3. QED
    BY <1>2, <1>5, <2>1, <2>2 DEF SectionInv, Knowledge, Points, Reading, Preparing
<1>6. QED
  <2>1. \/ pc' = "idle"
        \/ pc' = "remove" /\ Succeeds(Issued)
        \/ pc = "remove" /\ pc' = after /\ Succeeds(Issued)
    BY DEF CleanupVerify, CleanupRemove, Step
  <2>2. after \in {"inspect", "idle"}
    BY DEF IInv, TypeOK
  <2>3. QED
    BY <1>3, <1>4, <1>5, <2>1, <2>2

(* The phase a section moved the manifest to is the one it believes in.    *)
LEMMA MoveSection ==
  ASSUME IInv, edits' = edits, MoveNew \/ MoveRollback \/ MoveOld
  PROVE  SectionInv'
<1>1. /\ pc \in {"move-new", "move-rollback", "move-old"}
      /\ \/ Fails(Issued) /\ cur' = cur /\ pc' = (IF pc = "move-new" THEN "failed" ELSE "idle")
         \/ /\ Succeeds(Issued)
            /\ cur' = [cur EXCEPT !.phase = IF pc = "move-new" THEN "complete-new"
                                            ELSE IF pc = "move-old" THEN "complete-old" ELSE "rollback"]
            /\ pc' = IF pc = "move-rollback" THEN "validate-old" ELSE "clean"
  BY DEF MoveNew, MoveRollback, MoveOld, Move
<1>2. ~fenced /\ Sound(cur)
  BY <1>1 DEF IInv, SectionInv, Belief, Withdrawing, Activating, Restoring, RollingBack
<1>3. CASE Fails(Issued) /\ cur' = cur /\ pc' = (IF pc = "move-new" THEN "failed" ELSE "idle")
  <2>1. Belief'
    BY <1>1, <1>3, BeliefStays DEF IInv, Activating
  <2>2. QED
    BY <1>3, <2>1, BlindPoint DEF Blind
<1>4. CASE /\ Succeeds(Issued)
           /\ cur' = [cur EXCEPT !.phase = IF pc = "move-new" THEN "complete-new"
                                           ELSE IF pc = "move-old" THEN "complete-old" ELSE "rollback"]
           /\ pc' = IF pc = "move-rollback" THEN "validate-old" ELSE "clean"
  <2> DEFINE p == IF pc = "move-new" THEN "complete-new"
                  ELSE IF pc = "move-old" THEN "complete-old" ELSE "rollback"
  <2>1. cur' = [cur EXCEPT !.phase = p] /\ p \in Phases /\ fenced' = fenced
    BY <1>4 DEF Phases, Succeeds
  <2>2. Sound(cur)' /\ cur'.phase = p
    BY <1>2, <2>1, SoundPhase DEF Sound, Settled
  <2>3. Belief'
    BY <1>1, <1>4, <2>2
       DEF Belief, Complete, Activating, Preparing, Restoring, RollingBack, Cleaning
  <2>4. QED
    BY <1>2, <1>4, <2>1, <2>3, BlindPoint DEF Blind
<1>5. QED
  BY <1>1, <1>3, <1>4

(* A section that reads the manifest believes in a sound one.              *)
LEMMA RecoverSection ==
  ASSUME IInv, edits' = edits, ReadPending \/ VerifyPending \/ CommitFailure
  PROVE  SectionInv'
<1> USE DEF Activating, Preparing, Restoring, RollingBack, Cleaning, Withdrawing
<1>1. CASE pc' = "idle"
  BY <1>1, BlindPoint DEF Belief, Blind
<1>2. CASE pc' # "idle" /\ ReadPending
  <2>1. /\ pc = "read" /\ Succeeds(Issued) /\ cur' = host.manifest
        /\ pc' = IF host.manifest = None THEN "inspect" ELSE "verify"
    BY <1>2 DEF ReadPending
  <2>2. host' = host /\ ~fenced /\ ~fenced'
    BY <2>1 DEF Succeeds, Issued, Command, Effect
  <2>3. host.manifest # None => Sound(cur)'
    BY <2>1 DEF IInv, HostInv, Sound, Settled
  <2>4. Belief'
    BY <2>1, <2>3 DEF Belief
  <2>5. Knowledge'
    BY <2>1, <2>2 DEF Knowledge
  <2>6. QED
    BY <2>1, <2>2, <2>4, <2>5 DEF SectionInv, Points, Reading
<1>3. CASE pc' # "idle" /\ VerifyPending
  <2>1. /\ pc = "verify" /\ Succeeds(Issued) /\ cur' = cur
        /\ \/ Complete(cur) /\ pc' = "clean"
           \/ ~Complete(cur) /\ pc' = "restore"
           \/ ~Complete(cur) /\ cur.phase # "rollback" /\ pc' = "activate"
    BY <1>3 DEF VerifyPending, Step, sectionVars
  <2>2. Sound(cur)' /\ cur.phase \in Phases
    BY <2>1 DEF IInv, SectionInv, Belief, Sound, Settled, Manifests
  <2>3. Belief'
    BY <2>1, <2>2 DEF Belief, Complete, Phases
  <2>4. QED
    BY <2>1, <2>3, BlindPoint DEF Blind, Succeeds
<1>4. CASE pc' # "idle" /\ CommitFailure
  <2>1. /\ pc = "failed" /\ Succeeds(Issued)
        /\ cur' = IF host.manifest = None THEN cur ELSE host.manifest
        /\ pc' = "restore" /\ ~Complete(cur')
    BY <1>4 DEF CommitFailure
  <2>2. Sound(cur)'
    BY <2>1 DEF IInv, HostInv, SectionInv, Belief, Sound, Settled
  <2>3. Belief'
    BY <2>1, <2>2 DEF Belief, Complete
  <2>4. QED
    BY <2>1, <2>3, BlindPoint DEF Blind, Succeeds
<1>5. QED
  BY <1>1, <1>2, <1>3, <1>4

(* A rollback is recorded before any original is published, and sshd has   *)
(* loaded the originals before the rollback is complete.                   *)
LEMMA RestoreSection ==
  ASSUME IInv, edits' = edits, cur' = cur,
         \/ RestoreVerify \/ MarkRollback \/ ValidateRestore \/ BackCertificate \/ BackConfig
         \/ RestoreCheck \/ ReloadOld \/ MarkOld
  PROVE  SectionInv'
<1> USE DEF Restoring, RollingBack
<1>1. /\ pc \in {"restore", "mark-rollback", "validate-old", "back-cert", "back-config", "check-old",
                 "reload-old", "mark-old"}
      /\ \/ Fails(Issued) /\ pc' = "idle"
         \/ Succeeds(Issued) /\ pc' # "idle"
  BY DEF RestoreVerify, MarkRollback, ValidateRestore, BackCertificate, BackConfig, RestoreCheck,
         ReloadOld, MarkOld, Step
<1>2. /\ ~fenced /\ Sound(cur) /\ cur.phase \in Phases
      /\ Sound(cur)' /\ cur'.phase = cur.phase
      /\ Succeeds(Issued) => ~fenced'
  BY <1>1 DEF IInv, SectionInv, Belief, Withdrawing, Sound, Manifests, Settled, Succeeds
<1>3. CASE Fails(Issued) /\ pc' = "idle"
  BY <1>3, BeliefStays, BlindPoint DEF IInv, Blind
<1>4. CASE Succeeds(Issued) /\ RestoreVerify
  <2>1. pc = "restore" /\ (pc' = "idle" \/ pc' = IF cur.phase = "rollback" THEN "validate-old" ELSE "mark-rollback")
    BY <1>4 DEF RestoreVerify, Step
  <2>2. ~Complete(cur)
    BY <2>1 DEF IInv, SectionInv, Belief
  <2>3. Belief'
    BY <1>2, <2>1, <2>2 DEF Belief, Complete, Phases, Activating, Preparing, Cleaning
  <2>4. QED
    BY <1>2, <1>4, <2>1, <2>3, BlindPoint DEF Blind
<1>5. CASE Succeeds(Issued) /\ MarkRollback /\ pc' # "idle"
  <2>1. pc = "mark-rollback" /\ pc' = "move-rollback"
    BY <1>5 DEF MarkRollback, Step
  <2>2. host' = [host EXCEPT !.next = [cur EXCEPT !.phase = "rollback"]]
    BY <1>5, <2>1 DEF Succeeds, Issued, Command, Effect
  <2>3. host'.next = [cur EXCEPT !.phase = "rollback"]
    BY <2>2 DEF IInv, TypeOK, Hosts
  <2>4. Belief'
    BY <2>1, BeliefStays DEF IInv
  <2>5. Knowledge'
    BY <2>1, <2>3 DEF Knowledge, Preparing
  <2>6. QED
    BY <1>2, <1>5, <2>1, <2>4, <2>5 DEF SectionInv, Points
<1>6. CASE Succeeds(Issued) /\ ReloadOld /\ pc' # "idle"
  <2>1. pc = "reload-old" /\ pc' = "mark-old"
    BY <1>6 DEF ReloadOld, Step
  <2>2. host' = [host EXCEPT !.live = host.files]
    BY <1>6, <2>1 DEF Succeeds, Issued, Command, Effect
  <2>3. Served'
    BY <2>2 DEF IInv, TypeOK, Hosts, Served
  <2>4. Belief'
    BY <2>1, BeliefStays DEF IInv
  <2>5. Knowledge'
    BY <2>1, <2>3 DEF Knowledge, Preparing
  <2>6. QED
    BY <1>2, <1>6, <2>1, <2>4, <2>5 DEF SectionInv, Points
<1>7. CASE Succeeds(Issued) /\ MarkOld /\ pc' # "idle"
  <2>1. pc = "mark-old" /\ pc' = "move-old"
    BY <1>7 DEF MarkOld, Step
  <2>2. host' = [host EXCEPT !.next = [cur EXCEPT !.phase = "complete-old"]]
    BY <1>7, <2>1 DEF Succeeds, Issued, Command, Effect
  <2>3. /\ host'.next = [cur EXCEPT !.phase = "complete-old"]
        /\ host'.live = host.live /\ host'.files = host.files
    BY <2>2 DEF IInv, TypeOK, Hosts
  <2>4. Settled' => Served'
    BY <1>2, <2>1, <2>3 DEF IInv, SectionInv, Knowledge, Settled, Served
  <2>5. Belief'
    BY <2>1, BeliefStays DEF IInv
  <2>6. Knowledge'
    BY <2>1, <2>3, <2>4 DEF Knowledge, Preparing
  <2>7. QED
    BY <1>2, <1>7, <2>1, <2>5, <2>6 DEF SectionInv, Points
<1>8. CASE /\ Succeeds(Issued) /\ pc' # "idle"
           /\ ValidateRestore \/ BackCertificate \/ BackConfig \/ RestoreCheck
  <2>1. pc \in RollingBack /\ pc' \in RollingBack \cap Blind
    BY <1>8 DEF ValidateRestore, BackCertificate, BackConfig, RestoreCheck, Step, Blind
  <2>2. QED
    BY <1>2, <1>8, <2>1, BeliefStays, BlindPoint DEF IInv
<1>9. QED
  BY <1>1, <1>3, <1>4, <1>5, <1>6, <1>7, <1>8

(* The snapshots of an announcement that may have succeeded are looked at  *)
(* before they are discarded: it takes two faults to lose them.            *)
LEMMA PrepareSection ==
  ASSUME IInv, edits' = edits, cur' = cur,
         \/ MakeDirectory \/ WriteSnapshots \/ ValidateCandidate \/ WriteNext \/ Announce
         \/ Unpublished \/ Discard
  PROVE  SectionInv'
<1> USE DEF Preparing, Withdrawing
<1>1. /\ pc \in Preparing \cup Withdrawing
      /\ Succeeds(Issued) \/ Fails(Issued)
      /\ pc' \in Preparing \cup Withdrawing \cup {"idle", "activate"}
  BY DEF MakeDirectory, WriteSnapshots, ValidateCandidate, WriteNext, Announce, Unpublished, Discard, Step
<1>2. /\ faults \in Nat /\ faults' \in {faults, faults + 1}
      /\ fenced => fenced'
      /\ fenced' \/ host' = host \/ (Accepts(Issued, host) /\ host' \in Interrupted(Issued, host))
  BY <1>1, Outcome DEF TypeOK, IInv
<1>3. CASE pc' = "idle"
  BY <1>1, <1>3, BeliefStays, BlindPoint DEF IInv, Blind
<1>4. CASE pc \in Preparing /\ pc' \in Preparing \cup {"activate"} \cup Withdrawing
  <2>1. Belief'
    BY <1>4, BeliefStays DEF IInv
  <2>2. ~fenced
    BY <1>4 DEF IInv, SectionInv
  <2>3. host.manifest = None
    BY <1>4, <2>2 DEF IInv, SectionInv, Knowledge
  <2>4. ~fenced' /\ pc # "announce" => host'.manifest = None
    <3> SUFFICES ASSUME ~fenced', pc # "announce", host' # host PROVE host'.manifest = None
      BY <2>3
    <3>1. Issued.op \in {"mkdir", "snapshots", "check", "write-next"}
      BY <1>4 DEF Issued, Command
    <3>2. host' = Effect(Issued, host)
      BY <1>2, <3>1 DEF Interrupted
    <3>3. QED
      BY <2>3, <3>1, <3>2 DEF Effect, IInv, TypeOK, Hosts
  <2>5. CASE Fails(Issued) /\ pc' \in Withdrawing
    <3>1. pc # "announce" \/ pc' = "unpublished"
      BY <2>5 DEF MakeDirectory, WriteSnapshots, ValidateCandidate, WriteNext, Announce, Unpublished, Discard, Step
    <3>2. ~fenced' /\ host' # host => faults' >= 1
      BY <1>2, <2>5 DEF Fails, Fault
    <3>3. ~fenced' => Knowledge'
      BY <2>3, <2>4, <2>5, <3>1, <3>2 DEF Knowledge
    <3>4. QED
      BY <2>1, <2>5, <3>3 DEF SectionInv, Points
  <2>6. CASE Succeeds(Issued) /\ pc' = "activate"
    BY <2>1, <2>2, <2>6, BlindPoint DEF Succeeds, Blind
  <2>7. CASE Succeeds(Issued) /\ pc' \in Preparing
    <3>1. pc # "announce" /\ ~fenced' /\ (pc' = "announce" => pc = "write-next")
      BY <2>2, <2>7
         DEF MakeDirectory, WriteSnapshots, ValidateCandidate, WriteNext, Announce, Unpublished, Discard, Step, Succeeds
    <3>2. pc' = "announce" => host'.next = cur
      BY <2>7, <3>1 DEF Succeeds, Issued, Command, Effect, IInv, TypeOK, Hosts
    <3>3. Knowledge'
      BY <2>4, <2>7, <3>1, <3>2 DEF Knowledge
    <3>4. QED
      BY <2>1, <2>7, <3>1, <3>3 DEF SectionInv, Points
  <2>8. QED
    BY <1>3, <1>4, <2>5, <2>6, <2>7
       DEF MakeDirectory, WriteSnapshots, ValidateCandidate, WriteNext, Announce, Unpublished, Discard, Step
<1>5. CASE pc \in Withdrawing /\ pc' # "idle"
  <2>1. pc = "unpublished" /\ Fails(Issued) /\ pc' = "discard" /\ fenced' = fenced
    BY <1>5 DEF MakeDirectory, WriteSnapshots, ValidateCandidate, WriteNext, Announce, Unpublished, Discard, Step
  <2>2. Belief'
    BY <2>1, BeliefStays DEF IInv
  <2>3. ASSUME ~fenced' PROVE host'.manifest = None \/ faults' >= 2
    <3>1. ~fenced /\ (host.manifest = None \/ faults >= 1)
      BY <2>1, <2>3 DEF IInv, SectionInv, Knowledge
    <3>2. Issued.op = "exists" /\ host' = host
      BY <1>2, <2>1, <2>3 DEF Issued, Command, Interrupted, Effect
    <3>3. host.manifest = None \/ faults' = faults + 1
      BY <2>1, <2>3, <3>1, <3>2 DEF Fails, Fault, Accepts
    <3>4. QED
      BY <1>2, <3>1, <3>2, <3>3
  <2>4. QED
    BY <2>1, <2>2, <2>3 DEF SectionInv, Knowledge, Points
<1>6. QED
  BY <1>1, <1>3, <1>4, <1>5

-----------------------------------------------------------------------------
(* The steps.                                                              *)

(* Every step of a section keeps the invariant.                            *)
LEMMA SectionKeeps ==
  ASSUME IInv, Section
  PROVE  IInv'
<1>1. /\ pc \notin {"idle", "inspect"} /\ edits' = edits
      /\ Succeeds(Issued) \/ Fails(Issued)
      /\ after' \in {after, "idle"}
  BY DEF Section, Recover, Activate, Restore, Prepare, ReadPending, VerifyPending,
         ActivateVerify, ActivateValidate, PutCertificate, PutConfig, AssertLive, ReloadNew, MarkNew,
         MoveNew, CommitFailure, RestoreVerify, MarkRollback, MoveRollback, ValidateRestore,
         BackCertificate, BackConfig, RestoreCheck, ReloadOld, MarkOld, MoveOld, CleanupVerify,
         CleanupRemove, MakeDirectory, WriteSnapshots, ValidateCandidate, WriteNext, Announce,
         Unpublished, Discard, Step, Move, sectionVars
<1>2. cur \in Manifests \cup {None} /\ host.manifest \in Manifests \cup {None} /\ after' \in {"inspect", "idle"}
  BY <1>1 DEF IInv, TypeOK, Hosts
<1>3. CASE MoveNew \/ MoveRollback \/ MoveOld
  <2>1. /\ pc \in {"move-new", "move-rollback", "move-old"}
        /\ cur' = cur \/ \E p \in Phases : cur' = [cur EXCEPT !.phase = p]
    BY <1>3 DEF MoveNew, MoveRollback, MoveOld, Move, Phases
  <2>2. cur \in Manifests
    BY <2>1 DEF IInv, SectionInv, Belief, Sound, Activating, Restoring, RollingBack
  <2>3. cur' \in Manifests
    BY <2>1, <2>2, ManifestType
  <2>4. QED
    BY <1>1, <1>2, <1>3, <2>3, MoveSection, CommandStep
<1>4. CASE ReadPending \/ VerifyPending \/ CommitFailure
  <2>1. cur' \in {cur, host.manifest}
    BY <1>4 DEF ReadPending, VerifyPending, CommitFailure, Step, sectionVars
  <2>2. QED
    BY <1>1, <1>2, <1>4, <2>1, RecoverSection, CommandStep
<1>5. CASE \/ ActivateVerify \/ ActivateValidate \/ PutCertificate \/ PutConfig
           \/ AssertLive \/ ReloadNew \/ MarkNew
  <2>1. cur' = cur
    BY <1>5 DEF ActivateVerify, ActivateValidate, PutCertificate, PutConfig, AssertLive, ReloadNew,
                MarkNew, Step, sectionVars
  <2>2. QED
    BY <1>1, <1>2, <1>5, <2>1, ActivateSection, CommandStep
<1>6. CASE \/ RestoreVerify \/ MarkRollback \/ ValidateRestore \/ BackCertificate \/ BackConfig
           \/ RestoreCheck \/ ReloadOld \/ MarkOld
  <2>1. cur' = cur
    BY <1>6 DEF RestoreVerify, MarkRollback, ValidateRestore, BackCertificate, BackConfig,
                RestoreCheck, ReloadOld, MarkOld, Step, sectionVars
  <2>2. QED
    BY <1>1, <1>2, <1>6, <2>1, RestoreSection, CommandStep
<1>7. CASE CleanupVerify \/ CleanupRemove
  <2>1. cur' = cur
    BY <1>7 DEF CleanupVerify, CleanupRemove, Step, sectionVars
  <2>2. QED
    BY <1>1, <1>2, <1>7, <2>1, CleanupSection, CommandStep
<1>8. CASE \/ MakeDirectory \/ WriteSnapshots \/ ValidateCandidate \/ WriteNext \/ Announce
           \/ Unpublished \/ Discard
  <2>1. cur' = cur
    BY <1>8 DEF MakeDirectory, WriteSnapshots, ValidateCandidate, WriteNext, Announce, Unpublished,
                Discard, Step, sectionVars
  <2>2. QED
    BY <1>1, <1>2, <1>8, <2>1, PrepareSection, CommandStep
<1>9. QED
  BY <1>3, <1>4, <1>5, <1>6, <1>7, <1>8 DEF Section, Recover, Activate, Restore, Prepare

(* inspectHostTarget derives a sound manifest from a settled host.         *)
LEMMA InspectKeeps ==
  ASSUME IInv, Inspect
  PROVE  IInv'
<1> USE DEF IInv
<1>1. PICK c \in Certs :
        LET new == [cert |-> c, config |-> [host.files.config EXCEPT !.mapped = TRUE]] IN
        /\ new # host.files
        /\ cur' = [orig |-> host.files, cand |-> new, deps |-> host.deps, phase |-> "prepared"]
  BY DEF Inspect
<1>2. /\ pc = "inspect" /\ pc' = "mkdir" /\ after' = "idle"
      /\ UNCHANGED <<host, orphan, fenced, faults, edits>>
  BY DEF Inspect
<1>3. ~fenced /\ host.manifest = None
  BY <1>2 DEF SectionInv, Withdrawing, Knowledge
<1>4. host.files \in Pairs /\ host.deps \in 0 .. MaxEdits
  BY DEF TypeOK, Hosts
<1>5. cur' \in Manifests
  BY <1>1, <1>4 DEF Pairs, Configs, Manifests, Phases
<1>6. Settled' /\ host.files.config.mapped => host.files.cert # Absent
  BY <1>2, <1>3 DEF HostInv, NoPendingMeansSettled, Settled
<1>7. Sound(cur)'
  BY <1>1, <1>5, <1>6 DEF Sound
<1>8. Belief' /\ Knowledge'
  BY <1>1, <1>2, <1>3, <1>7
     DEF Belief, Knowledge, Activating, Preparing, Restoring, RollingBack, Cleaning
<1>9. SectionInv'
  BY <1>2, <1>3, <1>8 DEF SectionInv, Points, Preparing
<1>10. HostInv'
  BY <1>2, HostUntouched DEF TypeOK
<1>11. OrphanInv'
  BY <1>2, <1>3 DEF OrphanInv
<1>12. TypeOK'
  BY <1>2, <1>3, <1>5, <1>11 DEF TypeOK, OrphanInv
<1>13. QED
  BY <1>9, <1>10, <1>11, <1>12

(* A section begins or ends.                                               *)
LEMMA BoundaryKeeps ==
  ASSUME IInv, StartSection \/ EndSection
  PROVE  IInv'
<1> USE DEF IInv
<1>1. /\ UNCHANGED <<host, orphan, faults, edits>> /\ orphan = None
      /\ cur' \in {cur, None} /\ after' \in {after, "inspect"}
      /\ fenced' \in BOOLEAN /\ pc' \in {"idle", "read"} /\ (pc' = "read" => ~fenced')
  BY DEF StartSection, EndSection, sectionVars, SectionInv, OrphanInv, Withdrawing, TypeOK
<1>2. HostInv'
  BY <1>1, HostUntouched DEF TypeOK
<1>3. TypeOK' /\ OrphanInv'
  BY <1>1 DEF TypeOK, OrphanInv
<1>4. Belief'
  BY <1>1 DEF Belief, Activating, Preparing, Restoring, RollingBack, Cleaning
<1>5. QED
  BY <1>1, <1>2, <1>3, <1>4, BlindPoint DEF Blind

(* The controller is gone: the command it waited for lives on.             *)
LEMMA CrashKeeps ==
  ASSUME IInv, Crash
  PROVE  IInv'
<1> USE DEF IInv
<1>1. /\ pc # "idle" /\ pc' = "idle" /\ faults < MaxFaults /\ faults' = faults + 1
      /\ orphan' = IF fenced THEN orphan ELSE Issued
      /\ UNCHANGED <<host, sectionVars, fenced, edits>>
  BY DEF Crash, Fault
<1>2. HostInv'
  BY <1>1, HostUntouched DEF TypeOK
<1>3. orphan' # None => Legit(orphan)'
  <2>1. CASE fenced
    BY <1>1, <2>1, Abandoned DEF OrphanInv, TypeOK
  <2>2. CASE ~fenced /\ pc # "inspect"
    BY <1>1, <2>2, IssuedLegit, Abandoned DEF TypeOK
  <2>3. CASE ~fenced /\ pc = "inspect"
    BY <1>1, <2>3 DEF Issued
  <2>4. QED
    BY <2>1, <2>2, <2>3
<1>4. TypeOK' /\ OrphanInv'
  BY <1>1, <1>3, CertificateAssumption DEF TypeOK, OrphanInv, sectionVars
<1>5. Belief'
  BY <1>1 DEF Belief, Activating, Preparing, Restoring, RollingBack, Cleaning
<1>6. QED
  BY <1>1, <1>2, <1>4, <1>5, BlindPoint DEF Blind

(* So does every step of a shell its controller no longer waits for.       *)
LEMMA OrphanKeeps ==
  ASSUME IInv, OrphanEnds
  PROVE  IInv'
<1> USE DEF IInv
<1>1. /\ orphan # None /\ orphan' = None
      /\ host' = host \/ (Accepts(orphan, host) /\ host' \in Interrupted(orphan, host))
      /\ UNCHANGED <<pc, sectionVars, fenced, faults, edits>>
  BY DEF OrphanEnds
<1>2. Legit(orphan) /\ (fenced \/ pc = "idle")
  BY <1>1 DEF OrphanInv, TypeOK
<1>3. HostInv'
  BY <1>1, <1>2, HostUntouched, CommandKeeps DEF TypeOK
<1>4. host' \in Hosts
  BY <1>1, <1>2, EffectType DEF TypeOK
<1>5. TypeOK' /\ OrphanInv'
  BY <1>1, <1>4 DEF TypeOK, OrphanInv, sectionVars
<1>6. Belief'
  BY <1>1 DEF SectionInv, Belief, Sound, Settled, sectionVars
<1>7. Knowledge' \/ fenced'
  BY <1>1, <1>2 DEF Knowledge, Preparing
<1>8. QED
  BY <1>1, <1>3, <1>5, <1>6, <1>7 DEF SectionInv

(* A reboot ends the shells and starts sshd from the files.                *)
LEMMA RebootKeeps ==
  ASSUME IInv, Reboot
  PROVE  IInv'
<1> USE DEF IInv
<1>1. /\ pc' = "idle" /\ faults < MaxFaults /\ faults' = faults + 1 /\ orphan' = None
      /\ host' = [host EXCEPT !.live = host.files]
      /\ UNCHANGED <<sectionVars, fenced, edits>>
  BY DEF Reboot, Fault
<1>2. /\ host' \in Hosts
      /\ host'.files = host.files /\ host'.live = host.files /\ host'.deps = host.deps
      /\ host'.manifest = host.manifest /\ host'.dir = host.dir
  BY <1>1 DEF TypeOK, Hosts
<1>3. HostInv'
  BY <1>1, <1>2, HostUntouched DEF TypeOK
<1>4. TypeOK' /\ OrphanInv'
  BY <1>1, <1>2, CertificateAssumption DEF TypeOK, OrphanInv, sectionVars
<1>5. Belief'
  BY <1>1 DEF Belief, Activating, Preparing, Restoring, RollingBack, Cleaning
<1>6. QED
  BY <1>1, <1>3, <1>4, <1>5, BlindPoint DEF Blind

(* After an edit nothing is promised about the files any more, but for the *)
(* snapshots and for what the commands under way assert.                   *)
LEMMA EditKeeps ==
  ASSUME IInv, Edit
  PROVE  IInv'
<1> USE DEF IInv
<1>1. /\ edits < MaxEdits /\ edits' = edits + 1
      /\ \/ host' = [host EXCEPT !.files.config.base = @ + 1]
         \/ host' = [host EXCEPT !.files.cert = Foreign]
         \/ host' = [host EXCEPT !.deps = @ + 1]
      /\ UNCHANGED <<pc, sectionVars, orphan, fenced, faults>>
  BY DEF Edit
<1>2. /\ host \in Hosts /\ host.files.config.base <= edits /\ host.deps <= edits
      /\ edits \in Nat /\ faults \in Nat /\ MaxEdits \in Nat
      /\ host.files.config.base \in Nat /\ host.deps \in Nat
  BY CertificateAssumption DEF TypeOK, HostInv, Hosts, Pairs, Configs
<1>3. /\ host' \in Hosts
      /\ host'.manifest = host.manifest /\ host'.next = host.next /\ host'.dir = host.dir
      /\ host'.files.config.base <= edits' /\ host'.deps <= edits'
  BY <1>1, <1>2 DEF Hosts, Pairs, Configs
<1>4. ~Settled'
  BY <1>1, <1>2 DEF Settled
<1>5. HostInv'
  BY <1>1, <1>3, <1>4
     DEF HostInv, Sound, CompletionIsTrue, NoPendingMeansSettled, CertificateFirst, OneFaultIsRecoverable,
         PendingIsRecoverable
<1>6. orphan' # None => Legit(orphan)'
  <2>1. ASSUME orphan # None PROVE Legit(orphan)
    BY <2>1 DEF OrphanInv
  <2>2. LegitPublish(orphan) => LegitPublish(orphan)'
    BY <1>1, <1>4 DEF LegitPublish, Sound
  <2>3. LegitMove(orphan) => LegitMove(orphan)'
    BY <1>1, <1>3, <1>4 DEF LegitMove, Sound
  <2>4. QED
    BY <1>1, <1>3, <1>4, <2>1, <2>2, <2>3 DEF Legit, Sound
<1>7. TypeOK' /\ OrphanInv'
  BY <1>1, <1>2, <1>3, <1>6 DEF TypeOK, OrphanInv, sectionVars
<1>8. Belief'
  BY <1>1, <1>4 DEF SectionInv, Belief, Sound, sectionVars
<1>9. ~fenced' => Knowledge'
  BY <1>1, <1>3, <1>4 DEF SectionInv, Knowledge, sectionVars
<1>10. QED
  BY <1>1, <1>5, <1>7, <1>8, <1>9 DEF SectionInv

(* The invariant is one of the variables only.                             *)
LEMMA StutterKeeps ==
  ASSUME IInv, UNCHANGED vars
  PROVE  IInv'
  BY DEF IInv, vars, TypeOK, HostInv, OrphanInv, SectionInv, Sound, CompletionIsTrue, NoPendingMeansSettled,
         CertificateFirst, InPhase, OneFaultIsRecoverable, PendingIsRecoverable, Settled, Legit, LegitMove,
         LegitPublish, Served, Belief, Knowledge

(* Every step keeps the invariant.                                         *)
LEMMA InvariantStep == IInv /\ [Next]_vars => IInv'
  BY SectionKeeps, InspectKeeps, BoundaryKeeps, CrashKeeps, OrphanKeeps, RebootKeeps, EditKeeps, StutterKeeps
     DEF Next

(* A host without a Pending and without a section satisfies it.            *)
LEMMA InitialState == Init => IInv
<1> SUFFICES ASSUME Init PROVE IInv
  OBVIOUS
<1>1. /\ host = [files |-> [cert |-> Absent, config |-> [base |-> 0, mapped |-> FALSE]],
                 live |-> [cert |-> Absent, config |-> [base |-> 0, mapped |-> FALSE]],
                 deps |-> 0, manifest |-> None, next |-> None, dir |-> "none"]
      /\ pc = "idle" /\ cur = None /\ after = "idle" /\ orphan = None /\ fenced = FALSE
      /\ faults = 0 /\ edits = 0
  BY DEF Init
<1>2. host \in Hosts
  BY <1>1, CertificateAssumption DEF Hosts, Pairs, Configs
<1>3. TypeOK
  <2>1. fenced \in BOOLEAN
    BY <1>1
  <2>2. faults \in 0 .. MaxFaults /\ edits \in 0 .. MaxEdits
    BY <1>1, CertificateAssumption
  <2>3. QED
    BY <1>1, <1>2, <2>1, <2>2 DEF TypeOK
<1>4. HostInv
  BY <1>1 DEF HostInv, CompletionIsTrue, NoPendingMeansSettled, CertificateFirst, InPhase,
              OneFaultIsRecoverable, PendingIsRecoverable
<1>5. OrphanInv /\ SectionInv
  BY <1>1 DEF OrphanInv, SectionInv, Belief, Knowledge, Points, Reading, Activating, Preparing, RollingBack,
              Restoring, Withdrawing, Cleaning
<1>6. QED
  BY <1>3, <1>4, <1>5 DEF IInv

(* The host, the section and the shells agree in every reachable state     *)
(* (repairOrCommit, recoverHostPending).                                   *)
THEOREM Invariant == Spec => []IInv
  BY InitialState, InvariantStep, PTL DEF Spec

-----------------------------------------------------------------------------
(* The properties.                                                         *)

(* A settled host agrees with its manifest, or with the lack of one,       *)
(* whatever was interrupted and however often: a completed manifest is the *)
(* truth about both files and about the daemon.                            *)
THEOREM TheManifestIsTrue == Spec => []ManifestIsTrue
<1>1. IInv => ManifestIsTrue
  BY DEF IInv, HostInv, ManifestIsTrue
<1>2. QED
  BY <1>1, Invariant, PTL

(* The certificate precedes the configuration that names it.               *)
THEOREM TheCertificateComesFirst == Spec => []CertificateFirst
<1>1. IInv => CertificateFirst
  BY DEF IInv, HostInv
<1>2. QED
  BY <1>1, Invariant, PTL

(* One fault at any point leaves an unfinished Pending its snapshots.      *)
THEOREM OneFaultLosesNothing == Spec => []OneFaultIsRecoverable
<1>1. IInv => OneFaultIsRecoverable
  BY DEF IInv, HostInv
<1>2. QED
  BY <1>1, Invariant, PTL

(* Every step of the host is a part of a legitimate command, a reload or   *)
(* an edit.                                                                *)
LEMMA HostSteps ==
  ASSUME IInv, [Next]_vars
  PROVE  \/ host' = host
         \/ \E c \in {Issued, orphan} : Legit(c) /\ Accepts(c, host) /\ host' \in Interrupted(c, host)
         \/ host' = [host EXCEPT !.live = host.files]
         \/ Edit
<1>1. CASE Section
  <2>1. pc \notin {"idle", "inspect"} /\ (Succeeds(Issued) \/ Fails(Issued))
    BY <1>1 DEF Section, Recover, Activate, Restore, Prepare, ReadPending, VerifyPending,
         ActivateVerify, ActivateValidate, PutCertificate, PutConfig, AssertLive, ReloadNew, MarkNew,
         MoveNew, CommitFailure, RestoreVerify, MarkRollback, MoveRollback, ValidateRestore,
         BackCertificate, BackConfig, RestoreCheck, ReloadOld, MarkOld, MoveOld, CleanupVerify,
         CleanupRemove, MakeDirectory, WriteSnapshots, ValidateCandidate, WriteNext, Announce,
         Unpublished, Discard, Step, Move
  <2>2. \/ host' = host
        \/ ~fenced /\ Accepts(Issued, host) /\ host' \in Interrupted(Issued, host)
    BY <2>1 DEF Succeeds, Fails, Interrupted
  <2>3. QED
    BY <2>1, <2>2, IssuedLegit
<1>2. CASE OrphanEnds
  BY <1>2 DEF OrphanEnds, IInv, OrphanInv
<1>3. CASE StartSection \/ EndSection \/ Inspect \/ Crash \/ UNCHANGED vars
  BY <1>3 DEF StartSection, EndSection, Inspect, Crash, vars
<1>4. CASE Reboot
  BY <1>4 DEF Reboot
<1>5. QED
  BY <1>1, <1>2, <1>3, <1>4 DEF Next

(* Completion is final.                                                    *)
THEOREM CompletionStays == Spec => CompletionIsFinal
<1>1. ASSUME IInv, [Next]_vars, host.manifest # None, Complete(host.manifest)
      PROVE  host'.manifest \in {host.manifest, None}
  <2>1. host \in Hosts
    BY <1>1 DEF IInv, TypeOK
  <2>2. ASSUME NEW c, Legit(c), Accepts(c, host), host' \in Interrupted(c, host)
        PROVE  host'.manifest \in {host.manifest, None}
    <3>1. c.op \notin {"announce", "move"}
      BY <1>1, <2>2 DEF Legit, LegitMove, Accepts, Announceable, Movable, Asserts
    <3>2. QED
      BY <2>1, <2>2, <3>1 DEF Interrupted, Effect, Legit, Hosts
  <2>3. QED
    BY <1>1, <2>1, <2>2, HostSteps DEF Edit, Hosts
<1>2. IInv /\ [Next]_vars =>
        [host.manifest # None /\ Complete(host.manifest) => host'.manifest \in {host.manifest, None}]_vars
  BY <1>1
<1>3. QED
  BY <1>2, Invariant, PTL DEF Spec, CompletionIsFinal

(* Once a rollback is recorded no candidate is published any more, not by  *)
(* a shell that was abandoned during the activation either.                *)
THEOREM RollbacksOnlyRestore == Spec => RollbackOnlyRestores
<1>1. ASSUME IInv, [Next]_vars, Settled, Settled', InPhase("rollback"), NEW r \in Roles
      PROVE  host'.files[r] \in {host.files[r], host.manifest.orig[r]}
  <2>1. host \in Hosts /\ edits \in Nat
    BY <1>1, CertificateAssumption DEF IInv, TypeOK
  <2>2. ASSUME NEW c, Legit(c), Accepts(c, host), host' \in Interrupted(c, host)
        PROVE  host'.files[r] \in {host.files[r], host.manifest.orig[r]}
    <3>1. CASE c.op = "publish"
      <4>1. /\ c.role \in Roles /\ c.marker = host.manifest
            /\ c.to = host.manifest.orig[c.role]
        BY <1>1, <2>2, <3>1 DEF Legit, LegitPublish, Accepts, Publishable, Asserts, InPhase
      <4>2. host' \in {host, [host EXCEPT !.files[c.role] = c.to]}
        BY <2>2, <3>1 DEF Interrupted, Effect
      <4>3. QED
        BY <2>1, <4>1, <4>2 DEF Hosts, Pairs, Roles
    <3>2. CASE c.op # "publish"
      <4>1. host'.files = host.files
        BY <2>1, <2>2, <3>2 DEF Interrupted, Effect, Legit, Hosts
      <4>2. QED
        BY <4>1
    <3>3. QED
      BY <3>1, <3>2
  <2>3. ~Edit
    BY <1>1, <2>1 DEF Edit, Settled
  <2>4. CASE host' = [host EXCEPT !.live = host.files]
    BY <2>1, <2>4 DEF Hosts
  <2>5. QED
    BY <1>1, <2>2, <2>3, <2>4, HostSteps
<1>2. IInv /\ [Next]_vars =>
        [Settled /\ Settled' /\ InPhase("rollback") =>
           \A r \in Roles : host'.files[r] \in {host.files[r], host.manifest.orig[r]}]_vars
  BY <1>1
<1>3. QED
  BY <1>2, Invariant, PTL DEF Spec, RollbackOnlyRestores

(* External edits are never overwritten with an older recorded state.      *)
THEOREM EditsAreKept == Spec => EditsSurvive
<1>1. ASSUME IInv, [Next]_vars
      PROVE  /\ host'.files.config.base >= host.files.config.base
             /\ host.manifest # None /\ host.files.cert = Foreign
                  /\ host.manifest.orig.cert # Foreign => host'.files.cert = Foreign
  <2>1. host \in Hosts /\ host.files.config.base \in Nat
    BY <1>1 DEF IInv, TypeOK, Hosts, Pairs, Configs
  <2>2. ASSUME NEW c, Legit(c), Accepts(c, host), host' \in Interrupted(c, host), c.op = "publish"
        PROVE  /\ host'.files.config.base = host.files.config.base
               /\ host.files.cert = Foreign /\ host.manifest.orig.cert # Foreign =>
                    host'.files.cert = Foreign
    <3>1. /\ Sound(c.marker) /\ c.marker = host.manifest /\ Recorded(c.marker, c.role, host)
          /\ c.role \in Roles /\ c.to \in {c.marker.cand[c.role], c.marker.orig[c.role]}
      BY <2>2 DEF Legit, LegitPublish, Accepts, Publishable, Asserts
    <3>2. host' \in {host, [host EXCEPT !.files[c.role] = c.to]}
      BY <2>2 DEF Interrupted, Effect
    <3>3. CASE c.role = "cert"
      <4>1. host'.files.config = host.files.config
        BY <2>1, <3>2, <3>3 DEF Hosts, Pairs
      <4>2. host.files.cert = Foreign => host.manifest.orig.cert = Foreign
        BY <3>1, <3>3, CertificateAssumption DEF Recorded, Sound
      <4>3. QED
        BY <2>1, <4>1, <4>2
    <3>4. CASE c.role = "config"
      <4>1. host'.files.cert = host.files.cert
        BY <2>1, <3>2, <3>4 DEF Hosts, Pairs
      <4>2. /\ c.to.base = c.marker.orig.config.base
            /\ host.files.config.base = c.marker.orig.config.base
        BY <3>1, <3>4 DEF Recorded, Sound, Manifests, Pairs, Configs
      <4>3. host'.files.config \in {host.files.config, c.to}
        BY <2>1, <3>2, <3>4 DEF Hosts, Pairs
      <4>4. QED
        BY <2>1, <4>1, <4>2, <4>3
    <3>5. QED
      BY <3>1, <3>3, <3>4 DEF Roles
  <2>3. ASSUME NEW c, Legit(c), Accepts(c, host), host' \in Interrupted(c, host), c.op # "publish"
        PROVE  host'.files = host.files
    BY <2>1, <2>3 DEF Interrupted, Effect, Legit, Hosts
  <2>4. CASE Edit
    BY <2>1, <2>4 DEF Edit, Hosts, Pairs, Configs
  <2>5. CASE host' = [host EXCEPT !.live = host.files] \/ host'.files = host.files
    BY <2>1, <2>5 DEF Hosts
  <2>6. QED
    BY <1>1, <2>1, <2>2, <2>3, <2>4, <2>5, HostSteps
<1>2. IInv /\ [Next]_vars =>
        [/\ host'.files.config.base >= host.files.config.base
         /\ host.manifest # None /\ host.files.cert = Foreign
               /\ host.manifest.orig.cert # Foreign => host'.files.cert = Foreign]_vars
  BY <1>1
<1>3. QED
  BY <1>2, Invariant, PTL DEF Spec, EditsSurvive
=============================================================================
