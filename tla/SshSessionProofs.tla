-------------------------- MODULE SshSessionProofs --------------------------
(***************************************************************************)
(* Proofs about SshSession for any finite set of callers, any channel cap, *)
(* any number of clients and of reconnect attempts.                        *)
(*                                                                         *)
(* The properties are not inductive.  What they need besides is            *)
(*   QueueInv   the queue holds the calls that stand in "queued", each of  *)
(*              them once, so that a slot is handed to a call that waits;  *)
(*   CountInv   the counter is the number of slots held;                   *)
(*   LinkInv    a reconnect in progress has no client;                     *)
(*   ProbeInv   what the one prompt since the last disconnect has left     *)
(*              behind, and that a probe before its last command has not   *)
(*              asked yet.                                                 *)
(* Every call ends by ReleaseSlot, whatever the actors do at that moment:  *)
(* ReleaseKeeps states what it preserves, the steps only say where the     *)
(* actors stand.                                                           *)
(***************************************************************************)
EXTENDS SshSession, FiniteSetTheorems, TLAPS

Places == {"idle", "joined", "prompting", "queued"} \union InFlight \union Microtasks

QueueInv ==
    /\ \A i \in DOMAIN queue : pc[queue[i]] = "queued"
    /\ \A i, j \in DOMAIN queue : queue[i] = queue[j] => i = j
    /\ \A a \in Actors : pc[a] = "queued" => \E i \in DOMAIN queue : queue[i] = a

CountInv ==
    /\ active = Cardinality(Holders)
    /\ queue # <<>> => active = Max

SlotInv == QueueInv /\ CountInv

LinkInv == reconnecting > 0 => client = 0 /\ made < MaxClients

ProbeInv ==
    /\ pc[Probe] # "joined"
    /\ AskedOnce
    /\ asked = 1 => failed \/ cached \/ pc[Probe] = "prompting"
    /\ pc[Probe] \notin {"idle", "prompting"} /\ stage # "validate" => asked = 0

IInv == TypeOK /\ SlotInv /\ LinkInv /\ OnCurrentClient /\ ProbeInv

-----------------------------------------------------------------------------
(* The slots.                                                              *)

(* The callers and the probe: a finite number of execs.                    *)
LEMMA ActorsFinite == IsFiniteSet(Actors)
  BY ProbeIsNoCaller, FS_AddElement DEF Actors

(* So finitely many of them hold a slot.                                   *)
LEMMA HoldersFinite == IsFiniteSet(Holders)
  BY ActorsFinite, FS_Subset DEF Holders

(* What is left of a queue without its head.                               *)
LEMMA TailQueue ==
  ASSUME NEW S, NEW q \in Seq(S), q # <<>>
  PROVE  /\ Head(q) = q[1] /\ Head(q) \in S /\ 1 \in DOMAIN q
         /\ Tail(q) \in Seq(S)
         /\ DOMAIN Tail(q) = 1 .. Len(q) - 1
         /\ \A i \in DOMAIN Tail(q) : Tail(q)[i] = q[i + 1] /\ i + 1 \in DOMAIN q
         /\ \A i \in DOMAIN q : i # 1 => i - 1 \in DOMAIN Tail(q) /\ Tail(q)[i - 1] = q[i]
  OBVIOUS

(* The place of one actor changes from holding a slot to not holding one.  *)
LEMMA HoldersAfterRelease ==
  ASSUME NEW a \in Actors, pc[a] \in Holding,
         \A b \in Actors : pc'[b] \in Holding <=> pc[b] \in Holding /\ b # a
  PROVE  /\ Cardinality(Holders') = Cardinality(Holders) - 1
         /\ Cardinality(Holders) > 0
<1>1. Holders' = Holders \ {a} /\ a \in Holders
  BY DEF Holders
<1>2. Cardinality(Holders \ {a}) = Cardinality(Holders) - 1
  BY <1>1, HoldersFinite, FS_RemoveElement
<1>3. Cardinality(Holders) \in Nat /\ Cardinality(Holders) # 0
  BY <1>1, HoldersFinite, FS_EmptySet, FS_CardinalityType
<1>4. QED
  BY <1>1, <1>2, <1>3

(* The slot goes from one actor to another.                                *)
LEMMA HoldersAfterHandover ==
  ASSUME NEW a \in Actors, pc[a] \in Holding,
         NEW h \in Actors, pc[h] \notin Holding, a # h,
         \A b \in Actors :
            pc'[b] \in Holding <=> b = h \/ (pc[b] \in Holding /\ b # a)
  PROVE  Cardinality(Holders') = Cardinality(Holders)
<1>1. Holders' = (Holders \ {a}) \cup {h} /\ a \in Holders /\ h \notin Holders
  BY DEF Holders
<1>2. Cardinality(Holders \ {a}) = Cardinality(Holders) - 1 /\ IsFiniteSet(Holders \ {a})
  BY <1>1, HoldersFinite, FS_RemoveElement
<1>3. Cardinality((Holders \ {a}) \cup {h}) = Cardinality(Holders \ {a}) + 1
  BY <1>1, <1>2, FS_AddElement
<1>4. Cardinality(Holders) \in Nat
  BY HoldersFinite, FS_CardinalityType
<1>5. QED
  BY <1>1, <1>2, <1>3, <1>4

(* A slot more is held once somebody takes one.                            *)
LEMMA HoldersAfterClaim ==
  ASSUME NEW a \in Actors, pc[a] \notin Holding,
         \A b \in Actors : pc'[b] \in Holding <=> b = a \/ pc[b] \in Holding
  PROVE  Cardinality(Holders') = Cardinality(Holders) + 1
<1>1. Holders' = Holders \cup {a} /\ a \notin Holders
  BY DEF Holders
<1>2. QED
  BY <1>1, HoldersFinite, FS_AddElement, FS_CardinalityType

(* Nobody starts or stops to hold a slot, or to wait for one.              *)
LEMMA SlotsUntouched ==
  ASSUME SlotInv, UNCHANGED slots,
         \A b \in Actors : /\ pc'[b] \in Holding <=> pc[b] \in Holding
                           /\ pc'[b] = "queued" <=> pc[b] = "queued",
         queue \in Seq(Actors)
  PROVE  SlotInv'
<1>1. Holders' = Holders
  BY DEF Holders
<1>2. CountInv'
  BY <1>1 DEF SlotInv, CountInv, slots
<1>3. QueueInv'
  BY DEF SlotInv, QueueInv, slots
<1>4. QED
  BY <1>2, <1>3 DEF SlotInv

(* Where the others may stand once the call of `a` has ended: the calls    *)
(* that wait for the probe may have been woken.                            *)
Released(a, where) ==
    /\ where \in [Actors -> Places]
    /\ where[a] \in {"idle", "cleared", "prompting"}
    /\ \A b \in Actors \ {a} :
          \/ where[b] = pc[b]
          \/ pc[b] = "joined" /\ where[b] \in {"idle", "cleared"}

(* releaseSessionChannel: a slot that is given back is counted down, or it *)
(* belongs to the first call in the queue.                                 *)
LEMMA ReleaseKeeps ==
  ASSUME TypeOK, SlotInv, NEW a \in Actors, pc[a] \in Holding,
         NEW where, Released(a, where), ReleaseSlot(where)
  PROVE  /\ SlotInv'
         /\ pc' \in [Actors -> Places]
         /\ active' \in 0 .. Max /\ queue' \in Seq(Actors)
         /\ pc'[a] = where[a]
         /\ \A b \in Actors \ {a} :
               \/ pc'[b] = where[b]
               \/ pc[b] = "queued" /\ pc'[b] = "granted"
<1> USE DEF Holding, Places, InFlight, Microtasks
<1>1. CASE queue = <<>>
  <2>1. pc' = where /\ queue' = queue /\ active' = active - 1
    BY <1>1 DEF ReleaseSlot
  <2>2. \A b \in Actors : pc'[b] \in Holding <=> pc[b] \in Holding /\ b # a
    BY <2>1 DEF Released
  <2>3. active > 0 /\ CountInv'
    BY <2>1, <2>2, <1>1, HoldersAfterRelease, HoldersFinite, FS_CardinalityType DEF SlotInv, CountInv
  <2>4. QueueInv'
    BY <1>1, <2>1 DEF SlotInv, QueueInv, Released
  <2>5. active' \in 0 .. Max /\ queue' \in Seq(Actors)
    BY <2>1, <2>3, Bounds DEF TypeOK
  <2>6. QED
    BY <2>1, <2>3, <2>4, <2>5 DEF SlotInv, Released
<1>2. CASE queue # <<>>
  <2> DEFINE h == Head(queue)
  <2>1. /\ queue \in Seq(Actors) /\ h \in Actors /\ h = queue[1]
        /\ pc[h] = "queued" /\ h # a
    BY <1>2, TailQueue DEF TypeOK, SlotInv, QueueInv
  <2>2. /\ pc' = [where EXCEPT ![h] = "granted"]
        /\ queue' = Tail(queue) /\ active' = active
    BY <1>2 DEF ReleaseSlot
  <2>3. /\ \A b \in Actors \ {h} : pc'[b] = where[b]
        /\ pc'[h] = "granted" /\ pc' \in [Actors -> Places]
    BY <2>1, <2>2 DEF Released
  <2>4. \A b \in Actors :
           pc'[b] \in Holding <=> b = h \/ (pc[b] \in Holding /\ b # a)
    BY <2>1, <2>3 DEF Released
  <2>5. CountInv'
    <3>1. Cardinality(Holders') = Cardinality(Holders)
      BY <2>1, <2>4, HoldersAfterHandover
    <3>2. QED
      BY <3>1, <1>2, <2>2 DEF SlotInv, CountInv
  <2>6. QueueInv'
    <3>1. \A b \in Actors : pc'[b] = "queued" <=> pc[b] = "queued" /\ b # h
      BY <2>1, <2>3 DEF Released
    <3>2. \A i \in DOMAIN queue' : /\ queue'[i] = queue[i + 1] /\ i + 1 \in DOMAIN queue
                                  /\ queue[i + 1] \in Actors
      BY <1>2, <2>1, <2>2, TailQueue
    <3>3. \A i \in DOMAIN queue' : pc'[queue'[i]] = "queued"
      <4> SUFFICES ASSUME NEW i \in DOMAIN queue' PROVE pc'[queue'[i]] = "queued"
        OBVIOUS
      <4>1. queue[i + 1] # h
        BY <3>2, <2>1, <1>2, <2>2, TailQueue DEF SlotInv, QueueInv
      <4>2. QED
        BY <4>1, <3>1, <3>2 DEF SlotInv, QueueInv
    <3>4. \A i, j \in DOMAIN queue' : queue'[i] = queue'[j] => i = j
      BY <3>2, <2>2, <2>1, <1>2, TailQueue DEF SlotInv, QueueInv
    <3>5. \A b \in Actors : pc'[b] = "queued" => \E i \in DOMAIN queue' : queue'[i] = b
      <4> SUFFICES ASSUME NEW b \in Actors, pc'[b] = "queued"
                   PROVE  \E i \in DOMAIN queue' : queue'[i] = b
        OBVIOUS
      <4>1. PICK i \in DOMAIN queue : queue[i] = b /\ i # 1
        BY <3>1, <2>1 DEF SlotInv, QueueInv
      <4>2. QED
        BY <4>1, <2>1, <2>2, <1>2, TailQueue
    <3>6. QED
      BY <3>3, <3>4, <3>5 DEF QueueInv
  <2>7. queue' \in Seq(Actors) /\ active' \in 0 .. Max
    BY <2>1, <2>2, <1>2, TailQueue DEF TypeOK
  <2>8. QED
    BY <2>1, <2>3, <2>5, <2>6, <2>7 DEF SlotInv, Released
<1>3. QED
  BY <1>1, <1>2

-----------------------------------------------------------------------------
(* The sudo probe.                                                         *)

(* The end of a command of the probe moves the probe, and the calls that   *)
(* wait for it if it was the last one.                                     *)
LEMMA ProbeReleases ==
  ASSUME TypeOK, NEW ok \in BOOLEAN
  PROVE  /\ Released(Probe, AfterProbeCommand(ok))
         /\ AfterProbeCommand(ok)[Probe] = "prompting" <=> stage = "passwordless" /\ ~ok
         /\ AfterProbeCommand(ok)[Probe] = "cleared" <=> stage = "installed" /\ ok
<1> USE DEF TypeOK, Places, InFlight, Microtasks, Actors
<1>1. /\ Released(Probe, ProbeSucceeded(pc)) /\ Released(Probe, ProbeFailed(pc))
      /\ ProbeSucceeded(pc)[Probe] = "idle" /\ ProbeFailed(pc)[Probe] = "idle"
  BY DEF Released, ProbeSucceeded, ProbeFailed, WakeJoined
<1>2. CASE stage = "installed"
  BY <1>1, <1>2 DEF AfterProbeCommand, Released
<1>3. CASE stage = "passwordless"
  BY <1>1, <1>3 DEF AfterProbeCommand, Released
<1>4. CASE stage = "validate"
  BY <1>1, <1>4 DEF AfterProbeCommand, Released
<1>5. QED
  BY <1>2, <1>3, <1>4

(* Only the command that tries without a password leads to a prompt, and   *)
(* what ends the probe leaves its success, its failure or the password.    *)
LEMMA ProbeEffectKeeps ==
  ASSUME TypeOK, ProbeInv, pc[Probe] \notin {"idle", "prompting"},
         NEW ok \in BOOLEAN, ProbeEffect(ok),
         pc'[Probe] = AfterProbeCommand(ok)[Probe],
         asked' = IF stage = "passwordless" /\ ~ok THEN asked + 1 ELSE asked
  PROVE  /\ ProbeInv'
         /\ stage' \in {"installed", "passwordless", "validate"}
         /\ {ready, primed, passwordless, cached, failed}' \subseteq BOOLEAN
         /\ asked' \in Nat
<1>1. /\ stage' \in {"installed", "passwordless", "validate"}
      /\ asked' \in Nat
  BY DEF TypeOK, ProbeEffect
<1>2. {ready, primed, passwordless, cached, failed}' \subseteq BOOLEAN
  BY Zenon DEF TypeOK, ProbeEffect
<1>3. pc'[Probe] # "joined"
  BY ProbeReleases DEF Released
<1>4. AskedOnce'
  BY DEF ProbeInv, AskedOnce, ProbeEffect, TypeOK
<1>5. asked' = 1 => failed' \/ cached' \/ pc'[Probe] = "prompting"
  <2>1. CASE stage = "passwordless"
    BY <2>1, ProbeReleases DEF ProbeInv, ProbeEffect, TypeOK
  <2>2. CASE stage # "passwordless"
    BY <2>2 DEF ProbeInv, ProbeEffect, TypeOK
  <2>3. QED
    BY <2>1, <2>2
<1>6. pc'[Probe] \notin {"idle", "prompting"} /\ stage' # "validate" => asked' = 0
  BY ProbeReleases DEF ProbeInv, ProbeEffect, TypeOK, Released
<1>7. QED
  BY <1>1, <1>2, <1>3, <1>4, <1>5, <1>6 DEF ProbeInv

-----------------------------------------------------------------------------
(* The end of a call.                                                      *)

(* A call that held a slot and ends, whatever the reason.                  *)
LEMMA EndedKeeps ==
  ASSUME IInv, NEW a \in Actors, pc[a] \in Holding,
         NEW ok \in BOOLEAN, Ended(a, ok), UNCHANGED link
  PROVE  IInv'
<1> DEFINE where == IF a = Probe THEN AfterProbeCommand(ok) ELSE [pc EXCEPT ![a] = "idle"]
<1>1. Released(a, where) /\ ReleaseSlot(where)
  <2>1. CASE a = Probe
    BY <2>1, ProbeReleases DEF IInv, Ended
  <2>2. CASE a # Probe
    BY <2>2 DEF IInv, TypeOK, Ended, Released, Places
  <2>3. QED
    BY <2>1, <2>2
<1> HIDE DEF where
<1>2. /\ SlotInv'
      /\ pc' \in [Actors -> Places]
      /\ active' \in 0 .. Max /\ queue' \in Seq(Actors)
      /\ pc'[a] = where[a]
      /\ \A b \in Actors \ {a} :
            \/ pc'[b] = where[b]
            \/ pc[b] = "queued" /\ pc'[b] = "granted"
  BY <1>1, ReleaseKeeps DEF IInv
<1>3. \A b \in Actors : pc'[b] \in InFlight => b # a /\ pc[b] = pc'[b]
  BY <1>1, <1>2 DEF Released, InFlight
<1>4. /\ gen' \in [Actors -> 0 .. MaxClients]
      /\ mode' \in [Actors -> {"none", "noninteractive", "password"}]
      /\ \A b \in Actors \ {a} : gen'[b] = gen[b]
  <2>1. /\ gen' = [gen EXCEPT ![a] = 0]
        /\ mode' = [mode EXCEPT ![a] = "none"]
    BY DEF Ended
  <2>2. QED
    BY <2>1, Bounds DEF IInv, TypeOK
<1>5. /\ ProbeInv'
      /\ stage' \in {"installed", "passwordless", "validate"}
      /\ {ready, primed, passwordless, cached, failed}' \subseteq BOOLEAN
      /\ asked' \in Nat
  <2>1. CASE a = Probe
    <3>1. /\ ProbeEffect(ok) /\ pc'[Probe] = AfterProbeCommand(ok)[Probe]
          /\ asked' = IF stage = "passwordless" /\ ~ok THEN asked + 1 ELSE asked
      BY <2>1, <1>2 DEF Ended, where
    <3>2. pc[Probe] \notin {"idle", "prompting"}
      BY <2>1 DEF Holding
    <3>3. QED
      BY <3>1, <3>2, ProbeEffectKeeps DEF IInv
  <2>2. CASE a # Probe
    <3>1. UNCHANGED <<stage, sudo, asked>>
      BY <2>2 DEF Ended
    <3>2. \/ pc'[Probe] = pc[Probe]
          \/ pc[Probe] = "queued" /\ pc'[Probe] = "granted"
      <4>1. Probe \in Actors \ {a} /\ where[Probe] = pc[Probe]
        BY <2>2 DEF where, IInv, TypeOK, Actors
      <4>2. QED
        BY <4>1, <1>2
    <3>3. QED
      BY <3>1, <3>2 DEF IInv, TypeOK, ProbeInv, AskedOnce, sudo
  <2>3. QED
    BY <2>1, <2>2
<1>6. OnCurrentClient' /\ LinkInv'
  BY <1>3, <1>4 DEF IInv, OnCurrentClient, LinkInv, link
<1>7. TypeOK'
  BY <1>2, <1>4, <1>5 DEF IInv, TypeOK, Places, link
<1>8. QED
  BY <1>2, <1>5, <1>6, <1>7 DEF IInv

-----------------------------------------------------------------------------
(* The start of a call.                                                    *)

(* The calls nobody is ahead of claim a free slot, the others go to the    *)
(* end of the queue.                                                       *)
LEMMA QueueUp ==
  ASSUME TypeOK, SlotInv, NEW a \in Actors, pc[a] = "cleared", ~SlotIsFree,
         queue' = Append(queue, a), pc' = [pc EXCEPT ![a] = "queued"],
         active' = active
  PROVE  SlotInv' /\ queue' \in Seq(Actors)
<1>1. /\ queue \in Seq(Actors) /\ queue' \in Seq(Actors)
      /\ DOMAIN queue' = DOMAIN queue \cup {Len(queue) + 1}
      /\ Len(queue) + 1 \notin DOMAIN queue /\ queue'[Len(queue) + 1] = a
      /\ \A i \in DOMAIN queue : queue'[i] = queue[i] /\ queue[i] \in Actors
  BY DEF TypeOK
<1>2. \A i \in DOMAIN queue : queue[i] # a
  BY DEF SlotInv, QueueInv
<1>3. \A b \in Actors : pc'[b] = IF b = a THEN "queued" ELSE pc[b]
  BY DEF TypeOK
<1>4. QueueInv'
  <2>1. \A i \in DOMAIN queue' : pc'[queue'[i]] = "queued"
    BY <1>1, <1>3 DEF SlotInv, QueueInv
  <2>2. \A i, j \in DOMAIN queue' : queue'[i] = queue'[j] => i = j
    BY <1>1, <1>2 DEF SlotInv, QueueInv
  <2>3. \A b \in Actors : pc'[b] = "queued" => \E i \in DOMAIN queue' : queue'[i] = b
    <3> SUFFICES ASSUME NEW b \in Actors, pc'[b] = "queued"
                 PROVE  \E i \in DOMAIN queue' : queue'[i] = b
      OBVIOUS
    <3>1. CASE b = a
      BY <3>1, <1>1
    <3>2. CASE b # a
      BY <3>2, <1>1, <1>3 DEF SlotInv, QueueInv
    <3>3. QED
      BY <3>1, <3>2
  <2>4. QED
    BY <2>1, <2>2, <2>3 DEF QueueInv
<1>5. CountInv'
  <2>1. Holders' = Holders
    BY <1>3 DEF Holders, Holding
  <2>2. active = Max
    BY Bounds DEF SlotIsFree, SlotInv, CountInv, TypeOK
  <2>3. QED
    BY <2>1, <2>2 DEF SlotInv, CountInv
<1>6. QED
  BY <1>1, <1>4, <1>5 DEF SlotInv

(* acquireSessionChannel: a free slot is counted when it is claimed.       *)
LEMMA ClaimSlot ==
  ASSUME TypeOK, SlotInv, NEW a \in Actors, pc[a] = "cleared", SlotIsFree,
         queue' = queue, pc' = [pc EXCEPT ![a] = "opening"],
         active' = active + 1
  PROVE  SlotInv' /\ active' \in 0 .. Max
<1>1. \A b \in Actors : pc'[b] = IF b = a THEN "opening" ELSE pc[b]
  BY DEF TypeOK
<1>2. CountInv'
  <2>1. Cardinality(Holders') = Cardinality(Holders) + 1
    BY <1>1, HoldersAfterClaim DEF Holding
  <2>2. QED
    BY <2>1 DEF SlotInv, CountInv, SlotIsFree
<1>3. QueueInv'
  BY <1>1 DEF SlotInv, QueueInv, SlotIsFree
<1>4. QED
  BY <1>2, <1>3, Bounds DEF SlotInv, SlotIsFree, TypeOK

(* A call that has its slot opens its channel on the client of that moment.*)
LEMMA OpenKeeps ==
  ASSUME TypeOK, OnCurrentClient, NEW a \in Actors, ~CannotStart(a), Open(a), client' = client
  PROVE  /\ OnCurrentClient'
         /\ pc' = [pc EXCEPT ![a] = "opening"]
         /\ pc' \in [Actors -> Places]
         /\ gen' \in [Actors -> 0 .. MaxClients]
         /\ mode' \in [Actors -> {"none", "noninteractive", "password"}]
<1>1. /\ pc' = [pc EXCEPT ![a] = "opening"]
      /\ gen' = [gen EXCEPT ![a] = client]
      /\ mode' = [mode EXCEPT ![a] = SudoMode(a)]
      /\ SudoMode(a) \in {"none", "noninteractive", "password"}
      /\ client # 0
  BY DEF Open, SudoMode, CannotStart
<1>2. QED
  BY <1>1 DEF TypeOK, OnCurrentClient, Places, InFlight

(* An exec asks for its slot, or cannot start without a client.            *)
LEMMA ClaimKeeps ==
  ASSUME IInv, NEW a \in Actors, Claim(a)
  PROVE  IInv'
<1>1. pc[a] = "cleared" /\ UNCHANGED link
  BY DEF Claim
<1>2. CASE SlotIsFree /\ ~CannotStart(a)
  <2>1. active' = active + 1 /\ Open(a) /\ UNCHANGED <<queue, stage, sudo, asked>>
    BY <1>1, <1>2 DEF Claim
  <2>2. /\ OnCurrentClient' /\ pc' = [pc EXCEPT ![a] = "opening"]
        /\ pc' \in [Actors -> Places]
        /\ gen' \in [Actors -> 0 .. MaxClients]
        /\ mode' \in [Actors -> {"none", "noninteractive", "password"}]
    BY <1>1, <1>2, <2>1, OpenKeeps DEF IInv, link
  <2>3. SlotInv' /\ active' \in 0 .. Max
    BY <1>1, <1>2, <2>1, <2>2, ClaimSlot DEF IInv
  <2>4. TypeOK'
    BY <1>1, <2>1, <2>2, <2>3 DEF IInv, TypeOK, Places, link, sudo
  <2>5. ProbeInv' /\ LinkInv'
    BY <1>1, <2>1, <2>2 DEF IInv, TypeOK, ProbeInv, AskedOnce, LinkInv, link, sudo, Actors
  <2>6. QED
    BY <2>2, <2>3, <2>4, <2>5 DEF IInv
<1>3. CASE ~SlotIsFree
  <2>1. /\ queue' = Append(queue, a) /\ pc' = [pc EXCEPT ![a] = "queued"]
        /\ UNCHANGED <<gen, mode, active, stage, sudo, asked>>
    BY <1>1, <1>3 DEF Claim
  <2>2. SlotInv' /\ queue' \in Seq(Actors)
    BY <1>1, <1>3, <2>1, QueueUp DEF IInv
  <2>3. TypeOK'
    BY <1>1, <2>1, <2>2 DEF IInv, TypeOK, link, sudo
  <2>4. OnCurrentClient' /\ LinkInv' /\ ProbeInv'
    BY <1>1, <2>1 DEF IInv, TypeOK, OnCurrentClient, LinkInv, ProbeInv, AskedOnce, InFlight, link, sudo, Actors
  <2>5. QED
    BY <2>2, <2>3, <2>4 DEF IInv
<1>4. CASE SlotIsFree /\ CannotStart(a) /\ a = Probe
  <2>1. /\ pc' = AfterProbeCommand(FALSE) /\ ProbeEffect(FALSE)
        /\ asked' = IF stage = "passwordless" THEN asked + 1 ELSE asked
        /\ UNCHANGED slots /\ UNCHANGED <<gen, mode>>
    BY <1>1, <1>4 DEF Claim
  <2>2. Released(Probe, pc')
    BY <2>1, ProbeReleases DEF IInv
  <2>3. /\ ProbeInv'
        /\ stage' \in {"installed", "passwordless", "validate"}
        /\ {ready, primed, passwordless, cached, failed}' \subseteq BOOLEAN
        /\ asked' \in Nat
    BY <1>1, <1>4, <2>1, ProbeEffectKeeps DEF IInv
  <2>4. SlotInv'
    BY <1>1, <1>4, <2>1, <2>2, SlotsUntouched DEF IInv, TypeOK, Released, Holding
  <2>5. TypeOK'
    BY <1>1, <2>1, <2>2, <2>3 DEF IInv, TypeOK, Released, Places, link, slots
  <2>6. OnCurrentClient' /\ LinkInv'
    BY <1>1, <2>1, <2>2 DEF IInv, OnCurrentClient, LinkInv, Released, InFlight, link
  <2>7. QED
    BY <2>3, <2>4, <2>5, <2>6 DEF IInv
<1>5. CASE SlotIsFree /\ CannotStart(a) /\ a # Probe
  <2>1. /\ pc' = [pc EXCEPT ![a] = "idle"]
        /\ UNCHANGED <<gen, mode, slots, stage, sudo, asked>>
    BY <1>1, <1>5 DEF Claim
  <2>2. SlotInv'
    BY <1>1, <2>1, SlotsUntouched DEF IInv, TypeOK, Holding
  <2>3. TypeOK'
    BY <1>1, <2>1 DEF IInv, TypeOK, link, sudo, slots
  <2>4. OnCurrentClient' /\ LinkInv' /\ ProbeInv'
    BY <1>1, <1>5, <2>1 DEF IInv, TypeOK, OnCurrentClient, LinkInv, ProbeInv, AskedOnce, InFlight, link, sudo
  <2>5. QED
    BY <2>2, <2>3, <2>4 DEF IInv
<1>6. QED
  BY <1>2, <1>3, <1>4, <1>5

(* A call woken with its slot opens its channel, or finds no client.       *)
LEMMA ResumeKeeps ==
  ASSUME IInv, NEW a \in Actors, Resume(a)
  PROVE  IInv'
<1>1. pc[a] = "granted" /\ pc[a] \in Holding /\ UNCHANGED link
  BY DEF Resume, Holding
<1>2. CASE CannotStart(a)
  BY <1>1, <1>2, EndedKeeps DEF Resume
<1>3. CASE ~CannotStart(a)
  <2>1. Open(a) /\ UNCHANGED <<slots, stage, sudo, asked>>
    BY <1>3 DEF Resume
  <2>2. /\ OnCurrentClient' /\ pc' = [pc EXCEPT ![a] = "opening"]
        /\ pc' \in [Actors -> Places]
        /\ gen' \in [Actors -> 0 .. MaxClients]
        /\ mode' \in [Actors -> {"none", "noninteractive", "password"}]
    BY <1>1, <1>3, <2>1, OpenKeeps DEF IInv, link
  <2>3. SlotInv'
    BY <1>1, <2>1, <2>2, SlotsUntouched DEF IInv, TypeOK, Holding
  <2>4. TypeOK'
    BY <1>1, <2>1, <2>2 DEF IInv, TypeOK, Places, link, sudo, slots
  <2>5. ProbeInv' /\ LinkInv'
    BY <1>1, <2>1, <2>2 DEF IInv, TypeOK, ProbeInv, AskedOnce, LinkInv, link, sudo, Actors
  <2>6. QED
    BY <2>2, <2>3, <2>4, <2>5 DEF IInv
<1>4. QED
  BY <1>2, <1>3

(* A module calls exec: it starts or joins the probe first, or asks for    *)
(* its slot.                                                               *)
LEMMA CallKeeps ==
  ASSUME IInv, NEW c \in Callers, Call(c)
  PROVE  IInv'
<1>1. /\ pc[c] = "idle" /\ c \in Actors /\ c # Probe /\ Probe \in Actors
      /\ UNCHANGED <<gen, mode, slots, link, primed, passwordless, cached, failed, asked>>
  BY ProbeIsNoCaller DEF Call, Actors
<1>2. CASE ready \/ cached
  <2>1. ready' = TRUE /\ pc' = [pc EXCEPT ![c] = "cleared"] /\ UNCHANGED stage
    BY <1>2 DEF Call
  <2>2. SlotInv'
    BY <1>1, <2>1, SlotsUntouched DEF IInv, TypeOK, Holding
  <2>3. TypeOK'
    BY <1>1, <2>1 DEF IInv, TypeOK, Microtasks, link, slots
  <2>4. OnCurrentClient' /\ LinkInv' /\ ProbeInv'
    BY <1>1, <2>1 DEF IInv, TypeOK, OnCurrentClient, LinkInv, ProbeInv, AskedOnce, InFlight, link
  <2>5. QED
    BY <2>2, <2>3, <2>4 DEF IInv
<1>3. CASE ~ready /\ ~cached /\ ~failed /\ pc[Probe] = "idle"
  <2>1. /\ pc' = [pc EXCEPT ![c] = "joined", ![Probe] = "cleared"]
        /\ stage' = "installed" /\ UNCHANGED ready
    BY <1>3 DEF Call
  <2>2. SlotInv'
    BY <1>1, <1>3, <2>1, SlotsUntouched DEF IInv, TypeOK, Holding
  <2>3. TypeOK'
    BY <1>1, <2>1 DEF IInv, TypeOK, Microtasks, link, slots
  <2>4. asked = 0
    BY <1>3 DEF IInv, TypeOK, ProbeInv, AskedOnce
  <2>5. OnCurrentClient' /\ LinkInv' /\ ProbeInv'
    BY <1>1, <2>1, <2>4 DEF IInv, TypeOK, OnCurrentClient, LinkInv, ProbeInv, AskedOnce, InFlight, link
  <2>6. QED
    BY <2>2, <2>3, <2>5 DEF IInv
<1>4. CASE ~ready /\ ~cached /\ ~failed /\ pc[Probe] # "idle"
  <2>1. pc' = [pc EXCEPT ![c] = "joined"] /\ UNCHANGED <<stage, ready>>
    BY <1>4 DEF Call
  <2>2. SlotInv'
    BY <1>1, <2>1, SlotsUntouched DEF IInv, TypeOK, Holding
  <2>3. TypeOK'
    BY <1>1, <2>1 DEF IInv, TypeOK, link, slots
  <2>4. OnCurrentClient' /\ LinkInv' /\ ProbeInv'
    BY <1>1, <2>1 DEF IInv, TypeOK, OnCurrentClient, LinkInv, ProbeInv, AskedOnce, InFlight, link
  <2>5. QED
    BY <2>2, <2>3, <2>4 DEF IInv
<1>5. QED
  BY <1>2, <1>3, <1>4 DEF Call

-----------------------------------------------------------------------------
(* The password prompt.                                                    *)

(* The operator answers the password prompt, or refuses it.                *)
LEMMA PromptKeeps ==
  ASSUME IInv, PromptAnswered \/ PromptRefused
  PROVE  IInv'
<1>1. /\ pc[Probe] = "prompting" /\ Probe \in Actors
      /\ UNCHANGED <<gen, mode, slots, link, ready, primed, passwordless, asked>>
  BY DEF PromptAnswered, PromptRefused, Actors
<1>2. CASE PromptAnswered
  <2>1. /\ cached' = TRUE /\ stage' = "validate" /\ UNCHANGED failed
        /\ pc' = [pc EXCEPT ![Probe] = "cleared"]
    BY <1>2 DEF PromptAnswered
  <2>2. SlotInv'
    BY <1>1, <2>1, SlotsUntouched DEF IInv, TypeOK, Holding
  <2>3. TypeOK'
    BY <1>1, <2>1 DEF IInv, TypeOK, Microtasks, link, slots
  <2>4. OnCurrentClient' /\ LinkInv' /\ ProbeInv'
    BY <1>1, <2>1 DEF IInv, TypeOK, OnCurrentClient, LinkInv, ProbeInv, AskedOnce, InFlight, link
  <2>5. QED
    BY <2>2, <2>3, <2>4 DEF IInv
<1>3. CASE PromptRefused
  <2>1. failed' = TRUE /\ UNCHANGED <<stage, cached>> /\ pc' = ProbeFailed(pc)
    BY <1>3 DEF PromptRefused
  <2>2. /\ pc' \in [Actors -> Places] /\ pc'[Probe] = "idle"
        /\ \A b \in Actors \ {Probe} : pc'[b] = pc[b] \/ (pc[b] = "joined" /\ pc'[b] = "idle")
    BY <1>1, <2>1 DEF ProbeFailed, WakeJoined, IInv, TypeOK, Places
  <2>3. SlotInv'
    BY <1>1, <2>2, SlotsUntouched DEF IInv, TypeOK, Holding
  <2>4. TypeOK'
    BY <1>1, <2>1, <2>2 DEF IInv, TypeOK, Places, link, slots
  <2>5. OnCurrentClient' /\ LinkInv' /\ ProbeInv'
    BY <1>1, <2>1, <2>2 DEF IInv, OnCurrentClient, LinkInv, ProbeInv, AskedOnce, InFlight, link
  <2>6. QED
    BY <2>3, <2>4, <2>5 DEF IInv
<1>4. QED
  BY <1>2, <1>3

-----------------------------------------------------------------------------
(* The channels.                                                           *)

(* The channel is open and the command runs.                               *)
LEMMA OpenedKeeps ==
  ASSUME IInv, NEW a \in Actors, Opened(a)
  PROVE  IInv'
<1>1. /\ pc[a] = "opening" /\ pc' = [pc EXCEPT ![a] = "running"]
      /\ UNCHANGED <<gen, mode, slots, link, stage, sudo, asked>>
  BY DEF Opened
<1>2. SlotInv'
  BY <1>1, SlotsUntouched DEF IInv, TypeOK, Holding
<1>3. TypeOK'
  BY <1>1 DEF IInv, TypeOK, InFlight, link, sudo, slots
<1>4. OnCurrentClient' /\ LinkInv' /\ ProbeInv'
  BY <1>1 DEF IInv, TypeOK, OnCurrentClient, LinkInv, ProbeInv, AskedOnce, InFlight, link, sudo, Actors
<1>5. QED
  BY <1>2, <1>3, <1>4 DEF IInv

(* Every other end of a command is an Ended of a call that holds a slot.   *)
LEMMA EndsKeep ==
  ASSUME IInv, NEW a \in Actors,
         \/ OpenFails(a) \/ Timeout(a) \/ Settle(a)
         \/ \E ok \in BOOLEAN : Finish(a, ok)
  PROVE  IInv'
<1>1. pc[a] \in Holding /\ UNCHANGED link
  BY DEF OpenFails, Timeout, Settle, Finish, Holding, InFlight
<1>2. \E ok \in BOOLEAN : Ended(a, ok)
  BY DEF OpenFails, Timeout, Settle, Finish
<1>3. QED
  BY <1>1, <1>2, EndedKeeps

(* invalidateSudoReadiness: a command refused by sudo resets the probe and *)
(* the password.                                                           *)
LEMMA SudoRefusedKeeps ==
  ASSUME IInv, NEW c \in Callers, SudoRefused(c)
  PROVE  IInv'
<1> DEFINE where == [pc EXCEPT ![c] = "idle"]
<1>1. /\ c \in Actors /\ c # Probe /\ Probe \in Actors
      /\ pc[c] \in Holding /\ ReleaseSlot(where)
      /\ gen' = [gen EXCEPT ![c] = 0] /\ mode' = [mode EXCEPT ![c] = "none"]
      /\ ready' = FALSE /\ primed' = FALSE /\ passwordless' = FALSE
      /\ UNCHANGED <<link, stage, cached, failed, asked>>
  BY ProbeIsNoCaller DEF SudoRefused, Holding, Actors
<1>2. Released(c, where) /\ where[Probe] = pc[Probe]
  BY <1>1 DEF IInv, TypeOK, Released, Places
<1> HIDE DEF where
<1>3. /\ SlotInv'
      /\ pc' \in [Actors -> Places]
      /\ active' \in 0 .. Max /\ queue' \in Seq(Actors)
      /\ pc'[c] = where[c]
      /\ \A b \in Actors \ {c} :
            \/ pc'[b] = where[b]
            \/ pc[b] = "queued" /\ pc'[b] = "granted"
  BY <1>1, <1>2, ReleaseKeeps DEF IInv
<1>4. \A b \in Actors : pc'[b] \in InFlight => b # c /\ pc[b] = pc'[b]
  BY <1>2, <1>3 DEF Released, InFlight
<1>5. /\ gen' \in [Actors -> 0 .. MaxClients]
      /\ mode' \in [Actors -> {"none", "noninteractive", "password"}]
      /\ \A b \in Actors \ {c} : gen'[b] = gen[b]
  BY <1>1, Bounds DEF IInv, TypeOK
<1>6. OnCurrentClient' /\ LinkInv'
  BY <1>1, <1>4, <1>5 DEF IInv, OnCurrentClient, LinkInv, link
<1>7. ProbeInv'
  <2>1. \/ pc'[Probe] = pc[Probe]
        \/ pc[Probe] = "queued" /\ pc'[Probe] = "granted"
    BY <1>1, <1>2, <1>3
  <2>2. QED
    BY <1>1, <2>1 DEF IInv, ProbeInv, AskedOnce
<1>8. TypeOK'
  BY <1>1, <1>3, <1>5 DEF IInv, TypeOK, Places, link
<1>9. QED
  BY <1>3, <1>6, <1>7, <1>8 DEF IInv

-----------------------------------------------------------------------------
(* The client.                                                             *)

(* rejectPending settles every call in flight.                             *)
LEMMA RejectPendingKeeps ==
  ASSUME TypeOK, SlotInv, RejectPending, UNCHANGED slots
  PROVE  /\ SlotInv' /\ pc' \in [Actors -> Places]
         /\ \A a \in Actors : pc'[a] \notin InFlight
         /\ pc'[Probe] = IF pc[Probe] \in InFlight THEN "rejected" ELSE pc[Probe]
<1>1. /\ pc' \in [Actors -> Places]
      /\ \A a \in Actors : pc'[a] = IF pc[a] \in InFlight THEN "rejected" ELSE pc[a]
  BY DEF RejectPending, TypeOK, Places, Microtasks
<1>2. SlotInv'
  BY <1>1, SlotsUntouched DEF TypeOK, Holding, InFlight
<1>3. QED
  BY <1>1, <1>2 DEF InFlight, Actors

(* Without a client no call is in flight on one.                           *)
LEMMA DisconnectTransportKeeps ==
  ASSUME IInv, DisconnectTransport
  PROVE  /\ SlotInv' /\ OnCurrentClient' /\ ProbeInv' /\ client' = 0
         /\ pc' \in [Actors -> Places]
         /\ UNCHANGED <<gen, mode, slots, stage>>
         /\ ready' = FALSE /\ primed' = FALSE /\ passwordless' = FALSE
         /\ failed' = FALSE /\ asked' = 0
<1>1. /\ RejectPending /\ client' = 0 /\ asked' = 0
      /\ UNCHANGED <<gen, mode, slots, stage>>
      /\ ready' = FALSE /\ primed' = FALSE /\ passwordless' = FALSE /\ failed' = FALSE
  BY DEF DisconnectTransport
<1>2. /\ SlotInv' /\ pc' \in [Actors -> Places]
      /\ \A a \in Actors : pc'[a] \notin InFlight
      /\ pc'[Probe] = IF pc[Probe] \in InFlight THEN "rejected" ELSE pc[Probe]
  BY <1>1, RejectPendingKeeps DEF IInv
<1>3. OnCurrentClient' /\ ProbeInv'
  BY <1>1, <1>2 DEF IInv, OnCurrentClient, ProbeInv, AskedOnce
<1>4. QED
  BY <1>1, <1>2, <1>3

(* reconnect disconnects before it connects again.                         *)
LEMMA ReconnectKeeps ==
  ASSUME IInv, Reconnect \/ ConnectFails \/ Disconnect
  PROVE  IInv'
<1>1. UNCHANGED <<made, alive>>
  BY DEF Reconnect, ConnectFails, Disconnect
<1>2. CASE DisconnectTransport
  <2>1. reconnecting' \in 0 .. MaxAttempts /\ (reconnecting' > 0 => made < MaxClients)
    BY Bounds DEF IInv, TypeOK, LinkInv, Reconnect, ConnectFails, Disconnect
  <2>2. {ready, primed, passwordless, cached, failed}' \subseteq BOOLEAN
    <3>1. cached' \in BOOLEAN
      BY Zenon DEF IInv, TypeOK, Reconnect, ConnectFails, Disconnect
    <3>2. QED
      BY <3>1, <1>2, DisconnectTransportKeeps, Zenon
  <2>3. TypeOK'
    <3>1. /\ pc' \in [Actors -> Places] /\ client' = 0 /\ asked' = 0
          /\ UNCHANGED <<gen, mode, slots, stage>>
      BY <1>2, DisconnectTransportKeeps
    <3>2. QED
      BY <1>1, <2>1, <2>2, <3>1, Bounds DEF IInv, TypeOK, Places, slots
  <2>4. LinkInv'
    BY <1>1, <1>2, <2>1, DisconnectTransportKeeps DEF LinkInv
  <2>5. QED
    BY <1>2, <2>3, <2>4, DisconnectTransportKeeps DEF IInv
<1>3. CASE ~DisconnectTransport
  <2>1. /\ reconnecting' = 0
        /\ UNCHANGED <<pc, gen, mode, slots, client, stage, sudo, asked, made, alive>>
    BY <1>3 DEF Reconnect, ConnectFails, Disconnect, sudo
  <2>2. SlotInv'
    BY <2>1, SlotsUntouched DEF IInv, TypeOK
  <2>3. QED
    BY <2>1, <2>2, Bounds DEF IInv, TypeOK, OnCurrentClient, LinkInv, ProbeInv, AskedOnce, sudo, slots
<1>4. QED
  BY <1>2, <1>3

(* A new client meets no call in flight: the reconnect rejected them all.  *)
LEMMA ConnectSucceedsKeeps ==
  ASSUME IInv, ConnectSucceeds
  PROVE  IInv'
<1>1. /\ reconnecting > 0 /\ reconnecting' = 0
      /\ made' = made + 1 /\ client' = made + 1 /\ alive' = TRUE
      /\ UNCHANGED <<pc, gen, mode, slots, stage, sudo, asked>>
  BY DEF ConnectSucceeds
<1>2. client = 0 /\ made < MaxClients
  BY <1>1 DEF IInv, LinkInv
<1>3. TypeOK'
  BY <1>1, <1>2, Bounds DEF IInv, TypeOK, sudo, slots
<1>4. SlotInv'
  BY <1>1, SlotsUntouched DEF IInv, TypeOK
<1>5. OnCurrentClient' /\ LinkInv' /\ ProbeInv'
  BY <1>1, <1>2 DEF IInv, OnCurrentClient, LinkInv, ProbeInv, AskedOnce, sudo
<1>6. QED
  BY <1>3, <1>4, <1>5 DEF IInv

(* A connection the peer closes is taken off the session.                  *)
LEMMA ConnectionLostKeeps ==
  ASSUME IInv, ConnectionLost
  PROVE  IInv'
<1>1. /\ RejectPending /\ alive' = FALSE
      /\ UNCHANGED <<gen, mode, slots, client, made, reconnecting, stage, sudo, asked>>
  BY DEF ConnectionLost
<1>2. /\ SlotInv' /\ pc' \in [Actors -> Places]
      /\ \A a \in Actors : pc'[a] \notin InFlight
      /\ pc'[Probe] = IF pc[Probe] \in InFlight THEN "rejected" ELSE pc[Probe]
  BY <1>1, RejectPendingKeeps DEF IInv
<1>3. TypeOK'
  BY <1>1, <1>2 DEF IInv, TypeOK, Places, sudo, slots
<1>4. OnCurrentClient' /\ LinkInv' /\ ProbeInv'
  BY <1>1, <1>2 DEF IInv, OnCurrentClient, LinkInv, ProbeInv, AskedOnce, InFlight, sudo
<1>5. QED
  BY <1>2, <1>3, <1>4 DEF IInv

-----------------------------------------------------------------------------
(* The invariant.                                                          *)

(* A fresh session satisfies the invariant.                                *)
LEMMA InitKeeps == Init => IInv
<1> SUFFICES ASSUME Init PROVE IInv
  OBVIOUS
<1>1. TypeOK
  <2>1. {ready, primed, passwordless, cached, failed} \subseteq BOOLEAN /\ alive \in BOOLEAN
    BY Zenon DEF Init
  <2>2. QED
    BY <2>1, Bounds DEF Init, TypeOK
<1>2. Holders = {} /\ queue = <<>>
  BY DEF Init, Holders, Holding, InFlight
<1>3. SlotInv
  BY <1>2, FS_EmptySet DEF Init, SlotInv, CountInv, QueueInv
<1>4. OnCurrentClient /\ LinkInv /\ ProbeInv
  BY DEF Init, OnCurrentClient, LinkInv, ProbeInv, AskedOnce, InFlight, Actors
<1>5. QED
  BY <1>1, <1>3, <1>4 DEF IInv

(* And every step keeps it.                                                *)
LEMMA StepKeeps == IInv /\ [Next]_vars => IInv'
<1> SUFFICES ASSUME IInv, [Next]_vars PROVE IInv'
  OBVIOUS
<1>1. ASSUME NEW c \in Callers, Call(c) \/ SudoRefused(c) PROVE IInv'
  BY <1>1, CallKeeps, SudoRefusedKeeps
<1>2. ASSUME NEW a \in Actors, Claim(a) \/ Resume(a) \/ Opened(a) PROVE IInv'
  BY <1>2, ClaimKeeps, ResumeKeeps, OpenedKeeps
<1>3. ASSUME NEW a \in Actors,
             \/ Settle(a) \/ OpenFails(a) \/ Timeout(a)
             \/ \E ok \in BOOLEAN : Finish(a, ok)
      PROVE  IInv'
  BY <1>3, EndsKeep
<1>4. CASE PromptAnswered \/ PromptRefused
  BY <1>4, PromptKeeps
<1>5. CASE Reconnect \/ ConnectFails \/ Disconnect
  BY <1>5, ReconnectKeeps
<1>6. CASE ConnectSucceeds
  BY <1>6, ConnectSucceedsKeeps
<1>7. CASE ConnectionLost
  BY <1>7, ConnectionLostKeeps
<1>8. CASE UNCHANGED vars
  <2>1. UNCHANGED <<pc, gen, mode, slots, link, stage, sudo, asked>>
    BY <1>8 DEF vars
  <2>2. SlotInv'
    BY <2>1, SlotsUntouched DEF IInv, TypeOK
  <2>3. QED
    BY <2>1, <2>2 DEF IInv, TypeOK, OnCurrentClient, LinkInv, ProbeInv, AskedOnce, slots, link, sudo
<1>9. QED
  BY <1>1, <1>2, <1>3, <1>4, <1>5, <1>6, <1>7, <1>8 DEF Next

(* The invariant holds in every reachable state.                           *)
LEMMA IInvHolds == Spec => []IInv
  BY InitKeeps, StepKeeps, PTL DEF Spec

(* A position in the queue is unique to its call: the number of them is    *)
(* one for a call in "queued" and zero for every other.                    *)
LEMMA QueuedOnce ==
  ASSUME TypeOK, QueueInv, NEW a \in Actors
  PROVE  Cardinality({i \in DOMAIN queue : queue[i] = a}) = IF pc[a] = "queued" THEN 1 ELSE 0
<1>1. CASE pc[a] = "queued"
  <2>1. PICK i \in DOMAIN queue : queue[i] = a
    BY <1>1 DEF QueueInv
  <2>2. {j \in DOMAIN queue : queue[j] = a} = {i}
    BY <2>1 DEF QueueInv
  <2>3. QED
    BY <1>1, <2>2, FS_Singleton
<1>2. CASE pc[a] # "queued"
  <2>1. {j \in DOMAIN queue : queue[j] = a} = {}
    BY <1>2 DEF QueueInv
  <2>2. QED
    BY <1>2, <2>1, FS_EmptySet
<1>3. QED
  BY <1>1, <1>2

(* The counter is the number of slots held, never above the cap, and a     *)
(* call waits only while all of them are taken: releaseSessionChannel      *)
(* neither loses a slot it hands over nor counts it twice, for any number  *)
(* of callers, whatever rejects, times out or reconnects meanwhile.        *)
THEOREM SlotsAreCounted == Spec => []SlotsCounted
<1>1. IInv => SlotsCounted
  <2> SUFFICES ASSUME IInv PROVE SlotsCounted
    OBVIOUS
  <2>1. TypeOK /\ active = Cardinality(Holders) /\ active <= Max /\ (queue # <<>> => active = Max)
    BY Bounds DEF IInv, SlotInv, CountInv, TypeOK
  <2>2. QED
    BY <2>1, QueuedOnce DEF IInv, SlotInv, SlotsCounted
<1>2. QED
  BY <1>1, IInvHolds, PTL

(* Whoever is in flight is so on the client that is registered now         *)
(* (acquireSessionChannel, ensureClient).                                  *)
THEOREM CallsUseTheCurrentClient == Spec => []OnCurrentClient
<1>1. IInv => OnCurrentClient
  BY DEF IInv
<1>2. QED
  BY <1>1, IInvHolds, PTL

(* The operator sees at most one password prompt between two disconnects   *)
(* (ensureSudoReady).                                                      *)
THEOREM OnePromptPerConnection == Spec => []AskedOnce
<1>1. IInv => AskedOnce
  BY DEF IInv, ProbeInv
<1>2. QED
  BY <1>1, IInvHolds, PTL
=============================================================================
