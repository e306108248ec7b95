--------------------------- MODULE SshdLeaseProofs ---------------------------
(***************************************************************************)
(* Proofs about SshdLease for any number of calls, remote shells and any   *)
(* stale threshold.                                                        *)
(*                                                                         *)
(* The argument has four layers, each an invariant of its own that uses    *)
(* the earlier ones:                                                       *)
(*   TypeOK       the type of the state;                                   *)
(*   ShellInv     which shell can be at which point, and that the kernel   *)
(*                lock is held by exactly the shell between its points;    *)
(*   EvidenceInv  what the lock's holder knows about the lease directory;  *)
(*   GrantInv     a token is granted at most once, because one shell at    *)
(*                most can still grant it.                                 *)
(* With them every step is a step of CommitLease or leaves the lease alone *)
(* (LeaseStep), so what CommitLease proves of its writers holds here.      *)
(***************************************************************************)
EXTENDS SshdLease, TLAPS

\* The points a shell of each kind passes while it holds the kernel lock.
PointsOf == [acquire |-> {"inspect", "rmdir", "mkdir", "prepare", "publish", "report"},
             command |-> {"guard", "body"},
             refresh |-> {"guard"},
             release |-> {"compare", "rmdir"}]

ShellOK(e) ==
    /\ exec[e].pc \in Locked <=> flock = e
    /\ exec[e].pc \in Locked => exec[e].pc \in PointsOf[exec[e].kind]
    /\ exec[e].pc = "free" => exec[e] = FreeExec
    /\ exec[e].pc # "free" => exec[e].owner \in Tokens
    /\ exec[e].pc = "exited" => exec[e].awaited

ShellInv == \A e \in Execs : ShellOK(e)

EvidenceOK(e) ==
    /\ exec[e].pc \in {"rmdir", "prepare"} =>
          dir /\ marker = NoToken /\ prep = NoToken
    /\ exec[e].pc = "publish" =>
          dir /\ marker = NoToken /\ prep = exec[e].owner
    /\ exec[e].pc = "body" => dir /\ marker = exec[e].owner

EvidenceInv ==
    /\ EvidenceRecoverable
    /\ \A e \in Execs : EvidenceOK(e)

Granted(t) == marker = t \/ t \in retired

\* The shell may still grant the lease to its owner, or its answer may still
\* make the owner try again.
MayGrant(e) ==
    /\ exec[e].kind = "acquire"
    /\ \/ exec[e].pc \in {"flock", "inspect", "rmdir", "mkdir", "prepare", "publish"}
       \/ exec[e].pc = "exited" /\ exec[e].code = "contended"

\* The shell's answer will let its owner into the section.
Admits(e) == Is(e, "acquire", "exited") /\ exec[e].code = "ok"

GrantInv ==
    /\ NoToken \notin retired
    /\ marker \notin retired
    /\ \A e \in Execs : MayGrant(e) => ~Granted(exec[e].owner)
    /\ \A e \in Execs : Admits(e) => Granted(exec[e].owner)
    /\ \A t \in Tokens : ctl[t] \in {"idle", "waiting"} =>
          /\ ~Granted(t)
          /\ \A e \in Execs : exec[e].kind = "acquire" => exec[e].owner # t
    /\ \A e, f \in Execs :
          exec[e].kind = "acquire" /\ exec[f].kind = "acquire"
             /\ exec[e].owner = exec[f].owner => e = f
    /\ SectionWasGranted

-----------------------------------------------------------------------------
(* Type correctness.                                                       *)

LEMMA FreeExecType == FreeExec \in ExecRecord
  BY DEF FreeExec, ExecRecord, Kinds, Codes

(* A shell that moves on, ends or is spawned keeps the type of exec and    *)
(* flock.                                                                  *)
LEMMA GotoType ==
  ASSUME TypeOK, NEW e \in Execs, NEW pc \in Locked, Goto(e, pc)
  PROVE  exec' \in [Execs -> ExecRecord]
  BY DEF TypeOK, Goto, ExecRecord

LEMMA ExitType ==
  ASSUME TypeOK, NEW e \in Execs, NEW code \in Codes, Exit(e, code)
  PROVE  exec' \in [Execs -> ExecRecord] /\ flock' \in Execs \cup {NoExec}
  BY FreeExecType DEF TypeOK, Exit, ExecRecord

LEMMA SpawnType ==
  ASSUME TypeOK, NEW c \in Tokens, NEW kind \in Kinds, Spawn(c, kind)
  PROVE  exec' \in [Execs -> ExecRecord]
  BY DEF TypeOK, Spawn, ExecRecord, Codes

LEMMA SettleType ==
  ASSUME TypeOK, NEW e \in Execs, NEW code, Settle(e, code)
  PROVE  /\ ctl' \in [Tokens -> Active \cup {"idle", "gone"}]
         /\ lost' \in [Tokens -> BOOLEAN]
  BY DEF TypeOK, Settle, Become, Active, ExecRecord, Kinds, Owner

LEMMA TypeInit == Init => TypeOK
<1> SUFFICES ASSUME Init PROVE TypeOK
  OBVIOUS
<1>1. lost \in [Tokens -> BOOLEAN] /\ dir \in BOOLEAN /\ pending \in BOOLEAN
  BY ZenonT(20) DEF Init
<1>2. QED
  BY <1>1, FreeExecType, TokensAssumption DEF Init, TypeOK
LEMMA TypeStep == TypeOK /\ ShellInv /\ [Next]_vars => TypeOK'
<1> SUFFICES ASSUME TypeOK, ShellInv, [Next]_vars PROVE TypeOK'
  OBVIOUS
<1> USE TokensAssumption
<1>1. ASSUME NEW e \in Execs, TakeFlock(e) PROVE TypeOK'
  BY <1>1, GotoType DEF TypeOK, TakeFlock, fsVars, configVars, FirstStep, Kinds, Locked, ExecRecord
<1>2. ASSUME NEW e \in Execs, FlockTimeout(e) PROVE TypeOK'
  BY <1>2, ExitType DEF TypeOK, FlockTimeout, fsVars, configVars, Codes
<1>3. ASSUME NEW e \in Execs, ReclaimMarker(e) PROVE TypeOK'
  BY <1>3, GotoType DEF TypeOK, ReclaimMarker, StaleMarker, fsVars, configVars, Locked
<1>4. ASSUME NEW e \in Execs, ReclaimInitialization(e) PROVE TypeOK'
  BY <1>4, GotoType DEF TypeOK, ReclaimInitialization, fsVars, configVars, Locked
<1>5. ASSUME NEW e \in Execs, NothingToReclaim(e) PROVE TypeOK'
  BY <1>5, ExitType, GotoType DEF TypeOK, NothingToReclaim, fsVars, configVars, Locked, Codes
<1>6. ASSUME NEW e \in Execs, RemoveDirectory(e) PROVE TypeOK'
  <2>1. dir' \in BOOLEAN
    BY <1>6, Zenon DEF RemoveDirectory
  <2>2. QED
    BY <1>6, <2>1, GotoType DEF TypeOK, RemoveDirectory, fsVars, configVars, Locked
<1>7. ASSUME NEW e \in Execs, MakeDirectory(e) PROVE TypeOK'
  BY <1>7, GotoType DEF TypeOK, MakeDirectory, fsVars, configVars, Locked
<1>8. ASSUME NEW e \in Execs, Contended(e) PROVE TypeOK'
  BY <1>8, ExitType DEF TypeOK, Contended, fsVars, configVars, Codes
<1>9. ASSUME NEW e \in Execs, WritePreparation(e) PROVE TypeOK'
  BY <1>9, GotoType DEF TypeOK, WritePreparation, fsVars, configVars, Owner, ExecRecord, Locked
<1>10. ASSUME NEW e \in Execs, PublishMarker(e) PROVE TypeOK'
  BY <1>10, GotoType DEF TypeOK, PublishMarker, fsVars, configVars, Locked
<1>11. ASSUME NEW e \in Execs, ReportToken(e) PROVE TypeOK'
  BY <1>11, ExitType DEF TypeOK, ReportToken, fsVars, configVars, Codes
<1>12. ASSUME NEW e \in Execs, FenceRefuses(e) PROVE TypeOK'
  BY <1>12, ExitType DEF TypeOK, FenceRefuses, fsVars, configVars, Codes
<1>13. ASSUME NEW e \in Execs, Refresh(e) PROVE TypeOK'
  BY <1>13, ExitType DEF TypeOK, Refresh, fsVars, configVars, Codes
<1>14. ASSUME NEW e \in Execs, PendingBlocks(e) PROVE TypeOK'
  BY <1>14, ExitType DEF TypeOK, PendingBlocks, fsVars, configVars, Codes
<1>15. ASSUME NEW e \in Execs, EnterBody(e) PROVE TypeOK'
  BY <1>15, GotoType DEF TypeOK, EnterBody, fsVars, configVars, Locked
<1>16. ASSUME NEW e \in Execs, BodyEnds(e) PROVE TypeOK'
  BY <1>16, ExitType DEF TypeOK, BodyEnds, fsVars, configVars, Codes
<1>17. ASSUME NEW e \in Execs, ReleaseRefuses(e) PROVE TypeOK'
  BY <1>17, ExitType DEF TypeOK, ReleaseRefuses, fsVars, configVars, Codes
<1>18. ASSUME NEW e \in Execs, ReleaseMarker(e) PROVE TypeOK'
  BY <1>18, GotoType DEF TypeOK, ShellInv, ShellOK, Is, Owner, ReleaseMarker, fsVars, configVars, Locked
<1>19. ASSUME NEW e \in Execs, ReleaseDirectory(e) PROVE TypeOK'
  <2>1. dir' \in BOOLEAN
    BY <1>19, Zenon DEF ReleaseDirectory
  <2>2. QED
    BY <1>19, <2>1, ExitType DEF TypeOK, ReleaseDirectory, fsVars, configVars, Codes
<1>20. ASSUME NEW e \in Execs, BodyWrites(e) PROVE TypeOK'
  BY <1>20 DEF TypeOK, ShellInv, ShellOK, Is, Owner, BodyWrites, fsVars
<1>21. ASSUME NEW e \in Execs, BodyMovesPending(e) PROVE TypeOK'
  BY <1>21 DEF TypeOK, BodyMovesPending, fsVars, configVars
<1>22. ASSUME NEW e \in Execs, Die(e) PROVE TypeOK'
  BY <1>22, ExitType DEF TypeOK, Die, fsVars, configVars, Codes
<1>23. ASSUME NEW e \in Execs, Deliver(e) PROVE TypeOK'
  BY <1>23, SettleType, FreeExecType DEF TypeOK, Deliver, fsVars, configVars, Owner, ExecRecord
<1>24. ASSUME NEW e \in Execs, LoseReply(e) PROVE TypeOK'
  BY <1>24, SettleType, FreeExecType DEF TypeOK, LoseReply, fsVars, configVars, Owner, ExecRecord
<1>25. ASSUME NEW c \in Tokens, TryAcquire(c) PROVE TypeOK'
  BY <1>25, SpawnType DEF TypeOK, TryAcquire, Become, Active, Kinds, fsVars, configVars
<1>26. ASSUME NEW c \in Tokens, GiveUp(c) PROVE TypeOK'
  BY <1>26 DEF TypeOK, GiveUp, Become, Active, Kinds, fsVars, configVars
<1>27. ASSUME NEW c \in Tokens, RunCommand(c) PROVE TypeOK'
  BY <1>27, SpawnType DEF TypeOK, RunCommand, Become, Active, Kinds, fsVars, configVars
<1>28. ASSUME NEW c \in Tokens, Heartbeat(c) PROVE TypeOK'
  BY <1>28, SpawnType DEF TypeOK, Heartbeat, Become, Active, Kinds, fsVars, configVars
<1>29. ASSUME NEW c \in Tokens, EndSection(c) PROVE TypeOK'
  BY <1>29 DEF TypeOK, EndSection, Become, Active, Kinds, fsVars, configVars
<1>30. ASSUME NEW c \in Tokens, StartRelease(c) PROVE TypeOK'
  BY <1>30, SpawnType DEF TypeOK, StartRelease, Become, Active, Kinds, fsVars, configVars
<1>31. ASSUME NEW c \in Tokens, Crash(c) PROVE TypeOK'
  <2>1. lost' \in [Tokens -> BOOLEAN]
    BY <1>31, Zenon DEF TypeOK, Crash
  <2>2. exec' \in [Execs -> ExecRecord]
    BY <1>31, FreeExecType DEF TypeOK, Crash, ExecRecord
  <2>3. QED
    BY <1>31, <2>1, <2>2 DEF TypeOK, Crash, Become, Active, fsVars, configVars
<1>32. ASSUME Tick PROVE TypeOK'
  BY <1>32 DEF TypeOK, Tick, configVars
<1>33. ASSUME UNCHANGED vars PROVE TypeOK'
  BY <1>33 DEF TypeOK, vars, fsVars, configVars
<1> QED
  BY <1>1, <1>2, <1>3, <1>4, <1>5, <1>6, <1>7, <1>8, <1>9, <1>10, <1>11, <1>12, <1>13, <1>14, <1>15, <1>16, <1>17, <1>18, <1>19, <1>20, <1>21, <1>22, <1>23, <1>24, <1>25, <1>26, <1>27, <1>28, <1>29, <1>30, <1>31, <1>32, <1>33
  DEF Next, ShellStep, ControllerStep

-----------------------------------------------------------------------------
(* Shells and the kernel lock.                                             *)

LEMMA GotoShell ==
  ASSUME TypeOK, ShellInv, NEW e \in Execs, exec[e].pc \in Locked,
         NEW pc \in PointsOf[exec[e].kind] \cap Locked, Goto(e, pc), flock' = flock
  PROVE  ShellInv'
<1> SUFFICES ASSUME NEW f \in Execs PROVE ShellOK(f)'
  BY DEF ShellInv
<1>1. CASE f = e
  BY <1>1 DEF TypeOK, ShellInv, ShellOK, Goto, ExecRecord, Locked
<1>2. CASE f # e
  BY <1>2 DEF TypeOK, ShellInv, ShellOK, Goto, ExecRecord, Locked
<1>3. QED
  BY <1>1, <1>2

LEMMA ExitShell ==
  ASSUME TypeOK, ShellInv, NEW e \in Execs, exec[e].pc \notin {"free", "exited"},
         NEW code \in Codes, Exit(e, code)
  PROVE  ShellInv'
<1> SUFFICES ASSUME NEW f \in Execs PROVE ShellOK(f)'
  BY DEF ShellInv
<1>1. CASE f = e
  BY <1>1, TokensAssumption DEF TypeOK, ShellInv, ShellOK, Exit, ExecRecord, Locked, FreeExec
<1>2. CASE f # e
  BY <1>2, TokensAssumption DEF TypeOK, ShellInv, ShellOK, Exit, ExecRecord, Locked, FreeExec
<1>3. QED
  BY <1>1, <1>2

LEMMA SpawnShell ==
  ASSUME TypeOK, ShellInv, NEW c \in Tokens, NEW kind \in Kinds, Spawn(c, kind),
         flock' = flock
  PROVE  ShellInv'
  BY DEF TypeOK, ShellInv, ShellOK, Spawn, ExecRecord, Locked, FreeExec

LEMMA ShellInit == Init => ShellInv
  BY TokensAssumption DEF Init, ShellInv, ShellOK, FreeExec, Locked

LEMMA ShellStepInv == TypeOK /\ ShellInv /\ [Next]_vars => ShellInv'
<1> SUFFICES ASSUME TypeOK, ShellInv, [Next]_vars PROVE ShellInv'
  OBVIOUS
<1>1. ASSUME NEW e \in Execs, TakeFlock(e) PROVE ShellInv'
  <2> SUFFICES ASSUME NEW f \in Execs PROVE ShellOK(f)'
    BY DEF ShellInv
  <2>1. CASE f = e
    BY <2>1, <1>1, TokensAssumption DEF TypeOK, ShellInv, ShellOK, TakeFlock, Goto, FirstStep, ExecRecord, Kinds, Locked, PointsOf
  <2>2. CASE f # e
    BY <2>2, <1>1, TokensAssumption DEF TypeOK, ShellInv, ShellOK, TakeFlock, Goto, FirstStep, ExecRecord, Kinds, Locked, PointsOf
  <2>3. QED
    BY <2>1, <2>2
<1>2. ASSUME NEW e \in Execs, FlockTimeout(e) PROVE ShellInv'
  BY <1>2, ExitShell DEF FlockTimeout, Is, Locked, Codes
<1>3. ASSUME NEW e \in Execs, ReclaimMarker(e) PROVE ShellInv'
  BY <1>3, GotoShell DEF ReclaimMarker, Is, Locked, PointsOf
<1>4. ASSUME NEW e \in Execs, ReclaimInitialization(e) PROVE ShellInv'
  BY <1>4, GotoShell DEF ReclaimInitialization, Is, Locked, PointsOf
<1>5. ASSUME NEW e \in Execs, NothingToReclaim(e) PROVE ShellInv'
  BY <1>5, ExitShell, GotoShell DEF NothingToReclaim, Is, Locked, PointsOf, Codes
<1>6. ASSUME NEW e \in Execs, RemoveDirectory(e) PROVE ShellInv'
  BY <1>6, GotoShell DEF RemoveDirectory, Is, Locked, PointsOf
<1>7. ASSUME NEW e \in Execs, MakeDirectory(e) PROVE ShellInv'
  BY <1>7, GotoShell DEF MakeDirectory, Is, Locked, PointsOf
<1>8. ASSUME NEW e \in Execs, Contended(e) PROVE ShellInv'
  BY <1>8, ExitShell DEF Contended, Is, Locked, Codes
<1>9. ASSUME NEW e \in Execs, WritePreparation(e) PROVE ShellInv'
  BY <1>9, GotoShell DEF WritePreparation, Is, Locked, PointsOf
<1>10. ASSUME NEW e \in Execs, PublishMarker(e) PROVE ShellInv'
  BY <1>10, GotoShell DEF PublishMarker, Is, Locked, PointsOf
<1>11. ASSUME NEW e \in Execs, ReportToken(e) PROVE ShellInv'
  BY <1>11, ExitShell DEF ReportToken, Is, Locked, Codes
<1>12. ASSUME NEW e \in Execs, FenceRefuses(e) PROVE ShellInv'
  BY <1>12, ExitShell DEF FenceRefuses, Is, Locked, Codes
<1>13. ASSUME NEW e \in Execs, Refresh(e) PROVE ShellInv'
  BY <1>13, ExitShell DEF Refresh, Is, Locked, Codes
<1>14. ASSUME NEW e \in Execs, PendingBlocks(e) PROVE ShellInv'
  BY <1>14, ExitShell DEF PendingBlocks, Is, Locked, Codes
<1>15. ASSUME NEW e \in Execs, EnterBody(e) PROVE ShellInv'
  BY <1>15, GotoShell DEF EnterBody, Is, Locked, PointsOf
<1>16. ASSUME NEW e \in Execs, BodyEnds(e) PROVE ShellInv'
  BY <1>16, ExitShell DEF BodyEnds, Is, Locked, Codes
<1>17. ASSUME NEW e \in Execs, ReleaseRefuses(e) PROVE ShellInv'
  BY <1>17, ExitShell DEF ReleaseRefuses, Is, Locked, Codes
<1>18. ASSUME NEW e \in Execs, ReleaseMarker(e) PROVE ShellInv'
  BY <1>18, GotoShell DEF ReleaseMarker, Is, Locked, PointsOf
<1>19. ASSUME NEW e \in Execs, ReleaseDirectory(e) PROVE ShellInv'
  BY <1>19, ExitShell DEF ReleaseDirectory, Is, Locked, Codes
<1>20. ASSUME NEW e \in Execs, BodyWrites(e) PROVE ShellInv'
  BY <1>20 DEF ShellInv, ShellOK, BodyWrites
<1>21. ASSUME NEW e \in Execs, BodyMovesPending(e) PROVE ShellInv'
  BY <1>21 DEF ShellInv, ShellOK, BodyMovesPending
<1>22. ASSUME NEW e \in Execs, Die(e) PROVE ShellInv'
  BY <1>22, ExitShell DEF Die, Is, Locked, Codes
<1>23. ASSUME NEW e \in Execs, Deliver(e) PROVE ShellInv'
  BY <1>23 DEF TypeOK, ShellInv, ShellOK, Deliver, ExecRecord, FreeExec, Locked
<1>24. ASSUME NEW e \in Execs, LoseReply(e) PROVE ShellInv'
  <2> SUFFICES ASSUME NEW f \in Execs PROVE ShellOK(f)'
    BY DEF ShellInv
  <2>1. CASE f = e
    BY <2>1, <1>24 DEF TypeOK, ShellInv, ShellOK, LoseReply, ExecRecord, FreeExec, Locked
  <2>2. CASE f # e
    BY <2>2, <1>24 DEF TypeOK, ShellInv, ShellOK, LoseReply, ExecRecord, FreeExec, Locked
  <2>3. QED
    BY <2>1, <2>2
<1>25. ASSUME NEW c \in Tokens, TryAcquire(c) PROVE ShellInv'
  BY <1>25, SpawnShell DEF TryAcquire, Kinds
<1>26. ASSUME NEW c \in Tokens, GiveUp(c) PROVE ShellInv'
  BY <1>26 DEF TypeOK, ShellInv, ShellOK, GiveUp
<1>27. ASSUME NEW c \in Tokens, RunCommand(c) PROVE ShellInv'
  BY <1>27, SpawnShell DEF RunCommand, Kinds
<1>28. ASSUME NEW c \in Tokens, Heartbeat(c) PROVE ShellInv'
  BY <1>28, SpawnShell DEF Heartbeat, Kinds
<1>29. ASSUME NEW c \in Tokens, EndSection(c) PROVE ShellInv'
  BY <1>29 DEF TypeOK, ShellInv, ShellOK, EndSection
<1>30. ASSUME NEW c \in Tokens, StartRelease(c) PROVE ShellInv'
  BY <1>30, SpawnShell DEF StartRelease, Kinds
<1>31. ASSUME NEW c \in Tokens, Crash(c) PROVE ShellInv'
  <2> SUFFICES ASSUME NEW f \in Execs PROVE ShellOK(f)'
    BY DEF ShellInv
  <2>1. CASE Owner(f) # c
    BY <1>31, <2>1 DEF ShellInv, ShellOK, Crash
  <2>2. CASE Owner(f) = c /\ exec[f].pc = "exited"
    BY <1>31, <2>2 DEF ShellInv, ShellOK, Crash, FreeExec, Locked
  <2>3. CASE Owner(f) = c /\ exec[f].pc # "exited"
    <3>1. exec'[f] = [exec[f] EXCEPT !.awaited = FALSE]
      BY <1>31, <2>3 DEF Crash
    <3>2. exec[f].pc # "free"
      BY <2>3, TokensAssumption DEF ShellInv, ShellOK, Owner, FreeExec
    <3>3. QED
      BY <1>31, <2>3, <3>1, <3>2 DEF TypeOK, ShellInv, ShellOK, Crash, ExecRecord
  <2>4. QED
    BY <2>1, <2>2, <2>3
<1>32. ASSUME Tick PROVE ShellInv'
  BY <1>32 DEF ShellInv, ShellOK, Tick
<1>33. ASSUME UNCHANGED vars PROVE ShellInv'
  BY <1>33 DEF ShellInv, ShellOK, vars
<1> QED
  BY <1>1, <1>2, <1>3, <1>4, <1>5, <1>6, <1>7, <1>8, <1>9, <1>10, <1>11, <1>12, <1>13, <1>14, <1>15, <1>16, <1>17, <1>18, <1>19, <1>20, <1>21, <1>22, <1>23, <1>24, <1>25, <1>26, <1>27, <1>28, <1>29, <1>30, <1>31, <1>32, <1>33
  DEF Next, ShellStep, ControllerStep

THEOREM TypeCorrect == Spec => [](TypeOK /\ ShellInv)
<1>1. Init => TypeOK /\ ShellInv
  BY TypeInit, ShellInit
<1>2. TypeOK /\ ShellInv /\ [Next]_vars => (TypeOK /\ ShellInv)'
  BY TypeStep, ShellStepInv
<1>3. QED
  BY <1>1, <1>2, PTL DEF Spec

-----------------------------------------------------------------------------
(* What a step does to the shells, and who is between the lock's points.   *)

LEMMA GotoEffect ==
  ASSUME TypeOK, NEW e \in Execs, NEW pc, Goto(e, pc)
  PROVE  /\ \A f \in Execs : f # e => exec'[f] = exec[f]
         /\ exec'[e] = [exec[e] EXCEPT !.pc = pc]
         /\ exec'[e].pc = pc
         /\ exec'[e].owner = exec[e].owner
         /\ exec'[e].kind = exec[e].kind
         /\ exec'[e].code = exec[e].code
  BY DEF TypeOK, Goto, ExecRecord

LEMMA ExitEffect ==
  ASSUME TypeOK, NEW e \in Execs, NEW code \in Codes, Exit(e, code)
  PROVE  /\ \A f \in Execs : f # e => exec'[f] = exec[f]
         /\ \/ exec'[e] = FreeExec /\ exec'[e].pc = "free" /\ exec'[e].kind = "command"
            \/ /\ exec'[e].pc = "exited"
               /\ exec'[e].code = code
               /\ exec'[e].owner = exec[e].owner
               /\ exec'[e].kind = exec[e].kind
  BY DEF TypeOK, Exit, ExecRecord, FreeExec

LEMMA SpawnEffect ==
  ASSUME TypeOK, NEW c \in Tokens, NEW kind \in Kinds, Spawn(c, kind)
  PROVE  \E e \in Execs :
            /\ exec[e].pc = "free"
            /\ \A f \in Execs : f # e => exec'[f] = exec[f]
            /\ exec'[e].owner = c /\ exec'[e].kind = kind /\ exec'[e].pc = "flock"
  BY DEF TypeOK, Spawn, ExecRecord

LEMMA OnlyHolder ==
  ASSUME ShellInv, NEW e \in Execs, exec[e].pc \in Locked,
         NEW f \in Execs, f # e
  PROVE  exec[f].pc \notin Locked
  BY DEF ShellInv, ShellOK

-----------------------------------------------------------------------------
(* The evidence in the lease directory.                                    *)

LEMMA EvidenceFrame ==
  ASSUME EvidenceInv, UNCHANGED <<dir, marker, prep>>,
         \A f \in Execs :
            exec'[f].pc \in {"rmdir", "prepare", "publish", "body"} =>
               exec'[f].pc = exec[f].pc /\ exec'[f].owner = exec[f].owner
  PROVE  EvidenceInv'
  BY DEF EvidenceInv, EvidenceOK, EvidenceRecoverable, UnsafeEvidence

\* A step of the lock's holder has to be right about itself only: nobody else
\* is at a point at which it knows something about the directory.
LEMMA EvidenceMoves ==
  ASSUME TypeOK, ShellInv, NEW e \in Execs, exec[e].pc \in Locked,
         NEW pc, Goto(e, pc), EvidenceRecoverable', EvidenceOK(e)'
  PROVE  EvidenceInv'
<1>1. ASSUME NEW f \in Execs, f # e PROVE EvidenceOK(f)'
  <2>1. exec'[f] = exec[f] /\ exec[f].pc \notin Locked
    BY <1>1, GotoEffect, OnlyHolder
  <2>2. QED
    BY <2>1 DEF EvidenceOK, Locked
<1>2. QED
  BY <1>1 DEF EvidenceInv

LEMMA EvidenceInit == Init => EvidenceInv
  BY DEF Init, EvidenceInv, EvidenceOK, EvidenceRecoverable, UnsafeEvidence, FreeExec

LEMMA EvidenceStep == TypeOK /\ ShellInv /\ EvidenceInv /\ [Next]_vars => EvidenceInv'
<1> SUFFICES ASSUME TypeOK, ShellInv, EvidenceInv, [Next]_vars PROVE EvidenceInv'
  OBVIOUS
<1>1. ASSUME NEW e \in Execs, TakeFlock(e) PROVE EvidenceInv'
  <2>1. PICK pc \in {"inspect", "guard", "compare"} : Goto(e, pc)
    BY <1>1 DEF TypeOK, ExecRecord, Kinds, FirstStep, TakeFlock
  <2>2. QED
    BY <1>1, <2>1, GotoEffect, EvidenceFrame DEF TakeFlock, fsVars
<1>2. ASSUME NEW e \in Execs, FlockTimeout(e) PROVE EvidenceInv'
  BY <1>2, ExitEffect, EvidenceFrame DEF FlockTimeout, fsVars, Codes
<1>3. ASSUME NEW e \in Execs, ReclaimMarker(e) PROVE EvidenceInv'
  BY <1>3, OnlyHolder, GotoEffect DEF EvidenceInv, EvidenceOK, EvidenceRecoverable, UnsafeEvidence, StaleMarker, HoldsFreshLease, StaleInitialization, Is, Owner, Locked, ReclaimMarker
<1>4. ASSUME NEW e \in Execs, ReclaimInitialization(e) PROVE EvidenceInv'
  BY <1>4, OnlyHolder, GotoEffect DEF EvidenceInv, EvidenceOK, EvidenceRecoverable, UnsafeEvidence, StaleMarker, HoldsFreshLease, StaleInitialization, Is, Owner, Locked, ReclaimInitialization
<1>5. ASSUME NEW e \in Execs, NothingToReclaim(e) PROVE EvidenceInv'
  <2>1. CASE UnsafeEvidence
    BY <1>5, <2>1, ExitEffect, EvidenceFrame DEF NothingToReclaim, fsVars, Codes
  <2>2. CASE ~UnsafeEvidence
    <3>1. Goto(e, "mkdir") /\ UNCHANGED <<dir, marker, prep>>
      BY <1>5, <2>2 DEF NothingToReclaim, fsVars
    <3>2. \A f \in Execs : exec'[f] = exec[f] \/ exec'[f].pc = "mkdir"
      BY <3>1, GotoEffect
    <3>3. QED
      BY <3>1, <3>2, EvidenceFrame
  <2>3. QED
    BY <2>1, <2>2
<1>6. ASSUME NEW e \in Execs, RemoveDirectory(e) PROVE EvidenceInv'
  <2>1. exec[e].pc = "rmdir" /\ Goto(e, "mkdir")
    BY <1>6 DEF RemoveDirectory, Is
  <2>2. exec'[e].pc = "mkdir" /\ exec'[e].owner = exec[e].owner
    BY <2>1, GotoEffect
  <2>3. Owner(e) \in Tokens /\ EvidenceOK(e) /\ EvidenceRecoverable
    BY <2>1 DEF ShellInv, ShellOK, EvidenceInv, Owner
  <2>4. EvidenceRecoverable' /\ EvidenceOK(e)'
    BY <1>6, <2>1, <2>2, <2>3, TokensAssumption
    DEF RemoveDirectory, EvidenceRecoverable, EvidenceOK, UnsafeEvidence, Owner
  <2>5. QED
    BY <2>1, <2>4, EvidenceMoves DEF Locked
<1>7. ASSUME NEW e \in Execs, MakeDirectory(e) PROVE EvidenceInv'
  BY <1>7, OnlyHolder, GotoEffect DEF EvidenceInv, EvidenceOK, EvidenceRecoverable, UnsafeEvidence, StaleMarker, HoldsFreshLease, StaleInitialization, Is, Owner, Locked, MakeDirectory
<1>8. ASSUME NEW e \in Execs, Contended(e) PROVE EvidenceInv'
  BY <1>8, ExitEffect, EvidenceFrame DEF Contended, fsVars, Codes
<1>9. ASSUME NEW e \in Execs, WritePreparation(e) PROVE EvidenceInv'
  <2>1. exec[e].pc = "prepare" /\ Goto(e, "publish")
    BY <1>9 DEF WritePreparation, Is
  <2>2. exec'[e].pc = "publish" /\ exec'[e].owner = exec[e].owner
    BY <2>1, GotoEffect
  <2>3. Owner(e) \in Tokens /\ EvidenceOK(e) /\ EvidenceRecoverable
    BY <2>1 DEF ShellInv, ShellOK, EvidenceInv, Owner
  <2>4. EvidenceRecoverable' /\ EvidenceOK(e)'
    BY <1>9, <2>1, <2>2, <2>3, TokensAssumption
    DEF WritePreparation, EvidenceRecoverable, EvidenceOK, UnsafeEvidence, Owner
  <2>5. QED
    BY <2>1, <2>4, EvidenceMoves DEF Locked
<1>10. ASSUME NEW e \in Execs, PublishMarker(e) PROVE EvidenceInv'
  <2>1. exec[e].pc = "publish" /\ Goto(e, "report")
    BY <1>10 DEF PublishMarker, Is
  <2>2. exec'[e].pc = "report" /\ exec'[e].owner = exec[e].owner
    BY <2>1, GotoEffect
  <2>3. Owner(e) \in Tokens /\ EvidenceOK(e) /\ EvidenceRecoverable
    BY <2>1 DEF ShellInv, ShellOK, EvidenceInv, Owner
  <2>4. EvidenceRecoverable' /\ EvidenceOK(e)'
    BY <1>10, <2>1, <2>2, <2>3, TokensAssumption
    DEF PublishMarker, EvidenceRecoverable, EvidenceOK, UnsafeEvidence, Owner
  <2>5. QED
    BY <2>1, <2>4, EvidenceMoves DEF Locked
<1>11. ASSUME NEW e \in Execs, ReportToken(e) PROVE EvidenceInv'
  BY <1>11, ExitEffect, EvidenceFrame DEF ReportToken, fsVars, Codes
<1>12. ASSUME NEW e \in Execs, FenceRefuses(e) PROVE EvidenceInv'
  BY <1>12, ExitEffect, EvidenceFrame DEF FenceRefuses, fsVars, Codes
<1>13. ASSUME NEW e \in Execs, Refresh(e) PROVE EvidenceInv'
  BY <1>13, ExitEffect, EvidenceFrame DEF Refresh, fsVars, Codes
<1>14. ASSUME NEW e \in Execs, PendingBlocks(e) PROVE EvidenceInv'
  BY <1>14, ExitEffect, EvidenceFrame DEF PendingBlocks, fsVars, Codes
<1>15. ASSUME NEW e \in Execs, EnterBody(e) PROVE EvidenceInv'
  <2>1. exec[e].pc = "guard" /\ Goto(e, "body")
    BY <1>15 DEF EnterBody, Is
  <2>2. exec'[e].pc = "body" /\ exec'[e].owner = exec[e].owner
    BY <2>1, GotoEffect
  <2>3. Owner(e) \in Tokens /\ EvidenceOK(e) /\ EvidenceRecoverable
    BY <2>1 DEF ShellInv, ShellOK, EvidenceInv, Owner
  <2>4. EvidenceRecoverable' /\ EvidenceOK(e)'
    BY <1>15, <2>1, <2>2, <2>3, TokensAssumption
    DEF EnterBody, EvidenceRecoverable, EvidenceOK, UnsafeEvidence, Owner, HoldsFreshLease
  <2>5. QED
    BY <2>1, <2>4, EvidenceMoves DEF Locked
<1>16. ASSUME NEW e \in Execs, BodyEnds(e) PROVE EvidenceInv'
  BY <1>16, ExitEffect, EvidenceFrame DEF BodyEnds, fsVars, Codes
<1>17. ASSUME NEW e \in Execs, ReleaseRefuses(e) PROVE EvidenceInv'
  BY <1>17, ExitEffect, EvidenceFrame DEF ReleaseRefuses, fsVars, Codes
<1>18. ASSUME NEW e \in Execs, ReleaseMarker(e) PROVE EvidenceInv'
  <2>1. exec[e].pc = "compare" /\ Goto(e, "rmdir")
    BY <1>18 DEF ReleaseMarker, Is
  <2>2. exec'[e].pc = "rmdir" /\ exec'[e].owner = exec[e].owner
    BY <2>1, GotoEffect
  <2>3. Owner(e) \in Tokens /\ EvidenceOK(e) /\ EvidenceRecoverable
    BY <2>1 DEF ShellInv, ShellOK, EvidenceInv, Owner
  <2>4. EvidenceRecoverable' /\ EvidenceOK(e)'
    BY <1>18, <2>1, <2>2, <2>3, TokensAssumption
    DEF ReleaseMarker, EvidenceRecoverable, EvidenceOK, UnsafeEvidence, Owner
  <2>5. QED
    BY <2>1, <2>4, EvidenceMoves DEF Locked
<1>19. ASSUME NEW e \in Execs, ReleaseDirectory(e) PROVE EvidenceInv'
  BY <1>19, OnlyHolder, ExitEffect DEF EvidenceInv, EvidenceOK, EvidenceRecoverable, UnsafeEvidence, Is, Locked, Codes, ReleaseDirectory
<1>20. ASSUME NEW e \in Execs, BodyWrites(e) PROVE EvidenceInv'
  BY <1>20, EvidenceFrame DEF BodyWrites, fsVars
<1>21. ASSUME NEW e \in Execs, BodyMovesPending(e) PROVE EvidenceInv'
  BY <1>21, EvidenceFrame DEF BodyMovesPending, fsVars
<1>22. ASSUME NEW e \in Execs, Die(e) PROVE EvidenceInv'
  BY <1>22, ExitEffect, EvidenceFrame DEF Die, fsVars, Codes
<1>23. ASSUME NEW e \in Execs, Deliver(e) PROVE EvidenceInv'
  BY <1>23, EvidenceFrame DEF TypeOK, Deliver, ExecRecord, FreeExec, fsVars
<1>24. ASSUME NEW e \in Execs, LoseReply(e) PROVE EvidenceInv'
  BY <1>24, EvidenceFrame DEF TypeOK, LoseReply, ExecRecord, FreeExec, fsVars
<1>25. ASSUME NEW c \in Tokens, TryAcquire(c) PROVE EvidenceInv'
  BY <1>25, SpawnEffect, EvidenceFrame DEF TryAcquire, Kinds, fsVars
<1>26. ASSUME NEW c \in Tokens, GiveUp(c) PROVE EvidenceInv'
  BY <1>26, EvidenceFrame DEF GiveUp, fsVars
<1>27. ASSUME NEW c \in Tokens, RunCommand(c) PROVE EvidenceInv'
  BY <1>27, SpawnEffect, EvidenceFrame DEF RunCommand, Kinds, fsVars
<1>28. ASSUME NEW c \in Tokens, Heartbeat(c) PROVE EvidenceInv'
  BY <1>28, SpawnEffect, EvidenceFrame DEF Heartbeat, Kinds, fsVars
<1>29. ASSUME NEW c \in Tokens, EndSection(c) PROVE EvidenceInv'
  BY <1>29, EvidenceFrame DEF EndSection, fsVars
<1>30. ASSUME NEW c \in Tokens, StartRelease(c) PROVE EvidenceInv'
  BY <1>30, SpawnEffect, EvidenceFrame DEF StartRelease, Kinds, fsVars
<1>31. ASSUME NEW c \in Tokens, Crash(c) PROVE EvidenceInv'
  BY <1>31, EvidenceFrame DEF Crash, fsVars, TypeOK, ExecRecord, FreeExec
<1>32. ASSUME Tick PROVE EvidenceInv'
  BY <1>32, EvidenceFrame DEF Tick
<1>33. ASSUME UNCHANGED vars PROVE EvidenceInv'
  BY <1>33, EvidenceFrame DEF vars, fsVars
<1> QED
  BY <1>1, <1>2, <1>3, <1>4, <1>5, <1>6, <1>7, <1>8, <1>9, <1>10, <1>11, <1>12, <1>13, <1>14, <1>15, <1>16, <1>17, <1>18, <1>19, <1>20, <1>21, <1>22, <1>23, <1>24, <1>25, <1>26, <1>27, <1>28, <1>29, <1>30, <1>31, <1>32, <1>33
  DEF Next, ShellStep, ControllerStep

-----------------------------------------------------------------------------
(* A token is granted at most once.                                        *)

\* The step gives the shell no claim it did not have.
SameClaim(f) ==
    /\ exec'[f].kind = "acquire" =>
          exec[f].kind = "acquire" /\ exec'[f].owner = exec[f].owner
    /\ MayGrant(f)' => MayGrant(f)
    /\ Admits(f)' => Admits(f)

\* The controller keeps its state, or moves to one it may be in.
Advances(t) ==
    \/ ctl'[t] = ctl[t]
    \/ /\ ctl'[t] \notin {"idle", "waiting"}
       /\ ctl'[t] \in {"section", "stopping", "releasing"} => Granted(t)

LEMMA ClaimOwner ==
  ASSUME ShellInv, NEW f \in Execs, MayGrant(f) \/ Admits(f)
  PROVE  exec[f].owner \in Tokens
  BY DEF ShellInv, ShellOK, MayGrant, Admits, Is

LEMMA GrantFrame ==
  ASSUME ShellInv, GrantInv, NoToken \notin retired', marker' \notin retired',
         \A t \in Tokens : Granted(t)' <=> Granted(t),
         \A t \in Tokens : Advances(t),
         \A f \in Execs : SameClaim(f)
  PROVE  GrantInv'
<1>1. ASSUME NEW f \in Execs, MayGrant(f)' PROVE ~Granted(exec[f].owner)'
  <2>1. MayGrant(f) /\ exec'[f].owner = exec[f].owner
    BY <1>1 DEF SameClaim, MayGrant
  <2>2. exec[f].owner \in Tokens /\ ~Granted(exec[f].owner)
    BY <2>1, ClaimOwner DEF GrantInv
  <2>3. QED
    BY <2>1, <2>2 DEF Granted
<1>2. ASSUME NEW f \in Execs, Admits(f)' PROVE Granted(exec[f].owner)'
  <2>1. Admits(f) /\ exec'[f].owner = exec[f].owner
    BY <1>2 DEF SameClaim, Admits, Is
  <2>2. exec[f].owner \in Tokens /\ Granted(exec[f].owner)
    BY <2>1, ClaimOwner DEF GrantInv
  <2>3. QED
    BY <2>1, <2>2 DEF Granted
<1>3. ASSUME NEW t \in Tokens, ctl'[t] \in {"idle", "waiting"}
      PROVE  ~Granted(t)' /\ \A e \in Execs : exec'[e].kind = "acquire" => exec'[e].owner # t
  BY <1>3 DEF Advances, GrantInv, SameClaim
<1>4. \A e, f \in Execs :
          exec'[e].kind = "acquire" /\ exec'[f].kind = "acquire"
             /\ exec'[e].owner = exec'[f].owner => e = f
  BY DEF GrantInv, SameClaim
<1>5. SectionWasGranted'
  BY DEF GrantInv, SectionWasGranted, Granted, Advances
<1>6. QED
  BY <1>1, <1>2, <1>3, <1>4, <1>5 DEF GrantInv

LEMMA GotoClaims ==
  ASSUME TypeOK, NEW e \in Execs, NEW pc, Goto(e, pc), pc # "exited",
         exec[e].kind = "acquire" /\ pc # "report" => MayGrant(e)
  PROVE  \A f \in Execs : SameClaim(f)
<1>1. ASSUME NEW f \in Execs, f # e PROVE SameClaim(f)
  BY <1>1, GotoEffect DEF SameClaim, MayGrant, Admits, Is
<1>2. SameClaim(e)
  <2>1. /\ exec'[e].pc = pc /\ exec'[e].kind = exec[e].kind
        /\ exec'[e].owner = exec[e].owner
    BY GotoEffect
  <2>2. CASE pc = "report"
    BY <2>1, <2>2 DEF SameClaim, MayGrant, Admits, Is
  <2>3. CASE pc # "report"
    BY <2>1, <2>3 DEF SameClaim, MayGrant, Admits, Is
  <2>4. QED
    BY <2>2, <2>3
<1>3. QED
  BY <1>1, <1>2

LEMMA ExitClaims ==
  ASSUME TypeOK, NEW e \in Execs, NEW code \in Codes, Exit(e, code),
         exec[e].kind = "acquire" =>
            (code = "contended" => MayGrant(e)) /\ code # "ok"
  PROVE  \A f \in Execs : SameClaim(f)
<1>1. ASSUME NEW f \in Execs, f # e PROVE SameClaim(f)
  BY <1>1, ExitEffect DEF SameClaim, MayGrant, Admits, Is
<1>2. SameClaim(e)
  BY ExitEffect DEF SameClaim, MayGrant, Admits, Is
<1>3. QED
  BY <1>1, <1>2

LEMMA SpawnClaims ==
  ASSUME TypeOK, NEW c \in Tokens, NEW kind \in Kinds, Spawn(c, kind), kind # "acquire"
  PROVE  \A f \in Execs : SameClaim(f)
<1>1. PICK e \in Execs :
          /\ exec[e].pc = "free"
          /\ \A f \in Execs : f # e => exec'[f] = exec[f]
          /\ exec'[e].owner = c /\ exec'[e].kind = kind /\ exec'[e].pc = "flock"
  BY SpawnEffect
<1>2. QED
  BY <1>1 DEF SameClaim, MayGrant, Admits, Is

LEMMA GrantInit == Init => GrantInv
  BY TokensAssumption
  DEF Init, GrantInv, Granted, MayGrant, Admits, Is, FreeExec, SectionWasGranted

LEMMA GrantStep ==
  TypeOK /\ ShellInv /\ EvidenceInv /\ GrantInv /\ [Next]_vars => GrantInv'
<1> SUFFICES ASSUME TypeOK, ShellInv, EvidenceInv, GrantInv, [Next]_vars PROVE GrantInv'
  OBVIOUS
<1> USE DEF Granted, Advances
<1>1. ASSUME NEW e \in Execs, TakeFlock(e) PROVE GrantInv'
  <2>1. PICK pc \in {"inspect", "guard", "compare"} : Goto(e, pc)
    BY <1>1 DEF TypeOK, ExecRecord, Kinds, FirstStep, TakeFlock
  <2>2. \A f \in Execs : SameClaim(f)
    BY <1>1, <2>1, GotoClaims DEF TakeFlock, MayGrant
  <2>3. QED
    BY <1>1, <2>2, GrantFrame DEF TakeFlock, GrantInv, fsVars
<1>2. ASSUME NEW e \in Execs, FlockTimeout(e) PROVE GrantInv'
  <2>1. \A f \in Execs : SameClaim(f)
    BY <1>2, ExitClaims DEF FlockTimeout, MayGrant, Is, Codes
  <2>2. QED
    BY <1>2, <2>1, GrantFrame DEF FlockTimeout, GrantInv, fsVars
<1>3. ASSUME NEW e \in Execs, ReclaimMarker(e) PROVE GrantInv'
  <2>1. \A f \in Execs : SameClaim(f)
    BY <1>3, GotoClaims DEF ReclaimMarker, MayGrant, Is
  <2>2. marker \in Tokens /\ marker' = NoToken /\ retired' = retired \cup {marker}
    BY <1>3, TokensAssumption DEF ReclaimMarker, StaleMarker, TypeOK, ShellInv, ShellOK, Is
  <2>3. QED
    BY <1>3, <2>1, <2>2, TokensAssumption, GrantFrame DEF ReclaimMarker, GrantInv
<1>4. ASSUME NEW e \in Execs, ReclaimInitialization(e) PROVE GrantInv'
  <2>1. \A f \in Execs : SameClaim(f)
    BY <1>4, GotoClaims DEF ReclaimInitialization, MayGrant, Is
  <2>2. QED
    BY <1>4, <2>1, GrantFrame DEF ReclaimInitialization, GrantInv, fsVars
<1>5. ASSUME NEW e \in Execs, NothingToReclaim(e) PROVE GrantInv'
  <2>1. CASE UnsafeEvidence
    <3>1. \A f \in Execs : SameClaim(f)
      BY <1>5, <2>1, ExitClaims DEF NothingToReclaim, Codes
    <3>2. QED
      BY <1>5, <3>1, GrantFrame DEF NothingToReclaim, GrantInv, fsVars
  <2>2. CASE ~UnsafeEvidence
    <3>1. \A f \in Execs : SameClaim(f)
      BY <1>5, <2>2, GotoClaims DEF NothingToReclaim, MayGrant, Is
    <3>2. QED
      BY <1>5, <3>1, GrantFrame DEF NothingToReclaim, GrantInv, fsVars
  <2>3. QED
    BY <2>1, <2>2
<1>6. ASSUME NEW e \in Execs, RemoveDirectory(e) PROVE GrantInv'
  <2>1. \A f \in Execs : SameClaim(f)
    BY <1>6, GotoClaims DEF RemoveDirectory, MayGrant, Is
  <2>2. QED
    BY <1>6, <2>1, GrantFrame DEF RemoveDirectory, GrantInv, fsVars
<1>7. ASSUME NEW e \in Execs, MakeDirectory(e) PROVE GrantInv'
  <2>1. \A f \in Execs : SameClaim(f)
    BY <1>7, GotoClaims DEF MakeDirectory, MayGrant, Is
  <2>2. QED
    BY <1>7, <2>1, GrantFrame DEF MakeDirectory, GrantInv, fsVars
<1>8. ASSUME NEW e \in Execs, Contended(e) PROVE GrantInv'
  <2>1. \A f \in Execs : SameClaim(f)
    BY <1>8, ExitClaims DEF Contended, MayGrant, Is, Codes
  <2>2. QED
    BY <1>8, <2>1, GrantFrame DEF Contended, GrantInv, fsVars
<1>9. ASSUME NEW e \in Execs, WritePreparation(e) PROVE GrantInv'
  <2>1. \A f \in Execs : SameClaim(f)
    BY <1>9, GotoClaims DEF WritePreparation, MayGrant, Is
  <2>2. QED
    BY <1>9, <2>1, GrantFrame DEF WritePreparation, GrantInv, fsVars
<1>10. ASSUME NEW e \in Execs, PublishMarker(e) PROVE GrantInv'
  <2>1. /\ Is(e, "acquire", "publish")
        /\ Owner(e) \in Tokens /\ marker = NoToken /\ prep = Owner(e)
    BY <1>10 DEF PublishMarker, Is, Owner, ShellInv, ShellOK, EvidenceInv, EvidenceOK
  <2>2. MayGrant(e) /\ Owner(e) \notin retired
    BY <2>1 DEF MayGrant, Is, Owner, GrantInv
  <2>3. /\ marker' = Owner(e) /\ retired' = retired /\ ctl' = ctl
        /\ Goto(e, "report")
    BY <1>10, <2>1 DEF PublishMarker
  <2>4. \A f \in Execs : SameClaim(f)
    BY <2>3, GotoClaims
  <2>5. \A t \in Tokens : Granted(t)' <=> Granted(t) \/ t = Owner(e)
    BY <2>1, <2>3, TokensAssumption
  <2>6. ASSUME NEW f \in Execs, MayGrant(f)' PROVE ~Granted(exec[f].owner)'
    <3>1. MayGrant(f) /\ exec'[f].owner = exec[f].owner /\ exec[f].kind = "acquire"
      BY <2>4, <2>6 DEF SameClaim, MayGrant
    <3>2. exec[f].owner \in Tokens /\ ~Granted(exec[f].owner)
      BY <3>1, ClaimOwner DEF GrantInv
    <3>3. f # e
      <4>1. exec'[e].pc = "report"
        BY <2>3, GotoEffect
      <4>2. QED
        BY <2>6, <4>1 DEF MayGrant
    <3>4. exec[f].owner # Owner(e)
      BY <2>1, <3>1, <3>3 DEF GrantInv, Is, Owner
    <3>5. QED
      BY <3>1, <3>2, <3>4, <2>3
  <2>7. ASSUME NEW f \in Execs, Admits(f)' PROVE Granted(exec[f].owner)'
    <3>1. Admits(f) /\ exec'[f].owner = exec[f].owner
      BY <2>4, <2>7 DEF SameClaim, Admits, Is
    <3>2. exec[f].owner \in Tokens /\ Granted(exec[f].owner)
      BY <3>1, ClaimOwner DEF GrantInv
    <3>3. QED
      BY <3>1, <3>2, <2>5
  <2>8. ASSUME NEW t \in Tokens, ctl'[t] \in {"idle", "waiting"}
        PROVE  ~Granted(t)' /\ \A f \in Execs : exec'[f].kind = "acquire" => exec'[f].owner # t
    BY <2>8, <2>1, <2>3, <2>4, <2>5 DEF GrantInv, SameClaim, Is, Owner
  <2>9. \A f, g \in Execs :
            exec'[f].kind = "acquire" /\ exec'[g].kind = "acquire"
               /\ exec'[f].owner = exec'[g].owner => f = g
    BY <2>4 DEF GrantInv, SameClaim
  <2>10. SectionWasGranted'
    BY <2>3, <2>5 DEF GrantInv, SectionWasGranted
  <2>11. NoToken \notin retired' /\ marker' \notin retired'
    BY <2>2, <2>3 DEF GrantInv
  <2>12. QED
    BY <2>6, <2>7, <2>8, <2>9, <2>10, <2>11 DEF GrantInv
<1>11. ASSUME NEW e \in Execs, ReportToken(e) PROVE GrantInv'
  <2>1. Is(e, "acquire", "report") /\ Owner(e) \in Tokens
    BY <1>11 DEF ReportToken, Is, Owner, ShellInv, ShellOK
  <2>2. CASE marker = Owner(e)
    <3>1. Exit(e, "ok") /\ marker' = marker /\ retired' = retired /\ ctl' = ctl
      BY <1>11, <2>2 DEF ReportToken, fsVars
    <3>2. \A f \in Execs : f # e => exec'[f] = exec[f]
      BY <3>1, ExitEffect DEF Codes
    <3>3. /\ exec'[e].kind = "acquire" => exec'[e].owner = exec[e].owner
          /\ ~MayGrant(e)'
      BY <3>1, ExitEffect DEF Codes, MayGrant
    <3>4. \A f \in Execs : MayGrant(f)' => ~Granted(exec[f].owner)'
      BY <3>1, <3>2, <3>3 DEF GrantInv, MayGrant
    <3>5. \A f \in Execs : Admits(f)' => Granted(exec[f].owner)'
      BY <2>2, <3>1, <3>2, <3>3 DEF GrantInv, Admits, Is, Owner
    <3>6. \A t \in Tokens : ctl'[t] \in {"idle", "waiting"} =>
             /\ ~Granted(t)'
             /\ \A f \in Execs : exec'[f].kind = "acquire" => exec'[f].owner # t
      BY <2>1, <3>1, <3>2, <3>3 DEF GrantInv, Is
    <3>7. \A f, g \in Execs :
             exec'[f].kind = "acquire" /\ exec'[g].kind = "acquire"
                /\ exec'[f].owner = exec'[g].owner => f = g
      BY <2>1, <3>2, <3>3 DEF GrantInv, Is
    <3>8. QED
      BY <3>1, <3>4, <3>5, <3>6, <3>7 DEF GrantInv, SectionWasGranted
  <2>3. CASE marker # Owner(e)
    <3>1. \A f \in Execs : SameClaim(f)
      BY <1>11, <2>3, ExitClaims DEF ReportToken, Codes
    <3>2. QED
      BY <1>11, <3>1, GrantFrame DEF ReportToken, GrantInv, fsVars
  <2>4. QED
    BY <2>2, <2>3
<1>12. ASSUME NEW e \in Execs, FenceRefuses(e) PROVE GrantInv'
  <2>1. \A f \in Execs : SameClaim(f)
    BY <1>12, ExitClaims DEF FenceRefuses, MayGrant, Is, Codes
  <2>2. QED
    BY <1>12, <2>1, GrantFrame DEF FenceRefuses, GrantInv, fsVars
<1>13. ASSUME NEW e \in Execs, Refresh(e) PROVE GrantInv'
  <2>1. \A f \in Execs : SameClaim(f)
    BY <1>13, ExitClaims DEF Refresh, MayGrant, Is, Codes
  <2>2. QED
    BY <1>13, <2>1, GrantFrame DEF Refresh, GrantInv, fsVars
<1>14. ASSUME NEW e \in Execs, PendingBlocks(e) PROVE GrantInv'
  <2>1. \A f \in Execs : SameClaim(f)
    BY <1>14, ExitClaims DEF PendingBlocks, MayGrant, Is, Codes
  <2>2. QED
    BY <1>14, <2>1, GrantFrame DEF PendingBlocks, GrantInv, fsVars
<1>15. ASSUME NEW e \in Execs, EnterBody(e) PROVE GrantInv'
  <2>1. \A f \in Execs : SameClaim(f)
    BY <1>15, GotoClaims DEF EnterBody, MayGrant, Is
  <2>2. QED
    BY <1>15, <2>1, GrantFrame DEF EnterBody, GrantInv, fsVars
<1>16. ASSUME NEW e \in Execs, BodyEnds(e) PROVE GrantInv'
  <2>1. \A f \in Execs : SameClaim(f)
    BY <1>16, ExitClaims DEF BodyEnds, MayGrant, Is, Codes
  <2>2. QED
    BY <1>16, <2>1, GrantFrame DEF BodyEnds, GrantInv, fsVars
<1>17. ASSUME NEW e \in Execs, ReleaseRefuses(e) PROVE GrantInv'
  <2>1. \A f \in Execs : SameClaim(f)
    BY <1>17, ExitClaims DEF ReleaseRefuses, MayGrant, Is, Codes
  <2>2. QED
    BY <1>17, <2>1, GrantFrame DEF ReleaseRefuses, GrantInv, fsVars
<1>18. ASSUME NEW e \in Execs, ReleaseMarker(e) PROVE GrantInv'
  <2>1. \A f \in Execs : SameClaim(f)
    BY <1>18, GotoClaims DEF ReleaseMarker, MayGrant, Is
  <2>2. marker \in Tokens /\ marker' = NoToken /\ retired' = retired \cup {marker}
    BY <1>18, TokensAssumption DEF ReleaseMarker, Owner, TypeOK, ShellInv, ShellOK, Is
  <2>3. QED
    BY <1>18, <2>1, <2>2, TokensAssumption, GrantFrame DEF ReleaseMarker, GrantInv
<1>19. ASSUME NEW e \in Execs, ReleaseDirectory(e) PROVE GrantInv'
  <2>1. \A f \in Execs : SameClaim(f)
    BY <1>19, ExitClaims DEF ReleaseDirectory, MayGrant, Is, Codes
  <2>2. QED
    BY <1>19, <2>1, GrantFrame DEF ReleaseDirectory, GrantInv, fsVars
<1>20. ASSUME NEW e \in Execs, BodyWrites(e) PROVE GrantInv'
  BY <1>20, GrantFrame DEF BodyWrites, GrantInv, SameClaim, MayGrant, Admits, Is, fsVars
<1>21. ASSUME NEW e \in Execs, BodyMovesPending(e) PROVE GrantInv'
  BY <1>21, GrantFrame DEF BodyMovesPending, GrantInv, SameClaim, MayGrant, Admits, Is, fsVars
<1>22. ASSUME NEW e \in Execs, Die(e) PROVE GrantInv'
  <2>1. \A f \in Execs : SameClaim(f)
    BY <1>22, ExitClaims DEF Die, MayGrant, Is, Codes
  <2>2. QED
    BY <1>22, <2>1, GrantFrame DEF Die, GrantInv, fsVars
<1>23. ASSUME NEW e \in Execs, Deliver(e) PROVE GrantInv'
  <2>1. \A f \in Execs : SameClaim(f)
    BY <1>23 DEF Deliver, TypeOK, ExecRecord, FreeExec, SameClaim, MayGrant, Admits, Is
  <2>2. exec[e].kind \in Kinds /\ UNCHANGED <<marker, retired>>
    BY <1>23 DEF Deliver, TypeOK, ExecRecord, fsVars
  <2>3. CASE MayGrant(e)
    <3>1. exec[e].kind = "acquire" /\ exec[e].code = "contended" /\ Owner(e) \in Tokens
      BY <1>23, <2>3, ClaimOwner DEF Deliver, MayGrant, Owner
    <3>2. Become(Owner(e), "waiting") /\ ~Granted(Owner(e))
      BY <1>23, <2>3, <3>1 DEF Deliver, Settle, GrantInv, Owner
    <3>3. \A f \in Execs : exec'[f].kind = "acquire" =>
             exec'[f] = exec[f] /\ exec[f].owner # Owner(e)
      BY <1>23, <3>1 DEF Deliver, TypeOK, FreeExec, GrantInv, Owner
    <3>4. \A f \in Execs : MayGrant(f)' => ~Granted(exec[f].owner)'
      BY <2>1, <2>2 DEF SameClaim, GrantInv, MayGrant
    <3>5. \A f \in Execs : Admits(f)' => Granted(exec[f].owner)'
      BY <2>1, <2>2 DEF SameClaim, GrantInv, Admits, Is
    <3>6. \A t \in Tokens : ctl'[t] \in {"idle", "waiting"} =>
             /\ ~Granted(t)'
             /\ \A f \in Execs : exec'[f].kind = "acquire" => exec'[f].owner # t
      BY <2>2, <3>2, <3>3 DEF GrantInv, Become, TypeOK
    <3>7. \A f, g \in Execs :
             exec'[f].kind = "acquire" /\ exec'[g].kind = "acquire"
                /\ exec'[f].owner = exec'[g].owner => f = g
      BY <2>1 DEF SameClaim, GrantInv
    <3>8. SectionWasGranted'
      BY <2>2, <3>2 DEF GrantInv, SectionWasGranted, Become, TypeOK
    <3>9. QED
      BY <2>2, <3>4, <3>5, <3>6, <3>7, <3>8 DEF GrantInv
  <2>4. CASE ~MayGrant(e)
    <3>1. \A t \in Tokens : Advances(t)
      <4>1. CASE Admits(e)
        <5>1. Become(Owner(e), "section") /\ Granted(Owner(e))
          BY <1>23, <4>1 DEF Deliver, Settle, GrantInv, Admits, Is, Owner
        <5>2. QED
          BY <5>1 DEF Become, TypeOK
      <4>2. CASE ~Admits(e)
        <5>1. \A t \in Tokens : ctl'[t] = ctl[t] \/ ctl'[t] = "gone"
          BY <1>23, <2>2, <2>4, <4>2 DEF Deliver, Settle, Become, TypeOK, Kinds, MayGrant, Admits, Is
        <5>2. QED
          BY <5>1
      <4>3. QED
        BY <4>1, <4>2
    <3>2. QED
      BY <2>1, <2>2, <3>1, GrantFrame DEF GrantInv
  <2>5. QED
    BY <2>3, <2>4
<1>24. ASSUME NEW e \in Execs, LoseReply(e) PROVE GrantInv'
  <2>1. \A f \in Execs : SameClaim(f)
    BY <1>24 DEF LoseReply, TypeOK, ExecRecord, FreeExec, SameClaim, MayGrant, Admits, Is
  <2>2. exec[e].kind \in Kinds /\ UNCHANGED <<marker, retired>>
    BY <1>24 DEF LoseReply, TypeOK, ExecRecord, fsVars
  <2>3. \A t \in Tokens : ctl'[t] = ctl[t] \/ ctl'[t] = "gone"
    BY <1>24, <2>2 DEF LoseReply, Settle, Become, TypeOK, Kinds
  <2>4. QED
    BY <2>1, <2>2, <2>3, GrantFrame DEF GrantInv
<1>25. ASSUME NEW c \in Tokens, TryAcquire(c) PROVE GrantInv'
  <2>1. PICK e \in Execs :
            /\ exec[e].pc = "free"
            /\ \A f \in Execs : f # e => exec'[f] = exec[f]
            /\ exec'[e].owner = c /\ exec'[e].kind = "acquire" /\ exec'[e].pc = "flock"
    BY <1>25, SpawnEffect DEF TryAcquire, Kinds
  <2>2. /\ ctl[c] \in {"idle", "waiting"} /\ ~Granted(c)
        /\ \A f \in Execs : exec[f].kind = "acquire" => exec[f].owner # c
        /\ marker' = marker /\ retired' = retired /\ ctl' = [ctl EXCEPT ![c] = "acquiring"]
    BY <1>25 DEF TryAcquire, GrantInv, Become, fsVars
  <2>3. \A f \in Execs : MayGrant(f)' => ~Granted(exec[f].owner)'
    BY <2>1, <2>2 DEF GrantInv, MayGrant
  <2>4. \A f \in Execs : Admits(f)' => Granted(exec[f].owner)'
    BY <2>1, <2>2 DEF GrantInv, Admits, Is
  <2>5. \A t \in Tokens : ctl'[t] \in {"idle", "waiting"} =>
           /\ ~Granted(t)'
           /\ \A f \in Execs : exec'[f].kind = "acquire" => exec'[f].owner # t
    BY <2>1, <2>2 DEF GrantInv, TypeOK
  <2>6. \A f, g \in Execs :
           exec'[f].kind = "acquire" /\ exec'[g].kind = "acquire"
              /\ exec'[f].owner = exec'[g].owner => f = g
    BY <2>1, <2>2 DEF GrantInv
  <2>7. SectionWasGranted'
    BY <2>2 DEF GrantInv, SectionWasGranted, TypeOK
  <2>8. QED
    BY <2>2, <2>3, <2>4, <2>5, <2>6, <2>7 DEF GrantInv
<1>26. ASSUME NEW c \in Tokens, GiveUp(c) PROVE GrantInv'
  <2>1. \A t \in Tokens : Advances(t)
    BY <1>26 DEF GiveUp, Become, TypeOK, GrantInv, SectionWasGranted
  <2>2. QED
    BY <1>26, <2>1, GrantFrame DEF GiveUp, GrantInv, SameClaim, MayGrant, Admits, Is, fsVars
<1>27. ASSUME NEW c \in Tokens, RunCommand(c) PROVE GrantInv'
  <2>1. \A f \in Execs : SameClaim(f)
    BY <1>27, SpawnClaims DEF RunCommand, Kinds
  <2>2. QED
    BY <1>27, <2>1, GrantFrame DEF RunCommand, GrantInv, fsVars
<1>28. ASSUME NEW c \in Tokens, Heartbeat(c) PROVE GrantInv'
  <2>1. \A f \in Execs : SameClaim(f)
    BY <1>28, SpawnClaims DEF Heartbeat, Kinds
  <2>2. QED
    BY <1>28, <2>1, GrantFrame DEF Heartbeat, GrantInv, fsVars
<1>29. ASSUME NEW c \in Tokens, EndSection(c) PROVE GrantInv'
  <2>1. \A t \in Tokens : Advances(t)
    BY <1>29 DEF EndSection, Become, TypeOK, GrantInv, SectionWasGranted
  <2>2. QED
    BY <1>29, <2>1, GrantFrame DEF EndSection, GrantInv, SameClaim, MayGrant, Admits, Is, fsVars
<1>30. ASSUME NEW c \in Tokens, StartRelease(c) PROVE GrantInv'
  <2>1. \A f \in Execs : SameClaim(f)
    BY <1>30, SpawnClaims DEF StartRelease, Kinds
  <2>2. \A t \in Tokens : Advances(t)
    BY <1>30 DEF StartRelease, Become, TypeOK, GrantInv, SectionWasGranted
  <2>3. QED
    BY <1>30, <2>1, <2>2, GrantFrame DEF StartRelease, GrantInv, fsVars
<1>31. ASSUME NEW c \in Tokens, Crash(c) PROVE GrantInv'
  <2>1. \A f \in Execs : SameClaim(f)
    BY <1>31 DEF Crash, TypeOK, ExecRecord, FreeExec, SameClaim, MayGrant, Admits, Is
  <2>2. \A t \in Tokens : Advances(t)
    BY <1>31 DEF Crash, Become, TypeOK
  <2>3. QED
    BY <1>31, <2>1, <2>2, GrantFrame DEF Crash, GrantInv, fsVars
<1>32. ASSUME Tick PROVE GrantInv'
  BY <1>32, GrantFrame DEF Tick, GrantInv, SameClaim, MayGrant, Admits, Is
<1>33. ASSUME UNCHANGED vars PROVE GrantInv'
  BY <1>33, GrantFrame DEF vars, fsVars, GrantInv, SameClaim, MayGrant, Admits, Is
<1> QED
  BY <1>1, <1>2, <1>3, <1>4, <1>5, <1>6, <1>7, <1>8, <1>9, <1>10, <1>11, <1>12, <1>13, <1>14, <1>15, <1>16, <1>17, <1>18, <1>19, <1>20, <1>21, <1>22, <1>23, <1>24, <1>25, <1>26, <1>27, <1>28, <1>29, <1>30, <1>31, <1>32, <1>33
  DEF Next, ShellStep, ControllerStep

-----------------------------------------------------------------------------
(* The four invariants together.                                           *)

SafetyInv == TypeOK /\ ShellInv /\ EvidenceInv /\ GrantInv

LEMMA SafetyHolds == Spec => []SafetyInv
<1>1. Init => SafetyInv
  BY TypeInit, ShellInit, EvidenceInit, GrantInit DEF SafetyInv
<1>2. SafetyInv /\ [Next]_vars => SafetyInv'
  BY TypeStep, ShellStepInv, EvidenceStep, GrantStep DEF SafetyInv
<1>3. QED
  BY <1>1, <1>2, PTL DEF Spec

(* While a prepared command runs, the lease on the host is its caller's:   *)
(* a living body blocks the reclaim of its lease (sshdCommitLock.ts:19-20). *)
THEOREM BodiesHoldTheirLease == Spec => []BodyHoldsLease
<1>1. SafetyInv => BodyHoldsLease
  BY DEF SafetyInv, EvidenceInv, EvidenceOK, BodyHoldsLease, Is, Owner
<1>2. QED
  BY <1>1, SafetyHolds, PTL

(* No sequence of kills, reclaims and releases leaves evidence that every  *)
(* later acquisition must refuse (preparationGuard, exit 76).              *)
THEOREM EvidenceStaysRecoverable == Spec => []EvidenceRecoverable
<1>1. SafetyInv => EvidenceRecoverable
  BY DEF SafetyInv, EvidenceInv
<1>2. QED
  BY <1>1, SafetyHolds, PTL

(* A controller in its section was granted the lease: a reply that was     *)
(* lost, late or of another attempt never lets it in (acquireMutex).       *)
THEOREM SectionsWereGranted == Spec => []SectionWasGranted
<1>1. SafetyInv => SectionWasGranted
  BY DEF SafetyInv, GrantInv
<1>2. QED
  BY <1>1, SafetyHolds, PTL

-----------------------------------------------------------------------------
(* An unresolved Pending stops every body but its owner's.                 *)

LEMMA PendingInit == Init => PendingStopsWriters
  BY DEF Init, PendingStopsWriters, Is, FreeExec

LEMMA PendingFrame ==
  ASSUME PendingStopsWriters, pending' = pending,
         \A f \in Execs : Is(f, "command", "body")' =>
            Is(f, "command", "body") /\ exec'[f].owner = exec[f].owner
  PROVE  PendingStopsWriters'
  BY DEF PendingStopsWriters, Is, Owner

LEMMA PendingStep ==
  TypeOK /\ ShellInv /\ PendingStopsWriters /\ [Next]_vars => PendingStopsWriters'
<1> SUFFICES ASSUME TypeOK, ShellInv, PendingStopsWriters, [Next]_vars
             PROVE  PendingStopsWriters'
  OBVIOUS
<1>1. ASSUME NEW e \in Execs, TakeFlock(e) PROVE PendingStopsWriters'
  <2>1. PICK pc \in {"inspect", "guard", "compare"} : Goto(e, pc)
    BY <1>1 DEF TypeOK, ExecRecord, Kinds, FirstStep, TakeFlock
  <2>2. \A f \in Execs : exec'[f] = exec[f] \/ exec'[f].pc = pc
    BY <2>1, GotoEffect
  <2>3. QED
    BY <1>1, <2>2, PendingFrame DEF TakeFlock, configVars, Is
<1>2. ASSUME NEW e \in Execs, FlockTimeout(e) PROVE PendingStopsWriters'
  BY <1>2, ExitEffect, PendingFrame DEF FlockTimeout, configVars, Is, Codes
<1>3. ASSUME NEW e \in Execs, ReclaimMarker(e) PROVE PendingStopsWriters'
  BY <1>3, GotoEffect, PendingFrame DEF ReclaimMarker, configVars, Is
<1>4. ASSUME NEW e \in Execs, ReclaimInitialization(e) PROVE PendingStopsWriters'
  BY <1>4, GotoEffect, PendingFrame DEF ReclaimInitialization, configVars, Is
<1>5. ASSUME NEW e \in Execs, NothingToReclaim(e) PROVE PendingStopsWriters'
  <2>1. CASE UnsafeEvidence
    BY <1>5, <2>1, ExitEffect, PendingFrame DEF NothingToReclaim, configVars, Is, Codes
  <2>2. CASE ~UnsafeEvidence
    <3>1. Goto(e, "mkdir") /\ pending' = pending
      BY <1>5, <2>2 DEF NothingToReclaim, configVars
    <3>2. \A f \in Execs : exec'[f] = exec[f] \/ exec'[f].pc = "mkdir"
      BY <3>1, GotoEffect
    <3>3. QED
      BY <3>1, <3>2, PendingFrame DEF Is
  <2>3. QED
    BY <2>1, <2>2
<1>6. ASSUME NEW e \in Execs, RemoveDirectory(e) PROVE PendingStopsWriters'
  BY <1>6, GotoEffect, PendingFrame DEF RemoveDirectory, configVars, Is
<1>7. ASSUME NEW e \in Execs, MakeDirectory(e) PROVE PendingStopsWriters'
  BY <1>7, GotoEffect, PendingFrame DEF MakeDirectory, configVars, Is
<1>8. ASSUME NEW e \in Execs, Contended(e) PROVE PendingStopsWriters'
  BY <1>8, ExitEffect, PendingFrame DEF Contended, configVars, Is, Codes
<1>9. ASSUME NEW e \in Execs, WritePreparation(e) PROVE PendingStopsWriters'
  BY <1>9, GotoEffect, PendingFrame DEF WritePreparation, configVars, Is
<1>10. ASSUME NEW e \in Execs, PublishMarker(e) PROVE PendingStopsWriters'
  BY <1>10, GotoEffect, PendingFrame DEF PublishMarker, configVars, Is
<1>11. ASSUME NEW e \in Execs, ReportToken(e) PROVE PendingStopsWriters'
  BY <1>11, ExitEffect, PendingFrame DEF ReportToken, configVars, Is, Codes
<1>12. ASSUME NEW e \in Execs, FenceRefuses(e) PROVE PendingStopsWriters'
  BY <1>12, ExitEffect, PendingFrame DEF FenceRefuses, configVars, Is, Codes
<1>13. ASSUME NEW e \in Execs, Refresh(e) PROVE PendingStopsWriters'
  BY <1>13, ExitEffect, PendingFrame DEF Refresh, configVars, Is, Codes
<1>14. ASSUME NEW e \in Execs, PendingBlocks(e) PROVE PendingStopsWriters'
  BY <1>14, ExitEffect, PendingFrame DEF PendingBlocks, configVars, Is, Codes
<1>15. ASSUME NEW e \in Execs, EnterBody(e) PROVE PendingStopsWriters'
  <2>1. /\ Goto(e, "body") /\ pending' = pending
        /\ ~pending \/ exec[e].owner \in Recovery
    BY <1>15 DEF EnterBody, configVars, Owner
  <2>2. /\ \A f \in Execs : f # e => exec'[f] = exec[f]
        /\ exec'[e].owner = exec[e].owner
    BY <2>1, GotoEffect
  <2>3. QED
    BY <2>1, <2>2 DEF PendingStopsWriters, Is, Owner
<1>16. ASSUME NEW e \in Execs, BodyEnds(e) PROVE PendingStopsWriters'
  BY <1>16, ExitEffect, PendingFrame DEF BodyEnds, configVars, Is, Codes
<1>17. ASSUME NEW e \in Execs, ReleaseRefuses(e) PROVE PendingStopsWriters'
  BY <1>17, ExitEffect, PendingFrame DEF ReleaseRefuses, configVars, Is, Codes
<1>18. ASSUME NEW e \in Execs, ReleaseMarker(e) PROVE PendingStopsWriters'
  BY <1>18, GotoEffect, PendingFrame DEF ReleaseMarker, configVars, Is
<1>19. ASSUME NEW e \in Execs, ReleaseDirectory(e) PROVE PendingStopsWriters'
  BY <1>19, ExitEffect, PendingFrame DEF ReleaseDirectory, configVars, Is, Codes
<1>20. ASSUME NEW e \in Execs, BodyWrites(e) PROVE PendingStopsWriters'
  BY <1>20 DEF BodyWrites, PendingStopsWriters, Is, Owner
<1>21. ASSUME NEW e \in Execs, BodyMovesPending(e) PROVE PendingStopsWriters'
  BY <1>21, OnlyHolder DEF BodyMovesPending, PendingStopsWriters, Is, Owner, Locked
<1>22. ASSUME NEW e \in Execs, Die(e) PROVE PendingStopsWriters'
  BY <1>22, ExitEffect, PendingFrame DEF Die, configVars, Is, Codes
<1>23. ASSUME NEW e \in Execs, Deliver(e) PROVE PendingStopsWriters'
  BY <1>23, PendingFrame DEF Deliver, TypeOK, ExecRecord, FreeExec, configVars, Is
<1>24. ASSUME NEW e \in Execs, LoseReply(e) PROVE PendingStopsWriters'
  BY <1>24, PendingFrame DEF LoseReply, TypeOK, ExecRecord, FreeExec, configVars, Is
<1>25. ASSUME NEW c \in Tokens, TryAcquire(c) PROVE PendingStopsWriters'
  BY <1>25, SpawnEffect, PendingFrame DEF TryAcquire, Kinds, configVars, Is
<1>26. ASSUME NEW c \in Tokens, GiveUp(c) PROVE PendingStopsWriters'
  BY <1>26, PendingFrame DEF GiveUp, configVars, Is
<1>27. ASSUME NEW c \in Tokens, RunCommand(c) PROVE PendingStopsWriters'
  BY <1>27, SpawnEffect, PendingFrame DEF RunCommand, Kinds, configVars, Is
<1>28. ASSUME NEW c \in Tokens, Heartbeat(c) PROVE PendingStopsWriters'
  BY <1>28, SpawnEffect, PendingFrame DEF Heartbeat, Kinds, configVars, Is
<1>29. ASSUME NEW c \in Tokens, EndSection(c) PROVE PendingStopsWriters'
  BY <1>29, PendingFrame DEF EndSection, configVars, Is
<1>30. ASSUME NEW c \in Tokens, StartRelease(c) PROVE PendingStopsWriters'
  BY <1>30, SpawnEffect, PendingFrame DEF StartRelease, Kinds, configVars, Is
<1>31. ASSUME NEW c \in Tokens, Crash(c) PROVE PendingStopsWriters'
  BY <1>31, PendingFrame DEF Crash, TypeOK, ExecRecord, FreeExec, configVars, Is
<1>32. ASSUME Tick PROVE PendingStopsWriters'
  BY <1>32, PendingFrame DEF Tick, configVars, Is
<1>33. ASSUME UNCHANGED vars PROVE PendingStopsWriters'
  BY <1>33, PendingFrame DEF vars, configVars, Is
<1> QED
  BY <1>1, <1>2, <1>3, <1>4, <1>5, <1>6, <1>7, <1>8, <1>9, <1>10, <1>11, <1>12, <1>13, <1>14, <1>15, <1>16, <1>17, <1>18, <1>19, <1>20, <1>21, <1>22, <1>23, <1>24, <1>25, <1>26, <1>27, <1>28, <1>29, <1>30, <1>31, <1>32, <1>33
  DEF Next, ShellStep, ControllerStep

(* Pending is tested once, before the body, and still only its recovery    *)
(* owner's command ever runs while it is unresolved (lockedCommand).       *)
THEOREM PendingFences == Spec => []PendingStopsWriters
<1>1. TypeOK /\ ShellInv /\ PendingStopsWriters /\ [Next]_vars => PendingStopsWriters'
  BY PendingStep
<1>2. QED
  BY <1>1, PendingInit, TypeCorrect, PTL DEF Spec

-----------------------------------------------------------------------------
(* SshdLease implements CommitLease.                                       *)

LEMMA LeaseStart == Init => Lease!LeaseInit
  BY DEF Init, Lease!LeaseInit

LEMMA LeaseStep == SafetyInv /\ [Next]_vars => [Lease!LeaseNext]_(Lease!leaseVars)
<1> SUFFICES ASSUME TypeOK, ShellInv, EvidenceInv, GrantInv, [Next]_vars
             PROVE  [Lease!LeaseNext]_(Lease!leaseVars)
  BY DEF SafetyInv
<1> USE DEF Lease!leaseVars
<1>1. ASSUME NEW e \in Execs, TakeFlock(e) PROVE [Lease!LeaseNext]_(Lease!leaseVars)
  BY <1>1 DEF TakeFlock, fsVars, configVars
<1>2. ASSUME NEW e \in Execs, FlockTimeout(e) PROVE [Lease!LeaseNext]_(Lease!leaseVars)
  BY <1>2 DEF FlockTimeout, fsVars, configVars
<1>3. ASSUME NEW e \in Execs, ReclaimMarker(e) PROVE [Lease!LeaseNext]_(Lease!leaseVars)
  <2>1. marker # NoToken /\ marker' = NoToken /\ retired' = retired \cup {marker}
        /\ UNCHANGED <<writer, wrote>>
    BY <1>3, TokensAssumption DEF ReclaimMarker, StaleMarker, configVars
  <2>2. QED
    BY <2>1 DEF Lease!LeaseNext, Lease!Revoke
<1>4. ASSUME NEW e \in Execs, ReclaimInitialization(e) PROVE [Lease!LeaseNext]_(Lease!leaseVars)
  BY <1>4 DEF ReclaimInitialization, fsVars, configVars
<1>5. ASSUME NEW e \in Execs, NothingToReclaim(e) PROVE [Lease!LeaseNext]_(Lease!leaseVars)
  BY <1>5 DEF NothingToReclaim, fsVars, configVars
<1>6. ASSUME NEW e \in Execs, RemoveDirectory(e) PROVE [Lease!LeaseNext]_(Lease!leaseVars)
  BY <1>6 DEF RemoveDirectory, fsVars, configVars
<1>7. ASSUME NEW e \in Execs, MakeDirectory(e) PROVE [Lease!LeaseNext]_(Lease!leaseVars)
  BY <1>7 DEF MakeDirectory, fsVars, configVars
<1>8. ASSUME NEW e \in Execs, Contended(e) PROVE [Lease!LeaseNext]_(Lease!leaseVars)
  BY <1>8 DEF Contended, fsVars, configVars
<1>9. ASSUME NEW e \in Execs, WritePreparation(e) PROVE [Lease!LeaseNext]_(Lease!leaseVars)
  BY <1>9 DEF WritePreparation, fsVars, configVars
<1>10. ASSUME NEW e \in Execs, PublishMarker(e) PROVE [Lease!LeaseNext]_(Lease!leaseVars)
  <2>1. /\ exec[e].owner \in Tokens /\ marker = NoToken /\ prep = exec[e].owner
        /\ MayGrant(e)
    BY <1>10 DEF PublishMarker, Is, MayGrant, ShellInv, ShellOK, EvidenceInv, EvidenceOK
  <2>2. prep \notin retired
    BY <2>1 DEF GrantInv, Granted
  <2>3. Lease!Grant(prep)
    BY <1>10, <2>1, <2>2 DEF PublishMarker, Lease!Grant, configVars
  <2>4. QED
    BY <2>1, <2>3 DEF Lease!LeaseNext
<1>11. ASSUME NEW e \in Execs, ReportToken(e) PROVE [Lease!LeaseNext]_(Lease!leaseVars)
  BY <1>11 DEF ReportToken, fsVars, configVars
<1>12. ASSUME NEW e \in Execs, FenceRefuses(e) PROVE [Lease!LeaseNext]_(Lease!leaseVars)
  BY <1>12 DEF FenceRefuses, fsVars, configVars
<1>13. ASSUME NEW e \in Execs, Refresh(e) PROVE [Lease!LeaseNext]_(Lease!leaseVars)
  BY <1>13 DEF Refresh, fsVars, configVars
<1>14. ASSUME NEW e \in Execs, PendingBlocks(e) PROVE [Lease!LeaseNext]_(Lease!leaseVars)
  BY <1>14 DEF PendingBlocks, fsVars, configVars
<1>15. ASSUME NEW e \in Execs, EnterBody(e) PROVE [Lease!LeaseNext]_(Lease!leaseVars)
  BY <1>15 DEF EnterBody, fsVars, configVars
<1>16. ASSUME NEW e \in Execs, BodyEnds(e) PROVE [Lease!LeaseNext]_(Lease!leaseVars)
  BY <1>16 DEF BodyEnds, fsVars, configVars
<1>17. ASSUME NEW e \in Execs, ReleaseRefuses(e) PROVE [Lease!LeaseNext]_(Lease!leaseVars)
  BY <1>17 DEF ReleaseRefuses, fsVars, configVars
<1>18. ASSUME NEW e \in Execs, ReleaseMarker(e) PROVE [Lease!LeaseNext]_(Lease!leaseVars)
  <2>1. marker # NoToken /\ marker' = NoToken /\ retired' = retired \cup {marker}
        /\ UNCHANGED <<writer, wrote>>
    BY <1>18, TokensAssumption DEF ReleaseMarker, Owner, Is, ShellInv, ShellOK, configVars
  <2>2. QED
    BY <2>1 DEF Lease!LeaseNext, Lease!Revoke
<1>19. ASSUME NEW e \in Execs, ReleaseDirectory(e) PROVE [Lease!LeaseNext]_(Lease!leaseVars)
  BY <1>19 DEF ReleaseDirectory, fsVars, configVars
<1>20. ASSUME NEW e \in Execs, BodyWrites(e) PROVE [Lease!LeaseNext]_(Lease!leaseVars)
  <2>1. exec[e].owner \in Tokens /\ marker = exec[e].owner
    BY <1>20 DEF BodyWrites, Is, ShellInv, ShellOK, EvidenceInv, EvidenceOK
  <2>2. Lease!Commit(exec[e].owner)
    BY <1>20, <2>1 DEF BodyWrites, Lease!Commit, Owner, fsVars
  <2>3. QED
    BY <2>1, <2>2 DEF Lease!LeaseNext
<1>21. ASSUME NEW e \in Execs, BodyMovesPending(e) PROVE [Lease!LeaseNext]_(Lease!leaseVars)
  BY <1>21 DEF BodyMovesPending, fsVars, configVars
<1>22. ASSUME NEW e \in Execs, Die(e) PROVE [Lease!LeaseNext]_(Lease!leaseVars)
  BY <1>22 DEF Die, fsVars, configVars
<1>23. ASSUME NEW e \in Execs, Deliver(e) PROVE [Lease!LeaseNext]_(Lease!leaseVars)
  BY <1>23 DEF Deliver, fsVars, configVars
<1>24. ASSUME NEW e \in Execs, LoseReply(e) PROVE [Lease!LeaseNext]_(Lease!leaseVars)
  BY <1>24 DEF LoseReply, fsVars, configVars
<1>25. ASSUME NEW c \in Tokens, TryAcquire(c) PROVE [Lease!LeaseNext]_(Lease!leaseVars)
  BY <1>25 DEF TryAcquire, fsVars, configVars
<1>26. ASSUME NEW c \in Tokens, GiveUp(c) PROVE [Lease!LeaseNext]_(Lease!leaseVars)
  BY <1>26 DEF GiveUp, fsVars, configVars
<1>27. ASSUME NEW c \in Tokens, RunCommand(c) PROVE [Lease!LeaseNext]_(Lease!leaseVars)
  BY <1>27 DEF RunCommand, fsVars, configVars
<1>28. ASSUME NEW c \in Tokens, Heartbeat(c) PROVE [Lease!LeaseNext]_(Lease!leaseVars)
  BY <1>28 DEF Heartbeat, fsVars, configVars
<1>29. ASSUME NEW c \in Tokens, EndSection(c) PROVE [Lease!LeaseNext]_(Lease!leaseVars)
  BY <1>29 DEF EndSection, fsVars, configVars
<1>30. ASSUME NEW c \in Tokens, StartRelease(c) PROVE [Lease!LeaseNext]_(Lease!leaseVars)
  BY <1>30 DEF StartRelease, fsVars, configVars
<1>31. ASSUME NEW c \in Tokens, Crash(c) PROVE [Lease!LeaseNext]_(Lease!leaseVars)
  BY <1>31 DEF Crash, fsVars, configVars
<1>32. ASSUME Tick PROVE [Lease!LeaseNext]_(Lease!leaseVars)
  BY <1>32 DEF Tick, configVars
<1>33. ASSUME UNCHANGED vars PROVE [Lease!LeaseNext]_(Lease!leaseVars)
  BY <1>33 DEF vars, fsVars, configVars
<1> QED
  BY <1>1, <1>2, <1>3, <1>4, <1>5, <1>6, <1>7, <1>8, <1>9, <1>10, <1>11, <1>12, <1>13, <1>14, <1>15, <1>16, <1>17, <1>18, <1>19, <1>20, <1>21, <1>22, <1>23, <1>24, <1>25, <1>26, <1>27, <1>28, <1>29, <1>30, <1>31, <1>32, <1>33
  DEF Next, ShellStep, ControllerStep

(* Under remote shells that die or outlive their controllers, with stale   *)
(* reclaims and crashes, the lease is what CommitLease promises.           *)
THEOREM ImplementsCommitLease == Spec => LeaseRefinement
<1>1. QED
  BY LeaseStart, LeaseStep, SafetyHolds, PTL
  DEF Spec, LeaseRefinement, Lease!LeaseSpec

(* A delayed command of an earlier section never writes after another      *)
(* section has written (the fence of lockedCommand).                       *)
THEOREM WritesAreContiguous == Spec => ContiguousWrites
<1>1. Lease!LeaseSpec => Lease!ContiguousWrites
  BY Lease!LeaseWritesContiguously, TokensAssumption
<1>2. QED
  BY <1>1, ImplementsCommitLease, PTL DEF LeaseRefinement, ContiguousWrites

=============================================================================
