---------------------------- MODULE FlagLockProofs ----------------------------
(***************************************************************************)
(* Proofs about FlagLock for any number of calls, any thresholds, budget   *)
(* and number of faults.                                                   *)
(*                                                                         *)
(* No kernel lock makes the scripts exclude each other, so the invariant   *)
(* has two halves.  What always holds, whoever overran:                    *)
(*   TypeInv      types, and what bounds the rounds;                       *)
(*   OnceInv      a call writes its marker once: a token that was seen     *)
(*                never comes back after it is gone;                       *)
(*   OwnerInv     for every lock that exists there is a living call that   *)
(*                will remove it, or one that was cut off, unless a write  *)
(*                failed and left its marker empty;                        *)
(*   RefreshInv   a guard that lets a refresh pass has seen a young marker; *)
(*   AgeInv       a lock is no older than some call's time without renewal; *)
(*   WindowInv    what a reclaim without a marker to look at has to fear.  *)
(* And InTime, what holds until a call overruns the stale threshold:       *)
(* nothing is reclaimed, mkdir alone decides, the flag is set once.        *)
(***************************************************************************)
EXTENDS FlagLock, TLAPS

(* A call that has not written its marker yet; one whose marker may be     *)
(* there; one that is about to remove a directory without a marker.        *)
Before == {"start", "mkdir", "write", "contended", "poll", "look", "age", "again",
           "dir-age", "dir-again", "rm", "rmdir"}
Owning == {"readback", "drop-marker", "recheck", "work", "stop", "release", "release-rm"}
Emptying == {"write", "drop-dir", "rmdir", "release-rmdir"}
Steps == Before \cup Owning \cup Emptying \cup {"end"}

Marker == [token : Calls \cup {None}, age : Ages]

TypeInv ==
    /\ flagCalls \subseteq Calls
    /\ dirAge \in Ages \cup {None} /\ marker \in Marker \cup {None}
    /\ marker # None => dirAge # None
    /\ flag \in BOOLEAN
    /\ at \in [Calls -> Steps] /\ live \in [Calls -> BOOLEAN] /\ tok \in [Calls -> Calls \cup {None}]
    /\ beat \in [Calls -> {"none", "token", "age", "touch", "late"}] /\ lost \in [Calls -> BOOLEAN]
    /\ rounds \in [Calls -> 0 .. MaxRounds] /\ claimed \in [Calls -> BOOLEAN] /\ late \subseteq Calls
    /\ since \in [Calls -> Ages \cup {None}] /\ applied \in Nat /\ faults \in 0 .. MaxFaults
    /\ \A a \in Calls : at[a] = "poll" => rounds[a] < MaxRounds

OnceInv ==
    /\ marker # None /\ marker.token # None => at[marker.token] \notin Before
    /\ \A a \in Calls : tok[a] # None => at[tok[a]] \notin Before
    /\ \A a \in Calls : at[a] \in Before \ {"write"} => since[a] = None

OwnerInv ==
    /\ marker # None /\ marker.token = None => faults > 0
    /\ marker # None /\ marker.token # None =>
          /\ live[marker.token] => at[marker.token] \in Owning
          /\ at[marker.token] \in Owning \ {"readback", "drop-marker"} => tok[marker.token] = marker.token
    /\ dirAge # None /\ marker = None => \E c \in Calls : ~live[c] \/ at[c] \in Emptying

RefreshInv ==
    \A a \in Calls : marker # None =>
        /\ beat[a] = "touch" => marker.age <= GuardAge
        /\ beat[a] = "late" => marker.age <= GuardAge + 1

LockAge == IF marker = None THEN dirAge ELSE marker.age

AgeInv == dirAge # None => \E c \in Calls : since[c] # None /\ LockAge <= since[c]

SomeOverran == \E c \in Calls : Overran(c)

(* A marker written since the reclaim found none renewed the directory; at *)
(* most one Tick later the age is compared.                                *)
WindowInv ==
    \A a \in Calls : at[a] = "dir-age" /\ marker # None =>
        SomeOverran \/ dirAge = 0 \/ (a \in late /\ dirAge \in 0 .. 1 /\ dirAge <= ReclaimAge)

NoReclaimInv == \A a \in Calls : at[a] \notin {"again", "dir-again", "rm", "rmdir"}

(* From mkdir to rmdir.                                                    *)
Creating == {"write", "readback", "drop-marker", "drop-dir", "recheck", "work", "stop",
             "release", "release-rm", "release-rmdir"}

HolderInv ==
    /\ \A a \in Calls : at[a] \in Creating => dirAge # None
    /\ \A a, b \in Calls : at[a] \in Creating /\ at[b] \in Creating => a = b

FlagInv ==
    /\ applied <= 1 /\ (applied = 1 => flag)
    /\ \A a \in Calls : at[a] = "work" /\ a \in flagCalls => ~flag

InTime == ~SomeOverran => NoReclaimInv /\ HolderInv /\ FlagInv

IInv == TypeInv /\ OnceInv /\ OwnerInv /\ RefreshInv /\ AgeInv /\ WindowInv /\ InTime

(* With a guard age below the threshold: a reclaim that got as far as      *)
(* comparing tokens holds the token of a stale marker, or of one that is   *)
(* gone.                                                                   *)
StaleInv ==
    \A a \in Calls : marker # None /\ marker.token # None =>
        /\ at[a] \in {"again", "rm"} /\ marker.token = tok[a] => Stale(marker.age)
        /\ at[a] \in {"dir-age", "dir-again"} => marker.token # tok[a]

-----------------------------------------------------------------------------
(* What always holds.                                                      *)

(* Every step keeps the types, and charges a round only to a budget that   *)
(* has one left.                                                           *)
LEMMA TypeStep ==
  ASSUME TypeInv, [Next]_vars
  PROVE  TypeInv'
<1> USE FlagLockAssumption DEF TypeInv, Steps, Before, Owning, Emptying
<1>0. 0 \in Ages /\ 0 # None /\ None \notin Ages /\ None \notin Marker
  BY DEF Ages, Marker
<1> USE <1>0
<1>1. ASSUME NEW a \in Calls, MakeDirectory(a) PROVE TypeInv'
  BY <1>1 DEF MakeDirectory, Then, Goto, lockVars, waitVars, beatVars
<1>2. ASSUME NEW a \in Calls, WriteMarker(a) PROVE TypeInv'
  BY <1>2 DEF WriteMarker, Redirect, Then, Fault, Renews, Overran, Marker,
     Goto, lockVars, waitVars, beatVars
<1>3. ASSUME NEW a \in Calls, ReadBack(a) PROVE TypeInv'
  BY <1>3 DEF ReadBack, Then, Fault, Accepted, FirstField, Marker, Goto,
     lockVars, waitVars, beatVars
<1>4. ASSUME NEW a \in Calls, DropMarker(a) PROVE TypeInv'
  BY <1>4 DEF DropMarker, Then, UnlinkMarker, Goto, lockVars, waitVars,
     beatVars
<1>5. ASSUME NEW a \in Calls, DropDirectory(a) PROVE TypeInv'
  BY <1>5 DEF DropDirectory, Leaves, Overran, RmdirWorks, Goto, lockVars,
     waitVars, beatVars
<1>6. ASSUME NEW a \in Calls, Contended(a) PROVE TypeInv'
  BY <1>6 DEF Contended, Goto, lockVars, waitVars, beatVars
<1>7. ASSUME NEW a \in Calls, Poll(a) PROVE TypeInv'
  BY <1>7 DEF Poll, Then, First, Goto, lockVars, waitVars, beatVars
<1>8. ASSUME NEW a \in Calls, ReclaimLook(a) PROVE TypeInv'
  BY <1>8 DEF ReclaimLook, Then, Marker, Goto, lockVars, waitVars, beatVars,
     FirstField
<1>9. ASSUME NEW a \in Calls, ReclaimMarker(a) PROVE TypeInv'
  BY <1>9 DEF ReclaimMarker, UnlinkMarker, Goto, lockVars, waitVars, beatVars
<1>10. ASSUME NEW a \in Calls, ReclaimDirectory(a) PROVE TypeInv'
  BY <1>10 DEF ReclaimDirectory, Then, First, RmdirWorks, Goto, lockVars,
     waitVars, beatVars
<1>11. ASSUME NEW a \in Calls, Work(a) PROVE TypeInv'
  <2>1. (flag' = TRUE /\ applied' = applied + 1) \/ (flag' = flag /\ applied' = applied)
    BY <1>11, Zenon DEF Work
  <2>2. flag' \in BOOLEAN
    BY <2>1, Zenon DEF TypeInv
  <2>3. applied' \in Nat
    BY <2>1
  <2>4. QED
    BY <1>11, <2>2, <2>3 DEF Work, Goto, lockVars, waitVars, beatVars
<1>12. ASSUME NEW a \in Calls, ReleaseMarker(a) PROVE TypeInv'
  BY <1>12 DEF ReleaseMarker, UnlinkMarker, Goto, lockVars, waitVars, beatVars
<1>13. ASSUME NEW a \in Calls, ReleaseDirectory(a) PROVE TypeInv'
  BY <1>13 DEF ReleaseDirectory, RmdirWorks, Goto, lockVars, waitVars,
     beatVars, Leaves, Overran
<1>14. ASSUME NEW a \in Calls, HeartbeatProbes(a) PROVE TypeInv'
  <2>1. lost' = lost \/ lost' = [lost EXCEPT ![a] = TRUE]
    BY <1>14, Zenon DEF HeartbeatProbes
  <2>2. lost' \in [Calls -> BOOLEAN]
    BY <2>1
  <2>3. beat' \in [Calls -> {"none", "token", "age", "touch", "late"}]
    BY <1>14 DEF HeartbeatProbes, Beat
  <2>4. QED
    BY <1>14, <2>2, <2>3 DEF HeartbeatProbes, lockVars, waitVars
<1>15. ASSUME NEW a \in Calls, HeartbeatTouches(a) PROVE TypeInv'
  BY <1>15 DEF HeartbeatTouches, Beat, Renews, Overran, Marker, Goto,
     lockVars, waitVars, beatVars, FirstField
<1>16. ASSUME NEW a \in Calls, HeartbeatThrows(a) PROVE TypeInv'
  BY <1>16 DEF HeartbeatThrows, Fault, Goto, lockVars, waitVars, beatVars
<1>17. ASSUME NEW a \in Calls, Crash(a) PROVE TypeInv'
  BY <1>17 DEF Crash, Fault, Goto, lockVars, waitVars, beatVars
<1>18. ASSUME NEW a \in Calls, Kill(a) PROVE TypeInv'
  BY <1>18 DEF Kill, Beat, Goto, lockVars, waitVars, beatVars
<1>19. ASSUME NEW a \in Calls,
               \/ CheckFlag(a) \/ ReclaimAgeProbe(a) \/ ReclaimCompare(a)
               \/ Recheck(a) \/ StopHeartbeat(a) \/ ReleaseCompare(a)
               \/ HeartbeatStarts(a)
       PROVE  TypeInv'
  BY <1>19 DEF CheckFlag, Then, ReclaimAgeProbe, ReclaimCompare, Recheck,
     StopHeartbeat, ReleaseCompare, HeartbeatStarts, Beat, Goto, lockVars,
     waitVars, beatVars, FirstField
<1>20. CASE Tick
  BY <1>20 DEF Tick, Older, Stale, Ages, Marker
<1>21. CASE UNCHANGED vars
  BY <1>21 DEF vars, lockVars, waitVars, beatVars
<1>22. QED
  BY <1>1, <1>2, <1>3, <1>4, <1>5, <1>6, <1>7, <1>8, <1>9, <1>10, <1>11,
     <1>12, <1>13, <1>14, <1>15, <1>16, <1>17, <1>18, <1>19, <1>20,
     <1>21 DEF Next, Acquires, Reclaims, Finishes, Refreshes

(* No way leads back before the marker is written.                         *)
LEMMA OnceStep ==
  ASSUME TypeInv, OnceInv, [Next]_vars
  PROVE  OnceInv'
<1> USE FlagLockAssumption DEF TypeInv, Marker, Ages, Steps, Before, Owning, Emptying, OnceInv
<1>1. ASSUME NEW a \in Calls, WriteMarker(a) PROVE OnceInv'
  BY <1>1 DEF WriteMarker, Redirect, Then, Fault, Renews, Overran, Goto,
     lockVars, waitVars, beatVars
<1>2. ASSUME NEW a \in Calls, ReadBack(a) PROVE OnceInv'
  BY <1>2 DEF ReadBack, Then, Fault, Accepted, FirstField, Goto, lockVars,
     waitVars, beatVars
<1>3. ASSUME NEW a \in Calls, ReclaimLook(a) PROVE OnceInv'
  BY <1>3 DEF ReclaimLook, Then, Goto, lockVars, waitVars, beatVars,
     FirstField
<1>4. ASSUME NEW a \in Calls, ReclaimDirectory(a) PROVE OnceInv'
  BY <1>4 DEF ReclaimDirectory, Then, First, RmdirWorks, Goto, lockVars,
     waitVars, beatVars
<1>5. ASSUME NEW a \in Calls, HeartbeatTouches(a) PROVE OnceInv'
  BY <1>5 DEF HeartbeatTouches, Beat, Renews, Overran, Goto, lockVars,
     waitVars, beatVars, FirstField
<1>6. ASSUME NEW a \in Calls,
               \/ CheckFlag(a) \/ MakeDirectory(a) \/ DropMarker(a)
               \/ DropDirectory(a) \/ Contended(a) \/ Poll(a)
               \/ ReclaimAgeProbe(a) \/ ReclaimCompare(a)
               \/ ReclaimMarker(a)
       PROVE  OnceInv'
  BY <1>6 DEF CheckFlag, Then, MakeDirectory, DropMarker, UnlinkMarker,
     DropDirectory, RmdirWorks, Contended, Poll, First, ReclaimAgeProbe,
     ReclaimCompare, ReclaimMarker, Goto, lockVars, waitVars, beatVars,
     Leaves, Overran, FirstField
<1>7. ASSUME NEW a \in Calls,
               \/ Recheck(a) \/ Work(a) \/ StopHeartbeat(a)
               \/ ReleaseCompare(a) \/ ReleaseMarker(a)
               \/ ReleaseDirectory(a) \/ HeartbeatStarts(a)
               \/ HeartbeatProbes(a) \/ HeartbeatThrows(a)
       PROVE  OnceInv'
  BY <1>7 DEF Recheck, Work, StopHeartbeat, ReleaseCompare, ReleaseMarker,
     UnlinkMarker, ReleaseDirectory, RmdirWorks, HeartbeatStarts, Beat,
     HeartbeatProbes, HeartbeatThrows, Fault, Goto, lockVars, waitVars,
     beatVars, FirstField, Leaves, Overran
<1>8. ASSUME NEW a \in Calls,
               \/ Crash(a) \/ Kill(a)
       PROVE  OnceInv'
  BY <1>8 DEF Crash, Fault, Kill, Beat, Goto, lockVars, waitVars, beatVars
<1>9. CASE Tick
  BY <1>9 DEF Tick
<1>10. CASE UNCHANGED vars
  BY <1>10 DEF vars, lockVars, waitVars, beatVars
<1>11. QED
  BY <1>1, <1>2, <1>3, <1>4, <1>5, <1>6, <1>7, <1>8, <1>9,
     <1>10 DEF Next, Acquires, Reclaims, Finishes, Refreshes

(* Whoever takes a marker away goes on to the directory, and the writer of *)
(* a marker to its release.                                                *)
LEMMA OwnerStep ==
  ASSUME TypeInv, OnceInv, OwnerInv, [Next]_vars
  PROVE  OwnerInv'
<1> USE FlagLockAssumption DEF TypeInv, Marker, Ages, Steps, Before, Owning, Emptying, OnceInv, OwnerInv
<1>1. ASSUME NEW a \in Calls, MakeDirectory(a) PROVE OwnerInv'
  BY <1>1 DEF MakeDirectory, Then, Goto, lockVars, waitVars, beatVars
<1>2. ASSUME NEW a \in Calls, WriteMarker(a) PROVE OwnerInv'
  BY <1>2 DEF WriteMarker, Redirect, Then, Fault, Renews, Overran, Goto,
     lockVars, waitVars, beatVars
<1>3. ASSUME NEW a \in Calls, ReadBack(a) PROVE OwnerInv'
  BY <1>3 DEF ReadBack, Then, Fault, Accepted, FirstField, Goto, lockVars,
     waitVars, beatVars
<1>4. ASSUME NEW a \in Calls, DropMarker(a) PROVE OwnerInv'
  BY <1>4 DEF DropMarker, Then, UnlinkMarker, Goto, lockVars, waitVars,
     beatVars
<1>5. ASSUME NEW a \in Calls, DropDirectory(a) PROVE OwnerInv'
  BY <1>5 DEF DropDirectory, Leaves, Overran, RmdirWorks, Goto, lockVars,
     waitVars, beatVars
<1>6. ASSUME NEW a \in Calls, ReclaimMarker(a) PROVE OwnerInv'
  BY <1>6 DEF ReclaimMarker, UnlinkMarker, Goto, lockVars, waitVars, beatVars
<1>7. ASSUME NEW a \in Calls, ReclaimDirectory(a) PROVE OwnerInv'
  BY <1>7 DEF ReclaimDirectory, Then, First, RmdirWorks, Goto, lockVars,
     waitVars, beatVars
<1>8. ASSUME NEW a \in Calls, ReleaseCompare(a) PROVE OwnerInv'
  BY <1>8 DEF ReleaseCompare, Goto, lockVars, waitVars, beatVars, FirstField
<1>9. ASSUME NEW a \in Calls, ReleaseMarker(a) PROVE OwnerInv'
  BY <1>9 DEF ReleaseMarker, UnlinkMarker, Goto, lockVars, waitVars, beatVars
<1>10. ASSUME NEW a \in Calls, ReleaseDirectory(a) PROVE OwnerInv'
  BY <1>10 DEF ReleaseDirectory, RmdirWorks, Goto, lockVars, waitVars,
     beatVars, Leaves, Overran
<1>11. ASSUME NEW a \in Calls, HeartbeatTouches(a) PROVE OwnerInv'
  BY <1>11 DEF HeartbeatTouches, Beat, Renews, Overran, Goto, lockVars,
     waitVars, beatVars, FirstField
<1>12. ASSUME NEW a \in Calls,
               \/ CheckFlag(a) \/ Contended(a) \/ Poll(a) \/ ReclaimLook(a)
               \/ ReclaimAgeProbe(a) \/ ReclaimCompare(a) \/ Recheck(a)
               \/ Work(a) \/ StopHeartbeat(a)
       PROVE  OwnerInv'
  BY <1>12 DEF CheckFlag, Then, Contended, Poll, First, ReclaimLook,
     ReclaimAgeProbe, ReclaimCompare, Recheck, Work, StopHeartbeat, Goto,
     lockVars, waitVars, beatVars, FirstField
<1>13. ASSUME NEW a \in Calls,
               \/ HeartbeatStarts(a) \/ HeartbeatProbes(a)
               \/ HeartbeatThrows(a) \/ Crash(a) \/ Kill(a)
       PROVE  OwnerInv'
  BY <1>13 DEF HeartbeatStarts, Beat, HeartbeatProbes, HeartbeatThrows, Fault,
     Crash, Kill, Goto, lockVars, waitVars, beatVars
<1>14. CASE Tick
  <2>1. marker' # None => marker # None /\ marker'.token = marker.token
    BY <1>14 DEF Tick
  <2>2. (marker' = None => marker = None) /\ (dirAge' # None => dirAge # None)
    BY <1>14 DEF Tick, Older
  <2>3. QED
    BY <1>14, <2>1, <2>2 DEF Tick
<1>15. CASE UNCHANGED vars
  BY <1>15 DEF vars, lockVars, waitVars, beatVars
<1>16. QED
  BY <1>1, <1>2, <1>3, <1>4, <1>5, <1>6, <1>7, <1>8, <1>9, <1>10, <1>11,
     <1>12, <1>13, <1>14,
     <1>15 DEF Next, Acquires, Reclaims, Finishes, Refreshes

(* A marker only gets younger while a refresh is on its way, but for the   *)
(* one Tick a script may span.                                             *)
LEMMA RefreshStep ==
  ASSUME TypeInv, RefreshInv, [Next]_vars
  PROVE  RefreshInv'
<1> USE FlagLockAssumption DEF TypeInv, Marker, Ages, Steps, Before, Owning, Emptying, RefreshInv
<1>1. ASSUME NEW a \in Calls, WriteMarker(a) PROVE RefreshInv'
  BY <1>1 DEF WriteMarker, Redirect, Then, Fault, Renews, Overran, Goto,
     lockVars, waitVars, beatVars
<1>2. ASSUME NEW a \in Calls, HeartbeatProbes(a) PROVE RefreshInv'
  BY <1>2 DEF HeartbeatProbes, Beat, GuardAccepts, Goto, lockVars, waitVars,
     beatVars, FirstField
<1>3. ASSUME NEW a \in Calls, HeartbeatTouches(a) PROVE RefreshInv'
  BY <1>3 DEF HeartbeatTouches, Beat, Renews, Overran, Goto, lockVars,
     waitVars, beatVars, FirstField
<1>4. ASSUME NEW a \in Calls,
               \/ CheckFlag(a) \/ MakeDirectory(a) \/ ReadBack(a)
               \/ DropMarker(a) \/ DropDirectory(a) \/ Contended(a)
               \/ Poll(a) \/ ReclaimLook(a) \/ ReclaimAgeProbe(a)
       PROVE  RefreshInv'
  BY <1>4 DEF CheckFlag, Then, MakeDirectory, ReadBack, Fault, Accepted,
     FirstField, DropMarker, UnlinkMarker, DropDirectory, RmdirWorks,
     Contended, Poll, First, ReclaimLook, ReclaimAgeProbe, Goto, lockVars,
     waitVars, beatVars, Leaves, Overran
<1>5. ASSUME NEW a \in Calls,
               \/ ReclaimCompare(a) \/ ReclaimMarker(a)
               \/ ReclaimDirectory(a) \/ Recheck(a) \/ Work(a)
               \/ StopHeartbeat(a) \/ ReleaseCompare(a) \/ ReleaseMarker(a)
               \/ ReleaseDirectory(a)
       PROVE  RefreshInv'
  BY <1>5 DEF ReclaimCompare, Then, ReclaimMarker, UnlinkMarker,
     ReclaimDirectory, First, RmdirWorks, Recheck, Work, StopHeartbeat,
     ReleaseCompare, ReleaseMarker, ReleaseDirectory, Goto, lockVars,
     waitVars, beatVars, FirstField, Leaves, Overran
<1>6. ASSUME NEW a \in Calls,
               \/ HeartbeatStarts(a) \/ HeartbeatThrows(a) \/ Crash(a)
               \/ Kill(a)
       PROVE  RefreshInv'
  BY <1>6 DEF HeartbeatStarts, Beat, HeartbeatThrows, Fault, Crash, Kill,
     Goto, lockVars, waitVars, beatVars
<1>7. CASE Tick
  BY <1>7 DEF Tick, Older, Stale
<1>8. CASE UNCHANGED vars
  BY <1>8 DEF vars, lockVars, waitVars, beatVars
<1>9. QED
  BY <1>1, <1>2, <1>3, <1>4, <1>5, <1>6, <1>7,
     <1>8 DEF Next, Acquires, Reclaims, Finishes, Refreshes

(* Whatever renews the age of a lock is an act of its call, or of one that *)
(* empties it.                                                             *)
LEMMA AgeStep ==
  ASSUME TypeInv, OnceInv, AgeInv, [Next]_vars
  PROVE  AgeInv'
<1> USE FlagLockAssumption DEF TypeInv, Marker, Ages, Steps, Before, Owning, Emptying, OnceInv, AgeInv, LockAge
<1>1. ASSUME NEW a \in Calls, MakeDirectory(a) PROVE AgeInv'
  BY <1>1 DEF MakeDirectory, Then, Goto, lockVars, waitVars, beatVars
<1>2. ASSUME NEW a \in Calls, WriteMarker(a) PROVE AgeInv'
  BY <1>2 DEF WriteMarker, Redirect, Then, Fault, Renews, Overran, Goto,
     lockVars, waitVars, beatVars
<1>3. ASSUME NEW a \in Calls, DropMarker(a) PROVE AgeInv'
  BY <1>3 DEF DropMarker, Then, UnlinkMarker, Goto, lockVars, waitVars,
     beatVars
<1>4. ASSUME NEW a \in Calls, ReclaimMarker(a) PROVE AgeInv'
  BY <1>4 DEF ReclaimMarker, UnlinkMarker, Goto, lockVars, waitVars, beatVars
<1>5. ASSUME NEW a \in Calls, ReclaimDirectory(a) PROVE AgeInv'
  BY <1>5 DEF ReclaimDirectory, Then, First, RmdirWorks, Goto, lockVars,
     waitVars, beatVars
<1>6. ASSUME NEW a \in Calls, ReleaseMarker(a) PROVE AgeInv'
  BY <1>6 DEF ReleaseMarker, UnlinkMarker, Goto, lockVars, waitVars, beatVars
<1>7. ASSUME NEW a \in Calls, HeartbeatTouches(a) PROVE AgeInv'
  BY <1>7 DEF HeartbeatTouches, Beat, Renews, Overran, Goto, lockVars,
     waitVars, beatVars, FirstField
<1>8. ASSUME NEW a \in Calls,
               \/ CheckFlag(a) \/ ReadBack(a) \/ DropDirectory(a)
               \/ Contended(a) \/ Poll(a) \/ ReclaimLook(a)
               \/ ReclaimAgeProbe(a) \/ ReclaimCompare(a) \/ Recheck(a)
       PROVE  AgeInv'
  BY <1>8 DEF CheckFlag, Then, ReadBack, Fault, Accepted, FirstField,
     DropDirectory, Leaves, Overran, RmdirWorks, Contended, Poll, First,
     ReclaimLook, ReclaimAgeProbe, ReclaimCompare, Recheck, Goto, lockVars,
     waitVars, beatVars
<1>9. ASSUME NEW a \in Calls,
               \/ Work(a) \/ StopHeartbeat(a) \/ ReleaseCompare(a)
               \/ ReleaseDirectory(a) \/ HeartbeatStarts(a)
               \/ HeartbeatProbes(a) \/ HeartbeatThrows(a) \/ Crash(a)
               \/ Kill(a)
       PROVE  AgeInv'
  BY <1>9 DEF Work, StopHeartbeat, ReleaseCompare, ReleaseDirectory,
     RmdirWorks, HeartbeatStarts, Beat, HeartbeatProbes, HeartbeatThrows,
     Fault, Crash, Kill, Goto, lockVars, waitVars, beatVars, FirstField,
     Leaves, Overran
<1>10. CASE Tick
  BY <1>10 DEF Tick, Older, Stale
<1>11. CASE UNCHANGED vars
  BY <1>11 DEF vars, lockVars, waitVars, beatVars
<1>12. QED
  BY <1>1, <1>2, <1>3, <1>4, <1>5, <1>6, <1>7, <1>8, <1>9, <1>10,
     <1>11 DEF Next, Acquires, Reclaims, Finishes, Refreshes

(* An overrun stays on record.                                             *)
LEMMA OverranStays ==
  ASSUME TypeInv, OnceInv, SomeOverran, [Next]_vars
  PROVE  SomeOverran'
<1> USE FlagLockAssumption DEF TypeInv, Marker, Ages, Steps, Before, Owning, Emptying, SomeOverran, Overran, Stale
<1>1. ASSUME NEW a \in Calls, MakeDirectory(a) PROVE SomeOverran'
  BY <1>1 DEF MakeDirectory, Then, Goto, lockVars, waitVars, beatVars, OnceInv
<1>2. ASSUME NEW a \in Calls, WriteMarker(a) PROVE SomeOverran'
  BY <1>2 DEF WriteMarker, Redirect, Then, Fault, Renews, Overran, Goto,
     lockVars, waitVars, beatVars
<1>3. ASSUME NEW a \in Calls, ReclaimDirectory(a) PROVE SomeOverran'
  BY <1>3 DEF ReclaimDirectory, Then, First, RmdirWorks, Goto, lockVars,
     waitVars, beatVars
<1>4. ASSUME NEW a \in Calls, HeartbeatTouches(a) PROVE SomeOverran'
  BY <1>4 DEF HeartbeatTouches, Beat, Renews, Overran, Goto, lockVars,
     waitVars, beatVars, FirstField
<1>5. ASSUME NEW a \in Calls,
               \/ CheckFlag(a) \/ ReadBack(a) \/ DropMarker(a)
               \/ DropDirectory(a) \/ Contended(a) \/ Poll(a)
               \/ ReclaimLook(a) \/ ReclaimAgeProbe(a) \/ ReclaimCompare(a)
       PROVE  SomeOverran'
  BY <1>5 DEF CheckFlag, Then, ReadBack, Fault, Accepted, FirstField,
     DropMarker, UnlinkMarker, DropDirectory, RmdirWorks, Contended, Poll,
     First, ReclaimLook, ReclaimAgeProbe, ReclaimCompare, Goto, lockVars,
     waitVars, beatVars, Leaves, Overran
<1>6. ASSUME NEW a \in Calls,
               \/ ReclaimMarker(a) \/ Recheck(a) \/ Work(a)
               \/ StopHeartbeat(a) \/ ReleaseCompare(a) \/ ReleaseMarker(a)
               \/ ReleaseDirectory(a) \/ HeartbeatStarts(a)
               \/ HeartbeatProbes(a)
       PROVE  SomeOverran'
  BY <1>6 DEF ReclaimMarker, UnlinkMarker, Recheck, Work, StopHeartbeat,
     ReleaseCompare, ReleaseMarker, ReleaseDirectory, RmdirWorks,
     HeartbeatStarts, Beat, HeartbeatProbes, Goto, lockVars, waitVars,
     beatVars, FirstField, Leaves, Overran
<1>7. ASSUME NEW a \in Calls,
               \/ HeartbeatThrows(a) \/ Crash(a) \/ Kill(a)
       PROVE  SomeOverran'
  BY <1>7 DEF HeartbeatThrows, Fault, Crash, Kill, Beat, Goto, lockVars,
     waitVars, beatVars
<1>8. CASE Tick
  BY <1>8 DEF Tick, Older
<1>9. CASE UNCHANGED vars
  BY <1>9 DEF vars, lockVars, waitVars, beatVars
<1>10. QED
  BY <1>1, <1>2, <1>3, <1>4, <1>5, <1>6, <1>7, <1>8,
     <1>9 DEF Next, Acquires, Reclaims, Finishes, Refreshes

(* With a threshold of zero the Tick itself is an overrun; with any other  *)
(* a directory renewed since the look is not stale.                        *)
LEMMA WindowStep ==
  ASSUME TypeInv, OnceInv, AgeInv, WindowInv, [Next]_vars
  PROVE  WindowInv'
<1> USE FlagLockAssumption DEF TypeInv, Marker, Ages, Steps, Before, Owning, Emptying, OnceInv, WindowInv, Stale
<1>0. SomeOverran => SomeOverran'
  BY OverranStays
<1> USE <1>0
<1>1. ASSUME NEW a \in Calls, MakeDirectory(a) PROVE WindowInv'
  BY <1>1 DEF MakeDirectory, Then, Goto, lockVars, waitVars, beatVars
<1>2. ASSUME NEW a \in Calls, WriteMarker(a) PROVE WindowInv'
  BY <1>2 DEF WriteMarker, Redirect, Then, Fault, Renews, Overran, Goto,
     lockVars, waitVars, beatVars
<1>3. ASSUME NEW a \in Calls, ReclaimLook(a) PROVE WindowInv'
  BY <1>3 DEF ReclaimLook, Then, Goto, lockVars, waitVars, beatVars,
     FirstField
<1>4. ASSUME NEW a \in Calls, ReclaimAgeProbe(a) PROVE WindowInv'
  BY <1>4 DEF ReclaimAgeProbe, Then, Goto, lockVars, waitVars, beatVars
<1>5. ASSUME NEW a \in Calls, HeartbeatTouches(a) PROVE WindowInv'
  BY <1>5 DEF HeartbeatTouches, Beat, Renews, Overran, Goto, lockVars,
     waitVars, beatVars, FirstField
<1>6. ASSUME NEW a \in Calls,
               \/ CheckFlag(a) \/ ReadBack(a) \/ DropMarker(a)
               \/ DropDirectory(a) \/ Contended(a) \/ Poll(a)
               \/ ReclaimCompare(a) \/ ReclaimMarker(a)
               \/ ReclaimDirectory(a)
       PROVE  WindowInv'
  BY <1>6 DEF CheckFlag, Then, ReadBack, Fault, Accepted, FirstField,
     DropMarker, UnlinkMarker, DropDirectory, RmdirWorks, Contended, Poll,
     First, ReclaimCompare, ReclaimMarker, ReclaimDirectory, Goto, lockVars,
     waitVars, beatVars, Leaves, Overran
<1>7. ASSUME NEW a \in Calls,
               \/ Recheck(a) \/ Work(a) \/ StopHeartbeat(a)
               \/ ReleaseCompare(a) \/ ReleaseMarker(a)
               \/ ReleaseDirectory(a) \/ HeartbeatStarts(a)
               \/ HeartbeatProbes(a) \/ HeartbeatThrows(a)
       PROVE  WindowInv'
  BY <1>7 DEF Recheck, Work, StopHeartbeat, ReleaseCompare, ReleaseMarker,
     UnlinkMarker, ReleaseDirectory, RmdirWorks, HeartbeatStarts, Beat,
     HeartbeatProbes, HeartbeatThrows, Fault, Goto, lockVars, waitVars,
     beatVars, FirstField, Leaves, Overran
<1>8. ASSUME NEW a \in Calls,
               \/ Crash(a) \/ Kill(a)
       PROVE  WindowInv'
  BY <1>8 DEF Crash, Fault, Kill, Beat, Goto, lockVars, waitVars, beatVars
<1>9. CASE Tick
  BY <1>9 DEF Tick, Older, Scripts, SomeOverran, Overran, AgeInv
<1>10. CASE UNCHANGED vars
  BY <1>10 DEF vars, lockVars, waitVars, beatVars
<1>11. QED
  BY <1>1, <1>2, <1>3, <1>4, <1>5, <1>6, <1>7, <1>8, <1>9,
     <1>10 DEF Next, Acquires, Reclaims, Finishes, Refreshes

-----------------------------------------------------------------------------
(* What holds until a call overruns.                                       *)

(* Without an overrun every age comparison of a reclaim refuses.           *)
LEMMA NoReclaimStep ==
  ASSUME TypeInv, OnceInv, AgeInv, WindowInv, NoReclaimInv, ~SomeOverran', [Next]_vars
  PROVE  NoReclaimInv'
<1> USE FlagLockAssumption DEF TypeInv, Marker, Ages, Steps, Before, Owning, Emptying, NoReclaimInv
<1>0. ~SomeOverran
  BY OverranStays
<1> USE <1>0
<1>1. ASSUME NEW a \in Calls, ReclaimAgeProbe(a) PROVE NoReclaimInv'
  BY <1>1 DEF ReclaimAgeProbe, Then, ReclaimAges, AgeInv, LockAge, WindowInv,
     SomeOverran, Overran, Stale, Goto, lockVars, waitVars, beatVars
<1>2. ASSUME NEW a \in Calls,
               \/ CheckFlag(a) \/ MakeDirectory(a) \/ WriteMarker(a)
               \/ ReadBack(a) \/ DropMarker(a) \/ DropDirectory(a)
               \/ Contended(a) \/ Poll(a) \/ ReclaimLook(a)
       PROVE  NoReclaimInv'
  BY <1>2 DEF CheckFlag, Then, MakeDirectory, WriteMarker, Redirect, Fault,
     Renews, Overran, ReadBack, Accepted, FirstField, DropMarker,
     UnlinkMarker, DropDirectory, RmdirWorks, Contended, Poll, First,
     ReclaimLook, Goto, lockVars, waitVars, beatVars, Leaves
<1>3. ASSUME NEW a \in Calls,
               \/ ReclaimCompare(a) \/ ReclaimMarker(a)
               \/ ReclaimDirectory(a) \/ Recheck(a) \/ Work(a)
               \/ StopHeartbeat(a) \/ ReleaseCompare(a) \/ ReleaseMarker(a)
               \/ ReleaseDirectory(a)
       PROVE  NoReclaimInv'
  BY <1>3 DEF ReclaimCompare, Then, ReclaimMarker, UnlinkMarker,
     ReclaimDirectory, First, RmdirWorks, Recheck, Work, StopHeartbeat,
     ReleaseCompare, ReleaseMarker, ReleaseDirectory, Goto, lockVars,
     waitVars, beatVars, FirstField, Leaves, Overran
<1>4. ASSUME NEW a \in Calls,
               \/ HeartbeatStarts(a) \/ HeartbeatProbes(a)
               \/ HeartbeatTouches(a) \/ HeartbeatThrows(a) \/ Crash(a)
               \/ Kill(a)
       PROVE  NoReclaimInv'
  BY <1>4 DEF HeartbeatStarts, Beat, HeartbeatProbes, HeartbeatTouches,
     Renews, Overran, HeartbeatThrows, Fault, Crash, Kill, Goto, lockVars,
     waitVars, beatVars, FirstField
<1>5. CASE Tick
  BY <1>5 DEF Tick
<1>6. CASE UNCHANGED vars
  BY <1>6 DEF vars, lockVars, waitVars, beatVars
<1>7. QED
  BY <1>1, <1>2, <1>3, <1>4, <1>5,
     <1>6 DEF Next, Acquires, Reclaims, Finishes, Refreshes

(* Without reclaims mkdir lets one call in at a time, and only that call   *)
(* removes the directory.                                                  *)
LEMMA HolderStep ==
  ASSUME TypeInv, NoReclaimInv, HolderInv, [Next]_vars
  PROVE  HolderInv'
<1> USE FlagLockAssumption DEF TypeInv, Marker, Ages, Steps, Before, Owning, Emptying, NoReclaimInv, HolderInv, Creating
<1>1. ASSUME NEW a \in Calls, MakeDirectory(a) PROVE HolderInv'
  BY <1>1 DEF MakeDirectory, Then, Goto, lockVars, waitVars, beatVars
<1>2. ASSUME NEW a \in Calls, WriteMarker(a) PROVE HolderInv'
  BY <1>2 DEF WriteMarker, Redirect, Then, Fault, Renews, Overran, Goto,
     lockVars, waitVars, beatVars
<1>3. ASSUME NEW a \in Calls, DropDirectory(a) PROVE HolderInv'
  BY <1>3 DEF DropDirectory, Leaves, Overran, RmdirWorks, Goto, lockVars,
     waitVars, beatVars
<1>4. ASSUME NEW a \in Calls, ReclaimDirectory(a) PROVE HolderInv'
  BY <1>4 DEF ReclaimDirectory, Then, First, RmdirWorks, Goto, lockVars,
     waitVars, beatVars
<1>5. ASSUME NEW a \in Calls, ReleaseDirectory(a) PROVE HolderInv'
  BY <1>5 DEF ReleaseDirectory, RmdirWorks, Goto, lockVars, waitVars,
     beatVars, Leaves, Overran
<1>6. ASSUME NEW a \in Calls,
               \/ CheckFlag(a) \/ ReadBack(a) \/ DropMarker(a)
               \/ Contended(a) \/ Poll(a) \/ ReclaimLook(a)
               \/ ReclaimAgeProbe(a) \/ ReclaimCompare(a)
               \/ ReclaimMarker(a)
       PROVE  HolderInv'
  BY <1>6 DEF CheckFlag, Then, ReadBack, Fault, Accepted, FirstField,
     DropMarker, UnlinkMarker, Contended, Poll, First, ReclaimLook,
     ReclaimAgeProbe, ReclaimCompare, ReclaimMarker, Goto, lockVars, waitVars,
     beatVars
<1>7. ASSUME NEW a \in Calls,
               \/ Recheck(a) \/ Work(a) \/ StopHeartbeat(a)
               \/ ReleaseCompare(a) \/ ReleaseMarker(a)
               \/ HeartbeatStarts(a) \/ HeartbeatProbes(a)
               \/ HeartbeatTouches(a) \/ HeartbeatThrows(a)
       PROVE  HolderInv'
  BY <1>7 DEF Recheck, Work, StopHeartbeat, ReleaseCompare, ReleaseMarker,
     UnlinkMarker, HeartbeatStarts, Beat, HeartbeatProbes, HeartbeatTouches,
     Renews, Overran, HeartbeatThrows, Fault, Goto, lockVars, waitVars,
     beatVars, FirstField
<1>8. ASSUME NEW a \in Calls,
               \/ Crash(a) \/ Kill(a)
       PROVE  HolderInv'
  BY <1>8 DEF Crash, Fault, Kill, Beat, Goto, lockVars, waitVars, beatVars
<1>9. CASE Tick
  BY <1>9 DEF Tick, Older
<1>10. CASE UNCHANGED vars
  BY <1>10 DEF vars, lockVars, waitVars, beatVars
<1>11. QED
  BY <1>1, <1>2, <1>3, <1>4, <1>5, <1>6, <1>7, <1>8, <1>9,
     <1>10 DEF Next, Acquires, Reclaims, Finishes, Refreshes

(* The one holder sets the flag only if it was not set when it looked      *)
(* again.                                                                  *)
LEMMA FlagStep ==
  ASSUME TypeInv, HolderInv, FlagInv, [Next]_vars
  PROVE  FlagInv'
<1> USE FlagLockAssumption DEF TypeInv, Marker, Ages, Steps, Before, Owning, Emptying, HolderInv, FlagInv, Creating
<1>1. ASSUME NEW a \in Calls, Recheck(a) PROVE FlagInv'
  BY <1>1 DEF Recheck, Goto, lockVars, waitVars, beatVars
<1>2. ASSUME NEW a \in Calls, Work(a) PROVE FlagInv'
  BY <1>2 DEF Work, Goto, lockVars, waitVars, beatVars
<1>3. ASSUME NEW a \in Calls,
               \/ CheckFlag(a) \/ MakeDirectory(a) \/ WriteMarker(a)
               \/ ReadBack(a) \/ DropMarker(a) \/ DropDirectory(a)
               \/ Contended(a) \/ Poll(a) \/ ReclaimLook(a)
       PROVE  FlagInv'
  BY <1>3 DEF CheckFlag, Then, MakeDirectory, WriteMarker, Redirect, Fault,
     Renews, Overran, ReadBack, Accepted, FirstField, DropMarker,
     UnlinkMarker, DropDirectory, RmdirWorks, Contended, Poll, First,
     ReclaimLook, Goto, lockVars, waitVars, beatVars, Leaves
<1>4. ASSUME NEW a \in Calls,
               \/ ReclaimAgeProbe(a) \/ ReclaimCompare(a)
               \/ ReclaimMarker(a) \/ ReclaimDirectory(a)
               \/ StopHeartbeat(a) \/ ReleaseCompare(a) \/ ReleaseMarker(a)
               \/ ReleaseDirectory(a) \/ HeartbeatStarts(a)
       PROVE  FlagInv'
  BY <1>4 DEF ReclaimAgeProbe, Then, ReclaimCompare, ReclaimMarker,
     UnlinkMarker, ReclaimDirectory, First, RmdirWorks, StopHeartbeat,
     ReleaseCompare, ReleaseMarker, ReleaseDirectory, HeartbeatStarts, Beat,
     Goto, lockVars, waitVars, beatVars, FirstField, Leaves, Overran
<1>5. ASSUME NEW a \in Calls,
               \/ HeartbeatProbes(a) \/ HeartbeatTouches(a)
               \/ HeartbeatThrows(a) \/ Crash(a) \/ Kill(a)
       PROVE  FlagInv'
  BY <1>5 DEF HeartbeatProbes, Beat, HeartbeatTouches, Renews, Overran,
     HeartbeatThrows, Fault, Crash, Kill, Goto, lockVars, waitVars, beatVars,
     FirstField
<1>6. CASE Tick
  BY <1>6 DEF Tick
<1>7. CASE UNCHANGED vars
  BY <1>7 DEF vars, lockVars, waitVars, beatVars
<1>8. QED
  BY <1>1, <1>2, <1>3, <1>4, <1>5, <1>6,
     <1>7 DEF Next, Acquires, Reclaims, Finishes, Refreshes

(* A marker found stale is never refreshed, and a token that is gone does  *)
(* not come back.                                                          *)
LEMMA StaleStep ==
  ASSUME GuardAge < ReclaimAge, TypeInv, OnceInv, RefreshInv, StaleInv, [Next]_vars
  PROVE  StaleInv'
<1> USE FlagLockAssumption DEF TypeInv, Marker, Ages, Steps, Before, Owning, Emptying, OnceInv, RefreshInv, StaleInv, Stale
<1>1. ASSUME NEW a \in Calls, WriteMarker(a) PROVE StaleInv'
  BY <1>1 DEF WriteMarker, Redirect, Then, Fault, Renews, Overran, Goto,
     lockVars, waitVars, beatVars
<1>2. ASSUME NEW a \in Calls, ReclaimLook(a) PROVE StaleInv'
  BY <1>2 DEF ReclaimLook, Then, Goto, lockVars, waitVars, beatVars,
     FirstField
<1>3. ASSUME NEW a \in Calls, ReclaimAgeProbe(a) PROVE StaleInv'
  BY <1>3 DEF ReclaimAgeProbe, Then, ReclaimAges, Goto, lockVars, waitVars,
     beatVars
<1>4. ASSUME NEW a \in Calls, ReclaimCompare(a) PROVE StaleInv'
  BY <1>4 DEF ReclaimCompare, Then, Goto, lockVars, waitVars, beatVars,
     FirstField
<1>5. ASSUME NEW a \in Calls, HeartbeatTouches(a) PROVE StaleInv'
  BY <1>5 DEF HeartbeatTouches, Beat, Renews, Overran, Goto, lockVars,
     waitVars, beatVars, FirstField
<1>6. ASSUME NEW a \in Calls,
               \/ CheckFlag(a) \/ MakeDirectory(a) \/ ReadBack(a)
               \/ DropMarker(a) \/ DropDirectory(a) \/ Contended(a)
               \/ Poll(a) \/ ReclaimMarker(a) \/ ReclaimDirectory(a)
       PROVE  StaleInv'
  BY <1>6 DEF CheckFlag, Then, MakeDirectory, ReadBack, Fault, Accepted,
     FirstField, DropMarker, UnlinkMarker, DropDirectory, RmdirWorks,
     Contended, Poll, First, ReclaimMarker, ReclaimDirectory, Goto, lockVars,
     waitVars, beatVars, Leaves, Overran
<1>7. ASSUME NEW a \in Calls,
               \/ Recheck(a) \/ Work(a) \/ StopHeartbeat(a)
               \/ ReleaseCompare(a) \/ ReleaseMarker(a)
               \/ ReleaseDirectory(a) \/ HeartbeatStarts(a)
               \/ HeartbeatProbes(a) \/ HeartbeatThrows(a)
       PROVE  StaleInv'
  BY <1>7 DEF Recheck, Work, StopHeartbeat, ReleaseCompare, ReleaseMarker,
     UnlinkMarker, ReleaseDirectory, RmdirWorks, HeartbeatStarts, Beat,
     HeartbeatProbes, HeartbeatThrows, Fault, Goto, lockVars, waitVars,
     beatVars, FirstField, Leaves, Overran
<1>8. ASSUME NEW a \in Calls,
               \/ Crash(a) \/ Kill(a)
       PROVE  StaleInv'
  BY <1>8 DEF Crash, Fault, Kill, Beat, Goto, lockVars, waitVars, beatVars
<1>9. CASE Tick
  BY <1>9 DEF Tick, Older
<1>10. CASE UNCHANGED vars
  BY <1>10 DEF vars, lockVars, waitVars, beatVars
<1>11. QED
  BY <1>1, <1>2, <1>3, <1>4, <1>5, <1>6, <1>7, <1>8, <1>9,
     <1>10 DEF Next, Acquires, Reclaims, Finishes, Refreshes

-----------------------------------------------------------------------------

(* There is no lock, and nobody has started.                               *)
LEMMA InitKeeps == Init => IInv /\ StaleInv
<1> SUFFICES ASSUME Init PROVE IInv /\ StaleInv
  OBVIOUS
<1> USE FlagLockAssumption
<1>1. TypeInv
  <2>1. at \in [Calls -> Steps] /\ \A a \in Calls : at[a] # "poll"
    BY DEF Init, First, Steps, Before
  <2>2. live \in [Calls -> BOOLEAN] /\ lost \in [Calls -> BOOLEAN] /\ claimed \in [Calls -> BOOLEAN] /\ flag \in BOOLEAN
    BY DEF Init
  <2>3. rounds \in [Calls -> 0 .. MaxRounds] /\ since \in [Calls -> Ages \cup {None}] /\ faults \in 0 .. MaxFaults
    BY DEF Init, Ages
  <2>4. QED
    BY <2>1, <2>2, <2>3 DEF Init, TypeInv
<1>2. OnceInv /\ OwnerInv /\ RefreshInv /\ AgeInv /\ WindowInv /\ StaleInv
  BY DEF Init, OnceInv, OwnerInv, RefreshInv, AgeInv, WindowInv, StaleInv
<1>3. NoReclaimInv /\ HolderInv
  BY DEF Init, First, NoReclaimInv, HolderInv, Creating
<1>4. FlagInv
  BY DEF Init, First, FlagInv
<1>5. QED
  BY <1>1, <1>2, <1>3, <1>4 DEF IInv, InTime

(* Every step of every call, and Tick, keeps the invariant.                *)
LEMMA StepKeeps == IInv /\ [Next]_vars => IInv'
<1> SUFFICES ASSUME IInv, [Next]_vars PROVE IInv'
  OBVIOUS
<1> USE DEF IInv
<1>1. TypeInv' /\ OnceInv' /\ OwnerInv' /\ RefreshInv' /\ AgeInv' /\ WindowInv'
  BY TypeStep, OnceStep, OwnerStep, RefreshStep, AgeStep, WindowStep
<1>2. ASSUME ~SomeOverran' PROVE NoReclaimInv' /\ HolderInv' /\ FlagInv'
  <2>1. NoReclaimInv /\ HolderInv /\ FlagInv
    BY <1>2, OverranStays DEF InTime
  <2>2. QED
    BY <1>2, <2>1, NoReclaimStep, HolderStep, FlagStep
<1>3. QED
  BY <1>1, <1>2 DEF InTime

(* The invariant holds in every state.                                     *)
LEMMA IInvHolds == Spec => []IInv
  BY InitKeeps, StepKeeps, PTL DEF Spec

-----------------------------------------------------------------------------

(* Two sections overlap, and an apply behind a flag completes twice, only  *)
(* after a call outlived the stale threshold without renewing its lock,    *)
(* however many calls there are and however their processes interleave     *)
(* (withMutexLock, applyWithFlagLock).                                     *)
THEOREM SectionsExclude == Spec => []OneHolder
<1>1. IInv => OneHolder
  <2> SUFFICES ASSUME IInv PROVE OneHolder
    OBVIOUS
  <2>1. TypeOK
    BY DEF IInv, TypeInv, TypeOK, Marker
  <2>2. SomeOverran => \E c \in Calls : Overran(c)
    BY DEF SomeOverran
  <2>3. ~SomeOverran => \A a, b \in Calls : InSection(a) /\ InSection(b) => a = b
    BY DEF IInv, InTime, HolderInv, Creating, InSection
  <2>4. ~SomeOverran => ~(applied > 1)
    BY DEF IInv, TypeInv, InTime, FlagInv
  <2>5. QED
    BY <2>1, <2>2, <2>3, <2>4 DEF OneHolder, MutualExclusion, AppliedOnce
<1>2. QED
  BY <1>1, IInvHolds, PTL

(* Whichever reads and writes of markers fail, and however many calls      *)
(* meet: when all calls have ended, uncut, there is no lock, or one whose  *)
(* marker a failed write has left empty (writeFlagLockHolderMarker).       *)
THEOREM LocksAreRemoved == Spec => []NoLockLeft
<1>1. IInv => NoLockLeft
  BY FlagLockAssumption DEF IInv, TypeInv, OwnerInv, NoLockLeft, Marker,
     Owning, Emptying
<1>2. QED
  BY <1>1, IInvHolds, PTL

(* With a guard age below the reclaim age, as the archive lock has, no     *)
(* marker that its heartbeat keeps young is reclaimed                      *)
(* (buildFlagLockRefreshGuard).                                            *)
THEOREM RefreshedMarkersStay ==
  ASSUME GuardAge < ReclaimAge
  PROVE  Spec => RefreshedIsNotReclaimed
<1>1. IInv /\ StaleInv /\ [Next]_vars => StaleInv'
  BY StaleStep DEF IInv
<1>2. IInv /\ StaleInv =>
        [\A a \in Calls :
            /\ at[a] = "rm" /\ at'[a] = "rmdir"
            /\ FirstField # None /\ FirstField = tok[a]
            => Stale(marker.age)]_vars
  BY DEF StaleInv, FirstField
<1>3. QED
  BY <1>1, <1>2, InitKeeps, IInvHolds, PTL DEF Spec, RefreshedIsNotReclaimed

=============================================================================
