----------------------------- MODULE CommitLease -----------------------------
(***************************************************************************)
(* What the shared sshd commit lease promises to its clients, without any  *)
(* of the machinery (directories, markers, ages, flock, shells) that makes *)
(* it hold.                                                                *)
(*                                                                         *)
(* A token names one call of withSshdCommitLease.  The lease is granted to *)
(* a token at most once, it is revoked by the holder's release or by a     *)
(* stale reclaim, and only the present holder can write the protected      *)
(* files.  SshdLease.tla is the detailed specification that implements it. *)
(***************************************************************************)
EXTENDS TLAPS

CONSTANTS
    Tokens,     \* the calls of withSshdCommitLease
    NoToken     \* "nobody": the lease is free, nothing was written yet

VARIABLES
    holder,     \* the token that holds the lease, or NoToken
    retired,    \* the tokens whose lease has ended
    writer,     \* the token of the latest write of a protected file
    wrote       \* the tokens that wrote at least once

leaseVars == <<holder, retired, writer, wrote>>

LeaseInit ==
    /\ holder = NoToken
    /\ retired = {}
    /\ writer = NoToken
    /\ wrote = {}

Grant(t) ==
    /\ holder = NoToken
    /\ t \notin retired
    /\ holder' = t
    /\ UNCHANGED <<retired, writer, wrote>>

Revoke ==
    /\ holder # NoToken
    /\ holder' = NoToken
    /\ retired' = retired \cup {holder}
    /\ UNCHANGED <<writer, wrote>>

Commit(t) ==
    /\ holder = t
    /\ writer' = t
    /\ wrote' = wrote \cup {t}
    /\ UNCHANGED <<holder, retired>>

LeaseNext ==
    \/ Revoke
    \/ \E t \in Tokens : Grant(t) \/ Commit(t)

LeaseSpec == LeaseInit /\ [][LeaseNext]_leaseVars

-----------------------------------------------------------------------------

(* The type of the abstract lease. *)
LeaseTypeOK ==
    /\ holder \in Tokens \cup {NoToken}
    /\ retired \subseteq Tokens
    /\ writer \in Tokens \cup {NoToken}
    /\ wrote \subseteq Tokens

(* A writer is fenced by its lease: whoever has written either still holds *)
(* the lease and wrote last, or its lease is over for good.                *)
LeaseFenced ==
    /\ holder \notin retired
    /\ \A t \in wrote : t # holder => t \in retired
    /\ holder \in wrote => writer = holder
    /\ writer # NoToken => writer \in wrote

(* The writes of one call are contiguous in the history of the protected   *)
(* files: once another call has written, the earlier one never writes      *)
(* again, however late its remaining commands arrive.                      *)
ContiguousWrites ==
    [][\A t \in Tokens : (writer # t /\ writer' = t) => t \notin wrote]_leaseVars

-----------------------------------------------------------------------------
(* Proofs.  LeaseTypeOK and LeaseFenced are inductive together: a grant    *)
(* needs a free lease, and then everybody who wrote is retired.            *)

(* Whoever has written holds the lease and wrote last, or its lease is over *)
(* (the fence of lockedCommand in sshdCommitLock.ts).                       *)
THEOREM LeaseFences ==
    ASSUME NoToken \notin Tokens
    PROVE  LeaseSpec => [](LeaseTypeOK /\ LeaseFenced)
<1>1. LeaseInit => LeaseTypeOK /\ LeaseFenced
  BY DEF LeaseInit, LeaseTypeOK, LeaseFenced
<1>2. LeaseTypeOK /\ LeaseFenced /\ [LeaseNext]_leaseVars => (LeaseTypeOK /\ LeaseFenced)'
  <2> SUFFICES ASSUME LeaseTypeOK, LeaseFenced, [LeaseNext]_leaseVars
               PROVE  LeaseTypeOK' /\ LeaseFenced'
    OBVIOUS
  <2>1. ASSUME NEW t \in Tokens, Grant(t) PROVE LeaseTypeOK' /\ LeaseFenced'
    BY <2>1 DEF Grant, LeaseTypeOK, LeaseFenced
  <2>2. ASSUME NEW t \in Tokens, Commit(t) PROVE LeaseTypeOK' /\ LeaseFenced'
    BY <2>2 DEF Commit, LeaseTypeOK, LeaseFenced
  <2>3. ASSUME Revoke PROVE LeaseTypeOK' /\ LeaseFenced'
    BY <2>3 DEF Revoke, LeaseTypeOK, LeaseFenced
  <2>4. CASE UNCHANGED leaseVars
    BY <2>4 DEF leaseVars, LeaseTypeOK, LeaseFenced
  <2>5. QED
    BY <2>1, <2>2, <2>3, <2>4 DEF LeaseNext
<1>3. QED
  BY <1>1, <1>2, PTL DEF LeaseSpec

(* The writes of one call are contiguous: a delayed command of an earlier  *)
(* section never overwrites what a later section wrote.                    *)
THEOREM LeaseWritesContiguously ==
    ASSUME NoToken \notin Tokens
    PROVE  LeaseSpec => ContiguousWrites
<1>1. LeaseTypeOK /\ LeaseFenced /\ [LeaseNext]_leaseVars
         => [\A t \in Tokens : (writer # t /\ writer' = t) => t \notin wrote]_leaseVars
  <2> SUFFICES ASSUME LeaseTypeOK, LeaseFenced, LeaseNext,
                      NEW t \in Tokens, writer # t, writer' = t
               PROVE  t \notin wrote
    BY DEF leaseVars
  <2>1. PICK u \in Tokens : Commit(u)
    BY DEF LeaseNext, Grant, Revoke
  <2>2. holder = t
    BY <2>1 DEF Commit
  <2>3. QED
    BY <2>2 DEF LeaseFenced
<1>2. QED
  BY <1>1, LeaseFences, PTL DEF LeaseSpec, ContiguousWrites

=============================================================================
