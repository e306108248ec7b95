------------------------- MODULE KnownHostsProofs -------------------------
(***************************************************************************)
(* Proofs about KnownHosts, for any number of faults: no key is trusted    *)
(* without evidence, no revoked one is accepted, this process appends at   *)
(* most one key, which stays, and a known key is let through.              *)
(***************************************************************************)
EXTENDS KnownHosts, TLAPS, FiniteSetTheorems

(* What a verifier has found out about the key of a connection it lets     *)
(* through (buildHostVerifier).                                            *)
Sound(c) ==
    LET key == host.server[c].key IN
    /\ ~Has(ctl.conn[c].file, "revoked", key) /\ Pinned(key)
    /\ \/ Has(ctl.conn[c].file, "", key) \/ ctl.conn[c].cached = key \/ host.pin = key
       \/ host.server[c].cert /\ Has(ctl.conn[c].file, "ca", "ca")
       \/ host.mode = "accept-new" /\ ctl.conn[c].fresh

(* Nothing was written and nothing went wrong so far.                      *)
Untouched == faults = 0 /\ host.ours = {}

(* The key of the connection was in the file from the start.               *)
Familiar(c) ==
    /\ Untouched /\ Plausible(c)
    /\ Has(host.file, "", host.server[c].key)

(* known_hosts: what was appended is there; this process appended at most  *)
(* one key; without a fault the host has at most one, and none is revoked  *)
(* that the file had from the start.                                       *)
FileInv ==
    /\ EditsSurvive
    /\ \A key \in host.ours : Has(host.file, "", key)
    /\ \A key, other \in host.ours : key = other
    /\ faults = 0 => \A line, other \in Plain(host.file) : line = other
    /\ Untouched => \A key \in Keys : Has(host.file, "", key) => ~Has(host.file, "revoked", key)

(* The append of a connection: it holds the lock of this process, and what *)
(* it read under the lock is still so, up to what others wrote.            *)
AppendInv(c) == pc[c] = "append" =>
    /\ ctl.lock = c /\ ctl.conn[c].fresh /\ host.ours = {}
    /\ faults = 0 => Plain(host.file) = {}

(* A connection, from its look at the file to its verdict.                 *)
VerdictInv(c) ==
    /\ pc[c] # "done" => ctl.conn[c].result = ""
    /\ ctl.conn[c].evidence = "certificate" => host.server[c].cert
    /\ host.mode # "no" /\ (pc[c] \in {"commit", "append"} \/ Accepted(c)) => Sound(c)
    /\ Accepted(c) /\ ctl.conn[c].fresh => ctl.cache[c] = host.server[c].key /\ (faults = 0 => Has(host.file, "", host.server[c].key))

(* A connection whose key is known, while nothing happens to the file.     *)
FamiliarInv(c) ==
    /\ Untouched /\ host.mode # "no" /\ pc[c] # "load" => ctl.conn[c].file = host.file
    /\ Familiar(c) /\ pc[c] = "commit" => ~ctl.conn[c].fresh
    /\ Familiar(c) /\ pc[c] = "done" => Accepted(c)

(* A connection that saw its key in its cache, and not revoked.            *)
Remembered(c) ==
    Plausible(c) /\ ctl.conn[c].cached = host.server[c].key /\ ~Has(ctl.conn[c].file, "revoked", host.server[c].key)

(* It needs no line, and is not refused.                                   *)
CacheInv(c) == Remembered(c) => ctl.conn[c].result # "refused" /\ (pc[c] \in {"commit", "append"} => ~ctl.conn[c].fresh)

ConnInv(c) == AppendInv(c) /\ VerdictInv(c) /\ FamiliarInv(c) /\ CacheInv(c)

IInv == TypeOK /\ FileInv /\ \A c \in Conns : ConnInv(c)

-----------------------------------------------------------------------------
(* The proof                                                               *)

(* Appending a line adds it to the lines of the file.                      *)
LEMMA AppendAdds ==
  ASSUME NEW file \in Seq(Lines), NEW line \in Lines
  PROVE  /\ Append(file, line) \in Seq(Lines)
         /\ ToSet(Append(file, line)) = ToSet(file) \cup {line}
<1> DEFINE more == Append(file, line)
<1>1. /\ more \in Seq(Lines) /\ Len(more) = Len(file) + 1 /\ Len(file) \in Nat
      /\ \A i \in 1..Len(file) : more[i] = file[i]
      /\ more[Len(file) + 1] = line
      /\ DOMAIN more = 1..Len(more) /\ DOMAIN file = 1..Len(file)
  OBVIOUS
<1> HIDE DEF more
<1>2. ASSUME NEW x \in ToSet(more) PROVE x \in ToSet(file) \cup {line}
  <2>1. PICK i \in 1..Len(more) : x = more[i]
    BY <1>1, <1>2 DEF ToSet
  <2>2. CASE i \in 1..Len(file)
    BY <1>1, <2>1, <2>2 DEF ToSet
  <2>3. CASE i = Len(file) + 1
    BY <1>1, <2>1, <2>3
  <2>4. QED
    BY <1>1, <2>1, <2>2, <2>3
<1>3. ASSUME NEW x \in ToSet(file) \cup {line} PROVE x \in ToSet(more)
  <2>1. CASE x = line
    BY <1>1, <2>1 DEF ToSet
  <2>2. CASE x \in ToSet(file)
    <3>1. PICK i \in 1..Len(file) : x = file[i]
      BY <1>1, <2>2 DEF ToSet
    <3>2. i \in 1..Len(more) /\ x = more[i]
      BY <1>1, <3>1
    <3>3. QED
      BY <1>1, <3>2 DEF ToSet
  <2>3. QED
    BY <1>3, <2>1, <2>2
<1>4. ToSet(more) = ToSet(file) \cup {line}
  BY <1>2, <1>3
<1>5. QED
  BY <1>1, <1>4 DEF more

(* A line with a key of the host is one of the lines a file may have.      *)
LEMMA OwnLines ==
  ASSUME NEW key \in Keys
  PROVE  Line("", key) \in Lines /\ Line("", key).matches /\ Line("", key).marker = ""
BY DEF Keys, Lines, Line

(* A longer file has what the shorter one had.                             *)
LEMMA Lookup ==
  ASSUME NEW file, NEW more, NEW line, ToSet(more) = ToSet(file) \cup {line}
  PROVE  \A marker, key : Has(file, marker, key) => Has(more, marker, key)
BY DEF Has, Matching

(* A key that the file has is one of the host's own keys.                  *)
LEMMA HasIsPlain ==
  ASSUME NEW file, NEW key, Has(file, "", key)
  PROVE  Line("", key) \in Plain(file)
BY DEF Has, Matching, Plain, Line

(* The files known_hosts may be at first have at most one key of the host, *)
(* and do not revoke it.                                                   *)
LEMMA FirstFile ==
  ASSUME NEW file \in FirstFiles
  PROVE  /\ file \in Seq(Lines)
         /\ \A line, other \in Plain(file) : line = other
         /\ \A key \in Keys : Has(file, "", key) => ~Has(file, "revoked", key)
<1>1. /\ Line("", "k1") \in Lines /\ Line("revoked", "k1") \in Lines
      /\ Line("ca", "ca") \in Lines /\ Line("revoked", "ca") \in Lines
      /\ [Line("", "k2") EXCEPT !.matches = FALSE] \in Lines
  BY DEF Lines
<1>2. \/ file = <<>> \/ file = <<Line("", "k1")>> \/ file = <<Line("revoked", "k1")>>
      \/ file = <<[Line("", "k2") EXCEPT !.matches = FALSE]>>
      \/ file = <<Line("ca", "ca")>> \/ file = <<Line("ca", "ca"), Line("revoked", "ca")>>
  BY DEF FirstFiles
<1>3. ASSUME NEW line \in Lines, file = <<line>>
      PROVE  file \in Seq(Lines) /\ ToSet(file) = {line}
  <2>1. file \in Seq(Lines) /\ DOMAIN file = {1} /\ file[1] = line
    BY <1>3
  <2>2. QED
    BY <2>1 DEF ToSet
<1>4. CASE file = <<>>
  BY <1>4 DEF Plain, Has, Matching, ToSet
<1>5. CASE file = <<Line("", "k1")>>
  BY <1>1, <1>3, <1>5 DEF Plain, Has, Matching, Line
<1>6. CASE file = <<Line("revoked", "k1")>>
  BY <1>1, <1>3, <1>6 DEF Plain, Has, Matching, Line
<1>7. CASE file = <<[Line("", "k2") EXCEPT !.matches = FALSE]>>
  BY <1>1, <1>3, <1>7 DEF Plain, Has, Matching, Line
<1>8. CASE file = <<Line("ca", "ca")>>
  BY <1>1, <1>3, <1>8 DEF Plain, Has, Matching, Line
<1>9. CASE file = <<Line("ca", "ca"), Line("revoked", "ca")>>
  <2>1. DOMAIN file = 1..2 /\ file[1] = Line("ca", "ca") /\ file[2] = Line("revoked", "ca")
    BY <1>9
  <2>2. ToSet(file) = {Line("ca", "ca"), Line("revoked", "ca")}
    BY <2>1 DEF ToSet
  <2>3. Line("ca", "ca").marker = "ca" /\ Line("revoked", "ca").marker = "revoked"
    BY DEF Line
  <2>4. Plain(file) = {}
    BY <2>2, <2>3 DEF Plain, Matching
  <2>5. file \in Seq(Lines)
    <3>1. \A line, other \in Lines : <<line, other>> \in Seq(Lines)
      OBVIOUS
    <3>2. QED
      BY <1>1, <1>9, <3>1
  <2>6. \A key \in Keys : ~Has(file, "", key)
    BY <2>4, HasIsPlain
  <2>7. QED
    BY <2>4, <2>5, <2>6
<1>10. QED
  BY <1>2, <1>4, <1>5, <1>6, <1>7, <1>8, <1>9

(* Two connections begin: nothing is read, and nothing is written.         *)
LEMMA InitInv == Init => IInv
<1> SUFFICES ASSUME Init PROVE IInv
  OBVIOUS
<1>1. PICK mode \in {"yes", "accept-new", "no"}, pin \in {"none", "k1"}, server \in [Conns -> [key : Keys, cert : BOOLEAN]],
           file \in FirstFiles :
        host = [mode |-> mode, pin |-> pin, server |-> server, file |-> file, ours |-> {}, theirs |-> {}]
  BY DEF Init
<1>2. /\ faults = 0 /\ \A c \in Conns : pc[c] = "load" /\ ctl.conn[c].result = "" /\ ctl.conn[c].evidence = "none"
      /\ pc \in [Conns -> {"load", "verify", "commit", "append", "done"}]
  BY DEF Init, Unread
<1>3. ctl \in [run : {1}, from : {0}, result : Results, cache : [Conns -> Keys \cup {"none"}], lock : {0} \cup Conns,
               conn : [Conns -> Connection]]
  <2>1. "" \in Results
    BY DEF Results
  <2>2. <<>> \in Seq(Lines)
    OBVIOUS
  <2>3. QED
    BY <2>1, <2>2 DEF Init, Connection, Unread
<1>4. TypeOK
  BY <1>1, <1>2, <1>3, FirstFile DEF TypeOK
<1>5. FileInv
  BY <1>1, FirstFile DEF FileInv, EditsSurvive
<1>6. \A c \in Conns : ConnInv(c)
  BY <1>2 DEF ConnInv, AppendInv, VerdictInv, FamiliarInv, CacheInv, Remembered, Plausible, Accepted
<1>7. QED
  BY <1>4, <1>5, <1>6 DEF IInv

(* A step of one connection that writes nothing to the file leaves what is *)
(* known of the file and of the other connection as it is.                 *)
LEMMA OneConnection ==
  ASSUME IInv, NEW c \in Conns, NEW new \in Connection, NEW cache \in [Conns -> Keys \cup {"none"}], NEW lock \in {0} \cup Conns,
         NEW next \in {"load", "verify", "commit", "append", "done"},
         ctl' = [run |-> ctl.run, from |-> ctl.from, result |-> ctl.result, cache |-> cache, lock |-> lock,
                 conn |-> [ctl.conn EXCEPT ![c] = new]],
         host' = host, pc' = [pc EXCEPT ![c] = next], faults' \in {faults, faults + 1},
         \A d \in Conns : d # c => cache[d] = ctl.cache[d], lock = ctl.lock \/ ctl.lock \in {0, c},
         ConnInv(c)'
  PROVE  IInv'
<1> USE DEF Conns
<1>1. /\ TypeOK' /\ (faults' = 0 => faults = 0)
      /\ host'.file = host.file /\ host'.ours = host.ours /\ host'.theirs = host.theirs
      /\ host'.mode = host.mode /\ host'.server = host.server /\ host'.pin = host.pin
  BY DEF IInv, TypeOK
<1>2. FileInv'
  <2>1. EditsSurvive'
    BY <1>1 DEF IInv, FileInv, EditsSurvive
  <2>2. (\A key \in host.ours : Has(host.file, "", key))' /\ (\A key, other \in host.ours : key = other)'
    BY <1>1 DEF IInv, FileInv
  <2>3. (faults = 0 => \A line, other \in Plain(host.file) : line = other)'
    BY <1>1 DEF IInv, FileInv
  <2>4. (Untouched => \A key \in Keys : Has(host.file, "", key) => ~Has(host.file, "revoked", key))'
    BY <1>1 DEF IInv, FileInv, Untouched
  <2>5. QED
    BY <2>1, <2>2, <2>3, <2>4 DEF FileInv
<1>3. ASSUME NEW d \in Conns, d # c PROVE ConnInv(d)'
  <2>1. /\ pc'[d] = pc[d] /\ ctl'.conn[d] = ctl.conn[d] /\ ctl'.cache[d] = ctl.cache[d] /\ ctl'.lock = lock
        /\ ConnInv(d)
    BY <1>3 DEF IInv, TypeOK
  <2>2. AppendInv(d)'
    BY <1>1, <1>3, <2>1 DEF ConnInv, AppendInv
  <2>3. /\ Accepted(d)' <=> Accepted(d)
        /\ Pinned(host.server[d].key)' <=> Pinned(host.server[d].key)
    BY <1>1, <2>1 DEF Accepted, Pinned
  <2>4. Sound(d)' <=> Sound(d)
    BY <1>1, <2>1, <2>3 DEF Sound
  <2>5. Familiar(d)' => Familiar(d)
    BY <1>1, <2>1, <2>3 DEF Familiar, Plausible, Untouched
  <2>6. VerdictInv(d)'
    BY <1>1, <1>3, <2>1, <2>3, <2>4 DEF ConnInv, VerdictInv
  <2>7. FamiliarInv(d)'
    BY <1>1, <1>3, <2>1, <2>3, <2>5 DEF ConnInv, FamiliarInv, Untouched
  <2>8. CacheInv(d)'
    BY <1>1, <2>1, <2>3 DEF ConnInv, CacheInv, Remembered, Plausible
  <2>9. QED
    BY <2>2, <2>6, <2>7, <2>8 DEF ConnInv
<1>4. QED
  BY <1>1, <1>2, <1>3 DEF IInv

(* A fault is counted.                                                     *)
LEMMA MoreFaults ==
  ASSUME TypeOK, Fault
  PROVE  faults' = faults + 1 /\ faults' \in Nat /\ faults' # 0
BY DEF TypeOK, Fault

(* A connection reads the file and the cache, or fails.                    *)
LEMMA LoadStep == ASSUME IInv, NEW c \in Conns, Load(c) PROVE IInv'
<1>1. /\ TypeOK /\ ConnInv(c) /\ host' = host /\ pc[c] = "load" /\ ctl.conn[c] \in Connection
      /\ host.file \in Seq(Lines) /\ ctl.cache \in [Conns -> Keys \cup {"none"}] /\ ctl.lock \in {0} \cup Conns
  BY DEF IInv, TypeOK, Load
<1>2. CASE Unchecked /\ Go(c, "verify") /\ UNCHANGED <<ctl, faults>>
  <2>1. /\ ctl' = [run |-> ctl.run, from |-> ctl.from, result |-> ctl.result, cache |-> ctl.cache, lock |-> ctl.lock,
                    conn |-> [ctl.conn EXCEPT ![c] = ctl.conn[c]]]
        /\ pc' = [pc EXCEPT ![c] = "verify"] /\ pc'[c] = "verify" /\ ctl' = ctl /\ host.mode = "no" /\ faults' = faults
    BY <1>1, <1>2 DEF TypeOK, Go, Unchecked
  <2>2. ConnInv(c)'
    BY <1>1, <2>1 DEF ConnInv, AppendInv, VerdictInv, FamiliarInv, CacheInv, Remembered, Familiar, Plausible, Accepted
  <2>3. QED
    BY <1>1, <2>1, <2>2, OneConnection
<1>3. CASE /\ ctl' = [ctl EXCEPT !.conn[c].file = host.file, !.conn[c].cached = ctl.cache[c]]
           /\ Go(c, "verify") /\ UNCHANGED faults
  <2> DEFINE new == [ctl.conn[c] EXCEPT !.file = host.file, !.cached = ctl.cache[c]]
  <2>1. new \in Connection /\ new.file = host.file /\ new.result = ctl.conn[c].result /\ new.evidence = ctl.conn[c].evidence
    BY <1>1 DEF Connection
  <2>2. /\ ctl' = [run |-> ctl.run, from |-> ctl.from, result |-> ctl.result, cache |-> ctl.cache, lock |-> ctl.lock,
                    conn |-> [ctl.conn EXCEPT ![c] = new]]
        /\ pc' = [pc EXCEPT ![c] = "verify"] /\ pc'[c] = "verify" /\ faults' = faults /\ ctl'.conn[c] = new
    BY <1>1, <1>3 DEF TypeOK, Go
  <2> HIDE DEF new
  <2>3. ConnInv(c)'
    BY <1>1, <2>1, <2>2 DEF ConnInv, AppendInv, VerdictInv, FamiliarInv, CacheInv, Remembered, Familiar, Plausible, Accepted
  <2>4. QED
    BY <1>1, <2>1, <2>2, <2>3, OneConnection
<1>4. CASE Settle(c, "raised", 0) /\ Fault /\ ctl.lock = 0
  <2> DEFINE new == [ctl.conn[c] EXCEPT !.result = "raised"]
  <2>1. new \in Connection /\ new.result = "raised" /\ new.evidence = ctl.conn[c].evidence
    BY <1>1 DEF Connection, Results
  <2>2. ctl' = [run |-> ctl.run, from |-> ctl.from, result |-> ctl.result, cache |-> ctl.cache, lock |-> 0,
                conn |-> [ctl.conn EXCEPT ![c] = new]]
    BY <1>1, <1>4 DEF TypeOK, Settle
  <2>3. ctl'.conn[c] = new
    BY <1>1, <2>2 DEF TypeOK
  <2>4. pc' = [pc EXCEPT ![c] = "done"] /\ pc'[c] = "done" /\ faults' = faults + 1 /\ faults' # 0
    BY <1>1, <1>4 DEF TypeOK, Settle, Go, Fault
  <2> HIDE DEF new
  <2>5. ConnInv(c)'
    BY <1>1, <2>1, <2>3, <2>4 DEF ConnInv, AppendInv, VerdictInv, FamiliarInv, CacheInv, Remembered, Familiar, Plausible, Untouched, Accepted
  <2>6. QED
    BY <1>1, <1>4, <2>1, <2>2, <2>4, <2>5, OneConnection
<1>5. QED
  BY <1>2, <1>3, <1>4 DEF Load

(* The verifier lets through what it has seen a reason for (Sound), and    *)
(* only a key that the file does not have is new.                          *)
LEMMA VerifyStep == ASSUME IInv, NEW c \in Conns, Verify(c) PROVE IInv'
<1> DEFINE key == host.server[c].key
           cert == host.server[c].cert
           verdict == IF ~cert \/ Unchecked THEN Verdict(c, key)
                      ELSE IF CertificateAccepted(c, key) THEN "certificate" ELSE "refused"
<1>1. /\ TypeOK /\ ConnInv(c) /\ host' = host /\ faults' = faults /\ pc[c] = "verify" /\ ctl.conn[c] \in Connection
      /\ ctl.cache \in [Conns -> Keys \cup {"none"}] /\ ctl.lock \in {0} \cup Conns /\ key \in Keys /\ cert \in BOOLEAN
      /\ host.mode \in {"yes", "accept-new", "no"}
  BY DEF IInv, TypeOK, Verify
<1>2. CASE verdict = "refused"
  <2> DEFINE new == [ctl.conn[c] EXCEPT !.result = "refused"]
  <2>1. new \in Connection /\ new.result = "refused" /\ new.file = ctl.conn[c].file /\ new.cached = ctl.conn[c].cached
        /\ new.evidence = ctl.conn[c].evidence
    BY <1>1 DEF Connection, Results
  <2>2. Settle(c, "refused", ctl.lock)
    BY <1>2 DEF Verify
  <2>3. ctl' = [run |-> ctl.run, from |-> ctl.from, result |-> ctl.result, cache |-> ctl.cache, lock |-> ctl.lock,
                conn |-> [ctl.conn EXCEPT ![c] = new]]
    BY <1>1, <2>2 DEF TypeOK, Settle
  <2>4. ctl'.conn[c] = new
    BY <1>1, <2>3 DEF TypeOK
  <2>5. pc' = [pc EXCEPT ![c] = "done"] /\ pc'[c] = "done"
    BY <1>1, <2>2 DEF TypeOK, Settle, Go
  <2> HIDE DEF new
  <2>6. Familiar(c) => verdict # "refused"
    <3>1. SUFFICES ASSUME Familiar(c) PROVE verdict = "known"
      OBVIOUS
    <3>2. ctl.conn[c].file = host.file
      BY <1>1, <3>1 DEF ConnInv, FamiliarInv, Familiar, Plausible
    <3>3. Has(host.file, "", key) /\ ~Has(host.file, "revoked", key)
      BY <1>1, <3>1 DEF Familiar, Plausible, IInv, FileInv
    <3>4. Known(c, key) = "known"
      BY <3>2, <3>3 DEF Known
    <3>5. QED
      BY <3>1, <3>4 DEF Familiar, Plausible, Verdict
  <2>7. Remembered(c) => verdict # "refused"
    BY DEF Remembered, Plausible, Verdict, Known
  <2>8. ConnInv(c)'
    <3>1. AppendInv(c)' /\ VerdictInv(c)'
      BY <1>1, <2>1, <2>4, <2>5 DEF ConnInv, AppendInv, VerdictInv, Accepted
    <3>2. FamiliarInv(c)'
      BY <1>1, <1>2, <2>1, <2>4, <2>5, <2>6 DEF ConnInv, FamiliarInv, Familiar, Plausible, Untouched, Pinned
    <3>3. CacheInv(c)'
      BY <1>1, <1>2, <2>1, <2>4, <2>5, <2>7 DEF CacheInv, Remembered, Plausible, Pinned
    <3>4. QED
      BY <3>1, <3>2, <3>3 DEF ConnInv
  <2>9. QED
    BY <1>1, <2>1, <2>3, <2>5, <2>8, OneConnection
<1>3. CASE verdict # "refused"
  <2> DEFINE new == [ctl.conn[c] EXCEPT !.fresh = (verdict = "new"),
                       !.evidence = IF verdict = "certificate" THEN verdict
                                    ELSE IF verdict = "unchecked" THEN "none" ELSE "key"]
  <2>1. /\ new \in Connection /\ new.result = ctl.conn[c].result /\ new.file = ctl.conn[c].file /\ new.cached = ctl.conn[c].cached
        /\ new.fresh = (verdict = "new") /\ (new.evidence = "certificate" => verdict = "certificate")
    <3> HIDE DEF verdict
    <3>1. QED
      BY <1>1 DEF Connection
  <2>2. /\ ctl' = [ctl EXCEPT !.conn[c].fresh = (verdict = "new"),
                              !.conn[c].evidence = IF verdict = "certificate" THEN verdict
                                                   ELSE IF verdict = "unchecked" THEN "none" ELSE "key"]
        /\ Go(c, "commit")
    BY <1>3 DEF Verify
  <2>3. ctl' = [run |-> ctl.run, from |-> ctl.from, result |-> ctl.result, cache |-> ctl.cache, lock |-> ctl.lock,
                conn |-> [ctl.conn EXCEPT ![c] = new]]
    <3> HIDE DEF verdict
    <3>1. QED
      BY <1>1, <2>2 DEF TypeOK
  <2> HIDE DEF new
  <2>4. ctl'.conn[c] = new
    BY <1>1, <2>3 DEF TypeOK
  <2>5. pc' = [pc EXCEPT ![c] = "commit"] /\ pc'[c] = "commit"
    BY <1>1, <2>2 DEF TypeOK, Go
  <2>6. host.mode # "no" => /\ ~Has(ctl.conn[c].file, "revoked", key) /\ Pinned(key)
                            /\ \/ Has(ctl.conn[c].file, "", key) \/ ctl.conn[c].cached = key \/ host.pin = key
                               \/ cert /\ Has(ctl.conn[c].file, "ca", "ca")
                               \/ host.mode = "accept-new" /\ verdict = "new"
    <3>1. CASE cert
      BY <1>3, <3>1 DEF CertificateAccepted, Unchecked
    <3>2. CASE ~cert
      BY <1>1, <1>3, <3>2 DEF Verdict, Known, Pinned
    <3>3. QED
      BY <1>1, <3>1, <3>2
  <2>7. Sound(c)' <=> /\ ~Has(ctl.conn[c].file, "revoked", key) /\ Pinned(key)
                      /\ \/ Has(ctl.conn[c].file, "", key) \/ ctl.conn[c].cached = key \/ host.pin = key
                         \/ cert /\ Has(ctl.conn[c].file, "ca", "ca")
                         \/ host.mode = "accept-new" /\ verdict = "new"
    <3> HIDE DEF verdict
    <3>1. QED
      BY <1>1, <2>1, <2>4 DEF Sound, Pinned
  <2>8. Familiar(c) => verdict # "new"
    <3>1. SUFFICES ASSUME Familiar(c) PROVE verdict = "known"
      OBVIOUS
    <3>2. ctl.conn[c].file = host.file
      BY <1>1, <3>1 DEF ConnInv, FamiliarInv, Familiar, Plausible
    <3>3. Has(host.file, "", key) /\ ~Has(host.file, "revoked", key)
      BY <1>1, <3>1 DEF Familiar, Plausible, IInv, FileInv
    <3>4. Known(c, key) = "known"
      BY <3>2, <3>3 DEF Known
    <3>5. QED
      BY <3>1, <3>4 DEF Familiar, Plausible, Verdict
  <2>9. verdict = "certificate" => cert
    BY DEF Verdict
  <2>10. Remembered(c) => verdict # "new"
    BY DEF Remembered, Plausible, Verdict, Known
  <2>11. ConnInv(c)'
    <3> HIDE DEF verdict
    <3>1. AppendInv(c)'
      BY <2>5 DEF AppendInv
    <3>2. VerdictInv(c)'
      BY <1>1, <2>1, <2>4, <2>5, <2>6, <2>7, <2>9 DEF ConnInv, VerdictInv, Accepted
    <3>3. FamiliarInv(c)'
      BY <1>1, <2>1, <2>4, <2>5, <2>8 DEF ConnInv, FamiliarInv, Familiar, Plausible, Untouched, Pinned
    <3>4. CacheInv(c)'
      BY <1>1, <2>1, <2>4, <2>5, <2>10 DEF ConnInv, CacheInv, Remembered, Plausible, VerdictInv, Pinned
    <3>5. QED
      BY <3>1, <3>2, <3>3, <3>4 DEF ConnInv
  <2>12. QED
    BY <1>1, <2>1, <2>3, <2>5, <2>11, OneConnection
<1>4. QED
  BY <1>2, <1>3

(* A key that is known is accepted without a line.                         *)
LEMMA AcceptStep == ASSUME IInv, NEW c \in Conns, Accept(c) PROVE IInv'
<1> DEFINE new == [ctl.conn[c] EXCEPT !.result = "changed"]
<1>1. /\ TypeOK /\ ConnInv(c) /\ host' = host /\ faults' = faults /\ pc[c] = "commit" /\ ctl.conn[c] \in Connection
      /\ ctl.cache \in [Conns -> Keys \cup {"none"}] /\ ctl.lock \in {0} \cup Conns /\ ~ctl.conn[c].fresh
  BY DEF IInv, TypeOK, Accept
<1>2. /\ new \in Connection /\ new.result = "changed" /\ new.file = ctl.conn[c].file /\ new.cached = ctl.conn[c].cached
      /\ new.fresh = ctl.conn[c].fresh /\ new.evidence = ctl.conn[c].evidence
  BY <1>1 DEF Connection, Results
<1>3. ctl' = [run |-> ctl.run, from |-> ctl.from, result |-> ctl.result, cache |-> ctl.cache, lock |-> ctl.lock,
              conn |-> [ctl.conn EXCEPT ![c] = new]]
  BY <1>1 DEF TypeOK, Accept, Settle
<1>4. ctl'.conn[c] = new
  BY <1>1, <1>3 DEF TypeOK
<1>5. pc' = [pc EXCEPT ![c] = "done"] /\ pc'[c] = "done"
  BY <1>1 DEF TypeOK, Accept, Settle, Go
<1> HIDE DEF new
<1>6. Sound(c)' <=> Sound(c)
  BY <1>1, <1>2, <1>4 DEF Sound, Pinned
<1>7. ConnInv(c)'
  BY <1>1, <1>2, <1>4, <1>5, <1>6
     DEF ConnInv, AppendInv, VerdictInv, FamiliarInv, CacheInv, Remembered, Familiar, Plausible, Untouched, Accepted, Pinned
<1>8. QED
  BY <1>1, <1>2, <1>3, <1>5, <1>7, OneConnection

(* A new key: somebody wrote it in the meantime, or the directory of the   *)
(* file cannot be made and the key is cached; somebody wrote another one;  *)
(* it is appended; or the file cannot be read any more.                    *)
LEMMA CommitStep == ASSUME IInv, NEW c \in Conns, Commit(c) PROVE IInv'
<1> DEFINE key == host.server[c].key
           new(result) == [ctl.conn[c] EXCEPT !.result = result]
<1>1. /\ TypeOK /\ ConnInv(c) /\ host' = host /\ pc[c] = "commit" /\ ctl.conn[c] \in Connection /\ faults \in Nat
      /\ ctl.cache \in [Conns -> Keys \cup {"none"}] /\ ctl.lock = 0 /\ ctl.conn[c].fresh /\ key \in Keys
      /\ \A k \in host.ours : Has(host.file, "", k)
  BY DEF IInv, FileInv, TypeOK, Commit
<1>2. ASSUME NEW result \in {"", "changed", "refused", "raised"}
      PROVE  /\ new(result) \in Connection /\ new(result).result = result /\ new(result).file = ctl.conn[c].file
             /\ new(result).cached = ctl.conn[c].cached /\ new(result).fresh
             /\ new(result).evidence = ctl.conn[c].evidence
  BY <1>1, <1>2 DEF Connection, Results
<1>3. CASE /\ (Has(host.file, "", key) /\ UNCHANGED faults) \/ Fault
           /\ ctl' = [ctl EXCEPT !.cache[c] = key, !.conn[c].result = "changed"] /\ Go(c, "done")
  <2>1. ctl' = [run |-> ctl.run, from |-> ctl.from, result |-> ctl.result, cache |-> [ctl.cache EXCEPT ![c] = key], lock |-> ctl.lock,
                conn |-> [ctl.conn EXCEPT ![c] = new("changed")]]
    BY <1>1, <1>3 DEF TypeOK
  <2>2. ctl'.conn[c] = new("changed") /\ ctl'.cache[c] = key /\ key # "none"
    BY <1>1, <2>1 DEF TypeOK, Keys
  <2>3. pc' = [pc EXCEPT ![c] = "done"] /\ pc'[c] = "done"
    BY <1>1, <1>3 DEF TypeOK, Go
  <2> HIDE DEF new
  <2>4. Sound(c)' <=> Sound(c)
    BY <1>1, <1>2, <2>2 DEF Sound, Pinned
  <2>5. ConnInv(c)'
    <3> DEFINE now == new("changed")
    <3>1. /\ now.result = "changed" /\ now.file = ctl.conn[c].file /\ now.cached = ctl.conn[c].cached /\ now.fresh
          /\ now.evidence = ctl.conn[c].evidence /\ ctl'.conn[c] = now
      BY <1>2, <2>2
    <3>2. /\ host'.file = host.file /\ host'.mode = host.mode /\ host'.server = host.server
          /\ faults' = 0 => faults = 0 /\ Has(host.file, "", key)
      BY <1>1, <1>3, MoreFaults
    <3> HIDE DEF now
    <3>3. AppendInv(c)' /\ VerdictInv(c)'
      BY <1>1, <2>2, <2>3, <2>4, <3>1, <3>2 DEF ConnInv, AppendInv, VerdictInv, Accepted
    <3>4. FamiliarInv(c)'
      BY <1>1, <2>3, <3>1, <3>2 DEF ConnInv, FamiliarInv, Familiar, Plausible, Untouched, Accepted, Pinned
    <3>5. CacheInv(c)'
      BY <1>1, <2>3, <3>1 DEF CacheInv
    <3>6. QED
      BY <3>3, <3>4, <3>5 DEF ConnInv
  <2>6. /\ new("changed") \in Connection /\ [ctl.cache EXCEPT ![c] = key] \in [Conns -> Keys \cup {"none"}] /\ faults' \in {faults, faults + 1}
        /\ ctl.lock \in {0} \cup Conns
    BY <1>1, <1>2, <1>3, MoreFaults
  <2>7. QED
    <3> HIDE DEF key
    <3>1. QED
      BY <1>1, <2>1, <2>2, <2>3, <2>5, <2>6, OneConnection
<1>4. CASE ~Has(host.file, "", key) /\ Settle(c, "refused", 0) /\ UNCHANGED faults
  <2>1. ctl' = [run |-> ctl.run, from |-> ctl.from, result |-> ctl.result, cache |-> ctl.cache, lock |-> 0,
                conn |-> [ctl.conn EXCEPT ![c] = new("refused")]]
    BY <1>1, <1>4 DEF TypeOK, Settle
  <2>2. ctl'.conn[c] = new("refused")
    BY <1>1, <2>1 DEF TypeOK
  <2>3. pc' = [pc EXCEPT ![c] = "done"] /\ pc'[c] = "done"
    BY <1>1, <1>4 DEF TypeOK, Settle, Go
  <2> HIDE DEF new
  <2>4. /\ new("refused") \in Connection /\ new("refused").result = "refused" /\ new("refused").file = ctl.conn[c].file
        /\ new("refused").cached = ctl.conn[c].cached /\ new("refused").evidence = ctl.conn[c].evidence
    BY <1>2
  <2>5. ConnInv(c)'
    <3>1. AppendInv(c)' /\ VerdictInv(c)'
      BY <1>1, <2>2, <2>3, <2>4 DEF ConnInv, AppendInv, VerdictInv, Accepted
    <3>2. FamiliarInv(c)'
      BY <1>1, <1>4, <2>2, <2>3, <2>4 DEF ConnInv, FamiliarInv, Familiar, Plausible, Untouched, Pinned
    <3>3. CacheInv(c)'
      BY <1>1, <2>2, <2>3, <2>4 DEF ConnInv, CacheInv, Remembered, Plausible, Pinned
    <3>4. QED
      BY <3>1, <3>2, <3>3 DEF ConnInv
  <2>6. QED
    BY <1>1, <1>4, <2>1, <2>3, <2>4, <2>5, OneConnection
<1>5. CASE Plain(host.file) = {} /\ ctl' = [ctl EXCEPT !.lock = c] /\ Go(c, "append") /\ UNCHANGED faults
  <2>1. ctl' = [run |-> ctl.run, from |-> ctl.from, result |-> ctl.result, cache |-> ctl.cache, lock |-> c,
                conn |-> [ctl.conn EXCEPT ![c] = ctl.conn[c]]]
    BY <1>1, <1>5 DEF TypeOK
  <2>2. ctl'.conn[c] = ctl.conn[c] /\ ctl'.lock = c
    BY <1>1, <2>1 DEF TypeOK
  <2>3. pc' = [pc EXCEPT ![c] = "append"] /\ pc'[c] = "append"
    BY <1>1, <1>5 DEF TypeOK, Go
  <2>4. host.ours = {}
    BY <1>1, <1>5, HasIsPlain
  <2>5. Sound(c)' <=> Sound(c)
    BY <1>1, <2>2 DEF Sound, Pinned
  <2>6. ConnInv(c)'
    BY <1>1, <1>5, <2>2, <2>3, <2>4, <2>5
       DEF ConnInv, AppendInv, VerdictInv, FamiliarInv, CacheInv, Remembered, Familiar, Plausible, Untouched, Accepted, Pinned
  <2>7. c \in {0} \cup Conns /\ ctl.lock \in {0, c} /\ faults' \in {faults, faults + 1}
    BY <1>1, <1>5
  <2>8. QED
    BY <1>1, <2>1, <2>3, <2>6, <2>7, OneConnection
<1>6. CASE Settle(c, "raised", 0) /\ Fault
  <2>1. ctl' = [run |-> ctl.run, from |-> ctl.from, result |-> ctl.result, cache |-> ctl.cache, lock |-> 0,
                conn |-> [ctl.conn EXCEPT ![c] = new("raised")]]
    BY <1>1, <1>6 DEF TypeOK, Settle
  <2>2. ctl'.conn[c] = new("raised")
    BY <1>1, <2>1 DEF TypeOK
  <2>3. pc' = [pc EXCEPT ![c] = "done"] /\ pc'[c] = "done"
    BY <1>1, <1>6 DEF TypeOK, Settle, Go
  <2> HIDE DEF new
  <2>4. /\ new("raised") \in Connection /\ new("raised").result = "raised"
        /\ new("raised").evidence = ctl.conn[c].evidence
    BY <1>2
  <2>5. faults' = faults + 1 /\ faults' # 0
    BY <1>1, <1>6, MoreFaults
  <2>6. ConnInv(c)'
    BY <1>1, <2>2, <2>3, <2>4, <2>5
       DEF ConnInv, AppendInv, VerdictInv, FamiliarInv, CacheInv, Remembered, Familiar, Plausible, Untouched, Accepted
  <2>7. QED
    BY <1>1, <2>1, <2>3, <2>4, <2>5, <2>6, OneConnection
<1>7. QED
  BY <1>3, <1>4, <1>5, <1>6 DEF Commit

(* An rsync of the connection looks for revocations since.                 *)
LEMMA RsyncStep == ASSUME IInv, NEW c \in Conns, Rsync(c) PROVE IInv'
<1> DEFINE key == host.server[c].key
           by == IF ctl.conn[c].evidence = "certificate" THEN {key, "ca"} ELSE {key}
           new(result) == [ctl.conn[c] EXCEPT !.result = result]
<1>1. /\ TypeOK /\ ConnInv(c) /\ host' = host /\ pc' = pc /\ pc[c] = "done" /\ ctl.conn[c] \in Connection /\ faults \in Nat
      /\ ctl.cache \in [Conns -> Keys \cup {"none"}] /\ ctl.lock = 0 /\ ctl.conn[c].result = "changed" /\ key \in Keys
      /\ pc' = [pc EXCEPT ![c] = "done"]
  BY DEF IInv, TypeOK, Rsync
<1>2. PICK result \in {"ok", "diverged", "raised"} :
         /\ ctl' = [ctl EXCEPT !.conn[c].result = result]
         /\ \/ faults' = faults /\ (result # "ok" => \E k \in by : Has(host.file, "revoked", k))
            \/ faults' = faults + 1
  <2>1. CASE /\ UNCHANGED faults
             /\ ctl' = [ctl EXCEPT !.conn[c].result = IF \E k \in by : Has(host.file, "revoked", k) THEN "diverged" ELSE "ok"]
    <3>1. CASE \E k \in by : Has(host.file, "revoked", k)
      BY <2>1, <3>1
    <3>2. CASE ~\E k \in by : Has(host.file, "revoked", k)
      BY <2>1, <3>2
    <3>3. QED
      BY <3>1, <3>2
  <2>2. CASE Fault /\ ctl' = [ctl EXCEPT !.conn[c].result = "raised"]
    BY <2>2 DEF Fault
  <2>3. QED
    BY <2>1, <2>2 DEF Rsync
<1>3. /\ new(result) \in Connection /\ new(result).result = result /\ new(result).file = ctl.conn[c].file
      /\ new(result).cached = ctl.conn[c].cached /\ new(result).fresh = ctl.conn[c].fresh
      /\ new(result).evidence = ctl.conn[c].evidence
  BY <1>1, <1>2 DEF Connection, Results
<1>4. ctl' = [run |-> ctl.run, from |-> ctl.from, result |-> ctl.result, cache |-> ctl.cache, lock |-> ctl.lock,
              conn |-> [ctl.conn EXCEPT ![c] = new(result)]]
  BY <1>1, <1>2 DEF TypeOK
<1>5. ctl'.conn[c] = new(result) /\ ctl'.cache = ctl.cache
  BY <1>1, <1>4 DEF TypeOK
<1> HIDE DEF new
<1>6. Sound(c)' <=> Sound(c)
  BY <1>1, <1>3, <1>5 DEF Sound, Pinned
<1>7. Familiar(c) /\ faults' = 0 => result = "ok"
  <2>1. SUFFICES ASSUME Familiar(c), faults' = 0, result # "ok" PROVE FALSE
    OBVIOUS
  <2>2. PICK k \in by : Has(host.file, "revoked", k)
    BY <1>1, <1>2, <2>1
  <2>3. Has(host.file, "", key) /\ ~Has(host.file, "revoked", key)
    BY <1>1, <1>2, <2>1 DEF Familiar, Plausible, IInv, FileInv
  <2>4. ctl.conn[c].evidence # "certificate"
    BY <1>1, <2>1 DEF Familiar, Plausible, ConnInv, VerdictInv
  <2>5. QED
    BY <2>2, <2>3, <2>4
<1>8. (faults' = 0 => faults = 0) /\ faults' \in {faults, faults + 1} /\ pc'[c] = "done"
  BY <1>1, <1>2
<1>9. ConnInv(c)'
  <2>1. AppendInv(c)'
    BY <1>8 DEF AppendInv
  <2>2. VerdictInv(c)'
    BY <1>1, <1>3, <1>5, <1>6, <1>8 DEF ConnInv, VerdictInv, Accepted
  <2>3. FamiliarInv(c)'
    BY <1>1, <1>3, <1>5, <1>7, <1>8 DEF ConnInv, FamiliarInv, Familiar, Plausible, Untouched, Accepted, Pinned
  <2>4. CacheInv(c)'
    BY <1>1, <1>2, <1>3, <1>5, <1>8 DEF ConnInv, CacheInv, Remembered, Plausible, Pinned
  <2>5. QED
    BY <2>1, <2>2, <2>3, <2>4 DEF ConnInv
<1>10. ctl.lock \in {0} \cup Conns
  BY <1>1
<1>11. QED
  BY <1>1, <1>3, <1>4, <1>8, <1>9, <1>10, OneConnection

(* A connection that drops begins anew, and keeps its cache.               *)
LEMMA ReconnectStep == ASSUME IInv, NEW c \in Conns, Reconnect(c) PROVE IInv'
<1>1. /\ TypeOK /\ ConnInv(c) /\ host' = host /\ pc[c] = "done" /\ ctl.cache \in [Conns -> Keys \cup {"none"}]
      /\ ctl.lock \in {0} \cup Conns
  BY DEF IInv, TypeOK, Reconnect
<1>2. /\ Unread \in Connection /\ Unread.result = "" /\ Unread.evidence = "none"
  <2>1. <<>> \in Seq(Lines) /\ "" \in Results
    BY DEF Results
  <2>2. QED
    BY <2>1 DEF Unread, Connection
<1>3. ctl' = [run |-> ctl.run, from |-> ctl.from, result |-> ctl.result, cache |-> ctl.cache, lock |-> ctl.lock,
              conn |-> [ctl.conn EXCEPT ![c] = Unread]]
  BY <1>1 DEF TypeOK, Reconnect
<1>4. ctl'.conn[c] = Unread
  BY <1>1, <1>3 DEF TypeOK
<1>5. pc' = [pc EXCEPT ![c] = "load"] /\ pc'[c] = "load" /\ faults' = faults + 1 /\ faults' # 0
  BY <1>1, MoreFaults DEF TypeOK, Reconnect, Go
<1>6. ConnInv(c)'
  BY <1>1, <1>2, <1>4, <1>5 DEF ConnInv, AppendInv, VerdictInv, FamiliarInv, CacheInv, Familiar, Untouched, Accepted
<1>7. QED
  BY <1>1, <1>2, <1>3, <1>5, <1>6, OneConnection

(* The append under the lock of this process: the first one it makes, and  *)
(* without a fault the only key of the host.                               *)
LEMMA AppendStep == ASSUME IInv, NEW c \in Conns, AppendKey(c) PROVE IInv'
<1> DEFINE key == host.server[c].key
           new == [ctl.conn[c] EXCEPT !.result = "changed"]
<1>1. /\ TypeOK /\ FileInv /\ ConnInv(c) /\ pc[c] = "append" /\ ctl.conn[c] \in Connection
      /\ ctl.lock = c /\ ctl.conn[c].fresh /\ host.ours = {} /\ (faults = 0 => Plain(host.file) = {})
      /\ key \in Keys /\ key # "none" /\ 0 \notin Conns
  BY DEF IInv, TypeOK, ConnInv, AppendInv, AppendKey, Keys, Conns
<1>2. /\ new \in Connection /\ new.result = "changed" /\ new.file = ctl.conn[c].file /\ new.cached = ctl.conn[c].cached
      /\ new.fresh /\ new.evidence = ctl.conn[c].evidence
  BY <1>1 DEF Connection, Results
<1>3. ctl' = [run |-> ctl.run, from |-> ctl.from, result |-> ctl.result, cache |-> [ctl.cache EXCEPT ![c] = key], lock |-> 0,
              conn |-> [ctl.conn EXCEPT ![c] = new]]
  BY <1>1 DEF TypeOK, AppendKey
<1>4. ctl'.conn[c] = new /\ ctl'.cache[c] = key /\ ctl'.lock = 0 /\ \A d \in Conns : d # c => ctl'.conn[d] = ctl.conn[d]
  BY <1>1, <1>3 DEF TypeOK
<1>5. pc' = [pc EXCEPT ![c] = "done"] /\ pc'[c] = "done" /\ \A d \in Conns : d # c => pc'[d] = pc[d]
  BY <1>1 DEF TypeOK, AppendKey, Go
<1> HIDE DEF new
<1>6. CASE UNCHANGED host /\ Fault
  <2>1. faults' = faults + 1 /\ host' = host
    BY <1>1, <1>6, MoreFaults
  <2>2. faults' # 0
    BY <1>1, <1>6, MoreFaults
  <2>3. Sound(c)' <=> Sound(c)
    BY <1>2, <1>4, <1>1, <2>1 DEF Sound, Pinned
  <2>4. ConnInv(c)'
    BY <1>1, <1>2, <1>4, <1>5, <2>1, <2>2, <2>3
       DEF ConnInv, AppendInv, VerdictInv, FamiliarInv, CacheInv, Remembered, Familiar, Plausible, Untouched, Accepted
  <2>5. /\ [ctl.cache EXCEPT ![c] = key] \in [Conns -> Keys \cup {"none"}]
        /\ \A d \in Conns : d # c => [ctl.cache EXCEPT ![c] = key][d] = ctl.cache[d]
        /\ 0 \in {0} \cup Conns /\ ctl.lock \in {0, c} /\ faults' \in {faults, faults + 1}
    BY <1>1, <2>1 DEF TypeOK
  <2>6. QED
    <3> HIDE DEF key
    <3>1. QED
      BY <1>1, <1>2, <1>3, <1>5, <2>1, <2>4, <2>5, OneConnection
<1>7. CASE host' = [host EXCEPT !.file = Append(@, Line("", key)), !.ours = @ \cup {key}] /\ UNCHANGED faults
  <2>1. /\ host'.file = Append(host.file, Line("", key)) /\ host'.ours = {key} /\ host'.theirs = host.theirs
        /\ host'.mode = host.mode /\ host'.pin = host.pin /\ host'.server = host.server /\ faults' = faults
    BY <1>1, <1>7 DEF TypeOK
  <2>2. host.file \in Seq(Lines) /\ Line("", key) \in Lines /\ Line("", key).matches
    BY <1>1, OwnLines DEF TypeOK
  <2>3. host'.file \in Seq(Lines) /\ ToSet(host'.file) = ToSet(host.file) \cup {Line("", key)}
    BY <2>1, <2>2, AppendAdds
  <2>4. /\ \A marker, k : Has(host.file, marker, k) => Has(host'.file, marker, k)
        /\ Plain(host'.file) \subseteq Plain(host.file) \cup {Line("", key)}
    <3> HIDE DEF key
    <3>1. QED
      BY <2>3, Lookup DEF Has, Matching, Plain
  <2>5. Has(host'.file, "", key)
    BY <2>2, <2>3 DEF Has, Matching
  <2>6. TypeOK'
    <3>1. host' \in [mode : {"yes", "accept-new", "no"}, pin : {"none", "k1"}, server : [Conns -> [key : Keys, cert : BOOLEAN]],
                     file : Seq(Lines), ours : SUBSET Keys, theirs : SUBSET Lines]
      BY <1>1, <1>7, <2>1, <2>3 DEF TypeOK
    <3>2. ctl' \in [run : {1}, from : {0}, result : Results, cache : [Conns -> Keys \cup {"none"}], lock : {0} \cup Conns,
                    conn : [Conns -> Connection]]
      BY <1>1, <1>2, <1>3 DEF TypeOK
    <3>3. QED
      BY <1>1, <1>5, <2>1, <3>1, <3>2 DEF TypeOK
  <2>7. FileInv'
    <3>1. EditsSurvive'
      BY <1>1, <2>1, <2>3 DEF FileInv, EditsSurvive
    <3>2. (\A k \in host.ours : Has(host.file, "", k))' /\ (\A k, other \in host.ours : k = other)'
      BY <2>1, <2>5
    <3>3. (faults = 0 => \A line, other \in Plain(host.file) : line = other)'
      BY <1>1, <2>1, <2>4
    <3>4. ~Untouched'
      BY <2>1 DEF Untouched
    <3>5. QED
      BY <3>1, <3>2, <3>3, <3>4 DEF FileInv
  <2>8. ConnInv(c)'
    <3>1. Sound(c)' <=> Sound(c)
      BY <1>1, <1>2, <1>4, <2>1 DEF Sound, Pinned
    <3>2. QED
      BY <1>1, <1>2, <1>4, <1>5, <2>1, <2>5, <3>1
         DEF ConnInv, AppendInv, VerdictInv, FamiliarInv, CacheInv, Remembered, Familiar, Plausible, Untouched, Accepted
  <2>9. ASSUME NEW d \in Conns, d # c PROVE ConnInv(d)'
    <3>1. ConnInv(d) /\ pc'[d] = pc[d] /\ ctl'.conn[d] = ctl.conn[d]
      BY <1>4, <1>5, <2>9 DEF IInv
    <3>2. pc[d] # "append"
      BY <1>1, <2>9, <3>1 DEF ConnInv, AppendInv
    <3>3. (Sound(d)' <=> Sound(d)) /\ (Accepted(d)' <=> Accepted(d))
      BY <2>1, <3>1 DEF Sound, Pinned, Accepted
    <3>4. AppendInv(d)'
      BY <3>1, <3>2 DEF AppendInv
    <3>5. VerdictInv(d)'
      <4>1. ctl'.cache[d] = ctl.cache[d]
        BY <1>3, <2>9
      <4>2. QED
        BY <1>1, <2>1, <2>4, <3>1, <3>3, <4>1 DEF ConnInv, VerdictInv
    <3>6. FamiliarInv(d)'
      BY <2>1 DEF FamiliarInv, Familiar, Plausible, Untouched
    <3>7. CacheInv(d)'
      BY <2>1, <3>1, <3>3 DEF ConnInv, CacheInv, Remembered, Plausible, Pinned
    <3>8. QED
      BY <3>4, <3>5, <3>6, <3>7 DEF ConnInv
  <2>10. QED
    BY <2>6, <2>7, <2>8, <2>9 DEF IInv
<1>8. QED
  BY <1>6, <1>7 DEF AppendKey

(* A line of another process takes nothing away.                           *)
LEMMA ElsewhereStep == ASSUME IInv, Elsewhere PROVE IInv'
<1>1. PICK line \in {Line("", "k2"), Line("revoked", "k1")} :
         host' = [host EXCEPT !.file = Append(@, line), !.theirs = @ \cup {line}]
  BY DEF Elsewhere
<1>2. /\ TypeOK /\ FileInv /\ ctl' = ctl /\ pc' = pc /\ host.file \in Seq(Lines) /\ line \in Lines
  BY DEF IInv, TypeOK, Elsewhere, Lines
<1>3. faults' \in Nat /\ faults' # 0
  BY <1>2, MoreFaults DEF Elsewhere
<1>4. /\ host'.file = Append(host.file, line) /\ host'.theirs = host.theirs \cup {line} /\ host'.ours = host.ours
      /\ host'.mode = host.mode /\ host'.pin = host.pin /\ host'.server = host.server
  BY <1>1, <1>2 DEF TypeOK
<1>5. host'.file \in Seq(Lines) /\ ToSet(host'.file) = ToSet(host.file) \cup {line}
  BY <1>2, <1>4, AppendAdds
<1>6. \A marker, k : Has(host.file, marker, k) => Has(host'.file, marker, k)
  BY <1>5, Lookup
<1>7. TypeOK'
  BY <1>1, <1>2, <1>3, <1>4, <1>5 DEF TypeOK
<1>8. FileInv'
  <2>1. EditsSurvive'
    BY <1>2, <1>4, <1>5 DEF FileInv, EditsSurvive
  <2>2. (\A k \in host.ours : Has(host.file, "", k))' /\ (\A k, other \in host.ours : k = other)'
    BY <1>2, <1>4, <1>6 DEF FileInv
  <2>3. QED
    BY <1>3, <2>1, <2>2 DEF FileInv, Untouched
<1>9. ASSUME NEW d \in Conns PROVE ConnInv(d)'
  <2>1. ConnInv(d)
    BY DEF IInv
  <2>2. (Sound(d)' <=> Sound(d)) /\ (Accepted(d)' <=> Accepted(d))
    BY <1>2, <1>4 DEF Sound, Pinned, Accepted
  <2>3. AppendInv(d)' /\ FamiliarInv(d)'
    BY <1>2, <1>3, <1>4, <2>1 DEF ConnInv, AppendInv, FamiliarInv, Familiar, Plausible, Untouched
  <2>4. VerdictInv(d)'
    BY <1>2, <1>3, <1>4, <2>1, <2>2 DEF ConnInv, VerdictInv
  <2>5. CacheInv(d)'
    BY <1>2, <1>4, <2>1, <2>2 DEF ConnInv, CacheInv, Remembered, Plausible, Pinned
  <2>6. QED
    BY <2>3, <2>4, <2>5 DEF ConnInv
<1>10. QED
  BY <1>7, <1>8, <1>9 DEF IInv

(* The invariant is kept by every step of both connections and of other    *)
(* processes.                                                              *)
LEMMA Invariant == Spec => []IInv
<1>1. IInv /\ [Next]_vars => IInv'
  <2> SUFFICES ASSUME IInv, [Next]_vars PROVE IInv'
    OBVIOUS
  <2>1. CASE \E c \in Conns : Load(c) \/ Verify(c) \/ Accept(c) \/ Commit(c) \/ AppendKey(c) \/ Rsync(c) \/ Reconnect(c)
    BY <2>1, LoadStep, VerifyStep, AcceptStep, CommitStep, AppendStep, RsyncStep, ReconnectStep
  <2>2. CASE Elsewhere
    BY <2>2, ElsewhereStep
  <2>3. CASE UNCHANGED vars
    <3>1. host' = host /\ ctl' = ctl /\ pc' = pc /\ faults' = faults
      BY <2>3 DEF vars
    <3>2. TypeOK' /\ FileInv'
      BY <3>1 DEF IInv, TypeOK, FileInv, EditsSurvive, Untouched
    <3>3. ASSUME NEW c \in Conns PROVE ConnInv(c)'
      BY <3>1
         DEF IInv, ConnInv, AppendInv, VerdictInv, FamiliarInv, CacheInv, Remembered, Familiar, Plausible, Untouched, Accepted, Sound,
             Pinned
    <3>4. QED
      BY <3>2, <3>3 DEF IInv
  <2>4. QED
    BY <2>1, <2>2, <2>3 DEF Next
<1>2. QED
  BY InitInv, <1>1, PTL DEF Spec

(* A connection is accepted for a reason that its verifier saw and never   *)
(* against a revocation it read, a process adds no second key of a host,   *)
(* two first uses without a fault agree, and the lines of other processes  *)
(* stay.                                                                   *)
THEOREM TrustIsEarned == Spec => [](ReportsAreTrue /\ EditsSurvive)
<1>1. IInv => ReportsAreTrue
  <2> SUFFICES ASSUME IInv PROVE ReportsAreTrue
    OBVIOUS
  <2>1. ASSUME NEW c \in Conns, Accepted(c), host.mode # "no"
        PROVE  LET key == host.server[c].key IN
               /\ ~Has(ctl.conn[c].file, "revoked", key) /\ Pinned(key)
               /\ \/ Has(ctl.conn[c].file, "", key) \/ ctl.conn[c].cached = key \/ host.pin = key
                  \/ host.server[c].cert /\ Has(ctl.conn[c].file, "ca", "ca")
                  \/ host.mode = "accept-new" /\ ctl.cache[c] = key
    BY <2>1 DEF IInv, ConnInv, VerdictInv, Sound
  <2>2. Cardinality(host.ours) <= 1
    <3>1. CASE host.ours = {}
      BY <3>1, FS_EmptySet
    <3>2. ASSUME NEW key \in host.ours PROVE Cardinality(host.ours) <= 1
      <4>1. host.ours = {key}
        BY <3>2 DEF IInv, FileInv
      <4>2. QED
        BY <4>1, FS_Singleton
    <3>3. QED
      BY <3>1, <3>2
  <2>3. ASSUME \A c \in Conns : Accepted(c) /\ ctl.conn[c].fresh, faults = 0
        PROVE  host.server[1].key = host.server[2].key
    <3>1. Has(host.file, "", host.server[1].key) /\ Has(host.file, "", host.server[2].key)
      <4>1. 1 \in Conns /\ 2 \in Conns
      BY DEF Conns
    <4>2. \A c \in Conns : Has(host.file, "", host.server[c].key)
      BY <2>3 DEF IInv, ConnInv, VerdictInv
    <4>3. QED
      BY <4>1, <4>2
    <3>2. Line("", host.server[1].key) = Line("", host.server[2].key)
      BY <2>3, <3>1, HasIsPlain DEF IInv, FileInv
    <3>3. QED
      BY <3>2 DEF Line
  <2>4. QED
    BY <2>1, <2>2, <2>3 DEF ReportsAreTrue
<1>2. IInv => EditsSurvive
  BY DEF IInv, FileInv
<1>3. QED
  BY Invariant, <1>1, <1>2, PTL

(* A key that was known from the start is not refused while nothing        *)
(* happens to known_hosts, nor is one that the connection has in its cache *)
(* unless it was revoked.                                                  *)
THEOREM KnownKeysAreAccepted == Spec => []CleanRunConverges
<1>1. IInv => CleanRunConverges
  BY DEF IInv, ConnInv, FamiliarInv, Familiar, CacheInv, Remembered, Untouched, CleanRunConverges
<1>2. QED
  BY Invariant, <1>1, PTL
=============================================================================
