----------------------------- MODULE KnownHosts -----------------------------
(***************************************************************************)
(* The trust of a first use: two connections of a process to one host      *)
(* verify its key against known_hosts, a cache and a pin, and append a key *)
(* they accept.  Reading and appending are queued in this process; other   *)
(* processes write the file whenever they like.  The cache is the          *)
(* connection's own and outlives its drops.  `pc` is per connection.       *)
(***************************************************************************)
EXTENDS Remote, SequencesExt

Conns == 1..2
Keys == {"k1", "k2"}

\* A line that matches the host; a line whose pattern list negates it or is
\* not well formed matches nothing.
Line(marker, key) == [marker |-> marker, key |-> key, matches |-> TRUE]

Lines == {Line("", "k1"), Line("", "k2"), Line("revoked", "k1"), Line("ca", "ca"), Line("revoked", "ca"),
          [Line("", "k2") EXCEPT !.matches = FALSE]}

\* What a connection knows: the file and the cached key it saw, whether its
\* key has to be written, what it was accepted for, and how it ended.
Connection == [file : Seq(Lines), cached : Keys \cup {"none"}, fresh : BOOLEAN,
               evidence : {"none", "key", "certificate"}, result : Results]

TypeOK ==
    /\ host \in [mode : {"yes", "accept-new", "no"}, pin : {"none", "k1"}, server : [Conns -> [key : Keys, cert : BOOLEAN]],
                 file : Seq(Lines), ours : SUBSET Keys, theirs : SUBSET Lines]
    /\ ctl \in [run : {1}, from : {0}, result : Results, cache : [Conns -> Keys \cup {"none"}],
                lock : {0} \cup Conns, conn : [Conns -> Connection]]
    /\ pc \in [Conns -> {"load", "verify", "commit", "append", "done"}]
    /\ faults \in Nat

\* A connection that has not looked at anything yet.
Unread == [file |-> <<>>, cached |-> "none", fresh |-> FALSE, evidence |-> "none", result |-> ""]

FirstFiles ==
    {<<>>, <<Line("", "k1")>>, <<Line("revoked", "k1")>>, <<[Line("", "k2") EXCEPT !.matches = FALSE]>>,
     <<Line("ca", "ca")>>, <<Line("ca", "ca"), Line("revoked", "ca")>>}

Init ==
    /\ \E mode \in {"yes", "accept-new", "no"}, pin \in {"none", "k1"}, server \in [Conns -> [key : Keys, cert : BOOLEAN]],
          file \in FirstFiles :
          /\ \A c \in Conns : server[c].cert <=> Line("ca", "ca") \in ToSet(file)
          /\ mode = "no" => Len(file) = 1
          /\ host = [mode |-> mode, pin |-> pin, server |-> server, file |-> file, ours |-> {}, theirs |-> {}]
    /\ faults = 0 /\ pc = [c \in Conns |-> "load"]
    /\ ctl = [run |-> 1, from |-> 0, result |-> "", cache |-> [c \in Conns |-> "none"], lock |-> 0, conn |-> [c \in Conns |-> Unread]]

Go(c, l) == pc' = [pc EXCEPT ![c] = l]
Settle(c, result, lock) ==
    ctl' = [ctl EXCEPT !.conn[c].result = result, !.lock = lock] /\ Go(c, "done")

Matching(file) == {line \in ToSet(file) : line.matches}
Has(file, marker, key) == Line(marker, key) \in Matching(file)

\* The host's own keys, without authorities and revocations.
Plain(file) == {line \in Matching(file) : line.marker = ""}

\* buildHostVerifier reads nothing when nothing is checked; a file that
\* cannot be read ends the connection.
Unchecked == host.mode = "no" /\ host.pin = "none"

Load(c) ==
    /\ pc[c] = "load" /\ UNCHANGED host
    /\ \/ Unchecked /\ Go(c, "verify") /\ UNCHANGED <<ctl, faults>>
       \/ /\ ~Unchecked /\ ctl.lock = 0
          /\ ctl' = [ctl EXCEPT !.conn[c].file = host.file, !.conn[c].cached = ctl.cache[c]]
          /\ Go(c, "verify") /\ UNCHANGED faults
       \/ ~Unchecked /\ ctl.lock = 0 /\ Settle(c, "raised", 0) /\ Fault

\* verifyHostKeyAgainstKnownEntries: "refused", "known" or "unknown".
Known(c, key) ==
    LET file == ctl.conn[c].file
    IN IF Has(file, "revoked", key) THEN "refused"
       ELSE IF Has(file, "", key) \/ ctl.conn[c].cached = key THEN "known"
       ELSE IF Plain(file) # {} \/ ctl.conn[c].cached # "none" THEN "refused"
       ELSE "unknown"

Pinned(key) == host.pin \in {"none", key}

\* verifyHostCertificate: the file has to name the authority, and revoke
\* neither it nor the key.
CertificateAccepted(c, key) ==
    LET file == ctl.conn[c].file
    IN /\ host.mode # "no" /\ Has(file, "ca", "ca") /\ Pinned(key)
       /\ ~Has(file, "revoked", key) /\ ~Has(file, "revoked", "ca")

\* "known" is accepted and needs no line, "new" has to be written.
Verdict(c, key) ==
    IF host.mode # "no" /\ Known(c, key) = "refused" THEN "refused"
    ELSE IF host.mode # "no" /\ Known(c, key) = "known" THEN IF Pinned(key) THEN "known" ELSE "refused"
    ELSE IF host.pin # "none" THEN IF Pinned(key) THEN "known" ELSE "refused"
    ELSE IF host.mode = "yes" THEN "refused"
    ELSE IF host.mode = "no" THEN "unchecked"
    ELSE "new"

Verify(c) ==
    /\ pc[c] = "verify"
    /\ UNCHANGED <<host, faults>>
    /\ LET key == host.server[c].key
           cert == host.server[c].cert
           verdict == IF ~cert \/ Unchecked THEN Verdict(c, key)
                      ELSE IF CertificateAccepted(c, key) THEN "certificate" ELSE "refused"
       IN IF verdict = "refused" THEN Settle(c, "refused", ctl.lock)
          ELSE /\ ctl' = [ctl EXCEPT !.conn[c].fresh = (verdict = "new"),
                                     !.conn[c].evidence = IF verdict = "certificate" THEN verdict
                                                          ELSE IF verdict = "unchecked" THEN "none" ELSE "key"]
               /\ Go(c, "commit")

\* A key that is known needs no line (commitAcceptedHostKey).
Accept(c) ==
    /\ pc[c] = "commit" /\ ~ctl.conn[c].fresh
    /\ UNCHANGED <<host, faults>> /\ Settle(c, "changed", ctl.lock)

\* appendHostKey reads again while it holds the lock of this process.  Where
\* the directory cannot be made it does not get that far, and the key is cached
\* (acceptAndPersistHostKey); a file that cannot be read ends the connection.
Commit(c) ==
    /\ pc[c] = "commit" /\ ctl.conn[c].fresh /\ ctl.lock = 0
    /\ UNCHANGED host
    /\ LET key == host.server[c].key
       IN \/ /\ (Has(host.file, "", key) /\ UNCHANGED faults) \/ Fault
             /\ ctl' = [ctl EXCEPT !.cache[c] = key, !.conn[c].result = "changed"] /\ Go(c, "done")
          \/ ~Has(host.file, "", key) /\ Plain(host.file) # {} /\ Settle(c, "refused", 0) /\ UNCHANGED faults
          \/ Plain(host.file) = {} /\ ctl' = [ctl EXCEPT !.lock = c] /\ Go(c, "append") /\ UNCHANGED faults
          \/ Settle(c, "raised", 0) /\ Fault

\* A file that cannot be written leaves the key in the cache.
AppendKey(c) ==
    /\ pc[c] = "append"
    /\ LET key == host.server[c].key
           cached == ctl' = [ctl EXCEPT !.lock = 0, !.cache[c] = key, !.conn[c].result = "changed"]
       IN \/ /\ host' = [host EXCEPT !.file = Append(@, Line("", key)), !.ours = @ \cup {key}]
             /\ cached /\ UNCHANGED faults
          \/ UNCHANGED host /\ cached /\ Fault
    /\ Go(c, "done")

\* loadRsyncTrustSnapshot: another program is about to use the trust of a
\* connection; what was revoked since is refused, and so is a file that
\* cannot be read.
Rsync(c) ==
    /\ pc[c] = "done" /\ ctl.lock = 0 /\ ctl.conn[c].result = "changed" /\ ctl.conn[c].evidence # "none"
    /\ UNCHANGED <<host, pc>>
    /\ LET by == IF ctl.conn[c].evidence = "certificate" THEN {host.server[c].key, "ca"} ELSE {host.server[c].key}
       IN \/ /\ UNCHANGED faults
             /\ ctl' = [ctl EXCEPT !.conn[c].result = IF \E k \in by : Has(host.file, "revoked", k) THEN "diverged" ELSE "ok"]
          \/ Fault /\ ctl' = [ctl EXCEPT !.conn[c].result = "raised"]

Accepted(c) == ctl.conn[c].result \in {"changed", "ok"}

\* The connection drops and is made again, with a verifier that knows its
\* cache; a server that comes back with another key is a matter of Connect.
Reconnect(c) ==
    /\ pc[c] = "done" /\ Accepted(c) /\ Fault
    /\ UNCHANGED host
    /\ ctl' = [ctl EXCEPT !.conn[c] = Unread] /\ Go(c, "load")

\* Another process appends a key of its own, or revokes one.
Elsewhere ==
    /\ Fault
    /\ \E line \in {Line("", "k2"), Line("revoked", "k1")} :
          /\ line \notin ToSet(host.file)
          /\ host' = [host EXCEPT !.file = Append(@, line), !.theirs = @ \cup {line}]
    /\ UNCHANGED <<ctl, pc>>

Next ==
    \/ \E c \in Conns : Load(c) \/ Verify(c) \/ Accept(c) \/ Commit(c) \/ AppendKey(c) \/ Rsync(c) \/ Reconnect(c)
    \/ Elsewhere
Spec == Init /\ [][Next]_vars

-----------------------------------------------------------------------------
(* Properties                                                              *)

\* A connection is accepted for a reason it saw, never against a revocation it
\* read; and a process adds no second key of a host (withKnownHostsLock).
ReportsAreTrue ==
    /\ \A c \in Conns : Accepted(c) /\ host.mode # "no" =>
          LET key == host.server[c].key IN
          /\ ~Has(ctl.conn[c].file, "revoked", key) /\ Pinned(key)
          /\ \/ Has(ctl.conn[c].file, "", key) \/ ctl.conn[c].cached = key \/ host.pin = key
             \/ host.server[c].cert /\ Has(ctl.conn[c].file, "ca", "ca")
             \/ host.mode = "accept-new" /\ ctl.cache[c] = key
    /\ Cardinality(host.ours) <= 1
    /\ (\A c \in Conns : Accepted(c) /\ ctl.conn[c].fresh) /\ faults = 0 => host.server[1].key = host.server[2].key

\* Lines of other processes stay.
EditsSurvive == host.theirs \subseteq ToSet(host.file)

\* A connection with a key of its own that the mode and the pin allow.
Plausible(c) == host.mode # "no" /\ ~host.server[c].cert /\ Pinned(host.server[c].key)

\* A key that is known from the start is accepted; and one that the connection
\* has accepted before is not refused unless it was revoked, even if it could
\* not be written (createHostKeyCache).
CleanRunConverges == \A c \in Conns : Plausible(c) =>
    /\ pc[c] = "done" /\ faults = 0 /\ Has(host.file, "", host.server[c].key) /\ host.ours = {} => Accepted(c)
    /\ ctl.conn[c].result = "refused" /\ ctl.conn[c].cached = host.server[c].key
          => Has(ctl.conn[c].file, "revoked", host.server[c].key)
=============================================================================
