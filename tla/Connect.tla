------------------------------- MODULE Connect -------------------------------
(***************************************************************************)
(* connect() and reconnect(): the configured way to authenticate is tried  *)
(* on every port in turn and then, for an agent, a password; the host key  *)
(* is verified before, bound when the handshake is through, and compared   *)
(* with the bound key on every later connection of this process.           *)
(***************************************************************************)
EXTENDS Remote, TLC

Ports == 1..2
Keys == {"k1", "k2"}

\* Bound: tries of a reconnect before its window is over.
Tries == 2

TypeOK ==
    /\ pc \in {"check", "attempt", "persist", "exhausted", "prompt", "done"}
    /\ host.open \in 0..1 /\ host.known \subseteq Keys \cup {"ca"}
    /\ {ctl.pinned, ctl.verified, ctl.key} \subseteq Keys \cup {"none"} /\ ctl.evidence \in {"none", "key", "certificate"}
    /\ ctl.result \in Results /\ ctl.port \in 0..3 /\ ctl.tries \in 0..Tries

\* The configurations: what authenticates first, and what may follow an agent.
Setups == {<<"key", "nothing">>, <<"agent", "nothing">>, <<"agent", "password">>, <<"agent", "forward">>,
           <<"none", "nothing">>, <<"none", "password">>, <<"none", "forward">>}

\* Modes of host key checking with a file they are interesting for.
Trust == {<<"yes", {"k1"}>>, <<"yes", {"ca"}>>, <<"accept-new", {}>>, <<"accept-new", {"k1"}>>, <<"no", {}>>}

\* `auth` is what the server accepts, `served` the keys of the connections
\* that no certificate vouched for.
Init ==
    /\ \E setup \in Setups, trust \in Trust, up \in {{2}, Ports}, split \in BOOLEAN, auth \in {{"key", "agent"}, {"password"}} :
          host = [config |-> setup[1], then |-> setup[2], auth |-> auth, up |-> up,
                  key |-> <<"k1", IF split THEN "k2" ELSE "k1">>, signed |-> "ca" \in trust[2],
                  mode |-> trust[1], known |-> trust[2], open |-> 0, served |-> {}]
    /\ faults = 0 /\ pc = "check"
    /\ ctl = Call(1) @@ [with |-> "", port |-> 0, key |-> "none", tries |-> 0, method |-> "none",
                         pinned |-> "none", verified |-> "none", evidence |-> "none"]

\* connectViaAgent, connectViaPrivateKey and connectWithoutAgentSocket.
Start(method) == ctl' = [ctl EXCEPT !.with = method, !.port = 1] /\ pc' = "attempt"

\* connect() throws: reconnect() tries again while its window is open, except
\* after an error that no retry changes.
Throw(permanent) ==
    IF ctl.run > 1 /\ ~permanent /\ ctl.tries < Tries - 1
    THEN ctl' = [ctl EXCEPT !.tries = @ + 1] /\ pc' = "check"
    ELSE Return(IF permanent THEN "raised" ELSE "failed")

\* tryPasswordFallback.
Fallback == IF host.then = "password" THEN Goto("prompt") ELSE Throw(FALSE)

Begin ==
    /\ pc = "check"
    /\ Locally(IF host.config = "none" THEN Fallback ELSE Start(host.config))

\* The answer to the prompt, or the run's abort.
Prompt ==
    /\ pc = "prompt"
    /\ \/ Locally(Start("password"))
       \/ UNCHANGED host /\ Return("raised") /\ Fault

NextPort == ctl' = [ctl EXCEPT !.port = @ + 1] /\ UNCHANGED pc

Certified == host.signed /\ "ca" \in host.known

\* buildHostVerifier, as far as connect() depends on it.
Accepted(key) ==
    \/ Certified
    \/ host.mode = "no"
    \/ key \in host.known
    \/ host.mode = "accept-new" /\ host.known \cap Keys = {}

\* assertReconnectHostKey: a key counts as bound unless only a certificate
\* vouched for it and one vouches again.
Bound == IF ctl.pinned # "none" THEN ctl.pinned
         ELSE IF Certified /\ ctl.evidence = "certificate" THEN "none" ELSE ctl.verified

\* tryConnectOnPorts, one port: refused, a host key that ends everything,
\* credentials the server does not take, or a handshake that is through.
TryPort ==
    /\ pc = "attempt"
    /\ LET key == host.key[ctl.port]
       IN \/ UNCHANGED faults
             /\ IF ctl.port > Cardinality(Ports) THEN Locally(Goto("exhausted"))
                ELSE IF ctl.port \notin host.up THEN Locally(NextPort)
                ELSE IF ~Accepted(key) \/ Bound \notin {"none", key} THEN Locally(Throw(TRUE))
                ELSE IF ctl.with \notin host.auth THEN Locally(NextPort)
                ELSE /\ host' = [host EXCEPT !.open = 1]
                     /\ ctl' = [ctl EXCEPT !.key = key,
                                           !.verified = IF host.mode = "no" /\ ~Certified THEN "none" ELSE key,
                                           !.evidence = IF Certified THEN "certificate" ELSE "key",
                                           !.pinned = IF @ = "none" /\ ~Certified THEN key ELSE @]
                     /\ pc' = "persist"
          \/ ctl.port \in Ports /\ UNCHANGED host /\ NextPort /\ Fault
          \/ ctl.port \in Ports /\ UNCHANGED host /\ Goto("exhausted") /\ Fault

\* commitAcceptedHostKeyAndRegisterClient: the new key is written to
\* known_hosts while the connection may drop; only then is the client used.
Persist ==
    /\ pc = "persist"
    /\ \/ /\ host' = [host EXCEPT !.known = IF host.mode = "accept-new" /\ ~Certified THEN @ \cup {ctl.key} ELSE @,
                                  !.served = IF Certified THEN @ ELSE @ \cup {ctl.key}]
          /\ ctl' = [ctl EXCEPT !.result = "changed", !.method = ctl.with]
          /\ pc' = "done" /\ UNCHANGED faults
       \/ /\ host' = [host EXCEPT !.open = 0] /\ Fault
          /\ ctl' = [ctl EXCEPT !.port = @ + 1] /\ pc' = "attempt"

\* No port is left: an agent may be followed by a password.
Exhausted ==
    /\ pc = "exhausted"
    /\ Locally(IF ctl.with = "agent" THEN Fallback ELSE Throw(FALSE))

\* reconnect() after a drop or a reboot: disconnectTransport forgets how the
\* connection was made, and keeps the keys.
Reconnect ==
    /\ Ended /\ ctl.result = "changed" /\ ctl.run < MaxRuns
    /\ host' = [host EXCEPT !.open = 0]
    /\ ctl' = [ctl EXCEPT !.run = @ + 1, !.from = faults, !.result = "", !.tries = 0, !.method = "none", !.port = 0]
    /\ pc' = "check" /\ UNCHANGED faults

\* The server changes: another key, or a certificate from now on or no more.
Rekey ==
    /\ Fault /\ host.open = 0
    /\ \/ \E k \in Keys : host' = [host EXCEPT !.key = <<k, k>>]
       \/ host' = [host EXCEPT !.signed = ~@]
    /\ UNCHANGED <<ctl, pc>>

Section == Begin \/ Prompt \/ TryPort \/ Persist \/ Exhausted
Next == Section \/ Reconnect \/ Rekey
Spec == Init /\ [][Next]_vars

-----------------------------------------------------------------------------
(* Properties                                                              *)

Connected == ctl.result = "changed"

\* A connection is reported with the way it was made, and one process never
\* talks to two host keys that no certificate vouched for.
ReportsAreTrue ==
    /\ Connected => ctl.method = ctl.with /\ ctl.method \in host.auth
    /\ Cardinality(host.served) <= 1

\* A transport whose handshake went through is the client's or is closed.
NothingIsLeft == Ended => (host.open = 1 <=> Connected)

\* A server with one known key that takes the configured credentials is reached.
CleanRunConverges ==
    Ended /\ faults = 0 /\ host.config \in host.auth /\ host.key[1] = host.key[2] /\ Accepted(host.key[1])
        => Connected
=============================================================================
