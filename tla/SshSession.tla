----------------------------- MODULE SshSession -----------------------------
(***************************************************************************)
(* One SshConnectionImpl (ssh.ts) shared by concurrent exec calls: the cap *)
(* on session channels and its FIFO queue, the lazily run and shared sudo  *)
(* probe, and a reconnect that replaces the client under all of them.      *)
(*                                                                         *)
(* JavaScript runs one task at a time.  An action is the code between two  *)
(* awaits.  The states "cleared", "granted" and "rejected" are             *)
(* continuations that already sit in the microtask queue: the event loop   *)
(* runs them before any I/O.  A client that is registered, which takes     *)
(* I/O, and a disconnect, whose caller resumes behind them, therefore come *)
(* when no actor is in one of them (Quiet); the other events may come at   *)
(* any time, which is more than the event loop allows.                     *)
(***************************************************************************)
EXTENDS Naturals, Sequences, FiniteSets

CONSTANTS
    Callers,      \* concurrent calls of exec(), one outstanding call each
    InputCallers, \* the callers whose command carries options.input
    Probe,        \* the shared sudo probe, itself a client of the channel cap
    Max,          \* MAX_CONCURRENT_SESSION_CHANNELS
    MaxClients,   \* bound: clients registered during a run
    MaxAttempts   \* attempts of one reconnect()

ASSUME ProbeIsNoCaller ==
    Probe \notin Callers /\ InputCallers \subseteq Callers /\ IsFiniteSet(Callers)
ASSUME Bounds == Max \in Nat \ {0} /\ MaxClients \in Nat \ {0}
                 /\ MaxAttempts \in Nat \ {0}

VARIABLES
    pc,        \* where each actor's call stands
    gen,       \* the client an actor's channel was opened on, 0 for none
    mode,      \* SudoCommandMode of an actor's command
    active,    \* activeSessionChannels
    queue,     \* sessionChannelWaiters
    client,    \* this.client, 0 for null
    made,      \* clients registered so far
    alive,     \* the transport under this.client still works
    reconnecting, \* 0, or the number of the running reconnect() attempt
    stage,     \* the command of the sudo probe that runs or ran last
    ready,     \* sudoReady
    primed,    \* credentialCachePrimed
    passwordless, \* passwordlessSudo
    cached,    \* cachedSudoPassword # null
    failed,    \* sudoProbeFailedReason # null
    asked      \* history: password prompts since the last disconnectTransport

slots   == <<active, queue>>
link    == <<client, made, alive, reconnecting>>
sudo    == <<ready, primed, passwordless, cached, failed>>
vars == <<pc, gen, mode, slots, link, stage, sudo, asked>>

Actors == Callers \union {Probe}

\* A slot is held from the claim to the finally block of the call.
Holding  == {"granted", "opening", "running", "rejected"}
InFlight == {"opening", "running"}
Microtasks == {"cleared", "granted", "rejected"}

TypeOK ==
    /\ pc \in [Actors -> {"idle", "joined", "prompting", "queued"} \union InFlight \union Microtasks]
    /\ gen \in [Actors -> 0..MaxClients]
    /\ mode \in [Actors -> {"none", "noninteractive", "password"}]
    /\ active \in 0..Max
    /\ queue \in Seq(Actors)
    /\ client \in 0..MaxClients /\ made \in 1..MaxClients
    /\ alive \in BOOLEAN
    /\ reconnecting \in 0..MaxAttempts
    /\ stage \in {"installed", "passwordless", "validate"}
    /\ {ready, primed, passwordless, cached, failed} \subseteq BOOLEAN
    /\ asked \in Nat

Init ==
    /\ pc = [a \in Actors |-> "idle"]
    /\ gen = [a \in Actors |-> 0]
    /\ mode = [a \in Actors |-> "none"]
    /\ active = 0 /\ queue = <<>>
    /\ client = 1 /\ made = 1 /\ alive = TRUE /\ reconnecting = 0
    /\ stage = "installed"
    /\ ready = FALSE /\ primed = FALSE /\ passwordless = FALSE
    /\ cached = FALSE /\ failed = FALSE
    /\ asked = 0

Quiet == \A a \in Actors : pc[a] \notin Microtasks

-----------------------------------------------------------------------------
(* The sudo probe, as seen by the calls that wait for it                   *)

\* Mutant: a failed probe is not remembered.
Call_Forgetful(c) ==
    /\ pc[c] = "idle"
    /\ IF ready \/ cached
       THEN pc' = [pc EXCEPT ![c] = "cleared"] /\ UNCHANGED stage
       ELSE IF pc[Probe] = "idle"
       THEN pc' = [pc EXCEPT ![c] = "joined", ![Probe] = "cleared"] /\ stage' = "installed"
       ELSE pc' = [pc EXCEPT ![c] = "joined"] /\ UNCHANGED stage
    /\ ready' = (ready \/ cached)
    /\ UNCHANGED <<gen, mode, slots, link, primed, passwordless, cached, failed, asked>>

\* exec(): ensureSudoReady, up to its first wait.  A probe that has failed is
\* not run again: the call throws and nothing changes.
Call(c) ==
    /\ pc[c] = "idle"
    /\ \/ /\ ready \/ cached
          /\ ready' = TRUE
          /\ pc' = [pc EXCEPT ![c] = "cleared"]
          /\ UNCHANGED stage
       \/ /\ ~ready /\ ~cached /\ ~failed
          /\ IF pc[Probe] = "idle"
             THEN /\ pc' = [pc EXCEPT ![c] = "joined", ![Probe] = "cleared"]
                  /\ stage' = "installed"
             ELSE /\ pc' = [pc EXCEPT ![c] = "joined"]
                  /\ UNCHANGED stage
          /\ UNCHANGED ready
    /\ UNCHANGED <<gen, mode, slots, link, primed, passwordless, cached, failed, asked>>

\* The calls that await the probe go on to claim a slot, or throw its error.
WakeJoined(where, next) ==
    [a \in Actors |-> IF a = Probe THEN "idle"
                      ELSE IF where[a] = "joined" THEN next ELSE where[a]]

ProbeSucceeded(where) == WakeJoined(where, "cleared")
ProbeFailed(where)    == WakeJoined(where, "idle")

\* Where everyone stands once command `stage` of the probe has ended.
AfterProbeCommand(ok) ==
    CASE stage = "installed" /\ ok  -> [pc EXCEPT ![Probe] = "cleared"]
      [] stage = "installed" /\ ~ok -> ProbeFailed(pc)
      [] stage = "passwordless" /\ ~ok -> [pc EXCEPT ![Probe] = "prompting"]
      [] stage = "validate" /\ ~ok  -> ProbeFailed(pc)
      [] OTHER                      -> ProbeSucceeded(pc)

\* What the end of that command does to the sudo state.
ProbeEffect(ok) ==
    /\ stage' = IF stage = "installed" /\ ok THEN "passwordless" ELSE stage
    /\ ready' = (ready \/ (ok /\ stage # "installed"))
    /\ passwordless' = (passwordless \/ (ok /\ stage = "passwordless"))
    /\ primed' = IF stage = "validate" THEN ok ELSE primed
    /\ cached' = (cached /\ (stage = "validate" => ok))
    /\ failed' = (failed \/ (~ok /\ stage # "passwordless"))

\* The operator is asked for the password; the answer is cached before it
\* is validated.
PromptAnswered ==
    /\ pc[Probe] = "prompting"
    /\ cached' = TRUE
    /\ stage' = "validate"
    /\ pc' = [pc EXCEPT ![Probe] = "cleared"]
    /\ UNCHANGED <<gen, mode, slots, link, ready, primed, passwordless, failed, asked>>

\* The prompt is cancelled, or the answer holds a line break.
PromptRefused ==
    /\ pc[Probe] = "prompting"
    /\ pc' = ProbeFailed(pc)
    /\ failed' = TRUE
    /\ UNCHANGED <<gen, mode, slots, link, stage, ready, primed, passwordless, cached, asked>>

-----------------------------------------------------------------------------
(* Slots                                                                   *)

\* Mutant: the counter drops although the slot is handed to a waiter.
ReleaseSlot_Twice(where) ==
    /\ active' = active - 1
    /\ IF queue = <<>>
       THEN pc' = where /\ queue' = queue
       ELSE pc' = [where EXCEPT ![Head(queue)] = "granted"] /\ queue' = Tail(queue)

\* releaseSessionChannel in the finally block, the actors standing at `where`.
ReleaseSlot(where) ==
    IF queue = <<>>
    THEN active' = active - 1 /\ queue' = queue /\ pc' = where
    ELSE /\ active' = active
         /\ queue' = Tail(queue)
         /\ pc' = [where EXCEPT ![Head(queue)] = "granted"]

\* The command of actor a has ended and its slot is released.
Ended(a, ok) ==
    /\ gen' = [gen EXCEPT ![a] = 0]
    /\ mode' = [mode EXCEPT ![a] = "none"]
    /\ IF a = Probe
       THEN /\ ReleaseSlot(AfterProbeCommand(ok))
            /\ ProbeEffect(ok)
            /\ asked' = IF stage = "passwordless" /\ ~ok THEN asked + 1 ELSE asked
       ELSE /\ ReleaseSlot([pc EXCEPT ![a] = "idle"])
            /\ UNCHANGED <<stage, sudo, asked>>

\* sudoCommand: how the command is wrapped.  The first two commands of the
\* probe run without sudo.
SudoMode(a) ==
    IF a = Probe /\ stage # "validate" THEN "none"
    ELSE IF cached /\ a \notin InputCallers THEN "password" ELSE "noninteractive"

\* sudoCommand throws SudoInputUnsupportedError.
InputUnsupported(a) == a \in InputCallers /\ cached /\ ~passwordless /\ ~primed

\* The same tick that owns the slot resolves the client and starts the open.
Open(a) ==
    /\ pc' = [pc EXCEPT ![a] = "opening"]
    /\ gen' = [gen EXCEPT ![a] = client]
    /\ mode' = [mode EXCEPT ![a] = SudoMode(a)]

SlotIsFree == active < Max /\ queue = <<>>

CannotStart(a) == client = 0 \/ InputUnsupported(a)

\* Mutant: the try block whose finally releases the slot starts after
\* ensureClient and sudoCommand.
Claim_Leaking(a) ==
    /\ pc[a] = "cleared"
    /\ \/ /\ SlotIsFree /\ ~CannotStart(a)
          /\ active' = active + 1
          /\ Open(a)
          /\ UNCHANGED <<queue, stage, sudo, asked>>
       \/ /\ ~SlotIsFree
          /\ queue' = Append(queue, a)
          /\ pc' = [pc EXCEPT ![a] = "queued"]
          /\ UNCHANGED <<gen, mode, active, stage, sudo, asked>>
       \/ /\ SlotIsFree /\ CannotStart(a)
          /\ active' = active + 1
          /\ pc' = IF a = Probe THEN ProbeFailed(pc) ELSE [pc EXCEPT ![a] = "idle"]
          /\ UNCHANGED <<gen, mode, queue, stage, sudo, asked>>
    /\ UNCHANGED link

\* execPrepared and execRaw up to the channel open: acquireSessionChannel and,
\* when the slot is claimed at once, ensureClient.
Claim(a) ==
    /\ pc[a] = "cleared"
    /\ \/ /\ SlotIsFree /\ ~CannotStart(a)
          /\ active' = active + 1
          /\ Open(a)
          /\ UNCHANGED <<queue, stage, sudo, asked>>
       \/ /\ ~SlotIsFree
          /\ queue' = Append(queue, a)
          /\ pc' = [pc EXCEPT ![a] = "queued"]
          /\ UNCHANGED <<gen, mode, active, stage, sudo, asked>>
       \/ /\ SlotIsFree /\ CannotStart(a)  \* throws; the finally block runs
          /\ UNCHANGED slots
          /\ UNCHANGED <<gen, mode>>
          /\ IF a = Probe
             THEN /\ pc' = AfterProbeCommand(FALSE)
                  /\ ProbeEffect(FALSE)
                  /\ asked' = IF stage = "passwordless" THEN asked + 1 ELSE asked
             ELSE pc' = [pc EXCEPT ![a] = "idle"] /\ UNCHANGED <<stage, sudo, asked>>
    /\ UNCHANGED link

\* A waiter's promise settles: it owns the slot and resolves the client now.
Resume(a) ==
    /\ pc[a] = "granted"
    /\ IF CannotStart(a)
       THEN Ended(a, FALSE)
       ELSE Open(a) /\ UNCHANGED <<slots, stage, sudo, asked>>
    /\ UNCHANGED link

-----------------------------------------------------------------------------
(* Channels                                                                *)

Opened(a) ==
    /\ pc[a] = "opening" /\ alive
    /\ pc' = [pc EXCEPT ![a] = "running"]
    /\ UNCHANGED <<gen, mode, slots, link, stage, sudo, asked>>

\* The server refuses the channel, or the transport is gone.
OpenFails(a) == pc[a] = "opening" /\ Ended(a, FALSE) /\ UNCHANGED link

\* The command exits; ok is exit code 0.
Finish(a, ok) == pc[a] = "running" /\ alive /\ Ended(a, ok) /\ UNCHANGED link

\* sudo -n asks for a password: invalidateSudoReadiness.
SudoRefused(a) ==
    /\ pc[a] = "running" /\ alive /\ mode[a] = "noninteractive" /\ a \in Callers
    /\ gen' = [gen EXCEPT ![a] = 0]
    /\ mode' = [mode EXCEPT ![a] = "none"]
    /\ ReleaseSlot([pc EXCEPT ![a] = "idle"])
    /\ ready' = FALSE /\ primed' = FALSE /\ passwordless' = FALSE
    /\ UNCHANGED <<link, stage, cached, failed, asked>>

\* The call's timer fires.  An open that has not been delivered stays pending
\* on the connection; its stream is closed when it comes.
Timeout(a) == pc[a] \in InFlight /\ Ended(a, FALSE) /\ UNCHANGED link

\* The continuation of a call rejected by a disconnect runs its finally block.
Settle(a) == pc[a] = "rejected" /\ Ended(a, FALSE) /\ UNCHANGED link

-----------------------------------------------------------------------------
(* The client                                                              *)

\* Mutant: a call is registered for rejection once its channel is delivered.
RejectPending_Running ==
    pc' = [a \in Actors |-> IF pc[a] = "running" THEN "rejected" ELSE pc[a]]

\* Every entry of pendingRejects is rejected and the set cleared.
RejectPending ==
    pc' = [a \in Actors |-> IF pc[a] \in InFlight THEN "rejected" ELSE pc[a]]

\* disconnectTransport: no client, the derived state forgotten, every call in
\* flight rejected.  The callers in the queue are not touched.
DisconnectTransport ==
    /\ client' = 0
    /\ RejectPending
    /\ ready' = FALSE /\ primed' = FALSE /\ passwordless' = FALSE /\ failed' = FALSE
    /\ asked' = 0
    /\ UNCHANGED <<gen, mode, slots, stage>>

\* reconnect() starts, or its next attempt does.
Reconnect ==
    /\ made < MaxClients /\ reconnecting = 0 /\ Quiet
    /\ reconnecting' = 1
    /\ DisconnectTransport
    /\ UNCHANGED <<made, alive, cached>>

\* connect() fails; after a pause the next attempt starts, or none is left.
ConnectFails ==
    /\ reconnecting > 0 /\ Quiet
    /\ IF reconnecting < MaxAttempts
       THEN reconnecting' = reconnecting + 1 /\ DisconnectTransport
       ELSE reconnecting' = 0 /\ UNCHANGED <<pc, gen, mode, slots, client, stage,
                                             ready, primed, passwordless, failed, asked>>
    /\ UNCHANGED <<made, alive, cached>>

\* registerConnectedClient.
ConnectSucceeds ==
    /\ reconnecting > 0 /\ Quiet
    /\ reconnecting' = 0
    /\ made' = made + 1 /\ client' = made + 1 /\ alive' = TRUE
    /\ UNCHANGED <<pc, gen, mode, slots, stage, sudo, asked>>

\* The transport reports its end: calls in flight are rejected, this.client
\* stays.
ConnectionLost ==
    /\ client # 0 /\ alive
    /\ alive' = FALSE
    /\ RejectPending
    /\ UNCHANGED <<gen, mode, slots, client, made, reconnecting, stage, sudo, asked>>

\* disconnect(), at the end of the run.
Disconnect ==
    /\ client # 0 /\ reconnecting = 0 /\ Quiet
    /\ cached' = FALSE
    /\ DisconnectTransport
    /\ UNCHANGED <<made, alive, reconnecting>>

-----------------------------------------------------------------------------

Next ==
    \/ \E c \in Callers : Call(c) \/ SudoRefused(c)
    \/ \E a \in Actors :
          \/ Claim(a) \/ Resume(a) \/ Settle(a)
          \/ Opened(a) \/ OpenFails(a) \/ Timeout(a)
          \/ \E ok \in BOOLEAN : Finish(a, ok)
    \/ PromptAnswered \/ PromptRefused
    \/ Reconnect \/ ConnectFails \/ ConnectSucceeds \/ ConnectionLost \/ Disconnect

Spec == Init /\ [][Next]_vars

\* The event loop runs every microtask and fires every timer; the operator
\* answers or cancels a prompt.  Nothing is assumed of the server.
Fairness ==
    /\ \A a \in Actors : WF_vars(Claim(a) \/ Resume(a) \/ Settle(a)) /\ WF_vars(Timeout(a))
    /\ WF_vars(PromptAnswered \/ PromptRefused)

FairSpec == Spec /\ Fairness

-----------------------------------------------------------------------------
(* Properties                                                              *)

Holders == {a \in Actors : pc[a] \in Holding}

\* The counter equals the number of calls that own a slot, never passes the
\* cap, and calls wait only while every slot is taken: a handed-over slot is
\* neither lost nor counted twice (releaseSessionChannel).
SlotsCounted ==
    /\ TypeOK
    /\ active = Cardinality(Holders)
    /\ active <= Max
    /\ queue # <<>> => active = Max
    /\ \A a \in Actors :
          Cardinality({i \in DOMAIN queue : queue[i] = a}) = IF pc[a] = "queued" THEN 1 ELSE 0

\* A call in flight uses the client that is registered now, however long it
\* waited for its slot or for the sudo probe and however often the connection
\* was replaced meanwhile (acquireSessionChannel's contract).
OnCurrentClient ==
    \A a \in Actors : pc[a] \in InFlight => gen[a] = client /\ client # 0

\* The operator is asked for the sudo password at most once between two
\* connects, whatever the calls, failures and refusals (ensureSudoReady shares
\* the probe and remembers its failure).
AskedOnce == asked <= 1

\* Every exec() call comes to an end: no slot leaks, no call holds a slot while
\* it awaits the probe, and the probe itself always gets one.
CallsSettle == \A c \in Callers : (pc[c] # "idle") ~> (pc[c] = "idle")

-----------------------------------------------------------------------------
(* What docs, comments and tests say, and the code does not keep           *)

\* acquireSessionChannel: a call queued behind the cap is not rejected because
\* of a reconnect; it runs on whatever client is current.
QueuedSurviveReconnect ==
    [][\A c \in Callers :
          pc[c] = "granted" /\ reconnecting > 0 => pc'[c] # "idle"]_vars

\* resetTransportDerivedState: a reconnect starts with a fresh sudo reality and
\* does not keep the probe failure of the connection before it.
FreshSudoAfterReconnect ==
    [][client = 0 /\ client' # 0 => ~failed']_vars
=============================================================================
