------------------------------- MODULE Secrets -------------------------------
(***************************************************************************)
(* How a secret stays hidden.  Two runs of one process use the same        *)
(* secret: the reference-counted sink that masks it (secretSink.ts), the   *)
(* cache of each run that asks the provider once (secretPrewarm.ts), and   *)
(* the provider itself, a child process `op` or a prompt; the second run   *)
(* may be a bare call of the library, which has a scope of its own and no  *)
(* cache.  And what a command writes arrives in chunks, is masked over a   *)
(* sliding window (createStreamMasker), captured up to a limit, and judged *)
(* when the command exits (collectStreamOutput).                           *)
(***************************************************************************)
EXTENDS Remote, SequencesExt

\* "runs": the two runs; "stream": the output of one command.
Is(kind) == host.kind = kind

-----------------------------------------------------------------------------
(* Two runs                                                                *)

\* Users of the secret: two modules of the first run, one of the second.
Users == {"first", "second", "other"}
Runs == 1..2
Of(u) == IF u = "other" THEN 2 ELSE 1

\* What a message may show: the value, or a line the provider printed.
Texts == {"value", "line"}

User == [stage : {"start", "load", "wait", "held", "body", "done"}, holds : BOOLEAN, told : SUBSET Texts]

RunsOK ==
    /\ pc \in {"check", "done"} /\ ctl.user \in [Users -> User] /\ ctl.result \in Results
    /\ host.cache \in [Runs -> {"none", "value"} \cup Users] /\ host.count \in 0..8
    /\ host.child \in [Users -> {"none", "running", "told", "gone"}] /\ host.busy \in BOOLEAN

RunsInit ==
    /\ \E provider \in {"op", "manual"}, bare, tty \in BOOLEAN :
          host = [kind |-> "runs", provider |-> provider, bare |-> bare, tty |-> tty, count |-> 0, scoped |-> <<0, 0>>, cache |-> <<"none", "none">>,
                  child |-> [u \in Users |-> "none"], busy |-> FALSE, aborted |-> {}, loads |-> <<0, 0>>, over |-> {}]
    /\ faults = 0 /\ pc = "check"
    /\ ctl = Call(1) @@ [user |-> [u \in Users |-> [stage |-> "start", holds |-> FALSE, told |-> {}]]]

Stage(u) == ctl.user[u].stage
Cached(u) == IF host.bare /\ Of(u) = 2 THEN "none" ELSE host.cache[Of(u)]
Aborted(u) == Of(u) \in host.aborted

\* registerRunScopedSecret: counted for the process and for the run.
Registered(h, r, n) == [h EXCEPT !.count = @ + n, !.scoped[r] = @ + n]

\* Who learns of the outcome of a load: its caller and whoever awaits it.
Party(u) == {u} \cup {v \in Users : Stage(v) = "wait" /\ Of(v) = Of(u)}

\* The users of `party` go on, all in the microtasks after the outcome.
Move(party, stage, holds, told) ==
    ctl' = [ctl EXCEPT !.user = [v \in Users |->
               IF v \in party THEN [stage |-> stage, holds |-> holds, told |-> told] ELSE @[v]]]

-----------------------------------------------------------------------------
(* Resolution                                                              *)

\* resolveCachedSecret evicts a load that failed; spawnWithInput's detach and
\* readManualSecret's finally run before.
Evicted(h, u) ==
    [h EXCEPT !.cache[Of(u)] = IF @ = u THEN "none" ELSE @,
              !.busy = IF h.provider = "manual" /\ Stage(u) = "load" THEN FALSE ELSE @]

\* buildSecretFailure masks with the references, the values seen so far and
\* each line the provider printed.
Masked(text, candidates) == text \ candidates

Reject(u, h, text) ==
    /\ host' = Evicted(h, u)
    /\ Move(Party(u), "done", FALSE, Masked(text, IF h.provider = "op" THEN {"line"} ELSE {}))

\* killChildEscalating: SIGTERM to a child that has not exited.
Told(h, u) == [h EXCEPT !.child[u] = IF @ = "running" THEN "told" ELSE @]

\* loadEarly, withDeferredSecret: from the cache, from a load that runs, or by
\* a load of one's own.
Begin(u) ==
    /\ Stage(u) = "start" /\ Of(u) \notin host.over /\ UNCHANGED <<pc, faults>>
    /\ LET refused == IF host.provider = "op" THEN Aborted(u) ELSE Aborted(u) \/ ~host.tty \/ host.busy
       IN CASE Cached(u) = "value" -> host' = Registered(host, Of(u), 1) /\ Move({u}, "held", TRUE, {})
            [] Cached(u) \in Users -> Move({u}, "wait", FALSE, {}) /\ UNCHANGED host
            [] OTHER -> IF refused THEN Reject(u, host, {})
                        ELSE /\ Move({u}, "load", FALSE, {})
                             /\ host' = [host EXCEPT !.cache[Of(u)] = IF host.bare /\ Of(u) = 2 THEN @ ELSE u,
                                                     !.child[u] = IF host.provider = "op" THEN "running" ELSE @,
                                                     !.busy = IF host.provider = "manual" THEN TRUE ELSE @]

\* The child closes with 0, or the operator answers: the loader registers the
\* value, and again everyone who awaited it.
Answered(u) ==
    /\ Stage(u) = "load" /\ UNCHANGED <<pc, faults>>
    /\ host' = [Registered(host, Of(u), 1 + Cardinality(Party(u))) EXCEPT
                  !.cache[Of(u)] = IF @ = u THEN "value" ELSE @, !.loads[Of(u)] = @ + 1, !.busy = FALSE,
                  !.child[u] = IF @ = "running" THEN "gone" ELSE @]
    /\ Move(Party(u), "held", TRUE, {})

\* The child cannot be started, closes with another code or too much output,
\* or the operator cancels the prompt.
Closed(u) ==
    /\ Stage(u) = "load" /\ Fault /\ UNCHANGED pc
    /\ \E text \in SUBSET (IF host.provider = "op" THEN {"line"} ELSE {}) : Reject(u, [host EXCEPT !.child[u] = IF @ = "running" THEN "gone" ELSE @], text)

\* The time-out, or a stdin that breaks: the child is told to end.
TimedOut(u) ==
    /\ Stage(u) = "load" /\ host.provider = "op" /\ Fault /\ UNCHANGED pc
    /\ Reject(u, Told(host, u), {})

\* SIGINT or SIGTERM: the listeners of the run's loads are called at once; a
\* load that is refused later looks at the signal itself.
Interrupt(r) ==
    /\ r \notin host.aborted \cup host.over /\ UNCHANGED <<pc, faults>>
    /\ LET h == [host EXCEPT !.aborted = @ \cup {r}]
           loading == {u \in Users : Of(u) = r /\ Stage(u) = "load"}
       IN IF loading = {} THEN host' = h /\ UNCHANGED ctl
          ELSE \E u \in loading : Reject(u, Told(h, u), {})

\* A child that was told to end does so, or is killed a second later.
ChildEnds(u) ==
    /\ host.child[u] = "told" /\ host' = [host EXCEPT !.child[u] = "gone"]
    /\ UNCHANGED <<ctl, pc, faults>>

-----------------------------------------------------------------------------
(* Use                                                                     *)

\* withRegisteredSecrets counts the value once more while its body runs, and
\* masks what the body returns or throws before the count is taken back.
OpenBody(u) ==
    /\ Stage(u) = "held" /\ UNCHANGED <<pc, faults>>
    /\ host' = [host EXCEPT !.count = @ + 1] /\ Move({u}, "body", TRUE, {})

CloseBody(u) ==
    /\ Stage(u) = "body" /\ UNCHANGED pc
    /\ host' = [host EXCEPT !.count = IF @ = 0 THEN 0 ELSE @ - 1]
    /\ \/ Move({u}, "done", TRUE, {}) /\ UNCHANGED faults
       \/ Move({u}, "done", TRUE, Masked({"value"}, {"value"})) /\ Fault

\* The run ends when its modules are through, or after an abort or a failure
\* without the ones that have not begun; it takes back what it registered, one
\* by one (withRunScopedSecrets).
EndRun(r) ==
    /\ r \notin host.over
    /\ LET mine == {u \in Users : Of(u) = r}
           through == {u \in mine : Stage(u) = "done"}
       IN /\ \/ through = mine
             \/ (r \in host.aborted \/ \E u \in through : ~ctl.user[u].holds) /\ \A u \in mine \ through : Stage(u) = "start"
          /\ Move(mine, "done", FALSE, UNION {ctl.user[u].told : u \in mine})
    /\ host' = [host EXCEPT !.count = IF @ < host.scoped[r] THEN 0 ELSE @ - host.scoped[r],
                            !.scoped[r] = 0, !.over = @ \cup {r}]
    /\ pc' = IF host.over \cup {r} = Runs THEN "done" ELSE pc
    /\ UNCHANGED faults

Section ==
    /\ Is("runs")
    /\ \/ \E u \in Users : Begin(u) \/ Answered(u) \/ Closed(u) \/ TimedOut(u) \/ ChildEnds(u) \/ OpenBody(u) \/ CloseBody(u)
       \/ \E r \in Runs : EndRun(r)

-----------------------------------------------------------------------------
(* The output of a command                                                 *)

\* Bounds: what a command writes, and the characters that are captured.
Outputs == UNION {[1..n -> {"a", "b"}] : n \in 1..5}
Limit == 4

\* Secrets of one run: one, two that overlap, one that begins another.
SecretSets == {<<>>, <<<<"a">>>>, <<<<"a", "b">>>>, <<<<"a", "a">>>>, <<<<"a", "b", "a">>>>,
               <<<<"a", "b">>, <<"b", "a">>>>, <<<<"a", "b", "b">>, <<"a", "b">>>>}

REDACTED == <<"[", "]">>
Marker == <<"(cut)">>

StreamOK ==
    /\ pc \in {"check", "open", "done"}
    /\ Len(ctl.pending) <= Len(host.text) + 1 /\ Len(ctl.out) <= Limit + 1
    /\ ctl.result \in Results

StreamInit ==
    /\ \E text \in Outputs, secrets \in SecretSets, strict, ignore \in BOOLEAN :
          /\ strict => secrets = <<>>
          /\ host = [kind |-> "stream", text |-> text, secrets |-> secrets, strict |-> strict, ignore |-> ignore, sent |-> 0, valid |-> TRUE]
    /\ faults = 0 /\ pc = "check"
    /\ ctl = Call(1) @@ [pending |-> <<>>, shown |-> <<>>, out |-> <<>>, cut |-> FALSE, timer |-> TRUE]

StartsAt(text, i, word) == i + Len(word) - 1 <= Len(text) /\ SubSeq(text, i, i + Len(word) - 1) = word

\* replaceAll: from the left, without overlaps.
Replace(text, word) ==
    LET from[i \in Nat] ==
            IF i > Len(text) THEN <<>>
            ELSE IF StartsAt(text, i, word) THEN REDACTED \o from[i + Len(word)]
            ELSE <<text[i]>> \o from[i + 1]
    IN from[1]

\* getSecretVariants sorts by length: the longest is replaced first.
Mask(text) == FoldLeft(Replace, text, host.secrets)

\* The window is one character shorter than the longest variant.
Overlap == IF host.secrets = <<>> THEN 0 ELSE Len(host.secrets[1]) - 1

\* CapturedOutput: nothing is added after the cut.
Captured(out, text) ==
    IF out # <<>> /\ Last(out) = Marker[1] THEN out
    ELSE IF Len(out) + Len(text) <= Limit THEN out \o text
    ELSE SubSeq(out \o text, 1, Limit) \o Marker

Write(text, pending) ==
    ctl' = [ctl EXCEPT !.shown = @ \o text, !.out = Captured(@, text), !.pending = pending]

OpenStream ==
    /\ pc = "check"
    /\ Locally(Goto("open"))

\* One chunk, of any size; push masks the whole buffer before it is split.
Push ==
    /\ pc = "open"
    /\ \E n \in 1..(Len(host.text) - host.sent) :
          LET buffer == ctl.pending \o SubSeq(host.text, host.sent + 1, host.sent + n)
              masked == Mask(buffer)
              keep == IF Len(masked) <= Overlap THEN Len(masked) ELSE Overlap
          IN /\ host' = [host EXCEPT !.sent = @ + n]
             /\ IF Len(buffer) <= Overlap THEN ctl' = [ctl EXCEPT !.pending = buffer]
                ELSE Write(SubSeq(masked, 1, Len(masked) - keep), SubSeq(masked, Len(masked) - keep + 1, Len(masked)))
    /\ UNCHANGED <<pc, faults>>

\* Bytes that are no UTF-8: a strict decoder remembers it.
Garble ==
    /\ pc = "open" /\ host.valid /\ Fault
    /\ host' = [host EXCEPT !.valid = FALSE]
    /\ UNCHANGED <<ctl, pc>>

\* drain flushes the window, and then the call is settled.
Drained(result) ==
    LET text == Mask(ctl.pending)
    IN ctl' = [ctl EXCEPT !.shown = @ \o text, !.out = Captured(@, text), !.pending = <<>>,
                          !.timer = FALSE, !.result = result]

\* The command is through: a signal, an exit code, or success.
Exit ==
    /\ pc = "open" /\ host.sent = Len(host.text)
    /\ pc' = "done" /\ UNCHANGED host
    /\ \/ Drained(IF host.strict /\ ~host.valid THEN "failed" ELSE "changed") /\ UNCHANGED faults
       \/ Drained(IF host.ignore /\ ~(host.strict /\ ~host.valid) THEN "ok" ELSE "failed") /\ Fault
       \/ Drained("failed") /\ Fault

\* The stream breaks off.
StreamError ==
    /\ pc = "open" /\ Fault
    /\ pc' = "done" /\ UNCHANGED host
    /\ Drained("raised")

-----------------------------------------------------------------------------

TypeOK == IF Is("runs") THEN RunsOK ELSE StreamOK

Init == RunsInit \/ StreamInit
Next ==
    \/ Section
    \/ Is("runs") /\ \E r \in Runs : Interrupt(r)
    \/ Is("stream") /\ (OpenStream \/ Push \/ Garble \/ Exit \/ StreamError)
Spec == Init /\ [][Next]_vars

-----------------------------------------------------------------------------
(* Properties                                                              *)

\* Whoever holds the value has it masked, whatever the other run does; and a
\* run asks its provider successfully at most once (resolveCachedSecret).
\* However the output was cut into chunks, no secret is visible in it, and
\* with one secret it reads as if the whole text had been masked at once.
ReportsAreTrue ==
    IF Is("runs")
    THEN /\ \A u \in Users : ctl.user[u].holds => host.count > 0
         /\ \A r \in Runs : host.loads[r] <= 1
    ELSE /\ \A k \in 1..Len(host.secrets), i \in 1..Len(ctl.shown) : ~StartsAt(ctl.shown, i, host.secrets[k])
         /\ ctl.result \in {"changed", "ok"} /\ Len(host.secrets) <= 1 =>
               /\ ctl.shown = Mask(host.text)
               /\ ctl.out = Captured(<<>>, ctl.shown)

\* A failed load is forgotten: what is cached as pending is still awaited, the
\* prompt is reserved only while it is open, and no failure shows what the
\* provider printed or the value.
FailuresAreTrue ==
    Is("runs") =>
        /\ \A r \in Runs : host.cache[r] \in Users => Stage(host.cache[r]) = "load"
        /\ \A v \in Users : Stage(v) = "wait" => host.cache[Of(v)] \in Users
        /\ host.busy <=> host.provider = "manual" /\ \E u \in Users : Stage(u) = "load"
        /\ \A u \in Users : ctl.user[u].told = {}

\* After both runs nothing is registered, and every child has ended or was
\* told to.  Whatever ends a command, the window is flushed and the timer is
\* off.
NothingIsLeft ==
    Ended => IF Is("runs") THEN host.count = 0 /\ \A u \in Users : host.child[u] # "running"
             ELSE ctl.pending = <<>> /\ ~ctl.timer
=============================================================================
