-------------------------------- MODULE Remote --------------------------------
(***************************************************************************)
(* One controller that runs check() and apply() of a host module over an   *)
(* SSH connection, and runs the playbook again later.  The modules of the  *)
(* library extend this one: `host` is the part of the remote system a      *)
(* module touches, `ctl` what its calls keep in local variables.           *)
(*                                                                         *)
(* Every command may fail without effect (a non-zero exit the module       *)
(* reads), and every answer may be lost, before or after the work (exec    *)
(* throws, the module raises).                                             *)
(***************************************************************************)
EXTENDS Naturals, Sequences, FiniteSets

CONSTANTS
    MaxFaults,  \* bound: failing commands, lost answers and foreign edits
    MaxRuns     \* bound: runs of the playbook

VARIABLES
    host,    \* the remote system
    ctl,     \* locals of check() and apply(): at least run, from and result
    pc,      \* the next await
    faults   \* faults so far

vars == <<host, ctl, pc, faults>>

\* How a call of check() and apply() ends.  "checked": check() said ok;
\* "raised": an exception; the other ones are results of apply().
Results == {"", "checked", "ok", "changed", "failed", "restored", "diverged", "refused", "busy", "raised"}

Call(run) == [run |-> run, from |-> faults, result |-> ""]

Ended == pc = "done"

\* No fault since this run began.
Clean == ctl.from = faults

Fault == faults < MaxFaults /\ faults' = faults + 1

Return(r) == ctl' = [ctl EXCEPT !.result = r] /\ pc' = "done"

Goto(l) == pc' = l /\ UNCHANGED ctl

\* A step that needs no command.
Locally(step) == step /\ UNCHANGED <<host, faults>>

\* exec: the work is done and `ok` follows, or the command fails and `bad`
\* follows, or the answer is lost.
Exec(work, ok, bad) ==
    \/ host' = work /\ ok /\ UNCHANGED faults
    \/ host' = host /\ bad /\ Fault
    \/ host' \in {host, work} /\ Return("raised") /\ Fault

\* A command whose failure the module ignores.
Attempt(work, next) == Exec(work, next, next)

\* A command without the ignoreExitCode option throws on failure.
Must(work, ok) == Exec(work, ok, Return("raised"))

\* A command that only reads: `answer` is what it finds.
Ask(answer, bad) == Exec(host, answer, bad)

\* The playbook is run again by a new process.
Again(fresh) ==
    /\ Ended /\ ctl.run < MaxRuns
    /\ ctl' = fresh /\ pc' = "check"
    /\ UNCHANGED <<host, faults>>
=============================================================================
