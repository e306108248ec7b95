----------------------------- MODULE SshdConfig -----------------------------
(***************************************************************************)
(* sshd.config(settings) of modules/sshd.ts with the text algorithm of     *)
(* sshdConfigHelpers.ts: the file is a sequence of lines, each a directive *)
(* with a value, and everything behind the first Match line belongs to     *)
(* Match blocks.  The daemon runs on what it last loaded; an included file *)
(* read before the main one wins over it.                                  *)
(***************************************************************************)
EXTENDS Remote

Key == "PasswordAuthentication"
Desired == "no"

Line(k, v) == [key |-> k, value |-> v]
MatchLine == Line("Match", "User git")
Edit == Line("Banner", "none")

\* Files the operator may start from: the directive absent, commented out
\* (no line), repeated, wrong, and overridden inside a Match block.
Files ==
    {<<>>, <<Line(Key, "yes")>>, <<Line(Key, "no")>>,
     <<Line(Key, "yes"), Line("UsePAM", "yes"), Line(Key, "yes")>>,
     <<MatchLine, Line(Key, "no")>>, <<Line("UsePAM", "yes"), MatchLine, Line(Key, "yes")>>}

\* Index of the first Match line, or one past the end.
FirstMatch(file) ==
    LET matches == {i \in DOMAIN file : file[i].key = "Match"}
    IN IF matches = {} THEN Len(file) + 1 ELSE CHOOSE i \in matches : \A j \in matches : i <= j

\* collectTopLevelSshdDirectiveValues, as the indices of the lines.
TopLevel(file) == {i \in 1..(FirstMatch(file) - 1) : file[i].key = Key}

\* A security relevant directive keeps another value inside a Match block.
Contradicted(file) ==
    \E i \in FirstMatch(file)..Len(file) : file[i].key = Key /\ file[i].value # Desired

HasEdit(file) == \E i \in DOMAIN file : file[i] = Edit

\* sshdSettingMatchesEverywhere.
MatchesEverywhere(file) ==
    /\ TopLevel(file) # {} /\ \A i \in TopLevel(file) : file[i].value = Desired
    /\ ~Contradicted(file)

\* applySshdSettingToContent: every top-level occurrence is rewritten; a
\* missing one goes in front of the first Match line or to the end.
ApplySetting(file) ==
    LET m == FirstMatch(file)
    IN IF TopLevel(file) # {}
       THEN [i \in DOMAIN file |-> IF i \in TopLevel(file) THEN Line(Key, Desired) ELSE file[i]]
       ELSE SubSeq(file, 1, m - 1) \o <<Line(Key, Desired)>> \o SubSeq(file, m, Len(file))

\* What sshd -T prints for the directive: the first value wins, an included
\* file comes first.
Effective(h) ==
    IF h.include # "" THEN h.include
    ELSE IF TopLevel(h.file) = {} THEN "yes"
    ELSE h.file[CHOOSE i \in TopLevel(h.file) : \A j \in TopLevel(h.file) : i <= j].value

-----------------------------------------------------------------------------

Fresh(run) ==
    [run |-> run, from |-> faults, result |-> "", original |-> <<>>, loaded |-> <<>>, sawEdit |-> FALSE, edited |-> host.edited]

TypeOK ==
    /\ pc \in {"check", "effective", "read", "unit", "temp", "validate", "cleanup", "guard", "write",
               "verify", "reload", "unwrite", "rereload", "unverified", "done"}
    /\ ctl.result \in Results
    /\ host.tmp \in 0..MaxRuns /\ host.include \in {"", "yes", "no"}
    /\ faults \in 0..MaxFaults

Init ==
    /\ \E file \in Files, include \in {"", "yes", "no"}, reloads \in BOOLEAN :
          host = [file |-> file, loaded |-> file, include |-> include, reloads |-> reloads,
                  tmp |-> 0, edited |-> FALSE]
    /\ faults = 0 /\ pc = "check" /\ ctl = Fresh(1)

\* check(): the text first, then sshd -T; whatever cannot be read needs apply.
Check ==
    /\ pc = "check"
    /\ Must(host, Goto(IF MatchesEverywhere(host.file) THEN "effective" ELSE "read"))

CheckEffective ==
    /\ pc = "effective"
    /\ Ask(IF Effective(host) = Desired THEN Return("checked") ELSE Goto("read"), Goto("read"))

NewContent == ApplySetting(ctl.original)
DidChange == NewContent # ctl.original

\* Read under the lease.  A contradicting Match block is never touched.
Read ==
    /\ pc = "read"
    /\ LET new == ApplySetting(host.file)
           known == [ctl EXCEPT !.original = host.file, !.loaded = host.loaded]
       IN Must(host,
               IF Contradicted(new) THEN Return("refused")
               ELSE /\ ctl' = known
                    /\ pc' = IF new = host.file THEN "verify" ELSE "unit")

\* preflightSshdReloadUnit: without a service unit nothing is written.
Preflight ==
    /\ pc = "unit"
    /\ Ask(Goto("temp"), Return("refused"))

\* Mutant: every attempt leaves a second file.
AllocateTemp_Twice ==
    /\ pc = "temp"
    /\ Exec([host EXCEPT !.tmp = @ + 2], Goto("validate"), Return("refused"))

\* validateProspectiveSshdConfig: mktemp, write, sshd -t, and rm in finally.
AllocateTemp ==
    /\ pc = "temp"
    /\ Exec([host EXCEPT !.tmp = @ + 1], Goto("validate"), Return("refused"))

\* Mutant: the rm is not in a finally block.
Validate_NoFinally ==
    /\ pc = "validate" /\ UNCHANGED host
    /\ \/ Goto("cleanup") /\ UNCHANGED faults
       \/ Fault /\ Return("refused")

\* Writing the candidate, the privilege separation directory and sshd -t:
\* whichever fails, the rm of the finally block follows.
Validate ==
    /\ pc = "validate" /\ UNCHANGED host
    /\ \/ Goto("cleanup") /\ UNCHANGED faults
       \/ Fault /\ pc' = "cleanup" /\ ctl' = [ctl EXCEPT !.result = "refused"]

Cleanup ==
    /\ pc = "cleanup"
    /\ \/ /\ host' = [host EXCEPT !.tmp = @ - 1]
          /\ pc' = IF ctl.result = "" THEN "guard" ELSE "done"
          /\ UNCHANGED <<ctl, faults>>
       \/ Fault /\ Return("raised") /\ UNCHANGED host

\* Mutant: the file is written without being compared.
Guard_Blind ==
    /\ pc = "guard"
    /\ Locally(ctl' = [ctl EXCEPT !.sawEdit = HasEdit(host.file)] /\ pc' = "write")

\* guardedWriteFile reads the file once more and refuses a foreign edit.
Guard ==
    /\ pc = "guard"
    /\ Ask(IF host.file = ctl.original
           THEN ctl' = [ctl EXCEPT !.sawEdit = HasEdit(host.file)] /\ pc' = "write"
           ELSE Return("refused"),
           Return("refused"))

\* A write that fails after its work is found by reading the file back, and
\* undone; the rewrite may fail as well.
Write ==
    /\ pc = "write"
    /\ LET written == [host EXCEPT !.file = NewContent]
       IN \/ host' = written /\ Goto("verify") /\ UNCHANGED faults
          \/ host' \in {host, [host EXCEPT !.file = ctl.original]} /\ Return("refused") /\ Fault
          \/ host' = written /\ Return("diverged") /\ Fault

\* sshd -T against the new file.  A mismatch or a missing answer undoes a
\* change; nothing was reloaded, so nothing has to be reloaded back.
Verify ==
    /\ pc = "verify"
    /\ LET mismatch == IF DidChange THEN Goto("unverified") ELSE Return("failed")
           match == IF DidChange THEN Goto("reload") ELSE Return("ok")
       IN Ask(IF Effective(host) = Desired THEN match ELSE mismatch, mismatch)

\* Three attempts to write the original, then the file is read and compared.
UndoUnverified ==
    /\ pc = "unverified"
    /\ LET undone == [host EXCEPT !.file = ctl.original]
       IN \/ host' = undone /\ Return("restored") /\ UNCHANGED faults
          \/ host' \in {host, undone} /\ Return("diverged") /\ Fault

\* systemctl reload, or reload-or-restart without an ExecReload.  A reload
\* that reports failure may have loaded the file.
Reload ==
    /\ pc = "reload"
    /\ LET loaded == [host EXCEPT !.loaded = host.file]
       IN \/ host' = loaded /\ Return("changed") /\ UNCHANGED faults
          \/ host' \in {host, loaded} /\ Goto("unwrite") /\ Fault

UndoReload ==
    /\ pc = "unwrite"
    /\ LET undone == [host EXCEPT !.file = ctl.original]
       IN Exec(undone, Goto("rereload"), Return("diverged"))

\* The daemon follows the restored file; a unit without ExecReload is left
\* alone and the operator is told to restart it.
ReloadBack ==
    /\ pc = "rereload"
    /\ IF host.reloads
       THEN Exec([host EXCEPT !.loaded = host.file], Return("restored"), Return("diverged"))
       ELSE Locally(Return("diverged"))

-----------------------------------------------------------------------------

\* An administrator adds a line in front of the Match blocks.
EditFile ==
    /\ ~host.edited /\ ~Ended /\ Fault
    /\ host' = [host EXCEPT !.file = <<Edit>> \o @, !.edited = TRUE]
    /\ UNCHANGED <<ctl, pc>>

Section == Check \/ CheckEffective \/ Read \/ Preflight \/ AllocateTemp \/ Validate \/ Cleanup
           \/ Guard \/ Write \/ Verify \/ UndoUnverified \/ Reload \/ UndoReload \/ ReloadBack

Next == Section \/ EditFile \/ Again(Fresh(ctl.run + 1))
Spec == Init /\ [][Next]_vars

-----------------------------------------------------------------------------
(* Properties                                                              *)

\* No edit fell between two commands of this run.
NoRace == host.edited => (HasEdit(ctl.original) \/ ctl.edited)

\* "changed" means that the daemon runs the file, that every top-level
\* occurrence has the requested value, that no Match block contradicts it and
\* that no include wins over it.
ReportsAreTrue ==
    (ctl.result = "changed" /\ NoRace) =>
        /\ MatchesEverywhere(host.file) /\ Effective(host) = Desired
        /\ host.loaded = host.file

\* A failure that claims the previous configuration is back is true of the
\* file and of the daemon (runPostRollbackReloadOrSurfaceManualRestart).
FailuresAreTrue ==
    (ctl.result = "restored" /\ NoRace) =>
        host.file = ctl.original /\ host.loaded \in {ctl.loaded, ctl.original}

\* An edit made before the guard read the file is never overwritten by a
\* successful apply (guardedWriteFile).
EditsSurvive ==
    (ctl.result \in {"ok", "changed"} /\ ctl.sawEdit) =>
        HasEdit(host.file)

\* The candidate under /tmp outlives the call only if the connection died.
NothingIsLeft == (Ended /\ ctl.result # "raised" /\ ctl.run = 1) => host.tmp = 0

\* A run without faults on a host whose blocks and includes do not object
\* leaves the directive effective, whatever an earlier run left behind.
CleanRunConverges ==
    (Ended /\ Clean /\ host.include # "yes" /\ ~Contradicted(host.file)) =>
        Effective(host) = Desired /\ ctl.result \in {"checked", "ok", "changed"}
=============================================================================
