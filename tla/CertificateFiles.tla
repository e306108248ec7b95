--------------------------- MODULE CertificateFiles ---------------------------
(***************************************************************************)
(* ssh.trustedUserCa and ssh.authorizedPrincipals: root's certificate      *)
(* files are replaced one by one, each with a verified copy beside it, and *)
(* put back in the opposite order when a later step fails.  All of it runs *)
(* inside a section of the sshd commit lease (SshdLease).                  *)
(***************************************************************************)
EXTENDS Remote

Files == {"ca", "rev", "conf", "user"}

\* "had" is content of earlier, "theirs" what somebody else writes meanwhile;
\* "bare" is an sshd_config without the three directives.
Contents == {"none", "want", "had", "bare", "theirs"}

Fresh(run) ==
    [run |-> run, from |-> faults, result |-> "", seen |-> host.file, todo |-> <<>>, staged |-> {}, touched |-> <<>>,
     kept |-> {}, made |-> FALSE, loaded |-> FALSE, bad |-> FALSE, orig |-> host]

TypeOK ==
    /\ pc \in {"check", "prepare", "assess", "validate", "parent", "stage", "back up", "assert", "publish", "confirm", "effective",
               "reload", "readable", "cleanup", "undo", "put back", "undo tidy", "undo parent", "undo reload", "done"}
    /\ host.file \in [Files -> Contents] /\ host.live \in Contents \ {"none"} /\ host.tmp \subseteq Files
    /\ ctl.result \in Results /\ ctl.staged \cup ctl.kept \subseteq Files /\ faults \in 0..MaxFaults

\* `revoked`: a revocation file is configured; `parent`: the directory of the
\* revocation or principals file is there; `live`: what sshd has loaded.
Init ==
    /\ \E kind \in {"ca", "user"}, present, revoked, parent, readable \in BOOLEAN, ca, rev, user \in {"none", "want", "had"},
          conf, live \in {"bare", "want", "had"} :
          /\ kind = "ca" => user = "none" /\ readable /\ (~revoked => parent) /\ (~present => ~revoked)
          /\ kind = "user" => (~present => readable) /\ ca = "none" /\ rev = "none" /\ ~revoked /\ conf = "bare" /\ live = conf
          /\ ~parent => rev = "none" /\ user = "none"
          /\ rev # "want" /\ (~revoked => rev = "none") /\ live \in (IF conf = "want" THEN {conf, "bare"} ELSE {conf})
          /\ conf = "want" => ca # "none"
          /\ host = [kind |-> kind, present |-> present, revoked |-> revoked, parent |-> parent, readable |-> readable,
                     file |-> [ca |-> ca, rev |-> rev, conf |-> conf, user |-> user], live |-> live,
                     tmp |-> {}, late |-> FALSE, lost |-> FALSE]
    /\ faults = 0 /\ pc = "check" /\ ctl = Fresh(1)

Goal(f) == IF host.present THEN "want" ELSE IF f = "conf" THEN "bare" ELSE "none"

\* certificateFileMatches: a revocation file is only created, never changed.
Matches(f) == IF f = "rev" THEN host.file.rev # "none" ELSE host.file[f] = Goal(f)

\* caConverged, and the same of the principals file.
Converged ==
    IF host.kind = "user" THEN Matches("user") /\ (host.present => host.readable)
    ELSE Matches("conf") /\ Matches("ca") /\ (host.present /\ host.revoked => Matches("rev"))

\* The files in the order of applyCa, with its commands between them.
Plan ==
    CASE host.kind = "user" -> IF host.present THEN <<"user", "readable">> ELSE <<"user">>
      [] host.kind = "ca" /\ host.present ->
            <<"ca">> \o (IF host.revoked THEN <<"rev">> ELSE <<>>)
            \o IF Matches("conf") THEN <<"effective">> ELSE <<"conf", "effective", "reload">>
      [] OTHER -> IF Matches("conf") THEN <<"effective", "reload", "ca">> ELSE <<"conf", "effective", "reload", "ca">>

Now == Head(ctl.todo)

\* write() and remove() pass over a file that is as it should be.
Passed(c, f) == f \in Files /\ (IF Goal(f) = "none" THEN c.seen[f] = "none" ELSE Matches(f))

\* The next entry of the plan: the files that are passed over come first.
Step(c) ==
    \E n \in 0..Len(c.todo) :
        LET left == SubSeq(c.todo, n + 1, Len(c.todo))
        IN /\ \A i \in 1..n : Passed(c, c.todo[i])
           /\ left # <<>> => ~Passed(c, Head(left))
           /\ ctl' = [c EXCEPT !.todo = left]
           /\ pc' = IF left = <<>> THEN "cleanup" ELSE IF Head(left) \in Files THEN "parent" ELSE Head(left)
Advance == Step([ctl EXCEPT !.todo = Tail(@)])

Undo == Goto("undo")

\* A command whose failure is caught by the module, which rolls back; when
\* the connection is gone, the rollback's commands fail as well.
Command(work, ok) ==
    \/ host' = work /\ ok /\ UNCHANGED faults
    \/ host' \in {host, work} /\ Fault /\ (Undo \/ Return("failed"))

-----------------------------------------------------------------------------
(* check() and the guards                                                  *)

Check ==
    /\ pc = "check"
    /\ Ask(IF Converged THEN Return("checked") ELSE Goto("prepare"), Goto("prepare"))

\* prepareCa, principalFile: another CA's settings are not removed.
Prepare ==
    /\ pc = "prepare"
    /\ LET foreign == host.kind = "ca" /\ ~host.present /\ host.file.conf \in {"had", "theirs"}
           start == [ctl EXCEPT !.seen = host.file, !.todo = Plan, !.orig = host]
           apply == IF host.kind = "ca" THEN ctl' = start /\ pc' = "validate" ELSE Step(start)
       IN Ask(IF foreign THEN Return("refused") ELSE IF Converged THEN Goto("assess") ELSE apply, Return("refused"))

Assess ==
    /\ pc = "assess"
    /\ Ask(Return("ok"), Return("refused"))

Validate ==
    /\ pc = "validate"
    /\ Command(host, Step(ctl))

-----------------------------------------------------------------------------
(* CertificateFilesTransaction: snapshot, write, remove                    *)

\* prepareParents: the rollback knows of the directory before mkdir runs.
Parent ==
    /\ pc = "parent"
    /\ LET missing == ~host.parent /\ Now \in {"rev", "user"}
           noted == [ctl EXCEPT !.made = @ \/ missing]
       IN IF host.file[Now] # ctl.seen[Now] THEN Command(host, Undo)
          ELSE \/ host' = [host EXCEPT !.parent = @ \/ missing] /\ ctl' = noted /\ pc' = "stage" /\ UNCHANGED faults
               \/ /\ host' \in {host, [host EXCEPT !.parent = @ \/ missing]} /\ Fault
                  /\ \/ ctl' = noted /\ pc' = "undo"
                     \/ ctl' = [noted EXCEPT !.result = "failed"] /\ pc' = "done"

\* mktemp -d beside the file; known only by its answer.
Stage ==
    /\ pc = "stage"
    /\ Command([host EXCEPT !.tmp = @ \cup {Now}], ctl' = [ctl EXCEPT !.staged = @ \cup {Now}] /\ pc' = "back up")

BackUp ==
    /\ pc = "back up"
    /\ Command(host, IF host.file[Now] = ctl.seen[Now] THEN Goto("assert") ELSE Undo)

\* assertOriginalUnchanged; what follows counts as done before it runs.
AssertOriginal ==
    /\ pc = "assert"
    /\ Command(host, IF host.file[Now] = ctl.seen[Now]
                     THEN ctl' = [ctl EXCEPT !.touched = <<Now>> \o @] /\ pc' = "publish" ELSE Undo)

Replaced(f, content, known) == [host EXCEPT !.file[f] = content, !.lost = @ \/ host.file[f] \notin known]

\* mv -T of the candidate, or rm.
Publish ==
    /\ pc = "publish"
    /\ Command(Replaced(Now, Goal(Now), {ctl.seen[Now]}), IF Goal(Now) = "none" THEN Advance ELSE Goto("confirm"))

Confirm ==
    /\ pc = "confirm"
    /\ Command(host, IF host.file[Now] = Goal(Now) THEN Advance ELSE Undo)

-----------------------------------------------------------------------------
(* applyCa, applyPrincipal                                                 *)

Effective ==
    /\ pc = "effective"
    /\ Command(host, IF host.file.conf = Goal("conf") THEN Advance ELSE Undo)

\* Once it was attempted the rollback reloads as well.
Reload ==
    /\ pc = "reload"
    /\ LET tried == [ctl EXCEPT !.loaded = TRUE]
           work == [host EXCEPT !.live = host.file.conf]
       IN \/ host' = work /\ Step([tried EXCEPT !.todo = Tail(@)]) /\ UNCHANGED faults
          \/ /\ host' \in {host, work} /\ Fault
             /\ ((ctl' = tried /\ pc' = "undo") \/ Return("failed"))

Readable ==
    /\ pc = "readable"
    /\ Command(host, IF host.readable THEN Advance ELSE Undo)

Cleanup ==
    /\ pc = "cleanup"
    /\ \/ host' = [host EXCEPT !.tmp = @ \ ctl.staged] /\ Return("changed") /\ UNCHANGED faults
       \/ \E some \in SUBSET ctl.staged : host' = [host EXCEPT !.tmp = @ \ some] /\ Return("failed") /\ Fault

-----------------------------------------------------------------------------
(* rollback, rollbackCa: every step is tried, whatever failed before it.   *)

Last == Head(ctl.touched)
Retained == ctl' = [ctl EXCEPT !.kept = @ \cup {Last}, !.bad = TRUE, !.touched = Tail(@)] /\ pc' = "undo"
Restored == ctl' = [ctl EXCEPT !.touched = Tail(@)] /\ pc' = "undo"

\* restore: a file that is neither the old nor the new one is left alone.
UndoFile ==
    /\ pc = "undo"
    /\ IF ctl.touched = <<>> THEN Locally(Goto("undo tidy"))
       ELSE \/ /\ UNCHANGED <<host, faults>>
               /\ IF host.file[Last] = ctl.seen[Last] THEN Restored
                  ELSE IF host.file[Last] = Goal(Last) THEN Goto("put back") ELSE Retained
            \/ UNCHANGED host /\ Retained /\ Fault

PutBack ==
    /\ pc = "put back"
    /\ LET work == Replaced(Last, ctl.seen[Last], {Goal(Last), ctl.seen[Last]})
       IN \/ host' = work /\ Restored /\ UNCHANGED faults
          \/ host' \in {host, work} /\ Retained /\ Fault

\* cleanup: the copies of files that could not be put back are kept.
UndoTidy ==
    /\ pc = "undo tidy"
    /\ \/ host' = [host EXCEPT !.tmp = @ \ (ctl.staged \ ctl.kept)] /\ Goto("undo parent") /\ UNCHANGED faults
       \/ \E some \in SUBSET (ctl.staged \ ctl.kept) :
             /\ host' = [host EXCEPT !.tmp = @ \ some] /\ Fault
             /\ ctl' = [ctl EXCEPT !.bad = TRUE] /\ pc' = "undo parent"

Finish(c) ==
    IF c.loaded THEN ctl' = c /\ pc' = "undo reload"
    ELSE ctl' = [c EXCEPT !.result = IF c.bad THEN "failed" ELSE "restored"] /\ pc' = "done"

\* rmdir of the directories prepareParents made; not of one in use.
UndoParent ==
    /\ pc = "undo parent"
    /\ LET used == host.tmp \cap {"rev", "user"} # {} \/ host.file.rev # "none" \/ host.file.user # "none"
           removed == [host EXCEPT !.parent = FALSE]
           failed == Finish([ctl EXCEPT !.bad = TRUE])
       IN IF ~ctl.made \/ ~host.parent THEN Locally(Finish(ctl))
          ELSE IF used THEN Locally(failed)
          ELSE \/ host' = removed /\ Finish(ctl) /\ UNCHANGED faults
               \/ host' \in {host, removed} /\ failed /\ Fault

\* restoreReload
UndoReload ==
    /\ pc = "undo reload"
    /\ LET work == [host EXCEPT !.live = host.file.conf]
       IN \/ host' = work /\ Return(IF ctl.bad THEN "failed" ELSE "restored") /\ UNCHANGED faults
          \/ host' \in {host, work} /\ Return("failed") /\ Fault

\* Somebody edits a file.  Between a comparison and the mv or rm that follows
\* it nothing can notice.
Edit ==
    /\ pc \in {"stage", "publish", "effective", "undo", "put back"} /\ Fault
    /\ \E f \in Files :
          /\ host.file[f] \notin {"none", "theirs"}
          /\ host' = [host EXCEPT !.file[f] = "theirs",
                                  !.late = @ \/ (pc = "publish" /\ f = Now) \/ (pc = "put back" /\ f = Last)]
    /\ UNCHANGED <<ctl, pc>>

Section ==
    \/ Check \/ Prepare \/ Assess \/ Validate \/ Parent \/ Stage \/ BackUp \/ AssertOriginal \/ Publish \/ Confirm \/ Effective
    \/ Reload \/ Readable \/ Cleanup \/ UndoFile \/ PutBack \/ UndoTidy \/ UndoParent \/ UndoReload
Next == Section \/ Edit \/ Again(Fresh(ctl.run + 1))
Spec == Init /\ [][Next]_vars

-----------------------------------------------------------------------------
(* Properties                                                              *)

\* Every file is the desired one, unless an edit came since; a configuration
\* that was written has been loaded.
ReportsAreTrue ==
    /\ Clean /\ ctl.result \in {"changed", "ok", "checked"} => Converged
    /\ Clean /\ ctl.result = "changed" /\ ctl.loaded => host.live = host.file.conf

\* "previous files and metadata restored", the directory and what sshd has
\* loaded included.
FailuresAreTrue ==
    ctl.result = "restored" =>
        /\ \A f \in Files : host.file[f] \in {ctl.orig.file[f], "theirs"}
        /\ host.parent = ctl.orig.parent
        /\ ctl.loaded => host.live = host.file.conf \/ host.file.conf = "theirs"

\* One fault never leaves sshd with a configuration that trusts a CA whose
\* file is gone, for those who came in by it.
AccessIsKept ==
    faults <= 1 /\ ctl.orig.live = "want" /\ ctl.orig.file.ca # "none" /\ host.live = "want" => host.file.ca # "none"

\* An edit by others is overwritten only when it came after the last look,
\* which nothing can catch (assertOriginalUnchanged and the rename are two
\* commands).
EditsSurvive == host.lost => host.late

\* A copy is kept for a file that could not be put back; what else stays is
\* of a failed or unanswered removal.
NothingIsLeft == Ended /\ host.tmp # {} => faults > 0

\* A run without faults converges or refuses, or the user's file cannot be
\* read (sshCertificateModules.ts).
CleanRunConverges ==
    Ended /\ Clean => Converged \/ ctl.result = "refused" \/ (host.kind = "user" /\ host.present /\ ~host.readable)
=============================================================================
