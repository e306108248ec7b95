------------------------------ MODULE GitClone ------------------------------
(***************************************************************************)
(* git.clone: a repository is cloned into a staging directory beside the   *)
(* destination and renamed, or an existing one is pointed at the origin,   *)
(* fetched, checked out and reset.  Commits are "tip", what the reference  *)
(* means at the origin now, and "old".                                     *)
(***************************************************************************)
EXTENDS Remote, TLC

Commits == {"none", "old", "tip"}
References == {"", "branch", "tag", "sha"}

Fresh(run) == Call(run) @@ [orig |-> host, head |-> "none", fallback |-> FALSE, retry |-> FALSE]

TypeOK ==
    /\ pc \in {"check", "links", "stage", "clone", "checkout clone", "publish", "drop", "origin", "previous",
               "fetch", "checkout", "probe", "reset", "current", "done"}
    /\ host.dest \in {"none", "dir", "repo", "link"} /\ {host.head, host.branch, host.track, host.staged} \subseteq Commits
    /\ ctl.result \in Results /\ ctl.head \in Commits /\ faults \in 0..MaxFaults

\* `branch` is the local branch of that name, `track` what was fetched of the
\* origin's.
Init ==
    /\ \E dest \in {"none", "dir", "repo", "link"}, head, branch, track \in Commits, origin, ref \in References :
          /\ dest = "repo" => head # "none"
          /\ dest # "repo" => head = "none" /\ branch = "none" /\ track = "none" /\ origin = ""
          /\ origin \in {"", "branch"} /\ (branch # "none" => ref = "branch")
          /\ (head = "tip" => track = "tip")
          /\ host = [dest |-> dest, head |-> head, branch |-> branch, track |-> track, ref |-> ref,
                     origin |-> origin = "", staged |-> "none"]
    /\ faults = 0 /\ pc = "check" /\ ctl = Fresh(1)

\* checkHeadMatchesReference: the worktree's commit is what the origin says.
InState(h) == h.dest = "repo" /\ h.origin /\ h.head = "tip"

Check ==
    /\ pc = "check"
    /\ Ask(IF InState(host) THEN Return("checked") ELSE Goto("links"), Goto("links"))

\* findSymlinkInAncestorWalk, then whether there is a repository.
Links ==
    /\ pc = "links"
    /\ Ask(CASE host.dest = "link" -> Return("refused")
             [] host.dest = "repo" -> Goto("origin")
             [] OTHER -> Goto("stage"),
           Goto("stage"))

-----------------------------------------------------------------------------
(* cloneRepo                                                               *)

\* allocateRemoteStagingDirectory.
Stage ==
    /\ pc = "stage"
    /\ Exec([host EXCEPT !.staged = "old"], Goto("clone"), Return("failed"))

\* `clone --branch` takes no commit; any failure is tried once more without.
Clone ==
    /\ pc = "clone"
    /\ LET work == [host EXCEPT !.staged = IF host.ref = "" \/ ~ctl.fallback THEN "tip" ELSE "old"]
           next == Goto(IF ctl.fallback THEN "checkout clone" ELSE "publish")
           failed == ctl' = [ctl EXCEPT !.retry = host.ref # "" /\ ~ctl.fallback] /\ pc' = "drop"
       IN IF host.ref = "sha" /\ ~ctl.fallback THEN Ask(failed, failed)
          ELSE Exec(work, next, failed)

\* cloneRepoFallback.
CheckoutClone ==
    /\ pc = "checkout clone"
    /\ Exec([host EXCEPT !.staged = "tip"], Goto("publish"), Goto("drop"))

\* publishRemoteStagedDirectory: nothing that is there is replaced.
Publish ==
    /\ pc = "publish"
    /\ LET local == IF host.ref = "branch" /\ ~ctl.fallback THEN host.staged ELSE host.branch
       IN IF host.dest # "none" THEN Ask(Goto("drop"), Goto("drop"))
          ELSE Exec([host EXCEPT !.dest = "repo", !.head = host.staged, !.branch = local, !.track = "tip",
                                 !.origin = TRUE, !.staged = "none"],
                    Return("changed"), Goto("drop"))

\* cleanupRemoteStagingPath, between the two ways to clone and after a failure.
Drop ==
    /\ pc = "drop"
    /\ Attempt([host EXCEPT !.staged = "none"],
               IF ctl.retry THEN ctl' = [ctl EXCEPT !.fallback = TRUE, !.retry = FALSE] /\ pc' = "stage"
               ELSE Return("failed"))

-----------------------------------------------------------------------------
(* applyExistingRepo                                                       *)

\* ensureOriginUrl.
Origin ==
    /\ pc = "origin"
    /\ IF host.origin THEN Ask(Goto("previous"), Goto("previous"))
       ELSE Exec([host EXCEPT !.origin = TRUE], Goto("previous"), Return("failed"))

\* readWorktreeHead.
Previous ==
    /\ pc = "previous"
    /\ Ask(ctl' = [ctl EXCEPT !.head = host.head] /\ pc' = "fetch", Goto("fetch"))

Fetch ==
    /\ pc = "fetch"
    /\ Exec([host EXCEPT !.track = "tip"], Goto(IF host.ref = "" THEN "reset" ELSE "checkout"), Return("failed"))

\* git checkout: a local branch as it is, a missing one from the origin's.
CheckedOut(h) ==
    LET commit == IF h.ref = "branch" /\ h.branch # "none" THEN h.branch ELSE h.track
    IN [h EXCEPT !.head = commit, !.branch = IF h.ref = "branch" THEN commit ELSE @]

Checkout ==
    /\ pc = "checkout"
    /\ Exec(CheckedOut(host), Goto("probe"), Return("failed"))

\* isRemoteTrackingBranch: --format=%(refname) stands unquoted in a shell's
\* command line, which no shell accepts, so that no reference is a branch.
Tracking(h) == FALSE

Probe ==
    /\ pc = "probe"
    /\ Ask(Goto("reset"), Goto("reset"))

\* git reset --hard, to FETCH_HEAD, the origin's branch or the reference.
Resetted(h) ==
    IF h.ref = "" \/ Tracking(h) THEN [h EXCEPT !.head = h.track, !.branch = IF h.ref = "branch" THEN h.track ELSE @]
    ELSE CheckedOut(h)

Reset ==
    /\ pc = "reset"
    /\ Exec(Resetted(host), Goto("current"), Return("failed"))

Current ==
    /\ pc = "current"
    /\ Ask(Return(IF ctl.head = host.head THEN "ok" ELSE "changed"), Return("changed"))

\* Somebody makes the destination while the clone is staged.
Appear ==
    /\ pc \in {"clone", "publish"} /\ host.dest = "none" /\ Fault
    /\ host' = [host EXCEPT !.dest = "dir"]
    /\ UNCHANGED <<ctl, pc>>

Section ==
    \/ Check \/ Links \/ Stage \/ Clone \/ CheckoutClone \/ Publish \/ Drop \/ Origin \/ Previous \/ Fetch
    \/ Checkout \/ Probe \/ Reset \/ Current
Next == Section \/ Appear \/ Again(Fresh(ctl.run + 1))
Spec == Init /\ [][Next]_vars

-----------------------------------------------------------------------------
(* Properties                                                              *)

StaleBranch == host.ref = "branch" /\ host.branch = "old"

\* The worktree is where the reference is; a local branch that fell behind the
\* origin's is where it was (updateRepo).  "ok" did not move it.
ReportsAreTrue ==
    /\ ctl.result \in {"checked", "changed", "ok"} =>
          host.dest = "repo" /\ host.origin /\ (host.head = "tip" \/ StaleBranch)
    /\ ctl.result = "ok" => host.head = ctl.orig.head

\* "If so, it runs `reset --hard origin/<reference>` to advance to the branch
\* tip" (git.ts:242).
AsDocumented ==
    Clean /\ ctl.result \in {"changed", "ok"} /\ host.ref = "branch" => host.head = "tip"

\* Whatever fails, a directory that is no repository stays.
EditsSurvive == ctl.orig.dest \in {"dir", "link"} => host.dest = ctl.orig.dest

\* A staging directory outlives a call only after a fault (git.ts).
NothingIsLeft == Ended /\ host.staged # "none" => faults > 0

\* A run without faults ends at the wanted commit, apart from the branch that
\* AsDocumented is about.
CleanRunConverges == Ended /\ Clean => InState(host) \/ host.dest \in {"dir", "link"} \/ StaleBranch
=============================================================================
