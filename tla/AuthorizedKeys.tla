---------------------------- MODULE AuthorizedKeys ----------------------------
(***************************************************************************)
(* ssh.authorizedKeys: one line of a user's authorized_keys, rewritten in  *)
(* a temporary file beside it and renamed over it.  Nothing keeps other    *)
(* writers away between the copy and the rename.                           *)
(***************************************************************************)
EXTENDS Remote

\* `other` is the last line somebody else has there, `eol` whether it ends
\* in a newline; `theirs` is a line added meanwhile.
Lines == [key : BOOLEAN, other : {"none", "here", "spoilt"}, eol : BOOLEAN, theirs : BOOLEAN]
Empty == [key |-> FALSE, other |-> "none", eol |-> TRUE, theirs |-> FALSE]

\* "other": the mode and the owner are right, but the group is one that has
\* the user's name without being the primary group.
Owned == {"none", "good", "other", "loose", "link"}

Fresh(run) ==
    [run |-> run, from |-> faults, result |-> "", was |-> host.tmp, mine |-> FALSE, group |-> "primary", staged |-> Empty, out |-> ""]

TypeOK ==
    /\ pc \in {"check", "home", "needs", "group", "guard", "converged", "mktemp", "stage", "replace", "rm", "done"}
    /\ host.lines \in Lines /\ ctl.staged \in Lines /\ {host.dir, host.file} \subseteq Owned
    /\ ctl.group \in {"primary", "other", "none"} /\ host.tmp \in 0..MaxRuns /\ ctl.result \in Results /\ faults \in 0..MaxFaults

Init ==
    /\ \E kind \in {"present", "absent"}, named \in {"primary", "other", "none"}, user, key, eol \in BOOLEAN, dir, file \in Owned,
          other \in {"none", "here"} :
          /\ file # "none" => dir # "none" /\ user
          /\ dir # "none" => user
          /\ file = "none" => ~key /\ other = "none"
          /\ other = "none" => eol
          /\ ~user => named = "none"
          /\ dir = "other" \/ file = "other" => named = "other"
          /\ host = [kind |-> kind, user |-> user, named |-> named, dir |-> dir, file |-> file, whole |-> eol,
                     lines |-> [Empty EXCEPT !.key = key, !.other = other, !.eol = eol],
                     tmp |-> 0, bak |-> FALSE, edited |-> FALSE, late |-> FALSE, blind |-> FALSE]
    /\ faults = 0 /\ pc = "check" /\ ctl = Fresh(1)

Is(kind) == host.kind = kind
Missing == ~host.user \/ host.dir = "none" \/ host.file = "none"
\* What chown to that group makes of a path with the right mode.
Chowned(group) == IF group = "primary" THEN "good" ELSE "other"
Secure(group) == host.dir = Chowned(group) /\ host.file = Chowned(group)
InStateFor(group) == IF Missing THEN Is("absent") ELSE Secure(group) /\ host.lines.key = Is("present")
InState == InStateFor("primary")

\* `getent | cut`, ssh.exists and ssh.test take every failure for "no".
Blind(next) == next /\ host' = [host EXCEPT !.blind = TRUE] /\ Fault

Check ==
    /\ pc = "check"
    /\ \/ Ask(IF InState THEN Return("checked") ELSE Goto("home"), Goto("home"))
       \/ Is("absent") /\ Blind(Return("checked"))
       \/ /\ host.named = "other" /\ InStateFor("other") /\ UNCHANGED host /\ Fault
          /\ ctl' = [ctl EXCEPT !.group = "other", !.result = "checked"] /\ pc' = "done"

-----------------------------------------------------------------------------
(* applyAuthorizedKeys                                                     *)

NoUser == IF Is("absent") THEN Return("ok") ELSE Return("failed")

Home ==
    /\ pc = "home"
    /\ \/ Ask(IF host.user THEN Goto(IF Is("absent") THEN "needs" ELSE "group") ELSE NoUser, Is("present") /\ NoUser)
       \/ Is("absent") /\ Blind(NoUser)

\* absentAuthorizedKeysPathNeedsGuard
Needs ==
    /\ pc = "needs"
    /\ \/ Ask(IF host.file = "none" THEN Return("ok") ELSE Goto("group"), Goto("group"))
       \/ Blind(Return("ok"))

\* resolvePrimaryGroup: when it fails, a group of the user's name is taken,
\* whether it is the primary one, another one, or none at all; check() does
\* the same.
Group ==
    /\ pc = "group"
    /\ Exec(host, Goto("guard"), ctl' = [ctl EXCEPT !.group = host.named] /\ pc' = "guard")

\* ensureSshDirectoryAndAuthorizedKeysAreNotSymlinks; a chown to a group that
\* does not exist changes nothing.
Guard ==
    /\ pc = "guard"
    /\ LET unknown == ctl.group = "none"
           made == [host EXCEPT !.dir =
                      IF @ = "link" THEN @ ELSE IF ~unknown THEN Chowned(ctl.group) ELSE IF @ = "good" THEN @ ELSE "loose"]
       IN Exec(made, IF host.dir = "link" \/ unknown \/ host.file = "link" THEN Return("failed") ELSE Goto("converged"), Return("failed"))

\* authorizedKeysApplyIsConverged: a directory put right above does not count
\* as a change.
Converged ==
    /\ pc = "converged"
    /\ \/ Ask(IF InStateFor(ctl.group) THEN Return("ok") ELSE Goto("mktemp"), Goto("mktemp"))
       \/ Is("absent") /\ Blind(Return("ok"))

MkTemp ==
    /\ pc = "mktemp"
    /\ Must([host EXCEPT !.tmp = @ + 1], ctl' = [ctl EXCEPT !.mine = TRUE] /\ pc' = "stage")

\* stageAuthorizedKeysContent: grep ends its output in a newline, `>>` puts
\* the key behind whatever is the last character.
Staged(l) ==
    CASE host.kind = "absent" -> [l EXCEPT !.key = FALSE, !.eol = TRUE]
      [] host.kind = "present" /\ l.key -> l
      [] host.kind = "present" /\ ~l.key /\ l.eol -> [l EXCEPT !.key = TRUE]
      [] OTHER -> [l EXCEPT !.other = "spoilt", !.eol = TRUE]

Leave(r) == ctl' = [ctl EXCEPT !.out = r] /\ pc' = "rm"

Stage ==
    /\ pc = "stage"
    /\ Exec(host, ctl' = [ctl EXCEPT !.staged = Staged(host.lines)] /\ pc' = "replace", Leave("failed"))

\* replaceAuthorizedKeysAtomically: chmod, chown, the guards, a hard link of
\* the old file, the rename and a look at what is there.
Replace ==
    /\ pc = "replace"
    /\ LET done == [host EXCEPT !.file = Chowned(ctl.group), !.lines = ctl.staged, !.tmp = @ - 1, !.bak = FALSE]
           linked == [host EXCEPT !.bak = TRUE]
           late == [done EXCEPT !.bak = TRUE]
           end(h, r) == host' = h /\ ctl' = [ctl EXCEPT !.out = r, !.mine = h.tmp = host.tmp] /\ pc' = "rm"
       IN \/ end(done, "changed") /\ UNCHANGED faults
          \/ Fault /\ \E h \in {host, done} : end(h, "failed")
          \/ Fault /\ \E h \in {host, linked, late, done} : end(h, "raised")

\* The finally block.
Rm ==
    /\ pc = "rm"
    /\ Attempt(IF ctl.mine THEN [host EXCEPT !.tmp = @ - 1] ELSE host, Return(ctl.out))

Section == Check \/ Home \/ Needs \/ Group \/ Guard \/ Converged \/ MkTemp \/ Stage \/ Replace \/ Rm

\* ssh-copy-id, at any time; between the copy and the rename it is late.
Edit ==
    /\ ~Ended /\ host.file \in {"good", "other", "loose"} /\ host.lines.eol /\ ~host.edited /\ Fault
    /\ host' = [host EXCEPT !.lines.theirs = TRUE, !.edited = TRUE, !.late = pc = "replace"]
    /\ UNCHANGED <<ctl, pc>>

Next == Section \/ Edit \/ Again(Fresh(ctl.run + 1))
Spec == Init /\ [][Next]_vars

-----------------------------------------------------------------------------

\* "ok" and "changed" mean that the key is there as asked (or gone), on files
\* that end in a newline and while the user database answers; with the group
\* that was taken for the primary one (buildAuthorizedKeysReplacementScript).
ReportsAreTrue == ctl.result \in {"checked", "ok", "changed"} /\ ~host.blind /\ host.whole => InStateFor(ctl.group)

\* Whatever fails, a file that was there is there, and so are other people's
\* keys, with two exceptions: one that is added between the copy and the
\* rename is lost, and a last line without a newline is spoilt
\* (stageAuthorizedKeysContent, replaceAuthorizedKeysAtomically).
AccessIsKept ==
    /\ host.edited => host.lines.theirs \/ host.late
    /\ host.whole => host.lines.other # "spoilt"
    /\ host.lines.other # "none" => host.file # "none"

\* A run without faults ends in that state, whatever an interrupted one left,
\* unless the user is missing or a path is a link.
CleanRunConverges ==
    Ended /\ Clean /\ ~host.blind /\ host.whole => InState \/ ~host.user \/ host.dir = "link" \/ host.file = "link"

\* With one fault or none the temporary file is gone when apply() returns
\* (the trap of the replacement script).
NothingIsLeft == ctl.result \in {"changed", "failed"} /\ faults <= ctl.from + 1 => host.tmp = ctl.was

\* The code adds the key and says "changed" (ssh.ts:948-953: "the key is
\* appended if missing").
AsDocumented == Is("present") /\ ctl.result = "changed" /\ ~host.blind => host.lines.key
=============================================================================
