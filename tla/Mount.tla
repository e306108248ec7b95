-------------------------------- MODULE Mount --------------------------------
(***************************************************************************)
(* mount.present and mount.absent: the stack of mounts at a path and its   *)
(* line in /etc/fstab.  The live mount is changed first; when the table    *)
(* cannot be written the change is taken back, where the old mount can be  *)
(* recreated from what findmnt says of it.                                 *)
(*                                                                         *)
(* Behaviours of three more kinds ask mountOptions.ts and                  *)
(* selectTopMostMount: when a live mount has the options a module asks     *)
(* for, and which flags a remount of a bind mount and its rollback must    *)
(* name so that both mount APIs agree: the old one clears every flag that  *)
(* is not named, the new one leaves it alone.                              *)
(***************************************************************************)
EXTENDS Remote, TLC, SequencesExt

None == [who |-> "none", whole |-> TRUE, flags |-> "had"]

\* `who`: whether source and type, or device and root for a bind mount, are
\* the desired ones; `whole`: FSROOT is "/".
Mounts == [who : {"want", "other"}, whole : BOOLEAN, flags : {"want", "had"}]

\* A call of a module, and not a question about options.
Applies == host.kind \in {"present", "absent"}

Fresh(run) ==
    Call(run) @@ [prev |-> None, change |-> "unchanged", seen |-> [fstab |-> "none", theirs |-> FALSE], was |-> host.stack]

Want == [who |-> "want", whole |-> host.whole, flags |-> "want"]

ModuleInit ==
    /\ faults = 0 /\ pc = "check"
    /\ \E kind \in {"present", "absent"}, persist, bind, whole \in BOOLEAN, path \in {"none", "dir", "link"},
          source \in {"dir", "file"}, stack \in {<<>>} \cup {<<m>> : m \in Mounts} \cup {<<[who |-> "other", whole |-> TRUE, flags |-> "had"], m>> : m \in Mounts},
          fstab \in {"none", "want", "other"} :
          /\ ~bind => whole /\ source = "dir"
          /\ kind = "absent" => ~bind
          /\ path # "dir" => stack = <<>>
          /\ source = "file" => path = "dir"
          /\ \A i \in DOMAIN stack : stack[i].who = "want" => stack[i].whole = whole
          /\ host = [kind |-> kind, persist |-> persist, bind |-> bind, whole |-> whole, path |-> path, source |-> source,
                     stack |-> stack, fstab |-> fstab, theirs |-> FALSE, edited |-> FALSE, late |-> FALSE, blind |-> FALSE]
    /\ ctl = Fresh(1)

Is(kind) == host.kind = kind
Top(h) == IF h.stack = <<>> THEN None ELSE Last(h.stack)
Push(m) == [host EXCEPT !.stack = Append(@, m)]
Pop == [host EXCEPT !.stack = Front(@)]

\* liveMountMatchesDesired, on the top-most mount.
LiveMatches(h) == Top(h).who = "want" /\ Top(h).flags = "want"
Persisted(h) == ~h.persist \/ h.fstab = (IF h.kind = "present" THEN "want" ELSE "none")

InState(h) ==
    /\ IF h.kind = "present" THEN LiveMatches(h) /\ h.path = "dir" /\ (h.bind => h.source = "dir") ELSE h.stack = <<>> /\ h.path # "link"
    /\ Persisted(h)

Check ==
    /\ pc = "check" /\ Applies
    /\ Ask(IF InState(host) THEN Return("checked") ELSE Goto("prepare"), Goto("prepare"))

\* ensureNoMountPathSymlink, preparePresentMountpoint.
Prepare ==
    /\ pc = "prepare"
    /\ IF host.path = "link" THEN Ask(Return("failed"), Return("failed"))
       ELSE IF Is("absent") THEN Ask(Goto("probe"), Return("failed"))
       ELSE Exec([host EXCEPT !.path = "dir"], Goto(IF host.bind THEN "source" ELSE "probe"), Return("failed"))

\* resolveBindSource, before anything is unmounted.
Source ==
    /\ pc = "source"
    /\ Ask(IF host.source = "dir" THEN Goto("probe") ELSE Return("failed"), Return("failed"))

Persist(change) ==
    IF host.persist THEN ctl' = [ctl EXCEPT !.change = change] /\ pc' = "fstab"
    ELSE Return(IF change = "unchanged" THEN "ok" ELSE "changed")

\* probeLiveMount: exit code 1 means nothing is mounted, whatever it was
\* meant to say.  Only what may have to be restored is remembered.
Probe ==
    /\ pc = "probe"
    /\ LET live == Top(host)
           to(l, prev) == ctl' = [ctl EXCEPT !.prev = prev, !.was = host.stack] /\ pc' = l
           empty == IF Is("absent") THEN Persist("unchanged") ELSE to("mount", None)
           present == IF LiveMatches(host) THEN Persist("unchanged") ELSE to(IF live.who = "want" THEN "remount" ELSE "umount", live)
       IN \/ Ask(IF host.stack = <<>> THEN empty ELSE IF Is("present") THEN present ELSE to("umount", live), Return("failed"))
          \/ host.stack # <<>> /\ empty /\ host' = [host EXCEPT !.blind = TRUE] /\ Fault

MountIt ==
    /\ pc = "mount"
    /\ Exec(Push(Want), Persist("fresh"), Return("failed"))

\* applyMountConvergence
Remount ==
    /\ pc = "remount"
    /\ Exec([host EXCEPT !.stack[Len(host.stack)].flags = "want"], Persist("remount"), Return("failed"))

Umount ==
    /\ pc = "umount"
    /\ Exec(Pop, IF Is("absent") THEN Persist("gone") ELSE Goto("replace"), Return("failed"))

Replace ==
    /\ pc = "replace"
    /\ Exec(Push(Want), Persist("replace"), IF ctl.prev.whole THEN Goto("put back") ELSE Return("failed"))

\* buildRestoreMountCommand names a whole filesystem.
Restored == [ctl.prev EXCEPT !.whole = TRUE]

\* restorePreviousMountAfterFailure
PutBack ==
    /\ pc = "put back"
    /\ Exec(Push(Restored), Return("restored"), Return("failed"))

-----------------------------------------------------------------------------
(* ensureFstabEntry, removePersistedMountIfPresent: in a mutex section,    *)
(* which turns an exception into a failure.                                *)

Caught(work, ok, bad) ==
    \/ host' = work /\ ok /\ UNCHANGED faults
    \/ host' \in {host, work} /\ bad /\ Fault

Undo == IF ctl.change = "unchanged" THEN Return("failed") ELSE Goto("undo")

Table(h) == [fstab |-> h.fstab, theirs |-> h.theirs]

\* The mutex and the read.
Fstab ==
    /\ pc = "fstab"
    /\ Caught(host, IF Persisted(host) THEN Return(IF ctl.change = "unchanged" THEN "ok" ELSE "changed")
                    ELSE ctl' = [ctl EXCEPT !.seen = Table(host)] /\ pc' = "look", Undo)

\* guardedWriteFile reads again ...
Look ==
    /\ pc = "look"
    /\ Caught(host, IF Table(host) = ctl.seen THEN Goto("write") ELSE Undo, Undo)

\* ... and writes.
Write ==
    /\ pc = "write"
    /\ LET line == IF Is("present") THEN "want" ELSE "none"
       IN Caught([host EXCEPT !.fstab = line, !.theirs = ctl.seen.theirs], Return("changed"), Undo)

-----------------------------------------------------------------------------
(* rollbackLiveMountAfterFstabFailure, restoreLiveMountAfterFstabFailure   *)

Kept == ctl.prev # None /\ ~ctl.prev.whole

\* A bind mount is remounted or kept; a mount that cannot be recreated is
\* not taken away for nothing.
UndoLive ==
    /\ pc = "undo"
    /\ LET flagsBack == [host EXCEPT !.stack[Len(host.stack)].flags = ctl.prev.flags]
       IN CASE host.bind /\ ctl.change = "remount" -> Exec(flagsBack, Return("restored"), Return("failed"))
            [] host.bind /\ ctl.change = "replace" -> Locally(Return("failed"))
            [] Kept -> Locally(Return("failed"))
            [] OTHER -> Locally(Goto(IF ctl.change = "gone" THEN "undo mount" ELSE "undo umount"))

UndoUmount ==
    /\ pc = "undo umount"
    /\ Exec(Pop, IF ctl.prev = None THEN Return("restored") ELSE Goto("undo mount"), Return("failed"))

UndoMount ==
    /\ pc = "undo mount"
    /\ Exec(Push(Restored), Return("restored"), Return("failed"))

-----------------------------------------------------------------------------
(* Bind mounts: dimensions of per-mount flags                              *)

Dimensions == {"access", "exec", "atime", "symfollow"}

\* VFS_FLAG_TOKENS; `dev`, `suid` and `nodiratime` are like `exec`.
Tokens == "ro" :> "access" @@ "rw" :> "access" @@ "noexec" :> "exec" @@ "exec" :> "exec" @@ "noatime" :> "atime"
          @@ "relatime" :> "atime" @@ "strictatime" :> "atime" @@ "nosymfollow" :> "symfollow" @@ "symfollow" :> "symfollow"

Cleared == "access" :> "rw" @@ "exec" :> "exec" @@ "atime" :> "strictatime" @@ "symfollow" :> "symfollow"

States == {f \in [Dimensions -> DOMAIN Tokens] : \A d \in Dimensions : Tokens[f[d]] = d}

\* explicitVfsFlags: the last token of a dimension counts; norelatime is
\* another word for strictatime, a token of no dimension is passed over.
Flag(token) == IF token = "norelatime" THEN "strictatime" ELSE token
Explicit(opts) ==
    LET flags == [i \in DOMAIN opts |-> Flag(opts[i])]
        of(d) == {i \in DOMAIN opts : flags[i] \in DOMAIN Tokens /\ Tokens[flags[i]] = d}
    IN [d \in {x \in Dimensions : of(x) # {}} |-> flags[CHOOSE i \in of(d) : \A j \in of(d) : j <= i]]

\* liveVfsFlags: what the kernel prints has no token for a cleared flag.
Printed(state) == {state[d] : d \in Dimensions} \ {"exec", "strictatime", "symfollow"}
LiveFlags(printed) ==
    [d \in Dimensions |->
        IF \E t \in printed : t \in DOMAIN Tokens /\ Tokens[t] = d
        THEN CHOOSE t \in printed : t \in DOMAIN Tokens /\ Tokens[t] = d ELSE Cleared[d]]

\* bindVfsFlagsMatch
BindMatches(state, opts) == \A d \in DOMAIN Explicit(opts) : LiveFlags(Printed(state))[d] = Explicit(opts)[d]

\* renderVfsFlagState, renderBindRemountVfsFlags, renderBindRollbackVfsFlags.
Rendered(target, current) == {target[d] : d \in Dimensions} \ (IF current["symfollow"] = "symfollow" THEN {"symfollow"} ELSE {})
Overridden(state, opts) == Explicit(opts) @@ LiveFlags(Printed(state))
Forward(state, opts) == Rendered(Overridden(state, opts), LiveFlags(Printed(state)))
Back(state, opts) == Rendered(LiveFlags(Printed(state)), Overridden(state, opts))

\* mount -o remount,bind,...: the old API sets exactly the named flags, the
\* new one changes only those; a kernel before 5.14 knows no symfollow.
Remounted(state, flags) ==
    LET base == IF host.api = "new" THEN state ELSE Cleared
    IN [d \in Dimensions |-> IF \E t \in flags : Tokens[t] = d THEN CHOOSE t \in flags : Tokens[t] = d ELSE base[d]]
Rejected(flags) == host.kernel = "old" /\ flags \cap {"symfollow", "nosymfollow"} # {}

-----------------------------------------------------------------------------
(* Other mounts: sets of options                                           *)

Implicit == {"async", "auto", "defaults", "dev", "exec", "nouser", "relatime", "rw", "suid"}
FstabOnly == {"noauto", "nofail", "_netdev"}
Groups == {<<"exec", "noexec">>, <<"ro", "rw">>, <<"async", "sync">>, <<"relatime", "norelatime">>, <<"auto", "noauto">>}

\* effectiveStrictOption
Effective(options, group) ==
    LET i == SelectInSeq(group, LAMBDA o : o \in options)
        j == SelectInSeq(group, LAMBDA o : o \in Implicit)
    IN group[IF i # 0 THEN i ELSE j]

\* liveMountOptionsMatch; a size is compared in bytes.
Normal(option) == IF option \in {"size=1m", "size=1024k"} THEN "size=1048576" ELSE option
OptionsMatch(live, opts) ==
    LET l == {Normal(o) : o \in live}
        d == {Normal(o) : o \in opts} \ FstabOnly
    IN /\ \A g \in Groups : Effective(l, g) = Effective(d, g)
       /\ l \ Implicit = d \ Implicit

\* What the kernel prints of a mount made with these options.
Asked == {"defaults", "ro", "noexec", "sync", "noatime", "strictatime", "nofail", "size=1m"}
Made(opts) ==
    (IF "ro" \in opts THEN {"ro"} ELSE {"rw"}) \cup (opts \cap {"noexec", "sync", "noatime"})
    \cup (IF opts \cap {"noatime", "strictatime"} = {} THEN {"relatime"} ELSE {})
    \cup (IF "size=1m" \in opts THEN {"size=1024k"} ELSE {})

-----------------------------------------------------------------------------
(* selectTopMostMount                                                      *)

\* Mounts of a path are printed in some order, each with its id and the id of
\* the one below it.
TopMost(list) ==
    LET parents == {list[i].parent : i \in DOMAIN list}
        free == {i \in DOMAIN list : list[i].id \notin parents}
    IN IF Cardinality(free) = 1 THEN list[CHOOSE i \in free : TRUE] ELSE Last(list)

Stacks == {[i \in 1..n |-> [id |-> s[i], parent |-> IF s[i] = 1 THEN 0 ELSE s[i] - 1]] : n \in 1..3, s \in Permutations(1..3)}
Whole(list) == {list[i].id : i \in DOMAIN list} = 1..Len(list)

-----------------------------------------------------------------------------
(* Questions about options                                                 *)

OptionsInit ==
    /\ faults = 0 /\ pc = "check"
    /\ \/ \E state \in States, api, kernel \in {"old", "new"}, a \in DOMAIN Tokens \cup {"norelatime", "bind"}, b \in DOMAIN Tokens \cup {"bind"} :
             /\ kernel = "old" => api = "old" /\ state["symfollow"] = "symfollow" /\ {a, b} \cap {"symfollow", "nosymfollow"} = {}
             /\ host = [kind |-> "flags", api |-> api, kernel |-> kernel, opts |-> <<a, b>>, live |-> state, top |-> 0]
       \/ \E made, opts \in SUBSET Asked :
             /\ Cardinality(opts) <= 3 /\ Cardinality(made) <= 2 /\ ~({"noatime", "strictatime"} \subseteq opts) /\ ~({"noatime", "strictatime"} \subseteq made)
             /\ host = [kind |-> "plain", api |-> "new", kernel |-> "new", opts |-> SetToSeq(opts), live |-> made, top |-> 0]
       \/ \E list \in {s \in Stacks : Whole(s)} :
             host = [kind |-> "stack", api |-> "new", kernel |-> "new", opts |-> list, live |-> {}, top |-> Len(list)]
    /\ ctl = Call(1) @@ [before |-> host.live]

Matches(h) ==
    CASE h.kind = "flags" -> BindMatches(h.live, h.opts)
      [] h.kind = "plain" -> OptionsMatch(Made(h.live), ToSet(h.opts))
      [] OTHER -> TopMost(h.opts).id = h.top

Compare ==
    /\ pc = "check" /\ ~Applies
    /\ Locally(IF Matches(host) THEN Return("checked") ELSE Goto("remount flags"))

\* buildRemountCommand; what a mount of other options looks like afterwards.
RemountFlags ==
    /\ pc = "remount flags"
    /\ IF host.kind = "flags" /\ Rejected(Forward(host.live, host.opts)) THEN Locally(Return("failed"))
       ELSE /\ host' = [host EXCEPT !.live = IF host.kind = "flags" THEN Remounted(@, Forward(@, host.opts)) ELSE ToSet(host.opts)]
            /\ UNCHANGED faults
            /\ Return("changed") \/ (host.kind = "flags" /\ Goto("flags back"))

\* rollbackBindChangeAfterFstabFailure
FlagsBack ==
    /\ pc = "flags back"
    /\ IF Rejected(Back(ctl.before, host.opts)) THEN Locally(Return("failed"))
       ELSE host' = [host EXCEPT !.live = Remounted(@, Back(ctl.before, host.opts))] /\ Return("restored") /\ UNCHANGED faults

-----------------------------------------------------------------------------

Init == ModuleInit \/ OptionsInit

Section ==
    \/ Check \/ Prepare \/ Source \/ Probe \/ MountIt \/ Remount \/ Umount \/ Replace \/ PutBack
    \/ Fstab \/ Look \/ Write \/ UndoLive \/ UndoUmount \/ UndoMount

TypeOK ==
    /\ pc \in {"check", "prepare", "source", "probe", "mount", "remount", "umount", "replace", "put back", "fstab", "look", "write",
               "undo", "undo umount", "undo mount", "remount flags", "flags back", "done"}
    /\ ctl.result \in Results /\ faults \in 0..MaxFaults
    /\ Applies => /\ ToSet(host.stack) \subseteq Mounts /\ host.fstab \in {"none", "want", "other"} /\ ctl.prev \in Mounts \cup {None}
                  /\ ctl.change \in {"unchanged", "fresh", "remount", "replace", "gone"}
    /\ Is("flags") => host.live \in States

\* Somebody adds a line of their own to the table, at any time; between the
\* two halves of guardedWriteFile it is late.
Edit ==
    /\ ~Ended /\ Applies /\ host.persist /\ ~host.edited /\ Fault
    /\ host' = [host EXCEPT !.theirs = TRUE, !.edited = TRUE, !.late = pc = "write"]
    /\ UNCHANGED <<ctl, pc>>

Options == Compare \/ RemountFlags \/ FlagsBack
Next == Section \/ Options \/ Edit \/ (Applies /\ Again(Fresh(ctl.run + 1)))
Spec == Init /\ [][Next]_vars

-----------------------------------------------------------------------------

\* mount.absent takes one mount off the stack per run.  A remount gives exactly
\* the flags that are named and leaves the others; a mount that matches has the
\* effects that are asked for, but for relatime, which passes for strictatime.
ReportsAreTrue ==
    /\ Applies /\ ctl.result \in {"checked", "ok", "changed"} /\ ~host.blind =>
          InState(host) \/ (Is("absent") /\ Len(ctl.was) > 1 /\ Persisted(host))
    /\ Is("flags") /\ ctl.result \in {"checked", "changed"} =>
          \A d \in Dimensions : host.live[d] = IF d \in DOMAIN Explicit(host.opts) THEN Explicit(host.opts)[d] ELSE ctl.before[d]
    /\ Is("plain") /\ ctl.result = "checked" => Made(host.live) \ {"relatime"} = Made(ToSet(host.opts)) \ {"relatime"}
    /\ Is("stack") => ctl.result \in {"", "checked"}

\* "previous mount was restored" and a rollback without a complaint leave the
\* mounts as they were; the failure of the table alone never leaves the
\* path of a present mount empty.  The rollback of a remount gives every flag
\* its old state on both APIs, and neither names a flag the kernel does not know.
FailuresAreTrue ==
    /\ Applies /\ ctl.result = "restored" => host.stack = ctl.was
    /\ Applies /\ ctl.result = "failed" /\ ctl.change \in {"replace", "remount"} /\ faults = ctl.from + 1 => host.stack # <<>>
    /\ ~Applies => ctl.result # "failed" /\ (ctl.result = "restored" => host.live = ctl.before)

\* A line somebody adds to /etc/fstab is lost only if it comes between the
\* two halves of guardedWriteFile (mount.ts).
EditsSurvive == Applies /\ host.edited => host.theirs \/ host.late

\* A run without faults mounts and persists, whatever an interrupted run
\* left; mount.absent takes one layer of a stack per run
\* (mountConvergence.ts).  A mount made with the options matches them;
\* strictatime is printed as nothing.
CleanRunConverges ==
    /\ Ended /\ Applies /\ Clean /\ ~host.blind =>
          \/ InState(host)
          \/ host.path = "link" \/ host.source = "file"
          \/ Is("absent") /\ Len(ctl.was) > 1
    /\ Ended /\ Is("plain") => Matches(host) \/ "strictatime" \in ToSet(host.opts)

\* A mountpoint reported unmounted is unmounted.
AbsentIsUnmounted == Is("absent") /\ ctl.result = "changed" /\ ~host.blind => host.stack = <<>>

\* A mount that was made with the options matches them, without exception.
OwnMountMatches == Ended /\ Is("plain") => Matches(host)
=============================================================================
