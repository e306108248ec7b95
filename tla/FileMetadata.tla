---------------------------- MODULE FileMetadata ----------------------------
(***************************************************************************)
(* file.copy, template, assemble, directory, chmod, chown, properties and  *)
(* absent: whole files and directories with their mode and owner.  The     *)
(* commands that change a mode or an owner open the path first and work on *)
(* what they opened, so that a link put there meanwhile is not followed.   *)
(***************************************************************************)
EXTENDS Remote, TLC

Writers == {"copy", "template", "assemble"}
Changers == {"chmod", "chown", "properties"}
Kinds == Writers \cup Changers \cup {"directory", "absent"}

\* The options that were given; `special`: the mode has a setuid or setgid bit.
Wants(kind) ==
    {w \in [mode : BOOLEAN, special : BOOLEAN, owner : BOOLEAN, group : BOOLEAN] :
        /\ w.special => w.mode
        /\ kind \in {"copy", "chmod"} => w.mode
        /\ kind = "chmod" => ~w.owner
        /\ kind = "chown" => w.owner /\ ~w.mode
        /\ kind = "absent" => ~w.mode /\ ~w.owner
        /\ w.group => kind = "properties"
        /\ kind = "properties" => w.mode \/ w.owner \/ w.group}

\* Of mode, owner and group all that is known is whether they are the wanted
\* ones; the special bit goes its own ways.
ModeMatches(h) == h.want.mode => h.mode /\ h.special = h.want.special
OwnerMatches(h) == h.want.owner => h.owner
GroupMatches(h) == h.want.group => h.group

\* ownershipMatches, templateStateMatches and the check() of each module.
InState(h) ==
    CASE h.kind = "absent" -> h.state = "absent"
      [] h.kind = "directory" -> h.state = "directory" /\ ModeMatches(h) /\ OwnerMatches(h)
      [] h.kind \in Changers -> h.state \in {"file", "directory"} /\ ModeMatches(h) /\ OwnerMatches(h) /\ GroupMatches(h)
      [] OTHER -> h.state = "file" /\ h.content /\ ModeMatches(h) /\ OwnerMatches(h)

Fresh(run) == Call(run) @@ [todo |-> <<>>, did |-> FALSE, fd |-> "none"]

\* `login`: what the connection's user makes has the wanted owner; `parent`:
\* the directory above has its setgid bit, which a new directory gets too;
\* `touched`: something behind a link was changed.
Init ==
    /\ \E kind \in Kinds, state \in {"file", "directory", "link", "absent"}, content, mode, special, owner, group, login, parent, ancestor \in BOOLEAN :
          /\ kind \notin Writers \/ state # "file" => ~content
          /\ state \in {"link", "absent"} => ~mode /\ ~special /\ ~owner
          /\ group => kind = "properties" /\ state \in {"file", "directory"}
          /\ login => kind \in Writers \cup {"directory"}
          /\ parent => kind = "directory" /\ state = "absent"
          /\ ancestor => kind \in {"directory", "absent"}
          /\ \E want \in {w \in Wants(kind) : login => w.owner} :
                host = [kind |-> kind, want |-> want, state |-> state, content |-> content, mode |-> mode, special |-> special,
                        owner |-> owner, group |-> group, login |-> login, parent |-> parent, ancestor |-> ancestor,
                        edit |-> "", touched |-> FALSE]
    /\ faults = 0 /\ pc = "check" /\ ctl = Fresh(1)

TypeOK ==
    /\ pc \in {"check", "look", "ancestors", "write", "exists", "mkdir", "validate", "stat", "open", "operate", "remove", "done"}
    /\ host.kind \in Kinds /\ host.state \in {"file", "directory", "link", "absent"}
    /\ ctl.fd \in {"none", "own", "target"} /\ ctl.result \in Results /\ faults \in 0..MaxFaults

\* A probe that fails is one of what is not as it should be, but for a path
\* that is to be absent.
Check ==
    /\ pc = "check"
    /\ Ask(IF InState(host) THEN Return("checked") ELSE Goto("look"),
           IF host.kind = "absent" THEN Return("checked") ELSE Goto("look"))

-----------------------------------------------------------------------------
(* The commands that are left to run, and the end of a call                *)

\* The mode comes first, and the owner after it.
Steps(mode, owner, group) ==
    (IF mode THEN <<"chmod">> ELSE <<>>)
    \o (IF owner /\ group THEN <<"chown both">> ELSE IF owner THEN <<"chown">> ELSE IF group THEN <<"chgrp">> ELSE <<>>)

Run(todo, did) ==
    IF todo = <<>> THEN ctl' = [ctl EXCEPT !.result = IF did THEN "changed" ELSE "ok"] /\ pc' = "done"
    ELSE ctl' = [ctl EXCEPT !.todo = todo, !.did = did, !.fd = "none"] /\ pc' = "stat"

\* isSymlink, or for a directory and for absent the walk over its ancestors.
\* file.properties asks for the state then, and finds nothing it wants in an
\* answer that failed.
Look ==
    /\ pc = "look"
    /\ LET w == host.want
           on == CASE host.kind \in Writers -> Goto("write")
                   [] host.kind = "directory" -> Goto("ancestors")
                   [] host.kind = "absent" -> IF host.state = "absent" THEN Return("ok") ELSE Goto("ancestors")
                   [] host.kind = "properties" ->
                         LET known == host.state \in {"file", "directory"}
                         IN Run(Steps(w.mode /\ ~(known /\ ModeMatches(host)), w.owner /\ ~(known /\ host.owner), w.group /\ ~(known /\ host.group)), FALSE)
                   [] OTHER -> Run(Steps(w.mode, w.owner, FALSE), TRUE)
           blind == CASE host.kind = "properties" -> Run(Steps(w.mode, w.owner, w.group), FALSE)
                      [] host.kind = "absent" -> Return("ok")
                      [] OTHER -> on
       IN Ask(IF host.state = "link" /\ host.kind # "absent" THEN Return("refused") ELSE on, blind)

\* findSymlinkInAncestorWalk, findSymlinkInAncestors
Ancestors ==
    /\ pc = "ancestors"
    /\ LET on == Goto(IF host.kind = "absent" THEN "remove" ELSE "exists")
       IN Ask(IF host.ancestor THEN Return("refused") ELSE on, on)

-----------------------------------------------------------------------------
(* Whole files                                                             *)

\* uploadFile or writeFile puts a new file, of the connection's user, in the
\* place of the old one (Upload), and of no link or directory.  A missing
\* fragment or a template that does not render ends the call before.  The
\* mode is the wanted one, or that of the old file (resolveWriteMode).
Written == [host EXCEPT !.state = "file", !.content = TRUE, !.mode = (host.want.mode \/ @),
                        !.special = IF host.want.mode THEN host.want.special ELSE @, !.owner = host.login]

Write ==
    /\ pc = "write"
    /\ LET w == host.want
       IN IF host.state \in {"link", "directory"} THEN Locally(Return("raised"))
          ELSE \/ /\ host' = Written /\ UNCHANGED faults
                  /\ Run(Steps(w.mode /\ host.kind # "copy", w.owner, FALSE), TRUE)
               \/ host' = host /\ Return("failed") /\ Fault
               \/ host' \in {host, Written} /\ Return("raised") /\ Fault

-----------------------------------------------------------------------------
(* file.directory                                                          *)

\* applyDirectoryState
Exists ==
    /\ pc = "exists"
    /\ Ask(Goto(IF host.state = "directory" THEN "validate" ELSE "mkdir"), Goto("mkdir"))

\* renderGuardedMkdirCommand
Mkdir ==
    /\ pc = "mkdir"
    /\ LET made == ctl' = [ctl EXCEPT !.did = TRUE] /\ pc' = "validate"
       IN CASE host.ancestor \/ host.state \in {"link", "file"} -> Ask(Return("failed"), Return("failed"))
            [] host.state = "directory" -> Ask(made, Return("failed"))
            [] OTHER -> Exec([host EXCEPT !.state = "directory", !.mode = FALSE, !.special = host.parent, !.owner = host.login],
                             made, Return("failed"))

\* assertFinalDirectoryTarget and readOwnership: what was just made gets all.
Validate ==
    /\ pc = "validate"
    /\ LET w == host.want
       IN Ask(IF host.state # "directory" THEN Return("failed")
              ELSE Run(Steps(w.mode /\ (ctl.did \/ ~ModeMatches(host)), w.owner /\ (ctl.did \/ ~host.owner), FALSE), ctl.did),
              Return("failed") \/ Run(Steps(w.mode, w.owner, FALSE), ctl.did))

-----------------------------------------------------------------------------
(* renderGuardedMetadataCommand, process by process                        *)

\* The command ends with a code that fails the module.
Refused == Ask(Return("failed"), Return("failed"))

Stat ==
    /\ pc = "stat"
    /\ IF host.state \in {"absent", "link"} THEN Refused ELSE Ask(Goto("open"), Return("failed"))

\* What was opened has to be what was there before.
Opened == IF host.state = "link" THEN "target" ELSE "own"
Open ==
    /\ pc = "open"
    /\ IF host.state = "absent" \/ Opened # "own" THEN Refused
       ELSE Ask(ctl' = [ctl EXCEPT !.fd = Opened] /\ pc' = "operate", Return("failed"))

\* chmod leaves the special bits of a directory where its mode names none;
\* chown takes those of a file away.
Effect(step) ==
    LET dir == host.state = "directory"
    IN CASE step = "chmod" -> [host EXCEPT !.mode = TRUE, !.special = host.want.special \/ (dir /\ @)]
         [] step = "chown" -> [host EXCEPT !.owner = TRUE, !.special = dir /\ @]
         [] step = "chgrp" -> [host EXCEPT !.group = TRUE, !.special = dir /\ @]
         [] OTHER -> [host EXCEPT !.owner = TRUE, !.group = TRUE, !.special = dir /\ @]

Operate ==
    /\ pc = "operate"
    /\ IF host.state = "link" THEN Refused
       ELSE Exec(IF ctl.fd = "own" THEN Effect(Head(ctl.todo)) ELSE [host EXCEPT !.touched = TRUE],
                 Run(Tail(ctl.todo), TRUE), Return("failed"))

-----------------------------------------------------------------------------
(* file.absent                                                             *)

\* buildAbsentRemoveCommand: the shell has to be where the path says.
PhysicalParent == ~host.ancestor
Remove ==
    /\ pc = "remove"
    /\ IF ~PhysicalParent THEN Refused
       ELSE Exec([host EXCEPT !.state = "absent", !.touched = @ \/ host.ancestor], Return("changed"), Return("failed"))

-----------------------------------------------------------------------------

\* Somebody puts a link in the place of the path, or of a directory above it,
\* and takes it away again.
Plant ==
    /\ pc \notin {"check", "done"} /\ Fault /\ UNCHANGED <<ctl, pc>>
    /\ \/ host.state \in {"file", "directory"} /\ host.edit = "" /\ host.kind # "absent"
          /\ host' = [host EXCEPT !.state = "link", !.edit = host.state]
       \/ host.state = "link" /\ host.edit \in {"file", "directory"} /\ host' = [host EXCEPT !.state = host.edit]
       \/ host.kind \in {"absent", "directory"} /\ ~host.ancestor /\ host.edit = ""
          /\ host' = [host EXCEPT !.ancestor = TRUE, !.edit = "ancestor"]

Section ==
    \/ Check \/ Look \/ Ancestors \/ Write \/ Exists \/ Mkdir \/ Validate
    \/ Stat \/ Open \/ Operate \/ Remove
Next == Section \/ Plant \/ Again(Fresh(ctl.run + 1))
Spec == Init /\ [][Next]_vars

-----------------------------------------------------------------------------
(* Properties                                                              *)

\* The wanted state but for the special bit of its mode.
Met(h) == InState([h EXCEPT !.special = h.want.special])

\* What is reported is there; a failing test for absence counts as one.
ReportsAreTrue ==
    ctl.result \in {"checked", "ok", "changed"} /\ host.edit = "" => Met(host) \/ (host.kind = "absent" /\ ~Clean)

\* Nothing behind a link is changed or removed, however often the path becomes
\* one and stops to be one (renderGuardedMetadataCommand,
\* verifiedPhysicalDirectoryCommand).
EditsSurvive == ~host.touched

\* A clean run ends in the wanted state or says that the path is of another kind.
CleanRunConverges ==
    Ended /\ Clean =>
        \/ Met(host)
        \/ ctl.result \in {"refused", "failed", "raised"}
           /\ \/ host.state = "link" \/ host.ancestor
              \/ host.kind \in Writers /\ host.state = "directory"
              \/ host.kind = "directory" /\ host.state = "file"
              \/ host.kind \in Changers /\ host.state = "absent"

\* The special bit too: refuted by a mode with a setuid bit and an owner, and by
\* a directory that inherited the setgid bit.
ModeIsWhole == Ended /\ Clean /\ ctl.result = "changed" => InState(host)
=============================================================================
