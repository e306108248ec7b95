------------------------------ MODULE FileEdits ------------------------------
(***************************************************************************)
(* The modules that read a file, compute its new lines and write them      *)
(* back: file.line (appending, or with `match`), file.block, file.replace  *)
(* and net.hosts, which works on /etc/hosts under a lock that no other     *)
(* program takes.                                                          *)
(***************************************************************************)
EXTENDS Remote, SequencesExt, TLC

Kinds == {"line", "match", "block", "replace", "present", "absent"}
Hosts(h) == h.kind \in {"present", "absent"}

-----------------------------------------------------------------------------
(* file.line                                                               *)

\* `match` finds the lines of host.old; the wanted line may be one of them.
FirstMatch(h, lines) == SelectInSeq(lines, LAMBDA l : l \in h.old)

-----------------------------------------------------------------------------
(* file.block "a"; a marker is found in every line that contains it, and so  *)
(* in the one of block "ab"                                                *)

Finds(mark) == IF mark = "begin" THEN {"BEGIN a", "BEGIN ab"} ELSE {"END a", "END ab"}
Marked(lines, mark) == {i \in DOMAIN lines : lines[i] \in Finds(mark)}
Block == <<"BEGIN a", "content", "END a">>

\* parseManagedBlock
Parsed(lines) ==
    LET b == Marked(lines, "begin")
        e == Marked(lines, "end")
    IN IF b \cup e = {} THEN [status |-> "absent"]
       ELSE IF Cardinality(b) # 1 \/ Cardinality(e) # 1 THEN [status |-> "invalid"]
       ELSE LET first == CHOOSE i \in b : TRUE
                last == CHOOSE i \in e : TRUE
            IN IF first >= last THEN [status |-> "invalid"]
               ELSE [status |-> "present", first |-> first, last |-> last]

Replaced(lines, found) == SubSeq(lines, 1, found.first - 1) \o Block \o SubSeq(lines, found.last + 1, Len(lines))

-----------------------------------------------------------------------------
(* file.replace: host.by in the place of every "foo"                       *)

ReplacePattern(h, lines) == FlattenSeq([i \in DOMAIN lines |-> IF lines[i] = "foo" THEN h.by ELSE <<lines[i]>>])

-----------------------------------------------------------------------------
(* net.hosts: "ours" is the address, "a" the name that is wanted           *)

Line(ip, names) == [ip |-> ip, names |-> names]
Entries == {Line("ours", <<"a">>), Line("ours", <<"b", "a">>), Line("ours", <<"b">>), Line("theirs", <<"a">>)}

SameIp(l) == l.ip = "ours"

\* mergeHostnames: each name once, the existing ones first.
Merge(existing, desired) == existing \o SelectSeq(desired, LAMBDA n : n \notin ToSet(existing))

\* buildMergedHostsLine
Merged(lines) ==
    LET own == SelectSeq(lines, SameIp)
    IN Line("ours", Merge(FlattenSeq([i \in DOMAIN own |->
                                        SelectSeq(own[i].names, LAMBDA n :
                                            ~\E j \in 1..(i - 1) : n \in ToSet(own[j].names))]),
                          <<"a">>))

\* hostnameSetsEqual
IsTarget(l) == SameIp(l) /\ ToSet(l.names) = {"a"}

-----------------------------------------------------------------------------
(* The new lines; the file is not created to be without a line             *)

Refuses(h, lines) ==
    \/ h.kind = "match" /\ FirstMatch(h, lines) = 0
    \/ h.kind = "block" /\ Parsed(lines).status = "invalid"

Desired(h, lines) ==
    CASE h.kind = "line" -> IF Contains(lines, "l") THEN lines ELSE Append(lines, "l")
      [] h.kind = "match" -> [lines EXCEPT ![FirstMatch(h, lines)] = "l"]
      [] h.kind = "block" -> IF Parsed(lines).status = "present" THEN Replaced(lines, Parsed(lines)) ELSE lines \o Block
      [] h.kind = "replace" -> ReplacePattern(h, lines)
      [] h.kind = "present" -> IF SelectSeq(lines, SameIp) = <<Merged(lines)>> THEN lines
                               ELSE Append(SelectSeq(lines, LAMBDA l : ~SameIp(l)), Merged(lines))
      [] OTHER -> SelectSeq(lines, LAMBDA l : ~IsTarget(l))

\* What check() computes from the file; of a block it compares what is between
\* the markers.
InState(h) ==
    CASE h.state = "absent" -> h.kind = "absent"
      [] h.kind = "block" -> LET p == Parsed(h.lines)
                             IN h.state = "file" /\ p.status = "present" /\ SubSeq(h.lines, p.first + 1, p.last - 1) = <<"content">>
      [] OTHER -> /\ h.state = "file" \/ Hosts(h)
                  /\ ~Refuses(h, h.lines) /\ Desired(h, h.lines) = h.lines

-----------------------------------------------------------------------------

Texts(kind) ==
    CASE kind = "line" -> SeqOf({"x", "l"}, 2)
      [] kind = "match" -> SeqOf({"x", "old", "l"}, 3)
      [] kind = "block" -> SeqOf({"x", "content", "BEGIN a", "END a", "BEGIN ab", "END ab"}, 3)
                           \cup {Block \o <<"x">>, <<"BEGIN a", "x", "x", "END a">>,
                                 <<"BEGIN ab", "content", "END ab">> \o Block}
      [] kind = "replace" -> SeqOf({"foo", "bar"}, 3)
      [] OTHER -> SeqOf(Entries, 2)

\* What somebody else puts first in the file meanwhile, or the file they make.
Foreign(h) == IF Hosts(h) THEN Line("theirs", <<"a">>) ELSE IF h.kind = "replace" THEN "foo" ELSE "x"

Fresh(run) == Call(run) @@ [read |-> <<>>, there |-> FALSE]

\* `mine`: the mutex is held; `staged`: a create-only staging file; `theirs`:
\* what others wrote last, and `edit` when.
Init ==
    /\ \E kind \in Kinds, state \in {"file", "absent", "link", "dangling"} :
          \E lines \in Texts(kind), old \in {{"old"}, {"old", "l"}}, by \in {<<"bar">>, <<"foo", "bar">>} :
             /\ state \in {"absent", "dangling"} => lines = <<>>
             /\ state = "link" => Len(lines) = 1
             /\ kind \in {"present", "absent"} => state # "dangling"
             /\ kind # "match" => old = {"old"}
             /\ kind # "replace" => by = <<"bar">>
             /\ host = [kind |-> kind, state |-> state, lines |-> lines, old |-> old, by |-> by,
                        mine |-> FALSE, staged |-> FALSE, theirs |-> lines, edit |-> "none"]
    /\ faults = 0 /\ pc = "check" /\ ctl = Fresh(1)

TypeOK ==
    /\ pc \in {"check", "lock", "look", "read", "guard", "compare", "write", "unlock",
               "create", "stage", "upload", "unstage", "publish", "move", "done"}
    /\ host.kind \in Kinds /\ host.state \in {"file", "absent", "link", "dangling"}
    /\ {host.mine, host.staged, ctl.there} \subseteq BOOLEAN
    /\ host.edit \in {"none", "early", "late", "overwritten"}
    /\ ctl.result \in Results /\ faults \in 0..MaxFaults

\* What follows "needs-apply".
Start == Goto(IF Hosts(host) THEN "lock" ELSE "look")

Check ==
    /\ pc = "check"
    /\ Ask(IF host.state \in {"file", "link"} /\ ~(Hosts(host) /\ host.state = "link") /\ InState(host)
           THEN Return("checked") ELSE Start, Start)

\* withMutexLock: a lock that a dead run left is old by now and reclaimed
\* (FlagLock).
Lock ==
    /\ pc = "lock"
    /\ Exec([host EXCEPT !.mine = TRUE], Goto("read"), Return("failed"))

\* net.hosts leaves its section by the release of the lock, after an exception
\* too.
Leave(r) ==
    IF Hosts(host) THEN ctl' = [ctl EXCEPT !.result = IF r = "raised" THEN "failed" ELSE r] /\ pc' = "unlock"
    ELSE Return(r)

\* A write whose answer is lost.
Put(work, ok) ==
    \/ host' = work /\ ok /\ UNCHANGED faults
    \/ host' \in {host, work} /\ Leave("raised") /\ Fault

\* file.line and file.block make the file anew where they do not find it: a
\* failing existence test counts as an answer.
Absent == Goto(IF host.kind = "line" THEN "create" ELSE "write")

\* [ -L ], [ -e ] and isRegularFileWithoutSymlink
Look ==
    /\ pc = "look"
    /\ LET creates == host.kind \in {"line", "block"}
       IN Ask(IF creates /\ (host.state = "absent" \/ (host.kind = "block" /\ host.state = "dangling")) THEN Absent
              ELSE IF host.state = "file" THEN Goto("read") ELSE Return("refused"),
              Return("refused") \/ (creates /\ (host.kind = "line" => host.state # "dangling") /\ Absent))

\* readFile, and the answers that need no write; captureHostsFileSnapshot
\* also takes a failing existence test for a missing file.
Read ==
    /\ pc = "read"
    /\ LET found == [ctl EXCEPT !.read = host.lines, !.there = TRUE]
       IN Ask(IF Hosts(host) /\ host.state \in {"absent", "dangling"}
              THEN IF host.kind = "absent" THEN Leave("ok") ELSE Goto("guard")
              ELSE IF host.state \in {"absent", "dangling"} THEN Return("raised")
              ELSE IF Refuses(host, host.lines) THEN Return("refused")
              ELSE IF Desired(host, host.lines) = host.lines /\ host.kind # "block" THEN Leave("ok")
              ELSE ctl' = found /\ pc' = IF Hosts(host) THEN "guard" ELSE "compare",
              \/ Leave("raised")
              \/ host.kind = "absent" /\ Leave("ok")
              \/ host.kind = "present" /\ Goto("guard"))

\* isSymlink, once more before /etc/hosts is written.
Guard ==
    /\ pc = "guard"
    /\ LET on == Goto(IF ctl.there THEN "compare" ELSE "write")
       IN Ask(IF host.state \in {"link", "dangling"} THEN Leave("refused") ELSE on, on)

\* guardedWriteFile reads the file again.
Compare ==
    /\ pc = "compare"
    /\ Ask(IF host.state \in {"file", "link"} /\ host.lines = ctl.read THEN Goto("write") ELSE Leave("raised"), Leave("raised"))

New == Desired(host, ctl.read)

\* writeFile puts no file in the place of a link.  An edit since the comparison
\* is overwritten, and one since the existence test.
Write ==
    /\ pc = "write"
    /\ IF host.state \in {"link", "dangling"} THEN Locally(Leave("raised"))
       ELSE Put([host EXCEPT !.state = "file", !.lines = New, !.edit = IF @ = "late" THEN "overwritten" ELSE @],
                Leave("changed"))

Unlock ==
    /\ pc = "unlock"
    /\ Attempt([host EXCEPT !.mine = FALSE], Goto("done"))

\* applyLineCreate: the second test, the staging file and its removal.
Create ==
    /\ pc = "create"
    /\ Ask(IF host.state \in {"file", "link"} THEN Return("refused") ELSE Goto("stage"), Goto("stage"))

Stage ==
    /\ pc = "stage"
    /\ Must([host EXCEPT !.staged = TRUE], Goto("upload"))

Upload ==
    /\ pc = "upload"
    /\ \/ Locally(Goto("publish"))
       \/ host' = host /\ Goto("unstage") /\ Fault

Unstage ==
    /\ pc = "unstage"
    /\ Attempt([host EXCEPT !.staged = FALSE], Return("raised"))

\* buildCreateOnlyPublishScript: the test and the mv are two processes of one
\* shell, which removes the staging file when it leaves.
Publish ==
    /\ pc = "publish"
    /\ IF host.state = "absent" THEN Ask(Goto("move"), Return("failed"))
       ELSE Exec([host EXCEPT !.staged = FALSE], Return("refused"), Return("failed"))

Move ==
    /\ pc = "move"
    /\ LET left == [host EXCEPT !.staged = FALSE]
       IN \/ Put([left EXCEPT !.state = "file", !.lines = <<"l">>, !.edit = IF @ = "late" THEN "overwritten" ELSE @],
                 Return("changed"))
          \/ host' = left /\ Return("failed") /\ Fault

\* Somebody edits or makes the file, or puts a link in its place.
Edit ==
    /\ pc \in {"look", "read", "guard", "compare", "write", "create", "stage", "publish", "move"}
    /\ host.edit = "none" /\ Fault /\ UNCHANGED <<ctl, pc>>
    /\ \E state \in {"file", "link"} :
          LET lines == <<Foreign(host)>> \o host.lines
          IN host' = [host EXCEPT !.state = state, !.lines = lines, !.theirs = lines,
                                  !.edit = IF pc \in {"write", "move"} THEN "late" ELSE "early"]

Section ==
    \/ Check \/ Lock \/ Look \/ Read \/ Guard \/ Compare \/ Write \/ Unlock
    \/ Create \/ Stage \/ Upload \/ Unstage \/ Publish \/ Move
Next == Section \/ Edit \/ Again(Fresh(ctl.run + 1))
Spec == Init /\ [][Next]_vars

-----------------------------------------------------------------------------
(* Properties                                                              *)

\* Block "ab" is there and "a" is not, so its markers are taken for ours.
Shadowed(lines) == \E i \in DOMAIN lines : lines[i] \in {"BEGIN ab", "END ab"}

\* The wanted line or text that leaves something for the next run: a line
\* that its own pattern does not find, a replacement with the pattern in it.
Restless(h) ==
    \/ h.kind = "match" /\ "l" \notin h.old
    \/ h.kind = "replace" /\ Contains(h.by, "foo")

\* A reported state is the file's, if nobody edited it meanwhile; the removal
\* of a line takes a failing existence test for a missing file.
ReportsAreTrue ==
    ctl.result \in {"checked", "ok", "changed"} /\ host.edit = "none" /\ ~Restless(host) =>
        /\ InState(host) \/ (host.kind = "absent" /\ ~Clean)
        /\ host.kind = "block" /\ ~Shadowed(host.lines) => \E i \in DOMAIN host.lines : SubSeq(host.lines, i, i + 2) = Block

\* What has to be left of the lines of others.
Kept(h, before) ==
    CASE h.kind = "line" -> IsPrefix(before, h.lines)
      [] h.kind = "match" -> /\ Len(h.lines) = Len(before)
                             /\ \A i \in DOMAIN before : h.lines[i] = before[i] \/ i = FirstMatch(h, before)
      [] h.kind = "block" -> /\ Parsed(h.lines).status = "present"
                             /\ LET now == Parsed(h.lines)
                                    was == Parsed(before)
                                    head(lines, p) == IF p.status = "present" THEN SubSeq(lines, 1, p.first - 1) ELSE lines
                                    tail(lines, p) == IF p.status = "present" THEN SubSeq(lines, p.last + 1, Len(lines)) ELSE <<>>
                                IN head(h.lines, now) = head(before, was) /\ tail(h.lines, now) = tail(before, was)
      [] h.kind = "replace" -> h.lines = Desired(h, before)
      [] OTHER -> \A i \in DOMAIN before :
                     \/ h.kind = "absent" /\ IsTarget(before[i])
                     \/ \E j \in DOMAIN h.lines : /\ h.lines[j].ip = before[i].ip
                                                  /\ ToSet(before[i].names) \subseteq ToSet(h.lines[j].names)

\* A write keeps the lines of others in the file as it was compared
\* (guardedWriteFile, types.ts), and file.line makes no file where there is one
\* (buildCreateOnlyPublishScript): lost is only what they write in the instant
\* before the rename.  (file.block and net.hosts compare nothing where their
\* existence test found no file, or failed.)
EditsSurvive ==
    ctl.run = 1 /\ ctl.result = "changed" /\ host.edit # "overwritten" /\ (ctl.there \/ host.kind = "line") =>
        Kept(host, host.theirs)

\* Every other block of the file is left alone ("Unique identifier for the
\* managed block", fileExtra.ts).
BlocksAreUnique ==
    host.kind = "block" /\ ctl.result \in {"changed", "checked"} /\ host.edit = "none" /\ ctl.run = 1 =>
        /\ Contains(host.lines, "BEGIN a")
        /\ \A mark \in {"BEGIN ab", "END ab"} : Contains(host.theirs, mark) => Contains(host.lines, mark)

\* A replacement that contains its pattern is done once ("idempotent for cases
\* where the replacement string still matches the pattern", fileExtra.ts).
ReplacesOnce == Ended /\ Clean /\ host.kind = "replace" /\ ctl.result = "changed" => InState(host)

\* A refusal and a failing command leave the file as others wrote it.
FailuresAreTrue ==
    ctl.result = "refused" /\ ctl.run = 1 => host.lines = host.theirs

\* A clean run ends in the wanted state, or refuses a link or a file that
\* leaves it no choice.
CleanRunConverges ==
    Ended /\ Clean /\ ~Restless(host) =>
        \/ InState(host) \/ host.state \in {"link", "dangling"} \/ Refuses(host, host.lines)
        \/ host.state = "absent" /\ host.kind \in {"match", "replace"}

\* The staging file and the lock stay only if a command or the connection failed.
NothingIsLeft == Ended /\ Clean /\ ctl.run = 1 => ~host.staged /\ ~host.mine
=============================================================================
