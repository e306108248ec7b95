--------------------------- MODULE ArchiveExtract ---------------------------
(***************************************************************************)
(* archive.extract: two archives "a" and "b" are merged into one           *)
(* destination, each ships one symlink (named like its archive) that       *)
(* resolves through the path `gate`.  While somebody points the gate       *)
(* outside, every such link leaves the destination.  Applies are           *)
(* serialized by the extract lock and leave one containment entry each;    *)
(* check() says ok only while there is none.                               *)
(***************************************************************************)
EXTENDS Remote

Archives == {"a", "b"}
\* Who holds the extract lock: a run of this controller, the other one, nobody.
Rival == 0
Free == MaxRuns + 1

Other(x) == IF x = "a" THEN "b" ELSE "a"

\* A containment entry: "progress" and "stopped" carry the scope of their
\* archive, "failed" a complete list of links, "unknown" nothing.
Entry(id, state, scope, links) == [id |-> id, state |-> state, scope |-> scope, links |-> links]
NothingPublished(id, x) == Entry(id, "failed", x, {})

\* containmentEntryForScope: what an entry does not say needs a look at
\* every link below the destination.
Unknown(e, x) == e.state = "unknown" \/ (e.state \in {"progress", "stopped"} /\ e.scope # x)

VerifyWhole(saw, x) == \E e \in saw : Unknown(e, x)
Carried(saw) == UNION {e.links : e \in saw}

\* Mutant: an entry of another archive is taken for one of this archive.
Judged_OwnScope(links, saw, x) == links \intersect ({x} \union Carried(saw))

\* The links the post-merge backstop judges.
Judged(links, saw, x) ==
    IF VerifyWhole(saw, x) THEN links ELSE links \intersect ({x} \union Carried(saw))

Fresh(run, x) ==
    [run |-> run, from |-> faults, result |-> "", archive |-> x, saw |-> {}, phase |-> "before",
     record |-> "failed", links |-> {}, tidy |-> TRUE, unjudged |-> {}]

TypeOK ==
    /\ pc \in {"check", "probe", "upload", "transfer", "list", "lock", "establish", "prepare", "stage",
               "unpack", "merge", "unstage", "backstop", "chown", "hash", "members", "clear", "record",
               "release", "unupload", "done"}
    /\ ctl.result \in Results /\ ctl.phase \in {"before", "merging", "verified"}
    /\ {host.links, host.unjudged, host.owned, host.hashed, host.listed} \subseteq SUBSET Archives
    /\ host.stage \in 0..MaxRuns /\ host.upload \in 0..MaxRuns
    /\ host.lock \in 0..Free
    /\ faults \in 0..MaxFaults

\* "a" may have been extracted before; nothing is unfinished.
Init ==
    /\ \E done \in SUBSET {"a"} :
          host = [content |-> [x \in Archives |-> IF x \in done THEN "all" ELSE "none"],
                  links |-> done, unjudged |-> {}, owned |-> done, hashed |-> done, listed |-> done,
                  entries |-> {}, gate |-> "inside", lock |-> Free, stale |-> FALSE, orphan |-> "",
                  stage |-> 0, upload |-> 0, rival |-> "none", of |-> "b", saw |-> {}]
    /\ faults = 0 /\ pc = "check"
    /\ \E x \in Archives : ctl = Fresh(1, x)

-----------------------------------------------------------------------------
(* Commands and the way out                                                *)

X == ctl.archive
Own == {e \in host.entries : e.id = ctl.run}

Leave(r, way) == ctl' = [ctl EXCEPT !.result = r] /\ pc' = way

\* An exec that throws while the connection lives (a time-out) unwinds
\* through the finally blocks, from `way` on.
Step(work, ok, bad, way) ==
    \/ Exec(work, ok, bad)
    \/ Fault /\ host' \in {host, work} /\ Leave("raised", way)

\* A cleanup command: its failure is printed and nothing more.
Tidy(work, next) ==
    \/ host' = work /\ UNCHANGED <<ctl, faults>> /\ pc' = next
    \/ Fault /\ UNCHANGED host /\ ctl' = [ctl EXCEPT !.tidy = FALSE] /\ pc' = next
    \/ Fault /\ host' \in {host, work} /\ Return("raised")

-----------------------------------------------------------------------------
(* check()                                                                 *)

\* What the marker command says; `unjudged` is remembered for the properties.
Found(marked) ==
    /\ ctl' = [ctl EXCEPT !.unjudged = host.unjudged]
    /\ pc' = IF marked THEN "probe" ELSE "upload"

\* The hash marker and, in the same command, no containment entry.
Check ==
    /\ pc = "check"
    /\ Ask(Found(X \in host.hashed /\ host.entries = {}), Goto("upload"))

\* Every recorded member exists with its type, has the owner, and the source
\* still has the marker's hash.
Probe ==
    /\ pc = "probe"
    /\ Ask(IF X \in host.listed \intersect host.owned /\ host.content[X] = "all"
           THEN Return("checked") ELSE Goto("upload"),
           Goto("upload"))

-----------------------------------------------------------------------------
(* apply()                                                                 *)

\* mktemp; uploadFile comes before the try block.
AllocateUpload ==
    /\ pc = "upload"
    /\ Must([host EXCEPT !.upload = @ + 1], Goto("transfer"))

Transfer ==
    /\ pc = "transfer"
    /\ Must(host, Goto("list"))

\* Destination preflight, member listing and validation, marker payloads.
ListMembers ==
    /\ pc = "list"
    /\ Step(host, Goto("lock"), Leave("refused", "unupload"), "unupload")

\* The extract lock, reclaimed from a holder that is stale.
Lock ==
    /\ pc = "lock"
    /\ IF host.lock = Free \/ host.stale
       THEN Step([host EXCEPT !.lock = ctl.run, !.stale = FALSE], Goto("establish"),
                 Leave("busy", "unupload"), "unupload")
       ELSE Locally(Leave("busy", "unupload"))

\* One command reads every entry and creates the own one; any failure
\* refuses before the destination is touched.
Establish ==
    /\ pc = "establish"
    /\ LET entered == [host EXCEPT !.entries = @ \union {Entry(ctl.run, "progress", X, {})}]
       IN \/ host' = entered /\ UNCHANGED faults
             /\ ctl' = [ctl EXCEPT !.saw = host.entries] /\ pc' = "prepare"
          \/ Fault /\ host' \in {host, entered} /\ (Leave("refused", "release") \/ Return("raised"))

\* Destination, member paths, and the combined links before the merge.
Prepare ==
    /\ pc = "prepare"
    /\ Step(host,
            IF host.gate = "inside" THEN Goto("stage") ELSE Leave("refused", "record"),
            Leave("refused", "record"), "record")

AllocateStaging ==
    /\ pc = "stage"
    /\ Step([host EXCEPT !.stage = @ + 1], Goto("unpack"), Leave("raised", "record"), "record")

\* tar into the staging directory; the targets are validated once more.
Unpack ==
    /\ pc = "unpack"
    /\ Step(host, Goto("merge"), Leave("refused", "unstage"), "unstage")

Holds == host.lock = ctl.run /\ ~host.stale

Published(h, x, part) ==
    [h EXCEPT !.content[x] = part, !.links = @ \union {x}, !.unjudged = @ \union {x}]

\* Mutant: the merge does not look at the lock.
Merge_Unguarded ==
    /\ pc = "merge"
    /\ host' = Published(host, X, "all")
    /\ ctl' = [ctl EXCEPT !.phase = "merging"] /\ pc' = "unstage" /\ UNCHANGED faults

\* The guard and the bounded merge are one command.  A merge that fails may
\* have published anything; one whose connection dies goes on by itself.
Merge ==
    /\ pc = "merge"
    /\ \/ ~Holds /\ Locally(Leave("refused", "unstage"))
       \/ /\ Holds
          /\ host' = Published(host, X, "all") /\ UNCHANGED faults
          /\ ctl' = [ctl EXCEPT !.phase = "merging"] /\ pc' = "unstage"
       \/ /\ Holds /\ Fault
          /\ host' \in {host, [host EXCEPT !.content[X] = "part"], Published(host, X, "part")}
          /\ ctl' = [ctl EXCEPT !.phase = "merging", !.result = "failed"] /\ pc' = "unstage"
       \/ /\ Holds /\ Fault
          /\ host' = [host EXCEPT !.orphan = X]
          /\ Return("raised")

\* rm -rf in finally; the backstop follows whenever the merge started.
Unstage ==
    /\ pc = "unstage"
    /\ Tidy([host EXCEPT !.stage = @ - 1], IF ctl.phase = "before" THEN "record" ELSE "backstop")

\* The listing and the kernel cross-check judge the links on the host.
Backstop ==
    /\ pc = "backstop"
    /\ LET judged == Judged(host.links, ctl.saw, X)
           whole == IF ctl.result = "" THEN "chown" ELSE "record"
       IN \/ /\ host.gate = "inside" /\ UNCHANGED faults
             /\ host' = [host EXCEPT !.unjudged = @ \ judged]
             /\ ctl' = [ctl EXCEPT !.phase = IF ctl.result = "" THEN "verified" ELSE @] /\ pc' = whole
          \/ /\ host.gate = "outside" /\ UNCHANGED <<host, faults>>
             /\ ctl' = [ctl EXCEPT !.result = "failed", !.links = judged] /\ pc' = "record"
          \/ /\ Fault /\ UNCHANGED host
             /\ ctl' = [ctl EXCEPT !.result = "failed", !.record = "unknown"] /\ pc' = "record"
          \/ Fault /\ UNCHANGED host /\ Return("raised")

Chown ==
    /\ pc = "chown"
    /\ Step([host EXCEPT !.owned = @ \union {X}], Goto("hash"), Leave("failed", "record"), "record")

WriteMarker ==
    /\ pc = "hash"
    /\ Step([host EXCEPT !.hashed = @ \union {X}], Goto("members"), Leave("failed", "record"), "record")

\* The members marker and the owner-paths marker.
WriteMembersMarker ==
    /\ pc = "members"
    /\ Step([host EXCEPT !.listed = @ \union {X}], Goto("clear"), Leave("failed", "record"), "record")

\* Under the guard: the entries that are as they were read, the own one
\* last.  A failing command may have removed some of them.
Clear ==
    /\ pc = "clear"
    /\ LET unchanged == host.entries \intersect ctl.saw
           cleared == [host EXCEPT !.entries = @ \ (unchanged \union Own)]
       IN \/ ~Holds /\ Locally(Leave("failed", "record"))
          \/ Holds /\ Step(cleared, Leave("changed", "release"), Leave("failed", "record"), "record")
          \/ /\ Holds /\ Fault
             /\ \E some \in SUBSET unchanged : host' = [host EXCEPT !.entries = @ \ some]
             /\ Leave("failed", "record")

\* recordAfterThrow: by how far the apply got.
Outcome ==
    IF ctl.result = "raised" /\ ctl.phase = "merging" THEN Entry(ctl.run, "stopped", X, {})
    ELSE IF ctl.record = "unknown" THEN Entry(ctl.run, "unknown", X, {})
    ELSE Entry(ctl.run, "failed", X, ctl.links)

\* A failing apply rewrites its own entry, and creates it again if it is gone.
Record ==
    /\ pc = "record"
    /\ Tidy([host EXCEPT !.entries = (@ \ Own) \union {Outcome}], "release")

Release ==
    /\ pc = "release"
    /\ IF host.lock = ctl.run
       THEN Tidy([host EXCEPT !.lock = Free, !.stale = FALSE], "unupload")
       ELSE Locally(Goto("unupload"))

RemoveUpload ==
    /\ pc = "unupload"
    /\ Tidy([host EXCEPT !.upload = @ - 1], "done")

-----------------------------------------------------------------------------
(* The host, and another controller's apply of the other archive           *)

\* The guard age, the merge bound and the slack stay below the reclaim age:
\* no lock turns stale under a merge that was let start.
LockLapses ==
    /\ host.lock # Free /\ ~host.stale /\ host.orphan = ""
    /\ host' = [host EXCEPT !.stale = TRUE] /\ UNCHANGED <<ctl, pc>>
    /\ IF host.lock = ctl.run /\ ~Ended THEN Fault ELSE UNCHANGED faults

\* GNU timeout ends a merge nobody waits for.
OrphanEnds ==
    /\ host.orphan # ""
    /\ \E part \in {"part", "all"} :
          host' = [Published(host, host.orphan, part) EXCEPT !.orphan = ""]
    /\ UNCHANGED <<ctl, pc, faults>>

\* Somebody points the gate elsewhere.
MoveGate ==
    /\ ~Ended /\ Fault
    /\ host' = [host EXCEPT !.gate = IF @ = "inside" THEN "outside" ELSE "inside"]
    /\ UNCHANGED <<ctl, pc>>

Y == host.of

\* The same code on the other controller, without faults; it may also stop
\* after any step.
RivalStarts ==
    /\ ~Ended /\ host.rival = "none" /\ (host.lock = Free \/ host.stale) /\ Fault
    /\ host' = [host EXCEPT !.lock = Rival, !.stale = FALSE, !.rival = "establish", !.of = Other(X)]
    /\ UNCHANGED <<ctl, pc>>

RivalHolds == host.lock = Rival /\ ~host.stale

RivalWorks ==
    /\ ~Ended /\ UNCHANGED <<ctl, pc, faults>>
    /\ \/ /\ host.rival = "establish" /\ host.gate = "inside" /\ RivalHolds
          /\ host' = [host EXCEPT !.saw = @ \union host.entries, !.rival = "merge",
                                  !.entries = @ \union {Entry(Rival, "progress", Y, {})}]
       \/ /\ host.rival = "merge" /\ RivalHolds
          /\ host' = [Published(host, Y, "all") EXCEPT !.rival = "judge"]
       \/ /\ host.rival = "judge" /\ host.gate = "inside"
          /\ host' = [host EXCEPT !.unjudged = @ \ Judged(host.links, host.saw, Y), !.rival = "clear"]
       \/ /\ host.rival = "clear" /\ RivalHolds
          /\ host' = [host EXCEPT !.entries = @ \ (host.saw \union {e \in @ : e.id = Rival}),
                                  !.owned = @ \union {Y}, !.hashed = @ \union {Y},
                                  !.listed = @ \union {Y}, !.lock = Free, !.rival = "gone",
                                  !.saw = {}]

Environment == LockLapses \/ OrphanEnds \/ MoveGate \/ RivalStarts \/ RivalWorks

Section == Check \/ Probe \/ AllocateUpload \/ Transfer \/ ListMembers \/ Lock \/ Establish
           \/ Prepare \/ AllocateStaging \/ Unpack \/ Merge \/ Unstage \/ Backstop \/ Chown
           \/ WriteMarker \/ WriteMembersMarker \/ Clear \/ Record \/ Release \/ RemoveUpload

Next == Section \/ Environment \/ \E x \in Archives : Again(Fresh(ctl.run + 1, x))
Spec == Init /\ [][Next]_vars

-----------------------------------------------------------------------------
(* Properties                                                              *)

\* check() is ok, and apply() "changed", only when the members are there with
\* their owner; check() moreover only when every link that any apply ever
\* had published below the destination was judged
\* (checkExtract, archiveContainmentFlag.ts).
ReportsAreTrue ==
    /\ ctl.result = "checked" => ctl.unjudged = {} /\ host.content[X] = "all" /\ X \in host.owned
    /\ (ctl.result = "changed" /\ Ended) => host.content[X] = "all" /\ X \notin host.unjudged

\* An entry covers every link that still needs verification: what "failed"
\* entries list is complete, and what a live or interrupted merge may publish
\* is in the scope of its entry.
FailuresAreTrue ==
    \A l \in host.unjudged \union ({host.orphan} \ {""}) :
        \E e \in host.entries :
            e.state = "unknown" \/ (e.state \in {"progress", "stopped"} /\ e.scope = l) \/ l \in e.links

\* The uploaded archive, the staging directory and the lock outlive the call
\* only if the connection died or their own removal failed.
NothingIsLeft ==
    (Ended /\ ctl.run = 1 /\ ctl.tidy /\ ctl.result # "raised") =>
        host.upload = 0 /\ host.stage = 0 /\ host.lock # ctl.run

\* On a destination whose gate leads inside and whose lock is not taken, a
\* run without faults extracts, whatever interrupted runs left there.
CleanRunConverges ==
    (Ended /\ Clean /\ host.gate = "inside") =>
        \/ ctl.result = "busy"
        \/ /\ ctl.result \in {"checked", "changed"}
           /\ host.content[X] = "all" /\ X \in host.owned
=============================================================================
