-------------------------------- MODULE Cron --------------------------------
(***************************************************************************)
(* cron.job and cron.absent: one job of a crontab that others edit too,    *)
(* found again by the marker line above it.  The whole table is read,      *)
(* changed and written back under a lock that only this program knows, so  *)
(* what `crontab -e` saves in between is overwritten.                      *)
(***************************************************************************)
EXTENDS Remote, TLC, SequencesExt

\* The marker of this job, of an earlier text of it, and one from before
\* markers carried a digest; the job and its earlier text; lines of others.
Markers == {"marker", "stale", "legacy"}
Jobs == {"job", "old"}
Others == {"note", "other"}

Fresh(run) == Call(run) @@ [seen |-> <<>>, was |-> <<>>, locked |-> FALSE]

TypeOK ==
    /\ pc \in {"check", "lock", "read", "write", "done"} /\ {ctl.locked, host.theirs, host.late, host.mute} \subseteq BOOLEAN
    /\ ToSet(host.lines) \cup ToSet(ctl.seen) \subseteq Markers \cup Jobs \cup Others \cup {"blank"}
    /\ ctl.result \in Results /\ faults \in 0..MaxFaults

Heads == {<<>>} \cup {<<m>> \o t : m \in Markers, t \in {<<>>, <<"job">>, <<"old">>, <<"other">>}}

\* No lines is no crontab; <<"blank">> one without a job.
Init ==
    /\ \E kind \in {"job", "no job", "absent"}, adopt \in BOOLEAN, head \in Heads, tail \in {<<>>, <<"note", "job">>, <<"blank">>} :
          /\ adopt => kind = "job"
          /\ \E lines \in {head \o tail, tail \o head} :
                host = [kind |-> kind, adopt |-> adopt, lines |-> lines, theirs |-> FALSE, late |-> FALSE, mute |-> FALSE]
    /\ faults = 0 /\ pc = "check" /\ ctl = Fresh(1)

\* The text readCrontab splits has lost the blank lines at its end.
Trimmed(lines) ==
    LET full == {i \in DOMAIN lines : lines[i] # "blank"}
    IN IF lines = <<>> THEN <<>>
       ELSE IF full = {} THEN <<"blank">>
       ELSE SubSeq(lines, 1, CHOOSE i \in full : \A j \in full : j <= i)

At(lines, i) == IF i \in DOMAIN lines THEN lines[i] ELSE "blank"

\* findMarkerIndex; 0 when there is none.
MarkerIndex(lines) == SelectInSeq(lines, LAMBDA line : line \in Markers)

LooksLikeJob(line) == line \in Jobs \cup {"other"}

Orphan(lines) == \E i \in DOMAIN lines : lines[i] = "job" /\ (MarkerIndex(lines) = 0 \/ i # MarkerIndex(lines) + 1)

\* hasMarkedJob, computeCronJobPresentVerdict.
InState(lines) ==
    LET at == MarkerIndex(lines)
    IN IF host.kind # "job" THEN at = 0
       ELSE at # 0 /\ At(lines, at) = "marker" /\ At(lines, at + 1) = "job" /\ ~Orphan(lines)

\* removeOrphanDuplicates.
Consolidated(lines) ==
    LET kept == {i \in DOMAIN lines : lines[i] = "job" => At(lines, i - 1) = "marker"}
    IN [n \in 1..Cardinality(kept) |-> lines[CHOOSE i \in kept : Cardinality({j \in kept : j <= i}) = n]]

\* computePresentMutation; the table as it is when there is nothing to do.
Present(lines) ==
    LET at == MarkerIndex(lines)
        first == SelectInSeq(lines, LAMBDA line : line = "job")
        marked == IF at = 0 THEN lines ELSE ReplaceAt(lines, at, "marker")
        next == IF at = 0 /\ first # 0 /\ host.adopt THEN InsertAt(lines, first, "marker")
                ELSE IF at = 0 THEN lines \o <<"marker", "job">>
                ELSE IF LooksLikeJob(At(lines, at + 1)) THEN ReplaceAt(marked, at + 1, "job")
                ELSE InsertAt(marked, at + 1, "job")
    IN IF At(lines, at) = "marker" /\ At(lines, at + 1) = "job" THEN lines
       ELSE IF host.adopt THEN Consolidated(next) ELSE next

\* cron.job takes the next line along if it is the job it was called with,
\* cron.absent if its digest is the one of the marker.
Absent(lines) ==
    LET at == MarkerIndex(lines)
        ours == \/ host.kind = "no job" /\ At(lines, at + 1) = "job"
                \/ host.kind = "absent" /\ <<At(lines, at), At(lines, at + 1)>> \in {<<"marker", "job">>, <<"stale", "old">>}
        bare == RemoveAt(lines, at)
    IN IF at = 0 THEN lines ELSE IF ours THEN RemoveAt(bare, at) ELSE bare

Mutation(lines) == IF host.kind = "job" THEN Present(lines) ELSE Absent(lines)

-----------------------------------------------------------------------------

Check ==
    /\ pc = "check"
    /\ Ask(IF InState(Trimmed(host.lines)) THEN Return("checked") ELSE Goto("lock"), Goto("lock"))

\* withMutexLock: acquired, or not in time.
Lock ==
    /\ pc = "lock"
    /\ Ask(ctl' = [ctl EXCEPT !.locked = TRUE] /\ pc' = "read", Return("failed"))

Leave(r) == ctl' = [ctl EXCEPT !.result = r, !.locked = FALSE] /\ pc' = "done"

\* A crontab -l that fails without a word passes for "no crontab".
Read ==
    /\ pc = "read"
    /\ LET go(lines) ==
               IF Mutation(lines) = lines THEN Leave("ok")
               ELSE ctl' = [ctl EXCEPT !.seen = lines, !.was = host.lines] /\ pc' = "write"
       IN \/ Ask(go(Trimmed(host.lines)), Leave("failed"))
          \/ host' = [host EXCEPT !.mute = TRUE] /\ go(<<>>) /\ Fault

Write ==
    /\ pc = "write"
    /\ Exec([host EXCEPT !.lines = Mutation(ctl.seen)], Leave("changed"), Leave("failed"))

Section == Check \/ Lock \/ Read \/ Write

\* Somebody else adds a job and a line above it.
Added(late) ==
    /\ ~Ended /\ ~host.theirs /\ Fault
    /\ host' = [host EXCEPT !.lines = @ \o <<"note", "other">>, !.theirs = TRUE, !.late = late]
    /\ UNCHANGED <<ctl, pc>>

\* Another call of this program waits for the lock; `crontab -e` does not,
\* and between the read and the write it is late.
OtherJob == ~ctl.locked /\ Added(FALSE)
Editor == ctl.locked /\ Added(pc = "write")

Next == Section \/ OtherJob \/ Editor \/ Again(Fresh(ctl.run + 1))
Spec == Init /\ [][Next]_vars

-----------------------------------------------------------------------------

\* Lines of others; one right under the marker takes the job's place.
Foreign(lines, x) == Cardinality({i \in DOMAIN lines : lines[i] = x /\ ~(LooksLikeJob(x) /\ At(lines, i - 1) \in Markers)})

\* Whatever the mutation, a line of somebody else stays in the table, unless
\* an editor saved it between the read and the write (writeCrontab).
EditsSurvive ==
    /\ \A x \in Others :
          ctl.was # <<>> /\ ~host.mute =>
             Foreign(ctl.was, x) <= Cardinality({i \in DOMAIN host.lines : host.lines[i] = x})
    /\ host.theirs /\ ~host.mute /\ ~host.late => Contains(host.lines, "other")

\* "changed" leaves exactly one marker above its job, or none; the line of
\* somebody else that happens to be the job stays unless it may be adopted.
ReportsAreTrue ==
    ctl.result = "changed" =>
        LET at == MarkerIndex(host.lines)
        IN IF host.kind # "job" THEN at = 0
           ELSE /\ At(host.lines, at) = "marker" /\ At(host.lines, at + 1) = "job"
                /\ host.adopt => ~Orphan(host.lines)

\* A run without faults leaves one job line under its marker, unless an
\* orphaned line blocks it (applyCronJobState).
CleanRunConverges ==
    Ended /\ Clean => ctl.result # "failed" /\ (InState(Trimmed(host.lines)) \/ Orphan(host.lines))

\* With adoptOrphans a second copy of the job is consolidated.
DuplicatesAreConsolidated == Ended /\ Clean /\ host.kind = "job" /\ host.adopt => ~Orphan(host.lines)
=============================================================================
