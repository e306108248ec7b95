---------------------------- MODULE ArchiveLinks ----------------------------
(***************************************************************************)
(* Which symlinks archive.extract lets into a destination: the validation  *)
(* of the listed members, the resolver that walks link targets by itself,  *)
(* the combined look at the host's and the archive's links before the      *)
(* merge, the guards of the merge and the backstop after it.  Paths are    *)
(* sequences of names below the destination.  The reference is Kernel: how *)
(* the host follows a path, on a file system that may fold letter case.    *)
(***************************************************************************)
EXTENDS Remote, SequencesExt

\* "L" is the name that differs from "l" by letter case only
\* (pathNameVariantKey).
Fold(path) == [i \in DOMAIN path |-> IF path[i] = "L" THEN "l" ELSE path[i]]

Parent(path) == SubSeq(path, 1, Len(path) - 1)
Ancestors(path) == {SubSeq(path, 1, n) : n \in 1..(Len(path) - 1)}

\* A target is relative to its link, or leaves by an absolute path.
To(path) == [anchor |-> "parent", path |-> path]
Outside == [anchor |-> "outside", path |-> <<>>]

Member(path, kind, target) == [path |-> path, kind |-> kind, target |-> target]

Targets == {<<"..">>, <<"m">>, <<"d", "l">>, <<"..", "l">>, <<"L">>}
Members ==
    {Member(p, "symlink", t) : p \in {<<"l">>, <<"m">>, <<"d", "l">>}, t \in Targets}
    \union {Member(p, "file", <<>>) : p \in {<<"l">>, <<"d", "l">>, <<"l", "x">>, <<"..", "x">>}}
    \union {Member(<<"h">>, "hardlink", <<"l">>)}

\* The host's own links: none or one, which may leave the destination.
HostLinks ==
    {<<>>} \union {p :> t : p \in {<<"l">>, <<"L">>, <<"d">>, <<"d", "m">>},
                            t \in {Outside, To(<<"..">>), To(<<"m">>), To(<<"..", "l">>)}}

\* Links put over others: nothing lies below a link.
Placed(new, old) ==
    LET kept == {k \in DOMAIN old : \A n \in DOMAIN new : n \notin Ancestors(k)}
    IN new @@ [k \in kept |-> old[k]]

-----------------------------------------------------------------------------
(* The resolver                                                            *)

Walked(kind, at, seen) == [kind |-> kind, at |-> at, seen |-> seen]

\* Another link whose name the file system may take for this one.
HasVariant(links, path) == \E k \in DOMAIN links : k # path /\ Fold(k) = Fold(path)

\* ArchiveSymlinkResolver.resolveTracked: what ends a resolution before it
\* begins.
Entered(links, key, busy) ==
    IF key \in busy THEN "limit"
    ELSE IF links[key].anchor = "outside" THEN "escape"
    ELSE IF \E a \in Ancestors(key) : HasVariant(links, a) THEN "variant"
    ELSE "resolved"

\* ArchiveSymlinkResolver.walk, step and follow: one segment after the other;
\* a link on the way is resolved to its end before the walk goes on.
Walk(links, key) ==
    LET walk[at, path \in Seq(STRING), busy \in SUBSET Seq(STRING), seen \in SUBSET Seq(STRING)] ==
            IF path = <<>> THEN Walked("resolved", at, seen)
            ELSE IF path[1] = ".." THEN
                IF at = <<>> THEN Walked("escape", <<>>, seen)
                ELSE walk[Parent(at), Tail(path), busy, seen]
            ELSE
                LET prefix == Append(at, path[1])
                    now == seen \union {Fold(prefix)}
                    entered == Entered(links, prefix, busy)
                    r == IF entered # "resolved" THEN Walked(entered, <<>>, {})
                         ELSE walk[Parent(prefix), links[prefix].path, busy \union {prefix}, {}]
                IN IF HasVariant(links, prefix) THEN Walked("variant", <<>>, now)
                   ELSE IF prefix \notin DOMAIN links THEN walk[prefix, Tail(path), busy, now]
                   ELSE IF r.kind # "resolved" THEN [r EXCEPT !.seen = @ \union now]
                   ELSE walk[r.at, Tail(path), busy, now \union r.seen]
    IN walk[Parent(key), links[key].path, {key}, {}]

ResolveLink(links, key) ==
    LET entered == Entered(links, key, {})
    IN IF entered = "resolved" THEN Walk(links, key) ELSE Walked(entered, <<>>, {})

\* What the kernel makes of a path: a link is replaced by its target, at most
\* `hops` times.  "out" is every place beside the destination.
Kernel(links, folds, path, hops) ==
    LET follow[at, rest \in Seq(STRING), n \in 0..hops] ==
            IF rest = <<>> THEN at
            ELSE IF rest[1] = ".." THEN
                IF at = <<>> THEN <<"out">> ELSE follow[Parent(at), Tail(rest), n]
            ELSE
                LET prefix == Append(at, rest[1])
                    found == {k \in DOMAIN links : k = prefix \/ (folds /\ Fold(k) = Fold(prefix))}
                    k == CHOOSE k \in found : k = prefix \/ prefix \notin found
                IN IF found = {} THEN follow[prefix, Tail(rest), n]
                   ELSE IF n = 0 THEN <<"loop">>
                   ELSE IF links[k].anchor = "outside" THEN <<"out">>
                   ELSE follow[Parent(k), links[k].path \o Tail(rest), n - 1]
    IN follow[<<>>, path, hops]

Leaves(h, key) == Kernel(h.links, h.folds, key, 6) = <<"out">>

-----------------------------------------------------------------------------
(* Validation of the listing                                               *)

\* normalizeArchiveMemberPath: by the text alone, "up" for a path that
\* climbs over its root.
Normal(path) ==
    FoldLeft(LAMBDA at, name : IF at = <<"up">> THEN at
                               ELSE IF name # ".." THEN Append(at, name)
                               ELSE IF at = <<>> THEN <<"up">> ELSE Parent(at),
             <<>>, path)

\* archiveMemberUnsafeReason: ".." in a name, or a target that climbs out.
UnsafeMember(m) ==
    \/ ".." \in {m.path[i] : i \in DOMAIN m.path}
    \/ m.kind = "symlink" /\ Normal(Parent(m.path) \o m.target) = <<"up">>

\* keyedMembers, as a map from links to their targets.
ArchiveLinks(members) ==
    LET symlinks == {m \in members : m.kind = "symlink"}
    IN [k \in {m.path : m \in symlinks} |-> To((CHOOSE m \in symlinks : m.path = k).target)]

\* duplicateReason, ancestorReason, hardlinkToSymlinkReason, resolutionReason.
Conflicting(members) ==
    \E a \in members, b \in members :
        a # b /\ Fold(a.path) = Fold(b.path) /\ "symlink" \in {a.kind, b.kind}

BelowSymlink(members) ==
    LET links == {Fold(k) : k \in DOMAIN ArchiveLinks(members)}
    IN \E m \in members :
          \/ \E a \in Ancestors(m.path) : Fold(a) \in links
          \/ m.kind = "hardlink" /\ Fold(m.target) \in links

UnsafeLinks(members) ==
    \/ Conflicting(members) \/ BelowSymlink(members)
    \/ LET links == ArchiveLinks(members)
       IN \E k \in DOMAIN links : ResolveLink(links, k).kind # "resolved"

-----------------------------------------------------------------------------
(* The host                                                                *)

\* archiveMemberGuardPaths: no member is written through or onto a link; a
\* symlink member may replace one.
GuardPaths(members) ==
    UNION {Ancestors(m.path) \union (IF m.kind = "symlink" THEN {} ELSE {m.path}) : m \in members}

\* [ -L path ] on the host.
IsLink(h, path) == \E k \in DOMAIN h.links : k = path \/ (h.folds /\ Fold(k) = Fold(path))

\* archiveSymlinkTargetPrefixes: host paths the archive's links pass through.
TargetPrefixes(members) ==
    LET links == ArchiveLinks(members)
    IN UNION {ResolveLink(links, k).seen : k \in DOMAIN links} \ {Fold(k) : k \in DOMAIN links}

\* archiveContainmentScope: every path a member writes, with its ancestors.
Written(members) == {Fold(p) : p \in UNION {Ancestors(m.path) \union {m.path} : m \in members}}

\* mergedArchiveSymlinks: what the links will be.
Merged(links, members) ==
    LET kept == [k \in DOMAIN links \ {m.path : m \in members} |-> links[k]]
    IN ArchiveLinks(members) @@ kept

\* mergedSymlinkResolutions: the archive's links, and the host's whose
\* resolution touches a path the archive writes.
Relevant(links, members) ==
    {k \in DOMAIN links :
        \/ Fold(k) \in {Fold(a) : a \in DOMAIN ArchiveLinks(members)}
        \/ ResolveLink(links, k).seen \intersect Written(members) # {}}

Violations(links, members) ==
    {k \in Relevant(links, members) : ResolveLink(links, k).kind # "resolved"}

\* The kernel cross-check compares where a link leads on the host with where
\* the resolver placed it; the links are the ones of the listing.
Mismatches(h, links, members) ==
    {k \in Relevant(links, members) :
        Kernel(h.links, h.folds, k, 6) # ResolveLink(links, k).at}

-----------------------------------------------------------------------------

Fresh(run) == Call(run) @@ [links |-> <<>>]

TypeOK ==
    /\ pc \in {"check", "prestage", "merged", "merge", "readback", "crosscheck", "done"}
    /\ ctl.result \in Results /\ host.members \subseteq Members
    /\ \A k \in DOMAIN host.links : host.links[k].anchor \in {"parent", "outside"}
    /\ faults \in 0..MaxFaults

Init ==
    /\ \E a, b \in Members, links \in HostLinks, folds \in BOOLEAN :
          host = [links |-> links, folds |-> folds, members |-> {a, b}, planted |-> FALSE, stray |-> FALSE]
    /\ faults = 0 /\ pc = "check" /\ ctl = Fresh(1)

M == host.members
HasSymlinks == \E m \in M : m.kind = "symlink"

\* validatedArchiveMembers.
Validate ==
    /\ pc = "check"
    /\ Locally(IF (\E m \in M : UnsafeMember(m)) \/ UnsafeLinks(M)
               THEN Return("refused") ELSE Goto("prestage"))

\* validatePreStagingPaths: guard paths and target prefixes that are links.
PreStaging ==
    /\ pc = "prestage"
    /\ Ask(IF \A p \in GuardPaths(M) \union TargetPrefixes(M) : ~IsLink(host, p)
           THEN Goto("merged") ELSE Return("refused"),
           Return("refused"))

\* validateMergedSymlinkContainment.
PreMerge ==
    /\ pc = "merged"
    /\ IF ~HasSymlinks THEN Locally(Goto("merge"))
       ELSE Ask(IF Violations(Merged(host.links, M), M) = {} THEN Goto("merge") ELSE Return("refused"),
                Return("refused"))

\* The staging merge looks at its guard paths and copies; cp replaces what is
\* at the path.
Merge ==
    /\ pc = "merge"
    /\ IF \E p \in GuardPaths(M) : IsLink(host, p)
       THEN Locally(Return("refused"))
       ELSE Must([host EXCEPT !.links = Merged(@, M),
                              !.stray = \E m \in M : \E a \in Ancestors(m.path) : Leaves(host, a)],
                 Goto("readback"))

\* runSymlinkContainmentBackstop: the links are listed again and judged.
Backstop ==
    /\ pc = "readback"
    /\ IF ~HasSymlinks THEN Locally(Return("changed"))
       ELSE Ask(IF Violations(host.links, M) = {}
                THEN ctl' = [ctl EXCEPT !.links = host.links] /\ pc' = "crosscheck" ELSE Return("failed"),
                Return("failed"))

\* kernelCrossCheck: a check that cannot be completed fails the run.
CrossCheck ==
    /\ pc = "crosscheck"
    /\ Ask(IF Mismatches(host, ctl.links, M) = {} THEN Return("changed") ELSE Return("failed"),
           Return("failed"))

\* Somebody else makes a link while the extraction runs.
Plant ==
    /\ ~Ended /\ ~host.planted /\ Fault
    /\ \E links \in HostLinks :
          /\ \A n \in DOMAIN links : Ancestors(n) \intersect DOMAIN host.links = {}
          /\ host' = [host EXCEPT !.links = Placed(links, @), !.planted = TRUE]
    /\ UNCHANGED <<ctl, pc>>

Section == Validate \/ PreStaging \/ PreMerge \/ Merge \/ Backstop \/ CrossCheck
Next == Section \/ Plant
Spec == Init /\ [][Next]_vars

-----------------------------------------------------------------------------
(* Properties                                                              *)

\* A finished extraction wrote nothing through a link, and neither a link of
\* the archive nor a listed link that the archive's paths redirect leads out
\* of the destination, on file systems with and without letter case
\* (archiveContainmentBackstop.ts and archiveLinkValidation.ts).
ReportsAreTrue ==
    ctl.result = "changed" =>
        /\ ~host.stray
        /\ HasSymlinks => \A k \in Relevant(ctl.links, M) : ~Leaves(host, k)

\* The resolver agrees with the kernel wherever it calls a link resolved
\* (archiveSymlinkResolver.ts).
FailuresAreTrue ==
    pc = "readback" => \A k \in DOMAIN host.links :
        LET r == ResolveLink(host.links, k)
        IN r.kind = "resolved" => Kernel(host.links, host.folds, k, 6) = r.at
=============================================================================
