--------------------------- MODULE ArchiveListing ---------------------------
(***************************************************************************)
(* What archive.extract learns about an archive and about the links of a   *)
(* destination is text of programs on the host: `tar -tv` in one of three  *)
(* dialects, and the records of a probe script.  A name is a sequence of   *)
(* tokens, the ones that a dialect prints in its own way or that look like *)
(* its separators among them.  The reference is the member itself, as tar  *)
(* will create it.                                                         *)
(***************************************************************************)
EXTENDS Remote, SequencesExt, TLC

\* "e" is a printable character outside ASCII, "bad" a byte that is no UTF-8.
Tokens == {"a", "->", "link to", "\\", "nl", "e", "bad"}
Names == SeqOf(Tokens, 2) \ {<<>>}
LinkTargets == SeqOf({"a", "->", "link to", "bad"}, 2) \ {<<>>}

Members == [kind : {"file", "directory", "special"}, path : Names, target : {<<>>}]
           \union [kind : {"symlink", "hardlink"}, path : Names, target : LinkTargets]

Flavors == {"gnu", "bsd", "other"}

Has(name, token) == \E i \in DOMAIN name : name[i] = token

-----------------------------------------------------------------------------
(* What tar prints                                                         *)

\* tarListingScript: the dialect, and UTF-8 for GNU tar where the host has it.
Printed(name, flavor, utf8) ==
    [i \in DOMAIN name |->
        [t |-> name[i],
         escaped |-> flavor # "other"
                     /\ (name[i] \in {"\\", "nl", "bad"} \/ (name[i] = "e" /\ ~(utf8 /\ flavor = "gnu")))]]

Mark(token) == <<[t |-> token, escaped |-> FALSE]>>

\* The mode character and the rest of the line after its columns.
Letters(m, flavor) ==
    CASE m.kind = "file" -> {"-"} [] m.kind = "directory" -> {"d"} [] m.kind = "special" -> {"c"}
      [] m.kind = "symlink" -> {"l"}
      [] m.kind = "hardlink" -> CASE flavor = "gnu" -> {"h"} [] flavor = "other" -> {"-"}
                                  [] OTHER -> {"h", "-", "l", "d"}

Rest(m, flavor, utf8) ==
    LET arrow == IF m.kind = "symlink" \/ flavor = "other" THEN "->" ELSE "link to"
    IN Printed(m.path, flavor, utf8)
       \o (IF m.target = <<>> THEN <<>> ELSE Mark(arrow) \o Printed(m.target, flavor, utf8))

-----------------------------------------------------------------------------
(* What the parser reads                                                   *)

Invalid == [kind |-> "invalid", path |-> <<>>, target |-> <<>>]

Marks(rest, token) == {i \in DOMAIN rest : rest[i] = Mark(token)[1]}

\* archiveMemberKindFromMode.
KindOf(letter) ==
    CASE letter = "d" -> "directory" [] letter = "l" -> "symlink" [] letter = "h" -> "hardlink"
      [] letter = "-" -> "file" [] OTHER -> "special"

\* tarListingMemberKind.
KindInLine(letter, rest, flavor) ==
    LET kind == KindOf(letter)
        linkTo == Marks(rest, "link to") # {}
    IN IF \/ flavor = "bsd" /\ kind # "special" /\ linkTo
          \/ flavor = "other" /\ kind = "file" /\ (linkTo \/ Marks(rest, "->") # {})
       THEN "hardlink" ELSE kind

\* parseTarLinkMember: the split has to be the only one.
SplitAt(kind, rest, token) ==
    IF Cardinality(Marks(rest, token)) > 1 THEN Invalid
    ELSE LET i == CHOOSE i \in Marks(rest, token) : TRUE
         IN [kind |-> kind, path |-> SubSeq(rest, 1, i - 1), target |-> SubSeq(rest, i + 1, Len(rest))]

\* parseTarLinkRemainder.
Remainder(kind, rest) ==
    LET arrow == Marks(rest, "->") # {}
        linkTo == Marks(rest, "link to") # {}
        whole == [kind |-> kind, path |-> rest, target |-> <<>>]
    IN IF kind = "file" THEN whole
       ELSE IF kind = "hardlink" /\ arrow /\ linkTo THEN Invalid
       ELSE IF arrow THEN SplitAt(kind, rest, "->")
       ELSE IF kind = "hardlink" /\ linkTo THEN SplitAt(kind, rest, "link to")
       ELSE whole

\* decodeTarListingName: escapes become bytes, which have to be UTF-8.
Decodes(listed) == ~\E i \in DOMAIN listed : listed[i].escaped /\ listed[i].t = "bad"
Text(listed) == [i \in DOMAIN listed |-> listed[i].t]

\* parseTarListing: a name printed raw may break the line or be no UTF-8.
ParseTar(letter, rest, flavor) ==
    LET m == Remainder(KindInLine(letter, rest, flavor), rest)
    IN IF \/ m.kind = "invalid" \/ ~Decodes(m.path) \/ ~Decodes(m.target)
          \/ \E i \in DOMAIN rest : ~rest[i].escaped /\ rest[i].t \in {"nl", "bad"}
       THEN Invalid
       ELSE [m EXCEPT !.path = Text(@), !.target = Text(@)]

\* archiveMemberUnsafeReason, as far as it looks at single names.
Unsafe(m) ==
    \/ m.kind \in {"invalid", "special"}
    \/ \E n \in {m.path, m.target} : Has(n, "nl") \/ Has(n, "\\")

-----------------------------------------------------------------------------
(* The records of the symlink probe                                        *)

\* The fields of a record travel as they are or in hex; od may fail.
Record(link, target) == <<"l", link, target>>
FailedRecord(link) == <<"x", link>>

NoLink == [mappable |-> TRUE, path |-> <<>>, target |-> <<>>]

\* addLinkRecord; failedEntryRecord makes the listing unusable.
ReadRecord(record) ==
    IF record[1] # "l" THEN [NoLink EXCEPT !.mappable = FALSE]
    ELSE [mappable |-> ~Has(record[2], "bad") /\ ~Has(record[3], "bad"),
          path |-> record[2], target |-> record[3]]

-----------------------------------------------------------------------------

Fresh(run) == Call(run) @@ [read |-> Invalid, link |-> NoLink]

TypeOK ==
    /\ pc \in {"check", "merge", "listing", "done"}
    /\ host.member \in Members /\ host.flavor \in Flavors
    /\ ctl.result \in Results /\ faults \in 0..MaxFaults

Init ==
    /\ \E m \in Members, flavor \in Flavors, utf8 \in BOOLEAN :
          \E letter \in Letters(m, flavor) :
             host = [member |-> m, flavor |-> flavor, utf8 |-> utf8, letter |-> letter, link |-> NoLink]
    /\ faults = 0 /\ pc = "check" /\ ctl = Fresh(1)

\* listArchiveMembers: a listing that fails or is cut off is refused.
ListMembers ==
    /\ pc = "check"
    /\ LET m == ParseTar(host.letter, Rest(host.member, host.flavor, host.utf8), host.flavor)
       IN Ask(IF Unsafe(m) THEN Return("refused")
              ELSE ctl' = [ctl EXCEPT !.read = m] /\ pc' = "merge",
              Return("refused"))

\* tar creates the member.
Merge ==
    /\ pc = "merge"
    /\ Must(IF host.member.kind = "symlink"
            THEN [host EXCEPT !.link = [mappable |-> TRUE, path |-> host.member.path,
                                        target |-> host.member.target]]
            ELSE host,
            IF ctl.read.kind = "symlink" THEN Goto("listing") ELSE Return("changed"))

\* runSymlinkListing and hostStateFromListing.
ListLinks ==
    /\ pc = "listing"
    /\ LET link == ReadRecord(Record(host.link.path, host.link.target))
       IN Ask(IF link.mappable
              THEN ctl' = [ctl EXCEPT !.link = link, !.result = "changed"] /\ pc' = "done"
              ELSE Return("failed"),
              IF ReadRecord(FailedRecord(host.link.path)).mappable THEN Return("changed") ELSE Return("failed"))

Section == ListMembers \/ Merge \/ ListLinks
Next == Section
Spec == Init /\ [][Next]_vars

-----------------------------------------------------------------------------
(* Properties                                                              *)

\* No link of an accepted archive is taken for something else: its kind, its
\* path and its target are the ones tar creates (archiveTarListingParser.ts),
\* and the link is found on the host under the same name.  (A directory
\* named with an arrow is read under the part before it.)
ReportsAreTrue ==
    ctl.read.kind # "invalid" =>
        /\ \/ host.member.kind \in {"symlink", "hardlink"}
           \/ host.member.kind = "file" /\ host.flavor = "gnu"
           => ctl.read = host.member
        /\ ctl.link # NoLink =>
              ctl.link = [mappable |-> TRUE, path |-> ctl.read.path, target |-> ctl.read.target]

\* Without a fault a name of plain characters is accepted in every dialect and
\* in every locale of GNU tar and bsdtar.
CleanRunConverges ==
    LET plain(name) == \A i \in DOMAIN name : name[i] \in {"a", "e"}
    IN Ended /\ Clean /\ host.member.kind # "special" /\ plain(host.member.path) /\ plain(host.member.target)
       => ctl.result = "changed"
=============================================================================
