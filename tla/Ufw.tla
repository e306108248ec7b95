--------------------------------- MODULE Ufw ---------------------------------
(***************************************************************************)
(* ufw.enabled, ufw.disabled and ufw.rule: a firewall must never be turned *)
(* on, or changed, so that it shuts out the connection that does it.  ufw  *)
(* shows its rules only while it is active, keeps a rule per address       *)
(* family, and drops what no rule allows.                                  *)
(***************************************************************************)
EXTENDS Remote

\* The port the run came in by, and another one that sshd may also serve.
Ports == {"ssh", "web"}
Rules == [port : Ports, action : {"allow", "deny"}, proto : {"any", "tcp"}, fam : {4, 6}]
Opposite(action) == IF action = "allow" THEN "deny" ELSE "allow"

Fresh(run) == [run |-> run, from |-> faults, result |-> "", rules |-> {}, todo |-> <<>>, changed |-> FALSE]

TypeOK ==
    /\ pc \in {"check", "queued", "installed", "status", "disable", "lock", "first", "first queued", "undeny", "allow", "second",
               "second queued", "enable", "guard", "probe", "read", "opposite", "add", "done"}
    /\ host.rules \subseteq Rules /\ {host.installed, host.active, host.v6, host.late, host.withdrawn} \subseteq BOOLEAN
    /\ ctl.rules \subseteq Rules /\ ctl.result \in Results /\ faults \in 0..MaxFaults

Fams(h) == IF h.v6 THEN {4, 6} ELSE {4}
Shown(h) == {r \in h.rules : r.fam \in Fams(h)}

\* ufw puts a rule in the place of its opposite.
Added(h, action, port) ==
    LET new == [port : {port}, action : {action}, proto : {"any"}, fam : Fams(h)]
        out == [port : {port}, action : {Opposite(action)}, proto : {"any"}, fam : Fams(h)]
    IN [h EXCEPT !.rules = (@ \ out) \cup new]

Deleted(h, action, port, proto) ==
    [h EXCEPT !.rules = @ \ [port : {port}, action : {action}, proto : {proto}, fam : Fams(h)]]

Has(rules, port, action, proto, fam) == [port |-> port, action |-> action, proto |-> proto, fam |-> fam] \in rules

\* statusIncludesIpv6Rules: a rule for any port will do.
Six(rules) == \E r \in rules : r.fam = 6

\* tcpRelevantRuleDeletePorts: a rule for any protocol comes first.
ToDelete(rules, port, action) ==
    LET found(proto) == IF \E fam \in {4, 6} : Has(rules, port, action, proto, fam) THEN <<proto>> ELSE <<>>
    IN found("any") \o found("tcp")

\* classifyUfwStatusTcpAccess, hasTcpRelevantAllowRule.
Blocked(rules, port) ==
    \/ ToDelete(rules, port, "deny") # <<>>
    \/ \E fam \in IF Six(rules) THEN {4, 6} ELSE {4} : \A proto \in {"any", "tcp"} : ~Has(rules, port, "allow", proto, fam)

Agnostic(rules, port, action) ==
    Has(rules, port, action, "any", 4) /\ (Six(rules) => Has(rules, port, action, "any", 6))

\* What lets the session through, whichever family it uses.
Open(h) == h.active => ToDelete(Shown(h), "ssh", "deny") = <<>> /\ \E proto \in {"any", "tcp"} : Has(h.rules, "ssh", "allow", proto, 4)

Sets == {[port : {p}, action : {a}, proto : {"any"}, fam : f] \cup [port : {p}, action : {b}, proto : {"tcp"}, fam : f] :
            p \in Ports, a, b \in {"allow", "deny"}, f \in {{}, {4}, {4, 6}}}
        \cup {[port : {p}, action : {a}, proto : {t}, fam : f] : p \in Ports, a \in {"allow", "deny"}, t \in {"any", "tcp"}, f \in {{4}, {4, 6}}}

Rule(port, proto, fams) == [port : {port}, action : {"allow"}, proto : {proto}, fam : fams]

For(p) == {s \in Sets : \A r \in s : r.port = p}

\* The run has reached the host, so an active firewall lets it through.
Init ==
    /\ \E kind \in {"enabled", "disabled", "rule"}, action \in {"allow", "deny"}, ports \in {<<"web">>, <<"web", "ssh">>},
          installed, active, v6, served \in BOOLEAN, ssh \in For("ssh"), web \in For("web") :
          /\ kind # "rule" => action = "allow" /\ ports = <<"web">> /\ web \in {{}, Rule("web", "tcp", {4, 6})}
          /\ kind # "enabled" => ssh \in {{}, Rule("ssh", "tcp", {4}), Rule("ssh", "any", {4, 6})}
          /\ action = "allow" => ~served
          /\ ~installed => ~active /\ ssh \cup web = {}
          /\ \A r \in ssh \cup web : r.fam = 6 => v6 \/ r.port = "ssh"
          /\ host = [kind |-> kind, action |-> action, ports |-> ports, installed |-> installed, active |-> active, v6 |-> v6,
                     served |-> served, rules |-> ssh \cup web, late |-> FALSE, withdrawn |-> FALSE]
          /\ Open(host)
    /\ faults = 0 /\ pc = "check" /\ ctl = Fresh(1)

Is(kind) == host.kind = kind

\* readUfwStatusDetailed, readUfwShowAddedDetailed: nothing is thrown; a
\* probe that fails passes for "missing" or for "unreadable".
Look(found, missing, unreadable) ==
    \/ host' = host /\ (IF host.installed THEN found ELSE missing) /\ UNCHANGED faults
    \/ host' = host /\ (missing \/ unreadable) /\ Fault

\* hasAddedUfwRule
Queued(h, action, port) == \E r \in Shown(h) : r.action = action /\ r.port = port

\* checkActiveUfwRule
RuleInState(h) ==
    \A i \in DOMAIN h.ports :
       Agnostic(Shown(h), h.ports[i], h.action) /\ ToDelete(Shown(h), h.ports[i], Opposite(h.action)) = <<>>

InState(h) ==
    CASE h.kind = "disabled" -> ~h.active
      [] h.kind = "enabled" -> h.active /\ ~Blocked(Shown(h), "ssh") /\ Agnostic(Shown(h), "ssh", "allow")
      [] h.kind = "rule" /\ h.active -> RuleInState(h)
      [] OTHER -> \A i \in DOMAIN h.ports : Queued(h, h.action, h.ports[i])

-----------------------------------------------------------------------------

Start == IF Is("enabled") THEN "lock" ELSE IF Is("disabled") THEN "installed" ELSE "guard"

\* A rule of an inactive firewall is looked up by a second command.
Check ==
    /\ pc = "check"
    /\ LET answer == IF InState(host) THEN Return("checked") ELSE Goto(Start)
       IN IF Is("disabled") THEN Ask(IF host.installed THEN Goto("status") ELSE Return("checked"), Return("checked"))
          ELSE Look(IF Is("rule") /\ ~host.active THEN Goto("queued") ELSE answer, Goto(Start), Goto(Start))

CheckQueued ==
    /\ pc = "queued"
    /\ Look(IF InState(host) THEN Return("checked") ELSE Goto(Start), Goto(Start), Goto(Start))

CheckDisabled ==
    /\ pc = "status"
    /\ Look(IF host.active THEN Goto("installed") ELSE Return("checked"), Return("checked"), Goto("installed"))

\* ufw.disabled: a failing package query passes for "not installed", a
\* failing status does not pass for "inactive".
Installed ==
    /\ pc = "installed"
    /\ \/ Ask(IF host.installed THEN Goto("disable") ELSE Return("ok"), Return("ok"))
       \/ Ask(IF host.installed /\ ~host.active THEN Return("ok") ELSE Goto("disable"), Goto("disable")) /\ host.installed

Disable ==
    /\ pc = "disable"
    /\ IF host.installed THEN Exec([host EXCEPT !.active = FALSE], Return("changed"), Return("failed"))
       ELSE Ask(Return("failed"), Return("failed"))

-----------------------------------------------------------------------------
(* ufw.enabled                                                             *)

Lock ==
    /\ pc = "lock"
    /\ Ask(Goto("first"), Return("failed"))

\* allowCurrentSshPort; without a status it goes on to its rule.
First ==
    /\ pc = "first"
    /\ LET active == ctl' = [ctl EXCEPT !.todo = ToDelete(Shown(host), "ssh", "deny")] /\ pc' = "undeny"
       IN Look(IF host.active THEN active ELSE Goto("first queued"), Goto("allow"), Goto("allow"))

\* rejectInactiveQueuedDenyForCurrentSshPort, before and after the rule.
NoQueuedDeny(at, next) ==
    /\ pc = at
    /\ Look(IF Queued(host, "deny", "ssh") THEN Return("failed") ELSE Goto(next), Return("failed"), Return("failed"))

\* deleteDenyRulesForCurrentSshPort
Undeny ==
    /\ pc = "undeny"
    /\ IF ctl.todo = <<>> THEN Locally(Goto("allow"))
       ELSE Exec(Deleted(host, "deny", "ssh", Head(ctl.todo)), ctl' = [ctl EXCEPT !.todo = Tail(@)] /\ pc' = pc, Return("failed"))

Allow ==
    /\ pc = "allow"
    /\ IF host.installed THEN Exec(Added(host, "allow", "ssh"), Goto("second"), Return("failed"))
       ELSE Ask(Return("failed"), Return("failed"))

\* reverifyCurrentSshAllowedBeforeEnable
Second ==
    /\ pc = "second"
    /\ Look(IF ~host.active THEN Goto("second queued")
            ELSE IF Blocked(Shown(host), "ssh") THEN Return("failed") ELSE Goto("enable"),
            Return("failed"), Return("failed"))

Enable ==
    /\ pc = "enable"
    /\ Exec([host EXCEPT !.active = TRUE], Return("changed"), Return("failed"))

-----------------------------------------------------------------------------
(* ufw.rule                                                                *)

\* rejectWhenDenyingCurrentSshPort
Guard ==
    /\ pc = "guard"
    /\ Locally(IF host.action = "allow" THEN Goto("read")
               ELSE IF \E i \in DOMAIN host.ports : host.ports[i] = "ssh" THEN Return("refused")
               ELSE Goto("probe"))

\* rejectWhenDenyingLiveSshdPort
Probe ==
    /\ pc = "probe"
    /\ Ask(IF host.served THEN Return("refused") ELSE Goto("read"), Return("failed"))

\* readUfwRuleStatusForApply; the rules of an inactive firewall stay unseen.
Read ==
    /\ pc = "read"
    /\ Look(/\ ctl' = [ctl EXCEPT !.rules = IF host.active THEN Shown(host) ELSE {}, !.todo = host.ports]
            /\ pc' = "opposite",
            Return("failed"), Return("failed"))

Port == Head(ctl.todo)

\* deleteOppositeRule, by the status read before the first port.
OppositeRule ==
    /\ pc = "opposite"
    /\ IF ctl.todo = <<>> THEN Locally(Return(IF ctl.changed THEN "changed" ELSE "ok"))
       ELSE LET old == ToDelete(ctl.rules, Port, Opposite(host.action))
                next == [ctl EXCEPT !.changed = TRUE,
                                    !.rules = @ \ {r \in @ : r.port = Port /\ r.proto = Head(old) /\ r.action = Opposite(host.action)}]
            IN IF old = <<>> THEN Locally(Goto("add"))
               ELSE Exec(Deleted(host, Opposite(host.action), Port, Head(old)), ctl' = next /\ pc' = pc, Return("failed"))

\* ufwRuleApplyChanged: "ok" only when ufw skipped every family.
Add ==
    /\ pc = "add"
    /\ LET work == Added(host, host.action, Port)
       IN Exec(work, ctl' = [ctl EXCEPT !.todo = Tail(@), !.changed = @ \/ work # host] /\ pc' = "opposite", Return("failed"))

Section ==
    \/ Check \/ CheckQueued \/ CheckDisabled \/ Installed \/ Disable
    \/ Lock \/ First \/ NoQueuedDeny("first queued", "allow") \/ Undeny \/ Allow
    \/ Second \/ NoQueuedDeny("second queued", "enable") \/ Enable
    \/ Guard \/ Probe \/ Read \/ OppositeRule \/ Add

\* Somebody else, whom the lock does not bind, works on the rules for the
\* port while ufw.enabled is at work on an inactive firewall.
Outsider == Is("enabled") /\ ~Ended /\ host.installed /\ ~host.active /\ Fault /\ UNCHANGED <<ctl, pc>>

\* A deny rule is queued; after the last look nothing can be done about it.
Deny ==
    /\ Outsider
    /\ host' = [Added(host, "deny", "ssh") EXCEPT !.late = @ \/ pc = "enable"]

\* The allow rule is deleted.  Once ufw.enabled has added its own, no look
\* finds out: an inactive firewall is searched for deny rules only.
Withdraw ==
    /\ Outsider /\ Queued(host, "allow", "ssh")
    /\ \E proto \in {"any", "tcp"} :
          host' = [Deleted(host, "allow", "ssh", proto) EXCEPT !.withdrawn = @ \/ pc \in {"second", "second queued", "enable"}]

\* The playbook is run again, if the firewall lets it in; what came too late
\* for one run is there for the next.
Rerun ==
    /\ Ended /\ ctl.run < MaxRuns /\ Open(host)
    /\ host' = [host EXCEPT !.late = FALSE, !.withdrawn = FALSE]
    /\ ctl' = Fresh(ctl.run + 1) /\ pc' = "check"
    /\ UNCHANGED faults

Next == Section \/ Deny \/ Withdraw \/ Rerun
Spec == Init /\ [][Next]_vars

-----------------------------------------------------------------------------

\* Somebody undid in this run what ufw.enabled relies on, where it no longer
\* looks.
Undone == host.late \/ host.withdrawn

\* The firewall shuts out the port of the connection only when, before
\* `ufw enable`, somebody else denied it after the last look or withdrew the
\* allow rule after it was added (reverifyCurrentSshAllowedBeforeEnable).
AccessIsKept == Open(host) \/ Undone

\* A package query that failed is the one way to call a firewall disabled
\* that is not.
ReportsAreTrue ==
    /\ ctl.result = "changed" => InState(host) \/ Undone
    /\ ctl.result \in {"checked", "ok"} /\ (host.kind # "disabled" \/ Clean) => InState(host)

\* A run without faults ends as asked, or refuses what would lock the runner
\* out (ufw.ts).
CleanRunConverges ==
    Ended /\ Clean =>
       \/ InState(host)
       \/ ~host.installed /\ ~Is("disabled") /\ ctl.result = "failed"
       \/ Is("enabled") /\ ~host.active /\ Queued(host, "deny", "ssh") /\ ctl.result = "failed"
       \/ ctl.result = "refused"
=============================================================================
