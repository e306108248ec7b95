----------------------------- MODULE AccessProofs -----------------------------
(***************************************************************************)
(* AccessIsKept of the host modules, for any number of faults and runs:    *)
(* what sshd.port, ufw, the certificate files and authorized_keys do to    *)
(* the way into the host, and the windows in which somebody else's change  *)
(* is not noticed.  Each unit has an invariant of its own, and a last      *)
(* section puts them together; MCHost explores the same units.             *)
(***************************************************************************)
EXTENDS Access, TLAPS, SequenceTheorems

-----------------------------------------------------------------------------
(* ssh.authorizedKeys                                                      *)

(* What AccessIsKept rests on: a file that ends in a newline goes on doing *)
(* so, and what replaces it is made of what is there, but for a line that  *)
(* came too late.                                                          *)
KeysInv ==
  /\ DOMAIN host = {"kind", "user", "named", "dir", "file", "whole", "lines", "tmp", "bak", "edited", "late", "blind"}
  /\ DOMAIN ctl = {"run", "from", "result", "was", "mine", "group", "staged", "out"}
  /\ host.kind \in {"present", "absent"} /\ host.lines \in AuthKeys!Lines
  /\ host.whole => host.lines.eol
  /\ pc = "replace" => \E theirs \in BOOLEAN :
        /\ ctl.staged = AuthKeys!Staged([host.lines EXCEPT !.theirs = theirs])
        /\ theirs = host.lines.theirs \/ host.late
  /\ AuthKeys!AccessIsKept

(* Init of ssh.authorizedKeys: whatever file the user has is one that      *)
(* ends in a newline or is read as a whole.                                *)
LEMMA KeysInit == AuthKeys!Init => KeysInv
<1> SUFFICES ASSUME AuthKeys!Init PROVE KeysInv
  OBVIOUS
<1>1. PICK kind \in {"present", "absent"}, named \in {"primary", "other", "none"}, user, key, eol \in BOOLEAN,
           dir, file \in AuthKeys!Owned, other \in {"none", "here"} :
          /\ file # "none" => dir # "none" /\ user
          /\ dir # "none" => user
          /\ file = "none" => ~key /\ other = "none"
          /\ other = "none" => eol
          /\ ~user => named = "none"
          /\ dir = "other" \/ file = "other" => named = "other"
          /\ host = [kind |-> kind, user |-> user, named |-> named, dir |-> dir, file |-> file, whole |-> eol,
                     lines |-> [AuthKeys!Empty EXCEPT !.key = key, !.other = other, !.eol = eol],
                     tmp |-> 0, bak |-> FALSE, edited |-> FALSE, late |-> FALSE, blind |-> FALSE]
  BY DEF AuthKeys!Init
<1>2. host.lines = [key |-> key, other |-> other, eol |-> eol, theirs |-> FALSE]
  BY <1>1 DEF AuthKeys!Empty
<1>3. DOMAIN ctl = {"run", "from", "result", "was", "mine", "group", "staged", "out"}
  BY DEF AuthKeys!Init, AuthKeys!Fresh
<1>4. pc = "check"
  BY DEF AuthKeys!Init
<1>5. QED
  BY <1>1, <1>2, <1>3, <1>4 DEF KeysInv, AuthKeys!Lines, AuthKeys!AccessIsKept

(* A step that leaves the file itself alone, and is not the one that       *)
(* prepares its replacement, keeps the invariant.                          *)
LEMMA KeysIdle ==
  ASSUME KeysInv, DOMAIN host' = DOMAIN host, DOMAIN ctl' = DOMAIN ctl, host'.kind = host.kind, host'.lines = host.lines, host'.file = host.file,
         host'.whole = host.whole, host'.edited = host.edited, host'.late = host.late, pc' # "replace"
  PROVE  KeysInv'
BY DEF KeysInv, AuthKeys!AccessIsKept

(* Every step of addAuthorizedKey and removeAuthorizedKey, other people's  *)
(* edits and later runs keep the invariant.                                *)
LEMMA KeysStep == ASSUME KeysInv, AuthKeys!Next PROVE KeysInv'
<1> USE DEF AuthKeys!Exec, AuthKeys!Ask, AuthKeys!Must, AuthKeys!Attempt, AuthKeys!Return, AuthKeys!Goto, AuthKeys!Blind
<1>1. CASE AuthKeys!Check
  BY <1>1, KeysIdle DEF KeysInv, AuthKeys!Check
<1>2. CASE AuthKeys!Home
  BY <1>2, KeysIdle DEF KeysInv, AuthKeys!Home, AuthKeys!NoUser
<1>3. CASE AuthKeys!Needs
  BY <1>3, KeysIdle DEF KeysInv, AuthKeys!Needs
<1>4. CASE AuthKeys!Group
  BY <1>4, KeysIdle DEF KeysInv, AuthKeys!Group
<1>5. CASE AuthKeys!Guard
  BY <1>5, KeysIdle DEF KeysInv, AuthKeys!Guard
<1>6. CASE AuthKeys!Converged
  BY <1>6, KeysIdle DEF KeysInv, AuthKeys!Converged
<1>7. CASE AuthKeys!MkTemp
  BY <1>7, KeysIdle DEF KeysInv, AuthKeys!MkTemp
<1>8. CASE AuthKeys!Stage
  <2>1. CASE /\ host' = host /\ pc' = "replace"
             /\ ctl' = [ctl EXCEPT !.staged = AuthKeys!Staged(host.lines)]
    <3>1. host.lines.theirs \in BOOLEAN /\ [host.lines EXCEPT !.theirs = host.lines.theirs] = host.lines
      BY DEF KeysInv, AuthKeys!Lines
    <3>2. ctl'.staged = AuthKeys!Staged(host.lines)' /\ DOMAIN ctl' = DOMAIN ctl
      BY <2>1 DEF KeysInv, AuthKeys!Staged
    <3>3. QED
      BY <2>1, <3>1, <3>2 DEF KeysInv, AuthKeys!AccessIsKept
  <2>2. CASE host' = host /\ pc' # "replace" /\ DOMAIN ctl' = DOMAIN ctl
    BY <2>2, KeysIdle
  <2>3. QED
    BY <1>8, <2>1, <2>2 DEF AuthKeys!Stage, AuthKeys!Leave
<1>9. CASE AuthKeys!Replace
  <2>1. pc = "replace"
    BY <1>9 DEF AuthKeys!Replace
  <2>2. PICK theirs \in BOOLEAN :
           /\ ctl.staged = AuthKeys!Staged([host.lines EXCEPT !.theirs = theirs])
           /\ theirs = host.lines.theirs \/ host.late
    BY <2>1 DEF KeysInv
  <2>3. AuthKeys!Chowned(ctl.group) # "none"
    BY DEF AuthKeys!Chowned
  <2>4. /\ DOMAIN ctl' = DOMAIN ctl /\ pc' # "replace"
        /\ DOMAIN host' = DOMAIN host
        /\ \/ host'.lines = host.lines /\ host'.file = host.file
           \/ host'.lines = ctl.staged /\ host'.file # "none"
        /\ host'.kind = host.kind /\ host'.whole = host.whole /\ host'.edited = host.edited /\ host'.late = host.late
    <3> DEFINE done == [host EXCEPT !.file = AuthKeys!Chowned(ctl.group), !.lines = ctl.staged, !.tmp = @ - 1, !.bak = FALSE]
    <3>1. PICK r \in AuthKeys!Results \cup {ctl.out},
               h \in {host, [host EXCEPT !.bak = TRUE], done, [done EXCEPT !.bak = TRUE]} :
            host' = h /\ ctl' = [ctl EXCEPT !.out = r, !.mine = h.tmp = host.tmp] /\ pc' = "rm"
      BY <1>9 DEF AuthKeys!Replace, AuthKeys!Results
    <3>2. DOMAIN ctl' = DOMAIN ctl /\ pc' # "replace"
      BY <3>1
    <3>3. QED
      BY <2>3, <3>1, <3>2 DEF KeysInv
  <2>5. CASE host'.lines = ctl.staged /\ host'.file # "none"
    <3> DEFINE l == [host.lines EXCEPT !.theirs = theirs]
    <3>1. l \in AuthKeys!Lines /\ l.theirs = theirs /\ l.eol = host.lines.eol /\ l.other = host.lines.other
      BY DEF KeysInv, AuthKeys!Lines
    <3>2. ctl.staged = AuthKeys!Staged(l)
      BY <2>2
    <3> HIDE DEF l
    <3>3. /\ ctl.staged \in AuthKeys!Lines /\ ctl.staged.theirs = l.theirs
          /\ l.eol => ctl.staged.eol /\ ctl.staged.other = l.other
      <4>1. CASE host.kind = "absent"
        BY <3>1, <3>2, <4>1 DEF AuthKeys!Lines, AuthKeys!Staged
      <4>2. CASE host.kind = "present" /\ l.key
        BY <3>1, <3>2, <4>2 DEF AuthKeys!Lines, AuthKeys!Staged
      <4>3. CASE host.kind = "present" /\ ~l.key /\ l.eol
        BY <3>1, <3>2, <4>3 DEF AuthKeys!Lines, AuthKeys!Staged
      <4>4. CASE host.kind = "present" /\ ~l.key /\ ~l.eol
        BY <3>1, <3>2, <4>4 DEF AuthKeys!Lines, AuthKeys!Staged
      <4>5. QED
        BY <4>1, <4>2, <4>3, <4>4 DEF KeysInv
    <3>4. QED
      BY <2>2, <2>4, <2>5, <3>1, <3>3 DEF KeysInv, AuthKeys!AccessIsKept
  <2>6. QED
    BY <2>4, <2>5, KeysIdle
<1>10. CASE AuthKeys!Rm
  BY <1>10, KeysIdle DEF KeysInv, AuthKeys!Rm
<1>11. CASE AuthKeys!Edit
  <2>1. /\ UNCHANGED <<ctl, pc>> /\ host.file # "none"
        /\ host' = [host EXCEPT !.lines = [host.lines EXCEPT !.theirs = TRUE], !.edited = TRUE, !.late = (pc = "replace")]
    BY <1>11 DEF AuthKeys!Edit
  <2>2. host.lines \in AuthKeys!Lines
    BY DEF KeysInv
  <2>3. /\ DOMAIN host' = DOMAIN host /\ host'.kind = host.kind /\ host'.file = host.file /\ host'.whole = host.whole
        /\ host'.lines = [host.lines EXCEPT !.theirs = TRUE] /\ host'.late = (pc = "replace")
    BY <2>1 DEF KeysInv
  <2>4. /\ host'.lines \in AuthKeys!Lines /\ host'.lines.theirs
        /\ host'.lines.eol = host.lines.eol /\ host'.lines.other = host.lines.other
    BY <2>2, <2>3 DEF AuthKeys!Lines
  <2>5. CASE pc = "replace"
    <3>1. PICK theirs \in BOOLEAN : ctl.staged = AuthKeys!Staged([host.lines EXCEPT !.theirs = theirs])
      BY <2>5 DEF KeysInv
    <3>2. [host'.lines EXCEPT !.theirs = theirs] = [host.lines EXCEPT !.theirs = theirs]
      BY <2>2, <2>3 DEF AuthKeys!Lines
    <3>3. ctl'.staged = AuthKeys!Staged([host.lines EXCEPT !.theirs = theirs])'
      BY <2>1, <2>3, <3>1, <3>2 DEF AuthKeys!Staged
    <3>4. QED
      BY <2>1, <2>3, <2>4, <2>5, <3>3 DEF KeysInv, AuthKeys!AccessIsKept
  <2>6. QED
    BY <2>1, <2>3, <2>4, <2>5 DEF KeysInv, AuthKeys!AccessIsKept
<1>12. CASE AuthKeys!Again(AuthKeys!Fresh(ctl.run + 1))
  BY <1>12, KeysIdle DEF KeysInv, AuthKeys!Again, AuthKeys!Fresh
<1>13. QED
  BY <1>1, <1>2, <1>3, <1>4, <1>5, <1>6, <1>7, <1>8, <1>9, <1>10, <1>11, <1>12 DEF AuthKeys!Next, AuthKeys!Section

-----------------------------------------------------------------------------
(* sshd.port                                                               *)

(* What AccessIsKept rests on: until the rollback the session's port is    *)
(* among the ones that are dialled, the reconnect has paid a fault, and    *)
(* the fallback a second one unless nobody answers.                        *)
PortInv ==
  /\ {"port", "ports", "from", "result"} \subseteq DOMAIN ctl
  /\ faults \in Nat /\ ctl.from \in Nat /\ ctl.from <= faults
  /\ pc \notin {"rollback", "fallback", "done"} => ctl.port \in ctl.ports
  /\ pc = "reconnect" => faults >= ctl.from + 1
  /\ pc = "fallback" => faults >= ctl.from + 2 \/ (faults >= ctl.from + 1 /\ ~Port!Reachable(host, ctl.port))
  /\ ctl.result = "lost" => pc = "done"
  /\ Port!AccessIsKept

(* A run of sshd.port begins with the session's own port among the ones    *)
(* that may be dialled.                                                    *)
LEMMA PortInit == Port!Init => PortInv
<1> SUFFICES ASSUME Port!Init PROVE PortInv
  OBVIOUS
<1>2. PICK configured : ctl = Port!Fresh(1, "old", configured)
  BY DEF Port!Init
<1>3. /\ {"port", "ports", "from", "result"} \subseteq DOMAIN ctl
      /\ ctl.port \in ctl.ports /\ ctl.from = faults /\ ctl.result # "lost"
  BY <1>2 DEF Port!Fresh
<1>4. pc = "check" /\ faults = 0
  BY DEF Port!Init
<1>5. QED
  BY <1>3, <1>4 DEF PortInv, Port!AccessIsKept

(* A step that neither loses a session nor gives up a port.                *)
LEMMA PortCalm ==
  ASSUME PortInv, DOMAIN ctl' = DOMAIN ctl, ctl'.port = ctl.port, ctl'.from = ctl.from,
         faults' = faults \/ faults' = faults + 1, pc' \notin {"reconnect", "fallback"}, ctl'.result # "lost",
         pc' \in {"rollback", "done"} \/ (pc \notin {"rollback", "fallback", "done"} /\ ctl.ports \subseteq ctl'.ports)
  PROVE  PortInv'
BY DEF PortInv, Port!AccessIsKept

(* A command that costs the session (Drop, a lost connection) has paid a   *)
(* fault for the reconnect that follows.                                   *)
LEMMA PortDrop ==
  ASSUME PortInv, NEW h, Port!Drop(h), pc \notin {"fallback", "done"}
  PROVE  PortInv'
<1>1. /\ DOMAIN ctl' = DOMAIN ctl /\ ctl'.port = ctl.port /\ ctl'.from = ctl.from
      /\ ctl'.ports = ctl.ports /\ ctl'.result # "lost" /\ faults' = faults + 1
      /\ pc' = Port!LostAt(pc)
  BY DEF PortInv, Port!Drop, Port!Fault
<1>2. CASE pc \in {"disable", "unit", "boot", "restart"}
  BY <1>1, <1>2 DEF PortInv, Port!LostAt, Port!AccessIsKept
<1>3. CASE pc \notin {"disable", "unit", "boot", "restart"}
  BY <1>1, <1>3, PortCalm DEF Port!LostAt
<1>4. QED
  BY <1>2, <1>3

(* A command of sshd.port that works, fails or costs the session keeps     *)
(* the invariant if its two continuations are neither the reconnect nor    *)
(* the fallback.                                                           *)
LEMMA PortCommand ==
  ASSUME PortInv, NEW done, NEW known, NEW next, NEW onFailure, Port!Command(done, known, next, onFailure),
         DOMAIN known = DOMAIN ctl, known.port = ctl.port, known.from = ctl.from, known.ports = ctl.ports,
         known.result = ctl.result, pc \notin {"reconnect", "fallback", "rollback", "done"}, next \notin {"reconnect", "fallback"}, onFailure \in {"undo", "done"}
  PROVE  PortInv'
<1>1. ctl.result # "lost"
  BY DEF PortInv
<1>2. CASE /\ host' = done /\ ctl' = known /\ pc' = next /\ UNCHANGED faults
  BY <1>1, <1>2, PortCalm
<1>3. CASE /\ Port!Fault /\ UNCHANGED host
           /\ IF onFailure = "done" THEN Port!Result("raised") ELSE pc' = onFailure /\ UNCHANGED ctl
  BY <1>1, <1>3, PortCalm DEF PortInv, Port!Fault, Port!Result
<1>4. CASE Port!Drop(done)
  BY <1>4, PortDrop
<1>5. QED
  BY <1>2, <1>3, <1>4 DEF Port!Command

(* Every step of sshd.port (write, restart, reconnect, fallback, rollback  *)
(* and a later run) keeps the invariant.                                   *)
LEMMA PortStep == ASSUME PortInv, Port!Next PROVE PortInv'
<1> USE DEF Port!Fault, Port!Result
<1>0. pc # "done" => ctl.result # "lost"
  BY DEF PortInv
<1>1. CASE Port!Check
  BY <1>0, <1>1, PortCalm DEF PortInv, Port!Check
<1>2. CASE Port!Guard
  BY <1>0, <1>2, PortCalm DEF PortInv, Port!Guard
<1>3. CASE Port!Read
  <2> DEFINE known == [ctl EXCEPT !.saved = host.file, !.before = Port!AfterReboot(host)]
             next == IF host.file = "new" THEN "same" ELSE "write"
  <2>1. Port!Command(host, known, next, "done") /\ pc = "read"
    BY <1>3 DEF Port!Read
  <2>2. /\ DOMAIN known = DOMAIN ctl /\ known.port = ctl.port /\ known.from = ctl.from
        /\ known.ports = ctl.ports /\ known.result = ctl.result /\ next \notin {"reconnect", "fallback"}
    BY DEF PortInv
  <2> HIDE DEF known, next
  <2>3. QED
    BY <2>1, <2>2, PortCommand
<1>4. CASE Port!ConfigUnchanged
  BY <1>0, <1>4, PortCalm DEF PortInv, Port!ConfigUnchanged, Port!Probe
<1>5. CASE Port!Write
  <2>1. CASE Port!Drop([host EXCEPT !.file = "new"])
    BY <1>5, <2>1, PortDrop DEF PortInv, Port!Write
  <2>2. CASE ~Port!Drop([host EXCEPT !.file = "new"])
    BY <1>0, <1>5, <2>2, PortCalm DEF PortInv, Port!Write
  <2>3. QED
    BY <2>1, <2>2
<1>6. CASE Port!Recheck
  BY <1>0, <1>6, PortCalm DEF PortInv, Port!Recheck
<1>7. CASE Port!CaptureSocket
  BY <1>0, <1>7, PortCalm DEF PortInv, Port!CaptureSocket
<1>8. CASE Port!DisableSocket
  <2>1. CASE ctl.snap.sock
    <3>1. pc = "disable" /\ Port!Command([host EXCEPT !.sockBoot = FALSE, !.sockActive = FALSE], ctl, "unit", "undo")
      BY <1>8, <2>1 DEF Port!DisableSocket
    <3>2. QED
      BY <3>1, PortCommand DEF PortInv
  <2>2. CASE ~ctl.snap.sock
    BY <1>0, <1>8, <2>2, PortCalm DEF PortInv, Port!DisableSocket
  <2>3. QED
    BY <2>1, <2>2
<1>9. CASE Port!ResolveUnit
  BY <1>9, PortCommand DEF PortInv, Port!ResolveUnit
<1>10. CASE Port!EnableServiceBoot
  <2> DEFINE known == [ctl EXCEPT !.booted = TRUE, !.svcWasOff = ~host.svcBoot]
  <2>1. pc = "boot" /\ Port!Command([host EXCEPT !.svcBoot = @ \/ ctl.snap.boot], known, "restart", "undo")
    BY <1>10 DEF Port!EnableServiceBoot
  <2>2. /\ DOMAIN known = DOMAIN ctl /\ known.port = ctl.port /\ known.from = ctl.from
        /\ known.ports = ctl.ports /\ known.result = ctl.result
    BY DEF PortInv
  <2> HIDE DEF known
  <2>3. QED
    BY <2>1, <2>2, PortCommand
<1>11. CASE Port!RestartService
  BY <1>11, PortCommand DEF PortInv, Port!RestartService, Port!Restarted
<1>12. CASE Port!Reconnect
  <2>1. UNCHANGED host /\ pc = "reconnect" /\ ctl.port \in ctl.ports /\ faults >= ctl.from + 1
    BY <1>12 DEF PortInv, Port!Reconnect
  <2>2. CASE ctl' = [ctl EXCEPT !.session = TRUE] /\ pc' = "verify" /\ UNCHANGED faults
    BY <1>0, <2>1, <2>2, PortCalm DEF PortInv
  <2>3. CASE pc' = "fallback" /\ UNCHANGED ctl /\ UNCHANGED faults /\ ~Port!Reachable(host, ctl.port)
    BY <1>0, <2>1, <2>3 DEF PortInv, Port!AccessIsKept
  <2>4. CASE pc' = "fallback" /\ UNCHANGED ctl /\ faults' = faults + 1
    BY <1>0, <2>1, <2>4 DEF PortInv, Port!AccessIsKept
  <2>5. QED
    BY <1>12, <2>1, <2>2, <2>3, <2>4 DEF Port!Reconnect, Port!Reconnects
<1>13. CASE Port!Fallback
  <2>1. UNCHANGED host /\ pc = "fallback"
    BY <1>13 DEF Port!Fallback
  <2>2. CASE /\ pc' = "rollback" /\ UNCHANGED faults
             /\ ctl' = [ctl EXCEPT !.session = TRUE, !.ports = Port!WithoutTarget \union {ctl.port}, !.why = "verify"]
    BY <1>0, <2>1, <2>2, PortCalm DEF PortInv
  <2>3. CASE /\ ctl' = [ctl EXCEPT !.ports = Port!WithoutTarget \union {ctl.port}, !.result = "lost"] /\ pc' = "done"
             /\ UNCHANGED faults /\ ~Port!Reachable(host, ctl.port)
    BY <2>1, <2>3 DEF PortInv, Port!AccessIsKept
  <2>4. CASE /\ ctl' = [ctl EXCEPT !.ports = Port!WithoutTarget \union {ctl.port}, !.result = "lost"] /\ pc' = "done"
             /\ faults' = faults + 1
    BY <2>1, <2>4 DEF PortInv, Port!AccessIsKept
  <2>5. QED
    BY <1>13, <2>1, <2>2, <2>3, <2>4 DEF Port!Fallback, Port!Reconnects
<1>14. CASE Port!Verify
  BY <1>0, <1>14, PortCalm DEF PortInv, Port!Verify, Port!Probe
<1>15. CASE Port!RestartFailed
  BY <1>0, <1>15, PortCalm DEF PortInv, Port!RestartFailed
<1>16. CASE Port!RollbackLayer
  <2>1. pc = "rollback"
    BY <1>16 DEF Port!RollbackLayer
  <2>2. CASE Port!Drop(Port!Layer(ctl.layer))
    BY <2>1, <2>2, PortDrop
  <2>3. CASE ~Port!Drop(Port!Layer(ctl.layer))
    BY <1>0, <1>16, <2>1, <2>3, PortCalm DEF PortInv, Port!RollbackLayer
  <2>4. QED
    BY <2>2, <2>3
<1>17. CASE Port!RollbackDone
  BY <1>0, <1>17, PortCalm DEF PortInv, Port!RollbackDone
<1>18. CASE Port!FirewallEdited
  <2>1. /\ pc # "done" /\ faults' = faults + 1 /\ UNCHANGED <<ctl, pc>>
    BY <1>18 DEF PortInv, Port!FirewallEdited
  <2>2. QED
    BY <1>0, <2>1 DEF PortInv, Port!AccessIsKept
<1>19. CASE Port!RunAgain
  <2>1. PICK p : ctl' = Port!Fresh(ctl.run + 1, p, ctl.configured)
    BY <1>19 DEF Port!RunAgain
  <2>2. pc' = "check" /\ UNCHANGED <<host, faults>>
    BY <1>19 DEF Port!RunAgain
  <2>3. {"port", "ports", "from", "result"} \subseteq DOMAIN ctl' /\ ctl'.port \in ctl'.ports /\ ctl'.from = faults /\ ctl'.result # "lost"
    BY <2>1 DEF PortInv, Port!Fresh
  <2>4. QED
    BY <2>2, <2>3 DEF PortInv, Port!AccessIsKept
<1>20. QED
  BY <1>1, <1>2, <1>3, <1>4, <1>5, <1>6, <1>7, <1>8, <1>9, <1>10, <1>11, <1>12, <1>13, <1>14, <1>15, <1>16, <1>17, <1>18, <1>19
     DEF Port!Next, Port!Section

-----------------------------------------------------------------------------
(* ufw                                                                     *)

(* The ports ufw.rule may work on: not the session's, if it denies.        *)
Harmless == IF host.action = "deny" THEN Firewall!Ports \ {"ssh"} ELSE Firewall!Ports

(* No deny rule of the session's port is in force, and one allows it.      *)
Admits(h) == Firewall!ToDelete(Firewall!Shown(h), "ssh", "deny") = <<>> /\ Firewall!Has(h.rules, "ssh", "allow", "any", 4)

(* What AccessIsKept rests on: ufw.rule works on ports it may, and         *)
(* ufw.enabled gets to `ufw enable` only with the session's port allowed   *)
(* and no deny rule queued for it, as far as nobody undoes it.             *)
FirewallInv ==
  /\ {"action", "ports", "active", "v6", "rules", "late", "withdrawn"} \subseteq DOMAIN host /\ {"todo", "rules", "changed", "result"} \subseteq DOMAIN ctl
  /\ host.action \in {"allow", "deny"} /\ host.ports \in Seq(Firewall!Ports)
  /\ pc \in {"probe", "read"} => host.ports \in Seq(Harmless)
  /\ pc \in {"opposite", "add"} => ctl.todo \in Seq(Harmless)
  /\ pc = "add" => ctl.todo # <<>>
  /\ pc \in {"second", "second queued"} =>
        Firewall!Undone \/ host.active \/ Firewall!Queued(host, "deny", "ssh") \/ Firewall!Has(host.rules, "ssh", "allow", "any", 4)
  /\ pc = "enable" => Firewall!Undone \/ host.active \/ Admits(host)
  /\ Firewall!AccessIsKept

(* ufw.enabled, ufw.disabled and ufw.rule begin on a host that lets the    *)
(* session in.                                                             *)
LEMMA FirewallInit == Firewall!Init => FirewallInv
<1> SUFFICES ASSUME Firewall!Init PROVE FirewallInv
  OBVIOUS
<1>1. PICK kind \in {"enabled", "disabled", "rule"}, action \in {"allow", "deny"}, ports \in {<<"web">>, <<"web", "ssh">>},
          installed, active, v6, served \in BOOLEAN, ssh \in Firewall!For("ssh"), web \in Firewall!For("web") :
          /\ kind # "rule" => action = "allow" /\ ports = <<"web">> /\ web \in {{}, Firewall!Rule("web", "tcp", {4, 6})}
          /\ kind # "enabled" => ssh \in {{}, Firewall!Rule("ssh", "tcp", {4}), Firewall!Rule("ssh", "any", {4, 6})}
          /\ action = "allow" => ~served
          /\ ~installed => ~active /\ ssh \cup web = {}
          /\ \A r \in ssh \cup web : r.fam = 6 => v6 \/ r.port = "ssh"
          /\ host = [kind |-> kind, action |-> action, ports |-> ports, installed |-> installed, active |-> active, v6 |-> v6,
                     served |-> served, rules |-> ssh \cup web, late |-> FALSE, withdrawn |-> FALSE]
          /\ Firewall!Open(host)
  BY DEF Firewall!Init
<1>2. {"action", "ports", "active", "v6", "rules", "late", "withdrawn"} \subseteq DOMAIN host /\ host.action = action /\ host.ports = ports
  BY <1>1
<1>3. ports \in Seq(Firewall!Ports)
  <2>1. <<"web">> \in Seq({"ssh", "web"}) /\ <<"web", "ssh">> \in Seq({"ssh", "web"})
    OBVIOUS
  <2>2. QED
    BY <1>1, <2>1 DEF Firewall!Ports
<1>4. pc = "check" /\ {"todo", "rules", "changed", "result"} \subseteq DOMAIN ctl
  BY DEF Firewall!Init, Firewall!Fresh
<1>5. QED
  BY <1>1, <1>2, <1>3, <1>4 DEF FirewallInv, Firewall!AccessIsKept, Firewall!Undone

(* What the deletions of a rule are empty of.                              *)
LEMMA NoneToDelete ==
  ASSUME NEW rules, NEW port, NEW action
  PROVE  Firewall!ToDelete(rules, port, action) = <<>>
         <=> \A proto \in {"any", "tcp"}, fam \in {4, 6} : ~Firewall!Has(rules, port, action, proto, fam)
<1> DEFINE found(proto) == IF \E fam \in {4, 6} : Firewall!Has(rules, port, action, proto, fam) THEN <<proto>> ELSE <<>>
<1>1. Firewall!ToDelete(rules, port, action) = found("any") \o found("tcp")
  BY DEF Firewall!ToDelete
<1>2. /\ found("any") \in {<<>>, <<"any">>} /\ found("tcp") \in {<<>>, <<"tcp">>}
      /\ found("any") = <<>> <=> \A fam \in {4, 6} : ~Firewall!Has(rules, port, action, "any", fam)
      /\ found("tcp") = <<>> <=> \A fam \in {4, 6} : ~Firewall!Has(rules, port, action, "tcp", fam)
  OBVIOUS
<1> HIDE DEF found
<1>3. found("any") \o found("tcp") = <<>> <=> found("any") = <<>> /\ found("tcp") = <<>>
  BY <1>2
<1>4. QED
  BY <1>1, <1>2, <1>3

(* Fewer deny rules and no fewer allow rules of the session's port leave   *)
(* the way in open.                                                        *)
LEMMA StaysOpen ==
  ASSUME NEW h, NEW g, g.active = h.active, g.v6 = h.v6, Firewall!Open(h),
         \A proto \in {"any", "tcp"}, fam \in {4, 6} :
            /\ Firewall!Has(g.rules, "ssh", "deny", proto, fam) => Firewall!Has(h.rules, "ssh", "deny", proto, fam)
            /\ Firewall!Has(h.rules, "ssh", "allow", proto, fam) => Firewall!Has(g.rules, "ssh", "allow", proto, fam)
  PROVE  Firewall!Open(g)
<1>1. Firewall!Fams(g) = Firewall!Fams(h)
  BY DEF Firewall!Fams
<1>2. \A proto \in {"any", "tcp"}, fam \in {4, 6} :
         Firewall!Has(Firewall!Shown(g), "ssh", "deny", proto, fam) => Firewall!Has(Firewall!Shown(h), "ssh", "deny", proto, fam)
  BY <1>1 DEF Firewall!Shown, Firewall!Has
<1>3. Firewall!ToDelete(Firewall!Shown(h), "ssh", "deny") = <<>> => Firewall!ToDelete(Firewall!Shown(g), "ssh", "deny") = <<>>
  BY <1>2, NoneToDelete
<1>4. QED
  BY <1>3 DEF Firewall!Open

(* Another rule of a port that may be worked on leaves it open.            *)
LEMMA AddedStaysOpen ==
  ASSUME FirewallInv, NEW action \in {"allow", "deny"}, NEW port, Firewall!Open(host), action = "deny" => port # "ssh"
  PROVE  Firewall!Open(Firewall!Added(host, action, port))
<1> DEFINE g == Firewall!Added(host, action, port)
<1>1. /\ g.active = host.active /\ g.v6 = host.v6
      /\ g.rules = (host.rules \ [port : {port}, action : {Firewall!Opposite(action)}, proto : {"any"}, fam : Firewall!Fams(host)])
                   \cup [port : {port}, action : {action}, proto : {"any"}, fam : Firewall!Fams(host)]
  BY DEF FirewallInv, Firewall!Added
<1>2. Firewall!Opposite(action) = IF action = "allow" THEN "deny" ELSE "allow"
  BY DEF Firewall!Opposite
<1> HIDE DEF g
<1>3. ASSUME NEW proto \in {"any", "tcp"}, NEW fam \in {4, 6}
      PROVE  /\ Firewall!Has(g.rules, "ssh", "deny", proto, fam) => Firewall!Has(host.rules, "ssh", "deny", proto, fam)
             /\ Firewall!Has(host.rules, "ssh", "allow", proto, fam) => Firewall!Has(g.rules, "ssh", "allow", proto, fam)
  BY <1>1, <1>2 DEF Firewall!Has
<1>4. QED
  BY <1>1, <1>3, StaysOpen DEF g

(* A deny rule of any port, or an allow rule of another port than the      *)
(* session's, may be deleted and the session still gets in.                *)
LEMMA DeletedStaysOpen ==
  ASSUME FirewallInv, NEW action \in {"allow", "deny"}, NEW port, NEW proto, Firewall!Open(host), action = "allow" => port # "ssh"
  PROVE  Firewall!Open(Firewall!Deleted(host, action, port, proto))
<1> DEFINE g == Firewall!Deleted(host, action, port, proto)
<1>1. /\ g.active = host.active /\ g.v6 = host.v6
      /\ g.rules = host.rules \ [port : {port}, action : {action}, proto : {proto}, fam : Firewall!Fams(host)]
  BY DEF FirewallInv, Firewall!Deleted
<1> HIDE DEF g
<1>2. ASSUME NEW p \in {"any", "tcp"}, NEW fam \in {4, 6}
      PROVE  /\ Firewall!Has(g.rules, "ssh", "deny", p, fam) => Firewall!Has(host.rules, "ssh", "deny", p, fam)
             /\ Firewall!Has(host.rules, "ssh", "allow", p, fam) => Firewall!Has(g.rules, "ssh", "allow", p, fam)
  BY <1>1 DEF Firewall!Has
<1>3. QED
  BY <1>1, <1>2, StaysOpen DEF g

(* A step that only looks, and does not go on to one that relies on it.    *)
LEMMA FirewallLooks ==
  ASSUME FirewallInv, host' = host, DOMAIN ctl' = DOMAIN ctl,
         pc' \notin {"probe", "read", "opposite", "add", "second", "second queued", "enable"}
  PROVE  FirewallInv'
BY DEF FirewallInv, Firewall!AccessIsKept, Firewall!Undone, Harmless

(* So does one that changes the rules for the better.                      *)
LEMMA FirewallWorks ==
  ASSUME FirewallInv, DOMAIN ctl' = DOMAIN ctl, DOMAIN host' = DOMAIN host,
         host'.action = host.action, host'.ports = host.ports, host'.late = host.late, host'.withdrawn = host.withdrawn,
         Firewall!Open(host) => Firewall!Open(host'),
         pc' \notin {"probe", "read", "opposite", "add", "second", "second queued", "enable"}
  PROVE  FirewallInv'
BY DEF FirewallInv, Firewall!AccessIsKept, Firewall!Undone, Harmless

(* Every step of ufw.enabled, ufw.disabled and ufw.rule, somebody's deny   *)
(* rule and later runs keep the invariant.                                 *)
LEMMA FirewallStep == ASSUME FirewallInv, Firewall!Next PROVE FirewallInv'
<1> USE DEF Firewall!Exec, Firewall!Ask, Firewall!Look, Firewall!Return, Firewall!Goto, Firewall!Locally
<1>1. CASE Firewall!Check
  BY <1>1, FirewallLooks DEF FirewallInv, Firewall!Check, Firewall!Start
<1>2. CASE Firewall!CheckQueued
  BY <1>2, FirewallLooks DEF FirewallInv, Firewall!CheckQueued, Firewall!Start
<1>3. CASE Firewall!CheckDisabled
  BY <1>3, FirewallLooks DEF FirewallInv, Firewall!CheckDisabled
<1>4. CASE Firewall!Installed
  BY <1>4, FirewallLooks DEF FirewallInv, Firewall!Installed
<1>5. CASE Firewall!Disable
  <2>1. Firewall!Open([host EXCEPT !.active = FALSE])
    BY DEF FirewallInv, Firewall!Open
  <2>2. /\ host' \in {host, [host EXCEPT !.active = FALSE]} /\ DOMAIN ctl' = DOMAIN ctl /\ pc' = "done"
        /\ DOMAIN [host EXCEPT !.active = FALSE] = DOMAIN host
        /\ [host EXCEPT !.active = FALSE].action = host.action /\ [host EXCEPT !.active = FALSE].ports = host.ports /\ [host EXCEPT !.active = FALSE].late = host.late
        /\ [host EXCEPT !.active = FALSE].withdrawn = host.withdrawn
    BY <1>5 DEF FirewallInv, Firewall!Disable
  <2>3. QED
    BY <2>1, <2>2, FirewallWorks
<1>6. CASE Firewall!Lock
  BY <1>6, FirewallLooks DEF FirewallInv, Firewall!Lock
<1>7. CASE Firewall!First
  BY <1>7, FirewallLooks DEF FirewallInv, Firewall!First
<1>8. CASE Firewall!NoQueuedDeny("first queued", "allow")
  BY <1>8, FirewallLooks DEF FirewallInv, Firewall!NoQueuedDeny
<1>9. CASE Firewall!Undeny
  <2> DEFINE g == Firewall!Deleted(host, "deny", "ssh", Head(ctl.todo))
  <2>1. Firewall!Open(host) => Firewall!Open(g)
    BY DeletedStaysOpen
  <2>2. DOMAIN g = DOMAIN host /\ g.action = host.action /\ g.ports = host.ports /\ g.late = host.late /\ g.withdrawn = host.withdrawn
    BY DEF FirewallInv, Firewall!Deleted
  <2>3. host' \in {host, g} /\ DOMAIN ctl' = DOMAIN ctl /\ pc' \in {"allow", "undeny", "done"}
    <3>1. \/ host' = host /\ pc' = "allow" /\ ctl' = ctl
          \/ host' \in {host, g} /\ ctl' = [ctl EXCEPT !.todo = Tail(@)] /\ pc' = "undeny"
          \/ \E r : host' \in {host, g} /\ ctl' = [ctl EXCEPT !.result = r] /\ pc' = "done"
      BY <1>9, Zenon DEF Firewall!Undeny
    <3>2. QED
      BY <3>1
  <2> HIDE DEF g
  <2>4. QED
    BY <2>1, <2>2, <2>3, FirewallWorks
<1>10. CASE Firewall!Allow
  <2> DEFINE g == Firewall!Added(host, "allow", "ssh")
  <2>1. Firewall!Open(host) => Firewall!Open(g)
    BY AddedStaysOpen
  <2>2. DOMAIN g = DOMAIN host /\ g.action = host.action /\ g.ports = host.ports /\ g.late = host.late /\ g.withdrawn = host.withdrawn
    BY DEF FirewallInv, Firewall!Added
  <2>3. Firewall!Has(g.rules, "ssh", "allow", "any", 4)
    BY DEF FirewallInv, Firewall!Added, Firewall!Has, Firewall!Fams
  <2>4. \/ host' = g /\ pc' = "second" /\ ctl' = ctl
        \/ host' \in {host, g} /\ pc' = "done" /\ DOMAIN ctl' = DOMAIN ctl
    <3>1. \/ host' = g /\ pc' = "second" /\ ctl' = ctl
          \/ \E r : host' \in {host, g} /\ ctl' = [ctl EXCEPT !.result = r] /\ pc' = "done"
      BY <1>10, Zenon DEF Firewall!Allow
    <3>2. QED
      BY <3>1
  <2> HIDE DEF g
  <2>5. CASE host' = g /\ pc' = "second" /\ ctl' = ctl
    BY <2>1, <2>2, <2>3, <2>5 DEF FirewallInv, Firewall!AccessIsKept, Firewall!Undone, Harmless
  <2>6. QED
    BY <2>1, <2>2, <2>4, <2>5, FirewallWorks
<1>11. CASE Firewall!Second
  <2>1. pc = "second" /\ host' = host /\ DOMAIN ctl' = DOMAIN ctl
        /\ \/ pc' = "second queued"
           \/ pc' = "enable" /\ host.active
           \/ pc' = "done"
    BY <1>11 DEF FirewallInv, Firewall!Second
  <2>2. QED
    BY <2>1 DEF FirewallInv, Firewall!AccessIsKept, Firewall!Undone, Harmless
<1>12. CASE Firewall!NoQueuedDeny("second queued", "enable")
  <2>1. pc = "second queued" /\ host' = host /\ DOMAIN ctl' = DOMAIN ctl
        /\ \/ pc' = "enable" /\ ~Firewall!Queued(host, "deny", "ssh")
           \/ pc' = "done"
    BY <1>12 DEF FirewallInv, Firewall!NoQueuedDeny
  <2>2. ASSUME ~Firewall!Queued(host, "deny", "ssh") PROVE Firewall!ToDelete(Firewall!Shown(host), "ssh", "deny") = <<>>
    <3>1. ASSUME NEW proto, NEW fam PROVE ~Firewall!Has(Firewall!Shown(host), "ssh", "deny", proto, fam)
      BY <2>2 DEF Firewall!Queued, Firewall!Has
    <3>2. QED
      BY <3>1, NoneToDelete
  <2>3. QED
    BY <2>1, <2>2 DEF FirewallInv, Firewall!AccessIsKept, Firewall!Undone, Harmless, Admits
<1>13. CASE Firewall!Enable
  <2>1. /\ pc = "enable" /\ pc' = "done" /\ DOMAIN ctl' = DOMAIN ctl
        /\ host' \in {host, [host EXCEPT !.active = TRUE]}
    BY <1>13 DEF FirewallInv, Firewall!Enable
  <2>2. CASE host' = host
    BY <2>1, <2>2, FirewallLooks
  <2>3. CASE host' = [host EXCEPT !.active = TRUE]
    <3>1. /\ DOMAIN host' = DOMAIN host /\ host'.rules = host.rules /\ host'.late = host.late /\ host'.withdrawn = host.withdrawn /\ host'.v6 = host.v6
          /\ host'.action = host.action /\ host'.ports = host.ports
      BY <2>3 DEF FirewallInv
    <3>2. Firewall!Shown(host') = Firewall!Shown(host)
      BY <3>1 DEF Firewall!Shown, Firewall!Fams
    <3>3. Firewall!Open(host') \/ Firewall!Undone'
      <4>1. CASE Firewall!Undone
        BY <3>1, <4>1 DEF Firewall!Undone
      <4>2. CASE Admits(host)
        BY <3>1, <3>2, <4>2 DEF Admits, Firewall!Open
      <4>3. CASE host.active /\ Firewall!Open(host)
        BY <3>1, <3>2, <4>3 DEF Firewall!Open
      <4>4. QED
        BY <2>1, <4>1, <4>2, <4>3 DEF FirewallInv, Firewall!AccessIsKept, Firewall!Undone
    <3>4. QED
      BY <2>1, <3>1, <3>3 DEF FirewallInv, Firewall!AccessIsKept, Firewall!Undone
  <2>4. QED
    BY <2>1, <2>2, <2>3
<1>14. CASE Firewall!Guard
  <2>1. CASE host.action = "allow"
    <3>1. host' = host /\ ctl' = ctl /\ pc' = "read"
      BY <1>14, <2>1 DEF Firewall!Guard
    <3>2. QED
      BY <2>1, <3>1 DEF FirewallInv, Firewall!AccessIsKept, Firewall!Undone, Harmless
  <2>2. CASE host.action # "allow" /\ \E i \in DOMAIN host.ports : host.ports[i] = "ssh"
    BY <1>14, <2>2, FirewallLooks DEF FirewallInv, Firewall!Guard
  <2>3. CASE host.action # "allow" /\ \A i \in DOMAIN host.ports : host.ports[i] # "ssh"
    <3>1. host' = host /\ ctl' = ctl /\ pc' = "probe"
      BY <1>14, <2>3 DEF Firewall!Guard
    <3>2. host.ports \in Seq(Firewall!Ports) /\ host.action = "deny"
      BY <2>3 DEF FirewallInv
    <3>3. host.ports \in Seq(Firewall!Ports \ {"ssh"})
      BY <2>3, <3>2
    <3>4. QED
      BY <3>1, <3>2, <3>3 DEF FirewallInv, Firewall!AccessIsKept, Firewall!Undone, Harmless
  <2>4. QED
    BY <2>1, <2>2, <2>3
<1>15. CASE Firewall!Probe
  <2>1. pc = "probe" /\ host' = host /\ DOMAIN ctl' = DOMAIN ctl /\ pc' \in {"read", "done"}
    BY <1>15 DEF FirewallInv, Firewall!Probe
  <2>2. QED
    BY <2>1 DEF FirewallInv, Firewall!AccessIsKept, Firewall!Undone, Harmless
<1>16. CASE Firewall!Read
  <2>1. pc = "read" /\ host' = host /\ DOMAIN ctl' = DOMAIN ctl
        /\ (pc' = "done" \/ (pc' = "opposite" /\ ctl'.todo = host.ports))
    BY <1>16 DEF FirewallInv, Firewall!Read
  <2>2. QED
    BY <2>1 DEF FirewallInv, Firewall!AccessIsKept, Firewall!Undone, Harmless
<1>17. CASE Firewall!OppositeRule
  <2>1. pc = "opposite" /\ ctl.todo \in Seq(Harmless)
    BY <1>17 DEF FirewallInv, Firewall!OppositeRule
  <2>2. CASE ctl.todo = <<>>
    BY <1>17, <2>2, FirewallLooks DEF FirewallInv, Firewall!OppositeRule
  <2>3. CASE ctl.todo # <<>>
    <3> DEFINE old == Firewall!ToDelete(ctl.rules, Firewall!Port, Firewall!Opposite(host.action))
               g == Firewall!Deleted(host, Firewall!Opposite(host.action), Firewall!Port, Head(old))
    <3>1. CASE old = <<>>
      <4>1. host' = host /\ ctl' = ctl /\ pc' = "add"
        BY <1>17, <2>3, <3>1 DEF Firewall!OppositeRule
      <4>2. QED
        BY <2>1, <2>3, <4>1 DEF FirewallInv, Firewall!AccessIsKept, Firewall!Undone, Harmless
    <3>2. CASE old # <<>>
      <4>1. \/ host' \in {host, g} /\ pc' = "opposite" /\ ctl'.todo = ctl.todo /\ DOMAIN ctl' = DOMAIN ctl
            \/ host' \in {host, g} /\ pc' = "done" /\ DOMAIN ctl' = DOMAIN ctl
        BY <1>17, <2>1, <2>3, <3>2 DEF FirewallInv, Firewall!OppositeRule
      <4>2. Firewall!Opposite(host.action) \in {"allow", "deny"}
            /\ (Firewall!Opposite(host.action) = "allow" => Firewall!Port # "ssh")
        BY <2>1, <2>3 DEF FirewallInv, Firewall!Opposite, Firewall!Port, Harmless
      <4>3. Firewall!Open(host) => Firewall!Open(g)
        BY <4>2, DeletedStaysOpen
      <4>4. DOMAIN g = DOMAIN host /\ g.action = host.action /\ g.ports = host.ports /\ g.late = host.late /\ g.withdrawn = host.withdrawn
        BY DEF FirewallInv, Firewall!Deleted
      <4> HIDE DEF old, g
      <4>5. CASE pc' = "opposite" /\ ctl'.todo = ctl.todo /\ DOMAIN ctl' = DOMAIN ctl /\ host' \in {host, g}
        BY <2>1, <4>3, <4>4, <4>5 DEF FirewallInv, Firewall!AccessIsKept, Firewall!Undone, Harmless
      <4>6. QED
        BY <4>1, <4>3, <4>4, <4>5, FirewallWorks
    <3>3. QED
      BY <3>1, <3>2
  <2>4. QED
    BY <2>2, <2>3
<1>18. CASE Firewall!Add
  <2> DEFINE g == Firewall!Added(host, host.action, Firewall!Port)
  <2>1. pc = "add" /\ ctl.todo \in Seq(Harmless) /\ ctl.todo # <<>> /\ host.action \in {"allow", "deny"}
    BY <1>18 DEF FirewallInv, Firewall!Add
  <2>2. host.action = "deny" => Firewall!Port # "ssh"
    BY <2>1 DEF Firewall!Port, Harmless
  <2>3. Firewall!Open(host) => Firewall!Open(g)
    BY <2>1, <2>2, AddedStaysOpen
  <2>4. DOMAIN g = DOMAIN host /\ g.action = host.action /\ g.ports = host.ports /\ g.late = host.late /\ g.withdrawn = host.withdrawn
    BY DEF FirewallInv, Firewall!Added
  <2>5. \/ host' \in {host, g} /\ pc' = "opposite" /\ ctl'.todo = Tail(ctl.todo) /\ DOMAIN ctl' = DOMAIN ctl
        \/ host' \in {host, g} /\ pc' = "done" /\ DOMAIN ctl' = DOMAIN ctl
    BY <1>18 DEF FirewallInv, Firewall!Add
  <2> HIDE DEF g
  <2>6. CASE pc' = "opposite" /\ ctl'.todo = Tail(ctl.todo) /\ DOMAIN ctl' = DOMAIN ctl /\ host' \in {host, g}
    BY <2>1, <2>3, <2>4, <2>6 DEF FirewallInv, Firewall!AccessIsKept, Firewall!Undone, Harmless
  <2>7. QED
    BY <2>3, <2>4, <2>5, <2>6, FirewallWorks
<1>19. CASE Firewall!Deny
  <2> DEFINE g == Firewall!Added(host, "deny", "ssh")
  <2>1. /\ host' = [g EXCEPT !.late = @ \/ pc = "enable"] /\ ~host.active /\ UNCHANGED <<ctl, pc>>
    BY <1>19 DEF Firewall!Deny, Firewall!Outsider
  <2>2. DOMAIN g = DOMAIN host /\ \A f \in {"action", "ports", "late", "withdrawn", "active", "v6"} : g[f] = host[f]
    BY DEF FirewallInv, Firewall!Added
  <2>3. [port |-> "ssh", action |-> "deny", proto |-> "any", fam |-> 4] \in g.rules
    BY DEF FirewallInv, Firewall!Added, Firewall!Fams
  <2> HIDE DEF g
  <2>4. /\ DOMAIN host' = DOMAIN host /\ \A f \in {"action", "ports", "active", "v6", "withdrawn"} : host'[f] = host[f]
        /\ host'.rules = g.rules /\ host'.late = (host.late \/ pc = "enable")
    BY <2>1, <2>2 DEF FirewallInv
  <2>5. Firewall!Queued(host', "deny", "ssh")
    BY <2>3, <2>4 DEF Firewall!Queued, Firewall!Shown, Firewall!Fams
  <2>6. Firewall!Open(host')
    BY <2>1, <2>4 DEF Firewall!Open
  <2>7. QED
    BY <2>1, <2>4, <2>5, <2>6 DEF FirewallInv, Firewall!AccessIsKept, Firewall!Undone, Harmless
<1>20. CASE Firewall!Withdraw
  <2>1. PICK proto \in {"any", "tcp"} :
           /\ host' = [Firewall!Deleted(host, "allow", "ssh", proto)
                         EXCEPT !.withdrawn = @ \/ pc \in {"second", "second queued", "enable"}]
           /\ ~host.active /\ UNCHANGED <<ctl, pc>>
    BY <1>20 DEF Firewall!Withdraw, Firewall!Outsider
  <2>2. /\ DOMAIN host' = DOMAIN host /\ \A f \in {"action", "ports", "late", "active", "v6"} : host'[f] = host[f]
        /\ host'.withdrawn = (host.withdrawn \/ pc \in {"second", "second queued", "enable"})
    BY <2>1 DEF FirewallInv, Firewall!Deleted
  <2>3. Firewall!Open(host')
    BY <2>1, <2>2 DEF Firewall!Open
  <2>4. QED
    BY <2>1, <2>2, <2>3 DEF FirewallInv, Firewall!AccessIsKept, Firewall!Undone, Harmless
<1>21. CASE Firewall!Rerun
  <2>1. /\ host' = [host EXCEPT !.late = FALSE, !.withdrawn = FALSE] /\ Firewall!Open(host)
        /\ pc' = "check" /\ {"todo", "rules", "changed", "result"} \subseteq DOMAIN ctl'
    BY <1>21 DEF Firewall!Rerun, Firewall!Fresh
  <2>2. DOMAIN host' = DOMAIN host /\ \A f \in {"action", "ports", "active", "v6", "rules"} : host'[f] = host[f]
    BY <2>1 DEF FirewallInv
  <2>3. Firewall!Open(host')
    BY <2>1, <2>2 DEF Firewall!Open, Firewall!Shown, Firewall!Fams
  <2>4. QED
    BY <2>1, <2>2, <2>3 DEF FirewallInv, Firewall!AccessIsKept, Harmless
<1>22. QED
  BY <1>1, <1>2, <1>3, <1>4, <1>5, <1>6, <1>7, <1>8, <1>9, <1>10, <1>11, <1>12, <1>13, <1>14, <1>15, <1>16, <1>17, <1>18, <1>19, <1>20,
     <1>21 DEF Firewall!Next, Firewall!Section

-----------------------------------------------------------------------------
(* Certificate files                                                       *)

Forward == pc \in {"validate", "parent", "stage", "back up", "assert", "publish", "confirm", "effective", "reload", "readable", "cleanup"}
Undoing == pc \in {"undo", "put back", "undo tidy", "undo parent", "undo reload"}

(* ssh.trustedUserCa(absent): the one call that takes a CA away.           *)
Removing == host.kind = "ca" /\ ~host.present

(* The run found a CA and has taken it away.                               *)
CaGone == host.file.ca = "none" /\ ctl.orig.file.ca # "none"

(* The plan of a removal; what is left of it is a part of its end.         *)
Removal == [i \in 1..4 |-> CASE i = 1 -> "conf" [] i = 2 -> "effective" [] i = 3 -> "reload" [] i = 4 -> "ca"]
Remains(todo) == Len(todo) <= 4 /\ \A i \in 1..Len(todo) : todo[i] = Removal[4 - Len(todo) + i]

Left(todo) == Len(todo)

CertSteps == CertFiles!Files \cup {"effective", "reload", "readable"}

(* The parts of the state the arguments are about are there.               *)
CertTypes ==
  /\ {"kind", "present", "file", "live", "parent", "tmp", "late", "lost"} \subseteq DOMAIN host /\ DOMAIN host.file = CertFiles!Files
  /\ host.kind \in {"ca", "user"}
  /\ {"seen", "todo", "touched", "orig"} \subseteq DOMAIN ctl
  /\ faults \in Nat /\ ctl.touched \in Seq(CertFiles!Files)
  /\ Forward => ctl.todo \in Seq(CertSteps)

(* Where the call is, by what it has still to do and what it has done.     *)
CertPlace ==
  /\ pc \in {"check", "prepare", "assess"} => ctl.orig.file = host.file
  /\ Forward \/ Undoing => ctl.seen = ctl.orig.file
  /\ Forward /\ ~host.present => IF host.kind = "ca" THEN Remains(ctl.todo) ELSE \A i \in 1..Len(ctl.todo) : ctl.todo[i] # "ca"
  /\ pc \in {"parent", "stage", "back up", "assert", "publish", "confirm"} => ctl.todo # <<>> /\ CertFiles!Now \in CertFiles!Files
  /\ pc \in {"effective", "reload", "readable"} => ctl.todo # <<>> /\ CertFiles!Now = pc
  /\ pc = "cleanup" => ctl.todo = <<>>
  /\ pc = "publish" => ctl.touched # <<>> /\ Head(ctl.touched) = CertFiles!Now
  /\ pc = "put back" => ctl.touched # <<>>
  /\ CaGone => Removing

(* The configuration is written and loaded before the CA goes; up to the   *)
(* first fault every file is the one that was seen, or the one written.    *)
CertRemoval ==
  Removing /\ Forward =>
    /\ Left(ctl.todo) <= 3 => host.file.conf # "want"
    /\ Left(ctl.todo) <= 1 => host.live # "want"
    /\ CaGone => pc = "cleanup"
    /\ pc = "confirm" => CertFiles!Now = "conf"
    /\ faults = 0 => /\ ctl.todo # <<>> => host.file.ca = ctl.seen.ca
                     /\ Left(ctl.todo) = 4 /\ pc # "confirm" => host.file.conf = ctl.seen.conf
                     /\ Left(ctl.todo) <= 3 \/ pc = "confirm" => host.file.conf = "bare"

(* A rollback took a fault; the CA is put back before sshd is reloaded.    *)
CertRollback ==
  /\ Removing /\ Undoing => faults > 0
  /\ Undoing /\ faults <= 1 /\ CaGone => pc \in {"undo", "put back"} /\ \E i \in 1..Len(ctl.touched) : ctl.touched[i] = "ca"
  /\ faults <= 1 /\ CaGone => host.live # "want"

CertInv == CertTypes /\ CertPlace /\ CertRemoval /\ CertRollback

(* The invariant says that a CA that is gone is not trusted by the         *)
(* running sshd any more, up to one fault: what AccessIsKept asks of the   *)
(* transaction.                                                            *)
LEMMA CertKeepsAccess == CertInv => CertFiles!AccessIsKept
BY DEF CertInv, CertRollback, CaGone, CertFiles!AccessIsKept

(* The transaction begins with nothing removed and nothing planned.        *)
LEMMA CertInit == CertFiles!Init => CertInv
<1> SUFFICES ASSUME CertFiles!Init PROVE CertInv
  OBVIOUS
<1>1. /\ {"kind", "present", "file", "live", "parent", "tmp", "late", "lost"} \subseteq DOMAIN host
      /\ DOMAIN host.file = CertFiles!Files /\ host.kind \in {"ca", "user"}
  BY DEF CertFiles!Init, CertFiles!Files
<1>2. pc = "check" /\ faults = 0 /\ ctl.orig = host /\ ctl.touched = <<>>
      /\ {"seen", "todo", "touched", "orig"} \subseteq DOMAIN ctl
  BY DEF CertFiles!Init, CertFiles!Fresh
<1>3. QED
  BY <1>1, <1>2 DEF CertInv, CertTypes, CertPlace, CertRemoval, CertRollback, Forward, Undoing, CaGone

(* A fault more is still a number, and no longer none.                     *)
LEMMA FaultsCount ==
  ASSUME faults \in Nat
  PROVE  /\ faults # 0 => faults > 0
         /\ faults' = faults \/ faults' = faults + 1 =>
               faults' \in Nat /\ (faults > 0 => faults' > 0) /\ (faults' <= 1 => faults <= 1)
OBVIOUS

(* A step that ends the call.                                              *)
LEMMA CertEnds ==
  ASSUME CertInv, pc' = "done", DOMAIN ctl' = DOMAIN ctl, ctl'.orig = ctl.orig, ctl'.touched = ctl.touched,
         DOMAIN host' = DOMAIN host, host'.file = host.file, host'.live = host.live, host'.kind = host.kind,
         host'.present = host.present, faults' = faults \/ faults' = faults + 1
  PROVE  CertInv'
<1>1. (CaGone' <=> CaGone) /\ (Removing' <=> Removing) /\ ~Forward' /\ ~Undoing'
  BY DEF CaGone, Removing, Forward, Undoing
<1>2. CertTypes'
  BY <1>1 DEF CertInv, CertTypes
<1>3. CertPlace'
  BY <1>1 DEF CertInv, CertPlace
<1>4. CertRemoval'
  BY <1>1 DEF CertRemoval
<1>5. faults' <= 1 => faults <= 1
  BY DEF CertInv, CertTypes
<1>6. CertRollback'
  BY <1>1, <1>5 DEF CertInv, CertRollback
<1>7. QED
  BY <1>2, <1>3, <1>4, <1>6 DEF CertInv

(* A command that failed, or a comparison that found another's hand.       *)
LEMMA CertFails ==
  ASSUME CertInv, Forward, pc # "cleanup", pc' \in {"undo", "done"}, DOMAIN ctl' = DOMAIN ctl, ctl'.orig = ctl.orig,
         ctl'.seen = ctl.seen, ctl'.touched = ctl.touched, DOMAIN host' = DOMAIN host, host'.file = host.file,
         host'.kind = host.kind, host'.present = host.present,
         faults' = faults + 1 \/ (faults' = faults /\ (Removing => faults > 0))
  PROVE  CertInv'
<1>1. ~CaGone
  BY DEF CertInv, CertPlace, CertRemoval
<1>2. ~CaGone'
  BY <1>1 DEF CaGone
<1>3. ~Forward' /\ Removing' = Removing
  BY DEF Forward, Removing
<1>4. CertTypes'
  BY <1>3 DEF CertInv, CertTypes
<1>5. CertPlace'
  BY <1>2, <1>3 DEF CertInv, CertPlace
<1>6. CertRemoval'
  BY <1>3 DEF CertRemoval
<1>7. Removing' => faults' > 0
  BY <1>3 DEF CertInv, CertTypes
<1>8. CertRollback'
  BY <1>2, <1>7 DEF CertRollback
<1>9. QED
  BY <1>4, <1>5, <1>6, <1>8 DEF CertInv

(* What comes before a sequence is its head.                               *)
LEMMA Prepended ==
  ASSUME NEW S, NEW f \in S, NEW t \in Seq(S)
  PROVE  <<f>> \o t \in Seq(S) /\ <<f>> \o t # <<>> /\ Head(<<f>> \o t) = f
<1> DEFINE u == <<f>> \o t
<1>1. <<f>> \in Seq(S) /\ Len(<<f>>) = 1 /\ <<f>>[1] = f
  OBVIOUS
<1>2. /\ u \in Seq(S) /\ Len(u) = 1 + Len(t)
      /\ \A i \in 1..(1 + Len(t)) : u[i] = IF i <= 1 THEN <<f>>[i] ELSE t[i - 1]
  BY <1>1, ConcatProperties
<1> HIDE DEF u
<1>3. Len(t) \in Nat
  OBVIOUS
<1>4. u[1] = f
  BY <1>1, <1>2, <1>3
<1>5. u # <<>> /\ Head(u) = u[1]
  BY <1>2, <1>3
<1>6. QED
  BY <1>2, <1>4, <1>5 DEF u

(* From one command on a file to the next.                                 *)
LEMMA CertGoesOn ==
  ASSUME CertInv, pc \in {"parent", "stage", "back up", "assert"}, pc' \in {"stage", "back up", "assert", "publish"},
         DOMAIN ctl' = DOMAIN ctl, ctl'.orig = ctl.orig, ctl'.seen = ctl.seen, ctl'.todo = ctl.todo,
         ctl'.touched = ctl.touched \/ ctl'.touched = <<CertFiles!Now>> \o ctl.touched,
         pc' = "publish" => ctl'.touched = <<CertFiles!Now>> \o ctl.touched,
         DOMAIN host' = DOMAIN host, host'.file = host.file, host'.live = host.live, host'.kind = host.kind,
         host'.present = host.present, faults' = faults
  PROVE  CertInv'
<1>1. CertFiles!Now \in CertFiles!Files /\ ctl.touched \in Seq(CertFiles!Files) /\ CertFiles!Now' = CertFiles!Now
  BY DEF CertInv, CertTypes, CertPlace, CertFiles!Now
<1>2. /\ ctl'.touched \in Seq(CertFiles!Files)
      /\ pc' = "publish" => ctl'.touched # <<>> /\ Head(ctl'.touched) = CertFiles!Now
  <2>1. LET u == <<CertFiles!Now>> \o ctl.touched IN u \in Seq(CertFiles!Files) /\ u # <<>> /\ Head(u) = CertFiles!Now
    BY <1>1, Prepended
  <2>2. QED
    BY <1>1, <2>1
<1>3. CertTypes'
  BY <1>2 DEF CertInv, CertTypes, Forward
<1>4. CertPlace'
  BY <1>1, <1>2 DEF CertInv, CertPlace, Forward, Undoing, CaGone, Removing
<1>5. CertRemoval' /\ CertRollback'
  BY DEF CertInv, CertRemoval, CertRollback, Forward, Undoing, CaGone, Removing
<1>6. QED
  BY <1>3, <1>4, <1>5 DEF CertInv

(* What Step leaves of the plan, and what it passed over.                  *)
LEMMA StepFacts ==
  ASSUME NEW c, "todo" \in DOMAIN c, c.todo \in Seq(CertSteps), CertFiles!Step(c)
  PROVE  \E n \in 0..Len(c.todo) :
           /\ ctl'.todo \in Seq(CertSteps) /\ Len(ctl'.todo) = Len(c.todo) - n
           /\ \A i \in 1..(Len(c.todo) - n) : ctl'.todo[i] = c.todo[i + n]
           /\ \A i \in 1..n : CertFiles!Passed(c, c.todo[i])
           /\ DOMAIN ctl' = DOMAIN c /\ ctl'.seen = c.seen /\ ctl'.touched = c.touched /\ ctl'.orig = c.orig
           /\ \/ ctl'.todo = <<>> /\ pc' = "cleanup"
              \/ ctl'.todo # <<>> /\ Head(ctl'.todo) \in CertFiles!Files /\ pc' = "parent"
              \/ ctl'.todo # <<>> /\ Head(ctl'.todo) \in CertSteps \ CertFiles!Files /\ pc' = Head(ctl'.todo)
<1>1. PICK n \in 0..Len(c.todo) :
        LET left == SubSeq(c.todo, n + 1, Len(c.todo))
        IN /\ \A i \in 1..n : CertFiles!Passed(c, c.todo[i])
           /\ ctl' = [c EXCEPT !.todo = left]
           /\ pc' = IF left = <<>> THEN "cleanup" ELSE IF Head(left) \in CertFiles!Files THEN "parent" ELSE Head(left)
  BY DEF CertFiles!Step
<1> DEFINE left == SubSeq(c.todo, n + 1, Len(c.todo))
<1>2. /\ left \in Seq(CertSteps) /\ Len(left) = Len(c.todo) - n
      /\ \A i \in 1..(Len(c.todo) - n) : left[i] = c.todo[i + n]
  OBVIOUS
<1>3. left # <<>> => Head(left) \in CertSteps
  BY <1>2
<1>4. ctl' = [c EXCEPT !.todo = left]
  BY <1>1
<1>5. pc' = IF left = <<>> THEN "cleanup" ELSE IF Head(left) \in CertFiles!Files THEN "parent" ELSE Head(left)
  BY <1>1
<1> HIDE DEF left
<1>6. /\ DOMAIN ctl' = DOMAIN c /\ ctl'.seen = c.seen /\ ctl'.touched = c.touched /\ ctl'.orig = c.orig
      /\ ctl'.todo = left
  BY <1>4
<1>7. QED
  BY <1>1, <1>2, <1>3, <1>5, <1>6

(* What is left of a removal's plan stands at its own place in it.         *)
LEMMA RemainsFacts ==
  ASSUME NEW todo \in Seq(CertSteps), Remains(todo), todo # <<>>
  PROVE  /\ Left(todo) \in 1..4 /\ Left(Tail(todo)) = Left(todo) - 1
         /\ Remains(Tail(todo)) /\ Tail(todo) \in Seq(CertSteps)
         /\ Left(todo) = 4 <=> Head(todo) = "conf"
         /\ Left(todo) = 3 <=> Head(todo) = "effective"
         /\ Left(todo) = 2 <=> Head(todo) = "reload"
         /\ Left(todo) = 1 <=> Head(todo) = "ca"
<1>1. Len(todo) \in 1..4 /\ Head(todo) = todo[1]
  <2>1. Len(todo) \in Nat /\ Len(todo) # 0 /\ Head(todo) = todo[1]
    OBVIOUS
  <2>2. Len(todo) <= 4
    BY DEF Remains
  <2> DEFINE k == Len(todo)
  <2>3. k \in Nat /\ k # 0 /\ k <= 4
    BY <2>1, <2>2
  <2> HIDE DEF k
  <2>4. k \in 1..4
    BY <2>3
  <2>5. QED
    BY <2>1, <2>4 DEF k
<1>2. Head(todo) = Removal[5 - Len(todo)]
  BY <1>1 DEF Remains
<1>3. /\ Len(Tail(todo)) = Len(todo) - 1 /\ Tail(todo) \in Seq(CertSteps)
      /\ \A i \in 1..(Len(todo) - 1) : Tail(todo)[i] = todo[i + 1]
  OBVIOUS
<1>4. Remains(Tail(todo))
  BY <1>1, <1>3 DEF Remains
<1>5. Removal[1] = "conf" /\ Removal[2] = "effective" /\ Removal[3] = "reload" /\ Removal[4] = "ca"
  BY DEF Removal
<1>6. /\ Len(todo) = 4 <=> Head(todo) = "conf"
      /\ Len(todo) = 3 <=> Head(todo) = "effective"
      /\ Len(todo) = 2 <=> Head(todo) = "reload"
      /\ Len(todo) = 1 <=> Head(todo) = "ca"
  <2>1. CASE Len(todo) = 1
    BY <1>2, <1>5, <2>1
  <2>2. CASE Len(todo) = 2
    BY <1>2, <1>5, <2>2
  <2>3. CASE Len(todo) = 3
    BY <1>2, <1>5, <2>3
  <2>4. CASE Len(todo) = 4
    BY <1>2, <1>5, <2>4
  <2>5. QED
    BY <1>1, <2>1, <2>2, <2>3, <2>4
<1>7. QED
  BY <1>1, <1>2, <1>3, <1>4, <1>6 DEF Left

(* A removal writes two files, the configuration first and the CA last.    *)
LEMMA FilesOfRemoval ==
  ASSUME NEW todo \in Seq(CertSteps), Remains(todo), todo # <<>>, Head(todo) \in CertFiles!Files
  PROVE  /\ Head(todo) \in {"conf", "ca"}
         /\ Head(todo) = "conf" => Left(todo) = 4
         /\ Head(todo) = "ca" => Left(todo) = 1
BY RemainsFacts DEF CertFiles!Files

(* Step (the next item of the plan that is not there already) keeps the    *)
(* invariant, wherever it is taken from: the plan of a removal is          *)
(* followed in its order, and only files that are as wanted are passed     *)
(* over.                                                                   *)
LEMMA CertAdvances ==
  ASSUME NEW c, CertTypes, {"seen", "todo", "touched", "orig"} \subseteq DOMAIN c, c.todo \in Seq(CertSteps),
         c.touched \in Seq(CertFiles!Files), c.seen = c.orig.file, CertFiles!Step(c),
         DOMAIN host' = DOMAIN host, DOMAIN host'.file = DOMAIN host.file, host'.kind = host.kind, host'.present = host.present,
         faults' = faults,
         ~host.present => IF host.kind = "ca" THEN Remains(c.todo) ELSE \A i \in 1..Len(c.todo) : c.todo[i] # "ca",
         host'.file.ca = "none" /\ c.orig.file.ca # "none" => Removing /\ c.todo = <<>>,
         Removing => /\ host'.file.conf = host.file.conf
                     /\ Left(c.todo) <= 3 => host.file.conf # "want"
                     /\ Left(c.todo) <= 1 => host'.live # "want"
                     /\ faults = 0 => /\ c.todo # <<>> => host'.file.ca = c.seen.ca
                                      /\ Left(c.todo) = 4 => host.file.conf = c.seen.conf
                                      /\ Left(c.todo) <= 3 => host.file.conf = "bare"
  PROVE  CertInv'
<1>1. PICK n \in 0..Len(c.todo) :
           /\ ctl'.todo \in Seq(CertSteps) /\ Len(ctl'.todo) = Len(c.todo) - n
           /\ \A i \in 1..(Len(c.todo) - n) : ctl'.todo[i] = c.todo[i + n]
           /\ \A i \in 1..n : CertFiles!Passed(c, c.todo[i])
           /\ DOMAIN ctl' = DOMAIN c /\ ctl'.seen = c.seen /\ ctl'.touched = c.touched /\ ctl'.orig = c.orig
           /\ \/ ctl'.todo = <<>> /\ pc' = "cleanup"
              \/ ctl'.todo # <<>> /\ Head(ctl'.todo) \in CertFiles!Files /\ pc' = "parent"
              \/ ctl'.todo # <<>> /\ Head(ctl'.todo) \in CertSteps \ CertFiles!Files /\ pc' = Head(ctl'.todo)
  BY StepFacts
<1>2. Len(c.todo) \in Nat
  OBVIOUS
<1>3. pc' \in {"cleanup", "parent", "effective", "reload", "readable"}
  BY <1>1 DEF CertSteps
<1>4. CertTypes'
  BY <1>1 DEF CertTypes
<1>5. CaGone' => Removing' /\ c.todo = <<>> /\ ctl'.todo = <<>> /\ pc' = "cleanup"
  <2>1. CaGone' => Removing' /\ c.todo = <<>>
    BY <1>1 DEF CaGone, Removing
  <2>2. c.todo = <<>> => Len(ctl'.todo) = 0
    BY <1>1, <1>2
  <2>3. Len(ctl'.todo) = 0 => ctl'.todo = <<>>
    BY <1>1
  <2>4. QED
    BY <1>1, <2>1, <2>2, <2>3
<1>6. CertPlace'
  <2>1. ASSUME ~host.present, host.kind = "ca"
        PROVE  Remains(ctl'.todo)
    <3> DEFINE k == Len(c.todo)
    <3>1. /\ k \in Nat /\ n \in 0..k /\ k <= 4 /\ Len(ctl'.todo) = k - n
          /\ \A i \in 1..k : c.todo[i] = Removal[4 - k + i]
          /\ \A i \in 1..(k - n) : ctl'.todo[i] = c.todo[i + n]
      BY <1>1, <1>2, <2>1 DEF Remains
    <3> HIDE DEF k
    <3>2. ASSUME NEW i \in 1..(k - n) PROVE ctl'.todo[i] = Removal[4 - (k - n) + i]
      <4>1. i + n \in 1..k /\ 4 - k + (i + n) = 4 - (k - n) + i
        BY <3>1
      <4>2. QED
        BY <3>1, <4>1
    <3>3. k - n <= 4
      BY <3>1
    <3>4. QED
      BY <3>1, <3>2, <3>3 DEF Remains
  <2>2. ASSUME ~host.present, host.kind # "ca", NEW i \in 1..Len(ctl'.todo)
        PROVE  ctl'.todo[i] # "ca"
    <3>1. i \in 1..(Len(c.todo) - n) /\ i + n \in 1..Len(c.todo)
      BY <1>1, <1>2, <2>2
    <3>2. ctl'.todo[i] = c.todo[i + n]
      BY <1>1, <3>1
    <3>3. QED
      BY <2>2, <3>1, <3>2
  <2>3. /\ pc' \notin {"check", "prepare", "assess", "stage", "back up", "assert", "publish", "confirm", "put back"}
        /\ ctl'.seen = ctl'.orig.file
    BY <1>1, <1>3
  <2>4. /\ pc' = "parent" => ctl'.todo # <<>> /\ CertFiles!Now' \in CertFiles!Files
        /\ pc' \in {"effective", "reload", "readable"} => ctl'.todo # <<>> /\ CertFiles!Now' = pc'
        /\ pc' = "cleanup" => ctl'.todo = <<>>
    BY <1>1 DEF CertFiles!Now, CertSteps, CertFiles!Files
  <2>5. ~host'.present => IF host'.kind = "ca" THEN Remains(ctl'.todo) ELSE \A i \in 1..Len(ctl'.todo) : ctl'.todo[i] # "ca"
    BY <2>1, <2>2
  <2>6. CaGone' => Removing'
    BY <1>5
  <2>7. QED
    BY <2>3, <2>4, <2>5, <2>6 DEF CertPlace
<1>7. CertRemoval'
  <2> SUFFICES ASSUME Removing
               PROVE  /\ Len(ctl'.todo) <= 3 => host'.file.conf # "want"
                      /\ Len(ctl'.todo) <= 1 => host'.live # "want"
                      /\ faults = 0 => /\ ctl'.todo # <<>> => host'.file.ca = ctl'.seen.ca
                                       /\ Len(ctl'.todo) = 4 => host'.file.conf = ctl'.seen.conf
                                       /\ Len(ctl'.todo) <= 3 => host'.file.conf = "bare"
    BY <1>3, <1>5 DEF CertRemoval, Removing, Left
  <2>1. Remains(c.todo) /\ Len(c.todo) \in 0..4 /\ n \in 0..4
    <3>1. Remains(c.todo)
      BY DEF Removing
    <3>2. Len(c.todo) <= 4
      BY <3>1 DEF Remains
    <3> DEFINE k == Len(c.todo)
    <3>3. k \in Nat /\ k <= 4 /\ n \in 0..k
      BY <1>1, <1>2, <3>2
    <3> HIDE DEF k
    <3>4. k \in 0..4 /\ n \in 0..4
      BY <3>3
    <3>5. QED
      BY <3>1, <3>4 DEF k
  <2>2. ASSUME Len(c.todo) = 4, n >= 1 PROVE host.file.conf = "bare"
    <3>1. c.todo[1] = Removal[4 - 4 + 1]
      BY <2>1, <2>2 DEF Remains
    <3>2. CertFiles!Passed(c, c.todo[1])
      BY <1>1, <2>2
    <3>3. Removal[1] = "conf"
      BY DEF Removal
    <3>4. QED
      BY <3>1, <3>2, <3>3 DEF Removing, CertFiles!Passed, CertFiles!Goal, CertFiles!Matches
  <2>3. Len(c.todo) >= 2 => n < Len(c.todo) - 1
    <3> SUFFICES ASSUME Len(c.todo) >= 2, n >= Len(c.todo) - 1 PROVE FALSE
      BY <1>2
    <3>1. Len(c.todo) - 1 \in 1..n /\ c.todo[Len(c.todo) - 1] = Removal[3]
      BY <1>2, <2>1 DEF Remains
    <3>2. \A i \in 1..n : CertFiles!Passed(c, c.todo[i])
      BY <1>1
    <3>3. CertFiles!Passed(c, c.todo[Len(c.todo) - 1])
      BY <3>1, <3>2
    <3>4. Removal[3] = "reload"
      BY DEF Removal
    <3>5. QED
      BY <3>1, <3>3, <3>4 DEF CertFiles!Passed, CertFiles!Files
  <2>4. Len(ctl'.todo) = Len(c.todo) - n
    BY <1>1
  <2>5. /\ Len(ctl'.todo) <= 3 => Len(c.todo) <= 3 \/ (Len(c.todo) = 4 /\ n >= 1)
        /\ Len(ctl'.todo) <= 1 => Len(c.todo) <= 1
        /\ Len(ctl'.todo) = 4 => Len(c.todo) = 4
    <3> DEFINE k == Len(c.todo)
               l == Len(ctl'.todo)
    <3>1. k \in 0..4 /\ n \in 0..4 /\ l = k - n /\ (k >= 2 => n < k - 1)
      BY <2>1, <2>3, <2>4
    <3> HIDE DEF k, l
    <3>2. (l <= 3 => k <= 3 \/ (k = 4 /\ n >= 1)) /\ (l <= 1 => k <= 1) /\ (l = 4 => k = 4)
      BY <3>1
    <3>3. QED
      BY <3>2 DEF k, l
  <2>6. ctl'.todo # <<>> => c.todo # <<>>
    <3> SUFFICES ASSUME c.todo = <<>> PROVE ctl'.todo = <<>>
      OBVIOUS
    <3>1. Len(ctl'.todo) = 0
      BY <2>1, <2>4
    <3>2. QED
      BY <1>1, <3>1
  <2>7. QED
    BY <1>1, <2>2, <2>5, <2>6 DEF Left
<1>8. CertRollback'
  <2>1. CaGone' => host'.live # "want"
    <3>1. CaGone' => Removing /\ c.todo = <<>>
      BY <1>5 DEF Removing
    <3>2. Left(<<>>) <= 1
      BY DEF Left
    <3>3. QED
      BY <3>1, <3>2
  <2>2. QED
    BY <1>3, <2>1 DEF CertRollback, Undoing
<1>9. QED
  BY <1>4, <1>6, <1>7, <1>8 DEF CertInv

(* Before a file has been touched nothing is gone; a plan is its own rest. *)
LEMMA CertForward ==
  ASSUME CertInv, Forward, pc # "cleanup"
  PROVE  /\ ~CaGone /\ ctl.seen = ctl.orig.file /\ ctl.todo \in Seq(CertSteps) /\ ctl.touched \in Seq(CertFiles!Files)
         /\ {"seen", "todo", "touched", "orig"} \subseteq DOMAIN ctl
         /\ Removing => Remains(ctl.todo)
         /\ ~host.present /\ host.kind # "ca" => \A i \in 1..Len(ctl.todo) : ctl.todo[i] # "ca"
BY DEF CertInv, CertTypes, CertPlace, CertRemoval, Removing

(* The host before and after a step that touches none of its files.        *)
FilesAlone ==
  /\ DOMAIN host' = DOMAIN host /\ host'.file = host.file /\ host'.live = host.live /\ host'.kind = host.kind
  /\ host'.present = host.present

(* A command of the plan that writes no file leaves the plan's next step   *)
(* to be taken.                                                            *)
LEMMA CertPlanGoesOn ==
  ASSUME CertInv, Forward, pc \notin {"confirm", "cleanup"}, ctl.todo # <<>>, FilesAlone, faults' = faults, CertFiles!Advance,
         Removing => Head(ctl.todo) = "effective"
  PROVE  CertInv'
<1> DEFINE c == [ctl EXCEPT !.todo = Tail(@)]
<1>1. /\ CertFiles!Step(c) /\ DOMAIN c = DOMAIN ctl /\ c.todo = Tail(ctl.todo) /\ c.touched = ctl.touched
      /\ c.seen = ctl.seen /\ c.orig = ctl.orig
  BY CertForward DEF CertFiles!Advance
<1> HIDE DEF c
<1>2. Removing => Left(ctl.todo) = 3 /\ Left(c.todo) = 2 /\ Remains(c.todo)
  BY <1>1, CertForward, RemainsFacts
<1>3. /\ c.todo \in Seq(CertSteps)
      /\ ~host.present /\ host.kind # "ca" => \A i \in 1..Len(c.todo) : c.todo[i] # "ca"
  BY <1>1, CertForward
<1>4. ~(host.file.ca = "none" /\ c.orig.file.ca # "none")
  BY <1>1, CertForward DEF CaGone
<1>5. Removing => /\ host'.file.conf = host.file.conf
                  /\ Left(c.todo) <= 3 => host.file.conf # "want"
                  /\ Left(c.todo) <= 1 => host'.live # "want"
                  /\ faults = 0 => /\ c.todo # <<>> => host'.file.ca = c.seen.ca
                                   /\ Left(c.todo) = 4 => host.file.conf = c.seen.conf
                                   /\ Left(c.todo) <= 3 => host.file.conf = "bare"
  <2> SUFFICES ASSUME Removing
               PROVE  /\ host.file.conf # "want" /\ Left(c.todo) = 2
                      /\ faults = 0 => host.file.ca = c.seen.ca /\ host.file.conf = "bare"
    BY DEF FilesAlone
  <2>1. Left(ctl.todo) <= 3 /\ Left(c.todo) = 2
    BY <1>2
  <2>2. QED
    BY <1>1, <2>1 DEF CertInv, CertRemoval
<1>6. CertTypes
  BY DEF CertInv
<1>7. ~host.present => IF host.kind = "ca" THEN Remains(c.todo) ELSE \A i \in 1..Len(c.todo) : c.todo[i] # "ca"
  BY <1>2, <1>3 DEF Removing
<1>8. /\ {"seen", "todo", "touched", "orig"} \subseteq DOMAIN c /\ c.touched \in Seq(CertFiles!Files) /\ c.seen = c.orig.file
      /\ DOMAIN host' = DOMAIN host /\ DOMAIN host'.file = DOMAIN host.file /\ host'.kind = host.kind /\ host'.present = host.present
      /\ ~(host'.file.ca = "none" /\ c.orig.file.ca # "none")
  BY <1>1, <1>4, CertForward DEF FilesAlone
<1>9. QED
  BY <1>1, <1>3, <1>5, <1>6, <1>7, <1>8, CertAdvances

(* The plan that is made while nothing has been touched.                   *)
LEMMA PlanFacts ==
  ASSUME host.kind \in {"ca", "user"}
  PROVE  /\ CertFiles!Plan \in Seq(CertSteps)
         /\ Removing => /\ Remains(CertFiles!Plan) /\ Left(CertFiles!Plan) \in {3, 4}
                        /\ Left(CertFiles!Plan) = 3 => CertFiles!Matches("conf")
         /\ ~host.present /\ host.kind # "ca" => \A i \in 1..Len(CertFiles!Plan) : CertFiles!Plan[i] # "ca"
<1>0. CertSteps = {"ca", "rev", "conf", "user", "effective", "reload", "readable"}
  BY DEF CertSteps, CertFiles!Files
<1>1. CASE host.kind = "user"
  <2>1. CertFiles!Plan = <<"user", "readable">> \/ CertFiles!Plan = <<"user">>
    BY <1>1 DEF CertFiles!Plan
  <2>2. <<"user", "readable">> \in Seq(CertSteps) /\ <<"user">> \in Seq(CertSteps)
    BY <1>0
  <2>3. /\ \A i \in 1..Len(<<"user", "readable">>) : <<"user", "readable">>[i] # "ca"
        /\ \A i \in 1..Len(<<"user">>) : <<"user">>[i] # "ca"
    OBVIOUS
  <2>4. QED
    BY <1>1, <2>1, <2>2, <2>3 DEF Removing
<1>2. CASE host.kind = "ca" /\ host.present
  <2> DEFINE rev == IF host.revoked THEN <<"rev">> ELSE <<>>
             tail == IF CertFiles!Matches("conf") THEN <<"effective">> ELSE <<"conf", "effective", "reload">>
  <2>1. CertFiles!Plan = <<"ca">> \o rev \o tail
    BY <1>2 DEF CertFiles!Plan
  <2>2. <<"ca">> \in Seq(CertSteps) /\ rev \in Seq(CertSteps) /\ tail \in Seq(CertSteps)
    <3>1. <<"ca">> \in Seq(CertSteps) /\ <<"rev">> \in Seq(CertSteps) /\ <<>> \in Seq(CertSteps)
          /\ <<"effective">> \in Seq(CertSteps) /\ <<"conf", "effective", "reload">> \in Seq(CertSteps)
      BY <1>0
    <3>2. QED
      BY <3>1
  <2> HIDE DEF rev, tail
  <2>3. <<"ca">> \o rev \in Seq(CertSteps)
    BY <2>2
  <2>4. (<<"ca">> \o rev) \o tail \in Seq(CertSteps)
    BY <2>2, <2>3
  <2>5. QED
    BY <1>2, <2>1, <2>4 DEF Removing
<1>3. CASE host.kind = "ca" /\ ~host.present
  <2>1. \/ CertFiles!Plan = <<"effective", "reload", "ca">> /\ CertFiles!Matches("conf")
        \/ CertFiles!Plan = <<"conf", "effective", "reload", "ca">>
    BY <1>3 DEF CertFiles!Plan
  <2>2. <<"effective", "reload", "ca">> \in Seq(CertSteps) /\ <<"conf", "effective", "reload", "ca">> \in Seq(CertSteps)
    BY <1>0
  <2>3. Left(<<"effective", "reload", "ca">>) = 3 /\ Left(<<"conf", "effective", "reload", "ca">>) = 4
    BY DEF Left
  <2>4. Remains(<<"effective", "reload", "ca">>) /\ Remains(<<"conf", "effective", "reload", "ca">>)
    BY DEF Remains, Removal
  <2>5. CASE CertFiles!Plan = <<"effective", "reload", "ca">> /\ CertFiles!Matches("conf")
    BY <1>3, <2>2, <2>3, <2>4, <2>5
  <2>6. CASE CertFiles!Plan = <<"conf", "effective", "reload", "ca">>
    BY <1>3, <2>2, <2>3, <2>4, <2>6
  <2>7. QED
    BY <2>1, <2>5, <2>6
<1>4. QED
  BY <1>1, <1>2, <1>3

(* Before the plan is made a call only looks.                              *)
LEMMA CertAsksAgain ==
  ASSUME CertInv, pc \in {"check", "prepare", "assess"}, pc' \in {"check", "prepare", "assess"}, host' = host, ctl' = ctl,
         faults' = faults \/ faults' = faults + 1
  PROVE  CertInv'
<1>1. ~Forward' /\ ~Undoing' /\ CertTypes /\ faults \in Nat /\ ctl.orig.file = host.file
  BY DEF CertInv, CertTypes, CertPlace, Forward, Undoing
<1>2. ~CaGone'
  BY <1>1 DEF CaGone
<1>3. faults' \in Nat
  BY <1>1, FaultsCount
<1>4. CertTypes'
  BY <1>1, <1>3 DEF CertTypes
<1>5. CertPlace'
  BY <1>1, <1>2 DEF CertPlace
<1>6. CertRemoval' /\ CertRollback'
  BY <1>1, <1>2 DEF CertRemoval, CertRollback
<1>7. QED
  BY <1>4, <1>5, <1>6 DEF CertInv

(* prepareParents' look at the directories, after which the plan is made.  *)
LEMMA CertPrepares == ASSUME CertInv, CertFiles!Prepare PROVE CertInv'
<1> USE DEF CertFiles!Ask, CertFiles!Exec, CertFiles!Return, CertFiles!Goto
<1> DEFINE start == [ctl EXCEPT !.seen = host.file, !.todo = CertFiles!Plan, !.orig = host]
<1>1. /\ pc = "prepare" /\ CertTypes /\ {"seen", "todo", "touched", "orig"} \subseteq DOMAIN ctl
      /\ ctl.touched \in Seq(CertFiles!Files) /\ ctl.orig.file = host.file /\ host.kind \in {"ca", "user"}
  BY DEF CertInv, CertTypes, CertPlace, CertFiles!Prepare
<1>2. /\ DOMAIN start = DOMAIN ctl /\ start.seen = host.file /\ start.todo = CertFiles!Plan /\ start.orig = host
      /\ start.touched = ctl.touched
  BY <1>1
<1>3. host' = host /\ (faults' = faults \/ faults' = faults + 1)
  BY DEF CertFiles!Prepare, CertFiles!Fault
<1>4. \/ \E r : ctl' = [ctl EXCEPT !.result = r] /\ pc' = "done"
      \/ ctl' = ctl /\ pc' = "assess"
      \/ host.kind = "ca" /\ ctl' = start /\ pc' = "validate" /\ UNCHANGED faults
         /\ (Removing => host.file.conf \notin {"had", "theirs"})
      \/ host.kind # "ca" /\ CertFiles!Step(start) /\ UNCHANGED faults
  BY DEF CertFiles!Prepare, Removing
<1> HIDE DEF start
<1>5. CASE \E r : ctl' = [ctl EXCEPT !.result = r] /\ pc' = "done"
  <2>1. pc' = "done" /\ DOMAIN ctl' = DOMAIN ctl /\ ctl'.orig = ctl.orig /\ ctl'.touched = ctl.touched
    BY <1>1, <1>5
  <2>2. QED
    BY <1>3, <2>1, CertEnds
<1>6. CASE ctl' = ctl /\ pc' = "assess"
  BY <1>1, <1>3, <1>6, CertAsksAgain
<1>7. CASE /\ host.kind = "ca" /\ ctl' = start /\ pc' = "validate" /\ UNCHANGED faults
  <2>1. ~CaGone' /\ CertTypes' /\ CertPlace'
    BY <1>1, <1>2, <1>3, <1>7, PlanFacts DEF CertTypes, CertPlace, CaGone, Undoing, Removing, Forward
  <2>2. CertRemoval'
    <3> SUFFICES ASSUME Removing
                 PROVE  /\ Left(ctl'.todo) <= 3 => host.file.conf = "bare"
                        /\ ~(Left(ctl'.todo) <= 1)
      BY <1>2, <1>3, <1>7, <2>1 DEF CertRemoval, Removing
    <3>1. Left(ctl'.todo) \in {3, 4} /\ (Left(ctl'.todo) = 3 => CertFiles!Matches("conf"))
      BY <1>1, <1>2, <1>7, PlanFacts
    <3>2. CertFiles!Matches("conf") => host.file.conf = "bare"
      BY DEF CertFiles!Matches, CertFiles!Goal, Removing
    <3>3. QED
      BY <3>1, <3>2
  <2>3. CertRollback'
    BY <1>7, <2>1 DEF CertRollback, Undoing
  <2>4. QED
    BY <2>1, <2>2, <2>3 DEF CertInv
<1>8. CASE host.kind # "ca" /\ CertFiles!Step(start) /\ UNCHANGED faults
  <2>1. start.todo \in Seq(CertSteps)
        /\ (~host.present => \A i \in 1..Len(start.todo) : start.todo[i] # "ca")
    BY <1>1, <1>2, <1>8, PlanFacts
  <2>2. ~Removing /\ ~(host'.file.ca = "none" /\ start.orig.file.ca # "none")
    BY <1>2, <1>3, <1>8 DEF Removing
  <2>3. start.touched \in Seq(CertFiles!Files) /\ start.seen = start.orig.file
        /\ {"seen", "todo", "touched", "orig"} \subseteq DOMAIN start
    BY <1>1, <1>2
  <2>4. QED
    BY <1>1, <1>3, <1>8, <2>1, <2>2, <2>3, CertAdvances
<1>9. QED
  BY <1>4, <1>5, <1>6, <1>7, <1>8

(* The rename that publishes a file (or the rm that takes the CA away):    *)
(* the only command that changes a file on the way forward.                *)
LEMMA CertWrites == ASSUME CertInv, CertFiles!Publish PROVE CertInv'
<1> DEFINE now == CertFiles!Now
           goal == CertFiles!Goal(now)
           work == CertFiles!Replaced(now, goal, {ctl.seen[now]})
           c == [ctl EXCEPT !.todo = Tail(@)]
<1>1. /\ pc = "publish" /\ Forward /\ now \in CertFiles!Files /\ now = Head(ctl.todo) /\ ctl.todo # <<>>
      /\ ctl.touched # <<>> /\ Head(ctl.touched) = now
  BY DEF CertInv, CertPlace, Forward, CertFiles!Publish, CertFiles!Now
<1>2. /\ ~CaGone /\ ctl.seen = ctl.orig.file /\ ctl.todo \in Seq(CertSteps) /\ ctl.touched \in Seq(CertFiles!Files)
      /\ {"seen", "todo", "touched", "orig"} \subseteq DOMAIN ctl
      /\ Removing => Remains(ctl.todo)
      /\ ~host.present /\ host.kind # "ca" => \A i \in 1..Len(ctl.todo) : ctl.todo[i] # "ca"
  BY <1>1, CertForward
<1>3. /\ DOMAIN work = DOMAIN host /\ work.kind = host.kind /\ work.present = host.present /\ work.live = host.live
      /\ DOMAIN work.file = DOMAIN host.file
      /\ \A f \in CertFiles!Files : work.file[f] = IF f = now THEN goal ELSE host.file[f]
  BY <1>1 DEF CertInv, CertTypes, CertFiles!Replaced
<1>4. CertTypes /\ host.kind \in {"ca", "user"}
  BY DEF CertInv, CertTypes
<1>5. goal = IF host.present THEN "want" ELSE IF now = "conf" THEN "bare" ELSE "none"
  BY DEF CertFiles!Goal
<1>6. \/ host' = work /\ UNCHANGED faults /\ goal = "none" /\ CertFiles!Step(c)
      \/ host' = work /\ UNCHANGED faults /\ goal # "none" /\ pc' = "confirm" /\ ctl' = ctl
      \/ host' \in {host, work} /\ faults' = faults + 1 /\ pc' = "undo" /\ ctl' = ctl
      \/ host' \in {host, work} /\ faults' = faults + 1 /\ pc' = "done" /\ ctl' = [ctl EXCEPT !.result = "failed"]
  BY DEF CertFiles!Publish, CertFiles!Command, CertFiles!Advance, CertFiles!Goto, CertFiles!Undo, CertFiles!Return, CertFiles!Fault
<1> HIDE DEF now, goal, work
<1>7. Removing => /\ now \in {"conf", "ca"} /\ (now = "conf" => Left(ctl.todo) = 4) /\ (now = "ca" => Left(ctl.todo) = 1)
  BY <1>1, <1>2, RemainsFacts DEF CertFiles!Files
<1>8. ~host.present /\ host.kind # "ca" => now # "ca"
  BY <1>1, <1>2
<1>9. work.file.ca = "none" /\ ctl.orig.file.ca # "none" => Removing /\ now = "ca"
  BY <1>2, <1>3, <1>4, <1>5, <1>8 DEF CaGone, Removing, CertFiles!Files
<1>10. Removing => /\ Left(ctl.todo) <= 3 => host.file.conf # "want"
                   /\ Left(ctl.todo) <= 1 => host.live # "want"
                   /\ faults = 0 => /\ ctl.todo # <<>> => host.file.ca = ctl.seen.ca
                                    /\ Left(ctl.todo) <= 3 => host.file.conf = "bare"
  BY <1>1 DEF CertInv, CertRemoval
<1>11. CASE host' = work /\ UNCHANGED faults /\ goal = "none" /\ CertFiles!Step(c)
  <2>1. /\ c.todo = Tail(ctl.todo) /\ c.todo \in Seq(CertSteps) /\ c.seen = ctl.seen /\ c.orig = ctl.orig
        /\ c.touched = ctl.touched /\ {"seen", "todo", "touched", "orig"} \subseteq DOMAIN c
    BY <1>1, <1>2
  <2> HIDE DEF c
  <2>2. Removing => /\ now = "ca" /\ Left(ctl.todo) = 1 /\ Remains(c.todo) /\ Left(c.todo) = 0 /\ c.todo = <<>>
    <3> SUFFICES ASSUME Removing
                 PROVE  now = "ca" /\ Left(ctl.todo) = 1 /\ Remains(c.todo) /\ Left(c.todo) = 0 /\ c.todo = <<>>
      OBVIOUS
    <3>1. now = "ca" /\ Left(ctl.todo) = 1
      BY <1>5, <1>7, <1>11
    <3>2. Remains(Tail(ctl.todo)) /\ Left(Tail(ctl.todo)) = Left(ctl.todo) - 1
      BY <1>1, <1>2, RemainsFacts
    <3>3. Len(c.todo) = 0
      BY <2>1, <3>1, <3>2 DEF Left
    <3>4. c.todo = <<>>
      BY <2>1, <3>3
    <3>5. QED
      BY <2>1, <3>1, <3>2, <3>3, <3>4 DEF Left
  <2>3. ~host.present => IF host.kind = "ca" THEN Remains(c.todo) ELSE \A i \in 1..Len(c.todo) : c.todo[i] # "ca"
    BY <1>1, <1>2, <2>1, <2>2 DEF Removing
  <2>4. host'.file.ca = "none" /\ c.orig.file.ca # "none" => Removing /\ c.todo = <<>>
    BY <1>9, <1>11, <2>1, <2>2
  <2>5. Removing => host'.file.conf = host.file.conf
    BY <1>3, <1>11, <2>2 DEF CertFiles!Files
  <2>6. Removing => /\ host.file.conf # "want" /\ host'.live # "want"
                    /\ faults = 0 => host.file.conf = "bare"
    <3> SUFFICES ASSUME Removing PROVE host.file.conf # "want" /\ host'.live # "want" /\ (faults = 0 => host.file.conf = "bare")
      OBVIOUS
    <3>1. Left(ctl.todo) <= 3 /\ Left(ctl.todo) <= 1
      BY <2>2
    <3>2. QED
      BY <1>3, <1>10, <1>11, <3>1
  <2>7. Removing => ~(Left(c.todo) = 4) /\ c.todo = <<>>
    BY <2>2
  <2>8. Removing => /\ host'.file.conf = host.file.conf
                    /\ Left(c.todo) <= 3 => host.file.conf # "want"
                    /\ Left(c.todo) <= 1 => host'.live # "want"
                    /\ faults = 0 => /\ c.todo # <<>> => host'.file.ca = c.seen.ca
                                     /\ Left(c.todo) = 4 => host.file.conf = c.seen.conf
                                     /\ Left(c.todo) <= 3 => host.file.conf = "bare"
    BY <2>5, <2>6, <2>7
  <2>9. /\ c.touched \in Seq(CertFiles!Files) /\ c.seen = c.orig.file
        /\ DOMAIN host' = DOMAIN host /\ DOMAIN host'.file = DOMAIN host.file /\ host'.kind = host.kind /\ host'.present = host.present
    BY <1>2, <1>3, <1>11, <2>1
  <2>10. QED
    BY <1>4, <1>11, <2>1, <2>3, <2>4, <2>8, <2>9, CertAdvances
<1>12. CASE host' = work /\ UNCHANGED faults /\ goal # "none" /\ pc' = "confirm" /\ ctl' = ctl
  <2>1. Removing => now = "conf" /\ Left(ctl.todo) = 4
    BY <1>5, <1>7, <1>12 DEF Removing
  <2>2. ~CaGone'
    BY <1>9, <1>12, <2>1 DEF CaGone
  <2>3. CertTypes'
    BY <1>3, <1>4, <1>12, <1>2 DEF CertTypes
  <2>4. CertPlace'
    BY <1>1, <1>2, <1>3, <1>12, <2>2 DEF CertPlace, Undoing, Removing, CertInv, CertFiles!Now
  <2>5. CertRemoval'
    <3> SUFFICES ASSUME Removing
                 PROVE  /\ host'.file.conf = "bare" /\ ~(Left(ctl.todo) <= 1) /\ CertFiles!Now' = "conf"
                        /\ faults = 0 => host'.file.ca = ctl.seen.ca
      BY <1>3, <1>12, <2>2 DEF CertRemoval, Removing
    <3>1. host'.file.conf = "bare" /\ host'.file.ca = host.file.ca
      BY <1>3, <1>5, <1>12, <2>1 DEF Removing, CertFiles!Files
    <3>2. ~(Left(ctl.todo) <= 1)
      BY <2>1
    <3>3. CertFiles!Now' = "conf"
      BY <1>12, <2>1 DEF CertFiles!Now, now
    <3>4. QED
      BY <1>1, <1>10, <3>1, <3>2, <3>3
  <2>6. CertRollback'
    BY <1>12, <2>2 DEF CertRollback, Undoing
  <2>7. QED
    BY <2>3, <2>4, <2>5, <2>6 DEF CertInv
<1>13. ASSUME host' \in {host, work}, faults' = faults + 1, DOMAIN ctl' = DOMAIN ctl, ctl'.orig = ctl.orig, ctl'.seen = ctl.seen,
              ctl'.touched = ctl.touched, pc' \in {"undo", "done"}
       PROVE  CertInv'
  <2>1. CaGone' => Removing /\ now = "ca" /\ host'.live # "want"
    <3> SUFFICES ASSUME CaGone' PROVE Removing /\ now = "ca" /\ host'.live # "want"
      OBVIOUS
    <3>1. host' = work
      BY <1>2, <1>13 DEF CaGone
    <3>2. Removing /\ now = "ca"
      BY <1>9, <1>13, <3>1 DEF CaGone
    <3>3. Left(ctl.todo) <= 1
      BY <1>7, <3>2
    <3>4. QED
      BY <1>3, <1>10, <3>1, <3>2, <3>3
  <2>2. host'.kind = host.kind /\ host'.present = host.present /\ DOMAIN host' = DOMAIN host /\ DOMAIN host'.file = DOMAIN host.file
    BY <1>3, <1>13
  <2>3. ~Forward'
    BY <1>13 DEF Forward
  <2>4. CertTypes'
    BY <1>4, <1>13, <2>2, <2>3 DEF CertTypes
  <2>5. CertPlace' /\ CertRemoval'
    BY <1>2, <1>13, <2>1, <2>2, <2>3 DEF CertPlace, CertRemoval, Removing, Undoing
  <2>6. faults' > 0
    BY <1>4, <1>13 DEF CertTypes
  <2>7. Len(ctl.touched) \in Nat \ {0} /\ ctl.touched[1] = now
    BY <1>1, <1>2
  <2>8. CaGone' => \E i \in 1..Len(ctl'.touched) : ctl'.touched[i] = "ca"
    BY <1>13, <2>1, <2>7
  <2>9. CertRollback'
    BY <1>13, <2>1, <2>6, <2>8 DEF CertRollback, Undoing
  <2>10. QED
    BY <2>4, <2>5, <2>9 DEF CertInv
<1>14. QED
  BY <1>2, <1>6, <1>11, <1>12, <1>13

(* The comparison after the rename: what was published is there.           *)
LEMMA CertConfirms == ASSUME CertInv, CertFiles!Confirm PROVE CertInv'
<1> DEFINE c == [ctl EXCEPT !.todo = Tail(@)]
<1>1. pc = "confirm" /\ Forward /\ ctl.todo # <<>> /\ CertFiles!Now = Head(ctl.todo) /\ CertTypes
  BY DEF CertInv, CertPlace, Forward, CertFiles!Confirm, CertFiles!Now
<1>2. /\ ~CaGone /\ ctl.seen = ctl.orig.file /\ ctl.todo \in Seq(CertSteps) /\ ctl.touched \in Seq(CertFiles!Files)
      /\ {"seen", "todo", "touched", "orig"} \subseteq DOMAIN ctl
      /\ Removing => Remains(ctl.todo)
      /\ ~host.present /\ host.kind # "ca" => \A i \in 1..Len(ctl.todo) : ctl.todo[i] # "ca"
  BY <1>1, CertForward
<1>3. Removing => /\ CertFiles!Now = "conf" /\ Left(ctl.todo) = 4 /\ CertFiles!Goal(CertFiles!Now) = "bare"
                  /\ faults = 0 => host.file.ca = ctl.seen.ca /\ host.file.conf = "bare"
  <2> SUFFICES ASSUME Removing
               PROVE  /\ CertFiles!Now = "conf" /\ Left(ctl.todo) = 4 /\ CertFiles!Goal(CertFiles!Now) = "bare"
                      /\ faults = 0 => host.file.ca = ctl.seen.ca /\ host.file.conf = "bare"
    OBVIOUS
  <2>1. CertFiles!Now = "conf"
    BY <1>1 DEF CertInv, CertRemoval
  <2>2. Left(ctl.todo) = 4
    BY <1>1, <1>2, <2>1, RemainsFacts
  <2>3. CertFiles!Goal(CertFiles!Now) = "bare"
    BY <2>1 DEF CertFiles!Goal, Removing
  <2>4. QED
    BY <1>1, <2>1, <2>2, <2>3 DEF CertInv, CertRemoval
<1>4. FilesAlone
  BY DEF CertFiles!Confirm, CertFiles!Command, FilesAlone
<1>5. \/ UNCHANGED faults /\ host.file[CertFiles!Now] = CertFiles!Goal(CertFiles!Now) /\ CertFiles!Step(c)
      \/ UNCHANGED faults /\ host.file[CertFiles!Now] # CertFiles!Goal(CertFiles!Now) /\ pc' = "undo" /\ ctl' = ctl
      \/ faults' = faults + 1 /\ pc' = "undo" /\ ctl' = ctl
      \/ faults' = faults + 1 /\ pc' = "done" /\ ctl' = [ctl EXCEPT !.result = "failed"]
  BY DEF CertFiles!Confirm, CertFiles!Command, CertFiles!Advance, CertFiles!Goto, CertFiles!Undo, CertFiles!Return, CertFiles!Fault
<1>6. CASE UNCHANGED faults /\ host.file[CertFiles!Now] = CertFiles!Goal(CertFiles!Now) /\ CertFiles!Step(c)
  <2>1. /\ c.todo = Tail(ctl.todo) /\ c.todo \in Seq(CertSteps) /\ c.seen = ctl.seen /\ c.orig = ctl.orig
        /\ c.touched = ctl.touched /\ {"seen", "todo", "touched", "orig"} \subseteq DOMAIN c
    BY <1>1, <1>2
  <2> HIDE DEF c
  <2>2. Removing => Remains(c.todo) /\ Left(c.todo) = 3 /\ host.file.conf = "bare"
    BY <1>1, <1>2, <1>3, <1>6, <2>1, RemainsFacts
  <2>3. ~host.present => IF host.kind = "ca" THEN Remains(c.todo) ELSE \A i \in 1..Len(c.todo) : c.todo[i] # "ca"
    BY <1>1, <1>2, <2>1, <2>2 DEF Removing
  <2>4. ~(host'.file.ca = "none" /\ c.orig.file.ca # "none")
    BY <1>2, <1>4, <2>1 DEF CaGone, FilesAlone
  <2>5. Removing => /\ host'.file.conf = host.file.conf
                    /\ Left(c.todo) <= 3 => host.file.conf # "want"
                    /\ Left(c.todo) <= 1 => host'.live # "want"
                    /\ faults = 0 => /\ c.todo # <<>> => host'.file.ca = c.seen.ca
                                     /\ Left(c.todo) = 4 => host.file.conf = c.seen.conf
                                     /\ Left(c.todo) <= 3 => host.file.conf = "bare"
    BY <1>3, <1>4, <2>1, <2>2 DEF FilesAlone
  <2>6. QED
    BY <1>1, <1>2, <1>4, <1>6, <2>1, <2>3, <2>4, <2>5, CertAdvances DEF FilesAlone
<1>7. ASSUME DOMAIN ctl' = DOMAIN ctl, ctl'.orig = ctl.orig, ctl'.seen = ctl.seen, ctl'.touched = ctl.touched, pc' \in {"undo", "done"},
             faults' = faults + 1 \/ (faults' = faults /\ (Removing => faults > 0))
      PROVE  CertInv'
  BY <1>1, <1>4, <1>7, CertFails DEF FilesAlone
<1>8. host.file[CertFiles!Now] # CertFiles!Goal(CertFiles!Now) => (Removing => faults > 0)
  BY <1>1, <1>3 DEF CertTypes
<1>9. QED
  BY <1>2, <1>5, <1>6, <1>7, <1>8

(* The reload of sshd: with the configuration written first, what it       *)
(* loads trusts no CA that is about to go.                                 *)
LEMMA CertReloads == ASSUME CertInv, CertFiles!Reload PROVE CertInv'
<1> DEFINE work == [host EXCEPT !.live = host.file.conf]
           c == [ctl EXCEPT !.loaded = TRUE, !.todo = Tail(@)]
<1>1. pc = "reload" /\ Forward /\ ctl.todo # <<>> /\ Head(ctl.todo) = "reload" /\ CertTypes
  BY DEF CertInv, CertPlace, Forward, CertFiles!Reload, CertFiles!Now
<1>2. /\ ~CaGone /\ ctl.seen = ctl.orig.file /\ ctl.todo \in Seq(CertSteps) /\ ctl.touched \in Seq(CertFiles!Files)
      /\ {"seen", "todo", "touched", "orig"} \subseteq DOMAIN ctl
      /\ Removing => Remains(ctl.todo)
      /\ ~host.present /\ host.kind # "ca" => \A i \in 1..Len(ctl.todo) : ctl.todo[i] # "ca"
  BY <1>1, CertForward
<1>3. /\ DOMAIN work = DOMAIN host /\ work.kind = host.kind /\ work.present = host.present /\ work.file = host.file
      /\ work.live = host.file.conf
  BY <1>1 DEF CertTypes
<1>4. \/ host' = work /\ UNCHANGED faults /\ CertFiles!Step(c)
      \/ host' \in {host, work} /\ faults' = faults + 1 /\ pc' = "undo" /\ ctl' = [ctl EXCEPT !.loaded = TRUE]
      \/ host' \in {host, work} /\ faults' = faults + 1 /\ pc' = "done" /\ ctl' = [ctl EXCEPT !.result = "failed"]
  <2>1. CertFiles!Step([[ctl EXCEPT !.loaded = TRUE] EXCEPT !.todo = Tail(@)]) => CertFiles!Step(c)
    <3>1. [[ctl EXCEPT !.loaded = TRUE] EXCEPT !.todo = Tail(@)] = c
      OBVIOUS
    <3>2. QED
      BY <3>1
  <2>2. QED
    BY <2>1 DEF CertFiles!Reload, CertFiles!Return, CertFiles!Fault
<1> HIDE DEF work
<1>5. CASE host' = work /\ UNCHANGED faults /\ CertFiles!Step(c)
  <2>1. /\ c.todo = Tail(ctl.todo) /\ c.todo \in Seq(CertSteps) /\ c.seen = ctl.seen /\ c.orig = ctl.orig
        /\ c.touched = ctl.touched /\ {"seen", "todo", "touched", "orig"} \subseteq DOMAIN c
    BY <1>1, <1>2
  <2> HIDE DEF c
  <2>2. Removing => Remains(c.todo) /\ Left(c.todo) = 1 /\ Left(ctl.todo) = 2
    BY <1>1, <1>2, <2>1, RemainsFacts
  <2>3. ~host.present => IF host.kind = "ca" THEN Remains(c.todo) ELSE \A i \in 1..Len(c.todo) : c.todo[i] # "ca"
    BY <1>1, <1>2, <2>1, <2>2 DEF Removing
  <2>4. ~(host'.file.ca = "none" /\ c.orig.file.ca # "none")
    BY <1>2, <1>3, <1>5, <2>1 DEF CaGone
  <2>5. Removing => /\ host.file.conf # "want"
                    /\ faults = 0 => host.file.ca = ctl.seen.ca /\ host.file.conf = "bare"
    <3> SUFFICES ASSUME Removing
                 PROVE  /\ host.file.conf # "want"
                        /\ faults = 0 => host.file.ca = ctl.seen.ca /\ host.file.conf = "bare"
      OBVIOUS
    <3>1. Left(ctl.todo) <= 3
      BY <2>2
    <3>2. QED
      BY <1>1, <3>1 DEF CertInv, CertRemoval
  <2>6. Removing => /\ host'.file.conf = host.file.conf
                    /\ Left(c.todo) <= 3 => host.file.conf # "want"
                    /\ Left(c.todo) <= 1 => host'.live # "want"
                    /\ faults = 0 => /\ c.todo # <<>> => host'.file.ca = c.seen.ca
                                     /\ Left(c.todo) = 4 => host.file.conf = c.seen.conf
                                     /\ Left(c.todo) <= 3 => host.file.conf = "bare"
    BY <1>3, <1>5, <2>1, <2>2, <2>5
  <2>7. /\ DOMAIN host' = DOMAIN host /\ DOMAIN host'.file = DOMAIN host.file /\ host'.kind = host.kind /\ host'.present = host.present
    BY <1>3, <1>5
  <2>8. QED
    BY <1>1, <1>2, <1>5, <2>1, <2>3, <2>4, <2>6, <2>7, CertAdvances
<1>6. ASSUME host' \in {host, work}, DOMAIN ctl' = DOMAIN ctl, ctl'.orig = ctl.orig, ctl'.seen = ctl.seen,
             ctl'.touched = ctl.touched, pc' \in {"undo", "done"}, faults' = faults + 1
      PROVE  CertInv'
  BY <1>1, <1>3, <1>6, CertFails
<1>7. QED
  BY <1>2, <1>4, <1>5, <1>6

(* A step of the rollback, by what it does to the CA's file, to what is    *)
(* left to put back, and to what sshd has loaded.                          *)
LEMMA CertUndoes ==
  ASSUME CertInv, Undoing, pc' \in {"undo", "put back", "undo tidy", "undo parent", "undo reload", "done"},
         DOMAIN ctl' = DOMAIN ctl, ctl'.seen = ctl.seen, ctl'.orig = ctl.orig, ctl'.touched \in Seq(CertFiles!Files),
         DOMAIN host' = DOMAIN host, DOMAIN host'.file = DOMAIN host.file, host'.kind = host.kind, host'.present = host.present,
         faults' = faults \/ faults' = faults + 1,
         pc' = "put back" => ctl'.touched # <<>>,
         CaGone' => Removing,
         faults' <= 1 /\ CaGone' =>
            /\ host'.live # "want"
            /\ pc' \in {"undo", "put back"} /\ \E i \in 1..Len(ctl'.touched) : ctl'.touched[i] = "ca"
  PROVE  CertInv'
<1>1. ~Forward' /\ (Removing' <=> Removing)
  BY DEF Forward, Removing
<1>0. CertTypes /\ faults \in Nat /\ (Removing => faults > 0)
  BY DEF CertInv, CertTypes, CertRollback
<1>2. CertTypes'
  <2>1. faults' \in Nat
    BY <1>0, FaultsCount
  <2>2. {"kind", "present", "file", "live", "parent", "tmp", "late", "lost"} \subseteq DOMAIN host'
        /\ DOMAIN host'.file = CertFiles!Files /\ host'.kind \in {"ca", "user"}
    BY <1>0 DEF CertTypes
  <2>3. {"seen", "todo", "touched", "orig"} \subseteq DOMAIN ctl'
    BY <1>0 DEF CertTypes
  <2>4. QED
    BY <1>1, <2>1, <2>2, <2>3 DEF CertTypes
<1>3. CertPlace'
  BY <1>1 DEF CertInv, CertPlace
<1>4. CertRemoval'
  BY <1>1 DEF CertRemoval
<1>5. Removing => faults' > 0
  BY <1>0, FaultsCount
<1>6. CertRollback'
  BY <1>1, <1>5 DEF CertRollback
<1>7. QED
  BY <1>2, <1>3, <1>4, <1>6 DEF CertInv

(* With one fault or none a CA that is gone has yet to be put back.        *)
LEMMA CertUndoing ==
  ASSUME CertInv, Undoing
  PROVE  /\ CertTypes /\ ctl.seen = ctl.orig.file /\ ctl.touched \in Seq(CertFiles!Files) /\ faults \in Nat
         /\ {"seen", "todo", "touched", "orig"} \subseteq DOMAIN ctl
         /\ CaGone => Removing /\ faults > 0
         /\ faults <= 1 /\ CaGone =>
               /\ host.live # "want"
               /\ pc \in {"undo", "put back"} /\ \E i \in 1..Len(ctl.touched) : ctl.touched[i] = "ca"
BY DEF CertInv, CertTypes, CertPlace, CertRollback

(* What is not at the head of a sequence is in its tail.                   *)
LEMMA TailFacts ==
  ASSUME NEW t \in Seq(CertFiles!Files), t # <<>>
  PROVE  /\ Tail(t) \in Seq(CertFiles!Files) /\ Head(t) \in CertFiles!Files
         /\ \A i \in 1..Len(t) : t[i] # Head(t) => i - 1 \in 1..Len(Tail(t)) /\ Tail(t)[i - 1] = t[i]
OBVIOUS

(* The rollback's look at the last file that was touched: a file that      *)
(* somebody has changed since is left, for which a fault was taken.        *)
LEMMA CertUndoesFile == ASSUME CertInv, CertFiles!UndoFile PROVE CertInv'
<1>1. Undoing /\ pc = "undo"
  BY DEF Undoing, CertFiles!UndoFile
<1>2. /\ CertTypes /\ ctl.seen = ctl.orig.file /\ ctl.touched \in Seq(CertFiles!Files) /\ faults \in Nat
      /\ {"seen", "todo", "touched", "orig"} \subseteq DOMAIN ctl
      /\ CaGone => Removing /\ faults > 0
      /\ faults <= 1 /\ CaGone => host.live # "want" /\ \E i \in 1..Len(ctl.touched) : ctl.touched[i] = "ca"
  BY <1>1, CertUndoing
<1>3. host' = host
  BY DEF CertFiles!UndoFile, CertFiles!Locally
<1>4. CASE ctl.touched = <<>>
  <2>1. ctl' = ctl /\ pc' = "undo tidy" /\ faults' = faults
    BY <1>4 DEF CertFiles!UndoFile, CertFiles!Locally, CertFiles!Goto
  <2>2. CaGone' <=> CaGone
    BY <1>3, <2>1 DEF CaGone
  <2>3. ~(faults <= 1 /\ CaGone)
    BY <1>2, <1>4
  <2>4. QED
    BY <1>1, <1>2, <1>3, <2>1, <2>2, <2>3, CertUndoes
<1>5. CASE ctl.touched # <<>>
  <2> DEFINE last == Head(ctl.touched)
             rest == Tail(ctl.touched)
  <2>1. /\ rest \in Seq(CertFiles!Files) /\ last \in CertFiles!Files
        /\ \A i \in 1..Len(ctl.touched) : ctl.touched[i] # last => i - 1 \in 1..Len(rest) /\ rest[i - 1] = ctl.touched[i]
    BY <1>2, <1>5, TailFacts
  <2>2. \/ ctl' = ctl /\ pc' = "put back" /\ faults' = faults
        \/ /\ DOMAIN ctl' = DOMAIN ctl /\ ctl'.seen = ctl.seen /\ ctl'.orig = ctl.orig /\ ctl'.touched = rest /\ pc' = "undo"
           /\ \/ faults' = faults /\ host.file[last] = ctl.seen[last]
              \/ faults' = faults /\ host.file[last] \notin {ctl.seen[last], CertFiles!Goal(last)}
              \/ faults' = faults + 1
    <3>1. \/ ctl' = ctl /\ pc' = "put back" /\ faults' = faults
          \/ ctl' = [ctl EXCEPT !.touched = rest] /\ pc' = "undo" /\ faults' = faults /\ host.file[last] = ctl.seen[last]
          \/ /\ ctl' = [ctl EXCEPT !.kept = @ \cup {last}, !.bad = TRUE, !.touched = rest] /\ pc' = "undo"
             /\ \/ faults' = faults /\ host.file[last] \notin {ctl.seen[last], CertFiles!Goal(last)}
                \/ faults' = faults + 1
      BY <1>5 DEF CertFiles!UndoFile, CertFiles!Last, CertFiles!Restored, CertFiles!Retained, CertFiles!Goto, CertFiles!Fault
    <3> HIDE DEF last, rest
    <3>2. QED
      BY <1>2, <3>1
  <2> HIDE DEF last, rest
  <2>3. CASE ctl' = ctl /\ pc' = "put back" /\ faults' = faults
    <3>1. CaGone' <=> CaGone
      BY <1>3, <2>3 DEF CaGone
    <3>2. QED
      BY <1>1, <1>2, <1>3, <1>5, <2>3, <3>1, CertUndoes
  <2>4. CASE /\ DOMAIN ctl' = DOMAIN ctl /\ ctl'.seen = ctl.seen /\ ctl'.orig = ctl.orig /\ ctl'.touched = rest /\ pc' = "undo"
             /\ \/ faults' = faults /\ host.file[last] = ctl.seen[last]
                \/ faults' = faults /\ host.file[last] \notin {ctl.seen[last], CertFiles!Goal(last)}
                \/ faults' = faults + 1
    <3>1. CaGone' <=> CaGone
      BY <1>3, <2>4 DEF CaGone
    <3>2. ASSUME CaGone, faults' <= 1 PROVE last # "ca"
      <4>1. Removing /\ faults' = faults
        BY <1>2, <2>4, <3>2
      <4>2. host.file.ca = CertFiles!Goal("ca") /\ host.file.ca # ctl.seen.ca
        BY <1>2, <3>2, <4>1 DEF CaGone, Removing, CertFiles!Goal
      <4>3. last = "ca" => faults' # faults
        BY <1>2, <2>4, <4>2
      <4>4. QED
        BY <4>1, <4>3
    <3>3. ASSUME CaGone, faults' <= 1 PROVE host.live # "want" /\ \E i \in 1..Len(ctl'.touched) : ctl'.touched[i] = "ca"
      <4>1. faults <= 1
        BY <1>2, <2>4, <3>3
      <4>2. PICK i \in 1..Len(ctl.touched) : ctl.touched[i] = "ca"
        BY <1>2, <3>3, <4>1
      <4>3. i - 1 \in 1..Len(rest) /\ rest[i - 1] = "ca"
        BY <2>1, <3>2, <3>3, <4>2
      <4>4. QED
        BY <1>2, <2>4, <3>3, <4>1, <4>3
    <3>4. QED
      BY <1>1, <1>2, <1>3, <2>1, <2>4, <3>1, <3>3, CertUndoes
  <2>5. QED
    BY <2>2, <2>3, <2>4
<1>6. QED
  BY <1>4, <1>5

(* The rollback puts the original file back, the CA's among them.          *)
LEMMA CertPutsBack == ASSUME CertInv, CertFiles!PutBack PROVE CertInv'
<1> DEFINE last == Head(ctl.touched)
           rest == Tail(ctl.touched)
           work == CertFiles!Replaced(last, ctl.seen[last], {CertFiles!Goal(last), ctl.seen[last]})
<1>1. Undoing /\ pc = "put back" /\ ctl.touched # <<>>
  BY DEF CertInv, CertPlace, Undoing, CertFiles!PutBack
<1>2. /\ CertTypes /\ ctl.seen = ctl.orig.file /\ ctl.touched \in Seq(CertFiles!Files) /\ faults \in Nat
      /\ {"seen", "todo", "touched", "orig"} \subseteq DOMAIN ctl
      /\ CaGone => Removing /\ faults > 0
      /\ faults <= 1 /\ CaGone => host.live # "want" /\ \E i \in 1..Len(ctl.touched) : ctl.touched[i] = "ca"
  BY <1>1, CertUndoing
<1>3. /\ rest \in Seq(CertFiles!Files) /\ last \in CertFiles!Files
      /\ \A i \in 1..Len(ctl.touched) : ctl.touched[i] # last => i - 1 \in 1..Len(rest) /\ rest[i - 1] = ctl.touched[i]
  BY <1>1, <1>2, TailFacts
<1>4. /\ DOMAIN work = DOMAIN host /\ work.kind = host.kind /\ work.present = host.present /\ work.live = host.live
      /\ DOMAIN work.file = DOMAIN host.file
      /\ \A f \in CertFiles!Files : work.file[f] = IF f = last THEN ctl.seen[last] ELSE host.file[f]
  BY <1>2 DEF CertTypes, CertFiles!Replaced
<1>5. \/ host' = work /\ ctl' = [ctl EXCEPT !.touched = rest] /\ pc' = "undo" /\ faults' = faults
      \/ /\ host' \in {host, work} /\ ctl' = [ctl EXCEPT !.kept = @ \cup {last}, !.bad = TRUE, !.touched = rest] /\ pc' = "undo"
         /\ faults' = faults + 1
  BY DEF CertFiles!PutBack, CertFiles!Last, CertFiles!Restored, CertFiles!Retained, CertFiles!Fault
<1> HIDE DEF last, rest, work
<1>6. /\ DOMAIN ctl' = DOMAIN ctl /\ ctl'.seen = ctl.seen /\ ctl'.orig = ctl.orig /\ ctl'.touched = rest /\ pc' = "undo"
      /\ host' \in {host, work} /\ (faults' = faults + 1 \/ (faults' = faults /\ host' = work))
  BY <1>2, <1>5
<1>7. work.file.ca = "none" /\ ctl.orig.file.ca # "none" => CaGone /\ last # "ca"
  BY <1>2, <1>4 DEF CaGone, CertFiles!Files
<1>8. CaGone' => CaGone
  BY <1>6, <1>7 DEF CaGone
<1>9. ASSUME CaGone', faults' <= 1 PROVE host'.live # "want" /\ \E i \in 1..Len(ctl'.touched) : ctl'.touched[i] = "ca"
  <2>1. faults <= 1 /\ faults' = faults
    BY <1>2, <1>6, <1>8, <1>9
  <2>2. last # "ca"
    <3>1. host' = work
      BY <1>2, <1>6, <2>1
    <3>2. QED
      BY <1>6, <1>7, <1>9, <3>1 DEF CaGone
  <2>3. PICK i \in 1..Len(ctl.touched) : ctl.touched[i] = "ca"
    BY <1>2, <1>8, <1>9, <2>1
  <2>4. i - 1 \in 1..Len(rest) /\ rest[i - 1] = "ca"
    BY <1>3, <2>2, <2>3
  <2>5. QED
    BY <1>2, <1>4, <1>6, <1>8, <1>9, <2>1, <2>4
<1>10. DOMAIN host' = DOMAIN host /\ DOMAIN host'.file = DOMAIN host.file /\ host'.kind = host.kind /\ host'.present = host.present
  BY <1>4, <1>6
<1>11. CaGone' => Removing
  BY <1>2, <1>8
<1>12. QED
  BY <1>1, <1>3, <1>6, <1>9, <1>10, <1>11, CertUndoes

(* The commands on one file, up to the rename.                             *)
FileCommand == CertFiles!Parent \/ CertFiles!Stage \/ CertFiles!BackUp \/ CertFiles!AssertOriginal

(* What such a command leaves of the call, whether it goes on or fails.    *)
CallAlone == DOMAIN ctl' = DOMAIN ctl /\ ctl'.orig = ctl.orig /\ ctl'.seen = ctl.seen

(* A file that is not as it was seen has been edited by somebody else.     *)
LEMMA CertForeign ==
  ASSUME CertInv, pc \in {"parent", "stage", "back up", "assert"}, host.file[CertFiles!Now] # ctl.seen[CertFiles!Now], Removing
  PROVE  faults > 0
<1> DEFINE now == CertFiles!Now
<1>0. host.file[now] # ctl.seen[now]
  OBVIOUS
<1>1. Forward /\ pc # "cleanup" /\ pc # "confirm" /\ ctl.todo # <<>> /\ now \in CertFiles!Files /\ now = Head(ctl.todo)
  BY DEF Forward, CertInv, CertPlace, CertFiles!Now
<1> HIDE DEF now
<1>2. ctl.todo \in Seq(CertSteps) /\ Remains(ctl.todo)
  BY <1>1, CertForward
<1>3. now \in {"conf", "ca"} /\ (now = "conf" => Left(ctl.todo) = 4)
  BY <1>1, <1>2, FilesOfRemoval
<1>4. faults \in Nat
  BY DEF CertInv, CertTypes
<1>5. faults # 0
  BY <1>0, <1>1, <1>3 DEF CertInv, CertRemoval
<1>6. QED
  BY <1>4, <1>5, FaultsCount

(* prepareParents, stage, back up and assert change no file.               *)
LEMMA CertCommands == ASSUME CertInv, FileCommand PROVE CertInv'
<1>1. pc \in {"parent", "stage", "back up", "assert"} /\ Forward /\ pc # "cleanup"
  BY DEF FileCommand, Forward, CertFiles!Parent, CertFiles!Stage, CertFiles!BackUp, CertFiles!AssertOriginal
<1>2. {"kind", "present", "file", "live"} \subseteq DOMAIN host /\ {"seen", "todo", "touched", "orig"} \subseteq DOMAIN ctl
  BY DEF CertInv, CertTypes
<1> DEFINE goesOn == /\ pc' \in {"stage", "back up", "assert", "publish"} /\ ctl'.todo = ctl.todo
                     /\ ctl'.touched = ctl.touched \/ ctl'.touched = <<CertFiles!Now>> \o ctl.touched
                     /\ pc' = "publish" => ctl'.touched = <<CertFiles!Now>> \o ctl.touched
                     /\ faults' = faults
           failed == /\ pc' \in {"undo", "done"} /\ ctl'.touched = ctl.touched
                     /\ faults' = faults + 1 \/ (faults' = faults /\ host.file[CertFiles!Now] # ctl.seen[CertFiles!Now])
<1>3. CASE CertFiles!Parent
  <2> DEFINE m == ~host.parent /\ CertFiles!Now \in {"rev", "user"}
             dir == [host EXCEPT !.parent = @ \/ m]
             noted == [ctl EXCEPT !.made = @ \/ m]
             noted2 == [noted EXCEPT !.result = "failed"]
  <2>1. /\ DOMAIN dir = DOMAIN host /\ dir.file = host.file /\ dir.live = host.live /\ dir.kind = host.kind
        /\ dir.present = host.present
    BY <1>2
  <2>2. /\ DOMAIN noted = DOMAIN ctl /\ noted.orig = ctl.orig /\ noted.seen = ctl.seen /\ noted.touched = ctl.touched
        /\ noted.todo = ctl.todo
    BY <1>2
  <2>3. /\ DOMAIN noted2 = DOMAIN ctl /\ noted2.orig = ctl.orig /\ noted2.seen = ctl.seen /\ noted2.touched = ctl.touched
    BY <1>2
  <2>4. \/ host' = host /\ ctl' = ctl /\ pc' = "undo" /\ faults' = faults /\ host.file[CertFiles!Now] # ctl.seen[CertFiles!Now]
        \/ host' = host /\ faults' = faults + 1 /\ ctl' = ctl /\ pc' = "undo"
        \/ host' = host /\ faults' = faults + 1 /\ ctl' = [ctl EXCEPT !.result = "failed"] /\ pc' = "done"
        \/ host' = dir /\ ctl' = noted /\ pc' = "stage" /\ faults' = faults
        \/ host' \in {host, dir} /\ faults' = faults + 1 /\ ctl' = noted /\ pc' = "undo"
        \/ host' \in {host, dir} /\ faults' = faults + 1 /\ ctl' = noted2 /\ pc' = "done"
    <3>1. IF host.file[CertFiles!Now] # ctl.seen[CertFiles!Now] THEN CertFiles!Command(host, CertFiles!Undo)
          ELSE \/ host' = dir /\ ctl' = noted /\ pc' = "stage" /\ UNCHANGED faults
               \/ /\ host' \in {host, dir} /\ CertFiles!Fault
                  /\ (ctl' = noted /\ pc' = "undo") \/ (ctl' = noted2 /\ pc' = "done")
      BY <1>3 DEF CertFiles!Parent
    <3> HIDE DEF m, dir, noted, noted2
    <3>2. CASE host.file[CertFiles!Now] # ctl.seen[CertFiles!Now]
      <4>1. CertFiles!Command(host, CertFiles!Undo)
        BY <3>1, <3>2
      <4>2. QED
        BY <3>2, <4>1 DEF CertFiles!Command, CertFiles!Goto, CertFiles!Undo, CertFiles!Return, CertFiles!Fault
    <3>3. CASE ~(host.file[CertFiles!Now] # ctl.seen[CertFiles!Now])
      BY <3>1, <3>3 DEF CertFiles!Fault
    <3>4. QED
      BY <3>2, <3>3
  <2> HIDE DEF m, dir, noted, noted2
  <2>5. FilesAlone /\ CallAlone /\ (goesOn \/ failed)
    BY <1>2, <2>1, <2>2, <2>3, <2>4 DEF FilesAlone, CallAlone
  <2>6. QED
    BY <1>1, <2>5, CertGoesOn, CertFails, CertForeign DEF FilesAlone, CallAlone
<1>4. CASE CertFiles!Stage
  <2> DEFINE dir == [host EXCEPT !.tmp = @ \cup {CertFiles!Now}]
             noted == [ctl EXCEPT !.staged = @ \cup {CertFiles!Now}]
  <2>1. /\ DOMAIN dir = DOMAIN host /\ dir.file = host.file /\ dir.live = host.live /\ dir.kind = host.kind
        /\ dir.present = host.present
    BY <1>2
  <2>2. /\ DOMAIN noted = DOMAIN ctl /\ noted.orig = ctl.orig /\ noted.seen = ctl.seen /\ noted.touched = ctl.touched
        /\ noted.todo = ctl.todo
    BY <1>2
  <2>3. CertFiles!Command(dir, ctl' = noted /\ pc' = "back up")
    BY <1>4 DEF CertFiles!Stage
  <2> HIDE DEF dir, noted
  <2>4. \/ host' = dir /\ ctl' = noted /\ pc' = "back up" /\ faults' = faults
        \/ host' \in {host, dir} /\ faults' = faults + 1 /\ ctl' = ctl /\ pc' = "undo"
        \/ host' \in {host, dir} /\ faults' = faults + 1 /\ ctl' = [ctl EXCEPT !.result = "failed"] /\ pc' = "done"
    BY <2>3 DEF CertFiles!Command, CertFiles!Goto, CertFiles!Undo, CertFiles!Return, CertFiles!Fault
  <2>5. FilesAlone /\ CallAlone /\ (goesOn \/ failed)
    BY <1>2, <2>1, <2>2, <2>4 DEF FilesAlone, CallAlone
  <2>6. QED
    BY <1>1, <2>5, CertGoesOn, CertFails, CertForeign DEF FilesAlone, CallAlone
<1>5. CASE CertFiles!BackUp
  <2>1. CertFiles!Command(host, IF host.file[CertFiles!Now] = ctl.seen[CertFiles!Now] THEN CertFiles!Goto("assert") ELSE CertFiles!Undo)
    BY <1>5 DEF CertFiles!BackUp
  <2>2. \/ host' = host /\ ctl' = ctl /\ pc' = "assert" /\ faults' = faults
        \/ host' = host /\ ctl' = ctl /\ pc' = "undo" /\ faults' = faults /\ host.file[CertFiles!Now] # ctl.seen[CertFiles!Now]
        \/ host' = host /\ faults' = faults + 1 /\ ctl' = ctl /\ pc' = "undo"
        \/ host' = host /\ faults' = faults + 1 /\ ctl' = [ctl EXCEPT !.result = "failed"] /\ pc' = "done"
    BY <2>1 DEF CertFiles!Command, CertFiles!Goto, CertFiles!Undo, CertFiles!Return, CertFiles!Fault
  <2>3. FilesAlone /\ CallAlone /\ (goesOn \/ failed)
    BY <1>2, <2>2 DEF FilesAlone, CallAlone
  <2>4. QED
    BY <1>1, <2>3, CertGoesOn, CertFails, CertForeign DEF FilesAlone, CallAlone
<1>6. CASE CertFiles!AssertOriginal
  <2> DEFINE noted == [ctl EXCEPT !.touched = <<CertFiles!Now>> \o @]
  <2>1. /\ DOMAIN noted = DOMAIN ctl /\ noted.orig = ctl.orig /\ noted.seen = ctl.seen /\ noted.todo = ctl.todo
        /\ noted.touched = <<CertFiles!Now>> \o ctl.touched
    BY <1>2
  <2>2. CertFiles!Command(host, IF host.file[CertFiles!Now] = ctl.seen[CertFiles!Now]
                                THEN ctl' = noted /\ pc' = "publish" ELSE CertFiles!Undo)
    BY <1>6 DEF CertFiles!AssertOriginal
  <2> HIDE DEF noted
  <2>3. \/ host' = host /\ ctl' = noted /\ pc' = "publish" /\ faults' = faults
        \/ host' = host /\ ctl' = ctl /\ pc' = "undo" /\ faults' = faults /\ host.file[CertFiles!Now] # ctl.seen[CertFiles!Now]
        \/ host' = host /\ faults' = faults + 1 /\ ctl' = ctl /\ pc' = "undo"
        \/ host' = host /\ faults' = faults + 1 /\ ctl' = [ctl EXCEPT !.result = "failed"] /\ pc' = "done"
    BY <2>2 DEF CertFiles!Command, CertFiles!Goto, CertFiles!Undo, CertFiles!Return, CertFiles!Fault
  <2>4. FilesAlone /\ CallAlone /\ (goesOn \/ failed)
    BY <1>2, <2>1, <2>3 DEF FilesAlone, CallAlone
  <2>5. QED
    BY <1>1, <2>4, CertGoesOn, CertFails, CertForeign DEF FilesAlone, CallAlone
<1>7. QED
  BY <1>3, <1>4, <1>5, <1>6 DEF FileCommand

(* check() and the comparison after the guards: nothing is touched yet.    *)
LEMMA CertAsks == ASSUME CertInv, CertFiles!Check \/ CertFiles!Assess PROVE CertInv'
<1>1. /\ pc \in {"check", "assess"} /\ CertTypes /\ {"seen", "todo", "touched", "orig"} \subseteq DOMAIN ctl
      /\ ctl.orig.file = host.file
  BY DEF CertInv, CertTypes, CertPlace, CertFiles!Check, CertFiles!Assess
<1>2. host' = host /\ (faults' = faults \/ faults' = faults + 1)
  BY DEF CertFiles!Check, CertFiles!Assess, CertFiles!Ask, CertFiles!Exec, CertFiles!Return, CertFiles!Goto, CertFiles!Fault
<1>3. \/ \E r : ctl' = [ctl EXCEPT !.result = r] /\ pc' = "done"
      \/ ctl' = ctl /\ pc' = "prepare"
  BY DEF CertFiles!Check, CertFiles!Assess, CertFiles!Ask, CertFiles!Exec, CertFiles!Return, CertFiles!Goto
<1>4. CASE \E r : ctl' = [ctl EXCEPT !.result = r] /\ pc' = "done"
  <2>1. pc' = "done" /\ DOMAIN ctl' = DOMAIN ctl /\ ctl'.orig = ctl.orig /\ ctl'.touched = ctl.touched
    BY <1>1, <1>4
  <2>2. QED
    BY <1>2, <2>1, CertEnds
<1>5. CASE ctl' = ctl /\ pc' = "prepare"
  BY <1>1, <1>2, <1>5, CertAsksAgain
<1>6. QED
  BY <1>3, <1>4, <1>5

(* sshd -t of the candidate, before the first file.                        *)
LEMMA CertValidates == ASSUME CertInv, CertFiles!Validate PROVE CertInv'
<1>1. pc = "validate" /\ Forward /\ CertTypes /\ {"seen", "todo", "touched", "orig"} \subseteq DOMAIN ctl
  BY DEF CertInv, CertTypes, Forward, CertFiles!Validate
<1>2. /\ ~CaGone /\ ctl.seen = ctl.orig.file /\ ctl.todo \in Seq(CertSteps) /\ ctl.touched \in Seq(CertFiles!Files)
      /\ Removing => Remains(ctl.todo)
      /\ ~host.present /\ host.kind # "ca" => \A i \in 1..Len(ctl.todo) : ctl.todo[i] # "ca"
  BY <1>1, CertForward
<1>3. \/ host' = host /\ CertFiles!Step(ctl) /\ faults' = faults
      \/ host' = host /\ faults' = faults + 1 /\ ctl' = ctl /\ pc' = "undo"
      \/ host' = host /\ faults' = faults + 1 /\ ctl' = [ctl EXCEPT !.result = "failed"] /\ pc' = "done"
  BY DEF CertFiles!Validate, CertFiles!Command, CertFiles!Goto, CertFiles!Undo, CertFiles!Return, CertFiles!Fault
<1>4. CASE host' = host /\ CertFiles!Step(ctl) /\ faults' = faults
  <2>1. Removing => /\ Left(ctl.todo) <= 3 => host.file.conf # "want"
                    /\ Left(ctl.todo) <= 1 => host.live # "want"
                    /\ faults = 0 => /\ ctl.todo # <<>> => host.file.ca = ctl.seen.ca
                                     /\ Left(ctl.todo) = 4 => host.file.conf = ctl.seen.conf
                                     /\ Left(ctl.todo) <= 3 => host.file.conf = "bare"
    BY <1>1 DEF CertInv, CertRemoval
  <2>2. ~host.present => IF host.kind = "ca" THEN Remains(ctl.todo) ELSE \A i \in 1..Len(ctl.todo) : ctl.todo[i] # "ca"
    BY <1>2 DEF Removing
  <2>3. ~(host.file.ca = "none" /\ ctl.orig.file.ca # "none")
    BY <1>2 DEF CaGone
  <2>4. QED
    BY <1>1, <1>2, <1>4, <2>1, <2>2, <2>3, CertAdvances
<1>5. ASSUME host' = host, faults' = faults + 1, DOMAIN ctl' = DOMAIN ctl, ctl'.orig = ctl.orig, ctl'.seen = ctl.seen,
             ctl'.touched = ctl.touched, pc' \in {"undo", "done"}
      PROVE  CertInv'
  BY <1>1, <1>5, CertFails
<1>6. QED
  BY <1>1, <1>3, <1>4, <1>5

(* sshd -T of what was written, and a look at the user's file.             *)
LEMMA CertLooks == ASSUME CertInv, CertFiles!Effective \/ CertFiles!Readable PROVE CertInv'
<1>1. /\ pc \in {"effective", "readable"} /\ Forward /\ CertTypes /\ {"seen", "todo", "touched", "orig"} \subseteq DOMAIN ctl
      /\ ctl.todo # <<>> /\ Head(ctl.todo) = pc
  BY DEF CertInv, CertTypes, CertPlace, Forward, CertFiles!Effective, CertFiles!Readable, CertFiles!Now
<1>2. ctl.todo \in Seq(CertSteps) /\ (Removing => Remains(ctl.todo))
  BY <1>1, CertForward
<1>3. Removing => pc = "effective" /\ Left(ctl.todo) = 3
  BY <1>1, <1>2, RemainsFacts
<1>4. Removing /\ faults = 0 => host.file.conf = CertFiles!Goal("conf")
  BY <1>1, <1>3 DEF CertInv, CertRemoval, Removing, CertFiles!Goal
<1>5. \/ host' = host /\ CertFiles!Advance /\ faults' = faults
      \/ /\ host' = host /\ ctl' = ctl /\ pc' = "undo" /\ faults' = faults
         /\ pc = "effective" => host.file.conf # CertFiles!Goal("conf")
      \/ host' = host /\ faults' = faults + 1 /\ ctl' = ctl /\ pc' = "undo"
      \/ host' = host /\ faults' = faults + 1 /\ ctl' = [ctl EXCEPT !.result = "failed"] /\ pc' = "done"
  BY DEF CertFiles!Effective, CertFiles!Readable, CertFiles!Command, CertFiles!Goto, CertFiles!Undo, CertFiles!Return, CertFiles!Fault
<1>6. CASE host' = host /\ CertFiles!Advance /\ faults' = faults
  BY <1>1, <1>3, <1>6, CertPlanGoesOn DEF FilesAlone
<1>7. ASSUME host' = host, faults' = faults + 1 \/ (faults' = faults /\ (Removing => faults > 0)), DOMAIN ctl' = DOMAIN ctl,
             ctl'.orig = ctl.orig, ctl'.seen = ctl.seen, ctl'.touched = ctl.touched, pc' \in {"undo", "done"}
      PROVE  CertInv'
  BY <1>1, <1>7, CertFails
<1>8. CASE /\ host' = host /\ ctl' = ctl /\ pc' = "undo" /\ faults' = faults
           /\ pc = "effective" => host.file.conf # CertFiles!Goal("conf")
  <2>1. Removing => faults # 0
    BY <1>3, <1>4, <1>8
  <2>2. faults \in Nat
    BY <1>1 DEF CertTypes
  <2>3. Removing => faults > 0
    BY <2>1, <2>2, FaultsCount
  <2>4. QED
    BY <1>7, <1>8, <2>3
<1>9. QED
  BY <1>1, <1>5, <1>6, <1>7, <1>8

(* The copies of what was written are removed.                             *)
LEMMA CertCleans == ASSUME CertInv, CertFiles!Cleanup PROVE CertInv'
<1>1. {"kind", "present", "file", "live"} \subseteq DOMAIN host /\ {"seen", "todo", "touched", "orig"} \subseteq DOMAIN ctl
  BY DEF CertInv, CertTypes
<1>2. \E some, r : host' = [host EXCEPT !.tmp = @ \ some] /\ ctl' = [ctl EXCEPT !.result = r]
  BY DEF CertFiles!Cleanup, CertFiles!Return
<1>3. pc' = "done" /\ (faults' = faults \/ faults' = faults + 1)
  BY DEF CertFiles!Cleanup, CertFiles!Return, CertFiles!Fault
<1>4. /\ DOMAIN ctl' = DOMAIN ctl /\ ctl'.orig = ctl.orig /\ ctl'.touched = ctl.touched
      /\ DOMAIN host' = DOMAIN host /\ host'.file = host.file /\ host'.live = host.live /\ host'.kind = host.kind
      /\ host'.present = host.present
  BY <1>1, <1>2
<1>5. QED
  BY <1>3, <1>4, CertEnds

(* The rest of the rollback: the copies, the directory, the reload.        *)
LEMMA CertTidies == ASSUME CertInv, CertFiles!UndoTidy \/ CertFiles!UndoParent \/ CertFiles!UndoReload PROVE CertInv'
<1>1. pc \in {"undo tidy", "undo parent", "undo reload"} /\ Undoing
  BY DEF Undoing, CertFiles!UndoTidy, CertFiles!UndoParent, CertFiles!UndoReload
<1>2. /\ CertTypes /\ ctl.seen = ctl.orig.file /\ ctl.touched \in Seq(CertFiles!Files) /\ faults \in Nat
      /\ {"seen", "todo", "touched", "orig"} \subseteq DOMAIN ctl
      /\ {"kind", "present", "file", "live"} \subseteq DOMAIN host
      /\ CaGone => Removing
      /\ ~(faults <= 1 /\ CaGone)
  BY <1>1, CertUndoing DEF CertTypes
<1>3. faults' = faults \/ faults' = faults + 1
  BY DEF CertFiles!UndoTidy, CertFiles!UndoParent, CertFiles!UndoReload, CertFiles!Locally, CertFiles!Goto, CertFiles!Return,
         CertFiles!Fault
<1>4. faults' <= 1 => faults <= 1
  BY <1>2, <1>3, FaultsCount
<1>5. /\ pc' \in {"undo parent", "undo reload", "done"} /\ DOMAIN ctl' = DOMAIN ctl /\ ctl'.seen = ctl.seen
      /\ ctl'.orig = ctl.orig /\ ctl'.touched = ctl.touched
  <2>1. pc' = "undo parent" \/ pc' = "undo reload" \/ pc' = "done"
    BY DEF CertFiles!UndoTidy, CertFiles!UndoParent, CertFiles!UndoReload, CertFiles!Locally, CertFiles!Goto, CertFiles!Return,
           CertFiles!Finish
  <2>2. \/ ctl' = ctl
        \/ \E r : ctl' = [ctl EXCEPT !.result = r]
        \/ ctl' = [ctl EXCEPT !.bad = TRUE]
        \/ \E r : ctl' = [[ctl EXCEPT !.bad = TRUE] EXCEPT !.result = r]
    <3>1. CASE CertFiles!UndoTidy
      BY <3>1 DEF CertFiles!UndoTidy, CertFiles!Goto
    <3>2. CASE CertFiles!UndoParent
      <4>1. CertFiles!Finish(ctl) \/ CertFiles!Finish([ctl EXCEPT !.bad = TRUE])
        BY <3>2 DEF CertFiles!UndoParent, CertFiles!Locally
      <4>2. ASSUME NEW c, CertFiles!Finish(c) PROVE ctl' = c \/ \E r : ctl' = [c EXCEPT !.result = r]
        BY <4>2 DEF CertFiles!Finish
      <4>3. QED
        BY <4>1, <4>2
    <3>3. CASE CertFiles!UndoReload
      BY <3>3 DEF CertFiles!UndoReload, CertFiles!Return
    <3>4. QED
      BY <3>1, <3>2, <3>3
  <2>3. QED
    BY <1>2, <2>1, <2>2
<1>6. /\ DOMAIN host' = DOMAIN host /\ host'.file = host.file /\ host'.kind = host.kind /\ host'.present = host.present
  <2>1. \/ host' = host
        \/ \E some : host' = [host EXCEPT !.tmp = @ \ some]
        \/ host' = [host EXCEPT !.parent = FALSE]
        \/ host' = [host EXCEPT !.live = host.file.conf]
    <3>1. CASE CertFiles!UndoTidy
      BY <3>1 DEF CertFiles!UndoTidy
    <3>2. CASE CertFiles!UndoParent
      BY <3>2 DEF CertFiles!UndoParent, CertFiles!Locally
    <3>3. CASE CertFiles!UndoReload
      BY <3>3 DEF CertFiles!UndoReload
    <3>4. QED
      BY <3>1, <3>2, <3>3
  <2>2. QED
    BY <1>2, <2>1
<1>7. CaGone' <=> CaGone
  BY <1>5, <1>6 DEF CaGone
<1>8. ctl'.touched \in Seq(CertFiles!Files) /\ DOMAIN host'.file = DOMAIN host.file
  BY <1>2, <1>5, <1>6
<1>9. QED
  BY <1>1, <1>2, <1>3, <1>4, <1>5, <1>6, <1>7, <1>8, CertUndoes

(* An edit by others is a fault; it takes no file away and loads nothing.  *)
LEMMA CertEdited == ASSUME CertInv, CertFiles!Edit PROVE CertInv'
<1>1. PICK f \in CertFiles!Files :
          /\ host.file[f] \notin {"none", "theirs"}
          /\ host' = [host EXCEPT !.file[f] = "theirs",
                                  !.late = @ \/ (pc = "publish" /\ f = CertFiles!Now) \/ (pc = "put back" /\ f = CertFiles!Last)]
  BY DEF CertFiles!Edit
<1>2. ctl' = ctl /\ pc' = pc /\ faults' = faults + 1 /\ pc \notin {"check", "prepare", "assess"}
  BY DEF CertFiles!Edit, CertFiles!Fault
<1>3. CertTypes /\ faults \in Nat
  BY DEF CertInv, CertTypes
<1>4. /\ DOMAIN host' = DOMAIN host /\ host'.kind = host.kind /\ host'.present = host.present /\ host'.live = host.live
      /\ DOMAIN host'.file = DOMAIN host.file
      /\ \A g \in CertFiles!Files : host'.file[g] = IF g = f THEN "theirs" ELSE host.file[g]
  BY <1>1, <1>3 DEF CertTypes
<1>5. faults' \in Nat /\ faults' > 0 /\ faults' # 0 /\ (faults' <= 1 => faults <= 1)
  BY <1>2, <1>3
<1>6. /\ host'.file.ca = "none" => host.file.ca = "none"
      /\ host'.file.conf = "want" => host.file.conf = "want"
  BY <1>4 DEF CertFiles!Files
<1>7. (CaGone' => CaGone) /\ (Removing' <=> Removing) /\ (Forward' <=> Forward) /\ (Undoing' <=> Undoing)
  BY <1>2, <1>4, <1>6 DEF CaGone, Removing, Forward, Undoing
<1>8. CertTypes'
  BY <1>2, <1>3, <1>4, <1>5, <1>7 DEF CertTypes
<1>9. CertFiles!Now' = CertFiles!Now
  BY <1>2 DEF CertFiles!Now
<1>10. CertPlace'
  BY <1>2, <1>4, <1>7, <1>9 DEF CertInv, CertPlace
<1>11. CertRemoval'
  BY <1>2, <1>4, <1>5, <1>6, <1>7, <1>9 DEF CertInv, CertRemoval
<1>12. CertRollback'
  BY <1>2, <1>4, <1>5, <1>7 DEF CertInv, CertRollback
<1>13. QED
  BY <1>8, <1>10, <1>11, <1>12 DEF CertInv

(* A run of the playbook starts from the files that are there.             *)
LEMMA CertAgain == ASSUME CertInv, CertFiles!Again(CertFiles!Fresh(ctl.run + 1)) PROVE CertInv'
<1>1. host' = host /\ faults' = faults /\ pc' = "check" /\ ctl' = CertFiles!Fresh(ctl.run + 1)
  BY DEF CertFiles!Again
<1>2. {"seen", "todo", "touched", "orig"} \subseteq DOMAIN ctl' /\ ctl'.orig = host /\ ctl'.touched = <<>>
  BY <1>1 DEF CertFiles!Fresh
<1>3. ~Forward' /\ ~Undoing' /\ ~CaGone' /\ CertTypes
  BY <1>1, <1>2 DEF Forward, Undoing, CaGone, CertInv
<1>4. CertTypes'
  <2>1. <<>> \in Seq(CertFiles!Files)
    OBVIOUS
  <2>2. ctl'.touched \in Seq(CertFiles!Files)
    BY <1>2, <2>1
  <2>3. QED
    BY <1>1, <1>2, <1>3, <2>2 DEF CertTypes
<1>5. CertPlace'
  BY <1>1, <1>2, <1>3 DEF CertPlace
<1>6. CertRemoval' /\ CertRollback'
  BY <1>3 DEF CertRemoval, CertRollback
<1>7. QED
  BY <1>4, <1>5, <1>6 DEF CertInv

(* Every step of the certificate file transaction keeps the invariant.     *)
LEMMA CertStep == ASSUME CertInv, CertFiles!Next \/ UNCHANGED vars PROVE CertInv'
<1>1. CASE UNCHANGED vars
  <2>1. host' = host /\ ctl' = ctl /\ pc' = pc /\ faults' = faults
    BY <1>1 DEF vars
  <2>2. CertTypes' <=> CertTypes
    BY <2>1 DEF CertTypes, Forward
  <2>3. CertPlace' <=> CertPlace
    BY <2>1 DEF CertPlace, Forward, Undoing, CaGone, Removing, CertFiles!Now
  <2>4. CertRemoval' <=> CertRemoval
    BY <2>1 DEF CertRemoval, Forward, CaGone, Removing, CertFiles!Now
  <2>5. CertRollback' <=> CertRollback
    BY <2>1 DEF CertRollback, Undoing, CaGone, Removing
  <2>6. QED
    BY <2>2, <2>3, <2>4, <2>5 DEF CertInv
<1>2. CASE FileCommand
  BY <1>2, CertCommands
<1>3. CASE CertFiles!Next /\ ~FileCommand
  BY <1>3, CertAsks, CertPrepares, CertValidates, CertWrites, CertConfirms, CertLooks, CertReloads, CertCleans, CertUndoesFile,
     CertPutsBack, CertTidies, CertEdited, CertAgain DEF CertFiles!Next, CertFiles!Section, FileCommand
<1>4. QED
  BY <1>1, <1>2, <1>3

-----------------------------------------------------------------------------
(* The units together                                                      *)

(* Each unit keeps its own invariant.                                      *)
AccessInv ==
  /\ unit = "port" => PortInv
  /\ unit = "ufw" => FirewallInv
  /\ unit = "certs" => CertInv
  /\ unit = "authorized keys" => KeysInv

(* A behaviour begins as its unit does.                                    *)
LEMMA AccessBegins == AccessInit => AccessInv
<1> SUFFICES ASSUME AccessInit PROVE AccessInv
  OBVIOUS
<1>1. unit = "port" => PortInv
  BY PortInit DEF AccessInit
<1>2. unit = "ufw" => FirewallInv
  BY FirewallInit DEF AccessInit
<1>3. unit = "certs" => CertInv
  BY CertInit DEF AccessInit
<1>4. unit = "authorized keys" => KeysInv
  BY KeysInit DEF AccessInit
<1>5. QED
  BY <1>1, <1>2, <1>3, <1>4 DEF AccessInv

(* A step is one of its unit's code, of another hand on the host or of a   *)
(* later run, or leaves everything as it is.                               *)
LEMMA AccessGoesOn == AccessInv /\ [AccessNext]_<<vars, unit>> => AccessInv'
<1> SUFFICES ASSUME AccessInv, [AccessNext]_<<vars, unit>> PROVE AccessInv'
  OBVIOUS
<1>1. CASE AccessNext
  <2>1. /\ unit' = unit
        /\ unit = "port" => Port!Next
        /\ unit = "ufw" => Firewall!Next
        /\ unit = "certs" => CertFiles!Next
        /\ unit = "authorized keys" => AuthKeys!Next
    BY <1>1 DEF AccessNext
  <2>2. QED
    BY <2>1, PortStep, FirewallStep, CertStep, KeysStep DEF AccessInv
<1>2. CASE UNCHANGED <<vars, unit>>
  <2>1. unit' = unit /\ UNCHANGED vars
    BY <1>2
  <2>2. host' = host /\ ctl' = ctl /\ pc' = pc /\ faults' = faults
    BY <2>1 DEF vars
  <2>3. PortInv => PortInv'
    BY <2>2 DEF PortInv, Port!AccessIsKept, Port!Reachable, Port!Listening
  <2>4. FirewallInv => FirewallInv'
    <3>1. Firewall!Open(host)' <=> Firewall!Open(host)
      BY <2>2 DEF Firewall!Open, Firewall!Shown, Firewall!Fams, Firewall!ToDelete, Firewall!Has
    <3>2. (Harmless' = Harmless) /\ (Admits(host)' <=> Admits(host)) /\ (Firewall!Queued(host, "deny", "ssh")' <=> Firewall!Queued(host, "deny", "ssh"))
      BY <2>2 DEF Harmless, Admits, Firewall!Queued, Firewall!Shown, Firewall!Fams, Firewall!ToDelete, Firewall!Has, Firewall!Ports
    <3>3. QED
      BY <2>2, <3>1, <3>2 DEF FirewallInv, Firewall!AccessIsKept, Firewall!Undone, Firewall!Has, Firewall!Ports
  <2>5. KeysInv => KeysInv'
    BY <2>2 DEF KeysInv, AuthKeys!AccessIsKept, AuthKeys!Staged, AuthKeys!Lines
  <2>6. QED
    BY <2>1, <2>3, <2>4, <2>5, CertStep DEF AccessInv
<1>3. QED
  BY <1>1, <1>2

(* What the units' invariants say of the way into the host.                *)
LEMMA AccessFollows == AccessInv => AccessIsKept
BY CertKeepsAccess DEF AccessInv, AccessIsKept, PortInv, FirewallInv, KeysInv

(* Whatever fails and however often the playbook is run: sshd.port gives a *)
(* host up as lost after two faults only if nobody answers on the port it  *)
(* came from; ufw closes the session's port only if, before `ufw enable`,  *)
(* somebody denied it after the last look or withdrew the allow rule after *)
(* it was added; one fault never leaves sshd trusting a CA whose file is   *)
(* gone; and ssh.authorizedKeys loses another key only if it was added     *)
(* between its copy and its rename, or spoils a last line without newline. *)
THEOREM AccessIsKeptAlways == AccessSpec => []AccessIsKept
<1>1. AccessInv /\ [AccessNext]_<<vars, unit>> => AccessInv'
  BY AccessGoesOn
<1>2. QED
  BY AccessBegins, <1>1, AccessFollows, PTL DEF AccessSpec
=============================================================================
