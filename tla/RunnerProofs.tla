----------------------------- MODULE RunnerProofs -----------------------------
(***************************************************************************)
(* Proofs about Runner for every tree of recipes and when(...) blocks, and *)
(* whatever its modules answer.                                            *)
(*                                                                         *)
(* The run walks the tree with a stack of frames, and a result or an error *)
(* travels up through it.  The invariant says                              *)
(*   ScalarInv    the types of everything but the stack;                   *)
(*   StackInv     what the frames are: nested, the inner ones younger;     *)
(*   StepInv      what the phase knows of the member it works on;          *)
(*   FailureInv   a failure that no shutdown explains is on its way to the *)
(*                root: no phase that starts work is reachable;            *)
(*   OwedInv      a change that was not signalled yet is remembered where  *)
(*                it has to be: as pending in its list, as "changed" in a  *)
(*                list inside of it, or in the result that travels;        *)
(*   ExitInv      what the end of the run knows;                           *)
(*   LinkInv      the connection and the ports it can be found again at;   *)
(*   ReachInv and DueInv, for the control plane, say that the runner's     *)
(*                hook reaches all that reports a port change or a reboot. *)
(***************************************************************************)
EXTENDS Runner, FiniteSetTheorems, SequenceTheorems, TLAPS

Frames == [list : Lists, idx : Nat \ {0}, at : {"member", "flush", "end"},
           sig : Nat \ {0}, pending : BOOLEAN, status : {"ok", "changed", "failed"},
           stop : BOOLEAN, flush : BOOLEAN, hooked : BOOLEAN]

Phases == {"prewarm", "connect", "loop", "check", "start", "apply", "report",
           "reboot", "portConnect", "rebootConnect", "absorb", "escape",
           "signal", "finish", "teardown", "abort", "ended"}

ScalarInv ==
  /\ server \in Indices /\ phase \in Phases /\ result \in Result
  /\ failedStat \in BOOLEAN /\ shutdown \in 0..2 /\ committing \in BOOLEAN
  /\ conn \in Ports \cup {NoPort}
  /\ ports \subseteq Ports /\ added \subseteq Ports /\ listening \subseteq Ports
  /\ exit \in {"none", "ok", "failed", "error", "signal"}
  /\ failed \in BOOLEAN /\ owed \subseteq Lists /\ due \in Nat

Rank == CHOOSE rank \in Ranks : Nested(Members, rank)

FrameInv(f) ==
  /\ f.flush => Kind[f.list] = "when"
  /\ f.status = "failed" => Kind[f.list] # "when"
  /\ f.pending /\ Kind[f.list] = "recipe" => f.status \in {"changed", "failed"}

StackInv ==
  /\ stack \in Seq(Frames) /\ Len(stack) >= 1
  /\ stack[1].list = Root /\ stack[1].hooked
  /\ \A i \in 2 .. Len(stack) : stack[i].list # Root
  /\ \A i \in 1 .. Len(stack) : Rank[stack[i].list] + i <= Cardinality(Lists) + 1
  /\ \A i, j \in 1 .. Len(stack) : i < j => Rank[stack[j].list] < Rank[stack[i].list]
  /\ \A i \in 1 .. Len(stack) : i # Len(stack) => stack[i].at = "member"
  /\ \A i \in 1 .. Len(stack) : FrameInv(stack[i])

(* A result is on its way from a member, or a signal, to its list.         *)
Travels == phase \in {"report", "reboot", "portConnect", "rebootConnect", "absorb", "escape"}

StepInv ==
  /\ InSignals => /\ phase \in {"signal", "apply", "report", "reboot", "portConnect",
                                "rebootConnect", "absorb", "ended"}
                  /\ Top.pending /\ HasSignals(Scope)
  /\ phase = "signal" => InSignals
  /\ phase \in {"check", "start"} \/ (phase = "apply" /\ ~InSignals) => Top.idx <= Len(Members[Scope])
  /\ phase = "apply" /\ ~InSignals => Member \in Modules
  /\ phase = "apply" /\ InSignals => Top.sig <= Len(Signals[Scope])
  /\ phase = "start" => shutdown = 0 \/ Member \in Lists
  /\ phase = "escape" => Throws /\ Scope # Root
  /\ phase = "report" /\ ControlDue(result) => due >= 1
  /\ Travels /\ result.status = "failed" => ~result.flush

FailureInv ==
  /\ Travels /\ Failing /\ shutdown = 0 => failed
  /\ shutdown = 0 => \A i \in 1 .. Len(stack) : stack[i].status = "failed" => failed
  /\ failed /\ shutdown = 0 =>
       \/ phase \in {"report", "absorb", "escape"} /\ Failing
       \/ phase = "finish" /\ Scope = Root /\ failedStat
       \/ phase = "finish" /\ Scope # Root /\ Top.status = "failed"
       \/ phase = "teardown" /\ failedStat
       \/ phase \in {"abort", "ended"}

(* The change has not reached the loop of its list yet.                    *)
ChangeTravels == Travels /\ ~InSignals /\ result.status = "changed"

Remembered(l) ==
  \E i \in 1 .. Len(stack) :
    /\ stack[i].list = l /\ HasSignals(l)
    /\ \/ stack[i].pending
       \/ \E j \in 1 .. Len(stack) : i < j /\ stack[j].status = "changed"
       \/ ChangeTravels

OwedInv ==
  /\ \A i \in 1 .. Len(stack) : stack[i].pending /\ HasSignals(stack[i].list) => stack[i].list \in owed
  /\ \A i, j \in 1 .. Len(stack) :
       i < j /\ stack[j].status = "changed" /\ HasSignals(stack[i].list) => stack[i].list \in owed
  /\ ChangeTravels => \A i \in 1 .. Len(stack) : HasSignals(stack[i].list) => stack[i].list \in owed
  /\ shutdown = 0 /\ ~failed => \A l \in owed : Remembered(l)

ExitInv ==
  /\ phase = "teardown" /\ shutdown = 0 /\ ~failedStat => ~failed /\ owed = {}
  /\ exit = "ok" => phase = "ended" /\ ~failed /\ shutdown = 0 /\ owed = {}

LinkInv ==
  /\ PortsStayKnown /\ NothingLeftConnected
  /\ added \cap ConfiguredPorts = {}

IInv ==
  /\ ScalarInv /\ StackInv /\ StepInv /\ FailureInv /\ OwedInv /\ ExitInv /\ LinkInv

-----------------------------------------------------------------------------
(* The tree.                                                               *)

(* What the assumptions say of the definition this run was given.          *)
LEMMA Tree ==
  ASSUME server \in Indices
  PROVE  /\ \A l \in Lists : /\ Members[l] \in Seq(Modules \cup (Lists \ {Root}))
                             /\ Signals[l] \in Seq(Modules)
                             /\ Kind[l] \in {"run", "recipe", "when"}
                             /\ Kind[l] = "run" <=> l = Root
                             /\ Kind[l] = "when" => ~HasSignals(l)
         /\ Root \in Lists /\ Modules \cap Lists = {}
  BY RunnerAssumption DEF Members, Signals, HasSignals

(* The lists of a definition have ranks.                                   *)
LEMMA RankOfTree ==
  ASSUME server \in Indices
  PROVE  /\ Rank \in [Lists -> 1 .. Cardinality(Lists)]
         /\ \A l \in Lists : \A i \in DOMAIN Members[l] :
               Members[l][i] \in Lists => Rank[Members[l][i]] < Rank[l]
<1>1. \E rank \in Ranks : Nested(Members, rank)
  BY RunnerAssumption DEF Members
<1>2. Rank \in Ranks /\ Nested(Members, Rank)
  BY <1>1 DEF Rank
<1>3. QED
  BY <1>2 DEF Ranks, Nested

(* A definition has a number of lists.                                     *)
LEMMA ListsFinite == Cardinality(Lists) \in Nat
  BY RunnerAssumption, FS_CardinalityType

(* The definition of a run does not change.                                *)
LEMMA SameTree ==
  ASSUME server' = server
  PROVE  Members' = Members /\ Signals' = Signals /\ Rank' = Rank
  BY DEF Members, Signals, Rank

-----------------------------------------------------------------------------
(* The stack.                                                              *)

(* The frame at work, and the lists around it.                             *)
LEMMA TopFrame ==
  ASSUME StackInv, server \in Indices
  PROVE  /\ Len(stack) \in Nat /\ Len(stack) \in 1 .. Len(stack) /\ 1 \in 1 .. Len(stack)
         /\ Top \in Frames /\ Scope \in Lists /\ FrameInv(Top)
         /\ Top = stack[Len(stack)] /\ Scope = stack[Len(stack)].list
         /\ Scope = Root <=> Len(stack) = 1
         /\ Scope = Root => Top.hooked
         /\ \A i \in 1 .. Len(stack) : stack[i] \in Frames /\ stack[i].list \in Lists
         /\ \A i, j \in 1 .. Len(stack) : i # j => stack[i].list # stack[j].list
<1>0. Len(stack) \in Nat /\ Len(stack) >= 1 /\ \A i \in 1 .. Len(stack) : stack[i] \in Frames
  BY DEF StackInv
<1>1. /\ Len(stack) \in Nat /\ Len(stack) >= 1
      /\ \A i \in 1 .. Len(stack) : stack[i] \in Frames /\ stack[i].list \in Lists
  BY <1>0 DEF Frames
<1>2. Top \in Frames /\ Scope \in Lists /\ FrameInv(Top)
  BY <1>1 DEF StackInv, Top, Scope
<1>3. Scope = Root <=> Len(stack) = 1
  <2>1. CASE Len(stack) = 1
    BY <2>1 DEF StackInv, Top, Scope
  <2>2. CASE Len(stack) # 1
    <3>1. Len(stack) \in 2 .. Len(stack)
      BY <1>0, <2>2
    <3>2. QED
      BY <2>2, <3>1 DEF StackInv, Top, Scope
  <2>3. QED
    BY <2>1, <2>2
<1>4. \A i \in 1 .. Len(stack) : Rank[stack[i].list] \in Int
  BY <1>1, RankOfTree, ListsFinite
<1>5. \A i, j \in 1 .. Len(stack) : i < j => stack[i].list # stack[j].list
  BY <1>4 DEF StackInv
<1>6. \A i, j \in 1 .. Len(stack) : i # j => stack[i].list # stack[j].list
  BY <1>1, <1>5
<1>7. QED
  BY <1>1, <1>2, <1>3, <1>6 DEF StackInv, Top, Scope

(* A loop rewrites its own frame.                                          *)
LEMMA SetTopKeeps ==
  ASSUME StackInv, server \in Indices, server' = server,
         NEW f \in Frames, f.list = Scope, f.hooked = Top.hooked, FrameInv(f), SetTop(f)
  PROVE  /\ StackInv' /\ Len(stack') = Len(stack) /\ Top' = f /\ Scope' = Scope
         /\ stack'[Len(stack)] = f
         /\ \A i \in 1 .. Len(stack) : i # Len(stack) => stack'[i] = stack[i]
         /\ \A i \in 1 .. Len(stack) : stack'[i].list = stack[i].list
<1>1. /\ stack \in Seq(Frames) /\ Len(stack) \in Nat /\ Len(stack) >= 1
      /\ stack' = [stack EXCEPT ![Len(stack)] = f]
  BY DEF StackInv, SetTop
<1>2. stack' \in Seq(Frames) /\ Len(stack') = Len(stack)
  BY <1>1
<1>3. /\ stack'[Len(stack)] = f
      /\ \A i \in 1 .. Len(stack) : i # Len(stack) => stack'[i] = stack[i]
  BY <1>1
<1>4. \A i \in 1 .. Len(stack) : stack'[i].list = stack[i].list
  BY <1>3, TopFrame
<1>5. Top' = f /\ Scope' = Scope
  BY <1>2, <1>3 DEF Top, Scope
<1>6. stack'[1].hooked
  BY <1>1, <1>3, TopFrame DEF StackInv
<1>7. \A i \in 1 .. Len(stack) : FrameInv(stack'[i])
  BY <1>3 DEF StackInv
<1>8. /\ stack'[1].list = Root
      /\ \A i \in 2 .. Len(stack) : stack'[i].list # Root
      /\ \A i \in 1 .. Len(stack) : i # Len(stack) => stack'[i].at = "member"
  BY <1>1, <1>3, <1>4 DEF StackInv
<1>9. /\ \A i \in 1 .. Len(stack) : Rank'[stack'[i].list] + i <= Cardinality(Lists) + 1
      /\ \A i, j \in 1 .. Len(stack) : i < j => Rank'[stack'[j].list] < Rank'[stack'[i].list]
  BY <1>4, SameTree DEF StackInv
<1>10. StackInv'
  BY <1>1, <1>2, <1>6, <1>7, <1>8, <1>9 DEF StackInv
<1>11. QED
  BY <1>2, <1>3, <1>4, <1>5, <1>10

(* A list ends: the list around it goes on with the member at hand.        *)
LEMMA PopKeeps ==
  ASSUME StackInv, server \in Indices, server' = server, Scope # Root, Pop
  PROVE  /\ StackInv' /\ Len(stack) \in Nat /\ Len(stack) >= 2 /\ Len(stack') = Len(stack) - 1
         /\ \A i \in 1 .. Len(stack') : i \in 1 .. Len(stack) /\ i # Len(stack) /\ stack'[i] = stack[i]
         /\ Top' = stack[Len(stack) - 1] /\ ~InSignals'
<1>1. /\ stack \in Seq(Frames) /\ Len(stack) \in Nat /\ Len(stack) >= 2
      /\ stack' = SubSeq(stack, 1, Len(stack) - 1)
  BY TopFrame DEF StackInv, Pop
<1>2. /\ stack' \in Seq(Frames) /\ Len(stack') = Len(stack) - 1
      /\ \A i \in 1 .. Len(stack) - 1 : stack'[i] = stack[i]
  <2>1. \A i \in 1 .. Len(stack) - 1 : stack[i] \in Frames
    BY <1>1
  <2>2. /\ stack' \in Seq(Frames)
        /\ Len(stack') = IF 1 <= Len(stack) - 1 THEN (Len(stack) - 1) - 1 + 1 ELSE 0
        /\ \A i \in 1 .. (Len(stack) - 1) - 1 + 1 : stack'[i] = stack[1 + i - 1]
    BY <1>1, <2>1, SubSeqProperties
  <2>3. QED
    BY <1>1, <2>2
<1>3. ASSUME NEW i \in 1 .. Len(stack')
      PROVE  i \in 1 .. Len(stack) /\ i # Len(stack) /\ i \in 1 .. Len(stack) - 1 /\ stack'[i] = stack[i]
  <2>1. i \in 1 .. Len(stack) - 1
    BY <1>2, <1>3
  <2>2. stack'[i] = stack[i]
    BY <1>2, <2>1
  <2>3. i \in 1 .. Len(stack) /\ i # Len(stack)
    BY <1>1, <2>1
  <2>4. QED
    BY <2>1, <2>2, <2>3
<1>4. Top' = stack[Len(stack) - 1] /\ ~InSignals'
  <2>1. Len(stack') \in 1 .. Len(stack')
    BY <1>1, <1>2
  <2>2. stack'[Len(stack')] = stack[Len(stack) - 1]
    BY <1>2, <1>3, <2>1
  <2>3. stack[Len(stack) - 1].at = "member"
    BY <1>1 DEF StackInv
  <2>4. QED
    BY <2>2, <2>3 DEF Top, InSignals
<1>5. StackInv'
  <2>1. /\ stack'[1].list = Root /\ stack'[1].hooked
        /\ \A i \in 1 .. Len(stack') : FrameInv(stack'[i])
        /\ \A i \in 1 .. Len(stack') : stack'[i].at = "member"
    <3>1. 1 \in 1 .. Len(stack')
      BY <1>1, <1>2
    <3>2. QED
      BY <1>3, <3>1 DEF StackInv
  <2>2. \A i \in 2 .. Len(stack') : stack'[i].list # Root
    <3>1. \A i \in 2 .. Len(stack') : i \in 1 .. Len(stack') /\ i \in 2 .. Len(stack)
      BY <1>1, <1>2
    <3>2. QED
      BY <1>3, <3>1 DEF StackInv
  <2>3. /\ \A i \in 1 .. Len(stack') : Rank[stack'[i].list] + i <= Cardinality(Lists) + 1
        /\ \A i, j \in 1 .. Len(stack') : i < j => Rank[stack'[j].list] < Rank[stack'[i].list]
    BY <1>3 DEF StackInv
  <2>4. stack' \in Seq(Frames) /\ Len(stack') >= 1
    BY <1>1, <1>2
  <2>5. QED
    BY <2>1, <2>2, <2>3, <2>4, SameTree DEF StackInv
<1>6. QED
  BY <1>1, <1>2, <1>3, <1>4, <1>5

(* A list begins, for the member at hand.                                  *)
LEMMA PushKeeps ==
  ASSUME StackInv, server \in Indices, server' = server, ~InSignals,
         Top.idx <= Len(Members[Scope]), Member \in Lists, NEW h \in BOOLEAN,
         stack' = Append(stack, Frame(Member, h))
  PROVE  /\ StackInv' /\ Len(stack') = Len(stack) + 1 /\ Top' = Frame(Member, h)
         /\ \A i \in 1 .. Len(stack) : stack'[i] = stack[i]
<1>1. stack \in Seq(Frames) /\ Len(stack) \in Nat /\ Len(stack) >= 1
  BY DEF StackInv
<1>2. Frame(Member, h) \in Frames /\ FrameInv(Frame(Member, h))
  BY DEF Frame, Frames, FrameInv
<1>3. stack' \in Seq(Frames) /\ Len(stack') = Len(stack) + 1
  BY <1>1, <1>2
<1>4. stack'[Len(stack) + 1] = Frame(Member, h) /\ \A i \in 1 .. Len(stack) : stack'[i] = stack[i]
  BY <1>1, <1>2
<1>5. Top.idx \in DOMAIN Members[Scope]
  BY TopFrame, Tree DEF Frames
<1>6. Member # Root /\ Rank[Member] < Rank[Scope]
  BY <1>5, TopFrame, Tree, RankOfTree DEF Member
<1>7. \A i \in 1 .. Len(stack) : Rank[stack[i].list] \in Int
  BY TopFrame, RankOfTree, ListsFinite
<1>8. \A i \in 1 .. Len(stack) : Rank[Member] < Rank[stack[i].list]
  <2>1. TAKE i \in 1 .. Len(stack)
  <2>2. i = Len(stack) \/ i < Len(stack)
    BY <1>1
  <2>3. Rank[Member] \in Int
    BY RankOfTree, ListsFinite
  <2>4. QED
    <3>1. Rank[Scope] = Rank[stack[Len(stack)].list] /\ Len(stack) \in 1 .. Len(stack)
      BY TopFrame
    <3>2. i = Len(stack) \/ Rank[stack[Len(stack)].list] < Rank[stack[i].list]
      BY <2>2, <3>1 DEF StackInv
    <3>3. QED
      BY <1>6, <1>7, <2>3, <3>1, <3>2
<1>9. Rank[Member] + (Len(stack) + 1) <= Cardinality(Lists) + 1
  <2>1. Rank[Scope] + Len(stack) <= Cardinality(Lists) + 1
    BY TopFrame DEF StackInv
  <2>2. Rank[Member] \in Int /\ Rank[Scope] \in Int
    BY TopFrame, RankOfTree, ListsFinite
  <2>3. QED
    BY <1>1, <1>6, <2>1, <2>2, ListsFinite
<1>10. Frame(Member, h).list = Member
  BY DEF Frame
<1>11. /\ \A i \in 1 .. Len(stack') : Rank'[stack'[i].list] + i <= Cardinality(Lists) + 1
       /\ \A i, j \in 1 .. Len(stack') : i < j => Rank'[stack'[j].list] < Rank'[stack'[i].list]
  <2>1. ASSUME NEW i \in 1 .. Len(stack') PROVE i \in 1 .. Len(stack) \/ i = Len(stack) + 1
    BY <1>1, <1>3
  <2>2. \A i \in 1 .. Len(stack') : Rank'[stack'[i].list] + i <= Cardinality(Lists) + 1
    BY <1>4, <1>9, <1>10, <2>1, SameTree DEF StackInv
  <2>3. ASSUME NEW i \in 1 .. Len(stack'), NEW j \in 1 .. Len(stack'), i < j
        PROVE  Rank'[stack'[j].list] < Rank'[stack'[i].list]
    <3>1. i \in 1 .. Len(stack)
      BY <1>1, <1>3, <2>3
    <3>2. CASE j \in 1 .. Len(stack)
      BY <1>4, <2>3, <3>1, <3>2, SameTree DEF StackInv
    <3>3. CASE j = Len(stack) + 1
      BY <1>4, <1>8, <1>10, <3>1, <3>3, SameTree
    <3>4. QED
      BY <2>1, <3>2, <3>3
  <2>4. QED
    BY <2>2, <2>3
<1>12. /\ stack'[1].list = Root /\ stack'[1].hooked
       /\ \A i \in 2 .. Len(stack') : stack'[i].list # Root
       /\ \A i \in 1 .. Len(stack') : i # Len(stack') => stack'[i].at = "member"
  <2>1. ASSUME NEW i \in 1 .. Len(stack') PROVE i \in 1 .. Len(stack) \/ i = Len(stack) + 1
    BY <1>1, <1>3
  <2>2. \A i \in 1 .. Len(stack) : stack[i].at = "member"
    BY <1>1, TopFrame DEF StackInv, InSignals
  <2>3. QED
    BY <1>1, <1>3, <1>4, <1>6, <1>10, <2>1, <2>2 DEF StackInv
<1>13. \A i \in 1 .. Len(stack') : FrameInv(stack'[i])
  BY <1>1, <1>2, <1>3, <1>4 DEF StackInv
<1>14. StackInv'
  BY <1>3, <1>1, <1>11, <1>12, <1>13 DEF StackInv
<1>15. QED
  BY <1>3, <1>4, <1>14 DEF Top

(* A step that leaves the stack alone keeps what is said of it.            *)
LEMMA StackSame ==
  ASSUME StackInv, stack' = stack, server' = server
  PROVE  /\ StackInv' /\ Top' = Top /\ Scope' = Scope /\ InSignals' = InSignals /\ Member' = Member
  BY SameTree DEF StackInv, Top, Scope, InSignals, Member

-----------------------------------------------------------------------------
(* What is owed.                                                           *)

(* Nothing on the stack changes, and what travels goes on travelling.      *)
LEMMA OwedSame ==
  ASSUME OwedInv, server' = server, stack' = stack, owed' = owed,
         ChangeTravels' => ChangeTravels,
         shutdown' = 0 /\ ~failed' => shutdown = 0 /\ ~failed /\ (ChangeTravels => ChangeTravels')
  PROVE  OwedInv'
  BY SameTree DEF OwedInv, Remembered, HasSignals

(* A loop takes over what travelled to it: as pending in its own list, and *)
(* as "changed" for the lists around it.                                   *)
LEMMA OwedTop ==
  ASSUME StackInv, OwedInv, server \in Indices, server' = server, owed' = owed, ~ChangeTravels',
         NEW f \in Frames, Len(stack') = Len(stack), stack'[Len(stack)] = f, f.list = Scope,
         \A i \in 1 .. Len(stack) : i # Len(stack) => stack'[i] = stack[i],
         f.pending => Top.pending \/ ChangeTravels,
         f.status = "changed" => Top.status = "changed" \/ ChangeTravels,
         shutdown' = 0 /\ ~failed' =>
            /\ shutdown = 0 /\ ~failed
            /\ Top.pending /\ HasSignals(Scope) => f.pending
            /\ Top.status = "changed" => f.status = "changed"
            /\ ChangeTravels /\ HasSignals(Scope) => f.pending
            /\ ChangeTravels /\ Scope # Root => f.status = "changed"
  PROVE  OwedInv'
<1> DEFINE n == Len(stack)
<1>1. /\ n \in Nat /\ n \in 1 .. n /\ Top = stack[n] /\ Scope = stack[n].list
      /\ Scope = Root <=> n = 1
  BY TopFrame
<1>2. Signals' = Signals
  BY SameTree
<1>3. \A i \in 1 .. n : stack'[i].list = stack[i].list
  BY <1>1
<1>4. \A i \in 1 .. n : stack'[i].pending /\ HasSignals(stack[i].list) => stack[i].list \in owed
  BY <1>1 DEF OwedInv
<1>5. \A i, j \in 1 .. n :
        i < j /\ stack'[j].status = "changed" /\ HasSignals(stack[i].list) => stack[i].list \in owed
  BY <1>1 DEF OwedInv
<1>6. ASSUME shutdown' = 0, ~failed', NEW l \in owed PROVE Remembered(l)'
  <2>1. PICK i \in 1 .. n :
          /\ stack[i].list = l /\ HasSignals(l)
          /\ \/ stack[i].pending
             \/ \E j \in 1 .. n : i < j /\ stack[j].status = "changed"
             \/ ChangeTravels
    BY <1>6 DEF OwedInv, Remembered
  <2>2. CASE stack[i].pending
    BY <1>1, <1>2, <1>3, <1>6, <2>1, <2>2 DEF Remembered, HasSignals
  <2>3. CASE \E j \in 1 .. n : i < j /\ stack[j].status = "changed"
    <3>1. PICK j \in 1 .. n : i < j /\ stack[j].status = "changed"
      BY <2>3
    <3>2. stack'[j].status = "changed"
      BY <1>1, <1>6, <3>1
    <3>3. QED
      BY <1>2, <1>3, <2>1, <3>1, <3>2 DEF Remembered, HasSignals
  <2>4. CASE ChangeTravels
    <3>1. CASE i = n
      BY <1>1, <1>2, <1>3, <1>6, <2>1, <2>4, <3>1 DEF Remembered, HasSignals
    <3>2. CASE i # n
      <4>1. i < n /\ f.status = "changed"
        BY <1>1, <1>6, <2>4, <3>2
      <4>2. QED
        BY <1>1, <1>2, <1>3, <2>1, <4>1 DEF Remembered, HasSignals
    <3>3. QED
      BY <3>1, <3>2
  <2>5. QED
    BY <2>1, <2>2, <2>3, <2>4
<1>7. QED
  BY <1>2, <1>3, <1>4, <1>5, <1>6 DEF OwedInv, HasSignals

(* A list hands its change to the list around it.                          *)
LEMMA OwedPop ==
  ASSUME StackInv, OwedInv, server \in Indices, server' = server, owed' = owed, Scope # Root, Pop,
         ChangeTravels' => Top.status = "changed" \/ ChangeTravels,
         shutdown' = 0 /\ ~failed' =>
            /\ shutdown = 0 /\ ~failed /\ ~ChangeTravels
            /\ ~(Top.pending /\ HasSignals(Scope))
            /\ Top.status = "changed" => ChangeTravels'
  PROVE  OwedInv'
<1>1. /\ Len(stack) \in Nat /\ Len(stack') = Len(stack) - 1
      /\ Top = stack[Len(stack)] /\ Scope = stack[Len(stack)].list /\ Len(stack) \in 1 .. Len(stack)
      /\ \A i \in 1 .. Len(stack') : i \in 1 .. Len(stack) /\ i # Len(stack) /\ stack'[i] = stack[i]
  BY TopFrame, PopKeeps
<1>2. Signals' = Signals
  BY SameTree
<1>3. \A i \in 1 .. Len(stack') : i < Len(stack)
  BY <1>1
<1>4. /\ \A i \in 1 .. Len(stack') : stack'[i].pending /\ HasSignals(stack'[i].list) => stack'[i].list \in owed
      /\ \A i, j \in 1 .. Len(stack') :
           i < j /\ stack'[j].status = "changed" /\ HasSignals(stack'[i].list) => stack'[i].list \in owed
      /\ ChangeTravels' => \A i \in 1 .. Len(stack') : HasSignals(stack'[i].list) => stack'[i].list \in owed
  BY <1>1, <1>3 DEF OwedInv
<1>5. ASSUME shutdown' = 0, ~failed', NEW l \in owed PROVE Remembered(l)'
  <2>1. PICK i \in 1 .. Len(stack) :
          /\ stack[i].list = l /\ HasSignals(l)
          /\ \/ stack[i].pending
             \/ \E j \in 1 .. Len(stack) : i < j /\ stack[j].status = "changed"
             \/ ChangeTravels
    BY <1>5 DEF OwedInv, Remembered
  <2>2. i # Len(stack)
    <3>1. ASSUME i = Len(stack) PROVE ChangeTravels \/ Top.pending
      BY <1>1, <2>1, <3>1
    <3>2. QED
      BY <1>1, <1>5, <2>1, <3>1
  <2>3. i \in 1 .. Len(stack') /\ stack'[i] = stack[i]
    BY <1>1, <2>2
  <2>4. CASE \E j \in 1 .. Len(stack) : i < j /\ stack[j].status = "changed"
    <3>1. PICK j \in 1 .. Len(stack) : i < j /\ stack[j].status = "changed"
      BY <2>4
    <3>2. j = Len(stack) \/ (j \in 1 .. Len(stack') /\ stack'[j] = stack[j])
      BY <1>1
    <3>3. QED
      BY <1>1, <1>2, <1>5, <2>1, <2>3, <3>1, <3>2 DEF Remembered, HasSignals
  <2>5. QED
    BY <1>2, <1>5, <2>1, <2>3, <2>4 DEF Remembered, HasSignals
<1>6. QED
  BY <1>2, <1>4, <1>5 DEF OwedInv, HasSignals

-----------------------------------------------------------------------------
(* Before and after the loops.                                             *)

(* What a step that leaves the stack alone leaves alone.                   *)
LEMMA Still ==
  ASSUME IInv, server' = server, stack' = stack
  PROVE  /\ StackInv' /\ Members' = Members /\ Signals' = Signals
         /\ Top' = Top /\ Scope' = Scope /\ InSignals' = InSignals /\ Member' = Member
  BY StackSame, SameTree DEF IInv, ScalarInv

(* A plain answer has a status and asks for nothing else.                  *)
LEMMA Answers ==
  ASSUME NEW s \in Statuses
  PROVE  /\ Answer(s) \in Result /\ Answer(s).status = s
         /\ Answer(s).flush = FALSE /\ Answer(s).stop = FALSE
         /\ Answer(s).port = NoPort /\ Answer(s).reboot = FALSE
  BY DEF Answer, Result

(* prewarmRunSecrets and the first handshake.                              *)
LEMMA SetupKeeps ==
  ASSUME IInv, server' = server, Prewarm \/ PrewarmFails \/ Handshake
  PROVE  IInv'
<1>1. /\ stack' = stack /\ result' = result /\ failedStat' = failedStat /\ shutdown' = shutdown
      /\ conn' = conn /\ ports' = ports /\ added' = added /\ listening' = listening /\ exit' = exit
      /\ failed' = failed /\ owed' = owed /\ due' = due
      /\ committing' \in BOOLEAN
      /\ \/ phase = "prewarm" /\ phase' = "connect" /\ shutdown = 0
         \/ phase = "prewarm" /\ phase' = "teardown" /\ shutdown # 0
         \/ phase = "prewarm" /\ phase' = "abort" /\ shutdown = 0
         \/ phase \in {"connect", "portConnect", "rebootConnect"} /\ phase' = phase
  BY DEF Prewarm, PrewarmFails, Handshake, Connecting, link, history, IInv, ScalarInv
<1>2. ScalarInv' /\ LinkInv' /\ ExitInv'
  BY <1>1 DEF IInv, ScalarInv, LinkInv, ExitInv, Phases, PortsStayKnown, NothingLeftConnected
<1>3. StackInv' /\ StepInv'
  BY <1>1, Still DEF IInv, StepInv, HasSignals, Throws, ControlDue, Travels
<1>4. FailureInv'
  BY <1>1, Still DEF IInv, FailureInv, Failing, Travels
<1>5. OwedInv'
  BY <1>1, <1>3, Still, OwedSame DEF IInv, ScalarInv, ChangeTravels, Travels
<1>6. QED
  BY <1>2, <1>3, <1>4, <1>5 DEF IInv

(* commitAcceptedHostKeyAndRegisterClient: the client of a finished        *)
(* handshake is the run's, also when nobody waits for it any more.         *)
LEMMA RegisterKeeps ==
  ASSUME IInv, server' = server, Register
  PROVE  IInv'
<1>1. /\ stack' = stack /\ result' = result /\ failedStat' = failedStat /\ shutdown' = shutdown
      /\ ports' = ports /\ added' = added /\ listening' = listening /\ exit' = exit
      /\ failed' = failed /\ owed' = owed /\ due' = due
      /\ committing' = FALSE /\ conn' \in ports
      /\ \/ phase = "connect" /\ phase' = "loop" /\ shutdown = 0
         \/ phase = "connect" /\ phase' = "teardown" /\ shutdown # 0
         \/ phase = "portConnect" /\ phase' \in {"reboot", "absorb"}
         \/ phase = "rebootConnect" /\ phase' = "absorb"
  <2>1. CASE phase = "connect"
    BY <2>1 DEF Register, Connecting, history
  <2>2. CASE phase = "portConnect"
    BY <2>2 DEF Register, Connecting, history
  <2>3. CASE phase = "rebootConnect"
    BY <2>3 DEF Register, Connecting, history
  <2>4. QED
    BY <2>1, <2>2, <2>3 DEF Register, Connecting, history
<1>2. ScalarInv' /\ LinkInv' /\ ExitInv'
  BY <1>1 DEF IInv, ScalarInv, LinkInv, ExitInv, Phases, PortsStayKnown, NothingLeftConnected
<1>3. StackInv' /\ StepInv'
  BY <1>1, Still DEF IInv, StepInv, HasSignals, Throws, ControlDue, Travels
<1>4. FailureInv'
  BY <1>1, Still DEF IInv, FailureInv, Failing, Travels
<1>5. OwedInv'
  BY <1>1, <1>3, Still, OwedSame DEF IInv, ScalarInv, ChangeTravels, Travels
<1>6. QED
  BY <1>2, <1>3, <1>4, <1>5 DEF IInv

(* A failed attempt is an error of the run, or of the hook that made it.   *)
LEMMA ConnectFailsKeeps ==
  ASSUME IInv, server' = server, ConnectFails
  PROVE  IInv'
<1>1. /\ stack' = stack /\ failedStat' = failedStat /\ shutdown' = shutdown
      /\ conn' = conn /\ added' = added /\ listening' = listening /\ exit' = exit
      /\ owed' = owed /\ due' = due /\ committing' = FALSE
      /\ phase \in {"connect", "portConnect", "rebootConnect"}
  BY DEF ConnectFails, Connecting
<1>2. \/ /\ phase = "connect" /\ phase' = IF shutdown = 0 THEN "abort" ELSE "teardown"
         /\ ports' = ports /\ result' = result /\ failed' = failed
      \/ /\ phase # "connect" /\ result' = Answer("throws")
         /\ phase' = IF Kind[Scope] = "recipe" /\ ~InSignals THEN "escape" ELSE "absorb"
         /\ failed' = (failed \/ shutdown = 0)
         /\ ports' = IF phase = "portConnect" /\ conn = NoPort THEN ports \ added ELSE ports
  BY DEF ConnectFails, HookThrows
<1>3. result' \in Result
  BY <1>2, Answers DEF IInv, ScalarInv, Statuses
<1>4. ScalarInv' /\ LinkInv' /\ ExitInv'
  BY <1>1, <1>2, <1>3 DEF IInv, ScalarInv, LinkInv, ExitInv, Phases, PortsStayKnown, NothingLeftConnected
<1>5. /\ StackInv' /\ Members' = Members /\ Signals' = Signals
      /\ Top' = Top /\ Scope' = Scope /\ InSignals' = InSignals /\ Member' = Member
  BY <1>1, Still
<1>6. Kind[Scope] = "recipe" => Scope # Root
  BY TopFrame, Tree DEF IInv, ScalarInv
<1>7. StepInv'
  BY <1>1, <1>2, <1>5, <1>6 DEF IInv, StepInv, HasSignals, Throws, ControlDue, Travels, Answer
<1>8. FailureInv'
  <2>1. CASE phase = "connect"
    BY <1>1, <1>2, <1>5, <2>1 DEF IInv, FailureInv, Failing, Travels
  <2>2. CASE phase # "connect"
    <3>1. result'.status = "throws" /\ phase' \in {"escape", "absorb"} /\ failed' = (failed \/ shutdown = 0)
      BY <1>2, <2>2 DEF Answer
    <3>2. QED
      BY <1>1, <1>5, <3>1 DEF FailureInv, Failing, Travels
  <2>3. QED
    BY <2>1, <2>2
<1>9. OwedInv'
  <2>1. ~ChangeTravels'
    BY <1>1, <1>2 DEF ChangeTravels, Travels, Answer
  <2>2. shutdown' = 0 /\ ~failed' => ~ChangeTravels /\ ~failed
    BY <1>1, <1>2 DEF ChangeTravels, Travels, IInv, ScalarInv
  <2>3. QED
    BY <1>1, <2>1, <2>2, OwedSame DEF IInv
<1>10. QED
  BY <1>4, <1>5, <1>7, <1>8, <1>9 DEF IInv

-----------------------------------------------------------------------------
(* The members of a list.                                                  *)

(* The loops start a member or a signal, or end.                           *)
LEMMA AdvanceKeeps ==
  ASSUME IInv, server' = server, NextMember \/ StartLeaf \/ StartSignal
  PROVE  IInv'
<1>1. /\ stack' = stack /\ result' = result /\ failedStat' = failedStat /\ shutdown' = shutdown
      /\ conn' = conn /\ ports' = ports /\ added' = added /\ listening' = listening /\ exit' = exit
      /\ failed' = failed /\ owed' = owed /\ due' = due /\ committing' = committing
      /\ \/ phase = "loop" /\ phase' = "finish"
         \/ phase = "loop" /\ phase' = "check" /\ ~(Top.idx > Len(Members[Scope]))
         \/ phase = "start" /\ phase' = "apply" /\ Member \in Modules
         \/ phase = "signal" /\ phase' = "apply" /\ Top.sig <= Len(Signals[Scope])
  BY DEF NextMember, StartLeaf, StartSignal, link, history
<1>2. ScalarInv' /\ LinkInv' /\ ExitInv'
  BY <1>1 DEF IInv, ScalarInv, LinkInv, ExitInv, Phases, PortsStayKnown, NothingLeftConnected
<1>3. Top.idx \in Nat /\ Len(Members[Scope]) \in Nat
  BY TopFrame, Tree DEF IInv, ScalarInv, Frames
<1>4. StackInv' /\ StepInv'
  BY <1>1, <1>3, Still DEF IInv, StepInv, HasSignals, Throws, ControlDue, Travels
<1>5. FailureInv'
  BY <1>1, Still DEF IInv, FailureInv, Failing, Travels
<1>6. OwedInv'
  BY <1>1, Still, OwedSame DEF IInv, ScalarInv, ChangeTravels, Travels
<1>7. QED
  BY <1>2, <1>4, <1>5, <1>6 DEF IInv

(* check() is an answer or an error.                                       *)
LEMMA CheckKeeps ==
  ASSUME IInv, server' = server, Check
  PROVE  IInv'
<1>1. PICK a \in CheckAnswers(Member) :
        /\ result' = Answer(IF a = "needs" THEN "ok" ELSE a)
        /\ failed' = (failed \/ (a = "throws" /\ shutdown = 0))
        /\ SetTop([Top EXCEPT !.idx = IF a = "ok" THEN @ + 1 ELSE @])
        /\ phase' = CASE a = "ok" -> "loop"
                      [] a = "throws" -> "absorb"
                      [] OTHER -> IF InterruptedBeforeApply THEN "finish" ELSE "start"
  BY DEF Check
<1> DEFINE f == [Top EXCEPT !.idx = IF a = "ok" THEN @ + 1 ELSE @]
<1>2. /\ phase = "check" /\ ~InSignals
      /\ failedStat' = failedStat /\ shutdown' = shutdown /\ exit' = exit
      /\ conn' = conn /\ ports' = ports /\ added' = added /\ listening' = listening
      /\ owed' = owed /\ due' = due /\ committing' = committing
  BY DEF Check, link, IInv, StepInv
<1>3. Top \in Frames /\ Scope \in Lists /\ FrameInv(Top) /\ Top.list = Scope
  BY TopFrame DEF IInv, ScalarInv, Scope
<1>4. Member \in Modules \cup Lists
  <2>1. Top.idx \in DOMAIN Members[Scope]
    BY <1>2, <1>3, Tree DEF IInv, ScalarInv, StepInv, Frames
  <2>2. QED
    BY <1>3, <2>1, Tree DEF IInv, ScalarInv, Member
<1>5. a \in {"ok", "needs", "throws"}
  BY <1>1, <1>4, RunnerAssumption DEF CheckAnswers
<1>6. /\ result' \in Result /\ result'.status \in {"ok", "throws"}
      /\ result'.status = "throws" <=> a = "throws"
  BY <1>1, <1>5, Answers DEF Statuses
<1>7. phase' \in {"loop", "absorb", "finish", "start"} /\ (phase' = "absorb" <=> a = "throws")
  BY <1>1, <1>5
<1>8. ScalarInv' /\ LinkInv' /\ ExitInv'
  BY <1>1, <1>2, <1>6, <1>7 DEF IInv, ScalarInv, LinkInv, ExitInv, Phases, PortsStayKnown, NothingLeftConnected
<1>9. /\ f \in Frames /\ f.list = Scope /\ f.hooked = Top.hooked /\ f.at = Top.at /\ f.pending = Top.pending
      /\ f.status = Top.status /\ f.sig = Top.sig /\ f.flush = Top.flush
      /\ a # "ok" => f.idx = Top.idx
  BY <1>3 DEF Frames
<1>10. FrameInv(f) /\ SetTop(f)
  BY <1>1, <1>3, <1>9 DEF FrameInv
<1>11. /\ StackInv' /\ Len(stack') = Len(stack) /\ Top' = f /\ Scope' = Scope
       /\ stack'[Len(stack)] = f
       /\ \A i \in 1 .. Len(stack) : i # Len(stack) => stack'[i] = stack[i]
  BY <1>9, <1>10, SetTopKeeps DEF IInv, ScalarInv
<1>12. ~InSignals'
  BY <1>2, <1>9, <1>11 DEF InSignals
<1>13. StepInv'
  <2>1. phase' = "start" => a = "needs" /\ ~InterruptedBeforeApply
    BY <1>1, <1>5
  <2>2. Member' = Member \/ phase' # "start"
    BY <1>9, <1>11, <2>1, SameTree DEF Member
  <2>3. phase' = "start" => shutdown = 0 \/ Member \in Lists
    BY <2>1 DEF InterruptedBeforeApply, IInv, ScalarInv
  <2>4. phase' = "start" => Top'.idx <= Len(Members'[Scope'])
    BY <1>2, <1>9, <1>11, <2>1, SameTree DEF IInv, StepInv
  <2>5. QED
    BY <1>2, <1>6, <1>7, <1>12, <2>2, <2>3, <2>4 DEF StepInv, Travels
<1>14. FailureInv'
  <2>1. ~(failed /\ shutdown = 0)
    BY <1>2 DEF IInv, FailureInv
  <2>2. shutdown = 0 => \A i \in 1 .. Len(stack') : stack'[i].status = "failed" => failed'
    <3>1. \A i \in 1 .. Len(stack) : stack'[i].status = stack[i].status
      BY <1>9, <1>11, TopFrame DEF IInv, ScalarInv
    <3>2. QED
      BY <1>1, <1>11, <3>1 DEF IInv, FailureInv
  <2>3. QED
    BY <1>1, <1>2, <1>6, <1>7, <2>1, <2>2 DEF FailureInv, Travels, Failing
<1>15. OwedInv'
  <2>1. ~ChangeTravels /\ ~ChangeTravels'
    BY <1>2, <1>6 DEF ChangeTravels, Travels
  <2>2. shutdown' = 0 /\ ~failed' => shutdown = 0 /\ ~failed
    BY <1>1, <1>2 DEF IInv, ScalarInv
  <2>3. QED
    BY <1>2, <1>9, <1>11, <2>1, <2>2, OwedTop DEF IInv, ScalarInv
<1>16. QED
  BY <1>8, <1>11, <1>13, <1>14, <1>15 DEF IInv

(* A list begins with a clean frame.                                       *)
LEMMA EnterListKeeps ==
  ASSUME IInv, server' = server, EnterList
  PROVE  IInv'
<1>1. /\ phase = "start" /\ phase' = "loop" /\ Member \in Lists /\ ~InSignals
      /\ Top.idx <= Len(Members[Scope])
      /\ result' = result /\ failedStat' = failedStat /\ shutdown' = shutdown
      /\ conn' = conn /\ ports' = ports /\ added' = added /\ listening' = listening /\ exit' = exit
      /\ failed' = failed /\ owed' = owed /\ due' = due /\ committing' = committing
  BY DEF EnterList, link, history, IInv, StepInv
<1>2. PICK h \in BOOLEAN : stack' = Append(stack, Frame(Member, h))
  BY DEF EnterList
<1>3. /\ StackInv' /\ Len(stack') = Len(stack) + 1 /\ Top' = Frame(Member, h)
      /\ \A i \in 1 .. Len(stack) : stack'[i] = stack[i]
  BY <1>1, <1>2, PushKeeps DEF IInv, ScalarInv
<1>4. /\ Top'.at = "member" /\ Top'.pending = FALSE /\ Top'.status = "ok" /\ Top' = stack'[Len(stack')]
  BY <1>3 DEF Frame, Top
<1>5. ScalarInv' /\ LinkInv' /\ ExitInv'
  BY <1>1 DEF IInv, ScalarInv, LinkInv, ExitInv, Phases, PortsStayKnown, NothingLeftConnected
<1>6. StepInv' /\ ~InSignals'
  BY <1>1, <1>4 DEF StepInv, Travels, InSignals
<1>7. \A i \in 1 .. Len(stack') : i \in 1 .. Len(stack) \/ (i = Len(stack') /\ i = Len(stack) + 1)
  BY <1>3, TopFrame DEF IInv, ScalarInv
<1>8. FailureInv'
  BY <1>1, <1>3, <1>4, <1>7 DEF IInv, FailureInv, Travels
<1>9. OwedInv'
  <2>1. ~ChangeTravels /\ ~ChangeTravels'
    BY <1>1 DEF ChangeTravels, Travels
  <2>2. Signals' = Signals /\ Len(stack) \in Nat
    BY SameTree, TopFrame DEF IInv, ScalarInv
  <2>3. /\ \A i \in 1 .. Len(stack') : stack'[i].pending /\ HasSignals(stack'[i].list) => stack'[i].list \in owed
        /\ \A i, j \in 1 .. Len(stack') :
             i < j /\ stack'[j].status = "changed" /\ HasSignals(stack'[i].list) => stack'[i].list \in owed
    BY <1>3, <1>4, <1>7, <2>2 DEF IInv, OwedInv
  <2>4. ASSUME shutdown' = 0, ~failed', NEW l \in owed PROVE Remembered(l)'
    <3>1. PICK i \in 1 .. Len(stack) :
            /\ stack[i].list = l /\ HasSignals(l)
            /\ \/ stack[i].pending
               \/ \E j \in 1 .. Len(stack) : i < j /\ stack[j].status = "changed"
      BY <1>1, <2>1, <2>4 DEF IInv, OwedInv, Remembered
    <3>2. \A j \in 1 .. Len(stack) : j \in 1 .. Len(stack')
      BY <1>3, <2>2
    <3>3. QED
      BY <1>3, <2>2, <3>1, <3>2 DEF Remembered, HasSignals
  <2>5. QED
    BY <1>1, <2>1, <2>2, <2>3, <2>4 DEF OwedInv, HasSignals
<1>10. QED
  BY <1>3, <1>5, <1>6, <1>8, <1>9 DEF IInv

(* The guard of a block is false.                                          *)
LEMMA SkipBlockKeeps ==
  ASSUME IInv, server' = server, SkipBlock
  PROVE  IInv'
<1>1. /\ phase = "start" /\ phase' = "report" /\ result' = Answer("skipped")
      /\ stack' = stack /\ failedStat' = failedStat /\ shutdown' = shutdown
      /\ conn' = conn /\ ports' = ports /\ added' = added /\ listening' = listening /\ exit' = exit
      /\ failed' = failed /\ owed' = owed /\ due' = due /\ committing' = committing
  BY DEF SkipBlock, link, history
<1>2. /\ result' \in Result /\ result'.status = "skipped" /\ result'.port = NoPort /\ result'.reboot = FALSE
  BY <1>1, Answers DEF Statuses
<1>3. ScalarInv' /\ LinkInv' /\ ExitInv'
  BY <1>1, <1>2 DEF IInv, ScalarInv, LinkInv, ExitInv, Phases, PortsStayKnown, NothingLeftConnected
<1>4. /\ StackInv' /\ InSignals' = InSignals /\ Top' = Top /\ Scope' = Scope
  BY <1>1, Still
<1>5. StepInv'
  BY <1>1, <1>2, <1>4, SameTree DEF IInv, StepInv, HasSignals, ControlDue, Travels
<1>6. FailureInv'
  BY <1>1, <1>2, <1>4 DEF IInv, FailureInv, Failing, Travels
<1>7. OwedInv'
  BY <1>1, <1>2, OwedSame DEF IInv, ScalarInv, ChangeTravels, Travels
<1>8. QED
  BY <1>3, <1>4, <1>5, <1>6, <1>7 DEF IInv

(* Whatever the module or the signal answers, a change is owed to the      *)
(* lists around it from now on, and a failure is on its way.               *)
LEMMA ApplyEndsKeeps ==
  ASSUME IInv, server' = server, ApplyEnds
  PROVE  IInv'
<1>1. PICK r \in Results[IF InSignals THEN Signals[Scope][Top.sig] ELSE Member] :
        /\ result' = r
        /\ failed' = (failed \/ r.status = "failed" \/ (r.status = "throws" /\ shutdown = 0))
        /\ due' = due + (IF ControlDue(r) THEN 1 ELSE 0)
        /\ owed' = owed \cup (IF r.status = "changed" /\ ~InSignals
                              THEN {l \in OpenLists : HasSignals(l)} ELSE {})
        /\ listening' = IF r.port # NoPort THEN {r.port} ELSE listening
        /\ \E moved \in {p \in {r.port} \ {NoPort} : conn # NoPort} \cup {conn} :
             /\ conn' = moved
             /\ ports' = ports \cup ({moved} \ {NoPort})
        /\ phase' = IF r.status = "throws" THEN "absorb" ELSE "report"
  BY DEF ApplyEnds
<1>2. /\ phase = "apply" /\ stack' = stack /\ failedStat' = failedStat /\ shutdown' = shutdown
      /\ added' = added /\ exit' = exit /\ committing' = committing
  BY DEF ApplyEnds
<1>3. r \in Result /\ (r.flush => r.status # "failed")
  <2>1. CASE InSignals
    <3>1. Top.sig \in DOMAIN Signals[Scope]
      BY <1>2, <2>1, TopFrame, Tree DEF IInv, ScalarInv, StepInv, Frames
    <3>2. Signals[Scope][Top.sig] \in Modules
      BY <3>1, TopFrame, Tree DEF IInv, ScalarInv
    <3>3. QED
      BY <1>1, <2>1, <3>2, RunnerAssumption
  <2>2. CASE ~InSignals
    BY <1>1, <1>2, <2>2, RunnerAssumption DEF IInv, StepInv
  <2>3. QED
    BY <2>1, <2>2
<1>4. /\ r.status \in Statuses /\ r.port \in ReportedPorts \cup {NoPort}
      /\ conn' \in {r.port, conn} /\ ports' = ports \cup ({conn'} \ {NoPort})
  BY <1>1, <1>3 DEF Result
<1>5. /\ StackInv' /\ Members' = Members /\ Signals' = Signals
      /\ Top' = Top /\ Scope' = Scope /\ InSignals' = InSignals
  BY <1>2, Still
<1>6. OpenLists = {stack[i].list : i \in 1 .. Len(stack)} /\ OpenLists \subseteq Lists
  BY TopFrame DEF IInv, ScalarInv, StackInv, OpenLists
<1>7. ScalarInv'
  <2>1. due' \in Nat
    BY <1>1 DEF IInv, ScalarInv
  <2>2. conn' \in Ports \cup {NoPort} /\ ports' \subseteq Ports /\ listening' \subseteq Ports
    BY <1>1, <1>4 DEF IInv, ScalarInv, Ports
  <2>3. owed' \subseteq Lists /\ phase' \in Phases /\ failed' \in BOOLEAN
    BY <1>1, <1>6 DEF IInv, ScalarInv, Phases
  <2>4. QED
    BY <1>1, <1>2, <1>3, <2>1, <2>2, <2>3 DEF IInv, ScalarInv
<1>8. LinkInv' /\ ExitInv'
  BY <1>1, <1>2, <1>4 DEF IInv, LinkInv, ExitInv, PortsStayKnown, NothingLeftConnected
<1>9. StepInv'
  <2>1. ControlDue(r) => due' >= 1
    BY <1>1 DEF IInv, ScalarInv
  <2>2. ControlDue(result)' = ControlDue(r)
    BY <1>1 DEF ControlDue
  <2>3. QED
    BY <1>1, <1>2, <1>3, <1>5, <2>1, <2>2 DEF IInv, StepInv, HasSignals, Travels
<1>10. FailureInv'
  <2>1. shutdown = 0 => ~failed
    BY <1>2 DEF IInv, FailureInv
  <2>2. Failing' /\ shutdown = 0 <=> failed' /\ shutdown = 0
    BY <1>1, <2>1 DEF Failing
  <2>3. QED
    BY <1>1, <1>2, <2>1, <2>2 DEF IInv, FailureInv, Travels
<1>11. OwedInv'
  <2>1. ~ChangeTravels /\ (ChangeTravels' <=> r.status = "changed" /\ ~InSignals)
    BY <1>1, <1>2, <1>5 DEF ChangeTravels, Travels
  <2>2. owed \subseteq owed'
    BY <1>1
  <2>3. ChangeTravels' => \A i \in 1 .. Len(stack) : HasSignals(stack[i].list) => stack[i].list \in owed'
    BY <1>1, <1>6, <2>1
  <2>4. ASSUME shutdown' = 0, ~failed', NEW l \in owed' PROVE Remembered(l)'
    <3>1. CASE l \in owed
      <4>1. shutdown = 0 /\ ~failed
        BY <1>1, <1>2, <2>4
      <4>2. Remembered(l)
        BY <3>1, <4>1 DEF IInv, OwedInv
      <4>3. QED
        BY <1>2, <1>5, <2>1, <4>2 DEF Remembered, HasSignals
    <3>2. CASE l \notin owed
      <4>1. l \in OpenLists /\ HasSignals(l) /\ ChangeTravels'
        BY <1>1, <2>1, <2>4, <3>2
      <4>2. QED
        BY <1>2, <1>5, <1>6, <4>1 DEF Remembered, HasSignals
    <3>3. QED
      BY <3>1, <3>2
  <2>5. QED
    BY <1>2, <1>5, <2>2, <2>3, <2>4 DEF IInv, OwedInv, HasSignals
<1>12. QED
  BY <1>5, <1>7, <1>8, <1>9, <1>10, <1>11 DEF IInv

-----------------------------------------------------------------------------
(* The control plane.                                                      *)

(* applyRunnerControlPlaneMeta, up to the reconnect.                       *)
LEMMA ReportKeeps ==
  ASSUME IInv, server' = server, NoControlPlane \/ PortChange \/ Reboot \/ GraceEnds
  PROVE  IInv'
<1>1. /\ stack' = stack /\ result' = result /\ failedStat' = failedStat /\ shutdown' = shutdown
      /\ listening' = listening /\ exit' = exit /\ failed' = failed /\ owed' = owed
      /\ committing' = committing
      /\ phase \in {"report", "reboot"} /\ phase' \in {"absorb", "reboot", "portConnect", "rebootConnect"}
      /\ phase' = "absorb" \/ ~Failing \/ phase = "reboot"
  BY DEF NoControlPlane, PortChange, Reboot, GraceEnds, ControlDue, Failing, link, history
<1>2. /\ conn' \in {conn, NoPort}
      /\ \/ due' = due
         \/ due' = due - 1 /\ phase = "report" /\ ControlDue(result)
      /\ \/ ports' = ports /\ added' = added
         \/ ports' = ports \cup {result.port} /\ added' = {result.port} \ ports /\ result.port # NoPort
  BY DEF NoControlPlane, PortChange, Reboot, GraceEnds, link, history
<1>3. ScalarInv'
  <2>1. due' \in Nat
    BY <1>2 DEF IInv, ScalarInv, StepInv
  <2>2. result.port \in ReportedPorts \cup {NoPort}
    BY DEF IInv, ScalarInv, Result
  <2>3. ports' \subseteq Ports /\ added' \subseteq Ports /\ conn' \in Ports \cup {NoPort}
    BY <1>2, <2>2 DEF IInv, ScalarInv, Ports
  <2>4. QED
    BY <1>1, <2>1, <2>3 DEF IInv, ScalarInv, Phases
<1>4. LinkInv' /\ ExitInv'
  BY <1>1, <1>2 DEF IInv, LinkInv, ExitInv, PortsStayKnown, NothingLeftConnected
<1>5. StackInv' /\ StepInv'
  BY <1>1, Still DEF IInv, StepInv, HasSignals, Throws, Travels
<1>6. FailureInv'
  BY <1>1, Still DEF IInv, FailureInv, Failing, Travels
<1>7. OwedInv'
  BY <1>1, Still, OwedSame DEF IInv, ScalarInv, ChangeTravels, Travels
<1>8. QED
  BY <1>3, <1>4, <1>5, <1>6, <1>7 DEF IInv

-----------------------------------------------------------------------------
(* What each loop makes of a result.                                       *)

(* In a phase without a shutdown a failing result has been counted.        *)
LEMMA Counted ==
  ASSUME IInv, phase = "absorb"
  PROVE  /\ failed /\ shutdown = 0 <=> Failing /\ shutdown = 0
         /\ Failing => ~ChangeTravels
         /\ result.status = "changed" /\ ~InSignals <=> ChangeTravels
  BY DEF IInv, FailureInv, Travels, Failing, ChangeTravels

(* applyLoopResultToState: the run takes a top-level result in.            *)
LEMMA RootAbsorbsKeeps ==
  ASSUME IInv, server' = server, RootAbsorbs
  PROVE  IInv'
<1> DEFINE interrupted == Throws /\ shutdown # 0
           bad == Failing /\ ~interrupted
           stats == failedStat \/ bad
           pend == Top.pending \/ result.status = "changed"
           flush == /\ result.flush /\ shutdown = 0 /\ pend
                    /\ ~stats /\ HasSignals(Root)
           break == Failing \/ result.stop
           stop == Top.stop \/ result.stop
           at == IF flush THEN "flush" ELSE Top.at
           next == Top.idx + 1
           first == 1
           f == [Top EXCEPT !.pending = pend, !.stop = stop, !.idx = next, !.sig = first, !.at = at]
<1>1. /\ phase = "absorb" /\ Kind[Scope] = "run" /\ ~InSignals
      /\ failedStat' = stats
      /\ SetTop(f)
      /\ phase' = CASE flush -> "signal" [] ~flush /\ break -> "finish" [] OTHER -> "loop"
      /\ result' = result /\ shutdown' = shutdown
      /\ conn' = conn /\ ports' = ports /\ added' = added /\ listening' = listening
      /\ exit' = exit /\ failed' = failed /\ owed' = owed /\ due' = due /\ committing' = committing
  BY DEF RootAbsorbs, link, history
<1>2. Top \in Frames /\ Scope \in Lists /\ FrameInv(Top) /\ Top.list = Scope /\ Scope = Root
  BY <1>1, TopFrame, Tree DEF IInv, ScalarInv, Scope
<1>3. result.stop \in BOOLEAN /\ result.flush \in BOOLEAN /\ Kind[Root] = "run"
  BY <1>1, <1>2 DEF IInv, ScalarInv, Result
<1>4. /\ f \in Frames /\ f.list = Scope /\ f.hooked = Top.hooked /\ f.status = Top.status
      /\ f.pending = pend /\ f.flush = Top.flush /\ f.at = at
  <2>1. pend \in BOOLEAN /\ stop \in BOOLEAN /\ at \in {"member", "flush", "end"} /\ next \in Nat \ {0} /\ first \in Nat \ {0}
    BY <1>2, <1>3 DEF Frames
  <2> HIDE DEF pend, stop, at, next, first
  <2>2. f \in Frames
    BY <1>2, <2>1 DEF Frames
  <2>3. QED
    BY <1>2, <2>1, <2>2 DEF Frames
<1>5. FrameInv(f)
  BY <1>2, <1>3, <1>4 DEF FrameInv
<1>6. /\ StackInv' /\ Len(stack') = Len(stack) /\ Top' = f /\ Scope' = Scope
      /\ stack'[Len(stack)] = f
      /\ \A i \in 1 .. Len(stack) : i # Len(stack) => stack'[i] = stack[i]
  BY <1>1, <1>4, <1>5, SetTopKeeps DEF IInv, ScalarInv
<1>7. /\ phase' \in {"signal", "finish", "loop"} /\ (phase' = "signal" <=> flush)
      /\ Failing => phase' = "finish" \/ flush
      /\ Failing /\ shutdown = 0 => stats /\ phase' = "finish"
  BY <1>1
<1>8. ScalarInv' /\ LinkInv' /\ ExitInv'
  BY <1>1, <1>7 DEF IInv, ScalarInv, LinkInv, ExitInv, Phases, PortsStayKnown, NothingLeftConnected, Failing, Throws
<1>9. StepInv'
  <2>1. InSignals' <=> flush
    BY <1>1, <1>4, <1>6 DEF InSignals
  <2>2. flush => Top'.pending /\ HasSignals(Scope)'
    BY <1>2, <1>4, <1>6, SameTree DEF HasSignals
  <2>3. QED
    BY <1>7, <2>1, <2>2 DEF StepInv, Travels
<1>10. FailureInv'
  <2>1. \A i \in 1 .. Len(stack) : stack'[i].status = stack[i].status
    BY <1>4, <1>6, TopFrame DEF IInv, ScalarInv
  <2>2. failed' /\ shutdown' = 0 => phase' = "finish" /\ Scope' = Root /\ failedStat'
    BY <1>1, <1>2, <1>6, <1>7, Counted
  <2>3. QED
    BY <1>1, <1>6, <1>7, <2>1, <2>2 DEF IInv, FailureInv, Travels
<1>11. OwedInv'
  <2>1. ~ChangeTravels'
    BY <1>7 DEF ChangeTravels, Travels
  <2>2. f.pending <=> Top.pending \/ ChangeTravels
    BY <1>1, <1>2, <1>4, Counted DEF Frames
  <2>3. QED
    BY <1>1, <1>2, <1>4, <1>6, <2>1, <2>2, OwedTop DEF IInv, ScalarInv
<1>12. QED
  BY <1>6, <1>8, <1>9, <1>10, <1>11 DEF IInv

(* processRecipeStep: a recipe takes the result of a child in.             *)
LEMMA RecipeAbsorbsKeeps ==
  ASSUME IInv, server' = server, RecipeAbsorbs
  PROVE  IInv'
<1> DEFINE pend == Top.pending \/ result.status = "changed"
           flush == ~Throws /\ result.flush /\ pend /\ HasSignals(Scope)
           interrupted == Throws /\ shutdown # 0
           still == pend /\ ~Throws
           status == IF Failing THEN "failed"
                     ELSE IF result.status = "changed" THEN "changed" ELSE Top.status
           stop == (Top.stop \/ result.stop) /\ ~Throws
           at == IF flush THEN "flush" ELSE Top.at
           next == Top.idx + 1
           first == 1
           f == [Top EXCEPT !.pending = still, !.status = status, !.stop = stop,
                            !.idx = next, !.sig = first, !.at = at]
<1>1. /\ phase = "absorb" /\ Kind[Scope] = "recipe" /\ ~InSignals
      /\ IF interrupted THEN UNCHANGED stack ELSE SetTop(f)
      /\ phase' = CASE flush -> "signal"
                    [] ~flush /\ (Failing \/ result.stop) -> "finish"
                    [] OTHER -> "loop"
      /\ result' = result /\ shutdown' = shutdown /\ failedStat' = failedStat
      /\ conn' = conn /\ ports' = ports /\ added' = added /\ listening' = listening
      /\ exit' = exit /\ failed' = failed /\ owed' = owed /\ due' = due /\ committing' = committing
  BY DEF RecipeAbsorbs, link, history
<1>2. Top \in Frames /\ Scope \in Lists /\ FrameInv(Top) /\ Top.list = Scope /\ Scope # Root
  BY <1>1, TopFrame, Tree DEF IInv, ScalarInv, Scope
<1>3. /\ result.stop \in BOOLEAN /\ result.flush \in BOOLEAN /\ (flush => ~Failing)
  BY <1>1 DEF IInv, ScalarInv, Result, StepInv, Travels, Failing, Throws
<1>4. /\ phase' \in {"signal", "finish", "loop"} /\ (phase' = "signal" <=> flush)
      /\ Failing => phase' = "finish"
  BY <1>1, <1>3
<1>5. ScalarInv' /\ LinkInv' /\ ExitInv'
  BY <1>1, <1>4 DEF IInv, ScalarInv, LinkInv, ExitInv, Phases, PortsStayKnown, NothingLeftConnected
<1>6. CASE interrupted
  <2>1. stack' = stack /\ phase' = "finish" /\ shutdown' # 0 /\ ~ChangeTravels'
    BY <1>1, <1>4, <1>6 DEF Throws, Failing, ChangeTravels, Travels
  <2>2. StackInv' /\ InSignals' = InSignals
    BY <2>1, Still
  <2>3. StepInv' /\ FailureInv'
    BY <1>1, <2>1, <2>2 DEF StepInv, FailureInv, Travels
  <2>4. OwedInv'
    BY <1>1, <2>1, OwedSame DEF IInv
  <2>5. QED
    BY <1>5, <2>2, <2>3, <2>4 DEF IInv
<1>7. CASE ~interrupted
  <2>1. /\ f \in Frames /\ f.list = Scope /\ f.hooked = Top.hooked /\ f.flush = Top.flush
        /\ f.pending = still /\ f.status = status /\ f.at = at
    <3>1. /\ still \in BOOLEAN /\ stop \in BOOLEAN /\ at \in {"member", "flush", "end"}
          /\ status \in {"ok", "changed", "failed"} /\ next \in Nat \ {0} /\ first \in Nat \ {0}
      BY <1>2, <1>3 DEF Frames
    <3> HIDE DEF still, stop, at, status, next, first
    <3>2. f \in Frames
      BY <1>2, <3>1 DEF Frames
    <3>3. QED
      BY <1>2, <3>1, <3>2 DEF Frames
  <2>2. FrameInv(f)
    BY <1>1, <1>2, <2>1 DEF FrameInv, Frames
  <2>3. /\ StackInv' /\ Len(stack') = Len(stack) /\ Top' = f /\ Scope' = Scope
        /\ stack'[Len(stack)] = f
        /\ \A i \in 1 .. Len(stack) : i # Len(stack) => stack'[i] = stack[i]
    BY <1>1, <1>7, <2>1, <2>2, SetTopKeeps DEF IInv, ScalarInv
  <2> HIDE DEF f
  <2>4. StepInv'
    <3>1. InSignals' <=> flush
      BY <1>1, <2>1, <2>3 DEF InSignals
    <3>2. flush => Top'.pending /\ HasSignals(Scope)'
      BY <1>2, <2>1, <2>3, SameTree DEF HasSignals
    <3>3. QED
      BY <1>4, <3>1, <3>2 DEF StepInv, Travels
  <2>5. FailureInv'
    <3>1. \A i \in 1 .. Len(stack) : i # Len(stack) => stack'[i].status = stack[i].status
      BY <2>3
    <3>2. f.status = "failed" => Failing \/ Top.status = "failed"
      BY <2>1
    <3>3. shutdown = 0 => \A i \in 1 .. Len(stack') : stack'[i].status = "failed" => failed'
      <4>1. shutdown = 0 => \A i \in 1 .. Len(stack) : stack[i].status = "failed" => failed
        BY DEF IInv, FailureInv
      <4>2. Top = stack[Len(stack)] /\ Len(stack) \in 1 .. Len(stack)
        BY TopFrame DEF IInv, ScalarInv
      <4>3. shutdown = 0 /\ f.status = "failed" => failed
        BY <1>1, <3>2, <4>1, <4>2, Counted
      <4>4. QED
        BY <1>1, <2>3, <3>1, <4>1, <4>3
    <3>4. failed' /\ shutdown' = 0 => phase' = "finish" /\ Scope' # Root /\ Top'.status = "failed"
      BY <1>1, <1>2, <1>4, <2>1, <2>3, Counted
    <3>5. QED
      BY <1>1, <1>4, <3>3, <3>4 DEF FailureInv, Travels
  <2>6. OwedInv'
    <3>1. ~ChangeTravels'
      BY <1>4 DEF ChangeTravels, Travels
    <3>2. /\ f.pending => Top.pending \/ ChangeTravels
          /\ f.status = "changed" => Top.status = "changed" \/ ChangeTravels
      BY <1>1, <1>2, <2>1, Counted DEF Frames
    <3>3. shutdown = 0 /\ ~failed =>
             /\ Top.pending \/ ChangeTravels => f.pending
             /\ Top.status = "changed" \/ ChangeTravels => f.status = "changed"
      <4>1. shutdown = 0 /\ ~failed => ~Failing /\ ~Throws /\ (result.status = "changed" <=> ChangeTravels)
        BY <1>1, Counted DEF Failing, Throws
      <4>2. shutdown = 0 /\ ~failed => (Top.pending \/ ChangeTravels => still)
        BY <4>1
      <4>3. shutdown = 0 /\ ~failed => (Top.status = "changed" \/ ChangeTravels => status = "changed")
        BY <4>1
      <4> HIDE DEF still, status
      <4>4. QED
        BY <2>1, <4>2, <4>3
    <3>4. QED
      BY <1>1, <1>2, <2>1, <2>3, <3>1, <3>2, <3>3, OwedTop DEF IInv, ScalarInv
  <2>7. QED
    BY <1>5, <2>3, <2>4, <2>5, <2>6 DEF IInv
<1>8. QED
  BY <1>6, <1>7

(* A block hands a failed child's result, or its error, out as its own.    *)
LEMMA BlockAbsorbsKeeps ==
  ASSUME IInv, server' = server, BlockAbsorbs
  PROVE  IInv'
<1> DEFINE status == IF result.status = "changed" THEN "changed" ELSE Top.status
           stop == Top.stop \/ result.stop
           flush == Top.flush \/ result.flush
           next == Top.idx + 1
           f == [Top EXCEPT !.status = status, !.stop = stop, !.flush = flush, !.idx = next]
<1>1. /\ phase = "absorb" /\ Kind[Scope] = "when"
      /\ IF Failing
         THEN /\ Pop
              /\ phase' = IF Throws THEN "absorb" ELSE "report"
         ELSE /\ SetTop(f)
              /\ phase' = IF result.stop THEN "finish" ELSE "loop"
      /\ result' = result /\ shutdown' = shutdown /\ failedStat' = failedStat
      /\ conn' = conn /\ ports' = ports /\ added' = added /\ listening' = listening
      /\ exit' = exit /\ failed' = failed /\ owed' = owed /\ due' = due /\ committing' = committing
  BY DEF BlockAbsorbs, link, history
<1>2. /\ Top \in Frames /\ Scope \in Lists /\ FrameInv(Top) /\ Top.list = Scope /\ Scope # Root
      /\ ~HasSignals(Scope)
  BY <1>1, TopFrame, Tree DEF IInv, ScalarInv, Scope
<1>3. ~InSignals /\ result.stop \in BOOLEAN /\ result.flush \in BOOLEAN
  BY <1>2 DEF IInv, ScalarInv, Result, StepInv
<1>4. phase' \in {"absorb", "report", "finish", "loop"}
  BY <1>1
<1>5. ScalarInv' /\ LinkInv' /\ ExitInv'
  BY <1>1, <1>4 DEF IInv, ScalarInv, LinkInv, ExitInv, Phases, PortsStayKnown, NothingLeftConnected
<1>6. CASE Failing
  <2>1. Pop /\ phase' = (IF Throws THEN "absorb" ELSE "report") /\ Failing'
    BY <1>1, <1>6 DEF Failing
  <2>2. /\ StackInv' /\ ~InSignals' /\ Len(stack') = Len(stack) - 1
        /\ \A i \in 1 .. Len(stack') : i \in 1 .. Len(stack) /\ stack'[i] = stack[i]
    BY <1>2, <2>1, PopKeeps DEF IInv, ScalarInv
  <2>3. StepInv'
    BY <1>1, <1>6, <2>1, <2>2 DEF IInv, StepInv, Travels, Throws, Failing, ControlDue
  <2>4. FailureInv'
    BY <1>1, <2>1, <2>2 DEF IInv, FailureInv, Travels
  <2>5. OwedInv'
    <3>1. ~ChangeTravels'
      BY <1>1, <1>6 DEF ChangeTravels, Failing
    <3>2. ~(shutdown' = 0 /\ ~failed')
      BY <1>1, <1>6, Counted
    <3>3. QED
      BY <1>1, <1>2, <2>1, <3>1, <3>2, OwedPop DEF IInv, ScalarInv
  <2>6. QED
    BY <1>5, <2>2, <2>3, <2>4, <2>5 DEF IInv
<1>7. CASE ~Failing
  <2>1. /\ f \in Frames /\ f.list = Scope /\ f.hooked = Top.hooked /\ f.pending = Top.pending
        /\ f.status = status /\ f.at = Top.at /\ f.flush = flush
    <3>1. /\ status \in {"ok", "changed", "failed"} /\ stop \in BOOLEAN /\ flush \in BOOLEAN
          /\ next \in Nat \ {0}
      BY <1>2, <1>3 DEF Frames
    <3> HIDE DEF status, stop, flush, next
    <3>2. f \in Frames
      BY <1>2, <3>1 DEF Frames
    <3>3. QED
      BY <1>2, <3>1, <3>2 DEF Frames
  <2>2. FrameInv(f)
    BY <1>1, <1>2, <2>1 DEF FrameInv
  <2>3. /\ StackInv' /\ Len(stack') = Len(stack) /\ Top' = f /\ Scope' = Scope
        /\ stack'[Len(stack)] = f
        /\ \A i \in 1 .. Len(stack) : i # Len(stack) => stack'[i] = stack[i]
    BY <1>1, <1>7, <2>1, <2>2, SetTopKeeps DEF IInv, ScalarInv
  <2> HIDE DEF f
  <2>4. phase' \in {"finish", "loop"} /\ ~InSignals'
    BY <1>1, <1>3, <1>7, <2>1, <2>3 DEF InSignals
  <2>5. StepInv'
    BY <2>4 DEF StepInv, Travels
  <2>6. FailureInv'
    <3>1. \A i \in 1 .. Len(stack) : stack'[i].status = "failed" => stack[i].status = "failed"
      <4>1. f.status = "failed" => Top.status = "failed"
        BY <2>1
      <4>2. Top = stack[Len(stack)]
        BY TopFrame DEF IInv, ScalarInv
      <4>3. QED
        BY <2>3, <4>1, <4>2
    <3>2. ~(failed /\ shutdown = 0)
      BY <1>1, <1>7, Counted
    <3>3. QED
      BY <1>1, <2>3, <2>4, <3>1, <3>2 DEF IInv, FailureInv, Travels
  <2>7. OwedInv'
    <3>1. ~ChangeTravels'
      BY <2>4 DEF ChangeTravels, Travels
    <3>2. /\ f.status = "changed" => Top.status = "changed" \/ ChangeTravels
          /\ Top.status = "changed" \/ ChangeTravels => f.status = "changed"
      BY <1>1, <1>3, <2>1, Counted
    <3>3. QED
      BY <1>1, <1>2, <2>1, <2>3, <3>1, <3>2, OwedTop DEF IInv, ScalarInv
  <2>8. QED
    BY <1>5, <2>3, <2>5, <2>6, <2>7 DEF IInv
<1>8. QED
  BY <1>6, <1>7

(* An error of the hook leaves the recipe.                                 *)
LEMMA EscapeKeeps ==
  ASSUME IInv, server' = server, Escape
  PROVE  IInv'
<1>1. /\ phase = "escape" /\ phase' = "absorb" /\ Pop /\ Throws /\ Scope # Root
      /\ result' = result /\ shutdown' = shutdown /\ failedStat' = failedStat
      /\ conn' = conn /\ ports' = ports /\ added' = added /\ listening' = listening
      /\ exit' = exit /\ failed' = failed /\ owed' = owed /\ due' = due /\ committing' = committing
  BY DEF Escape, link, history, IInv, StepInv
<1>2. ScalarInv' /\ LinkInv' /\ ExitInv'
  BY <1>1 DEF IInv, ScalarInv, LinkInv, ExitInv, Phases, PortsStayKnown, NothingLeftConnected
<1>3. /\ StackInv' /\ ~InSignals' /\ Len(stack') = Len(stack) - 1
      /\ \A i \in 1 .. Len(stack') : i \in 1 .. Len(stack) /\ stack'[i] = stack[i]
  BY <1>1, PopKeeps DEF IInv, ScalarInv
<1>4. StepInv'
  BY <1>1, <1>3 DEF StepInv, Travels, Throws
<1>5. FailureInv'
  BY <1>1, <1>3 DEF IInv, FailureInv, Travels, Throws, Failing
<1>6. OwedInv'
  <2>1. ~ChangeTravels'
    BY <1>1 DEF ChangeTravels, Throws
  <2>2. ~(shutdown' = 0 /\ ~failed')
    BY <1>1 DEF IInv, FailureInv, Travels, Throws, Failing
  <2>3. QED
    BY <1>1, <2>1, <2>2, OwedPop DEF IInv, ScalarInv
<1>7. QED
  BY <1>2, <1>3, <1>4, <1>5, <1>6 DEF IInv

-----------------------------------------------------------------------------
(* The lists of signals.                                                   *)

(* The next signal, and the first one at the end of a list.                *)
LEMMA SignalsGoOn ==
  ASSUME IInv, server' = server, NextSignal \/ EndSignals
  PROVE  IInv'
<1> DEFINE next == Top.sig + 1
           first == 1
           f == IF InSignals THEN [Top EXCEPT !.sig = next] ELSE [Top EXCEPT !.at = "end", !.sig = first]
<1>1. /\ phase' = "signal" /\ SetTop(f) /\ Top.pending /\ HasSignals(Scope)
      /\ \/ phase = "absorb" /\ InSignals /\ ~Failing
         \/ phase = "finish" /\ ~InSignals /\ WantsEndSignals
      /\ result' = result /\ shutdown' = shutdown /\ failedStat' = failedStat
      /\ conn' = conn /\ ports' = ports /\ added' = added /\ listening' = listening
      /\ exit' = exit /\ failed' = failed /\ owed' = owed /\ due' = due /\ committing' = committing
  <2>1. CASE NextSignal
    BY <2>1 DEF NextSignal, link, history, IInv, StepInv
  <2>2. CASE EndSignals
    <3>1. phase = "finish" /\ ~InSignals
      BY <2>2 DEF EndSignals, IInv, StepInv
    <3>2. QED
      BY <2>2, <3>1 DEF EndSignals, WantsEndSignals, link, history
  <2>3. QED
    BY <2>1, <2>2
<1>2. Top \in Frames /\ Scope \in Lists /\ FrameInv(Top) /\ Top.list = Scope
  BY TopFrame DEF IInv, ScalarInv, Scope
<1>3. /\ f \in Frames /\ f.list = Scope /\ f.hooked = Top.hooked /\ f.pending = Top.pending
      /\ f.status = Top.status /\ f.flush = Top.flush /\ f.at # "member"
  <2>1. next \in Nat \ {0} /\ first \in Nat \ {0}
    BY <1>2 DEF Frames
  <2> HIDE DEF next, first
  <2>2. CASE InSignals
    BY <1>2, <2>1, <2>2 DEF Frames, InSignals
  <2>3. CASE ~InSignals
    BY <1>2, <2>1, <2>3 DEF Frames
  <2>4. QED
    BY <2>2, <2>3
<1>4. FrameInv(f)
  BY <1>2, <1>3 DEF FrameInv
<1>5. /\ StackInv' /\ Len(stack') = Len(stack) /\ Top' = f /\ Scope' = Scope
      /\ stack'[Len(stack)] = f
      /\ \A i \in 1 .. Len(stack) : i # Len(stack) => stack'[i] = stack[i]
  BY <1>1, <1>3, <1>4, SetTopKeeps DEF IInv, ScalarInv
<1> HIDE DEF f
<1>6. InSignals'
  BY <1>3, <1>5 DEF InSignals
<1>7. ScalarInv' /\ LinkInv' /\ ExitInv'
  BY <1>1 DEF IInv, ScalarInv, LinkInv, ExitInv, Phases, PortsStayKnown, NothingLeftConnected
<1>8. StepInv'
  BY <1>1, <1>3, <1>5, <1>6, SameTree DEF StepInv, Travels, HasSignals
<1>9. FailureInv'
  <2>1. \A i \in 1 .. Len(stack) : stack'[i].status = stack[i].status
    BY <1>3, <1>5, TopFrame DEF IInv, ScalarInv
  <2>2. ~(failed /\ shutdown = 0)
    <3>1. CASE phase = "absorb"
      BY <1>1, <3>1, Counted
    <3>2. CASE phase = "finish" /\ WantsEndSignals
      BY <1>2, <3>2, Tree DEF IInv, ScalarInv, FailureInv, WantsEndSignals
    <3>3. QED
      BY <1>1, <3>1, <3>2
  <2>3. QED
    BY <1>1, <1>5, <2>1, <2>2 DEF IInv, FailureInv, Travels
<1>10. OwedInv'
  <2>1. ~ChangeTravels /\ ~ChangeTravels'
    BY <1>1 DEF ChangeTravels, Travels
  <2>2. QED
    BY <1>1, <1>3, <1>5, <2>1, OwedTop DEF IInv, ScalarInv
<1>11. QED
  BY <1>5, <1>7, <1>8, <1>9, <1>10 DEF IInv

(* Nothing is pending in a list whose signals have run.                    *)
LEMMA AfterSignalsFrame ==
  ASSUME IInv, server' = server, InSignals, NEW bad \in BOOLEAN, SetTop(AfterSignals(Top, bad))
  PROVE  LET f == AfterSignals(Top, bad) IN
         /\ f \in Frames /\ f.list = Scope /\ f.pending = FALSE
         /\ f.status = (IF bad THEN "failed" ELSE Top.status) /\ ~InSignals'
         /\ StackInv' /\ Len(stack') = Len(stack) /\ Top' = f /\ Scope' = Scope
         /\ stack'[Len(stack)] = f
         /\ \A i \in 1 .. Len(stack) : i # Len(stack) => stack'[i] = stack[i]
<1> DEFINE status == IF bad THEN "failed" ELSE Top.status
           f == [Top EXCEPT !.pending = FALSE, !.at = "member", !.status = status]
<1>1. AfterSignals(Top, bad) = f
  BY DEF AfterSignals
<1>2. Top \in Frames /\ Scope \in Lists /\ FrameInv(Top) /\ Top.list = Scope /\ HasSignals(Scope)
  BY TopFrame DEF IInv, ScalarInv, Scope, StepInv
<1>3. Kind[Scope] # "when"
  BY <1>2, Tree DEF IInv, ScalarInv
<1>4. status \in {"ok", "changed", "failed"}
  BY <1>2 DEF Frames
<1>5. /\ f \in Frames /\ f.list = Scope /\ f.pending = FALSE /\ f.at = "member"
      /\ f.status = status /\ f.hooked = Top.hooked /\ f.flush = Top.flush
  <2> HIDE DEF status
  <2>1. QED
    BY <1>2, <1>4 DEF Frames
<1>6. FrameInv(f)
  BY <1>2, <1>3, <1>5 DEF FrameInv
<1> HIDE DEF f
<1>7. /\ StackInv' /\ Len(stack') = Len(stack) /\ Top' = f /\ Scope' = Scope
      /\ stack'[Len(stack)] = f
      /\ \A i \in 1 .. Len(stack) : i # Len(stack) => stack'[i] = stack[i]
  BY <1>1, <1>5, <1>6, SetTopKeeps DEF IInv, ScalarInv
<1>8. ~InSignals'
  BY <1>5, <1>7 DEF InSignals
<1>9. QED
  BY <1>1, <1>5, <1>7, <1>8

(* runSignalModules has run every signal: they are no longer pending.      *)
LEMMA SignalsDoneKeeps ==
  ASSUME IInv, server' = server, SignalsDone
  PROVE  IInv'
<1> DEFINE f == AfterSignals(Top, FALSE)
<1>1. /\ phase = "signal" /\ InSignals /\ SetTop(f) /\ phase' \in {"finish", "loop"}
      /\ owed' = IF Top.sig > Len(Signals[Scope]) THEN owed \ {Scope} ELSE owed
      /\ shutdown # 0 \/ Top.sig > Len(Signals[Scope])
      /\ result' = result /\ shutdown' = shutdown /\ failedStat' = failedStat
      /\ conn' = conn /\ ports' = ports /\ added' = added /\ listening' = listening
      /\ exit' = exit /\ failed' = failed /\ due' = due /\ committing' = committing
  BY DEF SignalsDone, SignalListEnds, link, history, IInv, StepInv
<1>2. /\ f \in Frames /\ f.list = Scope /\ f.pending = FALSE /\ f.status = Top.status /\ ~InSignals'
      /\ StackInv' /\ Len(stack') = Len(stack) /\ Top' = f /\ Scope' = Scope
      /\ stack'[Len(stack)] = f
      /\ \A i \in 1 .. Len(stack) : i # Len(stack) => stack'[i] = stack[i]
  BY <1>1, AfterSignalsFrame
<1> HIDE DEF f
<1>3. ScalarInv' /\ LinkInv' /\ ExitInv'
  BY <1>1 DEF IInv, ScalarInv, LinkInv, ExitInv, Phases, PortsStayKnown, NothingLeftConnected
<1>4. StepInv'
  BY <1>1, <1>2 DEF StepInv, Travels
<1>5. /\ Len(stack) \in Nat /\ Len(stack) \in 1 .. Len(stack)
      /\ Top = stack[Len(stack)] /\ Scope = stack[Len(stack)].list
      /\ \A i \in 1 .. Len(stack) : i # Len(stack) => stack[i].list # Scope
  BY TopFrame DEF IInv, ScalarInv
<1>6. \A i \in 1 .. Len(stack) : stack'[i].status = stack[i].status /\ stack'[i].list = stack[i].list
  BY <1>2, <1>5
<1>7. FailureInv'
  <2>1. ~(failed /\ shutdown = 0)
    BY <1>1 DEF IInv, FailureInv
  <2>2. QED
    BY <1>1, <1>2, <1>6, <2>1 DEF IInv, FailureInv, Travels
<1>8. OwedInv'
  <2>1. ~ChangeTravels /\ ~ChangeTravels' /\ Signals' = Signals
    BY <1>1, SameTree DEF ChangeTravels, Travels
  <2>2. \A i \in 1 .. Len(stack) : i # Len(stack) /\ stack[i].list \in owed => stack[i].list \in owed'
    BY <1>1, <1>5
  <2>3. \A i \in 1 .. Len(stack) : stack'[i].pending /\ HasSignals(stack[i].list) => stack[i].list \in owed'
    BY <1>2, <2>2 DEF IInv, OwedInv
  <2>4. ASSUME NEW i \in 1 .. Len(stack), NEW j \in 1 .. Len(stack),
               i < j, stack'[j].status = "changed", HasSignals(stack[i].list)
        PROVE  stack[i].list \in owed'
    <3>1. i # Len(stack)
      BY <1>5, <2>4
    <3>2. QED
      BY <1>6, <2>2, <2>4, <3>1 DEF IInv, OwedInv
  <2>5. ASSUME shutdown' = 0, ~failed', NEW l \in owed' PROVE Remembered(l)'
    <3>1. l \in owed /\ l # Scope /\ shutdown = 0 /\ ~failed
      BY <1>1, <2>5
    <3>2. PICK i \in 1 .. Len(stack) :
            /\ stack[i].list = l /\ HasSignals(l)
            /\ \/ stack[i].pending
               \/ \E j \in 1 .. Len(stack) : i < j /\ stack[j].status = "changed"
      BY <2>1, <3>1 DEF IInv, OwedInv, Remembered
    <3>3. i # Len(stack) /\ stack'[i] = stack[i]
      BY <1>2, <1>5, <3>1, <3>2
    <3>4. QED
      BY <1>2, <1>6, <2>1, <3>2, <3>3 DEF Remembered, HasSignals
  <2>6. QED
    BY <1>2, <1>6, <2>1, <2>3, <2>4, <2>5 DEF OwedInv, HasSignals
<1>9. QED
  BY <1>2, <1>3, <1>4, <1>7, <1>8 DEF IInv

(* handleSignalFailure: a failed signal ends its list and the run.         *)
LEMMA SignalFailsKeeps ==
  ASSUME IInv, server' = server, SignalFails
  PROVE  IInv'
<1> DEFINE f == AfterSignals(Top, TRUE)
<1>1. /\ phase = "absorb" /\ InSignals /\ Failing /\ SetTop(f) /\ phase' = "finish"
      /\ failedStat' = (failedStat \/ Top.hooked) /\ failed' = TRUE
      /\ result' = result /\ shutdown' = shutdown /\ owed' = owed
      /\ conn' = conn /\ ports' = ports /\ added' = added /\ listening' = listening
      /\ exit' = exit /\ due' = due /\ committing' = committing
  BY DEF SignalFails, SignalListEnds, link
<1>2. /\ f \in Frames /\ f.list = Scope /\ f.pending = FALSE /\ f.status = "failed" /\ ~InSignals'
      /\ StackInv' /\ Len(stack') = Len(stack) /\ Top' = f /\ Scope' = Scope
      /\ stack'[Len(stack)] = f
      /\ \A i \in 1 .. Len(stack) : i # Len(stack) => stack'[i] = stack[i]
  BY <1>1, AfterSignalsFrame
<1> HIDE DEF f
<1>3. Scope = Root => failedStat' = TRUE
  BY <1>1, TopFrame DEF IInv, ScalarInv
<1>4. failedStat' \in BOOLEAN
  BY <1>1, TopFrame DEF IInv, ScalarInv, Frames
<1>5. ScalarInv' /\ LinkInv' /\ ExitInv'
  BY <1>1, <1>4 DEF IInv, ScalarInv, LinkInv, ExitInv, Phases, PortsStayKnown, NothingLeftConnected
<1>6. StepInv' /\ FailureInv'
  BY <1>1, <1>2, <1>3 DEF StepInv, FailureInv, Travels
<1>7. OwedInv'
  <2>1. ~ChangeTravels'
    BY <1>1 DEF ChangeTravels, Travels
  <2>2. QED
    BY <1>1, <1>2, <2>1, OwedTop DEF IInv, ScalarInv
<1>8. QED
  BY <1>2, <1>5, <1>6, <1>7 DEF IInv

-----------------------------------------------------------------------------
(* The end of a list, and of the run.                                      *)

(* A list ends and hands its result to the list around it.                 *)
LEMMA LeaveListKeeps ==
  ASSUME IInv, server' = server, LeaveList
  PROVE  IInv'
<1>1. /\ phase = "finish" /\ phase' = "report" /\ Scope # Root /\ ~WantsEndSignals /\ Pop /\ result' = ListResult
      /\ failedStat' = failedStat /\ shutdown' = shutdown
      /\ conn' = conn /\ ports' = ports /\ added' = added /\ listening' = listening
      /\ exit' = exit /\ failed' = failed /\ owed' = owed /\ due' = due /\ committing' = committing
  BY DEF LeaveList, link, history
<1>2. Top \in Frames /\ Scope \in Lists /\ FrameInv(Top) /\ Top.list = Scope /\ Kind[Scope] \in {"recipe", "when"}
  BY <1>1, TopFrame, Tree DEF IInv, ScalarInv, Scope
<1>3. /\ result' \in Result /\ result'.status = Top.status /\ result'.flush = Top.flush
      /\ result'.port = NoPort /\ result'.reboot = FALSE
  <2>1. Top.status \in {"ok", "changed", "failed"} /\ Top.stop \in BOOLEAN /\ Top.flush \in BOOLEAN
    BY <1>2 DEF Frames
  <2>2. result' = [Answer(Top.status) EXCEPT !.stop = Top.stop, !.flush = Top.flush]
    BY <1>1 DEF ListResult
  <2>3. QED
    BY <2>1, <2>2 DEF Answer, Result, Statuses
<1>4. ScalarInv' /\ LinkInv' /\ ExitInv'
  BY <1>1, <1>3 DEF IInv, ScalarInv, LinkInv, ExitInv, Phases, PortsStayKnown, NothingLeftConnected
<1>5. /\ StackInv' /\ ~InSignals' /\ Len(stack') = Len(stack) - 1
      /\ \A i \in 1 .. Len(stack') : i \in 1 .. Len(stack) /\ stack'[i] = stack[i]
  BY <1>1, PopKeeps DEF IInv, ScalarInv
<1>6. StepInv'
  BY <1>1, <1>2, <1>3, <1>5 DEF StepInv, Travels, ControlDue, FrameInv
<1>7. Top.status = "failed" /\ shutdown = 0 => failed
  BY TopFrame DEF IInv, ScalarInv, FailureInv
<1>8. FailureInv'
  <2>1. failed /\ shutdown = 0 => Top.status = "failed"
    BY <1>1 DEF IInv, FailureInv
  <2>2. QED
    BY <1>1, <1>2, <1>3, <1>5, <1>7, <2>1 DEF IInv, FailureInv, Travels, Failing, Frames
<1>9. OwedInv'
  <2>1. ~ChangeTravels /\ (ChangeTravels' <=> Top.status = "changed")
    BY <1>1, <1>3, <1>5 DEF ChangeTravels, Travels
  <2>2. shutdown' = 0 /\ ~failed' => ~(Top.pending /\ HasSignals(Scope))
    <3>1. Top.pending /\ HasSignals(Scope) => Kind[Scope] = "recipe"
      BY <1>2, Tree DEF IInv, ScalarInv
    <3>2. Top.pending /\ HasSignals(Scope) => Top.status = "failed"
      BY <1>1, <1>2, <3>1 DEF WantsEndSignals, FrameInv
    <3>3. QED
      BY <1>1, <1>7, <3>2
  <2>3. QED
    BY <1>1, <2>1, <2>2, OwedPop DEF IInv, ScalarInv
<1>10. QED
  BY <1>4, <1>5, <1>6, <1>8, <1>9 DEF IInv

(* A run that ends without a failure has nothing left to signal.           *)
LEMMA RunDoneKeeps ==
  ASSUME IInv, server' = server, RunDone
  PROVE  IInv'
<1>1. /\ phase = "finish" /\ phase' = "teardown" /\ Scope = Root /\ ~WantsEndSignals
      /\ stack' = stack /\ result' = result /\ failedStat' = failedStat /\ shutdown' = shutdown
      /\ conn' = conn /\ ports' = ports /\ added' = added /\ listening' = listening /\ exit' = exit
      /\ failed' = failed /\ owed' = owed /\ due' = due /\ committing' = committing
  BY DEF RunDone, link, history
<1>2. shutdown = 0 /\ ~failedStat => ~failed
  BY <1>1 DEF IInv, FailureInv
<1>3. ASSUME shutdown = 0, ~failedStat PROVE owed = {}
  <2>1. ~ChangeTravels /\ Len(stack) = 1 /\ Top = stack[1] /\ stack[1].list = Root
    BY <1>1, TopFrame DEF ChangeTravels, Travels, IInv, ScalarInv, StackInv
  <2>2. Kind[Root] = "run"
    BY Tree DEF IInv, ScalarInv
  <2>3. ~(Top.pending /\ HasSignals(Root))
    BY <1>1, <1>3, <2>2 DEF WantsEndSignals
  <2>4. ASSUME NEW l \in owed PROVE FALSE
    <3>1. PICK i \in 1 .. Len(stack) :
            /\ stack[i].list = l /\ HasSignals(l)
            /\ \/ stack[i].pending
               \/ \E j \in 1 .. Len(stack) : i < j /\ stack[j].status = "changed"
      BY <1>2, <1>3, <2>1 DEF IInv, OwedInv, Remembered
    <3>2. i = 1 /\ \A j \in 1 .. Len(stack) : ~(i < j)
      BY <2>1
    <3>3. QED
      BY <2>1, <2>3, <3>1, <3>2
  <2>5. QED
    BY <2>4
<1>4. ScalarInv' /\ LinkInv' /\ ExitInv'
  BY <1>1, <1>2, <1>3 DEF IInv, ScalarInv, LinkInv, ExitInv, Phases, PortsStayKnown, NothingLeftConnected
<1>5. StackInv' /\ StepInv'
  BY <1>1, Still DEF IInv, StepInv, Travels
<1>6. FailureInv'
  BY <1>1, Still DEF IInv, FailureInv, Travels
<1>7. OwedInv'
  BY <1>1, OwedSame DEF IInv, ChangeTravels, Travels
<1>8. QED
  BY <1>4, <1>5, <1>6, <1>7 DEF IInv

(* teardownPlaybookResources: the clients are closed, whatever happened    *)
(* before.                                                                 *)
LEMMA TeardownKeeps ==
  ASSUME IInv, server' = server, Teardown
  PROVE  IInv'
<1>1. /\ phase \in {"teardown", "abort"} /\ phase' = "ended" /\ conn' = NoPort
      /\ exit' \in {"error", "signal", "failed", "ok"}
      /\ exit' = "ok" => phase = "teardown" /\ shutdown = 0 /\ ~failedStat
      /\ stack' = stack /\ result' = result /\ failedStat' = failedStat /\ shutdown' = shutdown
      /\ ports' = ports /\ added' = added /\ listening' = listening
      /\ failed' = failed /\ owed' = owed /\ due' = due /\ committing' = committing
  BY DEF Teardown, ExitCode, history
<1>2. ScalarInv' /\ LinkInv' /\ ExitInv'
  BY <1>1 DEF IInv, ScalarInv, LinkInv, ExitInv, Phases, PortsStayKnown, NothingLeftConnected
<1>3. StackInv' /\ StepInv'
  BY <1>1, Still DEF IInv, StepInv, Travels
<1>4. FailureInv'
  BY <1>1, Still DEF IInv, FailureInv, Travels
<1>5. OwedInv'
  BY <1>1, OwedSame DEF IInv, ChangeTravels, Travels
<1>6. QED
  BY <1>2, <1>3, <1>4, <1>5 DEF IInv

(* SIGINT and SIGTERM.                                                     *)
LEMMA ShutdownKeeps ==
  ASSUME IInv, server' = server, Interrupt \/ Kill
  PROVE  IInv'
<1>1. /\ Waiting /\ conn' = NoPort /\ shutdown' \in {1, 2}
      /\ \/ phase' = phase /\ exit' = exit
         \/ phase' = "ended" /\ exit' = "signal"
      /\ stack' = stack /\ result' = result /\ failedStat' = failedStat
      /\ ports' = ports /\ added' = added /\ listening' = listening
      /\ failed' = failed /\ owed' = owed /\ due' = due /\ committing' = committing
  BY DEF Interrupt, Kill, history
<1>2. exit # "ok"
  BY <1>1 DEF IInv, ExitInv, Waiting
<1>3. ScalarInv' /\ LinkInv' /\ ExitInv'
  BY <1>1, <1>2 DEF IInv, ScalarInv, LinkInv, ExitInv, Phases, PortsStayKnown, NothingLeftConnected
<1>4. StackInv' /\ StepInv'
  BY <1>1, Still DEF IInv, StepInv, Travels, Waiting, HasSignals, ControlDue, Throws
<1>5. FailureInv'
  BY <1>1 DEF FailureInv
<1>6. OwedInv'
  <2>1. ChangeTravels' => ChangeTravels
    BY <1>1, Still DEF ChangeTravels, Travels
  <2>2. QED
    BY <1>1, <2>1, OwedSame DEF IInv
<1>7. QED
  BY <1>3, <1>4, <1>5, <1>6 DEF IInv

-----------------------------------------------------------------------------
(* The invariant.                                                          *)

(* A run begins with the frame of its root.                                *)
LEMMA InitKeeps == Init => IInv
<1> SUFFICES ASSUME Init PROVE IInv
  OBVIOUS
<1>1. /\ server \in Indices /\ phase = "prewarm" /\ stack = <<Frame(Root, TRUE)>> /\ result = Answer("ok")
      /\ failedStat = FALSE /\ shutdown = 0
      /\ conn = NoPort /\ committing = FALSE /\ ports = ConfiguredPorts /\ added = {}
      /\ listening = ConfiguredPorts
      /\ exit = "none" /\ failed = FALSE /\ owed = {} /\ due = 0
  BY DEF Init
<1>2. Root \in Lists /\ Rank[Root] \in 1 .. Cardinality(Lists)
  BY <1>1, Tree, RankOfTree
<1> DEFINE r == Frame(Root, TRUE)
<1>3. /\ r \in Frames /\ FrameInv(r) /\ r.list = Root /\ r.hooked /\ r.at = "member"
      /\ ~r.pending /\ r.status = "ok"
  BY <1>2 DEF Frame, Frames, FrameInv
<1>4. stack = <<r>>
  BY <1>1
<1> HIDE DEF r
<1>5. stack \in Seq(Frames) /\ Len(stack) = 1 /\ stack[1] = r
  BY <1>3, <1>4
<1>6. /\ \A i \in 1 .. Len(stack) : i = 1 /\ stack[i] = r
      /\ \A i, j \in 1 .. Len(stack) : ~(i < j)
      /\ \A i \in 2 .. Len(stack) : FALSE
  BY <1>5
<1>7. StackInv
  <2>1. Rank[Root] + 1 <= Cardinality(Lists) + 1
    BY <1>2, ListsFinite
  <2>2. \A i \in 1 .. Len(stack) : Rank[stack[i].list] + i <= Cardinality(Lists) + 1
    BY <1>3, <1>6, <2>1
  <2>3. \A i \in 1 .. Len(stack) : i # Len(stack) => stack[i].at = "member"
    BY <1>3, <1>6
  <2>4. \A i \in 1 .. Len(stack) : FrameInv(stack[i])
    BY <1>3, <1>6
  <2>5. Len(stack) >= 1 /\ stack[1].list = Root /\ stack[1].hooked
    BY <1>3, <1>5
  <2>6. QED
    BY <1>5, <1>6, <2>2, <2>3, <2>4, <2>5 DEF StackInv
<1>8. result \in Result /\ NoPort = 0
  BY <1>1, Answers DEF Statuses, NoPort
<1>9. ScalarInv
  <2>1. ports \subseteq Ports /\ added \subseteq Ports /\ listening \subseteq Ports
    BY <1>1 DEF Ports
  <2>2. failedStat \in BOOLEAN /\ committing \in BOOLEAN /\ failed \in BOOLEAN
    BY <1>1
  <2>3. QED
    BY <1>1, <1>8, <2>1, <2>2 DEF ScalarInv, Phases
<1>10. LinkInv /\ ExitInv
  BY <1>1 DEF LinkInv, ExitInv, PortsStayKnown, NothingLeftConnected
<1>11. Top = r /\ ~InSignals
  BY <1>3, <1>5 DEF Top, InSignals
<1>12. StepInv /\ FailureInv
  BY <1>1, <1>3, <1>6, <1>11 DEF StepInv, FailureInv, Travels
<1>13. OwedInv
  BY <1>1, <1>3, <1>6 DEF OwedInv, ChangeTravels, Travels
<1>14. QED
  BY <1>7, <1>9, <1>10, <1>12, <1>13 DEF IInv

(* Every step of the run, and a shutdown at any await, keeps the           *)
(* invariant.                                                              *)
LEMMA StepKeeps == IInv /\ [Next]_vars => IInv'
<1> SUFFICES ASSUME IInv, [Next]_vars PROVE IInv'
  OBVIOUS
<1>1. CASE Progress
  BY <1>1, SetupKeeps, RegisterKeeps, ConnectFailsKeeps, AdvanceKeeps, CheckKeeps, EnterListKeeps,
     SkipBlockKeeps, ApplyEndsKeeps, ReportKeeps, RootAbsorbsKeeps, RecipeAbsorbsKeeps,
     BlockAbsorbsKeeps, EscapeKeeps, SignalsGoOn, SignalsDoneKeeps, SignalFailsKeeps,
     LeaveListKeeps, RunDoneKeeps, TeardownKeeps DEF Progress, Step
<1>2. CASE ShutdownSignal
  BY <1>2, ShutdownKeeps DEF ShutdownSignal
<1>3. CASE UNCHANGED vars
  <2>1. /\ server' = server /\ stack' = stack /\ phase' = phase /\ result' = result
        /\ failedStat' = failedStat /\ shutdown' = shutdown /\ exit' = exit
        /\ conn' = conn /\ ports' = ports /\ added' = added /\ listening' = listening
        /\ failed' = failed /\ owed' = owed /\ due' = due /\ committing' = committing
    BY <1>3 DEF vars, link, history
  <2>2. ScalarInv' /\ LinkInv' /\ ExitInv'
    BY <2>1 DEF IInv, ScalarInv, LinkInv, ExitInv, PortsStayKnown, NothingLeftConnected
  <2>3. StackInv' /\ StepInv' /\ FailureInv'
    BY <2>1, Still DEF IInv, StepInv, FailureInv, Travels, HasSignals, ControlDue, Throws, Failing
  <2>4. OwedInv'
    BY <2>1, Still, OwedSame DEF IInv, ChangeTravels, Travels
  <2>5. QED
    BY <2>2, <2>3, <2>4 DEF IInv
<1>4. QED
  BY <1>1, <1>2, <1>3 DEF Next

(* The invariant holds in every state of every run.                        *)
LEMMA IInvHolds == Spec => []IInv
  BY InitKeeps, StepKeeps, PTL DEF Spec

(* The first parts of the invariant give the state its type.               *)
LEMMA Typed == IInv => TypeOK
<1> SUFFICES ASSUME IInv PROVE TypeOK
  OBVIOUS
<1>1. Len(stack) \in 1 .. Cardinality(Lists)
  <2>1. Rank[stack[Len(stack)].list] + Len(stack) <= Cardinality(Lists) + 1
    BY TopFrame DEF IInv, ScalarInv, StackInv
  <2>2. Rank[stack[Len(stack)].list] \in 1 .. Cardinality(Lists)
    BY TopFrame, RankOfTree DEF IInv, ScalarInv
  <2>3. QED
    BY <2>1, <2>2, ListsFinite, TopFrame DEF IInv, ScalarInv
<1>2. \A i \in DOMAIN stack : stack[i] \in Frames
  BY TopFrame DEF IInv, ScalarInv, StackInv
<1>3. QED
  BY <1>1, <1>2 DEF IInv, ScalarInv, TypeOK, Frames, Phases

(* A run that exits 0 did all of it: in no definition, however its lists   *)
(* are nested, can a failure or a change without its signals be lost on    *)
(* the way from a member to the exit code.                                 *)
THEOREM ExitZeroIsComplete == Spec => []SuccessIsComplete
<1>1. IInv => SuccessIsComplete
  BY DEF IInv, ExitInv, SuccessIsComplete
<1>2. QED
  BY <1>1, IInvHolds, PTL

(* A list's signals run only for a change of its scope that was not        *)
(* signalled before (signalOrchestration, executeRecipe).                  *)
THEOREM SignalsServeAChange == Spec => []SignalsNeedChange
<1>1. IInv => SignalsNeedChange
  BY TopFrame DEF IInv, ScalarInv, StepInv, OwedInv, SignalsNeedChange
<1>2. QED
  BY <1>1, IInvHolds, PTL

(* The state keeps its type, the stack is no deeper than there are lists,  *)
(* and the run knows the port it works over.                               *)
THEOREM TheConnectionIsKnown == Spec => []ConnectionIsKnown
<1>1. IInv => ConnectionIsKnown
  BY Typed DEF IInv, LinkInv, ConnectionIsKnown
<1>2. QED
  BY <1>1, IInvHolds, PTL

(* Only two steps start work.                                              *)
LEMMA Starts ==
  ASSUME IInv, [Next]_vars, StartsWork
  PROVE  ~failed /\ shutdown = 0
<1>1. phase' = "apply" /\ phase # "apply"
  BY DEF StartsWork
<1>2. StartLeaf \/ StartSignal
  BY <1>1 DEF Next, Progress, ShutdownSignal, Step, vars, Prewarm, PrewarmFails, Handshake, Register,
     ConnectFails, HookThrows, NextMember, Check, EnterList, SkipBlock, ApplyEnds, NoControlPlane, PortChange,
     Reboot, GraceEnds, RootAbsorbs, RecipeAbsorbs, BlockAbsorbs, Escape, SignalsDone, SignalFails,
     SignalListEnds, NextSignal, EndSignals, LeaveList, RunDone, Teardown, Interrupt, Kill, Connecting
<1>3. (phase = "start" /\ Member \in Modules) \/ (phase = "signal" /\ shutdown = 0)
  BY <1>2 DEF StartLeaf, StartSignal
<1>4. shutdown = 0
  BY <1>3, Tree DEF IInv, ScalarInv, StepInv
<1>5. QED
  BY <1>3, <1>4 DEF IInv, FailureInv

(* After a failure nothing is applied any more, in any enclosing list.     *)
THEOREM FailureStopsTheRun == Spec => NothingAfterFailure
<1>1. IInv /\ [Next]_vars => [StartsWork => ~failed]_vars
  BY Starts
<1>2. QED
  BY <1>1, IInvHolds, PTL DEF Spec, NothingAfterFailure

(* After SIGINT or SIGTERM nothing is applied any more, although each loop *)
(* looks for a shutdown at its own points.                                 *)
THEOREM ShutdownStopsTheRun == Spec => NothingAfterShutdown
<1>1. IInv /\ [Next]_vars => [StartsWork => shutdown = 0]_vars
  BY Starts
<1>2. QED
  BY <1>1, IInvHolds, PTL DEF Spec, NothingAfterShutdown

-----------------------------------------------------------------------------
(* The control plane is dealt with before the next apply.                  *)

(* The blocks of the definition at hand, with what is inside of them.      *)
Guarded == CHOOSE guarded \in SUBSET Lists : Guards(server, guarded)

(* The runner's hook reached every list that no block contains.            *)
ReachInv == \A i \in DOMAIN stack : ~stack[i].hooked => stack[i].list \in Guarded

(* What is due is the result at hand, and the hook will see it.            *)
DueInv ==
  /\ due = IF phase = "report" /\ ControlDue(result) THEN 1 ELSE 0
  /\ phase = "report" /\ ControlDue(result) => Hooked

(* A definition whose blocks keep control-plane meta out of their signals. *)
LEMMA GuardedLists ==
  ASSUME SignalsReachTheHook, server \in Indices
  PROVE  /\ \A l \in Lists : Kind[l] = "when" => l \in Guarded
         /\ \A l \in Guarded :
              /\ \A i \in DOMAIN Signals[l] : \A r \in Results[Signals[l][i]] : ~ControlDue(r)
              /\ \A i \in DOMAIN Members[l] : Members[l][i] \in Lists => Members[l][i] \in Guarded
<1>1. \E guarded \in SUBSET Lists : Guards(server, guarded)
  BY DEF SignalsReachTheHook
<1>2. Guards(server, Guarded)
  BY <1>1 DEF Guarded
<1>3. QED
  BY <1>2 DEF Guards, HarmlessSignals, Members, Signals

(* A loop that rewrites its own frame reaches what it reached.             *)
LEMMA ReachTop ==
  ASSUME IInv, ReachInv, server' = server,
         NEW f, f.list = Scope, f.hooked = Top.hooked, SetTop(f)
  PROVE  ReachInv'
<1>1. Guarded' = Guarded
  BY DEF Guarded
<1>2. /\ stack' = [stack EXCEPT ![Len(stack)] = f] /\ DOMAIN stack = 1 .. Len(stack)
      /\ Len(stack) \in 1 .. Len(stack) /\ Top = stack[Len(stack)] /\ Scope = stack[Len(stack)].list
  BY TopFrame DEF SetTop, IInv, ScalarInv, StackInv
<1>3. DOMAIN stack' = DOMAIN stack /\ stack'[Len(stack)] = f
  BY <1>2
<1>4. \A i \in DOMAIN stack : i # Len(stack) => stack'[i] = stack[i]
  BY <1>2
<1>5. QED
  BY <1>1, <1>2, <1>3, <1>4 DEF ReachInv

(* A list that ends leaves the ones around it as they were.                *)
LEMMA ReachPop ==
  ASSUME IInv, ReachInv, server' = server, Scope # Root, Pop
  PROVE  ReachInv'
<1>1. Guarded' = Guarded
  BY DEF Guarded
<1>2. /\ \A i \in 1 .. Len(stack') : i \in 1 .. Len(stack) /\ stack'[i] = stack[i]
      /\ StackInv'
  BY PopKeeps DEF IInv, ScalarInv
<1>3. DOMAIN stack' = 1 .. Len(stack') /\ DOMAIN stack = 1 .. Len(stack)
  BY <1>2 DEF StackInv, IInv
<1>4. QED
  BY <1>1, <1>2, <1>3 DEF ReachInv

(* The frame a list rewrites after its signals is still its own.           *)
LEMMA ReachSignals ==
  ASSUME IInv, ReachInv, server' = server, NEW bad \in BOOLEAN, SetTop(AfterSignals(Top, bad))
  PROVE  ReachInv'
<1>1. Top \in Frames /\ Top.list = Scope
  BY TopFrame DEF IInv, ScalarInv, Scope
<1>2. AfterSignals(Top, bad).list = Scope /\ AfterSignals(Top, bad).hooked = Top.hooked
  BY <1>1 DEF AfterSignals, Frames
<1>3. QED
  BY <1>2, ReachTop

(* A list that begins is reached from the list around it, unless it is a   *)
(* block or inside of one.                                                 *)
LEMMA ReachEnter ==
  ASSUME IInv, ReachInv, SignalsReachTheHook, server' = server, EnterList
  PROVE  ReachInv'
<1> DEFINE f == Frame(Member, Top.hooked /\ Kind[Member] = "recipe")
<1>1. /\ Member \in Lists /\ ~InSignals /\ Top.idx <= Len(Members[Scope])
      /\ stack' = Append(stack, f)
  BY DEF EnterList, IInv, StepInv
<1>2. /\ Top \in Frames /\ Scope \in Lists /\ DOMAIN stack = 1 .. Len(stack)
      /\ Len(stack) \in 1 .. Len(stack) /\ Top = stack[Len(stack)] /\ Scope = stack[Len(stack)].list
  BY TopFrame DEF IInv, ScalarInv, StackInv
<1>3. Top.idx \in DOMAIN Members[Scope]
  BY <1>1, <1>2, Tree DEF Frames, IInv, ScalarInv
<1>4. Member # Root /\ Kind[Member] \in {"recipe", "when"}
  BY <1>1, <1>2, <1>3, Tree DEF Member, IInv, ScalarInv
<1>5. f.list = Member /\ f.hooked = (Top.hooked /\ Kind[Member] = "recipe")
  BY DEF Frame
<1>6. ~f.hooked => Member \in Guarded
  <2>1. CASE ~Top.hooked
    BY <1>1, <1>2, <1>3, <2>1, GuardedLists DEF ReachInv, Member, IInv, ScalarInv
  <2>2. CASE Kind[Member] = "when"
    BY <1>1, <2>2, GuardedLists DEF IInv, ScalarInv
  <2>3. QED
    BY <1>4, <1>5, <2>1, <2>2
<1>7. Guarded' = Guarded
  BY DEF Guarded
<1>8. /\ StackInv' /\ Len(stack') = Len(stack) + 1 /\ Top' = f
      /\ \A i \in 1 .. Len(stack) : stack'[i] = stack[i]
  BY <1>1, PushKeeps, Zenon DEF IInv, ScalarInv
<1>9. DOMAIN stack' = 1 .. Len(stack) + 1 /\ stack'[Len(stack) + 1] = f
  BY <1>8 DEF StackInv, Top
<1> HIDE DEF f
<1>10. ASSUME NEW i \in DOMAIN stack', ~stack'[i].hooked PROVE stack'[i].list \in Guarded
  <2>1. i = Len(stack) + 1 \/ i \in 1 .. Len(stack)
    BY <1>2, <1>9
  <2>2. CASE i = Len(stack) + 1
    BY <1>5, <1>6, <1>9, <1>10, <2>2
  <2>3. CASE i \in 1 .. Len(stack)
    BY <1>2, <1>8, <1>10, <2>3 DEF ReachInv
  <2>4. QED
    BY <2>1, <2>2, <2>3
<1>11. QED
  BY <1>7, <1>10 DEF ReachInv

(* No step loses the hook of a list that no block contains.                *)
LEMMA ReachKeeps ==
  ASSUME IInv, ReachInv, SignalsReachTheHook, [Next]_vars
  PROVE  ReachInv'
<1>0. server' = server
  BY DEF Next, Progress, ShutdownSignal, vars
<1>1. Top \in Frames /\ Top.list = Scope
  BY TopFrame DEF IInv, ScalarInv, Scope
<1>2. CASE stack' = stack
  BY <1>0, <1>2 DEF ReachInv, Guarded
<1>3. CASE Check
  <2>1. PICK a \in CheckAnswers(Member) : SetTop([Top EXCEPT !.idx = IF a = "ok" THEN @ + 1 ELSE @])
    BY <1>3 DEF Check
  <2>2. QED
    BY <1>0, <1>1, <2>1, ReachTop DEF Frames
<1>4. CASE EnterList
  BY <1>0, <1>4, ReachEnter
<1>5. CASE RootAbsorbs
  <2>1. PICK pend, stop, at :
          SetTop([Top EXCEPT !.pending = pend, !.stop = stop, !.idx = @ + 1, !.sig = 1, !.at = at])
    BY <1>5 DEF RootAbsorbs
  <2>2. QED
    BY <1>0, <1>1, <2>1, ReachTop DEF Frames
<1>6. CASE RecipeAbsorbs
  <2>1. PICK pend, status, stop, at :
          \/ stack' = stack
          \/ SetTop([Top EXCEPT !.pending = pend, !.status = status, !.stop = stop, !.idx = @ + 1,
                                !.sig = 1, !.at = at])
    BY <1>6 DEF RecipeAbsorbs
  <2>2. QED
    BY <1>0, <1>1, <1>2, <2>1, ReachTop DEF Frames
<1>7. CASE BlockAbsorbs
  <2>1. PICK status, stop, flush :
          \/ Pop
          \/ SetTop([Top EXCEPT !.status = status, !.stop = stop, !.flush = flush, !.idx = @ + 1])
    BY <1>7 DEF BlockAbsorbs
  <2>2. Scope # Root
    BY <1>1, <1>7, Tree DEF BlockAbsorbs, IInv, ScalarInv
  <2>3. QED
    BY <1>0, <1>1, <2>1, <2>2, ReachTop, ReachPop DEF Frames
<1>8. CASE Escape \/ LeaveList
  BY <1>0, <1>8, ReachPop DEF Escape, LeaveList, IInv, StepInv
<1>9. CASE SignalsDone \/ SignalFails
  BY <1>0, <1>9, ReachSignals DEF SignalsDone, SignalFails, SignalListEnds
<1>10. CASE NextSignal \/ EndSignals
  <2>1. \/ SetTop([Top EXCEPT !.sig = @ + 1])
        \/ SetTop([Top EXCEPT !.at = "end", !.sig = 1])
    BY <1>10 DEF NextSignal, EndSignals
  <2>2. QED
    BY <1>0, <1>1, <2>1, ReachTop DEF Frames
<1>11. CASE \/ Prewarm \/ PrewarmFails \/ Handshake \/ Register \/ ConnectFails \/ NextMember
            \/ StartLeaf \/ SkipBlock \/ ApplyEnds \/ NoControlPlane \/ PortChange \/ Reboot
            \/ GraceEnds \/ StartSignal \/ RunDone \/ Teardown \/ Interrupt \/ Kill
  BY <1>2, <1>11 DEF Prewarm, PrewarmFails, Handshake, Register, ConnectFails, NextMember, StartLeaf,
     SkipBlock, ApplyEnds, NoControlPlane, PortChange, Reboot, GraceEnds, StartSignal, RunDone, Teardown,
     Interrupt, Kill
<1>12. QED
  BY <1>2, <1>3, <1>4, <1>5, <1>6, <1>7, <1>8, <1>9, <1>10, <1>11
     DEF Next, Progress, ShutdownSignal, Step, vars

(* What a module or a signal reports is due, and only where the hook will  *)
(* see it.                                                                 *)
LEMMA ApplyIsDue ==
  ASSUME IInv, ReachInv, DueInv, SignalsReachTheHook, ApplyEnds, server' = server
  PROVE  DueInv'
<1>1. PICK r \in Results[IF InSignals THEN Signals[Scope][Top.sig] ELSE Member] :
        /\ result' = r
        /\ due' = due + (IF ControlDue(r) THEN 1 ELSE 0)
        /\ phase' = IF r.status = "throws" THEN "absorb" ELSE "report"
  BY DEF ApplyEnds
<1>2. phase = "apply" /\ stack' = stack /\ due = 0
  BY DEF ApplyEnds, DueInv
<1>3. ControlDue(r) => r.status # "throws" /\ phase' = "report"
  BY <1>1 DEF ControlDue
<1>4. ControlDue(result)' <=> ControlDue(r)
  BY <1>1 DEF ControlDue
<1>5. Hooked' = Hooked
  BY <1>2, Still DEF Hooked
<1>6. ControlDue(r) => Hooked
  <2>1. CASE InSignals /\ ~Top.hooked
    <3>1. Len(stack) \in DOMAIN stack /\ Top = stack[Len(stack)] /\ Scope = stack[Len(stack)].list
      BY TopFrame DEF IInv, ScalarInv, StackInv
    <3>2. Scope \in Guarded
      BY <2>1, <3>1 DEF ReachInv
    <3>3. Top.sig \in DOMAIN Signals[Scope]
      BY <1>2, <2>1, TopFrame, Tree DEF IInv, ScalarInv, StepInv, Frames
    <3>4. QED
      BY <1>1, <2>1, <3>2, <3>3, GuardedLists DEF IInv, ScalarInv
  <2>2. QED
    BY <2>1 DEF Hooked
<1>7. QED
  BY <1>1, <1>2, <1>3, <1>4, <1>5, <1>6 DEF DueInv

(* What is due is handled by the step that follows the report; a list      *)
(* hands nothing of it on.                                                 *)
LEMMA DueKeeps ==
  ASSUME IInv, ReachInv, DueInv, SignalsReachTheHook, [Next]_vars
  PROVE  DueInv'
<1>0. server' = server
  BY DEF Next, Progress, ShutdownSignal, vars
<1>1. CASE ApplyEnds
  BY <1>0, <1>1, ApplyIsDue
<1>2. CASE NoControlPlane
  BY <1>2 DEF NoControlPlane, DueInv, history
<1>3. CASE PortChange \/ Reboot
  BY <1>3 DEF PortChange, Reboot, DueInv
<1>4. CASE SkipBlock \/ LeaveList
  <2>1. due' = due /\ due = 0 /\ result' \in {Answer("skipped"), ListResult}
    BY <1>4 DEF SkipBlock, LeaveList, DueInv, history
  <2>2. result'.port = NoPort /\ ~result'.reboot
    <3>1. CASE result' = Answer("skipped")
      BY <3>1 DEF Answer
    <3>2. CASE result' = ListResult
      BY <3>2 DEF ListResult, Answer
    <3>3. QED
      BY <2>1, <3>1, <3>2
  <2>3. QED
    BY <2>1, <2>2 DEF DueInv, ControlDue
<1>5. CASE BlockAbsorbs
  <2>1. /\ due' = due /\ due = 0 /\ result' = result
        /\ phase' = "report" => Failing
    BY <1>5 DEF BlockAbsorbs, DueInv, history
  <2>2. QED
    BY <2>1 DEF DueInv, ControlDue, Failing
<1>6. CASE \/ Prewarm \/ PrewarmFails \/ Handshake \/ Register \/ ConnectFails \/ NextMember \/ Check
           \/ StartLeaf \/ EnterList \/ GraceEnds \/ RootAbsorbs \/ RecipeAbsorbs \/ Escape
           \/ StartSignal \/ SignalsDone \/ SignalFails \/ NextSignal \/ EndSignals \/ RunDone
           \/ Teardown \/ Interrupt \/ Kill
  <2>1. due' = due /\ phase # "report"
    BY <1>6 DEF Prewarm, PrewarmFails, Handshake, Register, ConnectFails, NextMember, Check, StartLeaf,
       EnterList, GraceEnds, RootAbsorbs, RecipeAbsorbs, Escape, StartSignal, SignalsDone, SignalFails,
       NextSignal, EndSignals, RunDone, Teardown, Interrupt, Kill, Connecting, Waiting, history
  <2>2. phase' # "report"
    BY <1>6, <2>1 DEF Prewarm, PrewarmFails, Handshake, Register, ConnectFails, HookThrows, NextMember,
       Check, StartLeaf, EnterList, GraceEnds, RootAbsorbs, RecipeAbsorbs, Escape, StartSignal,
       SignalsDone, SignalFails, SignalListEnds, NextSignal, EndSignals, RunDone, Teardown, Interrupt,
       Kill, Connecting
  <2>3. QED
    BY <2>1, <2>2 DEF DueInv
<1>7. CASE UNCHANGED vars
  BY <1>0, <1>7, Still DEF vars, history, DueInv, ControlDue, Hooked
<1>8. QED
  BY <1>1, <1>2, <1>3, <1>4, <1>5, <1>6, <1>7 DEF Next, Progress, ShutdownSignal, Step

(* A reported port change or reboot is dealt with before anything else is  *)
(* applied, in every tree whose blocks keep such meta out of the signal    *)
(* lists that the runner's hook does not reach.                            *)
THEOREM ControlPlaneComesFirst ==
  ASSUME SignalsReachTheHook
  PROVE  Spec => ControlPlaneIsPrompt
<1>1. Init => ReachInv /\ DueInv
  BY DEF Init, ReachInv, DueInv, Frame, ControlDue
<1>2. IInv /\ ReachInv /\ DueInv /\ [Next]_vars => (ReachInv /\ DueInv)'
  BY ReachKeeps, DueKeeps
<1>3. ReachInv /\ DueInv /\ [Next]_vars => [StartsWork => due = 0]_vars
  <2>1. SUFFICES ASSUME DueInv, [Next]_vars, StartsWork PROVE due = 0
    OBVIOUS
  <2>2. phase' = "apply" /\ phase # "apply"
    BY <2>1 DEF StartsWork
  <2>3. ~(phase = "report" /\ phase' = "apply")
    BY <2>1 DEF Next, Progress, ShutdownSignal, Step, vars, Prewarm, PrewarmFails, Handshake, Register,
       ConnectFails, HookThrows, NextMember, Check, StartLeaf, EnterList, SkipBlock, ApplyEnds,
       NoControlPlane, PortChange, Reboot, GraceEnds, RootAbsorbs, RecipeAbsorbs, BlockAbsorbs, Escape,
       StartSignal, SignalsDone, SignalFails, SignalListEnds, NextSignal, EndSignals, LeaveList, RunDone,
       Teardown, Interrupt, Kill, Connecting, Waiting
  <2>4. QED
    BY <2>1, <2>2, <2>3 DEF DueInv
<1>4. QED
  BY <1>1, <1>2, <1>3, IInvHolds, PTL DEF Spec, ControlPlaneIsPrompt

=============================================================================
