----------------------- MODULE HostResources_composed -----------------------
(***************************************************************************)
(* Proofs about HostResources: what a composed VM has on the host while    *)
(* other calls interleave, what a release leaves of it, and the types.     *)
(***************************************************************************)
EXTENDS HostResources_proofs

-----------------------------------------------------------------------------
(* What the moves of a call do to its own VM.                               *)
LEMMA GotoFacts ==
    ASSUME CallShape, NEW v \in VmIds, NEW l, Goto(v, l)
    PROVE  /\ pc'[v] = l /\ op'[v] = op[v] /\ todo'[v] = todo[v] /\ attached'[v] = attached[v]
           /\ released'[v] = released[v] /\ result'[v] = result[v]
  BY VmIsCaller, Zenon DEF Goto, CallShape

LEMMA GiveUpFacts ==
    ASSUME CallShape, NEW v \in VmIds, GiveUp(v)
    PROVE  /\ pc'[v] = "start" /\ result'[v] = "err" /\ released'[v] = released[v]
           /\ op[v] = "compose" => attached'[v] = {}
           /\ op[v] # "compose" => attached'[v] = attached[v]
           /\ op[v] = "release" => op'[v] \in {"release", "none"}
           /\ op[v] # "release" => op'[v] = "none"
  <1>1. v \in Callers /\ v # Gc
    BY VmIsCaller, CallAssumption, Zenon
  <1>2. result' = [result EXCEPT ![v] = "err"] /\ released' = released /\ pc' = [pc EXCEPT ![v] = "start"]
    BY <1>1, Zenon DEF GiveUp, Return
  <1>3. /\ op[v] = "compose" => attached' = [attached EXCEPT ![v] = {}]
        /\ op[v] # "compose" => attached' = attached
    BY Zenon DEF GiveUp
  <1>4. /\ op' = op \/ op' = [op EXCEPT ![v] = "none"]
        /\ op[v] # "release" => op' = [op EXCEPT ![v] = "none"]
    BY Zenon DEF GiveUp, Return
  <1> QED BY <1>1, <1>2, <1>3, <1>4, Zenon DEF CallShape

LEMMA DoneFacts ==
    ASSUME CallShape, NEW v \in VmIds, Done(v)
    PROVE  /\ pc'[v] = "start" /\ released'[v] = released[v]
           /\ op[v] = "compose" => attached'[v] = attached[v] \cup {Head(todo[v])}
           /\ op[v] # "compose" => attached'[v] = attached[v]
           /\ op'[v] \in {op[v], "none"}
           /\ op[v] = "release" => result'[v] = result[v]
           /\ \/ op'[v] = op[v] /\ todo'[v] = Tail(todo[v]) /\ result'[v] = result[v] /\ Len(todo[v]) > 1
              \/ op'[v] = "none" /\ Len(todo[v]) = 1
  <1>1. v \in Callers /\ v # Gc
    BY VmIsCaller, CallAssumption, Zenon
  <1>2. released' = released /\ pc' = [pc EXCEPT ![v] = "start"]
    BY Zenon DEF Done
  <1>3. /\ op[v] = "compose" => attached' = [attached EXCEPT ![v] = @ \cup {Head(todo[v])}]
        /\ op[v] # "compose" => attached' = attached
    BY Zenon DEF Done
  <1>4. \/ /\ todo' = [todo EXCEPT ![v] = Tail(@)] /\ UNCHANGED <<op, result>> /\ Len(todo[v]) > 1
        \/ /\ op' = [op EXCEPT ![v] = "none"] /\ Len(todo[v]) = 1
           /\ result' = [result EXCEPT ![v] = IF op[v] = "release" THEN result[v] ELSE "ok"]
    BY <1>1, Zenon DEF Done, Return
  <1>5. pc'[v] = "start" /\ released'[v] = released[v]
    BY <1>1, <1>2, Zenon DEF CallShape
  <1>6. /\ op[v] = "compose" => attached'[v] = attached[v] \cup {Head(todo[v])}
        /\ op[v] # "compose" => attached'[v] = attached[v]
    BY <1>3, Zenon DEF CallShape
  <1>7. CASE /\ todo' = [todo EXCEPT ![v] = Tail(@)] /\ UNCHANGED <<op, result>> /\ Len(todo[v]) > 1
    <2>1. op'[v] = op[v] /\ todo'[v] = Tail(todo[v]) /\ result'[v] = result[v] /\ Len(todo[v]) > 1
      BY <1>1, <1>7, Zenon DEF CallShape
    <2> QED BY <1>5, <1>6, <2>1, Zenon
  <1>8. CASE /\ op' = [op EXCEPT ![v] = "none"] /\ Len(todo[v]) = 1
             /\ result' = [result EXCEPT ![v] = IF op[v] = "release" THEN result[v] ELSE "ok"]
    <2>1. op'[v] = "none" /\ Len(todo[v]) = 1 /\ (op[v] = "release" => result'[v] = result[v])
      BY <1>1, <1>8, Zenon DEF CallShape
    <2> QED BY <1>5, <1>6, <2>1, Zenon
  <1> QED BY <1>4, <1>7, <1>8

-----------------------------------------------------------------------------
(* The firewall of a VM.  Its chain and its jump are in place once they are *)
(* installed, and the chain while the jump is, unless a caller struck them. *)
Guarded(v) == chain[v] = Rules(v) /\ OnForward(Jump(v))

InForce(v) ==
    /\ "firewall" \in attached[v] /\ op[v] \in {"compose", "none"}
    /\ op[v] = "none" => result[v] = "ok"

Linking(v) == Installing(v, "check") \/ Installing(v, "jump")

GuardInv(v) ==
    v \notin struck =>
        /\ InForce(v) => Guarded(v)
        /\ Linking(v) => chain[v] = Rules(v)

(* A step of another caller, or of another primitive, that spares v.        *)
Spared(v) ==
    v \notin struck' =>
        /\ v \notin struck /\ chain'[v] = chain[v] /\ allowlist'[v] = allowlist[v]
        /\ OnForward(Jump(v)) => OnForward(Jump(v))'

LEMMA SameRules ==
    ASSUME NEW v \in VmIds, allowlist'[v] = allowlist[v]
    PROVE  Rules(v)' = Rules(v)
  BY Zenon DEF Rules

LEMMA GuardedStays ==
    ASSUME NEW v \in VmIds, Spared(v), v \notin struck', Guarded(v)
    PROVE  Guarded(v)'
  BY SameRules, Zenon DEF Guarded, Spared, Jump

LEMMA GuardIdle ==
    ASSUME NEW v \in VmIds, ~InForce(v)', ~Linking(v)'
    PROVE  GuardInv(v)'
  BY Zenon DEF GuardInv

LEMMA StartIsUnlinked ==
    ASSUME NEW v \in VmIds, pc'[v] \notin {"check", "jump"} \/ op'[v] \notin {"compose", "install"}
    PROVE  ~Linking(v)'
  BY Zenon DEF Linking, Installing, At

LEMMA GuardSame ==
    ASSUME NEW v \in VmIds, GuardInv(v), SameVm(v), attached[v] # {} \/ op[v] # "none" => Spared(v)
    PROVE  GuardInv(v)'
  <1>1. (InForce(v)' <=> InForce(v)) /\ (Linking(v)' <=> Linking(v))
    BY Zenon DEF InForce, Linking, Installing, At, SameVm, Same
  <1>2. CASE attached[v] = {} /\ op[v] = "none"
    BY <1>1, <1>2, GuardIdle, Zenon DEF InForce, Linking, Installing, At
  <1>3. CASE Spared(v)
    BY <1>1, <1>3, GuardedStays, SameRules, Zenon DEF GuardInv, Spared
  <1> QED BY <1>2, <1>3

LEMMA GuardGivenUp ==
    ASSUME CallShape, NEW v \in VmIds, GiveUp(v)
    PROVE  GuardInv(v)'
  <1>1. ~Linking(v)'
    BY GiveUpFacts, StartIsUnlinked, Zenon
  <1>2. CASE op[v] = "compose"
    BY <1>1, <1>2, GiveUpFacts, GuardIdle, Zenon DEF InForce
  <1>3. CASE op[v] = "release"
    <2>1. attached'[v] = {}
      BY <1>3, GiveUpFacts, Zenon DEF CallShape
    <2> QED BY <1>1, <2>1, GuardIdle, Zenon DEF InForce
  <1>4. CASE op[v] # "release"
    <2>1. op'[v] = "none" /\ result'[v] = "err"
      BY <1>4, GiveUpFacts, Zenon
    <2> QED BY <1>1, <2>1, GuardIdle, Zenon DEF InForce
  <1> QED BY <1>2, <1>3, <1>4

LEMMA GuardReleased ==
    ASSUME CallShape, NEW v \in VmIds, op[v] = "release", Moves(v)
    PROVE  GuardInv(v)'
  <1>1. attached[v] = {}
    BY Zenon DEF CallShape
  <1>2. attached'[v] = {} /\ op'[v] \in {"release", "none"}
    BY <1>1, GotoFacts, DoneFacts, GiveUpFacts, Zenon DEF Moves
  <1> QED BY <1>2, GuardIdle, StartIsUnlinked, Zenon DEF InForce

LEMMA GuardElsewhere ==
    ASSUME CallShape, NEW v \in VmIds, GuardInv(v), op[v] = "compose", Head(todo[v]) # "firewall",
           Moves(v), Spared(v)
    PROVE  GuardInv(v)'
  <1>1. CASE GiveUp(v)
    BY <1>1, GuardGivenUp, Zenon
  <1>2. CASE \E l : Goto(v, l)
    <2>1. op'[v] = op[v] /\ todo'[v] = todo[v] /\ attached'[v] = attached[v]
      BY <1>2, GotoFacts, Zenon
    <2>2. ~Linking(v)' /\ (InForce(v)' => InForce(v))
      BY <2>1, Zenon DEF Linking, Installing, At, InForce
    <2> QED BY <2>2, GuardedStays, Zenon DEF GuardInv, Spared
  <1>3. CASE Done(v)
    <2>1. pc'[v] = "start" /\ attached'[v] = attached[v] \cup {Head(todo[v])}
      BY <1>3, DoneFacts, Zenon
    <2>2. ~Linking(v)' /\ (InForce(v)' => InForce(v))
      BY <2>1, StartIsUnlinked, Zenon DEF InForce
    <2> QED BY <2>2, GuardedStays, Zenon DEF GuardInv, Spared
  <1> QED BY <1>1, <1>2, <1>3, Zenon DEF Moves

LEMMA GuardBegun ==
    ASSUME CallShape, NEW v \in VmIds, Begun(v)
    PROVE  GuardInv(v)'
  <1>1. ~Linking(v)'
    BY BeginAlone, StartIsUnlinked, Zenon
  <1>2. attached'[v] = {} \/ op'[v] = "install"
    <2>1. \/ attached' = [attached EXCEPT ![v] = {}]
          \/ attached' = attached /\ attached[v] = {}
          \/ op' = [op EXCEPT ![v] = "install"]
      BY Zenon DEF Begun, BeginRelease, BeginCompose, BeginInstall
    <2> QED BY <2>1, VmIsCaller, Zenon DEF CallShape
  <1> QED BY <1>1, <1>2, GuardIdle, Zenon DEF InForce

(* v's firewall is at its own caller.                                       *)
OwnFilter(v) ==
    \/ \E rules \in Allowlists : BeginInstall(v, rules)
    \/ NewChain(v) \/ FlushChain(v) \/ FillChain(v) \/ InsertJump(v)
    \/ ListJumps(v) \/ DeleteLine(v) \/ FlushRemoved(v) \/ RemoveChain(v)

Live(v) == attached[v] # {} \/ op[v] # "none"

(* gc_orphans knows nothing of a VM whose chain it is removing.             *)
LEMMA LateAtLive ==
    ASSUME CallShape, ListInv, NEW v \in VmIds, Live(v), NEW c \in Callers, c # v, NEW l, Removing(c, l),
           Target(c) = v
    PROVE  Late(c)
  <1>1. c = Gc /\ Head(todo[Gc]) = v /\ todo[Gc] # <<>> /\ todo[Gc] \in Seq(Items)
    BY VmIsCaller, Zenon DEF Target, Removing, CallShape
  <1>2. v \in Elems(todo[Gc])
    BY <1>1, HeadIsElem, Zenon
  <1>3. v \notin known
    BY <1>2, VmIsNoAccept, Zenon DEF ListInv
  <1> QED BY <1>1, <1>3, Zenon DEF Late, Live

LEMMA SparedUnchanged ==
    ASSUME NEW v \in VmIds, UNCHANGED <<forward, chain, allowlist>>, v \in struck => v \in struck'
    PROVE  Spared(v)
  BY Zenon DEF Spared, OnForward, Jump

LEMMA SparedByDelete ==
    ASSUME CallShape, TableInv, ListInv, NEW v \in VmIds, Live(v), NEW c \in Callers, c # v, DeleteLine(c)
    PROVE  Spared(v)
  <1> DEFINE n == Max(indices[c])
  <1>1. /\ Removing(c, "delete") /\ indices[c] # {} /\ UNCHANGED <<chain, allowlist>>
        /\ \/ /\ n <= Len(forward) /\ forward' = RemoveLine(n)
              /\ Strikes(c \in outdated \/ Late(c), forward[n])
           \/ UNCHANGED <<forward, struck>>
    BY Zenon DEF DeleteLine, history
  <1>2. PICK h \in Nat : indices[c] \subseteq 1..h
    BY Zenon DEF TableInv
  <1>3. n \in indices[c]
    BY <1>1, <1>2, Highest, Zenon
  <1>4. n \in Nat /\ n >= 1
    BY <1>2, <1>3
  <1> HIDE DEF n
  <1>5. CASE UNCHANGED <<forward, struck>>
    BY <1>1, <1>5, SparedUnchanged, Zenon
  <1>6. CASE /\ n <= Len(forward) /\ forward' = RemoveLine(n)
             /\ Strikes(c \in outdated \/ Late(c), forward[n])
    <2>1. n \in 1..Len(forward)
      <3>1. forward \in Seq(Accepts \cup VmIds)
        BY Zenon DEF TableInv
      <3>2. Len(forward) \in Nat
        BY <3>1
      <3> QED BY <1>4, <1>6, <3>2
    <2>2. Elems(forward) \subseteq Elems(forward') \cup {forward[n]}
      BY <1>6, <2>1, RemovedLine, Zenon
    <2>3. struck \subseteq struck'
      BY <1>6, Zenon DEF Strikes
    <2>4. CASE forward[n] # v
      <3>1. OnForward(Jump(v)) => OnForward(Jump(v))'
        BY <2>2, <2>4, OnForwardIs, Zenon DEF Jump
      <3> QED BY <1>1, <2>3, <3>1, Zenon DEF Spared
    <2>5. CASE forward[n] = v
      <3>1. c \in outdated \/ Late(c)
        <4> SUFFICES ASSUME c \notin outdated PROVE Late(c)
          OBVIOUS
        <4>1. forward[n] = Target(c)
          BY <1>1, <1>3, Zenon DEF ListInv, IndicesOk, Jump
        <4> QED BY <1>1, <2>5, <4>1, LateAtLive, Zenon
      <3>2. v \in struck'
        BY <1>6, <2>5, <3>1, Zenon DEF Strikes
      <3> QED BY <3>2, Zenon DEF Spared
    <2> QED BY <2>4, <2>5
  <1> QED BY <1>1, <1>5, <1>6

LEMMA SparedByRemoval ==
    ASSUME CallShape, TableInv, ListInv, NEW v \in VmIds, Live(v), NEW c \in Callers, c # v,
           FlushRemoved(c) \/ RemoveChain(c)
    PROVE  Spared(v)
  <1>1. Removing(c, "delete") \/ Removing(c, "remove")
    BY Zenon DEF FlushRemoved, RemoveChain
  <1>2. /\ UNCHANGED <<forward, allowlist>>
        /\ \/ UNCHANGED <<chain, struck>>
           \/ /\ \E x : chain' = [chain EXCEPT ![Target(c)] = x]
              /\ Strikes(Late(c), Target(c))
    BY Zenon DEF FlushRemoved, RemoveChain
  <1>3. CASE UNCHANGED <<chain, struck>>
    BY <1>2, <1>3, SparedUnchanged, Zenon
  <1>4. CASE (\E x : chain' = [chain EXCEPT ![Target(c)] = x]) /\ Strikes(Late(c), Target(c)) /\ Target(c) = v
    <2>1. Late(c)
      BY <1>1, <1>4, LateAtLive, Zenon
    <2> QED BY <1>4, <2>1, Zenon DEF Strikes, Spared
  <1>5. CASE (\E x : chain' = [chain EXCEPT ![Target(c)] = x]) /\ Strikes(Late(c), Target(c)) /\ Target(c) # v
    <2>1. chain'[v] = chain[v] /\ (v \in struck => v \in struck')
      BY <1>5, Zenon DEF TableInv, Strikes
    <2>2. OnForward(Jump(v)) => OnForward(Jump(v))'
      BY <1>2, Zenon DEF OnForward, Jump
    <2> QED BY <1>2, <2>1, <2>2, Zenon DEF Spared
  <1> QED BY <1>2, <1>3, <1>4, <1>5, Zenon

LEMMA SparedByInstall ==
    ASSUME TableInv, NEW v \in VmIds, NEW w \in VmIds, w # v,
           \/ \E rules \in Allowlists : BeginInstall(w, rules) /\ UNCHANGED forward
           \/ NewChain(w) \/ FlushChain(w) \/ FillChain(w) \/ InsertJump(w)
    PROVE  Spared(v)
  <1>1. /\ chain' = chain \/ \E x : chain' = [chain EXCEPT ![w] = x]
        /\ allowlist' = allowlist \/ \E x : allowlist' = [allowlist EXCEPT ![w] = x]
        /\ struck' = struck \/ struck' = struck \ {w}
        /\ forward' = forward \/ forward' = <<Jump(w)>> \o forward
    BY Zenon DEF BeginInstall, NewChain, FlushChain, FillChain, InsertJump, history
  <1>2. chain'[v] = chain[v] /\ allowlist'[v] = allowlist[v] /\ (v \in struck => v \in struck')
    BY <1>1, Zenon DEF TableInv
  <1>3. OnForward(Jump(v)) => OnForward(Jump(v))'
    <2>1. CASE forward' = forward
      BY <2>1, Zenon DEF OnForward, Jump
    <2>2. CASE forward' = <<Jump(w)>> \o forward
      <3>1. Elems(forward') = {w} \cup Elems(forward)
        BY <2>2, InsertLine, Zenon DEF TableInv
      <3> QED BY <3>1, OnForwardIs, Zenon DEF Jump
    <2> QED BY <1>1, <2>1, <2>2
  <1> QED BY <1>2, <1>3, Zenon DEF Spared

LEMMA SparedByNetwork ==
    ASSUME TableInv, NEW v \in VmIds, NEW w \in VmIds, Network(w)
    PROVE  Spared(v)
  <1>1. UNCHANGED <<chain, allowlist>> /\ (v \in struck => v \in struck')
    BY VmIsNoAccept, Zenon DEF Network
  <1>2. UNCHANGED forward \/ \E r \in Accepts : forward' = Append(forward, r)
    BY Zenon DEF Network, NetworkStep, BridgeShow, BridgeAdd, BridgeUp, NatCheck, NatAdd, ForwardCheck,
                 ForwardAppend, CreateTap, DeleteTap, network
  <1>3. CASE UNCHANGED forward
    BY <1>1, <1>3, SparedUnchanged, Zenon
  <1>4. ASSUME NEW r \in Accepts, forward' = Append(forward, r) PROVE Spared(v)
    <2>1. Elems(forward') = Elems(forward) \cup {r}
      BY <1>4, AppendLine, Zenon DEF TableInv
    <2> QED BY <1>1, <2>1, OnForwardIs, Zenon DEF Spared, Jump
  <1> QED BY <1>2, <1>3, <1>4

(* Only its own caller, or one that strikes it, touches a VM's firewall.    *)
LEMMA SparedByOthers ==
    ASSUME CallShape, TableInv, ListInv, NEW v \in VmIds, Live(v), [Next]_vars
    PROVE  Spared(v) \/ OwnFilter(v)
  <1>1. ASSUME NEW w \in VmIds, Begin(w) \/ Vsock(w) \/ Jail(w) PROVE Spared(v)
    <2>1. UNCHANGED <<forward, chain, allowlist, struck>>
      BY <1>1, Zenon DEF Begin, Vsock, Jail, network, firewall, history
    <2> QED BY <2>1, SparedUnchanged, Zenon
  <1>2. ASSUME NEW c \in Callers, CommandFailure(c) PROVE Spared(v)
    <2>1. UNCHANGED <<forward, chain, allowlist, struck>>
      BY <1>2, Zenon DEF CommandFailure, network, history
    <2> QED BY <2>1, SparedUnchanged, Zenon
  <1>3. CASE UNCHANGED vars
    <2>1. UNCHANGED <<forward, chain, allowlist, struck>>
      BY <1>3, Zenon DEF vars, network, firewall, history
    <2> QED BY <2>1, SparedUnchanged, Zenon
  <1>4. ASSUME NEW w \in VmIds, JumpCheck(w) PROVE Spared(v)
    <2>1. UNCHANGED <<forward, chain, allowlist, struck>>
      BY <1>4, Zenon DEF JumpCheck, firewall, history
    <2> QED BY <2>1, SparedUnchanged, Zenon
  <1>5. ASSUME NEW c \in Callers, ListJumps(c) PROVE Spared(v)
    <2>1. UNCHANGED <<forward, chain, allowlist, struck>>
      BY <1>5, Zenon DEF ListJumps
    <2> QED BY <2>1, SparedUnchanged, Zenon
  <1>6. CASE BeginGc \/ ListChains
    <2>1. UNCHANGED <<forward, chain, allowlist, struck>>
      BY <1>6, Zenon DEF BeginGc, ListChains, history
    <2> QED BY <2>1, SparedUnchanged, Zenon
  <1>7. ASSUME NEW w \in VmIds,
               \/ \E rules \in Allowlists : BeginInstall(w, rules) /\ UNCHANGED forward
               \/ NewChain(w) \/ FlushChain(w) \/ FillChain(w) \/ InsertJump(w)
        PROVE  Spared(v) \/ OwnFilter(v)
    BY <1>7, SparedByInstall, Zenon DEF OwnFilter
  <1>8. ASSUME NEW c \in Callers, DeleteLine(c) \/ FlushRemoved(c) \/ RemoveChain(c)
        PROVE  Spared(v) \/ OwnFilter(v)
    BY <1>8, SparedByDelete, SparedByRemoval, Zenon DEF OwnFilter
  <1> QED BY <1>1, <1>2, <1>3, <1>4, <1>5, <1>6, <1>7, <1>8, SparedByNetwork, Zenon DEF Next, Filter,
                                                                                        FirewallStep

-----------------------------------------------------------------------------
(* The steps of the calls, as one VM sees them.                             *)
Installs(v) == NewChain(v) \/ FlushChain(v) \/ FillChain(v) \/ JumpCheck(v) \/ InsertJump(v)

Removes(c) == ListJumps(c) \/ DeleteLine(c) \/ FlushRemoved(c) \/ RemoveChain(c)

LEMMA MovesAreSeen ==
    ASSUME CallShape, NEW c \in Callers, Moves(c), NEW v \in VmIds
    PROVE  c = v \/ SameVm(v)
  BY MovesAlone, Zenon

LEMMA StepsSeen ==
    ASSUME CallShape, NEW v \in VmIds, [Next]_vars
    PROVE  \/ SameVm(v) \/ Begun(v) \/ (op[v] # "none" /\ CommandFailure(v))
           \/ Network(v) \/ (Moves(v) /\ Vsock(v)) \/ Jail(v) \/ Installs(v) \/ Removes(v)
  <1>1. ASSUME NEW w \in VmIds, Network(w) PROVE w = v \/ SameVm(v)
    BY <1>1, VmIsCaller, NetworkMoves, MovesAreSeen, Zenon DEF Network
  <1>2. ASSUME NEW w \in VmIds, Jail(w) PROVE w = v \/ SameVm(v)
    BY <1>2, VmIsCaller, JailMoves, MovesAreSeen, Zenon DEF Jail
  <1>3. ASSUME NEW w \in VmIds, Vsock(w) PROVE (w = v /\ Moves(v)) \/ SameVm(v)
    <2>1. CASE Moves(w)
      BY <2>1, VmIsCaller, MovesAreSeen, Zenon
    <2>2. CASE BindUds(w)
      BY <2>2, Zenon DEF BindUds, calls, SameVm, Same
    <2> QED BY <1>3, <2>1, <2>2, VsockMoves, Zenon DEF Vsock
  <1>4. ASSUME NEW w \in VmIds, Installs(w) PROVE w = v \/ SameVm(v)
    BY <1>4, VmIsCaller, InstallMoves, MovesAreSeen, Zenon DEF Installs
  <1>5. ASSUME NEW c \in Callers, Removes(c) PROVE c = v \/ SameVm(v)
    BY <1>5, RemovalMoves, MovesAreSeen, Zenon DEF Removes
  <1>6. ASSUME NEW c \in Callers, CommandFailure(c) PROVE (c = v /\ op[v] # "none") \/ SameVm(v)
    <2>1. Moves(c)
      BY <1>6, FailureMoves, Zenon DEF CommandFailure
    <2> QED BY <2>1, MovesAreSeen, Zenon DEF Moves
  <1>7. ASSUME NEW w \in VmIds, Begun(w) PROVE w = v \/ SameVm(v)
    BY <1>7, BeginAlone, Zenon
  <1>8. CASE BeginGc \/ ListChains
    <2>1. CASE BeginGc \/ Relists
      BY <2>1, GcAlone, Zenon
    <2>2. CASE Moves(Gc)
      BY <2>2, VmIsCaller, CallAssumption, MovesAreSeen, Zenon
    <2> QED BY <1>8, <2>1, <2>2, ListMoves, Zenon
  <1>9. CASE UNCHANGED vars
    BY <1>9, Zenon DEF vars, calls, SameVm, Same
  <1>10. ASSUME NEW w \in VmIds, Begin(w) PROVE w = v \/ SameVm(v)
    BY <1>10, <1>7, Zenon DEF Begin, Begun
  <1>11. ASSUME NEW w \in VmIds, Begin(w) PROVE Begun(w)
    BY <1>11, Zenon DEF Begin, Begun
  <1>12. CASE \E w \in VmIds : Begin(w) \/ Network(w) \/ Vsock(w) \/ Jail(w)
    BY <1>12, <1>1, <1>2, <1>3, <1>10, <1>11, Zenon
  <1>13. CASE Filter
    <2>1. \/ \E w \in VmIds : Begun(w) \/ Installs(w)
          \/ \E c \in Callers : Removes(c)
          \/ BeginGc \/ ListChains
      BY <1>13, Zenon DEF Filter, FirewallStep, Begun, Installs, Removes
    <2> QED BY <2>1, <1>4, <1>5, <1>7, <1>8, Zenon
  <1> QED BY <1>6, <1>9, <1>12, <1>13, Zenon DEF Next

(* A primitive being attached is not among those that are.                  *)
LEMMA BeingAttached ==
    ASSUME CallShape, NEW v \in VmIds, op[v] = "compose", todo[v] # <<>>
    PROVE  Head(todo[v]) \notin attached[v]
  <1>1. todo[v] \in Seq(Items)
    BY VmIsCaller, Zenon DEF CallShape
  <1>2. Head(todo[v]) \in Elems(todo[v])
    BY <1>1, HeadIsElem, Zenon
  <1> QED BY <1>2, Zenon DEF CallShape

LEMMA InstallingIsNotInForce ==
    ASSUME CallShape, NEW v \in VmIds, NEW l, Installing(v, l), NEW k, Goto(v, k)
    PROVE  ~InForce(v)'
  <1>1. op'[v] = op[v] /\ attached'[v] = attached[v]
    BY GotoFacts, Zenon
  <1>2. op[v] = "install" \/ (op[v] = "compose" /\ Head(todo[v]) = "firewall" /\ todo[v] # <<>>)
    BY Zenon DEF Installing, At
  <1>3. op[v] = "compose" => "firewall" \notin attached[v]
    BY <1>2, BeingAttached, Zenon
  <1> QED BY <1>1, <1>2, <1>3, Zenon DEF InForce

LEMMA GuardInstalls ==
    ASSUME CallShape, TableInv, NEW v \in VmIds, GuardInv(v), Installs(v)
    PROVE  GuardInv(v)'
  <1>1. CASE NewChain(v)
    <2>1. Installing(v, "start") /\ Goto(v, "flush")
      BY <1>1, Zenon DEF NewChain, StepTo
    <2>2. pc'[v] \notin {"check", "jump"}
      <3>1. pc'[v] = "flush"
        BY <2>1, GotoFacts, Zenon
      <3> QED BY <3>1
    <2>3. ~InForce(v)'
      BY <2>1, InstallingIsNotInForce, Zenon
    <2> QED BY <2>2, <2>3, StartIsUnlinked, GuardIdle, Zenon
  <1>2. CASE FlushChain(v)
    <2>1. Installing(v, "flush") /\ (Goto(v, "fill") \/ GiveUp(v))
      BY <1>2, Zenon DEF FlushChain, StepTo, Refused
    <2>2. Goto(v, "fill") => pc'[v] \notin {"check", "jump"}
      <3>1. Goto(v, "fill") => pc'[v] = "fill"
        BY GotoFacts, Zenon
      <3> QED BY <3>1
    <2>3. Goto(v, "fill") => ~InForce(v)'
      BY <2>1, InstallingIsNotInForce, Zenon
    <2> QED BY <2>1, <2>2, <2>3, StartIsUnlinked, GuardIdle, GuardGivenUp, Zenon
  <1>3. CASE FillChain(v)
    <2>1. \/ /\ Installing(v, "fill") /\ Goto(v, "check") /\ chain' = [chain EXCEPT ![v] = Rules(v)]
             /\ UNCHANGED allowlist
          \/ GiveUp(v)
      BY <1>3, Zenon DEF FillChain, StepTo, Refused, Fail
    <2>2. CASE /\ Installing(v, "fill") /\ Goto(v, "check") /\ chain' = [chain EXCEPT ![v] = Rules(v)]
               /\ UNCHANGED allowlist
      <3>1. ~InForce(v)'
        BY <2>2, InstallingIsNotInForce, Zenon
      <3>2. chain'[v] = Rules(v)'
        BY <2>2, SameRules, Zenon DEF TableInv
      <3> QED BY <3>1, <3>2, Zenon DEF GuardInv
    <2> QED BY <2>1, <2>2, GuardGivenUp, Zenon
  <1>4. CASE JumpCheck(v)
    <2>1. /\ Installing(v, "check") /\ UNCHANGED <<forward, chain, allowlist, struck>>
          /\ \/ OnForward(Jump(v)) /\ Done(v)
             \/ Goto(v, "jump")
      BY <1>4, Zenon DEF JumpCheck, StepTo, Misread, firewall, history
    <2>2. chain'[v] = chain[v] /\ Rules(v)' = Rules(v) /\ (OnForward(Jump(v)) => OnForward(Jump(v))')
      BY <2>1, SameRules, Zenon DEF OnForward, Jump
    <2>3. v \notin struck' => chain'[v] = Rules(v)'
      BY <2>1, <2>2, Zenon DEF GuardInv, Linking
    <2>4. CASE Goto(v, "jump")
      BY <2>1, <2>3, <2>4, InstallingIsNotInForce, Zenon DEF GuardInv
    <2>5. CASE OnForward(Jump(v)) /\ Done(v)
      BY <2>2, <2>3, <2>5, Zenon DEF GuardInv, Guarded
    <2> QED BY <2>1, <2>4, <2>5
  <1>5. CASE InsertJump(v)
    <2>1. \/ /\ Installing(v, "jump") /\ UNCHANGED <<chain, allowlist, struck>>
             /\ forward' = <<Jump(v)>> \o forward
          \/ GiveUp(v)
      BY <1>5, Zenon DEF InsertJump, Refused
    <2>2. CASE /\ Installing(v, "jump") /\ UNCHANGED <<chain, allowlist, struck>>
               /\ forward' = <<Jump(v)>> \o forward
      <3>1. chain'[v] = chain[v] /\ Rules(v)' = Rules(v)
        BY <2>2, SameRules, Zenon
      <3>2. v \notin struck' => chain'[v] = Rules(v)'
        BY <2>2, <3>1, Zenon DEF GuardInv, Linking
      <3>3. OnForward(Jump(v))'
        <4>1. Elems(forward') = {v} \cup Elems(forward)
          BY <2>2, InsertLine, Zenon DEF TableInv
        <4> QED BY <4>1, OnForwardIs, Zenon DEF Jump
      <3> QED BY <3>2, <3>3, Zenon DEF GuardInv, Guarded
    <2> QED BY <2>1, <2>2, GuardGivenUp, Zenon
  <1> QED BY <1>1, <1>2, <1>3, <1>4, <1>5, Zenon DEF Installs

LEMMA GuardNext ==
    ASSUME CallShape, TableInv, ListInv, NEW v \in VmIds, GuardInv(v), [Next]_vars
    PROVE  GuardInv(v)'
  <1>1. CASE Installs(v)
    BY <1>1, GuardInstalls, Zenon
  <1>2. CASE Begun(v)
    BY <1>2, GuardBegun, Zenon
  <1>3. CASE Removes(v)
    <2>1. op[v] = "release"
      <3>1. \E l : Removing(v, l)
        BY <1>3, Zenon DEF Removes, ListJumps, DeleteLine, FlushRemoved, RemoveChain
      <3> QED BY <3>1, Zenon DEF Removing, CallShape
    <2>2. Moves(v)
      BY <1>3, VmIsCaller, RemovalMoves, Zenon DEF Removes
    <2> QED BY <2>1, <2>2, GuardReleased, Zenon
  <1>4. CASE ~Installs(v) /\ ~Begun(v) /\ ~Removes(v)
    <2>1. Live(v) => Spared(v)
      BY <1>4, SparedByOthers, Zenon DEF OwnFilter, Installs, Begun, Removes
    <2>2. CASE SameVm(v)
      BY <2>1, <2>2, GuardSame, Zenon DEF Live
    <2>3. CASE CommandFailure(v)
      BY <2>3, GuardGivenUp, Zenon DEF CommandFailure, CommandFails, Fail
    <2>4. ASSUME Network(v) \/ (Moves(v) /\ Vsock(v)) \/ Jail(v) PROVE GuardInv(v)'
      <3>1. Moves(v)
        BY <2>4, NetworkMoves, JailMoves, Zenon DEF Network, Jail
      <3>2. Spared(v)
        BY <2>1, <3>1, Zenon DEF Moves, Live
      <3>3. \/ op[v] = "release"
            \/ op[v] = "compose" /\ Head(todo[v]) # "firewall"
        <4>1. CASE Network(v)
          BY <4>1, Zenon DEF Network, NetworkStep, BridgeShow, BridgeAdd, BridgeUp, NatCheck, NatAdd,
                   ForwardCheck, ForwardAppend, CreateTap, DeleteTap, Attaching, At
        <4>2. CASE Moves(v) /\ Vsock(v)
          BY <4>2, Zenon DEF Vsock, VsockStep, AttachVsock, BindUds, FreeCid, RemoveUds, At, Moves, Composed
        <4>3. CASE Jail(v)
          BY <4>3, Zenon DEF Jail, JailerStep, Prepare, PrepareFails, Teardown, At
        <4> QED BY <2>4, <4>1, <4>2, <4>3, SMTT(20)
      <3> QED BY <3>1, <3>2, <3>3, GuardReleased, GuardElsewhere, Zenon
    <2> QED BY <1>4, <2>2, <2>3, <2>4, StepsSeen, Zenon
  <1> QED BY <1>1, <1>2, <1>3, <1>4

LEMMA GuardInvHolds == Spec => [](\A v \in VmIds : GuardInv(v))
  <1> DEFINE I == \A v \in VmIds : GuardInv(v)
  <1>1. Init => I
    <2> SUFFICES ASSUME Init, NEW v \in VmIds PROVE GuardInv(v)
      BY Zenon
    <2>1. op[v] = "none" /\ attached[v] = {}
      BY VmIsCaller, Zenon DEF Init, CallsInit
    <2> QED BY <2>1, Zenon DEF GuardInv, InForce, Linking, Installing, At
  <1>2. I /\ CallShape /\ TableInv /\ ListInv /\ [Next]_vars => I'
    BY GuardNext, Zenon
  <1> HIDE DEF I
  <1>3. Spec => []I
    BY <1>1, <1>2, CallShapeHolds, TableInvHolds, ListInvHolds, PTL DEF Spec
  <1> QED BY <1>3 DEF I

LEMMA AheadOfAccepts ==
    ASSUME TableInv, NEW v \in VmIds, OnForward(Jump(v))
    PROVE  \E i \in 1..Len(forward) :
               forward[i] = Jump(v) /\ \A j \in 1..i - 1 : forward[j] \notin Accepts
  <1>1. PICK i \in 1..Len(forward) : forward[i] = v
    BY Zenon DEF OnForward, Jump
  <1>2. forward \in Seq(Accepts \cup VmIds) /\ JumpsFirst(forward)
    BY Zenon DEF TableInv
  <1>3. ASSUME NEW j \in 1..i - 1 PROVE forward[j] \notin Accepts
    <2>1. j \in 1..Len(forward) /\ j < i
      BY <1>2
    <2>2. forward[i] \notin Accepts
      BY <1>1, VmIsNoAccept, Zenon
    <2> QED BY <1>2, <2>1, <2>2, Zenon DEF JumpsFirst
  <1> QED BY <1>1, <1>3, Zenon DEF Jump

(* install: once it has returned ok for a composed VM, the VM's packets     *)
(* meet its chain, ended by DROP, ahead of any ACCEPT, for any number of    *)
(* VMs, allowlists and interleavings of their creates and releases with     *)
(* gc_orphans, unless a caller acted on what it had read too long ago.      *)
THEOREM ConfinedWhileComposedHolds == Spec => []ConfinedWhileComposed
  <1> DEFINE I == \A v \in VmIds : GuardInv(v)
  <1>1. TableInv /\ I => ConfinedWhileComposed
    <2> SUFFICES ASSUME TableInv, I, NEW v \in VmIds, Composed(v), "firewall" \in attached[v],
                        result[v] = "ok", v \notin struck
                 PROVE  Confined(v)
      BY Zenon DEF ConfinedWhileComposed
    <2>1. InForce(v)
      BY Zenon DEF InForce, Composed
    <2>2. Guarded(v)
      BY <2>1, Zenon DEF GuardInv
    <2> QED BY <2>2, AheadOfAccepts, Zenon DEF Guarded, Confined
  <1>2. Spec => []I
    BY GuardInvHolds
  <1> HIDE DEF I
  <1> QED BY <1>1, <1>2, TableInvHolds, PTL

-----------------------------------------------------------------------------
(* The bridge, the NAT rule and the ACCEPT rules, as far as ensure_host has *)
(* come for a VM, and its TAP once it is attached.                          *)
Stands(r) == OnForward(r) \/ r \in struck

AfterBridge == {"nat", "nat_add", "accept_out", "append_out", "accept_in", "append_in", "tap"}

AfterNat == {"accept_out", "append_out", "accept_in", "append_in", "tap"}

NetInv(v) ==
    /\ "network" \in attached[v] =>
        /\ bridge = "up" /\ masquerade > 0 /\ tap[v] = "up"
        /\ \A r \in Accepts : Stands(r)
    /\ op[v] = "compose" /\ todo[v] # <<>> /\ Head(todo[v]) = "network" =>
        /\ pc[v] \in AfterBridge => bridge = "up"
        /\ pc[v] \in AfterNat => masquerade > 0
        /\ pc[v] \in {"accept_in", "append_in", "tap"} => Stands("accept_out")
        /\ pc[v] = "tap" => Stands("accept_in")

(* The types of the network's part of the host.                             *)
NetTypes ==
    /\ bridge \in {"absent", "added", "up"} /\ masquerade \in Nat
    /\ tap \in [VmIds -> {"none", "made", "up"}]

LEMMA HostAlone ==
    ASSUME [Next]_vars
    PROVE  \/ UNCHANGED <<bridge, masquerade, tap>>
           \/ \E v \in VmIds : Network(v) /\ \/ BridgeAdd(v) \/ BridgeUp(v) \/ NatAdd(v)
                                             \/ CreateTap(v) \/ DeleteTap(v)
  BY Zenon DEF Next, vars, network, Begin, Network, Filter, Vsock, Jail, CommandFailure, NetworkStep,
               BridgeShow, NatCheck, ForwardCheck, ForwardAppend

LEMMA HostStays ==
    ASSUME NetTypes, [Next]_vars
    PROVE  /\ NetTypes'
           /\ bridge = "up" => bridge' = "up"
           /\ masquerade > 0 => masquerade' > 0
           /\ \A v \in VmIds : ~Network(v) => tap'[v] = tap[v]
  <1>1. CASE UNCHANGED <<bridge, masquerade, tap>>
    BY <1>1, Zenon DEF NetTypes
  <1>2. ASSUME NEW w \in VmIds, Network(w), BridgeAdd(w) \/ BridgeUp(w)
        PROVE  /\ bridge' \in {"absent", "added", "up"} /\ (bridge = "up" => bridge' = "up")
               /\ UNCHANGED <<masquerade, tap>>
    BY <1>2, Zenon DEF BridgeAdd, BridgeUp, network, NetTypes
  <1>3. ASSUME NEW w \in VmIds, Network(w), NatAdd(w)
        PROVE  masquerade' \in Nat /\ (masquerade > 0 => masquerade' > 0) /\ UNCHANGED <<bridge, tap>>
    <2>1. masquerade' = masquerade + 1 /\ UNCHANGED <<bridge, tap>> /\ masquerade \in Nat
      BY <1>3, Zenon DEF NatAdd, NetTypes
    <2> QED BY <2>1
  <1>4. ASSUME NEW w \in VmIds, Network(w), CreateTap(w) \/ DeleteTap(w)
        PROVE  /\ UNCHANGED <<bridge, masquerade>> /\ tap' \in [VmIds -> {"none", "made", "up"}]
               /\ \A v \in VmIds : v # w => tap'[v] = tap[v]
    <2>1. UNCHANGED <<bridge, masquerade>> /\ \E x \in {"none", "made", "up"} : tap' = [tap EXCEPT ![w] = x]
      BY <1>4 DEF CreateTap, DeleteTap, NetTypes
    <2> QED BY <2>1, Zenon DEF NetTypes
  <1> QED BY <1>1, <1>2, <1>3, <1>4, HostAlone, Zenon DEF NetTypes

LEMMA NetTypesHold == Spec => []NetTypes
  <1>1. Init => NetTypes
    BY DEF Init, NetworkInit, NetTypes
  <1>2. NetTypes /\ [Next]_vars => NetTypes'
    BY HostStays, Zenon
  <1> QED BY <1>1, <1>2, PTL DEF Spec

(* An ACCEPT rule goes from FORWARD only when it is struck.                 *)
LEMMA StandsUnchanged ==
    ASSUME NEW r, UNCHANGED forward, r \in struck => r \in struck', Stands(r)
    PROVE  Stands(r)'
  BY Zenon DEF Stands, OnForward

LEMMA StandsByDelete ==
    ASSUME CallShape, TableInv, ListInv, NEW r \in Accepts, Stands(r), NEW c \in Callers, DeleteLine(c)
    PROVE  Stands(r)'
  <1> DEFINE n == Max(indices[c])
  <1>1. /\ Removing(c, "delete") /\ indices[c] # {}
        /\ \/ /\ n <= Len(forward) /\ forward' = RemoveLine(n)
              /\ Strikes(c \in outdated \/ Late(c), forward[n])
           \/ UNCHANGED <<forward, struck>>
    BY Zenon DEF DeleteLine, history
  <1>2. PICK h \in Nat : indices[c] \subseteq 1..h
    BY Zenon DEF TableInv
  <1>3. n \in indices[c]
    BY <1>1, <1>2, Highest, Zenon
  <1>4. n \in Nat /\ n >= 1
    BY <1>2, <1>3
  <1> HIDE DEF n
  <1>5. CASE UNCHANGED <<forward, struck>>
    BY <1>5, StandsUnchanged, Zenon
  <1>6. CASE /\ n <= Len(forward) /\ forward' = RemoveLine(n)
             /\ Strikes(c \in outdated \/ Late(c), forward[n])
    <2>1. n \in 1..Len(forward)
      <3>1. forward \in Seq(Accepts \cup VmIds)
        BY Zenon DEF TableInv
      <3>2. Len(forward) \in Nat
        BY <3>1
      <3> QED BY <1>4, <1>6, <3>2
    <2>2. Elems(forward) \subseteq Elems(forward') \cup {forward[n]}
      BY <1>6, <2>1, RemovedLine, Zenon
    <2>3. struck \subseteq struck'
      BY <1>6, Zenon DEF Strikes
    <2>4. CASE forward[n] # r
      <3>1. OnForward(r) => OnForward(r)'
        BY <2>2, <2>4, OnForwardIs, Zenon
      <3> QED BY <2>3, <3>1, Zenon DEF Stands
    <2>5. CASE forward[n] = r
      <3>1. c \in outdated
        <4> SUFFICES ASSUME c \notin outdated PROVE FALSE
          OBVIOUS
        <4>1. forward[n] = Target(c)
          BY <1>1, <1>3, Zenon DEF ListInv, IndicesOk, Jump
        <4> QED BY <1>1, <2>5, <4>1, TargetIsVm, VmIsNoAccept, Zenon
      <3>2. r \in struck'
        BY <1>6, <2>5, <3>1, Zenon DEF Strikes
      <3> QED BY <3>2, Zenon DEF Stands
    <2> QED BY <2>4, <2>5
  <1> QED BY <1>1, <1>5, <1>6

LEMMA StandsByNetwork ==
    ASSUME TableInv, NEW r \in Accepts, Stands(r), NEW w \in VmIds, Network(w)
    PROVE  Stands(r)'
  <1>1. r \in struck => r \in struck' \/ OnForward(r)'
    BY Zenon DEF Network
  <1>2. UNCHANGED forward \/ \E q \in Accepts : forward' = Append(forward, q)
    BY Zenon DEF Network, NetworkStep, BridgeShow, BridgeAdd, BridgeUp, NatCheck, NatAdd, ForwardCheck,
                 ForwardAppend, CreateTap, DeleteTap, network
  <1>3. CASE UNCHANGED forward
    BY <1>1, <1>3, Zenon DEF Stands, OnForward
  <1>4. ASSUME NEW q \in Accepts, forward' = Append(forward, q) PROVE Stands(r)'
    <2>1. Elems(forward') = Elems(forward) \cup {q}
      BY <1>4, AppendLine, Zenon DEF TableInv
    <2> QED BY <1>1, <2>1, OnForwardIs, Zenon DEF Stands
  <1> QED BY <1>2, <1>3, <1>4

LEMMA StandsStays ==
    ASSUME CallShape, TableInv, ListInv, NEW r \in Accepts, Stands(r), [Next]_vars
    PROVE  Stands(r)'
  <1>1. ASSUME NEW w \in VmIds, InsertJump(w) PROVE Stands(r)'
    <2>1. UNCHANGED struck /\ (UNCHANGED forward \/ forward' = <<Jump(w)>> \o forward)
      BY <1>1, Zenon DEF InsertJump
    <2>2. CASE forward' = <<Jump(w)>> \o forward
      <3>1. Elems(forward') = {w} \cup Elems(forward)
        BY <2>2, InsertLine, Zenon DEF TableInv
      <3> QED BY <2>1, <3>1, OnForwardIs, Zenon DEF Stands
    <2> QED BY <2>1, <2>2, StandsUnchanged, Zenon
  <1>2. ASSUME NEW w \in VmIds, NewChain(w) PROVE Stands(r)'
    <2>1. UNCHANGED forward /\ (r \in struck => r \in struck')
      BY <1>2, VmIsNoAccept, Zenon DEF NewChain
    <2> QED BY <2>1, StandsUnchanged, Zenon
  <1>3. ASSUME NEW w \in VmIds, FlushChain(w) \/ FillChain(w) \/ JumpCheck(w) PROVE Stands(r)'
    <2>1. UNCHANGED <<forward, struck>>
      BY <1>3, Zenon DEF FlushChain, FillChain, JumpCheck, firewall, history
    <2> QED BY <2>1, StandsUnchanged, Zenon
  <1>4. ASSUME NEW c \in Callers, ListJumps(c) \/ FlushRemoved(c) \/ RemoveChain(c) PROVE Stands(r)'
    <2>1. UNCHANGED forward /\ (r \in struck => r \in struck')
      BY <1>4, Zenon DEF ListJumps, FlushRemoved, RemoveChain, Strikes
    <2> QED BY <2>1, StandsUnchanged, Zenon
  <1>5. ASSUME NEW w \in VmIds, Begin(w) \/ Vsock(w) \/ Jail(w) PROVE Stands(r)'
    <2>1. UNCHANGED <<forward, struck>>
      BY <1>5, Zenon DEF Begin, Vsock, Jail, network, firewall, history
    <2> QED BY <2>1, StandsUnchanged, Zenon
  <1>6. ASSUME NEW c \in Callers, CommandFailure(c) PROVE Stands(r)'
    <2>1. UNCHANGED <<forward, struck>>
      BY <1>6, Zenon DEF CommandFailure, network, history
    <2> QED BY <2>1, StandsUnchanged, Zenon
  <1>7. CASE UNCHANGED vars \/ BeginGc \/ ListChains
    <2>1. UNCHANGED <<forward, struck>>
      BY <1>7, Zenon DEF vars, network, firewall, history, BeginGc, ListChains
    <2> QED BY <2>1, StandsUnchanged, Zenon
  <1>8. ASSUME NEW w \in VmIds, NEW rules \in Allowlists, BeginInstall(w, rules), UNCHANGED forward
        PROVE  Stands(r)'
    <2>1. UNCHANGED <<forward, struck>>
      BY <1>8, Zenon DEF BeginInstall, history
    <2> QED BY <2>1, StandsUnchanged, Zenon
  <1> QED BY <1>1, <1>2, <1>3, <1>4, <1>5, <1>6, <1>7, <1>8, StandsByDelete, StandsByNetwork,
             Zenon DEF Next, Filter, FirewallStep

(* What the host keeps for everybody, over a step.                          *)
Standing ==
    /\ bridge = "up" => bridge' = "up"
    /\ masquerade > 0 => masquerade' > 0
    /\ \A r \in Accepts : Stands(r) => Stands(r)'

AcceptsAre(r) == r = "accept_out" \/ r = "accept_in"

LEMMA AcceptsFacts ==
    "accept_out" \in Accepts /\ "accept_in" \in Accepts /\ \A r \in Accepts : AcceptsAre(r)
  BY DEF Accepts, AcceptsAre

LEMMA StartIsBefore ==
    /\ "start" \notin AfterBridge /\ "start" \notin AfterNat
    /\ "start" \notin {"accept_in", "append_in", "tap"}
  BY DEF AfterBridge, AfterNat

(* v's own call begins, ends an item or is about something else.            *)
LEMMA NetAttached ==
    ASSUME NEW v \in VmIds, NetInv(v), Standing, tap'[v] = tap[v],
           "network" \in attached'[v] => "network" \in attached[v],
           pc'[v] = "start" \/ ~(op'[v] = "compose" /\ todo'[v] # <<>> /\ Head(todo'[v]) = "network")
    PROVE  NetInv(v)'
  <1>1. "network" \in attached'[v] =>
            /\ bridge' = "up" /\ masquerade' > 0 /\ tap'[v] = "up"
            /\ \A r \in Accepts : Stands(r)'
    BY Zenon DEF NetInv, Standing
  <1>2. pc'[v] = "start" => pc'[v] \notin AfterBridge /\ pc'[v] \notin AfterNat
                            /\ pc'[v] \notin {"accept_in", "append_in", "tap"} /\ pc'[v] # "tap"
    BY StartIsBefore
  <1> QED BY <1>1, <1>2, Zenon DEF NetInv

LEMMA NetSame ==
    ASSUME NEW v \in VmIds, NetInv(v), Standing, tap'[v] = tap[v], SameVm(v)
    PROVE  NetInv(v)'
  BY AcceptsFacts, Zenon DEF NetInv, Standing, SameVm, Same

LEMMA NetBegun ==
    ASSUME CallShape, NEW v \in VmIds, NetInv(v), Standing, tap'[v] = tap[v], Begun(v)
    PROVE  NetInv(v)'
  <1>1. pc'[v] = "start"
    BY BeginAlone, Zenon
  <1>2. attached' = attached \/ attached' = [attached EXCEPT ![v] = {}]
    BY Zenon DEF Begun, BeginRelease, BeginCompose, BeginInstall
  <1>3. attached'[v] \subseteq attached[v]
    BY <1>2, Zenon DEF CallShape
  <1> QED BY <1>1, <1>3, NetAttached, Zenon

LEMMA NetGivenUp ==
    ASSUME CallShape, NEW v \in VmIds, GiveUp(v), NetInv(v), Standing,
           tap'[v] = tap[v] \/ op[v] \in {"compose", "release"}
    PROVE  NetInv(v)'
  <1>1. pc'[v] = "start" /\ attached'[v] \subseteq attached[v]
    BY GiveUpFacts, Zenon
  <1>2. CASE tap'[v] = tap[v]
    BY <1>1, <1>2, NetAttached, Zenon
  <1>3. CASE op[v] \in {"compose", "release"}
    <2>1. attached'[v] = {}
      BY <1>3, GiveUpFacts, Zenon DEF CallShape
    <2>2. pc'[v] \notin AfterBridge /\ pc'[v] \notin AfterNat
          /\ pc'[v] \notin {"accept_in", "append_in", "tap"} /\ pc'[v] # "tap"
      BY <1>1, StartIsBefore
    <2> QED BY <2>1, <2>2, Zenon DEF NetInv
  <1> QED BY <1>2, <1>3

LEMMA NetElsewhere ==
    ASSUME CallShape, NEW v \in VmIds, NetInv(v), Standing, tap'[v] = tap[v], Moves(v),
           op[v] # "compose" \/ Head(todo[v]) # "network"
    PROVE  NetInv(v)'
  <1>1. CASE GiveUp(v)
    BY <1>1, NetGivenUp, Zenon
  <1>2. CASE \E l : Goto(v, l)
    <2>1. op'[v] = op[v] /\ todo'[v] = todo[v] /\ attached'[v] = attached[v]
      BY <1>2, GotoFacts, Zenon
    <2> QED BY <2>1, NetAttached, Zenon
  <1>3. CASE Done(v)
    <2>1. pc'[v] = "start" /\ ("network" \in attached'[v] => "network" \in attached[v])
      BY <1>3, DoneFacts, Zenon
    <2> QED BY <2>1, NetAttached, Zenon
  <1> QED BY <1>1, <1>2, <1>3, Zenon DEF Moves

(* v's ensure_host goes on to the command at l.                             *)
Reached(l) ==
    /\ l \in AfterBridge => bridge' = "up"
    /\ l \in AfterNat => masquerade' > 0
    /\ l \in {"accept_in", "append_in", "tap"} => Stands("accept_out")'
    /\ l = "tap" => Stands("accept_in")'

LEMMA NetGoto ==
    ASSUME CallShape, NEW v \in VmIds, NEW k, Attaching(v, k), NEW l, Goto(v, l), Reached(l)
    PROVE  NetInv(v)'
  <1>1. pc'[v] = l /\ op'[v] = op[v] /\ todo'[v] = todo[v] /\ attached'[v] = attached[v]
    BY GotoFacts, Zenon
  <1>2. op[v] = "compose" /\ todo[v] # <<>> /\ Head(todo[v]) = "network"
    BY Zenon DEF Attaching, At
  <1>3. "network" \notin attached[v]
    BY <1>2, BeingAttached, Zenon
  <1> QED BY <1>1, <1>3, Zenon DEF NetInv, Reached

LEMMA NetReached ==
    ASSUME NEW v \in VmIds, NetInv(v), Standing, NEW k, Attaching(v, k)
    PROVE  Reached(k)
  <1>1. op[v] = "compose" /\ todo[v] # <<>> /\ Head(todo[v]) = "network" /\ pc[v] = k
    BY Zenon DEF Attaching, At
  <1> QED BY <1>1, AcceptsFacts, Zenon DEF NetInv, Standing, Reached

LEMMA NetAttaches ==
    ASSUME CallShape, NetTypes, TableInv, NEW v \in VmIds, NetInv(v), Standing, Network(v)
    PROVE  NetInv(v)'
  <1>1. CASE BridgeShow(v)
    <2>1. PICK l \in {"bridge_add", "bridge_up"} : Attaching(v, "start") /\ Goto(v, l)
      BY <1>1 DEF BridgeShow, StepTo
    <2>2. Reached(l)
      BY DEF Reached, AfterBridge, AfterNat
    <2> QED BY <2>1, <2>2, NetGoto, Zenon
  <1>2. CASE BridgeAdd(v)
    <2>1. Attaching(v, "bridge_add") /\ (Goto(v, "bridge_up") \/ GiveUp(v))
      BY <1>2, Zenon DEF BridgeAdd, StepTo, Refused
    <2>2. Reached("bridge_up")
      BY DEF Reached, AfterBridge, AfterNat
    <2>3. op[v] = "compose"
      BY <2>1, Zenon DEF Attaching, At
    <2> QED BY <2>1, <2>2, <2>3, NetGoto, NetGivenUp, Zenon
  <1>3. CASE BridgeUp(v)
    <2>1. Attaching(v, "bridge_up") /\ Goto(v, "nat") /\ bridge' = "up"
      BY <1>3, Zenon DEF BridgeUp, StepTo
    <2>2. Reached("nat")
      BY <2>1 DEF Reached, AfterBridge, AfterNat
    <2> QED BY <2>1, <2>2, NetGoto, Zenon
  <1>4. CASE NatCheck(v)
    <2>1. Attaching(v, "nat") /\ UNCHANGED masquerade
      BY <1>4, Zenon DEF NatCheck, network
    <2>2. bridge' = "up"
      BY <2>1, NetReached DEF Reached, AfterBridge
    <2>3. (masquerade > 0 /\ Goto(v, "accept_out")) \/ Goto(v, "nat_add")
      BY <1>4, Zenon DEF NatCheck, StepTo, Misread
    <2>4. masquerade > 0 => Reached("accept_out")
      BY <2>1, <2>2 DEF Reached, AfterBridge, AfterNat
    <2>5. Reached("nat_add")
      BY <2>2 DEF Reached, AfterBridge, AfterNat
    <2> QED BY <2>1, <2>3, <2>4, <2>5, NetGoto, Zenon
  <1>5. CASE NatAdd(v)
    <2>1. Attaching(v, "nat_add") /\ masquerade' = masquerade + 1 /\ Goto(v, "accept_out")
      BY <1>5, Zenon DEF NatAdd, StepTo
    <2>2. bridge' = "up"
      BY <2>1, NetReached DEF Reached, AfterBridge
    <2>3. masquerade' > 0
      BY <2>1 DEF NetTypes
    <2>4. Reached("accept_out")
      BY <2>2, <2>3 DEF Reached, AfterBridge, AfterNat
    <2> QED BY <2>1, <2>4, NetGoto, Zenon
  <1>6. CASE ForwardCheck(v, "accept_out")
    <2>1. Attaching(v, "accept_out")
      BY <1>6, Zenon DEF ForwardCheck
    <2>2. bridge' = "up" /\ masquerade' > 0
      BY <2>1, NetReached DEF Reached, AfterBridge, AfterNat
    <2>3. (OnForward("accept_out") /\ Goto(v, "accept_in")) \/ Goto(v, "append_out")
      BY <1>6, Zenon DEF ForwardCheck, StepTo, Misread, AfterAccept, AppendPc
    <2>4. OnForward("accept_out") => Stands("accept_out")'
      BY AcceptsFacts, Zenon DEF Stands, Standing
    <2>5. Stands("accept_out")' => Reached("accept_in")
      BY <2>2 DEF Reached, AfterBridge, AfterNat
    <2>6. Reached("append_out")
      BY <2>2 DEF Reached, AfterBridge, AfterNat
    <2> QED BY <2>1, <2>3, <2>4, <2>5, <2>6, NetGoto, Zenon
  <1>7. CASE ForwardCheck(v, "accept_in")
    <2>1. Attaching(v, "accept_in")
      BY <1>7, Zenon DEF ForwardCheck
    <2>2. bridge' = "up" /\ masquerade' > 0 /\ Stands("accept_out")'
      BY <2>1, NetReached DEF Reached, AfterBridge, AfterNat
    <2>3. (OnForward("accept_in") /\ Goto(v, "tap")) \/ Goto(v, "append_in")
      BY <1>7 DEF ForwardCheck, StepTo, Misread, AfterAccept, AppendPc
    <2>4. OnForward("accept_in") => Stands("accept_in")'
      BY AcceptsFacts, Zenon DEF Stands, Standing
    <2>5. Stands("accept_in")' => Reached("tap")
      BY <2>2 DEF Reached, AfterBridge, AfterNat
    <2>6. Reached("append_in")
      BY <2>2 DEF Reached, AfterBridge, AfterNat
    <2> QED BY <2>1, <2>3, <2>4, <2>5, <2>6, NetGoto, Zenon
  <1>8. ASSUME NEW r \in Accepts, ForwardAppend(v, r) PROVE Stands(r)'
    <2>1. forward' = Append(forward, r)
      BY <1>8, Zenon DEF ForwardAppend
    <2>2. Elems(forward') = Elems(forward) \cup {r}
      BY <2>1, AppendLine, Zenon DEF TableInv
    <2> QED BY <2>2, OnForwardIs, Zenon DEF Stands
  <1>9. CASE ForwardAppend(v, "accept_out")
    <2>1. Attaching(v, "append_out") /\ Goto(v, "accept_in")
      BY <1>9 DEF ForwardAppend, StepTo, AfterAccept, AppendPc
    <2>2. bridge' = "up" /\ masquerade' > 0
      BY <2>1, NetReached DEF Reached, AfterBridge, AfterNat
    <2>3. Stands("accept_out")'
      BY <1>8, <1>9, AcceptsFacts, Zenon
    <2>4. Reached("accept_in")
      BY <2>2, <2>3 DEF Reached, AfterBridge, AfterNat
    <2> QED BY <2>1, <2>4, NetGoto, Zenon
  <1>10. CASE ForwardAppend(v, "accept_in")
    <2>1. Attaching(v, "append_in") /\ Goto(v, "tap")
      BY <1>10 DEF ForwardAppend, StepTo, AfterAccept, AppendPc
    <2>2. bridge' = "up" /\ masquerade' > 0 /\ Stands("accept_out")'
      BY <2>1, NetReached DEF Reached, AfterBridge, AfterNat
    <2>3. Stands("accept_in")'
      BY <1>8, <1>10, AcceptsFacts, Zenon
    <2>4. Reached("tap")
      BY <2>2, <2>3 DEF Reached, AfterBridge, AfterNat
    <2> QED BY <2>1, <2>4, NetGoto, Zenon
  <1>11. CASE CreateTap(v)
    <2>1. Attaching(v, "tap") /\ ((tap' = [tap EXCEPT ![v] = "up"] /\ Done(v)) \/ GiveUp(v))
      BY <1>11, Zenon DEF CreateTap, Fail
    <2>2. bridge' = "up" /\ masquerade' > 0 /\ Stands("accept_out")' /\ Stands("accept_in")'
      BY <2>1, NetReached DEF Reached, AfterBridge, AfterNat
    <2>3. op[v] = "compose"
      BY <2>1, Zenon DEF Attaching, At
    <2>4. CASE tap' = [tap EXCEPT ![v] = "up"] /\ Done(v)
      <3>1. tap'[v] = "up"
        BY <2>4, Zenon DEF NetTypes
      <3>2. \A r \in Accepts : Stands(r)'
        BY <2>2, AcceptsFacts, Zenon DEF AcceptsAre
      <3>3. pc'[v] = "start"
        BY <2>4, DoneFacts, Zenon
      <3>4. pc'[v] \notin AfterBridge /\ pc'[v] \notin AfterNat
            /\ pc'[v] \notin {"accept_in", "append_in", "tap"} /\ pc'[v] # "tap"
        BY <3>3, StartIsBefore
      <3> QED BY <2>2, <3>1, <3>2, <3>4, Zenon DEF NetInv
    <2> QED BY <2>1, <2>3, <2>4, NetGivenUp, Zenon
  <1>12. CASE DeleteTap(v)
    <2>1. op[v] = "release" /\ (Done(v) \/ GiveUp(v))
      BY <1>12, Zenon DEF DeleteTap, At, Fail
    <2>2. pc'[v] = "start" /\ attached'[v] = {}
      BY <2>1, DoneFacts, GiveUpFacts, Zenon DEF CallShape
    <2>3. pc'[v] \notin AfterBridge /\ pc'[v] \notin AfterNat
          /\ pc'[v] \notin {"accept_in", "append_in", "tap"} /\ pc'[v] # "tap"
      BY <2>2, StartIsBefore
    <2> QED BY <2>2, <2>3, Zenon DEF NetInv
  <1>13. ASSUME NEW r \in Accepts, ForwardCheck(v, r) \/ ForwardAppend(v, r) PROVE NetInv(v)'
    BY <1>6, <1>7, <1>9, <1>10, <1>13, AcceptsFacts, Zenon DEF AcceptsAre
  <1> QED BY <1>1, <1>2, <1>3, <1>4, <1>5, <1>11, <1>12, <1>13, Zenon DEF Network, NetworkStep

LEMMA NetNext ==
    ASSUME CallShape, TableInv, ListInv, NetTypes, NEW v \in VmIds, NetInv(v), [Next]_vars
    PROVE  NetInv(v)'
  <1>1. Standing
    BY HostStays, StandsStays, Zenon DEF Standing
  <1>2. CASE Network(v)
    BY <1>1, <1>2, NetAttaches, Zenon
  <1>3. CASE ~Network(v)
    <2>1. tap'[v] = tap[v]
      BY <1>3, HostStays, Zenon
    <2>2. CASE (Moves(v) /\ Vsock(v)) \/ Jail(v) \/ Installs(v) \/ Removes(v)
      <3>1. Moves(v)
        BY <2>2, VmIsCaller, JailMoves, InstallMoves, RemovalMoves, Zenon DEF Jail, Installs, Removes
      <3>2. op[v] # "compose" \/ Head(todo[v]) # "network"
        <4>1. CASE Moves(v) /\ Vsock(v)
          BY <4>1, Zenon DEF Vsock, VsockStep, AttachVsock, BindUds, FreeCid, RemoveUds, At, Moves, Composed
        <4>2. CASE Jail(v)
          BY <4>2, Zenon DEF Jail, JailerStep, Prepare, PrepareFails, Teardown, At
        <4>3. CASE Installs(v)
          <5>1. \E l : Installing(v, l)
            BY <4>3, Zenon DEF Installs, NewChain, FlushChain, FillChain, JumpCheck, InsertJump
          <5> QED BY <5>1, Zenon DEF Installing, At
        <4>4. CASE Removes(v)
          <5>1. \E l : Removing(v, l)
            BY <4>4, Zenon DEF Removes, ListJumps, DeleteLine, FlushRemoved, RemoveChain
          <5> QED BY <5>1, Zenon DEF Removing
        <4> QED BY <2>2, <4>1, <4>2, <4>3, <4>4, SMTT(20)
      <3> QED BY <1>1, <2>1, <3>1, <3>2, NetElsewhere, Zenon
    <2>3. CASE CommandFailure(v)
      BY <1>1, <2>1, <2>3, NetGivenUp, Zenon DEF CommandFailure, CommandFails, Fail
    <2> QED BY <1>1, <1>3, <2>1, <2>2, <2>3, NetSame, NetBegun, StepsSeen, Zenon
  <1> QED BY <1>2, <1>3

LEMMA NetInvHolds == Spec => [](\A v \in VmIds : NetInv(v))
  <1> DEFINE I == \A v \in VmIds : NetInv(v)
  <1>1. Init => I
    <2> SUFFICES ASSUME Init, NEW v \in VmIds PROVE NetInv(v)
      BY Zenon
    <2>1. op[v] = "none" /\ attached[v] = {}
      BY VmIsCaller, Zenon DEF Init, CallsInit
    <2> QED BY <2>1, Zenon DEF NetInv
  <1>2. I /\ CallShape /\ TableInv /\ ListInv /\ NetTypes /\ [Next]_vars => I'
    BY NetNext, Zenon
  <1> HIDE DEF I
  <1>3. Spec => []I
    BY <1>1, <1>2, CallShapeHolds, TableInvHolds, ListInvHolds, NetTypesHold, PTL DEF Spec
  <1> QED BY <1>3 DEF I

(* ensure_host and attach: a VM with a network keeps the bridge, the NAT    *)
(* rule, both ACCEPT rules and its TAP for as long as it has it, whatever   *)
(* the creates, releases and garbage collections of any number of other VMs *)
(* do to FORWARD, unless one of them deletes by a position that another     *)
(* caller had shifted.                                                      *)
THEOREM ConnectedWhileComposedHolds == Spec => []ConnectedWhileComposed
  <1> DEFINE I == \A v \in VmIds : NetInv(v)
  <1>1. I => ConnectedWhileComposed
    BY Zenon DEF NetInv, Stands, ConnectedWhileComposed
  <1>2. Spec => []I
    BY NetInvHolds
  <1> HIDE DEF I
  <1> QED BY <1>1, <1>2, PTL

-----------------------------------------------------------------------------
(* What a release without a failure has dealt with is gone.                 *)
ReleaseInv(v) ==
    /\ op[v] = "release" /\ result[v] = "ok" =>
        \A p \in released[v] \ Elems(todo[v]) : ~Left(v, p)
    /\ op[v] = "none" /\ attached[v] = {} /\ result[v] = "ok" =>
        \A p \in released[v] : ~Left(v, p)
    /\ At(v, {"release"}, "vsock", "unlink") => allocations[v] = None

LEMMA LeftIs ==
    ASSUME NEW v \in VmIds
    PROVE  /\ Left(v, "firewall") <=> chain[v] # None \/ OnForward(Jump(v))
           /\ Left(v, "vsock") <=> allocations[v] # None \/ v \in udsFile
           /\ Left(v, "network") <=> tap[v] # "none"
           /\ Left(v, "jailer") <=> jail[v] # None
  BY DEF Left

LEMMA LeftNext ==
    ASSUME NEW v \in VmIds
    PROVE  /\ Left(v, "firewall")' <=> chain'[v] # None \/ OnForward(Jump(v))'
           /\ Left(v, "vsock")' <=> allocations'[v] # None \/ v \in udsFile'
           /\ Left(v, "network")' <=> tap'[v] # "none"
           /\ Left(v, "jailer")' <=> jail'[v] # None
  BY DEF Left, Jump

(* A step leaves nothing of v on the host that was not there before.        *)
Settles(v) ==
    /\ chain[v] = None => chain'[v] = None
    /\ OnForward(Jump(v))' => OnForward(Jump(v))
    /\ allocations[v] = None => allocations'[v] = None
    /\ v \in udsFile' => v \in udsFile
    /\ tap[v] = "none" => tap'[v] = "none"
    /\ jail[v] = None => jail'[v] = None

LEMMA SettledStays ==
    ASSUME NEW v \in VmIds, Settles(v), NEW p \in Primitives, ~Left(v, p)
    PROVE  ~Left(v, p)'
  <1>1. p \in {"network", "vsock", "firewall", "jailer"}
    BY Zenon DEF Primitives
  <1> QED BY <1>1, LeftIs, LeftNext, Zenon DEF Settles

(* The steps that bring something of v to the host.                         *)
Released(v) == op[v] \notin {"compose", "install"} /\ attached[v] = {}

LEMMA ReleasedIsIdle ==
    ASSUME NEW v \in VmIds, Released(v)
    PROVE  /\ \A l : ~Installing(v, l) /\ ~Attaching(v, l)
           /\ \A i, l : ~At(v, {"compose"}, i, l)
           /\ ~Composed(v)
  BY Zenon DEF Released, Installing, Attaching, At, Composed

LEMMA SettlesChain ==
    ASSUME TableInv, NEW v \in VmIds, Released(v), [Next]_vars, chain[v] = None
    PROVE  chain'[v] = None
  <1>1. \/ UNCHANGED chain
        \/ \E w \in VmIds : NewChain(w) \/ FlushChain(w) \/ FillChain(w)
        \/ \E c \in Callers : FlushRemoved(c) \/ RemoveChain(c)
    BY Zenon DEF Next, vars, firewall, Begin, Network, Filter, Vsock, Jail, CommandFailure, FirewallStep,
                 BeginInstall, JumpCheck, InsertJump, ListJumps, DeleteLine, BeginGc, ListChains
  <1>2. ASSUME NEW w \in VmIds, NewChain(w) \/ FlushChain(w) \/ FillChain(w) PROVE chain'[v] = None
    <2>1. w # v
      BY <1>2, ReleasedIsIdle, Zenon DEF NewChain, FlushChain, FillChain
    <2>2. UNCHANGED chain \/ \E x : chain' = [chain EXCEPT ![w] = x]
      BY <1>2, Zenon DEF NewChain, FlushChain, FillChain
    <2> QED BY <2>1, <2>2, Zenon DEF TableInv
  <1>3. ASSUME NEW c \in Callers, FlushRemoved(c) \/ RemoveChain(c) PROVE chain'[v] = None
    <2>1. \/ UNCHANGED chain
          \/ chain[Target(c)] # None /\ chain' = [chain EXCEPT ![Target(c)] = <<>>]
          \/ chain' = [chain EXCEPT ![Target(c)] = None]
      BY <1>3, Zenon DEF FlushRemoved, RemoveChain
    <2>2. CASE chain[Target(c)] # None /\ chain' = [chain EXCEPT ![Target(c)] = <<>>]
      <3>1. Target(c) # v
        BY <2>2, Zenon
      <3> QED BY <2>2, <3>1, Zenon DEF TableInv
    <2>3. CASE chain' = [chain EXCEPT ![Target(c)] = None]
      BY <2>3, Zenon DEF TableInv
    <2> QED BY <2>1, <2>2, <2>3, Zenon
  <1> QED BY <1>1, <1>2, <1>3, Zenon

LEMMA SettlesForward ==
    ASSUME TableInv, NEW v \in VmIds, Released(v), [Next]_vars, OnForward(Jump(v))'
    PROVE  OnForward(Jump(v))
  <1>1. \/ UNCHANGED forward
        \/ \E r \in Accepts : forward' = Append(forward, r)
        \/ \E w \in VmIds : InsertJump(w)
        \/ \E c \in Callers : DeleteLine(c)
    BY Zenon DEF Next, vars, network, Begin, Network, Filter, Vsock, Jail, CommandFailure, FirewallStep,
                 BeginInstall, JumpCheck, ListJumps, BeginGc, ListChains, NewChain, FlushChain, FillChain,
                 FlushRemoved, RemoveChain, NetworkStep, BridgeShow, BridgeAdd, BridgeUp, NatCheck, NatAdd,
                 ForwardCheck, ForwardAppend, CreateTap, DeleteTap
  <1>2. CASE UNCHANGED forward
    BY <1>2, Zenon DEF OnForward, Jump
  <1>3. ASSUME NEW r \in Accepts, forward' = Append(forward, r) PROVE OnForward(Jump(v))
    <2>1. Elems(forward') = Elems(forward) \cup {r}
      BY <1>3, AppendLine, Zenon DEF TableInv
    <2> QED BY <2>1, OnForwardIs, VmIsNoAccept, Zenon DEF Jump
  <1>4. ASSUME NEW w \in VmIds, InsertJump(w) PROVE OnForward(Jump(v))
    <2>1. w # v
      BY <1>4, ReleasedIsIdle, Zenon DEF InsertJump
    <2>2. UNCHANGED forward \/ forward' = <<Jump(w)>> \o forward
      BY <1>4, Zenon DEF InsertJump
    <2>3. CASE forward' = <<Jump(w)>> \o forward
      <3>1. Elems(forward') = {w} \cup Elems(forward)
        BY <2>3, InsertLine, Zenon DEF TableInv
      <3> QED BY <2>1, <3>1, OnForwardIs, Zenon DEF Jump
    <2> QED BY <1>2, <2>2, <2>3, SMTT(20)
  <1>5. ASSUME NEW c \in Callers, DeleteLine(c) PROVE OnForward(Jump(v))
    <2> DEFINE n == Max(indices[c])
    <2>1. /\ indices[c] # {}
          /\ \/ n <= Len(forward) /\ forward' = RemoveLine(n)
             \/ UNCHANGED forward
      BY <1>5, Zenon DEF DeleteLine
    <2>2. PICK h \in Nat : indices[c] \subseteq 1..h
      BY Zenon DEF TableInv
    <2>3. n \in indices[c]
      BY <2>1, <2>2, Highest, Zenon
    <2>4. n \in Nat /\ n >= 1
      BY <2>2, <2>3
    <2> HIDE DEF n
    <2>5. CASE n <= Len(forward) /\ forward' = RemoveLine(n)
      <3>1. n \in 1..Len(forward)
        <4>1. forward \in Seq(Accepts \cup VmIds)
          BY Zenon DEF TableInv
        <4>2. Len(forward) \in Nat
          BY <4>1
        <4> QED BY <2>4, <2>5, <4>2, SMTT(20)
      <3>2. Elems(forward') \subseteq Elems(forward)
        BY <2>5, <3>1, RemovedLine, Zenon
      <3> QED BY <3>2, OnForwardIs, Zenon DEF Jump
    <2> QED BY <1>2, <2>1, <2>5, SMTT(20)
  <1> QED BY <1>1, <1>2, <1>3, <1>4, <1>5, SMTT(20)

LEMMA SettlesVsock ==
    ASSUME CidInv, NEW v \in VmIds, Released(v), [Next]_vars
    PROVE  (allocations[v] = None => allocations'[v] = None) /\ (v \in udsFile' => v \in udsFile)
  <1>1. CASE UNCHANGED vsock
    BY <1>1, Zenon DEF vsock
  <1>2. ASSUME NEW w \in VmIds, AttachVsock(w)
        PROVE  (allocations[v] = None => allocations'[v] = None) /\ (v \in udsFile' => v \in udsFile)
    <2>1. w # v
      BY <1>2, ReleasedIsIdle, Zenon DEF AttachVsock
    <2>2. (\E x : allocations' = [allocations EXCEPT ![w] = x]) /\ UNCHANGED udsFile
      BY <1>2, Zenon DEF AttachVsock
    <2> QED BY <2>1, <2>2, Zenon DEF CidInv
  <1>3. ASSUME NEW w \in VmIds, BindUds(w)
        PROVE  (allocations[v] = None => allocations'[v] = None) /\ (v \in udsFile' => v \in udsFile)
    <2>1. w # v
      BY <1>3, ReleasedIsIdle, Zenon DEF BindUds
    <2> QED BY <1>3, <2>1, Zenon DEF BindUds
  <1>4. ASSUME NEW w \in VmIds, FreeCid(w)
        PROVE  (allocations[v] = None => allocations'[v] = None) /\ (v \in udsFile' => v \in udsFile)
    BY <1>4, Zenon DEF FreeCid, CidInv
  <1>5. ASSUME NEW w \in VmIds, RemoveUds(w)
        PROVE  (allocations[v] = None => allocations'[v] = None) /\ (v \in udsFile' => v \in udsFile)
    BY <1>5, Zenon DEF RemoveUds
  <1> QED BY <1>1, <1>2, <1>3, <1>4, <1>5, VsockAlone, Zenon DEF VsockStep

LEMMA SettlesTap ==
    ASSUME NetTypes, NEW v \in VmIds, Released(v), [Next]_vars, tap[v] = "none"
    PROVE  tap'[v] = "none"
  <1>1. CASE ~Network(v)
    BY <1>1, HostStays, Zenon
  <1>2. CASE Network(v)
    <2>1. ~CreateTap(v)
      BY ReleasedIsIdle, Zenon DEF CreateTap
    <2>2. UNCHANGED tap \/ tap' = [tap EXCEPT ![v] = "none"]
      BY <1>2, <2>1, Zenon DEF Network, NetworkStep, BridgeShow, BridgeAdd, BridgeUp, NatCheck, NatAdd,
                               ForwardCheck, ForwardAppend, DeleteTap, network
    <2> QED BY <2>2, Zenon DEF NetTypes
  <1> QED BY <1>1, <1>2

LEMMA SettlesJail ==
    ASSUME JailInv, NEW v \in VmIds, Released(v), [Next]_vars, jail[v] = None
    PROVE  jail'[v] = None
  <1>1. UNCHANGED jail \/ \E w \in VmIds : JailerStep(w)
    BY Zenon DEF Next, vars, jailer, Begin, Network, Filter, Vsock, Jail, CommandFailure
  <1>2. ASSUME NEW w \in VmIds, Teardown(w) PROVE jail'[v] = None
    <2>1. jail' = [jail EXCEPT ![w] = None] \/ (jail[w] # None /\ \E x : jail' = [jail EXCEPT ![w] = x])
      BY <1>2, Zenon DEF Teardown
    <2> QED BY <2>1, Zenon DEF JailInv
  <1>3. ASSUME NEW w \in VmIds, NEW im \in Images,
               Prepare(w, im) \/ PrepareFails(w, im) PROVE jail'[v] = None
    <2>1. w # v
      BY <1>3, ReleasedIsIdle, Zenon DEF Prepare, PrepareFails
    <2>2. UNCHANGED jail \/ \E x : jail' = [jail EXCEPT ![w] = x]
      BY <1>3, Zenon DEF Prepare, PrepareFails
    <2> QED BY <2>1, <2>2, Zenon DEF JailInv
  <1> QED BY <1>1, <1>2, <1>3, Zenon DEF JailerStep

LEMMA ReleasedSettles ==
    ASSUME TableInv, CidInv, NetTypes, JailInv, NEW v \in VmIds, Released(v), [Next]_vars
    PROVE  Settles(v)
  BY SettlesChain, SettlesForward, SettlesVsock, SettlesTap, SettlesJail, Zenon DEF Settles

(* What a step of v's own release does: it has undone its primitive, or has *)
(* failed, or goes on.                                                      *)
Undoes(v) ==
    \/ Done(v) /\ \E p \in Primitives : p = Head(todo[v]) /\ ~Left(v, p)'
    \/ GiveUp(v)
    \/ \E l : Goto(v, l) /\ (l = "unlink" => allocations'[v] = None)

LEMMA UndoesFilter ==
    ASSUME CallShape, TableInv, NEW v \in VmIds, Removes(v), op[v] = "release"
    PROVE  Undoes(v)
  <1>1. Target(v) = v
    BY CallAssumption, Zenon DEF Target
  <1>2. Head(todo[v]) = "firewall"
    <2>1. \E l : Removing(v, l)
      BY Zenon DEF Removes, ListJumps, DeleteLine, FlushRemoved, RemoveChain
    <2> QED BY <2>1, Zenon DEF Removing
  <1>3. CASE ListJumps(v) \/ DeleteLine(v)
    <2>1. Goto(v, "delete") \/ GiveUp(v)
      BY <1>3, Zenon DEF ListJumps, DeleteLine, StepTo, Refused
    <2>2. "delete" # "unlink"
      OBVIOUS
    <2> QED BY <2>1, <2>2, Zenon DEF Undoes
  <1>4. CASE FlushRemoved(v)
    <2>1. \/ Goto(v, "remove")
          \/ chain[v] = None /\ UNCHANGED <<chain, forward>> /\ Done(v)
      BY <1>1, <1>4, Zenon DEF FlushRemoved, StepTo
    <2>2. "remove" # "unlink"
      OBVIOUS
    <2>3. ASSUME chain[v] = None, UNCHANGED <<chain, forward>> PROVE ~Left(v, "firewall")'
      <3>1. ~OnForward(Jump(v))'
        BY <2>3, Zenon DEF TableInv, OnForward, Jump
      <3> QED BY <2>3, <3>1, LeftNext, Zenon
    <2> QED BY <1>2, <2>1, <2>2, <2>3, Attachable, Zenon DEF Undoes
  <1>5. CASE RemoveChain(v)
    <2>1. \/ GiveUp(v)
          \/ /\ chain[v] = None \/ ~OnForward(Jump(v))
             /\ chain' = [chain EXCEPT ![v] = None] /\ UNCHANGED forward /\ Done(v)
      BY <1>1, <1>5, Zenon DEF RemoveChain, InUse, Refused
    <2>2. ASSUME chain[v] = None \/ ~OnForward(Jump(v)), chain' = [chain EXCEPT ![v] = None],
                 UNCHANGED forward
          PROVE  ~Left(v, "firewall")'
      <3>1. ~OnForward(Jump(v))'
        BY <2>2, Zenon DEF TableInv, OnForward, Jump
      <3>2. chain'[v] = None
        BY <2>2, Zenon DEF TableInv
      <3> QED BY <3>1, <3>2, LeftNext, Zenon
    <2> QED BY <1>2, <2>1, <2>2, Attachable, Zenon DEF Undoes
  <1> QED BY <1>3, <1>4, <1>5, Zenon DEF Removes

LEMMA UndoesRest ==
    ASSUME CidInv, NetTypes, JailInv, NEW v \in VmIds, ReleaseInv(v), op[v] = "release",
           Network(v) \/ Vsock(v) \/ Jail(v)
    PROVE  Undoes(v)
  <1>1. CASE Network(v)
    <2>1. /\ At(v, {"release"}, "network", "start")
          /\ GiveUp(v) \/ (tap' = [tap EXCEPT ![v] = "none"] /\ Done(v))
      BY <1>1, Zenon DEF Network, NetworkStep, BridgeShow, BridgeAdd, BridgeUp, NatCheck, NatAdd,
                         ForwardCheck,
                         ForwardAppend, CreateTap, DeleteTap, Attaching, At, Fail
    <2>2. tap' = [tap EXCEPT ![v] = "none"] => ~Left(v, "network")'
      BY LeftNext, Zenon DEF NetTypes
    <2> QED BY <2>1, <2>2, Attachable, Zenon DEF Undoes, At
  <1>2. CASE Vsock(v)
    <2>1. FreeCid(v) \/ RemoveUds(v)
      BY <1>2, Zenon DEF Vsock, VsockStep, AttachVsock, BindUds, At, Composed
    <2>2. CASE FreeCid(v)
      <3>1. Goto(v, "unlink") /\ allocations'[v] = None
        BY <2>2, Zenon DEF FreeCid, StepTo, CidInv
      <3> QED BY <3>1, Zenon DEF Undoes
    <2>3. CASE RemoveUds(v)
      <3>1. /\ At(v, {"release"}, "vsock", "unlink") /\ UNCHANGED allocations
            /\ GiveUp(v) \/ (udsFile' = udsFile \ {v} /\ Done(v))
        BY <2>3, Zenon DEF RemoveUds, Fail
      <3>2. allocations'[v] = None
        BY <3>1, Zenon DEF ReleaseInv
      <3>3. udsFile' = udsFile \ {v} => ~Left(v, "vsock")'
        BY <3>2, LeftNext, Zenon
      <3> QED BY <3>1, <3>3, Attachable, Zenon DEF Undoes, At
    <2> QED BY <2>1, <2>2, <2>3
  <1>3. CASE Jail(v)
    <2>1. /\ At(v, {"release"}, "jailer", "start")
          /\ GiveUp(v) \/ (jail' = [jail EXCEPT ![v] = None] /\ Done(v))
      BY <1>3, Zenon DEF Jail, JailerStep, Prepare, PrepareFails, Teardown, At, Fail
    <2>2. jail' = [jail EXCEPT ![v] = None] => ~Left(v, "jailer")'
      BY LeftNext, Zenon DEF JailInv
    <2> QED BY <2>1, <2>2, Attachable, Zenon DEF Undoes, At
  <1> QED BY <1>1, <1>2, <1>3

LEMMA ReleaseUndoes ==
    ASSUME CallShape, NEW v \in VmIds, ReleaseInv(v), op[v] = "release", Settles(v), Moves(v), Undoes(v)
    PROVE  ReleaseInv(v)'
  <1>1. released[v] \subseteq Primitives /\ todo[v] \in Seq(Items) /\ attached[v] = {}
    BY VmIsCaller, Zenon DEF CallShape
  <1>2. result[v] = "ok" => \A p \in released[v] \ Elems(todo[v]) : ~Left(v, p)'
    BY <1>1, SettledStays, Zenon DEF ReleaseInv
  <1>3. CASE GiveUp(v)
    <2>1. pc'[v] = "start" /\ result'[v] = "err"
      BY <1>3, GiveUpFacts, Zenon
    <2>2. pc'[v] # "unlink" /\ result'[v] # "ok"
      BY <2>1
    <2> QED BY <2>2, Zenon DEF ReleaseInv, At
  <1>4. ASSUME NEW l, Goto(v, l), l = "unlink" => allocations'[v] = None PROVE ReleaseInv(v)'
    <2>1. /\ pc'[v] = l /\ op'[v] = op[v] /\ todo'[v] = todo[v]
          /\ released'[v] = released[v] /\ result'[v] = result[v]
      BY <1>4, GotoFacts, Zenon
    <2>2. op'[v] # "none"
      BY <2>1
    <2> QED BY <1>2, <1>4, <2>1, <2>2, Zenon DEF ReleaseInv, At
  <1>5. ASSUME NEW q \in Primitives, Done(v), q = Head(todo[v]), ~Left(v, q)' PROVE ReleaseInv(v)'
    <2>1. pc'[v] = "start" /\ released'[v] = released[v] /\ result'[v] = result[v]
      BY <1>5, DoneFacts, Zenon
    <2>2. pc'[v] # "unlink"
      BY <2>1
    <2>3. \/ op'[v] = "release" /\ todo'[v] = Tail(todo[v]) /\ Len(todo[v]) > 1
          \/ op'[v] = "none" /\ Len(todo[v]) = 1
      BY <1>5, DoneFacts, Zenon
    <2>4. CASE op'[v] = "release" /\ todo'[v] = Tail(todo[v]) /\ Len(todo[v]) > 1
      <3>1. todo[v] # <<>>
        BY <1>1, <2>4
      <3>2. Elems(todo[v]) = {Head(todo[v])} \cup Elems(todo'[v])
        BY <1>1, <2>4, <3>1, TailFacts, Zenon
      <3>3. result'[v] = "ok" => \A p \in released'[v] \ Elems(todo'[v]) : ~Left(v, p)'
        BY <1>2, <1>5, <2>1, <3>2, Zenon
      <3>4. op'[v] # "none"
        BY <2>4
      <3> QED BY <2>2, <3>3, <3>4, Zenon DEF ReleaseInv, At, Elems
    <2>5. CASE op'[v] = "none" /\ Len(todo[v]) = 1
      <3>1. Elems(todo[v]) = {Head(todo[v])}
        BY <1>1, <2>5, SingleFacts, Zenon
      <3>2. result'[v] = "ok" => \A p \in released'[v] : ~Left(v, p)'
        BY <1>2, <1>5, <2>1, <3>1, Zenon
      <3>3. op'[v] # "release"
        BY <2>5
      <3> QED BY <2>2, <3>2, <3>3, Zenon DEF ReleaseInv, At
    <2> QED BY <2>3, <2>4, <2>5, SMTT(20)
  <1> QED BY <1>3, <1>4, <1>5, Zenon DEF Undoes

LEMMA ReleaseSame ==
    ASSUME CallShape, NEW v \in VmIds, ReleaseInv(v), Released(v) => Settles(v), SameVm(v)
    PROVE  ReleaseInv(v)'
  <1>1. /\ op'[v] = op[v] /\ todo'[v] = todo[v] /\ pc'[v] = pc[v] /\ attached'[v] = attached[v]
        /\ released'[v] = released[v] /\ result'[v] = result[v] /\ released[v] \subseteq Primitives
    BY Zenon DEF SameVm, Same, CallShape
  <1>2. CASE op[v] = "release" \/ (op[v] = "none" /\ attached[v] = {})
    <2>1. Released(v)
      BY <1>2, Zenon DEF Released, CallShape
    <2>2. \A p \in released[v] : ~Left(v, p) => ~Left(v, p)'
      BY <1>1, <2>1, SettledStays, Zenon
    <2>3. allocations[v] = None => allocations'[v] = None
      BY <2>1, Zenon DEF Settles
    <2>4. op[v] = "release" /\ result[v] = "ok" => \A p \in released[v] \ Elems(todo[v]) : ~Left(v, p)'
      BY <2>2, Zenon DEF ReleaseInv
    <2>5. op[v] = "none" /\ attached[v] = {} /\ result[v] = "ok" => \A p \in released[v] : ~Left(v, p)'
      BY <2>2, Zenon DEF ReleaseInv
    <2>6. At(v, {"release"}, "vsock", "unlink")' => allocations'[v] = None
      BY <1>1, <2>3, Zenon DEF ReleaseInv, At
    <2> QED BY <1>1, <2>4, <2>5, <2>6, Zenon DEF ReleaseInv
  <1>3. CASE op[v] # "release" /\ ~(op[v] = "none" /\ attached[v] = {})
    BY <1>1, <1>3, Zenon DEF ReleaseInv, At
  <1> QED BY <1>2, <1>3

LEMMA ReleaseBegun ==
    ASSUME CallShape, NEW v \in VmIds, Begun(v)
    PROVE  ReleaseInv(v)'
  <1>1. pc'[v] = "start"
    BY BeginAlone, Zenon
  <1>2. pc'[v] # "unlink"
    BY <1>1
  <1>3. v \in Callers
    BY VmIsCaller, Zenon
  <1>4. CASE BeginRelease(v)
    <2>1. /\ op' = [op EXCEPT ![v] = "release"] /\ released' = [released EXCEPT ![v] = attached[v]]
          /\ todo' = [todo EXCEPT ![v] = Only(ReleaseOrder, attached[v])]
      BY <1>4, Zenon DEF BeginRelease
    <2>2. op'[v] = "release" /\ released'[v] = attached[v] /\ todo'[v] = Only(ReleaseOrder, attached[v])
      BY <1>3, <2>1, Zenon DEF CallShape
    <2>3. Elems(todo'[v]) = attached[v] \cap Primitives
      BY <2>2, OnlyFacts, Zenon DEF Built
    <2>4. attached[v] \subseteq Primitives
      BY Zenon DEF CallShape
    <2>5. released'[v] \ Elems(todo'[v]) = {}
      BY <2>2, <2>3, <2>4, Zenon
    <2>6. op'[v] # "none"
      BY <2>2
    <2> QED BY <1>2, <2>5, <2>6, Zenon DEF ReleaseInv, At
  <1>5. CASE ~BeginRelease(v)
    <2>1. op' = [op EXCEPT ![v] = "compose"] \/ op' = [op EXCEPT ![v] = "install"]
      BY <1>5, Zenon DEF Begun, BeginCompose, BeginInstall
    <2>2. op'[v] = "compose" \/ op'[v] = "install"
      BY <1>3, <2>1, Zenon DEF CallShape
    <2>3. op'[v] # "release" /\ op'[v] # "none"
      BY <2>2
    <2> QED BY <2>3, Zenon DEF ReleaseInv, At
  <1> QED BY <1>4, <1>5

(* A compose or an install ends with something attached, or in an error.    *)
LEMMA ReleaseElsewhere ==
    ASSUME CallShape, NEW v \in VmIds, op[v] \in {"compose", "install"}, Moves(v)
    PROVE  ReleaseInv(v)'
  <1>1. op'[v] # "release" /\ (op'[v] = "none" /\ attached'[v] = {} => result'[v] # "ok")
    <2>1. CASE GiveUp(v)
      <3>1. op'[v] = "none" /\ result'[v] = "err"
        BY <2>1, GiveUpFacts, Zenon
      <3> QED BY <3>1
    <2>2. CASE \E l : Goto(v, l)
      <3>1. op'[v] = op[v]
        BY <2>2, GotoFacts, Zenon
      <3> QED BY <3>1
    <2>3. CASE Done(v)
      <3>1. attached'[v] # {}
        BY <2>3, DoneFacts, Zenon DEF CallShape
      <3>2. op'[v] \in {op[v], "none"}
        BY <2>3, DoneFacts, Zenon
      <3> QED BY <3>1, <3>2
    <2> QED BY <2>1, <2>2, <2>3, Zenon DEF Moves
  <1> QED BY <1>1, Zenon DEF ReleaseInv, At

LEMMA ReleaseNext ==
    ASSUME CallShape, TableInv, CidInv, NetTypes, JailInv, NEW v \in VmIds, ReleaseInv(v), [Next]_vars
    PROVE  ReleaseInv(v)'
  <1>1. Released(v) => Settles(v)
    BY ReleasedSettles, Zenon
  <1>2. CASE \/ CommandFailure(v) /\ op[v] # "none"
             \/ Network(v) \/ (Moves(v) /\ Vsock(v)) \/ Jail(v) \/ Installs(v) \/ Removes(v)
    <2>1. Moves(v)
      BY <1>2, VmIsCaller, NetworkMoves, JailMoves, InstallMoves, RemovalMoves, FailureMoves,
         Zenon DEF Network, Jail, Installs, Removes, CommandFailure
    <2>2. op[v] \in {"compose", "install", "release"}
      <3>1. op[v] \in Ops /\ op[v] # "none" /\ op[v] # "gc"
        BY <2>1, VmIsCaller, Zenon DEF CallShape, Moves
      <3> QED BY <3>1 DEF Ops
    <2>3. CASE op[v] = "release"
      <3>1. Settles(v)
        BY <1>1, <2>3, Zenon DEF Released, CallShape
      <3>2. ~Installs(v)
        <4>1. Installs(v) => \E l : Installing(v, l)
          BY Zenon DEF Installs, NewChain, FlushChain, FillChain, JumpCheck, InsertJump
        <4> QED BY <2>3, <4>1, Zenon DEF Installing, At
      <3>3. CommandFailure(v) => Undoes(v)
        BY Zenon DEF CommandFailure, CommandFails, Fail, Undoes
      <3>4. Undoes(v)
        BY <1>2, <2>3, <3>2, <3>3, UndoesFilter, UndoesRest, Zenon
      <3> QED BY <2>1, <2>3, <3>1, <3>4, ReleaseUndoes, Zenon
    <2> QED BY <2>1, <2>2, <2>3, ReleaseElsewhere, Zenon
  <1> QED BY <1>1, <1>2, ReleaseSame, ReleaseBegun, StepsSeen, Zenon

LEMMA ReleaseInvHolds == Spec => [](\A v \in VmIds : ReleaseInv(v))
  <1> DEFINE I == \A v \in VmIds : ReleaseInv(v)
  <1>1. Init => I
    <2> SUFFICES ASSUME Init, NEW v \in VmIds PROVE ReleaseInv(v)
      BY Zenon
    <2>1. op[v] = "none" /\ released[v] = {}
      BY VmIsCaller, Zenon DEF Init, CallsInit
    <2> QED BY <2>1, Zenon DEF ReleaseInv, At
  <1>2. I /\ CallShape /\ TableInv /\ CidInv /\ NetTypes /\ JailInv /\ [Next]_vars => I'
    BY ReleaseNext, Zenon
  <1> HIDE DEF I
  <1>3. Spec => []I
    BY <1>1, <1>2, CallShapeHolds, TableInvHolds, CidInvHolds, NetTypesHold, JailInvHolds, PTL DEF Spec
  <1> QED BY <1>3 DEF I

(* compose_release: when none of its steps failed, nothing of what it was   *)
(* to undo is left on the host - no jump, chain, CID, socket file, TAP or   *)
(* chroot - for any number of VMs whose commands interleave with its own,   *)
(* and whatever earlier calls that failed had left behind.                  *)
THEOREM ReleasedIsCleanHolds == Spec => []ReleasedIsClean
  <1> DEFINE I == \A v \in VmIds : ReleaseInv(v)
  <1>1. I => ReleasedIsClean
    BY Zenon DEF ReleaseInv, ReleasedIsClean
  <1>2. Spec => []I
    BY ReleaseInvHolds
  <1> HIDE DEF I
  <1> QED BY <1>1, <1>2, PTL

-----------------------------------------------------------------------------
(* What is left of the types: the failures to come and the socket files.    *)
RestInv == failures \in Nat /\ udsFile \subseteq VmIds

LEMMA FailuresFall ==
    ASSUME [Next]_vars
    PROVE  UNCHANGED failures \/ Failure
  <1>1. ASSUME NEW v \in VmIds, Begin(v) \/ Network(v) \/ Vsock(v) \/ Jail(v)
        PROVE  UNCHANGED failures \/ Failure
    <2>1. CASE Begin(v)
      BY <2>1, Zenon DEF Begin, BeginRelease, BeginCompose
    <2>2. CASE Network(v)
      BY <2>2, Zenon DEF Network, NetworkStep, BridgeShow, BridgeAdd, BridgeUp, NatCheck, NatAdd,
                         ForwardCheck,
                         ForwardAppend, CreateTap, DeleteTap, StepTo, Misread, Refused, Fail, Done
    <2>3. CASE Vsock(v)
      BY <2>3, Zenon DEF Vsock, VsockStep, AttachVsock, BindUds, FreeCid, RemoveUds, calls, StepTo, Refused,
                         Fail, Done
    <2>4. CASE Jail(v)
      BY <2>4, Zenon DEF Jail, JailerStep, Prepare, PrepareFails, Teardown, Fail, Done
    <2> QED BY <1>1, <2>1, <2>2, <2>3, <2>4, SMTT(20)
  <1>2. ASSUME NEW v \in VmIds,
               (\E rules \in Allowlists : BeginInstall(v, rules)) \/ Installs(v)
        PROVE  UNCHANGED failures \/ Failure
    BY <1>2, Zenon DEF BeginInstall, Installs, NewChain, FlushChain, FillChain, JumpCheck, InsertJump,
                       StepTo,
                       Misread, Refused, Fail, Done
  <1>3. ASSUME NEW c \in Callers, Removes(c)
        PROVE  UNCHANGED failures \/ Failure
    BY <1>3, Zenon DEF Removes, ListJumps, DeleteLine, FlushRemoved, RemoveChain, StepTo, Refused, Done
  <1>4. CASE BeginGc \/ ListChains
    BY <1>4, Zenon DEF BeginGc, ListChains, Done
  <1>5. ASSUME NEW c \in Callers, CommandFailure(c) PROVE Failure
    BY <1>5, Zenon DEF CommandFailure, CommandFails, Fail
  <1>6. CASE UNCHANGED vars
    BY <1>6, Zenon DEF vars, calls
  <1>7. CASE Filter
    <2>1. \/ \E v \in VmIds : (\E rules \in Allowlists : BeginInstall(v, rules)) \/ Installs(v)
          \/ \E c \in Callers : Removes(c)
          \/ BeginGc \/ ListChains
      BY <1>7, Zenon DEF Filter, FirewallStep, Installs, Removes
    <2> QED BY <2>1, <1>2, <1>3, <1>4, SMTT(20)
  <1> QED BY <1>1, <1>5, <1>6, <1>7, Zenon DEF Next

LEMMA RestInvHolds == Spec => []RestInv
  <1>1. Init => RestInv
    <2> SUFFICES ASSUME Init PROVE RestInv
      OBVIOUS
    <2>1. PICK d \in Deployments : failures = d.failures
      BY Zenon DEF Init, CallsInit
    <2>2. d \in [on : SUBSET Primitives, ids : SUBSET VmIds, begins : Nat, failures : Nat]
      BY CallAssumption, Zenon
    <2>3. d.failures \in Nat
      BY <2>2
    <2> QED BY <2>1, <2>3, Zenon DEF RestInv, Init, VsockInit
  <1>2. RestInv /\ [Next]_vars => RestInv'
    <2> SUFFICES ASSUME RestInv, [Next]_vars PROVE RestInv'
      OBVIOUS
    <2>1. failures' \in Nat
      <3>1. failures \in Nat
        BY Zenon DEF RestInv
      <3>2. UNCHANGED failures \/ (failures > 0 /\ failures' = failures - 1)
        BY FailuresFall, Zenon DEF Failure
      <3> QED BY <3>1, <3>2
    <2>2. udsFile' \subseteq VmIds
      <3>1. ASSUME NEW v \in VmIds, VsockStep(v) PROVE udsFile' \subseteq VmIds
        BY <3>1, Zenon DEF VsockStep, AttachVsock, BindUds, FreeCid, RemoveUds, RestInv
      <3> QED BY <3>1, VsockAlone, Zenon DEF vsock, RestInv
    <2> QED BY <2>1, <2>2, Zenon DEF RestInv
  <1> QED BY <1>1, <1>2, PTL DEF Spec

LEMMA SeqOfElems ==
    ASSUME NEW S, NEW T, NEW s \in Seq(S), Elems(s) \subseteq T
    PROVE  s \in Seq(T)
  <1>1. \A i \in 1..Len(s) : s[i] \in T
    BY Zenon DEF Elems
  <1>2. Len(s) \in Nat /\ s \in [1..Len(s) -> S]
    OBVIOUS
  <1>3. s \in [1..Len(s) -> T]
    BY <1>1, <1>2
  <1> QED BY <1>2, <1>3

(* The types of the calls, the host's tables and the managers' state hold   *)
(* throughout every run of the host's primitives.                           *)
THEOREM TypeOKHolds == Spec => []TypeOK
  <1>1. CallShape /\ TableInv /\ CidInv /\ NetTypes /\ JailInv /\ RestInv => TypeOK
    <2> SUFFICES ASSUME CallShape, TableInv, CidInv, NetTypes, JailInv, RestInv PROVE TypeOK
      OBVIOUS
    <2>1. /\ composer \subseteq Primitives /\ ids \subseteq VmIds /\ failures \in Nat
          /\ op \in [Callers -> {"none", "compose", "release", "install", "gc"}]
      BY Zenon DEF CallShape, RestInv, Ops
    <2>2. \A v \in VmIds : todo[v] \in Seq(Primitives)
      BY VmIsCaller, SeqOfElems, Zenon DEF CallShape
    <2>3. todo[Gc] \in Seq(VmIds \cup {"list"})
      <3>1. todo[Gc] \in Seq(Items) /\ Elems(todo[Gc]) \subseteq VmIds \cup {"list"}
        BY VmIsCaller, Zenon DEF CallShape
      <3> QED BY <3>1, SeqOfElems, Zenon
    <2>4. /\ attached \in [VmIds -> SUBSET composer]
          /\ released \in [VmIds -> SUBSET composer]
          /\ result \in [VmIds -> {"ok", "err"}]
      BY Zenon DEF CallShape
    <2>5. /\ bridge \in {"absent", "added", "up"} /\ masquerade \in Nat
          /\ tap \in [VmIds -> {"none", "made", "up"}]
      BY Zenon DEF NetTypes
    <2>6. forward \in Seq(Accepts \cup {Jump(v) : v \in VmIds})
      <3>1. {Jump(v) : v \in VmIds} = VmIds
        BY Zenon DEF Jump
      <3> QED BY <3>1, Zenon DEF TableInv
    <2>7. chain \in [VmIds -> Seq(ChainRules) \cup {None}]
      BY Zenon DEF TableInv
    <2>8. allocations \in [VmIds -> Cids \cup {None}] /\ udsFile \subseteq VmIds
      BY Zenon DEF CidInv, RestInv
    <2>9. \A v \in VmIds : jail[v] = None \/ jail[v] \in [Parts -> Images \cup {"ready", "truncated", None}]
      BY Zenon DEF JailInv, Chroots
    <2> QED BY <2>1, <2>2, <2>3, <2>4, <2>5, <2>6, <2>7, <2>8, <2>9, Zenon DEF TypeOK
  <1> QED BY <1>1, CallShapeHolds, TableInvHolds, CidInvHolds, NetTypesHold, JailInvHolds, RestInvHolds, PTL
=============================================================================
