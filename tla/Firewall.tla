------------------------------ MODULE Firewall ------------------------------
(***************************************************************************)
(* Firewall (src/firewall.rs): a chain per VM and a jump to it from the    *)
(* FORWARD chain, where the ACCEPT rules of the network manager also are.  *)
(* Every iptables command takes the xtables lock, so a command is atomic;  *)
(* the sequences of commands in install, uninstall and gc_orphans are not. *)
(* The chain of a VM is named by the VM: chain_name is injective here.     *)
(***************************************************************************)
EXTENDS HostNetwork, FiniteSetsExt

CONSTANT Allowlists  \* what callers pass to install: sequences of [cidr, proto, port]

EgressRules == UNION {Range(l) : l \in Allowlists}

(* The rules of a chain: the match, with what it does to a packet.          *)
Drop == [cidr |-> "any", proto |-> None, port |-> FALSE, target |-> "DROP"]
Accept(r) == [cidr |-> r.cidr, proto |-> r.proto, port |-> r.port, target |-> "ACCEPT"]

ChainRules == {Drop} \cup {Accept(r) : r \in EgressRules}

ASSUME FirewallAssumption ==
    /\ IsFiniteSet(VmIds)
    /\ VmIds \cap (Accepts \cup {"list"}) = {}
    /\ Allowlists \subseteq Seq(EgressRules)
    /\ None \notin Seq(ChainRules)

VARIABLES
    chain,           \* vm -> the rules of its chain, None when there is none
    allowlist,       \* vm -> the allowlist of its last install
    indices,         \* caller -> FORWARD line numbers it is about to delete
    known,           \* the vm ids gc_orphans was called with
    outdated,        \* history: callers whose line numbers another caller shifted
    struck           \* history: VMs and ACCEPT rules a caller hit for another reason
                     \* than its call, because what it had read was out of date

history == <<outdated, struck>>

firewall == <<chain, allowlist, indices, known, history>>

(* The FORWARD rule that sends a VM's packets to its chain.                *)
Jump(v) == v

FirewallInit ==
    /\ chain = [v \in VmIds |-> None]
    /\ allowlist = [v \in VmIds |-> <<>>]
    /\ indices = [c \in Callers |-> {}]
    /\ known = {} /\ outdated = {} /\ struck = {}

(* c moves the rules of FORWARD under the callers that hold line numbers.   *)
Shifts(c) == outdated' = outdated \cup {b \in Callers \ {c} : indices[b] # {}}

Installing(v, l) == At(v, {"compose", "install"}, "firewall", l)

(* port: whether the rule names one, which only makes sense with a proto.   *)
validate_egress_rule(r) ==
    /\ r.cidr # "malformed" /\ r.proto \in {None, "tcp", "udp"}
    /\ r.port => r.proto # None

(* A caller replaces the composer's empty allowlist by its own; one that    *)
(* does not validate is refused before anything is touched.                 *)
BeginInstall(v, rules) ==
    /\ Composed(v) /\ "firewall" \in attached[v] /\ Begins
    /\ \A i \in 1..Len(rules) : validate_egress_rule(rules[i])
    /\ op' = [op EXCEPT ![v] = "install"]
    /\ todo' = [todo EXCEPT ![v] = <<"firewall">>]
    /\ result' = [result EXCEPT ![v] = "err"]
    /\ allowlist' = [allowlist EXCEPT ![v] = rules]
    /\ UNCHANGED <<config, pc, attached, released, failures, chain, indices, known, history>>

(* iptables -N: an existing chain is fine.                                  *)
NewChain(v) ==
    /\ Installing(v, "start")
    /\ chain' = [chain EXCEPT ![v] = IF @ = None THEN <<>> ELSE @]
    /\ allowlist' = [allowlist EXCEPT ![v] = IF op[v] = "compose" THEN <<>> ELSE @]
    /\ struck' = struck \ {v}
    /\ StepTo(v, "flush")
    /\ UNCHANGED <<forward, indices, known, outdated>>

FlushChain(v) ==
    /\ Installing(v, "flush")
    /\ \/ /\ chain[v] # None
          /\ chain' = [chain EXCEPT ![v] = <<>>] /\ StepTo(v, "fill")
       \/ chain[v] = None /\ Refused(v) /\ UNCHANGED chain
    /\ UNCHANGED <<forward, allowlist, indices, known, history>>

Rules(v) == Append([i \in 1..Len(allowlist[v]) |-> Accept(allowlist[v][i])], Drop)

(* One -A per allowed destination, then the final DROP.                     *)
FillChain(v) ==
    /\ Installing(v, "fill")
    /\ \/ /\ chain[v] # None
          /\ chain' = [chain EXCEPT ![v] = Rules(v)] /\ StepTo(v, "check")
       \/ /\ chain[v] # None
          /\ \E n \in 0..Len(allowlist[v]) :
                chain' = [chain EXCEPT ![v] = SubSeq(Rules(v), 1, n)]
          /\ Fail(v)
       \/ chain[v] = None /\ Refused(v) /\ UNCHANGED chain
    /\ UNCHANGED <<forward, allowlist, indices, known, history>>

JumpCheck(v) ==
    /\ Installing(v, "check")
    /\ \/ OnForward(Jump(v)) /\ Done(v)
       \/ ~OnForward(Jump(v)) /\ StepTo(v, "jump")
       \/ OnForward(Jump(v)) /\ Misread(v, "jump")
    /\ UNCHANGED <<forward, firewall>>

(* Mutant: appended, behind the ACCEPT rules.                               *)
AppendJump(v) ==
    /\ Installing(v, "jump")
    /\ forward' = Append(forward, Jump(v)) /\ Shifts(v) /\ Done(v)
    /\ UNCHANGED <<chain, allowlist, indices, known, struck>>

(* iptables -I FORWARD 1: ahead of every other rule.                        *)
InsertJump(v) ==
    /\ Installing(v, "jump")
    /\ \/ /\ chain[v] # None
          /\ forward' = <<Jump(v)>> \o forward /\ Shifts(v) /\ Done(v)
       \/ chain[v] = None /\ Refused(v) /\ UNCHANGED <<forward, outdated>>
    /\ UNCHANGED <<chain, allowlist, indices, known, struck>>

-----------------------------------------------------------------------------
(* uninstall and gc_orphans: the chain a caller is removing.                *)
Removing(c, l) ==
    /\ todo[c] # <<>> /\ pc[c] = l
    /\ \/ op[c] = "gc" /\ Head(todo[c]) # "list"
       \/ op[c] = "release" /\ Head(todo[c]) = "firewall"

Target(c) == IF c = Gc THEN Head(todo[c]) ELSE c

(* gc_orphans is at a VM that appeared after it was given the known ids.    *)
Late(c) ==
    /\ c = Gc /\ Target(c) \notin known
    /\ attached[Target(c)] # {} \/ op[Target(c)] # "none"

Strikes(late, x) == struck' = IF late THEN struck \cup {x} ELSE struck

(* The list of known ids is gc_orphans' own and ends with the call.         *)
KnownLives == known' = IF op'[Gc] = "gc" THEN known ELSE {}

(* Mutant: numbers counted from the header of the listing.                  *)
JumpLinesFromHeader(v) == {n \in 2..Len(forward) + 1 : forward[n - 1] = Jump(v)}

(* The line numbers of the jumps to v's chain.                              *)
JumpLines(v) == {n \in 1..Len(forward) : forward[n] = Jump(v)}

ListJumps(c) ==
    /\ Removing(c, "start")
    /\ indices' = [indices EXCEPT ![c] = JumpLines(Target(c))]
    /\ outdated' = outdated \ {c}
    /\ StepTo(c, "delete")
    /\ UNCHANGED <<forward, chain, allowlist, known, struck>>

RemoveLine(n) == SubSeq(forward, 1, n - 1) \o SubSeq(forward, n + 1, Len(forward))

(* iptables -D FORWARD n, the highest number first: whatever rule now has   *)
(* that number.                                                             *)
DeleteLine(c) ==
    /\ Removing(c, "delete") /\ indices[c] # {}
    /\ LET n == Max(indices[c]) IN
       /\ indices' = [indices EXCEPT ![c] = @ \ {n}]
       /\ \/ /\ n <= Len(forward)
             /\ forward' = RemoveLine(n) /\ StepTo(c, "delete")
             /\ Strikes(c \in outdated \/ Late(c), forward[n]) /\ Shifts(c)
          \/ /\ n > Len(forward) /\ UNCHANGED <<forward, history>>
             /\ StepTo(c, "delete") \/ Refused(c)
    /\ KnownLives
    /\ UNCHANGED <<chain, allowlist>>

FlushRemoved(c) ==
    /\ Removing(c, "delete") /\ indices[c] = {}
    /\ \/ chain[Target(c)] = None /\ Done(c) /\ UNCHANGED <<chain, struck>>
       \/ /\ chain[Target(c)] # None
          /\ chain' = [chain EXCEPT ![Target(c)] = <<>>] /\ StepTo(c, "remove")
          /\ Strikes(Late(c), Target(c))
    /\ KnownLives /\ outdated' = outdated \ {c}
    /\ UNCHANGED <<forward, allowlist, indices>>

(* iptables -X: refused while the chain has rules or one still jumps to it. *)
InUse(v) == chain[v] # <<>> \/ OnForward(Jump(v))

RemoveChain(c) ==
    /\ Removing(c, "remove")
    /\ \/ /\ chain[Target(c)] = None \/ ~InUse(Target(c))
          /\ chain' = [chain EXCEPT ![Target(c)] = None] /\ Done(c)
          /\ Strikes(Late(c), Target(c))
       \/ /\ chain[Target(c)] # None /\ InUse(Target(c))
          /\ Refused(c) /\ UNCHANGED <<chain, struck>>
    /\ KnownLives /\ outdated' = outdated \ {c}
    /\ UNCHANGED <<forward, allowlist, indices>>

(* gc_orphans is given the ids whose VMs exist or are being made.           *)
BeginGc ==
    /\ op[Gc] = "none"
    /\ known' = {v \in VmIds : attached[v] # {} \/ op[v] # "none"}
    /\ op' = [op EXCEPT ![Gc] = "gc"]
    /\ todo' = [todo EXCEPT ![Gc] = <<"list">>]
    /\ UNCHANGED <<config, begins, pc, attached, released, result, failures>>
    /\ UNCHANGED <<forward, chain, allowlist, indices, history>>

(* The orders in which a listing may have the members of S.                 *)
Orders(S) == {order \in [1..Cardinality(S) -> S] : IsInjective(order)}

(* iptables -S: every chain under the prefix that no known id hashes to.    *)
ListChains ==
    /\ At(Gc, {"gc"}, "list", "start")
    /\ LET orphans == {v \in VmIds \ known : chain[v] # None} IN
       \/ orphans = {} /\ Done(Gc)
       \/ /\ orphans # {}
          /\ \E order \in Orders(orphans) : todo' = [todo EXCEPT ![Gc] = order]
          /\ UNCHANGED <<config, begins, op, pc, attached, released, result, failures>>
    /\ KnownLives
    /\ UNCHANGED <<forward, chain, allowlist, indices, history>>

FirewallStep ==
    \/ \E v \in VmIds :
        \/ \E rules \in Allowlists : BeginInstall(v, rules) /\ UNCHANGED forward
        \/ NewChain(v) \/ FlushChain(v) \/ FillChain(v) \/ JumpCheck(v) \/ InsertJump(v)
    \/ \E c \in Callers : ListJumps(c) \/ DeleteLine(c) \/ FlushRemoved(c) \/ RemoveChain(c)
    \/ BeginGc \/ ListChains
=============================================================================
