--------------------------- MODULE HostResources ---------------------------
(***************************************************************************)
(* The host resources of the VMs of one provider: the network, vsock,      *)
(* firewall and jailer primitives under the compose and release calls of   *)
(* the adapter, their commands interleaved, with any command failing.      *)
(***************************************************************************)
EXTENDS Firewall, VsockManager, Jailer

vars == <<calls, network, firewall, vsock, jailer>>

Init == CallsInit /\ NetworkInit /\ FirewallInit /\ VsockInit /\ JailerInit

Begin(v) ==
    /\ BeginRelease(v) \/ \E restoring \in BOOLEAN : BeginCompose(v, restoring)
    /\ UNCHANGED <<network, firewall, vsock, jailer>>

(* An ACCEPT rule that is on FORWARD again is struck no more.               *)
Network(v) ==
    /\ NetworkStep(v)
    /\ struck' = struck \ {r \in Accepts : OnForward(r)'}
    /\ UNCHANGED <<chain, allowlist, indices, known, outdated, vsock, jailer>>

Filter ==
    /\ FirewallStep
    /\ UNCHANGED <<subnet, bridge, masquerade, tap, address, vsock, jailer>>

Vsock(v) == VsockStep(v) /\ UNCHANGED <<network, firewall, jailer>>

Jail(v) == JailerStep(v) /\ UNCHANGED <<network, firewall, vsock>>

CommandFailure(c) ==
    /\ CommandFails(c) /\ KnownLives
    /\ UNCHANGED <<network, chain, allowlist, indices, history, vsock, jailer>>

Next ==
    \/ \E v \in VmIds : Begin(v) \/ Network(v) \/ Vsock(v) \/ Jail(v)
    \/ Filter
    \/ \E c \in Callers : CommandFailure(c)

Spec == Init /\ [][Next]_vars

-----------------------------------------------------------------------------
(* The types of the calls, the host's tables and the managers' state.       *)
TypeOK ==
    /\ composer \subseteq Primitives /\ ids \subseteq VmIds /\ failures \in Nat
    /\ op \in [Callers -> {"none", "compose", "release", "install", "gc"}]
    /\ \A v \in VmIds : todo[v] \in Seq(Primitives)
    /\ todo[Gc] \in Seq(VmIds \cup {"list"})
    /\ attached \in [VmIds -> SUBSET composer]
    /\ released \in [VmIds -> SUBSET composer]
    /\ result \in [VmIds -> {"ok", "err"}]
    /\ bridge \in {"absent", "added", "up"} /\ masquerade \in Nat
    /\ forward \in Seq(Accepts \cup {Jump(v) : v \in VmIds})
    /\ tap \in [VmIds -> {"none", "made", "up"}]
    /\ chain \in [VmIds -> Seq(ChainRules) \cup {None}]
    /\ allocations \in [VmIds -> Cids \cup {None}]
    /\ udsFile \subseteq VmIds
    /\ \A v \in VmIds : jail[v] = None \/ jail[v] \in [Parts -> Images \cup {"ready", "truncated", None}]

(* install: once it has returned ok for a composed VM, the VM's packets     *)
(* meet its chain before any ACCEPT, and the chain ends in DROP after the   *)
(* allowlist last asked for - whatever creates, releases and garbage        *)
(* collections of other VMs do to FORWARD meanwhile, unless one of them     *)
(* acted on line numbers or on a list of VMs that had gone out of date.     *)
Confined(v) ==
    /\ chain[v] = Rules(v)
    /\ \E i \in 1..Len(forward) :
        /\ forward[i] = Jump(v)
        /\ \A j \in 1..i - 1 : forward[j] \notin Accepts

ConfinedWhileComposed ==
    \A v \in VmIds :
        Composed(v) /\ "firewall" \in attached[v] /\ result[v] = "ok" =>
            Confined(v) \/ v \in struck

(* ensure_host and attach: a VM with a network keeps the bridge, the NAT    *)
(* rule, both ACCEPT rules and its TAP for as long as it has it, although   *)
(* uninstall deletes FORWARD rules by their position: only a position that  *)
(* another caller's command shifted meanwhile costs it a rule.              *)
ConnectedWhileComposed ==
    \A v \in VmIds :
        "network" \in attached[v] /\ op[v] \in {"none", "install"} =>
            /\ bridge = "up" /\ masquerade > 0 /\ tap[v] = "up"
            /\ \A r \in Accepts : OnForward(r) \/ r \in struck

(* find_free_cid: no two VMs that exist hold one CID, though a failed       *)
(* attach leaves its CID allocated and a retry picks it up again.           *)
CidExclusive ==
    \A v, w \in VmIds :
        cid[v] # None /\ cid[v] = cid[w] => v = w

(* find_free_cid: an attach is refused for want of a CID only when every    *)
(* CID of the range is held; the probe passes the end of the range.         *)
RefusedOnlyWhenFull ==
    \A v \in VmIds : find_free_cid(v) = None => Cids \subseteq Used

(* allocate_guest_ip: the address handed to a guest is in the subnet and is *)
(* neither its network address, nor the gateway, nor the broadcast address. *)
AddressUsable ==
    \A v \in VmIds :
        address[v] # None =>
            /\ contains(subnet, address[v])
            /\ address[v] \notin {subnet.network, gateway_for(subnet), broadcast(subnet)}

(* prepare: a composed VM's chroot holds the images its spec named and the  *)
(* device nodes, and belongs to the jail's user, over whatever an           *)
(* interrupted prepare or teardown for other images left there.             *)
JailServesSpec ==
    \A v \in VmIds :
        "jailer" \in attached[v] =>
            jail[v] = [p \in Parts |-> Content(p, image[v])]

(* compose_release: when none of its steps failed, nothing of what it was   *)
(* to undo is left on the host - no jump (duplicates included), chain, CID, *)
(* socket file, TAP or chroot - even if calls before it had failed.         *)
Left(v, p) ==
    CASE p = "firewall" -> chain[v] # None \/ OnForward(Jump(v))
      [] p = "vsock" -> allocations[v] # None \/ v \in udsFile
      [] p = "network" -> tap[v] # "none"
      [] p = "jailer" -> jail[v] # None

ReleasedIsClean ==
    \A v \in VmIds :
        op[v] = "none" /\ attached[v] = {} /\ result[v] = "ok" =>
            \A p \in released[v] : ~Left(v, p)
=============================================================================
