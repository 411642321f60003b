----------------------------- MODULE HostNetwork -----------------------------
(***************************************************************************)
(* NetworkManager (src/network): the bridge, the NAT rule and the ACCEPT   *)
(* pair that ensure_host sets up before every attach, the TAP of each VM,  *)
(* and the addresses derived from the VM's id.  The manager keeps no       *)
(* state; each check and each change is one command, so the calls of two   *)
(* creates interleave between them.                                        *)
(***************************************************************************)
EXTENDS HostCalls

CONSTANTS
    Digest,          \* vm -> fnv1a_64 of its id
    HashBits,        \* width of the digest (64), even
    AddrBits,        \* width of an address (32)
    Subnets          \* the configured CIDRs: [addr, prefix]

VARIABLES
    subnet,          \* NetworkConfig.vm_subnet
    bridge,          \* "absent", "added" (no address yet) or "up"
    masquerade,      \* copies of the MASQUERADE rule in POSTROUTING
    forward,         \* the FORWARD chain: the two ACCEPT rules and the VMs' jumps
    tap,             \* vm -> "none", "made" or "up" (and on the bridge)
    address          \* vm -> the guest address attach returned

network == <<subnet, bridge, masquerade, forward, tap, address>>

-----------------------------------------------------------------------------
(* Ipv4Net: an address and the number of its leading bits that are fixed.   *)
num_addresses(n) == 2^(AddrBits - n.prefix)

(* new() masks the host bits away.                                          *)
network_of(a, prefix) == a - (a % 2^(AddrBits - prefix))

broadcast(n) == n.network + num_addresses(n) - 1

contains(n, a) == network_of(a, n.prefix) = n.network

nth(n, offset) == IF offset > num_addresses(n) - 1 THEN None ELSE n.network + offset

gateway_for(n) == nth(n, 1)

(* Mutant: one address too many.                                            *)
host_offset_wide(d, total) == (d % (total - 2)) + 2

(* Skips the network address, the gateway and the broadcast address.        *)
host_offset(d, total) == (d % (total - 3)) + 2

allocate_guest_ip(v, n) == nth(n, host_offset(Digest[v], num_addresses(n)))

(* The first half of the digest's digits; callers own their uniqueness, so  *)
(* a TAP is named by its VM below.                                          *)
tap_name_for(v) == Digest[v] \div 2^(HashBits \div 2)

(* (The powers are numbers whatever the width; the provers do not know it.) *)
ASSUME NetworkAssumption ==
    /\ AddrBits \in Nat /\ HashBits \in Nat
    /\ \A k \in 0..AddrBits : 2^k \in Nat
    /\ Digest \in [VmIds -> Nat]
    /\ Subnets \subseteq [addr : 0..2^AddrBits - 1, prefix : Nat]
    /\ \A v, w \in VmIds : tap_name_for(v) = tap_name_for(w) => v = w

(* from_env: a malformed or too small subnet falls back to a default that   *)
(* is neither; NetworkConfig::new refuses one.                              *)
ValidSubnets ==
    {[network |-> network_of(s.addr, s.prefix), prefix |-> s.prefix] :
        s \in {t \in Subnets : t.prefix <= AddrBits /\ num_addresses(t) >= 4}}

-----------------------------------------------------------------------------
Accepts == {"accept_out", "accept_in"}

NetworkInit ==
    /\ subnet \in ValidSubnets
    /\ bridge = "absent" /\ masquerade = 0 /\ forward = <<>>
    /\ tap = [v \in VmIds |-> "none"]
    /\ address = [v \in VmIds |-> None]

Attaching(v, l) == At(v, {"compose"}, "network", l)

OnForward(r) == \E i \in 1..Len(forward) : forward[i] = r

BridgeShow(v) ==
    /\ Attaching(v, "start")
    /\ StepTo(v, IF bridge = "absent" THEN "bridge_add" ELSE "bridge_up")
    /\ UNCHANGED network

(* Unlike the other additions, this one does not tolerate "exists".         *)
BridgeAdd(v) ==
    /\ Attaching(v, "bridge_add")
    /\ \/ /\ bridge = "absent"
          /\ bridge' = "added" /\ StepTo(v, "bridge_up")
          /\ UNCHANGED <<subnet, masquerade, forward, tap, address>>
       \/ /\ bridge # "absent" /\ Refused(v) /\ UNCHANGED network

(* The address is added if missing, losing that race included; then up.     *)
BridgeUp(v) ==
    /\ Attaching(v, "bridge_up")
    /\ bridge' = "up" /\ StepTo(v, "nat")
    /\ UNCHANGED <<subnet, masquerade, forward, tap, address>>

NatCheck(v) ==
    /\ Attaching(v, "nat")
    /\ \/ StepTo(v, IF masquerade > 0 THEN "accept_out" ELSE "nat_add")
       \/ masquerade > 0 /\ Misread(v, "nat_add")
    /\ UNCHANGED network

NatAdd(v) ==
    /\ Attaching(v, "nat_add")
    /\ masquerade' = masquerade + 1 /\ StepTo(v, "accept_out")
    /\ UNCHANGED <<subnet, bridge, forward, tap, address>>

AfterAccept(r) == IF r = "accept_out" THEN "accept_in" ELSE "tap"

AppendPc(r) == IF r = "accept_out" THEN "append_out" ELSE "append_in"

ForwardCheck(v, r) ==
    /\ Attaching(v, r)
    /\ \/ StepTo(v, IF OnForward(r) THEN AfterAccept(r) ELSE AppendPc(r))
       \/ OnForward(r) /\ Misread(v, AppendPc(r))
    /\ UNCHANGED network

ForwardAppend(v, r) ==
    /\ Attaching(v, AppendPc(r))
    /\ forward' = Append(forward, r) /\ StepTo(v, AfterAccept(r))
    /\ UNCHANGED <<subnet, bridge, masquerade, tap, address>>

(* create_tap touches the VM's own device only: show, add, mtu, master, up. *)
CreateTap(v) ==
    /\ Attaching(v, "tap")
    /\ \/ /\ tap' = [tap EXCEPT ![v] = "up"]
          /\ address' = [address EXCEPT ![v] = allocate_guest_ip(v, subnet)]
          /\ Done(v)
       \/ /\ tap' = [tap EXCEPT ![v] = IF @ = "none" THEN "made" ELSE @]
          /\ Fail(v) /\ UNCHANGED address
    /\ UNCHANGED <<subnet, bridge, masquerade, forward>>

(* show, nomaster, down, delete, and a second way to delete.  A show that   *)
(* fails reads as a missing device: the TAP stays as it is.                 *)
DeleteTap(v) ==
    /\ At(v, {"release"}, "network", "start")
    /\ \/ tap' = [tap EXCEPT ![v] = "none"] /\ Done(v)
       \/ /\ tap[v] # "none"
          /\ tap' \in {tap, [tap EXCEPT ![v] = "made"]} /\ Fail(v)
    /\ address' = [address EXCEPT ![v] = None]
    /\ UNCHANGED <<subnet, bridge, masquerade, forward>>

NetworkStep(v) ==
    \/ BridgeShow(v) \/ BridgeAdd(v) \/ BridgeUp(v) \/ NatCheck(v) \/ NatAdd(v)
    \/ \E r \in Accepts : ForwardCheck(v, r) \/ ForwardAppend(v, r)
    \/ CreateTap(v) \/ DeleteTap(v)
=============================================================================
