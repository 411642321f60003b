--------------------------- MODULE MCHostResources ---------------------------
(***************************************************************************)
(* HostResources for small hosts: two VMs with a network and a firewall,   *)
(* three VMs for two CIDs, and every primitive for one VM.  Addresses have *)
(* 5 bits, digests 4, and the one subnet is the smallest that is valid.    *)
(***************************************************************************)
EXTENDS HostResources, TLC

CONSTANTS a, b, c

MCVmIds == {a, b, c}

MCDigest == (a :> 5) @@ (b :> 11) @@ (c :> 14)

MCCidHash == (a :> 7) @@ (b :> 5) @@ (c :> 4)

MCSubnets ==
    {[addr |-> 13, prefix |-> 3], [addr |-> 9, prefix |-> 4], [addr |-> 9, prefix |-> 6]}

MCDeployments ==
    { [on |-> {"network", "firewall"}, ids |-> {a, b}, begins |-> 2, failures |-> 0],
      [on |-> {"vsock", "firewall"}, ids |-> {a, b, c}, begins |-> 5, failures |-> 1],
      [on |-> Primitives, ids |-> {a}, begins |-> 3, failures |-> 1] }

MCAllowlists ==
    {<<[cidr |-> "peer", proto |-> "tcp", port |-> TRUE]>>,
     <<[cidr |-> "peer", proto |-> None, port |-> TRUE]>>}
=============================================================================
