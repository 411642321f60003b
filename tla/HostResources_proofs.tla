------------------------ MODULE HostResources_proofs ------------------------
(***************************************************************************)
(* Proofs about HostResources, for any VMs, ranges, subnets, images and    *)
(* hash values: the CIDs, the addresses and the chroots, and the facts on  *)
(* the calls, the firewall's tables and the lists that callers hold from   *)
(* which HostResources_composed goes on.                                   *)
(***************************************************************************)
EXTENDS HostResources, FiniteSetTheorems, WellFoundedInduction, TLAPS

(* A larger factor makes a larger product, by the other factor at least.    *)
LEMMA Products ==
    ASSUME NEW n \in Nat, n > 0, NEW a \in Int, NEW b \in Int, a < b
    PROVE  n * b >= n * a + n
  <1> DEFINE d == b - a - 1
  <1>1. d \in Nat /\ b = a + 1 + d
    OBVIOUS
  <1>2. n * d \in Nat
    BY <1>1
  <1>3. n * (a + 1 + d) = n * a + n + n * d
    BY <1>1
  <1> QED BY <1>1, <1>2, <1>3

LEMMA Division ==
    ASSUME NEW h \in Nat, NEW n \in Nat, n > 0
    PROVE  /\ h % n \in 0..n - 1
           /\ h \div n \in Nat
           /\ h = n * (h \div n) + (h % n)
  OBVIOUS

(* Quotient and remainder are determined by what they stand for.            *)
LEMMA DivisionUnique ==
    ASSUME NEW n \in Nat, n > 0, NEW a \in Int, NEW b \in Int,
           NEW r \in 0..n - 1, NEW s \in 0..n - 1, n * a + r = n * b + s
    PROVE  r = s
  <1> n * a \in Int /\ n * b \in Int
    OBVIOUS
  <1>1. ~(a < b)
    <2> SUFFICES ASSUME a < b PROVE FALSE
      OBVIOUS
    <2>1. n * b >= n * a + n
      BY Products, Zenon
    <2> QED BY <2>1
  <1>2. ~(b < a)
    <2> SUFFICES ASSUME b < a PROVE FALSE
      OBVIOUS
    <2>1. n * a >= n * b + n
      BY Products, Zenon
    <2> QED BY <2>1
  <1>3. a = b
    BY <1>1, <1>2
  <1> QED BY <1>3

(* The remainder of a sum, when it lies below n or below 2n.                *)
LEMMA ModSum ==
    ASSUME NEW h \in Nat, NEW n \in Nat, n > 0, NEW k \in Nat
    PROVE  /\ h % n \in 0..n - 1
           /\ (h % n) + k < n => (h + k) % n = (h % n) + k
           /\ n <= (h % n) + k /\ (h % n) + k < 2 * n => (h + k) % n = (h % n) + k - n
  <1> DEFINE q == h \div n
             r == h % n
             p == (h + k) \div n
             s == (h + k) % n
  <1>1. r \in 0..n - 1 /\ h = n * q + r /\ q \in Int
    OBVIOUS
  <1>2. s \in 0..n - 1 /\ h + k = n * p + s /\ p \in Int
    OBVIOUS
  <1> n * q \in Int /\ n * p \in Int
    BY <1>1, <1>2
  <1> HIDE DEF q, r, p, s
  <1>3. r + k < n => s = r + k
    <2> SUFFICES ASSUME r + k < n PROVE s = r + k
      OBVIOUS
    <2>1. n * q + (r + k) = n * p + s /\ r + k \in 0..n - 1
      BY <1>1, <1>2
    <2> QED BY <1>1, <1>2, <2>1, DivisionUnique
  <1>4. n <= r + k /\ r + k < 2 * n => s = r + k - n
    <2> SUFFICES ASSUME n <= r + k, r + k < 2 * n PROVE s = r + k - n
      OBVIOUS
    <2>1. n * (q + 1) = n * q + n /\ q + 1 \in Int
      BY <1>1
    <2>2. n * (q + 1) + (r + k - n) = n * p + s /\ r + k - n \in 0..n - 1
      BY <1>1, <1>2, <2>1
    <2> QED BY <1>1, <1>2, <2>1, <2>2, DivisionUnique, Zenon
  <1> QED BY <1>1, <1>3, <1>4 DEF r, s

-----------------------------------------------------------------------------
(* Context ids.  The inductive invariant: a VM's CID is the one allocated   *)
(* to it, and no CID is allocated twice - to a VM that has none, after a    *)
(* failed attach, no more than to one that runs.                            *)
CidInv ==
    /\ allocations \in [VmIds -> Cids \cup {None}]
    /\ cid \in [VmIds -> Cids \cup {None}]
    /\ \A v \in VmIds : cid[v] # None => allocations[v] = cid[v]
    /\ \A v, w \in VmIds : allocations[v] # None /\ allocations[v] = allocations[w] => v = w

LEMMA NoneIsNoCid == None \notin Cids
  BY CidAssumption DEF Cids

LEMMA SpanPositive ==
    ASSUME FirstCid <= LastCid
    PROVE  Span \in Nat /\ Span > 0
  BY CidAssumption DEF Span

LEMMA CandidateInRange ==
    ASSUME FirstCid <= LastCid, NEW v \in VmIds, NEW k \in Nat
    PROVE  Candidate(v, k) \in Cids
  <1>1. CidHash[v] + k \in Nat
    BY CidAssumption
  <1>2. (CidHash[v] + k) % Span \in 0..Span - 1
    BY <1>1, SpanPositive, ModSum, Zenon
  <1> QED BY <1>2, SpanPositive, CidAssumption DEF Candidate, Cids, Span

(* The probe returns a CID of the range that nobody holds, or none.         *)
LEMMA ProbeIsFresh ==
    ASSUME NEW v \in VmIds
    PROVE  find_free_cid(v) # None => find_free_cid(v) \in Cids \ Used
  <1> SUFFICES ASSUME find_free_cid(v) # None PROVE find_free_cid(v) \in Cids \ Used
    OBVIOUS
  <1>1. ~(FirstCid > LastCid) /\ \E k \in 0..Span - 1 : FirstFree(v, k)
    BY Zenon DEF find_free_cid
  <1>2. FirstCid <= LastCid
    BY <1>1, CidAssumption
  <1> DEFINE k == CHOOSE j \in 0..Span - 1 : FirstFree(v, j)
  <1>3. find_free_cid(v) = Candidate(v, k)
    BY Zenon DEF find_free_cid
  <1>4. k \in 0..Span - 1 /\ FirstFree(v, k)
    BY <1>1, Zenon
  <1>5. k \in Nat
    BY <1>4, <1>2, SpanPositive
  <1> HIDE DEF k
  <1>6. Candidate(v, k) \in Cids
    BY <1>2, <1>5, CandidateInRange, Zenon
  <1>7. Candidate(v, k) \notin Used
    BY <1>4, Zenon DEF FirstFree, Free
  <1> QED BY <1>3, <1>6, <1>7

LEMMA VsockAlone ==
    ASSUME [Next]_vars
    PROVE  UNCHANGED vsock \/ \E v \in VmIds : VsockStep(v)
  BY Zenon DEF Next, vars, Begin, Network, Filter, Vsock, Jail, CommandFailure

LEMMA CidInit == Init => CidInv
  BY NoneIsNoCid, Zenon DEF Init, VsockInit, CidInv

LEMMA CidNext == CidInv /\ [Next]_vars => CidInv'
  <1> SUFFICES ASSUME CidInv, [Next]_vars PROVE CidInv'
    OBVIOUS
  <1> USE DEF CidInv
  <1>1. CASE UNCHANGED vsock
    BY <1>1, Zenon DEF vsock, Cids
  <1>2. ASSUME NEW v \in VmIds, VsockStep(v) PROVE CidInv'
    <2>1. CASE AttachVsock(v)
      <3> DEFINE new == Allocated(v)
      <3>1. allocations' = [allocations EXCEPT ![v] = new]
        BY <2>1, Zenon DEF AttachVsock
      <3>2. cid' = cid \/ (new # None /\ cid' = [cid EXCEPT ![v] = new])
        BY <2>1, Zenon DEF AttachVsock
      <3>3. CASE allocations[v] # None
        <4>1. new = allocations[v]
          BY <3>3, Zenon DEF Allocated
        <4> HIDE DEF new
        <4> QED BY <3>1, <3>2, <4>1 DEF Cids
      <3>4. CASE allocations[v] = None
        <4>1. new = None \/ new \in Cids \ Used
          BY <3>4, ProbeIsFresh, Zenon DEF Allocated
        <4>2. \A w \in VmIds : new # None => allocations[w] # new
          BY <4>1, Zenon DEF Used
        <4>3. cid[v] = None
          BY <3>4, Zenon
        <4> HIDE DEF new
        <4> QED BY <3>1, <3>2, <3>4, <4>1, <4>2, <4>3 DEF Cids
      <3> QED BY <3>3, <3>4
    <2>2. CASE BindUds(v)
      BY <2>2, Zenon DEF BindUds, Cids
    <2>3. CASE FreeCid(v)
      BY <2>3, Zenon DEF FreeCid, Cids
    <2>4. CASE RemoveUds(v)
      BY <2>4, Zenon DEF RemoveUds, Cids
    <2> QED BY <1>2, <2>1, <2>2, <2>3, <2>4 DEF VsockStep
  <1> QED BY <1>1, <1>2, VsockAlone

LEMMA CidInvHolds == Spec => []CidInv
  <1>1. Init => CidInv
    BY CidInit, Zenon
  <1>2. CidInv /\ [Next]_vars => CidInv'
    BY CidNext, Zenon
  <1> QED BY <1>1, <1>2, PTL DEF Spec

(* No two VMs hold one CID (VsockManager::attach), whatever the range, the  *)
(* hash and the failures.                                                   *)
THEOREM CidExclusiveHolds == Spec => []CidExclusive
  <1>1. CidInv => CidExclusive
    BY Zenon DEF CidInv, CidExclusive
  <1> QED BY <1>1, CidInvHolds, PTL

LEMMA LeastNatural ==
    ASSUME NEW T \in SUBSET Nat, T # {}
    PROVE  \E x \in T : \A y \in T : ~(y < x)
  <1> DEFINE R == OpToRel(<, Nat)
  <1>1. IsWellFoundedOn(R, Nat)
    BY NatLessThanWellFounded, Zenon
  <1>2. \A x, y \in Nat : y < x => <<y, x>> \in R
    BY Zenon DEF OpToRel
  <1> HIDE DEF R
  <1>3. \E x \in T : \A y \in T : ~(<<y, x>> \in R)
    BY <1>1, WFMin, Zenon
  <1> QED BY <1>2, <1>3, Zenon

(* Every CID of the range is probed.                                        *)
LEMMA ProbeCovers ==
    ASSUME FirstCid <= LastCid, NEW v \in VmIds, NEW c \in Cids
    PROVE  \E k \in 0..Span - 1 : Candidate(v, k) = c
  <1> DEFINE h == CidHash[v]
             r == h % Span
             d == c - FirstCid
             k == IF r <= d THEN d - r ELSE d - r + Span
  <1>1. h \in Nat /\ Span \in Nat /\ Span > 0 /\ d \in 0..Span - 1 /\ FirstCid \in Nat /\ c \in Nat
    BY SpanPositive, CidAssumption DEF Cids, Span
  <1>2. r \in 0..Span - 1
    BY <1>1, ModSum, Zenon
  <1> HIDE DEF h, r, d
  <1>3. k \in 0..Span - 1
    BY <1>1, <1>2
  <1> HIDE DEF k
  <1>4. (h + k) % Span = d
    <2>1. k \in Nat
      BY <1>1, <1>3
    <2>2. /\ r + k < Span => (h + k) % Span = r + k
          /\ Span <= r + k /\ r + k < 2 * Span => (h + k) % Span = r + k - Span
      BY <1>1, <2>1, ModSum, Zenon DEF r
    <2>3. CASE r <= d
      <3>1. r + k = d /\ r + k < Span
        BY <1>1, <1>2, <2>3 DEF k
      <3> QED BY <2>2, <3>1, Zenon
    <2>4. CASE ~(r <= d)
      <3>1. r + k - Span = d /\ Span <= r + k /\ r + k < 2 * Span
        BY <1>1, <1>2, <2>4 DEF k
      <3> QED BY <2>2, <3>1, Zenon
    <2> QED BY <2>3, <2>4
  <1>5. Candidate(v, k) = c
    <2>1. Candidate(v, k) = FirstCid + ((h + k) % Span)
      BY Zenon DEF Candidate, h
    <2> QED BY <2>1, <1>4, <1>1 DEF d
  <1> QED BY <1>3, <1>5

(* An attach is refused for want of a CID only when the range is full:      *)
(* find_free_cid's count, its start from the hash and its turn at the end   *)
(* of the range miss no free CID.                                           *)
THEOREM RefusedOnlyWhenFullHolds == Spec => []RefusedOnlyWhenFull
  <1>1. CidInv => RefusedOnlyWhenFull
    <2> SUFFICES ASSUME CidInv, NEW v \in VmIds, find_free_cid(v) = None, NEW c \in Cids
                 PROVE  c \in Used
      BY Zenon DEF RefusedOnlyWhenFull
    <2>1. FirstCid <= LastCid
      BY CidAssumption DEF Cids
    <2>2. CASE Cardinality(Used) >= Span
      <3>1. Used \in SUBSET Cids
        BY DEF Used, CidInv
      <3>2. IsFiniteSet(Cids) /\ Cardinality(Cids) = Span
        BY <2>1, CidAssumption, FS_Interval DEF Cids, Span
      <3>3. IsFiniteSet(Used) /\ Cardinality(Used) <= Span /\ Cardinality(Used) \in Nat
        BY <3>1, <3>2, FS_Subset, FS_CardinalityType, Zenon
      <3>4. Cardinality(Used) = Span
        BY <2>1, <2>2, <3>3, SpanPositive
      <3> QED BY <3>1, <3>2, <3>4, FS_Subset
    <2>3. CASE ~\E k \in 0..Span - 1 : FirstFree(v, k)
      <3> DEFINE T == {k \in 0..Span - 1 : Free(v, k)}
      <3>1. T = {}
        <4> SUFFICES ASSUME T # {} PROVE FALSE
          OBVIOUS
        <4>1. T \in SUBSET Nat
          BY <2>1, SpanPositive
        <4> HIDE DEF T
        <4>2. PICK x \in T : \A y \in T : ~(y < x)
          BY <4>1, LeastNatural, Zenon
        <4>3. x \in 0..Span - 1 /\ Free(v, x) /\ \A j \in 0..x - 1 : ~Free(v, j)
          BY <2>1, <4>1, <4>2, SpanPositive DEF T
        <4> QED BY <2>3, <4>3 DEF FirstFree
      <3>2. PICK k \in 0..Span - 1 : Candidate(v, k) = c
        BY <2>1, ProbeCovers, Zenon
      <3> QED BY <3>1, <3>2 DEF Free
    <2>4. CASE ~(Cardinality(Used) >= Span) /\ \E k \in 0..Span - 1 : FirstFree(v, k)
      <3>1. ~(FirstCid > LastCid)
        BY <2>1, CidAssumption
      <3>2. PICK k \in 0..Span - 1 : find_free_cid(v) = Candidate(v, k)
        BY <2>4, <3>1, Zenon DEF find_free_cid
      <3>3. k \in Nat
        BY <2>1, <3>2, SpanPositive
      <3> QED BY <2>1, <3>2, <3>3, CandidateInRange, NoneIsNoCid
    <2> QED BY <2>2, <2>3, <2>4
  <1> QED BY <1>1, CidInvHolds, PTL

-----------------------------------------------------------------------------
(* Guest addresses.                                                         *)
AddressInv ==
    /\ subnet \in ValidSubnets
    /\ address \in [VmIds -> Nat \cup {None}]
    /\ \A v \in VmIds : address[v] \in {None, allocate_guest_ip(v, subnet)}

(* The hash's place between the gateway and the broadcast address.          *)
LEMMA Offset ==
    ASSUME NEW d \in Nat, NEW n \in Nat, n >= 4
    PROVE  host_offset(d, n) \in 2..n - 2
  <1>1. n - 3 \in Nat /\ n - 3 > 0
    OBVIOUS
  <1>2. d % (n - 3) \in 0..(n - 3) - 1
    BY <1>1, ModSum, Zenon
  <1> QED BY <1>1, <1>2 DEF host_offset

(* A subnet begins at a multiple of its size, so adding an offset below the *)
(* size does not leave it.                                                  *)
LEMMA Subnet ==
    ASSUME NEW n \in ValidSubnets
    PROVE  /\ n.network \in Nat /\ num_addresses(n) \in Nat /\ num_addresses(n) >= 4
           /\ \A k \in 0..num_addresses(n) - 1 : contains(n, n.network + k)
  <1>1. PICK s \in Subnets :
            /\ s.prefix <= AddrBits /\ num_addresses(s) >= 4
            /\ n = [network |-> network_of(s.addr, s.prefix), prefix |-> s.prefix]
    BY Zenon DEF ValidSubnets
  <1> DEFINE size == 2^(AddrBits - s.prefix)
             q == s.addr \div size
  <1>2. s.prefix \in Nat /\ AddrBits \in Nat /\ s.addr \in Nat
    BY NetworkAssumption
  <1>3. AddrBits - s.prefix \in 0..AddrBits
    BY <1>1, <1>2
  <1>4. size \in Nat
    BY <1>3, NetworkAssumption, Zenon
  <1>5. num_addresses(n) = size /\ num_addresses(s) = size
    BY <1>1, Zenon DEF num_addresses
  <1>6. n.network = s.addr - (s.addr % size)
    BY <1>1, Zenon DEF network_of
  <1>7. \A a : contains(n, a) <=> a - (a % size) = n.network
    BY <1>1, Zenon DEF contains, network_of
  <1> HIDE DEF size
  <1>8. size > 0 /\ size >= 4
    BY <1>1, <1>4, <1>5
  <1>9. q \in Nat /\ s.addr = size * q + (s.addr % size) /\ s.addr % size \in 0..size - 1
    BY <1>2, <1>4, <1>8, Division, Zenon
  <1> HIDE DEF q
  <1>10. size * q \in Nat /\ n.network = size * q
    BY <1>2, <1>4, <1>6, <1>9
  <1>11. ASSUME NEW k \in 0..size - 1 PROVE contains(n, n.network + k)
    <2> DEFINE a == n.network + k
               p == a \div size
               r == a % size
    <2>1. a \in Nat
      BY <1>4, <1>10
    <2>2. a = size * p + r /\ p \in Nat /\ r \in 0..size - 1
      BY <1>4, <1>8, <2>1, Division, Zenon
    <2>3. a = size * q + k
      BY <1>10, Zenon
    <2> HIDE DEF a, p, r
    <2>4. r = k
      <3>1. size * p + r = size * q + k
        BY <2>2, <2>3, Zenon
      <3>2. p \in Int /\ q \in Int
        BY <1>9, <2>2
      <3> QED BY <1>4, <1>8, <2>2, <3>1, <3>2, DivisionUnique
    <2>5. a - r = n.network
      BY <1>10, <1>4, <2>3, <2>4
    <2> QED BY <1>7, <2>5 DEF a, r
  <1> QED BY <1>4, <1>5, <1>8, <1>10, <1>11

LEMMA GuestAddress ==
    ASSUME NEW n \in ValidSubnets, NEW v \in VmIds
    PROVE  LET a == allocate_guest_ip(v, n) IN
           /\ a \in Nat /\ contains(n, a)
           /\ a \notin {n.network, gateway_for(n), broadcast(n)}
  <1> DEFINE size == num_addresses(n)
             k == host_offset(Digest[v], size)
  <1>1. n.network \in Nat /\ size \in Nat /\ size >= 4
    BY Subnet, Zenon
  <1>2. k \in 2..size - 2
    BY <1>1, Offset, NetworkAssumption, Zenon
  <1>3. allocate_guest_ip(v, n) = nth(n, k) /\ gateway_for(n) = nth(n, 1)
    BY Zenon DEF allocate_guest_ip, gateway_for
  <1>4. \A j : nth(n, j) = IF j > size - 1 THEN None ELSE n.network + j
    BY Zenon DEF nth
  <1>5. broadcast(n) = n.network + size - 1
    BY Zenon DEF broadcast
  <1>6. \A j \in 0..size - 1 : contains(n, n.network + j)
    BY Subnet, Zenon
  <1> HIDE DEF size, k
  <1>7. allocate_guest_ip(v, n) = n.network + k /\ gateway_for(n) = n.network + 1
    BY <1>1, <1>2, <1>3, <1>4
  <1>8. k \in 0..size - 1
    BY <1>1, <1>2
  <1>9. contains(n, allocate_guest_ip(v, n))
    BY <1>6, <1>7, <1>8, Zenon
  <1> QED BY <1>1, <1>2, <1>5, <1>7, <1>9

LEMMA NetworkAlone ==
    ASSUME [Next]_vars
    PROVE  UNCHANGED <<subnet, address>> \/ \E v \in VmIds : CreateTap(v) \/ DeleteTap(v)
  BY Zenon DEF Next, vars, network, Begin, Network, Filter, Vsock, Jail, CommandFailure, NetworkStep,
               BridgeShow, BridgeAdd, BridgeUp, NatCheck, NatAdd, ForwardCheck, ForwardAppend

LEMMA AddressInvHolds == Spec => []AddressInv
  <1>1. Init => AddressInv
    BY Zenon DEF Init, NetworkInit, AddressInv
  <1>2. AddressInv /\ [Next]_vars => AddressInv'
    <2> SUFFICES ASSUME AddressInv, [Next]_vars PROVE AddressInv'
      OBVIOUS
    <2> USE DEF AddressInv
    <2>1. CASE UNCHANGED <<subnet, address>>
      BY <2>1, Zenon DEF allocate_guest_ip, nth, num_addresses, ValidSubnets
    <2>2. ASSUME NEW v \in VmIds, CreateTap(v) \/ DeleteTap(v) PROVE AddressInv'
      <3> DEFINE a == allocate_guest_ip(v, subnet)
      <3>1. a \in Nat
        BY GuestAddress, Zenon
      <3>2. subnet' = subnet /\ \E b \in {address[v], None, a} : address' = [address EXCEPT ![v] = b]
        BY <2>2, Zenon DEF CreateTap, DeleteTap
      <3> QED BY <3>1, <3>2
    <2> QED BY <2>1, <2>2, NetworkAlone
  <1> QED BY <1>1, <1>2, PTL DEF Spec

(* The guest's address is a host address of the subnet: neither the         *)
(* network's own, nor the gateway's, nor the broadcast address              *)
(* (allocate_guest_ip), for every subnet of four addresses or more and      *)
(* every hash.                                                              *)
THEOREM AddressUsableHolds == Spec => []AddressUsable
  <1>1. AddressInv => AddressUsable
    BY GuestAddress, Zenon DEF AddressInv, AddressUsable
  <1> QED BY <1>1, AddressInvHolds, PTL

-----------------------------------------------------------------------------
(* The chroot.  What a call records as attached only grows by the item it   *)
(* has just finished, and is empty while a release undoes it.               *)
Ops == {"none", "compose", "release", "install", "gc"}

CallInv ==
    /\ op \in [Callers -> Ops]
    /\ attached \in [VmIds -> SUBSET Primitives]
    /\ \A v \in VmIds : op[v] = "release" => attached[v] = {}

(* A step that does not report a finished prepare.                          *)
Quiet ==
    /\ CallInv'
    /\ \A v \in VmIds : "jailer" \in attached'[v] => "jailer" \in attached[v]

LEMMA DoneQuiet ==
    ASSUME CallInv, NEW c \in Callers, Done(c),
           op[c] = "compose" => Head(todo[c]) \in Primitives
    PROVE  /\ CallInv'
           /\ \A v \in VmIds :
                "jailer" \in attached'[v] =>
                    \/ "jailer" \in attached[v]
                    \/ v = c /\ op[c] = "compose" /\ Head(todo[c]) = "jailer"
  <1>1. op' = op \/ op' = [op EXCEPT ![c] = "none"]
    BY Zenon DEF Done, Return
  <1>2. attached' = IF op[c] = "compose"
                    THEN [attached EXCEPT ![c] = @ \cup {Head(todo[c])}] ELSE attached
    BY Zenon DEF Done
  <1> QED BY <1>1, <1>2, Zenon DEF CallInv, Ops, Callers

LEMMA GiveUpQuiet ==
    ASSUME CallInv, NEW c \in Callers, GiveUp(c)
    PROVE  Quiet
  <1>1. op' = op \/ op' = [op EXCEPT ![c] = "none"]
    BY Zenon DEF GiveUp, Return
  <1>2. attached' = IF op[c] = "compose" THEN [attached EXCEPT ![c] = {}] ELSE attached
    BY Zenon DEF GiveUp
  <1> QED BY <1>1, <1>2, Zenon DEF CallInv, Ops, Callers, Quiet

LEMMA StillQuiet ==
    ASSUME CallInv, UNCHANGED <<op, attached>>
    PROVE  Quiet
  BY Zenon DEF CallInv, Quiet

LEMMA Attachable == {"network", "vsock", "firewall", "jailer"} \subseteq Primitives
  BY Zenon DEF Primitives

LEMMA BeginQuiet ==
    ASSUME CallInv, NEW v \in VmIds, Begin(v)
    PROVE  Quiet
  <1>1. CASE BeginRelease(v)
    <2>1. op' = [op EXCEPT ![v] = "release"] /\ attached' = [attached EXCEPT ![v] = {}]
      BY <1>1, Zenon DEF BeginRelease
    <2> QED BY <2>1 DEF CallInv, Ops, Callers, Quiet
  <1>2. ASSUME NEW r \in BOOLEAN, BeginCompose(v, r) PROVE Quiet
    <2>1. op' = [op EXCEPT ![v] = "compose"] /\ attached' = attached
      BY <1>2, Zenon DEF BeginCompose
    <2> QED BY <2>1 DEF CallInv, Ops, Callers, Quiet
  <1> QED BY <1>1, <1>2 DEF Begin

LEMMA NetworkQuiet ==
    ASSUME CallInv, NEW v \in VmIds, NetworkStep(v)
    PROVE  Quiet
  <1> v \in Callers
    BY Zenon DEF Callers
  <1>1. CASE UNCHANGED <<op, attached>>
    BY <1>1, StillQuiet, Zenon
  <1>2. CASE GiveUp(v)
    BY <1>2, GiveUpQuiet, Zenon
  <1>3. CASE CreateTap(v) /\ Done(v)
    <2>1. op[v] = "compose" /\ Head(todo[v]) = "network"
      BY <1>3, Zenon DEF CreateTap, Attaching, At
    <2> QED BY <1>3, <2>1, DoneQuiet, Attachable DEF Quiet
  <1>4. CASE DeleteTap(v) /\ Done(v)
    <2>1. op[v] = "release"
      BY <1>4, Zenon DEF DeleteTap, At
    <2> QED BY <1>4, <2>1, DoneQuiet DEF Quiet
  <1> QED BY <1>1, <1>2, <1>3, <1>4, Zenon
          DEF NetworkStep, BridgeShow, BridgeAdd, BridgeUp, NatCheck, NatAdd, ForwardCheck, ForwardAppend,
              CreateTap, DeleteTap, StepTo, Goto, Misread, Fail, Refused

LEMMA VsockQuiet ==
    ASSUME CallInv, NEW v \in VmIds, VsockStep(v)
    PROVE  Quiet
  <1> v \in Callers
    BY Zenon DEF Callers
  <1>1. CASE UNCHANGED <<op, attached>>
    BY <1>1, StillQuiet, Zenon
  <1>2. CASE GiveUp(v)
    BY <1>2, GiveUpQuiet, Zenon
  <1>3. CASE AttachVsock(v) /\ Done(v)
    <2>1. op[v] = "compose" /\ Head(todo[v]) = "vsock"
      BY <1>3, Zenon DEF AttachVsock, At
    <2> QED BY <1>3, <2>1, DoneQuiet, Attachable DEF Quiet
  <1>4. CASE RemoveUds(v) /\ Done(v)
    <2>1. op[v] = "release"
      BY <1>4, Zenon DEF RemoveUds, At
    <2> QED BY <1>4, <2>1, DoneQuiet DEF Quiet
  <1> QED BY <1>1, <1>2, <1>3, <1>4, Zenon
          DEF VsockStep, AttachVsock, BindUds, FreeCid, RemoveUds, StepTo, Goto, Fail, Refused, calls

LEMMA FilterQuiet ==
    ASSUME CallInv, FirewallStep
    PROVE  Quiet
  <1>1. ASSUME NEW v \in VmIds, NewChain(v) \/ FlushChain(v) \/ FillChain(v) \/ JumpCheck(v) \/ InsertJump(v)
        PROVE  Quiet
    <2> v \in Callers
      BY Zenon DEF Callers
    <2>1. CASE UNCHANGED <<op, attached>>
      BY <2>1, StillQuiet, Zenon
    <2>2. CASE GiveUp(v)
      BY <2>2, GiveUpQuiet, Zenon
    <2>3. CASE (JumpCheck(v) \/ InsertJump(v)) /\ Done(v)
      <3>1. Head(todo[v]) = "firewall"
        BY <2>3, Zenon DEF JumpCheck, InsertJump, Installing, At
      <3> QED BY <2>3, <3>1, DoneQuiet, Attachable DEF Quiet
    <2> QED BY <1>1, <2>1, <2>2, <2>3, Zenon
            DEF NewChain, FlushChain, FillChain, JumpCheck, InsertJump, StepTo, Goto, Misread, Fail, Refused
  <1>2. ASSUME NEW v \in VmIds, NEW rules \in Allowlists, BeginInstall(v, rules) PROVE Quiet
    <2>1. op' = [op EXCEPT ![v] = "install"] /\ attached' = attached
      BY <1>2, Zenon DEF BeginInstall
    <2> QED BY <2>1 DEF CallInv, Ops, Callers, Quiet
  <1>3. ASSUME NEW c \in Callers, ListJumps(c) \/ DeleteLine(c) \/ FlushRemoved(c) \/ RemoveChain(c)
        PROVE  Quiet
    <2>1. CASE UNCHANGED <<op, attached>>
      BY <2>1, StillQuiet, Zenon
    <2>2. CASE GiveUp(c)
      BY <2>2, GiveUpQuiet, Zenon
    <2>3. CASE (FlushRemoved(c) \/ RemoveChain(c)) /\ Done(c)
      <3>1. op[c] # "compose"
        BY <2>3, Zenon DEF FlushRemoved, RemoveChain, Removing
      <3> QED BY <2>3, <3>1, DoneQuiet DEF Quiet
    <2> QED BY <1>3, <2>1, <2>2, <2>3, Zenon
            DEF ListJumps, DeleteLine, FlushRemoved, RemoveChain, StepTo, Goto, Refused
  <1>4. CASE BeginGc
    <2>1. op' = [op EXCEPT ![Gc] = "gc"] /\ attached' = attached
      BY <1>4, Zenon DEF BeginGc
    <2> QED BY <2>1, CallAssumption DEF CallInv, Ops, Callers, Quiet
  <1>5. CASE ListChains
    <2>1. CASE UNCHANGED <<op, attached>>
      BY <2>1, StillQuiet, Zenon
    <2>2. CASE Done(Gc)
      <3>1. op[Gc] # "compose" /\ Gc \in Callers
        BY <1>5, Zenon DEF ListChains, At, Callers
      <3> QED BY <2>2, <3>1, DoneQuiet DEF Quiet
    <2> QED BY <1>5, <2>1, <2>2, Zenon DEF ListChains
  <1> QED BY <1>1, <1>2, <1>3, <1>4, <1>5, Zenon DEF FirewallStep

(* What a chroot may hold: device nodes are never taken from an image.      *)
Chroots ==
    {j \in [Parts -> Images \cup {"ready", "truncated", None}] : j["dev"] \in {"ready", None}}

JailInv ==
    /\ CallInv
    /\ jail \in [VmIds -> Chroots \cup {None}]
    /\ image \in [VmIds -> Images \cup {None}]
    /\ JailServesSpec

LEMMA StagingOrder ==
    /\ Len(Staging) = 4 /\ Parts = {"kernel", "rootfs", "dev", "owner"}
    /\ \A i \in 1..4 : Staging[i] \in Parts
    /\ (CHOOSE i \in 1..4 : Staging[i] = "dev") = 3
    /\ \A p \in Parts : (CHOOSE i \in 1..4 : Staging[i] = p) \in 1..4
  <1>1. Len(Staging) = 4
    BY Zenon DEF Staging
  <1>2. /\ Staging[1] = "kernel" /\ Staging[2] = "rootfs"
        /\ Staging[3] = "dev" /\ Staging[4] = "owner"
    BY Zenon DEF Staging
  <1>3. Parts = {"kernel", "rootfs", "dev", "owner"}
    BY <1>1, <1>2 DEF Parts
  <1>4. \A p \in Parts : \E i \in 1..4 : Staging[i] = p
    BY <1>2, <1>3
  <1>5. \A i \in 1..4 : Staging[i] = "dev" => i = 3
    BY <1>2
  <1> QED BY <1>1, <1>2, <1>3, <1>4, <1>5

LEMMA ExistingIsChroot ==
    ASSUME NEW v \in VmIds, jail[v] \in Chroots \cup {None}
    PROVE  Existing(v) \in Chroots
  <1>1. "dev" \in Parts
    BY StagingOrder, Zenon
  <1> QED BY <1>1 DEF Existing, EmptyJail, Chroots

(* What is staged, part by part.                                            *)
LEMMA StagedParts ==
    ASSUME NEW old \in Chroots, NEW im \in Images
    PROVE  /\ \A p \in Parts : Staged(p, old[p], im) = Content(p, im)
           /\ \A p \in Parts : Content(p, im) \in Images \cup {"ready"}
           /\ Content("dev", im) = "ready"
  BY StagingOrder, Zenon DEF Chroots, Staged, Content, Files, link_or_copy, ensure_char_device, chown_tree

LEMMA StagedIsChroot ==
    ASSUME NEW old \in Chroots, NEW im \in Images, NEW n \in 0..3,
           NEW next \in GivenUp(Staging[n + 1], old[Staging[n + 1]])
    PROVE  StagedUpTo(old, im, n, next) \in Chroots
  <1> DEFINE k(p) == CHOOSE i \in 1..4 : Staging[i] = p
             new(p) == IF k(p) <= n THEN Staged(p, old[p], im)
                       ELSE IF k(p) = n + 1 THEN next
                       ELSE IF p = "owner" /\ n > 0 THEN None ELSE old[p]
  <1>1. StagedUpTo(old, im, n, next) = [p \in Parts |-> new(p)]
    BY StagingOrder DEF StagedUpTo
  <1>2. \A p \in Parts : new(p) \in {Content(p, im), next, None, old[p]}
    BY StagedParts, Zenon
  <1>3. next \in Images \cup {"ready", "truncated", None}
    BY StagingOrder DEF Chroots, GivenUp
  <1>4. \A p \in Parts : new(p) \in Images \cup {"ready", "truncated", None}
    BY <1>2, <1>3, StagedParts DEF Chroots
  <1>5. "dev" \in Parts /\ k("dev") = 3
    BY StagingOrder, Zenon
  <1>6. n = 2 => next \in {"ready", None}
    <2> SUFFICES ASSUME n = 2 PROVE next \in {"ready", None}
      OBVIOUS
    <2>1. Staging[n + 1] = "dev"
      BY DEF Staging
    <2> QED BY <2>1 DEF Chroots, GivenUp, Files
  <1> HIDE DEF k
  <1>7. new("dev") \in {"ready", None}
    BY <1>5, <1>6, StagedParts DEF Chroots
  <1> HIDE DEF new
  <1> QED BY <1>1, <1>4, <1>5, <1>7 DEF Chroots

LEMMA PreparedServes ==
    ASSUME NEW old \in Chroots, NEW im \in Images
    PROVE  /\ StagedUpTo(old, im, Len(Staging), None) = [p \in Parts |-> Content(p, im)]
           /\ StagedUpTo(old, im, Len(Staging), None) \in Chroots
  <1> DEFINE k(p) == CHOOSE i \in 1..4 : Staging[i] = p
  <1>1. Len(Staging) = 4 /\ \A p \in Parts : k(p) \in 1..4
    BY StagingOrder, Zenon
  <1>2. StagedUpTo(old, im, Len(Staging), None) = [p \in Parts |-> Staged(p, old[p], im)]
    <2>1. StagedUpTo(old, im, Len(Staging), None) =
              [p \in Parts |-> IF k(p) <= 4 THEN Staged(p, old[p], im)
                               ELSE IF k(p) = 4 + 1 THEN None
                               ELSE IF p = "owner" /\ 4 > 0 THEN None ELSE old[p]]
      BY <1>1 DEF StagedUpTo
    <2> HIDE DEF k
    <2>2. \A p \in Parts : k(p) <= 4
      BY <1>1
    <2> QED BY <2>1, <2>2
  <1>3. StagedUpTo(old, im, Len(Staging), None) = [p \in Parts |-> Content(p, im)]
    BY <1>2, StagedParts, Zenon
  <1>4. [p \in Parts |-> Content(p, im)] \in Chroots
    BY StagedParts, StagingOrder DEF Chroots
  <1> QED BY <1>3, <1>4

LEMMA QuietKeeps ==
    ASSUME JailInv, Quiet, UNCHANGED jailer
    PROVE  JailInv'
  BY Zenon DEF JailInv, Quiet, jailer, JailServesSpec, Chroots, Content

LEMMA JailKeeps ==
    ASSUME JailInv, NEW v \in VmIds, JailerStep(v)
    PROVE  JailInv'
  <1> USE DEF JailInv
  <1> v \in Callers
    BY Zenon DEF Callers
  <1>1. Existing(v) \in Chroots
    BY ExistingIsChroot, Zenon
  <1>2. ASSUME NEW im \in Images, Prepare(v, im) PROVE JailInv'
    <2> DEFINE new == StagedUpTo(Existing(v), im, Len(Staging), None)
    <2>1. /\ Head(todo[v]) = "jailer" /\ Done(v)
          /\ image' = [image EXCEPT ![v] = im] /\ jail' = [jail EXCEPT ![v] = new]
      BY <1>2, Zenon DEF Prepare, At
    <2>2. new = [p \in Parts |-> Content(p, im)] /\ new \in Chroots
      BY <1>1, PreparedServes, Zenon
    <2> HIDE DEF new
    <2>3. CallInv' /\ \A w \in VmIds \ {v} : "jailer" \in attached'[w] => "jailer" \in attached[w]
      BY <2>1, DoneQuiet, Attachable, Zenon
    <2>4. jail' \in [VmIds -> Chroots \cup {None}] /\ image' \in [VmIds -> Images \cup {None}]
      BY <2>1, <2>2, Zenon
    <2>5. JailServesSpec'
      <3> SUFFICES ASSUME NEW w \in VmIds, "jailer" \in attached'[w]
                   PROVE  jail'[w] = [p \in Parts |-> Content(p, image'[w])]
        BY Zenon DEF JailServesSpec
      <3>1. CASE w = v
        BY <2>1, <2>2, <3>1, Zenon
      <3>2. CASE w # v
        BY <2>1, <2>3, <3>2, Zenon DEF JailServesSpec
      <3> QED BY <3>1, <3>2
    <2> QED BY <2>3, <2>4, <2>5 DEF Chroots
  <1>3. ASSUME NEW im \in Images, PrepareFails(v, im) PROVE JailInv'
    <2>1. op[v] = "compose" /\ GiveUp(v) /\ image' = [image EXCEPT ![v] = im]
      BY <1>3, Zenon DEF PrepareFails, At, Fail
    <2>2. Quiet /\ attached'[v] = {}
      BY <2>1, GiveUpQuiet, Zenon DEF GiveUp, CallInv
    <2>3. \E j \in Chroots \cup {None} : jail' = [jail EXCEPT ![v] = j]
      <3>1. CASE UNCHANGED jail
        BY <3>1, Zenon
      <3>2. ASSUME NEW n \in 0..Len(Staging) - 1,
                   NEW next \in GivenUp(Staging[n + 1], Existing(v)[Staging[n + 1]]),
                   jail' = [jail EXCEPT ![v] = StagedUpTo(Existing(v), im, n, next)]
            PROVE  \E j \in Chroots \cup {None} : jail' = [jail EXCEPT ![v] = j]
        <4>1. n \in 0..3
          BY StagingOrder
        <4>2. StagedUpTo(Existing(v), im, n, next) \in Chroots
          BY <1>1, <4>1, StagedIsChroot, Zenon
        <4> QED BY <3>2, <4>2, Zenon
      <3> QED BY <1>3, <3>1, <3>2 DEF PrepareFails
    <2>4. jail' \in [VmIds -> Chroots \cup {None}] /\ image' \in [VmIds -> Images \cup {None}]
      BY <2>1, <2>3, Zenon
    <2>5. JailServesSpec'
      <3> SUFFICES ASSUME NEW w \in VmIds, "jailer" \in attached'[w]
                   PROVE  jail'[w] = [p \in Parts |-> Content(p, image'[w])]
        BY Zenon DEF JailServesSpec
      <3>1. w # v /\ "jailer" \in attached[w]
        BY <2>2, Zenon DEF Quiet
      <3> QED BY <2>1, <2>3, <3>1 DEF JailServesSpec
    <2> QED BY <2>2, <2>4, <2>5 DEF Chroots, Quiet
  <1>4. CASE Teardown(v)
    <2>1. op[v] = "release" /\ UNCHANGED image
      BY <1>4, Zenon DEF Teardown, At
    <2>2. attached[v] = {}
      BY <2>1, Zenon DEF CallInv
    <2>3. Quiet
      <3>1. CASE Done(v)
        BY <2>1, <3>1, DoneQuiet, Zenon DEF Quiet
      <3>2. CASE GiveUp(v)
        BY <3>2, GiveUpQuiet, Zenon
      <3> QED BY <1>4, <3>1, <3>2, Zenon DEF Teardown, Fail
    <2>4. \E j \in Chroots \cup {None} : jail' = [jail EXCEPT ![v] = j]
      <3>1. CASE jail' = [jail EXCEPT ![v] = None]
        BY <3>1, Zenon
      <3>2. ASSUME NEW kept \in SUBSET Parts, jail[v] # None,
                   jail' = [jail EXCEPT ![v] = [p \in Parts |-> IF p \in kept THEN @[p] ELSE None]]
            PROVE  \E j \in Chroots \cup {None} : jail' = [jail EXCEPT ![v] = j]
        <4> DEFINE j == [p \in Parts |-> IF p \in kept THEN jail[v][p] ELSE None]
        <4>1. jail' = [jail EXCEPT ![v] = j]
          BY <3>2, Zenon
        <4>2. jail[v] \in Chroots /\ "dev" \in Parts
          BY <3>2, StagingOrder, Zenon
        <4>3. j \in Chroots
          BY <4>2, Zenon DEF Chroots
        <4> QED BY <4>1, <4>3
      <3> QED BY <1>4, <3>1, <3>2 DEF Teardown
    <2>5. jail' \in [VmIds -> Chroots \cup {None}]
      BY <2>4, Zenon
    <2>6. JailServesSpec'
      <3> SUFFICES ASSUME NEW w \in VmIds, "jailer" \in attached'[w]
                   PROVE  jail'[w] = [p \in Parts |-> Content(p, image'[w])]
        BY Zenon DEF JailServesSpec
      <3>1. w # v /\ "jailer" \in attached[w]
        BY <2>2, <2>3, Zenon DEF Quiet
      <3> QED BY <2>1, <2>4, <3>1 DEF JailServesSpec
    <2> QED BY <2>1, <2>3, <2>5, <2>6 DEF Chroots, Quiet
  <1> QED BY <1>2, <1>3, <1>4 DEF JailerStep

LEMMA JailInvHolds == Spec => []JailInv
  <1>1. Init => JailInv
    BY CallAssumption DEF Init, CallsInit, JailerInit, JailInv, CallInv, Ops, JailServesSpec
  <1>2. JailInv /\ [Next]_vars => JailInv'
    <2> SUFFICES ASSUME JailInv, [Next]_vars PROVE JailInv'
      OBVIOUS
    <2> CallInv
      BY Zenon DEF JailInv
    <2>1. ASSUME NEW v \in VmIds, Begin(v) \/ Network(v) \/ Vsock(v) PROVE JailInv'
      <3>1. UNCHANGED jailer /\ (Begin(v) \/ NetworkStep(v) \/ VsockStep(v))
        BY <2>1, Zenon DEF Begin, Network, Vsock
      <3> QED BY <3>1, BeginQuiet, NetworkQuiet, VsockQuiet, QuietKeeps
    <2>2. ASSUME NEW v \in VmIds, Jail(v) PROVE JailInv'
      BY <2>2, JailKeeps, Zenon DEF Jail
    <2>3. CASE Filter
      <3>1. UNCHANGED jailer /\ FirewallStep
        BY <2>3, Zenon DEF Filter
      <3> QED BY <3>1, FilterQuiet, QuietKeeps
    <2>4. ASSUME NEW c \in Callers, CommandFailure(c) PROVE JailInv'
      <3>1. UNCHANGED jailer /\ GiveUp(c)
        BY <2>4, Zenon DEF CommandFailure, CommandFails, Fail
      <3> QED BY <3>1, GiveUpQuiet, QuietKeeps
    <2>5. CASE UNCHANGED vars
      <3>1. UNCHANGED <<op, attached>> /\ UNCHANGED jailer
        BY <2>5, Zenon DEF vars, calls
      <3> QED BY <3>1, StillQuiet, QuietKeeps
    <2> QED BY <2>1, <2>2, <2>3, <2>4, <2>5, Zenon DEF Next
  <1> QED BY <1>1, <1>2, PTL DEF Spec

(* Jailer::prepare is right over whatever it finds: the chroot of a         *)
(* composed VM holds the images of its spec, for any images and any         *)
(* sequence of interrupted prepares and teardowns.                          *)
THEOREM JailServesSpecHolds == Spec => []JailServesSpec
  <1>1. JailInv => JailServesSpec
    BY Zenon DEF JailInv
  <1> QED BY <1>1, JailInvHolds, PTL

-----------------------------------------------------------------------------
(* The calls.  What a call still has to do is a list without repetitions;   *)
(* a compose attaches nothing it has attached before, a release starts from *)
(* nothing attached, and a caller between two calls is at the start.        *)
Elems(s) == {s[i] : i \in 1..Len(s)}

NoRepeat(s) == \A i, j \in 1..Len(s) : s[i] = s[j] => i = j

Items == Primitives \cup VmIds \cup {"list"}

CallShape ==
    /\ composer \subseteq Primitives /\ ids \subseteq VmIds
    /\ op \in [Callers -> Ops] /\ op[Gc] \in {"none", "gc"}
    /\ DOMAIN pc = Callers
    /\ todo \in [Callers -> Seq(Items)]
    /\ attached \in [VmIds -> SUBSET composer]
    /\ released \in [VmIds -> SUBSET composer]
    /\ result \in [VmIds -> {"ok", "err"}]
    /\ \A c \in Callers : op[c] = "none" => pc[c] = "start"
    /\ Elems(todo[Gc]) \subseteq VmIds \cup {"list"}
    /\ \A v \in VmIds :
        /\ op[v] # "gc"
        /\ NoRepeat(todo[v]) /\ Elems(todo[v]) \subseteq Primitives
        /\ op[v] = "compose" => Elems(todo[v]) \subseteq composer \ attached[v]
        /\ op[v] = "release" => attached[v] = {}
        /\ op[v] = "install" => "firewall" \in attached[v]

LEMMA EmptyFacts ==
    ASSUME NEW S
    PROVE  <<>> \in Seq(S) /\ Elems(<<>>) = {} /\ NoRepeat(<<>>)
  BY DEF Elems, NoRepeat

LEMMA TailFacts ==
    ASSUME NEW S, NEW s \in Seq(S), s # <<>>
    PROVE  /\ Tail(s) \in Seq(S) /\ Head(s) \in S
           /\ Elems(s) = {Head(s)} \cup Elems(Tail(s))
           /\ NoRepeat(s) => NoRepeat(Tail(s)) /\ Head(s) \notin Elems(Tail(s))
  <1>1. /\ Len(s) \in Nat /\ Len(s) > 0 /\ Len(Tail(s)) = Len(s) - 1
        /\ Head(s) = s[1] /\ Head(s) \in S /\ Tail(s) \in Seq(S)
        /\ \A i \in 1..Len(s) - 1 : Tail(s)[i] = s[i + 1]
    OBVIOUS
  <1>2. Elems(Tail(s)) = {s[i] : i \in 2..Len(s)}
    <2>1. \A i \in 2..Len(s) : i - 1 \in 1..Len(s) - 1 /\ Tail(s)[i - 1] = s[i]
      BY <1>1
    <2>2. \A i \in 1..Len(s) - 1 : i + 1 \in 2..Len(s) /\ Tail(s)[i] = s[i + 1]
      BY <1>1
    <2> QED BY <1>1, <2>1, <2>2 DEF Elems
  <1>3. Elems(s) = {s[1]} \cup {s[i] : i \in 2..Len(s)}
    BY <1>1 DEF Elems
  <1>4. ASSUME NoRepeat(s) PROVE NoRepeat(Tail(s)) /\ s[1] \notin {s[i] : i \in 2..Len(s)}
    BY <1>1, <1>4 DEF NoRepeat
  <1> QED BY <1>1, <1>2, <1>3, <1>4

LEMMA HeadIsElem ==
    ASSUME NEW S, NEW s \in Seq(S), s # <<>>
    PROVE  Head(s) \in Elems(s)
  BY TailFacts, Zenon

LEMMA SingleFacts ==
    ASSUME NEW S, NEW s \in Seq(S), Len(s) = 1
    PROVE  Elems(s) = {Head(s)}
  BY DEF Elems

If1(x, S) == IF x \in S THEN <<x>> ELSE <<>>

Built(P, s, T) == s \in Seq(P) /\ NoRepeat(s) /\ Elems(s) = T

LEMMA KeptFacts ==
    ASSUME NEW P, NEW s, NEW T, Built(P, s, T), NEW x \in P, x \notin T, NEW S
    PROVE  Built(P, s \o If1(x, S), T \cup ({x} \cap S))
  <1> USE DEF Built
  <1>1. CASE x \in S
    <2> DEFINE t == s \o <<x>>
    <2>1. If1(x, S) = <<x>> /\ Len(s) \in Nat
      BY <1>1 DEF If1
    <2>2. t \in Seq(P) /\ Len(t) = Len(s) + 1
      <3>1. <<x>> \in Seq(P) /\ Len(<<x>>) = 1
        OBVIOUS
      <3> QED BY <3>1, <2>1
    <2>3. t[Len(s) + 1] = x /\ \A i \in 1..Len(s) : t[i] = s[i]
      BY <2>1
    <2> HIDE DEF t
    <2>4. Elems(t) = Elems(s) \cup {x}
      BY <2>1, <2>2, <2>3 DEF Elems
    <2>5. NoRepeat(t)
      BY <2>1, <2>2, <2>3 DEF Elems, NoRepeat
    <2>6. s \o If1(x, S) = t /\ {x} \cap S = {x}
      BY <1>1, <2>1 DEF t
    <2> QED BY <2>2, <2>4, <2>5, <2>6
  <1>2. CASE x \notin S
    <2>1. s \o If1(x, S) = s /\ {x} \cap S = {}
      BY <1>2 DEF If1
    <2> QED BY <1>2, <2>1
  <1> QED BY <1>1, <1>2

(* Only keeps each of the four primitives once.                             *)
LEMMA OnlyFacts ==
    ASSUME NEW order \in {ComposeOrder, ReleaseOrder}, NEW S
    PROVE  Built(Primitives, Only(order, S), S \cap Primitives)
  <1>1. \/ order[1] = "network" /\ order[2] = "vsock" /\ order[3] = "firewall" /\ order[4] = "jailer"
        \/ order[1] = "firewall" /\ order[2] = "vsock" /\ order[3] = "network" /\ order[4] = "jailer"
    BY DEF ComposeOrder, ReleaseOrder
  <1> DEFINE o1 == order[1]
             o2 == order[2]
             o3 == order[3]
             o4 == order[4]
             s1 == <<>> \o If1(o1, S)
             s2 == s1 \o If1(o2, S)
             s3 == s2 \o If1(o3, S)
             s4 == s3 \o If1(o4, S)
             T1 == {} \cup ({o1} \cap S)
             T2 == T1 \cup ({o2} \cap S)
             T3 == T2 \cup ({o3} \cap S)
             T4 == T3 \cup ({o4} \cap S)
  <1>2. /\ {o1, o2, o3, o4} = Primitives
        /\ o1 # o2 /\ o1 # o3 /\ o1 # o4 /\ o2 # o3 /\ o2 # o4 /\ o3 # o4
    BY <1>1 DEF Primitives
  <1>3. Only(order, S) = s4
    <2>1. <<>> \o If1(o1, S) = If1(o1, S)
      BY DEF If1
    <2>2. Only(order, S) = If1(o1, S) \o If1(o2, S) \o If1(o3, S) \o If1(o4, S)
      BY Zenon DEF Only, If1
    <2> QED BY <2>1, <2>2, Zenon
  <1>4. Built(Primitives, <<>>, {})
    BY EmptyFacts, Zenon DEF Built
  <1> HIDE DEF o1, o2, o3, o4
  <1>5. o1 \in Primitives /\ o2 \in Primitives \ T1 /\ o3 \in Primitives \ T2 /\ o4 \in Primitives \ T3
    BY <1>2
  <1>6. T4 = S \cap Primitives
    BY <1>2
  <1>7. Built(Primitives, s1, T1)
    BY <1>4, <1>5, KeptFacts, Zenon
  <1> HIDE DEF s1, T1
  <1>8. Built(Primitives, s2, T2)
    BY <1>5, <1>7, KeptFacts, Zenon
  <1> HIDE DEF s2, T2
  <1>9. Built(Primitives, s3, T3)
    BY <1>5, <1>8, KeptFacts, Zenon
  <1> HIDE DEF s3, T3
  <1>10. Built(Primitives, s4, T4)
    BY <1>5, <1>9, KeptFacts, Zenon
  <1> HIDE DEF s4, T4
  <1> QED BY <1>3, <1>6, <1>10

(* A step within a call: the next command, the next item, or the error.     *)
Moves(c) == op[c] # "none" /\ ((\E l : Goto(c, l)) \/ Done(c) \/ GiveUp(c))

(* gc_orphans goes on to the chains it has listed.                          *)
Relists ==
    /\ \E order \in Orders({v \in VmIds \ known : chain[v] # None}) : todo' = [todo EXCEPT ![Gc] = order]
    /\ op[Gc] = "gc" /\ pc[Gc] = "start"
    /\ UNCHANGED <<config, op, pc, attached, released, result>>

LEMMA VmIsCaller == VmIds \subseteq Callers /\ Gc \in Callers
  BY Zenon DEF Callers

LEMMA NetworkMoves ==
    ASSUME NEW v \in VmIds, NetworkStep(v)
    PROVE  Moves(v)
  BY Zenon DEF Moves, NetworkStep, BridgeShow, BridgeAdd, BridgeUp, NatCheck, NatAdd, ForwardCheck,
               ForwardAppend, CreateTap, DeleteTap, Attaching, At, StepTo, Misread, Fail, Refused

LEMMA VsockMoves ==
    ASSUME NEW v \in VmIds, VsockStep(v)
    PROVE  Moves(v) \/ BindUds(v)
  BY Zenon DEF Moves, VsockStep, AttachVsock, FreeCid, RemoveUds, At, StepTo, Fail, Refused

LEMMA JailMoves ==
    ASSUME NEW v \in VmIds, JailerStep(v)
    PROVE  Moves(v)
  BY Zenon DEF Moves, JailerStep, Prepare, PrepareFails, Teardown, At, Fail

LEMMA InstallMoves ==
    ASSUME NEW v \in VmIds, NewChain(v) \/ FlushChain(v) \/ FillChain(v) \/ JumpCheck(v) \/ InsertJump(v)
    PROVE  Moves(v)
  BY Zenon DEF Moves, NewChain, FlushChain, FillChain, JumpCheck, InsertJump, Installing, At,
               StepTo, Misread, Fail, Refused

LEMMA RemovalMoves ==
    ASSUME NEW c \in Callers, ListJumps(c) \/ DeleteLine(c) \/ FlushRemoved(c) \/ RemoveChain(c)
    PROVE  Moves(c)
  <1>1. op[c] # "none"
    BY Zenon DEF ListJumps, DeleteLine, FlushRemoved, RemoveChain, Removing
  <1> QED BY <1>1, Zenon DEF Moves, ListJumps, DeleteLine, FlushRemoved, RemoveChain, StepTo, Refused

LEMMA ListMoves ==
    ASSUME ListChains
    PROVE  Moves(Gc) \/ Relists
  BY Zenon DEF ListChains, Moves, Relists, At

LEMMA FailureMoves ==
    ASSUME NEW c \in Callers, CommandFails(c)
    PROVE  Moves(c)
  BY Zenon DEF CommandFails, Moves, Fail

(* Every step is within a call, begins one, or leaves the calls alone.      *)
LEMMA CallCases ==
    ASSUME [Next]_vars
    PROVE  \/ UNCHANGED <<config, op, todo, pc, attached, released, result>>
           \/ \E c \in Callers : Moves(c)
           \/ \E v \in VmIds : \/ BeginRelease(v)
                               \/ \E r \in BOOLEAN : BeginCompose(v, r)
                               \/ \E rules \in Allowlists : BeginInstall(v, rules)
           \/ BeginGc \/ Relists
  <1>1. ASSUME NEW v \in VmIds, Network(v) \/ Jail(v) PROVE \E c \in Callers : Moves(c)
    BY <1>1, NetworkMoves, JailMoves, VmIsCaller, Zenon DEF Network, Jail
  <1>2. ASSUME NEW v \in VmIds, Vsock(v) PROVE UNCHANGED calls \/ \E c \in Callers : Moves(c)
    BY <1>2, VsockMoves, VmIsCaller, Zenon DEF Vsock, BindUds
  <1>3. ASSUME NEW c \in Callers, CommandFailure(c) PROVE Moves(c)
    BY <1>3, FailureMoves, Zenon DEF CommandFailure
  <1>4. CASE Filter
    BY <1>4, InstallMoves, RemovalMoves, ListMoves, VmIsCaller, Zenon DEF Filter, FirewallStep
  <1>5. CASE UNCHANGED calls
    BY <1>5, Zenon DEF calls, config
  <1> QED BY <1>1, <1>2, <1>3, <1>4, <1>5, Zenon DEF Next, vars, Begin

LEMMA GotoShape ==
    ASSUME CallShape, NEW c \in Callers, op[c] # "none", NEW l, Goto(c, l)
    PROVE  CallShape'
  <1>1. /\ UNCHANGED <<composer, ids, op, todo, attached, released, result>>
        /\ pc' = [pc EXCEPT ![c] = l]
    BY Zenon DEF Goto, config
  <1>2. DOMAIN pc' = Callers /\ \A d \in Callers : op[d] = "none" => pc'[d] = "start"
    BY <1>1, Zenon DEF CallShape
  <1> QED BY <1>1, <1>2 DEF CallShape, Elems, NoRepeat

(* What the end of an item does to the call.                                *)
Popped(c, rest) ==
    /\ rest = <<>> \/ (Len(todo[c]) > 1 /\ rest = Tail(todo[c]))
    /\ todo' = [todo EXCEPT ![c] = rest]
    /\ op' = op \/ op' = [op EXCEPT ![c] = "none"]
    /\ pc' = [pc EXCEPT ![c] = "start"]
    /\ UNCHANGED <<composer, ids, released>>

LEMMA PoppedShape ==
    ASSUME CallShape, NEW c \in Callers, NEW rest, Popped(c, rest),
           result' \in [VmIds -> {"ok", "err"}],
           attached' \in [VmIds -> SUBSET composer],
           \A v \in VmIds : v # c \/ op[v] # "compose" => attached'[v] = attached[v],
           \A v \in VmIds : v = c /\ op'[v] = "compose" =>
                attached'[v] \subseteq attached[v] \cup {Head(todo[v])}
    PROVE  CallShape'
  <1>1. todo[c] \in Seq(Items)
    BY Zenon DEF CallShape
  <1>2. ASSUME Len(todo[c]) > 1
        PROVE  /\ Tail(todo[c]) \in Seq(Items) /\ Elems(Tail(todo[c])) \subseteq Elems(todo[c])
               /\ NoRepeat(todo[c]) => NoRepeat(Tail(todo[c])) /\ Head(todo[c]) \notin Elems(Tail(todo[c]))
    <2> DEFINE s == todo[c]
    <2>a. s # <<>>
      BY <1>2
    <2>1. /\ Tail(s) \in Seq(Items) /\ Elems(s) = {Head(s)} \cup Elems(Tail(s))
          /\ NoRepeat(s) => NoRepeat(Tail(s)) /\ Head(s) \notin Elems(Tail(s))
      BY <1>1, <2>a, TailFacts
    <2> QED BY <2>1
  <1>3. /\ rest \in Seq(Items) /\ Elems(rest) \subseteq Elems(todo[c])
        /\ NoRepeat(todo[c]) => NoRepeat(rest) /\ Head(todo[c]) \notin Elems(rest)
    <2>1. <<>> \in Seq(Items) /\ Elems(<<>>) = {} /\ NoRepeat(<<>>)
      BY EmptyFacts, Zenon
    <2> QED BY <1>2, <2>1, Zenon DEF Popped
  <1> USE DEF CallShape
  <1>4. /\ todo' = [todo EXCEPT ![c] = rest] /\ pc' = [pc EXCEPT ![c] = "start"]
        /\ op' = op \/ op' = [op EXCEPT ![c] = "none"]
        /\ UNCHANGED <<composer, ids, released>>
    BY Zenon DEF Popped
  <1>5. op' \in [Callers -> Ops] /\ \A d \in Callers : op'[d] \in {op[d], "none"}
    BY <1>4, Zenon DEF Ops
  <1>6. todo' \in [Callers -> Seq(Items)] /\ DOMAIN pc' = Callers
    BY <1>3, <1>4, Zenon
  <1>7. /\ \A d \in Callers : op'[d] = "none" => pc'[d] = "start"
        /\ op'[Gc] \in {"none", "gc"}
    BY <1>4, <1>5, VmIsCaller, Zenon
  <1>8. \A d \in Callers : /\ Elems(todo'[d]) \subseteq Elems(todo[d])
                           /\ NoRepeat(todo[d]) => NoRepeat(todo'[d])
    BY <1>3, <1>4, Zenon
  <1>9. ASSUME NEW v \in VmIds
        PROVE  /\ op'[v] # "gc"
               /\ NoRepeat(todo'[v]) /\ Elems(todo'[v]) \subseteq Primitives
               /\ op'[v] = "compose" => Elems(todo'[v]) \subseteq composer' \ attached'[v]
               /\ op'[v] = "release" => attached'[v] = {}
               /\ op'[v] = "install" => "firewall" \in attached'[v]
    <2>1. v \in Callers
      BY VmIsCaller, Zenon
    <2>2. op'[v] # "gc" /\ NoRepeat(todo'[v]) /\ Elems(todo'[v]) \subseteq Primitives
      BY <2>1, <1>5, <1>8, Zenon
    <2>3. /\ op'[v] = "release" => attached'[v] = {}
          /\ op'[v] = "install" => "firewall" \in attached'[v]
      BY <2>1, <1>5, ZenonT(30)
    <2>4. ASSUME op'[v] = "compose" PROVE Elems(todo'[v]) \subseteq composer' \ attached'[v]
      <3>1. op[v] = "compose"
        BY <2>1, <2>4, <1>5, Zenon
      <3>2. CASE v = c
        <4>1. todo'[v] = rest
          BY <3>2, <1>4, <2>1, Zenon
        <4>2. attached'[v] \subseteq attached[v] \cup {Head(todo[v])}
          BY <3>2, <2>4, Zenon
        <4>3. Head(todo[v]) \notin Elems(rest) /\ Elems(rest) \subseteq composer \ attached[v]
          BY <3>1, <3>2, <1>3, Zenon
        <4> QED BY <4>1, <4>2, <4>3, <1>4
      <3>3. CASE v # c
        <4>1. attached'[v] = attached[v]
          BY <3>3, Zenon
        <4> QED BY <3>1, <4>1, <1>4, <1>8, <2>1, Zenon
      <3> QED BY <3>2, <3>3
    <2> QED BY <2>2, <2>3, <2>4
  <1>10. Elems(todo'[Gc]) \subseteq VmIds \cup {"list"}
    BY <1>8, VmIsCaller, Zenon
  <1> QED BY <1>4, <1>5, <1>6, <1>7, <1>9, <1>10, Zenon

LEMMA DonePops ==
    ASSUME CallShape, NEW c \in Callers, Done(c)
    PROVE  \E rest : Popped(c, rest) /\ (Len(todo[c]) > 1 => rest = Tail(todo[c]) /\ op' = op)
  <1>1. todo[c] \in Seq(Items) /\ (Len(todo[c]) > 1 \/ Len(todo[c]) = 1)
    BY Zenon DEF CallShape, Done
  <1> DEFINE s == todo[c]
  <1>2. Len(s) \in Nat
    <2>1. s \in Seq(Items)
      BY <1>1
    <2> HIDE DEF s
    <2> QED BY <2>1
  <1>3. CASE Len(todo[c]) > 1
    <2>1. Len(todo[c]) # 1
      <3>1. \A n \in Nat : n > 1 => n # 1
        OBVIOUS
      <3> QED BY <1>2, <1>3, <3>1, Zenon
    <2> QED BY <1>3, <2>1, Zenon DEF Done, Popped, config
  <1>4. CASE Len(todo[c]) = 1
    <2>1. ~(Len(todo[c]) > 1)
      BY <1>2, <1>4
    <2> QED BY <1>4, <2>1, Zenon DEF Done, Popped, config, Return
  <1> QED BY <1>1, <1>3, <1>4

LEMMA DoneShape ==
    ASSUME CallShape, NEW c \in Callers, Done(c)
    PROVE  CallShape'
  <1>1. PICK rest : Popped(c, rest)
    BY DonePops, Zenon
  <1>2. /\ result' = result \/ result' = IF c = Gc THEN result
                ELSE [result EXCEPT ![c] = IF op[c] = "release" THEN result[c] ELSE "ok"]
        /\ attached' = IF op[c] = "compose" THEN [attached EXCEPT ![c] = @ \cup {Head(todo[c])}] ELSE attached
    BY Zenon DEF Done, Return
  <1>3. result' \in [VmIds -> {"ok", "err"}]
    BY <1>2 DEF CallShape, Callers
  <1>4. CASE op[c] = "compose"
    <2>1. c \in VmIds
      BY <1>4, Zenon DEF CallShape, Callers
    <2>2. Head(todo[c]) \in Elems(todo[c])
      <3>1. todo[c] \in Seq(Items) /\ (Len(todo[c]) > 1 \/ Len(todo[c]) = 1)
        BY Zenon DEF Done, CallShape
      <3>2. todo[c] # <<>>
        BY <3>1
      <3> QED BY <3>1, <3>2, TailFacts, Zenon
    <2>3. Head(todo[c]) \in composer
      BY <1>4, <2>1, <2>2, Zenon DEF CallShape
    <2>4. attached' = [attached EXCEPT ![c] = @ \cup {Head(todo[c])}]
      BY <1>2, <1>4, Zenon
    <2>5. /\ attached' \in [VmIds -> SUBSET composer]
          /\ \A v \in VmIds : v # c => attached'[v] = attached[v]
          /\ attached'[c] = attached[c] \cup {Head(todo[c])}
      BY <2>1, <2>3, <2>4 DEF CallShape
    <2> QED BY <1>1, <1>3, <1>4, <2>5, PoppedShape, Zenon
  <1>5. CASE op[c] # "compose"
    <2>1. attached' = attached /\ attached \in [VmIds -> SUBSET composer]
      BY <1>2, <1>5, Zenon DEF CallShape
    <2> QED BY <1>1, <1>3, <1>5, <2>1, PoppedShape, Zenon
  <1> QED BY <1>4, <1>5

LEMMA GiveUpShape ==
    ASSUME CallShape, NEW c \in Callers, GiveUp(c)
    PROVE  CallShape'
  <1>1. \E rest : Popped(c, rest)
    BY Zenon DEF GiveUp, Return, Popped, config
  <1>2. PICK rest : Popped(c, rest)
    BY <1>1
  <1>3. result' = [result EXCEPT ![c] = "err"] \/ result' = IF c = Gc THEN result ELSE [result EXCEPT ![c] = "err"]
    BY Zenon DEF GiveUp, Return
  <1>4. result' \in [VmIds -> {"ok", "err"}]
    BY <1>3 DEF CallShape, Callers
  <1>5. attached' = IF op[c] = "compose" THEN [attached EXCEPT ![c] = {}] ELSE attached
    BY Zenon DEF GiveUp
  <1>6. /\ attached' \in [VmIds -> SUBSET composer]
        /\ \A v \in VmIds : v # c \/ op[v] # "compose" => attached'[v] = attached[v]
        /\ \A v \in VmIds : attached'[v] \subseteq attached[v]
    BY <1>5, Zenon DEF CallShape
  <1> QED BY <1>2, <1>4, <1>6, PoppedShape, Zenon

LEMMA BeginShape ==
    ASSUME CallShape, NEW v \in VmIds,
           \/ BeginRelease(v)
           \/ \E r \in BOOLEAN : BeginCompose(v, r)
           \/ \E rules \in Allowlists : BeginInstall(v, rules)
    PROVE  CallShape'
  <1> USE DEF CallShape
  <1>a. v \in Callers /\ v # Gc
    BY CallAssumption, VmIsCaller, Zenon
  <1>1. ASSUME NEW o \in {"compose", "release", "install"}, NEW s, NEW T \in SUBSET composer,
               op' = [op EXCEPT ![v] = o], op[v] = "none",
               Built(Primitives, s, T),
               todo' = [todo EXCEPT ![v] = s],
               attached' \in [VmIds -> SUBSET composer],
               released' \in [VmIds -> SUBSET composer],
               result' \in [VmIds -> {"ok", "err"}],
               UNCHANGED <<composer, ids, pc>>,
               \A w \in VmIds \ {v} : attached'[w] = attached[w],
               o = "compose" => T \cap attached'[v] = {},
               o = "release" => attached'[v] = {},
               o = "install" => "firewall" \in attached'[v]
        PROVE  CallShape'
    <2>1. s \in Seq(Items)
      BY <1>1 DEF Built, Items
    <2>2. op' \in [Callers -> Ops] /\ todo' \in [Callers -> Seq(Items)]
      BY <1>1, <1>a, <2>1 DEF Ops
    <2>3. op'[v] = o /\ todo'[v] = s /\ \A c \in Callers \ {v} : op'[c] = op[c] /\ todo'[c] = todo[c]
      BY <1>1, <1>a, Zenon
    <2>4. op'[Gc] \in {"none", "gc"} /\ Elems(todo'[Gc]) \subseteq VmIds \cup {"list"}
      BY <2>3, <1>a, VmIsCaller, Zenon
    <2>5. DOMAIN pc' = Callers /\ \A c \in Callers : op'[c] = "none" => pc'[c] = "start"
      BY <1>1, <2>3, SMTT(20)
    <2>6. ASSUME NEW w \in VmIds
          PROVE  /\ op'[w] # "gc"
                 /\ NoRepeat(todo'[w]) /\ Elems(todo'[w]) \subseteq Primitives
                 /\ op'[w] = "compose" => Elems(todo'[w]) \subseteq composer' \ attached'[w]
                 /\ op'[w] = "release" => attached'[w] = {}
                 /\ op'[w] = "install" => "firewall" \in attached'[w]
      <3>1. CASE w = v
        <4>1. NoRepeat(s) /\ Elems(s) = T /\ T \subseteq Primitives
          BY <1>1, Zenon DEF Built
        <4> QED BY <1>1, <2>3, <3>1, <4>1
      <3>2. CASE w # v
        <4>1. /\ op'[w] = op[w] /\ todo'[w] = todo[w] /\ attached'[w] = attached[w]
              /\ composer' = composer
          BY <1>1, <2>3, <3>2, VmIsCaller, Zenon
        <4> QED BY <4>1, Zenon
      <3> QED BY <3>1, <3>2
    <2> QED BY <1>1, <2>2, <2>4, <2>5, <2>6, Zenon
  <1>2. CASE BeginRelease(v)
    <2> DEFINE s == Only(ReleaseOrder, attached[v])
               T == attached[v]
    <2>1. /\ op[v] = "none" /\ op' = [op EXCEPT ![v] = "release"] /\ todo' = [todo EXCEPT ![v] = s]
          /\ attached' = [attached EXCEPT ![v] = {}] /\ released' = [released EXCEPT ![v] = T]
          /\ result' = [result EXCEPT ![v] = "ok"]
          /\ UNCHANGED <<composer, ids, pc>>
      BY <1>2, Zenon DEF BeginRelease, Composed, config
    <2>2. T \in SUBSET composer /\ T \cap Primitives = T
      BY Zenon
    <2>3. Built(Primitives, s, T)
      BY <2>2, OnlyFacts
    <2>4. /\ attached' \in [VmIds -> SUBSET composer] /\ released' \in [VmIds -> SUBSET composer]
          /\ result' \in [VmIds -> {"ok", "err"}]
          /\ attached'[v] = {} /\ \A w \in VmIds \ {v} : attached'[w] = attached[w]
      BY <2>1, <2>2
    <2> HIDE DEF s, T
    <2> QED BY <2>1, <2>2, <2>3, <2>4, <1>1, Zenon
  <1>3. ASSUME NEW r \in BOOLEAN, BeginCompose(v, r) PROVE CallShape'
    <2> DEFINE T == Wanted(r)
               s == Only(ComposeOrder, T)
    <2>1. /\ op[v] = "none" /\ op' = [op EXCEPT ![v] = "compose"] /\ todo' = [todo EXCEPT ![v] = s]
          /\ attached' = attached /\ released' = [released EXCEPT ![v] = {}]
          /\ result' = [result EXCEPT ![v] = "err"] /\ attached[v] = {}
          /\ UNCHANGED <<composer, ids, pc>>
      BY <1>3, Zenon DEF BeginCompose, config
    <2>2. T \in SUBSET composer /\ T \cap Primitives = T
      BY DEF Wanted
    <2>3. Built(Primitives, s, T)
      BY <2>2, OnlyFacts
    <2>4. /\ attached' \in [VmIds -> SUBSET composer] /\ released' \in [VmIds -> SUBSET composer]
          /\ result' \in [VmIds -> {"ok", "err"}]
          /\ T \cap attached'[v] = {} /\ \A w \in VmIds \ {v} : attached'[w] = attached[w]
      BY <2>1, <2>2
    <2> HIDE DEF s, T
    <2> QED BY <2>1, <2>2, <2>3, <2>4, <1>1, Zenon
  <1>4. ASSUME NEW rules \in Allowlists, BeginInstall(v, rules) PROVE CallShape'
    <2> DEFINE s == <<"firewall">>
               T == {"firewall"}
    <2>1. /\ op[v] = "none" /\ op' = [op EXCEPT ![v] = "install"] /\ todo' = [todo EXCEPT ![v] = s]
          /\ UNCHANGED <<attached, released>> /\ "firewall" \in attached[v]
          /\ result' = [result EXCEPT ![v] = "err"]
          /\ UNCHANGED <<composer, ids, pc>>
      BY <1>4, Zenon DEF BeginInstall, Composed, config
    <2>2. T \in SUBSET composer
      BY <2>1
    <2>3. Built(Primitives, s, T)
      BY DEF Built, Elems, NoRepeat, Primitives
    <2>4. /\ attached' \in [VmIds -> SUBSET composer] /\ released' \in [VmIds -> SUBSET composer]
          /\ result' \in [VmIds -> {"ok", "err"}]
          /\ "firewall" \in attached'[v] /\ \A w \in VmIds \ {v} : attached'[w] = attached[w]
      BY <2>1, <2>2, SMTT(20)
    <2> HIDE DEF s, T
    <2> QED BY <2>1, <2>2, <2>3, <2>4, <1>1, Zenon
  <1> QED BY <1>2, <1>3, <1>4

LEMMA GcShape ==
    ASSUME CallShape, BeginGc \/ Relists
    PROVE  CallShape'
  <1> USE DEF CallShape
  <1>1. ASSUME NEW s \in Seq(VmIds \cup {"list"}), todo' = [todo EXCEPT ![Gc] = s],
               op' = [op EXCEPT ![Gc] = "gc"],
               UNCHANGED <<composer, ids, pc, attached, released, result>>
        PROVE  CallShape'
    <2>1. s \in Seq(Items) /\ Elems(s) \subseteq VmIds \cup {"list"}
      BY DEF Items, Elems
    <2>2. op' \in [Callers -> Ops] /\ todo' \in [Callers -> Seq(Items)]
      BY <1>1, <2>1, VmIsCaller DEF Ops
    <2>3. op'[Gc] = "gc" /\ todo'[Gc] = s /\ \A c \in Callers \ {Gc} : op'[c] = op[c] /\ todo'[c] = todo[c]
      BY <1>1, VmIsCaller, Zenon
    <2>4. \A v \in VmIds : op'[v] = op[v] /\ todo'[v] = todo[v]
      BY <2>3, CallAssumption, VmIsCaller, Zenon
    <2>5. DOMAIN pc' = Callers /\ \A c \in Callers : op'[c] = "none" => pc'[c] = "start"
      BY <1>1, <2>3
    <2>6. ASSUME NEW w \in VmIds
          PROVE  /\ op'[w] # "gc"
                 /\ NoRepeat(todo'[w]) /\ Elems(todo'[w]) \subseteq Primitives
                 /\ op'[w] = "compose" => Elems(todo'[w]) \subseteq composer' \ attached'[w]
                 /\ op'[w] = "release" => attached'[w] = {}
                 /\ op'[w] = "install" => "firewall" \in attached'[w]
      BY <1>1, <2>4, Zenon
    <2> QED BY <1>1, <2>1, <2>2, <2>3, <2>5, <2>6, ZenonT(30)
  <1>2. CASE BeginGc
    <2>1. /\ todo' = [todo EXCEPT ![Gc] = <<"list">>] /\ op' = [op EXCEPT ![Gc] = "gc"]
          /\ UNCHANGED <<composer, ids, pc, attached, released, result>>
      BY <1>2, Zenon DEF BeginGc, config
    <2>2. <<"list">> \in Seq(VmIds \cup {"list"})
      OBVIOUS
    <2> QED BY <1>1, <2>1, <2>2, Zenon
  <1>3. CASE Relists
    <2> DEFINE S == {v \in VmIds \ known : chain[v] # None}
    <2>1. PICK order \in Orders(S) : todo' = [todo EXCEPT ![Gc] = order]
      BY <1>3, Zenon DEF Relists
    <2>2. op[Gc] = "gc" /\ UNCHANGED <<op, composer, ids, pc, attached, released, result>>
      BY <1>3, Zenon DEF Relists, config
    <2>3. order \in [1..Cardinality(S) -> S]
      BY Zenon DEF Orders
    <2>4. order \in Seq(VmIds \cup {"list"})
      <3>1. Cardinality(S) \in Nat
        <4>1. IsFiniteSet(S)
          BY FirewallAssumption, FS_Subset
        <4> QED BY <4>1, FS_CardinalityType
      <3>2. \A x \in S : x \in VmIds \cup {"list"}
        OBVIOUS
      <3> HIDE DEF S
      <3> DEFINE n == Cardinality(S)
      <3> HIDE DEF n
      <3>3. order \in [1..n -> VmIds \cup {"list"}] /\ n \in Nat
        BY <2>3, <3>1, <3>2 DEF n
      <3> QED BY <3>3
    <2>5. op' = [op EXCEPT ![Gc] = "gc"]
      BY <2>2, VmIsCaller
    <2> QED BY <1>1, <2>1, <2>2, <2>4, <2>5, Zenon
  <1> QED BY <1>2, <1>3

LEMMA MovesShape ==
    ASSUME CallShape, NEW c \in Callers, Moves(c)
    PROVE  CallShape'
  BY GotoShape, DoneShape, GiveUpShape, Zenon DEF Moves

LEMMA CallShapeHolds == Spec => []CallShape
  <1>1. Init => CallShape
    <2> SUFFICES ASSUME Init PROVE CallShape
      OBVIOUS
    <2> USE DEF Init, CallsInit
    <2>1. composer \subseteq Primitives /\ ids \subseteq VmIds
      BY CallAssumption
    <2>2. /\ op \in [Callers -> Ops] /\ todo \in [Callers -> Seq(Items)] /\ DOMAIN pc = Callers
          /\ attached \in [VmIds -> SUBSET composer] /\ released \in [VmIds -> SUBSET composer]
          /\ result \in [VmIds -> {"ok", "err"}]
      BY DEF Ops
    <2>3. \A c \in Callers : op[c] = "none" /\ pc[c] = "start" /\ todo[c] = <<>>
      OBVIOUS
    <2>4. \A v \in VmIds : /\ NoRepeat(todo[v]) /\ Elems(todo[v]) \subseteq Primitives
      BY <2>3, VmIsCaller, EmptyFacts, Zenon
    <2>5. Elems(todo[Gc]) \subseteq VmIds \cup {"list"}
      BY <2>3, VmIsCaller, EmptyFacts, Zenon
    <2> QED BY <2>1, <2>2, <2>3, <2>4, <2>5, VmIsCaller, Zenon DEF CallShape
  <1>2. CallShape /\ [Next]_vars => CallShape'
    <2> SUFFICES ASSUME CallShape, [Next]_vars PROVE CallShape'
      OBVIOUS
    <2>1. CASE UNCHANGED <<config, op, todo, pc, attached, released, result>>
      BY <2>1 DEF CallShape, config, Elems, NoRepeat
    <2>2. CASE \E c \in Callers : Moves(c)
      BY <2>2, MovesShape, Zenon
    <2> QED BY <2>1, <2>2, BeginShape, GcShape, CallCases, ZenonT(30)
  <1> QED BY <1>1, <1>2, PTL DEF Spec

-----------------------------------------------------------------------------
(* The firewall's tables.  On FORWARD the jumps come before the ACCEPT      *)
(* rules, and no rule jumps to a chain that does not exist.                 *)
JumpsFirst(s) ==
    \A i, j \in 1..Len(s) : i < j /\ s[i] \in Accepts => s[j] \in Accepts

TableInv ==
    /\ forward \in Seq(Accepts \cup VmIds) /\ JumpsFirst(forward)
    /\ chain \in [VmIds -> Seq(ChainRules) \cup {None}]
    /\ allowlist \in [VmIds -> Seq(EgressRules)]
    /\ indices \in [Callers -> SUBSET Nat]
    /\ \A c \in Callers : \E b \in Nat : indices[c] \subseteq 1..b
    /\ \A v \in VmIds : chain[v] = None => ~OnForward(Jump(v))

LEMMA OnForwardIs ==
    ASSUME NEW r
    PROVE  /\ OnForward(r) <=> r \in Elems(forward)
           /\ OnForward(r)' <=> r \in Elems(forward')
  BY Zenon DEF OnForward, Elems

LEMMA VmIsNoAccept == VmIds \cap Accepts = {} /\ "list" \notin VmIds
  BY FirewallAssumption, ZenonT(30)

(* What the three iptables commands on FORWARD make of it.                  *)
LEMMA AppendLine ==
    ASSUME NEW s \in Seq(Accepts \cup VmIds), JumpsFirst(s), NEW r \in Accepts
    PROVE  LET t == Append(s, r) IN
           /\ t \in Seq(Accepts \cup VmIds) /\ JumpsFirst(t) /\ Elems(t) = Elems(s) \cup {r}
           /\ Len(s) \in Nat /\ Len(t) = Len(s) + 1 /\ \A i \in 1..Len(s) : t[i] = s[i]
  <1> DEFINE t == Append(s, r)
  <1>1. t \in Seq(Accepts \cup VmIds) /\ Len(s) \in Nat
    BY SMTT(20)
  <1>2. Len(t) = Len(s) + 1 /\ t[Len(s) + 1] = r /\ \A i \in 1..Len(s) : t[i] = s[i]
    BY SMTT(20)
  <1> HIDE DEF t
  <1>3. JumpsFirst(t)
    <2> SUFFICES ASSUME NEW i \in 1..Len(t), NEW j \in 1..Len(t), i < j, t[i] \in Accepts
                 PROVE  t[j] \in Accepts
      BY Zenon DEF JumpsFirst
    <2>1. CASE j = Len(s) + 1
      BY <1>2, <2>1, Zenon
    <2>2. CASE j # Len(s) + 1
      <3>1. i \in 1..Len(s) /\ j \in 1..Len(s)
        BY <1>1, <1>2, <2>2
      <3> QED BY <1>2, <3>1, Zenon DEF JumpsFirst
    <2> QED BY <2>1, <2>2
  <1>4. Elems(t) = Elems(s) \cup {r}
    BY <1>1, <1>2 DEF Elems
  <1> QED BY <1>1, <1>2, <1>3, <1>4 DEF t

Joins(S, a, b, t) ==
    /\ t \in Seq(S) /\ Len(t) = Len(a) + Len(b)
    /\ \A i \in 1..Len(a) : t[i] = a[i]
    /\ \A i \in 1..Len(b) : t[Len(a) + i] = b[i]

LEMMA Concatenation ==
    ASSUME NEW S, NEW a \in Seq(S), NEW b \in Seq(S)
    PROVE  Joins(S, a, b, a \o b)
  BY DEF Joins

LEMMA InsertLine ==
    ASSUME NEW s \in Seq(Accepts \cup VmIds), JumpsFirst(s), NEW v \in VmIds
    PROVE  LET t == <<Jump(v)>> \o s IN
           t \in Seq(Accepts \cup VmIds) /\ JumpsFirst(t) /\ Elems(t) = {v} \cup Elems(s)
  <1> DEFINE t == <<v>> \o s
  <1>1. t \in Seq(Accepts \cup VmIds) /\ Len(s) \in Nat
    OBVIOUS
  <1>2. Len(t) = Len(s) + 1 /\ t[1] = v /\ \A i \in 1..Len(s) : t[i + 1] = s[i]
    OBVIOUS
  <1>3. \A i \in 2..Len(s) + 1 : i - 1 \in 1..Len(s) /\ t[i] = s[i - 1]
    BY <1>1, <1>2
  <1> HIDE DEF t
  <1>4. v \notin Accepts
    BY VmIsNoAccept, Zenon
  <1>5. JumpsFirst(t)
    <2> SUFFICES ASSUME NEW i \in 1..Len(t), NEW j \in 1..Len(t), i < j, t[i] \in Accepts
                 PROVE  t[j] \in Accepts
      BY DEF JumpsFirst
    <2>1. i # 1
      BY <1>2, <1>4
    <2>2. i \in 2..Len(s) + 1 /\ j \in 2..Len(s) + 1
      BY <1>1, <1>2, <2>1
    <2>3. i - 1 \in 1..Len(s) /\ j - 1 \in 1..Len(s) /\ i - 1 < j - 1 /\ t[i] = s[i - 1] /\ t[j] = s[j - 1]
      BY <1>1, <1>3, <2>2
    <2> DEFINE k == i - 1
               m == j - 1
    <2>4. k \in 1..Len(s) /\ m \in 1..Len(s) /\ k < m /\ t[i] = s[k] /\ t[j] = s[m]
      BY <2>3
    <2> HIDE DEF k, m
    <2> QED BY <2>4 DEF JumpsFirst
  <1>6. Elems(t) = {v} \cup Elems(s)
    <2>1. \A i \in 1..Len(s) : i + 1 \in 1..Len(t)
      BY <1>1, <1>2
    <2>2. ASSUME NEW i \in 1..Len(t) PROVE t[i] \in {v} \cup Elems(s)
      <3>1. CASE i = 1
        BY <3>1, <1>2
      <3>2. CASE i # 1
        <4>1. i \in 2..Len(s) + 1
          BY <1>1, <1>2, <3>2
        <4>2. i - 1 \in 1..Len(s) /\ t[i] = s[i - 1]
          BY <1>3, <4>1
        <4> QED BY <4>2 DEF Elems
      <3> QED BY <3>1, <3>2
    <2>3. 1 \in 1..Len(t)
      BY <1>1, <1>2
    <2>4. \A i \in 1..Len(s) : s[i] \in Elems(t)
      BY <1>2, <2>1 DEF Elems
    <2>5. v \in Elems(t)
      BY <1>2, <2>3 DEF Elems
    <2> QED BY <2>2, <2>4, <2>5, SMTT(20) DEF Elems
  <1> QED BY <1>1, <1>5, <1>6 DEF t, Jump

LEMMA RemovedLine ==
    ASSUME TableInv, NEW n \in 1..Len(forward)
    PROVE  LET t == RemoveLine(n) IN
           /\ t \in Seq(Accepts \cup VmIds) /\ JumpsFirst(t)
           /\ Elems(t) \subseteq Elems(forward) /\ Elems(forward) \subseteq Elems(t) \cup {forward[n]}
           /\ Len(forward) \in Nat /\ Len(t) = Len(forward) - 1
           /\ \A i \in 1..n - 1 : t[i] = forward[i]
  <1> DEFINE s == forward
             t == SubSeq(s, 1, n - 1) \o SubSeq(s, n + 1, Len(s))
  <1>1. s \in Seq(Accepts \cup VmIds) /\ JumpsFirst(s)
    BY Zenon DEF TableInv
  <1>2. RemoveLine(n) = t /\ n \in 1..Len(s)
    BY Zenon DEF RemoveLine
  <1> HIDE DEF s
  <1>3. Len(s) \in Nat
    BY <1>1
  <1> DEFINE a == SubSeq(s, 1, n - 1)
             z == SubSeq(s, n + 1, Len(s))
  <1>4. a \in Seq(Accepts \cup VmIds) /\ Len(a) = n - 1 /\ \A i \in 1..n - 1 : a[i] = s[i]
    BY <1>1, <1>2, <1>3
  <1>5. z \in Seq(Accepts \cup VmIds) /\ Len(z) = Len(s) - n /\ \A i \in 1..Len(s) - n : z[i] = s[n + i]
    BY <1>1, <1>2, <1>3
  <1>b. t = a \o z
    OBVIOUS
  <1> HIDE DEF a, z, t
  <1>c. /\ a \o z \in Seq(Accepts \cup VmIds) /\ Len(a \o z) = Len(a) + Len(z)
        /\ \A i \in 1..Len(a) : (a \o z)[i] = a[i]
        /\ \A i \in 1..Len(z) : (a \o z)[Len(a) + i] = z[i]
    <2>1. a \in Seq(Accepts \cup VmIds) /\ z \in Seq(Accepts \cup VmIds)
      BY <1>4, <1>5, Zenon
    <2>2. Joins(Accepts \cup VmIds, a, z, a \o z)
      BY <2>1, Concatenation, Zenon
    <2> QED BY <2>2, Zenon DEF Joins
  <1>6. t \in Seq(Accepts \cup VmIds) /\ Len(t) = Len(s) - 1
    BY <1>2, <1>3, <1>4, <1>5, <1>b, <1>c, SMTT(20)
  <1>7. \A i \in 1..n - 1 : t[i] = s[i]
    BY <1>4, <1>b, <1>c
  <1>8. \A i \in n..Len(s) - 1 : t[i] = s[i + 1]
    <2> SUFFICES ASSUME NEW i \in n..Len(s) - 1 PROVE t[i] = s[i + 1]
      OBVIOUS
    <2> DEFINE k == i - (n - 1)
    <2>1. k \in 1..Len(z) /\ k \in 1..Len(s) - n /\ Len(a) + k = i /\ n + k = i + 1
      BY <1>2, <1>3, <1>4, <1>5
    <2> HIDE DEF k
    <2>2. (a \o z)[Len(a) + k] = z[k] /\ z[k] = s[n + k]
      BY <1>5, <1>c, <2>1
    <2> QED BY <1>b, <2>1, <2>2, SMTT(20)
  <1>9. JumpsFirst(t)
    <2> SUFFICES ASSUME NEW i \in 1..Len(t), NEW j \in 1..Len(t), i < j, t[i] \in Accepts
                 PROVE  t[j] \in Accepts
      BY DEF JumpsFirst
    <2> DEFINE At1(k) == IF k < n THEN k ELSE k + 1
    <2>1. \A k \in 1..Len(t) : At1(k) \in 1..Len(s) /\ t[k] = s[At1(k)]
      BY <1>2, <1>3, <1>6, <1>7, <1>8
    <2>2. At1(i) < At1(j)
      BY <1>2, <1>3, <1>6
    <2> HIDE DEF At1
    <2> QED BY <1>1, <2>1, <2>2 DEF JumpsFirst
  <1>10. Elems(t) \subseteq Elems(s)
    BY <1>2, <1>3, <1>6, <1>7, <1>8 DEF Elems
  <1>11. Elems(s) \subseteq Elems(t) \cup {s[n]}
    <2> SUFFICES ASSUME NEW i \in 1..Len(s), i # n PROVE s[i] \in Elems(t)
      BY DEF Elems
    <2>1. CASE i < n
      BY <1>2, <1>3, <1>6, <1>7, <2>1 DEF Elems
    <2>2. CASE i > n
      <3>1. i - 1 \in n..Len(s) - 1 /\ i - 1 \in 1..Len(t)
        BY <1>2, <1>3, <1>6, <2>2
      <3>2. t[i - 1] = s[i]
        BY <1>8, <3>1
      <3> QED BY <3>1, <3>2 DEF Elems
    <2> QED BY <1>2, <1>3, <2>1, <2>2
  <1> QED BY <1>2, <1>3, <1>6, <1>7, <1>9, <1>10, <1>11 DEF s

(* The highest of finitely many line numbers.                               *)
LEMMA Highest ==
    ASSUME NEW S, S # {}, NEW b \in Nat, S \subseteq 1..b
    PROVE  Max(S) \in S /\ \A m \in S : m <= Max(S)
  <1> DEFINE U == {u \in Nat : \A m \in S : m <= u}
  <1>1. b \in U /\ U \in SUBSET Nat
    OBVIOUS
  <1>2. PICK u \in U : \A w \in U : ~(w < u)
    BY <1>1, LeastNatural, Zenon
  <1>3. u \in S
    <2> SUFFICES ASSUME u \notin S PROVE FALSE
      OBVIOUS
    <2>1. PICK m \in S : TRUE
      BY Zenon
    <2>2. u \in Nat /\ m \in Nat /\ m >= 1 /\ m <= u
      BY <1>2
    <2>3. \A k \in S : k \in Nat /\ k <= u /\ k # u
      BY <1>2
    <2>4. u - 1 \in Nat /\ \A k \in S : k <= u - 1
      BY <2>2, <2>3
    <2>5. u - 1 \in U /\ u - 1 < u
      BY <2>2, <2>4
    <2> QED BY <1>2, <2>5
  <1>4. \E x \in S : \A m \in S : m <= x
    BY <1>2, <1>3
  <1>5. \A x, m \in S : m <= x <=> x >= m
    OBVIOUS
  <1>6. Max(S) = CHOOSE x \in S : \A m \in S : x >= m
    BY Zenon DEF Max
  <1> QED BY <1>4, <1>5, <1>6, Zenon

(* The VM whose chain a caller is removing.                                 *)
LEMMA TargetIsVm ==
    ASSUME CallShape, NEW c \in Callers, NEW l, Removing(c, l)
    PROVE  Target(c) \in VmIds
  <1>1. CASE c = Gc
    <2>1. op[c] = "gc" /\ Head(todo[c]) # "list" /\ todo[c] # <<>> /\ todo[c] \in Seq(Items)
      BY <1>1, Zenon DEF Removing, CallShape
    <2>2. Head(todo[c]) \in Elems(todo[c])
      BY <2>1, HeadIsElem, Zenon
    <2> QED BY <1>1, <2>1, <2>2, Zenon DEF Target, CallShape
  <1>2. CASE c # Gc
    BY <1>2, Zenon DEF Target, Callers
  <1> QED BY <1>1, <1>2

LEMMA RulesTyped ==
    ASSUME TableInv, NEW v \in VmIds
    PROVE  Rules(v) \in Seq(ChainRules) /\ \A n \in 0..Len(allowlist[v]) : SubSeq(Rules(v), 1, n) \in Seq(ChainRules)
  <1> DEFINE a == allowlist[v]
             f == [i \in 1..Len(a) |-> Accept(a[i])]
  <1>1. a \in Seq(EgressRules)
    BY Zenon DEF TableInv
  <1> HIDE DEF a
  <1>2. \A i \in 1..Len(a) : Accept(a[i]) \in ChainRules
    <2> SUFFICES ASSUME NEW r \in EgressRules PROVE Accept(r) \in ChainRules
      BY <1>1
    <2> QED BY Zenon DEF ChainRules
  <1>3. Len(a) \in Nat
    BY <1>1
  <1>4. f \in Seq(ChainRules) /\ Len(f) = Len(a)
    <2> DEFINE m == Len(a)
    <2>1. f \in [1..m -> ChainRules] /\ m \in Nat
      BY <1>2, <1>3, Zenon
    <2> HIDE DEF f, m
    <2>2. f \in Seq(ChainRules) /\ Len(f) = m
      BY <2>1
    <2> QED BY <2>2 DEF m
  <1>5. Drop \in ChainRules
    BY Zenon DEF ChainRules
  <1>6. Rules(v) = Append(f, Drop)
    BY Zenon DEF Rules, a
  <1> HIDE DEF f
  <1>7. Append(f, Drop) \in Seq(ChainRules) /\ Len(Append(f, Drop)) = Len(a) + 1
    BY <1>4, <1>5
  <1>8. ASSUME NEW n \in 0..Len(a) PROVE SubSeq(Append(f, Drop), 1, n) \in Seq(ChainRules)
    <2> DEFINE g == Append(f, Drop)
    <2>1. g \in Seq(ChainRules) /\ Len(g) = Len(a) + 1
      BY <1>7
    <2> HIDE DEF g
    <2>2. SubSeq(g, 1, n) \in Seq(ChainRules)
      BY <1>3, <2>1
    <2> QED BY <2>2, Zenon DEF g
  <1> QED BY <1>6, <1>7, <1>8 DEF a

LEMMA TablesAlone ==
    ASSUME [Next]_vars
    PROVE  \/ UNCHANGED <<forward, chain, allowlist, indices>>
           \/ \E v \in VmIds : \E r \in Accepts : ForwardAppend(v, r) /\ UNCHANGED <<chain, allowlist, indices>>
           \/ \E v \in VmIds : \/ \E rules \in Allowlists : BeginInstall(v, rules) /\ UNCHANGED forward
                               \/ NewChain(v) \/ FlushChain(v) \/ FillChain(v) \/ InsertJump(v)
           \/ \E c \in Callers : ListJumps(c) \/ DeleteLine(c) \/ FlushRemoved(c) \/ RemoveChain(c)
  <1> DEFINE Still == UNCHANGED <<forward, chain, allowlist, indices>>
  <1>1. ASSUME NEW v \in VmIds, Network(v)
        PROVE  Still \/ \E r \in Accepts : ForwardAppend(v, r) /\ UNCHANGED <<chain, allowlist, indices>>
    BY <1>1, Zenon DEF Network, NetworkStep, BridgeShow, BridgeAdd, BridgeUp, NatCheck, NatAdd,
                       ForwardCheck,
                       CreateTap, DeleteTap, network
  <1>2. ASSUME NEW v \in VmIds, Begin(v) \/ Vsock(v) \/ Jail(v) PROVE Still
    BY <1>2, Zenon DEF Begin, Vsock, Jail, network, firewall
  <1>3. ASSUME NEW c \in Callers, CommandFailure(c) PROVE Still
    BY <1>3, Zenon DEF CommandFailure, network
  <1>4. CASE UNCHANGED vars
    BY <1>4, Zenon DEF vars, network, firewall
  <1>5. ASSUME NEW v \in VmIds, JumpCheck(v) PROVE Still
    BY <1>5, Zenon DEF JumpCheck, firewall
  <1>6. CASE BeginGc \/ ListChains
    BY <1>6, Zenon DEF BeginGc, ListChains
  <1> HIDE DEF Still
  <1> QED BY <1>1, <1>2, <1>3, <1>4, <1>5, <1>6, Zenon DEF Next, Filter, FirewallStep, Still

(* A change of one chain that leaves FORWARD alone.                         *)
LEMMA ChainStep ==
    ASSUME TableInv, NEW v \in VmIds, NEW x \in Seq(ChainRules) \cup {None},
           chain' = [chain EXCEPT ![v] = x],
           x = None => ~OnForward(Jump(v)),
           UNCHANGED <<forward, indices>>, allowlist' \in [VmIds -> Seq(EgressRules)]
    PROVE  TableInv'
  <1>1. chain' \in [VmIds -> Seq(ChainRules) \cup {None}] /\ chain'[v] = x
    BY Zenon DEF TableInv
  <1>2. \A w \in VmIds \ {v} : chain'[w] = chain[w]
    BY Zenon DEF TableInv
  <1>3. \A w \in VmIds : OnForward(Jump(w))' <=> OnForward(Jump(w))
    BY Zenon DEF OnForward, Jump
  <1>4. \A w \in VmIds : chain'[w] = None => ~OnForward(Jump(w))'
    BY <1>1, <1>2, <1>3, Zenon DEF TableInv
  <1> QED BY <1>1, <1>4, Zenon DEF TableInv

(* A change of FORWARD that leaves the chains alone.                        *)
LEMMA ForwardStep ==
    ASSUME TableInv, forward' \in Seq(Accepts \cup VmIds), JumpsFirst(forward'),
           \A v \in VmIds : v \in Elems(forward') => v \in Elems(forward) \/ chain[v] # None,
           UNCHANGED <<chain, allowlist>>,
           indices' = indices \/ \E c \in Callers : indices' = [indices EXCEPT ![c] = @ \ {Max(@)}]
    PROVE  TableInv'
  <1>1. indices' \in [Callers -> SUBSET Nat] /\ \A c \in Callers : indices'[c] \subseteq indices[c]
    BY Zenon DEF TableInv
  <1>2. \A c \in Callers : \E b \in Nat : indices'[c] \subseteq 1..b
    BY <1>1, Zenon DEF TableInv
  <1>3. \A v \in VmIds : chain'[v] = None => ~OnForward(Jump(v))'
    BY OnForwardIs, Zenon DEF TableInv, Jump
  <1> QED BY <1>1, <1>2, <1>3, Zenon DEF TableInv

LEMMA NoneIsNoChain == None \notin Seq(ChainRules) /\ <<>> \in Seq(ChainRules)
  BY FirewallAssumption, EmptyFacts, Zenon

LEMMA TableNext ==
    ASSUME CallShape, TableInv, [Next]_vars
    PROVE  TableInv'
  <1>1. CASE UNCHANGED <<forward, chain, allowlist, indices>>
    <2>1. \A r : OnForward(r)' <=> OnForward(r)
      BY <1>1, Zenon DEF OnForward
    <2> QED BY <1>1, <2>1, Zenon DEF TableInv, Jump
  <1>2. ASSUME NEW v \in VmIds, NEW r \in Accepts, ForwardAppend(v, r),
               UNCHANGED <<chain, allowlist, indices>>
        PROVE  TableInv'
    <2>1. forward' = Append(forward, r) /\ forward \in Seq(Accepts \cup VmIds) /\ JumpsFirst(forward)
      BY <1>2, Zenon DEF ForwardAppend, TableInv
    <2>2. forward' \in Seq(Accepts \cup VmIds) /\ JumpsFirst(forward') /\ Elems(forward') = Elems(forward) \cup {r}
      BY <2>1, AppendLine, Zenon
    <2>3. \A w \in VmIds : w \in Elems(forward') => w \in Elems(forward)
      BY <2>2, VmIsNoAccept, Zenon
    <2> QED BY <1>2, <2>2, <2>3, ForwardStep, Zenon
  <1>3. ASSUME NEW v \in VmIds, NEW rules \in Allowlists, BeginInstall(v, rules), UNCHANGED forward
        PROVE  TableInv'
    <2>1. /\ allowlist' = [allowlist EXCEPT ![v] = rules] /\ UNCHANGED <<chain, indices, forward>>
          /\ allowlist \in [VmIds -> Seq(EgressRules)]
      BY <1>3, Zenon DEF BeginInstall, TableInv
    <2>2. allowlist' \in [VmIds -> Seq(EgressRules)]
      BY <2>1, FirewallAssumption, Zenon
    <2>3. \A r : OnForward(r)' <=> OnForward(r)
      BY <1>3, Zenon DEF OnForward
    <2> QED BY <2>1, <2>2, <2>3, Zenon DEF TableInv, Jump
  <1>4. ASSUME NEW v \in VmIds, NewChain(v) PROVE TableInv'
    <2> DEFINE x == IF chain[v] = None THEN <<>> ELSE chain[v]
    <2>1. /\ chain' = [chain EXCEPT ![v] = x] /\ UNCHANGED <<forward, indices>>
          /\ allowlist' = [allowlist EXCEPT ![v] = IF op[v] = "compose" THEN <<>> ELSE @]
      BY <1>4, Zenon DEF NewChain
    <2>2. x \in Seq(ChainRules) \cup {None} /\ x # None
      <3>1. chain[v] \in Seq(ChainRules) \cup {None}
        BY Zenon DEF TableInv
      <3>2. CASE chain[v] = None
        BY <3>2, NoneIsNoChain, Zenon
      <3>3. CASE chain[v] # None
        BY <3>3, <3>1
      <3> QED BY <3>2, <3>3
    <2>3. allowlist' \in [VmIds -> Seq(EgressRules)]
      <3>1. <<>> \in Seq(EgressRules) /\ allowlist \in [VmIds -> Seq(EgressRules)]
        BY EmptyFacts, Zenon DEF TableInv
      <3> QED BY <2>1, <3>1
    <2> HIDE DEF x
    <2> QED BY <2>1, <2>2, <2>3, ChainStep, Zenon
  <1>5. ASSUME NEW v \in VmIds, FlushChain(v) \/ FillChain(v) PROVE TableInv'
    <2>1. UNCHANGED <<forward, indices, allowlist>> /\ allowlist \in [VmIds -> Seq(EgressRules)]
      BY <1>5, Zenon DEF FlushChain, FillChain, TableInv
    <2>2. \/ UNCHANGED chain
          \/ \E x \in Seq(ChainRules) : chain' = [chain EXCEPT ![v] = x]
      <3>1. CASE FlushChain(v)
        BY <3>1, NoneIsNoChain, Zenon DEF FlushChain
      <3>2. CASE FillChain(v)
        BY <3>2, RulesTyped, Zenon DEF FillChain
      <3> QED BY <1>5, <3>1, <3>2
    <2>3. CASE UNCHANGED chain
      BY <2>1, <2>3, <1>1, Zenon
    <2>4. ASSUME NEW x \in Seq(ChainRules), chain' = [chain EXCEPT ![v] = x] PROVE TableInv'
      <3>1. x # None
        BY NoneIsNoChain, Zenon
      <3> QED BY <2>1, <2>4, <3>1, ChainStep, Zenon
    <2> QED BY <2>2, <2>3, <2>4
  <1>6. ASSUME NEW v \in VmIds, InsertJump(v) PROVE TableInv'
    <2>1. UNCHANGED <<chain, allowlist, indices>>
      BY <1>6, Zenon DEF InsertJump
    <2>2. CASE UNCHANGED forward
      BY <2>1, <2>2, <1>1, Zenon
    <2>3. CASE chain[v] # None /\ forward' = <<Jump(v)>> \o forward
      <3>1. forward \in Seq(Accepts \cup VmIds) /\ JumpsFirst(forward)
        BY Zenon DEF TableInv
      <3>2. /\ forward' \in Seq(Accepts \cup VmIds) /\ JumpsFirst(forward')
            /\ Elems(forward') = {v} \cup Elems(forward)
        BY <2>3, <3>1, InsertLine, Zenon
      <3>3. \A w \in VmIds : w \in Elems(forward') => w \in Elems(forward) \/ chain[w] # None
        BY <2>3, <3>2, Zenon
      <3> QED BY <2>1, <3>2, <3>3, ForwardStep, Zenon
    <2> QED BY <1>6, <2>2, <2>3, Zenon DEF InsertJump
  <1>7. ASSUME NEW c \in Callers, ListJumps(c) PROVE TableInv'
    <2>1. UNCHANGED <<forward, chain, allowlist>> /\ indices' = [indices EXCEPT ![c] = JumpLines(Target(c))]
      BY <1>7, Zenon DEF ListJumps
    <2>2. JumpLines(Target(c)) \subseteq 1..Len(forward) /\ Len(forward) \in Nat
      <3>1. forward \in Seq(Accepts \cup VmIds)
        BY Zenon DEF TableInv
      <3> QED BY <3>1 DEF JumpLines
    <2>3. indices \in [Callers -> SUBSET Nat] /\ \A d \in Callers : \E b \in Nat : indices[d] \subseteq 1..b
      BY Zenon DEF TableInv
    <2>4. indices' \in [Callers -> SUBSET Nat]
      BY <2>1, <2>2, <2>3
    <2>5. \A d \in Callers : \E b \in Nat : indices'[d] \subseteq 1..b
      BY <2>1, <2>2, <2>3, Zenon
    <2>6. \A r : OnForward(r)' <=> OnForward(r)
      BY <2>1, Zenon DEF OnForward
    <2> QED BY <2>1, <2>4, <2>5, <2>6, Zenon DEF TableInv, Jump
  <1>8. ASSUME NEW c \in Callers, DeleteLine(c) PROVE TableInv'
    <2> DEFINE n == Max(indices[c])
    <2>1. /\ UNCHANGED <<chain, allowlist>> /\ indices' = [indices EXCEPT ![c] = @ \ {Max(@)}]
          /\ (n <= Len(forward) /\ forward' = RemoveLine(n)) \/ forward' = forward
          /\ indices[c] # {}
      BY <1>8, Zenon DEF DeleteLine
    <2>2. n \in Nat /\ n > 0
      <3>1. PICK b \in Nat : indices[c] \subseteq 1..b
        BY Zenon DEF TableInv
      <3>2. n \in indices[c]
        BY <2>1, <3>1, Highest, Zenon
      <3> QED BY <3>1, <3>2
    <2>3. forward \in Seq(Accepts \cup VmIds) /\ JumpsFirst(forward)
      BY Zenon DEF TableInv
    <2> HIDE DEF n
    <2>4. CASE forward' = forward
      BY <2>1, <2>3, <2>4, ForwardStep, Zenon
    <2>5. CASE n <= Len(forward) /\ forward' = RemoveLine(n)
      <3>1. n \in 1..Len(forward)
        <4>1. Len(forward) \in Nat
          BY <2>3
        <4> QED BY <2>2, <2>5, <4>1
      <3>2. forward' \in Seq(Accepts \cup VmIds) /\ JumpsFirst(forward') /\ Elems(forward') \subseteq Elems(forward)
        BY <2>5, <3>1, RemovedLine, Zenon
      <3> QED BY <2>1, <3>2, ForwardStep, Zenon
    <2> QED BY <2>1, <2>4, <2>5
  <1>9. ASSUME NEW c \in Callers, FlushRemoved(c) \/ RemoveChain(c) PROVE TableInv'
    <2> DEFINE v == Target(c)
    <2>1. v \in VmIds
      BY <1>9, TargetIsVm, Zenon DEF FlushRemoved, RemoveChain
    <2>2. /\ UNCHANGED <<forward, indices, allowlist>> /\ allowlist \in [VmIds -> Seq(EgressRules)]
          /\ \/ UNCHANGED chain
             \/ chain' = [chain EXCEPT ![v] = <<>>]
             \/ chain' = [chain EXCEPT ![v] = None] /\ (chain[v] = None \/ ~OnForward(Jump(v)))
      BY <1>9, Zenon DEF FlushRemoved, RemoveChain, InUse, TableInv
    <2>3. chain[v] = None => ~OnForward(Jump(v))
      BY <2>1, Zenon DEF TableInv
    <2> HIDE DEF v
    <2>4. CASE UNCHANGED chain
      BY <2>2, <2>4, <1>1, Zenon
    <2>5. CASE chain' = [chain EXCEPT ![v] = <<>>]
      <3>1. <<>> \in Seq(ChainRules) /\ <<>> # None
        BY NoneIsNoChain, Zenon
      <3> QED BY <2>1, <2>2, <2>5, <3>1, ChainStep, Zenon
    <2>6. CASE chain' = [chain EXCEPT ![v] = None] /\ ~OnForward(Jump(v))
      BY <2>1, <2>2, <2>6, ChainStep, Zenon
    <2> QED BY <2>2, <2>3, <2>4, <2>5, <2>6
  <1> QED BY <1>1, <1>2, <1>3, <1>4, <1>5, <1>6, <1>7, <1>8, <1>9, TablesAlone, Zenon

LEMMA TableInvHolds == Spec => []TableInv
  <1>1. Init => TableInv
    <2> SUFFICES ASSUME Init PROVE TableInv
      OBVIOUS
    <2> USE DEF Init, NetworkInit, FirewallInit
    <2>1. /\ chain \in [VmIds -> Seq(ChainRules) \cup {None}] /\ allowlist \in [VmIds -> Seq(EgressRules)]
          /\ indices \in [Callers -> SUBSET Nat]
      OBVIOUS
    <2>2. forward \in Seq(Accepts \cup VmIds) /\ JumpsFirst(forward) /\ \A r : ~OnForward(r)
      BY DEF JumpsFirst, OnForward
    <2>3. \A c \in Callers : \E b \in Nat : indices[c] \subseteq 1..b
      OBVIOUS
    <2> QED BY <2>1, <2>2, <2>3, Zenon DEF TableInv
  <1>2. CallShape /\ TableInv /\ [Next]_vars => TableInv'
    BY TableNext, Zenon
  <1> QED BY <1>1, <1>2, CallShapeHolds, PTL DEF Spec

-----------------------------------------------------------------------------
(* The callers' lists.  The chains gc_orphans has listed are of VMs it was  *)
(* not told of, and a caller whose line numbers nobody shifted has the      *)
(* numbers of jumps to its own target.                                      *)
IndicesOk(c) ==
    Removing(c, "delete") /\ c \notin outdated =>
        \A n \in indices[c] : n \in 1..Len(forward) /\ forward[n] = Jump(Target(c))

ListInv ==
    /\ Elems(todo[Gc]) \subseteq (VmIds \ known) \cup {"list"}
    /\ \A c \in Callers : IndicesOk(c)

(* A step does not touch the calls of b.                                    *)
Same(b) == op'[b] = op[b] /\ todo'[b] = todo[b] /\ pc'[b] = pc[b]

SameVm(v) ==
    Same(v) /\ attached'[v] = attached[v] /\ released'[v] = released[v] /\ result'[v] = result[v]

LEMMA ResultAlone ==
    ASSUME CallShape, NEW c \in Callers, NEW r,
           result' = result \/ result' = [result EXCEPT ![c] = r],
           NEW v \in VmIds, v # c
    PROVE  result'[v] = result[v]
  BY Zenon DEF CallShape

LEMMA MovesAlone ==
    ASSUME CallShape, NEW c \in Callers, Moves(c)
    PROVE  /\ \A b \in Callers : b # c => Same(b)
           /\ \A v \in VmIds : v # c => SameVm(v)
  <1>1. CASE \E l : Goto(c, l)
    BY <1>1, VmIsCaller, Zenon DEF Goto, Same, SameVm, CallShape
  <1>2. CASE Done(c) \/ GiveUp(c)
    <2>1. /\ pc' = [pc EXCEPT ![c] = "start"]
          /\ todo' = [todo EXCEPT ![c] = Tail(@)] \/ todo' = [todo EXCEPT ![c] = <<>>]
          /\ op' = op \/ op' = [op EXCEPT ![c] = "none"]
          /\ released' = released
      BY <1>2, Zenon DEF Done, GiveUp, Return
    <2>2. \A b \in Callers : b # c => Same(b)
      BY <2>1, Zenon DEF Same, CallShape
    <2>3. \E r : result' = result \/ result' = [result EXCEPT ![c] = r]
      BY <1>2, Zenon DEF Done, GiveUp, Return
    <2>4. \/ attached' = attached \/ attached' = [attached EXCEPT ![c] = @ \cup {Head(todo[c])}]
          \/ attached' = [attached EXCEPT ![c] = {}]
      BY <1>2, Zenon DEF Done, GiveUp
    <2>5. \A v \in VmIds : v # c => attached'[v] = attached[v] /\ result'[v] = result[v]
      BY <2>3, <2>4, ResultAlone, ZenonT(30) DEF CallShape
    <2> QED BY <2>1, <2>2, <2>5, VmIsCaller, Zenon DEF SameVm
  <1> QED BY <1>1, <1>2, Zenon DEF Moves

(* A step begins a call for v.                                              *)
Begun(v) ==
    \/ BeginRelease(v)
    \/ \E r \in BOOLEAN : BeginCompose(v, r)
    \/ \E rules \in Allowlists : BeginInstall(v, rules)

LEMMA BeginAlone ==
    ASSUME CallShape, NEW v \in VmIds, Begun(v)
    PROVE  /\ \A b \in Callers : b # v => Same(b)
           /\ \A w \in VmIds : w # v => SameVm(w)
           /\ pc'[v] = "start"
  <1>1. /\ \E o : op' = [op EXCEPT ![v] = o]
        /\ \E s : todo' = [todo EXCEPT ![v] = s]
        /\ \E r : result' = [result EXCEPT ![v] = r]
        /\ attached' = attached \/ attached' = [attached EXCEPT ![v] = {}]
        /\ released' = released \/ \E x : released' = [released EXCEPT ![v] = x]
        /\ pc' = pc /\ op[v] = "none"
    BY Zenon DEF Begun, BeginRelease, BeginCompose, BeginInstall, Composed
  <1>2. \A b \in Callers : b # v => Same(b)
    BY <1>1, Zenon DEF Same, CallShape
  <1>3. \A w \in VmIds : w # v => attached'[w] = attached[w] /\ released'[w] = released[w] /\ result'[w] = result[w]
    BY <1>1, ZenonT(30) DEF CallShape
  <1>4. pc'[v] = "start"
    BY <1>1, VmIsCaller, Zenon DEF CallShape
  <1> QED BY <1>2, <1>3, <1>4, VmIsCaller, Zenon DEF SameVm

LEMMA GcAlone ==
    ASSUME CallShape, BeginGc \/ Relists
    PROVE  /\ \A b \in Callers : b # Gc => Same(b)
           /\ \A w \in VmIds : SameVm(w)
           /\ pc'[Gc] = "start"
  <1>1. /\ \E s : todo' = [todo EXCEPT ![Gc] = s]
        /\ op' = [op EXCEPT ![Gc] = "gc"] \/ op' = op
        /\ UNCHANGED <<pc, attached, released, result>> /\ pc[Gc] = "start"
    BY VmIsCaller, Zenon DEF BeginGc, Relists, CallShape
  <1>2. \A b \in Callers : b # Gc => Same(b)
    BY <1>1, Zenon DEF Same, CallShape
  <1> QED BY <1>1, <1>2, VmIsCaller, CallAssumption, Zenon DEF SameVm

(* No caller comes to hold line numbers that it did not hold before.        *)
Calm == \A b \in Callers : Same(b) \/ ~Removing(b, "delete")'

Removal(c) ==
    \/ op[c] = "gc"
    \/ op[c] = "release" /\ Head(todo[c]) = "firewall"

LEMMA AtStart ==
    ASSUME NEW c \in Callers, pc'[c] = "start"
    PROVE  ~Removing(c, "delete")'
  BY Zenon DEF Removing

LEMMA EndsAtStart ==
    ASSUME CallShape, NEW c \in Callers, Done(c) \/ GiveUp(c)
    PROVE  pc'[c] = "start"
  BY Zenon DEF Done, GiveUp, CallShape

LEMMA CalmMoves ==
    ASSUME CallShape, NEW c \in Callers, Moves(c), ~Removal(c) \/ Done(c) \/ GiveUp(c)
    PROVE  Calm
  <1>1. ~Removing(c, "delete")'
    <2>1. CASE Done(c) \/ GiveUp(c)
      BY <2>1, EndsAtStart, AtStart, Zenon
    <2>2. CASE ~Removal(c) /\ \E l : Goto(c, l)
      <3>1. op' = op /\ todo' = todo
        BY <2>2, Zenon DEF Goto
      <3> QED BY <2>2, <3>1 DEF Removal, Removing
    <2> QED BY <2>1, <2>2, Zenon DEF Moves
  <1> QED BY <1>1, MovesAlone, Zenon DEF Calm

LEMMA CalmBegins ==
    ASSUME CallShape, (\E v \in VmIds : Begun(v)) \/ BeginGc \/ Relists
    PROVE  Calm
  <1>1. ASSUME NEW v \in VmIds, Begun(v) PROVE Calm
    BY <1>1, BeginAlone, AtStart, VmIsCaller, Zenon DEF Calm
  <1>2. CASE BeginGc \/ Relists
    BY <1>2, GcAlone, AtStart, VmIsCaller, Zenon DEF Calm
  <1> QED BY <1>1, <1>2

LEMMA CalmStill ==
    ASSUME UNCHANGED calls
    PROVE  Calm /\ \A v \in VmIds : SameVm(v)
  BY Zenon DEF calls, Calm, Same, SameVm

LinesStay == \A n \in 1..Len(forward) : n \in 1..Len(forward') /\ forward'[n] = forward[n]

(* Every other step leaves the lines of FORWARD and the lists of their      *)
(* numbers in place.                                                        *)
LEMMA ListsAlone ==
    ASSUME CallShape, TableInv, [Next]_vars
    PROVE  \/ Calm /\ LinesStay /\ UNCHANGED <<indices, outdated>>
           \/ \E v \in VmIds : InsertJump(v) /\ chain[v] # None
           \/ \E c \in Callers : ListJumps(c) \/ DeleteLine(c) \/ FlushRemoved(c) \/ RemoveChain(c)
  <1> DEFINE Quietly == Calm /\ LinesStay /\ UNCHANGED <<indices, outdated>>
  <1>a. UNCHANGED forward => LinesStay
    BY Zenon DEF LinesStay
  <1>1. ASSUME NEW v \in VmIds, Network(v) PROVE Quietly
    <2>1. NetworkStep(v) /\ UNCHANGED <<indices, outdated>>
      BY <1>1, Zenon DEF Network
    <2>2. ~Removal(v)
      BY <2>1, Zenon DEF Removal, NetworkStep, BridgeShow, BridgeAdd, BridgeUp, NatCheck, NatAdd,
                         ForwardCheck,
                         ForwardAppend, CreateTap, DeleteTap, Attaching, At
    <2>3. Calm
      BY <2>1, <2>2, NetworkMoves, CalmMoves, VmIsCaller, Zenon
    <2>4. UNCHANGED forward \/ \E r \in Accepts : forward' = Append(forward, r)
      BY <2>1, Zenon DEF NetworkStep, BridgeShow, BridgeAdd, BridgeUp, NatCheck, NatAdd, ForwardCheck,
                         ForwardAppend, CreateTap, DeleteTap, network
    <2>5. LinesStay
      <3>1. ASSUME NEW r \in Accepts, forward' = Append(forward, r) PROVE LinesStay
        <4>1. /\ Len(forward) \in Nat /\ Len(forward') = Len(forward) + 1
              /\ \A i \in 1..Len(forward) : forward'[i] = forward[i]
          BY <3>1, AppendLine, Zenon DEF TableInv
        <4>2. \A i \in 1..Len(forward) : i \in 1..Len(forward')
          BY <4>1
        <4> QED BY <4>1, <4>2, Zenon DEF LinesStay
      <3> QED BY <2>4, <3>1, <1>a
    <2> QED BY <2>1, <2>3, <2>5
  <1>2. ASSUME NEW v \in VmIds, Vsock(v) \/ Jail(v) PROVE Quietly
    <2>1. UNCHANGED <<forward, indices, outdated>>
      BY <1>2, Zenon DEF Vsock, Jail, network, firewall, history
    <2>2. CASE BindUds(v)
      BY <2>1, <2>2, <1>a, CalmStill, Zenon DEF BindUds
    <2>3. CASE ~BindUds(v)
      <3>1. ~Removal(v)
        BY <1>2, <2>3, Zenon DEF Removal, Vsock, VsockStep, AttachVsock, FreeCid, RemoveUds, Jail,
                                 JailerStep,
                                 Prepare, PrepareFails, Teardown, At
      <3>2. Moves(v)
        BY <1>2, <2>3, VsockMoves, JailMoves, Zenon DEF Vsock, Jail
      <3> QED BY <2>1, <3>1, <3>2, <1>a, CalmMoves, VmIsCaller, Zenon
    <2> QED BY <2>2, <2>3
  <1>3. ASSUME NEW v \in VmIds, Begin(v) PROVE Quietly
    <2>1. Begun(v) /\ UNCHANGED <<forward, indices, outdated>>
      BY <1>3, Zenon DEF Begin, Begun, network, firewall, history
    <2> QED BY <2>1, <1>a, CalmBegins, Zenon
  <1>4. ASSUME NEW c \in Callers, CommandFailure(c) PROVE Quietly
    <2>1. GiveUp(c) /\ UNCHANGED <<forward, indices, outdated>> /\ Moves(c)
      BY <1>4, FailureMoves, Zenon DEF CommandFailure, CommandFails, Fail, network, history
    <2> QED BY <2>1, <1>a, CalmMoves, Zenon
  <1>5. CASE UNCHANGED vars
    BY <1>5, <1>a, CalmStill, Zenon DEF vars, network, firewall, history
  <1>6. ASSUME NEW v \in VmIds,
               \/ NewChain(v) \/ FlushChain(v) \/ FillChain(v) \/ JumpCheck(v)
               \/ InsertJump(v) /\ chain[v] = None
        PROVE  Quietly
    <2>1. ~Removal(v) /\ UNCHANGED <<forward, indices, outdated>>
      BY <1>6, Zenon DEF Removal, NewChain, FlushChain, FillChain, JumpCheck, InsertJump, Installing, At,
                         history, firewall
    <2> QED BY <1>6, <2>1, <1>a, InstallMoves, CalmMoves, VmIsCaller, Zenon
  <1>7. ASSUME NEW v \in VmIds, NEW rules \in Allowlists, BeginInstall(v, rules),
               UNCHANGED forward PROVE Quietly
    <2>1. Begun(v) /\ UNCHANGED <<forward, indices, outdated>>
      BY <1>7, Zenon DEF BeginInstall, Begun, history
    <2> QED BY <2>1, <1>a, CalmBegins, Zenon
  <1>8. CASE BeginGc
    BY <1>8, <1>a, CalmBegins, Zenon DEF BeginGc, history
  <1>9. CASE ListChains
    <2>1. UNCHANGED <<forward, indices, outdated>>
      BY <1>9, Zenon DEF ListChains, history
    <2>2. CASE Relists
      BY <2>1, <2>2, <1>a, CalmBegins, Zenon
    <2>3. CASE Done(Gc) /\ Moves(Gc)
      BY <2>1, <2>3, <1>a, CalmMoves, VmIsCaller, Zenon
    <2> QED BY <1>9, <2>2, <2>3, Zenon DEF ListChains, Relists, Moves, At
  <1> HIDE DEF Quietly
  <1> QED BY <1>1, <1>2, <1>3, <1>4, <1>5, <1>6, <1>7, <1>8, <1>9, Zenon DEF Next, Filter, FirewallStep,
                                                                             Quietly

LEMMA OtherIndices ==
    ASSUME NEW b \in Callers, IndicesOk(b), Same(b), indices'[b] = indices[b],
           b \in outdated => b \in outdated',
           LinesStay \/ (indices[b] # {} => b \in outdated')
    PROVE  IndicesOk(b)'
  <1> SUFFICES ASSUME Removing(b, "delete")', b \notin outdated', NEW n \in indices[b]
               PROVE  n \in 1..Len(forward') /\ forward'[n] = Jump(Target(b)')
    BY Zenon DEF IndicesOk, Jump
  <1>1. Removing(b, "delete") /\ Target(b)' = Target(b)
    BY DEF Removing, Target, Same
  <1>2. n \in 1..Len(forward) /\ forward[n] = Jump(Target(b))
    BY <1>1, Zenon DEF IndicesOk
  <1> QED BY <1>1, <1>2, Zenon DEF LinesStay, Jump

LEMMA MovesTodo ==
    ASSUME CallShape, NEW c \in Callers, Moves(c)
    PROVE  \A d \in Callers : Elems(todo'[d]) \subseteq Elems(todo[d])
  <1>1. todo' = todo \/ todo' = [todo EXCEPT ![c] = Tail(@)] \/ todo' = [todo EXCEPT ![c] = <<>>]
    BY Zenon DEF Moves, Goto, Done, GiveUp, Return
  <1>2. CASE todo' = [todo EXCEPT ![c] = Tail(@)] /\ todo[c] # <<>>
    <2>1. todo[c] \in Seq(Items)
      BY Zenon DEF CallShape
    <2>2. Elems(todo[c]) = {Head(todo[c])} \cup Elems(Tail(todo[c]))
      BY <2>1, <1>2, TailFacts, Zenon
    <2> QED BY <1>2, <2>2 DEF CallShape
  <1>3. CASE todo' = [todo EXCEPT ![c] = <<>>]
    BY <1>3, EmptyFacts, Zenon DEF CallShape
  <1>4. todo' = todo \/ todo' = [todo EXCEPT ![c] = <<>>] \/ (todo[c] # <<>> /\ todo' = [todo EXCEPT ![c] = Tail(@)])
    <2>1. CASE Len(todo[c]) > 1
      <3>1. todo[c] # <<>>
        BY <2>1
      <3> QED BY <1>1, <3>1
    <2>2. CASE ~(Len(todo[c]) > 1)
      BY <2>2, Zenon DEF Moves, Goto, Done, GiveUp, Return
    <2> QED BY <2>1, <2>2
  <1> QED BY <1>2, <1>3, <1>4, Zenon

LEMMA ListedUnknown ==
    ASSUME CallShape, [Next]_vars, Elems(todo[Gc]) \subseteq (VmIds \ known) \cup {"list"}
    PROVE  Elems(todo'[Gc]) \subseteq (VmIds \ known') \cup {"list"}
  <1>1. CASE BeginGc
    <2>1. todo'[Gc] = <<"list">>
      BY <1>1, VmIsCaller, Zenon DEF BeginGc, CallShape
    <2> QED BY <2>1 DEF Elems
  <1>2. CASE ~BeginGc
    <2>1. known' \in {known, {}}
      <3>1. ASSUME NEW v \in VmIds, Begin(v) \/ Network(v) \/ Vsock(v) \/ Jail(v) PROVE known' = known
        BY <3>1, Zenon DEF Begin, Network, Vsock, Jail, firewall
      <3>2. ASSUME NEW c \in Callers, CommandFailure(c) PROVE known' \in {known, {}}
        BY <3>2, Zenon DEF CommandFailure, KnownLives
      <3>3. CASE FirewallStep
        BY <1>2, <3>3, Zenon DEF FirewallStep, BeginInstall, NewChain, FlushChain, FillChain, JumpCheck,
                                 InsertJump,
               ListJumps, DeleteLine, FlushRemoved, RemoveChain, ListChains, KnownLives, firewall
      <3>4. CASE UNCHANGED vars
        BY <3>4, Zenon DEF vars, firewall
      <3> QED BY <3>1, <3>2, <3>3, <3>4, Zenon DEF Next, Filter
    <2>2. Elems(todo'[Gc]) \subseteq Elems(todo[Gc]) \/ Elems(todo'[Gc]) \subseteq VmIds \ known
      <3>1. CASE UNCHANGED todo
        BY <3>1
      <3>2. CASE \E c \in Callers : Moves(c)
        BY <3>2, MovesTodo, VmIsCaller, Zenon
      <3>3. ASSUME NEW v \in VmIds, Begun(v) PROVE todo'[Gc] = todo[Gc]
        BY <3>3, BeginAlone, VmIsCaller, CallAssumption, Zenon DEF Same
      <3>4. CASE Relists
        <4> DEFINE S == {v \in VmIds \ known : chain[v] # None}
        <4>1. PICK order \in Orders(S) : todo' = [todo EXCEPT ![Gc] = order]
          BY <3>4, Zenon DEF Relists
        <4>2. order \in [1..Cardinality(S) -> S] /\ todo'[Gc] = order
          BY <4>1, VmIsCaller, Zenon DEF Orders, CallShape
        <4>3. Cardinality(S) \in Nat
          <5>1. IsFiniteSet(S)
            BY FirewallAssumption, FS_Subset
          <5> QED BY <5>1, FS_CardinalityType
        <4>4. \A x \in S : x \in VmIds \ known
          OBVIOUS
        <4> DEFINE m == Cardinality(S)
        <4> HIDE DEF S, m
        <4>5. order \in [1..m -> VmIds \ known] /\ m \in Nat
          BY <4>2, <4>3, <4>4 DEF m
        <4>6. Len(order) = m
          BY <4>5
        <4> QED BY <4>2, <4>5, <4>6, Zenon DEF Elems
      <3> QED BY <1>2, <3>1, <3>2, <3>3, <3>4, CallCases, Zenon DEF Begun
    <2> QED BY <2>1, <2>2
  <1> QED BY <1>1, <1>2, SMTT(20)

LEMMA ListNext ==
    ASSUME CallShape, TableInv, ListInv, [Next]_vars
    PROVE  ListInv'
  <1> SUFFICES ASSUME NEW b \in Callers PROVE IndicesOk(b)'
    BY ListedUnknown, Zenon DEF ListInv
  <1>a. IndicesOk(b)
    BY Zenon DEF ListInv
  <1>1. CASE Calm /\ LinesStay /\ UNCHANGED <<indices, outdated>>
    <2>1. CASE Same(b)
      BY <1>a, <1>1, <2>1, OtherIndices, Zenon
    <2>2. CASE ~Removing(b, "delete")'
      BY <2>2, Zenon DEF IndicesOk
    <2> QED BY <1>1, <2>1, <2>2 DEF Calm
  <1>2. ASSUME NEW v \in VmIds, InsertJump(v), chain[v] # None PROVE IndicesOk(b)'
    <2>1. Done(v) /\ Shifts(v) /\ UNCHANGED indices /\ Moves(v)
      BY <1>2, InstallMoves, Zenon DEF InsertJump
    <2>2. CASE b = v
      <3>1. ~Removing(b, "delete")'
        BY <2>1, <2>2, EndsAtStart, AtStart, Zenon
      <3> QED BY <3>1, Zenon DEF IndicesOk
    <2>3. CASE b # v
      <3>1. Same(b)
        BY <2>1, <2>3, MovesAlone, VmIsCaller, Zenon
      <3>2. (b \in outdated => b \in outdated') /\ (indices[b] # {} => b \in outdated')
        BY <2>1, <2>3, Zenon DEF Shifts
      <3> QED BY <1>a, <2>1, <3>1, <3>2, OtherIndices, Zenon
    <2> QED BY <2>2, <2>3
  <1>3. ASSUME NEW c \in Callers, ListJumps(c) PROVE IndicesOk(b)'
    <2>1. /\ indices' = [indices EXCEPT ![c] = JumpLines(Target(c))] /\ outdated' = outdated \ {c}
          /\ UNCHANGED <<forward, op, todo>>
      BY <1>3, Zenon DEF ListJumps, StepTo, Goto
    <2>2. CASE b = c
      <3>1. indices'[b] = JumpLines(Target(b)) /\ Target(b)' = Target(b) /\ forward' = forward
        BY <2>1, <2>2, Zenon DEF TableInv, Target
      <3> QED BY <3>1, Zenon DEF IndicesOk, JumpLines
    <2>3. CASE b # c
      <3>1. Same(b) /\ indices'[b] = indices[b] /\ (b \in outdated => b \in outdated') /\ LinesStay
        BY <1>3, <2>1, <2>3, RemovalMoves, MovesAlone, Zenon DEF TableInv, LinesStay
      <3> QED BY <1>a, <3>1, OtherIndices, Zenon
    <2> QED BY <2>2, <2>3
  <1>4. ASSUME NEW c \in Callers, FlushRemoved(c) \/ RemoveChain(c) PROVE IndicesOk(b)'
    <2>1. outdated' = outdated \ {c} /\ UNCHANGED <<forward, indices>> /\ Moves(c)
      BY <1>4, RemovalMoves, Zenon DEF FlushRemoved, RemoveChain
    <2>2. CASE b = c
      <3>1. ~Removing(b, "delete")'
        <4>1. pc'[c] \in {"start", "remove"}
          <5>1. CASE Done(c) \/ GiveUp(c)
            BY <5>1, EndsAtStart, Zenon
          <5>2. CASE StepTo(c, "remove")
            BY <5>2, Zenon DEF StepTo, Goto, CallShape
          <5> QED BY <1>4, <5>1, <5>2, Zenon DEF FlushRemoved, RemoveChain, Refused
        <4> QED BY <2>2, <4>1, Zenon DEF Removing
      <3> QED BY <3>1, Zenon DEF IndicesOk
    <2>3. CASE b # c
      <3>1. Same(b) /\ (b \in outdated => b \in outdated') /\ LinesStay
        BY <2>1, <2>3, MovesAlone, Zenon DEF LinesStay
      <3> QED BY <1>a, <2>1, <3>1, OtherIndices, Zenon
    <2> QED BY <2>2, <2>3
  <1>5. ASSUME NEW c \in Callers, DeleteLine(c) PROVE IndicesOk(b)'
    <2> DEFINE n == Max(indices[c])
    <2>1. /\ indices' = [indices EXCEPT ![c] = @ \ {n}] /\ indices[c] # {} /\ Removing(c, "delete")
          /\ \/ n <= Len(forward) /\ forward' = RemoveLine(n) /\ StepTo(c, "delete") /\ Shifts(c)
             \/ UNCHANGED <<forward, outdated>> /\ (StepTo(c, "delete") \/ GiveUp(c))
      BY <1>5, Zenon DEF DeleteLine, Refused, history
    <2>2. Moves(c)
      BY <1>5, RemovalMoves, Zenon
    <2>3. CASE b # c
      <3>1. Same(b) /\ indices'[b] = indices[b]
        BY <2>1, <2>2, <2>3, MovesAlone, Zenon DEF TableInv
      <3>2. (b \in outdated => b \in outdated') /\ (LinesStay \/ (indices[b] # {} => b \in outdated'))
        BY <2>1, <2>3, Zenon DEF Shifts, LinesStay
      <3> QED BY <1>a, <3>1, <3>2, OtherIndices, Zenon
    <2>4. CASE b = c
      <3>1. PICK h \in Nat : indices[c] \subseteq 1..h
        BY Zenon DEF TableInv
      <3>2. n \in indices[c] /\ \A m \in indices[c] : m <= n
        BY <2>1, <3>1, Highest, Zenon
      <3>3. indices'[c] = indices[c] \ {n}
        BY <2>1, Zenon DEF TableInv
      <3> HIDE DEF n
      <3>4. CASE GiveUp(c)
        BY <2>4, <3>4, EndsAtStart, AtStart, Zenon DEF IndicesOk
      <3>5. CASE StepTo(c, "delete")
        <4>1. Target(c)' = Target(c)
          BY <3>5, Zenon DEF StepTo, Goto, Target
        <4>2. c \notin outdated' => \A m \in indices[c] : m \in 1..Len(forward) /\ forward[m] = Jump(Target(c))
          BY <1>a, <2>1, <2>4, Zenon DEF IndicesOk, Shifts
        <4>3. CASE UNCHANGED <<forward, outdated>>
          BY <2>4, <3>3, <4>1, <4>2, <4>3, Zenon DEF IndicesOk, Jump
        <4>4. CASE n <= Len(forward) /\ forward' = RemoveLine(n)
          <5>1. n \in 1..Len(forward)
            <6>1. Len(forward) \in Nat
              <7>1. forward \in Seq(Accepts \cup VmIds)
                BY Zenon DEF TableInv
              <7> QED BY <7>1
            <6>2. n \in Nat /\ n >= 1
              BY <3>1, <3>2
            <6> QED BY <4>4, <6>1, <6>2
          <5>2. /\ Len(forward) \in Nat /\ Len(forward') = Len(forward) - 1
                /\ \A i \in 1..n - 1 : forward'[i] = forward[i]
            BY <4>4, <5>1, RemovedLine, Zenon
          <5>3. ASSUME NEW m \in indices'[c]
                PROVE  m \in indices[c] /\ m \in 1..n - 1 /\ m \in 1..Len(forward')
            BY <3>1, <3>2, <3>3, <5>1, <5>2
          <5> QED BY <2>4, <4>1, <4>2, <5>2, <5>3, Zenon DEF IndicesOk, Jump
        <4> QED BY <2>1, <4>3, <4>4
      <3> QED BY <2>1, <3>4, <3>5
    <2> QED BY <2>3, <2>4
  <1> QED BY <1>1, <1>2, <1>3, <1>4, <1>5, ListsAlone, Zenon

LEMMA ListInvHolds == Spec => []ListInv
  <1>1. Init => ListInv
    <2> SUFFICES ASSUME Init PROVE ListInv
      OBVIOUS
    <2>1. \A c \in Callers : todo[c] = <<>>
      BY Zenon DEF Init, CallsInit
    <2>2. Elems(todo[Gc]) = {}
      BY <2>1, EmptyFacts, VmIsCaller, Zenon
    <2> QED BY <2>1, <2>2, Zenon DEF ListInv, IndicesOk, Removing
  <1>2. CallShape /\ TableInv /\ ListInv /\ [Next]_vars => ListInv'
    BY ListNext, Zenon
  <1> QED BY <1>1, <1>2, CallShapeHolds, TableInvHolds, PTL DEF Spec
=============================================================================
