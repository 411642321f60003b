---------------------------- MODULE VsockManager ----------------------------
(***************************************************************************)
(* VsockManager (src/vsock.rs): the table of context ids (CIDs) given to   *)
(* VMs and the socket file of each.  attach runs under the table's lock    *)
(* from end to end; detach drops the lock before it removes the file.      *)
(***************************************************************************)
EXTENDS HostCalls, FiniteSets

CONSTANTS
    FirstCid, LastCid,   \* the configured range
    CidHash              \* vm -> DefaultHasher of its id

ASSUME CidAssumption ==
    /\ FirstCid \in Nat /\ LastCid \in Nat
    /\ CidHash \in [VmIds -> Nat]
    /\ None \notin Nat

VARIABLES
    allocations,     \* vm -> its CID, None when it has none
    cid,             \* vm -> the CID in the spec of its Firecracker
    udsFile          \* VMs whose socket file exists

vsock == <<allocations, cid, udsFile>>

Cids == FirstCid..LastCid

(* Mutants: the range taken for half open, one candidate past its end, the  *)
(* hash without the probe, a socket file left behind.                       *)
SpanHalfOpen == LastCid - FirstCid

Span == LastCid - FirstCid + 1

Used == {allocations[v] : v \in VmIds} \ {None}

CandidatePastEnd(v, k) == FirstCid + ((CidHash[v] + k) % (Span + 1))

(* The k-th CID probed for v: upwards from its hash, around at the end.     *)
Candidate(v, k) == FirstCid + ((CidHash[v] + k) % Span)

Free(v, k) == Candidate(v, k) \notin Used

FirstFree(v, k) == Free(v, k) /\ \A j \in 0..k - 1 : ~Free(v, j)

HashOnly(v) == Candidate(v, 0)

(* The first free candidate; None when the range is empty or exhausted.     *)
find_free_cid(v) ==
    IF \/ FirstCid > LastCid \/ Cardinality(Used) >= Span
       \/ ~\E k \in 0..Span - 1 : FirstFree(v, k)
    THEN None
    ELSE Candidate(v, CHOOSE k \in 0..Span - 1 : FirstFree(v, k))

VsockInit ==
    /\ allocations = [v \in VmIds |-> None]
    /\ cid = [v \in VmIds |-> None]
    /\ udsFile = {}

Allocated(v) == IF allocations[v] # None THEN allocations[v] ELSE find_free_cid(v)

(* The CID is kept when the directory for the socket cannot be made.        *)
AttachVsock(v) ==
    /\ At(v, {"compose"}, "vsock", "start")
    /\ allocations' = [allocations EXCEPT ![v] = Allocated(v)]
    /\ \/ /\ Allocated(v) # None
          /\ cid' = [cid EXCEPT ![v] = Allocated(v)] /\ Done(v)
       \/ Allocated(v) # None /\ Fail(v) /\ UNCHANGED cid
       \/ Allocated(v) = None /\ Refused(v) /\ UNCHANGED cid
    /\ UNCHANGED udsFile

(* The Firecracker of a composed VM binds the path it was given.            *)
BindUds(v) ==
    /\ Composed(v) /\ cid[v] # None /\ v \notin udsFile
    /\ udsFile' = udsFile \cup {v}
    /\ UNCHANGED <<calls, allocations, cid>>

FreeCid(v) ==
    /\ At(v, {"release"}, "vsock", "start")
    /\ allocations' = [allocations EXCEPT ![v] = None]
    /\ cid' = [cid EXCEPT ![v] = None]
    /\ StepTo(v, "unlink")
    /\ UNCHANGED udsFile

KeepUds(v) ==
    /\ At(v, {"release"}, "vsock", "unlink")
    /\ Done(v)
    /\ UNCHANGED <<allocations, cid, udsFile>>

RemoveUds(v) ==
    /\ At(v, {"release"}, "vsock", "unlink")
    /\ \/ udsFile' = udsFile \ {v} /\ Done(v)
       \/ v \in udsFile /\ Fail(v) /\ UNCHANGED udsFile
    /\ UNCHANGED <<allocations, cid>>

VsockStep(v) == AttachVsock(v) \/ BindUds(v) \/ FreeCid(v) \/ RemoveUds(v)
=============================================================================
