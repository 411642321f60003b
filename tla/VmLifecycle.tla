---------------------------- MODULE VmLifecycle ----------------------------
(***************************************************************************)
(* The contract of the VmProvider trait (src/provider.rs): what a caller   *)
(* may observe of the table of VMs through VmQuery, whatever the adapter   *)
(* does underneath.  Every operation takes effect atomically or not at     *)
(* all; an operation that fails leaves the table alone, so failures are    *)
(* stuttering steps.  The adapters are shown to implement this module.     *)
(***************************************************************************)

CONSTANTS
    VmIds,        \* identifiers a caller may pass
    Snaps,        \* snapshot names
    None          \* no record under an identifier

VARIABLES
    status,       \* VmIds -> VmStatus, or None when the id is unknown
    snapshots     \* VmIds -> the snapshot names recorded for the VM

contract == <<status, snapshots>>

Status == {"Created", "Running", "Stopped", "Destroyed"}

Live(id) == status[id] \in Status \ {"Destroyed"}

LifecycleTypeOK ==
    /\ status \in [VmIds -> Status \cup {None}]
    /\ snapshots \in [VmIds -> SUBSET Snaps]

LifecycleInit ==
    /\ status = [id \in VmIds |-> None]
    /\ snapshots = [id \in VmIds |-> {}]

-----------------------------------------------------------------------------
(* create_vm: "Fails if `vm_id` is already in use."  A restored VM appears  *)
(* as Running or Stopped, a cold-booted one as Created.                     *)
CreateVm(id) ==
    /\ status[id] = None
    /\ \E st \in {"Created", "Running", "Stopped"} :
           status' = [status EXCEPT ![id] = st]
    /\ snapshots' = [snapshots EXCEPT ![id] = {}]

(* start_vm: "Start a created or stopped microVM."                          *)
StartVm(id) ==
    /\ status[id] \in {"Created", "Stopped"}
    /\ status' = [status EXCEPT ![id] = "Running"]
    /\ UNCHANGED snapshots

(* stop_vm: "Stop a running microVM."                                       *)
StopVm(id) ==
    /\ status[id] = "Running"
    /\ status' = [status EXCEPT ![id] = "Stopped"]
    /\ UNCHANGED snapshots

(* snapshot_vm: "Fails if the VM is destroyed or the snapshot name already  *)
(* exists."                                                                 *)
SnapshotVm(id, s) ==
    /\ Live(id)
    /\ s \notin snapshots[id]
    /\ snapshots' = [snapshots EXCEPT ![id] = @ \cup {s}]
    /\ UNCHANGED status

(* destroy_vm: "Terminal state - cannot be restarted."  The record and its  *)
(* snapshot names stay in the table.                                        *)
DestroyVm(id) ==
    /\ Live(id)
    /\ status' = [status EXCEPT ![id] = "Destroyed"]
    /\ UNCHANGED snapshots

(* rename_vm: the record moves to an unused identifier.                     *)
RenameVm(old, new) ==
    /\ Live(old)
    /\ status[new] = None
    /\ status' = [status EXCEPT ![new] = status[old], ![old] = None]
    /\ snapshots' = [snapshots EXCEPT ![new] = snapshots[old], ![old] = {}]

LifecycleNext ==
    \/ \E id \in VmIds : CreateVm(id) \/ StartVm(id) \/ StopVm(id) \/ DestroyVm(id)
    \/ \E id \in VmIds, s \in Snaps : SnapshotVm(id, s)
    \/ \E old, new \in VmIds : RenameVm(old, new)

LifecycleSpec == LifecycleInit /\ [][LifecycleNext]_contract
=============================================================================
