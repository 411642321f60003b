-------------------------- MODULE InMemoryProvider --------------------------
(***************************************************************************)
(* InMemoryVmProvider (src/adapters/in_memory.rs): the development adapter.*)
(* Every operation runs from its check to its last assignment under the    *)
(* write lock of the one map, so each is one action; an operation that     *)
(* returns an error changes nothing.  rename_vm is the trait's default,    *)
(* which always refuses.                                                   *)
(***************************************************************************)
EXTENDS Sequences, SequencesExt

CONSTANTS VmIds, Snaps, None

VARIABLES
    status,       \* VmIds -> state[id].status, None when the id has no record
    taken         \* VmIds -> state[id].snapshots: names in the order taken

vars == <<status, taken>>

Init ==
    /\ status = [id \in VmIds |-> None]
    /\ taken = [id \in VmIds |-> <<>>]

create_vm(id) ==
    /\ status[id] = None
    /\ status' = [status EXCEPT ![id] = "Created"]
    /\ taken' = [taken EXCEPT ![id] = <<>>]

start_vm(id) ==
    /\ status[id] \in {"Created", "Stopped"}
    /\ status' = [status EXCEPT ![id] = "Running"]
    /\ UNCHANGED taken

stop_vm(id) ==
    /\ status[id] = "Running"
    /\ status' = [status EXCEPT ![id] = "Stopped"]
    /\ UNCHANGED taken

(* Variant: destroyed VMs are not refused.                                  *)
snapshot_any(id, s) ==
    /\ status[id] # None
    /\ ~Contains(taken[id], s)
    /\ taken' = [taken EXCEPT ![id] = Append(@, s)]
    /\ UNCHANGED status

snapshot_vm(id, s) ==
    /\ status[id] \notin {None, "Destroyed"}
    /\ ~Contains(taken[id], s)
    /\ taken' = [taken EXCEPT ![id] = Append(@, s)]
    /\ UNCHANGED status

destroy_vm(id) ==
    /\ status[id] \notin {None, "Destroyed"}
    /\ status' = [status EXCEPT ![id] = "Destroyed"]
    /\ UNCHANGED taken

Next ==
    \E id \in VmIds :
        \/ create_vm(id) \/ start_vm(id) \/ stop_vm(id) \/ destroy_vm(id)
        \/ \E s \in Snaps : snapshot_vm(id, s)

Spec == Init /\ [][Next]_vars

-----------------------------------------------------------------------------
Contract == INSTANCE VmLifecycle WITH snapshots <- [id \in VmIds |-> Range(taken[id])]

(* The development adapter implements the contract of the VmProvider trait, *)
(* a VM's list of snapshots standing for the set of its names: code tested  *)
(* against it meets the transitions the production adapter also promises.   *)
ImplementsContract == Contract!LifecycleSpec
=============================================================================
