----------------------- MODULE InMemoryProvider_proofs -----------------------
(***************************************************************************)
(* Proof that InMemoryProvider implements the contract, for any ids and    *)
(* snapshot names.                                                         *)
(***************************************************************************)
EXTENDS InMemoryProvider, SequenceTheorems, TLAPS

Types ==
    /\ status \in [VmIds -> Contract!Status \cup {None}]
    /\ taken \in [VmIds -> Seq(Snaps)]

LEMMA Recorded ==
    ASSUME NEW t \in Seq(Snaps), NEW s \in Snaps
    PROVE  Append(t, s) \in Seq(Snaps) /\ Range(Append(t, s)) = Range(t) \cup {s}
  <1> DEFINE u == Append(t, s)
  <1>1. /\ u \in Seq(Snaps) /\ Len(u) = Len(t) + 1 /\ Len(t) \in Nat
        /\ \A k \in 1..Len(t) : u[k] = t[k]
        /\ u[Len(t) + 1] = s /\ DOMAIN u = 1..Len(u) /\ DOMAIN t = 1..Len(t)
    BY AppendProperties, LenProperties
  <1> HIDE DEF u
  <1>2. Range(u) = Range(t) \cup {s}
    BY <1>1 DEF Range
  <1> QED BY <1>1, <1>2 DEF u

LEMMA Unrecorded ==
    ASSUME NEW t \in Seq(Snaps), NEW s, ~Contains(t, s)
    PROVE  s \notin Range(t)
  BY LenProperties DEF Contains, Range

(* Only create_vm, for an id without a record, and snapshot_vm, which adds  *)
(* the name it has checked, change what the contract sees of a list.        *)
THEOREM ContractImplemented == Spec => ImplementsContract
  <1> USE DEF Contract!Status
  <1>1. Init => Types /\ Contract!LifecycleInit
    <2> SUFFICES ASSUME Init PROVE Types /\ Contract!LifecycleInit
      OBVIOUS
    <2>1. \A id \in VmIds : taken[id] = <<>> /\ Range(taken[id]) = {}
      BY DEF Init, Range
    <2> QED BY <2>1 DEF Init, Types, Contract!LifecycleInit
  <1>2. Types /\ [Next]_vars => Types' /\ [Contract!LifecycleNext]_(Contract!contract)
    <2> SUFFICES ASSUME Types, [Next]_vars
                 PROVE  Types' /\ [Contract!LifecycleNext]_(Contract!contract)
      OBVIOUS
    <2>1. ASSUME NEW id \in VmIds, create_vm(id)
          PROVE  Types' /\ Contract!CreateVm(id)
      <3>1. Types'
        BY <2>1 DEF Types, create_vm
      <3>2. taken'[id] = <<>> /\ Range(taken'[id]) = {}
        BY <2>1 DEF Types, create_vm, Range
      <3>3. \A j \in VmIds \ {id} : taken'[j] = taken[j]
        BY <2>1 DEF Types, create_vm
      <3>4. [j \in VmIds |-> Range(taken'[j])] = [[j \in VmIds |-> Range(taken[j])] EXCEPT ![id] = {}]
        BY <3>2, <3>3
      <3>5. status[id] = None /\ status' = [status EXCEPT ![id] = "Created"]
        BY <2>1 DEF create_vm
      <3> QED BY <3>1, <3>4, <3>5 DEF Contract!CreateVm
    <2>2. ASSUME NEW id \in VmIds, start_vm(id) \/ stop_vm(id) \/ destroy_vm(id)
          PROVE  Types' /\ (Contract!StartVm(id) \/ Contract!StopVm(id) \/ Contract!DestroyVm(id))
      <3>1. Types'
        BY <2>2 DEF Types, start_vm, stop_vm, destroy_vm
      <3>2. [j \in VmIds |-> Range(taken'[j])] = [j \in VmIds |-> Range(taken[j])]
        BY <2>2 DEF start_vm, stop_vm, destroy_vm
      <3> QED BY <2>2, <3>1, <3>2 DEF start_vm, stop_vm, destroy_vm, Types,
                 Contract!StartVm, Contract!StopVm, Contract!DestroyVm, Contract!Live
    <2>3. ASSUME NEW id \in VmIds, NEW s \in Snaps, snapshot_vm(id, s)
          PROVE  Types' /\ Contract!SnapshotVm(id, s)
      <3>1. /\ taken[id] \in Seq(Snaps) /\ ~Contains(taken[id], s) /\ UNCHANGED status
            /\ taken' = [taken EXCEPT ![id] = Append(taken[id], s)]
            /\ status[id] \notin {None, "Destroyed"}
        BY <2>3 DEF snapshot_vm, Types
      <3>2. Append(taken[id], s) \in Seq(Snaps) /\ Range(Append(taken[id], s)) = Range(taken[id]) \cup {s}
        BY <3>1, Recorded
      <3>3. Types'
        BY <3>1, <3>2 DEF Types
      <3>4. taken'[id] = Append(taken[id], s) /\ \A j \in VmIds \ {id} : taken'[j] = taken[j]
        BY <3>1 DEF Types
      <3>5. [j \in VmIds |-> Range(taken'[j])]
              = [[j \in VmIds |-> Range(taken[j])] EXCEPT ![id] = @ \cup {s}]
        BY <3>2, <3>4
      <3>6. s \notin Range(taken[id])
        BY <3>1, Unrecorded
      <3>7. status[id] \in Contract!Status \ {"Destroyed"}
        BY <3>1 DEF Types
      <3> QED BY <3>1, <3>3, <3>5, <3>6, <3>7 DEF Contract!SnapshotVm, Contract!Live
    <2>4. CASE UNCHANGED vars
      BY <2>4 DEF vars, Types, Contract!contract
    <2> QED BY <2>1, <2>2, <2>3, <2>4 DEF Next, Contract!LifecycleNext
  <1> QED BY <1>1, <1>2, PTL DEF Spec, ImplementsContract, Contract!LifecycleSpec
=============================================================================
