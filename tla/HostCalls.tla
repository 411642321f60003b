------------------------------ MODULE HostCalls ------------------------------
(***************************************************************************)
(* The calls that attach and release a VM's host resources, as             *)
(* compose_pre_spawn and compose_release of the Firecracker adapter make   *)
(* them: one primitive after the other, each a sequence of host commands   *)
(* that interleave with the commands of the calls for other VMs.  The      *)
(* primitives themselves are the modules that extend this one.             *)
(***************************************************************************)
EXTENDS Naturals, Sequences

CONSTANTS
    VmIds,           \* VMs, each composed and released by one caller at a time
    Gc,              \* the caller of Firewall::gc_orphans
    Deployments,     \* records: the primitives switched on, the VMs, and the bounds
                     \* on the composes and installs begun and on the commands
                     \* that fail
    None             \* the absent value

Primitives == {"network", "vsock", "firewall", "jailer"}

ASSUME CallAssumption ==
    /\ Gc \notin VmIds
    /\ None \notin VmIds
    /\ Deployments \subseteq [on : SUBSET Primitives, ids : SUBSET VmIds,
                       begins : Nat, failures : Nat]

VARIABLES
    composer,        \* primitives switched on; fixed at construction
    ids,             \* the VMs the callers use
    op,              \* caller -> the operation in flight, "none" between two
    todo,            \* caller -> what it still has to attach or remove, current first
    pc,              \* caller -> next command within the current item
    attached,        \* vm -> the ComposedAttachments recorded for it
    released,        \* vm -> what the release was to undo, until the next compose
    result,          \* vm -> "ok" or "err": how the last operation on it ended, for a
                     \* release (which drops its errors) whether all it ran succeeded
    begins,          \* composes and installs that may still begin
    failures         \* commands that may still fail for no reason of the model

config == <<composer, ids>>

calls == <<config, begins, op, todo, pc, attached, released, result, failures>>

Callers == VmIds \cup {Gc}

ComposeOrder == <<"network", "vsock", "firewall", "jailer">>

ReleaseOrder == <<"firewall", "vsock", "network", "jailer">>

(* A restored VM is only jailed: its snapshot encodes the rest.  Without a  *)
(* TAP the firewall is skipped; the specs bring no TAP of their own.        *)
Wanted(restoring) ==
    IF restoring THEN composer \cap {"jailer"}
    ELSE {p \in composer : p = "firewall" => "network" \in composer}

Only(order, S) ==
    LET Kept(i) == IF order[i] \in S THEN <<order[i]>> ELSE <<>>
    IN Kept(1) \o Kept(2) \o Kept(3) \o Kept(4)

CallsInit ==
    /\ \E d \in Deployments :
        composer = d.on /\ ids = d.ids /\ begins = d.begins /\ failures = d.failures
    /\ op = [c \in Callers |-> "none"]
    /\ todo = [c \in Callers |-> <<>>]
    /\ pc = [c \in Callers |-> "start"]
    /\ attached = [v \in VmIds |-> {}]
    /\ released = [v \in VmIds |-> {}]
    /\ result = [v \in VmIds |-> "ok"]

Composed(v) == attached[v] # {} /\ op[v] = "none"

At(c, o, item, l) ==
    op[c] \in o /\ todo[c] # <<>> /\ Head(todo[c]) = item /\ pc[c] = l

Begins == begins > 0 /\ begins' = begins - 1

(* A call only returns ok from its last item, hence the pessimistic result. *)
BeginCompose(v, restoring) ==
    /\ v \in ids /\ op[v] = "none" /\ attached[v] = {} /\ Wanted(restoring) # {}
    /\ Begins
    /\ op' = [op EXCEPT ![v] = "compose"]
    /\ todo' = [todo EXCEPT ![v] = Only(ComposeOrder, Wanted(restoring))]
    /\ result' = [result EXCEPT ![v] = "err"]
    /\ released' = [released EXCEPT ![v] = {}]
    /\ UNCHANGED <<config, pc, attached, failures>>

(* kill_process takes the attachments out of the map, then releases them.   *)
BeginRelease(v) ==
    /\ Composed(v)
    /\ op' = [op EXCEPT ![v] = "release"]
    /\ todo' = [todo EXCEPT ![v] = Only(ReleaseOrder, attached[v])]
    /\ attached' = [attached EXCEPT ![v] = {}]
    /\ released' = [released EXCEPT ![v] = attached[v]]
    /\ result' = [result EXCEPT ![v] = "ok"]
    /\ UNCHANGED <<config, begins, pc, failures>>

Goto(c, l) ==
    /\ pc' = [pc EXCEPT ![c] = l]
    /\ UNCHANGED <<config, begins, op, todo, attached, released, result>>

StepTo(c, l) == Goto(c, l) /\ UNCHANGED failures

Return(c, r) ==
    /\ op' = [op EXCEPT ![c] = "none"]
    /\ todo' = [todo EXCEPT ![c] = <<>>]
    /\ result' = IF c = Gc THEN result ELSE [result EXCEPT ![c] = r]

(* The current item succeeded: the next one, or the end of the call.        *)
Done(c) ==
    /\ pc' = [pc EXCEPT ![c] = "start"]
    /\ attached' = IF op[c] = "compose"
                   THEN [attached EXCEPT ![c] = @ \cup {Head(todo[c])}] ELSE attached
    /\ \/ /\ Len(todo[c]) > 1
          /\ todo' = [todo EXCEPT ![c] = Tail(@)]
          /\ UNCHANGED <<op, result>>
       \/ /\ Len(todo[c]) = 1
          /\ Return(c, IF op[c] = "release" THEN result[c] ELSE "ok")
    /\ UNCHANGED <<config, begins, released, failures>>

(* The current item failed.  compose_release drops the error and goes on;   *)
(* every other call returns it at once and undoes nothing, and a compose    *)
(* forgets what it had attached.                                            *)
GiveUp(c) ==
    /\ pc' = [pc EXCEPT ![c] = "start"]
    /\ \/ /\ op[c] = "release" /\ Len(todo[c]) > 1
          /\ todo' = [todo EXCEPT ![c] = Tail(@)]
          /\ result' = [result EXCEPT ![c] = "err"]
          /\ UNCHANGED op
       \/ /\ op[c] # "release" \/ Len(todo[c]) = 1
          /\ Return(c, "err")
    /\ attached' = IF op[c] = "compose" THEN [attached EXCEPT ![c] = {}] ELSE attached
    /\ UNCHANGED <<config, begins, released>>

(* The host's tables or the code refuse the item.                           *)
Refused(c) == GiveUp(c) /\ UNCHANGED failures

Failure == failures > 0 /\ failures' = failures - 1

(* A command fails for a reason outside the model.                          *)
Fail(c) == GiveUp(c) /\ Failure

(* A -C that fails reads as an absent rule.                                 *)
Misread(c, l) == Goto(c, l) /\ Failure

(* A command that cannot be spawned, or exits with an error nobody          *)
(* tolerates, before it changed anything.                                   *)
CommandFails(c) ==
    /\ op[c] # "none" /\ pc[c] # "check"
    /\ Head(todo[c]) \notin {"vsock", "jailer"}
    /\ Fail(c)
=============================================================================
