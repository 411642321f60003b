# A TLA+ model of microvm-runtime

This directory models the parts of `microvm-runtime` whose correctness depends on
the order in which things happen: the VM lifecycle of the adapters, the host
resources a VM is given, the copy-on-write root file systems, and the threads and
clients that serve a running VM until its end. TLC checks the models on small
instances; TLAPS proves the central properties for every value of the constants.

Paths below are relative to the crate (`src/...` is the crate's source directory).

## 1. The system

| Part | Code | State | Operations | What is hard about it |
|---|---|---|---|---|
| Provider contract | `provider.rs`, `model.rs` | table of VMs: status, snapshot names | create, start, stop, snapshot, destroy, rename; queries | every adapter must keep it whatever callers interleave |
| Firecracker adapter | `adapters/firecracker.rs` | six locked maps, directories and sockets on the host, child processes | the contract's operations | create is long and unlocked; every step can fail; replies get lost; ids and directories are reused |
| In-memory adapter | `adapters/in_memory.rs` | one locked map | the same, without rename | little: the reference implementation |
| Composer | `composer.rs` | which host primitives are on | attach before the spawn, release at the end | partial attachment, failed release |
| Rootfs registry | `rootfs.rs` | a directory per VM (image, two stamps), a digest cache | clone, sized clone, release | crash or failure between steps; hard links; template replaced underneath |
| UFFD handler | `uffd.rs` | a thread, its socket, the memory file | start, handshake, serve faults, shutdown | starts late, dies silently, names its socket by path |
| Graceful shutdown | `shutdown.rs`, `kill_process` | a child | SIGTERM, poll, SIGKILL, reap | exit racing the signal |
| Vsock, network, firewall | `vsock.rs`, `network/`, `firewall.rs` | CIDs, TAPs and addresses, iptables chains | attach/detach, ensure_host, install/uninstall/gc | exhaustion, concurrent idempotent set-up, deletion by rule number |
| Jailer | `jailer.rs` | chroot directory | prepare, teardown, stage | changes where the socket lives |
| Console, metrics | `console.rs`, `metrics.rs` | reader threads, a bounded ring | attach, tail, shutdown | bound, shutdown of a blocked reader |
| Guest metadata | `guest_metadata.rs`, `examples/guest_metadata_daemon.rs` | a connection; files in the guest | connect, set_env, set_secret, ping | late replies after a timeout, torn lines, concurrent writers |

A create in the Firecracker adapter asks the composer for host resources, spawns
Firecracker (through the jailer when that is on), waits for its socket, then either
configures a cold boot or loads a snapshot, possibly with a UFFD handler, and only
then publishes the console, the child, the handler, the attachments and the record,
in that order, each under its own lock. Destroy and rename undo or move all of it under the
state write lock. The rootfs registry is used by callers before a create and shares
no state with the adapter.

Nothing is persisted by the adapter: after a restart its maps are empty and nothing
is recovered. Recovery of the provider is therefore not a behaviour of this code.

## 2. Modules

| Module | Models |
|---|---|
| `VmLifecycle` | the contract: the table of VMs as a caller sees it through `VmQuery` |
| `FirecrackerProvider` | the adapter, the host, the processes, the callers |
| `InMemoryProvider` | the in-memory adapter |
| `RootfsRegistry` | clones, stamps and digest cache for one stack |
| `HostCalls` | compose and release: which primitive is attached or undone next |
| `HostNetwork`, `Firewall`, `VsockManager`, `Jailer` | the four primitives, on top of `HostCalls` |
| `HostResources` | the four composed, and their properties |
| `GracefulShutdown` | `kill_process` and `graceful_shutdown` against the child |
| `ConsoleCapture`, `UffdHandler`, `MetricsReader` | the threads that serve a VM |
| `MetadataStore` | what the guest metadata protocol promises |
| `GuestMetadata` | its client and its daemon |
| `HttpFraming` | reading one API response |
| `VmServices` | all of these around one child, and their properties |
| `..._contract`, `..._paths`, `..._resources`, `..._composed`, `..._proofs` | theorems |
| `MC...` | instances for TLC |

### VmLifecycle

Two variables, `status` and `snapshots`; one action per trait operation. A failed
operation changes nothing a caller can see and is a stuttering step.

### FirecrackerProvider

*State.* The maps of `FirecrackerVmProvider` keep their names (`status` and
`snapshots` are the two changing fields of a record). The host is a set of
directories and who bound the socket in each; a process is `unused`, `up`, `zombie`
or `reaped`, and has a guest state. The composer's primitives are attached or not,
per id (`host`). `pc`, `vm`, `dst`, `src`, `child`, `held` are the local variables
of the call each caller has in flight.

*Atomicity.* `start_vm`, `stop_vm` and `snapshot_vm` hold the state write lock from
end to end, so each is one action. `create_vm_inner` is one action per stretch
between two points where others can interfere: `CreateCheck`, one `Attach` per
primitive, `MakeStateDir`/`Spawn`, `WaitReady`, `Configure` or
`LoadCheck`/`LoadRequest`, then one step per map: `PublishConsole`, `PublishProcess`,
`PublishHandler`, `PublishAttachments`, `InsertRecord`. Destroy
(`DestroyKill`, `DestroyRemove`) and rename (`RenameStateDir`, then `RenameHolder`
or `RenameRollback`) hold the lock across two steps because the unlocked part of a
create sees the directories in between.

*Failures.* Each step of a create can fail (`ComposeFail`, `SpawnFail`,
`CreateFail`); a request can be executed and its reply lost (`replied` is FALSE in
`StartVm`, `StopVm`); a snapshot can fail with or without having written its files;
the move back of a rename can fail, which leaves the state directory under the new
name; a process can exit at any time. An operation that returns an error before
changing anything is a stuttering step. The kill and wait system calls on a child
succeed.

*Dropped errors.* `compose_release` ignores the error of each of its steps, the jail's
teardown included (`firecracker.rs:863`), and `destroy_vm` those of its removals
(`firecracker.rs:1652`): `Release`, `Teardown` and `RemoveDirs` leave any part of what
they were to remove. Four ghosts record what went wrong, and nothing reads them:
`leaked` (resources a failed compose or release left), `undeleted` (directories a
destroy could not remove), `stranded` (ids whose rename could not be undone) and
`desync` (processes that executed a request whose reply was lost).

*Ownership.* `OneOwnerPerId` says that no two calls in flight claim the same id. The
code does not enforce it: with FALSE the run `provider_create_race` violates the
contract. With TRUE, everything else is checked and proved.

*Left out.* Request bodies, configuration parsing, MMDS and drives, logging (the
framing of replies is in `HttpFraming`, what the composer's primitives do to the
host in `HostResources`). Whether a request is accepted depends only on the guest's state
(`Accepts`, which is Firecracker's behaviour and marked external).

### InMemoryProvider

One action per method. `ImplementsContract` maps the list of snapshots to the
contract's set of names.

### RootfsRegistry

*State.* Files are inodes with contents, length and file-system size, so that a
hard link, a reflink and a copy differ. A slot is the directory of one VM: image,
digest stamp, size stamp. `hash_cache` is keyed by modification time.

*Actions.* A call is `Begin` (the checks of `clone_for_vm_with_size`), `Stat`,
`Hash` (which returns for a slot that is already right), `Clone`, `WriteStamp`, and
for sized calls `Separate` (`ensure_independent_inode`), `Grow` (`set_len`),
`Resize2fs`, `WriteSizeStamp`. Every step can fail (`StepFail`, `CloneFail` with a
partial file left behind, `StampTorn` and `SizeStampTorn` with a stamp cut short by
`fs::write`, which truncates first), the process can die between any two (`Crash`), the
operator can replace the template (`Rotate`), and `release` can stop halfway
(`ReleaseInterrupted`). A size stamp that was cut short does not parse: sized calls for
the slot fail until it is released.

*Assumptions.* Each slot has one owner, as the docs of the module require. A
template is replaced by renaming a new file over it, with a new modification time,
and never rewritten in place. A refused sized call only warms the digest cache,
which the next call does anyway, so it is a stuttering step; the first lookup of an
accepted one is part of `Begin`. The ghosts `raced` (the template was replaced
during the call that cloned the slot) and `torn` (its release was interrupted) mark
the slots for which the code promises nothing, until they are made again.

### HostResources

*State.* `HostCalls` holds the calls in flight: for each VM the operation (`compose`,
`release`, or an `install` with an allowlist of the caller's), the primitives still
to do and the next command of the current one; the attachments recorded
(`attached`); and how the last call ended (`result`). The host is the bridge, the
number of MASQUERADE rules, the FORWARD chain as a sequence of rules, a TAP, a chain,
a socket file and a chroot per VM, and the vsock manager's table.

*Atomicity.* One action per `ip` or `iptables` command wherever another caller's
commands can come in between: the check and the change of each idempotent set-up are
two actions, listing the FORWARD line numbers and deleting each of them are as many.
The commands of a TAP or a chroot touch that VM's own objects and are one action
with the partial results a failure can leave (a TAP taken off the bridge and not
deleted, a file of the chroot copied in part). `attach` of the vsock manager is one
action because it holds its lock; `detach` is two because it drops it first.

*Failures.* Any command may fail (`CommandFails`, and the failing disjuncts of the
actions that leave something half done); a failing `iptables -C` reads as an absent
rule (`Misread`). `ip link show` failing in `delete_tap` counts as a failed command here,
though the code takes it for a missing device and returns Ok. A failed compose forgets what it attached and undoes nothing; a
release goes on after an error.

*Ghosts.* `struck` marks a VM or an ACCEPT rule hit by a caller that acted on line
numbers another caller's command had shifted (`outdated`), or by a `gc_orphans` whose
list of known ids was older than the VM. These two races are real (section 5); the
properties say that nothing else breaks a VM's rules.

*Data.* Addresses are numbers of `AddrBits` bits with the arithmetic of `Ipv4Net`;
the hashes of the ids are constants. A rule is a match and a target. A VM has one
caller at a time; TAP and chain names are taken to be distinct for distinct ids.
The allowlists that `install` refuses change nothing. The line numbers a caller holds
are a set, since it deletes from the highest down; `gc_orphans` may find the chains
listed in any order.

### VmServices

One child, `kill_process` ending it, and the helpers it may have.

* `GracefulShutdown`: the stages of `graceful_shutdown` (look, SIGTERM, poll, deadline,
  sleep, SIGKILL, wait) against a child that exits whenever it likes. Time is a
  clock that ticks between SIGTERM and the deadline. `kill_process` without a grace
  period goes straight to SIGKILL. It then drops the console and the handler, with
  joins of bounded length.
* `ConsoleCapture`: the child blocks on a full pipe; the drain thread reads lines,
  cuts long ones, evicts old ones, and ends on the flag, at the end of the file or
  at a line that is not UTF-8.
* `UffdHandler`: accept, handshake, mapping, then one action per event: a fault
  (copy, zero fill, out of range, already there, refused) or a removal by the
  balloon. The kernel's half is modelled from how the code uses it and marked
  external: faults are queued, a copy wakes the waiters, and it is refused while a
  removal is unread. A fault event the handler is reading may be stale. Unregistering
  the range of a removal may fail, which the code ignores: the page is dropped all the
  same, and later faults on it still reach the handler (`stuck`).
* `MetricsReader`: lines from the FIFO; a bad one is skipped, one that is not UTF-8
  ends the thread; the gauge converts and saturates as `from_value` does.
* `GuestMetadata`: two sides and the lines between them. A send may write a whole
  line, a part or nothing; a reply may come after the timeout, which may also have
  eaten a part of it; the host may go on over the same connection or drop it; the
  daemon has one thread per connection and writes a temporary file before it renames
  it. `MetadataStore` is the abstract specification: requests issued, applied and
  acknowledged, and the files.
* `HttpFraming`: the response as bytes arriving in pieces; what the header lines say of
  the body is given beside the bytes.

## 3. Runs

| Run | Configuration | Result |
|---|---|---|
| `provider` | `MCFirecrackerProvider.cfg` | safety and refinement hold, about 886,000 states |
| `provider_create_race` | `MCProviderCreateRace.cfg` | `CreateFailsIfInUse` is violated |
| `provider_pager` | `MCProviderPager.cfg` | `PagedWhileUp` is violated |
| `provider_rename_handler` | `MCProviderRename.cfg` | `HandlerFollowsRename` is violated |
| `in_memory` | `MCInMemoryProvider.cfg` | the contract is implemented, 441 states |
| `rootfs` | `MCRootfsRegistry.cfg` | safety holds, about 1,631,000 states |
| `rootfs_resize` | `MCRootfsResize.cfg` | `FsFillsImage` is violated |
| `rootfs_shared` | `MCRootfsShared.cfg` | `SizeFixed` is violated |
| `rootfs_no_mtime` | `MCRootfsNoMtime.cfg` | `StampTellsContent` is violated |
| `host_resources` | `MCHostResources.cfg` | safety holds, about 607,000 states |
| `vm_services` | `MCVmServices.cfg` | safety, refinement and liveness hold, about 314,000 states |
| `metadata_env_merge` | `MCMetadataEnv.cfg` | `EnvKeepsOtherKeys` is violated |

### What the passing runs show

* `NoOrphanProcess`: a Firecracker process that runs or is unreaped belongs to a
  create in flight or can be destroyed by its id.
* `OwnSocket`: requests for a VM reach its own process, and its console and handler
  are its own, through renames and failed creates that reuse a directory.
* `DestroyedIsClean`: a destroyed VM is in no map, and what is still there under its name
  is exactly what an error that the code drops left (`leaked`, `undeleted`); a socket
  file among it belongs to a reaped process.
* `SnapshotsBacked`: a recorded snapshot has its files where the record says, unless a
  rename could not be undone (`stranded`).
* `AttachmentsAccounted`: no host resource exists that nobody will release, other
  than those a failed compose or a dropped release error, that of the jail's teardown
  included, is known to leave. That a
  failed compose step leaves the earlier attachments behind is the code's behaviour
  (`compose_pre_spawn` returns through `?`); a retry under the same id adopts them.
* `StatusTracksGuest`: status and guest agree, or differ by exactly the one request
  whose reply was lost.
* `ImplementsContract`: the table changes as `VmLifecycle` says.
* `NoCallStuck`: whatever has become of its child, directories and sockets, a call in
  flight can take a step, or waits for a lock whose holder can. It says that no
  wait depends on what Firecracker does.
* `StampTellsContent`, `SizeStampBacked`, `TemplateUntouched`, `NeverShrinks`: what
  the stamps say is true, also after failures, crashes and retries; the template is
  never written; no image is shortened.
* `ConfinedWhileComposed`, `ConnectedWhileComposed`: whatever other VMs' set-up,
  removal and garbage collection do to the shared FORWARD chain, a composed VM's
  packets meet its own chain before any ACCEPT, the chain is the allowlist and a
  DROP, and the bridge, NAT and ACCEPT rules it needs are there; only the two races
  recorded in `struck` break that. A VM whose last `install` failed is not promised
  anything.
* `CidExclusive`, `RefusedOnlyWhenFull`: no two VMs have one CID, and the circular
  probe finds a free CID whenever there is one.
* `AddressUsable`: a guest's address is none of the three reserved ones.
* `JailServesSpec`: a chroot prepared over the remains of another holds what the
  spec names.
* `ReleasedIsClean`: a release without errors leaves nothing of what it was to undo.
* `SignalsOwnChild`: SIGTERM goes by number, and never after a poll that reaped the child,
  when the number may be another process's.
* `OutcomeTruthful`: the outcome says which signals were sent, `Forced` only after the
  whole grace period, and nothing is released before the child is reaped.
* `KillReturns`, `ThreadsEnd`: `kill_process` returns and the threads end.
* `TailIsLatest`, `ChildNotBlocked`: the ring is the latest lines in order, all that was
  read up to the line that ended the capture; a full pipe is drained.
* `PagesFaithful`, `FaultServed`: a page is filled from its place in the memory file or
  with zeroes, never from beyond the file, and a page the balloon gave back comes
  back from the snapshot only if its range could not be unregistered; a waiting vCPU goes on, is recorded in `lost`, or
  has lost its handler.
* `SnapshotIsLast`: the published metrics are those of the last document read, in
  bytes.
* `StoreSpec`, `AckedSurvives`: client and daemon implement the store (a request is
  applied at most once and whole, and acknowledged only if applied), whose env file is
  the daemon's, replaced by each batch; a file never
  goes back from an acknowledged request to one acknowledged before it was issued.
* `FrameIsExact`, `AnswerEndsCall`: one response is returned, exactly, however the
  stream is cut, and without waiting for more than was announced.

### What the violated properties show

1. **Overlapping creates of one id both succeed.** `provider.rs:6` promises a
   failure; the check and the insert are under different lock acquisitions.
2. **A restored guest can run without its page-fault handler.** The handler opens
   the memory file after the handshake; destroying or renaming the source VM before
   that ends the handler, and the create still succeeds.
3. **A renamed VM's handler keeps the old socket path**, and unlinks it at shutdown.
4. **A failed `resize2fs` is never retried.** The second call finds the file at its
   target length, skips `resize2fs` and records the size.
5. **Two clones can share an inode after a template replacement.** The test for
   sharing looks only at the current template; growing one clone grows the other.
6. **Without modification times the digest cache is stale for ever**, which a
   comment says cannot happen.
7. **`set_env` replaces the environment.** `guest_metadata.rs:300` says that keys not in
   the batch are left untouched; the daemon writes the file from the batch alone.

### Bounds

Two ids are enough for a rename onto a name that a failed or finished VM used, and
for a restore from another VM; the rename run has a third so that the old name can
be used again. Three processes allow a VM, a restore of it and one replacement; two
callers allow every pairwise race. One snapshot name suffices because names only
matter as equal or not. The composers cover none, jailed with console, and host
networking, with the composer's own TAP or with interfaces of the caller's; the two
memory backends are both there. Ids, processes and callers are interchangeable, hence
the symmetry set.

For the registry: two slots, two contents, one replacement, targets below and above
each other, and three inodes (the template, and two clones, or a clone and a
replaced template). One unit of length is the template's size. `VIEW` hides what
free inodes hold, which no step reads before it is overwritten. An action that needs
a free inode waits until there is one.

`MCHostResources` chooses one of three deployments at the start: two VMs with
network and firewall and two composes (all interleavings of the shared
chain); three VMs with vsock for two CIDs, five composes and a failing command
(exhaustion, reuse of a freed CID, the CID a failed attach keeps), in which the
firewall is skipped for want of a TAP; and one VM with every primitive, three calls
and a failing command (retries over what a failure left, an `install` with an
allowlist). Garbage collection may run at any time in all three. The one valid subnet is the smallest
that `NetworkManager` accepts, where an offset that is one too large is the broadcast
address; the two others are refused. Larger subnets are covered by the proof.

`MCVmServices` gives the VM no helper or one of them, since the helpers share
only the child and `kill_process`, and each is thus checked against every schedule of these. A grace period
of three ticks with polls every two makes the last sleep a shortened one. Two lines of
ring and pipe and four writes make both overflow. Two vCPUs touch four
addresses on three pages: one in each of two regions, the second reaching past the
memory file, and one in none; the balloon may give one back. Two documents
suffice for a last one, and `MiB` and `MaxU64` are small so that the product
saturates. Two hosts with a link each (or one that reconnects) issue two requests out of
seven bodies. The responses contain a body that looks like a header terminator followed
by surplus bytes, a missing and a refused length, headers without an end and a
truncated body; reads return up to three bytes.

`vm_services` does not check for deadlock: every behaviour ends with the VM.
The provider runs do not check for deadlock: the bound on processes ends every
behaviour. The in-memory run neither: all VMs may be destroyed.

### Fairness

The provider runs check safety only. `NoCallStuck` is what a liveness property would rest
on: each wait of a create has a timeout in the code (the socket wait at
`firecracker.rs:870`, the I/O timeouts of each request), after which the failing disjunct
of its step is enabled. The commands of a compose or a release have none.

`VmServices` assumes weak fairness of each thread's own steps, of the clock, and of the
child's exit after SIGKILL, which the kernel guarantees. The handler's steps are fair per
vCPU as well (`FaultOf`): userfaultfd hands out faults before removals, and the oldest
fault first, so that removals whose unregistering fails do not starve a fault. Nothing is assumed of the
guest, of Firecracker before SIGKILL, or of the caller, so the child may ignore
SIGTERM, never connect to the handler, or never write. `HttpThread` does not include
the read timeout, so that `AnswerEndsCall` cannot hold by timing out. `StoreSpec` is
safety only and uses no fairness. `host_resources` checks safety only: a call runs
external commands, for which the code sets no time limit.

## 4. Proofs

Every theorem holds for all values of the constants that satisfy the named
assumptions in the modules: `safe_vm_id` maps ids to names, `None` is none of the
values, template sizes are positive, and those named with the theorems below. The
bounds on calls, failures, lines and requests are constants too, so no theorem
depends on their values.

**FirecrackerProvider_contract**

* `TypesHold`: `TypeOK` needs `CallOK`, which says which locals are set at which
  `pc` (a create past its spawn has a child, a rename has a new id).
* `ContractImplemented`, assuming `OneOwnerPerId`: every step is a `VmLifecycle` step or
  leaves the table alone. The invariant is `ClaimInv`: two calls in flight never claim one id, the id
  of a create has no record yet, and the lock holder is the destroy or rename in
  flight. It is what makes `InsertRecord` a `CreateVm` rather than an overwrite. The
  theorem does not need `safe_vm_id` to be injective.
* `NoOrphanProcessHolds`, assuming `OneOwnerPerId`. The invariant `ProcInv`, inductive given
  the types and `ClaimInv`, gives a process that runs or waits to be reaped exactly one place:
  `Found` (it has one), `Filed` and `FiledOnce` (a map entry names such a process,
  under an id that is live or being published, and no other entry names it), `Owned`
  and `OwnedOnce` (the same for the child of a create, which is in no entry) and
  `Emptied` (a destroy past its kill has no entry left). Without uniqueness the
  publication step could overwrite an entry and lose a process, and killing one
  child could leave a dead process filed elsewhere.

**FirecrackerProvider_paths**, assuming `OneOwnerPerId` and `DistinctDirs` (`safe_vm_id` is
injective on the ids in use; the source's is not on all strings, see section 6)

* `OwnSocketHolds`. `SockInv` says that the socket at the path of an id was bound by the
  process filed under it, for an id that is live and not being destroyed and for one
  whose create is publishing, and that before it publishes a create's directory holds
  its child's socket or none yet; `HelperInv` that console and handler are filed with
  their process. The create half is what makes `WaitReady` wait for the right process.
* `StatusTracksGuestHolds`. `GuestInv` adds what a create leaves its guest doing when it
  publishes, so that `InsertRecord` files the matching status. It rests on `SockInv` (a
  request for an id reaches its process) and on `ProcInv` (no other id or create has it).
* `SnapshotsBackedHolds`. `DirInv` follows the state directory through a create (made
  before the spawn) and through a rename: between its two moves the files are under the
  new name and the old name is free, which is why the rollback finds its way back; an id
  whose rollback failed is `stranded` and exempt.

**FirecrackerProvider_resources**, under the same two assumptions

* `AttachmentsAccountedHolds`. `AttachInv` is a balance per id: when nobody has a call in
  flight for it, what is on the host is what its record lists and what the ghost
  `leaked` admits (`Rested`); while a call has it in hand, what the call holds is part of
  the sum (`InHand`). The jailer needs clauses of its own: it is attached last, so a
  create that holds it holds all it wanted, and the next create of the id adopts a
  chroot that was left behind, so only a composing create can meet a leaked one.
* `DestroyedIsCleanHolds`. A destroyed record stays destroyed until its id is used again, so
  what has to be shown is that no later step of another call puts something under its
  directory name (`SweptInv`, with `Spares` for the steps), and that a socket file left
  there is a reaped process's (`Doused`, which starts with the kill, before the
  directories are removed); the map entries are empty by `ProcInv`, `HelperInv` and
  `AttachInv`.

**RootfsRegistry_proofs**

* `TypesHold`, with `SlotInv` (a call past its clone has an image in its slot, and
  past `Separate` that image is not the template's inode).
* `TemplateUntouchedHolds`, `NeverShrinksHolds`: by cases over the actions, from
  `SlotInv` and from the comparison of lengths in `Extend`.
* `SizeStampBackedHolds`: `SizeInv` carries the length from `Grow` to
  `WriteSizeStamp` while other slots and the operator move.
* `StampTellsContentHolds`, assuming `HasMtime`: `CacheInv` says that the digest cached
  under the current modification time is that of the current template and that
  nothing is cached under a later one; `StampInv` says that a call about to copy holds
  the digest of the template unless the template was replaced since its lookup, and
  that a call about to stamp holds the digest of what it copied. Without `HasMtime`
  the first half fails, which is what `rootfs_no_mtime` shows.

**InMemoryProvider_proofs**

* `ContractImplemented`: each method is a `VmLifecycle` step; needs only the types.

**HostResources_proofs**

* `CidExclusiveHolds`: `cid[v]` is what a VM's Firecracker was told, and a failed attach
  keeps an entry in the table without one; the invariant says that a CID in use is its
  VM's entry, that entries lie in the range, and that no two entries are equal;
  the last is preserved because `find_free_cid` returns a candidate outside `Used`.
* `RefusedOnlyWhenFullHolds`: the probe visits each CID of the range, since every
  CID is `Candidate(v, k)` for some `k` below `Span`, and a finite set of `Span` CIDs
  within the range is the range.
* `AddressUsableHolds`: from the arithmetic of `host_offset` for any width, prefix and
  digest. The assumption `NetworkAssumption` includes that the powers of two are
  numbers, which the provers do not know of exponentiation.
* `JailServesSpecHolds`: a successful prepare determines every part whatever was there;
  `CallInv`, `Quiet` and `JailInv` carry that over the steps of the other primitives.

The module also proves, for the one below, three invariants about what calls share:

* `CallShape`: what a call has still to do is a list without repetitions, a compose has
  nothing on it that is attached, a VM being released has nothing attached, and a caller
  without a call is at its start. `CallCases` reduces every step to a move of one call
  (the next command, the next item, the error) or the beginning of one.
* `TableInv`: on FORWARD every jump precedes every ACCEPT, and no rule jumps to a chain
  that is not there. Insertion at 1, appending and deletion by number each preserve it
  (`InsertLine`, `AppendLine`, `RemovedLine`).
* `ListInv`: a caller with line numbers that nobody shifted has the numbers of jumps to
  the chain it is removing, and `gc_orphans` has only listed chains of VMs it was not
  told of. It is what limits the two races to what `struck` records.

They assume `FirewallAssumption`: finitely many VMs (`gc_orphans` lists their chains), and
that VM ids, ACCEPT rules and the marker of a listing are different values, as chain
names and rules are on the host.

**HostResources_composed**

* `ConfinedWhileComposedHolds`: `GuardInv` says that a VM that is not struck has its chain
  filled from the moment `install` looks for the jump, and chain and jump once the
  firewall is attached and no `install` or release is under way or has failed. `SparedByOthers` shows that no step but the VM's own, or one that strikes it,
  disturbs these; with `TableInv` the jump is ahead of every ACCEPT.
* `ConnectedWhileComposedHolds`: `NetInv` follows `ensure_host`: past the command that sets
  up the bridge, the NAT rule or an ACCEPT rule, that is in place, although the check
  and the addition are two commands. Nothing takes the first two away, and an ACCEPT
  rule goes only when it is struck (`StandsStays`).
* `ReleasedIsCleanHolds`: `ReleaseInv` says that what a release without an error has
  behind it is gone; it stays gone because no step of another call brings anything
  of a released VM back (`ReleasedSettles`), and a release passes on from a primitive
  only when nothing of it is left (`Undoes`).
* `TypeOKHolds`: from the invariants above.

All of these hold for any finite number of VMs, and any number of failures and calls.

**VmServices_proofs**

* `StoreKeepsAcked`: `StoreSpec => []AckedSurvives`, about the abstract store alone: a
  request acknowledged before another was issued was applied before it, and is applied
  only once, so it cannot overwrite it.
* `MetadataImplementsStore`: `Spec => StoreSpec`. The invariant `WireInv` follows a
  request number over the connections: at any time it occurs in at most one place (one
  line on one link, torn or whole, or in the hands of one daemon thread) as long as it
  is not applied, and in none afterwards but in replies; a daemon thread past its rename
  with `ok` set, and a reply with `ok` on its way, name an applied request. The
  first part is what makes `Rename` apply a request that was not applied; the second
  what makes an acknowledgement follow it. Lines are sequences, so the lemmas `AppendLine`
  and `TakeLine` say once what appending and taking a line does to their contents.
* `AckedSurvivesHolds`: from the two.
* `SignalsOwnChildHolds`, `OutcomeTruthfulHolds`: `ShutdownInv` says for each stage which
  signals have been sent, where the clock stands and whether the child is reaped.
* `PagesFaithfulHolds`: `PageInv` adds to the property that a page given back and still
  registered is one whose unregistering failed, and that an unregistered page holds
  zeroes or nothing; it is inductive given the types (`UffdTypes`). The work is
  in the arithmetic of a fault, that a page is copied from its place in the memory file
  and from within the file, for any page size and file and any regions that do not
  overlap at the addresses touched (`RegionAssumption`).
* `SnapshotIsLastHolds`: `MetricsInv` says that until the reader ends the FIFO holds the lines
  emitted and not yet taken, and that what is published belongs to the last document among those taken.
* `TailIsLatestHolds`: `ConsoleInv` says that the pipe holds the end of what was written and
  the ring the last lines kept before it, at any ring and pipe size.
* `FrameIsExactHolds`: `HttpInv`; the terminator found in a prefix of the stream is the first
  one of the whole, so the decision does not depend on how the stream was cut.
* `TypeOKHolds`: from the above, and `WireBounds` for the lines on the links.

The constants of the helpers have the assumptions one expects of them
(`ConsoleAssumption`, `MemoryAssumption`, `MetricsAssumption`, `PushAssumption`,
`HttpAssumption`): sizes are numbers, the page size and the unit are not zero.

**Only model-checked:** the liveness properties (`KillReturns`, `ThreadsEnd`,
`ChildNotBlocked`, `FaultServed`, `AnswerEndsCall`) and `NoCallStuck`, since
fairness and ENABLED are beyond the prover. Every other safety property of a passing run is
a theorem as well. The violated properties are refuted by TLC's traces.

## 5. Behaviour the models record without a run

Met while modelling; each is in the model as the code has it.

* **Deletion by line number** (`firewall.rs:276`). `uninstall` and `gc_orphans` list the FORWARD
  line numbers and then delete by number; an insertion or deletion by another caller in
  between makes them delete somebody else's rule (`outdated`, `struck`). A number past
  the end is an error that `is_not_found_error` need not recognise.
* **`gc_orphans` with an old list** (`firewall.rs:247`) removes the chain of a VM created since
  the ids were collected.
* **A failed second `install`** leaves the chain flushed or half filled under its jump.
* **`ip link add` of the bridge** (`network/host.rs:82`) does not tolerate "exists", unlike the other
  additions: the loser of two first creates fails. Two creates can also both find a
  rule missing and add it twice, which later checks do not notice; the duplicates are
  harmless to the properties and duplicates of a jump are all removed.
* **Address collisions.** The guest address and the TAP name are hashes of the id without
  a check for use. The text at `network/alloc.rs:61` counts 46 bits of the MAC, the code
  sets 40.
* **The jail's files are hard links where possible** (`jailer.rs:470`), so that changing the owner
  of the tree changes that of the source; drives with one base name are staged over each
  other.
* **Unlinking the socket does not end an `accept`** (`uffd.rs:154` says it does): a handler whose
  Firecracker never connects outlives its VM, hence the exception in `ThreadsEnd`.
* **A fault whose copy is refused is forgotten** (`uffd.rs:560`), with its vCPU (`lost`): a copy is
  refused with EAGAIN while a removal is unread.
* **A console or metrics line that is not UTF-8 ends the capture.**
* **`set_env` refuses some values**: `guest_metadata.rs:300` says that values are arbitrary,
  the daemon refuses a batch with a newline in one.
* **An unregister that fails is ignored** (`uffd.rs:502`): the guest then reads the snapshot's
  contents in a page its balloon had given back (`stuck`).
* **A destroy that cannot remove a directory succeeds** (`firecracker.rs:1652`), as does one
  whose jail could not be torn down; nobody removes it later.
* **A size stamp cut short blocks its slot** (`rootfs.rs:848`): every sized call fails to
  parse it until the slot is released.
* **A request that timed out may be applied later**, after a newer one from another
  connection; `AckedSurvives` says what remains true then.
* **The CONNECT handshake waits for `request_timeout`** (`guest_metadata.rs:189`), not within
  `connect_timeout`.
* **A child that exits as the grace period ends is reported as `Forced`**; the signal is
  still sent to an unreaped child.

## 6. Not modelled

* Two ids that map to one name: `safe_vm_id` in the adapter, the registry and the vsock
  manager, the halves of hashes in TAP and chain names. The models take the names to be
  distinct; the code relies on its callers for that.
* Errors of `waitpid` and `kill(2)` in `graceful_shutdown`: they do
  not occur for an unreaped child of one's own.
* Text: the CONNECT handshake of vsock, base64, JSON, HTTP header lines, the
  environment, CIDR parsing, the jailer's command line, MAC addresses, error messages.
  Where a text may be refused, the model has the refusal.
* Request bodies of the Firecracker API, MMDS, and the read-only queries.
* The other counters of a metrics document, taken by the same lookup.
* `stacks()`, and rewriting a template in place.
* Loss of the host itself: nothing is persisted but the registry's slots, whose crashes
  are modelled.
* `errors.rs` and the crate root have no state.
