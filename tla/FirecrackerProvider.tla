------------------------ MODULE FirecrackerProvider ------------------------
(***************************************************************************)
(* FirecrackerVmProvider (src/adapters/firecracker.rs): the in-memory maps *)
(* of the adapter, the directories and sockets it lays out on the host,    *)
(* the host resources its composer attaches, the Firecracker (FC)          *)
(* processes it spawns, and the callers that run the trait's operations    *)
(* concurrently.                                                           *)
(*                                                                         *)
(* start, stop and snapshot hold the state write lock from end to end and  *)
(* touch nothing another step reads halfway, so each is one action.        *)
(* create holds no lock across its body: it is a sequence of steps, each   *)
(* an action.  destroy and rename hold the write lock across two steps,    *)
(* between which the unlocked steps of a create may run.  An operation     *)
(* that returns an error before changing anything is a stuttering step.    *)
(***************************************************************************)
EXTENDS FiniteSets

CONSTANTS
    VmIds,           \* vm ids callers use
    Snaps,           \* snapshot ids
    Procs,           \* FC processes that can be spawned (bounds the creates)
    Callers,         \* threads calling the provider
    SafeIds,         \* directory names
    safe_vm_id,      \* VmIds -> SafeIds: the sanitiser that names directories
    Composers,       \* the composer configurations of the instance
    Backends,        \* the snapshot memory backends of the instance
    OneOwnerPerId,   \* TRUE: callers never have two calls in flight that claim one id
    None             \* the absent value

Primitives == {"network", "vsock", "firewall", "jailer"}

(* "interfaces": the specs bring network interfaces of their own.           *)
Features == Primitives \cup {"console", "interfaces"}

ASSUME SafeIdAssumption == safe_vm_id \in [VmIds -> SafeIds]
ASSUME ConfigAssumption ==
    /\ Composers \subseteq SUBSET Features
    /\ Backends \subseteq {"File", "Uffd"}
    /\ OneOwnerPerId \in BOOLEAN
ASSUME NoneAssumption ==
    /\ None \notin VmIds \cup Procs \cup Callers \cup SafeIds
    /\ None \notin {"Created", "Running", "Stopped", "Destroyed"}

VARIABLES
    composer,        \* features switched on; fixed at construction
    mem_backend,     \* MemBackend of the config; fixed at construction
    \* --- the maps of FirecrackerVmProvider
    status,          \* state[id].status, None when the id has no record
    snapshots,       \* state[id].snapshots
    processes,       \* id -> Child
    consoles,        \* id -> ConsoleCapture (named by the child it drains)
    composed,        \* id -> attachments recorded for release ({}: no entry)
    uffd_handlers,   \* id -> UffdHandler (named by the child it pages for)
    writer,          \* caller that holds the state write lock, or None
    \* --- the host
    host,            \* id -> primitives whose host resource exists under that id
    stateDirs,       \* names n for which state_dir/n exists
    snapFiles,       \* n -> snapshots with both files in state_dir/n/snapshots
    holders,         \* names n whose socket dir (or jail vm dir) exists
    sock,            \* n -> process that bound the api.sock in holder n, or None
    uffdSock,        \* n -> child whose handler bound the uffd.sock laid out for n
    \* --- the processes
    life,            \* Procs -> "unused" | "up" | "zombie" | "reaped"
    guest,           \* Procs -> what the VMM is doing with its guest
    pager,           \* Procs -> the page-fault handler thread started for it
    pagerSock,       \* Procs -> UffdHandler.socket_path, as a directory name
    pagerMem,        \* Procs -> its mem_file_path: directory name and snapshot
    \* --- the callers: the operation each has in flight
    pc,              \* Callers -> next step, "idle" between operations
    vm,              \* Callers -> the id operated on
    dst,             \* Callers -> the new id of a rename
    src,             \* Callers -> spec.restore_from of a create
    child,           \* Callers -> the process a create spawned
    held,            \* Callers -> the attachments a create made
    \* --- ghosts, read by properties only
    desync,          \* processes that executed a request whose reply was lost
    leaked,          \* id -> host resources no map entry accounts for any more
    undeleted,       \* id -> directories a destroy could not remove
    stranded         \* ids whose state dir a failed rename could not move back

config == <<composer, mem_backend>>
table  == <<status, snapshots>>
maps   == <<processes, consoles, composed, uffd_handlers>>
disk   == <<stateDirs, snapFiles, holders, sock, uffdSock>>
pagers == <<pager, pagerSock, pagerMem>>
args   == <<vm, dst, src>>
calls  == <<pc, args, child, held>>
ghosts == <<desync, leaked, undeleted, stranded>>
vars   == <<config, table, maps, writer, host, disk, life, guest, pagers, calls, ghosts>>

Live == {"Created", "Running", "Stopped"}

SnapshotRefs == [vm_id : VmIds, snapshot_id : Snaps, resume_immediately : BOOLEAN]

CreatePcs == {"compose", "spawn", "wait", "configure", "check", "load", "console",
              "process", "handler", "attachments", "record"}

Dir(id) == safe_vm_id[id]

(* Callers that claim id: a create of it, or a rename from or to it.        *)
Claims(c, id) == pc[c] # "idle" /\ id \in {vm[c], dst[c]}

Unclaimed(id) == OneOwnerPerId => \A c \in Callers : ~Claims(c, id)

(* The child is still local to create_vm_inner.                             *)
Owns(c, p) ==
    /\ child[c] = p
    /\ pc[c] \in {"wait", "configure", "check", "load", "console", "process"}

-----------------------------------------------------------------------------
Init ==
    /\ composer \in Composers /\ mem_backend \in Backends
    /\ status = [id \in VmIds |-> None]
    /\ snapshots = [id \in VmIds |-> {}]
    /\ processes = [id \in VmIds |-> None]
    /\ consoles = [id \in VmIds |-> None]
    /\ composed = [id \in VmIds |-> {}]
    /\ uffd_handlers = [id \in VmIds |-> None]
    /\ writer = None
    /\ host = [id \in VmIds |-> {}]
    /\ stateDirs = {} /\ holders = {}
    /\ snapFiles = [n \in SafeIds |-> {}]
    /\ sock = [n \in SafeIds |-> None]
    /\ uffdSock = [n \in SafeIds |-> None]
    /\ life = [p \in Procs |-> "unused"]
    /\ guest = [p \in Procs |-> "unbound"]
    /\ pager = [p \in Procs |-> "none"]
    /\ pagerSock = [p \in Procs |-> None]
    /\ pagerMem = [p \in Procs |-> None]
    /\ pc = [c \in Callers |-> "idle"]
    /\ vm = [c \in Callers |-> None]
    /\ dst = [c \in Callers |-> None]
    /\ src = [c \in Callers |-> None]
    /\ child = [c \in Callers |-> None]
    /\ held = [c \in Callers |-> {}]
    /\ desync = {}
    /\ leaked = [id \in VmIds |-> {}]
    /\ undeleted = [id \in VmIds |-> {}]
    /\ stranded = {}

-----------------------------------------------------------------------------
Begin(c, l, id, new, ref) ==
    /\ pc' = [pc EXCEPT ![c] = l]
    /\ vm' = [vm EXCEPT ![c] = id]
    /\ dst' = [dst EXCEPT ![c] = new]
    /\ src' = [src EXCEPT ![c] = ref]
    /\ UNCHANGED <<child, held>>

Goto(c, l) ==
    /\ pc' = [pc EXCEPT ![c] = l]
    /\ UNCHANGED <<args, child, held>>

Return(c) ==
    /\ pc' = [pc EXCEPT ![c] = "idle"]
    /\ vm' = [vm EXCEPT ![c] = None]
    /\ dst' = [dst EXCEPT ![c] = None]
    /\ src' = [src EXCEPT ![c] = None]
    /\ child' = [child EXCEPT ![c] = None]
    /\ held' = [held EXCEPT ![c] = {}]

(* create_vm_inner.  The id is checked under the read lock, which is then   *)
(* released: nothing reserves the id until InsertRecord.                    *)
CreateCheck(c, id, ref) ==
    /\ pc[c] = "idle"
    /\ writer = None
    /\ status[id] = None
    /\ Unclaimed(id)
    /\ Begin(c, "compose", id, None, ref)
    /\ UNCHANGED <<config, table, maps, writer, host, disk, life, guest, pagers, ghosts>>

(* compose_pre_spawn: the primitives this create attaches, in code order.   *)
(* A restore only composes the jailer; the firewall needs an interface, the *)
(* TAP just attached or one the spec brings.                                *)
Wanted(c) ==
    IF src[c] # None
    THEN composer \cap {"jailer"}
    ELSE {r \in composer \cap Primitives :
             r = "firewall" => composer \cap {"network", "interfaces"} # {}}

Earlier == [network  |-> {},
            vsock    |-> {"network"},
            firewall |-> {"network", "vsock"},
            jailer   |-> {"network", "vsock", "firewall"}]

IsNext(c, r) ==
    /\ r \in Wanted(c) \ held[c]
    /\ Earlier[r] \cap Wanted(c) \subseteq held[c]

(* One primitive succeeds.  Every attach is idempotent under the vm id, so  *)
(* it adopts what an earlier failed create left behind.                     *)
Attach(c, r) ==
    LET id == vm[c] IN
    /\ pc[c] = "compose"
    /\ IsNext(c, r)
    /\ host' = [host EXCEPT ![id] = @ \cup {r}]
    /\ leaked' = [leaked EXCEPT ![id] = @ \ {r}]
    /\ holders' = IF r = "jailer" THEN holders \cup {Dir(id)} ELSE holders
    /\ held' = [held EXCEPT ![c] = @ \cup {r}]
    /\ UNCHANGED <<config, table, maps, writer, stateDirs, snapFiles, sock, uffdSock,
                   life, guest, pagers, pc, args, child, desync, undeleted, stranded>>

(* One primitive fails, possibly halfway: `?` returns without releasing     *)
(* what the earlier ones attached.                                          *)
ComposeFail(c, r) ==
    LET id == vm[c] IN
    /\ pc[c] = "compose"
    /\ IsNext(c, r)
    /\ \E partial \in SUBSET {r} :
          /\ host' = [host EXCEPT ![id] = @ \cup partial]
          /\ leaked' = [leaked EXCEPT ![id] = @ \cup held[c] \cup partial]
          /\ holders' = IF "jailer" \in partial THEN holders \cup {Dir(id)} ELSE holders
    /\ Return(c)
    /\ UNCHANGED <<config, table, maps, writer, stateDirs, snapFiles, sock, uffdSock,
                   life, guest, pagers, desync, undeleted, stranded>>

(* Variant: the attachments are forgotten, not released.                    *)
ReleaseNothing(id, rs, kept) == UNCHANGED <<host, leaked>>

(* compose_release: every step is best effort and its error is dropped, so  *)
(* any subset of the host resources is kept.                                *)
Release(id, rs, kept) ==
    /\ host' = [host EXCEPT ![id] = @ \ (rs \ kept)]
    /\ leaked' = [leaked EXCEPT ![id] = @ \cup kept]

(* ... and the jailer's teardown removes the vm dir that holds the socket;  *)
(* when it fails the vm dir stays, with or without the socket.              *)
Teardown(n, rs, kept) ==
    \/ /\ "jailer" \in rs \ kept
       /\ holders' = holders \ {n}
       /\ sock' = [sock EXCEPT ![n] = None]
    \/ /\ "jailer" \in kept
       /\ sock' \in {sock, [sock EXCEPT ![n] = None]}
       /\ UNCHANGED holders
    \/ "jailer" \notin rs /\ UNCHANGED <<holders, sock>>

MakeStateDir(c) ==
    /\ pc[c] = "compose"
    /\ held[c] = Wanted(c)
    /\ stateDirs' = stateDirs \cup {Dir(vm[c])}
    /\ Goto(c, "spawn")
    /\ UNCHANGED <<config, table, maps, writer, host, snapFiles, holders, sock, uffdSock,
                   life, guest, pagers, ghosts>>

(* Making the state dir, or the spawn, fails: release and return.  The      *)
(* spawn may fail after it made the holder and unlinked a stale socket.     *)
SpawnFail(c) ==
    LET id == vm[c]  n == Dir(id) IN
    /\ \/ pc[c] = "spawn"
       \/ pc[c] = "compose" /\ held[c] = Wanted(c)
    /\ \E kept \in SUBSET held[c] :
          /\ Release(id, held[c], kept)
          /\ \/ Teardown(n, held[c], kept)
             \/ /\ pc[c] = "spawn" /\ "jailer" \notin held[c]
                /\ holders' = holders \cup {n}
                /\ sock' = [sock EXCEPT ![n] = None]
    /\ Return(c)
    /\ UNCHANGED <<config, table, maps, writer, stateDirs, snapFiles, uffdSock,
                   life, guest, pagers, desync, undeleted, stranded>>

(* spawn_firecracker_for_compose: make the holder, unlink a stale socket,   *)
(* start the process.                                                       *)
Spawn(c, p) ==
    LET n == Dir(vm[c]) IN
    /\ pc[c] = "spawn"
    /\ life[p] = "unused"
    /\ life' = [life EXCEPT ![p] = "up"]
    /\ holders' = holders \cup {n}
    /\ sock' = [sock EXCEPT ![n] = None]
    /\ pc' = [pc EXCEPT ![c] = "wait"]
    /\ child' = [child EXCEPT ![c] = p]
    /\ UNCHANGED <<config, table, maps, writer, host, stateDirs, snapFiles, uffdSock,
                   guest, pagers, args, held, ghosts>>

(* The FC process binds its API socket.  bind(2) fails on an existing file. *)
Bind(c) ==
    LET n == Dir(vm[c])  p == child[c] IN
    /\ Owns(c, p)
    /\ life[p] = "up" /\ guest[p] = "unbound"
    /\ n \in holders /\ sock[n] = None
    /\ sock' = [sock EXCEPT ![n] = p]
    /\ guest' = [guest EXCEPT ![p] = "blank"]
    /\ UNCHANGED <<config, table, maps, writer, host, stateDirs, snapFiles, holders,
                   uffdSock, life, pagers, calls, ghosts>>

(* A request on the socket in holder n reaches process q.                   *)
Reaches(n, q) == sock[n] = q /\ life[q] = "up"

(* wait_for_socket_ready: GET / answers.                                    *)
WaitReady(c) ==
    /\ pc[c] = "wait"
    /\ \E q \in Procs : Reaches(Dir(vm[c]), q)
    /\ Goto(c, IF src[c] = None THEN "configure" ELSE "check")
    /\ UNCHANGED <<config, table, maps, writer, host, disk, life, guest, pagers, ghosts>>

(* configure_vm: refuses a vsock device under the jailer before any request,*)
(* then PUTs the boot configuration, which FC accepts until the guest runs. *)
Configure(c) ==
    /\ pc[c] = "configure"
    /\ ~({"jailer", "vsock"} \subseteq held[c])
    /\ \E q \in Procs :
          /\ Reaches(Dir(vm[c]), q)
          /\ guest[q] \in {"blank", "configured"}
          /\ guest' = [guest EXCEPT ![q] = "configured"]
    /\ Goto(c, "console")
    /\ UNCHANGED <<config, table, maps, writer, host, disk, life, pagers, ghosts>>

(* load_snapshot, first half: both durable files must exist; the jailed     *)
(* restore hard-links them into the chroot, and the Uffd backend starts a   *)
(* handler that keeps the path of the durable memory file.                  *)
Staged(c) == "jailer" \in held[c]

MemPath(ref) == [dir |-> Dir(ref.vm_id), snap |-> ref.snapshot_id]

OnDisk(path) == path.snap \in snapFiles[path.dir]

LoadCheck(c) ==
    LET n == Dir(vm[c])  p == child[c] IN
    /\ pc[c] = "check"
    /\ OnDisk(MemPath(src[c]))
    /\ IF mem_backend = "Uffd"
       THEN /\ n \in (IF Staged(c) THEN holders ELSE stateDirs)
            /\ uffdSock' = [uffdSock EXCEPT ![n] = p]
            /\ pager' = [pager EXCEPT ![p] = "listening"]
            /\ pagerSock' = [pagerSock EXCEPT ![p] = n]
            /\ pagerMem' = [pagerMem EXCEPT ![p] = MemPath(src[c])]
       ELSE UNCHANGED <<uffdSock, pagers>>
    /\ Goto(c, "load")
    /\ UNCHANGED <<config, table, maps, writer, host, stateDirs, snapFiles, holders, sock,
                   life, guest, ghosts>>

(* ... second half: PUT /snapshot/load.  An unjailed FC opens the durable   *)
(* files now; under Uffd it connects to the handler's socket instead of     *)
(* opening the memory file, and does not wait for the handler.              *)
LoadRequest(c) ==
    LET n == Dir(vm[c]) IN
    /\ pc[c] = "load"
    /\ ~Staged(c) => OnDisk(MemPath(src[c]))
    /\ \E q \in Procs :
          /\ Reaches(n, q)
          /\ guest[q] = "blank"
          /\ guest' = [guest EXCEPT ![q] = IF src[c].resume_immediately THEN "running" ELSE "paused"]
    /\ IF mem_backend = "Uffd"
       THEN \E h \in Procs :
              /\ uffdSock[n] = h /\ pager[h] = "listening"
              /\ pager' = [pager EXCEPT ![h] = "connected"]
       ELSE UNCHANGED pager
    /\ Goto(c, "console")
    /\ UNCHANGED <<config, table, maps, writer, host, disk, life, pagerSock, pagerMem, ghosts>>

(* run_handler, after the handshake: opens the memory file by its path.     *)
PagerOpen(p) ==
    /\ pager[p] = "connected"
    /\ pager' = [pager EXCEPT ![p] = IF OnDisk(pagerMem[p]) THEN "serving" ELSE "dead"]
    /\ UNCHANGED <<config, table, maps, writer, host, disk, life, guest, pagerSock, pagerMem,
                   calls, ghosts>>

(* UffdHandler::shutdown, run by Drop: unlink the socket path given at      *)
(* start, whoever owns the file there now.                                  *)
DropPager(p) ==
    /\ uffdSock' = IF pagerSock[p] = None THEN uffdSock
                   ELSE [uffdSock EXCEPT ![pagerSock[p]] = None]
    /\ pager' = [pager EXCEPT ![p] = "none"]
    /\ pagerSock' = [pagerSock EXCEPT ![p] = None]
    /\ pagerMem' = [pagerMem EXCEPT ![p] = None]

(* Variant: the child is dropped without kill and wait.                     *)
DropChild(p) == UNCHANGED <<life, guest, desync>>

(* Child::kill and Child::wait, or graceful_shutdown: both reap the child.  *)
KillAndReap(p) ==
    /\ life' = [life EXCEPT ![p] = "reaped"]
    /\ guest' = [guest EXCEPT ![p] = "gone"]
    /\ desync' = desync \ {p}

(* Variant: the wait for the socket has no deadline.                        *)
FallibleOnceReady == {"configure", "check", "load"}

(* Where create_vm_inner can fail with a child running.                     *)
Fallible == {"wait", "configure", "check", "load"}

(* The wait timed out, a request failed or was refused: the child is killed *)
(* and reaped, the attachments released.  The state dir stays, and so does  *)
(* an unjailed socket dir with the dead socket in it.                       *)
CreateFail(c) ==
    LET id == vm[c]  p == child[c] IN
    /\ pc[c] \in Fallible
    /\ KillAndReap(p)
    /\ DropPager(p)
    /\ \E kept \in SUBSET held[c] :
          Release(id, held[c], kept) /\ Teardown(Dir(id), held[c], kept)
    /\ Return(c)
    /\ UNCHANGED <<config, table, maps, writer, stateDirs, snapFiles, undeleted, stranded>>

(* The configured child is published map by map, each under its own lock:   *)
(* first its console capture ...                                            *)
PublishConsole(c) ==
    /\ pc[c] = "console"
    /\ consoles' = IF "console" \in composer
                   THEN [consoles EXCEPT ![vm[c]] = child[c]] ELSE consoles
    /\ Goto(c, "process")
    /\ UNCHANGED <<config, table, processes, composed, uffd_handlers, writer, host, disk,
                   life, guest, pagers, ghosts>>

(* ... then the child itself ...                                            *)
PublishProcess(c) ==
    /\ pc[c] = "process"
    /\ processes' = [processes EXCEPT ![vm[c]] = child[c]]
    /\ Goto(c, "handler")
    /\ UNCHANGED <<config, table, consoles, composed, uffd_handlers, writer, host, disk,
                   life, guest, pagers, ghosts>>

(* ... then the handler that pages for it ...                               *)
PublishHandler(c) ==
    /\ pc[c] = "handler"
    /\ uffd_handlers' = IF pager[child[c]] # "none"
                        THEN [uffd_handlers EXCEPT ![vm[c]] = child[c]] ELSE uffd_handlers
    /\ Goto(c, "attachments")
    /\ UNCHANGED <<config, table, processes, consoles, composed, writer, host, disk,
                   life, guest, pagers, ghosts>>

(* ... and what it composed.                                                *)
(* rename_vm keeps the composed lock from its checks to its last re-key.    *)
PublishAttachments(c) ==
    /\ pc[c] = "attachments"
    /\ held[c] # {} => \A d \in Callers : pc[d] # "rename"
    /\ composed' = IF held[c] # {}
                   THEN [composed EXCEPT ![vm[c]] = held[c]] ELSE composed
    /\ pc' = [pc EXCEPT ![c] = "record"]
    /\ held' = [held EXCEPT ![c] = {}]
    /\ UNCHANGED <<config, table, processes, consoles, uffd_handlers, writer, host, disk,
                   life, guest, pagers, args, child, ghosts>>

(* Variant: resume_immediately is ignored.                                  *)
AlwaysPaused(c) == IF src[c] = None THEN "Created" ELSE "Stopped"

(* Variant: the state is recorded under the name FC reports for it.         *)
FcStateName(c) == IF src[c] = None THEN "Not started" ELSE "Running"

InitialStatus(c) ==
    CASE src[c] = None -> "Created"
      [] src[c] # None /\ src[c].resume_immediately -> "Running"
      [] OTHER -> "Stopped"

InsertRecord(c) ==
    LET id == vm[c] IN
    /\ pc[c] = "record"
    /\ writer = None
    /\ status' = [status EXCEPT ![id] = InitialStatus(c)]
    /\ snapshots' = [snapshots EXCEPT ![id] = {}]
    /\ Return(c)
    /\ UNCHANGED <<config, maps, writer, host, disk, life, guest, pagers, ghosts>>

-----------------------------------------------------------------------------
(* What FC does with a lifecycle request; a request it rejects, or that     *)
(* never reaches it, fails the operation before anything changed.           *)
Accepts(q, request) ==
    CASE request = "start"    -> guest[q] = "configured"
      [] request = "resume"   -> guest[q] \in {"paused", "running"}
      [] request = "pause"    -> guest[q] \in {"paused", "running"}
      [] request = "snapshot" -> guest[q] = "paused"

(* FC executes the request of an operation on id and the guest becomes g.   *)
(* Without a reply (timeout, broken connection) the operation returns an    *)
(* error and the record keeps its status.                                   *)
Execute(id, request, g, replied, st) ==
    \E q \in Procs :
        /\ Reaches(Dir(id), q)
        /\ Accepts(q, request)
        /\ guest' = [guest EXCEPT ![q] = g]
        /\ status' = IF replied THEN [status EXCEPT ![id] = st] ELSE status
        /\ desync' = IF replied THEN desync \ {q} ELSE desync \cup {q}

StartVm(id, replied) ==
    /\ writer = None
    /\ \/ status[id] = "Created" /\ Execute(id, "start", "running", replied, "Running")
       \/ status[id] = "Stopped" /\ Execute(id, "resume", "running", replied, "Running")
    /\ UNCHANGED <<config, snapshots, maps, writer, host, disk, life, pagers, calls, leaked,
                   undeleted, stranded>>

StopVm(id, replied) ==
    /\ writer = None
    /\ status[id] = "Running"
    /\ Execute(id, "pause", "paused", replied, "Stopped")
    /\ UNCHANGED <<config, snapshots, maps, writer, host, disk, life, pagers, calls, leaked,
                   undeleted, stranded>>

(* Variant: the name is not compared with the recorded ones.                *)
SnapshotOfLive(id, s) == writer = None /\ status[id] \in Live

(* What snapshot_vm checks before it asks FC.                               *)
MaySnapshot(id, s) ==
    /\ writer = None
    /\ status[id] \in Live
    /\ s \notin snapshots[id]

(* snapshot_vm: FC writes the pair (a jailed one in its chroot, from which  *)
(* it is moved to the durable directory), then the name is recorded.        *)
SnapshotVm(id, s) ==
    /\ MaySnapshot(id, s)
    /\ \E q \in Procs : Reaches(Dir(id), q) /\ Accepts(q, "snapshot")
    /\ stateDirs' = stateDirs \cup {Dir(id)}
    /\ snapFiles' = [snapFiles EXCEPT ![Dir(id)] = @ \cup {s}]
    /\ snapshots' = [snapshots EXCEPT ![id] = @ \cup {s}]
    /\ UNCHANGED <<config, status, maps, writer, host, holders, sock, uffdSock,
                   life, guest, pagers, calls, ghosts>>

(* The request fails: the durable pair is removed.  When only the reply was *)
(* late, an unjailed FC writes the files after that removal.                *)
SnapshotFail(id, s) ==
    LET n == Dir(id) IN
    /\ MaySnapshot(id, s)
    /\ stateDirs' = stateDirs \cup {n}
    /\ \/ snapFiles' = [snapFiles EXCEPT ![n] = @ \ {s}]
       \/ /\ "jailer" \notin composed[id]
          /\ \E q \in Procs : Reaches(n, q) /\ Accepts(q, "snapshot")
          /\ snapFiles' = [snapFiles EXCEPT ![n] = @ \cup {s}]
    /\ UNCHANGED <<config, table, maps, writer, host, holders, sock, uffdSock,
                   life, guest, pagers, calls, ghosts>>

(* destroy_vm, first half: kill_process empties the maps of the id, kills   *)
(* and reaps the child, drops the handler and releases the attachments.     *)
DestroyKill(c, id) ==
    LET p == processes[id]  h == uffd_handlers[id] IN
    /\ pc[c] = "idle"
    /\ writer = None
    /\ status[id] \in Live
    /\ processes' = [processes EXCEPT ![id] = None]
    /\ IF p # None THEN KillAndReap(p) ELSE UNCHANGED <<life, guest, desync>>
    /\ consoles' = [consoles EXCEPT ![id] = None]
    /\ uffd_handlers' = [uffd_handlers EXCEPT ![id] = None]
    /\ IF h # None THEN DropPager(h) ELSE UNCHANGED <<uffdSock, pagers>>
    /\ composed' = [composed EXCEPT ![id] = {}]
    /\ \E kept \in SUBSET composed[id] :
          Release(id, composed[id], kept) /\ Teardown(Dir(id), composed[id], kept)
    /\ writer' = c
    /\ Begin(c, "destroy", id, None, None)
    /\ UNCHANGED <<config, table, stateDirs, snapFiles, undeleted, stranded>>

(* Variant: the state dir, snapshots included, is left behind.              *)
RemoveSocketDir(id) ==
    LET n == Dir(id) IN
    /\ holders' = holders \ {n}
    /\ sock' = [sock EXCEPT ![n] = None]
    /\ UNCHANGED <<stateDirs, snapFiles, uffdSock, undeleted>>

(* remove_file and remove_dir_all, twice: their errors are dropped, so what *)
(* exists may be left, whole or in part.  Of a jail still there only the    *)
(* chroot, the directory of the socket, is removed: its vm dir stays.       *)
RemoveDirs(id) ==
    LET n == Dir(id) IN
    \E left \in SUBSET {"state", "holder"} :
        /\ "state" \in left => n \in stateDirs
        /\ "holder" \in left => n \in holders
        /\ "jailer" \in host[id] => "holder" \in left
        /\ holders' = IF "holder" \in left THEN holders ELSE holders \ {n}
        /\ \/ sock' = [sock EXCEPT ![n] = None]
           \/ "holder" \in left /\ UNCHANGED sock
        /\ stateDirs' = IF "state" \in left THEN stateDirs ELSE stateDirs \ {n}
        /\ \E files \in SUBSET snapFiles[n] :
              /\ "state" \notin left => files = {}
              /\ snapFiles' = [snapFiles EXCEPT ![n] = files]
        /\ \/ uffdSock' = [uffdSock EXCEPT ![n] = None]
           \/ left # {} /\ UNCHANGED uffdSock
        /\ undeleted' = [undeleted EXCEPT ![id] = left]

(* ... second half: remove the socket dir and the state dir with every      *)
(* snapshot in it, then mark the record, whether or not they are gone; the  *)
(* record itself is never removed.                                          *)
DestroyRemove(c) ==
    /\ pc[c] = "destroy"
    /\ RemoveDirs(vm[c])
    /\ status' = [status EXCEPT ![vm[c]] = "Destroyed"]
    /\ writer' = None
    /\ Return(c)
    /\ UNCHANGED <<config, snapshots, maps, host, life, guest, pagers, desync, leaked, stranded>>

(* fs::rename of a directory succeeds when the target is absent or an empty *)
(* directory.                                                               *)
StateDirFree(n, jailed) ==
    n \in stateDirs => snapFiles[n] = {} /\ (jailed \/ uffdSock[n] = None)

HolderFree(n, jailed) == n \in holders => ~jailed /\ sock[n] = None

(* Variant: the old key keeps its entry.                                    *)
CopyEntry(f, from, to, empty) == [f EXCEPT ![to] = f[from]]

MoveEntry(f, from, to, empty) == [f EXCEPT ![to] = f[from], ![from] = empty]

(* Variant: the directory goes away instead of moving.                      *)
DropName(S, from, to) == S \ {from}

MoveName(S, from, to) == (S \ {from}) \cup {to}

(* rename_vm: refused when anything but a jail is composed; then the state  *)
(* dir moves, with the uffd.sock an unjailed VM keeps in it.                *)
RenameStateDir(c, old, new) ==
    LET from == Dir(old)  to == Dir(new)  jailed == "jailer" \in composed[old] IN
    /\ pc[c] = "idle"
    /\ writer = None
    /\ old # new
    /\ status[new] = None /\ status[old] \in Live
    /\ Unclaimed(old) /\ Unclaimed(new)
    /\ composed[old] \subseteq {"jailer"}
    /\ from \in stateDirs /\ StateDirFree(to, jailed)
    /\ stateDirs' = MoveName(stateDirs, from, to)
    /\ snapFiles' = MoveEntry(snapFiles, from, to, {})
    /\ uffdSock' = IF jailed THEN uffdSock ELSE MoveEntry(uffdSock, from, to, None)
    /\ writer' = c
    /\ Begin(c, "rename", old, new, None)
    /\ UNCHANGED <<config, table, maps, host, holders, sock, life, guest, pagers, ghosts>>

(* The holder moves too: every map is re-keyed under the new id.            *)
RenameHolder(c) ==
    LET old == vm[c]  new == dst[c]
        from == Dir(old)  to == Dir(new)  jailed == "jailer" \in composed[old] IN
    /\ pc[c] = "rename"
    /\ from \in holders /\ HolderFree(to, jailed)
    /\ holders' = MoveName(holders, from, to)
    /\ sock' = MoveEntry(sock, from, to, None)
    /\ uffdSock' = IF jailed THEN MoveEntry(uffdSock, from, to, None) ELSE uffdSock
    /\ host' = IF jailed THEN [host EXCEPT ![new] = @ \cup {"jailer"}, ![old] = @ \ {"jailer"}]
                        ELSE host
    /\ status' = MoveEntry(status, old, new, None)
    /\ snapshots' = MoveEntry(snapshots, old, new, {})
    /\ composed' = IF composed[old] # {} THEN MoveEntry(composed, old, new, {}) ELSE composed
    /\ processes' = IF processes[old] # None
                    THEN MoveEntry(processes, old, new, None) ELSE processes
    /\ consoles' = IF consoles[old] # None
                   THEN MoveEntry(consoles, old, new, None) ELSE consoles
    /\ uffd_handlers' = IF uffd_handlers[old] # None
                        THEN MoveEntry(uffd_handlers, old, new, None) ELSE uffd_handlers
    /\ stranded' = IF old \in stranded THEN MoveName(stranded, old, new) ELSE stranded
    /\ writer' = None
    /\ Return(c)
    /\ UNCHANGED <<config, stateDirs, snapFiles, life, guest, pagers, desync, leaked, undeleted>>

(* The holder cannot be moved: the state dir is moved back, which may fail  *)
(* too; the VM then stays under its old id without its state dir.           *)
RenameRollback(c) ==
    LET from == Dir(dst[c])  to == Dir(vm[c])
        jailed == "jailer" \in composed[vm[c]] IN
    /\ pc[c] = "rename"
    /\ \/ /\ from \in stateDirs /\ StateDirFree(to, jailed)
          /\ stateDirs' = MoveName(stateDirs, from, to)
          /\ snapFiles' = MoveEntry(snapFiles, from, to, {})
          /\ uffdSock' = IF jailed THEN uffdSock ELSE MoveEntry(uffdSock, from, to, None)
          /\ UNCHANGED stranded
       \/ /\ stranded' = stranded \cup {vm[c]}
          /\ UNCHANGED <<stateDirs, snapFiles, uffdSock>>
    /\ writer' = None
    /\ Return(c)
    /\ UNCHANGED <<config, table, maps, host, holders, sock, life, guest, pagers, desync,
                   leaked, undeleted>>

-----------------------------------------------------------------------------
(* A process exits by itself: guest shutdown, VMM crash, failed bind.  Its  *)
(* socket file stays, its connection to the handler closes.                 *)
ProcessExit(p) ==
    /\ life[p] = "up"
    /\ life' = [life EXCEPT ![p] = "zombie"]
    /\ guest' = [guest EXCEPT ![p] = "gone"]
    /\ desync' = desync \ {p}
    /\ pager' = [pager EXCEPT ![p] = IF @ \in {"connected", "serving"} THEN "dead" ELSE @]
    /\ UNCHANGED <<config, table, maps, writer, host, disk, pagerSock, pagerMem, calls,
                   leaked, undeleted, stranded>>

-----------------------------------------------------------------------------
CreateBegin(c) ==
    \E id \in VmIds, ref \in SnapshotRefs \cup {None} : CreateCheck(c, id, ref)

(* The steps of a call in flight; every API call and wait has a timeout.    *)
CallStep(c) ==
    \/ \E r \in Primitives : Attach(c, r) \/ ComposeFail(c, r)
    \/ MakeStateDir(c) \/ SpawnFail(c)
    \/ \E p \in Procs : Spawn(c, p)
    \/ WaitReady(c) \/ Configure(c) \/ LoadCheck(c) \/ LoadRequest(c) \/ CreateFail(c)
    \/ PublishConsole(c) \/ PublishProcess(c) \/ PublishHandler(c)
    \/ PublishAttachments(c) \/ InsertRecord(c)
    \/ DestroyRemove(c) \/ RenameHolder(c) \/ RenameRollback(c)

CallBegin(c) ==
    \/ CreateBegin(c)
    \/ \E id \in VmIds : DestroyKill(c, id)
    \/ \E old, new \in VmIds : RenameStateDir(c, old, new)

Next ==
    \/ \E c \in Callers : CallBegin(c) \/ CallStep(c) \/ Bind(c)
    \/ \E id \in VmIds, replied \in BOOLEAN : StartVm(id, replied) \/ StopVm(id, replied)
    \/ \E id \in VmIds, s \in Snaps : SnapshotVm(id, s) \/ SnapshotFail(id, s)
    \/ \E p \in Procs : PagerOpen(p) \/ ProcessExit(p)

Spec == Init /\ [][Next]_vars

-----------------------------------------------------------------------------
(* Types.                                                                   *)
(* The maps, the host and the callers keep the shapes the code gives them.  *)
TypeOK ==
    /\ composer \in SUBSET Features
    /\ mem_backend \in {"File", "Uffd"}
    /\ status \in [VmIds -> Live \cup {"Destroyed", None}]
    /\ snapshots \in [VmIds -> SUBSET Snaps]
    /\ processes \in [VmIds -> Procs \cup {None}]
    /\ consoles \in [VmIds -> Procs \cup {None}]
    /\ composed \in [VmIds -> SUBSET Primitives]
    /\ uffd_handlers \in [VmIds -> Procs \cup {None}]
    /\ writer \in Callers \cup {None}
    /\ host \in [VmIds -> SUBSET Primitives]
    /\ stateDirs \in SUBSET SafeIds /\ holders \in SUBSET SafeIds
    /\ snapFiles \in [SafeIds -> SUBSET Snaps]
    /\ sock \in [SafeIds -> Procs \cup {None}]
    /\ uffdSock \in [SafeIds -> Procs \cup {None}]
    /\ life \in [Procs -> {"unused", "up", "zombie", "reaped"}]
    /\ guest \in [Procs -> {"unbound", "blank", "configured", "running", "paused", "gone"}]
    /\ pager \in [Procs -> {"none", "listening", "connected", "serving", "dead"}]
    /\ pagerSock \in [Procs -> SafeIds \cup {None}]
    /\ pagerMem \in [Procs -> [dir : SafeIds, snap : Snaps] \cup {None}]
    /\ pc \in [Callers -> CreatePcs \cup {"idle", "destroy", "rename"}]
    /\ vm \in [Callers -> VmIds \cup {None}]
    /\ dst \in [Callers -> VmIds \cup {None}]
    /\ src \in [Callers -> SnapshotRefs \cup {None}]
    /\ child \in [Callers -> Procs \cup {None}]
    /\ held \in [Callers -> SUBSET Primitives]
    /\ desync \in SUBSET Procs
    /\ leaked \in [VmIds -> SUBSET Primitives]
    /\ undeleted \in [VmIds -> SUBSET {"state", "holder"}]
    /\ stranded \in SUBSET VmIds

-----------------------------------------------------------------------------
(* Safety.                                                                  *)

Publishing(c, id) == vm[c] = id /\ pc[c] \in {"handler", "attachments", "record"}

(* No FC process outlives the adapter's knowledge of it: a process that is  *)
(* running or waits to be reaped is the child of a create in flight, or is  *)
(* in the processes map under an id that destroy_vm accepts or is about to. *)
NoOrphanProcess ==
    \A p \in Procs : life[p] \in {"up", "zombie"} =>
        \/ \E c \in Callers : Owns(c, p)
        \/ \E id \in VmIds :
              /\ processes[id] = p
              /\ status[id] \in Live \/ \E c \in Callers : Publishing(c, id)

InTransit(id) == \E c \in Callers : pc[c] \in {"destroy", "rename"} /\ vm[c] = id

(* Requests for a VM reach its own process: the socket at the path the      *)
(* record names was bound by the child in the processes map, and the        *)
(* console capture and page-fault handler filed under the id are the ones   *)
(* of that child - through creates, failed creates, renames and destroys.   *)
OwnSocket ==
    \A id \in VmIds : status[id] \in Live /\ ~InTransit(id) =>
        /\ processes[id] # None
        /\ Dir(id) \in holders /\ sock[Dir(id)] = processes[id]
        /\ consoles[id] = IF "console" \in composer THEN processes[id] ELSE None
        /\ uffd_handlers[id] \in {None, processes[id]}

(* A destroyed VM is gone from every map, and what is left of it on the     *)
(* host is what an error that destroy_vm or compose_release dropped left    *)
(* there: a host resource whose release failed, a jail whose teardown       *)
(* failed, a directory that could not be removed.  A socket file left over  *)
(* is that of a reaped process: no request can reach it.                    *)
DestroyedIsClean ==
    \A id \in VmIds : status[id] = "Destroyed" => LET n == Dir(id) IN
        /\ processes[id] = None /\ consoles[id] = None /\ uffd_handlers[id] = None
        /\ composed[id] = {} /\ host[id] \subseteq leaked[id]
        /\ n \in stateDirs => "state" \in undeleted[id]
        /\ n \in holders => "holder" \in undeleted[id]
        /\ snapFiles[n] # {} => n \in stateDirs
        /\ sock[n] # None => n \in holders /\ life[sock[n]] = "reaped"

(* Every snapshot a live record lists has its two files in the directory    *)
(* the record addresses, also after failed snapshots and renames, unless    *)
(* the state dir could not be moved back by a rename that failed.           *)
SnapshotsBacked ==
    /\ \A id \in VmIds \ stranded : status[id] \in Live /\ ~InTransit(id) =>
           Dir(id) \in stateDirs /\ snapshots[id] \subseteq snapFiles[Dir(id)]
    /\ \A c \in Callers : pc[c] = "rename" /\ vm[c] \notin stranded =>
           snapshots[vm[c]] \subseteq snapFiles[Dir(dst[c])]

(* Every host resource is accounted for: recorded for release, held by a    *)
(* create in flight, or left by a compose step that failed or a release     *)
(* whose error was dropped.                                                 *)
AttachmentsAccounted ==
    \A id \in VmIds :
        host[id] = composed[id] \cup leaked[id]
                   \cup UNION {held[c] : c \in {d \in Callers : vm[d] = id}}

Agree == {<<"Created", "configured">>, <<"Running", "running">>, <<"Stopped", "paused">>}

OneAhead == {<<"Created", "running">>, <<"Running", "paused">>, <<"Stopped", "running">>}

(* The recorded status is what the guest is doing, or, after a request      *)
(* whose reply was lost, exactly that one request behind it.                *)
StatusTracksGuest ==
    \A id \in VmIds : LET p == processes[id] IN
        status[id] \in Live /\ ~InTransit(id) /\ p # None /\ life[p] = "up" =>
            <<status[id], guest[p]>> \in Agree \cup (IF p \in desync THEN OneAhead ELSE {})

Contract == INSTANCE VmLifecycle

(* Whatever the callers interleave, the table of VMs changes as the trait   *)
(* promises: the adapter implements VmLifecycle.                            *)
ImplementsContract == Contract!LifecycleSpec

(* create_vm "Fails if `vm_id` is already in use": completing a create      *)
(* never replaces the record of another VM.                                 *)
CreateFailsIfInUse ==
    [][\A c \in Callers : pc[c] = "record" /\ pc'[c] = "idle"
                              => status[vm[c]] = None]_vars

(* "The UFFD handler must outlive every page fault the restored guest will  *)
(* raise": while a restored VM's process runs, its handler is not dead.     *)
PagedWhileUp ==
    \A id \in VmIds : LET p == uffd_handlers[id] IN
        status[id] \in Live /\ p # None /\ life[p] = "up" => pager[p] # "dead"

(* "Moves every piece of per-VM state the adapter lays out by id": the      *)
(* handler filed under a VM unlinks that VM's own socket path.              *)
HandlerFollowsRename ==
    \A id \in VmIds : uffd_handlers[id] # None => pagerSock[uffd_handlers[id]] = Dir(id)

(* A call waits for nothing but the locks: whatever has happened to its     *)
(* child, its directories and its sockets, a call in flight has a next      *)
(* step, or the holder of the lock it waits for has one.                    *)
NoCallStuck ==
    \A c \in Callers : pc[c] # "idle" =>
        \/ ENABLED CallStep(c)
        \/ writer # None /\ ENABLED CallStep(writer)
=============================================================================
