---------------------------- MODULE UffdHandler ----------------------------
(***************************************************************************)
(* UffdHandler (src/uffd.rs): the thread that serves the page faults of a  *)
(* restored guest from the snapshot's memory file.  The kernel's side of   *)
(* userfaultfd is external: a fault is queued and its vCPU waits, a        *)
(* balloon's removal is announced and waits to be read, and while it does  *)
(* a copy is refused.  Addresses are small; a page has PageSize of them.   *)
(***************************************************************************)
EXTENDS GracefulShutdown, FiniteSets

CONSTANTS
    VCpus,           \* threads of the guest
    Addrs,           \* vcpu -> addresses it touches
    Ballooned,       \* pages the balloon may give back
    PageSize,        \* PAGE_SIZE
    Regions,         \* the handshake's regions: [base, size, offset]
    MemSize,         \* length of the memory file
    Zero             \* the content of a page of zeroes

VARIABLES
    handler,         \* "off", "accept", "handshake", "mmap", "loop" or "ended"
    stopServe,       \* the shutdown flag
    touching,        \* vcpu -> the address it waits for; None: running
    faults,          \* events the handler has not read: <<vcpu, page>>
    page,            \* page -> what it holds: None, Zero or an offset of the file
    registered,      \* pages whose faults go to the handler
    removing,        \* page a removal event is pending for, or None
    lost,            \* vCPUs whose fault was read and not resolved
    reclaimed,       \* pages the handler read a removal of
    stuck            \* those of them it could not unregister

balloon == <<registered, removing, reclaimed, stuck>>

uffd == <<handler, stopServe, touching, faults, page, lost, balloon>>

align(a) == a - (a % PageSize)

InRegion(p, r) == r.base <= p /\ p < r.base + r.size

Touched == UNION {Addrs[c] : c \in VCpus}

Pages == {align(a) : a \in Touched}

ASSUME MemoryAssumption ==
    /\ Addrs \in [VCpus -> SUBSET Nat]
    /\ PageSize \in Nat \ {0} /\ MemSize \in Nat /\ Zero \notin Nat \cup {None}

ASSUME RegionAssumption ==
    /\ Ballooned \subseteq Pages
    /\ Regions \subseteq [base : Nat, size : Nat, offset : Nat]
    /\ \A q, r \in Regions : \A a \in Touched : InRegion(a, q) /\ InRegion(a, r) => q = r

UffdInit ==
    /\ handler \in {"off", "accept"} /\ stopServe = FALSE
    /\ touching = [c \in VCpus |-> None] /\ faults = {} /\ lost = {}
    /\ page = [p \in Pages |-> None] /\ registered = Pages /\ removing = None
    /\ reclaimed = {} /\ stuck = {}

guest == <<touching, faults, page, lost, balloon>>

-----------------------------------------------------------------------------
(* The guest and the kernel.                                                *)
GuestRuns == handler \in {"mmap", "loop"} /\ child = "running"

Touch(c, a) ==
    /\ GuestRuns /\ touching[c] = None /\ page[align(a)] = None
    /\ \/ /\ align(a) \in registered
          /\ touching' = [touching EXCEPT ![c] = a]
          /\ faults' = faults \cup {<<c, align(a)>>}
          /\ UNCHANGED page
       \/ /\ align(a) \notin registered
          /\ page' = [page EXCEPT ![align(a)] = Zero]
          /\ UNCHANGED <<touching, faults>>
    /\ UNCHANGED <<handler, stopServe, lost, balloon>>

BalloonRemoves(p) ==
    /\ GuestRuns /\ removing = None /\ p \in registered
    /\ removing' = p
    /\ UNCHANGED <<handler, stopServe, touching, faults, page, lost, registered, reclaimed, stuck>>

Waiters(p) == {c \in VCpus : touching[c] # None /\ align(touching[c]) = p}

(* Mutant: the page is filled and nobody woken.                             *)
WakeNobody(p) == UNCHANGED <<touching, lost>>

(* Those who wait for p go on.  Their own events leave the queue, but for   *)
(* some the handler may be reading already.                                 *)
Wake(p) ==
    /\ touching' = [c \in VCpus |-> IF c \in Waiters(p) THEN None ELSE touching[c]]
    /\ lost' = lost \ Waiters(p)

Dequeued(p) == {e \in faults : e[2] = p}

-----------------------------------------------------------------------------
(* run_handler up to the fault loop.  An error, or the end of the stream,   *)
(* ends the thread; the accept returns only if Firecracker connects.        *)
Connect ==
    /\ handler = "accept" /\ child = "running"
    /\ handler' = "handshake"
    /\ UNCHANGED <<stopServe, guest>>

receive_handshake ==
    /\ handler = "handshake"
    /\ handler' = "ended" \/ (child = "running" /\ handler' = "mmap")
    /\ UNCHANGED <<stopServe, guest>>

MapMemory ==
    /\ handler = "mmap"
    /\ handler' \in {"loop", "ended"}
    /\ UNCHANGED <<stopServe, guest>>

(* Mutant: every region taken to begin the file.                            *)
OffsetInRegion(p, r) == p - r.base

(* What handle_pagefault copies to a page: nothing when the region reaches  *)
(* past the memory file, zeroes outside every region.                       *)
SourceOffset(p, r) == r.offset + (p - r.base)

Source(p) ==
    IF \A r \in Regions : ~InRegion(p, r) THEN Zero
    ELSE LET r == CHOOSE r \in Regions : InRegion(p, r) IN
         IF SourceOffset(p, r) + PageSize > MemSize THEN None ELSE SourceOffset(p, r)

Serving == handler = "loop" /\ ~stopServe /\ child = "running"

(* UFFDIO_COPY is refused while a removal is pending or for a page no       *)
(* longer registered: the error is logged and the fault forgotten.          *)
Copies(p) == Source(p) # None /\ removing = None /\ p \in registered

handle_pagefault(c, p) ==
    /\ Serving /\ <<c, p>> \in faults
    /\ \/ /\ page[p] = None /\ Copies(p)
          /\ page' = [page EXCEPT ![p] = Source(p)]
          /\ Wake(p)
          /\ \E stale \in SUBSET (Dequeued(p) \ {<<c, p>>}) :
                faults' = (faults \ Dequeued(p)) \cup stale
       \/ /\ page[p] = None /\ ~Copies(p)
          /\ lost' = lost \cup (Waiters(p) \cap {c})
          /\ faults' = faults \ {<<c, p>>}
          /\ UNCHANGED <<page, touching>>
       \/ /\ page[p] # None                  \* EEXIST: somebody was first
          /\ faults' = faults \ {<<c, p>>}
          /\ UNCHANGED <<page, touching, lost>>
    /\ UNCHANGED <<handler, stopServe, balloon>>

(* Event::Remove: once it is read the kernel drops the page.  Unregistering *)
(* the range wakes those that wait for it; an error of it is ignored, and   *)
(* later faults of the page still go to the handler.                        *)
UnregisterRange ==
    /\ Serving /\ removing # None
    /\ page' = [page EXCEPT ![removing] = None]
    /\ removing' = None
    /\ reclaimed' = reclaimed \cup {removing}
    /\ \/ /\ registered' = registered \ {removing}
          /\ stuck' = stuck \ {removing}
          /\ Wake(removing)
          /\ faults' = faults \ Dequeued(removing)
       \/ /\ stuck' = stuck \cup {removing}
          /\ UNCHANGED <<registered, touching, faults, lost>>
    /\ UNCHANGED <<handler, stopServe>>

(* The flag, seen every 100 ms at the latest, or the child's socket closed. *)
LoopEnds ==
    /\ handler = "loop" /\ (stopServe \/ child # "running")
    /\ handler' = "ended"
    /\ UNCHANGED <<stopServe, guest>>

(* poll or read_event fails.                                                *)
LoopError ==
    /\ handler = "loop"
    /\ handler' = "ended"
    /\ UNCHANGED <<stopServe, guest>>

DropHandler ==
    /\ stage = "uffd" /\ ~stopServe
    /\ stopServe' = TRUE
    /\ UNCHANGED <<handler, guest>>

GuestStep ==
    \/ \E c \in VCpus : \E a \in Addrs[c] : Touch(c, a)
    \/ \E p \in Ballooned : BalloonRemoves(p)

HandlerStep ==
    \/ receive_handshake \/ MapMemory
    \/ \E c \in VCpus, p \in Pages : handle_pagefault(c, p)
    \/ UnregisterRange \/ LoopEnds
=============================================================================
