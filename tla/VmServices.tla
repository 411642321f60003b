---------------------------- MODULE VmServices ----------------------------
(***************************************************************************)
(* A VM's Firecracker process, the threads of the runtime that serve it -  *)
(* console capture, page-fault handler, metrics reader - the clients that  *)
(* talk to its API socket and to the daemon in its guest, and its end in   *)
(* kill_process: the child first, then the console, then the handler.      *)
(***************************************************************************)
EXTENDS ConsoleCapture, UffdHandler, MetricsReader, GuestMetadata, HttpFraming

CONSTANT Helpers     \* the sets of services a VM may have; "kill": it may be ended

threads == <<console, uffd, metrics>>

talks == <<metadata, http>>

services == <<shutdown, threads, talks>>

Init ==
    /\ ShutdownInit /\ ConsoleInit /\ UffdInit /\ MetricsInit
    /\ MetadataInit /\ HttpInit
    /\ \E h \in Helpers :
        /\ (stage = "alive") = ("kill" \in h)
        /\ (drainer = "reading") = ("console" \in h)
        /\ (handler = "accept") = ("uffd" \in h)
        /\ (reader = "open") = ("metrics" \in h)
        /\ (phase = "reading") = ("api" \in h)
        /\ \A l \in Links : (hostEnd[l] = "unused") = ("metadata" \in h)

(* The joins are bounded: each returns with its thread ended or not.        *)
ConsoleJoined ==
    /\ stage = "console" /\ stopDrain
    /\ To("uffd")
    /\ UNCHANGED <<child, term, killed, clock, wake, outcome>>

HandlerJoined ==
    /\ stage = "uffd" /\ stopServe
    /\ To("gone")
    /\ UNCHANGED <<child, term, killed, clock, wake, outcome>>

(* The threads: the one in kill_process and the three helpers.              *)
KillThread ==
    \/ (KillStep \/ ConsoleJoined \/ HandlerJoined) /\ UNCHANGED <<threads, talks>>
    \/ DropConsole /\ UNCHANGED <<shutdown, uffd, metrics, talks>>
    \/ DropHandler /\ UNCHANGED <<shutdown, console, metrics, talks>>

DrainThread == DrainStep /\ UNCHANGED <<shutdown, uffd, metrics, talks>>

HandlerThread == HandlerStep /\ UNCHANGED <<shutdown, console, metrics, talks>>

ReaderThread == ReaderStep /\ UNCHANGED <<shutdown, console, uffd, talks>>

HttpThread == HttpStep /\ UNCHANGED <<shutdown, threads, metadata>>

(* What they react to: time, the caller, Firecracker and its guest.         *)
Time == Tick /\ UNCHANGED <<threads, talks>>

Begin == BeginKill /\ UNCHANGED <<threads, talks>>

Exit == ChildExits /\ UNCHANGED <<threads, talks>>

Writes == (\E kind \in Kinds : WriteLine(kind)) /\ UNCHANGED <<shutdown, uffd, metrics, talks>>

Guest == (Connect \/ GuestStep \/ LoopError) /\ UNCHANGED <<shutdown, console, metrics, talks>>

Emits == (StopReader \/ \E line \in Lines : Emit(line)) /\ UNCHANGED <<shutdown, console, uffd, talks>>

Api == (ServerSends \/ ReadTimeout) /\ UNCHANGED <<shutdown, threads, metadata>>

Metadata == (ClientStep \/ DaemonStep) /\ UNCHANGED <<shutdown, threads, http>>

Next ==
    \/ KillThread \/ DrainThread \/ HandlerThread \/ ReaderThread \/ HttpThread
    \/ Time \/ Begin \/ Exit \/ Writes \/ Guest \/ Emits \/ Api \/ Metadata

(* The kernel hands out the oldest fault first, and faults before removals. *)
FaultOf(c) ==
    /\ \E p \in Pages : handle_pagefault(c, p)
    /\ UNCHANGED <<shutdown, console, metrics, talks>>

(* Threads that can run do, time passes and SIGKILL ends the child; nobody  *)
(* need ask for the VM's end, nor need the child heed SIGTERM.              *)
Fairness ==
    /\ WF_services(KillThread) /\ WF_services(Time) /\ WF_services(killed /\ Exit)
    /\ WF_services(DrainThread) /\ WF_services(HandlerThread) /\ WF_services(ReaderThread)
    /\ WF_services(HttpThread) /\ \A c \in VCpus : WF_services(FaultOf(c))

Spec == Init /\ [][Next]_services /\ Fairness

-----------------------------------------------------------------------------
TypeOK ==
    /\ child \in {"running", "exited", "reaped"} /\ term \in BOOLEAN /\ killed \in BOOLEAN
    /\ stage \in Stages /\ clock \in 0..GracePeriod /\ wake \in 0..GracePeriod
    /\ outcome \in {"none", "AlreadyExited", "Graceful", "Forced"}
    /\ drainer \in {"off", "reading", "eof", "error", "asked"} /\ stopDrain \in BOOLEAN
    /\ Len(written) <= MaxWrites /\ Len(pipe) <= PipeSize /\ Len(buffer) <= MaxLines
    /\ handler \in {"off", "accept", "handshake", "mmap", "loop", "ended"}
    /\ stopServe \in BOOLEAN /\ touching \in [VCpus -> Touched \cup {None}]
    /\ faults \subseteq VCpus \X Pages /\ registered \subseteq Pages /\ lost \subseteq VCpus
    /\ reclaimed \subseteq Pages /\ stuck \subseteq reclaimed
    /\ page \in [Pages -> {None, Zero} \cup 0..MemSize] /\ removing \in Pages \cup {None}
    /\ Len(emitted) <= MaxDocs /\ taken \in 0..MaxDocs /\ stopRead \in BOOLEAN
    /\ reader \in {"off", "open", "reading", "ended"}
    /\ issued \in Seq(Bodies) /\ applied \cup acked \subseteq 1..Len(issued)
    /\ conn \in [Clients -> Links \cup {None}] /\ waiting \in [Clients -> 0..MaxRequests]
    /\ hostEnd \in [Links -> {"none", "unused", "open", "closed"}] /\ torn \in [Links -> Seq(0..MaxRequests)]
    /\ thread \in [Links -> {"off", "read", "tmp", "rename", "reply"}]
    /\ up \in [Links -> Seq(0..MaxRequests)] /\ current \in [Links -> 0..MaxRequests]
    /\ response \in Responses /\ sent \in 0..Len(response.bytes) /\ got \in 0..sent
    /\ phase \in {"off", "reading", "ok", "err"}

(* SIGTERM goes by number (send_sigterm calls kill(2) with the child's id), *)
(* and the number is the child's only until it is reaped: no poll that      *)
(* reaped the child is followed by a signal, when the number may be another *)
(* process's.                                                               *)
SignalsOwnChild == [][term' # term \/ killed' # killed => child # "reaped"]_services

(* graceful_shutdown's outcome tells what was done: AlreadyExited, no       *)
(* signal; Graceful, SIGTERM alone; Forced, SIGKILL after SIGTERM and the   *)
(* whole grace period.  Nothing is released before the child is reaped.     *)
OutcomeTruthful ==
    /\ outcome = "AlreadyExited" => ~term /\ ~killed
    /\ outcome = "Graceful" => term /\ ~killed
    /\ outcome = "Forced" => killed /\ term /\ clock = GracePeriod
    /\ stage \in {"console", "uffd", "gone"} => child = "reaped"

(* kill_process returns: the child's obstinacy costs the grace period, a    *)
(* thread that hangs its join's budget.                                     *)
KillReturns == (stage \notin {"alive", "kept"}) ~> (stage = "gone")

(* The lines of the console taken from the pipe and kept, oldest first: all *)
(* but the one that ended the capture with an error.                        *)
Readable(line) == line.kind # "not_utf8"
Drained == Len(written) - Len(pipe)
Kept == SubSeq(written, 1, IF drainer = "error" THEN Drained - 1 ELSE Drained)
Latest(lines) ==
    LET kept == [i \in 1..Len(lines) |-> [no |-> lines[i].no, cut |-> lines[i].kind = "long"]]
    IN SubSeq(kept, IF Len(kept) > MaxLines THEN Len(kept) - MaxLines + 1 ELSE 1, Len(kept))

(* tail() is at any time the last max_lines lines read, in the order they   *)
(* were written; a capture that saw the end of the file has them all.       *)
TailIsLatest ==
    /\ buffer = Latest(Kept)
    /\ \A i \in 1..Drained : Readable(written[i]) <=> i <= Len(Kept)
    /\ drainer = "eof" => buffer = Latest(written)

(* The capture never leaves the child blocked on a full stderr pipe while   *)
(* the drainer lives, whatever max_lines is.                                *)
ChildNotBlocked == (Len(pipe) = PipeSize) ~> (Len(pipe) < PipeSize \/ drainer # "reading")

(* A page the handler filled holds the part of the memory file its region   *)
(* maps to it, within the file; a page the balloon gave back comes back as  *)
(* zeroes, and from the snapshot only if the range could not be             *)
(* unregistered (fault_loop's Event::Remove, which ignores that error).     *)
PagesFaithful ==
    \A p \in Pages :
        /\ p \in reclaimed \ stuck => page[p] \in {None, Zero}
        /\ p \in registered /\ page[p] = Zero => \A r \in Regions : ~InRegion(p, r)
        /\ page[p] \notin {None, Zero} =>
              \E r \in Regions :
                 /\ InRegion(p, r) /\ page[p] - r.offset = p - r.base
                 /\ page[p] + PageSize <= MemSize

(* A vCPU that waits for a page goes on, unless its fault was dropped on an *)
(* error of the copy, the handler ended or the child did.                   *)
FaultServed ==
    \A c \in VCpus :
        (touching[c] # None) ~>
            (touching[c] = None \/ c \in lost \/ handler = "ended" \/ child # "running")

(* The metrics snapshot is that of the last document read, with the memory  *)
(* gauge in bytes whatever field it came from, cut off at u64::MAX.         *)
Gauge(doc) ==
    IF doc.vmm # 0 THEN doc.vmm
    ELSE IF doc.bytes # 0 THEN doc.bytes
    ELSE IF doc.mib > MaxU64 \div MiB THEN MaxU64 ELSE doc.mib * MiB

Parsed(line) == line.kind = "document"

SnapshotIsLast ==
    LET docs == {i \in 1..taken : Parsed(emitted[i])} IN
    IF docs = {} THEN snapshot = None
    ELSE /\ snapshot.raw = emitted[Max(docs)].doc
         /\ snapshot.memory_used_bytes = Gauge(emitted[Max(docs)].doc)

(* read_http_response returns exactly one response: the headers and as many *)
(* bytes as they announce, none without a Content-Length, however the       *)
(* stream was cut into reads.                                               *)
FrameIsExact ==
    phase = "ok" =>
        \E h \in 4..Len(response.bytes) :
            /\ SubSeq(response.bytes, h - 3, h) = Terminator
            /\ \A i \in 4..h - 1 : SubSeq(response.bytes, i - 3, i) # Terminator
            /\ \/ /\ response.length.kind = "given"
                  /\ returned = SubSeq(response.bytes, 1, h + response.length.n)
               \/ /\ response.length.kind = "absent"
                  /\ returned = SubSeq(response.bytes, 1, h)

(* Once the server has sent all it had to send, the call ends, without the  *)
(* end of the stream and without the read timeout.                          *)
AnswerEndsCall ==
    (phase = "reading" /\ sent = Len(response.bytes) /\ response.whole) ~> (phase # "reading")

(* Once the VM is gone, so are the threads that served it, unless they      *)
(* still wait for a Firecracker that never connected.                       *)
ThreadsEnd ==
    (stage = "gone") ~>
        /\ drainer # "reading"
        /\ handler \notin {"handshake", "mmap", "loop"}
        /\ reader # "reading"
=============================================================================
