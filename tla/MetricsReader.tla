---------------------------- MODULE MetricsReader ----------------------------
(***************************************************************************)
(* MetricsPoller (src/metrics.rs): a thread that reads the lines           *)
(* Firecracker writes to a FIFO and publishes the last one it could parse. *)
(* A line is a document with the three fields memory_used_bytes is taken   *)
(* from (0: missing or not a number), or something that is not JSON.       *)
(***************************************************************************)
EXTENDS GracefulShutdown, Sequences

CONSTANTS
    Documents,       \* the documents Firecracker writes: [vmm, bytes, mib]
    MiB,             \* 1024 * 1024
    MaxU64,          \* 2^64 - 1
    MaxDocs          \* bound on the lines Firecracker writes

ASSUME MetricsAssumption ==
    /\ Documents \subseteq [vmm : Nat, bytes : Nat, mib : Nat]
    /\ MiB \in Nat \ {0} /\ MaxU64 \in Nat /\ MaxDocs \in Nat

VARIABLES
    emitted,         \* every line written so far
    fifo,            \* lines not read yet
    reader,          \* "off", "open" (waiting for the writer), "reading" or "ended"
    taken,           \* number of lines read and looked at
    snapshot,        \* the published snapshot, or None
    stopRead         \* the shutdown flag

metrics == <<emitted, fifo, reader, taken, snapshot, stopRead>>

Lines == [kind : {"document"}, doc : Documents] \cup [kind : {"blank", "not_json", "not_utf8"}]

MetricsInit ==
    /\ emitted = <<>> /\ fifo = <<>> /\ taken = 0
    /\ snapshot = None /\ stopRead = FALSE /\ reader \in {"off", "open"}

first_nonzero_u64(doc) ==
    IF doc.vmm # 0 THEN doc.vmm ELSE IF doc.bytes # 0 THEN doc.bytes ELSE doc.mib

(* Mutant: converted whenever the balloon reports.                          *)
ScaleAlways(doc) ==
    LET used == first_nonzero_u64(doc) IN
    [memory_used_bytes |-> IF doc.mib # 0 THEN Earlier(used * MiB, MaxU64) ELSE used,
     raw |-> doc]

(* actual_mib is converted if it was the source.                            *)
from_value(doc) ==
    LET used == first_nonzero_u64(doc)
        fromMib == doc.mib # 0 /\ doc.vmm = 0 /\ doc.bytes = 0
    IN [memory_used_bytes |-> IF fromMib THEN Earlier(used * MiB, MaxU64) ELSE used,
        raw |-> doc]

Emit(line) ==
    /\ child = "running" /\ reader \in {"open", "reading"} /\ Len(emitted) < MaxDocs
    /\ emitted' = Append(emitted, line) /\ fifo' = Append(fifo, line)
    /\ reader' = "reading"
    /\ UNCHANGED <<taken, snapshot, stopRead>>

(* The flag is looked at after the read and before the line is used.        *)
ReadLine ==
    /\ reader = "reading" /\ fifo # <<>>
    /\ fifo' = Tail(fifo) /\ taken' = IF stopRead THEN taken ELSE taken + 1
    /\ \/ /\ stopRead \/ Head(fifo).kind = "not_utf8"
          /\ reader' = "ended" /\ UNCHANGED snapshot
       \/ /\ ~stopRead /\ Head(fifo).kind \in {"blank", "not_json"}
          /\ UNCHANGED <<reader, snapshot>>
       \/ /\ ~stopRead /\ Head(fifo).kind = "document"
          /\ snapshot' = from_value(Head(fifo).doc) /\ UNCHANGED reader
    /\ UNCHANGED <<emitted, stopRead>>

(* Mutant: the end of the file taken for a line not there yet.              *)
EofIgnored ==
    /\ reader = "reading" /\ fifo = <<>> /\ child # "running" /\ stopRead
    /\ reader' = "ended"
    /\ UNCHANGED <<emitted, fifo, taken, snapshot, stopRead>>

ReaderEof ==
    /\ reader = "reading" /\ fifo = <<>> /\ child # "running"
    /\ reader' = "ended"
    /\ UNCHANGED <<emitted, fifo, taken, snapshot, stopRead>>

StopReader ==
    /\ reader # "off" /\ ~stopRead
    /\ stopRead' = TRUE
    /\ UNCHANGED <<emitted, fifo, reader, taken, snapshot>>

ReaderStep == ReadLine \/ ReaderEof
=============================================================================
