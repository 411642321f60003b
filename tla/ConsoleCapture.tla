--------------------------- MODULE ConsoleCapture ---------------------------
(***************************************************************************)
(* ConsoleCapture (src/console.rs): a thread that reads the child's stderr *)
(* from a pipe into a buffer of the last max_lines lines.  The n-th line   *)
(* the child writes is [no |-> n, kind |-> its kind].                      *)
(***************************************************************************)
EXTENDS GracefulShutdown, Sequences

CONSTANTS
    MaxLines,        \* max_lines
    PipeSize,        \* lines the pipe holds before a write blocks
    MaxWrites        \* bound on the lines the child writes

ASSUME ConsoleAssumption == MaxLines \in Nat /\ PipeSize \in Nat /\ MaxWrites \in Nat

VARIABLES
    written,         \* every line written to the pipe so far
    pipe,            \* the ones in the pipe
    drainer,         \* "off", "reading", or why it ended: "eof", "error", "asked"
    buffer,          \* the ring buffer
    stopDrain        \* the shutdown flag

console == <<written, pipe, drainer, buffer, stopDrain>>

Kinds == {"plain", "long", "not_utf8"}

ConsoleInit ==
    /\ written = <<>> /\ pipe = <<>> /\ buffer = <<>>
    /\ stopDrain = FALSE /\ drainer \in {"off", "reading"}

(* A write blocks while the pipe is full.  Once the reader has ended it     *)
(* fails, and nothing of it is kept.                                        *)
WriteLine(kind) ==
    /\ child = "running" /\ drainer = "reading"
    /\ Len(written) < MaxWrites /\ Len(pipe) < PipeSize
    /\ LET line == [no |-> Len(written) + 1, kind |-> kind] IN
          written' = Append(written, line) /\ pipe' = Append(pipe, line)
    /\ UNCHANGED <<drainer, buffer, stopDrain>>

(* A line over the limit is cut and marked.                                 *)
enforce_line_limit(line) ==
    [no |-> line.no, cut |-> line.kind = "long"]

(* Mutant: one line too many.                                               *)
push_then_evict(line) ==
    IF MaxLines = 0 THEN buffer
    ELSE IF Len(buffer) > MaxLines THEN Append(Tail(buffer), line) ELSE Append(buffer, line)

push_with_eviction(line) ==
    LET longer == Append(buffer, line) IN
    IF MaxLines = 0 THEN buffer
    ELSE IF Len(longer) > MaxLines THEN Tail(longer) ELSE longer

(* Mutant: reads no more than the buffer holds.                             *)
DrainToLimit ==
    /\ drainer = "reading" /\ pipe # <<>> /\ Len(buffer) < MaxLines
    /\ pipe' = Tail(pipe)
    /\ buffer' = Append(buffer, enforce_line_limit(Head(pipe)))
    /\ UNCHANGED <<written, drainer, stopDrain>>

(* read_line returned a line, asked for before the flag was set if it is;   *)
(* bytes that are not UTF-8 are an error, which ends the capture.           *)
DrainLine ==
    /\ drainer = "reading" /\ pipe # <<>>
    /\ pipe' = Tail(pipe)
    /\ \/ /\ Head(pipe).kind = "not_utf8"
          /\ drainer' = "error" /\ UNCHANGED buffer
       \/ /\ Head(pipe).kind # "not_utf8"
          /\ buffer' = push_with_eviction(enforce_line_limit(Head(pipe)))
          /\ drainer' = IF stopDrain THEN "asked" ELSE "reading"
    /\ UNCHANGED <<written, stopDrain>>

(* Mutant: the child's exit taken for the end of the file.                  *)
EndsWithChild ==
    /\ drainer = "reading" /\ child # "running"
    /\ drainer' = "eof"
    /\ UNCHANGED <<written, pipe, buffer, stopDrain>>

(* The flag seen between two lines, or the end of the file: the pipe empty  *)
(* and the child gone.                                                      *)
DrainEnds ==
    /\ drainer = "reading"
    /\ \/ stopDrain /\ drainer' = "asked"
       \/ pipe = <<>> /\ child # "running" /\ drainer' = "eof"
    /\ UNCHANGED <<written, pipe, buffer, stopDrain>>

(* kill_process drops the capture: the flag, then a join of bounded length. *)
DropConsole ==
    /\ stage = "console" /\ ~stopDrain
    /\ stopDrain' = TRUE
    /\ UNCHANGED <<written, pipe, drainer, buffer>>

DrainStep == DrainLine \/ DrainEnds
=============================================================================
