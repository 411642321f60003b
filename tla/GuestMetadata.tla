---------------------------- MODULE GuestMetadata ----------------------------
(***************************************************************************)
(* GuestMetadataClient (src/guest_metadata.rs) against the daemon of       *)
(* examples/guest_metadata_daemon.rs: hosts that connect, push env batches *)
(* and secrets one at a time, give up on a timeout, go on over the same    *)
(* connection or reconnect; a daemon thread per connection that handles    *)
(* one line after the other.  A link is one connection.                    *)
(***************************************************************************)
EXTENDS GracefulShutdown, MetadataStore

CONSTANTS
    Clients,         \* callers on the host
    Pushes,          \* client -> the requests it makes
    Links,           \* the connections they may open
    ValidKeys,       \* env keys that validate_env_key accepts
    MaxRequests      \* bound on the requests

ASSUME PushAssumption == Pushes \in [Clients -> SUBSET Bodies] /\ MaxRequests \in Nat

VARIABLES
    conn,            \* client -> its link, or None
    waiting,         \* client -> the request whose reply it reads, or 0
    hostEnd,         \* link -> "unused", "open" or "closed"; "none": no daemon
    torn,            \* link -> the line of which a part has been written, if any
    up, down,        \* link -> lines to the daemon, replies to the host
    thread,          \* link -> where serve_connection is: "off", "read", "tmp", "rename", "reply"
    current,         \* link -> the request it handles
    ok               \* link -> whether that succeeded

links == <<hostEnd, torn, up, down, thread, current, ok>>

metadata == <<store, conn, waiting, links>>

(* Lines: a request's number, or 0 for what neither side can decode.        *)
Garbled == 0
Reply(i, b) == [id |-> i, ok |-> b]
Undecodable == Reply(0, FALSE)

MetadataInit ==
    /\ StoreInit
    /\ conn = [c \in Clients |-> None] /\ waiting = [c \in Clients |-> 0]
    /\ \E s \in {"unused", "none"} : hostEnd = [l \in Links |-> s]
    /\ torn = [l \in Links |-> <<>>]
    /\ up = [l \in Links |-> <<>>] /\ down = [l \in Links |-> <<>>]
    /\ thread = [l \in Links |-> "off"] /\ current = [l \in Links |-> 0]
    /\ ok = [l \in Links |-> FALSE]

-----------------------------------------------------------------------------
(* The host.  A connect that runs out of time or is refused changes         *)
(* nothing; one that succeeds has a daemon thread at the other end.         *)
Unused == {l \in Links : hostEnd[l] = "unused"}

connect(c) ==
    /\ child = "running" /\ conn[c] = None
    /\ Unused # {}
    /\ LET l == CHOOSE l \in Unused : TRUE IN
        /\ hostEnd' = [hostEnd EXCEPT ![l] = "open"]
        /\ thread' = [thread EXCEPT ![l] = "read"]
        /\ conn' = [conn EXCEPT ![c] = l]
    /\ UNCHANGED <<store, waiting, torn, up, down, current, ok>>

validate(body) == body.op = "set_env" => DOMAIN body.env \subseteq ValidKeys

(* What i's line is to the daemon, after a torn one.                        *)
LineOf(l, i) == IF torn[l] = <<>> THEN i ELSE Garbled

(* set_env, set_secret and ping up to send, which may write the whole line  *)
(* or part of it before it fails; one that fails at once changes nothing.   *)
send(c, body) ==
    /\ conn[c] # None /\ waiting[c] = 0
    /\ Len(issued) < MaxRequests /\ validate(body)
    /\ Issued(body)
    /\ LET l == conn[c] i == Len(issued) + 1 IN
       \/ /\ up' = [up EXCEPT ![l] = Append(@, LineOf(l, i))]
          /\ torn' = [torn EXCEPT ![l] = <<>>]
          /\ waiting' = [waiting EXCEPT ![c] = i]
       \/ torn' = [torn EXCEPT ![l] = <<LineOf(l, i)>>] /\ UNCHANGED <<up, waiting>>
    /\ UNCHANGED <<conn, hostEnd, down, thread, current, ok>>

Matches(reply, i) == reply.id = i /\ reply.ok

recv_ok(c) ==
    /\ waiting[c] # 0
    /\ LET l == conn[c] IN
       /\ down[l] # <<>>
       /\ \/ Matches(Head(down[l]), waiting[c]) /\ Acked(waiting[c])
          \/ ~Matches(Head(down[l]), waiting[c]) /\ UNCHANGED store
       /\ down' = [down EXCEPT ![l] = Tail(@)]
    /\ waiting' = [waiting EXCEPT ![c] = 0]
    /\ UNCHANGED <<conn, hostEnd, torn, up, thread, current, ok>>

(* The read timeout; a line of which a part had arrived is lost to the next *)
(* read but for its rest.                                                   *)
RecvTimeout(c) ==
    /\ waiting[c] # 0
    /\ waiting' = [waiting EXCEPT ![c] = 0]
    /\ \/ UNCHANGED down
       \/ LET l == conn[c] IN
          /\ down[l] # <<>>
          /\ down' = [down EXCEPT ![l] = <<Undecodable>> \o Tail(@)]
    /\ UNCHANGED <<store, conn, hostEnd, torn, up, thread, current, ok>>

RecvEof(c) ==
    /\ waiting[c] # 0 /\ down[conn[c]] = <<>>
    /\ child # "running" \/ thread[conn[c]] = "off"
    /\ waiting' = [waiting EXCEPT ![c] = 0]
    /\ UNCHANGED <<store, conn, links>>

(* Dropping the connection; what was written is still delivered, and a torn *)
(* line that lacked no more than its newline is a request nevertheless.     *)
DropConn(c) ==
    /\ conn[c] # None /\ waiting[c] = 0
    /\ LET l == conn[c] IN
       /\ hostEnd' = [hostEnd EXCEPT ![l] = "closed"]
       /\ down' = [down EXCEPT ![l] = <<>>]
       /\ torn' = [torn EXCEPT ![l] = <<>>]
       /\ \/ up' = [up EXCEPT ![l] = @ \o torn[l]]
          \/ torn[l] # <<>> /\ up' = [up EXCEPT ![l] = Append(@, Garbled)]
    /\ conn' = [conn EXCEPT ![c] = None]
    /\ UNCHANGED <<store, waiting, thread, current, ok>>

-----------------------------------------------------------------------------
(* The daemon's thread for link l.                                          *)
Serves(l, at) == child = "running" /\ thread[l] = at

Goes(l, at) == thread' = [thread EXCEPT ![l] = at]

Answers(l, b) == Goes(l, "reply") /\ ok' = [ok EXCEPT ![l] = b]

Refuses(i) == IF i = Garbled THEN TRUE ELSE ~Acceptable(issued[i])

(* read_line and the first part of handle_line; a ping is done at once.     *)
handle_line(l) ==
    /\ Serves(l, "read") /\ up[l] # <<>>
    /\ up' = [up EXCEPT ![l] = Tail(@)]
    /\ LET i == Head(up[l]) IN
       /\ current' = [current EXCEPT ![l] = i]
       /\ \/ /\ Refuses(i)
             /\ Answers(l, FALSE) /\ UNCHANGED store
          \/ /\ ~Refuses(i) /\ issued[i].op = "ping"
             /\ Answers(l, TRUE) /\ Applied(i)
          \/ /\ ~Refuses(i) /\ issued[i].op # "ping"
             /\ Goes(l, "tmp") /\ UNCHANGED <<store, ok>>
    /\ UNCHANGED <<conn, waiting, hostEnd, torn, down>>

(* Mutants: the target truncated and written in place; a failed rename      *)
(* answered with ok.                                                        *)
WriteInPlace(l) ==
    /\ Serves(l, "tmp")
    /\ (Goes(l, "rename") /\ UNCHANGED ok) \/ Answers(l, FALSE)
    /\ file' = [t \in Targets |->
                  IF t \in Target(issued[current[l]])
                  THEN [by |-> 0, content |-> <<>>] ELSE file[t]]
    /\ UNCHANGED <<issued, before, applied, acked>>
    /\ UNCHANGED <<conn, waiting, hostEnd, torn, up, down, current>>

RenameUnchecked(l) ==
    /\ Serves(l, "rename")
    /\ Answers(l, TRUE) /\ (Applied(current[l]) \/ UNCHANGED store)
    /\ UNCHANGED <<conn, waiting, hostEnd, torn, up, down, current>>

(* atomic_write: a temporary file of its own, written and synced, renamed   *)
(* over the target; each part may fail.                                     *)
WriteTmp(l) ==
    /\ Serves(l, "tmp")
    /\ (Goes(l, "rename") /\ UNCHANGED ok) \/ Answers(l, FALSE)
    /\ UNCHANGED <<store, conn, waiting, hostEnd, torn, up, down, current>>

Rename(l) ==
    /\ Serves(l, "rename")
    /\ (Answers(l, TRUE) /\ Applied(current[l])) \/ (Answers(l, FALSE) /\ UNCHANGED store)
    /\ UNCHANGED <<conn, waiting, hostEnd, torn, up, down, current>>

(* The reply; if the host has gone, writing it fails and the thread ends.   *)
Respond(l) ==
    /\ Serves(l, "reply")
    /\ \/ /\ hostEnd[l] = "open"
          /\ down' = [down EXCEPT ![l] = Append(@, Reply(current[l], ok[l]))]
          /\ Goes(l, "read")
       \/ hostEnd[l] = "closed" /\ Goes(l, "off") /\ UNCHANGED down
    /\ current' = [current EXCEPT ![l] = 0] /\ ok' = [ok EXCEPT ![l] = FALSE]
    /\ UNCHANGED <<store, conn, waiting, hostEnd, torn, up>>

(* The end of the stream, or an error reading it.                           *)
ServeEnds(l) ==
    /\ Serves(l, "read")
    /\ up[l] = <<>>
    /\ Goes(l, "off")
    /\ UNCHANGED <<store, conn, waiting, hostEnd, torn, up, down, current, ok>>

ClientStep ==
    \E c \in Clients :
        \/ connect(c) \/ recv_ok(c) \/ RecvTimeout(c) \/ RecvEof(c) \/ DropConn(c)
        \/ \E body \in Pushes[c] : send(c, body)

DaemonStep ==
    \E l \in Links :
        handle_line(l) \/ WriteTmp(l) \/ Rename(l) \/ Respond(l) \/ ServeEnds(l)
=============================================================================
