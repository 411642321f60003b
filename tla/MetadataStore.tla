---------------------------- MODULE MetadataStore ----------------------------
(***************************************************************************)
(* What the guest metadata protocol promises: a request takes effect at    *)
(* most once, whole and after it was issued, and is acknowledged to the    *)
(* host only if it has.  A request's number is the id next_id gives it.    *)
(***************************************************************************)
EXTENDS Naturals, Sequences

CONSTANTS
    Bodies,          \* requests: [op, env], [op, name, value] or [op]
    Names            \* secret names

VARIABLES
    issued,          \* the requests so far
    before,          \* history: for each, the requests acknowledged before it
    applied,         \* those that have taken effect
    acked,           \* those for which the host's call returned Ok
    file             \* target -> [by, content]; by = 0: not written yet

store == <<issued, before, applied, acked, file>>

Targets == {"env"} \cup Names

(* Ping changes no file.                                                    *)
Target(body) == IF body.op = "set_env" THEN {"env"}
                ELSE IF body.op = "set_secret" THEN {body.name} ELSE {}

ASSUME BodyAssumption == \A body \in Bodies : Target(body) \subseteq Targets

(* The env file is replaced by the batch without its empty values; a        *)
(* secret's bytes are what base64 carried over.                             *)
Content(body) ==
    IF body.op = "set_env"
    THEN [k \in {j \in DOMAIN body.env : body.env[j] # "empty"} |-> body.env[k]]
    ELSE body.value

(* A value with a newline spoils its whole batch.                           *)
Acceptable(body) ==
    body.op = "set_env" => \A k \in DOMAIN body.env : body.env[k] # "newline"

StoreInit ==
    /\ issued = <<>> /\ before = <<>> /\ applied = {} /\ acked = {}
    /\ file = [t \in Targets |-> [by |-> 0, content |-> <<>>]]

Issued(body) ==
    /\ issued' = Append(issued, body) /\ before' = Append(before, acked)
    /\ UNCHANGED <<applied, acked, file>>

Applied(i) ==
    /\ applied' = applied \cup {i}
    /\ file' = [t \in Targets |->
                  IF t \in Target(issued[i])
                  THEN [by |-> i, content |-> Content(issued[i])] ELSE file[t]]
    /\ UNCHANGED <<issued, before, acked>>

Acked(i) ==
    /\ acked' = acked \cup {i}
    /\ UNCHANGED <<issued, before, applied, file>>

Issue == \E body \in Bodies : Issued(body)

Apply ==
    \E i \in 1..Len(issued) : i \notin applied /\ Acceptable(issued[i]) /\ Applied(i)

Ack == \E i \in applied : Acked(i)

StoreNext == Issue \/ Apply \/ Ack

(* GuestMetadataConn and the daemon together behave as this store: each     *)
(* file changes as a whole, to what write_env_file or write_secret makes of *)
(* one request not applied before, and an Ok means that the request was     *)
(* applied - over torn writes, timeouts, late replies and reconnections.    *)
(* It is the daemon's env file, replaced by each batch, and not the one     *)
(* set_env's documentation describes (EnvKeepsOtherKeys).                   *)
StoreSpec == StoreInit /\ [][StoreNext]_store

(* "Existing keys not present in `env` are left untouched" (set_env's doc   *)
(* comment): a batch changes only the keys it names.                        *)
EnvKeepsOtherKeys ==
    [][LET old == file["env"].content  new == file'["env"].content IN
       file'["env"] # file["env"] =>
           \A k \in DOMAIN old \ DOMAIN issued[file'["env"].by].env :
               k \in DOMAIN new /\ new[k] = old[k]]_store

(* Once a request has been acknowledged, its file never shows what an older *)
(* request, acknowledged before that one was issued, had put there.         *)
AckedSurvives ==
    \A q \in acked : \A t \in Target(issued[q]) : file[t].by \notin before[q]
=============================================================================
