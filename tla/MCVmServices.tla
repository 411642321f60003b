---------------------------- MODULE MCVmServices ----------------------------
(* A VM with no helper, or with one of them.                                *)
EXTENDS VmServices, TLC

CONSTANTS c1, c2, h1, h2

MCHelpers ==
    {{"kill"}, {"kill", "console"}, {"kill", "uffd"}, {"kill", "metrics"}, {"kill", "api"},
     {"metadata"}}

(* Pages 2 and 4 lie in two regions, the second of which reaches past the   *)
(* memory file's end, and page 8 in none.                                   *)
MCAddrs == (c1 :> {3, 4, 9}) @@ (c2 :> {2})
MCVCpus == {c1, c2}
MCRegions == {[base |-> 2, size |-> 2, offset |-> 1], [base |-> 4, size |-> 2, offset |-> 3]}

MCDocuments ==
    {[vmm |-> 7, bytes |-> 5, mib |-> 3], [vmm |-> 0, bytes |-> 5, mib |-> 3],
     [vmm |-> 0, bytes |-> 0, mib |-> 3], [vmm |-> 0, bytes |-> 0, mib |-> 2]}

(* Two hosts push env batches of different keys, one with a value that is   *)
(* refused, one with a key that is no name, two values for a secret and a   *)
(* ping.                                                                    *)
MCPushes ==
    (h1 :> {[op |-> "set_env", env |-> [A |-> "x", B |-> "empty"]],
            [op |-> "set_env", env |-> [B |-> "y"]],
            [op |-> "set_secret", name |-> "s", value |-> "x"]})
    @@ (h2 :> {[op |-> "set_env", env |-> [A |-> "x", bad |-> "x"]],
               [op |-> "set_env", env |-> [A |-> "newline", B |-> "x"]],
               [op |-> "set_secret", name |-> "s", value |-> "y"],
               [op |-> "ping"]})
MCClients == {h1, h2}
MCBodies == MCPushes[h1] \cup MCPushes[h2]

(* A body of two bytes that looks like a terminator, with bytes after it;   *)
(* no Content-Length; a refused one; headers without an end.                *)
Crlf == <<"cr", "lf">>
Given(k) == [kind |-> "given", n |-> k]
Other(kind) == [kind |-> kind, n |-> 1]

MCResponses ==
    {[bytes |-> <<"h">> \o Terminator \o Terminator, length |-> Given(2), whole |-> TRUE],
     [bytes |-> <<"h">> \o Terminator, length |-> Other("absent"), whole |-> TRUE],
     [bytes |-> Crlf \o <<"h">> \o Terminator, length |-> Other("invalid"), whole |-> TRUE],
     [bytes |-> <<"h", "h">> \o Crlf \o <<"h", "h">>, length |-> Other("absent"), whole |-> TRUE],
     [bytes |-> <<"h">> \o Terminator \o <<"b">>, length |-> Given(2), whole |-> FALSE]}
=============================================================================
