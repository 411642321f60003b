------------------------- MODULE MCInMemoryProvider -------------------------
(* Two ids and two snapshot names: every pair of records coexists, and a    *)
(* name is offered twice to one VM and to different VMs.                    *)
EXTENDS InMemoryProvider
=============================================================================
