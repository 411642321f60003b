----------------------- MODULE MCFirecrackerProvider -----------------------
(* FirecrackerProvider for TLC: every vm id names its own directory.        *)
EXTENDS FirecrackerProvider, TLC

MCSafe == [id \in VmIds |-> id]

MCBare == {{}}
MCComposers == {{}, {"jailer", "console"}, {"network", "firewall"}, {"firewall", "interfaces"}}

Symmetry == Permutations(Procs) \cup Permutations(Callers) \cup Permutations(VmIds)
=============================================================================
