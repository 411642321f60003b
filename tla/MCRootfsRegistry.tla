-------------------------- MODULE MCRootfsRegistry --------------------------
(* Two slots: the owner of v1 asks for plain and for sized clones, the      *)
(* owner of v2 for plain ones (for the same in the runs that look for       *)
(* interference).  Templates have one unit, so targets 2 and 3 grow the     *)
(* clone.  Three inodes: the template, a clone, and a second clone or a     *)
(* replaced template that clones are still linked to.                       *)
EXTENDS RootfsRegistry, TLC

CONSTANTS v1, v2

MCTemplateLen == [d \in Digests |-> 1]

MCTargets == (v1 :> {0, 2, 3}) @@ (v2 :> {0})

MCBothSized == (v1 :> {0, 2}) @@ (v2 :> {0, 3})

(* What a free inode still holds is never read: a file is always written    *)
(* before it is linked.                                                     *)
View == <<template, mtime, hash_cache, slots, pc, target, seen, ghosts,
          [i \in Inodes |-> IF Free(i) THEN None ELSE <<content[i], len[i], fs[i]>>]>>

Symmetry == Permutations(Inodes) \cup Permutations(Digests)
=============================================================================
