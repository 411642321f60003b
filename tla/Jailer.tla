------------------------------- MODULE Jailer -------------------------------
(***************************************************************************)
(* Jailer (src/jailer.rs): the chroot of each VM.  prepare stages the      *)
(* kernel, the rootfs, the drives, the device nodes and the ownership in   *)
(* that order and stops at the first failure; it is called again over      *)
(* whatever an earlier prepare or teardown left.  A chroot is only touched *)
(* by the calls for its own VM.                                            *)
(***************************************************************************)
EXTENDS HostCalls

CONSTANT Images      \* what specs name as kernel, rootfs and drives

VARIABLES
    jail,            \* vm -> part -> what is staged there; None: no chroot
    image            \* vm -> the images its last prepare was given

jailer == <<jail, image>>

Files == {"kernel", "rootfs"}

(* "rootfs" stands for the drives too, whose names are distinct, "dev" for  *)
(* /dev/kvm and /dev/net/tun, "owner" for a tree that belongs to the jail's *)
(* uid throughout.                                                          *)
Staging == <<"kernel", "rootfs", "dev", "owner">>

Parts == {Staging[i] : i \in 1..Len(Staging)}

EmptyJail == [p \in Parts |-> None]

JailerInit ==
    /\ jail = [v \in VmIds |-> None]
    /\ image = [v \in VmIds |-> None]

(* What a part holds when prepare has staged it for im.                     *)
Content(p, im) == IF p \in Files THEN im ELSE "ready"

(* Mutant: whatever is there already is kept.                               *)
KeepExisting(old, new) == IF old # None THEN old ELSE new

(* A file that is there already is kept if it is the inode to be linked,    *)
(* otherwise removed and staged again; a device node is kept.               *)
link_or_copy(old, new) == new

ensure_char_device(old) == IF old # None THEN old ELSE "ready"

chown_tree == "ready"

Staged(p, old, im) ==
    CASE p \in Files -> link_or_copy(old, im)
      [] p = "dev" -> ensure_char_device(old)
      [] p = "owner" -> chown_tree

(* The first n parts staged over what was there, the next one given up.     *)
StagedUpTo(old, im, n, next) ==
    [p \in Parts |->
        LET k == CHOOSE i \in 1..Len(Staging) : Staging[i] = p IN
        IF k <= n THEN Staged(p, old[p], im)
        ELSE IF k = n + 1 THEN next
        ELSE IF p = "owner" /\ n > 0 THEN None ELSE old[p]]

Existing(v) == IF jail[v] = None THEN EmptyJail ELSE jail[v]

Prepare(v, im) ==
    /\ At(v, {"compose"}, "jailer", "start")
    /\ image' = [image EXCEPT ![v] = im]
    /\ jail' = [jail EXCEPT ![v] = StagedUpTo(Existing(v), im, Len(Staging), None)]
    /\ Done(v)

(* What a part that could not be staged is left as: the stale one kept or   *)
(* already removed, a file copied in part.                                  *)
GivenUp(p, old) == {None, old} \cup {t \in {"truncated"} : p \in Files}

(* A missing image or directory fails with nothing touched.                 *)
PrepareFails(v, im) ==
    /\ At(v, {"compose"}, "jailer", "start")
    /\ image' = [image EXCEPT ![v] = im]
    /\ \/ UNCHANGED jail
       \/ \E n \in 0..Len(Staging) - 1 :
             \E next \in GivenUp(Staging[n + 1], Existing(v)[Staging[n + 1]]) :
                jail' = [jail EXCEPT ![v] = StagedUpTo(Existing(v), im, n, next)]
    /\ Fail(v)

(* remove_dir_all may stop half way.                                        *)
Teardown(v) ==
    /\ At(v, {"release"}, "jailer", "start")
    /\ \/ jail' = [jail EXCEPT ![v] = None] /\ Done(v)
       \/ /\ jail[v] # None
          /\ \E kept \in SUBSET Parts :
                jail' = [jail EXCEPT ![v] = [p \in Parts |-> IF p \in kept THEN @[p] ELSE None]]
          /\ Fail(v)
    /\ UNCHANGED image

JailerStep(v) == Teardown(v) \/ \E im \in Images : Prepare(v, im) \/ PrepareFails(v, im)
=============================================================================
