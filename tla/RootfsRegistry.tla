--------------------------- MODULE RootfsRegistry ---------------------------
(***************************************************************************)
(* RootfsRegistry (src/rootfs.rs): per-VM clones of one stack's template   *)
(* image, with the SHA-256 stamp, the size stamp and the digest cache.     *)
(*                                                                         *)
(* Files are modelled by their inodes, so that a hard link and a copy are  *)
(* told apart.  Each vm id has one owner, as the module's docs require, so *)
(* the calls in flight are named by their slot; calls on different slots,  *)
(* an operator who replaces the template, failures of every step and a     *)
(* crash of the process interleave freely.                                 *)
(***************************************************************************)
EXTENDS Naturals

CONSTANTS
    Slots,          \* safe vm ids: the directories under clones_dir
    Inodes,         \* inodes of the file system
    Digests,        \* contents an image can have
    TemplateLen,    \* Digests -> size in bytes of a template with that content
    Targets,        \* Slots -> the target_bytes its owner asks for, 0: clone_for_vm
    MaxRotations,   \* bound: how often the operator replaces the template
    HasMtime,       \* FALSE: the file system reports no modification time
    None

ASSUME RootfsAssumption ==
    /\ TemplateLen \in [Digests -> Nat \ {0}]
    /\ Targets \in [Slots -> SUBSET Nat]
    /\ MaxRotations \in Nat /\ HasMtime \in BOOLEAN
    /\ None \notin Inodes \cup Digests \cup Nat

VARIABLES
    template,       \* inode of <template_dir>/<stack>/rootfs.ext4
    mtime,          \* its modification time
    content,        \* Inodes -> what the image holds; None: a partial copy
    len,            \* Inodes -> length of the file
    fs,             \* Inodes -> size of the ext4 file system in it
    hash_cache,     \* mtime -> digest
    slot,           \* Slots -> inode of rootfs.ext4, None when absent
    stamp,          \* Slots -> rootfs.ext4.sha256, None when absent or cut short
    sizeStamp,      \* Slots -> rootfs.ext4.size, 0 when absent, None when cut short
    pc,             \* Slots -> next step of the call in flight
    target,         \* Slots -> target_bytes of the call, 0 for clone_for_vm
    seenLen,        \* Slots -> size_bytes of the StackInfo the call looked up
    seenTime,       \* Slots -> mtime of the metadata it read
    seenDigest,     \* Slots -> sha256 of that StackInfo
    \* --- ghosts, read by properties only
    raced,          \* slots cloned while the template was being replaced
    torn            \* slots whose release was interrupted

images == <<content, len, fs>>
slots  == <<slot, stamp, sizeStamp>>
seen   == <<seenLen, seenTime, seenDigest>>
ghosts == <<raced, torn>>
vars   == <<template, mtime, images, hash_cache, slots, pc, target, seen, ghosts>>

Init ==
    /\ template \in Inodes /\ mtime = 0
    /\ \E d \in Digests :
          /\ content = [i \in Inodes |-> d]
          /\ len = [i \in Inodes |-> TemplateLen[d]]
          /\ fs = len
    /\ hash_cache = [t \in 0..MaxRotations |-> None]
    /\ slot = [v \in Slots |-> None]
    /\ stamp = [v \in Slots |-> None]
    /\ sizeStamp = [v \in Slots |-> 0]
    /\ pc = [v \in Slots |-> "idle"]
    /\ target = [v \in Slots |-> 0]
    /\ seenLen = [v \in Slots |-> 0]
    /\ seenTime = [v \in Slots |-> 0]
    /\ seenDigest = [v \in Slots |-> None]
    /\ raced = {} /\ torn = {}

Free(i) == i # template /\ \A v \in Slots : slot[v] # i

(* A new file i holding what file j holds.                                  *)
CopyImage(i, j) ==
    /\ content' = [content EXCEPT ![i] = content[j]]
    /\ len' = [len EXCEPT ![i] = len[j]]
    /\ fs' = [fs EXCEPT ![i] = fs[j]]

Goto(v, l) == pc' = [pc EXCEPT ![v] = l] /\ UNCHANGED <<target, seen>>

(* The call returns, with a result or an error.                             *)
Return(v) ==
    /\ pc' = [pc EXCEPT ![v] = "idle"]
    /\ target' = [target EXCEPT ![v] = 0]
    /\ seenLen' = [seenLen EXCEPT ![v] = 0]
    /\ seenTime' = [seenTime EXCEPT ![v] = 0]
    /\ seenDigest' = [seenDigest EXCEPT ![v] = None]

-----------------------------------------------------------------------------
(* The cache key is (path, mtime); without mtimes it is the path alone.     *)
CacheKey(t) == IF HasMtime THEN t ELSE 0

(* cached_hash, for metadata read at time t: the cached digest, or the      *)
(* digest of the file as it is now.                                         *)
Digest(t) == IF hash_cache[CacheKey(t)] # None
             THEN hash_cache[CacheKey(t)] ELSE content[template]

CachedHash(t) == hash_cache' = [hash_cache EXCEPT ![CacheKey(t)] = Digest(t)]

(* clone_for_vm_with_size looks the stack up for its size, checks the       *)
(* target against it and against the recorded size, and then runs           *)
(* clone_for_vm, which looks the stack up again.  (The digest of the first  *)
(* lookup only warms the cache.)                                            *)
Begin(v, t) ==
    /\ pc[v] = "idle"
    /\ \/ t = 0 /\ UNCHANGED <<hash_cache, seenLen>>
       \/ /\ t # 0
          /\ t >= len[template] /\ sizeStamp[v] \in {0, t}
          /\ CachedHash(mtime)
          /\ seenLen' = [seenLen EXCEPT ![v] = len[template]]
    /\ pc' = [pc EXCEPT ![v] = "stat"]
    /\ target' = [target EXCEPT ![v] = t]
    /\ UNCHANGED <<template, mtime, images, slots, seenTime, seenDigest, ghosts>>

(* stack: read the metadata, then the digest, which decides what to do.     *)
Stat(v) ==
    /\ pc[v] = "stat"
    /\ pc' = [pc EXCEPT ![v] = "hash"]
    /\ seenTime' = [seenTime EXCEPT ![v] = mtime]
    /\ UNCHANGED <<template, mtime, images, hash_cache, slots, target, seenLen, seenDigest,
                   ghosts>>

(* Where the call goes once the slot holds a stamped clone: sized calls go  *)
(* on unless the template has that size or the size stamp is there.         *)
Cloned(v) == IF target[v] \in {0, seenLen[v]} \/ sizeStamp[v] # 0
             THEN "idle" ELSE "separate"

(* On to the resize, which needs nothing of the StackInfo but its path.     *)
Forget(v) ==
    /\ pc' = [pc EXCEPT ![v] = "separate"]
    /\ seenLen' = [seenLen EXCEPT ![v] = 0]
    /\ seenTime' = [seenTime EXCEPT ![v] = 0]
    /\ seenDigest' = [seenDigest EXCEPT ![v] = None]
    /\ UNCHANGED target

Finish(v) == IF Cloned(v) = "idle" THEN Return(v) ELSE Forget(v)

(* Variant: a clone without a stamp is adopted and stamped.                 *)
AdoptUnstamped(v, d) ==
    CASE slot[v] = None -> "copy"
      [] slot[v] # None /\ stamp[v] = None -> "stamp"
      [] slot[v] # None /\ stamp[v] = d -> Cloned(v)
      [] OTHER -> "idle"

(* An existing clone is reused when its stamp matches the digest; a         *)
(* mismatch, or an unreadable stamp, is an error.                           *)
Lookup(v, d) ==
    CASE slot[v] = None -> "copy"
      [] slot[v] # None /\ stamp[v] = d -> Cloned(v)
      [] OTHER -> "idle"

Hash(v) ==
    /\ pc[v] = "hash"
    /\ CachedHash(seenTime[v])
    /\ LET d == Digest(seenTime[v]) IN
       CASE Lookup(v, d) = "idle" -> Return(v)
         [] Lookup(v, d) \in {"copy", "stamp"} ->
               /\ pc' = [pc EXCEPT ![v] = Lookup(v, d)]
               /\ seenDigest' = [seenDigest EXCEPT ![v] = d]
               /\ UNCHANGED <<target, seenLen, seenTime>>
         [] Lookup(v, d) = "separate" -> Forget(v)
    /\ UNCHANGED <<template, mtime, images, slots, ghosts>>

(* CloneMode: a clone that will be resized must not share the template.     *)
SharedOk(v) == target[v] \in {0, seenLen[v]}

(* clone_file_with_mode: a reflink and a full copy are a new file; a hard   *)
(* link is the template itself.                                             *)
Clone(v) ==
    /\ pc[v] = "copy"
    /\ \/ \E i \in Inodes : /\ Free(i)
                            /\ slot' = [slot EXCEPT ![v] = i]
                            /\ CopyImage(i, template)
       \/ /\ SharedOk(v)
          /\ slot' = [slot EXCEPT ![v] = template]
          /\ UNCHANGED images
    /\ raced' = IF mtime # seenTime[v] THEN raced \cup {v} ELSE raced \ {v}
    /\ pc' = [pc EXCEPT ![v] = "stamp"]
    /\ seenTime' = [seenTime EXCEPT ![v] = 0]
    /\ UNCHANGED <<template, mtime, hash_cache, stamp, sizeStamp, target, seenLen, seenDigest,
                   torn>>

(* The copy fails midway and leaves a partial file.                         *)
CloneFail(v) ==
    /\ pc[v] = "copy"
    /\ \E i \in Inodes : /\ Free(i)
                         /\ slot' = [slot EXCEPT ![v] = i]
                         /\ content' = [content EXCEPT ![i] = None]
                         /\ len' = [len EXCEPT ![i] = 0]
                         /\ fs' = [fs EXCEPT ![i] = 0]
    /\ raced' = raced \ {v}
    /\ Return(v)
    /\ UNCHANGED <<template, mtime, hash_cache, stamp, sizeStamp, torn>>

WriteStamp(v) ==
    /\ pc[v] = "stamp"
    /\ stamp' = [stamp EXCEPT ![v] = seenDigest[v]]
    /\ Finish(v)
    /\ UNCHANGED <<template, mtime, images, hash_cache, slot, sizeStamp, ghosts>>

(* fs::write truncates first: it fails, or the process dies, before the     *)
(* digest is there, and what is there matches none.                         *)
StampTorn(v) ==
    /\ pc[v] = "stamp"
    /\ stamp' = [stamp EXCEPT ![v] = None]
    /\ Return(v)
    /\ UNCHANGED <<template, mtime, images, hash_cache, slot, sizeStamp, ghosts>>

(* Variant: the clone is resized in place, whatever it is linked to.        *)
ResizeInPlace(v) ==
    /\ pc[v] = "separate"
    /\ Goto(v, "grow")
    /\ UNCHANGED <<template, mtime, images, hash_cache, slots, ghosts>>

(* ensure_independent_inode: a clone that is the current template is copied *)
(* to a temporary file, which is renamed over it.                           *)
Separate(v) ==
    /\ pc[v] = "separate"
    /\ IF slot[v] # template
       THEN UNCHANGED <<images, slot>>
       ELSE \E i \in Inodes : /\ Free(i)
                              /\ CopyImage(i, slot[v])
                              /\ slot' = [slot EXCEPT ![v] = i]
    /\ Goto(v, "grow")
    /\ UNCHANGED <<template, mtime, hash_cache, stamp, sizeStamp, ghosts>>

(* Variant: a smaller target truncates the file.                            *)
SetLen(v) ==
    IF target[v] = len[slot[v]]
    THEN Goto(v, "sizestamp") /\ UNCHANGED len
    ELSE Goto(v, "resize") /\ len' = [len EXCEPT ![slot[v]] = target[v]]

(* Variant: the file is left to resize2fs, which does not lengthen it.      *)
StampOnly(v) ==
    /\ Goto(v, IF target[v] = len[slot[v]] THEN "sizestamp" ELSE "resize")
    /\ UNCHANGED len

(* resize_ext4_image_with_bin, before resize2fs: refuse to shrink, skip     *)
(* what already has the length, else extend the file.                       *)
Extend(v) ==
    CASE target[v] < len[slot[v]] -> Return(v) /\ UNCHANGED len
      [] target[v] = len[slot[v]] -> Goto(v, "sizestamp") /\ UNCHANGED len
      [] target[v] > len[slot[v]] ->
            Goto(v, "resize") /\ len' = [len EXCEPT ![slot[v]] = target[v]]

Grow(v) ==
    /\ pc[v] = "grow"
    /\ Extend(v)
    /\ UNCHANGED <<template, mtime, content, fs, hash_cache, slots, ghosts>>

(* resize2fs grows the file system to the length of the file.               *)
Resize2fs(v) ==
    /\ pc[v] = "resize"
    /\ fs' = [fs EXCEPT ![slot[v]] = len[slot[v]]]
    /\ Goto(v, "sizestamp")
    /\ UNCHANGED <<template, mtime, content, len, hash_cache, slots, ghosts>>

(* Variant: the growth is recorded, and computed the wrong way round.       *)
RecordGrowth(v) == len[template] - target[v]

Recorded(v) == target[v]

WriteSizeStamp(v) ==
    /\ pc[v] = "sizestamp"
    /\ sizeStamp' = [sizeStamp EXCEPT ![v] = Recorded(v)]
    /\ Return(v)
    /\ UNCHANGED <<template, mtime, images, hash_cache, slot, stamp, ghosts>>

(* Likewise; what is there does not parse, so every sized call for the slot *)
(* fails until it is released.                                              *)
SizeStampTorn(v) ==
    /\ pc[v] = "sizestamp"
    /\ sizeStamp' = [sizeStamp EXCEPT ![v] = None]
    /\ Return(v)
    /\ UNCHANGED <<template, mtime, images, hash_cache, slot, stamp, ghosts>>

(* Any step of a call can fail without an effect of its own.                *)
StepFail(v) ==
    /\ pc[v] # "idle"
    /\ Return(v)
    /\ UNCHANGED <<template, mtime, images, hash_cache, slots, ghosts>>

(* release: remove_dir_all of the slot.                                     *)
Release(v) ==
    /\ pc[v] = "idle"
    /\ slot' = [slot EXCEPT ![v] = None]
    /\ stamp' = [stamp EXCEPT ![v] = None]
    /\ sizeStamp' = [sizeStamp EXCEPT ![v] = 0]
    /\ raced' = raced \ {v} /\ torn' = torn \ {v}
    /\ UNCHANGED <<template, mtime, images, hash_cache, pc, target, seen>>

Files(v) == {f \in {"image", "stamp", "size"} :
                \/ f = "image" /\ slot[v] # None
                \/ f = "stamp" /\ stamp[v] # None
                \/ f = "size" /\ sizeStamp[v] # 0}

(* release fails, or the process dies, when some of the files are gone.     *)
ReleaseInterrupted(v) ==
    /\ pc[v] = "idle"
    /\ \E gone \in SUBSET Files(v) \ {{}, Files(v)} :
          /\ slot' = IF "image" \in gone THEN [slot EXCEPT ![v] = None] ELSE slot
          /\ stamp' = IF "stamp" \in gone THEN [stamp EXCEPT ![v] = None] ELSE stamp
          /\ sizeStamp' = IF "size" \in gone THEN [sizeStamp EXCEPT ![v] = 0] ELSE sizeStamp
    /\ torn' = torn \cup {v}
    /\ UNCHANGED <<template, mtime, images, hash_cache, pc, target, seen, raced>>

-----------------------------------------------------------------------------
(* The operator installs a template: a new file renamed over the old one.   *)
Rotate(i, d) ==
    /\ mtime < MaxRotations
    /\ Free(i)
    /\ template' = i
    /\ mtime' = mtime + 1
    /\ content' = [content EXCEPT ![i] = d]
    /\ len' = [len EXCEPT ![i] = TemplateLen[d]]
    /\ fs' = [fs EXCEPT ![i] = TemplateLen[d]]
    /\ UNCHANGED <<hash_cache, slots, pc, target, seen, ghosts>>

(* The process dies: every call is gone, and so is the cache.               *)
Crash ==
    /\ pc' = [v \in Slots |-> "idle"]
    /\ target' = [v \in Slots |-> 0]
    /\ seenLen' = [v \in Slots |-> 0]
    /\ seenTime' = [v \in Slots |-> 0]
    /\ seenDigest' = [v \in Slots |-> None]
    /\ hash_cache' = [t \in 0..MaxRotations |-> None]
    /\ UNCHANGED <<template, mtime, images, slots, ghosts>>

Next ==
    \/ \E v \in Slots :
          \/ \E t \in Targets[v] : Begin(v, t)
          \/ Stat(v) \/ Hash(v) \/ Clone(v) \/ CloneFail(v) \/ WriteStamp(v) \/ StampTorn(v)
          \/ Separate(v) \/ Grow(v) \/ Resize2fs(v) \/ WriteSizeStamp(v) \/ SizeStampTorn(v)
          \/ StepFail(v) \/ Release(v) \/ ReleaseInterrupted(v)
    \/ \E i \in Inodes, d \in Digests : Rotate(i, d)
    \/ Crash

Spec == Init /\ [][Next]_vars

-----------------------------------------------------------------------------
Pcs == {"idle", "stat", "hash", "copy", "stamp", "separate", "grow",
        "resize", "sizestamp"}

(* The files of the slots and the local variables of the calls keep the     *)
(* shapes the code gives them; a size stamp that was written whole is a     *)
(* number it can parse back.                                                *)
TypeOK ==
    /\ template \in Inodes /\ mtime \in 0..MaxRotations
    /\ content \in [Inodes -> Digests \cup {None}]
    /\ len \in [Inodes -> Nat] /\ fs \in [Inodes -> Nat]
    /\ hash_cache \in [0..MaxRotations -> Digests \cup {None}]
    /\ slot \in [Slots -> Inodes \cup {None}]
    /\ stamp \in [Slots -> Digests \cup {None}]
    /\ sizeStamp \in [Slots -> Nat \cup {None}]
    /\ pc \in [Slots -> Pcs]
    /\ target \in [Slots -> Nat]
    /\ seenLen \in [Slots -> Nat]
    /\ seenTime \in [Slots -> 0..MaxRotations]
    /\ seenDigest \in [Slots -> Digests \cup {None}]
    /\ raced \in SUBSET Slots /\ torn \in SUBSET Slots

(* "usable rootfs image whose contents match the template": the stamp of a  *)
(* slot is the digest of a complete clone, whatever failed, crashed or was  *)
(* retried, unless the template was replaced during the very call that      *)
(* cloned it or a release of the slot was interrupted.                      *)
StampTellsContent ==
    \A v \in Slots \ (raced \cup torn) :
        stamp[v] # None => slot[v] # None /\ content[slot[v]] = stamp[v]

(* A recorded size is backed by a file of at least that length.             *)
SizeStampBacked ==
    \A v \in Slots \ torn :
        sizeStamp[v] \notin {0, None} => slot[v] # None /\ len[slot[v]] >= sizeStamp[v]

(* set_len and resize2fs never reach the template through a hard link: the  *)
(* registry leaves every template as the operator installed it.             *)
TemplateUntouched ==
    [][template' = template =>
          /\ content'[template] = content[template]
          /\ len'[template] = len[template] /\ fs'[template] = fs[template]]_vars

(* "Resize-down is rejected": no call shortens the image of a slot, also    *)
(* when it retries with a smaller size what failed with a larger one.       *)
NeverShrinks ==
    [][\A v \in Slots : slot[v] # None /\ slot'[v] = slot[v]
                            => len'[slot[v]] >= len[slot[v]]]_vars

(* "the clone file is already at the right size and the filesystem was      *)
(* expanded on the prior call": a recorded size is one resize2fs filled.    *)
FsFillsImage ==
    \A v \in Slots \ torn :
        sizeStamp[v] \notin {0, None} => slot[v] # None /\ fs[slot[v]] >= sizeStamp[v]

(* "a live VM holds a view of the disk's size and changing it underneath    *)
(* would corrupt that view": once the size of a slot is recorded, its image *)
(* keeps its length until it is released.                                   *)
SizeFixed ==
    [][\A v \in Slots : sizeStamp[v] \notin {0, None} /\ slot[v] # None /\ slot'[v] = slot[v]
                            => len'[slot[v]] = len[slot[v]]]_vars
=============================================================================
