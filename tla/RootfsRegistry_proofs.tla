----------------------- MODULE RootfsRegistry_proofs -----------------------
(***************************************************************************)
(* Proofs about RootfsRegistry, for any number of slots, inodes, contents, *)
(* sizes and replacements of the template.                                 *)
(*                                                                         *)
(* Kept is the heart of the argument: a step writes to a file that nobody  *)
(* uses, except Grow and Resize2fs, which write to the file of a slot that *)
(* is not the template (SlotInv).                                          *)
(***************************************************************************)
EXTENDS RootfsRegistry, TLAPS

(* What a call knows of its slot: it copies into an empty one, works on one *)
(* that holds an image, and grows no image that is the template.            *)
SlotInv ==
    \A v \in Slots :
        /\ pc[v] = "copy" => slot[v] = None
        /\ pc[v] \in {"stamp", "separate", "grow", "resize", "sizestamp"} => slot[v] # None
        /\ pc[v] \in {"grow", "resize"} => slot[v] # template

(* The initial files and calls have their types.                            *)
LEMMA InitType == Init => TypeOK /\ SlotInv
  BY RootfsAssumption DEF Init, TypeOK, SlotInv, Pcs

(* The locals of a call keep their types when it returns or goes on.        *)
LEMMA LocalTypes ==
    ASSUME TypeOK, NEW v \in Slots, NEW l \in Pcs, Return(v) \/ Forget(v) \/ Goto(v, l)
    PROVE  /\ pc' \in [Slots -> Pcs]
           /\ target' \in [Slots -> Nat]
           /\ seenLen' \in [Slots -> Nat]
           /\ seenTime' \in [Slots -> 0..MaxRotations]
           /\ seenDigest' \in [Slots -> Digests \cup {None}]
  <1>1. 0 \in 0..MaxRotations
    BY RootfsAssumption
  <1>2. "idle" \in Pcs /\ "separate" \in Pcs
    BY Zenon DEF Pcs
  <1>3. CASE Return(v)
    BY <1>1, <1>2, <1>3, Zenon DEF Return, TypeOK
  <1>4. CASE Forget(v)
    BY <1>1, <1>2, <1>4, Zenon DEF Forget, TypeOK
  <1>5. CASE Goto(v, l)
    BY <1>5, Zenon DEF Goto, TypeOK, seen
  <1> QED
    BY <1>3, <1>4, <1>5, Zenon

(* A digest is always that of an image or a cached one.                     *)
LEMMA HashTypes ==
    ASSUME TypeOK, NEW t \in 0..MaxRotations
    PROVE  /\ CacheKey(t) \in 0..MaxRotations
           /\ Digest(t) \in Digests \cup {None}
           /\ CachedHash(t) => hash_cache' \in [0..MaxRotations -> Digests \cup {None}]
  <1>1. CacheKey(t) \in 0..MaxRotations
    BY RootfsAssumption DEF CacheKey
  <1>2. Digest(t) \in Digests \cup {None}
    BY <1>1, Zenon DEF Digest, TypeOK
  <1> QED
    BY <1>1, <1>2, Zenon DEF CachedHash, TypeOK

(* Grow on a slot whose image is not the template: it returns, skips a file *)
(* of the right length or lengthens a shorter one.                          *)
LEMMA GrowCases ==
    ASSUME TypeOK, SlotInv, NEW v \in Slots, Grow(v)
    PROVE  /\ slot[v] \in Inodes /\ slot[v] # template
           /\ \/ Return(v) /\ len' = len
              \/ Goto(v, "sizestamp") /\ len' = len /\ target[v] = len[slot[v]]
              \/ /\ Goto(v, "resize") /\ len' = [len EXCEPT ![slot[v]] = target[v]]
                 /\ target[v] > len[slot[v]]
  <1>1. slot[v] \in Inodes /\ slot[v] # template
    BY Zenon DEF Grow, SlotInv, TypeOK
  <1>2. target[v] \in Nat /\ len[slot[v]] \in Nat
    BY <1>1, Zenon DEF TypeOK
  <1>3. Extend(v)
    BY Zenon DEF Grow
  <1>4. CASE target[v] < len[slot[v]]
    <2>1. ~(target[v] = len[slot[v]]) /\ ~(target[v] > len[slot[v]])
      BY <1>2, <1>4
    <2> QED
      BY <1>1, <1>3, <1>4, <2>1, Zenon DEF Extend
  <1>5. CASE target[v] = len[slot[v]]
    <2>1. ~(target[v] < len[slot[v]]) /\ ~(target[v] > len[slot[v]])
      BY <1>2, <1>5
    <2> QED
      BY <1>1, <1>3, <1>5, <2>1, Zenon DEF Extend
  <1>6. CASE target[v] > len[slot[v]]
    <2>1. ~(target[v] < len[slot[v]]) /\ ~(target[v] = len[slot[v]])
      BY <1>2, <1>6
    <2> QED
      BY <1>1, <1>3, <1>6, <2>1, Zenon DEF Extend
  <1> QED
    BY <1>2, <1>4, <1>5, <1>6

(* Every step preserves the types.                                          *)
LEMMA TypeStep == TypeOK /\ SlotInv /\ [Next]_vars => TypeOK'
  <1> SUFFICES ASSUME TypeOK, SlotInv, [Next]_vars PROVE TypeOK'
    OBVIOUS
  <1> USE RootfsAssumption
  <1>1. ASSUME NEW v \in Slots, NEW t \in Targets[v], Begin(v, t) PROVE TypeOK'
    <2>1. t \in Nat /\ "stat" \in Pcs
      BY Zenon DEF Pcs
    <2>2. hash_cache' \in [0..MaxRotations -> Digests \cup {None}] /\ seenLen' \in [Slots -> Nat]
      BY <1>1, HashTypes, Zenon DEF Begin, TypeOK
    <2> QED
      BY <1>1, <2>1, <2>2, Zenon DEF Begin, TypeOK, images, slots, ghosts
  <1>2. ASSUME NEW v \in Slots, Stat(v) PROVE TypeOK'
    BY <1>2, Zenon DEF Stat, TypeOK, Pcs, images, slots, ghosts
  <1>3. ASSUME NEW v \in Slots, Hash(v) PROVE TypeOK'
    <2> DEFINE d == Digest(seenTime[v])
    <2>1. seenTime[v] \in 0..MaxRotations
      BY Zenon DEF TypeOK
    <2>2. d \in Digests \cup {None}
      BY <2>1, HashTypes, Zenon
    <2>3. hash_cache' \in [0..MaxRotations -> Digests \cup {None}]
      BY <1>3, <2>1, HashTypes, Zenon DEF Hash
    <2>4. Lookup(v, d) \in {"copy", "idle", "separate"}
      BY Zenon DEF Lookup, Cloned
    <2>5. /\ pc' \in [Slots -> Pcs]
          /\ target' \in [Slots -> Nat]
          /\ seenLen' \in [Slots -> Nat]
          /\ seenTime' \in [Slots -> 0..MaxRotations]
          /\ seenDigest' \in [Slots -> Digests \cup {None}]
      <3>1. "idle" \in Pcs /\ "copy" \in Pcs
        BY Zenon DEF Pcs
      <3>2. CASE Lookup(v, d) = "idle"
        BY <1>3, <3>1, <3>2, LocalTypes, Zenon DEF Hash
      <3>3. CASE Lookup(v, d) = "separate"
        BY <1>3, <3>1, <3>3, LocalTypes, Zenon DEF Hash
      <3>4. CASE Lookup(v, d) = "copy"
        <4>1. /\ pc' = [pc EXCEPT ![v] = "copy"]
              /\ seenDigest' = [seenDigest EXCEPT ![v] = d]
              /\ UNCHANGED <<target, seenLen, seenTime>>
          BY <1>3, <3>4, Zenon DEF Hash
        <4> QED
          BY <2>2, <3>1, <4>1, Zenon DEF TypeOK
      <3> QED
        BY <2>4, <3>2, <3>3, <3>4, Zenon
    <2> QED
      BY <1>3, <2>3, <2>5, Zenon DEF Hash, TypeOK, images, slots, ghosts
  <1>4. ASSUME NEW v \in Slots, Clone(v) PROVE TypeOK'
    <2>1. slot' \in [Slots -> Inodes \cup {None}]
      BY <1>4, Zenon DEF Clone, TypeOK
    <2>2. /\ content' \in [Inodes -> Digests \cup {None}]
          /\ len' \in [Inodes -> Nat] /\ fs' \in [Inodes -> Nat]
      BY <1>4, Zenon DEF Clone, TypeOK, CopyImage, images
    <2>3. raced' \in SUBSET Slots /\ seenTime' \in [Slots -> 0..MaxRotations]
      BY <1>4 DEF Clone, TypeOK
    <2> QED
      BY <1>4, <2>1, <2>2, <2>3, Zenon DEF Clone, TypeOK, Pcs
  <1>5. ASSUME NEW v \in Slots, CloneFail(v) PROVE TypeOK'
    <2>1. "idle" \in Pcs
      BY Zenon DEF Pcs
    <2>2. /\ content' \in [Inodes -> Digests \cup {None}]
          /\ len' \in [Inodes -> Nat] /\ fs' \in [Inodes -> Nat]
          /\ slot' \in [Slots -> Inodes \cup {None}]
      BY <1>5 DEF CloneFail, TypeOK
    <2>3. /\ raced' \in SUBSET Slots /\ Return(v)
          /\ UNCHANGED <<template, mtime, hash_cache, stamp, sizeStamp, torn>>
      BY <1>5, Zenon DEF CloneFail, TypeOK
    <2> QED
      BY <2>1, <2>2, <2>3, LocalTypes, Zenon DEF TypeOK
  <1>6. ASSUME NEW v \in Slots, WriteStamp(v) PROVE TypeOK'
    <2>1. "idle" \in Pcs /\ (Return(v) \/ Forget(v))
      BY <1>6, Zenon DEF Pcs, WriteStamp, Finish
    <2> QED
      BY <1>6, <2>1, LocalTypes, Zenon DEF WriteStamp, TypeOK, images, ghosts
  <1>6a. ASSUME NEW v \in Slots, StampTorn(v) PROVE TypeOK'
    <2>1. "idle" \in Pcs
      BY Zenon DEF Pcs
    <2> QED
      BY <1>6a, <2>1, LocalTypes, Zenon DEF StampTorn, TypeOK, images, ghosts
  <1>7. ASSUME NEW v \in Slots, Separate(v) PROVE TypeOK'
    <2>1. "grow" \in Pcs
      BY Zenon DEF Pcs
    <2>2. /\ content' \in [Inodes -> Digests \cup {None}]
          /\ len' \in [Inodes -> Nat] /\ fs' \in [Inodes -> Nat]
          /\ slot' \in [Slots -> Inodes \cup {None}]
      <3>1. CASE slot[v] # template
        BY <1>7, <3>1, Zenon DEF Separate, TypeOK, images
      <3>2. CASE slot[v] = template
        <4>1. PICK i \in Inodes : CopyImage(i, template) /\ slot' = [slot EXCEPT ![v] = i]
          BY <1>7, <3>2, Zenon DEF Separate
        <4> QED
          BY <4>1, Zenon DEF CopyImage, TypeOK
      <3> QED
        BY <3>1, <3>2, Zenon
    <2> QED
      BY <1>7, <2>1, <2>2, LocalTypes, Zenon DEF Separate, TypeOK, ghosts
  <1>8. ASSUME NEW v \in Slots, Grow(v) PROVE TypeOK'
    <2>1. "sizestamp" \in Pcs /\ "resize" \in Pcs
      BY Zenon DEF Pcs
    <2>2. Return(v) \/ Goto(v, "sizestamp") \/ Goto(v, "resize")
      BY <1>8, GrowCases, Zenon
    <2>3. len' = len \/ len' = [len EXCEPT ![slot[v]] = target[v]]
      BY <1>8, GrowCases, Zenon
    <2>4. len' \in [Inodes -> Nat]
      BY <2>3, Zenon DEF TypeOK
    <2> QED
      BY <1>8, <2>1, <2>2, <2>4, LocalTypes, Zenon DEF Grow, TypeOK, slots, ghosts
  <1>9. ASSUME NEW v \in Slots, Resize2fs(v) PROVE TypeOK'
    <2>1. "sizestamp" \in Pcs
      BY Zenon DEF Pcs
    <2>2. fs' \in [Inodes -> Nat]
      BY <1>9, Zenon DEF Resize2fs, TypeOK
    <2> QED
      BY <1>9, <2>1, <2>2, LocalTypes, Zenon DEF Resize2fs, TypeOK, slots, ghosts
  <1>10. ASSUME NEW v \in Slots, WriteSizeStamp(v) PROVE TypeOK'
    <2>1. "idle" \in Pcs
      BY Zenon DEF Pcs
    <2> QED
      BY <1>10, <2>1, LocalTypes, Zenon DEF WriteSizeStamp, Recorded, TypeOK, images, ghosts
  <1>10a. ASSUME NEW v \in Slots, SizeStampTorn(v) PROVE TypeOK'
    <2>1. "idle" \in Pcs
      BY Zenon DEF Pcs
    <2> QED
      BY <1>10a, <2>1, LocalTypes, Zenon DEF SizeStampTorn, TypeOK, images, ghosts
  <1>11. ASSUME NEW v \in Slots, StepFail(v) PROVE TypeOK'
    <2>1. "idle" \in Pcs
      BY Zenon DEF Pcs
    <2> QED
      BY <1>11, <2>1, LocalTypes, Zenon DEF StepFail, TypeOK, images, slots, ghosts
  <1>12. ASSUME NEW v \in Slots, Release(v) PROVE TypeOK'
    BY <1>12, Zenon DEF Release, TypeOK, images, seen
  <1>13. ASSUME NEW v \in Slots, ReleaseInterrupted(v) PROVE TypeOK'
    <2>1. /\ slot' = slot \/ slot' = [slot EXCEPT ![v] = None]
          /\ stamp' = stamp \/ stamp' = [stamp EXCEPT ![v] = None]
          /\ sizeStamp' = sizeStamp \/ sizeStamp' = [sizeStamp EXCEPT ![v] = 0]
          /\ torn' = torn \cup {v}
          /\ UNCHANGED <<template, mtime, images, hash_cache, pc, target, seen, raced>>
      BY <1>13, Zenon DEF ReleaseInterrupted
    <2>2. slot' \in [Slots -> Inodes \cup {None}] /\ stamp' \in [Slots -> Digests \cup {None}]
      BY <2>1, Zenon DEF TypeOK
    <2>3. sizeStamp' \in [Slots -> Nat \cup {None}]
      <3>1. sizeStamp \in [Slots -> Nat \cup {None}] /\ 0 \in Nat
        BY Zenon DEF TypeOK
      <3> QED
        BY <2>1, <3>1, Zenon
    <2>4. torn' \in SUBSET Slots
      BY <2>1, Zenon DEF TypeOK
    <2> QED
      BY <2>1, <2>2, <2>3, <2>4, Zenon DEF TypeOK, images, seen
  <1>14. ASSUME NEW i \in Inodes, NEW d \in Digests, Rotate(i, d) PROVE TypeOK'
    <2>1. mtime + 1 \in 0..MaxRotations /\ TemplateLen[d] \in Nat
      BY <1>14 DEF Rotate, TypeOK
    <2> QED
      BY <1>14, <2>1, Zenon DEF Rotate, TypeOK, slots, seen, ghosts
  <1>15. CASE Crash
    BY <1>15 DEF Crash, TypeOK, Pcs, images, slots, ghosts
  <1>16. CASE UNCHANGED vars
    BY <1>16, Zenon DEF vars, TypeOK, images, slots, seen, ghosts
  <1> QED
    BY <1>1, <1>2, <1>3, <1>4, <1>5, <1>6, <1>6a, <1>7, <1>8, <1>9, <1>10, <1>10a, <1>11,
       <1>12, <1>13, <1>14, <1>15, <1>16, Zenon DEF Next

(* Every step preserves what the calls know of their slots: a call of       *)
(* another slot never touches this one, and a new template is a new file.   *)
LEMMA SlotStep == TypeOK /\ SlotInv /\ [Next]_vars => SlotInv'
  <1> SUFFICES ASSUME TypeOK, SlotInv, [Next]_vars, NEW w \in Slots
               PROVE  /\ pc'[w] = "copy" => slot'[w] = None
                      /\ pc'[w] \in {"stamp", "separate", "grow", "resize", "sizestamp"}
                            => slot'[w] # None
                      /\ pc'[w] \in {"grow", "resize"} => slot'[w] # template'
    BY Zenon DEF SlotInv
  <1> DEFINE OK == /\ pc'[w] = "copy" => slot'[w] = None
                   /\ pc'[w] \in {"stamp", "separate", "grow", "resize", "sizestamp"}
                         => slot'[w] # None
                   /\ pc'[w] \in {"grow", "resize"} => slot'[w] # template'
  <1> SUFFICES OK
    OBVIOUS
  <1> USE RootfsAssumption
  <1>0. /\ pc[w] = "copy" => slot[w] = None
        /\ pc[w] \in {"stamp", "separate", "grow", "resize", "sizestamp"} => slot[w] # None
        /\ pc[w] \in {"grow", "resize"} => slot[w] # template
        /\ pc \in [Slots -> Pcs] /\ slot \in [Slots -> Inodes \cup {None}]
        /\ template \in Inodes
    BY Zenon DEF SlotInv, TypeOK
  <1>1. ASSUME NEW v \in Slots, NEW t \in Targets[v], Begin(v, t) PROVE OK
    BY <1>0, <1>1, Zenon DEF Begin, slots
  <1>2. ASSUME NEW v \in Slots, Stat(v) PROVE OK
    BY <1>0, <1>2, Zenon DEF Stat, slots
  <1>3. ASSUME NEW v \in Slots, Hash(v) PROVE OK
    <2> DEFINE d == Digest(seenTime[v])
    <2>1. /\ Lookup(v, d) \in {"copy", "idle", "separate"}
          /\ Lookup(v, d) = "copy" => slot[v] = None
          /\ Lookup(v, d) = "separate" => slot[v] # None
      BY Zenon DEF Lookup, Cloned
    <2>2. UNCHANGED <<slot, template>> /\ pc' = [pc EXCEPT ![v] = Lookup(v, d)]
      BY <1>3, <2>1, Zenon DEF Hash, slots, Return, Forget
    <2> HIDE DEF d
    <2> QED
      BY <1>0, <2>1, <2>2, Zenon
  <1>4. ASSUME NEW v \in Slots, Clone(v) PROVE OK
    <2>1. /\ pc' = [pc EXCEPT ![v] = "stamp"] /\ template' = template
          /\ \E i \in Inodes : slot' = [slot EXCEPT ![v] = i]
      BY <1>0, <1>4, Zenon DEF Clone
    <2> QED
      BY <1>0, <2>1, Zenon
  <1>5. ASSUME NEW v \in Slots, CloneFail(v) PROVE OK
    <2>1. /\ pc' = [pc EXCEPT ![v] = "idle"] /\ template' = template
          /\ \E i \in Inodes : slot' = [slot EXCEPT ![v] = i]
      BY <1>5, Zenon DEF CloneFail, Return
    <2> QED
      BY <1>0, <2>1, Zenon
  <1>6. ASSUME NEW v \in Slots, WriteStamp(v) PROVE OK
    <2>1. /\ \E l \in {"idle", "separate"} : pc' = [pc EXCEPT ![v] = l]
          /\ pc[v] = "stamp" /\ UNCHANGED <<slot, template>>
      BY <1>6, Zenon DEF WriteStamp, Finish, Return, Forget
    <2>2. slot[v] # None
      BY <2>1, Zenon DEF SlotInv
    <2> QED
      BY <1>0, <2>1, <2>2, Zenon
  <1>7. ASSUME NEW v \in Slots, Separate(v) PROVE OK
    <2>1. /\ pc[v] = "separate" /\ pc' = [pc EXCEPT ![v] = "grow"] /\ template' = template
          /\ \/ slot[v] # template /\ slot' = slot
             \/ \E i \in Inodes : i # template /\ slot' = [slot EXCEPT ![v] = i]
      BY <1>7, Zenon DEF Separate, Goto, Free
    <2>2. slot[v] # None
      BY <2>1, Zenon DEF SlotInv
    <2> QED
      BY <1>0, <2>1, <2>2, Zenon
  <1>8. ASSUME NEW v \in Slots, Grow(v) PROVE OK
    <2>1. /\ pc[v] = "grow" /\ UNCHANGED <<slot, template>>
      BY <1>8, Zenon DEF Grow, slots
    <2>2. slot[v] # None /\ slot[v] # template
      BY <2>1, Zenon DEF SlotInv
    <2>4. \E l \in {"idle", "sizestamp", "resize"} : pc' = [pc EXCEPT ![v] = l]
      BY <1>8, GrowCases, Zenon DEF Return, Goto
    <2> QED
      BY <1>0, <2>1, <2>2, <2>4, Zenon
  <1>9. ASSUME NEW v \in Slots, Resize2fs(v) PROVE OK
    <2>1. /\ pc[v] = "resize" /\ UNCHANGED <<slot, template>>
          /\ pc' = [pc EXCEPT ![v] = "sizestamp"]
      BY <1>9, Zenon DEF Resize2fs, slots, Goto
    <2>2. slot[v] # None
      BY <2>1, Zenon DEF SlotInv
    <2> QED
      BY <1>0, <2>1, <2>2, Zenon
  <1>10. ASSUME NEW v \in Slots, WriteSizeStamp(v) PROVE OK
    BY <1>0, <1>10, Zenon DEF WriteSizeStamp, Return
  <1>6a. ASSUME NEW v \in Slots, StampTorn(v) PROVE OK
    BY <1>0, <1>6a, Zenon DEF StampTorn, Return
  <1>10a. ASSUME NEW v \in Slots, SizeStampTorn(v) PROVE OK
    BY <1>0, <1>10a, Zenon DEF SizeStampTorn, Return
  <1>11. ASSUME NEW v \in Slots, StepFail(v) PROVE OK
    BY <1>0, <1>11, Zenon DEF StepFail, Return, slots
  <1>12. ASSUME NEW v \in Slots, Release(v) PROVE OK
    BY <1>0, <1>12, Zenon DEF Release
  <1>13. ASSUME NEW v \in Slots, ReleaseInterrupted(v) PROVE OK
    <2>1. /\ pc[v] = "idle" /\ UNCHANGED <<pc, template>>
          /\ \/ slot' = slot
             \/ slot' = [slot EXCEPT ![v] = None]
      BY <1>13, Zenon DEF ReleaseInterrupted
    <2> QED
      BY <1>0, <2>1, Zenon
  <1>14. ASSUME NEW i \in Inodes, NEW d \in Digests, Rotate(i, d) PROVE OK
    <2>1. UNCHANGED <<pc, slot>> /\ template' = i /\ slot[w] # i
      BY <1>14, Zenon DEF Rotate, slots, Free
    <2> QED
      BY <1>0, <2>1, Zenon
  <1>15. CASE Crash
    BY <1>15, Zenon DEF Crash
  <1>16. CASE UNCHANGED vars
    BY <1>0, <1>16, Zenon DEF vars, slots
  <1> QED
    BY <1>1, <1>2, <1>3, <1>4, <1>5, <1>6, <1>6a, <1>7, <1>8, <1>9, <1>10, <1>10a, <1>11,
       <1>12, <1>13, <1>14, <1>15, <1>16, Zenon DEF Next

(* The registry keeps its types.                                            *)
THEOREM TypesHold == Spec => []TypeOK
  BY InitType, TypeStep, SlotStep, PTL DEF Spec

-----------------------------------------------------------------------------
(* No step changes what a file in use holds or shortens it, and no step     *)
(* changes the template in any way.                                         *)
LEMMA Kept ==
    ASSUME TypeOK, SlotInv, [Next]_vars, NEW j \in Inodes, ~Free(j)
    PROVE  /\ content'[j] = content[j] /\ len'[j] >= len[j]
           /\ j = template => len'[j] = len[j] /\ fs'[j] = fs[j]
  <1> DEFINE OK == /\ content'[j] = content[j] /\ len'[j] >= len[j]
                   /\ j = template => len'[j] = len[j] /\ fs'[j] = fs[j]
  <1> SUFFICES OK
    OBVIOUS
  <1>0. /\ content \in [Inodes -> Digests \cup {None}]
        /\ len \in [Inodes -> Nat] /\ fs \in [Inodes -> Nat]
    BY Zenon DEF TypeOK
  <1>a. ASSUME UNCHANGED images PROVE OK
    BY <1>0, <1>a DEF images
  <1>b. ASSUME NEW i \in Inodes, Free(i), NEW k \in Inodes, CopyImage(i, k) PROVE OK
    <2>1. i # j
      BY <1>b, Zenon
    <2> QED
      BY <1>0, <1>b, <2>1 DEF CopyImage
  <1>1. ASSUME NEW v \in Slots, Clone(v) PROVE OK
    <2>1. template \in Inodes
      BY Zenon DEF TypeOK
    <2> QED
      BY <1>1, <1>a, <1>b, <2>1, Zenon DEF Clone
  <1>2. ASSUME NEW v \in Slots, CloneFail(v) PROVE OK
    <2>1. PICK i \in Inodes : /\ Free(i)
                              /\ content' = [content EXCEPT ![i] = None]
                              /\ len' = [len EXCEPT ![i] = 0]
                              /\ fs' = [fs EXCEPT ![i] = 0]
      BY <1>2, Zenon DEF CloneFail
    <2>2. i # j
      BY <2>1, Zenon
    <2> QED
      BY <1>0, <2>1, <2>2
  <1>3. ASSUME NEW v \in Slots, Separate(v) PROVE OK
    <2>1. CASE slot[v] # template
      BY <1>3, <1>a, <2>1, Zenon DEF Separate
    <2>2. CASE slot[v] = template
      <3>1. template \in Inodes
        BY Zenon DEF TypeOK
      <3> QED
        BY <1>3, <1>b, <2>2, <3>1, Zenon DEF Separate
    <2> QED
      BY <2>1, <2>2, Zenon
  <1>4. ASSUME NEW v \in Slots, Grow(v) PROVE OK
    <2>1. /\ UNCHANGED <<content, fs>>
          /\ slot[v] \in Inodes /\ slot[v] # template /\ target[v] \in Nat
          /\ \/ len' = len
             \/ len' = [len EXCEPT ![slot[v]] = target[v]] /\ target[v] > len[slot[v]]
      BY <1>4, GrowCases, Zenon DEF Grow, TypeOK
    <2> QED
      BY <1>0, <2>1
  <1>5. ASSUME NEW v \in Slots, Resize2fs(v) PROVE OK
    <2>1. /\ UNCHANGED <<content, len>> /\ slot[v] # template
          /\ fs' = [fs EXCEPT ![slot[v]] = len[slot[v]]]
      BY <1>5, Zenon DEF Resize2fs, SlotInv
    <2> QED
      BY <1>0, <2>1
  <1>6. ASSUME NEW i \in Inodes, NEW d \in Digests, Rotate(i, d) PROVE OK
    <2>1. i # j
      BY <1>6, Zenon DEF Rotate
    <2> QED
      BY <1>0, <1>6, <2>1 DEF Rotate
  <1>7. ASSUME NEW v \in Slots,
               \/ \E t \in Targets[v] : Begin(v, t)
               \/ Stat(v) \/ Hash(v) \/ WriteStamp(v) \/ StampTorn(v)
               \/ WriteSizeStamp(v) \/ SizeStampTorn(v) \/ StepFail(v)
               \/ Release(v) \/ ReleaseInterrupted(v)
        PROVE  OK
    BY <1>7, <1>a, Zenon DEF Begin, Stat, Hash, WriteStamp, StampTorn, WriteSizeStamp,
                      SizeStampTorn, StepFail, Release, ReleaseInterrupted
  <1>8. CASE Crash
    BY <1>8, <1>a, Zenon DEF Crash
  <1>9. CASE UNCHANGED vars
    BY <1>9, <1>a, Zenon DEF vars
  <1> QED
    BY <1>1, <1>2, <1>3, <1>4, <1>5, <1>6, <1>7, <1>8, <1>9, Zenon DEF Next

(* Hard links never let the registry write to the template.                 *)
THEOREM TemplateUntouchedHolds == Spec => TemplateUntouched
  <1>1. TypeOK /\ SlotInv /\ [Next]_vars =>
            [template' = template =>
                /\ content'[template] = content[template]
                /\ len'[template] = len[template] /\ fs'[template] = fs[template]]_vars
    <2> SUFFICES ASSUME TypeOK, SlotInv, [Next]_vars
                 PROVE  /\ content'[template] = content[template]
                        /\ len'[template] = len[template] /\ fs'[template] = fs[template]
      OBVIOUS
    <2>1. template \in Inodes /\ ~Free(template)
      BY Zenon DEF TypeOK, Free
    <2> QED
      BY <2>1, Kept, Zenon
  <1> QED
    BY <1>1, InitType, TypeStep, SlotStep, PTL DEF Spec, TemplateUntouched

(* No call, and no retry of a failed one, shortens the image of a slot.     *)
THEOREM NeverShrinksHolds == Spec => NeverShrinks
  <1>1. TypeOK /\ SlotInv /\ [Next]_vars =>
            [\A v \in Slots : slot[v] # None /\ slot'[v] = slot[v]
                                 => len'[slot[v]] >= len[slot[v]]]_vars
    <2> SUFFICES ASSUME TypeOK, SlotInv, [Next]_vars, NEW v \in Slots, slot[v] # None
                 PROVE  len'[slot[v]] >= len[slot[v]]
      OBVIOUS
    <2>1. slot[v] \in Inodes /\ ~Free(slot[v])
      BY Zenon DEF TypeOK, Free
    <2> QED
      BY <2>1, Kept, Zenon
  <1> QED
    BY <1>1, InitType, TypeStep, SlotStep, PTL DEF Spec, NeverShrinks

-----------------------------------------------------------------------------
(* The steps of a call on slot v, and its release.                          *)
StepOf(v) ==
    \/ \E t \in Targets[v] : Begin(v, t)
    \/ Stat(v) \/ Hash(v) \/ Clone(v) \/ CloneFail(v) \/ WriteStamp(v) \/ StampTorn(v)
    \/ Separate(v) \/ Grow(v) \/ Resize2fs(v) \/ WriteSizeStamp(v) \/ SizeStampTorn(v)
    \/ StepFail(v) \/ Release(v) \/ ReleaseInterrupted(v)

(* A slot and the call on it, as seen by the invariants.                    *)
SameSlot(w) ==
    /\ slot'[w] = slot[w] /\ stamp'[w] = stamp[w] /\ sizeStamp'[w] = sizeStamp[w]
    /\ pc'[w] = pc[w] /\ target'[w] = target[w]
    /\ seenTime'[w] = seenTime[w] /\ seenDigest'[w] = seenDigest[w]
    /\ (w \in raced') = (w \in raced) /\ (w \in torn') = (w \in torn)

(* A step of one call leaves the other slots and calls alone.               *)
LEMMA OtherSlots ==
    ASSUME TypeOK, SlotInv, NEW v \in Slots, NEW w \in Slots, w # v, StepOf(v)
    PROVE  SameSlot(w)
  <1> USE DEF SameSlot
  <1>0. /\ slot \in [Slots -> Inodes \cup {None}] /\ stamp \in [Slots -> Digests \cup {None}]
        /\ sizeStamp \in [Slots -> Nat \cup {None}]
        /\ pc \in [Slots -> Pcs] /\ target \in [Slots -> Nat]
        /\ seenTime \in [Slots -> 0..MaxRotations]
        /\ seenDigest \in [Slots -> Digests \cup {None}]
    BY Zenon DEF TypeOK
  <1>a. ASSUME NEW l, Return(v) \/ Forget(v) \/ Goto(v, l)
        PROVE  /\ pc'[w] = pc[w] /\ target'[w] = target[w]
               /\ seenTime'[w] = seenTime[w] /\ seenDigest'[w] = seenDigest[w]
    BY <1>0, <1>a, Zenon DEF Return, Forget, Goto, seen
  <1>1. ASSUME NEW t \in Targets[v], Begin(v, t) PROVE SameSlot(w)
    BY <1>0, <1>1, Zenon DEF Begin, slots, ghosts
  <1>2. CASE Stat(v)
    BY <1>0, <1>2, Zenon DEF Stat, slots, ghosts
  <1>3. CASE Hash(v)
    <2> DEFINE d == Digest(seenTime[v])
    <2>1. Lookup(v, d) \in {"copy", "idle", "separate"}
      BY Zenon DEF Lookup, Cloned
    <2>2. \/ Return(v) \/ Forget(v)
          \/ /\ pc' = [pc EXCEPT ![v] = Lookup(v, d)]
             /\ seenDigest' = [seenDigest EXCEPT ![v] = d]
             /\ UNCHANGED <<target, seenLen, seenTime>>
      BY <1>3, <2>1, Zenon DEF Hash
    <2>3. UNCHANGED slots /\ UNCHANGED ghosts
      BY <1>3, Zenon DEF Hash
    <2> HIDE DEF d
    <2> QED
      BY <1>0, <1>a, <2>2, <2>3, Zenon DEF slots, ghosts
  <1>4. CASE Clone(v)
    <2>1. /\ slot'[w] = slot[w] /\ (w \in raced') = (w \in raced)
      BY <1>0, <1>4 DEF Clone
    <2> QED
      BY <1>0, <1>4, <2>1, Zenon DEF Clone
  <1>5. CASE CloneFail(v)
    <2>1. /\ slot'[w] = slot[w] /\ (w \in raced') = (w \in raced)
      BY <1>0, <1>5 DEF CloneFail
    <2>2. Return(v) /\ UNCHANGED <<stamp, sizeStamp, torn>>
      BY <1>5, Zenon DEF CloneFail
    <2> QED
      BY <1>a, <2>1, <2>2, Zenon
  <1>6. CASE WriteStamp(v)
    <2>1. Return(v) \/ Forget(v)
      BY <1>6, Zenon DEF WriteStamp, Finish
    <2> QED
      BY <1>0, <1>a, <1>6, <2>1, Zenon DEF WriteStamp, ghosts
  <1>7. CASE Separate(v)
    <2>1. slot'[w] = slot[w]
      BY <1>0, <1>7, Zenon DEF Separate
    <2>2. Goto(v, "grow") /\ UNCHANGED <<stamp, sizeStamp, ghosts>>
      BY <1>7, Zenon DEF Separate
    <2> QED
      BY <1>a, <2>1, <2>2, Zenon DEF ghosts
  <1>8. CASE Grow(v)
    <2>1. Return(v) \/ Goto(v, "sizestamp") \/ Goto(v, "resize")
      BY <1>8, GrowCases, Zenon
    <2>2. UNCHANGED slots /\ UNCHANGED ghosts
      BY <1>8, Zenon DEF Grow
    <2> QED
      BY <1>a, <2>1, <2>2, Zenon DEF slots, ghosts
  <1>9. CASE Resize2fs(v)
    BY <1>a, <1>9, Zenon DEF Resize2fs, slots, ghosts
  <1>10. CASE WriteSizeStamp(v)
    BY <1>0, <1>a, <1>10, Zenon DEF WriteSizeStamp, ghosts
  <1>6a. CASE StampTorn(v)
    BY <1>0, <1>a, <1>6a, Zenon DEF StampTorn, ghosts
  <1>10a. CASE SizeStampTorn(v)
    BY <1>0, <1>a, <1>10a, Zenon DEF SizeStampTorn, ghosts
  <1>11. CASE StepFail(v)
    BY <1>a, <1>11, Zenon DEF StepFail, slots, ghosts
  <1>12. CASE Release(v)
    BY <1>0, <1>12 DEF Release, seen
  <1>13. CASE ReleaseInterrupted(v)
    <2>1. /\ slot' = slot \/ slot' = [slot EXCEPT ![v] = None]
          /\ stamp' = stamp \/ stamp' = [stamp EXCEPT ![v] = None]
          /\ sizeStamp' = sizeStamp \/ sizeStamp' = [sizeStamp EXCEPT ![v] = 0]
          /\ torn' = torn \cup {v}
          /\ UNCHANGED <<pc, target, seen, raced>>
      BY <1>13, Zenon DEF ReleaseInterrupted
    <2> QED
      BY <1>0, <2>1 DEF seen
  <1> QED
    BY <1>1, <1>2, <1>3, <1>4, <1>5, <1>6, <1>6a, <1>7, <1>8, <1>9, <1>10, <1>10a, <1>11,
       <1>12, <1>13, Zenon DEF StepOf

(* A file a call or a size stamp relies on is long enough.                  *)
SizeInv ==
    \A v \in Slots :
        /\ pc[v] \in {"resize", "sizestamp"} => len[slot[v]] >= target[v]
        /\ v \notin torn /\ sizeStamp[v] \notin {0, None}
              => slot[v] # None /\ len[slot[v]] >= sizeStamp[v]

(* Every step preserves it.                                                 *)
LEMMA SizeStep == TypeOK /\ SlotInv /\ SizeInv /\ [Next]_vars => SizeInv'
  <1> SUFFICES ASSUME TypeOK, SlotInv, SizeInv, [Next]_vars, NEW w \in Slots
               PROVE  /\ pc'[w] \in {"resize", "sizestamp"} => len'[slot'[w]] >= target'[w]
                      /\ w \notin torn' /\ sizeStamp'[w] \notin {0, None}
                            => slot'[w] # None /\ len'[slot'[w]] >= sizeStamp'[w]
    BY Zenon DEF SizeInv
  <1> DEFINE OK == /\ pc'[w] \in {"resize", "sizestamp"} => len'[slot'[w]] >= target'[w]
                   /\ w \notin torn' /\ sizeStamp'[w] \notin {0, None}
                         => slot'[w] # None /\ len'[slot'[w]] >= sizeStamp'[w]
  <1> SUFFICES OK
    OBVIOUS
  <1>0. /\ slot \in [Slots -> Inodes \cup {None}]
        /\ sizeStamp \in [Slots -> Nat \cup {None}]
        /\ pc \in [Slots -> Pcs] /\ target \in [Slots -> Nat] /\ len \in [Inodes -> Nat]
        /\ pc[w] \in {"resize", "sizestamp"} => slot[w] # None /\ len[slot[w]] >= target[w]
        /\ w \notin torn /\ sizeStamp[w] \notin {0, None}
              => slot[w] # None /\ len[slot[w]] >= sizeStamp[w]
    BY Zenon DEF TypeOK, SizeInv, SlotInv
  <1>k. slot[w] # None => /\ slot[w] \in Inodes /\ len'[slot[w]] \in Nat
                          /\ len'[slot[w]] >= len[slot[w]]
    <2>1. slot[w] # None => slot[w] \in Inodes /\ ~Free(slot[w])
      BY <1>0, Zenon DEF Free
    <2>2. len' \in [Inodes -> Nat]
      BY TypeStep, Zenon DEF TypeOK
    <2> QED
      BY <2>1, <2>2, Kept, Zenon
  <1>s. ASSUME /\ slot'[w] = slot[w] /\ sizeStamp'[w] = sizeStamp[w]
               /\ w \notin torn' => w \notin torn
               /\ \/ pc'[w] = pc[w] /\ target'[w] = target[w]
                  \/ pc'[w] \notin {"resize", "sizestamp"}
        PROVE  OK
    BY <1>0, <1>k, <1>s
  <1>1. ASSUME NEW v \in Slots, v # w, StepOf(v) PROVE OK
    BY <1>1, <1>s, OtherSlots, Zenon DEF SameSlot
  <1>2. ASSUME NEW t \in Targets[w], Begin(w, t) PROVE OK
    BY <1>0, <1>2, <1>s, Zenon DEF Begin, slots, ghosts
  <1>3. CASE Stat(w)
    BY <1>0, <1>3, <1>s, Zenon DEF Stat, slots, ghosts
  <1>4. CASE Hash(w)
    <2>1. Lookup(w, Digest(seenTime[w])) \in {"copy", "idle", "separate"}
      BY Zenon DEF Lookup, Cloned
    <2>2. pc'[w] \in {"copy", "idle", "separate"}
      BY <1>0, <1>4, <2>1, Zenon DEF Hash, Return, Forget
    <2> QED
      BY <1>4, <1>s, <2>2, Zenon DEF Hash, slots, ghosts
  <1>5. CASE Clone(w) \/ CloneFail(w)
    <2>1. pc[w] = "copy" /\ UNCHANGED <<sizeStamp, torn>>
      BY <1>5, Zenon DEF Clone, CloneFail
    <2>2. slot[w] = None
      BY <2>1, Zenon DEF SlotInv
    <2>3. pc'[w] \in {"stamp", "idle"}
      BY <1>0, <1>5, Zenon DEF Clone, CloneFail, Return
    <2> QED
      BY <1>0, <2>1, <2>2, <2>3, Zenon
  <1>6. CASE WriteStamp(w)
    <2>1. pc'[w] \in {"idle", "separate"}
      BY <1>0, <1>6, Zenon DEF WriteStamp, Finish, Return, Forget
    <2> QED
      BY <1>6, <1>s, <2>1, Zenon DEF WriteStamp, ghosts
  <1>7. CASE Separate(w)
    <2>1. pc'[w] = "grow" /\ UNCHANGED <<sizeStamp, torn>>
      BY <1>0, <1>7, Zenon DEF Separate, Goto, ghosts
    <2>2. CASE slot[w] # template
      BY <1>7, <1>s, <2>1, <2>2, Zenon DEF Separate
    <2>3. CASE slot[w] = template
      <3>1. PICK i \in Inodes : CopyImage(i, slot[w]) /\ slot' = [slot EXCEPT ![w] = i]
        BY <1>7, <2>3, Zenon DEF Separate
      <3>2. slot'[w] = i /\ i # None /\ len'[i] = len[slot[w]]
        BY <1>0, <3>1, RootfsAssumption, Zenon DEF CopyImage
      <3> QED
        BY <1>0, <2>1, <3>2, Zenon
    <2> QED
      BY <2>2, <2>3, Zenon
  <1>8. CASE Grow(w)
    <2>1. UNCHANGED <<slot, sizeStamp, torn>> /\ slot[w] \in Inodes /\ slot[w] # None
      BY <1>8, GrowCases, RootfsAssumption, Zenon DEF Grow, slots, ghosts
    <2>2. CASE Return(w)
      BY <1>0, <1>s, <2>1, <2>2, Zenon DEF Return
    <2>3. CASE Goto(w, "sizestamp") /\ len' = len /\ target[w] = len[slot[w]]
      BY <1>0, <2>1, <2>3 DEF Goto
    <2>4. CASE /\ Goto(w, "resize") /\ len' = [len EXCEPT ![slot[w]] = target[w]]
               /\ target[w] > len[slot[w]]
      <3>1. len'[slot[w]] = target[w] /\ target'[w] = target[w] /\ slot'[w] = slot[w]
        BY <1>0, <2>1, <2>4, Zenon DEF Goto
      <3> QED
        BY <1>0, <1>k, <2>1, <3>1
    <2> QED
      BY <1>8, <2>2, <2>3, <2>4, GrowCases, Zenon
  <1>9. CASE Resize2fs(w)
    <2>1. UNCHANGED <<slot, sizeStamp, torn, len, target>> /\ pc[w] = "resize"
      BY <1>9, Zenon DEF Resize2fs, slots, ghosts, Goto
    <2> QED
      BY <1>0, <2>1, Zenon
  <1>10. CASE WriteSizeStamp(w)
    <2>1. /\ pc[w] = "sizestamp" /\ sizeStamp'[w] = target[w] /\ pc'[w] = "idle"
          /\ UNCHANGED <<slot, len>>
      BY <1>0, <1>10, Zenon DEF WriteSizeStamp, Recorded, Return, images
    <2> QED
      BY <1>0, <2>1, Zenon
  <1>6a. CASE StampTorn(w)
    BY <1>0, <1>6a, <1>s, Zenon DEF StampTorn, Return, ghosts
  <1>10a. CASE SizeStampTorn(w)
    <2>1. sizeStamp'[w] = None /\ pc'[w] = "idle"
      BY <1>0, <1>10a, Zenon DEF SizeStampTorn, Return
    <2> QED
      BY <2>1, Zenon
  <1>11. CASE StepFail(w)
    BY <1>0, <1>11, <1>s, Zenon DEF StepFail, Return, slots, ghosts
  <1>12. CASE Release(w)
    BY <1>0, <1>12, Zenon DEF Release
  <1>13. CASE ReleaseInterrupted(w)
    <2>1. pc'[w] = "idle" /\ w \in torn'
      BY <1>13, Zenon DEF ReleaseInterrupted
    <2> QED
      BY <2>1, Zenon
  <1>14. ASSUME NEW i \in Inodes, NEW d \in Digests, Rotate(i, d) PROVE OK
    BY <1>14, <1>s, Zenon DEF Rotate, slots, ghosts
  <1>15. CASE Crash
    <2>1. pc'[w] = "idle" /\ UNCHANGED <<slot, sizeStamp, torn>>
      BY <1>15, Zenon DEF Crash, slots, ghosts
    <2> QED
      BY <1>s, <2>1, Zenon
  <1>16. CASE UNCHANGED vars
    BY <1>16, <1>s, Zenon DEF vars, slots, ghosts
  <1>17. StepOf(w) => OK
    BY <1>2, <1>3, <1>4, <1>5, <1>6, <1>6a, <1>7, <1>8, <1>9, <1>10, <1>10a, <1>11, <1>12,
       <1>13, Zenon DEF StepOf
  <1> QED
    BY <1>1, <1>14, <1>15, <1>16, <1>17, Zenon DEF Next, StepOf

(* A size stamp is only ever written for a file of that length, and no      *)
(* failure, retry or call on another slot takes the length away again.      *)
THEOREM SizeStampBackedHolds == Spec => []SizeStampBacked
  <1>1. Init => SizeInv
    BY Zenon DEF Init, SizeInv
  <1>2. SizeInv => SizeStampBacked
    BY Zenon DEF SizeInv, SizeStampBacked
  <1> QED
    BY <1>1, <1>2, InitType, TypeStep, SlotStep, SizeStep, PTL DEF Spec

-----------------------------------------------------------------------------
(* The digest cached under the current modification time is that of the     *)
(* current template; nothing is cached under a later one.                   *)
CacheInv ==
    /\ hash_cache[mtime] \in {None, content[template]}
    /\ \A t \in 0..MaxRotations : t > mtime => hash_cache[t] = None
    /\ \A v \in Slots : seenTime[v] <= mtime

(* The digest a call is about to record is that of what it copied, and the  *)
(* one recorded is that of what is there.                                   *)
StampInv ==
    \A v \in Slots :
        /\ pc[v] = "copy" /\ seenTime[v] = mtime => seenDigest[v] = content[template]
        /\ pc[v] = "stamp" /\ v \notin raced => content[slot[v]] = seenDigest[v]
        /\ v \notin torn /\ stamp[v] # None => slot[v] # None
        /\ v \notin torn \cup raced /\ stamp[v] # None => content[slot[v]] = stamp[v]

(* With modification times, the digest of what a call has looked at is that *)
(* of the template unless the template was replaced since.                  *)
LEMMA DigestNow ==
    ASSUME HasMtime, TypeOK, CacheInv, NEW v \in Slots, seenTime[v] = mtime
    PROVE  Digest(seenTime[v]) = content[template]
  BY Zenon DEF Digest, CacheKey, CacheInv

(* What hashing leaves in the cache keeps CacheInv.                         *)
LEMMA HashStep ==
    ASSUME HasMtime, TypeOK, CacheInv, NEW t \in 0..MaxRotations, t <= mtime, CachedHash(t),
           UNCHANGED <<template, mtime, content>>, \A v \in Slots : seenTime'[v] <= mtime
    PROVE  CacheInv'
  <1>1. mtime \in 0..MaxRotations /\ hash_cache \in [0..MaxRotations -> Digests \cup {None}]
    BY Zenon DEF TypeOK
  <1>2. hash_cache' = [hash_cache EXCEPT ![t] = Digest(t)]
    BY Zenon DEF CachedHash, CacheKey
  <1>3. t = mtime => Digest(t) = content[template]
    BY Zenon DEF Digest, CacheKey, CacheInv
  <1>4. hash_cache'[mtime] \in {None, content[template]}
    BY <1>1, <1>2, <1>3, Zenon DEF CacheInv
  <1>5. \A u \in 0..MaxRotations : u > mtime => hash_cache'[u] = None
    BY <1>1, <1>2 DEF CacheInv
  <1> QED
    BY <1>4, <1>5, Zenon DEF CacheInv

(* The times calls have seen, when a call moves on without a new one.       *)
LEMMA SeenStep ==
    ASSUME TypeOK, CacheInv, NEW v \in Slots, NEW l, Return(v) \/ Forget(v) \/ Goto(v, l)
    PROVE  \A w \in Slots : seenTime'[w] <= mtime
  <1>1. /\ mtime \in 0..MaxRotations /\ seenTime \in [Slots -> 0..MaxRotations]
        /\ \A w \in Slots : seenTime[w] <= mtime
    BY Zenon DEF TypeOK, CacheInv
  <1>2. seenTime' = [seenTime EXCEPT ![v] = 0] \/ seenTime' = seenTime
    BY Zenon DEF Return, Forget, Goto, seen
  <1> QED
    BY <1>1, <1>2

(* Every step preserves CacheInv.                                           *)
LEMMA CacheStep ==
    ASSUME HasMtime, TypeOK, SlotInv, CacheInv, [Next]_vars
    PROVE  CacheInv'
  <1>0. /\ mtime \in 0..MaxRotations /\ template \in Inodes /\ MaxRotations \in Nat
        /\ seenTime \in [Slots -> 0..MaxRotations]
        /\ content'[template] = content[template]
        /\ hash_cache \in [0..MaxRotations -> Digests \cup {None}]
    <2>1. template \in Inodes /\ ~Free(template)
      BY Zenon DEF TypeOK, Free
    <2> QED
      BY <2>1, Kept, RootfsAssumption, Zenon DEF TypeOK
  <1>s. ASSUME UNCHANGED <<template, mtime, hash_cache>>,
               \A v \in Slots : seenTime'[v] <= mtime
        PROVE  CacheInv'
    BY <1>0, <1>s, Zenon DEF CacheInv
  <1>1. ASSUME NEW v \in Slots, NEW t \in Targets[v], Begin(v, t) PROVE CacheInv'
    <2>1. UNCHANGED <<template, mtime, content, seenTime>>
      BY <1>1, Zenon DEF Begin, images
    <2>2. \A w \in Slots : seenTime'[w] <= mtime
      BY <2>1, Zenon DEF CacheInv
    <2>3. CASE hash_cache' = hash_cache
      BY <1>s, <2>1, <2>2, <2>3, Zenon
    <2>4. CASE CachedHash(mtime)
      BY <1>0, <2>1, <2>2, <2>4, HashStep
    <2> QED
      BY <1>1, <2>3, <2>4, Zenon DEF Begin
  <1>2. ASSUME NEW v \in Slots, Stat(v) PROVE CacheInv'
    <2>1. /\ seenTime' = [seenTime EXCEPT ![v] = mtime]
          /\ UNCHANGED <<template, mtime, hash_cache>>
      BY <1>2, Zenon DEF Stat
    <2>2. \A w \in Slots : seenTime'[w] <= mtime
      BY <1>0, <2>1 DEF CacheInv
    <2> QED
      BY <1>s, <2>1, <2>2, Zenon
  <1>3. ASSUME NEW v \in Slots, Hash(v) PROVE CacheInv'
    <2>1. /\ CachedHash(seenTime[v]) /\ UNCHANGED <<template, mtime, content>>
          /\ seenTime[v] \in 0..MaxRotations /\ seenTime[v] <= mtime
      BY <1>0, <1>3, Zenon DEF Hash, images, CacheInv
    <2>2. Lookup(v, Digest(seenTime[v])) \in {"copy", "idle", "separate"}
      BY Zenon DEF Lookup, Cloned
    <2>3. Return(v) \/ Forget(v) \/ seenTime' = seenTime
      BY <1>3, <2>2, Zenon DEF Hash
    <2>4. \A w \in Slots : seenTime'[w] <= mtime
      BY <2>3, SeenStep, Zenon DEF CacheInv
    <2> QED
      BY <2>1, <2>4, HashStep, Zenon
  <1>4. ASSUME NEW v \in Slots, Clone(v) PROVE CacheInv'
    <2>1. /\ seenTime' = [seenTime EXCEPT ![v] = 0]
          /\ UNCHANGED <<template, mtime, hash_cache>>
      BY <1>4, Zenon DEF Clone
    <2>2. \A w \in Slots : seenTime'[w] <= mtime
      BY <1>0, <2>1 DEF CacheInv
    <2> QED
      BY <1>s, <2>1, <2>2, Zenon
  <1>5. ASSUME NEW v \in Slots,
               \/ CloneFail(v) \/ WriteStamp(v) \/ StampTorn(v)
               \/ WriteSizeStamp(v) \/ SizeStampTorn(v) \/ StepFail(v)
        PROVE  CacheInv'
    <2>1. /\ Return(v) \/ Forget(v)
          /\ UNCHANGED <<template, mtime, hash_cache>>
      BY <1>5, Zenon DEF CloneFail, WriteStamp, Finish, StampTorn, WriteSizeStamp,
                         SizeStampTorn, StepFail
    <2> QED
      BY <1>s, <2>1, SeenStep, Zenon
  <1>6. ASSUME NEW v \in Slots, Separate(v) \/ Grow(v) \/ Resize2fs(v) PROVE CacheInv'
    <2>1. UNCHANGED <<template, mtime, hash_cache>>
      BY <1>6, Zenon DEF Separate, Grow, Resize2fs
    <2>2. Return(v) \/ \E l \in {"grow", "sizestamp", "resize"} : Goto(v, l)
      BY <1>6, GrowCases, Zenon DEF Separate, Resize2fs
    <2> QED
      BY <1>s, <2>1, <2>2, SeenStep, Zenon
  <1>7. ASSUME NEW v \in Slots, Release(v) \/ ReleaseInterrupted(v) PROVE CacheInv'
    <2>1. UNCHANGED <<template, mtime, hash_cache, seenTime>>
      BY <1>7, Zenon DEF Release, ReleaseInterrupted, seen
    <2> QED
      BY <1>s, <2>1, Zenon DEF CacheInv
  <1>8. ASSUME NEW i \in Inodes, NEW d \in Digests, Rotate(i, d) PROVE CacheInv'
    <2>1. /\ mtime' = mtime + 1 /\ mtime < MaxRotations
          /\ UNCHANGED <<hash_cache, seenTime>>
      BY <1>8, Zenon DEF Rotate, seen
    <2>2. mtime' \in 0..MaxRotations
      BY <1>0, <2>1
    <2>3. \A t \in 0..MaxRotations : t >= mtime' => hash_cache'[t] = None
      BY <1>0, <2>1 DEF CacheInv
    <2>4. \A w \in Slots : seenTime'[w] <= mtime'
      BY <1>0, <2>1 DEF CacheInv
    <2> QED
      BY <1>0, <2>2, <2>3, <2>4 DEF CacheInv
  <1>9. CASE Crash
    BY <1>0, <1>9 DEF Crash, CacheInv
  <1>10. CASE UNCHANGED vars
    <2>1. UNCHANGED <<template, mtime, hash_cache, seenTime>>
      BY <1>10, Zenon DEF vars, seen
    <2> QED
      BY <1>s, <2>1, Zenon DEF CacheInv
  <1> QED
    BY <1>1, <1>2, <1>3, <1>4, <1>5, <1>6, <1>7, <1>8, <1>9, <1>10, Zenon DEF Next

(* Every step preserves StampInv.                                           *)
LEMMA StampStep ==
    ASSUME HasMtime, TypeOK, SlotInv, CacheInv, StampInv, [Next]_vars
    PROVE  StampInv'
  <1> SUFFICES ASSUME NEW w \in Slots
               PROVE  /\ pc'[w] = "copy" /\ seenTime'[w] = mtime'
                            => seenDigest'[w] = content'[template']
                      /\ pc'[w] = "stamp" /\ w \notin raced' => content'[slot'[w]] = seenDigest'[w]
                      /\ w \notin torn' /\ stamp'[w] # None => slot'[w] # None
                      /\ w \notin torn' \cup raced' /\ stamp'[w] # None
                            => content'[slot'[w]] = stamp'[w]
    BY Zenon DEF StampInv
  <1> DEFINE A == pc'[w] = "copy" /\ seenTime'[w] = mtime'
                     => seenDigest'[w] = content'[template']
             B == pc'[w] = "stamp" /\ w \notin raced' => content'[slot'[w]] = seenDigest'[w]
             C == w \notin torn' /\ stamp'[w] # None => slot'[w] # None
             D == w \notin torn' \cup raced' /\ stamp'[w] # None => content'[slot'[w]] = stamp'[w]
             OK == A /\ B /\ C /\ D
  <1> SUFFICES OK
    OBVIOUS
  <1>0. /\ slot \in [Slots -> Inodes \cup {None}] /\ stamp \in [Slots -> Digests \cup {None}]
        /\ pc \in [Slots -> Pcs] /\ seenTime \in [Slots -> 0..MaxRotations]
        /\ seenDigest \in [Slots -> Digests \cup {None}]
        /\ mtime \in 0..MaxRotations /\ template \in Inodes
        /\ content \in [Inodes -> Digests \cup {None}]
    BY Zenon DEF TypeOK
  <1>i. /\ pc[w] = "copy" /\ seenTime[w] = mtime => seenDigest[w] = content[template]
        /\ pc[w] = "stamp" /\ w \notin raced => content[slot[w]] = seenDigest[w]
        /\ w \notin torn /\ stamp[w] # None => slot[w] # None
        /\ w \notin torn \cup raced /\ stamp[w] # None => content[slot[w]] = stamp[w]
        /\ pc[w] = "stamp" => slot[w] # None
        /\ pc[w] = "copy" => slot[w] = None
    BY Zenon DEF StampInv, SlotInv
  <1>k. /\ content'[template] = content[template]
        /\ slot[w] # None => content'[slot[w]] = content[slot[w]]
    <2>1. /\ template \in Inodes /\ ~Free(template)
          /\ slot[w] # None => slot[w] \in Inodes /\ ~Free(slot[w])
      BY <1>0, Zenon DEF Free
    <2> QED
      BY <2>1, Kept, Zenon
  <1>s. ASSUME /\ slot'[w] = slot[w] /\ stamp'[w] = stamp[w]
               /\ w \in raced => w \in raced'
               /\ w \in torn => w \in torn'
               /\ \/ /\ pc'[w] = pc[w] /\ seenDigest'[w] = seenDigest[w]
                     /\ seenTime'[w] = seenTime[w]
                     /\ UNCHANGED <<template, mtime>>
                  \/ pc'[w] \notin {"copy", "stamp"}
        PROVE  OK
    <2>1. C /\ D
      BY <1>i, <1>k, <1>s, Zenon
    <2>2. A /\ B
      BY <1>i, <1>k, <1>s, Zenon
    <2> QED
      BY <2>1, <2>2, Zenon
  <1>1. ASSUME NEW v \in Slots, v # w, StepOf(v) PROVE OK
    <2>1. UNCHANGED <<template, mtime>>
      BY <1>1, Zenon DEF StepOf, Begin, Stat, Hash, Clone, CloneFail, WriteStamp,
                  StampTorn, Separate, Grow, Resize2fs, WriteSizeStamp, SizeStampTorn, StepFail,
                  Release, ReleaseInterrupted
    <2> QED
      BY <1>1, <1>s, <2>1, OtherSlots, Zenon DEF SameSlot
  <1>2. ASSUME NEW t \in Targets[w], Begin(w, t) PROVE OK
    BY <1>0, <1>2, <1>s, Zenon DEF Begin, slots, ghosts
  <1>3. CASE Stat(w)
    BY <1>0, <1>3, <1>s, Zenon DEF Stat, slots, ghosts
  <1>4. CASE Hash(w)
    <2> DEFINE d == Digest(seenTime[w])
    <2>1. Lookup(w, d) \in {"copy", "idle", "separate"}
      BY Zenon DEF Lookup, Cloned
    <2>2. UNCHANGED <<template, mtime, content, slot, stamp, raced, torn>>
      BY <1>4, Zenon DEF Hash, images, slots, ghosts
    <2>3. CASE Lookup(w, d) = "copy"
      <3>1. pc'[w] = "copy" /\ seenDigest'[w] = d /\ seenTime'[w] = seenTime[w]
        BY <1>0, <1>4, <2>3, Zenon DEF Hash
      <3>2. seenTime[w] = mtime => d = content[template]
        BY DigestNow, Zenon
      <3> HIDE DEF d
      <3> QED
        BY <1>i, <2>2, <3>1, <3>2, Zenon
    <2>4. CASE Lookup(w, d) \in {"idle", "separate"}
      <3>1. Return(w) \/ Forget(w)
        BY <1>4, <2>4, Zenon DEF Hash
      <3>2. pc'[w] \in {"idle", "separate"}
        BY <1>0, <3>1, Zenon DEF Return, Forget
      <3> QED
        BY <1>s, <2>2, <3>2, Zenon
    <2> QED
      BY <2>1, <2>3, <2>4, Zenon
  <1>5. CASE Clone(w)
    <2>1. /\ pc[w] = "copy" /\ pc'[w] = "stamp"
          /\ UNCHANGED <<template, mtime, stamp, seenDigest, torn>>
          /\ w \notin raced' => mtime = seenTime[w]
      BY <1>0, <1>5, Zenon DEF Clone
    <2>2. slot'[w] \in Inodes /\ content'[slot'[w]] = content[template]
      <3>1. CASE \E i \in Inodes : slot' = [slot EXCEPT ![w] = i] /\ CopyImage(i, template)
        BY <1>0, <3>1 DEF CopyImage
      <3>2. CASE slot' = [slot EXCEPT ![w] = template]
        BY <1>0, <1>k, <3>2, Zenon
      <3> QED
        BY <1>5, <3>1, <3>2, Zenon DEF Clone
    <2>3. w \notin torn => stamp[w] = None
      BY <1>i, <2>1, Zenon
    <2> QED
      BY <1>i, <2>1, <2>2, <2>3, RootfsAssumption, Zenon
  <1>6. CASE CloneFail(w)
    <2>1. pc[w] = "copy" /\ pc'[w] = "idle" /\ UNCHANGED <<stamp, torn>>
      BY <1>0, <1>6, Zenon DEF CloneFail, Return
    <2>2. w \notin torn => stamp[w] = None
      BY <1>i, <2>1, Zenon
    <2> QED
      BY <2>1, <2>2, Zenon
  <1>7. CASE WriteStamp(w)
    <2>1. /\ pc[w] = "stamp" /\ pc'[w] \in {"idle", "separate"}
          /\ stamp'[w] = seenDigest[w] /\ UNCHANGED <<content, slot, raced, torn>>
      BY <1>0, <1>7, Zenon DEF WriteStamp, Finish, Return, Forget, images, ghosts
    <2> QED
      BY <1>i, <2>1, Zenon
  <1>7a. CASE StampTorn(w)
    <2>1. pc'[w] = "idle" /\ stamp'[w] = None
      BY <1>0, <1>7a, Zenon DEF StampTorn, Return
    <2> QED
      BY <2>1, Zenon
  <1>8. CASE Separate(w)
    <2>1. pc'[w] = "grow" /\ UNCHANGED <<stamp, raced, torn>>
      BY <1>0, <1>8, Zenon DEF Separate, Goto, ghosts
    <2>2. CASE slot[w] # template
      BY <1>8, <1>s, <2>1, <2>2, Zenon DEF Separate
    <2>3. CASE slot[w] = template
      <3>1. PICK i \in Inodes : CopyImage(i, slot[w]) /\ slot' = [slot EXCEPT ![w] = i]
        BY <1>8, <2>3, Zenon DEF Separate
      <3>2. slot'[w] = i /\ i # None /\ content'[i] = content[slot[w]]
        BY <1>0, <3>1, RootfsAssumption, Zenon DEF CopyImage
      <3> QED
        BY <1>i, <2>1, <3>2, Zenon
    <2> QED
      BY <2>2, <2>3, Zenon
  <1>9. CASE Grow(w) \/ Resize2fs(w) \/ WriteSizeStamp(w) \/ SizeStampTorn(w) \/ StepFail(w)
    <2>1. UNCHANGED <<slot, stamp, raced, torn>>
      BY <1>9, Zenon DEF Grow, Resize2fs, WriteSizeStamp, SizeStampTorn, StepFail, slots, ghosts
    <2>2. Return(w) \/ Goto(w, "sizestamp") \/ Goto(w, "resize")
      BY <1>9, GrowCases, Zenon DEF Resize2fs, WriteSizeStamp, SizeStampTorn, StepFail
    <2>3. pc'[w] \in {"idle", "sizestamp", "resize"}
      BY <1>0, <2>2, Zenon DEF Return, Goto
    <2> QED
      BY <1>s, <2>1, <2>3, Zenon
  <1>10. CASE Release(w)
    <2>1. pc'[w] = "idle" /\ stamp'[w] = None
      BY <1>0, <1>10, Zenon DEF Release
    <2> QED
      BY <2>1, Zenon
  <1>11. CASE ReleaseInterrupted(w)
    <2>1. pc'[w] = "idle" /\ w \in torn'
      BY <1>11, Zenon DEF ReleaseInterrupted
    <2> QED
      BY <2>1, Zenon
  <1>12. ASSUME NEW i \in Inodes, NEW d \in Digests, Rotate(i, d) PROVE OK
    <2>1. /\ UNCHANGED <<slot, stamp, pc, seenTime, seenDigest, raced, torn>>
          /\ mtime' = mtime + 1
      BY <1>12, Zenon DEF Rotate, slots, seen, ghosts
    <2>2. seenTime'[w] # mtime'
      BY <1>0, <2>1 DEF CacheInv
    <2> QED
      BY <1>i, <1>k, <2>1, <2>2, Zenon
  <1>13. CASE Crash
    <2>1. pc'[w] = "idle" /\ UNCHANGED <<slot, stamp, raced, torn>>
      BY <1>13, Zenon DEF Crash, slots, ghosts
    <2> QED
      BY <1>s, <2>1, Zenon
  <1>14. CASE UNCHANGED vars
    BY <1>14, <1>s, Zenon DEF vars, slots, seen, ghosts
  <1>15. StepOf(w) => OK
    BY <1>2, <1>3, <1>4, <1>5, <1>6, <1>7, <1>7a, <1>8, <1>9, <1>10, <1>11, Zenon DEF StepOf
  <1> QED
    BY <1>1, <1>12, <1>13, <1>14, <1>15, Zenon DEF Next, StepOf

(* On a file system with modification times, the stamp of a clone is the    *)
(* digest of what the clone holds: no stale cache entry, partial copy,      *)
(* crash or retry leads to a stamp for something else.                      *)
THEOREM StampTellsContentHolds == ASSUME HasMtime PROVE Spec => []StampTellsContent
  <1>1. Init => CacheInv /\ StampInv
    BY RootfsAssumption DEF Init, CacheInv, StampInv
  <1>2. StampInv => StampTellsContent
    BY Zenon DEF StampInv, StampTellsContent
  <1>3. TypeOK /\ SlotInv /\ CacheInv /\ StampInv /\ [Next]_vars => CacheInv' /\ StampInv'
    BY CacheStep, StampStep, Zenon
  <1> QED
    BY <1>1, <1>2, <1>3, InitType, TypeStep, SlotStep, PTL DEF Spec
=============================================================================
