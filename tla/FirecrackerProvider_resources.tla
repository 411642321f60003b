------------------- MODULE FirecrackerProvider_resources --------------------
(***************************************************************************)
(* What a VM leaves on the host: every host resource is accounted for, and *)
(* destroy_vm leaves nothing behind but what could not be released or      *)
(* removed, when no two calls in flight claim one id and no two ids share  *)
(* a directory name.                                                       *)
(***************************************************************************)
EXTENDS FirecrackerProvider_paths, TLAPS

USE SafeIdAssumption, ConfigAssumption, NoneAssumption
USE DEF config, table, maps, disk, pagers, args, calls, ghosts

AttachedPcs == {"spawn", "handler", "attachments"} \cup OwnPcs

(* The resources on the host, the recorded, the leaked and the held ones.   *)
Balance(h, m, l, k) == h = m \cup l \cup k /\ m \cap l = {} /\ k \cap l = {}

Vacant(id) == \A c \in Callers : vm[c] # id

(* A jail exists only under a composer with a jailer, as a vm dir.          *)
Jailed(id) == "jailer" \in host[id] => "jailer" \in composer /\ Dir(id) \in holders

(* The books of an id without a call ...                                    *)
Rested(id) ==
    /\ Balance(host[id], composed[id], leaked[id], {})
    /\ composed[id] # {} => status[id] \in Live
    /\ Jailed(id)
    /\ status[id] \in Live /\ "jailer" \in composer => "jailer" \in composed[id]

(* ... and of the id of a call.  A jail is the last thing a create attaches *)
(* and a create adopts one that was left behind.                            *)
InHand(c) ==
    /\ Balance(host[vm[c]], composed[vm[c]], leaked[vm[c]], held[c])
    /\ pc[c] \notin {"record", "rename"} => composed[vm[c]] = {}
    /\ pc[c] = "rename" => composed[vm[c]] \subseteq {"jailer"}
    /\ Jailed(vm[c])
    /\ "jailer" \in composer /\ pc[c] \in {"record", "rename"} => "jailer" \in composed[vm[c]]
    /\ "jailer" \in composer /\ pc[c] \in AttachedPcs => "jailer" \in held[c]
    /\ "jailer" \in held[c] => Wanted(c) \subseteq held[c]

AttachInv ==
    /\ \A id \in VmIds : Vacant(id) => Rested(id)
    /\ \A c \in Callers : pc[c] # "idle" => InHand(c)

LEMMA InitAttach == Init => AttachInv
  BY DEF Init, AttachInv, Vacant, Rested, Jailed, Balance, Live

LEMMA AttachTypes ==
    ASSUME TypeInv
    PROVE  /\ composed \in [VmIds -> SUBSET Primitives]
           /\ host \in [VmIds -> SUBSET Primitives]
           /\ leaked \in [VmIds -> SUBSET Primitives]
           /\ held \in [Callers -> SUBSET Primitives]
           /\ \A c \in Callers : pc[c] \in {"idle", "record", "destroy", "rename"} => held[c] = {}
           /\ \A c \in Callers : pc[c] = "idle" => vm[c] = None
           /\ None \notin VmIds
  BY Zenon DEF TypeInv, TypeOK, CallOK

(* What the steps do to a balance.                                          *)
LEMMA BalanceAttach ==
    ASSUME NEW h, NEW m, NEW l, NEW k, NEW r, Balance(h, m, l, k)
    PROVE  Balance(h \cup {r}, m, l \ {r}, k \cup {r})
  BY DEF Balance

LEMMA BalanceFail ==
    ASSUME NEW h, NEW l, NEW k, NEW p, Balance(h, {}, l, k)
    PROVE  Balance(h \cup p, {}, (l \cup k) \cup p, {})
  BY DEF Balance

LEMMA BalanceRelease ==
    ASSUME NEW h, NEW l, NEW k, NEW kept \in SUBSET k, Balance(h, {}, l, k)
    PROVE  Balance(h \ (k \ kept), {}, l \cup kept, {})
  BY DEF Balance

LEMMA BalanceFile ==
    ASSUME NEW h, NEW l, NEW k
    PROVE  Balance(h, {}, l, k) <=> Balance(h, k, l, {})
  BY DEF Balance

LEMMA BalanceMove ==
    ASSUME NEW h, NEW l, NEW g, NEW k, NEW j, Balance(h, {j}, l, {}), Balance(g, {}, k, {}), j \notin k
    PROVE  Balance(h \ {j}, {}, l, {}) /\ Balance(g \cup {j}, {j}, k, {})
  BY DEF Balance

(* An id, and a call, that a step leaves alone.                             *)
Undisturbed(id) ==
    /\ host'[id] = host[id] /\ composed'[id] = composed[id] /\ leaked'[id] = leaked[id]
    /\ status'[id] \in Live <=> status[id] \in Live
    /\ Dir(id) \in holders => Dir(id) \in holders'

Unmoved(d) == pc'[d] = pc[d] /\ vm'[d] = vm[d] /\ src'[d] = src[d] /\ held'[d] = held[d]

LEMMA UndisturbedRests ==
    ASSUME NEW id \in VmIds, Undisturbed(id), Rested(id), UNCHANGED composer
    PROVE  Rested(id)'
  BY Zenon DEF Undisturbed, Rested, Jailed, Balance, Dir

LEMMA UnmovedInHand ==
    ASSUME NEW d \in Callers, Unmoved(d), Undisturbed(vm[d]), InHand(d), UNCHANGED composer
    PROVE  InHand(d)'
  <1>1. Wanted(d)' = Wanted(d)
    BY Zenon DEF Wanted, Unmoved
  <1>2. Balance(host[vm[d]], composed[vm[d]], leaked[vm[d]], held[d])'
    BY Zenon DEF Unmoved, Undisturbed, InHand, Balance
  <1> QED
    BY <1>1, <1>2, Zenon DEF Unmoved, Undisturbed, InHand, Jailed, Dir

LEMMA AttachFrame ==
    ASSUME TypeInv, AttachInv, NEW D \in SUBSET Callers, NEW X \in SUBSET VmIds,
           UNCHANGED composer,
           \A d \in Callers \ D : Unmoved(d) /\ (pc[d] # "idle" => vm[d] \notin X),
           \A d \in D : pc[d] # "idle" => vm[d] \in X,
           \A id \in VmIds \ X : Undisturbed(id),
           \A id \in X : Vacant(id)' => Rested(id)',
           \A d \in D : pc'[d] # "idle" => InHand(d)'
    PROVE  AttachInv'
  <1>1. ASSUME NEW id \in VmIds, Vacant(id)' PROVE Rested(id)'
    <2>1. CASE id \in X
      BY <1>1, <2>1, Zenon
    <2>2. CASE id \notin X
      <3>1. ASSUME NEW d \in Callers PROVE vm[d] # id
        <4>1. CASE d \in D
          BY <2>2, <4>1, AttachTypes, Zenon
        <4>2. CASE d \notin D
          BY <1>1, <4>2, Zenon DEF Unmoved, Vacant
        <4> QED
          BY <4>1, <4>2, Zenon
      <3>2. Rested(id) /\ Undisturbed(id)
        BY <2>2, <3>1, Zenon DEF AttachInv, Vacant
      <3> QED
        BY <3>2, UndisturbedRests, Zenon
    <2> QED
      BY <2>1, <2>2, Zenon
  <1>2. ASSUME NEW d \in Callers, pc'[d] # "idle" PROVE InHand(d)'
    <2>1. CASE d \in D
      BY <1>2, <2>1, Zenon
    <2>2. CASE d \notin D
      <3>1. Unmoved(d) /\ pc[d] # "idle"
        BY <1>2, <2>2, Zenon DEF Unmoved
      <3>2. Undisturbed(vm[d]) /\ InHand(d)
        BY <2>2, <3>1, SockTypes, Zenon DEF AttachInv
      <3> QED
        BY <3>1, <3>2, UnmovedInHand, Zenon
    <2> QED
      BY <2>1, <2>2, Zenon
  <1> QED
    BY <1>1, <1>2, Zenon DEF AttachInv

LEMMA AttachQuiet ==
    ASSUME TypeInv, AttachInv, UNCHANGED <<composer, pc, vm, src, held>>,
           \A id \in VmIds : Undisturbed(id)
    PROVE  AttachInv'
  <1> DEFINE X == {}
             D == {}
  <1>1. /\ D \in SUBSET Callers /\ X \in SUBSET VmIds
        /\ \A d \in Callers \ D : Unmoved(d) /\ (pc[d] # "idle" => vm[d] \notin X)
        /\ \A d \in D : pc[d] # "idle" => vm[d] \in X
        /\ \A id \in VmIds \ X : Undisturbed(id)
        /\ \A id \in X : Vacant(id)' => Rested(id)'
        /\ \A d \in D : pc'[d] # "idle" => InHand(d)'
    BY Zenon DEF Unmoved
  <1> HIDE DEF X, D
  <1> QED
    BY <1>1, AttachFrame, Zenon

(* The other calls.                                                         *)
Elses(c) == \A d \in Callers \ {c} : Unmoved(d)

LEMMA ReturnElses ==
    ASSUME TypeInv, NEW c \in Callers, Return(c) PROVE Elses(c) /\ pc'[c] = "idle" /\ vm'[c] = None
  <1>1. /\ pc' = [pc EXCEPT ![c] = "idle"] /\ vm' = [vm EXCEPT ![c] = None]
        /\ src' = [src EXCEPT ![c] = None] /\ held' = [held EXCEPT ![c] = {}]
    BY Zenon DEF Return
  <1>2. \A d \in Callers \ {c} : Unmoved(d)
    BY <1>1, SockTypes, AttachTypes, Zenon DEF Unmoved
  <1> QED
    BY <1>1, <1>2, SockTypes, Zenon DEF Elses

LEMMA BeginElses ==
    ASSUME TypeInv, NEW c \in Callers, NEW l, NEW id, NEW new, NEW ref, pc[c] = "idle",
           Begin(c, l, id, new, ref)
    PROVE  Elses(c) /\ pc'[c] = l /\ vm'[c] = id /\ held'[c] = {}
  <1>1. /\ pc' = [pc EXCEPT ![c] = l] /\ vm' = [vm EXCEPT ![c] = id]
        /\ src' = [src EXCEPT ![c] = ref] /\ UNCHANGED held
    BY Zenon DEF Begin
  <1>2. \A d \in Callers \ {c} : Unmoved(d)
    BY <1>1, SockTypes, Zenon DEF Unmoved
  <1> QED
    BY <1>1, <1>2, SockTypes, AttachTypes, Zenon DEF Elses

LEMMA GotoElses ==
    ASSUME TypeInv, NEW c \in Callers, NEW l, pc' = [pc EXCEPT ![c] = l],
           UNCHANGED <<vm, src, held>>
    PROVE  Elses(c) /\ pc'[c] = l
  BY SockTypes, Zenon DEF Elses, Unmoved

(* A call begins, on an id nobody has: its books are taken over as they are.*)
LEMMA AttachBegin ==
    ASSUME TypeInv, AttachInv, NEW c \in Callers, pc[c] = "idle", Elses(c), UNCHANGED composer,
           \A id \in VmIds : Undisturbed(id), InHand(c)'
    PROVE  AttachInv'
  <1> DEFINE X == {}
             D == {c}
  <1>1. /\ D \in SUBSET Callers /\ X \in SUBSET VmIds
        /\ \A d \in Callers \ D : Unmoved(d) /\ (pc[d] # "idle" => vm[d] \notin X)
        /\ \A d \in D : pc[d] # "idle" => vm[d] \in X
        /\ \A id \in VmIds \ X : Undisturbed(id)
        /\ \A id \in X : Vacant(id)' => Rested(id)'
        /\ \A d \in D : pc'[d] # "idle" => InHand(d)'
    BY Zenon DEF Elses
  <1> HIDE DEF X, D
  <1> QED
    BY <1>1, AttachFrame, Zenon

(* A call works on the resources of ids a and b.                            *)
LEMMA AttachPair ==
    ASSUME TypeInv, AttachInv, NEW c \in Callers, Elses(c), UNCHANGED composer,
           NEW a \in VmIds, NEW b \in VmIds, pc[c] # "idle" => vm[c] = a,
           \A d \in Callers \ {c} : pc[d] # "idle" => vm[d] \notin {a, b},
           \A id \in VmIds \ {a, b} : Undisturbed(id),
           Vacant(a)' => Rested(a)', Vacant(b)' => Rested(b)',
           pc'[c] # "idle" => InHand(c)'
    PROVE  AttachInv'
  <1> DEFINE X == {a, b}
             D == {c}
  <1>1. /\ D \in SUBSET Callers /\ X \in SUBSET VmIds
        /\ \A d \in Callers \ D : Unmoved(d) /\ (pc[d] # "idle" => vm[d] \notin X)
        /\ \A d \in D : pc[d] # "idle" => vm[d] \in X
        /\ \A id \in VmIds \ X : Undisturbed(id)
        /\ \A d \in D : pc'[d] # "idle" => InHand(d)'
    BY Zenon DEF Elses
  <1>2. \A id \in X : Vacant(id)' => Rested(id)'
    BY Zenon
  <1> HIDE DEF X, D
  <1> QED
    BY <1>1, <1>2, AttachFrame, Zenon

(* A call goes on, with the id it has.                                      *)
LEMMA AttachOn ==
    ASSUME TypeInv, ClaimInv, AttachInv, NEW c \in Callers, Elses(c), UNCHANGED composer,
           pc[c] # "idle", vm'[c] = vm[c], InHand(c)',
           \A id \in VmIds \ {vm[c]} : Undisturbed(id)
    PROVE  AttachInv'
  <1>1. vm[c] \in VmIds /\ ~Vacant(vm[c])'
    BY SockTypes, Zenon DEF Vacant
  <1>2. \A d \in Callers \ {c} : pc[d] # "idle" => vm[d] \notin {vm[c], vm[c]}
    BY Elsewhere, Zenon
  <1>3. \A id \in VmIds \ {vm[c], vm[c]} : Undisturbed(id)
    BY Zenon
  <1> QED
    BY <1>1, <1>2, <1>3, AttachPair, Zenon

(* A call returns, and leaves its id at rest.                               *)
LEMMA AttachReturn ==
    ASSUME TypeInv, ClaimInv, AttachInv, NEW c \in Callers, Return(c), UNCHANGED composer,
           pc[c] # "idle", \A id \in VmIds : id = vm[c] => Rested(id)',
           \A id \in VmIds \ {vm[c]} : Undisturbed(id)
    PROVE  AttachInv'
  <1>1. vm[c] \in VmIds /\ pc'[c] = "idle" /\ Elses(c)
    BY SockTypes, ReturnElses, Zenon
  <1>2. \A d \in Callers \ {c} : pc[d] # "idle" => vm[d] \notin {vm[c], vm[c]}
    BY Elsewhere, Zenon
  <1>3. \A id \in VmIds \ {vm[c], vm[c]} : Undisturbed(id)
    BY Zenon
  <1> QED
    BY <1>1, <1>2, <1>3, AttachPair, Zenon

(* A create between its composition and the publication of its attachments. *)
LEMMA AttachGoto ==
    ASSUME TypeInv, ClaimInv, AttachInv, NEW c \in Callers, NEW l \in AttachedPcs, pc[c] \in AttachedPcs,
           pc' = [pc EXCEPT ![c] = l], holders \subseteq holders',
           UNCHANGED <<vm, src, held>>, UNCHANGED <<composer, status, composed, host, leaked>>
    PROVE  AttachInv'
  <1>1. Elses(c) /\ pc'[c] = l
    BY GotoElses, Zenon
  <1>2. pc[c] # "idle" /\ pc[c] # "compose" /\ pc[c] \notin {"record", "rename"} /\ l # "rename"
        /\ l \notin {"record", "rename"}
    BY Zenon DEF AttachedPcs, OwnPcs
  <1>3. InHand(c)'
    <2>1. InHand(c)
      BY <1>2, Zenon DEF AttachInv
    <2>2. Wanted(c)' = Wanted(c)
      BY Zenon DEF Wanted
    <2>3. Balance(host[vm[c]], composed[vm[c]], leaked[vm[c]], held[c])'
      BY <2>1, Zenon DEF InHand, Balance
    <2>4. Jailed(vm[c])'
      BY <2>1, Zenon DEF InHand, Jailed, Dir
    <2> QED
      BY <1>1, <1>2, <2>1, <2>2, <2>3, <2>4, Zenon DEF InHand
  <1>4. \A id \in VmIds : Undisturbed(id)
    BY Zenon DEF Undisturbed
  <1> QED
    BY <1>1, <1>2, <1>3, <1>4, AttachOn, Zenon

(* What a release makes of the books of one id, and of the others'.         *)
LEMMA Released ==
    ASSUME TypeInv, NEW id \in VmIds, NEW rs, NEW kept \in SUBSET rs, Release(id, rs, kept),
           Balance(host[id], {}, leaked[id], rs)
    PROVE  /\ Balance(host'[id], {}, leaked'[id], {})
           /\ host'[id] = host[id] \ (rs \ kept)
           /\ \A i \in VmIds \ {id} : host'[i] = host[i] /\ leaked'[i] = leaked[i]
  <1>1. /\ host' = [host EXCEPT ![id] = @ \ (rs \ kept)]
        /\ leaked' = [leaked EXCEPT ![id] = @ \cup kept]
    BY Zenon DEF Release
  <1>2. /\ host'[id] = host[id] \ (rs \ kept) /\ leaked'[id] = leaked[id] \cup kept
        /\ \A i \in VmIds \ {id} : host'[i] = host[i] /\ leaked'[i] = leaked[i]
    BY <1>1, AttachTypes, Zenon
  <1>3. Balance(host[id] \ (rs \ kept), {}, leaked[id] \cup kept, {})
    BY BalanceRelease, Zenon
  <1> QED
    BY <1>2, <1>3, Zenon

(* A teardown takes the vm dir only with the jail, and no other directory.  *)
LEMMA TornDown ==
    ASSUME NEW n, NEW rs, NEW kept, Teardown(n, rs, kept)
    PROVE  /\ "jailer" \notin rs \ kept => holders \subseteq holders'
           /\ \A m \in holders : m # n => m \in holders'
  BY Zenon DEF Teardown

(* A create gives up, releases what it holds and returns.                   *)
LEMMA AttachGiveUp ==
    ASSUME TypeInv, ClaimInv, AttachInv, NEW c \in Callers, pc[c] \in CreatePcs \ {"record"},
           Return(c), NEW kept \in SUBSET held[c], Release(vm[c], held[c], kept),
           UNCHANGED <<composer, composed, status>>,
           "jailer" \notin held[c] \ kept => holders \subseteq holders',
           \A id \in VmIds \ {vm[c]} : Dir(id) \in holders => Dir(id) \in holders'
    PROVE  AttachInv'
  <1>1. vm[c] \in VmIds /\ pc[c] # "idle" /\ InHand(c) /\ status[vm[c]] = None
    BY SockTypes, Zenon DEF AttachInv, CreatePcs, ClaimInv
  <1>2. composed[vm[c]] = {} /\ Balance(host[vm[c]], {}, leaked[vm[c]], held[c])
    <2>1. pc[c] \notin {"record", "rename"}
      BY Zenon DEF CreatePcs
    <2> QED
      BY <1>1, <2>1, Zenon DEF InHand
  <1>3. /\ Balance(host'[vm[c]], {}, leaked'[vm[c]], {})
        /\ host'[vm[c]] = host[vm[c]] \ (held[c] \ kept)
        /\ \A i \in VmIds \ {vm[c]} : host'[i] = host[i] /\ leaked'[i] = leaked[i]
    BY <1>1, <1>2, Released, Zenon
  <1>4. \A id \in VmIds : id = vm[c] => Jailed(id)'
    <2>1. Jailed(vm[c])
      BY <1>1, Zenon DEF InHand
    <2> QED
      BY <1>3, <2>1, Zenon DEF Jailed, Dir
  <1>5. status'[vm[c]] = None /\ None \notin Live /\ composed'[vm[c]] = {}
    BY <1>1, <1>2, Zenon DEF Live
  <1>6. \A id \in VmIds : id = vm[c] => Rested(id)'
    BY <1>3, <1>4, <1>5, Zenon DEF Rested
  <1>7. \A id \in VmIds \ {vm[c]} : Undisturbed(id)
    BY <1>3, Zenon DEF Undisturbed
  <1> QED
    BY <1>1, <1>6, <1>7, AttachReturn, Zenon

(* No call has the id of a live VM while the write lock is free.            *)
LEMMA LiveVacant ==
    ASSUME TypeInv, ClaimInv, writer = None, NEW id \in VmIds, status[id] \in Live
    PROVE  Vacant(id)
  <1> SUFFICES ASSUME NEW d \in Callers, vm[d] = id PROVE FALSE
    BY Zenon DEF Vacant
  <1>1. pc[d] # "idle" /\ pc[d] \notin {"destroy", "rename"}
    BY AttachTypes, Zenon DEF ClaimInv
  <1>2. pc[d] \in CreatePcs
    BY <1>1, SockTypes, Zenon
  <1> QED
    BY <1>2, Zenon DEF ClaimInv, Live

LEMMA AttachStep ==
    ASSUME OneOwnerPerId, DistinctDirs, TypeInv, ClaimInv, AttachInv, [Next]_vars PROVE AttachInv'
  <1>1. ASSUME NEW c \in Callers, NEW id \in VmIds, NEW ref \in SnapshotRefs \cup {None},
               CreateCheck(c, id, ref)
         PROVE  AttachInv'
    <2>1. /\ pc[c] = "idle" /\ status[id] = None /\ Begin(c, "compose", id, None, ref)
          /\ UNCHANGED <<composer, status, composed, host, leaked, holders>>
      BY <1>1, Zenon DEF CreateCheck
    <2>2. Elses(c) /\ pc'[c] = "compose" /\ vm'[c] = id /\ held'[c] = {}
      BY <2>1, BeginElses, Zenon
    <2>3. Rested(id)
      <3>1. \A d \in Callers : ~Claims(d, id)
        BY <1>1, Zenon DEF CreateCheck, Unclaimed
      <3>2. Vacant(id)
        BY <3>1, AttachTypes, Zenon DEF Vacant, Claims
      <3> QED
        BY <3>2, Zenon DEF AttachInv
    <2>4. composed[id] = {}
      BY <2>1, <2>3, Zenon DEF Rested, Live
    <2>5. InHand(c)'
      BY <2>1, <2>2, <2>3, <2>4, Zenon DEF InHand, Rested, Jailed, AttachedPcs, OwnPcs, Dir
    <2>6. \A i \in VmIds : Undisturbed(i)
      BY <2>1, Zenon DEF Undisturbed
    <2> QED
      BY <2>1, <2>2, <2>5, <2>6, AttachBegin, Zenon
  <1>2. ASSUME NEW c \in Callers, NEW r \in Primitives, Attach(c, r) PROVE AttachInv'
    <2>1. /\ pc[c] = "compose" /\ r \in Wanted(c) \ held[c] /\ Earlier[r] \cap Wanted(c) \subseteq held[c]
          /\ host' = [host EXCEPT ![vm[c]] = @ \cup {r}]
          /\ leaked' = [leaked EXCEPT ![vm[c]] = @ \ {r}]
          /\ held' = [held EXCEPT ![c] = @ \cup {r}]
          /\ holders' = IF r = "jailer" THEN holders \cup {Dir(vm[c])} ELSE holders
          /\ UNCHANGED <<composer, status, composed, pc, vm, src>>
      BY <1>2, Zenon DEF Attach, IsNext
    <2>2. vm[c] \in VmIds /\ InHand(c)
      BY <2>1, SockTypes, Zenon DEF AttachInv
    <2>3. /\ host'[vm[c]] = host[vm[c]] \cup {r} /\ leaked'[vm[c]] = leaked[vm[c]] \ {r}
          /\ held'[c] = held[c] \cup {r}
      BY <2>1, <2>2, AttachTypes, Zenon
    <2>4. Elses(c)
      BY <2>1, AttachTypes, Zenon DEF Elses, Unmoved
    <2>5. Wanted(c)' = Wanted(c)
      BY <2>1, Zenon DEF Wanted
    <2>6. ASSUME "jailer" \in held'[c] PROVE Wanted(c) \subseteq held'[c]
      <3>1. CASE r = "jailer"
        <4>1. \A q \in Primitives : q \in Earlier[r] \cup {r}
          BY <3>1 DEF Primitives, Earlier
        <4>2. \A q \in Wanted(c) : q \in Primitives
          BY Zenon DEF Wanted, Primitives
        <4> QED
          BY <2>1, <2>3, <4>1, <4>2, Zenon
      <3>2. CASE r # "jailer"
        BY <2>1, <2>2, <2>3, <2>6, <3>2, Zenon DEF InHand
      <3> QED
        BY <3>1, <3>2, Zenon
    <2>7. Balance(host'[vm[c]], composed[vm[c]], leaked'[vm[c]], held'[c])
      <3>1. Balance(host[vm[c]], composed[vm[c]], leaked[vm[c]], held[c])
        BY <2>2, Zenon DEF InHand
      <3>2. Balance(host[vm[c]] \cup {r}, composed[vm[c]], leaked[vm[c]] \ {r}, held[c] \cup {r})
        BY <3>1, BalanceAttach, Zenon
      <3> QED
        BY <2>3, <3>2, Zenon
    <2>8. InHand(c)'
      <3>1. Jailed(vm[c])'
        <4>1. CASE r = "jailer"
          BY <2>1, <4>1, Zenon DEF Wanted, Jailed, Dir
        <4>2. CASE r # "jailer"
          BY <2>1, <2>2, <2>3, <4>2, Zenon DEF InHand, Jailed, Dir
        <4> QED
          BY <4>1, <4>2, Zenon
      <3> QED
        BY <2>1, <2>2, <2>3, <2>5, <2>6, <2>7, <3>1, Zenon DEF InHand, AttachedPcs, OwnPcs
    <2>9. \A id \in VmIds \ {vm[c]} : Undisturbed(id)
      BY <2>1, AttachTypes, Zenon DEF Undisturbed
    <2> QED
      BY <2>1, <2>4, <2>8, <2>9, AttachOn, Zenon
  <1>3. ASSUME NEW c \in Callers, NEW r \in Primitives, ComposeFail(c, r) PROVE AttachInv'
    <2>1. /\ pc[c] = "compose" /\ r \in Wanted(c) \ held[c] /\ Return(c)
          /\ UNCHANGED <<composer, status, composed>>
      BY <1>3, Zenon DEF ComposeFail, IsNext
    <2>2. PICK partial \in SUBSET {r} :
             /\ host' = [host EXCEPT ![vm[c]] = @ \cup partial]
             /\ leaked' = [leaked EXCEPT ![vm[c]] = @ \cup held[c] \cup partial]
             /\ holders' = IF "jailer" \in partial THEN holders \cup {Dir(vm[c])} ELSE holders
      BY <1>3, Zenon DEF ComposeFail
    <2>3. vm[c] \in VmIds /\ InHand(c) /\ status[vm[c]] = None /\ composed[vm[c]] = {}
      BY <2>1, SockTypes, Zenon DEF AttachInv, InHand, ClaimInv, CreatePcs
    <2>4. /\ host'[vm[c]] = host[vm[c]] \cup partial
          /\ leaked'[vm[c]] = (leaked[vm[c]] \cup held[c]) \cup partial
      BY <2>2, <2>3, AttachTypes, Zenon
    <2>5. Balance(host'[vm[c]], {}, leaked'[vm[c]], {})
      <3>1. Balance(host[vm[c]], {}, leaked[vm[c]], held[c])
        BY <2>3, Zenon DEF InHand
      <3>2. Balance(host[vm[c]] \cup partial, {}, (leaked[vm[c]] \cup held[c]) \cup partial, {})
        BY <3>1, BalanceFail, Zenon
      <3> QED
        BY <2>4, <3>2, Zenon
    <2>7. \A id \in VmIds : id = vm[c] => Jailed(id)'
      <3>1. CASE "jailer" \in host[vm[c]]
        <4>1. "jailer" \in composer /\ Dir(vm[c]) \in holders
          BY <2>3, <3>1, Zenon DEF InHand, Jailed
        <4> QED
          BY <2>1, <2>2, <4>1, Zenon DEF Jailed, Dir
      <3>2. CASE "jailer" \in partial
        <4>1. r = "jailer"
          BY <3>2, Zenon
        <4>2. "jailer" \in composer
          BY <2>1, <4>1, Zenon DEF Wanted
        <4> QED
          BY <2>1, <2>2, <3>2, <4>2, Zenon DEF Jailed, Dir
      <3> QED
        BY <2>4, <3>1, <3>2, Zenon DEF Jailed
    <2>8. status'[vm[c]] = None /\ None \notin Live /\ composed'[vm[c]] = {}
      BY <2>1, <2>3, Zenon DEF Live
    <2>9. \A id \in VmIds : id = vm[c] => Rested(id)'
      BY <2>1, <2>5, <2>7, <2>8, Zenon DEF Rested
    <2>10. \A id \in VmIds \ {vm[c]} : Undisturbed(id)
      BY <2>1, <2>2, AttachTypes, Zenon DEF Undisturbed
    <2> QED
      BY <2>1, <2>9, <2>10, AttachReturn, Zenon
  <1>4. ASSUME NEW c \in Callers, MakeStateDir(c) PROVE AttachInv'
    <2>1. /\ pc[c] = "compose" /\ held[c] = Wanted(c) /\ pc' = [pc EXCEPT ![c] = "spawn"]
          /\ UNCHANGED <<composer, status, composed, host, leaked, holders>>
          /\ UNCHANGED <<vm, src, held>>
      BY <1>4, Zenon DEF MakeStateDir, Goto
    <2>2. Elses(c) /\ pc'[c] = "spawn"
      BY <2>1, GotoElses, Zenon
    <2>3. InHand(c)
      BY <2>1, Zenon DEF AttachInv
    <2>4. "jailer" \in composer => "jailer" \in held[c]
      BY <2>1, Zenon DEF Wanted, Primitives
    <2>5. Jailed(vm[c])'
      BY <2>1, <2>3, Zenon DEF InHand, Jailed, Dir
    <2>6. Wanted(c)' = Wanted(c) /\ Balance(host[vm[c]], composed[vm[c]], leaked[vm[c]], held[c])'
      BY <2>1, <2>3, Zenon DEF Wanted, InHand, Balance
    <2>7. InHand(c)'
      BY <2>1, <2>2, <2>3, <2>4, <2>5, <2>6, Zenon DEF InHand
    <2>8. \A id \in VmIds : Undisturbed(id)
      BY <2>1, Zenon DEF Undisturbed
    <2> QED
      BY <2>1, <2>2, <2>7, <2>8, AttachOn, Zenon
  <1>5. ASSUME NEW c \in Callers, SpawnFail(c) PROVE AttachInv'
    <2>1. /\ pc[c] \in CreatePcs \ {"record"} /\ Return(c)
          /\ UNCHANGED <<composer, composed, status>>
      BY <1>5, Zenon DEF SpawnFail, CreatePcs
    <2>2. PICK kept \in SUBSET held[c] :
             /\ Release(vm[c], held[c], kept)
             /\ \/ Teardown(Dir(vm[c]), held[c], kept)
                \/ holders' = holders \cup {Dir(vm[c])}
      BY <1>5, Zenon DEF SpawnFail
    <2>3. "jailer" \notin held[c] \ kept => holders \subseteq holders'
      BY <2>2, TornDown, Zenon
    <2>4. vm[c] \in VmIds
      BY <2>1, SockTypes, Zenon DEF CreatePcs
    <2>5. ASSUME NEW id \in VmIds \ {vm[c]}, Dir(id) \in holders PROVE Dir(id) \in holders'
      <3>1. Dir(id) # Dir(vm[c])
        BY <2>4, OtherDirs, Zenon
      <3> QED
        BY <2>2, <2>5, <3>1, TornDown, Zenon
    <2> QED
      BY <2>1, <2>2, <2>3, <2>5, AttachGiveUp, Zenon
  <1>6. ASSUME NEW c \in Callers, NEW p \in Procs, Spawn(c, p) PROVE AttachInv'
    <2>1. /\ pc[c] = "spawn" /\ pc' = [pc EXCEPT ![c] = "wait"] /\ holders \subseteq holders'
          /\ UNCHANGED <<vm, src, held>>
          /\ UNCHANGED <<composer, status, composed, host, leaked>>
      BY <1>6, Zenon DEF Spawn
    <2>2. pc[c] \in AttachedPcs /\ "wait" \in AttachedPcs
      BY <2>1, Zenon DEF AttachedPcs, OwnPcs
    <2> QED
      BY <2>1, <2>2, AttachGoto, Zenon
  <1>7. ASSUME NEW c \in Callers, WaitReady(c) PROVE AttachInv'
    <2>1. /\ pc[c] = "wait" /\ holders \subseteq holders' /\ UNCHANGED <<vm, src, held>>
          /\ UNCHANGED <<composer, status, composed, host, leaked>>
          /\ \/ pc' = [pc EXCEPT ![c] = "configure"]
             \/ pc' = [pc EXCEPT ![c] = "check"]
      BY <1>7, Zenon DEF WaitReady, Goto
    <2>2. pc[c] \in AttachedPcs /\ "configure" \in AttachedPcs /\ "check" \in AttachedPcs
      BY <2>1, Zenon DEF AttachedPcs, OwnPcs
    <2> QED
      BY <2>1, <2>2, AttachGoto, Zenon
  <1>8. ASSUME NEW c \in Callers, Configure(c) PROVE AttachInv'
    <2>1. /\ pc[c] = "configure" /\ pc' = [pc EXCEPT ![c] = "console"] /\ holders \subseteq holders'
          /\ UNCHANGED <<vm, src, held>>
          /\ UNCHANGED <<composer, status, composed, host, leaked>>
      BY <1>8, Zenon DEF Configure, Goto
    <2>2. pc[c] \in AttachedPcs /\ "console" \in AttachedPcs
      BY <2>1, Zenon DEF AttachedPcs, OwnPcs
    <2> QED
      BY <2>1, <2>2, AttachGoto, Zenon
  <1>9. ASSUME NEW c \in Callers, LoadCheck(c) PROVE AttachInv'
    <2>1. /\ pc[c] = "check" /\ pc' = [pc EXCEPT ![c] = "load"] /\ holders \subseteq holders'
          /\ UNCHANGED <<vm, src, held>>
          /\ UNCHANGED <<composer, status, composed, host, leaked>>
      BY <1>9, Zenon DEF LoadCheck, Goto
    <2>2. pc[c] \in AttachedPcs /\ "load" \in AttachedPcs
      BY <2>1, Zenon DEF AttachedPcs, OwnPcs
    <2> QED
      BY <2>1, <2>2, AttachGoto, Zenon
  <1>10. ASSUME NEW c \in Callers, LoadRequest(c) PROVE AttachInv'
    <2>1. /\ pc[c] = "load" /\ pc' = [pc EXCEPT ![c] = "console"] /\ holders \subseteq holders'
          /\ UNCHANGED <<vm, src, held>>
          /\ UNCHANGED <<composer, status, composed, host, leaked>>
      BY <1>10, Zenon DEF LoadRequest, Goto
    <2>2. pc[c] \in AttachedPcs /\ "console" \in AttachedPcs
      BY <2>1, Zenon DEF AttachedPcs, OwnPcs
    <2> QED
      BY <2>1, <2>2, AttachGoto, Zenon
  <1>11. ASSUME NEW c \in Callers, CreateFail(c) PROVE AttachInv'
    <2>1. /\ pc[c] \in CreatePcs \ {"record"} /\ Return(c)
          /\ UNCHANGED <<composer, composed, status>>
      BY <1>11, Zenon DEF CreateFail, Fallible, CreatePcs
    <2>2. PICK kept \in SUBSET held[c] :
             Release(vm[c], held[c], kept) /\ Teardown(Dir(vm[c]), held[c], kept)
      BY <1>11, Zenon DEF CreateFail
    <2>3. vm[c] \in VmIds
      BY <2>1, SockTypes, Zenon DEF CreatePcs
    <2>4. ASSUME NEW id \in VmIds \ {vm[c]}, Dir(id) \in holders PROVE Dir(id) \in holders'
      <3>1. Dir(id) # Dir(vm[c])
        BY <2>3, OtherDirs, Zenon
      <3> QED
        BY <2>2, <2>4, <3>1, TornDown, Zenon
    <2>5. "jailer" \notin held[c] \ kept => holders \subseteq holders'
      BY <2>2, TornDown, Zenon
    <2> QED
      BY <2>1, <2>2, <2>4, <2>5, AttachGiveUp, Zenon
  <1>12a. ASSUME NEW c \in Callers, PublishConsole(c) PROVE AttachInv'
    <2>1. /\ pc[c] = "console" /\ pc' = [pc EXCEPT ![c] = "process"] /\ holders \subseteq holders'
          /\ UNCHANGED <<vm, src, held>>
          /\ UNCHANGED <<composer, status, composed, host, leaked>>
      BY <1>12a, Zenon DEF PublishConsole, Goto
    <2>2. pc[c] \in AttachedPcs /\ "process" \in AttachedPcs
      BY <2>1, Zenon DEF AttachedPcs, OwnPcs
    <2> QED
      BY <2>1, <2>2, AttachGoto, Zenon
  <1>12. ASSUME NEW c \in Callers, PublishProcess(c) PROVE AttachInv'
    <2>1. /\ pc[c] = "process" /\ pc' = [pc EXCEPT ![c] = "handler"] /\ holders \subseteq holders'
          /\ UNCHANGED <<vm, src, held>>
          /\ UNCHANGED <<composer, status, composed, host, leaked>>
      BY <1>12, Zenon DEF PublishProcess, Goto
    <2>2. pc[c] \in AttachedPcs /\ "handler" \in AttachedPcs
      BY <2>1, Zenon DEF AttachedPcs, OwnPcs
    <2> QED
      BY <2>1, <2>2, AttachGoto, Zenon
  <1>12b. ASSUME NEW c \in Callers, PublishHandler(c) PROVE AttachInv'
    <2>1. /\ pc[c] = "handler" /\ pc' = [pc EXCEPT ![c] = "attachments"] /\ holders \subseteq holders'
          /\ UNCHANGED <<vm, src, held>>
          /\ UNCHANGED <<composer, status, composed, host, leaked>>
      BY <1>12b, Zenon DEF PublishHandler, Goto
    <2>2. pc[c] \in AttachedPcs /\ "attachments" \in AttachedPcs
      BY <2>1, Zenon DEF AttachedPcs, OwnPcs
    <2> QED
      BY <2>1, <2>2, AttachGoto, Zenon
  <1>13. ASSUME NEW c \in Callers, PublishAttachments(c) PROVE AttachInv'
    <2>1. /\ pc[c] = "attachments" /\ pc' = [pc EXCEPT ![c] = "record"]
          /\ held' = [held EXCEPT ![c] = {}]
          /\ composed' = IF held[c] # {} THEN [composed EXCEPT ![vm[c]] = held[c]] ELSE composed
          /\ UNCHANGED <<composer, status, host, leaked, holders, vm, src>>
      BY <1>13, Zenon DEF PublishAttachments
    <2>2. vm[c] \in VmIds /\ InHand(c)
      BY <2>1, SockTypes, Zenon DEF AttachInv
    <2>3. /\ composed[vm[c]] = {} /\ Jailed(vm[c])
          /\ "jailer" \in composer => "jailer" \in held[c]
      BY <2>1, <2>2, Zenon DEF InHand, AttachedPcs
    <2>4. composed'[vm[c]] = held[c] /\ held'[c] = {} /\ pc'[c] = "record"
      <3>1. CASE held[c] # {}
        BY <2>1, <2>2, <3>1, AttachTypes, SockTypes, Zenon
      <3>2. CASE held[c] = {}
        BY <2>1, <2>3, <3>2, AttachTypes, SockTypes, Zenon
      <3> QED
        BY <3>1, <3>2, Zenon
    <2>5. Balance(host[vm[c]], composed'[vm[c]], leaked[vm[c]], {})
      BY <2>2, <2>3, <2>4, BalanceFile, Zenon DEF InHand
    <2>6. InHand(c)'
      BY <2>1, <2>3, <2>4, <2>5, Zenon DEF InHand, Jailed, AttachedPcs, OwnPcs, Dir
    <2>7. Elses(c)
      BY <2>1, SockTypes, AttachTypes, Zenon DEF Elses, Unmoved
    <2>8. \A id \in VmIds \ {vm[c]} : composed'[id] = composed[id]
      BY <2>1, AttachTypes, Zenon
    <2>9. \A id \in VmIds \ {vm[c]} : Undisturbed(id)
      BY <2>1, <2>8, Zenon DEF Undisturbed
    <2> QED
      BY <2>1, <2>6, <2>7, <2>9, AttachOn, Zenon
  <1>14. ASSUME NEW c \in Callers, InsertRecord(c) PROVE AttachInv'
    <2>1. /\ pc[c] = "record" /\ Return(c) /\ status' = [status EXCEPT ![vm[c]] = InitialStatus(c)]
          /\ UNCHANGED <<composer, composed, host, leaked, holders>>
      BY <1>14, Zenon DEF InsertRecord
    <2>2. vm[c] \in VmIds /\ InHand(c) /\ held[c] = {}
      BY <2>1, SockTypes, AttachTypes, Zenon DEF AttachInv
    <2>3. InitialStatus(c) \in Live
      BY Zenon DEF InitialStatus, Live
    <2>4. status'[vm[c]] \in Live
      BY <2>1, <2>2, <2>3, SockTypes, Zenon
    <2>5. \A id \in VmIds : id = vm[c] => Rested(id)'
      BY <2>1, <2>2, <2>4, Zenon DEF Rested, InHand, Jailed, Dir
    <2>6. \A id \in VmIds \ {vm[c]} : Undisturbed(id)
      BY <2>1, SockTypes, Zenon DEF Undisturbed
    <2> QED
      BY <2>1, <2>5, <2>6, AttachReturn, Zenon
  <1>15. ASSUME NEW c \in Callers, NEW id \in VmIds, DestroyKill(c, id) PROVE AttachInv'
    <2>1. /\ pc[c] = "idle" /\ writer = None /\ status[id] \in Live /\ Begin(c, "destroy", id, None, None)
          /\ composed' = [composed EXCEPT ![id] = {}] /\ UNCHANGED <<composer, status>>
      BY <1>15, Zenon DEF DestroyKill
    <2>2. Elses(c) /\ pc'[c] = "destroy" /\ vm'[c] = id /\ held'[c] = {}
      BY <2>1, BeginElses, Zenon
    <2>3. Vacant(id) /\ Rested(id)
      BY <2>1, LiveVacant, Zenon DEF AttachInv
    <2>4. PICK kept \in SUBSET composed[id] :
             Release(id, composed[id], kept) /\ Teardown(Dir(id), composed[id], kept)
      BY <1>15, Zenon DEF DestroyKill
    <2>5. /\ Balance(host'[id], {}, leaked'[id], {})
          /\ host'[id] = host[id] \ (composed[id] \ kept)
          /\ \A i \in VmIds \ {id} : host'[i] = host[i] /\ leaked'[i] = leaked[i]
      <3>1. Balance(host[id], {}, leaked[id], composed[id])
        BY <2>3, BalanceFile, Zenon DEF Rested
      <3> QED
        BY <2>4, <3>1, Released, Zenon
    <2>6. composed'[id] = {} /\ \A i \in VmIds \ {id} : composed'[i] = composed[i]
      BY <2>1, AttachTypes, Zenon
    <2>7. InHand(c)'
      <3>1. Jailed(id)'
        <4>1. Jailed(id)
          BY <2>3, Zenon DEF Rested
        <4>2. "jailer" \notin composed[id] \ kept => holders \subseteq holders'
          BY <2>4, TornDown, Zenon
        <4> QED
          BY <2>1, <2>5, <4>1, <4>2, Zenon DEF Jailed, Dir
      <3> QED
        BY <2>2, <2>5, <2>6, <3>1, Zenon DEF InHand, Jailed, AttachedPcs, OwnPcs, Dir
    <2>8. ASSUME NEW i \in VmIds \ {id} PROVE Undisturbed(i)
      <3>1. Dir(i) # Dir(id)
        BY OtherDirs, Zenon
      <3>2. Dir(i) \in holders => Dir(i) \in holders'
        BY <2>4, <3>1, TornDown, Zenon
      <3> QED
        BY <2>1, <2>5, <2>6, <3>2, Zenon DEF Undisturbed
    <2>9. ~Vacant(id)'
      BY <2>2, Zenon DEF Vacant
    <2>10. \A d \in Callers \ {c} : pc[d] # "idle" => vm[d] \notin {id, id}
      BY <2>3, Zenon DEF Vacant
    <2> QED
      BY <2>1, <2>2, <2>7, <2>8, <2>9, <2>10, AttachPair, Zenon
  <1>16. ASSUME NEW c \in Callers, DestroyRemove(c) PROVE AttachInv'
    <2>1. /\ pc[c] = "destroy" /\ Return(c) /\ status' = [status EXCEPT ![vm[c]] = "Destroyed"]
          /\ UNCHANGED <<composer, composed, host, leaked>>
          /\ holders' = holders \/ holders' = holders \ {Dir(vm[c])}
          /\ "jailer" \in host[vm[c]] => holders' = holders
      BY <1>16, Zenon DEF DestroyRemove, RemoveDirs
    <2>2. vm[c] \in VmIds /\ InHand(c) /\ held[c] = {}
      BY <2>1, SockTypes, AttachTypes, Zenon DEF AttachInv
    <2>3. status'[vm[c]] \notin Live
      BY <2>1, <2>2, SockTypes, Zenon DEF Live
    <2>4. composed[vm[c]] = {} /\ Jailed(vm[c])
      BY <2>1, <2>2, Zenon DEF InHand
    <2>5. \A id \in VmIds : id = vm[c] => Rested(id)'
      BY <2>1, <2>2, <2>3, <2>4, Zenon DEF Rested, InHand, Jailed, Dir
    <2>6. ASSUME NEW id \in VmIds \ {vm[c]} PROVE Undisturbed(id)
      <3>1. Dir(id) # Dir(vm[c])
        BY <2>2, OtherDirs, Zenon
      <3> QED
        BY <2>1, <3>1, SockTypes, Zenon DEF Undisturbed
    <2> QED
      BY <2>1, <2>5, <2>6, AttachReturn, Zenon
  <1>17. ASSUME NEW c \in Callers, NEW old \in VmIds, NEW new \in VmIds, RenameStateDir(c, old, new)
         PROVE  AttachInv'
    <2>1. /\ pc[c] = "idle" /\ writer = None /\ status[old] \in Live /\ Begin(c, "rename", old, new, None)
          /\ composed[old] \subseteq {"jailer"}
          /\ UNCHANGED <<composer, status, composed, host, leaked, holders>>
      BY <1>17, Zenon DEF RenameStateDir
    <2>2. Elses(c) /\ pc'[c] = "rename" /\ vm'[c] = old /\ held'[c] = {}
      BY <2>1, BeginElses, Zenon
    <2>3. Rested(old)
      BY <2>1, LiveVacant, Zenon DEF AttachInv
    <2>5. InHand(c)'
      BY <2>1, <2>2, <2>3, Zenon DEF InHand, Rested, Jailed, AttachedPcs, OwnPcs, Dir
    <2>6. \A i \in VmIds : Undisturbed(i)
      BY <2>1, Zenon DEF Undisturbed
    <2> QED
      BY <2>1, <2>2, <2>5, <2>6, AttachBegin, Zenon
  <1>18. ASSUME NEW c \in Callers, RenameHolder(c) PROVE AttachInv'
    <2>1. /\ pc[c] = "rename" /\ Return(c)
          /\ HolderFree(Dir(dst[c]), "jailer" \in composed[vm[c]])
          /\ holders' = (holders \ {Dir(vm[c])}) \cup {Dir(dst[c])}
          /\ host' = IF "jailer" \in composed[vm[c]]
                     THEN [host EXCEPT ![dst[c]] = @ \cup {"jailer"}, ![vm[c]] = @ \ {"jailer"}]
                     ELSE host
          /\ composed' = IF composed[vm[c]] # {}
                         THEN [composed EXCEPT ![dst[c]] = composed[vm[c]], ![vm[c]] = {}] ELSE composed
          /\ status' = [status EXCEPT ![dst[c]] = status[vm[c]], ![vm[c]] = None]
          /\ UNCHANGED <<composer, leaked>>
      BY <1>18, Zenon DEF RenameHolder, MoveEntry, MoveName
    <2>2. /\ vm[c] \in VmIds /\ dst[c] \in VmIds /\ dst[c] # vm[c] /\ status[vm[c]] \in Live
          /\ status[dst[c]] = None /\ InHand(c) /\ held[c] = {}
      BY <2>1, AttachTypes, Zenon DEF TypeInv, CallOK, ClaimInv, AttachInv
    <2>3. Elses(c) /\ pc'[c] = "idle" /\ vm'[c] = None
      BY <2>1, ReturnElses, Zenon
    <2>4. \A d \in Callers \ {c} : pc[d] # "idle" => vm[d] \notin {vm[c], dst[c]}
      BY <2>1, Elsewhere, Zenon
    <2>5. Rested(dst[c])
      <3>1. Vacant(dst[c])
        BY <2>2, <2>4, AttachTypes, Zenon DEF Vacant
      <3> QED
        BY <2>2, <3>1, Zenon DEF AttachInv
    <2>6. composed[dst[c]] = {} /\ "jailer" \notin leaked[vm[c]]
      <3>1. composed[dst[c]] = {}
        BY <2>2, <2>5, Zenon DEF Rested, Live
      <3>2. "jailer" \in leaked[vm[c]] => "jailer" \in composer
        BY <2>2, Zenon DEF InHand, Balance, Jailed
      <3>3. "jailer" \in composer => "jailer" \in composed[vm[c]]
        BY <2>1, <2>2, Zenon DEF InHand
      <3> QED
        BY <2>2, <3>1, <3>2, <3>3, Zenon DEF InHand, Balance
    <2>7. "jailer" \notin leaked[dst[c]]
      <3> SUFFICES ASSUME "jailer" \in leaked[dst[c]] PROVE FALSE
        BY Zenon
      <3>1. "jailer" \in composer /\ Dir(dst[c]) \in holders
        BY <2>5, Zenon DEF Rested, Balance, Jailed
      <3>2. "jailer" \in composed[vm[c]]
        BY <2>1, <2>2, <3>1, Zenon DEF InHand
      <3> QED
        BY <2>1, <3>1, <3>2, Zenon DEF HolderFree
    <2>8. /\ status'[dst[c]] \in Live /\ status'[vm[c]] = None /\ None \notin Live
          /\ \A id \in VmIds \ {vm[c], dst[c]} : status'[id] = status[id]
      BY <2>1, <2>2, SockTypes, Zenon DEF Live
    <2>9. /\ composed'[dst[c]] = composed[vm[c]] /\ composed'[vm[c]] = {}
          /\ \A id \in VmIds \ {vm[c], dst[c]} : composed'[id] = composed[id]
      BY <2>1, <2>2, <2>6, AttachTypes, Zenon
    <2>10. /\ Balance(host'[vm[c]], {}, leaked[vm[c]], {})
           /\ Balance(host'[dst[c]], composed[vm[c]], leaked[dst[c]], {})
           /\ \A id \in VmIds \ {vm[c], dst[c]} : host'[id] = host[id]
      <3>1. /\ Balance(host[vm[c]], composed[vm[c]], leaked[vm[c]], {})
            /\ Balance(host[dst[c]], {}, leaked[dst[c]], {})
        BY <2>2, <2>5, <2>6, Zenon DEF InHand, Rested
      <3>2. composed[vm[c]] \subseteq {"jailer"}
        BY <2>1, <2>2, Zenon DEF InHand
      <3>3. CASE "jailer" \in composed[vm[c]]
        <4>1. composed[vm[c]] = {"jailer"}
          BY <3>2, <3>3, Zenon
        <4>2. /\ host'[vm[c]] = host[vm[c]] \ {"jailer"} /\ host'[dst[c]] = host[dst[c]] \cup {"jailer"}
              /\ \A id \in VmIds \ {vm[c], dst[c]} : host'[id] = host[id]
          BY <2>1, <2>2, <3>3, AttachTypes, Zenon
        <4> QED
          <5>1. Balance(host[vm[c]], {"jailer"}, leaked[vm[c]], {})
            BY <3>1, <4>1, Zenon
          <5>2. /\ Balance(host[vm[c]] \ {"jailer"}, {}, leaked[vm[c]], {})
                /\ Balance(host[dst[c]] \cup {"jailer"}, {"jailer"}, leaked[dst[c]], {})
            BY <2>7, <3>1, <5>1, BalanceMove, Zenon
          <5> QED
            BY <4>1, <4>2, <5>2, Zenon
      <3>4. CASE "jailer" \notin composed[vm[c]]
        <4>1. composed[vm[c]] = {}
          BY <3>2, <3>4, Zenon
        <4> QED
          BY <2>1, <3>1, <3>4, <4>1, Zenon
      <3> QED
        BY <3>3, <3>4, Zenon
    <2>11. \A id \in VmIds : id = vm[c] => Rested(id)'
      <3>1. leaked' = leaked
        BY <2>1, Zenon
      <3>2. "jailer" \notin host'[vm[c]]
        BY <2>6, <2>10, Zenon DEF Balance
      <3> QED
        BY <2>8, <2>9, <2>10, <3>1, <3>2, Zenon DEF Rested, Jailed
    <2>12. \A id \in VmIds : id = dst[c] => Rested(id)'
      <3>1. "jailer" \in composer => "jailer" \in composed[vm[c]]
        BY <2>1, <2>2, Zenon DEF InHand
      <3>2. "jailer" \in host'[dst[c]] => "jailer" \in composer
        BY <2>2, <2>7, <2>10, Zenon DEF InHand, Balance, Jailed
      <3>3. \A id \in VmIds : id = dst[c] => Jailed(id)'
        BY <2>1, <3>2, Zenon DEF Jailed, Dir
      <3> QED
        BY <2>1, <2>8, <2>9, <2>10, <3>1, <3>3, Zenon DEF Rested
    <2>13. ASSUME NEW id \in VmIds \ {vm[c], dst[c]} PROVE Undisturbed(id)
      <3>1. Dir(id) # Dir(vm[c])
        BY <2>2, OtherDirs, Zenon
      <3> QED
        BY <2>1, <2>8, <2>9, <2>10, <3>1, Zenon DEF Undisturbed
    <2> QED
      BY <2>2, <2>3, <2>1, <2>4, <2>11, <2>12, <2>13, AttachPair, Zenon
  <1>19. ASSUME NEW c \in Callers, RenameRollback(c) PROVE AttachInv'
    <2>1. /\ pc[c] = "rename" /\ Return(c) /\ UNCHANGED <<composer, status, composed, host, leaked, holders>>
      BY <1>19, Zenon DEF RenameRollback
    <2>2. vm[c] \in VmIds /\ InHand(c) /\ held[c] = {} /\ status[vm[c]] \in Live
      BY <2>1, SockTypes, AttachTypes, Zenon DEF AttachInv, ClaimInv
    <2>3. \A id \in VmIds : id = vm[c] => Rested(id)'
      BY <2>1, <2>2, Zenon DEF Rested, InHand, Jailed, Dir
    <2>4. \A id \in VmIds \ {vm[c]} : Undisturbed(id)
      BY <2>1, Zenon DEF Undisturbed
    <2> QED
      BY <2>1, <2>3, <2>4, AttachReturn, Zenon
  <1>20. ASSUME NEW c \in Callers, Bind(c) PROVE AttachInv'
    <2>1. UNCHANGED <<composer, pc, vm, src, held, status, composed, host, leaked, holders>>
      BY <1>20, Zenon DEF Bind
    <2>2. \A i \in VmIds : Undisturbed(i)
      BY <2>1, Zenon DEF Undisturbed
    <2> QED
      BY <2>1, <2>2, AttachQuiet, Zenon
  <1>21. ASSUME NEW id \in VmIds, NEW replied \in BOOLEAN, StartVm(id, replied) PROVE AttachInv'
    <2>1. /\ UNCHANGED <<composer, pc, vm, src, held, composed, host, leaked, holders>>
          /\ status[id] \in Live /\ (status' = status \/ status' = [status EXCEPT ![id] = "Running"])
      BY <1>21, Zenon DEF StartVm, Execute, Live
    <2>2. \A i \in VmIds : status'[i] = status[i] \/ (status[i] \in Live /\ status'[i] \in Live)
      BY <2>1, SockTypes, Zenon DEF Live
    <2>3. \A i \in VmIds : Undisturbed(i)
      BY <2>1, <2>2, Zenon DEF Undisturbed, Live
    <2> QED
      BY <2>1, <2>3, AttachQuiet, Zenon
  <1>22. ASSUME NEW id \in VmIds, NEW replied \in BOOLEAN, StopVm(id, replied) PROVE AttachInv'
    <2>1. /\ UNCHANGED <<composer, pc, vm, src, held, composed, host, leaked, holders>>
          /\ status[id] \in Live /\ (status' = status \/ status' = [status EXCEPT ![id] = "Stopped"])
      BY <1>22, Zenon DEF StopVm, Execute, Live
    <2>2. \A i \in VmIds : status'[i] = status[i] \/ (status[i] \in Live /\ status'[i] \in Live)
      BY <2>1, SockTypes, Zenon DEF Live
    <2>3. \A i \in VmIds : Undisturbed(i)
      BY <2>1, <2>2, Zenon DEF Undisturbed, Live
    <2> QED
      BY <2>1, <2>3, AttachQuiet, Zenon
  <1>23. ASSUME NEW id \in VmIds, NEW s \in Snaps, SnapshotVm(id, s) PROVE AttachInv'
    <2>1. UNCHANGED <<composer, pc, vm, src, held, status, composed, host, leaked, holders>>
      BY <1>23, Zenon DEF SnapshotVm
    <2>2. \A i \in VmIds : Undisturbed(i)
      BY <2>1, Zenon DEF Undisturbed
    <2> QED
      BY <2>1, <2>2, AttachQuiet, Zenon
  <1>24. ASSUME NEW id \in VmIds, NEW s \in Snaps, SnapshotFail(id, s) PROVE AttachInv'
    <2>1. UNCHANGED <<composer, pc, vm, src, held, status, composed, host, leaked, holders>>
      BY <1>24, Zenon DEF SnapshotFail
    <2>2. \A i \in VmIds : Undisturbed(i)
      BY <2>1, Zenon DEF Undisturbed
    <2> QED
      BY <2>1, <2>2, AttachQuiet, Zenon
  <1>25. ASSUME NEW p \in Procs, PagerOpen(p) PROVE AttachInv'
    <2>1. UNCHANGED <<composer, pc, vm, src, held, status, composed, host, leaked, holders>>
      BY <1>25, Zenon DEF PagerOpen
    <2>2. \A i \in VmIds : Undisturbed(i)
      BY <2>1, Zenon DEF Undisturbed
    <2> QED
      BY <2>1, <2>2, AttachQuiet, Zenon
  <1>26. ASSUME NEW p \in Procs, ProcessExit(p) PROVE AttachInv'
    <2>1. UNCHANGED <<composer, pc, vm, src, held, status, composed, host, leaked, holders>>
      BY <1>26, Zenon DEF ProcessExit
    <2>2. \A i \in VmIds : Undisturbed(i)
      BY <2>1, Zenon DEF Undisturbed
    <2> QED
      BY <2>1, <2>2, AttachQuiet, Zenon
  <1>27. CASE UNCHANGED vars
    <2>1. UNCHANGED <<composer, pc, vm, src, held, status, composed, host, leaked, holders>>
      BY <1>27, Zenon DEF vars
    <2>2. \A i \in VmIds : Undisturbed(i)
      BY <2>1, Zenon DEF Undisturbed
    <2> QED
      BY <2>1, <2>2, AttachQuiet, Zenon
  <1> QED
    BY <1>1, <1>2, <1>3, <1>4, <1>5, <1>6, <1>7, <1>8, <1>9, <1>10, <1>11, <1>12a, <1>12,
       <1>12b, <1>13, <1>14, <1>15, <1>16, <1>17, <1>18, <1>19, <1>20, <1>21, <1>22, <1>23, <1>24, <1>25,
       <1>26, <1>27, Zenon DEF Next, CallBegin, CallStep, CreateBegin

LEMMA AttachHolds ==
    ASSUME OneOwnerPerId, DistinctDirs PROVE Spec => [](TypeInv /\ ClaimInv /\ AttachInv)
  <1>1. TypeInv /\ ClaimInv /\ AttachInv /\ [Next]_vars => AttachInv'
    BY AttachStep, Zenon
  <1> QED
    BY <1>1, InitAttach, ClaimsHold, PTL DEF Spec

LEMMA AttachAccounts ==
    ASSUME TypeInv, ClaimInv, AttachInv PROVE AttachmentsAccounted
  <1> SUFFICES ASSUME NEW id \in VmIds
               PROVE  host[id] = composed[id] \cup leaked[id]
                                 \cup UNION {held[c] : c \in {d \in Callers : vm[d] = id}}
    BY Zenon DEF AttachmentsAccounted
  <1>1. CASE Vacant(id)
    <2>1. {d \in Callers : vm[d] = id} = {}
      BY <1>1, Zenon DEF Vacant
    <2>2. UNION {held[c] : c \in {d \in Callers : vm[d] = id}} = {}
      BY <2>1
    <2>3. host[id] = composed[id] \cup leaked[id] \cup {}
      BY <1>1, Zenon DEF AttachInv, Rested, Balance
    <2> QED
      BY <2>2, <2>3, Zenon
  <1>2. CASE ~Vacant(id)
    <2>1. PICK c \in Callers : vm[c] = id
      BY <1>2, Zenon DEF Vacant
    <2>2. pc[c] # "idle"
      BY <2>1, AttachTypes, Zenon
    <2>3. \A d \in Callers : vm[d] = id => d = c
      BY <2>1, <2>2, Elsewhere, AttachTypes, Zenon
    <2>4. {d \in Callers : vm[d] = id} = {c}
      BY <2>1, <2>3, Zenon
    <2>5. UNION {held[d] : d \in {c}} = held[c]
      OBVIOUS
    <2>6. host[id] = composed[id] \cup leaked[id] \cup held[c]
      BY <2>1, <2>2, Zenon DEF AttachInv, InHand, Balance
    <2> QED
      BY <2>4, <2>5, <2>6, Zenon
  <1> QED
    BY <1>1, <1>2, Zenon

(* With one owner per id and a directory name per id, every TAP, vsock      *)
(* address, firewall chain and jail that exists under an id is recorded for *)
(* release, held by the create in flight, or was left by a compose step     *)
(* that failed or a release whose error was dropped; rename_vm moves the    *)
(* jail with its record.                                                    *)
THEOREM AttachmentsAccountedHolds ==
    ASSUME OneOwnerPerId, DistinctDirs PROVE Spec => []AttachmentsAccounted
  BY AttachAccounts, AttachHolds, PTL

-----------------------------------------------------------------------------
(* What is left of the directories of a destroyed VM could not be removed, *)
(* and no step adds to it; a socket left there is that of a reaped process, *)
(* and so is one left by the first half of destroy_vm.                      *)
Doused(n) == sock[n] # None => n \in holders /\ life[sock[n]] = "reaped"

Swept(id) ==
    /\ Dir(id) \in stateDirs => "state" \in undeleted[id]
    /\ Dir(id) \in holders => "holder" \in undeleted[id]
    /\ snapFiles[Dir(id)] # {} => Dir(id) \in stateDirs
    /\ Doused(Dir(id))

SweptInv ==
    /\ \A id \in VmIds : status[id] = "Destroyed" => Swept(id)
    /\ \A c \in Callers : pc[c] = "destroy" => Doused(Dir(vm[c]))

LEMMA InitSwept == Init => SweptInv
  BY DEF Init, SweptInv

LEMMA SweptTypes ==
    ASSUME TypeInv
    PROVE  /\ life \in [Procs -> {"unused", "up", "zombie", "reaped"}]
           /\ undeleted \in [VmIds -> SUBSET {"state", "holder"}]
  BY Zenon DEF TypeInv, TypeOK

(* A step touches nothing under the directory name n, brings no process     *)
(* back, and starts no destroy.                                             *)
Spares(n) ==
    /\ n \in stateDirs' <=> n \in stateDirs
    /\ n \in holders' <=> n \in holders
    /\ snapFiles'[n] = snapFiles[n] /\ sock'[n] = sock[n]

StayReaped == \A p \in Procs : life[p] = "reaped" => life'[p] = "reaped"

Goes(X) == \A d \in Callers : pc'[d] = "destroy" =>
               pc[d] = "destroy" /\ vm'[d] = vm[d] /\ vm[d] \notin X

LEMMA SparesDoused ==
    ASSUME TypeInv, StayReaped, NEW n \in SafeIds, Spares(n), Doused(n) PROVE Doused(n)'
  <1>1. sock[n] \in Procs \cup {None}
    BY SockTypes, Zenon
  <1> QED
    BY <1>1, Zenon DEF Doused, Spares, StayReaped

LEMMA SparesSwept ==
    ASSUME TypeInv, StayReaped, NEW id \in VmIds, Spares(Dir(id)), undeleted'[id] = undeleted[id],
           Swept(id)
    PROVE  Swept(id)'
  <1>1. Doused(Dir(id))'
    BY SparesDoused, SockTypes, Zenon DEF Swept
  <1>2. Dir(id)' = Dir(id)
    BY Zenon DEF Dir
  <1> QED
    BY <1>1, <1>2, Zenon DEF Swept, Spares

LEMMA SweptPair ==
    ASSUME DistinctDirs, TypeInv, SweptInv, StayReaped, NEW a \in VmIds, NEW b \in VmIds,
           status'[a] # "Destroyed", status'[b] # "Destroyed", Goes({a, b}),
           \A id \in VmIds \ {a, b} : status'[id] = status[id] /\ undeleted'[id] = undeleted[id],
           \A n \in SafeIds \ {Dir(a), Dir(b)} : Spares(n)
    PROVE  SweptInv'
  <1>1. ASSUME NEW id \in VmIds \ {a, b} PROVE Dir(id) \in SafeIds /\ Spares(Dir(id))
    BY OtherDirs, SockTypes, Zenon
  <1>2. ASSUME NEW id \in VmIds, status'[id] = "Destroyed" PROVE Swept(id)'
    <2>1. id \in VmIds \ {a, b}
      BY <1>2, Zenon
    <2>2. Swept(id)
      BY <1>2, <2>1, Zenon DEF SweptInv
    <2> QED
      BY <1>1, <2>1, <2>2, SparesSwept, Zenon
  <1>3. ASSUME NEW c \in Callers, pc'[c] = "destroy" PROVE Doused(Dir(vm[c]))'
    <2>1. pc[c] = "destroy" /\ vm'[c] = vm[c] /\ vm[c] \in VmIds \ {a, b}
      BY <1>3, SockTypes, Zenon DEF Goes
    <2>2. Doused(Dir(vm[c]))
      BY <2>1, Zenon DEF SweptInv
    <2>3. Doused(Dir(vm[c])) => Dir(vm[c])' = Dir(vm[c])
      BY <2>1, Zenon DEF Dir
    <2>4. \A n \in SafeIds : n = Dir(vm[c]) => Doused(n)'
      BY <1>1, <2>1, <2>2, SparesDoused, Zenon
    <2> QED
      BY <1>1, <2>1, <2>2, <2>3, <2>4, Zenon
  <1> QED
    BY <1>2, <1>3, Zenon DEF SweptInv

(* No call is destroying the id of a create, of a rename, or of an          *)
(* operation that runs under the free lock.                                 *)
LEMMA OtherGoes ==
    ASSUME TypeInv, ClaimInv, NEW c \in Callers, Others(c), pc'[c] # "destroy", pc[c] # "idle"
    PROVE  Goes({vm[c], dst[c]})
  <1> SUFFICES ASSUME NEW d \in Callers, pc'[d] = "destroy"
               PROVE  pc[d] = "destroy" /\ vm'[d] = vm[d] /\ vm[d] \notin {vm[c], dst[c]}
    BY Zenon DEF Goes
  <1>1. d # c
    BY Zenon
  <1>2. pc[d] = "destroy" /\ vm'[d] = vm[d]
    BY <1>1, Zenon DEF Others
  <1>3. pc[d] # "idle"
    BY <1>2, Zenon
  <1> QED
    BY <1>1, <1>2, <1>3, Elsewhere, Zenon

LEMMA FreeGoes ==
    ASSUME ClaimInv, writer = None, \A d \in Callers : pc'[d] = "destroy" => pc[d] = "destroy"
    PROVE  \A X : Goes(X)
  BY Zenon DEF ClaimInv, Goes

LEMMA SweptCreate ==
    ASSUME DistinctDirs, TypeInv, ClaimInv, SweptInv, StayReaped, NEW c \in Callers,
           pc[c] \in CreatePcs, Others(c), pc'[c] # "destroy", UNCHANGED <<status, undeleted>>,
           \A n \in SafeIds \ {Dir(vm[c])} : Spares(n)
    PROVE  SweptInv'
  <1>1. vm[c] \in VmIds /\ status'[vm[c]] # "Destroyed" /\ pc[c] # "idle"
    <2>1. pc[c] # "idle" /\ status[vm[c]] = None
      BY Zenon DEF CreatePcs, ClaimInv
    <2> QED
      BY <2>1, SockTypes, Zenon
  <1>2. \A n \in SafeIds \ {Dir(vm[c]), Dir(vm[c])} : Spares(n)
    BY Zenon
  <1>3. Goes({vm[c], vm[c]})
    BY <1>1, OtherGoes, Zenon DEF Goes
  <1> QED
    BY <1>1, <1>2, <1>3, SweptPair, Zenon

LEMMA SweptQuiet ==
    ASSUME TypeInv, SweptInv, StayReaped, UNCHANGED <<stateDirs, holders, snapFiles, sock, undeleted>>,
           Goes({}), \A id \in VmIds : status'[id] = "Destroyed" => status[id] = "Destroyed"
    PROVE  SweptInv'
  <1>1. \A n \in SafeIds : Spares(n)
    BY Zenon DEF Spares
  <1>2. ASSUME NEW id \in VmIds, status'[id] = "Destroyed" PROVE Swept(id)'
    BY <1>1, <1>2, SockTypes, SparesSwept, Zenon DEF SweptInv
  <1>3. ASSUME NEW c \in Callers, pc'[c] = "destroy" PROVE Doused(Dir(vm[c]))'
    <2>1. pc[c] = "destroy" /\ vm'[c] = vm[c] /\ vm[c] \in VmIds
      BY <1>3, SockTypes, Zenon DEF Goes
    <2>2. \A n \in SafeIds : n = Dir(vm[c]) => Doused(n)'
      BY <1>1, <2>1, SparesDoused, Zenon DEF SweptInv
    <2>3. Dir(vm[c])' = Dir(vm[c]) /\ Dir(vm[c]) \in SafeIds
      BY <2>1, SockTypes, Zenon DEF Dir
    <2> QED
      BY <2>2, <2>3, Zenon
  <1> QED
    BY <1>2, <1>3, Zenon DEF SweptInv

LEMMA CallGoes ==
    ASSUME NEW c \in Callers, Others(c), pc'[c] # "destroy" PROVE Goes({})
  BY Zenon DEF Others, Goes

LEMMA RestGoes == ASSUME UNCHANGED <<pc, vm>> PROVE Goes({})
  BY Zenon DEF Goes

LEMMA RestReaped == ASSUME UNCHANGED life PROVE StayReaped
  BY Zenon DEF StayReaped

LEMMA KillReaped ==
    ASSUME TypeInv, NEW p \in Procs, KillAndReap(p) PROVE StayReaped /\ life'[p] = "reaped"
  BY SweptTypes, Zenon DEF KillAndReap, StayReaped

(* A create that moves on and touches no directory.                         *)
LEMMA SweptGoto ==
    ASSUME TypeInv, SweptInv, NEW c \in Callers, NEW l, l # "destroy", pc' = [pc EXCEPT ![c] = l],
           UNCHANGED <<vm, dst, child>>,
           UNCHANGED <<status, stateDirs, holders, snapFiles, sock, undeleted, life>>
    PROVE  SweptInv'
  <1>1. Goes({}) /\ StayReaped
    BY GotoLocals, CallGoes, RestReaped, Zenon
  <1> QED
    BY <1>1, SweptQuiet, Zenon

LEMMA SweptRest ==
    ASSUME TypeInv, SweptInv, UNCHANGED <<pc, vm>>, UNCHANGED life,
           UNCHANGED <<stateDirs, holders, snapFiles, sock, undeleted>>,
           \A id \in VmIds : status'[id] = "Destroyed" => status[id] = "Destroyed"
    PROVE  SweptInv'
  BY RestGoes, RestReaped, SweptQuiet, Zenon

LEMMA TeardownSpares ==
    ASSUME TypeInv, NEW n \in SafeIds, NEW rs, NEW kept, Teardown(n, rs, kept),
           UNCHANGED <<stateDirs, snapFiles>>, NEW m \in SafeIds \ {n}
    PROVE  Spares(m)
  BY SockTypes, Zenon DEF Teardown, Spares

LEMMA SweptStep ==
    ASSUME DistinctDirs, TypeInv, ClaimInv, SockInv, SweptInv, [Next]_vars PROVE SweptInv'
  <1>1. ASSUME NEW c \in Callers, NEW id \in VmIds, NEW ref \in SnapshotRefs \cup {None},
               CreateCheck(c, id, ref)
         PROVE  SweptInv'
    <2>1. /\ Begin(c, "compose", id, None, ref)
          /\ UNCHANGED <<status, stateDirs, holders, snapFiles, sock, undeleted, life>>
      BY <1>1, Zenon DEF CreateCheck
    <2>2. Others(c) /\ pc'[c] = "compose"
      BY <2>1, BeginLocals, Zenon
    <2>3. Goes({}) /\ StayReaped
      BY <2>1, <2>2, CallGoes, RestReaped, Zenon
    <2> QED
      BY <2>1, <2>3, SweptQuiet, Zenon
  <1>2. ASSUME NEW c \in Callers, NEW r \in Primitives, Attach(c, r) PROVE SweptInv'
    <2>1. /\ pc[c] \in CreatePcs /\ UNCHANGED <<status, undeleted>> /\ UNCHANGED life
          /\ UNCHANGED <<stateDirs, snapFiles, sock>>
          /\ holders' = holders \/ holders' = holders \cup {Dir(vm[c])}
          /\ UNCHANGED <<pc, vm, dst, child>>
      BY <1>2, Zenon DEF Attach, CreatePcs
    <2>2. Others(c) /\ pc'[c] # "destroy"
      BY <2>1, Zenon DEF Others, CreatePcs
    <2>3. \A n \in SafeIds \ {Dir(vm[c])} : Spares(n)
      BY <2>1, SockTypes, DirTypes, Zenon DEF Spares
    <2>4. StayReaped
      BY <2>1, RestReaped, Zenon
    <2> QED
      BY <2>1, <2>2, <2>3, <2>4, SweptCreate, Zenon
  <1>3. ASSUME NEW c \in Callers, NEW r \in Primitives, ComposeFail(c, r) PROVE SweptInv'
    <2>1. /\ pc[c] \in CreatePcs /\ UNCHANGED <<status, undeleted>> /\ UNCHANGED life
          /\ UNCHANGED <<stateDirs, snapFiles, sock>>
          /\ holders' = holders \/ holders' = holders \cup {Dir(vm[c])}
          /\ Return(c)
      BY <1>3, Zenon DEF ComposeFail, CreatePcs
    <2>2. Others(c) /\ pc'[c] # "destroy"
      BY <2>1, ReturnLocals, Zenon
    <2>3. \A n \in SafeIds \ {Dir(vm[c])} : Spares(n)
      BY <2>1, SockTypes, DirTypes, Zenon DEF Spares
    <2>4. StayReaped
      BY <2>1, RestReaped, Zenon
    <2> QED
      BY <2>1, <2>2, <2>3, <2>4, SweptCreate, Zenon
  <1>4. ASSUME NEW c \in Callers, MakeStateDir(c) PROVE SweptInv'
    <2>1. /\ pc[c] \in CreatePcs /\ UNCHANGED <<status, undeleted>> /\ UNCHANGED life
          /\ stateDirs' = stateDirs \cup {Dir(vm[c])} /\ UNCHANGED <<holders, snapFiles, sock>>
          /\ pc' = [pc EXCEPT ![c] = "spawn"] /\ UNCHANGED <<vm, dst, child>>
      BY <1>4, Zenon DEF MakeStateDir, CreatePcs, Goto
    <2>2. Others(c) /\ pc'[c] # "destroy"
      <3>1. Others(c) /\ pc'[c] = "spawn"
        BY <2>1, GotoLocals, Zenon
      <3> QED
        BY <3>1, Zenon
    <2>3. \A n \in SafeIds \ {Dir(vm[c])} : Spares(n)
      BY <2>1, SockTypes, DirTypes, Zenon DEF Spares
    <2>4. StayReaped
      BY <2>1, RestReaped, Zenon
    <2> QED
      BY <2>1, <2>2, <2>3, <2>4, SweptCreate, Zenon
  <1>5. ASSUME NEW c \in Callers, SpawnFail(c) PROVE SweptInv'
    <2>1. /\ pc[c] \in CreatePcs /\ UNCHANGED <<status, undeleted, stateDirs, snapFiles, life>>
          /\ Return(c)
          /\ \/ \E kept : Teardown(Dir(vm[c]), held[c], kept)
             \/ /\ holders' = holders \cup {Dir(vm[c])}
                /\ sock' = [sock EXCEPT ![Dir(vm[c])] = None]
      BY <1>5, Zenon DEF SpawnFail, CreatePcs
    <2>2. Dir(vm[c]) \in SafeIds
      BY <2>1, SockTypes, Zenon DEF CreatePcs
    <2>3. ASSUME NEW n \in SafeIds \ {Dir(vm[c])} PROVE Spares(n)
      <3>1. CASE \E kept : Teardown(Dir(vm[c]), held[c], kept)
        BY <2>1, <2>2, <3>1, TeardownSpares, Zenon
      <3>2. CASE /\ holders' = holders \cup {Dir(vm[c])}
                 /\ sock' = [sock EXCEPT ![Dir(vm[c])] = None]
        BY <2>1, <3>2, SockTypes, Zenon DEF Spares
      <3> QED
        BY <2>1, <3>1, <3>2, Zenon
    <2>4. Others(c) /\ pc'[c] # "destroy" /\ StayReaped
      BY <2>1, ReturnLocals, RestReaped, Zenon
    <2> QED
      BY <2>1, <2>3, <2>4, SweptCreate, Zenon
  <1>6. ASSUME NEW c \in Callers, NEW p \in Procs, Spawn(c, p) PROVE SweptInv'
    <2>1. /\ pc[c] \in CreatePcs /\ UNCHANGED <<status, undeleted>>
          /\ life[p] = "unused" /\ life' = [life EXCEPT ![p] = "up"]
          /\ holders' = holders \cup {Dir(vm[c])} /\ sock' = [sock EXCEPT ![Dir(vm[c])] = None]
          /\ UNCHANGED <<stateDirs, snapFiles>>
      BY <1>6, Zenon DEF Spawn, CreatePcs
    <2>2. Others(c) /\ pc'[c] # "destroy"
      <3>1. /\ pc' = [pc EXCEPT ![c] = "wait"] /\ child' = [child EXCEPT ![c] = p]
            /\ UNCHANGED <<vm, dst>>
        BY <1>6, Zenon DEF Spawn
      <3>2. Others(c) /\ pc'[c] = "wait"
        BY <3>1, SockTypes, Zenon DEF Others
      <3> QED
        BY <3>2, Zenon
    <2>3. \A n \in SafeIds \ {Dir(vm[c])} : Spares(n)
      BY <2>1, SockTypes, Zenon DEF Spares
    <2>4. StayReaped
      BY <2>1, SweptTypes, Zenon DEF StayReaped
    <2> QED
      BY <2>1, <2>2, <2>3, <2>4, SweptCreate, Zenon
  <1>7. ASSUME NEW c \in Callers, WaitReady(c) PROVE SweptInv'
    <2>1. /\ pc' = [pc EXCEPT ![c] = "configure"] \/ pc' = [pc EXCEPT ![c] = "check"]
          /\ UNCHANGED <<vm, dst, child>>
          /\ UNCHANGED <<status, stateDirs, holders, snapFiles, sock, undeleted, life>>
      BY <1>7, Zenon DEF WaitReady, Goto
    <2> QED
      BY <2>1, SweptGoto, Zenon
  <1>8. ASSUME NEW c \in Callers, Configure(c) PROVE SweptInv'
    <2>1. /\ pc' = [pc EXCEPT ![c] = "console"] /\ UNCHANGED <<vm, dst, child>>
          /\ UNCHANGED <<status, stateDirs, holders, snapFiles, sock, undeleted, life>>
      BY <1>8, Zenon DEF Configure, Goto
    <2> QED
      BY <2>1, SweptGoto, Zenon
  <1>9. ASSUME NEW c \in Callers, LoadCheck(c) PROVE SweptInv'
    <2>1. /\ pc' = [pc EXCEPT ![c] = "load"] /\ UNCHANGED <<vm, dst, child>>
          /\ UNCHANGED <<status, stateDirs, holders, snapFiles, sock, undeleted, life>>
      BY <1>9, Zenon DEF LoadCheck, Goto
    <2> QED
      BY <2>1, SweptGoto, Zenon
  <1>10. ASSUME NEW c \in Callers, LoadRequest(c) PROVE SweptInv'
    <2>1. /\ pc' = [pc EXCEPT ![c] = "console"] /\ UNCHANGED <<vm, dst, child>>
          /\ UNCHANGED <<status, stateDirs, holders, snapFiles, sock, undeleted, life>>
      BY <1>10, Zenon DEF LoadRequest, Goto
    <2> QED
      BY <2>1, SweptGoto, Zenon
  <1>11. ASSUME NEW c \in Callers, CreateFail(c) PROVE SweptInv'
    <2>1. /\ pc[c] \in CreatePcs /\ UNCHANGED <<status, undeleted, stateDirs, snapFiles>>
          /\ KillAndReap(child[c]) /\ pc[c] \in OwnPcs /\ Return(c)
          /\ \E kept : Teardown(Dir(vm[c]), held[c], kept)
      BY <1>11, Zenon DEF CreateFail, Fallible, CreatePcs, OwnPcs
    <2>2. Dir(vm[c]) \in SafeIds
      BY <2>1, SockTypes, Zenon DEF CreatePcs
    <2>3. \A n \in SafeIds \ {Dir(vm[c])} : Spares(n)
      BY <2>1, <2>2, TeardownSpares, Zenon
    <2>4. Others(c) /\ pc'[c] # "destroy"
      BY <2>1, ReturnLocals, Zenon
    <2>5. StayReaped
      BY <2>1, SockTypes, KillReaped, Zenon
    <2> QED
      BY <2>1, <2>3, <2>4, <2>5, SweptCreate, Zenon
  <1>12a. ASSUME NEW c \in Callers, PublishConsole(c) PROVE SweptInv'
    <2>1. /\ pc' = [pc EXCEPT ![c] = "process"] /\ UNCHANGED <<vm, dst, child>>
          /\ UNCHANGED <<status, stateDirs, holders, snapFiles, sock, undeleted, life>>
      BY <1>12a, Zenon DEF PublishConsole, Goto
    <2> QED
      BY <2>1, SweptGoto, Zenon
  <1>12. ASSUME NEW c \in Callers, PublishProcess(c) PROVE SweptInv'
    <2>1. /\ pc' = [pc EXCEPT ![c] = "handler"] /\ UNCHANGED <<vm, dst, child>>
          /\ UNCHANGED <<status, stateDirs, holders, snapFiles, sock, undeleted, life>>
      BY <1>12, Zenon DEF PublishProcess, Goto
    <2> QED
      BY <2>1, SweptGoto, Zenon
  <1>12b. ASSUME NEW c \in Callers, PublishHandler(c) PROVE SweptInv'
    <2>1. /\ pc' = [pc EXCEPT ![c] = "attachments"] /\ UNCHANGED <<vm, dst, child>>
          /\ UNCHANGED <<status, stateDirs, holders, snapFiles, sock, undeleted, life>>
      BY <1>12b, Zenon DEF PublishHandler, Goto
    <2> QED
      BY <2>1, SweptGoto, Zenon
  <1>13. ASSUME NEW c \in Callers, PublishAttachments(c) PROVE SweptInv'
    <2>1. /\ pc' = [pc EXCEPT ![c] = "record"] /\ UNCHANGED <<vm, dst, child>>
          /\ UNCHANGED <<status, stateDirs, holders, snapFiles, sock, undeleted, life>>
      BY <1>13, Zenon DEF PublishAttachments
    <2> QED
      BY <2>1, SweptGoto, Zenon
  <1>14. ASSUME NEW c \in Callers, InsertRecord(c) PROVE SweptInv'
    <2>1. /\ pc[c] = "record" /\ status' = [status EXCEPT ![vm[c]] = InitialStatus(c)] /\ Return(c)
          /\ UNCHANGED <<stateDirs, holders, snapFiles, sock, undeleted, life>>
      BY <1>14, Zenon DEF InsertRecord
    <2>2. InitialStatus(c) # "Destroyed"
      BY Zenon DEF InitialStatus
    <2>3. \A id \in VmIds : status'[id] = "Destroyed" => status[id] = "Destroyed"
      BY <2>1, <2>2, SockTypes, Zenon
    <2>4. Goes({}) /\ StayReaped
      BY <2>1, ReturnLocals, CallGoes, RestReaped, Zenon
    <2> QED
      BY <2>1, <2>3, <2>4, SweptQuiet, Zenon
  <1>15. ASSUME NEW c \in Callers, NEW id \in VmIds, DestroyKill(c, id) PROVE SweptInv'
    <2>1. /\ status[id] \in Live /\ UNCHANGED <<status, stateDirs, snapFiles, undeleted>>
          /\ writer = None /\ Begin(c, "destroy", id, None, None)
          /\ IF processes[id] # None THEN KillAndReap(processes[id]) ELSE UNCHANGED <<life, guest, desync>>
      BY <1>15, Zenon DEF DestroyKill
    <2>2. PICK kept : Teardown(Dir(id), composed[id], kept)
      BY <1>15, Zenon DEF DestroyKill
    <2>3. Dir(id) \in SafeIds /\ status[id] # "Destroyed"
      BY <2>1, SockTypes, Zenon DEF Live
    <2>4. \A n \in SafeIds \ {Dir(id)} : Spares(n)
      BY <2>1, <2>2, <2>3, TeardownSpares, Zenon
    <2>5. Others(c) /\ pc'[c] = "destroy" /\ vm'[c] = id /\ \A d \in Callers : pc[d] # "destroy"
      <3>1. Others(c) /\ pc'[c] = "destroy" /\ vm'[c] = id
        BY <2>1, BeginLocals, Zenon
      <3>2. \A d \in Callers : writer = d <=> pc[d] \in {"destroy", "rename"}
        BY Zenon DEF ClaimInv
      <3>3. \A d \in Callers : writer # d
        BY <2>1, NoneAssumption, Zenon
      <3> QED
        BY <3>1, <3>2, <3>3, Zenon
    <2>6. Served(id)
      BY <2>1, <2>5, Zenon DEF SockInv, Settled
    <2>7. StayReaped /\ life'[processes[id]] = "reaped"
      BY <2>1, <2>6, SockTypes, KillReaped, Zenon DEF Served
    <2>8. \A n \in SafeIds : n = Dir(id) => Doused(n)'
      <3> SUFFICES ASSUME sock'[Dir(id)] # None
                   PROVE  Dir(id) \in holders' /\ life'[sock'[Dir(id)]] = "reaped"
        BY Zenon DEF Doused
      <3>1. CASE sock'[Dir(id)] = sock[Dir(id)] /\ holders' = holders
        BY <2>6, <2>7, <3>1, Zenon DEF Served
      <3>2. CASE sock'[Dir(id)] = None
        BY <3>2, Zenon
      <3> QED
        BY <2>2, <2>3, <3>1, <3>2, SockTypes, Zenon DEF Teardown
    <2>9. ASSUME NEW i \in VmIds, status'[i] = "Destroyed" PROVE Swept(i)'
      <3>1. i # id /\ Swept(i)
        BY <2>1, <2>3, <2>9, Zenon DEF SweptInv
      <3>2. Spares(Dir(i))
        BY <2>4, <3>1, OtherDirs, SockTypes, Zenon
      <3> QED
        BY <2>1, <2>7, <3>1, <3>2, SparesSwept, Zenon
    <2>10. ASSUME NEW d \in Callers, pc'[d] = "destroy" PROVE Doused(Dir(vm[d]))'
      <3>1. d = c
        BY <2>5, <2>10, Zenon DEF Others
      <3>2. Dir(vm'[d]) = Dir(id) /\ Dir(vm'[d]) = Dir(vm[d])'
        BY <2>5, <3>1, Zenon DEF Dir
      <3> QED
        BY <2>3, <2>8, <3>2, Zenon
    <2> QED
      BY <2>9, <2>10, Zenon DEF SweptInv
  <1>16. ASSUME NEW c \in Callers, DestroyRemove(c) PROVE SweptInv'
    <2>1. /\ pc[c] = "destroy" /\ status' = [status EXCEPT ![vm[c]] = "Destroyed"]
          /\ Return(c) /\ UNCHANGED life
      BY <1>16, Zenon DEF DestroyRemove
    <2>2. vm[c] \in VmIds /\ Dir(vm[c]) \in SafeIds /\ Doused(Dir(vm[c]))
      BY <2>1, SockTypes, Zenon DEF SweptInv
    <2>3. PICK left \in SUBSET {"state", "holder"} :
             /\ "state" \in left => Dir(vm[c]) \in stateDirs
             /\ holders' = IF "holder" \in left THEN holders ELSE holders \ {Dir(vm[c])}
             /\ \/ sock' = [sock EXCEPT ![Dir(vm[c])] = None]
                \/ "holder" \in left /\ UNCHANGED sock
             /\ stateDirs' = IF "state" \in left THEN stateDirs ELSE stateDirs \ {Dir(vm[c])}
             /\ \E files \in SUBSET snapFiles[Dir(vm[c])] :
                   /\ "state" \notin left => files = {}
                   /\ snapFiles' = [snapFiles EXCEPT ![Dir(vm[c])] = files]
             /\ undeleted' = [undeleted EXCEPT ![vm[c]] = left]
      BY <1>16, Zenon DEF DestroyRemove, RemoveDirs
    <2>4. StayReaped /\ Others(c) /\ pc'[c] = "idle"
      BY <2>1, ReturnLocals, RestReaped, Zenon
    <2>5. \A n \in SafeIds \ {Dir(vm[c])} : Spares(n)
      BY <2>3, SockTypes, DirTypes, Zenon DEF Spares
    <2>6. ASSUME NEW id \in VmIds, status'[id] = "Destroyed" PROVE Swept(id)'
      <3>1. CASE id = vm[c]
        <4>1. undeleted'[id] = left
          BY <2>2, <2>3, <3>1, SweptTypes, Zenon
        <4>2. /\ Dir(id) \in stateDirs' => "state" \in left
              /\ Dir(id) \in holders' => "holder" \in left
          BY <2>3, <3>1, Zenon
        <4>3. snapFiles'[Dir(id)] # {} => Dir(id) \in stateDirs'
          <5>1. CASE "state" \in left
            BY <2>3, <3>1, <5>1, Zenon
          <5>2. CASE "state" \notin left
            BY <2>2, <2>3, <3>1, <5>2, DirTypes, Zenon
          <5> QED
            BY <5>1, <5>2, Zenon
        <4>4. Doused(Dir(id))'
          <5>1. CASE sock' = [sock EXCEPT ![Dir(vm[c])] = None]
            BY <2>2, <3>1, <5>1, SockTypes, Zenon DEF Doused, Dir
          <5>2. CASE "holder" \in left /\ UNCHANGED sock
            BY <2>1, <2>2, <2>3, <3>1, <5>2, Zenon DEF Doused, Dir
          <5> QED
            BY <2>3, <5>1, <5>2, Zenon
        <4> QED
          BY <4>1, <4>2, <4>3, <4>4, Zenon DEF Swept, Dir
      <3>2. CASE id # vm[c]
        <4>1. Swept(id)
          BY <2>1, <2>6, <3>2, SockTypes, Zenon DEF SweptInv
        <4>2. Spares(Dir(id))
          BY <2>2, <2>5, <3>2, OtherDirs, SockTypes, Zenon
        <4>3. undeleted'[id] = undeleted[id]
          BY <2>3, <3>2, SweptTypes, Zenon
        <4> QED
          BY <2>4, <4>1, <4>2, <4>3, SparesSwept, Zenon
      <3> QED
        BY <3>1, <3>2, Zenon
    <2>7. \A d \in Callers : pc'[d] # "destroy"
      <3>1. \A d \in Callers \ {c} : pc[d] # "destroy"
        BY <2>1, Zenon DEF ClaimInv
      <3> QED
        BY <2>4, <3>1, Zenon DEF Others
    <2> QED
      BY <2>6, <2>7, Zenon DEF SweptInv
  <1>17. ASSUME NEW c \in Callers, NEW old \in VmIds, NEW new \in VmIds, RenameStateDir(c, old, new)
         PROVE  SweptInv'
    <2>1. /\ status[new] = None /\ status[old] \in Live
          /\ UNCHANGED <<status, holders, sock, undeleted, life>>
          /\ stateDirs' = (stateDirs \ {Dir(old)}) \cup {Dir(new)}
          /\ snapFiles' = [snapFiles EXCEPT ![Dir(new)] = snapFiles[Dir(old)], ![Dir(old)] = {}]
      BY <1>17, Zenon DEF RenameStateDir, MoveName, MoveEntry
    <2>2. status'[old] # "Destroyed" /\ status'[new] # "Destroyed"
      BY <2>1, Zenon DEF Live
    <2>3. \A n \in SafeIds \ {Dir(old), Dir(new)} : Spares(n)
      BY <2>1, DirTypes, Zenon DEF Spares
    <2>4. Goes({old, new})
      <3>1. writer = None /\ Begin(c, "rename", old, new, None)
        BY <1>17, Zenon DEF RenameStateDir
      <3>2. Others(c) /\ pc'[c] = "rename"
        BY <3>1, BeginLocals, Zenon
      <3>3. \A d \in Callers : pc'[d] = "destroy" => pc[d] = "destroy"
        BY <3>2, Zenon DEF Others
      <3> QED
        BY <3>1, <3>3, FreeGoes, Zenon
    <2> QED
      BY <2>1, <2>2, <2>3, <2>4, RestReaped, SweptPair, Zenon
  <1>18. ASSUME NEW c \in Callers, RenameHolder(c) PROVE SweptInv'
    <2>1. /\ pc[c] = "rename" /\ UNCHANGED <<stateDirs, snapFiles, undeleted, life>> /\ Return(c)
          /\ status' = [status EXCEPT ![dst[c]] = status[vm[c]], ![vm[c]] = None]
          /\ holders' = (holders \ {Dir(vm[c])}) \cup {Dir(dst[c])}
          /\ sock' = [sock EXCEPT ![Dir(dst[c])] = sock[Dir(vm[c])], ![Dir(vm[c])] = None]
      BY <1>18, Zenon DEF RenameHolder, MoveName, MoveEntry
    <2>2. vm[c] \in VmIds /\ dst[c] \in VmIds /\ dst[c] # vm[c] /\ status[vm[c]] \in Live
      BY <2>1, Zenon DEF TypeInv, CallOK, ClaimInv
    <2>3. /\ status'[vm[c]] # "Destroyed" /\ status'[dst[c]] # "Destroyed"
          /\ \A id \in VmIds \ {vm[c], dst[c]} : status'[id] = status[id]
      BY <2>1, <2>2, SockTypes, Zenon DEF Live
    <2>4. \A n \in SafeIds \ {Dir(vm[c]), Dir(dst[c])} : Spares(n)
      BY <2>1, SockTypes, Zenon DEF Spares
    <2>5. Goes({vm[c], dst[c]}) /\ StayReaped
      <3>1. Others(c) /\ pc'[c] = "idle" /\ pc[c] # "idle"
        BY <2>1, ReturnLocals, Zenon
      <3> QED
        BY <2>1, <3>1, OtherGoes, RestReaped, Zenon
    <2> QED
      BY <2>1, <2>2, <2>3, <2>4, <2>5, SweptPair, Zenon
  <1>19. ASSUME NEW c \in Callers, RenameRollback(c) PROVE SweptInv'
    <2>1. /\ pc[c] = "rename" /\ UNCHANGED <<status, holders, sock, undeleted, life>> /\ Return(c)
          /\ \/ /\ stateDirs' = (stateDirs \ {Dir(dst[c])}) \cup {Dir(vm[c])}
                /\ snapFiles' = [snapFiles EXCEPT ![Dir(vm[c])] = snapFiles[Dir(dst[c])], ![Dir(dst[c])] = {}]
             \/ UNCHANGED <<stateDirs, snapFiles>>
      BY <1>19, Zenon DEF RenameRollback, MoveName, MoveEntry
    <2>2. /\ vm[c] \in VmIds /\ dst[c] \in VmIds
          /\ status[vm[c]] \in Live /\ status[dst[c]] = None
      BY <2>1, Zenon DEF TypeInv, CallOK, ClaimInv
    <2>3. status'[vm[c]] # "Destroyed" /\ status'[dst[c]] # "Destroyed"
      BY <2>1, <2>2, Zenon DEF Live
    <2>4. \A n \in SafeIds \ {Dir(vm[c]), Dir(dst[c])} : Spares(n)
      BY <2>1, DirTypes, Zenon DEF Spares
    <2>5. Goes({vm[c], dst[c]}) /\ StayReaped
      <3>1. Others(c) /\ pc'[c] = "idle" /\ pc[c] # "idle"
        BY <2>1, ReturnLocals, Zenon
      <3> QED
        BY <2>1, <3>1, OtherGoes, RestReaped, Zenon
    <2> QED
      BY <2>1, <2>2, <2>3, <2>4, <2>5, SweptPair, Zenon
  <1>20. ASSUME NEW c \in Callers, Bind(c) PROVE SweptInv'
    <2>1. /\ pc[c] \in CreatePcs /\ UNCHANGED <<status, undeleted>> /\ UNCHANGED life
          /\ sock' = [sock EXCEPT ![Dir(vm[c])] = child[c]] /\ UNCHANGED <<stateDirs, holders, snapFiles>>
          /\ UNCHANGED <<pc, vm, dst, child>>
      BY <1>20, Zenon DEF Bind, CreatePcs, Owns
    <2>2. Others(c) /\ pc'[c] # "destroy"
      BY <2>1, Zenon DEF Others, CreatePcs
    <2>3. \A n \in SafeIds \ {Dir(vm[c])} : Spares(n)
      BY <2>1, SockTypes, DirTypes, Zenon DEF Spares
    <2>4. StayReaped
      BY <2>1, RestReaped, Zenon
    <2> QED
      BY <2>1, <2>2, <2>3, <2>4, SweptCreate, Zenon
  <1>21. ASSUME NEW id \in VmIds, NEW replied \in BOOLEAN, StartVm(id, replied) PROVE SweptInv'
    <2>1. /\ UNCHANGED <<pc, vm, life, stateDirs, holders, snapFiles, sock, undeleted>>
          /\ (status' = status \/ status' = [status EXCEPT ![id] = "Running"])
      BY <1>21, Zenon DEF StartVm, Execute
    <2>2. \A i \in VmIds : status'[i] = "Destroyed" => status[i] = "Destroyed"
      BY <2>1, SockTypes, Zenon
    <2> QED
      BY <2>1, <2>2, SweptRest, Zenon
  <1>22. ASSUME NEW id \in VmIds, NEW replied \in BOOLEAN, StopVm(id, replied) PROVE SweptInv'
    <2>1. /\ UNCHANGED <<pc, vm, life, stateDirs, holders, snapFiles, sock, undeleted>>
          /\ (status' = status \/ status' = [status EXCEPT ![id] = "Stopped"])
      BY <1>22, Zenon DEF StopVm, Execute
    <2>2. \A i \in VmIds : status'[i] = "Destroyed" => status[i] = "Destroyed"
      BY <2>1, SockTypes, Zenon
    <2> QED
      BY <2>1, <2>2, SweptRest, Zenon
  <1>23. ASSUME NEW id \in VmIds, NEW s \in Snaps, SnapshotVm(id, s) PROVE SweptInv'
    <2>1. /\ status[id] \in Live /\ writer = None /\ UNCHANGED <<pc, status, holders, sock, undeleted, life>>
          /\ stateDirs' = stateDirs \cup {Dir(id)}
          /\ snapFiles' = [snapFiles EXCEPT ![Dir(id)] = @ \cup {s}]
      BY <1>23, Zenon DEF SnapshotVm, MaySnapshot
    <2>2. status'[id] # "Destroyed"
      BY <2>1, Zenon DEF Live
    <2>3. \A n \in SafeIds \ {Dir(id), Dir(id)} : Spares(n)
      BY <2>1, DirTypes, Zenon DEF Spares
    <2>4. Goes({id, id}) /\ StayReaped
      BY <2>1, FreeGoes, RestReaped, Zenon
    <2> QED
      BY <2>1, <2>2, <2>3, <2>4, SweptPair, Zenon
  <1>24. ASSUME NEW id \in VmIds, NEW s \in Snaps, SnapshotFail(id, s) PROVE SweptInv'
    <2>1. /\ status[id] \in Live /\ writer = None /\ UNCHANGED <<pc, status, holders, sock, undeleted, life>>
          /\ stateDirs' = stateDirs \cup {Dir(id)}
          /\ \/ snapFiles' = [snapFiles EXCEPT ![Dir(id)] = @ \ {s}]
             \/ snapFiles' = [snapFiles EXCEPT ![Dir(id)] = @ \cup {s}]
      BY <1>24, Zenon DEF SnapshotFail, MaySnapshot
    <2>2. status'[id] # "Destroyed"
      BY <2>1, Zenon DEF Live
    <2>3. \A n \in SafeIds \ {Dir(id), Dir(id)} : Spares(n)
      BY <2>1, DirTypes, Zenon DEF Spares
    <2>4. Goes({id, id}) /\ StayReaped
      BY <2>1, FreeGoes, RestReaped, Zenon
    <2> QED
      BY <2>1, <2>2, <2>3, <2>4, SweptPair, Zenon
  <1>25. ASSUME NEW p \in Procs, PagerOpen(p) PROVE SweptInv'
    <2>1. UNCHANGED <<pc, vm, life, status, stateDirs, holders, snapFiles, sock, undeleted>>
      BY <1>25, Zenon DEF PagerOpen
    <2> QED
      BY <2>1, SweptRest, Zenon
  <1>26. ASSUME NEW p \in Procs, ProcessExit(p) PROVE SweptInv'
    <2>1. /\ UNCHANGED <<pc, vm, status, stateDirs, holders, snapFiles, sock, undeleted>>
          /\ life[p] = "up" /\ life' = [life EXCEPT ![p] = "zombie"]
      BY <1>26, Zenon DEF ProcessExit
    <2>2. StayReaped
      BY <2>1, SweptTypes, Zenon DEF StayReaped
    <2> QED
      BY <2>1, <2>2, RestGoes, SweptQuiet, Zenon
  <1>27. CASE UNCHANGED vars
    <2>1. UNCHANGED <<pc, vm, life, status, stateDirs, holders, snapFiles, sock, undeleted>>
      BY <1>27, Zenon DEF vars
    <2> QED
      BY <2>1, SweptRest, Zenon
  <1> QED
    BY <1>1, <1>2, <1>3, <1>4, <1>5, <1>6, <1>7, <1>8, <1>9, <1>10, <1>11, <1>12a, <1>12,
       <1>12b, <1>13, <1>14, <1>15, <1>16, <1>17, <1>18, <1>19, <1>20, <1>21, <1>22, <1>23, <1>24, <1>25,
       <1>26, <1>27, Zenon DEF Next, CallBegin, CallStep, CreateBegin

LEMMA SweptHolds == ASSUME OneOwnerPerId, DistinctDirs PROVE Spec => []SweptInv
  <1>1. TypeInv /\ ClaimInv /\ SockInv /\ SweptInv /\ [Next]_vars => SweptInv'
    BY SweptStep, Zenon
  <1> QED
    BY <1>1, InitSwept, SocksHold, PTL DEF Spec

LEMMA SweptClean ==
    ASSUME TypeInv, ClaimInv, ProcInv, HelperInv, AttachInv, SweptInv PROVE DestroyedIsClean
  <1> SUFFICES ASSUME NEW id \in VmIds, status[id] = "Destroyed"
               PROVE  /\ processes[id] = None /\ consoles[id] = None /\ uffd_handlers[id] = None
                      /\ composed[id] = {} /\ host[id] \subseteq leaked[id]
                      /\ Swept(id)
    BY Zenon DEF DestroyedIsClean, Swept, Doused
  <1>1. status[id] \notin Live /\ status[id] # None
    BY Zenon DEF Live
  <1>2. Vacant(id)
    <2> SUFFICES ASSUME NEW c \in Callers, vm[c] = id PROVE FALSE
      BY Zenon DEF Vacant
    <2>1. pc[c] # "idle"
      BY AttachTypes, Zenon
    <2>2. pc[c] \in CreatePcs \/ pc[c] \in {"destroy", "rename"}
      BY <2>1, SockTypes, Zenon
    <2> QED
      BY <1>1, <2>2, Zenon DEF ClaimInv
  <1>3. Rested(id)
    BY <1>2, Zenon DEF AttachInv
  <1>4. composed[id] = {} /\ host[id] \subseteq leaked[id]
    BY <1>1, <1>3, Zenon DEF Rested, Balance
  <1>5. processes[id] = None
    BY <1>1, <1>2, Zenon DEF ProcInv, Filed, Vacant
  <1>6. consoles[id] = None /\ uffd_handlers[id] = None
    <2>1. \A c \in Callers : pc[c] = "process" => vm[c] # id
      BY <1>2, Zenon DEF Vacant
    <2> QED
      BY <1>5, <2>1, Zenon DEF HelperInv, ConsoleOf
  <1>7. Swept(id)
    BY Zenon DEF SweptInv
  <1> QED
    BY <1>4, <1>5, <1>6, <1>7, Zenon

(* Under the same assumptions a destroyed VM is in no map, and whatever is  *)
(* left of it on the host is what an error dropped by destroy_vm, by        *)
(* compose_release or by a failed create left: a host resource that was not *)
(* released, a directory remove_dir_all could not remove.  No later step    *)
(* puts anything there again, and a socket file left there belongs to a     *)
(* process that has been reaped.                                            *)
THEOREM DestroyedIsCleanHolds ==
    ASSUME OneOwnerPerId, DistinctDirs PROVE Spec => []DestroyedIsClean
  <1>1. TypeInv /\ ClaimInv /\ ProcInv /\ HelperInv /\ AttachInv /\ SweptInv => DestroyedIsClean
    BY SweptClean, Zenon
  <1> QED
    BY <1>1, SocksHold, AttachHolds, SweptHolds, PTL
=============================================================================
