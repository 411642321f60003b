--------------------- MODULE FirecrackerProvider_paths ----------------------
(***************************************************************************)
(* What is under the paths of a VM: requests for it reach its own process, *)
(* its status tells what that process's guest does, and its snapshots are  *)
(* in its directory, when no two calls in flight claim one id and no two   *)
(* ids share a directory name.                                             *)
(***************************************************************************)
EXTENDS FirecrackerProvider_contract, TLAPS

USE SafeIdAssumption, ConfigAssumption, NoneAssumption
USE DEF config, table, maps, disk, pagers, args, calls, ghosts

(* Directory names tell ids apart.                                          *)
DistinctDirs == \A i, j \in VmIds : safe_vm_id[i] = safe_vm_id[j] => i = j

(* The socket at the path of id is the one its process bound.               *)
Served(id) ==
    processes[id] # None /\ Dir(id) \in holders /\ sock[Dir(id)] = processes[id]

(* Ids with a VM that nobody is destroying, or with one being published.    *)
Settled(id) ==
    \/ status[id] \in Live /\ \A c \in Callers : pc[c] = "destroy" => vm[c] # id
    \/ \E c \in Callers : vm[c] = id /\ pc[c] \in PublishPcs

(* A create's directory holds its child's socket or none yet.               *)
Housed(c) ==
    /\ Dir(vm[c]) \in holders /\ sock[Dir(vm[c])] \in {None, child[c]}
    /\ pc[c] # "wait" => sock[Dir(vm[c])] = child[c]

SockInv ==
    /\ \A id \in VmIds : Settled(id) => Served(id)
    /\ \A c \in Callers : pc[c] \in OwnPcs => Housed(c)

(* Console and handler are filed with the process they belong to.           *)
ConsoleOf(p) == IF "console" \in composer THEN p ELSE None

(* ... also while a create publishes them one by one.                       *)
Filing(c) ==
    /\ pc[c] = "process" => consoles[vm[c]] = ConsoleOf(child[c])
    /\ pc[c] = "handler" => processes[vm[c]] = child[c]

HelperInv ==
    /\ \A id \in VmIds :
           (\A c \in Callers : pc[c] = "process" => vm[c] # id)
               => consoles[id] = ConsoleOf(processes[id])
    /\ \A id \in VmIds : uffd_handlers[id] \in {None, processes[id]}
    /\ \A c \in Callers : Filing(c)

(* What a create leaves its guest doing.                                    *)
InitialGuest(c) ==
    CASE src[c] = None -> "configured"
      [] src[c] # None /\ src[c].resume_immediately -> "running"
      [] OTHER -> "paused"

Launched(c, p) == life[p] = "up" => guest[p] = InitialGuest(c)

Tracks(id) ==
    life[processes[id]] = "up" =>
        <<status[id], guest[processes[id]]>> \in
            Agree \cup (IF processes[id] \in desync THEN OneAhead ELSE {})

(* The guest of a create is ready when its requests are through.            *)
LaunchPcs == {"console", "process"}

Ready(c) ==
    /\ pc[c] = "configure" => src[c] = None
    /\ pc[c] \in LaunchPcs => Launched(c, child[c])
    /\ pc[c] \in PublishPcs => Launched(c, processes[vm[c]])

GuestInv ==
    /\ \A id \in VmIds : status[id] \in Live /\ processes[id] # None => Tracks(id)
    /\ \A c \in Callers : Ready(c)

-----------------------------------------------------------------------------
LEMMA InitSocks == Init => SockInv /\ HelperInv /\ GuestInv
  BY DEF Init, SockInv, HelperInv, Filing, ConsoleOf, GuestInv, Ready, Settled, OwnPcs, PublishPcs,
     LaunchPcs, Live

LEMMA SockTypes ==
    ASSUME TypeInv
    PROVE  /\ pc \in [Callers -> CreatePcs \cup {"idle", "destroy", "rename"}]
           /\ vm \in [Callers -> VmIds \cup {None}]
           /\ dst \in [Callers -> VmIds \cup {None}]
           /\ src \in [Callers -> SnapshotRefs \cup {None}]
           /\ child \in [Callers -> Procs \cup {None}]
           /\ status \in [VmIds -> Live \cup {"Destroyed", None}]
           /\ processes \in [VmIds -> Procs \cup {None}]
           /\ sock \in [SafeIds -> Procs \cup {None}]
           /\ holders \in SUBSET SafeIds
           /\ \A id \in VmIds : Dir(id) \in SafeIds
           /\ \A c \in Callers : pc[c] \in OwnPcs => child[c] \in Procs
           /\ \A c \in Callers : pc[c] # "idle" => vm[c] \in VmIds
  BY Zenon DEF TypeInv, TypeOK, CallOK, ChildPcs, OwnPcs, Dir

(* No other call is about the ids of c's.                                   *)
LEMMA Elsewhere ==
    ASSUME TypeInv, ClaimInv, NEW c \in Callers, pc[c] # "idle", NEW d \in Callers \ {c},
           pc[d] # "idle"
    PROVE  vm[d] \notin {vm[c], dst[c]}
  <1>1. vm[d] \in VmIds
    BY SockTypes, Zenon
  <1> QED
    BY <1>1, Zenon DEF ClaimInv, Claims

(* The ids c's step settles, and the ids it leaves as they are.             *)
Settles(c, id) ==
    \/ status'[id] \in Live /\ ~(pc'[c] = "destroy" /\ vm'[c] = id)
    \/ pc'[c] \in PublishPcs /\ vm'[c] = id

Serves(id) ==
    processes'[id] # None /\ Dir(id) \in holders' /\ sock'[Dir(id)] = processes'[id]

Kept(id) == /\ status'[id] \in Live => status[id] \in Live
            /\ processes'[id] = processes[id]
            /\ Dir(id) \in holders => Dir(id) \in holders'
            /\ sock'[Dir(id)] = sock[Dir(id)]

(* A step of c that touches the entries and directories of the ids in X,    *)
(* which no other call is about.                                            *)
LEMMA SockMove ==
    ASSUME TypeInv, SockInv, NEW c \in Callers, Others(c), NEW X \in SUBSET VmIds,
           \A d \in Callers \ {c} : pc[d] # "idle" => vm[d] \notin X,
           pc[c] = "destroy" => vm[c] \in X,
           pc'[c] \in PublishPcs => vm'[c] \in X,
           \A id \in VmIds \ X : Kept(id),
           \A id \in X : Settles(c, id) => Serves(id),
           pc'[c] \in OwnPcs => Housed(c)'
    PROVE  SockInv'
  <1> USE DEF Kept, Settles
  <1>0. \A id \in X : Settles(c, id) => Served(id)'
    BY Zenon DEF Serves, Served, Dir
  <1>1. ASSUME NEW id \in VmIds, Settled(id)' PROVE Served(id)'
    <2>1. CASE id \in X
      <3>1. CASE status'[id] \in Live /\ \A d \in Callers : pc'[d] = "destroy" => vm'[d] # id
        BY <1>0, <2>1, <3>1, Zenon
      <3>2. CASE \E d \in Callers : vm'[d] = id /\ pc'[d] \in PublishPcs
        <4>1. PICK d \in Callers : vm'[d] = id /\ pc'[d] \in PublishPcs
          BY <3>2, Zenon
        <4>2. CASE d = c
          BY <1>0, <2>1, <4>1, <4>2, Zenon
        <4>3. CASE d # c
          <5>1. pc[d] # "idle" /\ vm[d] = id
            BY <4>1, <4>3, Zenon DEF Others, PublishPcs
          <5> QED
            BY <2>1, <4>3, <5>1, Zenon
        <4> QED
          BY <4>2, <4>3, Zenon
      <3> QED
        BY <1>1, <3>1, <3>2, Zenon DEF Settled
    <2>2. CASE id \notin X
      <3>1. Settled(id)
        <4>1. CASE status'[id] \in Live /\ \A d \in Callers : pc'[d] = "destroy" => vm'[d] # id
          <5>1. \A d \in Callers \ {c} : pc[d] = "destroy" => vm[d] # id
            BY <4>1, Zenon DEF Others
          <5>2. pc[c] = "destroy" => vm[c] # id
            BY <2>2, Zenon
          <5> QED
            BY <2>2, <4>1, <5>1, <5>2, Zenon DEF Settled
        <4>2. CASE \E d \in Callers : vm'[d] = id /\ pc'[d] \in PublishPcs
          <5>1. PICK d \in Callers : vm'[d] = id /\ pc'[d] \in PublishPcs
            BY <4>2, Zenon
          <5>2. d # c
            BY <2>2, <5>1, Zenon
          <5>3. vm[d] = id /\ pc[d] \in PublishPcs
            BY <5>1, <5>2, Zenon DEF Others
          <5> QED
            BY <5>3, Zenon DEF Settled
        <4> QED
          BY <1>1, <4>1, <4>2, Zenon DEF Settled
      <3> QED
        BY <2>2, <3>1, Zenon DEF SockInv, Served, Dir
    <2> QED
      BY <2>1, <2>2, Zenon
  <1>2. ASSUME NEW d \in Callers, pc'[d] \in OwnPcs PROVE Housed(d)'
    <2>1. CASE d # c
      <3>1. pc'[d] = pc[d] /\ vm'[d] = vm[d] /\ child'[d] = child[d]
        BY <2>1, Zenon DEF Others
      <3>2. Housed(d) /\ pc[d] # "idle"
        BY <1>2, <3>1, Zenon DEF SockInv, OwnPcs
      <3>3. vm[d] \in VmIds \ X
        BY <2>1, <3>2, SockTypes, Zenon
      <3> QED
        BY <3>1, <3>2, <3>3, Zenon DEF Housed, Dir
    <2> QED
      BY <1>2, <2>1, Zenon
  <1> QED
    BY <1>1, <1>2, Zenon DEF SockInv

(* Steps that leave the entries, the directories and the calls alone, and   *)
(* steps of a call that have no process, before and after.                  *)
LEMMA SockQuiet ==
    ASSUME TypeInv, SockInv, UNCHANGED <<processes, holders, sock, pc, vm, child>>,
           \A id \in VmIds : status'[id] \in Live => status[id] \in Live
    PROVE  SockInv'
  BY Zenon DEF SockInv, Settled, Served, Housed

LEMMA SockIdle ==
    ASSUME TypeInv, SockInv, NEW c \in Callers, Others(c), pc[c] # "destroy",
           pc'[c] \notin PublishPcs, pc'[c] \notin OwnPcs, UNCHANGED <<processes, status, sock>>,
           holders \subseteq holders'
    PROVE  SockInv'
  <1> DEFINE X == {}
  <1>1. X \in SUBSET VmIds
    OBVIOUS
  <1>2. \A id \in VmIds \ X : Kept(id)
    BY Zenon DEF Kept
  <1>3. \A id : id \notin X
    BY Zenon
  <1> HIDE DEF X
  <1> QED
    BY <1>1, <1>2, <1>3, SockMove, Zenon

LEMMA SockPair ==
    ASSUME TypeInv, SockInv, NEW c \in Callers, Others(c), NEW a \in VmIds, NEW b \in VmIds,
           \A d \in Callers \ {c} : pc[d] # "idle" => vm[d] \notin {a, b},
           pc[c] = "destroy" => vm[c] = a,
           pc'[c] \in PublishPcs => vm'[c] = a,
           \A id \in VmIds \ {a, b} : Kept(id),
           Settles(c, a) => Serves(a), Settles(c, b) => Serves(b),
           pc'[c] \in OwnPcs => Housed(c)'
    PROVE  SockInv'
  <1> DEFINE X == {a, b}
  <1>1. /\ \A id \in VmIds \ X : Kept(id)
        /\ \A id \in X : Settles(c, id) => Serves(id)
    BY Zenon
  <1>2. /\ X \in SUBSET VmIds
        /\ \A d \in Callers \ {c} : pc[d] # "idle" => vm[d] \notin X
        /\ pc[c] = "destroy" => vm[c] \in X
        /\ pc'[c] \in PublishPcs => vm'[c] \in X
    BY Zenon
  <1> HIDE DEF X
  <1> QED
    BY <1>1, <1>2, SockMove, Zenon

LEMMA OtherDirs ==
    ASSUME DistinctDirs, NEW i \in VmIds, NEW j \in VmIds, i # j
    PROVE  Dir(i) # Dir(j)
  BY Zenon DEF DistinctDirs, Dir

(* A step of a create that touches only the directory of its id.            *)
LEMMA SockCreate ==
    ASSUME DistinctDirs, TypeInv, ClaimInv, SockInv, NEW c \in Callers, pc[c] \in CreatePcs,
           Others(c), pc'[c] \notin PublishPcs, UNCHANGED <<processes, status>>,
           \A n \in SafeIds \ {Dir(vm[c])} : /\ n \in holders => n \in holders'
                                             /\ sock'[n] = sock[n],
           pc'[c] \in OwnPcs => Housed(c)'
    PROVE  SockInv'
  <1>1. pc[c] # "idle" /\ pc[c] # "destroy"
    BY Zenon DEF CreatePcs
  <1>2. vm[c] \in VmIds
    BY <1>1, SockTypes, Zenon
  <1>3. \A d \in Callers \ {c} : pc[d] # "idle" => vm[d] \notin {vm[c], vm[c]}
    BY <1>1, Elsewhere, Zenon
  <1>4. ASSUME NEW id \in VmIds \ {vm[c], vm[c]} PROVE Kept(id)
    <2>1. Dir(id) \in SafeIds /\ Dir(id) # Dir(vm[c])
      BY <1>2, OtherDirs, SockTypes, Zenon
    <2> QED
      BY <2>1, Zenon DEF Kept
  <1>5. ~ Settles(c, vm[c])
    <2>1. status[vm[c]] \notin Live
      BY Zenon DEF ClaimInv, Live
    <2>2. status'[vm[c]] \notin Live
      BY <2>1, Zenon
    <2> QED
      BY <2>2, Zenon DEF Settles
  <1> QED
    BY <1>1, <1>2, <1>3, <1>4, <1>5, SockPair, Zenon

(* A create goes on over its socket, or publishes its process.              *)
LEMMA SockOn ==
    ASSUME DistinctDirs, TypeInv, ClaimInv, SockInv, NEW c \in Callers, pc[c] \in OwnPcs \ {"wait"},
           NEW l \in OwnPcs, pc' = [pc EXCEPT ![c] = l],
           UNCHANGED <<vm, dst, child, processes, status, sock, holders>>
    PROVE  SockInv'
  <1>1. Others(c) /\ pc'[c] = l
    BY GotoLocals, Zenon
  <1>2. Housed(c) /\ pc[c] \in CreatePcs /\ l \notin PublishPcs
    BY Zenon DEF SockInv, OwnPcs, CreatePcs, PublishPcs
  <1>3. Housed(c)'
    BY <1>2, Zenon DEF Housed, Dir
  <1> QED
    BY <1>1, <1>2, <1>3, SockCreate, Zenon

LEMMA SockPublish ==
    ASSUME TypeInv, ClaimInv, SockInv, NEW c \in Callers, pc[c] \in {"process", "handler", "attachments"},
           NEW l \in PublishPcs, pc' = [pc EXCEPT ![c] = l],
           UNCHANGED <<vm, dst, child, status, sock, holders>>, Serves(vm[c]),
           \A id \in VmIds : id # vm[c] => processes'[id] = processes[id]
    PROVE  SockInv'
  <1>1. Others(c) /\ pc'[c] = l
    BY GotoLocals, Zenon
  <1>2. pc[c] # "idle" /\ pc[c] # "destroy" /\ l \notin OwnPcs
    BY Zenon DEF OwnPcs, PublishPcs
  <1>3. vm[c] \in VmIds
    BY <1>2, SockTypes, Zenon
  <1>4. \A d \in Callers \ {c} : pc[d] # "idle" => vm[d] \notin {vm[c], vm[c]}
    BY <1>2, Elsewhere, Zenon
  <1>5. \A id \in VmIds \ {vm[c], vm[c]} : Kept(id)
    BY Zenon DEF Kept
  <1>6. vm'[c] = vm[c] /\ pc'[c] \notin OwnPcs
    BY <1>1, <1>2, Zenon
  <1> QED
    BY <1>1, <1>2, <1>3, <1>4, <1>5, <1>6, SockPair, Zenon

LEMMA TeardownElsewhere ==
    ASSUME TypeInv, NEW n \in SafeIds, NEW rs, NEW kept, Teardown(n, rs, kept),
           NEW m \in SafeIds \ {n}
    PROVE  (m \in holders => m \in holders') /\ sock'[m] = sock[m]
  BY SockTypes, Zenon DEF Teardown

LEMMA SockStep ==
    ASSUME DistinctDirs, TypeInv, TypeInv', ClaimInv, ProcInv, SockInv, [Next]_vars PROVE SockInv'
  <1>1. ASSUME NEW c \in Callers, NEW id \in VmIds, NEW ref \in SnapshotRefs \cup {None}, CreateCheck(c, id, ref)
        PROVE SockInv'
    <2>1. /\ pc[c] = "idle" /\ Begin(c, "compose", id, None, ref)
          /\ UNCHANGED <<processes, status, sock, holders>>
      BY <1>1, Zenon DEF CreateCheck
    <2> QED
      BY <2>1, BeginLocals, SockIdle, Zenon DEF OwnPcs, PublishPcs
  <1>2. ASSUME NEW c \in Callers, NEW r \in Primitives, Attach(c, r) PROVE SockInv'
    <2>1. /\ pc[c] = "compose" /\ UNCHANGED <<processes, status, sock, pc, vm, dst, child>>
          /\ holders \subseteq holders'
      BY <1>2, Zenon DEF Attach
    <2>2. Others(c)
      BY <2>1, Zenon DEF Others
    <2> QED
      BY <2>1, <2>2, SockIdle, Zenon DEF OwnPcs, PublishPcs
  <1>3. ASSUME NEW c \in Callers, NEW r \in Primitives, ComposeFail(c, r) PROVE SockInv'
    <2>1. /\ pc[c] = "compose" /\ Return(c) /\ UNCHANGED <<processes, status, sock>>
          /\ holders \subseteq holders'
      BY <1>3, Zenon DEF ComposeFail
    <2> QED
      BY <2>1, ReturnLocals, SockIdle, Zenon DEF OwnPcs, PublishPcs
  <1>4. ASSUME NEW c \in Callers, MakeStateDir(c) PROVE SockInv'
    <2>1. /\ pc[c] = "compose" /\ pc' = [pc EXCEPT ![c] = "spawn"] /\ UNCHANGED <<vm, dst, child>>
          /\ UNCHANGED <<processes, status, sock, holders>>
      BY <1>4, Zenon DEF MakeStateDir, Goto
    <2> QED
      BY <2>1, GotoLocals, SockIdle, Zenon DEF OwnPcs, PublishPcs
  <1>5. ASSUME NEW c \in Callers, SpawnFail(c) PROVE SockInv'
    <2>1. /\ pc[c] \in {"compose", "spawn"} /\ Return(c) /\ UNCHANGED <<processes, status>>
          /\ \/ \E kept : Teardown(Dir(vm[c]), held[c], kept)
             \/ /\ holders' = holders \cup {Dir(vm[c])}
                /\ sock' = [sock EXCEPT ![Dir(vm[c])] = None]
      BY <1>5, Zenon DEF SpawnFail
    <2>2. pc[c] \in CreatePcs /\ Dir(vm[c]) \in SafeIds
      BY <2>1, SockTypes, Zenon DEF CreatePcs
    <2>3. \A n \in SafeIds \ {Dir(vm[c])} : (n \in holders => n \in holders') /\ sock'[n] = sock[n]
      <3>1. CASE \E kept : Teardown(Dir(vm[c]), held[c], kept)
        BY <2>2, <3>1, TeardownElsewhere, Zenon
      <3>2. CASE /\ holders' = holders \cup {Dir(vm[c])}
                 /\ sock' = [sock EXCEPT ![Dir(vm[c])] = None]
        BY <2>2, <3>2, SockTypes, Zenon
      <3> QED
        BY <2>1, <3>1, <3>2, Zenon
    <2>4. Others(c) /\ pc'[c] = "idle"
      BY <2>1, ReturnLocals, Zenon
    <2> QED
      BY <2>1, <2>2, <2>3, <2>4, SockCreate, Zenon DEF OwnPcs, PublishPcs
  <1>6. ASSUME NEW c \in Callers, NEW p \in Procs, Spawn(c, p) PROVE SockInv'
    <2>1. /\ pc[c] = "spawn" /\ pc' = [pc EXCEPT ![c] = "wait"]
          /\ child' = [child EXCEPT ![c] = p] /\ UNCHANGED <<vm, dst, processes, status>>
          /\ holders' = holders \cup {Dir(vm[c])} /\ sock' = [sock EXCEPT ![Dir(vm[c])] = None]
      BY <1>6, Zenon DEF Spawn
    <2>2. pc[c] \in CreatePcs /\ Dir(vm[c]) \in SafeIds
      BY <2>1, SockTypes, Zenon DEF CreatePcs
    <2>3. Others(c) /\ pc'[c] = "wait"
      BY <2>1, SockTypes, Zenon DEF Others
    <2>4. /\ \A n \in SafeIds \ {Dir(vm[c])} : (n \in holders => n \in holders') /\ sock'[n] = sock[n]
          /\ sock'[Dir(vm[c])] = None
      BY <2>1, <2>2, SockTypes, Zenon
    <2>5. Housed(c)'
      BY <2>1, <2>3, <2>4, Zenon DEF Housed, Dir
    <2> QED
      BY <2>1, <2>2, <2>3, <2>4, <2>5, SockCreate, Zenon DEF OwnPcs, PublishPcs
  <1>7. ASSUME NEW c \in Callers, WaitReady(c) PROVE SockInv'
    <2>1. /\ pc[c] = "wait" /\ UNCHANGED <<vm, dst, child>>
          /\ pc' = [pc EXCEPT ![c] = IF src[c] = None THEN "configure" ELSE "check"]
          /\ UNCHANGED <<processes, status, sock, holders>>
          /\ \E q \in Procs : sock[Dir(vm[c])] = q
      BY <1>7, Zenon DEF WaitReady, Goto, Reaches
    <2>2. Others(c) /\ pc'[c] \in {"configure", "check"}
      BY <2>1, GotoLocals, Zenon
    <2>3. Housed(c) /\ pc[c] \in CreatePcs
      BY <2>1, Zenon DEF SockInv, OwnPcs, CreatePcs
    <2>4. Housed(c)'
      BY <2>1, <2>3, Zenon DEF Housed, Dir
    <2> QED
      BY <2>1, <2>2, <2>3, <2>4, SockCreate, Zenon DEF OwnPcs, PublishPcs
  <1>8. ASSUME NEW c \in Callers, Configure(c) PROVE SockInv'
    <2>1. /\ pc[c] = "configure" /\ pc' = [pc EXCEPT ![c] = "console"] /\ UNCHANGED <<vm, dst, child>>
          /\ UNCHANGED <<processes, status, sock, holders>>
      BY <1>8, Zenon DEF Configure, Goto
    <2> QED
      BY <2>1, SockOn, Zenon DEF OwnPcs
  <1>9. ASSUME NEW c \in Callers, LoadCheck(c) PROVE SockInv'
    <2>1. /\ pc[c] = "check" /\ pc' = [pc EXCEPT ![c] = "load"] /\ UNCHANGED <<vm, dst, child>>
          /\ UNCHANGED <<processes, status, sock, holders>>
      BY <1>9, Zenon DEF LoadCheck, Goto
    <2> QED
      BY <2>1, SockOn, Zenon DEF OwnPcs
  <1>10. ASSUME NEW c \in Callers, LoadRequest(c) PROVE SockInv'
    <2>1. /\ pc[c] = "load" /\ pc' = [pc EXCEPT ![c] = "console"] /\ UNCHANGED <<vm, dst, child>>
          /\ UNCHANGED <<processes, status, sock, holders>>
      BY <1>10, Zenon DEF LoadRequest, Goto
    <2> QED
      BY <2>1, SockOn, Zenon DEF OwnPcs
  <1>11. ASSUME NEW c \in Callers, CreateFail(c) PROVE SockInv'
    <2>1. /\ pc[c] \in Fallible /\ Return(c) /\ UNCHANGED <<processes, status>>
          /\ \E kept : Teardown(Dir(vm[c]), held[c], kept)
      BY <1>11, Zenon DEF CreateFail
    <2>2. pc[c] \in CreatePcs /\ Dir(vm[c]) \in SafeIds
      BY <2>1, SockTypes, Zenon DEF CreatePcs, Fallible
    <2>3. Others(c) /\ pc'[c] = "idle"
      BY <2>1, ReturnLocals, Zenon
    <2>4. \A n \in SafeIds \ {Dir(vm[c])} : (n \in holders => n \in holders') /\ sock'[n] = sock[n]
      BY <2>1, <2>2, TeardownElsewhere, Zenon
    <2> QED
      BY <2>1, <2>2, <2>3, <2>4, SockCreate, Zenon DEF OwnPcs, PublishPcs
  <1>12a. ASSUME NEW c \in Callers, PublishConsole(c) PROVE SockInv'
    <2>1. /\ pc[c] = "console" /\ pc' = [pc EXCEPT ![c] = "process"] /\ UNCHANGED <<vm, dst, child>>
          /\ UNCHANGED <<processes, status, sock, holders>>
      BY <1>12a, Zenon DEF PublishConsole, Goto
    <2> QED
      BY <2>1, SockOn, Zenon DEF OwnPcs
  <1>12. ASSUME NEW c \in Callers, PublishProcess(c) PROVE SockInv'
    <2>1. /\ pc[c] = "process" /\ pc' = [pc EXCEPT ![c] = "handler"] /\ UNCHANGED <<vm, dst, child>>
          /\ processes' = [processes EXCEPT ![vm[c]] = child[c]]
          /\ UNCHANGED <<status, sock, holders>>
      BY <1>12, Zenon DEF PublishProcess, Goto
    <2>2. /\ vm[c] \in VmIds /\ child[c] \in Procs /\ Housed(c) /\ None \notin Procs
      BY <2>1, SockTypes, Zenon DEF SockInv, OwnPcs
    <2>3. Serves(vm[c])
      BY <2>1, <2>2, SockTypes, Zenon DEF Serves, Housed
    <2>4. \A id \in VmIds : id # vm[c] => processes'[id] = processes[id]
      BY <2>1, SockTypes, Zenon
    <2> QED
      BY <2>1, <2>2, <2>3, <2>4, SockPublish, Zenon DEF PublishPcs
  <1>12b. ASSUME NEW c \in Callers, PublishHandler(c) PROVE SockInv'
    <2>1. /\ pc[c] = "handler" /\ pc' = [pc EXCEPT ![c] = "attachments"] /\ UNCHANGED <<vm, dst, child>>
          /\ UNCHANGED <<processes, status, sock, holders>>
      BY <1>12b, Zenon DEF PublishHandler, Goto
    <2>2. vm[c] \in VmIds /\ Served(vm[c])
      BY <2>1, SockTypes, Zenon DEF SockInv, Settled, PublishPcs
    <2>3. Serves(vm[c])
      BY <2>1, <2>2, Zenon DEF Serves, Served
    <2> QED
      BY <2>1, <2>3, SockPublish, Zenon DEF PublishPcs
  <1>13. ASSUME NEW c \in Callers, PublishAttachments(c) PROVE SockInv'
    <2>1. /\ pc[c] = "attachments" /\ pc' = [pc EXCEPT ![c] = "record"] /\ UNCHANGED <<vm, dst, child>>
          /\ UNCHANGED <<processes, status, sock, holders>>
      BY <1>13, Zenon DEF PublishAttachments
    <2>2. vm[c] \in VmIds /\ Served(vm[c])
      BY <2>1, SockTypes, Zenon DEF SockInv, Settled, PublishPcs
    <2>3. Serves(vm[c])
      BY <2>1, <2>2, Zenon DEF Serves, Served
    <2> QED
      BY <2>1, <2>3, SockPublish, Zenon DEF PublishPcs
  <1>14. ASSUME NEW c \in Callers, InsertRecord(c) PROVE SockInv'
    <2>1. /\ pc[c] = "record" /\ Return(c) /\ UNCHANGED <<processes, sock, holders>>
          /\ status' = [status EXCEPT ![vm[c]] = InitialStatus(c)]
      BY <1>14, Zenon DEF InsertRecord
    <2>2. vm[c] \in VmIds /\ Served(vm[c])
      BY <2>1, SockTypes, Zenon DEF SockInv, Settled, PublishPcs
    <2>3. Serves(vm[c])
      BY <2>1, <2>2, Zenon DEF Serves, Served
    <2>4. Others(c) /\ pc'[c] = "idle"
      BY <2>1, ReturnLocals, Zenon
    <2>5. \A d \in Callers \ {c} : pc[d] # "idle" => vm[d] \notin {vm[c], vm[c]}
      BY <2>1, Elsewhere, Zenon
    <2>6. ASSUME NEW id \in VmIds \ {vm[c], vm[c]} PROVE Kept(id)
      <3>1. status'[id] = status[id]
        BY <2>1, SockTypes, Zenon
      <3> QED
        BY <2>1, <3>1, Zenon DEF Kept
    <2>7. pc[c] # "destroy" /\ pc'[c] \notin PublishPcs /\ pc'[c] \notin OwnPcs
      BY <2>1, <2>4, Zenon DEF PublishPcs, OwnPcs
    <2> QED
      BY <2>2, <2>3, <2>4, <2>5, <2>6, <2>7, SockPair, Zenon
  <1>15. ASSUME NEW c \in Callers, NEW id \in VmIds, DestroyKill(c, id) PROVE SockInv'
    <2>1. /\ pc[c] = "idle" /\ writer = None /\ status[id] \in Live /\ status' = status
          /\ Begin(c, "destroy", id, None, None)
          /\ processes' = [processes EXCEPT ![id] = None]
          /\ \E kept : Teardown(Dir(id), composed[id], kept)
      BY <1>15, Zenon DEF DestroyKill
    <2>2. Others(c) /\ pc'[c] = "destroy" /\ vm'[c] = id
      BY <2>1, BeginLocals, Zenon
    <2>3. \A d \in Callers \ {c} : pc[d] # "idle" => vm[d] \notin {id, id}
      <3> SUFFICES ASSUME NEW d \in Callers, pc[d] # "idle" PROVE vm[d] # id
        BY Zenon
      <3>1. pc[d] \notin {"destroy", "rename"}
        BY <2>1, Zenon DEF ClaimInv
      <3>2. pc[d] \in CreatePcs
        BY <3>1, SockTypes, Zenon
      <3>3. status[vm[d]] = None /\ None \notin Live
        BY <3>2, Zenon DEF ClaimInv, Live
      <3> QED
        BY <2>1, <3>3, Zenon
    <2>4. ASSUME NEW i \in VmIds \ {id, id} PROVE Kept(i)
      <3>1. Dir(id) \in SafeIds /\ Dir(i) \in SafeIds \ {Dir(id)}
        BY OtherDirs, SockTypes, Zenon
      <3>2. processes'[i] = processes[i]
        BY <2>1, SockTypes, Zenon
      <3>3. (Dir(i) \in holders => Dir(i) \in holders') /\ sock'[Dir(i)] = sock[Dir(i)]
        BY <2>1, <3>1, TeardownElsewhere, Zenon
      <3> QED
        BY <2>1, <3>2, <3>3, Zenon DEF Kept
    <2>5. pc'[c] \notin PublishPcs /\ pc'[c] \notin OwnPcs /\ pc[c] # "destroy"
      BY <2>1, <2>2, Zenon DEF OwnPcs, PublishPcs
    <2>6. ~ Settles(c, id)
      BY <2>2, <2>5, Zenon DEF Settles
    <2> QED
      BY <2>2, <2>3, <2>4, <2>5, <2>6, SockPair, Zenon
  <1>16. ASSUME NEW c \in Callers, DestroyRemove(c) PROVE SockInv'
    <2>1. /\ pc[c] = "destroy" /\ Return(c) /\ UNCHANGED processes
          /\ status' = [status EXCEPT ![vm[c]] = "Destroyed"]
          /\ holders' = holders \/ holders' = holders \ {Dir(vm[c])}
          /\ sock' = sock \/ sock' = [sock EXCEPT ![Dir(vm[c])] = None]
      BY <1>16, Zenon DEF DestroyRemove, RemoveDirs
    <2>2. Others(c) /\ pc'[c] = "idle"
      BY <2>1, ReturnLocals, Zenon
    <2>3. vm[c] \in VmIds
      BY <2>1, SockTypes, Zenon
    <2>4. ASSUME NEW i \in VmIds \ {vm[c], vm[c]} PROVE Kept(i)
      <3>1. Dir(vm[c]) \in SafeIds /\ Dir(i) \in SafeIds /\ Dir(i) # Dir(vm[c])
        BY <2>3, OtherDirs, SockTypes, Zenon
      <3>2. status'[i] = status[i]
        BY <2>1, SockTypes, Zenon
      <3>3. sock'[Dir(i)] = sock[Dir(i)]
        BY <2>1, <3>1, SockTypes, Zenon
      <3> QED
        BY <2>1, <3>1, <3>2, <3>3, Zenon DEF Kept
    <2>5. \A d \in Callers \ {c} : pc[d] # "idle" => vm[d] \notin {vm[c], vm[c]}
      BY <2>1, Elsewhere, Zenon
    <2>6. status'[vm[c]] = "Destroyed" /\ "Destroyed" \notin Live
      BY <2>1, <2>3, SockTypes, Zenon DEF Live
    <2>7. pc'[c] \notin PublishPcs /\ pc'[c] \notin OwnPcs
      BY <2>2, Zenon DEF OwnPcs, PublishPcs
    <2>8. ~ Settles(c, vm[c])
      BY <2>6, <2>7, Zenon DEF Settles
    <2> QED
      BY <2>2, <2>3, <2>4, <2>5, <2>7, <2>8, SockPair, Zenon
  <1>17. ASSUME NEW c \in Callers, NEW old \in VmIds, NEW new \in VmIds, RenameStateDir(c, old, new)
         PROVE SockInv'
    <2>1. /\ pc[c] = "idle" /\ Begin(c, "rename", old, new, None)
          /\ UNCHANGED <<processes, status, sock, holders>>
      BY <1>17, Zenon DEF RenameStateDir
    <2> QED
      BY <2>1, BeginLocals, SockIdle, Zenon DEF OwnPcs, PublishPcs
  <1>18. ASSUME NEW c \in Callers, RenameHolder(c) PROVE SockInv'
    <2>1. /\ pc[c] = "rename" /\ Return(c)
          /\ status' = [status EXCEPT ![dst[c]] = status[vm[c]], ![vm[c]] = None]
          /\ processes' = IF processes[vm[c]] # None
                          THEN [processes EXCEPT ![dst[c]] = processes[vm[c]], ![vm[c]] = None]
                          ELSE processes
          /\ holders' = (holders \ {Dir(vm[c])}) \cup {Dir(dst[c])}
          /\ sock' = [sock EXCEPT ![Dir(dst[c])] = sock[Dir(vm[c])], ![Dir(vm[c])] = None]
      BY <1>18, Zenon DEF RenameHolder, MoveEntry, MoveName
    <2>2. vm[c] \in VmIds /\ dst[c] \in VmIds /\ dst[c] # vm[c] /\ status[vm[c]] \in Live
      BY <2>1, Zenon DEF TypeInv, CallOK, ClaimInv
    <2>3. Others(c) /\ pc'[c] = "idle"
      BY <2>1, ReturnLocals, Zenon
    <2>4. Served(vm[c])
      <3>1. \A d \in Callers : pc[d] # "destroy"
        BY <2>1, Zenon DEF ClaimInv
      <3> QED
        BY <2>2, <3>1, Zenon DEF SockInv, Settled
    <2>5. /\ Dir(vm[c]) \in SafeIds /\ Dir(dst[c]) \in SafeIds /\ Dir(dst[c]) # Dir(vm[c])
      BY <2>2, OtherDirs, SockTypes, Zenon
    <2>6. processes'[dst[c]] = processes[vm[c]]
      <3>1. processes[vm[c]] # None
        BY <2>4, Zenon DEF Served
      <3>2. processes' = [processes EXCEPT ![dst[c]] = processes[vm[c]], ![vm[c]] = None]
        BY <2>1, <3>1, Zenon
      <3> QED
        BY <2>2, <3>2, SockTypes, Zenon
    <2>7. sock'[Dir(dst[c])] = sock[Dir(vm[c])]
      BY <2>1, <2>5, SockTypes, Zenon
    <2>8. Serves(dst[c])
      BY <2>1, <2>4, <2>6, <2>7, Zenon DEF Serves, Served
    <2>9. status'[vm[c]] \notin Live
      BY <2>1, <2>2, SockTypes, Zenon DEF Live
    <2>10. ASSUME NEW i \in VmIds \ {vm[c], dst[c]} PROVE Kept(i)
      <3>1. Dir(i) \in SafeIds /\ Dir(i) # Dir(vm[c]) /\ Dir(i) # Dir(dst[c])
        BY <2>2, OtherDirs, SockTypes, Zenon
      <3>2. status'[i] = status[i]
        BY <2>1, SockTypes, Zenon
      <3>3. processes'[i] = processes[i]
        BY <2>1, SockTypes, Zenon
      <3>4. sock'[Dir(i)] = sock[Dir(i)]
        BY <2>1, <3>1, SockTypes, Zenon
      <3> QED
        BY <2>1, <3>1, <3>2, <3>3, <3>4, Zenon DEF Kept
    <2>11. \A d \in Callers \ {c} : pc[d] # "idle" => vm[d] \notin {vm[c], dst[c]}
      <3>1. pc[c] # "idle"
        BY <2>1, Zenon
      <3> QED
        BY <3>1, Elsewhere, Zenon
    <2>12. pc[c] # "destroy" /\ pc'[c] \notin PublishPcs /\ pc'[c] \notin OwnPcs
      BY <2>1, <2>3, Zenon DEF OwnPcs, PublishPcs
    <2>13. ~ Settles(c, vm[c])
      BY <2>9, <2>12, Zenon DEF Settles
    <2> QED
      BY <2>2, <2>3, <2>8, <2>10, <2>11, <2>12, <2>13, SockPair, Zenon
  <1>19. ASSUME NEW c \in Callers, RenameRollback(c) PROVE SockInv'
    <2>1. /\ pc[c] = "rename" /\ Return(c) /\ UNCHANGED <<processes, status, sock, holders>>
      BY <1>19, Zenon DEF RenameRollback
    <2> QED
      BY <2>1, ReturnLocals, SockIdle, Zenon DEF OwnPcs, PublishPcs
  <1>20. ASSUME NEW c \in Callers, Bind(c) PROVE SockInv'
    <2>1. /\ pc[c] \in OwnPcs /\ UNCHANGED <<processes, status, holders, pc, vm, dst, child>>
          /\ sock[Dir(vm[c])] = None /\ sock' = [sock EXCEPT ![Dir(vm[c])] = child[c]]
      BY <1>20, Zenon DEF Bind, Owns, OwnPcs
    <2>2. /\ pc[c] \in CreatePcs /\ Dir(vm[c]) \in SafeIds /\ Housed(c) /\ pc[c] \notin PublishPcs
      BY <2>1, SockTypes, Zenon DEF SockInv, OwnPcs, CreatePcs, PublishPcs
    <2>3. /\ \A n \in SafeIds \ {Dir(vm[c])} : (n \in holders => n \in holders') /\ sock'[n] = sock[n]
          /\ sock'[Dir(vm[c])] = child[c]
      BY <2>1, <2>2, SockTypes, Zenon
    <2>4. Housed(c)'
      BY <2>1, <2>2, <2>3, Zenon DEF Housed, Dir
    <2>5. Others(c)
      BY <2>1, Zenon DEF Others
    <2> QED
      BY <2>1, <2>2, <2>3, <2>4, <2>5, SockCreate, Zenon
  <1>21. ASSUME NEW id \in VmIds, NEW replied \in BOOLEAN, StartVm(id, replied) PROVE SockInv'
    <2>1. UNCHANGED <<processes, holders, sock, pc, vm, child>>
      BY <1>21, Zenon DEF StartVm
    <2>2. status[id] \in Live
      BY <1>21, Zenon DEF StartVm, Live
    <2>3. \A i \in VmIds : i # id => status'[i] = status[i]
      BY <1>21, SockTypes, Zenon DEF StartVm, Execute
    <2> QED
      BY <2>1, <2>2, <2>3, SockQuiet, Zenon
  <1>22. ASSUME NEW id \in VmIds, NEW replied \in BOOLEAN, StopVm(id, replied) PROVE SockInv'
    <2>1. UNCHANGED <<processes, holders, sock, pc, vm, child>>
      BY <1>22, Zenon DEF StopVm
    <2>2. status[id] \in Live
      BY <1>22, Zenon DEF StopVm, Live
    <2>3. \A i \in VmIds : i # id => status'[i] = status[i]
      BY <1>22, SockTypes, Zenon DEF StopVm, Execute
    <2> QED
      BY <2>1, <2>2, <2>3, SockQuiet, Zenon
  <1>23. ASSUME NEW id \in VmIds, NEW s \in Snaps, SnapshotVm(id, s) PROVE SockInv'
    <2>1. UNCHANGED <<processes, status, holders, sock, pc, vm, child>>
      BY <1>23, Zenon DEF SnapshotVm
    <2> QED
      BY <2>1, SockQuiet, Zenon
  <1>24. ASSUME NEW id \in VmIds, NEW s \in Snaps, SnapshotFail(id, s) PROVE SockInv'
    <2>1. UNCHANGED <<processes, status, holders, sock, pc, vm, child>>
      BY <1>24, Zenon DEF SnapshotFail
    <2> QED
      BY <2>1, SockQuiet, Zenon
  <1>25. ASSUME NEW p \in Procs, PagerOpen(p) PROVE SockInv'
    <2>1. UNCHANGED <<processes, status, holders, sock, pc, vm, child>>
      BY <1>25, Zenon DEF PagerOpen
    <2> QED
      BY <2>1, SockQuiet, Zenon
  <1>26. ASSUME NEW p \in Procs, ProcessExit(p) PROVE SockInv'
    <2>1. UNCHANGED <<processes, status, holders, sock, pc, vm, child>>
      BY <1>26, Zenon DEF ProcessExit
    <2> QED
      BY <2>1, SockQuiet, Zenon
  <1>27. CASE UNCHANGED vars
    <2>1. UNCHANGED <<processes, status, holders, sock, pc, vm, child>>
      BY <1>27, Zenon DEF vars
    <2> QED
      BY <2>1, SockQuiet, Zenon
  <1> QED
    BY <1>1, <1>2, <1>3, <1>4, <1>5, <1>6, <1>7, <1>8, <1>9, <1>10, <1>11, <1>12a, <1>12,
       <1>12b, <1>13, <1>14, <1>15, <1>16, <1>17, <1>18, <1>19, <1>20, <1>21, <1>22, <1>23, <1>24, <1>25,
       <1>26, <1>27, Zenon DEF Next, CallBegin, CallStep, CreateBegin

-----------------------------------------------------------------------------
LEMMA HelperTypes ==
    ASSUME TypeInv
    PROVE  /\ processes \in [VmIds -> Procs \cup {None}]
           /\ consoles \in [VmIds -> Procs \cup {None}]
           /\ uffd_handlers \in [VmIds -> Procs \cup {None}]
  BY Zenon DEF TypeInv, TypeOK

(* Steps that concern no call, and steps of a call that publishes nothing.  *)
LEMMA HelperKeep ==
    ASSUME HelperInv, UNCHANGED <<composer, processes, consoles, uffd_handlers, pc, vm, child>>
    PROVE  HelperInv'
  BY Zenon DEF HelperInv, Filing, ConsoleOf

LEMMA HelperCall ==
    ASSUME HelperInv, NEW c \in Callers, Others(c), pc[c] # "process",
           pc'[c] \notin {"process", "handler"},
           UNCHANGED <<composer, processes, consoles, uffd_handlers>>
    PROVE  HelperInv'
  <1>1. \A d \in Callers : pc[d] = "process" => pc'[d] = "process" /\ vm'[d] = vm[d]
    BY Zenon DEF Others
  <1>2. ASSUME NEW id \in VmIds, \A d \in Callers : pc'[d] = "process" => vm'[d] # id
        PROVE  consoles'[id] = ConsoleOf(processes[id])'
    <2>1. consoles[id] = ConsoleOf(processes[id])
      BY <1>1, <1>2, Zenon DEF HelperInv
    <2> QED
      BY <2>1, Zenon DEF ConsoleOf
  <1>3. ASSUME NEW d \in Callers PROVE Filing(d)'
    <2>1. CASE d = c
      BY <2>1, Zenon DEF Filing
    <2>2. CASE d # c
      <3>1. pc'[d] = pc[d] /\ vm'[d] = vm[d] /\ child'[d] = child[d] /\ Filing(d)
        BY <2>2, Zenon DEF Others, HelperInv
      <3> QED
        BY <3>1, Zenon DEF Filing, ConsoleOf
    <2> QED
      BY <2>1, <2>2, Zenon
  <1>4. \A id \in VmIds : uffd_handlers'[id] \in {None, processes'[id]}
    BY Zenon DEF HelperInv
  <1> QED
    BY <1>2, <1>3, <1>4, Zenon DEF HelperInv

(* A call that files or moves the entries of ids a and b.                   *)
LEMMA HelperPair ==
    ASSUME TypeInv, HelperInv, NEW c \in Callers, Others(c), composer' = composer,
           NEW a \in VmIds, NEW b \in VmIds, pc[c] = "process" => vm[c] = a,
           \A d \in Callers \ {c} : pc[d] # "idle" => vm[d] \notin {a, b},
           \A id \in VmIds \ {a, b} : /\ processes'[id] = processes[id]
                                      /\ consoles'[id] = consoles[id]
                                      /\ uffd_handlers'[id] = uffd_handlers[id],
           \A id \in {a, b} : ~(pc'[c] = "process" /\ vm'[c] = id)
               => consoles'[id] = ConsoleOf(processes'[id]),
           \A id \in {a, b} : uffd_handlers'[id] \in {None, processes'[id]},
           Filing(c)'
    PROVE  HelperInv'
  <1>1. \A x : ConsoleOf(x)' = ConsoleOf(x')
    BY Zenon DEF ConsoleOf
  <1>2. ASSUME NEW id \in VmIds, \A d \in Callers : pc'[d] = "process" => vm'[d] # id
        PROVE  consoles'[id] = ConsoleOf(processes[id])'
    <2>1. CASE id \in {a, b}
      BY <1>2, <2>1, Zenon DEF ConsoleOf
    <2>2. CASE id \notin {a, b}
      <3>1. \A d \in Callers : pc[d] = "process" => vm[d] # id
        BY <1>2, <2>2, Zenon DEF Others
      <3>2. consoles[id] = ConsoleOf(processes[id])
        BY <3>1, Zenon DEF HelperInv
      <3> QED
        BY <2>2, <3>2, Zenon DEF ConsoleOf
    <2> QED
      BY <2>1, <2>2, Zenon
  <1>3. ASSUME NEW d \in Callers PROVE Filing(d)'
    <2>1. CASE d = c
      BY <2>1, Zenon
    <2>2. CASE d # c
      <3>1. pc'[d] = pc[d] /\ vm'[d] = vm[d] /\ child'[d] = child[d] /\ Filing(d)
        BY <2>2, Zenon DEF Others, HelperInv
      <3>2. ASSUME pc[d] \in {"process", "handler"} PROVE vm[d] \in VmIds \ {a, b}
        <4>1. pc[d] # "idle"
          BY <3>2, Zenon
        <4> QED
          BY <2>2, <4>1, SockTypes, Zenon
      <3>3. ASSUME pc'[d] = "process" PROVE consoles'[vm'[d]] = ConsoleOf(child[d])'
        <4>1. consoles[vm[d]] = ConsoleOf(child[d]) /\ vm[d] \in VmIds \ {a, b}
          BY <3>1, <3>2, <3>3, Zenon DEF Filing
        <4>2. consoles'[vm[d]] = ConsoleOf(child[d])
          BY <4>1, Zenon
        <4> QED
          BY <3>1, <4>2, Zenon DEF ConsoleOf
      <3>4. pc'[d] = "handler" => processes'[vm'[d]] = child'[d]
        BY <3>1, <3>2, Zenon DEF Filing
      <3> QED
        BY <3>3, <3>4, Zenon DEF Filing
    <2> QED
      BY <2>1, <2>2, Zenon
  <1>4. ASSUME NEW id \in VmIds PROVE uffd_handlers'[id] \in {None, processes'[id]}
    <2>1. CASE id \in {a, b}
      BY <2>1, Zenon
    <2>2. CASE id \notin {a, b}
      BY <2>2, Zenon DEF HelperInv
    <2> QED
      BY <2>1, <2>2, Zenon
  <1> QED
    BY <1>2, <1>3, <1>4, Zenon DEF HelperInv

LEMMA HelperOne ==
    ASSUME TypeInv, HelperInv, NEW c \in Callers, Others(c), composer' = composer, vm[c] \in VmIds,
           \A d \in Callers \ {c} : pc[d] # "idle" => vm[d] \notin {vm[c], vm[c]},
           \A id \in VmIds \ {vm[c], vm[c]} : /\ processes'[id] = processes[id]
                                              /\ consoles'[id] = consoles[id]
                                              /\ uffd_handlers'[id] = uffd_handlers[id],
           ~(pc'[c] = "process" /\ vm'[c] = vm[c]) => consoles'[vm[c]] = ConsoleOf(processes'[vm[c]]),
           uffd_handlers'[vm[c]] \in {None, processes'[vm[c]]}, Filing(c)'
    PROVE  HelperInv'
  <1>1. /\ \A id \in {vm[c], vm[c]} : ~(pc'[c] = "process" /\ vm'[c] = id)
                => consoles'[id] = ConsoleOf(processes'[id])
        /\ \A id \in {vm[c], vm[c]} : uffd_handlers'[id] \in {None, processes'[id]}
    BY Zenon
  <1> QED
    BY <1>1, HelperPair, Zenon

(* The id of a create or of a rename's destination has no process.          *)
LEMMA Unfiled ==
    ASSUME TypeInv, ClaimInv, ProcInv, NEW c \in Callers, NEW id \in VmIds,
           (pc[c] \in LaunchPcs /\ id = vm[c]) \/ (pc[c] = "rename" /\ id = dst[c])
    PROVE  processes[id] = None
  <1>1. status[id] \notin Live
    BY Zenon DEF ClaimInv, Live, CreatePcs, LaunchPcs
  <1>2. \A d \in Callers : pc[d] \in PublishPcs => vm[d] # id
    <2> SUFFICES ASSUME NEW d \in Callers, pc[d] \in PublishPcs, vm[d] = id PROVE FALSE
      BY Zenon
    <2>1. d # c
      BY Zenon DEF PublishPcs, LaunchPcs
    <2>2. pc[c] # "idle" /\ pc[d] # "idle"
      BY Zenon DEF PublishPcs, LaunchPcs
    <2>3. vm[d] \notin {vm[c], dst[c]}
      BY <2>1, <2>2, Elsewhere, Zenon
    <2> QED
      BY <2>3, Zenon
  <1> QED
    BY <1>1, <1>2, Zenon DEF ProcInv, Filed

LEMMA HelperStep ==
    ASSUME TypeInv, TypeInv', ClaimInv, ProcInv, HelperInv, [Next]_vars PROVE HelperInv'
  <1>1. ASSUME NEW c \in Callers, NEW id \in VmIds, NEW ref \in SnapshotRefs \cup {None},
               CreateCheck(c, id, ref) PROVE HelperInv'
    <2>1. /\ pc[c] = "idle" /\ Begin(c, "compose", id, None, ref)
          /\ UNCHANGED <<composer, processes, consoles, uffd_handlers>>
      BY <1>1, Zenon DEF CreateCheck
    <2> QED
      BY <2>1, BeginLocals, HelperCall, Zenon
  <1>2. ASSUME NEW c \in Callers, NEW r \in Primitives, Attach(c, r) PROVE HelperInv'
    BY <1>2, HelperKeep, Zenon DEF Attach
  <1>3. ASSUME NEW c \in Callers, NEW r \in Primitives, ComposeFail(c, r) PROVE HelperInv'
    <2>1. Return(c) /\ pc[c] # "process" /\ UNCHANGED <<composer, processes, consoles, uffd_handlers>>
      BY <1>3, Zenon DEF ComposeFail
    <2> QED
      BY <2>1, ReturnLocals, HelperCall, Zenon
  <1>4. ASSUME NEW c \in Callers, MakeStateDir(c) PROVE HelperInv'
    <2>1. /\ pc[c] # "process" /\ pc' = [pc EXCEPT ![c] = "spawn"] /\ UNCHANGED <<vm, dst, child>>
          /\ UNCHANGED <<composer, processes, consoles, uffd_handlers>>
      BY <1>4, Zenon DEF MakeStateDir, Goto
    <2>2. Others(c) /\ pc'[c] = "spawn"
      BY <2>1, GotoLocals, Zenon
    <2> QED
      BY <2>1, <2>2, HelperCall, Zenon
  <1>5. ASSUME NEW c \in Callers, SpawnFail(c) PROVE HelperInv'
    <2>1. Return(c) /\ pc[c] # "process" /\ UNCHANGED <<composer, processes, consoles, uffd_handlers>>
      BY <1>5, Zenon DEF SpawnFail
    <2> QED
      BY <2>1, ReturnLocals, HelperCall, Zenon
  <1>6. ASSUME NEW c \in Callers, NEW p \in Procs, Spawn(c, p) PROVE HelperInv'
    <2>1. /\ pc[c] = "spawn" /\ pc' = [pc EXCEPT ![c] = "wait"] /\ child' = [child EXCEPT ![c] = p]
          /\ UNCHANGED <<vm, dst>> /\ UNCHANGED <<composer, processes, consoles, uffd_handlers>>
      BY <1>6, Zenon DEF Spawn
    <2>2. Others(c) /\ pc'[c] = "wait"
      BY <2>1, SockTypes, Zenon DEF Others
    <2> QED
      BY <2>1, <2>2, HelperCall, Zenon
  <1>7. ASSUME NEW c \in Callers, WaitReady(c) PROVE HelperInv'
    <2>1. /\ pc[c] # "process" /\ UNCHANGED <<vm, dst, child>>
          /\ pc' = [pc EXCEPT ![c] = IF src[c] = None THEN "configure" ELSE "check"]
          /\ UNCHANGED <<composer, processes, consoles, uffd_handlers>>
      BY <1>7, Zenon DEF WaitReady, Goto
    <2>2. Others(c) /\ pc'[c] \in {"configure", "check"}
      BY <2>1, GotoLocals, Zenon
    <2> QED
      BY <2>1, <2>2, HelperCall, Zenon
  <1>8. ASSUME NEW c \in Callers, Configure(c) PROVE HelperInv'
    <2>1. /\ pc[c] # "process" /\ pc' = [pc EXCEPT ![c] = "console"] /\ UNCHANGED <<vm, dst, child>>
          /\ UNCHANGED <<composer, processes, consoles, uffd_handlers>>
      BY <1>8, Zenon DEF Configure, Goto
    <2>2. Others(c) /\ pc'[c] = "console"
      BY <2>1, GotoLocals, Zenon
    <2> QED
      BY <2>1, <2>2, HelperCall, Zenon
  <1>9. ASSUME NEW c \in Callers, LoadCheck(c) PROVE HelperInv'
    <2>1. /\ pc[c] # "process" /\ pc' = [pc EXCEPT ![c] = "load"] /\ UNCHANGED <<vm, dst, child>>
          /\ UNCHANGED <<composer, processes, consoles, uffd_handlers>>
      BY <1>9, Zenon DEF LoadCheck, Goto
    <2>2. Others(c) /\ pc'[c] = "load"
      BY <2>1, GotoLocals, Zenon
    <2> QED
      BY <2>1, <2>2, HelperCall, Zenon
  <1>10. ASSUME NEW c \in Callers, LoadRequest(c) PROVE HelperInv'
    <2>1. /\ pc[c] # "process" /\ pc' = [pc EXCEPT ![c] = "console"] /\ UNCHANGED <<vm, dst, child>>
          /\ UNCHANGED <<composer, processes, consoles, uffd_handlers>>
      BY <1>10, Zenon DEF LoadRequest, Goto
    <2>2. Others(c) /\ pc'[c] = "console"
      BY <2>1, GotoLocals, Zenon
    <2> QED
      BY <2>1, <2>2, HelperCall, Zenon
  <1>11. ASSUME NEW c \in Callers, CreateFail(c) PROVE HelperInv'
    <2>1. Return(c) /\ pc[c] # "process" /\ UNCHANGED <<composer, processes, consoles, uffd_handlers>>
      BY <1>11, Zenon DEF CreateFail, Fallible
    <2> QED
      BY <2>1, ReturnLocals, HelperCall, Zenon
  <1>12a. ASSUME NEW c \in Callers, PublishConsole(c) PROVE HelperInv'
    <2>1. /\ pc[c] = "console" /\ pc' = [pc EXCEPT ![c] = "process"] /\ UNCHANGED <<vm, dst, child>>
          /\ composer' = composer
      BY <1>12a, Zenon DEF PublishConsole, Goto
    <2>2. Others(c) /\ pc'[c] = "process" /\ vm[c] \in VmIds /\ vm'[c] = vm[c]
      BY <2>1, GotoLocals, SockTypes, Zenon
    <2>3. \A d \in Callers \ {c} : pc[d] # "idle" => vm[d] \notin {vm[c], vm[c]}
      BY <2>1, Elsewhere, Zenon
    <2>4. /\ UNCHANGED <<processes, uffd_handlers>>
          /\ consoles' = IF "console" \in composer
                         THEN [consoles EXCEPT ![vm[c]] = child[c]] ELSE consoles
      BY <1>12a, Zenon DEF PublishConsole
    <2>5. processes[vm[c]] = None /\ consoles[vm[c]] = None
      <3>1. processes[vm[c]] = None
        BY <2>1, <2>2, Unfiled, Zenon DEF LaunchPcs
      <3>2. \A d \in Callers : pc[d] = "process" => vm[d] # vm[c]
        BY <2>1, <2>3, Zenon
      <3> QED
        BY <2>2, <3>1, <3>2, Zenon DEF HelperInv, ConsoleOf
    <2>6. Filing(c)'
      BY <2>1, <2>2, <2>4, <2>5, HelperTypes, Zenon DEF Filing, ConsoleOf
    <2>7. \A id \in VmIds \ {vm[c], vm[c]} : consoles'[id] = consoles[id]
      BY <2>4, HelperTypes, Zenon
    <2>8. uffd_handlers'[vm[c]] \in {None, processes'[vm[c]]}
      BY <2>2, <2>4, Zenon DEF HelperInv
    <2>9. \A id \in VmIds \ {vm[c], vm[c]} : /\ processes'[id] = processes[id]
                                              /\ consoles'[id] = consoles[id]
                                              /\ uffd_handlers'[id] = uffd_handlers[id]
      BY <2>4, <2>7, Zenon
    <2>10. ~(pc'[c] = "process" /\ vm'[c] = vm[c]) => consoles'[vm[c]] = ConsoleOf(processes'[vm[c]])
      BY <2>2, Zenon
    <2> QED
      BY <2>1, <2>2, <2>3, <2>6, <2>8, <2>9, <2>10, HelperOne, Zenon
  <1>12. ASSUME NEW c \in Callers, PublishProcess(c) PROVE HelperInv'
    <2>1. /\ pc[c] = "process" /\ pc' = [pc EXCEPT ![c] = "handler"] /\ UNCHANGED <<vm, dst, child>>
          /\ composer' = composer
      BY <1>12, Zenon DEF PublishProcess, Goto
    <2>2. Others(c) /\ pc'[c] = "handler" /\ vm[c] \in VmIds /\ vm'[c] = vm[c]
      BY <2>1, GotoLocals, SockTypes, Zenon
    <2>3. \A d \in Callers \ {c} : pc[d] # "idle" => vm[d] \notin {vm[c], vm[c]}
      BY <2>1, Elsewhere, Zenon
    <2>4. /\ UNCHANGED <<consoles, uffd_handlers>>
          /\ processes' = [processes EXCEPT ![vm[c]] = child[c]]
      BY <1>12, Zenon DEF PublishProcess
    <2>5. /\ processes'[vm[c]] = child[c]
          /\ \A id \in VmIds \ {vm[c], vm[c]} : processes'[id] = processes[id]
      BY <2>2, <2>4, HelperTypes, Zenon
    <2>6. Filing(c)'
      BY <2>1, <2>2, <2>5, Zenon DEF Filing
    <2>7. consoles'[vm[c]] = ConsoleOf(processes'[vm[c]])
      BY <2>1, <2>4, <2>5, Zenon DEF HelperInv, Filing
    <2>8. uffd_handlers'[vm[c]] \in {None, processes'[vm[c]]}
      <3>1. processes[vm[c]] = None
        BY <2>1, <2>2, Unfiled, Zenon DEF LaunchPcs
      <3> QED
        BY <2>2, <2>4, <3>1, Zenon DEF HelperInv
    <2>9. \A id \in VmIds \ {vm[c], vm[c]} : /\ processes'[id] = processes[id]
                                              /\ consoles'[id] = consoles[id]
                                              /\ uffd_handlers'[id] = uffd_handlers[id]
      BY <2>4, <2>5, Zenon
    <2> QED
      BY <2>1, <2>2, <2>3, <2>6, <2>7, <2>8, <2>9, HelperOne, Zenon
  <1>12b. ASSUME NEW c \in Callers, PublishHandler(c) PROVE HelperInv'
    <2>1. /\ pc[c] = "handler" /\ pc' = [pc EXCEPT ![c] = "attachments"] /\ UNCHANGED <<vm, dst, child>>
          /\ composer' = composer
      BY <1>12b, Zenon DEF PublishHandler, Goto
    <2>2. Others(c) /\ pc'[c] = "attachments" /\ vm[c] \in VmIds /\ vm'[c] = vm[c]
      BY <2>1, GotoLocals, SockTypes, Zenon
    <2>3. \A d \in Callers \ {c} : pc[d] # "idle" => vm[d] \notin {vm[c], vm[c]}
      BY <2>1, Elsewhere, Zenon
    <2>4. /\ UNCHANGED <<consoles, processes>>
          /\ \/ uffd_handlers' = [uffd_handlers EXCEPT ![vm[c]] = child[c]]
             \/ uffd_handlers' = uffd_handlers
      BY <1>12b, Zenon DEF PublishHandler
    <2>5. \A id \in VmIds \ {vm[c], vm[c]} : uffd_handlers'[id] = uffd_handlers[id]
      BY <2>4, HelperTypes, Zenon
    <2>6. Filing(c)'
      BY <2>2, Zenon DEF Filing
    <2>7. consoles'[vm[c]] = ConsoleOf(processes'[vm[c]])
      <3>1. \A d \in Callers : pc[d] = "process" => vm[d] # vm[c]
        BY <2>1, <2>3, Zenon
      <3> QED
        BY <2>2, <2>4, <3>1, Zenon DEF HelperInv
    <2>8. uffd_handlers'[vm[c]] \in {None, processes'[vm[c]]}
      <3>1. processes[vm[c]] = child[c] /\ uffd_handlers[vm[c]] \in {None, processes[vm[c]]}
        BY <2>1, <2>2, Zenon DEF HelperInv, Filing
      <3> QED
        BY <2>2, <2>4, <3>1, HelperTypes, Zenon
    <2>9. \A id \in VmIds \ {vm[c], vm[c]} : /\ processes'[id] = processes[id]
                                              /\ consoles'[id] = consoles[id]
                                              /\ uffd_handlers'[id] = uffd_handlers[id]
      BY <2>4, <2>5, Zenon
    <2> QED
      BY <2>1, <2>2, <2>3, <2>6, <2>7, <2>8, <2>9, HelperOne, Zenon
  <1>13. ASSUME NEW c \in Callers, PublishAttachments(c) PROVE HelperInv'
    <2>1. /\ pc[c] # "process" /\ pc' = [pc EXCEPT ![c] = "record"] /\ UNCHANGED <<vm, dst, child>>
          /\ UNCHANGED <<composer, processes, consoles, uffd_handlers>>
      BY <1>13, Zenon DEF PublishAttachments
    <2>2. Others(c) /\ pc'[c] = "record"
      BY <2>1, GotoLocals, Zenon
    <2> QED
      BY <2>1, <2>2, HelperCall, Zenon
  <1>14. ASSUME NEW c \in Callers, InsertRecord(c) PROVE HelperInv'
    <2>1. Return(c) /\ pc[c] # "process" /\ UNCHANGED <<composer, processes, consoles, uffd_handlers>>
      BY <1>14, Zenon DEF InsertRecord
    <2> QED
      BY <2>1, ReturnLocals, HelperCall, Zenon
  <1>15. ASSUME NEW c \in Callers, NEW id \in VmIds, DestroyKill(c, id) PROVE HelperInv'
    <2>1. /\ pc[c] = "idle" /\ writer = None /\ status[id] \in Live
          /\ Begin(c, "destroy", id, None, None) /\ composer' = composer
      BY <1>15, Zenon DEF DestroyKill
    <2>2. /\ processes' = [processes EXCEPT ![id] = None]
          /\ consoles' = [consoles EXCEPT ![id] = None]
          /\ uffd_handlers' = [uffd_handlers EXCEPT ![id] = None]
      BY <1>15, Zenon DEF DestroyKill
    <2>3. Others(c) /\ pc'[c] = "destroy"
      BY <2>1, BeginLocals, Zenon
    <2>4. \A d \in Callers \ {c} : pc[d] # "idle" => vm[d] \notin {id, id}
      <3> SUFFICES ASSUME NEW d \in Callers, pc[d] # "idle" PROVE vm[d] # id
        BY Zenon
      <3>1. pc[d] \notin {"destroy", "rename"}
        BY <2>1, Zenon DEF ClaimInv
      <3>2. pc[d] \in CreatePcs
        BY <3>1, SockTypes, Zenon
      <3>3. status[vm[d]] = None /\ None \notin Live
        BY <3>2, Zenon DEF ClaimInv, Live
      <3> QED
        BY <2>1, <3>3, Zenon
    <2>5. /\ processes'[id] = None /\ consoles'[id] = None /\ uffd_handlers'[id] = None
          /\ \A i \in VmIds \ {id, id} : /\ processes'[i] = processes[i]
                                        /\ consoles'[i] = consoles[i]
                                        /\ uffd_handlers'[i] = uffd_handlers[i]
      BY <2>2, HelperTypes, Zenon
    <2>6. Filing(c)' /\ ConsoleOf(None) = None
      BY <2>3, Zenon DEF Filing, ConsoleOf
    <2>7. /\ \A i \in {id, id} : ~(pc'[c] = "process" /\ vm'[c] = i) => consoles'[i] = ConsoleOf(processes'[i])
          /\ \A i \in {id, id} : uffd_handlers'[i] \in {None, processes'[i]}
          /\ pc[c] = "process" => vm[c] = id
      BY <2>1, <2>5, <2>6, Zenon
    <2>8. \A i \in VmIds \ {id, id} : /\ processes'[i] = processes[i]
                                      /\ consoles'[i] = consoles[i]
                                      /\ uffd_handlers'[i] = uffd_handlers[i]
      BY <2>5, Zenon
    <2>9. Others(c) /\ composer' = composer /\ Filing(c)'
      BY <2>1, <2>3, <2>6, Zenon
    <2> QED
      BY <2>4, <2>7, <2>8, <2>9, HelperPair, Zenon
  <1>16. ASSUME NEW c \in Callers, DestroyRemove(c) PROVE HelperInv'
    <2>1. Return(c) /\ pc[c] # "process" /\ UNCHANGED <<composer, processes, consoles, uffd_handlers>>
      BY <1>16, Zenon DEF DestroyRemove
    <2> QED
      BY <2>1, ReturnLocals, HelperCall, Zenon
  <1>17. ASSUME NEW c \in Callers, NEW old \in VmIds, NEW new \in VmIds,
                RenameStateDir(c, old, new) PROVE HelperInv'
    <2>1. /\ pc[c] = "idle" /\ Begin(c, "rename", old, new, None)
          /\ UNCHANGED <<composer, processes, consoles, uffd_handlers>>
      BY <1>17, Zenon DEF RenameStateDir
    <2> QED
      BY <2>1, BeginLocals, HelperCall, Zenon
  <1>18. ASSUME NEW c \in Callers, RenameHolder(c) PROVE HelperInv'
    <2> DEFINE old == vm[c]
               new == dst[c]
    <2>1. /\ pc[c] = "rename" /\ composer' = composer
          /\ processes' = IF processes[old] # None
                          THEN [processes EXCEPT ![new] = processes[old], ![old] = None] ELSE processes
          /\ consoles' = IF consoles[old] # None
                         THEN [consoles EXCEPT ![new] = consoles[old], ![old] = None] ELSE consoles
          /\ uffd_handlers' = IF uffd_handlers[old] # None
                         THEN [uffd_handlers EXCEPT ![new] = uffd_handlers[old], ![old] = None]
                         ELSE uffd_handlers
      BY <1>18, Zenon DEF RenameHolder, MoveEntry
    <2>2. old \in VmIds /\ new \in VmIds /\ new # old
      BY <2>1, Zenon DEF TypeInv, CallOK
    <2>3. processes[new] = None
      BY <2>1, <2>2, Unfiled, Zenon
    <2>4. consoles[new] = None /\ uffd_handlers[new] = None
      <3>1. \A d \in Callers : pc[d] = "process" => vm[d] # new
        BY <2>1, Elsewhere, Zenon
      <3> QED
        BY <2>2, <2>3, <3>1, Zenon DEF HelperInv, ConsoleOf
    <2> HIDE DEF old, new
    <2>5. /\ processes'[new] = processes[old] /\ processes'[old] = None
          /\ \A id \in VmIds \ {old, new} : processes'[id] = processes[id]
      BY <2>1, <2>2, <2>3, HelperTypes, Zenon
    <2>6. /\ consoles'[new] = consoles[old] /\ consoles'[old] = None
          /\ \A id \in VmIds \ {old, new} : consoles'[id] = consoles[id]
      BY <2>1, <2>2, <2>4, HelperTypes, Zenon
    <2>7. /\ uffd_handlers'[new] = uffd_handlers[old] /\ uffd_handlers'[old] = None
          /\ \A id \in VmIds \ {old, new} : uffd_handlers'[id] = uffd_handlers[id]
      BY <2>1, <2>2, <2>4, HelperTypes, Zenon
    <2>8. Others(c) /\ pc'[c] = "idle"
      BY <1>18, ReturnLocals, Zenon DEF RenameHolder
    <2>9. \A d \in Callers \ {c} : pc[d] # "idle" => vm[d] \notin {old, new}
      <3>1. pc[c] # "idle"
        BY <2>1, Zenon
      <3> QED
        BY <3>1, Elsewhere, Zenon DEF old, new
    <2>10. consoles[old] = ConsoleOf(processes[old]) /\ uffd_handlers[old] \in {None, processes[old]}
      <3>1. \A d \in Callers : pc[d] = "process" => vm[d] # old
        BY <2>1, <2>9, Zenon
      <3> QED
        BY <2>2, <3>1, Zenon DEF HelperInv
    <2>11. ConsoleOf(None) = None /\ Filing(c)'
      BY <2>8, Zenon DEF ConsoleOf, Filing
    <2>12. \A i \in {old, new} : consoles'[i] = ConsoleOf(processes'[i])
      BY <2>5, <2>6, <2>10, <2>11, Zenon
    <2>13. \A i \in {old, new} : uffd_handlers'[i] \in {None, processes'[i]}
      BY <2>5, <2>7, <2>10, Zenon
    <2>14. pc[c] = "process" => vm[c] = old
      BY <2>1, Zenon
    <2>15. \A i \in VmIds \ {old, new} : /\ processes'[i] = processes[i]
                                          /\ consoles'[i] = consoles[i]
                                          /\ uffd_handlers'[i] = uffd_handlers[i]
      BY <2>5, <2>6, <2>7, Zenon
    <2>16. Others(c) /\ composer' = composer /\ Filing(c)' /\ old \in VmIds /\ new \in VmIds
      BY <2>1, <2>2, <2>8, <2>11, Zenon
    <2>17. \A i \in {old, new} : ~(pc'[c] = "process" /\ vm'[c] = i) => consoles'[i] = ConsoleOf(processes'[i])
      BY <2>12, Zenon
    <2> QED
      BY <2>9, <2>13, <2>14, <2>15, <2>16, <2>17, HelperPair, SMTT(30)
  <1>19. ASSUME NEW c \in Callers, RenameRollback(c) PROVE HelperInv'
    <2>1. Return(c) /\ pc[c] # "process" /\ UNCHANGED <<composer, processes, consoles, uffd_handlers>>
      BY <1>19, Zenon DEF RenameRollback
    <2> QED
      BY <2>1, ReturnLocals, HelperCall, Zenon
  <1>20. ASSUME NEW c \in Callers, Bind(c) PROVE HelperInv'
    BY <1>20, HelperKeep, Zenon DEF Bind
  <1>21. ASSUME NEW id \in VmIds, NEW replied \in BOOLEAN, StartVm(id, replied) PROVE HelperInv'
    BY <1>21, HelperKeep, Zenon DEF StartVm
  <1>22. ASSUME NEW id \in VmIds, NEW replied \in BOOLEAN, StopVm(id, replied) PROVE HelperInv'
    BY <1>22, HelperKeep, Zenon DEF StopVm
  <1>23. ASSUME NEW id \in VmIds, NEW s \in Snaps, SnapshotVm(id, s) PROVE HelperInv'
    BY <1>23, HelperKeep, Zenon DEF SnapshotVm
  <1>24. ASSUME NEW id \in VmIds, NEW s \in Snaps, SnapshotFail(id, s) PROVE HelperInv'
    BY <1>24, HelperKeep, Zenon DEF SnapshotFail
  <1>25. ASSUME NEW p \in Procs, PagerOpen(p) PROVE HelperInv'
    BY <1>25, HelperKeep, Zenon DEF PagerOpen
  <1>26. ASSUME NEW p \in Procs, ProcessExit(p) PROVE HelperInv'
    BY <1>26, HelperKeep, Zenon DEF ProcessExit
  <1>27. CASE UNCHANGED vars
    BY <1>27, HelperKeep, Zenon DEF vars
  <1> QED
    BY <1>1, <1>2, <1>3, <1>4, <1>5, <1>6, <1>7, <1>8, <1>9, <1>10, <1>11, <1>12a, <1>12,
       <1>12b, <1>13, <1>14, <1>15, <1>16, <1>17, <1>18, <1>19, <1>20, <1>21, <1>22, <1>23, <1>24, <1>25,
       <1>26, <1>27, Zenon DEF Next, CallBegin, CallStep, CreateBegin

-----------------------------------------------------------------------------
(* A process whose guest the step leaves alone or ends; an id and a call    *)
(* the step leaves alone.                                                   *)
Same(p) ==
    life'[p] = "up" => life[p] = "up" /\ guest'[p] = guest[p] /\ (p \in desync => p \in desync')

Tracking(id) ==
    life'[processes'[id]] = "up" =>
        <<status'[id], guest'[processes'[id]]>> \in
            Agree \cup (IF processes'[id] \in desync' THEN OneAhead ELSE {})

Steady(id) ==
    /\ status'[id] = status[id] /\ processes'[id] = processes[id]
    /\ processes[id] # None => Same(processes[id])

Waits(d) == pc'[d] = pc[d] /\ vm'[d] = vm[d] /\ src'[d] = src[d] /\ child'[d] = child[d]

(* The ids and calls a step touches, when the others are left alone.        *)
LEMMA GuestFrame ==
    ASSUME TypeInv, SockInv, GuestInv, NEW D \in SUBSET Callers, NEW X \in SUBSET VmIds,
           \A d \in Callers \ D : /\ Waits(d)
                                  /\ pc[d] \in PublishPcs => vm[d] \notin X
                                  /\ pc[d] \in LaunchPcs => Same(child[d]),
           \A id \in VmIds \ X : Steady(id),
           \A id \in X : status'[id] \in Live /\ processes'[id] # None => Tracking(id),
           \A d \in D : Ready(d)'
    PROVE  GuestInv'
  <1>1. ASSUME NEW id \in VmIds, status'[id] \in Live, processes'[id] # None PROVE Tracks(id)'
    <2>1. Tracking(id) => Tracks(id)'
      BY Zenon DEF Tracking, Tracks
    <2>2. CASE id \in X
      BY <1>1, <2>1, <2>2, Zenon
    <2>3. CASE id \notin X
      <3>1. Steady(id)
        BY <2>3, Zenon
      <3>2. status[id] \in Live /\ processes[id] # None /\ Same(processes[id])
        BY <1>1, <3>1, Zenon DEF Steady
      <3>3. Tracks(id)
        BY <3>2, Zenon DEF GuestInv
      <3>4. Tracking(id)
        <4> SUFFICES ASSUME life'[processes[id]] = "up"
                     PROVE  <<status[id], guest'[processes[id]]>> \in
                               Agree \cup (IF processes[id] \in desync' THEN OneAhead ELSE {})
          BY <3>1, Zenon DEF Steady, Tracking
        <4>1. /\ guest'[processes[id]] = guest[processes[id]] /\ life[processes[id]] = "up"
              /\ processes[id] \in desync => processes[id] \in desync'
          BY <3>2, Zenon DEF Same
        <4>2. <<status[id], guest[processes[id]]>> \in
                               Agree \cup (IF processes[id] \in desync THEN OneAhead ELSE {})
          BY <3>3, <4>1, Zenon DEF Tracks
        <4> QED
          BY <4>1, <4>2, Zenon
      <3> QED
        BY <2>1, <3>4, Zenon
    <2> QED
      BY <2>2, <2>3, Zenon
  <1>2. ASSUME NEW d \in Callers PROVE Ready(d)'
    <2>1. CASE d \in D
      BY <2>1, Zenon
    <2>2. CASE d \notin D
      <3>1. Waits(d) /\ Ready(d)
        BY <2>2, Zenon DEF GuestInv
      <3>0. InitialGuest(d)' = InitialGuest(d)
        BY <3>1, Zenon DEF Waits, InitialGuest
      <3>2. ASSUME pc[d] \in LaunchPcs PROVE Launched(d, child[d])'
        <4>1. Launched(d, child[d]) /\ Same(child[d]) /\ child'[d] = child[d]
          BY <2>2, <3>1, <3>2, Zenon DEF Ready, Waits
        <4> QED
          BY <3>0, <4>1, Zenon DEF Launched, Same
      <3>3. ASSUME pc[d] \in PublishPcs PROVE Launched(d, processes[vm[d]])'
        <4>1. vm[d] \in VmIds \ X
          BY <2>2, <3>3, SockTypes, Zenon DEF PublishPcs
        <4>2. processes[vm[d]] # None
          BY <3>3, <4>1, Zenon DEF SockInv, Settled, Served
        <4>3. processes'[vm[d]] = processes[vm[d]] /\ Same(processes[vm[d]])
          BY <4>1, <4>2, Zenon DEF Steady
        <4>4. Launched(d, processes[vm[d]])
          BY <3>1, <3>3, Zenon DEF Ready
        <4>5. processes'[vm'[d]] = processes[vm[d]]
          BY <3>1, <4>3, Zenon DEF Waits
        <4> QED
          BY <3>0, <4>3, <4>4, <4>5, Zenon DEF Launched, Same
      <3> QED
        BY <3>1, <3>2, <3>3, Zenon DEF Ready, Waits
    <2> QED
      BY <2>1, <2>2, Zenon
  <1> QED
    BY <1>1, <1>2, Zenon DEF GuestInv

(* A step that touches no entry of the table and wakes no guest, taken by   *)
(* one call or by none.                                                     *)
LEMMA GuestCall ==
    ASSUME TypeInv, SockInv, GuestInv, NEW c \in Callers, \A d \in Callers \ {c} : Waits(d),
           UNCHANGED <<status, processes>>, \A p \in Procs : Same(p), Ready(c)'
    PROVE  GuestInv'
  <1> DEFINE X == {}
             D == {c}
  <1>1. \A id \in VmIds \ X : Steady(id)
    BY SockTypes, Zenon DEF Steady
  <1>2. \A d \in Callers \ D : /\ Waits(d)
                               /\ pc[d] \in PublishPcs => vm[d] \notin X
                               /\ pc[d] \in LaunchPcs => Same(child[d])
    BY SockTypes, Zenon DEF OwnPcs, LaunchPcs
  <1>3. /\ D \in SUBSET Callers /\ X \in SUBSET VmIds /\ \A d \in D : Ready(d)'
        /\ \A id \in X : status'[id] \in Live /\ processes'[id] # None => Tracking(id)
    BY Zenon
  <1> HIDE DEF X, D
  <1> QED
    BY <1>1, <1>2, <1>3, GuestFrame, Zenon

LEMMA GuestRest ==
    ASSUME TypeInv, SockInv, GuestInv, \A d \in Callers : Waits(d),
           UNCHANGED <<status, processes>>, \A p \in Procs : Same(p)
    PROVE  GuestInv'
  <1> DEFINE X == {}
             D == {}
  <1>1. \A id \in VmIds \ X : Steady(id)
    BY SockTypes, Zenon DEF Steady
  <1>2. \A d \in Callers \ D : /\ Waits(d)
                               /\ pc[d] \in PublishPcs => vm[d] \notin X
                               /\ pc[d] \in LaunchPcs => Same(child[d])
    BY SockTypes, Zenon DEF OwnPcs, LaunchPcs
  <1>3. /\ D \in SUBSET Callers /\ X \in SUBSET VmIds /\ \A d \in D : Ready(d)'
        /\ \A id \in X : status'[id] \in Live /\ processes'[id] # None => Tracking(id)
    BY Zenon
  <1> HIDE DEF X, D
  <1> QED
    BY <1>1, <1>2, <1>3, GuestFrame, Zenon

(* A create works on the guest of its own child.                            *)
LEMMA GuestOwn ==
    ASSUME TypeInv, SockInv, GuestInv, NEW c \in Callers, \A d \in Callers \ {c} : Waits(d),
           UNCHANGED <<status, processes>>, NEW p \in Procs, \A q \in Procs \ {p} : Same(q),
           \A id \in VmIds : processes[id] # p,
           \A d \in Callers \ {c} : pc[d] \in OwnPcs => child[d] # p, Ready(c)'
    PROVE  GuestInv'
  <1> DEFINE X == {}
             D == {c}
  <1>1. \A id \in VmIds \ X : Steady(id)
    BY SockTypes, Zenon DEF Steady
  <1>2. \A d \in Callers \ D : /\ Waits(d)
                               /\ pc[d] \in PublishPcs => vm[d] \notin X
                               /\ pc[d] \in LaunchPcs => Same(child[d])
    BY SockTypes, Zenon DEF OwnPcs, LaunchPcs
  <1>3. /\ D \in SUBSET Callers /\ X \in SUBSET VmIds /\ \A d \in D : Ready(d)'
        /\ \A id \in X : status'[id] \in Live /\ processes'[id] # None => Tracking(id)
    BY Zenon
  <1> HIDE DEF X, D
  <1> QED
    BY <1>1, <1>2, <1>3, GuestFrame, Zenon

(* A call changes the entries of ids a and b.                               *)
LEMMA GuestPair ==
    ASSUME TypeInv, SockInv, GuestInv, NEW c \in Callers, \A d \in Callers \ {c} : Waits(d),
           NEW a \in VmIds, NEW b \in VmIds,
           \A d \in Callers \ {c} : pc[d] # "idle" => vm[d] \notin {a, b},
           \A p \in Procs : Same(p),
           \A id \in VmIds \ {a, b} : status'[id] = status[id] /\ processes'[id] = processes[id],
           status'[a] \in Live /\ processes'[a] # None => Tracking(a),
           status'[b] \in Live /\ processes'[b] # None => Tracking(b), Ready(c)'
    PROVE  GuestInv'
  <1> DEFINE X == {a, b}
             D == {c}
  <1>1. \A id \in VmIds \ X : Steady(id)
    BY SockTypes, Zenon DEF Steady
  <1>2. \A d \in Callers \ D : /\ Waits(d)
                               /\ pc[d] \in PublishPcs => vm[d] \notin X
                               /\ pc[d] \in LaunchPcs => Same(child[d])
    BY SockTypes, Zenon DEF OwnPcs, PublishPcs, LaunchPcs
  <1>3. /\ D \in SUBSET Callers /\ X \in SUBSET VmIds /\ \A d \in D : Ready(d)'
        /\ \A id \in X : status'[id] \in Live /\ processes'[id] # None => Tracking(id)
    BY Zenon
  <1> HIDE DEF X, D
  <1> QED
    BY <1>1, <1>2, <1>3, GuestFrame, Zenon

LEMMA GuestTypes ==
    ASSUME TypeInv
    PROVE  /\ pc \in [Callers -> CreatePcs \cup {"idle", "destroy", "rename"}]
           /\ vm \in [Callers -> VmIds \cup {None}]
           /\ src \in [Callers -> SnapshotRefs \cup {None}]
           /\ child \in [Callers -> Procs \cup {None}]
           /\ life \in [Procs -> {"unused", "up", "zombie", "reaped"}]
           /\ guest \in [Procs -> {"unbound", "blank", "configured", "running", "paused", "gone"}]
  BY Zenon DEF TypeInv, TypeOK

(* Labels at which a call says nothing of a guest.                          *)
MutePcs == {"idle", "compose", "spawn", "wait", "check", "load", "destroy", "rename"}

LEMMA Mute ==
    ASSUME NEW c, pc'[c] \in MutePcs PROVE Ready(c)'
  BY Zenon DEF Ready, MutePcs, LaunchPcs, PublishPcs

(* What the ends of a step do to the other calls.                           *)
LEMMA ReturnWaits ==
    ASSUME TypeInv, NEW c \in Callers, Return(c)
    PROVE  pc'[c] = "idle" /\ Ready(c)' /\ \A d \in Callers \ {c} : Waits(d)
  <1>1. pc'[c] = "idle" /\ \A d \in Callers \ {c} : Waits(d)
    BY GuestTypes, Zenon DEF Return, Waits
  <1>2. pc'[c] \in MutePcs
    BY <1>1, Zenon DEF MutePcs
  <1> QED
    BY <1>1, <1>2, Mute, Zenon

LEMMA BeginWaits ==
    ASSUME TypeInv, NEW c \in Callers, NEW l, NEW id, NEW new, NEW ref, Begin(c, l, id, new, ref)
    PROVE  pc'[c] = l /\ \A d \in Callers \ {c} : Waits(d)
  BY GuestTypes, Zenon DEF Begin, Waits

LEMMA GotoWaits ==
    ASSUME TypeInv, NEW c \in Callers, NEW l, pc' = [pc EXCEPT ![c] = l],
           UNCHANGED <<vm, src, child>>
    PROVE  pc'[c] = l /\ \A d \in Callers \ {c} : Waits(d)
  BY GuestTypes, Zenon DEF Waits

LEMMA AllSame ==
    ASSUME UNCHANGED <<life, guest, desync>> PROVE \A p \in Procs : Same(p)
  BY Zenon DEF Same

LEMMA KillSame ==
    ASSUME TypeInv, NEW p \in Procs, KillAndReap(p) PROVE \A q \in Procs : Same(q)
  <1> SUFFICES ASSUME NEW q \in Procs PROVE Same(q)
    OBVIOUS
  <1>1. CASE q = p
    <2>1. life'[q] = "reaped"
      BY <1>1, GuestTypes, Zenon DEF KillAndReap
    <2> QED
      BY <2>1, Zenon DEF Same
  <1>2. CASE q # p
    <2>1. life'[q] = life[q] /\ guest'[q] = guest[q] /\ (q \in desync => q \in desync')
      BY <1>2, GuestTypes, Zenon DEF KillAndReap
    <2> QED
      BY <2>1, Zenon DEF Same
  <1> QED
    BY <1>1, <1>2, Zenon

LEMMA WokenSame ==
    ASSUME TypeInv, NEW p \in Procs, NEW g, guest' = [guest EXCEPT ![p] = g],
           UNCHANGED <<life, desync>>
    PROVE  /\ \A q \in Procs \ {p} : Same(q)
           /\ guest'[p] = g
  BY GuestTypes, Zenon DEF Same

(* A call moves to a label and touches neither guests nor table.            *)
LEMMA GuestMute ==
    ASSUME TypeInv, SockInv, GuestInv, NEW c \in Callers, pc'[c] \in MutePcs,
           \A d \in Callers \ {c} : Waits(d), UNCHANGED <<status, processes, life, guest, desync>>
    PROVE  GuestInv'
  BY Mute, AllSame, GuestCall, Zenon

(* A create at its own socket: the child is filed nowhere and is its own.   *)
LEMMA OwnChild ==
    ASSUME TypeInv, ProcInv, NEW c \in Callers, pc[c] \in OwnPcs
    PROVE  /\ child[c] \in Procs
           /\ \A id \in VmIds : processes[id] # child[c]
           /\ \A d \in Callers \ {c} : pc[d] \in OwnPcs => child[d] # child[c]
  BY SockTypes, Zenon DEF ProcInv, Owned, OwnedOnce

(* A request for id reaches its own process, which no one else has.         *)
LEMMA GuestRun ==
    ASSUME TypeInv, ProcInv, SockInv, GuestInv, UNCHANGED <<pc, vm, src, child, processes>>,
           writer = None, ClaimInv, NEW id \in VmIds, NEW q \in Procs, processes[id] = q, status[id] \in Live,
           \A i \in VmIds \ {id} : status'[i] = status[i], \A p \in Procs \ {q} : Same(p),
           Tracking(id)
    PROVE  GuestInv'
  <1> DEFINE X == {id}
             D == {}
  <1>1. \A i \in VmIds \ X : Steady(i)
    BY SockTypes, Zenon DEF Steady, ProcInv, FiledOnce
  <1>2. ASSUME NEW d \in Callers \ D
        PROVE  /\ Waits(d)
               /\ pc[d] \in PublishPcs => vm[d] \notin X
               /\ pc[d] \in LaunchPcs => Same(child[d])
    <2>1. pc[d] \in LaunchPcs => Same(child[d])
      BY SockTypes, Zenon DEF OwnPcs, LaunchPcs, ProcInv, Owned
    <2>2. pc[d] \in PublishPcs => vm[d] # id
      <3>1. pc[d] \in PublishPcs => pc[d] \in CreatePcs
        BY Zenon DEF PublishPcs, CreatePcs
      <3>2. pc[d] \in PublishPcs => status[vm[d]] = None
        BY <3>1, Zenon DEF ClaimInv
      <3>3. status[id] # None
        BY Zenon DEF Live
      <3> QED
        BY <3>2, <3>3, Zenon
    <2> QED
      BY <2>1, <2>2, Zenon DEF Waits
  <1>3. /\ D \in SUBSET Callers /\ X \in SUBSET VmIds /\ \A d \in D : Ready(d)'
        /\ \A i \in X : status'[i] \in Live /\ processes'[i] # None => Tracking(i)
    BY Zenon
  <1> HIDE DEF X, D
  <1> QED
    BY <1>1, <1>2, <1>3, GuestFrame, Zenon

(* What a request leaves behind: the reply arrived, or it was lost.         *)
Ran(id, q, g, st) ==
    /\ sock[Dir(id)] = q /\ guest' = [guest EXCEPT ![q] = g]
    /\ \/ status' = [status EXCEPT ![id] = st] /\ desync' = desync \ {q}
       \/ status' = status /\ desync' = desync \cup {q}

LEMMA Executed ==
    ASSUME NEW id, NEW request, NEW g, NEW replied \in BOOLEAN, NEW st,
           Execute(id, request, g, replied, st)
    PROVE  \E q \in Procs : Ran(id, q, g, st)
  <1>1. CASE replied
    BY <1>1, Zenon DEF Execute, Reaches, Ran
  <1>2. CASE ~replied
    BY <1>2, Zenon DEF Execute, Reaches, Ran
  <1> QED
    BY <1>1, <1>2, Zenon

LEMMA RanFacts ==
    ASSUME TypeInv, NEW id \in VmIds, NEW q \in Procs, NEW g, NEW st, Ran(id, q, g, st)
    PROVE  /\ guest'[q] = g /\ \A i \in VmIds \ {id} : status'[i] = status[i]
           /\ \A p \in Procs \ {q} : guest'[p] = guest[p] /\ (p \in desync => p \in desync')
           /\ \/ status'[id] = st
              \/ status'[id] = status[id] /\ q \in desync'
  <1>1. guest'[q] = g /\ \A p \in Procs \ {q} : guest'[p] = guest[p]
    BY GuestTypes, Zenon DEF Ran
  <1>2. CASE status' = [status EXCEPT ![id] = st] /\ desync' = desync \ {q}
    <2>1. status'[id] = st /\ \A i \in VmIds \ {id} : status'[i] = status[i]
      BY <1>2, SockTypes, Zenon
    <2> QED
      BY <1>1, <1>2, <2>1, Zenon
  <1>3. CASE status' = status /\ desync' = desync \cup {q}
    BY <1>1, <1>3, Zenon
  <1> QED
    BY <1>2, <1>3, Zenon DEF Ran

LEMMA GuestStep ==
    ASSUME TypeInv, ClaimInv, ProcInv, SockInv, GuestInv, [Next]_vars PROVE GuestInv'
  <1>1. ASSUME NEW c \in Callers, NEW id \in VmIds, NEW ref \in SnapshotRefs \cup {None}, CreateCheck(c, id, ref)
        PROVE GuestInv'
    <2>1. Begin(c, "compose", id, None, ref) /\ UNCHANGED <<status, processes, life, guest, desync>>
      BY <1>1, Zenon DEF CreateCheck
    <2> QED
      BY <2>1, BeginWaits, GuestMute, Zenon DEF MutePcs
  <1>2. ASSUME NEW c \in Callers, NEW r \in Primitives, Attach(c, r) PROVE GuestInv'
    <2>1. pc[c] = "compose" /\ UNCHANGED <<pc, vm, src, child>> /\ UNCHANGED <<status, processes, life, guest, desync>>
      BY <1>2, Zenon DEF Attach
    <2>2. \A d \in Callers \ {c} : Waits(d)
      BY <2>1, Zenon DEF Waits
    <2> QED
      BY <2>1, <2>2, GuestMute, Zenon DEF MutePcs
  <1>3. ASSUME NEW c \in Callers, NEW r \in Primitives, ComposeFail(c, r) PROVE GuestInv'
    <2>1. Return(c) /\ UNCHANGED <<status, processes, life, guest, desync>>
      BY <1>3, Zenon DEF ComposeFail
    <2> QED
      BY <2>1, ReturnWaits, GuestMute, Zenon DEF MutePcs
  <1>4. ASSUME NEW c \in Callers, MakeStateDir(c) PROVE GuestInv'
    <2>1. /\ pc' = [pc EXCEPT ![c] = "spawn"] /\ UNCHANGED <<vm, src, child>>
          /\ UNCHANGED <<status, processes, life, guest, desync>>
      BY <1>4, Zenon DEF MakeStateDir, Goto
    <2> QED
      BY <2>1, GotoWaits, GuestMute, Zenon DEF MutePcs
  <1>5. ASSUME NEW c \in Callers, SpawnFail(c) PROVE GuestInv'
    <2>1. Return(c) /\ UNCHANGED <<status, processes, life, guest, desync>>
      BY <1>5, Zenon DEF SpawnFail
    <2> QED
      BY <2>1, ReturnWaits, GuestMute, Zenon DEF MutePcs
  <1>6. ASSUME NEW c \in Callers, NEW p \in Procs, Spawn(c, p) PROVE GuestInv'
    <2>1. /\ pc[c] = "spawn" /\ life[p] = "unused" /\ life' = [life EXCEPT ![p] = "up"]
          /\ pc' = [pc EXCEPT ![c] = "wait"] /\ child' = [child EXCEPT ![c] = p]
          /\ UNCHANGED <<vm, src, status, processes, guest, desync>>
      BY <1>6, Zenon DEF Spawn
    <2>2. pc'[c] = "wait" /\ \A d \in Callers \ {c} : Waits(d)
      BY <2>1, GuestTypes, Zenon DEF Waits
    <2>3. \A q \in Procs \ {p} : Same(q)
      BY <2>1, GuestTypes, Zenon DEF Same
    <2>4. /\ \A id \in VmIds : processes[id] # p
          /\ \A d \in Callers \ {c} : pc[d] \in OwnPcs => child[d] # p
      <3>1. life[p] \notin Tended /\ p # None
        BY <2>1, Zenon DEF Tended
      <3> QED
        BY <3>1, Zenon DEF ProcInv, Filed, Owned
    <2>5. Ready(c)'
      <3>1. pc'[c] \in MutePcs
        BY <2>2, Zenon DEF MutePcs
      <3> QED
        BY <3>1, Mute, Zenon
    <2> QED
      BY <2>1, <2>2, <2>3, <2>4, <2>5, GuestOwn, Zenon
  <1>7. ASSUME NEW c \in Callers, WaitReady(c) PROVE GuestInv'
    <2>1. /\ pc' = [pc EXCEPT ![c] = IF src[c] = None THEN "configure" ELSE "check"]
          /\ UNCHANGED <<vm, src, child>> /\ UNCHANGED <<status, processes, life, guest, desync>>
      BY <1>7, Zenon DEF WaitReady, Goto
    <2>2. /\ pc'[c] = IF src[c] = None THEN "configure" ELSE "check"
          /\ \A d \in Callers \ {c} : Waits(d)
      BY <2>1, GotoWaits, Zenon
    <2>3. Ready(c)'
      <3>1. CASE src[c] = None
        <4>1. pc'[c] = "configure" /\ src'[c] = None
          BY <2>1, <2>2, <3>1, Zenon
        <4> QED
          BY <4>1, Zenon DEF Ready, LaunchPcs, PublishPcs
      <3>2. CASE src[c] # None
        <4>1. pc'[c] \in MutePcs
          BY <2>2, <3>2, Zenon DEF MutePcs
        <4> QED
          BY <4>1, Mute, Zenon
      <3> QED
        BY <3>1, <3>2, Zenon
    <2> QED
      BY <2>1, <2>2, <2>3, AllSame, GuestCall, Zenon
  <1>8. ASSUME NEW c \in Callers, Configure(c) PROVE GuestInv'
    <2>1. /\ pc[c] = "configure" /\ pc' = [pc EXCEPT ![c] = "console"]
          /\ UNCHANGED <<vm, src, child, status, processes, life, desync>>
          /\ \E q \in Procs : Reaches(Dir(vm[c]), q) /\ guest' = [guest EXCEPT ![q] = "configured"]
      BY <1>8, Zenon DEF Configure, Goto
    <2>2. /\ child[c] \in Procs /\ pc[c] \in OwnPcs
          /\ \A id \in VmIds : processes[id] # child[c]
          /\ \A d \in Callers \ {c} : pc[d] \in OwnPcs => child[d] # child[c]
      BY <2>1, OwnChild, Zenon DEF OwnPcs
    <2>3. sock[Dir(vm[c])] = child[c]
      BY <2>1, <2>2, Zenon DEF SockInv, Housed
    <2>4. guest' = [guest EXCEPT ![child[c]] = "configured"]
      BY <2>1, <2>3, Zenon DEF Reaches
    <2>5. /\ \A q \in Procs \ {child[c]} : Same(q)
          /\ guest'[child[c]] = "configured"
      BY <2>1, <2>2, <2>4, WokenSame, Zenon
    <2>6. pc'[c] = "console" /\ \A d \in Callers \ {c} : Waits(d)
      BY <2>1, GotoWaits, Zenon
    <2>7. InitialGuest(c)' = "configured"
      <3>1. src[c] = None
        BY <2>1, Zenon DEF GuestInv, Ready, TypeInv, CallOK
      <3> QED
        BY <2>1, <3>1 DEF InitialGuest
    <2>8. Ready(c)'
      BY <2>1, <2>5, <2>6, <2>7, Zenon DEF Ready, Launched, LaunchPcs, PublishPcs
    <2> QED
      BY <2>1, <2>2, <2>5, <2>6, <2>8, GuestOwn, Zenon
  <1>9. ASSUME NEW c \in Callers, LoadCheck(c) PROVE GuestInv'
    <2>1. /\ pc' = [pc EXCEPT ![c] = "load"] /\ UNCHANGED <<vm, src, child>>
          /\ UNCHANGED <<status, processes, life, guest, desync>>
      BY <1>9, Zenon DEF LoadCheck, Goto
    <2> QED
      BY <2>1, GotoWaits, GuestMute, Zenon DEF MutePcs
  <1>10. ASSUME NEW c \in Callers, LoadRequest(c) PROVE GuestInv'
    <2>1. /\ pc[c] = "load" /\ pc' = [pc EXCEPT ![c] = "console"]
          /\ UNCHANGED <<vm, src, child, status, processes, life, desync>>
          /\ \E q \in Procs : Reaches(Dir(vm[c]), q) /\ guest' = [guest EXCEPT ![q] = (IF src[c].resume_immediately THEN "running" ELSE "paused")]
      BY <1>10, Zenon DEF LoadRequest, Goto
    <2>2. /\ child[c] \in Procs /\ pc[c] \in OwnPcs
          /\ \A id \in VmIds : processes[id] # child[c]
          /\ \A d \in Callers \ {c} : pc[d] \in OwnPcs => child[d] # child[c]
      BY <2>1, OwnChild, Zenon DEF OwnPcs
    <2>3. sock[Dir(vm[c])] = child[c]
      BY <2>1, <2>2, Zenon DEF SockInv, Housed
    <2>4. guest' = [guest EXCEPT ![child[c]] = (IF src[c].resume_immediately THEN "running" ELSE "paused")]
      BY <2>1, <2>3, Zenon DEF Reaches
    <2>5. /\ \A q \in Procs \ {child[c]} : Same(q)
          /\ guest'[child[c]] = (IF src[c].resume_immediately THEN "running" ELSE "paused")
      BY <2>1, <2>2, <2>4, WokenSame, Zenon
    <2>6. pc'[c] = "console" /\ \A d \in Callers \ {c} : Waits(d)
      BY <2>1, GotoWaits, Zenon
    <2>7. InitialGuest(c)' = (IF src[c].resume_immediately THEN "running" ELSE "paused")
      <3>1. src[c] # None
        BY <2>1, Zenon DEF GuestInv, Ready, TypeInv, CallOK
      <3> QED
        BY <2>1, <3>1 DEF InitialGuest
    <2>8. Ready(c)'
      BY <2>1, <2>5, <2>6, <2>7, Zenon DEF Ready, Launched, LaunchPcs, PublishPcs
    <2> QED
      BY <2>1, <2>2, <2>5, <2>6, <2>8, GuestOwn, Zenon
  <1>11. ASSUME NEW c \in Callers, CreateFail(c) PROVE GuestInv'
    <2>1. /\ pc[c] \in OwnPcs /\ KillAndReap(child[c]) /\ Return(c)
          /\ UNCHANGED <<status, processes>>
      BY <1>11, Zenon DEF CreateFail, Fallible, OwnPcs
    <2>2. \A q \in Procs : Same(q)
      BY <2>1, SockTypes, KillSame, Zenon
    <2>3. Ready(c)' /\ \A d \in Callers \ {c} : Waits(d)
      BY <2>1, ReturnWaits, Zenon
    <2> QED
      BY <2>1, <2>2, <2>3, GuestCall, Zenon
  <1>12a. ASSUME NEW c \in Callers, PublishConsole(c) PROVE GuestInv'
    <2>1. /\ pc[c] = "console" /\ pc' = [pc EXCEPT ![c] = "process"]
          /\ UNCHANGED <<vm, src, child>> /\ UNCHANGED <<status, processes, life, guest, desync>>
      BY <1>12a, Zenon DEF PublishConsole, Goto
    <2>2. pc'[c] = "process" /\ \A d \in Callers \ {c} : Waits(d)
      BY <2>1, GotoWaits, Zenon
    <2>3. Ready(c)'
      <3>1. Launched(c, child[c])
        BY <2>1, Zenon DEF GuestInv, Ready, LaunchPcs
      <3>2. InitialGuest(c)' = InitialGuest(c)
        BY <2>1, Zenon DEF InitialGuest
      <3>3. Launched(c, child[c])'
        BY <2>1, <3>1, <3>2, Zenon DEF Launched
      <3> QED
        BY <2>2, <3>3, Zenon DEF Ready, PublishPcs
    <2> QED
      BY <2>1, <2>2, <2>3, AllSame, GuestCall, Zenon
  <1>12. ASSUME NEW c \in Callers, PublishProcess(c) PROVE GuestInv'
    <2>1. /\ pc[c] = "process" /\ pc' = [pc EXCEPT ![c] = "handler"]
          /\ processes' = [processes EXCEPT ![vm[c]] = child[c]]
          /\ UNCHANGED <<vm, src, child, status, life, guest, desync>>
      BY <1>12, Zenon DEF PublishProcess, Goto
    <2>2. pc'[c] = "handler" /\ \A d \in Callers \ {c} : Waits(d)
      BY <2>1, GotoWaits, Zenon
    <2>3. vm[c] \in VmIds /\ status'[vm[c]] \notin Live
      BY <2>1, SockTypes, Zenon DEF ClaimInv, Live, CreatePcs
    <2>4. /\ processes'[vm[c]] = child[c]
          /\ \A id \in VmIds \ {vm[c], vm[c]} : status'[id] = status[id] /\ processes'[id] = processes[id]
      BY <2>1, <2>3, SockTypes, Zenon
    <2>5. \A d \in Callers \ {c} : pc[d] # "idle" => vm[d] \notin {vm[c], vm[c]}
      BY <2>1, Elsewhere, Zenon
    <2>6. Ready(c)'
      <3>1. Launched(c, child[c])
        BY <2>1, Zenon DEF GuestInv, Ready, LaunchPcs
      <3>2. InitialGuest(c)' = InitialGuest(c)
        BY <2>1, Zenon DEF InitialGuest
      <3>3. processes'[vm'[c]] = child[c]
        BY <2>1, <2>4, Zenon
      <3>4. Launched(c, processes[vm[c]])'
        BY <2>1, <3>1, <3>2, <3>3, Zenon DEF Launched
      <3> QED
        BY <2>2, <3>4, Zenon DEF Ready, LaunchPcs
    <2>7. \A p \in Procs : Same(p)
      BY <2>1, AllSame, Zenon
    <2> QED
      BY <2>2, <2>3, <2>4, <2>5, <2>6, <2>7, GuestPair, Zenon
  <1>12b. ASSUME NEW c \in Callers, PublishHandler(c) PROVE GuestInv'
    <2>1. /\ pc[c] = "handler" /\ pc' = [pc EXCEPT ![c] = "attachments"]
          /\ UNCHANGED <<vm, src, child>> /\ UNCHANGED <<status, processes, life, guest, desync>>
      BY <1>12b, Zenon DEF PublishHandler, Goto
    <2>2. pc'[c] = "attachments" /\ \A d \in Callers \ {c} : Waits(d)
      BY <2>1, GotoWaits, Zenon
    <2>3. Ready(c)'
      <3>1. Launched(c, processes[vm[c]])
        BY <2>1, Zenon DEF GuestInv, Ready, PublishPcs
      <3>2. InitialGuest(c)' = InitialGuest(c)
        BY <2>1, Zenon DEF InitialGuest
      <3>3. Launched(c, processes[vm[c]])'
        BY <2>1, <3>1, <3>2, Zenon DEF Launched
      <3> QED
        BY <2>2, <3>3, Zenon DEF Ready, LaunchPcs
    <2> QED
      BY <2>1, <2>2, <2>3, AllSame, GuestCall, Zenon
  <1>13. ASSUME NEW c \in Callers, PublishAttachments(c) PROVE GuestInv'
    <2>1. /\ pc[c] = "attachments" /\ pc' = [pc EXCEPT ![c] = "record"]
          /\ UNCHANGED <<vm, src, child>> /\ UNCHANGED <<status, processes, life, guest, desync>>
      BY <1>13, Zenon DEF PublishAttachments
    <2>2. pc'[c] = "record" /\ \A d \in Callers \ {c} : Waits(d)
      BY <2>1, GotoWaits, Zenon
    <2>3. Ready(c)'
      <3>1. Launched(c, processes[vm[c]])
        BY <2>1, Zenon DEF GuestInv, Ready, PublishPcs
      <3>2. InitialGuest(c)' = InitialGuest(c)
        BY <2>1, Zenon DEF InitialGuest
      <3>3. Launched(c, processes[vm[c]])'
        BY <2>1, <3>1, <3>2, Zenon DEF Launched
      <3> QED
        BY <2>2, <3>3, Zenon DEF Ready, LaunchPcs
    <2> QED
      BY <2>1, <2>2, <2>3, AllSame, GuestCall, Zenon
  <1>14. ASSUME NEW c \in Callers, InsertRecord(c) PROVE GuestInv'
    <2>1. /\ pc[c] = "record" /\ Return(c) /\ UNCHANGED <<processes, life, guest, desync>>
          /\ status' = [status EXCEPT ![vm[c]] = InitialStatus(c)]
      BY <1>14, Zenon DEF InsertRecord
    <2>2. Ready(c)' /\ \A d \in Callers \ {c} : Waits(d)
      BY <2>1, ReturnWaits, Zenon
    <2>3. vm[c] \in VmIds
      BY <2>1, SockTypes, Zenon
    <2>4. /\ status'[vm[c]] = InitialStatus(c)
          /\ \A id \in VmIds \ {vm[c], vm[c]} : status'[id] = status[id] /\ processes'[id] = processes[id]
      BY <2>1, <2>3, SockTypes, Zenon
    <2>5. \A d \in Callers \ {c} : pc[d] # "idle" => vm[d] \notin {vm[c], vm[c]}
      BY <2>1, Elsewhere, Zenon
    <2>6. Tracking(vm[c])
      <3>1. Launched(c, processes[vm[c]])
        BY <2>1, Zenon DEF GuestInv, Ready, PublishPcs
      <3>2. <<InitialStatus(c), InitialGuest(c)>> \in Agree
        BY DEF InitialStatus, InitialGuest, Agree
      <3> QED
        BY <2>1, <2>4, <3>1, <3>2, Zenon DEF Launched, Tracking
    <2>7. \A p \in Procs : Same(p)
      BY <2>1, AllSame, Zenon
    <2> QED
      BY <2>2, <2>3, <2>4, <2>5, <2>6, <2>7, GuestPair, Zenon
  <1>15. ASSUME NEW c \in Callers, NEW id \in VmIds, DestroyKill(c, id) PROVE GuestInv'
    <2>1. /\ writer = None /\ status[id] \in Live /\ status' = status
          /\ Begin(c, "destroy", id, None, None)
          /\ processes' = [processes EXCEPT ![id] = None]
          /\ IF processes[id] # None THEN KillAndReap(processes[id])
             ELSE UNCHANGED <<life, guest, desync>>
      BY <1>15, Zenon DEF DestroyKill
    <2>0. pc'[c] \in MutePcs /\ \A d \in Callers \ {c} : Waits(d)
      BY <2>1, BeginWaits, Zenon DEF MutePcs
    <2>2. Ready(c)' /\ \A d \in Callers \ {c} : Waits(d)
      BY <2>0, Mute, Zenon
    <2>3. \A p \in Procs : Same(p)
      <3>1. CASE processes[id] # None
        BY <2>1, <3>1, SockTypes, KillSame, Zenon
      <3>2. CASE processes[id] = None
        BY <2>1, <3>2, AllSame, Zenon
      <3> QED
        BY <3>1, <3>2, Zenon
    <2>4. \A d \in Callers \ {c} : pc[d] # "idle" => vm[d] \notin {id, id}
      <3> SUFFICES ASSUME NEW d \in Callers, pc[d] # "idle" PROVE vm[d] # id
        BY Zenon
      <3>1. pc[d] \notin {"destroy", "rename"}
        BY <2>1, Zenon DEF ClaimInv
      <3>2. pc[d] \in CreatePcs
        BY <3>1, SockTypes, Zenon
      <3>3. status[vm[d]] = None /\ None \notin Live
        BY <3>2, Zenon DEF ClaimInv, Live
      <3> QED
        BY <2>1, <3>3, Zenon
    <2>5. /\ processes'[id] = None
          /\ \A i \in VmIds \ {id, id} : status'[i] = status[i] /\ processes'[i] = processes[i]
      BY <2>1, SockTypes, Zenon
    <2> QED
      BY <2>2, <2>3, <2>4, <2>5, GuestPair, Zenon
  <1>16. ASSUME NEW c \in Callers, DestroyRemove(c) PROVE GuestInv'
    <2>1. /\ pc[c] = "destroy" /\ Return(c) /\ UNCHANGED <<processes, life, guest, desync>>
          /\ status' = [status EXCEPT ![vm[c]] = "Destroyed"]
      BY <1>16, Zenon DEF DestroyRemove
    <2>2. Ready(c)' /\ \A d \in Callers \ {c} : Waits(d)
      BY <2>1, ReturnWaits, Zenon
    <2>3. vm[c] \in VmIds
      BY <2>1, SockTypes, Zenon
    <2>4. /\ status'[vm[c]] = "Destroyed" /\ "Destroyed" \notin Live
          /\ \A id \in VmIds \ {vm[c], vm[c]} : status'[id] = status[id] /\ processes'[id] = processes[id]
      BY <2>1, <2>3, SockTypes, Zenon DEF Live
    <2>5. \A d \in Callers \ {c} : pc[d] # "idle" => vm[d] \notin {vm[c], vm[c]}
      BY <2>1, Elsewhere, Zenon
    <2>6. \A p \in Procs : Same(p)
      BY <2>1, AllSame, Zenon
    <2>7. status'[vm[c]] \notin Live
      BY <2>4, Zenon
    <2> QED
      BY <2>2, <2>3, <2>4, <2>5, <2>6, <2>7, GuestPair, Zenon
  <1>17. ASSUME NEW c \in Callers, NEW old \in VmIds, NEW new \in VmIds, RenameStateDir(c, old, new)
         PROVE GuestInv'
    <2>1. Begin(c, "rename", old, new, None) /\ UNCHANGED <<status, processes, life, guest, desync>>
      BY <1>17, Zenon DEF RenameStateDir
    <2> QED
      BY <2>1, BeginWaits, GuestMute, Zenon DEF MutePcs
  <1>18. ASSUME NEW c \in Callers, RenameHolder(c) PROVE GuestInv'
    <2>1. /\ pc[c] = "rename" /\ Return(c) /\ UNCHANGED <<life, guest, desync>>
          /\ status' = [status EXCEPT ![dst[c]] = status[vm[c]], ![vm[c]] = None]
          /\ processes' = IF processes[vm[c]] # None
                          THEN [processes EXCEPT ![dst[c]] = processes[vm[c]], ![vm[c]] = None]
                          ELSE processes
      BY <1>18, Zenon DEF RenameHolder, MoveEntry
    <2>2. Ready(c)' /\ \A d \in Callers \ {c} : Waits(d)
      BY <2>1, ReturnWaits, Zenon
    <2>3. vm[c] \in VmIds /\ dst[c] \in VmIds /\ dst[c] # vm[c] /\ status[vm[c]] \in Live
      BY <2>1, Zenon DEF TypeInv, CallOK, ClaimInv
    <2>4. processes[dst[c]] = None
      BY <2>1, <2>3, Unfiled, Zenon
    <2>5. /\ processes'[dst[c]] = processes[vm[c]]
          /\ \A id \in VmIds \ {vm[c], dst[c]} : processes'[id] = processes[id]
      BY <2>1, <2>3, <2>4, SockTypes, Zenon
    <2>6. /\ status'[dst[c]] = status[vm[c]] /\ status'[vm[c]] \notin Live
          /\ \A id \in VmIds \ {vm[c], dst[c]} : status'[id] = status[id]
      BY <2>1, <2>3, SockTypes, Zenon DEF Live
    <2>7. processes'[dst[c]] # None => Tracking(dst[c])
      <3>1. processes[vm[c]] # None => Tracks(vm[c])
        BY <2>3, Zenon DEF GuestInv
      <3>2. ASSUME processes[vm[c]] # None, life[processes[vm[c]]] = "up"
            PROVE  <<status[vm[c]], guest[processes[vm[c]]]>> \in
                      Agree \cup (IF processes[vm[c]] \in desync THEN OneAhead ELSE {})
        BY <3>1, <3>2, Zenon DEF Tracks
      <3>3. life' = life /\ guest' = guest /\ desync' = desync
        BY <2>1, Zenon
      <3> QED
        BY <2>5, <2>6, <3>2, <3>3, Zenon DEF Tracking
    <2>8. \A d \in Callers \ {c} : pc[d] # "idle" => vm[d] \notin {vm[c], dst[c]}
      <3>1. pc[c] # "idle"
        BY <2>1, Zenon
      <3> QED
        BY <3>1, Elsewhere, Zenon
    <2>9. \A p \in Procs : Same(p)
      BY <2>1, AllSame, Zenon
    <2> QED
      BY <2>2, <2>3, <2>5, <2>6, <2>7, <2>8, <2>9, GuestPair, Zenon
  <1>19. ASSUME NEW c \in Callers, RenameRollback(c) PROVE GuestInv'
    <2>1. Return(c) /\ UNCHANGED <<status, processes, life, guest, desync>>
      BY <1>19, Zenon DEF RenameRollback
    <2> QED
      BY <2>1, ReturnWaits, GuestMute, Zenon DEF MutePcs
  <1>20. ASSUME NEW c \in Callers, Bind(c) PROVE GuestInv'
    <2>1. /\ pc[c] \in OwnPcs /\ sock[Dir(vm[c])] = None
          /\ UNCHANGED <<pc, vm, src, child, status, processes, life, desync>>
          /\ guest' = [guest EXCEPT ![child[c]] = "blank"]
      BY <1>20, Zenon DEF Bind, Owns, OwnPcs
    <2>2. /\ child[c] \in Procs
          /\ \A id \in VmIds : processes[id] # child[c]
          /\ \A d \in Callers \ {c} : pc[d] \in OwnPcs => child[d] # child[c]
      BY <2>1, OwnChild, Zenon
    <2>3. pc'[c] = "wait"
      BY <2>1, <2>2, Zenon DEF SockInv, Housed
    <2>4. \A q \in Procs \ {child[c]} : Same(q)
      BY <2>1, <2>2, WokenSame, Zenon
    <2>5. Ready(c)' /\ \A d \in Callers \ {c} : Waits(d)
      <3>1. pc'[c] \in MutePcs /\ \A d \in Callers \ {c} : Waits(d)
        BY <2>1, <2>3, Zenon DEF MutePcs, Waits
      <3> QED
        BY <3>1, Mute, Zenon
    <2> QED
      BY <2>1, <2>2, <2>4, <2>5, GuestOwn, Zenon
  <1>21. ASSUME NEW id \in VmIds, NEW replied \in BOOLEAN, StartVm(id, replied) PROVE GuestInv'
    <2>1. /\ writer = None /\ status[id] \in Live
          /\ UNCHANGED <<pc, vm, src, child, processes, life>>
      BY <1>21, Zenon DEF StartVm, Live
    <2>0. \/ Execute(id, "start", "running", replied, "Running")
          \/ Execute(id, "resume", "running", replied, "Running")
      BY <1>21, Zenon DEF StartVm
    <2>2. PICK q \in Procs : Ran(id, q, "running", "Running")
      BY <2>0, Executed, Zenon
    <2>3. processes[id] = q
      <3>1. \A c \in Callers : pc[c] # "destroy"
        BY <2>1, Zenon DEF ClaimInv
      <3> QED
        BY <2>1, <2>2, <3>1, Zenon DEF SockInv, Settled, Served, Ran
    <2>4. /\ guest'[q] = "running" /\ \A i \in VmIds \ {id} : status'[i] = status[i]
          /\ \A p \in Procs \ {q} : guest'[p] = guest[p] /\ (p \in desync => p \in desync')
          /\ \/ status'[id] = "Running"
             \/ status'[id] = status[id] /\ q \in desync'
      BY <2>2, RanFacts, Zenon
    <2>5. \A p \in Procs \ {q} : Same(p)
      BY <2>1, <2>4, Zenon DEF Same
    <2>6. Tracking(id)
      <3>1. processes'[id] = q
        BY <2>1, <2>3, Zenon
      <3>2. CASE status'[id] = "Running"
        <4>1. <<status'[id], guest'[q]>> \in Agree
          BY <2>4, <3>2, Zenon DEF Agree
        <4> QED
          BY <3>1, <4>1, Zenon DEF Tracking
      <3>3. CASE status'[id] = status[id] /\ q \in desync'
        <4>1. status[id] \in {"Created", "Stopped"}
          BY <1>21, Zenon DEF StartVm
        <4>2. <<status'[id], guest'[q]>> \in OneAhead
          BY <2>4, <3>3, <4>1, Zenon DEF OneAhead
        <4> QED
          BY <3>1, <3>3, <4>2, Zenon DEF Tracking
      <3> QED
        BY <2>4, <3>2, <3>3, Zenon
    <2> QED
      BY <2>1, <2>3, <2>4, <2>5, <2>6, GuestRun, Zenon
  <1>22. ASSUME NEW id \in VmIds, NEW replied \in BOOLEAN, StopVm(id, replied) PROVE GuestInv'
    <2>1. /\ writer = None /\ status[id] \in Live
          /\ UNCHANGED <<pc, vm, src, child, processes, life>>
      BY <1>22, Zenon DEF StopVm, Live
    <2>0. Execute(id, "pause", "paused", replied, "Stopped")
      BY <1>22, Zenon DEF StopVm
    <2>2. PICK q \in Procs : Ran(id, q, "paused", "Stopped")
      BY <2>0, Executed, Zenon
    <2>3. processes[id] = q
      <3>1. \A c \in Callers : pc[c] # "destroy"
        BY <2>1, Zenon DEF ClaimInv
      <3> QED
        BY <2>1, <2>2, <3>1, Zenon DEF SockInv, Settled, Served, Ran
    <2>4. /\ guest'[q] = "paused" /\ \A i \in VmIds \ {id} : status'[i] = status[i]
          /\ \A p \in Procs \ {q} : guest'[p] = guest[p] /\ (p \in desync => p \in desync')
          /\ \/ status'[id] = "Stopped"
             \/ status'[id] = status[id] /\ q \in desync'
      BY <2>2, RanFacts, Zenon
    <2>5. \A p \in Procs \ {q} : Same(p)
      BY <2>1, <2>4, Zenon DEF Same
    <2>6. Tracking(id)
      <3>1. processes'[id] = q
        BY <2>1, <2>3, Zenon
      <3>2. CASE status'[id] = "Stopped"
        <4>1. <<status'[id], guest'[q]>> \in Agree
          BY <2>4, <3>2, Zenon DEF Agree
        <4> QED
          BY <3>1, <4>1, Zenon DEF Tracking
      <3>3. CASE status'[id] = status[id] /\ q \in desync'
        <4>1. status[id] \in {"Running"}
          BY <1>22, Zenon DEF StopVm
        <4>2. <<status'[id], guest'[q]>> \in OneAhead
          BY <2>4, <3>3, <4>1, Zenon DEF OneAhead
        <4> QED
          BY <3>1, <3>3, <4>2, Zenon DEF Tracking
      <3> QED
        BY <2>4, <3>2, <3>3, Zenon
    <2> QED
      BY <2>1, <2>3, <2>4, <2>5, <2>6, GuestRun, Zenon
  <1>23. ASSUME NEW id \in VmIds, NEW s \in Snaps, SnapshotVm(id, s) PROVE GuestInv'
    <2>1. UNCHANGED <<pc, vm, src, child>> /\ UNCHANGED <<status, processes, life, guest, desync>>
      BY <1>23, Zenon DEF SnapshotVm
    <2> QED
      BY <2>1, AllSame, GuestRest, Zenon DEF Waits
  <1>24. ASSUME NEW id \in VmIds, NEW s \in Snaps, SnapshotFail(id, s) PROVE GuestInv'
    <2>1. UNCHANGED <<pc, vm, src, child>> /\ UNCHANGED <<status, processes, life, guest, desync>>
      BY <1>24, Zenon DEF SnapshotFail
    <2> QED
      BY <2>1, AllSame, GuestRest, Zenon DEF Waits
  <1>25. ASSUME NEW p \in Procs, PagerOpen(p) PROVE GuestInv'
    <2>1. UNCHANGED <<pc, vm, src, child>> /\ UNCHANGED <<status, processes, life, guest, desync>>
      BY <1>25, Zenon DEF PagerOpen
    <2> QED
      BY <2>1, AllSame, GuestRest, Zenon DEF Waits
  <1>26. ASSUME NEW p \in Procs, ProcessExit(p) PROVE GuestInv'
    <2>1. /\ life' = [life EXCEPT ![p] = "zombie"] /\ guest' = [guest EXCEPT ![p] = "gone"]
          /\ desync' = desync \ {p} /\ UNCHANGED <<pc, vm, src, child, status, processes>>
      BY <1>26, Zenon DEF ProcessExit
    <2>2. ASSUME NEW q \in Procs PROVE Same(q)
      <3>1. CASE q = p
        <4>1. life'[q] = "zombie"
          BY <2>1, <3>1, GuestTypes, Zenon
        <4> QED
          BY <4>1, Zenon DEF Same
      <3>2. CASE q # p
        <4>1. life'[q] = life[q] /\ guest'[q] = guest[q] /\ (q \in desync => q \in desync')
          BY <2>1, <3>2, GuestTypes, Zenon
        <4> QED
          BY <4>1, Zenon DEF Same
      <3> QED
        BY <3>1, <3>2, Zenon
    <2> QED
      BY <2>1, <2>2, GuestRest, Zenon DEF Waits
  <1>27. CASE UNCHANGED vars
    <2>1. UNCHANGED <<pc, vm, src, child>> /\ UNCHANGED <<status, processes, life, guest, desync>>
      BY <1>27, Zenon DEF vars
    <2> QED
      BY <2>1, AllSame, GuestRest, Zenon DEF Waits
  <1> QED
    BY <1>1, <1>2, <1>3, <1>4, <1>5, <1>6, <1>7, <1>8, <1>9, <1>10, <1>11, <1>12a, <1>12,
       <1>12b, <1>13, <1>14, <1>15, <1>16, <1>17, <1>18, <1>19, <1>20, <1>21, <1>22, <1>23, <1>24, <1>25,
       <1>26, <1>27, Zenon DEF Next, CallBegin, CallStep, CreateBegin

-----------------------------------------------------------------------------
(* The state directory of a VM holds the snapshots its record lists; the    *)
(* one of a create is made before the spawn; during a rename it bears the   *)
(* new name already.  A VM stranded by a rollback that failed has none.     *)
MadePcs == {"spawn"} \cup OwnPcs \cup PublishPcs

Stored(id) ==
    id \notin stranded => Dir(id) \in stateDirs /\ snapshots[id] \subseteq snapFiles[Dir(id)]

Moved(c) ==
    vm[c] \notin stranded =>
        Dir(dst[c]) \in stateDirs /\ snapshots[vm[c]] \subseteq snapFiles[Dir(dst[c])]

Placed(c) ==
    /\ pc[c] \in MadePcs => Dir(vm[c]) \in stateDirs
    /\ pc[c] = "rename" => Moved(c)

DirInv ==
    /\ \A id \in VmIds : status[id] \in Live /\ ~InTransit(id) => Stored(id)
    /\ \A c \in Callers : Placed(c)

LEMMA InitDirs == Init => DirInv
  BY DEF Init, DirInv, Placed, MadePcs, OwnPcs, PublishPcs, Live

LEMMA DirTypes ==
    ASSUME TypeInv
    PROVE  /\ snapshots \in [VmIds -> SUBSET Snaps]
           /\ snapFiles \in [SafeIds -> SUBSET Snaps]
           /\ stateDirs \in SUBSET SafeIds
  BY Zenon DEF TypeInv, TypeOK

(* An id whose record and directory a step leaves alone, a call it leaves   *)
(* alone, and the directory the step leaves an id.                          *)
Housekept(id) ==
    /\ status'[id] \in Live => status[id] \in Live
    /\ snapshots'[id] = snapshots[id] /\ snapFiles'[Dir(id)] = snapFiles[Dir(id)]
    /\ Dir(id) \in stateDirs <=> Dir(id) \in stateDirs'
    /\ id \in stranded => id \in stranded'

Stays(d) == pc'[d] = pc[d] /\ vm'[d] = vm[d] /\ dst'[d] = dst[d]

Stores(id) ==
    id \notin stranded' => Dir(id) \in stateDirs' /\ snapshots'[id] \subseteq snapFiles'[Dir(id)]

LEMMA DirFrame ==
    ASSUME TypeInv, DirInv, NEW D \in SUBSET Callers, NEW X \in SUBSET VmIds,
           \A d \in Callers \ D : Stays(d) /\ (pc[d] # "idle" => vm[d] \notin X /\ dst[d] \notin X),
           \A d \in D : pc[d] \in {"destroy", "rename"} => vm[d] \in X,
           \A id \in VmIds \ X : Housekept(id),
           \A id \in X : status'[id] \in Live /\ ~InTransit(id)' => Stores(id),
           \A d \in D : Placed(d)'
    PROVE  DirInv'
  <1>1. ASSUME NEW id \in VmIds, status'[id] \in Live, ~InTransit(id)' PROVE Stored(id)'
    <2>1. Stores(id) => Stored(id)'
      BY Zenon DEF Stores, Stored, Dir
    <2>2. CASE id \in X
      BY <1>1, <2>1, <2>2, Zenon
    <2>3. CASE id \notin X
      <3>1. Housekept(id)
        BY <2>3, Zenon
      <3>2. ~InTransit(id)
        <4> SUFFICES ASSUME NEW d \in Callers, pc[d] \in {"destroy", "rename"}, vm[d] = id
                     PROVE  FALSE
          BY Zenon DEF InTransit
        <4>1. d \notin D
          BY <2>3, Zenon
        <4>2. pc'[d] = pc[d] /\ vm'[d] = vm[d]
          BY <4>1, Zenon DEF Stays
        <4> QED
          BY <1>1, <4>2, Zenon DEF InTransit
      <3>3. Stored(id)
        BY <1>1, <3>1, <3>2, Zenon DEF DirInv, Housekept
      <3> QED
        BY <2>1, <3>1, <3>3, Zenon DEF Stored, Stores, Housekept
    <2> QED
      BY <2>2, <2>3, Zenon
  <1>2. ASSUME NEW d \in Callers PROVE Placed(d)'
    <2>1. CASE d \in D
      BY <2>1, Zenon
    <2>2. CASE d \notin D
      <3>1. Stays(d) /\ Placed(d)
        BY <2>2, Zenon DEF DirInv
      <3>2. ASSUME pc[d] # "idle" PROVE vm[d] \in VmIds \ X /\ Housekept(vm[d])
        BY <2>2, <3>2, SockTypes, Zenon
      <3>3. ASSUME pc[d] \in MadePcs PROVE Dir(vm'[d]) \in stateDirs'
        <4>1. pc[d] # "idle"
          BY <3>3, Zenon DEF MadePcs, OwnPcs, PublishPcs
        <4> QED
          BY <3>1, <3>2, <3>3, <4>1, Zenon DEF Stays, Placed, Housekept
      <3>4. ASSUME pc[d] = "rename"
            PROVE  vm'[d] \notin stranded' =>
                       /\ Dir(dst'[d]) \in stateDirs'
                       /\ snapshots'[vm'[d]] \subseteq snapFiles'[Dir(dst'[d])]
        <4>1. dst[d] \in VmIds \ X
          BY <2>2, <3>4, Zenon DEF TypeInv, CallOK
        <4>2. Housekept(dst[d]) /\ Housekept(vm[d])
          BY <3>2, <3>4, <4>1, Zenon
        <4> QED
          BY <3>1, <3>4, <4>2, Zenon DEF Stays, Placed, Moved, Housekept
      <3> QED
        BY <3>1, <3>3, <3>4, Zenon DEF Placed, Moved, Stays, Dir
    <2> QED
      BY <2>1, <2>2, Zenon
  <1> QED
    BY <1>1, <1>2, Zenon DEF DirInv

(* A call that touches no record and no state directory.                    *)
LEMMA DirCall ==
    ASSUME TypeInv, DirInv, NEW c \in Callers, Others(c), pc[c] \notin {"destroy", "rename"},
           UNCHANGED <<status, snapshots, stateDirs, snapFiles, stranded>>, Placed(c)'
    PROVE  DirInv'
  <1> DEFINE X == {}
             D == {c}
  <1>1. \A id \in VmIds \ X : Housekept(id)
    BY Zenon DEF Housekept
  <1>2. \A d \in Callers \ D : Stays(d) /\ (pc[d] # "idle" => vm[d] \notin X /\ dst[d] \notin X)
    BY Zenon DEF Others, Stays
  <1>3. /\ D \in SUBSET Callers /\ X \in SUBSET VmIds /\ \A d \in D : Placed(d)'
        /\ \A id \in X : status'[id] \in Live /\ ~InTransit(id)' => Stores(id)
        /\ \A d \in D : pc[d] \in {"destroy", "rename"} => vm[d] \in X
    BY Zenon
  <1> HIDE DEF X, D
  <1> QED
    BY <1>1, <1>2, <1>3, DirFrame, Zenon

LEMMA ReturnPlaced ==
    ASSUME TypeInv, NEW c \in Callers, Return(c) PROVE Others(c) /\ Placed(c)'
  <1>1. Others(c) /\ pc'[c] = "idle"
    BY ReturnLocals, Zenon
  <1> QED
    BY <1>1, Zenon DEF Placed, MadePcs, OwnPcs, PublishPcs

LEMMA BeginPlaced ==
    ASSUME TypeInv, NEW c \in Callers, NEW l, l = "compose" \/ l = "destroy", NEW id, NEW new,
           NEW ref, Begin(c, l, id, new, ref)
    PROVE  Others(c) /\ Placed(c)'
  <1>1. Others(c) /\ pc'[c] = l
    BY BeginLocals, Zenon
  <1> QED
    BY <1>1, Zenon DEF Placed, MadePcs, OwnPcs, PublishPcs

(* A create goes on with its directory made.                                *)
LEMMA DirOn ==
    ASSUME TypeInv, DirInv, NEW c \in Callers, Others(c), pc[c] \in MadePcs, pc'[c] \in MadePcs,
           vm'[c] = vm[c], UNCHANGED <<status, snapshots, stateDirs, snapFiles, stranded>>
    PROVE  DirInv'
  <1>1. pc[c] \notin {"destroy", "rename"} /\ pc'[c] # "rename"
    BY Zenon DEF MadePcs, OwnPcs, PublishPcs
  <1>2. Placed(c)'
    BY <1>1, Zenon DEF DirInv, Placed, Dir
  <1> QED
    BY <1>1, <1>2, DirCall, Zenon

LEMMA DirRest ==
    ASSUME TypeInv, DirInv, UNCHANGED <<pc, vm, dst>>, NEW X \in SUBSET VmIds,
           \A d \in Callers : pc[d] # "idle" => vm[d] \notin X /\ dst[d] \notin X,
           \A id \in VmIds \ X : Housekept(id),
           \A id \in X : status'[id] \in Live /\ ~InTransit(id)' => Stores(id)
    PROVE  DirInv'
  <1> DEFINE D == {}
  <1>1. /\ D \in SUBSET Callers
        /\ \A d \in Callers \ D : Stays(d) /\ (pc[d] # "idle" => vm[d] \notin X /\ dst[d] \notin X)
        /\ \A d \in D : Placed(d)' /\ (pc[d] \in {"destroy", "rename"} => vm[d] \in X)
    BY Zenon DEF Stays
  <1> HIDE DEF D
  <1> QED
    BY <1>1, DirFrame, Zenon

LEMMA DirQuiet ==
    ASSUME TypeInv, DirInv, UNCHANGED <<pc, vm, dst, snapshots, stateDirs, snapFiles, stranded>>,
           \A id \in VmIds : status'[id] \in Live => status[id] \in Live
    PROVE  DirInv'
  <1> DEFINE X == {}
  <1>1. /\ X \in SUBSET VmIds /\ \A id \in VmIds \ X : Housekept(id)
        /\ \A d \in Callers : pc[d] # "idle" => vm[d] \notin X /\ dst[d] \notin X
        /\ \A id \in X : status'[id] \in Live /\ ~InTransit(id)' => Stores(id)
    BY Zenon DEF Housekept
  <1> HIDE DEF X
  <1> QED
    BY <1>1, DirRest, Zenon

(* A call that works on the directories of ids a and b.                     *)
LEMMA DirPair ==
    ASSUME TypeInv, DirInv, NEW c \in Callers, Others(c), NEW a \in VmIds, NEW b \in VmIds,
           \A d \in Callers \ {c} : pc[d] # "idle" => vm[d] \notin {a, b} /\ dst[d] \notin {a, b},
           pc[c] \in {"destroy", "rename"} => vm[c] = a,
           \A id \in VmIds \ {a, b} : Housekept(id),
           status'[a] \in Live /\ ~InTransit(a)' => Stores(a),
           status'[b] \in Live /\ ~InTransit(b)' => Stores(b), Placed(c)'
    PROVE  DirInv'
  <1> DEFINE X == {a, b}
             D == {c}
  <1>1. \A d \in Callers \ D : Stays(d) /\ (pc[d] # "idle" => vm[d] \notin X /\ dst[d] \notin X)
    BY Zenon DEF Others, Stays
  <1>2. /\ D \in SUBSET Callers /\ X \in SUBSET VmIds /\ \A d \in D : Placed(d)'
        /\ \A id \in VmIds \ X : Housekept(id)
        /\ \A d \in D : pc[d] \in {"destroy", "rename"} => vm[d] \in X
    BY Zenon
  <1>3. \A id \in X : status'[id] \in Live /\ ~InTransit(id)' => Stores(id)
    BY Zenon
  <1> HIDE DEF X, D
  <1> QED
    BY <1>1, <1>2, <1>3, DirFrame, Zenon

(* No other call has an id of c's, as subject or as destination.            *)
LEMMA Apart ==
    ASSUME TypeInv, ClaimInv, NEW c \in Callers, pc[c] # "idle", NEW d \in Callers \ {c},
           pc[d] # "idle", NEW a \in VmIds, a \in {vm[c], dst[c]}
    PROVE  vm[d] # a /\ dst[d] # a
  BY Zenon DEF ClaimInv, Claims

(* A snapshot works on the directory of one live id, which no call has.     *)
LEMMA DirAt ==
    ASSUME TypeInv, ClaimInv, DirInv, UNCHANGED <<pc, vm, dst>>, writer = None, NEW id \in VmIds,
           status[id] \in Live, Stores(id), \A i \in VmIds \ {id} : Housekept(i)
    PROVE  DirInv'
  <1> DEFINE X == {id}
  <1>1. ASSUME NEW d \in Callers, pc[d] # "idle" PROVE vm[d] # id /\ dst[d] # id
    <2>1. pc[d] \notin {"destroy", "rename"}
      BY Zenon DEF ClaimInv
    <2>2. pc[d] \in CreatePcs /\ pc[d] # "rename"
      BY <1>1, <2>1, SockTypes, Zenon
    <2>3. status[vm[d]] = None /\ status[id] # None /\ dst[d] = None
      BY <2>2, Zenon DEF ClaimInv, Live, TypeInv, CallOK
    <2> QED
      BY <2>3, Zenon
  <1>2. /\ X \in SUBSET VmIds /\ \A i \in VmIds \ X : Housekept(i)
        /\ \A d \in Callers : pc[d] # "idle" => vm[d] \notin X /\ dst[d] \notin X
    BY <1>1, Zenon
  <1>3. \A i \in X : status'[i] \in Live /\ ~InTransit(i)' => Stores(i)
    BY Zenon
  <1> HIDE DEF X
  <1> QED
    BY <1>2, <1>3, DirRest, Zenon

LEMMA DirStep ==
    ASSUME OneOwnerPerId, DistinctDirs, TypeInv, ClaimInv, DirInv, [Next]_vars PROVE DirInv'
  <1>1. ASSUME NEW c \in Callers, NEW id \in VmIds, NEW ref \in SnapshotRefs \cup {None}, CreateCheck(c, id, ref)
        PROVE DirInv'
    <2>1. /\ pc[c] = "idle" /\ Begin(c, "compose", id, None, ref)
          /\ UNCHANGED <<status, snapshots, stateDirs, snapFiles, stranded>>
      BY <1>1, Zenon DEF CreateCheck
    <2>2. Others(c) /\ Placed(c)'
      BY <2>1, BeginPlaced, Zenon
    <2>3. pc[c] \notin {"destroy", "rename"}
      BY <2>1, Zenon
    <2> QED
      BY <2>1, <2>2, <2>3, DirCall, Zenon
  <1>2. ASSUME NEW c \in Callers, NEW r \in Primitives, Attach(c, r) PROVE DirInv'
    <2>1. /\ pc[c] = "compose" /\ UNCHANGED <<pc, vm, dst>>
          /\ UNCHANGED <<status, snapshots, stateDirs, snapFiles, stranded>>
      BY <1>2, Zenon DEF Attach
    <2> QED
      BY <2>1, DirQuiet, Zenon
  <1>3. ASSUME NEW c \in Callers, NEW r \in Primitives, ComposeFail(c, r) PROVE DirInv'
    <2>1. /\ pc[c] \notin {"destroy", "rename"} /\ Return(c)
          /\ UNCHANGED <<status, snapshots, stateDirs, snapFiles, stranded>>
      BY <1>3, Zenon DEF ComposeFail
    <2> QED
      BY <2>1, ReturnPlaced, DirCall, Zenon
  <1>4. ASSUME NEW c \in Callers, MakeStateDir(c) PROVE DirInv'
    <2>1. /\ pc[c] = "compose" /\ pc' = [pc EXCEPT ![c] = "spawn"] /\ UNCHANGED <<vm, dst, child>>
          /\ stateDirs' = stateDirs \cup {Dir(vm[c])} /\ UNCHANGED <<status, snapshots, snapFiles, stranded>>
      BY <1>4, Zenon DEF MakeStateDir, Goto
    <2>2. Others(c) /\ pc'[c] = "spawn"
      BY <2>1, GotoLocals, Zenon
    <2>3. vm[c] \in VmIds /\ status'[vm[c]] \notin Live
      BY <2>1, SockTypes, Zenon DEF ClaimInv, Live, CreatePcs
    <2>4. ASSUME NEW id \in VmIds \ {vm[c], vm[c]} PROVE Housekept(id)
      <3>1. Dir(id) # Dir(vm[c])
        BY <2>3, OtherDirs, Zenon
      <3> QED
        BY <2>1, <3>1, Zenon DEF Housekept
    <2>5. Placed(c)'
      BY <2>1, <2>2, Zenon DEF Placed, Dir
    <2>6. \A d \in Callers \ {c} : pc[d] # "idle" => vm[d] \notin {vm[c], vm[c]} /\ dst[d] \notin {vm[c], vm[c]}
      BY <2>1, <2>3, Apart, Zenon
    <2> QED
      BY <2>1, <2>2, <2>3, <2>4, <2>5, <2>6, DirPair, Zenon
  <1>5. ASSUME NEW c \in Callers, SpawnFail(c) PROVE DirInv'
    <2>1. /\ pc[c] \notin {"destroy", "rename"} /\ Return(c)
          /\ UNCHANGED <<status, snapshots, stateDirs, snapFiles, stranded>>
      BY <1>5, Zenon DEF SpawnFail
    <2> QED
      BY <2>1, ReturnPlaced, DirCall, Zenon
  <1>6. ASSUME NEW c \in Callers, NEW p \in Procs, Spawn(c, p) PROVE DirInv'
    <2>1. /\ pc[c] = "spawn" /\ pc' = [pc EXCEPT ![c] = "wait"] /\ child' = [child EXCEPT ![c] = p]
          /\ UNCHANGED <<vm, dst>> /\ UNCHANGED <<status, snapshots, stateDirs, snapFiles, stranded>>
      BY <1>6, Zenon DEF Spawn
    <2>2. Others(c) /\ pc'[c] = "wait"
      BY <2>1, SockTypes, Zenon DEF Others
    <2>3. pc[c] \in MadePcs /\ pc'[c] \in MadePcs
      BY <2>1, <2>2, Zenon DEF MadePcs, OwnPcs
    <2> QED
      BY <2>1, <2>2, <2>3, DirOn, Zenon
  <1>7. ASSUME NEW c \in Callers, WaitReady(c) PROVE DirInv'
    <2>1. /\ pc[c] = "wait" /\ pc' = [pc EXCEPT ![c] = IF src[c] = None THEN "configure" ELSE "check"]
          /\ UNCHANGED <<vm, dst, child>> /\ UNCHANGED <<status, snapshots, stateDirs, snapFiles, stranded>>
      BY <1>7, Zenon DEF WaitReady, Goto
    <2>2. Others(c) /\ pc'[c] = IF src[c] = None THEN "configure" ELSE "check"
      BY <2>1, GotoLocals, Zenon
    <2>3. pc[c] \in MadePcs /\ pc'[c] \in MadePcs
      BY <2>1, <2>2, Zenon DEF MadePcs, OwnPcs, PublishPcs
    <2> QED
      BY <2>1, <2>2, <2>3, DirOn, Zenon
  <1>8. ASSUME NEW c \in Callers, Configure(c) PROVE DirInv'
    <2>1. /\ pc[c] = "configure" /\ pc' = [pc EXCEPT ![c] = "console"]
          /\ UNCHANGED <<vm, dst, child>> /\ UNCHANGED <<status, snapshots, stateDirs, snapFiles, stranded>>
      BY <1>8, Zenon DEF Configure, Goto
    <2>2. Others(c) /\ pc'[c] = "console"
      BY <2>1, GotoLocals, Zenon
    <2>3. pc[c] \in MadePcs /\ pc'[c] \in MadePcs
      BY <2>1, <2>2, Zenon DEF MadePcs, OwnPcs, PublishPcs
    <2> QED
      BY <2>1, <2>2, <2>3, DirOn, Zenon
  <1>9. ASSUME NEW c \in Callers, LoadCheck(c) PROVE DirInv'
    <2>1. /\ pc[c] = "check" /\ pc' = [pc EXCEPT ![c] = "load"]
          /\ UNCHANGED <<vm, dst, child>> /\ UNCHANGED <<status, snapshots, stateDirs, snapFiles, stranded>>
      BY <1>9, Zenon DEF LoadCheck, Goto
    <2>2. Others(c) /\ pc'[c] = "load"
      BY <2>1, GotoLocals, Zenon
    <2>3. pc[c] \in MadePcs /\ pc'[c] \in MadePcs
      BY <2>1, <2>2, Zenon DEF MadePcs, OwnPcs, PublishPcs
    <2> QED
      BY <2>1, <2>2, <2>3, DirOn, Zenon
  <1>10. ASSUME NEW c \in Callers, LoadRequest(c) PROVE DirInv'
    <2>1. /\ pc[c] = "load" /\ pc' = [pc EXCEPT ![c] = "console"]
          /\ UNCHANGED <<vm, dst, child>> /\ UNCHANGED <<status, snapshots, stateDirs, snapFiles, stranded>>
      BY <1>10, Zenon DEF LoadRequest, Goto
    <2>2. Others(c) /\ pc'[c] = "console"
      BY <2>1, GotoLocals, Zenon
    <2>3. pc[c] \in MadePcs /\ pc'[c] \in MadePcs
      BY <2>1, <2>2, Zenon DEF MadePcs, OwnPcs, PublishPcs
    <2> QED
      BY <2>1, <2>2, <2>3, DirOn, Zenon
  <1>11. ASSUME NEW c \in Callers, CreateFail(c) PROVE DirInv'
    <2>1. /\ pc[c] \notin {"destroy", "rename"} /\ Return(c)
          /\ UNCHANGED <<status, snapshots, stateDirs, snapFiles, stranded>>
      BY <1>11, Zenon DEF CreateFail, Fallible
    <2> QED
      BY <2>1, ReturnPlaced, DirCall, Zenon
  <1>12a. ASSUME NEW c \in Callers, PublishConsole(c) PROVE DirInv'
    <2>1. /\ pc[c] = "console" /\ pc' = [pc EXCEPT ![c] = "process"]
          /\ UNCHANGED <<vm, dst, child>> /\ UNCHANGED <<status, snapshots, stateDirs, snapFiles, stranded>>
      BY <1>12a, Zenon DEF PublishConsole, Goto
    <2>2. Others(c) /\ pc'[c] = "process"
      BY <2>1, GotoLocals, Zenon
    <2>3. pc[c] \in MadePcs /\ pc'[c] \in MadePcs
      BY <2>1, <2>2, Zenon DEF MadePcs, OwnPcs, PublishPcs
    <2> QED
      BY <2>1, <2>2, <2>3, DirOn, Zenon
  <1>12. ASSUME NEW c \in Callers, PublishProcess(c) PROVE DirInv'
    <2>1. /\ pc[c] = "process" /\ pc' = [pc EXCEPT ![c] = "handler"]
          /\ UNCHANGED <<vm, dst, child>> /\ UNCHANGED <<status, snapshots, stateDirs, snapFiles, stranded>>
      BY <1>12, Zenon DEF PublishProcess, Goto
    <2>2. Others(c) /\ pc'[c] = "handler"
      BY <2>1, GotoLocals, Zenon
    <2>3. pc[c] \in MadePcs /\ pc'[c] \in MadePcs
      BY <2>1, <2>2, Zenon DEF MadePcs, OwnPcs, PublishPcs
    <2> QED
      BY <2>1, <2>2, <2>3, DirOn, Zenon
  <1>12b. ASSUME NEW c \in Callers, PublishHandler(c) PROVE DirInv'
    <2>1. /\ pc[c] = "handler" /\ pc' = [pc EXCEPT ![c] = "attachments"]
          /\ UNCHANGED <<vm, dst, child>> /\ UNCHANGED <<status, snapshots, stateDirs, snapFiles, stranded>>
      BY <1>12b, Zenon DEF PublishHandler, Goto
    <2>2. Others(c) /\ pc'[c] = "attachments"
      BY <2>1, GotoLocals, Zenon
    <2>3. pc[c] \in MadePcs /\ pc'[c] \in MadePcs
      BY <2>1, <2>2, Zenon DEF MadePcs, OwnPcs, PublishPcs
    <2> QED
      BY <2>1, <2>2, <2>3, DirOn, Zenon
  <1>13. ASSUME NEW c \in Callers, PublishAttachments(c) PROVE DirInv'
    <2>1. /\ pc[c] = "attachments" /\ pc' = [pc EXCEPT ![c] = "record"]
          /\ UNCHANGED <<vm, dst, child>> /\ UNCHANGED <<status, snapshots, stateDirs, snapFiles, stranded>>
      BY <1>13, Zenon DEF PublishAttachments
    <2>2. Others(c) /\ pc'[c] = "record"
      BY <2>1, GotoLocals, Zenon
    <2>3. pc[c] \in MadePcs /\ pc'[c] \in MadePcs
      BY <2>1, <2>2, Zenon DEF MadePcs, OwnPcs, PublishPcs
    <2> QED
      BY <2>1, <2>2, <2>3, DirOn, Zenon
  <1>14. ASSUME NEW c \in Callers, InsertRecord(c) PROVE DirInv'
    <2>1. /\ pc[c] = "record" /\ Return(c) /\ UNCHANGED <<stateDirs, snapFiles, stranded>>
          /\ status' = [status EXCEPT ![vm[c]] = InitialStatus(c)]
          /\ snapshots' = [snapshots EXCEPT ![vm[c]] = {}]
      BY <1>14, Zenon DEF InsertRecord
    <2>2. Others(c) /\ Placed(c)'
      BY <2>1, ReturnPlaced, Zenon
    <2>3. vm[c] \in VmIds /\ Dir(vm[c]) \in stateDirs
      BY <2>1, SockTypes, Zenon DEF DirInv, Placed, MadePcs, PublishPcs
    <2>4. ASSUME NEW id \in VmIds \ {vm[c], vm[c]} PROVE Housekept(id)
      <3>1. status'[id] = status[id] /\ snapshots'[id] = snapshots[id]
        BY <2>1, SockTypes, DirTypes, Zenon
      <3> QED
        BY <2>1, <3>1, Zenon DEF Housekept
    <2>5. Stores(vm[c])
      <3>1. snapshots'[vm[c]] = {}
        BY <2>1, <2>3, DirTypes, Zenon
      <3> QED
        BY <2>1, <2>3, <3>1, Zenon DEF Stores
    <2>6. \A d \in Callers \ {c} : pc[d] # "idle" => vm[d] \notin {vm[c], vm[c]} /\ dst[d] \notin {vm[c], vm[c]}
      BY <2>1, <2>3, Apart, Zenon
    <2> QED
      BY <2>1, <2>2, <2>3, <2>4, <2>5, <2>6, DirPair, Zenon
  <1>15. ASSUME NEW c \in Callers, NEW id \in VmIds, DestroyKill(c, id) PROVE DirInv'
    <2>1. /\ pc[c] = "idle" /\ Begin(c, "destroy", id, None, None)
          /\ UNCHANGED <<status, snapshots, stateDirs, snapFiles, stranded>>
      BY <1>15, Zenon DEF DestroyKill
    <2>2. Others(c) /\ Placed(c)'
      BY <2>1, BeginPlaced, Zenon
    <2>3. pc[c] \notin {"destroy", "rename"}
      BY <2>1, Zenon
    <2> QED
      BY <2>1, <2>2, <2>3, DirCall, Zenon
  <1>16. ASSUME NEW c \in Callers, DestroyRemove(c) PROVE DirInv'
    <2>1. /\ pc[c] = "destroy" /\ Return(c) /\ UNCHANGED <<snapshots, stranded>>
          /\ status' = [status EXCEPT ![vm[c]] = "Destroyed"]
          /\ stateDirs' = stateDirs \/ stateDirs' = stateDirs \ {Dir(vm[c])}
          /\ \E files : snapFiles' = [snapFiles EXCEPT ![Dir(vm[c])] = files]
      BY <1>16, Zenon DEF DestroyRemove, RemoveDirs
    <2>2. Others(c) /\ Placed(c)'
      BY <2>1, ReturnPlaced, Zenon
    <2>3. vm[c] \in VmIds
      BY <2>1, SockTypes, Zenon
    <2>4. status'[vm[c]] \notin Live
      BY <2>1, <2>3, SockTypes, Zenon DEF Live
    <2>5. ASSUME NEW id \in VmIds \ {vm[c], vm[c]} PROVE Housekept(id)
      <3>1. Dir(id) # Dir(vm[c]) /\ Dir(id) \in SafeIds
        BY <2>3, OtherDirs, SockTypes, Zenon
      <3>2. status'[id] = status[id]
        BY <2>1, SockTypes, Zenon
      <3>3. snapFiles'[Dir(id)] = snapFiles[Dir(id)]
        BY <2>1, <3>1, DirTypes, Zenon
      <3> QED
        BY <2>1, <3>1, <3>2, <3>3, Zenon DEF Housekept
    <2>6. \A d \in Callers \ {c} : pc[d] # "idle" => vm[d] \notin {vm[c], vm[c]} /\ dst[d] \notin {vm[c], vm[c]}
      BY <2>1, <2>3, Apart, Zenon
    <2> QED
      BY <2>2, <2>3, <2>4, <2>5, <2>6, DirPair, Zenon
  <1>17. ASSUME NEW c \in Callers, NEW old \in VmIds, NEW new \in VmIds, RenameStateDir(c, old, new)
         PROVE DirInv'
    <2>1. /\ pc[c] = "idle" /\ Begin(c, "rename", old, new, None) /\ writer = None
          /\ old # new /\ status[new] = None /\ status[old] \in Live
          /\ stateDirs' = (stateDirs \ {Dir(old)}) \cup {Dir(new)}
          /\ snapFiles' = [snapFiles EXCEPT ![Dir(new)] = snapFiles[Dir(old)], ![Dir(old)] = {}]
          /\ UNCHANGED <<status, snapshots, stranded>>
      BY <1>17, Zenon DEF RenameStateDir, MoveName, MoveEntry
    <2>2. Others(c) /\ pc'[c] = "rename" /\ vm'[c] = old /\ dst'[c] = new
      BY <2>1, BeginLocals, Zenon
    <2>3. /\ Dir(old) \in SafeIds /\ Dir(new) \in SafeIds /\ Dir(old) # Dir(new)
      BY <2>1, OtherDirs, SockTypes, Zenon
    <2>4. Stored(old)
      <3>1. ~InTransit(old)
        BY <2>1, Zenon DEF InTransit, ClaimInv
      <3> QED
        BY <2>1, <3>1, Zenon DEF DirInv
    <2>5. snapFiles'[Dir(new)] = snapFiles[Dir(old)]
      BY <2>1, <2>3, DirTypes, Zenon
    <2>6. Placed(c)'
      <3>1. Moved(c)'
        BY <2>1, <2>2, <2>3, <2>4, <2>5, Zenon DEF Moved, Stored, Dir
      <3> QED
        BY <2>2, <3>1, Zenon DEF Placed, MadePcs, OwnPcs, PublishPcs
    <2>7. InTransit(old)' /\ status'[new] \notin Live
      BY <2>1, <2>2, Zenon DEF InTransit, Live
    <2>8. ASSUME NEW id \in VmIds \ {old, new} PROVE Housekept(id)
      <3>1. Dir(id) # Dir(old) /\ Dir(id) # Dir(new) /\ Dir(id) \in SafeIds
        BY OtherDirs, SockTypes, Zenon
      <3>2. snapFiles'[Dir(id)] = snapFiles[Dir(id)]
        BY <2>1, <3>1, DirTypes, Zenon
      <3> QED
        BY <2>1, <3>1, <3>2, Zenon DEF Housekept
    <2>9. \A d \in Callers \ {c} : pc[d] # "idle" => vm[d] \notin {old, new} /\ dst[d] \notin {old, new}
      <3> SUFFICES ASSUME NEW d \in Callers \ {c}, pc[d] # "idle"
                   PROVE  vm[d] \notin {old, new} /\ dst[d] \notin {old, new}
        BY Zenon
      <3>1. ~Claims(d, old) /\ ~Claims(d, new)
        BY <1>17, Zenon DEF RenameStateDir, Unclaimed
      <3> QED
        BY <3>1, Zenon DEF Claims
    <2> QED
      BY <2>1, <2>2, <2>6, <2>7, <2>8, <2>9, DirPair, Zenon
  <1>18. ASSUME NEW c \in Callers, RenameHolder(c) PROVE DirInv'
    <2>1. /\ pc[c] = "rename" /\ Return(c) /\ UNCHANGED <<stateDirs, snapFiles>>
          /\ status' = [status EXCEPT ![dst[c]] = status[vm[c]], ![vm[c]] = None]
          /\ snapshots' = [snapshots EXCEPT ![dst[c]] = snapshots[vm[c]], ![vm[c]] = {}]
          /\ stranded' = IF vm[c] \in stranded
                         THEN (stranded \ {vm[c]}) \cup {dst[c]} ELSE stranded
      BY <1>18, Zenon DEF RenameHolder, MoveEntry, MoveName
    <2>2. Others(c) /\ Placed(c)'
      BY <2>1, ReturnPlaced, Zenon
    <2>3. vm[c] \in VmIds /\ dst[c] \in VmIds /\ dst[c] # vm[c]
      BY <2>1, Zenon DEF TypeInv, CallOK
    <2>4. Moved(c)
      BY <2>1, Zenon DEF DirInv, Placed
    <2>5. status'[vm[c]] \notin Live /\ \A id \in VmIds \ {vm[c], dst[c]} : status'[id] = status[id]
      BY <2>1, <2>3, SockTypes, Zenon DEF Live
    <2>6. /\ snapshots'[dst[c]] = snapshots[vm[c]]
          /\ \A id \in VmIds \ {vm[c], dst[c]} : snapshots'[id] = snapshots[id]
      BY <2>1, <2>3, DirTypes, Zenon
    <2>7. Stores(dst[c])
      <3>1. dst[c] \notin stranded' => vm[c] \notin stranded
        BY <2>1, Zenon
      <3> QED
        BY <2>1, <2>4, <2>6, <3>1, Zenon DEF Moved, Stores
    <2>8. \A id \in VmIds \ {vm[c], dst[c]} : Housekept(id)
      BY <2>1, <2>5, <2>6, Zenon DEF Housekept
    <2>9. \A d \in Callers \ {c} : pc[d] # "idle" => vm[d] \notin {vm[c], dst[c]} /\ dst[d] \notin {vm[c], dst[c]}
      BY <2>1, <2>3, Apart, Zenon
    <2> QED
      BY <2>2, <2>3, <2>5, <2>7, <2>8, <2>9, DirPair, Zenon
  <1>19. ASSUME NEW c \in Callers, RenameRollback(c) PROVE DirInv'
    <2>1. /\ pc[c] = "rename" /\ Return(c) /\ UNCHANGED <<status, snapshots>>
      BY <1>19, Zenon DEF RenameRollback
    <2>2. Others(c) /\ Placed(c)'
      BY <2>1, ReturnPlaced, Zenon
    <2>3. vm[c] \in VmIds /\ dst[c] \in VmIds /\ dst[c] # vm[c] /\ status'[dst[c]] \notin Live
      BY <2>1, Zenon DEF TypeInv, CallOK, ClaimInv, Live
    <2>4. Moved(c)
      BY <2>1, Zenon DEF DirInv, Placed
    <2>5. \A d \in Callers \ {c} : pc[d] # "idle" => vm[d] \notin {vm[c], dst[c]} /\ dst[d] \notin {vm[c], dst[c]}
      BY <2>1, <2>3, Apart, Zenon
    <2>6. Stores(vm[c]) /\ \A id \in VmIds \ {vm[c], dst[c]} : Housekept(id)
      <3>1. CASE /\ stateDirs' = (stateDirs \ {Dir(dst[c])}) \cup {Dir(vm[c])} /\ stranded' = stranded
                 /\ snapFiles' = [snapFiles EXCEPT ![Dir(vm[c])] = snapFiles[Dir(dst[c])],
                                                  ![Dir(dst[c])] = {}]
        <4>1. Dir(vm[c]) \in SafeIds /\ Dir(dst[c]) \in SafeIds /\ Dir(vm[c]) # Dir(dst[c])
          BY <2>3, OtherDirs, SockTypes, Zenon
        <4>2. snapFiles'[Dir(vm[c])] = snapFiles[Dir(dst[c])]
          BY <3>1, <4>1, DirTypes, Zenon
        <4>3. Stores(vm[c])
          BY <2>1, <2>4, <3>1, <4>2, Zenon DEF Moved, Stores
        <4>4. ASSUME NEW id \in VmIds \ {vm[c], dst[c]} PROVE Housekept(id)
          <5>1. Dir(id) # Dir(vm[c]) /\ Dir(id) # Dir(dst[c]) /\ Dir(id) \in SafeIds
            BY <2>3, OtherDirs, SockTypes, Zenon
          <5>2. snapFiles'[Dir(id)] = snapFiles[Dir(id)]
            BY <3>1, <5>1, DirTypes, Zenon
          <5> QED
            BY <2>1, <3>1, <5>1, <5>2, Zenon DEF Housekept
        <4> QED
          BY <4>3, <4>4, Zenon
      <3>2. CASE stranded' = stranded \cup {vm[c]} /\ UNCHANGED <<stateDirs, snapFiles>>
        BY <2>1, <3>2, Zenon DEF Stores, Housekept
      <3> QED
        BY <1>19, <3>1, <3>2, Zenon DEF RenameRollback, MoveName, MoveEntry
    <2> QED
      BY <2>2, <2>3, <2>5, <2>6, DirPair, Zenon
  <1>20. ASSUME NEW c \in Callers, Bind(c) PROVE DirInv'
    <2>1. UNCHANGED <<pc, vm, dst>> /\ UNCHANGED <<status, snapshots, stateDirs, snapFiles, stranded>>
      BY <1>20, Zenon DEF Bind
    <2> QED
      BY <2>1, DirQuiet, Zenon
  <1>21. ASSUME NEW id \in VmIds, NEW replied \in BOOLEAN, StartVm(id, replied) PROVE DirInv'
    <2>1. UNCHANGED <<pc, vm, dst, snapshots, stateDirs, snapFiles, stranded>> /\ status[id] \in Live
      BY <1>21, Zenon DEF StartVm, Live
    <2>2. \A i \in VmIds : i # id => status'[i] = status[i]
      BY <1>21, SockTypes, Zenon DEF StartVm, Execute
    <2> QED
      BY <2>1, <2>2, DirQuiet, Zenon
  <1>22. ASSUME NEW id \in VmIds, NEW replied \in BOOLEAN, StopVm(id, replied) PROVE DirInv'
    <2>1. UNCHANGED <<pc, vm, dst, snapshots, stateDirs, snapFiles, stranded>> /\ status[id] \in Live
      BY <1>22, Zenon DEF StopVm, Live
    <2>2. \A i \in VmIds : i # id => status'[i] = status[i]
      BY <1>22, SockTypes, Zenon DEF StopVm, Execute
    <2> QED
      BY <2>1, <2>2, DirQuiet, Zenon
  <1>23. ASSUME NEW id \in VmIds, NEW s \in Snaps, SnapshotVm(id, s) PROVE DirInv'
    <2>1. /\ writer = None /\ status[id] \in Live /\ s \notin snapshots[id]
          /\ stateDirs' = stateDirs \cup {Dir(id)} /\ UNCHANGED <<pc, vm, dst, status, stranded>>
      BY <1>23, Zenon DEF SnapshotVm, MaySnapshot
    <2>2. /\ snapFiles' = [snapFiles EXCEPT ![Dir(id)] = @ \cup {s}]
          /\ snapshots' = [snapshots EXCEPT ![id] = @ \cup {s}]
      BY <1>23, Zenon DEF SnapshotVm
    <2>3. Dir(id) \in SafeIds /\ Stored(id)
      <3>1. ~InTransit(id)
        BY <2>1, Zenon DEF InTransit, ClaimInv
      <3> QED
        BY <2>1, <3>1, SockTypes, Zenon DEF DirInv
    <2>4. snapFiles'[Dir(id)] = snapFiles[Dir(id)] \cup {s} /\ snapshots'[id] = snapshots[id] \cup {s}
      BY <2>2, <2>3, DirTypes, Zenon
    <2>5. Stores(id)
      BY <2>1, <2>3, <2>4, Zenon DEF Stored, Stores
    <2>6. ASSUME NEW i \in VmIds \ {id} PROVE Housekept(i)
      <3>1. Dir(i) # Dir(id) /\ Dir(i) \in SafeIds
        BY OtherDirs, SockTypes, Zenon
      <3>2. snapFiles'[Dir(i)] = snapFiles[Dir(i)] /\ snapshots'[i] = snapshots[i]
        BY <2>2, <3>1, DirTypes, Zenon
      <3> QED
        BY <2>1, <3>1, <3>2, Zenon DEF Housekept
    <2> QED
      BY <2>1, <2>5, <2>6, DirAt, Zenon
  <1>24. ASSUME NEW id \in VmIds, NEW s \in Snaps, SnapshotFail(id, s) PROVE DirInv'
    <2>1. /\ writer = None /\ status[id] \in Live /\ s \notin snapshots[id]
          /\ stateDirs' = stateDirs \cup {Dir(id)} /\ UNCHANGED <<pc, vm, dst, status, stranded>>
      BY <1>24, Zenon DEF SnapshotFail, MaySnapshot
    <2>2. /\ UNCHANGED snapshots
          /\ \/ snapFiles' = [snapFiles EXCEPT ![Dir(id)] = @ \ {s}]
             \/ snapFiles' = [snapFiles EXCEPT ![Dir(id)] = @ \cup {s}]
      BY <1>24, Zenon DEF SnapshotFail
    <2>3. Dir(id) \in SafeIds /\ Stored(id)
      <3>1. ~InTransit(id)
        BY <2>1, Zenon DEF InTransit, ClaimInv
      <3> QED
        BY <2>1, <3>1, SockTypes, Zenon DEF DirInv
    <2>4. \/ snapFiles'[Dir(id)] = snapFiles[Dir(id)] \ {s}
          \/ snapFiles'[Dir(id)] = snapFiles[Dir(id)] \cup {s}
      BY <2>2, <2>3, DirTypes, Zenon
    <2>5. Stores(id)
      BY <2>1, <2>2, <2>3, <2>4, Zenon DEF Stored, Stores
    <2>6. ASSUME NEW i \in VmIds \ {id} PROVE Housekept(i)
      <3>1. Dir(i) # Dir(id) /\ Dir(i) \in SafeIds
        BY OtherDirs, SockTypes, Zenon
      <3>2. snapFiles'[Dir(i)] = snapFiles[Dir(i)] /\ snapshots'[i] = snapshots[i]
        BY <2>2, <3>1, DirTypes, Zenon
      <3> QED
        BY <2>1, <3>1, <3>2, Zenon DEF Housekept
    <2> QED
      BY <2>1, <2>5, <2>6, DirAt, Zenon
  <1>25. ASSUME NEW p \in Procs, PagerOpen(p) PROVE DirInv'
    <2>1. UNCHANGED <<pc, vm, dst>> /\ UNCHANGED <<status, snapshots, stateDirs, snapFiles, stranded>>
      BY <1>25, Zenon DEF PagerOpen
    <2> QED
      BY <2>1, DirQuiet, Zenon
  <1>26. ASSUME NEW p \in Procs, ProcessExit(p) PROVE DirInv'
    <2>1. UNCHANGED <<pc, vm, dst>> /\ UNCHANGED <<status, snapshots, stateDirs, snapFiles, stranded>>
      BY <1>26, Zenon DEF ProcessExit
    <2> QED
      BY <2>1, DirQuiet, Zenon
  <1>27. CASE UNCHANGED vars
    <2>1. UNCHANGED <<pc, vm, dst>> /\ UNCHANGED <<status, snapshots, stateDirs, snapFiles, stranded>>
      BY <1>27, Zenon DEF vars
    <2> QED
      BY <2>1, DirQuiet, Zenon
  <1> QED
    BY <1>1, <1>2, <1>3, <1>4, <1>5, <1>6, <1>7, <1>8, <1>9, <1>10, <1>11, <1>12a, <1>12,
       <1>12b, <1>13, <1>14, <1>15, <1>16, <1>17, <1>18, <1>19, <1>20, <1>21, <1>22, <1>23, <1>24, <1>25,
       <1>26, <1>27, Zenon DEF Next, CallBegin, CallStep, CreateBegin

-----------------------------------------------------------------------------
LEMMA SocksHold ==
    ASSUME OneOwnerPerId, DistinctDirs
    PROVE  Spec => [](TypeInv /\ ClaimInv /\ ProcInv /\ SockInv /\ HelperInv /\ GuestInv)
  <1>1. /\ TypeInv /\ TypeInv' /\ ClaimInv /\ ProcInv
        /\ SockInv /\ HelperInv /\ GuestInv /\ [Next]_vars
        => SockInv' /\ HelperInv' /\ GuestInv'
    BY SockStep, HelperStep, GuestStep, Zenon
  <1> QED
    BY <1>1, InitSocks, ClaimsHold, ProcsHold, PTL DEF Spec

LEMMA DirsHold == ASSUME OneOwnerPerId, DistinctDirs PROVE Spec => []DirInv
  <1>1. TypeInv /\ ClaimInv /\ DirInv /\ [Next]_vars => DirInv'
    BY DirStep, Zenon
  <1> QED
    BY <1>1, InitDirs, ClaimsHold, PTL DEF Spec

LEMMA SocksServe == ClaimInv /\ SockInv /\ HelperInv => OwnSocket
  <1> SUFFICES ASSUME ClaimInv, SockInv, HelperInv, NEW id \in VmIds,
                      status[id] \in Live, ~InTransit(id)
               PROVE  /\ Served(id)
                      /\ consoles[id] = ConsoleOf(processes[id])
                      /\ uffd_handlers[id] \in {None, processes[id]}
    BY Zenon DEF OwnSocket, Served, ConsoleOf
  <1>1. Served(id)
    BY Zenon DEF SockInv, Settled, InTransit
  <1>2. \A c \in Callers : pc[c] = "process" => vm[c] # id
    <2>1. \A c \in Callers : pc[c] = "process" => status[vm[c]] = None
      BY Zenon DEF ClaimInv, CreatePcs
    <2> QED
      BY <2>1, Zenon DEF Live
  <1> QED
    BY <1>1, <1>2, Zenon DEF HelperInv

LEMMA GuestsTracked == GuestInv => StatusTracksGuest
  BY Zenon DEF GuestInv, Tracks, StatusTracksGuest

(* With one owner per id and a directory name per id, the socket at the     *)
(* path of a live VM was bound by the process filed under its id, and so    *)
(* are its console and page-fault handler: create_vm, rename_vm and         *)
(* destroy_vm never leave one VM's requests to another VM's process.        *)
THEOREM OwnSocketHolds ==
    ASSUME OneOwnerPerId, DistinctDirs PROVE Spec => []OwnSocket
  BY SocksServe, SocksHold, PTL

(* Under the same assumptions the status in the table tells what the guest  *)
(* of a live VM does, or lags by the one request whose reply was lost.      *)
THEOREM StatusTracksGuestHolds ==
    ASSUME OneOwnerPerId, DistinctDirs PROVE Spec => []StatusTracksGuest
  BY GuestsTracked, SocksHold, PTL

LEMMA DirsBack == DirInv => SnapshotsBacked
  BY Zenon DEF DirInv, Stored, Placed, Moved, SnapshotsBacked

(* Under the same assumptions every snapshot that a live record lists has   *)
(* its files in the directory the record addresses, through snapshots that  *)
(* fail, renames, and renames that fail and are rolled back.                *)
THEOREM SnapshotsBackedHolds ==
    ASSUME OneOwnerPerId, DistinctDirs PROVE Spec => []SnapshotsBacked
  BY DirsBack, DirsHold, PTL
=============================================================================
