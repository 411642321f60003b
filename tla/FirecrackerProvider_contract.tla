-------------------- MODULE FirecrackerProvider_contract --------------------
(***************************************************************************)
(* FirecrackerProvider is type correct, for any sets of ids, snapshots,    *)
(* processes and callers and any composer configuration; and it implements *)
(* the contract of the VmProvider trait, and loses no process, when no two *)
(* calls in flight claim one id.                                           *)
(***************************************************************************)
EXTENDS FirecrackerProvider, TLAPS

ChildPcs == {"wait", "configure", "check", "load", "console", "process", "handler",
             "attachments", "record"}

(* What the local variables of a call hold at each point of its operation.  *)
CallOK(c) ==
    /\ pc[c] = "idle" => vm[c] = None
    /\ pc[c] # "idle" => vm[c] \in VmIds
    /\ pc[c] = "rename" => dst[c] \in VmIds /\ dst[c] # vm[c]
    /\ pc[c] # "rename" => dst[c] = None
    /\ pc[c] \in {"check", "load"} => src[c] # None
    /\ pc[c] \in ChildPcs => child[c] \in Procs
    /\ pc[c] \notin ChildPcs => child[c] = None
    /\ pc[c] \in {"idle", "record", "destroy", "rename"} => held[c] = {}

TypeInv == TypeOK /\ \A c \in Callers : CallOK(c)

USE SafeIdAssumption, ConfigAssumption, NoneAssumption
USE DEF config, table, maps, disk, pagers, args, calls, ghosts

LEMMA InitType == Init => TypeInv
  BY DEF Init, TypeInv, TypeOK, CallOK, ChildPcs, CreatePcs, Live, Features, Primitives

CallTypes ==
    /\ pc \in [Callers -> CreatePcs \cup {"idle", "destroy", "rename"}]
    /\ vm \in [Callers -> VmIds \cup {None}]
    /\ dst \in [Callers -> VmIds \cup {None}]
    /\ src \in [Callers -> SnapshotRefs \cup {None}]
    /\ child \in [Callers -> Procs \cup {None}]
    /\ held \in [Callers -> SUBSET Primitives]

(* What the steps shared by several actions do to the types.                *)
LEMMA ReturnTypes ==
    ASSUME TypeInv, NEW c \in Callers, Return(c) PROVE CallTypes'
  BY Zenon DEF TypeInv, TypeOK, CallTypes, Return

LEMMA ReturnCalls ==
    ASSUME TypeInv, NEW c \in Callers, Return(c), NEW d \in Callers PROVE CallOK(d)'
  BY DEF TypeInv, TypeOK, CallOK, ChildPcs, CreatePcs, Return

LEMMA GotoCalls ==
    ASSUME TypeInv, NEW c \in Callers, NEW l \in ChildPcs \ {"record"}, Goto(c, l),
           pc[c] \in ChildPcs, l \in {"check", "load"} => src[c] # None, NEW d \in Callers
    PROVE  CallOK(d)'
  BY DEF TypeInv, TypeOK, CallOK, ChildPcs, CreatePcs, Goto

LEMMA RenameCalls ==
    ASSUME TypeInv, NEW c \in Callers, NEW old \in VmIds, NEW new \in VmIds, old # new,
           pc[c] = "idle", Begin(c, "rename", old, new, None), NEW d \in Callers
    PROVE  CallOK(d)'
  BY DEF TypeInv, TypeOK, CallOK, ChildPcs, CreatePcs, Begin

LEMMA MoveEntryType ==
    ASSUME NEW I, NEW T, NEW f \in [I -> T], NEW from \in I, NEW to \in I, NEW e \in T
    PROVE  MoveEntry(f, from, to, e) \in [I -> T]
  BY Zenon DEF MoveEntry

LEMMA ReleaseTypes ==
    ASSUME TypeInv, NEW id \in VmIds, NEW rs \in SUBSET Primitives,
           NEW kept \in SUBSET rs, Release(id, rs, kept)
    PROVE  host' \in [VmIds -> SUBSET Primitives] /\ leaked' \in [VmIds -> SUBSET Primitives]
  BY DEF TypeInv, TypeOK, Release

LEMMA TeardownTypes ==
    ASSUME TypeInv, NEW n, NEW rs, NEW kept, Teardown(n, rs, kept)
    PROVE  holders' \in SUBSET SafeIds /\ sock' \in [SafeIds -> Procs \cup {None}]
  BY Zenon DEF TypeInv, TypeOK, Teardown

PagerTypes ==
    /\ uffdSock \in [SafeIds -> Procs \cup {None}]
    /\ pager \in [Procs -> {"none", "listening", "connected", "serving", "dead"}]
    /\ pagerSock \in [Procs -> SafeIds \cup {None}]
    /\ pagerMem \in [Procs -> [dir : SafeIds, snap : Snaps] \cup {None}]

LEMMA DropPagerTypes ==
    ASSUME TypeInv, NEW p \in Procs, DropPager(p) PROVE PagerTypes'
  BY Zenon DEF TypeInv, TypeOK, PagerTypes, DropPager

LEMMA KillTypes ==
    ASSUME TypeInv, NEW p \in Procs, KillAndReap(p)
    PROVE  /\ life' \in [Procs -> {"unused", "up", "zombie", "reaped"}]
           /\ guest' \in [Procs -> {"unbound", "blank", "configured", "running", "paused", "gone"}]
           /\ desync' \in SUBSET Procs
  BY Zenon DEF TypeInv, TypeOK, KillAndReap

LEMMA TypeStep == TypeInv /\ [Next]_vars => TypeInv'
  <1> SUFFICES ASSUME TypeInv, [Next]_vars PROVE TypeInv'
    OBVIOUS
  <1>1. ASSUME NEW c \in Callers, NEW id \in VmIds, NEW ref \in SnapshotRefs \cup {None}, CreateCheck(c, id, ref) PROVE TypeInv'
    <2>2. TypeOK'
      BY <1>1, Zenon DEF TypeInv, TypeOK, CallOK, ChildPcs, CreatePcs, CreateCheck, Begin,
         Live, Primitives
    <2>8. ASSUME NEW d \in Callers PROVE CallOK(d)'
      BY <1>1 DEF TypeInv, TypeOK, CallOK, ChildPcs, CreatePcs, CreateCheck, Begin
    <2> QED
      BY <2>2, <2>8, Zenon DEF TypeInv
  <1>2. ASSUME NEW c \in Callers, NEW r \in Primitives, Attach(c, r) PROVE TypeInv'
    <2>2. TypeOK'
      BY <1>2 DEF TypeInv, TypeOK, CallOK, ChildPcs, CreatePcs, Attach, Dir, Live, Primitives
    <2>8. ASSUME NEW d \in Callers PROVE CallOK(d)'
      BY <1>2 DEF TypeInv, TypeOK, CallOK, ChildPcs, CreatePcs, Attach, Dir
    <2> QED
      BY <2>2, <2>8, Zenon DEF TypeInv
  <1>3. ASSUME NEW c \in Callers, NEW r \in Primitives, ComposeFail(c, r) PROVE TypeInv'
    <2>0. vm[c] \in VmIds /\ held[c] \in SUBSET Primitives
      BY <1>3, Zenon DEF TypeInv, TypeOK, CallOK, ComposeFail
    <2>1. CallTypes'
      BY <1>3, ReturnTypes, Zenon DEF ComposeFail
    <2>2. TypeOK'
      BY <1>3, <2>0, <2>1 DEF TypeInv, TypeOK, CallTypes, ComposeFail, Dir
    <2>8. ASSUME NEW d \in Callers PROVE CallOK(d)'
      BY <1>3, ReturnCalls, Zenon DEF ComposeFail
    <2> QED
      BY <2>2, <2>8, Zenon DEF TypeInv
  <1>4. ASSUME NEW c \in Callers, MakeStateDir(c) PROVE TypeInv'
    <2>2. TypeOK'
      BY <1>4 DEF TypeInv, TypeOK, CallOK, ChildPcs, CreatePcs, MakeStateDir, Dir, Goto,
         Live, Primitives
    <2>8. ASSUME NEW d \in Callers PROVE CallOK(d)'
      BY <1>4 DEF TypeInv, TypeOK, CallOK, ChildPcs, CreatePcs, MakeStateDir, Dir, Goto
    <2> QED
      BY <2>2, <2>8, Zenon DEF TypeInv
  <1>5. ASSUME NEW c \in Callers, SpawnFail(c) PROVE TypeInv'
    <2>0. vm[c] \in VmIds /\ held[c] \in SUBSET Primitives
      BY <1>5, Zenon DEF TypeInv, TypeOK, CallOK, SpawnFail
    <2>1. CallTypes'
      BY <1>5, ReturnTypes, Zenon DEF SpawnFail
    <2>9. PICK kept \in SUBSET held[c] :
             /\ Release(vm[c], held[c], kept)
             /\ \/ Teardown(Dir(vm[c]), held[c], kept)
                \/ /\ holders' = holders \cup {Dir(vm[c])}
                   /\ sock' = [sock EXCEPT ![Dir(vm[c])] = None]
      BY <1>5, Zenon DEF SpawnFail
    <2>3. host' \in [VmIds -> SUBSET Primitives] /\ leaked' \in [VmIds -> SUBSET Primitives]
      BY <2>0, <2>9, ReleaseTypes, Zenon
    <2>10. Dir(vm[c]) \in SafeIds
      BY <2>0, Zenon DEF Dir
    <2>4. holders' \in SUBSET SafeIds /\ sock' \in [SafeIds -> Procs \cup {None}]
      BY <2>9, <2>10, TeardownTypes, Zenon DEF TypeInv, TypeOK
    <2>2. TypeOK'
      BY <1>5, <2>1, <2>3, <2>4, Zenon DEF TypeInv, TypeOK, CallTypes, SpawnFail
    <2>8. ASSUME NEW d \in Callers PROVE CallOK(d)'
      BY <1>5, ReturnCalls, Zenon DEF SpawnFail
    <2> QED
      BY <2>2, <2>8, Zenon DEF TypeInv
  <1>6. ASSUME NEW c \in Callers, NEW p \in Procs, Spawn(c, p) PROVE TypeInv'
    <2>2. TypeOK'
      BY <1>6 DEF TypeInv, TypeOK, CallOK, ChildPcs, CreatePcs, Spawn, Dir, Live, Primitives
    <2>8. ASSUME NEW d \in Callers PROVE CallOK(d)'
      BY <1>6 DEF TypeInv, TypeOK, CallOK, ChildPcs, CreatePcs, Spawn, Dir
    <2> QED
      BY <2>2, <2>8, Zenon DEF TypeInv
  <1>7. ASSUME NEW c \in Callers, WaitReady(c) PROVE TypeInv'
    <2>2. TypeOK'
      BY <1>7, Zenon DEF TypeInv, TypeOK, CallOK, ChildPcs, CreatePcs, WaitReady, Goto,
         Live, Primitives
    <2>8. ASSUME NEW d \in Callers PROVE CallOK(d)'
      BY <1>7 DEF TypeInv, TypeOK, CallOK, ChildPcs, CreatePcs, WaitReady, Goto
    <2> QED
      BY <2>2, <2>8, Zenon DEF TypeInv
  <1>8. ASSUME NEW c \in Callers, Configure(c) PROVE TypeInv'
    <2>2. TypeOK'
      BY <1>8 DEF TypeInv, TypeOK, CallOK, ChildPcs, CreatePcs, Configure, Goto, Live, Primitives
    <2>8. ASSUME NEW d \in Callers PROVE CallOK(d)'
      BY <1>8, GotoCalls DEF TypeInv, CallOK, ChildPcs, Configure
    <2> QED
      BY <2>2, <2>8, Zenon DEF TypeInv
  <1>9. ASSUME NEW c \in Callers, LoadCheck(c) PROVE TypeInv'
    <2>1. vm[c] \in VmIds /\ src[c] \in SnapshotRefs /\ child[c] \in Procs
      BY <1>9, Zenon DEF TypeInv, TypeOK, CallOK, ChildPcs, LoadCheck
    <2>3. MemPath(src[c]) \in [dir : SafeIds, snap : Snaps] /\ Dir(vm[c]) \in SafeIds
      BY <2>1, Zenon DEF MemPath, SnapshotRefs, Dir
    <2>5. ASSUME NEW m \in [dir : SafeIds, snap : Snaps] \cup {None}
          PROVE  [pagerMem EXCEPT ![child[c]] = m] \in [Procs -> [dir : SafeIds, snap : Snaps] \cup {None}]
      BY Zenon DEF TypeInv, TypeOK
    <2>4. PagerTypes'
      <3>1. CASE mem_backend = "Uffd"
        <4>1. /\ uffdSock' = [uffdSock EXCEPT ![Dir(vm[c])] = child[c]]
              /\ pager' = [pager EXCEPT ![child[c]] = "listening"]
              /\ pagerSock' = [pagerSock EXCEPT ![child[c]] = Dir(vm[c])]
              /\ pagerMem' = [pagerMem EXCEPT ![child[c]] = MemPath(src[c])]
          BY <1>9, <3>1, Zenon DEF LoadCheck
        <4>2. pagerMem' \in [Procs -> [dir : SafeIds, snap : Snaps] \cup {None}]
          BY <2>3, <2>5, <4>1, Zenon
        <4> QED
          BY <2>1, <2>3, <4>1, <4>2, Zenon DEF TypeInv, TypeOK, PagerTypes
      <3>2. CASE mem_backend # "Uffd"
        BY <1>9, <3>2, Zenon DEF TypeInv, TypeOK, PagerTypes, LoadCheck
      <3> QED
        BY <3>1, <3>2, Zenon
    <2>2. TypeOK'
      BY <1>9, <2>4, Zenon DEF TypeInv, TypeOK, PagerTypes, CreatePcs, LoadCheck, Goto
    <2>8. ASSUME NEW d \in Callers PROVE CallOK(d)'
      BY <1>9, GotoCalls DEF TypeInv, CallOK, ChildPcs, LoadCheck
    <2> QED
      BY <2>2, <2>8, Zenon DEF TypeInv
  <1>10. ASSUME NEW c \in Callers, LoadRequest(c) PROVE TypeInv'
    <2>2. TypeOK'
      <3>1. guest' \in [Procs -> {"unbound", "blank", "configured", "running", "paused", "gone"}]
        <4>1. PICK q \in Procs :
                 guest' = [guest EXCEPT ![q] = IF src[c].resume_immediately THEN "running" ELSE "paused"]
          BY <1>10, Zenon DEF LoadRequest
        <4> QED
          BY <4>1, Zenon DEF TypeInv, TypeOK
      <3>2. pager' \in [Procs -> {"none", "listening", "connected", "serving", "dead"}]
        <4>1. \/ UNCHANGED pager
              \/ \E h \in Procs : pager' = [pager EXCEPT ![h] = "connected"]
          BY <1>10, Zenon DEF LoadRequest
        <4> QED
          BY <4>1, Zenon DEF TypeInv, TypeOK
      <3> QED
        BY <1>10, <3>1, <3>2, Zenon DEF TypeInv, TypeOK, CreatePcs, LoadRequest, Goto
    <2>8. ASSUME NEW d \in Callers PROVE CallOK(d)'
      BY <1>10, GotoCalls DEF TypeInv, CallOK, ChildPcs, LoadRequest
    <2> QED
      BY <2>2, <2>8, Zenon DEF TypeInv
  <1>11. ASSUME NEW c \in Callers, CreateFail(c) PROVE TypeInv'
    <2>0. vm[c] \in VmIds /\ held[c] \in SUBSET Primitives /\ child[c] \in Procs
      BY <1>11, Zenon DEF TypeInv, TypeOK, CallOK, ChildPcs, CreateFail, Fallible
    <2>1. CallTypes'
      BY <1>11, ReturnTypes, Zenon DEF CreateFail
    <2>9. PICK kept \in SUBSET held[c] :
             Release(vm[c], held[c], kept) /\ Teardown(Dir(vm[c]), held[c], kept)
      BY <1>11, Zenon DEF CreateFail
    <2>3. host' \in [VmIds -> SUBSET Primitives] /\ leaked' \in [VmIds -> SUBSET Primitives]
      BY <2>0, <2>9, ReleaseTypes, Zenon
    <2>4. holders' \in SUBSET SafeIds /\ sock' \in [SafeIds -> Procs \cup {None}]
      BY <2>9, TeardownTypes, Zenon
    <2>5. PagerTypes'
      BY <1>11, <2>0, DropPagerTypes, Zenon DEF CreateFail
    <2>6. /\ life' \in [Procs -> {"unused", "up", "zombie", "reaped"}]
          /\ guest' \in [Procs -> {"unbound", "blank", "configured", "running", "paused", "gone"}]
          /\ desync' \in SUBSET Procs
      BY <1>11, <2>0, KillTypes, Zenon DEF CreateFail
    <2>2. TypeOK'
      BY <1>11, <2>1, <2>3, <2>4, <2>5, <2>6, Zenon DEF TypeInv, TypeOK, CallTypes,
         PagerTypes, CreateFail
    <2>8. ASSUME NEW d \in Callers PROVE CallOK(d)'
      BY <1>11, ReturnCalls, Zenon DEF CreateFail
    <2> QED
      BY <2>2, <2>8, Zenon DEF TypeInv
  <1>12a. ASSUME NEW c \in Callers, PublishConsole(c) PROVE TypeInv'
    <2>2. TypeOK'
      BY <1>12a, Zenon DEF TypeInv, TypeOK, CallOK, ChildPcs, CreatePcs, PublishConsole, Goto,
         Live, Primitives
    <2>8. ASSUME NEW d \in Callers PROVE CallOK(d)'
      BY <1>12a, GotoCalls DEF TypeInv, CallOK, ChildPcs, PublishConsole
    <2> QED
      BY <2>2, <2>8, Zenon DEF TypeInv
  <1>12. ASSUME NEW c \in Callers, PublishProcess(c) PROVE TypeInv'
    <2>2. TypeOK'
      BY <1>12, Zenon DEF TypeInv, TypeOK, CallOK, ChildPcs, CreatePcs, PublishProcess, Goto,
         Live, Primitives
    <2>8. ASSUME NEW d \in Callers PROVE CallOK(d)'
      BY <1>12, GotoCalls DEF TypeInv, CallOK, ChildPcs, PublishProcess
    <2> QED
      BY <2>2, <2>8, Zenon DEF TypeInv
  <1>12b. ASSUME NEW c \in Callers, PublishHandler(c) PROVE TypeInv'
    <2>2. TypeOK'
      BY <1>12b, Zenon DEF TypeInv, TypeOK, CallOK, ChildPcs, CreatePcs, PublishHandler, Goto,
         Live, Primitives
    <2>8. ASSUME NEW d \in Callers PROVE CallOK(d)'
      BY <1>12b, GotoCalls DEF TypeInv, CallOK, ChildPcs, PublishHandler
    <2> QED
      BY <2>2, <2>8, Zenon DEF TypeInv
  <1>13. ASSUME NEW c \in Callers, PublishAttachments(c) PROVE TypeInv'
    <2>2. TypeOK'
      BY <1>13, Zenon DEF TypeInv, TypeOK, CallOK, ChildPcs, CreatePcs,
         PublishAttachments, Live, Primitives
    <2>8. ASSUME NEW d \in Callers PROVE CallOK(d)'
      BY <1>13 DEF TypeInv, TypeOK, CallOK, ChildPcs, CreatePcs, PublishAttachments
    <2> QED
      BY <2>2, <2>8, Zenon DEF TypeInv
  <1>14. ASSUME NEW c \in Callers, InsertRecord(c) PROVE TypeInv'
    <2>2. TypeOK'
      BY <1>14, Zenon DEF TypeInv, TypeOK, CallOK, ChildPcs, CreatePcs, InsertRecord,
         InitialStatus, Return, Live, Primitives
    <2>8. ASSUME NEW d \in Callers PROVE CallOK(d)'
      BY <1>14, ReturnCalls, Zenon DEF InsertRecord
    <2> QED
      BY <2>2, <2>8, Zenon DEF TypeInv
  <1>15. ASSUME NEW c \in Callers, NEW id \in VmIds, DestroyKill(c, id) PROVE TypeInv'
    <2>0. /\ composed[id] \in SUBSET Primitives
          /\ processes[id] \in Procs \cup {None} /\ uffd_handlers[id] \in Procs \cup {None}
      BY Zenon DEF TypeInv, TypeOK
    <2>1. CallTypes'
      BY <1>15, Zenon DEF TypeInv, TypeOK, CallTypes, DestroyKill, Begin
    <2>9. PICK kept \in SUBSET composed[id] :
             Release(id, composed[id], kept) /\ Teardown(Dir(id), composed[id], kept)
      BY <1>15, Zenon DEF DestroyKill
    <2>3. host' \in [VmIds -> SUBSET Primitives] /\ leaked' \in [VmIds -> SUBSET Primitives]
      BY <2>0, <2>9, ReleaseTypes, Zenon
    <2>4. holders' \in SUBSET SafeIds /\ sock' \in [SafeIds -> Procs \cup {None}]
      BY <2>9, TeardownTypes, Zenon
    <2>5. PagerTypes'
      <3>1. \/ uffd_handlers[id] # None /\ DropPager(uffd_handlers[id])
            \/ UNCHANGED <<uffdSock, pagers>>
        BY <1>15, Zenon DEF DestroyKill
      <3>2. CASE uffd_handlers[id] # None /\ DropPager(uffd_handlers[id])
        BY <2>0, <3>2, DropPagerTypes, Zenon
      <3>3. CASE UNCHANGED <<uffdSock, pagers>>
        BY <3>3, Zenon DEF TypeInv, TypeOK, PagerTypes
      <3> QED
        BY <3>1, <3>2, <3>3, Zenon
    <2>6. /\ life' \in [Procs -> {"unused", "up", "zombie", "reaped"}]
          /\ guest' \in [Procs -> {"unbound", "blank", "configured", "running", "paused", "gone"}]
          /\ desync' \in SUBSET Procs
      <3>1. \/ processes[id] # None /\ KillAndReap(processes[id])
            \/ UNCHANGED <<life, guest, desync>>
        BY <1>15, Zenon DEF DestroyKill
      <3>2. CASE processes[id] # None /\ KillAndReap(processes[id])
        BY <2>0, <3>2, KillTypes, Zenon
      <3>3. CASE UNCHANGED <<life, guest, desync>>
        BY <3>3, Zenon DEF TypeInv, TypeOK
      <3> QED
        BY <3>1, <3>2, <3>3, Zenon
    <2>2. TypeOK'
      BY <1>15, <2>1, <2>3, <2>4, <2>5, <2>6, Zenon DEF TypeInv, TypeOK, CallTypes,
         PagerTypes, DestroyKill
    <2>8. ASSUME NEW d \in Callers PROVE CallOK(d)'
      BY <1>15 DEF TypeInv, TypeOK, CallOK, ChildPcs, CreatePcs, DestroyKill, Dir,
         Release, Teardown, KillAndReap, DropPager, Begin
    <2> QED
      BY <2>2, <2>8, Zenon DEF TypeInv
  <1>16. ASSUME NEW c \in Callers, DestroyRemove(c) PROVE TypeInv'
    <2>0. vm[c] \in VmIds /\ Dir(vm[c]) \in SafeIds
      BY <1>16, Zenon DEF TypeInv, CallOK, DestroyRemove, Dir
    <2>1. CallTypes'
      BY <1>16, ReturnTypes, Zenon DEF DestroyRemove
    <2>3. RemoveDirs(vm[c])
      BY <1>16, Zenon DEF DestroyRemove
    <2>4. /\ holders' \in SUBSET SafeIds /\ stateDirs' \in SUBSET SafeIds
          /\ sock' \in [SafeIds -> Procs \cup {None}]
          /\ uffdSock' \in [SafeIds -> Procs \cup {None}]
      BY <2>0, <2>3, Zenon DEF TypeInv, TypeOK, RemoveDirs
    <2>5. snapFiles' \in [SafeIds -> SUBSET Snaps]
      <3>1. PICK files \in SUBSET snapFiles[Dir(vm[c])] :
               snapFiles' = [snapFiles EXCEPT ![Dir(vm[c])] = files]
        BY <2>3, Zenon DEF RemoveDirs
      <3> QED
        BY <2>0, <3>1 DEF TypeInv, TypeOK
    <2>6. undeleted' \in [VmIds -> SUBSET {"state", "holder"}]
      <3>1. PICK left \in SUBSET {"state", "holder"} :
               undeleted' = [undeleted EXCEPT ![vm[c]] = left]
        BY <2>3, Zenon DEF RemoveDirs
      <3> QED
        BY <3>1, Zenon DEF TypeInv, TypeOK
    <2>2. TypeOK'
      BY <1>16, <2>0, <2>1, <2>4, <2>5, <2>6, Zenon DEF TypeInv, TypeOK, CallTypes,
         DestroyRemove
    <2>8. ASSUME NEW d \in Callers PROVE CallOK(d)'
      BY <1>16, ReturnCalls, Zenon DEF DestroyRemove
    <2> QED
      BY <2>2, <2>8, Zenon DEF TypeInv
  <1>17. ASSUME NEW c \in Callers, NEW old \in VmIds, NEW new \in VmIds, RenameStateDir(c, old, new) PROVE TypeInv'
    <2>1. CallTypes'
      <3>1. pc[c] = "idle" /\ Begin(c, "rename", old, new, None)
        BY <1>17, Zenon DEF RenameStateDir
      <3> QED
        BY <3>1, Zenon DEF TypeInv, TypeOK, CallTypes, Begin
    <2>3. /\ Dir(old) \in SafeIds /\ Dir(new) \in SafeIds
          /\ stateDirs' = (stateDirs \ {Dir(old)}) \cup {Dir(new)}
          /\ snapFiles' = [snapFiles EXCEPT ![Dir(new)] = snapFiles[Dir(old)], ![Dir(old)] = {}]
          /\ \/ uffdSock' = uffdSock
             \/ uffdSock' = [uffdSock EXCEPT ![Dir(new)] = uffdSock[Dir(old)], ![Dir(old)] = None]
      BY <1>17, Zenon DEF RenameStateDir, MoveName, MoveEntry, Dir
    <2>4. stateDirs' \in SUBSET SafeIds /\ snapFiles' \in [SafeIds -> SUBSET Snaps]
      BY <2>3, Zenon DEF TypeInv, TypeOK
    <2>5. uffdSock' \in [SafeIds -> Procs \cup {None}]
      BY <2>3 DEF TypeInv, TypeOK
    <2>6. writer' = c /\ UNCHANGED <<config, table, maps, host, holders, sock, life, guest, pagers, ghosts>>
      BY <1>17, Zenon DEF RenameStateDir
    <2>2. TypeOK'
      BY <2>1, <2>4, <2>5, <2>6, Zenon DEF TypeInv, TypeOK, CallTypes
    <2>8. ASSUME NEW d \in Callers PROVE CallOK(d)'
      BY <1>17, RenameCalls, Zenon DEF RenameStateDir
    <2> QED
      BY <2>2, <2>8, Zenon DEF TypeInv
  <1>18. ASSUME NEW c \in Callers, RenameHolder(c) PROVE TypeInv'
    <2>0. vm[c] \in VmIds /\ dst[c] \in VmIds
      BY <1>18, Zenon DEF TypeInv, CallOK, RenameHolder
    <2>5. Dir(vm[c]) \in SafeIds /\ Dir(dst[c]) \in SafeIds
      BY <2>0, Zenon DEF Dir
    <2>1. CallTypes'
      BY <1>18, ReturnTypes, Zenon DEF RenameHolder
    <2>3. /\ holders' \in SUBSET SafeIds
          /\ sock' \in [SafeIds -> Procs \cup {None}] /\ uffdSock' \in [SafeIds -> Procs \cup {None}]
      BY <1>18, <2>5, Zenon DEF TypeInv, TypeOK, RenameHolder, MoveName, MoveEntry
    <2>4. host' \in [VmIds -> SUBSET Primitives]
      <3>1. \/ host' = host
            \/ host' = [host EXCEPT ![dst[c]] = @ \cup {"jailer"}, ![vm[c]] = @ \ {"jailer"}]
        BY <1>18, Zenon DEF RenameHolder
      <3>2. {"jailer"} \subseteq Primitives
        BY Zenon DEF Primitives
      <3> QED
        BY <2>0, <3>1, <3>2 DEF TypeInv, TypeOK
    <2>6. /\ status' \in [VmIds -> Live \cup {"Destroyed", None}]
          /\ snapshots' \in [VmIds -> SUBSET Snaps]
      BY <1>18, <2>0, MoveEntryType, Zenon DEF TypeInv, TypeOK, RenameHolder
    <2>9. composed' \in [VmIds -> SUBSET Primitives]
      BY <1>18, <2>0, MoveEntryType, Zenon DEF TypeInv, TypeOK, RenameHolder
    <2>7. /\ processes' \in [VmIds -> Procs \cup {None}]
          /\ consoles' \in [VmIds -> Procs \cup {None}]
          /\ uffd_handlers' \in [VmIds -> Procs \cup {None}]
      BY <1>18, <2>0, MoveEntryType, Zenon DEF TypeInv, TypeOK, RenameHolder
    <2>10. stranded' \in SUBSET VmIds
      BY <1>18, <2>0, Zenon DEF TypeInv, TypeOK, RenameHolder, MoveName
    <2>2. TypeOK'
      BY <1>18, <2>1, <2>3, <2>4, <2>6, <2>7, <2>9, <2>10, Zenon DEF TypeInv, TypeOK, CallTypes,
         RenameHolder
    <2>8. ASSUME NEW d \in Callers PROVE CallOK(d)'
      BY <1>18, ReturnCalls, Zenon DEF RenameHolder
    <2> QED
      BY <2>2, <2>8, Zenon DEF TypeInv
  <1>19. ASSUME NEW c \in Callers, RenameRollback(c) PROVE TypeInv'
    <2>0. vm[c] \in VmIds /\ dst[c] \in VmIds
      BY <1>19, Zenon DEF TypeInv, CallOK, RenameRollback
    <2>5. Dir(vm[c]) \in SafeIds /\ Dir(dst[c]) \in SafeIds
      BY <2>0, Zenon DEF Dir
    <2>1. CallTypes'
      BY <1>19, ReturnTypes, Zenon DEF RenameRollback
    <2>3. stateDirs' \in SUBSET SafeIds /\ snapFiles' \in [SafeIds -> SUBSET Snaps]
      BY <1>19, <2>5 DEF TypeInv, TypeOK, RenameRollback, MoveName, MoveEntry
    <2>4. uffdSock' \in [SafeIds -> Procs \cup {None}]
      <3>1. \/ uffdSock' = uffdSock
            \/ uffdSock' = [uffdSock EXCEPT ![Dir(vm[c])] = uffdSock[Dir(dst[c])], ![Dir(dst[c])] = None]
        BY <1>19, Zenon DEF RenameRollback, MoveEntry
      <3> QED
        BY <2>5, <3>1 DEF TypeInv, TypeOK
    <2>6. stranded' \in SUBSET VmIds
      <3>1. stranded' = stranded \/ stranded' = stranded \cup {vm[c]}
        BY <1>19, Zenon DEF RenameRollback
      <3> QED
        BY <2>0, <3>1 DEF TypeInv, TypeOK
    <2>2. TypeOK'
      BY <1>19, <2>1, <2>3, <2>4, <2>6, Zenon DEF TypeInv, TypeOK, CallTypes, RenameRollback
    <2>8. ASSUME NEW d \in Callers PROVE CallOK(d)'
      BY <1>19, ReturnCalls, Zenon DEF RenameRollback
    <2> QED
      BY <2>2, <2>8, Zenon DEF TypeInv
  <1>20. ASSUME NEW c \in Callers, Bind(c) PROVE TypeInv'
    <2>2. TypeOK'
      BY <1>20, Zenon DEF TypeInv, TypeOK, CallOK, ChildPcs, CreatePcs, Bind, Dir, Owns,
         Live, Primitives
    <2>8. ASSUME NEW d \in Callers PROVE CallOK(d)'
      BY <1>20, Zenon DEF TypeInv, TypeOK, CallOK, ChildPcs, CreatePcs, Bind, Dir, Owns
    <2> QED
      BY <2>2, <2>8, Zenon DEF TypeInv
  <1>21. ASSUME NEW id \in VmIds, NEW replied \in BOOLEAN, StartVm(id, replied) PROVE TypeInv'
    <2>1. UNCHANGED <<config, snapshots, maps, writer, host, disk, life, pagers, calls,
                    leaked, undeleted, stranded>>
      BY <1>21, Zenon DEF StartVm
    <2>3. \E q \in Procs, g \in {"running", "paused"}, st \in {"Running", "Stopped"} :
              /\ guest' = [guest EXCEPT ![q] = g]
              /\ status' = [status EXCEPT ![id] = st] \/ status' = status
              /\ desync' = desync \ {q} \/ desync' = desync \cup {q}
      BY <1>21, Zenon DEF StartVm, Execute
    <2>4. /\ guest' \in [Procs -> {"unbound", "blank", "configured", "running", "paused", "gone"}]
          /\ status' \in [VmIds -> Live \cup {"Destroyed", None}] /\ desync' \in SUBSET Procs
      BY <2>3 DEF TypeInv, TypeOK, Live
    <2>2. TypeOK'
      BY <2>1, <2>4, Zenon DEF TypeInv, TypeOK
    <2>8. ASSUME NEW d \in Callers PROVE CallOK(d)'
      BY <2>1, Zenon DEF TypeInv, CallOK
    <2> QED
      BY <2>2, <2>8, Zenon DEF TypeInv
  <1>22. ASSUME NEW id \in VmIds, NEW replied \in BOOLEAN, StopVm(id, replied) PROVE TypeInv'
    <2>1. UNCHANGED <<config, snapshots, maps, writer, host, disk, life, pagers, calls,
                    leaked, undeleted, stranded>>
      BY <1>22, Zenon DEF StopVm
    <2>3. \E q \in Procs, g \in {"running", "paused"}, st \in {"Running", "Stopped"} :
              /\ guest' = [guest EXCEPT ![q] = g]
              /\ status' = [status EXCEPT ![id] = st] \/ status' = status
              /\ desync' = desync \ {q} \/ desync' = desync \cup {q}
      BY <1>22, Zenon DEF StopVm, Execute
    <2>4. /\ guest' \in [Procs -> {"unbound", "blank", "configured", "running", "paused", "gone"}]
          /\ status' \in [VmIds -> Live \cup {"Destroyed", None}] /\ desync' \in SUBSET Procs
      BY <2>3 DEF TypeInv, TypeOK, Live
    <2>2. TypeOK'
      BY <2>1, <2>4, Zenon DEF TypeInv, TypeOK
    <2>8. ASSUME NEW d \in Callers PROVE CallOK(d)'
      BY <2>1, Zenon DEF TypeInv, CallOK
    <2> QED
      BY <2>2, <2>8, Zenon DEF TypeInv
  <1>23. ASSUME NEW id \in VmIds, NEW s \in Snaps, SnapshotVm(id, s) PROVE TypeInv'
    <2>2. TypeOK'
      BY <1>23 DEF TypeInv, TypeOK, CallOK, ChildPcs, CreatePcs, SnapshotVm, Dir, Live, Primitives
    <2>8. ASSUME NEW d \in Callers PROVE CallOK(d)'
      BY <1>23, Zenon DEF TypeInv, TypeOK, CallOK, ChildPcs, CreatePcs, SnapshotVm, Dir
    <2> QED
      BY <2>2, <2>8, Zenon DEF TypeInv
  <1>24. ASSUME NEW id \in VmIds, NEW s \in Snaps, SnapshotFail(id, s) PROVE TypeInv'
    <2>1. Dir(id) \in SafeIds /\ stateDirs' = stateDirs \cup {Dir(id)}
      BY <1>24, Zenon DEF SnapshotFail, Dir
    <2>3. \/ snapFiles' = [snapFiles EXCEPT ![Dir(id)] = @ \ {s}]
          \/ snapFiles' = [snapFiles EXCEPT ![Dir(id)] = @ \cup {s}]
      BY <1>24, Zenon DEF SnapshotFail
    <2>4. snapFiles' \in [SafeIds -> SUBSET Snaps]
      BY <2>1, <2>3 DEF TypeInv, TypeOK
    <2>2. TypeOK'
      BY <1>24, <2>1, <2>4, Zenon DEF TypeInv, TypeOK, SnapshotFail
    <2>8. ASSUME NEW d \in Callers PROVE CallOK(d)'
      BY <1>24, Zenon DEF TypeInv, TypeOK, CallOK, ChildPcs, CreatePcs, SnapshotFail, Dir
    <2> QED
      BY <2>2, <2>8, Zenon DEF TypeInv
  <1>25. ASSUME NEW p \in Procs, PagerOpen(p) PROVE TypeInv'
    <2>2. TypeOK'
      BY <1>25, Zenon DEF TypeInv, TypeOK, CallOK, ChildPcs, CreatePcs, PagerOpen, Live,
         Primitives
    <2>8. ASSUME NEW d \in Callers PROVE CallOK(d)'
      BY <1>25, Zenon DEF TypeInv, TypeOK, CallOK, ChildPcs, CreatePcs, PagerOpen
    <2> QED
      BY <2>2, <2>8, Zenon DEF TypeInv
  <1>26. ASSUME NEW p \in Procs, ProcessExit(p) PROVE TypeInv'
    <2>2. TypeOK'
      BY <1>26, Zenon DEF TypeInv, TypeOK, CallOK, ChildPcs, CreatePcs, ProcessExit, Live,
         Primitives
    <2>8. ASSUME NEW d \in Callers PROVE CallOK(d)'
      BY <1>26, Zenon DEF TypeInv, TypeOK, CallOK, ChildPcs, CreatePcs, ProcessExit
    <2> QED
      BY <2>2, <2>8, Zenon DEF TypeInv
  <1>27. CASE UNCHANGED vars
    BY <1>27, Zenon DEF TypeInv, TypeOK, CallOK, vars
  <1> QED
    BY <1>1, <1>2, <1>3, <1>4, <1>5, <1>6, <1>7, <1>8, <1>9, <1>10, <1>11, <1>12a, <1>12, <1>12b, <1>13,
       <1>14, <1>15, <1>16, <1>17, <1>18, <1>19, <1>20, <1>21, <1>22, <1>23, <1>24, <1>25,
       <1>26, <1>27, Zenon DEF Next, CallBegin, CallStep, CreateBegin

(* The maps, the host and the callers keep their shapes through every       *)
(* interleaving of the operations.                                          *)
THEOREM TypesHold == Spec => []TypeOK
  <1>1. TypeInv => TypeOK
    BY Zenon DEF TypeInv
  <1> QED
    BY InitType, TypeStep, <1>1, PTL DEF Spec

-----------------------------------------------------------------------------
(* When callers keep one owner per id, the calls in flight claim different  *)
(* ids, and the record of a claimed id is what the operation found at its   *)
(* check: that is what makes the unlocked create safe.                      *)
ClaimInv ==
    /\ \A c \in Callers : writer = c <=> pc[c] \in {"destroy", "rename"}
    /\ \A c, d \in Callers, id \in VmIds : Claims(c, id) /\ Claims(d, id) => c = d
    /\ \A c \in Callers : pc[c] \in CreatePcs => status[vm[c]] = None
    /\ \A c \in Callers : pc[c] \in {"destroy", "rename"} => status[vm[c]] \in Live
    /\ \A c \in Callers : pc[c] = "rename" => status[dst[c]] = None

LEMMA InitClaims == Init => ClaimInv
  BY DEF Init, ClaimInv, Claims, CreatePcs

(* A step of caller c leaves the other calls alone.                         *)
Others(c) ==
    \A d \in Callers \ {c} :
        pc'[d] = pc[d] /\ vm'[d] = vm[d] /\ dst'[d] = dst[d] /\ child'[d] = child[d]

(* What the ends of a step do to the calls, caller by caller.               *)
LEMMA ReturnLocals ==
    ASSUME TypeInv, NEW c \in Callers, Return(c)
    PROVE  Others(c) /\ pc'[c] = "idle" /\ vm'[c] = None /\ dst'[c] = None
  BY Zenon DEF TypeInv, TypeOK, Return, Others

LEMMA BeginLocals ==
    ASSUME TypeInv, NEW c \in Callers, NEW l, NEW id, NEW new, NEW ref,
           Begin(c, l, id, new, ref)
    PROVE  Others(c) /\ pc'[c] = l /\ vm'[c] = id /\ dst'[c] = new
  BY Zenon DEF TypeInv, TypeOK, Begin, Others

LEMMA GotoLocals ==
    ASSUME TypeInv, NEW c \in Callers, NEW l, pc' = [pc EXCEPT ![c] = l],
           UNCHANGED <<vm, dst, child>>
    PROVE  Others(c) /\ pc'[c] = l
  BY Zenon DEF TypeInv, TypeOK, Others

(* The ids of a call are ids, and what its record may be.                   *)
LEMMA CallIds ==
    ASSUME TypeInv, NEW c \in Callers
    PROVE  /\ pc[c] = "idle" => vm[c] = None /\ dst[c] = None
           /\ pc[c] # "idle" => vm[c] \in VmIds
           /\ pc[c] = "rename" => dst[c] \in VmIds
           /\ pc[c] # "rename" => dst[c] = None
           /\ pc[c] \in CreatePcs \cup {"idle", "destroy", "rename"}
  BY Zenon DEF TypeInv, TypeOK, CallOK

(* Steps that concern no call, keep a create going, end a call, begin one.  *)
LEMMA ClaimSame ==
    ASSUME TypeInv, ClaimInv, UNCHANGED <<writer, pc, vm, dst>>,
           \A id \in VmIds : /\ status[id] = None => status'[id] = None
                             /\ status[id] \in Live => status'[id] \in Live
    PROVE  ClaimInv'
  <1>1. \A c \in Callers : pc[c] \in CreatePcs => status'[vm[c]] = None
    BY CallIds, Zenon DEF ClaimInv, CreatePcs
  <1>2. \A c \in Callers : pc[c] \in {"destroy", "rename"} => status'[vm[c]] \in Live
    BY CallIds, Zenon DEF ClaimInv
  <1>3. \A c \in Callers : pc[c] = "rename" => status'[dst[c]] = None
    BY CallIds, Zenon DEF ClaimInv
  <1> QED
    BY <1>1, <1>2, <1>3, Zenon DEF ClaimInv, Claims

LEMMA ClaimGoto ==
    ASSUME TypeInv, ClaimInv, NEW c \in Callers, NEW l \in CreatePcs, pc[c] \in CreatePcs,
           pc' = [pc EXCEPT ![c] = l], UNCHANGED <<writer, vm, dst, status>>
    PROVE  ClaimInv'
  <1>1. pc'[c] = l /\ \A d \in Callers : d # c => pc'[d] = pc[d]
    BY Zenon DEF TypeInv, TypeOK
  <1>2. \A d \in Callers : /\ pc'[d] \in CreatePcs <=> pc[d] \in CreatePcs
                           /\ d # c => pc'[d] = pc[d]
    BY <1>1, Zenon
  <1>3. l \notin {"idle", "destroy", "rename"} /\ pc[c] \notin {"idle", "destroy", "rename"}
    BY Zenon DEF CreatePcs
  <1>4. \A d \in Callers, id \in VmIds : Claims(d, id)' <=> Claims(d, id)
    BY <1>1, <1>2, <1>3, Zenon DEF Claims
  <1>5. \A d \in Callers : /\ pc'[d] \in {"destroy", "rename"} <=> pc[d] \in {"destroy", "rename"}
                           /\ pc'[d] = "rename" <=> pc[d] = "rename"
    BY <1>1, <1>2, <1>3, Zenon
  <1> QED
    BY <1>2, <1>4, <1>5, Zenon DEF ClaimInv

LEMMA ClaimReturn ==
    ASSUME TypeInv, ClaimInv, NEW c \in Callers, Return(c), pc[c] # "idle",
           writer' = IF pc[c] \in {"destroy", "rename"} THEN None ELSE writer,
           \A id \in VmIds : id \notin {vm[c], dst[c]} => status'[id] = status[id]
    PROVE  ClaimInv'
  <1>1. Others(c) /\ pc'[c] = "idle" /\ vm'[c] = None /\ dst'[c] = None
    BY ReturnLocals, Zenon
  <1>2. "idle" \notin CreatePcs /\ None \notin Callers
    BY Zenon DEF CreatePcs
  <1>3. ASSUME NEW d \in Callers, pc'[d] # "idle"
        PROVE  /\ d # c /\ pc'[d] = pc[d] /\ vm'[d] = vm[d] /\ dst'[d] = dst[d]
               /\ status'[vm[d]] = status[vm[d]]
               /\ pc[d] = "rename" => status'[dst[d]] = status[dst[d]]
    <2>1. d # c /\ pc'[d] = pc[d] /\ vm'[d] = vm[d] /\ dst'[d] = dst[d]
      BY <1>1, <1>3, Zenon DEF Others
    <2>2. vm[d] \in VmIds /\ vm[d] \notin {vm[c], dst[c]}
      BY <1>3, <2>1, CallIds, Zenon DEF ClaimInv, Claims
    <2>3. pc[d] = "rename" => dst[d] \in VmIds /\ dst[d] \notin {vm[c], dst[c]}
      BY <1>3, <2>1, CallIds, Zenon DEF ClaimInv, Claims
    <2> QED
      BY <2>1, <2>2, <2>3, Zenon
  <1>4. \A d \in Callers : writer' = d <=> pc'[d] \in {"destroy", "rename"}
    <2> SUFFICES ASSUME NEW d \in Callers PROVE writer' = d <=> pc'[d] \in {"destroy", "rename"}
      OBVIOUS
    <2>1. CASE d = c
      BY <1>1, <1>2, <2>1, Zenon DEF ClaimInv
    <2>2. CASE d # c
      <3>1. pc'[d] = pc[d]
        BY <1>1, <2>2, Zenon DEF Others
      <3> QED
        BY <1>2, <2>2, <3>1, Zenon DEF ClaimInv
    <2> QED
      BY <2>1, <2>2, Zenon
  <1>5. \A d, e \in Callers, id \in VmIds : Claims(d, id)' /\ Claims(e, id)' => d = e
    BY <1>3, Zenon DEF ClaimInv, Claims
  <1>6. \A d \in Callers : pc'[d] \in CreatePcs => status'[vm'[d]] = None
    BY <1>2, <1>3, Zenon DEF ClaimInv
  <1>7. \A d \in Callers : pc'[d] \in {"destroy", "rename"} => status'[vm'[d]] \in Live
    BY <1>3 DEF ClaimInv
  <1>8. \A d \in Callers : pc'[d] = "rename" => status'[dst'[d]] = None
    BY <1>3, Zenon DEF ClaimInv
  <1> QED
    BY <1>4, <1>5, <1>6, <1>7, <1>8, Zenon DEF ClaimInv, Live

LEMMA ClaimBegin ==
    ASSUME TypeInv, ClaimInv, NEW c \in Callers, NEW l \in {"compose", "destroy", "rename"},
           NEW id \in VmIds, NEW new \in VmIds \cup {None}, NEW ref, pc[c] = "idle",
           Begin(c, l, id, new, ref), status' = status, writer = None,
           writer' = (IF l = "compose" THEN None ELSE c),
           \A d \in Callers : ~Claims(d, id) /\ ~(new \in VmIds /\ Claims(d, new)),
           status[id] = None \/ l # "compose", status[id] \in Live \/ l = "compose",
           l = "rename" => status[new] = None
    PROVE  ClaimInv'
  <1>1. Others(c) /\ pc'[c] = l /\ vm'[c] = id /\ dst'[c] = new
    BY BeginLocals, Zenon
  <1>2. \A d \in Callers : d # c => /\ pc'[d] = pc[d] /\ vm'[d] = vm[d] /\ dst'[d] = dst[d]
                                    /\ pc[d] \notin {"destroy", "rename"}
    BY <1>1, Zenon DEF Others, ClaimInv
  <1>3. None \notin Callers /\ None \notin VmIds
    OBVIOUS
  <1>4. \A d \in Callers : writer' = d <=> pc'[d] \in {"destroy", "rename"}
    BY <1>1, <1>2, <1>3, Zenon
  <1>5. \A d, e \in Callers, i \in VmIds : Claims(d, i)' /\ Claims(e, i)' => d = e
    <2> SUFFICES ASSUME NEW d \in Callers, NEW e \in Callers, NEW i \in VmIds,
                        Claims(d, i)', Claims(e, i)', d # e
                 PROVE  FALSE
      OBVIOUS
    <2>1. ASSUME NEW x \in Callers, x # c, Claims(x, i)' PROVE Claims(x, i) /\ i \notin {id, new}
      BY <1>2, <2>1, Zenon DEF Claims
    <2>2. Claims(c, i)' => i \in {id, new}
      BY <1>1, Zenon DEF Claims
    <2> QED
      BY <2>1, <2>2, Zenon DEF ClaimInv
  <1>6. \A d \in Callers : pc'[d] \in CreatePcs => status'[vm'[d]] = None
    BY <1>1, <1>2, Zenon DEF ClaimInv, CreatePcs
  <1>7. \A d \in Callers : pc'[d] \in {"destroy", "rename"} => status'[vm'[d]] \in Live
    BY <1>1, <1>2, Zenon
  <1>8. \A d \in Callers : pc'[d] = "rename" => status'[dst'[d]] = None
    BY <1>1, <1>2, Zenon
  <1> QED
    BY <1>4, <1>5, <1>6, <1>7, <1>8, Zenon DEF ClaimInv, Live

LEMMA ClaimStep ==
    ASSUME OneOwnerPerId, TypeInv, ClaimInv, [Next]_vars PROVE ClaimInv'
  <1>1. ASSUME NEW c \in Callers, NEW id \in VmIds, NEW ref \in SnapshotRefs \cup {None}, CreateCheck(c, id, ref) PROVE ClaimInv'
    <2>1. /\ pc[c] = "idle" /\ writer = None /\ status[id] = None /\ Unclaimed(id)
          /\ Begin(c, "compose", id, None, ref) /\ UNCHANGED <<status, writer>>
      BY <1>1, Zenon DEF CreateCheck
    <2> QED
      BY <2>1, ClaimBegin, Zenon DEF Unclaimed
  <1>2. ASSUME NEW c \in Callers, NEW r \in Primitives, Attach(c, r) PROVE ClaimInv'
    <2>1. UNCHANGED <<writer, pc, vm, dst, status>>
      BY <1>2, Zenon DEF Attach
    <2> QED
      BY <2>1, ClaimSame, Zenon
  <1>3. ASSUME NEW c \in Callers, NEW r \in Primitives, ComposeFail(c, r) PROVE ClaimInv'
    <2>1. pc[c] = "compose" /\ Return(c) /\ UNCHANGED <<status, writer>>
      BY <1>3, Zenon DEF ComposeFail
    <2> QED
      BY <2>1, ClaimReturn, Zenon
  <1>4. ASSUME NEW c \in Callers, MakeStateDir(c) PROVE ClaimInv'
    <2>1. /\ pc[c] = "compose" /\ pc' = [pc EXCEPT ![c] = "spawn"]
          /\ UNCHANGED <<writer, vm, dst, status>>
      BY <1>4, Zenon DEF MakeStateDir, Goto
    <2> QED
      BY <2>1, ClaimGoto, Zenon DEF CreatePcs
  <1>5. ASSUME NEW c \in Callers, SpawnFail(c) PROVE ClaimInv'
    <2>1. pc[c] \in {"compose", "spawn"} /\ Return(c) /\ UNCHANGED <<status, writer>>
      BY <1>5, Zenon DEF SpawnFail
    <2> QED
      BY <2>1, ClaimReturn, Zenon
  <1>6. ASSUME NEW c \in Callers, NEW p \in Procs, Spawn(c, p) PROVE ClaimInv'
    <2>1. /\ pc[c] = "spawn" /\ pc' = [pc EXCEPT ![c] = "wait"]
          /\ UNCHANGED <<writer, vm, dst, status>>
      BY <1>6, Zenon DEF Spawn
    <2> QED
      BY <2>1, ClaimGoto, Zenon DEF CreatePcs
  <1>7. ASSUME NEW c \in Callers, WaitReady(c) PROVE ClaimInv'
    <2>1. /\ pc[c] = "wait" /\ pc' = [pc EXCEPT ![c] = IF src[c] = None THEN "configure" ELSE "check"]
          /\ UNCHANGED <<writer, vm, dst, status>>
      BY <1>7, Zenon DEF WaitReady, Goto
    <2> QED
      BY <2>1, ClaimGoto, Zenon DEF CreatePcs
  <1>8. ASSUME NEW c \in Callers, Configure(c) PROVE ClaimInv'
    <2>1. /\ pc[c] = "configure" /\ pc' = [pc EXCEPT ![c] = "console"]
          /\ UNCHANGED <<writer, vm, dst, status>>
      BY <1>8, Zenon DEF Configure, Goto
    <2> QED
      BY <2>1, ClaimGoto, Zenon DEF CreatePcs
  <1>9. ASSUME NEW c \in Callers, LoadCheck(c) PROVE ClaimInv'
    <2>1. /\ pc[c] = "check" /\ pc' = [pc EXCEPT ![c] = "load"]
          /\ UNCHANGED <<writer, vm, dst, status>>
      BY <1>9, Zenon DEF LoadCheck, Goto
    <2> QED
      BY <2>1, ClaimGoto, Zenon DEF CreatePcs
  <1>10. ASSUME NEW c \in Callers, LoadRequest(c) PROVE ClaimInv'
    <2>1. /\ pc[c] = "load" /\ pc' = [pc EXCEPT ![c] = "console"]
          /\ UNCHANGED <<writer, vm, dst, status>>
      BY <1>10, Zenon DEF LoadRequest, Goto
    <2> QED
      BY <2>1, ClaimGoto, Zenon DEF CreatePcs
  <1>11. ASSUME NEW c \in Callers, CreateFail(c) PROVE ClaimInv'
    <2>1. pc[c] \in {"wait", "configure", "check", "load"} /\ Return(c) /\ UNCHANGED <<status, writer>>
      BY <1>11, Zenon DEF CreateFail, Fallible
    <2> QED
      BY <2>1, ClaimReturn, Zenon
  <1>12a. ASSUME NEW c \in Callers, PublishConsole(c) PROVE ClaimInv'
    <2>1. /\ pc[c] = "console" /\ pc' = [pc EXCEPT ![c] = "process"]
          /\ UNCHANGED <<writer, vm, dst, status>>
      BY <1>12a, Zenon DEF PublishConsole, Goto
    <2> QED
      BY <2>1, ClaimGoto, Zenon DEF CreatePcs
  <1>12. ASSUME NEW c \in Callers, PublishProcess(c) PROVE ClaimInv'
    <2>1. /\ pc[c] = "process" /\ pc' = [pc EXCEPT ![c] = "handler"]
          /\ UNCHANGED <<writer, vm, dst, status>>
      BY <1>12, Zenon DEF PublishProcess, Goto
    <2> QED
      BY <2>1, ClaimGoto, Zenon DEF CreatePcs
  <1>12b. ASSUME NEW c \in Callers, PublishHandler(c) PROVE ClaimInv'
    <2>1. /\ pc[c] = "handler" /\ pc' = [pc EXCEPT ![c] = "attachments"]
          /\ UNCHANGED <<writer, vm, dst, status>>
      BY <1>12b, Zenon DEF PublishHandler, Goto
    <2> QED
      BY <2>1, ClaimGoto, Zenon DEF CreatePcs
  <1>13. ASSUME NEW c \in Callers, PublishAttachments(c) PROVE ClaimInv'
    <2>1. /\ pc[c] = "attachments" /\ pc' = [pc EXCEPT ![c] = "record"]
          /\ UNCHANGED <<writer, vm, dst, status>>
      BY <1>13, Zenon DEF PublishAttachments
    <2> QED
      BY <2>1, ClaimGoto, Zenon DEF CreatePcs
  <1>14. ASSUME NEW c \in Callers, InsertRecord(c) PROVE ClaimInv'
    <2>1. /\ pc[c] = "record" /\ Return(c) /\ UNCHANGED writer
          /\ status' = [status EXCEPT ![vm[c]] = InitialStatus(c)]
      BY <1>14, Zenon DEF InsertRecord
    <2>2. \A id \in VmIds : id \notin {vm[c], dst[c]} => status'[id] = status[id]
      BY <2>1, Zenon DEF TypeInv, TypeOK
    <2> QED
      BY <2>1, <2>2, ClaimReturn, Zenon
  <1>15. ASSUME NEW c \in Callers, NEW id \in VmIds, DestroyKill(c, id) PROVE ClaimInv'
    <2>1. /\ pc[c] = "idle" /\ writer = None /\ status[id] \in Live
          /\ Begin(c, "destroy", id, None, None) /\ writer' = c /\ status' = status
      BY <1>15, Zenon DEF DestroyKill
    <2>2. \A d \in Callers : ~Claims(d, id)
      BY <2>1, CallIds DEF ClaimInv, Claims, Live
    <2> QED
      BY <2>1, <2>2, ClaimBegin, Zenon
  <1>16. ASSUME NEW c \in Callers, DestroyRemove(c) PROVE ClaimInv'
    <2>1. /\ pc[c] = "destroy" /\ Return(c) /\ writer' = None
          /\ status' = [status EXCEPT ![vm[c]] = "Destroyed"]
      BY <1>16, Zenon DEF DestroyRemove
    <2>2. \A id \in VmIds : id \notin {vm[c], dst[c]} => status'[id] = status[id]
      BY <2>1, Zenon DEF TypeInv, TypeOK
    <2> QED
      BY <2>1, <2>2, ClaimReturn, Zenon
  <1>17. ASSUME NEW c \in Callers, NEW old \in VmIds, NEW new \in VmIds, RenameStateDir(c, old, new) PROVE ClaimInv'
    <2>1. /\ pc[c] = "idle" /\ writer = None /\ status[new] = None /\ status[old] \in Live
          /\ Unclaimed(old) /\ Unclaimed(new)
          /\ Begin(c, "rename", old, new, None) /\ writer' = c /\ status' = status
      BY <1>17, Zenon DEF RenameStateDir
    <2> QED
      BY <2>1, ClaimBegin, Zenon DEF Unclaimed
  <1>18. ASSUME NEW c \in Callers, RenameHolder(c) PROVE ClaimInv'
    <2>1. /\ pc[c] = "rename" /\ Return(c) /\ writer' = None
          /\ status' = [status EXCEPT ![dst[c]] = status[vm[c]], ![vm[c]] = None]
      BY <1>18, Zenon DEF RenameHolder, MoveEntry
    <2>2. \A id \in VmIds : id \notin {vm[c], dst[c]} => status'[id] = status[id]
      BY <2>1, Zenon DEF TypeInv, TypeOK
    <2> QED
      BY <2>1, <2>2, ClaimReturn, Zenon
  <1>19. ASSUME NEW c \in Callers, RenameRollback(c) PROVE ClaimInv'
    <2>1. pc[c] = "rename" /\ Return(c) /\ writer' = None /\ status' = status
      BY <1>19, Zenon DEF RenameRollback
    <2> QED
      BY <2>1, ClaimReturn, Zenon
  <1>20. ASSUME NEW c \in Callers, Bind(c) PROVE ClaimInv'
    <2>1. UNCHANGED <<writer, pc, vm, dst, status>>
      BY <1>20, Zenon DEF Bind
    <2> QED
      BY <2>1, ClaimSame, Zenon
  <1>21. ASSUME NEW id \in VmIds, NEW replied \in BOOLEAN, StartVm(id, replied) PROVE ClaimInv'
    <2>1. UNCHANGED <<writer, pc, vm, dst>> /\ status[id] \in Live
      BY <1>21, Zenon DEF StartVm, Live
    <2>2. status' = status \/ \E st \in Live : status' = [status EXCEPT ![id] = st]
      BY <1>21, Zenon DEF StartVm, Execute, Live
    <2>3. \A i \in VmIds : /\ status[i] = None => status'[i] = None
                           /\ status[i] \in Live => status'[i] \in Live
      BY <2>1, <2>2 DEF TypeInv, TypeOK, Live
    <2> QED
      BY <2>1, <2>3, ClaimSame, Zenon
  <1>22. ASSUME NEW id \in VmIds, NEW replied \in BOOLEAN, StopVm(id, replied) PROVE ClaimInv'
    <2>1. UNCHANGED <<writer, pc, vm, dst>> /\ status[id] \in Live
      BY <1>22, Zenon DEF StopVm, Live
    <2>2. status' = status \/ \E st \in Live : status' = [status EXCEPT ![id] = st]
      BY <1>22, Zenon DEF StopVm, Execute, Live
    <2>3. \A i \in VmIds : /\ status[i] = None => status'[i] = None
                           /\ status[i] \in Live => status'[i] \in Live
      BY <2>1, <2>2 DEF TypeInv, TypeOK, Live
    <2> QED
      BY <2>1, <2>3, ClaimSame, Zenon
  <1>23. ASSUME NEW id \in VmIds, NEW s \in Snaps, SnapshotVm(id, s) PROVE ClaimInv'
    <2>1. UNCHANGED <<writer, pc, vm, dst, status>>
      BY <1>23, Zenon DEF SnapshotVm
    <2> QED
      BY <2>1, ClaimSame, Zenon
  <1>24. ASSUME NEW id \in VmIds, NEW s \in Snaps, SnapshotFail(id, s) PROVE ClaimInv'
    <2>1. UNCHANGED <<writer, pc, vm, dst, status>>
      BY <1>24, Zenon DEF SnapshotFail
    <2> QED
      BY <2>1, ClaimSame, Zenon
  <1>25. ASSUME NEW p \in Procs, PagerOpen(p) PROVE ClaimInv'
    <2>1. UNCHANGED <<writer, pc, vm, dst, status>>
      BY <1>25, Zenon DEF PagerOpen
    <2> QED
      BY <2>1, ClaimSame, Zenon
  <1>26. ASSUME NEW p \in Procs, ProcessExit(p) PROVE ClaimInv'
    <2>1. UNCHANGED <<writer, pc, vm, dst, status>>
      BY <1>26, Zenon DEF ProcessExit
    <2> QED
      BY <2>1, ClaimSame, Zenon
  <1>27. CASE UNCHANGED vars
    <2>1. UNCHANGED <<writer, pc, vm, dst, status>>
      BY <1>27, Zenon DEF vars
    <2> QED
      BY <2>1, ClaimSame, Zenon
  <1> QED
    BY <1>1, <1>2, <1>3, <1>4, <1>5, <1>6, <1>7, <1>8, <1>9, <1>10, <1>11, <1>12a, <1>12, <1>12b, <1>13,
       <1>14, <1>15, <1>16, <1>17, <1>18, <1>19, <1>20, <1>21, <1>22, <1>23, <1>24, <1>25,
       <1>26, <1>27, Zenon DEF Next, CallBegin, CallStep, CreateBegin

(* The claims hold in every state: the induction.                           *)
LEMMA ClaimsHold == ASSUME OneOwnerPerId PROVE Spec => [](TypeInv /\ ClaimInv)
  <1>1. Init => TypeInv /\ ClaimInv
    BY InitType, InitClaims, Zenon
  <1>2. TypeInv /\ ClaimInv /\ [Next]_vars => (TypeInv /\ ClaimInv)'
    BY TypeStep, ClaimStep, Zenon
  <1> QED
    BY <1>1, <1>2, PTL DEF Spec

-----------------------------------------------------------------------------
(* Every step changes the table as one operation of the contract, or not.   *)
LEMMA ContractStep ==
    ASSUME TypeInv, ClaimInv, [Next]_vars
    PROVE  [Contract!LifecycleNext]_(Contract!contract)
  <1> DEFINE Step == [Contract!LifecycleNext]_(Contract!contract)
  <1>1. ASSUME NEW c \in Callers, NEW id \in VmIds, NEW ref \in SnapshotRefs \cup {None}, CreateCheck(c, id, ref) PROVE Step
    BY <1>1, Zenon DEF CreateCheck, Contract!contract
  <1>2. ASSUME NEW c \in Callers, NEW r \in Primitives, Attach(c, r) PROVE Step
    BY <1>2, Zenon DEF Attach, Contract!contract
  <1>3. ASSUME NEW c \in Callers, NEW r \in Primitives, ComposeFail(c, r) PROVE Step
    BY <1>3, Zenon DEF ComposeFail, Contract!contract
  <1>4. ASSUME NEW c \in Callers, MakeStateDir(c) PROVE Step
    BY <1>4, Zenon DEF MakeStateDir, Contract!contract
  <1>5. ASSUME NEW c \in Callers, SpawnFail(c) PROVE Step
    BY <1>5, Zenon DEF SpawnFail, Contract!contract
  <1>6. ASSUME NEW c \in Callers, NEW p \in Procs, Spawn(c, p) PROVE Step
    BY <1>6, Zenon DEF Spawn, Contract!contract
  <1>7. ASSUME NEW c \in Callers, WaitReady(c) PROVE Step
    BY <1>7, Zenon DEF WaitReady, Contract!contract
  <1>8. ASSUME NEW c \in Callers, Configure(c) PROVE Step
    BY <1>8, Zenon DEF Configure, Contract!contract
  <1>9. ASSUME NEW c \in Callers, LoadCheck(c) PROVE Step
    BY <1>9, Zenon DEF LoadCheck, Contract!contract
  <1>10. ASSUME NEW c \in Callers, LoadRequest(c) PROVE Step
    BY <1>10, Zenon DEF LoadRequest, Contract!contract
  <1>11. ASSUME NEW c \in Callers, CreateFail(c) PROVE Step
    BY <1>11, Zenon DEF CreateFail, Contract!contract
  <1>12a. ASSUME NEW c \in Callers, PublishConsole(c) PROVE Step
    BY <1>12a, Zenon DEF PublishConsole, Contract!contract
  <1>12. ASSUME NEW c \in Callers, PublishProcess(c) PROVE Step
    BY <1>12, Zenon DEF PublishProcess, Contract!contract
  <1>12b. ASSUME NEW c \in Callers, PublishHandler(c) PROVE Step
    BY <1>12b, Zenon DEF PublishHandler, Contract!contract
  <1>13. ASSUME NEW c \in Callers, PublishAttachments(c) PROVE Step
    BY <1>13, Zenon DEF PublishAttachments, Contract!contract
  <1>14. ASSUME NEW c \in Callers, InsertRecord(c) PROVE Step
    <2>1. /\ vm[c] \in VmIds /\ status[vm[c]] = None
          /\ status' = [status EXCEPT ![vm[c]] = InitialStatus(c)]
          /\ snapshots' = [snapshots EXCEPT ![vm[c]] = {}]
      BY <1>14, Zenon DEF TypeInv, CallOK, ClaimInv, CreatePcs, InsertRecord
    <2>2. InitialStatus(c) \in {"Created", "Running", "Stopped"}
      BY Zenon DEF InitialStatus
    <2>3. Contract!CreateVm(vm[c])
      BY <2>1, <2>2, Zenon DEF Contract!CreateVm
    <2> QED
      BY <2>1, <2>3, Zenon DEF Contract!LifecycleNext
  <1>15. ASSUME NEW c \in Callers, NEW id \in VmIds, DestroyKill(c, id) PROVE Step
    BY <1>15, Zenon DEF DestroyKill, Contract!contract
  <1>16. ASSUME NEW c \in Callers, DestroyRemove(c) PROVE Step
    <2>1. vm[c] \in VmIds /\ status[vm[c]] \in Live
      BY <1>16, Zenon DEF TypeInv, CallOK, ClaimInv, DestroyRemove
    <2>2. Contract!DestroyVm(vm[c])
      BY <1>16, <2>1, Zenon DEF DestroyRemove, Live, Contract!DestroyVm, Contract!Live,
         Contract!Status
    <2> QED
      BY <2>1, <2>2, Zenon DEF Contract!LifecycleNext
  <1>17. ASSUME NEW c \in Callers, NEW old \in VmIds, NEW new \in VmIds, RenameStateDir(c, old, new) PROVE Step
    BY <1>17, Zenon DEF RenameStateDir, Contract!contract
  <1>18. ASSUME NEW c \in Callers, RenameHolder(c) PROVE Step
    <2>1. /\ vm[c] \in VmIds /\ status[vm[c]] \in Live
          /\ dst[c] \in VmIds /\ status[dst[c]] = None
      BY <1>18, Zenon DEF TypeInv, CallOK, ClaimInv, RenameHolder
    <2>2. Contract!RenameVm(vm[c], dst[c])
      BY <1>18, <2>1, Zenon DEF RenameHolder, MoveEntry, Live, Contract!RenameVm,
         Contract!Live, Contract!Status
    <2> QED
      BY <2>1, <2>2, Zenon DEF Contract!LifecycleNext
  <1>19. ASSUME NEW c \in Callers, RenameRollback(c) PROVE Step
    BY <1>19, Zenon DEF RenameRollback, Contract!contract
  <1>20. ASSUME NEW c \in Callers, Bind(c) PROVE Step
    BY <1>20, Zenon DEF Bind, Contract!contract
  <1>21. ASSUME NEW id \in VmIds, NEW replied \in BOOLEAN, StartVm(id, replied) PROVE Step
    <2>1. Contract!StartVm(id) \/ UNCHANGED <<status, snapshots>>
      BY <1>21, Zenon DEF StartVm, Execute, Contract!StartVm
    <2> QED
      BY <2>1, Zenon DEF Contract!LifecycleNext, Contract!contract
  <1>22. ASSUME NEW id \in VmIds, NEW replied \in BOOLEAN, StopVm(id, replied) PROVE Step
    <2>1. Contract!StopVm(id) \/ UNCHANGED <<status, snapshots>>
      BY <1>22, Zenon DEF StopVm, Execute, Contract!StopVm
    <2> QED
      BY <2>1, Zenon DEF Contract!LifecycleNext, Contract!contract
  <1>23. ASSUME NEW id \in VmIds, NEW s \in Snaps, SnapshotVm(id, s) PROVE Step
    <2>1. Contract!SnapshotVm(id, s)
      BY <1>23, Zenon DEF SnapshotVm, MaySnapshot, Live, Contract!SnapshotVm,
         Contract!Live, Contract!Status
    <2> QED
      BY <2>1, Zenon DEF Contract!LifecycleNext
  <1>24. ASSUME NEW id \in VmIds, NEW s \in Snaps, SnapshotFail(id, s) PROVE Step
    BY <1>24, Zenon DEF SnapshotFail, Contract!contract
  <1>25. ASSUME NEW p \in Procs, PagerOpen(p) PROVE Step
    BY <1>25, Zenon DEF PagerOpen, Contract!contract
  <1>26. ASSUME NEW p \in Procs, ProcessExit(p) PROVE Step
    BY <1>26, Zenon DEF ProcessExit, Contract!contract
  <1>27. CASE UNCHANGED vars
    BY <1>27, Zenon DEF vars, Contract!contract
  <1> QED
    BY <1>1, <1>2, <1>3, <1>4, <1>5, <1>6, <1>7, <1>8, <1>9, <1>10, <1>11, <1>12a, <1>12, <1>12b, <1>13,
       <1>14, <1>15, <1>16, <1>17, <1>18, <1>19, <1>20, <1>21, <1>22, <1>23, <1>24, <1>25,
       <1>26, <1>27, Zenon DEF Next, CallBegin, CallStep, CreateBegin

(* With one owner per id, the adapter implements the contract of the        *)
(* VmProvider trait, for every number of ids, callers and processes.        *)
THEOREM ContractImplemented == ASSUME OneOwnerPerId PROVE Spec => ImplementsContract
  <1>1. Init => Contract!LifecycleInit
    BY Zenon DEF Init, Contract!LifecycleInit
  <1>2. TypeInv /\ ClaimInv /\ [Next]_vars => [Contract!LifecycleNext]_(Contract!contract)
    BY ContractStep, Zenon
  <1> QED
    BY <1>1, <1>2, ClaimsHold, PTL DEF Spec, ImplementsContract, Contract!LifecycleSpec

-----------------------------------------------------------------------------
Tended == {"up", "zombie"}

OwnPcs == {"wait", "configure", "check", "load", "console", "process"}

PublishPcs == {"handler", "attachments", "record"}

(* Who has a process: the map, under an id that is live or being published, *)
(* or one create in flight; never two of them.                              *)
Filed ==
    \A id \in VmIds : processes[id] # None =>
        /\ life[processes[id]] \in Tended
        /\ \/ status[id] \in Live
           \/ \E c \in Callers : vm[c] = id /\ pc[c] \in PublishPcs

FiledOnce ==
    \A i, j \in VmIds : processes[i] = processes[j] /\ processes[i] # None => i = j

Owned ==
    \A c \in Callers : pc[c] \in OwnPcs =>
        /\ life[child[c]] \in Tended
        /\ \A id \in VmIds : processes[id] # child[c]

OwnedOnce ==
    \A c, d \in Callers :
        pc[c] \in OwnPcs /\ pc[d] \in OwnPcs /\ child[c] = child[d] => c = d

Emptied == \A c \in Callers : pc[c] = "destroy" => processes[vm[c]] = None

Found ==
    \A p \in Procs : life[p] \in Tended =>
        \/ \E c \in Callers : child[c] = p /\ pc[c] \in OwnPcs
        \/ \E id \in VmIds : processes[id] = p

ProcInv == Filed /\ FiledOnce /\ Owned /\ OwnedOnce /\ Emptied /\ Found

LEMMA InitProcs == Init => ProcInv
  BY DEF Init, ProcInv, Filed, FiledOnce, Owned, OwnedOnce, Emptied, Found, OwnPcs, Tended

LEMMA NoOrphans == ProcInv => NoOrphanProcess
  BY DEF ProcInv, Filed, Found, NoOrphanProcess, Tended, OwnPcs, PublishPcs, Owns, Publishing

(* The typing of the variables the ownership argument is about.             *)
LEMMA ProcTypes ==
    ASSUME TypeInv
    PROVE  /\ pc \in [Callers -> CreatePcs \cup {"idle", "destroy", "rename"}]
           /\ vm \in [Callers -> VmIds \cup {None}]
           /\ child \in [Callers -> Procs \cup {None}]
           /\ status \in [VmIds -> Live \cup {"Destroyed", None}]
           /\ processes \in [VmIds -> Procs \cup {None}]
           /\ life \in [Procs -> {"unused", "up", "zombie", "reaped"}]
           /\ \A c \in Callers : pc[c] \in OwnPcs => child[c] \in Procs
           /\ \A c \in Callers : pc[c] # "idle" => vm[c] \in VmIds
  BY Zenon DEF TypeInv, TypeOK, CallOK, ChildPcs, OwnPcs

(* A step that leaves the map, the owners and the need to be tended alone.  *)
LEMMA ProcFrame ==
    ASSUME TypeInv, ProcInv, processes' = processes,
           \A p \in Procs : life'[p] \in Tended <=> life[p] \in Tended,
           \A c \in Callers : pc'[c] \in OwnPcs <=> pc[c] \in OwnPcs,
           \A c \in Callers : pc[c] \in OwnPcs => child'[c] = child[c],
           \A c \in Callers : pc[c] \in PublishPcs =>
               (pc'[c] \in PublishPcs /\ vm'[c] = vm[c]) \/ status'[vm[c]] \in Live,
           \A id \in VmIds : status[id] \in Live => status'[id] \in Live,
           \A c \in Callers : pc'[c] = "destroy" => pc[c] = "destroy" /\ vm'[c] = vm[c]
    PROVE  ProcInv'
  <1>0. /\ \A id \in VmIds : processes[id] \in Procs \cup {None}
        /\ \A c \in Callers : pc[c] \in OwnPcs => child[c] \in Procs
        /\ \A c \in Callers : pc[c] # "idle" => vm[c] \in VmIds
    BY ProcTypes, Zenon
  <1>1. Filed'
    BY <1>0 DEF ProcInv, Filed
  <1>2. FiledOnce'
    BY Zenon DEF ProcInv, FiledOnce
  <1>3. Owned'
    BY <1>0, Zenon DEF ProcInv, Owned
  <1>4. OwnedOnce'
    BY Zenon DEF ProcInv, OwnedOnce
  <1>5. Emptied'
    BY Zenon DEF ProcInv, Emptied
  <1>6. Found'
    BY Zenon DEF ProcInv, Found
  <1> QED
    BY <1>1, <1>2, <1>3, <1>4, <1>5, <1>6, Zenon DEF ProcInv

(* Steps that concern no call, and steps of a call that neither take nor    *)
(* give up a process.                                                       *)
LEMMA ProcQuiet ==
    ASSUME TypeInv, ProcInv, UNCHANGED <<processes, life, status, pc, vm, child>>
    PROVE  ProcInv'
  BY Zenon DEF ProcInv, Filed, FiledOnce, Owned, OwnedOnce, Emptied, Found

LEMMA ProcMove ==
    ASSUME TypeInv, ProcInv, NEW c \in Callers, Others(c), pc'[c] # "destroy",
           pc[c] \notin PublishPcs \/ (pc'[c] \in PublishPcs /\ vm'[c] = vm[c]),
           \/ pc[c] \in OwnPcs /\ pc'[c] \in OwnPcs /\ child'[c] = child[c]
           \/ pc[c] \notin OwnPcs /\ pc'[c] \notin OwnPcs,
           UNCHANGED <<processes, life, status>>
    PROVE  ProcInv'
  <1>1. \A d \in Callers : /\ pc'[d] \in OwnPcs <=> pc[d] \in OwnPcs
                           /\ pc[d] \in OwnPcs => child'[d] = child[d]
    BY Zenon DEF Others
  <1>2. \A d \in Callers : pc[d] \in PublishPcs => pc'[d] \in PublishPcs /\ vm'[d] = vm[d]
    BY Zenon DEF Others
  <1>3. \A d \in Callers : pc'[d] = "destroy" => pc[d] = "destroy" /\ vm'[d] = vm[d]
    BY Zenon DEF Others
  <1> QED
    BY <1>1, <1>2, <1>3, ProcFrame, Zenon

LEMMA ProcStep ==
    ASSUME TypeInv, TypeInv', ClaimInv, ClaimInv', ProcInv, [Next]_vars PROVE ProcInv'
  <1>1. ASSUME NEW c \in Callers, NEW id \in VmIds, NEW ref \in SnapshotRefs \cup {None}, CreateCheck(c, id, ref) PROVE ProcInv'
    <2>1. /\ pc[c] = "idle" /\ Begin(c, "compose", id, None, ref)
          /\ UNCHANGED <<processes, life, status>>
      BY <1>1, Zenon DEF CreateCheck
    <2> QED
      BY <2>1, BeginLocals, ProcMove, Zenon DEF OwnPcs, PublishPcs
  <1>2. ASSUME NEW c \in Callers, NEW r \in Primitives, Attach(c, r) PROVE ProcInv'
    <2>1. UNCHANGED <<processes, life, status, pc, vm, child>>
      BY <1>2, Zenon DEF Attach
    <2> QED
      BY <2>1, ProcQuiet, Zenon
  <1>3. ASSUME NEW c \in Callers, NEW r \in Primitives, ComposeFail(c, r) PROVE ProcInv'
    <2>1. /\ pc[c] = "compose" /\ Return(c)
          /\ UNCHANGED <<processes, life, status>>
      BY <1>3, Zenon DEF ComposeFail
    <2> QED
      BY <2>1, ReturnLocals, ProcMove, Zenon DEF OwnPcs, PublishPcs
  <1>4. ASSUME NEW c \in Callers, MakeStateDir(c) PROVE ProcInv'
    <2>1. /\ pc[c] = "compose" /\ pc' = [pc EXCEPT ![c] = "spawn"] /\ UNCHANGED <<vm, dst, child>>
          /\ UNCHANGED <<processes, life, status>>
      BY <1>4, Zenon DEF MakeStateDir, Goto
    <2> QED
      BY <2>1, GotoLocals, ProcMove, Zenon DEF OwnPcs, PublishPcs
  <1>5. ASSUME NEW c \in Callers, SpawnFail(c) PROVE ProcInv'
    <2>1. /\ pc[c] \in {"compose", "spawn"} /\ Return(c)
          /\ UNCHANGED <<processes, life, status>>
      BY <1>5, Zenon DEF SpawnFail
    <2> QED
      BY <2>1, ReturnLocals, ProcMove, Zenon DEF OwnPcs, PublishPcs
  <1>6. ASSUME NEW c \in Callers, NEW p \in Procs, Spawn(c, p) PROVE ProcInv'
    <2>1. /\ pc[c] = "spawn" /\ pc' = [pc EXCEPT ![c] = "wait"]
          /\ child' = [child EXCEPT ![c] = p] /\ vm' = vm
          /\ life[p] = "unused" /\ life' = [life EXCEPT ![p] = "up"]
          /\ status' = status /\ processes' = processes
      BY <1>6, Zenon DEF Spawn
    <2>2. \A i \in VmIds : processes[i] # p
      BY <2>1 DEF ProcInv, Filed, Tended
    <2>3. \A d \in Callers : pc[d] \in OwnPcs => child[d] # p
      BY <2>1, Zenon DEF ProcInv, Owned, Tended
    <2>9. /\ \A i \in VmIds : processes[i] \in Procs \cup {None}
          /\ \A d \in Callers : pc[d] \in OwnPcs => child[d] \in Procs
          /\ None \notin Procs /\ None \notin VmIds /\ None \notin Live
      BY ProcTypes, Zenon DEF Live
    <2>10. /\ pc'[c] = "wait" /\ child'[c] = p /\ vm'[c] = vm[c]
           /\ \A d \in Callers : d # c => pc'[d] = pc[d] /\ child'[d] = child[d] /\ vm'[d] = vm[d]
      BY <2>1, ProcTypes, Zenon
    <2>20. \A q \in Procs : life'[q] = IF q = p THEN "up" ELSE life[q]
      BY <2>1, ProcTypes, Zenon
    <2>11. Filed'
      BY <2>1, <2>2, <2>3, <2>9, <2>10, <2>20 DEF ProcInv, Filed, Tended, PublishPcs
    <2>12. FiledOnce'
      BY <2>1, <2>2, <2>3, <2>9, <2>10, <2>20, Zenon DEF ProcInv, FiledOnce
    <2>13. Owned'
      BY <2>1, <2>2, <2>3, <2>9, <2>10, <2>20 DEF ProcInv, Owned, Tended, OwnPcs
    <2>14. OwnedOnce'
      BY <2>1, <2>2, <2>3, <2>9, <2>10, <2>20 DEF ProcInv, OwnedOnce, OwnPcs
    <2>15. Emptied'
      BY <2>1, <2>2, <2>3, <2>9, <2>10, <2>20 DEF ProcInv, Emptied
    <2>16. Found'
      BY <2>1, <2>2, <2>3, <2>9, <2>10, <2>20 DEF ProcInv, Found, Tended, OwnPcs
    <2> QED
      BY <2>11, <2>12, <2>13, <2>14, <2>15, <2>16, Zenon DEF ProcInv
  <1>7. ASSUME NEW c \in Callers, WaitReady(c) PROVE ProcInv'
    <2>1. /\ pc[c] = "wait" /\ UNCHANGED <<vm, dst, child>>
          /\ pc' = [pc EXCEPT ![c] = IF src[c] = None THEN "configure" ELSE "check"]
          /\ UNCHANGED <<processes, life, status>>
      BY <1>7, Zenon DEF WaitReady, Goto
    <2>2. Others(c) /\ pc'[c] \in {"configure", "check"} /\ child'[c] = child[c]
      BY <2>1, GotoLocals, Zenon
    <2> QED
      BY <2>1, <2>2, ProcMove, Zenon DEF OwnPcs, PublishPcs
  <1>8. ASSUME NEW c \in Callers, Configure(c) PROVE ProcInv'
    <2>1. /\ pc[c] = "configure" /\ pc' = [pc EXCEPT ![c] = "console"] /\ UNCHANGED <<vm, dst, child>>
          /\ UNCHANGED <<processes, life, status>>
      BY <1>8, Zenon DEF Configure, Goto
    <2> QED
      BY <2>1, GotoLocals, ProcMove, Zenon DEF OwnPcs, PublishPcs
  <1>9. ASSUME NEW c \in Callers, LoadCheck(c) PROVE ProcInv'
    <2>1. /\ pc[c] = "check" /\ pc' = [pc EXCEPT ![c] = "load"] /\ UNCHANGED <<vm, dst, child>>
          /\ UNCHANGED <<processes, life, status>>
      BY <1>9, Zenon DEF LoadCheck, Goto
    <2> QED
      BY <2>1, GotoLocals, ProcMove, Zenon DEF OwnPcs, PublishPcs
  <1>10. ASSUME NEW c \in Callers, LoadRequest(c) PROVE ProcInv'
    <2>1. /\ pc[c] = "load" /\ pc' = [pc EXCEPT ![c] = "console"] /\ UNCHANGED <<vm, dst, child>>
          /\ UNCHANGED <<processes, life, status>>
      BY <1>10, Zenon DEF LoadRequest, Goto
    <2> QED
      BY <2>1, GotoLocals, ProcMove, Zenon DEF OwnPcs, PublishPcs
  <1>11. ASSUME NEW c \in Callers, CreateFail(c) PROVE ProcInv'
    <2>1. /\ pc[c] \in OwnPcs /\ pc' = [pc EXCEPT ![c] = "idle"]
          /\ child' = [child EXCEPT ![c] = None] /\ vm' = [vm EXCEPT ![c] = None]
          /\ life' = [life EXCEPT ![child[c]] = "reaped"]
          /\ status' = status /\ processes' = processes
      BY <1>11, Zenon DEF CreateFail, Fallible, OwnPcs, KillAndReap, Return
    <2>2. child[c] \in Procs /\ pc[c] \notin PublishPcs
      BY <2>1, ProcTypes, Zenon DEF OwnPcs, PublishPcs
    <2>3. \A i \in VmIds : processes[i] # child[c]
      BY <2>1, Zenon DEF ProcInv, Owned
    <2>4. \A d \in Callers : d # c /\ pc[d] \in OwnPcs => child[d] # child[c]
      BY <2>1, Zenon DEF ProcInv, OwnedOnce
    <2>9. /\ \A i \in VmIds : processes[i] \in Procs \cup {None}
          /\ \A d \in Callers : pc[d] \in OwnPcs => child[d] \in Procs
          /\ None \notin Procs /\ None \notin VmIds /\ None \notin Live
      BY ProcTypes, Zenon DEF Live
    <2>10. /\ pc'[c] = "idle" /\ child'[c] = None /\ vm'[c] = None
           /\ \A d \in Callers : d # c => pc'[d] = pc[d] /\ child'[d] = child[d] /\ vm'[d] = vm[d]
      BY <2>1, ProcTypes, Zenon
    <2>20. \A q \in Procs : life'[q] = IF q = child[c] THEN "reaped" ELSE life[q]
      BY <2>1, <2>2, ProcTypes, Zenon
    <2>11. Filed'
      BY <2>1, <2>2, <2>3, <2>4, <2>9, <2>10, <2>20 DEF ProcInv, Filed, Tended, PublishPcs
    <2>12. FiledOnce'
      BY <2>1, <2>2, <2>3, <2>4, <2>9, <2>10, <2>20, Zenon DEF ProcInv, FiledOnce
    <2>13. Owned'
      BY <2>1, <2>2, <2>3, <2>4, <2>9, <2>10, <2>20 DEF ProcInv, Owned, Tended, OwnPcs
    <2>14. OwnedOnce'
      BY <2>1, <2>2, <2>3, <2>4, <2>9, <2>10, <2>20 DEF ProcInv, OwnedOnce, OwnPcs
    <2>15. Emptied'
      BY <2>1, <2>2, <2>3, <2>4, <2>9, <2>10, <2>20 DEF ProcInv, Emptied
    <2>16. Found'
      BY <2>1, <2>2, <2>3, <2>4, <2>9, <2>10, <2>20 DEF ProcInv, Found, Tended, OwnPcs
    <2> QED
      BY <2>11, <2>12, <2>13, <2>14, <2>15, <2>16, Zenon DEF ProcInv
  <1>12a. ASSUME NEW c \in Callers, PublishConsole(c) PROVE ProcInv'
    <2>1. /\ pc[c] = "console" /\ pc' = [pc EXCEPT ![c] = "process"] /\ UNCHANGED <<vm, dst, child>>
          /\ UNCHANGED <<processes, life, status>>
      BY <1>12a, Zenon DEF PublishConsole, Goto
    <2> QED
      BY <2>1, GotoLocals, ProcMove, Zenon DEF OwnPcs, PublishPcs
  <1>12. ASSUME NEW c \in Callers, PublishProcess(c) PROVE ProcInv'
    <2>1. /\ pc[c] = "process" /\ pc' = [pc EXCEPT ![c] = "handler"]
          /\ child' = child /\ vm' = vm /\ life' = life /\ status' = status
          /\ processes' = [processes EXCEPT ![vm[c]] = child[c]]
      BY <1>12, Zenon DEF PublishProcess, Goto
    <2>2. /\ child[c] \in Procs /\ vm[c] \in VmIds
          /\ life[child[c]] \in Tended /\ \A i \in VmIds : processes[i] # child[c]
      BY <2>1, ProcTypes, Zenon DEF OwnPcs, ProcInv, Owned
    <2>3. processes[vm[c]] = None
      <3>1. status[vm[c]] = None
        BY <2>1, Zenon DEF ClaimInv, CreatePcs
      <3>2. ASSUME NEW d \in Callers, vm[d] = vm[c], pc[d] \in PublishPcs PROVE FALSE
        BY <2>1, <2>2, <3>2, Zenon DEF ClaimInv, Claims, PublishPcs
      <3> QED
        BY <2>2, <3>1, <3>2, Zenon DEF ProcInv, Filed, Live
    <2>4. \A d \in Callers : d # c /\ pc[d] \in OwnPcs => child[d] # child[c]
      BY <2>1, Zenon DEF ProcInv, OwnedOnce, OwnPcs
    <2>5. \A d \in Callers : pc[d] = "destroy" => vm[d] # vm[c]
      BY <2>1 DEF ClaimInv, CreatePcs, Live
    <2>9. /\ \A i \in VmIds : processes[i] \in Procs \cup {None}
          /\ \A d \in Callers : pc[d] \in OwnPcs => child[d] \in Procs
          /\ None \notin Procs /\ None \notin VmIds /\ None \notin Live
      BY ProcTypes, Zenon DEF Live
    <2>10. /\ pc'[c] = "handler" /\ child'[c] = child[c] /\ vm'[c] = vm[c]
           /\ \A d \in Callers : d # c => pc'[d] = pc[d] /\ child'[d] = child[d] /\ vm'[d] = vm[d]
      BY <2>1, ProcTypes, Zenon
    <2>20. \A i \in VmIds : processes'[i] = IF i = vm[c] THEN child[c] ELSE processes[i]
      BY <2>1, <2>2, ProcTypes, Zenon
    <2>11. Filed'
      BY <2>1, <2>2, <2>3, <2>4, <2>5, <2>9, <2>10, <2>20 DEF ProcInv, Filed, Tended, PublishPcs
    <2>12. FiledOnce'
      BY <2>1, <2>2, <2>3, <2>4, <2>5, <2>9, <2>10, <2>20 DEF ProcInv, FiledOnce
    <2>13. Owned'
      BY <2>1, <2>2, <2>3, <2>4, <2>5, <2>9, <2>10, <2>20 DEF ProcInv, Owned, Tended, OwnPcs
    <2>14. OwnedOnce'
      BY <2>1, <2>2, <2>3, <2>4, <2>5, <2>9, <2>10, <2>20 DEF ProcInv, OwnedOnce, OwnPcs
    <2>15. Emptied'
      BY <2>1, <2>2, <2>3, <2>4, <2>5, <2>9, <2>10, <2>20 DEF ProcInv, Emptied
    <2>16. Found'
      BY <2>1, <2>2, <2>3, <2>4, <2>5, <2>9, <2>10, <2>20 DEF ProcInv, Found, Tended, OwnPcs
    <2> QED
      BY <2>11, <2>12, <2>13, <2>14, <2>15, <2>16, Zenon DEF ProcInv
  <1>12b. ASSUME NEW c \in Callers, PublishHandler(c) PROVE ProcInv'
    <2>1. /\ pc[c] = "handler" /\ pc' = [pc EXCEPT ![c] = "attachments"] /\ UNCHANGED <<vm, dst, child>>
          /\ UNCHANGED <<processes, life, status>>
      BY <1>12b, Zenon DEF PublishHandler, Goto
    <2> QED
      BY <2>1, GotoLocals, ProcMove, Zenon DEF OwnPcs, PublishPcs
  <1>13. ASSUME NEW c \in Callers, PublishAttachments(c) PROVE ProcInv'
    <2>1. /\ pc[c] = "attachments" /\ pc' = [pc EXCEPT ![c] = "record"] /\ UNCHANGED <<vm, dst, child>>
          /\ UNCHANGED <<processes, life, status>>
      BY <1>13, Zenon DEF PublishAttachments
    <2> QED
      BY <2>1, GotoLocals, ProcMove, Zenon DEF OwnPcs, PublishPcs
  <1>14. ASSUME NEW c \in Callers, InsertRecord(c) PROVE ProcInv'
    <2>1. /\ pc[c] = "record" /\ Return(c) /\ UNCHANGED <<processes, life>>
          /\ status' = [status EXCEPT ![vm[c]] = InitialStatus(c)]
      BY <1>14, Zenon DEF InsertRecord
    <2>2. Others(c) /\ pc'[c] = "idle"
      BY <2>1, ReturnLocals, Zenon
    <2>3. vm[c] \in VmIds /\ InitialStatus(c) \in Live
      BY <2>1, ProcTypes, Zenon DEF InitialStatus, Live
    <2>4. \A i \in VmIds : (i = vm[c] \/ status[i] \in Live) => status'[i] \in Live
      BY <2>1, <2>3, ProcTypes, Zenon
    <2>5. \A d \in Callers : /\ pc'[d] \in OwnPcs <=> pc[d] \in OwnPcs
                             /\ pc[d] \in OwnPcs => child'[d] = child[d]
                             /\ pc'[d] = "destroy" => pc[d] = "destroy" /\ vm'[d] = vm[d]
      BY <2>1, <2>2, Zenon DEF Others, OwnPcs
    <2>6. \A d \in Callers : pc[d] \in PublishPcs =>
              (pc'[d] \in PublishPcs /\ vm'[d] = vm[d]) \/ status'[vm[d]] \in Live
      BY <2>2, <2>3, <2>4, Zenon DEF Others
    <2> QED
      BY <2>1, <2>4, <2>5, <2>6, ProcFrame, Zenon
  <1>15. ASSUME NEW c \in Callers, NEW id \in VmIds, DestroyKill(c, id) PROVE ProcInv'
    <2>1. /\ pc[c] = "idle" /\ pc' = [pc EXCEPT ![c] = "destroy"]
          /\ child' = child /\ vm' = [vm EXCEPT ![c] = id] /\ status' = status
          /\ processes' = [processes EXCEPT ![id] = None]
          /\ life' = IF processes[id] # None THEN [life EXCEPT ![processes[id]] = "reaped"] ELSE life
      BY <1>15, Zenon DEF DestroyKill, KillAndReap, Begin
    <2>2. processes[id] \in Procs \cup {None} /\ None \notin Procs
      BY ProcTypes, Zenon
    <2>3. \A i \in VmIds : i # id /\ processes[i] # None => processes[i] # processes[id]
      BY <2>1, Zenon DEF ProcInv, FiledOnce
    <2>4. \A d \in Callers : pc[d] \in OwnPcs => child[d] # processes[id]
      BY <2>1, Zenon DEF ProcInv, Owned
    <2>5. \A d \in Callers : pc[d] = "destroy" => vm[d] \in VmIds
      BY ProcTypes, Zenon
    <2>9. /\ \A i \in VmIds : processes[i] \in Procs \cup {None}
          /\ \A d \in Callers : pc[d] \in OwnPcs => child[d] \in Procs
          /\ None \notin Procs /\ None \notin VmIds /\ None \notin Live
      BY ProcTypes, Zenon DEF Live
    <2>10. /\ pc'[c] = "destroy" /\ child'[c] = child[c] /\ vm'[c] = id
           /\ \A d \in Callers : d # c => pc'[d] = pc[d] /\ child'[d] = child[d] /\ vm'[d] = vm[d]
      BY <2>1, ProcTypes, Zenon
    <2>20. \A i \in VmIds : processes'[i] = IF i = id THEN None ELSE processes[i]
      BY <2>1, ProcTypes, Zenon
    <2>21. \A q \in Procs : life'[q] = IF q = processes[id] THEN "reaped" ELSE life[q]
      BY <2>1, <2>2, ProcTypes, Zenon
    <2>11. Filed'
      BY <2>1, <2>2, <2>3, <2>4, <2>5, <2>9, <2>10, <2>20, <2>21 DEF ProcInv, Filed,
         Tended, PublishPcs
    <2>12. FiledOnce'
      BY <2>1, <2>2, <2>3, <2>4, <2>5, <2>9, <2>10, <2>20, <2>21 DEF ProcInv, FiledOnce
    <2>13. Owned'
      BY <2>1, <2>2, <2>3, <2>4, <2>5, <2>9, <2>10, <2>20, <2>21 DEF ProcInv, Owned,
         Tended, OwnPcs
    <2>14. OwnedOnce'
      BY <2>1, <2>2, <2>3, <2>4, <2>5, <2>9, <2>10, <2>20, <2>21 DEF ProcInv, OwnedOnce, OwnPcs
    <2>15. Emptied'
      BY <2>1, <2>2, <2>3, <2>4, <2>5, <2>9, <2>10, <2>20, <2>21 DEF ProcInv, Emptied
    <2>16. Found'
      BY <2>1, <2>2, <2>3, <2>4, <2>5, <2>9, <2>10, <2>20, <2>21 DEF ProcInv, Found,
         Tended, OwnPcs
    <2> QED
      BY <2>11, <2>12, <2>13, <2>14, <2>15, <2>16, Zenon DEF ProcInv
  <1>16. ASSUME NEW c \in Callers, DestroyRemove(c) PROVE ProcInv'
    <2>1. /\ pc[c] = "destroy" /\ pc' = [pc EXCEPT ![c] = "idle"]
          /\ child' = [child EXCEPT ![c] = None] /\ vm' = [vm EXCEPT ![c] = None]
          /\ status' = [status EXCEPT ![vm[c]] = "Destroyed"]
          /\ processes' = processes /\ life' = life
      BY <1>16, Zenon DEF DestroyRemove, Return
    <2>2. processes[vm[c]] = None /\ pc[c] \notin OwnPcs \cup PublishPcs
      BY <2>1, Zenon DEF ProcInv, Emptied, OwnPcs, PublishPcs
    <2>9. /\ \A i \in VmIds : processes[i] \in Procs \cup {None}
          /\ \A d \in Callers : pc[d] \in OwnPcs => child[d] \in Procs
          /\ None \notin Procs /\ None \notin VmIds /\ None \notin Live
      BY ProcTypes, Zenon DEF Live
    <2>10. /\ pc'[c] = "idle" /\ child'[c] = None /\ vm'[c] = None
           /\ \A d \in Callers : d # c => pc'[d] = pc[d] /\ child'[d] = child[d] /\ vm'[d] = vm[d]
      BY <2>1, ProcTypes, Zenon
    <2>20. \A i \in VmIds : i # vm[c] => status'[i] = status[i]
      BY <2>1, ProcTypes, Zenon
    <2>11. Filed'
      BY <2>1, <2>2, <2>9, <2>10, <2>20 DEF ProcInv, Filed, Tended, PublishPcs
    <2>12. FiledOnce'
      BY <2>1, <2>2, <2>9, <2>10, <2>20, Zenon DEF ProcInv, FiledOnce
    <2>13. Owned'
      BY <2>1, <2>2, <2>9, <2>10, <2>20 DEF ProcInv, Owned, Tended, OwnPcs
    <2>14. OwnedOnce'
      BY <2>1, <2>2, <2>9, <2>10, <2>20 DEF ProcInv, OwnedOnce, OwnPcs
    <2>15. Emptied'
      BY <2>1, <2>2, <2>9, <2>10, <2>20 DEF ProcInv, Emptied
    <2>16. Found'
      BY <2>1, <2>2, <2>9, <2>10, <2>20 DEF ProcInv, Found, Tended, OwnPcs
    <2> QED
      BY <2>11, <2>12, <2>13, <2>14, <2>15, <2>16, Zenon DEF ProcInv
  <1>17. ASSUME NEW c \in Callers, NEW old \in VmIds, NEW new \in VmIds, RenameStateDir(c, old, new) PROVE ProcInv'
    <2>1. /\ pc[c] = "idle" /\ Begin(c, "rename", old, new, None)
          /\ UNCHANGED <<processes, life, status>>
      BY <1>17, Zenon DEF RenameStateDir
    <2> QED
      BY <2>1, BeginLocals, ProcMove, Zenon DEF OwnPcs, PublishPcs
  <1>18. ASSUME NEW c \in Callers, RenameHolder(c) PROVE ProcInv'
    <2>1. /\ pc[c] = "rename" /\ pc' = [pc EXCEPT ![c] = "idle"]
          /\ child' = [child EXCEPT ![c] = None] /\ vm' = [vm EXCEPT ![c] = None]
          /\ status' = [status EXCEPT ![dst[c]] = status[vm[c]], ![vm[c]] = None]
          /\ processes' = IF processes[vm[c]] # None
                          THEN [processes EXCEPT ![dst[c]] = processes[vm[c]], ![vm[c]] = None]
                          ELSE processes
          /\ life' = life
      BY <1>18, Zenon DEF RenameHolder, MoveEntry, Return
    <2>2. vm[c] \in VmIds /\ dst[c] \in VmIds /\ dst[c] # vm[c] /\ status[vm[c]] \in Live
      BY <2>1, Zenon DEF TypeInv, CallOK, ClaimInv
    <2>3. processes[dst[c]] = None
      <3>1. status[dst[c]] = None
        BY <2>1, Zenon DEF ClaimInv
      <3>2. ASSUME NEW d \in Callers, vm[d] = dst[c], pc[d] \in PublishPcs PROVE FALSE
        BY <2>1, <2>2, <3>2, Zenon DEF ClaimInv, Claims, PublishPcs
      <3> QED
        BY <2>2, <3>1, <3>2, Zenon DEF ProcInv, Filed, Live
    <2>4. \A d \in Callers : pc[d] # "destroy"
      BY <2>1, Zenon DEF ClaimInv
    <2>5. pc[c] \notin OwnPcs \cup PublishPcs
      BY <2>1, Zenon DEF OwnPcs, PublishPcs
    <2>9. /\ \A i \in VmIds : processes[i] \in Procs \cup {None}
          /\ \A d \in Callers : pc[d] \in OwnPcs => child[d] \in Procs
          /\ None \notin Procs /\ None \notin VmIds /\ None \notin Live
      BY ProcTypes, Zenon DEF Live
    <2>10. /\ pc'[c] = "idle" /\ child'[c] = None /\ vm'[c] = None
           /\ \A d \in Callers : d # c => pc'[d] = pc[d] /\ child'[d] = child[d] /\ vm'[d] = vm[d]
      BY <2>1, ProcTypes, Zenon
    <2>20. /\ processes'[vm[c]] = None /\ processes'[dst[c]] = processes[vm[c]]
           /\ \A i \in VmIds : i # vm[c] /\ i # dst[c] => processes'[i] = processes[i]
      <3>1. CASE processes[vm[c]] # None
        BY <2>1, <2>2, <3>1, ProcTypes, Zenon
      <3>2. CASE processes[vm[c]] = None
        BY <2>1, <2>3, <3>2, Zenon
      <3> QED
        BY <3>1, <3>2, Zenon
    <2>21. /\ status'[dst[c]] = status[vm[c]]
           /\ \A i \in VmIds : i # vm[c] /\ i # dst[c] => status'[i] = status[i]
      BY <2>1, <2>2, ProcTypes, Zenon
    <2>22. life' = life
      BY <2>1, Zenon
    <2>11. Filed'
      BY <2>2, <2>5, <2>10, <2>20, <2>21, <2>22 DEF ProcInv, Filed
    <2>12. FiledOnce'
      BY <2>2, <2>20 DEF ProcInv, FiledOnce
    <2>13. Owned'
      BY <2>2, <2>5, <2>9, <2>10, <2>20, <2>22 DEF ProcInv, Owned, OwnPcs
    <2>14. OwnedOnce'
      BY <2>10 DEF ProcInv, OwnedOnce, OwnPcs
    <2>15. Emptied'
      BY <2>4, <2>10, Zenon DEF Emptied
    <2>16. Found'
      <3> SUFFICES ASSUME NEW q \in Procs, life[q] \in Tended
                   PROVE  \/ \E d \in Callers : child'[d] = q /\ pc'[d] \in OwnPcs
                          \/ \E i \in VmIds : processes'[i] = q
        BY <2>22, Zenon DEF Found
      <3>1. CASE \E d \in Callers : child[d] = q /\ pc[d] \in OwnPcs
        BY <2>5, <2>10, <3>1, Zenon
      <3>2. CASE \E i \in VmIds : processes[i] = q
        BY <2>2, <2>3, <2>9, <2>20, <3>2, Zenon
      <3> QED
        BY <3>1, <3>2, Zenon DEF ProcInv, Found
    <2> QED
      BY <2>11, <2>12, <2>13, <2>14, <2>15, <2>16, Zenon DEF ProcInv
  <1>19. ASSUME NEW c \in Callers, RenameRollback(c) PROVE ProcInv'
    <2>1. /\ pc[c] = "rename" /\ Return(c)
          /\ UNCHANGED <<processes, life, status>>
      BY <1>19, Zenon DEF RenameRollback
    <2> QED
      BY <2>1, ReturnLocals, ProcMove, Zenon DEF OwnPcs, PublishPcs
  <1>20. ASSUME NEW c \in Callers, Bind(c) PROVE ProcInv'
    <2>1. UNCHANGED <<processes, life, status, pc, vm, child>>
      BY <1>20, Zenon DEF Bind
    <2> QED
      BY <2>1, ProcQuiet, Zenon
  <1>21. ASSUME NEW id \in VmIds, NEW replied \in BOOLEAN, StartVm(id, replied) PROVE ProcInv'
    <2>1. processes' = processes /\ life' = life
      BY <1>21, Zenon DEF StartVm
    <2>2. \A i \in VmIds : status[i] \in Live => status'[i] \in Live
      BY <1>21, ProcTypes, Zenon DEF StartVm, Execute, Live
    <2>3. pc' = pc /\ vm' = vm /\ child' = child
      BY <1>21, Zenon DEF StartVm
    <2> QED
      BY <2>1, <2>2, <2>3, ProcFrame, Zenon
  <1>22. ASSUME NEW id \in VmIds, NEW replied \in BOOLEAN, StopVm(id, replied) PROVE ProcInv'
    <2>1. processes' = processes /\ life' = life
      BY <1>22, Zenon DEF StopVm
    <2>2. \A i \in VmIds : status[i] \in Live => status'[i] \in Live
      BY <1>22, ProcTypes, Zenon DEF StopVm, Execute, Live
    <2>3. pc' = pc /\ vm' = vm /\ child' = child
      BY <1>22, Zenon DEF StopVm
    <2> QED
      BY <2>1, <2>2, <2>3, ProcFrame, Zenon
  <1>23. ASSUME NEW id \in VmIds, NEW s \in Snaps, SnapshotVm(id, s) PROVE ProcInv'
    <2>1. UNCHANGED <<processes, life, status, pc, vm, child>>
      BY <1>23, Zenon DEF SnapshotVm
    <2> QED
      BY <2>1, ProcQuiet, Zenon
  <1>24. ASSUME NEW id \in VmIds, NEW s \in Snaps, SnapshotFail(id, s) PROVE ProcInv'
    <2>1. UNCHANGED <<processes, life, status, pc, vm, child>>
      BY <1>24, Zenon DEF SnapshotFail
    <2> QED
      BY <2>1, ProcQuiet, Zenon
  <1>25. ASSUME NEW p \in Procs, PagerOpen(p) PROVE ProcInv'
    <2>1. UNCHANGED <<processes, life, status, pc, vm, child>>
      BY <1>25, Zenon DEF PagerOpen
    <2> QED
      BY <2>1, ProcQuiet, Zenon
  <1>26. ASSUME NEW p \in Procs, ProcessExit(p) PROVE ProcInv'
    <2>1. processes' = processes /\ \A q \in Procs : life'[q] \in Tended <=> life[q] \in Tended
      BY <1>26, ProcTypes, Zenon DEF ProcessExit, Tended
    <2>2. status' = status
      BY <1>26, Zenon DEF ProcessExit
    <2>3. pc' = pc /\ vm' = vm /\ child' = child
      BY <1>26, Zenon DEF ProcessExit
    <2> QED
      BY <2>1, <2>2, <2>3, ProcFrame, Zenon
  <1>27. CASE UNCHANGED vars
    <2>1. UNCHANGED <<processes, life, status, pc, vm, child>>
      BY <1>27, Zenon DEF vars
    <2> QED
      BY <2>1, ProcQuiet, Zenon
  <1> QED
    BY <1>1, <1>2, <1>3, <1>4, <1>5, <1>6, <1>7, <1>8, <1>9, <1>10, <1>11, <1>12a, <1>12, <1>12b, <1>13,
       <1>14, <1>15, <1>16, <1>17, <1>18, <1>19, <1>20, <1>21, <1>22, <1>23, <1>24, <1>25,
       <1>26, <1>27, Zenon DEF Next, CallBegin, CallStep, CreateBegin

-----------------------------------------------------------------------------
(* The ownership of processes holds in every state: the induction.          *)
LEMMA ProcsHold == ASSUME OneOwnerPerId PROVE Spec => []ProcInv
  <1>1. TypeInv /\ ClaimInv /\ (TypeInv /\ ClaimInv)' /\ ProcInv /\ [Next]_vars => ProcInv'
    BY ProcStep, Zenon
  <1> QED
    BY <1>1, InitProcs, ClaimsHold, PTL DEF Spec

(* With one owner per id, whatever the callers interleave and whichever     *)
(* step of a create, destroy or rename fails, no FC process escapes the     *)
(* adapter: it is owned by a create or filed where destroy_vm reaps it.     *)
THEOREM NoOrphanProcessHolds == ASSUME OneOwnerPerId PROVE Spec => []NoOrphanProcess
  BY NoOrphans, ProcsHold, PTL
=============================================================================
