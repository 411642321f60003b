-------------------------- MODULE VmServices_proofs --------------------------
(***************************************************************************)
(* Proofs about VmServices: the end of the Firecracker process, the guest  *)
(* metadata protocol as an implementation of the store it promises, and    *)
(* what the console's buffer, the restored guest's pages, the metrics      *)
(* snapshot and an answer of the API hold.                                 *)
(***************************************************************************)
EXTENDS VmServices, SequenceTheorems, WellFoundedInduction, TLAPS

(* The store.  What was acknowledged before a request was issued had been   *)
(* applied by then; nothing is applied twice, so it cannot come back.       *)
StoreInv ==
    /\ issued \in Seq(Bodies) /\ before \in Seq(SUBSET Nat) /\ Len(before) = Len(issued)
    /\ acked \subseteq applied /\ applied \subseteq 1..Len(issued)
    /\ \A q \in 1..Len(issued) : before[q] \subseteq applied
    /\ \A q \in applied : \A t \in Target(issued[q]) : file[t].by \notin before[q]

LEMMA StoreInvHolds == StoreSpec => []StoreInv
  <1>1. StoreInit => StoreInv
    BY DEF StoreInit, StoreInv
  <1>2. StoreInv /\ [StoreNext]_store => StoreInv'
    <2> SUFFICES ASSUME StoreInv, [StoreNext]_store PROVE StoreInv'
      OBVIOUS
    <2> USE DEF StoreInv
    <2>1. ASSUME NEW body \in Bodies, Issued(body) PROVE StoreInv'
      <3>1. /\ issued' = Append(issued, body) /\ before' = Append(before, acked)
            /\ UNCHANGED <<applied, acked, file>>
        BY <2>1, Zenon DEF Issued
      <3>2. /\ issued' \in Seq(Bodies) /\ before' \in Seq(SUBSET Nat)
            /\ Len(issued') = Len(issued) + 1 /\ Len(before') = Len(issued) + 1
        BY <3>1
      <3>3. \A q \in 1..Len(issued) : issued'[q] = issued[q] /\ before'[q] = before[q]
        BY <3>1
      <3>4. before'[Len(issued) + 1] = acked
        BY <3>1
      <3>5. \A q \in applied : issued'[q] = issued[q] /\ before'[q] = before[q]
        BY <3>3, Zenon
      <3>6. ASSUME NEW q \in 1..Len(issued') PROVE before'[q] \subseteq applied'
        <4>1. Len(issued) \in Nat /\ (q \in 1..Len(issued) \/ q = Len(issued) + 1)
          BY <3>2
        <4>2. CASE q \in 1..Len(issued)
          BY <3>1, <3>3, <4>2, Zenon
        <4>3. CASE q = Len(issued) + 1
          BY <3>1, <3>4, <4>3, Zenon
        <4> QED BY <4>1, <4>2, <4>3
      <3>7. \A q \in applied' : \A t \in Target(issued'[q]) : file'[t].by \notin before'[q]
        BY <3>1, <3>5, Zenon
      <3>8. acked' \subseteq applied' /\ applied' \subseteq 1..Len(issued') /\ Len(before') = Len(issued')
        BY <3>1, <3>2
      <3> QED BY <3>2, <3>6, <3>7, <3>8, Zenon
    <2>2. ASSUME NEW i \in 1..Len(issued), i \notin applied, Applied(i) PROVE StoreInv'
      <3>1. /\ applied' = applied \cup {i} /\ UNCHANGED <<issued, before, acked>>
            /\ file' = [t \in Targets |->
                          IF t \in Target(issued[i])
                          THEN [by |-> i, content |-> Content(issued[i])] ELSE file[t]]
        BY <2>2, Zenon DEF Applied
      <3>2. \A q \in applied' : issued[q] \in Bodies
        BY <3>1
      <3>3. \A q \in applied' : i \notin before[q]
        BY <2>2, <3>1, Zenon
      <3>4. ASSUME NEW q \in applied', NEW t \in Target(issued[q])
            PROVE  file'[t].by \notin before[q]
        <4>1. t \in Targets
          BY <3>2, BodyAssumption, Zenon
        <4>2. CASE t \in Target(issued[i])
          <5>1. file'[t].by = i
            BY <3>1, <4>1, <4>2, Zenon
          <5> QED BY <3>3, <5>1
        <4>3. CASE t \notin Target(issued[i])
          <5>1. file'[t] = file[t] /\ q \in applied
            BY <3>1, <4>1, <4>3, Zenon
          <5> QED BY <5>1
        <4> QED BY <4>2, <4>3
      <3> QED BY <3>1, <3>4, SMTT(20) DEF Target
    <2>3. ASSUME NEW i \in applied, Acked(i) PROVE StoreInv'
      BY <2>3, Zenon DEF Acked, Target
    <2>4. CASE UNCHANGED store
      BY <2>4, Zenon DEF store, Target
    <2> QED BY <2>1, <2>2, <2>3, <2>4 DEF StoreNext, Issue, Apply, Ack
  <1> QED BY <1>1, <1>2, PTL DEF StoreSpec

(* The promise of the protocol: the effect of an acknowledged request is    *)
(* never replaced by that of a request acknowledged before it was issued.   *)
THEOREM StoreKeepsAcked == StoreSpec => []AckedSurvives
  <1>1. StoreInv => AckedSurvives
    BY Zenon DEF StoreInv, AckedSurvives
  <1> QED BY <1>1, StoreInvHolds, PTL

-----------------------------------------------------------------------------
(* The protocol.  Has: a line is on the wire; Once: no number is, twice.    *)
Has(s, i) == \E k \in 1..Len(s) : s[k] = i

Once(s) == \A j, k \in 1..Len(s) : s[j] # 0 /\ s[j] = s[k] => j = k

LEMMA AppendLine ==
    ASSUME NEW s \in Seq(Nat), NEW x \in Nat
    PROVE  /\ Append(s, x) \in Seq(Nat)
           /\ \A i : Has(Append(s, x), i) <=> Has(s, i) \/ i = x
           /\ Once(s) /\ (x = 0 \/ ~Has(s, x)) => Once(Append(s, x))
  <1> DEFINE t == Append(s, x)
  <1>1. /\ t \in Seq(Nat) /\ Len(t) = Len(s) + 1 /\ Len(s) \in Nat
        /\ \A k \in 1..Len(s) : t[k] = s[k]
        /\ t[Len(s) + 1] = x
    BY AppendProperties, LenProperties
  <1> HIDE DEF t
  <1>2. ASSUME NEW i PROVE Has(t, i) <=> Has(s, i) \/ i = x
    <2>1. /\ Len(s) + 1 \in 1..Len(t) /\ 1..Len(s) \subseteq 1..Len(t)
          /\ \A k \in 1..Len(t) : k \in 1..Len(s) \/ k = Len(s) + 1
      BY <1>1
    <2> QED BY <1>1, <2>1, Zenon DEF Has
  <1>3. ASSUME Once(s), x = 0 \/ ~Has(s, x) PROVE Once(t)
    <2> SUFFICES ASSUME NEW j \in 1..Len(t), NEW k \in 1..Len(t), t[j] # 0, t[j] = t[k] PROVE j = k
      BY DEF Once
    <2>1. /\ j \in 1..Len(s) \/ j = Len(s) + 1
          /\ k \in 1..Len(s) \/ k = Len(s) + 1
      BY <1>1
    <2>2. CASE j \in 1..Len(s) /\ k \in 1..Len(s)
      BY <1>1, <1>3, <2>2, Zenon DEF Once
    <2>3. CASE j \in 1..Len(s) /\ k = Len(s) + 1
      BY <1>1, <1>3, <2>3, Zenon DEF Has
    <2>4. CASE j = Len(s) + 1 /\ k \in 1..Len(s)
      BY <1>1, <1>3, <2>4, Zenon DEF Has
    <2> QED BY <2>1, <2>2, <2>3, <2>4
  <1> QED BY <1>1, <1>2, <1>3 DEF t

LEMMA TakeLine ==
    ASSUME NEW s \in Seq(Nat), s # <<>>
    PROVE  /\ Tail(s) \in Seq(Nat) /\ Head(s) \in Nat /\ Has(s, Head(s))
           /\ \A i : Has(Tail(s), i) => Has(s, i)
           /\ Once(s) => Once(Tail(s))
           /\ Once(s) /\ Head(s) # 0 => ~Has(Tail(s), Head(s))
  <1> DEFINE t == Tail(s)
  <1>1. /\ t \in Seq(Nat) /\ Len(t) = Len(s) - 1 /\ Len(s) \in Nat /\ Len(s) > 0
        /\ \A k \in 1..Len(t) : t[k] = s[k + 1]
    BY HeadTailProperties, LenProperties, EmptySeq
  <1>2. Head(s) = s[1] /\ Head(s) \in Nat
    BY <1>1, HeadTailProperties
  <1> HIDE DEF t
  <1>3. Has(s, Head(s))
    BY <1>1, <1>2 DEF Has
  <1>4. ASSUME NEW i, Has(t, i) PROVE Has(s, i)
    <2>1. PICK k \in 1..Len(t) : t[k] = i
      BY <1>4, Zenon DEF Has
    <2>2. k + 1 \in 1..Len(s) /\ s[k + 1] = i
      BY <1>1, <2>1, SMTT(20)
    <2> QED BY <2>2 DEF Has
  <1>5. ASSUME Once(s) PROVE Once(t)
    <2> SUFFICES ASSUME NEW j \in 1..Len(t), NEW k \in 1..Len(t), t[j] # 0, t[j] = t[k] PROVE j = k
      BY Zenon DEF Once
    <2>0. j + 1 \in 1..Len(s) /\ k + 1 \in 1..Len(s)
      BY <1>1
    <2>1. s[j + 1] # 0 /\ s[j + 1] = s[k + 1]
      BY <1>1, Zenon
    <2>2. j + 1 = k + 1
      BY <1>5, <2>0, <2>1, Zenon DEF Once
    <2> QED BY <1>1, <2>2
  <1>6. ASSUME Once(s), Head(s) # 0, Has(t, Head(s)) PROVE FALSE
    <2>1. PICK k \in 1..Len(t) : t[k] = Head(s)
      BY <1>6, Zenon DEF Has
    <2>2. 1 \in 1..Len(s) /\ k + 1 \in 1..Len(s) /\ s[1] # 0 /\ s[1] = s[k + 1]
      BY <1>1, <1>2, <1>6, <2>1, SMTT(20)
    <2>3. 1 = k + 1
      BY <1>6, <2>2, Zenon DEF Once
    <2> QED BY <1>1, <2>1, <2>3
  <1> QED BY <1>1, <1>2, <1>3, <1>4, <1>5, <1>6 DEF t

(* A request is pending on a link while its line, or a torn line that may   *)
(* yet be completed, lies between the host and the rename.                  *)
Busy(l) == thread[l] \in {"tmp", "rename"}

Pending(l, i) == (Busy(l) /\ current[l] = i) \/ Has(up[l], i) \/ torn[l] = <<i>>

Tears == {<<>>} \cup {<<i>> : i \in Nat}

Threads == {"off", "read", "tmp", "rename", "reply"}

Replies == [id : Nat, ok : BOOLEAN]

WireTypes ==
    /\ issued \in Seq(Bodies) /\ applied \subseteq 1..Len(issued)
    /\ conn \in [Clients -> Links \cup {None}] /\ waiting \in [Clients -> Nat]
    /\ \A c \in Clients : waiting[c] # 0 => conn[c] \in Links
    /\ up \in [Links -> Seq(Nat)] /\ torn \in [Links -> Tears]
    /\ down \in [Links -> Seq(Replies)]
    /\ thread \in [Links -> Threads]
    /\ current \in [Links -> Nat] /\ ok \in [Links -> BOOLEAN]

(* The inductive invariant: no request is pending twice, on one link or on  *)
(* two, or after it was applied ...                                         *)
Fresh ==
    \A l \in Links : \A i \in Nat \ {0} : Pending(l, i) => i <= Len(issued) /\ i \notin applied

Apart ==
    \A l, m \in Links : \A i \in Nat \ {0} : Pending(l, i) /\ Pending(m, i) => l = m

Single ==
    \A l \in Links :
        /\ Once(up[l])
        /\ Busy(l) => /\ current[l] # 0 /\ Acceptable(issued[current[l]])
                      /\ ~Has(up[l], current[l]) /\ torn[l] # <<current[l]>>
        /\ \A i \in Nat \ {0} : torn[l] = <<i>> => ~Has(up[l], i)

(* ... and a reply that says ok is the reply to one that was applied.       *)
Honest ==
    \A l \in Links :
        /\ thread[l] = "reply" /\ ok[l] => current[l] \in applied
        /\ \A k \in 1..Len(down[l]) : down[l][k].ok => down[l][k].id \in applied

WireInv == WireTypes /\ Fresh /\ Apart /\ Single /\ Honest

(* What is to be shown of a step that touches one link.                     *)
SingleAt(l) ==
    /\ Once(up[l])
    /\ Busy(l) => /\ current[l] # 0 /\ Acceptable(issued[current[l]])
                  /\ ~Has(up[l], current[l]) /\ torn[l] # <<current[l]>>
    /\ \A i \in Nat \ {0} : torn[l] = <<i>> => ~Has(up[l], i)

HonestAt(l) ==
    /\ thread[l] = "reply" /\ ok[l] => current[l] \in applied
    /\ \A k \in 1..Len(down[l]) : down[l][k].ok => down[l][k].id \in applied

LEMMA LinkStep ==
    ASSUME WireInv, WireTypes', NEW l \in Links, SingleAt(l)', HonestAt(l)',
           \A m \in Links \ {l} :
               /\ up'[m] = up[m] /\ torn'[m] = torn[m] /\ down'[m] = down[m]
               /\ thread'[m] = thread[m] /\ current'[m] = current[m] /\ ok'[m] = ok[m],
           applied \subseteq applied', Len(issued) <= Len(issued'),
           \A q \in 1..Len(issued) : issued'[q] = issued[q],
           \A i \in applied' \ applied : Pending(l, i),
           \A i \in Nat \ {0} :
               Pending(l, i)' => /\ Pending(l, i) \/ i = Len(issued) + 1
                                 /\ i <= Len(issued') /\ i \notin applied'
    PROVE  WireInv'
  <1> Len(issued) \in Nat /\ Len(issued') \in Nat
    BY LenProperties, Zenon DEF WireInv, WireTypes
  <1>1. \A m \in Links \ {l} : \A i : Pending(m, i)' <=> Pending(m, i)
    BY Zenon DEF Pending, Busy, Has
  <1>2. \A m \in Links : \A i \in Nat \ {0} : Pending(m, i) => i <= Len(issued) /\ i \notin applied
    BY Zenon DEF WireInv, Fresh
  <1>3. \A m, n \in Links : \A i \in Nat \ {0} : Pending(m, i) /\ Pending(n, i) => m = n
    BY Zenon DEF WireInv, Apart
  <1>4. \A i \in applied' : i \in Nat \ {0}
    BY DEF WireTypes
  <1>5. ASSUME NEW m \in Links, NEW i \in Nat \ {0}, Pending(m, i)'
        PROVE  i <= Len(issued') /\ i \notin applied'
    <2>1. CASE m = l
      BY <1>5, <2>1, Zenon
    <2>2. CASE m # l
      <3>1. Pending(m, i)
        BY <1>1, <1>5, <2>2, Zenon
      <3>2. i <= Len(issued) /\ i \notin applied /\ ~Pending(l, i)
        BY <1>2, <1>3, <2>2, <3>1, Zenon
      <3> QED BY <3>2
    <2> QED BY <2>1, <2>2
  <1>6. ASSUME NEW m \in Links \ {l}, NEW i \in Nat \ {0}, Pending(m, i)', Pending(l, i)'
        PROVE  FALSE
    <2>1. Pending(m, i) /\ i <= Len(issued)
      BY <1>1, <1>2, <1>6, Zenon
    <2>2. Pending(l, i)
      BY <1>6, <2>1
    <2> QED BY <1>3, <2>1, <2>2
  <1>7. Fresh'
    BY <1>5, Zenon DEF Fresh
  <1>8. Apart'
    <2> SUFFICES ASSUME NEW m \in Links, NEW n \in Links, NEW i \in Nat \ {0}, Pending(m, i)', Pending(n, i)'
                 PROVE  m = n
      BY Zenon DEF Apart
    <2>1. CASE m # l /\ n # l
      BY <1>1, <1>3, <2>1, Zenon
    <2>2. CASE m = l /\ n # l
      BY <1>6, <2>2, Zenon
    <2>3. CASE m # l /\ n = l
      BY <1>6, <2>3, Zenon
    <2> QED BY <2>1, <2>2, <2>3
  <1>9. ASSUME NEW m \in Links PROVE SingleAt(m)' /\ HonestAt(m)'
    <2>1. CASE m # l
      <3>1. SingleAt(m) /\ HonestAt(m)
        BY Zenon DEF WireInv, Single, SingleAt, Honest, HonestAt
      <3>2. Busy(m) => issued'[current[m]] = issued[current[m]]
        <4> SUFFICES ASSUME Busy(m) PROVE current[m] \in 1..Len(issued)
          OBVIOUS
        <4>1. current[m] \in Nat \ {0} /\ Pending(m, current[m])
          BY <3>1, Zenon DEF SingleAt, Pending, WireInv, WireTypes
        <4> QED BY <1>2, <4>1
      <3>3. SingleAt(m)'
        BY <2>1, <3>1, <3>2 DEF SingleAt, Busy, Once, Has, Acceptable
      <3>4. HonestAt(m)'
        BY <2>1, <3>1, Zenon DEF HonestAt
      <3> QED BY <3>3, <3>4
    <2> QED BY <2>1
  <1>10. Single'
    BY <1>9, Zenon DEF Single, SingleAt
  <1>11. Honest'
    BY <1>9, Zenon DEF Honest, HonestAt
  <1> QED BY <1>7, <1>8, <1>10, <1>11 DEF WireInv

(* ... when it issues nothing ...                                           *)
LEMMA LinkApplies ==
    ASSUME WireInv, WireTypes', NEW l \in Links, SingleAt(l)', HonestAt(l)',
           \A m \in Links \ {l} :
               /\ up'[m] = up[m] /\ torn'[m] = torn[m] /\ down'[m] = down[m]
               /\ thread'[m] = thread[m] /\ current'[m] = current[m] /\ ok'[m] = ok[m],
           issued' = issued, applied \subseteq applied',
           \A i \in applied' \ applied : Pending(l, i),
           \A i \in Nat \ {0} : Pending(l, i)' => Pending(l, i) /\ i \notin applied'
    PROVE  WireInv'
  <1>1. \A i \in Nat \ {0} : Pending(l, i) => i <= Len(issued) /\ i \notin applied
    BY Zenon DEF WireInv, Fresh
  <1>2. \A q \in 1..Len(issued) : issued'[q] = issued[q]
    BY Zenon
  <1>3. Len(issued) <= Len(issued')
    BY LenProperties DEF WireInv, WireTypes
  <1>4. \A i \in Nat \ {0} :
            Pending(l, i)' => /\ Pending(l, i) \/ i = Len(issued) + 1
                              /\ i <= Len(issued') /\ i \notin applied'
    BY <1>1, Zenon
  <1> QED BY <1>2, <1>3, <1>4, LinkStep, Zenon

(* ... and applies nothing.                                                 *)
LEMMA LinkQuiet ==
    ASSUME WireInv, WireTypes', NEW l \in Links, SingleAt(l)', HonestAt(l)',
           \A m \in Links \ {l} :
               /\ up'[m] = up[m] /\ torn'[m] = torn[m] /\ down'[m] = down[m]
               /\ thread'[m] = thread[m] /\ current'[m] = current[m] /\ ok'[m] = ok[m],
           issued' = issued, applied' = applied,
           \A i \in Nat \ {0} : Pending(l, i)' => Pending(l, i)
    PROVE  WireInv'
  <1>1. \A i \in Nat \ {0} : Pending(l, i) => i \notin applied
    BY Zenon DEF WireInv, Fresh
  <1>2. applied \subseteq applied' /\ \A i \in applied' \ applied : Pending(l, i)
    BY Zenon
  <1>3. \A i \in Nat \ {0} : Pending(l, i)' => Pending(l, i) /\ i \notin applied'
    BY <1>1, Zenon
  <1> QED BY <1>2, <1>3, LinkApplies, Zenon

(* A step that leaves the store, the lines and the daemon alone.            *)
LEMMA HostStep ==
    ASSUME WireInv, WireTypes', UNCHANGED <<up, torn, thread, current, ok, issued, applied>>,
           \A l \in Links : \A k \in 1..Len(down'[l]) :
               down'[l][k].ok => down'[l][k].id \in applied
    PROVE  WireInv'
  <1>1. /\ WireTypes /\ Fresh /\ Apart /\ Single /\ Honest
        /\ up' = up /\ torn' = torn /\ thread' = thread /\ current' = current /\ ok' = ok
        /\ issued' = issued /\ applied' = applied
    BY Zenon DEF WireInv
  <1>2. \A l, i : Pending(l, i)' <=> Pending(l, i)
    BY <1>1, Zenon DEF Pending, Busy, Has
  <1>3. Fresh' /\ Apart'
    BY <1>1, <1>2, Zenon DEF Fresh, Apart
  <1>4. Single'
    <2> SUFFICES ASSUME NEW l \in Links PROVE SingleAt(l)'
      BY Zenon DEF Single, SingleAt
    <2>1. SingleAt(l)
      BY <1>1, Zenon DEF Single, SingleAt
    <2>2. Once(up[l])' /\ (\A i : Has(up[l], i)' <=> Has(up[l], i)) /\ (Busy(l)' <=> Busy(l))
      BY <1>1, <2>1, Zenon DEF SingleAt, Once, Has, Busy
    <2>3. Acceptable(issued[current[l]])' <=> Acceptable(issued[current[l]])
      BY <1>1, Zenon DEF Acceptable
    <2>4. Busy(l)' => /\ current'[l] # 0 /\ Acceptable(issued[current[l]])'
                      /\ ~Has(up[l], current[l])' /\ torn'[l] # <<current'[l]>>
      BY <1>1, <2>1, <2>2, <2>3, Zenon DEF SingleAt
    <2>5. \A i \in Nat \ {0} : torn'[l] = <<i>> => ~Has(up[l], i)'
      BY <1>1, <2>1, <2>2, Zenon DEF SingleAt
    <2> QED BY <2>2, <2>4, <2>5, Zenon DEF SingleAt
  <1>5. Honest'
    BY <1>1, Zenon DEF Honest
  <1> QED BY <1>3, <1>4, <1>5, Zenon DEF WireInv

LEMMA StoreSame ==
    ASSUME UNCHANGED store
    PROVE  [StoreNext]_store /\ UNCHANGED <<issued, applied>>
  BY Zenon DEF store

LEMMA ConnectWire ==
    ASSUME WireInv, NEW c \in Clients, connect(c)
    PROVE  WireInv' /\ [StoreNext]_store
  <1>1. (CHOOSE l \in Unused : TRUE) \in Links
    BY Zenon DEF connect, Unused
  <1>2. PICK l \in Links :
        /\ thread' = [thread EXCEPT ![l] = "read"] /\ conn' = [conn EXCEPT ![c] = l]
        /\ UNCHANGED <<waiting, torn, up, down, current, ok>> /\ UNCHANGED store
    BY <1>1, Zenon DEF connect
  <1>3. UNCHANGED <<issued, applied>> /\ [StoreNext]_store
    BY <1>2, StoreSame, Zenon
  <1>4. WireTypes'
    BY <1>1, <1>2, <1>3, Zenon DEF WireInv, WireTypes, Threads
  <1>5. SingleAt(l)' /\ HonestAt(l)'
    BY <1>1, <1>2, <1>3, Zenon DEF WireInv, WireTypes, Single, SingleAt, Honest, HonestAt, Busy, Has, Once
  <1>6. \A i \in Nat \ {0} : Pending(l, i)' => Pending(l, i)
    BY <1>1, <1>2, Zenon DEF Pending, Busy, Has, WireInv, WireTypes
  <1>7. \A m \in Links \ {l} :
            /\ up'[m] = up[m] /\ torn'[m] = torn[m] /\ down'[m] = down[m]
            /\ thread'[m] = thread[m] /\ current'[m] = current[m] /\ ok'[m] = ok[m]
    BY <1>2, Zenon DEF WireInv, WireTypes
  <1> QED BY <1>3, <1>4, <1>5, <1>6, <1>7, LinkQuiet, Zenon

LEMMA ReceiveWire ==
    ASSUME WireInv, NEW c \in Clients, recv_ok(c)
    PROVE  WireInv' /\ [StoreNext]_store
  <1> DEFINE l == conn[c]
             s == down[l]
  <1>1. l \in Links /\ s \in Seq(Replies) /\ s # <<>>
    BY Zenon DEF WireInv, WireTypes, recv_ok
  <1>2. /\ waiting' = [waiting EXCEPT ![c] = 0] /\ down' = [down EXCEPT ![l] = Tail(s)]
        /\ UNCHANGED <<conn, torn, up, thread, current, ok>>
    BY Zenon DEF recv_ok
  <1>3. (Matches(Head(s), waiting[c]) /\ Acked(waiting[c])) \/ UNCHANGED store
    BY Zenon DEF recv_ok
  <1>4. /\ Tail(s) \in Seq(Replies) /\ Head(s) = s[1] /\ Len(s) \in Nat /\ Len(s) > 0
        /\ Len(Tail(s)) = Len(s) - 1 /\ \A k \in 1..Len(Tail(s)) : Tail(s)[k] = s[k + 1]
    BY <1>1, HeadTailProperties, LenProperties, EmptySeq
  <1>5. \A k \in 1..Len(s) : s[k].ok => s[k].id \in applied
    BY <1>1, Zenon DEF WireInv, Honest
  <1>6. Matches(Head(s), waiting[c]) => waiting[c] \in applied
    BY <1>4, <1>5 DEF Matches
  <1>7. UNCHANGED <<issued, applied>> /\ [StoreNext]_store
    BY <1>3, <1>6, StoreSame, Zenon DEF Acked, StoreNext, Ack
  <1>8. WireTypes'
    BY <1>1, <1>2, <1>4, <1>7, Zenon DEF WireInv, WireTypes
  <1>9. ASSUME NEW m \in Links, NEW k \in 1..Len(down'[m]), down'[m][k].ok
        PROVE  down'[m][k].id \in applied
    <2>1. CASE m = l
      <3>1. down'[m] = Tail(s) /\ k \in 1..Len(Tail(s))
        BY <1>1, <1>2, <1>9, <2>1, Zenon DEF WireInv, WireTypes
      <3>2. k + 1 \in 1..Len(s) /\ Tail(s)[k] = s[k + 1]
        BY <1>4, <3>1
      <3> QED BY <1>5, <1>9, <3>1, <3>2
    <2>2. CASE m # l
      BY <1>1, <1>2, <1>9, <2>2, Zenon DEF WireInv, WireTypes, Honest
    <2> QED BY <2>1, <2>2
  <1> QED BY <1>2, <1>7, <1>8, <1>9, HostStep, Zenon

LEMMA TimeoutWire ==
    ASSUME WireInv, NEW c \in Clients, RecvTimeout(c) \/ RecvEof(c)
    PROVE  WireInv' /\ [StoreNext]_store
  <1> DEFINE l == conn[c]
             s == down[l]
             cut == <<Undecodable>> \o Tail(s)
  <1>1. /\ waiting' = [waiting EXCEPT ![c] = 0] /\ waiting[c] # 0 /\ UNCHANGED store
        /\ UNCHANGED <<conn, torn, up, thread, current, ok>>
    BY Zenon DEF RecvTimeout, RecvEof, links
  <1>2. l \in Links
    BY <1>1, Zenon DEF WireInv, WireTypes
  <1>3. down' = down \/ (s # <<>> /\ down' = [down EXCEPT ![l] = cut])
    BY Zenon DEF RecvTimeout, RecvEof, links
  <1>4. UNCHANGED <<issued, applied>> /\ [StoreNext]_store
    BY <1>1, StoreSame, Zenon
  <1>5. CASE down' = down
    <2>1. WireTypes'
      BY <1>1, <1>2, <1>4, <1>5, Zenon DEF WireInv, WireTypes
    <2> QED BY <1>1, <1>4, <1>5, <2>1, HostStep DEF WireInv, Honest
  <1>6. CASE s # <<>> /\ down' = [down EXCEPT ![l] = cut]
    <2>1. s \in Seq(Replies)
      BY <1>2, Zenon DEF WireInv, WireTypes
    <2>2. /\ Tail(s) \in Seq(Replies) /\ Len(s) \in Nat /\ Len(Tail(s)) \in Nat
          /\ Len(Tail(s)) = Len(s) - 1 /\ \A k \in 1..Len(Tail(s)) : Tail(s)[k] = s[k + 1]
      BY <1>6, <2>1, HeadTailProperties, LenProperties, Zenon
    <2>3. Undecodable \in Replies /\ ~Undecodable.ok
      BY Zenon DEF Undecodable, Reply, Replies
    <2>4. <<Undecodable>> \in Seq(Replies) /\ Len(<<Undecodable>>) = 1 /\ <<Undecodable>>[1] = Undecodable
      BY <2>3
    <2> HIDE DEF s
    <2>5. /\ cut \in Seq(Replies) /\ Len(cut) = 1 + Len(Tail(s))
          /\ \A k \in 1..1 + Len(Tail(s)) :
                cut[k] = IF k <= 1 THEN <<Undecodable>>[k] ELSE Tail(s)[k - 1]
      BY <2>2, <2>4, ConcatProperties
    <2> HIDE DEF cut
    <2>6. \A k \in 1..Len(s) : s[k].ok => s[k].id \in applied
      BY <1>2, Zenon DEF WireInv, Honest, s
    <2>7. ASSUME NEW k \in 1..Len(cut), cut[k].ok PROVE cut[k].id \in applied
      <3>1. k # 1
        BY <2>3, <2>4, <2>5, <2>7
      <3>2. k \in 1..Len(s) /\ cut[k] = s[k]
        BY <2>2, <2>5, <2>7, <3>1
      <3> QED BY <2>6, <2>7, <3>2
    <2>8. WireTypes'
      BY <1>1, <1>2, <1>4, <1>6, <2>5, Zenon DEF WireInv, WireTypes
    <2>9. ASSUME NEW m \in Links, NEW k \in 1..Len(down'[m]), down'[m][k].ok
          PROVE  down'[m][k].id \in applied
      <3>1. CASE m = l
        BY <1>2, <1>6, <2>7, <2>9, <3>1, Zenon DEF WireInv, WireTypes
      <3>2. CASE m # l
        BY <1>2, <1>6, <2>9, <3>2, Zenon DEF WireInv, WireTypes, Honest
      <3> QED BY <3>1, <3>2
    <2> QED BY <1>1, <1>4, <2>8, <2>9, HostStep
  <1> QED BY <1>3, <1>4, <1>5, <1>6

LEMMA Torn ==
    /\ \A i, j : <<i>> = <<j>> => i = j
    /\ \A i : <<i>> # <<>>
    /\ \A t \in Tears : t # <<>> => \E i \in Nat : t = <<i>>
  BY Zenon DEF Tears

(* The facts about one link that the lemmas on its steps start from.        *)
LEMMA AtLink ==
    ASSUME WireInv, NEW l \in Links
    PROVE  /\ up[l] \in Seq(Nat) /\ torn[l] \in Tears /\ down[l] \in Seq(Replies)
           /\ current[l] \in Nat /\ ok[l] \in BOOLEAN /\ thread[l] \in Threads
           /\ SingleAt(l) /\ HonestAt(l)
           /\ \A i \in Nat \ {0} : Pending(l, i) => i <= Len(issued) /\ i \notin applied
           /\ Len(issued) \in Nat
  BY LenProperties, Zenon DEF WireInv, WireTypes, Single, SingleAt, Honest, HonestAt, Fresh

LEMMA SendWire ==
    ASSUME WireInv, NEW c \in Clients, NEW body \in Pushes[c], send(c, body)
    PROVE  WireInv' /\ [StoreNext]_store
  <1>1. body \in Bodies
    BY PushAssumption, Zenon
  <1>2. PICK l \in Links : l = conn[c]
    BY Zenon DEF send, WireInv, WireTypes
  <1> DEFINE n == Len(issued) + 1
             line == LineOf(l, n)
  <1>3. PICK x \in Nat : x = line
    BY <1>2, AtLink DEF LineOf, Garbled
  <1>4. x \in {0, n}
    BY <1>3, Zenon DEF LineOf, Garbled
  <1>5. \/ /\ up' = [up EXCEPT ![l] = Append(@, x)] /\ torn' = [torn EXCEPT ![l] = <<>>]
           /\ waiting' = [waiting EXCEPT ![c] = n]
        \/ torn' = [torn EXCEPT ![l] = <<x>>] /\ UNCHANGED <<up, waiting>>
    BY <1>2, <1>3, Zenon DEF send
  <1>6. Issued(body) /\ UNCHANGED <<conn, hostEnd, down, thread, current, ok>>
    BY Zenon DEF send
  <1>7. issued' = Append(issued, body) /\ UNCHANGED applied
    BY <1>6, Zenon DEF Issued
  <1>8. /\ issued' \in Seq(Bodies) /\ Len(issued') = Len(issued) + 1 /\ Len(issued) \in Nat
        /\ \A q \in 1..Len(issued) : issued'[q] = issued[q]
    BY <1>1, <1>7, AppendProperties, LenProperties DEF WireInv, WireTypes
  <1> HIDE DEF line
  <1>9. /\ up[l] \in Seq(Nat) /\ torn[l] \in Tears /\ SingleAt(l) /\ HonestAt(l)
        /\ \A i \in Nat \ {0} : Pending(l, i) => i <= Len(issued) /\ i \notin applied
    BY AtLink, Zenon
  <1>10. x # 0 => ~Has(up[l], x) /\ ~(Busy(l) /\ current[l] = x) /\ torn[l] # <<x>>
    BY <1>4, <1>8, <1>9 DEF Pending
  <1>11. Append(up[l], x) \in Seq(Nat) /\ (\A i : Has(Append(up[l], x), i) <=> Has(up[l], i) \/ i = x)
         /\ Once(Append(up[l], x))
    BY <1>9, <1>10, AppendLine, Zenon DEF SingleAt
  <1>12. up'[l] \in {up[l], Append(up[l], x)} /\ torn'[l] \in {<<>>, <<x>>}
         /\ (torn'[l] = <<x>> => up'[l] = up[l])
    BY <1>5, Torn, Zenon DEF WireInv, WireTypes
  <1>13. WireTypes'
    <2>1. conn[c] \in Links /\ conn' = conn
      BY <1>2, <1>6, Zenon
    <2>2. applied' \subseteq 1..Len(issued')
      BY <1>7, <1>8 DEF WireInv, WireTypes
    <2>3. n \in Nat /\ <<x>> \in Tears /\ <<>> \in Tears
      BY <1>8 DEF Tears
    <2>4. up' \in [Links -> Seq(Nat)] /\ torn' \in [Links -> Tears] /\ waiting' \in [Clients -> Nat]
      <3>1. up \in [Links -> Seq(Nat)] /\ torn \in [Links -> Tears] /\ waiting \in [Clients -> Nat]
        BY Zenon DEF WireInv, WireTypes
      <3>2. Append(up[l], x) \in Seq(Nat)
        BY <1>11, Zenon
      <3> HIDE DEF n
      <3>3. up' \in [Links -> Seq(Nat)]
        BY <1>5, <3>1, <3>2, Zenon
      <3>4. torn' \in [Links -> Tears]
        BY <1>5, <2>3, <3>1, Zenon
      <3>5. waiting' \in [Clients -> Nat]
        BY <1>5, <2>3, <3>1, Zenon
      <3> QED BY <3>3, <3>4, <3>5
    <2>5. \A d \in Clients : waiting'[d] # 0 => conn'[d] \in Links
      BY <1>5, <2>1, Zenon DEF WireInv, WireTypes
    <2> QED BY <1>6, <1>8, <2>2, <2>4, <2>5 DEF WireInv, WireTypes
  <1>14. Busy(l) => issued'[current[l]] = issued[current[l]] /\ current[l] \in Nat \ {0}
    <2> SUFFICES ASSUME Busy(l) PROVE current[l] \in 1..Len(issued)
      BY <1>8
    <2>1. current[l] \in Nat \ {0} /\ Pending(l, current[l])
      BY <1>9, AtLink, Zenon DEF SingleAt, Pending
    <2> QED BY <1>8, <1>9, <2>1
  <1>15. SingleAt(l)'
    <2>1. Once(up[l])'
      BY <1>9, <1>11, <1>12, Zenon DEF SingleAt, Once
    <2>2. Busy(l)' => current'[l] # 0 /\ Acceptable(issued'[current'[l]])
                      /\ ~Has(up'[l], current'[l]) /\ torn'[l] # <<current'[l]>>
      <3> SUFFICES ASSUME Busy(l)
                   PROVE  current[l] # 0 /\ Acceptable(issued'[current[l]])
                          /\ ~Has(up'[l], current[l]) /\ torn'[l] # <<current[l]>>
        BY <1>6, Zenon DEF Busy
      <3>1. current[l] # 0 /\ Acceptable(issued[current[l]]) /\ ~Has(up[l], current[l])
        BY <1>9, Zenon DEF SingleAt
      <3>2. current[l] # x
        BY <1>10, <3>1, Zenon
      <3> QED BY <1>11, <1>12, <1>14, <3>1, <3>2, Torn, Zenon
    <2>3. ASSUME NEW i \in Nat \ {0}, torn'[l] = <<i>> PROVE ~Has(up'[l], i)
      <3>1. i = x /\ torn'[l] = <<x>>
        BY <1>12, <2>3, Torn, Zenon
      <3> QED BY <1>10, <1>12, <3>1
    <2> QED BY <2>1, <2>2, <2>3 DEF SingleAt, Busy, Has, Acceptable
  <1>16. HonestAt(l)'
    BY <1>6, <1>7, <1>9, Zenon DEF HonestAt
  <1>17. ASSUME NEW i \in Nat \ {0}, Pending(l, i)'
         PROVE  (Pending(l, i) \/ i = n) /\ i <= Len(issued') /\ i \notin applied'
    <2>1. (Busy(l) /\ current[l] = i) \/ Has(up'[l], i) \/ torn'[l] = <<i>>
      BY <1>6, <1>17, Zenon DEF Pending, Busy, Has
    <2>2. Pending(l, i) \/ i = x
      <3>1. CASE torn'[l] = <<i>>
        BY <1>12, <3>1, Torn, Zenon
      <3>2. CASE Has(up'[l], i)
        BY <1>11, <1>12, <3>2, ZenonT(30) DEF Pending
      <3> QED BY <2>1, <3>1, <3>2 DEF Pending
    <2>3. n \notin applied
      BY <1>8 DEF WireInv, WireTypes
    <2> QED BY <1>4, <1>7, <1>8, <1>9, <2>2, <2>3
  <1>18. \A m \in Links \ {l} :
             /\ up'[m] = up[m] /\ torn'[m] = torn[m] /\ down'[m] = down[m]
             /\ thread'[m] = thread[m] /\ current'[m] = current[m] /\ ok'[m] = ok[m]
    BY <1>5, <1>6, Zenon DEF WireInv, WireTypes
  <1>19. WireInv'
    <2>1. /\ applied \subseteq applied' /\ \A i \in applied' \ applied : Pending(l, i)
          /\ \A q \in 1..Len(issued) : issued'[q] = issued[q]
      BY <1>7, <1>8, Zenon
    <2>2. Len(issued) <= Len(issued')
      BY <1>8
    <2> QED BY <1>13, <1>15, <1>16, <1>17, <1>18, <2>1, <2>2, LinkStep, Zenon
  <1>20. [StoreNext]_store
    BY <1>1, <1>6, Zenon DEF StoreNext, Issue
  <1> QED BY <1>19, <1>20

LEMMA DropWire ==
    ASSUME WireInv, NEW c \in Clients, DropConn(c)
    PROVE  WireInv' /\ [StoreNext]_store
  <1>1. PICK l \in Links : l = conn[c]
    BY Zenon DEF DropConn, WireInv, WireTypes
  <1>2. /\ up[l] \in Seq(Nat) /\ torn[l] \in Tears /\ SingleAt(l) /\ HonestAt(l)
        /\ \A i \in Nat \ {0} : Pending(l, i) => i <= Len(issued) /\ i \notin applied
        /\ Len(issued) \in Nat
    BY AtLink, Zenon
  <1>3. /\ down' = [down EXCEPT ![l] = <<>>] /\ torn' = [torn EXCEPT ![l] = <<>>]
        /\ (up' = [up EXCEPT ![l] = @ \o torn[l]]) \/ (torn[l] # <<>> /\ up' = [up EXCEPT ![l] = Append(@, 0)])
        /\ conn' = [conn EXCEPT ![c] = None] /\ waiting[c] = 0
        /\ UNCHANGED <<waiting, thread, current, ok>> /\ UNCHANGED store
    BY <1>1, Zenon DEF DropConn, Garbled
  <1>4. UNCHANGED <<issued, applied>> /\ [StoreNext]_store
    BY <1>3, StoreSame, Zenon
  <1>5. PICK x \in Nat : /\ x = 0 \/ torn[l] = <<x>>
                         /\ up' = up \/ up' = [up EXCEPT ![l] = Append(@, x)]
    <2>1. CASE torn[l] = <<>>
      <3>1. up[l] \o <<>> = up[l]
        BY <1>2, ConcatEmptySeq, Zenon
      <3>2. up' = [up EXCEPT ![l] = up[l]]
        BY <1>3, <2>1, <3>1, Zenon
      <3>3. up' = up
        BY <3>2, Zenon DEF WireInv, WireTypes
      <3> QED BY <3>3
    <2>2. CASE torn[l] # <<>>
      <3>1. PICK x \in Nat : torn[l] = <<x>>
        BY <1>2, <2>2, Torn, Zenon
      <3>2. up[l] \o <<x>> = Append(up[l], x)
        BY <1>2, AppendIsConcat, Zenon
      <3>3. \/ up' = [up EXCEPT ![l] = Append(@, x)]
            \/ up' = [up EXCEPT ![l] = Append(@, 0)]
        BY <1>3, <3>1, <3>2, Zenon
      <3> QED BY <3>1, <3>3
    <2> QED BY <2>1, <2>2
  <1>6. x # 0 => ~Has(up[l], x) /\ ~(Busy(l) /\ current[l] = x)
    BY <1>2, <1>5, Zenon DEF SingleAt
  <1>7. Append(up[l], x) \in Seq(Nat) /\ (\A i : Has(Append(up[l], x), i) <=> Has(up[l], i) \/ i = x)
        /\ Once(Append(up[l], x))
    BY <1>2, <1>6, AppendLine, Zenon DEF SingleAt
  <1>8. up'[l] \in {up[l], Append(up[l], x)} /\ torn'[l] = <<>> /\ down'[l] = <<>>
    BY <1>3, <1>5, Zenon DEF WireInv, WireTypes
  <1>9. WireTypes'
    <2>1. <<>> \in Tears /\ <<>> \in Seq(Replies)
      BY DEF Tears
    <2>2. up' \in [Links -> Seq(Nat)] /\ torn' \in [Links -> Tears] /\ down' \in [Links -> Seq(Replies)]
      <3>1. up \in [Links -> Seq(Nat)] /\ torn \in [Links -> Tears] /\ down \in [Links -> Seq(Replies)]
        BY Zenon DEF WireInv, WireTypes
      <3>2. Append(up[l], x) \in Seq(Nat)
        BY <1>7, Zenon
      <3>3. up' \in [Links -> Seq(Nat)]
        BY <1>5, <3>1, <3>2, Zenon
      <3>4. torn' \in [Links -> Tears]
        BY <1>3, <2>1, <3>1, Zenon
      <3>5. down' \in [Links -> Seq(Replies)]
        BY <1>3, <2>1, <3>1, Zenon
      <3> QED BY <3>3, <3>4, <3>5
    <2>3. conn' \in [Clients -> Links \cup {None}] /\ \A d \in Clients : waiting'[d] # 0 => conn'[d] \in Links
      BY <1>3, Zenon DEF WireInv, WireTypes
    <2> QED BY <1>3, <1>4, <2>2, <2>3, SMTT(20) DEF WireInv, WireTypes
  <1>10. SingleAt(l)'
    <2>1. Once(up[l])'
      BY <1>2, <1>7, <1>8, Zenon DEF SingleAt, Once
    <2>2. Busy(l) => ~Has(up'[l], current[l])
      BY <1>2, <1>6, <1>7, <1>8, Zenon DEF SingleAt
    <2>3. \A i : torn'[l] # <<i>>
      BY <1>8, Torn, Zenon
    <2>4. Busy(l)' => /\ current'[l] # 0 /\ Acceptable(issued[current[l]])'
                      /\ ~Has(up[l], current[l])'
      BY <1>2, <1>3, <1>4, <2>2, ZenonT(30) DEF SingleAt, Busy, Has, Acceptable
    <2> QED BY <2>1, <2>3, <2>4, Zenon DEF SingleAt
  <1>11. HonestAt(l)'
    BY <1>2, <1>3, <1>4, <1>8, SMTT(20) DEF HonestAt
  <1>12. ASSUME NEW i \in Nat \ {0}, Pending(l, i)' PROVE Pending(l, i)
    <2>1. (Busy(l) /\ current[l] = i) \/ Has(up'[l], i)
      BY <1>3, <1>8, <1>12, Torn, Zenon DEF Pending, Busy, Has
    <2> QED BY <1>5, <1>7, <1>8, <2>1, Zenon DEF Pending
  <1>13. \A m \in Links \ {l} :
             /\ up'[m] = up[m] /\ torn'[m] = torn[m] /\ down'[m] = down[m]
             /\ thread'[m] = thread[m] /\ current'[m] = current[m] /\ ok'[m] = ok[m]
    BY <1>3, <1>5, Zenon DEF WireInv, WireTypes
  <1>14. issued' = issued /\ applied' = applied /\ [StoreNext]_store
    BY <1>4, Zenon
  <1> QED BY <1>9, <1>10, <1>11, <1>12, <1>13, <1>14, LinkQuiet, Zenon

(* What the daemon's thread does to its link.                               *)
LEMMA HandleWire ==
    ASSUME WireInv, NEW l \in Links, handle_line(l)
    PROVE  WireInv' /\ [StoreNext]_store
  <1>1. PICK i : i = Head(up[l])
    OBVIOUS
  <1>2. /\ up[l] # <<>> /\ up' = [up EXCEPT ![l] = Tail(@)] /\ current' = [current EXCEPT ![l] = i]
        /\ UNCHANGED <<conn, waiting, torn, down>>
    BY <1>1, Zenon DEF handle_line
  <1>3. \/ Answers(l, FALSE) /\ UNCHANGED store
        \/ ~Refuses(i) /\ Answers(l, TRUE) /\ Applied(i)
        \/ ~Refuses(i) /\ Goes(l, "tmp") /\ UNCHANGED <<store, ok>>
    BY <1>1, Zenon DEF handle_line
  <1>4. /\ up[l] \in Seq(Nat) /\ torn[l] \in Tears /\ SingleAt(l) /\ HonestAt(l)
        /\ \A j \in Nat \ {0} : Pending(l, j) => j <= Len(issued) /\ j \notin applied
        /\ Len(issued) \in Nat
    BY AtLink, Zenon
  <1>5. /\ Tail(up[l]) \in Seq(Nat) /\ i \in Nat /\ Has(up[l], i)
        /\ \A j : Has(Tail(up[l]), j) => Has(up[l], j)
        /\ Once(Tail(up[l])) /\ (i # 0 => ~Has(Tail(up[l]), i))
    BY <1>1, <1>2, <1>4, TakeLine, Zenon DEF SingleAt
  <1>6. ~Refuses(i) => /\ i # 0 /\ Acceptable(issued[i]) /\ torn[l] # <<i>>
                       /\ Pending(l, i) /\ i \in 1..Len(issued) /\ i \notin applied
    <2> SUFFICES ASSUME ~Refuses(i)
                 PROVE  /\ i # 0 /\ Acceptable(issued[i]) /\ torn[l] # <<i>>
                        /\ Pending(l, i) /\ i \in 1..Len(issued) /\ i \notin applied
      OBVIOUS
    <2>1. i \in Nat \ {0} /\ Acceptable(issued[i])
      BY <1>5, Zenon DEF Refuses, Garbled
    <2>2. torn[l] # <<i>> /\ Pending(l, i)
      BY <1>4, <1>5, <2>1, Zenon DEF SingleAt, Pending
    <2>3. i <= Len(issued) /\ i \notin applied
      BY <1>4, <2>1, <2>2, Zenon
    <2>4. i \in 1..Len(issued)
      BY <1>4, <2>1, <2>3
    <2> QED BY <2>1, <2>2, <2>3, <2>4, Zenon
  <1>7. up'[l] = Tail(up[l]) /\ current'[l] = i /\ torn'[l] = torn[l] /\ down'[l] = down[l]
    BY <1>2, Zenon DEF WireInv, WireTypes
  <1>8. \A j : Has(up'[l], j) \/ torn'[l] = <<j>> => Pending(l, j)
    BY <1>5, <1>7, Zenon DEF Pending
  <1>9. /\ up' \in [Links -> Seq(Nat)] /\ current' \in [Links -> Nat]
        /\ \A m \in Links \ {l} : up'[m] = up[m] /\ current'[m] = current[m]
    BY <1>2, <1>5, Zenon DEF WireInv, WireTypes
  <1>10. Once(up[l])' /\ \A j \in Nat \ {0} : torn'[l] = <<j>> => ~Has(up'[l], j)
    BY <1>4, <1>5, <1>7, Zenon DEF SingleAt, Once
  <1>11. CASE Answers(l, FALSE) /\ UNCHANGED store
    <2>1. /\ thread' = [thread EXCEPT ![l] = "reply"] /\ ok' = [ok EXCEPT ![l] = FALSE]
          /\ UNCHANGED <<issued, applied>> /\ [StoreNext]_store
      BY <1>11, StoreSame, Zenon DEF Answers, Goes
    <2>2. thread'[l] = "reply" /\ ~ok'[l] /\ \A m \in Links \ {l} : thread'[m] = thread[m] /\ ok'[m] = ok[m]
      BY <2>1, Zenon DEF WireInv, WireTypes
    <2>3. WireTypes'
      BY <1>2, <1>9, <2>1, Zenon DEF WireInv, WireTypes, Threads
    <2>4. SingleAt(l)'
      BY <1>10, <2>2, Zenon DEF SingleAt, Busy, Once, Has
    <2>5. HonestAt(l)'
      BY <1>4, <1>7, <2>1, <2>2, Zenon DEF HonestAt
    <2>6. ASSUME NEW j \in Nat \ {0}, Pending(l, j)' PROVE Pending(l, j)
      BY <1>8, <2>2, <2>6, Zenon DEF Pending, Busy, Has
    <2>7. \A m \in Links \ {l} :
              /\ up'[m] = up[m] /\ torn'[m] = torn[m] /\ down'[m] = down[m]
              /\ thread'[m] = thread[m] /\ current'[m] = current[m] /\ ok'[m] = ok[m]
      BY <1>2, <1>9, <2>2, Zenon
    <2>8. issued' = issued /\ applied' = applied /\ [StoreNext]_store
      BY <2>1, Zenon
    <2> QED BY <2>3, <2>4, <2>5, <2>6, <2>7, <2>8, LinkQuiet, Zenon
  <1>12. CASE ~Refuses(i) /\ Answers(l, TRUE) /\ Applied(i)
    <2>1. /\ thread' = [thread EXCEPT ![l] = "reply"] /\ ok' = [ok EXCEPT ![l] = TRUE]
          /\ applied' = applied \cup {i} /\ issued' = issued
      BY <1>12, Zenon DEF Answers, Goes, Applied
    <2>2. [StoreNext]_store
      BY <1>6, <1>12, Zenon DEF StoreNext, Apply
    <2>3. thread'[l] = "reply" /\ \A m \in Links \ {l} : thread'[m] = thread[m] /\ ok'[m] = ok[m]
      BY <2>1, Zenon DEF WireInv, WireTypes
    <2>4. WireTypes'
      <3>1. applied' \subseteq 1..Len(issued')
        BY <1>6, <1>12, <2>1, Zenon DEF WireInv, WireTypes
      <3>2. thread' \in [Links -> Threads] /\ ok' \in [Links -> BOOLEAN]
        BY <2>1, Zenon DEF WireInv, WireTypes, Threads
      <3> QED BY <1>2, <1>9, <2>1, <3>1, <3>2 DEF WireInv, WireTypes
    <2>5. SingleAt(l)'
      BY <1>10, <2>3, Zenon DEF SingleAt, Busy, Once, Has
    <2>6. HonestAt(l)'
      BY <1>4, <1>7, <2>1, <2>3, Zenon DEF HonestAt
    <2>7. ASSUME NEW j \in Nat \ {0}, Pending(l, j)' PROVE Pending(l, j) /\ j <= Len(issued) /\ j \notin applied'
      <3>1. Has(up'[l], j) \/ torn'[l] = <<j>>
        BY <2>3, <2>7, Zenon DEF Pending, Busy, Has
      <3>2. j # i
        BY <1>5, <1>6, <1>7, <1>12, <3>1, Zenon
      <3> QED BY <1>4, <1>8, <2>1, <3>1, <3>2
    <2>8. \A j \in applied' \ applied : Pending(l, j)
      BY <1>6, <1>12, <2>1, Zenon
    <2>9. \A m \in Links \ {l} :
              /\ up'[m] = up[m] /\ torn'[m] = torn[m] /\ down'[m] = down[m]
              /\ thread'[m] = thread[m] /\ current'[m] = current[m] /\ ok'[m] = ok[m]
      BY <1>2, <1>9, <2>3, Zenon
    <2>10. applied \subseteq applied' /\ issued' = issued
      BY <2>1, Zenon
    <2> QED BY <2>2, <2>4, <2>5, <2>6, <2>7, <2>8, <2>9, <2>10, LinkApplies, Zenon
  <1>13. CASE ~Refuses(i) /\ Goes(l, "tmp") /\ UNCHANGED <<store, ok>>
    <2>1. /\ thread' = [thread EXCEPT ![l] = "tmp"] /\ ok' = ok
          /\ UNCHANGED <<issued, applied>> /\ [StoreNext]_store
      BY <1>13, StoreSame, Zenon DEF Goes
    <2>2. thread'[l] = "tmp" /\ \A m \in Links \ {l} : thread'[m] = thread[m]
      BY <2>1, Zenon DEF WireInv, WireTypes
    <2>3. WireTypes'
      BY <1>2, <1>9, <2>1, Zenon DEF WireInv, WireTypes, Threads
    <2>4. SingleAt(l)'
      BY <1>5, <1>6, <1>7, <1>10, <1>13, <2>1, Zenon DEF SingleAt, Busy, Once, Has, Acceptable
    <2>5. HonestAt(l)'
      BY <1>4, <1>7, <2>1, <2>2, Zenon DEF HonestAt
    <2>6. ASSUME NEW j \in Nat \ {0}, Pending(l, j)' PROVE Pending(l, j)
      BY <1>6, <1>7, <1>8, <1>13, <2>6, Zenon DEF Pending, Has
    <2>7. \A m \in Links \ {l} :
              /\ up'[m] = up[m] /\ torn'[m] = torn[m] /\ down'[m] = down[m]
              /\ thread'[m] = thread[m] /\ current'[m] = current[m] /\ ok'[m] = ok[m]
      BY <1>2, <1>9, <2>1, <2>2, Zenon
    <2>8. issued' = issued /\ applied' = applied /\ [StoreNext]_store
      BY <2>1, Zenon
    <2> QED BY <2>3, <2>4, <2>5, <2>6, <2>7, <2>8, LinkQuiet, Zenon
  <1> QED BY <1>3, <1>11, <1>12, <1>13, Zenon

LEMMA WriteWire ==
    ASSUME WireInv, NEW l \in Links, WriteTmp(l)
    PROVE  WireInv' /\ [StoreNext]_store
  <1>1. thread[l] = "tmp" /\ UNCHANGED <<conn, waiting, torn, up, down, current>> /\ UNCHANGED store
    BY Zenon DEF WriteTmp, Serves
  <1>2. PICK at \in {"rename", "reply"} :
            /\ thread' = [thread EXCEPT ![l] = at]
            /\ ok' = ok \/ ok' = [ok EXCEPT ![l] = FALSE]
            /\ at = "reply" => ok' = [ok EXCEPT ![l] = FALSE]
    BY Zenon DEF WriteTmp, Goes, Answers
  <1>3. UNCHANGED <<issued, applied>> /\ [StoreNext]_store
    BY <1>1, StoreSame, Zenon
  <1>4. thread'[l] = at /\ ok' \in [Links -> BOOLEAN] /\ (at = "reply" => ~ok'[l])
    BY <1>2, Zenon DEF WireInv, WireTypes
  <1>5. WireTypes'
    <2>1. thread' \in [Links -> Threads]
      BY <1>2, Zenon DEF WireInv, WireTypes, Threads
    <2> QED BY <1>1, <1>3, <1>4, <2>1 DEF WireInv, WireTypes
  <1>6. SingleAt(l) /\ HonestAt(l) /\ Busy(l) /\ Len(issued) \in Nat
        /\ \A j \in Nat \ {0} : Pending(l, j) => j <= Len(issued) /\ j \notin applied
    BY <1>1, AtLink, Zenon DEF Busy
  <1>7. SingleAt(l)'
    BY <1>1, <1>3, <1>6, Zenon DEF SingleAt, Once, Has, Acceptable
  <1>8. HonestAt(l)'
    BY <1>1, <1>3, <1>4, <1>6, Zenon DEF HonestAt
  <1>9. ASSUME NEW j \in Nat \ {0}, Pending(l, j)' PROVE Pending(l, j)
    BY <1>1, <1>6, <1>9, Zenon DEF Pending, Has
  <1>10. \A m \in Links \ {l} :
             /\ up'[m] = up[m] /\ torn'[m] = torn[m] /\ down'[m] = down[m]
             /\ thread'[m] = thread[m] /\ current'[m] = current[m] /\ ok'[m] = ok[m]
    BY <1>1, <1>2, Zenon DEF WireInv, WireTypes
  <1>11. issued' = issued /\ applied' = applied
    BY <1>3, Zenon
  <1> QED BY <1>3, <1>5, <1>7, <1>8, <1>9, <1>10, <1>11, LinkQuiet, Zenon

LEMMA RenameWire ==
    ASSUME WireInv, NEW l \in Links, Rename(l)
    PROVE  WireInv' /\ [StoreNext]_store
  <1>1. thread[l] = "rename" /\ UNCHANGED <<conn, waiting, torn, up, down, current>>
    BY Zenon DEF Rename, Serves
  <1>2. PICK b \in BOOLEAN : /\ thread' = [thread EXCEPT ![l] = "reply"] /\ ok' = [ok EXCEPT ![l] = b]
                             /\ (b /\ Applied(current[l])) \/ (~b /\ UNCHANGED store)
    BY Zenon DEF Rename, Goes, Answers
  <1>3. SingleAt(l) /\ HonestAt(l) /\ Busy(l) /\ Len(issued) \in Nat /\ current[l] \in Nat
        /\ \A j \in Nat \ {0} : Pending(l, j) => j <= Len(issued) /\ j \notin applied
    BY <1>1, AtLink, Zenon DEF Busy
  <1>4. /\ current[l] \in 1..Len(issued) /\ current[l] \notin applied /\ Acceptable(issued[current[l]])
        /\ Pending(l, current[l]) /\ ~Has(up[l], current[l]) /\ torn[l] # <<current[l]>>
    <2>1. /\ current[l] # 0 /\ Acceptable(issued[current[l]])
          /\ ~Has(up[l], current[l]) /\ torn[l] # <<current[l]>>
      BY <1>3, Zenon DEF SingleAt
    <2>2. Pending(l, current[l])
      BY <1>3, Zenon DEF Pending
    <2>3. current[l] \in Nat \ {0}
      BY <1>3, <2>1, Zenon
    <2>4. current[l] <= Len(issued) /\ current[l] \notin applied
      BY <1>3, <2>2, <2>3, Zenon
    <2>5. current[l] \in 1..Len(issued)
      BY <1>3, <2>3, <2>4
    <2> QED BY <2>1, <2>2, <2>4, <2>5, Zenon
  <1>5. issued' = issued /\ (applied' = applied \/ applied' = applied \cup {current[l]})
        /\ (b => applied' = applied \cup {current[l]})
    BY <1>2, StoreSame, Zenon DEF Applied
  <1>6. [StoreNext]_store
    BY <1>2, <1>4, Zenon DEF StoreNext, Apply
  <1>7. thread'[l] = "reply" /\ ok'[l] = b /\ ok' \in [Links -> BOOLEAN]
    BY <1>2, Zenon DEF WireInv, WireTypes
  <1>8. WireTypes'
    BY <1>1, <1>2, <1>4, <1>5, <1>7, Zenon DEF WireInv, WireTypes, Threads
  <1>9. SingleAt(l)'
    BY <1>1, <1>3, <1>7, Zenon DEF SingleAt, Busy, Once, Has
  <1>10. HonestAt(l)'
    <2>1. ok'[l] => current'[l] \in applied'
      BY <1>1, <1>5, <1>7, Zenon
    <2>2. \A k \in 1..Len(down'[l]) : down'[l][k].ok => down'[l][k].id \in applied'
      BY <1>1, <1>3, <1>5, Zenon DEF HonestAt
    <2> QED BY <2>1, <2>2 DEF HonestAt
  <1>11. ASSUME NEW j \in Nat \ {0}, Pending(l, j)' PROVE Pending(l, j) /\ j <= Len(issued) /\ j \notin applied'
    <2>1. Has(up[l], j) \/ torn[l] = <<j>>
      BY <1>1, <1>7, <1>11, Zenon DEF Pending, Busy, Has
    <2>2. j # current[l] /\ Pending(l, j)
      BY <1>4, <2>1, Zenon DEF Pending
    <2> QED BY <1>3, <1>5, <2>2
  <1>12. \A m \in Links \ {l} :
             /\ up'[m] = up[m] /\ torn'[m] = torn[m] /\ down'[m] = down[m]
             /\ thread'[m] = thread[m] /\ current'[m] = current[m] /\ ok'[m] = ok[m]
    BY <1>1, <1>2, Zenon DEF WireInv, WireTypes
  <1>13. applied \subseteq applied' /\ \A j \in applied' \ applied : Pending(l, j)
    BY <1>4, <1>5, Zenon
  <1>14. issued' = issued
    BY <1>5, Zenon
  <1> QED BY <1>6, <1>8, <1>9, <1>10, <1>11, <1>12, <1>13, <1>14, LinkApplies, Zenon

LEMMA RespondWire ==
    ASSUME WireInv, NEW l \in Links, Respond(l)
    PROVE  WireInv' /\ [StoreNext]_store
  <1> DEFINE r == [id |-> current[l], ok |-> ok[l]]
  <1>1. /\ thread[l] = "reply" /\ UNCHANGED <<conn, waiting, torn, up>> /\ UNCHANGED store
        /\ current' = [current EXCEPT ![l] = 0] /\ ok' = [ok EXCEPT ![l] = FALSE]
    BY Zenon DEF Respond, Serves
  <1>2. PICK at \in {"read", "off"} :
            /\ thread' = [thread EXCEPT ![l] = at]
            /\ down' = down \/ down' = [down EXCEPT ![l] = Append(@, r)]
    BY Zenon DEF Respond, Goes, Reply
  <1>3. UNCHANGED <<issued, applied>> /\ [StoreNext]_store
    BY <1>1, StoreSame, Zenon
  <1>4. /\ SingleAt(l) /\ HonestAt(l) /\ Len(issued) \in Nat /\ down[l] \in Seq(Replies) /\ r \in Replies
        /\ \A j \in Nat \ {0} : Pending(l, j) => j <= Len(issued) /\ j \notin applied
    BY AtLink, Zenon DEF Replies
  <1>5. r.ok => r.id \in applied
    BY <1>1, <1>4, Zenon DEF HonestAt
  <1>6. /\ Append(down[l], r) \in Seq(Replies) /\ Len(Append(down[l], r)) = Len(down[l]) + 1
        /\ Len(down[l]) \in Nat /\ Append(down[l], r)[Len(down[l]) + 1] = r
        /\ \A k \in 1..Len(down[l]) : Append(down[l], r)[k] = down[l][k]
    BY <1>4, AppendProperties, LenProperties
  <1> HIDE DEF r
  <1>7. \A k \in 1..Len(Append(down[l], r)) : Append(down[l], r)[k].ok => Append(down[l], r)[k].id \in applied
    <2> SUFFICES ASSUME NEW k \in 1..Len(Append(down[l], r)), Append(down[l], r)[k].ok
                 PROVE  Append(down[l], r)[k].id \in applied
      OBVIOUS
    <2>1. CASE k = Len(down[l]) + 1
      BY <1>5, <1>6, <2>1, Zenon
    <2>2. CASE k # Len(down[l]) + 1
      <3>1. k \in 1..Len(down[l]) /\ Append(down[l], r)[k] = down[l][k]
        BY <1>6, <2>2
      <3> QED BY <1>4, <3>1 DEF HonestAt
    <2> QED BY <2>1, <2>2
  <1>8. down'[l] \in {down[l], Append(down[l], r)} /\ thread'[l] = at
    BY <1>2, Zenon DEF WireInv, WireTypes
  <1>9. WireTypes'
    <2>0. down \in [Links -> Seq(Replies)]
      BY Zenon DEF WireInv, WireTypes
    <2>1. down' \in [Links -> Seq(Replies)]
      BY <1>2, <1>6, <2>0, Zenon
    <2> QED BY <1>1, <1>2, <1>3, <2>1, Zenon DEF WireInv, WireTypes, Threads
  <1>10. SingleAt(l)'
    BY <1>1, <1>4, <1>8, Zenon DEF SingleAt, Busy, Once, Has
  <1>11. HonestAt(l)'
    BY <1>3, <1>4, <1>7, <1>8, Zenon DEF HonestAt
  <1>12. ASSUME NEW j \in Nat \ {0}, Pending(l, j)' PROVE Pending(l, j)
    BY <1>1, <1>8, <1>12, Zenon DEF Pending, Busy, Has
  <1>13. \A m \in Links \ {l} :
             /\ up'[m] = up[m] /\ torn'[m] = torn[m] /\ down'[m] = down[m]
             /\ thread'[m] = thread[m] /\ current'[m] = current[m] /\ ok'[m] = ok[m]
    BY <1>1, <1>2, Zenon DEF WireInv, WireTypes
  <1>14. issued' = issued /\ applied' = applied
    BY <1>3, Zenon
  <1> QED BY <1>3, <1>9, <1>10, <1>11, <1>12, <1>13, <1>14, LinkQuiet, Zenon

LEMMA EndWire ==
    ASSUME WireInv, NEW l \in Links, ServeEnds(l)
    PROVE  WireInv' /\ [StoreNext]_store
  <1>1. /\ thread' = [thread EXCEPT ![l] = "off"] /\ UNCHANGED store
        /\ UNCHANGED <<conn, waiting, torn, up, down, current, ok>>
    BY Zenon DEF ServeEnds, Goes
  <1>2. issued' = issued /\ applied' = applied /\ [StoreNext]_store
    BY <1>1, StoreSame, Zenon
  <1>3. SingleAt(l) /\ HonestAt(l) /\ Len(issued) \in Nat /\ thread'[l] = "off"
        /\ \A j \in Nat \ {0} : Pending(l, j) => j <= Len(issued) /\ j \notin applied
    BY <1>1, AtLink, Zenon DEF WireInv, WireTypes
  <1>4. WireTypes'
    BY <1>1, <1>2, Zenon DEF WireInv, WireTypes, Threads
  <1>5. SingleAt(l)' /\ HonestAt(l)'
    BY <1>1, <1>2, <1>3, Zenon DEF SingleAt, HonestAt, Busy, Once, Has
  <1>6. ASSUME NEW j \in Nat \ {0}, Pending(l, j)' PROVE Pending(l, j)
    BY <1>1, <1>3, <1>6, Zenon DEF Pending, Busy, Has
  <1>7. \A m \in Links \ {l} :
            /\ up'[m] = up[m] /\ torn'[m] = torn[m] /\ down'[m] = down[m]
            /\ thread'[m] = thread[m] /\ current'[m] = current[m] /\ ok'[m] = ok[m]
    BY <1>1, Zenon DEF WireInv, WireTypes
  <1> QED BY <1>2, <1>4, <1>5, <1>6, <1>7, LinkQuiet, Zenon

LEMMA WireStep ==
    ASSUME WireInv, [ClientStep \/ DaemonStep]_metadata
    PROVE  WireInv' /\ [StoreNext]_store
  <1>1. CASE ClientStep
    <2>1. PICK c \in Clients :
              \/ connect(c) \/ recv_ok(c) \/ RecvTimeout(c) \/ RecvEof(c) \/ DropConn(c)
              \/ \E body \in Pushes[c] : send(c, body)
      BY <1>1, Zenon DEF ClientStep
    <2> QED BY <2>1, ConnectWire, ReceiveWire, TimeoutWire, DropWire, SendWire, Zenon
  <1>2. CASE DaemonStep
    <2>1. PICK l \in Links :
              handle_line(l) \/ WriteTmp(l) \/ Rename(l) \/ Respond(l) \/ ServeEnds(l)
      BY <1>2, Zenon DEF DaemonStep
    <2> QED BY <2>1, HandleWire, WriteWire, RenameWire, RespondWire, EndWire, Zenon
  <1>3. CASE UNCHANGED metadata
    <2>1. UNCHANGED <<conn, waiting, torn, up, down, thread, current, ok>> /\ UNCHANGED store
      BY <1>3, Zenon DEF metadata, links
    <2>2. issued' = issued /\ applied' = applied /\ [StoreNext]_store
      BY <2>1, StoreSame, Zenon
    <2>3. WireTypes'
      BY <2>1, <2>2, Zenon DEF WireInv, WireTypes
    <2>4. \A l \in Links : \A k \in 1..Len(down'[l]) : down'[l][k].ok => down'[l][k].id \in applied
      BY <2>1, Zenon DEF WireInv, Honest
    <2> QED BY <2>1, <2>2, <2>3, <2>4, HostStep
  <1> QED BY <1>1, <1>2, <1>3

LEMMA WireInit ==
    ASSUME MetadataInit
    PROVE  WireInv /\ StoreInit
  <1>2. StoreInit /\ issued = <<>> /\ applied = {}
    BY Zenon DEF MetadataInit, StoreInit
  <1>3. /\ torn = [l \in Links |-> <<>>] /\ up = [l \in Links |-> <<>>] /\ down = [l \in Links |-> <<>>]
        /\ thread = [l \in Links |-> "off"] /\ current = [l \in Links |-> 0]
        /\ conn = [c \in Clients |-> None] /\ waiting = [c \in Clients |-> 0]
    BY Zenon DEF MetadataInit
  <1>4. ok = [l \in Links |-> FALSE]
    BY Zenon DEF MetadataInit
  <1>5. ok \in [Links -> BOOLEAN]
    BY <1>4, Zenon
  <1>6. WireTypes
    BY <1>2, <1>3, <1>5 DEF WireTypes, Tears, Threads
  <1>7. \A l \in Links : up[l] = <<>> /\ torn[l] = <<>> /\ down[l] = <<>> /\ thread[l] = "off"
    BY <1>3, Zenon
  <1>8. \A l \in Links : ~Busy(l) /\ Len(up[l]) = 0 /\ Len(down[l]) = 0 /\ \A i : torn[l] # <<i>>
    BY <1>7, Torn DEF Busy
  <1>9. \A l \in Links : \A i : ~Pending(l, i)
    BY <1>8, SMTT(20) DEF Pending, Has
  <1>10. Single /\ Honest
    BY <1>7, <1>8 DEF Single, Honest, Once
  <1> QED BY <1>2, <1>6, <1>9, <1>10 DEF WireInv, Fresh, Apart

-----------------------------------------------------------------------------
(* The end of the Firecracker process.                                      *)
Released == {"console", "uffd", "gone"}

Before == {"alive", "kept", "fast_path", "sigterm"}

Grace == {"try_wait", "now", "sleep"}

(* The inductive invariant of kill_process: what has been sent, and how     *)
(* much of the grace period has passed, at each stage.                      *)
ShutdownInv ==
    /\ child \in {"running", "exited", "reaped"} /\ stage \in Stages
    /\ clock \in 0..GracePeriod /\ term \in BOOLEAN /\ killed \in BOOLEAN
    /\ stage \in Before => ~term /\ ~killed
    /\ stage \in Grace => term /\ ~killed
    /\ stage = "kill" => ~killed /\ (term => clock = GracePeriod)
    /\ stage = "wait" => killed /\ (term => clock = GracePeriod)
    /\ stage \in Released <=> child = "reaped"
    /\ stage \notin Released => outcome = "none"
    /\ wake \in 0..GracePeriod /\ outcome \in {"none", "AlreadyExited", "Graceful", "Forced"}
    /\ OutcomeTruthful

LEMMA ShutdownAlone ==
    ASSUME [Next]_services
    PROVE  \/ UNCHANGED shutdown
           \/ KillStep \/ ConsoleJoined \/ HandlerJoined \/ Tick \/ BeginKill \/ ChildExits
  BY Zenon DEF Next, services, KillThread, DrainThread, HandlerThread, ReaderThread, HttpThread,
               Time, Begin, Exit, Writes, Guest, Emits, Api, Metadata

LEMMA ShutdownInvHolds == Spec => []ShutdownInv
  <1>1. Init => ShutdownInv
    <2>1. Init => ShutdownInit
      BY Zenon DEF Init
    <2>2. ShutdownInit => ShutdownInv
      <3> SUFFICES ASSUME ShutdownInit PROVE ShutdownInv
        OBVIOUS
      <3>1. child = "running" /\ stage \in Before /\ outcome = "none" /\ clock = 0 /\ wake = 0
        BY DEF ShutdownInit, Before
      <3>2. term \in BOOLEAN /\ killed \in BOOLEAN /\ ~term /\ ~killed
        BY Zenon DEF ShutdownInit
      <3> QED BY <3>1, <3>2, ShutdownAssumption
              DEF ShutdownInv, OutcomeTruthful, Stages, Released, Before, Grace
    <2> QED BY <2>1, <2>2
  <1>2. ShutdownInv /\ [Next]_services => ShutdownInv'
    <2> SUFFICES ASSUME ShutdownInv, [Next]_services PROVE ShutdownInv'
      OBVIOUS
    <2> USE ShutdownAssumption
        DEF ShutdownInv, OutcomeTruthful, Stages, Released, Before, Grace, To, Returns
    <2>1. CASE UNCHANGED shutdown
      BY <2>1 DEF shutdown
    <2>2. CASE FastPath
      BY <2>2, SMTT(20) DEF FastPath, TryWait
    <2>3. CASE Sigterm
      BY <2>3, SMTT(20) DEF Sigterm
    <2>4. CASE Poll
      BY <2>4, SMTT(20) DEF Poll, TryWait
    <2>5. CASE CheckDeadline
      BY <2>5 DEF CheckDeadline, Earlier
    <2>6. CASE WakeUp
      BY <2>6 DEF WakeUp
    <2>7. CASE Kill
      BY <2>7 DEF Kill
    <2>8. CASE Wait
      BY <2>8 DEF Wait
    <2>9. CASE ConsoleJoined
      BY <2>9 DEF ConsoleJoined
    <2>10. CASE HandlerJoined
      BY <2>10 DEF HandlerJoined
    <2>11. CASE Tick
      BY <2>11 DEF Tick
    <2>12. CASE BeginKill
      BY <2>12 DEF BeginKill
    <2>13. CASE ChildExits
      BY <2>13 DEF ChildExits
    <2> QED BY <2>1, <2>2, <2>3, <2>4, <2>5, <2>6, <2>7, <2>8, <2>9, <2>10, <2>11, <2>12, <2>13,
               ShutdownAlone, Zenon DEF KillStep
  <1> QED BY <1>1, <1>2, PTL DEF Spec

(* graceful_shutdown's outcome is true of what was done, and nothing is     *)
(* released before the child is reaped, for every grace period and poll     *)
(* interval.                                                                *)
THEOREM OutcomeTruthfulHolds == Spec => []OutcomeTruthful
  <1>1. ShutdownInv => OutcomeTruthful
    BY DEF ShutdownInv
  <1> QED BY <1>1, ShutdownInvHolds, PTL

(* No signal is sent after the child was reaped (send_sigterm, Child::kill).*)
THEOREM SignalsOwnChildHolds == Spec => SignalsOwnChild
  <1>1. ShutdownInv /\ [Next]_services =>
            [term' # term \/ killed' # killed => child # "reaped"]_services
    <2> SUFFICES ASSUME ShutdownInv, [Next]_services, child = "reaped"
                 PROVE  term' = term /\ killed' = killed
      OBVIOUS
    <2>1. stage \in Released
      BY DEF ShutdownInv
    <2> QED BY <2>1, ShutdownAlone, Zenon
            DEF shutdown, KillStep, FastPath, Sigterm, Poll, TryWait, CheckDeadline, WakeUp, Kill, Wait,
                ConsoleJoined, HandlerJoined, Tick, BeginKill, ChildExits, Released
  <1> QED BY <1>1, ShutdownInvHolds, PTL DEF Spec, SignalsOwnChild

-----------------------------------------------------------------------------
(* The metadata protocol.                                                   *)
LEMMA MetadataAlone ==
    ASSUME [Next]_services
    PROVE  [ClientStep \/ DaemonStep]_metadata
  <1>1. UNCHANGED talks => UNCHANGED metadata
    BY DEF talks
  <1> QED BY <1>1, Zenon
          DEF Next, services, KillThread, DrainThread, HandlerThread, ReaderThread, HttpThread,
              Time, Begin, Exit, Writes, Guest, Emits, Api, Metadata

(* The client and the daemon, over links that tear lines and replies that   *)
(* come late, implement the store: a request is applied at most once and as *)
(* a whole (atomic_write), and recv_ok's Ok means that it was.              *)
THEOREM MetadataImplementsStore == Spec => StoreSpec
  <1>1. Init => WireInv /\ StoreInit
    BY WireInit, Zenon DEF Init
  <1>2. WireInv /\ [Next]_services => WireInv' /\ [StoreNext]_store
    BY MetadataAlone, WireStep, Zenon
  <1> QED BY <1>1, <1>2, PTL DEF Spec, StoreSpec

(* Hence what set_env or set_secret returned Ok for is not undone by an     *)
(* older request that the caller had already seen acknowledged.             *)
THEOREM AckedSurvivesHolds == Spec => []AckedSurvives
  BY MetadataImplementsStore, StoreKeepsAcked, PTL

-----------------------------------------------------------------------------
(* The page-fault handler.                                                  *)
LEMMA UffdAlone ==
    ASSUME [Next]_services
    PROVE  UNCHANGED uffd \/ DropHandler \/ HandlerStep \/ Connect \/ GuestStep \/ LoopError
  <1>1. UNCHANGED threads => UNCHANGED uffd
    BY Zenon DEF threads
  <1> QED
    BY <1>1, Zenon DEF Next, services, KillThread, DrainThread, HandlerThread, ReaderThread,
       HttpThread, Time, Begin, Exit, Writes, Guest, Emits, Api, Metadata

LEMMA PageFacts ==
    /\ \A c \in VCpus : \A a \in Addrs[c] : a \in Touched /\ a \in Nat /\ align(a) \in Pages
    /\ \A p \in Pages : p \in Int
    /\ Ballooned \subseteq Pages
  <1>1. \A c \in VCpus : \A a \in Addrs[c] : a \in Touched /\ a \in Nat
    BY MemoryAssumption, Zenon DEF Touched
  <1>2. \A a \in Touched : align(a) \in Pages /\ a \in Nat
    BY MemoryAssumption, Zenon DEF Touched, Pages
  <1>3. \A a \in Nat : align(a) \in Int
    BY MemoryAssumption DEF align
  <1>4. \A p \in Pages : \E a \in Touched : p = align(a)
    BY Zenon DEF Pages
  <1>5. \A p \in Pages : p \in Int
    BY <1>2, <1>3, <1>4, Zenon
  <1> QED
    BY <1>1, <1>2, <1>5, RegionAssumption, Zenon

(* What a page gets from the memory file.                                   *)
Faithful(p, v) ==
    /\ v = Zero => \A r \in Regions : ~InRegion(p, r)
    /\ v \notin {None, Zero} =>
          \E r \in Regions :
             /\ InRegion(p, r) /\ v - r.offset = p - r.base /\ v + PageSize <= MemSize
    /\ v \in {None, Zero} \cup 0..MemSize

LEMMA SourceFaithful ==
    ASSUME NEW p \in Pages PROVE Faithful(p, Source(p))
  <1>1. CASE \A r \in Regions : ~InRegion(p, r)
    <2>1. Source(p) = Zero
      BY <1>1, Zenon DEF Source
    <2> QED
      BY <1>1, <2>1, Zenon DEF Faithful
  <1>2. CASE ~\A r \in Regions : ~InRegion(p, r)
    <2> DEFINE r == CHOOSE r \in Regions : InRegion(p, r)
    <2>1. r \in Regions /\ InRegion(p, r)
      BY <1>2, Zenon
    <2>2. Source(p) = IF SourceOffset(p, r) + PageSize > MemSize THEN None ELSE SourceOffset(p, r)
      BY <1>2, Zenon DEF Source
    <2> HIDE DEF r
    <2>3. p \in Int /\ r.base \in Nat /\ r.offset \in Nat /\ r.size \in Nat
      BY <2>1, PageFacts, RegionAssumption
    <2> DEFINE o == SourceOffset(p, r)
    <2>4. o \in Nat /\ o - r.offset = p - r.base
      BY <2>1, <2>3 DEF SourceOffset, InRegion
    <2> HIDE DEF o
    <2>5. CASE o + PageSize > MemSize
      <3>1. Source(p) = None
        BY <2>2, <2>5, Zenon DEF o
      <3>2. None # Zero
        BY MemoryAssumption, Zenon
      <3> QED
        BY <3>1, <3>2, Zenon DEF Faithful
    <2>6. CASE ~(o + PageSize > MemSize)
      <3>1. Source(p) = o
        BY <2>2, <2>6, Zenon DEF o
      <3>2. o # Zero /\ o + PageSize <= MemSize /\ o \in 0..MemSize
        BY <2>4, <2>6, MemoryAssumption
      <3> QED
        BY <2>1, <2>4, <3>1, <3>2, Zenon DEF Faithful
    <2> QED
      BY <2>5, <2>6, Zenon
  <1> QED
    BY <1>1, <1>2, Zenon

UffdTypes ==
    /\ handler \in {"off", "accept", "handshake", "mmap", "loop", "ended"}
    /\ stopServe \in BOOLEAN /\ touching \in [VCpus -> Touched \cup {None}]
    /\ faults \subseteq VCpus \X Pages /\ registered \subseteq Pages /\ lost \subseteq VCpus
    /\ page \in [Pages -> {None, Zero} \cup 0..MemSize] /\ removing \in Pages \cup {None}
    /\ reclaimed \subseteq Pages /\ stuck \subseteq reclaimed

(* A reclaimed page reads as zeroes because its faults no longer come to    *)
(* the handler.                                                             *)
PageOK(p) ==
    /\ p \in reclaimed /\ p \in registered => p \in stuck
    /\ p \notin registered => page[p] \in {None, Zero}
    /\ p \in registered /\ page[p] = Zero => \A r \in Regions : ~InRegion(p, r)
    /\ page[p] \notin {None, Zero} =>
          \E r \in Regions :
             /\ InRegion(p, r) /\ page[p] - r.offset = p - r.base
             /\ page[p] + PageSize <= MemSize

PageInv == \A p \in Pages : PageOK(p)

LEMMA UffdInitHolds == UffdInit => UffdTypes /\ PageInv
  <1> SUFFICES ASSUME UffdInit PROVE UffdTypes /\ PageInv
    OBVIOUS
  <1>1. UffdTypes
    BY Zenon DEF UffdInit, UffdTypes
  <1>2. None # Zero /\ reclaimed = {} /\ \A p \in Pages : page[p] = None
    BY MemoryAssumption, Zenon DEF UffdInit
  <1> QED
    BY <1>1, <1>2, Zenon DEF PageInv, PageOK

(* A page whose contents a step leaves alone, and which stays registered if *)
(* it was.                                                                  *)
LEMMA UffdQuiet ==
    ASSUME PageInv, UNCHANGED page, UNCHANGED balloon PROVE PageInv'
  BY Zenon DEF PageInv, PageOK, balloon

LEMMA WakeTypes ==
    ASSUME UffdTypes, NEW p, Wake(p)
    PROVE  touching' \in [VCpus -> Touched \cup {None}] /\ lost' \subseteq VCpus
  BY Zenon DEF UffdTypes, Wake

LEMMA UffdStep ==
    ASSUME UffdTypes, PageInv, [Next]_services PROVE UffdTypes' /\ PageInv'
  <1>1. CASE UNCHANGED uffd
    <2>1. UffdTypes'
      BY <1>1, Zenon DEF UffdTypes, uffd, balloon
    <2> QED
      BY <1>1, <2>1, UffdQuiet, Zenon DEF uffd
  <1>2. CASE DropHandler \/ Connect \/ LoopError \/ receive_handshake \/ MapMemory \/ LoopEnds
    <2>1. UNCHANGED guest
      BY <1>2, Zenon DEF DropHandler, Connect, LoopError, receive_handshake, MapMemory, LoopEnds
    <2>2. handler' \in {"off", "accept", "handshake", "mmap", "loop", "ended"} /\ stopServe' \in BOOLEAN
      BY <1>2, Zenon DEF DropHandler, Connect, LoopError, receive_handshake, MapMemory, LoopEnds, UffdTypes
    <2>3. UffdTypes'
      BY <2>1, <2>2, Zenon DEF UffdTypes, guest, balloon
    <2> QED
      BY <2>1, <2>3, UffdQuiet, Zenon DEF guest
  <1>3. ASSUME NEW c \in VCpus, NEW a \in Addrs[c], Touch(c, a) PROVE UffdTypes' /\ PageInv'
    <2>1. a \in Touched /\ align(a) \in Pages
      BY PageFacts, Zenon
    <2>2. UNCHANGED <<handler, stopServe, lost, balloon>>
      BY <1>3, Zenon DEF Touch
    <2>3. CASE align(a) \in registered
      <3>1. /\ touching' = [touching EXCEPT ![c] = a] /\ faults' = faults \cup {<<c, align(a)>>}
            /\ UNCHANGED page
        BY <1>3, <2>3, Zenon DEF Touch
      <3>2. faults' \subseteq VCpus \X Pages
        BY <2>1, <3>1 DEF UffdTypes
      <3>3. UffdTypes'
        BY <2>1, <2>2, <3>1, <3>2, Zenon DEF UffdTypes, balloon
      <3> QED
        BY <2>2, <3>1, <3>3, UffdQuiet, Zenon
    <2>4. CASE align(a) \notin registered
      <3>1. page' = [page EXCEPT ![align(a)] = Zero] /\ UNCHANGED <<touching, faults>>
        BY <1>3, <2>4, Zenon DEF Touch
      <3>2. UffdTypes'
        BY <2>1, <2>2, <3>1, Zenon DEF UffdTypes, balloon
      <3>3. page'[align(a)] = Zero /\ \A p \in Pages \ {align(a)} : page'[p] = page[p]
        BY <2>1, <3>1, Zenon DEF UffdTypes
      <3>4. PageInv'
        BY <2>2, <2>4, <3>3, Zenon DEF PageInv, PageOK, balloon
      <3> QED
        BY <3>2, <3>4, Zenon
    <2> QED
      BY <2>3, <2>4, Zenon
  <1>4. ASSUME NEW p \in Ballooned, BalloonRemoves(p) PROVE UffdTypes' /\ PageInv'
    <2>1. /\ removing' = p /\ UNCHANGED <<handler, stopServe, touching, faults, page, lost>>
          /\ UNCHANGED <<registered, reclaimed, stuck>>
      BY <1>4, Zenon DEF BalloonRemoves
    <2>2. UffdTypes'
      BY <2>1, PageFacts, Zenon DEF UffdTypes
    <2> QED
      BY <2>1, <2>2, Zenon DEF PageInv, PageOK
  <1>5. ASSUME NEW c \in VCpus, NEW p \in Pages, handle_pagefault(c, p)
        PROVE  UffdTypes' /\ PageInv'
    <2>1. UNCHANGED <<handler, stopServe, balloon>>
      BY <1>5, Zenon DEF handle_pagefault
    <2>2. faults' \subseteq faults
      BY <1>5, Zenon DEF handle_pagefault, Dequeued
    <2>3. CASE page[p] = None /\ Copies(p)
      <3>1. page' = [page EXCEPT ![p] = Source(p)] /\ Wake(p) /\ p \in registered
        BY <1>5, <2>3, Zenon DEF handle_pagefault, Copies
      <3>2. page'[p] = Source(p) /\ \A q \in Pages \ {p} : page'[q] = page[q]
        BY <3>1, Zenon DEF UffdTypes
      <3>3. Faithful(p, Source(p))
        BY SourceFaithful, Zenon
      <3>4. page' \in [Pages -> {None, Zero} \cup 0..MemSize]
        BY <3>1, <3>3, Zenon DEF UffdTypes, Faithful
      <3>5. UffdTypes'
        BY <2>1, <2>2, <3>1, <3>4, WakeTypes, Zenon DEF UffdTypes, balloon
      <3>6. PageInv'
        BY <2>1, <3>1, <3>2, <3>3, Zenon DEF PageInv, PageOK, Faithful, balloon
      <3> QED
        BY <3>5, <3>6, Zenon
    <2>4. CASE ~(page[p] = None /\ Copies(p))
      <3>1. UNCHANGED <<page, touching>> /\ (lost' = lost \/ lost' = lost \cup (Waiters(p) \cap {c}))
        BY <1>5, <2>4, Zenon DEF handle_pagefault
      <3>2. UffdTypes'
        BY <2>1, <2>2, <3>1, Zenon DEF UffdTypes, balloon
      <3> QED
        BY <2>1, <3>1, <3>2, UffdQuiet, Zenon
    <2> QED
      BY <2>3, <2>4, Zenon
  <1>6. CASE UnregisterRange
    <2>1. /\ removing \in Pages /\ page' = [page EXCEPT ![removing] = None] /\ removing' = None
          /\ reclaimed' = reclaimed \cup {removing} /\ UNCHANGED <<handler, stopServe>>
          /\ \/ /\ registered' = registered \ {removing} /\ stuck' = stuck \ {removing}
                /\ Wake(removing) /\ faults' \subseteq faults
             \/ /\ stuck' = stuck \cup {removing}
                /\ UNCHANGED <<registered, touching, faults, lost>>
      BY <1>6, Zenon DEF UnregisterRange, UffdTypes
    <2>2. page'[removing] = None /\ \A q \in Pages \ {removing} : page'[q] = page[q]
      BY <2>1, Zenon DEF UffdTypes
    <2>3. page' \in [Pages -> {None, Zero} \cup 0..MemSize]
      BY <2>1, Zenon DEF UffdTypes
    <2>4. UffdTypes'
      <3>1. touching' \in [VCpus -> Touched \cup {None}] /\ lost' \subseteq VCpus
        BY <2>1, WakeTypes, Zenon DEF UffdTypes
      <3>2. faults' \subseteq VCpus \X Pages
        BY <2>1, Zenon DEF UffdTypes
      <3> QED
        BY <2>1, <2>3, <3>1, <3>2, Zenon DEF UffdTypes
    <2>5. PageInv'
      <3>1. None # Zero
        BY MemoryAssumption, Zenon
      <3>2. /\ registered' \subseteq registered
            /\ \A q \in Pages \ {removing} :
                  /\ q \in registered' <=> q \in registered
                  /\ q \in reclaimed' <=> q \in reclaimed
                  /\ q \in stuck' <=> q \in stuck
            /\ removing \in registered' => removing \in stuck'
        BY <2>1, Zenon
      <3>3. ASSUME NEW p \in Pages, p # removing PROVE PageOK(p)'
        BY <2>2, <3>2, <3>3, Zenon DEF PageInv, PageOK
      <3>4. ASSUME NEW p \in Pages, p = removing PROVE PageOK(p)'
        BY <2>2, <3>1, <3>2, <3>4, Zenon DEF PageOK
      <3> QED
        BY <3>3, <3>4, Zenon DEF PageInv
    <2> QED
      BY <2>4, <2>5, Zenon
  <1> QED
    BY <1>1, <1>2, <1>3, <1>4, <1>5, <1>6, UffdAlone, Zenon DEF HandlerStep, GuestStep

LEMMA UffdInvHolds == Spec => [](UffdTypes /\ PageInv)
  <1>1. Init => UffdTypes /\ PageInv
    BY UffdInitHolds, Zenon DEF Init
  <1>2. UffdTypes /\ PageInv /\ [Next]_services => UffdTypes' /\ PageInv'
    BY UffdStep, Zenon
  <1> QED
    BY <1>1, <1>2, PTL DEF Spec

(* A restored guest never sees a page that is not the part of the snapshot's*)
(* memory file its region maps there, nor one that reaches past the file's  *)
(* end; what the balloon gave back reads as zeroes unless its range could   *)
(* not be unregistered (handle_pagefault, Event::Remove).  For any regions, *)
(* page size and number of vCPUs.                                           *)
THEOREM PagesFaithfulHolds == Spec => []PagesFaithful
  <1>1. PageInv => PagesFaithful
    BY Zenon DEF PageInv, PageOK, PagesFaithful
  <1> QED
    BY <1>1, UffdInvHolds, PTL

-----------------------------------------------------------------------------
(* The metrics reader.                                                      *)
LEMMA MetricsAlone ==
    ASSUME [Next]_services
    PROVE  UNCHANGED metrics \/ ReadLine \/ ReaderEof \/ StopReader \/ \E line \in Lines : Emit(line)
  <1>1. UNCHANGED threads => UNCHANGED metrics
    BY Zenon DEF threads
  <1> QED
    BY <1>1, Zenon DEF Next, services, KillThread, DrainThread, HandlerThread, ReaderThread,
       HttpThread, Time, Begin, Exit, Writes, Guest, Emits, Api, Metadata, ReaderStep

(* saturating_mul: the product is cut off exactly when the factor exceeds   *)
(* the quotient.                                                            *)
LEMMA Saturates ==
    ASSUME NEW m \in Nat
    PROVE  Earlier(m * MiB, MaxU64) = IF m > MaxU64 \div MiB THEN MaxU64 ELSE m * MiB
  <1> DEFINE q == MaxU64 \div MiB
  <1>1. MiB \in Nat /\ MiB > 0 /\ MaxU64 \in Nat
    BY MetricsAssumption
  <1>2. q \in Nat /\ q * MiB <= MaxU64 /\ MaxU64 < q * MiB + MiB
    BY <1>1
  <1> HIDE DEF q
  <1>3. CASE m > q
    <2>1. PICK k \in Nat : m = q + 1 + k
      <3>1. m - q - 1 \in Nat /\ m = q + 1 + (m - q - 1)
        BY <1>2, <1>3
      <3> QED
        BY <3>1
    <2>2. m * MiB = q * MiB + MiB + k * MiB /\ k * MiB >= 0
      BY <1>1, <1>2, <2>1
    <2>3. MaxU64 < m * MiB
      BY <1>1, <1>2, <2>2
    <2>4. m * MiB \in Nat
      BY <1>1
    <2> QED
      BY <1>1, <1>3, <2>3, <2>4 DEF Earlier, q
  <1>4. CASE ~(m > q)
    <2>1. PICK k \in Nat : q = m + k
      <3>1. q - m \in Nat /\ q = m + (q - m)
        BY <1>2, <1>4
      <3> QED
        BY <3>1
    <2>2. q * MiB = m * MiB + k * MiB /\ k * MiB >= 0
      BY <1>1, <1>2, <2>1
    <2>3. m * MiB \in Nat /\ q * MiB \in Nat
      BY <1>1, <1>2
    <2>4. m * MiB <= MaxU64
      BY <1>1, <1>2, <2>2, <2>3
    <2> QED
      BY <1>1, <1>4, <2>3, <2>4 DEF Earlier, q
  <1> QED
    BY <1>3, <1>4, Zenon

LEMMA ValueIsGauge ==
    ASSUME NEW doc \in Documents
    PROVE  from_value(doc).raw = doc /\ from_value(doc).memory_used_bytes = Gauge(doc)
  <1>1. doc.vmm \in Nat /\ doc.bytes \in Nat /\ doc.mib \in Nat
    BY MetricsAssumption
  <1> DEFINE used == first_nonzero_u64(doc)
             fromMib == doc.mib # 0 /\ doc.vmm = 0 /\ doc.bytes = 0
  <1>2. /\ from_value(doc).raw = doc
        /\ from_value(doc).memory_used_bytes = IF fromMib THEN Earlier(used * MiB, MaxU64) ELSE used
    BY DEF from_value
  <1>3. CASE doc.vmm # 0
    BY <1>2, <1>3, Zenon DEF Gauge, first_nonzero_u64
  <1>4. CASE doc.vmm = 0 /\ doc.bytes # 0
    BY <1>2, <1>4, Zenon DEF Gauge, first_nonzero_u64
  <1>5. CASE doc.vmm = 0 /\ doc.bytes = 0 /\ doc.mib # 0
    <2>1. from_value(doc).memory_used_bytes = Earlier(doc.mib * MiB, MaxU64)
      BY <1>2, <1>5, Zenon DEF first_nonzero_u64
    <2>2. Gauge(doc) = IF doc.mib > MaxU64 \div MiB THEN MaxU64 ELSE doc.mib * MiB
      BY <1>5, Zenon DEF Gauge
    <2> QED
      BY <1>1, <1>2, <2>1, <2>2, Saturates, Zenon
  <1>6. CASE doc.vmm = 0 /\ doc.bytes = 0 /\ doc.mib = 0
    <2>1. from_value(doc).memory_used_bytes = 0
      BY <1>2, <1>6, Zenon DEF first_nonzero_u64
    <2>2. Gauge(doc) = IF 0 > MaxU64 \div MiB THEN MaxU64 ELSE 0 * MiB
      BY <1>6, Zenon DEF Gauge
    <2>3. ~(0 > MaxU64 \div MiB) /\ 0 * MiB = 0
      BY MetricsAssumption
    <2>4. Gauge(doc) = 0
      BY <2>2, <2>3, Zenon
    <2> QED
      BY <1>2, <2>1, <2>4, Zenon
  <1> QED
    BY <1>3, <1>4, <1>5, <1>6, Zenon

(* The snapshot comes from the last document among the lines looked at.     *)
LastDocument(i) ==
    /\ i \in 1..taken /\ Parsed(emitted[i])
    /\ \A j \in 1..taken : Parsed(emitted[j]) => j <= i

Published ==
    \/ snapshot = None /\ \A i \in 1..taken : ~Parsed(emitted[i])
    \/ \E i \in 1..taken : LastDocument(i) /\ snapshot = from_value(emitted[i].doc)

(* While the reader lives, the FIFO holds the lines not looked at.          *)
MetricsInv ==
    /\ emitted \in Seq(Lines) /\ fifo \in Seq(Lines) /\ Len(emitted) <= MaxDocs
    /\ taken \in 0..Len(emitted) /\ stopRead \in BOOLEAN
    /\ reader \in {"off", "open", "reading", "ended"}
    /\ reader # "ended" =>
          /\ Len(fifo) = Len(emitted) - taken
          /\ \A i \in 1..Len(fifo) : fifo[i] = emitted[taken + i]
    /\ Published

LEMMA MetricsStep == ASSUME MetricsInv, [Next]_services PROVE MetricsInv'
  <1>1. CASE UNCHANGED metrics
    BY <1>1, Zenon DEF metrics, MetricsInv, Published, LastDocument
  <1>2. CASE ReaderEof \/ StopReader
    <2>1. UNCHANGED <<emitted, fifo, taken, snapshot>>
      BY <1>2, Zenon DEF ReaderEof, StopReader
    <2>2. /\ reader' \in {"off", "open", "reading", "ended"} /\ stopRead' \in BOOLEAN
          /\ reader' # "ended" => reader # "ended"
      BY <1>2, Zenon DEF ReaderEof, StopReader, MetricsInv
    <2> QED
      BY <2>1, <2>2, Zenon DEF MetricsInv, Published, LastDocument
  <1>3. ASSUME NEW line \in Lines, Emit(line) PROVE MetricsInv'
    <2>1. /\ reader # "ended" /\ reader' = "reading" /\ UNCHANGED <<taken, snapshot, stopRead>>
          /\ emitted' = Append(emitted, line) /\ fifo' = Append(fifo, line) /\ Len(emitted) < MaxDocs
      BY <1>3, Zenon DEF Emit
    <2>2. /\ emitted' \in Seq(Lines) /\ fifo' \in Seq(Lines) /\ Len(emitted') <= MaxDocs
          /\ taken' \in 0..Len(emitted')
      BY <2>1, MetricsAssumption DEF MetricsInv
    <2>0. /\ Len(fifo') = Len(fifo) + 1 /\ Len(emitted') = Len(emitted) + 1
          /\ fifo'[Len(fifo) + 1] = line /\ emitted'[Len(emitted) + 1] = line
          /\ \A i \in 1..Len(fifo) : fifo'[i] = fifo[i]
          /\ \A i \in 1..Len(emitted) : emitted'[i] = emitted[i]
      BY <2>1 DEF MetricsInv
    <2>6. /\ Len(fifo) \in Nat /\ Len(emitted) \in Nat /\ taken \in Nat
          /\ Len(fifo) = Len(emitted) - taken
          /\ \A i \in 1..Len(fifo) : fifo[i] = emitted[taken + i]
      BY <2>1 DEF MetricsInv
    <2>3. /\ Len(fifo') = Len(emitted') - taken
          /\ \A i \in 1..Len(fifo') : fifo'[i] = emitted'[taken + i]
      <3>1. ASSUME NEW i \in 1..Len(fifo) PROVE fifo'[i] = emitted'[taken + i]
        <4>1. taken + i \in 1..Len(emitted)
          BY <2>6
        <4> QED
          BY <2>0, <2>6, <4>1, Zenon
      <3>2. /\ Len(fifo') = Len(emitted') - taken /\ taken + (Len(fifo) + 1) = Len(emitted) + 1
            /\ \A i \in 1..Len(fifo') : i \in 1..Len(fifo) \/ i = Len(fifo) + 1
        BY <2>0, <2>6
      <3>3. fifo'[Len(fifo) + 1] = emitted'[taken + (Len(fifo) + 1)]
        BY <2>0, <3>2, Zenon
      <3> QED
        BY <3>1, <3>2, <3>3, Zenon
    <2>4. \A i \in 1..taken : emitted'[i] = emitted[i]
      BY <2>0, <2>6
    <2>5. Published'
      BY <2>1, <2>4, Zenon DEF Published, LastDocument, MetricsInv
    <2> QED
      BY <2>1, <2>2, <2>3, <2>5, Zenon DEF MetricsInv
  <1>4. CASE ReadLine
    <2>1. /\ reader = "reading" /\ fifo # <<>> /\ UNCHANGED <<emitted, stopRead>> /\ fifo' = Tail(fifo)
      BY <1>4, Zenon DEF ReadLine
    <2>2. /\ Len(fifo) = Len(emitted) - taken /\ Len(fifo) > 0 /\ Head(fifo) = emitted[taken + 1]
          /\ fifo' \in Seq(Lines) /\ Len(fifo') = Len(fifo) - 1
          /\ \A i \in 1..Len(fifo') : fifo'[i] = emitted[taken + 1 + i]
      <3>1. /\ Len(fifo) \in Nat /\ Len(fifo) > 0 /\ Head(fifo) = fifo[1]
            /\ fifo' \in Seq(Lines) /\ Len(fifo') = Len(fifo) - 1
            /\ \A i \in 1..Len(fifo') : fifo'[i] = fifo[i + 1]
        BY <2>1 DEF MetricsInv
      <3>2. /\ Len(fifo) = Len(emitted) - taken /\ taken \in Nat
            /\ \A i \in 1..Len(fifo) : fifo[i] = emitted[taken + i]
        BY <2>1 DEF MetricsInv
      <3>3. ASSUME NEW i \in 1..Len(fifo') PROVE fifo'[i] = emitted[taken + 1 + i]
        <4>1. i + 1 \in 1..Len(fifo) /\ taken + (i + 1) = taken + 1 + i
          BY <3>1, <3>2
        <4> QED
          BY <3>1, <3>2, <4>1, Zenon
      <3>4. 1 \in 1..Len(fifo)
        BY <3>1
      <3> QED
        BY <3>1, <3>2, <3>3, <3>4, Zenon
    <2>3. CASE stopRead
      <3>1. taken' = taken /\ reader' = "ended" /\ UNCHANGED snapshot
        BY <1>4, <2>3, Zenon DEF ReadLine
      <3> QED
        BY <2>1, <2>2, <3>1, Zenon DEF MetricsInv, Published, LastDocument
    <2>4. CASE ~stopRead
      <3>1. taken' = taken + 1 /\ taken' \in 0..Len(emitted') /\ taken' \in 1..taken'
        BY <1>4, <2>1, <2>2, <2>4 DEF ReadLine, MetricsInv
      <3>2. /\ 1..taken' = (1..taken) \cup {taken'} /\ \A j \in 1..taken' : j <= taken'
        BY <3>1 DEF MetricsInv
      <3>3. reader' \in {"reading", "ended"}
        BY <1>4, <2>1, Zenon DEF ReadLine
      <3>4. CASE Parsed(Head(fifo))
        <4>1. "document" \notin {"blank", "not_json"} /\ "document" # "not_utf8"
          OBVIOUS
        <4>2. snapshot' = from_value(Head(fifo).doc)
          BY <1>4, <2>4, <3>4, <4>1, Zenon DEF ReadLine, Parsed
        <4>3. \A i \in 1..taken' :
                 i = taken' => LastDocument(i)' /\ snapshot' = from_value(emitted'[i].doc)
          BY <2>1, <2>2, <3>1, <3>2, <3>4, <4>2, Zenon DEF LastDocument
        <4>4. Published'
          BY <3>1, <4>3, Zenon DEF Published
        <4> QED
          BY <2>1, <2>2, <3>1, <3>3, <4>4 DEF MetricsInv
      <3>5. CASE ~Parsed(Head(fifo))
        <4>1. UNCHANGED snapshot
          BY <1>4, <2>4, <3>5, Zenon DEF ReadLine, Parsed
        <4>2. ~Parsed(emitted'[taken'])
          BY <2>1, <2>2, <3>1, <3>5, Zenon
        <4>3. Published'
          BY <2>1, <3>2, <4>1, <4>2, Zenon DEF Published, LastDocument, MetricsInv
        <4> QED
          BY <2>1, <2>2, <3>1, <3>3, <4>3 DEF MetricsInv
      <3> QED
        BY <3>4, <3>5, Zenon
    <2> QED
      BY <2>3, <2>4, Zenon
  <1> QED
    BY <1>1, <1>2, <1>3, <1>4, MetricsAlone, Zenon

LEMMA PublishedIsLast == ASSUME MetricsInv PROVE SnapshotIsLast
  <1> DEFINE docs == {i \in 1..taken : Parsed(emitted[i])}
  <1>1. CASE docs = {}
    <2>1. snapshot = None
      BY <1>1, Zenon DEF MetricsInv, Published, LastDocument
    <2> QED
      BY <1>1, <2>1, Zenon DEF SnapshotIsLast
  <1>2. CASE docs # {}
    <2>1. PICK i \in 1..taken : LastDocument(i) /\ snapshot = from_value(emitted[i].doc)
      BY <1>2, Zenon DEF MetricsInv, Published
    <2>2. i \in docs /\ \A j \in docs : i >= j /\ (j >= i => j = i)
      BY <2>1 DEF LastDocument, MetricsInv
    <2> HIDE DEF docs
    <2>3. Max(docs) = i
      BY <2>2, Zenon DEF Max
    <2>4. emitted[i] \in Lines
      BY <2>1 DEF MetricsInv
    <2>5. emitted[i].doc \in Documents
      BY <2>1, <2>4 DEF LastDocument, Lines, Parsed
    <2>6. snapshot.raw = emitted[i].doc /\ snapshot.memory_used_bytes = Gauge(emitted[i].doc)
      BY <2>1, <2>5, ValueIsGauge, Zenon
    <2>7. snapshot.raw = emitted[Max(docs)].doc
          /\ snapshot.memory_used_bytes = Gauge(emitted[Max(docs)].doc)
      BY <2>3, <2>6, Zenon
    <2> QED
      BY <1>2, <2>7, Zenon DEF SnapshotIsLast, docs
  <1> QED
    BY <1>1, <1>2, Zenon

LEMMA MetricsInvHolds == Spec => []MetricsInv
  <1>1. Init => MetricsInv
    <2> SUFFICES ASSUME MetricsInit PROVE MetricsInv
      BY Zenon DEF Init
    <2>1. emitted = <<>> /\ fifo = <<>> /\ taken = 0 /\ snapshot = None
      BY Zenon DEF MetricsInit
    <2>2. Published
      BY <2>1 DEF Published
    <2>3. reader \in {"off", "open", "reading", "ended"} /\ stopRead \in BOOLEAN
      BY Zenon DEF MetricsInit
    <2> QED
      BY <2>1, <2>2, <2>3, MetricsAssumption DEF MetricsInv
  <1>2. MetricsInv /\ [Next]_services => MetricsInv'
    BY MetricsStep, Zenon
  <1> QED
    BY <1>1, <1>2, PTL DEF Spec

(* What MetricsPoller publishes is at any time what the last document it    *)
(* looked at says, with the memory gauge in bytes whichever field it came   *)
(* from and cut off at u64::MAX: no late line, blank line or stop brings an *)
(* older document back.  For any documents and any u64::MAX.                *)
THEOREM SnapshotIsLastHolds == Spec => []SnapshotIsLast
  <1>1. MetricsInv => SnapshotIsLast
    BY PublishedIsLast, Zenon
  <1> QED
    BY <1>1, MetricsInvHolds, PTL

-----------------------------------------------------------------------------
(* The console.                                                             *)
LEMMA ConsoleAlone ==
    ASSUME [Next]_services
    PROVE  \/ UNCHANGED console \/ DropConsole \/ DrainLine \/ DrainEnds
           \/ \E kind \in Kinds : WriteLine(kind)
  <1>1. UNCHANGED threads => UNCHANGED console
    BY Zenon DEF threads
  <1> QED
    BY <1>1, Zenon DEF Next, services, KillThread, DrainThread, HandlerThread, ReaderThread,
       HttpThread, Time, Begin, Exit, Writes, Guest, Emits, Api, Metadata, DrainStep

ConsoleLine == [no : Nat, kind : Kinds]

TailLine == [no : Nat, cut : BOOLEAN]

(* How many lines have been kept: the line that ended the capture with an   *)
(* error was taken from the pipe and dropped.                               *)
KeptCount == IF drainer = "error" THEN Drained - 1 ELSE Drained

(* The pipe holds the last lines written, the buffer the last ones kept.    *)
ConsoleInv ==
    /\ written \in Seq(ConsoleLine) /\ pipe \in Seq(ConsoleLine) /\ buffer \in Seq(TailLine)
    /\ drainer \in {"off", "reading", "eof", "error", "asked"} /\ stopDrain \in BOOLEAN
    /\ Len(written) <= MaxWrites /\ Len(pipe) <= PipeSize
    /\ Drained \in Nat /\ KeptCount \in Nat
    /\ \A i \in 1..Len(pipe) : pipe[i] = written[Drained + i]
    /\ \A i \in 1..Drained : Readable(written[i]) <=> i <= KeptCount
    /\ drainer = "eof" => Len(pipe) = 0
    /\ Len(buffer) = Earlier(KeptCount, MaxLines)
    /\ \A i \in 1..Len(buffer) :
          buffer[i] = enforce_line_limit(written[KeptCount - Len(buffer) + i])

(* b is the buffer after line was pushed as the (n + 1)-th.                 *)
Pushed(n, line, b) ==
    /\ b \in Seq(TailLine) /\ Len(b) = Earlier(n + 1, MaxLines)
    /\ Len(b) \in {Len(buffer), Len(buffer) + 1}
    /\ \A i \in 1..Len(b) : i = Len(b) => b[i] = line
    /\ \A i \in 1..Len(b) :
          i < Len(b) => /\ Len(buffer) + 1 - Len(b) + i \in 1..Len(buffer)
                        /\ b[i] = buffer[Len(buffer) + 1 - Len(b) + i]

(* push_with_eviction shifts the buffer by one once it is full.             *)
LEMMA PushKeepsLatest ==
    ASSUME NEW n \in Nat, NEW line \in TailLine, buffer \in Seq(TailLine),
           Len(buffer) = Earlier(n, MaxLines)
    PROVE  Pushed(n, line, push_with_eviction(line))
  <1> USE DEF Pushed
  <1> DEFINE b == push_with_eviction(line)
  <1> HIDE DEF b
  <1> SUFFICES Pushed(n, line, b)
    BY SMTT(20) DEF b
  <1> DEFINE longer == Append(buffer, line)
  <1>1. MaxLines \in Nat /\ Len(buffer) \in Nat
    BY ConsoleAssumption
  <1>2. /\ longer \in Seq(TailLine) /\ Len(longer) = Len(buffer) + 1
        /\ longer[Len(buffer) + 1] = line /\ \A i \in 1..Len(buffer) : longer[i] = buffer[i]
    OBVIOUS
  <1>3. CASE MaxLines = 0
    <2>1. b = buffer /\ Len(buffer) = 0 /\ Earlier(n + 1, MaxLines) = 0
      BY <1>1, <1>3 DEF push_with_eviction, Earlier, b
    <2>2. ~\E i \in 1..Len(b) : TRUE
      BY <2>1
    <2> QED
      BY <2>1, <2>2, Zenon
  <1>4. CASE MaxLines # 0 /\ Len(longer) > MaxLines
    <2>1. b = Tail(longer)
      BY <1>4, Zenon DEF push_with_eviction, b
    <2> HIDE DEF longer
    <2>2. /\ b \in Seq(TailLine) /\ Len(b) = Len(buffer)
          /\ \A i \in 1..Len(b) : b[i] = longer[i + 1]
      BY <1>1, <1>2, <2>1
    <2>3. Len(buffer) = MaxLines /\ Earlier(n + 1, MaxLines) = MaxLines
      BY <1>1, <1>2, <1>4 DEF Earlier
    <2>4. \A i \in 1..Len(b) : i = Len(b) => b[i] = line
      BY <1>1, <1>2, <2>2, Zenon
    <2>5. ASSUME NEW i \in 1..Len(b), i < Len(b)
          PROVE  /\ Len(buffer) + 1 - Len(b) + i \in 1..Len(buffer)
                 /\ b[i] = buffer[Len(buffer) + 1 - Len(b) + i]
      <3>1. i + 1 \in 1..Len(buffer) /\ Len(buffer) + 1 - Len(b) + i = i + 1
        BY <1>1, <2>2, <2>5
      <3> QED
        BY <1>2, <2>2, <3>1, Zenon
    <2> QED
      BY <2>2, <2>3, <2>4, <2>5, Zenon
  <1>5. CASE MaxLines # 0 /\ ~(Len(longer) > MaxLines)
    <2>1. b = longer
      BY <1>5, Zenon DEF push_with_eviction, b
    <2> HIDE DEF longer
    <2>2. b \in Seq(TailLine) /\ Len(b) = Len(buffer) + 1
      BY <1>2, <2>1, Zenon
    <2>3. Earlier(n + 1, MaxLines) = Len(buffer) + 1
      BY <1>1, <1>2, <1>5 DEF Earlier
    <2>4. \A i \in 1..Len(b) : i = Len(b) => b[i] = line
      BY <1>2, <2>1, Zenon
    <2>5. ASSUME NEW i \in 1..Len(b), i < Len(b)
          PROVE  /\ Len(buffer) + 1 - Len(b) + i \in 1..Len(buffer)
                 /\ b[i] = buffer[Len(buffer) + 1 - Len(b) + i]
      <3>1. i \in 1..Len(buffer) /\ Len(buffer) + 1 - Len(b) + i = i
        BY <1>1, <2>2, <2>5
      <3> QED
        BY <1>2, <2>1, <3>1, Zenon
    <2> QED
      BY <2>2, <2>3, <2>4, <2>5, Zenon
  <1> QED
    BY <1>3, <1>4, <1>5, ZenonT(30)

LEMMA ConsoleStep == ASSUME ConsoleInv, [Next]_services PROVE ConsoleInv'
  <1>0. /\ MaxLines \in Nat /\ PipeSize \in Nat /\ MaxWrites \in Nat /\ Len(written) \in Nat
        /\ Len(pipe) \in Nat /\ Len(buffer) \in Nat
    BY ConsoleAssumption DEF ConsoleInv
  <1>1. CASE UNCHANGED console
    BY <1>1, Zenon DEF console, ConsoleInv, Drained, KeptCount
  <1>2. CASE DropConsole \/ DrainEnds
    <2>1. UNCHANGED <<written, pipe, buffer>> /\ stopDrain' \in BOOLEAN
      BY <1>2, Zenon DEF DropConsole, DrainEnds, ConsoleInv
    <2>2. /\ drainer' \in {"off", "reading", "eof", "error", "asked"}
          /\ drainer' = "error" <=> drainer = "error"
          /\ drainer' = "eof" => drainer = "eof" \/ pipe = <<>>
      BY <1>2 DEF DropConsole, DrainEnds, ConsoleInv
    <2>3. UNCHANGED <<Drained, KeptCount>>
      BY <2>1, <2>2, Zenon DEF Drained, KeptCount
    <2>4. drainer' = "eof" => Len(pipe') = 0
      BY <2>1, <2>2 DEF ConsoleInv
    <2> QED
      BY <2>1, <2>2, <2>3, <2>4, Zenon DEF ConsoleInv
  <1>3. ASSUME NEW kind \in Kinds, WriteLine(kind) PROVE ConsoleInv'
    <2> DEFINE line == [no |-> Len(written) + 1, kind |-> kind]
    <2>1. /\ written' = Append(written, line) /\ pipe' = Append(pipe, line) /\ drainer = "reading"
          /\ Len(written) < MaxWrites /\ Len(pipe) < PipeSize
          /\ UNCHANGED <<drainer, buffer, stopDrain>>
      BY <1>3, Zenon DEF WriteLine
    <2>2. line \in ConsoleLine
      BY <1>0 DEF ConsoleLine
    <2> HIDE DEF line
    <2>3. /\ written' \in Seq(ConsoleLine) /\ Len(written') = Len(written) + 1
          /\ written'[Len(written) + 1] = line
          /\ \A i \in 1..Len(written) : written'[i] = written[i]
      BY <2>1, <2>2, SMTT(20) DEF ConsoleInv
    <2>4. /\ pipe' \in Seq(ConsoleLine) /\ Len(pipe') = Len(pipe) + 1
          /\ pipe'[Len(pipe) + 1] = line
          /\ \A i \in 1..Len(pipe) : pipe'[i] = pipe[i]
      BY <2>1, <2>2, SMTT(20) DEF ConsoleInv
    <2>5. UNCHANGED <<Drained, KeptCount>>
      BY <1>0, <2>1, <2>3, <2>4, SMTT(20) DEF Drained, KeptCount
    <2>6. /\ Drained \in Nat /\ Drained = Len(written) - Len(pipe)
          /\ KeptCount = Drained /\ Len(buffer) <= KeptCount
      BY <1>0, <2>1, SMTT(20) DEF ConsoleInv, Drained, KeptCount, Earlier
    <2>7. Len(written') <= MaxWrites /\ Len(pipe') <= PipeSize
      BY <1>0, <2>1, <2>3, <2>4, SMTT(20)
    <2>8. ASSUME NEW i \in 1..Len(pipe') PROVE pipe'[i] = written'[Drained + i]
      <3>1. CASE i \in 1..Len(pipe)
        <4>1. Drained + i \in 1..Len(written)
          BY <1>0, <2>6, <3>1
        <4> QED
          BY <2>3, <2>4, <3>1, <4>1, Zenon DEF ConsoleInv
      <3>2. CASE i = Len(pipe) + 1
        <4>1. Drained + i = Len(written) + 1
          BY <1>0, <2>6, <3>2, SMTT(20)
        <4> QED
          BY <2>3, <2>4, <3>2, <4>1, Zenon
      <3> QED
        BY <1>0, <2>4, <3>1, <3>2
    <2>9. \A i \in 1..Drained : written'[i] = written[i]
      BY <1>0, <2>3, <2>6
    <2>10. ASSUME NEW i \in 1..Len(buffer)
           PROVE  buffer[i] = enforce_line_limit(written'[KeptCount - Len(buffer) + i])
      <3>1. KeptCount - Len(buffer) + i \in 1..Drained
        BY <1>0, <2>6
      <3>2. buffer[i] = enforce_line_limit(written[KeptCount - Len(buffer) + i])
        BY Zenon DEF ConsoleInv
      <3>3. written'[KeptCount - Len(buffer) + i] = written[KeptCount - Len(buffer) + i]
        BY <2>9, <3>1, Zenon
      <3> QED
        BY <3>2, <3>3, Zenon
    <2>11. \A i \in 1..Drained : Readable(written'[i]) <=> i <= KeptCount
      BY <2>9, Zenon DEF ConsoleInv, Readable
    <2>12. drainer' # "eof"
      BY <2>1
    <2> QED
      BY <2>1, <2>3, <2>4, <2>5, <2>7, <2>8, <2>10, <2>11, <2>12, Zenon DEF ConsoleInv
  <1>4. CASE DrainLine
    <2>1. drainer = "reading" /\ pipe # <<>> /\ pipe' = Tail(pipe) /\ UNCHANGED <<written, stopDrain>>
      BY <1>4, Zenon DEF DrainLine
    <2>2. /\ KeptCount = Drained /\ Drained \in Nat /\ Drained = Len(written) - Len(pipe)
      BY <2>1 DEF ConsoleInv, Drained, KeptCount
    <2>3. /\ Len(pipe) > 0 /\ pipe' \in Seq(ConsoleLine) /\ Len(pipe') = Len(pipe) - 1
          /\ Head(pipe) = pipe[1] /\ \A i \in 1..Len(pipe') : pipe'[i] = pipe[i + 1]
      BY <1>0, <2>1 DEF ConsoleInv
    <2>4. Drained' = Drained + 1 /\ Drained' \in 1..Len(written) /\ Drained' \in Nat
      BY <1>0, <2>1, <2>2, <2>3, SMTT(20) DEF Drained
    <2>5. Head(pipe) = written[Drained'] /\ Head(pipe) \in ConsoleLine
      BY <1>0, <2>2, <2>3, <2>4 DEF ConsoleInv
    <2>6. ASSUME NEW i \in 1..Len(pipe') PROVE pipe'[i] = written'[Drained' + i]
      <3>1. i + 1 \in 1..Len(pipe) /\ Drained + (i + 1) = Drained' + i
        BY <1>0, <2>2, <2>3, <2>4, SMTT(20)
      <3> QED
        BY <2>1, <2>3, <3>1, Zenon DEF ConsoleInv
    <2>7. Len(written') <= MaxWrites /\ Len(pipe') <= PipeSize
      BY <1>0, <2>1, <2>3 DEF ConsoleInv
    <2>8. /\ 1..Drained' = 1..Drained \cup {Drained'} /\ ~(Drained' <= Drained)
          /\ Drained' <= Drained' /\ \A i \in 1..Drained : i <= Drained /\ i <= Drained'
      BY <2>2, <2>4
    <2>9. CASE Head(pipe).kind = "not_utf8"
      <3>1. drainer' = "error" /\ UNCHANGED buffer
        BY <1>4, <2>9, Zenon DEF DrainLine
      <3>2. KeptCount' = Drained
        BY <2>2, <2>4, <3>1 DEF KeptCount
      <3>3. \A i \in 1..Drained' : Readable(written'[i]) <=> i <= KeptCount'
        BY <2>1, <2>2, <2>5, <2>8, <2>9, <3>2, Zenon DEF ConsoleInv, Readable
      <3>4. UNCHANGED KeptCount
        BY <2>2, <3>2, Zenon
      <3>5. drainer' # "eof"
        BY <3>1
      <3> QED
        BY <2>1, <2>3, <2>4, <2>6, <2>7, <3>1, <3>3, <3>4, <3>5, Zenon DEF ConsoleInv
    <2>10. CASE Head(pipe).kind # "not_utf8"
      <3> DEFINE line == enforce_line_limit(Head(pipe))
      <3>1. buffer' = push_with_eviction(line) /\ drainer' \in {"reading", "asked"}
        BY <1>4, <2>10, Zenon DEF DrainLine
      <3>2. line \in TailLine
        BY <2>5 DEF enforce_line_limit, ConsoleLine, TailLine
      <3> HIDE DEF line
      <3>3. KeptCount' = Drained' /\ drainer' # "eof"
        BY <3>1 DEF KeptCount
      <3>4. \A i \in 1..Drained' : Readable(written'[i]) <=> i <= KeptCount'
        BY <2>1, <2>2, <2>5, <2>8, <2>10, <3>3, Zenon DEF ConsoleInv, Readable
      <3>5. buffer \in Seq(TailLine) /\ Len(buffer) = Earlier(Drained, MaxLines)
        BY <2>2, Zenon DEF ConsoleInv
      <3>6. /\ buffer' \in Seq(TailLine) /\ Len(buffer') = Earlier(Drained + 1, MaxLines)
            /\ Len(buffer') \in {Len(buffer), Len(buffer) + 1}
            /\ \A i \in 1..Len(buffer') : i = Len(buffer') => buffer'[i] = line
            /\ \A i \in 1..Len(buffer') :
                  i < Len(buffer') =>
                     /\ Len(buffer) + 1 - Len(buffer') + i \in 1..Len(buffer)
                     /\ buffer'[i] = buffer[Len(buffer) + 1 - Len(buffer') + i]
        <4>1. Pushed(Drained, line, push_with_eviction(line))
          BY <2>2, <3>2, <3>5, PushKeepsLatest, Zenon
        <4> QED
          BY <3>1, <4>1, Zenon DEF Pushed
      <3>7. ASSUME NEW i \in 1..Len(buffer')
            PROVE  buffer'[i] = enforce_line_limit(written[KeptCount' - Len(buffer') + i])
        <4>0. Len(buffer') \in Nat
          BY <1>0, <3>6
        <4>1. CASE i = Len(buffer')
          <5>1. KeptCount' - Len(buffer') + i = Drained'
            BY <2>4, <3>3, <4>0, <4>1
          <5> QED
            BY <2>5, <3>6, <4>1, <5>1, Zenon DEF line
        <4>2. CASE i < Len(buffer')
          <5> DEFINE j == Len(buffer) + 1 - Len(buffer') + i
          <5>1. j \in 1..Len(buffer) /\ buffer'[i] = buffer[j]
            BY <3>6, <4>2, Zenon
          <5>2. buffer[j] = enforce_line_limit(written[KeptCount - Len(buffer) + j])
            BY <5>1, Zenon DEF ConsoleInv
          <5>3. KeptCount - Len(buffer) + j = KeptCount' - Len(buffer') + i
            BY <1>0, <2>2, <2>4, <3>3, <4>0
          <5> QED
            BY <5>1, <5>2, <5>3, Zenon
        <4> QED
          BY <4>0, <4>1, <4>2, SMTT(20)
      <3>8. Len(buffer') = Earlier(KeptCount', MaxLines) /\ KeptCount' \in Nat
        BY <2>4, <3>3, <3>6, Zenon
      <3>9. drainer' \in {"off", "reading", "eof", "error", "asked"} /\ stopDrain' \in BOOLEAN
        BY <2>1, <3>1, Zenon DEF ConsoleInv
      <3> QED
        BY <2>1, <2>3, <2>4, <2>6, <2>7, <3>3, <3>4, <3>6, <3>7, <3>8, <3>9, Zenon DEF ConsoleInv
    <2> QED
      BY <2>9, <2>10, Zenon
  <1> QED
    BY <1>1, <1>2, <1>3, <1>4, ConsoleAlone, Zenon

(* The last MaxLines lines of a sequence, by position.                      *)
LEMMA LatestIs ==
    ASSUME NEW lines \in Seq(ConsoleLine), NEW b \in Seq(TailLine),
           Len(b) = Earlier(Len(lines), MaxLines),
           \A i \in 1..Len(b) : b[i] = enforce_line_limit(lines[Len(lines) - Len(b) + i])
    PROVE  b = Latest(lines)
  <1> DEFINE n == Len(lines)
             kept == [i \in 1..n |-> [no |-> lines[i].no, cut |-> lines[i].kind = "long"]]
             low == IF Len(kept) > MaxLines THEN Len(kept) - MaxLines + 1 ELSE 1
  <1>1. n \in Nat /\ Len(b) \in Nat /\ MaxLines \in Nat
    BY ConsoleAssumption
  <1>2. \A i \in 1..n : lines[i] \in ConsoleLine
    BY SMTT(20)
  <1>3. \A i \in 1..n : kept[i] = enforce_line_limit(lines[i]) /\ kept[i] \in TailLine
    BY <1>2 DEF enforce_line_limit, ConsoleLine, TailLine
  <1>4. Len(kept) = n
    BY <1>1
  <1>5. Latest(lines) = SubSeq(kept, low, Len(kept))
    BY Zenon DEF Latest
  <1> HIDE DEF kept
  <1>6. low = n - Len(b) + 1 /\ low \in 1..n + 1
    <2>1. low = IF n > MaxLines THEN n - MaxLines + 1 ELSE 1
      BY <1>4, Zenon
    <2>2. Len(b) = IF n < MaxLines THEN n ELSE MaxLines
      BY Zenon DEF Earlier
    <2> HIDE DEF low, n
    <2> QED
      BY <1>1, <2>1, <2>2
  <1>7. Latest(lines) = SubSeq(kept, low, n)
    BY <1>4, <1>5, Zenon
  <1> HIDE DEF low, n
  <1>8. \A i \in low..n : kept[i] \in TailLine
    BY <1>1, <1>3, <1>6
  <1>9. low \in Int /\ n \in Int
    BY <1>1, <1>6
  <1>10. /\ Latest(lines) \in Seq(TailLine)
         /\ Len(Latest(lines)) = IF low <= n THEN n - low + 1 ELSE 0
         /\ \A i \in 1..n - low + 1 : Latest(lines)[i] = kept[low + i - 1]
    <2>1. /\ SubSeq(kept, low, n) \in Seq(TailLine)
          /\ Len(SubSeq(kept, low, n)) = IF low <= n THEN n - low + 1 ELSE 0
          /\ \A i \in 1..n - low + 1 : SubSeq(kept, low, n)[i] = kept[low + i - 1]
      BY <1>8, <1>9, SubSeqProperties, SMTT(20)
    <2> QED
      BY <1>7, <2>1, Zenon
  <1>11. Len(Latest(lines)) = Len(b) /\ n - low + 1 = Len(b)
    BY <1>1, <1>6, <1>10
  <1>12. ASSUME NEW i \in 1..Len(b) PROVE b[i] = Latest(lines)[i]
    <2>1. low + i - 1 \in 1..n /\ low + i - 1 = n - Len(b) + i
      BY <1>1, <1>6, SMTT(20)
    <2>2. Latest(lines)[i] = enforce_line_limit(lines[n - Len(b) + i])
      BY <1>3, <1>10, <1>11, <2>1, Zenon
    <2> QED
      BY <2>2, Zenon DEF n
  <1> QED
    BY <1>10, <1>11, <1>12, SeqEqual, Zenon

LEMMA BufferIsTail == ASSUME ConsoleInv PROVE TailIsLatest
  <1>1. /\ Len(written) \in Nat /\ Len(pipe) \in Nat /\ Drained = Len(written) - Len(pipe)
        /\ Drained \in Nat /\ KeptCount \in Nat /\ KeptCount <= Drained
    BY DEF ConsoleInv, Drained, KeptCount
  <1>2. Kept = SubSeq(written, 1, KeptCount)
    BY Zenon DEF Kept, KeptCount
  <1>3. \A i \in 1..KeptCount : written[i] \in ConsoleLine
    BY <1>1 DEF ConsoleInv
  <1>4. /\ Kept \in Seq(ConsoleLine) /\ Len(Kept) = KeptCount
        /\ \A i \in 1..KeptCount : Kept[i] = written[i]
    BY <1>1, <1>2, <1>3, SubSeqProperties
  <1>5. ASSUME NEW i \in 1..Len(buffer)
        PROVE  buffer[i] = enforce_line_limit(Kept[Len(Kept) - Len(buffer) + i])
    <2>1. KeptCount - Len(buffer) + i \in 1..KeptCount
      <3>1. Len(buffer) \in Nat /\ Len(buffer) <= KeptCount
        BY <1>1, ConsoleAssumption DEF ConsoleInv, Earlier
      <3> QED
        BY <1>1, <3>1, SMTT(20)
    <2>2. buffer[i] = enforce_line_limit(written[KeptCount - Len(buffer) + i])
      BY Zenon DEF ConsoleInv
    <2> QED
      BY <1>4, <2>1, <2>2, Zenon
  <1>6. buffer = Latest(Kept)
    <2>1. Len(buffer) = Earlier(Len(Kept), MaxLines) /\ buffer \in Seq(TailLine)
      BY <1>4, Zenon DEF ConsoleInv
    <2> QED
      BY <1>4, <1>5, <2>1, LatestIs, Zenon
  <1>7. ASSUME drainer = "eof" PROVE buffer = Latest(written)
    <2>1. KeptCount = Len(written)
      BY <1>1, <1>7 DEF ConsoleInv, KeptCount
    <2>2. Kept = written
      BY <1>2, <2>1, SubSeqFull, Zenon DEF ConsoleInv
    <2> QED
      BY <1>6, <2>2, Zenon
  <1> QED
    BY <1>4, <1>6, <1>7, Zenon DEF TailIsLatest, ConsoleInv

LEMMA ConsoleInvHolds == Spec => []ConsoleInv
  <1>1. Init => ConsoleInv
    <2> SUFFICES ASSUME ConsoleInit PROVE ConsoleInv
      BY Zenon DEF Init
    <2>1. /\ written = <<>> /\ pipe = <<>> /\ buffer = <<>> /\ drainer \in {"off", "reading"}
          /\ stopDrain \in BOOLEAN
      BY Zenon DEF ConsoleInit
    <2>2. Drained = 0 /\ KeptCount = 0 /\ Earlier(0, MaxLines) = 0
      BY <2>1, ConsoleAssumption, SMTT(20) DEF Drained, KeptCount, Earlier
    <2> QED
      BY <2>1, <2>2, ConsoleAssumption DEF ConsoleInv
  <1>2. ConsoleInv /\ [Next]_services => ConsoleInv'
    BY ConsoleStep, Zenon
  <1> QED
    BY <1>1, <1>2, PTL DEF Spec

(* tail() never shows a line out of order, twice or not at all: it is the   *)
(* last max_lines of the lines read, whether the drainer still reads, was   *)
(* asked to stop, met the end of the file or a line that is not UTF-8, and  *)
(* of all lines written once it saw the end.  For any max_lines, 0 among    *)
(* them, and any size of the pipe.                                          *)
THEOREM TailIsLatestHolds == Spec => []TailIsLatest
  <1>1. ConsoleInv => TailIsLatest
    BY BufferIsTail, Zenon
  <1> QED
    BY <1>1, ConsoleInvHolds, PTL

-----------------------------------------------------------------------------
(* The response read off the API socket.                                    *)
LEMMA HttpAlone ==
    ASSUME [Next]_services
    PROVE  UNCHANGED http \/ Decide \/ ReadChunk \/ ReadEof \/ ServerSends \/ ReadTimeout
  <1>1. UNCHANGED talks => UNCHANGED http
    BY Zenon DEF talks
  <1> QED
    BY <1>1, Zenon DEF Next, services, KillThread, DrainThread, HandlerThread, ReaderThread,
       HttpThread, Time, Begin, Exit, Writes, Guest, Emits, Api, Metadata, HttpStep

LEMMA LeastPosition ==
    ASSUME NEW T \in SUBSET Nat, T # {}
    PROVE  Min(T) \in T /\ \A y \in T : Min(T) <= y
  <1> DEFINE R == OpToRel(<, Nat)
  <1>1. IsWellFoundedOn(R, Nat)
    BY NatLessThanWellFounded, Zenon
  <1>2. \A x, y \in Nat : y < x => <<y, x>> \in R
    BY Zenon DEF OpToRel
  <1> HIDE DEF R
  <1>3. \E x \in T : \A y \in T : ~(<<y, x>> \in R)
    BY <1>1, WFMin, Zenon
  <1>4. \E x \in T : \A y \in T : x <= y
    <2>1. PICK x \in T : \A y \in T : ~(<<y, x>> \in R)
      BY <1>3, Zenon
    <2>2. x \in Nat /\ \A y \in T : y \in Nat /\ ~(y < x)
      BY <1>2, <2>1, Zenon
    <2>3. \A y \in T : x <= y
      BY <2>2
    <2> QED
      BY <2>3, Zenon
  <1> QED
    BY <1>4, Zenon DEF Min

LEMMA PartOfPrefix ==
    ASSUME NEW s \in Seq(STRING), NEW g \in 0..Len(s), NEW m \in 1..g, NEW n \in 1..g
    PROVE  SubSeq(SubSeq(s, 1, g), m, n) = SubSeq(s, m, n)
  <1>1. Len(s) \in Nat /\ g \in Nat /\ \A i \in 1..g : s[i] \in STRING
    BY SMTT(20)
  <1> DEFINE part == SubSeq(s, 1, g)
  <1>2. \A i \in 1..g : part[i] = s[i] /\ part[i] \in STRING
    BY <1>1, SubSeqProperties
  <1> HIDE DEF part
  <1>3. \A i \in m..n : part[i] = s[i] /\ part[i] \in STRING /\ s[i] \in STRING
    BY <1>1, <1>2
  <1>4. /\ SubSeq(part, m, n) \in Seq(STRING)
        /\ Len(SubSeq(part, m, n)) = IF m <= n THEN n - m + 1 ELSE 0
        /\ \A i \in 1..n - m + 1 : SubSeq(part, m, n)[i] = part[m + i - 1]
    BY <1>1, <1>3, SubSeqProperties, SMTT(20)
  <1>5. /\ SubSeq(s, m, n) \in Seq(STRING)
        /\ Len(SubSeq(s, m, n)) = IF m <= n THEN n - m + 1 ELSE 0
        /\ \A i \in 1..n - m + 1 : SubSeq(s, m, n)[i] = s[m + i - 1]
    BY <1>1, <1>3, SubSeqProperties
  <1>6. ASSUME NEW i \in 1..Len(SubSeq(part, m, n)) PROVE SubSeq(part, m, n)[i] = SubSeq(s, m, n)[i]
    <2>1. i \in 1..n - m + 1 /\ m + i - 1 \in m..n
      BY <1>1, <1>4, SMTT(20)
    <2> QED
      BY <1>3, <1>4, <1>5, <2>1, Zenon
  <1>7. Len(SubSeq(part, m, n)) = Len(SubSeq(s, m, n))
    BY <1>1, <1>4, <1>5, SMTT(20)
  <1>8. SubSeq(part, m, n) = SubSeq(s, m, n)
    BY <1>4, <1>5, <1>6, <1>7, SeqEqual, Zenon
  <1> QED
    BY <1>8, Zenon DEF part

(* find_subslice on a part of the stream finds what it would find on the    *)
(* whole of it: where the first terminator begins.                          *)
LEMMA FirstTerminator ==
    ASSUME NEW bytes \in Seq(STRING), NEW g \in 0..Len(bytes),
           NEW pos, pos = find_subslice(SubSeq(bytes, 1, g), Terminator), pos # 0
    PROVE  /\ pos \in 1..g - 3 /\ SubSeq(bytes, pos, pos + 3) = Terminator
           /\ \A i \in 1..pos - 1 : SubSeq(bytes, i, i + 3) # Terminator
  <1> DEFINE part == SubSeq(bytes, 1, g)
             found == {i \in 1..Len(part) - Len(Terminator) + 1 :
                         SubSeq(part, i, i + Len(Terminator) - 1) = Terminator}
             first == {i \in 1..g - 3 : SubSeq(bytes, i, i + 3) = Terminator}
  <1>1. Len(bytes) \in Nat /\ g \in Nat /\ g <= Len(bytes) /\ Len(Terminator) = 4
    BY DEF Terminator
  <1>2. Len(part) = g
    <2>1. \A i \in 1..g : bytes[i] \in STRING
      BY <1>1
    <2> QED
      BY <1>1, <2>1, SubSeqProperties
  <1>3. pos = IF found = {} THEN 0 ELSE Min(found)
    BY Zenon DEF find_subslice
  <1>4. ASSUME NEW i \in 1..g - 3 PROVE SubSeq(part, i, i + 3) = SubSeq(bytes, i, i + 3)
    <2>1. i \in 1..g /\ i + 3 \in 1..g
      BY <1>1
    <2> QED
      BY <2>1, PartOfPrefix, Zenon
  <1> HIDE DEF part
  <1>5. Len(part) - Len(Terminator) + 1 = g - 3 /\ \A i \in 1..g - 3 : i + Len(Terminator) - 1 = i + 3
    BY <1>1, <1>2
  <1>6. found = first
    BY <1>4, <1>5, Zenon
  <1> HIDE DEF found
  <1>7. first # {} /\ pos = Min(first)
    BY <1>3, <1>6, Zenon
  <1>8. first \in SUBSET Nat
    BY <1>1
  <1> HIDE DEF first
  <1>9. pos \in first /\ \A i \in first : pos <= i
    <2>1. Min(first) \in first /\ \A i \in first : Min(first) <= i
      BY <1>7, <1>8, LeastPosition, Zenon
    <2> QED
      BY <1>7, <2>1, Zenon
  <1>10. \A i \in 1..pos - 1 : i \in 1..g - 3 /\ ~(pos <= i)
    BY <1>1, <1>9 DEF first
  <1> QED
    BY <1>9, <1>10, Zenon DEF first

(* The stream is read in order and no further than it was sent.             *)
HttpInv ==
    /\ response \in Responses /\ sent \in 0..Len(response.bytes) /\ got \in 0..sent
    /\ phase \in {"off", "reading", "ok", "err"}
    /\ FrameIsExact

LEMMA HttpStepHolds == ASSUME HttpInv, [Next]_services PROVE HttpInv'
  <1>1. /\ response.bytes \in Seq(STRING) /\ Len(response.bytes) \in Nat
        /\ response.length \in Lengths
    BY HttpAssumption DEF HttpInv
  <1>2. CASE UNCHANGED http
    BY <1>2, Zenon DEF http, HttpInv, FrameIsExact
  <1>3. CASE ReadChunk \/ ServerSends
    <2>1. phase = "reading" /\ UNCHANGED <<response, phase>>
      BY <1>3, Zenon DEF ReadChunk, ServerSends, Blocks
    <2>2. sent' \in 0..Len(response.bytes) /\ got' \in 0..sent'
      <3>1. CASE ReadChunk
        BY <1>1, <3>1, HttpAssumption, SMTT(20) DEF ReadChunk, HttpInv, Earlier
      <3>2. CASE ServerSends
        BY <1>1, <3>2 DEF ServerSends, HttpInv
      <3> QED
        BY <1>3, <3>1, <3>2, Zenon
    <2>3. phase' # "ok"
      BY <2>1
    <2> QED
      BY <2>1, <2>2, <2>3, Zenon DEF HttpInv, FrameIsExact
  <1>4. CASE UNCHANGED <<response, sent, got>> /\ phase' = "err"
    <2>1. phase' # "ok" /\ phase' \in {"off", "reading", "ok", "err"}
      BY <1>4
    <2> QED
      BY <1>4, <2>1, Zenon DEF HttpInv, FrameIsExact
  <1>5. CASE Whole /\ Ends("ok", SubSeq(Buffered, 1, Total))
    <2> DEFINE pos == find_subslice(Buffered, Terminator)
               h == HeaderEnd
    <2>1. UNCHANGED <<response, sent, got>> /\ phase' = "ok" /\ returned' = SubSeq(Buffered, 1, Total)
      BY <1>5, Zenon DEF Ends
    <2>2. h # 0 /\ ~RefusedLength /\ got >= Total
      BY <1>5, Zenon DEF Whole
    <2>3. pos # 0 /\ h = pos + 3
      BY <2>2, Zenon DEF HeaderEnd
    <2>4. got \in 0..Len(response.bytes)
      BY <1>1 DEF HttpInv
    <2>5. /\ pos \in 1..got - 3 /\ SubSeq(response.bytes, pos, pos + 3) = Terminator
          /\ \A i \in 1..pos - 1 : SubSeq(response.bytes, i, i + 3) # Terminator
      BY <1>1, <2>3, <2>4, FirstTerminator, Zenon DEF Buffered
    <2> HIDE DEF pos, h
    <2>6. h \in 4..Len(response.bytes) /\ h - 3 = pos
      BY <1>1, <2>3, <2>4, <2>5
    <2>7. SubSeq(response.bytes, h - 3, h) = Terminator
      BY <2>3, <2>5, <2>6, Zenon
    <2>8. ASSUME NEW i \in 4..h - 1 PROVE SubSeq(response.bytes, i - 3, i) # Terminator
      <3>1. i - 3 \in 1..pos - 1 /\ (i - 3) + 3 = i
        BY <2>3, <2>4, <2>5, SMTT(20)
      <3> QED
        BY <2>5, <3>1, Zenon
    <2>9. /\ \/ response.length.kind = "given" /\ BodyLength = response.length.n
             \/ response.length.kind = "absent" /\ BodyLength = 0
          /\ BodyLength \in Nat
      <3>1. response.length.kind \notin {"chunked", "invalid", "overflow"}
        BY <2>2, Zenon DEF RefusedLength, h
      <3> QED
        BY <1>1, <3>1 DEF Lengths, BodyLength
    <2>10. Total = h + BodyLength
      BY Zenon DEF Total, h
    <2>11. SubSeq(Buffered, 1, Total) = SubSeq(response.bytes, 1, h + BodyLength)
      <3>1. 1 \in 1..got /\ Total \in 1..got
        BY <1>1, <2>2, <2>4, <2>6, <2>9, <2>10, SMTT(20)
      <3>2. SubSeq(SubSeq(response.bytes, 1, got), 1, Total) = SubSeq(response.bytes, 1, Total)
        BY <1>1, <2>4, <3>1, PartOfPrefix, Zenon
      <3> QED
        BY <2>10, <3>2, Zenon DEF Buffered
    <2>12. FrameIsExact'
      <3>1. h + 0 = h
        BY <2>6
      <3>2. \/ /\ response.length.kind = "given"
               /\ returned' = SubSeq(response.bytes, 1, h + response.length.n)
            \/ response.length.kind = "absent" /\ returned' = SubSeq(response.bytes, 1, h)
        BY <2>1, <2>9, <2>11, <3>1, Zenon
      <3> QED
        BY <2>1, <2>6, <2>7, <2>8, <3>2, Zenon DEF FrameIsExact
    <2>13. phase' \in {"off", "reading", "ok", "err"}
      BY <2>1
    <2> QED
      BY <2>1, <2>12, <2>13, Zenon DEF HttpInv
  <1> QED
    BY <1>2, <1>3, <1>4, <1>5, HttpAlone, Zenon DEF Decide, ReadEof, ReadTimeout, Ends

LEMMA HttpInvHolds == Spec => []HttpInv
  <1>1. Init => HttpInv
    <2> SUFFICES ASSUME HttpInit PROVE HttpInv
      BY Zenon DEF Init
    <2>1. response \in Responses /\ sent = 0 /\ got = 0 /\ phase \in {"off", "reading"}
      BY Zenon DEF HttpInit
    <2>2. Len(response.bytes) \in Nat
      BY <2>1, HttpAssumption
    <2>3. phase # "ok" /\ phase \in {"off", "reading", "ok", "err"}
      BY <2>1
    <2>4. sent \in 0..Len(response.bytes) /\ got \in 0..sent
      BY <2>1, <2>2, SMTT(20)
    <2> QED
      BY <2>1, <2>3, <2>4, Zenon DEF HttpInv, FrameIsExact
  <1>2. HttpInv /\ [Next]_services => HttpInv'
    BY HttpStepHolds, Zenon
  <1> QED
    BY <1>1, <1>2, PTL DEF Spec

(* read_http_response returns one response and nothing of what follows it:  *)
(* the bytes up to the first blank line and as many after it as the headers *)
(* announce, however the stream was cut into reads; a length it refuses     *)
(* never gives an answer.  For any response, chunk size and header limit.   *)
THEOREM FrameIsExactHolds == Spec => []FrameIsExact
  <1>1. HttpInv => FrameIsExact
    BY Zenon DEF HttpInv
  <1> QED
    BY <1>1, HttpInvHolds, PTL

-----------------------------------------------------------------------------
(* Types.                                                                   *)
WireBounds ==
    /\ Len(issued) <= MaxRequests /\ waiting \in [Clients -> 0..MaxRequests]
    /\ hostEnd \in [Links -> {"none", "unused", "open", "closed"}]
    /\ torn \in [Links -> Seq(0..MaxRequests)] /\ up \in [Links -> Seq(0..MaxRequests)]
    /\ current \in [Links -> 0..MaxRequests]

LEMMA WireBoundsStep ==
    ASSUME WireTypes, WireBounds, [ClientStep \/ DaemonStep]_metadata PROVE WireBounds'
  <1> USE DEF WireBounds
  <1>0. MaxRequests \in Nat /\ 0 \in 0..MaxRequests /\ Len(issued) \in Nat
    BY PushAssumption DEF WireTypes
  <1>1. CASE UNCHANGED metadata
    BY <1>1, Zenon DEF metadata, store, links
  <1>2. ASSUME NEW c \in Clients, connect(c) PROVE WireBounds'
    <2>1. PICK l \in Links : hostEnd' = [hostEnd EXCEPT ![l] = "open"]
      BY <1>2, Zenon DEF connect, Unused
    <2>2. UNCHANGED <<issued, waiting, torn, up, current>>
      BY <1>2, Zenon DEF connect, store
    <2> QED
      BY <2>1, <2>2, Zenon
  <1>3. ASSUME NEW c \in Clients, recv_ok(c) \/ RecvTimeout(c) \/ RecvEof(c) PROVE WireBounds'
    <2>1. waiting' = [waiting EXCEPT ![c] = 0] /\ UNCHANGED <<issued, hostEnd, torn, up, current>>
      BY <1>3, Zenon DEF recv_ok, RecvTimeout, RecvEof, store, Acked, links
    <2> QED
      BY <1>0, <2>1, Zenon
  <1>4. ASSUME NEW c \in Clients, DropConn(c) PROVE WireBounds'
    <2> DEFINE l == conn[c]
    <2>1. /\ hostEnd' = [hostEnd EXCEPT ![l] = "closed"] /\ torn' = [torn EXCEPT ![l] = <<>>]
          /\ \/ up' = [up EXCEPT ![l] = up[l] \o torn[l]]
             \/ up' = [up EXCEPT ![l] = Append(up[l], Garbled)]
          /\ UNCHANGED <<issued, waiting, current>> /\ l \in Links
      BY <1>4, Zenon DEF DropConn, store, WireTypes
    <2>2. up[l] \in Seq(0..MaxRequests) /\ torn[l] \in Seq(0..MaxRequests)
      BY <2>1, Zenon
    <2> HIDE DEF l
    <2>3. /\ up[l] \o torn[l] \in Seq(0..MaxRequests) /\ Append(up[l], Garbled) \in Seq(0..MaxRequests)
          /\ <<>> \in Seq(0..MaxRequests)
      BY <1>0, <2>2 DEF Garbled
    <2> QED
      BY <2>1, <2>3, Zenon
  <1>5. ASSUME NEW c \in Clients, NEW body \in Pushes[c], send(c, body) PROVE WireBounds'
    <2> DEFINE l == conn[c]
               i == Len(issued) + 1
               line == LineOf(l, i)
    <2>1. /\ issued' = Append(issued, body) /\ Len(issued) < MaxRequests
          /\ UNCHANGED <<hostEnd, current>> /\ l \in Links /\ body \in Bodies
      BY <1>5, PushAssumption, Zenon DEF send, Issued, WireTypes
    <2>2. \/ /\ up' = [up EXCEPT ![l] = Append(up[l], line)] /\ torn' = [torn EXCEPT ![l] = <<>>]
             /\ waiting' = [waiting EXCEPT ![c] = i]
          \/ torn' = [torn EXCEPT ![l] = <<line>>] /\ UNCHANGED <<up, waiting>>
      BY <1>5, ZenonT(30) DEF send
    <2>3. Len(issued') <= MaxRequests /\ i \in 0..MaxRequests
      <3>1. issued \in Seq(Bodies)
        BY Zenon DEF WireTypes
      <3>2. Len(issued') = Len(issued) + 1
        BY <2>1, <3>1, AppendProperties, Zenon
      <3>3. Len(issued) + 1 \in 0..MaxRequests /\ Len(issued) + 1 <= MaxRequests
        <4> HIDE DEF WireBounds
        <4> QED
          BY <1>0, <2>1
      <3> QED
        BY <3>2, <3>3, Zenon
    <2>4. line \in 0..MaxRequests
      BY <1>0, <2>3, Zenon DEF LineOf, Garbled
    <2> HIDE DEF line, i, l
    <2>5. up[l] \in Seq(0..MaxRequests)
      BY <2>1, Zenon
    <2>6. /\ Append(up[l], line) \in Seq(0..MaxRequests) /\ <<line>> \in Seq(0..MaxRequests)
          /\ <<>> \in Seq(0..MaxRequests)
      BY <2>4, <2>5
    <2> QED
      BY <2>1, <2>2, <2>3, <2>6, Zenon
  <1>6. ASSUME NEW l \in Links, handle_line(l) PROVE WireBounds'
    <2>1. /\ up[l] # <<>> /\ up' = [up EXCEPT ![l] = Tail(up[l])]
          /\ current' = [current EXCEPT ![l] = Head(up[l])]
          /\ UNCHANGED <<issued, waiting, hostEnd, torn>>
      BY <1>6, Zenon DEF handle_line, store, Applied
    <2>2. up[l] \in Seq(0..MaxRequests)
      BY Zenon
    <2>3. Tail(up[l]) \in Seq(0..MaxRequests) /\ Head(up[l]) \in 0..MaxRequests
      BY <2>1, <2>2, HeadTailProperties, Zenon
    <2> QED
      BY <2>1, <2>3, Zenon
  <1>7. ASSUME NEW l \in Links, WriteTmp(l) \/ Rename(l) \/ Respond(l) \/ ServeEnds(l)
        PROVE  WireBounds'
    <2>1. /\ UNCHANGED <<issued, waiting, hostEnd, torn, up>>
          /\ current' = current \/ current' = [current EXCEPT ![l] = 0]
      BY <1>7, Zenon DEF WriteTmp, Rename, Respond, ServeEnds, store, Applied
    <2> QED
      BY <1>0, <2>1, Zenon
  <1> QED
    BY <1>1, <1>2, <1>3, <1>4, <1>5, <1>6, <1>7, ZenonT(30) DEF ClientStep, DaemonStep

LEMMA WireBoundsHolds == Spec => [](WireTypes /\ WireBounds)
  <1>1. Init => WireInv /\ WireBounds
    <2> SUFFICES ASSUME MetadataInit PROVE WireInv /\ WireBounds
      BY Zenon DEF Init
    <2>1. WireInv
      BY WireInit, Zenon
    <2>2. MaxRequests \in Nat /\ 0 \in 0..MaxRequests /\ <<>> \in Seq(0..MaxRequests)
      BY PushAssumption
    <2>3. issued = <<>> /\ Len(issued) <= MaxRequests
      BY <2>2 DEF MetadataInit, StoreInit
    <2>4. /\ waiting \in [Clients -> 0..MaxRequests] /\ torn \in [Links -> Seq(0..MaxRequests)]
          /\ up \in [Links -> Seq(0..MaxRequests)] /\ current \in [Links -> 0..MaxRequests]
      BY <2>2, Zenon DEF MetadataInit
    <2>5. hostEnd \in [Links -> {"none", "unused", "open", "closed"}]
      BY Zenon DEF MetadataInit
    <2> QED
      BY <2>1, <2>3, <2>4, <2>5, Zenon DEF WireBounds
  <1>2. WireInv /\ WireBounds /\ [Next]_services => WireInv' /\ WireBounds'
    BY MetadataAlone, WireStep, WireBoundsStep, Zenon DEF WireInv
  <1>3. WireInv => WireTypes
    BY Zenon DEF WireInv
  <1> QED
    BY <1>1, <1>2, <1>3, PTL DEF Spec

(* Every variable of the process, its threads and its clients keeps to its  *)
(* range: the pipe, the console's buffer and the reads never exceed their   *)
(* limits, a fault is of a page of the guest, a request known to the daemon *)
(* is one that was issued.                                                  *)
THEOREM TypeOKHolds == Spec => []TypeOK
  <1>1. ShutdownInv /\ ConsoleInv /\ UffdTypes /\ MetricsInv /\ WireTypes /\ WireBounds
        /\ StoreInv /\ HttpInv => TypeOK
    <2> SUFFICES ASSUME ShutdownInv, ConsoleInv, UffdTypes, MetricsInv, WireTypes, WireBounds,
                        StoreInv, HttpInv
                 PROVE  TypeOK
      BY SMTT(20)
    <2>1. Len(buffer) <= MaxLines /\ taken \in 0..MaxDocs
      <3>1. Len(emitted) \in Nat
        BY DEF MetricsInv
      <3>2. KeptCount \in Nat /\ MaxLines \in Nat /\ MaxDocs \in Nat
        BY ConsoleAssumption, MetricsAssumption, Zenon DEF ConsoleInv
      <3> QED
        BY <3>1, <3>2, SMTT(20) DEF ConsoleInv, MetricsInv, Earlier
    <2>2. applied \cup acked \subseteq 1..Len(issued)
      BY Zenon DEF StoreInv
    <2>3. thread \in [Links -> {"off", "read", "tmp", "rename", "reply"}]
      BY Zenon DEF WireTypes, Threads
    <2> QED
      BY <2>1, <2>2, <2>3, Zenon
         DEF TypeOK, ShutdownInv, ConsoleInv, UffdTypes, MetricsInv, WireTypes, WireBounds, HttpInv
  <1>2. Spec => []StoreInv
    BY MetadataImplementsStore, StoreInvHolds, PTL
  <1> QED
    BY <1>1, <1>2, ShutdownInvHolds, ConsoleInvHolds, UffdInvHolds, MetricsInvHolds, WireBoundsHolds,
       HttpInvHolds, PTL
=============================================================================
