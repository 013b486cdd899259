-------------------------- MODULE DeviceFrameProofs --------------------------
(***************************************************************************)
(* Theorems about the frames of Device: a frame belongs to one work, and   *)
(* the headers of a device are numbered without a gap, for any number of   *)
(* actors, frames and works and whatever the size of the counters.         *)
(***************************************************************************)
EXTENDS DeviceProofs

----------------------------------------------------------------------------
(* The works that wait for a thread, the one that it runs first            *)

LEMMA PendingMembers ==
    ASSUME ThrType, ThrLocals, NEW d \in Devs
    PROVE  /\ Pending(d) \in Seq(Kworks)
           /\ kpc[d] # "work" => Pending(d) = queue[d]
           /\ kpc[d] = "work" =>
                  /\ cur[d] \in Kworks
                  /\ Pending(d) = <<cur[d]>> \o queue[d]
                  /\ Len(Pending(d)) = Len(queue[d]) + 1
                  /\ Pending(d)[1] = cur[d]
                  /\ \A n \in 1 .. Len(queue[d]) : Pending(d)[n + 1] = queue[d][n]
<1>1. queue[d] \in Seq(Kworks)
  BY DEF ThrType
<1>2. CASE kpc[d] = "work"
  <2>1. cur[d] \in Kworks
    BY <1>2 DEF ThrType, ThrLocals
  <2>2. <<cur[d]>> \in Seq(Kworks) /\ Len(<<cur[d]>>) = 1 /\ <<cur[d]>>[1] = cur[d]
    BY <2>1
  <2>3. Pending(d) = <<cur[d]>> \o queue[d]
    BY <1>2 DEF Pending
  <2>. HIDE DEF Pending
  <2>. DEFINE c == <<cur[d]>>
  <2>4. /\ c \o queue[d] \in Seq(Kworks)
        /\ Len(c \o queue[d]) = Len(c) + Len(queue[d])
        /\ \A n \in 1 .. Len(c) + Len(queue[d]) :
               (c \o queue[d])[n] = IF n <= Len(c) THEN c[n] ELSE queue[d][n - Len(c)]
    BY <1>1, <2>2, ConcatProperties
  <2>. HIDE DEF c
  <2>5. Len(queue[d]) \in Nat /\ Len(c) = 1 /\ c[1] = cur[d] /\ Pending(d) = c \o queue[d]
    BY <1>1, <2>2, <2>3 DEF c
  <2>6. Pending(d)[1] = cur[d] /\ \A n \in 1 .. Len(queue[d]) : Pending(d)[n + 1] = queue[d][n]
    BY <2>4, <2>5
  <2>. QED
    BY <1>2, <2>1, <2>3, <2>4, <2>5, <2>6
<1>3. CASE kpc[d] # "work"
  BY <1>1, <1>3, ConcatEmptySeq DEF Pending
<1>. QED
  BY <1>2, <1>3

(* A work that waits is in use.                                            *)
LEMMA PendingInUse ==
    ASSUME ThrType, ThrLocals, NEW d \in Devs, NEW n \in 1 .. Len(Pending(d))
    PROVE  InUse(Pending(d)[n]) /\ Pending(d)[n] \in Kworks
<1>. DEFINE q == queue[d]
<1>1. q \in Seq(Kworks) /\ Len(q) \in Nat
  BY DEF ThrType
<1>2. \A m \in 1 .. Len(q) : InUse(q[m]) /\ q[m] \in Kworks
  BY QueueMembers DEF InUse
<1>3. CASE kpc[d] # "work"
  <2>1. Pending(d) = q
    BY <1>3, PendingMembers
  <2>. QED
    BY <1>2, <2>1
<1>4. CASE kpc[d] = "work"
  <2>1. /\ cur[d] \in Kworks /\ Len(Pending(d)) = Len(q) + 1 /\ Pending(d)[1] = cur[d]
        /\ \A m \in 1 .. Len(q) : Pending(d)[m + 1] = q[m]
    BY <1>4, PendingMembers
  <2>2. InUse(cur[d])
    BY <1>4 DEF InUse
  <2>. DEFINE p == Pending(d)
  <2>. HIDE DEF p, q
  <2>3. CASE n = 1
    BY <2>1, <2>2, <2>3
  <2>4. CASE n # 1
    <3>1. PICK m \in 1 .. Len(q) : n = m + 1
      <4>1. n - 1 \in 1 .. Len(q) /\ n = (n - 1) + 1
        BY <1>1, <2>1, <2>4
      <4>. QED
        BY <4>1
    <3>2. Pending(d)[n] = q[m]
      BY <2>1, <3>1
    <3>. QED
      BY <1>2, <3>2
  <2>. QED
    BY <2>3, <2>4
<1>. QED
  BY <1>3, <1>4

----------------------------------------------------------------------------
(* Frames *)

(* A step brings one work into use, the one that a handler queues, and     *)
(* leaves the others that stay in use as they were.                        *)
LEMMA UseStep ==
    ASSUME WorkTypes, LocalsOK, OnePlace, [Next]_vars,
           NEW k \in Kworks, InUse(k)'
    PROVE  \/ InUse(k) /\ wrk'[k] = wrk[k]
           \/ \E i \in Irqs : RecvQueue(i) /\ k = iwrk[i]
<1>. USE DEF LocalsOK
<1>0. PICK e \in Devs : k \in ToSet(queue'[e]) \/ (cur'[e] = k /\ kpc'[e] = "work")
  BY DEF InUse
<1>1. ASSUME NEW i \in Irqs, RecvQueue(i), k # iwrk[i]
      PROVE  InUse(k) /\ wrk'[k] = wrk[k]
  <2>. DEFINE d == idev[i]
  <2>1. /\ d \in Devs /\ iwrk[i] \in Kworks
        /\ queue' = [queue EXCEPT ![d] = Append(queue[d], iwrk[i])]
        /\ UNCHANGED <<cur, kpc>> /\ wrk'[k] = wrk[k]
    BY <1>1, QueueMoves
  <2>2. ToSet(Append(queue[d], iwrk[i])) = ToSet(queue[d]) \cup {iwrk[i]}
    BY <2>1, AppendMembers, QueueMembers DEF WorkTypes
  <2>3. k \in ToSet(queue'[e]) => k \in ToSet(queue[e])
    <3>1. CASE e = d
      <4>1. queue'[e] = Append(queue[d], iwrk[i])
        BY <2>1, <3>1 DEF WorkTypes, ThrType
      <4>. QED
        BY <1>1, <2>2, <3>1, <4>1
    <3>2. CASE e # d
      <4>1. queue'[e] = queue[e]
        BY <2>1, <3>2 DEF WorkTypes, ThrType
      <4>. QED
        BY <4>1
    <3>. QED
      BY <3>1, <3>2
  <2>. QED
    BY <1>0, <2>1, <2>3 DEF InUse
<1>2. ASSUME NEW d \in Devs, WorkerTake(d)
      PROVE  InUse(k) /\ wrk'[k] = wrk[k]
  <2>1. /\ queue[d] # <<>>
        /\ cur' = [cur EXCEPT ![d] = Head(queue[d])]
        /\ queue' = [queue EXCEPT ![d] = Tail(queue[d])]
        /\ kpc' = [kpc EXCEPT ![d] = "work"]
        /\ wrk' = wrk
    BY <1>2, TakeMoves
  <2>2. Head(queue[d]) \in ToSet(queue[d]) /\ ToSet(Tail(queue[d])) \subseteq ToSet(queue[d])
    BY <2>1, TailMembers, QueueMembers DEF WorkTypes
  <2>3. k \in ToSet(queue'[e]) => k \in ToSet(queue[e])
    BY <2>1, <2>2 DEF WorkTypes, ThrType
  <2>4. cur'[e] = k /\ kpc'[e] = "work" =>
            k \in ToSet(queue[e]) \/ (cur[e] = k /\ kpc[e] = "work")
    BY <2>1, <2>2 DEF WorkTypes, ThrType
  <2>. QED
    BY <1>0, <2>1, <2>3, <2>4 DEF InUse
<1>3. ASSUME NEW d \in Devs, WorkerFree(d)
      PROVE  InUse(k) /\ wrk'[k] = wrk[k]
  <2>1. /\ cur[d] \in Kworks
        /\ cur' = [cur EXCEPT ![d] = NULL]
        /\ kpc' = [kpc EXCEPT ![d] = "idle"]
        /\ wrk' = [wrk EXCEPT ![cur[d]] = Blank]
        /\ queue' = queue
    BY <1>3, FreeMoves
  <2>2. \/ k \in ToSet(queue[e])
        \/ (e # d /\ cur[e] = k /\ kpc[e] = "work")
    BY <1>0, <2>1 DEF WorkTypes, ThrType
  <2>3. k # cur[d]
    BY <2>1, <2>2, Apart, NullFacts
  <2>4. wrk'[k] = wrk[k]
    BY <2>1, <2>3 DEF WorkTypes, WrkType
  <2>. QED
    BY <2>2, <2>4 DEF InUse
<1>4. ASSUME NEW w \in Writers, Join(w)
      PROVE  InUse(k) /\ wrk'[k] = wrk[k]
  <2>1. /\ wdev[w] \in Devs
        /\ queue' = [queue EXCEPT ![wdev[w]] = <<>>]
        /\ cur' = [cur EXCEPT ![wdev[w]] = NULL]
        /\ kpc' = [kpc EXCEPT ![wdev[w]] = "idle"]
        /\ wrk' = wrk
    BY <1>4, JoinMoves DEF WorkTypes
  <2>2. ToSet(<<>>) = {}
    BY DEF ToSet
  <2>3. k \in ToSet(queue[e]) \/ (cur[e] = k /\ kpc[e] = "work")
    BY <1>0, <2>1, <2>2 DEF WorkTypes, ThrType
  <2>. QED
    BY <2>1, <2>3 DEF InUse
<1>5. ASSUME UNCHANGED <<queue, cur, wrk>>, kpc'[e] = "work" => kpc[e] = "work"
      PROVE  InUse(k) /\ wrk'[k] = wrk[k]
  BY <1>0, <1>5 DEF InUse
<1>6. ASSUME NEW d \in Devs,
             WorkerCheck(d) \/ WorkerForward(d) \/ WorkerOops(d) \/ WorkerLock(d)
      PROVE  InUse(k) /\ wrk'[k] = wrk[k]
  <2>1. kpc'[e] = "work" => kpc[e] = "work"
    BY <1>6 DEF WorkerCheck, WorkerForward, WorkerOops, WorkerLock, WorkTypes, ThrType
  <2>2. UNCHANGED <<queue, cur, wrk>>
    BY <1>6 DEF WorkerCheck, WorkerForward, WorkerOops, WorkerLock
  <2>. QED
    BY <1>5, <2>1, <2>2
<1>7. ASSUME NEW w \in Writers, NEW d \in Devs, Create(w, d)
      PROVE  InUse(k) /\ wrk'[k] = wrk[k]
  <2>1. kpc'[e] = "work" => kpc[e] = "work"
    BY <1>7 DEF Create, WorkTypes, ThrType
  <2>2. UNCHANGED <<queue, cur, wrk>>
    BY <1>7 DEF Create
  <2>. QED
    BY <1>5, <2>1, <2>2
<1>8. CASE UNCHANGED <<queue, cur, wrk, kpc>>
  BY <1>5, <1>8
<1>. QED
  BY <1>1, <1>2, <1>3, <1>4, <1>6, <1>7, <1>8 DEF Next, vars, IrqNext, WorkerNext,
     WriterNext, thrVars, Deliver, RecvFind, RecvNoDevice, RecvAlloc, RecvDrop,
     WorkerExit, Start, Lock, Show, Unregister, ScanEnd, Delete, AddFail, AddLock,
     AddTail, AddPack

(* A work that a handler queues was not in use.                            *)
LEMMA NotInUse ==
    ASSUME OnePlace, NEW i \in Irqs, iwrk[i] # NULL
    PROVE  ~ InUse(iwrk[i])
BY Apart DEF InUse

(* A frame that a thread frees is that of no other work in use.            *)
LEMMA ForwardFrees ==
    ASSUME WorkTypes, SkbType, LocalsOK, CarriesOK, NEW d \in Devs, WorkerForward(d)
    PROVE  /\ cur[d] \in Kworks /\ wrk[cur[d]].skb \in Frames
           /\ skblen' = [skblen EXCEPT ![wrk[cur[d]].skb] = 0]
           /\ InUse(cur[d])
           /\ kpc' = [kpc EXCEPT ![d] = "lock"]
           /\ UNCHANGED <<queue, cur, wrk, iskb>>
BY DEF WorkerForward, WorkTypes, ThrType, LocalsOK, ThrLocals, CarriesOK, InUse, irqVars

(* The work whose frame is forwarded is not in use any more.               *)
LEMMA ForwardedNotInUse ==
    ASSUME WorkTypes, SkbType, LocalsOK, OnePlace, CarriesOK,
           NEW d \in Devs, WorkerForward(d), NEW k \in Kworks, InUse(k)'
    PROVE  k # cur[d]
<1>1. /\ cur[d] \in Kworks
      /\ kpc' = [kpc EXCEPT ![d] = "lock"]
      /\ UNCHANGED <<queue, cur>>
  BY ForwardFrees
<1>2. PICK e \in Devs : k \in ToSet(queue'[e]) \/ (cur'[e] = k /\ kpc'[e] = "work")
  BY DEF InUse
<1>3. k \in ToSet(queue[e]) \/ (e # d /\ cur[e] = k)
  BY <1>1, <1>2 DEF WorkTypes, ThrType
<1>. QED
  BY <1>1, <1>3, Apart, NullFacts

(* A work in use that no thread forwards keeps its frame, with its length. *)
LEMMA KeptInUse ==
    ASSUME WorkTypes, SkbType, LocalsOK, OnePlace, CarriesOK, FrameInv, [Next]_vars,
           NEW k \in Kworks, InUse(k), \A d \in Devs : WorkerForward(d) => k # cur[d]
    PROVE  wrk'[k] = wrk[k] /\ skblen'[wrk[k].skb] = skblen[wrk[k].skb]
<1>. DEFINE g == wrk[k].skb
<1>1. g \in Frames /\ skblen[g] # 0
  <2>1. g # NULL /\ skblen[g] # 0
    BY DEF FrameInv, FrameOwned
  <2>. QED
    BY <2>1 DEF WorkTypes, WrkType
<1>2. ASSUME NEW i \in Irqs, NEW d \in ptypes, NEW f \in Frames, NEW n \in Lens,
             NEW t \in Interruptible \cup {NULL}, Deliver(i, d, f, n, t)
      PROVE  wrk' = wrk /\ skblen'[g] = skblen[g]
  BY <1>1, <1>2 DEF Deliver, SkbType
<1>3. ASSUME NEW d \in Devs, WorkerForward(d) PROVE wrk' = wrk /\ skblen'[g] = skblen[g]
  <2>1. /\ cur[d] \in Kworks /\ wrk[cur[d]].skb \in Frames
        /\ skblen' = [skblen EXCEPT ![wrk[cur[d]].skb] = 0]
        /\ InUse(cur[d])
        /\ UNCHANGED wrk
    BY <1>3, ForwardFrees
  <2>2. g # wrk[cur[d]].skb
    BY <1>3, <2>1 DEF FrameInv, FrameOwned
  <2>. QED
    BY <1>1, <2>1, <2>2 DEF SkbType
<1>4. ASSUME NEW i \in Irqs, RecvQueue(i) PROVE wrk'[k] = wrk[k] /\ skblen' = skblen
  <2>1. k # iwrk[i]
    BY <1>4, NotInUse DEF RecvQueue
  <2>. QED
    BY <1>4, <2>1, QueueMoves DEF RecvQueue, LocalsOK
<1>5. ASSUME NEW d \in Devs, WorkerFree(d) PROVE wrk'[k] = wrk[k] /\ skblen' = skblen
  <2>1. /\ cur[d] \in Kworks /\ kpc[d] = "free"
        /\ wrk' = [wrk EXCEPT ![cur[d]] = Blank] /\ skblen' = skblen
    BY <1>5, FreeMoves DEF WorkerFree, LocalsOK
  <2>2. k # cur[d]
    BY <2>1, Apart, NullFacts DEF InUse
  <2>. QED
    BY <2>1, <2>2 DEF WorkTypes, WrkType
<1>6. CASE UNCHANGED <<wrk, skblen>>
  BY <1>6
<1>. QED
  BY <1>2, <1>3, <1>4, <1>5, <1>6 DEF Next, vars, IrqNext, WorkerNext, WriterNext,
     RecvFind, RecvNoDevice, RecvAlloc, RecvDrop, WorkerCheck, WorkerExit, WorkerTake,
     WorkerOops, WorkerLock, Start, Lock, Show, Unregister, ScanEnd, Delete, Join,
     AddFail, Create, AddLock, AddTail, AddPack

(* The frames stay with their owners.                                      *)
LEMMA FrameStep ==
    ASSUME WorkTypes, SkbType, LocalsOK, OnePlace, CarriesOK, FrameInv, [Next]_vars
    PROVE  FrameInv'
<1>. DEFINE Quiet == ~ \E i \in Irqs : RecvQueue(i)
<1>1. \A k \in Kworks : InUse(k) =>
          /\ wrk[k].skb \in Frames /\ skblen[wrk[k].skb] # 0
          /\ \A l \in Kworks : InUse(l) /\ wrk[l].skb = wrk[k].skb => l = k
          /\ \A i \in Irqs : iskb[i] # wrk[k].skb
  BY DEF FrameInv, FrameOwned, WorkTypes, WrkType
<1>2. \A k \in Kworks : InUse(k)' /\ InUse(k) => skblen'[wrk[k].skb] = skblen[wrk[k].skb]
  BY KeptInUse, ForwardedNotInUse
<1>3. ASSUME Quiet PROVE \A k \in Kworks : InUse(k)' => InUse(k) /\ wrk'[k] = wrk[k]
  BY <1>3, UseStep
<1>4. ASSUME Quiet, \A i \in Irqs : \A k \in Kworks :
                        InUse(k) => iskb'[i] # wrk[k].skb
      PROVE  FrameOwned'
  <2>1. \A k \in Kworks : InUse(k)' =>
            /\ InUse(k) /\ wrk'[k] = wrk[k]
            /\ skblen'[wrk[k].skb] = skblen[wrk[k].skb]
    BY <1>2, <1>3, <1>4
  <2>. SUFFICES ASSUME NEW k \in Kworks, InUse(k)'
                PROVE  /\ wrk'[k].skb # NULL
                       /\ skblen'[wrk'[k].skb] # 0
                       /\ \A l \in Kworks : InUse(l)' /\ wrk'[l].skb = wrk'[k].skb => l = k
                       /\ \A i \in Irqs : iskb'[i] # wrk'[k].skb
    BY DEF FrameOwned
  <2>2. InUse(k) /\ wrk'[k] = wrk[k] /\ skblen'[wrk[k].skb] = skblen[wrk[k].skb]
    BY <2>1
  <2>3. wrk[k].skb \in Frames /\ skblen[wrk[k].skb] # 0
    BY <1>1, <2>2
  <2>4. ASSUME NEW l \in Kworks, InUse(l)', wrk'[l].skb = wrk'[k].skb PROVE l = k
    <3>1. InUse(l) /\ wrk'[l] = wrk[l]
      BY <2>1, <2>4
    <3>. QED
      BY <1>1, <2>2, <2>4, <3>1
  <2>. QED
    BY <1>4, <2>2, <2>3, <2>4, NullFacts
<1>5. ASSUME NEW i \in Irqs, RecvQueue(i) PROVE FrameInv'
  <2>. DEFINE k == iwrk[i]
              f == iskb[i]
  <2>1. /\ k \in Kworks /\ f \in Frames /\ wrk'[k].skb = f
        /\ \A l \in Kworks : l # k => wrk'[l] = wrk[l]
    BY <1>5, QueueMoves DEF LocalsOK
  <2>2. iskb' = [iskb EXCEPT ![i] = NULL] /\ skblen' = skblen
    BY <1>5 DEF RecvQueue, Return
  <2>3. skblen[f] # 0 /\ \A j \in Irqs : iskb[j] = f => j = i
    BY <2>1, NullFacts DEF FrameInv, HandlersOwn
  <2>4. \A l \in Kworks : InUse(l)' => l = k \/ InUse(l)
    <3>. SUFFICES ASSUME NEW l \in Kworks, InUse(l)', l # k PROVE InUse(l)
      OBVIOUS
    <3>1. \A j \in Irqs : RecvQueue(j) => j = i
      BY <1>5, NullFacts DEF RecvQueue, Return, WorkTypes, IrqType, LocalsOK, IrqLocals
    <3>. QED
      BY <3>1, UseStep
  <2>5. ~ InUse(k)
    BY <2>1, NotInUse, NullFacts
  <2>6. \A l \in Kworks : InUse(l)' /\ l # k =>
            /\ wrk'[l] = wrk[l] /\ wrk[l].skb \in Frames /\ skblen[wrk[l].skb] # 0
            /\ wrk[l].skb # f
            /\ \A j \in Irqs : iskb[j] # wrk[l].skb
    BY <1>1, <2>1, <2>4
  <2>7. \A j \in Irqs : iskb'[j] = iskb[j] \/ iskb'[j] = NULL
    BY <2>2 DEF WorkTypes, IrqType
  <2>8. \A l \in Kworks : InUse(l)' =>
            /\ wrk'[l].skb \in Frames
            /\ skblen'[wrk'[l].skb] # 0
            /\ \A m \in Kworks : InUse(m)' /\ wrk'[m].skb = wrk'[l].skb => m = l
            /\ \A j \in Irqs : iskb'[j] # wrk'[l].skb
    <3>. SUFFICES ASSUME NEW l \in Kworks, InUse(l)'
                  PROVE  /\ wrk'[l].skb \in Frames
                         /\ skblen'[wrk'[l].skb] # 0
                         /\ \A m \in Kworks :
                                InUse(m)' /\ wrk'[m].skb = wrk'[l].skb => m = l
                         /\ \A j \in Irqs : iskb'[j] # wrk'[l].skb
      OBVIOUS
    <3>1. wrk'[l].skb \in Frames /\ skblen'[wrk'[l].skb] # 0
      BY <2>1, <2>2, <2>3, <2>6
    <3>2. ASSUME NEW m \in Kworks, InUse(m)', wrk'[m].skb = wrk'[l].skb PROVE m = l
      <4>1. CASE m = k \/ l = k
        BY <2>1, <2>6, <3>2, <4>1
      <4>2. CASE m # k /\ l # k
        BY <1>1, <2>4, <2>6, <3>2, <4>2
      <4>. QED
        BY <4>1, <4>2
    <3>3. ASSUME NEW j \in Irqs PROVE iskb'[j] # wrk'[l].skb
      <4>1. CASE l = k
        <5>1. iskb'[j] = IF j = i THEN NULL ELSE iskb[j]
          BY <2>2 DEF WorkTypes, IrqType
        <5>. QED
          BY <2>1, <2>3, <4>1, <5>1, NullFacts
      <4>2. CASE l # k
        BY <2>6, <2>7, <4>2, NullFacts
      <4>. QED
        BY <4>1, <4>2
    <3>. QED
      BY <3>1, <3>2, <3>3
  <2>9. FrameOwned'
    BY <2>8, NullFacts DEF FrameOwned
  <2>10. HandlersOwn'
    <3>1. \A j \in Irqs : iskb'[j] = IF j = i THEN NULL ELSE iskb[j]
      BY <2>2 DEF WorkTypes, IrqType
    <3>. QED
      BY <2>2, <3>1 DEF HandlersOwn, FrameInv
  <2>. QED
    BY <2>9, <2>10 DEF FrameInv
<1>6. ASSUME NEW i \in Irqs, NEW d \in ptypes, NEW f \in Frames, NEW n \in Lens,
             NEW t \in Interruptible \cup {NULL}, Deliver(i, d, f, n, t)
      PROVE  FrameInv'
  <2>1. /\ skblen[f] = 0 /\ skblen' = [skblen EXCEPT ![f] = n]
        /\ iskb' = [iskb EXCEPT ![i] = f] /\ n # 0
    BY <1>6, ConstantFacts DEF Deliver
  <2>2. Quiet
    <3>1. iwrk' = iwrk
      BY <1>6 DEF Deliver
    <3>. QED
      BY <3>1 DEF RecvQueue, Return, WorkTypes, IrqType
  <2>3. \A j \in Irqs : iskb'[j] = IF j = i THEN f ELSE iskb[j]
    BY <2>1 DEF WorkTypes, IrqType
  <2>4. \A j \in Irqs : \A k \in Kworks : InUse(k) => iskb'[j] # wrk[k].skb
    BY <1>1, <2>1, <2>3
  <2>5. \A g \in Frames : skblen'[g] = IF g = f THEN n ELSE skblen[g]
    BY <2>1 DEF SkbType
  <2>6. \A j \in Irqs : iskb[j] # NULL => iskb[j] \in Frames /\ iskb[j] # f
    BY <2>1 DEF FrameInv, HandlersOwn, WorkTypes, IrqType
  <2>7. HandlersOwn'
    BY <2>1, <2>3, <2>5, <2>6, NullFacts DEF HandlersOwn, FrameInv
  <2>. QED
    BY <1>4, <2>2, <2>4, <2>7 DEF FrameInv
<1>7. ASSUME Quiet, skblen' = skblen,
             \A j \in Irqs : iskb'[j] = iskb[j] \/ iskb'[j] = NULL
      PROVE  FrameInv'
  <2>1. \A j \in Irqs : \A k \in Kworks : InUse(k) => iskb'[j] # wrk[k].skb
    BY <1>1, <1>7, NullFacts
  <2>2. HandlersOwn'
    BY <1>7 DEF HandlersOwn, FrameInv
  <2>. QED
    BY <1>4, <1>7, <2>1, <2>2 DEF FrameInv
<1>8. ASSUME NEW d \in Devs, WorkerForward(d) PROVE FrameInv'
  <2>1. /\ cur[d] \in Kworks /\ wrk[cur[d]].skb \in Frames
        /\ skblen' = [skblen EXCEPT ![wrk[cur[d]].skb] = 0]
        /\ InUse(cur[d])
        /\ UNCHANGED <<queue, cur, wrk, iskb>>
    BY <1>8, ForwardFrees
  <2>2. Quiet
    <3>1. ipc' = ipc
      BY <1>8 DEF WorkerForward, irqVars
    <3>. QED
      BY <3>1 DEF RecvQueue, Return, WorkTypes, IrqType
  <2>3. \A j \in Irqs : \A k \in Kworks : InUse(k) => iskb'[j] # wrk[k].skb
    BY <1>1, <2>1
  <2>4. \A j \in Irqs : iskb[j] # NULL =>
            iskb[j] \in Frames /\ iskb[j] # wrk[cur[d]].skb
    BY <1>1, <2>1 DEF WorkTypes, IrqType
  <2>5. HandlersOwn'
    BY <2>1, <2>4 DEF HandlersOwn, FrameInv, SkbType
  <2>. QED
    BY <1>4, <2>2, <2>3, <2>5 DEF FrameInv
<1>9. ASSUME NEW i \in Irqs, RecvNoDevice(i) \/ RecvDrop(i) PROVE FrameInv'
  <2>1. iwrk' = iwrk /\ wrk' = wrk /\ queue' = queue /\ skblen' = skblen
    BY <1>9, NothingHeld DEF RecvNoDevice, RecvDrop, thrVars, WorkTypes, LocalsOK
  <2>2. Quiet
    BY <2>1, NullFacts DEF RecvQueue, Return, WorkTypes, IrqType
  <2>3. \A j \in Irqs : iskb'[j] = iskb[j] \/ iskb'[j] = NULL
    BY <1>9 DEF RecvNoDevice, RecvDrop, Return, WorkTypes, IrqType
  <2>. QED
    BY <1>7, <2>1, <2>2, <2>3
<1>10. ASSUME NEW i \in Irqs, RecvFind(i) \/ RecvAlloc(i) PROVE FrameInv'
  <2>1. skblen' = skblen /\ iskb' = iskb
    BY <1>10 DEF RecvFind, RecvAlloc
  <2>2. Quiet
    BY <1>10, <2>1, NullFacts
       DEF RecvQueue, Return, WorkTypes, IrqType, LocalsOK, IrqLocals
  <2>. QED
    BY <1>7, <2>1, <2>2
<1>11. CASE skblen' = skblen /\ UNCHANGED irqVars
  <2>1. Quiet
    BY <1>11 DEF irqVars, RecvQueue, Return, WorkTypes, IrqType
  <2>. QED
    BY <1>7, <1>11, <2>1 DEF irqVars
<1>. QED
  BY <1>5, <1>6, <1>8, <1>9, <1>10, <1>11 DEF Next, vars, IrqNext, WorkerNext,
     WriterNext, WorkerCheck, WorkerExit, WorkerTake, WorkerOops, WorkerLock,
     WorkerFree, Start, Lock, Show, Unregister, ScanEnd, Delete, Join, AddFail, Create,
     AddLock, AddTail, AddPack

(* FrameOwned: the frame that a thread is about to copy is allocated, and  *)
(* no other work and no handler holds it.                                  *)
THEOREM FramesOwned == Spec => []FrameOwned
<1>1. Init => FrameInv
  BY NullFacts DEF Init, FrameInv, FrameOwned, HandlersOwn, InUse, ToSet
<1>2. IInv /\ FrameInv /\ [Next]_vars => FrameInv'
  BY FrameStep DEF IInv, TypeOK, WorkTypes
<1>3. FrameInv => FrameOwned
  BY DEF FrameInv
<1>. QED
  BY <1>1, <1>2, <1>3, DeviceInvariant, PTL DEF Spec

----------------------------------------------------------------------------
(* Numbers *)

(* What NumberInv says of one device: its works p, what works hold in w,   *)
(* the lengths l of frames, the last header s and the counters c and b.    *)
NumberedAt(p, w, l, s, c, b) ==
    /\ \A n \in 1 .. Len(p) : w[p[n]].pkts = (s.pktid + n) % CTR_MOD
    /\ c = (s.pktid + Len(p)) % CTR_MOD
    /\ b = IF p = <<>> THEN s.bytecnt ELSE w[Last(p)].bytes
    /\ \A n \in 1 .. Len(p) :
           LET before == IF n = 1 THEN s.bytecnt ELSE w[p[n - 1]].bytes
           IN  w[p[n]].bytes = (before + l[w[p[n]].skb]) % CTR_MOD

(* The works p, and their frames, hold in w2 and l2 what they hold in w, l.*)
Kept(p, w, l, w2, l2) ==
    \A n \in 1 .. Len(p) : w2[p[n]] = w[p[n]] /\ l2[w[p[n]].skb] = l[w[p[n]].skb]

(* Nothing else is read.                                                   *)
LEMMA NumbersKept ==
    ASSUME NEW p \in Seq(Kworks), NEW w, NEW l, NEW s, NEW c, NEW b, NEW w2, NEW l2,
           NumberedAt(p, w, l, s, c, b), Kept(p, w, l, w2, l2)
    PROVE  NumberedAt(p, w2, l2, s, c, b)
<1>1. Len(p) \in Nat
  OBVIOUS
<1>2. \A n \in 1 .. Len(p) : n # 1 => n - 1 \in 1 .. Len(p)
  BY <1>1
<1>3. p # <<>> => Last(p) = p[Len(p)] /\ Len(p) \in 1 .. Len(p)
  BY EmptySeq DEF Last
<1>4. \A n \in 1 .. Len(p) :
          w2[p[n]] = w[p[n]] /\ l2[w2[p[n]].skb] = l[w[p[n]].skb]
  BY DEF Kept
<1>5. /\ \A n \in 1 .. Len(p) : w2[p[n]].pkts = (s.pktid + n) % CTR_MOD
      /\ c = (s.pktid + Len(p)) % CTR_MOD
      /\ b = IF p = <<>> THEN s.bytecnt ELSE w2[Last(p)].bytes
  BY <1>3, <1>4 DEF NumberedAt
<1>6. ASSUME NEW n \in 1 .. Len(p)
      PROVE  w2[p[n]].bytes
                 = ((IF n = 1 THEN s.bytecnt ELSE w2[p[n - 1]].bytes) + l2[w2[p[n]].skb])
                       % CTR_MOD
  <2>1. n # 1 => w2[p[n - 1]] = w[p[n - 1]]
    BY <1>2, <1>4
  <2>2. w2[p[n]] = w[p[n]] /\ l2[w2[p[n]].skb] = l[w[p[n]].skb]
    BY <1>4
  <2>. QED
    BY <2>1, <2>2 DEF NumberedAt
<1>. QED
  BY <1>5, <1>6 DEF NumberedAt

(* A frame arrives at the end of the queue.                                *)
LEMMA NumbersArrive ==
    ASSUME NEW p \in Seq(Kworks), NEW w, NEW l, NEW s, NEW c, NEW b, NEW w2, NEW l2,
           NEW k \in Kworks, s.pktid \in Nat,
           NumberedAt(p, w, l, s, c, b), Kept(p, w, l, w2, l2),
           w2[k].pkts = (c + 1) % CTR_MOD,
           w2[k].bytes = (b + l2[w2[k].skb]) % CTR_MOD
    PROVE  NumberedAt(Append(p, k), w2, l2, s, w2[k].pkts, w2[k].bytes)
<1>. DEFINE q == Append(p, k)
            N == Len(p)
<1>1. /\ N \in Nat /\ Len(q) = N + 1 /\ q[N + 1] = k
      /\ \A n \in 1 .. N : q[n] = p[n]
      /\ q # <<>> /\ Last(q) = k
  <2>1. q \in Seq(Kworks) /\ Len(q) = N + 1 /\ N \in Nat
    BY AppendMembers
  <2>2. q[N + 1] = k /\ \A n \in 1 .. N : q[n] = p[n]
    BY <2>1, AppendMembers
  <2>3. q # <<>>
    <3>1. Len(<<>>) = 0
      OBVIOUS
    <3>. QED
      BY <2>1, <3>1
  <2>. QED
    BY <2>1, <2>2, <2>3 DEF Last
<1>2. NumberedAt(p, w2, l2, s, c, b)
  BY NumbersKept
<1>3. p # <<>> => Last(p) = p[N] /\ N \in 1 .. N
  BY EmptySeq DEF Last
<1>4. p = <<>> => N = 0
  OBVIOUS
<1>. HIDE DEF q, N
<1>5. w2[k].pkts = (s.pktid + (N + 1)) % CTR_MOD
  <2>1. c = (s.pktid + N) % CTR_MOD
    BY <1>2 DEF NumberedAt, N
  <2>2. (s.pktid + N) \in Nat /\ (s.pktid + N) + 1 = s.pktid + (N + 1)
    <3>1. N \in Nat
      BY <1>1
    <3>. QED
      BY <3>1
  <2>3. (((s.pktid + N) % CTR_MOD) + 1) % CTR_MOD = ((s.pktid + N) + 1) % CTR_MOD
    BY ZenonT(60), <2>2, PlusMod, ConstantFacts
  <2>. QED
    BY <2>1, <2>2, <2>3
<1>6. \A n \in 1 .. N + 1 : w2[q[n]].pkts = (s.pktid + n) % CTR_MOD
  <2>. TAKE n \in 1 .. N + 1
  <2>1. CASE n = N + 1
    BY <1>1, <1>5, <2>1
  <2>2. CASE n # N + 1
    <3>1. n \in 1 .. N
      BY <1>1, <2>2
    <3>. QED
      BY <1>1, <1>2, <3>1 DEF NumberedAt, N
  <2>. QED
    BY <2>1, <2>2
<1>7. ASSUME NEW n \in 1 .. N + 1
      PROVE  LET before == IF n = 1 THEN s.bytecnt ELSE w2[q[n - 1]].bytes
             IN  w2[q[n]].bytes = (before + l2[w2[q[n]].skb]) % CTR_MOD
  <2>1. CASE n = N + 1
    <3>1. b = IF n = 1 THEN s.bytecnt ELSE w2[q[n - 1]].bytes
      <4>1. CASE p = <<>>
        BY <1>2, <1>4, <2>1, <4>1 DEF NumberedAt
      <4>2. CASE p # <<>>
        <5>1. N \in 1 .. N /\ n - 1 = N /\ n # 1
          BY <1>1, <1>3, <2>1, <4>2
        <5>2. b = w2[p[N]].bytes
          BY <1>2, <1>3, <4>2 DEF NumberedAt
        <5>. QED
          BY <1>1, <5>1, <5>2
      <4>. QED
        BY <4>1, <4>2
    <3>. QED
      BY <1>1, <2>1, <3>1
  <2>2. CASE n # N + 1
    <3>1. n \in 1 .. N /\ (n # 1 => n - 1 \in 1 .. N)
      BY <1>1, <2>2
    <3>2. q[n] = p[n] /\ (n # 1 => q[n - 1] = p[n - 1])
      BY <1>1, <3>1
    <3>. QED
      BY <1>2, <3>1, <3>2 DEF NumberedAt, N
  <2>. QED
    BY <2>1, <2>2
<1>8. NumberedAt(q, w2, l2, s, w2[k].pkts, w2[k].bytes)
  BY <1>1, <1>5, <1>6, <1>7 DEF NumberedAt
<1>. QED
  BY <1>8 DEF q

(* The first frame leaves with the number that comes next.                 *)
LEMMA NumbersLeave ==
    ASSUME NEW p \in Seq(Kworks), p # <<>>,
           NEW w, NEW l, NEW s, NEW c, NEW b, NEW w2, NEW l2, NEW s2,
           s.pktid \in Nat,
           NumberedAt(p, w, l, s, c, b), Kept(Tail(p), w, l, w2, l2),
           s2.pktid = w[p[1]].pkts, s2.bytecnt = w[p[1]].bytes
    PROVE  NumberedAt(Tail(p), w2, l2, s2, c, b)
<1>. DEFINE q == Tail(p)
            N == Len(p)
<1>1. /\ N \in Nat \ {0} /\ q \in Seq(Kworks) /\ Len(q) = N - 1
      /\ \A n \in 1 .. N - 1 : q[n] = p[n + 1]
  BY TailMembers
<1>2. /\ q = <<>> => N = 1
      /\ q # <<>> => N - 1 \in 1 .. N - 1 /\ Last(q) = q[N - 1]
  <2>. HIDE DEF N, q
  <2>1. N \in Nat \ {0} /\ q \in Seq(Kworks) /\ Len(q) = N - 1
    BY <1>1
  <2>2. q = <<>> <=> Len(q) = 0
    BY <2>1, EmptySeq
  <2>. QED
    BY <2>1, <2>2 DEF Last
<1>3. Last(p) = p[N]
  BY DEF Last
<1>. HIDE DEF q, N
<1>4. s2.pktid = (s.pktid + 1) % CTR_MOD
  BY <1>1 DEF NumberedAt, N
<1>5. ASSUME NEW n \in Nat PROVE (s2.pktid + n) % CTR_MOD = (s.pktid + (n + 1)) % CTR_MOD
  <2>1. s.pktid + 1 \in Nat /\ (s.pktid + 1) + n = s.pktid + (n + 1)
    OBVIOUS
  <2>2. (((s.pktid + 1) % CTR_MOD) + n) % CTR_MOD = ((s.pktid + 1) + n) % CTR_MOD
    BY <2>1, PlusMod, ConstantFacts
  <2>. QED
    BY <1>4, <2>1, <2>2
<1>6. NumberedAt(q, w, l, s2, c, b)
  <2>1. \A n \in 1 .. N - 1 : w[q[n]].pkts = (s2.pktid + n) % CTR_MOD
    <3>. TAKE n \in 1 .. N - 1
    <3>1. n \in Nat /\ n + 1 \in 1 .. N /\ q[n] = p[n + 1]
      BY <1>1
    <3>2. w[p[n + 1]].pkts = (s.pktid + (n + 1)) % CTR_MOD
      BY <3>1 DEF NumberedAt, N
    <3>. QED
      BY <1>5, <3>1, <3>2
  <2>2. c = (s2.pktid + Len(q)) % CTR_MOD
    <3>1. N - 1 \in Nat /\ (N - 1) + 1 = N
      BY <1>1
    <3>2. c = (s.pktid + N) % CTR_MOD
      BY DEF NumberedAt, N
    <3>. QED
      BY <1>1, <1>5, <3>1, <3>2
  <2>3. b = w[p[N]].bytes
    BY <1>3 DEF NumberedAt
  <2>4. b = IF q = <<>> THEN s2.bytecnt ELSE w[Last(q)].bytes
    <3>1. CASE q = <<>>
      BY <1>2, <2>3, <3>1
    <3>2. CASE q # <<>>
      <4>1. q[N - 1] = p[(N - 1) + 1] /\ (N - 1) + 1 = N
        BY <1>1, <1>2, <3>2
      <4>. QED
        BY <1>2, <2>3, <3>2, <4>1
    <3>. QED
      BY <3>1, <3>2
  <2>5. ASSUME NEW n \in 1 .. N - 1
        PROVE  LET before == IF n = 1 THEN s2.bytecnt ELSE w[q[n - 1]].bytes
               IN  w[q[n]].bytes = (before + l[w[q[n]].skb]) % CTR_MOD
    <3>1. n + 1 \in 1 .. N /\ n + 1 # 1 /\ (n + 1) - 1 = n /\ q[n] = p[n + 1]
      BY <1>1
    <3>2. w[p[n + 1]].bytes = (w[p[n]].bytes + l[w[p[n + 1]].skb]) % CTR_MOD
      <4>1. LET before == IF n + 1 = 1 THEN s.bytecnt ELSE w[p[(n + 1) - 1]].bytes
            IN  w[p[n + 1]].bytes = (before + l[w[p[n + 1]].skb]) % CTR_MOD
        BY <3>1 DEF NumberedAt, N
      <4>. QED
        BY <3>1, <4>1
    <3>3. w[p[n]].bytes = IF n = 1 THEN s2.bytecnt ELSE w[q[n - 1]].bytes
      <4>1. CASE n = 1
        BY <4>1
      <4>2. CASE n # 1
        <5>1. n - 1 \in 1 .. N - 1 /\ (n - 1) + 1 = n
          BY <1>1, <4>2
        <5>2. q[n - 1] = p[n]
          BY <1>1, <5>1
        <5>. QED
          BY <4>2, <5>2
      <4>. QED
        BY <4>1, <4>2
    <3>. QED
      BY <3>1, <3>2, <3>3
  <2>. QED
    BY <1>1, <2>1, <2>2, <2>4, <2>5 DEF NumberedAt
<1>7. NumberedAt(q, w2, l2, s2, c, b)
  BY <1>1, <1>6, NumbersKept DEF q
<1>. QED
  BY <1>7 DEF q

(* What a step does to the works that wait at a device, and its counters:  *)
(* nothing, but when a frame arrives, when one leaves or its thread dies   *)
(* and when the device is made or freed.                                   *)
LEMMA PendingStep ==
    ASSUME WorkTypes, CtrType, SentType, LocalsOK, [Next]_vars,
           NEW d \in Devs, ~ WorkerForward(d), ~ WorkerOops(d),
           \A i \in Irqs : ~ (RecvQueue(i) /\ idev[i] = d),
           \A w \in Writers : ~ Create(w, d) /\ ~ (Join(w) /\ wdev[w] = d)
    PROVE  /\ d \in alive' => d \in alive
           /\ kpc'[d] # "dead" => kpc[d] # "dead"
           /\ Pending(d)' = Pending(d)
           /\ sent'[d] = sent[d] /\ pkts'[d] = pkts[d] /\ bytes'[d] = bytes[d]
<1>. USE DEF LocalsOK
<1>. DEFINE Same == Pending(d)' = Pending(d)
            Stays == /\ alive' \ alive \subseteq Devs \ {d}
                     /\ kpc'[d] # "dead" => kpc[d] # "dead"
                     /\ sent'[d] = sent[d] /\ pkts'[d] = pkts[d] /\ bytes'[d] = bytes[d]
<1>0. Stays => (d \in alive' => d \in alive)
  OBVIOUS
<1>1. ASSUME UNCHANGED <<queue, cur, sent, pkts, bytes, alive>>,
             kpc'[d] = "work" <=> kpc[d] = "work", kpc'[d] # "dead" => kpc[d] # "dead"
      PROVE  Stays /\ Same
  BY <1>1 DEF Pending
<1>2. ASSUME NEW i \in Irqs, RecvQueue(i) PROVE Stays /\ Same
  <2>1. idev[i] \in Devs /\ idev[i] # d /\ UNCHANGED <<cur, kpc>>
        /\ queue' = [queue EXCEPT ![idev[i]] = Append(queue[idev[i]], iwrk[i])]
    BY <1>2, QueueMoves
  <2>2. queue'[d] = queue[d]
    BY <2>1 DEF WorkTypes, ThrType
  <2>3. Pending(d)' = Pending(d)
    BY <2>1, <2>2 DEF Pending
  <2>4. sent' = sent /\ alive' = alive
    BY <1>2 DEF RecvQueue, listVars
  <2>5. pkts'[d] = pkts[d] /\ bytes'[d] = bytes[d]
    BY <1>2, <2>1 DEF RecvQueue, Enqueue
  <2>. QED
    BY <2>1, <2>3, <2>4, <2>5
<1>3. ASSUME NEW e \in Devs, WorkerTake(e) PROVE Stays /\ Same
  <2>1. /\ queue[e] # <<>>
        /\ cur' = [cur EXCEPT ![e] = Head(queue[e])]
        /\ queue' = [queue EXCEPT ![e] = Tail(queue[e])]
        /\ kpc' = [kpc EXCEPT ![e] = "work"]
    BY <1>3, TakeMoves
  <2>2. /\ UNCHANGED <<sent, pkts, bytes, alive>> /\ kpc[e] = "take"
    BY <1>3 DEF WorkerTake, listVars, ctrVars
  <2>3. CASE e # d
    <3>1. kpc'[d] = kpc[d] /\ cur'[d] = cur[d] /\ queue'[d] = queue[d]
      BY <2>1, <2>3 DEF WorkTypes, ThrType
    <3>. QED
      BY <2>2, <3>1 DEF Pending
  <2>4. CASE e = d
    <3>1. kpc'[d] = "work" /\ cur'[d] = Head(queue[d]) /\ queue'[d] = Tail(queue[d])
      BY <2>1, <2>4 DEF WorkTypes, ThrType
    <3>. DEFINE q == queue[d]
    <3>2. q \in Seq(Kworks) /\ q # <<>>
      BY <2>1, <2>4 DEF WorkTypes, ThrType
    <3>3. q = <<Head(q)>> \o Tail(q)
      BY <3>2, HeadTail
    <3>4. Pending(d)' = <<Head(q)>> \o Tail(q)
      BY <3>1 DEF Pending
    <3>5. Pending(d) = q
      BY <2>2, <2>4, PendingMembers DEF WorkTypes
    <3>. QED
      BY <2>2, <2>4, <3>3, <3>4, <3>5
  <2>. QED
    BY <2>3, <2>4
<1>4. ASSUME NEW e \in Devs, WorkerForward(e) PROVE Stays /\ Same
  <2>1. /\ e # d /\ UNCHANGED <<queue, cur, pkts, bytes, alive>>
        /\ kpc'[d] = kpc[d] /\ sent'[d] = sent[d]
    BY <1>4 DEF WorkerForward, WorkTypes, ThrType, SentType, ctrVars, listVars
  <2>. QED
    BY <2>1 DEF Pending
<1>5. ASSUME NEW e \in Devs, WorkerCheck(e) \/ WorkerLock(e) \/ (e # d /\ WorkerOops(e))
      PROVE  Stays /\ Same
  <2>1. UNCHANGED <<queue, cur, sent, pkts, bytes, alive>>
    BY <1>5 DEF WorkerCheck, WorkerLock, WorkerOops, ctrVars, listVars
  <2>2. kpc'[d] = "work" <=> kpc[d] = "work"
    BY <1>5 DEF WorkerCheck, WorkerLock, WorkerOops, WorkTypes, ThrType
  <2>3. kpc'[d] # "dead" => kpc[d] # "dead"
    BY <1>5 DEF WorkerCheck, WorkerLock, WorkerOops, WorkTypes, ThrType
  <2>. QED
    BY <1>1, <2>1, <2>2, <2>3
<1>6. ASSUME NEW e \in Devs, WorkerFree(e) PROVE Stays /\ Same
  <2>1. /\ cur' = [cur EXCEPT ![e] = NULL]
        /\ kpc' = [kpc EXCEPT ![e] = "idle"]
        /\ queue' = queue
    BY <1>6, FreeMoves
  <2>2. UNCHANGED <<sent, pkts, bytes, alive>> /\ kpc[e] = "free"
    BY <1>6 DEF WorkerFree, ctrVars, listVars
  <2>3. CASE e = d
    <3>1. kpc'[d] = "idle"
      BY <2>1, <2>3 DEF WorkTypes, ThrType
    <3>. QED
      BY <2>1, <2>2, <2>3, <3>1 DEF Pending
  <2>4. CASE e # d
    <3>1. kpc'[d] = kpc[d] /\ cur'[d] = cur[d] /\ queue'[d] = queue[d]
      BY <2>1, <2>4 DEF WorkTypes, ThrType
    <3>2. Pending(d)' = Pending(d)
      BY <3>1 DEF Pending
    <3>. QED
      BY <2>2, <3>1, <3>2
  <2>. QED
    BY <2>3, <2>4
<1>7. ASSUME NEW w \in Writers, Join(w) PROVE Stays /\ Same
  <2>1. /\ wdev[w] \in Devs
        /\ queue' = [queue EXCEPT ![wdev[w]] = <<>>]
        /\ cur' = [cur EXCEPT ![wdev[w]] = NULL]
        /\ kpc' = [kpc EXCEPT ![wdev[w]] = "idle"]
    BY <1>7, JoinMoves DEF WorkTypes
  <2>2. /\ alive' = alive \ {wdev[w]}
        /\ pkts' = [pkts EXCEPT ![wdev[w]] = 0]
        /\ bytes' = [bytes EXCEPT ![wdev[w]] = 0]
        /\ sent' = [sent EXCEPT ![wdev[w]] = NoHeader]
    BY <1>7 DEF Join, FreeDev, ClearDev
  <2>3. wdev[w] # d
    BY <1>7
  <2>4. kpc'[d] = kpc[d] /\ cur'[d] = cur[d] /\ queue'[d] = queue[d]
    BY <2>1, <2>3 DEF WorkTypes, ThrType
  <2>. QED
    BY <2>2, <2>3, <2>4 DEF Pending, CtrType, SentType
<1>8. ASSUME NEW w \in Writers, NEW e \in Devs, Create(w, e)
      PROVE  Stays /\ Same
  <2>1. /\ e # d /\ UNCHANGED <<queue, cur>>
        /\ alive' = alive \cup {e}
        /\ pkts' = [pkts EXCEPT ![e] = 0]
        /\ bytes' = [bytes EXCEPT ![e] = 0]
        /\ sent' = [sent EXCEPT ![e] = NoHeader]
        /\ kpc' = [kpc EXCEPT ![e] = "idle"]
    BY <1>8 DEF Create, ClearDev
  <2>2. kpc'[d] = kpc[d]
    BY <2>1 DEF WorkTypes, ThrType
  <2>3. Pending(d)' = Pending(d)
    BY <2>1, <2>2 DEF Pending
  <2>. QED
    BY <2>1, <2>2, <2>3 DEF CtrType, SentType
<1>9. CASE UNCHANGED <<queue, cur, kpc, sent, pkts, bytes, alive>>
  BY <1>1, <1>9
<1>10. ASSUME NEW i \in Irqs, IrqNext(i) PROVE Stays /\ Same
  BY <1>2, <1>9, <1>10 DEF IrqNext, thrVars, listVars, ctrVars, Deliver, RecvFind,
     RecvNoDevice, RecvAlloc, RecvDrop
<1>11. ASSUME NEW e \in Devs, WorkerNext(e) PROVE Stays /\ Same
  BY <1>3, <1>4, <1>5, <1>6, <1>9, <1>11 DEF WorkerNext, listVars, ctrVars, WorkerExit
<1>12. ASSUME NEW w \in Writers, WriterNext(w) PROVE Stays /\ Same
  BY <1>7, <1>8, <1>9, <1>12 DEF WriterNext, thrVars, listVars, ctrVars, Start, Lock,
     Show, Unregister, ScanEnd, Delete, AddFail, AddLock, AddTail, AddPack
<1>13. ASSUME Next PROVE Stays /\ Same
  BY <1>10, <1>11, <1>12, <1>13 DEF Next
<1>14. Stays /\ Same
  BY <1>9, <1>13 DEF vars, thrVars, listVars, ctrVars
<1>. QED
  BY <1>0, <1>14 DEF Stays, Same

(* The work that another thread runs does not wait here, nor does the work *)
(* that a thread runs wait behind itself.                                  *)
LEMMA PendingApart ==
    ASSUME ThrType, ThrLocals, OnePlace, NEW d \in Devs, NEW e \in Devs, kpc[e] = "work",
           NEW n \in 1 .. Len(Pending(d)), d # e \/ n # 1
    PROVE  Pending(d)[n] # cur[e]
<1>. DEFINE q == queue[d]
<1>1. q \in Seq(Kworks) /\ Len(q) \in Nat /\ \A m \in 1 .. Len(q) : q[m] \in ToSet(q)
  BY QueueMembers DEF ThrType
<1>2. cur[e] # NULL /\ cur[e] \notin ToSet(q)
  BY Apart DEF ThrLocals
<1>3. CASE kpc[d] # "work"
  <2>1. Pending(d) = q
    BY <1>3, PendingMembers
  <2>. QED
    BY <1>1, <1>2, <2>1
<1>4. CASE kpc[d] = "work"
  <2>1. /\ Len(Pending(d)) = Len(q) + 1 /\ Pending(d)[1] = cur[d]
        /\ \A m \in 1 .. Len(q) : Pending(d)[m + 1] = q[m]
    BY <1>4, PendingMembers
  <2>2. d # e => cur[d] # cur[e]
    BY <1>2, Apart
  <2>3. CASE n = 1
    BY <2>1, <2>2, <2>3
  <2>4. CASE n # 1
    <3>. HIDE DEF q
    <3>1. n - 1 \in 1 .. Len(q) /\ n = (n - 1) + 1
      BY <1>1, <2>1, <2>4
    <3>2. Pending(d)[n] = q[n - 1]
      BY <2>1, <3>1
    <3>. QED
      BY <1>1, <1>2, <3>1, <3>2
  <2>. QED
    BY <2>3, <2>4
<1>. QED
  BY <1>3, <1>4

(* The numbers stay consecutive whatever the step does to the queue.       *)
LEMMA NumberStep ==
    ASSUME WorkTypes, ListType, CtrType, SentType, SkbType, LocalsOK, ThreadOK, OnePlace,
           CarriesOK, FrameInv, NumberInv, [Next]_vars
    PROVE  NumberInv'
<1>. USE DEF LocalsOK
<1>. DEFINE At(d) == NumberedAt(Pending(d), wrk, skblen, sent[d], pkts[d], bytes[d])
<1>1. \A d \in alive : kpc[d] # "dead" => At(d)
  BY DEF NumberInv, QueueNumbered, BytesNumbered, NumberedAt
<1>2. \A d \in Devs : Pending(d) \in Seq(Kworks)
  BY PendingMembers DEF WorkTypes
<1>3. \A d \in Devs : sent[d].pktid \in Nat
  BY ConstantFacts DEF SentType, Counter
<1>. SUFFICES ASSUME NEW d \in Devs, d \in alive', kpc'[d] # "dead" PROVE At(d)'
  <2>1. alive' \subseteq Devs
    <3>1. ListType'
      BY ListTypeStep DEF WorkTypes
    <3>. QED
      BY <3>1 DEF ListType
  <2>. QED
    BY <2>1 DEF NumberInv, QueueNumbered, BytesNumbered, NumberedAt
<1>4. ASSUME NEW i \in Irqs, RecvQueue(i), idev[i] = d PROVE At(d)'
  <2>. DEFINE k == iwrk[i]
              p == Pending(d)
              f == iskb[i]
  <2>1. /\ k \in Kworks /\ f \in Frames
        /\ queue' = [queue EXCEPT ![d] = Append(queue[d], k)]
        /\ UNCHANGED <<cur, kpc>>
        /\ \A l \in Kworks : l # k => wrk'[l] = wrk[l]
    BY <1>4, QueueMoves
  <2>2. /\ pkts' = [pkts EXCEPT ![d] = AddCtr(pkts[d], 1)]
        /\ bytes' = [bytes EXCEPT ![d] = AddCtr(bytes[d], skblen[f])]
        /\ wrk' = [wrk EXCEPT ![k] = Stamp(d, f)]
        /\ sent' = sent /\ alive' = alive /\ skblen' = skblen
    BY <1>4 DEF RecvQueue, Enqueue, listVars
  <2>3. Pending(d)' = Append(p, k)
    <3>. DEFINE c == IF kpc[d] = "work" THEN <<cur[d]>> ELSE <<>>
    <3>1. c \in Seq(Kworks) /\ queue[d] \in Seq(Kworks)
      BY DEF WorkTypes, ThrType, ThrLocals
    <3>2. p = c \o queue[d]
      BY DEF Pending
    <3>3. Pending(d)' = c \o queue'[d] /\ queue'[d] = Append(queue[d], k)
      BY <2>1 DEF Pending, WorkTypes, ThrType
    <3>. HIDE DEF c, p
    <3>4. c \o Append(queue[d], k) = Append(c \o queue[d], k)
      BY SMTT(40), <2>1, <3>1, ConcatAppend
    <3>. QED
      BY <3>2, <3>3, <3>4
  <2>4. \A n \in 1 .. Len(p) : p[n] # k /\ p[n] \in Kworks
    <3>1. ~ InUse(k)
      BY <2>1, NotInUse, NullFacts
    <3>. QED
      BY <3>1, PendingInUse DEF WorkTypes
  <2>5. Kept(p, wrk, skblen, wrk', skblen')
    BY <2>1, <2>2, <2>4 DEF Kept
  <2>6. /\ wrk'[k].pkts = (pkts[d] + 1) % CTR_MOD
        /\ wrk'[k].bytes = (bytes[d] + skblen'[wrk'[k].skb]) % CTR_MOD
        /\ pkts'[d] = wrk'[k].pkts /\ bytes'[d] = wrk'[k].bytes
    BY <2>1, <2>2 DEF Stamp, AddCtr, CtrType, WorkTypes, WrkType
  <2>7. At(d)
    BY <1>1, <2>1, <2>2
  <2>8. p \in Seq(Kworks)
    BY <1>2
  <2>. HIDE DEF p, k
  <2>9. NumberedAt(Append(p, k), wrk', skblen', sent[d], wrk'[k].pkts, wrk'[k].bytes)
    BY <1>3, <2>1, <2>5, <2>6, <2>7, <2>8, NumbersArrive DEF p
  <2>. QED
    BY <2>2, <2>3, <2>6, <2>9
<1>5. ASSUME WorkerForward(d) PROVE At(d)'
  <2>. DEFINE p == Pending(d)
              k == cur[d]
  <2>1. /\ k \in Kworks /\ kpc[d] = "work"
        /\ kpc' = [kpc EXCEPT ![d] = "lock"]
        /\ UNCHANGED <<queue, cur, wrk>>
    BY <1>5, ForwardFrees DEF WorkerForward
  <2>2. /\ sent' = [sent EXCEPT ![d] = Header(k)]
        /\ UNCHANGED <<pkts, bytes, alive>>
    BY <1>5 DEF WorkerForward, ctrVars, listVars
  <2>3. p = <<k>> \o queue[d] /\ queue[d] \in Seq(Kworks)
    BY <2>1 DEF Pending, WorkTypes, ThrType
  <2>4. Pending(d)' = queue[d]
    <3>1. kpc'[d] = "lock" /\ queue'[d] = queue[d]
      BY <2>1 DEF WorkTypes, ThrType
    <3>2. Pending(d)' = <<>> \o queue[d]
      BY <3>1 DEF Pending
    <3>. QED
      BY <2>3, <3>2, ConcatEmptySeq
  <2>. HIDE DEF p
  <2>5. p \in Seq(Kworks) /\ p # <<>> /\ p[1] = k /\ Tail(p) = queue[d]
    BY <2>1, <2>3, ConsTail
  <2>6. \A n \in 1 .. Len(p) : n # 1 =>
            wrk'[p[n]] = wrk[p[n]] /\ skblen'[wrk[p[n]].skb] = skblen[wrk[p[n]].skb]
    <3>. SUFFICES ASSUME NEW n \in 1 .. Len(p), n # 1
                  PROVE  /\ wrk'[p[n]] = wrk[p[n]]
                         /\ skblen'[wrk[p[n]].skb] = skblen[wrk[p[n]].skb]
      OBVIOUS
    <3>1. InUse(p[n]) /\ p[n] \in Kworks
      BY PendingInUse DEF WorkTypes, p
    <3>2. \A e \in Devs : WorkerForward(e) => p[n] # cur[e]
      <4>. SUFFICES ASSUME NEW e \in Devs, WorkerForward(e) PROVE p[n] # cur[e]
        OBVIOUS
      <4>1. kpc[e] = "work"
        BY DEF WorkerForward
      <4>. QED
        BY <4>1, PendingApart DEF WorkTypes, p
    <3>. QED
      BY <3>1, <3>2, KeptInUse
  <2>7. Kept(Tail(p), wrk, skblen, wrk', skblen')
    <3>1. /\ Len(p) \in Nat /\ Len(Tail(p)) = Len(p) - 1
          /\ \A n \in 1 .. Len(p) - 1 : Tail(p)[n] = p[n + 1]
      BY <2>5, TailMembers
    <3>. SUFFICES ASSUME NEW n \in 1 .. Len(p) - 1
                  PROVE  /\ wrk'[Tail(p)[n]] = wrk[Tail(p)[n]]
                         /\ skblen'[wrk[Tail(p)[n]].skb] = skblen[wrk[Tail(p)[n]].skb]
      BY <3>1 DEF Kept
    <3>2. n + 1 \in 1 .. Len(p) /\ n + 1 # 1 /\ Tail(p)[n] = p[n + 1]
      BY <3>1
    <3>. QED
      BY <2>6, <3>2
  <2>8. sent'[d].pktid = wrk[p[1]].pkts /\ sent'[d].bytecnt = wrk[p[1]].bytes
    BY <2>2, <2>5 DEF Header, SentType
  <2>9. At(d)
    BY <1>1, <2>1, <2>2
  <2>10. NumberedAt(Tail(p), wrk', skblen', sent'[d], pkts[d], bytes[d])
    BY <1>3, <2>5, <2>7, <2>8, <2>9, NumbersLeave DEF p
  <2>. QED
    BY <2>2, <2>4, <2>5, <2>10
<1>6. ASSUME NEW w \in Writers, Create(w, d) PROVE At(d)'
  <2>1. /\ d \notin alive
        /\ pkts' = [pkts EXCEPT ![d] = 0]
        /\ bytes' = [bytes EXCEPT ![d] = 0]
        /\ sent' = [sent EXCEPT ![d] = NoHeader]
        /\ kpc' = [kpc EXCEPT ![d] = "idle"]
        /\ queue' = queue
    BY <1>6 DEF Create, ClearDev
  <2>2. queue[d] = <<>> /\ kpc'[d] = "idle"
    BY <2>1 DEF ThreadOK, WorkTypes, ThrType
  <2>3. Pending(d)' = <<>>
    BY <2>1, <2>2 DEF Pending
  <2>4. pkts'[d] = 0 /\ bytes'[d] = 0 /\ sent'[d] = NoHeader
    BY <2>1 DEF CtrType, SentType
  <2>5. Len(<<>>) = 0 /\ 1 .. 0 = {} /\ 0 = (0 + 0) % CTR_MOD
    BY ConstantFacts
  <2>6. NumberedAt(<<>>, wrk', skblen', NoHeader, 0, 0)
    BY <2>5 DEF NumberedAt, NoHeader
  <2>. QED
    BY <2>3, <2>4, <2>6
<1>7. ASSUME ~ WorkerForward(d),
             \A i \in Irqs : ~ (RecvQueue(i) /\ idev[i] = d),
             \A w \in Writers : ~ Create(w, d)
      PROVE  At(d)'
  <2>. DEFINE p == Pending(d)
  <2>0. ~ WorkerOops(d) /\ \A w \in Writers : ~ (Join(w) /\ wdev[w] = d)
    BY DEF WorkerOops, Join, FreeDev, WorkTypes, ThrType
  <2>1. /\ d \in alive /\ kpc[d] # "dead" /\ Pending(d)' = p
        /\ sent'[d] = sent[d] /\ pkts'[d] = pkts[d] /\ bytes'[d] = bytes[d]
    BY <1>7, <2>0, PendingStep
  <2>2. At(d)
    BY <1>1, <2>1
  <2>3. Kept(p, wrk, skblen, wrk', skblen')
    <3>. SUFFICES ASSUME NEW n \in 1 .. Len(p)
                  PROVE  /\ wrk'[p[n]] = wrk[p[n]]
                         /\ skblen'[wrk[p[n]].skb] = skblen[wrk[p[n]].skb]
      BY DEF Kept
    <3>1. InUse(p[n]) /\ p[n] \in Kworks
      BY PendingInUse DEF WorkTypes
    <3>2. \A e \in Devs : WorkerForward(e) => p[n] # cur[e]
      <4>. SUFFICES ASSUME NEW e \in Devs, WorkerForward(e) PROVE p[n] # cur[e]
        OBVIOUS
      <4>1. kpc[e] = "work" /\ e # d
        BY <1>7 DEF WorkerForward
      <4>. QED
        BY <4>1, PendingApart DEF WorkTypes
    <3>. HIDE DEF p
    <3>. QED
      BY <3>1, <3>2, KeptInUse
  <2>4. p \in Seq(Kworks)
    BY <1>2
  <2>. HIDE DEF p
  <2>5. NumberedAt(p, wrk', skblen', sent[d], pkts[d], bytes[d])
    BY <2>2, <2>3, <2>4, NumbersKept DEF p
  <2>. QED
    BY <2>1, <2>5
<1>. HIDE DEF At
<1>. QED
  BY <1>4, <1>5, <1>6, <1>7

LEMMA NumberInvariant == Spec => [](IInv /\ FrameInv /\ NumberInv)
<1>1. Init => FrameInv
  BY NullFacts DEF Init, FrameInv, FrameOwned, HandlersOwn, InUse, ToSet
<1>2. IInv /\ FrameInv /\ [Next]_vars => FrameInv'
  BY FrameStep DEF IInv, TypeOK, WorkTypes
<1>3. Init => NumberInv
  BY DEF Init, NumberInv, QueueNumbered, BytesNumbered
<1>4. IInv /\ FrameInv /\ NumberInv /\ [Next]_vars => NumberInv'
  BY NumberStep DEF IInv, TypeOK, WorkTypes
<1>. QED
  BY <1>1, <1>2, <1>3, <1>4, DeviceInvariant, PTL DEF Spec

(* QueueNumbered: the works that wait at a device carry the numbers that   *)
(* follow its last header, up to its counter, whatever CTR_MOD is.         *)
THEOREM QueuesNumbered == Spec => []QueueNumbered
<1>1. NumberInv => QueueNumbered
  BY DEF NumberInv
<1>. QED
  BY <1>1, NumberInvariant, PTL

(* A device forwards one header at a time: the next one.                   *)
LEMMA HeaderStep ==
    ASSUME IInv, NumberInv, Next, NEW d \in Devs, sent'[d] # sent[d], sent'[d] # NoHeader
    PROVE  /\ sent'[d].pktid = (sent[d].pktid + 1) % CTR_MOD
           /\ sent'[d].bytecnt = (sent[d].bytecnt + sent'[d].len - HDRLEN) % CTR_MOD
<1>1. WorkTypes /\ SentType /\ SkbType /\ LocalsOK /\ ThreadOK /\ CarriesOK
  BY DEF IInv, TypeOK, WorkTypes
<1>2. WorkerForward(d)
  <2>1. ASSUME NEW e \in Devs, WorkerForward(e) PROVE e = d
    BY <1>1, <2>1 DEF WorkerForward, SentType
  <2>2. \A w \in Writers : ~ Join(w)
    BY <1>1 DEF Join, FreeDev, ClearDev, SentType
  <2>3. \A w \in Writers, e \in Devs : ~ Create(w, e)
    BY <1>1 DEF Create, ClearDev, SentType
  <2>. QED
    BY <2>1, <2>2, <2>3 DEF Next, IrqNext, WorkerNext, WriterNext, thrVars, Deliver,
       RecvFind, RecvNoDevice, RecvAlloc, RecvQueue, RecvDrop, WorkerCheck, WorkerExit,
       WorkerTake, WorkerOops, WorkerLock, WorkerFree, Start, Lock, Show, Unregister,
       ScanEnd, Delete, AddFail, AddLock, AddTail, AddPack
<1>. DEFINE k == cur[d]
<1>3. /\ k \in Kworks /\ wrk[k].skb \in Frames /\ kpc[d] = "work"
      /\ sent'[d] = Header(k)
  BY <1>1, <1>2, ForwardFrees DEF WorkerForward, SentType, IInv
<1>4. d \in alive
  BY <1>1, <1>3 DEF ThreadOK
<1>5. Pending(d)[1] = k /\ 1 \in 1 .. Len(Pending(d))
  <2>1. Len(queue[d]) \in Nat
    BY <1>1 DEF WorkTypes, ThrType
  <2>2. Len(Pending(d)) = Len(queue[d]) + 1 /\ Pending(d)[1] = k
    BY <1>1, <1>3, PendingMembers DEF WorkTypes, LocalsOK
  <2>. QED
    BY <2>1, <2>2
<1>6. wrk[k].pkts = (sent[d].pktid + 1) % CTR_MOD
  BY <1>3, <1>4, <1>5 DEF NumberInv, QueueNumbered
<1>7. wrk[k].bytes = (sent[d].bytecnt + skblen[wrk[k].skb]) % CTR_MOD
  BY <1>3, <1>4, <1>5 DEF NumberInv, BytesNumbered
<1>8. skblen[wrk[k].skb] \in Nat /\ sent[d].bytecnt \in Nat
  BY <1>1, <1>3, SkbLenNat, ConstantFacts DEF SentType, Counter
<1>9. sent'[d].len = skblen[wrk[k].skb] + HDRLEN /\ HDRLEN \in Nat
  BY <1>3 DEF Header, HDRLEN
<1>10. sent[d].bytecnt + sent'[d].len - HDRLEN = sent[d].bytecnt + skblen[wrk[k].skb]
  BY <1>8, <1>9
<1>. QED
  BY <1>3, <1>6, <1>7, <1>10 DEF Header

(* HeadersConsecutive: no header of a device skips, repeats or overtakes a *)
(* packet, and its byte count grows by the length of the frame behind it.  *)
THEOREM HeadersInOrder == Spec => HeadersConsecutive
<1>. DEFINE A == \A d \in Devs : sent'[d] # sent[d] /\ sent'[d] # NoHeader =>
                     /\ sent'[d].pktid = (sent[d].pktid + 1) % CTR_MOD
                     /\ sent'[d].bytecnt
                            = (sent[d].bytecnt + sent'[d].len - HDRLEN) % CTR_MOD
<1>1. IInv /\ FrameInv /\ NumberInv /\ [Next]_vars => [A]_vars
  BY HeaderStep
<1>2. Spec => [][A]_vars
  BY <1>1, NumberInvariant, PTL DEF Spec
<1>. QED
  BY <1>2 DEF HeadersConsecutive

----------------------------------------------------------------------------
(* The frames that nobody frees *)

(* A handler that has returned holds no frame.                             *)
IdleHandlers == \A i \in Irqs : ipc[i] = "idle" => iskb[i] = NULL

LEMMA IdleStep ==
    ASSUME IInv, IdleHandlers, [Next]_vars
    PROVE  IdleHandlers'
<1>1. IrqType
  BY DEF IInv, TypeOK
<1>2. ASSUME NEW i \in Irqs, Return(i), UNCHANGED <<wrVars>> PROVE IdleHandlers'
  BY <1>1, <1>2 DEF Return, IdleHandlers, IrqType
<1>3. ASSUME NEW i \in Irqs, NEW d \in ptypes, NEW f \in Frames, NEW n \in Lens,
             NEW t \in Interruptible \cup {NULL}, Deliver(i, d, f, n, t)
      PROVE  IdleHandlers'
  BY <1>1, <1>3 DEF Deliver, IdleHandlers, IrqType
<1>4. ASSUME NEW i \in Irqs, RecvFind(i) \/ RecvAlloc(i) PROVE IdleHandlers'
  BY <1>1, <1>4 DEF RecvFind, RecvAlloc, IdleHandlers, IrqType
<1>5. CASE UNCHANGED <<ipc, iskb>>
  BY <1>5 DEF IdleHandlers
<1>. QED
  BY <1>2, <1>3, <1>4, <1>5 DEF Next, vars, IrqNext, WorkerNext, WriterNext, RecvNoDevice,
     RecvQueue, RecvDrop, irqVars, WorkerCheck, WorkerExit, WorkerTake, WorkerForward,
     WorkerOops, WorkerLock, WorkerFree, Start, Lock, Show, Unregister, ScanEnd, Delete,
     Join, AddFail, Create, AddLock, AddTail, AddPack

(* The members of Leaked, one by one.                                      *)
Leak(f) ==
    /\ skblen[f] # 0
    /\ \A i \in Irqs : iskb[i] # f
    /\ \A k \in Kworks : InUse(k) => wrk[k].skb # f

(* A handler returns without queueing the frame, a thread oopses with it,  *)
(* or a device is freed on whose list it waits.                            *)
Drops(i, f) == RecvDrop(i) /\ iskb[i] = f
Misses(i, f) == RecvNoDevice(i) /\ iskb[i] = f
Oopses(d, f) == WorkerOops(d) /\ wrk[cur[d]].skb = f
Discards(w, f) == Join(w) /\ \E k \in ToSet(queue[wdev[w]]) : wrk[k].skb = f

LosesFrame(f) ==
    \/ \E i \in Irqs : Drops(i, f) \/ Misses(i, f)
    \/ \E d \in Devs : Oopses(d, f)
    \/ \E w \in Writers : Discards(w, f)

(* A work leaves use when it is forwarded, at an oops, or with its device. *)
LEMMA UseEnds ==
    ASSUME WorkTypes, LocalsOK, ThreadOK, OnePlace, QueueOK, [Next]_vars,
           NEW k \in Kworks, InUse(k)
    PROVE  \/ InUse(k)'
           \/ \E d \in Devs : (WorkerForward(d) \/ WorkerOops(d)) /\ k = cur[d]
           \/ \E w \in Writers : Join(w) /\ k \in ToSet(queue[wdev[w]])
<1>. USE DEF LocalsOK
<1>0. PICK e \in Devs : k \in ToSet(queue[e]) \/ (cur[e] = k /\ kpc[e] = "work")
  BY DEF InUse
<1>1. ASSUME NEW i \in Irqs, RecvQueue(i) PROVE InUse(k)'
  <2>. DEFINE d == idev[i]
  <2>1. /\ d \in Devs /\ iwrk[i] \in Kworks
        /\ queue' = [queue EXCEPT ![d] = Append(queue[d], iwrk[i])]
        /\ UNCHANGED <<cur, kpc>>
    BY <1>1, QueueMoves
  <2>2. ToSet(Append(queue[d], iwrk[i])) = ToSet(queue[d]) \cup {iwrk[i]}
    BY <2>1, AppendMembers, QueueMembers DEF WorkTypes
  <2>3. k \in ToSet(queue[e]) => k \in ToSet(queue'[e])
    <3>1. CASE e = d
      <4>1. queue'[e] = Append(queue[d], iwrk[i])
        BY <2>1, <3>1 DEF WorkTypes, ThrType
      <4>. QED
        BY <2>2, <3>1, <4>1
    <3>2. CASE e # d
      <4>1. queue'[e] = queue[e]
        BY <2>1, <3>2 DEF WorkTypes, ThrType
      <4>. QED
        BY <4>1
    <3>. QED
      BY <3>1, <3>2
  <2>. QED
    BY <1>0, <2>1, <2>3 DEF InUse
<1>2. ASSUME NEW d \in Devs, WorkerTake(d) PROVE InUse(k)'
  <2>1. /\ queue[d] # <<>> /\ cur[d] = NULL
        /\ cur' = [cur EXCEPT ![d] = Head(queue[d])]
        /\ queue' = [queue EXCEPT ![d] = Tail(queue[d])]
        /\ kpc' = [kpc EXCEPT ![d] = "work"]
    BY <1>2, TakeMoves
  <2>2. \A x \in ToSet(queue[d]) : x = Head(queue[d]) \/ x \in ToSet(Tail(queue[d]))
    <3>1. \A m, n \in 1 .. Len(queue[d]) : queue[d][m] = queue[d][n] => m = n
      BY DEF QueueOK
    <3>. QED
      BY <2>1, <3>1, TailMembers, QueueMembers DEF WorkTypes
  <2>3. CASE e = d
    <3>1. k \in ToSet(queue[d])
      BY <1>0, <2>1, <2>3, NullFacts
    <3>2. queue'[d] = Tail(queue[d]) /\ cur'[d] = Head(queue[d]) /\ kpc'[d] = "work"
      BY <2>1 DEF WorkTypes, ThrType
    <3>. QED
      BY <2>2, <3>1, <3>2 DEF InUse
  <2>4. CASE e # d
    <3>1. queue'[e] = queue[e] /\ cur'[e] = cur[e] /\ kpc'[e] = kpc[e]
      BY <2>1, <2>4 DEF WorkTypes, ThrType
    <3>. QED
      BY <1>0, <3>1 DEF InUse
  <2>. QED
    BY <2>3, <2>4
<1>3. ASSUME NEW d \in Devs, WorkerFree(d) PROVE InUse(k)'
  <2>1. /\ cur' = [cur EXCEPT ![d] = NULL]
        /\ kpc' = [kpc EXCEPT ![d] = "idle"]
        /\ kpc[d] = "free" /\ queue' = queue
    BY <1>3, FreeMoves DEF WorkerFree
  <2>. QED
    BY <1>0, <2>1 DEF WorkTypes, ThrType, InUse
<1>4. ASSUME NEW d \in Devs, WorkerCheck(d) \/ WorkerLock(d) PROVE InUse(k)'
  BY <1>0, <1>4 DEF WorkerCheck, WorkerLock, WorkTypes, ThrType, InUse
<1>5. ASSUME NEW d \in Devs, WorkerForward(d) \/ WorkerOops(d), k # cur[d] PROVE InUse(k)'
  BY <1>0, <1>5 DEF WorkerForward, WorkerOops, WorkTypes, ThrType, InUse
<1>6. ASSUME NEW w \in Writers, Join(w), k \notin ToSet(queue[wdev[w]]) PROVE InUse(k)'
  <2>0. PICK d \in Devs : d = wdev[w]
    BY <1>6, JoinMoves DEF WorkTypes
  <2>1. /\ queue' = [queue EXCEPT ![d] = <<>>]
        /\ cur' = [cur EXCEPT ![d] = NULL]
        /\ kpc' = [kpc EXCEPT ![d] = "idle"]
    BY <1>6, <2>0, JoinMoves DEF WorkTypes
  <2>2. kpc[d] # "work"
    BY <1>6, <2>0 DEF Join, Gone, ThreadOK
  <2>3. e # d
    BY <1>0, <1>6, <2>0, <2>2
  <2>. QED
    BY <1>0, <2>1, <2>3 DEF WorkTypes, ThrType, InUse
<1>7. ASSUME NEW w \in Writers, NEW d \in Devs, Create(w, d) PROVE InUse(k)'
  <2>1. kpc[d] # "work"
    BY <1>7 DEF Create, ThreadOK
  <2>. QED
    BY <1>0, <1>7, <2>1 DEF Create, WorkTypes, ThrType, InUse
<1>8. CASE UNCHANGED <<queue, cur, kpc>>
  BY <1>0, <1>8 DEF InUse
<1>. QED
  BY <1>1, <1>2, <1>3, <1>4, <1>5, <1>6, <1>7, <1>8 DEF Next, vars, IrqNext, WorkerNext,
     WriterNext, thrVars, Deliver, RecvFind, RecvNoDevice, RecvAlloc, RecvDrop,
     WorkerExit, Start, Lock, Show, Unregister, ScanEnd, Delete, AddFail, AddLock,
     AddTail, AddPack

(* A frame that leaks stays so: nobody is left to free it.                 *)
LEMMA LeakStays ==
    ASSUME IInv, FrameInv, [Next]_vars, NEW f \in Frames, Leak(f)
    PROVE  Leak(f)'
<1>1. WorkTypes /\ SkbType /\ IrqType /\ LocalsOK /\ OnePlace /\ CarriesOK
  BY DEF IInv, TypeOK, WorkTypes
<1>2. skblen'[f] = skblen[f] /\ \A i \in Irqs : iskb'[i] # f
  <2>1. ASSUME NEW i \in Irqs, NEW d \in ptypes, NEW g \in Frames, NEW n \in Lens,
               NEW t \in Interruptible \cup {NULL}, Deliver(i, d, g, n, t)
        PROVE  skblen'[f] = skblen[f] /\ \A h \in Irqs : iskb'[h] # f
    BY <1>1, <2>1 DEF Deliver, Leak, SkbType, IrqType
  <2>2. ASSUME NEW i \in Irqs, RecvNoDevice(i) \/ RecvQueue(i) \/ RecvDrop(i)
        PROVE  skblen'[f] = skblen[f] /\ \A h \in Irqs : iskb'[h] # f
    BY <1>1, <2>2, NullFacts DEF RecvNoDevice, RecvQueue, RecvDrop, Return, Leak, IrqType
  <2>3. ASSUME NEW d \in Devs, WorkerForward(d)
        PROVE  skblen'[f] = skblen[f] /\ \A h \in Irqs : iskb'[h] # f
    BY <1>1, <2>3, ForwardFrees DEF Leak, SkbType
  <2>4. CASE UNCHANGED <<skblen, iskb>>
    BY <2>4 DEF Leak
  <2>. QED
    BY <2>1, <2>2, <2>3, <2>4 DEF Next, vars, IrqNext, WorkerNext, WriterNext, irqVars,
       RecvFind, RecvAlloc, WorkerCheck, WorkerExit, WorkerTake, WorkerOops, WorkerLock,
       WorkerFree, Start, Lock, Show, Unregister, ScanEnd, Delete, Join, AddFail, Create,
       AddLock, AddTail, AddPack
<1>3. ASSUME NEW k \in Kworks, InUse(k)' PROVE wrk'[k].skb # f
  <2>1. CASE InUse(k) /\ wrk'[k] = wrk[k]
    BY <2>1 DEF Leak
  <2>2. ASSUME NEW i \in Irqs, RecvQueue(i), k = iwrk[i] PROVE wrk'[k].skb # f
    <3>1. wrk'[k].skb = iskb[i]
      BY <1>1, <2>2, QueueMoves DEF LocalsOK
    <3>. QED
      BY <3>1 DEF Leak
  <2>. QED
    BY <1>1, <1>3, <2>1, <2>2, UseStep
<1>. QED
  BY <1>2, <1>3 DEF Leak

(* One that does not leak and then does has been lost in one of the ways.  *)
LEMMA LeakCauses ==
    ASSUME IInv, FrameInv, IdleHandlers, [Next]_vars, NEW f \in Frames,
           ~ Leak(f), Leak(f)'
    PROVE  LosesFrame(f)
<1>1. /\ WorkTypes /\ SkbType /\ IrqType /\ LocalsOK /\ OnePlace /\ CarriesOK
      /\ ThreadOK /\ QueueOK
  BY DEF IInv, TypeOK, WorkTypes
<1>2. /\ skblen'[f] # 0 /\ \A i \in Irqs : iskb'[i] # f
      /\ \A k \in Kworks : InUse(k)' => wrk'[k].skb # f
  BY DEF Leak
<1>3. CASE skblen[f] = 0
  <2>1. PICK i \in Irqs, d \in ptypes, g \in Frames, n \in Lens,
             t \in Interruptible \cup {NULL} : Deliver(i, d, g, n, t)
    <3>1. ASSUME NEW d \in Devs, WorkerForward(d) PROVE skblen'[f] = 0
      BY <1>1, <1>3, <3>1, ForwardFrees DEF SkbType
    <3>. QED
      BY <1>2, <1>3, <3>1 DEF Next, vars, IrqNext, WorkerNext, WriterNext,
         RecvFind, RecvNoDevice, RecvQueue, RecvDrop,
         RecvAlloc, WorkerCheck, WorkerExit, WorkerTake, WorkerOops, WorkerLock,
         WorkerFree, Start, Lock, Show, Unregister, ScanEnd, Delete, Join, AddFail, Create,
         AddLock, AddTail, AddPack
  <2>2. f = g
    BY <1>1, <1>2, <1>3, <2>1 DEF Deliver, SkbType
  <2>. QED
    BY <1>1, <1>2, <2>1, <2>2 DEF Deliver, IrqType
<1>4. ASSUME NEW i \in Irqs, iskb[i] = f PROVE LosesFrame(f)
  <2>1. iskb'[i] # iskb[i]
    BY <1>2, <1>4
  <2>2. ASSUME NEW h \in Irqs, RecvQueue(h) PROVE FALSE
    <3>1. h = i
      BY <1>1, <2>1, <2>2 DEF RecvQueue, Return, IrqType
    <3>2. /\ iwrk[i] \in Kworks /\ idev[i] \in Devs /\ wrk'[iwrk[i]].skb = f
          /\ queue' = [queue EXCEPT ![idev[i]] = Append(queue[idev[i]], iwrk[i])]
      BY <1>1, <1>4, <2>2, <3>1, QueueMoves DEF LocalsOK
    <3>3. ToSet(Append(queue[idev[i]], iwrk[i])) = ToSet(queue[idev[i]]) \cup {iwrk[i]}
      BY <1>1, <3>2, AppendMembers, QueueMembers DEF WorkTypes
    <3>4. PICK d \in Devs : d = idev[i]
      BY <3>2
    <3>5. iwrk[i] \in ToSet(queue'[d])
      BY <1>1, <3>2, <3>3, <3>4 DEF WorkTypes, ThrType
    <3>6. PICK k \in Kworks : k = iwrk[i]
      BY <3>2
    <3>7. InUse(k)'
      BY <3>5, <3>6 DEF InUse
    <3>. QED
      BY <1>2, <3>2, <3>6, <3>7
  <2>3. ASSUME NEW h \in Irqs, RecvNoDevice(h) \/ RecvDrop(h) PROVE h = i
    BY <1>1, <2>1, <2>3 DEF RecvNoDevice, RecvDrop, Return, IrqType
  <2>4. ipc[i] # "idle"
    BY <1>4, NullFacts DEF IdleHandlers
  <2>5. ASSUME NEW h \in Irqs, NEW d \in ptypes, NEW g \in Frames, NEW n \in Lens,
               NEW t \in Interruptible \cup {NULL}, Deliver(h, d, g, n, t)
        PROVE  FALSE
    BY <1>1, <2>1, <2>4, <2>5 DEF Deliver, IrqType
  <2>. QED
    BY <1>4, <2>1, <2>2, <2>3, <2>5 DEF Next, vars, IrqNext, WorkerNext, WriterNext, irqVars,
       RecvFind, RecvAlloc, WorkerCheck, WorkerExit, WorkerTake, WorkerForward, WorkerOops,
       WorkerLock, WorkerFree, Start, Lock, Show, Unregister, ScanEnd, Delete, Join, AddFail,
       Create, AddLock, AddTail, AddPack, LosesFrame, Drops, Misses
<1>5. ASSUME NEW k \in Kworks, InUse(k), wrk[k].skb = f PROVE LosesFrame(f)
  <2>1. \A d \in Devs : WorkerForward(d) => k # cur[d]
    BY <1>1, <1>2, <1>5, ForwardFrees DEF SkbType
  <2>2. wrk'[k].skb = f
    BY <1>1, <1>5, <2>1, KeptInUse
  <2>3. ~ InUse(k)'
    BY <1>2, <2>2
  <2>. QED
    BY <1>1, <1>5, <2>1, <2>3, UseEnds DEF LosesFrame, Oopses, Discards
<1>. QED
  BY <1>3, <1>4, <1>5 DEF Leak
(* And each of these ways does lose a frame.                               *)
LEMMA LossLeaks ==
    ASSUME IInv, FrameInv, NEW f \in Frames, LosesFrame(f)
    PROVE  ~ Leak(f) /\ Leak(f)'
<1>1. /\ WorkTypes /\ SkbType /\ IrqType /\ LocalsOK /\ OnePlace /\ CarriesOK
      /\ ThreadOK /\ QueueOK
  BY DEF IInv, TypeOK, WorkTypes
<1>2. f # NULL
  BY NullFacts
<1>3. ASSUME NEW i \in Irqs, Drops(i, f) \/ Misses(i, f) PROVE ~ Leak(f) /\ Leak(f)'
  <2>1. iskb[i] = f /\ iskb' = [iskb EXCEPT ![i] = NULL]
        /\ UNCHANGED <<skblen, queue, cur, kpc, wrk>>
    BY <1>3 DEF Drops, Misses, RecvDrop, RecvNoDevice, Return, thrVars
  <2>2. skblen[f] # 0 /\ \A j \in Irqs : iskb[j] = f => j = i
    BY <1>2, <2>1 DEF FrameInv, HandlersOwn
  <2>3. \A k \in Kworks : InUse(k) => wrk[k].skb # f
    BY <2>1 DEF FrameInv, FrameOwned
  <2>4. \A k : InUse(k)' = InUse(k)
    BY <2>1 DEF InUse
  <2>5. \A j \in Irqs : iskb'[j] # f
    BY <1>1, <1>2, <2>1, <2>2 DEF IrqType
  <2>. QED
    BY <2>1, <2>2, <2>3, <2>4, <2>5 DEF Leak
<1>4. ASSUME NEW d \in Devs, Oopses(d, f) PROVE ~ Leak(f) /\ Leak(f)'
  <2>1. /\ kpc[d] = "work" /\ wrk[cur[d]].skb = f
        /\ kpc' = [kpc EXCEPT ![d] = "dead"]
        /\ UNCHANGED <<skblen, iskb, queue, cur, wrk>>
    BY <1>4 DEF Oopses, WorkerOops, irqVars
  <2>2. cur[d] \in Kworks /\ cur[d] # NULL
    BY <1>1, <2>1, NullFacts DEF WorkTypes, ThrType, LocalsOK, ThrLocals
  <2>3. PICK k \in Kworks : k = cur[d]
    BY <2>2
  <2>4. InUse(k)
    BY <2>1, <2>3 DEF InUse
  <2>5. /\ skblen[f] # 0 /\ \A i \in Irqs : iskb[i] # f
        /\ \A l \in Kworks : InUse(l) /\ wrk[l].skb = f => l = k
    BY <2>1, <2>3, <2>4 DEF FrameInv, FrameOwned
  <2>6. ASSUME NEW l \in Kworks, InUse(l)' PROVE InUse(l) /\ l # k
    <3>1. PICK e \in Devs : l \in ToSet(queue[e]) \/ (e # d /\ cur[e] = l /\ kpc[e] = "work")
      BY <1>1, <2>1, <2>6 DEF InUse, WorkTypes, ThrType
    <3>. QED
      BY <1>1, <2>2, <2>3, <3>1, Apart DEF InUse
  <2>. QED
    BY <2>1, <2>3, <2>4, <2>5, <2>6 DEF Leak
<1>5. ASSUME NEW w \in Writers, Discards(w, f) PROVE ~ Leak(f) /\ Leak(f)'
  <2>0. PICK d \in Devs : d = wdev[w]
    BY <1>1, <1>5, JoinMoves DEF WorkTypes, Discards, LocalsOK
  <2>1. /\ queue' = [queue EXCEPT ![d] = <<>>]
        /\ cur' = [cur EXCEPT ![d] = NULL]
        /\ kpc' = [kpc EXCEPT ![d] = "idle"]
        /\ UNCHANGED <<wrk, skblen, iskb>>
    BY <1>1, <1>5, <2>0, JoinMoves DEF WorkTypes, Discards, LocalsOK, Join, irqVars
  <2>2. PICK k \in ToSet(queue[d]) : wrk[k].skb = f
    BY <1>5, <2>0 DEF Discards
  <2>3. k \in Kworks /\ InUse(k)
    BY <1>1, <2>2, QueueMembers DEF WorkTypes, InUse
  <2>4. /\ skblen[f] # 0 /\ \A i \in Irqs : iskb[i] # f
        /\ \A l \in Kworks : InUse(l) /\ wrk[l].skb = f => l = k
    BY <2>2, <2>3 DEF FrameInv, FrameOwned
  <2>5. ToSet(<<>>) = {}
    BY DEF ToSet
  <2>6. ASSUME NEW l \in Kworks, InUse(l)' PROVE InUse(l) /\ l # k
    <3>1. PICK e \in Devs : l \in ToSet(queue'[e]) \/ (cur'[e] = l /\ kpc'[e] = "work")
      BY <2>6 DEF InUse
    <3>2. e # d /\ (l \in ToSet(queue[e]) \/ (cur[e] = l /\ kpc[e] = "work"))
      BY <1>1, <2>1, <2>5, <3>1 DEF WorkTypes, ThrType
    <3>3. l # k
      BY <1>1, <2>2, <3>2, NullFacts DEF OnePlace, Custody!OnePlace
    <3>. QED
      BY <3>2, <3>3 DEF InUse
  <2>. QED
    BY <2>1, <2>2, <2>3, <2>4, <2>6 DEF Leak
<1>. QED
  BY <1>3, <1>4, <1>5 DEF LosesFrame

(* A frame that has been handed to rtap_device_recv is lost at a drop, at a*)
(* handler that finds no device, at an oops of a thread and with the list  *)
(* of a device that is freed, and nowhere else; and what is lost stays so. *)
THEOREM FramesLostWhere ==
    Spec => [][\A f \in Frames : Leak(f)' <=> Leak(f) \/ LosesFrame(f)]_vars
<1>. DEFINE A == \A f \in Frames : Leak(f)' <=> Leak(f) \/ LosesFrame(f)
<1>1. Init => IdleHandlers
  BY DEF Init, IdleHandlers
<1>2. IInv /\ IdleHandlers /\ [Next]_vars => IdleHandlers'
  BY IdleStep
<1>3. IInv /\ FrameInv /\ IdleHandlers /\ [Next]_vars => [A]_vars
  BY LeakStays, LeakCauses, LossLeaks
<1>. QED
  BY <1>1, <1>2, <1>3, NumberInvariant, PTL DEF Spec

----------------------------------------------------------------------------
(* Frames are lost at drops alone, as long as no device is removed *)

(* No removal is under way, what is registered is listed, a handler will   *)
(* find its device, and a device that has never been made has dropped      *)
(* nothing.                                                                *)
QuietInv ==
    /\ \A w \in Writers : wpc[w] \notin {"sync", "join", "oops"}
    /\ \A w \in Writers : wpc[w] = "addpack" => IsListed(wdev[w])
    /\ \A d \in ptypes : IsListed(d)
    /\ \A i \in Irqs : ipc[i] = "find" =>
           \E d \in Devs : IsListed(d) /\ dname[d] = iname[i]
    /\ \A d \in Devs : d \notin alive => wrk_drop[d] = 0

(* Where the list only grows, each conjunct but the last is preserved by a *)
(* step that adds nothing else to what it speaks of.                       *)
LEMMA QuietStep ==
    ASSUME IInv, QuietInv, [Next]_vars, \A w \in Writers : ~ Unregister(w)
    PROVE  QuietInv'
<1>1. ListType /\ WrType /\ IrqType /\ CtrType /\ WrLocals /\ IrqLocals /\ ListOK
      /\ RecvDeviceListed
  BY DEF IInv, TypeOK, LocalsOK, GraceOK
<1>2. \A d \in Devs : IsListed(d) => d \in alive
  BY <1>1 DEF IsListed, ListOK
<1>3. CASE UNCHANGED <<devlist, alive, ptypes, dname, wrk_drop, wpc, wdev, ipc, iname>>
  BY <1>3 DEF QuietInv, IsListed
<1>4. ASSUME NEW i \in Irqs, IrqNext(i) PROVE QuietInv'
  <2>1. UNCHANGED <<devlist, alive, ptypes, dname, wpc, wdev>>
    BY <1>4 DEF IrqNext, Deliver, RecvFind, RecvNoDevice, RecvAlloc, RecvQueue, RecvDrop,
       listVars, wrVars
  <2>2. \A h \in Irqs : h # i => ipc'[h] = ipc[h] /\ iname'[h] = iname[h]
    BY <1>1, <1>4 DEF IrqNext, Deliver, RecvFind, RecvNoDevice, RecvAlloc, RecvQueue,
       RecvDrop, Return, IrqType
  <2>3. ipc'[i] = "find" => \E d \in ptypes : iname'[i] = dname[d]
    BY <1>1, <1>4 DEF IrqNext, Deliver, RecvFind, RecvNoDevice, RecvAlloc, RecvQueue,
       RecvDrop, Return, IrqType
  <2>4. \A d \in Devs : d \notin alive => wrk_drop'[d] = wrk_drop[d]
    <3>1. CASE RecvDrop(i)
      <4>1. idev[i] \in alive
        BY <1>1, <1>2, <3>1 DEF RecvDrop, RecvDeviceListed, ListOK
      <4>. QED
        BY <1>1, <3>1, <4>1 DEF RecvDrop, CountDrop, CtrType
    <3>2. CASE UNCHANGED wrk_drop
      BY <3>2
    <3>. QED
      BY <1>4, <3>1, <3>2 DEF IrqNext, Deliver, RecvFind, RecvNoDevice, RecvAlloc, RecvQueue,
         ctrVars
  <2>5. ptypes \subseteq Devs
    BY <1>1 DEF ListType
  <2>. QED
    BY <2>1, <2>2, <2>3, <2>4, <2>5 DEF QuietInv, IsListed
<1>5. ASSUME NEW w \in Writers, WriterNext(w),
             ~ AddTail(w), ~ AddPack(w), \A d \in Devs : ~ Create(w, d)
      PROVE  QuietInv'
  <2>1. ~ Delete(w) /\ ~ Join(w) /\ ~ Unregister(w)
    BY DEF QuietInv, Delete, Join
  <2>2. UNCHANGED <<devlist, alive, ptypes, dname, wrk_drop, ipc, iname, wdev>>
    BY <1>5, <2>1 DEF WriterNext, Start, Lock, Show, ScanEnd, AddFail, AddLock, listVars,
       ctrVars, irqVars
  <2>3. \A v \in Writers : wpc'[v] = wpc[v]
                           \/ wpc'[v] \notin {"sync", "join", "oops", "addpack"}
    BY <1>1, <1>5, <2>1 DEF WriterNext, Start, Lock, Show, ScanEnd, Unlock, AddFail, AddLock,
       Goto, Finish, WrType
  <2>. QED
    BY <2>2, <2>3 DEF QuietInv, IsListed
<1>6. ASSUME NEW w \in Writers, AddTail(w) PROVE QuietInv'
  <2>1. \A d \in Devs : IsListed(d)' <=> IsListed(d) \/ d = wdev[w]
    BY <1>1, <1>6, AddMembers
  <2>2. wdev[w] \in Devs /\ wpc'[w] = "addpack" /\ \A v \in Writers : v # w => wpc'[v] = wpc[v]
    BY <1>1, <1>6, GotoMoves DEF AddTail, WrLocals
  <2>3. UNCHANGED <<alive, ptypes, dname, wrk_drop, ipc, iname, wdev>>
    BY <1>6 DEF AddTail, ctrVars, irqVars
  <2>4. ptypes \subseteq Devs /\ \A v \in Writers : wpc[v] = "addpack" => wdev[v] \in Devs
    BY <1>1 DEF ListType, WrLocals
  <2>. QED
    BY <2>1, <2>2, <2>3, <2>4 DEF QuietInv
<1>7. ASSUME NEW w \in Writers, AddPack(w) PROVE QuietInv'
  <2>1. /\ wpc[w] = "addpack" /\ ptypes' = ptypes \cup {wdev[w]}
        /\ wpc'[w] = "idle" /\ \A v \in Writers : v # w => /\ wpc'[v] = wpc[v]
                                                          /\ wdev'[v] = wdev[v]
    BY <1>1, <1>7 DEF AddPack, Finish, Goto, WrType
  <2>2. UNCHANGED <<devlist, alive, dname, wrk_drop, ipc, iname>>
    BY <1>7 DEF AddPack, ctrVars, irqVars
  <2>. QED
    BY <2>1, <2>2 DEF QuietInv, IsListed
<1>8. ASSUME NEW w \in Writers, NEW d \in Devs, Create(w, d) PROVE QuietInv'
  <2>1. /\ wpc'[w] = "addlock" /\ \A v \in Writers : v # w => /\ wpc'[v] = wpc[v]
                                                             /\ wdev'[v] = wdev[v]
    BY <1>1, <1>8 DEF Create, Goto, WrType
  <2>2. /\ d \notin alive /\ alive' = alive \cup {d}
        /\ \A e \in Devs : e # d => dname'[e] = dname[e] /\ wrk_drop'[e] = wrk_drop[e]
        /\ UNCHANGED <<devlist, ptypes, ipc, iname>>
    BY <1>1, <1>8 DEF Create, ClearDev, irqVars, ListType, CtrType
  <2>. QED
    BY <1>2, <2>1, <2>2 DEF QuietInv, IsListed
<1>. QED
  BY <1>3, <1>4, <1>5, <1>6, <1>7, <1>8 DEF Next, vars, listVars, ctrVars, irqVars, wrVars,
     WorkerNext, WorkerCheck, WorkerExit, WorkerTake, WorkerForward, WorkerOops, WorkerLock,
     WorkerFree

(* Where frames and devices are finitely many.                             *)
Finite == IsFiniteSet(Frames) /\ IsFiniteSet(Devs)

(* A drop leaks its frame and counts it, and no other step does either.    *)
LEMMA CountStep ==
    ASSUME ~ Faults, Finite, IInv, FrameInv, IdleHandlers, QuietInv, LeaksAreDrops,
           [Next]_vars, \A w \in Writers : ~ Unregister(w)
    PROVE  LeaksAreDrops'
<1>1. CtrType /\ IrqLocals /\ IrqType
  BY DEF IInv, TypeOK, LocalsOK
<1>2. Leaked = {f \in Frames : Leak(f)} /\ Leaked' = {f \in Frames : Leak(f)'}
  BY DEF Leaked, Leak
<1>3. \A f \in Frames : Leak(f)' <=> Leak(f) \/ LosesFrame(f)
  BY LeakStays, LeakCauses, LossLeaks
<1>4. \A f \in Frames : LosesFrame(f) <=> \E i \in Irqs : Drops(i, f)
  <2>1. \A i \in Irqs : ~ RecvNoDevice(i)
    BY DEF QuietInv, RecvNoDevice, Listed, IsListed
  <2>2. \A d \in Devs : ~ WorkerOops(d)
    BY DEF WorkerOops
  <2>3. \A w \in Writers : ~ Join(w)
    BY DEF QuietInv, Join
  <2>. QED
    BY <2>1, <2>2, <2>3 DEF LosesFrame, Misses, Oopses, Discards
<1>5. IsFiniteSet(Leaked) /\ Cardinality(Leaked) \in Nat
  <2>1. Leaked \subseteq Frames
    BY <1>2
  <2>. QED
    BY <2>1, FS_Subset, FS_CardinalityType DEF Finite
<1>6. /\ LeaksAreDrops <=> Cardinality(Leaked) % DROP_MOD = Total(wrk_drop, Devs) % DROP_MOD
      /\ LeaksAreDrops' <=>
             Cardinality(Leaked)' % DROP_MOD = Total(wrk_drop', Devs) % DROP_MOD
  BY DEF LeaksAreDrops, Total, FoldSet, MapThenFoldSet
<1>7. \A d \in Devs : wrk_drop[d] \in Nat
  BY <1>1, ConstantFacts DEF CtrType
<1>8. ASSUME NEW i \in Irqs, RecvDrop(i) PROVE LeaksAreDrops'
  <2>0. PICK d \in Devs, f \in Frames : d = idev[i] /\ f = iskb[i]
    BY <1>1, <1>8 DEF RecvDrop, IrqLocals
  <2>1. Drops(i, f)
    BY <1>8, <2>0 DEF Drops
  <2>2. \A g \in Frames : LosesFrame(g) <=> g = f
    <3>1. ASSUME NEW g \in Frames, NEW h \in Irqs, Drops(h, g) PROVE g = f
      <4>1. h = i
        BY <1>1, <1>8, <3>1 DEF Drops, RecvDrop, Return, IrqType
      <4>. QED
        BY <2>0, <3>1, <4>1 DEF Drops
    <3>. QED
      BY <1>4, <2>1, <3>1
  <2>3. ~ Leak(f)
    BY <2>2, LossLeaks
  <2>4. Leaked' = Leaked \cup {f} /\ f \notin Leaked
    BY <1>2, <1>3, <2>2, <2>3
  <2>5. Cardinality(Leaked') = Cardinality(Leaked) + 1
    BY <1>5, <2>4, FS_AddElement
  <2>6. PICK k : k = [wrk_drop EXCEPT ![d] = (@ + 1) % DROP_MOD]
    OBVIOUS
  <2>7. wrk_drop' = k
    BY <1>8, <2>0, <2>6 DEF RecvDrop, CountDrop
  <2>8. /\ k[d] = (wrk_drop[d] + 1) % DROP_MOD
        /\ \A e \in Devs : wrk_drop[e] \in Nat /\ k[e] \in Nat /\ (e # d => k[e] = wrk_drop[e])
    BY <1>1, <1>7, <2>6, DropOK, ConstantFacts DEF CtrType
  <2>9. PICK r \in Nat : Total(wrk_drop, Devs) = r + wrk_drop[d] /\ Total(k, Devs) = r + k[d]
    <3>1. PICK h : h = wrk_drop
      OBVIOUS
    <3>2. ChangedAt(h, k, d, Devs)
      BY <2>8, <3>1 DEF ChangedAt
    <3>3. \E r \in Nat : Total(h, Devs) = r + h[d] /\ Total(k, Devs) = r + k[d]
      BY <3>2, TotalChanges DEF Finite
    <3>. QED
      BY <3>1, <3>3
  <2>. DEFINE c == Cardinality(Leaked)
              v == wrk_drop[d]
  <2>10. c \in Nat /\ v \in Nat /\ DROP_MOD \in Nat \ {0}
    BY <1>5, <1>7, ConstantFacts
  <2>11. c % DROP_MOD = (r + v) % DROP_MOD
    BY <1>6, <2>9
  <2>. HIDE DEF c, v
  <2>12. (c + 1) % DROP_MOD = ((r + v) + 1) % DROP_MOD
    <3>1. ((c % DROP_MOD) + 1) % DROP_MOD = (c + 1) % DROP_MOD
      BY <2>10, PlusMod
    <3>2. r + v \in Nat
      BY <2>10
    <3>3. (((r + v) % DROP_MOD) + 1) % DROP_MOD = ((r + v) + 1) % DROP_MOD
      BY <2>10, <3>2, PlusMod
    <3>. QED
      BY <2>11, <3>1, <3>3
  <2>13. (r + ((v + 1) % DROP_MOD)) % DROP_MOD = ((r + v) + 1) % DROP_MOD
    <3>1. v + 1 \in Nat
      BY <2>10
    <3>2. (((v + 1) % DROP_MOD) + r) % DROP_MOD = ((v + 1) + r) % DROP_MOD
      BY <2>10, <3>1, PlusMod
    <3>3. (v + 1) % DROP_MOD \in Nat
      BY <2>10, <3>1, ModBelow
    <3>4. r + ((v + 1) % DROP_MOD) = ((v + 1) % DROP_MOD) + r
      BY <3>3
    <3>5. (r + v) + 1 = (v + 1) + r
      BY <2>10
    <3>. QED
      BY <3>2, <3>4, <3>5
  <2>14. Total(wrk_drop', Devs) = r + ((v + 1) % DROP_MOD)
    BY <2>7, <2>8, <2>9 DEF v
  <2>. QED
    BY <1>6, <2>5, <2>12, <2>13, <2>14 DEF c
<1>9. ASSUME \A i \in Irqs : ~ RecvDrop(i) PROVE LeaksAreDrops'
  <2>1. Leaked' = Leaked
    BY <1>2, <1>3, <1>4, <1>9 DEF Drops
  <2>2. wrk_drop' = wrk_drop
    <3>1. ASSUME NEW w \in Writers, NEW d \in Devs, Create(w, d) PROVE wrk_drop' = wrk_drop
      <4>1. wrk_drop[d] = 0 /\ wrk_drop' = [wrk_drop EXCEPT ![d] = 0]
        BY <3>1 DEF Create, ClearDev, QuietInv
      <4>. QED
        BY <1>1, <4>1 DEF CtrType
    <3>2. \A w \in Writers : ~ Join(w)
      BY DEF QuietInv, Join
    <3>. QED
      BY <1>9, <3>1, <3>2 DEF Next, vars, ctrVars, IrqNext, WorkerNext, WriterNext, Deliver,
         RecvFind, RecvNoDevice, RecvAlloc, RecvQueue, WorkerCheck, WorkerExit, WorkerTake,
         WorkerForward, WorkerOops, WorkerLock, WorkerFree, Start, Lock, Show, Unregister,
         ScanEnd, Delete, AddFail, AddLock, AddTail, AddPack
  <2>. QED
    BY <1>6, <2>1, <2>2
<1>. QED
  BY <1>8, <1>9

(* LeaksAreDrops: while no device is removed and no thread oopses, every   *)
(* frame that rtap_device_recv takes and nobody frees is one that a device *)
(* counts in wrk_drop, however many frames, devices, handlers and threads  *)
(* there are, and whichever of the counters wrap around.                   *)
THEOREM LeaksAreCounted ==
    ASSUME ~ Faults, Finite
    PROVE  Spec /\ [][\A w \in Writers : ~ Unregister(w)]_vars => []LeaksAreDrops
<1>. DEFINE Quiet == \A w \in Writers : ~ Unregister(w)
<1>1. Init => IdleHandlers /\ QuietInv
  BY DEF Init, IdleHandlers, QuietInv
<1>2. Init => LeaksAreDrops
  <2>. SUFFICES ASSUME Init PROVE LeaksAreDrops
    OBVIOUS
  <2>1. Leaked = {}
    BY DEF Init, Leaked
  <2>2. \A d \in Devs : wrk_drop[d] = 0
    BY DEF Init
  <2>3. Total(wrk_drop, Devs) = 0
    <3>1. PICK h : h = wrk_drop
      OBVIOUS
    <3>2. Total(h, Devs) = 0
      BY <2>2, <3>1, TotalZero DEF Finite
    <3>. QED
      BY <3>1, <3>2
  <2>4. LeaksAreDrops <=> Cardinality(Leaked) % DROP_MOD = Total(wrk_drop, Devs) % DROP_MOD
    BY DEF LeaksAreDrops, Total
  <2>. QED
    BY <2>1, <2>3, <2>4, FS_EmptySet
<1>3. IInv /\ IdleHandlers /\ [Next]_vars => IdleHandlers'
  BY IdleStep
<1>4. IInv /\ QuietInv /\ [Next]_vars /\ [Quiet]_vars => QuietInv'
  <2>1. QuietInv /\ UNCHANGED vars => QuietInv'
    BY DEF QuietInv, IsListed, vars, listVars, ctrVars, irqVars, wrVars
  <2>. QED
    BY <2>1, QuietStep
<1>5. IInv /\ FrameInv /\ IdleHandlers /\ QuietInv /\ LeaksAreDrops /\ [Next]_vars
          /\ [Quiet]_vars => LeaksAreDrops'
  <2>1. ASSUME LeaksAreDrops, UNCHANGED vars PROVE LeaksAreDrops'
    <3>1. Leaked' = Leaked /\ wrk_drop' = wrk_drop
      BY <2>1 DEF Leaked, InUse, vars, thrVars, irqVars, ctrVars
    <3>. QED
      BY <2>1, <3>1 DEF LeaksAreDrops, FoldSet, MapThenFoldSet
  <2>. QED
    BY <2>1, CountStep
<1>. QED
  BY <1>1, <1>2, <1>3, <1>4, <1>5, NumberInvariant, PTL DEF Spec

(* So it is where users only bring devices up and read the file.           *)
THEOREM AddingCountsLeaks ==
    ASSUME AddsOnce, ~ Faults, Finite
    PROVE  Spec => []LeaksAreDrops
<1>1. (\A w \in Writers : ~ Unregister(w) /\ ~ Join(w)) => \A w \in Writers : ~ Unregister(w)
  OBVIOUS
<1>. QED
  BY <1>1, NothingFreed, LeaksAreCounted, PTL
=============================================================================
