---------------------------- MODULE DeviceProofs ----------------------------
(***************************************************************************)
(* Theorems about the devices and the works of Device, for every number of *)
(* devices, softirqs, writers, works and frames, every script and every    *)
(* modulus: the table of free works is a stack that never overflows, the   *)
(* device implements the circulation of KworkCustody, and with that the    *)
(* invariant of DeviceInv is inductive.  As long as commands do not        *)
(* overlap, what is registered is listed and no name is listed twice.      *)
(***************************************************************************)
EXTENDS DeviceInv, SeqLemmas, FiniteSetTheorems, TLAPS

----------------------------------------------------------------------------
(* Types *)

(* What the assumptions say of the null pointer and of the constants.      *)
LEMMA NullFacts ==
    /\ NULL \notin Kworks /\ NULL \notin Devs /\ NULL \notin Irqs
    /\ NULL \notin Writers /\ NULL \notin Frames
BY KworkAssumption, DeviceAssumption

LEMMA ConstantFacts ==
    /\ KWORK_MAX \in Nat
    /\ CTR_MOD \in Nat \ {0}
    /\ DROP_MOD \in Nat \ {0}
    /\ Lens \subseteq Nat \ {0}
    /\ Present \subseteq Names
BY KworkAssumption, DeviceAssumption

LEMMA LineFacts ==
    ASSUME NEW w \in Writers, NEW line \in Script[w]
    PROVE  line.name \in Names \cup {NULL}
<1>1. line \in [first : {"", "+", "-", "read"}, name : Names \cup {NULL}]
  BY DeviceAssumption
<1>. QED
  BY <1>1

(* Counters that wrap stay below their moduli.                             *)
LEMMA ModBelow ==
    ASSUME NEW m \in Nat \ {0}, NEW n \in Nat
    PROVE  n % m \in 0 .. m - 1
OBVIOUS

LEMMA CounterOK ==
    /\ 0 \in Counter
    /\ \A n \in Counter, m \in Nat : AddCtr(n, m) \in Counter
<1>1. 0 \in Counter
  BY ConstantFacts DEF Counter
<1>2. ASSUME NEW n \in Counter, NEW m \in Nat PROVE AddCtr(n, m) \in Counter
  <2>1. n + m \in Nat
    BY ConstantFacts DEF Counter
  <2>. QED
    BY <2>1, ModBelow, ConstantFacts DEF Counter, AddCtr
<1>. QED
  BY <1>1, <1>2

LEMMA DropOK ==
    /\ 0 \in 0 .. DROP_MOD - 1
    /\ \A n \in 0 .. DROP_MOD - 1 : (n + 1) % DROP_MOD \in 0 .. DROP_MOD - 1
<1>1. 0 \in 0 .. DROP_MOD - 1
  BY ConstantFacts
<1>2. ASSUME NEW n \in 0 .. DROP_MOD - 1 PROVE (n + 1) % DROP_MOD \in 0 .. DROP_MOD - 1
  <2>1. n + 1 \in Nat
    BY ConstantFacts
  <2>. QED
    BY <2>1, ModBelow, ConstantFacts
<1>. QED
  BY <1>1, <1>2

(* The length of a frame is a number.                                      *)
LEMMA SkbLenNat ==
    ASSUME SkbType, NEW f \in Frames
    PROVE  skblen[f] \in Nat
<1>1. skblen[f] \in Lens \/ skblen[f] = 0
  BY DEF SkbType
<1>2. skblen[f] \in Lens => skblen[f] \in Nat
  BY ConstantFacts
<1>. QED
  BY <1>1, <1>2

(* The table of works keeps its type.                                      *)
LEMMA TblTypeStep ==
    ASSUME TblType, ThrType, [Next]_vars
    PROVE  TblType'
<1>1. ASSUME NEW i \in Irqs, RecvAlloc(i) PROVE TblType'
  BY <1>1 DEF RecvAlloc, KworkAlloc, PopWork, PopNothing, TblType, TblType
<1>2. ASSUME NEW d \in Devs, WorkerLock(d) PROVE TblType'
  BY <1>2 DEF WorkerLock, KworkFreeLock, TblType, TblType
<1>3. ASSUME NEW d \in Devs, WorkerFree(d) PROVE TblType'
  <2>1. freelist' \in [Slots -> Kworks \cup {NULL}]
    BY <1>3 DEF WorkerFree, KworkFree, TblType, ThrType, TblType
  <2>2. freelist_index' \in Nat
    BY <1>3 DEF WorkerFree, KworkFree, TblType, ThrType, TblType
  <2>3. tbllock' \in Devs \cup {NULL}
    BY <1>3 DEF WorkerFree, KworkFree, TblType, ThrType, TblType
  <2>. QED
    BY <2>1, <2>2, <2>3 DEF TblType
<1>4. CASE UNCHANGED tblVars
  BY <1>4 DEF tblVars, TblType
<1>. QED
  BY SMTT(30), <1>1, <1>2, <1>3, <1>4 DEF Next, vars, IrqNext, WorkerNext, WriterNext, tblVars,
           listVars, ctrVars, thrVars, irqVars, wrVars, Deliver, RecvFind,
           RecvNoDevice, RecvQueue, RecvDrop, WorkerCheck, WorkerExit, WorkerTake,
           WorkerForward, WorkerOops, Start, Lock, Show, Unregister, ScanEnd, Delete,
           Join, AddFail, Create, AddLock, AddTail, AddPack, Return, CountDrop, Goto,
           ShowUnlock, Finish, Unlock, FreeDev, ClearDev

(* The device list, the lock and the names keep their types.               *)
LEMMA ListTypeStep ==
    ASSUME ListType, WrType, LocalsOK, [Next]_vars
    PROVE  ListType'
<1>1. ASSUME NEW w \in Writers, Lock(w) \/ AddLock(w) PROVE ListType'
  BY <1>1 DEF Lock, Goto, AddLock, ListType
<1>2. ASSUME NEW w \in Writers, Show(w) \/ ScanEnd(w) PROVE ListType'
  BY <1>2 DEF Show, ShowUnlock, Finish, Goto, ScanEnd, Unlock, ListType
<1>3. ASSUME NEW w \in Writers, Unregister(w) PROVE ListType'
  BY <1>3 DEF Unregister, Goto, Unregistered, InHandler, ListType
<1>4. ASSUME NEW w \in Writers, Delete(w) PROVE ListType'
  <2>1. devlist' \in Seq(Devs)
    <3>1. PICK j \in 1 .. Len(devlist) : devlist' = RemoveAt(devlist, j)
      BY <1>4 DEF Delete
    <3>. QED
      BY <3>1, RemoveAtProperties DEF ListType
  <2>. QED
    BY <1>4, <2>1 DEF Delete, ListType
<1>5. ASSUME NEW w \in Writers, Join(w) PROVE ListType'
  BY <1>5 DEF Join, Gone, FreeDev, ClearDev, Unlock, Finish, Goto, ListType
<1>6. ASSUME NEW w \in Writers, NEW d \in Devs, Create(w, d) PROVE ListType'
  <2>1. devlist' \in Seq(Devs) /\ devlock' \in Writers \cup {NULL} /\ ptypes' \subseteq Devs
    BY <1>6, NullFacts DEF Create, ClearDev, Goto, ListType, WrType
  <2>2. alive' \subseteq Devs
    BY <1>6, NullFacts DEF Create, ClearDev, Goto, ListType, WrType
  <2>3. dname' \in [Devs -> Names \cup {NULL}]
    BY <1>6, NullFacts DEF Create, ClearDev, Goto, ListType, WrType
  <2>. QED
    BY <2>1, <2>2, <2>3 DEF ListType
<1>7. ASSUME NEW w \in Writers, AddTail(w) PROVE ListType'
  <2>1. devlist' \in Seq(Devs)
    <3>1. wdev[w] \in Devs /\ devlist' = Append(devlist, wdev[w])
      BY <1>7 DEF AddTail, LocalsOK, WrLocals
    <3>. QED
      BY <3>1, AppendMembers DEF ListType
  <2>. QED
    BY <1>7, <2>1 DEF AddTail, ListType
<1>8. ASSUME NEW w \in Writers, AddPack(w) PROVE ListType'
  BY <1>8 DEF AddPack, Finish, Goto, ListType, LocalsOK, WrLocals
<1>9. CASE UNCHANGED listVars
  BY <1>9 DEF listVars, ListType
<1>. QED
  BY <1>1, <1>2, <1>3, <1>4, <1>5, <1>6, <1>7, <1>8, <1>9 DEF Next, vars, IrqNext,
           WorkerNext, WriterNext, tblVars, listVars, ctrVars, thrVars, irqVars,
           wrVars, Deliver, RecvFind, RecvNoDevice, RecvAlloc, RecvQueue, RecvDrop,
           WorkerCheck, WorkerExit, WorkerTake, WorkerForward, WorkerOops, WorkerLock,
           WorkerFree, Start, AddFail, Return, KworkAlloc, CountDrop, KworkFreeLock,
           KworkFree, Goto, Finish

(* The counters of the devices keep their types.                           *)
LEMMA CtrTypeStep ==
    ASSUME CtrType, IrqType, SkbType, LocalsOK, [Next]_vars
    PROVE  CtrType'
<1>1. ASSUME NEW i \in Irqs, RecvQueue(i) PROVE CtrType'
  <2>1. idev[i] \in Devs /\ iskb[i] \in Frames
    BY <1>1 DEF RecvQueue, LocalsOK, IrqLocals
  <2>2. AddCtr(pkts[idev[i]], 1) \in Counter /\ AddCtr(bytes[idev[i]], skblen[iskb[i]]) \in Counter
    BY <2>1, CounterOK, SkbLenNat DEF CtrType
  <2>3. pkts' \in [Devs -> Counter]
    BY <1>1, <2>1, <2>2 DEF RecvQueue, Enqueue, CtrType
  <2>4. bytes' \in [Devs -> Counter]
    BY <1>1, <2>1, <2>2 DEF RecvQueue, Enqueue, CtrType
  <2>. QED
    BY <1>1, <2>3, <2>4 DEF RecvQueue, CtrType
<1>2. ASSUME NEW i \in Irqs, RecvDrop(i) PROVE CtrType'
  <2>1. idev[i] \in Devs
    BY <1>2 DEF RecvDrop, LocalsOK, IrqLocals
  <2>2. (wrk_drop[idev[i]] + 1) % DROP_MOD \in 0 .. DROP_MOD - 1
    BY <2>1, DropOK DEF CtrType
  <2>3. wrk_drop' \in [Devs -> 0 .. DROP_MOD - 1]
    BY <1>2, <2>1, <2>2 DEF RecvDrop, CountDrop, CtrType
  <2>. QED
    BY <1>2, <2>3 DEF RecvDrop, CtrType
<1>3. ASSUME NEW w \in Writers, Join(w) PROVE CtrType'
  <2>1. pkts' \in [Devs -> Counter]
    BY <1>3, CounterOK, DropOK DEF Join, Gone, FreeDev, ClearDev, Unlock, Finish,
             Goto, CtrType
  <2>2. bytes' \in [Devs -> Counter]
    BY <1>3, CounterOK, DropOK DEF Join, Gone, FreeDev, ClearDev, Unlock, Finish,
             Goto, CtrType
  <2>3. wrk_drop' \in [Devs -> 0 .. DROP_MOD - 1]
    BY <1>3, CounterOK, DropOK DEF Join, Gone, FreeDev, ClearDev, Unlock, Finish,
             Goto, CtrType
  <2>. QED
    BY <2>1, <2>2, <2>3 DEF CtrType
<1>4. ASSUME NEW w \in Writers, NEW d \in Devs, Create(w, d) PROVE CtrType'
  <2>1. pkts' \in [Devs -> Counter]
    BY <1>4, CounterOK, DropOK DEF Create, ClearDev, Goto, CtrType
  <2>2. bytes' \in [Devs -> Counter]
    BY <1>4, CounterOK, DropOK DEF Create, ClearDev, Goto, CtrType
  <2>3. wrk_drop' \in [Devs -> 0 .. DROP_MOD - 1]
    BY <1>4, CounterOK, DropOK DEF Create, ClearDev, Goto, CtrType
  <2>. QED
    BY <2>1, <2>2, <2>3 DEF CtrType
<1>5. CASE UNCHANGED ctrVars
  BY <1>5 DEF ctrVars, CtrType
<1>. QED
  BY <1>1, <1>2, <1>3, <1>4, <1>5 DEF Next, vars, IrqNext, WorkerNext, WriterNext,
           tblVars, listVars, ctrVars, thrVars, irqVars, wrVars, Deliver, RecvFind,
           RecvNoDevice, RecvAlloc, WorkerCheck, WorkerExit, WorkerTake,
           WorkerForward, WorkerOops, WorkerLock, WorkerFree, Start, Lock, Show,
           Unregister, ScanEnd, Delete, AddFail, AddLock, AddTail, AddPack, Return,
           KworkAlloc, KworkFreeLock, KworkFree, Goto, ShowUnlock, Finish, Unlock

(* The threads keep their types.                                           *)
LEMMA ThrTypeStep ==
    ASSUME ThrType, IrqType, WrType, LocalsOK, [Next]_vars
    PROVE  ThrType'
<1>1. ASSUME NEW i \in Irqs, RecvQueue(i) PROVE ThrType'
  <2>1. iwrk[i] \in Kworks /\ idev[i] \in Devs
    BY <1>1 DEF RecvQueue, IrqType, LocalsOK, IrqLocals
  <2>2. Append(queue[idev[i]], iwrk[i]) \in Seq(Kworks)
    BY <2>1, AppendMembers DEF ThrType
  <2>3. queue' \in [Devs -> Seq(Kworks)]
    BY <1>1, <2>1, <2>2 DEF RecvQueue, Enqueue, QueueWork, ThrType
  <2>. QED
    BY <1>1, <2>3 DEF RecvQueue, ThrType
<1>2. ASSUME NEW d \in Devs, WorkerCheck(d) \/ WorkerExit(d) \/ WorkerForward(d) \/ WorkerOops(d) \/ WorkerLock(d)
      PROVE  ThrType'
  BY <1>2 DEF WorkerCheck, HasWork, WorkerExit, WorkerForward, WorkerOops, WorkerLock,
           KworkFreeLock, ThrType
<1>3. ASSUME NEW d \in Devs, WorkerTake(d) PROVE ThrType'
  <2>1. queue[d] \in Seq(Kworks) /\ queue[d] # <<>>
    BY <1>3 DEF WorkerTake, LocalsOK, ThrLocals, ThrType
  <2>2. Head(queue[d]) \in Kworks /\ Tail(queue[d]) \in Seq(Kworks)
    BY <2>1, TailMembers
  <2>3. queue' \in [Devs -> Seq(Kworks)]
    BY <1>3, <2>2 DEF WorkerTake, ThrType
  <2>4. cur' \in [Devs -> Kworks \cup {NULL}]
    BY <1>3, <2>2 DEF WorkerTake, ThrType
  <2>. QED
    BY <1>3, <2>3, <2>4 DEF WorkerTake, ThrType
<1>4. ASSUME NEW d \in Devs, WorkerFree(d) PROVE ThrType'
  BY <1>4 DEF WorkerFree, KworkFree, ThrType
<1>5. ASSUME NEW w \in Writers, Delete(w) PROVE ThrType'
  BY <1>5 DEF Delete, Goto, ThrType
<1>6. ASSUME NEW w \in Writers, Join(w) PROVE ThrType'
  <2>1. task' \in [Devs -> {"none", "run", "stopping", "exited", "error"}]
    BY <1>6, EmptySeq DEF Join, Gone, FreeDev, ClearDev, Unlock, Finish, Goto, ThrType
  <2>2. queue' \in [Devs -> Seq(Kworks)]
    BY <1>6, EmptySeq DEF Join, Gone, FreeDev, ClearDev, Unlock, Finish, Goto, ThrType
  <2>3. kpc' \in [Devs -> {"idle", "take", "work", "lock", "free", "dead"}]
    BY <1>6, EmptySeq DEF Join, Gone, FreeDev, ClearDev, Unlock, Finish, Goto, ThrType
  <2>4. cur' \in [Devs -> Kworks \cup {NULL}]
    BY <1>6, EmptySeq DEF Join, Gone, FreeDev, ClearDev, Unlock, Finish, Goto, ThrType
  <2>. QED
    BY <2>1, <2>2, <2>3, <2>4 DEF ThrType
<1>7. ASSUME NEW w \in Writers, NEW d \in Devs, Create(w, d) PROVE ThrType'
  <2>1. task' \in [Devs -> {"none", "run", "stopping", "exited", "error"}]
    BY <1>7 DEF Create, ClearDev, Goto, ThrType
  <2>2. queue' \in [Devs -> Seq(Kworks)]
    BY <1>7 DEF Create, ClearDev, Goto, ThrType
  <2>3. kpc' \in [Devs -> {"idle", "take", "work", "lock", "free", "dead"}]
    BY <1>7 DEF Create, ClearDev, Goto, ThrType
  <2>4. cur' \in [Devs -> Kworks \cup {NULL}]
    BY <1>7 DEF Create, ClearDev, Goto, ThrType
  <2>. QED
    BY <2>1, <2>2, <2>3, <2>4 DEF ThrType
<1>8. CASE UNCHANGED thrVars
  BY <1>8 DEF thrVars, ThrType
<1>. QED
  BY <1>1, <1>2, <1>3, <1>4, <1>5, <1>6, <1>7, <1>8 DEF Next, vars, IrqNext,
           WorkerNext, WriterNext, tblVars, listVars, ctrVars, thrVars, irqVars,
           wrVars, Deliver, RecvFind, RecvNoDevice, RecvAlloc, RecvDrop, Start, Lock,
           Show, Unregister, ScanEnd, AddFail, AddLock, AddTail, AddPack, Return,
           KworkAlloc, CountDrop, Goto, ShowUnlock, Finish, Unlock

(* The headers keep their type.                                            *)
LEMMA SentTypeStep ==
    ASSUME SentType, ThrType, WrkType, SkbType, LocalsOK, CarriesOK, [Next]_vars
    PROVE  SentType'
<1>1. ASSUME NEW d \in Devs, WorkerForward(d) PROVE SentType'
  <2>1. cur[d] \in Kworks /\ wrk[cur[d]].skb \in Frames
    BY <1>1 DEF WorkerForward, ThrType, LocalsOK, ThrLocals, CarriesOK
  <2>2. skblen[wrk[cur[d]].skb] \in Nat
    BY <2>1, SkbLenNat
  <2>3. wrk[cur[d]].pkts \in Counter /\ wrk[cur[d]].bytes \in Counter
    BY <2>1 DEF WrkType
  <2>4. Header(cur[d]) \in [pktid : Counter, bytecnt : Counter, len : Nat]
    BY <2>2, <2>3 DEF Header, HDRLEN
  <2>. QED
    BY <1>1, <2>4 DEF WorkerForward, SentType
<1>2. ASSUME NEW w \in Writers, Join(w) PROVE SentType'
  BY <1>2, CounterOK DEF Join, Gone, FreeDev, ClearDev, Unlock, Finish, Goto,
           SentType, NoHeader, SentType
<1>3. ASSUME NEW w \in Writers, NEW d \in Devs, Create(w, d) PROVE SentType'
  BY <1>3, CounterOK DEF Create, ClearDev, Goto, SentType, NoHeader, SentType
<1>4. CASE UNCHANGED sent
  BY <1>4 DEF SentType
<1>. QED
  BY SMTT(30), <1>1, <1>2, <1>3, <1>4 DEF Next, vars, IrqNext, WorkerNext, WriterNext, tblVars,
           listVars, ctrVars, thrVars, irqVars, wrVars, Deliver, RecvFind,
           RecvNoDevice, RecvAlloc, RecvQueue, RecvDrop, WorkerCheck, WorkerExit,
           WorkerTake, WorkerOops, WorkerLock, WorkerFree, Start, Lock, Show,
           Unregister, ScanEnd, Delete, AddFail, AddLock, AddTail, AddPack, Return,
           KworkAlloc, CountDrop, KworkFreeLock, KworkFree, Goto, ShowUnlock, Finish,
           Unlock

(* The works keep their type.                                              *)
LEMMA WrkTypeStep ==
    ASSUME WrkType, CtrType, IrqType, SkbType, LocalsOK, [Next]_vars
    PROVE  WrkType'
<1>1. ASSUME NEW i \in Irqs, RecvQueue(i) PROVE WrkType'
  <2>1. iwrk[i] \in Kworks /\ idev[i] \in Devs /\ iskb[i] \in Frames
    BY <1>1 DEF RecvQueue, IrqType, LocalsOK, IrqLocals
  <2>2. skblen[iskb[i]] \in Nat
    BY <2>1, SkbLenNat
  <2>3. Stamp(idev[i], iskb[i]) \in [skb : Frames \cup {NULL}, pkts : Counter, bytes : Counter]
    BY <2>1, <2>2, CounterOK DEF Stamp, CtrType
  <2>. QED
    BY <1>1, <2>1, <2>3 DEF RecvQueue, Enqueue, WrkType
<1>2. ASSUME NEW d \in Devs, WorkerFree(d) PROVE WrkType'
  BY <1>2, CounterOK DEF WorkerFree, KworkFree, WrkType, Blank, WrkType
<1>3. CASE UNCHANGED wrk
  BY <1>3 DEF WrkType
<1>. QED
  BY SMTT(30), <1>1, <1>2, <1>3 DEF Next, vars, IrqNext, WorkerNext, WriterNext, tblVars,
           listVars, ctrVars, thrVars, irqVars, wrVars, Deliver, RecvFind,
           RecvNoDevice, RecvAlloc, RecvDrop, WorkerCheck, WorkerExit, WorkerTake,
           WorkerForward, WorkerOops, WorkerLock, Start, Lock, Show, Unregister,
           ScanEnd, Delete, Join, AddFail, Create, AddLock, AddTail, AddPack, Return,
           KworkAlloc, CountDrop, KworkFreeLock, Goto, ShowUnlock, Finish, Unlock,
           FreeDev, ClearDev

(* The softirqs keep their types.                                          *)
LEMMA IrqTypeStep ==
    ASSUME IrqType, ListType, [Next]_vars
    PROVE  IrqType'
<1>1. ASSUME NEW i \in Irqs, NEW d \in ptypes, NEW f \in Frames, NEW n \in Lens,
             NEW t \in Interruptible \cup {NULL}, Deliver(i, d, f, n, t)
      PROVE  IrqType'
  BY <1>1 DEF Deliver, IrqType, ListType
<1>2. ASSUME NEW i \in Irqs, RecvFind(i) PROVE IrqType'
  BY <1>2 DEF RecvFind, IrqType, FirstNamed, ListType
<1>3. ASSUME NEW i \in Irqs, RecvNoDevice(i) \/ RecvDrop(i) PROVE IrqType'
  BY <1>3 DEF RecvNoDevice, Return, RecvDrop, CountDrop, IrqType
<1>4. ASSUME NEW i \in Irqs, RecvAlloc(i) PROVE IrqType'
  BY <1>4 DEF RecvAlloc, KworkAlloc, PopWork, PopNothing, IrqType
<1>5. ASSUME NEW i \in Irqs, RecvQueue(i) PROVE IrqType'
  BY <1>5 DEF RecvQueue, Return, Enqueue, Stamp, QueueWork, IrqType
<1>6. ASSUME NEW w \in Writers, Unregister(w) PROVE IrqType'
  <2>1. gp' \subseteq Irqs
    BY <1>6 DEF Unregister, Goto, Unregistered, InHandler, IrqType
  <2>2. UNCHANGED irqVars
    BY <1>6 DEF Unregister, Goto, Unregistered, InHandler, IrqType
  <2>. QED
    BY <2>1, <2>2 DEF irqVars, IrqType
<1>7. CASE UNCHANGED <<irqVars, gp>>
  BY <1>7 DEF irqVars, IrqType
<1>. QED
  BY <1>1, <1>2, <1>3, <1>4, <1>5, <1>6, <1>7 DEF Next, vars, IrqNext, WorkerNext,
           WriterNext, tblVars, listVars, ctrVars, thrVars, irqVars, wrVars,
           WorkerCheck, WorkerExit, WorkerTake, WorkerForward, WorkerOops, WorkerLock,
           WorkerFree, Start, Lock, Show, ScanEnd, Delete, Join, AddFail, Create,
           AddLock, AddTail, AddPack, KworkFreeLock, KworkFree, Goto, ShowUnlock,
           Finish, Unlock, FreeDev, ClearDev

(* The writers keep their types.                                           *)
LEMMA WrTypeStep ==
    ASSUME WrType, ListType, [Next]_vars
    PROVE  WrType'
<1>1. ASSUME NEW w \in Writers, NEW line \in Script[w], Start(w, line) PROVE WrType'
  <2>1. line.name \in Names \cup {NULL}
    BY LineFacts
  <2>2. Parse(line) \in {"show", "clear", "error", "remove", "add"}
    BY DEF Parse
  <2>3. CASE Parse(line) = "error"
    BY <1>1, <2>3 DEF Start, WrType
  <2>4. CASE Parse(line) # "error"
    BY <1>1, <2>1, <2>2, <2>4 DEF Start, Goto, WrType
  <2>. QED
    BY <2>3, <2>4
<1>2. ASSUME NEW w \in Writers, Lock(w) \/ AddLock(w) \/ AddTail(w) PROVE WrType'
  BY <1>2 DEF Lock, Goto, AddLock, AddTail, WrType
<1>3. ASSUME NEW w \in Writers, Show(w) \/ AddFail(w) \/ AddPack(w) PROVE WrType'
  BY <1>3, NullFacts DEF Show, ShowUnlock, Finish, Goto, AddFail, AddPack, WrType
<1>4. ASSUME NEW w \in Writers, Unregister(w) PROVE WrType'
  <2>1. wdev' \in [Writers -> Devs \cup {NULL}]
    BY <1>4 DEF Unregister, Goto, Unregistered, InHandler, WrType, ListType
  <2>2. wpc' \in [Writers -> {"idle", "lock", "show", "scan", "sync", "join", "oops",
                              "create", "addlock", "addtail", "addpack"}]
    BY <1>4 DEF Unregister, Goto, Unregistered, InHandler, WrType, ListType
  <2>3. UNCHANGED <<wop, wname, budget>>
    BY <1>4 DEF Unregister, Goto, Unregistered, InHandler, WrType, ListType
  <2>. QED
    BY <2>1, <2>2, <2>3 DEF WrType
<1>5. ASSUME NEW w \in Writers, ScanEnd(w) PROVE WrType'
  BY <1>5 DEF ScanEnd, Unlock, Finish, Goto, WrType
<1>6. ASSUME NEW w \in Writers, Delete(w) PROVE WrType'
  BY <1>6 DEF Delete, Goto, WrType
<1>7. ASSUME NEW w \in Writers, Join(w) PROVE WrType'
  BY <1>7 DEF Join, Gone, FreeDev, ClearDev, Unlock, Finish, Goto, WrType
<1>8. ASSUME NEW w \in Writers, NEW d \in Devs, Create(w, d) PROVE WrType'
  BY <1>8 DEF Create, ClearDev, Goto, WrType
<1>9. CASE UNCHANGED wrVars
  BY <1>9 DEF wrVars, WrType
<1>. QED
  BY <1>1, <1>2, <1>3, <1>4, <1>5, <1>6, <1>7, <1>8, <1>9 DEF Next, vars, IrqNext,
           WorkerNext, WriterNext, tblVars, listVars, ctrVars, thrVars, irqVars,
           wrVars, Deliver, RecvFind, RecvNoDevice, RecvAlloc, RecvQueue, RecvDrop,
           WorkerCheck, WorkerExit, WorkerTake, WorkerForward, WorkerOops, WorkerLock,
           WorkerFree, Return, KworkAlloc, CountDrop, KworkFreeLock, KworkFree

(* The frames keep their type.                                             *)
LEMMA SkbTypeStep ==
    ASSUME SkbType, [Next]_vars
    PROVE  SkbType'
<1>1. ASSUME NEW i \in Irqs, NEW d \in ptypes, NEW f \in Frames, NEW n \in Lens,
             NEW t \in Interruptible \cup {NULL}, Deliver(i, d, f, n, t)
      PROVE  SkbType'
  BY <1>1 DEF Deliver, SkbType, SkbType
<1>2. ASSUME NEW d \in Devs, WorkerForward(d) PROVE SkbType'
  BY <1>2 DEF WorkerForward, SkbType, SkbType
<1>3. CASE UNCHANGED skblen
  BY <1>3 DEF SkbType
<1>. QED
  BY <1>1, <1>2, <1>3 DEF Next, vars, IrqNext, WorkerNext, WriterNext, tblVars,
           listVars, ctrVars, thrVars, irqVars, wrVars, RecvFind, RecvNoDevice,
           RecvAlloc, RecvQueue, RecvDrop, WorkerCheck, WorkerExit, WorkerTake,
           WorkerOops, WorkerLock, WorkerFree, Start, Lock, Show, Unregister, ScanEnd,
           Delete, Join, AddFail, Create, AddLock, AddTail, AddPack, Return,
           KworkAlloc, CountDrop, KworkFreeLock, KworkFree, Goto, ShowUnlock, Finish,
           Unlock, FreeDev, ClearDev

----------------------------------------------------------------------------
(* Locals *)

(* The locals of a receive handler are set when it uses them.              *)
LEMMA IrqLocalsStep ==
    ASSUME IrqLocals, IrqType, ListType, [Next]_vars
    PROVE  IrqLocals'
<1>1. ASSUME NEW i \in Irqs, NEW d \in ptypes, NEW f \in Frames, NEW n \in Lens,
             NEW t \in Interruptible \cup {NULL}, Deliver(i, d, f, n, t)
      PROVE  IrqLocals'
  BY <1>1 DEF Deliver, IrqLocals, IrqType
<1>2. ASSUME NEW i \in Irqs, RecvFind(i) PROVE IrqLocals'
  BY <1>2 DEF RecvFind, IrqLocals, FirstNamed, IrqType, ListType
<1>3. ASSUME NEW i \in Irqs, RecvNoDevice(i) \/ RecvDrop(i) PROVE IrqLocals'
  BY <1>3 DEF RecvNoDevice, Return, RecvDrop, CountDrop, IrqLocals, IrqType
<1>4. ASSUME NEW i \in Irqs, RecvAlloc(i) PROVE IrqLocals'
  BY <1>4 DEF RecvAlloc, KworkAlloc, PopWork, PopNothing, IrqLocals, IrqType
<1>5. ASSUME NEW i \in Irqs, RecvQueue(i) PROVE IrqLocals'
  BY <1>5 DEF RecvQueue, Return, Enqueue, Stamp, QueueWork, IrqLocals, IrqType
<1>6. CASE UNCHANGED irqVars
  BY <1>6 DEF irqVars, IrqLocals
<1>. QED
  BY <1>1, <1>2, <1>3, <1>4, <1>5, <1>6 DEF Next, vars, IrqNext, WorkerNext,
           WriterNext, tblVars, listVars, ctrVars, thrVars, irqVars, wrVars,
           WorkerCheck, WorkerExit, WorkerTake, WorkerForward, WorkerOops, WorkerLock,
           WorkerFree, Start, Lock, Show, Unregister, ScanEnd, Delete, Join, AddFail,
           Create, AddLock, AddTail, AddPack, KworkFreeLock, KworkFree, Goto,
           ShowUnlock, Finish, Unlock, FreeDev, ClearDev

(* A thread that is to take a work has one on its list, and a thread runs  *)
(* a work from the time it takes it until it has freed it.                 *)
LEMMA ThrLocalsStep ==
    ASSUME ThrLocals, ThreadOK, ThrType, IrqType, IrqLocals, [Next]_vars
    PROVE  ThrLocals'
<1>1. ASSUME NEW i \in Irqs, RecvQueue(i) PROVE ThrLocals'
  <2>1. iwrk[i] \in Kworks /\ idev[i] \in Devs
    BY <1>1 DEF RecvQueue, IrqType, IrqLocals
  <2>2. Append(queue[idev[i]], iwrk[i]) # <<>>
    <3>1. queue[idev[i]] \in Seq(Kworks)
      BY <2>1 DEF ThrType
    <3>. QED
      BY <2>1, <3>1, AppendProperties
  <2>. QED
    BY <1>1, <2>1, <2>2 DEF RecvQueue, Enqueue, QueueWork, ThrLocals, ThrType
<1>2. ASSUME NEW d \in Devs, WorkerCheck(d) \/ WorkerForward(d) \/ WorkerOops(d) \/ WorkerLock(d)
      PROVE  ThrLocals'
  BY <1>2 DEF WorkerCheck, HasWork, WorkerForward, WorkerOops, WorkerLock,
           KworkFreeLock, ThrLocals, ThrType
<1>3. ASSUME NEW d \in Devs, WorkerExit(d) PROVE ThrLocals'
  BY <1>3 DEF WorkerExit, ThrLocals
<1>4. ASSUME NEW w \in Writers, Delete(w) PROVE ThrLocals'
  BY <1>4 DEF Delete, Goto, ThrLocals
<1>5. ASSUME NEW d \in Devs, WorkerTake(d) PROVE ThrLocals'
  <2>1. Head(queue[d]) \in Kworks
    BY <1>5, TailMembers DEF WorkerTake, ThrLocals, ThrType
  <2>. QED
    BY <1>5, <2>1, NullFacts DEF WorkerTake, ThrLocals, ThrType
<1>6. ASSUME NEW d \in Devs, WorkerFree(d) PROVE ThrLocals'
  BY <1>6 DEF WorkerFree, KworkFree, ThrLocals, ThrType
<1>7. ASSUME NEW w \in Writers, Join(w) PROVE ThrLocals'
  BY <1>7 DEF Join, Gone, FreeDev, ClearDev, Unlock, Finish, Goto, ThrLocals, ThrType
<1>8. ASSUME NEW w \in Writers, NEW d \in Devs, Create(w, d) PROVE ThrLocals'
  <2>1. task[d] = "none"
    BY <1>8 DEF Create, ThreadOK
  <2>2. kpc[d] = "idle" /\ cur[d] = NULL
    BY <2>1 DEF ThreadOK, ThrLocals, ThrType
  <2>. QED
    BY <1>8, <2>2 DEF Create, ClearDev, ThrLocals, ThrType
<1>9. CASE UNCHANGED <<queue, kpc, cur>>
  BY <1>9 DEF ThrLocals
<1>. QED
  BY <1>1, <1>2, <1>3, <1>4, <1>5, <1>6, <1>7, <1>8, <1>9 DEF Next, vars, IrqNext,
           WorkerNext, WriterNext, tblVars, listVars, ctrVars, thrVars, irqVars,
           wrVars, Deliver, RecvFind, RecvNoDevice, RecvAlloc, RecvDrop, Start, Lock,
           Show, Unregister, ScanEnd, AddFail, AddLock, AddTail, AddPack, Return,
           KworkAlloc, CountDrop, Goto, ShowUnlock, Finish, Unlock

(* A writer knows its device when it deletes or appends it.                *)
LEMMA WrLocalsStep ==
    ASSUME WrLocals, WrType, ListType, [Next]_vars
    PROVE  WrLocals'
<1>1. ASSUME NEW w \in Writers, NEW line \in Script[w], Start(w, line)
      PROVE  WrLocals'
  BY <1>1 DEF Start, Goto, WrLocals, WrType
<1>2. ASSUME NEW w \in Writers, Lock(w) \/ AddLock(w) \/ AddTail(w) PROVE WrLocals'
  BY <1>2 DEF Lock, Goto, AddLock, AddTail, WrLocals, WrType
<1>3. ASSUME NEW w \in Writers, Show(w) \/ AddFail(w) \/ AddPack(w) PROVE WrLocals'
  BY <1>3 DEF Show, ShowUnlock, Finish, Goto, AddFail, AddPack, WrLocals, WrType
<1>4. ASSUME NEW w \in Writers, Unregister(w) PROVE WrLocals'
  BY <1>4 DEF Unregister, Goto, Unregistered, InHandler, WrLocals, WrType, ListType
<1>5. ASSUME NEW w \in Writers, ScanEnd(w) PROVE WrLocals'
  BY <1>5 DEF ScanEnd, Unlock, Finish, Goto, WrLocals, WrType
<1>6. ASSUME NEW w \in Writers, Delete(w) PROVE WrLocals'
  BY <1>6 DEF Delete, Goto, WrLocals, WrType
<1>7. ASSUME NEW w \in Writers, Join(w) PROVE WrLocals'
  BY <1>7 DEF Join, Gone, FreeDev, ClearDev, Unlock, Finish, Goto, WrLocals, WrType
<1>8. ASSUME NEW w \in Writers, NEW d \in Devs, Create(w, d) PROVE WrLocals'
  BY <1>8 DEF Create, ClearDev, Goto, WrLocals, WrType
<1>9. CASE UNCHANGED wrVars
  BY <1>9 DEF wrVars, WrLocals
<1>. QED
  BY <1>1, <1>2, <1>3, <1>4, <1>5, <1>6, <1>7, <1>8, <1>9 DEF Next, vars, IrqNext,
           WorkerNext, WriterNext, tblVars, listVars, ctrVars, thrVars, irqVars,
           wrVars, Deliver, RecvFind, RecvNoDevice, RecvAlloc, RecvQueue, RecvDrop,
           WorkerCheck, WorkerExit, WorkerTake, WorkerForward, WorkerOops, WorkerLock,
           WorkerFree, Return, KworkAlloc, CountDrop, KworkFreeLock, KworkFree

----------------------------------------------------------------------------
(* Locks and devices *)

(* A writer moves alone.                                                   *)
LEMMA GotoMoves ==
    ASSUME WrType, NEW w \in Writers, NEW pc, Goto(w, pc)
    PROVE  wpc'[w] = pc /\ \A v \in Writers : v # w => wpc'[v] = wpc[v]
BY DEF WrType, Goto

(* The lock of the device list is owned by the writer in a critical        *)
(* section.                                                                *)
LEMMA LockStep ==
    ASSUME LockOK, WrType, [Next]_vars
    PROVE  LockOK'
<1>1. ASSUME NEW w \in Writers, NEW line \in Script[w], Start(w, line) PROVE LockOK'
  <2>1. CASE Parse(line) = "error"
    BY <1>1, <2>1 DEF Start, LockOK, listVars
  <2>2. CASE Parse(line) # "error"
    BY <1>1, <2>2, GotoMoves DEF Start, LockOK, Critical, listVars
  <2>. QED
    BY <2>1, <2>2
<1>2. ASSUME NEW w \in Writers, Lock(w) PROVE LockOK'
  BY <1>2, GotoMoves, NullFacts DEF Lock, LockOK, Critical
<1>3. ASSUME NEW w \in Writers, Show(w) PROVE LockOK'
  BY <1>3, GotoMoves, NullFacts DEF Show, ShowUnlock, Finish, LockOK, Critical
<1>4. ASSUME NEW w \in Writers, Unregister(w) PROVE LockOK'
  BY <1>4, GotoMoves, NullFacts DEF Unregister, LockOK, Critical
<1>5. ASSUME NEW w \in Writers, ScanEnd(w) PROVE LockOK'
  BY <1>5, GotoMoves, NullFacts DEF ScanEnd, Unlock, Finish, LockOK, Critical
<1>6. ASSUME NEW w \in Writers, Delete(w) PROVE LockOK'
  BY <1>6, GotoMoves, NullFacts DEF Delete, LockOK, Critical
<1>7. ASSUME NEW w \in Writers, Join(w) PROVE LockOK'
  BY <1>7, GotoMoves, NullFacts DEF Join, Unlock, Finish, LockOK, Critical
<1>8. ASSUME NEW w \in Writers, AddFail(w) PROVE LockOK'
  BY <1>8, GotoMoves, NullFacts DEF AddFail, Finish, listVars, LockOK, Critical
<1>9. ASSUME NEW w \in Writers, NEW d \in Devs, Create(w, d) PROVE LockOK'
  BY <1>9, GotoMoves, NullFacts DEF Create, LockOK, Critical
<1>10. ASSUME NEW w \in Writers, AddLock(w) PROVE LockOK'
  BY <1>10, GotoMoves, NullFacts DEF AddLock, LockOK, Critical
<1>11. ASSUME NEW w \in Writers, AddTail(w) PROVE LockOK'
  BY <1>11, GotoMoves, NullFacts DEF AddTail, LockOK, Critical
<1>12. ASSUME NEW w \in Writers, AddPack(w) PROVE LockOK'
  BY <1>12, GotoMoves, NullFacts DEF AddPack, Finish, LockOK, Critical
<1>13. CASE UNCHANGED <<devlock, wpc>>
  BY <1>13 DEF LockOK, Critical
<1>. QED
  BY <1>1, <1>2, <1>3, <1>4, <1>5, <1>6, <1>7, <1>8, <1>9, <1>10, <1>11, <1>12, <1>13
           DEF Next, vars, IrqNext, WorkerNext, WriterNext, tblVars, listVars,
           ctrVars, thrVars, irqVars, wrVars, Deliver, RecvFind, RecvNoDevice,
           RecvAlloc, RecvQueue, RecvDrop, WorkerCheck, WorkerExit, WorkerTake,
           WorkerForward, WorkerOops, WorkerLock, WorkerFree, Return, KworkAlloc,
           CountDrop, KworkFreeLock, KworkFree

(* The list keeps its members distinct and allocated, and what a writer    *)
(* holds outside of it stays its own.                                      *)
LEMMA ListFrame ==
    ASSUME ListOK, UNCHANGED <<devlist, alive, wpc, wdev>>
    PROVE  ListOK'
BY DEF ListOK

LEMMA ListMove ==
    ASSUME ListOK, WrType, NEW w \in Writers, NEW pc, Goto(w, pc),
           UNCHANGED <<devlist, alive, wdev>>,
           pc \in Unlisted => wpc[w] \in Unlisted,
           pc # "sync"
    PROVE  ListOK'
<1>1. wpc'[w] = pc /\ \A v \in Writers : v # w => wpc'[v] = wpc[v]
  BY GotoMoves
<1>2. \A v \in Writers : wpc'[v] \in Unlisted => wpc[v] \in Unlisted
  BY <1>1
<1>3. \A v \in Writers : wpc'[v] = "sync" => wpc[v] = "sync"
  BY <1>1
<1>. QED
  BY <1>2, <1>3 DEF ListOK

(* The list keeps its members distinct and allocated, and what a writer    *)
(* holds outside of it stays its own.                                      *)
LEMMA ListStep ==
    ASSUME ListOK, LockOK, ListType, WrType, WrLocals, [Next]_vars
    PROVE  ListOK'
<1>1. ASSUME NEW w \in Writers, NEW line \in Script[w], Start(w, line) PROVE ListOK'
  <2>1. CASE Parse(line) = "error"
    BY <1>1, <2>1, ListFrame DEF Start, listVars, wrVars
  <2>2. CASE Parse(line) # "error"
    BY <1>1, <2>2, ListMove DEF Start, listVars, Unlisted
  <2>. QED
    BY <2>1, <2>2
<1>2. ASSUME NEW w \in Writers, Lock(w) PROVE ListOK'
  BY <1>2, ListMove DEF Lock, Unlisted
<1>3. ASSUME NEW w \in Writers, Show(w) PROVE ListOK'
  BY <1>3, ListMove DEF Show, Finish, Unlisted
<1>4. ASSUME NEW w \in Writers, Unregister(w) PROVE ListOK'
  <2>1. PICK j \in 1 .. Len(devlist) : wdev' = [wdev EXCEPT ![w] = devlist[j]]
    BY <1>4 DEF Unregister
  <2>2. wdev'[w] = devlist[j] /\ \A v \in Writers : v # w => wdev'[v] = wdev[v]
    BY <2>1 DEF WrType
  <2>3. wpc'[w] = "sync" /\ \A v \in Writers : v # w => wpc'[v] = wpc[v]
    BY <1>4, GotoMoves DEF Unregister
  <2>4. UNCHANGED <<devlist, alive>>
    BY <1>4 DEF Unregister
  <2>. QED
    BY <2>2, <2>3, <2>4 DEF ListOK, Unlisted
<1>5. ASSUME NEW w \in Writers, ScanEnd(w) PROVE ListOK'
  BY <1>5, ListMove DEF ScanEnd, Unlock, Finish, Unlisted
<1>6. ASSUME NEW w \in Writers, Delete(w) PROVE ListOK'
  <2>1. PICK j \in 1 .. Len(devlist) :
              devlist[j] = wdev[w] /\ devlist' = RemoveAt(devlist, j)
    BY <1>6 DEF Delete
  <2>2. PICK pc \in {"join", "oops"} : Goto(w, pc)
    BY <1>6 DEF Delete
  <2>3. wpc'[w] = pc /\ \A v \in Writers : v # w => wpc'[v] = wpc[v]
    BY <2>2, GotoMoves
  <2>4. UNCHANGED <<alive, wdev>>
    BY <1>6 DEF Delete
  <2>5. /\ \A n \in 1 .. Len(devlist') : devlist'[n] \in alive
        /\ \A m, n \in 1 .. Len(devlist') : devlist'[m] = devlist'[n] => m = n
        /\ \A n \in 1 .. Len(devlist') : devlist'[n] # wdev[w]
        /\ \A n \in 1 .. Len(devlist') : \E m \in 1 .. Len(devlist) : devlist'[n] = devlist[m]
    <3>1. devlist \in Seq(Devs)
      BY DEF ListType
    <3>2. /\ \A n \in 1 .. Len(RemoveAt(devlist, j)) :
                 \E m \in 1 .. Len(devlist) : m # j /\ RemoveAt(devlist, j)[n] = devlist[m]
          /\ (\A m, n \in 1 .. Len(devlist) : devlist[m] = devlist[n] => m = n) =>
                 /\ \A m, n \in 1 .. Len(RemoveAt(devlist, j)) :
                        RemoveAt(devlist, j)[m] = RemoveAt(devlist, j)[n] => m = n
                 /\ \A n \in 1 .. Len(RemoveAt(devlist, j)) :
                        RemoveAt(devlist, j)[n] # devlist[j]
      BY <3>1, RemoveAtMembers
    <3>. QED
      BY <2>1, <3>2 DEF ListOK
  <2>6. \A v \in Writers : v # w => wpc[v] # "sync"
    BY <1>6 DEF Delete, LockOK, Critical
  <2>7. wdev[w] \in alive
    BY <2>1 DEF ListOK
  <2>8. \A v \in Writers : v # w /\ wpc[v] \in Unlisted => wdev[v] # wdev[w]
    BY <2>1 DEF ListOK
  <2>9. \A v \in Writers : wpc'[v] # "sync"
    BY <2>3, <2>6
  <2>10. \A v \in Writers : wpc'[v] \in Unlisted => v = w \/ wpc[v] \in Unlisted
    BY <2>3
  <2>11. \A v \in Writers : wpc'[v] \in Unlisted =>
             /\ wdev[v] \in alive
             /\ \A n \in 1 .. Len(devlist') : devlist'[n] # wdev[v]
    BY <2>5, <2>7, <2>10 DEF ListOK
  <2>12. \A u, v \in Writers :
             u # v /\ wpc'[u] \in Unlisted /\ wpc'[v] \in Unlisted => wdev[u] # wdev[v]
    BY <2>8, <2>10 DEF ListOK
  <2>. QED
    BY <2>4, <2>5, <2>9, <2>11, <2>12 DEF ListOK
<1>7. ASSUME NEW w \in Writers, Join(w) PROVE ListOK'
  <2>1. PICK pc \in {"scan", "create", "idle"} : Goto(w, pc)
    BY <1>7 DEF Join, Unlock, Finish
  <2>2. wpc'[w] = pc /\ \A v \in Writers : v # w => wpc'[v] = wpc[v]
    BY <2>1, GotoMoves
  <2>3. \A v \in Writers : v # w => wdev'[v] = wdev[v]
    BY <1>7 DEF Join, WrType
  <2>4. alive' = alive \ {wdev[w]} /\ UNCHANGED devlist
    BY <1>7 DEF Join, Gone, FreeDev
  <2>5. wpc[w] \in Unlisted
    BY <1>7 DEF Join, Unlisted
  <2>. QED
    BY <2>1, <2>2, <2>3, <2>4, <2>5 DEF ListOK, Unlisted
<1>8. ASSUME NEW w \in Writers, AddFail(w) PROVE ListOK'
  BY <1>8, ListMove DEF AddFail, Finish, Unlisted, listVars
<1>9. ASSUME NEW w \in Writers, NEW d \in Devs, Create(w, d) PROVE ListOK'
  <2>1. wpc'[w] = "addlock" /\ \A v \in Writers : v # w => wpc'[v] = wpc[v]
    BY <1>9, GotoMoves DEF Create
  <2>2. wdev'[w] = d /\ \A v \in Writers : v # w => wdev'[v] = wdev[v]
    BY <1>9 DEF Create, WrType
  <2>3. alive' = alive \cup {d} /\ d \notin alive /\ UNCHANGED devlist
    BY <1>9 DEF Create
  <2>. QED
    BY <2>1, <2>2, <2>3 DEF ListOK, Unlisted
<1>10. ASSUME NEW w \in Writers, AddLock(w) PROVE ListOK'
  BY <1>10, ListMove DEF AddLock, Unlisted
<1>11. ASSUME NEW w \in Writers, AddTail(w) PROVE ListOK'
  <2>1. wpc'[w] = "addpack" /\ \A v \in Writers : v # w => wpc'[v] = wpc[v]
    BY <1>11, GotoMoves DEF AddTail
  <2>2. wdev[w] \in Devs /\ devlist' = Append(devlist, wdev[w]) /\ UNCHANGED <<alive, wdev>>
    BY <1>11 DEF AddTail, WrLocals
  <2>3. /\ Len(devlist') = Len(devlist) + 1 /\ Len(devlist) \in Nat
        /\ \A n \in 1 .. Len(devlist) + 1 :
               devlist'[n] = IF n = Len(devlist) + 1 THEN wdev[w] ELSE devlist[n]
    BY <2>2, AppendMembers DEF ListType
  <2>4. /\ wdev[w] \in alive
        /\ \A n \in 1 .. Len(devlist) : devlist[n] # wdev[w]
        /\ \A v \in Writers : v # w /\ wpc[v] \in Unlisted => wdev[v] # wdev[w]
    BY <1>11 DEF AddTail, ListOK, Unlisted
  <2>5. /\ \A n \in 1 .. Len(devlist') : devlist'[n] \in alive'
        /\ \A m, n \in 1 .. Len(devlist') : devlist'[m] = devlist'[n] => m = n
    BY <2>2, <2>3, <2>4 DEF ListOK
  <2>6. \A v \in Writers : wpc'[v] \in Unlisted =>
            \A n \in 1 .. Len(devlist') : devlist'[n] # wdev'[v]
    BY <2>1, <2>2, <2>3, <2>4 DEF ListOK, Unlisted
  <2>7. \A v \in Writers : wpc'[v] = "sync" =>
            \E n \in 1 .. Len(devlist') : devlist'[n] = wdev'[v]
    BY <1>11, <2>1 DEF AddTail, LockOK, Critical
  <2>. QED
    BY <2>1, <2>2, <2>5, <2>6, <2>7 DEF ListOK, Unlisted
<1>12. ASSUME NEW w \in Writers, AddPack(w) PROVE ListOK'
  <2>1. wpc'[w] = "idle" /\ \A v \in Writers : v # w => wpc'[v] = wpc[v]
    BY <1>12, GotoMoves DEF AddPack, Finish
  <2>2. \A v \in Writers : v # w => wdev'[v] = wdev[v]
    BY <1>12 DEF AddPack, WrType
  <2>3. UNCHANGED <<devlist, alive>>
    BY <1>12 DEF AddPack
  <2>. QED
    BY <2>1, <2>2, <2>3 DEF ListOK, Unlisted
<1>13. CASE UNCHANGED <<devlist, alive, wpc, wdev>>
  BY <1>13 DEF ListOK
<1>. QED
  BY <1>1, <1>2, <1>3, <1>4, <1>5, <1>6, <1>7, <1>8, <1>9, <1>10, <1>11, <1>12, <1>13
           DEF Next, vars, IrqNext, WorkerNext, WriterNext, tblVars, listVars,
           ctrVars, thrVars, irqVars, wrVars, Deliver, RecvFind, RecvNoDevice,
           RecvAlloc, RecvQueue, RecvDrop, WorkerCheck, WorkerExit, WorkerTake,
           WorkerForward, WorkerOops, WorkerLock, WorkerFree, Return, KworkAlloc,
           CountDrop, KworkFreeLock, KworkFree

(* A thread runs only for an allocated device, and not once it has exited. *)
LEMMA ThreadStep ==
    ASSUME ThreadOK, ThrLocals, RecvDeviceListed, ListOK, ThrType, IrqType, WrType,
           IrqLocals, WrLocals, [Next]_vars
    PROVE  ThreadOK'
<1>1. ASSUME NEW i \in Irqs, RecvQueue(i) PROVE ThreadOK'
  <2>1. idev[i] \in alive
    BY <1>1 DEF RecvQueue, RecvDeviceListed, ListOK
  <2>2. \A d \in Devs : d # idev[i] => queue'[d] = queue[d]
    BY <1>1 DEF RecvQueue, Enqueue, QueueWork, ThrType
  <2>3. UNCHANGED <<task, kpc, alive>>
    BY <1>1 DEF RecvQueue, listVars
  <2>. QED
    BY <2>1, <2>2, <2>3 DEF ThreadOK
<1>2. ASSUME NEW d \in Devs, WorkerCheck(d) PROVE ThreadOK'
  BY <1>2 DEF WorkerCheck, ThreadOK, ThrType, listVars
<1>3. ASSUME NEW d \in Devs, WorkerExit(d) PROVE ThreadOK'
  BY <1>3 DEF WorkerExit, ThreadOK, ThrType, listVars
<1>4. ASSUME NEW d \in Devs, WorkerTake(d) PROVE ThreadOK'
  <2>1. queue[d] # <<>>
    BY <1>4 DEF WorkerTake, ThrLocals
  <2>. QED
    BY <1>4, <2>1 DEF WorkerTake, ThreadOK, ThrType, listVars
<1>5. ASSUME NEW d \in Devs, WorkerForward(d) PROVE ThreadOK'
  BY <1>5 DEF WorkerForward, ThreadOK, ThrType, listVars
<1>6. ASSUME NEW d \in Devs, WorkerOops(d) PROVE ThreadOK'
  BY <1>6 DEF WorkerOops, ThreadOK, ThrType, listVars
<1>7. ASSUME NEW d \in Devs, WorkerLock(d) PROVE ThreadOK'
  BY <1>7 DEF WorkerLock, ThreadOK, ThrType, listVars
<1>8. ASSUME NEW d \in Devs, WorkerFree(d) PROVE ThreadOK'
  BY <1>8 DEF WorkerFree, ThreadOK, ThrType, listVars
<1>9. ASSUME NEW w \in Writers, Delete(w) PROVE ThreadOK'
  BY <1>9 DEF Delete, ThreadOK, ThrType
<1>10. ASSUME NEW w \in Writers, Join(w) PROVE ThreadOK'
  <2>1. wdev[w] \in Devs
    BY <1>10 DEF Join, WrLocals
  <2>2. /\ task'[wdev[w]] = "none" /\ kpc'[wdev[w]] = "idle" /\ queue'[wdev[w]] = <<>>
        /\ alive' = alive \ {wdev[w]}
    BY <1>10, <2>1 DEF Join, Gone, FreeDev, ClearDev, ThrType
  <2>3. \A d \in Devs : d # wdev[w] =>
            task'[d] = task[d] /\ kpc'[d] = kpc[d] /\ queue'[d] = queue[d]
    BY <1>10 DEF Join, Gone, FreeDev, ClearDev, ThrType
  <2>. QED
    BY <2>1, <2>2, <2>3 DEF ThreadOK
<1>11. ASSUME NEW w \in Writers, NEW d \in Devs, Create(w, d) PROVE ThreadOK'
  <2>1. kpc'[d] = "idle" /\ d \in alive' /\ alive \subseteq alive' /\ UNCHANGED queue
    BY <1>11 DEF Create, ClearDev, ThrType
  <2>2. \A e \in Devs : e # d => task'[e] = task[e] /\ kpc'[e] = kpc[e]
    BY <1>11 DEF Create, ClearDev, ThrType
  <2>. QED
    BY <2>1, <2>2 DEF ThreadOK
<1>12. CASE UNCHANGED <<alive, task, kpc, queue>>
  BY <1>12 DEF ThreadOK
<1>. QED
  BY <1>1, <1>2, <1>3, <1>4, <1>5, <1>6, <1>7, <1>8, <1>9, <1>10, <1>11, <1>12 DEF
           Next, vars, IrqNext, WorkerNext, WriterNext, tblVars, listVars, ctrVars,
           thrVars, irqVars, wrVars, Deliver, RecvFind, RecvNoDevice, RecvAlloc,
           RecvDrop, Start, Lock, Show, Unregister, ScanEnd, AddFail, AddLock,
           AddTail, AddPack, Return, KworkAlloc, CountDrop, Goto, ShowUnlock, Finish,
           Unlock

(* While a writer waits for the grace period, the list does not change and *)
(* every handler that uses a device was in flight when the wait began.     *)
LEMMA GraceMove ==
    ASSUME GraceOK, WrType, NEW w \in Writers, NEW pc, Goto(w, pc), pc # "sync",
           UNCHANGED <<devlist, ipc, idev, gp>>
    PROVE  GraceOK'
<1>1. \A v \in Writers : wpc'[v] = "sync" => wpc[v] = "sync"
  BY GotoMoves
<1>. QED
  BY <1>1 DEF GraceOK, RecvDeviceListed

(* A handler past its lookup holds a listed device, and a grace period     *)
(* that started later waits for it.                                        *)
LEMMA GraceStep ==
    ASSUME GraceOK, LockOK, ListType, IrqType, WrType, WrLocals, [Next]_vars
    PROVE  GraceOK'
<1>1. ASSUME NEW i \in Irqs, NEW d \in ptypes, NEW f \in Frames, NEW n \in Lens,
             NEW t \in Interruptible \cup {NULL}, Deliver(i, d, f, n, t)
      PROVE  GraceOK'
  <2>1. ipc'[i] = "find" /\ \A h \in Irqs : h # i => ipc'[h] = ipc[h]
    BY <1>1 DEF Deliver, IrqType
  <2>2. UNCHANGED <<devlist, idev, gp, wpc>>
    BY <1>1 DEF Deliver, listVars, wrVars
  <2>. QED
    BY <2>1, <2>2 DEF GraceOK, RecvDeviceListed
<1>2. ASSUME NEW i \in Irqs, RecvFind(i) PROVE GraceOK'
  <2>1. PICK j \in 1 .. Len(devlist) : idev' = [idev EXCEPT ![i] = devlist[j]]
    BY <1>2 DEF RecvFind
  <2>2. idev'[i] = devlist[j] /\ \A h \in Irqs : h # i => idev'[h] = idev[h] /\ ipc'[h] = ipc[h]
    BY <1>2, <2>1 DEF RecvFind, IrqType
  <2>3. \A w \in Writers : wpc[w] # "sync"
    BY <1>2, NullFacts DEF RecvFind, LockOK, Critical
  <2>4. UNCHANGED <<devlist, wpc>>
    BY <1>2 DEF RecvFind, listVars, wrVars
  <2>. QED
    BY <2>2, <2>3, <2>4 DEF GraceOK, RecvDeviceListed
<1>3. ASSUME NEW i \in Irqs, RecvNoDevice(i) PROVE GraceOK'
  <2>1. ipc'[i] = "idle" /\ \A h \in Irqs : h # i => ipc'[h] = ipc[h] /\ idev'[h] = idev[h]
    BY <1>3 DEF RecvNoDevice, Return, IrqType
  <2>2. gp' = gp \ {i} /\ UNCHANGED <<devlist, wpc>>
    BY <1>3 DEF RecvNoDevice, Return, listVars, wrVars
  <2>. QED
    BY <2>1, <2>2 DEF GraceOK, RecvDeviceListed
<1>4. ASSUME NEW i \in Irqs, RecvQueue(i) PROVE GraceOK'
  <2>1. ipc'[i] = "idle" /\ \A h \in Irqs : h # i => ipc'[h] = ipc[h] /\ idev'[h] = idev[h]
    BY <1>4 DEF RecvQueue, Return, IrqType
  <2>2. gp' = gp \ {i} /\ UNCHANGED <<devlist, wpc>>
    BY <1>4 DEF RecvQueue, Return, listVars, wrVars
  <2>. QED
    BY <2>1, <2>2 DEF GraceOK, RecvDeviceListed
<1>5. ASSUME NEW i \in Irqs, RecvDrop(i) PROVE GraceOK'
  <2>1. ipc'[i] = "idle" /\ \A h \in Irqs : h # i => ipc'[h] = ipc[h] /\ idev'[h] = idev[h]
    BY <1>5 DEF RecvDrop, Return, IrqType
  <2>2. gp' = gp \ {i} /\ UNCHANGED <<devlist, wpc>>
    BY <1>5 DEF RecvDrop, Return, listVars, wrVars
  <2>. QED
    BY <2>1, <2>2 DEF GraceOK, RecvDeviceListed
<1>6. ASSUME NEW i \in Irqs, RecvAlloc(i) PROVE GraceOK'
  <2>1. \A h \in Irqs : ipc'[h] \in {"alloc", "lock"} => ipc[h] \in {"alloc", "lock"}
    BY <1>6 DEF RecvAlloc, IrqType
  <2>2. UNCHANGED <<devlist, idev, gp, wpc>>
    BY <1>6 DEF RecvAlloc, listVars, wrVars
  <2>. QED
    BY <2>1, <2>2 DEF GraceOK, RecvDeviceListed
<1>7. ASSUME NEW w \in Writers, NEW line \in Script[w], Start(w, line) PROVE GraceOK'
  <2>1. CASE Parse(line) = "error"
    BY <1>7, <2>1 DEF Start, GraceOK, RecvDeviceListed, irqVars, listVars
  <2>2. CASE Parse(line) # "error"
    BY <1>7, <2>2, GraceMove DEF Start, irqVars, listVars
  <2>. QED
    BY <2>1, <2>2
<1>8. ASSUME NEW w \in Writers, Lock(w) PROVE GraceOK'
  BY <1>8, GraceMove DEF Lock, irqVars
<1>9. ASSUME NEW w \in Writers, Show(w) PROVE GraceOK'
  BY <1>9, GraceMove DEF Show, Finish, irqVars
<1>10. ASSUME NEW w \in Writers, Unregister(w) PROVE GraceOK'
  <2>1. gp' = {i \in Irqs : ipc[i] # "idle"}
    BY <1>10 DEF Unregister, InHandler
  <2>2. UNCHANGED <<ipc, idev, devlist>>
    BY <1>10 DEF Unregister, irqVars
  <2>. QED
    BY <2>1, <2>2 DEF GraceOK, RecvDeviceListed
<1>11. ASSUME NEW w \in Writers, ScanEnd(w) PROVE GraceOK'
  BY <1>11, GraceMove DEF ScanEnd, Unlock, Finish, irqVars
<1>12. ASSUME NEW w \in Writers, Delete(w) PROVE GraceOK'
  <2>1. \A i \in Irqs : ipc[i] \notin {"alloc", "lock"}
    BY <1>12 DEF Delete, GraceOK
  <2>2. UNCHANGED ipc
    BY <1>12 DEF Delete, irqVars
  <2>. QED
    BY <2>1, <2>2 DEF GraceOK, RecvDeviceListed
<1>13. ASSUME NEW w \in Writers, Join(w) PROVE GraceOK'
  BY <1>13, GraceMove DEF Join, Unlock, Finish, irqVars
<1>14. ASSUME NEW w \in Writers, AddFail(w) PROVE GraceOK'
  BY <1>14, GraceMove DEF AddFail, Finish, irqVars, listVars
<1>15. ASSUME NEW w \in Writers, NEW d \in Devs, Create(w, d) PROVE GraceOK'
  BY <1>15, GraceMove DEF Create, irqVars
<1>16. ASSUME NEW w \in Writers, AddLock(w) PROVE GraceOK'
  BY <1>16, GraceMove DEF AddLock, irqVars
<1>17. ASSUME NEW w \in Writers, AddTail(w) PROVE GraceOK'
  <2>1. wpc'[w] = "addpack" /\ \A v \in Writers : v # w => wpc'[v] = wpc[v]
    BY <1>17, GotoMoves DEF AddTail
  <2>2. wdev[w] \in Devs /\ devlist' = Append(devlist, wdev[w]) /\ UNCHANGED <<ipc, idev, gp>>
    BY <1>17 DEF AddTail, WrLocals, irqVars
  <2>3. /\ Len(devlist') = Len(devlist) + 1 /\ Len(devlist) \in Nat
        /\ \A n \in 1 .. Len(devlist) : devlist'[n] = devlist[n]
    BY <2>2, AppendMembers DEF ListType
  <2>. QED
    BY <2>1, <2>2, <2>3 DEF GraceOK, RecvDeviceListed
<1>18. ASSUME NEW w \in Writers, AddPack(w) PROVE GraceOK'
  BY <1>18, GraceMove DEF AddPack, Finish, irqVars
<1>19. CASE UNCHANGED <<devlist, ipc, idev, gp, wpc>>
  BY <1>19 DEF RecvDeviceListed, GraceOK
<1>. QED
  BY <1>1, <1>2, <1>3, <1>4, <1>5, <1>6, <1>7, <1>8, <1>9, <1>10, <1>11, <1>12, <1>13,
           <1>14, <1>15, <1>16, <1>17, <1>18, <1>19 DEF Next, vars, IrqNext,
           WorkerNext, WriterNext, tblVars, listVars, ctrVars, thrVars, irqVars,
           wrVars, WorkerCheck, WorkerExit, WorkerTake, WorkerForward, WorkerOops,
           WorkerLock, WorkerFree, KworkFreeLock, KworkFree

----------------------------------------------------------------------------
(* The table of works *)

(* An alloc takes the last work of the free list.                          *)
LEMMA PoolPop ==
    ASSUME TblType, FreelistOK, NEW k, PopWork(k)
    PROVE  /\ k \in Kworks /\ k \in Pool
           /\ Pool' = Pool \ {k}
           /\ FreelistOK'
<1>. DEFINE m == freelist_index - 1
<1>1. /\ m \in Nat /\ freelist_index = m + 1 /\ m \in Slots
      /\ k = freelist[m] /\ freelist_index' = m
      /\ freelist' = [freelist EXCEPT ![m] = NULL]
  BY ConstantFacts DEF TblType, FreelistOK, PopWork, Slots
<1>2. \A s \in Slots : freelist'[s] = IF s = m THEN NULL ELSE freelist[s]
  BY <1>1 DEF TblType
<1>3. 0 .. m \subseteq Slots /\ KWORK_MAX \in Nat
  BY <1>1, ConstantFacts DEF FreelistOK, Slots
<1>4. freelist[m] # NULL
  BY <1>1 DEF FreelistOK
<1>5. k \in Kworks
  BY <1>1, <1>4 DEF TblType
<1>6. Pool = {freelist[s] : s \in 0 .. m} /\ Pool' = {freelist'[s] : s \in 0 .. m - 1}
  BY <1>1 DEF Pool
<1>7. \A s, t \in 0 .. m : freelist[s] = freelist[t] => s = t
  BY <1>1 DEF FreelistOK
<1>8. Pool' = {freelist[s] : s \in 0 .. m - 1}
  BY <1>1, <1>2, <1>3, <1>6
<1>9. Pool' = Pool \ {k}
  <2>1. ASSUME NEW x \in Pool' PROVE x \in Pool \ {k}
    BY <1>1, <1>6, <1>7, <1>8
  <2>2. ASSUME NEW x \in Pool \ {k} PROVE x \in Pool'
    BY <1>1, <1>6, <1>8
  <2>. QED
    BY <2>1, <2>2
<1>10. freelist_index' <= KWORK_MAX
  BY <1>1, <1>3 DEF FreelistOK
<1>11. \A s \in Slots : s >= freelist_index' <=> freelist'[s] = NULL
  BY <1>1, <1>2, <1>3 DEF FreelistOK, Slots
<1>12. \A s, t \in 0 .. freelist_index' - 1 : freelist'[s] = freelist'[t] => s = t
  BY <1>1, <1>2, <1>3, <1>7
<1>. QED
  BY <1>1, <1>5, <1>6, <1>9, <1>10, <1>11, <1>12 DEF FreelistOK

(* Distinct works other than k leave a slot for k.                         *)
LEMMA SlotLeft ==
    ASSUME TblType, FreelistOK, NEW k \in Kworks, k \notin Pool
    PROVE  freelist_index < KWORK_MAX
<1>. DEFINE used == 0 .. freelist_index - 1
            f == [s \in used |-> freelist[s]]
<1>1. KWORK_MAX \in Nat /\ freelist_index \in Nat /\ used \subseteq Slots
  BY ConstantFacts DEF TblType, FreelistOK, Slots
<1>2. \A s \in used : freelist[s] \in Kworks \ {k}
  <2>1. \A s \in used : freelist[s] # NULL
    BY <1>1 DEF FreelistOK
  <2>. QED
    BY <1>1, <2>1 DEF TblType, Pool
<1>3. f \in [used -> Kworks \ {k}]
  BY <1>2
<1>4. /\ IsFiniteSet(Kworks) /\ Cardinality(Kworks) = KWORK_MAX
      /\ IsFiniteSet(used) /\ Cardinality(used) = freelist_index
  BY <1>1, FS_Interval, ConstantFacts DEF Kworks
<1>5. IsFiniteSet(Kworks \ {k}) /\ Cardinality(Kworks \ {k}) = KWORK_MAX - 1
  BY <1>4, FS_RemoveElement
<1>6. ~ \E s, t \in used : s # t /\ f[s] = f[t]
  BY DEF FreelistOK
<1>7. ~ (KWORK_MAX - 1 < freelist_index)
  <2>. SUFFICES ASSUME KWORK_MAX - 1 < freelist_index PROVE FALSE
    OBVIOUS
  <2>1. Cardinality(Kworks \ {k}) < Cardinality(used)
    BY <1>4, <1>5
  <2>. HIDE DEF f, used
  <2>. QED
    BY <1>3, <1>4, <1>5, <1>6, <2>1, FS_PigeonHole
<1>. QED
  BY <1>1, <1>7

(* A free puts its work on top of the free list.                           *)
LEMMA PoolPush ==
    ASSUME TblType, FreelistOK, NEW t, NEW k \in Kworks, k \notin Pool, KworkFree(t, k)
    PROVE  Pool' = Pool \cup {k} /\ FreelistOK'
<1>. DEFINE n == freelist_index
<1>1. n \in Nat /\ n < KWORK_MAX /\ KWORK_MAX \in Nat /\ n \in Slots
  BY SlotLeft, ConstantFacts DEF TblType, Slots
<1>2. freelist_index' = n + 1 /\ freelist' = [freelist EXCEPT ![n] = k]
  BY DEF KworkFree
<1>3. \A s \in Slots : freelist'[s] = IF s = n THEN k ELSE freelist[s]
  BY <1>2 DEF TblType
<1>4. 0 .. n \subseteq Slots
  BY <1>1 DEF Slots
<1>5. Pool = {freelist[s] : s \in 0 .. n - 1} /\ Pool' = {freelist'[s] : s \in 0 .. n}
  BY <1>1, <1>2 DEF Pool
<1>6. Pool' = Pool \cup {k}
  <2>1. ASSUME NEW x \in Pool' PROVE x \in Pool \cup {k}
    BY <1>1, <1>3, <1>4, <1>5
  <2>2. ASSUME NEW x \in Pool PROVE x \in Pool'
    BY <1>1, <1>3, <1>4, <1>5
  <2>3. k \in Pool'
    BY <1>1, <1>3, <1>4, <1>5
  <2>. QED
    BY <2>1, <2>2, <2>3
<1>7. freelist_index' <= KWORK_MAX
  BY <1>1, <1>2
<1>8. \A s \in Slots : s >= freelist_index' <=> freelist'[s] = NULL
  BY <1>1, <1>2, <1>3, NullFacts DEF FreelistOK, Slots
<1>9. \A s, u \in 0 .. freelist_index' - 1 : freelist'[s] = freelist'[u] => s = u
  BY <1>1, <1>2, <1>3, <1>4, <1>5 DEF FreelistOK
<1>. QED
  BY <1>6, <1>7, <1>8, <1>9 DEF FreelistOK

----------------------------------------------------------------------------
(* The places of a work *)

CP == INSTANCE KworkCustodyProofs WITH
    pool <- Pool,
    held <- [i \in Irqs |-> {iwrk[i]} \ {NULL}],
    queued <- [d \in Devs |-> ToSet(queue[d])],
    running <- [d \in Devs |-> {cur[d]} \ {NULL}]

WorkTypes == TblType /\ ThrType /\ IrqType /\ WrType /\ WrkType

(* What OnePlace says of the locals that name a work.                      *)
LEMMA Apart ==
    ASSUME OnePlace
    PROVE  /\ \A i \in Irqs : iwrk[i] # NULL => iwrk[i] \notin Pool
           /\ \A d \in Devs : cur[d] # NULL => cur[d] \notin Pool
           /\ \A i \in Irqs, d \in Devs : iwrk[i] # NULL =>
                  iwrk[i] \notin ToSet(queue[d]) /\ iwrk[i] # cur[d]
           /\ \A d, e \in Devs : cur[d] # NULL =>
                  cur[d] \notin ToSet(queue[e]) /\ (d # e => cur[d] # cur[e])
BY DEF OnePlace, Custody!OnePlace

(* The elements of a queue are the works that are queued.                  *)
LEMMA QueueMembers ==
    ASSUME ThrType, NEW d \in Devs
    PROVE  /\ queue[d] \in Seq(Kworks)
           /\ \A m \in 1 .. Len(queue[d]) :
                  queue[d][m] \in ToSet(queue[d]) /\ queue[d][m] \in Kworks
           /\ \A k \in ToSet(queue[d]) : \E m \in 1 .. Len(queue[d]) : k = queue[d][m]
BY DEF ThrType, ToSet

(* A handler that allocates no work, or has none, keeps every place.       *)
LEMMA NothingHeld ==
    ASSUME IrqType, IrqLocals, NEW i \in Irqs, RecvNoDevice(i) \/ RecvDrop(i)
    PROVE  iwrk' = iwrk
<1>1. iwrk[i] = NULL
  BY DEF RecvNoDevice, RecvDrop, IrqLocals
<1>2. iwrk' = [iwrk EXCEPT ![i] = NULL]
  BY DEF RecvNoDevice, RecvDrop, Return
<1>. QED
  BY <1>1, <1>2 DEF IrqType

(* What RecvQueue does to the work that it queues.                         *)
LEMMA QueueMoves ==
    ASSUME WorkTypes, IrqLocals, NEW i \in Irqs, RecvQueue(i)
    PROVE  /\ iwrk[i] \in Kworks /\ idev[i] \in Devs /\ iskb[i] \in Frames
           /\ iwrk' = [iwrk EXCEPT ![i] = NULL]
           /\ queue' = [queue EXCEPT ![idev[i]] = Append(queue[idev[i]], iwrk[i])]
           /\ wrk'[iwrk[i]].skb = iskb[i]
           /\ \A k \in Kworks : k # iwrk[i] => wrk'[k] = wrk[k]
           /\ UNCHANGED <<freelist, freelist_index, cur, kpc>>
<1>1. iwrk[i] \in Kworks /\ idev[i] \in Devs /\ iskb[i] \in Frames
  BY DEF WorkTypes, IrqType, IrqLocals, RecvQueue
<1>2. wrk' = [wrk EXCEPT ![iwrk[i]] = Stamp(idev[i], iskb[i])]
  BY DEF RecvQueue, Enqueue
<1>3. Stamp(idev[i], iskb[i]).skb = iskb[i]
  BY DEF Stamp
<1>4. wrk'[iwrk[i]].skb = iskb[i] /\ \A k \in Kworks : k # iwrk[i] => wrk'[k] = wrk[k]
  BY <1>1, <1>2, <1>3 DEF WorkTypes, WrkType
<1>5. iwrk' = [iwrk EXCEPT ![i] = NULL]
  BY DEF RecvQueue, Return
<1>6. queue' = [queue EXCEPT ![idev[i]] = Append(queue[idev[i]], iwrk[i])]
  BY DEF RecvQueue, Enqueue, QueueWork
<1>7. UNCHANGED <<freelist, freelist_index, cur, kpc>>
  BY DEF RecvQueue, tblVars
<1>. QED
  BY <1>1, <1>4, <1>5, <1>6, <1>7

(* What WorkerTake and Join do to a queue.                                 *)
LEMMA TakeMoves ==
    ASSUME WorkTypes, ThrLocals, NEW d \in Devs, WorkerTake(d)
    PROVE  /\ queue[d] # <<>> /\ cur[d] = NULL
           /\ cur' = [cur EXCEPT ![d] = Head(queue[d])]
           /\ queue' = [queue EXCEPT ![d] = Tail(queue[d])]
           /\ kpc' = [kpc EXCEPT ![d] = "work"]
           /\ UNCHANGED <<freelist, freelist_index, iwrk, wrk>>
BY DEF WorkerTake, ThrLocals, tblVars, irqVars

LEMMA JoinMoves ==
    ASSUME WrType, WrLocals, NEW w \in Writers, Join(w)
    PROVE  /\ wdev[w] \in Devs
           /\ queue' = [queue EXCEPT ![wdev[w]] = <<>>]
           /\ cur' = [cur EXCEPT ![wdev[w]] = NULL]
           /\ kpc' = [kpc EXCEPT ![wdev[w]] = "idle"]
           /\ UNCHANGED <<freelist, freelist_index, iwrk, wrk>>
BY DEF Join, Gone, FreeDev, ClearDev, WrLocals, tblVars, irqVars

LEMMA FreeMoves ==
    ASSUME WorkTypes, ThrLocals, NEW d \in Devs, WorkerFree(d)
    PROVE  /\ cur[d] \in Kworks /\ KworkFree(d, cur[d])
           /\ cur' = [cur EXCEPT ![d] = NULL]
           /\ kpc' = [kpc EXCEPT ![d] = "idle"]
           /\ wrk' = [wrk EXCEPT ![cur[d]] = Blank]
           /\ UNCHANGED <<iwrk, queue>>
<1>1. cur[d] # NULL
  BY DEF WorkerFree, ThrLocals
<1>2. cur[d] \in Kworks
  BY <1>1 DEF WorkTypes, ThrType
<1>. QED
  BY <1>2 DEF WorkerFree, irqVars

(* Each step of the device moves a work along the circle, or no work,      *)
(* unless it frees a device and abandons the works of that one.            *)
LEMMA CircleStep ==
    ASSUME WorkTypes, LocalsOK, FreelistOK, OnePlace, QueueOK, [Next]_vars
    PROVE  \/ CP!Circle
           \/ \E w \in Writers : Join(w) /\ wdev[w] \in Devs /\ CP!Abandon(wdev[w])
           \/ UNCHANGED CP!vars
<1>. USE DEF LocalsOK
<1>1. ASSUME NEW i \in Irqs, RecvAlloc(i) PROVE CP!Circle \/ UNCHANGED CP!vars
  <2>1. PICK k \in Kworks \cup {NULL} : KworkAlloc(k) /\ iwrk' = [iwrk EXCEPT ![i] = k]
    BY <1>1 DEF RecvAlloc
  <2>2. iwrk[i] = NULL
    BY <1>1 DEF RecvAlloc, IrqLocals
  <2>3. UNCHANGED <<queue, cur>>
    BY <1>1 DEF RecvAlloc, thrVars
  <2>4. CASE PopNothing(k)
    <3>1. iwrk' = iwrk /\ Pool' = Pool
      BY <2>1, <2>2, <2>4 DEF PopNothing, Pool, WorkTypes, IrqType
    <3>. QED
      BY <2>3, <3>1 DEF CP!vars
  <2>5. CASE PopWork(k)
    <3>1. k \in Kworks /\ k \in Pool /\ Pool' = Pool \ {k}
      BY <2>5, PoolPop DEF WorkTypes
    <3>2. [h \in Irqs |-> {iwrk'[h]} \ {NULL}]
              = [[h \in Irqs |-> {iwrk[h]} \ {NULL}] EXCEPT ![i] = {k}]
      BY <2>1, <3>1, NullFacts DEF WorkTypes, IrqType
    <3>3. [h \in Irqs |-> {iwrk[h]} \ {NULL}][i] = {}
      BY <2>2
    <3>4. CP!Alloc(i, k)
      BY <2>3, <3>1, <3>2, <3>3 DEF CP!Alloc
    <3>. QED
      BY <3>1, <3>4 DEF CP!Circle
  <2>. QED
    BY <2>1, <2>4, <2>5 DEF KworkAlloc
<1>2. ASSUME NEW i \in Irqs, RecvQueue(i) PROVE CP!Circle
  <2>0. PICK k \in Kworks, d \in Devs : k = iwrk[i] /\ d = idev[i]
    BY <1>2, QueueMoves
  <2>1. /\ k \in Kworks /\ d \in Devs
        /\ iwrk' = [iwrk EXCEPT ![i] = NULL]
        /\ queue' = [queue EXCEPT ![d] = Append(queue[d], k)]
        /\ UNCHANGED <<freelist, freelist_index, cur>>
    BY <1>2, <2>0, QueueMoves
  <2>2. ToSet(Append(queue[d], k)) = ToSet(queue[d]) \cup {k}
    BY <2>1, AppendMembers, QueueMembers DEF WorkTypes
  <2>3. Pool' = Pool
    BY <2>1 DEF Pool
  <2>4. CP!Queue(i, d, k)
    <3>1. [h \in Irqs |-> {iwrk[h]} \ {NULL}][i] = {k}
      BY <2>0, <2>1, NullFacts
    <3>2. [h \in Irqs |-> {iwrk'[h]} \ {NULL}]
              = [[h \in Irqs |-> {iwrk[h]} \ {NULL}] EXCEPT ![i] = {}]
      BY <2>1 DEF WorkTypes, IrqType
    <3>3. [e \in Devs |-> ToSet(queue'[e])]
              = [[e \in Devs |-> ToSet(queue[e])] EXCEPT ![d] = @ \cup {k}]
      BY <2>1, <2>2 DEF WorkTypes, ThrType
    <3>. QED
      BY <2>1, <2>3, <3>1, <3>2, <3>3 DEF CP!Queue
  <2>. QED
    BY <2>4 DEF CP!Circle
<1>3. ASSUME NEW i \in Irqs, RecvNoDevice(i) \/ RecvDrop(i) PROVE UNCHANGED CP!vars
  <2>1. UNCHANGED <<iwrk, freelist, freelist_index, queue, cur>>
    BY <1>3, NothingHeld DEF RecvNoDevice, RecvDrop, WorkTypes, tblVars, thrVars
  <2>. QED
    BY <2>1 DEF CP!vars, Pool
<1>4. ASSUME NEW d \in Devs, WorkerTake(d) PROVE CP!Circle
  <2>0. PICK k \in Kworks : k = Head(queue[d])
    BY <1>4, TakeMoves, QueueMembers, TailMembers DEF WorkTypes
  <2>1. /\ queue[d] # <<>> /\ cur[d] = NULL
        /\ cur' = [cur EXCEPT ![d] = k]
        /\ queue' = [queue EXCEPT ![d] = Tail(queue[d])]
        /\ UNCHANGED <<freelist, freelist_index, iwrk>>
    BY <1>4, <2>0, TakeMoves
  <2>2. \A m, n \in 1 .. Len(queue[d]) : queue[d][m] = queue[d][n] => m = n
    BY DEF QueueOK
  <2>3. k \in ToSet(queue[d]) /\ ToSet(Tail(queue[d])) = ToSet(queue[d]) \ {k}
    BY <2>0, <2>1, <2>2, TailMembers, QueueMembers DEF WorkTypes
  <2>4. Pool' = Pool
    BY <2>1 DEF Pool
  <2>5. /\ [e \in Devs |-> {cur'[e]} \ {NULL}]
                = [[e \in Devs |-> {cur[e]} \ {NULL}] EXCEPT ![d] = {k}]
        /\ [e \in Devs |-> {cur[e]} \ {NULL}][d] = {}
    <3>1. cur' = [cur EXCEPT ![d] = k] /\ cur \in [Devs -> Kworks \cup {NULL}]
      BY <2>0, <2>1 DEF WorkTypes, ThrType
    <3>2. k # NULL /\ cur[d] = NULL
      BY <2>1, NullFacts
    <3>. QED
      BY <3>1, <3>2
  <2>6. [e \in Devs |-> ToSet(queue'[e])]
            = [[e \in Devs |-> ToSet(queue[e])] EXCEPT ![d] = @ \ {k}]
    BY <2>1, <2>3 DEF WorkTypes, ThrType
  <2>7. CP!Take(d, k)
    BY <2>1, <2>3, <2>4, <2>5, <2>6 DEF CP!Take
  <2>. QED
    BY <2>7 DEF CP!Circle
<1>5. ASSUME NEW d \in Devs, WorkerFree(d) PROVE CP!Circle
  <2>0. PICK k \in Kworks : k = cur[d]
    BY <1>5, FreeMoves
  <2>1. /\ k \in Kworks /\ KworkFree(d, k)
        /\ cur' = [cur EXCEPT ![d] = NULL]
        /\ UNCHANGED <<iwrk, queue>>
    BY <1>5, <2>0, FreeMoves
  <2>2. k # NULL
    BY <2>1, NullFacts
  <2>3. Pool' = Pool \cup {k}
    BY <2>0, <2>1, <2>2, Apart, PoolPush DEF WorkTypes
  <2>4. CP!Release(d, k)
    BY <2>0, <2>1, <2>2, <2>3 DEF CP!Release, WorkTypes, ThrType
  <2>. QED
    BY <2>4 DEF CP!Circle
<1>6. ASSUME NEW w \in Writers, Join(w)
      PROVE  wdev[w] \in Devs /\ CP!Abandon(wdev[w])
  <2>0. PICK d \in Devs : d = wdev[w]
    BY <1>6, JoinMoves DEF WorkTypes
  <2>1. /\ queue' = [queue EXCEPT ![d] = <<>>]
        /\ cur' = [cur EXCEPT ![d] = NULL]
        /\ UNCHANGED <<freelist, freelist_index, iwrk>>
    BY <1>6, <2>0, JoinMoves DEF WorkTypes
  <2>2. Pool' = Pool /\ ToSet(<<>>) = {}
    BY <2>1 DEF Pool, ToSet
  <2>3. CP!Abandon(d)
    BY <2>1, <2>2 DEF CP!Abandon, WorkTypes, ThrType
  <2>. QED
    BY <2>0, <2>3 DEF CP!Abandon
<1>7. CASE UNCHANGED <<freelist, freelist_index, iwrk, queue, cur>>
  BY <1>7 DEF CP!vars, Pool
<1>. QED
  BY <1>1, <1>2, <1>3, <1>4, <1>5, <1>6, <1>7 DEF Next, vars, IrqNext, WorkerNext,
     WriterNext, tblVars, thrVars, irqVars, Deliver, RecvFind, WorkerCheck, WorkerExit,
     WorkerForward, WorkerOops, WorkerLock, KworkFreeLock, Start, Lock, Show, Unregister,
     ScanEnd, Delete, AddFail, Create, ClearDev, AddLock, AddTail, AddPack

(* So the device follows the circulation.                                  *)
LEMMA CirculatesStep ==
    ASSUME WorkTypes, LocalsOK, FreelistOK, OnePlace, QueueOK, [Next]_vars
    PROVE  [CP!Next]_(CP!vars)
<1>1. ASSUME NEW w \in Writers, wdev[w] \in Devs, CP!Abandon(wdev[w])
      PROVE  CP!Next
  <2>1. PICK d \in Devs : d = wdev[w]
    BY <1>1
  <2>2. CP!Abandon(d)
    BY <1>1, <2>1 DEF CP!Abandon
  <2>. QED
    BY <2>2 DEF CP!Next
<1>. QED
  BY <1>1, CircleStep DEF CP!Circle, CP!Next

(* With that, a work stays in one place.                                   *)
LEMMA OnePlaceStep ==
    ASSUME WorkTypes, LocalsOK, FreelistOK, OnePlace, QueueOK, [Next]_vars
    PROVE  OnePlace'
<1>1. Pool \subseteq Kworks
  <2>1. \A s \in 0 .. freelist_index - 1 : s \in Slots /\ freelist[s] # NULL
    BY ConstantFacts DEF FreelistOK, Slots, WorkTypes, TblType
  <2>. QED
    BY <2>1 DEF Pool, WorkTypes, TblType
<1>2. \A d \in Devs : ToSet(queue[d]) \subseteq Kworks
  BY QueueMembers DEF WorkTypes
<1>3. CP!CustodyType
  BY <1>1, <1>2 DEF CP!CustodyType, WorkTypes, IrqType, ThrType
<1>4. CP!OnePlace
  BY DEF OnePlace, Custody!OnePlace, CP!OnePlace
<1>5. CP!OnePlace'
  BY <1>3, <1>4, CirculatesStep, CP!OnePlaceStep
<1>. QED
  BY <1>5 DEF OnePlace, Custody!OnePlace, CP!OnePlace

(* The table stays a stack of distinct works.                              *)
LEMMA FreelistStep ==
    ASSUME WorkTypes, LocalsOK, FreelistOK, OnePlace, [Next]_vars
    PROVE  FreelistOK'
<1>. USE DEF LocalsOK
<1>1. ASSUME NEW i \in Irqs, RecvAlloc(i) PROVE FreelistOK'
  <2>1. PICK k \in Kworks \cup {NULL} : PopWork(k) \/ PopNothing(k)
    BY <1>1 DEF RecvAlloc, KworkAlloc
  <2>2. CASE PopNothing(k)
    BY <2>2 DEF PopNothing, FreelistOK
  <2>3. CASE PopWork(k)
    BY <2>3, PoolPop DEF WorkTypes
  <2>. QED
    BY <2>1, <2>2, <2>3
<1>2. ASSUME NEW d \in Devs, WorkerFree(d) PROVE FreelistOK'
  <2>1. cur[d] \in Kworks /\ cur[d] # NULL /\ KworkFree(d, cur[d])
    BY <1>2, FreeMoves, NullFacts
  <2>. QED
    BY <2>1, Apart, PoolPush DEF WorkTypes
<1>3. CASE UNCHANGED <<freelist, freelist_index>>
  BY <1>3 DEF FreelistOK
<1>. QED
  BY <1>1, <1>2, <1>3 DEF Next, vars, IrqNext, WorkerNext, WriterNext, tblVars, Deliver,
     RecvFind, RecvNoDevice, RecvQueue, RecvDrop, WorkerCheck, WorkerExit, WorkerTake,
     WorkerForward, WorkerOops, WorkerLock, KworkFreeLock, Start, Lock, Show, Unregister,
     ScanEnd, Delete, Join, AddFail, Create, AddLock, AddTail, AddPack

(* A work is queued at one place of one queue.                             *)
LEMMA QueueStep ==
    ASSUME WorkTypes, LocalsOK, OnePlace, QueueOK, [Next]_vars
    PROVE  QueueOK'
<1>. USE DEF LocalsOK
<1>1. ASSUME NEW i \in Irqs, RecvQueue(i) PROVE QueueOK'
  <2>. DEFINE k == iwrk[i]
              d == idev[i]
              q == Append(queue[d], k)
  <2>1. k \in Kworks /\ d \in Devs /\ queue' = [queue EXCEPT ![d] = q]
    BY <1>1, QueueMoves
  <2>2. k \notin ToSet(queue[d])
    BY <2>1, Apart, NullFacts
  <2>3. Len(q) = Len(queue[d]) + 1 /\ Len(queue[d]) \in Nat
        /\ \A n \in 1 .. Len(queue[d]) + 1 :
               q[n] = IF n = Len(queue[d]) + 1 THEN k ELSE queue[d][n]
    BY <2>1, QueueMembers, AppendMembers DEF WorkTypes
  <2>4. \A n \in 1 .. Len(queue[d]) : queue[d][n] # k
    BY <2>1, <2>2, QueueMembers DEF WorkTypes
  <2>5. \A m, n \in 1 .. Len(queue[d]) : queue[d][m] = queue[d][n] => m = n
    BY <2>1 DEF QueueOK
  <2>6. \A m, n \in 1 .. Len(q) : q[m] = q[n] => m = n
    BY SMTT(30), <2>3, <2>4, <2>5
  <2>7. queue'[d] = q /\ \A e \in Devs : e # d => queue'[e] = queue[e]
    BY <2>1 DEF WorkTypes, ThrType
  <2>. QED
    BY <2>6, <2>7 DEF QueueOK
<1>2. ASSUME NEW d \in Devs, WorkerTake(d) PROVE QueueOK'
  <2>. DEFINE q == Tail(queue[d])
  <2>1. queue[d] # <<>> /\ queue' = [queue EXCEPT ![d] = q]
    BY <1>2, TakeMoves
  <2>2. \A m, n \in 1 .. Len(queue[d]) : queue[d][m] = queue[d][n] => m = n
    BY DEF QueueOK
  <2>3. \A m, n \in 1 .. Len(q) : q[m] = q[n] => m = n
    <3>1. queue[d] \in Seq(Kworks)
      BY QueueMembers DEF WorkTypes
    <3>2. Len(queue[d]) \in Nat \ {0} /\ Len(q) = Len(queue[d]) - 1
          /\ \A n \in 1 .. Len(queue[d]) - 1 : q[n] = queue[d][n + 1]
      BY <2>1, <3>1, TailMembers
    <3>. QED
      BY <2>2, <3>2
  <2>4. queue'[d] = q /\ \A e \in Devs : e # d => queue'[e] = queue[e]
    BY <2>1 DEF WorkTypes, ThrType
  <2>. QED
    BY <2>3, <2>4 DEF QueueOK
<1>3. ASSUME NEW w \in Writers, Join(w) PROVE QueueOK'
  <2>1. wdev[w] \in Devs /\ queue' = [queue EXCEPT ![wdev[w]] = <<>>]
    BY <1>3, JoinMoves DEF WorkTypes
  <2>2. queue'[wdev[w]] = <<>> /\ \A e \in Devs : e # wdev[w] => queue'[e] = queue[e]
    BY <2>1 DEF WorkTypes, ThrType
  <2>. QED
    BY <2>2 DEF QueueOK
<1>4. CASE UNCHANGED queue
  BY <1>4 DEF QueueOK
<1>. QED
  BY <1>1, <1>2, <1>3, <1>4 DEF Next, vars, IrqNext, WorkerNext, WriterNext, thrVars,
     Deliver, RecvFind, RecvNoDevice, RecvAlloc, RecvDrop, WorkerCheck, WorkerExit,
     WorkerForward, WorkerOops, WorkerLock, WorkerFree, Start, Lock, Show, Unregister,
     ScanEnd, Delete, AddFail, Create, AddLock, AddTail, AddPack

(* A work that waits, or is about to run, carries a frame: nobody else     *)
(* writes to it meanwhile, because it is in one place.                     *)
LEMMA CarriesStep ==
    ASSUME WorkTypes, LocalsOK, OnePlace, CarriesOK, [Next]_vars
    PROVE  CarriesOK'
<1>. USE DEF LocalsOK
<1>1. ASSUME NEW i \in Irqs, RecvQueue(i) PROVE CarriesOK'
  <2>. DEFINE k == iwrk[i]
              d == idev[i]
              q == Append(queue[d], k)
  <2>1. /\ k \in Kworks /\ d \in Devs /\ queue' = [queue EXCEPT ![d] = q]
        /\ wrk'[k].skb \in Frames
        /\ \A l \in Kworks : l # k => wrk'[l] = wrk[l]
        /\ UNCHANGED <<cur, kpc>>
    BY <1>1, QueueMoves
  <2>2. \A e \in Devs : k \notin ToSet(queue[e]) /\ cur[e] # k
    BY <2>1, Apart, NullFacts
  <2>3. \A e \in Devs : \A m \in 1 .. Len(queue[e]) : wrk'[queue[e][m]].skb \in Frames
    BY <2>1, <2>2, QueueMembers DEF CarriesOK, WorkTypes
  <2>4. Len(q) = Len(queue[d]) + 1 /\ Len(queue[d]) \in Nat
        /\ \A n \in 1 .. Len(queue[d]) + 1 :
               q[n] = IF n = Len(queue[d]) + 1 THEN k ELSE queue[d][n]
    BY <2>1, QueueMembers, AppendMembers DEF WorkTypes
  <2>5. \A m \in 1 .. Len(q) : wrk'[q[m]].skb \in Frames
    BY <2>1, <2>3, <2>4
  <2>6. queue'[d] = q /\ \A e \in Devs : e # d => queue'[e] = queue[e]
    BY <2>1 DEF WorkTypes, ThrType
  <2>7. \A e \in Devs : \A m \in 1 .. Len(queue'[e]) : wrk'[queue'[e][m]].skb \in Frames
    BY <2>3, <2>5, <2>6
  <2>8. ASSUME NEW e \in Devs, kpc'[e] = "work" PROVE wrk'[cur'[e]].skb \in Frames
    <3>1. kpc[e] = "work" /\ cur'[e] = cur[e] /\ cur[e] # NULL
      BY <2>1, <2>8 DEF ThrLocals
    <3>2. cur[e] \in Kworks
      BY <3>1 DEF WorkTypes, ThrType
    <3>. QED
      BY <2>1, <2>2, <3>1, <3>2 DEF CarriesOK
  <2>. QED
    BY <2>7, <2>8 DEF CarriesOK
<1>2. ASSUME NEW d \in Devs, WorkerTake(d) PROVE CarriesOK'
  <2>. DEFINE q == Tail(queue[d])
  <2>1. /\ queue[d] # <<>>
        /\ queue' = [queue EXCEPT ![d] = q]
        /\ cur' = [cur EXCEPT ![d] = Head(queue[d])]
        /\ kpc' = [kpc EXCEPT ![d] = "work"]
        /\ UNCHANGED wrk
    BY <1>2, TakeMoves
  <2>2. queue[d] \in Seq(Kworks)
    BY QueueMembers DEF WorkTypes
  <2>3. /\ Head(queue[d]) = queue[d][1] /\ Len(queue[d]) \in Nat \ {0}
        /\ Len(q) = Len(queue[d]) - 1
        /\ \A n \in 1 .. Len(queue[d]) - 1 : q[n] = queue[d][n + 1]
    BY <2>1, <2>2, TailMembers
  <2>4. queue'[d] = q /\ \A e \in Devs : e # d => queue'[e] = queue[e]
    BY <2>1 DEF WorkTypes, ThrType
  <2>5. cur'[d] = queue[d][1] /\ kpc'[d] = "work"
        /\ \A e \in Devs : e # d => cur'[e] = cur[e] /\ kpc'[e] = kpc[e]
    BY <2>1, <2>3 DEF WorkTypes, ThrType
  <2>6. \A m \in 1 .. Len(q) : wrk[q[m]].skb \in Frames
    BY <2>3 DEF CarriesOK
  <2>7. wrk[queue[d][1]].skb \in Frames
    BY <2>3 DEF CarriesOK
  <2>. QED
    BY <2>1, <2>4, <2>5, <2>6, <2>7 DEF CarriesOK
<1>3. ASSUME NEW d \in Devs, WorkerFree(d) PROVE CarriesOK'
  <2>1. /\ cur[d] \in Kworks /\ UNCHANGED queue
        /\ cur' = [cur EXCEPT ![d] = NULL]
        /\ kpc' = [kpc EXCEPT ![d] = "idle"]
        /\ wrk' = [wrk EXCEPT ![cur[d]] = Blank]
    BY <1>3, FreeMoves
  <2>2. \A l \in Kworks : l # cur[d] => wrk'[l] = wrk[l]
    BY <2>1 DEF WorkTypes, WrkType
  <2>3. \A e \in Devs : cur[d] \notin ToSet(queue[e]) /\ (e # d => cur[e] # cur[d])
    BY <2>1, Apart, NullFacts
  <2>4. \A e \in Devs : \A m \in 1 .. Len(queue[e]) : wrk'[queue[e][m]].skb \in Frames
    BY <2>2, <2>3, QueueMembers DEF CarriesOK, WorkTypes
  <2>5. kpc'[d] = "idle" /\ \A e \in Devs : e # d => cur'[e] = cur[e] /\ kpc'[e] = kpc[e]
    BY <2>1 DEF WorkTypes, ThrType
  <2>6. ASSUME NEW e \in Devs, kpc'[e] = "work" PROVE wrk'[cur'[e]].skb \in Frames
    <3>1. e # d /\ kpc[e] = "work" /\ cur'[e] = cur[e] /\ cur[e] # NULL
      BY <2>5, <2>6 DEF ThrLocals
    <3>2. cur[e] \in Kworks
      BY <3>1 DEF WorkTypes, ThrType
    <3>. QED
      BY <2>2, <2>3, <3>1, <3>2 DEF CarriesOK
  <2>. QED
    BY <2>1, <2>4, <2>6 DEF CarriesOK
<1>4. ASSUME NEW w \in Writers, Join(w) PROVE CarriesOK'
  <2>1. /\ wdev[w] \in Devs
        /\ queue' = [queue EXCEPT ![wdev[w]] = <<>>]
        /\ cur' = [cur EXCEPT ![wdev[w]] = NULL]
        /\ kpc' = [kpc EXCEPT ![wdev[w]] = "idle"]
        /\ UNCHANGED wrk
    BY <1>4, JoinMoves DEF WorkTypes
  <2>2. queue'[wdev[w]] = <<>> /\ kpc'[wdev[w]] = "idle"
    BY <2>1 DEF WorkTypes, ThrType
  <2>3. \A e \in Devs : e # wdev[w] =>
            queue'[e] = queue[e] /\ cur'[e] = cur[e] /\ kpc'[e] = kpc[e]
    BY <2>1 DEF WorkTypes, ThrType
  <2>. QED
    BY <2>1, <2>2, <2>3 DEF CarriesOK
<1>5. ASSUME UNCHANGED <<wrk, queue, cur>>,
             \A e \in Devs : kpc'[e] = "work" => kpc[e] = "work"
      PROVE  CarriesOK'
  BY <1>5 DEF CarriesOK
<1>6. ASSUME NEW d \in Devs,
             \/ WorkerCheck(d)
             \/ WorkerForward(d)
             \/ WorkerOops(d)
             \/ WorkerLock(d)
      PROVE  CarriesOK'
  <2>1. UNCHANGED <<wrk, queue, cur>>
    BY <1>6 DEF WorkerCheck, WorkerForward, WorkerOops, WorkerLock
  <2>2. \A e \in Devs : kpc'[e] = "work" => kpc[e] = "work"
    BY <1>6 DEF WorkerCheck, WorkerForward, WorkerOops, WorkerLock, WorkTypes, ThrType
  <2>. QED
    BY <1>5, <2>1, <2>2
<1>7. ASSUME NEW w \in Writers, NEW d \in Devs, Create(w, d) PROVE CarriesOK'
  <2>1. UNCHANGED <<wrk, queue, cur>>
    BY <1>7 DEF Create
  <2>2. \A e \in Devs : kpc'[e] = "work" => kpc[e] = "work"
    BY <1>7 DEF Create, ClearDev, WorkTypes, ThrType
  <2>. QED
    BY <1>5, <2>1, <2>2
<1>8. CASE UNCHANGED <<wrk, queue, cur, kpc>>
  BY <1>8 DEF CarriesOK
<1>. QED
  BY <1>1, <1>2, <1>3, <1>4, <1>6, <1>7, <1>8 DEF Next, vars, IrqNext, WorkerNext,
     WriterNext, thrVars, Deliver, RecvFind, RecvNoDevice, RecvAlloc, RecvDrop, Return,
     CountDrop, WorkerExit, Start, Lock, Show, Unregister, ScanEnd, Delete, AddFail,
     AddLock, AddTail, AddPack

----------------------------------------------------------------------------
(* The invariant *)

(* Nothing is listed, queued or held after rtap_device_init.               *)
LEMMA InitIInv == Init => IInv
<1>. SUFFICES ASSUME Init PROVE IInv
  OBVIOUS
<1>1. \A s \in Slots : freelist[s] = s + 1 /\ s + 1 \in Kworks
  BY ConstantFacts DEF Init, TblInit, Slots, Kworks
<1>2. freelist_index = KWORK_MAX /\ tbllock = NULL
  BY DEF Init, TblInit
<1>3. TblType
  BY <1>1, <1>2, ConstantFacts DEF Init, TblInit, TblType
<1>4. ListType
  BY EmptySeq DEF Init, ListType
<1>5. CtrType
  BY CounterOK, DropOK DEF Init, CtrType
<1>6. ThrType
  BY EmptySeq DEF Init, ThrType
<1>7. SentType
  BY CounterOK DEF Init, SentType, NoHeader
<1>8. WrkType
  BY CounterOK DEF Init, WrkType, Blank
<1>9. IrqType
  BY DEF Init, IrqType
<1>10. WrType
  BY DeviceAssumption DEF Init, WrType
<1>11. SkbType
  BY DEF Init, SkbType
<1>12. LocalsOK
  BY DEF Init, LocalsOK, IrqLocals, ThrLocals, WrLocals
<1>13. LockOK
  BY NullFacts DEF Init, LockOK, Critical
<1>14. ListOK
  BY DEF Init, ListOK, Unlisted
<1>15. ThreadOK
  BY DEF Init, ThreadOK
<1>16. GraceOK
  BY DEF Init, GraceOK, RecvDeviceListed
<1>17. FreelistOK
  BY <1>1, <1>2, ConstantFacts, NullFacts DEF FreelistOK, Slots
<1>18. OnePlace
  BY DEF Init, OnePlace, Custody!OnePlace, ToSet
<1>19. QueueOK
  BY DEF Init, QueueOK
<1>20. CarriesOK
  BY DEF Init, CarriesOK
<1>. QED
  BY <1>3, <1>4, <1>5, <1>6, <1>7, <1>8, <1>9, <1>10, <1>11, <1>12, <1>13, <1>14, <1>15,
     <1>16, <1>17, <1>18, <1>19, <1>20 DEF IInv, TypeOK

(* No action breaks the invariant.                                         *)
LEMMA NextIInv ==
    ASSUME IInv, [Next]_vars
    PROVE  IInv'
<1>1. /\ TblType /\ ListType /\ CtrType /\ ThrType /\ SentType /\ WrkType /\ IrqType
      /\ WrType /\ SkbType /\ WorkTypes
  BY DEF IInv, TypeOK, WorkTypes
<1>2. LocalsOK /\ IrqLocals /\ ThrLocals /\ WrLocals
  BY DEF IInv, LocalsOK
<1>3. /\ LockOK /\ ListOK /\ ThreadOK /\ GraceOK /\ RecvDeviceListed /\ FreelistOK
      /\ OnePlace /\ QueueOK /\ CarriesOK
  BY DEF IInv, GraceOK
<1>4. TypeOK'
  BY <1>1, <1>2, <1>3, TblTypeStep, ListTypeStep, CtrTypeStep, ThrTypeStep, SentTypeStep,
     WrkTypeStep, IrqTypeStep, WrTypeStep, SkbTypeStep DEF TypeOK
<1>5. LocalsOK'
  BY <1>1, <1>2, <1>3, IrqLocalsStep, ThrLocalsStep, WrLocalsStep DEF LocalsOK
<1>6. LockOK' /\ ListOK' /\ ThreadOK' /\ GraceOK'
  BY <1>1, <1>2, <1>3, LockStep, ListStep, ThreadStep, GraceStep
<1>7. FreelistOK' /\ OnePlace' /\ QueueOK' /\ CarriesOK'
  BY <1>1, <1>2, <1>3, FreelistStep, OnePlaceStep, QueueStep, CarriesStep
<1>. QED
  BY <1>4, <1>5, <1>6, <1>7 DEF IInv

(* Every reachable state satisfies the invariant.                          *)
THEOREM DeviceInvariant == Spec => []IInv
<1>. QED
  BY InitIInv, NextIInv, PTL DEF Spec

(* Every variable has its type, whatever the scripts, the number of actors *)
(* and the sizes of the table and of the counters.                         *)
THEOREM DeviceTyped == Spec => []TypeOK
<1>1. IInv => TypeOK
  BY DEF IInv
<1>. QED
  BY <1>1, DeviceInvariant, PTL

(* The device that rtap_device_recv goes on using after it has dropped     *)
(* rtap_devices.lock is still listed: rtap_device_remove cannot free it    *)
(* under the handler.                                                      *)
THEOREM HandlersUseListedDevices == Spec => []RecvDeviceListed
<1>1. IInv => RecvDeviceListed
  BY DEF IInv, GraceOK
<1>. QED
  BY <1>1, DeviceInvariant, PTL

(* A kernel thread that runs a work has its device in allocated memory,    *)
(* and no device is on the list twice.                                     *)
THEOREM ThreadsOwnDevices == Spec => []ThreadDeviceAlive
<1>1. IInv => ThreadDeviceAlive
  <2>. SUFFICES ASSUME IInv PROVE ThreadDeviceAlive
    OBVIOUS
  <2>1. \A d \in Devs : kpc[d] \in {"take", "work", "lock", "free"} =>
            task[d] \in {"run", "stopping"} /\ d \in alive
    BY DEF IInv, ThreadOK
  <2>. QED
    BY <2>1 DEF IInv, ListOK, ThreadDeviceAlive
<1>. QED
  BY <1>1, DeviceInvariant, PTL

(* rtap_device_kwork_free never writes past the end of the free list, and  *)
(* rtap_device_kwork_alloc returns a work that no slot in use names again. *)
THEOREM FreelistSafe == Spec => []FreelistOK
<1>1. IInv => FreelistOK
  BY DEF IInv
<1>. QED
  BY <1>1, DeviceInvariant, PTL

(* The device implements the circulation of KworkCustody: a work leaves    *)
(* the place where it is only for the next one.                            *)
THEOREM DeviceCirculates == Spec => KworkCirculates
<1>1. Init => Custody!Init
  <2>. SUFFICES ASSUME Init PROVE Custody!Init
    OBVIOUS
  <2>1. Pool = Kworks
    <3>1. Pool = {s + 1 : s \in 0 .. KWORK_MAX - 1}
      BY ConstantFacts DEF Init, TblInit, Pool, Slots
    <3>2. ASSUME NEW k \in Kworks PROVE k \in {s + 1 : s \in 0 .. KWORK_MAX - 1}
      <4>1. k - 1 \in 0 .. KWORK_MAX - 1 /\ k = (k - 1) + 1
        BY ConstantFacts DEF Kworks
      <4>. QED
        BY <4>1
    <3>. QED
      BY <3>1, <3>2, ConstantFacts DEF Kworks
  <2>2. ToSet(<<>>) = {}
    BY DEF ToSet
  <2>. QED
    BY <2>1, <2>2 DEF Init, Custody!Init
<1>2. IInv /\ [Next]_vars => [Custody!Next]_(Custody!vars)
  <2>. SUFFICES ASSUME IInv, [Next]_vars PROVE [Custody!Next]_(Custody!vars)
    OBVIOUS
  <2>1. [CP!Next]_(CP!vars)
    BY CirculatesStep DEF IInv, TypeOK, WorkTypes
  <2>. QED
    BY <2>1 DEF CP!Next, CP!vars, CP!Alloc, CP!Queue, CP!Take, CP!Release, CP!Abandon,
       Custody!Next, Custody!vars, Custody!Alloc, Custody!Queue, Custody!Take,
       Custody!Release, Custody!Abandon
<1>. QED
  BY <1>1, <1>2, DeviceInvariant, PTL DEF Spec, KworkCirculates, Custody!Spec

(* A work is free, or held by one handler, or queued on one device, or run *)
(* by one thread: no two actors use one work at once.                      *)
THEOREM WorksInOnePlace == Spec => []OnePlace
<1>1. IInv => OnePlace
  BY DEF IInv
<1>. QED
  BY <1>1, DeviceInvariant, PTL

----------------------------------------------------------------------------
(* Commands *)

(* What the steps of a writer do to its own locals, and to no others.      *)
LEMMA WriterMoves ==
    ASSUME WrType, NEW w \in Writers, WriterNext(w), NEW v \in Writers, v # w
    PROVE  wpc'[v] = wpc[v] /\ wop'[v] = wop[v] /\ wname'[v] = wname[v] /\ wdev'[v] = wdev[v]
BY DEF WrType, WriterNext, Start, Lock, Show, Unregister, ScanEnd, Delete, Join, AddFail, Create,
   AddLock, AddTail, AddPack, Goto, Finish, Unlock

(* The other actors do not touch them.                                     *)
LEMMA WritersStand ==
    ASSUME [Next]_vars, \A w \in Writers : ~ WriterNext(w)
    PROVE  UNCHANGED <<listVars, wrVars>>
BY DEF Next, vars, IrqNext, WorkerNext, Deliver, RecvFind, RecvNoDevice, RecvAlloc, RecvQueue,
   RecvDrop, WorkerCheck, WorkerExit, WorkerTake, WorkerForward, WorkerOops, WorkerLock,
   WorkerFree

(* The members of the list after it has changed.                           *)
LEMMA DeleteMembers ==
    ASSUME ListType, ListOK, NEW w \in Writers, Delete(w)
    PROVE  \A d \in Devs : IsListed(d)' <=> IsListed(d) /\ d # wdev[w]
<1>1. PICK j \in 1 .. Len(devlist) : devlist[j] = wdev[w] /\ devlist' = RemoveAt(devlist, j)
  BY DEF Delete
<1>2. devlist \in Seq(Devs)
  BY DEF ListType
<1>3. \A m, n \in 1 .. Len(devlist) : devlist[m] = devlist[n] => m = n
  BY DEF ListOK
<1>. DEFINE r == RemoveAt(devlist, j)
<1>4. /\ \A n \in 1 .. Len(r) : \E m \in 1 .. Len(devlist) : m # j /\ r[n] = devlist[m]
      /\ \A m \in 1 .. Len(devlist) : m # j => \E n \in 1 .. Len(r) : r[n] = devlist[m]
      /\ \A n \in 1 .. Len(r) : r[n] # devlist[j]
  BY <1>2, <1>3, RemoveAtMembers
<1>. HIDE DEF r
<1>5. devlist' = r
  BY <1>1 DEF r
<1>6. ASSUME NEW d \in Devs
      PROVE  (\E n \in 1 .. Len(r) : r[n] = d) <=> IsListed(d) /\ d # wdev[w]
  <2>1. ASSUME NEW n \in 1 .. Len(r), r[n] = d PROVE IsListed(d) /\ d # wdev[w]
    BY <1>1, <1>4, <2>1 DEF IsListed
  <2>2. ASSUME NEW m \in 1 .. Len(devlist), devlist[m] = d, d # wdev[w]
        PROVE  \E n \in 1 .. Len(r) : r[n] = d
    BY <1>1, <1>4, <2>2
  <2>. QED
    BY <2>1, <2>2 DEF IsListed
<1>. QED
  BY <1>5, <1>6 DEF IsListed

(* A device is put behind the last.                                        *)
LEMMA AddMembers ==
    ASSUME ListType, WrLocals, NEW w \in Writers, AddTail(w)
    PROVE  \A d \in Devs : IsListed(d)' <=> IsListed(d) \/ d = wdev[w]
<1>1. wdev[w] \in Devs /\ devlist' = Append(devlist, wdev[w])
  BY DEF AddTail, WrLocals
<1>2. /\ Len(devlist') = Len(devlist) + 1 /\ Len(devlist) \in Nat
      /\ \A n \in 1 .. Len(devlist) + 1 :
             devlist'[n] = IF n = Len(devlist) + 1 THEN wdev[w] ELSE devlist[n]
  BY <1>1, AppendMembers DEF ListType
<1>. QED
  BY <1>2 DEF IsListed

(* A writer that neither deletes nor registers keeps what CommandInv says. *)
LEMMA CommandMove ==
    ASSUME CommandInv, WrType, NEW w \in Writers, NEW pc, Goto(w, pc),
           pc \notin {"sync", "addpack"}, wpc[w] \in Unlisted => pc \in Unlisted,
           UNCHANGED <<devlist, alive, ptypes, dname, wdev, ipc, iname, gp>>
    PROVE  CommandInv'
<1>1. wpc'[w] = pc /\ \A v \in Writers : v # w => wpc'[v] = wpc[v]
  BY GotoMoves
<1>2. \A v \in Writers : /\ wpc'[v] \in {"sync", "addpack"} => wpc'[v] = wpc[v]
                         /\ wpc[v] \in Unlisted => wpc'[v] \in Unlisted
  BY <1>1
<1>. QED
  BY <1>2 DEF CommandInv, IsListed

(* The steps of the handlers.                                              *)
LEMMA CommandIrq ==
    ASSUME CommandInv, ListType, IrqType, NEW i \in Irqs, IrqNext(i)
    PROVE  CommandInv'
<1>1. UNCHANGED <<devlist, alive, ptypes, dname, wpc, wdev>>
  BY DEF IrqNext, Deliver, RecvFind, RecvNoDevice, RecvAlloc, RecvQueue, RecvDrop, listVars,
     wrVars
<1>. SUFFICES \A h \in Irqs : ipc'[h] = "find" =>
                  \E d \in Devs : /\ IsListed(d) /\ dname[d] = iname'[h]
                                  /\ h \in gp' \/ d \in ptypes
  BY <1>1 DEF CommandInv, IsListed
<1>2. ASSUME NEW d \in ptypes, NEW f \in Frames, NEW n \in Lens,
             NEW t \in Interruptible \cup {NULL}, Deliver(i, d, f, n, t),
             NEW h \in Irqs, ipc'[h] = "find"
      PROVE  \E e \in Devs : IsListed(e) /\ dname[e] = iname'[h] /\ (h \in gp' \/ e \in ptypes)
  <2>1. CASE h = i
    <3>1. iname'[h] = dname[d] /\ d \in Devs /\ IsListed(d)
      BY <1>2, <2>1 DEF Deliver, IrqType, ListType, CommandInv
    <3>. QED
      BY <3>1
  <2>2. CASE h # i
    <3>1. ipc[h] = "find" /\ iname'[h] = iname[h] /\ gp' = gp
      BY <1>2, <2>2 DEF Deliver, IrqType
    <3>. QED
      BY <3>1 DEF CommandInv
  <2>. QED
    BY <2>1, <2>2
<1>3. CASE RecvFind(i) \/ RecvNoDevice(i) \/ RecvAlloc(i) \/ RecvQueue(i) \/ RecvDrop(i)
  <2>1. \A h \in Irqs : ipc'[h] = "find" =>
            ipc[h] = "find" /\ iname'[h] = iname[h] /\ (h \in gp => h \in gp')
    BY <1>3 DEF RecvFind, RecvNoDevice, RecvAlloc, RecvQueue, RecvDrop, Return, IrqType
  <2>. QED
    BY <2>1 DEF CommandInv
<1>. QED
  BY <1>2, <1>3 DEF IrqNext

(* While one process at a time executes a command, every step keeps it.    *)
LEMMA CommandStep ==
    ASSUME IInv, OneCommands, CommandInv, [Next]_vars
    PROVE  CommandInv'
<1>1. ListType /\ WrType /\ IrqType /\ WrLocals /\ ListOK
  BY DEF IInv, TypeOK, LocalsOK
<1>2. CASE UNCHANGED <<devlist, alive, ptypes, dname, wpc, wdev, ipc, iname, gp>>
  BY <1>2 DEF CommandInv, IsListed
<1>3. ASSUME NEW i \in Irqs, IrqNext(i) PROVE CommandInv'
  BY <1>1, <1>3, CommandIrq
<1>4. ASSUME NEW d \in Devs, WorkerNext(d) PROVE CommandInv'
  BY <1>2, <1>4 DEF WorkerNext, WorkerCheck, WorkerExit, WorkerTake, WorkerForward, WorkerOops,
     WorkerLock, WorkerFree, listVars, wrVars, irqVars
<1>5. ASSUME NEW w \in Writers, NEW line \in Script[w], Start(w, line) PROVE CommandInv'
  <2>1. CASE Parse(line) = "error"
    BY <1>2, <1>5, <2>1 DEF Start, listVars, irqVars
  <2>2. CASE Parse(line) # "error"
    BY <1>1, <1>5, <2>2, CommandMove DEF Start, listVars, irqVars, Unlisted
  <2>. QED
    BY <2>1, <2>2
<1>6. ASSUME NEW w \in Writers, Lock(w) \/ Show(w) \/ ScanEnd(w) \/ AddFail(w) \/ AddLock(w)
      PROVE  CommandInv'
  <2>1. CASE Lock(w)
    BY <1>1, <2>1, CommandMove DEF Lock, irqVars, Unlisted
  <2>2. CASE Show(w)
    BY <1>1, <2>2, CommandMove DEF Show, Finish, irqVars, Unlisted
  <2>3. CASE ScanEnd(w)
    BY <1>1, <2>3, CommandMove DEF ScanEnd, Unlock, Finish, irqVars, Unlisted
  <2>4. CASE AddFail(w)
    BY <1>1, <2>4, CommandMove DEF AddFail, Finish, listVars, irqVars, Unlisted
  <2>5. CASE AddLock(w)
    BY <1>1, <2>5, CommandMove DEF AddLock, irqVars, Unlisted
  <2>. QED
    BY <1>6, <2>1, <2>2, <2>3, <2>4, <2>5
<1>7. ASSUME NEW w \in Writers, Unregister(w) PROVE CommandInv'
  <2>1. PICK j \in 1 .. Len(devlist) :
            wdev' = [wdev EXCEPT ![w] = devlist[j]] /\ ptypes' = ptypes \ {devlist[j]}
    BY <1>7 DEF Unregister, Unregistered
  <2>2. wdev'[w] = devlist[j] /\ wpc'[w] = "sync" /\ wpc[w] = "scan"
        /\ \A v \in Writers : v # w => wpc'[v] = wpc[v] /\ wdev'[v] = wdev[v]
    BY <1>1, <1>7, <2>1, GotoMoves DEF Unregister, WrType
  <2>3. gp' = {i \in Irqs : ipc[i] # "idle"} /\ UNCHANGED <<devlist, alive, dname, ipc, iname>>
    BY <1>7 DEF Unregister, InHandler, irqVars
  <2>4. \A d : IsListed(d)' = IsListed(d)
    BY <2>3 DEF IsListed
  <2>5. \A v \in Writers : /\ wpc'[v] = "sync" => wdev'[v] \notin ptypes'
                           /\ wpc'[v] = "addpack" => IsListed(wdev'[v])
                           /\ wpc[v] \in Unlisted => wpc'[v] \in Unlisted /\ wdev'[v] = wdev[v]
    BY <2>1, <2>2 DEF CommandInv, Unlisted
  <2>6. \A i \in Irqs : ipc'[i] = "find" =>
            \E d \in Devs : IsListed(d) /\ dname[d] = iname[i] /\ i \in gp'
    BY <2>3 DEF CommandInv
  <2>. QED
    BY <2>1, <2>3, <2>4, <2>5, <2>6 DEF CommandInv
<1>8. ASSUME NEW w \in Writers, Delete(w) PROVE CommandInv'
  <2>1. \A d \in Devs : IsListed(d)' <=> IsListed(d) /\ d # wdev[w]
    BY <1>1, <1>8, DeleteMembers
  <2>2. wpc[w] = "sync" /\ wpc'[w] \in {"join", "oops"}
        /\ \A v \in Writers : v # w => wpc'[v] = wpc[v]
    BY <1>1, <1>8, GotoMoves DEF Delete
  <2>3. gp = {} /\ UNCHANGED <<alive, ptypes, dname, wdev, ipc, iname, gp>>
    BY <1>8 DEF Delete, irqVars
  <2>4. wdev[w] \notin ptypes
    BY <2>2 DEF CommandInv
  <2>5. \A v \in Writers : v # w => wpc[v] # "addpack" /\ wpc[v] # "sync"
    BY <2>2 DEF OneCommands, Commanding
  <2>6. \A v \in Writers : wpc[v] \in Unlisted => wpc'[v] \in Unlisted
    BY <2>2 DEF Unlisted
  <2>7. \A d \in alive' : IsListed(d)' \/ \E v \in Writers : wpc'[v] \in Unlisted /\ wdev'[v] = d
    <3>1. alive \subseteq Devs /\ wpc'[w] \in Unlisted
      BY <1>1, <2>2 DEF ListType, Unlisted
    <3>. QED
      BY <2>1, <2>3, <2>6, <3>1 DEF CommandInv
  <2>8. ptypes \subseteq Devs
    BY <1>1 DEF ListType
  <2>. QED
    BY <2>1, <2>2, <2>3, <2>4, <2>5, <2>7, <2>8 DEF CommandInv
<1>9. ASSUME NEW w \in Writers, Join(w) PROVE CommandInv'
  <2>1. PICK pc \in {"scan", "create", "idle"} : Goto(w, pc)
    BY <1>9 DEF Join, Unlock, Finish
  <2>2. wpc'[w] = pc /\ wpc[w] = "join"
        /\ \A v \in Writers : v # w => wpc'[v] = wpc[v] /\ wdev'[v] = wdev[v]
    BY <1>1, <1>9, <2>1, GotoMoves DEF Join, WrType
  <2>3. alive' = alive \ {wdev[w]} /\ UNCHANGED <<devlist, ptypes, dname, ipc, iname, gp>>
    BY <1>9 DEF Join, FreeDev, irqVars
  <2>4. \A d : IsListed(d)' = IsListed(d)
    BY <2>3 DEF IsListed
  <2>5. \A v \in Writers : wpc'[v] \in {"sync", "addpack"} =>
            wpc'[v] = wpc[v] /\ wdev'[v] = wdev[v]
    BY <2>1, <2>2
  <2>6. \A d \in alive' : IsListed(d) \/ \E v \in Writers : wpc'[v] \in Unlisted /\ wdev'[v] = d
    BY <2>2, <2>3 DEF CommandInv
  <2>. QED
    BY <2>3, <2>4, <2>5, <2>6 DEF CommandInv
<1>10. ASSUME NEW w \in Writers, NEW d \in Devs, Create(w, d) PROVE CommandInv'
  <2>1. wpc'[w] = "addlock" /\ wdev'[w] = d /\ wpc[w] = "create"
        /\ \A v \in Writers : v # w => wpc'[v] = wpc[v] /\ wdev'[v] = wdev[v]
    BY <1>1, <1>10, GotoMoves DEF Create, WrType
  <2>2. /\ d \notin alive /\ alive' = alive \cup {d}
        /\ \A e \in Devs : e # d => dname'[e] = dname[e]
        /\ UNCHANGED <<devlist, ptypes, ipc, iname, gp>>
    BY <1>1, <1>10 DEF Create, ListType, irqVars
  <2>3. \A e : IsListed(e)' = IsListed(e)
    BY <2>2 DEF IsListed
  <2>4. ~ IsListed(d)
    BY <1>1, <2>2 DEF IsListed, ListOK
  <2>5. \A v \in Writers : wpc'[v] \in {"sync", "addpack"} =>
            wpc'[v] = wpc[v] /\ wdev'[v] = wdev[v]
    BY <2>1
  <2>6. \A i \in Irqs : ipc'[i] = "find" =>
            \E e \in Devs : IsListed(e) /\ dname'[e] = iname[i] /\ (i \in gp \/ e \in ptypes)
    BY <2>2, <2>4 DEF CommandInv
  <2>7. \A e \in alive' : IsListed(e) \/ \E v \in Writers : wpc'[v] \in Unlisted /\ wdev'[v] = e
    <3>1. \A v \in Writers : wpc[v] \in Unlisted =>
              wpc'[v] \in Unlisted /\ wdev'[v] = wdev[v]
      BY <2>1 DEF Unlisted
    <3>2. wpc'[w] \in Unlisted /\ wdev'[w] = d
      BY <2>1 DEF Unlisted
    <3>. QED
      BY <2>2, <3>1, <3>2 DEF CommandInv
  <2>. QED
    BY <2>2, <2>3, <2>5, <2>6, <2>7 DEF CommandInv
<1>11. ASSUME NEW w \in Writers, AddTail(w) PROVE CommandInv'
  <2>1. \A d \in Devs : IsListed(d)' <=> IsListed(d) \/ d = wdev[w]
    BY <1>1, <1>11, AddMembers
  <2>2. wpc'[w] = "addpack" /\ wpc[w] = "addtail"
        /\ \A v \in Writers : v # w => wpc'[v] = wpc[v]
    BY <1>1, <1>11, GotoMoves DEF AddTail
  <2>3. UNCHANGED <<alive, ptypes, dname, wdev, ipc, iname, gp>> /\ wdev[w] \in Devs
    BY <1>1, <1>11 DEF AddTail, WrLocals, irqVars
  <2>4. alive \subseteq Devs /\ ptypes \subseteq Devs
    BY <1>1 DEF ListType
  <2>5. \A v \in Writers : v # w /\ wpc[v] = "addpack" => wdev[v] \in Devs
    BY <1>1 DEF WrLocals
  <2>6. \A v \in Writers : wpc'[v] = "addpack" => IsListed(wdev[v])'
    BY <2>1, <2>2, <2>3, <2>5 DEF CommandInv
  <2>7. \A d \in alive : IsListed(d)' \/ \E v \in Writers : wpc'[v] \in Unlisted /\ wdev[v] = d
    BY <2>1, <2>2, <2>4 DEF CommandInv
  <2>8. \A v \in Writers : wpc'[v] = "sync" => wpc[v] = "sync"
    BY <2>2
  <2>. QED
    BY <2>1, <2>3, <2>4, <2>6, <2>7, <2>8 DEF CommandInv, IsListed
<1>12. ASSUME NEW w \in Writers, AddPack(w) PROVE CommandInv'
  <2>1. wpc'[w] = "idle" /\ wpc[w] = "addpack"
        /\ \A v \in Writers : v # w => wpc'[v] = wpc[v] /\ wdev'[v] = wdev[v]
    BY <1>1, <1>12, GotoMoves DEF AddPack, Finish, WrType
  <2>2. /\ ptypes' = ptypes \cup {wdev[w]}
        /\ UNCHANGED <<devlist, alive, dname, ipc, iname, gp>>
    BY <1>12 DEF AddPack, irqVars
  <2>3. \A d : IsListed(d)' = IsListed(d)
    BY <2>2 DEF IsListed
  <2>4. IsListed(wdev[w])
    BY <2>1 DEF CommandInv
  <2>5. \A v \in Writers : v # w => wpc[v] # "sync"
    BY <2>1 DEF OneCommands, Commanding
  <2>6. \A v \in Writers : wpc'[v] # "sync" /\ (wpc'[v] = "addpack" => IsListed(wdev'[v]))
    BY <2>1, <2>5 DEF CommandInv
  <2>7. \A d \in alive : IsListed(d) \/ \E v \in Writers : wpc'[v] \in Unlisted /\ wdev'[v] = d
    BY <2>1 DEF CommandInv, Unlisted
  <2>. QED
    BY <2>2, <2>3, <2>4, <2>6, <2>7 DEF CommandInv
<1>13. CASE UNCHANGED vars
  BY <1>2, <1>13 DEF vars, listVars, wrVars, irqVars
<1>. QED
  BY <1>3, <1>4, <1>5, <1>6, <1>7, <1>8, <1>9, <1>10, <1>11, <1>12, <1>13 DEF Next, WriterNext

(* A line is what its writer may write, until it has been dealt with.      *)
LEMMA OpsStep ==
    ASSUME WrType, OpsOK, [Next]_vars
    PROVE  OpsOK'
<1>1. CASE \A w \in Writers : ~ WriterNext(w)
  BY <1>1, WritersStand DEF OpsOK, wrVars
<1>2. ASSUME NEW w \in Writers, WriterNext(w) PROVE OpsOK'
  <2>1. \A v \in Writers : v # w => wpc'[v] = wpc[v] /\ wop'[v] = wop[v]
    BY <1>2, WriterMoves
  <2>. SUFFICES /\ wpc'[w] # "idle" => /\ wop'[w] \in {"add", "remove", "clear", "show"}
                                       /\ MayDo(w, {wop'[w]})
                /\ wpc'[w] \in Commanding => wop'[w] # "show"
                /\ wpc'[w] = "show" => wop'[w] = "show"
                /\ wpc'[w] \in {"create", "addlock", "addtail", "addpack"} => wop'[w] = "add"
    BY <2>1 DEF OpsOK
  <2>2. w \in DOMAIN wpc /\ w \in DOMAIN wop
    BY DEF WrType
  <2>3. ASSUME NEW line \in Script[w], Start(w, line), Parse(line) # "error"
        PROVE  /\ wpc'[w] = "lock" /\ wop'[w] \in {"add", "remove", "clear", "show"}
               /\ MayDo(w, {wop'[w]})
    <3>1. wpc'[w] = "lock" /\ wop'[w] = Parse(line)
      BY <2>2, <2>3 DEF Start, Goto
    <3>2. Parse(line) \in {"add", "remove", "clear", "show", "error"}
      BY DEF Parse
    <3>. QED
      BY <2>3, <3>1, <3>2 DEF MayDo
  <2>4. ASSUME NEW line \in Script[w], Start(w, line), Parse(line) = "error"
        PROVE  wpc'[w] = wpc[w] /\ wop'[w] = wop[w]
    BY <2>4 DEF Start
  <2>5. CASE Lock(w)
    <3>1. wop' = wop /\ wpc[w] = "lock" /\ wpc'[w] = IF wop[w] = "show" THEN "show" ELSE "scan"
      BY <2>2, <2>5 DEF Lock, Goto
    <3>. QED
      BY <3>1 DEF OpsOK, Commanding
  <2>6. CASE \/ Show(w) \/ Unregister(w) \/ ScanEnd(w) \/ Delete(w) \/ Join(w) \/ AddFail(w)
             \/ AddLock(w) \/ AddTail(w) \/ AddPack(w) \/ \E d \in Devs : Create(w, d)
    <3>1. \/ wpc'[w] = "idle"
          \/ /\ wpc[w] \in Commanding /\ wop'[w] = wop[w] /\ wpc'[w] # "show"
             /\ wpc'[w] \in {"create", "addlock", "addtail", "addpack"} =>
                    wop[w] = "add" \/ wpc[w] \in {"create", "addlock", "addtail"}
      BY <2>2, <2>6 DEF Commanding, Show, Unregister, ScanEnd, Delete, Join, AddFail, AddLock,
         AddTail, AddPack, Create, Goto, Finish, Unlock
    <3>. QED
      BY <3>1 DEF OpsOK, Commanding
  <2>. QED
    BY <1>2, <2>3, <2>4, <2>5, <2>6 DEF WriterNext, OpsOK, Commanding
<1>. QED
  BY <1>1, <1>2

----------------------------------------------------------------------------
(* Names *)

(* The first device with a name, where the loops stop.                     *)
LEMMA FirstOfName ==
    ASSUME ListType, NEW name, Listed(name)
    PROVE  \E j \in 1 .. Len(devlist) : FirstNamed(j, name)
<1>. DEFINE T == {j \in 1 .. Len(devlist) : dname[devlist[j]] = name}
<1>1. T \subseteq Nat /\ T # {}
  BY DEF Listed
<1>2. PICK k \in T : \A i \in Nat : i < k => i \notin T
  <2>. HIDE DEF T
  <2>. QED
    BY <1>1, LeastMember
<1>3. Len(devlist) \in Nat
  BY DEF ListType
<1>4. \A l \in 1 .. k - 1 : dname[devlist[l]] # name
  BY <1>2, <1>3
<1>. QED
  BY <1>2, <1>4 DEF FirstNamed

(* What the steps of a writer, and of the others, do to the names.         *)
LEMMA NamesMove ==
    ASSUME NamesInv, WrType, NEW w \in Writers, WriterNext(w),
           UNCHANGED <<devlist, dname>>,
           wpc'[w] \in {"sync", "create", "addlock", "addtail", "addpack", "join"} =>
               /\ wop'[w] = wop[w] /\ wname'[w] = wname[w]
               /\ \/ wpc'[w] = wpc[w] /\ wdev'[w] = wdev[w]
                  \/ wpc[w] = "addlock" /\ wpc'[w] = "addtail" /\ wdev'[w] = wdev[w]
                  \/ wpc'[w] = "create" /\ wop[w] = "add" /\ ~ Listed(wname[w])
    PROVE  NamesInv'
<1>1. \A v \in Writers : v # w =>
          wpc'[v] = wpc[v] /\ wop'[v] = wop[v] /\ wname'[v] = wname[v] /\ wdev'[v] = wdev[v]
  BY WriterMoves
<1>2. ~ Listed(wname[w]) => \A d \in Devs : IsListed(d) => dname[d] # wname[w]
  BY DEF Listed, IsListed
<1>3. \A d : IsListed(d)' = IsListed(d)
  BY DEF IsListed
<1>4. NamesUnique'
  BY DEF NamesInv, NamesUnique
<1>5. ASSUME NEW v \in Writers
      PROVE  /\ wpc'[v] = "sync" /\ wop'[v] = "add" =>
                    \A d \in Devs : IsListed(d)' /\ dname'[d] = wname'[v] => d = wdev'[v]
             /\ wpc'[v] \in {"join", "create", "addlock", "addtail"} /\ wop'[v] = "add" =>
                    \A d \in Devs : IsListed(d)' => dname'[d] # wname'[v]
             /\ wpc'[v] \in {"addlock", "addtail"} => dname'[wdev'[v]] = wname'[v]
  <2>1. CASE v # w
    BY <1>1, <1>3, <2>1 DEF NamesInv
  <2>2. CASE v = w
    BY <1>2, <1>3, <2>2 DEF NamesInv
  <2>. QED
    BY <2>1, <2>2
<1>. QED
  BY <1>4, <1>5 DEF NamesInv

(* A writer that adds goes on alone with its name.                         *)
LEMMA NamesStep ==
    ASSUME IInv, IInv', OpsOK, OneAdds, NamesInv, [Next]_vars
    PROVE  NamesInv'
<1>1. ListType /\ WrType /\ WrLocals /\ ListOK /\ ListType' /\ ListOK'
  BY DEF IInv, TypeOK, LocalsOK
<1>2. CASE \A w \in Writers : ~ WriterNext(w)
  BY <1>2, WritersStand DEF NamesInv, NamesUnique, IsListed, listVars, wrVars
<1>3. ASSUME NEW w \in Writers, WriterNext(w) PROVE NamesInv'
  <2>1. \A v \in Writers : v # w =>
            wpc'[v] = wpc[v] /\ wop'[v] = wop[v] /\ wname'[v] = wname[v] /\ wdev'[v] = wdev[v]
    BY <1>1, <1>3, WriterMoves
  <2>2. w \in DOMAIN wpc /\ w \in DOMAIN wop /\ w \in DOMAIN wname /\ w \in DOMAIN wdev
    BY <1>1 DEF WrType
  <2>3. ASSUME NEW line \in Script[w], Start(w, line) PROVE NamesInv'
    <3>1. UNCHANGED <<devlist, dname>>
      BY <2>3 DEF Start, listVars
    <3>2. \/ wpc'[w] = "lock"
          \/ wpc'[w] = wpc[w] /\ wop'[w] = wop[w] /\ wname'[w] = wname[w] /\ wdev'[w] = wdev[w]
      BY <2>2, <2>3 DEF Start, Goto
    <3>. QED
      BY <1>1, <1>3, <3>1, <3>2, NamesMove
  <2>4. CASE Lock(w) \/ Show(w) \/ AddFail(w) \/ AddPack(w)
    <3>1. UNCHANGED <<devlist, dname>>
      BY <2>4 DEF Lock, Show, AddFail, AddPack, listVars
    <3>2. wpc'[w] \in {"show", "scan", "idle"}
      BY <2>2, <2>4 DEF Lock, Show, AddFail, AddPack, Goto, Finish
    <3>. QED
      BY <1>1, <1>3, <3>1, <3>2, NamesMove
  <2>5. CASE AddLock(w)
    <3>1. /\ UNCHANGED <<devlist, dname, wop, wname, wdev>>
          /\ wpc[w] = "addlock" /\ wpc'[w] = "addtail"
      BY <2>2, <2>5 DEF AddLock, Goto
    <3>. QED
      BY <1>1, <1>3, <3>1, NamesMove
  <2>6. CASE ScanEnd(w)
    <3>1. /\ UNCHANGED <<devlist, dname, wdev>>
          /\ \/ wpc'[w] = "idle"
             \/ wpc'[w] = "create" /\ wop[w] = "add" /\ UNCHANGED <<wop, wname>>
      BY <2>2, <2>6 DEF ScanEnd, Unlock, Finish, Goto
    <3>2. wop[w] = "add" => ~ Listed(wname[w])
      BY <1>1, <2>6, FirstOfName DEF ScanEnd, Victim
    <3>. QED
      BY <1>1, <1>3, <3>1, <3>2, NamesMove
  <2>7. CASE Join(w)
    <3>1. /\ UNCHANGED <<devlist, dname>> /\ wpc[w] = "join"
          /\ \/ wpc'[w] \in {"scan", "idle"}
             \/ wpc'[w] = "create" /\ wop[w] = "add" /\ UNCHANGED <<wop, wname>>
      BY <2>2, <2>7 DEF Join, FreeDev, Unlock, Finish, Goto
    <3>2. wop[w] = "add" => ~ Listed(wname[w])
      BY <1>1, <3>1 DEF NamesInv, Listed, IsListed, ListType
    <3>. QED
      BY <1>1, <1>3, <3>1, <3>2, NamesMove
  <2>8. CASE Unregister(w)
    <3>1. PICK j \in 1 .. Len(devlist) : Victim(w, j) /\ wdev' = [wdev EXCEPT ![w] = devlist[j]]
      BY <2>8 DEF Unregister
    <3>2. wdev'[w] = devlist[j] /\ wpc'[w] = "sync" /\ UNCHANGED <<devlist, dname, wop, wname>>
      BY <2>2, <2>8, <3>1 DEF Unregister, Goto
    <3>3. wop[w] = "add" => \A d \in Devs : IsListed(d) /\ dname[d] = wname[w] => d = devlist[j]
      BY <3>1 DEF Victim, FirstNamed, NamesInv, NamesUnique, IsListed
    <3>4. \A d : IsListed(d)' = IsListed(d)
      BY <3>2 DEF IsListed
    <3>5. NamesUnique'
      BY <3>2 DEF NamesInv, NamesUnique
    <3>. QED
      BY <2>1, <3>2, <3>3, <3>4, <3>5 DEF NamesInv
  <2>9. CASE Delete(w)
    <3>1. \A d \in Devs : IsListed(d)' <=> IsListed(d) /\ d # wdev[w]
      BY <1>1, <2>9, DeleteMembers
    <3>2. /\ wpc[w] = "sync" /\ wpc'[w] \in {"join", "oops"}
          /\ UNCHANGED <<dname, wop, wname, wdev>>
      BY <2>2, <2>9 DEF Delete, Goto
    <3>3. \A n \in 1 .. Len(devlist') : devlist'[n] \in Devs /\ IsListed(devlist'[n])
      <4>1. \A n \in 1 .. Len(devlist') : devlist'[n] \in Devs
        BY <1>1 DEF ListType
      <4>2. ASSUME NEW n \in 1 .. Len(devlist') 
            PROVE  \E d \in Devs : d = devlist'[n] /\ IsListed(d)'
        BY <4>1 DEF IsListed
      <4>. QED
        BY <3>1, <4>1, <4>2
    <3>4. NamesUnique'
      <4>1. ASSUME NEW m \in 1 .. Len(devlist'), NEW n \in 1 .. Len(devlist'),
                   dname[devlist'[m]] = dname[devlist'[n]]
            PROVE  m = n
        <5>1. \A d, e \in Devs : IsListed(d) /\ IsListed(e) /\ dname[d] = dname[e] => d = e
          BY DEF NamesInv, NamesUnique, IsListed
        <5>2. devlist'[m] = devlist'[n]
          <6>1. devlist'[m] \in Devs /\ IsListed(devlist'[m])
            BY <3>3
          <6>2. devlist'[n] \in Devs /\ IsListed(devlist'[n])
            BY <3>3
          <6>. QED
            BY <4>1, <5>1, <6>1, <6>2
        <5>. QED
          BY <1>1, <5>2 DEF ListOK
      <4>. QED
        BY <3>2, <4>1 DEF NamesUnique
    <3>. QED
      BY <2>1, <3>1, <3>2, <3>4 DEF NamesInv
  <2>10. ASSUME NEW d \in Devs, Create(w, d) PROVE NamesInv'
    <3>1. /\ wpc[w] = "create" /\ wpc'[w] = "addlock" /\ wdev'[w] = d
          /\ UNCHANGED <<devlist, wop, wname>>
      BY <2>2, <2>10 DEF Create, Goto
    <3>2. /\ dname'[d] = wname[w] /\ \A e \in Devs : e # d => dname'[e] = dname[e]
      BY <1>1, <2>10 DEF Create, ListType
    <3>3. \A e : IsListed(e)' = IsListed(e)
      BY <3>1 DEF IsListed
    <3>4. ~ IsListed(d)
      BY <1>1, <2>10 DEF Create, IsListed, ListOK
    <3>5. \A e \in Devs : IsListed(e) => dname'[e] = dname[e]
      BY <3>2, <3>4
    <3>6. NamesUnique'
      <4>1. \A n \in 1 .. Len(devlist) : devlist[n] \in Devs /\ IsListed(devlist[n])
        BY <1>1 DEF ListType, IsListed
      <4>. QED
        BY <3>1, <3>5, <4>1 DEF NamesInv, NamesUnique
    <3>7. ASSUME NEW v \in Writers, v # w, wpc[v] \in {"addlock", "addtail"}
          PROVE  dname'[wdev[v]] = wname[v]
      <4>1. wdev[v] \in alive /\ wdev[v] \in Devs
        BY <1>1, <3>7 DEF ListOK, Unlisted, WrLocals
      <4>2. wdev[v] # d
        BY <2>10, <4>1 DEF Create
      <4>. QED
        BY <3>2, <3>7, <4>1, <4>2 DEF NamesInv
    <3>. QED
      BY <2>1, <3>1, <3>2, <3>3, <3>4, <3>5, <3>6, <3>7 DEF NamesInv
  <2>11. CASE AddTail(w)
    <3>1. \A d \in Devs : IsListed(d)' <=> IsListed(d) \/ d = wdev[w]
      BY <1>1, <2>11, AddMembers
    <3>2. /\ wpc[w] = "addtail" /\ wpc'[w] = "addpack" /\ wdev[w] \in Devs
          /\ UNCHANGED <<dname, wop, wname, wdev>>
      BY <1>1, <2>2, <2>11 DEF AddTail, Goto, WrLocals
    <3>3. /\ wop[w] = "add" /\ dname[wdev[w]] = wname[w]
          /\ \A d \in Devs : IsListed(d) => dname[d] # wname[w]
      BY <3>2 DEF NamesInv, OpsOK
    <3>4. NamesUnique'
      <4>1. \A n \in 1 .. Len(devlist') : /\ devlist'[n] \in Devs
                                          /\ IsListed(devlist'[n]) \/ devlist'[n] = wdev[w]
        <5>1. \A n \in 1 .. Len(devlist') : devlist'[n] \in Devs
          BY <1>1 DEF ListType
        <5>2. ASSUME NEW n \in 1 .. Len(devlist')
              PROVE  \E d \in Devs : d = devlist'[n] /\ IsListed(d)'
          BY <5>1 DEF IsListed
        <5>. QED
          BY <3>1, <5>1, <5>2
      <4>2. ASSUME NEW m \in 1 .. Len(devlist'), NEW n \in 1 .. Len(devlist'),
                   dname[devlist'[m]] = dname[devlist'[n]]
            PROVE  m = n
        <5>1. devlist'[m] = devlist'[n]
          BY <3>3, <4>1, <4>2 DEF NamesInv, NamesUnique, IsListed
        <5>. QED
          BY <1>1, <5>1 DEF ListOK
      <4>. QED
        BY <3>2, <4>2 DEF NamesUnique
    <3>5. \A v \in Writers : v # w => ~ (wpc[v] # "idle" /\ wop[v] = "add")
      BY <3>2, <3>3 DEF OneAdds, Adds
    <3>6. ASSUME NEW v \in Writers, v # w
          PROVE  wpc[v] \notin {"create", "addlock", "addtail", "addpack"}
      BY <3>5, <3>6 DEF OpsOK
    <3>. QED
      BY <2>1, <3>2, <3>3, <3>4, <3>5, <3>6 DEF NamesInv
  <2>. QED
    BY <1>3, <2>3, <2>4, <2>5, <2>6, <2>7, <2>8, <2>9, <2>10, <2>11 DEF WriterNext
<1>. QED
  BY <1>2, <1>3

(* Commands are of the lines of their writers.                             *)
LEMMA OpsInvariant == Spec => [](IInv /\ OpsOK)
<1>1. Init => IInv /\ OpsOK
  BY InitIInv DEF Init, OpsOK, Commanding
<1>2. IInv /\ OpsOK /\ [Next]_vars => IInv' /\ OpsOK'
  BY NextIInv, OpsStep DEF IInv, TypeOK
<1>. QED
  BY <1>1, <1>2, PTL DEF Spec

(* CommandInv holds where one process alone may write commands.            *)
LEMMA CommandInvariant ==
    ASSUME OneMayDo(Writers, Commands)
    PROVE  Spec => [](IInv /\ CommandInv)
<1>1. Init => CommandInv
  BY DEF Init, CommandInv
<1>2. IInv /\ OpsOK => OneCommands
  <2>. SUFFICES ASSUME IInv, OpsOK, NEW v \in Writers, NEW w \in Writers,
                       wpc[v] \in Commanding, wpc[w] \in Commanding
                PROVE  v = w
    BY DEF OneCommands
  <2>1. MayDo(v, Commands) /\ MayDo(w, Commands)
    BY DEF OpsOK, Commanding, MayDo, Commands
  <2>. QED
    BY <2>1 DEF OneMayDo
<1>3. IInv /\ OpsOK /\ CommandInv /\ [Next]_vars => CommandInv'
  BY <1>2, CommandStep
<1>. QED
  BY <1>1, <1>3, OpsInvariant, PTL DEF Spec

(* RegisteredAlive: rtap_device_add lists a device under the lock of the   *)
(* list and registers its handler once it has released it, yet no handler  *)
(* is registered for a device that is freed as long as one process at most *)
(* writes commands to the file, whoever reads it.                          *)
THEOREM RegisteredStayAlive ==
    ASSUME OneMayDo(Writers, Commands)
    PROVE  Spec => []RegisteredAlive
<1>1. IInv /\ CommandInv => RegisteredAlive
  BY DEF IInv, ListOK, CommandInv, IsListed, RegisteredAlive
<1>. QED
  BY <1>1, CommandInvariant, PTL

(* RecvFindsDevice: with one such process rtap_device_recv finds a device  *)
(* of the name that its packet came for, whatever the process does, since  *)
(* synchronize_net waits for the handlers before the device leaves.        *)
THEOREM HandlersFindDevices ==
    ASSUME OneMayDo(Writers, Commands)
    PROVE  Spec => []RecvFindsDevice
<1>1. IInv /\ CommandInv => RecvFindsDevice
  BY DEF CommandInv, IsListed, RecvFindsDevice, Listed
<1>. QED
  BY <1>1, CommandInvariant, PTL

(* NamesUnique: rtap_device_add removes the devices of its name first, so  *)
(* no name is listed twice as long as one process at most adds, whoever    *)
(* removes, clears and reads meanwhile.                                    *)
THEOREM NamesStayUnique ==
    ASSUME OneMayDo(Writers, {"add"})
    PROVE  Spec => []NamesUnique
<1>1. Init => NamesInv
  BY DEF Init, NamesInv, NamesUnique
<1>2. IInv /\ OpsOK => OneAdds
  BY DEF OneMayDo, OneAdds, Adds, OpsOK
<1>3. IInv /\ IInv' /\ OpsOK /\ NamesInv /\ [Next]_vars => NamesInv'
  BY <1>2, NamesStep
<1>4. NamesInv => NamesUnique
  BY DEF NamesInv
<1>. QED
  BY <1>1, <1>3, <1>4, OpsInvariant, PTL DEF Spec

----------------------------------------------------------------------------
(* The works that the table loses *)

(* A work that is free, in the hands of nobody and on no queue.            *)
Lost(k) ==
    /\ k \notin Pool
    /\ \A i \in Irqs : iwrk[i] # k
    /\ \A d \in Devs : cur[d] # k /\ k \notin ToSet(queue[d])

(* In the terms of KworkCustody: it has left the circle.                   *)
LEMMA LostPlace ==
    ASSUME NEW k \in Kworks
    PROVE  Lost(k) <=> ~ CP!HasPlace(k)
<1>1. k # NULL
  BY NullFacts
<1>. QED
  BY <1>1 DEF Lost, CP!HasPlace

(* The works that kfree in rtap_device_remove leaves on the list of the    *)
(* device, and the one in the hands of its thread if that has oopsed.      *)
Abandoned(w, k) ==
    LET d == wdev[w] IN
    /\ Join(w)
    /\ k \in ToSet(queue[d]) \/ (kpc[d] = "dead" /\ cur[d] = k)

(* A work is lost where its device is freed, and nowhere else, and no step *)
(* gets it back.                                                           *)
LEMMA LostStep ==
    ASSUME IInv, [Next]_vars, NEW k \in Kworks
    PROVE  /\ Lost(k) => Lost(k)'
           /\ Lost(k)' => Lost(k) \/ \E w \in Writers : Abandoned(w, k)
<1>1. /\ WorkTypes /\ LocalsOK /\ FreelistOK /\ OnePlace /\ QueueOK /\ ThreadOK
      /\ WrType /\ WrLocals /\ ThrLocals
  BY DEF IInv, TypeOK, WorkTypes, LocalsOK
<1>2. CP!CustodyType
  <2>1. Pool \subseteq Kworks
    <3>1. \A s \in 0 .. freelist_index - 1 : s \in Slots /\ freelist[s] # NULL
      BY <1>1, ConstantFacts DEF FreelistOK, Slots, WorkTypes, TblType
    <3>. QED
      BY <1>1, <3>1 DEF Pool, WorkTypes, TblType
  <2>2. \A d \in Devs : ToSet(queue[d]) \subseteq Kworks
    BY <1>1, QueueMembers DEF WorkTypes
  <2>. QED
    BY <1>1, <2>1, <2>2 DEF CP!CustodyType, WorkTypes, IrqType, ThrType
<1>3. Lost(k) <=> ~ CP!HasPlace(k)
  BY LostPlace
<1>4. Lost(k)' <=> ~ CP!HasPlace(k)'
  <2>1. k # NULL
    BY NullFacts
  <2>. QED
    BY <2>1 DEF Lost, CP!HasPlace
<1>5. CASE CP!Circle
  BY <1>2, <1>3, <1>4, <1>5, CP!CircleKeeps
<1>6. ASSUME NEW w \in Writers, Join(w), wdev[w] \in Devs, CP!Abandon(wdev[w])
      PROVE  /\ Lost(k) => Lost(k)'
             /\ Lost(k)' => Lost(k) \/ Abandoned(w, k)
  <2>0. PICK d \in Devs : d = wdev[w]
    BY <1>6
  <2>1. CP!Abandon(d)
    BY <1>6, <2>0 DEF CP!Abandon
  <2>2. /\ CP!HasPlace(k)' => CP!HasPlace(k)
        /\ CP!HasPlace(k) /\ k \notin ToSet(queue[d]) \cup ({cur[d]} \ {NULL})
               => CP!HasPlace(k)'
    BY <1>2, <2>1, CP!AbandonLoses
  <2>3. cur[d] = k => kpc[d] = "dead"
    <3>1. task[d] = "exited"
      BY <1>6, <2>0 DEF Join, Gone
    <3>2. kpc[d] \in {"idle", "dead"}
      BY <1>1, <3>1 DEF ThreadOK, WorkTypes, ThrType
    <3>. QED
      BY <1>1, <3>2, NullFacts DEF ThrLocals
  <2>. QED
    BY <1>3, <1>4, <1>6, <2>0, <2>2, <2>3 DEF Abandoned
<1>7. CASE UNCHANGED CP!vars
  <2>1. UNCHANGED <<Pool, [i \in Irqs |-> {iwrk[i]} \ {NULL}], [d \in Devs |-> ToSet(queue[d])],
                    [d \in Devs |-> {cur[d]} \ {NULL}]>>
    BY <1>7 DEF CP!vars
  <2>2. CP!HasPlace(k)' <=> CP!HasPlace(k)
    BY <2>1 DEF CP!HasPlace
  <2>. QED
    BY <1>3, <1>4, <2>2
<1>8. CASE \E w \in Writers : Join(w) /\ wdev[w] \in Devs /\ CP!Abandon(wdev[w])
  BY <1>6, <1>8
<1>. QED
  BY <1>1, <1>5, <1>7, <1>8, CircleStep

(* A work leaves the circulation where rtap_device_remove or               *)
(* rtap_device_clear frees the device that it waits on, and never          *)
(* elsewhere: not in the handlers, whatever they race with, nor in a       *)
(* thread; and a work that has left never comes back, so the table only    *)
(* ever shrinks.                                                           *)
THEOREM WorksLostAtRemoval ==
    Spec => [][\A k \in Kworks :
                   /\ Lost(k) => Lost(k)'
                   /\ Lost(k)' => Lost(k) \/ \E w \in Writers : Abandoned(w, k)]_vars
<1>. DEFINE A == \A k \in Kworks :
                     /\ Lost(k) => Lost(k)'
                     /\ Lost(k)' => Lost(k) \/ \E w \in Writers : Abandoned(w, k)
<1>1. IInv /\ [Next]_vars => [A]_vars
  BY LostStep
<1>. QED
  BY <1>1, DeviceInvariant, PTL DEF Spec

(* NoWorkLost: while no device is freed, every work is free or in the hands*)
(* of an actor that will return it.                                        *)
THEOREM WorksKept ==
    Spec /\ [][\A w \in Writers : ~ Join(w)]_vars => []NoWorkLost
<1>. DEFINE Quiet == \A w \in Writers : ~ Join(w)
<1>1. NoWorkLost <=> \A k \in Kworks : ~ Lost(k)
  BY DEF NoWorkLost, Lost
<1>2. Init => NoWorkLost
  <2>. SUFFICES ASSUME Init PROVE NoWorkLost
    OBVIOUS
  <2>1. ASSUME NEW k \in Kworks PROVE k \in Pool
    <3>1. k - 1 \in 0 .. KWORK_MAX - 1 /\ k = (k - 1) + 1 /\ freelist_index = KWORK_MAX
      BY ConstantFacts DEF Kworks, Init, TblInit
    <3>2. freelist[k - 1] = k
      BY <3>1 DEF Init, TblInit, Slots
    <3>. QED
      BY <3>1, <3>2 DEF Pool
  <2>. QED
    BY <2>1 DEF NoWorkLost
<1>3. IInv /\ NoWorkLost /\ [Next]_vars /\ [Quiet]_vars => NoWorkLost'
  <2>. SUFFICES ASSUME IInv, NoWorkLost, [Next]_vars, [Quiet]_vars PROVE NoWorkLost'
    OBVIOUS
  <2>1. \A w \in Writers, k \in Kworks : ~ Abandoned(w, k)
    <3>1. CASE Quiet
      BY <3>1 DEF Abandoned
    <3>2. CASE UNCHANGED vars
      BY <3>2 DEF Abandoned, Join, Goto, Unlock, Finish, WrType, vars, wrVars, IInv, TypeOK
    <3>. QED
      BY <3>1, <3>2
  <2>2. \A k \in Kworks : Lost(k)' => Lost(k)
    BY <2>1, LostStep
  <2>3. NoWorkLost' <=> \A k \in Kworks : ~ Lost(k)'
    BY DEF NoWorkLost, Lost
  <2>. QED
    BY <1>1, <2>2, <2>3
<1>. QED
  BY <1>2, <1>3, DeviceInvariant, PTL DEF Spec

----------------------------------------------------------------------------
(* Devices that are only added *)

(* The lines of AddsOnce that add a device of this name.                   *)
MayAdd(w, name) == \E line \in Script[w] : Parse(line) = "add" /\ line.name = name

(* No device is being removed, and a name that is listed has been added by *)
(* a writer that has no line left.                                         *)
AddsInv ==
    \A w \in Writers :
        /\ wpc[w] \notin {"sync", "join", "oops"}
        /\ wpc[w] # "idle" /\ wop[w] = "add" => MayAdd(w, wname[w])
        /\ budget[w] <= IF wpc[w] = "idle" THEN Budget[w] ELSE Budget[w] - 1
        /\ wpc[w] \in {"addlock", "addtail"} => dname[wdev[w]] = wname[w]

Added(name) ==
    \E w \in Writers : MayAdd(w, name) /\ budget[w] = 0 /\ wpc[w] \in {"idle", "addpack"}

ListedAdded == \A d \in Devs : IsListed(d) => Added(dname[d])

(* The lines of a name are those of one writer, which writes no other.     *)
LEMMA OneAdder ==
    ASSUME AddsOnce, NEW v \in Writers, NEW w \in Writers, NEW name,
           MayAdd(v, name), MayAdd(w, name)
    PROVE  v = w /\ Budget[w] <= 1 /\ Budget[w] \in Nat
<1>1. Budget[w] \in Nat
  BY DeviceAssumption
<1>2. v = w /\ Budget[w] <= 1
  BY DEF AddsOnce, MayAdd
<1>. QED
  BY <1>1, <1>2

(* A scan of rtap_device_add finds no device: a listed device of the name  *)
(* would have been added by the same writer, with its only line.           *)
LEMMA NoRemoval ==
    ASSUME AddsOnce, IInv, OpsOK, AddsInv, ListedAdded, NEW w \in Writers
    PROVE  ~ Unregister(w) /\ ~ Join(w) /\ ~ Delete(w)
<1>1. ~ Join(w) /\ ~ Delete(w)
  BY DEF AddsInv, Join, Delete
<1>2. ASSUME Unregister(w) PROVE FALSE
  <2>1. wpc[w] = "scan"
    BY <1>2 DEF Unregister
  <2>2. wop[w] \in {"add", "remove", "clear"} /\ MayDo(w, {wop[w]})
    BY <2>1 DEF OpsOK, Commanding
  <2>3. wop[w] = "add"
    BY <2>2 DEF MayDo, AddsOnce
  <2>4. PICK j \in 1 .. Len(devlist) : FirstNamed(j, wname[w])
    BY <1>2, <2>3 DEF Unregister, Victim
  <2>5. devlist[j] \in Devs /\ IsListed(devlist[j]) /\ dname[devlist[j]] = wname[w]
    BY <2>4 DEF FirstNamed, IsListed, IInv, TypeOK, ListType
  <2>6. PICK v \in Writers : MayAdd(v, wname[w]) /\ wpc[v] \in {"idle", "addpack"}
    BY <2>5 DEF ListedAdded, Added
  <2>7. MayAdd(w, wname[w])
    BY <2>1, <2>3 DEF AddsInv
  <2>8. v = w
    BY <2>6, <2>7, OneAdder
  <2>. QED
    BY <2>1, <2>6, <2>8
<1>. QED
  BY <1>1, <1>2

LEMMA AddsStep ==
    ASSUME AddsOnce, IInv, OpsOK, AddsInv, ListedAdded, [Next]_vars
    PROVE  AddsInv' /\ ListedAdded'
<1>1. ListType /\ WrType /\ WrLocals /\ ListOK
  BY DEF IInv, TypeOK, LocalsOK
<1>2. CASE \A w \in Writers : ~ WriterNext(w)
  BY <1>2, WritersStand DEF AddsInv, ListedAdded, Added, IsListed, listVars, wrVars
<1>3. ASSUME NEW w \in Writers, WriterNext(w) PROVE AddsInv' /\ ListedAdded'
  <2>1. /\ \A v \in Writers : v # w => /\ wpc'[v] = wpc[v] /\ wop'[v] = wop[v]
                                       /\ wname'[v] = wname[v] /\ wdev'[v] = wdev[v]
        /\ \A v \in Writers : v # w => budget'[v] = budget[v]
    <3>1. \A v \in Writers : v # w => budget'[v] = budget[v]
      BY <1>1, <1>3 DEF WriterNext, Start, Lock, Show, Unregister, ScanEnd, Delete, Join,
         AddFail, Create, AddLock, AddTail, AddPack, WrType
    <3>. QED
      BY <1>1, <1>3, <3>1, WriterMoves
  <2>2. ~ Unregister(w) /\ ~ Join(w) /\ ~ Delete(w)
    BY NoRemoval
  <2>3. budget[w] \in Nat /\ Budget[w] \in Nat
    BY <1>1, DeviceAssumption DEF WrType
  (* The name that a writer has added stays added. *)
  <2>4. \A name : Added(name) => Added(name)'
    <3>. SUFFICES ASSUME NEW name, NEW v \in Writers, MayAdd(v, name), budget[v] = 0,
                         wpc[v] \in {"idle", "addpack"}
                  PROVE  budget'[v] = 0 /\ wpc'[v] \in {"idle", "addpack"}
      BY DEF Added, MayAdd
    <3>1. CASE v # w
      BY <2>1, <3>1
    <3>2. CASE v = w
      <4>1. AddPack(w)
        BY <1>3, <2>2, <3>2 DEF WriterNext, Start, Lock, Show, ScanEnd, AddFail, Create,
           AddLock, AddTail
      <4>. QED
        BY <1>1, <3>2, <4>1 DEF AddPack, Finish, Goto, WrType
    <3>. QED
      BY <3>1, <3>2
  <2>5. CASE \E line \in Script[w] : Start(w, line)
    <3>1. PICK line \in Script[w] : Start(w, line)
      BY <2>5
    <3>2. /\ wpc[w] = "idle" /\ budget'[w] = budget[w] - 1 /\ budget[w] > 0
          /\ UNCHANGED <<devlist, dname, wdev>>
      BY <1>1, <3>1 DEF Start, WrType, listVars
    <3>3. budget[w] <= Budget[w]
      BY <3>2 DEF AddsInv
    <3>4. CASE Parse(line) = "error"
      <4>1. UNCHANGED <<wpc, wop, wname>>
        BY <3>1, <3>4 DEF Start
      <4>. QED
        BY <2>1, <2>3, <2>4, <3>2, <3>3, <4>1 DEF AddsInv, ListedAdded, IsListed, MayAdd
    <3>5. CASE Parse(line) # "error"
      <4>1. wpc'[w] = "lock" /\ wop'[w] = Parse(line) /\ wname'[w] = line.name
        BY <1>1, <3>1, <3>5 DEF Start, Goto, WrType
      <4>2. wop'[w] = "add" => MayAdd(w, wname'[w])
        BY <4>1 DEF MayAdd
      <4>. QED
        BY <2>1, <2>3, <2>4, <3>2, <3>3, <4>1, <4>2 DEF AddsInv, ListedAdded, IsListed, MayAdd
    <3>. QED
      BY <3>4, <3>5
  <2>6. CASE Lock(w) \/ AddLock(w) \/ ScanEnd(w) \/ Show(w) \/ AddFail(w) \/ AddPack(w)
    <3>1. UNCHANGED <<devlist, dname, budget>>
      BY <2>6 DEF Lock, AddLock, ScanEnd, Show, AddFail, AddPack, listVars
    <3>2. /\ wpc[w] # "idle"
          /\ wpc'[w] = "idle" \/ /\ wop'[w] = wop[w] /\ wname'[w] = wname[w]
                                 /\ wpc'[w] \notin {"idle", "sync", "join", "oops", "addlock"}
                                 /\ wpc'[w] = "addtail" => /\ wpc[w] = "addlock"
                                                           /\ wdev'[w] = wdev[w]
      BY <1>1, <2>6 DEF Lock, AddLock, ScanEnd, Unlock, Show, AddFail, AddPack, Goto, Finish,
         WrType
    <3>3. AddsInv'
      BY <2>1, <2>3, <3>1, <3>2 DEF AddsInv, MayAdd
    <3>. QED
      BY <2>4, <3>1, <3>3 DEF ListedAdded, IsListed
  <2>7. ASSUME NEW d \in Devs, Create(w, d) PROVE AddsInv' /\ ListedAdded'
    <3>1. /\ wpc[w] = "create" /\ wpc'[w] = "addlock" /\ wdev'[w] = d
          /\ UNCHANGED <<devlist, wop, wname, budget>>
      BY <1>1, <2>7 DEF Create, Goto, WrType
    <3>2. /\ dname'[d] = wname[w] /\ \A e \in Devs : e # d => dname'[e] = dname[e]
      BY <1>1, <2>7 DEF Create, ListType
    <3>3. ~ IsListed(d)
      BY <1>1, <2>7 DEF Create, IsListed, ListOK
    <3>4. ASSUME NEW v \in Writers, v # w, wpc[v] \in {"addlock", "addtail"}
          PROVE  dname'[wdev[v]] = wname[v]
      <4>1. wdev[v] \in alive /\ wdev[v] \in Devs
        BY <1>1, <3>4 DEF ListOK, Unlisted, WrLocals
      <4>2. wdev[v] # d
        BY <2>7, <4>1 DEF Create
      <4>. QED
        BY <3>2, <3>4, <4>1, <4>2 DEF AddsInv
    <3>5. AddsInv'
      BY <2>1, <2>3, <3>1, <3>2, <3>4 DEF AddsInv, MayAdd
    <3>. QED
      BY <2>4, <3>1, <3>2, <3>3, <3>5 DEF ListedAdded, IsListed
  <2>8. CASE AddTail(w)
    <3>1. \A d \in Devs : IsListed(d)' <=> IsListed(d) \/ d = wdev[w]
      BY <1>1, <2>8, AddMembers
    <3>2. /\ wpc[w] = "addtail" /\ wpc'[w] = "addpack" /\ wdev[w] \in Devs
          /\ UNCHANGED <<dname, wop, wname, wdev, budget>>
      BY <1>1, <2>8 DEF AddTail, Goto, WrLocals, WrType
    <3>3. wop[w] = "add" /\ dname[wdev[w]] = wname[w] /\ MayAdd(w, wname[w])
      BY <3>2 DEF AddsInv, OpsOK
    <3>4. budget[w] <= Budget[w] - 1 /\ Budget[w] <= 1
      BY <3>2, <3>3, OneAdder DEF AddsInv
    <3>5. budget'[w] = 0
      BY <2>3, <3>2, <3>4
    <3>6. Added(dname[wdev[w]])'
      BY <3>2, <3>3, <3>5 DEF Added, MayAdd
    <3>7. AddsInv'
      BY <2>1, <2>3, <3>2 DEF AddsInv, MayAdd
    <3>. QED
      BY <2>4, <3>1, <3>2, <3>6, <3>7 DEF ListedAdded
  <2>. QED
    BY <1>3, <2>2, <2>5, <2>6, <2>7, <2>8 DEF WriterNext
<1>. QED
  BY <1>2, <1>3

(* Where devices are only added, each once, none is ever freed.            *)
LEMMA NothingFreed ==
    ASSUME AddsOnce
    PROVE  Spec => /\ [](IInv /\ AddsInv)
                   /\ [][\A w \in Writers : ~ Unregister(w) /\ ~ Join(w)]_vars
<1>. DEFINE Quiet == \A w \in Writers : ~ Unregister(w) /\ ~ Join(w)
<1>1. Init => AddsInv /\ ListedAdded
  <2>. SUFFICES ASSUME Init PROVE AddsInv /\ ListedAdded
    OBVIOUS
  <2>1. \A w \in Writers : wpc[w] = "idle" /\ budget[w] = Budget[w] /\ Budget[w] \in Nat
    BY DeviceAssumption DEF Init
  <2>. QED
    BY <2>1 DEF Init, AddsInv, ListedAdded, IsListed
<1>2. IInv /\ OpsOK /\ AddsInv /\ ListedAdded /\ [Next]_vars => AddsInv' /\ ListedAdded'
  BY AddsStep
<1>3. IInv /\ OpsOK /\ AddsInv /\ ListedAdded /\ [Next]_vars => [Quiet]_vars
  BY NoRemoval
<1>. QED
  BY <1>1, <1>2, <1>3, OpsInvariant, PTL DEF Spec

(* NoWorkLost: users who only bring devices up and read the file lose no   *)
(* work, however often the table runs dry and whatever the handlers and    *)
(* the threads do to each other.                                           *)
THEOREM AddingLosesNoWork ==
    ASSUME AddsOnce
    PROVE  Spec => []NoWorkLost
<1>1. (\A w \in Writers : ~ Unregister(w) /\ ~ Join(w)) => \A w \in Writers : ~ Join(w)
  OBVIOUS
<1>. QED
  BY <1>1, NothingFreed, WorksKept, PTL
=============================================================================
