----------------------------- MODULE SystemProofs -----------------------------
(***************************************************************************)
(* Theorems about the whole module: what Device and Forwarding keep on     *)
(* their own they keep where the threads of the one walk the filters of    *)
(* the other and rmmod takes everything down, a thread walks with its      *)
(* device alive, and the module implements Capture, for any number of      *)
(* processes, devices and frames and whatever is written.                  *)
(***************************************************************************)
EXTENDS System, DeviceFrameProofs

----------------------------------------------------------------------------
(* The devices *)

(* A step of the module is one of the devices, or ends a thread, or leaves *)
(* them alone.                                                             *)
LEMMA DeviceSteps ==
    ASSUME [SysNext]_sysVars
    PROVE  \/ [Next]_vars
           \/ \E d \in Devs : Filter(d) /\ kpc[d] = "work" /\ Die(d)
<1>1. CASE UNCHANGED devVars
  BY <1>1 DEF devVars
<1>2. CASE ExitPart
  <2>1. ASSUME NEW line \in Script[Rmmod], Start(Rmmod, line) PROVE Next
    BY <2>1, SystemAssumption DEF Next, WriterNext
  <2>. QED
    BY <1>1, <1>2, <2>1 DEF ExitPart
<1>3. ASSUME NEW i \in Irqs, IrqNext(i) PROVE Next
  BY <1>3 DEF Next
<1>4. ASSUME NEW w \in Writers, DeviceUser(w) PROVE Next
  BY <1>4 DEF DeviceUser, Next
<1>5. ASSUME NEW d \in Devs, Filter(d)
      PROVE  UNCHANGED devVars \/ (Filter(d) /\ kpc[d] = "work" /\ Die(d))
  BY <1>5 DEF Filter
<1>6. ASSUME NEW d \in Devs, WorkerNext(d) PROVE Next
  BY <1>6 DEF Next
<1>7. ASSUME NEW d \in Devs, Thread(d), ~ Filter(d) PROVE UNCHANGED devVars \/ WorkerNext(d)
  BY <1>7 DEF Thread, Offer, Forward, WorkerNext
<1>8. CASE CreateFile \/ Unload \/ RemoveFile
  BY <1>1, <1>8 DEF CreateFile, Unload, RemoveFile
<1>9. ASSUME NEW w \in Users, User(w) PROVE UNCHANGED devVars
  BY <1>9 DEF User
<1>10. CASE UNCHANGED sysVars
  BY <1>1, <1>10 DEF sysVars
<1>. QED
  BY <1>1, <1>2, <1>3, <1>4, <1>5, <1>6, <1>7, <1>8, <1>9, <1>10 DEF SysNext

(* A thread that dies in the filters leaves its work where it is, and gives*)
(* up the frame.                                                           *)
LEMMA DieKeepsIInv ==
    ASSUME IInv, NEW d \in Devs, kpc[d] = "work", Die(d)
    PROVE  IInv'
<1>1. /\ kpc' = [kpc EXCEPT ![d] = "dead"]
      /\ task' = [task EXCEPT ![d] = "exited"]
      /\ UNCHANGED <<freelist, freelist_index, tbllock, devlist, devlock, alive, ptypes,
                     dname, pkts, bytes, wrk_drop, queue, cur, sent, wrk, ipc, iname, idev,
                     iwrk, iskb, over, wpc, wop, wname, wdev, budget, gp, skblen>>
  BY DEF Die, tblVars, listVars, ctrVars, irqVars, wrVars
<1>2. \A e \in Devs :
          /\ e # d => kpc'[e] = kpc[e] /\ task'[e] = task[e]
          /\ e = d => kpc'[e] = "dead" /\ task'[e] = "exited"
  BY <1>1 DEF IInv, TypeOK, ThrType
<1>3. TypeOK'
  BY <1>1 DEF IInv, TypeOK, TblType, ListType, CtrType, ThrType, SentType, WrkType, IrqType,
     WrType, SkbType
<1>4. LocalsOK'
  BY <1>1, <1>2 DEF IInv, LocalsOK, IrqLocals, ThrLocals, WrLocals
<1>5. LockOK' /\ ListOK'
  BY <1>1 DEF IInv, LockOK, ListOK
<1>6. ThreadOK'
  BY <1>1, <1>2 DEF IInv, ThreadOK
<1>7. GraceOK' /\ FreelistOK' /\ QueueOK'
  BY <1>1 DEF IInv, GraceOK, RecvDeviceListed, FreelistOK, QueueOK
<1>8. OnePlace'
  <2>1. Pool' = Pool
    BY <1>1 DEF Pool
  <2>. QED
    BY <1>1, <2>1 DEF IInv, OnePlace, Custody!OnePlace
<1>9. CarriesOK'
  BY <1>1, <1>2 DEF IInv, CarriesOK
<1>. QED
  BY <1>3, <1>4, <1>5, <1>6, <1>7, <1>8, <1>9 DEF IInv

LEMMA DieKeepsNumbers ==
    ASSUME IInv, FrameInv, NumberInv, NEW d \in Devs, kpc[d] = "work", Die(d)
    PROVE  FrameInv' /\ NumberInv'
<1>1. /\ kpc' = [kpc EXCEPT ![d] = "dead"]
      /\ UNCHANGED <<alive, pkts, bytes, queue, cur, sent, wrk, iskb, skblen>>
  BY DEF Die, listVars, ctrVars, irqVars
<1>2. \A e \in Devs : IF e = d THEN kpc'[e] = "dead" ELSE kpc'[e] = kpc[e]
  BY <1>1 DEF IInv, TypeOK, ThrType
<1>3. \A k \in Kworks : InUse(k)' => InUse(k)
  BY <1>1, <1>2 DEF InUse
<1>4. FrameInv'
  BY <1>1, <1>3 DEF FrameInv, FrameOwned, HandlersOwn
<1>5. \A e \in Devs : kpc'[e] # "dead" => kpc[e] # "dead" /\ Pending(e)' = Pending(e)
  BY <1>1, <1>2 DEF Pending
<1>6. alive \subseteq Devs
  BY DEF IInv, TypeOK, ListType
<1>7. NumberInv'
  BY <1>1, <1>5, <1>6 DEF NumberInv, QueueNumbered, BytesNumbered
<1>. QED
  BY <1>4, <1>7

LEMMA SysDeviceInit == SysInit => IInv /\ FrameInv /\ NumberInv
<1>1. Init => FrameInv
  BY NullFacts DEF Init, FrameInv, FrameOwned, HandlersOwn, InUse, ToSet
<1>2. Init => NumberInv
  BY DEF Init, NumberInv, QueueNumbered, BytesNumbered
<1>. QED
  BY <1>1, <1>2, InitIInv DEF SysInit

LEMMA SysDeviceStep ==
    ASSUME IInv, FrameInv, NumberInv, [SysNext]_sysVars
    PROVE  IInv' /\ FrameInv' /\ NumberInv'
<1>1. CASE [Next]_vars
  <2>1. FrameInv'
    BY <1>1, FrameStep DEF IInv, TypeOK, WorkTypes
  <2>2. NumberInv'
    BY <1>1, NumberStep DEF IInv, TypeOK, WorkTypes
  <2>. QED
    BY <1>1, <2>1, <2>2, NextIInv
<1>2. ASSUME NEW d \in Devs, kpc[d] = "work", Die(d)
      PROVE  IInv' /\ FrameInv' /\ NumberInv'
  BY <1>2, DieKeepsIInv, DieKeepsNumbers
<1>. QED
  BY <1>1, <1>2, DeviceSteps

(* What the theorems of Device say of a device holds in the module: from   *)
(* insmod to rmmod, with its thread in the filters, which may end there.   *)
THEOREM DevicesInSystem ==
    SysSpec => [](/\ RecvDeviceListed /\ ThreadDeviceAlive /\ FreelistOK /\ OnePlace
                  /\ FrameOwned /\ QueueNumbered)
<1>. DEFINE Inv == IInv /\ FrameInv /\ NumberInv
            Good == /\ RecvDeviceListed /\ ThreadDeviceAlive /\ FreelistOK /\ OnePlace
                    /\ FrameOwned /\ QueueNumbered
<1>1. SysInit => Inv
  BY SysDeviceInit
<1>2. Inv /\ [SysNext]_sysVars => Inv'
  BY SysDeviceStep
<1>3. Inv => Good
  <2>. SUFFICES ASSUME Inv PROVE Good
    OBVIOUS
  <2>1. ThreadDeviceAlive
    <3>1. \A d \in Devs : kpc[d] \in {"take", "work", "lock", "free"} =>
              task[d] \in {"run", "stopping"} /\ d \in alive
      BY DEF IInv, ThreadOK
    <3>. QED
      BY <3>1 DEF IInv, ListOK, ThreadDeviceAlive
  <2>. QED
    BY <2>1 DEF IInv, GraceOK, FrameInv, NumberInv
<1>. QED
  BY <1>1, <1>2, <1>3, PTL DEF SysSpec

(* The headers of a device leave the module in the order of reception, one *)
(* after the other, as they leave the device on its own.                   *)
THEOREM HeadersInSystem == SysSpec => HeadersConsecutive
<1>. DEFINE Inv == IInv /\ FrameInv /\ NumberInv
            A == \A d \in Devs : sent'[d] # sent[d] /\ sent'[d] # NoHeader =>
                     /\ sent'[d].pktid = (sent[d].pktid + 1) % CTR_MOD
                     /\ sent'[d].bytecnt
                            = (sent[d].bytecnt + sent'[d].len - HDRLEN) % CTR_MOD
<1>1. SysInit => Inv
  BY SysDeviceInit
<1>2. Inv /\ [SysNext]_sysVars => Inv'
  BY SysDeviceStep
<1>3. Inv /\ [SysNext]_sysVars => [A]_vars
  <2>1. ASSUME NEW d \in Devs, Die(d) PROVE A
    BY <2>1 DEF Die
  <2>. QED
    BY <2>1, DeviceSteps, HeaderStep
<1>4. SysSpec => [][A]_vars
  BY <1>1, <1>2, <1>3, PTL DEF SysSpec
<1>. QED
  BY <1>4 DEF HeadersConsecutive

----------------------------------------------------------------------------
(* The threads in the filters *)

(* The thread of a device is in rtap_filter_recv only while it runs a work,*)
(* and it holds rtap_chains.lock only while it walks, or for good once it  *)
(* has faulted.                                                            *)
Filtering == {"lock", "visit", "invoke", "send", "done"}
Holding == {"visit", "invoke", "send", "oops"}

WalkInv ==
    /\ DOMAIN fpc = Devs
    /\ \A d \in Devs : fpc[d] \in Filtering => kpc[d] = "work"
    /\ \A d \in Devs : chainlock = d => fpc[d] \in Holding

(* No process takes a thread out of its work: a device is freed once its   *)
(* thread is gone.                                                         *)
LEMMA StaysAtWork ==
    ASSUME IInv, NEW w \in Writers, WriterNext(w), NEW d \in Devs, kpc[d] = "work"
    PROVE  kpc'[d] = "work"
<1>1. kpc \in [Devs -> {"idle", "take", "work", "lock", "free", "dead"}]
  BY DEF IInv, TypeOK, ThrType
<1>2. task[d] \in {"run", "stopping"} /\ d \in alive
  BY DEF IInv, ThreadOK
<1>3. CASE Join(w)
  <2>1. /\ wdev[w] \in Devs /\ task[wdev[w]] = "exited"
        /\ kpc' = [kpc EXCEPT ![wdev[w]] = "idle"]
    BY <1>3 DEF Join, FreeDev, Gone, IInv, LocalsOK, WrLocals
  <2>. QED
    BY <1>1, <1>2, <2>1
<1>4. ASSUME NEW e \in Devs, Create(w, e) PROVE kpc'[d] = "work"
  BY <1>1, <1>2, <1>4 DEF Create
<1>. QED
  BY <1>3, <1>4 DEF WriterNext, thrVars, Start, Lock, Show, Unregister, ScanEnd, Delete,
     AddFail, AddLock, AddTail, AddPack

(* What a step of a walk does to the lock.                                 *)
LEMMA WalkStep ==
    ASSUME NEW d \in Devs, DOMAIN fpc = Devs,
           F!Walk(d) \/ F!Visit(d) \/ F!Invoke(d) \/ F!Send(d)
    PROVE  /\ fpc[d] \in {"lock", "visit", "invoke", "send"}
           /\ DOMAIN fpc' = Devs
           /\ \A e \in Devs \ {d} : fpc'[e] = fpc[e]
           /\ fpc'[d] \in Holding \cup {"done"}
           /\ \/ chainlock' = NULL
              \/ fpc'[d] \in Holding /\ chainlock' \in {d, chainlock}
<1>. DEFINE Ok == /\ DOMAIN fpc' = Devs
                  /\ \A e \in Devs \ {d} : fpc'[e] = fpc[e]
                  /\ fpc'[d] \in Holding \cup {"done"}
                  /\ \/ chainlock' = NULL
                     \/ fpc'[d] \in Holding /\ chainlock' \in {d, chainlock}
<1>1. ASSUME NEW c, NEW n, F!Enter(d, c, n) PROVE Ok
  BY <1>1 DEF F!Enter, Holding
<1>2. ASSUME F!Leave(d) PROVE Ok
  BY <1>2 DEF F!Leave, F!ReleaseLock
<1>3. ASSUME NEW c, F!NextChain(d, c) PROVE Ok
  BY <1>1, <1>2, <1>3 DEF F!NextChain
<1>4. ASSUME F!Advance(d) PROVE Ok
  BY <1>1, <1>3, <1>4 DEF F!Advance
<1>5. ASSUME F!Fault(d) PROVE Ok
  BY <1>5 DEF F!Fault, Holding
<1>6. ASSUME NEW f, F!Judge(d, f) PROVE Ok
  BY <1>4, <1>5, <1>6 DEF F!Judge, Holding
<1>7. ASSUME F!Walk(d) PROVE Ok
  BY <1>3, <1>7 DEF F!Walk
<1>8. ASSUME F!Visit(d) PROVE Ok
  BY <1>5, <1>6, <1>8 DEF F!Visit
<1>9. ASSUME F!Invoke(d) PROVE Ok
  BY <1>4, <1>5, <1>9 DEF F!Invoke, Holding
<1>10. ASSUME F!Send(d) PROVE Ok
  BY <1>4, <1>5, <1>10 DEF F!Send
<1>. QED
  BY <1>7, <1>8, <1>9, <1>10 DEF F!Walk, F!Visit, F!Invoke, F!Send

(* A process does nothing to a walk; the lock is its own if it takes it.   *)
LEMMA UserStep ==
    ASSUME NEW w \in Users, F!Start(w) \/ F!WriterStep(w)
    PROVE  /\ UNCHANGED walkVars
           /\ chainlock' \in {w, chainlock}
<1>1. CASE F!FilterShow(w)
  BY <1>1 DEF F!FilterShow, F!thrVars, walkVars
<1>2. CASE ~ F!FilterShow(w)
  BY <1>2 DEF F!Start, F!WriterStep, F!ListenerCreate, F!ListenerSet, F!ListenerFind,
     F!ListenerRemove, F!ListenerAdd, F!ListenerClear, F!ListenerShow, F!RuleCreate,
     F!RuleTarget, F!RuleFind, F!RuleRemove, F!RuleAdd, F!RuleClear, F!RuleShow,
     F!NothingCreated, F!NoFilterCreated, F!NoChainCreated, F!FilterCreate, F!ChainFind,
     F!ChainAdd, F!FilterSet, F!FilterAdd, F!ChainRemove, F!ChainClear, F!thrVars, walkVars
<1>. QED
  BY <1>1, <1>2

LEMMA WalkInvStep ==
    ASSUME IInv, WalkInv, [SysNext]_sysVars
    PROVE  WalkInv'
<1>1. NULL \notin Devs /\ Users \cap Devs = {}
  BY Zenon, DeviceAssumption, SystemAssumption
<1>2. kpc \in [Devs -> {"idle", "take", "work", "lock", "free", "dead"}]
  BY DEF IInv, TypeOK, ThrType
<1>3. ASSUME UNCHANGED <<fpc, chainlock>>,
             \A d \in Devs : fpc[d] \in Filtering => kpc'[d] = "work"
      PROVE  WalkInv'
  BY <1>3 DEF WalkInv
<1>4. ASSUME UNCHANGED <<fpc, kpc>>, chainlock' = chainlock \/ chainlock' \notin Devs
      PROVE  WalkInv'
  BY <1>4 DEF WalkInv
<1>5. CASE UNCHANGED sysVars
  BY <1>4, <1>5 DEF sysVars, devVars, vars, thrVars, fwdVars, walkVars
<1>6. CASE CreateFile \/ Unload \/ RemoveFile
  BY <1>4, <1>6 DEF CreateFile, Unload, RemoveFile, devVars, vars, thrVars, fwdVars, walkVars
<1>7. CASE ExitPart
  <2>1. CASE UNCHANGED <<fpc, kpc, chainlock>>
    BY <1>4, <2>1
  <2>2. ASSUME NEW line \in Script[Rmmod], Start(Rmmod, line) PROVE UNCHANGED kpc
    BY <2>2 DEF Start, thrVars
  <2>3. ASSUME F!Start(Rmmod) PROVE UNCHANGED <<fpc, chainlock>>
    BY <2>3 DEF F!Start, F!thrVars
  <2>. QED
    BY <1>7, <2>1, <2>2, <2>3 DEF ExitPart, devVars, vars, thrVars, fwdVars, walkVars
<1>8. ASSUME NEW i \in Irqs, IrqNext(i), UNCHANGED fwdVars PROVE WalkInv'
  <2>1. UNCHANGED kpc
    BY <1>8 DEF IrqNext, thrVars, Deliver, RecvFind, RecvNoDevice, RecvAlloc, RecvQueue,
       RecvDrop
  <2>. QED
    BY <1>4, <1>8, <2>1 DEF fwdVars, walkVars
<1>9. ASSUME NEW w \in Writers, DeviceUser(w) PROVE WalkInv'
  BY <1>3, <1>9, StaysAtWork DEF DeviceUser, fwdVars, walkVars, WalkInv
<1>10. ASSUME NEW w \in Users, User(w) PROVE WalkInv'
  BY <1>1, <1>4, <1>10, UserStep DEF User, devVars, vars, thrVars, walkVars
<1>11. ASSUME NEW d \in Devs, Offer(d) PROVE WalkInv'
  BY <1>11 DEF Offer, F!Receive, WalkInv, Filtering, Holding, devVars, vars, thrVars
<1>12. ASSUME NEW d \in Devs, Filter(d) PROVE WalkInv'
  <2>1. /\ fpc[d] \in {"lock", "visit", "invoke", "send"}
        /\ DOMAIN fpc' = Devs
        /\ \A e \in Devs \ {d} : fpc'[e] = fpc[e]
        /\ fpc'[d] \in Holding \cup {"done"}
        /\ \/ chainlock' = NULL
           \/ fpc'[d] \in Holding /\ chainlock' \in {d, chainlock}
    BY <1>12, WalkStep DEF Filter, WalkInv
  <2>2. kpc[d] = "work"
    BY <1>12 DEF Filter
  <2>3. \A e \in Devs : kpc'[e] = kpc[e] \/ (e = d /\ fpc'[d] = "oops")
    BY <1>2, <1>12 DEF Filter, Die, devVars, vars, thrVars
  <2>4. \A e \in Devs : fpc'[e] \in Filtering => kpc'[e] = "work"
    BY <2>1, <2>2, <2>3 DEF WalkInv, Filtering
  <2>5. \A e \in Devs : chainlock' = e => fpc'[e] \in Holding
    BY <1>1, <2>1 DEF WalkInv
  <2>. QED
    BY <2>1, <2>4, <2>5 DEF WalkInv
<1>13. ASSUME NEW d \in Devs, Forward(d) PROVE WalkInv'
  <2>1. /\ fpc[d] = "done" /\ fpc' = [fpc EXCEPT ![d] = "idle"] /\ UNCHANGED chainlock
        /\ kpc' = [kpc EXCEPT ![d] = "lock"]
    BY <1>13 DEF Forward, WorkerForward
  <2>. QED
    BY <1>2, <2>1 DEF WalkInv, Filtering, Holding
<1>14. ASSUME NEW d \in Devs, UNCHANGED fwdVars,
              \/ WorkerCheck(d) \/ WorkerExit(d) \/ WorkerTake(d)
              \/ fpc[d] = "idle" /\ WorkerOops(d)
              \/ WorkerLock(d) \/ WorkerFree(d)
       PROVE  WalkInv'
  <2>1. \A e \in Devs : kpc[e] = "work" /\ fpc[e] # "idle" => kpc'[e] = "work"
    BY <1>2, <1>14 DEF WorkerCheck, WorkerExit, WorkerTake, WorkerOops, WorkerLock, WorkerFree
  <2>. QED
    BY <1>3, <1>14, <2>1 DEF fwdVars, walkVars, WalkInv, Filtering
<1>15. ASSUME NEW d \in Devs, Thread(d) PROVE WalkInv'
  BY <1>11, <1>12, <1>13, <1>14, <1>15 DEF Thread
<1>16. ASSUME SysNext PROVE WalkInv'
  BY <1>6, <1>7, <1>8, <1>9, <1>10, <1>15, <1>16 DEF SysNext
<1>. QED
  BY <1>5, <1>16

(* WalkerAlive: as long as no walk has met freed memory, the owner of      *)
(* rtap_chains.lock is a thread that runs, of a device that is allocated.  *)
(* kthread_stop waits for a walk to end, and the device outlives it.       *)
THEOREM WalkersAlive == SysSpec => [](WalksSafe => WalkerAlive)
<1>. DEFINE Inv == IInv /\ FrameInv /\ NumberInv
<1>1. SysInit => Inv
  BY SysDeviceInit
<1>2. Inv /\ [SysNext]_sysVars => Inv'
  BY SysDeviceStep
<1>3. SysInit => WalkInv
  <2>1. NULL \notin Devs
    BY Zenon, DeviceAssumption
  <2>. QED
    BY <2>1 DEF SysInit, F!Init, WalkInv, Filtering, Holding
<1>4. Inv /\ WalkInv /\ [SysNext]_sysVars => WalkInv'
  BY WalkInvStep
<1>5. Inv /\ WalkInv => (WalksSafe => WalkerAlive)
  BY DEF IInv, ThreadOK, WalkInv, WalksSafe, WalkerAlive, Filtering, Holding
<1>. QED
  BY <1>1, <1>2, <1>3, <1>4, <1>5, PTL DEF SysSpec

----------------------------------------------------------------------------
(* The files and the walks *)

(* The theorems of Forwarding, for the files and filters of the module.     *)
FP == INSTANCE ForwardingProofs WITH
    Names <- ChainNames, Writers <- Users, Script <- Lines, Threads <- Devs, Frames <- 1,
    Lens <- {n + HDRLEN : n \in Lens} \cup {NULL}, wpc <- vpc, wptr <- vptr

(* The constants of the module are as Forwarding assumes them.             *)
LEMMA SameAssumptions ==
    /\ FP!ForwardingAssumption /\ FP!ScriptAssumption /\ FP!ObjectAssumption
    /\ FP!InetAddrAssumption
<1>1. FP!ForwardingAssumption
  <2>1. {n + HDRLEN : n \in Lens} \cup {NULL} \subseteq Nat \cup {NULL}
    <3>1. \A n \in Lens : n \in Nat
      BY ZenonT(40), DeviceAssumption
    <3>2. \A n \in Lens : n + HDRLEN \in Nat
      BY SMTT(40), <3>1 DEF HDRLEN
    <3>. QED
      BY <3>2
  <2>2. NULL \notin Devs
    BY Zenon, DeviceAssumption
  <2>. QED
    BY <2>1, <2>2, SystemForwarding DEF FP!ForwardingAssumption
<1>2. FP!ScriptAssumption
  <2>1. F!Written = FP!Written
    BY DEF F!Written, FP!Written, F!ToSet, FP!ToSet
  <2>2. \A line : F!LineOK(line) = FP!LineOK(line)
    BY DEF
     F!ListenerLine, FP!ListenerLine, F!Actions, FP!Actions, F!RuleLine, FP!RuleLine,
     F!FilterLine, FP!FilterLine, F!Entry, FP!Entry, F!SubtypeNames, FP!SubtypeNames,
     F!LineOK, FP!LineOK
  <2>. QED
    BY <2>1, <2>2, SystemForwarding DEF FP!ScriptAssumption
<1>3. FP!ObjectAssumption
  BY SystemForwarding DEF FP!ObjectAssumption,
     F!WORD_BITS, FP!WORD_BITS, F!Pow2, FP!Pow2, F!WORD, FP!WORD, F!SubtypeNames,
     FP!SubtypeNames, F!Actions, FP!Actions, F!ListenerRecs, FP!ListenerRecs, F!RuleRecs, FP!RuleRecs,
     F!ChainRecs, FP!ChainRecs, F!FilterRecs, FP!FilterRecs
<1>4. FP!InetAddrAssumption
  BY SystemForwarding DEF FP!InetAddrAssumption
<1>. QED
  BY <1>1, <1>2, <1>3, <1>4

(* F and FP are one specification: a step of the one is a step of the other.*)
LEMMA SameInit ==
    ASSUME F!Init
    PROVE  FP!Init
BY SMTT(40) DEF
     F!Init, FP!Init

(* A line is read in both.                                                 *)
LEMMA SameStart ==
    ASSUME NEW w \in Users, F!Start(w)
    PROVE  FP!Start(w)
BY ZenonT(60) DEF
     F!objVars, FP!objVars, F!thrVars, FP!thrVars, F!ListenerLine, FP!ListenerLine,
     F!Actions, FP!Actions, F!RuleLine, FP!RuleLine, F!FilterLine, FP!FilterLine, F!Entry, FP!Entry, F!Goto,
     FP!Goto, F!Start, FP!Start

(* A step of a call is one in both.                                        *)
LEMMA SameWriterStep ==
    ASSUME NEW w \in Users, F!WriterStep(w)
    PROVE  FP!WriterStep(w)
BY ZenonT(90) DEF
     F!WORD_BITS, FP!WORD_BITS, F!Pow2, FP!Pow2, F!OCTET, FP!OCTET, F!WORD, FP!WORD,
     F!BitAt, FP!BitAt, F!OrBit, FP!OrBit, F!Ors, FP!Ors, F!BitOr, FP!BitOr, F!Assigned,
     FP!Assigned, F!ShiftOctet, FP!ShiftOctet, F!OrOctet, FP!OrOctet, F!inet_aton,
     FP!inet_aton, F!objVars, FP!objVars, F!thrVars, FP!thrVars, F!FirstOf, FP!FirstOf,
     F!ListenerWithId, FP!ListenerWithId, F!ListenerWithEndpoint, FP!ListenerWithEndpoint,
     F!RuleWithId, FP!RuleWithId, F!ChainsNamed, FP!ChainsNamed, F!ChainWithName,
     FP!ChainWithName, F!Without, FP!Without, F!FiltersOf, FP!FiltersOf, F!ListedIn,
     FP!ListedIn, F!Listed, FP!Listed, F!Clear, FP!Clear, F!Goto, FP!Goto, F!Finish,
     FP!Finish, F!Torn, FP!Torn, F!UsesListeners, FP!UsesListeners, F!UsesRules,
     FP!UsesRules, F!ListenerCreate, FP!ListenerCreate, F!DestroyListener,
     FP!DestroyListener, F!ListenerSet, FP!ListenerSet, F!ListenerFind, FP!ListenerFind,
     F!ListenerRemove, FP!ListenerRemove, F!ListenerAdd, FP!ListenerAdd, F!ListenerClear,
     FP!ListenerClear, F!ListenerShow, FP!ListenerShow, F!RulesUnlocked, FP!RulesUnlocked,
     F!RuleCreate, FP!RuleCreate, F!DestroyRefused, FP!DestroyRefused, F!ActionRefused,
     FP!ActionRefused, F!RuleTarget, FP!RuleTarget, F!RuleFind, FP!RuleFind, F!RuleRemove,
     FP!RuleRemove, F!RuleAdd, FP!RuleAdd, F!RuleClear, FP!RuleClear, F!ReadableRules,
     FP!ReadableRules, F!RuleShow, FP!RuleShow, F!NothingCreated, FP!NothingCreated,
     F!FilterCreate, FP!FilterCreate, F!NoFilterCreated, FP!NoFilterCreated, F!ChainFind,
     FP!ChainFind, F!NoChainCreated, FP!NoChainCreated, F!ChainAdd, FP!ChainAdd,
     F!FilterSet, FP!FilterSet, F!PutLast, FP!PutLast, F!FilterAdd, FP!FilterAdd,
     F!WalkOver, FP!WalkOver, F!ChainRemove, FP!ChainRemove, F!ChainClear, FP!ChainClear,
     F!FilterShow, FP!FilterShow, F!WriterStep, FP!WriterStep, F!ToSet, FP!ToSet,
     F!RemoveAt, FP!RemoveAt, F!Reverse, FP!Reverse

(* A thread enters the filters in both.                                    *)
LEMMA SameReceive ==
    ASSUME NEW d \in Devs, NEW n, F!Receive(d, n)
    PROVE  FP!Receive(d, n)
BY SMTT(60) DEF
     F!objVars, FP!objVars, F!wrVars, FP!wrVars, F!Receive, FP!Receive

(* A step of a walk is one in both.                                        *)
LEMMA SameWalk ==
    ASSUME NEW d \in Devs, F!Walk(d) \/ F!Visit(d) \/ F!Invoke(d) \/ F!Send(d)
    PROVE  FP!Walk(d) \/ FP!Visit(d) \/ FP!Invoke(d) \/ FP!Send(d)
BY ZenonT(40) DEF
     F!objVars, FP!objVars, F!wrVars, FP!wrVars, F!FiltersOf, FP!FiltersOf, F!ListedIn,
     FP!ListedIn, F!Listed, FP!Listed, F!Unsigned, FP!Unsigned, F!Matches, FP!Matches,
     F!Enter, FP!Enter, F!ReleaseLock, FP!ReleaseLock, F!Leave, FP!Leave, F!After,
     FP!After, F!NextChain, FP!NextChain, F!Advance, FP!Advance, F!Walk, FP!Walk,
     F!CountUp, FP!CountUp, F!Fault, FP!Fault, F!Judge, FP!Judge, F!Visit, FP!Visit,
     F!Invoke, FP!Invoke, F!Destination, FP!Destination, F!Send, FP!Send

(* The inductive invariant of the files and the walks.                     *)
FilesInv == FP!FwdInv /\ FP!WalksProgress /\ FP!AddressAsWritten

(* A step of Forwarding keeps it.                                          *)
LEMMA FilesStep ==
    ASSUME FilesInv, [FP!Next]_FP!vars
    PROVE  FilesInv'
<1>1. FP!FwdInv'
  BY SameAssumptions, FP!NextFwdInv DEF FilesInv
<1>2. FP!AddressAsWritten'
  BY SameAssumptions, FP!NextAddress DEF FilesInv
<1>3. FP!WalksProgress'
  BY <1>1, SameAssumptions, FP!NextProgress DEF FilesInv
<1>. QED
  BY <1>1, <1>2, <1>3 DEF FilesInv

(* insmod establishes it.                                                  *)
LEMMA FilesInit == SysInit => FilesInv
<1>1. FP!Init => FP!FwdInv
  BY SameAssumptions, FP!InitFwdInv
<1>2. FP!Init => FP!AddressAsWritten
  BY DEF FP!Init, FP!AddressAsWritten
<1>3. FP!Init => FP!WalksProgress
  BY DEF FP!Init, FP!WalksProgress, FP!Progress, FP!Walking
<1>. QED
  BY <1>1, <1>2, <1>3, SameInit DEF FilesInv, SysInit

(* When a thread has come back from the filters, its walk is forgotten.    *)
LEMMA ForwardFiles ==
    ASSUME FilesInv, NEW d \in Devs, Forward(d)
    PROVE  FilesInv'
<1>1. /\ fpc' = [fpc EXCEPT ![d] = "idle"]
      /\ frame' = [frame EXCEPT ![d] = NULL]
      /\ left' = [left EXCEPT ![d] = 1]
      /\ due' = [due EXCEPT ![d] = <<>>]
      /\ hits' = [hits EXCEPT ![d] = <<>>]
      /\ out' = [out EXCEPT ![d] = <<>>]
      /\ UNCHANGED <<listeners, rules, chains, ldata, rdata, cdata, fdata, chainlock,
                     vpc, wline, wobj, vptr, todo, fpos, ftmp, fptr>>
  BY DEF Forward, objVars, userVars
<1>2. FP!ObjectTypes' /\ FP!WriterTypes' /\ FP!AtWork' /\ FP!MadeKinds'
  BY <1>1 DEF FilesInv, FP!FwdInv, FP!TypeOK, FP!ObjectTypes, FP!WriterTypes, FP!AtWork,
     FP!MadeKinds, FP!WorkOf, FP!MadeOf
<1>3. FP!ThreadTypes'
  <2>. DEFINE Texts == Seq([addr : 0 .. FP!WORD - 1, port : Nat])
              Clones == {n + HDRLEN : n \in Lens} \cup {NULL} \cup {NULL}
  <2>1. /\ fpc \in [Devs -> {"idle", "lock", "visit", "invoke", "send", "done", "oops"}]
        /\ frame \in [Devs -> Clones]
        /\ fpos \in [Devs -> (Chains \cup {NULL}) \X Nat]
        /\ ftmp \in [Devs -> BOOLEAN]
        /\ fptr \in [Devs -> Rules \cup Listeners \cup {NULL}]
        /\ left \in [Devs -> 0 .. 1]
        /\ due \in [Devs -> Seq(Filters)]
        /\ hits \in [Devs -> Seq(Filters)]
        /\ out \in [Devs -> Texts]
    BY DEF FilesInv, FP!FwdInv, FP!TypeOK, FP!ThreadTypes
  <2>2. <<>> \in Seq(Filters) /\ <<>> \in Texts /\ NULL \in Clones /\ 1 \in 0 .. 1
    OBVIOUS
  <2>. HIDE DEF Texts, Clones
  <2>3. /\ frame' \in [Devs -> Clones]
        /\ left' \in [Devs -> 0 .. 1]
        /\ due' \in [Devs -> Seq(Filters)]
        /\ hits' \in [Devs -> Seq(Filters)]
        /\ out' \in [Devs -> Texts]
    BY <1>1, <2>1, <2>2
  <2>4. /\ fpc' \in [Devs -> {"idle", "lock", "visit", "invoke", "send", "done", "oops"}]
        /\ UNCHANGED <<fpos, ftmp, fptr>>
    BY <1>1, <2>1
  <2>. QED
    BY <2>1, <2>3, <2>4 DEF FP!ThreadTypes, Texts, Clones
<1>4. FP!TypeOK'
  BY SMTT(40), <1>1, <1>2, <1>3 DEF FilesInv, FP!FwdInv, FP!TypeOK
<1>5. FP!ListsSound'
  BY SMTT(40), <1>1 DEF FilesInv, FP!FwdInv, FP!ListsSound, FP!FiltersListedOnce, FP!FiltersOf,
     FP!ListenerMade, FP!RuleMade, FP!ChainMade, FP!FilterMade, FP!MadeOnce, FP!ListedOnce
<1>6. \A e \in Devs : fpc'[e] \in {"visit", "invoke", "send", "oops"} => fpc'[e] = fpc[e]
  BY <1>1 DEF FilesInv, FP!FwdInv, FP!TypeOK, FP!ThreadTypes
<1>7. FP!WalkHoldsLock' /\ FP!WalkOnList' /\ FP!WalkPointers'
  BY <1>1, <1>6 DEF FilesInv, FP!FwdInv, FP!WalkHoldsLock, FP!WalkOnList, FP!WalkPointers,
     FP!FiltersOf
<1>8. FP!AddressAsWritten'
  BY <1>1 DEF FilesInv, FP!AddressAsWritten
<1>9. FP!WalksProgress'
  <2>. SUFFICES ASSUME NEW e \in Devs PROVE FP!Progress(e)'
    BY DEF FP!WalksProgress
  <2>1. d \in DOMAIN fpc /\ d \in DOMAIN hits /\ d \in DOMAIN due
    BY DEF FilesInv, FP!FwdInv, FP!TypeOK, FP!ThreadTypes
  <2>2. CASE e = d
    BY <1>1, <2>1, <2>2 DEF FP!Progress, FP!Walking
  <2>3. CASE e # d
    <3>1. /\ fpc'[e] = fpc[e] /\ hits'[e] = hits[e] /\ due'[e] = due[e]
          /\ UNCHANGED <<fpos, ftmp, chains, cdata>>
      BY <1>1, <2>3
    <3>2. FP!Lists' = FP!Lists
      BY <3>1 DEF FP!Lists, FP!FiltersOf
    <3>3. FP!Progress(e)
      BY DEF FilesInv, FP!WalksProgress
    <3>. QED
      BY <3>1, <3>2, <3>3 DEF FP!Progress
  <2>. QED
    BY <2>2, <2>3
<1>. QED
  BY <1>2, <1>4, <1>5, <1>7, <1>8, <1>9 DEF FilesInv, FP!FwdInv

(* What a step of the module is to the files and the walks.                *)
LEMMA FilesSteps ==
    ASSUME IInv, FrameInv, [SysNext]_sysVars
    PROVE  \/ UNCHANGED fwdVars
           \/ ExitPart /\ step # 0 /\ step # 4 /\ F!Start(Rmmod)
           \/ \E w \in Users : (w # Rmmod /\ F!Start(w)) \/ F!WriterStep(w)
           \/ \E d \in Devs : kpc[d] = "work" /\ FP!ThreadNext(d)
           \/ \E d \in Devs : Forward(d)
<1>1. ASSUME NEW d \in Devs, Offer(d) PROVE kpc[d] = "work" /\ FP!ThreadNext(d)
  <2>1. PICK n \in {Header(cur[d]).len, NULL} : F!Receive(d, n)
    BY <1>1 DEF Offer
  <2>2. n \in {m + HDRLEN : m \in Lens} \cup {NULL}
    <3>1. /\ kpc[d] = "work" /\ cur[d] \in Kworks
          /\ wrk[cur[d]].skb \in Frames
      BY <1>1 DEF Offer, IInv, CarriesOK, TypeOK, ThrType, LocalsOK, ThrLocals
    <3>2. skblen[wrk[cur[d]].skb] # 0
      BY <3>1 DEF FrameInv, FrameOwned, InUse
    <3>3. skblen[wrk[cur[d]].skb] \in Lens
      BY <3>1, <3>2 DEF IInv, TypeOK, SkbType
    <3>4. Header(cur[d]).len = skblen[wrk[cur[d]].skb] + HDRLEN
      BY DEF Header
    <3>. QED
      BY <3>3, <3>4
  <2>. QED
    BY <1>1, <2>1, <2>2, SameReceive DEF Offer, FP!ThreadNext
<1>2. ASSUME NEW d \in Devs, Filter(d) PROVE kpc[d] = "work" /\ FP!ThreadNext(d)
  BY <1>2, SameWalk DEF Filter, FP!ThreadNext
<1>3. ASSUME ExitPart, ~ UNCHANGED fwdVars PROVE step # 0 /\ step # 4 /\ F!Start(Rmmod)
  <2>1. Len(ExitOrder) = 4 /\ ExitOrder[1] = "devices"
    BY DEF ExitOrder, Teardown
  <2>. QED
    BY <1>3, <2>1 DEF ExitPart
<1>4. ASSUME NEW d \in Devs, Thread(d)
      PROVE  \/ UNCHANGED fwdVars
             \/ kpc[d] = "work" /\ FP!ThreadNext(d)
             \/ Forward(d)
  BY <1>1, <1>2, <1>4 DEF Thread
<1>5. CASE CreateFile \/ Unload \/ RemoveFile
  BY <1>5 DEF CreateFile, Unload, RemoveFile
<1>6. ASSUME NEW w \in Writers, DeviceUser(w) PROVE UNCHANGED fwdVars
  BY <1>6 DEF DeviceUser
<1>7. ASSUME NEW w \in Users, User(w) PROVE (w # Rmmod /\ F!Start(w)) \/ F!WriterStep(w)
  BY <1>7 DEF User
<1>8. CASE UNCHANGED sysVars
  BY <1>8 DEF sysVars
<1>. QED
  BY <1>3, <1>4, <1>5, <1>6, <1>7, <1>8 DEF SysNext

(* So every step of the module keeps it.                                   *)
LEMMA SysFilesStep ==
    ASSUME IInv, FrameInv, FilesInv, [SysNext]_sysVars
    PROVE  FilesInv'
<1>1. CASE UNCHANGED fwdVars
  <2>1. UNCHANGED FP!vars
    BY <1>1 DEF FP!vars, FP!objVars, FP!wrVars, FP!thrVars, fwdVars, objVars, userVars,
       walkVars
  <2>. QED
    BY <2>1, FilesStep
<1>2. ASSUME NEW w \in Users, F!Start(w) \/ F!WriterStep(w) PROVE FilesInv'
  <2>1. FP!Next
    BY <1>2, SameStart, SameWriterStep DEF FP!Next
  <2>. QED
    BY <2>1, FilesStep
<1>3. ASSUME NEW d \in Devs, FP!ThreadNext(d) PROVE FilesInv'
  <2>1. FP!Next
    BY <1>3 DEF FP!Next
  <2>. QED
    BY <2>1, FilesStep
<1>. QED
  BY <1>1, <1>2, <1>3, ForwardFiles, FilesSteps, SystemAssumption

(* The lists are whole in the module as in Forwarding.                     *)
LEMMA SysWholeStep ==
    ASSUME IInv, FrameInv, FilesInv, FilesInv', FP!WholeInv, [SysNext]_sysVars
    PROVE  FP!WholeInv'
<1>1. FP!FwdInv /\ FP!FwdInv'
  BY DEF FilesInv
<1>2. ASSUME \/ UNCHANGED <<listeners, rules, ldata, rdata, FP!wrVars>>
             \/ \E w \in Users : FP!Start(w) \/ FP!WriterStep(w)
             \/ \E d \in Devs : FP!ThreadNext(d)
      PROVE  FP!WholeInv'
  BY <1>1, <1>2, SameAssumptions, FP!WholeNext
<1>3. CASE UNCHANGED fwdVars
  BY <1>2, <1>3 DEF fwdVars, objVars, userVars, FP!wrVars
<1>4. ASSUME NEW w \in Users, F!Start(w) \/ F!WriterStep(w) PROVE FP!WholeInv'
  BY <1>2, <1>4, SameStart, SameWriterStep
<1>5. ASSUME NEW d \in Devs, Forward(d) PROVE FP!WholeInv'
  BY <1>2, <1>5 DEF Forward, objVars, userVars, FP!wrVars
<1>. QED
  BY <1>2, <1>3, <1>4, <1>5, FilesSteps, SystemAssumption

(* What the theorems of Forwarding say of the files and the walks holds in *)
(* the module, where a walk is a work of a thread that may be told to stop *)
(* and rmmod clears the lists: every walk stands on a filter that is listed*)
(* and misses none of them, an address is what a user wrote and, where no  *)
(* two users share a list of listeners or rules that is removed from, the  *)
(* lists are whole.                                                        *)
THEOREM FilesInSystem ==
    ASSUME FP!ListsAlone(Lines)
    PROVE  SysSpec => [](F!ListsWhole /\ F!WalkOnList /\ F!WalkComplete /\ F!AddressAsWritten)
<1>. DEFINE Inv == IInv /\ FrameInv /\ NumberInv
            Files == FilesInv /\ FP!WholeInv
            Good == F!ListsWhole /\ F!WalkOnList /\ F!WalkComplete /\ F!AddressAsWritten
<1>1. SysInit => Inv /\ Files
  <2>1. FP!Init => FP!WholeInv
    BY SameAssumptions, FP!WholeInit
  <2>. QED
    BY <2>1, SysDeviceInit, FilesInit, SameInit DEF SysInit
<1>2. Inv /\ Files /\ [SysNext]_sysVars => Inv' /\ Files'
  <2>1. Inv /\ Files /\ [SysNext]_sysVars => Inv' /\ FilesInv'
    BY SysDeviceStep, SysFilesStep
  <2>. QED
    BY <2>1, SysWholeStep
<1>3. Files => Good
  <2>. SUFFICES ASSUME Files PROVE Good
    OBVIOUS
  <2>5. ~ F!Torn("listeners") /\ ~ F!Torn("rules")
    BY DEF FP!WholeInv, FP!NotTorn, FP!Torn, F!Torn
  <2>1. F!ListsSound
    BY DEF FilesInv, FP!FwdInv,
       F!FiltersOf, FP!FiltersOf, F!ListenerMade, FP!ListenerMade, F!RuleMade, FP!RuleMade,
       F!ChainMade, FP!ChainMade, F!FilterMade, FP!FilterMade, F!MadeOnce, FP!MadeOnce,
       F!ListedOnce, FP!ListedOnce, F!FiltersListedOnce, FP!FiltersListedOnce, F!ListsSound,
       FP!ListsSound
  <2>2. F!WalkOnList
    BY DEF FilesInv, FP!FwdInv,
       F!FiltersOf, FP!FiltersOf, F!WalkOnList, FP!WalkOnList, F!ToSet, FP!ToSet
  <2>3. F!WalkComplete
    BY DEF FilesInv, FP!WalksProgress, FP!Progress,
       F!Complete, FP!Complete, F!WalkComplete, FP!WalkComplete, F!ToSet, FP!ToSet
  <2>4. F!AddressAsWritten
    BY DEF FilesInv,
       F!WORD_BITS, FP!WORD_BITS, F!Pow2, FP!Pow2, F!OCTET, FP!OCTET, F!inet_ntoa,
       FP!inet_ntoa, F!DottedQuad, FP!DottedQuad, F!AddressAsWritten, FP!AddressAsWritten,
       F!ToSet, FP!ToSet
  <2>. QED
    BY <2>1, <2>2, <2>3, <2>4, <2>5 DEF F!ListsWhole
<1>. QED
  BY <1>1, <1>2, <1>3, PTL DEF SysSpec

----------------------------------------------------------------------------
(* What endpoints get *)

(* The numbers of the works p, in w.                                       *)
NumbersOf(p, w) == [n \in DOMAIN p |-> w[p[n]].pkts]

(* It is the variable waiting of Capture.                                  *)
Waiting == [d \in Devs |-> NumbersOf(Pending(d), wrk)]

(* The steps of Capture, with that.                                        *)
LEMMA PromiseSteps ==
    /\ \A d \in Devs :
           /\ /\ pkts' = [pkts EXCEPT ![d] = (@ + 1) % CTR_MOD]
              /\ Waiting' = [Waiting EXCEPT ![d] = Append(@, pkts'[d])]
              /\ UNCHANGED wire
              => Promise!Next
           /\ \A to \in Endpoints :
                  /\ Waiting[d] # <<>>
                  /\ wire' = [dev |-> d, pktid |-> Head(Waiting[d]), to |-> to]
                  /\ UNCHANGED <<pkts, Waiting>>
                  => Promise!Next
           /\ /\ Waiting[d] # <<>>
              /\ Waiting' = [Waiting EXCEPT ![d] = Tail(@)]
              /\ UNCHANGED <<pkts, wire>>
              => Promise!Next
           /\ /\ pkts' = [pkts EXCEPT ![d] = 0]
              /\ Waiting' = [Waiting EXCEPT ![d] = <<>>]
              /\ UNCHANGED wire
              => Promise!Next
    /\ UNCHANGED <<pkts, Waiting, wire>> => UNCHANGED Promise!vars
BY DEF Promise!Next, Promise!Arrive, Promise!Emit, Promise!Done, Promise!Down, Promise!vars,
   Waiting, NumbersOf

(* Works that keep their numbers.                                          *)
LEMMA NumbersSame ==
    ASSUME NEW p \in Seq(Kworks), NEW w, NEW w2,
           \A n \in 1 .. Len(p) : w2[p[n]].pkts = w[p[n]].pkts
    PROVE  NumbersOf(p, w2) = NumbersOf(p, w)
<1>1. DOMAIN p = 1 .. Len(p)
  OBVIOUS
<1>. QED
  BY <1>1 DEF NumbersOf

(* A work is added behind them.                                            *)
LEMMA NumbersAppend ==
    ASSUME NEW p \in Seq(Kworks), NEW k \in Kworks, NEW w, NEW w2,
           \A n \in 1 .. Len(p) : w2[p[n]].pkts = w[p[n]].pkts
    PROVE  NumbersOf(Append(p, k), w2) = Append(NumbersOf(p, w), w2[k].pkts)
<1>. DEFINE N == {w[l].pkts : l \in Kworks} \cup {w2[l].pkts : l \in Kworks}
            s == NumbersOf(p, w)
            a == Append(p, k)
<1>1. /\ Len(p) \in Nat /\ DOMAIN p = 1 .. Len(p)
      /\ \A n \in 1 .. Len(p) : p[n] \in Kworks
  OBVIOUS
<1>2. s \in Seq(N) /\ Len(s) = Len(p) /\ \A n \in 1 .. Len(p) : s[n] = w[p[n]].pkts
  BY <1>1 DEF NumbersOf
<1>3. /\ a \in Seq(Kworks) /\ Len(a) = Len(p) + 1
      /\ \A n \in 1 .. Len(p) + 1 : a[n] = IF n = Len(p) + 1 THEN k ELSE p[n]
  BY AppendMembers
<1>. HIDE DEF s, a
<1>4. /\ Append(s, w2[k].pkts) \in Seq(N) /\ Len(Append(s, w2[k].pkts)) = Len(p) + 1
      /\ \A n \in 1 .. Len(p) + 1 :
             Append(s, w2[k].pkts)[n] = IF n = Len(p) + 1 THEN w2[k].pkts ELSE s[n]
  BY <1>2, AppendMembers
<1>5. /\ NumbersOf(a, w2) \in Seq(N) /\ Len(NumbersOf(a, w2)) = Len(p) + 1
      /\ \A n \in 1 .. Len(p) + 1 : NumbersOf(a, w2)[n] = w2[a[n]].pkts
  <2>1. DOMAIN a = 1 .. Len(p) + 1 /\ \A n \in 1 .. Len(p) + 1 : a[n] \in Kworks
    BY <1>3
  <2>. QED
    BY <1>1, <2>1 DEF NumbersOf
<1>6. \A n \in 1 .. Len(p) + 1 : NumbersOf(a, w2)[n] = Append(s, w2[k].pkts)[n]
  BY <1>1, <1>2, <1>3, <1>4, <1>5
<1>. HIDE DEF N
<1>. QED
  BY <1>1, <1>4, <1>5, <1>6, SeqEqual DEF s, a

(* The first of them leaves.                                               *)
LEMMA NumbersTail ==
    ASSUME NEW p \in Seq(Kworks), p # <<>>, NEW w
    PROVE  /\ NumbersOf(p, w) # <<>>
           /\ Head(NumbersOf(p, w)) = w[p[1]].pkts
           /\ NumbersOf(Tail(p), w) = Tail(NumbersOf(p, w))
<1>. DEFINE N == {w[l].pkts : l \in Kworks}
            s == NumbersOf(p, w)
            t == Tail(p)
<1>1. /\ Len(p) \in Nat \ {0} /\ t \in Seq(Kworks) /\ Len(t) = Len(p) - 1
      /\ \A n \in 1 .. Len(p) - 1 : t[n] = p[n + 1]
  BY TailMembers
<1>2. DOMAIN p = 1 .. Len(p) /\ \A n \in 1 .. Len(p) : p[n] \in Kworks
  OBVIOUS
<1>3. s \in Seq(N) /\ Len(s) = Len(p) /\ \A n \in 1 .. Len(p) : s[n] = w[p[n]].pkts
  BY <1>2 DEF NumbersOf
<1>4. s # <<>>
  BY <1>1, <1>3
<1>. HIDE DEF s, t
<1>5. /\ Head(s) = s[1] /\ Tail(s) \in Seq(N) /\ Len(Tail(s)) = Len(p) - 1
      /\ \A n \in 1 .. Len(p) - 1 : Tail(s)[n] = s[n + 1]
  BY <1>3, <1>4, TailMembers
<1>6. /\ NumbersOf(t, w) \in Seq(N) /\ Len(NumbersOf(t, w)) = Len(p) - 1
      /\ \A n \in 1 .. Len(p) - 1 : NumbersOf(t, w)[n] = w[t[n]].pkts
  <2>1. DOMAIN t = 1 .. Len(p) - 1 /\ \A n \in 1 .. Len(p) - 1 : t[n] \in Kworks
    BY <1>1
  <2>. QED
    BY <1>1, <2>1 DEF NumbersOf
<1>7. \A n \in 1 .. Len(p) - 1 : NumbersOf(t, w)[n] = Tail(s)[n]
  BY <1>1, <1>3, <1>5, <1>6
<1>. HIDE DEF N
<1>8. NumbersOf(t, w) = Tail(s)
  BY <1>1, <1>5, <1>6, <1>7, SeqEqual
<1>. QED
  BY <1>1, <1>3, <1>4, <1>5, <1>8 DEF s, t

(* A thread leaves its work: the oldest number does not wait any more.     *)
LEMMA WorkLeaves ==
    ASSUME IInv, NEW d \in Devs, kpc[d] = "work",
           NEW pc \in {"lock", "dead"}, kpc' = [kpc EXCEPT ![d] = pc],
           UNCHANGED <<queue, cur, wrk, pkts, wire>>
    PROVE  Promise!Next
<1>. DEFINE p == Pending(d)
<1>1. kpc \in [Devs -> {"idle", "take", "work", "lock", "free", "dead"}] /\ ThrType /\ ThrLocals
  BY DEF IInv, TypeOK, ThrType, LocalsOK
<1>2. \A e \in Devs : e # d => Pending(e)' = Pending(e)
  BY <1>1 DEF Pending
<1>3. Pending(d)' = queue[d]
  <2>1. kpc'[d] # "work"
    BY <1>1
  <2>2. Pending(d)' = <<>> \o queue[d] /\ queue[d] \in Seq(Kworks)
    BY <1>1, <2>1 DEF Pending, ThrType
  <2>. QED
    BY <2>2, ConcatEmptySeq
<1>4. p \in Seq(Kworks) /\ p # <<>> /\ Tail(p) = queue[d]
  <2>1. p = <<cur[d]>> \o queue[d] /\ cur[d] \in Kworks /\ queue[d] \in Seq(Kworks)
    BY <1>1, PendingMembers DEF ThrType
  <2>. QED
    BY <2>1, ConsTail
<1>. HIDE DEF p
<1>5. /\ NumbersOf(p, wrk) # <<>>
      /\ NumbersOf(queue[d], wrk) = Tail(NumbersOf(p, wrk))
  BY <1>4, NumbersTail
<1>6. Waiting[d] # <<>> /\ Waiting'[d] = Tail(Waiting[d])
  BY <1>3, <1>5 DEF Waiting, p
<1>7. Waiting' = [Waiting EXCEPT ![d] = Tail(@)]
  BY <1>2, <1>6 DEF Waiting
<1>. QED
  BY <1>6, <1>7, PromiseSteps

(* A device is made or freed: nothing waits.                               *)
LEMMA NothingWaits ==
    ASSUME IInv, NEW d \in Devs, queue'[d] = <<>>, kpc'[d] # "work",
           \A e \in Devs : e # d =>
               queue'[e] = queue[e] /\ kpc'[e] = kpc[e] /\ cur'[e] = cur[e],
           pkts' = [pkts EXCEPT ![d] = 0],
           UNCHANGED <<wrk, wire>>
    PROVE  Promise!Next
<1>1. \A e \in Devs : e # d => Pending(e)' = Pending(e)
  BY DEF Pending
<1>2. Pending(d)' = <<>>
  BY DEF Pending
<1>3. NumbersOf(<<>>, wrk) = <<>>
  BY DEF NumbersOf
<1>4. Waiting' = [Waiting EXCEPT ![d] = <<>>]
  BY <1>1, <1>2, <1>3 DEF Waiting
<1>. QED
  BY <1>4, PromiseSteps

(* A handler queues a frame: its number waits behind the others.           *)
LEMMA WorkArrives ==
    ASSUME IInv, NEW i \in Irqs, RecvQueue(i), UNCHANGED wire
    PROVE  Promise!Next
<1>1. ThrType /\ ThrLocals /\ WorkTypes /\ IrqLocals /\ OnePlace
  BY DEF IInv, TypeOK, LocalsOK, WorkTypes
<1>. PICK d : d = idev[i]
  OBVIOUS
<1>. PICK k : k = iwrk[i]
  OBVIOUS
<1>2. /\ k \in Kworks /\ d \in Devs /\ iskb[i] \in Frames
      /\ queue' = [queue EXCEPT ![d] = Append(queue[d], k)]
      /\ UNCHANGED <<cur, kpc>>
      /\ \A l \in Kworks : l # k => wrk'[l] = wrk[l]
  BY <1>1, QueueMoves
<1>. DEFINE p == Pending(d)
<1>3. /\ pkts' = [pkts EXCEPT ![d] = (@ + 1) % CTR_MOD]
      /\ wrk'[k].pkts = pkts'[d]
  <2>1. /\ pkts' = [pkts EXCEPT ![d] = (@ + 1) % CTR_MOD]
        /\ wrk' = [wrk EXCEPT ![k] = Stamp(d, iskb[i])]
    BY DEF RecvQueue, Enqueue, AddCtr
  <2>2. pkts \in [Devs -> Counter] /\ wrk \in [Kworks -> [skb : Frames \cup {NULL},
                                                       pkts : Counter, bytes : Counter]]
    BY DEF IInv, TypeOK, CtrType, WrkType
  <2>. QED
    BY <1>2, <2>1, <2>2 DEF Stamp, AddCtr
<1>4. \A e \in Devs : \A n \in 1 .. Len(Pending(e)) :
          Pending(e)[n] \in Kworks /\ Pending(e)[n] # k
  <2>1. ~ InUse(k)
    BY <1>1, <1>2, NotInUse, NullFacts
  <2>. QED
    BY <1>1, <2>1, PendingInUse
<1>5. \A e \in Devs : Pending(e) \in Seq(Kworks)
  BY <1>1, PendingMembers
<1>6. ASSUME NEW e \in Devs, e # d PROVE Waiting'[e] = Waiting[e]
  <2>1. queue'[e] = queue[e]
    BY <1>1, <1>2, <1>6 DEF ThrType
  <2>2. Pending(e)' = Pending(e)
    BY <1>2, <2>1 DEF Pending
  <2>3. \A n \in 1 .. Len(Pending(e)) : wrk'[Pending(e)[n]].pkts = wrk[Pending(e)[n]].pkts
    BY <1>2, <1>4
  <2>4. NumbersOf(Pending(e), wrk') = NumbersOf(Pending(e), wrk)
    BY <1>5, <2>3, NumbersSame
  <2>. QED
    BY <2>2, <2>4 DEF Waiting
<1>7. Pending(d)' = Append(p, k)
  <2>. DEFINE c == IF kpc[d] = "work" THEN <<cur[d]>> ELSE <<>>
  <2>1. c \in Seq(Kworks) /\ queue[d] \in Seq(Kworks)
    <3>1. queue[d] \in Seq(Kworks) /\ d \in DOMAIN queue
      BY <1>1, <1>2 DEF ThrType
    <3>2. kpc[d] = "work" => cur[d] \in Kworks
      BY <1>1, <1>2 DEF ThrType, ThrLocals
    <3>. QED
      BY <3>1, <3>2
  <2>2. p = c \o queue[d]
    BY DEF Pending
  <2>3. Pending(d)' = c \o queue'[d] /\ queue'[d] = Append(queue[d], k)
    <3>1. d \in DOMAIN queue
      BY <1>1, <1>2 DEF ThrType
    <3>2. queue'[d] = Append(queue[d], k)
      BY <1>2, <3>1
    <3>3. Pending(d)' = c \o queue'[d]
      BY <1>2 DEF Pending
    <3>. QED
      BY <3>2, <3>3
  <2>. HIDE DEF c, p
  <2>4. c \o Append(queue[d], k) = Append(c \o queue[d], k)
    BY SMTT(40), <1>2, <2>1, ConcatAppend
  <2>. QED
    BY <2>2, <2>3, <2>4
<1>8. Waiting'[d] = Append(Waiting[d], pkts'[d])
  <2>1. \A n \in 1 .. Len(p) : wrk'[p[n]].pkts = wrk[p[n]].pkts
    BY <1>2, <1>4
  <2>2. p \in Seq(Kworks)
    BY <1>2, <1>5
  <2>. HIDE DEF p
  <2>3. NumbersOf(Append(p, k), wrk') = Append(NumbersOf(p, wrk), wrk'[k].pkts)
    BY <1>2, <2>1, <2>2, NumbersAppend
  <2>4. Waiting[d] = NumbersOf(p, wrk)
    BY <1>2 DEF Waiting, p
  <2>5. Waiting'[d] = NumbersOf(Append(p, k), wrk')
    BY <1>2, <1>7 DEF Waiting
  <2>. QED
    BY <1>3, <2>3, <2>4, <2>5
<1>9. Waiting' = [Waiting EXCEPT ![d] = Append(@, pkts'[d])]
  BY <1>2, <1>6, <1>8 DEF Waiting
<1>. QED
  BY <1>2, <1>3, <1>9, PromiseSteps

(* Any other step leaves what waits alone.                                 *)
LEMMA NumbersStand ==
    ASSUME IInv, IInv', FrameInv, [Next]_vars, UNCHANGED wire,
           \A i \in Irqs : ~ RecvQueue(i),
           \A d \in Devs : ~ WorkerForward(d) /\ ~ WorkerOops(d),
           \A w \in Writers : ~ Join(w) /\ \A d \in Devs : ~ Create(w, d)
    PROVE  UNCHANGED Promise!vars
<1>1. /\ ThrType /\ ThrLocals /\ WorkTypes /\ LocalsOK /\ OnePlace /\ CarriesOK
      /\ SkbType /\ CtrType /\ CtrType' /\ SentType
  BY DEF IInv, TypeOK, LocalsOK, WorkTypes
<1>2. \A d \in Devs : Pending(d)' = Pending(d) /\ pkts'[d] = pkts[d]
  BY <1>1, PendingStep
<1>3. \A d \in Devs : \A n \in 1 .. Len(Pending(d)) :
          wrk'[Pending(d)[n]] = wrk[Pending(d)[n]]
  BY <1>1, PendingInUse, KeptInUse
<1>4. ASSUME NEW d \in Devs
      PROVE  NumbersOf(Pending(d), wrk') = NumbersOf(Pending(d), wrk)
  <2>1. Pending(d) \in Seq(Kworks)
    BY <1>1, PendingMembers
  <2>2. \A n \in 1 .. Len(Pending(d)) : wrk'[Pending(d)[n]].pkts = wrk[Pending(d)[n]].pkts
    BY <1>3
  <2>. QED
    BY <2>1, <2>2, NumbersSame
<1>5. Waiting' = Waiting
  BY <1>2, <1>4 DEF Waiting
<1>6. pkts' = pkts
  BY <1>1, <1>2 DEF CtrType
<1>. QED
  BY <1>5, <1>6, PromiseSteps

(* A step of the devices is one of Capture.                                *)
LEMMA DevicesPromise ==
    ASSUME IInv, IInv', FrameInv, [Next]_vars, UNCHANGED wire
    PROVE  [Promise!Next]_Promise!vars
<1>1. ASSUME NEW d \in Devs, WorkerForward(d) \/ WorkerOops(d) PROVE Promise!Next
  BY <1>1, WorkLeaves DEF WorkerForward, WorkerOops, ctrVars
<1>2. ASSUME NEW w \in Writers, Join(w) PROVE Promise!Next
  <2>1. /\ wdev[w] \in Devs
        /\ queue' = [queue EXCEPT ![wdev[w]] = <<>>]
        /\ cur' = [cur EXCEPT ![wdev[w]] = NULL]
        /\ kpc' = [kpc EXCEPT ![wdev[w]] = "idle"]
        /\ pkts' = [pkts EXCEPT ![wdev[w]] = 0]
        /\ UNCHANGED wrk
    BY <1>2, JoinMoves DEF IInv, TypeOK, LocalsOK, Join, FreeDev, ClearDev
  <2>2. ThrType
    BY DEF IInv, TypeOK
  <2>. QED
    BY <2>1, <2>2, NothingWaits DEF ThrType
<1>3. ASSUME NEW w \in Writers, NEW d \in Devs, Create(w, d) PROVE Promise!Next
  <2>1. /\ d \notin alive
        /\ UNCHANGED <<queue, cur, wrk>>
        /\ kpc' = [kpc EXCEPT ![d] = "idle"]
        /\ pkts' = [pkts EXCEPT ![d] = 0]
    BY <1>3 DEF Create, ClearDev
  <2>2. ThrType /\ queue[d] = <<>>
    BY <2>1 DEF IInv, TypeOK, ThreadOK
  <2>. QED
    BY <2>1, <2>2, NothingWaits DEF ThrType
<1>. QED
  BY <1>1, <1>2, <1>3, WorkArrives, NumbersStand

(* What a step of a walk sends goes to the endpoint of a listener.         *)
LEMMA WalkSends ==
    ASSUME DottedQuads, FilesInv, NEW d \in Devs,
           F!Walk(d) \/ F!Visit(d) \/ F!Invoke(d) \/ F!Send(d), out'[d] # out[d]
    PROVE  fpc'[d] # "oops" /\ F!Reached(Last(out'[d])) \in Endpoints
<1>1. F!Send(d) /\ ldata[fptr[d]] # NULL
  BY DEF F!Walk, F!Visit, F!Invoke, F!Send
<1>. DEFINE l == fptr[d]
            to == [addr |-> ldata[l].addr, port |-> ldata[l].ep.port]
<1>2. /\ fpc[d] = "send"
      /\ out' = [out EXCEPT ![d] = Append(@, to)]
      /\ F!Advance(d)
  BY <1>1 DEF F!Send, F!Destination
<1>3. l \in Listeners
  BY <1>2 DEF FilesInv, FP!FwdInv, FP!WalkPointers
<1>4. ldata[l].ep \in Endpoints /\ ldata[l].addr \in 0 .. FP!WORD - 1
  BY <1>1, <1>3 DEF FilesInv, FP!FwdInv, FP!TypeOK, FP!ObjectTypes, FP!ListenerRecs
<1>5. Last(out'[d]) = to
  <2>. DEFINE S == [addr : 0 .. FP!WORD - 1, port : Nat]
  <2>1. out \in [Devs -> Seq(S)]
    BY DEF FilesInv, FP!FwdInv, FP!TypeOK, FP!ThreadTypes
  <2>2. to \in S
    BY <1>4, SystemForwarding
  <2>. HIDE DEF S, to
  <2>3. out'[d] = Append(out[d], to) /\ out[d] \in Seq(S)
    BY <1>2, <2>1 DEF to
  <2>4. Len(out[d]) \in Nat
    BY <2>3
  <2>. QED
    BY <2>2, <2>3, <2>4, AppendMembers DEF Last
<1>6. F!inet_ntoa(ldata[l].addr) = ldata[l].ep.ip
  <2>1. FP!DottedQuad(ldata[l].ep.ip)
    BY <1>4 DEF DottedQuads,
     F!WORD_BITS, FP!WORD_BITS, F!Pow2, FP!Pow2, F!OCTET, FP!OCTET, F!DottedQuad,
     FP!DottedQuad, F!ToSet, FP!ToSet
  <2>2. FP!inet_ntoa(ldata[l].addr) = ldata[l].ep.ip
    BY <1>1, <1>3, <2>1 DEF FilesInv, FP!AddressAsWritten
  <2>3. F!inet_ntoa(ldata[l].addr) = FP!inet_ntoa(ldata[l].addr)
    BY DEF
     F!WORD_BITS, FP!WORD_BITS, F!Pow2, FP!Pow2, F!OCTET, FP!OCTET, F!inet_ntoa,
     FP!inet_ntoa
  <2>. QED
    BY <2>2, <2>3
<1>7. F!Reached(to) = [ip |-> ldata[l].ep.ip, port |-> ldata[l].ep.port]
  BY <1>6 DEF F!Reached
<1>8. F!Reached(to) \in Endpoints
  BY <1>4, <1>7 DEF DottedQuads
<1>9. fpc'[d] # "oops"
  <2>1. d \in DOMAIN fpc
    BY DEF FilesInv, FP!FwdInv, FP!TypeOK, FP!ThreadTypes
  <2>. QED
    BY <1>2, <2>1 DEF F!Advance, F!NextChain, F!Enter, F!Leave
<1>. QED
  BY <1>5, <1>8, <1>9

(* A step of a walk is one of Capture: what it sends bears the oldest      *)
(* number that waits, and a thread that faults gives its frame up.         *)
LEMMA FilterPromise ==
    ASSUME DottedQuads, IInv, FilesInv, NEW d \in Devs, Filter(d)
    PROVE  [Promise!Next]_Promise!vars
<1>1. kpc[d] = "work" /\ (F!Walk(d) \/ F!Visit(d) \/ F!Invoke(d) \/ F!Send(d))
  BY DEF Filter
<1>2. CASE out'[d] # out[d]
  <2>. DEFINE to == F!Reached(Last(out'[d]))
  <2>1. to \in Endpoints /\ UNCHANGED devVars
        /\ wire' = [dev |-> d, pktid |-> Header(cur[d]).pktid, to |-> to]
    BY <1>1, <1>2, WalkSends DEF Filter
  <2>2. UNCHANGED <<pkts, Waiting>>
    BY <2>1 DEF devVars, vars, ctrVars, thrVars, Waiting, NumbersOf, Pending
  <2>3. Waiting[d] # <<>> /\ Head(Waiting[d]) = Header(cur[d]).pktid
    <3>. DEFINE p == Pending(d)
    <3>1. ThrType /\ ThrLocals
      BY DEF IInv, TypeOK, LocalsOK
    <3>2. p = <<cur[d]>> \o queue[d] /\ cur[d] \in Kworks /\ queue[d] \in Seq(Kworks)
      BY <1>1, <3>1, PendingMembers DEF ThrType
    <3>. HIDE DEF p
    <3>3. p \in Seq(Kworks) /\ p # <<>> /\ p[1] = cur[d]
      BY <3>2, ConsTail
    <3>4. NumbersOf(p, wrk) # <<>> /\ Head(NumbersOf(p, wrk)) = wrk[cur[d]].pkts
      BY <3>3, NumbersTail
    <3>. QED
      BY <3>4 DEF Waiting, Header, p
  <2>. HIDE DEF to
  <2>. QED
    BY <2>1, <2>2, <2>3, PromiseSteps
<1>3. CASE out'[d] = out[d]
  <2>1. wire' = wire /\ (Die(d) \/ UNCHANGED devVars)
    BY <1>3 DEF Filter
  <2>2. CASE Die(d)
    BY <1>1, <2>1, <2>2, WorkLeaves DEF Die, ctrVars
  <2>3. CASE UNCHANGED devVars
    <3>1. UNCHANGED <<pkts, Waiting, wire>>
      BY <2>1, <2>3 DEF devVars, vars, ctrVars, thrVars, Waiting, NumbersOf, Pending
    <3>. QED
      BY <3>1, PromiseSteps
  <2>. QED
    BY <2>1, <2>2, <2>3
<1>. QED
  BY <1>2, <1>3

(* Every step of the module is a step of Capture.                          *)
LEMMA SysPromise ==
    ASSUME DottedQuads, IInv, IInv', FrameInv, FilesInv, [SysNext]_sysVars
    PROVE  [Promise!Next]_Promise!vars
<1>1. CASE \E d \in Devs : Filter(d)
  BY <1>1, FilterPromise
<1>2. CASE \A d \in Devs : ~ Filter(d)
  <2>1. wire' = wire
    BY <1>2 DEF SysNext, sysVars, CreateFile, Unload, ExitPart, RemoveFile, Thread, Offer,
       Forward, DeviceUser, User
  <2>2. [Next]_vars
    BY <1>2, DeviceSteps
  <2>. QED
    BY <2>1, <2>2, DevicesPromise
<1>. QED
  BY <1>1, <1>2

(* The module implements Capture for every value of the constants: each    *)
(* datagram bears the number of the oldest frame that waits at its device  *)
(* and goes to an endpoint that a user wrote, if all that users write are  *)
(* dotted quads (inet_aton.c takes other texts and turns them into some    *)
(* address, which AddressAsWritten leaves out).                            *)
THEOREM SystemCaptures ==
    ASSUME DottedQuads
    PROVE  SysSpec => Captures
<1>. DEFINE Inv == IInv /\ FrameInv /\ NumberInv
<1>1. SysInit => Inv /\ FilesInv
  BY SysDeviceInit, FilesInit
<1>2. Inv /\ FilesInv /\ [SysNext]_sysVars => Inv' /\ FilesInv'
  BY SysDeviceStep, SysFilesStep
<1>3. SysInit => Promise!Init
  BY DEF SysInit, Init, Promise!Init, Pending
<1>4. Inv /\ Inv' /\ FilesInv /\ [SysNext]_sysVars => [Promise!Next]_Promise!vars
  BY SysPromise
<1>. QED
  BY <1>1, <1>2, <1>3, <1>4, PTL DEF SysSpec, Captures, Promise!Spec

----------------------------------------------------------------------------
(* insmod and rmmod *)

(* Which processes are at work in which phase: rmmod only while it         *)
(* unloads, and the others leave the devices alone from then on.           *)
LifePhases ==
    /\ phase \in {"loading", "up", "unloading", "removing", "gone"}
    /\ step \in 0 .. 5 /\ (phase = "unloading" => step < 5)
    /\ phase # "unloading" => wpc[Rmmod] = "idle" /\ vpc[Rmmod] = "idle"
    /\ phase \notin {"loading", "up"} => \A w \in Writers \ {Rmmod} : wpc[w] = "idle"

(* rtap_device_exit has returned.                                          *)
Cleared ==
    \/ phase = "unloading" /\ step > 0 /\ wpc[Rmmod] = "idle"
    \/ phase \in {"removing", "gone"}

(* What it leaves.                                                         *)
NoDeviceLeft == Cleared => devlist = <<>>

(* File n of ProcFiles has not been removed.                               *)
StillThere(n) == n \in DOMAIN ProcFiles /\ (phase = "removing" => n > step) /\ phase # "gone"

(* remove_proc_entry has waited for the calls in flight.                   *)
CallsHaveFiles ==
    \A w \in Users \ {Rmmod} : vpc[w] # "idle" =>
        \E n \in 1 .. 5 : StillThere(n) /\ ProcFiles[n] = wline[w].file

(* The inductive invariant of insmod and rmmod.                            *)
LifeInv == LifePhases /\ NoDeviceLeft /\ CallsHaveFiles

(* What a step of a process does to its call, and to no other.             *)
LEMMA UserMoves ==
    ASSUME FilesInv, NEW w \in Users, F!Start(w) \/ F!WriterStep(w)
    PROVE  /\ \A v \in Users : v # w => vpc'[v] = vpc[v] /\ wline'[v] = wline[v]
           /\ F!Start(w) => vpc[w] = "idle" /\ (vpc'[w] = "idle" \/ wline'[w] = Head(todo[w]))
           /\ F!WriterStep(w) => vpc[w] # "idle" /\ (vpc'[w] = "idle" \/ wline'[w] = wline[w])
<1>1. FP!WriterTypes
  BY DEF FilesInv, FP!FwdInv, FP!TypeOK
<1>2. /\ vpc' = [vpc EXCEPT ![w] = vpc'[w]]
      /\ wline' = [wline EXCEPT ![w] = wline'[w]]
  BY <1>1, SameAssumptions, SameStart, SameWriterStep, FP!WriterFrame
<1>3. DOMAIN vpc = Users /\ DOMAIN wline = Users
  BY <1>1 DEF FP!WriterTypes
<1>4. \A v \in Users : v # w => vpc'[v] = vpc[v] /\ wline'[v] = wline[v]
  BY SMTT(20), <1>2, <1>3
<1>5. F!Start(w) => vpc[w] = "idle" /\ (vpc'[w] = "idle" \/ wline'[w] = Head(todo[w]))
  BY SMTT(30), <1>3 DEF F!Start, F!Goto
<1>6. F!WriterStep(w) => vpc[w] # "idle" /\ (vpc'[w] = "idle" \/ wline'[w] = wline[w])
  BY ZenonT(40), <1>3 DEF F!WriterStep, F!ListenerCreate, F!ListenerSet, F!ListenerFind,
     F!ListenerRemove, F!ListenerAdd, F!ListenerClear, F!ListenerShow, F!RuleCreate,
     F!RuleTarget, F!RuleFind, F!RuleRemove, F!RuleAdd, F!RuleClear, F!RuleShow,
     F!NothingCreated, F!NoFilterCreated, F!NoChainCreated, F!FilterCreate, F!ChainFind,
     F!ChainAdd, F!FilterSet, F!FilterAdd, F!ChainRemove, F!ChainClear, F!FilterShow,
         F!thrVars, F!Goto, F!Finish
<1>. QED
  BY <1>4, <1>5, <1>6

(* How a step of the module is one of the processes, of rmmod, or of none. *)
LEMMA LifeSteps ==
    ASSUME [SysNext]_sysVars
    PROVE  \/ CreateFile \/ Unload \/ ExitPart \/ RemoveFile
           \/ \E w \in Writers : DeviceUser(w)
           \/ \E w \in Users : User(w)
           \/ UNCHANGED <<lifeVars, userVars, wrVars, devlist>>
<1>1. ASSUME NEW i \in Irqs, IrqNext(i) PROVE UNCHANGED <<wrVars, devlist>>
  BY <1>1 DEF IrqNext, Deliver, RecvFind, RecvNoDevice, RecvAlloc, RecvQueue, RecvDrop, listVars
<1>2. ASSUME NEW d \in Devs, Thread(d) PROVE UNCHANGED <<lifeVars, userVars, wrVars, devlist>>
  <2>1. CASE Offer(d)
    BY <2>1 DEF Offer, F!Receive, F!wrVars, userVars, devVars, vars, listVars
  <2>2. CASE Filter(d)
    <3>1. UNCHANGED <<lifeVars, wrVars, devlist>>
      BY <2>2 DEF Filter, Die, devVars, vars, listVars
    <3>2. UNCHANGED userVars
      BY <2>2 DEF Filter, F!Walk, F!Visit, F!Invoke, F!Send, F!wrVars, userVars
    <3>. QED
      BY <3>1, <3>2
  <2>3. CASE ~ Offer(d) /\ ~ Filter(d)
    BY <1>2, <2>3 DEF Thread, Forward, WorkerCheck, WorkerExit, WorkerTake, WorkerForward,
       WorkerOops, WorkerLock, WorkerFree, listVars, fwdVars
  <2>. QED
    BY <2>1, <2>2, <2>3
<1>. QED
  BY <1>1, <1>2 DEF SysNext, sysVars, fwdVars, devVars, vars, listVars

(* A clear that ends leaves no device, and only an add adds one.           *)
LEMMA ClearMoves ==
    ASSUME IInv, OpsOK, NEW w \in Writers, WriterNext(w)
    PROVE  /\ wpc[w] # "idle" /\ wop[w] = "clear" /\ wpc'[w] = "idle" => devlist' = <<>>
           /\ wpc[w] = "idle" => devlist' = devlist
<1>1. w \in DOMAIN wpc
  BY DEF IInv, TypeOK, WrType
<1>2. wpc[w] = "idle" => devlist' = devlist
  BY DEF WriterNext, Start, Lock, Show, Unregister, ScanEnd, Delete, Join, AddFail, Create,
     AddLock, AddTail, AddPack, listVars
<1>3. ASSUME wpc[w] # "idle", wop[w] = "clear", wpc'[w] = "idle" PROVE devlist' = <<>>
  <2>1. wpc[w] \notin {"show", "create", "addlock", "addtail", "addpack"}
    BY <1>3 DEF OpsOK
  <2>2. ScanEnd(w)
    BY <1>1, <1>3, <2>1 DEF WriterNext, Start, Lock, Show, Unregister, Delete, Join, AddFail,
       Create, AddLock, AddTail, AddPack, Goto
  <2>3. Len(devlist) \in Nat /\ devlist \in Seq(Devs)
    BY DEF IInv, TypeOK, ListType
  <2>4. 1 \notin 1 .. Len(devlist)
    BY <1>3, <2>2 DEF ScanEnd, Victim
  <2>5. devlist = <<>>
    BY <2>3, <2>4
  <2>. QED
    BY <2>2, <2>5 DEF ScanEnd
<1>. QED
  BY <1>2, <1>3

(* Every step of the module keeps it.                                      *)
LEMMA LifeStep ==
    ASSUME OrderlyRemoval, IInv, OpsOK, FilesInv, LifeInv, [SysNext]_sysVars
    PROVE  LifeInv'
<1>1. /\ DOMAIN wpc = Writers /\ DOMAIN vpc = Users
      /\ Rmmod \in Writers /\ Rmmod \in Users
  BY SystemAssumption DEF IInv, TypeOK, WrType, FilesInv, FP!FwdInv, FP!TypeOK, FP!WriterTypes
<1>2. /\ DOMAIN ProcFiles = 1 .. 5 /\ Len(ProcFiles) = 5 /\ Len(ExitOrder) = 4
      /\ step \in 0 .. 3 => (ExitOrder[step + 1] = "devices" <=> step = 0)
  BY DEF ProcFiles, ExitOrder, Teardown
<1>3. CASE UNCHANGED <<lifeVars, userVars, wrVars, devlist>>
  BY <1>3 DEF LifeInv, LifePhases, NoDeviceLeft, Cleared, CallsHaveFiles, StillThere, lifeVars,
     userVars, wrVars
<1>4. CASE CreateFile
  <2>1. /\ phase = "loading" /\ phase' \in {"loading", "up"} /\ step' \in 0 .. 5
        /\ UNCHANGED <<wpc, vpc, wline>>
    BY <1>2, <1>4 DEF CreateFile, StepOf, LifeInv, LifePhases, devVars, vars, wrVars,
       fwdVars, userVars
  <2>. QED
    BY <2>1 DEF LifeInv, LifePhases, NoDeviceLeft, Cleared, CallsHaveFiles, StillThere
<1>5. CASE Unload
  <2>1. /\ phase = "up" /\ phase' = "unloading" /\ step' = 0
        /\ \A w \in Writers : wpc[w] = "idle"
        /\ UNCHANGED <<wpc, vpc, wline>>
    BY <1>5 DEF Unload, OrderlyRemoval, DevicesQuiet, devVars, vars, wrVars, fwdVars, userVars
  <2>. QED
    BY <2>1 DEF LifeInv, LifePhases, NoDeviceLeft, Cleared, CallsHaveFiles, StillThere
<1>6. CASE ExitPart
  <2>1. /\ phase = "unloading" /\ wpc[Rmmod] = "idle" /\ vpc[Rmmod] = "idle"
        /\ StepOf(ExitOrder, "removing") /\ step \in 0 .. 4
    BY <1>6 DEF ExitPart, LifeInv, LifePhases
  <2>2. \A w \in Writers \ {Rmmod} : wpc[w] = "idle"
    BY <2>1 DEF LifeInv, LifePhases
  <2>3. CASE step = 4
    <3>1. phase' = "removing" /\ step' = 0 /\ UNCHANGED <<wpc, vpc, wline, devlist>>
      BY <1>2, <1>6, <2>1, <2>3 DEF ExitPart, StepOf, devVars, vars, wrVars, listVars, fwdVars,
         userVars
    <3>2. devlist = <<>>
      BY <2>1, <2>3 DEF LifeInv, NoDeviceLeft, Cleared
    <3>. QED
      BY <2>1, <2>2, <3>1, <3>2 DEF LifeInv, LifePhases, NoDeviceLeft, Cleared, CallsHaveFiles,
         StillThere
  <2>4. CASE step = 0
    <3>1. PICK line \in Script[Rmmod] : Start(Rmmod, line) /\ UNCHANGED fwdVars
      BY <1>2, <1>6, <2>1, <2>4 DEF ExitPart
    <3>2. /\ phase' = "unloading" /\ step' = 1 /\ UNCHANGED <<vpc, wline>>
      BY <1>2, <2>1, <2>4, <3>1 DEF StepOf, fwdVars, userVars
    <3>3. Parse(line) = "clear"
      BY DEF OrderlyRemoval
    <3>4. /\ wpc'[Rmmod] = "lock" /\ \A v \in Writers : v # Rmmod => wpc'[v] = wpc[v]
      BY <1>1, <3>1, <3>3 DEF Start, Goto
    <3>. QED
      BY <2>1, <2>2, <3>2, <3>4 DEF LifeInv, LifePhases, NoDeviceLeft, Cleared, CallsHaveFiles,
         StillThere
  <2>5. CASE step \in 1 .. 3
    <3>1. F!Start(Rmmod) /\ UNCHANGED devVars
      BY <1>2, <1>6, <2>1, <2>5 DEF ExitPart
    <3>2. phase' = "unloading" /\ step' = step + 1
      BY <1>2, <2>1, <2>5 DEF StepOf
    <3>3. \A v \in Users : v # Rmmod => vpc'[v] = vpc[v] /\ wline'[v] = wline[v]
      BY <1>1, <3>1, UserMoves
    <3>4. UNCHANGED <<wpc, devlist>>
      BY <3>1 DEF devVars, vars, wrVars, listVars
    <3>5. devlist = <<>>
      BY <2>1, <2>5 DEF LifeInv, NoDeviceLeft, Cleared
    <3>6. LifePhases' /\ NoDeviceLeft'
      BY <2>1, <2>2, <2>5, <3>2, <3>4, <3>5 DEF LifePhases, NoDeviceLeft
    <3>7. \A n : StillThere(n)' <=> StillThere(n)
      BY <2>1, <3>2 DEF StillThere
    <3>. QED
      BY <3>3, <3>6, <3>7 DEF LifeInv, CallsHaveFiles
  <2>. QED
    BY <2>1, <2>3, <2>4, <2>5
<1>7. CASE RemoveFile
  <2>1. /\ phase = "removing" /\ step \in 0 .. 5
        /\ UNCHANGED <<wpc, vpc, wline, devlist>>
    BY <1>7 DEF RemoveFile, LifeInv, LifePhases, devVars, vars, wrVars, listVars,
       fwdVars, userVars
  <2>2. \/ step < 5 /\ phase' = "removing" /\ step' = step + 1 /\ ~ InFlight(ProcFiles[step + 1])
        \/ step >= 5 /\ phase' = "gone" /\ step' = 0
    BY <1>2, <1>7, <2>1 DEF RemoveFile, StepOf
  <2>3. LifePhases' /\ NoDeviceLeft'
    BY <2>1, <2>2 DEF LifeInv, LifePhases, NoDeviceLeft, Cleared
  <2>4. ASSUME NEW w \in Users \ {Rmmod}, vpc'[w] # "idle"
        PROVE  \E n \in 1 .. 5 : StillThere(n)' /\ ProcFiles[n] = wline'[w].file
    <3>1. PICK n \in 1 .. 5 : StillThere(n) /\ ProcFiles[n] = wline[w].file
      BY <2>1, <2>4 DEF LifeInv, CallsHaveFiles
    <3>2. n > step
      BY <2>1, <3>1 DEF StillThere
    <3>3. step < 5 /\ step' = step + 1 /\ phase' = "removing" /\ ~ InFlight(ProcFiles[step + 1])
      BY <2>1, <2>2, <3>2
    <3>4. n # step + 1
      BY <2>1, <2>4, <3>1, <3>3 DEF InFlight
    <3>5. StillThere(n)'
      BY <1>2, <2>1, <3>2, <3>3, <3>4 DEF StillThere
    <3>. QED
      BY <2>1, <3>1, <3>5
  <2>. QED
    BY <2>3, <2>4 DEF LifeInv, CallsHaveFiles
<1>8. ASSUME NEW w \in Writers, DeviceUser(w) PROVE LifeInv'
  <2>1. /\ WriterNext(w) /\ UNCHANGED <<phase, step, vpc, wline>>
        /\ wpc[w] = "idle" => w # Rmmod /\ phase \in {"loading", "up"}
    BY <1>8 DEF DeviceUser, OrderlyRemoval, fwdVars, userVars, lifeVars
  <2>2. \A v \in Writers : v # w => wpc'[v] = wpc[v]
    BY <2>1, WriterMoves DEF IInv, TypeOK
  <2>3. w = Rmmod => phase = "unloading"
    BY <2>1 DEF LifeInv, LifePhases
  <2>4. w # Rmmod => phase \in {"loading", "up"}
    BY <2>1 DEF LifeInv, LifePhases
  <2>5. LifePhases'
    BY <1>1, <2>1, <2>2, <2>3, <2>4 DEF LifeInv, LifePhases
  <2>6. NoDeviceLeft'
    <3>. SUFFICES ASSUME Cleared' PROVE devlist' = <<>>
      BY DEF NoDeviceLeft
    <3>1. w = Rmmod /\ wpc'[w] = "idle" /\ wpc[w] # "idle"
      BY <2>1, <2>3, <2>4 DEF Cleared
    <3>2. wop[w] = "clear"
      BY <3>1 DEF OpsOK, MayDo, OrderlyRemoval
    <3>. QED
      BY <2>1, <3>1, <3>2, ClearMoves
  <2>7. CallsHaveFiles'
    BY <2>1 DEF LifeInv, CallsHaveFiles, StillThere
  <2>. QED
    BY <2>5, <2>6, <2>7 DEF LifeInv
<1>9. ASSUME NEW w \in Users, User(w) PROVE LifeInv'
  <2>1. UNCHANGED <<phase, step, wpc, devlist>>
    BY <1>9 DEF User, devVars, vars, wrVars, listVars, lifeVars
  <2>2. /\ F!Start(w) \/ F!WriterStep(w)
        /\ F!Start(w) => w # Rmmod /\ Exists(Head(todo[w]).file)
    BY <1>9, UserMoves DEF User
  <2>3. /\ \A v \in Users : v # w => vpc'[v] = vpc[v] /\ wline'[v] = wline[v]
        /\ F!Start(w) => vpc[w] = "idle" /\ (vpc'[w] = "idle" \/ wline'[w] = Head(todo[w]))
        /\ F!WriterStep(w) => vpc[w] # "idle" /\ (vpc'[w] = "idle" \/ wline'[w] = wline[w])
    BY <2>2, UserMoves
  <2>4. w = Rmmod => phase = "unloading"
    BY <2>2, <2>3 DEF LifeInv, LifePhases
  <2>5. LifePhases' /\ NoDeviceLeft'
    BY <1>1, <2>1, <2>3, <2>4 DEF LifeInv, LifePhases, NoDeviceLeft, Cleared
  <2>6. \A n : StillThere(n)' <=> StillThere(n)
    BY <2>1 DEF StillThere
  <2>7. ASSUME NEW v \in Users \ {Rmmod}, vpc'[v] # "idle"
        PROVE  \E n \in 1 .. 5 : StillThere(n) /\ ProcFiles[n] = wline'[v].file
    <3>1. CASE v # w \/ F!WriterStep(w)
      BY <2>3, <2>7, <3>1 DEF LifeInv, CallsHaveFiles
    <3>2. CASE v = w /\ F!Start(w)
      <4>1. wline'[v] = Head(todo[w]) /\ Exists(Head(todo[w]).file)
        BY <2>2, <2>3, <2>7, <3>2
      <4>2. PICK n \in DOMAIN ProcFiles : ProcFiles[n] = Head(todo[w]).file /\ StillThere(n)
        BY <4>1 DEF Exists, StillThere
      <4>. QED
        BY <1>2, <4>1, <4>2
    <3>. QED
      BY <2>2, <3>1, <3>2
  <2>. QED
    BY <2>5, <2>6, <2>7 DEF LifeInv, CallsHaveFiles
<1>. QED
  BY <1>3, <1>4, <1>5, <1>6, <1>7, <1>8, <1>9, LifeSteps

(* So one process at a time executes a command, rmmod or the other.        *)
LEMMA OneAtATime ==
    ASSUME OrderlyRemoval, OpsOK, LifeInv
    PROVE  OneCommands
<1>. SUFFICES ASSUME NEW v \in Writers, NEW w \in Writers,
                     wpc[v] \in Commanding, wpc[w] \in Commanding
              PROVE  v = w
  BY DEF OneCommands
<1>1. wpc[v] # "idle" /\ wpc[w] # "idle"
  BY DEF Commanding
<1>2. MayDo(v, Commands) /\ MayDo(w, Commands)
  BY <1>1 DEF OpsOK, MayDo, Commands
<1>3. v # Rmmod /\ w # Rmmod => v = w
  BY <1>2 DEF OrderlyRemoval, OneMayDo
<1>4. v = Rmmod \/ w = Rmmod => v = w
  BY <1>1 DEF LifeInv, LifePhases
<1>. QED
  BY <1>3, <1>4

(* Where devices are left alone from the removal on, all of these hold.    *)
LEMMA RemovalInvariant ==
    ASSUME OrderlyRemoval
    PROVE  SysSpec => [](IInv /\ FrameInv /\ CommandInv /\ FilesInv /\ LifeInv)
<1>. DEFINE Inv == IInv /\ FrameInv /\ NumberInv
            Cmd == OpsOK /\ CommandInv /\ LifeInv
            All == IInv /\ FrameInv /\ CommandInv /\ FilesInv /\ LifeInv
<1>1. SysInit => Inv /\ FilesInv
  BY SysDeviceInit, FilesInit
<1>2. SysInit => Cmd
  <2>. SUFFICES ASSUME SysInit PROVE Cmd
    OBVIOUS
  <2>1. OpsOK /\ CommandInv
    BY DEF SysInit, Init, OpsOK, Commanding, CommandInv
  <2>2. LifeInv
    BY SystemAssumption DEF SysInit, Init, F!Init, LifeInv, LifePhases, NoDeviceLeft, Cleared,
       CallsHaveFiles
  <2>. QED
    BY <2>1, <2>2
<1>3. Inv /\ FilesInv /\ [SysNext]_sysVars => Inv' /\ FilesInv'
  BY SysDeviceStep, SysFilesStep
<1>4. Inv /\ FilesInv /\ Cmd /\ [SysNext]_sysVars => Cmd'
  <2>. SUFFICES ASSUME IInv, FilesInv, OpsOK, CommandInv, LifeInv, [SysNext]_sysVars
                PROVE  Cmd'
    OBVIOUS
  <2>1. LifeInv'
    BY LifeStep
  <2>2. CASE [Next]_vars
    BY <2>1, <2>2, OpsStep, CommandStep, OneAtATime DEF IInv, TypeOK
  <2>3. ASSUME NEW d \in Devs, Die(d) PROVE OpsOK' /\ CommandInv'
    BY <2>3 DEF Die, listVars, irqVars, wrVars, OpsOK, CommandInv, IsListed
  <2>. QED
    BY <2>1, <2>2, <2>3, DeviceSteps
<1>5. Inv /\ FilesInv /\ Cmd => All
  OBVIOUS
<1>. QED
  BY <1>1, <1>2, <1>3, <1>4, <1>5, PTL DEF SysSpec

(* GoneQuiet: when rtap_exit has returned, no handler is registered or     *)
(* runs, no device and no thread is left and no process is inside a call,  *)
(* for any number of devices, softirqs and users and whatever is written   *)
(* to the other files, if one process brings devices up and down and is    *)
(* done before the removal.                                                *)
THEOREM ModuleGoneQuiet ==
    ASSUME OrderlyRemoval
    PROVE  SysSpec => []GoneQuiet
<1>. DEFINE All == IInv /\ FrameInv /\ CommandInv /\ FilesInv /\ LifeInv
<1>1. All => GoneQuiet
  <2>. SUFFICES ASSUME IInv, CommandInv, LifeInv, phase = "gone" PROVE GoneQuiet
    BY DEF GoneQuiet
  <2>1. /\ \A w \in Writers : wpc[w] = "idle"
        /\ \A w \in Users : vpc[w] = "idle"
    BY DEF LifeInv, LifePhases, CallsHaveFiles, StillThere
  <2>2. devlist = <<>>
    BY DEF LifeInv, NoDeviceLeft, Cleared
  <2>3. \A d : ~ IsListed(d)
    BY <2>2 DEF IsListed
  <2>4. ptypes = {} /\ alive = {}
    BY <2>1, <2>3 DEF CommandInv, Unlisted
  <2>5. \A i \in Irqs : ipc[i] = "idle"
    <3>1. \A i \in Irqs : ipc[i] \in {"idle", "find", "alloc", "lock"}
      BY DEF IInv, TypeOK, IrqType
    <3>2. \A i \in Irqs : ipc[i] # "find"
      BY <2>3 DEF CommandInv
    <3>3. \A i \in Irqs : ipc[i] \notin {"alloc", "lock"}
      BY <2>3 DEF IInv, GraceOK, RecvDeviceListed, IsListed
    <3>. QED
      BY <3>1, <3>2, <3>3
  <2>. QED
    BY <2>1, <2>4, <2>5 DEF GoneQuiet
<1>. QED
  BY <1>1, RemovalInvariant, PTL

----------------------------------------------------------------------------
(* The walks, from insmod to rmmod *)

(* rtap_device_exit returns once, and no device comes after it.            *)
LEMMA ClearedStays ==
    ASSUME OrderlyRemoval, IInv, LifeInv, [SysNext]_sysVars, Cleared
    PROVE  Cleared'
<1>1. phase \in {"unloading", "removing", "gone"} /\ \A w \in Writers : wpc[w] = "idle"
  BY DEF Cleared, LifeInv, LifePhases
<1>2. CASE UNCHANGED <<phase, step, wpc>>
  BY <1>2 DEF Cleared
<1>3. CASE ExitPart
  <2>1. phase = "unloading" /\ step \in 1 .. 4
    BY <1>1, <1>3 DEF ExitPart, Cleared, LifeInv, LifePhases
  <2>2. Len(ExitOrder) = 4 /\ (step < 4 => ExitOrder[step + 1] # "devices")
    BY <2>1 DEF ExitOrder, Teardown
  <2>3. UNCHANGED wpc
    BY <1>3, <2>1, <2>2 DEF ExitPart, devVars, vars, wrVars
  <2>. QED
    BY <1>1, <1>3, <2>1, <2>2, <2>3, SystemAssumption DEF ExitPart, StepOf, Cleared
<1>4. CASE RemoveFile
  BY <1>4 DEF RemoveFile, StepOf, Cleared
<1>5. ~ CreateFile /\ ~ Unload
  BY <1>1 DEF CreateFile, Unload
<1>6. ASSUME NEW w \in Writers PROVE ~ DeviceUser(w)
  BY <1>1 DEF DeviceUser, OrderlyRemoval
<1>7. ASSUME NEW w \in Users, User(w) PROVE UNCHANGED <<phase, step, wpc>>
  BY <1>7 DEF User, devVars, vars, wrVars, lifeVars
<1>. QED
  BY <1>2, <1>3, <1>4, <1>5, <1>6, <1>7, LifeSteps DEF lifeVars, wrVars

(* Then no thread is left that could walk.                                 *)
LEMMA NoneAtWork ==
    ASSUME IInv, CommandInv, LifeInv, Cleared, NEW d \in Devs
    PROVE  kpc[d] # "work"
<1>1. \A w \in Writers : wpc[w] = "idle"
  BY DEF Cleared, LifeInv, LifePhases
<1>2. devlist = <<>>
  BY DEF LifeInv, NoDeviceLeft
<1>3. d \notin alive
  BY <1>1, <1>2 DEF CommandInv, Unlisted, IsListed
<1>. QED
  BY <1>3 DEF IInv, ThreadOK

(* What walks rely on until then: all that is pointed at is listed, and no *)
(* filter is of a type without a function.                                 *)
SafeInv ==
    /\ WalksSafe
    /\ Cleared \/ (FP!PointersInv /\ FP!FiltersKnown)

(* Every step of the module keeps it, if the users remove in order.        *)
LEMMA SafeStep ==
    ASSUME OrderlyRemoval, FP!TypesKnown, IInv, FrameInv, CommandInv, FilesInv, LifeInv,
           SafeInv, [SysNext]_sysVars, Cleared \/ FP!InPointerOrder
    PROVE  SafeInv'
<1>1. FP!FwdInv /\ FP!ForwardingAssumption /\ FP!ScriptAssumption
  BY SameAssumptions DEF FilesInv
<1>2. DOMAIN fpc = Devs
  BY <1>1 DEF FP!FwdInv, FP!TypeOK, FP!ThreadTypes
<1>3. ASSUME [FP!Next]_FP!vars PROVE Cleared' \/ (FP!PointersInv /\ FP!FiltersKnown)'
  <2>1. CASE Cleared
    BY <2>1, ClearedStays
  <2>2. CASE ~ Cleared
    <3>1. FP!PointersInv /\ FP!FiltersKnown /\ FP!InPointerOrder
      BY <2>2 DEF SafeInv
    <3>2. FP!PointersInv'
      BY <1>1, <1>3, <3>1, SameAssumptions, FP!PointersNext
    <3>3. FP!FiltersKnown'
      BY <1>1, <1>3, <3>1, SameAssumptions, FP!KnownNext
    <3>. QED
      BY <3>2, <3>3
  <2>. QED
    BY <2>1, <2>2
<1>4. CASE UNCHANGED fwdVars
  <2>1. UNCHANGED FP!vars
    BY <1>4 DEF FP!vars, FP!objVars, FP!wrVars, FP!thrVars, fwdVars, objVars, userVars,
       walkVars
  <2>2. WalksSafe'
    BY <1>4 DEF SafeInv, WalksSafe, fwdVars, walkVars
  <2>. QED
    BY <1>3, <2>1, <2>2 DEF SafeInv
<1>5. ASSUME NEW w \in Users, F!Start(w) \/ F!WriterStep(w) PROVE SafeInv'
  <2>1. FP!Next
    BY <1>5, SameStart, SameWriterStep DEF FP!Next
  <2>2. WalksSafe'
    BY <1>5, UserStep DEF SafeInv, WalksSafe, walkVars
  <2>. QED
    BY <1>3, <2>1, <2>2 DEF SafeInv
<1>6. ASSUME NEW d \in Devs, kpc[d] = "work", FP!ThreadNext(d) PROVE SafeInv'
  <2>1. ~ Cleared
    BY <1>6, NoneAtWork
  <2>2. FP!PointersInv /\ FP!FiltersKnown
    BY <2>1 DEF SafeInv
  <2>3. fpc'[d] # "oops"
    <3>1. CASE \E n \in {m + HDRLEN : m \in Lens} \cup {NULL} : FP!Receive(d, n)
      BY <1>2, <3>1 DEF FP!Receive
    <3>2. CASE FP!Walk(d) \/ FP!Visit(d) \/ FP!Invoke(d) \/ FP!Send(d)
      BY <1>1, <2>2, <3>2, SameAssumptions, FP!NoFault
    <3>. QED
      BY <1>6, <3>1, <3>2 DEF FP!ThreadNext
  <2>4. \A e \in Devs : e # d => fpc'[e] = fpc[e]
    <3>1. FP!OnList(d) /\ FP!PointerOK(d)
      BY <1>1 DEF FP!FwdInv, FP!WalkOnList, FP!OnList, FP!WalkPointers, FP!PointerOK
    <3>2. FP!ThreadDoes(d)
      BY <1>1, <1>6, <3>1, SameAssumptions, FP!ThreadStep DEF FP!FwdInv, FP!TypeOK
    <3>. QED
      BY <1>2, <3>2 DEF FP!ThreadDoes, FP!StepTypes
  <2>5. WalksSafe'
    BY <2>3, <2>4 DEF SafeInv, WalksSafe
  <2>6. FP!Next
    BY <1>6 DEF FP!Next
  <2>. QED
    BY <1>3, <2>5, <2>6 DEF SafeInv
<1>7. ASSUME NEW d \in Devs, Forward(d) PROVE SafeInv'
  <2>1. /\ fpc' = [fpc EXCEPT ![d] = "idle"]
        /\ UNCHANGED <<listeners, rules, chains, ldata, rdata, cdata, fdata, vpc, wline,
                       wobj, vptr, fptr>>
    BY <1>7 DEF Forward, objVars, userVars
  <2>2. WalksSafe'
    BY <1>2, <2>1 DEF SafeInv, WalksSafe
  <2>3. FP!FiltersKnown => FP!FiltersKnown'
    BY <2>1 DEF FP!FiltersKnown
  <2>4. FP!PointersInv => FP!PointersInv'
    <3>1. SUFFICES ASSUME FP!PointersInv PROVE FP!PointersInv'
      OBVIOUS
    <3>2. FP!RulesInUse' = FP!RulesInUse /\ FP!FiltersInUse' = FP!FiltersInUse
      BY <2>1 DEF FP!RulesInUse, FP!FiltersInUse, FP!FiltersOf
    <3>3. /\ \A r : FP!RuleLive(r)' <=> FP!RuleLive(r)
          /\ \A f : FP!FilterLive(f)' <=> FP!FilterLive(f)
          /\ \A w : FP!AidKept(w)' <=> FP!AidKept(w)
      BY <2>1 DEF FP!RuleLive, FP!FilterLive, FP!AidKept
    <3>4. \A e \in Devs : FP!WalkLive(e)'
      BY <1>2, <2>1, <3>1 DEF FP!PointersInv, FP!WalkLive
    <3>. QED
      BY <3>1, <3>2, <3>3, <3>4 DEF FP!PointersInv
  <2>. QED
    BY <2>2, <2>3, <2>4, ClearedStays DEF SafeInv
<1>. QED
  BY <1>4, <1>5, <1>6, <1>7, FilesSteps, SystemAssumption

(* WalksSafe: no walk meets freed memory, from insmod to rmmod, where the  *)
(* users take no listener and no rule out of its list while something      *)
(* points at it, and no two share a list of these that is removed from.    *)
(* Nobody asks that of rtap_exit, which frees all lists: it has first      *)
(* removed every device, and waited for its thread.                        *)
THEOREM WalksStaySafe ==
    ASSUME OrderlyRemoval, FP!TypesKnown, FP!ListsAlone(Lines)
    PROVE  SysSpec /\ [][Cleared \/ FP!InPointerOrder]_sysVars => []WalksSafe
<1>. DEFINE Ordered == Cleared \/ FP!InPointerOrder
            All == IInv /\ FrameInv /\ CommandInv /\ FilesInv /\ LifeInv
<1>1. SysInit => SafeInv
  <2>. SUFFICES ASSUME SysInit PROVE SafeInv
    OBVIOUS
  <2>1. FP!Init /\ WalksSafe /\ FP!FiltersKnown
    BY SameInit DEF SysInit, F!Init, WalksSafe, FP!FiltersKnown
  <2>2. FP!PointersInv
    BY <2>1, SameAssumptions, FP!InitPointersInv
  <2>. QED
    BY <2>1, <2>2 DEF SafeInv
<1>2. All /\ SafeInv /\ [SysNext]_sysVars /\ [Ordered]_sysVars => SafeInv'
  <2>1. UNCHANGED sysVars => FP!InPointerOrder
    BY DEF sysVars, fwdVars, objVars, FP!InPointerOrder
  <2>. QED
    BY <2>1, SafeStep
<1>3. SafeInv => WalksSafe
  BY DEF SafeInv
<1>. QED
  BY <1>1, <1>2, <1>3, RemovalInvariant, PTL DEF SysSpec

(* What the users do until rtap_device_exit has returned is to build up.   *)
UsersInv ==
    /\ vpc[Rmmod] # "idle" => Cleared
    /\ Cleared \/ FP!BuildInv(Users \ {Rmmod})

(* It keeps the order.                                                     *)
LEMMA UsersStep ==
    ASSUME OrderlyRemoval, IInv, FrameInv, FilesInv, FilesInv', LifeInv, UsersInv,
           [SysNext]_sysVars
    PROVE  UsersInv' /\ (Cleared \/ FP!InPointerOrder)
<1>. DEFINE Us == Users \ {Rmmod}
<1>1. CASE Cleared
  BY <1>1, ClearedStays DEF UsersInv
<1>2. CASE ~ Cleared
  <2>1. vpc[Rmmod] = "idle" /\ FP!BuildInv(Us)
    BY <1>2 DEF UsersInv
  <2>2. ASSUME vpc'[Rmmod] = "idle",
               \/ UNCHANGED <<listeners, rules, ldata, rdata, FP!wrVars>>
               \/ \E w \in Us : FP!Start(w) \/ FP!WriterStep(w)
               \/ \E d \in Devs : FP!ThreadNext(d)
        PROVE  UsersInv' /\ FP!InPointerOrder
    <3>1. FP!FwdInv /\ FP!FwdInv' /\ Us \in SUBSET Users
      BY DEF FilesInv
    <3>. HIDE DEF Us
    <3>2. FP!BuildInv(Us)' /\ FP!InPointerOrder
      BY <2>1, <2>2, <3>1, SameAssumptions, FP!BuildNext
    <3>. QED
      BY <2>2, <3>2 DEF UsersInv, Us
  <2>3. CASE UNCHANGED fwdVars
    BY <2>1, <2>2, <2>3 DEF fwdVars, objVars, userVars, FP!wrVars
  <2>4. ~ (ExitPart /\ step # 0 /\ step # 4)
    BY <1>2 DEF ExitPart, Cleared, LifeInv, LifePhases
  <2>5. ASSUME NEW w \in Users, (w # Rmmod /\ F!Start(w)) \/ F!WriterStep(w)
        PROVE  UsersInv' /\ FP!InPointerOrder
    <3>1. w # Rmmod /\ vpc'[Rmmod] = vpc[Rmmod]
      BY <2>1, <2>5, UserMoves, SystemAssumption
    <3>2. FP!Start(w) \/ FP!WriterStep(w)
      BY <2>5, SameStart, SameWriterStep
    <3>. QED
      BY <2>1, <2>2, <3>1, <3>2
  <2>6. ASSUME NEW d \in Devs, FP!ThreadNext(d) PROVE UsersInv' /\ FP!InPointerOrder
    <3>1. UNCHANGED vpc
      BY <2>6 DEF FP!ThreadNext, FP!Receive, FP!Walk, FP!Visit, FP!Invoke, FP!Send, FP!wrVars
    <3>. QED
      BY <2>1, <2>2, <2>6, <3>1
  <2>7. ASSUME NEW d \in Devs, Forward(d) PROVE UsersInv' /\ FP!InPointerOrder
    BY <2>1, <2>2, <2>7 DEF Forward, objVars, userVars, FP!wrVars
  <2>. QED
    BY <2>3, <2>4, <2>5, <2>6, <2>7, FilesSteps
<1>. QED
  BY <1>1, <1>2

(* Where the users only build up, each adding what nobody else adds, every *)
(* walk is safe, whatever frames and rmmod come meanwhile.                 *)
THEOREM BuildersWalkSafe ==
    ASSUME OrderlyRemoval, FP!TypesKnown, FP!ListsAlone(Lines),
           FP!BuildsUp(Lines, Users \ {Rmmod})
    PROVE  SysSpec => []WalksSafe
<1>. DEFINE Ordered == Cleared \/ FP!InPointerOrder
            All == IInv /\ FrameInv /\ CommandInv /\ FilesInv /\ LifeInv
<1>1. SysInit => UsersInv
  <2>. SUFFICES ASSUME SysInit PROVE UsersInv
    OBVIOUS
  <2>1. todo \in Lines /\ \A w \in Users : vpc[w] = "idle"
    BY DEF SysInit, F!Init
  <2>2. \A w \in Users : FP!ToDo[w] = todo[w]
    BY <2>1 DEF FP!ToDo
  <2>3. FP!KeysDiffer({FP!ToDo}, Users \ {Rmmod}) /\ FP!NoneClears({FP!ToDo}, Users \ {Rmmod})
    BY <2>1, <2>2 DEF FP!BuildsUp, FP!KeysDiffer, FP!NoneClears
  <2>4. \A line : FP!KeyFree(line)
    BY DEF SysInit, F!Init, FP!KeyFree, FP!NoneHas
  <2>. QED
    BY <2>1, <2>3, <2>4, SystemAssumption DEF UsersInv, FP!BuildInv, FP!KeysInv, FP!KeyOK
<1>2. All /\ All' /\ UsersInv /\ [SysNext]_sysVars => UsersInv' /\ Ordered
  BY UsersStep
<1>3. SysSpec => [][Ordered]_sysVars
  BY <1>1, <1>2, RemovalInvariant, PTL DEF SysSpec
<1>. QED
  BY <1>3, WalksStaySafe, PTL
=============================================================================
