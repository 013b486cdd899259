------------------------------- MODULE Device -------------------------------
(***************************************************************************)
(* device.c: the listening devices, their packet handlers, their kernel    *)
(* threads and /proc/rtap/devices.  Four kinds of actors interleave:       *)
(*                                                                         *)
(*  - Irqs: the softirq of a CPU, which calls rtap_device_recv for every   *)
(*    frame of a registered device, inside an RCU read-side section;       *)
(*  - Devs: the kthread worker of a device, which runs rtap_device_rx_worker*)
(*    on each queued work.  A device is named by the address that kmalloc  *)
(*    gives it, so a freed device may come back as another one;            *)
(*  - Writers: the processes that write or read /proc/rtap/devices;        *)
(*  - the kernel, which hands out frames and memory.                       *)
(*                                                                         *)
(* Between two actions of one actor every other actor may run, except that *)
(* a thread does not run while a softirq that interrupted it is active.    *)
(* The spinlocks are plain spin_lock: nothing keeps a softirq from landing *)
(* on a thread that holds one.                                             *)
(***************************************************************************)
EXTENDS KworkTbl, Sequences, SequencesExt, FiniteSets

CONSTANTS
    Names,          \* names that a user may write
    Present,        \* those for which a net_device exists
    Short,          \* those of one letter
    Devs,           \* addresses that kmalloc may return
    Irqs,           \* CPUs on which the receive softirq runs
    Writers,        \* processes that use /proc/rtap/devices
    Script,         \* per writer, the lines it may write, or read
    Budget,         \* per writer, how many of them
    Interruptible,  \* threads on which a softirq may land
    Frames,         \* socket buffers
    Lens,           \* lengths of a frame
    CTR_MOD,        \* 2^32: pkts and bytes are u32
    DROP_MOD,       \* 2^16: wrk_drop is u16
    Faults          \* whether kthread_run and skb_copy_expand may fail

Threads == Writers \cup Devs

ASSUME DeviceAssumption ==
    /\ NULL \notin Devs \cup Irqs \cup Writers \cup Frames
    /\ Writers \cap Devs = {}
    /\ Interruptible \subseteq Threads
    /\ Present \subseteq Names
    /\ Lens \subseteq Nat \ {0}
    /\ CTR_MOD \in Nat \ {0}
    /\ DROP_MOD \in Nat \ {0}
    /\ Budget \in [Writers -> Nat]
    /\ Script \in [Writers -> SUBSET [first : {"", "+", "-", "read"},
                                      name : Names \cup {NULL}]]
    /\ Faults \in BOOLEAN

VARIABLES
    devlist,    \* rtap_devices.list
    devlock,    \* owner of rtap_devices.lock, or NULL
    alive,      \* the devices that are allocated
    ptypes,     \* the devices whose packet_type is registered
    dname,      \* per device, pt.dev->name
    pkts,       \* per device, pkts
    bytes,      \* per device, bytes
    wrk_drop,   \* per device, wrk_drop
    task,       \* per device, the state of kworker_task
    queue,      \* per device, the work list of kworker
    kpc,        \* per device, where its thread is
    cur,        \* per device, the work its thread runs, or NULL
    sent,       \* per device, the last metadata header it forwarded
    wrk,        \* per work, skb, pkts and bytes
    ipc,        \* per softirq, where rtap_device_recv is
    iname,      \* per softirq, dev->name of the frame
    idev,       \* per softirq, d
    iwrk,       \* per softirq, wrk
    iskb,       \* per softirq, skb
    over,       \* per softirq, the thread it interrupted, or NULL
    wpc,        \* per writer, where it is
    wop,        \* per writer, the operation it executes
    wname,      \* per writer, devname
    wdev,       \* per writer, dev
    budget,     \* per writer, the lines it may still write
    gp,         \* softirqs that the running synchronize_net waits for
    skblen      \* per frame, its length, or 0 when it is not allocated

listVars == <<devlist, devlock, alive, ptypes, dname>>
ctrVars == <<pkts, bytes, wrk_drop>>
thrVars == <<task, queue, kpc, cur, sent>>
irqVars == <<ipc, iname, idev, iwrk, iskb, over>>
wrVars == <<wpc, wop, wname, wdev, budget>>

vars == <<tblVars, listVars, ctrVars, thrVars, wrk, irqVars, wrVars, gp, skblen>>

----------------------------------------------------------------------------
(* Helpers *)

(* What a work holds while it is free: rtap_device_recv clears it before   *)
(* it reads anything in it, so its old contents are as good as cleared.    *)
Blank == [skb |-> NULL, pkts |-> 0, bytes |-> 0]

NoHeader == [pktid |-> 0, bytecnt |-> 0, len |-> 0]

(* sizeof(struct rtap_device_skbmeta) *)
HDRLEN == 32

(* A thread advances unless a softirq is running on top of it.             *)
Runs(t) == \A i \in Irqs : over[i] # t

(* Addition on the u32 counters of a device.                               *)
AddWide(n, m) == n + m
AddCtr(n, m) == (n + m) % CTR_MOD

(* j is the place of the first listed device with that name, where the     *)
(* loops of rtap_device_findbyname and rtap_device_remove stop.            *)
FirstNamedAfterHead(j, name) ==
    /\ j \in 2 .. Len(devlist)
    /\ dname[devlist[j]] = name
    /\ \A l \in 2 .. j - 1 : dname[devlist[l]] # name

FirstNamed(j, name) ==
    /\ j \in 1 .. Len(devlist)
    /\ dname[devlist[j]] = name
    /\ \A l \in 1 .. j - 1 : dname[devlist[l]] # name

Listed(name) == \E j \in 1 .. Len(devlist) : dname[devlist[j]] = name

(* What proc_write makes of a line: its first character, and the name that *)
(* follows it (NULL where nothing does).  "show" is a read.                *)
Parse(line) ==
    IF line.first = "read" THEN "show"
    ELSE IF line.first = "-" /\ line.name = NULL THEN "clear"
    ELSE IF line.name = NULL \/ (line.first = "" /\ line.name \in Short) THEN "error"
    ELSE IF line.first = "-" THEN "remove"
    ELSE "add"

(* What a writer may do, and that one of the writers ws alone may do it.   *)
Commands == {"add", "remove", "clear"}

MayDo(w, ops) == \E line \in Script[w] : Parse(line) \in ops

OneMayDo(ws, ops) == \A v, w \in ws : MayDo(v, ops) /\ MayDo(w, ops) => v = w

----------------------------------------------------------------------------
(* rtap_device_init, on a list and a table that nobody uses yet.           *)
Init ==
    /\ TblInit
    /\ devlist = <<>>
    /\ devlock = NULL
    /\ alive = {}
    /\ ptypes = {}
    /\ dname = [d \in Devs |-> NULL]
    /\ pkts = [d \in Devs |-> 0]
    /\ bytes = [d \in Devs |-> 0]
    /\ wrk_drop = [d \in Devs |-> 0]
    /\ task = [d \in Devs |-> "none"]
    /\ queue = [d \in Devs |-> <<>>]
    /\ kpc = [d \in Devs |-> "idle"]
    /\ cur = [d \in Devs |-> NULL]
    /\ sent = [d \in Devs |-> NoHeader]
    /\ wrk = [k \in Kworks |-> Blank]
    /\ ipc = [i \in Irqs |-> "idle"]
    /\ iname = [i \in Irqs |-> NULL]
    /\ idev = [i \in Irqs |-> NULL]
    /\ iwrk = [i \in Irqs |-> NULL]
    /\ iskb = [i \in Irqs |-> NULL]
    /\ over = [i \in Irqs |-> NULL]
    /\ wpc = [w \in Writers |-> "idle"]
    /\ wop = [w \in Writers |-> NULL]
    /\ wname = [w \in Writers |-> NULL]
    /\ wdev = [w \in Writers |-> NULL]
    /\ budget = Budget
    /\ gp = {}
    /\ skblen = [f \in Frames |-> 0]

----------------------------------------------------------------------------
(* The softirq: rtap_device_recv *)

(* A softirq can land on t when t executes and no other softirq is on it.  *)
CanInterrupt(t) ==
    \/ t = NULL
    \/ /\ t \in Interruptible
       /\ Runs(t)
       /\ t \in Writers => wpc[t] \notin {"idle", "oops"}
       /\ t \in Devs => kpc[t] \notin {"idle", "dead"}

(* The network core gives a frame of length n to the handler of d.         *)
Deliver(i, d, f, n, t) ==
    /\ ipc[i] = "idle"
    /\ d \in ptypes
    /\ skblen[f] = 0
    /\ CanInterrupt(t)
    /\ skblen' = [skblen EXCEPT ![f] = n]
    /\ ipc' = [ipc EXCEPT ![i] = "find"]
    /\ iname' = [iname EXCEPT ![i] = dname[d]]
    /\ iskb' = [iskb EXCEPT ![i] = f]
    /\ over' = [over EXCEPT ![i] = t]
    /\ UNCHANGED <<tblVars, listVars, ctrVars, thrVars, wrk, idev, iwrk, wrVars, gp>>

(* rtap_device_recv returns to the network core.                           *)
Return(i) ==
    /\ ipc' = [ipc EXCEPT ![i] = "idle"]
    /\ iname' = [iname EXCEPT ![i] = NULL]
    /\ idev' = [idev EXCEPT ![i] = NULL]
    /\ iwrk' = [iwrk EXCEPT ![i] = NULL]
    /\ iskb' = [iskb EXCEPT ![i] = NULL]
    /\ over' = [over EXCEPT ![i] = NULL]
    /\ gp' = gp \ {i}

(* rtap_device_findbyname, which takes the lock and releases it.           *)
RecvFind(i) ==
    /\ ipc[i] = "find"
    /\ devlock = NULL
    /\ \E j \in 1 .. Len(devlist) :
           /\ FirstNamed(j, iname[i])
           /\ idev' = [idev EXCEPT ![i] = devlist[j]]
    /\ ipc' = [ipc EXCEPT ![i] = "alloc"]
    /\ UNCHANGED <<tblVars, listVars, ctrVars, thrVars, wrk, iname, iwrk, iskb, over,
                   wrVars, gp, skblen>>

(* No such device: the handler returns -1 and nobody frees the frame.      *)
RecvNoDevice(i) ==
    /\ ipc[i] = "find"
    /\ devlock = NULL
    /\ ~ Listed(iname[i])
    /\ Return(i)
    /\ UNCHANGED <<tblVars, listVars, ctrVars, thrVars, wrk, wrVars, skblen>>

RecvAlloc(i) ==
    /\ ipc[i] = "alloc"
    /\ \E k \in Kworks \cup {NULL} :
           /\ KworkAlloc(k)
           /\ iwrk' = [iwrk EXCEPT ![i] = k]
    /\ ipc' = [ipc EXCEPT ![i] = "lock"]
    /\ UNCHANGED <<listVars, ctrVars, thrVars, wrk, iname, idev, iskb, over, wrVars,
                   gp, skblen>>

(* The work is filled in with the counters of the device and queued.       *)
StampBefore(d, f) == [skb |-> f, pkts |-> pkts[d], bytes |-> bytes[d]]

Stamp(d, f) ==
    [skb |-> f, pkts |-> AddCtr(pkts[d], 1), bytes |-> AddCtr(bytes[d], skblen[f])]

QueueAtHead(d, k) == queue' = [queue EXCEPT ![d] = <<k>> \o @]
QueueWork(d, k) == queue' = [queue EXCEPT ![d] = Append(@, k)]

Enqueue(d, k, f) ==
    /\ pkts' = [pkts EXCEPT ![d] = AddCtr(@, 1)]
    /\ bytes' = [bytes EXCEPT ![d] = AddCtr(@, skblen[f])]
    /\ wrk' = [wrk EXCEPT ![k] = Stamp(d, f)]
    /\ QueueWork(d, k)

RecvQueue(i) ==
    /\ ipc[i] = "lock"
    /\ devlock = NULL
    /\ iwrk[i] # NULL
    /\ Enqueue(idev[i], iwrk[i], iskb[i])
    /\ Return(i)
    /\ UNCHANGED <<tblVars, listVars, wrk_drop, task, kpc, cur, sent, wrVars, skblen>>

(* No work was free: the drop is counted, and nobody frees the frame.      *)
CountNothing(d) == UNCHANGED wrk_drop
CountDrop(d) == wrk_drop' = [wrk_drop EXCEPT ![d] = (@ + 1) % DROP_MOD]

RecvDrop(i) ==
    /\ ipc[i] = "lock"
    /\ devlock = NULL
    /\ iwrk[i] = NULL
    /\ CountDrop(idev[i])
    /\ Return(i)
    /\ UNCHANGED <<tblVars, listVars, pkts, bytes, thrVars, wrk, wrVars, skblen>>

----------------------------------------------------------------------------
(* The kernel thread of a device: kthread_worker_fn, rtap_device_rx_worker *)

(* The thread asks kthread_should_stop before it takes each work.          *)
HasTwoWorks(d) == Len(queue[d]) > 1
HasWork(d) == queue[d] # <<>>

WorkerCheck(d) ==
    /\ kpc[d] = "idle"
    /\ task[d] = "run"
    /\ Runs(d)
    /\ HasWork(d)
    /\ kpc' = [kpc EXCEPT ![d] = "take"]
    /\ UNCHANGED <<tblVars, listVars, ctrVars, task, queue, cur, sent, wrk, irqVars,
                   wrVars, gp, skblen>>

WorkerExit(d) ==
    /\ kpc[d] = "idle"
    /\ task[d] = "stopping"
    /\ Runs(d)
    /\ task' = [task EXCEPT ![d] = "exited"]
    /\ UNCHANGED <<tblVars, listVars, ctrVars, queue, kpc, cur, sent, wrk, irqVars,
                   wrVars, gp, skblen>>

WorkerTake(d) ==
    /\ kpc[d] = "take"
    /\ Runs(d)
    /\ cur' = [cur EXCEPT ![d] = Head(queue[d])]
    /\ queue' = [queue EXCEPT ![d] = Tail(@)]
    /\ kpc' = [kpc EXCEPT ![d] = "work"]
    /\ UNCHANGED <<tblVars, listVars, ctrVars, task, sent, wrk, irqVars, wrVars, gp,
                   skblen>>

Header(k) ==
    [pktid   |-> wrk[k].pkts,
     bytecnt |-> wrk[k].bytes,
     len     |-> skblen[wrk[k].skb] + HDRLEN]

(* The header goes in front of a copy of the frame, the copy goes to the   *)
(* filters, and the copy and the frame are freed.                          *)
WorkerForward(d) ==
    /\ kpc[d] = "work"
    /\ Runs(d)
    /\ sent' = [sent EXCEPT ![d] = Header(cur[d])]
    /\ skblen' = [skblen EXCEPT ![wrk[cur[d]].skb] = 0]
    /\ kpc' = [kpc EXCEPT ![d] = "lock"]
    /\ UNCHANGED <<tblVars, listVars, ctrVars, task, queue, cur, wrk, irqVars, wrVars, gp>>

(* skb_copy_expand returned NULL: skb_push oopses and the thread is dead.  *)
WorkerOops(d) ==
    /\ Faults
    /\ kpc[d] = "work"
    /\ Runs(d)
    /\ kpc' = [kpc EXCEPT ![d] = "dead"]
    /\ task' = [task EXCEPT ![d] = "exited"]
    /\ UNCHANGED <<tblVars, listVars, ctrVars, queue, cur, sent, wrk, irqVars, wrVars, gp,
                   skblen>>

WorkerLock(d) ==
    /\ kpc[d] = "lock"
    /\ Runs(d)
    /\ KworkFreeLock(d)
    /\ kpc' = [kpc EXCEPT ![d] = "free"]
    /\ UNCHANGED <<listVars, ctrVars, task, queue, cur, sent, wrk, irqVars, wrVars, gp,
                   skblen>>

WorkerFree(d) ==
    /\ kpc[d] = "free"
    /\ Runs(d)
    /\ KworkFree(d, cur[d])
    /\ wrk' = [wrk EXCEPT ![cur[d]] = Blank]
    /\ cur' = [cur EXCEPT ![d] = NULL]
    /\ kpc' = [kpc EXCEPT ![d] = "idle"]
    /\ UNCHANGED <<listVars, ctrVars, task, queue, sent, irqVars, wrVars, gp, skblen>>

----------------------------------------------------------------------------
(* /proc/rtap/devices: proc_write, proc_show *)

Goto(w, pc) == wpc' = [wpc EXCEPT ![w] = pc]

(* proc_write or proc_show returns, and its locals are gone.               *)
Finish(w) ==
    /\ Goto(w, "idle")
    /\ wop' = [wop EXCEPT ![w] = NULL]
    /\ wname' = [wname EXCEPT ![w] = NULL]

(* A writer enters proc_write with a line, or proc_show.                   *)
Start(w, line) ==
    /\ wpc[w] = "idle"
    /\ budget[w] > 0
    /\ line \in Script[w]
    /\ budget' = [budget EXCEPT ![w] = @ - 1]
    /\ IF Parse(line) = "error"
       THEN UNCHANGED <<wpc, wop, wname>>
       ELSE /\ Goto(w, "lock")
            /\ wop' = [wop EXCEPT ![w] = Parse(line)]
            /\ wname' = [wname EXCEPT ![w] = line.name]
    /\ UNCHANGED <<tblVars, listVars, ctrVars, thrVars, wrk, irqVars, wdev, gp, skblen>>

(* spin_lock(&rtap_devices.lock) in the process.                           *)
Lock(w) ==
    /\ wpc[w] = "lock"
    /\ Runs(w)
    /\ devlock = NULL
    /\ devlock' = w
    /\ Goto(w, IF wop[w] = "show" THEN "show" ELSE "scan")
    /\ UNCHANGED <<tblVars, devlist, alive, ptypes, dname, ctrVars, thrVars, wrk, irqVars,
                   wop, wname, wdev, budget, gp, skblen>>

(* proc_show prints the list and releases the lock.                        *)
ShowKeepsLock(w) == UNCHANGED devlock
ShowUnlock(w) == devlock' = NULL

Show(w) ==
    /\ wpc[w] = "show"
    /\ Runs(w)
    /\ ShowUnlock(w)
    /\ Finish(w)
    /\ UNCHANGED <<tblVars, devlist, alive, ptypes, dname, ctrVars, thrVars, wrk, irqVars,
                   wdev, budget, gp, skblen>>

(* The device that the loop of rtap_device_remove, or the next turn of the *)
(* loop of rtap_device_clear, deletes.                                     *)
Victim(w, j) == IF wop[w] = "clear" THEN j = 1 ELSE FirstNamed(j, wname[w])

(* dev_remove_pack: the handler is unregistered and synchronize_net starts *)
(* to wait for the softirqs that are in it.                                *)
InNoHandler == {}
InHandler == {i \in Irqs : ipc[i] # "idle"}

StillRegistered(d) == ptypes
Unregistered(d) == ptypes \ {d}

Unregister(w) ==
    /\ wpc[w] = "scan"
    /\ Runs(w)
    /\ \E j \in 1 .. Len(devlist) :
           /\ Victim(w, j)
           /\ wdev' = [wdev EXCEPT ![w] = devlist[j]]
           /\ ptypes' = Unregistered(devlist[j])
    /\ gp' = InHandler
    /\ Goto(w, "sync")
    /\ UNCHANGED <<tblVars, devlist, devlock, alive, dname, ctrVars, thrVars, wrk, irqVars,
                   wop, wname, budget, skblen>>

(* The loop ends: the lock is released, rtap_device_add goes on.           *)
Unlock(w) ==
    /\ devlock' = NULL
    /\ IF wop[w] = "add"
       THEN Goto(w, "create") /\ UNCHANGED <<wop, wname>>
       ELSE Finish(w)

ScanEnd(w) ==
    /\ wpc[w] = "scan"
    /\ Runs(w)
    /\ \A j \in 1 .. Len(devlist) : ~ Victim(w, j)
    /\ Unlock(w)
    /\ UNCHANGED <<tblVars, devlist, alive, ptypes, dname, ctrVars, thrVars, wrk, irqVars,
                   wdev, budget, gp, skblen>>

(* synchronize_net is over: list_del, and kthread_stop asks the thread to  *)
(* stop.                                                                   *)
Delete(w) ==
    /\ wpc[w] = "sync"
    /\ Runs(w)
    /\ gp = {}
    /\ \E j \in 1 .. Len(devlist) :
           /\ devlist[j] = wdev[w]
           /\ devlist' = RemoveAt(devlist, j)
    /\ task' = [task EXCEPT ![wdev[w]] = IF @ = "run" THEN "stopping" ELSE @]
    /\ Goto(w, IF task[wdev[w]] = "error" THEN "oops" ELSE "join")
    /\ UNCHANGED <<tblVars, devlock, alive, ptypes, dname, ctrVars, queue, kpc, cur, sent,
                   wrk, irqVars, wop, wname, wdev, budget, gp, skblen>>

(* The memory of a device is cleared before it is used; nobody reads it    *)
(* once it is freed.                                                       *)
ClearDev(d) ==
    /\ pkts' = [pkts EXCEPT ![d] = 0]
    /\ bytes' = [bytes EXCEPT ![d] = 0]
    /\ wrk_drop' = [wrk_drop EXCEPT ![d] = 0]
    /\ sent' = [sent EXCEPT ![d] = NoHeader]

(* kthread_stop returns once the thread is gone, and the device is freed   *)
(* with the works that are still on its list.  A thread that has not gone  *)
(* would run on.                                                           *)
FreeDev(d) ==
    /\ alive' = alive \ {d}
    /\ queue' = [queue EXCEPT ![d] = <<>>]
    /\ task' = [task EXCEPT ![d] = "none"]
    /\ IF task[d] = "exited"
       THEN /\ kpc' = [kpc EXCEPT ![d] = "idle"]
            /\ cur' = [cur EXCEPT ![d] = NULL]
       ELSE UNCHANGED <<kpc, cur>>
    /\ ClearDev(d)

Unawaited(d) == TRUE
Gone(d) == task[d] = "exited"

Join(w) ==
    /\ wpc[w] = "join"
    /\ Runs(w)
    /\ Gone(wdev[w])
    /\ FreeDev(wdev[w])
    /\ wdev' = [wdev EXCEPT ![w] = NULL]
    /\ IF wop[w] = "clear"
       THEN Goto(w, "scan") /\ UNCHANGED <<devlock, wop, wname>>
       ELSE Unlock(w)
    /\ UNCHANGED <<tblVars, devlist, ptypes, dname, wrk, irqVars, budget, gp, skblen>>

(* rtap_device_add finds no such net_device, or no memory.                 *)
AddFail(w) ==
    /\ wpc[w] = "create"
    /\ Runs(w)
    /\ Finish(w)
    /\ UNCHANGED <<tblVars, listVars, ctrVars, thrVars, wrk, irqVars, wdev, budget, gp,
                   skblen>>

(* kmalloc, memset and kthread_run, whose error pointer goes unnoticed.  A *)
(* freed device that is still registered is not handed out again here: see *)
(* RegisteredAlive.                                                        *)
Create(w, d) ==
    /\ wpc[w] = "create"
    /\ Runs(w)
    /\ wname[w] \in Present
    /\ d \notin alive \cup ptypes
    /\ alive' = alive \cup {d}
    /\ dname' = [dname EXCEPT ![d] = wname[w]]
    /\ ClearDev(d)
    /\ kpc' = [kpc EXCEPT ![d] = "idle"]
    /\ \E outcome \in {"run"} \cup (IF Faults THEN {"error"} ELSE {}) :
           task' = [task EXCEPT ![d] = outcome]
    /\ wdev' = [wdev EXCEPT ![w] = d]
    /\ Goto(w, "addlock")
    /\ UNCHANGED <<tblVars, devlist, devlock, ptypes, queue, cur, wrk, irqVars, wop, wname,
                   budget, gp, skblen>>

AddLock(w) ==
    /\ wpc[w] = "addlock"
    /\ Runs(w)
    /\ devlock = NULL
    /\ devlock' = w
    /\ Goto(w, "addtail")
    /\ UNCHANGED <<tblVars, devlist, alive, ptypes, dname, ctrVars, thrVars, wrk, irqVars,
                   wop, wname, wdev, budget, gp, skblen>>

AddTail(w) ==
    /\ wpc[w] = "addtail"
    /\ Runs(w)
    /\ devlist' = Append(devlist, wdev[w])
    /\ devlock' = NULL
    /\ Goto(w, "addpack")
    /\ UNCHANGED <<tblVars, alive, ptypes, dname, ctrVars, thrVars, wrk, irqVars, wop,
                   wname, wdev, budget, gp, skblen>>

(* dev_add_pack: frames of the net_device reach rtap_device_recv from now. *)
AddPack(w) ==
    /\ wpc[w] = "addpack"
    /\ Runs(w)
    /\ ptypes' = ptypes \cup {wdev[w]}
    /\ wdev' = [wdev EXCEPT ![w] = NULL]
    /\ Finish(w)
    /\ UNCHANGED <<tblVars, devlist, devlock, alive, dname, ctrVars, thrVars, wrk, irqVars,
                   budget, gp, skblen>>

----------------------------------------------------------------------------
IrqNext(i) ==
    \/ \E d \in ptypes, f \in Frames, n \in Lens, t \in Interruptible \cup {NULL} :
           Deliver(i, d, f, n, t)
    \/ RecvFind(i)
    \/ RecvNoDevice(i)
    \/ RecvAlloc(i)
    \/ RecvQueue(i)
    \/ RecvDrop(i)

WorkerNext(d) ==
    \/ WorkerCheck(d)
    \/ WorkerExit(d)
    \/ WorkerTake(d)
    \/ WorkerForward(d)
    \/ WorkerOops(d)
    \/ WorkerLock(d)
    \/ WorkerFree(d)

WriterNext(w) ==
    \/ \E line \in Script[w] : Start(w, line)
    \/ Lock(w)
    \/ Show(w)
    \/ Unregister(w)
    \/ ScanEnd(w)
    \/ Delete(w)
    \/ Join(w)
    \/ AddFail(w)
    \/ \E d \in Devs : Create(w, d)
    \/ AddLock(w)
    \/ AddTail(w)
    \/ AddPack(w)

Next ==
    \/ \E i \in Irqs : IrqNext(i)
    \/ \E d \in Devs : WorkerNext(d)
    \/ \E w \in Writers : WriterNext(w)

Spec == Init /\ [][Next]_vars

(* A CPU and a running thread advance; a contended spinlock goes to its    *)
(* waiters in turn (ticket and queued spinlocks are first come first       *)
(* served), which is strong fairness of each acquisition.  Nothing makes a *)
(* frame arrive, a user write, an allocation fail or an error happen.      *)
Fairness ==
    /\ \A i \in Irqs :
           /\ SF_vars(RecvFind(i) \/ RecvNoDevice(i))
           /\ SF_vars(RecvAlloc(i))
           /\ SF_vars(RecvQueue(i) \/ RecvDrop(i))
    /\ \A d \in Devs :
           /\ WF_vars(WorkerCheck(d) \/ WorkerExit(d))
           /\ WF_vars(WorkerTake(d))
           /\ WF_vars(WorkerForward(d))
           /\ SF_vars(WorkerLock(d))
           /\ WF_vars(WorkerFree(d))
    /\ \A w \in Writers :
           /\ SF_vars(Lock(w))
           /\ SF_vars(AddLock(w))
           /\ WF_vars(Show(w) \/ Unregister(w) \/ ScanEnd(w) \/ Delete(w) \/ Join(w))
           /\ WF_vars(AddFail(w) \/ \E d \in Devs : Create(w, d))
           /\ WF_vars(AddTail(w) \/ AddPack(w))

FairSpec == Spec /\ Fairness

----------------------------------------------------------------------------
(* Properties *)

(* Every variable has its type.                                            *)
Counter == 0 .. CTR_MOD - 1

TblType ==
    /\ freelist \in [Slots -> Kworks \cup {NULL}]
    /\ freelist_index \in Nat
    /\ tbllock \in Devs \cup {NULL}

ListType ==
    /\ devlist \in Seq(Devs)
    /\ devlock \in Writers \cup {NULL}
    /\ alive \subseteq Devs
    /\ ptypes \subseteq Devs
    /\ dname \in [Devs -> Names \cup {NULL}]

CtrType ==
    /\ pkts \in [Devs -> Counter]
    /\ bytes \in [Devs -> Counter]
    /\ wrk_drop \in [Devs -> 0 .. DROP_MOD - 1]

ThrType ==
    /\ task \in [Devs -> {"none", "run", "stopping", "exited", "error"}]
    /\ queue \in [Devs -> Seq(Kworks)]
    /\ kpc \in [Devs -> {"idle", "take", "work", "lock", "free", "dead"}]
    /\ cur \in [Devs -> Kworks \cup {NULL}]

SentType ==
    sent \in [Devs -> [pktid : Counter, bytecnt : Counter, len : Nat]]

WrkType ==
    wrk \in [Kworks -> [skb : Frames \cup {NULL}, pkts : Counter, bytes : Counter]]

IrqType ==
    /\ ipc \in [Irqs -> {"idle", "find", "alloc", "lock"}]
    /\ iname \in [Irqs -> Names \cup {NULL}]
    /\ idev \in [Irqs -> Devs \cup {NULL}]
    /\ iwrk \in [Irqs -> Kworks \cup {NULL}]
    /\ iskb \in [Irqs -> Frames \cup {NULL}]
    /\ over \in [Irqs -> Interruptible \cup {NULL}]
    /\ gp \subseteq Irqs

WrType ==
    /\ wpc \in [Writers -> {"idle", "lock", "show", "scan", "sync", "join", "oops",
                            "create", "addlock", "addtail", "addpack"}]
    /\ wop \in [Writers -> {NULL, "add", "remove", "clear", "show"}]
    /\ wname \in [Writers -> Names \cup {NULL}]
    /\ wdev \in [Writers -> Devs \cup {NULL}]
    /\ budget \in [Writers -> Nat]

SkbType == skblen \in [Frames -> Lens \cup {0}]

TypeOK ==
    /\ TblType
    /\ ListType
    /\ CtrType
    /\ ThrType
    /\ SentType
    /\ WrkType
    /\ IrqType
    /\ WrType
    /\ SkbType

(* rtap_device_recv drops rtap_devices.lock between finding its device and *)
(* counting the frame on it.  The device that it then writes to is still   *)
(* listed, and so not freed: dev_remove_pack, which rtap_device_remove     *)
(* calls before list_del, waits for every handler in flight.               *)
RecvDeviceListed ==
    \A i \in Irqs : ipc[i] \in {"alloc", "lock"} =>
        \E j \in 1 .. Len(devlist) : devlist[j] = idev[i]

(* No thread outlives its device: a device is freed only when its thread   *)
(* is not between taking a work and freeing it, and a listed device is     *)
(* allocated and listed once.                                              *)
ThreadDeviceAlive ==
    /\ \A d \in Devs : kpc[d] \in {"take", "work", "lock", "free"} =>
           d \in alive /\ task[d] \in {"run", "stopping"}
    /\ \A j \in 1 .. Len(devlist) : devlist[j] \in alive
    /\ \A j, l \in 1 .. Len(devlist) : devlist[j] = devlist[l] => j = l

(* The frame that a thread is about to copy has not been freed, by it or   *)
(* by another thread, and belongs to no other work and no softirq.         *)
InUse(k) == \E d \in Devs : \/ k \in ToSet(queue[d])
                            \/ cur[d] = k /\ kpc[d] = "work"

FrameOwned ==
    \A k \in Kworks : InUse(k) =>
        /\ wrk[k].skb # NULL
        /\ skblen[wrk[k].skb] # 0
        /\ \A l \in Kworks : InUse(l) /\ wrk[l].skb = wrk[k].skb => l = k
        /\ \A i \in Irqs : iskb[i] # wrk[k].skb

(* The queue of a device is numbered: the works that wait carry the packet *)
(* counts that follow the last forwarded header, up to the counter of the  *)
(* device, and the last of them its byte count.                            *)
Pending(d) == (IF kpc[d] = "work" THEN <<cur[d]>> ELSE <<>>) \o queue[d]

QueueNumbered ==
    \A d \in {e \in alive : kpc[e] # "dead"} :
        LET p == Pending(d) IN
        /\ \A n \in 1 .. Len(p) : wrk[p[n]].pkts = (sent[d].pktid + n) % CTR_MOD
        /\ pkts[d] = (sent[d].pktid + Len(p)) % CTR_MOD
        /\ bytes[d] = IF p = <<>> THEN sent[d].bytecnt ELSE wrk[Last(p)].bytes

(* Headers leave a device in the order of reception with no gap: a header  *)
(* carries the previous packet count plus one, and the previous byte count *)
(* plus the length of the frame that it precedes.                          *)
HeadersConsecutive ==
    [][\A d \in Devs : sent'[d] # sent[d] /\ sent'[d] # NoHeader =>
           /\ sent'[d].pktid = (sent[d].pktid + 1) % CTR_MOD
           /\ sent'[d].bytecnt = (sent[d].bytecnt + sent'[d].len - HDRLEN) % CTR_MOD]_vars

(* The work table and the works in the hands of the actors implement the   *)
(* circulation of KworkCustody.                                            *)
Custody == INSTANCE KworkCustody WITH
    pool <- Pool,
    held <- [i \in Irqs |-> {iwrk[i]} \ {NULL}],
    queued <- [d \in Devs |-> ToSet(queue[d])],
    running <- [d \in Devs |-> {cur[d]} \ {NULL}]

KworkCirculates == Custody!Spec

(* A work is in one place at a time.                                       *)
OnePlace == Custody!OnePlace

(* "Return work structure back to free list" (rtap_device_rx_worker): a    *)
(* work that is not free is in the hands of an actor that will return it.  *)
NoWorkLost ==
    \A k \in Kworks :
        \/ k \in Pool
        \/ \E i \in Irqs : iwrk[i] = k
        \/ \E d \in Devs : cur[d] = k \/ k \in ToSet(queue[d])

(* A handler always finds the device that its frame was delivered for: a   *)
(* device is listed before it is registered, and unregistered before it is *)
(* unlisted.                                                               *)
RecvFindsDevice ==
    \A i \in Irqs : ipc[i] = "find" /\ devlock = NULL => Listed(iname[i])

(* A registered packet handler lies in allocated memory.                   *)
RegisteredAlive == ptypes \subseteq alive

(* "First remove any existing devices with same name" (rtap_device_add):   *)
(* no name is listed twice.                                                *)
NamesUnique ==
    \A j, l \in 1 .. Len(devlist) : dname[devlist[j]] = dname[devlist[l]] => j = l

(* Only a drop loses a frame: the frames that nobody holds any more are as *)
(* many as the drops that the devices have counted.                        *)
Leaked == {f \in Frames : /\ skblen[f] # 0
                          /\ \A i \in Irqs : iskb[i] # f
                          /\ \A k \in Kworks : InUse(k) => wrk[k].skb # f}

LeaksAreDrops ==
    Cardinality(Leaked) % DROP_MOD
        = FoldSet(LAMBDA d, sum : sum + wrk_drop[d], 0, Devs) % DROP_MOD

(* A queued work is run and its frame is freed.                            *)
QueuedWorkRuns ==
    \A k \in Kworks : (\E d \in Devs : k \in ToSet(queue[d])) ~> k \in Pool

(* rtap_device_recv returns.                                               *)
RecvReturns == \A i \in Irqs : ipc[i] # "idle" ~> ipc[i] = "idle"

(* A command written to /proc/rtap/devices, or a read of it, returns.      *)
CommandReturns == \A w \in Writers : wpc[w] # "idle" ~> wpc[w] = "idle"
=============================================================================
