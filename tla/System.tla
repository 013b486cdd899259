------------------------------- MODULE System -------------------------------
(***************************************************************************)
(* The whole module, from insmod to rmmod: the devices of Device, whose    *)
(* threads give their frames to the listeners, rules and filters of        *)
(* Forwarding, the files of /proc/rtap (proc.c), and rtap_init and         *)
(* rtap_exit (rtap-ko.c).                                                  *)
(*                                                                         *)
(* A thread of Device at "work" is in rtap_device_rx_worker: it enters the *)
(* filters, walks them step by step, and goes on when it has left them.    *)
(* rmmod is a process that writes no lines: rtap_device_exit is the clear  *)
(* of devices, and listener_exit, rtap_rule_exit and rtap_filter_exit are  *)
(* the "exit" lines of Forwarding.  stats_exit clears an empty list.       *)
(***************************************************************************)
EXTENDS Device

CONSTANTS
    Listeners, Rules, Chains, Filters, Ids, Endpoints, Garbage, OCTET_BITS,
    ChainNames, UINT_MOD, Scarce,   \* as in Forwarding
    Users,      \* processes that use the files of Forwarding
    Lines,      \* what they write
    Rmmod,      \* the process that inserts and removes the module
    Orderly     \* whether devices are left alone from the removal on

ASSUME SystemAssumption ==
    /\ Rmmod \in Writers \cap Users
    /\ Users \cap Devs = {}
    /\ Orderly \in BOOLEAN

VARIABLES
    listeners, rules, chains, ldata, rdata, cdata, fdata, chainlock,
    vpc, wline, wobj, vptr, todo,   \* wpc and wptr of Forwarding are vpc and vptr
    fpc, frame, fpos, ftmp, fptr, left, due, hits, out,
    phase,      \* where rtap_init or rtap_exit is
    step,       \* how many parts or files this phase has dealt with
    wire        \* history: the datagram that was sent last

F == INSTANCE Forwarding WITH
    Names <- ChainNames, Writers <- Users, Script <- Lines, Threads <- Devs, Frames <- 1,
    Lens <- {n + HDRLEN : n \in Lens} \cup {NULL}, wpc <- vpc, wptr <- vptr

(* What Forwarding assumes of its constants, of these.                     *)
ASSUME SystemForwarding ==
    /\ OCTET_BITS \in Nat \ {0}
    /\ NULL \notin Listeners \cup Rules \cup Chains \cup Filters
    /\ NULL \notin Ids /\ NULL \notin Endpoints
    /\ \A ep \in Endpoints : ep.ip \in Seq(Int) /\ ep.port \in Nat
    /\ NULL \notin ChainNames \cup Users
    /\ Garbage \subseteq Int
    /\ UINT_MOD \in Nat \ {0}
    /\ 0 \notin Ids
    /\ Scarce \in BOOLEAN
    /\ Lines \subseteq [Users -> Seq(F!Written)]
    /\ \A line \in F!Written : F!LineOK(line)
    /\ NULL \notin F!ListenerRecs /\ NULL \notin F!RuleRecs
    /\ NULL \notin F!ChainRecs /\ NULL \notin F!FilterRecs

devVars == vars
objVars == <<listeners, rules, chains, ldata, rdata, cdata, fdata>>
userVars == <<vpc, wline, wobj, vptr, todo>>
walkVars == <<fpc, frame, fpos, ftmp, fptr, left, due, hits, out>>
fwdVars == <<objVars, chainlock, userVars, walkVars>>
lifeVars == <<phase, step>>
sysVars == <<devVars, fwdVars, lifeVars, wire>>

ProcFiles == <<"devices", "rules", "listeners", "filters", "stats">>
Teardown == <<"devices", "listeners", "rules", "filters">>

(* rtap_init has initialised every part before it makes the first file.    *)
SysInit ==
    /\ Init
    /\ F!Init
    /\ phase = "loading"
    /\ step = 0
    /\ wire = [dev |-> NULL, pktid |-> 0, to |-> NULL]

----------------------------------------------------------------------------
(* rtap_proc_init and rtap_proc_exit *)

Exists(file) ==
    \E n \in DOMAIN ProcFiles :
        /\ ProcFiles[n] = file
        /\ \/ phase = "loading" /\ n <= step
           \/ phase \in {"up", "unloading"}
           \/ phase = "removing" /\ n > step

(* The phase goes on, or it has dealt with the last of a list.             *)
StepOf(list, next) ==
    IF step < Len(list) THEN step' = step + 1 /\ UNCHANGED phase
                        ELSE step' = 0 /\ phase' = next

CreateFile ==
    /\ phase = "loading"
    /\ StepOf(ProcFiles, "up")
    /\ UNCHANGED <<devVars, fwdVars, wire>>

(* remove_proc_entry waits for the calls in flight.                        *)
InFlight(file) ==
    \/ file = "devices" /\ \E w \in Writers : wpc[w] # "idle"
    \/ \E w \in Users : vpc[w] # "idle" /\ wline[w].file = file

RemoveFile ==
    /\ phase = "removing"
    /\ step < Len(ProcFiles) => ~ InFlight(ProcFiles[step + 1])
    /\ StepOf(ProcFiles, "gone")
    /\ UNCHANGED <<devVars, fwdVars, wire>>

----------------------------------------------------------------------------
(* rtap_exit *)

DevicesQuiet == \A w \in Writers : wpc[w] = "idle"

Unload ==
    /\ phase = "up"
    /\ Orderly => DevicesQuiet
    /\ phase' = "unloading"
    /\ step' = 0
    /\ UNCHANGED <<devVars, fwdVars, wire>>

(* One part after the other.                                               *)
ListenersFirst == <<"listeners", "devices", "rules", "filters">>
ExitOrder == Teardown

ExitPart ==
    /\ phase = "unloading"
    /\ wpc[Rmmod] = "idle" /\ vpc[Rmmod] = "idle"
    /\ StepOf(ExitOrder, "removing")
    /\ IF step = Len(ExitOrder)
       THEN UNCHANGED <<devVars, fwdVars>>
       ELSE IF ExitOrder[step + 1] = "devices"
       THEN (\E line \in Script[Rmmod] : Start(Rmmod, line)) /\ UNCHANGED fwdVars
       ELSE F!Start(Rmmod) /\ UNCHANGED devVars
    /\ UNCHANGED wire

----------------------------------------------------------------------------
(* The processes *)

DeviceUser(w) ==
    /\ IF wpc[w] = "idle"
       THEN w # Rmmod /\ Exists("devices") /\ (Orderly => phase \in {"loading", "up"})
       ELSE TRUE
    /\ WriterNext(w)
    /\ UNCHANGED <<fwdVars, lifeVars, wire>>

User(w) ==
    /\ \/ w # Rmmod /\ todo[w] # <<>> /\ Exists(Head(todo[w]).file) /\ F!Start(w)
       \/ F!WriterStep(w)
    /\ UNCHANGED <<devVars, lifeVars, wire>>

----------------------------------------------------------------------------
(* The thread of a device *)

(* rtap_device_rx_worker has put the header in front of the copy, and      *)
(* calls rtap_filter_recv, where skb_clone may find no memory.             *)
Offer(d) ==
    /\ kpc[d] = "work"
    /\ fpc[d] = "idle"
    /\ Runs(d)
    /\ \E n \in {Header(cur[d]).len, NULL} : F!Receive(d, n)
    /\ UNCHANGED <<devVars, lifeVars, wire>>

(* An oops ends the thread as it does in WorkerOops.                       *)
Die(d) ==
    /\ kpc' = [kpc EXCEPT ![d] = "dead"]
    /\ task' = [task EXCEPT ![d] = "exited"]
    /\ UNCHANGED <<tblVars, listVars, ctrVars, queue, cur, sent, wrk, irqVars, wrVars, gp,
                   skblen>>

Filter(d) ==
    /\ kpc[d] = "work"
    /\ Runs(d)
    /\ F!Walk(d) \/ F!Visit(d) \/ F!Invoke(d) \/ F!Send(d)
    /\ IF fpc'[d] = "oops" THEN Die(d) ELSE UNCHANGED devVars
    /\ wire' = IF out'[d] = out[d] THEN wire
               ELSE [dev |-> d, pktid |-> Header(cur[d]).pktid,
                     to |-> F!Reached(Last(out'[d]))]
    /\ UNCHANGED lifeVars

(* It comes back, and frees the copy and the frame.                        *)
Forward(d) ==
    /\ fpc[d] = "done"
    /\ WorkerForward(d)
    /\ fpc' = [fpc EXCEPT ![d] = "idle"]
    /\ frame' = [frame EXCEPT ![d] = NULL]
    /\ left' = [left EXCEPT ![d] = 1]
    /\ due' = [due EXCEPT ![d] = <<>>]
    /\ hits' = [hits EXCEPT ![d] = <<>>]
    /\ out' = [out EXCEPT ![d] = <<>>]
    /\ UNCHANGED <<objVars, chainlock, userVars, fpos, ftmp, fptr, lifeVars, wire>>

Thread(d) ==
    \/ Offer(d)
    \/ Filter(d)
    \/ Forward(d)
    \/ /\ \/ WorkerCheck(d) \/ WorkerExit(d) \/ WorkerTake(d)
          \/ fpc[d] = "idle" /\ WorkerOops(d)
          \/ WorkerLock(d) \/ WorkerFree(d)
       /\ UNCHANGED <<fwdVars, lifeVars, wire>>

SysNext ==
    \/ CreateFile \/ Unload \/ ExitPart \/ RemoveFile
    \/ \E i \in Irqs : IrqNext(i) /\ UNCHANGED <<fwdVars, lifeVars, wire>>
    \/ \E d \in Devs : Thread(d)
    \/ \E w \in Writers : DeviceUser(w)
    \/ \E w \in Users : User(w)

SysSpec == SysInit /\ [][SysNext]_sysVars

----------------------------------------------------------------------------
(* Properties *)

(* What endpoints get implements Capture: in the order of reception, none  *)
(* late, each at an endpoint that a user wrote.                            *)
Promise == INSTANCE Capture WITH
    Targets <- Endpoints,
    count <- pkts,
    waiting <- [d \in Devs |-> [n \in DOMAIN Pending(d) |-> wrk[Pending(d)[n]].pkts]]

Captures == Promise!Spec

(* Every endpoint that a user writes is a dotted quad and a port.          *)
DottedQuads ==
    \A ep \in Endpoints : ep = [ip |-> ep.ip, port |-> ep.port] /\ F!DottedQuad(ep.ip)

(* No walk meets freed memory, at the end of the module either: rtap_exit  *)
(* removes the devices, and waits for their threads, before it frees what  *)
(* their walks read.                                                       *)
WalksSafe == \A d \in Devs : fpc[d] # "oops"

(* Whoever holds rtap_chains.lock to walk is the live thread of a device   *)
(* that is allocated: kthread_stop never takes a thread out of its walk.   *)
WalkerAlive ==
    \A d \in Devs : chainlock = d =>
        d \in alive /\ kpc[d] = "work" /\ task[d] \in {"run", "stopping"}

(* Devices are left alone from the removal on; until then one process      *)
(* brings them up and down.  What rmmod does is the clear of devices.      *)
OrderlyRemoval ==
    /\ Orderly
    /\ OneMayDo(Writers \ {Rmmod}, Commands)
    /\ \A line \in Script[Rmmod] : Parse(line) = "clear"

(* Once the module is gone no handler is registered or runs, no thread is  *)
(* left, and no process is inside a call: nothing executes freed code.     *)
GoneQuiet ==
    phase = "gone" =>
        /\ ptypes = {} /\ alive = {}
        /\ \A i \in Irqs : ipc[i] = "idle"
        /\ \A w \in Writers : wpc[w] = "idle"
        /\ \A w \in Users : vpc[w] = "idle"
=============================================================================
