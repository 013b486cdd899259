----------------------------- MODULE DeviceInv -----------------------------
(***************************************************************************)
(* The inductive invariant of Device, for any number of writers, softirqs, *)
(* devices and works: what holds between the locals of the actors, the two *)
(* locks, the device list and the places of the works.                     *)
(***************************************************************************)
EXTENDS Device

(* The locals of an actor have been assigned where it uses them.           *)
IrqLocals ==
    \A i \in Irqs :
        /\ ipc[i] # "idle" => iskb[i] \in Frames
        /\ ipc[i] \in {"alloc", "lock"} => idev[i] \in Devs
        /\ iwrk[i] # NULL => ipc[i] = "lock"

ThrLocals ==
    \A d \in Devs :
        /\ kpc[d] = "take" => queue[d] # <<>>
        /\ kpc[d] \in {"idle", "take"} <=> cur[d] = NULL

WrLocals ==
    \A w \in Writers :
        wpc[w] \in {"sync", "join", "oops", "addlock", "addtail", "addpack"} =>
            wdev[w] \in Devs

LocalsOK ==
    /\ IrqLocals
    /\ ThrLocals
    /\ WrLocals

(* rtap_devices.lock is owned by the writer that is in a critical section. *)
Critical == {"show", "scan", "sync", "join", "oops", "addtail"}

LockOK == \A w \in Writers : devlock = w <=> wpc[w] \in Critical

(* The devices that a writer holds outside the list: those it has made and *)
(* not appended yet, or unlinked and not freed yet.                        *)
Unlisted == {"addlock", "addtail", "join", "oops"}

ListOK ==
    /\ \A j \in 1 .. Len(devlist) : devlist[j] \in alive
    /\ \A j, l \in 1 .. Len(devlist) : devlist[j] = devlist[l] => j = l
    /\ \A w \in Writers : wpc[w] \in Unlisted =>
           /\ wdev[w] \in alive
           /\ \A j \in 1 .. Len(devlist) : devlist[j] # wdev[w]
           /\ \A v \in Writers : v # w /\ wpc[v] \in Unlisted => wdev[v] # wdev[w]
    /\ \A w \in Writers : wpc[w] = "sync" =>
           \E j \in 1 .. Len(devlist) : devlist[j] = wdev[w]

(* A thread runs only for an allocated device, and not once it has exited. *)
ThreadOK ==
    \A d \in Devs :
        /\ task[d] # "none" => d \in alive
        /\ kpc[d] \in {"take", "work", "lock", "free"} => task[d] \in {"run", "stopping"}
        /\ kpc[d] = "dead" => task[d] = "exited"
        /\ queue[d] # <<>> => d \in alive

(* A handler past its lookup holds a listed device, and a grace period that*)
(* started later waits for it.                                             *)
GraceOK ==
    /\ RecvDeviceListed
    /\ \A w \in Writers : wpc[w] = "sync" =>
           \A i \in Irqs : ipc[i] \in {"alloc", "lock"} => i \in gp

(* A work is queued at one place of one queue.                             *)
QueueOK ==
    \A d \in Devs : \A m, n \in 1 .. Len(queue[d]) : queue[d][m] = queue[d][n] => m = n

(* A work that waits, or is about to run, carries a frame.                 *)
CarriesOK ==
    \A d \in Devs :
        /\ \A m \in 1 .. Len(queue[d]) : wrk[queue[d][m]].skb \in Frames
        /\ kpc[d] = "work" => wrk[cur[d]].skb \in Frames

(* The conjunction is inductive: no action breaks it.                      *)
IInv ==
    /\ TypeOK
    /\ LocalsOK
    /\ LockOK
    /\ ListOK
    /\ ThreadOK
    /\ GraceOK
    /\ FreelistOK
    /\ OnePlace
    /\ QueueOK
    /\ CarriesOK

----------------------------------------------------------------------------
(* On top of it: the frames, and the numbers that they carry.              *)

(* A frame that a handler holds is allocated, and it is the only one to    *)
(* hold it.                                                                *)
HandlersOwn ==
    \A i \in Irqs : iskb[i] # NULL =>
        /\ skblen[iskb[i]] # 0
        /\ \A j \in Irqs : iskb[j] = iskb[i] => j = i

FrameInv == FrameOwned /\ HandlersOwn

(* The byte count of a work that waits is that of the work, or of the last *)
(* header, before it plus the length of its own frame.                     *)
BytesNumbered ==
    \A d \in {e \in alive : kpc[e] # "dead"} :
        LET p == Pending(d) IN
        \A n \in 1 .. Len(p) :
            LET before == IF n = 1 THEN sent[d].bytecnt ELSE wrk[p[n - 1]].bytes
            IN  wrk[p[n]].bytes = (before + skblen[wrk[p[n]].skb]) % CTR_MOD

NumberInv == QueueNumbered /\ BytesNumbered

----------------------------------------------------------------------------
(* What holds as long as commands do not overlap.                          *)

(* A writer executes a command: a line that is no read of the file.        *)
Commanding == {"scan", "sync", "join", "oops", "create", "addlock", "addtail", "addpack"}

OneCommands == \A v, w \in Writers : wpc[v] \in Commanding /\ wpc[w] \in Commanding => v = w

IsListed(d) == \E j \in 1 .. Len(devlist) : devlist[j] = d

(* A registered device is listed, a handler that has not looked its device *)
(* up yet will find it, and no device is lost.                             *)
CommandInv ==
    /\ \A d \in ptypes : IsListed(d)
    /\ \A w \in Writers : wpc[w] = "sync" => wdev[w] \notin ptypes
    /\ \A w \in Writers : wpc[w] = "addpack" => IsListed(wdev[w])
    /\ \A i \in Irqs : ipc[i] = "find" =>
           \E d \in Devs : IsListed(d) /\ dname[d] = iname[i] /\ (i \in gp \/ d \in ptypes)
    /\ \A d \in alive : IsListed(d) \/ \E w \in Writers : wpc[w] \in Unlisted /\ wdev[w] = d

(* A process adds a device: it goes through its names, and lists none that *)
(* is listed.                                                              *)
Adds(w) == wpc[w] # "idle" /\ wop[w] = "add"

OneAdds == \A v, w \in Writers : Adds(v) /\ Adds(w) => v = w

NamesInv ==
    /\ NamesUnique
    /\ \A w \in Writers :
           /\ wpc[w] = "sync" /\ wop[w] = "add" =>
                  \A d \in Devs : IsListed(d) /\ dname[d] = wname[w] => d = wdev[w]
           /\ wpc[w] \in {"join", "create", "addlock", "addtail"} /\ wop[w] = "add" =>
                  \A d \in Devs : IsListed(d) => dname[d] # wname[w]
           /\ wpc[w] \in {"addlock", "addtail"} => dname[wdev[w]] = wname[w]

(* A command is of the lines that its writer may write.                    *)
OpsOK ==
    \A w \in Writers :
        /\ wpc[w] # "idle" => wop[w] \in {"add", "remove", "clear", "show"} /\ MayDo(w, {wop[w]})
        /\ wpc[w] \in Commanding => wop[w] # "show"
        /\ wpc[w] = "show" => wop[w] = "show"
        /\ wpc[w] \in {"create", "addlock", "addtail", "addpack"} => wop[w] = "add"

(* The users bring devices up and read the file, and a name is brought up  *)
(* once: its writer writes no other line.                                  *)
AddsOnce ==
    /\ \A w \in Writers : \A line \in Script[w] : Parse(line) \in {"add", "show", "error"}
    /\ \A v, w \in Writers : \A l \in Script[v], m \in Script[w] :
           Parse(l) = "add" /\ Parse(m) = "add" /\ l.name = m.name => v = w /\ Budget[w] <= 1
============================================================================
