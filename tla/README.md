# Models of rtap-ko

rtap-ko is a Linux kernel module. It listens on monitor interfaces, copies each
frame behind a metadata header, runs it through chains of filters, and sends what
the rules say to UDP listeners. Everything is configured and read through five
files under `/proc/rtap`. This directory holds TLA+ models of the module, the TLC
runs that check them, and TLAPS proofs about the devices, the lists and the walks, the
addresses, the statistics and the composed module.

## The system

| part | source | state | operations |
|---|---|---|---|
| devices | `device.c` | `rtap_devices` (list and spinlock); per device counters `pkts`, `bytes`, `wrk_drop`, a kthread worker, a `packet_type` | lines `+dev`, `-dev`, `-`; reading the file; `rtap_device_recv` in softirq context; `rtap_device_rx_worker` in the thread of the device |
| work table | `device.c` | `rtap_kwork_tbl`: array of works, stack of free ones, spinlock | `rtap_device_kwork_alloc`, `rtap_device_kwork_free` |
| listeners | `listener.c` | list of identifier, address, port, socket | lines `id addr port`, `-id`, `-`; reading the file; `listener_send` |
| rules | `rule.c` | list of identifier, action, pointer to a listener | lines `id action arg`, `-`; reading the file; `rtap_rule_invoke` |
| filters, chains | `filter.c` | list of named chains, each a list of filters with a pointer to a rule and a count | lines `chain id type rule subtype arg`, `-chain`; reading the file; `rtap_filter_recv` |
| statistics | `stats.c` | list of counters and totals | add, remove, count, clear; line `id` (reset); reading the file. In this build only reading, resetting and the clear of `stats_exit` have callers |
| sockets | `ksocket.c` | none | `ksocket`, `ksendto`, `inet_aton`, `inet_ntoa`, `kclose` (never called) |
| proc directory | `proc.c` | `/proc/rtap` | create and remove the five files |
| life cycle | `rtap-ko.c` | none | `rtap_init`, `rtap_exit` |
| recv stub | `recv.c` | none | not built |

How a frame travels: softirq -> `rtap_device_recv` (find the device, take a work,
stamp it with the counters, queue it) -> the thread of the device ->
`rtap_device_rx_worker` (header, copy) -> `rtap_filter_recv` (chains, filters) ->
`rtap_rule_invoke` -> `listener_send`. Processes meanwhile add and remove devices,
listeners, rules and filters. The parts call each other directly and share lists;
there are no messages and nothing is persisted.

What is hard here:

- three kinds of execution context (softirqs, kernel threads, processes) share
  lists under plain `spin_lock`, which does not keep a softirq off the CPU of the holder;
- objects are looked up under a lock, used after it is released, and freed by others;
- `dev_remove_pack` and `kthread_stop` wait for other contexts, under a spinlock;
- the work table runs empty, counters wrap, allocations fail;
- a rule points at a listener and a filter at a rule, and nothing counts references;
- the module goes while processes write, softirqs receive and threads walk;
- an address is parsed by a `sscanf` whose result nobody looks at.

What makes each part correct: a device that a handler or a thread uses is listed
or allocated; a work is in one place and comes back; the headers of a device are
consecutive; names, endpoints and identifiers are unique; every filter sees every
frame once, in order; a frame goes where the configuration says and nowhere else;
pointers lead to live objects; every frame and every command gets done; an event is
counted once; endpoints get the frames of a device in the order of their reception; and
once the module is gone nothing of it runs.

## Modules

| module | contents |
|---|---|
| `KworkTbl` | the work table: `PopWork`, `KworkFree`, ..., and `FreelistOK` |
| `Device` | EXTENDS `KworkTbl`: `device.c` and the kernel services it uses |
| `KworkCustody` | abstract specification: what becomes of a work |
| `DeviceInv` | the inductive invariants of `Device`: `IInv`, on top of it `FrameInv` and `NumberInv`, and `CommandInv` and `NamesInv` for commands that do not overlap |
| `MCDevice` | small instances of `Device` |
| `KworkCustodyProofs`, `DeviceProofs`, `DeviceFrameProofs` | proofs about works, devices, frames and their numbers |
| `SeqLemmas` | facts about sequences, remainders and induction that the proofs share |
| `InetAddr` | `inet_aton` and `inet_ntoa` of `ksocket.c`, as operators |
| `Forwarding` | EXTENDS `InetAddr`: `listener.c`, `rule.c`, `filter.c` |
| `MCForwarding` | small instances of `Forwarding` |
| `ForwardingInv`, `ForwardingProofs`, `ForwardingFrameProofs` | the inductive invariant of `Forwarding` and the hypotheses about scripts; proofs about lists, walks and addresses; proofs about what becomes of a frame |
| `Stats`, `MCStats`, `StatsProofs` | `stats.c`, a small instance, proofs |
| `Capture` | abstract specification: what a listener gets of a device |
| `System` | EXTENDS `Device`, has an instance of `Forwarding`: the path of a frame from the softirq to the endpoint, `proc.c` and `rtap-ko.c` |
| `MCSystem`, `SystemProofs` | a small instance of `System`, proofs |

### Device

`Irqs` are the CPUs on which the receive softirq runs `rtap_device_recv` (variables
`ipc`, `idev`, `iwrk`, ... are its program counter and its locals). `Devs` are the
addresses of devices, each with the thread that `kthread_run` starts (`kpc`, `cur`,
`queue`). `Writers` are processes in `proc_write` or `proc_show` (`wpc`, `wdev`, ...).

A critical section that no actor of the model can enter or observe half done is one
action. Where a softirq may land inside a critical section of a thread, or the section
waits, taking the lock is an action of its own: `Lock`, `AddLock`, `WorkerLock`,
`Unregister` -> `Delete` -> `Join`. In the softirq itself nothing runs between lock
and unlock on that CPU and others only wait, so each critical section is one action:
`RecvFind`, `RecvAlloc`, `RecvQueue`/`RecvDrop`. `over[i]` is the thread that softirq
`i` has landed on; that thread does not run until the softirq returns.

From the kernel come `dev_add_pack` and `dev_remove_pack` (`ptypes`), the grace period
of `synchronize_net` (`gp`: the handlers that were in flight when it began),
`kthread_stop`, and the loop of `kthread_worker_fn`, which asks `kthread_should_stop`
before each work and leaves the rest of its list when asked to stop.

Abstractions. A frame is an address in `Frames` with a length (`skblen`, 0 when free),
its bytes are left out. The header keeps the fields that the receiver orders by
(`pktid`, `bytecnt`, `len`). Memory of a freed device or work is reset in the model,
which nobody can see: `rtap_device_recv` and `rtap_device_add` clear it before use. A
device that is freed while its handler is still registered (two writers can do that,
see `RegisteredAlive`) is not handed out again: what runs after that is undefined in
the code. A softirq that finds such a device unlisted behaves as the code does.
With `Faults`, `kthread_run` may return an error pointer, whose `kthread_stop` oopses
with the lock held, and `skb_copy_expand` may return NULL, whose `skb_push` kills the
thread. `schedule()` under a spinlock (`kthread_stop`, `synchronize_net`) is taken to
work, as it does without preemption and debugging options.

### KworkCustody

Says that a work goes from the pool to one handler, to the queue of one device, to its
thread, and back to the pool, or is abandoned with its device. `Device` refines it
(`Custody == INSTANCE KworkCustody WITH ...`): `Pool` is the used part of the free
list, `held`, `queued`, `running` are the locals and queues of the actors.

### Forwarding

`Listeners`, `Rules`, `Chains`, `Filters` are addresses; `ldata`, `rdata`, `cdata`,
`fdata` hold the object at an address or NULL when it is free. An address can be given
out again, so a stale pointer may lead to a new object. Each writer runs one of the
scripts of `Script`, a sequence of lines, through the steps of `proc_write`: create,
look up, remove, append. A listener or a rule that a setter refuses is destroyed again
(`ListenerSet`, `RuleTarget`). `listener_remove` and `rtap_rule_remove` take no lock, as in
the code, so their `list_del` may meet a process that searches, reads, clears, appends to
or removes from the same list under that lock or none (`UsesListeners`, `UsesRules`). It
may then go well, or a list is torn and freed entries are walked: the remover ends in
`"oops"`, the list is `Torn`, and nobody uses it any more, because nothing is known of it.
`ListsWhole` says that this does not happen, and holds of scripts, not of the code
(`ListsAlone`, see below).

A thread of a device walks the chains with `rtap_chains.lock`, one filter at a time
(`Visit`, `Invoke`, `Send`), with the successor read ahead as
`list_for_each_entry_safe` does (`ftmp`). A use of a freed object is `Fault` in a
thread and `"oops"` in a writer: the actor stops, and a thread, or a reader of the
filters, keeps the lock.

A reading of a file is a line `"read"`: `proc_show` changes nothing, but it follows the
pointers (`RuleShow` to listeners, `FilterShow` to rules), waits for the locks, and keeps
its lock where it faults. `listener_exit`, `rtap_rule_exit` and `rtap_filter_exit` are
lines of the file `"exit"`, which only rmmod writes. `ChainClear`, the body of
`rtap_filter_exit`, has no other caller. In `Forwarding` alone a frame may be filtered
meanwhile, which is more than `rtap_exit` allows; `System` has its order.

An address is the sequence of the numbers that `%d.%d.%d.%d` finds in the text. Where
there are fewer than four, `inet_aton` combines what happens to be on its stack (a choice
from `Garbage`); where one is no octet, its bits land in its neighbours. `htonl` and
`ntohl` undo each other and are left out. A frame goes to the address of the word
(`Destination`), and the properties compare it, as text, with what was written.

Abstractions. What a torn list holds is not modelled: behaviours end there for the
processes that use it. `rtap_filter_add` takes the lock of the chain, which keeps other
adders away but no walk; a walk follows `next` pointers only and finds its `list_add_tail`
done or not begun, so it is one step. The loops of `listener_clear` and
`rtap_rule_clear` are one action. An identifier below 0 removes, and
with an address behind it makes a listener, whose identifier is the unsigned number
that the line stands for in the model. An action above 3 is `"unknown"`. A name, an
address text and a port are values. A file's first character "-" alone is a line of length one (`echo -n -`); with a
newline the code refuses it as an error. The rest of the line is what `sscanf` assigns.
The functions for radiotap, 802.11 and IP match nothing in this build: type "other";
UDP, TCP and the numbers beyond the table are type "undefined". Texts of listings are
left out. The socket of a listener is state that nothing reads again but `ksendto`.

### Stats

Every function of `stats.c` is one action (one critical section), except `stats_add`
(`Add`, then `AddTail` or `AddFails`) and `proc_show` (`Show`, the three columns of the
totals in any order under no lock, `ShowRows`). `head` is the static entry with the
totals, `rows` the list. The filters of this build call none of the counting functions;
they are modelled as the interface that `stats.h` offers, called from any thread in any
order, and are the part of the model that stands for no running code yet.

### System and Capture

`System` joins the two layers where the code does: a thread of `Device` at `"work"` calls
`rtap_filter_recv` (`Offer`), walks the chains step by step (`Filter`), and goes on when
the walk is over (`Forward`). The threads of `Forwarding` are the devices, and the length
that the filters see is that of the copy with its header. A fault in the walk ends the
thread (`Die`). `Users` write the files of `Forwarding` and `Writers` the file of the
devices, as long as the files exist.

The life cycle: `phase` goes from `"loading"` (the files are made one by one, after every
part has been initialised) over `"up"`, `"unloading"` (`rtap_exit` calls the exit of one
part after the other: `ExitPart`) and `"removing"` (the files go one by one, each when no
call is in flight in it, as `remove_proc_entry` waits) to `"gone"`. `Rmmod` is the
process: its clear of the devices is the clear command of `Device`, and its exits are
lines of `Forwarding`. `stats_exit` clears a list that is empty in this build.

`Capture` promises that datagrams of a device leave in the order in which its frames
were received. `System` refines it: `count` is `pkts`, `waiting` the numbers stamped on
the works that are queued or run, and `wire` the datagram that was sent last.

`Orderly` says that users leave the devices alone from rmmod on. Without it a user adds a
device after `rtap_device_exit` and before the file is removed, and `GoneQuiet` is
violated: a handler stays registered in a module that is gone (see below).

## Runs

Passing runs of `MCDevice`:

| run | instance | shows |
|---|---|---|
| `device_commands` | 1 writer, any 3 lines; 2 devices, 1 CPU, 2 works | `TypeOK`, `RecvFindsDevice`, `RegisteredAlive`, `NamesUnique`, refinement of `KworkCustody` |
| `device_traffic` | 2 devices, 2 CPUs, 2 works, 3 frames: the table runs empty; counters modulo 3 | `FreelistOK`, `FrameOwned`, `LeaksAreDrops`, `NoWorkLost`, `QueueNumbered`, `HeadersConsecutive` |
| `device_two_writers` | 2 writers, any 2 of add, remove and clear; softirqs land on threads and writers; `Faults` | `IInv` (the invariant of the proofs), `RecvDeviceListed`, `ThreadDeviceAlive`, `OnePlace` |
| `device_live` | add and read against traffic, softirqs on CPUs of their own | `QueuedWorkRuns`, `RecvReturns`, `CommandReturns` |

Passing runs of `MCForwarding`:

| run | instance | shows |
|---|---|---|
| `forward_config` | 1 writer: a whole configuration, one that is removed, filters first, and built again, every refused line, or refused filters and then the exits; or 2 writers on different files, one that writes and one that reads, or two that share all lists of listeners and rules and take no single entry out; allocations, sockets and `skb_clone` may fail; 1 thread | `TypeOK`, `ListsWhole`, `WalkOnList`, `EndpointsUnique`, `RuleIdsUnique`, `PointersLive`, `WalkComplete`, `FilterOrder`, `AddressAsWritten`, `SentAsConfigured`, `LossesKnown`, `ChainsStand` |
| `forward_live` | 2 writers with chains of their own, one of which reads, 2 threads, one lock | `FrameDispatched`, `CommandReturns` |

The other two:

| run | instance | shows |
|---|---|---|
| `stats` (`MCStats`) | 2 callers, any 3 calls each, 2 identifiers, counters modulo 3 | `TypeOK`, `CountedOnce`, `DuplicatesRaced`, `TableRecent` |
| `system` (`MCSystem`) | insmod to rmmod: 1 device, 1 CPU, 2 frames, 2 works; 1 user of the devices, 1 of the rest | `WalksSafe`, `WalkerAlive`, `GoneQuiet`, refinement of `Capture` |

Runs that end in a violation, each a disagreement between the code and a comment, a
message or a test of the repository (quoted in `PROJECT.json`):

| run | property | what happens |
|---|---|---|
| `device_remove_hangs` | `CommandReturns` | `rtap_device_remove` waits, with the lock, for a handler that waits for the lock |
| `device_read_hangs` | `CommandReturns` | a softirq spins on the lock of the `cat` that it has interrupted |
| `device_lost_work` | `NoWorkLost` | works queued on a removed device never come back |
| `forward_listener_first` | `PointersLive` | a listener goes while a rule points at it |

Other disagreements were met while modelling and are within reach of the same models
with another script; the passing runs stay clear of them and say so here:

- Two processes that add one device name, one endpoint (`device.c:379`,
  `listener.c:147`) or one rule at once each find nothing to remove, and both append.
  `NamesUnique`, `EndpointsUnique` and `RuleIdsUnique` hold for one writer per file.
- `list_del` of a listener (`listener.c:132`) or a rule (`rule.c:117`) runs under no lock.
  A process that removes or replaces one while another is in that list may tear it:
  `ListsWhole` fails at the first script that lets two do that. It is checked where one
  process at most uses the two lists, or where no line takes a single entry out.
- `filter.c:184` announces the removal of a matching filter and no code follows, and
  `filter.h:24` says that the identifier designates the order of operation while the
  walk follows the order of writing. `FilterOrder` holds where the two agree.
- A filter of type UDP or TCP (`filter.h:59`) calls an empty entry of the table with
  the lock held; `FrameDispatched` holds without such filters.
- A negative size is compared as unsigned (`filter.c:612`); `SentAsConfigured` holds
  for sizes from 0.
- A process that adds a filter to a chain while another removes the chain writes into
  freed memory (`filter.c:1156`); in `forward_live` each has a chain of its own.
- `inet_aton` refuses no text and no number. `test/beacon.sh:35` writes `127.0.0.1` with
  no identifier, and the first number is taken for it. A text like the rest, `.0.0.1`,
  makes an address of what was on the stack, and an octet above 255 spills into the one
  before it. `AddressAsWritten` and the comparison in `SentAsConfigured` are about dotted
  quads: no frame is sent to the other listeners in the runs.
- A rule cannot be removed alone: `%u` refuses `-id` and only `-` clears (`rule.c:518`).
- A reader of the rules after the removal of a listener, or of the filters after that of
  a rule, follows a freed pointer under the lock of the list, as the walk does.
- A filter of a removed chain is never freed (`filter.c:505`), nor is one whose chain
  could not be made (`filter.c:1177`): `LossesKnown` says that nothing else is lost.
- A device that is added while the module is being removed outlives it (`rtap-ko.c:68`);
  `GoneQuiet` holds where users leave the devices alone from rmmod on.
- The socket of a listener is never closed (`kclose` has no caller): each listener that is
  removed, cleared, replaced or refused (`listener.c:465`) leaves one behind. `LossesKnown`
  is about the memory of listeners, rules, chains and filters, and no property counts
  sockets.

### Bounds

`KWORK_MAX` is 1 or 2 instead of 16: an empty table, a full one and one in between
all occur. `CTR_MOD`, `DROP_MOD`, `UINT_MOD` stand for 2^32, 2^16, 2^32 and are small
so that the counters wrap. A frame's address is free again after `kfree_skb`; a
dropped frame is never freed by the code, so `Frames` bounds the drops of a behaviour.
`Budget` and `Script` bound what processes write; two or three lines are an addition,
a removal and one more, which is what the races between commands take. `left` and the
constant `Frames` of `Forwarding` bound the frames of a thread. `Listeners`, `Rules`,
`Chains`, `Filters` bound the objects that are allocated at once: where a script leaks
more than there are addresses, its writer stops there. `OCTET_BITS` is 2 instead of 8:
an octet from 0 to 3, with 5 for a number that is none; `Garbage` holds two values of the
stack. `Calls` bounds the calls of a caller of `Stats`. `system` has one device and one
user per file: what it adds to the runs of the parts is the order of the life cycle and
the path from one layer into the other, for which two frames, two works and the four
actors suffice; two frames wait for one thread, which an order needs. Addresses, frames, CPUs and
threads are interchangeable, and the safety runs use that symmetry.

Deadlock is not checked: budgets and scripts end, leaked frames are used up, and the
hangs and faults above stop an actor for good. Progress is checked by the liveness
properties instead.

### Fairness

`FairSpec` assumes that a CPU, a running thread and a process in the kernel go on (weak
fairness), and that a contended spinlock is handed to its waiters in turn (strong
fairness of each acquisition; in `Forwarding` of the disjunction `LocksChains` of the
acquisitions of one writer, which is at one of them at a time), which ticket and queued
spinlocks guarantee. It does not
assume that frames arrive, that anybody writes a line, that an allocation fails or
that a thread faults.

## Proofs

All statements below hold for any number of writers, softirqs, devices, works, threads,
filters, callers and frames, any script, any counter and address width, and both values
of `Faults` and `Scarce`. They rest on the named assumptions of the modules only, which
TLC evaluates in the runs: `KworkAssumption`, `DeviceAssumption`, `InetAddrAssumption`,
`ForwardingAssumption`, `ScriptAssumption` (what the words of a line may be),
`ObjectAssumption` (NULL is no object), `StatsAssumption` and those of `System`. Some have
a hypothesis besides, which the table names in words. Most of them are about what users
write, and TLC evaluates them on scripts of the runs (`CommandsApart`, `WritersApart`,
`ListsUsedAlone`, `UsersShareLists`, `FiltersRise`, `PlainWords`, `GrowingBuilds`,
`HomesDotted`, `RemovalOrdered`, `UsersBuildUp`). The one that most theorems about
listeners and rules share is `ListsAlone`: in each script one process at most has lines
that lead into these two lists, or no line removes a single listener and no two lines add
one endpoint or one identifier, so that no unlocked `list_del` runs while another process
is in its list. (A clear holds the lock, and meets no search.) Four theorems are about behaviours that never take a certain step
(`WorksKept`, `LeaksAreCounted`, `PointersStayLive`, `SentWhereOrdered`, and `WalksStaySafe`
in part): written `Spec /\ [][A]_vars => []Inv`, they say that this step is the only danger,
and the theorem below each says for which scripts the step cannot happen. `LeaksAreDrops`
counts, and asks for finitely many frames and devices.

| theorem | module | says |
|---|---|---|
| `CustodyOnePlace` | `KworkCustodyProofs` | `KworkCustody` keeps a work in one place |
| `DeviceInvariant` | `DeviceProofs` | `Spec => []IInv` |
| `DeviceTyped` | `DeviceProofs` | `Spec => []TypeOK` |
| `HandlersUseListedDevices` | `DeviceProofs` | `Spec => []RecvDeviceListed` |
| `ThreadsOwnDevices` | `DeviceProofs` | `Spec => []ThreadDeviceAlive` |
| `FreelistSafe` | `DeviceProofs` | `Spec => []FreelistOK` |
| `DeviceCirculates` | `DeviceProofs` | `Spec => KworkCirculates` |
| `WorksInOnePlace` | `DeviceProofs` | `Spec => []OnePlace` |
| `RegisteredStayAlive` | `DeviceProofs` | one process writes commands: `Spec => []RegisteredAlive` |
| `HandlersFindDevices` | `DeviceProofs` | one process writes commands: `Spec => []RecvFindsDevice` |
| `NamesStayUnique` | `DeviceProofs` | one process adds devices: `Spec => []NamesUnique` |
| `WorksLostAtRemoval` | `DeviceProofs` | a step that loses a work frees the device that the work waits on, and no step finds it again |
| `WorksKept` | `DeviceProofs` | no step frees a device: `Spec => []NoWorkLost` |
| `AddingLosesNoWork` | `DeviceProofs` | each device is added once and none removed: `Spec => []NoWorkLost` |
| `FramesOwned` | `DeviceFrameProofs` | `Spec => []FrameOwned` |
| `QueuesNumbered` | `DeviceFrameProofs` | `Spec => []QueueNumbered` |
| `HeadersInOrder` | `DeviceFrameProofs` | `Spec => HeadersConsecutive` |
| `FramesLostWhere` | `DeviceFrameProofs` | the four kinds of step that lose a frame |
| `LeaksAreCounted` | `DeviceFrameProofs` | no fault, no step removes a device: `Spec => []LeaksAreDrops` |
| `AddingCountsLeaks` | `DeviceFrameProofs` | no fault, each device is added once and none removed: `Spec => []LeaksAreDrops` |
| `DevicesInSystem` | `SystemProofs` | in `System`, for ever: `RecvDeviceListed`, `ThreadDeviceAlive`, `FreelistOK`, `OnePlace`, `FrameOwned`, `QueueNumbered` |
| `HeadersInSystem` | `SystemProofs` | `SysSpec => HeadersConsecutive` |
| `WalkersAlive` | `SystemProofs` | `SysSpec => [](WalksSafe => WalkerAlive)` |
| `FilesInSystem` | `SystemProofs` | `ListsAlone`: in `System`, for ever: `ListsWhole`, `WalkOnList`, `WalkComplete`, `AddressAsWritten` |
| `SystemCaptures` | `SystemProofs` | endpoints are written as dotted quads: `SysSpec => Captures` |
| `ModuleGoneQuiet` | `SystemProofs` | one process writes commands, and none from rmmod on: `SysSpec => []GoneQuiet` |
| `WalksStaySafe` | `SystemProofs` | the same, `ListsAlone`, and until `rtap_device_exit` has returned nothing is removed that is pointed at: `SysSpec => []WalksSafe` |
| `BuildersWalkSafe` | `SystemProofs` | the same, `ListsAlone`, and users only add, each its own: `SysSpec => []WalksSafe` |
| `ForwardingTypes` | `ForwardingProofs` | `Spec => []TypeOK` |
| `ListsStayWhole` | `ForwardingProofs` | `ListsAlone`: `Spec => []ListsWhole` |
| `WalksStayOnList` | `ForwardingProofs` | `Spec => []WalkOnList` |
| `WalksComplete` | `ForwardingProofs` | `Spec => []WalkComplete` |
| `WalkedChainsStand` | `ForwardingProofs` | `Spec => ChainsStand` |
| `EndpointsAreUnique` | `ForwardingProofs` | one process adds listeners: `Spec => [](~ Torn("listeners") => EndpointsUnique)`; with `ListsAlone` no list is torn |
| `RuleIdsAreUnique` | `ForwardingProofs` | one process adds rules: `Spec => [](~ Torn("rules") => RuleIdsUnique)`; with `ListsAlone` no list is torn |
| `LossesAreKnown` | `ForwardingProofs` | one process writes filters, whose addresses are their own, `ListsAlone`: `Spec => []ListsWhole /\ LossesKnown` |
| `PointersStayLive` | `ForwardingProofs` | `ListsAlone`, no step removes what is pointed at: `Spec => []PointersLive` |
| `BuildingKeepsPointers` | `ForwardingProofs` | users only add, each its own: `Spec => []PointersLive` |
| `FiltersInOrder` | `ForwardingFrameProofs` | one process writes filters, each chain in the order of the identifiers: `Spec => []FilterOrder` |
| `SentWhereOrdered` | `ForwardingFrameProofs` | lines are plain, `ListsAlone`, and no step removes what is pointed at: `Spec => SentAsConfigured` |
| `BuildingSends` | `ForwardingFrameProofs` | lines are plain, and users only add, each its own: `Spec => SentAsConfigured` |
| `AddressesAsWritten` | `ForwardingProofs` | `Spec => []AddressAsWritten` |
| `StatsTypes` | `StatsProofs` | `Spec => []TypeOK` |
| `EventsCountedOnce` | `StatsProofs` | `Spec => []CountedOnce` |
| `DuplicatesOnlyRaced` | `StatsProofs` | `Spec => []DuplicatesRaced` |
| `TablesRecent` | `StatsProofs` | `Spec => []TableRecent` |

None of the properties is inductive alone. The arguments, part by part:

**Devices.** That a handler's device stays listed needs that the only step that unlinks
a device, `Delete`, follows a grace period that waited for that handler (`GraceOK`), that
a handler can only begin to use a device when no removal is under way because both need
`rtap_devices.lock` (`LockOK`), and that the device a writer unlinks is the one it
unregistered (`ListOK`). That a freed device has no running thread needs that threads
exit before they are joined (`ThreadOK`) and that nobody else frees it (`ListOK`: devices
held outside the list are held by one writer). That the stack of free works is sound
needs that a work pushed back is nowhere else (`OnePlace`, `QueueOK`), and the reverse.
`CarriesOK` and `LocalsOK` give the locals their types where they are used. `IInv` is the
conjunction; `InitIInv` and `NextIInv` prove that it is inductive, with one lemma per
conjunct and one step per action. `CirculatesStep` maps every action to a step of
`KworkCustody` or to a stutter, from which `OnePlace` carries over by `CustodyOnePlace`'s
step lemma.

**Commands to devices.** `rtap_device_add` lists a device in one critical section and
registers its handler after it, so a second process may remove and free the device in
between, or list another of its name. The theorems say that this is the only way:
`OneMayDo(Writers, Commands)` says that one writer at most has lines that are commands and
leaves reads to anybody, and `OpsOK` keeps a writer to its lines. `CommandInv` then ties
what is registered, what is listed and what is allocated together: a registered device is
listed, and a device that is unregistered stays so until it is unlinked, because the writer
that could register it again is the one that removes it. A handler that has not looked its
device up yet finds one of that name: while the device is registered it is listed, and once
it is not, `synchronize_net` waits for that handler before the device is unlinked.
`NamesInv` is what a process that adds knows between its critical sections, as
`EndpointsInv` below: nobody else lists its name, or only the device that it goes on to
remove. Others may remove and clear meanwhile, which only shortens the list.

**Works that are lost.** A work is lost when it is in no place of `KworkCustody`.
`WorksLostAtRemoval` maps each step to the circulation (`CircleStep`): a step of a handler or
a thread moves a work from one place to another, whatever it races with, and only `Join`,
which frees the device, drops its list. That is stronger than `NoWorkLost` in a behaviour
without removals, and says where `device_lost_work` gets its counterexample. `AddsOnce` is
the hypothesis on scripts: then `rtap_device_add` never finds a device of its name, which is
its own way to `rtap_device_remove`. `AddsInv` and `ListedAdded` carry that through the
critical sections of an add.

**Frames and numbers.** A thread's frame belongs to nobody else (`FrameOwned`) only if a
frame passes from exactly one handler to exactly one work: `HandlersOwn` is the half of
that which the property does not say, and `FrameInv` both. `QueueNumbered` says which
packet counts wait at a device; a header must also carry the right byte count, which
`BytesNumbered` follows through the queue (each count is the one before plus the length of
the frame), and `NumberInv` is both. The counts are consecutive modulo any width by
`PlusMod`. `HeadersConsecutive` then follows for the step that sends.

`FramesLostWhere` says of a frame that has no owner left which step took it: a drop with
`wrk_drop`, a handler that finds no device, an oops, or the list of a freed device. For
`LeaksAreDrops` each of these but the first must be excluded: a handler finds its device as
long as none is unregistered (`QuietInv`). The property compares a sum over the devices with
a cardinality, both modulo the width of the counter. Sums over finite sets are functions on
the numbers below a cardinality (`SeqLemmas`), so that the step that adds one to one device
adds one to the sum.

**System.** `DeviceSteps` shows that every step of `System` is, for the variables of
`Device`, one of its steps, a stutter, or the death of a thread in the filters (`Die`),
which `Device` alone does not have and which is shown to keep the invariants. That gives
`DevicesInSystem`. `WalkInv` ties the two layers: a thread that is in the filters is one
that `Device` has at `"work"`, so whoever holds `rtap_chains.lock` to walk has an
allocated device, until a walk has met freed memory.

`SystemCaptures` is the refinement. `FilesInv` carries the invariant of `Forwarding` into
`System`: a step of the module is one of `Forwarding`'s for its variables (the `Same` lemmas,
one per kind of step), `Forward`, where a thread comes back and its walk is forgotten, or
leaves them alone. `Waiting` is the variable `waiting` of `Capture`: the numbers of the work
that a thread runs and of those in its queue. A frame that is queued puts its number last
(`WorkArrives`), a work that a thread leaves, or dies with, takes the first away
(`WorkLeaves`), and no other step of a device changes what waits (`NumbersStand`, because a
work keeps its contents as long as it is in use). A datagram bears the number of the work
that the thread runs, which is the first (`NumbersTail`), and goes to the address of a
listener, which is the endpoint that was written (`WalkSends`, from `AddressAsWritten`). That
asks for `DottedQuads`: `inet_aton.c` turns other texts into some address, and `Capture` has
no name for it.

`ModuleGoneQuiet` needs to know who is at work in each phase. `LifeInv` says that rmmod
works only while it unloads and everybody else has left the devices alone by then, that the
list of devices is empty from the end of `rtap_device_exit` on (`ClearMoves`: a clear that
ends has found the list empty), and that a call is in flight only on a file that is not
removed yet (`remove_proc_entry` waits). With rmmod there are two processes that write
commands, but not at once (`OneAtATime`), so `CommandInv` holds, and from an empty list it
follows that nothing is registered or allocated and no handler runs. `OrderlyRemoval` is the
hypothesis, `RemovalOrdered` its evaluation.

**Lists.** `FwdInv` is the invariant of `Forwarding`. `ListsSound` says that what is listed
is allocated and listed once. Under separate critical sections that depends on the
locals of the writers: the object a writer is about to append is allocated, not listed,
and no other writer's (`MadeOnce`), and its kind and its line fit where the writer stands
(`AtWork`, `MadeKinds`, from which the types follow). `Sound` is `ListsSound` for one list;
one lemma per operation (`SoundMake`, `SoundList`, `SoundRemove`, `SoundClear`, ...) says
what it does to any list, and `ListenerStep`, `RuleStep`, `ChainStep`, `FilterStep` give
each action its lemma. A search returns a member that fits, if there is one
(`SearchFinds`), by the least number of a set (`LeastMember`).

`ListsStayWhole` adds that no list is torn. `ListsSound` holds up to that point for any
writers, and only under `ListsAlone` is there no such point. `WholeInv` is `NotTorn` and
one of two reasons for it, which is also why each is needed. `AloneInv`: one process has
lines left that lead into the lists (`OneWriter(ListLines)`), so the remover is alone, and
what it has found is still listed when it removes it. Or `KeysInv(Writers)`: no line removes
a single entry and no key is written twice (`KeysDiffer`), so each add finds its key free
(`KeyFree`, `KeyOK`) and nobody ever comes to a removal (`KeysNext`). `SysWholeStep` carries
`WholeInv` through the steps of `System`.

**Walks.** `ChainsStand` rests on `WalkHoldsLock`: whoever walks holds `rtap_chains.lock`,
from `Walk`, which finds it free, to `Leave`, and for good after a fault. A thread touches
the lock only where it walks alone (`WalksAlone`), a writer takes it only when it is free.
The steps that list, remove or free a chain need the lock free (`WriterStand`), so none
runs under a walk; `FilterAdd`, which does not ask for the lock, only puts a filter last.
Hence `WalkOnList`: the position of a walk stays a position of its list. `WalkPointers`
gives the pointers of `Invoke` and `Send` their kinds.

`WalkComplete` needs to know what a walk has done at every step: `SoFar` says it by the
places of the filters in the lists (which filters precede the one it stands at, and that
all of those that were due have been given the frame), `Passed` says it between two
chains, and `WalksProgress` is that for every walk. A filter has one place
(`FilterLists`, from `ListsSound`), so `Precedes` is a strict order, and no filter is met
twice. `tmp_f` is read one filter ahead: a walk that finds no next entry misses the filters
added from then on, but none of those was due. Under a walk the lists only grow at their
ends (`WriterStand`), and what `SoFar` says stands (`SoFarGrows`).

**One process writes a file.** `listener_add` looks for the endpoint, removes what it has
found and appends its own listener in three critical sections, so two processes that add
at once break `EndpointsUnique`, and `rtap_rule_add` is alike. The theorems say that this
is the only way: `OneWrites(Script, E)` says that of each script one writer at most has
lines whose entry is in `E`, and leaves every other line to anybody. `OneWriter` keeps that
for the lines that are still to be written. `EndpointsInv` then holds what the process knows
between its critical sections: after the search nobody else lists its endpoint
(`NoneHas`), or only the listener it goes on to remove (`OnlyHas`). The steps of the others
only shorten the list (`ListenersLess`, `Within`), which keeps both. `RuleIdsInv` is the
same for rules. TLC evaluates the hypotheses on the scripts of `forward_config`
(`WritersApart`).

`LossesKnown` needs to know where everything allocated is: `ObjectsKept` says that a
listener, a rule or a chain is listed or in the hands of a process that goes on to list or
free it, with any number of writers. Only a filter can be lost then, and only in two of its
steps, if the chain that `rtap_filter_add` has found is still listed when the filter is
appended (`ChainsInHand`), which is where one process has to write the filters.
`KindsApart` says that no filter has the address of a listener, a rule or a chain, as
objects that are allocated at once have not.

`FiltersInOrder` has two halves. `HitsInv` is about walks, under any writers: the filters that
a walk has met and that are listed still are met in the order of their list, for as long as
the walk lasts and after it. A removal takes filters away from what is listed; an address
that is used again is that of another filter, which is why a filter in the hands of a process
is none that was met (`HitsKept`; a filter that was listed is never freed). `OrderInv` is
about the lists: chains have names of their own, the filter in the hands of the process goes
into the chain that its line names (`NamedAt`), and the identifiers in a chain do not exceed
those of the lines still to be written, up to the line that removes the chain (`LimitsOK`).
`IdsRise` is the hypothesis: `filter.c` appends and never sorts, so the order is that of the
writing.

**Pointers.** `rtap_rule_set_action` finds a listener, and the rule that will point at it is
listed two critical sections later; a filter is alike, and a walk reads both pointers under
no lock. So `PointersInv` speaks of more than the lists: of the rules and filters in the hands
of a process (`RulesInUse`, `FiltersInUse`) and of the pointer that a walk uses next. It is
inductive under steps in which nothing leaves its list while one of them points at it
(`InPointerOrder`), which is what a user of the module has to see to, since the module does
not. `BuildsUp` is a script that does: it clears and removes no listeners and no rules, and no
two lines add one endpoint or one identifier, so that no add finds something to remove.
`BuildInv` follows it through the lines that are still to be written (`ToDo`): it is
`KeysInv`, and that none of them clears a list, so such users keep that order
(`BuildingOrdered`).

In `System` the walks of `WalksSafe` meet freed memory by such a pointer or by a filter type
without a function (`TypesKnown`). `rtap_exit` does not keep the order of the pointers:
`listener_exit` frees listeners while rules point at them. `SafeStep` shows that this does no
harm, because `rtap_device_exit` comes first and has joined every thread (`NoneAtWork`): from
then on (`Cleared`) nobody walks, and before it only the users can break the order.

**What is sent.** `SentAsConfigured` compares what a walk has sent with filters, rules and
listeners as they are when it ends, while each was read at a time of its own and the last two
under no lock. `Taken` counts the filters up to a place that pass the frame on, which is the
place of the datagram of the next one (`TakenPlace`). `SentInv` says at every step what has
been sent: for all filters met so far, or for all but the last while its rule or its listener
is at work (`WalkSent`). What keeps it is that nothing those filters lead to changes under the
walk (`Kept`): they are listed, because the lock is held (`HitsInUse`); what is listed and
pointed at stays listed, in the order of the pointers; and what is listed is written by
nobody (`WriterKeeps`). A walk changes counts only (`ThreadKeeps`). That the frames are those
the subtypes name and the addresses those that were written is where the lines have to be
plain (`PlainLine`: a dotted quad, no negative size), which `PlainInv` carries over to the
objects made of them.

**Addresses.** `AddressAsWritten` is a fact about arithmetic: the lowest bits of a word
shifted by an octet are 0 (`LowBitsZero`), so the OR of it with an octet is their sum, and
the divisions of `inet_ntoa` take the sum apart again (`QuadKept`), whatever the width.

**Statistics.** Between the two critical sections of `stats_add` nothing but the race
itself keeps the identifier out of the list. `RacedInv` adds `AddsRaced` (an identifier
that is listed while an add of it is under way has been appended by another add) and the
types. For the sums, `CountInv` has the types, `CountedOnce`, that nothing is on show while
no read is under way, and `ShownRecent`, which is `TableRecent` with the sum replaced by
the row for all.

Recursive definitions (`Pow2`, `Ors`, `Sums`, `ListedIn`) are functions on an interval. An
induction over them is stated with a set of numbers in place of a predicate (`NatSet`), and
their equation with an operator for "each value follows from the one before" (`StepsOn`,
`Follows`), because the provers cannot instantiate a theorem with an operator parameter.

Only model-checked: the liveness properties, `QueuedWorkRuns`, `RecvReturns`,
`CommandReturns` and `FrameDispatched`, because fairness is out of the prover's reach. Every
invariant and every action property of the passing runs is stated by a theorem, if
under the hypotheses named above.

## Not modelled

The `#if 0` parts of `filter.c` and `recv.c`, which are not built; `kclose`, which has no
caller; the network behind `sock_sendmsg`, which the model takes to accept every datagram;
the test scripts, whose lines the scripts of the MC modules resemble; the contents of
frames and all formatting; the checks of the kernel's debugging options (sleeping in
atomic context, lock dependencies); what is in a list that an unlocked `list_del` has torn,
and what becomes of the processes that use it; the sockets of listeners, which are lost.

## Plan

Written, most important first: the device layer with the work table, its abstract
specification and its proofs; the forwarding layer with the addresses; the statistics;
the whole module from insmod to rmmod with its abstract specification; proofs about each.

Next, in this order:

1. Liveness of `System`: rmmod ends under the fairness of both layers when no frame is in
   flight, and does not when one is (as `device_remove_hangs` shows for the part).
2. `FilterOrder` and `SentAsConfigured` in `System`, where `rtap_exit` removes besides the
   users.
