---------------------------- MODULE KworkCustody ----------------------------
(***************************************************************************)
(* What device.c promises about a work structure, whatever the softirqs,   *)
(* the kernel threads and the /proc writers do: it is in one place at a    *)
(* time and goes round                                                     *)
(*                                                                         *)
(*      pool -> a receive handler -> the queue of a device                 *)
(*           -> the thread of that device -> pool                          *)
(*                                                                         *)
(* and leaves the circle only where the queue of a removed device is       *)
(* abandoned.  Device implements this specification.                       *)
(***************************************************************************)
CONSTANTS Kworks, Irqs, Devs

VARIABLES
    pool,      \* the free works
    held,      \* per receive handler, the work it has allocated
    queued,    \* per device, the works its thread has still to run
    running    \* per device, the work its thread runs

vars == <<pool, held, queued, running>>

Init ==
    /\ pool = Kworks
    /\ held = [i \in Irqs |-> {}]
    /\ queued = [d \in Devs |-> {}]
    /\ running = [d \in Devs |-> {}]

(* rtap_device_kwork_alloc in a receive handler.                           *)
Alloc(i, k) ==
    /\ k \in pool
    /\ held[i] = {}
    /\ pool' = pool \ {k}
    /\ held' = [held EXCEPT ![i] = {k}]
    /\ UNCHANGED <<queued, running>>

(* kthread_queue_work in a receive handler.                                *)
Queue(i, d, k) ==
    /\ held[i] = {k}
    /\ held' = [held EXCEPT ![i] = {}]
    /\ queued' = [queued EXCEPT ![d] = @ \cup {k}]
    /\ UNCHANGED <<pool, running>>

(* kthread_worker_fn takes a work off the list of its device.              *)
Take(d, k) ==
    /\ k \in queued[d]
    /\ running[d] = {}
    /\ queued' = [queued EXCEPT ![d] = @ \ {k}]
    /\ running' = [running EXCEPT ![d] = {k}]
    /\ UNCHANGED <<pool, held>>

(* rtap_device_kwork_free at the end of rtap_device_rx_worker.             *)
Release(d, k) ==
    /\ running[d] = {k}
    /\ running' = [running EXCEPT ![d] = {}]
    /\ pool' = pool \cup {k}
    /\ UNCHANGED <<held, queued>>

(* The thread of d has been stopped and d is freed with its list of works. *)
Abandon(d) ==
    /\ queued' = [queued EXCEPT ![d] = {}]
    /\ running' = [running EXCEPT ![d] = {}]
    /\ UNCHANGED <<pool, held>>

Next ==
    \/ \E i \in Irqs, k \in Kworks : Alloc(i, k)
    \/ \E i \in Irqs, d \in Devs, k \in Kworks : Queue(i, d, k)
    \/ \E d \in Devs, k \in Kworks : Take(d, k) \/ Release(d, k)
    \/ \E d \in Devs : Abandon(d)

Spec == Init /\ [][Next]_vars

----------------------------------------------------------------------------
(* No work is in two places, so no two actors ever use one work at once.   *)
OnePlace ==
    /\ \A i \in Irqs : held[i] \cap pool = {}
    /\ \A d \in Devs : (queued[d] \cup running[d]) \cap pool = {}
    /\ \A i \in Irqs, d \in Devs : held[i] \cap (queued[d] \cup running[d]) = {}
    /\ \A i, j \in Irqs : i # j => held[i] \cap held[j] = {}
    /\ \A d \in Devs : queued[d] \cap running[d] = {}
    /\ \A d, e \in Devs :
           d # e => (queued[d] \cup running[d]) \cap (queued[e] \cup running[e]) = {}
=============================================================================
