------------------------------ MODULE KworkTbl ------------------------------
(***************************************************************************)
(* The table of work structures of device.c: rtap_kwork_tbl, a stack of    *)
(* free works kept in the array freelist, of which the first               *)
(* freelist_index entries are in use.  Works are named by their index in   *)
(* the array data, from 1.  rtap_device_kwork_alloc runs in the softirq    *)
(* handler, takes the lock, pops and releases it, and nothing can run      *)
(* between on that CPU: it is one action.  rtap_device_kwork_free runs in  *)
(* a kernel thread that a softirq may interrupt while it holds the lock,   *)
(* so taking the lock and the critical section are two actions.            *)
(***************************************************************************)
EXTENDS Naturals

CONSTANTS
    KWORK_MAX,    \* RTAP_DEVICE_KWORK_MAX
    NULL          \* the null pointer

Kworks == 1 .. KWORK_MAX

ASSUME KworkAssumption ==
    /\ KWORK_MAX \in Nat
    /\ NULL \notin Kworks

VARIABLES
    freelist,         \* rtap_kwork_tbl.freelist
    freelist_index,   \* rtap_kwork_tbl.freelist_index
    tbllock           \* owner of rtap_kwork_tbl.lock, or NULL

tblVars == <<freelist, freelist_index, tbllock>>

Slots == 0 .. KWORK_MAX - 1

(* rtap_device_init: slot i points at data[i], every slot is in use.       *)
TblInit ==
    /\ freelist = [s \in Slots |-> s + 1]
    /\ freelist_index = KWORK_MAX
    /\ tbllock = NULL

(* The works that the table hands out next.                                *)
Pool == {freelist[s] : s \in 0 .. freelist_index - 1}

----------------------------------------------------------------------------
(* rtap_device_kwork_alloc: k is the value it returns.                     *)
PopWithoutDecrement(k) ==
    /\ freelist_index > 0
    /\ k = freelist[freelist_index - 1]
    /\ UNCHANGED <<freelist, freelist_index>>

PopKeepsSlot(k) ==
    /\ freelist_index > 0
    /\ k = freelist[freelist_index - 1]
    /\ freelist_index' = freelist_index - 1
    /\ UNCHANGED freelist

PopWork(k) ==
    /\ freelist_index > 0
    /\ k = freelist[freelist_index - 1]
    /\ freelist_index' = freelist_index - 1
    /\ freelist' = [freelist EXCEPT ![freelist_index - 1] = NULL]

PopNothing(k) ==
    /\ freelist_index = 0
    /\ k = NULL
    /\ UNCHANGED <<freelist, freelist_index>>

KworkAlloc(k) ==
    /\ tbllock = NULL
    /\ PopWork(k) \/ PopNothing(k)
    /\ UNCHANGED tbllock

(* rtap_device_kwork_free by thread t.                                     *)
KworkFreeLock(t) ==
    /\ tbllock = NULL
    /\ tbllock' = t
    /\ UNCHANGED <<freelist, freelist_index>>

KworkFreeOverwrites(t, k) ==
    /\ tbllock = t
    /\ freelist' = [freelist EXCEPT ![freelist_index] = k]
    /\ UNCHANGED freelist_index
    /\ tbllock' = NULL

KworkFree(t, k) ==
    /\ tbllock = t
    /\ freelist' = [freelist EXCEPT ![freelist_index] = k]
    /\ freelist_index' = freelist_index + 1
    /\ tbllock' = NULL

----------------------------------------------------------------------------
(* The slots in use hold distinct works and the others hold NULL: an alloc *)
(* never returns NULL for a slot in use, nor the same work twice, and a    *)
(* free never writes past the end of freelist.                             *)
FreelistOK ==
    /\ freelist_index <= KWORK_MAX
    /\ \A s \in Slots : s >= freelist_index <=> freelist[s] = NULL
    /\ \A s, t \in 0 .. freelist_index - 1 : freelist[s] = freelist[t] => s = t
=============================================================================
