------------------------------- MODULE Capture -------------------------------
(***************************************************************************)
(* What the module promises its user: the frames of a device are numbered  *)
(* in the order of their reception, and listeners get them in that order.  *)
(* A frame that waits is sent to some endpoints, to none perhaps, before   *)
(* any later one of its device is, and never after.                        *)
(***************************************************************************)
EXTENDS Naturals, Sequences

CONSTANTS
    Devs,       \* devices
    Targets,    \* endpoints
    CTR_MOD,    \* 2^32: the numbers are u32
    NULL

VARIABLES
    count,      \* per device, the number of the last frame
    waiting,    \* per device, the numbers of the frames that wait
    wire        \* the datagram that was sent last

vars == <<count, waiting, wire>>

Init ==
    /\ count = [d \in Devs |-> 0]
    /\ waiting = [d \in Devs |-> <<>>]
    /\ wire = [dev |-> NULL, pktid |-> 0, to |-> NULL]

(* A frame arrives.                                                        *)
Arrive(d) ==
    /\ count' = [count EXCEPT ![d] = (@ + 1) % CTR_MOD]
    /\ waiting' = [waiting EXCEPT ![d] = Append(@, count'[d])]
    /\ UNCHANGED wire

(* The oldest frame goes to an endpoint.                                   *)
Emit(d, to) ==
    /\ waiting[d] # <<>>
    /\ wire' = [dev |-> d, pktid |-> Head(waiting[d]), to |-> to]
    /\ UNCHANGED <<count, waiting>>

(* It has been everywhere.                                                 *)
Done(d) ==
    /\ waiting[d] # <<>>
    /\ waiting' = [waiting EXCEPT ![d] = Tail(@)]
    /\ UNCHANGED <<count, wire>>

(* The device is removed, with the frames that wait.                       *)
Down(d) ==
    /\ count' = [count EXCEPT ![d] = 0]
    /\ waiting' = [waiting EXCEPT ![d] = <<>>]
    /\ UNCHANGED wire

Next ==
    \E d \in Devs :
        \/ Arrive(d)
        \/ \E to \in Targets : Emit(d, to)
        \/ Done(d)
        \/ Down(d)

Spec == Init /\ [][Next]_vars
=============================================================================
