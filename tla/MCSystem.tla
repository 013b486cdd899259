------------------------------ MODULE MCSystem ------------------------------
(***************************************************************************)
(* A small instance of System: one process brings a device up, another one *)
(* writes a listener, a rule and a filter, then another listener or the    *)
(* end of the chain, and rmmod removes it all.                             *)
(***************************************************************************)
EXTENDS System, TLC

CONSTANTS mon0, d1, d2, i1, i2, w1, w2, f1, f2, f3, main, l1, l2, r1, r2, c1, c2, g1, g2

Home == [ip |-> <<1, 0, 2, 3>>, port |-> 1]
Away == [ip |-> <<0, 3, 1, 1>>, port |-> 2]
Homes == {Home, Away}

ASSUME HomesDotted == DottedQuads

DeviceLines ==
    [w \in Writers |-> IF w = Rmmod THEN {[first |-> "-", name |-> NULL]}
                       ELSE {[first |-> "+", name |-> mon0]}]
Once == [w \in Writers |-> 1]

ASSUME RemovalOrdered == OrderlyRemoval

AddListener(id, ep) == [file |-> "listeners", first |-> "", id |-> id, ep |-> ep]
AddForward(id, lid) ==
    [file |-> "rules", first |-> "", id |-> id, aid |-> "fwrd", arg |-> lid]
AddAll(id, rid) ==
    [file |-> "filters", first |-> "", name |-> main, id |-> id, type |-> "all",
     rid |-> rid, subtype |-> "any", size |-> NULL]
RemoveMain ==
    [file |-> "filters", first |-> "-", name |-> main, id |-> 0, type |-> "none",
     rid |-> 0, subtype |-> "none", size |-> NULL]
Exit(entry) == [file |-> "exit", first |-> entry]

Configure ==
    {[w \in Users |->
        IF w = Rmmod THEN <<Exit("lclear"), Exit("rclear"), Exit("cclear")>>
        ELSE <<AddListener(1, Home), AddForward(1, 1), AddAll(1, 1)>> \o s] :
     s \in {<<RemoveMain>>, <<AddListener(2, Away)>>}}

(* What the theorem about safe walks assumes: until rmmod the lists grow.  *)
FI == INSTANCE ForwardingInv WITH
    Names <- ChainNames, Writers <- Users, Script <- Lines, Threads <- Devs, Frames <- 1,
    Lens <- {n + HDRLEN : n \in Lens} \cup {NULL}, wpc <- vpc, wptr <- vptr

ASSUME UsersShareLists == FI!ListsAlone(Lines)

ASSUME UsersBuildUp == FI!BuildsUp(Lines, Users \ {Rmmod}) /\ FI!TypesKnown

(* Frames are alike.                                                       *)
Symmetric == Permutations(Frames)
=============================================================================
