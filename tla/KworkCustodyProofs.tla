------------------------- MODULE KworkCustodyProofs -------------------------
(***************************************************************************)
(* The circulation of works keeps every work in one place.                 *)
(***************************************************************************)
EXTENDS KworkCustody, TLAPS

(* The variables range over sets of works.                                 *)
CustodyType ==
    /\ pool \subseteq Kworks
    /\ held \in [Irqs -> SUBSET Kworks]
    /\ queued \in [Devs -> SUBSET Kworks]
    /\ running \in [Devs -> SUBSET Kworks]

(* Every reachable state of the circulation is well typed.                 *)
LEMMA CustodyTyped == Spec => []CustodyType
<1>1. Init => CustodyType
  BY DEF Init, CustodyType
<1>2. CustodyType /\ [Next]_vars => CustodyType'
  BY DEF CustodyType, Next, vars, Alloc, Queue, Take, Release, Abandon
<1>. QED
  BY <1>1, <1>2, PTL DEF Spec

(* A step that takes a work from where it is puts it in one other place.   *)
LEMMA OnePlaceStep ==
    ASSUME CustodyType, OnePlace, [Next]_vars
    PROVE  OnePlace'
<1>. USE DEF CustodyType, OnePlace
<1>1. ASSUME NEW i \in Irqs, NEW k \in Kworks, Alloc(i, k) PROVE OnePlace'
  BY <1>1 DEF Alloc
<1>2. ASSUME NEW i \in Irqs, NEW d \in Devs, NEW k \in Kworks, Queue(i, d, k)
      PROVE OnePlace'
  BY <1>2 DEF Queue
<1>3. ASSUME NEW d \in Devs, NEW k \in Kworks, Take(d, k) PROVE OnePlace'
  BY <1>3 DEF Take
<1>4. ASSUME NEW d \in Devs, NEW k \in Kworks, Release(d, k) PROVE OnePlace'
  BY <1>4 DEF Release
<1>5. ASSUME NEW d \in Devs, Abandon(d) PROVE OnePlace'
  BY <1>5 DEF Abandon
<1>6. CASE UNCHANGED vars
  BY <1>6 DEF vars
<1>. QED
  BY <1>1, <1>2, <1>3, <1>4, <1>5, <1>6 DEF Next

(* A work is free, or held by one receive handler, or queued on one device,*)
(* or run by one thread, and never two of these.                           *)
THEOREM CustodyOnePlace == Spec => []OnePlace
<1>1. Init => OnePlace
  BY DEF Init, OnePlace
<1>2. CustodyType /\ OnePlace /\ [Next]_vars => OnePlace'
  BY OnePlaceStep
<1>. QED
  BY <1>1, <1>2, CustodyTyped, PTL DEF Spec

----------------------------------------------------------------------------
(* Where a work is lost *)

(* A work is in one of the places of the circle.                           *)
HasPlace(k) ==
    \/ k \in pool
    \/ \E i \in Irqs : k \in held[i]
    \/ \E d \in Devs : k \in queued[d] \cup running[d]

(* A step round the circle: any but Abandon.                               *)
Circle ==
    \/ \E i \in Irqs, k \in Kworks : Alloc(i, k)
    \/ \E i \in Irqs, d \in Devs, k \in Kworks : Queue(i, d, k)
    \/ \E d \in Devs, k \in Kworks : Take(d, k) \/ Release(d, k)

(* A step round the circle loses no work, and finds none again.            *)
LEMMA CircleKeeps ==
    ASSUME CustodyType, Circle, NEW k \in Kworks
    PROVE  HasPlace(k)' <=> HasPlace(k)
<1>. USE DEF CustodyType, HasPlace
<1>1. ASSUME NEW i \in Irqs, NEW l \in Kworks, Alloc(i, l)
      PROVE  HasPlace(k)' <=> HasPlace(k)
  BY <1>1 DEF Alloc
<1>2. ASSUME NEW i \in Irqs, NEW d \in Devs, NEW l \in Kworks, Queue(i, d, l)
      PROVE  HasPlace(k)' <=> HasPlace(k)
  BY <1>2 DEF Queue
<1>3. ASSUME NEW d \in Devs, NEW l \in Kworks, Take(d, l)
      PROVE  HasPlace(k)' <=> HasPlace(k)
  BY <1>3 DEF Take
<1>4. ASSUME NEW d \in Devs, NEW l \in Kworks, Release(d, l)
      PROVE  HasPlace(k)' <=> HasPlace(k)
  BY <1>4 DEF Release
<1>. QED
  BY <1>1, <1>2, <1>3, <1>4 DEF Circle

(* Abandon loses the works of one device, and no others.                   *)
LEMMA AbandonLoses ==
    ASSUME CustodyType, NEW d \in Devs, Abandon(d), NEW k \in Kworks
    PROVE  /\ HasPlace(k)' => HasPlace(k)
           /\ HasPlace(k) /\ k \notin queued[d] \cup running[d] => HasPlace(k)'
BY DEF CustodyType, HasPlace, Abandon
=============================================================================
