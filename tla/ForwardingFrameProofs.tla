------------------------- MODULE ForwardingFrameProofs -------------------------
(***************************************************************************)
(* What becomes of a frame in Forwarding.  Filters that one process writes *)
(* in the order of their identifiers see it in that order.  And where      *)
(* nothing is removed while something points at it, it goes to the         *)
(* addresses that were written for the filters that take it, and nowhere   *)
(* else.                                                                   *)
(***************************************************************************)
EXTENDS ForwardingProofs

----------------------------------------------------------------------------
(* The order of the filters *)

(* The hits of a walk are no filter that a process has still in its hands, *)
(* and those that are still listed were met in the order of their list.    *)
HitsKept(t) ==
    \A j \in DOMAIN hits[t] :
        /\ fdata[hits[t][j]] # NULL
        /\ \A w \in Writers : FilterMade[w] # hits[t][j]

HitsInOrder(t) ==
    \A c \in Chains : \A j, k \in DOMAIN hits[t] : \A m, n \in DOMAIN FiltersOf(c) :
        j < k /\ hits[t][j] = FiltersOf(c)[m] /\ hits[t][k] = FiltersOf(c)[n] => m < n

HitsInv == \A t \in Threads : HitsKept(t) /\ HitsInOrder(t)

(* A filter that is listed is allocated, and in the hands of nobody.       *)
LEMMA ListedFilter ==
    ASSUME ObjectTypes, ListsSound, NEW c \in Chains, NEW n \in DOMAIN FiltersOf(c)
    PROVE  /\ FiltersOf(c)[n] \in Filters /\ fdata[FiltersOf(c)[n]] \in FilterRecs
           /\ fdata[FiltersOf(c)[n]] # NULL
           /\ \A w \in Writers : FilterMade[w] # FiltersOf(c)[n]
<1>1. FiltersOf(c)[n] \in Filters
  BY FiltersTyped
<1>2. /\ fdata[FiltersOf(c)[n]] # NULL
      /\ \A w \in Writers : FilterMade[w] # FiltersOf(c)[n]
  BY DEF ListsSound, FiltersListedOnce
<1>3. fdata[FiltersOf(c)[n]] \in FilterRecs
  BY <1>1, <1>2 DEF ObjectTypes
<1>. QED
  BY <1>1, <1>2, <1>3

(* What a step of a writer does to the lists of filters: it frees a chain, *)
(* or makes one that is empty, or puts its filter behind the last.         *)
LEMMA ChainFilters ==
    ASSUME ObjectTypes, WriterTypes, MadeKinds, NEW w \in Writers, Start(w) \/ WriterStep(w),
           NEW c \in Chains
    PROVE  \/ FiltersOf(c)' \in {FiltersOf(c), <<>>}
           \/ /\ FilterAdd(w) /\ c = wptr[w] /\ cdata[c] # NULL
              /\ FiltersOf(c)' = Append(FiltersOf(c), wobj[w])
<1>1. DOMAIN cdata = Chains /\ cdata[c] \in ChainRecs \cup {NULL} /\ w \in DOMAIN wpc
  BY DEF ObjectTypes, WriterTypes
<1>2. ASSUME cdata'[c] = cdata[c] PROVE FiltersOf(c)' = FiltersOf(c)
  BY <1>2 DEF FiltersOf
<1>3. ASSUME cdata'[c] = NULL PROVE FiltersOf(c)' = <<>>
  BY <1>3 DEF FiltersOf
<1>4. CASE ChainFind(w)
  <2>1. \/ cdata' = cdata
        \/ \E new \in Chains : \E name :
               cdata' = [cdata EXCEPT ![new] = [name |-> name, filters |-> <<>>]]
    BY <1>4 DEF ChainFind
  <2>2. ASSUME NEW new \in Chains, NEW name,
               cdata' = [cdata EXCEPT ![new] = [name |-> name, filters |-> <<>>]]
        PROVE  FiltersOf(c)' \in {FiltersOf(c), <<>>}
    <3>1. CASE c = new
      <4>1. cdata'[c] = [name |-> name, filters |-> <<>>]
        BY <1>1, <2>2, <3>1
      <4>2. cdata'[c].filters = <<>>
        BY <4>1
      <4>. QED
        BY <4>2 DEF FiltersOf
    <3>2. CASE c # new
      BY <1>1, <1>2, <2>2, <3>2
    <3>. QED
      BY <3>1, <3>2
  <2>. QED
    BY <1>2, <2>1, <2>2
<1>5. CASE FilterAdd(w)
  <2>1. CASE cdata' = cdata
    BY <1>2, <2>1
  <2>2. CASE cdata' # cdata
    <3>1. /\ cdata[wptr[w]] # NULL
          /\ cdata' = [cdata EXCEPT ![wptr[w]].filters = Append(@, wobj[w])]
      BY <1>5, <2>2 DEF FilterAdd, PutLast
    <3>2. CASE c # wptr[w]
      BY <1>1, <1>2, <3>1, <3>2
    <3>3. CASE c = wptr[w]
      <4>1. cdata[c] \in ChainRecs /\ cdata[c] # NULL
        BY <1>1, <3>1, <3>3
      <4>2. cdata'[c] = [cdata[c] EXCEPT !.filters = Append(@, wobj[w])]
        BY <1>1, <3>1, <3>3
      <4>3. cdata'[c].filters = Append(cdata[c].filters, wobj[w])
        BY <4>1, <4>2 DEF ChainRecs
      <4>. QED
        BY <1>5, <3>3, <4>1, <4>2, <4>3 DEF FiltersOf
    <3>. QED
      BY <3>2, <3>3
  <2>. QED
    BY <2>1, <2>2
<1>6. CASE ChainRemove(w) \/ ChainClear(w)
  <2>1. \E cs : cdata' = Clear(cdata, cs)
    BY <1>6 DEF ChainRemove, ChainClear
  <2>2. cdata'[c] \in {cdata[c], NULL}
    BY <1>1, <2>1 DEF Clear
  <2>. QED
    BY <1>2, <1>3, <2>2
<1>7. CASE ~ (ChainFind(w) \/ FilterAdd(w) \/ ChainRemove(w) \/ ChainClear(w))
  <2>1. cdata' = cdata
    BY <1>7 DEF Start, WriterStep, ListenerCreate, ListenerSet, ListenerFind, ListenerRemove,
       ListenerAdd, ListenerClear, ListenerShow, RuleCreate, RuleTarget, RuleFind,
       RuleRemove, RuleAdd, RuleClear, RuleShow, NothingCreated, NoFilterCreated,
       NoChainCreated, FilterCreate, ChainAdd, FilterSet, FilterShow, objVars
  <2>. QED
    BY <1>2, <2>1
<1>. QED
  BY <1>4, <1>5, <1>6, <1>7

(* What a writer has in its hands after a step it had before, or it was    *)
(* free.                                                                   *)
LEMMA MadeStep ==
    ASSUME ForwardingAssumption, ScriptAssumption, ObjectTypes, WriterTypes, MadeKinds,
           NEW w \in Writers, Start(w) \/ WriterStep(w), NEW v \in Writers
    PROVE  FilterMade'[v] \in {FilterMade[v], NULL} \/ fdata[FilterMade'[v]] = NULL
<1>1. /\ w \in DOMAIN wpc /\ w \in DOMAIN wobj
      /\ FilterMade = [u \in Writers |->
             IF wpc[u] \in {"cfind", "cadd", "frule", "fadd"} THEN wobj[u] ELSE NULL]
      /\ FilterMade' = [u \in Writers |->
             IF wpc'[u] \in {"cfind", "cadd", "frule", "fadd"} THEN wobj'[u] ELSE NULL]
  BY DEF WriterTypes, FilterMade
<1>2. CASE v # w
  <2>1. wpc'[v] = wpc[v] /\ wobj'[v] = wobj[v]
    BY <1>2, WriterFrame DEF WriterTypes
  <2>. QED
    BY <1>1, <2>1
<1>3. CASE /\ v = w
           /\ wpc[w] \notin {"fcreate", "cfind", "cadd", "frule", "fadd", "cremove", "cclear"}
  BY <1>1, <1>3, Elsewhere DEF FiltersAlone
<1>4. CASE v = w /\ FilterCreate(w)
  <2>1. PICK f \in Filters : fdata[f] = NULL /\ wobj' = [wobj EXCEPT ![w] = f]
    BY <1>4 DEF FilterCreate
  <2>. QED
    BY <1>1, <1>4, <2>1
<1>5. CASE /\ v = w /\ ~ FilterCreate(w)
           /\ wpc[w] \in {"fcreate", "cfind", "cadd", "frule", "fadd", "cremove", "cclear"}
  <2>1. \A pc : Goto(w, pc) => wpc'[w] = pc
    BY <1>1 DEF Goto
  <2>2. Finish(w) => wpc'[w] = "idle"
    BY <1>1 DEF Finish, Goto
  <2>3. wpc[w] = "fcreate" => wobj[w] = NULL
    BY DEF MadeKinds, MadeOf
  <2>4. wpc'[w] \in {"idle", "oops"} \/ wobj' = wobj
    BY <1>5, <2>1, <2>2 DEF Start, WriterStep, ListenerCreate, ListenerSet, ListenerFind,
       ListenerRemove, ListenerAdd, ListenerClear, ListenerShow, RuleCreate, RuleTarget,
       RuleFind, RuleRemove, RuleAdd, RuleClear, RuleShow, NothingCreated, NoFilterCreated,
       NoChainCreated, ChainFind, ChainAdd, FilterSet, FilterAdd, ChainRemove, ChainClear,
       FilterShow
  <2>5. wpc[w] \in {"cremove", "cclear"} => wpc'[w] = "idle"
    BY <1>5, <2>2 DEF Start, WriterStep, ListenerCreate, ListenerSet, ListenerFind,
       ListenerRemove, ListenerAdd, ListenerClear, ListenerShow, RuleCreate, RuleTarget,
       RuleFind, RuleRemove, RuleAdd, RuleClear, RuleShow, NothingCreated, NoFilterCreated,
       NoChainCreated, ChainFind, ChainAdd, FilterSet, FilterAdd, ChainRemove, ChainClear,
       FilterShow
  <2>. QED
    BY <1>1, <1>5, <2>3, <2>4, <2>5
<1>. QED
  BY <1>2, <1>3, <1>4, <1>5

(* A step of a writer: the filters that have been hit are neither freed nor*)
(* listed again, and their lists only grow.                                *)
LEMMA WriterHits ==
    ASSUME ForwardingAssumption, ScriptAssumption, ObjectTypes, WriterTypes, ThreadTypes,
           MadeKinds, ListsSound, NEW w \in Writers, Start(w) \/ WriterStep(w),
           UNCHANGED thrVars, NEW t \in Threads, HitsKept(t), HitsInOrder(t)
    PROVE  HitsKept(t)' /\ HitsInOrder(t)'
<1>1. hits' = hits /\ hits[t] \in Seq(Filters)
  BY DEF thrVars, ThreadTypes
<1>2. ASSUME NEW j \in DOMAIN hits[t]
      PROVE  /\ fdata'[hits[t][j]] # NULL
             /\ \A v \in Writers : FilterMade'[v] # hits[t][j]
  <2>1. PICK f \in Filters : f = hits[t][j]
    BY <1>1
  <2>2. fdata[f] # NULL /\ f # NULL /\ \A v \in Writers : FilterMade[v] # f
    BY <2>1 DEF HitsKept, ForwardingAssumption
  <2>3. wpc[w] = "frule" => FilterMade[w] = wobj[w]
    BY DEF FilterMade
  <2>4. fdata'[f] = fdata[f]
    BY <2>2, <2>3, FiltersChanged
  <2>5. \A v \in Writers : FilterMade'[v] # f
    BY <2>2, MadeStep
  <2>. QED
    BY <2>1, <2>2, <2>4, <2>5
<1>3. ASSUME NEW c \in Chains, NEW j \in DOMAIN hits[t], NEW k \in DOMAIN hits[t],
             NEW m \in DOMAIN FiltersOf(c)', NEW n \in DOMAIN FiltersOf(c)',
             j < k, hits[t][j] = FiltersOf(c)'[m], hits[t][k] = FiltersOf(c)'[n]
      PROVE  m < n
  <2>1. CASE FiltersOf(c)' = FiltersOf(c)
    BY <1>3, <2>1 DEF HitsInOrder
  <2>2. CASE FiltersOf(c)' = <<>>
    BY <1>3, <2>2
  <2>3. CASE FilterAdd(w) /\ FiltersOf(c)' = Append(FiltersOf(c), wobj[w])
    <3>1. FilterMade[w] = wobj[w] /\ wobj[w] \in Filters
      BY <2>3 DEF FilterAdd, FilterMade, MadeKinds, MadeOf
    <3>2. \A i \in DOMAIN hits[t] : hits[t][i] # wobj[w]
      BY <3>1 DEF HitsKept
    <3>. DEFINE s == FiltersOf(c)
                x == wobj[w]
    <3>3. s \in Seq(Filters) /\ x \in Filters
      BY <3>1, FiltersTyped
    <3>4. FiltersOf(c)' = Append(s, x)
      BY <2>3
    <3>. HIDE DEF s, x
    <3>5. \A i \in DOMAIN Append(s, x) :
              Append(s, x)[i] # x => i \in DOMAIN s /\ Append(s, x)[i] = s[i]
      BY <3>3, AppendProperties
    <3>6. /\ m \in DOMAIN s /\ hits[t][j] = s[m]
          /\ n \in DOMAIN s /\ hits[t][k] = s[n]
      BY <1>3, <3>2, <3>4, <3>5 DEF x
    <3>. QED
      BY <1>3, <3>6 DEF s, HitsInOrder
  <2>. QED
    BY <2>1, <2>2, <2>3, ChainFilters
<1>4. HitsKept(t)'
  BY <1>1, <1>2 DEF HitsKept
<1>5. HitsInOrder(t)'
  BY <1>1, <1>3 DEF HitsInOrder
<1>. QED
  BY <1>4, <1>5

(* What a walk has hit when it comes to a filter stands before that filter.*)
LEMMA EarlierHits ==
    ASSUME ForwardingAssumption, ObjectTypes, ListsSound, NEW t \in Threads, OnList(t),
           Progress(t), fpc[t] = "visit", NEW i \in DOMAIN hits[t], NEW c \in Chains,
           NEW m \in DOMAIN FiltersOf(c), NEW n \in DOMAIN FiltersOf(c),
           hits[t][i] = FiltersOf(c)[m],
           FiltersOf(fpos[t][1])[fpos[t][2]] = FiltersOf(c)[n]
    PROVE  m < n
<1>1. /\ FilterLists(Lists)
      /\ \A a, b \in DOMAIN chains : chains[a] = chains[b] => a = b
  BY ListsOrdered
<1>2. PICK a \in DOMAIN chains : /\ chains[a] = fpos[t][1]
                                 /\ SoFar(Lists, due[t], hits[t], a, fpos[t][2], "visit", ftmp[t])
  BY DEF Progress, Walking
<1>3. /\ \A b \in DOMAIN chains : chains[b] \in Chains /\ Lists[b] = FiltersOf(chains[b])
      /\ DOMAIN Lists = DOMAIN chains
  BY DEF ObjectTypes, Lists
<1>4. fpos[t][2] \in DOMAIN Lists[a]
  BY <1>2, <1>3 DEF OnList
<1>5. \A d, e \in Chains : \A j \in DOMAIN FiltersOf(d), k \in DOMAIN FiltersOf(e) :
          FiltersOf(d)[j] = FiltersOf(e)[k] => d = e /\ j = k
  BY DEF ListsSound, FiltersListedOnce
<1>6. chains[a] = c /\ fpos[t][2] = n
  BY <1>2, <1>3, <1>4, <1>5
<1>7. Precedes(Lists, hits[t][i], Lists[a][fpos[t][2]])
  BY <1>2 DEF SoFar
<1>8. PICK b \in DOMAIN Lists : \E j \in DOMAIN Lists[b] :
          Lists[b][j] = hits[t][i] /\ Ahead(b, j, a, fpos[t][2])
  BY <1>1, <1>3, <1>4, <1>7, PrecedesPlace
<1>9. PICK j \in DOMAIN Lists[b] : Lists[b][j] = hits[t][i] /\ Ahead(b, j, a, fpos[t][2])
  BY <1>8
<1>10. chains[b] = c /\ j = m
  BY <1>3, <1>5, <1>9
<1>11. b = a
  BY <1>1, <1>3, <1>6, <1>10
<1>12. a \in Nat
  BY DEF ObjectTypes
<1>. QED
  BY <1>6, <1>9, <1>10, <1>11, <1>12 DEF Ahead

(* A step of a thread: the filter that it visits comes after those of its  *)
(* chain that have been hit.                                               *)
LEMMA ThreadHits ==
    ASSUME ForwardingAssumption, ObjectAssumption, ScriptAssumption, ObjectTypes, ThreadTypes,
           ListsSound, NEW t \in Threads, OnList(t), PointerOK(t), Progress(t), ThreadNext(t),
           NEW u \in Threads, HitsKept(u), HitsInOrder(u)
    PROVE  HitsKept(u)' /\ HitsInOrder(u)'
<1>1. ThreadDoes(t)
  BY ThreadStep
<1>2. /\ cdata' = cdata /\ FilterMade' = FilterMade
      /\ \A f \in Filters : fdata'[f] = NULL <=> fdata[f] = NULL
  <2>1. UNCHANGED <<cdata, wrVars>> /\ Counted
    BY <1>1 DEF ThreadDoes
  <2>2. FilterMade' = FilterMade
    BY <2>1 DEF wrVars, FilterMade
  <2>. QED
    BY <2>1, <2>2, CountedKept
<1>3. /\ DOMAIN hits = Threads /\ hits[u] \in Seq(Filters)
      /\ \A c : FiltersOf(c)' = FiltersOf(c)
  BY <1>2 DEF ThreadTypes, FiltersOf
<1>4. CASE hits'[u] = hits[u]
  <2>1. HitsKept(u)'
    <3>1. \A j \in DOMAIN hits[u] : hits[u][j] \in Filters
      BY <1>3
    <3>. QED
      BY <1>2, <1>4, <3>1 DEF HitsKept
  <2>2. HitsInOrder(u)'
    BY <1>3, <1>4 DEF HitsInOrder
  <2>. QED
    BY <2>1, <2>2
<1>5. CASE hits'[u] = <<>>
  BY <1>5 DEF HitsKept, HitsInOrder
<1>6. ASSUME u = t, fpc[t] = "visit", NEW f,
             f = FiltersOf(fpos[t][1])[fpos[t][2]], hits'[t] = Append(hits[t], f)
      PROVE  HitsKept(u)' /\ HitsInOrder(u)'
  <2>1. fpos[t][1] \in Chains /\ fpos[t][2] \in DOMAIN FiltersOf(fpos[t][1])
    BY <1>6 DEF OnList, ObjectTypes, ToSet
  <2>2. f \in Filters /\ fdata[f] # NULL /\ \A w \in Writers : FilterMade[w] # f
    BY <1>6, <2>1, ListedFilter
  <2>. DEFINE s == hits[t]
              s2 == Append(s, f)
  <2>3. /\ s \in Seq(Filters) /\ hits'[u] = s2 /\ hits[u] = s
        /\ DOMAIN s = 1 .. Len(s) /\ Len(s) \in Nat
    BY <1>3, <1>6
  <2>. HIDE DEF s
  <2>4. /\ DOMAIN s2 = 1 .. Len(s) + 1
        /\ \A j \in 1 .. Len(s) + 1 : s2[j] = IF j = Len(s) + 1 THEN f ELSE s[j]
    BY <2>2, <2>3, AppendMembers
  <2>. HIDE DEF s2
  <2>5. HitsKept(u)'
    <3>1. \A j \in DOMAIN s : /\ s[j] \in Filters /\ fdata[s[j]] # NULL
                              /\ \A w \in Writers : FilterMade[w] # s[j]
      BY <2>3 DEF HitsKept
    <3>2. \A j \in DOMAIN s2 : s2[j] = f \/ (j \in DOMAIN s /\ s2[j] = s[j])
      BY <2>3, <2>4
    <3>3. \A j \in DOMAIN s2 : /\ fdata'[s2[j]] # NULL
                               /\ \A w \in Writers : FilterMade'[w] # s2[j]
      BY <1>2, <2>2, <3>1, <3>2
    <3>. QED
      BY <2>3, <3>3 DEF HitsKept
  <2>6. ASSUME NEW c \in Chains, NEW j \in DOMAIN s2, NEW k \in DOMAIN s2,
               NEW m \in DOMAIN FiltersOf(c), NEW n \in DOMAIN FiltersOf(c),
               j < k, s2[j] = FiltersOf(c)[m], s2[k] = FiltersOf(c)[n]
        PROVE  m < n
    <3>1. j \in DOMAIN s /\ s2[j] = s[j] /\ ((k \in DOMAIN s /\ s2[k] = s[k]) \/ s2[k] = f)
      BY <2>3, <2>4, <2>6
    <3>2. CASE k \in DOMAIN s /\ s2[k] = s[k]
      BY <2>3, <2>6, <3>1, <3>2 DEF HitsInOrder
    <3>3. CASE s2[k] = f
      <4>1. j \in DOMAIN hits[t] /\ hits[t][j] = FiltersOf(c)[m]
        BY <2>6, <3>1 DEF s
      <4>2. fpc[t] = "visit" /\ FiltersOf(fpos[t][1])[fpos[t][2]] = FiltersOf(c)[n]
        BY <1>6, <2>6, <3>3
      <4>. HIDE DEF s
      <4>. QED
        BY <4>1, <4>2, EarlierHits
    <3>. QED
      BY <3>1, <3>2, <3>3
  <2>7. HitsInOrder(u)'
    BY <1>3, <2>3, <2>6 DEF HitsInOrder
  <2>. QED
    BY <2>5, <2>7
<1>7. \/ hits'[u] = hits[u]
      \/ hits'[u] = <<>>
      \/ /\ u = t /\ fpc[t] = "visit"
         /\ hits'[t] = Append(hits[t], FiltersOf(fpos[t][1])[fpos[t][2]])
  <2>1. CASE \E n \in Lens : Receive(t, n)
    BY <1>3, <2>1 DEF Receive
  <2>2. CASE Visit(t)
    BY <1>3, <2>2 DEF Visit
  <2>3. CASE Walk(t) \/ Invoke(t) \/ Send(t)
    BY <2>3 DEF Walk, Invoke, Send
  <2>. QED
    BY <2>1, <2>2, <2>3 DEF ThreadNext
<1>. QED
  BY <1>4, <1>5, <1>6, <1>7

(* The hits of the walks: every step keeps them so.                        *)
LEMMA NextHits ==
    ForwardingAssumption /\ ScriptAssumption /\ ObjectAssumption
        /\ FwdInv /\ WalksProgress /\ HitsInv /\ [Next]_vars => HitsInv'
<1>. SUFFICES ASSUME ForwardingAssumption, ScriptAssumption, ObjectAssumption,
                     FwdInv, WalksProgress, HitsInv, [Next]_vars, NEW u \in Threads
              PROVE  HitsKept(u)' /\ HitsInOrder(u)'
  BY DEF HitsInv
<1>1. /\ ObjectTypes /\ WriterTypes /\ ThreadTypes /\ MadeKinds /\ ListsSound
      /\ HitsKept(u) /\ HitsInOrder(u)
  BY DEF FwdInv, TypeOK, HitsInv
<1>2. CASE UNCHANGED vars
  BY <1>1, <1>2 DEF vars, objVars, wrVars, thrVars, HitsKept, HitsInOrder, FiltersOf,
     FilterMade
<1>3. ASSUME NEW w \in Writers, Start(w) \/ WriterStep(w)
      PROVE  HitsKept(u)' /\ HitsInOrder(u)'
  <2>1. UNCHANGED thrVars
    BY <1>1, <1>3, WriterFrame
  <2>. QED
    BY <1>1, <1>3, <2>1, WriterHits
<1>4. ASSUME NEW t \in Threads, ThreadNext(t)
      PROVE  HitsKept(u)' /\ HitsInOrder(u)'
  <2>1. OnList(t) /\ PointerOK(t) /\ Progress(t)
    BY DEF FwdInv, WalkOnList, WalkPointers, OnList, PointerOK, WalksProgress
  <2>. QED
    BY <1>1, <1>4, <2>1, ThreadHits
<1>. QED
  BY <1>2, <1>3, <1>4 DEF Next

(* Chains have names of their own.                                         *)
NamesApart == \A c, d \in ToSet(chains) : cdata[c].name = cdata[d].name => c = d

(* The process that writes a filter has the chain of its line, a new one   *)
(* only if there was none, and gives the filter its identifier.            *)
NamedAt(w) ==
    /\ wpc[w] \in {"cadd", "frule", "fadd"} =>
           cdata[wptr[w]] # NULL /\ cdata[wptr[w]].name = wline[w].name
    /\ wpc[w] = "cadd" =>
           /\ cdata[wptr[w]].filters = <<>>
           /\ \A c \in ToSet(chains) : cdata[c].name # wline[w].name
    /\ wpc[w] \in {"cfind", "cadd", "frule", "fadd"} /\ wobj[w] # NULL =>
           fdata[wobj[w]].fid = wline[w].id

(* A line that removes chains has nothing else to do.                      *)
RemovesAt(w) ==
    wpc[w] # "idle" /\ Entry(wline[w]) \in {"cremove", "cclear"} => wpc[w] = Entry(wline[w])

(* Every filter of the chain that a line is about has a smaller identifier.*)
Limit(line) ==
    \A c \in ToSet(chains) : cdata[c].name = line.name =>
        \A f \in ToSet(FiltersOf(c)) : fdata[f].fid <= line.id

(* No line before line k takes the chain of that name away.                *)
Spares(lines, k, name) == \A i \in DOMAIN lines : i < k => ~ Removes(lines[i], name)

LimitsOK(w) ==
    \A k \in DOMAIN ToDo[w] :
        Entry(ToDo[w][k]) = "fcreate" /\ Spares(ToDo[w], k, ToDo[w][k].name)
            => Limit(ToDo[w][k])

(* The lists are in the order of the identifiers.                          *)
Sorted ==
    \A c \in ToSet(chains) : \A m, n \in DOMAIN FiltersOf(c) :
        m < n => fdata[FiltersOf(c)[m]].fid <= fdata[FiltersOf(c)[n]].fid

OrderInv ==
    /\ NamesApart
    /\ \A w \in Writers : NamedAt(w) /\ RemovesAt(w) /\ LimitsOK(w) /\ Rises(ToDo[w])
    /\ Sorted

(* A chain that is listed is allocated.                                    *)
LEMMA ListedChain ==
    ASSUME ObjectTypes, ListsSound, NEW c \in ToSet(chains)
    PROVE  c \in Chains /\ cdata[c] # NULL /\ cdata[c] \in ChainRecs
<1>1. PICK j \in DOMAIN chains : chains[j] = c
  BY DEF ToSet
<1>2. c \in Chains /\ cdata[c] # NULL
  BY <1>1 DEF ObjectTypes, ListsSound, ListedOnce
<1>. QED
  BY <1>2 DEF ObjectTypes

(* rtap_chain_add alone lists a chain, and no step renames one.            *)
LEMMA NamesStand ==
    ASSUME ForwardingAssumption, ScriptAssumption, ObjectTypes, WriterTypes, MadeKinds,
           ListsSound, NEW w \in Writers, Start(w) \/ WriterStep(w), ~ ChainAdd(w),
           NEW c, c \in ToSet(chains')
    PROVE  c \in ToSet(chains) /\ cdata'[c].name = cdata[c].name
<1>1. DOMAIN cdata = Chains /\ chains \in Seq(Chains)
  BY DEF ObjectTypes
<1>2. CASE ChainFind(w)
  <2>1. c \in ToSet(chains)
    BY <1>2 DEF ChainFind
  <2>2. c \in Chains /\ cdata[c] # NULL
    BY <2>1, ListedChain
  <2>3. \/ cdata' = cdata
        \/ \E new \in Chains : \E x : cdata[new] = NULL /\ cdata' = [cdata EXCEPT ![new] = x]
    BY <1>2 DEF ChainFind
  <2>. QED
    BY <1>1, <2>1, <2>2, <2>3
<1>3. CASE FilterAdd(w)
  <2>1. c \in ToSet(chains)
    BY <1>3 DEF FilterAdd
  <2>2. c \in Chains /\ cdata[c] # NULL /\ cdata[c] \in ChainRecs
    BY <2>1, ListedChain
  <2>3. \/ cdata' = cdata
        \/ cdata' = [cdata EXCEPT ![wptr[w]].filters = Append(@, wobj[w])]
    BY <1>3 DEF FilterAdd, PutLast
  <2>4. ASSUME cdata' = [cdata EXCEPT ![wptr[w]].filters = Append(@, wobj[w])]
        PROVE  cdata'[c].name = cdata[c].name
    <3>1. CASE c = wptr[w]
      <4>1. cdata'[c] = [cdata[c] EXCEPT !.filters = Append(@, wobj[w])]
        BY <1>1, <2>2, <2>4, <3>1
      <4>. QED
        BY <2>2, <4>1 DEF ChainRecs
    <3>2. CASE c # wptr[w]
      BY <1>1, <2>2, <2>4, <3>2
    <3>. QED
      BY <3>1, <3>2
  <2>. QED
    BY <2>1, <2>3, <2>4
<1>4. CASE ChainRemove(w)
  <2>1. PICK x : chains' = Without(chains, x) /\ cdata' = Clear(cdata, {x})
    BY <1>4 DEF ChainRemove
  <2>2. \A j, k \in DOMAIN chains : chains[j] = chains[k] => j = k
    BY DEF ListsSound, ListedOnce
  <2>3. \A n \in DOMAIN chains' : \E m \in DOMAIN chains : chains[m] # x /\ chains'[n] = chains[m]
    BY <1>1, <2>1, <2>2, WithoutMembers
  <2>4. c \in ToSet(chains) /\ c # x
    BY <2>3 DEF ToSet
  <2>5. c \in Chains
    BY <2>4, ListedChain
  <2>. QED
    BY <1>1, <2>1, <2>4, <2>5 DEF Clear
<1>5. CASE ChainClear(w)
  <2>1. chains' = <<>>
    BY <1>5 DEF ChainClear
  <2>. QED
    BY <2>1 DEF ToSet
<1>6. CASE ~ (ChainFind(w) \/ FilterAdd(w) \/ ChainRemove(w) \/ ChainClear(w))
  <2>1. chains' = chains /\ cdata' = cdata
    BY <1>6 DEF Start, WriterStep, ListenerCreate, ListenerSet, ListenerFind, ListenerRemove,
       ListenerAdd, ListenerClear, ListenerShow, RuleCreate, RuleTarget, RuleFind,
       RuleRemove, RuleAdd, RuleClear, RuleShow, NothingCreated, NoFilterCreated,
       NoChainCreated, FilterCreate, FilterSet, FilterShow, objVars
  <2>. QED
    BY <2>1
<1>. QED
  BY <1>2, <1>3, <1>4, <1>5, <1>6

(* What a step leaves of the lists of filters, but the one that adds to    *)
(* one: a list that was there, under its name, or one that is empty.       *)
ListsStand ==
    /\ \A c \in ToSet(chains') :
           \/ FiltersOf(c)' = <<>>
           \/ /\ c \in ToSet(chains) /\ cdata'[c].name = cdata[c].name
              /\ FiltersOf(c)' = FiltersOf(c)
    /\ \A c \in ToSet(chains) : \A f \in ToSet(FiltersOf(c)) : fdata'[f].fid = fdata[f].fid

(* No step of a writer changes a filter that is listed.                    *)
LEMMA FidsStand ==
    ASSUME ForwardingAssumption, ObjectTypes, WriterTypes, MadeKinds, ListsSound,
           NEW w \in Writers, Start(w) \/ WriterStep(w),
           NEW c \in ToSet(chains), NEW f \in ToSet(FiltersOf(c))
    PROVE  f \in Filters /\ fdata'[f] = fdata[f]
<1>1. c \in Chains
  BY ListedChain
<1>2. f \in Filters /\ fdata[f] # NULL /\ \A v \in Writers : FilterMade[v] # f
  BY <1>1, ListedFilter DEF ToSet
<1>3. wpc[w] = "frule" => FilterMade[w] = wobj[w]
  BY DEF FilterMade
<1>. QED
  BY <1>2, <1>3, FiltersChanged

(* The steps of the writers.                                               *)
LEMMA WriterListsStand ==
    ASSUME ForwardingAssumption, ScriptAssumption, ObjectTypes, WriterTypes, MadeKinds,
           ListsSound, NEW w \in Writers, Start(w) \/ WriterStep(w), ~ FilterAdd(w),
           NamedAt(w)
    PROVE  ListsStand
<1>1. \A c \in ToSet(chains) : \A f \in ToSet(FiltersOf(c)) : fdata'[f].fid = fdata[f].fid
  BY FidsStand
<1>2. CASE ~ ChainAdd(w)
  <2>1. ASSUME NEW c, c \in ToSet(chains')
        PROVE  \/ FiltersOf(c)' = <<>>
               \/ /\ c \in ToSet(chains) /\ cdata'[c].name = cdata[c].name
                  /\ FiltersOf(c)' = FiltersOf(c)
    <3>1. c \in ToSet(chains) /\ cdata'[c].name = cdata[c].name
      BY <1>2, <2>1, NamesStand
    <3>2. c \in Chains
      BY <3>1, ListedChain
    <3>3. FiltersOf(c)' \in {FiltersOf(c), <<>>}
      BY <3>2, ChainFilters
    <3>. QED
      BY <3>1, <3>3
  <2>. QED
    BY <1>1, <2>1 DEF ListsStand
<1>3. CASE ChainAdd(w)
  <2>1. /\ wpc[w] = "cadd" /\ chains' = Append(chains, wptr[w]) /\ cdata' = cdata
        /\ wptr[w] \in Chains /\ chains \in Seq(Chains)
    BY <1>3 DEF ChainAdd, MadeKinds, MadeOf, ObjectTypes
  <2>2. ToSet(chains') = ToSet(chains) \cup {wptr[w]}
    BY <2>1, AppendMembers
  <2>3. \A c : FiltersOf(c)' = FiltersOf(c)
    BY <2>1 DEF FiltersOf
  <2>4. FiltersOf(wptr[w]) = <<>>
    BY <2>1 DEF NamedAt, FiltersOf
  <2>. QED
    BY <1>1, <2>1, <2>2, <2>3, <2>4 DEF ListsStand
<1>. QED
  BY <1>2, <1>3

(* A list that stands stays in order, and its limits too.                  *)
LEMMA OrderStands ==
    ASSUME ListsStand
    PROVE  /\ Sorted => Sorted'
           /\ \A line : Limit(line) => Limit(line)'
<1>1. ASSUME Sorted, NEW c, c \in ToSet(chains'), NEW m \in DOMAIN FiltersOf(c)',
             NEW n \in DOMAIN FiltersOf(c)', m < n
      PROVE  fdata'[FiltersOf(c)'[m]].fid <= fdata'[FiltersOf(c)'[n]].fid
  <2>1. c \in ToSet(chains) /\ FiltersOf(c)' = FiltersOf(c)
    BY <1>1 DEF ListsStand
  <2>2. /\ fdata'[FiltersOf(c)[m]].fid = fdata[FiltersOf(c)[m]].fid
        /\ fdata'[FiltersOf(c)[n]].fid = fdata[FiltersOf(c)[n]].fid
    BY <1>1, <2>1 DEF ListsStand, ToSet
  <2>. QED
    BY <1>1, <2>1, <2>2 DEF Sorted
<1>2. ASSUME NEW line, Limit(line), NEW c, c \in ToSet(chains'), cdata'[c].name = line.name,
             NEW f, f \in ToSet(FiltersOf(c)')
      PROVE  fdata'[f].fid <= line.id
  <2>1. FiltersOf(c)' # <<>>
    BY <1>2 DEF ToSet
  <2>2. c \in ToSet(chains) /\ cdata'[c].name = cdata[c].name /\ FiltersOf(c)' = FiltersOf(c)
    BY <1>2, <2>1 DEF ListsStand
  <2>3. fdata'[f].fid = fdata[f].fid
    BY <1>2, <2>2 DEF ListsStand
  <2>. QED
    BY <1>2, <2>2, <2>3 DEF Limit
<1>3. Sorted => Sorted'
  BY <1>1 DEF Sorted
<1>4. \A line : Limit(line) => Limit(line)'
  BY <1>2 DEF Limit
<1>. QED
  BY <1>3, <1>4

(* Two processes do not write filters at once: where one has a line that   *)
(* adds or removes chains, a step of another is about something else.      *)
LEMMA OthersElsewhere ==
    ASSUME ScriptAssumption, WriterTypes, AtWork, OneWriter(FilterLines), ChainsInHand,
           NEW w \in Writers, Start(w) \/ WriterStep(w),
           NEW v \in Writers, v # w, HasLine(v, FilterLines)
    PROVE  FiltersAlone(w)
<1>1. ~ HasLine(w, FilterLines)
  BY DEF OneWriter
<1>2. wpc[w] \notin {"fcreate", "cfind", "cadd", "frule", "fadd", "cremove", "cclear"}
  <2>1. WorkOf(w)
    BY DEF AtWork
  <2>2. wpc[w] \in {"cremove", "cclear"} => Entry(wline[w]) = wpc[w]
    BY DEF ChainsInHand
  <2>. QED
    BY <1>1, <2>1, <2>2 DEF WorkOf, HasLine, FilterLines
<1>. QED
  BY <1>2, Elsewhere

(* The list of the chains backwards.                                       *)
LEMMA ChainsReversed ==
    ASSUME ObjectTypes
    PROVE  Reverse(chains) \in Seq(Chains) /\ ToSet(Reverse(chains)) = ToSet(chains)
<1>1. chains \in Seq(Chains) /\ DOMAIN chains = 1 .. Len(chains) /\ Len(chains) \in Nat
  BY DEF ObjectTypes
<1>. DEFINE r == Reverse(chains)
<1>2. r = [i \in 1 .. Len(chains) |-> chains[Len(chains) - i + 1]]
  BY DEF Reverse
<1>3. \A i \in 1 .. Len(chains) : Len(chains) - i + 1 \in 1 .. Len(chains)
  BY <1>1
<1>4. DOMAIN r = 1 .. Len(chains)
      /\ \A i \in 1 .. Len(chains) : r[i] = chains[Len(chains) - i + 1]
  BY <1>2
<1>5. r \in Seq(Chains)
  <2>1. \A i \in 1 .. Len(chains) : chains[i] \in Chains
    BY <1>1
  <2>2. r \in [1 .. Len(chains) -> Chains]
    BY <1>2, <1>3, <2>1
  <2>. QED
    BY <1>1, <2>2
<1>. HIDE DEF r
<1>6. \A i \in 1 .. Len(chains) : chains[i] = r[Len(chains) - i + 1]
  <2>. TAKE i \in 1 .. Len(chains)
  <2>1. /\ Len(chains) - i + 1 \in 1 .. Len(chains)
        /\ Len(chains) - (Len(chains) - i + 1) + 1 = i
    BY <1>1
  <2>. QED
    BY <1>4, <2>1
<1>7. ToSet(r) = ToSet(chains)
  BY <1>1, <1>3, <1>4, <1>6 DEF ToSet
<1>. QED
  BY <1>5, <1>7 DEF r

(* The process that finds no chain of a name is right.                     *)
LEMMA NoChainNamed ==
    ASSUME ForwardingAssumption, ObjectTypes, ListsSound, NEW name
    PROVE  /\ ChainWithName(name) = NULL => \A c \in ToSet(chains) : cdata[c].name # name
           /\ ChainWithName(name) # NULL =>
                  /\ ChainWithName(name) \in ToSet(chains)
                  /\ cdata[ChainWithName(name)].name = name
<1>1. Reverse(chains) \in Seq(Chains) /\ ToSet(Reverse(chains)) = ToSet(chains)
  BY ChainsReversed
<1>2. ChainsNamed(name) \subseteq ToSet(Reverse(chains))
  BY <1>1 DEF ChainsNamed
<1>3. /\ ChainsNamed(name) = {} => ChainWithName(name) = NULL
      /\ ChainsNamed(name) # {} => ChainWithName(name) \in ChainsNamed(name)
  BY <1>1, <1>2, SearchFinds DEF ChainWithName
<1>4. ToSet(chains) \subseteq Chains /\ NULL \notin Chains
  BY ListedChain DEF ForwardingAssumption
<1>. QED
  BY <1>3, <1>4 DEF ChainsNamed

(* Chains keep names of their own.                                         *)
LEMMA NamesApartStep ==
    ASSUME ForwardingAssumption, ScriptAssumption, ObjectTypes, WriterTypes, MadeKinds,
           ListsSound, NEW w \in Writers, Start(w) \/ WriterStep(w), NamedAt(w), NamesApart
    PROVE  NamesApart'
<1>1. CASE ~ ChainAdd(w)
  <2>1. \A c \in ToSet(chains') : c \in ToSet(chains) /\ cdata'[c].name = cdata[c].name
    BY <1>1, NamesStand
  <2>. QED
    BY <2>1 DEF NamesApart
<1>2. CASE ChainAdd(w)
  <2>1. /\ wpc[w] = "cadd" /\ chains' = Append(chains, wptr[w]) /\ cdata' = cdata
        /\ wptr[w] \in Chains /\ chains \in Seq(Chains)
    BY <1>2 DEF ChainAdd, MadeKinds, MadeOf, ObjectTypes
  <2>2. ToSet(chains') = ToSet(chains) \cup {wptr[w]}
    BY <2>1, AppendMembers
  <2>3. \A c \in ToSet(chains) : cdata[c].name # cdata[wptr[w]].name
    BY <2>1 DEF NamedAt
  <2>. QED
    BY <2>1, <2>2, <2>3 DEF NamesApart
<1>. QED
  BY <1>1, <1>2

(* A process keeps to the chain and to the identifier of its line.         *)
LEMMA NamedOwn ==
    ASSUME ForwardingAssumption, ScriptAssumption, ObjectAssumption, ObjectTypes,
           WriterTypes, AtWork, MadeKinds, ListsSound,
           NEW w \in Writers, Start(w) \/ WriterStep(w), NamedAt(w)
    PROVE  NamedAt(w)'
<1>1. /\ w \in DOMAIN wpc /\ w \in DOMAIN wline /\ w \in DOMAIN wobj /\ w \in DOMAIN wptr
      /\ DOMAIN cdata = Chains /\ DOMAIN fdata = Filters
  BY DEF WriterTypes, ObjectTypes
<1>2. \A pc : Goto(w, pc) => wpc'[w] = pc
  BY <1>1 DEF Goto
<1>3. Finish(w) => wpc'[w] = "idle"
  BY <1>1 DEF Finish, Goto
<1>4. MadeOf(w) /\ WorkOf(w)
  BY DEF MadeKinds, AtWork
<1>5. ASSUME wpc'[w] \notin {"cfind", "cadd", "frule", "fadd"} PROVE NamedAt(w)'
  BY <1>5 DEF NamedAt
<1>6. CASE FilterCreate(w)
  <2>1. PICK f \in Filters : \E x :
            /\ fdata' = [fdata EXCEPT ![f] = x]
            /\ x.fid = wline[w].id
            /\ wobj' = [wobj EXCEPT ![w] = f]
    BY <1>6 DEF FilterCreate
  <2>2. /\ wpc'[w] = "cfind" /\ wline'[w] = wline[w] /\ wobj'[w] = f
        /\ fdata'[f].fid = wline[w].id
    BY <1>1, <1>2, <1>6, <2>1 DEF FilterCreate
  <2>. QED
    BY <2>2 DEF NamedAt
<1>7. CASE NoFilterCreated(w)
  <2>1. wpc'[w] = "cfind" /\ wobj'[w] = NULL
    BY <1>2, <1>4, <1>7 DEF NoFilterCreated, MadeOf
  <2>. QED
    BY <2>1 DEF NamedAt
<1>8. CASE ChainFind(w)
  <2>. DEFINE c == ChainWithName(wline[w].name)
  <2>1. /\ wpc[w] = "cfind" /\ chains' = chains /\ fdata' = fdata /\ wline' = wline
        /\ wobj' = wobj /\ (wobj[w] # NULL => fdata[wobj[w]].fid = wline[w].id)
    BY <1>8 DEF ChainFind, NamedAt
  <2>2. CASE c # NULL
    <3>1. wptr'[w] = c /\ wpc'[w] = "frule" /\ cdata' = cdata
      BY <1>1, <1>2, <1>8, <2>2 DEF ChainFind
    <3>2. c \in ToSet(chains) /\ cdata[c].name = wline[w].name
      BY <2>2, NoChainNamed
    <3>3. cdata[c] # NULL
      BY <3>2, ListedChain
    <3>. HIDE DEF c
    <3>. QED
      BY <2>1, <3>1, <3>2, <3>3 DEF NamedAt
  <2>3. CASE c = NULL
    <3>. DEFINE rec == [name |-> wline[w].name, filters |-> <<>>]
    <3>1. PICK new \in Chains : /\ cdata[new] = NULL
                                /\ cdata' = [cdata EXCEPT ![new] = rec]
                                /\ wptr' = [wptr EXCEPT ![w] = new]
                                /\ Goto(w, "cadd")
      BY <1>8, <2>3 DEF ChainFind
    <3>2. rec \in ChainRecs /\ rec.name = wline[w].name /\ rec.filters = <<>>
      BY <1>4, <2>1, LineWords DEF WorkOf, ChainRecs
    <3>. HIDE DEF rec
    <3>3. rec # NULL
      BY <3>2 DEF ObjectAssumption
    <3>4. wptr'[w] = new /\ wpc'[w] = "cadd" /\ cdata'[new] = rec
      BY <1>1, <1>2, <3>1
    <3>5. ASSUME NEW d \in ToSet(chains) PROVE cdata'[d].name # wline[w].name
      <4>1. d \in Chains /\ cdata[d] # NULL
        BY ListedChain
      <4>2. cdata'[d] = cdata[d]
        BY <1>1, <3>1, <4>1
      <4>. QED
        BY <2>3, <4>2, NoChainNamed
    <3>. QED
      BY <2>1, <3>2, <3>3, <3>4, <3>5 DEF NamedAt
  <2>. QED
    BY <2>2, <2>3
<1>9. CASE ChainAdd(w)
  <2>1. /\ wpc[w] = "cadd" /\ wpc'[w] = "frule"
        /\ UNCHANGED <<cdata, fdata, wline, wobj, wptr>>
    BY <1>2, <1>9 DEF ChainAdd
  <2>. QED
    BY <2>1 DEF NamedAt
<1>10. CASE FilterSet(w)
  <2>1. CASE Finish(w)
    BY <1>3, <1>5, <2>1
  <2>2. CASE ~ Finish(w)
    <3>1. /\ wpc[w] = "frule" /\ wpc'[w] = "fadd" /\ wobj[w] # NULL
          /\ fdata' = [fdata EXCEPT ![wobj[w]].rule = RuleWithId(wline[w].rid)]
          /\ UNCHANGED <<cdata, wline, wobj, wptr>>
      BY <1>2, <1>10, <2>2 DEF FilterSet
    <3>2. wobj[w] \in Filters /\ FilterMade[w] = wobj[w]
      BY <1>4, <3>1 DEF MadeOf, FilterMade
    <3>3. fdata[wobj[w]] \in FilterRecs
      BY <3>1, <3>2 DEF ListsSound, MadeOnce, ObjectTypes
    <3>4. fdata'[wobj[w]].fid = fdata[wobj[w]].fid
      BY <1>1, <3>1, <3>2, <3>3 DEF FilterRecs
    <3>. QED
      BY <3>1, <3>4 DEF NamedAt
  <2>. QED
    BY <2>1, <2>2
<1>11. CASE FilterAdd(w) \/ NoChainCreated(w) \/ ChainRemove(w) \/ ChainClear(w)
  BY <1>2, <1>3, <1>5, <1>11 DEF FilterAdd, NoChainCreated, ChainRemove, ChainClear
<1>12. CASE wpc[w] \notin {"fcreate", "cfind", "cadd", "frule", "fadd", "cremove", "cclear"}
  <2>1. FiltersAlone(w)
    BY <1>12, Elsewhere
  <2>. QED
    BY <1>5, <2>1 DEF FiltersAlone
<1>13. wpc[w] \in {"fcreate", "cfind", "cadd", "frule", "fadd", "cremove", "cclear"}
       => \/ FilterCreate(w) \/ NoFilterCreated(w) \/ ChainFind(w) \/ ChainAdd(w)
          \/ FilterSet(w) \/ FilterAdd(w) \/ NoChainCreated(w) \/ ChainRemove(w)
          \/ ChainClear(w)
  BY DEF Start, WriterStep, ListenerCreate, ListenerSet, ListenerFind, ListenerRemove,
     ListenerAdd, ListenerClear, ListenerShow, RuleCreate, RuleTarget, RuleFind, RuleRemove,
     RuleAdd, RuleClear, RuleShow, NothingCreated, FilterShow
<1>. QED
  BY <1>6, <1>7, <1>8, <1>9, <1>10, <1>11, <1>12, <1>13

(* What a process has to do is a sequence of lines.                        *)
LEMMA LinesTyped ==
    ASSUME WriterTypes, AtWork, NEW w \in Writers
    PROVE  ToDo[w] \in Seq(Written)
<1>1. todo[w] \in Seq(Written) /\ (wpc[w] # "idle" => wline[w] \in Written)
  BY DEF WriterTypes, AtWork, WorkOf
<1>. QED
  BY <1>1 DEF ToDo

(* And of the lines after a step.                                          *)
LEMMA LinesTypedNext ==
    ASSUME WriterTypes', AtWork', NEW w \in Writers
    PROVE  ToDo'[w] \in Seq(Written)
<1>1. todo'[w] \in Seq(Written) /\ (wpc'[w] # "idle" => wline'[w] \in Written)
  BY DEF WriterTypes, AtWork, WorkOf
<1>. QED
  BY <1>1 DEF ToDo

(* Lines that go on rise as they did, and what spares a chain among them   *)
(* spares it from the first on, if the one that is over does.              *)
LEMMA LinesGoOn ==
    ASSUME NEW S, NEW list \in Seq(S), NEW list2 \in Seq(S), NEW d \in {0, 1},
           Onwards(list2, list, d)
    PROVE  /\ Rises(list) => Rises(list2)
           /\ \A k \in DOMAIN list2 : \A name :
                  Spares(list2, k, name) /\ (d = 1 => ~ Removes(list[1], name))
                      => Spares(list, k + d, name)
<1>1. /\ DOMAIN list = 1 .. Len(list) /\ DOMAIN list2 = 1 .. Len(list2)
      /\ Len(list) \in Nat /\ Len(list2) \in Nat
  OBVIOUS
<1>2. \A j \in DOMAIN list2 : j + d \in DOMAIN list /\ list2[j] = list[j + d]
  BY DEF Onwards
<1>3. ASSUME NEW i \in DOMAIN list, NEW k \in DOMAIN list2, i < k + d, d < i
      PROVE  i - d \in DOMAIN list2 /\ i - d < k /\ list2[i - d] = list[i]
  <2>1. i - d \in DOMAIN list2 /\ i - d < k /\ (i - d) + d = i
    BY <1>1, <1>3
  <2>. QED
    BY <1>2, <2>1
<1>4. ASSUME Rises(list) PROVE Rises(list2)
  <2>. SUFFICES ASSUME NEW j \in DOMAIN list2, NEW k \in DOMAIN list2, j < k,
                       Entry(list2[j]) = "fcreate", Entry(list2[k]) = "fcreate",
                       list2[j].name = list2[k].name, ~ (list2[j].id <= list2[k].id)
                PROVE  \E i \in DOMAIN list2 :
                           j < i /\ i < k /\ Removes(list2[i], list2[k].name)
    BY DEF Rises
  <2>1. /\ j + d \in DOMAIN list /\ list2[j] = list[j + d]
        /\ k + d \in DOMAIN list /\ list2[k] = list[k + d]
    BY <1>2
  <2>2. j + d < k + d
    BY <1>1
  <2>3. PICK i \in DOMAIN list :
            j + d < i /\ i < k + d /\ Removes(list[i], list[k + d].name)
    BY <1>4, <2>1, <2>2 DEF Rises
  <2>4. d < i /\ j < i - d
    BY <1>1, <2>3
  <2>5. i - d \in DOMAIN list2 /\ i - d < k /\ list2[i - d] = list[i]
    BY <1>3, <2>3, <2>4
  <2>. QED
    BY <2>1, <2>3, <2>4, <2>5
<1>5. ASSUME NEW k \in DOMAIN list2, NEW name, Spares(list2, k, name),
             d = 1 => ~ Removes(list[1], name)
      PROVE  Spares(list, k + d, name)
  <2>. SUFFICES ASSUME NEW i \in DOMAIN list, i < k + d PROVE ~ Removes(list[i], name)
    BY DEF Spares
  <2>1. CASE i = 1 /\ d = 1
    BY <1>5, <2>1
  <2>2. CASE ~ (i = 1 /\ d = 1)
    <3>1. d < i
      BY <1>1, <2>2
    <3>2. i - d \in DOMAIN list2 /\ i - d < k /\ list2[i - d] = list[i]
      BY <1>3, <3>1
    <3>. QED
      BY <1>5, <3>2 DEF Spares
  <2>. QED
    BY <2>1, <2>2
<1>. QED
  BY <1>4, <1>5

(* A line that removes chains is over in one step.                         *)
LEMMA RemovesOwn ==
    ASSUME ScriptAssumption, WriterTypes, NEW w \in Writers, Start(w) \/ WriterStep(w),
           RemovesAt(w)
    PROVE  RemovesAt(w)'
<1>1. w \in DOMAIN wpc /\ w \in DOMAIN wline
  BY DEF WriterTypes
<1>2. \A pc : Goto(w, pc) => wpc'[w] = pc
  BY <1>1 DEF Goto
<1>3. Finish(w) => wpc'[w] = "idle"
  BY <1>1 DEF Finish, Goto
<1>4. CASE Start(w)
  <2>1. \/ wpc'[w] = "idle"
        \/ wline'[w] = Head(todo[w]) /\ wpc'[w] = Entry(Head(todo[w]))
    BY <1>1, <1>2, <1>4 DEF Start
  <2>. QED
    BY <2>1 DEF RemovesAt
<1>5. CASE WriterStep(w)
  <2>1. Finish(w) \/ (wline' = wline /\ wpc[w] # "idle" /\ wpc[w] \notin {"cremove", "cclear"})
    BY <1>5 DEF WriterStep, ListenerCreate, ListenerSet, ListenerFind, ListenerRemove,
       ListenerAdd, ListenerClear, ListenerShow, RuleCreate, RuleTarget, RuleFind,
       RuleRemove, RuleAdd, RuleClear, RuleShow, NothingCreated, NoFilterCreated,
       NoChainCreated, FilterCreate, ChainFind, ChainAdd, FilterSet, FilterAdd,
       ChainRemove, ChainClear, FilterShow
  <2>. QED
    BY <1>3, <2>1 DEF RemovesAt
<1>. QED
  BY <1>4, <1>5

(* When a line is over that takes the chain of a name away, there is none. *)
LEMMA ChainTaken ==
    ASSUME ForwardingAssumption, ScriptAssumption, ObjectTypes, WriterTypes, AtWork,
           MadeKinds, ListsSound, NamesApart, NEW w \in Writers, Start(w) \/ WriterStep(w),
           RemovesAt(w), Over(w), NEW name, Removes(ToDo[w][1], name),
           NEW c, c \in ToSet(chains')
    PROVE  cdata'[c].name # name
<1>1. wpc[w] # "idle" /\ ToDo[w][1] = wline[w]
  <2>1. wpc[w] # "idle"
    BY DEF Over, Removes
  <2>. QED
    BY <2>1, ToDoStep
<1>2. wpc[w] = Entry(wline[w]) /\ wpc[w] \in {"cremove", "cclear"}
  BY <1>1 DEF RemovesAt, Removes
<1>3. ChainRemove(w) \/ ChainClear(w)
  BY <1>2 DEF Start, WriterStep, ListenerCreate, ListenerSet, ListenerFind, ListenerRemove,
     ListenerAdd, ListenerClear, ListenerShow, RuleCreate, RuleTarget, RuleFind, RuleRemove,
     RuleAdd, RuleClear, RuleShow, NothingCreated, NoFilterCreated, NoChainCreated,
     FilterCreate, ChainFind, ChainAdd, FilterSet, FilterAdd, FilterShow
<1>4. CASE ChainClear(w)
  BY <1>4 DEF ChainClear, ToSet
<1>5. CASE ChainRemove(w)
  <2>. DEFINE x == FirstOf(chains, ChainsNamed(wline[w].name))
  <2>1. wpc[w] = "cremove" /\ chains' = Without(chains, x)
    BY <1>5 DEF ChainRemove
  <2>2. name = wline[w].name
    BY <1>1, <1>2, <2>1 DEF Removes
  <2>3. ~ ChainAdd(w)
    BY <2>1 DEF ChainAdd
  <2>4. c \in ToSet(chains) /\ cdata'[c].name = cdata[c].name
    BY <2>3, NamesStand
  <2>5. chains \in Seq(Chains) /\ ChainsNamed(wline[w].name) \subseteq ToSet(chains)
    BY DEF ObjectTypes, ChainsNamed
  <2>6. c # x
    <3>1. \A j, k \in DOMAIN chains : chains[j] = chains[k] => j = k
      BY DEF ListsSound, ListedOnce
    <3>. HIDE DEF x
    <3>2. \A n \in DOMAIN chains' :
              \E m \in DOMAIN chains : chains[m] # x /\ chains'[n] = chains[m]
      BY <2>1, <2>5, <3>1, WithoutMembers
    <3>. QED
      BY <3>2 DEF ToSet
  <2>7. SUFFICES ASSUME cdata[c].name = wline[w].name PROVE FALSE
    BY <2>2, <2>4
  <2>8. c \in ChainsNamed(wline[w].name)
    BY <2>4, <2>7 DEF ChainsNamed
  <2>9. x \in ChainsNamed(wline[w].name)
    BY <2>5, <2>8, SearchFinds
  <2>10. x \in ToSet(chains) /\ cdata[x].name = cdata[c].name
    BY <2>7, <2>9 DEF ChainsNamed
  <2>. HIDE DEF x
  <2>. QED
    BY <2>4, <2>6, <2>10 DEF NamesApart
<1>. QED
  BY <1>3, <1>4, <1>5

(* The step of rtap_filter_add, as it is when the chain is there.          *)
LEMMA FilterAdded ==
    ASSUME ForwardingAssumption, ObjectAssumption, ObjectTypes, WriterTypes, AtWork,
           MadeKinds, NEW w \in Writers, FilterAdd(w), NamedAt(w)
    PROVE  /\ wpc[w] = "fadd" /\ wpc'[w] = "idle" /\ Entry(wline[w]) = "fcreate"
           /\ wptr[w] \in Chains /\ wobj[w] \in Filters
           /\ chains' = chains /\ fdata' = fdata
           /\ \A c \in Chains : cdata'[c].name = cdata[c].name
           /\ \A c \in Chains :
                  FiltersOf(c)' = IF c = wptr[w] THEN Append(FiltersOf(c), wobj[w])
                                                ELSE FiltersOf(c)
           /\ cdata[wptr[w]].name = wline[w].name
           /\ fdata[wobj[w]].fid = wline[w].id
<1>1. w \in DOMAIN wpc /\ DOMAIN cdata = Chains /\ MadeOf(w) /\ WorkOf(w)
  BY DEF WriterTypes, ObjectTypes, MadeKinds, AtWork
<1>2. wpc[w] = "fadd" /\ wptr[w] \in Chains /\ wobj[w] \in Filters
  BY <1>1 DEF FilterAdd, MadeOf
<1>3. /\ cdata[wptr[w]] # NULL /\ cdata[wptr[w]].name = wline[w].name
      /\ fdata[wobj[w]].fid = wline[w].id
  <2>1. wobj[w] # NULL
    BY <1>2 DEF ForwardingAssumption
  <2>. QED
    BY <1>2, <2>1 DEF NamedAt
<1>4. cdata[wptr[w]] \in ChainRecs
  BY <1>2, <1>3 DEF ObjectTypes
<1>5. wpc'[w] = "idle" /\ Entry(wline[w]) = "fcreate"
  BY <1>1, <1>2, <1>3 DEF FilterAdd, Finish, Goto, WorkOf
<1>6. /\ chains' = chains /\ fdata' = fdata
      /\ cdata' = [cdata EXCEPT ![wptr[w]].filters = Append(@, wobj[w])]
  BY <1>3 DEF FilterAdd, PutLast
<1>7. cdata'[wptr[w]] = [cdata[wptr[w]] EXCEPT !.filters = Append(@, wobj[w])]
  BY <1>1, <1>2, <1>6
<1>8. /\ cdata'[wptr[w]].name = cdata[wptr[w]].name /\ cdata'[wptr[w]] \in ChainRecs
      /\ cdata'[wptr[w]].filters = Append(cdata[wptr[w]].filters, wobj[w])
  <2>1. Append(cdata[wptr[w]].filters, wobj[w]) \in Seq(Filters)
    BY <1>2, <1>4, AppendProperties DEF ChainRecs
  <2>. QED
    BY <1>4, <1>7, <2>1 DEF ChainRecs
<1>9. \A c \in Chains : c # wptr[w] => cdata'[c] = cdata[c]
  BY <1>1, <1>6
<1>10. ASSUME NEW c \in Chains
       PROVE  FiltersOf(c)' = IF c = wptr[w] THEN Append(FiltersOf(c), wobj[w])
                                             ELSE FiltersOf(c)
  <2>1. CASE c = wptr[w]
    <3>1. cdata'[c] # NULL /\ cdata'[c].filters = Append(cdata[c].filters, wobj[w])
      BY <1>8, <2>1 DEF ObjectAssumption
    <3>2. FiltersOf(c)' = cdata'[c].filters
      BY <3>1 DEF FiltersOf
    <3>3. FiltersOf(c) = cdata[c].filters
      BY <1>3, <2>1 DEF FiltersOf
    <3>. QED
      BY <2>1, <3>1, <3>2, <3>3
  <2>2. CASE c # wptr[w]
    BY <1>9, <2>2 DEF FiltersOf
  <2>. QED
    BY <2>1, <2>2
<1>. QED
  BY <1>2, <1>3, <1>5, <1>6, <1>8, <1>9, <1>10

(* What that leaves of a limit: the identifiers of the chain of its line   *)
(* are no greater than those of the lines of that chain that follow.       *)
LEMMA AddLimit ==
    ASSUME ForwardingAssumption, ObjectAssumption, ScriptAssumption, ObjectTypes,
           WriterTypes, AtWork, MadeKinds, ListsSound, NEW w \in Writers, FilterAdd(w),
           NamedAt(w), Rises(ToDo[w]),
           NEW k \in DOMAIN ToDo[w], 1 < k, Entry(ToDo[w][k]) = "fcreate",
           Spares(ToDo[w], k, ToDo[w][k].name), NEW line, line = ToDo[w][k], Limit(line)
    PROVE  Limit(line)'
<1>. DEFINE Added(c) == IF c = wptr[w] THEN Append(FiltersOf(c), wobj[w]) ELSE FiltersOf(c)
<1>1. /\ wpc[w] = "fadd" /\ Entry(wline[w]) = "fcreate"
      /\ wptr[w] \in Chains /\ wobj[w] \in Filters
      /\ chains' = chains /\ fdata' = fdata
      /\ \A c \in Chains : cdata'[c].name = cdata[c].name /\ FiltersOf(c)' = Added(c)
      /\ cdata[wptr[w]].name = wline[w].name
      /\ fdata[wobj[w]].fid = wline[w].id
  BY FilterAdded
<1>2. 1 \in DOMAIN ToDo[w] /\ ToDo[w][1] = wline[w]
  BY <1>1, ToDoStep DEF WriterStep
<1>3. line.name = wline[w].name => wline[w].id <= line.id
  BY <1>1, <1>2 DEF Rises, Spares
<1>4. ASSUME NEW c, c \in ToSet(chains), c = wptr[w] => wline[w].name = line.name,
             cdata[c].name = line.name, NEW f \in ToSet(Added(c))
      PROVE  fdata[f].fid <= line.id
  <2>1. c \in Chains /\ FiltersOf(c) \in Seq(Filters)
    BY <1>4, ListedChain, FiltersTyped
  <2>2. f \in ToSet(FiltersOf(c)) \/ (c = wptr[w] /\ f = wobj[w])
    BY <1>1, <1>4, <2>1, AppendMembers
  <2>. QED
    BY <1>1, <1>3, <1>4, <2>2 DEF Limit
<1>5. ASSUME NEW c, c \in ToSet(chains'), cdata'[c].name = line.name,
             NEW f, f \in ToSet(FiltersOf(c)')
      PROVE  fdata'[f].fid <= line.id
  <2>1. c \in ToSet(chains) /\ c \in Chains
    BY <1>1, <1>5, ListedChain
  <2>2. cdata[c].name = line.name /\ f \in ToSet(Added(c))
    BY <1>1, <1>5, <2>1
  <2>3. c = wptr[w] => wline[w].name = line.name
    BY <1>1, <2>2
  <2>4. fdata[f].fid <= line.id
    BY <1>4, <2>1, <2>2, <2>3
  <2>. QED
    BY <1>1, <2>4
<1>. QED
  BY <1>5 DEF Limit

(* The limits of the lines that a process has still to write.              *)
LEMMA LimitsOwn ==
    ASSUME ForwardingAssumption, ObjectAssumption, ScriptAssumption, ObjectTypes,
           WriterTypes, WriterTypes', AtWork, AtWork', MadeKinds, ListsSound, NamesApart,
           NEW w \in Writers, Start(w) \/ WriterStep(w), NamedAt(w), RemovesAt(w),
           LimitsOK(w), Rises(ToDo[w])
    PROVE  LimitsOK(w)' /\ Rises(ToDo'[w])
<1>1. PICK d \in {0, 1} : /\ Done(w, d) /\ (d = 1 => Over(w))
                          /\ FilterAdd(w) /\ wpc'[w] = "idle" => d = 1
  <2>1. FilterAdd(w) /\ wpc'[w] = "idle" => Done(w, 1) /\ Over(w)
    BY ToDoStep DEF Over, FilterAdd
  <2>. QED
    BY <2>1, ToDoStep
<1>2. ToDo[w] \in Seq(Written) /\ ToDo'[w] \in Seq(Written)
  BY LinesTyped, LinesTypedNext
<1>3. Onwards(ToDo'[w], ToDo[w], d)
  BY <1>1 DEF Done
<1>. DEFINE list == ToDo[w]
            list2 == ToDo'[w]
<1>4. /\ Rises(list2)
      /\ \A k \in DOMAIN list2 : \A name :
             Spares(list2, k, name) /\ (d = 1 => ~ Removes(list[1], name))
                 => Spares(list, k + d, name)
  <2>. HIDE DEF list, list2
  <2>1. list \in Seq(Written) /\ list2 \in Seq(Written) /\ Onwards(list2, list, d)
        /\ Rises(list)
    BY <1>2, <1>3 DEF list, list2
  <2>. QED
    BY <2>1, LinesGoOn
<1>5. ASSUME NEW k \in DOMAIN ToDo'[w], NEW line, line = ToDo'[w][k],
             Entry(line) = "fcreate", Spares(ToDo'[w], k, line.name)
      PROVE  Limit(line)'
  <2>1. CASE d = 1 /\ Removes(ToDo[w][1], line.name)
    <3>1. Over(w)
      BY <1>1, <2>1
    <3>2. \A c \in ToSet(chains') : cdata'[c].name # line.name
      BY <2>1, <3>1, ChainTaken
    <3>. QED
      BY <3>2 DEF Limit
  <2>2. CASE ~ (d = 1 /\ Removes(ToDo[w][1], line.name))
    <3>1. /\ k \in Nat \ {0} /\ k + d \in DOMAIN ToDo[w] /\ line = ToDo[w][k + d]
      BY <1>3, <1>5 DEF Onwards
    <3>2. Spares(ToDo[w], k + d, line.name)
      BY <1>4, <1>5, <2>2
    <3>3. Limit(line)
      BY <1>5, <3>1, <3>2 DEF LimitsOK
    <3>4. CASE ~ FilterAdd(w)
      <4>1. ListsStand
        BY <3>4, WriterListsStand
      <4>. QED
        BY <3>3, <4>1, OrderStands
    <3>5. CASE FilterAdd(w)
      <4>1. d = 1
        BY <1>1, <3>5, FilterAdded
      <4>2. 1 < k + d
        BY <3>1, <4>1
      <4>. QED
        BY <1>5, <3>1, <3>2, <3>3, <3>5, <4>2, AddLimit
    <3>. QED
      BY <3>4, <3>5
  <2>. QED
    BY <2>1, <2>2
<1>6. LimitsOK(w)'
  <2>. SUFFICES ASSUME NEW k \in DOMAIN ToDo'[w], Entry(ToDo'[w][k]) = "fcreate",
                       Spares(ToDo'[w], k, ToDo'[w][k].name)
                PROVE  Limit(ToDo[w][k])'
    BY DEF LimitsOK
  <2>1. PICK line : line = ToDo'[w][k]
    OBVIOUS
  <2>2. Limit(line)'
    BY <1>5, <2>1
  <2>. QED
    BY <2>1, <2>2 DEF Limit
<1>. QED
  BY <1>4, <1>6

(* What another process has to do about filters is not changed.            *)
LEMMA OthersOrder ==
    ASSUME ScriptAssumption, WriterTypes, AtWork, OneWriter(FilterLines), ChainsInHand,
           NEW w \in Writers, Start(w) \/ WriterStep(w), NEW v \in Writers, v # w,
           NamedAt(v), RemovesAt(v), LimitsOK(v), Rises(ToDo[v])
    PROVE  NamedAt(v)' /\ RemovesAt(v)' /\ LimitsOK(v)' /\ Rises(ToDo'[v])
<1>1. /\ wpc'[v] = wpc[v] /\ wline'[v] = wline[v] /\ wobj'[v] = wobj[v]
      /\ wptr'[v] = wptr[v] /\ todo'[v] = todo[v]
  BY WriterFrame DEF WriterTypes
<1>2. ToDo'[v] = ToDo[v]
  BY <1>1 DEF ToDo
<1>3. RemovesAt(v)' /\ Rises(ToDo'[v])
  BY <1>1, <1>2 DEF RemovesAt
<1>4. NamedAt(v)'
  <2>1. CASE wpc[v] \notin {"cfind", "cadd", "frule", "fadd"}
    BY <1>1, <2>1 DEF NamedAt
  <2>2. CASE wpc[v] \in {"cfind", "cadd", "frule", "fadd"}
    <3>1. HasLine(v, FilterLines)
      BY <2>2 DEF AtWork, WorkOf, HasLine, FilterLines
    <3>2. FiltersAlone(w)
      BY <3>1, OthersElsewhere
    <3>. QED
      BY <1>1, <3>2 DEF FiltersAlone, NamedAt
  <2>. QED
    BY <2>1, <2>2
<1>5. LimitsOK(v)'
  <2>. SUFFICES ASSUME NEW k \in DOMAIN ToDo'[v], Entry(ToDo'[v][k]) = "fcreate",
                       Spares(ToDo'[v], k, ToDo'[v][k].name)
                PROVE  Limit(ToDo[v][k])'
    BY DEF LimitsOK
  <2>1. PICK line : line = ToDo[v][k]
    OBVIOUS
  <2>2. k \in DOMAIN ToDo[v] /\ Entry(line) = "fcreate" /\ line = ToDo'[v][k]
    BY <1>2, <2>1
  <2>3. Limit(line)
    BY <1>2, <2>1, <2>2 DEF LimitsOK
  <2>4. HasLine(v, FilterLines)
    <3>1. CASE wpc[v] = "idle"
      <4>1. ToDo[v] = todo[v]
        BY <3>1 DEF ToDo
      <4>. QED
        BY <2>1, <2>2, <4>1 DEF HasLine, WritesLine, FilterLines
    <3>2. CASE wpc[v] # "idle"
      <4>1. wline[v] \in Written /\ todo[v] \in Seq(Written)
        BY <3>2 DEF AtWork, WorkOf, WriterTypes
      <4>2. ToDo[v] = <<wline[v]>> \o todo[v]
        BY <3>2 DEF ToDo
      <4>3. line = wline[v] \/ \E j \in DOMAIN todo[v] : line = todo[v][j]
        <5>1. PICK x \in Written, s \in Seq(Written) : x = wline[v] /\ s = todo[v]
          BY <4>1
        <5>2. PICK lines : lines = <<x>> \o s
          OBVIOUS
        <5>3. \A j \in DOMAIN lines : lines[j] = x \/ \E i \in DOMAIN s : lines[j] = s[i]
          <6>1. \A j \in DOMAIN lines : j = 1 \/ (j - 1 \in DOMAIN s /\ lines[j] = s[j - 1])
            BY <5>2
          <6>2. lines[1] = x
            BY <5>2
          <6>. QED
            BY <6>1, <6>2
        <5>4. ToDo[v] = lines
          BY <4>2, <5>1, <5>2
        <5>. QED
          BY <2>1, <2>2, <5>1, <5>3, <5>4
      <4>. QED
        BY <2>2, <3>2, <4>3 DEF HasLine, WritesLine, FilterLines
    <3>. QED
      BY <3>1, <3>2
  <2>5. UNCHANGED <<chains, cdata, fdata>>
    BY <2>4, OthersElsewhere DEF FiltersAlone
  <2>6. Limit(line)'
    BY <2>3, <2>5 DEF Limit, FiltersOf
  <2>. QED
    BY <2>2, <2>6 DEF Limit
<1>. QED
  BY <1>3, <1>4, <1>5

(* The lists stay in order.                                                *)
LEMMA SortedStep ==
    ASSUME ForwardingAssumption, ObjectAssumption, ScriptAssumption, ObjectTypes,
           WriterTypes, AtWork, MadeKinds, ListsSound, NEW w \in Writers,
           Start(w) \/ WriterStep(w), NamedAt(w), LimitsOK(w), Sorted
    PROVE  Sorted'
<1>1. CASE ~ FilterAdd(w)
  BY <1>1, WriterListsStand, OrderStands
<1>2. CASE FilterAdd(w)
  <2>. DEFINE Added(c) == IF c = wptr[w] THEN Append(FiltersOf(c), wobj[w]) ELSE FiltersOf(c)
  <2>1. /\ wpc[w] = "fadd" /\ Entry(wline[w]) = "fcreate"
        /\ wptr[w] \in Chains /\ wobj[w] \in Filters
        /\ chains' = chains /\ fdata' = fdata
        /\ \A c \in Chains : FiltersOf(c)' = Added(c)
        /\ cdata[wptr[w]].name = wline[w].name
        /\ fdata[wobj[w]].fid = wline[w].id
    BY <1>2, FilterAdded
  <2>2. Limit(wline[w])
    <3>1. 1 \in DOMAIN ToDo[w] /\ ToDo[w][1] = wline[w]
      BY <2>1, ToDoStep
    <3>2. DOMAIN ToDo[w] \subseteq Nat \ {0}
      BY LinesTyped
    <3>3. Spares(ToDo[w], 1, wline[w].name)
      BY <3>2 DEF Spares
    <3>. QED
      BY <2>1, <3>1, <3>3 DEF LimitsOK
  <2>3. ASSUME NEW c, c \in ToSet(chains), NEW m \in DOMAIN Added(c),
               NEW n \in DOMAIN Added(c), m < n
        PROVE  fdata[Added(c)[m]].fid <= fdata[Added(c)[n]].fid
    <3>1. c \in Chains /\ FiltersOf(c) \in Seq(Filters)
      BY <2>3, ListedChain, FiltersTyped
    <3>2. CASE c # wptr[w]
      BY <2>3, <3>2 DEF Sorted
    <3>3. CASE c = wptr[w]
      <4>. DEFINE s == FiltersOf(c)
                  s2 == Append(s, wobj[w])
      <4>1. s \in Seq(Filters) /\ Added(c) = s2
        BY <3>1, <3>3
      <4>2. \A i, j \in DOMAIN s : i < j => fdata[s[i]].fid <= fdata[s[j]].fid
        BY <2>3 DEF Sorted
      <4>3. \A i \in DOMAIN s : fdata[s[i]].fid <= wline[w].id
        <5>1. cdata[c].name = wline[w].name
          BY <2>1, <3>3
        <5>2. \A i \in DOMAIN s : s[i] \in ToSet(FiltersOf(c))
          BY DEF ToSet
        <5>. QED
          BY <2>2, <2>3, <5>1, <5>2 DEF Limit
      <4>4. m \in DOMAIN s2 /\ n \in DOMAIN s2
        BY <2>3, <4>1
      <4>. HIDE DEF s
      <4>5. /\ DOMAIN s = 1 .. Len(s) /\ Len(s) \in Nat /\ DOMAIN s2 = 1 .. Len(s) + 1
            /\ \A i \in 1 .. Len(s) + 1 : s2[i] = IF i = Len(s) + 1 THEN wobj[w] ELSE s[i]
        BY <2>1, <4>1, AppendMembers
      <4>. HIDE DEF s2
      <4>6. m \in DOMAIN s /\ s2[m] = s[m]
        BY <2>3, <4>4, <4>5
      <4>7. (n \in DOMAIN s /\ s2[n] = s[n]) \/ s2[n] = wobj[w]
        BY <4>4, <4>5
      <4>8. fdata[s2[m]].fid <= fdata[s2[n]].fid
        BY <2>1, <2>3, <4>2, <4>3, <4>6, <4>7
      <4>. QED
        BY <4>1, <4>8
    <3>. QED
      BY <3>2, <3>3
  <2>4. ASSUME NEW c, c \in ToSet(chains'), NEW m \in DOMAIN FiltersOf(c)',
               NEW n \in DOMAIN FiltersOf(c)', m < n
        PROVE  fdata'[FiltersOf(c)'[m]].fid <= fdata'[FiltersOf(c)'[n]].fid
    <3>1. c \in ToSet(chains) /\ c \in Chains
      BY <2>1, <2>4, ListedChain
    <3>2. FiltersOf(c)' = Added(c)
      BY <2>1, <3>1
    <3>. HIDE DEF Added
    <3>. QED
      BY <2>1, <2>3, <2>4, <3>1, <3>2
  <2>. QED
    BY <2>4 DEF Sorted
<1>. QED
  BY <1>1, <1>2

(* OrderInv is inductive, as long as one process writes the filters.       *)
LEMMA NextOrder ==
    ASSUME ForwardingAssumption, ScriptAssumption, ObjectAssumption, FwdInv, FwdInv',
           OneWriter(FilterLines), ChainsInHand, OrderInv, [Next]_vars
    PROVE  OrderInv'
<1>1. /\ ObjectTypes /\ WriterTypes /\ ThreadTypes /\ AtWork /\ MadeKinds /\ ListsSound
      /\ WriterTypes' /\ AtWork'
  BY DEF FwdInv, TypeOK
<1>2. /\ NamesApart /\ Sorted
      /\ \A w \in Writers : NamedAt(w) /\ RemovesAt(w) /\ LimitsOK(w) /\ Rises(ToDo[w])
  BY DEF OrderInv
<1>3. ASSUME UNCHANGED <<chains, cdata, wrVars>>,
             \A f \in Filters : fdata'[f].fid = fdata[f].fid
      PROVE  OrderInv'
  <2>1. ToDo' = ToDo /\ \A c : FiltersOf(c)' = FiltersOf(c)
    BY <1>3 DEF ToDo, wrVars, FiltersOf
  <2>2. ListsStand
    <3>1. ASSUME NEW c \in ToSet(chains), NEW f \in ToSet(FiltersOf(c)) PROVE f \in Filters
      <4>1. c \in Chains
        BY <1>1, ListedChain
      <4>. QED
        BY <1>1, <4>1, ListedFilter DEF ToSet
    <3>. QED
      BY <1>3, <2>1, <3>1 DEF ListsStand
  <2>3. NamesApart' /\ Sorted'
    BY <1>2, <1>3, <2>2, OrderStands DEF NamesApart
  <2>4. ASSUME NEW w \in Writers
        PROVE  NamedAt(w)' /\ RemovesAt(w)' /\ LimitsOK(w)' /\ Rises(ToDo'[w])
    <3>1. NamedAt(w)'
      <4>1. wpc[w] \in {"cfind", "cadd", "frule", "fadd"} /\ wobj[w] # NULL
            => wobj[w] \in Filters
        BY <1>1 DEF MadeKinds, MadeOf
      <4>. QED
        BY <1>2, <1>3, <4>1 DEF NamedAt, wrVars
    <3>2. RemovesAt(w)' /\ Rises(ToDo'[w])
      BY <1>2, <1>3, <2>1 DEF RemovesAt, wrVars
    <3>3. LimitsOK(w)'
      <4>. SUFFICES ASSUME NEW k \in DOMAIN ToDo'[w], Entry(ToDo'[w][k]) = "fcreate",
                           Spares(ToDo'[w], k, ToDo'[w][k].name)
                    PROVE  Limit(ToDo[w][k])'
        BY DEF LimitsOK
      <4>1. PICK line : line = ToDo[w][k]
        OBVIOUS
      <4>2. Limit(line)
        BY <1>2, <2>1, <4>1 DEF LimitsOK
      <4>3. Limit(line)' /\ line = ToDo'[w][k]
        BY <2>1, <2>2, <4>1, <4>2, OrderStands
      <4>. QED
        BY <4>3 DEF Limit
    <3>. QED
      BY <3>1, <3>2, <3>3
  <2>. QED
    BY <2>3, <2>4 DEF OrderInv
<1>4. ASSUME NEW w \in Writers, Start(w) \/ WriterStep(w) PROVE OrderInv'
  <2>1. NamesApart'
    BY <1>1, <1>2, <1>4, NamesApartStep
  <2>2. Sorted'
    BY <1>1, <1>2, <1>4, SortedStep
  <2>3. NamedAt(w)' /\ RemovesAt(w)' /\ LimitsOK(w)' /\ Rises(ToDo'[w])
    BY <1>1, <1>2, <1>4, NamedOwn, RemovesOwn, LimitsOwn
  <2>4. ASSUME NEW v \in Writers, v # w
        PROVE  NamedAt(v)' /\ RemovesAt(v)' /\ LimitsOK(v)' /\ Rises(ToDo'[v])
    BY <1>1, <1>2, <1>4, <2>4, OthersOrder
  <2>5. ASSUME NEW v \in Writers
        PROVE  NamedAt(v)' /\ RemovesAt(v)' /\ LimitsOK(v)' /\ Rises(ToDo'[v])
    BY <2>3, <2>4
  <2>. QED
    BY <2>1, <2>2, <2>5 DEF OrderInv
<1>5. ASSUME NEW t \in Threads, ThreadNext(t) PROVE OrderInv'
  <2>1. OnList(t) /\ PointerOK(t)
    BY DEF FwdInv, WalkOnList, WalkPointers, OnList, PointerOK
  <2>2. UNCHANGED <<chains, cdata, wrVars>> /\ Counted
    BY <1>1, <1>5, <2>1, ThreadStep DEF ThreadDoes
  <2>3. \A f \in Filters : fdata'[f].fid = fdata[f].fid
    BY <1>1, <2>2, CountedKept
  <2>. QED
    BY <1>3, <2>2, <2>3
<1>6. CASE UNCHANGED vars
  BY <1>3, <1>6 DEF vars, objVars
<1>. QED
  BY <1>4, <1>5, <1>6 DEF Next

(* Where one process writes the filters, and writes those of a chain in the*)
(* order of their identifiers, they see a frame in that order, whatever is *)
(* written while the frame goes through them.                              *)
THEOREM FiltersInOrder ==
    ASSUME OneWrites(Script, FilterLines), IdsRise(Script)
    PROVE  Spec => []FilterOrder
<1>. USE ForwardingAssumption, ScriptAssumption, ObjectAssumption, InetAddrAssumption
<1>1. Init => WalksProgress /\ HitsInv
  BY DEF Init, WalksProgress, Progress, Walking, HitsInv, HitsKept, HitsInOrder
<1>2. Init => ChainsInHand /\ OrderInv
  <2>. SUFFICES ASSUME Init PROVE ChainsInHand /\ OrderInv
    OBVIOUS
  <2>1. chains = <<>> /\ todo \in Script /\ \A w \in Writers : wpc[w] = "idle"
    BY DEF Init
  <2>2. \A w \in Writers : ToDo[w] = todo[w]
    BY <2>1 DEF ToDo
  <2>3. NamesApart /\ Sorted /\ \A line : Limit(line)
    BY <2>1 DEF NamesApart, Sorted, Limit, ToSet
  <2>4. \A w \in Writers : NamedAt(w) /\ RemovesAt(w) /\ LimitsOK(w) /\ Rises(ToDo[w])
    BY <2>1, <2>2, <2>3 DEF NamedAt, RemovesAt, LimitsOK, IdsRise
  <2>. QED
    BY <2>1, <2>3, <2>4 DEF ChainsInHand, OrderInv
<1>3. Init => OneWriter(FilterLines)
  BY OneWriterInit
<1>4. FwdInv /\ FwdInv' /\ WalksProgress /\ [Next]_vars => WalksProgress'
  BY NextProgress
<1>5. FwdInv /\ WalksProgress /\ HitsInv /\ [Next]_vars => HitsInv'
  BY NextHits
<1>6. FwdInv /\ OneWriter(FilterLines) /\ ChainsInHand /\ [Next]_vars
      => ChainsInHand' /\ OneWriter(FilterLines)'
  BY ChainsInHandNext, OneWriterNext DEF FwdInv, TypeOK
<1>7. FwdInv /\ FwdInv' /\ OneWriter(FilterLines) /\ ChainsInHand /\ OrderInv /\ [Next]_vars
      => OrderInv'
  BY NextOrder
<1>8. FwdInv /\ HitsInv /\ OrderInv => FilterOrder
  <2>. SUFFICES ASSUME FwdInv, HitsInv, OrderInv, NEW t \in Threads, NEW c \in ToSet(chains),
                       NEW j \in DOMAIN hits[t], NEW k \in DOMAIN hits[t], j < k,
                       {hits[t][j], hits[t][k]} \subseteq ToSet(FiltersOf(c))
                PROVE  fdata[hits[t][j]].fid <= fdata[hits[t][k]].fid
    BY DEF FilterOrder
  <2>1. PICK m \in DOMAIN FiltersOf(c), n \in DOMAIN FiltersOf(c) :
            hits[t][j] = FiltersOf(c)[m] /\ hits[t][k] = FiltersOf(c)[n]
    BY DEF ToSet
  <2>2. c \in Chains
    BY ListedChain DEF FwdInv, TypeOK
  <2>3. m < n
    BY <2>1, <2>2 DEF HitsInv, HitsInOrder
  <2>. QED
    BY <2>1, <2>3 DEF OrderInv, Sorted
<1>. QED
  BY <1>1, <1>2, <1>3, <1>4, <1>5, <1>6, <1>7, <1>8, FwdInvariant, PTL DEF Spec

----------------------------------------------------------------------------
(* What is sent *)

(* The endpoint of a listener is that of a line.                           *)
LEMMA ListenerFields ==
    ASSUME FwdInv, [Next]_vars, NEW l \in Listeners, ldata'[l] # NULL
    PROVE  \/ ldata'[l] = ldata[l]
           \/ \E line \in Written : Entry(line) = "lcreate" /\ ldata'[l].ep = line.ep
<1>1. AtWork /\ DOMAIN ldata = Listeners
  BY DEF FwdInv, TypeOK, ObjectTypes
<1>2. ASSUME NEW w \in Writers, ListenerCreate(w)
      PROVE  \/ ldata'[l] = ldata[l]
             \/ \E line \in Written : Entry(line) = "lcreate" /\ ldata'[l].ep = line.ep
  <2>1. PICK k \in Listeners, stack \in [1 .. 4 -> Garbage] :
            ldata' = [ldata EXCEPT ![k] =
                [lid |-> wline[w].id, ep |-> wline[w].ep,
                 addr |-> inet_aton(wline[w].ep.ip, stack)]]
    BY <1>2 DEF ListenerCreate
  <2>2. wline[w] \in Written /\ Entry(wline[w]) = "lcreate"
    BY <1>1, <1>2 DEF ListenerCreate, AtWork, WorkOf
  <2>3. k = l => ldata'[l].ep = wline[w].ep
    BY <1>1, <2>1
  <2>. QED
    BY <1>1, <2>1, <2>2, <2>3
<1>3. ASSUME NEW w \in Writers, ListenerSet(w) \/ ListenerRemove(w) \/ ListenerClear(w)
      PROVE  ldata'[l] = ldata[l]
  BY <1>1, <1>3 DEF ListenerSet, DestroyListener, ListenerRemove, ListenerClear, Clear
<1>4. ASSUME NEW w \in Writers, Start(w) \/ WriterStep(w),
             ~ (\/ ListenerCreate(w) \/ ListenerSet(w) \/ ListenerRemove(w)
                \/ ListenerClear(w))
      PROVE  UNCHANGED ldata
  BY <1>4 DEF Start, WriterStep, ListenerFind, ListenerAdd, ListenerShow, RuleCreate,
     RuleTarget, RuleFind, RuleRemove, RuleAdd, RuleClear, RuleShow, NothingCreated,
     NoFilterCreated, NoChainCreated, FilterCreate, ChainFind, ChainAdd, FilterSet,
     FilterAdd, ChainRemove, ChainClear, FilterShow, objVars
<1>5. ASSUME NEW t \in Threads, ThreadNext(t) PROVE UNCHANGED ldata
  BY <1>5 DEF ThreadNext, Receive, Walk, Visit, Invoke, Send, objVars
<1>6. UNCHANGED vars => UNCHANGED ldata
  BY DEF vars, objVars
<1>. QED
  BY <1>2, <1>3, <1>4, <1>5, <1>6 DEF Next

(* Where the lines are plain, so is what is made of them.                  *)
PlainInv ==
    /\ \A f \in Filters : fdata[f] # NULL => fdata[f].size = NULL \/ fdata[f].size >= 0
    /\ \A l \in Listeners : ldata[l] # NULL =>
           /\ ldata[l].ep = [ip |-> ldata[l].ep.ip, port |-> ldata[l].ep.port]
           /\ DottedQuad(ldata[l].ep.ip)

(* It stays so.                                                            *)
LEMMA PlainNext ==
    ForwardingAssumption /\ ScriptAssumption /\ PlainLines(Script)
        /\ FwdInv /\ PlainInv /\ [Next]_vars => PlainInv'
<1>. SUFFICES ASSUME ForwardingAssumption, ScriptAssumption, PlainLines(Script), FwdInv,
                     PlainInv, [Next]_vars
              PROVE  PlainInv'
  OBVIOUS
<1>1. \A line \in Written : PlainLine(line)
  BY DEF Written, PlainLines
<1>2. ASSUME NEW f \in Filters, fdata'[f] # NULL
      PROVE  fdata'[f].size = NULL \/ fdata'[f].size >= 0
  BY <1>1, <1>2, FilterFields DEF PlainInv, PlainLine
<1>3. ASSUME NEW l \in Listeners, ldata'[l] # NULL
      PROVE  /\ ldata'[l].ep = [ip |-> ldata'[l].ep.ip, port |-> ldata'[l].ep.port]
             /\ DottedQuad(ldata'[l].ep.ip)
  BY <1>1, <1>3, ListenerFields DEF PlainInv, PlainLine
<1>4. \A ip : DottedQuad(ip)' <=> DottedQuad(ip)
  BY DEF DottedQuad
<1>. QED
  BY <1>2, <1>3, <1>4 DEF PlainInv

(* A step of a writer changes no listener but one that is not listed and   *)
(* those that leave the list.                                              *)
LEMMA ListenersChanged ==
    ASSUME ForwardingAssumption, ObjectTypes, MadeKinds, ListsSound,
           NEW w \in Writers, Start(w) \/ WriterStep(w),
           NEW l \in Listeners, ldata'[l] # ldata[l]
    PROVE  l \notin ToSet(listeners) \/ l \notin ToSet(listeners')
<1>1. /\ DOMAIN ldata = Listeners /\ \A k \in ToSet(listeners) : ldata[k] # NULL
      /\ ListenerMade[w] # NULL => ListenerMade[w] \notin ToSet(listeners)
  BY ListenersListed DEF ObjectTypes, ToSet
<1>2. CASE ListenerCreate(w)
  <2>1. PICK k \in Listeners : ldata[k] = NULL /\ \E x : ldata' = [ldata EXCEPT ![k] = x]
    BY <1>2 DEF ListenerCreate
  <2>. QED
    BY <1>1, <2>1
<1>3. CASE ListenerRemove(w)
  <2>1. wptr[w] \in ToSet(listeners) /\ ldata' = [ldata EXCEPT ![wptr[w]] = NULL]
        /\ listeners' = Without(listeners, wptr[w])
    BY <1>3 DEF ListenerRemove
  <2>2. l = wptr[w]
    BY <1>1, <2>1
  <2>3. wptr[w] \notin ToSet(listeners')
    BY <2>1, ListenersListed, WithoutMembers DEF ToSet
  <2>. QED
    BY <2>1, <2>2, <2>3
<1>4. CASE ListenerClear(w)
  <2>1. ldata' = Clear(ldata, ToSet(listeners)) /\ listeners' = <<>>
    BY <1>4 DEF ListenerClear
  <2>2. l \in ToSet(listeners)
    BY <1>1, <2>1 DEF Clear
  <2>3. ToSet(listeners') = {}
    BY <2>1 DEF ToSet
  <2>. QED
    BY <2>2, <2>3
<1>5. CASE ListenerSet(w)
  <2>1. wpc[w] = "lset" /\ \E x : ldata' = [ldata EXCEPT ![wobj[w]] = x]
    <3>1. ldata' = [ldata EXCEPT ![wobj[w]] = NULL]
      BY <1>5 DEF ListenerSet, DestroyListener
    <3>. QED
      BY <1>5, <3>1 DEF ListenerSet
  <2>2. ListenerMade[w] = wobj[w] /\ wobj[w] # NULL
    BY <2>1 DEF ListenerMade, MadeKinds, MadeOf, ForwardingAssumption
  <2>3. l = wobj[w]
    BY <1>1, <2>1
  <2>. QED
    BY <1>1, <2>2, <2>3
<1>6. CASE ~ (\/ ListenerCreate(w) \/ ListenerSet(w) \/ ListenerRemove(w)
              \/ ListenerClear(w))
  BY <1>6 DEF Start, WriterStep, ListenerFind, ListenerAdd, ListenerShow, RuleCreate,
     RuleTarget, RuleFind, RuleRemove, RuleAdd, RuleClear, RuleShow, NothingCreated,
     NoFilterCreated, NoChainCreated, FilterCreate, ChainFind, ChainAdd, FilterSet,
     FilterAdd, ChainRemove, ChainClear, FilterShow, objVars
<1>. QED
  BY <1>2, <1>3, <1>4, <1>5, <1>6

(* Counting what passes the frame on, filter by filter.                    *)
LEMMA TakenCounts ==
    ASSUME NEW h, NEW n, NEW k \in Nat
    PROVE  /\ Taken(h, n, 0) = 0
           /\ Taken(h, n, k) \in Nat
           /\ Taken(h, n, k + 1) = IF Forwards(h[k + 1], n)
                                    THEN Taken(h, n, k) + 1
                                    ELSE Taken(h, n, k)
<1>. DEFINE S(m) == {j \in 1 .. m : Forwards(h[j], n)}
<1>1. \A m \in Nat : IsFiniteSet(S(m)) /\ Cardinality(S(m)) \in Nat
  <2>. TAKE m \in Nat
  <2>1. IsFiniteSet(1 .. m) /\ S(m) \subseteq 1 .. m
    BY FS_Interval
  <2>. QED
    BY <2>1, FS_Subset, FS_CardinalityType
<1>2. S(0) = {}
  OBVIOUS
<1>3. CASE Forwards(h[k + 1], n)
  <2>1. S(k + 1) = S(k) \cup {k + 1} /\ k + 1 \notin S(k)
    BY <1>3
  <2>2. Cardinality(S(k + 1)) = Cardinality(S(k)) + 1
    BY <1>1, <2>1, FS_AddElement
  <2>. QED
    BY <1>1, <1>2, <1>3, <2>2, FS_EmptySet DEF Taken
<1>4. CASE ~ Forwards(h[k + 1], n)
  <2>1. S(k + 1) = S(k)
    BY <1>4
  <2>. QED
    BY <1>1, <1>2, <1>4, <2>1, FS_EmptySet DEF Taken
<1>. QED
  BY <1>3, <1>4

(* A filter that passes the frame on is one of those counted.              *)
LEMMA TakenPlace ==
    ASSUME NEW h, NEW n, NEW m \in Nat, NEW k \in 1 .. m, Forwards(h[k], n)
    PROVE  Taken(h, n, k) \in 1 .. Taken(h, n, m)
<1>. DEFINE S(i) == {j \in 1 .. i : Forwards(h[j], n)}
<1>1. IsFiniteSet(1 .. m) /\ S(m) \subseteq 1 .. m
  BY FS_Interval
<1>2. IsFiniteSet(S(m)) /\ S(k) \subseteq S(m) /\ k \in S(k)
  BY <1>1, FS_Subset
<1>3. IsFiniteSet(S(k)) /\ Cardinality(S(k)) <= Cardinality(S(m))
  BY <1>2, FS_Subset
<1>4. Cardinality(S(k)) # 0
  BY <1>2, <1>3, FS_EmptySet
<1>5. Cardinality(S(k)) \in Nat /\ Cardinality(S(m)) \in Nat
  BY <1>2, <1>3, FS_CardinalityType
<1>. QED
  BY <1>3, <1>4, <1>5 DEF Taken

(* One more filter, which keeps the frame, or passes it on.                *)
LEMMA SentNone ==
    ASSUME NEW o, NEW h, NEW n, NEW m \in Nat, SentFor(o, h, n, m), ~ Forwards(h[m + 1], n)
    PROVE  SentFor(o, h, n, m + 1)
<1>1. Taken(h, n, m + 1) = Taken(h, n, m)
  BY TakenCounts
<1>2. \A k \in 1 .. m + 1 : k \in 1 .. m \/ k = m + 1
  OBVIOUS
<1>. QED
  BY <1>1, <1>2 DEF SentFor

(* It is passed on to the target of that filter.                           *)
LEMMA SentOne ==
    ASSUME NEW S, NEW o \in Seq(S), NEW to \in S, NEW h, NEW n, NEW m \in Nat,
           SentFor(o, h, n, m), Forwards(h[m + 1], n), Reached(to) = Target(h[m + 1])
    PROVE  SentFor(Append(o, to), h, n, m + 1)
<1>1. /\ Taken(h, n, m) \in Nat /\ Taken(h, n, m + 1) = Taken(h, n, m) + 1
      /\ Len(o) = Taken(h, n, m)
  BY TakenCounts DEF SentFor
<1>2. /\ Len(Append(o, to)) = Len(o) + 1
      /\ \A j \in 1 .. Len(o) + 1 : Append(o, to)[j] = IF j = Len(o) + 1 THEN to ELSE o[j]
  BY AppendMembers
<1>3. ASSUME NEW k \in 1 .. m + 1, Forwards(h[k], n)
      PROVE  Reached(Append(o, to)[Taken(h, n, k)]) = Target(h[k])
  <2>1. CASE k = m + 1
    <3>1. Append(o, to)[Taken(h, n, k)] = to
      BY <1>1, <1>2, <2>1
    <3>. QED
      BY <2>1, <3>1
  <2>2. CASE k # m + 1
    <3>1. k \in 1 .. m
      BY <2>2
    <3>2. Taken(h, n, k) \in 1 .. Len(o)
      BY <1>1, <1>3, <3>1, TakenPlace
    <3>3. Append(o, to)[Taken(h, n, k)] = o[Taken(h, n, k)]
      BY <1>1, <1>2, <3>2
    <3>. QED
      BY <1>3, <3>1, <3>3 DEF SentFor
  <2>. QED
    BY <2>1, <2>2
<1>. QED
  BY <1>1, <1>2, <1>3 DEF SentFor

(* What the first m of some filters send depends on nothing else.          *)
LEMMA SentPrefix ==
    ASSUME NEW o, NEW h, NEW h2, NEW n, NEW m \in Nat, SentFor(o, h, n, m),
           \A k \in 1 .. m : h2[k] = h[k]
    PROVE  SentFor(o, h2, n, m)
<1>1. ASSUME NEW k \in 0 .. m PROVE Taken(h2, n, k) = Taken(h, n, k)
  <2>1. {j \in 1 .. k : Forwards(h2[j], n)} = {j \in 1 .. k : Forwards(h[j], n)}
    OBVIOUS
  <2>. QED
    BY <2>1 DEF Taken
<1>2. m \in 0 .. m /\ \A k \in 1 .. m : k \in 0 .. m
  OBVIOUS
<1>. QED
  BY <1>1, <1>2 DEF SentFor

(* A step leaves a filter, its rule and its listener as they are, but for  *)
(* the count.                                                              *)
Kept(f) ==
    /\ fdata'[f].type = fdata[f].type /\ fdata'[f].subtype = fdata[f].subtype
    /\ fdata'[f].size = fdata[f].size /\ fdata'[f].rule = fdata[f].rule
    /\ fdata[f].rule # NULL =>
           /\ rdata'[fdata[f].rule] = rdata[fdata[f].rule]
           /\ rdata[fdata[f].rule].aid = "fwrd" =>
                  ldata'[rdata[fdata[f].rule].l] = ldata[rdata[fdata[f].rule].l]

(* The filter then does the same with every frame ...                      *)
LEMMA ForwardsKept ==
    ASSUME NEW f, NEW n, Kept(f)
    PROVE  /\ Accepts(fdata[f], n)' <=> Accepts(fdata[f], n)
           /\ Forwards(f, n)' <=> Forwards(f, n)
           /\ Forwards(f, n) => Target(f)' = Target(f)
<1>1. Accepts(fdata[f], n)' <=> Accepts(fdata[f], n)
  BY DEF Kept, Accepts
<1>2. Forwards(f, n)' <=> Forwards(f, n)
  BY <1>1 DEF Kept, Forwards
<1>3. Forwards(f, n) => Target(f)' = Target(f)
  BY DEF Kept, Forwards, Target
<1>. QED
  BY <1>1, <1>2, <1>3

(* ... and what has been sent for some of them is still right.             *)
LEMMA SentKept ==
    ASSUME NEW o, NEW h, NEW n, NEW m \in Nat, SentFor(o, h, n, m),
           \A k \in 1 .. m : Kept(h[k])
    PROVE  SentFor(o, h, n, m)'
<1>1. \A k \in 1 .. m : /\ Forwards(h[k], n)' <=> Forwards(h[k], n)
                        /\ Forwards(h[k], n) => Target(h[k])' = Target(h[k])
  BY ForwardsKept
<1>2. ASSUME NEW k \in 0 .. m PROVE Taken(h, n, k)' = Taken(h, n, k)
  <2>1. {j \in 1 .. k : Forwards(h[j], n)'} = {j \in 1 .. k : Forwards(h[j], n)}
    BY <1>1
  <2>. QED
    BY <2>1 DEF Taken
<1>3. m \in 0 .. m /\ \A k \in 1 .. m : k \in 0 .. m
  OBVIOUS
<1>4. \A to : Reached(to)' = Reached(to)
  BY DEF Reached
<1>. QED
  BY <1>1, <1>2, <1>3, <1>4 DEF SentFor

(* What has been sent, for the hits h of a walk that is at pc: before it   *)
(* visits its next filter, for all of them; when the last of them is about *)
(* to pass the frame on, for those before.                                 *)
WalkSent(pc, ptr, h, o, n) ==
    /\ pc = "lock" => h = <<>> /\ o = <<>>
    /\ pc = "visit" => SentFor(o, h, n, Len(h))
    /\ pc \in {"invoke", "send"} =>
           /\ h # <<>>
           /\ SentFor(o, h, n, Len(h) - 1)
           /\ Accepts(fdata[Last(h)], n) /\ fdata[Last(h)].rule # NULL
    /\ pc = "invoke" => ptr = fdata[Last(h)].rule
    /\ pc = "send" =>
           /\ rdata[fdata[Last(h)].rule].aid = "fwrd"
           /\ ptr = rdata[fdata[Last(h)].rule].l

SentInv ==
    \A t \in Threads : \A h, o, n :
        h = hits[t] /\ o = out[t] /\ n = frame[t] => WalkSent(fpc[t], fptr[t], h, o, n)

(* A step that leaves those filters as they are leaves that true.          *)
LEMMA WalkSentKept ==
    ASSUME NEW pc, NEW ptr, NEW h \in Seq(Filters), NEW o, NEW n, WalkSent(pc, ptr, h, o, n),
           pc \in Walking => \A k \in DOMAIN h : Kept(h[k])
    PROVE  WalkSent(pc, ptr, h, o, n)'
<1>1. Len(h) \in Nat /\ DOMAIN h = 1 .. Len(h) /\ (h # <<>> => Len(h) - 1 \in Nat)
  OBVIOUS
<1>2. CASE pc = "visit"
  <2>1. SentFor(o, h, n, Len(h))'
    BY <1>1, <1>2, SentKept DEF WalkSent, Walking
  <2>. QED
    BY <1>2, <2>1 DEF WalkSent
<1>3. CASE pc \in {"invoke", "send"}
  <2>1. h # <<>> /\ SentFor(o, h, n, Len(h) - 1) /\ \A k \in DOMAIN h : Kept(h[k])
    BY <1>3 DEF WalkSent, Walking
  <2>2. SentFor(o, h, n, Len(h) - 1)'
    BY <1>1, <2>1, SentKept
  <2>. DEFINE f == Last(h)
  <2>3. Kept(f)
    BY <1>1, <2>1 DEF Last
  <2>4. /\ Accepts(fdata[f], n) /\ fdata[f].rule # NULL
        /\ pc = "invoke" => ptr = fdata[f].rule
        /\ pc = "send" => /\ rdata[fdata[f].rule].aid = "fwrd"
                          /\ ptr = rdata[fdata[f].rule].l
    BY <1>3 DEF WalkSent
  <2>. HIDE DEF f
  <2>5. Accepts(fdata[f], n)'
    BY <2>3, <2>4, ForwardsKept
  <2>6. /\ fdata'[f].rule # NULL
        /\ pc = "invoke" => ptr = fdata'[f].rule
        /\ pc = "send" => /\ rdata'[fdata'[f].rule].aid = "fwrd"
                          /\ ptr = rdata'[fdata'[f].rule].l
    BY <2>3, <2>4 DEF Kept
  <2>. USE DEF f
  <2>. QED
    BY <1>3, <2>1, <2>2, <2>5, <2>6 DEF WalkSent
<1>4. CASE pc \notin {"visit", "invoke", "send"}
  BY <1>4 DEF WalkSent
<1>. QED
  BY <1>2, <1>3, <1>4

(* The hits of a walk under way are in use.                                *)
LEMMA HitsInUse ==
    ASSUME ObjectTypes, NEW t \in Threads, OnList(t), Progress(t), fpc[t] \in Walking,
           NEW k \in DOMAIN hits[t]
    PROVE  hits[t][k] \in FiltersInUse
<1>1. PICK a \in DOMAIN chains :
          /\ chains[a] = fpos[t][1]
          /\ SoFar(Lists, due[t], hits[t], a, fpos[t][2], fpc[t], ftmp[t])
  BY DEF Progress
<1>2. /\ DOMAIN Lists = DOMAIN chains
      /\ \A b \in DOMAIN chains : chains[b] \in Chains /\ Lists[b] = FiltersOf(chains[b])
  BY DEF ObjectTypes, Lists
<1>3. fpos[t][2] \in DOMAIN Lists[a]
  BY <1>1, <1>2 DEF OnList, Walking
<1>4. \A b \in DOMAIN Lists : \A j \in DOMAIN Lists[b] : Lists[b][j] \in FiltersInUse
  BY <1>2 DEF FiltersInUse, ToSet
<1>5. Precedes(Lists, hits[t][k], Lists[a][fpos[t][2]]) \/ hits[t][k] = Lists[a][fpos[t][2]]
  BY <1>1 DEF SoFar
<1>6. CASE Precedes(Lists, hits[t][k], Lists[a][fpos[t][2]])
  BY <1>4, <1>6 DEF Precedes
<1>. QED
  BY <1>2, <1>3, <1>4, <1>5, <1>6

(* A step of a writer leaves the filters in use as they are.               *)
LEMMA WriterKeeps ==
    ASSUME ForwardingAssumption, ObjectTypes, MadeKinds, ListsSound, PointersInv,
           InPointerOrder, NEW w \in Writers, Start(w) \/ WriterStep(w), NEW f \in FiltersInUse
    PROVE  Kept(f)
<1>1. fdata'[f] = fdata[f]
  BY FiltersUsed, FiltersChanged
<1>2. ASSUME fdata[f].rule # NULL
      PROVE  /\ rdata'[fdata[f].rule] = rdata[fdata[f].rule]
             /\ rdata[fdata[f].rule].aid = "fwrd" =>
                    ldata'[rdata[fdata[f].rule].l] = ldata[rdata[fdata[f].rule].l]
  <2>. DEFINE r == fdata[f].rule
  <2>1. r \in ToSet(rules) /\ r \in RulesPointedAt
    BY <1>2 DEF PointersInv, FilterLive, RulesPointedAt
  <2>. HIDE DEF r
  <2>2. r \in RulesInUse /\ r \in ToSet(rules')
    BY <2>1 DEF InPointerOrder, RulesInUse
  <2>3. rdata'[r] = rdata[r]
    BY <2>2, RulesUsed, RulesChanged
  <2>4. ASSUME rdata[r].aid = "fwrd" PROVE ldata'[rdata[r].l] = ldata[rdata[r].l]
    <3>. DEFINE l == rdata[r].l
    <3>1. l \in ToSet(listeners) /\ l \in ListenersPointedAt
      BY <2>2, <2>4 DEF PointersInv, RuleLive, ListenersPointedAt
    <3>. HIDE DEF l
    <3>2. l \in ToSet(listeners') /\ l \in Listeners /\ ldata[l] # NULL
      BY <3>1, ListenersListed DEF InPointerOrder, ToSet
    <3>3. ldata'[l] = ldata[l]
      BY <3>1, <3>2, ListenersChanged
    <3>. QED
      BY <3>3 DEF l
  <2>. QED
    BY <2>3, <2>4 DEF r
<1>. QED
  BY <1>1, <1>2 DEF Kept

(* A walk counts frames, and changes nothing else.                         *)
LEMMA ThreadKeeps ==
    ASSUME ForwardingAssumption, ObjectTypes, Counted, UNCHANGED <<ldata, rdata>>,
           NEW f \in Filters
    PROVE  Kept(f)
BY CountedFields DEF Kept

(* What rtap_filter_all matches is what the names of the subtypes say.     *)
LEMMA MatchesAccepts ==
    ASSUME ForwardingAssumption, NEW f \in FilterRecs, f.size = NULL \/ f.size >= 0,
           NEW n \in Lens \cup {NULL}
    PROVE  Matches(f, n) <=> Accepts(f, n)
<1>1. f.subtype \in SubtypeNames /\ f.size \in Int \cup {NULL}
  BY DEF FilterRecs
<1>2. f.size # NULL => Unsigned(f.size) = f.size
  BY <1>1 DEF Unsigned
<1>3. CASE f.subtype = "any"
  BY <1>3 DEF Matches, Accepts
<1>4. CASE f.subtype = "eq"
  BY <1>2, <1>4 DEF Matches, Accepts
<1>5. CASE f.subtype = "ge"
  BY <1>2, <1>5 DEF Matches, Accepts
<1>6. CASE f.subtype = "le"
  BY <1>2, <1>6 DEF Matches, Accepts
<1>7. CASE f.subtype \in {"none", "unknown"}
  BY <1>7 DEF Matches, Accepts
<1>. QED
  BY <1>1, <1>3, <1>4, <1>5, <1>6, <1>7 DEF SubtypeNames

(* Where a step of a walk may lead.                                        *)
LEMMA MovesOn ==
    ASSUME ThreadTypes, NEW t \in Threads, NEW c
    PROVE  /\ NextChain(t, c) => fpc'[t] \in {"visit", "done"}
           /\ Advance(t) => fpc'[t] \in {"visit", "done"}
           /\ Fault(t) => fpc'[t] = "oops"
<1>1. t \in DOMAIN fpc
  BY DEF ThreadTypes
<1>2. ASSUME NEW d, NextChain(t, d) PROVE fpc'[t] \in {"visit", "done"}
  BY <1>1, <1>2 DEF NextChain, Enter, Leave
<1>3. Advance(t) => fpc'[t] \in {"visit", "done"}
  BY <1>1, <1>2 DEF Advance, Enter
<1>4. Fault(t) => fpc'[t] = "oops"
  BY <1>1 DEF Fault
<1>. QED
  BY <1>2, <1>3, <1>4

(* What the walk of thread t has sent after a step of its own, by the lists*)
(* before the step.                                                        *)
SentNow(t, pc, ptr, h, o, n) ==
    /\ WalkSent(pc, ptr, h, o, n)
    /\ pc = "done" => SentFor(o, h, n, Len(h))

(* A frame comes, and the walk begins: there is nothing to be sent yet.    *)
LEMMA BeginSent ==
    ASSUME ThreadTypes, NEW t \in Threads, Progress(t),
           WalkSent(fpc[t], fptr[t], hits[t], out[t], frame[t]),
           (\E x \in Lens : Receive(t, x)) \/ Walk(t),
           NEW pc, NEW ptr, NEW h, NEW o, NEW n,
           pc = fpc'[t], ptr = fptr'[t], h = hits'[t], o = out'[t], n = frame'[t]
    PROVE  SentNow(t, pc, ptr, h, o, n)
<1>1. t \in DOMAIN fpc /\ t \in DOMAIN hits /\ t \in DOMAIN out
  BY DEF ThreadTypes
<1>2. CASE \E x \in Lens : Receive(t, x)
  <2>1. pc = "lock" /\ h = <<>> /\ o = <<>>
    BY <1>1, <1>2 DEF Receive
  <2>. QED
    BY <2>1 DEF SentNow, WalkSent
<1>3. CASE Walk(t)
  <2>1. h = <<>> /\ o = <<>>
    BY <1>3 DEF Walk, WalkSent
  <2>2. pc \in {"visit", "done"}
    BY <1>3, MovesOn DEF Walk
  <2>3. SentFor(o, h, n, Len(h))
    <3>1. Len(h) = 0 /\ Len(o) = 0
      BY <2>1
    <3>2. Taken(h, n, 0) = 0
      BY TakenCounts
    <3>. QED
      BY <3>1, <3>2 DEF SentFor
  <2>. QED
    BY <2>2, <2>3 DEF SentNow, WalkSent
<1>. QED
  BY <1>2, <1>3

(* The walk visits a filter, which keeps the frame or is about to pass it  *)
(* on.                                                                     *)
LEMMA VisitSent ==
    ASSUME ForwardingAssumption, ObjectAssumption, ObjectTypes, ThreadTypes, ListsSound,
           PlainInv, NEW t \in Threads, OnList(t),
           WalkSent(fpc[t], fptr[t], hits[t], out[t], frame[t]), Visit(t),
           NEW pc, NEW ptr, NEW h, NEW o, NEW n,
           pc = fpc'[t], ptr = fptr'[t], h = hits'[t], o = out'[t], n = frame'[t]
    PROVE  SentNow(t, pc, ptr, h, o, n)
<1>. DEFINE f == FiltersOf(fpos[t][1])[fpos[t][2]]
            m == Len(hits[t])
<1>1. /\ t \in DOMAIN fpc /\ t \in DOMAIN fptr /\ t \in DOMAIN hits
      /\ hits[t] \in Seq(Filters) /\ frame[t] \in Lens \cup {NULL}
  BY DEF ThreadTypes
<1>2. fpc[t] = "visit"
  BY DEF Visit
<1>3. cdata[fpos[t][1]] # NULL /\ f \in Filters /\ fdata[f] \in FilterRecs
  BY <1>2, Visited
<1>4. /\ Judge(t, f) /\ hits' = [hits EXCEPT ![t] = Append(@, f)]
      /\ UNCHANGED <<frame, out>>
  BY <1>3 DEF Visit
<1>. HIDE DEF f
<1>5. /\ m \in Nat /\ h = Append(hits[t], f) /\ h \in Seq(Filters) /\ Len(h) = m + 1
      /\ h[m + 1] = f /\ \A k \in 1 .. m : h[k] = hits[t][k]
      /\ o = out[t] /\ n = frame[t]
  BY <1>1, <1>3, <1>4, AppendMembers
<1>. HIDE DEF m
<1>6. SentFor(o, h, n, m)
  <2>1. SentFor(o, hits[t], n, m)
    BY <1>2, <1>5 DEF WalkSent, m
  <2>. QED
    BY <1>5, <2>1, SentPrefix
<1>7. Matches(fdata[f], n) <=> Accepts(fdata[f], n)
  <2>1. fdata[f].size = NULL \/ fdata[f].size >= 0
    BY <1>3 DEF PlainInv, ObjectAssumption
  <2>. QED
    BY <1>1, <1>3, <1>5, <2>1, MatchesAccepts
<1>8. CASE pc = "invoke"
  <2>1. /\ Matches(fdata[f], n) /\ fdata[f].rule # NULL
        /\ fptr' = [fptr EXCEPT ![t] = fdata[f].rule]
    BY <1>4, <1>5, <1>8, MovesOn DEF Judge
  <2>2. Last(h) = f /\ h # <<>>
    BY <1>5 DEF Last
  <2>3. Len(h) - 1 = m
    BY <1>5
  <2>. QED
    BY <1>1, <1>6, <1>7, <1>8, <2>1, <2>2, <2>3 DEF SentNow, WalkSent
<1>9. CASE pc \in {"visit", "done"}
  <2>1. ~ Matches(fdata[f], n) \/ fdata[f].rule = NULL
    BY <1>1, <1>4, <1>5, <1>9 DEF Judge, Fault
  <2>2. ~ Forwards(h[m + 1], n)
    BY <1>5, <1>7, <2>1 DEF Forwards
  <2>3. SentFor(o, h, n, m + 1)
    BY <1>5, <1>6, <2>2, SentNone
  <2>. QED
    BY <1>5, <1>9, <2>3 DEF SentNow, WalkSent
<1>10. CASE pc = "oops"
  BY <1>10 DEF SentNow, WalkSent
<1>11. pc \in {"invoke", "visit", "done", "oops"}
  BY <1>1, <1>4, MovesOn DEF Judge
<1>. QED
  BY <1>8, <1>9, <1>10, <1>11

(* Its rule is invoked, and drops the frame or is about to pass it on.     *)
LEMMA InvokeSent ==
    ASSUME ForwardingAssumption, ObjectTypes, ThreadTypes, ListsSound, PointersInv,
           NEW t \in Threads, WalkSent(fpc[t], fptr[t], hits[t], out[t], frame[t]),
           Invoke(t), NEW pc, NEW ptr, NEW h, NEW o, NEW n,
           pc = fpc'[t], ptr = fptr'[t], h = hits'[t], o = out'[t], n = frame'[t]
    PROVE  SentNow(t, pc, ptr, h, o, n)
<1>. DEFINE f == Last(h)
            r == rdata[fptr[t]]
<1>1. /\ t \in DOMAIN fpc /\ t \in DOMAIN fptr /\ hits[t] \in Seq(Filters)
      /\ fpc[t] = "invoke"
  BY DEF ThreadTypes, Invoke
<1>2. h = hits[t] /\ o = out[t] /\ n = frame[t] /\ h \in Seq(Filters)
  BY <1>1 DEF Invoke
<1>3. /\ h # <<>> /\ SentFor(o, h, n, Len(h) - 1)
      /\ Accepts(fdata[f], n) /\ fdata[f].rule # NULL /\ fptr[t] = fdata[f].rule
  BY <1>1, <1>2 DEF WalkSent
<1>4. fptr[t] \in ToSet(rules)
  BY <1>1 DEF PointersInv, WalkLive
<1>5. r # NULL
  BY <1>4, RulesListed DEF ToSet
<1>6. r.aid = "fwrd" => r.l # NULL
  <2>1. RuleLive(fptr[t])
    BY <1>4 DEF PointersInv, RulesInUse
  <2>2. \A l \in ToSet(listeners) : l # NULL
    BY ListenersListed DEF ToSet, ForwardingAssumption
  <2>. QED
    BY <2>1, <2>2 DEF RuleLive
<1>7. CASE r.aid = "fwrd"
  <2>1. pc = "send" /\ ptr = r.l
    BY <1>1, <1>5, <1>6, <1>7 DEF Invoke
  <2>. QED
    BY <1>3, <1>7, <2>1 DEF SentNow, WalkSent
<1>8. CASE r.aid # "fwrd"
  <2>1. Advance(t)
    BY <1>5, <1>8 DEF Invoke
  <2>2. pc \in {"visit", "done"}
    BY <2>1, MovesOn
  <2>3. ~ Forwards(f, n)
    BY <1>3, <1>8 DEF Forwards
  <2>4. Len(h) - 1 \in Nat /\ Len(h) - 1 + 1 = Len(h) /\ f = h[Len(h)]
    BY <1>2, <1>3 DEF Last
  <2>5. SentFor(o, h, n, Len(h))
    <3>. DEFINE m == Len(h) - 1
    <3>1. m \in Nat /\ m + 1 = Len(h) /\ SentFor(o, h, n, m) /\ ~ Forwards(h[m + 1], n)
      BY <1>3, <2>3, <2>4
    <3>. HIDE DEF m
    <3>. QED
      BY <3>1, SentNone
  <2>. QED
    BY <2>2, <2>5 DEF SentNow, WalkSent
<1>. QED
  BY <1>7, <1>8

(* The frame is sent to the listener of the rule.                          *)
LEMMA SendSent ==
    ASSUME ForwardingAssumption, ObjectTypes, ThreadTypes, ListsSound, PointersInv, PlainInv,
           AddressAsWritten, NEW t \in Threads,
           WalkSent(fpc[t], fptr[t], hits[t], out[t], frame[t]),
           Send(t), NEW pc, NEW ptr, NEW h, NEW o, NEW n,
           pc = fpc'[t], ptr = fptr'[t], h = hits'[t], o = out'[t], n = frame'[t]
    PROVE  SentNow(t, pc, ptr, h, o, n)
<1>. DEFINE f == Last(h)
            l == fptr[t]
            to == Destination(l)
            S == [addr : 0 .. WORD - 1, port : Nat]
<1>1. /\ t \in DOMAIN fpc /\ t \in DOMAIN out /\ out[t] \in Seq(S)
      /\ hits[t] \in Seq(Filters) /\ fpc[t] = "send"
  BY DEF ThreadTypes, Send
<1>2. h = hits[t] /\ n = frame[t] /\ h \in Seq(Filters)
  BY <1>1 DEF Send
<1>3. /\ h # <<>> /\ SentFor(out[t], h, n, Len(h) - 1)
      /\ Accepts(fdata[f], n) /\ fdata[f].rule # NULL
      /\ rdata[fdata[f].rule].aid = "fwrd" /\ l = rdata[fdata[f].rule].l
  BY <1>1, <1>2 DEF WalkSent
<1>4. l \in Listeners /\ ldata[l] # NULL
  <2>1. l \in ToSet(listeners)
    BY <1>1 DEF PointersInv, WalkLive
  <2>. QED
    BY <2>1, ListenersListed DEF ToSet
<1>5. o = Append(out[t], to) /\ Advance(t)
  BY <1>1, <1>4 DEF Send
<1>6. to \in S
  <2>1. ldata[l] \in ListenerRecs
    BY <1>4 DEF ObjectTypes
  <2>. QED
    BY <2>1 DEF ListenerRecs, Destination, ForwardingAssumption
<1>7. Reached(to) = Target(f)
  <2>1. /\ inet_ntoa(ldata[l].addr) = ldata[l].ep.ip
        /\ ldata[l].ep = [ip |-> ldata[l].ep.ip, port |-> ldata[l].ep.port]
    BY <1>4 DEF PlainInv, AddressAsWritten
  <2>2. Reached(to) = [ip |-> ldata[l].ep.ip, port |-> ldata[l].ep.port]
    BY <2>1 DEF Reached, Destination
  <2>3. Target(f) = ldata[l].ep
    BY <1>3 DEF Target
  <2>. QED
    BY <2>1, <2>2, <2>3
<1>8. SentFor(o, h, n, Len(h))
  <2>. DEFINE m == Len(h) - 1
  <2>1. m \in Nat /\ m + 1 = Len(h) /\ h[m + 1] = f
    BY <1>2, <1>3 DEF Last
  <2>2. Forwards(h[m + 1], n) /\ Reached(to) = Target(h[m + 1])
    BY <1>3, <1>7, <2>1 DEF Forwards
  <2>3. SentFor(out[t], h, n, m)
    BY <1>3
  <2>. HIDE DEF m, S, to, f
  <2>. QED
    BY <1>1, <1>5, <1>6, <2>1, <2>2, <2>3, SentOne
<1>9. pc \in {"visit", "done"}
  BY <1>5, MovesOn
<1>. QED
  BY <1>8, <1>9 DEF SentNow, WalkSent

(* A step of a thread.                                                     *)
LEMMA ThreadSent ==
    ASSUME ForwardingAssumption, ObjectAssumption, FwdInv, WalksProgress, PointersInv, PlainInv,
           AddressAsWritten, NEW t \in Threads,
           WalkSent(fpc[t], fptr[t], hits[t], out[t], frame[t]),
           ThreadNext(t), NEW pc, NEW ptr, NEW h, NEW o, NEW n,
           pc = fpc'[t], ptr = fptr'[t], h = hits'[t], o = out'[t], n = frame'[t]
    PROVE  SentNow(t, pc, ptr, h, o, n)
<1>1. /\ ObjectTypes /\ ThreadTypes /\ ListsSound /\ OnList(t) /\ Progress(t)
  BY DEF FwdInv, TypeOK, WalkOnList, OnList, WalksProgress
<1>2. CASE (\E x \in Lens : Receive(t, x)) \/ Walk(t)
  BY <1>1, <1>2, BeginSent
<1>3. CASE Visit(t)
  BY <1>1, <1>3, VisitSent
<1>4. CASE Invoke(t)
  BY <1>1, <1>4, InvokeSent
<1>5. CASE Send(t)
  BY <1>1, <1>5, SendSent
<1>. QED
  BY <1>2, <1>3, <1>4, <1>5 DEF ThreadNext

(* What a step of its own makes of a walk, which is what it sends when it  *)
(* is over.                                                                *)
SentStep ==
    \A t \in Threads : fpc[t] # "done" /\ fpc'[t] = "done" =>
        SentFor(out'[t], hits'[t], frame[t], Len(hits'[t]))

(* Every step preserves that.                                              *)
LEMMA NextSent ==
    ForwardingAssumption /\ ScriptAssumption /\ ObjectAssumption /\ InetAddrAssumption
        /\ FwdInv /\ FwdInv' /\ WalksProgress /\ PointersInv /\ PlainInv /\ AddressAsWritten
        /\ SentInv /\ [Next]_vars /\ InPointerOrder => SentInv' /\ SentStep
<1>. SUFFICES ASSUME ForwardingAssumption, ScriptAssumption, ObjectAssumption,
                     InetAddrAssumption, FwdInv, FwdInv', WalksProgress, PointersInv,
                     PlainInv, AddressAsWritten, SentInv, [Next]_vars, InPointerOrder,
                     NEW t \in Threads
              PROVE  /\ \A h, o, n : h = hits'[t] /\ o = out'[t] /\ n = frame'[t] =>
                            WalkSent(fpc[t], fptr[t], h, o, n)'
                     /\ fpc[t] # "done" /\ fpc'[t] = "done" =>
                            SentFor(out'[t], hits'[t], frame[t], Len(hits'[t]))
  BY DEF SentInv, SentStep
<1>0. PICK pc, ptr, h, o, n :
          pc = fpc'[t] /\ ptr = fptr'[t] /\ h = hits'[t] /\ o = out'[t] /\ n = frame'[t]
  OBVIOUS
<1>1. /\ ObjectTypes /\ WriterTypes /\ ThreadTypes /\ MadeKinds /\ ListsSound
      /\ OnList(t) /\ Progress(t)
  BY DEF FwdInv, TypeOK, WalkOnList, OnList, WalksProgress
<1>2. WalkSent(fpc[t], fptr[t], hits[t], out[t], frame[t])
  BY DEF SentInv
<1>3. h \in Seq(Filters)
  BY <1>0 DEF FwdInv, TypeOK, ThreadTypes
<1>4. DOMAIN h = 1 .. Len(h) /\ \A k \in DOMAIN h : h[k] \in Filters
  BY <1>3
<1>5. ASSUME UNCHANGED <<fpc, fptr, hits, out, frame>>
      PROVE  /\ WalkSent(pc, ptr, h, o, n)
             /\ ~ (fpc[t] # "done" /\ pc = "done")
  BY <1>0, <1>2, <1>5
<1>6. ASSUME UNCHANGED vars
      PROVE  /\ WalkSent(pc, ptr, h, o, n)'
             /\ ~ (fpc[t] # "done" /\ pc = "done")
  <2>1. UNCHANGED <<fdata, rdata, ldata, fpc, fptr, hits, out, frame>>
    BY <1>6 DEF vars, objVars, thrVars
  <2>2. \A f : Kept(f)
    BY <2>1 DEF Kept
  <2>. QED
    BY <1>3, <1>5, <2>1, <2>2, WalkSentKept
<1>7. ASSUME NEW w \in Writers, Start(w) \/ WriterStep(w)
      PROVE  /\ WalkSent(pc, ptr, h, o, n)'
             /\ ~ (fpc[t] # "done" /\ pc = "done")
  <2>1. UNCHANGED <<fpc, fptr, hits, out, frame>>
    BY <1>1, <1>7, WriterFrame DEF thrVars
  <2>2. ASSUME pc \in Walking, NEW k \in DOMAIN h PROVE Kept(h[k])
    <3>1. fpc[t] \in Walking /\ k \in DOMAIN hits[t] /\ h[k] = hits[t][k]
      BY <1>0, <2>1, <2>2
    <3>2. h[k] \in FiltersInUse
      BY <1>1, <3>1, HitsInUse
    <3>. QED
      BY <1>1, <1>7, <3>2, WriterKeeps
  <2>. QED
    BY <1>3, <1>5, <2>1, <2>2, WalkSentKept
<1>8. ASSUME NEW u \in Threads, ThreadNext(u)
      PROVE  /\ WalkSent(pc, ptr, h, o, n)'
             /\ fpc[t] # "done" /\ pc = "done" => /\ SentFor(o, h, n, Len(h))
                                                  /\ n = frame[t]
  <2>1. ThreadDoes(u)
    <3>1. OnList(u) /\ PointerOK(u)
      BY DEF FwdInv, WalkOnList, WalkPointers, OnList, PointerOK
    <3>. QED
      BY <1>1, <1>8, <3>1, ThreadStep
  <2>2. \A f \in Filters : Kept(f)
    BY <1>1, <2>1, ThreadKeeps DEF ThreadDoes
  <2>3. CASE u = t
    <3>1. SentNow(t, pc, ptr, h, o, n)
      BY <1>0, <1>2, <1>8, <2>3, ThreadSent
    <3>2. WalkSent(pc, ptr, h, o, n) /\ (pc = "done" => SentFor(o, h, n, Len(h)))
      BY <3>1 DEF SentNow
    <3>3. pc = "done" => n = frame[t]
      BY <1>0, <1>1, <1>8, <2>3 DEF ThreadNext, Receive, Walk, Visit, Invoke, Send, ThreadTypes
    <3>. QED
      BY <1>3, <1>4, <2>2, <3>2, <3>3, WalkSentKept
  <2>4. CASE u # t
    <3>1. /\ fpc'[t] = fpc[t] /\ fptr'[t] = fptr[t] /\ hits'[t] = hits[t]
          /\ out'[t] = out[t] /\ frame'[t] = frame[t]
      BY <1>1, <2>1, <2>4 DEF ThreadDoes, StepTypes, ThreadTypes
    <3>2. WalkSent(pc, ptr, h, o, n) /\ ~ (fpc[t] # "done" /\ pc = "done")
      BY <1>0, <1>2, <3>1
    <3>. QED
      BY <1>3, <1>4, <2>2, <3>2, WalkSentKept
  <2>. QED
    BY <2>3, <2>4
<1>9. /\ WalkSent(pc, ptr, h, o, n)'
      /\ fpc[t] # "done" /\ pc = "done" => SentFor(o, h, n, Len(h)) /\ n = frame[t]
  BY <1>6, <1>7, <1>8 DEF Next
<1>10. WalkSent(fpc[t], fptr[t], h, o, n)'
  BY <1>0, <1>9 DEF WalkSent
<1>. QED
  BY <1>0, <1>9, <1>10

(* Nothing is listed yet, and no walk is under way.                        *)
LEMMA InitSent == Init => PlainInv /\ SentInv
BY DEF Init, PlainInv, SentInv, WalkSent

(* A filter is read under the lock of the chains, its rule and the listener*)
(* of that rule under none, and a frame takes many critical sections.      *)
(* Where the lines hold dotted quads and sizes from 0, no two users share  *)
(* a list of listeners or rules that is removed from, and the users remove *)
(* in the order of the pointers, a frame still goes to the addresses that  *)
(* were written, in the order of the filters, and nowhere else.            *)
THEOREM SentWhereOrdered ==
    ASSUME PlainLines(Script), ListsAlone(Script)
    PROVE  Spec /\ [][InPointerOrder]_vars => SentAsConfigured
<1>. USE ForwardingAssumption, ScriptAssumption, ObjectAssumption, InetAddrAssumption
<1>1. Init => /\ WalksProgress /\ AddressAsWritten
              /\ PointersInv /\ PlainInv /\ SentInv
  <2>1. Init => WalksProgress /\ AddressAsWritten
    BY DEF Init, WalksProgress, Progress, Walking, AddressAsWritten
  <2>. QED
    BY <2>1, InitPointersInv, InitSent
<1>2. FwdInv /\ FwdInv' /\ WalksProgress /\ [Next]_vars => WalksProgress'
  BY NextProgress
<1>3. FwdInv /\ AddressAsWritten /\ [Next]_vars => AddressAsWritten'
  BY NextAddress
<1>4. FwdInv /\ PlainInv /\ [Next]_vars => PlainInv'
  BY PlainNext
<1>5. UNCHANGED vars => InPointerOrder
  BY DEF vars, objVars, InPointerOrder
<1>6. FwdInv /\ PointersInv /\ [Next]_vars /\ [InPointerOrder]_vars => PointersInv'
  BY <1>5, PointersNext
<1>7. FwdInv /\ FwdInv' /\ WalksProgress /\ PointersInv /\ PlainInv /\ AddressAsWritten
      /\ SentInv /\ [Next]_vars /\ [InPointerOrder]_vars => SentInv' /\ SentStep
  BY <1>5, NextSent
<1>8. SentStep => [\A t \in Threads : fpc[t] # "done" /\ fpc'[t] = "done" =>
                       SentFor(out'[t], hits'[t], frame[t], Len(hits'[t]))]_vars
  BY DEF SentStep
<1>. QED
  BY <1>1, <1>2, <1>3, <1>4, <1>6, <1>7, <1>8, FwdInvariant, PTL
     DEF Spec, SentAsConfigured

(* Where the users only build up, each adding what nobody else adds, no    *)
(* such order is needed: a frame goes where it was written to go.          *)
THEOREM BuildingSends ==
    ASSUME PlainLines(Script), BuildsUp(Script, Writers)
    PROVE  Spec => SentAsConfigured
<1>1. ListsAlone(Script)
  BY DEF BuildsUp, KeysDiffer, ListsAlone
<1>. QED
  BY <1>1, BuildingOrdered, SentWhereOrdered, PTL
=============================================================================
