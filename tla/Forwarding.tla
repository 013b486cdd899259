------------------------------ MODULE Forwarding ------------------------------
(***************************************************************************)
(* listener.c, rule.c and filter.c: the listeners, the rules that point at *)
(* listeners, the chains of filters that point at rules, the writes to     *)
(* /proc/rtap/listeners, rules and filters that change them, and           *)
(* rtap_filter_recv, by which the thread of a device gives a frame to the  *)
(* filters.                                                                *)
(*                                                                         *)
(* A thread walks the chains under rtap_chains.lock, but reads the rule of *)
(* a filter and the listener of a rule under no lock.  The writers take a  *)
(* lock to search a list or to append to it, and none to take a listener   *)
(* or a rule out of it, which other uses of the list may overlap.          *)
(* A critical section that touches one list is one action; the walk of a   *)
(* frame takes several.  Objects are named by the address that kmalloc     *)
(* gives them, which it may give again once they are freed.                *)
(***************************************************************************)
EXTENDS InetAddr, FiniteSets

CONSTANTS
    Listeners, Rules, Chains, Filters,    \* addresses of the objects
    Ids,          \* identifiers other than 0
    Endpoints,    \* records: ip, the text of an IP address, and a port
    Garbage,      \* numbers that may be on the stack of inet_aton
    Names,        \* names of chains
    Writers,      \* processes that write to and read the files of /proc/rtap
    Script,       \* what they write and read: per writer a sequence of lines
    Threads,      \* threads of devices
    Frames,       \* frames that a thread receives
    Lens,         \* lengths of a frame, or NULL: skb_clone found no memory
    UINT_MOD,     \* 2^32, the modulus of unsigned int
    Scarce,       \* whether kmalloc and sock_create may fail in a writer
    NULL

ASSUME ForwardingAssumption ==
    /\ NULL \notin Listeners \cup Rules \cup Chains \cup Filters
    /\ NULL \notin Ids /\ NULL \notin Endpoints
    /\ \A ep \in Endpoints : ep.ip \in Seq(Int) /\ ep.port \in Nat
    /\ NULL \notin Names \cup Threads \cup Writers
    /\ Garbage \subseteq Int
    /\ Lens \subseteq Nat \cup {NULL}
    /\ Frames \in Nat
    /\ UINT_MOD \in Nat \ {0}
    /\ 0 \notin Ids
    /\ Scarce \in BOOLEAN

VARIABLES
    listeners, rules, chains,   \* the lists
    ldata, rdata, cdata, fdata, \* per address, the object, or NULL when it is free
    chainlock,  \* thread, or faulted reader, that holds rtap_chains.lock, or NULL
    wpc,        \* per writer, where it is
    wline,      \* per writer, the line that it writes
    wobj,       \* per writer, the object it has made: l, r or filter
    wptr,       \* per writer, the object it has found: l, r or chain
    todo,       \* per writer, the lines it has still to write
    fpc,        \* per thread, where rtap_filter_recv is
    frame,      \* per thread, skb_cloned
    fpos,       \* per thread, c, and the place of f in its list
    ftmp,       \* per thread, whether tmp_f is another filter
    fptr,       \* per thread, the rule or the listener that it uses next
    left,       \* per thread, the frames still to come
    due,        \* history: per thread, the filters listed when its walk began
    hits,       \* history: per thread, the filters that have seen its frame
    out         \* history: per thread, the addresses and ports its frame was sent to

objVars == <<listeners, rules, chains, ldata, rdata, cdata, fdata>>
wrVars == <<wpc, wline, wobj, wptr, todo>>
thrVars == <<fpc, frame, fpos, ftmp, fptr, left, due, hits, out>>

vars == <<objVars, chainlock, wrVars, thrVars>>

----------------------------------------------------------------------------
(* What a line means to proc_write: the first thing it does.  The reading  *)
(* of a file and, for the end of the module, listener_exit, rtap_rule_exit *)
(* and rtap_filter_exit ("exit") count as lines too.                       *)

(* "-" alone clears, and "-id" removes the listener id.  With an address   *)
(* behind it any number makes a listener, which has it as unsigned int for *)
(* its identifier; an address of one character is an error.                *)
ListenerLine(line) ==
    IF line.first = "read" THEN "lshow"
    ELSE IF line.id \in Ids \cup {0} /\ line.ep \in Endpoints THEN "lcreate"
    ELSE IF line.first = "-" /\ line.id = NULL THEN "lclear"
    ELSE IF line.first = "-" /\ line.id \in Ids /\ line.ep = NULL THEN "lfind"
    ELSE "error"

Actions == {"drop", "fwrd", "cnt", "unknown"}

(* "%u" refuses a sign: only "-" alone gets past an identifier of 0.  Past *)
(* an action of 0 ("none") gets every other one ("unknown" above 3).       *)
RuleLine(line) ==
    IF line.first = "read" THEN "rshow"
    ELSE IF line.first = "-" /\ line.id = NULL THEN "rclear"
    ELSE IF line.first = "" /\ line.id \in Ids /\ line.aid \in Actions THEN "rcreate"
    ELSE "error"

(* "%256s" takes a "-" for a name: with nothing behind it, for no chain's. *)
FilterLine(line) ==
    IF line.first = "read" THEN "fshow"
    ELSE IF line.first = "-" THEN "cremove"
    ELSE IF line.id \in Ids THEN "fcreate"
    ELSE "error"

Entry(line) ==
    CASE line.file = "listeners" -> ListenerLine(line)
      [] line.file = "rules" -> RuleLine(line)
      [] line.file = "filters" -> FilterLine(line)
      [] line.file = "exit" -> line.first

Written == UNION {ToSet(s[w]) : s \in Script, w \in Writers}

SubtypeNames == {"none", "any", "eq", "ge", "le", "unknown"}

(* What the words behind the identifier of a filter may be.                *)
LineOK(line) ==
    /\ line.file \in {"listeners", "rules", "filters", "exit"}
    /\ line.file = "exit" => line.first \in {"lclear", "rclear", "cclear"}
    /\ line.file = "filters" /\ Entry(line) = "fcreate" =>
           /\ line.name \in Names
           /\ line.type \in {"none", "all", "other", "undefined"}
           /\ line.subtype \in SubtypeNames
           /\ line.size \in Int \cup {NULL}

ASSUME ScriptAssumption ==
    /\ Script \subseteq [Writers -> Seq(Written)]
    /\ \A line \in Written : LineOK(line)

(* What an object is while it is allocated.                                *)
ListenerRecs == [lid : Ids \cup {0}, ep : Endpoints, addr : 0 .. WORD - 1]
RuleRecs == [rid : Ids, aid : Actions, l : Listeners \cup {NULL}]
ChainRecs == [name : Names, filters : Seq(Filters)]
FilterRecs ==
    [fid : Ids, type : {"none", "all", "other", "undefined"}, subtype : SubtypeNames,
     size : Int \cup {NULL}, rule : Rules \cup {NULL}, count : 0 .. UINT_MOD - 1]

ASSUME ObjectAssumption ==
    /\ NULL \notin ListenerRecs /\ NULL \notin RuleRecs
    /\ NULL \notin ChainRecs /\ NULL \notin FilterRecs

----------------------------------------------------------------------------
(* Searches *)

(* list_for_each_entry_safe with a break at the first entry that fits, as  *)
(* listener_findbyid, listener_findbyipandport and rtap_rule_findbyid do.  *)
FirstOf(list, fits) ==
    IF fits = {}
    THEN NULL
    ELSE list[CHOOSE j \in DOMAIN list :
                  list[j] \in fits /\ \A l \in 1 .. j - 1 : list[l] \notin fits]

ListenerWithId(id) == FirstOf(listeners, {l \in ToSet(listeners) : ldata[l].lid = id})
FindNoEndpoint(ep) == NULL
ListenerWithIp(ep) == FirstOf(listeners, {l \in ToSet(listeners) : ldata[l].ep.ip = ep.ip})
ListenerWithEndpoint(ep) == FirstOf(listeners, {l \in ToSet(listeners) : ldata[l].ep = ep})
FindNoRule(id) == NULL
RuleWithId(id) == FirstOf(rules, {r \in ToSet(rules) : rdata[r].rid = id})

(* rtap_chain_find has no break: it returns the last chain of that name.   *)
ChainsNamed(name) == {c \in ToSet(chains) : cdata[c].name = name}
ChainWithName(name) == FirstOf(Reverse(chains), ChainsNamed(name))

(* list_del of x, where it is listed.                                      *)
StillListed(list, x) == list
Without(list, x) ==
    IF x \in ToSet(list)
    THEN RemoveAt(list, CHOOSE j \in DOMAIN list : list[j] = x)
    ELSE list

FiltersOf(c) == IF cdata[c] = NULL THEN <<>> ELSE cdata[c].filters

(* All the filters, in the order of the chains and of their lists.         *)
ListedIn ==
    LET all[n \in 0 .. Len(chains)] ==
            IF n = 0 THEN <<>> ELSE all[n - 1] \o FiltersOf(chains[n])
    IN  all

Listed == ListedIn[Len(chains)]

Clear(data, addrs) == [a \in DOMAIN data |-> IF a \in addrs THEN NULL ELSE data[a]]

----------------------------------------------------------------------------
(* listener_init, rtap_rule_init, rtap_filter_init.                        *)
Init ==
    /\ listeners = <<>> /\ rules = <<>> /\ chains = <<>>
    /\ ldata = [l \in Listeners |-> NULL]
    /\ rdata = [r \in Rules |-> NULL]
    /\ cdata = [c \in Chains |-> NULL]
    /\ fdata = [f \in Filters |-> NULL]
    /\ chainlock = NULL
    /\ wpc = [w \in Writers |-> "idle"]
    /\ wline = [w \in Writers |-> NULL]
    /\ wobj = [w \in Writers |-> NULL]
    /\ wptr = [w \in Writers |-> NULL]
    /\ todo \in Script
    /\ fpc = [t \in Threads |-> "idle"]
    /\ frame = [t \in Threads |-> NULL]
    /\ fpos = [t \in Threads |-> <<NULL, 0>>]
    /\ ftmp = [t \in Threads |-> FALSE]
    /\ fptr = [t \in Threads |-> NULL]
    /\ left = [t \in Threads |-> Frames]
    /\ due = [t \in Threads |-> <<>>]
    /\ hits = [t \in Threads |-> <<>>]
    /\ out = [t \in Threads |-> <<>>]

----------------------------------------------------------------------------
(* proc_write *)

Goto(w, pc) == wpc' = [wpc EXCEPT ![w] = pc]

(* proc_write returns, and its locals are gone.                            *)
Finish(w) ==
    /\ Goto(w, "idle")
    /\ wline' = [wline EXCEPT ![w] = NULL]
    /\ wobj' = [wobj EXCEPT ![w] = NULL]
    /\ wptr' = [wptr EXCEPT ![w] = NULL]

(* A writer enters proc_write with the next line of its script.            *)
Start(w) ==
    /\ wpc[w] = "idle"
    /\ todo[w] # <<>>
    /\ todo' = [todo EXCEPT ![w] = Tail(@)]
    /\ IF Entry(Head(todo[w])) = "error"
       THEN UNCHANGED <<wpc, wline>>
       ELSE /\ wline' = [wline EXCEPT ![w] = Head(todo[w])]
            /\ Goto(w, Entry(Head(todo[w])))
    /\ UNCHANGED <<objVars, chainlock, wobj, wptr, thrVars>>

(* list_del of listener_remove and rtap_rule_remove runs under no lock, and*)
(* kfree follows.  Whoever is in that list meanwhile, to search, read,     *)
(* append, clear or remove, may stand on the freed entry or leave the list *)
(* with torn pointers.  Nothing is known of it then: the model stops the   *)
(* one who removes ("oops"), and nobody uses the list any more.            *)
Torn(file) ==
    \E v \in Writers :
        wpc[v] = "oops" /\ wline[v].file = file /\ wline[v].first # "read"

UsesListeners(v) ==
    \/ wpc[v] \in {"lfind", "lremove", "ladd", "lclear", "lshow"}
    \/ wpc[v] = "target" /\ wline[v].aid = "fwrd"

UsesRules(v) ==
    \/ wpc[v] \in {"rfind", "rremove", "radd", "rclear", "rshow"}
    \/ wpc[v] = "frule" /\ wobj[v] # NULL /\ wline[v].type # "none" /\ wline[v].rid # 0

(* listener_create, and the setters as far as they get.                    *)
ListenerCreate(w) ==
    /\ wpc[w] = "lcreate"
    /\ \E l \in Listeners, stack \in [1 .. 4 -> Garbage] :
           /\ ldata[l] = NULL
           /\ ldata' = [ldata EXCEPT ![l] =
                  [lid |-> wline[w].id, ep |-> wline[w].ep,
                   addr |-> inet_aton(wline[w].ep.ip, stack)]]
           /\ wobj' = [wobj EXCEPT ![w] = l]
    /\ Goto(w, "lset")
    /\ UNCHANGED <<listeners, rules, chains, rdata, cdata, fdata, chainlock, wline, wptr,
                   todo, thrVars>>

(* They refuse an identifier and a port of 0, and the listener is destroyed*)
(* (its socket stays open); inet_aton takes every text.                    *)
KeepListener(l) == UNCHANGED ldata
DestroyListener(l) == ldata' = [ldata EXCEPT ![l] = NULL]

ListenerSet(w) ==
    /\ wpc[w] = "lset"
    /\ IF wline[w].id = 0 \/ wline[w].ep.port = 0
       THEN DestroyListener(wobj[w]) /\ Finish(w)
       ELSE Goto(w, "lfind") /\ UNCHANGED <<ldata, wline, wobj, wptr>>
    /\ UNCHANGED <<listeners, rules, chains, rdata, cdata, fdata, chainlock, todo, thrVars>>

(* The lookup of listener_add, or of proc_write before listener_remove.    *)
ListenerFind(w) ==
    /\ wpc[w] = "lfind"
    /\ ~ Torn("listeners")
    /\ LET l == IF wobj[w] = NULL
                THEN ListenerWithId(wline[w].id)
                ELSE ListenerWithEndpoint(wline[w].ep)
       IN  IF l # NULL
           THEN /\ wptr' = [wptr EXCEPT ![w] = l]
                /\ Goto(w, "lremove")
                /\ UNCHANGED <<wline, wobj>>
           ELSE IF wobj[w] = NULL
                THEN Finish(w)
                ELSE Goto(w, "ladd") /\ UNCHANGED <<wline, wobj, wptr>>
    /\ UNCHANGED <<objVars, chainlock, todo, thrVars>>

(* listener_remove.  list_del also faults on an entry that another writer  *)
(* has deleted, or made anew and not listed.                               *)
ListenerRemove(w) ==
    /\ wpc[w] = "lremove"
    /\ ~ Torn("listeners")
    /\ \/ /\ wptr[w] \in ToSet(listeners)
          /\ listeners' = Without(listeners, wptr[w])
          /\ ldata' = [ldata EXCEPT ![wptr[w]] = NULL]
          /\ IF wobj[w] = NULL
             THEN Finish(w)
             ELSE Goto(w, "ladd") /\ UNCHANGED <<wline, wobj, wptr>>
       \/ /\ \/ wptr[w] \notin ToSet(listeners)
             \/ \E v \in Writers \ {w} : UsesListeners(v)
          /\ Goto(w, "oops")
          /\ UNCHANGED <<listeners, ldata, wline, wobj, wptr>>
    /\ UNCHANGED <<rules, chains, rdata, cdata, fdata, chainlock, todo, thrVars>>

ListenerAdd(w) ==
    /\ wpc[w] = "ladd"
    /\ ~ Torn("listeners")
    /\ listeners' = Append(listeners, wobj[w])
    /\ Finish(w)
    /\ UNCHANGED <<rules, chains, ldata, rdata, cdata, fdata, chainlock, todo, thrVars>>

ListenerClear(w) ==
    /\ wpc[w] = "lclear"
    /\ ~ Torn("listeners")
    /\ listeners' = <<>>
    /\ ldata' = Clear(ldata, ToSet(listeners))
    /\ Finish(w)
    /\ UNCHANGED <<rules, chains, rdata, cdata, fdata, chainlock, todo, thrVars>>

(* proc_show of the listeners.                                             *)
ListenerShow(w) ==
    /\ wpc[w] = "lshow"
    /\ ~ Torn("listeners")
    /\ Finish(w)
    /\ UNCHANGED <<objVars, chainlock, todo, thrVars>>

(* A reader that faults in proc_show of the rules keeps rtap_rules.lock.   *)
RulesUnlocked ==
    \A v \in Writers :
        wpc[v] = "oops" => wline[v].file # "rules" \/ wline[v].first # "read"

(* rtap_rule_create and rtap_rule_set_id.                                  *)
RuleCreate(w) ==
    /\ wpc[w] = "rcreate"
    /\ \E r \in Rules :
           /\ rdata[r] = NULL
           /\ rdata' = [rdata EXCEPT ![r] =
                  [rid |-> wline[w].id, aid |-> wline[w].aid, l |-> NULL]]
           /\ wobj' = [wobj EXCEPT ![w] = r]
    /\ Goto(w, "target")
    /\ UNCHANGED <<listeners, rules, chains, ldata, cdata, fdata, chainlock, wline, wptr,
                   todo, thrVars>>

(* rtap_rule_set_action looks the listener up, and refuses to forward to   *)
(* none and an action that it does not know: the rule is destroyed.        *)
KeepRefused(r) == UNCHANGED rdata
DestroyRefused(r) == rdata' = [rdata EXCEPT ![r] = NULL]

ActionRefused(w, l) == wline[w].aid = "unknown" \/ (wline[w].aid = "fwrd" /\ l = NULL)

RuleTarget(w) ==
    /\ wpc[w] = "target"
    /\ wline[w].aid = "fwrd" => ~ Torn("listeners")
    /\ LET l == IF wline[w].aid = "fwrd" THEN ListenerWithId(wline[w].arg) ELSE NULL
       IN  IF ActionRefused(w, l)
           THEN /\ DestroyRefused(wobj[w])
                /\ Finish(w)
           ELSE /\ rdata' = [rdata EXCEPT ![wobj[w]].l = l]
                /\ Goto(w, "rfind")
                /\ UNCHANGED <<wline, wobj, wptr>>
    /\ UNCHANGED <<listeners, rules, chains, ldata, cdata, fdata, chainlock, todo, thrVars>>

(* rtap_rule_add: the lookup, rtap_rule_remove, the append.                *)
RuleFind(w) ==
    /\ wpc[w] = "rfind"
    /\ RulesUnlocked /\ ~ Torn("rules")
    /\ LET r == RuleWithId(wline[w].id)
       IN  /\ wptr' = [wptr EXCEPT ![w] = r]
           /\ Goto(w, IF r = NULL THEN "radd" ELSE "rremove")
    /\ UNCHANGED <<objVars, chainlock, wline, wobj, todo, thrVars>>

RuleRemove(w) ==
    /\ wpc[w] = "rremove"
    /\ ~ Torn("rules")
    /\ \/ /\ wptr[w] \in ToSet(rules)
          /\ rules' = Without(rules, wptr[w])
          /\ rdata' = [rdata EXCEPT ![wptr[w]] = NULL]
          /\ Goto(w, "radd")
       \/ /\ wptr[w] \notin ToSet(rules) \/ \E v \in Writers \ {w} : UsesRules(v)
          /\ Goto(w, "oops")
          /\ UNCHANGED <<rules, rdata>>
    /\ UNCHANGED <<listeners, chains, ldata, cdata, fdata, chainlock, wline, wobj, wptr,
                   todo, thrVars>>

RuleAdd(w) ==
    /\ wpc[w] = "radd"
    /\ RulesUnlocked /\ ~ Torn("rules")
    /\ rules' = Append(rules, wobj[w])
    /\ Finish(w)
    /\ UNCHANGED <<listeners, chains, ldata, rdata, cdata, fdata, chainlock, todo, thrVars>>

RuleClear(w) ==
    /\ wpc[w] = "rclear"
    /\ RulesUnlocked /\ ~ Torn("rules")
    /\ rules' = <<>>
    /\ rdata' = Clear(rdata, ToSet(rules))
    /\ Finish(w)
    /\ UNCHANGED <<listeners, chains, ldata, cdata, fdata, chainlock, todo, thrVars>>

(* proc_show of the rules reads the address of the listener of each rule   *)
(* (rtap_rule_arg_str), and faults where the listener was freed.           *)
ReadableRules == \A r \in ToSet(rules) : rdata[r].l # NULL => ldata[rdata[r].l] # NULL

RuleShow(w) ==
    /\ wpc[w] = "rshow"
    /\ RulesUnlocked /\ ~ Torn("rules")
    /\ IF ReadableRules THEN Finish(w) ELSE Goto(w, "oops") /\ UNCHANGED <<wline, wobj, wptr>>
    /\ UNCHANGED <<objVars, chainlock, todo, thrVars>>

(* listener_create or rtap_rule_create returns NULL: the setters refuse it.*)
NothingCreated(w) ==
    /\ Scarce
    /\ wpc[w] \in {"lcreate", "rcreate"}
    /\ Finish(w)
    /\ UNCHANGED <<objVars, chainlock, todo, thrVars>>

(* rtap_filter_create.                                                     *)
FilterCreate(w) ==
    /\ wpc[w] = "fcreate"
    /\ \E f \in Filters :
           /\ fdata[f] = NULL
           /\ fdata' = [fdata EXCEPT ![f] =
                  [fid |-> wline[w].id, type |-> wline[w].type,
                   subtype |-> wline[w].subtype, size |-> wline[w].size,
                   rule |-> NULL, count |-> 0]]
           /\ wobj' = [wobj EXCEPT ![w] = f]
    /\ Goto(w, "cfind")
    /\ UNCHANGED <<listeners, rules, chains, ldata, rdata, cdata, chainlock, wline, wptr,
                   todo, thrVars>>

(* It returns NULL, which proc_write checks after it has made the chain.   *)
NoFilterCreated(w) ==
    /\ Scarce
    /\ wpc[w] = "fcreate"
    /\ Goto(w, "cfind")
    /\ UNCHANGED <<objVars, chainlock, wline, wobj, wptr, todo, thrVars>>

(* rtap_chain_find, and rtap_chain_create when there is none.              *)
ChainFind(w) ==
    /\ wpc[w] = "cfind"
    /\ chainlock = NULL
    /\ LET c == ChainWithName(wline[w].name)
       IN  IF c # NULL
           THEN /\ wptr' = [wptr EXCEPT ![w] = c]
                /\ Goto(w, "frule")
                /\ UNCHANGED cdata
           ELSE \E new \in Chains :
                    /\ cdata[new] = NULL
                    /\ cdata' = [cdata EXCEPT ![new] =
                           [name |-> wline[w].name, filters |-> <<>>]]
                    /\ wptr' = [wptr EXCEPT ![w] = new]
                    /\ Goto(w, "cadd")
    /\ UNCHANGED <<listeners, rules, chains, ldata, rdata, fdata, chainlock, wline, wobj,
                   todo, thrVars>>

(* rtap_chain_create returns NULL: the filter, if any, is never freed.     *)
NoChainCreated(w) ==
    /\ Scarce
    /\ wpc[w] = "cfind"
    /\ chainlock = NULL
    /\ ChainWithName(wline[w].name) = NULL
    /\ Finish(w)
    /\ UNCHANGED <<objVars, chainlock, todo, thrVars>>

ChainAdd(w) ==
    /\ wpc[w] = "cadd"
    /\ chainlock = NULL
    /\ chains' = Append(chains, wptr[w])
    /\ Goto(w, "frule")
    /\ UNCHANGED <<listeners, rules, ldata, rdata, cdata, fdata, chainlock, wline, wobj,
                   wptr, todo, thrVars>>

(* The setters of the filter.  rtap_filter_set_rule does not mind that     *)
(* there is no such rule; a 0 is refused, and then the filter goes and the *)
(* new chain stays.                                                        *)
FilterSet(w) ==
    /\ wpc[w] = "frule"
    /\ RulesUnlocked /\ ~ Torn("rules")
    /\ IF \/ wobj[w] = NULL
          \/ wline[w].type = "none" \/ wline[w].subtype = "none" \/ wline[w].rid = 0
       THEN /\ fdata' = Clear(fdata, {wobj[w]})
            /\ Finish(w)
       ELSE /\ fdata' = [fdata EXCEPT ![wobj[w]].rule = RuleWithId(wline[w].rid)]
            /\ Goto(w, "fadd")
            /\ UNCHANGED <<wline, wobj, wptr>>
    /\ UNCHANGED <<listeners, rules, chains, ldata, rdata, cdata, chainlock, todo, thrVars>>

(* rtap_filter_add takes the lock of the chain, which no walk takes: the   *)
(* list grows under the walks.  A chain that another writer has freed has  *)
(* no list any more.                                                       *)
PutFirst(filters, f) == <<f>> \o filters
PutLast(filters, f) == Append(filters, f)

FilterAdd(w) ==
    /\ wpc[w] = "fadd"
    /\ IF cdata[wptr[w]] = NULL
       THEN /\ Goto(w, "oops")
            /\ UNCHANGED <<cdata, wline, wobj, wptr>>
       ELSE /\ cdata' = [cdata EXCEPT ![wptr[w]].filters = PutLast(@, wobj[w])]
            /\ Finish(w)
    /\ UNCHANGED <<listeners, rules, chains, ldata, rdata, fdata, chainlock, todo, thrVars>>

(* rtap_chain_remove frees the first chain of that name; rtap_filter_clear *)
(* does nothing, and the filters of the chain stay allocated.              *)
WalkIgnored == TRUE
WalkOver == chainlock = NULL

ChainRemove(w) ==
    /\ wpc[w] = "cremove"
    /\ WalkOver
    /\ LET c == FirstOf(chains, ChainsNamed(wline[w].name))
       IN  /\ chains' = Without(chains, c)
           /\ cdata' = Clear(cdata, {c})
    /\ Finish(w)
    /\ UNCHANGED <<listeners, rules, ldata, rdata, fdata, chainlock, todo, thrVars>>

(* rtap_chain_clear, of rtap_filter_exit: no line that a user can write    *)
(* leads to it.                                                            *)
ChainClear(w) ==
    /\ wpc[w] = "cclear"
    /\ WalkOver
    /\ chains' = <<>>
    /\ cdata' = Clear(cdata, ToSet(chains))
    /\ Finish(w)
    /\ UNCHANGED <<listeners, rules, ldata, rdata, fdata, chainlock, todo, thrVars>>

(* proc_show of the filters reads the identifier of the rule of each       *)
(* filter, and faults, with the lock, where the rule was freed.            *)
FilterShow(w) ==
    /\ wpc[w] = "fshow"
    /\ chainlock = NULL
    /\ IF \A f \in ToSet(Listed) : fdata[f].rule # NULL => rdata[fdata[f].rule] # NULL
       THEN Finish(w) /\ UNCHANGED chainlock
       ELSE Goto(w, "oops") /\ chainlock' = w /\ UNCHANGED <<wline, wobj, wptr>>
    /\ UNCHANGED <<objVars, todo, thrVars>>

----------------------------------------------------------------------------
(* rtap_filter_recv *)

(* (unsigned) size, as in the comparisons of skb->len with an int.         *)
Unsigned(n) == IF n < 0 THEN n + UINT_MOD ELSE n

(* rtap_filter_all; the functions of the other types match nothing.        *)
MatchesShorter(f, n) ==
    /\ n # NULL
    /\ f.type = "all"
    /\ \/ f.subtype = "any"
       \/ /\ f.size # NULL
          /\ \/ f.subtype = "eq" /\ n = Unsigned(f.size)
             \/ f.subtype = "ge" /\ n > Unsigned(f.size)
             \/ f.subtype = "le" /\ n < Unsigned(f.size)

Matches(f, n) ==
    /\ n # NULL
    /\ f.type = "all"
    /\ \/ f.subtype = "any"
       \/ /\ f.size # NULL
          /\ \/ f.subtype = "eq" /\ n = Unsigned(f.size)
             \/ f.subtype = "ge" /\ n >= Unsigned(f.size)
             \/ f.subtype = "le" /\ n <= Unsigned(f.size)

(* A frame arrives, and is cloned.                                         *)
Receive(t, n) ==
    /\ fpc[t] \in {"idle", "done"}
    /\ left[t] > 0
    /\ left' = [left EXCEPT ![t] = @ - 1]
    /\ frame' = [frame EXCEPT ![t] = n]
    /\ fpc' = [fpc EXCEPT ![t] = "lock"]
    /\ due' = [due EXCEPT ![t] = <<>>]
    /\ hits' = [hits EXCEPT ![t] = <<>>]
    /\ out' = [out EXCEPT ![t] = <<>>]
    /\ UNCHANGED <<objVars, chainlock, wrVars, fpos, ftmp, fptr>>

(* list_for_each_entry_safe goes to the n-th filter of chain c and reads   *)
(* at once whether another one follows it.                                 *)
Enter(t, c, n) ==
    /\ fpos' = [fpos EXCEPT ![t] = <<c, n>>]
    /\ ftmp' = [ftmp EXCEPT ![t] = n < Len(FiltersOf(c))]
    /\ fpc' = [fpc EXCEPT ![t] = "visit"]
    /\ chainlock' = t

(* Both loops are over: unlock and free the clone.                         *)
KeepLock == UNCHANGED chainlock
ReleaseLock == chainlock' = NULL

Leave(t) ==
    /\ fpos' = [fpos EXCEPT ![t] = <<NULL, 0>>]
    /\ ftmp' = [ftmp EXCEPT ![t] = FALSE]
    /\ fpc' = [fpc EXCEPT ![t] = "done"]
    /\ ReleaseLock

(* The outer loop goes from chain c, or from the head of the list, to the  *)
(* next chain that has a filter.                                           *)
After(c, d) == c = NULL \/ \E b \in 1 .. d - 1 : chains[b] = c

NextChain(t, c) ==
    LET later == {d \in DOMAIN chains : After(c, d) /\ FiltersOf(chains[d]) # <<>>}
    IN  IF later = {}
        THEN Leave(t)
        ELSE Enter(t, chains[CHOOSE d \in later : \A e \in later : d <= e], 1)

(* To the filter that tmp_f points at, or out of the chain.                *)
OneFilterPerChain(t) == NextChain(t, fpos[t][1])

Advance(t) ==
    IF ftmp[t] THEN Enter(t, fpos[t][1], fpos[t][2] + 1) ELSE NextChain(t, fpos[t][1])

Walk(t) ==
    /\ fpc[t] = "lock"
    /\ chainlock = NULL
    /\ due' = [due EXCEPT ![t] = Listed]
    /\ NextChain(t, NULL)
    /\ UNCHANGED <<objVars, wrVars, frame, fptr, left, hits, out>>

(* rtap_filtertbl[f->type](f, skb): the table has no function for UDP, TCP *)
(* and the numbers beyond ("undefined" here).  A filter that matches       *)
(* counts the frame and invokes its rule.                                  *)
CountWide(n) == n + 1
CountUp(n) == (n + 1) % UINT_MOD

Fault(t) ==
    /\ fpc' = [fpc EXCEPT ![t] = "oops"]
    /\ UNCHANGED <<fptr, fpos, ftmp, chainlock>>

Judge(t, f) ==
    IF fdata[f].type = "undefined"
    THEN Fault(t) /\ UNCHANGED fdata
    ELSE IF ~ Matches(fdata[f], frame[t])
    THEN Advance(t) /\ UNCHANGED <<fdata, fptr>>
    ELSE /\ fdata' = [fdata EXCEPT ![f].count = CountUp(@)]
         /\ IF fdata[f].rule = NULL
            THEN Advance(t) /\ UNCHANGED fptr
            ELSE /\ fptr' = [fptr EXCEPT ![t] = fdata[f].rule]
                 /\ fpc' = [fpc EXCEPT ![t] = "invoke"]
                 /\ UNCHANGED <<fpos, ftmp, chainlock>>

Visit(t) ==
    /\ fpc[t] = "visit"
    /\ IF cdata[fpos[t][1]] = NULL
       THEN Fault(t) /\ UNCHANGED <<fdata, hits>>
       ELSE LET f == FiltersOf(fpos[t][1])[fpos[t][2]]
            IN  Judge(t, f) /\ hits' = [hits EXCEPT ![t] = Append(@, f)]
    /\ UNCHANGED <<listeners, rules, chains, ldata, rdata, cdata, wrVars, frame, left, due,
                   out>>

(* rtap_rule_invoke and the function of the rule.  A rule that was freed   *)
(* is not a rule any more: reading it is as bad as a fault.                *)
Invoke(t) ==
    /\ fpc[t] = "invoke"
    /\ LET r == rdata[fptr[t]]
       IN  IF r = NULL
           THEN Fault(t)
           ELSE IF r.aid = "fwrd" /\ r.l # NULL
           THEN /\ fptr' = [fptr EXCEPT ![t] = r.l]
                /\ fpc' = [fpc EXCEPT ![t] = "send"]
                /\ UNCHANGED <<fpos, ftmp, chainlock>>
           ELSE /\ fptr' = [fptr EXCEPT ![t] = NULL]
                /\ Advance(t)
    /\ UNCHANGED <<objVars, wrVars, frame, left, due, hits, out>>

(* listener_send, to the address and the port in the in_addr of l.         *)
Destination(l) == [addr |-> ldata[l].addr, port |-> ldata[l].ep.port]

Send(t) ==
    /\ fpc[t] = "send"
    /\ IF ldata[fptr[t]] = NULL
       THEN Fault(t) /\ UNCHANGED out
       ELSE /\ out' = [out EXCEPT ![t] = Append(@, Destination(fptr[t]))]
            /\ fptr' = [fptr EXCEPT ![t] = NULL]
            /\ Advance(t)
    /\ UNCHANGED <<objVars, wrVars, frame, left, due, hits>>

----------------------------------------------------------------------------
WriterStep(w) ==
    \/ ListenerCreate(w) \/ ListenerSet(w) \/ ListenerFind(w) \/ ListenerRemove(w)
    \/ ListenerAdd(w) \/ ListenerClear(w) \/ ListenerShow(w)
    \/ RuleCreate(w) \/ RuleTarget(w) \/ RuleFind(w)
    \/ RuleRemove(w) \/ RuleAdd(w) \/ RuleClear(w) \/ RuleShow(w)
    \/ NothingCreated(w) \/ NoFilterCreated(w) \/ NoChainCreated(w)
    \/ FilterCreate(w) \/ ChainFind(w) \/ ChainAdd(w)
    \/ FilterSet(w) \/ FilterAdd(w) \/ ChainRemove(w)
    \/ ChainClear(w) \/ FilterShow(w)

ThreadNext(t) ==
    \/ \E n \in Lens : Receive(t, n)
    \/ Walk(t)
    \/ Visit(t)
    \/ Invoke(t)
    \/ Send(t)

Next ==
    \/ \E w \in Writers : Start(w) \/ WriterStep(w)
    \/ \E t \in Threads : ThreadNext(t)

Spec == Init /\ [][Next]_vars

(* A process and a thread advance, and a spinlock goes to its waiters in   *)
(* turn; nothing makes a frame arrive.                                     *)
LocksChains(w) ==
    \/ ChainFind(w) \/ NoChainCreated(w) \/ ChainAdd(w)
    \/ ChainRemove(w) \/ ChainClear(w) \/ FilterShow(w)

Fairness ==
    /\ \A w \in Writers : SF_vars(LocksChains(w)) /\ WF_vars(WriterStep(w))
    /\ \A t \in Threads : SF_vars(Walk(t)) /\ WF_vars(Visit(t) \/ Invoke(t) \/ Send(t))

FairSpec == Spec /\ Fairness

----------------------------------------------------------------------------
(* Properties *)

(* Every variable has its type.                                            *)
WriterPcs ==
    {"idle", "oops", "lcreate", "lset", "lfind", "lremove", "ladd", "lclear", "rcreate",
     "target", "rfind", "rremove", "radd", "rclear", "fcreate", "cfind", "cadd", "frule",
     "fadd", "cremove", "cclear", "lshow", "rshow", "fshow"}

ObjectTypes ==
    /\ listeners \in Seq(Listeners) /\ rules \in Seq(Rules) /\ chains \in Seq(Chains)
    /\ ldata \in [Listeners -> ListenerRecs \cup {NULL}]
    /\ rdata \in [Rules -> RuleRecs \cup {NULL}]
    /\ cdata \in [Chains -> ChainRecs \cup {NULL}]
    /\ fdata \in [Filters -> FilterRecs \cup {NULL}]

WriterTypes ==
    /\ wpc \in [Writers -> WriterPcs]
    /\ wline \in [Writers -> Written \cup {NULL}]
    /\ wobj \in [Writers -> Listeners \cup Rules \cup Filters \cup {NULL}]
    /\ wptr \in [Writers -> Listeners \cup Rules \cup Chains \cup {NULL}]
    /\ todo \in [Writers -> Seq(Written)]

ThreadTypes ==
    /\ fpc \in [Threads -> {"idle", "lock", "visit", "invoke", "send", "done", "oops"}]
    /\ frame \in [Threads -> Lens \cup {NULL}]
    /\ fpos \in [Threads -> (Chains \cup {NULL}) \X Nat]
    /\ ftmp \in [Threads -> BOOLEAN]
    /\ fptr \in [Threads -> Rules \cup Listeners \cup {NULL}]
    /\ left \in [Threads -> 0 .. Frames]
    /\ due \in [Threads -> Seq(Filters)]
    /\ hits \in [Threads -> Seq(Filters)]
    /\ out \in [Threads -> Seq([addr : 0 .. WORD - 1, port : Nat])]

TypeOK ==
    /\ ObjectTypes
    /\ WriterTypes
    /\ ThreadTypes
    /\ chainlock \in Threads \cup Writers \cup {NULL}

(* What a writer has made and not yet put into a list.                     *)
ListenerMade ==
    [w \in Writers |->
        IF wpc[w] \in {"lset", "lfind", "lremove", "ladd"} THEN wobj[w] ELSE NULL]
RuleMade ==
    [w \in Writers |->
        IF wpc[w] \in {"target", "rfind", "rremove", "radd"} THEN wobj[w] ELSE NULL]
ChainMade == [w \in Writers |-> IF wpc[w] = "cadd" THEN wptr[w] ELSE NULL]
FilterMade ==
    [w \in Writers |->
        IF wpc[w] \in {"cfind", "cadd", "frule", "fadd"} THEN wobj[w] ELSE NULL]

(* No two writers have made the same object, and what they have made is    *)
(* allocated.                                                              *)
MadeOnce(made, data) ==
    /\ \A w \in Writers : made[w] # NULL => made[w] \in DOMAIN data /\ data[made[w]] # NULL
    /\ \A v, w \in Writers : made[v] = made[w] /\ made[v] # NULL => v = w

(* What is listed is allocated, is listed once, and no writer is about to  *)
(* list it again.                                                          *)
ListedOnce(list, made, data) ==
    /\ \A j \in DOMAIN list : data[list[j]] # NULL
    /\ \A j, k \in DOMAIN list : list[j] = list[k] => j = k
    /\ \A j \in DOMAIN list, w \in Writers : made[w] # list[j]

(* The same for the filters of the chains.                                 *)
FiltersListedOnce ==
    /\ \A c \in Chains : \A j \in DOMAIN FiltersOf(c) :
           /\ fdata[FiltersOf(c)[j]] # NULL
           /\ \A w \in Writers : FilterMade[w] # FiltersOf(c)[j]
    /\ \A c, d \in Chains : \A j \in DOMAIN FiltersOf(c), k \in DOMAIN FiltersOf(d) :
           FiltersOf(c)[j] = FiltersOf(d)[k] => c = d /\ j = k

(* What is listed, as long as the lists are whole.                         *)
ListsSound ==
    /\ MadeOnce(ListenerMade, ldata) /\ ListedOnce(listeners, ListenerMade, ldata)
    /\ MadeOnce(RuleMade, rdata) /\ ListedOnce(rules, RuleMade, rdata)
    /\ MadeOnce(ChainMade, cdata) /\ ListedOnce(chains, ChainMade, cdata)
    /\ MadeOnce(FilterMade, fdata) /\ FiltersListedOnce

(* No list is corrupted: no process is in the list of listeners, or of     *)
(* rules, while another takes an entry out of it under no lock, nor takes  *)
(* out what another has taken out, and what is listed anywhere is allocated*)
(* and listed once, though a line is several critical sections.  This is   *)
(* not so for any two processes: it holds where one process at most uses   *)
(* the two lists, or no line takes a single entry out.                     *)
ListsWhole ==
    /\ ~ Torn("listeners") /\ ~ Torn("rules")
    /\ ListsSound

(* A walk stands at a filter of a listed chain, and tmp_f is another one,  *)
(* whatever is written meanwhile.                                          *)
WalkOnList ==
    \A t \in Threads : fpc[t] \in {"visit", "invoke", "send"} =>
        /\ fpos[t][1] \in ToSet(chains)
        /\ fpos[t][2] \in DOMAIN FiltersOf(fpos[t][1])
        /\ ftmp[t] => fpos[t][2] < Len(FiltersOf(fpos[t][1]))

(* The chains are listed, removed and freed under rtap_chains.lock, which  *)
(* a walk holds from its first filter to its last: while a frame goes      *)
(* through them no chain comes or goes, and each changes in one way only,  *)
(* by a filter that rtap_filter_add puts behind its last.                  *)
Grown(c) == \E w \in Writers : cdata'[c] = [cdata[c] EXCEPT !.filters = Append(@, wobj[w])]

ChainsStand ==
    [][\A t \in Threads : fpc[t] \in {"visit", "invoke", "send"} =>
           /\ chains' = chains
           /\ \A c \in Chains : cdata'[c] = cdata[c] \/ Grown(c)]_vars

(* A rule that forwards has a listener ("Cannot find listener identifier", *)
(* rtap_rule_set_action): the listener of a listed rule, the rule of a     *)
(* listed filter, and what a walk is about to use are all still listed.    *)
PointersLive ==
    /\ \A r \in ToSet(rules) : rdata[r].aid = "fwrd" => rdata[r].l \in ToSet(listeners)
    /\ \A c \in ToSet(chains) : \A f \in ToSet(FiltersOf(c)) :
           fdata[f].rule # NULL => fdata[f].rule \in ToSet(rules)
    /\ \A t \in Threads :
           /\ fpc[t] = "invoke" => fptr[t] \in ToSet(rules)
           /\ fpc[t] = "send" => fptr[t] \in ToSet(listeners)

(* "Remove any existing matching listener" (listener_add): no two listeners*)
(* have one endpoint.                                                      *)
EndpointsUnique ==
    \A j, k \in DOMAIN listeners :
        ldata[listeners[j]].ep = ldata[listeners[k]].ep => j = k

(* rtap_rule_add removes the rule with the same identifier: no two rules   *)
(* have one identifier, so "rid" in a filter line means one rule.          *)
RuleIdsUnique ==
    \A j, k \in DOMAIN rules : rdata[rules[j]].rid = rdata[rules[k]].rid => j = k

(* "rtap_filter id: designates order of operation" (filter.h): where a user*)
(* writes the filters of a chain in the order of their identifiers, they   *)
(* see a frame in that order, however the list grows under the walk.       *)
FilterOrder ==
    \A t \in Threads, c \in ToSet(chains) : \A j, k \in DOMAIN hits[t] :
        j < k /\ {hits[t][j], hits[t][k]} \subseteq ToSet(FiltersOf(c))
            => fdata[hits[t][j]].fid <= fdata[hits[t][k]].fid

(* The hits h of a walk give every filter of d the frame, in the order of d,*)
(* and no filter twice.                                                    *)
Complete(d, h) ==
    /\ \A j, k \in DOMAIN h : h[j] = h[k] => j = k
    /\ \A j \in DOMAIN d : d[j] \in ToSet(h)
    /\ \A j, k \in DOMAIN d, m, n \in DOMAIN h :
           h[m] = d[j] /\ h[n] = d[k] /\ j < k => m < n

(* A frame is given once to every filter that was listed when its walk     *)
(* began, in the order of the lists, and at most once to one that is added *)
(* meanwhile.                                                              *)
WalkComplete ==
    \A t \in Threads : fpc[t] = "done" => Complete(due[t], hits[t])

(* What the names of the subtypes say ("Equal to size", "Greater than,     *)
(* equal to size", "Less than, equal to size").                            *)
Accepts(f, n) ==
    /\ n # NULL
    /\ f.type = "all"
    /\ CASE f.subtype = "any" -> TRUE
         [] f.subtype = "eq" -> f.size # NULL /\ n = f.size
         [] f.subtype = "ge" -> f.size # NULL /\ n >= f.size
         [] f.subtype = "le" -> f.size # NULL /\ n <= f.size
         [] OTHER -> FALSE

(* The filters that pass a frame on; where their listener is, and where an *)
(* address of struct in_addr leads.                                        *)
Forwards(f, n) ==
    /\ Accepts(fdata[f], n)
    /\ fdata[f].rule # NULL
    /\ rdata[fdata[f].rule].aid = "fwrd"

Target(f) == ldata[rdata[fdata[f].rule].l].ep
Reached(to) == [ip |-> inet_ntoa(to.addr), port |-> to.port]

(* How many of the first k filters of h pass the frame on.                 *)
Taken(h, n, k) == Cardinality({j \in 1 .. k : Forwards(h[j], n)})

(* The datagrams o are what the first m of h send: one for each filter that*)
(* passes the frame on, in their order.                                    *)
SentFor(o, h, n, m) ==
    /\ Len(o) = Taken(h, n, m)
    /\ \A k \in 1 .. m : Forwards(h[k], n) => Reached(o[Taken(h, n, k)]) = Target(h[k])

(* When a walk is over, its frame has been sent, in order, to the address  *)
(* and port that were written for the listener of every filter that it     *)
(* met, accepts it and has a rule that forwards, and to nobody else.       *)
SentAsConfigured ==
    [][\A t \in Threads : fpc[t] # "done" /\ fpc'[t] = "done" =>
           SentFor(out'[t], hits'[t], frame[t], Len(hits'[t]))]_vars

(* A listener whose line held a dotted quad has that address, which        *)
(* inet_ntoa gives back; any other text is taken too (inet_aton).          *)
DottedQuad(ip) == Len(ip) = 4 /\ ToSet(ip) \subseteq 0 .. OCTET - 1

AddressAsWritten ==
    \A l \in Listeners :
        ldata[l] # NULL /\ DottedQuad(ldata[l].ep.ip)
            => inet_ntoa(ldata[l].addr) = ldata[l].ep.ip

(* Of the objects that the four _create functions allocate, two kinds of   *)
(* step lose one: a chain is removed, and its filters stay allocated       *)
(* (rtap_filter_clear does nothing), or cannot be made for a filter that   *)
(* is.  Every other object is listed or in the hands of a writer until it  *)
(* is freed, whatever line is refused and whatever allocation fails.  The  *)
(* socket of a listener does not count here: each one that is destroyed    *)
(* leaves its socket open.                                                 *)
Held == {wobj[w] : w \in Writers} \cup {wptr[w] : w \in Writers}

Lost ==
    {l \in Listeners : ldata[l] # NULL /\ l \notin ToSet(listeners) \cup Held}
        \cup {r \in Rules : rdata[r] # NULL /\ r \notin ToSet(rules) \cup Held}
        \cup {c \in Chains : cdata[c] # NULL /\ c \notin ToSet(chains) \cup Held}
        \cup {f \in Filters : fdata[f] # NULL /\ f \notin ToSet(Listed) \cup Held}

LossesKnown ==
    [][\A x \in Lost' \ Lost :
           \/ x \in ToSet(Listed) /\ x \in Filters
           \/ \E w \in Writers : wobj[w] = x /\ wpc[w] = "cfind"]_vars

(* A frame that a thread has received gets through the filters.            *)
FrameDispatched == \A t \in Threads : fpc[t] = "lock" ~> fpc[t] = "done"

(* A line written to listeners, rules or filters takes effect or fails.    *)
CommandReturns == \A w \in Writers : wpc[w] # "idle" ~> wpc[w] = "idle"
=============================================================================
