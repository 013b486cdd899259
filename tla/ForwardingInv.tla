---------------------------- MODULE ForwardingInv ----------------------------
(***************************************************************************)
(* The inductive invariant of Forwarding, in named parts.                  *)
(***************************************************************************)
EXTENDS Forwarding

(* A writer that is not idle has a line, and the line fits what it does.   *)
WorkOf(w) ==
    /\ wpc[w] # "idle" => wline[w] \in Written
    /\ wpc[w] \in {"lclear", "lshow", "rclear", "rshow", "fshow"} => Entry(wline[w]) = wpc[w]
    /\ wpc[w] \in {"lcreate", "lset", "ladd"} => Entry(wline[w]) = "lcreate"
    /\ wpc[w] \in {"lfind", "lremove"} =>
           Entry(wline[w]) = IF wobj[w] = NULL THEN "lfind" ELSE "lcreate"
    /\ wpc[w] \in {"rcreate", "target", "rfind", "rremove", "radd"}
           => Entry(wline[w]) = "rcreate"
    /\ wpc[w] \in {"fcreate", "cfind", "cadd", "frule", "fadd"}
           => Entry(wline[w]) = "fcreate"

AtWork == \A w \in Writers : WorkOf(w)

(* What it has made is of the kind that its line asks for.                 *)
MadeOf(w) ==
    /\ wpc[w] \in {"idle", "lcreate", "rcreate", "fcreate"} => wobj[w] = NULL
    /\ wpc[w] \in {"lfind", "lremove"} => wobj[w] \in Listeners \cup {NULL}
    /\ wpc[w] \in {"lset", "ladd"} => wobj[w] \in Listeners
    /\ wpc[w] \in {"target", "rfind", "rremove", "radd"} => wobj[w] \in Rules
    /\ wpc[w] \in {"cfind", "cadd", "frule"} => wobj[w] \in Filters \cup {NULL}
    /\ wpc[w] = "fadd" => wobj[w] \in Filters
    /\ wpc[w] = "lremove" => wptr[w] \in Listeners
    /\ wpc[w] = "rremove" => wptr[w] \in Rules
    /\ wpc[w] \in {"cadd", "frule", "fadd"} => wptr[w] \in Chains

MadeKinds == \A w \in Writers : MadeOf(w)

(* A thread that walks holds rtap_chains.lock, and for good if it faults.  *)
WalkHoldsLock ==
    \A t \in Threads : fpc[t] \in {"visit", "invoke", "send", "oops"} => chainlock = t

(* What a walk uses next is a rule or a listener.                          *)
WalkPointers ==
    \A t \in Threads :
        /\ fpc[t] = "invoke" => fptr[t] \in Rules
        /\ fpc[t] = "send" => fptr[t] \in Listeners

FwdInv ==
    /\ TypeOK
    /\ AtWork
    /\ MadeKinds
    /\ ListsSound
    /\ WalkHoldsLock
    /\ WalkOnList
    /\ WalkPointers

(* The walks, by places in the lists: fl are the lists of filters, one     *)
(* after the other, and no filter has two places.                          *)
FilterLists(fl) ==
    /\ fl \in Seq(Seq(Filters))
    /\ \A a, b \in DOMAIN fl : \A j \in DOMAIN fl[a], k \in DOMAIN fl[b] :
           fl[a][j] = fl[b][k] => a = b /\ j = k

(* Place j of list a comes before place k of list b.                       *)
Ahead(a, j, b, k) == a < b \/ (a = b /\ j < k)

Precedes(fl, f, g) ==
    \E a, b \in DOMAIN fl : \E j \in DOMAIN fl[a], k \in DOMAIN fl[b] :
        fl[a][j] = f /\ fl[b][k] = g /\ Ahead(a, j, b, k)

InLists(fl, f) == \E a \in DOMAIN fl : \E j \in DOMAIN fl[a] : fl[a][j] = f

InOrder(fl, s) == \A j, k \in DOMAIN s : j < k => Precedes(fl, s[j], s[k])

(* A walk that has d to serve and stands at place j of list a has given the*)
(* frame to the filters h: to those of d before that place and, past the   *)
(* "visit", to the one at it. If it reads no next entry (~ more), nothing  *)
(* of d follows in list a.                                                 *)
SoFar(fl, d, h, a, j, pc, more) ==
    /\ \A m \in DOMAIN d : InLists(fl, d[m])
    /\ InOrder(fl, d)
    /\ InOrder(fl, h)
    /\ \A m \in DOMAIN h : Precedes(fl, h[m], fl[a][j]) \/ (pc # "visit" /\ h[m] = fl[a][j])
    /\ \A m \in DOMAIN d : Precedes(fl, d[m], fl[a][j]) => d[m] \in ToSet(h)
    /\ pc # "visit" => fl[a][j] \in ToSet(h)
    /\ ~ more => \A k \in DOMAIN fl[a] : k > j => \A m \in DOMAIN d : d[m] # fl[a][k]

(* It is through with the first a lists.                                   *)
Passed(fl, d, h, a) ==
    /\ \A m \in DOMAIN d : InLists(fl, d[m])
    /\ InOrder(fl, d)
    /\ InOrder(fl, h)
    /\ \A m \in DOMAIN h : \E b \in DOMAIN fl : b <= a /\ \E k \in DOMAIN fl[b] : fl[b][k] = h[m]
    /\ \A m \in DOMAIN d : \A b \in DOMAIN fl : \A k \in DOMAIN fl[b] :
           fl[b][k] = d[m] /\ b <= a => d[m] \in ToSet(h)

(* The lists of the chains, in their order.                                *)
Lists == [a \in DOMAIN chains |-> FiltersOf(chains[a])]

Walking == {"visit", "invoke", "send"}

Progress(t) ==
    /\ fpc[t] = "lock" => hits[t] = <<>>
    /\ fpc[t] \in Walking => \E a \in DOMAIN chains :
           /\ chains[a] = fpos[t][1]
           /\ SoFar(Lists, due[t], hits[t], a, fpos[t][2], fpc[t], ftmp[t])
    /\ fpc[t] = "done" => Complete(due[t], hits[t])

(* What makes WalkComplete inductive, beside FwdInv.                       *)
WalksProgress == \A t \in Threads : Progress(t)

(* One process writes lines of a kind: what must not be written by two at  *)
(* once.  E are the entries of the kind, as Start chooses them.            *)
WritesLine(lines, E) == \E j \in DOMAIN lines : Entry(lines[j]) \in E

OneWrites(scripts, E) ==
    \A s \in scripts : \A v, w \in Writers : WritesLine(s[v], E) /\ WritesLine(s[w], E) => v = w

(* A process has such a line in its hands or still to write.               *)
HasLine(w, E) ==
    \/ wpc[w] # "idle" /\ Entry(wline[w]) \in E
    \/ WritesLine(todo[w], E)

OneWriter(E) == \A v, w \in Writers : HasLine(v, E) /\ HasLine(w, E) => v = w

(* Lists with keys: an object of the list has the key that no other has,   *)
(* none has key x, and only y may have it.                                 *)
Unique(list, key) == \A j, k \in DOMAIN list : key[list[j]] = key[list[k]] => j = k

NoneHas(list, key, x) == \A j \in DOMAIN list : key[list[j]] # x

OnlyHas(list, key, x, y) == \A j \in DOMAIN list : key[list[j]] = x => list[j] = y

(* list2 has no more than list, and the keys stand.                        *)
Within(list2, key2, list, key) ==
    \A n \in DOMAIN list2 : \E m \in DOMAIN list :
        list2[n] = list[m] /\ key2[list2[n]] = key[list[m]]

(* What makes EndpointsUnique inductive when one process adds listeners:   *)
(* what it has found of the endpoint of its line still holds.              *)
Endpoint == [l \in Listeners |-> ldata[l].ep]

EndpointOK(w) ==
    /\ wpc[w] \in {"lset", "lfind", "lremove", "ladd"} /\ wobj[w] # NULL =>
           Entry(wline[w]) = "lcreate" /\ Endpoint[wobj[w]] = wline[w].ep
    /\ wpc[w] = "lremove" /\ wobj[w] # NULL =>
           OnlyHas(listeners, Endpoint, wline[w].ep, wptr[w])
    /\ wpc[w] = "ladd" => NoneHas(listeners, Endpoint, wline[w].ep)

EndpointsInv ==
    /\ Unique(listeners, Endpoint)
    /\ \A w \in Writers : EndpointOK(w)

(* The same for RuleIdsUnique.                                             *)
RuleId == [r \in Rules |-> rdata[r].rid]

RuleIdOK(w) ==
    /\ wpc[w] \in {"target", "rfind", "rremove", "radd"} => RuleId[wobj[w]] = wline[w].id
    /\ wpc[w] = "rremove" => OnlyHas(rules, RuleId, wline[w].id, wptr[w])
    /\ wpc[w] = "radd" => NoneHas(rules, RuleId, wline[w].id)

RuleIdsInv ==
    /\ Unique(rules, RuleId)
    /\ \A w \in Writers : RuleIdOK(w)

(* Nothing but a filter is ever lost: what is allocated is listed, or a    *)
(* process that goes on to list or free it has it.                         *)
EmptyHands ==
    \A w \in Writers :
        wpc[w] \in {"idle", "lcreate", "lclear", "lshow", "rcreate", "rclear", "rshow",
                    "fcreate", "cremove", "cclear", "fshow"} => wobj[w] = NULL

AtListener == {"lset", "lfind", "lremove", "ladd", "oops"}
AtRule == {"target", "rfind", "rremove", "radd", "oops"}

ListenersKept ==
    \A l \in Listeners : ldata[l] # NULL =>
        l \in ToSet(listeners) \/ \E w \in Writers : wobj[w] = l /\ wpc[w] \in AtListener

RulesKept ==
    \A r \in Rules : rdata[r] # NULL =>
        r \in ToSet(rules) \/ \E w \in Writers : wobj[w] = r /\ wpc[w] \in AtRule

ChainsKept ==
    \A c \in Chains : cdata[c] # NULL =>
        c \in ToSet(chains) \/ \E w \in Writers : wptr[w] = c /\ wpc[w] = "cadd"

ObjectsKept == EmptyHands /\ ListenersKept /\ RulesKept /\ ChainsKept

(* Filters have addresses of their own.                                    *)
KindsApart == Filters \cap (Listeners \cup Rules \cup Chains) = {}

(* The lines that add or remove chains.  When one process writes them, the *)
(* chain it has found stays listed until it has put its filter there.      *)
FilterLines == {"fcreate", "cremove", "cclear"}

ChainsInHand ==
    \A w \in Writers :
        /\ wpc[w] \in {"frule", "fadd"} => wptr[w] \in ToSet(chains)
        /\ wpc[w] \in {"cremove", "cclear"} => Entry(wline[w]) = wpc[w]

(* No two lines of the processes in us add listeners of one endpoint or    *)
(* rules of one identifier, and none removes a listener: nobody takes a    *)
(* single entry out of a list.                                             *)
SameKey(line, line2) ==
    /\ Entry(line) = Entry(line2)
    /\ \/ Entry(line) = "lcreate" /\ line.ep = line2.ep
       \/ Entry(line) = "rcreate" /\ line.id = line2.id

KeysDiffer(scripts, us) ==
    \A s \in scripts : \A w \in us :
        /\ ~ WritesLine(s[w], {"lfind"})
        /\ \A v \in us : \A j \in DOMAIN s[v], k \in DOMAIN s[w] :
               SameKey(s[v][j], s[w][k]) => v = w /\ j = k

(* The processes in us build up only: they clear no lists either.          *)
NoneClears(scripts, us) ==
    \A s \in scripts : \A w \in us : ~ WritesLine(s[w], {"lclear", "rclear"})

BuildsUp(scripts, us) == KeysDiffer(scripts, us) /\ NoneClears(scripts, us)

(* The lines that lead into the list of listeners or of rules.  Under no   *)
(* lock an entry is taken out of these lists while nobody else is in them: *)
(* one process writes such lines, or no line takes a single entry out.     *)
ListLines ==
    {"lcreate", "lfind", "lclear", "lshow", "rcreate", "rclear", "rshow", "fcreate"}

ListsAlone(scripts) ==
    \A s \in scripts : OneWrites({s}, ListLines) \/ KeysDiffer({s}, Writers)

(* Nobody writes a filter of a type that rtap_filtertbl has no function    *)
(* for.                                                                    *)
TypesKnown ==
    \A line \in Written : Entry(line) = "fcreate" => line.type # "undefined"

(* A line that takes the chain of this name away.                          *)
Removes(line, name) ==
    \/ Entry(line) = "cclear"
    \/ Entry(line) = "cremove" /\ line.name = name

(* The filters of a chain are written in the order of their identifiers,   *)
(* from one removal of the chain to the next.                              *)
Rises(lines) ==
    \A j, k \in DOMAIN lines :
        j < k /\ Entry(lines[j]) = "fcreate" /\ Entry(lines[k]) = "fcreate"
              /\ lines[j].name = lines[k].name
            => \/ lines[j].id <= lines[k].id
               \/ \E i \in DOMAIN lines : j < i /\ i < k /\ Removes(lines[i], lines[k].name)

IdsRise(scripts) == \A s \in scripts : \A w \in Writers : Rises(s[w])

(* The lines whose words mean what they say: an address that is a dotted   *)
(* quad, and a size that is no negative number.                            *)
PlainLine(line) ==
    /\ Entry(line) = "lcreate" =>
           line.ep = [ip |-> line.ep.ip, port |-> line.ep.port] /\ DottedQuad(line.ep.ip)
    /\ Entry(line) = "fcreate" => line.size = NULL \/ line.size >= 0

PlainLines(scripts) ==
    \A s \in scripts : \A w \in Writers : \A line \in ToSet(s[w]) : PlainLine(line)
=============================================================================
