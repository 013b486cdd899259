---------------------------- MODULE MCForwarding ----------------------------
(***************************************************************************)
(* Small instances of Forwarding.  Each run chooses the scripts of its     *)
(* writers among the definitions below.                                    *)
(***************************************************************************)
EXTENDS ForwardingInv, TLC

CONSTANTS main, side, l1, l2, l3, r1, r2, r3, c1, c2, g1, g2, g3, g4,
          w1, w2, t1, t2

(* Addresses of two bits a number, so that 5 is no octet, and the text of  *)
(* "127.0.0.1" (test/beacon.sh) once "%d %s" has taken 127 for the         *)
(* identifier: ".0.0.1", where sscanf finds no number at all.              *)
A == [ip |-> <<1, 0, 2, 3>>, port |-> 1]
B == [ip |-> <<1, 0, 2, 3>>, port |-> 2]
Wide == [ip |-> <<1, 5, 2, 3>>, port |-> 1]
Rest == [ip |-> <<>>, port |-> 1]
Closed == [ip |-> <<1, 0, 2, 3>>, port |-> 0]

Hosts == {A, B, Wide, Rest, Closed}

(* The lines of a user, by the file they are written to.                   *)
ReadFile(file) == [file |-> file, first |-> "read"]

AddListener(id, ep) == [file |-> "listeners", first |-> "", id |-> id, ep |-> ep]
RemoveListener(id) == [file |-> "listeners", first |-> "-", id |-> id, ep |-> NULL]
AddNegative(id, ep) == [file |-> "listeners", first |-> "-", id |-> id, ep |-> ep]
ClearListeners == RemoveListener(NULL)

AddRule(id, aid, arg) ==
    [file |-> "rules", first |-> "", id |-> id, aid |-> aid, arg |-> arg]
RemoveRule(id) ==
    [file |-> "rules", first |-> "-", id |-> id, aid |-> "none", arg |-> 0]
ClearRules == RemoveRule(NULL)

AddFilter(name, id, type, rid, subtype, size) ==
    [file |-> "filters", first |-> "", name |-> name, id |-> id, type |-> type,
     rid |-> rid, subtype |-> subtype, size |-> size]
AddAll(name, id, rid) == AddFilter(name, id, "all", rid, "any", NULL)
RemoveChain(name) ==
    [file |-> "filters", first |-> "-", name |-> name, id |-> 0, type |-> "none",
     rid |-> 0, subtype |-> "none", size |-> NULL]

(* One writer configures everything, and replaces a listener and a rule    *)
(* before something points at them.                                        *)
Setup ==
    <<AddListener(1, A), AddListener(2, A), AddListener(1, B), AddRule(1, "drop", 0),
      AddRule(1, "fwrd", 2), AddFilter(main, 1, "all", 1, "ge", 2),
      AddRule(2, "fwrd", 1), AddFilter(main, 2, "all", 2, "le", 1),
      AddAll(side, 1, 2)>>

(* It makes every mistake with a listener or a rule, or with a filter.     *)
Mistakes ==
    <<AddListener(0, A), AddListener(1, NULL), AddListener(2, Rest), RemoveListener(2),
      AddListener(2, Wide), AddListener(2, Closed), AddNegative(3, A), AddListener(1, A),
      AddRule(2, "fwrd", 3), AddRule(0, "drop", 0), AddRule(1, "none", 0),
      AddRule(1, "unknown", 0), AddRule(1, "fwrd", 1), RemoveRule(1),
      AddAll(main, 1, 1)>>

Refusals ==
    <<AddRule(1, "cnt", 0),
      AddFilter(main, 0, "all", 1, "any", NULL), AddFilter(main, 1, "all", 1, "none", NULL),
      AddFilter(main, 1, "all", 2, "any", NULL), AddFilter(main, 2, "other", 1, "any", NULL),
      AddFilter(side, 1, "all", 1, "eq", 1), AddFilter(side, 2, "all", 1, "eq", NULL),
      RemoveChain(NULL)>>

(* Everything is taken down in the order of the pointers, filters first,   *)
(* and built again.                                                        *)
Rebuild ==
    <<AddListener(1, A), AddListener(2, B), AddRule(1, "fwrd", 1), AddAll(main, 1, 1),
      AddAll(main, 2, 1), RemoveListener(2), RemoveListener(2), RemoveChain(main),
      ClearRules, ClearListeners,
      AddListener(1, B), AddRule(1, "fwrd", 1), AddAll(main, 1, 1)>>

(* rmmod, once filters were refused and left their empty chains.  Here     *)
(* frames may still be filtered then, which rtap_exit rules out (System).  *)
Exit(entry) == [file |-> "exit", first |-> entry]

Unload ==
    <<AddListener(1, A), AddRule(1, "drop", 0), AddAll(main, 1, 2), AddAll(side, 1, 2),
      Exit("lclear"), Exit("rclear"), Exit("cclear")>>

(* What two processes write.                                               *)
Pair(first, second) == [w \in Writers |-> IF w = w1 THEN first ELSE second]

Alone == {Pair(s, <<>>) : s \in {Setup, Mistakes, Refusals, Rebuild, Unload}}

(* One makes listeners and rules while another makes filters, or one       *)
(* builds and takes down while another reads.                              *)
Growing ==
    Pair(<<AddListener(1, A), AddRule(1, "fwrd", 1)>>,
         <<AddAll(main, 1, 1), AddAll(side, 1, 1), AddFilter(main, 2, "all", 1, "le", 1)>>)

Apart ==
    {Growing,
     Pair(<<AddListener(1, A), AddRule(1, "fwrd", 1), AddAll(main, 1, 1),
            RemoveChain(main), ClearRules, ClearListeners>>,
          <<ReadFile("rules"), ReadFile("filters"), ReadFile("listeners")>>)}

(* Two processes use the lists of listeners and of rules, but neither takes*)
(* an entry out.                                                           *)
Shared ==
    {Pair(<<AddListener(1, A), AddRule(1, "drop", 0), ReadFile("listeners"), ClearRules>>,
          <<AddListener(2, B), AddRule(2, "cnt", 0), ReadFile("rules"), ClearListeners>>)}

Configures == Alone \cup Apart \cup Shared

(* What the theorem about whole lists assumes: nobody is in a list when an *)
(* entry may be taken out.                                                 *)
ASSUME ListsUsedAlone == ListsAlone(Configures)

(* What the theorems about unique endpoints and identifiers and about lost *)
(* memory assume: one process adds listeners, one rules, one writes filters*)
(* and filters have addresses of their own.                                *)
ASSUME WritersApart ==
    /\ \A E \in {{"lcreate"}, {"rcreate"}} : OneWrites(Configures \ Shared, E)
    /\ OneWrites(Configures, FilterLines)
    /\ KindsApart

(* What the theorem about the order of the filters assumes besides.        *)
ASSUME FiltersRise == IdsRise(Configures)

(* What the theorem about what is sent assumes: not that inet_aton takes   *)
(* anything, as the one who makes mistakes finds.                          *)
ASSUME PlainWords == PlainLines(Configures \ {Pair(Mistakes, <<>>)})

(* What the theorem about lists that only grow assumes.                    *)
ASSUME GrowingBuilds == BuildsUp({Growing}, Writers)

(* Each writer has a chain of its own, and one of them removes it.         *)
Lively ==
    {Pair(<<AddListener(1, A), AddRule(1, "fwrd", 1), AddAll(main, 1, 1)>>,
          <<AddFilter(side, 2, "other", 1, "any", NULL), RemoveChain(side),
            ReadFile("filters")>>)}

(* A listener is removed while a rule forwards to it.                      *)
ListenerFirst ==
    {Pair(<<AddListener(1, A), AddRule(1, "fwrd", 1), AddAll(main, 1, 1),
            RemoveListener(1)>>, <<>>)}

(* The addresses of one kind are alike, and so are the threads: sound where*)
(* no liveness property is checked.                                        *)
Symmetric ==
    Permutations(Listeners) \cup Permutations(Rules) \cup Permutations(Chains)
        \cup Permutations(Filters) \cup Permutations(Threads)
=============================================================================
