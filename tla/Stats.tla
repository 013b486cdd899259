-------------------------------- MODULE Stats --------------------------------
(***************************************************************************)
(* stats.c: the counters of /proc/rtap/stats, one row per filter           *)
(* identifier and one for all.  Every function takes stats.lock once, and  *)
(* is one action, but for stats_add, which takes it twice, and proc_show,  *)
(* which reads the row for all under no lock.                              *)
(***************************************************************************)
EXTENDS Integers, Sequences, SequencesExt, FiniteSets

CONSTANTS
    Fids,       \* identifiers of filters
    Callers,    \* threads and processes
    Calls,      \* how many calls each of them makes
    CTR_MOD,    \* 2^32: the counters are unsigned int
    NULL

ASSUME StatsAssumption ==
    /\ Fids \subseteq Nat \ {0}
    /\ NULL \notin Fids \cup 0 .. CTR_MOD - 1
    /\ CTR_MOD \in Nat \ {0}
    /\ Calls \in Nat

Columns == {"total", "forwarded", "dropped"}
Zero == [c \in Columns |-> 0]

VARIABLES
    head,       \* stats: the row for all
    rows,       \* stats.list: fid and row of each entry
    pc,         \* per caller, where it is
    fid,        \* per caller, the argument of stats_add
    shown,      \* per caller, the columns of head that proc_show has read
    calls,      \* per caller, the calls still to come
    gone,       \* history: the counts that are in no entry any more, or never were
    raced,      \* history: identifiers that two overlapping adds have appended
    since       \* history: per caller, the events since proc_show began

vars == <<head, rows, pc, fid, shown, calls, gone, raced, since>>

Unread == [c \in Columns |-> NULL]

(* stats_init; the row for all is static.                                  *)
Init ==
    /\ head = Zero
    /\ rows = <<>>
    /\ pc = [p \in Callers |-> "idle"]
    /\ fid = [p \in Callers |-> NULL]
    /\ shown = [p \in Callers |-> Unread]
    /\ calls = [p \in Callers |-> Calls]
    /\ gone = Zero
    /\ raced = {}
    /\ since = [p \in Callers |-> 0]

----------------------------------------------------------------------------
(* Rows and searches *)

PlusWide(row, other) == [c \in Columns |-> row[c] + other[c]]
Plus(row, other) == [c \in Columns |-> (row[c] + other[c]) % CTR_MOD]

(* The sums of the rows of the first n entries, for each n, and of all.    *)
Sums(list) ==
    LET sum[n \in 0 .. Len(list)] ==
            IF n = 0 THEN Zero ELSE Plus(sum[n - 1], list[n].row)
    IN  sum

Sum(list) == Sums(list)[Len(list)]

(* The entries that a search for f stops at: it breaks at the first.       *)
EveryEntry(f, j) == rows[j].fid = f
FirstEntry(f, j) == rows[j].fid = f /\ \A i \in 1 .. j - 1 : rows[i].fid # f

Found(f) == {j \in DOMAIN rows : FirstEntry(f, j)}

Enter(p) == pc[p] = "idle" /\ calls[p] > 0 /\ calls' = [calls EXCEPT ![p] = @ - 1]

----------------------------------------------------------------------------
(* stats_remove, which deletes the entry that it finds.                    *)
KeepAll(f) == UNCHANGED <<rows, gone>>

DeleteEntry(f) ==
    \/ Found(f) = {} /\ UNCHANGED <<rows, gone>>
    \/ \E j \in Found(f) :
           /\ rows' = RemoveAt(rows, j)
           /\ gone' = Plus(gone, rows[j].row)

Delete(p, f) ==
    /\ Enter(p)
    /\ DeleteEntry(f)
    /\ UNCHANGED <<head, pc, fid, shown, raced, since>>

(* stats_add: the removal, then kmalloc, then the append.                  *)
DeleteOld(f) == DeleteEntry(f)

Add(p, f) ==
    /\ Enter(p)
    /\ DeleteOld(f)
    /\ pc' = [pc EXCEPT ![p] = "append"]
    /\ fid' = [fid EXCEPT ![p] = f]
    /\ UNCHANGED <<head, shown, raced, since>>

AddReturn(p) ==
    /\ pc[p] = "append"
    /\ pc' = [pc EXCEPT ![p] = "idle"]
    /\ fid' = [fid EXCEPT ![p] = NULL]

AddTail(p) ==
    /\ AddReturn(p)
    /\ rows' = Append(rows, [fid |-> fid[p], row |-> Zero])
    /\ raced' = raced \cup {f \in {fid[p]} : \E q \in Callers \ {p} : fid[q] = f}
    /\ UNCHANGED <<head, shown, calls, gone, since>>

(* kmalloc returns NULL: the old entry is gone, and no new one comes.      *)
AddFails(p) ==
    /\ AddReturn(p)
    /\ UNCHANGED <<head, rows, shown, calls, gone, raced, since>>

(* stats_clear, by stats_exit.                                             *)
Clear(p) ==
    /\ Enter(p)
    /\ rows' = <<>>
    /\ gone' = Plus(gone, Sum(rows))
    /\ UNCHANGED <<head, pc, fid, shown, raced, since>>

(* stats_forwarded, stats_dropped and stats_error.                         *)
Forwarded == [total |-> 1, forwarded |-> 1, dropped |-> 0]
Dropped == [total |-> 1, forwarded |-> 0, dropped |-> 1]
Error == [total |-> 1, forwarded |-> 0, dropped |-> 0]

ForgetTotal(event) == head' = [Plus(head, event) EXCEPT !.total = head.total]
CountForAll(event) == head' = Plus(head, event)

Count(p, f, event) ==
    /\ Enter(p)
    /\ CountForAll(event)
    /\ rows' = [j \in DOMAIN rows |->
           IF j \in Found(f) THEN [rows[j] EXCEPT !.row = Plus(@, event)] ELSE rows[j]]
    /\ gone' = IF Found(f) = {} THEN Plus(gone, event) ELSE gone
    /\ since' = [q \in Callers |-> IF pc[q] = "show" THEN since[q] + 1 ELSE since[q]]
    /\ UNCHANGED <<pc, fid, shown, raced>>

(* stats_reset, for a line with an identifier above 0; any other line is   *)
(* an error.                                                               *)
Reset(p, f) ==
    /\ Enter(p)
    /\ \/ Found(f) = {} /\ UNCHANGED <<rows, gone>>
       \/ \E j \in Found(f) :
              /\ rows' = [rows EXCEPT ![j].row = Zero]
              /\ gone' = Plus(gone, rows[j].row)
    /\ UNCHANGED <<head, pc, fid, shown, raced, since>>

----------------------------------------------------------------------------
(* proc_show.  The columns of the row for all are the arguments of one     *)
(* call, which C evaluates in any order.                                   *)
Show(p) ==
    /\ Enter(p)
    /\ pc' = [pc EXCEPT ![p] = "show"]
    /\ UNCHANGED <<head, rows, fid, shown, gone, raced, since>>

ShowColumn(p) ==
    /\ pc[p] = "show"
    /\ \E c \in Columns :
           /\ shown[p][c] = NULL
           /\ shown' = [shown EXCEPT ![p][c] = head[c]]
    /\ UNCHANGED <<head, rows, pc, fid, calls, gone, raced, since>>

(* The entries, under the lock, and the return.                            *)
ShowRows(p) ==
    /\ pc[p] = "show"
    /\ \A c \in Columns : shown[p][c] # NULL
    /\ pc' = [pc EXCEPT ![p] = "idle"]
    /\ shown' = [shown EXCEPT ![p] = Unread]
    /\ since' = [since EXCEPT ![p] = 0]
    /\ UNCHANGED <<head, rows, fid, calls, gone, raced>>

Next ==
    \E p \in Callers :
        \/ \E f \in Fids :
               \/ Delete(p, f)
               \/ Add(p, f)
               \/ \E event \in {Forwarded, Dropped, Error} : Count(p, f, event)
               \/ Reset(p, f)
        \/ AddTail(p) \/ AddFails(p)
        \/ Clear(p)
        \/ Show(p) \/ ShowColumn(p) \/ ShowRows(p)

Spec == Init /\ [][Next]_vars

----------------------------------------------------------------------------
(* Properties *)

(* Every variable has its type.                                            *)
Row == [Columns -> 0 .. CTR_MOD - 1]

TypeOK ==
    /\ head \in Row /\ gone \in Row
    /\ rows \in Seq([fid : Fids, row : Row])
    /\ pc \in [Callers -> {"idle", "append", "show"}]
    /\ fid \in [Callers -> Fids \cup {NULL}]
    /\ shown \in [Callers -> [Columns -> 0 .. CTR_MOD - 1 \cup {NULL}]]
    /\ calls \in [Callers -> 0 .. Calls]
    /\ raced \subseteq Fids
    /\ since \in [Callers -> Nat]

(* An event is counted in one entry at most, and none is lost or counted   *)
(* twice by adds, resets and removals, even where an identifier is listed  *)
(* twice: the row for all is the sum of the entries and of what they took  *)
(* with them.                                                              *)
CountedOnce == head = Plus(Sum(rows), gone)

(* "Remove any duplicates" (stats_add): an identifier is listed twice only *)
(* if two adds of it have overlapped.                                      *)
DuplicatesRaced ==
    \A j, k \in DOMAIN rows : rows[j].fid = rows[k].fid /\ j # k => rows[j].fid \in raced

(* What proc_show prints for all, read under no lock, is ahead of nothing  *)
(* and behind by no more than the events that came while it ran: the table *)
(* adds up but for those.                                                  *)
TableRecent ==
    \A p \in Callers, c \in Columns : shown[p][c] # NULL =>
        \E n \in 0 .. since[p] : (shown[p][c] + n) % CTR_MOD = Plus(Sum(rows), gone)[c]
=============================================================================
