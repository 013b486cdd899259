------------------------------ MODULE StatsProofs ------------------------------
(***************************************************************************)
(* The list of stats.c holds an identifier twice only if two calls of      *)
(* stats_add have overlapped, and the row for all is the sum of the        *)
(* entries and of what they took with them, for any number of callers,     *)
(* identifiers and events and any width of the counters.                   *)
(***************************************************************************)
EXTENDS Stats, SeqLemmas

Entries == [fid : Fids, row : Row]

----------------------------------------------------------------------------
(* Rows and their sums *)

Counts == [Columns -> Nat]

(* Rows and events are counts.                                             *)
LEMMA RowCounts ==
    ASSUME StatsAssumption
    PROVE  /\ Row \subseteq Counts /\ Zero \in Row
           /\ \A event \in {Forwarded, Dropped, Error} : event \in Counts
<1>1. 0 .. CTR_MOD - 1 \subseteq Nat /\ 0 \in 0 .. CTR_MOD - 1
  BY DEF StatsAssumption
<1>. QED
  BY <1>1 DEF Row, Counts, Columns, Zero, Forwarded, Dropped, Error

(* The sum of two of them, modulo CTR_MOD, is a row.                       *)
LEMMA PlusInRow ==
    ASSUME StatsAssumption, NEW a \in Counts, NEW b \in Counts
    PROVE  Plus(a, b) \in Row
<1>1. \A c \in Columns : a[c] + b[c] \in Nat
  BY DEF Counts
<1>2. \A c \in Columns : (a[c] + b[c]) % CTR_MOD \in 0 .. CTR_MOD - 1
  BY <1>1, Remainder DEF StatsAssumption
<1>. QED
  BY <1>2 DEF Plus, Row

(* Addition that wraps around is commutative and associative, and Zero is  *)
(* neutral.                                                                *)
LEMMA PlusComm ==
    ASSUME NEW a \in Counts, NEW b \in Counts
    PROVE  Plus(a, b) = Plus(b, a)
<1>1. \A c \in Columns : a[c] + b[c] = b[c] + a[c]
  BY DEF Counts
<1>. QED
  BY <1>1 DEF Plus

LEMMA PlusAssoc ==
    ASSUME StatsAssumption, NEW a \in Counts, NEW b \in Counts, NEW d \in Counts
    PROVE  Plus(Plus(a, b), d) = Plus(a, Plus(b, d))
<1>1. ASSUME NEW c \in Columns
      PROVE  (((a[c] + b[c]) % CTR_MOD) + d[c]) % CTR_MOD
                 = (a[c] + ((b[c] + d[c]) % CTR_MOD)) % CTR_MOD
  <2>. DEFINE x == a[c]
              y == b[c]
              z == d[c]
              r == (y + z) % CTR_MOD
  <2>1. x \in Nat /\ y \in Nat /\ z \in Nat /\ CTR_MOD \in Nat \ {0}
    BY DEF Counts, StatsAssumption
  <2>2. r \in Nat
    <3>1. y + z \in Nat
      BY <2>1
    <3>2. r \in 0 .. CTR_MOD - 1
      BY <2>1, <3>1, Remainder
    <3>. QED
      BY <2>1, <3>2
  <2>. HIDE DEF x, y, z
  <2>3. (((x + y) % CTR_MOD) + z) % CTR_MOD = ((x + y) + z) % CTR_MOD
    <3>1. x + y \in Nat
      BY <2>1
    <3>. QED
      BY <2>1, <3>1, PlusMod
  <2>4. (r + x) % CTR_MOD = ((y + z) + x) % CTR_MOD
    <3>1. y + z \in Nat
      BY <2>1
    <3>. QED
      BY <2>1, <3>1, PlusMod
  <2>. HIDE DEF r
  <2>5. r + x = x + r /\ (x + y) + z = (y + z) + x
    BY <2>1, <2>2
  <2>6. (((x + y) % CTR_MOD) + z) % CTR_MOD = (x + r) % CTR_MOD
    BY <2>3, <2>4, <2>5
  <2>. QED
    BY <2>6 DEF x, y, z, r
<1>. QED
  BY <1>1 DEF Plus

LEMMA PlusZero ==
    ASSUME StatsAssumption, NEW a \in Row
    PROVE  Plus(a, Zero) = a
<1>1. ASSUME NEW c \in Columns PROVE (a[c] + Zero[c]) % CTR_MOD = a[c]
  <2>1. a[c] \in 0 .. CTR_MOD - 1 /\ a[c] + Zero[c] = a[c]
    BY DEF Row, Zero
  <2>. QED
    BY <2>1 DEF StatsAssumption
<1>. QED
  BY <1>1 DEF Plus, Row

(* The function of partial sums that Sums chooses is one.                  *)
LEMMA SumsEquation ==
    ASSUME StatsAssumption, NEW s \in Seq(Entries)
    PROVE  /\ Sums(s) \in [0 .. Len(s) -> Row]
           /\ Sums(s)[0] = Zero
           /\ \A n \in 1 .. Len(s) : Sums(s)[n] = Plus(Sums(s)[n - 1], s[n].row)
<1>. DEFINE g == [n \in 1 .. Len(s) |-> [r \in Row |-> Plus(r, s[n].row)]]
            def(sum) == [n \in 0 .. Len(s) |->
                            IF n = 0 THEN Zero ELSE Plus(sum[n - 1], s[n].row)]
<1>0. \A n \in 1 .. Len(s) : s[n].row \in Row
  <2>1. \A n \in 1 .. Len(s) : s[n] \in Entries
    OBVIOUS
  <2>. QED
    BY <2>1 DEF Entries
<1>1. g \in [1 .. Len(s) -> [Row -> Row]]
  <2>1. \A n \in 1 .. Len(s) : s[n].row \in Row
    BY <1>0
  <2>2. \A n \in 1 .. Len(s), r \in Row : Plus(r, s[n].row) \in Row
    BY <2>1, PlusInRow, RowCounts
  <2>. QED
    BY <2>2
<1>2. PICK f : Follows(f, Row, Zero, Len(s), g)
  <2>1. StepsOn(Row, Zero, Len(s), g)
    BY <1>1, RowCounts DEF StepsOn
  <2>. QED
    BY <2>1, Recursion
<1>3. \A n \in 1 .. Len(s) : f[n] = Plus(f[n - 1], s[n].row)
  <2>1. \A n \in 1 .. Len(s) : f[n - 1] \in Row
    BY <1>2 DEF Follows
  <2>. QED
    BY <1>2, <2>1 DEF Follows
<1>4. f = def(f)
  <2>1. \A n \in 0 .. Len(s) : n # 0 => n \in 1 .. Len(s)
    OBVIOUS
  <2>. QED
    BY <1>2, <1>3, <2>1 DEF Follows
<1>5. Sums(s) = def(Sums(s))
  <2>1. Sums(s) = CHOOSE sum : sum = def(sum)
    BY DEF Sums
  <2>. HIDE DEF def
  <2>. QED
    BY <1>4, <2>1
<1>6. \A n \in 0 .. Len(s) :
          Sums(s)[n] = IF n = 0 THEN Zero ELSE Plus(Sums(s)[n - 1], s[n].row)
  BY <1>5
<1>7. Len(s) \in Nat /\ 0 \in 0 .. Len(s) /\ \A n \in 1 .. Len(s) : n \in 0 .. Len(s) /\ n # 0
  OBVIOUS
<1>8. /\ Sums(s)[0] = Zero
      /\ \A n \in 1 .. Len(s) : Sums(s)[n] = Plus(Sums(s)[n - 1], s[n].row)
  BY <1>6, <1>7
<1>9. \A n \in 0 .. Len(s) : Sums(s)[n] \in Row
  <2>. DEFINE T == {n \in Nat : n <= Len(s) => Sums(s)[n] \in Row}
  <2>1. 0 \in T
    BY <1>8, RowCounts
  <2>2. ASSUME NEW n \in Nat, n \in T, n + 1 <= Len(s) PROVE Sums(s)[n + 1] \in Row
    <3>1. n + 1 \in 1 .. Len(s) /\ (n + 1) - 1 = n /\ Sums(s)[n] \in Row
      BY <2>2, <1>7
    <3>2. s[n + 1].row \in Row
      BY <1>0, <3>1
    <3>3. Plus(Sums(s)[n], s[n + 1].row) \in Row
      BY <3>1, <3>2, RowCounts, PlusInRow
    <3>. QED
      BY <1>8, <3>1, <3>3
  <2>3. \A n \in Nat : n \in T => n + 1 \in T
    BY <2>2
  <2>. HIDE DEF T
  <2>4. \A n \in Nat : n \in T
    BY <2>1, <2>3, NatSet
  <2>. QED
    BY <1>7, <2>4 DEF T
<1>. HIDE DEF def
<1>10. DOMAIN Sums(s) = 0 .. Len(s) /\ Sums(s) = [n \in 0 .. Len(s) |-> Sums(s)[n]]
  BY <1>5 DEF def
<1>. QED
  BY <1>8, <1>9, <1>10

(* The sum of the first n entries depends on nothing else.                 *)
LEMMA SumsAgree ==
    ASSUME StatsAssumption, NEW s \in Seq(Entries), NEW t \in Seq(Entries),
           NEW m \in Nat, m <= Len(s), m <= Len(t),
           \A n \in 1 .. m : s[n] = t[n]
    PROVE  \A n \in 0 .. m : Sums(s)[n] = Sums(t)[n]
<1>. DEFINE T == {n \in Nat : n <= m => Sums(s)[n] = Sums(t)[n]}
<1>1. 0 \in T
  BY SumsEquation
<1>2. ASSUME NEW n \in Nat, n \in T, n + 1 <= m PROVE Sums(s)[n + 1] = Sums(t)[n + 1]
  <2>1. /\ n + 1 \in 1 .. m /\ n + 1 \in 1 .. Len(s) /\ n + 1 \in 1 .. Len(t)
        /\ (n + 1) - 1 = n /\ Sums(s)[n] = Sums(t)[n]
    BY <1>2
  <2>2. /\ Sums(s)[n + 1] = Plus(Sums(s)[n], s[n + 1].row)
        /\ Sums(t)[n + 1] = Plus(Sums(t)[n], t[n + 1].row)
    BY <2>1, SumsEquation
  <2>. QED
    BY <2>1, <2>2
<1>3. \A n \in Nat : n \in T => n + 1 \in T
  BY <1>2
<1>. HIDE DEF T
<1>4. \A n \in Nat : n \in T
  BY <1>1, <1>3, NatSet
<1>. QED
  BY <1>4 DEF T

LEMMA SumRow ==
    ASSUME StatsAssumption, NEW s \in Seq(Entries)
    PROVE  Sum(s) \in Row
<1>1. Len(s) \in 0 .. Len(s)
  OBVIOUS
<1>. QED
  BY <1>1, SumsEquation DEF Sum

(* An entry put last adds its row.                                         *)
LEMMA SumAppend ==
    ASSUME StatsAssumption, NEW s \in Seq(Entries), NEW e \in Entries
    PROVE  Sum(Append(s, e)) = Plus(Sum(s), e.row)
<1>. DEFINE t == Append(s, e)
<1>1. /\ t \in Seq(Entries) /\ Len(s) \in Nat /\ Len(t) = Len(s) + 1
      /\ t[Len(s) + 1] = e /\ \A n \in 1 .. Len(s) : s[n] = t[n]
  OBVIOUS
<1>. HIDE DEF t
<1>2. Sums(s)[Len(s)] = Sums(t)[Len(s)]
  <2>1. Len(s) <= Len(s) /\ Len(s) <= Len(t) /\ Len(s) \in 0 .. Len(s)
    BY <1>1
  <2>. QED
    BY <1>1, <2>1, SumsAgree
<1>3. Sums(t)[Len(t)] = Plus(Sums(t)[Len(s)], e.row)
  <2>1. Len(t) \in 1 .. Len(t) /\ Len(t) - 1 = Len(s) /\ t[Len(t)] = e
    BY <1>1
  <2>. QED
    BY <1>1, <2>1, SumsEquation
<1>. QED
  BY <1>2, <1>3 DEF Sum, t

(* An entry that is changed by d changes the sum by d.                     *)
LEMMA SumChange ==
    ASSUME StatsAssumption, NEW s \in Seq(Entries), NEW t \in Seq(Entries),
           NEW j \in 1 .. Len(s), NEW d \in Counts, Len(t) = Len(s),
           t[j].row = Plus(s[j].row, d),
           \A n \in 1 .. Len(s) : n # j => t[n] = s[n]
    PROVE  Sum(t) = Plus(Sum(s), d)
<1>. DEFINE T == {n \in Nat : j + n <= Len(s) => Sums(t)[j + n] = Plus(Sums(s)[j + n], d)}
<1>0. /\ j \in Nat /\ j - 1 \in Nat /\ Len(s) \in Nat /\ j - 1 <= Len(s) /\ j - 1 \in 0 .. j - 1
      /\ \A n \in 1 .. j - 1 : n \in 1 .. Len(s) /\ n # j
  OBVIOUS
<1>1. 0 \in T
  <2>1. Sums(s)[j - 1] = Sums(t)[j - 1]
    BY <1>0, SumsAgree
  <2>2. /\ Sums(s)[j] = Plus(Sums(s)[j - 1], s[j].row)
        /\ Sums(t)[j] = Plus(Sums(t)[j - 1], t[j].row)
    BY SumsEquation
  <2>3. Sums(s)[j - 1] \in Counts /\ s[j].row \in Counts
    <3>1. j - 1 \in 0 .. Len(s)
      BY <1>0
    <3>2. Sums(s)[j - 1] \in Row
      BY <3>1, SumsEquation
    <3>3. s[j] \in Entries
      OBVIOUS
    <3>. QED
      BY <3>2, <3>3, RowCounts DEF Entries
  <2>4. Plus(Sums(s)[j - 1], Plus(s[j].row, d)) = Plus(Plus(Sums(s)[j - 1], s[j].row), d)
    BY <2>3, PlusAssoc
  <2>5. j + 0 = j
    OBVIOUS
  <2>6. Sums(t)[j] = Plus(Sums(s)[j], d)
    BY <2>1, <2>2, <2>4
  <2>. QED
    BY <2>5, <2>6
<1>2. ASSUME NEW n \in Nat, n \in T, j + (n + 1) <= Len(s)
      PROVE  Sums(t)[j + (n + 1)] = Plus(Sums(s)[j + (n + 1)], d)
  <2>. DEFINE k == j + (n + 1)
  <2>1. /\ k \in 1 .. Len(s) /\ k # j /\ k - 1 = j + n /\ j + n \in 0 .. Len(s)
        /\ Sums(t)[j + n] = Plus(Sums(s)[j + n], d)
    BY <1>2, <1>0
  <2>. HIDE DEF k
  <2>2. /\ Sums(s)[k] = Plus(Sums(s)[j + n], s[k].row)
        /\ Sums(t)[k] = Plus(Sums(t)[j + n], s[k].row)
    BY <2>1, SumsEquation
  <2>3. Sums(s)[j + n] \in Counts /\ s[k].row \in Counts
    <3>1. Sums(s)[j + n] \in Row
      BY <2>1, SumsEquation
    <3>2. s[k] \in Entries
      BY <2>1
    <3>. QED
      BY <3>1, <3>2, RowCounts DEF Entries
  <2>4. Plus(Plus(Sums(s)[j + n], d), s[k].row) = Plus(Sums(s)[j + n], Plus(d, s[k].row))
    BY <2>3, PlusAssoc
  <2>5. Plus(Plus(Sums(s)[j + n], s[k].row), d) = Plus(Sums(s)[j + n], Plus(s[k].row, d))
    BY <2>3, PlusAssoc
  <2>6. Plus(s[k].row, d) = Plus(d, s[k].row)
    BY <2>3, PlusComm
  <2>7. Sums(t)[k] = Plus(Sums(s)[k], d)
    BY <2>1, <2>2, <2>4, <2>5, <2>6
  <2>. QED
    BY <2>7 DEF k
<1>3. \A n \in Nat : n \in T => n + 1 \in T
  BY <1>2
<1>. HIDE DEF T
<1>4. \A n \in Nat : n \in T
  BY <1>1, <1>3, NatSet
<1>5. Len(s) - j \in Nat /\ j + (Len(s) - j) = Len(s)
  BY <1>0
<1>6. Sums(t)[Len(s)] = Plus(Sums(s)[Len(s)], d)
  BY <1>4, <1>5 DEF T
<1>. QED
  BY <1>6 DEF Sum

(* A removed entry takes its row with it.                                  *)
LEMMA SumRemove ==
    ASSUME StatsAssumption, NEW s \in Seq(Entries), NEW j \in 1 .. Len(s)
    PROVE  Sum(s) = Plus(Sum(RemoveAt(s, j)), s[j].row)
<1>. DEFINE t == RemoveAt(s, j)
            d == s[j].row
            T == {n \in Nat : j + n <= Len(s) =>
                      Sums(s)[j + n] = Plus(Sums(t)[(j + n) - 1], d)}
<1>0. /\ j \in Nat /\ j - 1 \in Nat /\ Len(s) \in Nat /\ j - 1 <= Len(s) /\ j - 1 \in 0 .. j - 1
      /\ \A n \in 1 .. j - 1 : n \in 1 .. Len(s) /\ n # j
  OBVIOUS
<1>1. /\ t \in Seq(Entries) /\ Len(t) = Len(s) - 1
      /\ \A n \in 1 .. Len(s) - 1 : t[n] = IF n < j THEN s[n] ELSE s[n + 1]
  BY RemoveAtProperties
<1>2. d \in Counts
  <2>1. s[j] \in Entries
    OBVIOUS
  <2>. QED
    BY <2>1, RowCounts DEF Entries
<1>. HIDE DEF t
<1>3. 0 \in T
  <2>1. j - 1 <= Len(t) /\ \A n \in 1 .. j - 1 : s[n] = t[n]
    BY <1>0, <1>1
  <2>2. Sums(s)[j - 1] = Sums(t)[j - 1]
    <3>. DEFINE m == j - 1
    <3>1. /\ m \in Nat /\ m <= Len(s) /\ m <= Len(t) /\ m \in 0 .. m
          /\ \A n \in 1 .. m : s[n] = t[n]
      BY <1>0, <2>1
    <3>. HIDE DEF m
    <3>2. \A n \in 0 .. m : Sums(s)[n] = Sums(t)[n]
      BY <1>1, <3>1, SumsAgree
    <3>. QED
      BY <3>1, <3>2 DEF m
  <2>3. Sums(s)[j] = Plus(Sums(s)[j - 1], d)
    BY SumsEquation
  <2>4. j + 0 = j /\ (j + 0) - 1 = j - 1
    BY <1>0
  <2>. QED
    BY <2>2, <2>3, <2>4
<1>4. ASSUME NEW n \in Nat, n \in T, j + (n + 1) <= Len(s)
      PROVE  Sums(s)[j + (n + 1)] = Plus(Sums(t)[(j + (n + 1)) - 1], d)
  <2>. DEFINE k == j + n
  <2>1. /\ k \in 1 .. Len(t) /\ k + 1 \in 1 .. Len(s) /\ (k + 1) - 1 = k /\ k - 1 \in 0 .. Len(t)
        /\ j + (n + 1) = k + 1
        /\ Sums(s)[k] = Plus(Sums(t)[k - 1], d)
        /\ t[k] = s[k + 1]
    <3>1. k \in Nat /\ j <= k /\ k + 1 <= Len(s) /\ j + (n + 1) = k + 1
      BY <1>0, <1>4
    <3>2. Sums(s)[k] = Plus(Sums(t)[k - 1], d)
      BY <1>4, <3>1, <1>0
    <3>. HIDE DEF k
    <3>3. k \in 1 .. Len(s) - 1 /\ ~ (k < j)
      BY <1>0, <3>1
    <3>. QED
      BY <1>0, <1>1, <3>1, <3>2, <3>3
  <2>. HIDE DEF k, d
  <2>2. /\ Sums(s)[k + 1] = Plus(Sums(s)[k], t[k].row)
        /\ Sums(t)[k] = Plus(Sums(t)[k - 1], t[k].row)
    BY <1>1, <2>1, SumsEquation
  <2>3. Sums(t)[k - 1] \in Counts /\ t[k].row \in Counts
    <3>1. Sums(t)[k - 1] \in Row
      BY <1>1, <2>1, SumsEquation
    <3>2. t[k] \in Entries
      BY <1>1, <2>1
    <3>. QED
      BY <3>1, <3>2, RowCounts DEF Entries
  <2>4. Plus(Plus(Sums(t)[k - 1], d), t[k].row) = Plus(Sums(t)[k - 1], Plus(d, t[k].row))
    BY <1>2, <2>3, PlusAssoc
  <2>5. Plus(Plus(Sums(t)[k - 1], t[k].row), d) = Plus(Sums(t)[k - 1], Plus(t[k].row, d))
    BY <1>2, <2>3, PlusAssoc
  <2>6. Plus(t[k].row, d) = Plus(d, t[k].row)
    BY <1>2, <2>3, PlusComm
  <2>7. Sums(s)[k + 1] = Plus(Sums(t)[k], d)
    BY <2>1, <2>2, <2>4, <2>5, <2>6
  <2>. QED
    BY <2>1, <2>7
<1>5. \A n \in Nat : n \in T => n + 1 \in T
  BY <1>4
<1>. HIDE DEF T, d
<1>6. \A n \in Nat : n \in T
  BY <1>3, <1>5, NatSet
<1>7. Len(s) - j \in Nat /\ j + (Len(s) - j) = Len(s)
  BY <1>0
<1>8. Sums(s)[Len(s)] = Plus(Sums(t)[Len(s) - 1], d)
  BY <1>6, <1>7 DEF T
<1>. QED
  BY <1>1, <1>8 DEF Sum, t, d

----------------------------------------------------------------------------
(* An identifier that is listed twice *)

(* An identifier that is listed while a stats_add is about to append it    *)
(* has been appended by another call since: the calls have overlapped.     *)
AddsRaced ==
    \A p \in Callers, j \in DOMAIN rows : fid[p] = rows[j].fid => rows[j].fid \in raced

(* DuplicatesRaced with what makes it inductive.                           *)
RacedInv ==
    /\ rows \in Seq(Entries)
    /\ pc \in [Callers -> {"idle", "append", "show"}]
    /\ fid \in [Callers -> Fids \cup {NULL}]
    /\ \A p \in Callers : pc[p] = "append" => fid[p] \in Fids
    /\ AddsRaced
    /\ DuplicatesRaced

LEMMA InitRacedInv == Init => RacedInv
<1>1. Init => rows = <<>> /\ pc = [p \in Callers |-> "idle"] /\ fid = [p \in Callers |-> NULL]
  BY DEF Init
<1>2. <<>> \in Seq(Entries) /\ DOMAIN <<>> = {}
  OBVIOUS
<1>. QED
  BY <1>1, <1>2 DEF RacedInv, AddsRaced, DuplicatesRaced

(* The search finds an entry if there is one.                              *)
LEMMA FoundEntry ==
    ASSUME rows \in Seq(Entries), NEW f
    PROVE  /\ Found(f) \subseteq 1 .. Len(rows)
           /\ \A j \in Found(f) : rows[j].fid = f
           /\ Found(f) = {} => \A j \in 1 .. Len(rows) : rows[j].fid # f
<1>. DEFINE hits == {j \in 1 .. Len(rows) : rows[j].fid = f}
<1>1. DOMAIN rows = 1 .. Len(rows)
  OBVIOUS
<1>2. ASSUME hits # {} PROVE \E j \in hits : \A i \in 1 .. j - 1 : i \notin hits
  <2>1. hits \subseteq Nat
    OBVIOUS
  <2>. HIDE DEF hits
  <2>2. PICK j \in hits : \A i \in Nat : i < j => i \notin hits
    BY <1>2, <2>1, LeastMember
  <2>3. \A i \in 1 .. j - 1 : i \in Nat /\ i < j
    BY <2>1
  <2>. QED
    BY <2>2, <2>3
<1>3. ASSUME hits # {} PROVE Found(f) # {}
  <2>1. PICK j \in hits : \A i \in 1 .. j - 1 : i \notin hits
    BY <1>2, <1>3
  <2>2. j \in 1 .. Len(rows) /\ 1 .. j - 1 \subseteq 1 .. Len(rows)
    OBVIOUS
  <2>. QED
    BY <1>1, <2>1, <2>2 DEF Found, FirstEntry
<1>. QED
  BY <1>1, <1>3 DEF Found, FirstEntry

(* After stats_remove an identifier is listed twice, or listed at all when *)
(* it was removed, only if it was listed twice before.                     *)
LEMMA DeleteEntryRaced ==
    ASSUME RacedInv, NEW f, DeleteEntry(f)
    PROVE  /\ rows' \in Seq(Entries)
           /\ \A j \in 1 .. Len(rows') : \E m \in 1 .. Len(rows) : rows'[j] = rows[m]
           /\ \A j \in 1 .. Len(rows') : rows'[j].fid = f => f \in raced
           /\ \A j, k \in 1 .. Len(rows') :
                  rows'[j].fid = rows'[k].fid /\ j # k => rows'[j].fid \in raced
<1>1. /\ rows \in Seq(Entries)
      /\ \A j, k \in 1 .. Len(rows) :
             rows[j].fid = rows[k].fid /\ j # k => rows[j].fid \in raced
  BY DEF RacedInv, DuplicatesRaced
<1>2. CASE Found(f) = {} /\ rows' = rows
  BY <1>1, <1>2, FoundEntry
<1>3. ASSUME NEW n \in Found(f), rows' = RemoveAt(rows, n) 
      PROVE  /\ rows' \in Seq(Entries)
             /\ \A j \in 1 .. Len(rows') : \E m \in 1 .. Len(rows) : rows'[j] = rows[m]
             /\ \A j \in 1 .. Len(rows') : rows'[j].fid = f => f \in raced
             /\ \A j, k \in 1 .. Len(rows') :
                    rows'[j].fid = rows'[k].fid /\ j # k => rows'[j].fid \in raced
  <2>1. n \in 1 .. Len(rows) /\ rows[n].fid = f
    BY <1>1, FoundEntry
  <2>. DEFINE Up(j) == IF j < n THEN j ELSE j + 1
  <2>2. /\ rows' \in Seq(Entries)
        /\ Len(rows') = Len(rows) - 1
        /\ \A j \in 1 .. Len(rows) - 1 : rows'[j] = IF j < n THEN rows[j] ELSE rows[j + 1]
    BY <1>1, <1>3, <2>1, RemoveAtProperties
  <2>3. \A j \in 1 .. Len(rows') :
            Up(j) \in 1 .. Len(rows) /\ Up(j) # n /\ rows'[j] = rows[Up(j)]
    BY <1>1, <2>1, <2>2
  <2>4. \A j, k \in 1 .. Len(rows') : j # k => Up(j) # Up(k)
    BY <1>1, <2>1
  <2>. HIDE DEF Up
  <2>. QED
    BY <1>1, <2>1, <2>2, <2>3, <2>4
<1>. QED
  BY <1>2, <1>3 DEF DeleteEntry

(* A step that leaves pc and fid alone needs only keep the list in order.  *)
LEMMA RowsChange ==
    ASSUME RacedInv, UNCHANGED <<pc, fid, raced>>,
           rows' \in Seq(Entries),
           \A j \in 1 .. Len(rows') : \E m \in 1 .. Len(rows) : rows'[j].fid = rows[m].fid,
           \A j, k \in 1 .. Len(rows') :
               rows'[j].fid = rows'[k].fid /\ j # k => rows'[j].fid \in raced
    PROVE  RacedInv'
<1>1. DOMAIN rows = 1 .. Len(rows) /\ (DOMAIN rows)' = 1 .. Len(rows')
  BY DEF RacedInv
<1>2. AddsRaced'
  BY <1>1 DEF RacedInv, AddsRaced
<1>3. DuplicatesRaced'
  BY <1>1 DEF DuplicatesRaced
<1>. QED
  BY <1>2, <1>3 DEF RacedInv

(* A step that changes the counts of the entries, but not their fids.      *)
LEMMA CountsChange ==
    ASSUME RacedInv, UNCHANGED <<pc, fid, raced>>,
           rows' \in Seq(Entries), Len(rows') = Len(rows),
           \A j \in 1 .. Len(rows) : rows'[j].fid = rows[j].fid
    PROVE  RacedInv'
<1>1. \A j, k \in 1 .. Len(rows) : rows[j].fid = rows[k].fid /\ j # k => rows[j].fid \in raced
  BY DEF RacedInv, DuplicatesRaced
<1>. QED
  BY <1>1, RowsChange

LEMMA AddRaced ==
    ASSUME RacedInv, NEW p \in Callers, NEW f \in Fids, Add(p, f)
    PROVE  RacedInv'
<1>1. /\ rows' \in Seq(Entries)
      /\ \A j \in 1 .. Len(rows') : \E m \in 1 .. Len(rows) : rows'[j] = rows[m]
      /\ \A j \in 1 .. Len(rows') : rows'[j].fid = f => f \in raced
      /\ \A j, k \in 1 .. Len(rows') :
             rows'[j].fid = rows'[k].fid /\ j # k => rows'[j].fid \in raced
  BY DeleteEntryRaced DEF Add, DeleteOld
<1>2. /\ pc' = [pc EXCEPT ![p] = "append"] /\ fid' = [fid EXCEPT ![p] = f]
      /\ raced' = raced
  BY DEF Add
<1>3. DOMAIN rows = 1 .. Len(rows) /\ (DOMAIN rows)' = 1 .. Len(rows')
  BY <1>1 DEF RacedInv
<1>4. AddsRaced'
  <2>. SUFFICES ASSUME NEW q \in Callers, NEW j \in 1 .. Len(rows'),
                       fid'[q] = rows'[j].fid
                PROVE  rows'[j].fid \in raced
    BY <1>2, <1>3 DEF AddsRaced
  <2>1. CASE q = p
    BY <1>1, <1>2, <2>1 DEF RacedInv
  <2>2. CASE q # p
    <3>1. PICK m \in 1 .. Len(rows) : rows'[j] = rows[m]
      BY <1>1
    <3>2. fid[q] = rows[m].fid
      BY <1>2, <2>2, <3>1 DEF RacedInv
    <3>. QED
      BY <1>3, <3>1, <3>2 DEF RacedInv, AddsRaced
  <2>. QED
    BY <2>1, <2>2
<1>5. DuplicatesRaced'
  BY <1>1, <1>2, <1>3 DEF DuplicatesRaced
<1>. QED
  BY <1>1, <1>2, <1>4, <1>5 DEF RacedInv

(* An append: whoever else is about to append the identifier, or has, has  *)
(* overlapped with it.                                                     *)
LEMMA AddTailRaced ==
    ASSUME StatsAssumption, RacedInv, NEW p \in Callers, AddTail(p)
    PROVE  RacedInv'
<1>. DEFINE f == fid[p]
            e == [fid |-> f, row |-> Zero]
<1>1. /\ pc[p] = "append" /\ f \in Fids
      /\ pc' = [pc EXCEPT ![p] = "idle"] /\ fid' = [fid EXCEPT ![p] = NULL]
      /\ rows' = Append(rows, e)
      /\ raced' = raced \cup {g \in {f} : \E q \in Callers \ {p} : fid[q] = g}
  BY DEF AddTail, AddReturn, RacedInv
<1>2. e \in Entries
  BY <1>1 DEF Entries, Row, Zero, StatsAssumption
<1>3. /\ rows' \in Seq(Entries)
      /\ Len(rows') = Len(rows) + 1
      /\ \A j \in 1 .. Len(rows) + 1 : rows'[j] = IF j = Len(rows) + 1 THEN e ELSE rows[j]
  <2>. HIDE DEF e
  <2>. QED
    BY <1>1, <1>2, AppendMembers DEF RacedInv
<1>4. e.fid = f
  OBVIOUS
<1>5. DOMAIN rows = 1 .. Len(rows) /\ (DOMAIN rows)' = 1 .. Len(rows')
  BY <1>3 DEF RacedInv
<1>6. \A j \in 1 .. Len(rows) : rows[j].fid = f => f \in raced
  BY <1>5 DEF RacedInv, AddsRaced
<1>. HIDE DEF e
<1>7. AddsRaced'
  <2>. SUFFICES ASSUME NEW q \in Callers, NEW j \in 1 .. Len(rows'),
                       fid'[q] = rows'[j].fid
                PROVE  rows'[j].fid \in raced'
    BY <1>5 DEF AddsRaced
  <2>1. CASE q = p
    <3>1. rows'[j] \in Entries
      BY <1>3
    <3>2. rows'[j].fid \in Fids
      BY <3>1 DEF Entries
    <3>. QED
      BY <1>1, <2>1, <3>2 DEF RacedInv, StatsAssumption
  <2>2. CASE q # p
    <3>1. fid'[q] = fid[q]
      BY <1>1, <2>2 DEF RacedInv
    <3>2. CASE j = Len(rows) + 1
      BY <1>1, <1>3, <1>4, <2>2, <3>1, <3>2
    <3>3. CASE j # Len(rows) + 1
      <4>1. j \in 1 .. Len(rows) /\ rows'[j] = rows[j]
        BY <1>3, <3>3 DEF RacedInv
      <4>. QED
        BY <1>1, <1>5, <3>1, <4>1 DEF RacedInv, AddsRaced
    <3>. QED
      BY <3>2, <3>3
  <2>. QED
    BY <2>1, <2>2
<1>8. DuplicatesRaced'
  <2>. SUFFICES ASSUME NEW j \in 1 .. Len(rows'), NEW k \in 1 .. Len(rows'),
                       rows'[j].fid = rows'[k].fid, j # k
                PROVE  rows'[j].fid \in raced'
    BY <1>5 DEF DuplicatesRaced
  <2>1. CASE j \in 1 .. Len(rows) /\ k \in 1 .. Len(rows)
    <3>1. rows'[j] = rows[j] /\ rows'[k] = rows[k]
      BY <1>3, <2>1 DEF RacedInv
    <3>. QED
      BY <1>1, <1>5, <2>1, <3>1 DEF RacedInv, DuplicatesRaced
  <2>2. CASE ~ (j \in 1 .. Len(rows) /\ k \in 1 .. Len(rows))
    <3>1. PICK n \in 1 .. Len(rows) : rows[n].fid = f /\ rows'[j].fid = f
      BY <1>3, <1>4, <2>2 DEF RacedInv
    <3>. QED
      BY <1>1, <1>6, <3>1
  <2>. QED
    BY <2>1, <2>2
<1>9. \A q \in Callers : pc'[q] = "append" => fid'[q] \in Fids
  BY <1>1 DEF RacedInv
<1>. QED
  BY <1>1, <1>3, <1>7, <1>8, <1>9 DEF RacedInv

LEMMA CountRaced ==
    ASSUME StatsAssumption, RacedInv, NEW p, NEW f,
           NEW event \in {Forwarded, Dropped, Error}, Count(p, f, event)
    PROVE  RacedInv'
<1>. DEFINE row(j) == IF j \in Found(f) THEN [rows[j] EXCEPT !.row = Plus(@, event)]
                      ELSE rows[j]
<1>1. rows' = [j \in 1 .. Len(rows) |-> row(j)] /\ UNCHANGED <<pc, fid, raced>>
  BY DEF Count, RacedInv
<1>2. \A j \in 1 .. Len(rows) : row(j) \in Entries /\ row(j).fid = rows[j].fid
  <2>. TAKE j \in 1 .. Len(rows)
  <2>1. rows[j] \in Entries
    BY DEF RacedInv
  <2>2. Plus(rows[j].row, event) \in Row
    BY <2>1, RowCounts, PlusInRow DEF Entries
  <2>. QED
    BY <2>1, <2>2 DEF Entries
<1>. HIDE DEF row
<1>3. Len(rows) \in Nat
  BY DEF RacedInv
<1>4. rows' \in Seq(Entries) /\ Len(rows') = Len(rows)
  BY <1>1, <1>2, <1>3
<1>. QED
  BY <1>1, <1>2, <1>4, CountsChange

LEMMA ResetRaced ==
    ASSUME StatsAssumption, RacedInv, NEW p, NEW f, Reset(p, f)
    PROVE  RacedInv'
<1>1. UNCHANGED <<pc, fid, raced>>
  BY DEF Reset
<1>2. CASE rows' = rows
  BY <1>1, <1>2, CountsChange DEF RacedInv
<1>3. ASSUME NEW n \in Found(f), rows' = [rows EXCEPT ![n].row = Zero] PROVE RacedInv'
  <2>1. n \in 1 .. Len(rows) /\ rows \in Seq(Entries)
    BY FoundEntry DEF RacedInv
  <2>. DEFINE e == [rows[n] EXCEPT !.row = Zero]
  <2>2. e \in Entries /\ e.fid = rows[n].fid
    <3>1. rows[n] \in Entries
      BY <2>1
    <3>2. Zero \in Row
      BY DEF Row, Zero, StatsAssumption
    <3>. QED
      BY <3>1, <3>2 DEF Entries
  <2>3. rows' = [rows EXCEPT ![n] = e]
    BY <1>3
  <2>. HIDE DEF e
  <2>4. /\ rows' \in Seq(Entries) /\ Len(rows') = Len(rows)
        /\ \A j \in 1 .. Len(rows) : rows'[j].fid = rows[j].fid
    <3>1. rows' \in Seq(Entries) /\ Len(rows') = Len(rows)
      BY <2>1, <2>2, <2>3
    <3>2. \A j \in 1 .. Len(rows) : rows'[j] = IF j = n THEN e ELSE rows[j]
      BY <2>1, <2>3
    <3>. QED
      BY <2>2, <3>1, <3>2
  <2>. QED
    BY <1>1, <2>4, CountsChange
<1>. QED
  BY <1>2, <1>3 DEF Reset

LEMMA DeleteRaced ==
    ASSUME RacedInv, NEW p, NEW f, Delete(p, f)
    PROVE  RacedInv'
<1>1. UNCHANGED <<pc, fid, raced>> /\ DeleteEntry(f)
  BY DEF Delete
<1>. QED
  BY <1>1, DeleteEntryRaced, RowsChange

LEMMA NextRacedInv == StatsAssumption /\ RacedInv /\ [Next]_vars => RacedInv'
<1>. SUFFICES ASSUME StatsAssumption, RacedInv, [Next]_vars PROVE RacedInv'
  OBVIOUS
<1>1. CASE UNCHANGED vars
  BY <1>1 DEF vars, RacedInv, AddsRaced, DuplicatesRaced
<1>2. ASSUME NEW p \in Callers, AddFails(p) PROVE RacedInv'
  <2>1. /\ rows' = rows /\ raced' = raced
        /\ pc' = [pc EXCEPT ![p] = "idle"] /\ fid' = [fid EXCEPT ![p] = NULL]
    BY <1>2 DEF AddFails, AddReturn
  <2>2. ASSUME NEW j \in DOMAIN rows PROVE rows[j].fid # NULL
    <3>1. rows[j] \in Entries
      BY DEF RacedInv
    <3>. QED
      BY <3>1 DEF Entries, StatsAssumption
  <2>3. AddsRaced'
    BY <2>1, <2>2 DEF RacedInv, AddsRaced
  <2>4. DuplicatesRaced'
    BY <2>1 DEF RacedInv, DuplicatesRaced
  <2>. QED
    BY <2>1, <2>3, <2>4 DEF RacedInv
<1>3. ASSUME NEW p \in Callers, Clear(p) PROVE RacedInv'
  BY <1>3 DEF Clear, RacedInv, AddsRaced, DuplicatesRaced
<1>4. ASSUME NEW p \in Callers, Show(p) \/ ShowColumn(p) \/ ShowRows(p) PROVE RacedInv'
  BY <1>4 DEF Show, ShowColumn, ShowRows, RacedInv, AddsRaced, DuplicatesRaced
<1>. QED
  BY <1>1, <1>2, <1>3, <1>4, DeleteRaced, AddRaced, AddTailRaced, CountRaced, ResetRaced
     DEF Next

(* "Remove any duplicates" (stats_add): an identifier is listed twice only *)
(* if two calls of stats_add for it have overlapped.                       *)
THEOREM DuplicatesOnlyRaced == Spec => []DuplicatesRaced
<1>1. RacedInv => DuplicatesRaced
  BY DEF RacedInv
<1>. QED
  BY <1>1, InitRacedInv, NextRacedInv, StatsAssumption, PTL DEF Spec

----------------------------------------------------------------------------
(* What is counted *)

(* The columns of a table that is being printed are behind the row for all *)
(* by no more than the events since the call began.                        *)
ShownRecent ==
    \A p \in Callers, c \in Columns : shown[p][c] # NULL =>
        \E n \in 0 .. since[p] : (shown[p][c] + n) % CTR_MOD = head[c]

CountInv ==
    /\ TypeOK
    /\ CountedOnce
    /\ \A p \in Callers : pc[p] # "show" => shown[p] = Unread
    /\ ShownRecent

LEMMA InitCountInv == StatsAssumption /\ Init => CountInv
<1>. SUFFICES ASSUME StatsAssumption, Init PROVE CountInv
  OBVIOUS
<1>1. /\ head = Zero /\ rows = <<>> /\ gone = Zero /\ raced = {}
      /\ pc = [p \in Callers |-> "idle"] /\ fid = [p \in Callers |-> NULL]
      /\ shown = [p \in Callers |-> Unread] /\ calls = [p \in Callers |-> Calls]
      /\ since = [p \in Callers |-> 0]
  BY DEF Init
<1>2. TypeOK
  <2>1. head \in Row /\ gone \in Row /\ rows \in Seq([fid : Fids, row : Row])
    BY <1>1, RowCounts
  <2>2. shown \in [Callers -> [Columns -> 0 .. CTR_MOD - 1 \cup {NULL}]]
    BY <1>1 DEF Unread
  <2>3. Calls \in 0 .. Calls
    BY DEF StatsAssumption
  <2>. QED
    BY <1>1, <2>1, <2>2, <2>3 DEF TypeOK
<1>3. CountedOnce
  <2>1. <<>> \in Seq(Entries) /\ Len(<<>>) = 0
    OBVIOUS
  <2>2. Sum(<<>>) = Zero
    BY <2>1, SumsEquation DEF Sum
  <2>. QED
    BY <1>1, <2>2, RowCounts, PlusZero DEF CountedOnce
<1>4. ShownRecent
  BY <1>1 DEF ShownRecent, Unread
<1>. QED
  BY <1>1, <1>2, <1>3, <1>4 DEF CountInv

(* Where the rows that are listed and those that are gone come to the same *)
(* sum as before, and the row for all is left alone, all is counted once.  *)
LEMMA SameTotal ==
    ASSUME StatsAssumption, CountInv, rows' \in Seq(Entries), NEW d \in Row,
           head' = head, Sum(rows) = Plus(Sum(rows'), d), gone' = Plus(gone, d)
    PROVE  CountedOnce' /\ gone' \in Row
<1>1. head = Plus(Sum(rows), gone) /\ gone \in Counts /\ d \in Counts
  BY RowCounts DEF CountInv, CountedOnce, TypeOK
<1>2. Sum(rows') \in Counts
  BY SumRow, RowCounts
<1>3. Plus(Plus(Sum(rows'), d), gone) = Plus(Sum(rows'), Plus(d, gone))
  BY <1>1, <1>2, PlusAssoc
<1>4. Plus(d, gone) = Plus(gone, d)
  BY <1>1, PlusComm
<1>5. gone' \in Row
  BY <1>1, PlusInRow
<1>. QED
  BY <1>1, <1>3, <1>4, <1>5 DEF CountedOnce

LEMMA DeleteEntryCounted ==
    ASSUME StatsAssumption, CountInv, NEW f, DeleteEntry(f), head' = head
    PROVE  CountedOnce' /\ gone' \in Row
<1>1. rows \in Seq(Entries)
  BY DEF CountInv, TypeOK, Entries
<1>2. CASE rows' = rows /\ gone' = gone
  BY <1>2 DEF CountInv, CountedOnce, TypeOK
<1>3. ASSUME NEW n \in Found(f), rows' = RemoveAt(rows, n), gone' = Plus(gone, rows[n].row)
      PROVE  CountedOnce' /\ gone' \in Row
  <2>1. n \in 1 .. Len(rows)
    BY <1>1, FoundEntry
  <2>2. rows[n] \in Entries
    BY <1>1, <2>1
  <2>3. rows[n].row \in Row
    BY <2>2 DEF Entries
  <2>4. rows' \in Seq(Entries) /\ Sum(rows) = Plus(Sum(rows'), rows[n].row)
    BY <1>1, <1>3, <2>1, RemoveAtProperties, SumRemove
  <2>. QED
    BY <1>3, <2>3, <2>4, SameTotal
<1>. QED
  BY <1>2, <1>3 DEF DeleteEntry

LEMMA ResetCounted ==
    ASSUME StatsAssumption, CountInv, NEW p, NEW f, Reset(p, f)
    PROVE  CountedOnce' /\ gone' \in Row
<1>1. rows \in Seq(Entries) /\ head' = head
  BY DEF CountInv, TypeOK, Entries, Reset
<1>2. CASE rows' = rows /\ gone' = gone
  BY <1>1, <1>2 DEF CountInv, CountedOnce, TypeOK
<1>3. ASSUME NEW n \in Found(f), rows' = [rows EXCEPT ![n].row = Zero],
             gone' = Plus(gone, rows[n].row)
      PROVE  CountedOnce' /\ gone' \in Row
  <2>1. n \in 1 .. Len(rows)
    BY <1>1, FoundEntry
  <2>2. rows[n] \in Entries
    BY <1>1, <2>1
  <2>3. rows[n].row \in Row
    BY <2>2 DEF Entries
  <2>. DEFINE e == [rows[n] EXCEPT !.row = Zero]
  <2>4. e \in Entries /\ e.row = Zero
    BY <2>2, RowCounts DEF Entries
  <2>5. rows' = [rows EXCEPT ![n] = e]
    BY <1>3
  <2>. HIDE DEF e
  <2>6. rows' \in Seq(Entries) /\ Len(rows') = Len(rows)
    BY <1>1, <2>1, <2>4, <2>5
  <2>7. rows'[n].row = Zero /\ \A j \in 1 .. Len(rows') : j # n => rows[j] = rows'[j]
    BY <1>1, <2>1, <2>4, <2>5, <2>6
  <2>8. rows[n].row = Plus(rows'[n].row, rows[n].row)
    <3>1. Zero \in Counts /\ rows[n].row \in Counts
      BY <2>3, RowCounts
    <3>2. Plus(Zero, rows[n].row) = Plus(rows[n].row, Zero)
      BY <3>1, PlusComm
    <3>3. Plus(rows[n].row, Zero) = rows[n].row
      BY <2>3, PlusZero
    <3>. QED
      BY <2>7, <3>2, <3>3
  <2>9. Sum(rows) = Plus(Sum(rows'), rows[n].row)
    BY <1>1, <2>1, <2>3, <2>6, <2>7, <2>8, RowCounts, SumChange
  <2>. QED
    BY <1>1, <1>3, <2>3, <2>6, <2>9, SameTotal
<1>. QED
  BY <1>2, <1>3 DEF Reset

(* An event goes into the row for all, and into one entry or into none.    *)
LEMMA CountCounted ==
    ASSUME StatsAssumption, CountInv, NEW p, NEW f,
           NEW event \in {Forwarded, Dropped, Error}, Count(p, f, event)
    PROVE  CountedOnce' /\ gone' \in Row /\ head' \in Row
<1>1. /\ rows \in Seq(Entries) /\ head \in Counts /\ gone \in Counts /\ event \in Counts
      /\ head' = Plus(head, event) /\ head = Plus(Sum(rows), gone) /\ gone \in Row
  BY RowCounts DEF CountInv, TypeOK, CountedOnce, Entries, Count, CountForAll
<1>2. Sum(rows) \in Counts
  BY <1>1, SumRow, RowCounts
<1>3. head' \in Row
  BY <1>1, PlusInRow
<1>4. Plus(Plus(Sum(rows), gone), event) = Plus(Sum(rows), Plus(gone, event))
  BY <1>1, <1>2, PlusAssoc
<1>5. CASE Found(f) = {}
  <2>1. rows' = rows /\ gone' = Plus(gone, event)
    <3>1. rows' = [j \in DOMAIN rows |-> rows[j]]
      BY <1>5 DEF Count
    <3>. QED
      BY <1>1, <1>5, <3>1 DEF Count
  <2>2. gone' \in Row
    BY <1>1, <2>1, PlusInRow
  <2>. QED
    BY <1>1, <1>3, <1>4, <2>1, <2>2 DEF CountedOnce
<1>6. CASE Found(f) # {}
  <2>1. PICK n : n \in Found(f)
    BY <1>6
  <2>2. n \in 1 .. Len(rows) /\ \A j \in Found(f) : j = n
    <3>1. Found(f) \subseteq 1 .. Len(rows)
      BY <1>1, FoundEntry
    <3>2. ASSUME NEW j \in Found(f), NEW k \in Found(f) PROVE ~ (j < k)
      <4>1. j \in 1 .. Len(rows) /\ k \in 1 .. Len(rows)
        BY <3>1, <3>2
      <4>2. j < k => j \in 1 .. k - 1
        BY <4>1
      <4>3. rows[j].fid = f /\ \A i \in 1 .. k - 1 : rows[i].fid # f
        BY <3>2 DEF Found, FirstEntry
      <4>. QED
        BY <4>2, <4>3
    <3>3. \A j \in Found(f) : ~ (j < n) /\ ~ (n < j) /\ j \in 1 .. Len(rows) /\ n \in 1 .. Len(rows)
      BY <2>1, <3>1, <3>2
    <3>. QED
      BY <2>1, <3>3
  <2>3. rows[n] \in Entries
    BY <1>1, <2>2
  <2>. DEFINE e == [rows[n] EXCEPT !.row = Plus(@, event)]
  <2>4. e \in Entries /\ e.row = Plus(rows[n].row, event)
    <3>1. rows[n].row \in Counts
      BY <2>3, RowCounts DEF Entries
    <3>2. Plus(rows[n].row, event) \in Row
      BY <1>1, <3>1, PlusInRow
    <3>. QED
      BY <2>3, <3>2 DEF Entries
  <2>5. rows' = [j \in 1 .. Len(rows) |-> IF j = n THEN e ELSE rows[j]]
    <3>1. rows' = [j \in 1 .. Len(rows) |->
                      IF j \in Found(f) THEN [rows[j] EXCEPT !.row = Plus(@, event)]
                      ELSE rows[j]]
      BY <1>1 DEF Count
    <3>2. \A j : j \in Found(f) <=> j = n
      BY <2>1, <2>2
    <3>. QED
      BY <3>1, <3>2
  <2>. HIDE DEF e
  <2>6. \A j \in 1 .. Len(rows) : (IF j = n THEN e ELSE rows[j]) \in Entries
    BY <1>1, <2>4
  <2>7. Len(rows) \in Nat
    BY <1>1
  <2>8. rows' \in Seq(Entries) /\ Len(rows') = Len(rows)
    BY <2>5, <2>6, <2>7
  <2>9. rows'[n].row = Plus(rows[n].row, event) /\ \A j \in 1 .. Len(rows) : j # n => rows'[j] = rows[j]
    BY <2>2, <2>4, <2>5
  <2>10. Sum(rows') = Plus(Sum(rows), event)
    BY <1>1, <2>2, <2>8, <2>9, SumChange
  <2>11. gone' = gone
    BY <1>6 DEF Count
  <2>12. Plus(Plus(Sum(rows), event), gone) = Plus(Sum(rows), Plus(event, gone))
    BY <1>1, <1>2, PlusAssoc
  <2>13. Plus(event, gone) = Plus(gone, event)
    BY <1>1, PlusComm
  <2>. QED
    BY <1>1, <1>3, <1>4, <2>10, <2>11, <2>12, <2>13 DEF CountedOnce
<1>. QED
  BY <1>5, <1>6

(* A step of stats.c that neither counts an event nor prints.              *)
LEMMA QuietStep ==
    ASSUME StatsAssumption, CountInv, RacedInv', NEW p \in Callers,
           UNCHANGED <<head, shown, since>>, pc' \in {pc, [pc EXCEPT ![p] = "append"],
                                                       [pc EXCEPT ![p] = "idle"]},
           pc[p] # "show", calls' = calls \/ Enter(p), raced' \subseteq Fids,
           CountedOnce', gone' \in Row
    PROVE  CountInv'
<1>1. calls' \in [Callers -> 0 .. Calls]
  <2>1. calls \in [Callers -> 0 .. Calls] /\ Calls \in Nat
    BY DEF CountInv, TypeOK, StatsAssumption
  <2>2. CASE Enter(p)
    <3>1. calls[p] - 1 \in 0 .. Calls
      BY <2>1, <2>2 DEF Enter
    <3>. QED
      BY <2>1, <2>2, <3>1 DEF Enter
  <2>. QED
    BY <2>1, <2>2
<1>2. TypeOK'
  BY <1>1 DEF CountInv, TypeOK, RacedInv, Entries
<1>3. \A q \in Callers : pc'[q] # "show" => shown'[q] = Unread
  BY DEF CountInv, TypeOK
<1>4. ShownRecent'
  BY DEF CountInv, ShownRecent
<1>. QED
  BY <1>2, <1>3, <1>4 DEF CountInv

(* A caller enters a function.                                             *)
LEMMA EnterCalls ==
    ASSUME StatsAssumption, TypeOK, NEW p \in Callers, Enter(p)
    PROVE  calls' \in [Callers -> 0 .. Calls]
<1>1. calls \in [Callers -> 0 .. Calls] /\ Calls \in Nat
  BY DEF TypeOK, StatsAssumption
<1>2. calls[p] - 1 \in 0 .. Calls
  BY <1>1 DEF Enter
<1>. QED
  BY <1>1, <1>2 DEF Enter

(* An event makes every table that is being printed one event older.       *)
LEMMA CountStep ==
    ASSUME StatsAssumption, CountInv, RacedInv', NEW p \in Callers, NEW f,
           NEW event \in {Forwarded, Dropped, Error}, Count(p, f, event)
    PROVE  CountInv'
<1>1. CountedOnce' /\ gone' \in Row /\ head' \in Row
  BY CountCounted
<1>2. /\ head' = Plus(head, event) /\ Enter(p) /\ UNCHANGED <<pc, fid, shown, raced>>
      /\ since' = [q \in Callers |-> IF pc[q] = "show" THEN since[q] + 1 ELSE since[q]]
  BY DEF Count, CountForAll
<1>3. calls' \in [Callers -> 0 .. Calls]
  BY <1>2, EnterCalls DEF CountInv
<1>4. since' \in [Callers -> Nat]
  BY <1>2 DEF CountInv, TypeOK
<1>5. TypeOK'
  BY <1>1, <1>2, <1>3, <1>4 DEF CountInv, TypeOK, RacedInv, Entries
<1>6. ShownRecent'
  <2>. SUFFICES ASSUME NEW q \in Callers, NEW c \in Columns, shown[q][c] # NULL
                PROVE  \E n \in 0 .. since'[q] : (shown[q][c] + n) % CTR_MOD = head'[c]
    BY <1>2 DEF ShownRecent
  <2>1. pc[q] = "show"
    BY DEF CountInv, Unread
  <2>2. since'[q] = since[q] + 1 /\ since[q] \in Nat
    BY <1>2, <2>1 DEF CountInv, TypeOK
  <2>3. PICK n \in 0 .. since[q] : (shown[q][c] + n) % CTR_MOD = head[c]
    BY DEF CountInv, ShownRecent
  <2>. DEFINE a == shown[q][c] + n
              d == event[c]
  <2>4. a \in Nat /\ d \in {0, 1} /\ shown[q][c] \in Nat /\ CTR_MOD \in Nat \ {0}
    <3>1. shown[q][c] \in 0 .. CTR_MOD - 1
      BY DEF CountInv, TypeOK
    <3>. QED
      BY <2>2, <3>1 DEF Columns, Forwarded, Dropped, Error, StatsAssumption
  <2>5. head'[c] = ((a % CTR_MOD) + d) % CTR_MOD
    BY <1>2, <2>3 DEF Plus
  <2>6. shown[q][c] + (n + d) = a + d /\ n + d \in 0 .. since'[q]
    BY <2>2, <2>4
  <2>. HIDE DEF a, d
  <2>7. ((a % CTR_MOD) + d) % CTR_MOD = (a + d) % CTR_MOD
    BY <2>4, PlusMod
  <2>. QED
    BY <2>5, <2>6, <2>7
<1>. QED
  BY <1>1, <1>2, <1>5, <1>6 DEF CountInv

LEMMA ShowStep ==
    ASSUME StatsAssumption, CountInv, RacedInv', NEW p \in Callers, Show(p)
    PROVE  CountInv'
<1>1. /\ Enter(p) /\ pc' = [pc EXCEPT ![p] = "show"]
      /\ UNCHANGED <<head, rows, fid, shown, gone, raced, since>>
  BY DEF Show
<1>2. calls' \in [Callers -> 0 .. Calls]
  BY <1>1, EnterCalls DEF CountInv
<1>3. TypeOK' /\ CountedOnce'
  BY <1>1, <1>2 DEF CountInv, TypeOK, RacedInv, Entries, CountedOnce
<1>4. \A q \in Callers : pc'[q] # "show" => shown'[q] = Unread
  BY <1>1 DEF CountInv, TypeOK
<1>5. ShownRecent'
  BY <1>1 DEF CountInv, ShownRecent
<1>. QED
  BY <1>3, <1>4, <1>5 DEF CountInv

LEMMA ShowColumnStep ==
    ASSUME StatsAssumption, CountInv, RacedInv', NEW p \in Callers, ShowColumn(p)
    PROVE  CountInv'
<1>1. PICK c \in Columns : shown' = [shown EXCEPT ![p][c] = head[c]]
  BY DEF ShowColumn
<1>2. pc[p] = "show" /\ UNCHANGED <<head, rows, pc, fid, calls, gone, raced, since>>
  BY DEF ShowColumn
<1>3. /\ shown \in [Callers -> [Columns -> 0 .. CTR_MOD - 1 \cup {NULL}]]
      /\ head \in [Columns -> 0 .. CTR_MOD - 1] /\ since \in [Callers -> Nat]
  BY DEF CountInv, TypeOK, Row
<1>4. shown' \in [Callers -> [Columns -> 0 .. CTR_MOD - 1 \cup {NULL}]]
  BY <1>1, <1>3
<1>5. TypeOK' /\ CountedOnce'
  BY <1>2, <1>4 DEF CountInv, TypeOK, RacedInv, Entries, CountedOnce
<1>6. \A q \in Callers : pc'[q] # "show" => shown'[q] = Unread
  BY <1>1, <1>2, <1>3 DEF CountInv
<1>7. ShownRecent'
  <2>. SUFFICES ASSUME NEW q \in Callers, NEW d \in Columns, shown'[q][d] # NULL
                PROVE  \E n \in 0 .. since[q] : (shown'[q][d] + n) % CTR_MOD = head[d]
    BY <1>2 DEF ShownRecent
  <2>1. CASE q = p /\ d = c
    <3>1. shown'[q][d] = head[c] /\ head[c] \in 0 .. CTR_MOD - 1 /\ 0 \in 0 .. since[q]
      BY <1>1, <1>3, <2>1
    <3>2. (head[c] + 0) % CTR_MOD = head[c]
      BY <3>1 DEF StatsAssumption
    <3>. QED
      BY <2>1, <3>1, <3>2
  <2>2. CASE ~ (q = p /\ d = c)
    <3>1. shown'[q][d] = shown[q][d]
      BY <1>1, <1>3, <2>2
    <3>. QED
      BY <3>1 DEF CountInv, ShownRecent
  <2>. QED
    BY <2>1, <2>2
<1>. QED
  BY <1>5, <1>6, <1>7 DEF CountInv

LEMMA ShowRowsStep ==
    ASSUME StatsAssumption, CountInv, RacedInv', NEW p \in Callers, ShowRows(p)
    PROVE  CountInv'
<1>1. /\ pc' = [pc EXCEPT ![p] = "idle"] /\ shown' = [shown EXCEPT ![p] = Unread]
      /\ since' = [since EXCEPT ![p] = 0]
      /\ UNCHANGED <<head, rows, fid, calls, gone, raced>>
  BY DEF ShowRows
<1>2. /\ shown \in [Callers -> [Columns -> 0 .. CTR_MOD - 1 \cup {NULL}]]
      /\ since \in [Callers -> Nat] /\ pc \in [Callers -> {"idle", "append", "show"}]
  BY DEF CountInv, TypeOK
<1>3. Unread \in [Columns -> 0 .. CTR_MOD - 1 \cup {NULL}]
  BY DEF Unread
<1>4. TypeOK' /\ CountedOnce'
  BY <1>1, <1>2, <1>3 DEF CountInv, TypeOK, RacedInv, Entries, CountedOnce
<1>5. \A q \in Callers : pc'[q] # "show" => shown'[q] = Unread
  BY <1>1, <1>2 DEF CountInv
<1>6. ShownRecent'
  <2>. SUFFICES ASSUME NEW q \in Callers, NEW c \in Columns, shown'[q][c] # NULL
                PROVE  \E n \in 0 .. since'[q] : (shown'[q][c] + n) % CTR_MOD = head[c]
    BY <1>1 DEF ShownRecent
  <2>1. q # p
    BY <1>1, <1>2 DEF Unread
  <2>2. shown'[q] = shown[q] /\ since'[q] = since[q]
    BY <1>1, <1>2, <2>1
  <2>. QED
    BY <2>2 DEF CountInv, ShownRecent
<1>. QED
  BY <1>4, <1>5, <1>6 DEF CountInv

LEMMA NextCountInv ==
    StatsAssumption /\ RacedInv /\ RacedInv' /\ CountInv /\ [Next]_vars => CountInv'
<1>. SUFFICES ASSUME StatsAssumption, RacedInv, RacedInv', CountInv, [Next]_vars
              PROVE  CountInv'
  OBVIOUS
<1>1. CASE UNCHANGED vars
  <2>1. TypeOK' /\ CountedOnce'
    BY <1>1 DEF vars, CountInv, TypeOK, CountedOnce
  <2>2. ShownRecent'
    BY <1>1 DEF vars, CountInv, ShownRecent
  <2>. QED
    BY <1>1, <2>1, <2>2 DEF vars, CountInv
<1>2. raced \subseteq Fids /\ rows \in Seq(Entries) /\ gone \in Row /\ CountedOnce
  BY DEF CountInv, TypeOK, Entries
<1>3. ASSUME NEW p \in Callers, NEW f, Delete(p, f) PROVE CountInv'
  <2>1. CountedOnce' /\ gone' \in Row
    BY <1>3, DeleteEntryCounted DEF Delete
  <2>. QED
    BY <1>2, <1>3, <2>1, QuietStep DEF Delete, Enter
<1>4. ASSUME NEW p \in Callers, NEW f, Add(p, f) PROVE CountInv'
  <2>1. CountedOnce' /\ gone' \in Row
    BY <1>4, DeleteEntryCounted DEF Add, DeleteOld
  <2>. QED
    BY <1>2, <1>4, <2>1, QuietStep DEF Add, Enter
<1>5. ASSUME NEW p \in Callers, NEW f, Reset(p, f) PROVE CountInv'
  <2>1. CountedOnce' /\ gone' \in Row
    BY <1>5, ResetCounted
  <2>. QED
    BY <1>2, <1>5, <2>1, QuietStep DEF Reset, Enter
<1>6. ASSUME NEW p \in Callers, AddTail(p) PROVE CountInv'
  <2>1. fid[p] \in Fids
    BY <1>6 DEF AddTail, AddReturn, RacedInv
  <2>2. [fid |-> fid[p], row |-> Zero] \in Entries
    BY <2>1, RowCounts DEF Entries
  <2>3. Sum(rows') = Plus(Sum(rows), Zero)
    <3>. DEFINE e == [fid |-> fid[p], row |-> Zero]
    <3>1. e.row = Zero /\ rows' = Append(rows, e)
      BY <1>6 DEF AddTail
    <3>. HIDE DEF e
    <3>2. e \in Entries
      BY <2>2 DEF e
    <3>. QED
      BY <1>2, <3>1, <3>2, SumAppend
  <2>4. Sum(rows') = Sum(rows)
    BY <1>2, <2>3, SumRow, PlusZero
  <2>5. CountedOnce' /\ gone' \in Row
    BY <1>2, <1>6, <2>4 DEF AddTail, CountedOnce
  <2>6. raced' \subseteq Fids
    BY <1>2, <1>6, <2>1 DEF AddTail
  <2>. QED
    BY <1>6, <2>5, <2>6, QuietStep DEF AddTail, AddReturn
<1>7. ASSUME NEW p \in Callers, AddFails(p) PROVE CountInv'
  <2>1. CountedOnce' /\ gone' \in Row
    BY <1>2, <1>7 DEF AddFails, CountedOnce
  <2>. QED
    BY <1>2, <1>7, <2>1, QuietStep DEF AddFails, AddReturn
<1>8. ASSUME NEW p \in Callers, Clear(p) PROVE CountInv'
  <2>1. rows' = <<>> /\ gone' = Plus(gone, Sum(rows)) /\ head' = head /\ Sum(rows) \in Row
    BY <1>2, <1>8, SumRow DEF Clear
  <2>2. <<>> \in Seq(Entries) /\ Len(<<>>) = 0
    OBVIOUS
  <2>3. Sum(rows') = Zero
    BY <2>1, <2>2, SumsEquation DEF Sum
  <2>4. Plus(Zero, Sum(rows)) = Plus(Sum(rows), Zero) /\ Plus(Sum(rows), Zero) = Sum(rows)
    BY <2>1, RowCounts, PlusComm, PlusZero
  <2>5. CountedOnce' /\ gone' \in Row
    BY <2>1, <2>2, <2>3, <2>4, SameTotal
  <2>. QED
    BY <1>2, <1>8, <2>5, QuietStep DEF Clear, Enter
<1>. QED
  BY <1>1, <1>3, <1>4, <1>5, <1>6, <1>7, <1>8,
     CountStep, ShowStep, ShowColumnStep, ShowRowsStep DEF Next

LEMMA CountInvariant == Spec => []CountInv
<1>1. StatsAssumption /\ RacedInv /\ CountInv /\ [Next]_vars => (RacedInv /\ CountInv)'
  BY NextRacedInv, NextCountInv
<1>2. Init => RacedInv /\ CountInv
  BY InitRacedInv, InitCountInv, StatsAssumption
<1>. QED
  BY <1>1, <1>2, StatsAssumption, PTL DEF Spec

(* Every variable of stats.c keeps its type; the counters, whatever is     *)
(* added to them, stay unsigned numbers of the width of an int.            *)
THEOREM StatsTypes == Spec => []TypeOK
<1>1. CountInv => TypeOK
  BY DEF CountInv
<1>. QED
  BY <1>1, CountInvariant, PTL

(* Every event is counted in one entry at most, and the row for all is the *)
(* sum of the entries and of what adds, resets and removals took away.     *)
THEOREM EventsCountedOnce == Spec => []CountedOnce
<1>1. CountInv => CountedOnce
  BY DEF CountInv
<1>. QED
  BY <1>1, CountInvariant, PTL

(* The row for all that proc_show prints without the lock is behind by no  *)
(* more than the events that came while it printed.                        *)
THEOREM TablesRecent == Spec => []TableRecent
<1>1. CountInv => TableRecent
  BY DEF CountInv, CountedOnce, ShownRecent, TableRecent
<1>. QED
  BY <1>1, CountInvariant, PTL
=============================================================================
