----------------------------- MODULE SeqLemmas -----------------------------
(***************************************************************************)
(* What the sequence operations of the models do to the members of a       *)
(* sequence: list_add_tail is Append, list_del is RemoveAt, taking the     *)
(* first entry is Head and Tail.  And what a counter that wraps around     *)
(* remembers of the numbers that were added to it, induction, and sums over*)
(* a finite set.                                                           *)
(***************************************************************************)
EXTENDS SequencesExt, SequenceTheorems, FiniteSetTheorems, WellFoundedInduction, TLAPS

(* RemoveAt moves the members behind the removed place down by one.        *)
LEMMA RemoveAtProperties ==
    ASSUME NEW S, NEW s \in Seq(S), NEW j \in 1 .. Len(s)
    PROVE  /\ RemoveAt(s, j) \in Seq(S)
           /\ Len(RemoveAt(s, j)) = Len(s) - 1
           /\ \A n \in 1 .. Len(s) - 1 :
                  RemoveAt(s, j)[n] = IF n < j THEN s[n] ELSE s[n + 1]
<1>. DEFINE a == SubSeq(s, 1, j - 1)
            b == SubSeq(s, j + 1, Len(s))
<1>1. /\ a \in Seq(S) /\ Len(a) = j - 1
      /\ \A n \in 1 .. j - 1 : a[n] = s[n]
  BY SMT
<1>2. /\ b \in Seq(S) /\ Len(b) = Len(s) - j
      /\ \A n \in 1 .. Len(s) - j : b[n] = s[n + j]
  BY SMT
<1>3. /\ a \o b \in Seq(S) /\ Len(a \o b) = Len(s) - 1
      /\ \A n \in 1 .. Len(s) - 1 : (a \o b)[n] = IF n <= j - 1 THEN a[n] ELSE b[n - (j - 1)]
  <2>. HIDE DEF a, b
  <2>1. a \in Seq(S) /\ b \in Seq(S) /\ Len(a) = j - 1 /\ Len(a) + Len(b) = Len(s) - 1
    BY <1>1, <1>2
  <2>2. /\ a \o b \in Seq(S)
        /\ Len(a \o b) = Len(a) + Len(b)
        /\ \A n \in 1 .. Len(a) + Len(b) :
               (a \o b)[n] = IF n <= Len(a) THEN a[n] ELSE b[n - Len(a)]
    BY <2>1, ConcatProperties
  <2>. QED
    BY <2>1, <2>2
<1>4. \A n \in 1 .. Len(s) - 1 : (a \o b)[n] = IF n < j THEN s[n] ELSE s[n + 1]
  <2>. HIDE DEF a, b
  <2>1. ASSUME NEW n \in 1 .. Len(s) - 1, n < j PROVE (a \o b)[n] = s[n]
     BY <1>1, <1>3, <2>1
  <2>2. ASSUME NEW n \in 1 .. Len(s) - 1, ~ (n < j) PROVE (a \o b)[n] = s[n + 1]
     <3>1. n - (j - 1) \in 1 .. Len(s) - j /\ n - (j - 1) + j = n + 1
        BY <2>2
     <3>. QED BY <1>2, <1>3, <2>2, <3>1
  <2>. QED BY <2>1, <2>2
<1>. QED BY <1>3, <1>4 DEF RemoveAt

(* The members that remain: those at the other places, each once if no two *)
(* places of the sequence hold the same.                                   *)
LEMMA RemoveAtMembers ==
    ASSUME NEW S, NEW s \in Seq(S), NEW j \in 1 .. Len(s)
    PROVE  /\ \A n \in 1 .. Len(RemoveAt(s, j)) :
                  \E m \in 1 .. Len(s) : m # j /\ RemoveAt(s, j)[n] = s[m]
           /\ \A m \in 1 .. Len(s) : m # j =>
                  \E n \in 1 .. Len(RemoveAt(s, j)) : RemoveAt(s, j)[n] = s[m]
           /\ (\A m, n \in 1 .. Len(s) : s[m] = s[n] => m = n) =>
                  /\ \A m, n \in 1 .. Len(RemoveAt(s, j)) :
                         RemoveAt(s, j)[m] = RemoveAt(s, j)[n] => m = n
                  /\ \A n \in 1 .. Len(RemoveAt(s, j)) : RemoveAt(s, j)[n] # s[j]
<1>. DEFINE r == RemoveAt(s, j)
<1>1. /\ Len(r) = Len(s) - 1
      /\ \A n \in 1 .. Len(s) - 1 : r[n] = IF n < j THEN s[n] ELSE s[n + 1]
  BY RemoveAtProperties
<1>. HIDE DEF r
<1>2. \A n \in 1 .. Len(r) : \E m \in 1 .. Len(s) : m # j /\ r[n] = s[m]
  <2>. TAKE n \in 1 .. Len(r)
  <2>1. CASE n < j
    BY <1>1, <2>1
  <2>2. CASE ~ (n < j)
    <3>1. n + 1 \in 1 .. Len(s) /\ n + 1 # j /\ r[n] = s[n + 1]
      BY <1>1, <2>2
    <3>. QED
      BY <3>1
  <2>. QED
    BY <2>1, <2>2
<1>3. \A m \in 1 .. Len(s) : m # j => \E n \in 1 .. Len(r) : r[n] = s[m]
  <2>. SUFFICES ASSUME NEW m \in 1 .. Len(s), m # j
                PROVE  \E n \in 1 .. Len(r) : r[n] = s[m]
    OBVIOUS
  <2>1. CASE m < j
    BY <1>1, <2>1
  <2>2. CASE m > j
    <3>1. m - 1 \in 1 .. Len(r) /\ r[m - 1] = s[m]
      BY <1>1, <2>2
    <3>. QED
      BY <3>1
  <2>. QED
    BY <2>1, <2>2
<1>4. ASSUME \A m, n \in 1 .. Len(s) : s[m] = s[n] => m = n
      PROVE  /\ \A m, n \in 1 .. Len(r) : r[m] = r[n] => m = n
             /\ \A n \in 1 .. Len(r) : r[n] # s[j]
  <2>1. ASSUME NEW m \in 1 .. Len(r), NEW n \in 1 .. Len(r), r[m] = r[n] PROVE m = n
    <3>. DEFINE Up(l) == IF l < j THEN l ELSE l + 1
    <3>1. \A l \in 1 .. Len(r) : Up(l) \in 1 .. Len(s) /\ r[l] = s[Up(l)]
      BY <1>1
    <3>2. Up(m) = Up(n)
      BY <1>4, <2>1, <3>1
    <3>. QED
      BY <3>2
  <2>2. \A n \in 1 .. Len(r) : r[n] # s[j]
    BY <1>2, <1>4
  <2>. QED
    BY <2>1, <2>2
<1>. QED
  BY <1>2, <1>3, <1>4 DEF r

(* Append adds one member, at the end.                                     *)
LEMMA AppendMembers ==
    ASSUME NEW S, NEW s \in Seq(S), NEW x \in S
    PROVE  /\ Append(s, x) \in Seq(S)
           /\ Len(Append(s, x)) = Len(s) + 1
           /\ \A n \in 1 .. Len(s) + 1 :
                  Append(s, x)[n] = IF n = Len(s) + 1 THEN x ELSE s[n]
           /\ ToSet(Append(s, x)) = ToSet(s) \cup {x}
<1>1. /\ Append(s, x) \in Seq(S)
      /\ Len(Append(s, x)) = Len(s) + 1
      /\ \A n \in 1 .. Len(s) + 1 :
             Append(s, x)[n] = IF n = Len(s) + 1 THEN x ELSE s[n]
  BY AppendProperties
<1>2. DOMAIN s = 1 .. Len(s) /\ DOMAIN Append(s, x) = 1 .. Len(s) + 1
  BY <1>1
<1>3. ToSet(Append(s, x)) \subseteq ToSet(s) \cup {x}
  BY <1>1, <1>2 DEF ToSet
<1>4. ASSUME NEW y \in ToSet(s) PROVE y \in ToSet(Append(s, x))
  <2>1. PICK n \in 1 .. Len(s) : y = s[n]
    BY <1>2 DEF ToSet
  <2>2. n \in 1 .. Len(s) + 1 /\ Append(s, x)[n] = y
    BY <1>1, <2>1
  <2>. QED
    BY <1>2, <2>2 DEF ToSet
<1>5. x \in ToSet(Append(s, x))
  <2>1. Len(s) + 1 \in 1 .. Len(s) + 1 /\ Append(s, x)[Len(s) + 1] = x
    BY <1>1
  <2>. QED
    BY <1>2, <2>1 DEF ToSet
<1>. QED
  BY <1>1, <1>3, <1>4, <1>5

(* Tail loses the head, and its head only if no two places hold the same.  *)
LEMMA TailMembers ==
    ASSUME NEW S, NEW s \in Seq(S), s # <<>>
    PROVE  /\ Head(s) = s[1] /\ Head(s) \in S /\ Len(s) \in Nat \ {0}
           /\ Tail(s) \in Seq(S)
           /\ Len(Tail(s)) = Len(s) - 1
           /\ \A n \in 1 .. Len(s) - 1 : Tail(s)[n] = s[n + 1]
           /\ Head(s) \in ToSet(s)
           /\ ToSet(Tail(s)) \subseteq ToSet(s)
           /\ (\A m, n \in 1 .. Len(s) : s[m] = s[n] => m = n) =>
                  ToSet(Tail(s)) = ToSet(s) \ {Head(s)}
<1>1. /\ Head(s) = s[1] /\ Head(s) \in S /\ Len(s) \in Nat \ {0}
      /\ Tail(s) \in Seq(S)
      /\ Len(Tail(s)) = Len(s) - 1
      /\ \A n \in 1 .. Len(s) - 1 : Tail(s)[n] = s[n + 1]
  BY HeadTailProperties
<1>2. DOMAIN s = 1 .. Len(s) /\ DOMAIN Tail(s) = 1 .. Len(s) - 1
  BY <1>1
<1>3. Head(s) \in ToSet(s)
  BY <1>1, <1>2 DEF ToSet
<1>4. ToSet(Tail(s)) \subseteq ToSet(s)
  BY <1>1, <1>2 DEF ToSet
<1>5. ASSUME \A m, n \in 1 .. Len(s) : s[m] = s[n] => m = n
      PROVE  ToSet(Tail(s)) = ToSet(s) \ {Head(s)}
  <2>1. ASSUME NEW y \in ToSet(s), y # Head(s) PROVE y \in ToSet(Tail(s))
    <3>1. PICK m \in 1 .. Len(s) : y = s[m]
      BY <1>2 DEF ToSet
    <3>2. m - 1 \in 1 .. Len(s) - 1 /\ Tail(s)[m - 1] = y
      BY <1>1, <2>1, <3>1
    <3>. QED
      BY <1>2, <3>2 DEF ToSet
  <2>2. Head(s) \notin ToSet(Tail(s))
    <3>1. ASSUME NEW n \in 1 .. Len(s) - 1, Tail(s)[n] = Head(s) PROVE FALSE
      BY <1>1, <1>5, <3>1
    <3>. QED
      BY <1>2, <3>1 DEF ToSet
  <2>. QED
    BY <1>4, <2>1, <2>2
<1>. QED
  BY <1>1, <1>3, <1>4, <1>5

(* A sequence is its head followed by its tail.                            *)
LEMMA HeadTail ==
    ASSUME NEW S, NEW s \in Seq(S), s # <<>>
    PROVE  <<Head(s)>> \o Tail(s) = s
<1>. DEFINE h == <<Head(s)>>
            t == Tail(s)
<1>1. /\ Head(s) = s[1] /\ Head(s) \in S /\ Len(s) \in Nat \ {0}
      /\ t \in Seq(S) /\ Len(t) = Len(s) - 1
      /\ \A n \in 1 .. Len(s) - 1 : t[n] = s[n + 1]
  BY TailMembers
<1>2. h \in Seq(S) /\ Len(h) = 1 /\ h[1] = s[1]
  BY <1>1
<1>. HIDE DEF h, t
<1>3. /\ h \o t \in Seq(S)
      /\ Len(h \o t) = Len(h) + Len(t)
      /\ \A n \in 1 .. Len(h) + Len(t) :
             (h \o t)[n] = IF n <= Len(h) THEN h[n] ELSE t[n - Len(h)]
  BY <1>1, <1>2, ConcatProperties
<1>4. Len(h \o t) = Len(s)
  BY <1>1, <1>2, <1>3
<1>5. \A n \in 1 .. Len(s) : (h \o t)[n] = s[n]
  <2>. TAKE n \in 1 .. Len(s)
  <2>1. n \in 1 .. Len(h) + Len(t)
    BY <1>1, <1>2
  <2>2. CASE n = 1
    BY <1>2, <1>3, <2>1, <2>2
  <2>3. CASE n # 1
    <3>1. n - 1 \in 1 .. Len(s) - 1 /\ (n - 1) + 1 = n /\ ~ (n <= 1)
      BY <1>1, <2>3
    <3>2. (h \o t)[n] = t[n - 1]
      BY <1>2, <1>3, <2>1, <3>1
    <3>. QED
      BY <1>1, <3>1, <3>2
  <2>. QED
    BY <2>2, <2>3
<1>6. h \o t = s
  BY <1>3, <1>4, <1>5, SeqEqual
<1>. QED
  BY <1>6 DEF h, t

(* A member in front of a sequence is its head, and the sequence its tail. *)
LEMMA ConsTail ==
    ASSUME NEW S, NEW s \in Seq(S), NEW x \in S
    PROVE  /\ <<x>> \o s \in Seq(S) /\ <<x>> \o s # <<>>
           /\ (<<x>> \o s)[1] = x /\ Tail(<<x>> \o s) = s
<1>. DEFINE h == <<x>>
            c == h \o s
            t == Tail(c)
<1>1. h \in Seq(S) /\ Len(h) = 1 /\ h[1] = x /\ Len(s) \in Nat
  OBVIOUS
<1>. HIDE DEF h
<1>2. /\ c \in Seq(S)
      /\ Len(c) = Len(h) + Len(s)
      /\ \A n \in 1 .. Len(h) + Len(s) :
             c[n] = IF n <= Len(h) THEN h[n] ELSE s[n - Len(h)]
  BY <1>1, ConcatProperties
<1>. HIDE DEF c
<1>3. c # <<>> /\ Len(c) = Len(s) + 1 /\ c[1] = x
  <2>1. Len(c) = Len(s) + 1
    BY <1>1, <1>2
  <2>2. 1 \in 1 .. Len(h) + Len(s) /\ 1 <= Len(h)
    BY <1>1
  <2>3. Len(<<>>) = 0
    OBVIOUS
  <2>. QED
    BY <1>1, <1>2, <2>1, <2>2, <2>3
<1>4. t \in Seq(S) /\ Len(t) = Len(s) /\ \A n \in 1 .. Len(s) : t[n] = c[n + 1]
  BY <1>1, <1>2, <1>3, TailMembers
<1>5. \A n \in 1 .. Len(s) : c[n + 1] = s[n]
  <2>. TAKE n \in 1 .. Len(s)
  <2>1. n + 1 \in 1 .. Len(h) + Len(s) /\ ~ (n + 1 <= Len(h)) /\ (n + 1) - Len(h) = n
    BY <1>1
  <2>. QED
    BY <1>2, <2>1
<1>. HIDE DEF t
<1>6. t = s
  BY <1>4, <1>5, SeqEqual
<1>. QED
  BY <1>2, <1>3, <1>6 DEF c, h, t

(* A sequence may be appended to before or after one is put in front of it.*)
LEMMA ConcatAppend ==
    ASSUME NEW S, NEW s \in Seq(S), NEW t \in Seq(S), NEW x \in S
    PROVE  s \o Append(t, x) = Append(s \o t, x)
<1>. DEFINE e == <<x>>
<1>1. e \in Seq(S)
  OBVIOUS
<1>2. Append(t, x) = t \o e
  BY AppendIsConcat
<1>3. s \o t \in Seq(S)
  BY ConcatProperties
<1>4. Append(s \o t, x) = (s \o t) \o e
  BY <1>3, AppendIsConcat, Zenon
<1>. HIDE DEF e
<1>5. (s \o t) \o e = s \o (t \o e)
  BY <1>1, ConcatAssociative, SMTT(30)
<1>. QED
  BY <1>2, <1>4, <1>5

----------------------------------------------------------------------------
(* Counters *)

(* Division with remainder.                                                *)
LEMMA Division ==
    ASSUME NEW m \in Int, m > 0, NEW a \in Int
    PROVE  (a % m) + m * (a \div m) = a
OBVIOUS

(* A number is a multiple and its remainder.                                *)
LEMMA Remainder ==
    ASSUME NEW m \in Nat \ {0}, NEW a \in Nat
    PROVE  /\ a % m \in 0 .. m - 1
           /\ \E q \in Int : m * q + (a % m) = a
<1>. DEFINE r == a % m
            d == a \div m
<1>1. r \in 0 .. m - 1 /\ d \in Int
  OBVIOUS
<1>2. r + m * d = a
  BY Division
<1>. HIDE DEF r, d
<1>3. m * d + r = a
  <2>1. m * d \in Int
    BY <1>1
  <2>. QED
    BY <1>1, <1>2, <2>1
<1>. QED
  BY <1>1, <1>3 DEF r

(* Two remainders are the same if they differ by a multiple.                *)
LEMMA SameRemainder ==
    ASSUME NEW m \in Nat \ {0}, NEW p \in Int, NEW r \in 0 .. m - 1, NEW s \in 0 .. m - 1,
           m * p + r = s
    PROVE r = s
<1>1. CASE p >= 1
  <2>1. m * p >= m
    BY <1>1, SMTT(30)
  <2>. QED BY <2>1
<1>2. CASE p <= -1
  <2>1. m * p <= -m
    BY <1>2, SMTT(30)
  <2>. QED BY <2>1
<1>3. CASE p = 0
  BY <1>3
<1>. QED BY <1>1, <1>2, <1>3

(* A counter that wraps around may be added to before or after it wraps.   *)
LEMMA PlusMod ==
    ASSUME NEW m \in Nat \ {0}, NEW a \in Nat, NEW b \in Nat
    PROVE  ((a % m) + b) % m = (a + b) % m
<1>. DEFINE r == a % m
            s == (r + b) % m
            t == (a + b) % m
<1>1. PICK q \in Int : m * q + r = a
  BY Remainder
<1>2. r \in 0 .. m - 1
  BY Remainder
<1>. HIDE DEF r
<1>3. r + b \in Nat /\ a + b \in Nat
  BY <1>2
<1>4. s \in 0 .. m - 1 /\ t \in 0 .. m - 1
  BY <1>3, Remainder
<1>5. PICK q1 \in Int : m * q1 + s = r + b
  BY <1>3, Remainder
<1>6. PICK q2 \in Int : m * q2 + t = a + b
  BY <1>3, Remainder
<1>. HIDE DEF s, t
<1>7. m * (q + q1 - q2) + s = t
  <2>1. m * (q + q1 - q2) = m * q + m * q1 - m * q2
    BY SMT
  <2>2. m * q \in Int /\ m * q1 \in Int /\ m * q2 \in Int
    BY SMT
  <2>. QED
    BY <1>1, <1>2, <1>4, <1>5, <1>6, <2>1, <2>2
<1>8. q + q1 - q2 \in Int
  OBVIOUS
<1>9. s = t
  BY <1>4, <1>7, <1>8, SameRemainder
<1>. QED BY <1>9 DEF r, s, t

----------------------------------------------------------------------------
(* Induction and recursion over numbers, stated with a set and a function. *)

(* A set of numbers has a least member.                                    *)
LEMMA LeastMember ==
    ASSUME NEW T, T \subseteq Nat, T # {}
    PROVE  \E k \in T : \A i \in Nat : i < k => i \notin T
<1>. DEFINE Below == OpToRel(<, Nat)
<1>1. \E k \in T : \A i \in T : ~ (<<i, k>> \in Below)
  <2>1. IsWellFoundedOn(Below, Nat)
    BY NatLessThanWellFounded
  <2>. HIDE DEF Below
  <2>. QED
    BY <2>1, WFMin
<1>2. PICK k \in T : \A i \in T : ~ (<<i, k>> \in Below)
  BY <1>1
<1>3. \A i, j \in Nat : i < j => <<i, j>> \in Below
  BY DEF OpToRel
<1>. HIDE DEF Below
<1>. QED
  BY <1>2, <1>3

(* A set that holds 0 and every successor holds all numbers.               *)
LEMMA NatSet ==
    ASSUME NEW T, 0 \in T, \A n \in Nat : n \in T => n + 1 \in T
    PROVE  \A n \in Nat : n \in T
<1>. DEFINE out == {n \in Nat : n \notin T}
<1>. SUFFICES ASSUME out # {} PROVE FALSE
  OBVIOUS
<1>1. out \subseteq Nat
  OBVIOUS
<1>2. PICK k \in out : \A i \in Nat : i < k => i \notin out
  <2>. HIDE DEF out
  <2>. QED
    BY <1>1, LeastMember
<1>3. k \in Nat /\ k # 0 /\ k - 1 \in Nat /\ k - 1 < k /\ (k - 1) + 1 = k
  OBVIOUS
<1>4. k - 1 \in T
  BY <1>2, <1>3
<1>. QED
  BY <1>3, <1>4

(* The function from 0 .. N that is a at 0 and makes step g[n] at n.        *)
StepsOn(S, a, N, g) == a \in S /\ N \in Nat /\ g \in [1 .. N -> [S -> S]]
Follows(f, S, a, N, g) ==
    f \in [0 .. N -> S] /\ f[0] = a /\ \A n \in 1 .. N : f[n] = g[n][f[n - 1]]

(* There is one.                                                           *)
LEMMA Recursion ==
    ASSUME NEW S, NEW a, NEW N, NEW g, StepsOn(S, a, N, g)
    PROVE  \E f : Follows(f, S, a, N, g)
<1>. SUFFICES ASSUME a \in S, N \in Nat, g \in [1 .. N -> [S -> S]]
              PROVE  \E f \in [0 .. N -> S] :
                         f[0] = a /\ \A n \in 1 .. N : f[n] = g[n][f[n - 1]]
  BY DEF StepsOn, Follows
<1>. DEFINE Upto(n) == \E f \in [0 .. n -> S] :
                           f[0] = a /\ \A k \in 1 .. n : f[k] = g[k][f[k - 1]]
            T == {n \in Nat : n <= N => Upto(n)}
<1>1. 0 \in T
  <2>1. [k \in 0 .. 0 |-> a] \in [0 .. 0 -> S]
    OBVIOUS
  <2>2. [k \in 0 .. 0 |-> a][0] = a /\ 1 .. 0 = {}
    OBVIOUS
  <2>. QED
    BY <2>1, <2>2
<1>2. ASSUME NEW n \in Nat, n \in T, n + 1 <= N PROVE Upto(n + 1)
  <2>1. PICK f \in [0 .. n -> S] : f[0] = a /\ \A k \in 1 .. n : f[k] = g[k][f[k - 1]]
    BY <1>2
  <2>. DEFINE h == [k \in 0 .. n + 1 |-> IF k <= n THEN f[k] ELSE g[n + 1][f[n]]]
  <2>2. f[n] \in S /\ n + 1 \in 1 .. N
    BY <1>2
  <2>3. g[n + 1][f[n]] \in S
    BY <2>2
  <2>4. h \in [0 .. n + 1 -> S]
    BY <2>3
  <2>5. h[0] = a
    BY <2>1
  <2>6. ASSUME NEW k \in 1 .. n + 1 PROVE h[k] = g[k][h[k - 1]]
    <3>1. CASE k <= n
      <4>1. k \in 1 .. n /\ k - 1 \in 0 .. n /\ k \in 0 .. n
        BY <3>1
      <4>2. h[k] = f[k] /\ h[k - 1] = f[k - 1]
        BY <3>1, <4>1
      <4>. QED
        BY <2>1, <4>1, <4>2
    <3>2. CASE ~ (k <= n)
      <4>1. k = n + 1 /\ k - 1 = n /\ n \in 0 .. n + 1 /\ k \in 0 .. n + 1
        BY <3>2
      <4>2. h[k] = g[n + 1][f[n]] /\ h[k - 1] = f[n]
        BY <3>2, <4>1
      <4>. QED
        BY <4>1, <4>2
    <3>. QED
      BY <3>1, <3>2
  <2>. HIDE DEF h
  <2>. QED
    BY <2>4, <2>5, <2>6
<1>3. ASSUME NEW n \in Nat, n \in T PROVE n + 1 \in T
  <2>1. n + 1 <= N => Upto(n + 1)
    BY <1>2, <1>3
  <2>. HIDE DEF Upto
  <2>. QED
    BY <2>1
<1>. HIDE DEF T
<1>4. N \in T
  BY <1>1, <1>3, NatSet
<1>. USE DEF T
<1>. QED
  BY <1>4

----------------------------------------------------------------------------
(* Sums over a finite set *)

(* The sum of h over S, as FoldSet computes it: the member that CHOOSE     *)
(* picks is added to the sum over the others.                              *)
Total(h, S) == FoldSet(LAMBDA d, sum : sum + h[d], 0, S)

Picked(s) == CHOOSE x \in s : TRUE

SumsOn(h, U, g) ==
    [s \in U |-> IF s = {} THEN 0 ELSE g[s \ {Picked(s)}] + h[Picked(s)]]

(* What holds of the empty set, and of a set once it holds of the set less *)
(* the member picked, holds of every finite set.                           *)
LEMMA PickedInduction ==
    ASSUME NEW S, IsFiniteSet(S), NEW G, {} \in G,
           \A s \in SUBSET S : s # {} /\ s \ {Picked(s)} \in G => s \in G
    PROVE  SUBSET S \subseteq G
<1>. DEFINE T == {n \in Nat : \A s \in SUBSET S : Cardinality(s) = n => s \in G}
<1>1. \A s \in SUBSET S : IsFiniteSet(s) /\ Cardinality(s) \in Nat
  BY FS_Subset, FS_CardinalityType
<1>2. 0 \in T
  BY <1>1, FS_EmptySet
<1>3. ASSUME NEW n \in Nat, n \in T PROVE n + 1 \in T
  <2>. SUFFICES ASSUME NEW s \in SUBSET S, Cardinality(s) = n + 1 PROVE s \in G
    OBVIOUS
  <2>1. s # {}
    BY FS_EmptySet
  <2>2. Picked(s) \in s
    BY <2>1 DEF Picked
  <2>3. Cardinality(s \ {Picked(s)}) = n
    BY <1>1, <2>2, FS_RemoveElement
  <2>4. s \ {Picked(s)} \in G
    BY <1>3, <2>3
  <2>. QED
    BY <2>1, <2>4
<1>. HIDE DEF T
<1>4. \A n \in Nat : n \in T
  BY <1>2, <1>3, NatSet
<1>. QED
  BY <1>1, <1>4 DEF T

(* There is a function with the sum over each set of at most n members.    *)
LEMMA SumsExist ==
    ASSUME NEW S, IsFiniteSet(S), NEW h, \A d \in S : h[d] \in Nat
    PROVE  \E g \in [SUBSET S -> Nat] : g = SumsOn(h, SUBSET S, g)
<1>. DEFINE U(n) == {s \in SUBSET S : Cardinality(s) <= n}
            Upto(n) == \E g \in [U(n) -> Nat] : g = SumsOn(h, U(n), g)
            T == {n \in Nat : Upto(n)}
<1>1. \A s \in SUBSET S : IsFiniteSet(s) /\ Cardinality(s) \in Nat
  BY FS_Subset, FS_CardinalityType
<1>2. \A s \in SUBSET S : s # {} =>
          /\ Picked(s) \in s /\ s \ {Picked(s)} \in SUBSET S
          /\ Cardinality(s) = Cardinality(s \ {Picked(s)}) + 1
          /\ h[Picked(s)] \in Nat
  <2>. SUFFICES ASSUME NEW s \in SUBSET S, s # {}
                PROVE  /\ Picked(s) \in s
                       /\ Cardinality(s) = Cardinality(s \ {Picked(s)}) + 1
    OBVIOUS
  <2>1. Picked(s) \in s
    BY DEF Picked
  <2>. QED
    BY <1>1, <2>1, FS_RemoveElement
<1>3. Upto(0)
  <2>1. \A s \in U(0) : s = {}
    BY <1>1, FS_EmptySet
  <2>. DEFINE g == [s \in U(0) |-> 0]
  <2>2. g \in [U(0) -> Nat] /\ g = SumsOn(h, U(0), g)
    BY <2>1 DEF SumsOn
  <2>. QED
    BY <2>2
<1>4. ASSUME NEW n \in Nat, Upto(n) PROVE Upto(n + 1)
  <2>1. PICK g \in [U(n) -> Nat] : g = SumsOn(h, U(n), g)
    BY <1>4
  <2>2. \A s \in U(n + 1) : s # {} => s \ {Picked(s)} \in U(n)
    BY <1>1, <1>2
  <2>. DEFINE f == [s \in U(n + 1) |-> IF s = {} THEN 0
                                       ELSE g[s \ {Picked(s)}] + h[Picked(s)]]
  <2>3. f \in [U(n + 1) -> Nat]
    <3>1. \A s \in U(n + 1) : s # {} => g[s \ {Picked(s)}] \in Nat /\ h[Picked(s)] \in Nat
      BY <1>2, <2>2
    <3>. QED
      BY <3>1
  <2>4. \A s \in U(n) : s \in U(n + 1) /\ f[s] = g[s]
    <3>. SUFFICES ASSUME NEW s \in U(n) PROVE s \in U(n + 1) /\ f[s] = g[s]
      OBVIOUS
    <3>1. s \in U(n + 1)
      BY <1>1
    <3>2. g[s] = IF s = {} THEN 0 ELSE g[s \ {Picked(s)}] + h[Picked(s)]
      BY <2>1 DEF SumsOn
    <3>. QED
      BY <3>1, <3>2
  <2>. HIDE DEF U
  <2>5. \A s \in U(n + 1) :
            f[s] = IF s = {} THEN 0 ELSE f[s \ {Picked(s)}] + h[Picked(s)]
    BY <2>2, <2>4
  <2>6. f = SumsOn(h, U(n + 1), f)
    <3>. HIDE DEF f
    <3>. QED
      BY <2>3, <2>5 DEF SumsOn
  <2>. HIDE DEF f
  <2>. QED
    BY <2>3, <2>6
<1>5. \A n \in Nat : n \in T
  <2>. HIDE DEF Upto
  <2>1. 0 \in T /\ \A n \in Nat : n \in T => n + 1 \in T
    BY <1>3, <1>4
  <2>. HIDE DEF T
  <2>. QED
    BY <2>1, NatSet
<1>6. U(Cardinality(S)) = SUBSET S
  BY <1>1, FS_Subset
<1>7. Upto(Cardinality(S))
  BY <1>1, <1>5
<1>. QED
  BY <1>6, <1>7

(* FoldSet takes one of these functions: g has the sums over the subsets.  *)
SumsUp(h, S, g) ==
    /\ Total(h, S) = g[S]
    /\ g[{}] = 0
    /\ \A s \in SUBSET S : s # {} => g[s] = g[s \ {Picked(s)}] + h[Picked(s)]

LEMMA TotalSums ==
    ASSUME NEW S, IsFiniteSet(S), NEW h, \A d \in S : h[d] \in Nat
    PROVE  \E g : SumsUp(h, S, g)
<1>. DEFINE g == CHOOSE f : f = SumsOn(h, SUBSET S, f)
<1>1. Total(h, S) = g[S]
  BY DEF Total, FoldSet, MapThenFoldSet, SumsOn, Picked
<1>2. g = SumsOn(h, SUBSET S, g)
  BY SumsExist
<1>. HIDE DEF g
<1>3. \A s \in SUBSET S : g[s] = IF s = {} THEN 0 ELSE g[s \ {Picked(s)}] + h[Picked(s)]
  BY <1>2 DEF SumsOn
<1>. QED
  BY <1>1, <1>3 DEF SumsUp

(* A sum over nothing but zeros is zero.                                   *)
LEMMA TotalZero ==
    ASSUME NEW S, IsFiniteSet(S), NEW h, \A d \in S : h[d] = 0
    PROVE  Total(h, S) = 0
<1>0. \A d \in S : h[d] \in Nat
  OBVIOUS
<1>1. PICK g : SumsUp(h, S, g)
  BY <1>0, TotalSums
<1>. DEFINE G == {s \in SUBSET S : g[s] = 0}
<1>2. ASSUME NEW s \in SUBSET S, s # {}, s \ {Picked(s)} \in G PROVE s \in G
  <2>1. Picked(s) \in s
    BY <1>2 DEF Picked
  <2>2. g[s] = g[s \ {Picked(s)}] + h[Picked(s)]
    BY <1>1, <1>2 DEF SumsUp
  <2>3. h[Picked(s)] = 0 /\ g[s \ {Picked(s)}] = 0
    BY <1>2, <2>1
  <2>. QED
    BY <2>2, <2>3
<1>3. {} \in G
  BY <1>1 DEF SumsUp
<1>. HIDE DEF G
<1>4. SUBSET S \subseteq G
  BY <1>2, <1>3, PickedInduction
<1>. QED
  BY <1>1, <1>4 DEF G, SumsUp

(* Where one number changes the sum changes with it.                       *)
ChangedAt(h, k, d, S) ==
    \A e \in S : h[e] \in Nat /\ k[e] \in Nat /\ (e # d => k[e] = h[e])

LEMMA TotalChanges ==
    ASSUME NEW S, IsFiniteSet(S), NEW h, NEW k, NEW d \in S, ChangedAt(h, k, d, S)
    PROVE  \E r \in Nat : Total(h, S) = r + h[d] /\ Total(k, S) = r + k[d]
<1>0. (\A e \in S : h[e] \in Nat) /\ (\A e \in S : k[e] \in Nat)
  BY DEF ChangedAt
<1>1. PICK g : SumsUp(h, S, g)
  BY <1>0, TotalSums
<1>2. PICK f : SumsUp(k, S, f)
  BY <1>0, TotalSums
<1>. DEFINE Same(s) == g[s] \in Nat /\ f[s] = g[s]
            Moved(s) == \E r \in Nat : g[s] = r + h[d] /\ f[s] = r + k[d]
            G == {s \in SUBSET S : IF d \in s THEN Moved(s) ELSE Same(s)}
<1>3. ASSUME NEW s \in SUBSET S, s # {}, s \ {Picked(s)} \in G PROVE s \in G
  <2>. DEFINE p == Picked(s)
              t == s \ {p}
  <2>1. p \in s
    BY <1>3 DEF Picked
  <2>2. g[s] = g[t] + h[p] /\ f[s] = f[t] + k[p]
    BY <1>1, <1>2, <1>3 DEF SumsUp
  <2>3. h[p] \in Nat /\ k[p] \in Nat /\ (p # d => k[p] = h[p])
    BY <2>1 DEF ChangedAt
  <2>4. IF d \in t THEN Moved(t) ELSE Same(t)
    BY <1>3
  <2>. HIDE DEF p
  <2>5. CASE d \in t
    <3>1. PICK r \in Nat : g[t] = r + h[d] /\ f[t] = r + k[d]
      BY <2>4, <2>5
    <3>2. p # d /\ d \in s
      BY <2>5
    <3>3. r + h[p] \in Nat /\ g[s] = (r + h[p]) + h[d] /\ f[s] = (r + h[p]) + k[d]
      BY <1>0, <2>2, <2>3, <3>1, <3>2
    <3>. QED
      BY <3>2, <3>3
  <2>6. CASE d \notin t /\ p = d
    <3>1. g[t] \in Nat /\ f[t] = g[t]
      BY <2>4, <2>6
    <3>2. g[s] = g[t] + h[d] /\ f[s] = g[t] + k[d]
      BY <2>2, <2>6, <3>1
    <3>. QED
      BY <2>1, <2>6, <3>1, <3>2
  <2>7. CASE d \notin t /\ p # d
    <3>1. g[t] \in Nat /\ f[t] = g[t] /\ d \notin s
      BY <2>4, <2>7
    <3>. QED
      BY <2>2, <2>3, <2>7, <3>1
  <2>. QED
    BY <2>5, <2>6, <2>7
<1>4. {} \in G
  BY <1>1, <1>2 DEF SumsUp
<1>. HIDE DEF G
<1>5. SUBSET S \subseteq G
  BY <1>3, <1>4, PickedInduction
<1>6. S \in G
  BY <1>5
<1>. QED
  BY <1>1, <1>2, <1>6 DEF G, SumsUp
=============================================================================
