--------------------------- MODULE ForwardingProofs ---------------------------
(***************************************************************************)
(* Forwarding, for any number of writers, threads, listeners, rules, chains*)
(* and filters and whatever is written: inet_aton and inet_ntoa undo each  *)
(* other, rtap_chains.lock protects the walks, a walk always stands at a   *)
(* filter that is listed and misses none of those it has to serve.  The    *)
(* lists of listeners and rules stay whole where nobody is in them while   *)
(* another takes an entry out; where then one process writes lines of a    *)
(* kind, keys are unique and what is lost are filters.  Where nothing is   *)
(* removed while something points at it, no pointer ever dangles and no    *)
(* walk meets freed memory; users that only build up keep that order.      *)
(***************************************************************************)
EXTENDS ForwardingInv, SeqLemmas

----------------------------------------------------------------------------
(* inet_aton and inet_ntoa, for words of any width *)

(* The function of powers that Pow2 chooses is one.                        *)
LEMMA Powers ==
    ASSUME InetAddrAssumption
    PROVE  /\ WORD_BITS \in Nat \ {0} /\ OCTET_BITS \in 1 .. WORD_BITS
           /\ Pow2 \in [0 .. WORD_BITS -> Nat \ {0}]
           /\ Pow2[0] = 1
           /\ \A n \in 1 .. WORD_BITS : Pow2[n] = 2 * Pow2[n - 1]
<1>. DEFINE S == Nat \ {0}
            g == [n \in 1 .. WORD_BITS |-> [x \in S |-> 2 * x]]
            def(pow) == [n \in 0 .. WORD_BITS |-> IF n = 0 THEN 1 ELSE 2 * pow[n - 1]]
<1>1. WORD_BITS \in Nat \ {0} /\ OCTET_BITS \in 1 .. WORD_BITS
  BY DEF WORD_BITS, InetAddrAssumption
<1>. HIDE DEF WORD_BITS
<1>2. PICK f : Follows(f, S, 1, WORD_BITS, g)
  <2>1. g \in [1 .. WORD_BITS -> [S -> S]]
    OBVIOUS
  <2>2. StepsOn(S, 1, WORD_BITS, g)
    BY <1>1, <2>1 DEF StepsOn
  <2>. QED
    BY <2>2, Recursion
<1>3. f = def(f)
  <2>1. \A n \in 0 .. WORD_BITS : n # 0 => n \in 1 .. WORD_BITS
    BY <1>1
  <2>2. \A n \in 1 .. WORD_BITS : f[n - 1] \in S
    BY <1>1, <1>2 DEF Follows
  <2>3. \A n \in 1 .. WORD_BITS : f[n] = 2 * f[n - 1]
    BY <1>2, <2>2 DEF Follows
  <2>4. \A n \in 0 .. WORD_BITS : f[n] = IF n = 0 THEN 1 ELSE 2 * f[n - 1]
    BY <1>2, <2>1, <2>3 DEF Follows
  <2>. QED
    BY <1>2, <2>4 DEF Follows
<1>4. Pow2 = def(Pow2)
  <2>1. Pow2 = CHOOSE pow : pow = def(pow)
    BY DEF Pow2
  <2>. HIDE DEF def
  <2>. QED
    BY <1>3, <2>1
<1>5. \A n \in 0 .. WORD_BITS : Pow2[n] = IF n = 0 THEN 1 ELSE 2 * Pow2[n - 1]
  BY <1>4
<1>6. Pow2[0] = 1 /\ \A n \in 1 .. WORD_BITS : Pow2[n] = 2 * Pow2[n - 1]
  BY <1>1, <1>5
<1>7. \A n \in 0 .. WORD_BITS : Pow2[n] \in S
  <2>. DEFINE T == {n \in Nat : n <= WORD_BITS => Pow2[n] \in S}
  <2>1. 0 \in T
    BY <1>6
  <2>2. ASSUME NEW n \in Nat, n \in T PROVE n + 1 \in T
    <3>1. SUFFICES ASSUME n + 1 <= WORD_BITS PROVE Pow2[n + 1] \in S
      OBVIOUS
    <3>2. n + 1 \in 1 .. WORD_BITS /\ (n + 1) - 1 = n /\ n <= WORD_BITS
      BY <1>1, <3>1
    <3>3. Pow2[n] \in S /\ Pow2[n + 1] = 2 * Pow2[n]
      BY <1>6, <2>2, <3>2
    <3>. QED
      BY <3>3
  <2>. HIDE DEF T
  <2>3. \A n \in Nat : n \in T
    BY <2>1, <2>2, NatSet
  <2>. QED
    BY <1>1, <2>3 DEF T
<1>8. Pow2 = [n \in 0 .. WORD_BITS |-> Pow2[n]]
  <2>1. DOMAIN Pow2 = 0 .. WORD_BITS
    BY <1>4
  <2>. HIDE DEF def
  <2>. QED
    BY <1>4, <2>1 DEF def
<1>9. Pow2 \in [0 .. WORD_BITS -> Nat \ {0}]
  <2>. HIDE DEF def
  <2>. QED
    BY <1>7, <1>8
<1>. QED
  BY <1>1, <1>6, <1>9

(* And so is the function of the lowest bits of an OR, which make a number *)
(* of as many bits.                                                        *)
LEMMA OrsEquation ==
    ASSUME InetAddrAssumption, NEW m, NEW n
    PROVE  /\ Ors(m, n)[0] = 0
           /\ \A k \in 1 .. WORD_BITS :
                  Ors(m, n)[k] = Ors(m, n)[k - 1] + OrBit(m, n, k - 1) * Pow2[k - 1]
           /\ \A k \in 0 .. WORD_BITS : Ors(m, n)[k] \in 0 .. Pow2[k] - 1
<1>. DEFINE bit(k) == OrBit(m, n, k - 1) * Pow2[k - 1]
            g == [k \in 1 .. WORD_BITS |-> [x \in Nat |-> x + bit(k)]]
            def(or) == [k \in 0 .. WORD_BITS |->
                           IF k = 0 THEN 0
                           ELSE or[k - 1] + OrBit(m, n, k - 1) * Pow2[k - 1]]
<1>1. \A i : OrBit(m, n, i) \in {0, 1}
  BY DEF OrBit
<1>2. WORD_BITS \in Nat /\ \A k \in 1 .. WORD_BITS : k - 1 \in 0 .. WORD_BITS
  BY Powers
<1>3. \A k \in 1 .. WORD_BITS : bit(k) \in Nat /\ (bit(k) = 0 \/ bit(k) = Pow2[k - 1])
  <2>. TAKE k \in 1 .. WORD_BITS
  <2>1. Pow2[k - 1] \in Nat
    BY <1>2, Powers
  <2>2. OrBit(m, n, k - 1) \in {0, 1}
    BY <1>1
  <2>. QED
    BY <2>1, <2>2
<1>. HIDE DEF bit
<1>4. PICK f : Follows(f, Nat, 0, WORD_BITS, g)
  <2>1. g \in [1 .. WORD_BITS -> [Nat -> Nat]]
    BY <1>3
  <2>2. StepsOn(Nat, 0, WORD_BITS, g)
    BY <1>2, <2>1 DEF StepsOn
  <2>. QED
    BY <2>2, Recursion
<1>5. f = def(f)
  <2>1. \A k \in 0 .. WORD_BITS : k # 0 => k \in 1 .. WORD_BITS
    BY <1>2
  <2>2. \A k \in 1 .. WORD_BITS : f[k - 1] \in Nat
    BY <1>2, <1>4 DEF Follows
  <2>3. \A k \in 1 .. WORD_BITS : f[k] = f[k - 1] + bit(k)
    BY <1>4, <2>2 DEF Follows
  <2>4. \A k \in 0 .. WORD_BITS : f[k] = IF k = 0 THEN 0 ELSE f[k - 1] + bit(k)
    BY <1>4, <2>1, <2>3 DEF Follows
  <2>. QED
    BY <1>4, <2>4 DEF Follows, bit
<1>6. Ors(m, n) = def(Ors(m, n))
  <2>1. Ors(m, n) = CHOOSE or : or = def(or)
    BY DEF Ors
  <2>. HIDE DEF def
  <2>. QED
    BY <1>5, <2>1
<1>7. \A k \in 0 .. WORD_BITS : Ors(m, n)[k] = IF k = 0 THEN 0 ELSE Ors(m, n)[k - 1] + bit(k)
  BY <1>6 DEF bit
<1>8. Ors(m, n)[0] = 0 /\ \A k \in 1 .. WORD_BITS : Ors(m, n)[k] = Ors(m, n)[k - 1] + bit(k)
  BY <1>2, <1>7
<1>. DEFINE T == {k \in Nat : k <= WORD_BITS => Ors(m, n)[k] \in 0 .. Pow2[k] - 1}
<1>9. 0 \in T
  BY <1>8, Powers
<1>10. ASSUME NEW k \in Nat, k \in T PROVE k + 1 \in T
  <2>1. SUFFICES ASSUME k + 1 <= WORD_BITS PROVE Ors(m, n)[k + 1] \in 0 .. Pow2[k + 1] - 1
    OBVIOUS
  <2>2. k + 1 \in 1 .. WORD_BITS /\ (k + 1) - 1 = k /\ k <= WORD_BITS /\ k \in 0 .. WORD_BITS
    BY <1>2, <2>1
  <2>3. /\ Ors(m, n)[k] \in 0 .. Pow2[k] - 1
        /\ Pow2[k + 1] = 2 * Pow2[k] /\ Pow2[k] \in Nat
        /\ Ors(m, n)[k + 1] = Ors(m, n)[k] + bit(k + 1)
        /\ bit(k + 1) = 0 \/ bit(k + 1) = Pow2[k]
    BY <1>3, <1>8, <1>10, <2>2, Powers
  <2>. QED
    BY <2>3
<1>. HIDE DEF T
<1>11. \A k \in Nat : k \in T
  BY <1>9, <1>10, NatSet
<1>. QED
  BY <1>2, <1>8, <1>11 DEF T, bit

(* Whatever inet_aton is given, it makes a word.                           *)
LEMMA OrWord ==
    ASSUME InetAddrAssumption, NEW m, NEW n
    PROVE  BitOr(m, n) \in 0 .. WORD - 1
<1>1. WORD_BITS \in 0 .. WORD_BITS
  BY Powers
<1>. QED
  BY <1>1, OrsEquation DEF BitOr, WORD

(* inet_aton makes a word of any octets, well formed or not.               *)
LEMMA AtonWord ==
    ASSUME InetAddrAssumption, NEW text, NEW stack
    PROVE  inet_aton(text, stack) \in 0 .. WORD - 1
BY OrWord DEF inet_aton, OrOctet

(* Powers of two multiply, as far as a word reaches.                       *)
LEMMA PowSum ==
    ASSUME InetAddrAssumption, NEW a \in Nat, NEW b \in Nat, a + b <= WORD_BITS
    PROVE  Pow2[a + b] = Pow2[a] * Pow2[b]
<1>. DEFINE T == {n \in Nat : a + n <= WORD_BITS => Pow2[a + n] = Pow2[a] * Pow2[n]}
<1>1. WORD_BITS \in Nat
  BY Powers
<1>2. 0 \in T
  <2>1. a \in 0 .. WORD_BITS /\ a + 0 = a
    BY <1>1
  <2>2. Pow2[a] \in Nat /\ Pow2[0] = 1
    BY <2>1, Powers
  <2>. QED
    BY <2>1, <2>2
<1>3. ASSUME NEW n \in Nat, n \in T PROVE n + 1 \in T
  <2>1. SUFFICES ASSUME a + (n + 1) <= WORD_BITS
                 PROVE  Pow2[a + (n + 1)] = Pow2[a] * Pow2[n + 1]
    OBVIOUS
  <2>2. /\ a + (n + 1) \in 1 .. WORD_BITS /\ (a + (n + 1)) - 1 = a + n /\ a + n <= WORD_BITS
        /\ n + 1 \in 1 .. WORD_BITS /\ (n + 1) - 1 = n
        /\ a \in 0 .. WORD_BITS /\ n \in 0 .. WORD_BITS
    BY <1>1, <2>1
  <2>3. Pow2[a + (n + 1)] = 2 * Pow2[a + n] /\ Pow2[n + 1] = 2 * Pow2[n]
    BY <2>2, Powers
  <2>. DEFINE x == Pow2[a]
              y == Pow2[n]
  <2>4. x \in Nat /\ y \in Nat
    BY <2>2, Powers
  <2>5. Pow2[a + n] = x * y
    BY <1>3, <2>2
  <2>. HIDE DEF x, y
  <2>6. 2 * (x * y) = x * (2 * y)
    BY <2>4
  <2>7. Pow2[n + 1] = 2 * y
    BY <2>3 DEF y
  <2>8. Pow2[a + (n + 1)] = x * Pow2[n + 1]
    BY <2>3, <2>5, <2>6, <2>7
  <2>. QED
    BY <2>8 DEF x
<1>. HIDE DEF T
<1>4. b \in T
  BY <1>2, <1>3, NatSet
<1>. QED
  BY <1>4 DEF T

(* A word is four octets wide.                                            *)
LEMMA WordOctets ==
    ASSUME InetAddrAssumption
    PROVE  /\ OCTET \in Nat \ {0} /\ WORD \in Nat \ {0}
           /\ WORD = ((OCTET * OCTET) * OCTET) * OCTET
<1>1. OCTET_BITS \in Nat
  BY DEF InetAddrAssumption
<1>2. OCTET \in Nat \ {0} /\ WORD \in Nat \ {0}
  <2>1. OCTET_BITS \in 0 .. WORD_BITS /\ WORD_BITS \in 0 .. WORD_BITS
    BY Powers
  <2>. QED
    BY <2>1, Powers DEF OCTET, WORD
<1>3. /\ OCTET_BITS + OCTET_BITS <= WORD_BITS
      /\ (OCTET_BITS + OCTET_BITS) + OCTET_BITS <= WORD_BITS
      /\ ((OCTET_BITS + OCTET_BITS) + OCTET_BITS) + OCTET_BITS = WORD_BITS
      /\ OCTET_BITS + OCTET_BITS \in Nat /\ (OCTET_BITS + OCTET_BITS) + OCTET_BITS \in Nat
  BY <1>1 DEF WORD_BITS
<1>4. Pow2[OCTET_BITS + OCTET_BITS] = OCTET * OCTET
  BY <1>1, <1>3, PowSum DEF OCTET
<1>5. Pow2[(OCTET_BITS + OCTET_BITS) + OCTET_BITS] = (OCTET * OCTET) * OCTET
  BY <1>1, <1>3, <1>4, PowSum DEF OCTET
<1>6. WORD_BITS <= WORD_BITS
  BY <1>1 DEF WORD_BITS
<1>7. Pow2[((OCTET_BITS + OCTET_BITS) + OCTET_BITS) + OCTET_BITS]
          = Pow2[(OCTET_BITS + OCTET_BITS) + OCTET_BITS] * Pow2[OCTET_BITS]
  BY <1>1, <1>3, <1>6, PowSum
<1>. QED
  BY <1>2, <1>3, <1>5, <1>7 DEF WORD, OCTET

(* The next bit of a number.                                               *)
LEMMA NextBit ==
    ASSUME NEW p \in Nat \ {0}, NEW m \in Nat
    PROVE  /\ (m \div p) % 2 \in {0, 1}
           /\ m % (2 * p) = ((m \div p) % 2) * p + (m % p)
<1>. DEFINE q == m \div p
            r == m % p
            b == q % 2
            h == q \div 2
            s == m % (2 * p)
            k == m \div (2 * p)
<1>1. p * q + r = m /\ r \in 0 .. p - 1 /\ q \in Int
  <2>1. (m % p) + p * (m \div p) = m
    BY Division
  <2>2. m \div p \in Int /\ m % p \in 0 .. p - 1
    BY Remainder
  <2>3. p * (m \div p) \in Int
    BY <2>2
  <2>. QED
    BY <2>1, <2>2, <2>3
<1>2. 2 * h + b = q /\ b \in 0 .. 1 /\ h \in Int
  BY <1>1
<1>3. (2 * p) * k + s = m /\ s \in 0 .. 2 * p - 1 /\ k \in Int
  <2>1. 2 * p \in Nat \ {0} /\ 2 * p \in Int /\ 2 * p > 0
    OBVIOUS
  <2>2. (m % (2 * p)) + (2 * p) * (m \div (2 * p)) = m
    BY <2>1, Division
  <2>3. m \div (2 * p) \in Int /\ m % (2 * p) \in 0 .. 2 * p - 1
    BY <2>1, Remainder
  <2>4. (2 * p) * (m \div (2 * p)) \in Int
    BY <2>1, <2>3
  <2>. QED
    BY <2>2, <2>3, <2>4
<1>. HIDE DEF q, r, b, h, s, k
<1>4. b * p + r \in 0 .. 2 * p - 1
  <2>1. b = 0 \/ b = 1
    BY <1>2
  <2>. QED
    BY <1>1, <2>1
<1>5. (2 * p) * h + (b * p + r) = m
  <2>1. p * (2 * h + b) + r = m
    BY <1>1, <1>2
  <2>2. p * (2 * h + b) = (2 * p) * h + b * p
    BY <1>2
  <2>. QED
    BY <1>1, <1>2, <2>1, <2>2
<1>6. (2 * p) * (k - h) + s = b * p + r
  <2>1. (2 * p) * (k - h) = (2 * p) * k - (2 * p) * h
    BY <1>2, <1>3
  <2>2. (2 * p) * k \in Int /\ (2 * p) * h \in Int /\ b * p \in Int
    BY <1>2, <1>3
  <2>. QED
    BY <1>1, <1>3, <1>5, <2>1, <2>2
<1>7. s = b * p + r
  <2>1. 2 * p \in Nat \ {0} /\ k - h \in Int
    BY <1>2, <1>3
  <2>. HIDE DEF s
  <2>. QED
    BY <1>3, <1>4, <1>6, <2>1, SameRemainder
<1>. QED
  BY <1>2, <1>7 DEF q, r, b, s

(* A multiple of OCTET has no bit among the lowest.                        *)
LEMMA LowBitsZero ==
    ASSUME InetAddrAssumption, NEW m \in Nat, m % OCTET = 0
    PROVE  \A k \in 0 .. OCTET_BITS :
               m % Pow2[k] = 0 /\ (k < OCTET_BITS => BitAt(m, k) = 0)
<1>. DEFINE T == {j \in Nat : j <= OCTET_BITS => m % Pow2[OCTET_BITS - j] = 0}
<1>1. OCTET_BITS \in Nat /\ \A k \in 0 .. OCTET_BITS : k \in 0 .. WORD_BITS
  BY Powers DEF InetAddrAssumption
<1>2. 0 \in T
  <2>1. OCTET_BITS - 0 = OCTET_BITS
    BY <1>1
  <2>. QED
    BY <2>1 DEF OCTET
<1>3. ASSUME NEW k \in 0 .. OCTET_BITS, k < OCTET_BITS, m % Pow2[k + 1] = 0
      PROVE  m % Pow2[k] = 0 /\ BitAt(m, k) = 0
  <2>1. /\ k + 1 \in 1 .. WORD_BITS /\ (k + 1) - 1 = k /\ k \in 0 .. WORD_BITS
    BY <1>1, <1>3, Powers
  <2>2. Pow2[k] \in Nat \ {0} /\ Pow2[k + 1] = 2 * Pow2[k]
    BY <2>1, Powers
  <2>. DEFINE p == Pow2[k]
              b == (m \div p) % 2
  <2>3. b \in {0, 1} /\ 0 = b * p + (m % p) /\ p \in Nat \ {0} /\ m % p \in 0 .. p - 1
    <3>. HIDE DEF p
    <3>1. p \in Nat \ {0} /\ Pow2[k + 1] = 2 * p
      BY <2>2 DEF p
    <3>2. m % (2 * p) = 0
      BY <1>3, <3>1
    <3>3. m % (2 * p) = ((m \div p) % 2) * p + (m % p)
      BY <3>1, NextBit
    <3>4. (m \div p) % 2 \in {0, 1}
      BY <3>1, NextBit
    <3>5. m % p \in 0 .. p - 1
      BY <3>1, Remainder
    <3>. HIDE DEF b
    <3>6. b = (m \div p) % 2
      BY DEF b
    <3>. QED
      BY <3>1, <3>2, <3>3, <3>4, <3>5, <3>6
  <2>. HIDE DEF b
  <2>4. b = 0 /\ m % p = 0
    <3>. HIDE DEF p
    <3>. QED
      BY <2>3
  <2>. QED
    BY <2>4 DEF BitAt, b
<1>4. ASSUME NEW j \in Nat, j \in T PROVE j + 1 \in T
  <2>1. SUFFICES ASSUME j + 1 <= OCTET_BITS PROVE m % Pow2[OCTET_BITS - (j + 1)] = 0
    OBVIOUS
  <2>. DEFINE k == OCTET_BITS - (j + 1)
  <2>2. k \in 0 .. OCTET_BITS /\ k < OCTET_BITS /\ k + 1 = OCTET_BITS - j /\ j <= OCTET_BITS
    BY <1>1, <2>1
  <2>3. m % Pow2[k + 1] = 0
    BY <1>4, <2>2
  <2>. HIDE DEF k
  <2>4. m % Pow2[k] = 0
    BY <1>3, <2>2, <2>3
  <2>. QED
    BY <2>4 DEF k
<1>. HIDE DEF T
<1>5. \A j \in Nat : j \in T
  BY <1>2, <1>4, NatSet
<1>6. ASSUME NEW k \in 0 .. OCTET_BITS PROVE m % Pow2[k] = 0
  <2>1. OCTET_BITS - k \in Nat /\ OCTET_BITS - k <= OCTET_BITS
        /\ OCTET_BITS - (OCTET_BITS - k) = k
    BY <1>1
  <2>. QED
    BY <1>5, <2>1 DEF T
<1>7. \A k \in 0 .. OCTET_BITS : k < OCTET_BITS => k + 1 \in 0 .. OCTET_BITS
  BY <1>1
<1>. QED
  BY <1>3, <1>6, <1>7

(* A number below OCTET has no bits but the lowest.                        *)
LEMMA HighBitsZero ==
    ASSUME InetAddrAssumption, NEW n \in 0 .. OCTET - 1,
           NEW k \in OCTET_BITS .. WORD_BITS
    PROVE  n % Pow2[k] = n /\ BitAt(n, k) = 0
<1>. DEFINE j == k - OCTET_BITS
            p == Pow2[j]
<1>1. /\ OCTET_BITS \in Nat /\ WORD_BITS \in Nat /\ j \in Nat /\ OCTET_BITS + j = k
      /\ k <= WORD_BITS /\ j \in 0 .. WORD_BITS
  BY Powers DEF InetAddrAssumption
<1>. HIDE DEF j
<1>2. Pow2[k] = OCTET * p /\ p \in Nat \ {0} /\ OCTET \in Nat \ {0}
  BY <1>1, PowSum, Powers, WordOctets DEF OCTET
<1>. DEFINE q == Pow2[k]
<1>3. q \in Nat \ {0} /\ q >= OCTET
  <2>1. q = OCTET * p
    BY <1>2
  <2>. HIDE DEF p, q
  <2>. QED
    BY <1>2, <2>1
<1>. HIDE DEF q
<1>4. n \in 0 .. q - 1 /\ n \in Nat
  BY <1>2, <1>3
<1>5. n % q = n /\ n \div q = 0
  BY <1>3, <1>4
<1>. QED
  BY <1>5 DEF BitAt, q

(* Numbers that share no bit are put together by adding them.              *)
LEMMA OrPlus ==
    ASSUME InetAddrAssumption, NEW m \in 0 .. WORD - 1, NEW n \in 0 .. OCTET - 1,
           m % OCTET = 0
    PROVE  BitOr(m, n) = m + n
<1>. DEFINE T == {k \in Nat : k <= WORD_BITS =>
                      Ors(m, n)[k] = (m % Pow2[k]) + (n % Pow2[k])}
<1>1. /\ WORD_BITS \in Nat /\ OCTET_BITS \in 1 .. WORD_BITS /\ m \in Nat /\ n \in Nat
      /\ OCTET \in Nat \ {0} /\ WORD \in Nat \ {0}
  BY Powers, WordOctets
<1>2. 0 \in T
  <2>1. m % 1 = 0 /\ n % 1 = 0
    BY <1>1
  <2>. QED
    BY <2>1, OrsEquation, Powers
<1>3. ASSUME NEW k \in Nat, k \in T PROVE k + 1 \in T
  <2>1. SUFFICES ASSUME k + 1 <= WORD_BITS
                 PROVE  Ors(m, n)[k + 1] = (m % Pow2[k + 1]) + (n % Pow2[k + 1])
    OBVIOUS
  <2>2. /\ k + 1 \in 1 .. WORD_BITS /\ (k + 1) - 1 = k /\ k <= WORD_BITS
        /\ k \in 0 .. WORD_BITS
    BY <1>1, <2>1
  <2>. DEFINE p == Pow2[k]
              b == BitAt(m, k)
              d == BitAt(n, k)
  <2>3. p \in Nat \ {0} /\ Pow2[k + 1] = 2 * p
    BY <2>2, Powers
  <2>4. /\ b \in {0, 1} /\ m % (2 * p) = b * p + (m % p)
        /\ d \in {0, 1} /\ n % (2 * p) = d * p + (n % p)
    <3>. HIDE DEF p
    <3>1. (m \div p) % 2 = b /\ (n \div p) % 2 = d
      BY DEF BitAt, p
    <3>. HIDE DEF b, d
    <3>. QED
      BY <1>1, <2>3, <3>1, NextBit
  <2>5. b = 0 \/ d = 0
    <3>1. CASE k < OCTET_BITS
      <4>1. k \in 0 .. OCTET_BITS
        BY <1>1, <3>1
      <4>. QED
        BY <1>1, <3>1, <4>1, LowBitsZero
    <3>2. CASE ~ (k < OCTET_BITS)
      <4>1. k \in OCTET_BITS .. WORD_BITS
        BY <1>1, <2>2, <3>2
      <4>. QED
        BY <4>1, HighBitsZero
    <3>. QED
      BY <3>1, <3>2
  <2>6. OrBit(m, n, k) = b + d
    <3>. HIDE DEF b, d
    <3>1. OrBit(m, n, k) = IF b + d = 0 THEN 0 ELSE 1
      BY DEF OrBit, b, d
    <3>. QED
      BY <2>4, <2>5, <3>1
  <2>7. Ors(m, n)[k + 1] = Ors(m, n)[k] + OrBit(m, n, k) * p
    BY <2>2, OrsEquation
  <2>8. Ors(m, n)[k] = (m % p) + (n % p)
    BY <1>3, <2>2
  <2>9. m % p \in Nat /\ n % p \in Nat
    <3>. HIDE DEF p
    <3>1. m % p \in 0 .. p - 1 /\ n % p \in 0 .. p - 1
      BY <1>1, <2>3, Remainder
    <3>. QED
      BY <2>3, <3>1
  <2>10. Ors(m, n)[k + 1] = ((m % p) + (n % p)) + (b + d) * p
    BY <2>6, <2>7, <2>8
  <2>11. (m % Pow2[k + 1]) + (n % Pow2[k + 1]) = (b * p + (m % p)) + (d * p + (n % p))
    <3>. HIDE DEF p, b, d
    <3>. QED
      BY <2>3, <2>4
  <2>. DEFINE x == m % p
              y == n % p
  <2>12. ((x + y) + (b + d) * p) = (b * p + x) + (d * p + y)
    <3>1. x \in Nat /\ y \in Nat
      BY <2>9
    <3>. HIDE DEF p, b, d, x, y
    <3>2. (b + d) * p = b * p + d * p /\ b * p \in Nat /\ d * p \in Nat
      BY <2>3, <2>4
    <3>. QED
      BY <2>3, <2>4, <3>1, <3>2
  <2>. QED
    BY <2>10, <2>11, <2>12
<1>. HIDE DEF T
<1>4. WORD_BITS \in T
  BY <1>1, <1>2, <1>3, NatSet
<1>5. Ors(m, n)[WORD_BITS] = (m % WORD) + (n % WORD)
  BY <1>1, <1>4 DEF T, WORD
<1>6. m % WORD = m
  BY <1>1
<1>7. n % WORD = n
  <2>1. WORD_BITS \in OCTET_BITS .. WORD_BITS
    BY <1>1
  <2>. QED
    BY <2>1, HighBitsZero DEF WORD
<1>. QED
  BY <1>5, <1>6, <1>7 DEF BitOr

(* One octet more, where the word has room for it.                         *)
LEMMA OctetAppended ==
    ASSUME InetAddrAssumption, NEW x \in Nat, NEW n \in 0 .. OCTET - 1,
           NEW r \in Nat, x < r, WORD >= r * OCTET
    PROVE  /\ OrOctet(x, n) = x * OCTET + n
           /\ OrOctet(x, n) \in Nat /\ OrOctet(x, n) < r * OCTET
           /\ OrOctet(x, n) % OCTET = n /\ OrOctet(x, n) \div OCTET = x
<1>1. OCTET \in Nat \ {0} /\ WORD \in Nat \ {0} /\ n \in Nat /\ n < OCTET
  BY WordOctets
<1>2. /\ x * OCTET \in Nat /\ x * OCTET + n < r * OCTET /\ x * OCTET < WORD
  <2>1. x + 1 <= r
    OBVIOUS
  <2>2. (x + 1) * OCTET <= r * OCTET
    BY <1>1, <2>1
  <2>3. (x + 1) * OCTET = x * OCTET + OCTET
    BY <1>1
  <2>4. x * OCTET \in Nat /\ r * OCTET \in Nat
    BY <1>1
  <2>. QED
    BY <1>1, <2>2, <2>3, <2>4
<1>. DEFINE y == x * OCTET
<1>3. y % WORD = y
  <2>1. y \in 0 .. WORD - 1
    BY <1>1, <1>2
  <2>. HIDE DEF y
  <2>. QED
    BY <1>1, <2>1
<1>4. \A k \in 0 .. OCTET - 1 : (y + k) % OCTET = k /\ (y + k) \div OCTET = x
  BY <1>1
<1>5. y % OCTET = 0
  <2>1. 0 \in 0 .. OCTET - 1 /\ y + 0 = y
    BY <1>1, <1>2
  <2>. QED
    BY <1>4, <2>1
<1>6. n % WORD = n
  <2>1. WORD_BITS \in OCTET_BITS .. WORD_BITS
    BY Powers
  <2>. QED
    BY <2>1, HighBitsZero DEF WORD
<1>7. OrOctet(x, n) = y + n
  <2>1. y \in 0 .. WORD - 1
    BY <1>1, <1>2
  <2>2. BitOr(y, n) = y + n
    <3>. HIDE DEF y
    <3>. QED
      BY <1>5, <2>1, OrPlus
  <2>. QED
    BY <1>3, <1>6, <2>2 DEF OrOctet, ShiftOctet
<1>. QED
  BY <1>1, <1>2, <1>4, <1>7

(* inet_ntoa undoes inet_aton on a dotted quad.                            *)
LEMMA QuadKept ==
    ASSUME InetAddrAssumption, NEW text \in Seq(0 .. OCTET - 1), Len(text) = 4, NEW stack
    PROVE  inet_ntoa(inet_aton(text, stack)) = text
<1>. DEFINE x1 == text[1] % WORD
            x2 == OrOctet(x1, text[2])
            x3 == OrOctet(x2, text[3])
            x4 == OrOctet(x3, text[4])
            r2 == OCTET * OCTET
            r3 == r2 * OCTET
<1>1. /\ OCTET \in Nat \ {0} /\ WORD \in Nat \ {0} /\ WORD = r3 * OCTET
      /\ text[1] \in 0 .. OCTET - 1 /\ text[2] \in 0 .. OCTET - 1
      /\ text[3] \in 0 .. OCTET - 1 /\ text[4] \in 0 .. OCTET - 1
  <2>1. \A j \in 1 .. 4 : text[j] \in 0 .. OCTET - 1
    <3>. DEFINE S == 0 .. OCTET - 1
    <3>1. text \in Seq(S)
      OBVIOUS
    <3>. HIDE DEF S
    <3>2. \A j \in 1 .. Len(text) : text[j] \in S
      BY <3>1, ElementOfSeq
    <3>. QED
      BY <3>2 DEF S
  <2>. QED
    BY <2>1, WordOctets
<1>2. inet_aton(text, stack) = x4
  <2>1. \A j \in 1 .. 4 : Assigned(text, stack)[j] = text[j]
    BY DEF Assigned
  <2>. QED
    BY <2>1 DEF inet_aton
<1>3. x1 = text[1] /\ x1 \in Nat /\ x1 < OCTET /\ x1 % OCTET = text[1]
  <2>1. WORD_BITS \in OCTET_BITS .. WORD_BITS
    BY Powers
  <2>2. x1 = text[1]
    BY <1>1, <2>1, HighBitsZero DEF WORD
  <2>3. text[1] % OCTET = text[1]
    <3>. DEFINE v == text[1]
    <3>1. v \in 0 .. OCTET - 1
      BY <1>1
    <3>. HIDE DEF v
    <3>2. OCTET_BITS \in OCTET_BITS .. WORD_BITS
      BY Powers
    <3>3. v % OCTET = v
      BY <3>1, <3>2, HighBitsZero DEF OCTET
    <3>. QED
      BY <3>3 DEF v
  <2>. QED
    BY <1>1, <2>2, <2>3
<1>. HIDE DEF x1, x2, x3, x4
<1>4. r2 \in Nat \ {0} /\ r2 >= OCTET
  BY <1>1
<1>. HIDE DEF r2
<1>5. r3 \in Nat \ {0} /\ r3 >= r2
  BY <1>1, <1>4
<1>. HIDE DEF r3
<1>6. WORD >= r3
  BY <1>1, <1>5
<1>7. WORD >= OCTET * OCTET /\ WORD >= r2 * OCTET /\ WORD >= r3 * OCTET
  BY <1>1, <1>4, <1>5, <1>6 DEF r2, r3
<1>8. x2 \in Nat /\ x2 < OCTET * OCTET /\ x2 % OCTET = text[2] /\ x2 \div OCTET = x1
  <2>1. OCTET \in Nat
    BY <1>1
  <2>. QED
    BY <1>1, <1>3, <1>7, <2>1, OctetAppended DEF x2
<1>9. x3 \in Nat /\ x3 < r2 * OCTET /\ x3 % OCTET = text[3] /\ x3 \div OCTET = x2
  <2>1. r2 \in Nat /\ x2 < r2
    BY <1>4, <1>8 DEF r2
  <2>. QED
    BY <1>1, <1>7, <1>8, <2>1, OctetAppended DEF x3
<1>10. x4 % OCTET = text[4] /\ x4 \div OCTET = x3
  <2>1. r3 \in Nat /\ x3 < r3
    BY <1>5, <1>9 DEF r3
  <2>. QED
    BY <1>1, <1>7, <1>9, <2>1, OctetAppended DEF x4
<1>11. inet_ntoa(x4) = <<text[1], text[2], text[3], text[4]>>
  BY <1>3, <1>8, <1>9, <1>10 DEF inet_ntoa
<1>12. text = <<text[1], text[2], text[3], text[4]>>
  OBVIOUS
<1>. QED
  BY <1>2, <1>11, <1>12

----------------------------------------------------------------------------
(* rtap_chains.lock *)

(* The part of the invariant that is about the lock is inductive by itself.*)
LockInv ==
    /\ DOMAIN fpc = Threads
    /\ WalkHoldsLock

(* No frame has arrived yet.                                               *)
LEMMA InitLockInv == Init => LockInv
BY DEF Init, LockInv, WalkHoldsLock

(* A thread that goes on to a filter takes or keeps the lock, and one that *)
(* is through with the chains has nothing more to do with it.              *)
LEMMA NextChainLock ==
    ASSUME NEW t \in Threads, NEW c, LockInv,
           \A u \in Threads \ {t} : fpc[u] \notin {"visit", "invoke", "send", "oops"},
           NextChain(t, c)
    PROVE  LockInv'
<1>. DEFINE later == {d \in DOMAIN chains : After(c, d) /\ FiltersOf(chains[d]) # <<>>}
<1>1. CASE later = {}
  BY <1>1 DEF NextChain, Leave, ReleaseLock, LockInv, WalkHoldsLock
<1>2. CASE later # {}
  BY <1>2 DEF NextChain, Enter, LockInv, WalkHoldsLock
<1>. QED
  BY <1>1, <1>2

(* After a filter of a chain: the next filter, or the next chain.          *)
LEMMA AdvanceLock ==
    ASSUME NEW t \in Threads, LockInv,
           \A u \in Threads \ {t} : fpc[u] \notin {"visit", "invoke", "send", "oops"},
           Advance(t)
    PROVE  LockInv'
<1>1. CASE ftmp[t]
  BY <1>1 DEF Advance, Enter, LockInv, WalkHoldsLock
<1>2. CASE ~ ftmp[t]
  BY <1>2, NextChainLock DEF Advance
<1>. QED
  BY <1>1, <1>2

(* Where one thread walks no other does.                                   *)
LEMMA WalksAlone ==
    ASSUME NEW t \in Threads, LockInv, fpc[t] \in {"visit", "invoke", "send"}
    PROVE  /\ chainlock = t
           /\ \A u \in Threads \ {t} : fpc[u] \notin {"visit", "invoke", "send", "oops"}
BY DEF LockInv, WalkHoldsLock

(* A step of a thread.                                                     *)
LEMMA ThreadLock ==
    ASSUME ForwardingAssumption, NEW t \in Threads, LockInv, ThreadNext(t)
    PROVE  LockInv'
<1>1. ASSUME NEW n \in Lens, Receive(t, n) PROVE LockInv'
  BY <1>1 DEF Receive, LockInv, WalkHoldsLock
<1>2. CASE Walk(t)
  <2>1. t # NULL /\ NULL \notin Threads
    BY DEF ForwardingAssumption
  <2>2. \A u \in Threads \ {t} : fpc[u] \notin {"visit", "invoke", "send", "oops"}
    BY <1>2, <2>1 DEF Walk, LockInv, WalkHoldsLock
  <2>. QED
    BY <1>2, <2>2, NextChainLock DEF Walk
<1>3. ASSUME Fault(t), fpc[t] \in {"visit", "invoke", "send"} PROVE LockInv'
  BY <1>3 DEF Fault, LockInv, WalkHoldsLock
<1>4. CASE Visit(t)
  <2>1. fpc[t] \in {"visit", "invoke", "send"}
    BY <1>4 DEF Visit
  <2>2. ASSUME NEW f, Judge(t, f) PROVE LockInv'
    <3>1. CASE Fault(t)
      BY <3>1, <2>1, <1>3
    <3>2. CASE Advance(t)
      BY <3>2, <2>1, WalksAlone, AdvanceLock
    <3>3. CASE /\ fpc' = [fpc EXCEPT ![t] = "invoke"]
               /\ UNCHANGED chainlock
      BY <3>3, <2>1 DEF LockInv, WalkHoldsLock
    <3>. QED
      BY <2>2, <3>1, <3>2, <3>3 DEF Judge
  <2>3. CASE Fault(t)
    BY <2>3, <2>1, <1>3
  <2>. QED
    BY <1>4, <2>2, <2>3 DEF Visit
<1>5. CASE Invoke(t)
  <2>1. fpc[t] \in {"visit", "invoke", "send"}
    BY <1>5 DEF Invoke
  <2>2. CASE Fault(t)
    BY <2>2, <2>1, <1>3
  <2>3. CASE Advance(t)
    BY <2>3, <2>1, WalksAlone, AdvanceLock
  <2>4. CASE /\ fpc' = [fpc EXCEPT ![t] = "send"]
             /\ UNCHANGED chainlock
    BY <2>4, <2>1 DEF LockInv, WalkHoldsLock
  <2>. QED
    BY <1>5, <2>2, <2>3, <2>4 DEF Invoke
<1>6. CASE Send(t)
  <2>1. fpc[t] \in {"visit", "invoke", "send"}
    BY <1>6 DEF Send
  <2>2. CASE Fault(t)
    BY <2>2, <2>1, <1>3
  <2>3. CASE Advance(t)
    BY <2>3, <2>1, WalksAlone, AdvanceLock
  <2>. QED
    BY <1>6, <2>2, <2>3 DEF Send
<1>. QED
  BY <1>1, <1>2, <1>4, <1>5, <1>6 DEF ThreadNext

(* A step of a writer leaves the threads alone, and the lock too, except   *)
(* that a reader of the filters may take it when it is free.               *)
LEMMA WriterLock ==
    ASSUME ForwardingAssumption, NEW w \in Writers, LockInv, Start(w) \/ WriterStep(w)
    PROVE  LockInv'
<1>1. UNCHANGED fpc
  BY DEF Start, WriterStep, ListenerCreate, ListenerSet, ListenerFind, ListenerRemove,
         ListenerAdd, ListenerClear, ListenerShow, RuleCreate, RuleTarget, RuleFind, RuleRemove,
         RuleAdd, RuleClear, RuleShow, NothingCreated, NoFilterCreated, NoChainCreated,
         FilterCreate, ChainFind, ChainAdd, FilterSet, FilterAdd, ChainRemove, ChainClear,
         FilterShow, thrVars
<1>2. CASE FilterShow(w)
  <2>1. chainlock = NULL /\ NULL \notin Threads
    BY <1>2 DEF FilterShow, ForwardingAssumption
  <2>. QED
    BY <1>1, <2>1 DEF LockInv, WalkHoldsLock
<1>3. CASE ~ FilterShow(w)
  <2>1. UNCHANGED chainlock
    BY <1>3 DEF Start, WriterStep, ListenerCreate, ListenerSet, ListenerFind, ListenerRemove,
         ListenerAdd, ListenerClear, ListenerShow, RuleCreate, RuleTarget, RuleFind,
         RuleRemove, RuleAdd, RuleClear, RuleShow, NothingCreated, NoFilterCreated,
         NoChainCreated, FilterCreate, ChainFind, ChainAdd, FilterSet, FilterAdd,
         ChainRemove, ChainClear
  <2>. QED
    BY <1>1, <2>1 DEF LockInv, WalkHoldsLock
<1>. QED
  BY <1>2, <1>3

(* The lock invariant is inductive.                                        *)
LEMMA NextLockInv == ForwardingAssumption /\ LockInv /\ [Next]_vars => LockInv'
<1>. SUFFICES ASSUME ForwardingAssumption, LockInv, [Next]_vars PROVE LockInv'
  OBVIOUS
<1>1. CASE UNCHANGED vars
  BY <1>1 DEF vars, thrVars, LockInv, WalkHoldsLock
<1>2. CASE Next
  BY <1>2, ThreadLock, WriterLock DEF Next
<1>. QED
  BY <1>1, <1>2

(* Every address of a chain has its entry in cdata.                        *)
LEMMA ChainAddresses ==
    ASSUME DOMAIN cdata = Chains, [Next]_vars
    PROVE  DOMAIN cdata' = Chains
<1>1. CASE UNCHANGED vars
  BY <1>1 DEF vars, objVars
<1>2. ASSUME NEW t \in Threads, ThreadNext(t) PROVE UNCHANGED cdata
  BY <1>2 DEF ThreadNext, Receive, Walk, Visit, Invoke, Send, objVars
<1>3. ASSUME NEW w \in Writers, Start(w) \/ WriterStep(w) PROVE DOMAIN cdata' = Chains
  <2>1. CASE ChainFind(w)
    BY <2>1 DEF ChainFind
  <2>2. CASE FilterAdd(w)
    <3>1. UNCHANGED cdata \/ \E x : cdata' = [cdata EXCEPT ![wptr[w]] = x]
      BY <2>2 DEF FilterAdd
    <3>. QED
      BY <3>1
  <2>3. CASE ChainRemove(w) \/ ChainClear(w)
    BY <2>3 DEF ChainRemove, ChainClear, Clear
  <2>4. CASE ~ (ChainFind(w) \/ FilterAdd(w) \/ ChainRemove(w) \/ ChainClear(w))
    BY <1>3, <2>4 DEF Start, WriterStep, ListenerCreate, ListenerSet, ListenerFind,
         ListenerRemove, ListenerAdd, ListenerClear, ListenerShow, RuleCreate, RuleTarget,
         RuleFind, RuleRemove, RuleAdd, RuleClear, RuleShow, NothingCreated, NoFilterCreated,
         NoChainCreated, FilterCreate, ChainAdd, FilterSet, FilterShow, objVars
  <2>. QED
    BY <2>1, <2>2, <2>3, <2>4
<1>. QED
  BY <1>1, <1>2, <1>3 DEF Next

(* A writer that lists, removes or frees a chain finds the lock free.      *)
LEMMA WriterStand ==
    ASSUME ForwardingAssumption, DOMAIN cdata = Chains, NEW w \in Writers,
           chainlock # NULL,
           Start(w) \/ WriterStep(w)
    PROVE  /\ chains' = chains
           /\ \A c \in Chains : cdata'[c] = cdata[c] \/ Grown(c)
<1>1. CASE FilterAdd(w)
  <2>1. CASE cdata[wptr[w]] = NULL
    BY <1>1, <2>1 DEF FilterAdd
  <2>2. CASE cdata[wptr[w]] # NULL
    <3>. DEFINE k == wptr[w]
                grown == [cdata[k] EXCEPT !.filters = PutLast(@, wobj[w])]
    <3>1. cdata' = [cdata EXCEPT ![k] = grown] /\ chains' = chains
      BY <1>1, <2>2 DEF FilterAdd
    <3>2. k \in DOMAIN cdata => Grown(k)
      <4>1. SUFFICES ASSUME k \in DOMAIN cdata PROVE Grown(k)
        OBVIOUS
      <4>2. cdata'[k] = grown
        BY <3>1, <4>1
      <4>. QED
        BY <4>2 DEF Grown, PutLast
    <3>. SUFFICES ASSUME NEW c \in Chains
                  PROVE  cdata'[c] = cdata[c] \/ Grown(c)
      BY <3>1
    <3>3. c \in DOMAIN cdata
      OBVIOUS
    <3>4. CASE c = k
      BY <3>2, <3>3, <3>4
    <3>5. CASE c # k
      <4>. HIDE DEF grown
      <4>. QED
        BY <3>1, <3>3, <3>5
    <3>. QED
      BY <3>4, <3>5
  <2>. QED
    BY <2>1, <2>2
<1>2. CASE ~ FilterAdd(w)
  <2>1. CASE ChainFind(w)
    <3>1. chainlock = NULL
      BY <2>1 DEF ChainFind
    <3>. QED
      BY <3>1
  <2>2. CASE ~ ChainFind(w)
    BY <1>2, <2>2 DEF Start, WriterStep, ListenerCreate, ListenerSet, ListenerFind,
         ListenerRemove, ListenerAdd, ListenerClear, ListenerShow, RuleCreate, RuleTarget,
         RuleFind, RuleRemove, RuleAdd, RuleClear, RuleShow, NothingCreated, NoFilterCreated,
         NoChainCreated, FilterCreate, ChainAdd, FilterSet, ChainRemove, ChainClear,
         WalkOver, FilterShow, objVars
  <2>. QED
    BY <2>1, <2>2
<1>. QED
  BY <1>1, <1>2

(* While a frame goes through the chains, none comes or goes, and a filter *)
(* that is added to one becomes its last.                                  *)
THEOREM WalkedChainsStand == Spec => ChainsStand
<1>. DEFINE Stand == /\ chains' = chains
                     /\ \A c \in Chains : cdata'[c] = cdata[c] \/ Grown(c)
            Step == \A t \in Threads : fpc[t] \in {"visit", "invoke", "send"} => Stand
<1>. USE ForwardingAssumption
<1>1. Init => LockInv /\ DOMAIN cdata = Chains
  BY InitLockInv DEF Init
<1>2. LockInv /\ DOMAIN cdata = Chains /\ [Next]_vars => (LockInv /\ DOMAIN cdata = Chains)'
  BY NextLockInv, ChainAddresses
<1>3. LockInv /\ DOMAIN cdata = Chains /\ [Next]_vars => [Step]_vars
  <2>. SUFFICES ASSUME LockInv, DOMAIN cdata = Chains, Next, NEW t \in Threads,
                       fpc[t] \in {"visit", "invoke", "send"}
                PROVE  Stand
    OBVIOUS
  <2>1. CASE \E w \in Writers : Start(w) \/ WriterStep(w)
    <3>1. chainlock # NULL
      BY DEF LockInv, WalkHoldsLock, ForwardingAssumption
    <3>. QED
      BY <2>1, <3>1, WriterStand
  <2>2. CASE \E u \in Threads : ThreadNext(u)
    BY <2>2 DEF ThreadNext, Receive, Walk, Visit, Invoke, Send, objVars
  <2>. QED
    BY <2>1, <2>2 DEF Next
<1>. QED
  BY <1>1, <1>2, <1>3, PTL DEF Spec, ChainsStand

----------------------------------------------------------------------------
(* Searches, and the lists *)

(* A search gives a member of the list that fits, the first one, and NULL  *)
(* only where none fits.                                                   *)
LEMMA SearchFinds ==
    ASSUME NEW S, NEW list \in Seq(S), NEW fits, fits \subseteq ToSet(list)
    PROVE  /\ fits = {} => FirstOf(list, fits) = NULL
           /\ fits # {} => FirstOf(list, fits) \in fits
<1>1. fits = {} => FirstOf(list, fits) = NULL
  BY DEF FirstOf
<1>2. ASSUME fits # {} PROVE FirstOf(list, fits) \in fits
  <2>. DEFINE T == {j \in DOMAIN list : list[j] \in fits}
  <2>1. T \subseteq Nat /\ T # {}
    BY <1>2 DEF ToSet
  <2>2. PICK k \in T : \A i \in Nat : i < k => i \notin T
    <3>. HIDE DEF T
    <3>. QED
      BY <2>1, LeastMember
  <2>3. \A l \in 1 .. k - 1 : list[l] \notin fits
    <3>1. k \in 1 .. Len(list)
      BY <2>2
    <3>2. \A l \in 1 .. k - 1 : l \in Nat /\ l < k /\ l \in DOMAIN list
      BY <3>1
    <3>. QED
      BY <2>2, <3>2
  <2>. DEFINE First(j) == list[j] \in fits /\ \A l \in 1 .. j - 1 : list[l] \notin fits
  <2>4. FirstOf(list, fits) = list[CHOOSE j \in DOMAIN list : First(j)]
    BY <1>2 DEF FirstOf
  <2>5. k \in DOMAIN list /\ First(k)
    BY <2>2, <2>3
  <2>6. First(CHOOSE j \in DOMAIN list : First(j))
    <3>. HIDE DEF First
    <3>. QED
      BY <2>5
  <2>. QED
    BY <2>4, <2>6
<1>. QED
  BY <1>1, <1>2

(* list_del takes one member out, and nothing where it is not listed.      *)
LEMMA WithoutMembers ==
    ASSUME NEW S, NEW list \in Seq(S), NEW x,
           \A j, k \in DOMAIN list : list[j] = list[k] => j = k
    PROVE  /\ Without(list, x) \in Seq(S)
           /\ \A n \in DOMAIN Without(list, x) :
                  \E m \in DOMAIN list : list[m] # x /\ Without(list, x)[n] = list[m]
           /\ \A m, n \in DOMAIN Without(list, x) :
                  Without(list, x)[m] = Without(list, x)[n] => m = n
<1>1. CASE x \notin ToSet(list)
  <2>1. Without(list, x) = list
    BY <1>1 DEF Without
  <2>2. \A n \in DOMAIN list : list[n] # x
    BY <1>1 DEF ToSet
  <2>. QED
    BY <2>1, <2>2
<1>2. CASE x \in ToSet(list)
  <2>. DEFINE j == CHOOSE i \in DOMAIN list : list[i] = x
  <2>1. j \in 1 .. Len(list) /\ list[j] = x
    BY <1>2 DEF ToSet
  <2>2. Without(list, x) = RemoveAt(list, j)
    BY <1>2 DEF Without
  <2>. HIDE DEF j
  <2>. DEFINE r == RemoveAt(list, j)
  <2>3. r \in Seq(S)
    BY <2>1, RemoveAtProperties
  <2>4. /\ \A n \in 1 .. Len(r) : \E m \in 1 .. Len(list) : m # j /\ r[n] = list[m]
        /\ \A m, n \in 1 .. Len(r) : r[m] = r[n] => m = n
    <3>1. \A m, n \in 1 .. Len(list) : list[m] = list[n] => m = n
      OBVIOUS
    <3>. QED
      BY <2>1, <3>1, RemoveAtMembers
  <2>. HIDE DEF r
  <2>5. DOMAIN r = 1 .. Len(r) /\ DOMAIN list = 1 .. Len(list)
    BY <2>3
  <2>6. \A n \in DOMAIN r : \E m \in DOMAIN list : list[m] # x /\ r[n] = list[m]
    BY <2>1, <2>4, <2>5
  <2>. QED
    BY <2>2, <2>3, <2>4, <2>5, <2>6 DEF r
<1>. QED
  BY <1>1, <1>2

(* A list, what the writers have made for it and the objects fit together. *)
Sound(A, list, made, data) ==
    /\ NULL \notin A
    /\ list \in Seq(A) /\ DOMAIN made = Writers /\ DOMAIN data = A
    /\ MadeOnce(made, data) /\ ListedOnce(list, made, data)

(* An object is made.                                                      *)
LEMMA SoundMake ==
    ASSUME NEW A, NEW list, NEW made, NEW data, Sound(A, list, made, data),
           NEW made2, NEW data2, NEW w \in Writers, NEW x \in A, NEW rec,
           data[x] = NULL, rec # NULL,
           made2 = [made EXCEPT ![w] = x], data2 = [data EXCEPT ![x] = rec]
    PROVE  Sound(A, list, made2, data2)
<1>1. DOMAIN made2 = Writers /\ DOMAIN data2 = A /\ NULL \notin A /\ list \in Seq(A)
  BY DEF Sound
<1>2. /\ made2[w] = x /\ \A v \in Writers : v # w => made2[v] = made[v]
      /\ data2[x] # NULL /\ \A a \in A : a # x => data2[a] = data[a]
  BY DEF Sound
<1>3. \A v \in Writers : made[v] # NULL => made[v] \in A /\ data[made[v]] # NULL
  BY DEF Sound, MadeOnce
<1>4. \A v, u \in Writers : made[v] = made[u] /\ made[v] # NULL => v = u
  BY DEF Sound, MadeOnce
<1>5. \A v \in Writers : made[v] # x
  BY <1>1, <1>3
<1>6. \A j \in DOMAIN list : list[j] \in A /\ data[list[j]] # NULL /\ list[j] # x
  BY DEF Sound, ListedOnce
<1>7. /\ \A j, k \in DOMAIN list : list[j] = list[k] => j = k
      /\ \A j \in DOMAIN list, v \in Writers : made[v] # list[j]
  BY DEF Sound, ListedOnce
<1>. HIDE DEF Sound
<1>8. MadeOnce(made2, data2)
  <2>1. \A v \in Writers : made2[v] # NULL => made2[v] \in A /\ data2[made2[v]] # NULL
    BY <1>2, <1>3, <1>5
  <2>2. \A v, u \in Writers : made2[v] = made2[u] /\ made2[v] # NULL => v = u
    BY <1>2, <1>4, <1>5
  <2>. QED
    BY <1>1, <2>1, <2>2 DEF MadeOnce
<1>9. ListedOnce(list, made2, data2)
  <2>1. \A j \in DOMAIN list : data2[list[j]] # NULL
    BY <1>2, <1>6
  <2>2. \A j \in DOMAIN list, v \in Writers : made2[v] # list[j]
    BY <1>2, <1>6, <1>7
  <2>. QED
    BY <1>7, <2>1, <2>2 DEF ListedOnce
<1>. QED
  BY <1>1, <1>8, <1>9 DEF Sound

(* What a writer has made is listed.                                       *)
LEMMA SoundList ==
    ASSUME NEW A, NEW list, NEW made, NEW data, Sound(A, list, made, data),
           NEW made2, NEW list2, NEW w \in Writers, made[w] # NULL,
           made2 = [made EXCEPT ![w] = NULL], list2 = Append(list, made[w])
    PROVE  Sound(A, list2, made2, data)
<1>. DEFINE x == made[w]
<1>1. DOMAIN made2 = Writers /\ DOMAIN data = A /\ NULL \notin A /\ list \in Seq(A)
  BY DEF Sound
<1>2. made2[w] = NULL /\ \A v \in Writers : v # w => made2[v] = made[v]
  BY DEF Sound
<1>3. \A v \in Writers : made[v] # NULL => made[v] \in A /\ data[made[v]] # NULL
  BY DEF Sound, MadeOnce
<1>4. \A v, u \in Writers : made[v] = made[u] /\ made[v] # NULL => v = u
  BY DEF Sound, MadeOnce
<1>5. /\ \A j \in DOMAIN list : data[list[j]] # NULL
      /\ \A j, k \in DOMAIN list : list[j] = list[k] => j = k
      /\ \A j \in DOMAIN list, v \in Writers : made[v] # list[j]
  BY DEF Sound, ListedOnce
<1>6. x \in A /\ data[x] # NULL
  BY <1>3
<1>7. MadeOnce(made2, data)
  <2>1. \A v \in Writers : made2[v] # NULL => made2[v] \in A /\ data[made2[v]] # NULL
    BY <1>2, <1>3
  <2>2. \A v, u \in Writers : made2[v] = made2[u] /\ made2[v] # NULL => v = u
    BY <1>2, <1>4
  <2>. QED
    BY <1>1, <2>1, <2>2 DEF MadeOnce
<1>. HIDE DEF x
<1>8. /\ list2 \in Seq(A) /\ DOMAIN list2 = 1 .. Len(list) + 1 /\ Len(list) \in Nat
      /\ DOMAIN list = 1 .. Len(list)
      /\ \A n \in 1 .. Len(list) + 1 : list2[n] = IF n = Len(list) + 1 THEN x ELSE list[n]
  <2>1. list2 = Append(list, x)
    BY DEF x
  <2>2. /\ list2 \in Seq(A) /\ Len(list2) = Len(list) + 1
        /\ \A n \in 1 .. Len(list) + 1 :
               list2[n] = IF n = Len(list) + 1 THEN x ELSE list[n]
    BY <1>1, <1>6, <2>1, AppendMembers
  <2>. QED
    BY <1>1, <2>2
<1>9. \A n \in DOMAIN list2 : \/ n \in DOMAIN list /\ list2[n] = list[n]
                              \/ n = Len(list) + 1 /\ list2[n] = x
  BY <1>8
<1>10. ListedOnce(list2, made2, data)
  <2>1. \A n \in DOMAIN list2 : data[list2[n]] # NULL
    BY <1>5, <1>6, <1>9
  <2>2. \A m, n \in DOMAIN list2 : list2[m] = list2[n] => m = n
    BY <1>5, <1>9 DEF x
  <2>3. \A n \in DOMAIN list2, v \in Writers : made2[v] # list2[n]
    <3>1. \A v \in Writers : made2[v] # x
      BY <1>1, <1>2, <1>4, <1>6 DEF x
    <3>2. \A n \in DOMAIN list, v \in Writers : made2[v] # list[n]
      <4>1. \A n \in DOMAIN list : list[n] \in A
        BY <1>1
      <4>. QED
        BY <1>1, <1>2, <1>5, <4>1
    <3>. QED
      BY <1>9, <3>1, <3>2
  <2>. QED
    BY <2>1, <2>2, <2>3 DEF ListedOnce
<1>. QED
  BY <1>1, <1>7, <1>8, <1>10 DEF Sound

(* Some listed objects are taken out of the list and freed.                *)
Shrunk(A, list, data, list2, data2) ==
    /\ list2 \in Seq(A) /\ DOMAIN data2 = A
    /\ \A a \in A : data2[a] = data[a] \/ \E j \in DOMAIN list : list[j] = a
    /\ \A n \in DOMAIN list2 :
           /\ \E j \in DOMAIN list : list2[n] = list[j]
           /\ data2[list2[n]] = data[list2[n]]
    /\ \A m, n \in DOMAIN list2 : list2[m] = list2[n] => m = n

(* A list that only loses members, which are freed, stays sound.           *)
LEMMA SoundDrop ==
    ASSUME NEW A, NEW list, NEW made, NEW data, Sound(A, list, made, data),
           NEW list2, NEW data2, Shrunk(A, list, data, list2, data2)
    PROVE  Sound(A, list2, made, data2)
<1>1. DOMAIN made = Writers /\ DOMAIN data = A /\ NULL \notin A /\ list \in Seq(A)
  BY DEF Sound
<1>3. \A v \in Writers : made[v] # NULL => made[v] \in A /\ data[made[v]] # NULL
  BY DEF Sound, MadeOnce
<1>4. \A v, u \in Writers : made[v] = made[u] /\ made[v] # NULL => v = u
  BY DEF Sound, MadeOnce
<1>5. /\ \A j \in DOMAIN list : data[list[j]] # NULL
      /\ \A j \in DOMAIN list, v \in Writers : made[v] # list[j]
  BY DEF Sound, ListedOnce
<1>2. Shrunk(A, list, data, list2, data2)
  OBVIOUS
<1>6. MadeOnce(made, data2)
  <2>1. \A v \in Writers : made[v] # NULL => made[v] \in A /\ data2[made[v]] # NULL
    BY <1>2, <1>3, <1>5 DEF Shrunk
  <2>. QED
    BY <1>1, <1>2, <1>4, <2>1 DEF Shrunk, MadeOnce
<1>7. ListedOnce(list2, made, data2)
  <2>1. \A n \in DOMAIN list2 : data2[list2[n]] # NULL
    BY <1>2, <1>5 DEF Shrunk
  <2>2. \A n \in DOMAIN list2, v \in Writers : made[v] # list2[n]
    BY <1>2, <1>5 DEF Shrunk
  <2>. QED
    BY <1>2, <2>1, <2>2 DEF Shrunk, ListedOnce
<1>. QED
  BY <1>1, <1>2, <1>6, <1>7 DEF Shrunk, Sound

(* One listed object is.                                                   *)
LEMMA SoundRemove ==
    ASSUME NEW A, NEW list, NEW made, NEW data, Sound(A, list, made, data),
           NEW list2, NEW data2, NEW x \in ToSet(list),
           list2 = Without(list, x), data2 = [data EXCEPT ![x] = NULL]
    PROVE  Sound(A, list2, made, data2)
<1>1. list \in Seq(A) /\ DOMAIN data = A
      /\ \A j, k \in DOMAIN list : list[j] = list[k] => j = k
  BY DEF Sound, ListedOnce
<1>2. /\ list2 \in Seq(A)
      /\ \A n \in DOMAIN list2 : \E m \in DOMAIN list : list[m] # x /\ list2[n] = list[m]
      /\ \A m, n \in DOMAIN list2 : list2[m] = list2[n] => m = n
  BY <1>1, WithoutMembers
<1>3. \A a \in A : data2[a] = data[a] \/ \E j \in DOMAIN list : list[j] = a
  BY <1>1 DEF ToSet
<1>4. \A n \in DOMAIN list2 : /\ \E j \in DOMAIN list : list2[n] = list[j]
                              /\ data2[list2[n]] = data[list2[n]]
  BY <1>1, <1>2
<1>5. DOMAIN data2 = A
  BY <1>1
<1>6. Shrunk(A, list, data, list2, data2)
  BY <1>2, <1>3, <1>4, <1>5 DEF Shrunk
<1>. QED
  BY <1>6, SoundDrop

(* All are.                                                                *)
LEMMA SoundClear ==
    ASSUME NEW A, NEW list, NEW made, NEW data, Sound(A, list, made, data),
           NEW list2, NEW data2, list2 = <<>>, data2 = Clear(data, ToSet(list))
    PROVE  Sound(A, list2, made, data2)
<1>1. list \in Seq(A) /\ DOMAIN data = A
  BY DEF Sound
<1>2. DOMAIN data2 = A /\ \A a \in A : data2[a] = data[a] \/ \E j \in DOMAIN list : list[j] = a
  BY <1>1 DEF Clear, ToSet
<1>3. list2 \in Seq(A) /\ \A n \in DOMAIN list2 : FALSE
  OBVIOUS
<1>4. /\ \A n \in DOMAIN list2 : /\ \E j \in DOMAIN list : list2[n] = list[j]
                                 /\ data2[list2[n]] = data[list2[n]]
      /\ \A m, n \in DOMAIN list2 : list2[m] = list2[n] => m = n
  BY <1>3
<1>5. Shrunk(A, list, data, list2, data2)
  BY <1>2, <1>3, <1>4 DEF Shrunk
<1>. QED
  BY <1>5, SoundDrop

(* A writer lets go of what it has made, and it may be freed.              *)
LEMMA SoundFree ==
    ASSUME NEW A, NEW list, NEW made, NEW data, Sound(A, list, made, data),
           NEW made2, NEW data2, NEW w \in Writers, DOMAIN data2 = A,
           made2 = [made EXCEPT ![w] = NULL],
           \A a \in A : a # made[w] => (data2[a] = NULL <=> data[a] = NULL)
    PROVE  Sound(A, list, made2, data2)
<1>1. DOMAIN made2 = Writers /\ DOMAIN data = A /\ NULL \notin A /\ list \in Seq(A)
  BY DEF Sound
<1>2. made2[w] = NULL /\ \A v \in Writers : v # w => made2[v] = made[v]
  BY DEF Sound
<1>3. \A v \in Writers : made[v] # NULL => made[v] \in A /\ data[made[v]] # NULL
  BY DEF Sound, MadeOnce
<1>4. \A v, u \in Writers : made[v] = made[u] /\ made[v] # NULL => v = u
  BY DEF Sound, MadeOnce
<1>5. /\ \A j \in DOMAIN list : data[list[j]] # NULL
      /\ \A j, k \in DOMAIN list : list[j] = list[k] => j = k
      /\ \A j \in DOMAIN list, v \in Writers : made[v] # list[j]
      /\ \A j \in DOMAIN list : list[j] \in A
  BY DEF Sound, ListedOnce
<1>6. MadeOnce(made2, data2)
  <2>1. \A v \in Writers : made2[v] # NULL => made2[v] \in A /\ data2[made2[v]] # NULL
    BY <1>2, <1>3, <1>4
  <2>2. \A v, u \in Writers : made2[v] = made2[u] /\ made2[v] # NULL => v = u
    BY <1>2, <1>4
  <2>. QED
    BY <1>1, <2>1, <2>2 DEF MadeOnce
<1>7. ListedOnce(list, made2, data2)
  <2>1. \A n \in DOMAIN list : data2[list[n]] # NULL
    BY <1>5
  <2>2. \A n \in DOMAIN list, v \in Writers : made2[v] # list[n]
    BY <1>1, <1>2, <1>5
  <2>. QED
    BY <1>5, <2>1, <2>2 DEF ListedOnce
<1>. QED
  BY <1>1, <1>6, <1>7 DEF Sound

(* An object changes in place.                                             *)
LEMMA SoundChange ==
    ASSUME NEW A, NEW list, NEW made, NEW data, Sound(A, list, made, data),
           NEW data2, DOMAIN data2 = A,
           \A a \in A : data2[a] = NULL <=> data[a] = NULL
    PROVE  Sound(A, list, made, data2)
<1>1. MadeOnce(made, data2)
  BY DEF Sound, MadeOnce
<1>2. ListedOnce(list, made, data2)
  <2>1. \A j \in DOMAIN list : list[j] \in A
    BY DEF Sound
  <2>. QED
    BY <2>1 DEF Sound, ListedOnce
<1>. QED
  BY <1>1, <1>2 DEF Sound

(* The filters of all chains, what the writers have made for them and the  *)
(* filters themselves fit together.                                        *)
Fs == [c \in Chains |-> FiltersOf(c)]

FsListed(fs, made, data) ==
    /\ \A c \in Chains : \A j \in DOMAIN fs[c] :
           data[fs[c][j]] # NULL /\ \A w \in Writers : made[w] # fs[c][j]
    /\ \A c, d \in Chains : \A j \in DOMAIN fs[c], k \in DOMAIN fs[d] :
           fs[c][j] = fs[d][k] => c = d /\ j = k

FsSound(fs, made, data) ==
    /\ NULL \notin Filters
    /\ DOMAIN fs = Chains /\ \A c \in Chains : fs[c] \in Seq(Filters)
    /\ DOMAIN made = Writers /\ DOMAIN data = Filters
    /\ MadeOnce(made, data) /\ FsListed(fs, made, data)

(* A filter is made.                                                       *)
LEMMA FilterMake ==
    ASSUME NEW fs, NEW made, NEW data, FsSound(fs, made, data),
           NEW made2, NEW data2, NEW w \in Writers, NEW x \in Filters, NEW rec,
           data[x] = NULL, rec # NULL,
           made2 = [made EXCEPT ![w] = x], data2 = [data EXCEPT ![x] = rec]
    PROVE  FsSound(fs, made2, data2)
<1>1. /\ DOMAIN made2 = Writers /\ DOMAIN data2 = Filters /\ NULL \notin Filters
      /\ DOMAIN fs = Chains /\ \A c \in Chains : fs[c] \in Seq(Filters)
  BY DEF FsSound
<1>2. /\ made2[w] = x /\ \A v \in Writers : v # w => made2[v] = made[v]
      /\ data2[x] # NULL /\ \A a \in Filters : a # x => data2[a] = data[a]
  BY DEF FsSound
<1>3. \A v \in Writers : made[v] # NULL => made[v] \in Filters /\ data[made[v]] # NULL
  BY DEF FsSound, MadeOnce
<1>4. \A v, u \in Writers : made[v] = made[u] /\ made[v] # NULL => v = u
  BY DEF FsSound, MadeOnce
<1>5. \A v \in Writers : made[v] # x
  BY <1>1, <1>3
<1>6. FsListed(fs, made, data)
  BY DEF FsSound
<1>7. \A c \in Chains : \A j \in DOMAIN fs[c] : fs[c][j] \in Filters /\ fs[c][j] # x
  <2>1. \A c \in Chains : \A j \in DOMAIN fs[c] : data[fs[c][j]] # NULL
    BY <1>6 DEF FsListed
  <2>2. \A c \in Chains : \A j \in DOMAIN fs[c] : fs[c][j] \in Filters
    BY <1>1
  <2>. QED
    BY <2>1, <2>2
<1>8. MadeOnce(made2, data2)
  <2>1. \A v \in Writers : made2[v] # NULL => made2[v] \in Filters /\ data2[made2[v]] # NULL
    BY <1>2, <1>3, <1>5
  <2>2. \A v, u \in Writers : made2[v] = made2[u] /\ made2[v] # NULL => v = u
    BY <1>2, <1>4, <1>5
  <2>. QED
    BY <1>1, <2>1, <2>2 DEF MadeOnce
<1>9. FsListed(fs, made2, data2)
  <2>1. \A c \in Chains : \A j \in DOMAIN fs[c] :
            data2[fs[c][j]] # NULL /\ \A v \in Writers : made2[v] # fs[c][j]
    <3>. SUFFICES ASSUME NEW c \in Chains, NEW j \in DOMAIN fs[c]
                  PROVE  data2[fs[c][j]] # NULL /\ \A v \in Writers : made2[v] # fs[c][j]
      OBVIOUS
    <3>1. data[fs[c][j]] # NULL /\ \A v \in Writers : made[v] # fs[c][j]
      BY <1>6 DEF FsListed
    <3>2. fs[c][j] \in Filters /\ fs[c][j] # x
      BY <1>7
    <3>. QED
      BY <1>2, <3>1, <3>2
  <2>. QED
    BY <1>6, <2>1 DEF FsListed
<1>. QED
  BY <1>1, <1>8, <1>9 DEF FsSound

(* A filter is put behind the others of a chain.                           *)
LEMMA FilterList ==
    ASSUME NEW fs, NEW made, NEW data, FsSound(fs, made, data),
           NEW fs2, NEW made2, NEW w \in Writers, NEW e \in Chains, made[w] # NULL,
           made2 = [made EXCEPT ![w] = NULL],
           fs2 = [fs EXCEPT ![e] = Append(fs[e], made[w])]
    PROVE  FsSound(fs2, made2, data)
<1>. DEFINE x == made[w]
<1>1. /\ DOMAIN made2 = Writers /\ DOMAIN data = Filters /\ NULL \notin Filters
      /\ DOMAIN fs = Chains /\ \A c \in Chains : fs[c] \in Seq(Filters)
      /\ DOMAIN fs2 = Chains
  BY DEF FsSound
<1>2. made2[w] = NULL /\ \A v \in Writers : v # w => made2[v] = made[v]
  BY DEF FsSound
<1>3. \A v \in Writers : made[v] # NULL => made[v] \in Filters /\ data[made[v]] # NULL
  BY DEF FsSound, MadeOnce
<1>4. \A v, u \in Writers : made[v] = made[u] /\ made[v] # NULL => v = u
  BY DEF FsSound, MadeOnce
<1>5. FsListed(fs, made, data)
  BY DEF FsSound
<1>6. x \in Filters /\ data[x] # NULL
  BY <1>3
<1>7. MadeOnce(made2, data)
  <2>1. \A v \in Writers : made2[v] # NULL => made2[v] \in Filters /\ data[made2[v]] # NULL
    BY <1>2, <1>3
  <2>2. \A v, u \in Writers : made2[v] = made2[u] /\ made2[v] # NULL => v = u
    BY <1>2, <1>4
  <2>. QED
    BY <1>1, <2>1, <2>2 DEF MadeOnce
<1>8. \A v \in Writers : made2[v] # x
  BY <1>1, <1>2, <1>4, <1>6
<1>9. fs2[e] = Append(fs[e], x) /\ \A c \in Chains : c # e => fs2[c] = fs[c]
  BY <1>1
<1>. HIDE DEF x
<1>10. /\ fs2[e] \in Seq(Filters) /\ DOMAIN fs2[e] = 1 .. Len(fs[e]) + 1
       /\ Len(fs[e]) \in Nat /\ DOMAIN fs[e] = 1 .. Len(fs[e])
       /\ \A n \in 1 .. Len(fs[e]) + 1 :
              fs2[e][n] = IF n = Len(fs[e]) + 1 THEN x ELSE fs[e][n]
  <2>. DEFINE s == fs[e]
  <2>1. s \in Seq(Filters)
    BY <1>1
  <2>. HIDE DEF s
  <2>2. /\ Append(s, x) \in Seq(Filters) /\ Len(Append(s, x)) = Len(s) + 1
        /\ \A n \in 1 .. Len(s) + 1 :
               Append(s, x)[n] = IF n = Len(s) + 1 THEN x ELSE s[n]
    BY <1>6, <2>1, AppendMembers
  <2>3. DOMAIN Append(s, x) = 1 .. Len(s) + 1 /\ Len(s) \in Nat /\ DOMAIN s = 1 .. Len(s)
    BY <2>1, <2>2
  <2>. QED
    BY <1>9, <2>2, <2>3 DEF s
<1>. DEFINE Old(c, n) == n \in DOMAIN fs[c] /\ fs2[c][n] = fs[c][n]
            New(c, n) == c = e /\ n = Len(fs[e]) + 1 /\ fs2[c][n] = x
<1>11. \A c \in Chains : \A n \in DOMAIN fs2[c] : Old(c, n) \/ New(c, n)
  <2>1. \A n \in DOMAIN fs2[e] : Old(e, n) \/ New(e, n)
    BY <1>10
  <2>2. \A c \in Chains : c # e => \A n \in DOMAIN fs2[c] : Old(c, n)
    BY <1>9
  <2>. QED
    BY <2>1, <2>2
<1>12. \A c \in Chains : \A j \in DOMAIN fs[c] :
           /\ data[fs[c][j]] # NULL /\ fs[c][j] \in Filters
           /\ \A v \in Writers : made[v] # fs[c][j]
  BY <1>1, <1>5 DEF FsListed
<1>13. FsListed(fs2, made2, data)
  <2>1. ASSUME NEW c \in Chains, NEW n \in DOMAIN fs2[c]
        PROVE  data[fs2[c][n]] # NULL /\ \A v \in Writers : made2[v] # fs2[c][n]
    <3>1. CASE Old(c, n)
      <4>1. data[fs[c][n]] # NULL /\ fs[c][n] \in Filters
        BY <1>12, <3>1
      <4>2. \A v \in Writers : made2[v] # fs[c][n]
        BY <1>1, <1>2, <1>12, <3>1
      <4>. QED
        BY <3>1, <4>1, <4>2
    <3>2. CASE New(c, n)
      BY <1>6, <1>8, <3>2
    <3>. QED
      BY <1>11, <3>1, <3>2
  <2>2. ASSUME NEW c \in Chains, NEW d \in Chains, NEW j \in DOMAIN fs2[c],
               NEW k \in DOMAIN fs2[d], fs2[c][j] = fs2[d][k]
        PROVE  c = d /\ j = k
    <3>1. ASSUME NEW b \in Chains, NEW n \in DOMAIN fs[b] PROVE fs[b][n] # x
      BY <1>12 DEF x
    <3>2. CASE Old(c, j) /\ Old(d, k)
      BY <1>5, <2>2, <3>2 DEF FsListed
    <3>3. CASE Old(c, j) /\ New(d, k)
      BY <2>2, <3>1, <3>3
    <3>4. CASE New(c, j) /\ Old(d, k)
      BY <2>2, <3>1, <3>4
    <3>5. CASE New(c, j) /\ New(d, k)
      BY <3>5
    <3>. QED
      BY <1>11, <3>2, <3>3, <3>4, <3>5
  <2>. QED
    BY <2>1, <2>2 DEF FsListed
<1>14. \A c \in Chains : fs2[c] \in Seq(Filters)
  BY <1>1, <1>9, <1>10
<1>. QED
  BY <1>1, <1>7, <1>13, <1>14 DEF FsSound

(* A writer lets go of its filter, which may be freed.                     *)
LEMMA FilterFree ==
    ASSUME NEW fs, NEW made, NEW data, FsSound(fs, made, data),
           NEW made2, NEW data2, NEW w \in Writers, DOMAIN data2 = Filters,
           made2 = [made EXCEPT ![w] = NULL],
           \A a \in Filters : a # made[w] => (data2[a] = NULL <=> data[a] = NULL)
    PROVE  FsSound(fs, made2, data2)
<1>1. /\ DOMAIN made2 = Writers /\ NULL \notin Filters
      /\ DOMAIN fs = Chains /\ \A c \in Chains : fs[c] \in Seq(Filters)
      /\ DOMAIN data = Filters
  BY DEF FsSound
<1>2. made2[w] = NULL /\ \A v \in Writers : v # w => made2[v] = made[v]
  BY DEF FsSound
<1>3. \A v \in Writers : made[v] # NULL => made[v] \in Filters /\ data[made[v]] # NULL
  BY DEF FsSound, MadeOnce
<1>4. \A v, u \in Writers : made[v] = made[u] /\ made[v] # NULL => v = u
  BY DEF FsSound, MadeOnce
<1>5. FsListed(fs, made, data)
  BY DEF FsSound
<1>6. MadeOnce(made2, data2)
  <2>1. \A v \in Writers : made2[v] # NULL => made2[v] \in Filters /\ data2[made2[v]] # NULL
    BY <1>2, <1>3, <1>4
  <2>2. \A v, u \in Writers : made2[v] = made2[u] /\ made2[v] # NULL => v = u
    BY <1>2, <1>4
  <2>. QED
    BY <2>1, <2>2 DEF MadeOnce
<1>7. FsListed(fs, made2, data2)
  <2>1. ASSUME NEW c \in Chains, NEW j \in DOMAIN fs[c]
        PROVE  data2[fs[c][j]] # NULL /\ \A v \in Writers : made2[v] # fs[c][j]
    <3>1. data[fs[c][j]] # NULL /\ \A v \in Writers : made[v] # fs[c][j]
      BY <1>5 DEF FsListed
    <3>2. fs[c][j] \in Filters
      BY <1>1
    <3>. QED
      BY <1>1, <1>2, <3>1, <3>2
  <2>. QED
    BY <1>5, <2>1 DEF FsListed
<1>. QED
  BY <1>1, <1>6, <1>7 DEF FsSound

(* A filter changes in place, and chains lose all their filters at once.   *)
LEMMA FilterChange ==
    ASSUME NEW fs, NEW made, NEW data, FsSound(fs, made, data),
           NEW fs2, NEW data2, DOMAIN data2 = Filters, DOMAIN fs2 = Chains,
           \A a \in Filters : data2[a] = NULL <=> data[a] = NULL,
           \A c \in Chains : fs2[c] \in {fs[c], <<>>}
    PROVE  FsSound(fs2, made, data2)
<1>1. /\ DOMAIN made = Writers /\ NULL \notin Filters
      /\ \A c \in Chains : fs[c] \in Seq(Filters)
      /\ DOMAIN data = Filters
  BY DEF FsSound
<1>2. MadeOnce(made, data2)
  BY DEF FsSound, MadeOnce
<1>3. FsListed(fs, made, data)
  BY DEF FsSound
<1>4. \A c \in Chains : \A j \in DOMAIN fs2[c] : j \in DOMAIN fs[c] /\ fs2[c][j] = fs[c][j]
  OBVIOUS
<1>5. \A c \in Chains : \A j \in DOMAIN fs[c] : fs[c][j] \in Filters
  BY <1>1
<1>6. FsListed(fs2, made, data2)
  <2>1. ASSUME NEW c \in Chains, NEW j \in DOMAIN fs2[c]
        PROVE  data2[fs2[c][j]] # NULL /\ \A v \in Writers : made[v] # fs2[c][j]
    BY <1>3, <1>4, <1>5 DEF FsListed
  <2>2. ASSUME NEW c \in Chains, NEW d \in Chains, NEW j \in DOMAIN fs2[c],
               NEW k \in DOMAIN fs2[d], fs2[c][j] = fs2[d][k]
        PROVE  c = d /\ j = k
    BY <1>3, <1>4, <2>2 DEF FsListed
  <2>. QED
    BY <2>1, <2>2 DEF FsListed
<1>7. \A c \in Chains : fs2[c] \in Seq(Filters)
  <2>1. <<>> \in Seq(Filters)
    OBVIOUS
  <2>. QED
    BY <1>1, <2>1
<1>. QED
  BY <1>1, <1>2, <1>6, <1>7 DEF FsSound

----------------------------------------------------------------------------
(* The writers *)

(* The first thing that a line makes its writer do.                        *)
Starts ==
    {"error", "lcreate", "lfind", "lclear", "rcreate", "rclear", "fcreate", "cremove",
     "cclear", "lshow", "rshow", "fshow"}

(* Entry sends a writer to one of those.                                    *)
LEMMA EntryStarts ==
    ASSUME ScriptAssumption, NEW line \in Written
    PROVE  Entry(line) \in Starts
<1>1. LineOK(line)
  BY DEF ScriptAssumption
<1>2. CASE line.file = "listeners"
  BY <1>2 DEF Entry, ListenerLine, Starts
<1>3. CASE line.file = "rules"
  BY <1>3 DEF Entry, RuleLine, Starts
<1>4. CASE line.file = "filters"
  BY <1>4 DEF Entry, FilterLine, Starts
<1>5. CASE line.file = "exit"
  BY <1>1, <1>5 DEF Entry, LineOK, Starts
<1>. QED
  BY <1>1, <1>2, <1>3, <1>4, <1>5 DEF LineOK

(* What a line that makes something says.                                  *)
LEMMA LineWords ==
    ASSUME ScriptAssumption, NEW line \in Written
    PROVE  /\ Entry(line) = "lcreate" =>
                  line.id \in Ids \cup {0} /\ line.ep \in Endpoints
           /\ Entry(line) = "rcreate" => line.id \in Ids /\ line.aid \in Actions
           /\ Entry(line) = "fcreate" =>
                  /\ line.id \in Ids /\ line.name \in Names
                  /\ line.type \in {"none", "all", "other", "undefined"}
                  /\ line.subtype \in SubtypeNames /\ line.size \in Int \cup {NULL}
<1>1. LineOK(line)
  BY DEF ScriptAssumption
<1>2. CASE line.file = "listeners"
  BY <1>2 DEF Entry, ListenerLine
<1>3. CASE line.file = "rules"
  BY <1>3 DEF Entry, RuleLine
<1>4. CASE line.file = "filters"
  BY <1>1, <1>4 DEF Entry, FilterLine, LineOK
<1>5. CASE line.file = "exit"
  BY <1>1, <1>5 DEF Entry, LineOK
<1>. QED
  BY <1>1, <1>2, <1>3, <1>4, <1>5 DEF LineOK

(* A step of a writer is about its own line and its own locals.            *)
LEMMA WriterFrame ==
    ASSUME WriterTypes, NEW w \in Writers, Start(w) \/ WriterStep(w)
    PROVE  /\ wpc' = [wpc EXCEPT ![w] = wpc'[w]]
           /\ wline' = [wline EXCEPT ![w] = wline'[w]]
           /\ wobj' = [wobj EXCEPT ![w] = wobj'[w]]
           /\ wptr' = [wptr EXCEPT ![w] = wptr'[w]]
           /\ todo' = [todo EXCEPT ![w] = todo'[w]]
           /\ UNCHANGED thrVars
<1>. DEFINE Own(f, g) == \E x : g = [f EXCEPT ![w] = x]
<1>1. /\ DOMAIN wpc = Writers /\ DOMAIN wline = Writers /\ DOMAIN wobj = Writers
      /\ DOMAIN wptr = Writers /\ DOMAIN todo = Writers
  BY DEF WriterTypes
<1>2. Own(wpc, wpc') /\ Own(wline, wline') /\ Own(wobj, wobj') /\ Own(wptr, wptr')
      /\ Own(todo, todo') /\ UNCHANGED thrVars
  <2>. DEFINE All == /\ Own(wpc, wpc') /\ Own(wline, wline') /\ Own(wobj, wobj')
                     /\ Own(wptr, wptr') /\ Own(todo, todo') /\ UNCHANGED thrVars
  <2>1. \A f : DOMAIN f = Writers /\ f = [v \in DOMAIN f |-> f[v]] => Own(f, f)
    <3>. SUFFICES ASSUME NEW f, DOMAIN f = Writers, f = [v \in DOMAIN f |-> f[v]]
                  PROVE  Own(f, f)
      OBVIOUS
    <3>1. f = [f EXCEPT ![w] = f[w]]
      OBVIOUS
    <3>. QED
      BY <3>1
  <2>2. Own(wpc, wpc) /\ Own(wline, wline) /\ Own(wobj, wobj) /\ Own(wptr, wptr)
        /\ Own(todo, todo)
    BY <2>1 DEF WriterTypes
  <2>. HIDE DEF Own
  <2>3. ASSUME NEW pc, Goto(w, pc) PROVE Own(wpc, wpc')
    BY <2>3 DEF Goto, Own
  <2>4. ASSUME Finish(w)
        PROVE  Own(wpc, wpc') /\ Own(wline, wline') /\ Own(wobj, wobj') /\ Own(wptr, wptr')
    BY <2>4 DEF Goto, Finish, Own
  <2>5. /\ \A x : wobj' = [wobj EXCEPT ![w] = x] => Own(wobj, wobj')
        /\ \A x : wptr' = [wptr EXCEPT ![w] = x] => Own(wptr, wptr')
        /\ \A x : wline' = [wline EXCEPT ![w] = x] => Own(wline, wline')
        /\ \A x : todo' = [todo EXCEPT ![w] = x] => Own(todo, todo')
    BY DEF Own
  <2>6. CASE Start(w)
    <3>1. Own(todo, todo')
      BY <2>6 DEF Start, Own
    <3>. QED
      BY <2>2, <2>3, <2>5, <2>6, <3>1 DEF Start
  <2>7. CASE ListenerCreate(w)
    BY <2>2, <2>3, <2>5, <2>7 DEF ListenerCreate
  <2>8. CASE ListenerFind(w) \/ ListenerSet(w)
    BY <2>2, <2>3, <2>4, <2>5, <2>8 DEF ListenerFind, ListenerSet
  <2>9. CASE ListenerRemove(w)
    BY <2>2, <2>3, <2>4, <2>9 DEF ListenerRemove
  <2>10. CASE ListenerAdd(w) \/ ListenerClear(w) \/ ListenerShow(w)
    BY <2>2, <2>4, <2>10 DEF ListenerAdd, ListenerClear, ListenerShow
  <2>11. CASE RuleCreate(w)
    BY <2>2, <2>3, <2>5, <2>11 DEF RuleCreate
  <2>12. CASE RuleTarget(w) \/ RuleShow(w)
    BY <2>2, <2>3, <2>4, <2>12 DEF RuleTarget, RuleShow
  <2>13. CASE RuleFind(w)
    BY <2>2, <2>3, <2>5, <2>13 DEF RuleFind
  <2>14. CASE RuleRemove(w)
    BY <2>2, <2>3, <2>14 DEF RuleRemove
  <2>15. CASE RuleAdd(w) \/ RuleClear(w)
    BY <2>2, <2>4, <2>15 DEF RuleAdd, RuleClear
  <2>16. CASE NothingCreated(w) \/ NoChainCreated(w)
    BY <2>2, <2>4, <2>16 DEF NothingCreated, NoChainCreated
  <2>17. CASE NoFilterCreated(w) \/ ChainAdd(w)
    BY <2>2, <2>3, <2>17 DEF NoFilterCreated, ChainAdd
  <2>18. CASE FilterCreate(w)
    BY <2>2, <2>3, <2>5, <2>18 DEF FilterCreate
  <2>19. CASE ChainFind(w)
    BY <2>2, <2>3, <2>5, <2>19 DEF ChainFind
  <2>20. CASE FilterSet(w) \/ FilterAdd(w)
    BY <2>2, <2>3, <2>4, <2>20 DEF FilterSet, FilterAdd
  <2>21. CASE ChainRemove(w) \/ ChainClear(w)
    BY <2>2, <2>4, <2>21 DEF ChainRemove, ChainClear
  <2>22. CASE FilterShow(w)
    BY <2>2, <2>3, <2>4, <2>22 DEF FilterShow
  <2>. QED
    BY <2>6, <2>7, <2>8, <2>9, <2>10, <2>11, <2>12, <2>13, <2>14, <2>15, <2>16, <2>17,
       <2>18, <2>19, <2>20, <2>21, <2>22 DEF WriterStep
<1>. QED
  BY <1>1, <1>2

(* The locals of a writer have their types and fit what it does.           *)
LocalsOK(w) ==
    /\ wpc[w] \in WriterPcs
    /\ wline[w] \in Written \cup {NULL}
    /\ wobj[w] \in Listeners \cup Rules \cup Filters \cup {NULL}
    /\ wptr[w] \in Listeners \cup Rules \cup Chains \cup {NULL}
    /\ todo[w] \in Seq(Written)
    /\ WorkOf(w)
    /\ MadeOf(w)

(* The invariant says so of every writer.                                  *)
LEMMA LocalsTyped ==
    ASSUME WriterTypes, AtWork, MadeKinds, NEW w \in Writers
    PROVE  LocalsOK(w)
BY DEF WriterTypes, AtWork, MadeKinds, LocalsOK

(* What a search among the objects finds is one of them, and is listed.    *)
LEMMA ListenerFound ==
    ASSUME ObjectTypes, NEW l, NEW id,
           l = ListenerWithId(id) \/ l = ListenerWithEndpoint(id)
    PROVE  l \in ToSet(listeners) \cup {NULL} /\ ToSet(listeners) \subseteq Listeners
<1>1. listeners \in Seq(Listeners)
  BY DEF ObjectTypes
<1>2. ToSet(listeners) \subseteq Listeners
  BY <1>1 DEF ToSet
<1>3. ASSUME NEW fits, fits \subseteq ToSet(listeners)
      PROVE  FirstOf(listeners, fits) \in ToSet(listeners) \cup {NULL}
  BY <1>1, <1>3, SearchFinds
<1>. QED
  BY <1>2, <1>3 DEF ListenerWithId, ListenerWithEndpoint

(* The same of the rules.                                                  *)
LEMMA RuleFound ==
    ASSUME ObjectTypes, NEW id
    PROVE  /\ RuleWithId(id) \in ToSet(rules) \cup {NULL}
           /\ ToSet(rules) \subseteq Rules
<1>1. rules \in Seq(Rules)
  BY DEF ObjectTypes
<1>2. ToSet(rules) \subseteq Rules
  BY <1>1 DEF ToSet
<1>3. ASSUME NEW fits, fits \subseteq ToSet(rules)
      PROVE  FirstOf(rules, fits) \in ToSet(rules) \cup {NULL}
  BY <1>1, <1>3, SearchFinds
<1>. QED
  BY <1>2, <1>3 DEF RuleWithId

(* rtap_chain_find, and the search of rtap_chain_remove.                   *)
LEMMA ChainFound ==
    ASSUME ObjectTypes, NEW name
    PROVE  /\ ChainWithName(name) \in ToSet(chains) \cup {NULL}
           /\ FirstOf(chains, ChainsNamed(name)) \in ToSet(chains) \cup {NULL}
           /\ ToSet(chains) \subseteq Chains
<1>1. chains \in Seq(Chains)
  BY DEF ObjectTypes
<1>2. Reverse(chains) \in Seq(Chains) /\ ToSet(Reverse(chains)) = ToSet(chains)
  <2>1. DOMAIN chains = 1 .. Len(chains) /\ Len(chains) \in Nat
    BY <1>1
  <2>. DEFINE r == Reverse(chains)
  <2>2. r = [i \in 1 .. Len(chains) |-> chains[Len(chains) - i + 1]]
    BY DEF Reverse
  <2>3. \A i \in 1 .. Len(chains) : Len(chains) - i + 1 \in 1 .. Len(chains)
    BY <2>1
  <2>4. DOMAIN r = 1 .. Len(chains)
        /\ \A i \in 1 .. Len(chains) : r[i] = chains[Len(chains) - i + 1]
    BY <2>2
  <2>5. \A i \in 1 .. Len(chains) : chains[i] \in Chains
    BY <1>1
  <2>6. r \in Seq(Chains)
    <3>1. r \in [1 .. Len(chains) -> Chains]
      BY <2>2, <2>3, <2>5
    <3>. QED
      BY <2>1, <3>1
  <2>. HIDE DEF r
  <2>7. \A i \in 1 .. Len(chains) : chains[i] = r[Len(chains) - i + 1]
    <3>. TAKE i \in 1 .. Len(chains)
    <3>1. /\ Len(chains) - i + 1 \in 1 .. Len(chains)
          /\ Len(chains) - (Len(chains) - i + 1) + 1 = i
      BY <2>1
    <3>. QED
      BY <2>4, <3>1
  <2>8. ToSet(r) = ToSet(chains)
    BY <2>1, <2>3, <2>4, <2>7 DEF ToSet
  <2>. QED
    BY <2>6, <2>8 DEF r
<1>3. ToSet(chains) \subseteq Chains
  BY <1>1 DEF ToSet
<1>4. ChainsNamed(name) \subseteq ToSet(chains)
  BY DEF ChainsNamed
<1>5. FirstOf(Reverse(chains), ChainsNamed(name)) \in ToSet(chains) \cup {NULL}
  BY <1>2, <1>4, SearchFinds
<1>6. FirstOf(chains, ChainsNamed(name)) \in ToSet(chains) \cup {NULL}
  BY <1>1, <1>4, SearchFinds
<1>. QED
  BY <1>3, <1>5, <1>6 DEF ChainWithName

(* A step leaves the locals of its writer in order.                        *)
LEMMA WriterLocals ==
    ASSUME ForwardingAssumption, ScriptAssumption,
           ObjectTypes, WriterTypes, AtWork, MadeKinds,
           NEW w \in Writers, Start(w) \/ WriterStep(w)
    PROVE  LocalsOK(w)'
<1>1. LocalsOK(w)
  BY LocalsTyped
<1>2. w \in DOMAIN wpc /\ w \in DOMAIN wline /\ w \in DOMAIN wobj /\ w \in DOMAIN wptr
      /\ w \in DOMAIN todo
  BY DEF WriterTypes
<1>3. \A pc : Goto(w, pc) => wpc'[w] = pc
  BY <1>2 DEF Goto
<1>4. Finish(w) => wpc'[w] = "idle" /\ wline'[w] = NULL /\ wobj'[w] = NULL /\ wptr'[w] = NULL
  BY <1>2 DEF Finish, Goto
<1>5. Finish(w) /\ UNCHANGED todo => LocalsOK(w)'
  BY <1>1, <1>4 DEF LocalsOK, WorkOf, MadeOf, WriterPcs
<1>6. CASE Start(w)
  <2>1. todo'[w] = Tail(todo[w]) /\ todo[w] # <<>> /\ todo[w] \in Seq(Written)
        /\ wpc[w] = "idle" /\ wobj[w] = NULL /\ wobj' = wobj /\ wptr' = wptr
    BY <1>1, <1>2, <1>6 DEF Start, LocalsOK, MadeOf
  <2>2. todo'[w] \in Seq(Written) /\ Head(todo[w]) \in Written
    BY <2>1, HeadTailProperties
  <2>. DEFINE line == Head(todo[w])
  <2>3. Entry(line) \in Starts
    BY <2>2, EntryStarts
  <2>4. CASE Entry(line) = "error"
    <3>1. wpc' = wpc /\ wline' = wline
      BY <1>6, <2>4 DEF Start
    <3>. QED
      BY <1>1, <2>1, <2>2, <3>1 DEF LocalsOK, WorkOf, MadeOf
  <2>5. CASE Entry(line) # "error"
    <3>1. wline'[w] = line /\ wpc'[w] = Entry(line)
      BY <1>2, <1>3, <1>6, <2>5 DEF Start
    <3>2. line \in Written
      BY <2>2
    <3>. HIDE DEF line
    <3>3. wpc'[w] \in Starts \ {"error"} /\ Entry(wline'[w]) = wpc'[w] /\ wline'[w] \in Written
      BY <2>3, <2>5, <3>1, <3>2
    <3>4. WorkOf(w)'
      BY <2>1, <3>3 DEF WorkOf, Starts
    <3>5. MadeOf(w)'
      BY <2>1, <3>3 DEF MadeOf, Starts
    <3>. QED
      BY <1>1, <2>1, <2>2, <3>3, <3>4, <3>5 DEF LocalsOK, WriterPcs, Starts
  <2>. QED
    BY <2>4, <2>5
<1>7. CASE ListenerCreate(w)
  <2>1. wobj'[w] \in Listeners /\ wpc'[w] = "lset" /\ wpc[w] = "lcreate"
        /\ UNCHANGED <<wline, wptr, todo>>
    BY <1>2, <1>3, <1>7 DEF ListenerCreate
  <2>. QED
    BY <1>1, <2>1 DEF LocalsOK, WorkOf, MadeOf, WriterPcs
<1>8. CASE ListenerFind(w)
  <2>. DEFINE l == IF wobj[w] = NULL
                   THEN ListenerWithId(wline[w].id)
                   ELSE ListenerWithEndpoint(wline[w].ep)
  <2>1. l \in Listeners \cup {NULL}
    BY ListenerFound
  <2>2. wpc[w] = "lfind" /\ UNCHANGED todo
    BY <1>8 DEF ListenerFind
  <2>3. CASE l # NULL
    <3>1. wptr'[w] = l /\ wpc'[w] = "lremove" /\ UNCHANGED <<wline, wobj>>
      BY <1>2, <1>3, <1>8, <2>3 DEF ListenerFind
    <3>. HIDE DEF l
    <3>. QED
      BY <1>1, <2>1, <2>2, <2>3, <3>1 DEF LocalsOK, WorkOf, MadeOf, WriterPcs
  <2>4. CASE l = NULL /\ wobj[w] = NULL
    BY <1>5, <1>8, <2>4 DEF ListenerFind
  <2>5. CASE l = NULL /\ wobj[w] # NULL
    <3>1. wpc'[w] = "ladd" /\ UNCHANGED <<wline, wobj, wptr>>
      BY <1>3, <1>8, <2>5 DEF ListenerFind
    <3>. QED
      BY <1>1, <2>2, <2>5, <3>1 DEF LocalsOK, WorkOf, MadeOf, WriterPcs
  <2>. QED
    BY <2>3, <2>4, <2>5
<1>9. CASE ListenerRemove(w)
  <2>1. wpc[w] = "lremove" /\ UNCHANGED todo
    BY <1>9 DEF ListenerRemove
  <2>2. \/ wpc'[w] = "oops" /\ UNCHANGED <<wline, wobj, wptr>>
        \/ Finish(w)
        \/ wobj[w] # NULL /\ wpc'[w] = "ladd" /\ UNCHANGED <<wline, wobj, wptr>>
    BY <1>3, <1>9 DEF ListenerRemove
  <2>. QED
    BY <1>1, <1>5, <2>1, <2>2 DEF LocalsOK, WorkOf, MadeOf, WriterPcs
<1>10. CASE \/ ListenerAdd(w) \/ ListenerClear(w) \/ ListenerShow(w) \/ RuleAdd(w)
            \/ RuleClear(w) \/ NothingCreated(w) \/ NoChainCreated(w)
            \/ ChainRemove(w) \/ ChainClear(w)
  BY <1>5, <1>10 DEF ListenerAdd, ListenerClear, ListenerShow, RuleAdd, RuleClear,
     NothingCreated, NoChainCreated, ChainRemove, ChainClear
<1>11. CASE RuleCreate(w)
  <2>1. wobj'[w] \in Rules /\ wpc'[w] = "target" /\ wpc[w] = "rcreate"
        /\ UNCHANGED <<wline, wptr, todo>>
    BY <1>2, <1>3, <1>11 DEF RuleCreate
  <2>. QED
    BY <1>1, <2>1 DEF LocalsOK, WorkOf, MadeOf, WriterPcs
<1>12. CASE RuleTarget(w)
  <2>1. wpc[w] = "target" /\ UNCHANGED todo
        /\ (Finish(w) \/ (wpc'[w] = "rfind" /\ UNCHANGED <<wline, wobj, wptr>>))
    BY <1>3, <1>12 DEF RuleTarget
  <2>. QED
    BY <1>1, <1>5, <2>1 DEF LocalsOK, WorkOf, MadeOf, WriterPcs
<1>13. CASE RuleFind(w)
  <2>. DEFINE r == RuleWithId(wline[w].id)
  <2>1. r \in Rules \cup {NULL}
    BY RuleFound
  <2>2. wpc[w] = "rfind" /\ wptr'[w] = r /\ UNCHANGED <<wline, wobj, todo>>
        /\ wpc'[w] = IF r = NULL THEN "radd" ELSE "rremove"
    BY <1>2, <1>3, <1>13 DEF RuleFind
  <2>. HIDE DEF r
  <2>. QED
    BY <1>1, <2>1, <2>2 DEF LocalsOK, WorkOf, MadeOf, WriterPcs
<1>14. CASE RuleRemove(w)
  <2>1. wpc[w] = "rremove" /\ wpc'[w] \in {"oops", "radd"}
        /\ UNCHANGED <<wline, wobj, wptr, todo>>
    BY <1>3, <1>14 DEF RuleRemove
  <2>. QED
    BY <1>1, <2>1 DEF LocalsOK, WorkOf, MadeOf, WriterPcs
<1>15. CASE RuleShow(w) \/ FilterShow(w)
  <2>1. UNCHANGED todo /\ wpc[w] \in {"rshow", "fshow"}
        /\ (Finish(w) \/ (wpc'[w] = "oops" /\ UNCHANGED <<wline, wobj, wptr>>))
    BY <1>3, <1>15 DEF RuleShow, FilterShow
  <2>. QED
    BY <1>1, <1>5, <2>1 DEF LocalsOK, WorkOf, MadeOf, WriterPcs
<1>16. CASE FilterCreate(w)
  <2>1. wobj'[w] \in Filters /\ wpc'[w] = "cfind" /\ wpc[w] = "fcreate"
        /\ UNCHANGED <<wline, wptr, todo>>
    BY <1>2, <1>3, <1>16 DEF FilterCreate
  <2>. QED
    BY <1>1, <2>1 DEF LocalsOK, WorkOf, MadeOf, WriterPcs
<1>17. CASE NoFilterCreated(w)
  <2>1. wpc'[w] = "cfind" /\ wpc[w] = "fcreate" /\ UNCHANGED <<wline, wobj, wptr, todo>>
    BY <1>3, <1>17 DEF NoFilterCreated
  <2>. QED
    BY <1>1, <2>1 DEF LocalsOK, WorkOf, MadeOf, WriterPcs
<1>18. CASE ChainFind(w)
  <2>. DEFINE c == ChainWithName(wline[w].name)
  <2>1. c \in Chains \cup {NULL}
    BY ChainFound
  <2>2. wpc[w] = "cfind" /\ UNCHANGED <<wline, wobj, todo>>
    BY <1>18 DEF ChainFind
  <2>3. CASE c # NULL
    <3>1. wptr'[w] = c /\ wpc'[w] = "frule"
      BY <1>2, <1>3, <1>18, <2>3 DEF ChainFind
    <3>. HIDE DEF c
    <3>. QED
      BY <1>1, <2>1, <2>2, <2>3, <3>1 DEF LocalsOK, WorkOf, MadeOf, WriterPcs
  <2>4. CASE c = NULL
    <3>1. wptr'[w] \in Chains /\ wpc'[w] = "cadd"
      BY <1>2, <1>3, <1>18, <2>4 DEF ChainFind
    <3>. QED
      BY <1>1, <2>2, <3>1 DEF LocalsOK, WorkOf, MadeOf, WriterPcs
  <2>. QED
    BY <2>3, <2>4
<1>19. CASE ChainAdd(w)
  <2>1. wpc'[w] = "frule" /\ wpc[w] = "cadd" /\ UNCHANGED <<wline, wobj, wptr, todo>>
    BY <1>3, <1>19 DEF ChainAdd
  <2>. QED
    BY <1>1, <2>1 DEF LocalsOK, WorkOf, MadeOf, WriterPcs
<1>20. CASE FilterSet(w)
  <2>1. wpc[w] = "frule" /\ UNCHANGED todo
        /\ \/ Finish(w)
           \/ wobj[w] # NULL /\ wpc'[w] = "fadd" /\ UNCHANGED <<wline, wobj, wptr>>
    BY <1>3, <1>20 DEF FilterSet
  <2>. QED
    BY <1>1, <1>5, <2>1 DEF LocalsOK, WorkOf, MadeOf, WriterPcs
<1>21. CASE FilterAdd(w)
  <2>1. wpc[w] = "fadd" /\ UNCHANGED todo
        /\ (Finish(w) \/ (wpc'[w] = "oops" /\ UNCHANGED <<wline, wobj, wptr>>))
    BY <1>3, <1>21 DEF FilterAdd
  <2>. QED
    BY <1>1, <1>5, <2>1 DEF LocalsOK, WorkOf, MadeOf, WriterPcs
<1>22. CASE ListenerSet(w)
  <2>1. wpc[w] = "lset" /\ UNCHANGED todo
        /\ (Finish(w) \/ (wpc'[w] = "lfind" /\ UNCHANGED <<wline, wobj, wptr>>))
    BY <1>3, <1>22 DEF ListenerSet
  <2>2. NULL \notin Listeners
    BY DEF ForwardingAssumption
  <2>. QED
    BY <1>1, <1>5, <2>1, <2>2 DEF LocalsOK, WorkOf, MadeOf, WriterPcs
<1>. QED
  BY <1>6, <1>7, <1>8, <1>9, <1>10, <1>11, <1>12, <1>13, <1>14, <1>15, <1>16, <1>17,
     <1>18, <1>19, <1>20, <1>21, <1>22 DEF WriterStep

(* And so are those of all the others.                                     *)
LEMMA WriterKept ==
    ASSUME ForwardingAssumption, ScriptAssumption,
           ObjectTypes, WriterTypes, AtWork, MadeKinds,
           NEW w \in Writers, Start(w) \/ WriterStep(w)
    PROVE  WriterTypes' /\ AtWork' /\ MadeKinds'
<1>1. LocalsOK(w)'
  BY WriterLocals
<1>2. \A v \in Writers : v # w =>
          wpc'[v] = wpc[v] /\ wline'[v] = wline[v] /\ wobj'[v] = wobj[v]
          /\ wptr'[v] = wptr[v] /\ todo'[v] = todo[v]
  BY WriterFrame DEF WriterTypes
<1>3. ASSUME NEW v \in Writers PROVE LocalsOK(v)'
  <2>1. CASE v = w
    BY <1>1, <2>1
  <2>2. CASE v # w
    <3>1. LocalsOK(v)
      BY LocalsTyped
    <3>. QED
      BY <1>2, <2>2, <3>1 DEF LocalsOK, WorkOf, MadeOf
  <2>. QED
    BY <2>1, <2>2
<1>4. WriterTypes'
  <2>1. /\ wpc' = [v \in Writers |-> wpc'[v]] /\ wline' = [v \in Writers |-> wline'[v]]
        /\ wobj' = [v \in Writers |-> wobj'[v]] /\ wptr' = [v \in Writers |-> wptr'[v]]
        /\ todo' = [v \in Writers |-> todo'[v]]
    BY WriterFrame DEF WriterTypes
  <2>. QED
    BY <1>3, <2>1 DEF WriterTypes, LocalsOK
<1>. QED
  BY <1>3, <1>4 DEF AtWork, MadeKinds, LocalsOK

(* The parts of ListsSound, about one list each.                           *)
ListenersSound == Sound(Listeners, listeners, ListenerMade, ldata)
RulesSound == Sound(Rules, rules, RuleMade, rdata)
ChainsSound == Sound(Chains, chains, ChainMade, cdata)
FiltersSound == FsSound(Fs, FilterMade, fdata)

(* The filters of a chain are filters.                                     *)
LEMMA FiltersTyped ==
    ASSUME ObjectTypes, NEW c \in Chains
    PROVE  FiltersOf(c) \in Seq(Filters)
<1>1. cdata[c] \in ChainRecs \cup {NULL}
  BY DEF ObjectTypes
<1>. QED
  BY <1>1 DEF ChainRecs, FiltersOf

(* ListsSound is made of these parts, in any state with its types ...      *)
LEMMA SoundParts ==
    ASSUME ForwardingAssumption
    PROVE  ObjectTypes =>
               (ListsSound <=> /\ ListenersSound /\ RulesSound
                               /\ ChainsSound /\ FiltersSound)
<1>. SUFFICES ASSUME ObjectTypes
              PROVE  ListsSound <=> /\ ListenersSound /\ RulesSound
                                    /\ ChainsSound /\ FiltersSound
  OBVIOUS
<1>1. ListenersSound <=>
          MadeOnce(ListenerMade, ldata) /\ ListedOnce(listeners, ListenerMade, ldata)
  BY DEF ListenersSound, Sound, ObjectTypes, ForwardingAssumption, ListenerMade
<1>2. RulesSound <=> MadeOnce(RuleMade, rdata) /\ ListedOnce(rules, RuleMade, rdata)
  BY DEF RulesSound, Sound, ObjectTypes, ForwardingAssumption, RuleMade
<1>3. ChainsSound <=> MadeOnce(ChainMade, cdata) /\ ListedOnce(chains, ChainMade, cdata)
  BY DEF ChainsSound, Sound, ObjectTypes, ForwardingAssumption, ChainMade
<1>4. FiltersSound <=> MadeOnce(FilterMade, fdata) /\ FiltersListedOnce
  <2>1. FiltersListedOnce <=> FsListed(Fs, FilterMade, fdata)
    BY DEF FiltersListedOnce, FsListed, Fs
  <2>2. \A c \in Chains : Fs[c] \in Seq(Filters)
    BY FiltersTyped DEF Fs
  <2>3. DOMAIN Fs = Chains /\ DOMAIN FilterMade = Writers /\ DOMAIN fdata = Filters
        /\ NULL \notin Filters
    BY DEF Fs, FilterMade, ObjectTypes, ForwardingAssumption
  <2>. QED
    BY <2>1, <2>2, <2>3 DEF FiltersSound, FsSound
<1>. QED
  BY <1>1, <1>2, <1>3, <1>4 DEF ListsSound

(* ... and in the next one.                                                *)
LEMMA SoundPartsNext ==
    ForwardingAssumption
        => (ObjectTypes' /\ ListenersSound' /\ RulesSound' /\ ChainsSound' /\ FiltersSound'
                => ListsSound')
<1>. SUFFICES ASSUME ForwardingAssumption
              PROVE  ObjectTypes' /\ ListenersSound' /\ RulesSound' /\ ChainsSound'
                         /\ FiltersSound' => ListsSound'
  OBVIOUS
<1>1. ObjectTypes => (ListsSound <=> /\ ListenersSound /\ RulesSound
                                     /\ ChainsSound /\ FiltersSound)
  BY SoundParts
<1>. QED
  BY <1>1, PTL

(* What a writer that is elsewhere does with a list, and with what it has  *)
(* made for it: nothing.                                                   *)
ListenersAlone(w) ==
    /\ UNCHANGED <<listeners, ldata>>
    /\ wpc'[w] \notin {"lset", "lremove", "ladd"}
    /\ wpc'[w] = "lfind" => wobj'[w] = wobj[w] /\ wpc[w] = "idle"

RulesAlone(w) ==
    /\ UNCHANGED <<rules, rdata>>
    /\ wpc'[w] \notin {"target", "rfind", "rremove", "radd"}

ChainsAlone(w) ==
    /\ UNCHANGED <<chains, cdata>>
    /\ wpc'[w] # "cadd"

FiltersAlone(w) ==
    /\ UNCHANGED <<chains, cdata, fdata>>
    /\ wpc'[w] \notin {"cfind", "cadd", "frule", "fadd"}

(* A step of a writer that is not at work on a list leaves that list alone. *)
LEMMA Elsewhere ==
    ASSUME ScriptAssumption, WriterTypes, NEW w \in Writers, Start(w) \/ WriterStep(w)
    PROVE  /\ wpc[w] \notin {"lcreate", "lset", "lfind", "lremove", "ladd", "lclear"}
                  => ListenersAlone(w)
           /\ wpc[w] \notin {"rcreate", "target", "rfind", "rremove", "radd", "rclear"}
                  => RulesAlone(w)
           /\ wpc[w] \notin {"cfind", "cadd", "fadd", "cremove", "cclear"}
                  => ChainsAlone(w)
           /\ wpc[w] \notin {"fcreate", "cfind", "cadd", "frule", "fadd", "cremove",
                             "cclear"}
                  => FiltersAlone(w)
<1>1. w \in DOMAIN wpc
  BY DEF WriterTypes
<1>2. \A pc : Goto(w, pc) => wpc'[w] = pc
  BY <1>1 DEF Goto
<1>3. Finish(w) => wpc'[w] = "idle"
  BY <1>1 DEF Finish, Goto
<1>4. CASE Start(w)
  <2>1. Head(todo[w]) \in Written
    BY <1>4, HeadTailProperties DEF Start, WriterTypes
  <2>2. wpc[w] = "idle" /\ wpc'[w] \in Starts \cup {"idle"}
        /\ UNCHANGED <<objVars, wobj>>
    BY <1>2, <1>4, <2>1, EntryStarts DEF Start
  <2>. QED
    BY <2>2 DEF Starts, objVars, ListenersAlone, RulesAlone, ChainsAlone, FiltersAlone
<1>5. ASSUME WriterStep(w),
             wpc[w] \notin {"lcreate", "lset", "lfind", "lremove", "ladd", "lclear"}
      PROVE  ListenersAlone(w)
  BY <1>2, <1>3, <1>5 DEF WriterStep, ListenerCreate, ListenerSet, ListenerFind, ListenerRemove,
     ListenerAdd, ListenerClear, ListenerShow, RuleCreate, RuleTarget, RuleFind,
     RuleRemove, RuleAdd, RuleClear, RuleShow, NothingCreated, NoFilterCreated,
     NoChainCreated, FilterCreate, ChainFind, ChainAdd, FilterSet, FilterAdd, ChainRemove,
     ChainClear, FilterShow, objVars, ListenersAlone
<1>6. ASSUME WriterStep(w),
             wpc[w] \notin {"rcreate", "target", "rfind", "rremove", "radd", "rclear"}
      PROVE  RulesAlone(w)
  BY <1>2, <1>3, <1>6 DEF WriterStep, ListenerCreate, ListenerSet, ListenerFind, ListenerRemove,
     ListenerAdd, ListenerClear, ListenerShow, RuleCreate, RuleTarget, RuleFind,
     RuleRemove, RuleAdd, RuleClear, RuleShow, NothingCreated, NoFilterCreated,
     NoChainCreated, FilterCreate, ChainFind, ChainAdd, FilterSet, FilterAdd, ChainRemove,
     ChainClear, FilterShow, objVars, RulesAlone
<1>7. ASSUME WriterStep(w), wpc[w] \notin {"cfind", "cadd", "fadd", "cremove", "cclear"}
      PROVE  ChainsAlone(w)
  BY <1>2, <1>3, <1>7 DEF WriterStep, ListenerCreate, ListenerSet, ListenerFind, ListenerRemove,
     ListenerAdd, ListenerClear, ListenerShow, RuleCreate, RuleTarget, RuleFind,
     RuleRemove, RuleAdd, RuleClear, RuleShow, NothingCreated, NoFilterCreated,
     NoChainCreated, FilterCreate, ChainFind, ChainAdd, FilterSet, FilterAdd, ChainRemove,
     ChainClear, FilterShow, objVars, ChainsAlone
<1>8. ASSUME WriterStep(w),
             wpc[w] \notin {"fcreate", "cfind", "cadd", "frule", "fadd", "cremove", "cclear"}
      PROVE  FiltersAlone(w)
  BY <1>2, <1>3, <1>8 DEF WriterStep, ListenerCreate, ListenerSet, ListenerFind, ListenerRemove,
     ListenerAdd, ListenerClear, ListenerShow, RuleCreate, RuleTarget, RuleFind,
     RuleRemove, RuleAdd, RuleClear, RuleShow, NothingCreated, NoFilterCreated,
     NoChainCreated, FilterCreate, ChainFind, ChainAdd, FilterSet, FilterAdd, ChainRemove,
     ChainClear, FilterShow, objVars, FiltersAlone
<1>. QED
  BY <1>4, <1>5, <1>6, <1>7, <1>8

(* A record that an object may be is not NULL.                             *)
LEMMA Records ==
    ASSUME ForwardingAssumption, ObjectAssumption, ScriptAssumption
    PROVE  /\ \A rec \in ListenerRecs \cup RuleRecs \cup ChainRecs \cup FilterRecs :
                  rec # NULL
           /\ NULL \notin Listeners /\ NULL \notin Rules /\ NULL \notin Chains
           /\ NULL \notin Filters
BY DEF ForwardingAssumption, ObjectAssumption

(* The list of the listeners: under each step of a writer it keeps its     *)
(* type, and stays sound.                                                  *)
LEMMA ListenerStep ==
    ASSUME ForwardingAssumption, ScriptAssumption, ObjectAssumption, InetAddrAssumption,
           ObjectTypes, WriterTypes, AtWork, MadeKinds, ListenersSound,
           NEW w \in Writers, Start(w) \/ WriterStep(w)
    PROVE  /\ listeners' \in Seq(Listeners)
           /\ ldata' \in [Listeners -> ListenerRecs \cup {NULL}]
           /\ ListenersSound'
<1>1. /\ listeners \in Seq(Listeners) /\ ldata \in [Listeners -> ListenerRecs \cup {NULL}]
      /\ w \in DOMAIN wpc /\ NULL \notin Listeners
  BY Records DEF ObjectTypes, WriterTypes
<1>2. \A pc : Goto(w, pc) => wpc'[w] = pc
  BY <1>1 DEF Goto
<1>3. Finish(w) => wpc'[w] = "idle" /\ wobj'[w] = NULL
  BY DEF Finish, Goto, WriterTypes
<1>4. WorkOf(w) /\ MadeOf(w)
  BY DEF AtWork, MadeKinds
<1>5. ListenerMade' = [ListenerMade EXCEPT ![w] =
            IF wpc'[w] \in {"lset", "lfind", "lremove", "ladd"} THEN wobj'[w] ELSE NULL]
  <2>1. \A v \in Writers : v # w => wpc'[v] = wpc[v] /\ wobj'[v] = wobj[v]
    BY WriterFrame DEF WriterTypes
  <2>. QED
    BY <2>1 DEF ListenerMade
<1>6. ListenerMade[w] =
          IF wpc[w] \in {"lset", "lfind", "lremove", "ladd"} THEN wobj[w] ELSE NULL
  BY DEF ListenerMade
<1>. DEFINE Same == ListenerMade' = ListenerMade
<1>7. ListenerMade'[w] = ListenerMade[w] => Same
  BY <1>5 DEF ListenerMade
<1>8. ListenerMade'[w] =
          IF wpc'[w] \in {"lset", "lfind", "lremove", "ladd"} THEN wobj'[w] ELSE NULL
  BY DEF ListenerMade
<1>. DEFINE Kept == UNCHANGED <<listeners, ldata>> /\ Same
<1>9. ASSUME Kept PROVE ListenersSound'
  BY <1>9 DEF ListenersSound
<1>10. Sound(Listeners, listeners, ListenerMade, ldata)
  BY DEF ListenersSound
<1>11. ASSUME Sound(Listeners, listeners', ListenerMade', ldata') PROVE ListenersSound'
  BY <1>11 DEF ListenersSound
<1>12. CASE wpc[w] \notin {"lcreate", "lset", "lfind", "lremove", "ladd", "lclear"}
  <2>1. ListenersAlone(w)
    BY <1>12, Elsewhere
  <2>2. ListenerMade'[w] = NULL /\ ListenerMade[w] = NULL
    BY <1>4, <1>6, <1>8, <1>12, <2>1 DEF ListenersAlone, MadeOf
  <2>. QED
    BY <1>1, <1>7, <1>9, <2>1, <2>2 DEF ListenersAlone
<1>13. CASE ListenerCreate(w)
  <2>1. PICK l \in Listeners, stack \in [1 .. 4 -> Garbage] :
            /\ ldata[l] = NULL
            /\ ldata' = [ldata EXCEPT ![l] =
                   [lid |-> wline[w].id, ep |-> wline[w].ep,
                    addr |-> inet_aton(wline[w].ep.ip, stack)]]
            /\ wobj' = [wobj EXCEPT ![w] = l]
    BY <1>13 DEF ListenerCreate
  <2>. DEFINE rec == [lid |-> wline[w].id, ep |-> wline[w].ep,
                      addr |-> inet_aton(wline[w].ep.ip, stack)]
  <2>2. wpc[w] = "lcreate" /\ wpc'[w] = "lset" /\ listeners' = listeners
        /\ wobj'[w] = l
    BY <1>2, <1>13, <2>1 DEF ListenerCreate, WriterTypes
  <2>3. wline[w].id \in Ids \cup {0} /\ wline[w].ep \in Endpoints
    BY <1>4, <2>2, LineWords DEF WorkOf
  <2>4. inet_aton(wline[w].ep.ip, stack) \in 0 .. WORD - 1
    BY AtonWord
  <2>5. rec \in ListenerRecs
    BY <2>3, <2>4 DEF ListenerRecs
  <2>. HIDE DEF rec
  <2>6. ldata' \in [Listeners -> ListenerRecs \cup {NULL}]
    BY <1>1, <2>1, <2>5 DEF rec
  <2>7. ListenerMade' = [ListenerMade EXCEPT ![w] = l]
    BY <1>5, <2>2
  <2>8. Sound(Listeners, listeners, ListenerMade', ldata')
    <3>1. rec # NULL /\ ldata' = [ldata EXCEPT ![l] = rec]
      BY <2>1, <2>5, Records DEF rec
    <3>. QED
      BY <1>10, <2>1, <2>7, <3>1, SoundMake
  <2>. QED
    BY <1>1, <1>11, <2>2, <2>6, <2>8
<1>14. CASE ListenerFind(w) \/ (NothingCreated(w) /\ wpc[w] = "lcreate")
  <2>1. Kept
    <3>1. UNCHANGED <<listeners, ldata>> /\ wpc[w] \in {"lfind", "lcreate"}
      BY <1>14 DEF ListenerFind, NothingCreated, objVars
    <3>2. \/ wpc[w] = "lfind" /\ wpc'[w] \in {"lremove", "ladd"} /\ wobj' = wobj
          \/ wobj[w] = NULL /\ Finish(w)
      BY <1>2, <1>4, <1>14 DEF ListenerFind, NothingCreated, MadeOf
    <3>3. ListenerMade'[w] = ListenerMade[w]
      BY <1>3, <1>6, <1>8, <3>1, <3>2
    <3>. QED
      BY <1>7, <3>1, <3>3
  <2>. QED
    BY <1>1, <1>9, <2>1
<1>15. CASE ListenerRemove(w)
  <2>1. wpc[w] = "lremove" /\ wptr[w] \in Listeners
    BY <1>4, <1>15 DEF ListenerRemove, MadeOf
  <2>2. CASE UNCHANGED <<listeners, ldata>> /\ wpc'[w] = "oops"
    <3>1. ListenerMade' = [ListenerMade EXCEPT ![w] = NULL]
      BY <1>5, <2>2
    <3>2. Sound(Listeners, listeners, ListenerMade', ldata)
      BY <1>1, <1>10, <3>1, SoundFree
    <3>. QED
      BY <1>1, <1>11, <2>2, <3>2
  <2>3. CASE /\ wptr[w] \in ToSet(listeners)
             /\ listeners' = Without(listeners, wptr[w])
             /\ ldata' = [ldata EXCEPT ![wptr[w]] = NULL]
             /\ (wobj[w] = NULL /\ Finish(w)) \/ (wobj' = wobj /\ wpc'[w] = "ladd")
    <3>1. Same
      BY <1>3, <1>6, <1>7, <1>8, <2>1, <2>3
    <3>2. Sound(Listeners, listeners', ListenerMade, ldata')
      BY <1>10, <2>3, SoundRemove
    <3>3. ldata' \in [Listeners -> ListenerRecs \cup {NULL}]
      BY <1>1, <2>3
    <3>. QED
      BY <1>11, <3>1, <3>2, <3>3 DEF Sound
  <2>. QED
    BY <1>2, <1>15, <2>2, <2>3 DEF ListenerRemove
<1>16. CASE ListenerAdd(w)
  <2>1. wpc[w] = "ladd" /\ wobj[w] \in Listeners /\ UNCHANGED ldata
        /\ listeners' = Append(listeners, wobj[w]) /\ wpc'[w] = "idle"
    BY <1>3, <1>4, <1>16 DEF ListenerAdd, MadeOf
  <2>2. ListenerMade[w] = wobj[w] /\ ListenerMade' = [ListenerMade EXCEPT ![w] = NULL]
    BY <1>5, <1>6, <2>1
  <2>3. Sound(Listeners, listeners', ListenerMade', ldata)
    BY <1>1, <1>10, <2>1, <2>2, SoundList
  <2>4. listeners' \in Seq(Listeners)
    BY <2>3 DEF Sound
  <2>. QED
    BY <1>1, <1>11, <2>1, <2>3, <2>4
<1>17. CASE ListenerClear(w)
  <2>1. wpc[w] = "lclear" /\ wpc'[w] = "idle" /\ listeners' = <<>>
        /\ ldata' = Clear(ldata, ToSet(listeners))
    BY <1>3, <1>17 DEF ListenerClear
  <2>2. Same
    BY <1>6, <1>7, <1>8, <2>1
  <2>3. ldata' \in [Listeners -> ListenerRecs \cup {NULL}]
    BY <1>1, <2>1 DEF Clear
  <2>4. Sound(Listeners, listeners', ListenerMade, ldata')
    BY <1>10, <2>1, SoundClear
  <2>. QED
    BY <1>11, <2>2, <2>3, <2>4 DEF Sound
<1>18. CASE ListenerSet(w)
  <2>. DEFINE l == wobj[w]
  <2>1. wpc[w] = "lset" /\ l \in Listeners /\ listeners' = listeners
    BY <1>4, <1>18 DEF ListenerSet, MadeOf
  <2>2. CASE ldata' = [ldata EXCEPT ![l] = NULL] /\ Finish(w)
    <3>1. ListenerMade[w] = l /\ ListenerMade' = [ListenerMade EXCEPT ![w] = NULL]
      BY <1>3, <1>5, <1>6, <2>1, <2>2
    <3>2. ldata' \in [Listeners -> ListenerRecs \cup {NULL}]
      BY <1>1, <2>2
    <3>3. DOMAIN ldata' = Listeners
          /\ \A a \in Listeners : a # ListenerMade[w] => (ldata'[a] = NULL <=> ldata[a] = NULL)
      BY <1>1, <2>2, <3>1
    <3>4. Sound(Listeners, listeners, ListenerMade', ldata')
      <4>1. ListenerMade' = [ListenerMade EXCEPT ![w] = NULL]
        BY <3>1
      <4>. HIDE DEF l, Same, Kept
      <4>. QED
        BY ZenonT(30), <1>10, <3>3, <4>1, SoundFree
    <3>. QED
      BY <1>1, <1>11, <2>1, <3>2, <3>4
  <2>3. CASE UNCHANGED <<ldata, wobj>> /\ wpc'[w] = "lfind"
    <3>1. Same
      BY <1>6, <1>7, <1>8, <2>1, <2>3
    <3>. QED
      BY <1>1, <1>9, <2>1, <2>3, <3>1
  <2>. QED
    BY <1>2, <1>18, <2>2, <2>3 DEF ListenerSet, DestroyListener
<1>19. wpc[w] \in {"lcreate", "lset", "lfind", "lremove", "ladd", "lclear"}
       => \/ ListenerCreate(w) \/ ListenerSet(w) \/ ListenerFind(w) \/ ListenerRemove(w)
          \/ ListenerAdd(w) \/ ListenerClear(w)
          \/ (NothingCreated(w) /\ wpc[w] = "lcreate")
  BY DEF Start, WriterStep, ListenerShow, RuleCreate, RuleTarget, RuleFind,
     RuleRemove, RuleAdd, RuleClear, RuleShow, NoFilterCreated, NothingCreated,
     NoChainCreated, FilterCreate, ChainFind, ChainAdd, FilterSet, FilterAdd, ChainRemove,
     ChainClear, FilterShow
<1>. QED
  BY <1>12, <1>13, <1>14, <1>15, <1>16, <1>17, <1>18, <1>19

(* The list of the rules.                                                  *)
LEMMA RuleStep ==
    ASSUME ForwardingAssumption, ScriptAssumption, ObjectAssumption,
           ObjectTypes, WriterTypes, AtWork, MadeKinds, RulesSound,
           NEW w \in Writers, Start(w) \/ WriterStep(w)
    PROVE  /\ rules' \in Seq(Rules)
           /\ rdata' \in [Rules -> RuleRecs \cup {NULL}]
           /\ RulesSound'
<1>. DEFINE At == {"target", "rfind", "rremove", "radd"}
            Same == RuleMade' = RuleMade
<1>1. /\ rules \in Seq(Rules) /\ rdata \in [Rules -> RuleRecs \cup {NULL}]
      /\ w \in DOMAIN wpc /\ NULL \notin Rules
  BY Records DEF ObjectTypes, WriterTypes
<1>2. \A pc : Goto(w, pc) => wpc'[w] = pc
  BY <1>1 DEF Goto
<1>3. Finish(w) => wpc'[w] = "idle"
  BY DEF Finish, Goto, WriterTypes
<1>4. WorkOf(w) /\ MadeOf(w)
  BY DEF AtWork, MadeKinds
<1>5. RuleMade' = [RuleMade EXCEPT ![w] = IF wpc'[w] \in At THEN wobj'[w] ELSE NULL]
  <2>1. \A v \in Writers : v # w => wpc'[v] = wpc[v] /\ wobj'[v] = wobj[v]
    BY WriterFrame DEF WriterTypes
  <2>. QED
    BY <2>1 DEF RuleMade
<1>6. RuleMade[w] = IF wpc[w] \in At THEN wobj[w] ELSE NULL
  BY DEF RuleMade
<1>7. RuleMade'[w] = RuleMade[w] => Same
  BY <1>5 DEF RuleMade
<1>8. RuleMade'[w] = IF wpc'[w] \in At THEN wobj'[w] ELSE NULL
  BY DEF RuleMade
<1>9. Sound(Rules, rules, RuleMade, rdata)
  BY DEF RulesSound
<1>10. ASSUME Sound(Rules, rules', RuleMade', rdata') PROVE RulesSound'
  BY <1>10 DEF RulesSound
<1>11. ASSUME UNCHANGED <<rules, rdata>>, RuleMade'[w] = RuleMade[w] PROVE RulesSound'
  BY <1>7, <1>11 DEF RulesSound
<1>12. CASE wpc[w] \notin {"rcreate", "target", "rfind", "rremove", "radd", "rclear"}
  <2>1. RulesAlone(w)
    BY <1>12, Elsewhere
  <2>2. RuleMade'[w] = NULL /\ RuleMade[w] = NULL
    BY <1>6, <1>8, <1>12, <2>1 DEF RulesAlone
  <2>. QED
    BY <1>1, <1>11, <2>1, <2>2 DEF RulesAlone
<1>13. CASE RuleCreate(w)
  <2>. DEFINE rec == [rid |-> wline[w].id, aid |-> wline[w].aid, l |-> NULL]
  <2>1. PICK r \in Rules : /\ rdata[r] = NULL
                           /\ rdata' = [rdata EXCEPT ![r] = rec]
                           /\ wobj' = [wobj EXCEPT ![w] = r]
    BY <1>13 DEF RuleCreate
  <2>2. wpc[w] = "rcreate" /\ wpc'[w] = "target" /\ rules' = rules /\ wobj'[w] = r
    BY <1>2, <1>13, <2>1 DEF RuleCreate, WriterTypes
  <2>3. rec \in RuleRecs
    BY <1>4, <2>2, LineWords DEF WorkOf, RuleRecs
  <2>. HIDE DEF rec
  <2>4. rdata' \in [Rules -> RuleRecs \cup {NULL}]
    BY <1>1, <2>1, <2>3
  <2>5. RuleMade' = [RuleMade EXCEPT ![w] = r]
    BY <1>5, <2>2
  <2>6. Sound(Rules, rules, RuleMade', rdata')
    <3>1. rec # NULL
      BY <2>3, Records
    <3>. QED
      BY <1>9, <2>1, <2>5, <3>1, SoundMake
  <2>. QED
    BY <1>1, <1>10, <2>2, <2>4, <2>6
<1>14. CASE RuleTarget(w)
  <2>. DEFINE l == IF wline[w].aid = "fwrd" THEN ListenerWithId(wline[w].arg) ELSE NULL
              r == wobj[w]
  <2>1. wpc[w] = "target" /\ r \in Rules /\ rules' = rules
    BY <1>4, <1>14 DEF RuleTarget, MadeOf
  <2>2. RuleMade[w] = r /\ r # NULL /\ rdata[r] # NULL
    BY <1>1, <1>6, <1>9, <2>1 DEF Sound, MadeOnce
  <2>3. rdata[r] \in RuleRecs /\ l \in Listeners \cup {NULL}
    <3>1. rdata[r] \in RuleRecs
      BY <1>1, <2>1, <2>2
    <3>. QED
      BY <3>1, ListenerFound
  <2>. HIDE DEF l
  <2>4. CASE ActionRefused(w, l)
    <3>1. rdata' = [rdata EXCEPT ![r] = NULL] /\ wpc'[w] = "idle"
      BY <1>3, <1>14, <2>4 DEF RuleTarget, DestroyRefused, l
    <3>2. RuleMade' = [RuleMade EXCEPT ![w] = NULL]
      BY <1>5, <3>1
    <3>3. rdata' \in [Rules -> RuleRecs \cup {NULL}]
      BY <1>1, <3>1
    <3>4. Sound(Rules, rules, RuleMade', rdata')
      <4>1. DOMAIN rdata' = Rules
            /\ \A a \in Rules : a # RuleMade[w] => (rdata'[a] = NULL <=> rdata[a] = NULL)
        BY <1>1, <2>2, <3>1
      <4>. QED
        BY <1>9, <3>2, <4>1, SoundFree
    <3>. QED
      BY <1>1, <1>10, <2>1, <3>3, <3>4
  <2>5. CASE ~ ActionRefused(w, l)
    <3>1. rdata' = [rdata EXCEPT ![r].l = l] /\ wpc'[w] = "rfind" /\ wobj' = wobj
      BY <1>2, <1>14, <2>5 DEF RuleTarget, l
    <3>2. Same
      BY <1>6, <1>7, <1>8, <2>1, <3>1
    <3>. DEFINE rec == [rdata[r] EXCEPT !.l = l]
    <3>3. rec \in RuleRecs
      BY <2>3 DEF RuleRecs
    <3>4. rdata' = [rdata EXCEPT ![r] = rec]
      BY <3>1
    <3>. HIDE DEF rec
    <3>5. rec # NULL
      BY <3>3, Records
    <3>6. rdata' \in [Rules -> RuleRecs \cup {NULL}]
      BY <1>1, <3>3, <3>4
    <3>7. \A a \in Rules : rdata'[a] = NULL <=> rdata[a] = NULL
      BY <1>1, <2>1, <2>2, <3>4, <3>5
    <3>8. Sound(Rules, rules, RuleMade, rdata')
      BY <1>9, <3>6, <3>7, SoundChange
    <3>. QED
      BY <1>1, <1>10, <2>1, <3>2, <3>6, <3>8
  <2>. QED
    BY <2>4, <2>5
<1>15. CASE RuleFind(w) \/ (NothingCreated(w) /\ wpc[w] = "rcreate")
  <2>1. UNCHANGED <<rules, rdata>>
    BY <1>15 DEF RuleFind, NothingCreated, objVars
  <2>2. RuleMade'[w] = RuleMade[w]
    BY <1>2, <1>3, <1>6, <1>8, <1>15 DEF RuleFind, NothingCreated
  <2>. QED
    BY <1>1, <1>11, <2>1, <2>2
<1>16. CASE RuleRemove(w)
  <2>1. CASE UNCHANGED <<rules, rdata>> /\ wpc'[w] = "oops"
    <3>1. RuleMade' = [RuleMade EXCEPT ![w] = NULL]
      BY <1>5, <2>1
    <3>2. Sound(Rules, rules, RuleMade', rdata)
      BY <1>1, <1>9, <3>1, SoundFree
    <3>. QED
      BY <1>1, <1>10, <2>1, <3>2
  <2>2. CASE /\ wptr[w] \in ToSet(rules)
             /\ rules' = Without(rules, wptr[w]) /\ rdata' = [rdata EXCEPT ![wptr[w]] = NULL]
             /\ wpc[w] = "rremove" /\ wpc'[w] = "radd" /\ wobj' = wobj
    <3>1. Same
      BY <1>6, <1>7, <1>8, <2>2
    <3>2. Sound(Rules, rules', RuleMade, rdata')
      BY <1>9, <2>2, SoundRemove
    <3>3. rdata' \in [Rules -> RuleRecs \cup {NULL}]
      BY <1>1, <2>2
    <3>. QED
      BY <1>10, <3>1, <3>2, <3>3 DEF Sound
  <2>. QED
    BY <1>2, <1>16, <2>1, <2>2 DEF RuleRemove
<1>17. CASE RuleAdd(w)
  <2>1. /\ wpc[w] = "radd" /\ wobj[w] \in Rules /\ UNCHANGED rdata
        /\ rules' = Append(rules, wobj[w]) /\ wpc'[w] = "idle"
    BY <1>3, <1>4, <1>17 DEF RuleAdd, MadeOf
  <2>2. RuleMade[w] = wobj[w] /\ RuleMade' = [RuleMade EXCEPT ![w] = NULL]
    BY <1>5, <1>6, <2>1
  <2>3. Sound(Rules, rules', RuleMade', rdata)
    BY <1>1, <1>9, <2>1, <2>2, SoundList
  <2>4. rules' \in Seq(Rules)
    BY <2>3 DEF Sound
  <2>. QED
    BY <1>1, <1>10, <2>1, <2>3, <2>4
<1>18. CASE RuleClear(w)
  <2>1. wpc[w] = "rclear" /\ wpc'[w] = "idle" /\ rules' = <<>>
        /\ rdata' = Clear(rdata, ToSet(rules))
    BY <1>3, <1>18 DEF RuleClear
  <2>2. Same
    BY <1>6, <1>7, <1>8, <2>1
  <2>3. rdata' \in [Rules -> RuleRecs \cup {NULL}]
    BY <1>1, <2>1 DEF Clear
  <2>4. Sound(Rules, rules', RuleMade, rdata')
    BY <1>9, <2>1, SoundClear
  <2>. QED
    BY <1>10, <2>2, <2>3, <2>4 DEF Sound
<1>19. wpc[w] \in {"rcreate", "target", "rfind", "rremove", "radd", "rclear"}
       => \/ RuleCreate(w) \/ RuleTarget(w) \/ RuleFind(w) \/ RuleRemove(w)
          \/ RuleAdd(w) \/ RuleClear(w) \/ (NothingCreated(w) /\ wpc[w] = "rcreate")
  BY DEF Start, WriterStep, ListenerCreate, ListenerSet, ListenerFind, ListenerRemove,
     ListenerAdd, ListenerClear, ListenerShow, RuleShow, NoFilterCreated, NothingCreated,
     NoChainCreated, FilterCreate, ChainFind, ChainAdd, FilterSet, FilterAdd, ChainRemove,
     ChainClear, FilterShow
<1>. QED
  BY <1>12, <1>13, <1>14, <1>15, <1>16, <1>17, <1>18, <1>19

(* The list of the chains.                                                 *)
LEMMA ChainStep ==
    ASSUME ForwardingAssumption, ScriptAssumption, ObjectAssumption,
           ObjectTypes, WriterTypes, AtWork, MadeKinds, ChainsSound,
           NEW w \in Writers, Start(w) \/ WriterStep(w)
    PROVE  /\ chains' \in Seq(Chains)
           /\ cdata' \in [Chains -> ChainRecs \cup {NULL}]
           /\ ChainsSound'
<1>. DEFINE Same == ChainMade' = ChainMade
<1>1. /\ chains \in Seq(Chains) /\ cdata \in [Chains -> ChainRecs \cup {NULL}]
      /\ w \in DOMAIN wpc /\ NULL \notin Chains
  BY Records DEF ObjectTypes, WriterTypes
<1>2. \A pc : Goto(w, pc) => wpc'[w] = pc
  BY <1>1 DEF Goto
<1>3. Finish(w) => wpc'[w] = "idle"
  BY DEF Finish, Goto, WriterTypes
<1>4. WorkOf(w) /\ MadeOf(w)
  BY DEF AtWork, MadeKinds
<1>5. ChainMade' = [ChainMade EXCEPT ![w] = IF wpc'[w] = "cadd" THEN wptr'[w] ELSE NULL]
  <2>1. \A v \in Writers : v # w => wpc'[v] = wpc[v] /\ wptr'[v] = wptr[v]
    BY WriterFrame DEF WriterTypes
  <2>. QED
    BY <2>1 DEF ChainMade
<1>6. ChainMade[w] = IF wpc[w] = "cadd" THEN wptr[w] ELSE NULL
  BY DEF ChainMade
<1>7. ChainMade'[w] = ChainMade[w] => Same
  BY <1>5 DEF ChainMade
<1>8. ChainMade'[w] = IF wpc'[w] = "cadd" THEN wptr'[w] ELSE NULL
  BY DEF ChainMade
<1>9. Sound(Chains, chains, ChainMade, cdata)
  BY DEF ChainsSound
<1>10. ASSUME Sound(Chains, chains', ChainMade', cdata') PROVE ChainsSound'
  BY <1>10 DEF ChainsSound
<1>11. ASSUME UNCHANGED <<chains, cdata>>, ChainMade'[w] = ChainMade[w] PROVE ChainsSound'
  BY <1>7, <1>11 DEF ChainsSound
<1>12. CASE wpc[w] \notin {"cfind", "cadd", "fadd", "cremove", "cclear"}
  <2>1. ChainsAlone(w)
    BY <1>12, Elsewhere
  <2>2. ChainMade'[w] = NULL /\ ChainMade[w] = NULL
    BY <1>6, <1>8, <1>12, <2>1 DEF ChainsAlone
  <2>. QED
    BY <1>1, <1>11, <2>1, <2>2 DEF ChainsAlone
<1>13. CASE ChainFind(w)
  <2>. DEFINE c == ChainWithName(wline[w].name)
              rec == [name |-> wline[w].name, filters |-> <<>>]
  <2>1. wpc[w] = "cfind" /\ chains' = chains
    BY <1>13 DEF ChainFind
  <2>2. CASE c # NULL
    <3>1. cdata' = cdata /\ wpc'[w] = "frule"
      BY <1>2, <1>13, <2>2 DEF ChainFind
    <3>. QED
      BY <1>1, <1>6, <1>8, <1>11, <2>1, <3>1
  <2>3. CASE c = NULL
    <3>1. PICK new \in Chains : /\ cdata[new] = NULL
                                /\ cdata' = [cdata EXCEPT ![new] = rec]
                                /\ wptr' = [wptr EXCEPT ![w] = new]
                                /\ Goto(w, "cadd")
      BY <1>13, <2>3 DEF ChainFind
    <3>2. wpc'[w] = "cadd" /\ wptr'[w] = new
      BY <1>2, <3>1 DEF WriterTypes
    <3>3. rec \in ChainRecs
      BY <1>4, <2>1, LineWords DEF WorkOf, ChainRecs
    <3>. HIDE DEF rec
    <3>4. cdata' \in [Chains -> ChainRecs \cup {NULL}]
      BY <1>1, <3>1, <3>3
    <3>5. ChainMade' = [ChainMade EXCEPT ![w] = new]
      BY <1>5, <3>2
    <3>6. Sound(Chains, chains, ChainMade', cdata')
      <4>1. rec # NULL
        BY <3>3, Records
      <4>. QED
        BY <1>9, <3>1, <3>5, <4>1, SoundMake
    <3>. QED
      BY <1>1, <1>10, <2>1, <3>4, <3>6
  <2>. QED
    BY <2>2, <2>3
<1>14. CASE NoChainCreated(w)
  <2>1. UNCHANGED <<chains, cdata>> /\ wpc[w] = "cfind" /\ wpc'[w] = "idle"
    BY <1>3, <1>14 DEF NoChainCreated, objVars
  <2>. QED
    BY <1>1, <1>6, <1>8, <1>11, <2>1
<1>15. CASE ChainAdd(w)
  <2>1. /\ wpc[w] = "cadd" /\ wptr[w] \in Chains /\ UNCHANGED cdata
        /\ chains' = Append(chains, wptr[w]) /\ wpc'[w] = "frule"
    BY <1>2, <1>4, <1>15 DEF ChainAdd, MadeOf
  <2>2. ChainMade[w] = wptr[w] /\ ChainMade' = [ChainMade EXCEPT ![w] = NULL]
    BY <1>5, <1>6, <2>1
  <2>3. Sound(Chains, chains', ChainMade', cdata)
    BY <1>1, <1>9, <2>1, <2>2, SoundList
  <2>4. chains' \in Seq(Chains)
    BY <2>3 DEF Sound
  <2>. QED
    BY <1>1, <1>10, <2>1, <2>3, <2>4
<1>16. CASE FilterAdd(w)
  <2>. DEFINE c == wptr[w]
  <2>1. wpc[w] = "fadd" /\ c \in Chains /\ wobj[w] \in Filters /\ chains' = chains
    BY <1>4, <1>16 DEF FilterAdd, MadeOf
  <2>2. wpc'[w] # "cadd"
    BY <1>2, <1>3, <1>16 DEF FilterAdd
  <2>3. ChainMade'[w] = ChainMade[w]
    BY <1>6, <1>8, <2>1, <2>2
  <2>4. CASE cdata[c] = NULL
    <3>1. cdata' = cdata
      BY <1>16, <2>4 DEF FilterAdd
    <3>. QED
      BY <1>1, <1>11, <2>1, <2>3, <3>1
  <2>5. CASE cdata[c] # NULL
    <3>. DEFINE rec == [cdata[c] EXCEPT !.filters = Append(@, wobj[w])]
    <3>1. cdata' = [cdata EXCEPT ![c] = rec]
      BY <1>16, <2>5 DEF FilterAdd, PutLast
    <3>2. rec \in ChainRecs
      <4>1. cdata[c] \in ChainRecs
        BY <1>1, <2>1, <2>5
      <4>2. Append(cdata[c].filters, wobj[w]) \in Seq(Filters)
        <5>1. cdata[c].filters \in Seq(Filters)
          BY <4>1 DEF ChainRecs
        <5>. QED
          BY <2>1, <5>1, AppendProperties
      <4>. QED
        BY <4>1, <4>2 DEF ChainRecs
    <3>. HIDE DEF rec
    <3>3. rec # NULL
      BY <3>2, Records
    <3>4. cdata' \in [Chains -> ChainRecs \cup {NULL}]
      BY <1>1, <3>1, <3>2
    <3>5. \A a \in Chains : cdata'[a] = NULL <=> cdata[a] = NULL
      BY <1>1, <2>1, <2>5, <3>1, <3>3
    <3>6. Sound(Chains, chains, ChainMade, cdata')
      BY <1>9, <3>4, <3>5, SoundChange
    <3>. QED
      BY <1>1, <1>7, <1>10, <2>1, <2>3, <3>4, <3>6
  <2>. QED
    BY <2>4, <2>5
<1>17. CASE ChainRemove(w)
  <2>. DEFINE c == FirstOf(chains, ChainsNamed(wline[w].name))
  <2>1. /\ chains' = Without(chains, c) /\ cdata' = Clear(cdata, {c})
        /\ wpc[w] = "cremove" /\ wpc'[w] = "idle"
    BY <1>3, <1>17 DEF ChainRemove
  <2>2. c \in ToSet(chains) \cup {NULL} /\ ToSet(chains) \subseteq Chains
    BY ChainFound
  <2>. HIDE DEF c
  <2>3. ChainMade'[w] = ChainMade[w]
    BY <1>6, <1>8, <2>1
  <2>4. CASE c = NULL
    <3>1. chains' = chains /\ cdata' = cdata
      BY <1>1, <2>1, <2>2, <2>4 DEF Without, Clear
    <3>. QED
      BY <1>1, <1>11, <2>3, <3>1
  <2>5. CASE c \in ToSet(chains)
    <3>1. cdata' = [cdata EXCEPT ![c] = NULL]
      BY <1>1, <2>1 DEF Clear
    <3>2. Sound(Chains, chains', ChainMade, cdata')
      BY <1>9, <2>1, <2>5, <3>1, SoundRemove
    <3>3. cdata' \in [Chains -> ChainRecs \cup {NULL}]
      BY <1>1, <3>1
    <3>. QED
      BY <1>7, <1>10, <2>3, <3>2, <3>3 DEF Sound
  <2>. QED
    BY <2>2, <2>4, <2>5
<1>18. CASE ChainClear(w)
  <2>1. wpc[w] = "cclear" /\ wpc'[w] = "idle" /\ chains' = <<>>
        /\ cdata' = Clear(cdata, ToSet(chains))
    BY <1>3, <1>18 DEF ChainClear
  <2>2. Same
    BY <1>6, <1>7, <1>8, <2>1
  <2>3. cdata' \in [Chains -> ChainRecs \cup {NULL}]
    BY <1>1, <2>1 DEF Clear
  <2>4. Sound(Chains, chains', ChainMade, cdata')
    BY <1>9, <2>1, SoundClear
  <2>. QED
    BY <1>10, <2>2, <2>3, <2>4 DEF Sound
<1>19. wpc[w] \in {"cfind", "cadd", "fadd", "cremove", "cclear"}
       => \/ ChainFind(w) \/ NoChainCreated(w) \/ ChainAdd(w) \/ FilterAdd(w)
          \/ ChainRemove(w) \/ ChainClear(w)
  BY DEF Start, WriterStep, ListenerCreate, ListenerSet, ListenerFind, ListenerRemove,
     ListenerAdd, ListenerClear, ListenerShow, RuleCreate, RuleTarget, RuleFind, RuleRemove,
     RuleAdd, RuleClear, RuleShow, NoFilterCreated, NothingCreated, FilterCreate, FilterSet,
     FilterShow
<1>. QED
  BY <1>12, <1>13, <1>14, <1>15, <1>16, <1>17, <1>18, <1>19

(* The filters of the chains.                                              *)
LEMMA FilterStep ==
    ASSUME ForwardingAssumption, ScriptAssumption, ObjectAssumption,
           ObjectTypes, WriterTypes, AtWork, MadeKinds, FiltersSound,
           NEW w \in Writers, Start(w) \/ WriterStep(w)
    PROVE  /\ fdata' \in [Filters -> FilterRecs \cup {NULL}]
           /\ FiltersSound'
<1>. DEFINE At == {"cfind", "cadd", "frule", "fadd"}
            Same == FilterMade' = FilterMade
<1>1. /\ fdata \in [Filters -> FilterRecs \cup {NULL}] /\ NULL \notin Filters
      /\ cdata \in [Chains -> ChainRecs \cup {NULL}] /\ NULL \notin Chains
      /\ w \in DOMAIN wpc
  BY Records DEF ObjectTypes, WriterTypes
<1>2. \A pc : Goto(w, pc) => wpc'[w] = pc
  BY <1>1 DEF Goto
<1>3. Finish(w) => wpc'[w] = "idle"
  BY DEF Finish, Goto, WriterTypes
<1>4. WorkOf(w) /\ MadeOf(w)
  BY DEF AtWork, MadeKinds
<1>5. FilterMade' = [FilterMade EXCEPT ![w] = IF wpc'[w] \in At THEN wobj'[w] ELSE NULL]
  <2>1. \A v \in Writers : v # w => wpc'[v] = wpc[v] /\ wobj'[v] = wobj[v]
    BY WriterFrame DEF WriterTypes
  <2>. QED
    BY <2>1 DEF FilterMade
<1>6. FilterMade[w] = IF wpc[w] \in At THEN wobj[w] ELSE NULL
  BY DEF FilterMade
<1>7. FilterMade'[w] = FilterMade[w] => Same
  BY <1>5 DEF FilterMade
<1>8. FilterMade'[w] = IF wpc'[w] \in At THEN wobj'[w] ELSE NULL
  BY DEF FilterMade
<1>9. FsSound(Fs, FilterMade, fdata)
  BY DEF FiltersSound
<1>10. ASSUME FsSound(Fs', FilterMade', fdata') PROVE FiltersSound'
  BY <1>10 DEF FiltersSound
<1>11. DOMAIN Fs = Chains /\ DOMAIN Fs' = Chains
       /\ \A c \in Chains : Fs[c] = FiltersOf(c) /\ Fs'[c] = FiltersOf(c)'
  BY DEF Fs
<1>12. cdata' = cdata => Fs' = Fs
  BY DEF Fs, FiltersOf
<1>13. ASSUME UNCHANGED <<cdata, fdata>>, FilterMade'[w] = FilterMade[w]
       PROVE  /\ fdata' \in [Filters -> FilterRecs \cup {NULL}]
              /\ FiltersSound'
  BY <1>1, <1>7, <1>9, <1>10, <1>12, <1>13
<1>14. CASE wpc[w] \notin {"fcreate", "cfind", "cadd", "frule", "fadd", "cremove", "cclear"}
  <2>1. FiltersAlone(w)
    BY <1>14, Elsewhere
  <2>2. FilterMade'[w] = NULL /\ FilterMade[w] = NULL
    BY <1>6, <1>8, <1>14, <2>1 DEF FiltersAlone
  <2>. QED
    BY <1>13, <2>1, <2>2 DEF FiltersAlone
<1>15. CASE FilterCreate(w)
  <2>. DEFINE rec == [fid |-> wline[w].id, type |-> wline[w].type,
                      subtype |-> wline[w].subtype, size |-> wline[w].size,
                      rule |-> NULL, count |-> 0]
  <2>1. PICK f \in Filters : /\ fdata[f] = NULL
                             /\ fdata' = [fdata EXCEPT ![f] = rec]
                             /\ wobj' = [wobj EXCEPT ![w] = f]
    BY <1>15 DEF FilterCreate
  <2>2. wpc[w] = "fcreate" /\ wpc'[w] = "cfind" /\ cdata' = cdata /\ wobj'[w] = f
    BY <1>2, <1>15, <2>1 DEF FilterCreate, WriterTypes
  <2>3. rec \in FilterRecs
    <3>1. Entry(wline[w]) = "fcreate" /\ wline[w] \in Written
      BY <1>4, <2>2 DEF WorkOf
    <3>2. /\ wline[w].id \in Ids /\ wline[w].subtype \in SubtypeNames
          /\ wline[w].type \in {"none", "all", "other", "undefined"}
          /\ wline[w].size \in Int \cup {NULL}
      BY <3>1, LineWords
    <3>3. 0 \in 0 .. UINT_MOD - 1
      BY DEF ForwardingAssumption
    <3>. QED
      BY <3>2, <3>3 DEF FilterRecs
  <2>. HIDE DEF rec
  <2>4. fdata' \in [Filters -> FilterRecs \cup {NULL}]
    BY <1>1, <2>1, <2>3
  <2>5. FilterMade' = [FilterMade EXCEPT ![w] = f]
    BY <1>5, <2>2
  <2>6. FsSound(Fs, FilterMade', fdata')
    <3>1. rec # NULL
      BY <2>3, Records
    <3>. QED
      BY <1>9, <2>1, <2>5, <3>1, FilterMake
  <2>. QED
    BY <1>10, <1>12, <2>2, <2>4, <2>6
<1>16. CASE NoFilterCreated(w)
  <2>1. wpc[w] = "fcreate" /\ wpc'[w] = "cfind" /\ UNCHANGED <<cdata, fdata, wobj>>
    BY <1>2, <1>16 DEF NoFilterCreated, objVars
  <2>2. wobj[w] = NULL
    BY <1>4, <2>1 DEF MadeOf
  <2>. QED
    BY <1>6, <1>8, <1>13, <2>1, <2>2
<1>17. CASE ChainFind(w)
  <2>1. wpc[w] = "cfind" /\ wpc'[w] \in {"cadd", "frule"} /\ UNCHANGED <<fdata, wobj>>
    BY <1>2, <1>17 DEF ChainFind
  <2>2. Same
    BY <1>6, <1>7, <1>8, <2>1
  <2>3. Fs' = Fs
    <3>1. CASE cdata' = cdata
      BY <1>12, <3>1
    <3>2. CASE cdata' # cdata
      <4>1. PICK new \in Chains :
                /\ cdata[new] = NULL
                /\ cdata' = [cdata EXCEPT ![new] =
                       [name |-> wline[w].name, filters |-> <<>>]]
        BY <1>17, <3>2 DEF ChainFind
      <4>2. cdata'[new] = [name |-> wline[w].name, filters |-> <<>>]
            /\ \A c \in Chains : c # new => cdata'[c] = cdata[c]
        BY <1>1, <4>1
      <4>3. FiltersOf(new)' = <<>> /\ FiltersOf(new) = <<>>
        BY <4>1, <4>2 DEF FiltersOf
      <4>4. \A c \in Chains : c # new => FiltersOf(c)' = FiltersOf(c)
        BY <4>2 DEF FiltersOf
      <4>. QED
        BY <4>3, <4>4 DEF Fs
    <3>. QED
      BY <3>1, <3>2
  <2>. QED
    BY <1>1, <1>9, <1>10, <2>1, <2>2, <2>3
<1>18. CASE NoChainCreated(w)
  <2>1. UNCHANGED <<cdata, fdata>> /\ wpc[w] = "cfind" /\ wpc'[w] = "idle"
    BY <1>3, <1>18 DEF NoChainCreated, objVars
  <2>2. FilterMade' = [FilterMade EXCEPT ![w] = NULL]
    BY <1>5, <2>1
  <2>3. FsSound(Fs, FilterMade', fdata)
    BY <1>1, <1>9, <2>2, FilterFree
  <2>. QED
    BY <1>1, <1>10, <1>12, <2>1, <2>3
<1>19. CASE ChainAdd(w)
  <2>1. /\ wpc[w] = "cadd" /\ wpc'[w] = "frule" /\ UNCHANGED <<cdata, fdata, wobj>>
    BY <1>2, <1>19 DEF ChainAdd
  <2>. QED
    BY <1>6, <1>8, <1>13, <2>1
<1>20. CASE FilterSet(w)
  <2>. DEFINE f == wobj[w]
              Refused == \/ f = NULL
                         \/ wline[w].type = "none" \/ wline[w].subtype = "none"
                         \/ wline[w].rid = 0
  <2>1. wpc[w] = "frule" /\ f \in Filters \cup {NULL} /\ cdata' = cdata
        /\ FilterMade[w] = f
    BY <1>4, <1>6, <1>20 DEF FilterSet, MadeOf
  <2>2. CASE Refused
    <3>1. fdata' = Clear(fdata, {f}) /\ wpc'[w] = "idle"
      BY <1>3, <1>20, <2>2 DEF FilterSet
    <3>2. FilterMade' = [FilterMade EXCEPT ![w] = NULL]
      BY <1>5, <3>1
    <3>3. /\ fdata' \in [Filters -> FilterRecs \cup {NULL}]
          /\ DOMAIN fdata' = Filters
          /\ \A a \in Filters : a # FilterMade[w] => (fdata'[a] = NULL <=> fdata[a] = NULL)
      BY <1>1, <2>1, <3>1 DEF Clear
    <3>4. FsSound(Fs, FilterMade', fdata')
      BY <1>9, <3>2, <3>3, FilterFree, ZenonT(30)
    <3>. QED
      BY <1>10, <1>12, <2>1, <3>3, <3>4
  <2>3. CASE ~ Refused
    <3>. DEFINE r == RuleWithId(wline[w].rid)
                rec == [fdata[f] EXCEPT !.rule = r]
    <3>1. fdata' = [fdata EXCEPT ![f] = rec] /\ wpc'[w] = "fadd" /\ wobj' = wobj
      BY <1>2, <1>20, <2>3 DEF FilterSet
    <3>2. f \in Filters /\ fdata[f] # NULL
      BY <1>9, <2>1, <2>3 DEF FsSound, MadeOnce
    <3>3. rec \in FilterRecs
      <4>1. r \in Rules \cup {NULL}
        BY RuleFound
      <4>2. fdata[f] \in FilterRecs
        BY <1>1, <3>2
      <4>. HIDE DEF r
      <4>. QED
        BY <4>1, <4>2 DEF FilterRecs
    <3>. HIDE DEF rec
    <3>4. rec # NULL
      BY <3>3, Records
    <3>5. /\ fdata' \in [Filters -> FilterRecs \cup {NULL}]
          /\ \A a \in Filters : fdata'[a] = NULL <=> fdata[a] = NULL
      BY <1>1, <3>1, <3>2, <3>3, <3>4
    <3>6. Same
      BY <1>6, <1>7, <1>8, <2>1, <3>1
    <3>7. FsSound(Fs, FilterMade, fdata')
      BY <1>9, <1>11, <3>5, FilterChange
    <3>. QED
      BY <1>10, <1>12, <2>1, <3>5, <3>6, <3>7
  <2>. QED
    BY <2>2, <2>3
<1>21. CASE FilterAdd(w)
  <2>. PICK e \in Chains : e = wptr[w]
    BY <1>4, <1>21 DEF FilterAdd, MadeOf
  <2>1. wpc[w] = "fadd" /\ wobj[w] \in Filters /\ fdata' = fdata
        /\ FilterMade[w] = wobj[w]
    BY <1>4, <1>6, <1>21 DEF FilterAdd, MadeOf
  <2>2. wpc'[w] \notin At
    BY <1>2, <1>3, <1>21 DEF FilterAdd
  <2>3. FilterMade' = [FilterMade EXCEPT ![w] = NULL]
    BY <1>5, <2>2
  <2>4. CASE cdata[e] = NULL
    <3>1. cdata' = cdata
      BY <1>21, <2>4 DEF FilterAdd
    <3>2. FsSound(Fs, FilterMade', fdata)
      BY <1>1, <1>9, <2>3, FilterFree
    <3>. QED
      BY <1>1, <1>10, <1>12, <2>1, <3>1, <3>2
  <2>5. CASE cdata[e] # NULL
    <3>. DEFINE more == Append(cdata[e].filters, wobj[w])
                rec == [cdata[e] EXCEPT !.filters = more]
    <3>1. cdata' = [cdata EXCEPT ![e] = rec]
      BY <1>21, <2>5 DEF FilterAdd, PutLast
    <3>2. rec \in ChainRecs /\ rec.filters = more
      <4>1. cdata[e] \in ChainRecs
        BY <1>1, <2>1, <2>5
      <4>2. more \in Seq(Filters)
        <5>1. cdata[e].filters \in Seq(Filters)
          BY <4>1 DEF ChainRecs
        <5>. QED
          BY <2>1, <5>1, AppendProperties
      <4>. QED
        BY <4>1, <4>2 DEF ChainRecs
    <3>3. Fs[e] = cdata[e].filters
      BY <2>1, <2>5 DEF Fs, FiltersOf
    <3>. HIDE DEF rec, more
    <3>4. rec # NULL
      BY <3>2, Records
    <3>5. cdata'[e] = rec /\ \A c \in Chains : c # e => cdata'[c] = cdata[c]
      BY <1>1, <2>1, <3>1
    <3>6. Fs'[e] = more
      BY <1>11, <3>2, <3>4, <3>5 DEF FiltersOf
    <3>7. \A c \in Chains : c # e => Fs'[c] = Fs[c]
      BY <1>11, <3>5 DEF FiltersOf
    <3>8. Fs' = [Fs EXCEPT ![e] = Append(Fs[e], FilterMade[w])]
      BY <2>1, <3>3, <3>6, <3>7 DEF more, Fs
    <3>9. FsSound(Fs', FilterMade', fdata)
      <4>1. FilterMade[w] # NULL
        BY <1>1, <2>1
      <4>. QED
        BY <1>9, <2>3, <3>8, <4>1, FilterList
    <3>. QED
      BY <1>1, <1>10, <2>1, <3>9
  <2>. QED
    BY <2>4, <2>5
<1>22. CASE ChainRemove(w) \/ ChainClear(w)
  <2>1. /\ \E addrs : cdata' = Clear(cdata, addrs)
        /\ wpc[w] \in {"cremove", "cclear"} /\ wpc'[w] = "idle" /\ fdata' = fdata
    BY <1>3, <1>22 DEF ChainRemove, ChainClear
  <2>2. Same
    BY <1>6, <1>7, <1>8, <2>1
  <2>3. \A c \in Chains : Fs'[c] \in {Fs[c], <<>>}
    <3>1. \A c \in Chains : cdata'[c] \in {cdata[c], NULL}
      BY <1>1, <2>1 DEF Clear
    <3>. QED
      BY <1>11, <3>1 DEF FiltersOf
  <2>4. FsSound(Fs', FilterMade, fdata)
    BY <1>1, <1>9, <1>11, <2>3, FilterChange
  <2>. QED
    BY <1>1, <1>10, <2>1, <2>2, <2>4
<1>23. wpc[w] \in {"fcreate", "cfind", "cadd", "frule", "fadd", "cremove", "cclear"}
       => \/ FilterCreate(w) \/ NoFilterCreated(w) \/ ChainFind(w) \/ NoChainCreated(w)
          \/ ChainAdd(w) \/ FilterSet(w) \/ FilterAdd(w) \/ ChainRemove(w) \/ ChainClear(w)
  BY DEF Start, WriterStep, ListenerCreate, ListenerSet, ListenerFind, ListenerRemove,
     ListenerAdd, ListenerClear, ListenerShow, RuleCreate, RuleTarget, RuleFind, RuleRemove,
     RuleAdd, RuleClear, RuleShow, NothingCreated, FilterShow
<1>. QED
  BY <1>14, <1>15, <1>16, <1>17, <1>18, <1>19, <1>20, <1>21, <1>22, <1>23

(* Together: what a step of a writer does to the objects.                  *)
LEMMA WriterObjects ==
    ASSUME ForwardingAssumption, ScriptAssumption, ObjectAssumption, InetAddrAssumption,
           ObjectTypes, WriterTypes, AtWork, MadeKinds, ListsSound,
           NEW w \in Writers, Start(w) \/ WriterStep(w)
    PROVE  ObjectTypes' /\ ListsSound'
<1>1. ListenersSound /\ RulesSound /\ ChainsSound /\ FiltersSound
  BY SoundParts
<1>2. ObjectTypes'
  BY <1>1, ListenerStep, RuleStep, ChainStep, FilterStep DEF ObjectTypes
<1>3. ListenersSound' /\ RulesSound' /\ ChainsSound' /\ FiltersSound'
  BY <1>1, ListenerStep, RuleStep, ChainStep, FilterStep
<1>4. ListsSound'
  BY <1>2, <1>3, SoundPartsNext
<1>. QED
  BY <1>2, <1>4

----------------------------------------------------------------------------
(* The walks *)

OnList(t) ==
    fpc[t] \in {"visit", "invoke", "send"} =>
        /\ fpos[t][1] \in ToSet(chains)
        /\ fpos[t][2] \in DOMAIN FiltersOf(fpos[t][1])
        /\ ftmp[t] => fpos[t][2] < Len(FiltersOf(fpos[t][1]))

(* Where the walk of thread t goes when it leaves a filter.                *)
Moved(t) ==
    /\ \E pc \in {"visit", "done"} : fpc' = [fpc EXCEPT ![t] = pc]
    /\ \E c \in Chains \cup {NULL}, n \in Nat : fpos' = [fpos EXCEPT ![t] = <<c, n>>]
    /\ \E b \in BOOLEAN : ftmp' = [ftmp EXCEPT ![t] = b]
    /\ chainlock' \in {t, NULL}
    /\ OnList(t)'

(* It goes to the first filter of a later chain, or is over ...            *)
LEMMA NextChainMoves ==
    ASSUME ObjectTypes, ThreadTypes, NEW t \in Threads, NEW c,
           UNCHANGED <<chains, cdata>>, NextChain(t, c)
    PROVE  Moved(t)
<1>. DEFINE later == {d \in DOMAIN chains : After(c, d) /\ FiltersOf(chains[d]) # <<>>}
<1>1. t \in DOMAIN fpc /\ t \in DOMAIN fpos /\ t \in DOMAIN ftmp
  BY DEF ThreadTypes
<1>2. CASE later = {}
  <2>1. Leave(t)
    BY <1>2 DEF NextChain
  <2>2. /\ fpc' = [fpc EXCEPT ![t] = "done"] /\ fpos' = [fpos EXCEPT ![t] = <<NULL, 0>>]
        /\ ftmp' = [ftmp EXCEPT ![t] = FALSE] /\ chainlock' = NULL
    BY <2>1 DEF Leave, ReleaseLock
  <2>3. OnList(t)'
    BY <1>1, <2>2 DEF OnList
  <2>. QED
    BY <2>2, <2>3 DEF Moved
<1>3. CASE later # {}
  <2>. DEFINE d == CHOOSE i \in later : \A e \in later : i <= e
  <2>1. d \in later
    <3>1. chains \in Seq(Chains)
      BY DEF ObjectTypes
    <3>2. later \subseteq Nat
      BY <3>1
    <3>. HIDE DEF later
    <3>3. \E i \in later : \A j \in Nat : j < i => j \notin later
      BY <1>3, <3>2, LeastMember
    <3>4. \E i \in later : \A e \in later : i <= e
      BY <3>2, <3>3
    <3>. QED
      BY <3>4
  <2>2. Enter(t, chains[d], 1)
    BY <1>3 DEF NextChain
  <2>3. d \in DOMAIN chains /\ FiltersOf(chains[d]) # <<>>
    BY <2>1
  <2>. HIDE DEF d, later
  <2>4. PICK e \in Chains : e = chains[d]
    <3>1. chains \in Seq(Chains)
      BY DEF ObjectTypes
    <3>. QED
      BY <2>3, <3>1
  <2>5. e \in ToSet(chains) /\ FiltersOf(e) # <<>> /\ FiltersOf(e) \in Seq(Filters)
    BY <2>3, <2>4, FiltersTyped DEF ToSet
  <2>6. 1 \in DOMAIN FiltersOf(e) /\ Len(FiltersOf(e)) \in Nat
    BY <2>5
  <2>7. /\ fpc' = [fpc EXCEPT ![t] = "visit"] /\ fpos' = [fpos EXCEPT ![t] = <<e, 1>>]
        /\ ftmp' = [ftmp EXCEPT ![t] = 1 < Len(FiltersOf(e))] /\ chainlock' = t
    BY <2>2, <2>4 DEF Enter
  <2>8. /\ fpos'[t] = <<e, 1>> /\ ftmp'[t] = (1 < Len(FiltersOf(e)))
        /\ FiltersOf(e)' = FiltersOf(e) /\ chains' = chains
    BY <1>1, <2>7 DEF FiltersOf
  <2>9. OnList(t)'
    <3>1. fpos'[t][1] = e /\ fpos'[t][2] = 1
      BY <2>8
    <3>2. FiltersOf(fpos[t][1])' = FiltersOf(e)
      BY <3>1 DEF FiltersOf
    <3>. QED
      BY <2>5, <2>6, <2>8, <3>1, <3>2 DEF OnList
  <2>10. \E b \in BOOLEAN : ftmp' = [ftmp EXCEPT ![t] = b]
    <3>1. (1 < Len(FiltersOf(e))) \in BOOLEAN
      OBVIOUS
    <3>. QED
      BY <2>7, <3>1, Zenon
  <2>11. \E b \in Chains \cup {NULL}, n \in Nat : fpos' = [fpos EXCEPT ![t] = <<b, n>>]
    BY <2>7
  <2>. QED
    BY <2>7, <2>9, <2>10, <2>11 DEF Moved
<1>. QED
  BY <1>2, <1>3

(* ... or to the next filter of its chain, which was there when it came.   *)
LEMMA AdvanceMoves ==
    ASSUME ObjectTypes, ThreadTypes, NEW t \in Threads, OnList(t),
           fpc[t] \in {"visit", "invoke", "send"},
           UNCHANGED <<chains, cdata>>, Advance(t)
    PROVE  Moved(t)
<1>1. CASE ~ ftmp[t]
  BY <1>1, NextChainMoves DEF Advance
<1>2. CASE ftmp[t]
  <2>1. t \in DOMAIN fpc /\ t \in DOMAIN fpos /\ t \in DOMAIN ftmp
        /\ chains \in Seq(Chains)
    BY DEF ThreadTypes, ObjectTypes
  <2>2. fpos[t][1] \in ToSet(chains) /\ fpos[t][2] \in DOMAIN FiltersOf(fpos[t][1])
        /\ fpos[t][2] < Len(FiltersOf(fpos[t][1]))
    BY <1>2 DEF OnList
  <2>3. PICK e \in Chains : e = fpos[t][1]
    BY <2>1, <2>2 DEF ToSet
  <2>4. FiltersOf(e) \in Seq(Filters)
    BY FiltersTyped
  <2>5. PICK n \in Nat : n = fpos[t][2] + 1
    BY <2>2, <2>3, <2>4
  <2>6. n \in DOMAIN FiltersOf(e) /\ e \in ToSet(chains)
    BY <2>2, <2>3, <2>4, <2>5
  <2>7. /\ fpc' = [fpc EXCEPT ![t] = "visit"] /\ fpos' = [fpos EXCEPT ![t] = <<e, n>>]
        /\ ftmp' = [ftmp EXCEPT ![t] = n < Len(FiltersOf(e))] /\ chainlock' = t
    BY <1>2, <2>3, <2>5 DEF Advance, Enter
  <2>8. /\ fpos'[t] = <<e, n>> /\ ftmp'[t] = (n < Len(FiltersOf(e))) /\ chains' = chains
    BY <2>1, <2>7
  <2>9. OnList(t)'
    <3>1. fpos'[t][1] = e /\ fpos'[t][2] = n
      BY <2>8
    <3>2. FiltersOf(fpos[t][1])' = FiltersOf(e)
      BY <3>1 DEF FiltersOf
    <3>. QED
      BY <2>6, <2>8, <3>1, <3>2 DEF OnList
  <2>10. \E b \in BOOLEAN : ftmp' = [ftmp EXCEPT ![t] = b]
    <3>1. (n < Len(FiltersOf(e))) \in BOOLEAN
      OBVIOUS
    <3>. QED
      BY <2>7, <3>1, Zenon
  <2>11. \E b \in Chains \cup {NULL}, m \in Nat : fpos' = [fpos EXCEPT ![t] = <<b, m>>]
    BY <2>7
  <2>. QED
    BY <2>7, <2>9, <2>10, <2>11 DEF Moved
<1>. QED
  BY <1>1, <1>2

(* The filter that a walk visits.                                          *)
LEMMA Visited ==
    ASSUME ForwardingAssumption, ObjectTypes, ListsSound, NEW t \in Threads, OnList(t),
           fpc[t] = "visit"
    PROVE  /\ cdata[fpos[t][1]] # NULL
           /\ FiltersOf(fpos[t][1])[fpos[t][2]] \in Filters
           /\ fdata[FiltersOf(fpos[t][1])[fpos[t][2]]] \in FilterRecs
<1>1. fpos[t][1] \in ToSet(chains) /\ fpos[t][2] \in DOMAIN FiltersOf(fpos[t][1])
  BY DEF OnList
<1>2. chains \in Seq(Chains) /\ fdata \in [Filters -> FilterRecs \cup {NULL}]
  BY DEF ObjectTypes
<1>3. PICK e \in Chains : e = fpos[t][1]
  BY <1>1, <1>2 DEF ToSet
<1>4. FiltersOf(e) \in Seq(Filters)
  BY FiltersTyped
<1>5. cdata[e] # NULL
  BY <1>1, <1>3 DEF FiltersOf
<1>6. PICK n : n = fpos[t][2] /\ n \in DOMAIN FiltersOf(e)
  BY <1>1, <1>3
<1>7. FiltersOf(e)[n] \in Filters
  BY <1>4, <1>6
<1>8. fdata[FiltersOf(e)[n]] # NULL
  BY <1>6 DEF ListsSound, FiltersListedOnce
<1>9. fdata[FiltersOf(e)[n]] \in FilterRecs
  BY <1>2, <1>7, <1>8
<1>. QED
  BY <1>3, <1>5, <1>6, <1>7, <1>9

(* A filter counts a frame: nothing else about it changes.                 *)
Counted ==
    \/ fdata' = fdata
    \/ \E f \in Filters : fdata[f] # NULL /\ fdata' = [fdata EXCEPT ![f].count = CountUp(@)]

(* Counting a frame changes nothing but the count of a filter.             *)
LEMMA CountedKept ==
    ASSUME ForwardingAssumption, ObjectAssumption, ScriptAssumption, ObjectTypes, Counted
    PROVE  /\ fdata' \in [Filters -> FilterRecs \cup {NULL}]
           /\ \A a \in Filters : /\ fdata'[a] = NULL <=> fdata[a] = NULL
                                 /\ fdata'[a].fid = fdata[a].fid
<1>1. CASE fdata' = fdata
  BY <1>1 DEF ObjectTypes
<1>2. ASSUME NEW f \in Filters, fdata[f] # NULL,
             fdata' = [fdata EXCEPT ![f].count = CountUp(@)]
      PROVE  /\ fdata' \in [Filters -> FilterRecs \cup {NULL}]
             /\ \A a \in Filters : /\ fdata'[a] = NULL <=> fdata[a] = NULL
                                   /\ fdata'[a].fid = fdata[a].fid
  <2>. DEFINE rec == [fdata[f] EXCEPT !.count = CountUp(@)]
  <2>1. fdata[f] \in FilterRecs /\ fdata \in [Filters -> FilterRecs \cup {NULL}]
    BY <1>2 DEF ObjectTypes
  <2>2. CountUp(fdata[f].count) \in 0 .. UINT_MOD - 1
    <3>1. fdata[f].count \in Nat /\ UINT_MOD \in Nat \ {0}
      BY <2>1 DEF FilterRecs, ForwardingAssumption
    <3>. QED
      BY <3>1 DEF CountUp
  <2>3. rec \in FilterRecs /\ rec.fid = fdata[f].fid
    BY <2>1, <2>2 DEF FilterRecs
  <2>4. fdata' = [fdata EXCEPT ![f] = rec]
    BY <1>2
  <2>. HIDE DEF rec
  <2>5. rec # NULL
    BY <2>3, Records
  <2>. QED
    BY <1>2, <2>1, <2>3, <2>4, <2>5
<1>. QED
  BY <1>1, <1>2 DEF Counted

(* That leaves the types and the lists as they were.                       *)
LEMMA CountedTypes ==
    ASSUME ForwardingAssumption, ObjectAssumption, ScriptAssumption, ObjectTypes, ListsSound,
           Counted, UNCHANGED <<listeners, rules, chains, ldata, rdata, cdata, wrVars>>
    PROVE  ObjectTypes' /\ ListsSound'
<1>1. /\ fdata' \in [Filters -> FilterRecs \cup {NULL}]
      /\ \A a \in Filters : fdata'[a] = NULL <=> fdata[a] = NULL
  BY CountedKept
<1>2. ObjectTypes'
  BY <1>1 DEF ObjectTypes
<1>3. ListenersSound /\ RulesSound /\ ChainsSound /\ FiltersSound
  BY SoundParts
<1>4. /\ UNCHANGED <<listeners, rules, chains, ldata, rdata, cdata>>
      /\ ListenerMade' = ListenerMade /\ RuleMade' = RuleMade /\ ChainMade' = ChainMade
      /\ FilterMade' = FilterMade /\ Fs' = Fs
  BY DEF wrVars, ListenerMade, RuleMade, ChainMade, FilterMade, Fs, FiltersOf
<1>5. ListenersSound' /\ RulesSound' /\ ChainsSound'
  BY <1>3, <1>4 DEF ListenersSound, RulesSound, ChainsSound
<1>6. FiltersSound'
  <2>1. FsSound(Fs, FilterMade, fdata)
    BY <1>3 DEF FiltersSound
  <2>2. DOMAIN fdata' = Filters /\ DOMAIN Fs = Chains
    BY <1>1 DEF Fs
  <2>3. FsSound(Fs, FilterMade, fdata')
    BY <1>1, <2>1, <2>2, FilterChange
  <2>. QED
    BY <1>4, <2>3 DEF FiltersSound
<1>7. ListsSound'
  BY <1>2, <1>5, <1>6, SoundPartsNext
<1>. QED
  BY <1>2, <1>7

(* The rule or listener that a walk uses next is of its kind.              *)
PointerOK(t) ==
    /\ fpc[t] = "invoke" => fptr[t] \in Rules
    /\ fpc[t] = "send" => fptr[t] \in Listeners

(* What a step changes in the locals of thread t is of the right type.     *)
StepTypes(t) ==
    /\ \E x \in {"idle", "lock", "visit", "invoke", "send", "done", "oops"} :
           fpc' = [fpc EXCEPT ![t] = x]
    /\ \E x \in Lens \cup {NULL} : frame' = [frame EXCEPT ![t] = x]
    /\ \E c \in Chains \cup {NULL}, n \in Nat : fpos' = [fpos EXCEPT ![t] = <<c, n>>]
    /\ \E x \in BOOLEAN : ftmp' = [ftmp EXCEPT ![t] = x]
    /\ \E x \in Rules \cup Listeners \cup {NULL} : fptr' = [fptr EXCEPT ![t] = x]
    /\ \E x \in 0 .. Frames : left' = [left EXCEPT ![t] = x]
    /\ \E x \in Seq(Filters) : due' = [due EXCEPT ![t] = x]
    /\ \E x \in Seq(Filters) : hits' = [hits EXCEPT ![t] = x]
    /\ \E x \in Seq([addr : 0 .. WORD - 1, port : Nat]) : out' = [out EXCEPT ![t] = x]

(* Every thread is then typed.                                             *)
LEMMA StepTyped ==
    ASSUME ThreadTypes, NEW t \in Threads, StepTypes(t)
    PROVE  ThreadTypes'
<1>1. fpc' \in [Threads -> {"idle", "lock", "visit", "invoke", "send", "done", "oops"}]
  BY DEF ThreadTypes, StepTypes
<1>2. frame' \in [Threads -> Lens \cup {NULL}]
  BY DEF ThreadTypes, StepTypes
<1>3. fpos' \in [Threads -> (Chains \cup {NULL}) \X Nat]
  BY DEF ThreadTypes, StepTypes
<1>4. ftmp' \in [Threads -> BOOLEAN]
  <2>1. PICK x \in BOOLEAN : ftmp' = [ftmp EXCEPT ![t] = x]
    BY DEF StepTypes
  <2>. QED
    BY <2>1 DEF ThreadTypes
<1>5. fptr' \in [Threads -> Rules \cup Listeners \cup {NULL}]
  BY DEF ThreadTypes, StepTypes
<1>6. left' \in [Threads -> 0 .. Frames]
  <2>1. PICK x \in 0 .. Frames : left' = [left EXCEPT ![t] = x]
    BY DEF StepTypes
  <2>. QED
    BY <2>1 DEF ThreadTypes
<1>7. due' \in [Threads -> Seq(Filters)] /\ hits' \in [Threads -> Seq(Filters)]
  <2>1. PICK x \in Seq(Filters) : due' = [due EXCEPT ![t] = x]
    BY DEF StepTypes
  <2>2. PICK y \in Seq(Filters) : hits' = [hits EXCEPT ![t] = y]
    BY DEF StepTypes
  <2>. QED
    BY <2>1, <2>2 DEF ThreadTypes
<1>8. out' \in [Threads -> Seq([addr : 0 .. WORD - 1, port : Nat])]
  <2>. DEFINE T == Seq([addr : 0 .. WORD - 1, port : Nat])
  <2>1. PICK x \in T : out' = [out EXCEPT ![t] = x]
    BY DEF StepTypes
  <2>2. out \in [Threads -> T]
    BY DEF ThreadTypes
  <2>. HIDE DEF T
  <2>3. out' \in [Threads -> T]
    BY <2>1, <2>2
  <2>. QED
    BY <2>3 DEF T
<1>. QED
  BY <1>1, <1>2, <1>3, <1>4, <1>5, <1>6, <1>7, <1>8 DEF ThreadTypes

(* All the filters, one chain after the other: an equation.                *)
LEMMA ListedEquation ==
    ASSUME ObjectTypes
    PROVE  /\ ListedIn[0] = <<>>
           /\ \A n \in 1 .. Len(chains) :
                  ListedIn[n] = ListedIn[n - 1] \o FiltersOf(chains[n])
           /\ \A n \in 0 .. Len(chains) : ListedIn[n] \in Seq(Filters)
<1>. DEFINE N == Len(chains)
            S == Seq(Filters)
            g == [n \in 1 .. N |-> [x \in S |-> x \o FiltersOf(chains[n])]]
            def(all) == [n \in 0 .. N |-> IF n = 0 THEN <<>>
                                          ELSE all[n - 1] \o FiltersOf(chains[n])]
<1>1. N \in Nat /\ \A n \in 1 .. N : chains[n] \in Chains
  BY DEF ObjectTypes
<1>2. \A n \in 1 .. N : FiltersOf(chains[n]) \in S
  BY <1>1, FiltersTyped
<1>3. PICK f : Follows(f, S, <<>>, N, g)
  <2>1. \A n \in 1 .. N : \A x \in S : x \o FiltersOf(chains[n]) \in S
    BY <1>2
  <2>2. g \in [1 .. N -> [S -> S]]
    BY <2>1
  <2>3. StepsOn(S, <<>>, N, g)
    <3>1. <<>> \in S
      OBVIOUS
    <3>. QED
      BY <1>1, <2>2, <3>1 DEF StepsOn
  <2>. QED
    BY <2>3, Recursion
<1>4. f = def(f)
  <2>. HIDE DEF N
  <2>1. \A n \in 0 .. N : n # 0 => n \in 1 .. N
    BY <1>1
  <2>2. \A n \in 1 .. N : f[n - 1] \in S
    BY <1>1, <1>3 DEF Follows
  <2>3. \A n \in 1 .. N : f[n] = f[n - 1] \o FiltersOf(chains[n])
    BY <1>3, <2>2 DEF Follows
  <2>4. \A n \in 0 .. N : f[n] = IF n = 0 THEN <<>> ELSE f[n - 1] \o FiltersOf(chains[n])
    BY <1>3, <2>1, <2>3 DEF Follows
  <2>. QED
    BY <1>3, <2>4 DEF Follows
<1>5. ListedIn = def(ListedIn)
  <2>1. ListedIn = CHOOSE all : all = def(all)
    BY DEF ListedIn
  <2>. HIDE DEF def
  <2>. QED
    BY <1>4, <2>1
<1>6. \A n \in 0 .. N : ListedIn[n] = IF n = 0 THEN <<>>
                                      ELSE ListedIn[n - 1] \o FiltersOf(chains[n])
  BY <1>5
<1>7. \A n \in 0 .. N : ListedIn[n] \in S
  <2>. HIDE DEF N
  <2>. DEFINE T == {n \in Nat : n <= N => ListedIn[n] \in S}
  <2>1. 0 \in T
    <3>1. ListedIn[0] = <<>>
      BY <1>1, <1>6
    <3>2. <<>> \in S
      OBVIOUS
    <3>. HIDE DEF S
    <3>. QED
      BY <3>1, <3>2
  <2>2. ASSUME NEW n \in Nat, n \in T PROVE n + 1 \in T
    <3>. SUFFICES ASSUME n + 1 <= N PROVE ListedIn[n + 1] \in S
      OBVIOUS
    <3>1. /\ n + 1 \in 1 .. N /\ n + 1 \in 0 .. N /\ n + 1 # 0
          /\ (n + 1) - 1 = n /\ n <= N
      BY <1>1
    <3>2. ListedIn[n + 1] = ListedIn[n] \o FiltersOf(chains[n + 1])
      BY <1>6, <3>1
    <3>3. ListedIn[n] \in S /\ FiltersOf(chains[n + 1]) \in S
      BY <1>2, <2>2, <3>1
    <3>. QED
      BY <3>2, <3>3
  <2>. HIDE DEF T
  <2>3. \A n \in Nat : n \in T
    BY <2>1, <2>2, NatSet
  <2>. QED
    BY <1>1, <2>3 DEF T
<1>8. 0 \in 0 .. N /\ \A n \in 1 .. N : n \in 0 .. N /\ n # 0
  BY <1>1
<1>9. /\ ListedIn[0] = <<>>
      /\ \A n \in 1 .. N : ListedIn[n] = ListedIn[n - 1] \o FiltersOf(chains[n])
  <2>. HIDE DEF N
  <2>. QED
    BY <1>6, <1>8
<1>. QED
  BY <1>7, <1>9

(* They are filters.                                                       *)
LEMMA ListedTyped ==
    ASSUME ObjectTypes
    PROVE  Listed \in Seq(Filters)
<1>1. Len(chains) \in Nat
  BY DEF ObjectTypes
<1>. QED
  BY <1>1, ListedEquation DEF Listed

(* What a step of a thread does.                                           *)
ThreadDoes(t) ==
    /\ StepTypes(t)
    /\ UNCHANGED <<listeners, rules, chains, ldata, rdata, cdata, wrVars>>
    /\ Counted
    /\ OnList(t)' /\ PointerOK(t)'
    /\ chainlock' \in {chainlock, t, NULL}

(* Each of the steps of a thread does no more.                             *)
LEMMA ThreadStep ==
    ASSUME ForwardingAssumption, ObjectTypes, ThreadTypes, ListsSound,
           NEW t \in Threads, OnList(t), PointerOK(t), ThreadNext(t)
    PROVE  ThreadDoes(t)
<1>1. /\ DOMAIN fpc = Threads /\ DOMAIN frame = Threads /\ DOMAIN fpos = Threads
      /\ DOMAIN ftmp = Threads /\ DOMAIN fptr = Threads /\ DOMAIN left = Threads
      /\ DOMAIN due = Threads /\ DOMAIN hits = Threads /\ DOMAIN out = Threads
  BY DEF ThreadTypes
<1>. DEFINE Pcs == {"idle", "lock", "visit", "invoke", "send", "done", "oops"}
            Outs == Seq([addr : 0 .. WORD - 1, port : Nat])
            KPc == \E x \in Pcs : fpc' = [fpc EXCEPT ![t] = x]
            KFrame == \E x \in Lens \cup {NULL} : frame' = [frame EXCEPT ![t] = x]
            KPos == \E c \in Chains \cup {NULL}, n \in Nat :
                        fpos' = [fpos EXCEPT ![t] = <<c, n>>]
            KTmp == \E x \in BOOLEAN : ftmp' = [ftmp EXCEPT ![t] = x]
            KPtr == \E x \in Rules \cup Listeners \cup {NULL} :
                        fptr' = [fptr EXCEPT ![t] = x]
            KLeft == \E x \in 0 .. Frames : left' = [left EXCEPT ![t] = x]
            KDue == \E x \in Seq(Filters) : due' = [due EXCEPT ![t] = x]
            KHits == \E x \in Seq(Filters) : hits' = [hits EXCEPT ![t] = x]
            KOut == \E x \in Outs : out' = [out EXCEPT ![t] = x]
<1>2. /\ fpc' = fpc => KPc
      /\ frame' = frame => KFrame
      /\ fpos' = fpos => KPos
      /\ ftmp' = ftmp => KTmp
      /\ fptr' = fptr => KPtr
      /\ left' = left => KLeft
      /\ due' = due => KDue
      /\ hits' = hits => KHits
      /\ out' = out => KOut
  <2>1. \A f : DOMAIN f = Threads /\ f = [v \in DOMAIN f |-> f[v]]
                   => f = [f EXCEPT ![t] = f[t]]
    OBVIOUS
  <2>2. /\ fpc = [fpc EXCEPT ![t] = fpc[t]] /\ frame = [frame EXCEPT ![t] = frame[t]]
        /\ fptr = [fptr EXCEPT ![t] = fptr[t]] /\ due = [due EXCEPT ![t] = due[t]]
        /\ hits = [hits EXCEPT ![t] = hits[t]] /\ left = [left EXCEPT ![t] = left[t]]
        /\ out = [out EXCEPT ![t] = out[t]]
    BY <1>1 DEF ThreadTypes
  <2>3. fpc[t] \in Pcs /\ frame[t] \in Lens \cup {NULL} /\ left[t] \in 0 .. Frames
        /\ fptr[t] \in Rules \cup Listeners \cup {NULL} /\ due[t] \in Seq(Filters)
        /\ hits[t] \in Seq(Filters) /\ out[t] \in Outs
    BY DEF ThreadTypes
  <2>4. \E c \in Chains \cup {NULL}, n \in Nat : fpos = [fpos EXCEPT ![t] = <<c, n>>]
    <3>1. fpos[t] \in (Chains \cup {NULL}) \X Nat /\ fpos = [fpos EXCEPT ![t] = fpos[t]]
      BY DEF ThreadTypes
    <3>2. PICK c \in Chains \cup {NULL}, n \in Nat : fpos[t] = <<c, n>>
      BY <3>1
    <3>. QED
      BY <3>1, <3>2
  <2>5. \E x \in BOOLEAN : ftmp = [ftmp EXCEPT ![t] = x]
    <3>1. ftmp[t] \in BOOLEAN /\ ftmp = [ftmp EXCEPT ![t] = ftmp[t]]
      BY DEF ThreadTypes
    <3>. QED
      BY <3>1, Zenon
  <2>. HIDE DEF Outs, Pcs
  <2>. QED
    BY <2>2, <2>3, <2>4, <2>5
<1>3. KPc /\ KFrame /\ KPos /\ KTmp /\ KPtr /\ KLeft /\ KDue /\ KHits /\ KOut => StepTypes(t)
  BY DEF StepTypes
<1>4. Moved(t) => KPc /\ KPos /\ KTmp /\ OnList(t)' /\ chainlock' \in {t, NULL}
                  /\ fpc'[t] \in {"visit", "done"}
  BY <1>1 DEF Moved
<1>. HIDE DEF KPc, KFrame, KPos, KTmp, KPtr, KLeft, KDue, KHits, KOut
<1>5. ASSUME NEW n \in Lens, Receive(t, n) PROVE ThreadDoes(t)
  <2>1. /\ left' = [left EXCEPT ![t] = left[t] - 1] /\ left[t] > 0
        /\ frame' = [frame EXCEPT ![t] = n] /\ fpc' = [fpc EXCEPT ![t] = "lock"]
        /\ due' = [due EXCEPT ![t] = <<>>] /\ hits' = [hits EXCEPT ![t] = <<>>]
        /\ out' = [out EXCEPT ![t] = <<>>]
        /\ UNCHANGED <<objVars, chainlock, wrVars, fpos, ftmp, fptr>>
    BY <1>5 DEF Receive
  <2>2. KPc /\ KFrame /\ KDue /\ KHits /\ KOut
    <3>1. "lock" \in Pcs /\ <<>> \in Seq(Filters) /\ <<>> \in Outs
      OBVIOUS
    <3>. HIDE DEF Pcs, Outs
    <3>. QED
      BY <2>1, <3>1 DEF KPc, KFrame, KDue, KHits, KOut
  <2>3. KLeft
    <3>1. left[t] \in 0 .. Frames
      BY DEF ThreadTypes
    <3>2. left[t] - 1 \in 0 .. Frames
      BY <2>1, <3>1 DEF ForwardingAssumption
    <3>. QED
      BY <2>1, <3>2 DEF KLeft
  <2>4. fpc'[t] = "lock"
    BY <1>1, <2>1
  <2>. QED
    BY <1>2, <1>3, <2>1, <2>2, <2>3, <2>4
    DEF ThreadDoes, OnList, PointerOK, Counted, objVars
<1>6. CASE Walk(t)
  <2>1. NextChain(t, NULL) /\ due' = [due EXCEPT ![t] = Listed]
        /\ UNCHANGED <<objVars, wrVars, frame, fptr, left, hits, out>>
    BY <1>6 DEF Walk
  <2>2. Moved(t)
    BY <2>1, NextChainMoves DEF objVars
  <2>3. KDue
    BY <2>1, ListedTyped DEF KDue
  <2>. QED
    BY <1>2, <1>3, <1>4, <2>1, <2>2, <2>3 DEF ThreadDoes, PointerOK, Counted, objVars
<1>7. ASSUME Fault(t)
      PROVE  /\ KPc /\ KPos /\ KTmp /\ KPtr /\ OnList(t)' /\ PointerOK(t)'
             /\ chainlock' = chainlock
  <2>1. fpc' = [fpc EXCEPT ![t] = "oops"] /\ UNCHANGED <<fptr, fpos, ftmp, chainlock>>
    BY <1>7 DEF Fault
  <2>2. fpc'[t] = "oops" /\ KPc
    BY <1>1, <2>1 DEF KPc
  <2>. QED
    BY <1>2, <2>1, <2>2 DEF OnList, PointerOK
<1>8. ASSUME Advance(t), fpc[t] \in {"visit", "invoke", "send"}, UNCHANGED <<chains, cdata>>
      PROVE  /\ KPc /\ KPos /\ KTmp /\ OnList(t)' /\ PointerOK(t)'
             /\ chainlock' \in {t, NULL}
  <2>1. Moved(t)
    BY <1>8, AdvanceMoves
  <2>. QED
    BY <1>4, <2>1 DEF PointerOK
<1>9. CASE Visit(t)
  <2>. DEFINE f == FiltersOf(fpos[t][1])[fpos[t][2]]
  <2>1. fpc[t] = "visit"
        /\ UNCHANGED <<listeners, rules, chains, ldata, rdata, cdata, wrVars, frame, left,
                       due, out>>
    BY <1>9 DEF Visit
  <2>2. cdata[fpos[t][1]] # NULL /\ f \in Filters /\ fdata[f] \in FilterRecs
    BY <2>1, Visited
  <2>3. Judge(t, f) /\ hits' = [hits EXCEPT ![t] = Append(hits[t], f)]
    BY <1>9, <2>2 DEF Visit
  <2>. HIDE DEF f
  <2>4. KHits
    <3>1. hits[t] \in Seq(Filters)
      BY DEF ThreadTypes
    <3>2. Append(hits[t], f) \in Seq(Filters)
      BY <2>2, <3>1, AppendProperties
    <3>. QED
      BY <2>3, <3>2 DEF KHits
  <2>5. fdata[f] # NULL
    <3>1. fdata[f] # NULL
      BY <2>1 DEF f, ListsSound, FiltersListedOnce, OnList, ToSet, ObjectTypes
    <3>. QED
      BY <3>1
  <2>6. Counted /\ KPc /\ KPos /\ KTmp /\ KPtr /\ OnList(t)' /\ PointerOK(t)'
        /\ chainlock' \in {chainlock, t, NULL}
    <3>1. CASE fdata[f].type = "undefined"
      BY <1>7, <2>3, <3>1 DEF Judge, Counted
    <3>2. CASE fdata[f].type # "undefined" /\ ~ Matches(fdata[f], frame[t])
      BY <1>2, <1>8, <2>1, <2>3, <3>2 DEF Judge, Counted
    <3>3. CASE fdata[f].type # "undefined" /\ Matches(fdata[f], frame[t])
      <4>1. Counted
        BY <2>2, <2>3, <2>5, <3>3 DEF Judge, Counted
      <4>2. CASE fdata[f].rule = NULL
        BY <1>2, <1>8, <2>1, <2>3, <3>3, <4>1, <4>2 DEF Judge
      <4>3. CASE fdata[f].rule # NULL
        <5>1. fptr' = [fptr EXCEPT ![t] = fdata[f].rule]
              /\ fpc' = [fpc EXCEPT ![t] = "invoke"] /\ UNCHANGED <<fpos, ftmp, chainlock>>
          BY <2>3, <3>3, <4>3 DEF Judge
        <5>2. fdata[f].rule \in Rules
          BY <2>2, <4>3 DEF FilterRecs
        <5>3. KPc /\ KPtr
          BY <5>1, <5>2 DEF KPc, KPtr
        <5>4. PointerOK(t)'
          BY <1>1, <5>1, <5>2 DEF PointerOK
        <5>5. OnList(t)'
          BY <1>1, <2>1, <5>1 DEF OnList, FiltersOf
        <5>. QED
          BY <1>2, <4>1, <5>1, <5>3, <5>4, <5>5
      <4>. QED
        BY <4>2, <4>3
    <3>. QED
      BY <3>1, <3>2, <3>3
  <2>. QED
    BY <1>2, <1>3, <2>1, <2>4, <2>6 DEF ThreadDoes
<1>10. CASE Invoke(t)
  <2>. DEFINE r == rdata[fptr[t]]
  <2>1. fpc[t] = "invoke" /\ UNCHANGED <<objVars, wrVars, frame, left, due, hits, out>>
    BY <1>10 DEF Invoke
  <2>2. r \in RuleRecs \cup {NULL}
    BY <2>1 DEF PointerOK, ObjectTypes
  <2>3. KPc /\ KPos /\ KTmp /\ KPtr /\ OnList(t)' /\ PointerOK(t)'
        /\ chainlock' \in {chainlock, t, NULL}
    <3>1. CASE r = NULL
      BY <1>7, <1>10, <3>1 DEF Invoke
    <3>2. CASE r # NULL /\ r.aid = "fwrd" /\ r.l # NULL
      <4>1. fptr' = [fptr EXCEPT ![t] = r.l] /\ fpc' = [fpc EXCEPT ![t] = "send"]
            /\ UNCHANGED <<fpos, ftmp, chainlock>>
        BY <1>10, <3>2 DEF Invoke
      <4>2. r.l \in Listeners
        BY <2>2, <3>2 DEF RuleRecs
      <4>. HIDE DEF r
      <4>3. KPc /\ KPtr
        BY <4>1, <4>2 DEF KPc, KPtr
      <4>4. PointerOK(t)'
        BY <1>1, <4>1, <4>2 DEF PointerOK
      <4>5. OnList(t)'
        BY <1>1, <2>1, <4>1 DEF OnList, FiltersOf, objVars
      <4>. QED
        BY <1>2, <4>1, <4>3, <4>4, <4>5
    <3>3. CASE r # NULL /\ ~ (r.aid = "fwrd" /\ r.l # NULL)
      <4>1. Advance(t) /\ fptr' = [fptr EXCEPT ![t] = NULL]
        BY <1>10, <3>3 DEF Invoke
      <4>2. KPtr
        BY <4>1 DEF KPtr
      <4>. QED
        BY <1>8, <2>1, <4>1, <4>2 DEF objVars
    <3>. QED
      BY <3>1, <3>2, <3>3
  <2>. QED
    BY <1>2, <1>3, <2>1, <2>3 DEF ThreadDoes, Counted, objVars
<1>11. CASE Send(t)
  <2>1. fpc[t] = "send" /\ UNCHANGED <<objVars, wrVars, frame, left, due, hits>>
    BY <1>11 DEF Send
  <2>2. fptr[t] \in Listeners
    BY <2>1 DEF PointerOK
  <2>3. KPc /\ KPos /\ KTmp /\ KPtr /\ KOut /\ OnList(t)' /\ PointerOK(t)'
        /\ chainlock' \in {chainlock, t, NULL}
    <3>1. CASE ldata[fptr[t]] = NULL
      BY <1>2, <1>7, <1>11, <3>1 DEF Send
    <3>2. CASE ldata[fptr[t]] # NULL
      <4>1. Advance(t) /\ fptr' = [fptr EXCEPT ![t] = NULL]
            /\ out' = [out EXCEPT ![t] = Append(out[t], Destination(fptr[t]))]
        BY <1>11, <3>2 DEF Send
      <4>2. KPtr
        BY <4>1 DEF KPtr
      <4>3. KOut
        <5>1. ldata[fptr[t]] \in ListenerRecs
          BY <2>2, <3>2 DEF ObjectTypes
        <5>2. ldata[fptr[t]].ep \in Endpoints /\ ldata[fptr[t]].addr \in 0 .. WORD - 1
          BY <5>1 DEF ListenerRecs
        <5>3. Destination(fptr[t]) \in [addr : 0 .. WORD - 1, port : Nat]
          BY <5>2 DEF Destination, ForwardingAssumption
        <5>4. out[t] \in Outs
          BY DEF ThreadTypes
        <5>5. Append(out[t], Destination(fptr[t])) \in Outs
          BY <5>3, <5>4, AppendProperties
        <5>. QED
          BY <4>1, <5>5 DEF KOut
      <4>. QED
        BY <1>8, <2>1, <4>1, <4>2, <4>3 DEF objVars
    <3>. QED
      BY <3>1, <3>2
  <2>. QED
    BY <1>2, <1>3, <2>1, <2>3 DEF ThreadDoes, Counted, objVars
<1>. QED
  BY <1>5, <1>6, <1>9, <1>10, <1>11 DEF ThreadNext

(* The thread that walks finds its place again, whatever a writer does.    *)
LEMMA WriterWalks ==
    ASSUME ForwardingAssumption, ObjectTypes, ChainsSound', LockInv,
           NEW w \in Writers, Start(w) \/ WriterStep(w), UNCHANGED thrVars,
           NEW t \in Threads, OnList(t)
    PROVE  OnList(t)'
<1>1. fpc' = fpc /\ fpos' = fpos /\ ftmp' = ftmp
  BY DEF thrVars
<1>. SUFFICES ASSUME fpc[t] \in {"visit", "invoke", "send"}
              PROVE  /\ fpos[t][1] \in ToSet(chains)'
                     /\ fpos[t][2] \in DOMAIN FiltersOf(fpos[t][1])'
                     /\ ftmp[t] => fpos[t][2] < Len(FiltersOf(fpos[t][1])')
  BY <1>1 DEF OnList
<1>2. chainlock # NULL
  BY WalksAlone DEF ForwardingAssumption
<1>3. chains' = chains /\ \A c \in Chains : cdata'[c] = cdata[c] \/ Grown(c)
  BY <1>2, WriterStand DEF ObjectTypes
<1>4. fpos[t][1] \in ToSet(chains) /\ fpos[t][2] \in DOMAIN FiltersOf(fpos[t][1])
      /\ (ftmp[t] => fpos[t][2] < Len(FiltersOf(fpos[t][1])))
  BY DEF OnList
<1>5. PICK e \in Chains : e = fpos[t][1]
  BY <1>4 DEF ObjectTypes, ToSet
<1>6. FiltersOf(fpos[t][1])' = FiltersOf(e)'
  BY <1>1, <1>5 DEF FiltersOf
<1>7. CASE cdata'[e] = cdata[e]
  <2>1. FiltersOf(e)' = FiltersOf(e)
    BY <1>7 DEF FiltersOf
  <2>. QED
    BY <1>3, <1>4, <1>5, <1>6, <2>1
<1>8. CASE cdata'[e] # cdata[e]
  <2>1. PICK x : cdata'[e] = [cdata[e] EXCEPT !.filters = Append(@, x)]
    BY <1>3, <1>8 DEF Grown
  <2>2. cdata'[e] # NULL
    <3>1. \A j \in DOMAIN chains : cdata'[chains[j]] # NULL
      BY <1>3 DEF ChainsSound, Sound, ListedOnce
    <3>. QED
      BY <1>4, <1>5, <3>1 DEF ToSet
  <2>3. cdata[e] # NULL /\ cdata[e] \in ChainRecs
    <3>1. cdata[e] # NULL
      BY <1>4, <1>5 DEF FiltersOf
    <3>. QED
      BY <3>1 DEF ObjectTypes
  <2>4. FiltersOf(e) = cdata[e].filters /\ FiltersOf(e) \in Seq(Filters)
    BY <2>3, FiltersTyped DEF FiltersOf
  <2>5. FiltersOf(e)' = Append(FiltersOf(e), x)
    <3>1. cdata'[e].filters = Append(cdata[e].filters, x)
      BY <2>1, <2>3 DEF ChainRecs
    <3>. QED
      BY <2>2, <2>4, <3>1 DEF FiltersOf
  <2>6. Len(FiltersOf(e)') = Len(FiltersOf(e)) + 1 /\ Len(FiltersOf(e)) \in Nat
        /\ DOMAIN FiltersOf(e)' = 1 .. Len(FiltersOf(e)) + 1
        /\ DOMAIN FiltersOf(e) = 1 .. Len(FiltersOf(e))
    <3>. DEFINE s == FiltersOf(e)
    <3>1. s \in Seq(Filters \cup {x}) /\ x \in Filters \cup {x}
      BY <2>4
    <3>. HIDE DEF s
    <3>2. Append(s, x) \in Seq(Filters \cup {x}) /\ Len(Append(s, x)) = Len(s) + 1
      BY <3>1, AppendProperties
    <3>3. DOMAIN Append(s, x) = 1 .. Len(s) + 1 /\ Len(s) \in Nat /\ DOMAIN s = 1 .. Len(s)
      BY <3>1, <3>2
    <3>. QED
      BY <2>5, <3>2, <3>3 DEF s
  <2>7. PICK n : n = fpos[t][2]
    OBVIOUS
  <2>8. n \in 1 .. Len(FiltersOf(e)) /\ (ftmp[t] => n < Len(FiltersOf(e)))
    BY <1>4, <1>5, <2>6, <2>7
  <2>9. n \in DOMAIN FiltersOf(e)' /\ (ftmp[t] => n < Len(FiltersOf(e)'))
    BY <2>6, <2>8
  <2>. QED
    BY <1>3, <1>4, <1>6, <2>7, <2>9
<1>. QED
  BY <1>7, <1>8

----------------------------------------------------------------------------
(* The invariant *)

(* It holds when the module has been initialised ...                       *)
LEMMA InitFwdInv ==
    ASSUME ForwardingAssumption, ScriptAssumption, Init
    PROVE  FwdInv
<1>1. TypeOK
  <2>1. ObjectTypes
    BY DEF Init, ObjectTypes
  <2>2. WriterTypes
    <3>1. todo \in [Writers -> Seq(Written)]
      BY DEF Init, ScriptAssumption
    <3>. QED
      BY <3>1 DEF Init, WriterTypes, WriterPcs
  <2>3. ThreadTypes
    <3>1. Frames \in 0 .. Frames /\ <<NULL, 0>> \in (Chains \cup {NULL}) \X Nat
      BY DEF ForwardingAssumption
    <3>2. <<>> \in Seq(Filters) /\ <<>> \in Seq([addr : 0 .. WORD - 1, port : Nat])
      OBVIOUS
    <3>3. FALSE \in BOOLEAN
      OBVIOUS
    <3>4. ftmp \in [Threads -> BOOLEAN]
      BY <3>3 DEF Init
    <3>. QED
      BY <3>1, <3>2, <3>4 DEF Init, ThreadTypes
  <2>. QED
    BY <2>1, <2>2, <2>3 DEF Init, TypeOK
<1>2. AtWork /\ MadeKinds
  BY DEF Init, AtWork, MadeKinds, WorkOf, MadeOf
<1>3. ListsSound
  <2>1. \A c \in Chains : FiltersOf(c) = <<>>
    BY DEF Init, FiltersOf
  <2>2. \A v \in Writers : ListenerMade[v] = NULL /\ RuleMade[v] = NULL
            /\ ChainMade[v] = NULL /\ FilterMade[v] = NULL
    BY DEF Init, ListenerMade, RuleMade, ChainMade, FilterMade
  <2>3. FiltersListedOnce
    BY <2>1 DEF FiltersListedOnce
  <2>. QED
    BY <2>2, <2>3 DEF Init, ListsSound, MadeOnce, ListedOnce
<1>4. WalkHoldsLock /\ WalkOnList /\ WalkPointers
  BY DEF Init, WalkHoldsLock, WalkOnList, WalkPointers
<1>. QED
  BY <1>1, <1>2, <1>3, <1>4 DEF FwdInv

(* ... each step keeps it ...                                              *)
LEMMA NextFwdInv ==
    ForwardingAssumption /\ ScriptAssumption /\ ObjectAssumption /\ InetAddrAssumption
        /\ FwdInv /\ [Next]_vars => FwdInv'
<1>. SUFFICES ASSUME ForwardingAssumption, ScriptAssumption, ObjectAssumption,
                     InetAddrAssumption, FwdInv, [Next]_vars
              PROVE  FwdInv'
  OBVIOUS
<1>1. /\ ObjectTypes /\ WriterTypes /\ ThreadTypes
      /\ chainlock \in Threads \cup Writers \cup {NULL}
      /\ AtWork /\ MadeKinds /\ ListsSound /\ WalkHoldsLock
  BY DEF FwdInv, TypeOK
<1>2. \A t \in Threads : OnList(t) /\ PointerOK(t)
  BY DEF FwdInv, WalkOnList, WalkPointers, OnList, PointerOK
<1>3. LockInv /\ WalkHoldsLock'
  <2>1. LockInv
    BY <1>1 DEF LockInv, ThreadTypes
  <2>. QED
    BY <2>1, NextLockInv DEF LockInv
<1>4. ASSUME ObjectTypes', WriterTypes', ThreadTypes',
             chainlock' \in Threads \cup Writers \cup {NULL},
             AtWork', MadeKinds', ListsSound',
             \A t \in Threads : OnList(t)' /\ PointerOK(t)'
      PROVE  FwdInv'
  <2>1. WalkOnList' /\ WalkPointers'
    BY <1>4 DEF WalkOnList, WalkPointers, OnList, PointerOK
  <2>. QED
    BY <1>3, <1>4, <2>1 DEF FwdInv, TypeOK
<1>5. CASE UNCHANGED vars
  <2>1. ObjectTypes' /\ WriterTypes' /\ ThreadTypes' /\ chainlock' = chainlock
        /\ AtWork' /\ MadeKinds'
    BY <1>1, <1>5 DEF vars, objVars, wrVars, thrVars, ObjectTypes, WriterTypes, ThreadTypes,
       AtWork, MadeKinds, WorkOf, MadeOf
  <2>2. ListsSound'
    BY <1>1, <1>5 DEF vars, objVars, wrVars, ListsSound, FiltersListedOnce, FiltersOf,
       ListenerMade, RuleMade, ChainMade, FilterMade
  <2>3. \A t \in Threads : OnList(t)' /\ PointerOK(t)'
    BY <1>2, <1>5 DEF vars, objVars, thrVars, OnList, PointerOK, FiltersOf
  <2>. QED
    BY <1>1, <1>4, <2>1, <2>2, <2>3
<1>6. ASSUME NEW w \in Writers, Start(w) \/ WriterStep(w) PROVE FwdInv'
  <2>1. UNCHANGED thrVars
    BY <1>1, <1>6, WriterFrame
  <2>2. WriterTypes' /\ AtWork' /\ MadeKinds'
    BY <1>1, <1>6, WriterKept
  <2>3. ObjectTypes' /\ ListsSound'
    BY <1>1, <1>6, WriterObjects
  <2>4. ChainsSound'
    <3>1. ChainsSound
      BY <1>1, SoundParts
    <3>. QED
      BY <1>1, <1>6, <3>1, ChainStep
  <2>5. \A t \in Threads : OnList(t)'
    BY <1>1, <1>2, <1>3, <1>6, <2>1, <2>4, WriterWalks
  <2>6. ThreadTypes' /\ \A t \in Threads : PointerOK(t)'
    BY <1>1, <1>2, <2>1 DEF thrVars, ThreadTypes, PointerOK
  <2>7. chainlock' \in Threads \cup Writers \cup {NULL}
    <3>1. CASE FilterShow(w)
      <4>1. chainlock' = chainlock \/ chainlock' = w
        BY <3>1 DEF FilterShow
      <4>. QED
        BY <1>1, <4>1
    <3>2. CASE ~ FilterShow(w)
      <4>1. chainlock' = chainlock
        BY <1>6, <3>2 DEF Start, WriterStep, ListenerCreate, ListenerSet, ListenerFind,
           ListenerRemove, ListenerAdd, ListenerClear, ListenerShow, RuleCreate, RuleTarget,
           RuleFind, RuleRemove, RuleAdd, RuleClear, RuleShow, NothingCreated, NoFilterCreated,
           NoChainCreated, FilterCreate, ChainFind, ChainAdd, FilterSet, FilterAdd,
           ChainRemove, ChainClear
      <4>. QED
        BY <1>1, <4>1
    <3>. QED
      BY <3>1, <3>2
  <2>. QED
    BY <1>4, <2>2, <2>3, <2>5, <2>6, <2>7
<1>7. ASSUME NEW t \in Threads, ThreadNext(t) PROVE FwdInv'
  <2>1. ThreadDoes(t)
    BY <1>1, <1>2, <1>7, ThreadStep
  <2>2. ObjectTypes' /\ ListsSound'
    BY <1>1, <2>1, CountedTypes DEF ThreadDoes
  <2>3. WriterTypes' /\ AtWork' /\ MadeKinds'
    BY <1>1, <2>1 DEF ThreadDoes, wrVars, WriterTypes, AtWork, MadeKinds, WorkOf, MadeOf
  <2>4. ThreadTypes'
    BY <1>1, <2>1, StepTyped DEF ThreadDoes
  <2>5. \A u \in Threads : OnList(u)' /\ PointerOK(u)'
    <3>1. \A u \in Threads : u # t =>
              fpc'[u] = fpc[u] /\ fpos'[u] = fpos[u] /\ ftmp'[u] = ftmp[u]
              /\ fptr'[u] = fptr[u]
      BY <1>1, <2>1 DEF ThreadDoes, StepTypes, ThreadTypes
    <3>2. chains' = chains /\ cdata' = cdata
      BY <2>1 DEF ThreadDoes
    <3>3. ASSUME NEW u \in Threads, u # t PROVE OnList(u)' /\ PointerOK(u)'
      BY <1>2, <3>1, <3>2, <3>3 DEF OnList, PointerOK, FiltersOf
    <3>. QED
      BY <2>1, <3>3 DEF ThreadDoes
  <2>6. chainlock' \in Threads \cup Writers \cup {NULL}
    BY <1>1, <2>1 DEF ThreadDoes
  <2>. QED
    BY <1>4, <2>2, <2>3, <2>4, <2>5, <2>6
<1>. QED
  BY <1>5, <1>6, <1>7 DEF Next

(* ... and so it always holds.                                             *)
LEMMA FwdInvariant == Spec => []FwdInv
<1>. USE ForwardingAssumption, ScriptAssumption, ObjectAssumption, InetAddrAssumption
<1>1. Init => FwdInv
  BY InitFwdInv
<1>2. FwdInv /\ [Next]_vars => FwdInv'
  BY NextFwdInv
<1>. QED
  BY <1>1, <1>2, PTL DEF Spec

(* Every variable of Forwarding has its type: whatever line is written and *)
(* whatever allocation fails, a pointer points at an object of its kind.   *)
THEOREM ForwardingTypes == Spec => []TypeOK
<1>1. FwdInv => TypeOK
  BY DEF FwdInv
<1>. QED
  BY <1>1, FwdInvariant, PTL

(* rtap_filter_recv always stands at a filter of a listed chain, and tmp_f *)
(* is another filter of it.                                                *)
THEOREM WalksStayOnList == Spec => []WalkOnList
<1>1. FwdInv => WalkOnList
  BY DEF FwdInv
<1>. QED
  BY <1>1, FwdInvariant, PTL

(* Each step keeps the addresses as they were written.                     *)
LEMMA NextAddress ==
    ASSUME ForwardingAssumption, ScriptAssumption, InetAddrAssumption,
           FwdInv, AddressAsWritten, [Next]_vars
    PROVE  AddressAsWritten'
<1>. SUFFICES ASSUME NEW l \in Listeners, ldata'[l] # NULL, DottedQuad(ldata'[l].ep.ip)
              PROVE  inet_ntoa(ldata'[l].addr) = ldata'[l].ep.ip
  BY DEF AddressAsWritten
<1>1. ldata \in [Listeners -> ListenerRecs \cup {NULL}]
  BY DEF FwdInv, TypeOK, ObjectTypes
<1>2. ASSUME ldata'[l] = ldata[l] PROVE inet_ntoa(ldata'[l].addr) = ldata'[l].ep.ip
  BY <1>2 DEF AddressAsWritten
<1>3. CASE UNCHANGED ldata
  BY <1>2, <1>3
<1>4. ASSUME NEW w \in Writers, ListenerCreate(w)
      PROVE  inet_ntoa(ldata'[l].addr) = ldata'[l].ep.ip
  <2>1. PICK k \in Listeners, stack \in [1 .. 4 -> Garbage] :
            ldata' = [ldata EXCEPT ![k] =
                [lid |-> wline[w].id, ep |-> wline[w].ep,
                 addr |-> inet_aton(wline[w].ep.ip, stack)]]
    BY <1>4 DEF ListenerCreate
  <2>2. CASE k # l
    BY <1>1, <1>2, <2>1, <2>2
  <2>3. CASE k = l
    <3>. DEFINE ep == wline[w].ep
    <3>1. ldata'[l] = [lid |-> wline[w].id, ep |-> ep, addr |-> inet_aton(ep.ip, stack)]
      BY <1>1, <2>1, <2>3
    <3>. HIDE DEF ep
    <3>2. ldata'[l].ep = ep /\ ldata'[l].addr = inet_aton(ep.ip, stack)
      BY <3>1
    <3>3. ep.ip \in Seq(0 .. OCTET - 1) /\ Len(ep.ip) = 4
      <4>1. ep \in Endpoints
        <5>1. wline[w] \in Written /\ Entry(wline[w]) = "lcreate"
          BY <1>4 DEF ListenerCreate, FwdInv, AtWork, WorkOf
        <5>. QED
          BY <5>1, LineWords DEF ep
      <4>2. ep.ip \in Seq(Int)
        BY <4>1 DEF ForwardingAssumption
      <4>3. Len(ep.ip) = 4 /\ ToSet(ep.ip) \subseteq 0 .. OCTET - 1
        BY <3>2 DEF DottedQuad
      <4>. DEFINE text == ep.ip
                  S == 0 .. OCTET - 1
      <4>. HIDE DEF text, S
      <4>4. text \in Seq(Int) /\ Len(text) = 4 /\ ToSet(text) \subseteq S
        BY <4>2, <4>3 DEF text, S
      <4>5. \A j \in 1 .. Len(text) : text[j] \in S
        BY <4>4 DEF ToSet
      <4>6. text \in Seq(S)
        <5>1. text \in [1 .. Len(text) -> S] /\ Len(text) \in Nat
          BY <4>4, <4>5
        <5>. QED
          BY <5>1, SeqDef
      <4>. QED
        BY <4>4, <4>6 DEF text, S
    <3>4. inet_ntoa(inet_aton(ep.ip, stack)) = ep.ip
      BY <3>3, QuadKept
    <3>. QED
      BY <3>2, <3>4
  <2>. QED
    BY <2>2, <2>3
<1>5. ASSUME NEW w \in Writers, ListenerRemove(w) \/ ListenerClear(w) \/ ListenerSet(w)
      PROVE  ldata'[l] = ldata[l]
  BY <1>1, <1>5 DEF ListenerRemove, ListenerClear, ListenerSet, DestroyListener, Clear
<1>6. ASSUME NEW w \in Writers, Start(w) \/ WriterStep(w),
             ~ (\/ ListenerCreate(w) \/ ListenerSet(w) \/ ListenerRemove(w)
                \/ ListenerClear(w))
      PROVE  UNCHANGED ldata
  BY <1>6 DEF Start, WriterStep, ListenerFind, ListenerAdd, ListenerShow, RuleCreate,
     RuleTarget, RuleFind, RuleRemove, RuleAdd, RuleClear, RuleShow, NothingCreated,
     NoFilterCreated, NoChainCreated, FilterCreate, ChainFind, ChainAdd, FilterSet,
     FilterAdd, ChainRemove, ChainClear, FilterShow, objVars
<1>7. ASSUME NEW t \in Threads, ThreadNext(t) PROVE UNCHANGED ldata
  BY <1>7 DEF ThreadNext, Receive, Walk, Visit, Invoke, Send, objVars
<1>8. UNCHANGED vars => UNCHANGED ldata
  BY DEF vars, objVars
<1>. QED
  BY <1>2, <1>3, <1>4, <1>5, <1>6, <1>7, <1>8 DEF Next

(* inet_ntoa of the address of a listener is what was written, if that was *)
(* a dotted quad, for words of any width.                                  *)
THEOREM AddressesAsWritten == Spec => []AddressAsWritten
<1>. USE ForwardingAssumption, ScriptAssumption, InetAddrAssumption
<1>1. Init => AddressAsWritten
  BY DEF Init, AddressAsWritten
<1>2. FwdInv /\ AddressAsWritten /\ [Next]_vars => AddressAsWritten'
  BY NextAddress
<1>. QED
  BY <1>1, <1>2, FwdInvariant, PTL DEF Spec

----------------------------------------------------------------------------
(* The walks, complete *)

(* Places are numbers.                                                     *)
LEMMA PlaceNumbers ==
    ASSUME NEW fl, FilterLists(fl), NEW a \in DOMAIN fl
    PROVE  /\ a \in Nat /\ DOMAIN fl[a] \subseteq Nat
           /\ Len(fl[a]) \in Nat /\ DOMAIN fl[a] = 1 .. Len(fl[a])
<1>1. fl \in Seq(Seq(Filters))
  BY DEF FilterLists
<1>2. fl[a] \in Seq(Filters) /\ a \in Nat
  BY <1>1
<1>. QED
  BY <1>2

(* What precedes the filter at a place stands at a place ahead of it.      *)
LEMMA PrecedesPlace ==
    ASSUME NEW fl, FilterLists(fl), NEW f, NEW b \in DOMAIN fl, NEW k \in DOMAIN fl[b]
    PROVE  Precedes(fl, f, fl[b][k])
               <=> \E a \in DOMAIN fl : \E j \in DOMAIN fl[a] :
                       fl[a][j] = f /\ Ahead(a, j, b, k)
<1>1. ASSUME Precedes(fl, f, fl[b][k])
      PROVE  \E a \in DOMAIN fl : \E j \in DOMAIN fl[a] : fl[a][j] = f /\ Ahead(a, j, b, k)
  <2>1. PICK a \in DOMAIN fl, c \in DOMAIN fl : \E j \in DOMAIN fl[a], l \in DOMAIN fl[c] :
            fl[a][j] = f /\ fl[c][l] = fl[b][k] /\ Ahead(a, j, c, l)
    BY <1>1 DEF Precedes
  <2>2. PICK j \in DOMAIN fl[a], l \in DOMAIN fl[c] :
            fl[a][j] = f /\ fl[c][l] = fl[b][k] /\ Ahead(a, j, c, l)
    BY <2>1
  <2>3. c = b /\ l = k
    BY <2>2 DEF FilterLists
  <2>. QED
    BY <2>2, <2>3
<1>2. ASSUME NEW a \in DOMAIN fl, NEW j \in DOMAIN fl[a], fl[a][j] = f, Ahead(a, j, b, k)
      PROVE  Precedes(fl, f, fl[b][k])
  BY <1>2 DEF Precedes
<1>. QED
  BY <1>1, <1>2

(* Precedes is a strict order.                                             *)
LEMMA PrecedesStrict ==
    ASSUME NEW fl, FilterLists(fl), NEW f, NEW g, Precedes(fl, f, g)
    PROVE  f # g /\ ~ Precedes(fl, g, f)
<1>1. PICK a \in DOMAIN fl, b \in DOMAIN fl : \E j \in DOMAIN fl[a], k \in DOMAIN fl[b] :
          fl[a][j] = f /\ fl[b][k] = g /\ Ahead(a, j, b, k)
  BY DEF Precedes
<1>2. PICK j \in DOMAIN fl[a], k \in DOMAIN fl[b] :
          fl[a][j] = f /\ fl[b][k] = g /\ Ahead(a, j, b, k)
  BY <1>1
<1>3. a \in Nat /\ b \in Nat /\ j \in Nat /\ k \in Nat
  BY PlaceNumbers
<1>4. ~ Ahead(b, k, a, j) /\ ~ (a = b /\ j = k)
  BY <1>2, <1>3 DEF Ahead
<1>5. f # g
  BY <1>2, <1>4 DEF FilterLists
<1>6. ASSUME Precedes(fl, g, f) PROVE FALSE
  <2>1. PICK c \in DOMAIN fl : \E l \in DOMAIN fl[c] : fl[c][l] = g /\ Ahead(c, l, a, j)
    BY <1>2, <1>6, PrecedesPlace
  <2>2. PICK l \in DOMAIN fl[c] : fl[c][l] = g /\ Ahead(c, l, a, j)
    BY <2>1
  <2>3. c = b /\ l = k
    BY <1>2, <2>2 DEF FilterLists
  <2>. QED
    BY <1>4, <2>2, <2>3
<1>. QED
  BY <1>5, <1>6

(* The filter at the place is given the frame.                             *)
LEMMA Given ==
    ASSUME NEW fl, FilterLists(fl), NEW d \in Seq(Filters), NEW h \in Seq(Filters),
           NEW a \in DOMAIN fl, NEW j \in DOMAIN fl[a], NEW more, NEW pc, pc # "visit",
           SoFar(fl, d, h, a, j, "visit", more)
    PROVE  SoFar(fl, d, Append(h, fl[a][j]), a, j, pc, more)
<1>. DEFINE f == fl[a][j]
            g == Append(h, f)
<1>1. f \in Filters
  BY DEF FilterLists
<1>. HIDE DEF f
<1>2. /\ DOMAIN g = DOMAIN h \cup {Len(h) + 1} /\ Len(h) \in Nat /\ DOMAIN h = 1 .. Len(h)
      /\ g[Len(h) + 1] = f /\ \A m \in DOMAIN h : g[m] = h[m]
  BY <1>1
<1>. HIDE DEF g
<1>3. \A m \in DOMAIN h : Precedes(fl, h[m], f)
  BY DEF SoFar, f
<1>4. InOrder(fl, g)
  <2>. SUFFICES ASSUME NEW m \in DOMAIN g, NEW n \in DOMAIN g, m < n
                PROVE  Precedes(fl, g[m], g[n])
    BY DEF InOrder
  <2>1. m \in DOMAIN h
    BY <1>2
  <2>2. CASE n \in DOMAIN h
    BY <1>2, <2>1, <2>2 DEF SoFar, InOrder
  <2>3. CASE n = Len(h) + 1
    BY <1>2, <1>3, <2>1, <2>3
  <2>. QED
    BY <1>2, <2>2, <2>3
<1>5. ToSet(h) \subseteq ToSet(g) /\ f \in ToSet(g)
  BY <1>2 DEF ToSet
<1>6. \A m \in DOMAIN g : Precedes(fl, g[m], f) \/ g[m] = f
  BY <1>2, <1>3
<1>7. SoFar(fl, d, g, a, j, pc, more)
  BY <1>4, <1>5, <1>6 DEF SoFar, f
<1>. QED
  BY <1>7 DEF f, g

(* The walk goes to the next entry of its list ...                         *)
LEMMA Onward ==
    ASSUME NEW fl, FilterLists(fl), NEW d \in Seq(Filters), NEW h \in Seq(Filters),
           NEW a \in DOMAIN fl, NEW j \in DOMAIN fl[a], j + 1 \in DOMAIN fl[a],
           NEW more, NEW pc, pc # "visit", SoFar(fl, d, h, a, j, pc, more),
           NEW rest, rest \/ ~ (j + 1 < Len(fl[a]))
    PROVE  SoFar(fl, d, h, a, j + 1, "visit", rest)
<1>. DEFINE f == fl[a][j]
            g == fl[a][j + 1]
<1>1. /\ a \in Nat /\ j \in Nat /\ DOMAIN fl[a] = 1 .. Len(fl[a]) /\ Len(fl[a]) \in Nat
  BY PlaceNumbers
<1>2. ASSUME NEW x, Precedes(fl, x, f) \/ x = f PROVE Precedes(fl, x, g)
  <2>1. PICK b \in DOMAIN fl : \E k \in DOMAIN fl[b] :
            fl[b][k] = x /\ (Ahead(b, k, a, j) \/ (b = a /\ k = j))
    BY <1>2, PrecedesPlace
  <2>2. PICK k \in DOMAIN fl[b] :
            fl[b][k] = x /\ (Ahead(b, k, a, j) \/ (b = a /\ k = j))
    BY <2>1
  <2>3. b \in Nat /\ k \in Nat
    BY PlaceNumbers
  <2>4. Ahead(b, k, a, j + 1)
    BY <1>1, <2>2, <2>3 DEF Ahead
  <2>. QED
    BY <2>2, <2>4, PrecedesPlace
<1>3. ASSUME NEW x, Precedes(fl, x, g) PROVE Precedes(fl, x, f) \/ x = f
  <2>1. PICK b \in DOMAIN fl : \E k \in DOMAIN fl[b] :
            fl[b][k] = x /\ Ahead(b, k, a, j + 1)
    BY <1>3, PrecedesPlace
  <2>2. PICK k \in DOMAIN fl[b] : fl[b][k] = x /\ Ahead(b, k, a, j + 1)
    BY <2>1
  <2>3. b \in Nat /\ k \in Nat
    BY PlaceNumbers
  <2>4. Ahead(b, k, a, j) \/ (b = a /\ k = j)
    BY <1>1, <2>2, <2>3 DEF Ahead
  <2>. QED
    BY <2>2, <2>4, PrecedesPlace
<1>4. ~ (j + 1 < Len(fl[a])) => \A k \in DOMAIN fl[a] : ~ (k > j + 1)
  BY <1>1
<1>5. /\ \A m \in DOMAIN d : InLists(fl, d[m])
      /\ InOrder(fl, d) /\ InOrder(fl, h)
      /\ \A m \in DOMAIN h : Precedes(fl, h[m], f) \/ h[m] = f
      /\ \A m \in DOMAIN d : Precedes(fl, d[m], f) => d[m] \in ToSet(h)
      /\ f \in ToSet(h)
  BY DEF SoFar
<1>6. \A m \in DOMAIN h : Precedes(fl, h[m], g)
  BY <1>2, <1>5
<1>7. \A m \in DOMAIN d : Precedes(fl, d[m], g) => d[m] \in ToSet(h)
  <2>. HIDE DEF f, g
  <2>. QED
    BY <1>3, <1>5
<1>. QED
  BY <1>4, <1>5, <1>6, <1>7 DEF SoFar

(* ... or is through with the list when it has no next entry.              *)
LEMMA ChainPassed ==
    ASSUME NEW fl, FilterLists(fl), NEW d \in Seq(Filters), NEW h \in Seq(Filters),
           NEW a \in DOMAIN fl, NEW j \in DOMAIN fl[a],
           NEW more, ~ more, NEW pc, pc # "visit", SoFar(fl, d, h, a, j, pc, more)
    PROVE  Passed(fl, d, h, a)
<1>1. a \in Nat /\ j \in Nat
  BY PlaceNumbers
<1>2. ASSUME NEW m \in DOMAIN h
      PROVE  \E b \in DOMAIN fl : b <= a /\ \E k \in DOMAIN fl[b] : fl[b][k] = h[m]
  <2>1. Precedes(fl, h[m], fl[a][j]) \/ h[m] = fl[a][j]
    BY DEF SoFar
  <2>2. PICK b \in DOMAIN fl : \E k \in DOMAIN fl[b] :
            fl[b][k] = h[m] /\ (Ahead(b, k, a, j) \/ (b = a /\ k = j))
    BY <2>1, PrecedesPlace
  <2>3. b \in Nat
    BY PlaceNumbers
  <2>4. b <= a
    BY <1>1, <2>2, <2>3 DEF Ahead
  <2>. QED
    BY <2>2, <2>4
<1>3. ASSUME NEW m \in DOMAIN d, NEW b \in DOMAIN fl, NEW k \in DOMAIN fl[b],
             fl[b][k] = d[m], b <= a
      PROVE  d[m] \in ToSet(h)
  <2>1. b \in Nat /\ k \in Nat
    BY PlaceNumbers
  <2>2. ~ (b = a /\ k > j)
    BY <1>3 DEF SoFar
  <2>3. Ahead(b, k, a, j) \/ (b = a /\ k = j)
    BY <1>1, <1>3, <2>1, <2>2 DEF Ahead
  <2>4. Precedes(fl, d[m], fl[a][j]) \/ d[m] = fl[a][j]
    BY <1>3, <2>3, PrecedesPlace
  <2>. QED
    BY <2>4 DEF SoFar
<1>. QED
  BY <1>2, <1>3 DEF SoFar, Passed

(* It enters the next list that has an entry ...                           *)
LEMMA ChainEntered ==
    ASSUME NEW fl, FilterLists(fl), NEW d \in Seq(Filters), NEW h \in Seq(Filters),
           NEW a \in Nat, Passed(fl, d, h, a), NEW e \in DOMAIN fl, a < e, fl[e] # <<>>,
           \A b \in DOMAIN fl : a < b /\ b < e => fl[b] = <<>>,
           NEW rest, rest \/ ~ (1 < Len(fl[e]))
    PROVE  SoFar(fl, d, h, e, 1, "visit", rest)
<1>1. e \in Nat /\ Len(fl[e]) \in Nat /\ DOMAIN fl[e] = 1 .. Len(fl[e])
  BY PlaceNumbers
<1>2. 1 \in DOMAIN fl[e]
  BY <1>1 DEF FilterLists
<1>3. ASSUME NEW m \in DOMAIN h PROVE Precedes(fl, h[m], fl[e][1])
  <2>1. PICK b \in DOMAIN fl : b <= a /\ \E k \in DOMAIN fl[b] : fl[b][k] = h[m]
    BY DEF Passed
  <2>2. b \in Nat
    BY PlaceNumbers
  <2>3. b < e
    BY <1>1, <2>1, <2>2
  <2>. QED
    BY <1>2, <2>1, <2>3, PrecedesPlace DEF Ahead
<1>4. ASSUME NEW m \in DOMAIN d, Precedes(fl, d[m], fl[e][1]) PROVE d[m] \in ToSet(h)
  <2>1. PICK b \in DOMAIN fl : \E k \in DOMAIN fl[b] :
            fl[b][k] = d[m] /\ Ahead(b, k, e, 1)
    BY <1>2, <1>4, PrecedesPlace
  <2>2. PICK k \in DOMAIN fl[b] : fl[b][k] = d[m] /\ Ahead(b, k, e, 1)
    BY <2>1
  <2>3. b \in Nat /\ k \in 1 .. Len(fl[b]) /\ Len(fl[b]) \in Nat
    BY PlaceNumbers
  <2>4. b < e
    BY <1>1, <2>2, <2>3 DEF Ahead
  <2>5. fl[b] # <<>>
    BY <2>3
  <2>6. b <= a
    BY <1>1, <2>3, <2>4, <2>5
  <2>. QED
    BY <2>2, <2>6 DEF Passed
<1>5. ~ (1 < Len(fl[e])) => \A k \in DOMAIN fl[e] : ~ (k > 1)
  BY <1>1
<1>. QED
  BY <1>3, <1>4, <1>5 DEF SoFar, Passed

(* ... and where there is none, all of d was served, in order.             *)
LEMMA WalkEnded ==
    ASSUME NEW fl, FilterLists(fl), NEW d \in Seq(Filters), NEW h \in Seq(Filters),
           NEW a \in Nat, Passed(fl, d, h, a),
           \A b \in DOMAIN fl : a < b => fl[b] = <<>>
    PROVE  Complete(d, h)
<1>1. /\ Len(h) \in Nat /\ DOMAIN h = 1 .. Len(h) /\ Len(d) \in Nat /\ DOMAIN d = 1 .. Len(d)
  OBVIOUS
<1>2. \A m, n \in DOMAIN h : m < n => h[m] # h[n]
  BY PrecedesStrict DEF Passed, InOrder
<1>3. \A m, n \in DOMAIN h : h[m] = h[n] => m = n
  <2>. SUFFICES ASSUME NEW m \in DOMAIN h, NEW n \in DOMAIN h, h[m] = h[n] PROVE m = n
    OBVIOUS
  <2>1. m \in Nat /\ n \in Nat /\ ~ (m < n) /\ ~ (n < m)
    BY <1>1, <1>2
  <2>. QED
    BY <2>1
<1>4. ASSUME NEW m \in DOMAIN d PROVE d[m] \in ToSet(h)
  <2>1. PICK b \in DOMAIN fl : \E k \in DOMAIN fl[b] : fl[b][k] = d[m]
    BY DEF Passed, InLists
  <2>2. b \in Nat /\ Len(fl[b]) \in Nat /\ DOMAIN fl[b] = 1 .. Len(fl[b])
    BY PlaceNumbers
  <2>3. fl[b] # <<>>
    BY <2>1, <2>2
  <2>4. b <= a
    BY <2>2, <2>3
  <2>. QED
    BY <2>1, <2>4 DEF Passed
<1>5. ASSUME NEW j \in DOMAIN d, NEW k \in DOMAIN d, NEW m \in DOMAIN h, NEW n \in DOMAIN h,
             h[m] = d[j], h[n] = d[k], j < k
      PROVE  m < n
  <2>1. Precedes(fl, h[m], h[n])
    BY <1>5 DEF Passed, InOrder
  <2>2. h[m] # h[n] /\ ~ Precedes(fl, h[n], h[m])
    BY <2>1, PrecedesStrict
  <2>3. ~ (n < m) /\ m # n
    BY <2>2 DEF Passed, InOrder
  <2>4. m \in Nat /\ n \in Nat
    BY <1>1
  <2>. QED
    BY <2>3, <2>4
<1>. QED
  BY <1>3, <1>4, <1>5 DEF Complete

(* fl2 is fl with entries added at the ends of its lists.                  *)
Grows(fl, fl2) ==
    /\ DOMAIN fl2 = DOMAIN fl
    /\ \A a \in DOMAIN fl :
           /\ DOMAIN fl[a] \subseteq DOMAIN fl2[a]
           /\ \A j \in DOMAIN fl[a] : fl2[a][j] = fl[a][j]

(* What a walk has done stands when entries are added to the lists.        *)
LEMMA SoFarGrows ==
    ASSUME NEW fl, NEW fl2, FilterLists(fl), FilterLists(fl2), Grows(fl, fl2),
           NEW d \in Seq(Filters), NEW h \in Seq(Filters),
           NEW a \in DOMAIN fl, NEW j \in DOMAIN fl[a], NEW pc, NEW more,
           SoFar(fl, d, h, a, j, pc, more)
    PROVE  SoFar(fl2, d, h, a, j, pc, more)
<1>9. \A b \in DOMAIN fl : \A k \in DOMAIN fl2[b] :
          k \notin DOMAIN fl[b] => ~ InLists(fl, fl2[b][k])
  <2>. SUFFICES ASSUME NEW b \in DOMAIN fl, NEW k \in DOMAIN fl2[b], InLists(fl, fl2[b][k])
                PROVE  k \in DOMAIN fl[b]
    OBVIOUS
  <2>4. PICK c \in DOMAIN fl : \E l \in DOMAIN fl[c] : fl[c][l] = fl2[b][k]
    BY DEF InLists
  <2>1. PICK l \in DOMAIN fl[c] : fl[c][l] = fl2[b][k]
    BY <2>4
  <2>2. b \in DOMAIN fl2 /\ c \in DOMAIN fl2 /\ l \in DOMAIN fl2[c] /\ fl2[c][l] = fl2[b][k]
    BY <2>1 DEF Grows
  <2>3. c = b /\ l = k
    BY <2>2 DEF FilterLists
  <2>. QED
    BY <2>1, <2>3
<1>1. ASSUME NEW f, NEW g, Precedes(fl, f, g) PROVE Precedes(fl2, f, g)
  BY <1>1 DEF Precedes, Grows
<1>2. \A f : InLists(fl, f) => InLists(fl2, f)
  BY DEF InLists, Grows
<1>3. a \in DOMAIN fl2 /\ j \in DOMAIN fl2[a] /\ fl2[a][j] = fl[a][j]
  BY DEF Grows
<1>4. ASSUME NEW f, InLists(fl, f), Precedes(fl2, f, fl[a][j]) PROVE Precedes(fl, f, fl[a][j])
  <2>1. PICK b \in DOMAIN fl2 : \E k \in DOMAIN fl2[b] :
            fl2[b][k] = f /\ Ahead(b, k, a, j)
    BY <1>3, <1>4, PrecedesPlace
  <2>2. PICK k \in DOMAIN fl2[b] : fl2[b][k] = f /\ Ahead(b, k, a, j)
    BY <2>1
  <2>3. b \in DOMAIN fl /\ k \in DOMAIN fl[b] /\ fl[b][k] = f
    BY <1>9, <1>4, <2>2 DEF Grows
  <2>. QED
    BY <2>2, <2>3, PrecedesPlace
<1>5. ~ more => \A k \in DOMAIN fl2[a] : k > j => \A m \in DOMAIN d : d[m] # fl2[a][k]
  BY <1>9 DEF SoFar, Grows
<1>6. InOrder(fl2, d) /\ InOrder(fl2, h)
  BY <1>1 DEF SoFar, InOrder
<1>7. \A m \in DOMAIN h :
          Precedes(fl2, h[m], fl2[a][j]) \/ (pc # "visit" /\ h[m] = fl2[a][j])
  BY <1>1, <1>3 DEF SoFar
<1>8. \A m \in DOMAIN d : Precedes(fl2, d[m], fl2[a][j]) => d[m] \in ToSet(h)
  BY <1>3, <1>4 DEF SoFar
<1>. QED
  BY <1>2, <1>3, <1>5, <1>6, <1>7, <1>8 DEF SoFar

(* The lists of a state are lists where no filter has two places.          *)
LEMMA ListsOrdered ==
    ASSUME ForwardingAssumption
    PROVE  ObjectTypes /\ ListsSound
               => /\ FilterLists(Lists)
                  /\ \A a, b \in DOMAIN chains : chains[a] = chains[b] => a = b
<1>. SUFFICES ASSUME ObjectTypes, ListsSound
              PROVE  /\ FilterLists(Lists)
                     /\ \A a, b \in DOMAIN chains : chains[a] = chains[b] => a = b
  OBVIOUS
<1>1. chains \in Seq(Chains) /\ DOMAIN chains = 1 .. Len(chains) /\ Len(chains) \in Nat
      /\ \A a \in DOMAIN chains : chains[a] \in Chains
  BY DEF ObjectTypes
<1>2. \A a, b \in DOMAIN chains : chains[a] = chains[b] => a = b
  BY DEF ListsSound, ListedOnce
<1>3. Lists \in Seq(Seq(Filters))
  <2>. DEFINE S == Seq(Filters)
  <2>1. \A a \in 1 .. Len(chains) : FiltersOf(chains[a]) \in S
    BY <1>1, FiltersTyped
  <2>. HIDE DEF S
  <2>2. Lists \in [1 .. Len(chains) -> S]
    BY <1>1, <2>1 DEF Lists
  <2>3. Lists \in Seq(S)
    BY <1>1, <2>2, SeqDef
  <2>. QED
    BY <2>3 DEF S
<1>4. ASSUME NEW a \in DOMAIN Lists, NEW b \in DOMAIN Lists, NEW j \in DOMAIN Lists[a],
             NEW k \in DOMAIN Lists[b], Lists[a][j] = Lists[b][k]
      PROVE  a = b /\ j = k
  <2>1. a \in DOMAIN chains /\ b \in DOMAIN chains
        /\ Lists[a] = FiltersOf(chains[a]) /\ Lists[b] = FiltersOf(chains[b])
    BY DEF Lists
  <2>2. chains[a] = chains[b] /\ j = k
    BY <1>1, <1>4, <2>1 DEF ListsSound, FiltersListedOnce
  <2>. QED
    BY <1>2, <2>1, <2>2
<1>. QED
  BY <1>2, <1>3, <1>4 DEF FilterLists

(* NextChain after the chain at place a (0: from the start).               *)
LEMMA NextChainProgress ==
    ASSUME ForwardingAssumption, ObjectTypes, ThreadTypes, ListsSound, NEW t \in Threads,
           NEW d \in Seq(Filters), NEW h \in Seq(Filters), NEW a \in Nat, NEW c,
           \/ c = NULL /\ a = 0
           \/ a \in DOMAIN chains /\ chains[a] = c,
           Passed(Lists, d, h, a), NextChain(t, c), UNCHANGED <<chains, cdata>>,
           due'[t] = d, hits'[t] = h
    PROVE  Progress(t)'
<1>. DEFINE later == {b \in DOMAIN chains : After(c, b) /\ FiltersOf(chains[b]) # <<>>}
<1>1. /\ FilterLists(Lists)
      /\ \A j, k \in DOMAIN chains : chains[j] = chains[k] => j = k
  BY ListsOrdered
<1>2. /\ chains \in Seq(Chains) /\ DOMAIN chains = 1 .. Len(chains) /\ Len(chains) \in Nat
      /\ NULL \notin Chains
      /\ DOMAIN Lists = DOMAIN chains /\ \A b \in DOMAIN chains : Lists[b] = FiltersOf(chains[b])
  BY DEF ObjectTypes, Lists, ForwardingAssumption
<1>3. \A b \in DOMAIN chains : After(c, b) <=> a < b
  <2>. SUFFICES ASSUME NEW b \in DOMAIN chains PROVE After(c, b) <=> a < b
    OBVIOUS
  <2>1. CASE c = NULL /\ a = 0
    BY <1>2, <2>1 DEF After
  <2>2. CASE a \in DOMAIN chains /\ chains[a] = c
    <3>1. c # NULL
      BY <1>2, <2>2
    <3>2. ASSUME After(c, b) PROVE a < b
      <4>1. PICK e \in 1 .. b - 1 : chains[e] = c
        BY <3>1, <3>2 DEF After
      <4>2. e \in DOMAIN chains /\ e < b
        BY <1>2, <4>1
      <4>3. e = a
        BY <1>1, <2>2, <4>1, <4>2
      <4>. QED
        BY <4>2, <4>3
    <3>3. a < b => After(c, b)
      BY <1>2, <2>2 DEF After
    <3>. QED
      BY <3>2, <3>3
  <2>. QED
    BY <2>1, <2>2
<1>4. t \in DOMAIN fpc /\ t \in DOMAIN fpos /\ t \in DOMAIN ftmp
  BY DEF ThreadTypes
<1>5. Lists' = Lists
  BY DEF Lists, FiltersOf
<1>6. CASE later = {}
  <2>1. Leave(t)
    BY <1>6 DEF NextChain
  <2>2. fpc'[t] = "done"
    BY <1>4, <2>1 DEF Leave
  <2>3. \A b \in DOMAIN Lists : a < b => Lists[b] = <<>>
    BY <1>2, <1>3, <1>6
  <2>4. Complete(d, h)
    BY <1>1, <2>3, WalkEnded
  <2>. QED
    BY <2>2, <2>4 DEF Progress, Walking
<1>7. CASE later # {}
  <2>. DEFINE e == CHOOSE i \in later : \A k \in later : i <= k
  <2>1. e \in later /\ \A k \in later : e <= k
    <3>1. later \subseteq Nat
      BY <1>2
    <3>. HIDE DEF later
    <3>2. \E i \in later : \A j \in Nat : j < i => j \notin later
      BY <1>7, <3>1, LeastMember
    <3>3. \E i \in later : \A k \in later : i <= k
      BY <3>1, <3>2
    <3>. QED
      BY <3>3
  <2>2. Enter(t, chains[e], 1)
    BY <1>7 DEF NextChain
  <2>. HIDE DEF e
  <2>3. e \in DOMAIN chains /\ a < e /\ Lists[e] # <<>>
    BY <1>2, <1>3, <2>1
  <2>4. \A b \in DOMAIN Lists : a < b /\ b < e => Lists[b] = <<>>
    <3>. SUFFICES ASSUME NEW b \in DOMAIN Lists, a < b, b < e, Lists[b] # <<>> PROVE FALSE
      OBVIOUS
    <3>1. b \in later
      BY <1>2, <1>3
    <3>. QED
      BY <1>2, <2>1, <2>3, <3>1
  <2>5. /\ fpc'[t] = "visit" /\ fpos'[t] = <<chains[e], 1>>
        /\ ftmp'[t] = (1 < Len(FiltersOf(chains[e])))
    BY <1>4, <2>2 DEF Enter
  <2>6. ftmp'[t] \/ ~ (1 < Len(Lists[e]))
    BY <1>2, <2>3, <2>5
  <2>7. SoFar(Lists, d, h, e, 1, "visit", ftmp'[t])
    BY <1>1, <1>2, <2>3, <2>4, <2>6, ChainEntered
  <2>8. /\ chains'[e] = fpos'[t][1] /\ fpos'[t][2] = 1 /\ e \in DOMAIN chains'
        /\ SoFar(Lists', due'[t], hits'[t], e, fpos'[t][2], fpc'[t], ftmp'[t])
    BY <1>5, <2>3, <2>5, <2>7
  <2>. QED
    BY <2>5, <2>8 DEF Progress
<1>. QED
  BY <1>6, <1>7

(* Advance, after the filter at the place was given the frame.             *)
LEMMA AdvanceProgress ==
    ASSUME ForwardingAssumption, ObjectTypes, ThreadTypes, ListsSound, NEW t \in Threads,
           OnList(t), fpc[t] \in Walking,
           NEW d \in Seq(Filters), NEW h \in Seq(Filters), NEW a \in DOMAIN chains, NEW pc,
           chains[a] = fpos[t][1], pc # "visit",
           SoFar(Lists, d, h, a, fpos[t][2], pc, ftmp[t]),
           Advance(t), UNCHANGED <<chains, cdata>>,
           due'[t] = d, hits'[t] = h
    PROVE  Progress(t)'
<1>1. FilterLists(Lists)
  BY ListsOrdered
<1>2. /\ a \in Nat /\ a \in DOMAIN Lists /\ Lists[a] = FiltersOf(fpos[t][1])
  BY DEF ObjectTypes, Lists
<1>3. PICK n : n = fpos[t][2]
  OBVIOUS
<1>4. n \in DOMAIN Lists[a] /\ (ftmp[t] => n < Len(Lists[a]))
  BY <1>2, <1>3 DEF OnList, Walking
<1>5. SoFar(Lists, d, h, a, n, pc, ftmp[t])
  BY <1>3
<1>6. CASE ~ ftmp[t]
  <2>1. Passed(Lists, d, h, a)
    BY <1>1, <1>2, <1>4, <1>5, <1>6, ChainPassed
  <2>2. NextChain(t, fpos[t][1])
    BY <1>6 DEF Advance
  <2>. QED
    BY <1>2, <2>1, <2>2, NextChainProgress
<1>7. CASE ftmp[t]
  <2>1. Enter(t, fpos[t][1], n + 1)
    BY <1>3, <1>7 DEF Advance
  <2>2. t \in DOMAIN fpc /\ t \in DOMAIN fpos /\ t \in DOMAIN ftmp
    BY DEF ThreadTypes
  <2>3. /\ fpc'[t] = "visit" /\ fpos'[t] = <<fpos[t][1], n + 1>>
        /\ ftmp'[t] = (n + 1 < Len(FiltersOf(fpos[t][1])))
    BY <2>1, <2>2 DEF Enter
  <2>4. n + 1 \in DOMAIN Lists[a]
    BY <1>1, <1>2, <1>4, <1>7, PlaceNumbers
  <2>5. ftmp'[t] \/ ~ (n + 1 < Len(Lists[a]))
    BY <1>2, <2>3
  <2>6. SoFar(Lists, d, h, a, n + 1, "visit", ftmp'[t])
    BY <1>1, <1>2, <1>4, <1>5, <2>4, <2>5, Onward
  <2>7. Lists' = Lists
    BY DEF Lists, FiltersOf
  <2>8. /\ chains'[a] = fpos'[t][1] /\ fpos'[t][2] = n + 1 /\ a \in DOMAIN chains'
        /\ SoFar(Lists', due'[t], hits'[t], a, fpos'[t][2], fpc'[t], ftmp'[t])
    BY <2>3, <2>6, <2>7
  <2>. QED
    BY <2>3, <2>8 DEF Progress
<1>. QED
  BY <1>6, <1>7

(* All the filters stand in the order of the lists.                        *)
LEMMA ListedOrder ==
    ASSUME ForwardingAssumption, ObjectTypes, ListsSound
    PROVE  Listed \in Seq(Filters) /\ Passed(Lists, Listed, <<>>, 0)
<1>. DEFINE N == Len(chains)
            Upto(s, n) ==
                /\ s \in Seq(Filters)
                /\ \A m \in DOMAIN s : \E b \in DOMAIN Lists :
                       b <= n /\ \E k \in DOMAIN Lists[b] : Lists[b][k] = s[m]
                /\ InOrder(Lists, s)
            T == {n \in Nat : n <= N => Upto(ListedIn[n], n)}
<1>1. FilterLists(Lists) /\ N \in Nat /\ DOMAIN Lists = 1 .. N
      /\ \A b \in DOMAIN Lists : Lists[b] = FiltersOf(chains[b])
  BY ListsOrdered DEF ObjectTypes, Lists
<1>. HIDE DEF N
<1>2. 0 \in T
  <2>1. ListedIn[0] = <<>> /\ <<>> \in Seq(Filters) /\ DOMAIN <<>> = {}
    BY ListedEquation
  <2>2. InOrder(Lists, <<>>)
    BY DEF InOrder
  <2>. QED
    BY <2>1, <2>2
<1>3. ASSUME NEW n \in Nat, n \in T PROVE n + 1 \in T
  <2>. SUFFICES ASSUME n + 1 <= N PROVE Upto(ListedIn[n + 1], n + 1)
    OBVIOUS
  <2>. DEFINE s == ListedIn[n]
              l == Lists[n + 1]
              r == ListedIn[n + 1]
  <2>1. n + 1 \in 1 .. N /\ (n + 1) - 1 = n /\ n <= N
    BY <1>1
  <2>2. Upto(s, n)
    BY <1>3, <2>1
  <2>3. r = s \o l
    BY <1>1, <2>1, ListedEquation DEF N
  <2>4. n + 1 \in DOMAIN Lists /\ l \in Seq(Filters)
    BY <1>1, <2>1 DEF FilterLists
  <2>. HIDE DEF s, l, r
  <2>5. /\ r \in Seq(Filters) /\ Len(r) = Len(s) + Len(l) /\ Len(s) \in Nat /\ Len(l) \in Nat
        /\ DOMAIN r = 1 .. Len(s) + Len(l) /\ DOMAIN s = 1 .. Len(s) /\ DOMAIN l = 1 .. Len(l)
        /\ \A m \in DOMAIN s : r[m] = s[m]
        /\ \A m \in DOMAIN r :
               m \notin DOMAIN s => m - Len(s) \in DOMAIN l /\ r[m] = l[m - Len(s)]
    BY <2>2, <2>3, <2>4, ConcatProperties
  <2>6. ASSUME NEW m \in DOMAIN s
        PROVE  \E b \in DOMAIN Lists :
                   b <= n /\ \E k \in DOMAIN Lists[b] : Lists[b][k] = r[m]
    BY <2>2, <2>5
  <2>7. ASSUME NEW m \in DOMAIN r
        PROVE  \E b \in DOMAIN Lists :
                   b <= n + 1 /\ \E k \in DOMAIN Lists[b] : Lists[b][k] = r[m]
    <3>1. CASE m \in DOMAIN s
      <4>1. PICK b \in DOMAIN Lists :
                b <= n /\ \E k \in DOMAIN Lists[b] : Lists[b][k] = r[m]
        BY <2>6, <3>1
      <4>2. b <= n + 1
        BY <1>1, <4>1
      <4>. QED
        BY <4>1, <4>2
    <3>2. CASE m \notin DOMAIN s
      <4>1. m - Len(s) \in DOMAIN l /\ l[m - Len(s)] = r[m]
        BY <2>5, <3>2
      <4>2. \E k \in DOMAIN Lists[n + 1] : Lists[n + 1][k] = r[m]
        BY <4>1 DEF l
      <4>3. n + 1 \in DOMAIN Lists /\ n + 1 <= n + 1
        BY <2>4
      <4>. QED
        BY <4>2, <4>3
    <3>. QED
      BY <3>1, <3>2
  <2>8. InOrder(Lists, r)
    <3>. SUFFICES ASSUME NEW i \in DOMAIN r, NEW m \in DOMAIN r, i < m
                  PROVE  Precedes(Lists, r[i], r[m])
      BY DEF InOrder
    <3>1. CASE m \in DOMAIN s
      <4>1. i \in DOMAIN s
        BY <2>5, <3>1
      <4>. QED
        BY <2>2, <2>5, <3>1, <4>1 DEF InOrder
    <3>2. CASE i \in DOMAIN s /\ m \notin DOMAIN s
      <4>1. PICK b \in DOMAIN Lists :
                b <= n /\ \E k \in DOMAIN Lists[b] : Lists[b][k] = r[i]
        BY <2>6, <3>2
      <4>2. b < n + 1
        BY <1>1, <4>1
      <4>3. m - Len(s) \in DOMAIN Lists[n + 1] /\ Lists[n + 1][m - Len(s)] = r[m]
        BY <2>5, <3>2 DEF l
      <4>. QED
        BY <2>4, <4>1, <4>2, <4>3 DEF Precedes, Ahead
    <3>3. CASE i \notin DOMAIN s /\ m \notin DOMAIN s
      <4>1. /\ m - Len(s) \in DOMAIN Lists[n + 1] /\ Lists[n + 1][m - Len(s)] = r[m]
            /\ i - Len(s) \in DOMAIN Lists[n + 1] /\ Lists[n + 1][i - Len(s)] = r[i]
        BY <2>5, <3>3 DEF l
      <4>2. i - Len(s) < m - Len(s)
        BY <2>5
      <4>. QED
        BY <2>4, <4>1, <4>2 DEF Precedes, Ahead
    <3>. QED
      BY <3>1, <3>2, <3>3
  <2>9. Upto(r, n + 1)
    BY <2>5, <2>7, <2>8
  <2>. QED
    BY <2>9 DEF r
<1>. HIDE DEF T
<1>4. N \in T
  BY <1>1, <1>2, <1>3, NatSet
<1>5. Upto(Listed, N)
  BY <1>1, <1>4 DEF T, Listed, N
<1>6. \A m \in DOMAIN Listed : InLists(Lists, Listed[m])
  BY <1>5 DEF InLists
<1>7. InOrder(Lists, <<>>) /\ DOMAIN <<>> = {}
  BY DEF InOrder
<1>8. \A b \in DOMAIN Lists : ~ (b <= 0)
  BY <1>1
<1>. QED
  BY <1>5, <1>6, <1>7, <1>8 DEF Passed

(* The steps of a thread carry its own walk on.                            *)
LEMMA ThreadProgress ==
    ASSUME ForwardingAssumption, ObjectTypes, ThreadTypes, ListsSound, NEW t \in Threads,
           OnList(t), Progress(t), ThreadNext(t)
    PROVE  Progress(t)'
<1>1. /\ t \in DOMAIN fpc /\ t \in DOMAIN due /\ t \in DOMAIN hits
      /\ due[t] \in Seq(Filters) /\ hits[t] \in Seq(Filters)
  BY DEF ThreadTypes
<1>2. ASSUME Fault(t) PROVE Progress(t)'
  <2>1. fpc'[t] = "oops"
    BY <1>1, <1>2 DEF Fault
  <2>. QED
    BY <2>1 DEF Progress, Walking
<1>3. ASSUME NEW n \in Lens, Receive(t, n) PROVE Progress(t)'
  <2>1. fpc'[t] = "lock" /\ hits'[t] = <<>>
    BY <1>1, <1>3 DEF Receive
  <2>. QED
    BY <2>1 DEF Progress, Walking
<1>4. CASE Walk(t)
  <2>1. /\ due'[t] = Listed /\ hits'[t] = <<>> /\ NextChain(t, NULL)
        /\ UNCHANGED <<chains, cdata>>
    BY <1>1, <1>4 DEF Walk, Progress, objVars
  <2>2. Listed \in Seq(Filters) /\ Passed(Lists, Listed, <<>>, 0)
    BY ListedOrder
  <2>3. <<>> \in Seq(Filters)
    OBVIOUS
  <2>. QED
    BY <2>1, <2>2, <2>3, NextChainProgress
<1>5. ASSUME fpc[t] \in Walking
      PROVE  \E a \in DOMAIN chains :
                 /\ chains[a] = fpos[t][1]
                 /\ SoFar(Lists, due[t], hits[t], a, fpos[t][2], fpc[t], ftmp[t])
  BY <1>5 DEF Progress
<1>6. CASE Visit(t)
  <2>1. /\ fpc[t] = "visit" /\ due' = due
        /\ UNCHANGED <<listeners, rules, chains, ldata, rdata, cdata>>
    BY <1>6 DEF Visit
  <2>2. PICK a \in DOMAIN chains :
            /\ chains[a] = fpos[t][1]
            /\ SoFar(Lists, due[t], hits[t], a, fpos[t][2], "visit", ftmp[t])
    BY <1>5, <2>1 DEF Walking
  <2>3. PICK n : n = fpos[t][2]
    OBVIOUS
  <2>4. FilterLists(Lists) /\ a \in DOMAIN Lists /\ Lists[a] = FiltersOf(fpos[t][1])
    BY <2>2, ListsOrdered DEF Lists
  <2>5. n \in DOMAIN Lists[a]
    BY <2>1, <2>3, <2>4 DEF OnList
  <2>. DEFINE f == FiltersOf(fpos[t][1])[fpos[t][2]]
  <2>6. f = Lists[a][n] /\ f \in Filters
    BY <2>3, <2>4, <2>5 DEF FilterLists
  <2>7. cdata[fpos[t][1]] # NULL
    BY <2>1, Visited
  <2>8. Judge(t, f) /\ hits' = [hits EXCEPT ![t] = Append(hits[t], f)]
    BY <1>6, <2>7 DEF Visit
  <2>. HIDE DEF f
  <2>9. PICK h \in Seq(Filters) : h = Append(hits[t], f)
    BY <1>1, <2>6, AppendProperties
  <2>10. hits'[t] = h /\ due'[t] = due[t]
    BY <1>1, <2>1, <2>8, <2>9
  <2>11. SoFar(Lists, due[t], h, a, n, "invoke", ftmp[t])
    <3>1. "invoke" # "visit"
      OBVIOUS
    <3>. QED
      BY <1>1, <2>2, <2>3, <2>4, <2>5, <2>6, <2>9, <3>1, Given
  <2>12. CASE Fault(t)
    BY <1>2, <2>12
  <2>13. CASE Advance(t)
    <3>1. fpc[t] \in Walking /\ "invoke" # "visit"
          /\ SoFar(Lists, due[t], h, a, fpos[t][2], "invoke", ftmp[t])
      BY <2>1, <2>3, <2>11 DEF Walking
    <3>. QED
      BY <1>1, <2>1, <2>2, <2>10, <2>13, <3>1, AdvanceProgress
  <2>14. CASE fpc' = [fpc EXCEPT ![t] = "invoke"] /\ UNCHANGED <<fpos, ftmp, chainlock>>
    <3>1. fpc'[t] = "invoke" /\ Lists' = Lists /\ chains' = chains
      BY <1>1, <2>1, <2>14 DEF Lists, FiltersOf
    <3>2. /\ a \in DOMAIN chains' /\ chains'[a] = fpos'[t][1]
          /\ SoFar(Lists', due'[t], hits'[t], a, fpos'[t][2], fpc'[t], ftmp'[t])
      BY <2>2, <2>3, <2>10, <2>11, <2>14, <3>1
    <3>. QED
      BY <3>1, <3>2 DEF Progress
  <2>15. Fault(t) \/ Advance(t)
         \/ (fpc' = [fpc EXCEPT ![t] = "invoke"] /\ UNCHANGED <<fpos, ftmp, chainlock>>)
    BY <2>8 DEF Judge
  <2>. QED
    BY <2>12, <2>13, <2>14, <2>15
<1>7. CASE Invoke(t) \/ Send(t)
  <2>1. /\ fpc[t] \in Walking /\ fpc[t] # "visit"
        /\ UNCHANGED <<chains, cdata, due, hits>>
    BY <1>7 DEF Invoke, Send, Walking, objVars
  <2>2. PICK a \in DOMAIN chains :
            /\ chains[a] = fpos[t][1]
            /\ SoFar(Lists, due[t], hits[t], a, fpos[t][2], fpc[t], ftmp[t])
    BY <1>5, <2>1
  <2>3. CASE Fault(t)
    BY <1>2, <2>3
  <2>4. CASE Advance(t)
    BY <1>1, <2>1, <2>2, <2>4, AdvanceProgress
  <2>5. CASE fpc' = [fpc EXCEPT ![t] = "send"] /\ UNCHANGED <<fpos, ftmp, chainlock>>
    <3>1. fpc'[t] = "send" /\ Lists' = Lists
      BY <1>1, <2>1, <2>5 DEF Lists, FiltersOf
    <3>2. SoFar(Lists, due[t], hits[t], a, fpos[t][2], "send", ftmp[t])
      BY <2>1, <2>2 DEF SoFar
    <3>3. /\ a \in DOMAIN chains' /\ chains'[a] = fpos'[t][1]
          /\ SoFar(Lists', due'[t], hits'[t], a, fpos'[t][2], fpc'[t], ftmp'[t])
      BY <2>1, <2>2, <2>5, <3>1, <3>2
    <3>. QED
      BY <3>1, <3>3 DEF Progress
  <2>6. Fault(t) \/ Advance(t)
        \/ (fpc' = [fpc EXCEPT ![t] = "send"] /\ UNCHANGED <<fpos, ftmp, chainlock>>)
    BY <1>7 DEF Invoke, Send
  <2>. QED
    BY <2>3, <2>4, <2>5, <2>6
<1>. QED
  BY <1>3, <1>4, <1>6, <1>7 DEF ThreadNext

(* A chain that grows keeps its entries at their places.                   *)
LEMMA ChainGrows ==
    ASSUME ForwardingAssumption, ObjectTypes, NEW c \in Chains,
           cdata[c] # NULL, cdata'[c] # NULL, cdata'[c] = cdata[c] \/ Grown(c)
    PROVE  /\ DOMAIN FiltersOf(c) \subseteq DOMAIN FiltersOf(c)'
           /\ \A j \in DOMAIN FiltersOf(c) : FiltersOf(c)'[j] = FiltersOf(c)[j]
<1>1. CASE cdata'[c] = cdata[c]
  BY <1>1 DEF FiltersOf
<1>2. CASE Grown(c)
  <2>1. PICK x : cdata'[c] = [cdata[c] EXCEPT !.filters = Append(@, x)]
    BY <1>2 DEF Grown
  <2>2. cdata[c] \in ChainRecs
    BY DEF ObjectTypes
  <2>3. FiltersOf(c) = cdata[c].filters /\ FiltersOf(c) \in Seq(Filters)
    BY FiltersTyped DEF FiltersOf
  <2>4. FiltersOf(c)' = Append(FiltersOf(c), x)
    <3>1. cdata'[c].filters = Append(cdata[c].filters, x)
      BY <2>1, <2>2 DEF ChainRecs
    <3>. QED
      BY <2>3, <3>1 DEF FiltersOf
  <2>. DEFINE s == FiltersOf(c)
  <2>5. s \in Seq(Filters \cup {x}) /\ x \in Filters \cup {x}
    BY <2>3
  <2>. HIDE DEF s
  <2>6. DOMAIN s \subseteq DOMAIN Append(s, x) /\ \A j \in DOMAIN s : Append(s, x)[j] = s[j]
    BY <2>5, AppendProperties
  <2>. QED
    BY <2>4, <2>6 DEF s
<1>. QED
  BY <1>1, <1>2

(* ListsOrdered, of the next state.                                        *)
LEMMA ListsOrderedNext ==
    ForwardingAssumption => (ObjectTypes' /\ ListsSound' => FilterLists(Lists'))
<1>. SUFFICES ASSUME ForwardingAssumption
              PROVE  ObjectTypes' /\ ListsSound' => FilterLists(Lists')
  OBVIOUS
<1>1. ObjectTypes /\ ListsSound => FilterLists(Lists)
  BY ListsOrdered
<1>2. (ObjectTypes /\ ListsSound => FilterLists(Lists))'
  BY <1>1, PTL
<1>. QED
  BY <1>2 DEF FilterLists

(* Steps of the writers let a walk be: while it holds the lock of the      *)
(* chains, the lists only grow.                                            *)
LEMMA WriterProgress ==
    ASSUME ForwardingAssumption, ObjectTypes, ThreadTypes, ListsSound, ObjectTypes', ListsSound',
           LockInv, NEW w \in Writers, Start(w) \/ WriterStep(w), UNCHANGED thrVars,
           NEW t \in Threads, OnList(t), Progress(t)
    PROVE  Progress(t)'
<1>1. UNCHANGED <<fpc, fpos, ftmp, due, hits>>
  BY DEF thrVars
<1>2. CASE fpc[t] \notin Walking
  BY <1>1, <1>2 DEF Progress
<1>3. CASE fpc[t] \in Walking
  <2>1. chainlock # NULL
    BY <1>3, WalksAlone DEF Walking, ForwardingAssumption
  <2>2. chains' = chains /\ \A c \in Chains : cdata'[c] = cdata[c] \/ Grown(c)
    BY <2>1, WriterStand DEF ObjectTypes
  <2>3. PICK a \in DOMAIN chains :
            /\ chains[a] = fpos[t][1]
            /\ SoFar(Lists, due[t], hits[t], a, fpos[t][2], fpc[t], ftmp[t])
    BY <1>3 DEF Progress
  <2>4. FilterLists(Lists)
    BY ListsOrdered
  <2>5. FilterLists(Lists')
    BY ListsOrderedNext
  <2>6. Grows(Lists, Lists')
    <3>1. /\ Lists = [b \in DOMAIN chains |-> FiltersOf(chains[b])]
          /\ Lists' = [b \in DOMAIN chains |-> FiltersOf(chains[b])']
      BY <2>2 DEF Lists, FiltersOf
    <3>2. ASSUME NEW b \in DOMAIN chains
          PROVE  /\ DOMAIN Lists[b] \subseteq DOMAIN Lists'[b]
                 /\ \A j \in DOMAIN Lists[b] : Lists'[b][j] = Lists[b][j]
      <4>1. PICK c \in Chains : c = chains[b]
        BY DEF ObjectTypes
      <4>2. cdata[c] # NULL /\ cdata'[c] # NULL
        BY <2>2, <4>1 DEF ListsSound, ListedOnce
      <4>3. Lists[b] = FiltersOf(c) /\ Lists'[b] = FiltersOf(c)'
        BY <2>2, <4>1 DEF Lists, FiltersOf
      <4>. QED
        BY <2>2, <4>2, <4>3, ChainGrows
    <3>. QED
      BY <3>1, <3>2 DEF Grows
  <2>7. PICK n : n = fpos[t][2]
    OBVIOUS
  <2>8. a \in DOMAIN Lists /\ n \in DOMAIN Lists[a]
    BY <1>3, <2>3, <2>7 DEF OnList, Walking, Lists
  <2>9. due[t] \in Seq(Filters) /\ hits[t] \in Seq(Filters)
    BY DEF ThreadTypes
  <2>10. PICK ls : ls = Lists'
    OBVIOUS
  <2>11. SoFar(ls, due[t], hits[t], a, n, fpc[t], ftmp[t])
    BY <2>3, <2>4, <2>5, <2>6, <2>7, <2>8, <2>9, <2>10, SoFarGrows
  <2>12. /\ a \in DOMAIN chains' /\ chains'[a] = fpos'[t][1]
         /\ SoFar(Lists', due'[t], hits'[t], a, fpos'[t][2], fpc'[t], ftmp'[t])
    BY <1>1, <2>2, <2>3, <2>7, <2>10, <2>11
  <2>. QED
    BY <1>1, <1>3, <2>12 DEF Progress, Walking
<1>. QED
  BY <1>2, <1>3

(* Every step preserves the progress of every walk.                        *)
LEMMA NextProgress ==
    ForwardingAssumption /\ ScriptAssumption /\ ObjectAssumption /\ InetAddrAssumption
        /\ FwdInv /\ FwdInv' /\ WalksProgress /\ [Next]_vars => WalksProgress'
<1>. SUFFICES ASSUME ForwardingAssumption, ScriptAssumption, ObjectAssumption,
                     InetAddrAssumption, FwdInv, FwdInv', WalksProgress, [Next]_vars,
                     NEW t \in Threads
              PROVE  Progress(t)'
  BY DEF WalksProgress
<1>1. /\ ObjectTypes /\ ThreadTypes /\ ListsSound /\ OnList(t) /\ Progress(t)
      /\ ObjectTypes' /\ ListsSound'
  BY DEF FwdInv, TypeOK, WalkOnList, OnList, WalksProgress
<1>2. CASE UNCHANGED vars
  BY <1>1, <1>2 DEF vars, objVars, thrVars, Progress, Lists, FiltersOf
<1>3. ASSUME NEW w \in Writers, Start(w) \/ WriterStep(w) PROVE Progress(t)'
  <2>1. UNCHANGED thrVars
    BY <1>3, WriterFrame DEF FwdInv, TypeOK
  <2>2. LockInv
    BY DEF FwdInv, TypeOK, LockInv, ThreadTypes
  <2>. QED
    BY <1>1, <1>3, <2>1, <2>2, WriterProgress
<1>4. CASE ThreadNext(t)
  BY <1>1, <1>4, ThreadProgress
<1>5. ASSUME NEW u \in Threads, u # t, ThreadNext(u) PROVE Progress(t)'
  <2>1. ThreadDoes(u)
    <3>1. OnList(u) /\ PointerOK(u)
      BY DEF FwdInv, WalkOnList, WalkPointers, OnList, PointerOK
    <3>. QED
      BY <1>1, <1>5, <3>1, ThreadStep
  <2>2. /\ fpc'[t] = fpc[t] /\ fpos'[t] = fpos[t] /\ ftmp'[t] = ftmp[t]
        /\ due'[t] = due[t] /\ hits'[t] = hits[t] /\ chains' = chains /\ cdata' = cdata
    BY <1>1, <1>5, <2>1 DEF ThreadDoes, StepTypes, ThreadTypes
  <2>3. Lists' = Lists
    BY <2>2 DEF Lists, FiltersOf
  <2>. QED
    BY <1>1, <2>2, <2>3 DEF Progress
<1>. QED
  BY <1>2, <1>3, <1>4, <1>5 DEF Next

(* Every filter that was listed when the walk of a frame began is given    *)
(* the frame once, in the order of the lists, whatever is added meanwhile. *)
THEOREM WalksComplete == Spec => []WalkComplete
<1>. USE ForwardingAssumption, ScriptAssumption, ObjectAssumption, InetAddrAssumption
<1>1. Init => WalksProgress
  BY DEF Init, WalksProgress, Progress, Walking
<1>2. FwdInv /\ FwdInv' /\ WalksProgress /\ [Next]_vars => WalksProgress'
  BY NextProgress
<1>3. WalksProgress => WalkComplete
  BY DEF WalksProgress, Progress, WalkComplete
<1>. QED
  BY <1>1, <1>2, <1>3, FwdInvariant, PTL DEF Spec

----------------------------------------------------------------------------
(* One process writes a file *)

(* The lines that a process still has to write are some of those it had.   *)
LEMMA LineKept ==
    ASSUME WriterTypes, NEW E, NEW w \in Writers, Start(w) \/ WriterStep(w), HasLine(w, E)'
    PROVE  HasLine(w, E)
<1>1. /\ w \in DOMAIN wpc /\ w \in DOMAIN wline /\ w \in DOMAIN todo
      /\ todo[w] \in Seq(Written)
  BY DEF WriterTypes
<1>2. CASE Start(w)
  <2>1. todo[w] # <<>> /\ todo'[w] = Tail(todo[w]) /\ wpc[w] = "idle"
    BY <1>1, <1>2 DEF Start
  <2>2. \/ wpc'[w] = wpc[w] /\ wline'[w] = wline[w]
        \/ wline'[w] = Head(todo[w])
    BY <1>1, <1>2 DEF Start
  <2>3. /\ 1 \in DOMAIN todo[w] /\ Head(todo[w]) = todo[w][1]
        /\ \A j \in DOMAIN Tail(todo[w]) :
               j + 1 \in DOMAIN todo[w] /\ Tail(todo[w])[j] = todo[w][j + 1]
    BY <1>1, <2>1, HeadTailProperties
  <2>4. CASE wpc'[w] # "idle" /\ Entry(wline'[w]) \in E
    BY <2>1, <2>2, <2>3, <2>4 DEF HasLine, WritesLine
  <2>5. CASE \E j \in DOMAIN todo'[w] : Entry(todo'[w][j]) \in E
    BY <2>1, <2>3, <2>5 DEF HasLine, WritesLine
  <2>. QED
    BY <2>4, <2>5 DEF HasLine, WritesLine
<1>3. CASE WriterStep(w)
  <2>1. UNCHANGED todo /\ wpc[w] # "idle"
    BY <1>3 DEF WriterStep, ListenerCreate, ListenerSet, ListenerFind, ListenerRemove,
       ListenerAdd, ListenerClear, ListenerShow, RuleCreate, RuleTarget, RuleFind,
       RuleRemove, RuleAdd, RuleClear, RuleShow, NothingCreated, NoFilterCreated,
       NoChainCreated, FilterCreate, ChainFind, ChainAdd, FilterSet, FilterAdd,
       ChainRemove, ChainClear, FilterShow
  <2>2. wline'[w] = wline[w] \/ wpc'[w] = "idle"
    <3>1. UNCHANGED wline \/ Finish(w)
      BY <1>3 DEF WriterStep, ListenerCreate, ListenerSet, ListenerFind, ListenerRemove,
         ListenerAdd, ListenerClear, ListenerShow, RuleCreate, RuleTarget, RuleFind,
         RuleRemove, RuleAdd, RuleClear, RuleShow, NothingCreated, NoFilterCreated,
         NoChainCreated, FilterCreate, ChainFind, ChainAdd, FilterSet, FilterAdd,
         ChainRemove, ChainClear, FilterShow
    <3>. QED
      BY <1>1, <3>1 DEF Finish, Goto
  <2>. QED
    BY <2>1, <2>2 DEF HasLine, WritesLine
<1>. QED
  BY <1>2, <1>3

(* A step of a process leaves at most one process with such lines.         *)
LEMMA OneWriterStep ==
    ASSUME WriterTypes, NEW E, OneWriter(E), NEW w \in Writers, Start(w) \/ WriterStep(w)
    PROVE  OneWriter(E)'
<1>1. ASSUME NEW v \in Writers, HasLine(v, E)' PROVE HasLine(v, E)
  <2>1. CASE v = w
    BY <1>1, <2>1, LineKept
  <2>2. CASE v # w
    <3>1. wpc'[v] = wpc[v] /\ wline'[v] = wline[v] /\ todo'[v] = todo[v]
      BY <2>2, WriterFrame DEF WriterTypes
    <3>. QED
      BY <1>1, <3>1 DEF HasLine, WritesLine
  <2>. QED
    BY <2>1, <2>2
<1>. QED
  BY <1>1 DEF OneWriter

(* The scripts say who has them.                                           *)
LEMMA OneWriterInit ==
    ASSUME NEW E, OneWrites(Script, E)
    PROVE  Init => OneWriter(E)
<1>. SUFFICES ASSUME Init, NEW v \in Writers, NEW w \in Writers, HasLine(v, E), HasLine(w, E)
              PROVE  v = w
  BY DEF OneWriter
<1>1. \A u \in Writers : wpc[u] = "idle"
  BY DEF Init
<1>2. WritesLine(todo[v], E) /\ WritesLine(todo[w], E)
  BY <1>1 DEF HasLine, WritesLine
<1>3. todo \in Script
  BY DEF Init
<1>. QED
  BY <1>2, <1>3 DEF OneWrites

(* No step gives such a line to another process.                           *)
LEMMA OneWriterNext ==
    ASSUME NEW E, WriterTypes, OneWriter(E), [Next]_vars
    PROVE  OneWriter(E)'
<1>1. ASSUME UNCHANGED wrVars PROVE OneWriter(E)'
  BY <1>1 DEF wrVars, OneWriter, HasLine, WritesLine
<1>2. ASSUME NEW w \in Writers, Start(w) \/ WriterStep(w) PROVE OneWriter(E)'
  BY <1>2, OneWriterStep
<1>3. ASSUME NEW t \in Threads, ThreadNext(t) PROVE UNCHANGED wrVars
  BY <1>3 DEF ThreadNext, Receive, Walk, Visit, Invoke, Send
<1>. QED
  BY <1>1, <1>2, <1>3 DEF Next, vars

(* What is true of the keys of a list is true of those of a shorter one.   *)
LEMMA WithinKeeps ==
    ASSUME NEW list, NEW key, NEW list2, NEW key2, Within(list2, key2, list, key),
           \A j, k \in DOMAIN list2 : list2[j] = list2[k] => j = k
    PROVE  /\ Unique(list, key) => Unique(list2, key2)
           /\ \A x : NoneHas(list, key, x) => NoneHas(list2, key2, x)
           /\ \A x, y : OnlyHas(list, key, x, y) => OnlyHas(list2, key2, x, y)
<1>1. ASSUME Unique(list, key) PROVE Unique(list2, key2)
  <2>. SUFFICES ASSUME NEW j \in DOMAIN list2, NEW k \in DOMAIN list2,
                       key2[list2[j]] = key2[list2[k]]
                PROVE  j = k
    BY DEF Unique
  <2>1. PICK m \in DOMAIN list : list2[j] = list[m] /\ key2[list2[j]] = key[list[m]]
    BY DEF Within
  <2>2. PICK n \in DOMAIN list : list2[k] = list[n] /\ key2[list2[k]] = key[list[n]]
    BY DEF Within
  <2>3. m = n
    BY <1>1, <2>1, <2>2 DEF Unique
  <2>. QED
    BY <2>1, <2>2, <2>3
<1>2. ASSUME NEW x, NoneHas(list, key, x) PROVE NoneHas(list2, key2, x)
  BY <1>2 DEF NoneHas, Within
<1>3. ASSUME NEW x, NEW y, OnlyHas(list, key, x, y) PROVE OnlyHas(list2, key2, x, y)
  BY <1>3 DEF OnlyHas, Within
<1>. QED
  BY <1>1, <1>2, <1>3

(* An object goes last when nothing in the list has its key.               *)
LEMMA AppendUnique ==
    ASSUME NEW S, NEW list \in Seq(S), NEW key, Unique(list, key), NEW x \in S,
           NoneHas(list, key, key[x])
    PROVE  Unique(Append(list, x), key)
<1>. DEFINE l2 == Append(list, x)
            N == Len(list)
<1>1. /\ N \in Nat /\ DOMAIN list = 1 .. N /\ DOMAIN l2 = 1 .. N + 1
      /\ \A j \in 1 .. N : l2[j] = list[j]
      /\ l2[N + 1] = x
  BY AppendProperties
<1>. HIDE DEF l2, N
<1>2. ASSUME NEW j \in DOMAIN l2, NEW k \in DOMAIN l2, key[l2[j]] = key[l2[k]] PROVE j = k
  <2>1. j \in 1 .. N \/ j = N + 1
    BY <1>1
  <2>2. k \in 1 .. N \/ k = N + 1
    BY <1>1
  <2>. QED
    BY <1>1, <1>2, <2>1, <2>2 DEF Unique, NoneHas
<1>. QED
  BY <1>2 DEF Unique, l2

----------------------------------------------------------------------------
(* Endpoints are unique *)

(* What ListsSound says of the listeners.                                  *)
LEMMA ListenersListed ==
    ASSUME ForwardingAssumption, ObjectTypes, ListsSound
    PROVE  /\ listeners \in Seq(Listeners)
           /\ \A j \in DOMAIN listeners : listeners[j] \in Listeners /\ ldata[listeners[j]] # NULL
           /\ \A j, k \in DOMAIN listeners : listeners[j] = listeners[k] => j = k
           /\ \A v \in Writers : ListenerMade[v] # NULL =>
                  /\ ListenerMade[v] \in Listeners /\ ldata[ListenerMade[v]] # NULL
                  /\ ListenerMade[v] \notin ToSet(listeners)
<1>1. listeners \in Seq(Listeners) /\ DOMAIN ldata = Listeners
  BY DEF ObjectTypes
<1>2. MadeOnce(ListenerMade, ldata) /\ ListedOnce(listeners, ListenerMade, ldata)
  BY DEF ListsSound
<1>. QED
  BY <1>1, <1>2 DEF MadeOnce, ListedOnce, ToSet

(* A step takes listeners away at most, and keeps the endpoints of those in*)
(* the hands of others.                                                    *)
ListenersLess(w) ==
    /\ Within(listeners', Endpoint', listeners, Endpoint)
    /\ \A v \in Writers : v # w /\ ListenerMade[v] # NULL =>
           Endpoint'[ListenerMade[v]] = Endpoint[ListenerMade[v]]

(* Only listener_add puts a listener into the list.                        *)
LEMMA ListenersLessen ==
    ASSUME ForwardingAssumption, ObjectTypes, WriterTypes, AtWork, MadeKinds, ListsSound,
           NEW w \in Writers, Start(w) \/ WriterStep(w), ~ ListenerAdd(w)
    PROVE  ListenersLess(w)
<1>1. /\ listeners \in Seq(Listeners)
      /\ \A j \in DOMAIN listeners : listeners[j] \in Listeners /\ ldata[listeners[j]] # NULL
      /\ \A j, k \in DOMAIN listeners : listeners[j] = listeners[k] => j = k
      /\ \A v \in Writers : ListenerMade[v] # NULL =>
             /\ ListenerMade[v] \in Listeners /\ ldata[ListenerMade[v]] # NULL
             /\ ListenerMade[v] \notin ToSet(listeners)
  BY ListenersListed
<1>2. DOMAIN ldata = Listeners
  BY DEF ObjectTypes
<1>3. ASSUME UNCHANGED <<listeners, ldata>> PROVE ListenersLess(w)
  BY <1>1, <1>3 DEF ListenersLess, Within, Endpoint
<1>4. ASSUME NEW l \in Listeners, ldata[l] = NULL, NEW rec,
             ldata' = [ldata EXCEPT ![l] = rec], listeners' = listeners
      PROVE  ListenersLess(w)
  <2>1. \A k \in Listeners : k # l => Endpoint'[k] = Endpoint[k]
    BY <1>2, <1>4 DEF Endpoint
  <2>2. \A j \in DOMAIN listeners : listeners[j] # l
    BY <1>1, <1>4
  <2>3. \A v \in Writers : ListenerMade[v] # NULL => ListenerMade[v] # l
    BY <1>1, <1>4
  <2>. QED
    BY <1>1, <1>4, <2>1, <2>2, <2>3 DEF ListenersLess, Within
<1>5. CASE ListenerCreate(w)
  <2>1. PICK l \in Listeners, stack \in [1 .. 4 -> Garbage] :
            /\ ldata[l] = NULL
            /\ ldata' = [ldata EXCEPT ![l] =
                   [lid |-> wline[w].id, ep |-> wline[w].ep,
                    addr |-> inet_aton(wline[w].ep.ip, stack)]]
    BY <1>5 DEF ListenerCreate
  <2>2. listeners' = listeners
    BY <1>5 DEF ListenerCreate
  <2>. QED
    BY <1>4, <2>1, <2>2
<1>6. CASE ListenerRemove(w)
  <2>1. CASE UNCHANGED <<listeners, ldata>>
    BY <1>3, <2>1
  <2>2. CASE ~ UNCHANGED <<listeners, ldata>>
    <3>. DEFINE x == wptr[w]
    <3>1. /\ listeners' = Without(listeners, x) /\ ldata' = [ldata EXCEPT ![x] = NULL]
          /\ x \in ToSet(listeners)
      BY <1>6, <2>2 DEF ListenerRemove
    <3>2. \A n \in DOMAIN listeners' :
              \E m \in DOMAIN listeners : listeners[m] # x /\ listeners'[n] = listeners[m]
      BY <1>1, <3>1, WithoutMembers
    <3>3. \A k \in Listeners : k # x => Endpoint'[k] = Endpoint[k]
      BY <1>2, <3>1 DEF Endpoint
    <3>4. \A v \in Writers : ListenerMade[v] # NULL => ListenerMade[v] # x
      BY <1>1, <3>1
    <3>. HIDE DEF x
    <3>. QED
      BY <1>1, <3>2, <3>3, <3>4 DEF ListenersLess, Within
  <2>. QED
    BY <2>1, <2>2
<1>7. CASE ListenerClear(w)
  <2>1. listeners' = <<>> /\ ldata' = Clear(ldata, ToSet(listeners))
    BY <1>7 DEF ListenerClear
  <2>2. \A k \in Listeners : k \notin ToSet(listeners) => Endpoint'[k] = Endpoint[k]
    BY <1>2, <2>1 DEF Endpoint, Clear
  <2>3. DOMAIN listeners' = {}
    BY <2>1
  <2>. QED
    BY <1>1, <2>2, <2>3 DEF ListenersLess, Within
<1>8. CASE ListenerSet(w)
  <2>1. CASE UNCHANGED <<listeners, ldata>>
    BY <1>3, <2>1
  <2>2. CASE ~ UNCHANGED <<listeners, ldata>>
    <3>. DEFINE x == wobj[w]
    <3>1. wpc[w] = "lset" /\ listeners' = listeners /\ ldata' = [ldata EXCEPT ![x] = NULL]
      BY <1>8, <2>2 DEF ListenerSet, DestroyListener
    <3>2. ListenerMade[w] = x /\ x # NULL
      BY <3>1 DEF ListenerMade, MadeKinds, MadeOf, ForwardingAssumption
    <3>3. \A k \in Listeners : k # x => Endpoint'[k] = Endpoint[k]
      BY <1>2, <3>1 DEF Endpoint
    <3>4. \A v \in Writers : v # w /\ ListenerMade[v] # NULL => ListenerMade[v] # x
      BY <3>2 DEF ListsSound, MadeOnce
    <3>5. \A j \in DOMAIN listeners : listeners[j] # x
      BY <1>1, <3>2 DEF ToSet
    <3>. HIDE DEF x
    <3>. QED
      BY <1>1, <3>1, <3>3, <3>4, <3>5 DEF ListenersLess, Within
  <2>. QED
    BY <2>1, <2>2
<1>9. CASE ~ (\/ ListenerCreate(w) \/ ListenerSet(w) \/ ListenerRemove(w)
              \/ ListenerClear(w))
  <2>1. UNCHANGED <<listeners, ldata>>
    BY <1>9 DEF Start, WriterStep, ListenerFind, ListenerShow, RuleCreate,
       RuleTarget, RuleFind, RuleRemove, RuleAdd, RuleClear, RuleShow, NothingCreated,
       NoFilterCreated, NoChainCreated, FilterCreate, ChainFind, ChainAdd, FilterSet,
       FilterAdd, ChainRemove, ChainClear, FilterShow, objVars
  <2>. QED
    BY <1>3, <2>1
<1>. QED
  BY <1>5, <1>6, <1>7, <1>8, <1>9

(* listener_findbyipandport finds the one listener of an endpoint, or there*)
(* is none.                                                                *)
LEMMA EndpointFound ==
    ASSUME ForwardingAssumption, ObjectTypes, ListsSound, Unique(listeners, Endpoint), NEW ep
    PROVE  /\ ListenerWithEndpoint(ep) = NULL => NoneHas(listeners, Endpoint, ep)
           /\ ListenerWithEndpoint(ep) # NULL =>
                  OnlyHas(listeners, Endpoint, ep, ListenerWithEndpoint(ep))
<1>. DEFINE fits == {l \in ToSet(listeners) : ldata[l].ep = ep}
            x == ListenerWithEndpoint(ep)
<1>1. /\ listeners \in Seq(Listeners) /\ NULL \notin Listeners
      /\ \A j \in DOMAIN listeners : /\ listeners[j] \in Listeners
                                     /\ listeners[j] \in ToSet(listeners)
                                     /\ Endpoint[listeners[j]] = ldata[listeners[j]].ep
  BY ListenersListed DEF Endpoint, ToSet, ForwardingAssumption
<1>2. (fits = {} => x = NULL) /\ (fits # {} => x \in fits)
  <2>1. fits \subseteq ToSet(listeners) /\ x = FirstOf(listeners, fits)
    BY DEF ListenerWithEndpoint
  <2>. HIDE DEF fits, x
  <2>. QED
    BY <1>1, <2>1, SearchFinds
<1>3. ASSUME fits = {} PROVE NoneHas(listeners, Endpoint, ep)
  BY <1>1, <1>3 DEF NoneHas
<1>4. ASSUME x \in fits PROVE x # NULL /\ OnlyHas(listeners, Endpoint, ep, x)
  <2>1. PICK k \in DOMAIN listeners : x = listeners[k]
    BY <1>4 DEF ToSet
  <2>2. Endpoint[listeners[k]] = ep
    BY <1>1, <1>4, <2>1
  <2>. QED
    BY <1>1, <2>1, <2>2 DEF Unique, OnlyHas
<1>. QED
  BY <1>2, <1>3, <1>4

(* While a process replaces a listener, the steps of others keep what it   *)
(* has found: none of them makes a listener.                               *)
LEMMA EndpointOther ==
    ASSUME ForwardingAssumption, ObjectTypes, WriterTypes, AtWork, MadeKinds, ListsSound,
           ListsSound', ObjectTypes', EndpointsInv, OneWriter({"lcreate"}),
           NEW w \in Writers, Start(w) \/ WriterStep(w), NEW v \in Writers, v # w
    PROVE  EndpointOK(v)'
<1>1. wpc'[v] = wpc[v] /\ wline'[v] = wline[v] /\ wobj'[v] = wobj[v] /\ wptr'[v] = wptr[v]
  BY WriterFrame DEF WriterTypes
<1>2. EndpointOK(v)
  BY DEF EndpointsInv
<1>3. MadeOf(v) /\ MadeOf(w) /\ NULL \notin Listeners
  BY DEF MadeKinds, ForwardingAssumption
<1>4. CASE wpc[v] \notin {"lset", "lfind", "lremove", "ladd"} \/ wobj[v] = NULL
  <2>1. wpc[v] = "ladd" => wobj[v] # NULL
    BY <1>3 DEF MadeOf
  <2>. QED
    BY <1>1, <1>4, <2>1 DEF EndpointOK
<1>5. CASE wpc[v] \in {"lset", "lfind", "lremove", "ladd"} /\ wobj[v] # NULL
  <2>1. HasLine(v, {"lcreate"}) /\ ListenerMade[v] = wobj[v]
    BY <1>2, <1>5 DEF EndpointOK, HasLine, ListenerMade
  <2>2. ASSUME ListenerAdd(w) PROVE FALSE
    <3>1. wpc[w] = "ladd" /\ wobj[w] # NULL
      BY <1>3, <2>2 DEF ListenerAdd, MadeOf
    <3>2. EndpointOK(w)
      BY DEF EndpointsInv
    <3>3. HasLine(w, {"lcreate"})
      BY <3>1, <3>2 DEF EndpointOK, HasLine
    <3>. QED
      BY <2>1, <3>3 DEF OneWriter
  <2>3. ListenersLess(w)
    BY <2>2, ListenersLessen
  <2>4. Endpoint'[wobj[v]] = Endpoint[wobj[v]]
    BY <1>5, <2>1, <2>3 DEF ListenersLess
  <2>5. \A j, k \in DOMAIN listeners' : listeners'[j] = listeners'[k] => j = k
    BY DEF ListsSound, ListedOnce
  <2>6. /\ \A x : NoneHas(listeners, Endpoint, x) => NoneHas(listeners', Endpoint', x)
        /\ \A x, y : OnlyHas(listeners, Endpoint, x, y) => OnlyHas(listeners', Endpoint', x, y)
    BY <2>3, <2>5, WithinKeeps DEF ListenersLess
  <2>. QED
    BY <1>1, <1>2, <1>5, <2>4, <2>6 DEF EndpointOK
<1>. QED
  BY <1>4, <1>5

(* What a process knows of the endpoint at each step of listener_add.      *)
LEMMA EndpointOwn ==
    ASSUME ForwardingAssumption, ScriptAssumption, ObjectTypes, WriterTypes, AtWork, MadeKinds,
           ListsSound, ListsSound', EndpointsInv, NEW w \in Writers, Start(w) \/ WriterStep(w)
    PROVE  EndpointOK(w)'
<1>1. w \in DOMAIN wpc /\ w \in DOMAIN wline /\ w \in DOMAIN wobj /\ w \in DOMAIN wptr
  BY DEF WriterTypes
<1>2. \A pc : Goto(w, pc) => wpc'[w] = pc
  BY <1>1 DEF Goto
<1>3. Finish(w) => wpc'[w] = "idle"
  BY <1>1 DEF Finish, Goto
<1>4. /\ EndpointOK(w) /\ MadeOf(w) /\ WorkOf(w) /\ NULL \notin Listeners
      /\ Unique(listeners, Endpoint)
  BY DEF EndpointsInv, MadeKinds, AtWork, ForwardingAssumption
<1>5. ASSUME wpc'[w] \notin {"lset", "lfind", "lremove", "ladd"} PROVE EndpointOK(w)'
  BY <1>5 DEF EndpointOK
<1>6. CASE wpc[w] \notin {"lcreate", "lset", "lfind", "lremove", "ladd", "lclear"}
  <2>1. ListenersAlone(w)
    BY <1>6, Elsewhere
  <2>2. wpc'[w] = "lfind" => wobj'[w] = NULL
    BY <1>4, <2>1 DEF ListenersAlone, MadeOf
  <2>. QED
    BY <2>1, <2>2 DEF ListenersAlone, EndpointOK
<1>7. CASE ListenerCreate(w)
  <2>1. PICK l \in Listeners, stack \in [1 .. 4 -> Garbage] :
            /\ ldata' = [ldata EXCEPT ![l] =
                   [lid |-> wline[w].id, ep |-> wline[w].ep,
                    addr |-> inet_aton(wline[w].ep.ip, stack)]]
            /\ wobj' = [wobj EXCEPT ![w] = l]
    BY <1>7 DEF ListenerCreate
  <2>2. wpc[w] = "lcreate" /\ wpc'[w] = "lset" /\ wobj'[w] = l /\ wline' = wline
    BY <1>1, <1>2, <1>7, <2>1 DEF ListenerCreate
  <2>3. Endpoint'[l] = wline[w].ep
    <3>1. DOMAIN ldata = Listeners
      BY DEF ObjectTypes
    <3>2. ldata'[l].ep = wline[w].ep
      BY <2>1, <3>1
    <3>. QED
      BY <3>2 DEF Endpoint
  <2>4. Entry(wline[w]) = "lcreate"
    BY <1>4, <2>2 DEF WorkOf
  <2>. QED
    BY <2>2, <2>3, <2>4 DEF EndpointOK
<1>8. CASE ListenerFind(w)
  <2>1. UNCHANGED <<listeners, ldata>> /\ wpc[w] = "lfind"
    BY <1>8 DEF ListenerFind, objVars
  <2>2. Endpoint' = Endpoint
    BY <2>1 DEF Endpoint
  <2>3. CASE wobj[w] = NULL
    <3>1. \/ Finish(w)
          \/ wpc'[w] = "lremove" /\ wobj' = wobj
      BY <1>2, <1>8, <2>3 DEF ListenerFind
    <3>. QED
      BY <1>3, <2>3, <3>1 DEF EndpointOK
  <2>4. CASE wobj[w] # NULL
    <3>. DEFINE l == ListenerWithEndpoint(wline[w].ep)
    <3>1. /\ UNCHANGED <<wline, wobj>>
          /\ \/ l = NULL /\ wpc'[w] = "ladd"
             \/ l # NULL /\ wpc'[w] = "lremove" /\ wptr'[w] = l
      BY <1>1, <1>2, <1>8, <2>4 DEF ListenerFind
    <3>2. /\ l = NULL => NoneHas(listeners, Endpoint, wline[w].ep)
          /\ l # NULL => OnlyHas(listeners, Endpoint, wline[w].ep, l)
      BY <1>4, EndpointFound
    <3>. HIDE DEF l
    <3>. QED
      BY <1>4, <2>1, <2>2, <2>4, <3>1, <3>2 DEF EndpointOK
  <2>. QED
    BY <2>3, <2>4
<1>9. CASE ListenerRemove(w)
  <2>1. wpc[w] = "lremove"
    BY <1>9 DEF ListenerRemove
  <2>2. CASE wpc'[w] \in {"oops", "idle"}
    BY <1>5, <2>2
  <2>3. CASE wpc'[w] \notin {"oops", "idle"}
    <3>. DEFINE x == wptr[w]
    <3>1. /\ listeners' = Without(listeners, x) /\ ldata' = [ldata EXCEPT ![x] = NULL]
          /\ wpc'[w] = "ladd" /\ UNCHANGED <<wline, wobj>>
          /\ x \in ToSet(listeners) /\ wobj[w] # NULL
      BY <1>2, <1>3, <1>9, <2>3 DEF ListenerRemove
    <3>2. /\ listeners \in Seq(Listeners)
          /\ \A j \in DOMAIN listeners : listeners[j] \in Listeners
          /\ \A j, k \in DOMAIN listeners : listeners[j] = listeners[k] => j = k
          /\ ListenerMade[w] # NULL => /\ ListenerMade[w] \in Listeners
                                       /\ ListenerMade[w] \notin ToSet(listeners)
      BY ListenersListed
    <3>3. \A n \in DOMAIN listeners' :
              \E m \in DOMAIN listeners : listeners[m] # x /\ listeners'[n] = listeners[m]
      BY <3>1, <3>2, WithoutMembers
    <3>4. \A k \in Listeners : k # x => Endpoint'[k] = Endpoint[k]
      <4>1. DOMAIN ldata = Listeners
        BY DEF ObjectTypes
      <4>. QED
        BY <3>1, <4>1 DEF Endpoint
    <3>5. OnlyHas(listeners, Endpoint, wline[w].ep, x)
      BY <1>4, <2>1, <3>1 DEF EndpointOK
    <3>6. NoneHas(listeners', Endpoint', wline[w].ep)
      BY <3>2, <3>3, <3>4, <3>5 DEF OnlyHas, NoneHas
    <3>7. wobj[w] \in Listeners /\ wobj[w] # x
      BY <2>1, <3>1, <3>2 DEF ListenerMade
    <3>8. Entry(wline[w]) = "lcreate" /\ Endpoint'[wobj[w]] = wline[w].ep
      BY <1>4, <2>1, <3>1, <3>4, <3>7 DEF EndpointOK
    <3>. QED
      BY <3>1, <3>6, <3>8 DEF EndpointOK
  <2>. QED
    BY <2>2, <2>3
<1>10. CASE \/ ListenerAdd(w) \/ ListenerClear(w)
            \/ (NothingCreated(w) /\ wpc[w] = "lcreate")
  BY <1>3, <1>5, <1>10 DEF ListenerAdd, ListenerClear, NothingCreated
<1>11. CASE ListenerSet(w)
  <2>1. wpc[w] = "lset"
    BY <1>11 DEF ListenerSet
  <2>2. CASE wpc'[w] = "lfind" /\ UNCHANGED <<ldata, wline, wobj>>
    <3>1. Endpoint' = Endpoint
      BY <2>2 DEF Endpoint
    <3>. QED
      BY <1>4, <2>1, <2>2, <3>1 DEF EndpointOK
  <2>. QED
    BY <1>2, <1>3, <1>5, <1>11, <2>2 DEF ListenerSet
<1>12. wpc[w] \in {"lcreate", "lset", "lfind", "lremove", "ladd", "lclear"}
       => \/ ListenerCreate(w) \/ ListenerSet(w) \/ ListenerFind(w) \/ ListenerRemove(w)
          \/ ListenerAdd(w) \/ ListenerClear(w)
          \/ (NothingCreated(w) /\ wpc[w] = "lcreate")
  BY DEF Start, WriterStep, ListenerShow, RuleCreate, RuleTarget, RuleFind,
     RuleRemove, RuleAdd, RuleClear, RuleShow, NoFilterCreated, NothingCreated,
     NoChainCreated, FilterCreate, ChainFind, ChainAdd, FilterSet, FilterAdd, ChainRemove,
     ChainClear, FilterShow
<1>. QED
  BY <1>6, <1>7, <1>8, <1>9, <1>10, <1>11, <1>12

(* The list has one listener of an endpoint: the one appended had none.    *)
LEMMA EndpointsKept ==
    ASSUME ForwardingAssumption, ObjectTypes, WriterTypes, AtWork, MadeKinds, ListsSound,
           ListsSound', EndpointsInv, NEW w \in Writers, Start(w) \/ WriterStep(w)
    PROVE  Unique(listeners', Endpoint')
<1>1. \A j, k \in DOMAIN listeners' : listeners'[j] = listeners'[k] => j = k
  BY DEF ListsSound, ListedOnce
<1>2. CASE ListenerAdd(w)
  <2>1. /\ wpc[w] = "ladd" /\ listeners' = Append(listeners, wobj[w]) /\ ldata' = ldata
        /\ wobj[w] \in Listeners /\ wobj[w] # NULL
    BY <1>2 DEF ListenerAdd, MadeKinds, MadeOf, ForwardingAssumption
  <2>2. Endpoint' = Endpoint
    BY <2>1 DEF Endpoint
  <2>3. NoneHas(listeners, Endpoint, Endpoint[wobj[w]])
    BY <2>1 DEF EndpointsInv, EndpointOK
  <2>4. listeners \in Seq(Listeners) /\ Unique(listeners, Endpoint)
    BY DEF ObjectTypes, EndpointsInv
  <2>. QED
    BY <2>1, <2>2, <2>3, <2>4, AppendUnique
<1>3. CASE ~ ListenerAdd(w)
  <2>1. Within(listeners', Endpoint', listeners, Endpoint)
    BY <1>3, ListenersLessen DEF ListenersLess
  <2>. QED
    BY <1>1, <2>1, WithinKeeps DEF EndpointsInv
<1>. QED
  BY <1>2, <1>3

(* EndpointsInv is inductive.                                              *)
LEMMA EndpointsNext ==
    ForwardingAssumption /\ ScriptAssumption /\ FwdInv /\ FwdInv'
        /\ OneWriter({"lcreate"}) /\ EndpointsInv /\ [Next]_vars => EndpointsInv'
<1>. SUFFICES ASSUME ForwardingAssumption, ScriptAssumption, FwdInv, FwdInv',
                     OneWriter({"lcreate"}), EndpointsInv, [Next]_vars
              PROVE  EndpointsInv'
  OBVIOUS
<1>1. /\ ObjectTypes /\ WriterTypes /\ AtWork /\ MadeKinds /\ ListsSound
      /\ ListsSound' /\ ObjectTypes'
  BY DEF FwdInv, TypeOK
<1>2. ASSUME UNCHANGED <<listeners, ldata, wrVars>> PROVE EndpointsInv'
  <2>1. Endpoint' = Endpoint
    BY <1>2 DEF Endpoint
  <2>2. EndpointsInv' = (/\ Unique(listeners', Endpoint')
                         /\ \A w \in Writers : EndpointOK(w)')
    BY DEF EndpointsInv
  <2>3. ASSUME NEW w \in Writers PROVE EndpointOK(w)'
    BY <1>2, <2>1 DEF EndpointsInv, EndpointOK, wrVars
  <2>. QED
    BY <1>2, <2>1, <2>3 DEF EndpointsInv
<1>3. ASSUME NEW w \in Writers, Start(w) \/ WriterStep(w) PROVE EndpointsInv'
  <2>1. EndpointOK(w)'
    BY <1>1, <1>3, EndpointOwn
  <2>2. \A v \in Writers : v # w => EndpointOK(v)'
    BY <1>1, <1>3, EndpointOther
  <2>3. Unique(listeners', Endpoint')
    BY <1>1, <1>3, EndpointsKept
  <2>. QED
    BY <2>1, <2>2, <2>3 DEF EndpointsInv
<1>4. ASSUME NEW t \in Threads, ThreadNext(t) PROVE UNCHANGED <<listeners, ldata, wrVars>>
  BY <1>4 DEF ThreadNext, Receive, Walk, Visit, Invoke, Send, objVars
<1>. QED
  BY <1>2, <1>3, <1>4 DEF Next, vars, objVars

(* No two listeners have one endpoint, as long as one process adds them and*)
(* no list is torn.                                                        *)
LEMMA EndpointsOnce ==
    ASSUME OneWrites(Script, {"lcreate"})
    PROVE  Spec => []EndpointsUnique
<1>. USE ForwardingAssumption, ScriptAssumption
<1>1. Init => EndpointsInv
  BY DEF Init, EndpointsInv, EndpointOK, Unique
<1>2. FwdInv /\ FwdInv' /\ OneWriter({"lcreate"}) /\ EndpointsInv /\ [Next]_vars
      => EndpointsInv'
  BY EndpointsNext
<1>3. FwdInv /\ EndpointsInv => EndpointsUnique
  BY ListenersListed DEF FwdInv, TypeOK, EndpointsInv, Unique, Endpoint, EndpointsUnique
<1>4. Init => OneWriter({"lcreate"})
  BY OneWriterInit
<1>5. FwdInv /\ OneWriter({"lcreate"}) /\ [Next]_vars => OneWriter({"lcreate"})'
  BY OneWriterNext DEF FwdInv, TypeOK
<1>. QED
  BY <1>1, <1>2, <1>3, <1>4, <1>5, FwdInvariant, PTL DEF Spec

----------------------------------------------------------------------------
(* Identifiers of rules are unique *)

(* What ListsSound says of the rules.                                      *)
LEMMA RulesListed ==
    ASSUME ForwardingAssumption, ObjectTypes, ListsSound
    PROVE  /\ rules \in Seq(Rules)
           /\ \A j \in DOMAIN rules : rules[j] \in Rules /\ rdata[rules[j]] # NULL
           /\ \A j, k \in DOMAIN rules : rules[j] = rules[k] => j = k
           /\ \A v \in Writers : RuleMade[v] # NULL =>
                  /\ RuleMade[v] \in Rules /\ rdata[RuleMade[v]] # NULL
                  /\ RuleMade[v] \notin ToSet(rules)
           /\ \A v, w \in Writers : RuleMade[v] = RuleMade[w] /\ RuleMade[v] # NULL => v = w
<1>1. rules \in Seq(Rules) /\ DOMAIN rdata = Rules
  BY DEF ObjectTypes
<1>2. MadeOnce(RuleMade, rdata) /\ ListedOnce(rules, RuleMade, rdata)
  BY DEF ListsSound
<1>. QED
  BY <1>1, <1>2 DEF MadeOnce, ListedOnce, ToSet

(* The same for rules.                                                     *)
RulesLess(w) ==
    /\ Within(rules', RuleId', rules, RuleId)
    /\ \A v \in Writers : v # w /\ RuleMade[v] # NULL =>
           RuleId'[RuleMade[v]] = RuleId[RuleMade[v]]

(* Only rtap_rule_add puts a rule into the list.                           *)
LEMMA RulesLessen ==
    ASSUME ForwardingAssumption, ObjectTypes, WriterTypes, AtWork, MadeKinds, ListsSound,
           NEW w \in Writers, Start(w) \/ WriterStep(w), ~ RuleAdd(w)
    PROVE  RulesLess(w)
<1>1. /\ rules \in Seq(Rules)
      /\ \A j \in DOMAIN rules : rules[j] \in Rules /\ rdata[rules[j]] # NULL
      /\ \A j, k \in DOMAIN rules : rules[j] = rules[k] => j = k
      /\ \A v \in Writers : RuleMade[v] # NULL =>
             /\ RuleMade[v] \in Rules /\ rdata[RuleMade[v]] # NULL
             /\ RuleMade[v] \notin ToSet(rules)
      /\ \A v \in Writers : RuleMade[v] = RuleMade[w] /\ RuleMade[v] # NULL => v = w
  BY RulesListed
<1>2. DOMAIN rdata = Rules
  BY DEF ObjectTypes
<1>3. ASSUME UNCHANGED <<rules, rdata>> PROVE RulesLess(w)
  BY <1>1, <1>3 DEF RulesLess, Within, RuleId
<1>4. ASSUME NEW r \in Rules, NEW rec, rdata' = [rdata EXCEPT ![r] = rec], rules' = rules,
             r \notin ToSet(rules), \A v \in Writers : v # w => RuleMade[v] # r
      PROVE  RulesLess(w)
  <2>1. \A k \in Rules : k # r => RuleId'[k] = RuleId[k]
    BY <1>2, <1>4 DEF RuleId
  <2>2. \A j \in DOMAIN rules : rules[j] # r
    BY <1>4 DEF ToSet
  <2>. QED
    BY <1>1, <1>4, <2>1, <2>2 DEF RulesLess, Within
<1>5. CASE RuleCreate(w)
  <2>1. PICK r \in Rules :
            /\ rdata[r] = NULL
            /\ rdata' = [rdata EXCEPT ![r] =
                   [rid |-> wline[w].id, aid |-> wline[w].aid, l |-> NULL]]
    BY <1>5 DEF RuleCreate
  <2>2. rules' = rules
    BY <1>5 DEF RuleCreate
  <2>3. r \notin ToSet(rules) /\ \A v \in Writers : RuleMade[v] # r
    BY <1>1, <2>1, Records, ForwardingAssumption DEF ToSet, ForwardingAssumption
  <2>. QED
    BY <1>4, <2>1, <2>2, <2>3
<1>6. CASE RuleTarget(w)
  <2>1. wpc[w] = "target" /\ wobj[w] \in Rules /\ rules' = rules
    BY <1>6 DEF RuleTarget, MadeKinds, MadeOf
  <2>2. RuleMade[w] = wobj[w] /\ wobj[w] # NULL
    BY <2>1 DEF RuleMade, ForwardingAssumption
  <2>3. wobj[w] \notin ToSet(rules) /\ \A v \in Writers : v # w => RuleMade[v] # wobj[w]
    BY <1>1, <2>2
  <2>4. \E rec : rdata' = [rdata EXCEPT ![wobj[w]] = rec]
    BY <1>6 DEF RuleTarget, DestroyRefused
  <2>. QED
    BY <1>4, <2>1, <2>3, <2>4
<1>7. CASE RuleRemove(w)
  <2>1. CASE UNCHANGED <<rules, rdata>>
    BY <1>3, <2>1
  <2>2. CASE ~ UNCHANGED <<rules, rdata>>
    <3>. DEFINE x == wptr[w]
    <3>1. /\ rules' = Without(rules, x) /\ rdata' = [rdata EXCEPT ![x] = NULL]
          /\ x \in ToSet(rules)
      BY <1>7, <2>2 DEF RuleRemove
    <3>2. \A n \in DOMAIN rules' :
              \E m \in DOMAIN rules : rules[m] # x /\ rules'[n] = rules[m]
      BY <1>1, <3>1, WithoutMembers
    <3>3. \A k \in Rules : k # x => RuleId'[k] = RuleId[k]
      BY <1>2, <3>1 DEF RuleId
    <3>4. \A v \in Writers : RuleMade[v] # NULL => RuleMade[v] # x
      BY <1>1, <3>1
    <3>. HIDE DEF x
    <3>. QED
      BY <1>1, <3>2, <3>3, <3>4 DEF RulesLess, Within
  <2>. QED
    BY <2>1, <2>2
<1>8. CASE RuleClear(w)
  <2>1. rules' = <<>> /\ rdata' = Clear(rdata, ToSet(rules))
    BY <1>8 DEF RuleClear
  <2>2. \A k \in Rules : k \notin ToSet(rules) => RuleId'[k] = RuleId[k]
    BY <1>2, <2>1 DEF RuleId, Clear
  <2>3. DOMAIN rules' = {}
    BY <2>1
  <2>. QED
    BY <1>1, <2>2, <2>3 DEF RulesLess, Within
<1>9. CASE ~ (RuleCreate(w) \/ RuleTarget(w) \/ RuleRemove(w) \/ RuleClear(w))
  <2>1. UNCHANGED <<rules, rdata>>
    BY <1>9 DEF Start, WriterStep, ListenerCreate, ListenerSet, ListenerFind, ListenerRemove,
       ListenerAdd, ListenerClear, ListenerShow, RuleFind, RuleShow, NothingCreated,
       NoFilterCreated, NoChainCreated, FilterCreate, ChainFind, ChainAdd, FilterSet,
       FilterAdd, ChainRemove, ChainClear, FilterShow, objVars
  <2>. QED
    BY <1>3, <2>1
<1>. QED
  BY <1>5, <1>6, <1>7, <1>8, <1>9

(* rtap_rule_findbyid finds the one rule of an identifier, or there is     *)
(* none.                                                                   *)
LEMMA RuleIdFound ==
    ASSUME ForwardingAssumption, ObjectTypes, ListsSound, Unique(rules, RuleId), NEW id
    PROVE  /\ RuleWithId(id) = NULL => NoneHas(rules, RuleId, id)
           /\ RuleWithId(id) # NULL => OnlyHas(rules, RuleId, id, RuleWithId(id))
<1>. DEFINE fits == {r \in ToSet(rules) : rdata[r].rid = id}
            x == RuleWithId(id)
<1>1. /\ rules \in Seq(Rules) /\ NULL \notin Rules
      /\ \A j \in DOMAIN rules : /\ rules[j] \in Rules /\ rules[j] \in ToSet(rules)
                                 /\ RuleId[rules[j]] = rdata[rules[j]].rid
  BY RulesListed DEF RuleId, ToSet, ForwardingAssumption
<1>2. (fits = {} => x = NULL) /\ (fits # {} => x \in fits)
  <2>1. fits \subseteq ToSet(rules) /\ x = FirstOf(rules, fits)
    BY DEF RuleWithId
  <2>. HIDE DEF fits, x
  <2>. QED
    BY <1>1, <2>1, SearchFinds
<1>3. ASSUME fits = {} PROVE NoneHas(rules, RuleId, id)
  BY <1>1, <1>3 DEF NoneHas
<1>4. ASSUME x \in fits PROVE x # NULL /\ OnlyHas(rules, RuleId, id, x)
  <2>1. PICK k \in DOMAIN rules : x = rules[k]
    BY <1>4 DEF ToSet
  <2>2. RuleId[rules[k]] = id
    BY <1>1, <1>4, <2>1
  <2>. QED
    BY <1>1, <2>1, <2>2 DEF Unique, OnlyHas
<1>. QED
  BY <1>2, <1>3, <1>4

(* While a process replaces a rule, the steps of others keep what it has   *)
(* found.                                                                  *)
LEMMA RuleIdOther ==
    ASSUME ForwardingAssumption, ObjectTypes, WriterTypes, AtWork, MadeKinds, ListsSound,
           ListsSound', RuleIdsInv, OneWriter({"rcreate"}),
           NEW w \in Writers, Start(w) \/ WriterStep(w), NEW v \in Writers, v # w
    PROVE  RuleIdOK(v)'
<1>1. wpc'[v] = wpc[v] /\ wline'[v] = wline[v] /\ wobj'[v] = wobj[v] /\ wptr'[v] = wptr[v]
  BY WriterFrame DEF WriterTypes
<1>2. RuleIdOK(v) /\ WorkOf(v) /\ WorkOf(w) /\ MadeOf(v) /\ NULL \notin Rules
  BY DEF RuleIdsInv, AtWork, MadeKinds, ForwardingAssumption
<1>3. CASE wpc[v] \notin {"target", "rfind", "rremove", "radd"}
  BY <1>1, <1>3 DEF RuleIdOK
<1>4. CASE wpc[v] \in {"target", "rfind", "rremove", "radd"}
  <2>1. HasLine(v, {"rcreate"}) /\ RuleMade[v] = wobj[v] /\ wobj[v] # NULL
    BY <1>2, <1>4 DEF WorkOf, MadeOf, HasLine, RuleMade
  <2>2. ASSUME RuleAdd(w) PROVE FALSE
    <3>1. wpc[w] = "radd"
      BY <2>2 DEF RuleAdd
    <3>2. HasLine(w, {"rcreate"})
      BY <1>2, <3>1 DEF WorkOf, HasLine
    <3>. QED
      BY <2>1, <3>2 DEF OneWriter
  <2>3. RulesLess(w)
    BY <2>2, RulesLessen
  <2>4. RuleId'[wobj[v]] = RuleId[wobj[v]]
    BY <2>1, <2>3 DEF RulesLess
  <2>5. \A j, k \in DOMAIN rules' : rules'[j] = rules'[k] => j = k
    BY DEF ListsSound, ListedOnce
  <2>6. /\ \A x : NoneHas(rules, RuleId, x) => NoneHas(rules', RuleId', x)
        /\ \A x, y : OnlyHas(rules, RuleId, x, y) => OnlyHas(rules', RuleId', x, y)
    BY <2>3, <2>5, WithinKeeps DEF RulesLess
  <2>. QED
    BY <1>1, <1>2, <1>4, <2>4, <2>6 DEF RuleIdOK
<1>. QED
  BY <1>3, <1>4

(* What a process knows of the identifier at each step of rtap_rule_add.   *)
LEMMA RuleIdOwn ==
    ASSUME ForwardingAssumption, ScriptAssumption, ObjectTypes, WriterTypes, AtWork, MadeKinds,
           ListsSound, ListsSound', RuleIdsInv, NEW w \in Writers, Start(w) \/ WriterStep(w)
    PROVE  RuleIdOK(w)'
<1>1. w \in DOMAIN wpc /\ w \in DOMAIN wline /\ w \in DOMAIN wobj /\ w \in DOMAIN wptr
      /\ DOMAIN rdata = Rules
  BY DEF WriterTypes, ObjectTypes
<1>2. \A pc : Goto(w, pc) => wpc'[w] = pc
  BY <1>1 DEF Goto
<1>3. Finish(w) => wpc'[w] = "idle"
  BY <1>1 DEF Finish, Goto
<1>4. RuleIdOK(w) /\ MadeOf(w) /\ NULL \notin Rules /\ Unique(rules, RuleId)
  BY DEF RuleIdsInv, MadeKinds, ForwardingAssumption
<1>5. ASSUME wpc'[w] \notin {"target", "rfind", "rremove", "radd"} PROVE RuleIdOK(w)'
  BY <1>5 DEF RuleIdOK
<1>6. CASE wpc[w] \notin {"rcreate", "target", "rfind", "rremove", "radd", "rclear"}
  BY <1>5, <1>6, Elsewhere DEF RulesAlone
<1>7. CASE RuleCreate(w)
  <2>1. PICK r \in Rules :
            /\ rdata' = [rdata EXCEPT ![r] =
                   [rid |-> wline[w].id, aid |-> wline[w].aid, l |-> NULL]]
            /\ wobj' = [wobj EXCEPT ![w] = r]
    BY <1>7 DEF RuleCreate
  <2>2. wpc'[w] = "target" /\ wobj'[w] = r /\ wline' = wline
    BY <1>1, <1>2, <1>7, <2>1 DEF RuleCreate
  <2>3. rdata'[r].rid = wline[w].id
    BY <1>1, <2>1
  <2>. QED
    BY <2>2, <2>3 DEF RuleIdOK, RuleId
<1>8. CASE RuleTarget(w)
  <2>. DEFINE r == wobj[w]
  <2>1. wpc[w] = "target" /\ r \in Rules /\ RuleMade[w] = r
    BY <1>4, <1>8 DEF RuleTarget, MadeOf, RuleMade
  <2>2. rdata[r] \in RuleRecs
    BY <1>4, <2>1, RulesListed DEF ObjectTypes
  <2>3. CASE Finish(w)
    BY <1>3, <1>5, <2>3
  <2>4. CASE ~ Finish(w)
    <3>1. /\ wpc'[w] = "rfind" /\ UNCHANGED <<wline, wobj>>
          /\ \E l : rdata' = [rdata EXCEPT ![r].l = l]
      BY <1>2, <1>8, <2>4 DEF RuleTarget
    <3>2. PICK l : rdata' = [rdata EXCEPT ![r].l = l]
      BY <3>1
    <3>3. rdata'[r].rid = rdata[r].rid
      BY <1>1, <2>1, <2>2, <3>2 DEF RuleRecs
    <3>. QED
      BY <1>4, <2>1, <3>1, <3>3 DEF RuleIdOK, RuleId
  <2>. QED
    BY <2>3, <2>4
<1>9. CASE RuleFind(w)
  <2>. DEFINE r == RuleWithId(wline[w].id)
  <2>1. /\ UNCHANGED <<rules, rdata, wline, wobj>> /\ wpc[w] = "rfind"
        /\ \/ r = NULL /\ wpc'[w] = "radd"
           \/ r # NULL /\ wpc'[w] = "rremove" /\ wptr'[w] = r
    BY <1>1, <1>2, <1>9 DEF RuleFind, objVars
  <2>2. RuleId' = RuleId
    BY <2>1 DEF RuleId
  <2>3. /\ r = NULL => NoneHas(rules, RuleId, wline[w].id)
        /\ r # NULL => OnlyHas(rules, RuleId, wline[w].id, r)
    BY <1>4, RuleIdFound
  <2>. HIDE DEF r
  <2>. QED
    BY <1>4, <2>1, <2>2, <2>3 DEF RuleIdOK
<1>10. CASE RuleRemove(w)
  <2>1. wpc[w] = "rremove"
    BY <1>10 DEF RuleRemove
  <2>2. CASE wpc'[w] = "oops"
    BY <1>5, <2>2
  <2>3. CASE wpc'[w] # "oops"
    <3>. DEFINE x == wptr[w]
    <3>1. /\ rules' = Without(rules, x) /\ rdata' = [rdata EXCEPT ![x] = NULL]
          /\ wpc'[w] = "radd" /\ UNCHANGED <<wline, wobj>> /\ x \in ToSet(rules)
      BY <1>2, <1>10, <2>3 DEF RuleRemove
    <3>2. /\ rules \in Seq(Rules)
          /\ \A j \in DOMAIN rules : rules[j] \in Rules
          /\ \A j, k \in DOMAIN rules : rules[j] = rules[k] => j = k
          /\ RuleMade[w] # NULL => RuleMade[w] \in Rules /\ RuleMade[w] \notin ToSet(rules)
      BY RulesListed
    <3>3. \A n \in DOMAIN rules' :
              \E m \in DOMAIN rules : rules[m] # x /\ rules'[n] = rules[m]
      BY <3>1, <3>2, WithoutMembers
    <3>4. \A k \in Rules : k # x => RuleId'[k] = RuleId[k]
      BY <1>1, <3>1 DEF RuleId
    <3>5. OnlyHas(rules, RuleId, wline[w].id, x)
      BY <1>4, <2>1 DEF RuleIdOK
    <3>6. NoneHas(rules', RuleId', wline[w].id)
      BY <3>2, <3>3, <3>4, <3>5 DEF OnlyHas, NoneHas
    <3>7. wobj[w] \in Rules /\ wobj[w] # x
      BY <1>4, <2>1, <3>1, <3>2 DEF RuleMade, MadeOf
    <3>8. RuleId'[wobj[w]] = wline[w].id
      BY <1>4, <2>1, <3>4, <3>7 DEF RuleIdOK
    <3>. QED
      BY <3>1, <3>6, <3>8 DEF RuleIdOK
  <2>. QED
    BY <2>2, <2>3
<1>11. CASE RuleAdd(w) \/ RuleClear(w) \/ (NothingCreated(w) /\ wpc[w] = "rcreate")
  BY <1>3, <1>5, <1>11 DEF RuleAdd, RuleClear, NothingCreated
<1>12. wpc[w] \in {"rcreate", "target", "rfind", "rremove", "radd", "rclear"}
       => \/ RuleCreate(w) \/ RuleTarget(w) \/ RuleFind(w) \/ RuleRemove(w)
          \/ RuleAdd(w) \/ RuleClear(w)
          \/ (NothingCreated(w) /\ wpc[w] = "rcreate")
  BY DEF Start, WriterStep, ListenerCreate, ListenerSet, ListenerFind, ListenerRemove,
     ListenerAdd, ListenerClear, ListenerShow, RuleShow, NoFilterCreated, NothingCreated,
     NoChainCreated, FilterCreate, ChainFind, ChainAdd, FilterSet, FilterAdd, ChainRemove,
     ChainClear, FilterShow
<1>. QED
  BY <1>6, <1>7, <1>8, <1>9, <1>10, <1>11, <1>12

(* The list has one rule of an identifier.                                 *)
LEMMA RuleIdsKept ==
    ASSUME ForwardingAssumption, ObjectTypes, WriterTypes, AtWork, MadeKinds, ListsSound,
           ListsSound', RuleIdsInv, NEW w \in Writers, Start(w) \/ WriterStep(w)
    PROVE  Unique(rules', RuleId')
<1>1. \A j, k \in DOMAIN rules' : rules'[j] = rules'[k] => j = k
  BY DEF ListsSound, ListedOnce
<1>2. CASE RuleAdd(w)
  <2>1. /\ wpc[w] = "radd" /\ rules' = Append(rules, wobj[w]) /\ rdata' = rdata
        /\ wobj[w] \in Rules
    BY <1>2 DEF RuleAdd, MadeKinds, MadeOf
  <2>2. RuleId' = RuleId
    BY <2>1 DEF RuleId
  <2>3. NoneHas(rules, RuleId, RuleId[wobj[w]])
    BY <2>1 DEF RuleIdsInv, RuleIdOK
  <2>4. rules \in Seq(Rules) /\ Unique(rules, RuleId)
    BY DEF ObjectTypes, RuleIdsInv
  <2>. QED
    BY <2>1, <2>2, <2>3, <2>4, AppendUnique
<1>3. CASE ~ RuleAdd(w)
  <2>1. Within(rules', RuleId', rules, RuleId)
    BY <1>3, RulesLessen DEF RulesLess
  <2>. QED
    BY <1>1, <2>1, WithinKeeps DEF RuleIdsInv
<1>. QED
  BY <1>2, <1>3

(* RuleIdsInv is inductive.                                                *)
LEMMA RuleIdsNext ==
    ForwardingAssumption /\ ScriptAssumption /\ FwdInv /\ FwdInv'
        /\ OneWriter({"rcreate"}) /\ RuleIdsInv /\ [Next]_vars => RuleIdsInv'
<1>. SUFFICES ASSUME ForwardingAssumption, ScriptAssumption, FwdInv, FwdInv',
                     OneWriter({"rcreate"}), RuleIdsInv, [Next]_vars
              PROVE  RuleIdsInv'
  OBVIOUS
<1>1. /\ ObjectTypes /\ WriterTypes /\ AtWork /\ MadeKinds /\ ListsSound /\ ListsSound'
  BY DEF FwdInv, TypeOK
<1>2. ASSUME UNCHANGED <<rules, rdata, wrVars>> PROVE RuleIdsInv'
  <2>1. RuleId' = RuleId
    BY <1>2 DEF RuleId
  <2>2. ASSUME NEW w \in Writers PROVE RuleIdOK(w)'
    BY <1>2, <2>1 DEF RuleIdsInv, RuleIdOK, wrVars
  <2>. QED
    BY <1>2, <2>1, <2>2 DEF RuleIdsInv
<1>3. ASSUME NEW w \in Writers, Start(w) \/ WriterStep(w) PROVE RuleIdsInv'
  <2>1. RuleIdOK(w)'
    BY <1>1, <1>3, RuleIdOwn
  <2>2. \A v \in Writers : v # w => RuleIdOK(v)'
    BY <1>1, <1>3, RuleIdOther
  <2>3. Unique(rules', RuleId')
    BY <1>1, <1>3, RuleIdsKept
  <2>. QED
    BY <2>1, <2>2, <2>3 DEF RuleIdsInv
<1>4. ASSUME NEW t \in Threads, ThreadNext(t) PROVE UNCHANGED <<rules, rdata, wrVars>>
  BY <1>4 DEF ThreadNext, Receive, Walk, Visit, Invoke, Send, objVars
<1>. QED
  BY <1>2, <1>3, <1>4 DEF Next, vars, objVars

(* The same of the identifiers of rules.                                   *)
LEMMA RuleIdsOnce ==
    ASSUME OneWrites(Script, {"rcreate"})
    PROVE  Spec => []RuleIdsUnique
<1>. USE ForwardingAssumption, ScriptAssumption
<1>1. Init => RuleIdsInv
  BY DEF Init, RuleIdsInv, RuleIdOK, Unique
<1>2. FwdInv /\ FwdInv' /\ OneWriter({"rcreate"}) /\ RuleIdsInv /\ [Next]_vars => RuleIdsInv'
  BY RuleIdsNext
<1>3. FwdInv /\ RuleIdsInv => RuleIdsUnique
  BY RulesListed DEF FwdInv, TypeOK, RuleIdsInv, Unique, RuleId, RuleIdsUnique
<1>4. Init => OneWriter({"rcreate"})
  BY OneWriterInit
<1>5. FwdInv /\ OneWriter({"rcreate"}) /\ [Next]_vars => OneWriter({"rcreate"})'
  BY OneWriterNext DEF FwdInv, TypeOK
<1>. QED
  BY <1>1, <1>2, <1>3, <1>4, <1>5, FwdInvariant, PTL DEF Spec

----------------------------------------------------------------------------
(* Nothing is lost but filters *)

(* Without takes nothing else out of a list.                               *)
LEMMA WithoutKeeps ==
    ASSUME NEW S, NEW list \in Seq(S), NEW x, NEW y \in ToSet(list), y # x
    PROVE  y \in ToSet(Without(list, x))
<1>1. CASE x \notin ToSet(list)
  BY <1>1 DEF Without
<1>2. CASE x \in ToSet(list)
  <2>. DEFINE j == CHOOSE i \in DOMAIN list : list[i] = x
  <2>1. j \in 1 .. Len(list) /\ list[j] = x
    BY <1>2 DEF ToSet
  <2>2. Without(list, x) = RemoveAt(list, j)
    BY <1>2 DEF Without
  <2>. HIDE DEF j
  <2>. DEFINE r == RemoveAt(list, j)
  <2>3. r \in Seq(S)
    BY <2>1, RemoveAtProperties
  <2>4. \A m \in 1 .. Len(list) : m # j => \E n \in 1 .. Len(r) : r[n] = list[m]
    BY <2>1, RemoveAtMembers
  <2>. HIDE DEF r
  <2>5. PICK m \in 1 .. Len(list) : list[m] = y
    BY DEF ToSet
  <2>6. PICK n \in 1 .. Len(r) : r[n] = y
    BY <2>1, <2>4, <2>5
  <2>7. n \in DOMAIN r
    BY <2>3, <2>6
  <2>. QED
    BY <2>2, <2>6, <2>7 DEF ToSet, r
<1>. QED
  BY <1>1, <1>2

(* A process that returns from proc_write has let go of what it made.      *)
LEMMA HandsEmptied ==
    ASSUME ForwardingAssumption, ScriptAssumption, WriterTypes, AtWork, MadeKinds, EmptyHands,
           NEW w \in Writers, Start(w) \/ WriterStep(w)
    PROVE  EmptyHands'
<1>1. w \in DOMAIN wpc /\ w \in DOMAIN wobj
  BY DEF WriterTypes
<1>2. \A pc : Goto(w, pc) => wpc'[w] = pc
  BY <1>1 DEF Goto
<1>3. Finish(w) => wpc'[w] = "idle" /\ wobj'[w] = NULL
  BY <1>1 DEF Finish, Goto
<1>4. \A v \in Writers : v # w => wpc'[v] = wpc[v] /\ wobj'[v] = wobj[v]
  BY WriterFrame DEF WriterTypes
<1>. DEFINE Empty == {"idle", "lcreate", "lclear", "lshow", "rcreate", "rclear", "rshow",
                      "fcreate", "cremove", "cclear", "fshow"}
<1>5. CASE Start(w)
  <2>1. wobj' = wobj /\ wpc[w] = "idle"
    BY <1>5 DEF Start
  <2>. QED
    BY <1>4, <2>1 DEF EmptyHands
<1>6. CASE WriterStep(w)
  <2>1. wpc'[w] \notin Empty \/ Finish(w)
    BY <1>2, <1>6 DEF WriterStep, ListenerCreate, ListenerSet, ListenerFind, ListenerRemove,
       ListenerAdd, ListenerClear, ListenerShow, RuleCreate, RuleTarget, RuleFind,
       RuleRemove, RuleAdd, RuleClear, RuleShow, NothingCreated, NoFilterCreated,
       NoChainCreated, FilterCreate, ChainFind, ChainAdd, FilterSet, FilterAdd,
       ChainRemove, ChainClear, FilterShow
  <2>. QED
    BY <1>3, <1>4, <2>1 DEF EmptyHands
<1>. QED
  BY <1>5, <1>6

(* No step loses a listener.                                               *)
LEMMA ListenerHeld ==
    ASSUME ForwardingAssumption, ScriptAssumption, ObjectTypes, WriterTypes, AtWork, MadeKinds,
           ListsSound, EmptyHands, ListenersKept, NEW w \in Writers, Start(w) \/ WriterStep(w)
    PROVE  ListenersKept'
<1>1. /\ w \in DOMAIN wpc /\ w \in DOMAIN wobj /\ DOMAIN ldata = Listeners
      /\ listeners \in Seq(Listeners)
  BY DEF WriterTypes, ObjectTypes
<1>2. \A pc : Goto(w, pc) => wpc'[w] = pc
  BY <1>1 DEF Goto
<1>3. MadeOf(w) /\ NULL \notin Listeners
  BY DEF MadeKinds, ForwardingAssumption
<1>4. \A v \in Writers : v # w => wpc'[v] = wpc[v] /\ wobj'[v] = wobj[v]
  BY WriterFrame DEF WriterTypes
<1>5. SUFFICES ASSUME NEW l \in Listeners, ldata'[l] # NULL
               PROVE  \/ l \in ToSet(listeners')
                      \/ \E v \in Writers : wobj'[v] = l /\ wpc'[v] \in AtListener
  BY DEF ListenersKept
<1>. DEFINE Goal == \/ l \in ToSet(listeners')
                    \/ \E v \in Writers : wobj'[v] = l /\ wpc'[v] \in AtListener
            OtherHolds == \E v \in Writers : v # w /\ wobj[v] = l /\ wpc[v] \in AtListener
            Holds == wobj[w] = l /\ wpc[w] \in AtListener
<1>6. ASSUME ldata[l] # NULL
      PROVE  l \in ToSet(listeners) \/ OtherHolds \/ Holds
  BY <1>6 DEF ListenersKept
<1>7. OtherHolds => Goal
  BY <1>4
<1>8. ASSUME ldata[l] # NULL, l \in ToSet(listeners) => Goal, Holds => Goal PROVE Goal
  BY <1>6, <1>7, <1>8
<1>9. ASSUME wobj'[w] = l, wpc'[w] \in AtListener PROVE Goal
  BY <1>9
<1>10. CASE Start(w)
  <2>1. UNCHANGED <<listeners, ldata>> /\ wpc[w] = "idle"
    BY <1>10 DEF Start, objVars
  <2>. QED
    BY <1>5, <1>8, <2>1 DEF AtListener
<1>11. CASE ListenerCreate(w)
  <2>1. PICK k \in Listeners : /\ wobj' = [wobj EXCEPT ![w] = k]
                               /\ \E rec : ldata' = [ldata EXCEPT ![k] = rec]
    BY <1>11 DEF ListenerCreate
  <2>2. wpc[w] = "lcreate" /\ wpc'[w] = "lset" /\ wobj'[w] = k /\ listeners' = listeners
    BY <1>1, <1>2, <1>11, <2>1 DEF ListenerCreate
  <2>3. CASE l = k
    BY <1>9, <2>2, <2>3 DEF AtListener
  <2>4. CASE l # k
    <3>1. ldata'[l] = ldata[l]
      BY <1>1, <2>1, <2>4
    <3>. QED
      BY <1>5, <1>8, <2>2, <3>1 DEF AtListener
  <2>. QED
    BY <2>3, <2>4
<1>12. CASE ListenerFind(w)
  <2>1. /\ UNCHANGED <<listeners, ldata>>
        /\ wobj[w] # NULL => wobj' = wobj /\ wpc'[w] \in {"lremove", "ladd"}
    BY <1>2, <1>12 DEF ListenerFind, objVars
  <2>2. Holds => Goal
    BY <1>3, <1>9, <2>1 DEF AtListener
  <2>. QED
    BY <1>5, <1>8, <2>1, <2>2
<1>13. CASE ListenerRemove(w)
  <2>1. CASE UNCHANGED <<listeners, ldata, wobj>> /\ wpc'[w] = "oops"
    BY <1>5, <1>8, <1>9, <2>1 DEF AtListener
  <2>2. CASE ~ (UNCHANGED <<listeners, ldata, wobj>> /\ wpc'[w] = "oops")
    <3>. DEFINE x == wptr[w]
    <3>1. /\ listeners' = Without(listeners, x) /\ ldata' = [ldata EXCEPT ![x] = NULL]
          /\ wobj[w] # NULL => wobj' = wobj /\ wpc'[w] = "ladd"
      BY <1>2, <1>13, <2>2 DEF ListenerRemove
    <3>2. l # x /\ ldata'[l] = ldata[l]
      BY <1>1, <1>5, <3>1
    <3>3. l \in ToSet(listeners) => l \in ToSet(listeners')
      BY <1>1, <3>1, <3>2, WithoutKeeps
    <3>4. Holds => Goal
      BY <1>3, <1>9, <3>1 DEF AtListener
    <3>. QED
      BY <1>5, <1>8, <3>2, <3>3, <3>4
  <2>. QED
    BY <2>1, <2>2
<1>14. CASE ListenerAdd(w)
  <2>1. /\ wpc[w] = "ladd" /\ wobj[w] \in Listeners /\ UNCHANGED ldata
        /\ listeners' = Append(listeners, wobj[w])
    BY <1>3, <1>14 DEF ListenerAdd, MadeOf
  <2>2. ToSet(listeners') = ToSet(listeners) \cup {wobj[w]}
    BY <1>1, <2>1, AppendMembers
  <2>. QED
    BY <1>5, <1>8, <2>1, <2>2
<1>15. CASE ListenerClear(w)
  <2>1. ldata' = Clear(ldata, ToSet(listeners)) /\ wpc[w] = "lclear"
    BY <1>15 DEF ListenerClear
  <2>2. l \notin ToSet(listeners) /\ ldata'[l] = ldata[l]
    BY <1>1, <1>5, <2>1 DEF Clear
  <2>. QED
    BY <1>5, <1>8, <2>1, <2>2 DEF AtListener
<1>16. CASE ListenerSet(w)
  <2>1. /\ wpc[w] = "lset" /\ wobj[w] \in Listeners /\ listeners' = listeners
        /\ \/ ldata' = [ldata EXCEPT ![wobj[w]] = NULL]
           \/ UNCHANGED <<ldata, wobj>> /\ wpc'[w] = "lfind"
    BY <1>2, <1>3, <1>16 DEF ListenerSet, DestroyListener, MadeOf
  <2>2. CASE UNCHANGED <<ldata, wobj>> /\ wpc'[w] = "lfind"
    BY <1>5, <1>8, <1>9, <2>1, <2>2 DEF AtListener
  <2>3. CASE ldata' = [ldata EXCEPT ![wobj[w]] = NULL]
    <3>1. l # wobj[w] /\ ldata'[l] = ldata[l]
      BY <1>1, <1>5, <2>3
    <3>. QED
      BY <1>5, <1>8, <2>1, <3>1
  <2>. QED
    BY <2>1, <2>2, <2>3
<1>17. ASSUME WriterStep(w),
              ~ (\/ ListenerCreate(w) \/ ListenerSet(w) \/ ListenerFind(w)
                 \/ ListenerRemove(w) \/ ListenerAdd(w) \/ ListenerClear(w))
       PROVE  Goal
  <2>1. UNCHANGED <<listeners, ldata>> /\ wpc[w] \notin AtListener
    BY <1>17 DEF WriterStep, ListenerShow, RuleCreate, RuleTarget, RuleFind,
       RuleRemove, RuleAdd, RuleClear, RuleShow, NothingCreated, NoFilterCreated,
       NoChainCreated, FilterCreate, ChainFind, ChainAdd, FilterSet, FilterAdd,
       ChainRemove, ChainClear, FilterShow, objVars, AtListener
  <2>. QED
    BY <1>5, <1>8, <2>1
<1>. QED
  BY <1>10, <1>11, <1>12, <1>13, <1>14, <1>15, <1>16, <1>17

(* No step loses a rule.                                                   *)
LEMMA RuleHeld ==
    ASSUME ForwardingAssumption, ScriptAssumption, ObjectTypes, WriterTypes, AtWork, MadeKinds,
           ListsSound, EmptyHands, RulesKept, NEW w \in Writers, Start(w) \/ WriterStep(w)
    PROVE  RulesKept'
<1>1. /\ w \in DOMAIN wpc /\ w \in DOMAIN wobj /\ DOMAIN rdata = Rules
      /\ rules \in Seq(Rules)
  BY DEF WriterTypes, ObjectTypes
<1>2. \A pc : Goto(w, pc) => wpc'[w] = pc
  BY <1>1 DEF Goto
<1>3. MadeOf(w) /\ NULL \notin Rules
  BY DEF MadeKinds, ForwardingAssumption
<1>4. \A v \in Writers : v # w => wpc'[v] = wpc[v] /\ wobj'[v] = wobj[v]
  BY WriterFrame DEF WriterTypes
<1>5. SUFFICES ASSUME NEW r \in Rules, rdata'[r] # NULL
               PROVE  \/ r \in ToSet(rules')
                      \/ \E v \in Writers : wobj'[v] = r /\ wpc'[v] \in AtRule
  BY DEF RulesKept
<1>. DEFINE Goal == \/ r \in ToSet(rules')
                    \/ \E v \in Writers : wobj'[v] = r /\ wpc'[v] \in AtRule
            OtherHolds == \E v \in Writers : v # w /\ wobj[v] = r /\ wpc[v] \in AtRule
            Holds == wobj[w] = r /\ wpc[w] \in AtRule
<1>6. ASSUME rdata[r] # NULL
      PROVE  r \in ToSet(rules) \/ OtherHolds \/ Holds
  BY <1>6 DEF RulesKept
<1>7. OtherHolds => Goal
  BY <1>4
<1>8. ASSUME rdata[r] # NULL, r \in ToSet(rules) => Goal, Holds => Goal PROVE Goal
  BY <1>6, <1>7, <1>8
<1>9. ASSUME wobj'[w] = r, wpc'[w] \in AtRule PROVE Goal
  BY <1>9
<1>10. CASE Start(w)
  <2>1. UNCHANGED <<rules, rdata>> /\ wpc[w] = "idle"
    BY <1>10 DEF Start, objVars
  <2>. QED
    BY <1>5, <1>8, <2>1 DEF AtRule
<1>11. CASE RuleCreate(w)
  <2>1. PICK k \in Rules : /\ wobj' = [wobj EXCEPT ![w] = k]
                           /\ \E rec : rdata' = [rdata EXCEPT ![k] = rec]
    BY <1>11 DEF RuleCreate
  <2>2. wpc[w] = "rcreate" /\ wpc'[w] = "target" /\ wobj'[w] = k /\ rules' = rules
    BY <1>1, <1>2, <1>11, <2>1 DEF RuleCreate
  <2>3. CASE r = k
    BY <1>9, <2>2, <2>3 DEF AtRule
  <2>4. CASE r # k
    <3>1. rdata'[r] = rdata[r]
      BY <1>1, <2>1, <2>4
    <3>. QED
      BY <1>5, <1>8, <2>2, <3>1 DEF AtRule
  <2>. QED
    BY <2>3, <2>4
<1>12. CASE RuleTarget(w)
  <2>1. rules' = rules /\ wobj[w] \in Rules /\ wpc[w] = "target"
    BY <1>3, <1>12 DEF RuleTarget, MadeOf
  <2>2. \/ rdata' = [rdata EXCEPT ![wobj[w]] = NULL]
        \/ /\ \E k : rdata' = [rdata EXCEPT ![wobj[w]].l = k]
           /\ wpc'[w] = "rfind" /\ wobj' = wobj
    BY <1>2, <1>12 DEF RuleTarget, DestroyRefused
  <2>3. CASE r # wobj[w]
    <3>1. rdata'[r] = rdata[r]
      BY <1>1, <2>1, <2>2, <2>3
    <3>. QED
      BY <1>5, <1>8, <2>1, <2>3, <3>1
  <2>4. CASE r = wobj[w]
    <3>1. wpc'[w] = "rfind" /\ wobj' = wobj
      BY <1>1, <1>5, <2>1, <2>2, <2>4
    <3>. QED
      BY <1>9, <2>4, <3>1 DEF AtRule
  <2>. QED
    BY <2>3, <2>4
<1>13. CASE RuleFind(w)
  <2>1. UNCHANGED <<rules, rdata, wobj>> /\ wpc'[w] \in {"rremove", "radd"}
    BY <1>2, <1>13 DEF RuleFind, objVars
  <2>. QED
    BY <1>5, <1>8, <1>9, <2>1 DEF AtRule
<1>14. CASE RuleRemove(w)
  <2>1. CASE UNCHANGED <<rules, rdata, wobj>> /\ wpc'[w] = "oops"
    BY <1>5, <1>8, <1>9, <2>1 DEF AtRule
  <2>2. CASE ~ (UNCHANGED <<rules, rdata, wobj>> /\ wpc'[w] = "oops")
    <3>. DEFINE x == wptr[w]
    <3>1. /\ rules' = Without(rules, x) /\ rdata' = [rdata EXCEPT ![x] = NULL]
          /\ wobj' = wobj /\ wpc'[w] = "radd"
      BY <1>2, <1>14, <2>2 DEF RuleRemove
    <3>2. r # x /\ rdata'[r] = rdata[r]
      BY <1>1, <1>5, <3>1
    <3>3. r \in ToSet(rules) => r \in ToSet(rules')
      BY <1>1, <3>1, <3>2, WithoutKeeps
    <3>. QED
      BY <1>5, <1>8, <1>9, <3>1, <3>2, <3>3 DEF AtRule
  <2>. QED
    BY <2>1, <2>2
<1>15. CASE RuleAdd(w)
  <2>1. /\ wpc[w] = "radd" /\ wobj[w] \in Rules /\ UNCHANGED rdata
        /\ rules' = Append(rules, wobj[w])
    BY <1>3, <1>15 DEF RuleAdd, MadeOf
  <2>2. ToSet(rules') = ToSet(rules) \cup {wobj[w]}
    BY <1>1, <2>1, AppendMembers
  <2>. QED
    BY <1>5, <1>8, <2>1, <2>2
<1>16. CASE RuleClear(w)
  <2>1. rdata' = Clear(rdata, ToSet(rules)) /\ wpc[w] = "rclear"
    BY <1>16 DEF RuleClear
  <2>2. r \notin ToSet(rules) /\ rdata'[r] = rdata[r]
    BY <1>1, <1>5, <2>1 DEF Clear
  <2>. QED
    BY <1>5, <1>8, <2>1, <2>2 DEF AtRule
<1>17. ASSUME WriterStep(w), ~ (\/ RuleCreate(w) \/ RuleTarget(w) \/ RuleFind(w)
                                \/ RuleRemove(w) \/ RuleAdd(w) \/ RuleClear(w))
       PROVE  Goal
  <2>1. UNCHANGED <<rules, rdata>> /\ wpc[w] \notin AtRule
    BY <1>17 DEF WriterStep, ListenerCreate, ListenerSet, ListenerFind, ListenerRemove,
       ListenerAdd, ListenerClear, ListenerShow, RuleShow, NothingCreated, NoFilterCreated,
       NoChainCreated, FilterCreate, ChainFind, ChainAdd, FilterSet, FilterAdd,
       ChainRemove, ChainClear, FilterShow, objVars, AtRule
  <2>. QED
    BY <1>5, <1>8, <2>1
<1>. QED
  BY <1>10, <1>11, <1>12, <1>13, <1>14, <1>15, <1>16, <1>17

(* No step loses a chain.                                                  *)
LEMMA ChainHeld ==
    ASSUME ForwardingAssumption, ScriptAssumption, ObjectTypes, WriterTypes, AtWork, MadeKinds,
           ListsSound, ChainsKept, NEW w \in Writers, Start(w) \/ WriterStep(w)
    PROVE  ChainsKept'
<1>1. /\ w \in DOMAIN wpc /\ w \in DOMAIN wptr /\ DOMAIN cdata = Chains
      /\ chains \in Seq(Chains)
  BY DEF WriterTypes, ObjectTypes
<1>2. \A pc : Goto(w, pc) => wpc'[w] = pc
  BY <1>1 DEF Goto
<1>3. MadeOf(w) /\ NULL \notin Chains
  BY DEF MadeKinds, ForwardingAssumption
<1>4. \A v \in Writers : v # w => wpc'[v] = wpc[v] /\ wptr'[v] = wptr[v]
  BY WriterFrame DEF WriterTypes
<1>5. SUFFICES ASSUME NEW c \in Chains, cdata'[c] # NULL
               PROVE  \/ c \in ToSet(chains')
                      \/ \E v \in Writers : wptr'[v] = c /\ wpc'[v] = "cadd"
  BY DEF ChainsKept
<1>. DEFINE Goal == \/ c \in ToSet(chains')
                    \/ \E v \in Writers : wptr'[v] = c /\ wpc'[v] = "cadd"
            OtherHolds == \E v \in Writers : v # w /\ wptr[v] = c /\ wpc[v] = "cadd"
            Holds == wptr[w] = c /\ wpc[w] = "cadd"
<1>6. ASSUME cdata[c] # NULL
      PROVE  c \in ToSet(chains) \/ OtherHolds \/ Holds
  BY <1>6 DEF ChainsKept
<1>7. OtherHolds => Goal
  BY <1>4
<1>8. ASSUME cdata[c] # NULL, c \in ToSet(chains) => Goal, Holds => Goal PROVE Goal
  BY <1>6, <1>7, <1>8
<1>9. CASE ChainFind(w)
  <2>1. wpc[w] = "cfind" /\ chains' = chains
    BY <1>9 DEF ChainFind
  <2>2. CASE cdata' = cdata
    BY <1>5, <1>8, <2>1, <2>2
  <2>3. CASE cdata' # cdata
    <3>1. PICK new \in Chains : /\ \E rec : cdata' = [cdata EXCEPT ![new] = rec]
                                /\ wptr' = [wptr EXCEPT ![w] = new]
                                /\ wpc'[w] = "cadd"
      BY <1>2, <1>9, <2>3 DEF ChainFind
    <3>2. CASE c = new
      BY <1>1, <3>1, <3>2
    <3>3. CASE c # new
      <4>1. cdata'[c] = cdata[c]
        BY <1>1, <3>1, <3>3
      <4>. QED
        BY <1>5, <1>8, <2>1, <4>1
    <3>. QED
      BY <3>2, <3>3
  <2>. QED
    BY <2>2, <2>3
<1>10. CASE ChainAdd(w)
  <2>1. /\ wpc[w] = "cadd" /\ wptr[w] \in Chains /\ UNCHANGED cdata
        /\ chains' = Append(chains, wptr[w])
    BY <1>3, <1>10 DEF ChainAdd, MadeOf
  <2>2. ToSet(chains') = ToSet(chains) \cup {wptr[w]}
    BY <1>1, <2>1, AppendMembers
  <2>. QED
    BY <1>5, <1>8, <2>1, <2>2
<1>11. CASE FilterAdd(w)
  <2>1. chains' = chains /\ wpc[w] = "fadd"
    BY <1>11 DEF FilterAdd
  <2>2. cdata[c] # NULL
    <3>1. \/ cdata' = cdata
          \/ cdata[wptr[w]] # NULL /\ \E rec : cdata' = [cdata EXCEPT ![wptr[w]] = rec]
      BY <1>11 DEF FilterAdd
    <3>. QED
      BY <1>1, <1>5, <3>1
  <2>. QED
    BY <1>8, <2>1, <2>2
<1>12. CASE ChainRemove(w)
  <2>. DEFINE x == FirstOf(chains, ChainsNamed(wline[w].name))
  <2>1. /\ chains' = Without(chains, x) /\ cdata' = Clear(cdata, {x}) /\ wpc[w] = "cremove"
    BY <1>12 DEF ChainRemove
  <2>. HIDE DEF x
  <2>2. c # x /\ cdata'[c] = cdata[c]
    BY <1>1, <1>5, <2>1 DEF Clear
  <2>3. c \in ToSet(chains) => c \in ToSet(chains')
    BY <1>1, <2>1, <2>2, WithoutKeeps
  <2>. QED
    BY <1>5, <1>8, <2>1, <2>2, <2>3
<1>13. CASE ChainClear(w)
  <2>1. cdata' = Clear(cdata, ToSet(chains)) /\ wpc[w] = "cclear"
    BY <1>13 DEF ChainClear
  <2>2. c \notin ToSet(chains) /\ cdata'[c] = cdata[c]
    BY <1>1, <1>5, <2>1 DEF Clear
  <2>. QED
    BY <1>5, <1>8, <2>1, <2>2
<1>14. ASSUME ~ (\/ ChainFind(w) \/ ChainAdd(w) \/ FilterAdd(w)
                 \/ ChainRemove(w) \/ ChainClear(w))
       PROVE  Goal
  <2>1. UNCHANGED <<chains, cdata>> /\ wpc[w] # "cadd"
    BY <1>14 DEF Start, WriterStep, ListenerCreate, ListenerSet, ListenerFind, ListenerRemove,
       ListenerAdd, ListenerClear, ListenerShow, RuleCreate, RuleTarget, RuleFind, RuleRemove,
       RuleAdd, RuleClear, RuleShow, NothingCreated, NoFilterCreated, NoChainCreated,
       FilterCreate, FilterSet, FilterShow, objVars
  <2>. QED
    BY <1>5, <1>8, <2>1
<1>. QED
  BY <1>9, <1>10, <1>11, <1>12, <1>13, <1>14

(* A listener, rule or chain is listed or in the hands of a process.       *)
LEMMA ObjectsKeptNext ==
    ASSUME ForwardingAssumption, ScriptAssumption, FwdInv, ObjectsKept, [Next]_vars
    PROVE  ObjectsKept'
<1>1. ASSUME UNCHANGED <<listeners, rules, chains, ldata, rdata, cdata, wrVars>>
      PROVE  ObjectsKept'
  BY <1>1 DEF wrVars, ObjectsKept, EmptyHands, ListenersKept, RulesKept, ChainsKept
<1>2. ASSUME NEW w \in Writers, Start(w) \/ WriterStep(w) PROVE ObjectsKept'
  BY <1>2, HandsEmptied, ListenerHeld, RuleHeld, ChainHeld DEF ObjectsKept, FwdInv, TypeOK
<1>3. ASSUME NEW t \in Threads, ThreadNext(t)
      PROVE  UNCHANGED <<listeners, rules, chains, ldata, rdata, cdata, wrVars>>
  BY <1>3 DEF ThreadNext, Receive, Walk, Visit, Invoke, Send, objVars
<1>. QED
  BY <1>1, <1>2, <1>3 DEF Next, vars, objVars

(* A filter of a listed chain is one of Listed, by induction on the chains *)
(* up to it.                                                               *)
LEMMA ListedMembers ==
    ASSUME ObjectTypes, NEW b \in DOMAIN chains, NEW f \in ToSet(FiltersOf(chains[b]))
    PROVE  f \in ToSet(Listed)
<1>. DEFINE N == Len(chains)
            T == {n \in Nat : b <= n /\ n <= N => f \in ToSet(ListedIn[n])}
<1>1. N \in Nat /\ DOMAIN chains = 1 .. N /\ b \in 1 .. N
      /\ \A n \in 1 .. N : chains[n] \in Chains
  BY DEF ObjectTypes
<1>2. 0 \in T
  BY <1>1
<1>3. ASSUME NEW n \in Nat, n \in T PROVE n + 1 \in T
  <2>. SUFFICES ASSUME b <= n + 1, n + 1 <= N PROVE f \in ToSet(ListedIn[n + 1])
    OBVIOUS
  <2>1. n + 1 \in 1 .. N /\ n \in 0 .. N /\ (n + 1) - 1 = n
    BY <1>1
  <2>. DEFINE s == ListedIn[n]
              l == FiltersOf(chains[n + 1])
  <2>2. ListedIn[n + 1] = s \o l /\ s \in Seq(Filters)
    BY <2>1, ListedEquation
  <2>3. l \in Seq(Filters)
    BY <1>1, <2>1, FiltersTyped
  <2>4. f \in ToSet(s) \/ f \in ToSet(l)
    BY <1>1, <1>3, <2>1
  <2>. HIDE DEF s, l
  <2>5. f \in ToSet(s \o l)
    <3>1. /\ Len(s) \in Nat /\ Len(l) \in Nat /\ DOMAIN s = 1 .. Len(s)
          /\ DOMAIN l = 1 .. Len(l) /\ s \o l \in Seq(Filters)
          /\ Len(s \o l) = Len(s) + Len(l) /\ DOMAIN (s \o l) = 1 .. Len(s) + Len(l)
          /\ \A m \in 1 .. Len(s) + Len(l) :
                 (s \o l)[m] = IF m <= Len(s) THEN s[m] ELSE l[m - Len(s)]
      BY <2>2, <2>3, ConcatProperties
    <3>2. CASE f \in ToSet(s)
      <4>1. PICK m \in 1 .. Len(s) : s[m] = f
        BY <3>1, <3>2 DEF ToSet
      <4>2. m \in 1 .. Len(s) + Len(l) /\ (s \o l)[m] = f
        BY <3>1, <4>1
      <4>. QED
        BY <3>1, <4>2 DEF ToSet
    <3>3. CASE f \in ToSet(l)
      <4>1. PICK m \in 1 .. Len(l) : l[m] = f
        BY <3>1, <3>3 DEF ToSet
      <4>2. /\ m + Len(s) \in 1 .. Len(s) + Len(l) /\ ~ (m + Len(s) <= Len(s))
            /\ (m + Len(s)) - Len(s) = m
        BY <3>1, <4>1
      <4>3. (s \o l)[m + Len(s)] = f
        BY <3>1, <4>1, <4>2
      <4>. QED
        BY <3>1, <4>2, <4>3 DEF ToSet
    <3>. QED
      BY <2>4, <3>2, <3>3
  <2>. QED
    BY <2>2, <2>5
<1>. HIDE DEF T
<1>4. \A n \in Nat : n \in T
  BY <1>2, <1>3, NatSet
<1>5. f \in ToSet(ListedIn[N])
  BY <1>1, <1>4 DEF T
<1>. QED
  BY <1>5 DEF Listed

(* The same after a step.                                                  *)
LEMMA ListedMembersNext ==
    ObjectTypes' => \A b \in DOMAIN chains' : \A f \in ToSet(FiltersOf(chains[b])') :
                        f \in ToSet(Listed')
<1>1. ObjectTypes => \A b \in DOMAIN chains : \A f \in ToSet(FiltersOf(chains[b])) :
                         f \in ToSet(Listed)
  BY ListedMembers
<1>2. (ObjectTypes => \A b \in DOMAIN chains : \A f \in ToSet(FiltersOf(chains[b])) :
                         f \in ToSet(Listed))'
  BY <1>1, PTL
<1>. QED
  BY <1>2

(* Nobody removes the chain that a process has found.                      *)
LEMMA ChainsInHandNext ==
    ASSUME ForwardingAssumption, ScriptAssumption, FwdInv, OneWriter(FilterLines),
           ChainsInHand, [Next]_vars
    PROVE  ChainsInHand'
<1>1. /\ ObjectTypes /\ WriterTypes /\ AtWork /\ MadeKinds
  BY DEF FwdInv, TypeOK
<1>2. ASSUME UNCHANGED <<chains, wrVars>> PROVE ChainsInHand'
  BY <1>2 DEF wrVars, ChainsInHand
<1>3. ASSUME NEW t \in Threads, ThreadNext(t) PROVE UNCHANGED <<chains, wrVars>>
  BY <1>3 DEF ThreadNext, Receive, Walk, Visit, Invoke, Send, objVars
<1>4. ASSUME NEW w \in Writers, Start(w) \/ WriterStep(w) PROVE ChainsInHand'
  <2>1. /\ w \in DOMAIN wpc /\ w \in DOMAIN wline /\ w \in DOMAIN wptr
        /\ chains \in Seq(Chains) /\ NULL \notin Chains
    BY <1>1 DEF WriterTypes, ObjectTypes, ForwardingAssumption
  <2>2. \A pc : Goto(w, pc) => wpc'[w] = pc
    BY <2>1 DEF Goto
  <2>3. Finish(w) => wpc'[w] = "idle"
    BY <2>1 DEF Finish, Goto
  <2>4. WorkOf(w) /\ MadeOf(w)
    BY <1>1 DEF AtWork, MadeKinds
  <2>. DEFINE InHand(v) == /\ wpc[v] \in {"frule", "fadd"} => wptr[v] \in ToSet(chains)
                           /\ wpc[v] \in {"cremove", "cclear"} => Entry(wline[v]) = wpc[v]
  <2>5. InHand(w)
    BY DEF ChainsInHand
  <2>6. ASSUME NEW v \in Writers, v # w PROVE InHand(v)'
    <3>1. wpc'[v] = wpc[v] /\ wline'[v] = wline[v] /\ wptr'[v] = wptr[v]
      BY <1>1, <1>4, <2>6, WriterFrame DEF WriterTypes
    <3>2. InHand(v) /\ WorkOf(v)
      BY <1>1 DEF ChainsInHand, AtWork
    <3>3. CASE wpc[v] \notin {"frule", "fadd"}
      BY <3>1, <3>2, <3>3
    <3>4. CASE wpc[v] \in {"frule", "fadd"}
      <4>1. HasLine(v, FilterLines)
        BY <3>2, <3>4 DEF WorkOf, HasLine, FilterLines
      <4>2. ASSUME wpc[w] \in {"cremove", "cclear"} PROVE FALSE
        <5>1. HasLine(w, FilterLines)
          BY <2>5, <4>2 DEF HasLine, FilterLines
        <5>. QED
          BY <2>6, <4>1, <5>1 DEF OneWriter
      <4>3. \/ chains' = chains
            \/ \E c \in Chains : chains' = Append(chains, c)
        BY <1>4, <2>4, <4>2 DEF Start, WriterStep, ListenerCreate, ListenerSet, ListenerFind,
           ListenerRemove, ListenerAdd, ListenerClear, ListenerShow, RuleCreate, RuleTarget,
           RuleFind, RuleRemove, RuleAdd, RuleClear, RuleShow, NothingCreated,
           NoFilterCreated, NoChainCreated, FilterCreate, ChainFind, ChainAdd, FilterSet,
           FilterAdd, ChainRemove, ChainClear, FilterShow, objVars, MadeOf
      <4>4. ToSet(chains) \subseteq ToSet(chains')
        <5>1. ASSUME NEW c \in Chains, chains' = Append(chains, c)
              PROVE  ToSet(chains) \subseteq ToSet(chains')
          <6>1. ToSet(chains') = ToSet(chains) \cup {c}
            BY <2>1, <5>1, AppendMembers
          <6>. QED
            BY <6>1
        <5>. QED
          BY <4>3, <5>1
      <4>. QED
        BY <3>1, <3>2, <3>4, <4>4
    <3>. QED
      BY <3>3, <3>4
  <2>7. InHand(w)'
    <3>1. CASE Start(w)
      <4>1. Head(todo[w]) \in Written
        BY <1>1, <3>1, HeadTailProperties DEF Start, WriterTypes
      <4>2. Entry(Head(todo[w])) \in Starts
        BY <4>1, EntryStarts
      <4>3. \/ wpc' = wpc /\ wpc[w] = "idle"
            \/ wline'[w] = Head(todo[w]) /\ wpc'[w] = Entry(Head(todo[w]))
        BY <2>1, <2>2, <3>1 DEF Start
      <4>. QED
        BY <4>2, <4>3 DEF Starts
    <3>2. CASE ChainFind(w)
      <4>1. chains' = chains
        BY <3>2 DEF ChainFind
      <4>2. \/ wpc'[w] = "cadd"
            \/ /\ wpc'[w] = "frule" /\ wptr'[w] = ChainWithName(wline[w].name)
               /\ wptr'[w] # NULL
        BY <2>1, <2>2, <3>2 DEF ChainFind
      <4>3. ChainWithName(wline[w].name) \in ToSet(chains) \cup {NULL}
        BY <1>1, ChainFound
      <4>. QED
        BY <4>1, <4>2, <4>3
    <3>3. CASE ChainAdd(w)
      <4>1. /\ wpc'[w] = "frule" /\ wptr' = wptr /\ wptr[w] \in Chains
            /\ chains' = Append(chains, wptr[w])
        BY <2>2, <2>4, <3>3 DEF ChainAdd, MadeOf
      <4>2. wptr[w] \in ToSet(chains')
        BY <2>1, <4>1, AppendMembers
      <4>. QED
        BY <4>1, <4>2
    <3>4. CASE FilterSet(w)
      <4>1. /\ chains' = chains /\ wpc[w] = "frule"
            /\ Finish(w) \/ (wpc'[w] = "fadd" /\ wptr' = wptr)
        BY <2>2, <3>4 DEF FilterSet
      <4>. QED
        BY <2>3, <2>5, <4>1
    <3>5. ASSUME WriterStep(w), ~ (ChainFind(w) \/ ChainAdd(w) \/ FilterSet(w))
          PROVE  wpc'[w] \notin {"frule", "fadd", "cremove", "cclear"}
      BY <2>2, <2>3, <3>5 DEF WriterStep, ListenerCreate, ListenerSet, ListenerFind,
         ListenerRemove, ListenerAdd, ListenerClear, ListenerShow, RuleCreate, RuleTarget,
         RuleFind, RuleRemove, RuleAdd, RuleClear, RuleShow, NothingCreated,
         NoFilterCreated, NoChainCreated, FilterCreate,
         FilterAdd, ChainRemove, ChainClear, FilterShow
    <3>. QED
      BY <1>4, <3>1, <3>2, <3>3, <3>4, <3>5
  <2>. QED
    BY <2>6, <2>7 DEF ChainsInHand
<1>. QED
  BY <1>2, <1>3, <1>4 DEF Next, vars, objVars

(* What is lost is a filter, in no chain and in the hands of nobody.       *)
LEMMA OnlyFiltersLost ==
    ASSUME FwdInv', ObjectsKept', NEW x \in Lost'
    PROVE  /\ x \in Filters /\ fdata'[x] # NULL /\ x \notin ToSet(Listed')
           /\ \A w \in Writers : wobj'[w] # x
<1>1. Lost' = {l \in Listeners : ldata'[l] # NULL /\ l \notin ToSet(listeners') \cup Held'}
                 \cup {r \in Rules : rdata'[r] # NULL /\ r \notin ToSet(rules') \cup Held'}
                 \cup {c \in Chains : cdata'[c] # NULL /\ c \notin ToSet(chains') \cup Held'}
                 \cup {f \in Filters : fdata'[f] # NULL /\ f \notin ToSet(Listed') \cup Held'}
  BY DEF Lost
<1>2. \A w \in Writers : wobj'[w] \in Held' /\ wptr'[w] \in Held'
  BY DEF Held
<1>3. x \notin Held'
  BY <1>1
<1>4. \A w \in Writers : wobj'[w] # x /\ wptr'[w] # x
  BY <1>2, <1>3
<1>5. ~ (x \in Listeners /\ ldata'[x] # NULL /\ x \notin ToSet(listeners'))
  BY <1>4 DEF ObjectsKept, ListenersKept
<1>6. ~ (x \in Rules /\ rdata'[x] # NULL /\ x \notin ToSet(rules'))
  BY <1>4 DEF ObjectsKept, RulesKept
<1>7. ~ (x \in Chains /\ cdata'[x] # NULL /\ x \notin ToSet(chains'))
  BY <1>4 DEF ObjectsKept, ChainsKept
<1>. QED
  BY <1>1, <1>4, <1>5, <1>6, <1>7

(* A process loses a filter of a chain that it removes, or the one it has  *)
(* made when the chain could not be made.                                  *)
LEMMA FilterLost ==
    ASSUME ForwardingAssumption, ScriptAssumption, ObjectAssumption, KindsApart,
           FwdInv, FwdInv', ObjectsKept, ObjectsKept', ChainsInHand,
           NEW w \in Writers, Start(w) \/ WriterStep(w), NEW x \in Lost', x \notin Lost
    PROVE  \/ x \in ToSet(Listed) /\ x \in Filters
           \/ wobj[w] = x /\ wpc[w] = "cfind"
<1>1. /\ x \in Filters /\ fdata'[x] # NULL /\ x \notin ToSet(Listed')
      /\ \A v \in Writers : wobj'[v] # x
  BY OnlyFiltersLost
<1>2. SUFFICES ASSUME x \notin ToSet(Listed) PROVE wobj[w] = x /\ wpc[w] = "cfind"
  BY <1>1
<1>3. /\ ObjectTypes /\ WriterTypes /\ AtWork /\ MadeKinds /\ ListsSound /\ EmptyHands
      /\ ObjectTypes' /\ ObjectTypes /\ DOMAIN fdata = Filters /\ w \in DOMAIN wobj
      /\ w \in DOMAIN wpc /\ DOMAIN cdata = Chains
  BY DEF FwdInv, TypeOK, ObjectsKept, ObjectTypes, WriterTypes
<1>4. x # NULL /\ x \notin Listeners /\ x \notin Rules /\ x \notin Chains
  BY <1>1 DEF KindsApart, ForwardingAssumption
<1>5. fdata[x] # NULL
  <2>1. ASSUME FilterCreate(w), fdata[x] = NULL PROVE FALSE
    <3>1. PICK f \in Filters : /\ \E rec : fdata' = [fdata EXCEPT ![f] = rec]
                               /\ wobj' = [wobj EXCEPT ![w] = f]
      BY <2>1 DEF FilterCreate
    <3>2. wobj'[w] = f
      BY <1>3, <3>1
    <3>3. fdata'[x] = fdata[x]
      BY <1>1, <1>3, <3>1, <3>2
    <3>. QED
      BY <1>1, <2>1, <3>3
  <2>2. ASSUME FilterSet(w), fdata[x] = NULL PROVE FALSE
    <3>1. /\ wobj[w] \in Filters \cup {NULL} /\ wpc[w] = "frule"
          /\ FilterMade[w] = wobj[w]
      BY <1>3, <2>2 DEF FilterSet, MadeKinds, MadeOf, FilterMade
    <3>2. wobj[w] # NULL => fdata[wobj[w]] # NULL
      BY <3>1 DEF FwdInv, ListsSound, MadeOnce
    <3>3. \/ fdata' = Clear(fdata, {wobj[w]})
          \/ wobj[w] # NULL /\ \E r : fdata' = [fdata EXCEPT ![wobj[w]].rule = r]
      BY <2>2 DEF FilterSet
    <3>4. fdata'[x] = NULL
      BY <1>1, <1>3, <2>2, <3>2, <3>3 DEF Clear
    <3>. QED
      BY <1>1, <3>4
  <2>3. ~ FilterCreate(w) /\ ~ FilterSet(w) => fdata' = fdata
    BY DEF Start, WriterStep, ListenerCreate, ListenerSet, ListenerFind,
       ListenerRemove, ListenerAdd, ListenerClear, ListenerShow, RuleCreate, RuleTarget,
       RuleFind, RuleRemove, RuleAdd, RuleClear, RuleShow, NothingCreated,
       NoFilterCreated, NoChainCreated, ChainFind, ChainAdd,
       FilterAdd, ChainRemove, ChainClear, FilterShow, objVars
  <2>. QED
    BY <1>1, <2>1, <2>2, <2>3
<1>6. wobj[w] = x
  <2>1. x \in Held
    BY <1>1, <1>2, <1>5 DEF Lost
  <2>2. PICK v \in Writers : wobj[v] = x
    BY <1>3, <1>4, <2>1 DEF Held, WriterTypes
  <2>3. v # w => wobj'[v] = wobj[v]
    BY <1>3, WriterFrame DEF WriterTypes
  <2>. QED
    BY <1>1, <2>2, <2>3
<1>7. wpc[w] \in {"cfind", "cadd", "frule", "fadd", "oops"}
  <2>1. MadeOf(w) /\ wpc[w] \in WriterPcs
    BY <1>3 DEF MadeKinds, WriterTypes
  <2>. QED
    BY <1>1, <1>3, <1>4, <1>6, <2>1 DEF MadeOf, EmptyHands, WriterPcs
<1>8. wobj' # wobj
  BY <1>1, <1>6
<1>9. ASSUME FilterSet(w) PROVE FALSE
  <2>1. fdata' = Clear(fdata, {wobj[w]})
    BY <1>8, <1>9 DEF FilterSet
  <2>. QED
    BY <1>1, <1>3, <1>6, <2>1 DEF Clear
<1>10. ASSUME FilterAdd(w) PROVE FALSE
  <2>. DEFINE c == wptr[w]
  <2>1. /\ cdata[c] # NULL /\ cdata' = [cdata EXCEPT ![c].filters = PutLast(@, wobj[w])]
        /\ chains' = chains /\ wpc[w] = "fadd"
    BY <1>8, <1>10 DEF FilterAdd
  <2>2. c \in ToSet(chains) /\ c \in Chains
    BY <1>3, <2>1, ChainAddresses DEF ChainsInHand, MadeKinds, MadeOf
  <2>3. PICK b \in DOMAIN chains : chains[b] = c
    BY <2>2 DEF ToSet
  <2>4. cdata[c] \in ChainRecs
    BY <1>3, <2>1, <2>2 DEF ObjectTypes
  <2>. DEFINE fs == cdata[c].filters
  <2>5. fs \in Seq(Filters)
    BY <2>4 DEF ChainRecs
  <2>6. cdata'[c] # NULL /\ cdata'[c].filters = Append(fs, x)
    <3>1. cdata'[c] = [cdata[c] EXCEPT !.filters = Append(@, x)]
      BY <1>3, <1>6, <2>1, <2>2 DEF PutLast
    <3>2. cdata'[c] \in ChainRecs
      <4>1. Append(fs, x) \in Seq(Filters)
        BY <1>1, <2>5
      <4>. QED
        BY <2>4, <3>1, <4>1 DEF ChainRecs
    <3>. QED
      BY <2>4, <3>1, <3>2, Records DEF ChainRecs
  <2>. HIDE DEF c
  <2>7. FiltersOf(chains[b])' = Append(fs, x)
    BY <2>1, <2>3, <2>6 DEF FiltersOf
  <2>. HIDE DEF fs
  <2>8. x \in ToSet(Append(fs, x))
    BY <1>1, <2>5, AppendMembers
  <2>. QED
    BY <1>1, <1>3, <2>1, <2>7, <2>8, ListedMembersNext
<1>11. ~ Start(w)
  BY <1>8 DEF Start
<1>12. wpc[w] # "cadd"
  BY <1>8, <1>11 DEF WriterStep, ListenerCreate, ListenerSet, ListenerFind, ListenerRemove,
     ListenerAdd, ListenerClear, ListenerShow, RuleCreate, RuleTarget, RuleFind, RuleRemove,
     RuleAdd, RuleClear, RuleShow, NothingCreated, NoFilterCreated, NoChainCreated,
     FilterCreate, ChainFind, ChainAdd, FilterSet, FilterAdd, ChainRemove, ChainClear,
         FilterShow
<1>13. wpc[w] # "frule"
  BY <1>9, <1>11 DEF WriterStep, ListenerCreate, ListenerSet, ListenerFind, ListenerRemove,
     ListenerAdd, ListenerClear, ListenerShow, RuleCreate, RuleTarget, RuleFind, RuleRemove,
     RuleAdd, RuleClear, RuleShow, NothingCreated, NoFilterCreated, NoChainCreated,
     FilterCreate, ChainFind, ChainAdd, FilterAdd, ChainRemove, ChainClear, FilterShow
<1>14. wpc[w] # "fadd"
  BY <1>10, <1>11 DEF WriterStep, ListenerCreate, ListenerSet, ListenerFind, ListenerRemove,
     ListenerAdd, ListenerClear, ListenerShow, RuleCreate, RuleTarget, RuleFind, RuleRemove,
     RuleAdd, RuleClear, RuleShow, NothingCreated, NoFilterCreated, NoChainCreated,
     FilterCreate, ChainFind, ChainAdd, FilterSet, ChainRemove, ChainClear, FilterShow
<1>15. wpc[w] # "oops"
  BY <1>11 DEF WriterStep, ListenerCreate, ListenerSet, ListenerFind, ListenerRemove,
     ListenerAdd, ListenerClear, ListenerShow, RuleCreate, RuleTarget, RuleFind, RuleRemove,
     RuleAdd, RuleClear, RuleShow, NothingCreated, NoFilterCreated, NoChainCreated,
     FilterCreate, ChainFind, ChainAdd, FilterSet, FilterAdd, ChainRemove, ChainClear,
         FilterShow
<1>. QED
  BY <1>6, <1>7, <1>12, <1>13, <1>14, <1>15

(* No step loses anything else.                                            *)
LEMMA LossStep ==
    ForwardingAssumption /\ ScriptAssumption /\ ObjectAssumption /\ KindsApart
        /\ FwdInv /\ FwdInv' /\ ObjectsKept /\ ObjectsKept' /\ ChainsInHand /\ [Next]_vars
    => [\A x \in Lost' \ Lost :
           \/ x \in ToSet(Listed) /\ x \in Filters
           \/ \E w \in Writers : wobj[w] = x /\ wpc[w] = "cfind"]_vars
<1>. SUFFICES ASSUME ForwardingAssumption, ScriptAssumption, ObjectAssumption, KindsApart,
                     FwdInv, FwdInv', ObjectsKept, ObjectsKept', ChainsInHand, Next,
                     NEW x \in Lost' \ Lost
              PROVE  \/ x \in ToSet(Listed) /\ x \in Filters
                     \/ \E w \in Writers : wobj[w] = x /\ wpc[w] = "cfind"
  OBVIOUS
<1>1. ASSUME NEW w \in Writers, Start(w) \/ WriterStep(w)
      PROVE  \/ x \in ToSet(Listed) /\ x \in Filters
             \/ wobj[w] = x /\ wpc[w] = "cfind"
  BY <1>1, FilterLost
<1>2. ASSUME NEW t \in Threads, ThreadNext(t) PROVE x \in ToSet(Listed) /\ x \in Filters
  <2>1. /\ x \in Filters /\ fdata'[x] # NULL /\ x \notin ToSet(Listed')
    BY OnlyFiltersLost
  <2>2. ThreadDoes(t)
    <3>1. OnList(t) /\ PointerOK(t)
      BY DEF FwdInv, WalkOnList, WalkPointers, OnList, PointerOK
    <3>. QED
      BY <1>2, <3>1, ThreadStep DEF FwdInv, TypeOK
  <2>3. fdata[x] # NULL
    BY <2>1, <2>2 DEF ThreadDoes, Counted, FwdInv, TypeOK, ObjectTypes
  <2>4. Held' = Held
    BY <2>2 DEF ThreadDoes, wrVars, Held
  <2>5. x \notin Held
    <3>1. x \notin Held'
      BY DEF Lost
    <3>. QED
      BY <2>4, <3>1
  <2>. QED
    BY <2>1, <2>3, <2>5 DEF Lost
<1>. QED
  BY <1>1, <1>2 DEF Next

(* Every step of Forwarding loses an object in one of these two ways or    *)
(* loses none, as long as one process writes the filters.                  *)
LEMMA LossesByStep ==
    ASSUME OneWrites(Script, FilterLines), KindsApart
    PROVE  Spec => LossesKnown
<1>. USE ForwardingAssumption, ScriptAssumption, ObjectAssumption
<1>1. Init => ObjectsKept /\ ChainsInHand
  BY DEF Init, ObjectsKept, EmptyHands, ListenersKept, RulesKept, ChainsKept, ChainsInHand
<1>2. FwdInv /\ ObjectsKept /\ [Next]_vars => ObjectsKept'
  BY ObjectsKeptNext
<1>3. FwdInv /\ OneWriter(FilterLines) /\ ChainsInHand /\ [Next]_vars => ChainsInHand'
  BY ChainsInHandNext
<1>4. Init => OneWriter(FilterLines)
  BY OneWriterInit
<1>5. FwdInv /\ OneWriter(FilterLines) /\ [Next]_vars => OneWriter(FilterLines)'
  BY OneWriterNext DEF FwdInv, TypeOK
<1>6. FwdInv /\ FwdInv' /\ ObjectsKept /\ ObjectsKept' /\ ChainsInHand /\ [Next]_vars
      => [\A x \in Lost' \ Lost :
             \/ x \in ToSet(Listed) /\ x \in Filters
             \/ \E w \in Writers : wobj[w] = x /\ wpc[w] = "cfind"]_vars
  BY LossStep
<1>. QED
  BY <1>1, <1>2, <1>3, <1>4, <1>5, <1>6, FwdInvariant, PTL DEF Spec, LossesKnown

----------------------------------------------------------------------------
(* What points at what *)

(* The rules that are listed, or made with their listener and on their way *)
(* into the list; the filters that are in a chain or on their way there.   *)
RulesInUse ==
    ToSet(rules) \cup {wobj[w] : w \in {v \in Writers : wpc[v] \in {"rfind", "rremove", "radd"}}}

FiltersInUse ==
    (UNION {ToSet(FiltersOf(c)) : c \in Chains})
        \cup {wobj[w] : w \in {v \in Writers : wpc[v] = "fadd"}}

(* Their rule or listener is listed, and so is what a walk uses next.      *)
RuleLive(r) == rdata[r].aid = "fwrd" => rdata[r].l \in ToSet(listeners)
FilterLive(f) == fdata[f].rule # NULL => fdata[f].rule \in ToSet(rules)

WalkLive(t) ==
    /\ fpc[t] = "invoke" => fptr[t] \in ToSet(rules)
    /\ fpc[t] = "send" => fptr[t] \in ToSet(listeners)

(* Until it has its listener, a rule has the action of the line.           *)
AidKept(w) == wpc[w] = "target" => rdata[wobj[w]].aid = wline[w].aid

PointersInv ==
    /\ \A r \in RulesInUse : RuleLive(r)
    /\ \A f \in FiltersInUse : FilterLive(f)
    /\ \A t \in Threads : WalkLive(t)
    /\ \A w \in Writers : AidKept(w)

(* What is pointed at.                                                     *)
ListenersPointedAt ==
    {rdata[r].l : r \in {s \in RulesInUse : rdata[s].aid = "fwrd"}}
        \cup {fptr[t] : t \in {u \in Threads : fpc[u] = "send"}}

RulesPointedAt ==
    {fdata[f].rule : f \in FiltersInUse}
        \cup {fptr[t] : t \in {u \in Threads : fpc[u] = "invoke"}}

(* "Remove in the order of the pointers": no listener and no rule leaves   *)
(* its list while something points at it.                                  *)
InPointerOrder ==
    /\ ListenersPointedAt \cap ToSet(listeners) \subseteq ToSet(listeners')
    /\ RulesPointedAt \cap ToSet(rules) \subseteq ToSet(rules')

(* Under such a step what lives goes on living, if it changes nothing that *)
(* does not live then.                                                     *)
LEMMA PointersCarry ==
    ASSUME PointersInv, InPointerOrder,
           \A r \in RulesInUse' : (r \in RulesInUse /\ rdata'[r] = rdata[r]) \/ RuleLive(r)',
           \A f \in FiltersInUse' :
               (f \in FiltersInUse /\ fdata'[f].rule = fdata[f].rule) \/ FilterLive(f)',
           \A t \in Threads : (fpc'[t] = fpc[t] /\ fptr'[t] = fptr[t]) \/ WalkLive(t)',
           \A w \in Writers : AidKept(w)'
    PROVE  PointersInv'
<1>1. ASSUME NEW r \in RulesInUse' PROVE RuleLive(r)'
  <2>1. SUFFICES ASSUME r \in RulesInUse, rdata'[r] = rdata[r], rdata[r].aid = "fwrd"
                 PROVE  rdata[r].l \in ToSet(listeners')
    BY <1>1 DEF RuleLive
  <2>2. rdata[r].l \in ToSet(listeners)
    BY <2>1 DEF PointersInv, RuleLive
  <2>3. rdata[r].l \in ListenersPointedAt
    BY <2>1 DEF ListenersPointedAt
  <2>. QED
    BY <2>2, <2>3 DEF InPointerOrder
<1>2. ASSUME NEW f \in FiltersInUse' PROVE FilterLive(f)'
  <2>1. SUFFICES ASSUME f \in FiltersInUse, fdata'[f].rule = fdata[f].rule,
                        fdata[f].rule # NULL
                 PROVE  fdata[f].rule \in ToSet(rules')
    BY <1>2 DEF FilterLive
  <2>2. fdata[f].rule \in ToSet(rules)
    BY <2>1 DEF PointersInv, FilterLive
  <2>3. fdata[f].rule \in RulesPointedAt
    BY <2>1 DEF RulesPointedAt
  <2>. QED
    BY <2>2, <2>3 DEF InPointerOrder
<1>3. ASSUME NEW t \in Threads PROVE WalkLive(t)'
  <2>1. SUFFICES ASSUME fpc'[t] = fpc[t], fptr'[t] = fptr[t] PROVE WalkLive(t)'
    OBVIOUS
  <2>2. WalkLive(t)
    BY DEF PointersInv
  <2>3. /\ fpc[t] = "send" => fptr[t] \in ListenersPointedAt
        /\ fpc[t] = "invoke" => fptr[t] \in RulesPointedAt
    BY DEF ListenersPointedAt, RulesPointedAt
  <2>. QED
    BY <2>1, <2>2, <2>3 DEF InPointerOrder, WalkLive
<1>. QED
  BY <1>1, <1>2, <1>3 DEF PointersInv

(* A step of a writer changes no rule but one that is free, its own before *)
(* it is in use, and those that leave the list.                            *)
LEMMA RulesChanged ==
    ASSUME ForwardingAssumption, ObjectTypes, MadeKinds, ListsSound,
           NEW w \in Writers, Start(w) \/ WriterStep(w),
           NEW r \in Rules, rdata'[r] # rdata[r]
    PROVE  \/ rdata[r] = NULL
           \/ wpc[w] = "target" /\ r = wobj[w]
           \/ r \in ToSet(rules) /\ r \notin ToSet(rules')
<1>1. DOMAIN rdata = Rules
  BY DEF ObjectTypes
<1>2. CASE RuleCreate(w)
  <2>1. PICK s \in Rules : rdata[s] = NULL /\ \E x : rdata' = [rdata EXCEPT ![s] = x]
    BY <1>2 DEF RuleCreate
  <2>. QED
    BY <1>1, <2>1
<1>3. CASE RuleTarget(w)
  <2>1. wpc[w] = "target" /\ \E x : rdata' = [rdata EXCEPT ![wobj[w]] = x]
    BY <1>3 DEF RuleTarget, DestroyRefused
  <2>. QED
    BY <1>1, <2>1
<1>4. CASE RuleRemove(w)
  <2>1. wptr[w] \in ToSet(rules) /\ rdata' = [rdata EXCEPT ![wptr[w]] = NULL]
        /\ rules' = Without(rules, wptr[w])
    BY <1>4 DEF RuleRemove
  <2>2. r = wptr[w]
    BY <1>1, <2>1
  <2>3. wptr[w] \notin ToSet(rules')
    BY <2>1, RulesListed, WithoutMembers DEF ToSet
  <2>. QED
    BY <2>1, <2>2, <2>3
<1>5. CASE RuleClear(w)
  <2>1. rdata' = Clear(rdata, ToSet(rules)) /\ rules' = <<>>
    BY <1>5 DEF RuleClear
  <2>2. r \in ToSet(rules)
    BY <1>1, <2>1 DEF Clear
  <2>3. ToSet(rules') = {}
    BY <2>1 DEF ToSet
  <2>. QED
    BY <2>2, <2>3
<1>6. CASE ~ (RuleCreate(w) \/ RuleTarget(w) \/ RuleRemove(w) \/ RuleClear(w))
  BY <1>6 DEF Start, WriterStep, ListenerCreate, ListenerSet, ListenerFind, ListenerRemove,
     ListenerAdd, ListenerClear, ListenerShow, RuleFind, RuleAdd, RuleShow, NothingCreated,
     NoFilterCreated, NoChainCreated, FilterCreate, ChainFind, ChainAdd, FilterSet,
     FilterAdd, ChainRemove, ChainClear, FilterShow, objVars
<1>. QED
  BY <1>2, <1>3, <1>4, <1>5, <1>6

(* The rules in use are allocated, and no writer has them before.          *)
LEMMA RulesUsed ==
    ASSUME ForwardingAssumption, ObjectTypes, MadeKinds, ListsSound, NEW r \in RulesInUse
    PROVE  /\ r \in Rules /\ rdata[r] # NULL
           /\ \A w \in Writers : wpc[w] = "target" => wobj[w] # r
<1>1. CASE r \in ToSet(rules)
  <2>1. r \in Rules /\ rdata[r] # NULL
    BY <1>1, RulesListed DEF ToSet
  <2>2. \A w \in Writers : wpc[w] = "target" => RuleMade[w] = wobj[w] /\ wobj[w] # NULL
    BY DEF RuleMade, MadeKinds, MadeOf, ForwardingAssumption
  <2>. QED
    BY <1>1, <2>1, <2>2, RulesListed
<1>2. ASSUME NEW v \in Writers, wpc[v] \in {"rfind", "rremove", "radd"}, r = wobj[v]
      PROVE  /\ r \in Rules /\ rdata[r] # NULL
             /\ \A w \in Writers : wpc[w] = "target" => wobj[w] # r
  <2>1. RuleMade[v] = r /\ r # NULL
    BY <1>2 DEF RuleMade, MadeKinds, MadeOf, ForwardingAssumption
  <2>2. \A w \in Writers : wpc[w] = "target" => RuleMade[w] = wobj[w]
    BY DEF RuleMade
  <2>. QED
    BY <1>2, <2>1, <2>2, RulesListed
<1>. QED
  BY <1>1, <1>2 DEF RulesInUse

(* A rule that comes into use has found its listener; the others in use    *)
(* stand.                                                                  *)
LEMMA RulesStand ==
    ASSUME ForwardingAssumption, ScriptAssumption, ObjectTypes, WriterTypes, AtWork, MadeKinds,
           ListsSound, PointersInv, NEW w \in Writers, Start(w) \/ WriterStep(w),
           NEW r \in RulesInUse'
    PROVE  (r \in RulesInUse /\ rdata'[r] = rdata[r]) \/ RuleLive(r)'
<1>. DEFINE Pcs == {"rfind", "rremove", "radd"}
<1>1. /\ w \in DOMAIN wpc /\ w \in DOMAIN wobj /\ DOMAIN rdata = Rules
      /\ rules \in Seq(Rules)
  BY DEF WriterTypes, ObjectTypes
<1>2. \A pc : Goto(w, pc) => wpc'[w] = pc
  BY <1>1 DEF Goto
<1>3. Finish(w) => wpc'[w] = "idle"
  BY <1>1 DEF Finish, Goto
<1>4. ASSUME NEW v \in Writers, wpc[v] \in Pcs, r = wobj[v]
      PROVE  r \in RulesInUse /\ rdata'[r] = rdata[r]
  <2>1. r \in RulesInUse
    BY <1>4 DEF RulesInUse
  <2>2. r \in Rules /\ rdata[r] # NULL /\ \A u \in Writers : wpc[u] = "target" => wobj[u] # r
    BY <2>1, RulesUsed
  <2>3. RuleMade[v] = r /\ r # NULL
    BY <1>4, <2>2 DEF RuleMade, ForwardingAssumption
  <2>4. r \notin ToSet(rules)
    BY <2>3, RulesListed
  <2>. QED
    BY <2>1, <2>2, <2>4, RulesChanged
<1>5. ASSUME r \in ToSet(rules), r \in ToSet(rules')
      PROVE  r \in RulesInUse /\ rdata'[r] = rdata[r]
  <2>1. r \in RulesInUse
    BY <1>5 DEF RulesInUse
  <2>2. r \in Rules /\ rdata[r] # NULL /\ \A u \in Writers : wpc[u] = "target" => wobj[u] # r
    BY <2>1, RulesUsed
  <2>. QED
    BY <1>5, <2>1, <2>2, RulesChanged
<1>6. CASE r \in ToSet(rules')
  <2>1. CASE RuleAdd(w)
    <3>1. rules' = Append(rules, wobj[w]) /\ wpc[w] = "radd" /\ wobj[w] \in Rules
      BY <2>1 DEF RuleAdd, MadeKinds, MadeOf
    <3>2. r \in ToSet(rules) \/ r = wobj[w]
      BY <1>1, <1>6, <3>1, AppendMembers
    <3>. QED
      BY <1>4, <1>5, <1>6, <3>1, <3>2
  <2>2. CASE ~ RuleAdd(w)
    <3>1. r \in ToSet(rules)
      BY <1>6, <2>2, RulesLessen DEF RulesLess, Within, ToSet
    <3>. QED
      BY <1>5, <1>6, <3>1
  <2>. QED
    BY <2>1, <2>2
<1>7. ASSUME NEW v \in Writers, wpc'[v] \in Pcs, r = wobj'[v], v # w
      PROVE  r \in RulesInUse /\ rdata'[r] = rdata[r]
  <2>1. wpc'[v] = wpc[v] /\ wobj'[v] = wobj[v]
    BY <1>7, WriterFrame DEF WriterTypes
  <2>. QED
    BY <1>4, <1>7, <2>1
<1>8. ASSUME wpc'[w] \in Pcs, r = wobj'[w]
      PROVE  (r \in RulesInUse /\ rdata'[r] = rdata[r]) \/ RuleLive(r)'
  <2>1. CASE RuleTarget(w)
    <3>. DEFINE l == IF wline[w].aid = "fwrd" THEN ListenerWithId(wline[w].arg) ELSE NULL
    <3>1. /\ ~ ActionRefused(w, l) /\ rdata' = [rdata EXCEPT ![wobj[w]].l = l]
          /\ wobj' = wobj /\ listeners' = listeners /\ wpc[w] = "target"
      BY <1>2, <1>3, <1>8, <2>1 DEF RuleTarget
    <3>2. wobj[w] \in Rules /\ rdata[wobj[w]] # NULL /\ rdata[wobj[w]].aid = wline[w].aid
      <4>1. wobj[w] \in Rules /\ RuleMade[w] = wobj[w] /\ wobj[w] # NULL
        BY <3>1 DEF MadeKinds, MadeOf, RuleMade, ForwardingAssumption
      <4>2. rdata[wobj[w]] # NULL
        BY <4>1, RulesListed
      <4>. QED
        BY <3>1, <4>1, <4>2 DEF PointersInv, AidKept
    <3>3. rdata[wobj[w]] \in RuleRecs
      BY <3>2 DEF ObjectTypes
    <3>4. rdata'[wobj[w]] = [rdata[wobj[w]] EXCEPT !.l = l]
      BY <1>1, <3>1, <3>2
    <3>5. rdata'[wobj[w]].l = l /\ rdata'[wobj[w]].aid = wline[w].aid
      BY <3>2, <3>3, <3>4 DEF RuleRecs
    <3>6. wline[w].aid = "fwrd" => l # NULL /\ l = ListenerWithId(wline[w].arg)
      BY <3>1 DEF ActionRefused
    <3>7. wline[w].aid = "fwrd" => l \in ToSet(listeners)
      BY <3>6, ListenerFound
    <3>. HIDE DEF l
    <3>. QED
      BY <1>8, <3>1, <3>5, <3>7 DEF RuleLive
  <2>2. CASE ~ RuleTarget(w)
    <3>1. wpc[w] \in Pcs /\ wobj'[w] = wobj[w]
      <4>1. wpc[w] \in {"rcreate", "target", "rfind", "rremove", "radd", "rclear"}
        BY <1>8, Elsewhere DEF RulesAlone
      <4>. QED
        BY <1>2, <1>3, <1>8, <2>2, <4>1 DEF Start, WriterStep, ListenerCreate, ListenerSet,
           ListenerFind, ListenerRemove, ListenerAdd, ListenerClear, ListenerShow, RuleCreate,
           RuleFind, RuleRemove, RuleAdd, RuleClear, RuleShow, NothingCreated, NoFilterCreated,
           NoChainCreated, FilterCreate, ChainFind, ChainAdd, FilterSet, FilterAdd,
           ChainRemove, ChainClear, FilterShow
    <3>. QED
      BY <1>4, <1>8, <3>1
  <2>. QED
    BY <2>1, <2>2
<1>. QED
  BY <1>6, <1>7, <1>8 DEF RulesInUse

(* What a rule is made for stands in its line.                             *)
LEMMA AidsKept ==
    ASSUME ForwardingAssumption, ScriptAssumption, ObjectTypes, WriterTypes, AtWork, MadeKinds,
           ListsSound, PointersInv, NEW w \in Writers, Start(w) \/ WriterStep(w),
           NEW v \in Writers
    PROVE  AidKept(v)'
<1>1. /\ w \in DOMAIN wpc /\ w \in DOMAIN wobj /\ w \in DOMAIN wline /\ DOMAIN rdata = Rules
  BY DEF WriterTypes, ObjectTypes
<1>2. \A pc : Goto(w, pc) => wpc'[w] = pc
  BY <1>1 DEF Goto
<1>3. Finish(w) => wpc'[w] = "idle"
  BY <1>1 DEF Finish, Goto
<1>4. CASE v # w
  <2>1. wpc'[v] = wpc[v] /\ wobj'[v] = wobj[v] /\ wline'[v] = wline[v]
    BY <1>4, WriterFrame DEF WriterTypes
  <2>2. SUFFICES ASSUME wpc[v] = "target" PROVE rdata'[wobj[v]] = rdata[wobj[v]]
    BY <2>1 DEF AidKept, PointersInv
  <2>3. RuleMade[v] = wobj[v] /\ wobj[v] \in Rules /\ wobj[v] # NULL
    BY <2>2 DEF RuleMade, MadeKinds, MadeOf, ForwardingAssumption
  <2>4. rdata[wobj[v]] # NULL /\ wobj[v] \notin ToSet(rules)
    BY <2>3, RulesListed
  <2>5. wpc[w] = "target" => wobj[w] # wobj[v]
    <3>1. wpc[w] = "target" => RuleMade[w] = wobj[w]
      BY DEF RuleMade
    <3>. QED
      BY <1>4, <2>3, <3>1, RulesListed
  <2>. QED
    BY <2>3, <2>4, <2>5, RulesChanged
<1>5. CASE v = w /\ RuleCreate(w)
  <2>1. PICK r \in Rules :
            /\ rdata' = [rdata EXCEPT ![r] =
                   [rid |-> wline[w].id, aid |-> wline[w].aid, l |-> NULL]]
            /\ wobj' = [wobj EXCEPT ![w] = r]
    BY <1>5 DEF RuleCreate
  <2>2. wobj'[w] = r /\ wline' = wline /\ rdata'[r].aid = wline[w].aid
    BY <1>1, <1>5, <2>1 DEF RuleCreate
  <2>. QED
    BY <1>5, <2>2 DEF AidKept
<1>6. CASE v = w /\ ~ RuleCreate(w)
  <2>1. wpc'[w] # "target"
    <3>1. wpc[w] \notin {"rcreate", "target", "rfind", "rremove", "radd", "rclear"}
              => wpc'[w] # "target"
      BY Elsewhere DEF RulesAlone
    <3>2. wpc[w] \in {"rcreate", "target", "rfind", "rremove", "radd", "rclear"}
              => wpc'[w] # "target"
      BY <1>2, <1>3, <1>6 DEF Start, WriterStep, ListenerCreate, ListenerSet, ListenerFind,
         ListenerRemove, ListenerAdd, ListenerClear, ListenerShow, RuleTarget, RuleFind,
         RuleRemove, RuleAdd, RuleClear, RuleShow, NothingCreated, NoFilterCreated,
         NoChainCreated, FilterCreate, ChainFind, ChainAdd, FilterSet, FilterAdd,
         ChainRemove, ChainClear, FilterShow
    <3>. QED
      BY <3>1, <3>2
  <2>. QED
    BY <1>6, <2>1 DEF AidKept
<1>. QED
  BY <1>4, <1>5, <1>6

(* A step of a writer changes no filter but one that is free, or its own   *)
(* before that is in use.                                                  *)
LEMMA FiltersChanged ==
    ASSUME ObjectTypes, MadeKinds, NEW w \in Writers, Start(w) \/ WriterStep(w),
           NEW f \in Filters, fdata'[f] # fdata[f]
    PROVE  fdata[f] = NULL \/ (wpc[w] = "frule" /\ f = wobj[w])
<1>1. DOMAIN fdata = Filters
  BY DEF ObjectTypes
<1>2. CASE FilterCreate(w)
  <2>1. PICK g \in Filters : fdata[g] = NULL /\ \E x : fdata' = [fdata EXCEPT ![g] = x]
    BY <1>2 DEF FilterCreate
  <2>. QED
    BY <1>1, <2>1
<1>3. CASE FilterSet(w)
  <2>1. \/ fdata' = Clear(fdata, {wobj[w]})
        \/ \E x : fdata' = [fdata EXCEPT ![wobj[w]] = x]
    BY <1>3 DEF FilterSet
  <2>2. f = wobj[w]
    BY <1>1, <2>1 DEF Clear
  <2>. QED
    BY <1>3, <2>2 DEF FilterSet
<1>4. CASE ~ (FilterCreate(w) \/ FilterSet(w))
  BY <1>4 DEF Start, WriterStep, ListenerCreate, ListenerSet, ListenerFind, ListenerRemove,
     ListenerAdd, ListenerClear, ListenerShow, RuleCreate, RuleTarget, RuleFind, RuleRemove,
     RuleAdd, RuleClear, RuleShow, NothingCreated, NoFilterCreated, NoChainCreated, ChainFind,
     ChainAdd, FilterAdd, ChainRemove, ChainClear, FilterShow, objVars
<1>. QED
  BY <1>2, <1>3, <1>4

(* The filters in use are allocated, and no writer has them before.        *)
LEMMA FiltersUsed ==
    ASSUME ForwardingAssumption, ObjectTypes, MadeKinds, ListsSound, NEW f \in FiltersInUse
    PROVE  /\ f \in Filters /\ fdata[f] # NULL
           /\ \A w \in Writers : wpc[w] = "frule" => wobj[w] # f
<1>1. /\ \A v, w \in Writers : FilterMade[v] = FilterMade[w] /\ FilterMade[v] # NULL => v = w
      /\ \A v \in Writers : FilterMade[v] # NULL =>
             FilterMade[v] \in Filters /\ fdata[FilterMade[v]] # NULL
  BY DEF ListsSound, MadeOnce, ObjectTypes
<1>2. \A w \in Writers : wpc[w] \in {"frule", "fadd"} => FilterMade[w] = wobj[w]
  BY DEF FilterMade
<1>3. ASSUME NEW c \in Chains, f \in ToSet(FiltersOf(c))
      PROVE  /\ f \in Filters /\ fdata[f] # NULL
             /\ \A w \in Writers : FilterMade[w] # f
  <2>1. PICK j \in DOMAIN FiltersOf(c) : f = FiltersOf(c)[j]
    BY <1>3 DEF ToSet
  <2>2. f \in Filters
    BY <2>1, FiltersTyped
  <2>. QED
    BY <2>1, <2>2 DEF ListsSound, FiltersListedOnce
<1>4. ASSUME NEW v \in Writers, wpc[v] = "fadd", f = wobj[v]
      PROVE  /\ f \in Filters /\ fdata[f] # NULL
             /\ \A w \in Writers : wpc[w] = "frule" => wobj[w] # f
  <2>1. FilterMade[v] = f /\ f # NULL
    BY <1>2, <1>4 DEF MadeKinds, MadeOf, ForwardingAssumption
  <2>. QED
    BY <1>1, <1>2, <1>4, <2>1
<1>. QED
  BY <1>2, <1>3, <1>4 DEF FiltersInUse

(* A filter that comes into use has found its rule, or goes without one;   *)
(* the others in use stand.                                                *)
LEMMA FiltersStand ==
    ASSUME ForwardingAssumption, ScriptAssumption, ObjectTypes, WriterTypes, AtWork, MadeKinds,
           ListsSound, NEW w \in Writers, Start(w) \/ WriterStep(w), NEW f \in FiltersInUse'
    PROVE  (f \in FiltersInUse /\ fdata'[f].rule = fdata[f].rule) \/ FilterLive(f)'
<1>1. /\ w \in DOMAIN wpc /\ w \in DOMAIN wobj /\ DOMAIN fdata = Filters
      /\ DOMAIN cdata = Chains
  BY DEF WriterTypes, ObjectTypes
<1>2. \A pc : Goto(w, pc) => wpc'[w] = pc
  BY <1>1 DEF Goto
<1>3. Finish(w) => wpc'[w] = "idle"
  BY <1>1 DEF Finish, Goto
<1>4. ASSUME f \in FiltersInUse PROVE fdata'[f] = fdata[f]
  BY <1>4, FiltersUsed, FiltersChanged
<1>5. ASSUME NEW v \in Writers, wpc[v] = "fadd", f = wobj[v] PROVE f \in FiltersInUse
  BY <1>5 DEF FiltersInUse
<1>6. ASSUME NEW c \in Chains, f \in ToSet(FiltersOf(c)') PROVE f \in FiltersInUse
  <2>1. ASSUME f \in ToSet(FiltersOf(c)) PROVE f \in FiltersInUse
    BY <2>1 DEF FiltersInUse
  <2>2. CASE ChainFind(w)
    <3>1. \/ cdata' = cdata
          \/ \E new \in Chains :
                 cdata' = [cdata EXCEPT ![new] = [name |-> wline[w].name, filters |-> <<>>]]
      BY <2>2 DEF ChainFind
    <3>2. FiltersOf(c)' = FiltersOf(c) \/ FiltersOf(c)' = <<>>
      BY <1>1, <3>1 DEF FiltersOf
    <3>. QED
      BY <1>6, <2>1, <3>2 DEF ToSet
  <2>3. CASE FilterAdd(w)
    <3>1. wpc[w] = "fadd" /\ wptr[w] \in Chains /\ wobj[w] \in Filters
      BY <2>3 DEF FilterAdd, MadeKinds, MadeOf
    <3>2. CASE cdata[wptr[w]] = NULL
      BY <1>6, <2>1, <2>3, <3>2 DEF FilterAdd, FiltersOf
    <3>3. CASE cdata[wptr[w]] # NULL /\ c # wptr[w]
      <4>1. cdata'[c] = cdata[c]
        BY <1>1, <2>3, <3>3 DEF FilterAdd
      <4>. QED
        BY <1>6, <2>1, <4>1 DEF FiltersOf
    <3>4. CASE cdata[wptr[w]] # NULL /\ c = wptr[w]
      <4>1. cdata' = [cdata EXCEPT ![c].filters = Append(@, wobj[w])]
        BY <2>3, <3>4 DEF FilterAdd, PutLast
      <4>2. cdata[c] \in ChainRecs
        BY <3>1, <3>4 DEF ObjectTypes
      <4>3. cdata'[c] = [cdata[c] EXCEPT !.filters = Append(@, wobj[w])]
        BY <1>1, <4>1
      <4>4. cdata'[c].filters = Append(cdata[c].filters, wobj[w])
        BY <4>2, <4>3 DEF ChainRecs
      <4>5. FiltersOf(c) = cdata[c].filters /\ FiltersOf(c) \in Seq(Filters)
        BY <3>4, FiltersTyped DEF FiltersOf
      <4>6. FiltersOf(c)' \in {<<>>, Append(FiltersOf(c), wobj[w])}
        BY <4>4, <4>5 DEF FiltersOf
      <4>7. f \in ToSet(FiltersOf(c)) \/ f = wobj[w]
        BY <1>6, <3>1, <4>5, <4>6, AppendMembers DEF ToSet
      <4>. QED
        BY <1>5, <2>1, <3>1, <4>7
    <3>. QED
      BY <3>2, <3>3, <3>4
  <2>4. CASE ChainRemove(w) \/ ChainClear(w)
    <3>1. \E S : cdata' = Clear(cdata, S)
      BY <2>4 DEF ChainRemove, ChainClear
    <3>2. cdata'[c] = cdata[c] \/ cdata'[c] = NULL
      BY <1>1, <3>1 DEF Clear
    <3>. QED
      BY <1>6, <2>1, <3>2 DEF FiltersOf, ToSet
  <2>5. CASE ~ (ChainFind(w) \/ FilterAdd(w) \/ ChainRemove(w) \/ ChainClear(w))
    <3>1. cdata' = cdata
      BY <2>5 DEF Start, WriterStep, ListenerCreate, ListenerSet, ListenerFind, ListenerRemove,
         ListenerAdd, ListenerClear, ListenerShow, RuleCreate, RuleTarget, RuleFind,
         RuleRemove, RuleAdd, RuleClear, RuleShow, NothingCreated, NoFilterCreated,
         NoChainCreated, FilterCreate, ChainAdd, FilterSet, FilterShow, objVars
    <3>. QED
      BY <1>6, <2>1, <3>1 DEF FiltersOf
  <2>. QED
    BY <2>2, <2>3, <2>4, <2>5
<1>7. ASSUME NEW v \in Writers, wpc'[v] = "fadd", f = wobj'[v], v # w PROVE f \in FiltersInUse
  <2>1. wpc'[v] = wpc[v] /\ wobj'[v] = wobj[v]
    BY <1>7, WriterFrame DEF WriterTypes
  <2>. QED
    BY <1>5, <1>7, <2>1
<1>8. ASSUME wpc'[w] = "fadd", f = wobj'[w] PROVE FilterLive(f)'
  <2>1. FilterSet(w)
    <3>1. wpc[w] \in {"fcreate", "cfind", "cadd", "frule", "fadd", "cremove", "cclear"}
      BY <1>8, Elsewhere DEF FiltersAlone
    <3>. QED
      BY <1>2, <1>3, <1>8, <3>1 DEF Start, WriterStep, ListenerCreate, ListenerSet,
         ListenerFind, ListenerRemove, ListenerAdd, ListenerClear, ListenerShow, RuleCreate,
         RuleTarget, RuleFind, RuleRemove, RuleAdd, RuleClear, RuleShow, NothingCreated,
         NoFilterCreated, NoChainCreated, FilterCreate, ChainFind, ChainAdd, FilterAdd,
         ChainRemove, ChainClear, FilterShow
  <2>2. /\ fdata' = [fdata EXCEPT ![wobj[w]].rule = RuleWithId(wline[w].rid)]
        /\ wobj' = wobj /\ rules' = rules /\ wobj[w] # NULL /\ wpc[w] = "frule"
    BY <1>3, <1>8, <2>1 DEF FilterSet
  <2>3. wobj[w] \in Filters /\ FilterMade[w] = wobj[w]
    BY <2>2 DEF MadeKinds, MadeOf, FilterMade
  <2>4. fdata[wobj[w]] \in FilterRecs
    BY <2>2, <2>3 DEF ListsSound, MadeOnce, ObjectTypes
  <2>5. fdata'[wobj[w]] = [fdata[wobj[w]] EXCEPT !.rule = RuleWithId(wline[w].rid)]
    BY <1>1, <2>2, <2>3
  <2>6. fdata'[wobj[w]].rule = RuleWithId(wline[w].rid)
    BY <2>4, <2>5 DEF FilterRecs
  <2>7. RuleWithId(wline[w].rid) \in ToSet(rules) \cup {NULL}
    BY RuleFound
  <2>. QED
    BY <1>8, <2>2, <2>6, <2>7 DEF FilterLive
<1>9. f \in FiltersInUse \/ FilterLive(f)'
  <2>1. \/ \E c \in Chains : f \in ToSet(FiltersOf(c)')
        \/ \E v \in Writers : wpc'[v] = "fadd" /\ f = wobj'[v]
    BY DEF FiltersInUse
  <2>. QED
    BY <1>6, <1>7, <1>8, <2>1
<1>. QED
  BY <1>4, <1>9

(* A walk goes from a listed filter to a listed rule, and from that to a   *)
(* listed listener.                                                        *)
LEMMA WalkStands ==
    ASSUME ForwardingAssumption, ObjectTypes, ThreadTypes, ListsSound, WalkOnList, WalkPointers,
           PointersInv, NEW t \in Threads, ThreadNext(t), NEW u \in Threads
    PROVE  (fpc'[u] = fpc[u] /\ fptr'[u] = fptr[u]) \/ WalkLive(u)'
<1>1. DOMAIN fpc = Threads /\ DOMAIN fptr = Threads
  BY DEF ThreadTypes
<1>2. UNCHANGED <<listeners, rules, chains, cdata>>
  BY DEF ThreadNext, Receive, Walk, Visit, Invoke, Send, objVars
<1>3. OnList(t) /\ PointerOK(t)
  BY DEF WalkOnList, OnList, WalkPointers, PointerOK
<1>4. /\ \E x : fpc' = [fpc EXCEPT ![t] = x]
      /\ \E x : fptr' = [fptr EXCEPT ![t] = x]
  BY <1>3, ThreadStep DEF ThreadDoes, StepTypes
<1>5. CASE u # t
  BY <1>1, <1>4, <1>5
<1>6. ASSUME NEW c, NextChain(t, c) PROVE fpc'[t] \in {"visit", "done"}
  BY <1>1, <1>6 DEF NextChain, Enter, Leave
<1>7. Advance(t) => fpc'[t] \in {"visit", "done"}
  BY <1>1, <1>6 DEF Advance, Enter
<1>8. Fault(t) => fpc'[t] = "oops"
  BY <1>1 DEF Fault
<1>9. ASSUME fpc'[t] \notin {"invoke", "send"} PROVE WalkLive(t)'
  BY <1>9 DEF WalkLive
<1>10. CASE (\E n \in Lens : Receive(t, n)) \/ Walk(t) \/ Send(t)
  BY <1>1, <1>6, <1>7, <1>8, <1>9, <1>10, <1>5 DEF Receive, Walk, Send
<1>11. CASE Visit(t)
  <2>. DEFINE f == FiltersOf(fpos[t][1])[fpos[t][2]]
  <2>1. fpc[t] = "visit" /\ cdata[fpos[t][1]] # NULL
    BY <1>3, <1>11, Visited DEF Visit
  <2>2. Judge(t, f)
    BY <1>11, <2>1 DEF Visit
  <2>3. CASE fpc'[t] \notin {"invoke", "send"}
    BY <1>5, <1>9, <2>3
  <2>4. CASE fpc'[t] \in {"invoke", "send"}
    <3>1. fdata[f].rule # NULL /\ fptr' = [fptr EXCEPT ![t] = fdata[f].rule]
          /\ fpc' = [fpc EXCEPT ![t] = "invoke"]
      BY <1>7, <1>8, <2>2, <2>4 DEF Judge
    <3>2. PICK c \in Chains : c = fpos[t][1]
      BY <1>3, <2>1, ChainFound DEF OnList
    <3>3. f \in ToSet(FiltersOf(c))
      BY <1>3, <2>1, <3>2 DEF OnList, ToSet
    <3>4. FilterLive(f)
      BY <3>3 DEF PointersInv, FiltersInUse
    <3>. HIDE DEF f
    <3>5. WalkLive(t)'
      BY <1>1, <1>2, <3>1, <3>4 DEF FilterLive, WalkLive
    <3>. QED
      BY <1>5, <3>5
  <2>. QED
    BY <2>3, <2>4
<1>12. CASE Invoke(t)
  <2>. DEFINE r == rdata[fptr[t]]
  <2>1. fpc[t] = "invoke"
    BY <1>12 DEF Invoke
  <2>2. CASE fpc'[t] \notin {"invoke", "send"}
    BY <1>5, <1>9, <2>2
  <2>3. CASE fpc'[t] \in {"invoke", "send"}
    <3>1. /\ r.aid = "fwrd" /\ fptr' = [fptr EXCEPT ![t] = r.l]
          /\ fpc' = [fpc EXCEPT ![t] = "send"]
      BY <1>7, <1>8, <1>12, <2>3 DEF Invoke
    <3>2. RuleLive(fptr[t])
      BY <2>1 DEF PointersInv, WalkLive, RulesInUse
    <3>3. WalkLive(t)'
      BY <1>1, <1>2, <3>1, <3>2 DEF RuleLive, WalkLive
    <3>. QED
      BY <1>5, <3>3
  <2>. QED
    BY <2>2, <2>3
<1>. QED
  BY <1>10, <1>11, <1>12 DEF ThreadNext

(* PointersInv holds as long as nothing goes that is pointed at.           *)
LEMMA PointersNext ==
    ForwardingAssumption /\ ScriptAssumption /\ FwdInv /\ PointersInv
        /\ [Next]_vars /\ InPointerOrder => PointersInv'
<1>. SUFFICES ASSUME ForwardingAssumption, ScriptAssumption, FwdInv, PointersInv,
                     [Next]_vars, InPointerOrder
              PROVE  PointersInv'
  OBVIOUS
<1>1. /\ ObjectTypes /\ WriterTypes /\ ThreadTypes /\ AtWork /\ MadeKinds /\ ListsSound
      /\ WalkOnList /\ WalkPointers
  BY DEF FwdInv, TypeOK
<1>2. ASSUME UNCHANGED vars PROVE PointersInv'
  <2>1. RulesInUse' = RulesInUse /\ FiltersInUse' = FiltersInUse
    BY <1>2 DEF vars, objVars, wrVars, RulesInUse, FiltersInUse, FiltersOf
  <2>2. UNCHANGED <<listeners, rules, rdata, fdata, wpc, wobj, wline, fpc, fptr>>
    BY <1>2 DEF vars, objVars, wrVars, thrVars
  <2>3. \A r \in RulesInUse : RuleLive(r)'
    BY <2>2 DEF PointersInv, RuleLive
  <2>4. \A f \in FiltersInUse : FilterLive(f)'
    BY <2>2 DEF PointersInv, FilterLive
  <2>. QED
    BY <2>1, <2>2, <2>3, <2>4 DEF PointersInv, WalkLive, AidKept
<1>3. ASSUME NEW w \in Writers, Start(w) \/ WriterStep(w) PROVE PointersInv'
  <2>1. UNCHANGED <<fpc, fptr>>
    BY <1>1, <1>3, WriterFrame DEF thrVars
  <2>2. \A r \in RulesInUse' : (r \in RulesInUse /\ rdata'[r] = rdata[r]) \/ RuleLive(r)'
    BY <1>1, <1>3, RulesStand
  <2>3. \A f \in FiltersInUse' :
            (f \in FiltersInUse /\ fdata'[f].rule = fdata[f].rule) \/ FilterLive(f)'
    BY <1>1, <1>3, FiltersStand
  <2>4. \A v \in Writers : AidKept(v)'
    BY <1>1, <1>3, AidsKept
  <2>. QED
    BY <2>1, <2>2, <2>3, <2>4, PointersCarry
<1>4. ASSUME NEW t \in Threads, ThreadNext(t) PROVE PointersInv'
  <2>1. UNCHANGED <<listeners, rules, chains, rdata, cdata, wrVars>> /\ Counted
    <3>1. OnList(t) /\ PointerOK(t)
      BY <1>1 DEF WalkOnList, OnList, WalkPointers, PointerOK
    <3>. QED
      BY <1>1, <1>4, <3>1, ThreadStep DEF ThreadDoes
  <2>2. RulesInUse' = RulesInUse /\ FiltersInUse' = FiltersInUse
    BY <2>1 DEF wrVars, RulesInUse, FiltersInUse, FiltersOf
  <2>3. \A f \in FiltersInUse : fdata'[f].rule = fdata[f].rule
    <3>1. SUFFICES ASSUME NEW f \in FiltersInUse, NEW g \in Filters, fdata[g] # NULL,
                          fdata' = [fdata EXCEPT ![g].count = CountUp(@)]
                   PROVE  fdata'[f].rule = fdata[f].rule
      BY <2>1 DEF Counted
    <3>2. fdata \in [Filters -> FilterRecs \cup {NULL}] /\ f \in Filters
      BY <1>1, FiltersUsed DEF ObjectTypes
    <3>3. CASE f # g
      BY <3>1, <3>2, <3>3
    <3>4. CASE f = g
      <4>1. fdata'[f] = [fdata[f] EXCEPT !.count = CountUp(@)] /\ fdata[f] \in FilterRecs
        BY <3>1, <3>2, <3>4
      <4>. QED
        BY <4>1 DEF FilterRecs
    <3>. QED
      BY <3>3, <3>4
  <2>4. \A u \in Threads : (fpc'[u] = fpc[u] /\ fptr'[u] = fptr[u]) \/ WalkLive(u)'
    BY <1>1, <1>4, WalkStands
  <2>5. \A v \in Writers : AidKept(v)'
    BY <2>1 DEF wrVars, PointersInv, AidKept
  <2>. QED
    BY <2>1, <2>2, <2>3, <2>4, <2>5, PointersCarry
<1>. QED
  BY <1>2, <1>3, <1>4 DEF Next

(* What PointersInv means for the lists.                                   *)
LEMMA PointersInvLive ==
    FwdInv /\ PointersInv => PointersLive
<1>. SUFFICES ASSUME FwdInv, PointersInv PROVE PointersLive
  OBVIOUS
<1>1. ToSet(rules) \subseteq RulesInUse
  BY DEF RulesInUse
<1>2. \A c \in ToSet(chains) : c \in Chains
  BY ChainFound DEF FwdInv, TypeOK
<1>3. \A c \in Chains : ToSet(FiltersOf(c)) \subseteq FiltersInUse
  BY DEF FiltersInUse
<1>. QED
  BY <1>1, <1>2, <1>3 DEF PointersInv, PointersLive, RuleLive, FilterLive, WalkLive

(* Nothing is listed yet.                                                  *)
LEMMA InitPointersInv == Init => PointersInv
<1>. SUFFICES ASSUME Init PROVE PointersInv
  OBVIOUS
<1>1. RulesInUse = {}
  BY DEF Init, RulesInUse, ToSet
<1>2. FiltersInUse = {}
  BY DEF Init, FiltersInUse, FiltersOf, ToSet
<1>. QED
  BY <1>1, <1>2 DEF Init, PointersInv, WalkLive, AidKept

(* rtap_rule_set_action and the setters of a filter look up what they will *)
(* point at, and list their own object critical sections later; a walk     *)
(* follows the pointers under no lock.  Where the users remove in the order*)
(* of the pointers, all that is pointed at is listed, whoever adds what    *)
(* meanwhile.                                                              *)
THEOREM PointersStayLive ==
    ASSUME ListsAlone(Script)
    PROVE  Spec /\ [][InPointerOrder]_vars => []PointersLive
<1>. USE ForwardingAssumption, ScriptAssumption, ObjectAssumption, InetAddrAssumption
<1>1. Init => PointersInv
  BY InitPointersInv
<1>2. FwdInv /\ PointersInv /\ [Next]_vars /\ [InPointerOrder]_vars => PointersInv'
  <2>1. UNCHANGED vars => InPointerOrder
    BY DEF vars, objVars, InPointerOrder
  <2>. QED
    BY <2>1, PointersNext
<1>3. FwdInv /\ PointersInv => PointersLive
  BY PointersInvLive
<1>. QED
  BY <1>1, <1>2, <1>3, FwdInvariant, PTL DEF Spec

(* Counting a frame changes nothing else of a filter.                      *)
LEMMA CountedFields ==
    ASSUME ForwardingAssumption, ObjectTypes, Counted, NEW f \in Filters
    PROVE  \/ fdata'[f] = fdata[f]
           \/ /\ fdata[f] \in FilterRecs
              /\ fdata'[f].type = fdata[f].type /\ fdata'[f].subtype = fdata[f].subtype
              /\ fdata'[f].size = fdata[f].size /\ fdata'[f].rule = fdata[f].rule
<1>1. CASE fdata' = fdata
  BY <1>1
<1>2. ASSUME NEW g \in Filters, fdata[g] # NULL,
             fdata' = [fdata EXCEPT ![g].count = CountUp(@)]
      PROVE  \/ fdata'[f] = fdata[f]
             \/ /\ fdata[f] \in FilterRecs
                /\ fdata'[f].type = fdata[f].type /\ fdata'[f].subtype = fdata[f].subtype
                /\ fdata'[f].size = fdata[f].size /\ fdata'[f].rule = fdata[f].rule
  <2>1. fdata[g] \in FilterRecs /\ DOMAIN fdata = Filters
    BY <1>2 DEF ObjectTypes
  <2>2. CASE f # g
    BY <1>2, <2>1, <2>2
  <2>3. CASE f = g
    <3>1. fdata'[f] = [fdata[f] EXCEPT !.count = CountUp(@)]
      BY <1>2, <2>1, <2>3
    <3>. QED
      BY <2>1, <2>3, <3>1 DEF FilterRecs
  <2>. QED
    BY <2>2, <2>3
<1>. QED
  BY <1>1, <1>2 DEF Counted

(* The type and the size of a filter are those of a line.                  *)
LEMMA FilterFields ==
    ASSUME ForwardingAssumption, ScriptAssumption, FwdInv, [Next]_vars,
           NEW f \in Filters, fdata'[f] # NULL
    PROVE  \/ /\ fdata[f] # NULL
              /\ fdata'[f].type = fdata[f].type /\ fdata'[f].size = fdata[f].size
           \/ \E line \in Written : /\ Entry(line) = "fcreate"
                                    /\ fdata'[f].type = line.type /\ fdata'[f].size = line.size
<1>. DEFINE Same == /\ fdata[f] # NULL
                    /\ fdata'[f].type = fdata[f].type /\ fdata'[f].size = fdata[f].size
            New == \E line \in Written :
                       /\ Entry(line) = "fcreate"
                       /\ fdata'[f].type = line.type /\ fdata'[f].size = line.size
<1>1. ObjectTypes /\ WriterTypes /\ ThreadTypes /\ AtWork /\ MadeKinds /\ ListsSound
  BY DEF FwdInv, TypeOK
<1>2. fdata \in [Filters -> FilterRecs \cup {NULL}]
  BY <1>1 DEF ObjectTypes
<1>3. fdata'[f] = fdata[f] => Same
  OBVIOUS
<1>4. ASSUME NEW w \in Writers, FilterCreate(w) PROVE Same \/ New
  <2>1. PICK g \in Filters :
            fdata' = [fdata EXCEPT ![g] =
                [fid |-> wline[w].id, type |-> wline[w].type, subtype |-> wline[w].subtype,
                 size |-> wline[w].size, rule |-> NULL, count |-> 0]]
    BY <1>4 DEF FilterCreate
  <2>2. wline[w] \in Written /\ Entry(wline[w]) = "fcreate"
    BY <1>1, <1>4 DEF FilterCreate, AtWork, WorkOf
  <2>3. f = g => fdata'[f].type = wline[w].type /\ fdata'[f].size = wline[w].size
    BY <1>2, <2>1
  <2>4. f # g => fdata'[f] = fdata[f]
    BY <1>2, <2>1
  <2>. QED
    BY <1>3, <2>2, <2>3, <2>4
<1>5. ASSUME NEW w \in Writers, FilterSet(w) PROVE Same
  <2>1. CASE fdata' = Clear(fdata, {wobj[w]})
    BY <1>2, <1>3, <2>1 DEF Clear
  <2>2. CASE fdata' # Clear(fdata, {wobj[w]})
    <3>. DEFINE g == wobj[w]
    <3>1. /\ wpc[w] = "frule" /\ g # NULL
          /\ fdata' = [fdata EXCEPT ![g].rule = RuleWithId(wline[w].rid)]
      BY <1>5, <2>2 DEF FilterSet
    <3>2. FilterMade[w] = g /\ g \in Filters
      BY <1>1, <3>1 DEF FilterMade, MadeKinds, MadeOf
    <3>3. fdata[g] \in FilterRecs /\ fdata[g] # NULL
      BY <1>1, <1>2, <3>1, <3>2 DEF ListsSound, MadeOnce
    <3>. HIDE DEF g
    <3>4. f # g => fdata'[f] = fdata[f]
      BY <1>2, <3>1
    <3>5. fdata'[g] = [fdata[g] EXCEPT !.rule = RuleWithId(wline[w].rid)]
      BY <1>2, <3>1, <3>2
    <3>6. f = g => Same
      BY <3>3, <3>5 DEF FilterRecs
    <3>. QED
      BY <1>3, <3>4, <3>6
  <2>. QED
    BY <2>1, <2>2
<1>6. ASSUME NEW w \in Writers, Start(w) \/ WriterStep(w), ~ (FilterCreate(w) \/ FilterSet(w))
      PROVE  Same
  <2>1. UNCHANGED fdata
    BY <1>6 DEF Start, WriterStep, ListenerCreate, ListenerSet, ListenerFind, ListenerRemove,
       ListenerAdd, ListenerClear, ListenerShow, RuleCreate, RuleTarget, RuleFind,
       RuleRemove, RuleAdd, RuleClear, RuleShow, NothingCreated, NoFilterCreated,
       NoChainCreated, ChainFind, ChainAdd, FilterAdd, ChainRemove, ChainClear,
       FilterShow, objVars
  <2>. QED
    BY <1>3, <2>1
<1>7. ASSUME NEW t \in Threads, ThreadNext(t) PROVE Same
  <2>1. OnList(t) /\ PointerOK(t)
    BY DEF FwdInv, WalkOnList, OnList, WalkPointers, PointerOK
  <2>2. Counted
    BY <1>1, <1>7, <2>1, ThreadStep DEF ThreadDoes
  <2>3. \/ fdata'[f] = fdata[f]
        \/ fdata[f] \in FilterRecs /\ fdata'[f].type = fdata[f].type
                                   /\ fdata'[f].size = fdata[f].size
    BY <1>1, <2>2, CountedFields
  <2>4. fdata[f] # NULL
    <3>1. CASE fdata' = fdata
      BY <3>1
    <3>2. ASSUME NEW g \in Filters, fdata[g] # NULL,
                 fdata' = [fdata EXCEPT ![g].count = CountUp(@)]
          PROVE  fdata[f] # NULL
      <4>1. f # g => fdata'[f] = fdata[f]
        BY <1>2, <3>2
      <4>. QED
        BY <3>2, <4>1
    <3>. QED
      BY <2>2, <3>1, <3>2 DEF Counted
  <2>. QED
    BY <1>3, <2>3, <2>4
<1>8. UNCHANGED vars => fdata' = fdata
  BY DEF vars, objVars
<1>. QED
  BY <1>3, <1>4, <1>5, <1>6, <1>7, <1>8 DEF Next

(* The filters are of types that rtap_filtertbl has functions for.         *)
FiltersKnown == \A f \in Filters : fdata[f] # NULL => fdata[f].type # "undefined"

(* No step makes another one, if no line does.                             *)
LEMMA KnownNext ==
    ASSUME ForwardingAssumption, ScriptAssumption, TypesKnown, FwdInv, FiltersKnown, [Next]_vars
    PROVE  FiltersKnown'
BY FilterFields DEF FiltersKnown, TypesKnown

(* A walk meets no freed memory, where what it points at is listed.        *)
LEMMA NoFault ==
    ASSUME ForwardingAssumption, FwdInv, PointersInv, FiltersKnown,
           NEW t \in Threads, Walk(t) \/ Visit(t) \/ Invoke(t) \/ Send(t)
    PROVE  fpc'[t] # "oops"
<1>1. /\ ObjectTypes /\ ThreadTypes /\ ListsSound /\ WalkOnList
      /\ t \in DOMAIN fpc
  BY DEF FwdInv, TypeOK, ThreadTypes
<1>2. OnList(t) /\ WalkLive(t)
  BY <1>1 DEF WalkOnList, OnList, PointersInv
<1>3. ASSUME NEW c, NextChain(t, c) PROVE fpc'[t] # "oops"
  BY <1>1, <1>3 DEF NextChain, Enter, Leave
<1>4. Advance(t) => fpc'[t] # "oops"
  BY <1>1, <1>3 DEF Advance, Enter
<1>5. CASE Walk(t)
  BY <1>3, <1>5 DEF Walk
<1>6. CASE Visit(t)
  <2>. DEFINE f == FiltersOf(fpos[t][1])[fpos[t][2]]
  <2>1. fpc[t] = "visit" /\ cdata[fpos[t][1]] # NULL
    BY <1>1, <1>2, <1>6, Visited DEF Visit
  <2>2. Judge(t, f)
    BY <1>6, <2>1 DEF Visit
  <2>3. PICK c \in Chains : c = fpos[t][1]
    BY <1>1, <1>2, <2>1, ChainFound DEF OnList
  <2>4. fpos[t][2] \in DOMAIN FiltersOf(c)
    BY <1>2, <2>1, <2>3 DEF OnList
  <2>5. f \in Filters
    BY <1>1, <2>3, <2>4, FiltersTyped
  <2>6. fdata[f] # NULL
    BY <1>1, <2>3, <2>4 DEF ListsSound, FiltersListedOnce
  <2>7. fdata[f].type # "undefined"
    BY <2>5, <2>6 DEF FiltersKnown
  <2>. HIDE DEF f
  <2>8. Advance(t) \/ fpc' = [fpc EXCEPT ![t] = "invoke"]
    BY <2>2, <2>7 DEF Judge
  <2>. QED
    BY <1>1, <1>4, <2>8
<1>7. CASE Invoke(t)
  <2>1. fptr[t] \in ToSet(rules)
    BY <1>2, <1>7 DEF Invoke, WalkLive
  <2>2. rdata[fptr[t]] # NULL
    BY <1>1, <2>1, RulesListed DEF ToSet
  <2>3. Advance(t) \/ fpc' = [fpc EXCEPT ![t] = "send"]
    BY <1>7, <2>2 DEF Invoke
  <2>. QED
    BY <1>1, <1>4, <2>3
<1>8. CASE Send(t)
  <2>1. fptr[t] \in ToSet(listeners)
    BY <1>2, <1>8 DEF Send, WalkLive
  <2>2. ldata[fptr[t]] # NULL
    BY <1>1, <2>1, ListenersListed DEF ToSet
  <2>3. Advance(t)
    BY <1>8, <2>2 DEF Send
  <2>. QED
    BY <1>4, <2>3
<1>. QED
  BY <1>5, <1>6, <1>7, <1>8

----------------------------------------------------------------------------
(* What a process has in its hand, and then what it has still to write.    *)
ToDo == [w \in Writers |-> IF wpc[w] = "idle" THEN todo[w] ELSE <<wline[w]>> \o todo[w]]

(* A step of a process leaves it all its lines, or all but the first.      *)
Onwards(list2, list, d) ==
    \A j \in DOMAIN list2 :
        j \in Nat \ {0} /\ j + d \in DOMAIN list /\ list2[j] = list[j + d]

(* d lines of the process are done with in this step.                      *)
Done(w, d) ==
    /\ Onwards(ToDo'[w], ToDo[w], d)
    /\ \A v \in Writers : v # w => ToDo'[v] = ToDo[v]

(* A line is over when it is refused at once, or the process returns.      *)
Over(w) ==
    IF wpc[w] = "idle" THEN Entry(ToDo[w][1]) = "error" ELSE wpc'[w] = "idle"

(* The line that a process is at work with goes when it is over.           *)
LEMMA ToDoStep ==
    ASSUME ScriptAssumption, WriterTypes, AtWork,
           NEW w \in Writers, Start(w) \/ WriterStep(w)
    PROVE  /\ Done(w, 0) \/ (Done(w, 1) /\ Over(w))
           /\ ListenerAdd(w) \/ RuleAdd(w) \/ (FilterAdd(w) /\ wpc'[w] = "idle")
                  => Done(w, 1)
           /\ wpc[w] # "idle" => 1 \in DOMAIN ToDo[w] /\ ToDo[w][1] = wline[w]
<1>1. /\ w \in DOMAIN wpc /\ w \in DOMAIN wline /\ w \in DOMAIN todo
      /\ todo[w] \in Seq(Written)
  BY DEF WriterTypes
<1>2. \A v \in Writers : v # w => ToDo'[v] = ToDo[v]
  <2>. TAKE v \in Writers
  <2>. HAVE v # w
  <2>1. wpc'[v] = wpc[v] /\ wline'[v] = wline[v] /\ todo'[v] = todo[v]
    BY WriterFrame DEF WriterTypes
  <2>. QED
    BY <2>1 DEF ToDo
<1>3. ASSUME wpc[w] # "idle"
      PROVE  /\ ToDo[w] \in Seq(Written) /\ ToDo[w] = <<wline[w]>> \o todo[w]
             /\ ToDo[w] # <<>> /\ Tail(ToDo[w]) = todo[w]
             /\ 1 \in DOMAIN ToDo[w] /\ ToDo[w][1] = wline[w]
  <2>1. PICK x \in Written : x = wline[w]
    BY <1>3 DEF AtWork, WorkOf
  <2>2. ToDo[w] = <<x>> \o todo[w]
    BY <1>3, <2>1 DEF ToDo
  <2>3. /\ <<x>> \o todo[w] \in Seq(Written) /\ Len(<<x>> \o todo[w]) = 1 + Len(todo[w])
        /\ (<<x>> \o todo[w])[1] = x
        /\ \A j \in 1 .. Len(todo[w]) : (<<x>> \o todo[w])[j + 1] = todo[w][j]
    BY <1>1
  <2>4. Tail(<<x>> \o todo[w]) = todo[w]
    BY <1>1, <2>3
  <2>. QED
    BY <1>1, <2>1, <2>2, <2>3, <2>4
<1>4. ASSUME NEW list \in Seq(Written), list # <<>>, ToDo'[w] = Tail(list), ToDo[w] = list
      PROVE  Onwards(ToDo'[w], ToDo[w], 1)
  <2>1. \A j \in DOMAIN Tail(list) :
            j \in Nat \ {0} /\ j + 1 \in DOMAIN list /\ Tail(list)[j] = list[j + 1]
    BY <1>4
  <2>. QED
    BY <1>4, <2>1 DEF Onwards
<1>5. ASSUME ToDo'[w] = ToDo[w] PROVE Onwards(ToDo'[w], ToDo[w], 0)
  <2>1. DOMAIN ToDo[w] \subseteq Nat \ {0}
    <3>1. CASE wpc[w] = "idle"
      BY <1>1, <3>1 DEF ToDo
    <3>2. CASE wpc[w] # "idle"
      BY <1>3, <3>2
    <3>. QED
      BY <3>1, <3>2
  <2>. QED
    BY <1>5, <2>1 DEF Onwards
<1>6. CASE Start(w)
  <2>1. /\ wpc[w] = "idle" /\ todo[w] # <<>> /\ todo'[w] = Tail(todo[w])
        /\ ~ ListenerAdd(w) /\ ~ RuleAdd(w) /\ ~ FilterAdd(w)
    BY <1>1, <1>6 DEF Start, ListenerAdd, RuleAdd, FilterAdd
  <2>2. ToDo[w] = todo[w]
    BY <2>1 DEF ToDo
  <2>3. CASE wpc'[w] = "idle"
    <3>1. ToDo'[w] = Tail(todo[w])
      BY <2>1, <2>3 DEF ToDo
    <3>2. Over(w)
      <4>1. Head(todo[w]) \in Written /\ Head(todo[w]) = todo[w][1]
        BY <1>1, <2>1, HeadTailProperties
      <4>2. Entry(Head(todo[w])) # "idle"
        BY <4>1, EntryStarts DEF Starts
      <4>3. Entry(Head(todo[w])) = "error"
        BY <1>1, <1>6, <2>3, <4>2 DEF Start, Goto
      <4>. QED
        BY <2>1, <2>2, <4>1, <4>3 DEF Over
    <3>. QED
      BY <1>1, <1>2, <1>4, <2>1, <2>2, <3>1, <3>2 DEF Done
  <2>4. CASE wpc'[w] # "idle"
    <3>1. wline'[w] = Head(todo[w])
      BY <1>1, <1>6, <2>1, <2>4 DEF Start
    <3>2. ToDo'[w] = <<Head(todo[w])>> \o Tail(todo[w])
      BY <2>1, <2>4, <3>1 DEF ToDo
    <3>3. <<Head(todo[w])>> \o Tail(todo[w]) = todo[w]
      BY <1>1, <2>1
    <3>. QED
      BY <1>2, <1>5, <2>1, <2>2, <3>2, <3>3 DEF Done
  <2>. QED
    BY <2>3, <2>4
<1>7. CASE WriterStep(w)
  <2>1. UNCHANGED todo /\ wpc[w] # "idle"
    BY <1>7 DEF WriterStep, ListenerCreate, ListenerSet, ListenerFind, ListenerRemove,
       ListenerAdd, ListenerClear, ListenerShow, RuleCreate, RuleTarget, RuleFind,
       RuleRemove, RuleAdd, RuleClear, RuleShow, NothingCreated, NoFilterCreated,
       NoChainCreated, FilterCreate, ChainFind, ChainAdd, FilterSet, FilterAdd,
       ChainRemove, ChainClear, FilterShow
  <2>2. Finish(w) \/ (UNCHANGED wline /\ wpc'[w] # "idle" /\ ~ ListenerAdd(w) /\ ~ RuleAdd(w))
    <3>1. \A pc : Goto(w, pc) => wpc'[w] = pc
      BY <1>1 DEF Goto
    <3>. QED
      BY <1>7, <2>1, <3>1 DEF WriterStep, ListenerCreate, ListenerSet, ListenerFind,
         ListenerRemove, ListenerAdd, ListenerClear, ListenerShow, RuleCreate, RuleTarget,
         RuleFind, RuleRemove, RuleAdd, RuleClear, RuleShow, NothingCreated, NoFilterCreated,
         NoChainCreated, FilterCreate, ChainFind, ChainAdd, FilterSet, FilterAdd,
         ChainRemove, ChainClear, FilterShow
  <2>3. CASE Finish(w)
    <3>1. ToDo'[w] = todo[w] /\ wpc'[w] = "idle"
      BY <1>1, <2>1, <2>3 DEF Finish, Goto, ToDo
    <3>2. Over(w)
      BY <2>1, <3>1 DEF Over
    <3>. QED
      BY <1>2, <1>3, <1>4, <2>1, <3>1, <3>2 DEF Done
  <2>4. CASE UNCHANGED wline /\ wpc'[w] # "idle" /\ ~ ListenerAdd(w) /\ ~ RuleAdd(w)
    <3>1. ToDo'[w] = ToDo[w]
      BY <2>1, <2>4 DEF ToDo
    <3>. QED
      BY <1>2, <1>3, <1>5, <2>1, <2>4, <3>1 DEF Done
  <2>. QED
    BY <2>2, <2>3, <2>4
<1>. QED
  BY <1>3, <1>6, <1>7

(* The lines that are left are lines that were there, less the first of w  *)
(* if that is over (d = 1).                                                *)
Remain(us, w, d) ==
    \A v \in us : \A j \in DOMAIN ToDo'[v] : \E k \in DOMAIN ToDo[v] :
        ToDo'[v][j] = ToDo[v][k] /\ (d = 1 /\ v = w => k # 1)

(* What was true of each line is true of each that is left.                *)
LEMMA LinesLeft ==
    ASSUME NEW us \in SUBSET Writers, NEW w \in us, NEW d \in {0, 1}, Done(w, d),
           KeysDiffer({ToDo}, us), \A v \in us : DOMAIN ToDo[v] \subseteq Nat \ {0}
    PROVE  KeysDiffer({ToDo'}, us) /\ Remain(us, w, d)
<1>. DEFINE I(v, j) == IF v = w THEN j + d ELSE j
<1>1. ASSUME NEW v \in us, NEW j \in DOMAIN ToDo'[v]
      PROVE  /\ j \in Nat \ {0} /\ I(v, j) \in DOMAIN ToDo[v]
             /\ ToDo'[v][j] = ToDo[v][I(v, j)]
             /\ d = 1 /\ v = w => I(v, j) # 1
  BY <1>1 DEF Done, Onwards
<1>2. ASSUME NEW v \in us, ~ WritesLine(ToDo[v], {"lfind"})
      PROVE  ~ WritesLine(ToDo'[v], {"lfind"})
  BY <1>1, <1>2 DEF WritesLine
<1>3. ASSUME NEW u \in us, NEW v \in us,
             NEW j \in DOMAIN ToDo'[v], NEW k \in DOMAIN ToDo'[u],
             SameKey(ToDo'[v][j], ToDo'[u][k])
      PROVE  v = u /\ j = k
  <2>1. SameKey(ToDo[v][I(v, j)], ToDo[u][I(u, k)])
    BY <1>1, <1>3
  <2>2. v = u /\ I(v, j) = I(u, k)
    <3>1. I(v, j) \in DOMAIN ToDo[v] /\ I(u, k) \in DOMAIN ToDo[u]
      BY <1>1
    <3>. HIDE DEF I
    <3>. QED
      BY <2>1, <3>1 DEF KeysDiffer
  <2>. QED
    BY <1>1, <2>2
<1>4. KeysDiffer({ToDo'}, us)
  BY <1>2, <1>3 DEF KeysDiffer
<1>5. Remain(us, w, d)
  BY <1>1 DEF Remain
<1>. QED
  BY <1>4, <1>5

(* Where no keys meet, no process gets to remove an entry: what it adds has*)
(* the key of its line, and nothing that is listed has a key of a line that*)
(* is in hand or still to come.                                            *)
KeyOK(w) ==
    /\ wpc[w] \notin {"lremove", "rremove"}
    /\ wpc[w] \in {"lset", "lfind", "ladd"} =>
           /\ Entry(wline[w]) = "lcreate" /\ wobj[w] # NULL
           /\ Endpoint[wobj[w]] = wline[w].ep
    /\ wpc[w] \in {"target", "rfind", "radd"} => RuleId[wobj[w]] = wline[w].id

KeyFree(line) ==
    /\ Entry(line) = "lcreate" => NoneHas(listeners, Endpoint, line.ep)
    /\ Entry(line) = "rcreate" => NoneHas(rules, RuleId, line.id)

KeysInv(us) ==
    /\ KeysDiffer({ToDo}, us)
    /\ \A w \in us : KeyOK(w)
    /\ \A w \in us : \A j \in DOMAIN ToDo[w] : KeyFree(ToDo[w][j])

(* A process that builds up does not clear a list either.                  *)
BuildInv(us) ==
    /\ KeysInv(us)
    /\ NoneClears({ToDo}, us)

(* Its own step: it finds no listener of its endpoint, no rule of its      *)
(* identifier.                                                             *)
LEMMA KeysOwn ==
    ASSUME ForwardingAssumption, ScriptAssumption, ObjectTypes, WriterTypes, AtWork, MadeKinds,
           ListsSound, NEW us \in SUBSET Writers, KeysInv(us),
           NEW w \in Writers, w \in us, Start(w) \/ WriterStep(w)
    PROVE  KeyOK(w)'
<1>1. /\ w \in DOMAIN wpc /\ w \in DOMAIN wline /\ w \in DOMAIN wobj /\ w \in DOMAIN wptr
      /\ DOMAIN ldata = Listeners /\ DOMAIN rdata = Rules
  BY DEF WriterTypes, ObjectTypes
<1>2. \A pc : Goto(w, pc) => wpc'[w] = pc
  BY <1>1 DEF Goto
<1>3. Finish(w) => wpc'[w] = "idle"
  BY <1>1 DEF Finish, Goto
<1>4. KeyOK(w) /\ WorkOf(w) /\ MadeOf(w) /\ NULL \notin Listeners /\ NULL \notin Rules
  BY DEF KeysInv, AtWork, MadeKinds, ForwardingAssumption
<1>. DEFINE Quiet == {"idle", "oops", "lcreate", "lclear", "lshow", "rcreate", "rclear",
                      "rshow", "fcreate", "cfind", "cadd", "frule", "fadd", "cremove",
                      "cclear", "fshow"}
<1>5. ASSUME wpc'[w] \in Quiet PROVE KeyOK(w)'
  BY <1>5 DEF KeyOK
<1>6. wpc[w] # "idle" => KeyFree(wline[w])
  <2>1. wpc[w] # "idle" => 1 \in DOMAIN ToDo[w] /\ ToDo[w][1] = wline[w]
    BY ToDoStep
  <2>. QED
    BY <2>1 DEF KeysInv
<1>7. CASE Start(w)
  <2>1. wpc[w] = "idle" /\ todo[w] # <<>> /\ todo[w] \in Seq(Written)
    BY <1>7 DEF Start, WriterTypes
  <2>2. Head(todo[w]) \in Written /\ 1 \in DOMAIN todo[w] /\ Head(todo[w]) = todo[w][1]
    BY <2>1, HeadTailProperties
  <2>3. ToDo[w] = todo[w]
    BY <2>1 DEF ToDo
  <2>4. Entry(Head(todo[w])) # "lfind"
    BY <2>2, <2>3 DEF KeysInv, KeysDiffer, WritesLine
  <2>5. Entry(Head(todo[w])) \in Starts
    BY <2>2, EntryStarts
  <2>6. wpc'[w] = "idle" \/ (wpc'[w] = Entry(Head(todo[w])) /\ wpc'[w] # "error")
    BY <1>2, <1>7, <2>1 DEF Start
  <2>. QED
    BY <1>5, <2>4, <2>5, <2>6 DEF Starts
<1>8. CASE ListenerCreate(w)
  <2>1. PICK l \in Listeners, stack \in [1 .. 4 -> Garbage] :
            /\ ldata' = [ldata EXCEPT ![l] =
                   [lid |-> wline[w].id, ep |-> wline[w].ep,
                    addr |-> inet_aton(wline[w].ep.ip, stack)]]
            /\ wobj' = [wobj EXCEPT ![w] = l]
    BY <1>8 DEF ListenerCreate
  <2>2. wpc[w] = "lcreate" /\ wpc'[w] = "lset" /\ wobj'[w] = l /\ wline' = wline
    BY <1>1, <1>2, <1>8, <2>1 DEF ListenerCreate
  <2>3. ldata'[l].ep = wline[w].ep
    BY <1>1, <2>1
  <2>4. Endpoint'[l] = wline[w].ep
    BY <2>3 DEF Endpoint
  <2>. QED
    BY <1>4, <2>2, <2>4 DEF KeyOK, WorkOf
<1>9. CASE ListenerFind(w)
  <2>1. wpc[w] = "lfind" /\ UNCHANGED <<listeners, ldata>> /\ Endpoint' = Endpoint
    BY <1>9 DEF ListenerFind, objVars, Endpoint
  <2>2. NoneHas(listeners, Endpoint, wline[w].ep) /\ wobj[w] # NULL
    BY <1>4, <1>6, <2>1 DEF KeyOK, KeyFree
  <2>3. ListenerWithEndpoint(wline[w].ep) = NULL
    <3>1. \A l \in ToSet(listeners) : ldata[l].ep # wline[w].ep
      BY <2>2, ListenersListed DEF NoneHas, Endpoint, ToSet
    <3>. QED
      BY <3>1 DEF ListenerWithEndpoint, FirstOf
  <2>4. wpc'[w] = "ladd" /\ UNCHANGED <<wline, wobj>>
    BY <1>2, <1>9, <2>2, <2>3 DEF ListenerFind
  <2>. QED
    BY <1>4, <2>1, <2>4 DEF KeyOK
<1>10. CASE RuleCreate(w)
  <2>1. PICK r \in Rules :
            /\ rdata' = [rdata EXCEPT ![r] =
                   [rid |-> wline[w].id, aid |-> wline[w].aid, l |-> NULL]]
            /\ wobj' = [wobj EXCEPT ![w] = r]
    BY <1>10 DEF RuleCreate
  <2>2. wpc'[w] = "target" /\ wobj'[w] = r /\ wline' = wline
    BY <1>1, <1>2, <1>10, <2>1 DEF RuleCreate
  <2>3. rdata'[r].rid = wline[w].id
    BY <1>1, <2>1
  <2>4. RuleId'[r] = wline[w].id
    BY <2>3 DEF RuleId
  <2>. QED
    BY <2>2, <2>4 DEF KeyOK
<1>11. CASE RuleTarget(w)
  <2>1. CASE wpc'[w] = "idle"
    BY <1>5, <2>1
  <2>2. CASE wpc'[w] # "idle"
    <3>1. PICK l : rdata' = [rdata EXCEPT ![wobj[w]].l = l]
      BY <1>3, <1>11, <2>2 DEF RuleTarget
    <3>2. wpc'[w] = "rfind" /\ UNCHANGED <<wline, wobj>> /\ wpc[w] = "target"
      BY <1>2, <1>3, <1>11, <2>2 DEF RuleTarget
    <3>3. wobj[w] \in Rules /\ RuleMade[w] = wobj[w]
      BY <1>4, <3>2 DEF MadeOf, RuleMade
    <3>4. rdata[wobj[w]] \in RuleRecs
      BY <1>4, <3>3, RulesListed DEF ObjectTypes
    <3>5. rdata'[wobj[w]] = [rdata[wobj[w]] EXCEPT !.l = l]
      BY <1>1, <3>1, <3>3
    <3>6. rdata'[wobj[w]].rid = rdata[wobj[w]].rid
      BY <3>4, <3>5 DEF RuleRecs
    <3>7. RuleId'[wobj[w]] = RuleId[wobj[w]]
      BY <3>3, <3>6 DEF RuleId
    <3>. QED
      BY <1>4, <3>2, <3>7 DEF KeyOK
  <2>. QED
    BY <2>1, <2>2
<1>12. CASE RuleFind(w)
  <2>1. wpc[w] = "rfind" /\ UNCHANGED <<rules, rdata, wline, wobj>> /\ RuleId' = RuleId
    BY <1>12 DEF RuleFind, objVars, RuleId
  <2>2. NoneHas(rules, RuleId, wline[w].id)
    BY <1>4, <1>6, <2>1 DEF WorkOf, KeyFree
  <2>3. RuleWithId(wline[w].id) = NULL
    <3>1. ASSUME NEW j \in DOMAIN rules PROVE rdata[rules[j]].rid # wline[w].id
      <4>1. rules[j] \in Rules
        BY RulesListed
      <4>2. RuleId[rules[j]] = rdata[rules[j]].rid
        BY <4>1 DEF RuleId
      <4>. QED
        BY <2>2, <4>2 DEF NoneHas
    <3>2. \A r \in ToSet(rules) : rdata[r].rid # wline[w].id
      BY <3>1 DEF ToSet
    <3>. QED
      BY <3>2 DEF RuleWithId, FirstOf
  <2>4. wpc'[w] = "radd"
    BY <1>2, <1>12, <2>3 DEF RuleFind
  <2>. QED
    BY <1>4, <2>1, <2>4 DEF KeyOK
<1>13. CASE ListenerSet(w)
  <2>1. CASE wpc'[w] = "idle"
    BY <1>5, <2>1
  <2>2. CASE wpc'[w] # "idle"
    <3>1. UNCHANGED <<ldata, wline, wobj>> /\ wpc[w] = "lset" /\ wpc'[w] = "lfind"
      BY <1>2, <1>3, <1>13, <2>2 DEF ListenerSet
    <3>2. Endpoint' = Endpoint
      BY <3>1 DEF Endpoint
    <3>. QED
      BY <1>4, <3>1, <3>2 DEF KeyOK
  <2>. QED
    BY <2>1, <2>2
<1>14. CASE ~ (\/ Start(w) \/ ListenerCreate(w) \/ ListenerSet(w) \/ ListenerFind(w)
               \/ RuleCreate(w) \/ RuleTarget(w) \/ RuleFind(w))
  <2>1. ~ (ListenerRemove(w) \/ RuleRemove(w))
    BY <1>4 DEF KeyOK, ListenerRemove, RuleRemove
  <2>2. wpc'[w] \in Quiet
    BY <1>2, <1>3, <1>14, <2>1 DEF WriterStep, ListenerAdd, ListenerClear, ListenerShow,
       RuleAdd, RuleClear, RuleShow, NothingCreated, NoFilterCreated, NoChainCreated, FilterCreate, ChainFind,
       ChainAdd, FilterSet, FilterAdd, ChainRemove, ChainClear, FilterShow
  <2>. QED
    BY <1>5, <2>2
<1>. QED
  BY <1>7, <1>8, <1>9, <1>10, <1>11, <1>12, <1>13, <1>14

(* The steps of others leave it what it has made.                          *)
LEMMA KeysOther ==
    ASSUME ForwardingAssumption, ObjectTypes, WriterTypes, AtWork, MadeKinds, ListsSound,
           NEW us \in SUBSET Writers, KeysInv(us),
           NEW w \in Writers, Start(w) \/ WriterStep(w), NEW v \in us, v \in Writers, v # w
    PROVE  KeyOK(v)'
<1>1. wpc'[v] = wpc[v] /\ wline'[v] = wline[v] /\ wobj'[v] = wobj[v]
  BY WriterFrame DEF WriterTypes
<1>2. KeyOK(v) /\ MadeOf(v) /\ NULL \notin Rules
  BY DEF KeysInv, MadeKinds, ForwardingAssumption
<1>3. wpc[v] \in {"lset", "lfind", "ladd"} => Endpoint'[wobj[v]] = Endpoint[wobj[v]]
  <2>1. SUFFICES ASSUME wpc[v] \in {"lset", "lfind", "ladd"}
                 PROVE  Endpoint'[wobj[v]] = Endpoint[wobj[v]]
    OBVIOUS
  <2>2. ListenerMade[v] = wobj[v] /\ wobj[v] # NULL
    BY <1>2, <2>1 DEF ListenerMade, KeyOK
  <2>3. CASE ListenerAdd(w)
    BY <2>3 DEF ListenerAdd, Endpoint
  <2>4. CASE ~ ListenerAdd(w)
    BY <2>2, <2>4, ListenersLessen DEF ListenersLess
  <2>. QED
    BY <2>3, <2>4
<1>4. wpc[v] \in {"target", "rfind", "radd"} => RuleId'[wobj[v]] = RuleId[wobj[v]]
  <2>1. SUFFICES ASSUME wpc[v] \in {"target", "rfind", "radd"}
                 PROVE  RuleId'[wobj[v]] = RuleId[wobj[v]]
    OBVIOUS
  <2>2. RuleMade[v] = wobj[v] /\ wobj[v] # NULL
    BY <1>2, <2>1 DEF RuleMade, MadeOf
  <2>3. CASE RuleAdd(w)
    BY <2>3 DEF RuleAdd, RuleId
  <2>4. CASE ~ RuleAdd(w)
    BY <2>2, <2>4, RulesLessen DEF RulesLess
  <2>. QED
    BY <2>3, <2>4
<1>. QED
  BY <1>1, <1>2, <1>3, <1>4 DEF KeyOK

(* The keys of the lines that are left stay free.                          *)
LEMMA KeysStayFree ==
    ASSUME ForwardingAssumption, ScriptAssumption, ObjectTypes, WriterTypes, AtWork,
           MadeKinds, ListsSound, ListsSound', NEW us \in SUBSET Writers, KeysInv(us),
           NEW w \in Writers, w \in us, Start(w) \/ WriterStep(w),
           NEW d \in {0, 1}, Done(w, d), ListenerAdd(w) \/ RuleAdd(w) => d = 1,
           NEW v \in us, NEW k \in DOMAIN ToDo[v], d = 1 /\ v = w => k # 1,
           NEW line, line = ToDo[v][k]
    PROVE  KeyFree(line)'
<1>1. KeyFree(line)
  BY DEF KeysInv
<1>2. wpc[w] # "idle" => 1 \in DOMAIN ToDo[w] /\ ToDo[w][1] = wline[w]
  BY ToDoStep
<1>3. d = 1 /\ wpc[w] # "idle" => ~ SameKey(wline[w], line)
  <2>1. SUFFICES ASSUME d = 1, wpc[w] # "idle", SameKey(wline[w], line) PROVE FALSE
    OBVIOUS
  <2>2. SameKey(ToDo[w][1], ToDo[v][k])
    BY <1>2, <2>1
  <2>3. w = v /\ 1 = k
    BY <1>2, <2>1, <2>2 DEF KeysInv, KeysDiffer
  <2>. QED
    BY <2>1, <2>3
<1>4. KeyOK(w) /\ MadeOf(w) /\ WorkOf(w)
  BY DEF KeysInv, MadeKinds, AtWork
<1>5. ASSUME Entry(line) = "lcreate" PROVE NoneHas(listeners', Endpoint', line.ep)
  <2>1. CASE ListenerAdd(w)
    <3>1. /\ wpc[w] = "ladd" /\ listeners' = Append(listeners, wobj[w]) /\ ldata' = ldata
          /\ wobj[w] \in Listeners /\ listeners \in Seq(Listeners)
      BY <1>4, <2>1 DEF ListenerAdd, MadeOf, ObjectTypes
    <3>2. Entry(wline[w]) = "lcreate" /\ Endpoint[wobj[w]] = wline[w].ep
      BY <1>4, <3>1 DEF KeyOK
    <3>3. Endpoint[wobj[w]] # line.ep
      BY <1>3, <1>5, <2>1, <3>1, <3>2 DEF SameKey
    <3>4. Endpoint' = Endpoint
      BY <3>1 DEF Endpoint
    <3>5. \A j \in DOMAIN listeners' :
              listeners'[j] = wobj[w] \/ \E m \in DOMAIN listeners : listeners'[j] = listeners[m]
      BY <3>1, AppendProperties
    <3>6. \A j \in DOMAIN listeners : Endpoint[listeners[j]] # line.ep
      BY <1>1, <1>5 DEF KeyFree, NoneHas
    <3>. QED
      BY <3>3, <3>4, <3>5, <3>6 DEF NoneHas
  <2>2. CASE ~ ListenerAdd(w)
    <3>1. Within(listeners', Endpoint', listeners, Endpoint)
      BY <2>2, ListenersLessen DEF ListenersLess
    <3>. QED
      BY <1>1, <1>5, <3>1 DEF KeyFree, NoneHas, Within
  <2>. QED
    BY <2>1, <2>2
<1>6. ASSUME Entry(line) = "rcreate" PROVE NoneHas(rules', RuleId', line.id)
  <2>1. CASE RuleAdd(w)
    <3>1. /\ wpc[w] = "radd" /\ rules' = Append(rules, wobj[w]) /\ rdata' = rdata
          /\ wobj[w] \in Rules /\ rules \in Seq(Rules)
      BY <1>4, <2>1 DEF RuleAdd, MadeOf, ObjectTypes
    <3>2. Entry(wline[w]) = "rcreate" /\ RuleId[wobj[w]] = wline[w].id
      BY <1>4, <3>1 DEF KeyOK, WorkOf
    <3>3. RuleId[wobj[w]] # line.id
      BY <1>3, <1>6, <2>1, <3>1, <3>2 DEF SameKey
    <3>4. RuleId' = RuleId
      BY <3>1 DEF RuleId
    <3>5. \A j \in DOMAIN rules' :
              rules'[j] = wobj[w] \/ \E m \in DOMAIN rules : rules'[j] = rules[m]
      BY <3>1, AppendProperties
    <3>6. \A j \in DOMAIN rules : RuleId[rules[j]] # line.id
      BY <1>1, <1>6 DEF KeyFree, NoneHas
    <3>. QED
      BY <3>3, <3>4, <3>5, <3>6 DEF NoneHas
  <2>2. CASE ~ RuleAdd(w)
    <3>1. Within(rules', RuleId', rules, RuleId)
      BY <2>2, RulesLessen DEF RulesLess
    <3>. QED
      BY <1>1, <1>6, <3>1 DEF KeyFree, NoneHas, Within
  <2>. QED
    BY <2>1, <2>2
<1>. QED
  BY <1>5, <1>6 DEF KeyFree

(* KeysInv is inductive, as long as only those that keep to it do anything.*)
LEMMA KeysNext ==
    ASSUME ForwardingAssumption, ScriptAssumption, FwdInv, FwdInv',
           NEW us \in SUBSET Writers, KeysInv(us),
           \/ UNCHANGED <<listeners, rules, ldata, rdata, wrVars>>
           \/ \E w \in us : Start(w) \/ WriterStep(w)
           \/ \E t \in Threads : ThreadNext(t)
    PROVE  KeysInv(us)'
<1>1. /\ ObjectTypes /\ WriterTypes /\ ThreadTypes /\ AtWork /\ MadeKinds /\ ListsSound
      /\ ListsSound'
  BY DEF FwdInv, TypeOK
<1>2. ASSUME UNCHANGED <<listeners, rules, ldata, rdata, wrVars>>
      PROVE  KeysInv(us)'
  <2>1. Endpoint' = Endpoint /\ RuleId' = RuleId /\ ToDo' = ToDo
    BY <1>2 DEF Endpoint, RuleId, ToDo, wrVars
  <2>2. \A w \in us : KeyOK(w)'
    BY <1>2, <2>1 DEF KeysInv, KeyOK, wrVars
  <2>3. \A x : KeyFree(x)' <=> KeyFree(x)
    BY <1>2, <2>1 DEF KeyFree
  <2>4. \A w \in us : \A j \in DOMAIN ToDo[w] : KeyFree(ToDo[w][j])
    BY DEF KeysInv
  <2>5. \A w \in us : \A j \in DOMAIN ToDo'[w] : KeyFree(ToDo[w][j])'
    BY <2>1, <2>4, <1>2 DEF KeyFree
  <2>6. KeysDiffer({ToDo}, us)'
    BY <2>1 DEF KeysInv
  <2>. QED
    BY <1>2, <2>2, <2>5, <2>6 DEF KeysInv
<1>3. ASSUME NEW w \in us, w \in Writers, Start(w) \/ WriterStep(w)
      PROVE  KeysInv(us)'
  <2>1. PICK d \in {0, 1} : Done(w, d) /\ (ListenerAdd(w) \/ RuleAdd(w) => d = 1)
    BY <1>1, <1>3, ToDoStep
  <2>2. KeysDiffer({ToDo}, us) /\ \A v \in us : DOMAIN ToDo[v] \subseteq Nat \ {0}
    <3>1. ASSUME NEW v \in us PROVE DOMAIN ToDo[v] \subseteq Nat \ {0}
      <4>1. todo[v] \in Seq(Written)
        BY <1>1 DEF WriterTypes
      <4>2. wpc[v] # "idle" => wline[v] \in Written
        BY <1>1 DEF AtWork, WorkOf
      <4>3. ToDo[v] \in Seq(Written)
        BY <4>1, <4>2 DEF ToDo
      <4>. QED
        BY <4>3
    <3>. QED
      BY <3>1 DEF KeysInv
  <2>3. KeysDiffer({ToDo'}, us) /\ Remain(us, w, d)
    <3>1. /\ us \in SUBSET Writers /\ w \in us /\ d \in {0, 1}
          /\ Done(w, d) /\ KeysDiffer({ToDo}, us)
          /\ \A v \in us : DOMAIN ToDo[v] \subseteq Nat \ {0}
      BY <2>1, <2>2
    <3>. QED
      BY ONLY <3>1, LinesLeft, Zenon
  <2>5. ASSUME NEW v \in us, NEW j \in DOMAIN ToDo'[v] PROVE KeyFree(ToDo[v][j])'
    <3>1. PICK line : line = ToDo'[v][j]
      OBVIOUS
    <3>2. PICK k \in DOMAIN ToDo[v] : line = ToDo[v][k] /\ (d = 1 /\ v = w => k # 1)
      BY <2>3, <2>5, <3>1 DEF Remain
    <3>3. KeyFree(line)'
      BY <1>1, <1>3, <2>1, <3>2, KeysStayFree
    <3>. QED
      BY <3>1, <3>3 DEF KeyFree
  <2>6. ASSUME NEW v \in us PROVE KeyOK(v)'
    <3>1. CASE v = w
      BY <1>1, <1>3, <3>1, KeysOwn
    <3>2. CASE v # w
      BY <1>1, <1>3, <3>2, KeysOther
    <3>. QED
      BY <3>1, <3>2
  <2>. QED
    BY <2>3, <2>5, <2>6 DEF KeysInv
<1>4. ASSUME NEW t \in Threads, ThreadNext(t)
      PROVE  UNCHANGED <<listeners, rules, ldata, rdata, wrVars>>
  BY <1>4 DEF ThreadNext, Receive, Walk, Visit, Invoke, Send, objVars
<1>. QED
  BY <1>2, <1>3, <1>4

(* It holds at first.                                                      *)
LEMMA KeysInit ==
    ASSUME Init, KeysDiffer({todo}, Writers)
    PROVE  KeysInv(Writers)
<1>1. \A w \in Writers : wpc[w] = "idle"
  BY DEF Init
<1>2. \A w \in Writers : ToDo[w] = todo[w]
  BY <1>1 DEF ToDo
<1>3. KeysDiffer({ToDo}, Writers)
  BY <1>2 DEF KeysDiffer
<1>4. \A line : KeyFree(line)
  BY DEF Init, KeyFree, NoneHas
<1>. QED
  BY <1>1, <1>3, <1>4 DEF KeysInv, KeyOK

(* The lists only grow.                                                    *)
LEMMA ListsGrow ==
    ASSUME ScriptAssumption, ObjectTypes, WriterTypes, AtWork,
           NEW us \in SUBSET Writers, BuildInv(us),
           NEW w \in Writers, w \in us, Start(w) \/ WriterStep(w)
    PROVE  ToSet(listeners) \subseteq ToSet(listeners') /\ ToSet(rules) \subseteq ToSet(rules')
<1>1. KeyOK(w) /\ WorkOf(w)
  BY DEF BuildInv, KeysInv, AtWork
<1>2. ~ (ListenerRemove(w) \/ ListenerClear(w) \/ RuleRemove(w) \/ RuleClear(w))
  <2>1. wpc[w] # "idle" => Entry(wline[w]) \notin {"lclear", "rclear"}
    <3>1. wpc[w] # "idle" => 1 \in DOMAIN ToDo[w] /\ ToDo[w][1] = wline[w]
      BY ToDoStep
    <3>. QED
      BY <3>1 DEF BuildInv, NoneClears, WritesLine
  <2>. QED
    BY <1>1, <2>1 DEF KeyOK, WorkOf, ListenerRemove, ListenerClear, RuleRemove, RuleClear
<1>3. ASSUME NEW S, NEW list \in Seq(S), NEW x PROVE ToSet(list) \subseteq ToSet(Append(list, x))
  <2>1. \A j \in DOMAIN list : j \in DOMAIN Append(list, x) /\ Append(list, x)[j] = list[j]
    OBVIOUS
  <2>. QED
    BY <2>1 DEF ToSet
<1>4. CASE ListenerAdd(w)
  BY <1>3, <1>4 DEF ListenerAdd, ObjectTypes
<1>5. CASE RuleAdd(w)
  BY <1>3, <1>5 DEF RuleAdd, ObjectTypes
<1>6. CASE ~ (ListenerAdd(w) \/ RuleAdd(w))
  <2>1. UNCHANGED <<listeners, rules>>
    BY <1>2, <1>6 DEF Start, WriterStep, ListenerCreate, ListenerSet, ListenerFind,
       ListenerShow, RuleCreate, RuleTarget, RuleFind, RuleShow, NothingCreated,
       NoFilterCreated, NoChainCreated, FilterCreate, ChainFind, ChainAdd, FilterSet,
       FilterAdd, ChainRemove, ChainClear, FilterShow, objVars
  <2>. QED
    BY <2>1
<1>. QED
  BY <1>4, <1>5, <1>6

(* And so is BuildInv.                                                     *)
LEMMA BuildNext ==
    ASSUME ForwardingAssumption, ScriptAssumption, FwdInv, FwdInv',
           NEW us \in SUBSET Writers, BuildInv(us),
           \/ UNCHANGED <<listeners, rules, ldata, rdata, wrVars>>
           \/ \E w \in us : Start(w) \/ WriterStep(w)
           \/ \E t \in Threads : ThreadNext(t)
    PROVE  BuildInv(us)' /\ InPointerOrder
<1>1. ObjectTypes /\ WriterTypes /\ AtWork
  BY DEF FwdInv, TypeOK
<1>2. KeysInv(us)'
  BY KeysNext DEF BuildInv
<1>3. ASSUME UNCHANGED <<listeners, rules, ldata, rdata, wrVars>>
      PROVE  NoneClears({ToDo}, us)' /\ InPointerOrder
  <2>1. ToDo' = ToDo
    BY <1>3 DEF ToDo, wrVars
  <2>. QED
    BY <1>3, <2>1 DEF BuildInv, InPointerOrder
<1>4. ASSUME NEW w \in us, Start(w) \/ WriterStep(w)
      PROVE  NoneClears({ToDo}, us)' /\ InPointerOrder
  <2>1. PICK d \in {0, 1} : Done(w, d)
    BY <1>1, <1>4, ToDoStep
  <2>2. ASSUME NEW v \in us, NEW j \in DOMAIN ToDo'[v]
        PROVE  \E k \in DOMAIN ToDo[v] : ToDo'[v][j] = ToDo[v][k]
    BY <2>1, <2>2 DEF Done, Onwards
  <2>3. NoneClears({ToDo}, us)'
    BY <2>2 DEF BuildInv, NoneClears, WritesLine
  <2>4. InPointerOrder
    BY <1>1, <1>4, ListsGrow DEF InPointerOrder
  <2>. QED
    BY <2>3, <2>4
<1>5. ASSUME NEW t \in Threads, ThreadNext(t)
      PROVE  UNCHANGED <<listeners, rules, ldata, rdata, wrVars>>
  BY <1>5 DEF ThreadNext, Receive, Walk, Visit, Invoke, Send, objVars
<1>. QED
  BY <1>2, <1>3, <1>4, <1>5 DEF BuildInv

(* Where the users only build up, each adding what nobody else adds, that  *)
(* order is kept.                                                          *)
LEMMA BuildingOrdered ==
    ASSUME BuildsUp(Script, Writers)
    PROVE  Spec => [][InPointerOrder]_vars
<1>. USE ForwardingAssumption, ScriptAssumption, ObjectAssumption, InetAddrAssumption
<1>1. Init => BuildInv(Writers)
  <2>. SUFFICES ASSUME Init PROVE BuildInv(Writers)
    OBVIOUS
  <2>1. todo \in Script /\ \A w \in Writers : wpc[w] = "idle"
    BY DEF Init
  <2>2. \A w \in Writers : ToDo[w] = todo[w]
    BY <2>1 DEF ToDo
  <2>3. NoneClears({ToDo}, Writers)
    BY <2>1, <2>2 DEF BuildsUp, NoneClears
  <2>4. KeysDiffer({todo}, Writers)
    BY <2>1 DEF BuildsUp, KeysDiffer
  <2>. QED
    BY <2>3, <2>4, KeysInit DEF BuildInv
<1>2. FwdInv /\ FwdInv' /\ BuildInv(Writers) /\ [Next]_vars
          => BuildInv(Writers)' /\ InPointerOrder
  <2>. SUFFICES ASSUME FwdInv, FwdInv', BuildInv(Writers), [Next]_vars
                PROVE  BuildInv(Writers)' /\ InPointerOrder
    OBVIOUS
  <2>1. \/ UNCHANGED <<listeners, rules, ldata, rdata, wrVars>>
        \/ \E w \in Writers : Start(w) \/ WriterStep(w)
        \/ \E t \in Threads : ThreadNext(t)
    BY DEF Next, vars, objVars
  <2>. QED
    BY <2>1, BuildNext
<1>. QED
  BY <1>1, <1>2, FwdInvariant, PTL DEF Spec

(* Then what a line points at is there to stay, even though every search is*)
(* over long before what it found is used.                                 *)
THEOREM BuildingKeepsPointers ==
    ASSUME BuildsUp(Script, Writers)
    PROVE  Spec => []PointersLive
<1>1. ListsAlone(Script)
  BY DEF BuildsUp, KeysDiffer, ListsAlone
<1>. QED
  BY <1>1, BuildingOrdered, PointersStayLive, PTL

----------------------------------------------------------------------------
(* The lists stay whole *)

(* What a line is that leads to a reader, or to a filter.                  *)
LEMMA EntryFiles ==
    ASSUME ScriptAssumption, NEW line \in Written
    PROVE  /\ Entry(line) \in {"rshow", "fshow"} => line.first = "read"
           /\ Entry(line) = "fcreate" => line.file = "filters"
<1>1. LineOK(line)
  BY DEF ScriptAssumption
<1>2. CASE line.file = "listeners"
  BY <1>2 DEF Entry, ListenerLine
<1>3. CASE line.file = "rules"
  BY <1>3 DEF Entry, RuleLine
<1>4. CASE line.file = "filters"
  BY <1>4 DEF Entry, FilterLine
<1>5. CASE line.file = "exit"
  BY <1>1, <1>5 DEF Entry, LineOK
<1>. QED
  BY <1>1, <1>2, <1>3, <1>4, <1>5 DEF LineOK

(* Only listener_remove and rtap_rule_remove tear a list.                  *)
NotTorn == ~ Torn("listeners") /\ ~ Torn("rules")

LEMMA NotTornStep ==
    ASSUME ScriptAssumption, WriterTypes, AtWork, NotTorn,
           NEW w \in Writers, Start(w) \/ WriterStep(w),
           wpc'[w] = "oops" => ~ ListenerRemove(w) /\ ~ RuleRemove(w)
    PROVE  NotTorn'
<1>1. \A v \in Writers : v # w => wpc'[v] = wpc[v] /\ wline'[v] = wline[v]
  BY WriterFrame DEF WriterTypes
<1>2. w \in DOMAIN wpc /\ w \in DOMAIN wline
  BY DEF WriterTypes
<1>3. \A pc : Goto(w, pc) => wpc'[w] = pc
  BY <1>2 DEF Goto
<1>4. Finish(w) => wpc'[w] = "idle"
  BY <1>2 DEF Finish, Goto
<1>5. ASSUME wpc'[w] = "oops"
      PROVE  wline'[w].first = "read" \/ wline'[w].file = "filters"
  <2>1. ~ Start(w)
    <3>1. SUFFICES ASSUME Start(w) PROVE FALSE
      OBVIOUS
    <3>2. Head(todo[w]) \in Written
      BY <3>1, HeadTailProperties DEF Start, WriterTypes
    <3>3. wpc'[w] \in Starts \cup {"idle"}
      BY <1>3, <3>1, <3>2, EntryStarts DEF Start
    <3>. QED
      BY <1>5, <3>3 DEF Starts
  <2>2. RuleShow(w) \/ FilterShow(w) \/ FilterAdd(w)
    BY <1>3, <1>4, <1>5, <2>1 DEF WriterStep, ListenerCreate, ListenerSet, ListenerFind,
       ListenerAdd, ListenerClear, ListenerShow, RuleCreate, RuleTarget, RuleFind,
       RuleAdd, RuleClear, NothingCreated, NoFilterCreated, NoChainCreated, FilterCreate,
       ChainFind, ChainAdd, FilterSet, ChainRemove, ChainClear
  <2>3. wpc[w] \in {"rshow", "fshow", "fadd"} /\ wline'[w] = wline[w]
    BY <1>4, <1>5, <2>2 DEF RuleShow, FilterShow, FilterAdd
  <2>4. wline[w] \in Written /\ Entry(wline[w]) \in {"rshow", "fshow", "fcreate"}
    BY <2>3 DEF AtWork, WorkOf
  <2>. QED
    BY <2>3, <2>4, EntryFiles
<1>6. ASSUME NEW v \in Writers, wpc'[v] = "oops", wline'[v].first # "read"
      PROVE  wline'[v].file \notin {"listeners", "rules"}
  <2>1. CASE v = w
    BY <1>5, <1>6, <2>1
  <2>2. CASE v # w
    BY <1>1, <1>6, <2>2 DEF NotTorn, Torn
  <2>. QED
    BY <2>1, <2>2
<1>. QED
  BY <1>6 DEF NotTorn, Torn

(* One process uses the two lists: what it has found is still listed when  *)
(* it takes it out, and nobody else is there.                              *)
AloneInv ==
    /\ OneWriter(ListLines)
    /\ \A w \in Writers :
           /\ wpc[w] = "lremove" => wptr[w] \in ToSet(listeners)
           /\ wpc[w] = "rremove" => wptr[w] \in ToSet(rules)

(* Whoever uses one of the lists has such a line.                          *)
LEMMA UsersHaveLines ==
    ASSUME AtWork, NEW w \in Writers,
           \/ UsesListeners(w) \/ UsesRules(w)
           \/ wpc[w] \in {"lcreate", "lset", "lfind", "lremove", "ladd", "lclear",
                          "rcreate", "target", "rfind", "rremove", "radd", "rclear"}
    PROVE  HasLine(w, ListLines)
<1>1. WorkOf(w)
  BY DEF AtWork
<1>2. wpc[w] \in {"lcreate", "lset", "lfind", "lremove", "ladd", "lclear", "lshow", "rcreate",
                 "target", "rfind", "rremove", "radd", "rclear", "rshow", "frule"}
  BY DEF UsesListeners, UsesRules
<1>3. Entry(wline[w]) \in ListLines
  BY <1>1, <1>2 DEF WorkOf, ListLines
<1>. QED
  BY <1>2, <1>3 DEF HasLine

(* It then never meets another one.                                        *)
LEMMA AloneUntorn ==
    ASSUME AtWork, WriterTypes, AloneInv, NEW w \in Writers, ListenerRemove(w) \/ RuleRemove(w)
    PROVE  wpc'[w] # "oops"
<1>1. w \in DOMAIN wpc
  BY DEF WriterTypes
<1>2. \A pc : Goto(w, pc) => wpc'[w] = pc
  BY <1>1 DEF Goto
<1>3. Finish(w) => wpc'[w] = "idle"
  BY <1>1 DEF Finish, Goto
<1>4. wpc[w] \in {"lremove", "rremove"}
  BY DEF ListenerRemove, RuleRemove
<1>5. HasLine(w, ListLines)
  BY <1>4, UsersHaveLines
<1>6. \A v \in Writers \ {w} : ~ UsesListeners(v) /\ ~ UsesRules(v)
  BY <1>5, UsersHaveLines DEF AloneInv, OneWriter
<1>. QED
  BY <1>2, <1>3, <1>6 DEF AloneInv, ListenerRemove, RuleRemove

(* And stays alone.                                                        *)
LEMMA AloneStep ==
    ASSUME ScriptAssumption, ObjectTypes, WriterTypes, AtWork, AloneInv,
           NEW w \in Writers, Start(w) \/ WriterStep(w)
    PROVE  AloneInv'
<1>. DEFINE OK(v) == /\ wpc[v] = "lremove" => wptr[v] \in ToSet(listeners)
                     /\ wpc[v] = "rremove" => wptr[v] \in ToSet(rules)
<1>1. w \in DOMAIN wpc /\ w \in DOMAIN wptr
  BY DEF WriterTypes
<1>2. \A pc : Goto(w, pc) => wpc'[w] = pc
  BY <1>1 DEF Goto
<1>3. Finish(w) => wpc'[w] = "idle"
  BY <1>1 DEF Finish, Goto
<1>4. OneWriter(ListLines)'
  BY OneWriterStep DEF AloneInv
<1>5. ASSUME wpc'[w] = "lremove" PROVE wptr'[w] \in ToSet(listeners')
  <2>1. ListenerFind(w)
    <3>1. ~ ListenersAlone(w)
      BY <1>5 DEF ListenersAlone
    <3>2. wpc[w] \in {"lcreate", "lset", "lfind", "lremove", "ladd", "lclear"}
      BY <3>1, Elsewhere
    <3>3. \/ ListenerCreate(w) \/ ListenerSet(w) \/ ListenerFind(w) \/ ListenerRemove(w)
          \/ ListenerAdd(w) \/ ListenerClear(w) \/ NothingCreated(w)
      BY <3>2 DEF Start, WriterStep, ListenerShow, RuleCreate, RuleTarget, RuleFind,
         RuleRemove, RuleAdd, RuleClear, RuleShow, NoFilterCreated, NoChainCreated,
         FilterCreate, ChainFind, ChainAdd, FilterSet, FilterAdd, ChainRemove, ChainClear,
         FilterShow
    <3>. QED
      BY <1>2, <1>3, <1>5, <3>3 DEF ListenerCreate, ListenerSet, ListenerRemove, ListenerAdd,
         ListenerClear, NothingCreated
  <2>. DEFINE l == IF wobj[w] = NULL
                   THEN ListenerWithId(wline[w].id)
                   ELSE ListenerWithEndpoint(wline[w].ep)
  <2>2. l \in ToSet(listeners) \cup {NULL}
    BY ListenerFound
  <2>3. wptr'[w] = l /\ l # NULL /\ listeners' = listeners
    BY <1>1, <1>2, <1>3, <1>5, <2>1 DEF ListenerFind, objVars
  <2>. HIDE DEF l
  <2>. QED
    BY <2>2, <2>3
<1>6. ASSUME wpc'[w] = "rremove" PROVE wptr'[w] \in ToSet(rules')
  <2>1. RuleFind(w)
    <3>1. ~ RulesAlone(w)
      BY <1>6 DEF RulesAlone
    <3>2. wpc[w] \in {"rcreate", "target", "rfind", "rremove", "radd", "rclear"}
      BY <3>1, Elsewhere
    <3>3. \/ RuleCreate(w) \/ RuleTarget(w) \/ RuleFind(w) \/ RuleRemove(w)
          \/ RuleAdd(w) \/ RuleClear(w) \/ NothingCreated(w)
      BY <3>2 DEF Start, WriterStep, ListenerCreate, ListenerSet, ListenerFind,
         ListenerRemove, ListenerAdd, ListenerClear, ListenerShow, RuleShow,
         NoFilterCreated, NoChainCreated, FilterCreate, ChainFind, ChainAdd, FilterSet,
         FilterAdd, ChainRemove, ChainClear, FilterShow
    <3>. QED
      BY <1>2, <1>3, <1>6, <3>3 DEF RuleCreate, RuleTarget, RuleRemove, RuleAdd, RuleClear,
         NothingCreated
  <2>. DEFINE r == RuleWithId(wline[w].id)
  <2>2. r \in ToSet(rules) \cup {NULL}
    BY RuleFound
  <2>3. wptr'[w] = r /\ r # NULL /\ rules' = rules
    BY <1>1, <1>2, <1>6, <2>1 DEF RuleFind, objVars
  <2>. HIDE DEF r
  <2>. QED
    BY <2>2, <2>3
<1>7. ASSUME NEW v \in Writers, v # w PROVE OK(v)'
  <2>1. wpc'[v] = wpc[v] /\ wptr'[v] = wptr[v]
    BY <1>7, WriterFrame DEF WriterTypes
  <2>2. ASSUME wpc[v] \in {"lremove", "rremove"} PROVE UNCHANGED <<listeners, rules>>
    <3>1. HasLine(v, ListLines)
      BY <2>2, UsersHaveLines
    <3>2. ~ HasLine(w, ListLines)
      BY <1>7, <3>1 DEF AloneInv, OneWriter
    <3>3. wpc[w] \notin {"lcreate", "lset", "lfind", "lremove", "ladd", "lclear",
                        "rcreate", "target", "rfind", "rremove", "radd", "rclear"}
      BY <3>2, UsersHaveLines
    <3>. QED
      BY <3>3, Elsewhere DEF ListenersAlone, RulesAlone
  <2>. QED
    BY <2>1, <2>2 DEF AloneInv
<1>. QED
  BY <1>4, <1>5, <1>6, <1>7 DEF AloneInv

(* Either way no list is torn.                                             *)
WholeInv == NotTorn /\ (AloneInv \/ KeysInv(Writers))

LEMMA WholeInit ==
    ASSUME ForwardingAssumption, ListsAlone(Script), Init
    PROVE  WholeInv
<1>1. todo \in Script /\ \A w \in Writers : wpc[w] = "idle"
  BY DEF Init
<1>2. NotTorn
  BY <1>1 DEF NotTorn, Torn
<1>3. CASE OneWrites({todo}, ListLines)
  <2>1. \A v \in Writers : HasLine(v, ListLines) => WritesLine(todo[v], ListLines)
    BY <1>1 DEF HasLine
  <2>2. OneWriter(ListLines)
    BY <1>3, <2>1 DEF OneWriter, OneWrites
  <2>. QED
    BY <1>1, <1>2, <2>2 DEF WholeInv, AloneInv
<1>4. CASE KeysDiffer({todo}, Writers)
  BY <1>2, <1>4, KeysInit DEF WholeInv
<1>. QED
  BY <1>1, <1>3, <1>4 DEF ListsAlone

LEMMA WholeNext ==
    ASSUME ForwardingAssumption, ScriptAssumption, FwdInv, FwdInv', WholeInv,
           \/ UNCHANGED <<listeners, rules, ldata, rdata, wrVars>>
           \/ \E w \in Writers : Start(w) \/ WriterStep(w)
           \/ \E t \in Threads : ThreadNext(t)
    PROVE  WholeInv'
<1>1. ScriptAssumption /\ ObjectTypes /\ WriterTypes /\ AtWork /\ NotTorn
  BY DEF FwdInv, TypeOK, WholeInv
<1>2. KeysInv(Writers) => KeysInv(Writers)'
  BY KeysNext
<1>3. ASSUME UNCHANGED <<listeners, rules, ldata, rdata, wrVars>> PROVE WholeInv'
  <2>1. NotTorn'
    BY <1>1, <1>3 DEF NotTorn, Torn, wrVars
  <2>2. AloneInv => AloneInv'
    BY <1>3 DEF AloneInv, OneWriter, HasLine, WritesLine, wrVars
  <2>. QED
    BY <1>2, <2>1, <2>2 DEF WholeInv
<1>4. ASSUME NEW w \in Writers, Start(w) \/ WriterStep(w) PROVE WholeInv'
  <2>1. CASE AloneInv
    <3>1. NotTorn'
      BY <1>1, <1>4, <2>1, AloneUntorn, NotTornStep
    <3>. QED
      BY <1>1, <1>4, <2>1, <3>1, AloneStep DEF WholeInv
  <2>2. CASE KeysInv(Writers)
    <3>1. ~ ListenerRemove(w) /\ ~ RuleRemove(w)
      BY <2>2 DEF KeysInv, KeyOK, ListenerRemove, RuleRemove
    <3>2. NotTorn'
      BY <1>1, <1>4, <3>1, NotTornStep
    <3>. QED
      BY <1>2, <2>2, <3>2 DEF WholeInv
  <2>. QED
    BY <2>1, <2>2 DEF WholeInv
<1>5. ASSUME NEW t \in Threads, ThreadNext(t)
      PROVE  UNCHANGED <<listeners, rules, ldata, rdata, wrVars>>
  BY <1>5 DEF ThreadNext, Receive, Walk, Visit, Invoke, Send, objVars
<1>. QED
  BY <1>3, <1>4, <1>5

(* ListsWhole: listener_remove and rtap_rule_remove take an entry out of   *)
(* its list under no lock, and an add is three critical sections; no list  *)
(* is corrupted for all that where one process at most uses the two lists, *)
(* or no lines meet that make a process take a single entry out.           *)
THEOREM ListsStayWhole ==
    ASSUME ListsAlone(Script)
    PROVE  Spec => []ListsWhole
<1>. USE ForwardingAssumption, ScriptAssumption, ObjectAssumption, InetAddrAssumption
<1>1. Init => WholeInv
  BY WholeInit
<1>2. FwdInv /\ FwdInv' /\ WholeInv /\ [Next]_vars => WholeInv'
  <2>1. [Next]_vars => \/ UNCHANGED <<listeners, rules, ldata, rdata, wrVars>>
                       \/ \E w \in Writers : Start(w) \/ WriterStep(w)
                       \/ \E t \in Threads : ThreadNext(t)
    BY DEF Next, vars, objVars
  <2>. QED
    BY <2>1, WholeNext
<1>3. FwdInv /\ WholeInv => ListsWhole
  BY DEF FwdInv, WholeInv, NotTorn, ListsWhole
<1>. QED
  BY <1>1, <1>2, <1>3, FwdInvariant, PTL DEF Spec

(* listener_add removes the listener of the same endpoint, if one is found,*)
(* and appends its own, in three critical sections.  As long as one process*)
(* adds listeners no two of them have one endpoint, whoever removes, clears*)
(* and reads them meanwhile, until a removal tears the list: which it never*)
(* does where ListsStayWhole says so.                                      *)
THEOREM EndpointsAreUnique ==
    ASSUME OneWrites(Script, {"lcreate"})
    PROVE  /\ Spec => [](~ Torn("listeners") => EndpointsUnique)
           /\ ListsAlone(Script) => (Spec => [](ListsWhole /\ EndpointsUnique))
<1>1. Spec => [](~ Torn("listeners") => EndpointsUnique)
  BY EndpointsOnce, PTL
<1>2. ASSUME ListsAlone(Script) PROVE Spec => [](ListsWhole /\ EndpointsUnique)
  BY <1>2, ListsStayWhole, EndpointsOnce, PTL
<1>. QED
  BY <1>1, <1>2

(* rtap_rule_add replaces the rule of the same identifier in the same way: *)
(* as long as one process adds rules no two of them have one identifier,   *)
(* until the list is torn, which the same condition rules out.             *)
THEOREM RuleIdsAreUnique ==
    ASSUME OneWrites(Script, {"rcreate"})
    PROVE  /\ Spec => [](~ Torn("rules") => RuleIdsUnique)
           /\ ListsAlone(Script) => (Spec => [](ListsWhole /\ RuleIdsUnique))
<1>1. Spec => [](~ Torn("rules") => RuleIdsUnique)
  BY RuleIdsOnce, PTL
<1>2. ASSUME ListsAlone(Script) PROVE Spec => [](ListsWhole /\ RuleIdsUnique)
  BY <1>2, ListsStayWhole, RuleIdsOnce, PTL
<1>. QED
  BY <1>1, <1>2

(* Of listeners, rules, chains and filters, two kinds of step lose one: a  *)
(* chain is removed, and its filters stay allocated, or cannot be made for *)
(* a filter that is.  No line that is refused loses an object, and no      *)
(* allocation that fails loses another one.  (The socket of a listener is  *)
(* no object here: destroying any listener leaves it open.)                *)
THEOREM LossesAreKnown ==
    ASSUME ListsAlone(Script), OneWrites(Script, FilterLines), KindsApart
    PROVE  Spec => []ListsWhole /\ LossesKnown
BY ListsStayWhole, LossesByStep, PTL
=============================================================================
