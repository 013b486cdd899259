------------------------------ MODULE InetAddr ------------------------------
(***************************************************************************)
(* inet_aton and inet_ntoa of ksocket.c.  The text of an address is the    *)
(* sequence of the numbers that "%d.%d.%d.%d" finds in it: four for a      *)
(* dotted quad, fewer where the text goes wrong.  An address is the value  *)
(* of the 32-bit word: htonl and ntohl, which undo each other on the way   *)
(* to the network, are left out.                                           *)
(***************************************************************************)
EXTENDS Integers, Sequences, SequencesExt

CONSTANT OCTET_BITS     \* 8

ASSUME InetAddrAssumption == OCTET_BITS \in Nat \ {0}

WORD_BITS == 4 * OCTET_BITS

Pow2 ==
    LET pow[n \in 0 .. WORD_BITS] == IF n = 0 THEN 1 ELSE 2 * pow[n - 1]
    IN  pow

OCTET == Pow2[OCTET_BITS]
WORD == Pow2[WORD_BITS]

BitAt(n, i) == (n \div Pow2[i]) % 2

(* m | n, of two words: the number that their lowest k bits make, for      *)
(* each k, and the whole.                                                  *)
OrBit(m, n, i) == IF BitAt(m, i) + BitAt(n, i) = 0 THEN 0 ELSE 1

Ors(m, n) ==
    LET or[k \in 0 .. WORD_BITS] ==
            IF k = 0 THEN 0 ELSE or[k - 1] + OrBit(m, n, k - 1) * Pow2[k - 1]
    IN  or

BitOr(m, n) == Ors(m, n)[WORD_BITS]

(* The variables a, b, c and d: sscanf assigns those that the text has a   *)
(* number for, and the others keep what was on the stack.                  *)
Assigned(text, stack) ==
    [j \in 1 .. 4 |-> IF j <= Len(text) THEN text[j] ELSE stack[j]]

ShiftNothing(addr) == addr
ShiftOctet(addr) == (addr * OCTET) % WORD

OrOctet(addr, n) == BitOr(ShiftOctet(addr), n % WORD)

inet_aton(text, stack) ==
    LET v == Assigned(text, stack)
    IN  OrOctet(OrOctet(OrOctet(v[1] % WORD, v[2]), v[3]), v[4])

inet_ntoa(addr) ==
    LET c == addr \div OCTET
        b == c \div OCTET
        a == b \div OCTET
    IN  <<a % OCTET, b % OCTET, c % OCTET, addr % OCTET>>
=============================================================================
