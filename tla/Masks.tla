------------------------------- MODULE Masks --------------------------------
(***************************************************************************)
(* bonxai_core's Mask: one bit for each cell of a grid, kept in words.  A  *)
(* mask is an array of words, a word the set of its bits that are on.      *)
(***************************************************************************)
EXTENDS Integers, Sequences

CONSTANT WordBits       (* bits of a word; 64 in the code                    *)

ASSUME WordAssumption == WordBits \in Nat \ {0}

Least(S) == CHOOSE n \in S : \A k \in S : n <= k

(* Of a grid with so many cells along an axis. *)
MaskSize(side) == side * side * side
WordCount(size) == IF size >= WordBits THEN size \div WordBits ELSE 1

NewMask(size) == [i \in 0 .. WordCount(size) - 1 |-> {}]

maskIsOn(m, n) == (n % WordBits) \in m[n \div WordBits]
setOn(m, n) == [m EXCEPT ![n \div WordBits] = @ \cup {n % WordBits}]
setOff(m, n) == [m EXCEPT ![n \div WordBits] = @ \ {n % WordBits}]
maskIsOff(m) == \A i \in DOMAIN m : m[i] = {}

FirstIn(m, words, size) ==
    IF words = {} THEN size
    ELSE Least(words) * WordBits + Least(m[Least(words)])

findFirstOn(m, size) == FirstIn(m, {i \in DOMAIN m : m[i] # {}}, size)

findNextOn_SkipsWord(m, start, size) ==
    LET n == start \div WordBits
        rest == {b \in m[n] : b >= start % WordBits}
    IN  IF n >= WordCount(size) \/ rest = {} THEN size
        ELSE n * WordBits + Least(rest)

findNextOn(m, start, size) ==
    LET n == start \div WordBits
        rest == {b \in m[n] : b >= start % WordBits}
    IN  CASE n >= WordCount(size)                -> size
          [] n < WordCount(size) /\ rest # {}    -> n * WordBits + Least(rest)
          [] OTHER -> FirstIn(m, {i \in DOMAIN m : i > n /\ m[i] # {}}, size)

(* The bits that are on, in the order an iterator visits them. *)
beginOn(m, size) ==
    LET visit[pos \in 0 .. size] ==
            IF pos = size THEN <<>> ELSE <<pos>> \o visit[findNextOn(m, pos + 1, size)]
    IN  visit[findFirstOn(m, size)]
=============================================================================
