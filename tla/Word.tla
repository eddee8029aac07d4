-------------------------------- MODULE Word --------------------------------
(***************************************************************************)
(* The bit operators of bitops.h and the field operators of mm.h and       *)
(* cpu-tlbcache.h.  A word is the set of the positions of its one bits, so *)
(* that & is \cap, | is \cup, & ~ is \ and a shift moves every position.   *)
(* A number that is put into a field or taken out of one is a word too.    *)
(***************************************************************************)
EXTENDS Integers

BIT(nr) == {nr}

GENMASK(h, l) == l .. h

\* The position of the highest one bit: log2 of a power of two.
NBITS(n) == CHOOSE b \in n : \A c \in n : c <= b

Shl(v, k) == {b + k : b \in v}
Shr(v, k) == {b - k : b \in v \ (0 .. k - 1)}

SETBIT(v, mask) == v \cup mask
CLRBIT(v, mask) == v \ mask

SETVAL(v, value, mask, offst) == (v \ mask) \cup (Shl(value, offst) \cap mask)
GETVAL(v, mask, offst) == Shr(v \cap mask, offst)

\* Numbers are written as words with Bits, for words of up to 31 bits.
Bits(n) == {b \in 0..30 : (n \div 2^b) % 2 = 1}
=============================================================================
