--------------------------------- MODULE Bits ---------------------------------
(***************************************************************************)
(* Bit vectors.  A vector is the set of the positions of its ones: bit 0 of *)
(* the first byte of a C++ vector, or of a packed SystemVerilog array, is   *)
(* position 0.                                                             *)
(***************************************************************************)
EXTENDS Naturals, Sequences, FiniteSets

Xor(v, w) == (v \ w) \cup (w \ v)

\* The n bits from position lo on, as a vector of their own; and back.
Slice(v, lo, n) == {b - lo : b \in v \cap (lo .. lo + n - 1)}
At(v, lo) == {b + lo : b \in v}

\* The XOR of all bits.
Odd(v) == Cardinality(v) % 2 = 1

\* Numbers as vectors: one of w bits, and groups of 16 bits, the top one first.
OfNumber(k, w) == {b \in 0 .. w - 1 : (k \div 2^b) % 2 = 1}
OfHalfWords(h) == UNION {At(OfNumber(h[i], 16), 16 * (Len(h) - i)) : i \in 1 .. Len(h)}

\* A substitution table for nibbles, given by the images of 0, 1, ..., 15.
Box(images) ==
  LET One(v, b) == IF b \in v THEN 2^b ELSE 0
      NumberOf(v) == One(v, 0) + One(v, 1) + One(v, 2) + One(v, 3)
  IN [v \in SUBSET (0 .. 3) |-> OfNumber(images[NumberOf(v) + 1], 4)]

\* The table applied to the nibbles 0 .. n - 1.
Substituted(v, n, box) == UNION {At(box[Slice(v, 4 * i, 4)], 4 * i) : i \in 0 .. n - 1}
=============================================================================
